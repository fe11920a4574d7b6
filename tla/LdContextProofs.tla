--------------------------- MODULE LdContextProofs ---------------------------
(***************************************************************************)
(* Proofs about LdConnect, the bootstrap, and about the ledger of LdContext, *)
(* for any number of contexts and of reconnects, and any application.       *)
(***************************************************************************)
EXTENDS LdContext, TLAPS

(***************************************************************************)
(* ld_gateway_connect has its URL                                           *)
(***************************************************************************)

\* ld_connect passes a stage only with what the stage is there to bring, and a
\* connection keeps it.
StagesInOrder ==
    /\ pc = "user" => gateway_bot_url
    /\ pc = "lws" => gateway_bot_url
    /\ connected => gateway_bot_url
    /\ pc = "lws" \/ connected => current_user # "NULL"

\* Every step keeps the order.
LEMMA StagesStep ==
    ASSUME StagesInOrder, [Next]_vars
    PROVE  StagesInOrder'
  <1> USE DEF StagesInOrder
  <1>1. CASE UNCHANGED vars
    BY <1>1 DEF vars
  <1>2. CASE ld_connect
    BY <1>2 DEF ld_connect
  <1>3. CASE Skip("gateway", gateway_url, "gateway_bot")
    BY <1>3 DEF Skip
  <1>4. CASE Skip("gateway_bot", gateway_bot_url, "user")
    BY <1>4 DEF Skip
  <1>5. CASE Skip("user", current_user # "NULL", "lws")
    BY <1>5 DEF Skip
  <1>6. CASE GetGateway
    BY <1>6 DEF GetGateway, Fails
  <1>7. CASE GetGatewayBot
    BY <1>7 DEF GetGatewayBot, BotError, Fails
  <1>8. CASE GetCurrentUser
    BY <1>8 DEF GetCurrentUser, UserAfter, Fails
  <1>9. CASE GatewayConnects \/ GatewayCantConnect
    BY <1>9 DEF GatewayConnects, GatewayCantConnect, Fails
  <1>10. CASE Disconnect
    BY <1>10 DEF Disconnect, KeepsUrls
  <1>11. CASE AppSends \/ AppGetsUser
    BY <1>11 DEF AppSends, Sends, AppGetsUser
  <1>12. CASE Crashed
    BY <1>12 DEF Crashed, vars
  <1> QED
    BY <1>1, <1>2, <1>3, <1>4, <1>5, <1>6, <1>7, <1>8, <1>9, <1>10, <1>11, <1>12
       DEF Next, Connecting

\* ConnectHasUrl for every application, one that posts and gets whenever it likes
\* included: no failure of a request lets ld_connect reach ld_gateway_connect
\* without the URL of /gateway/bot.
THEOREM UrlBeforeConnect == Spec => []ConnectHasUrl
  <1>1. Init => StagesInOrder
    BY DEF Init, StagesInOrder
  <1>2. StagesInOrder /\ [Next]_vars => StagesInOrder'
    BY StagesStep
  <1>3. StagesInOrder => ConnectHasUrl
    BY DEF StagesInOrder, ConnectHasUrl
  <1> QED
    BY <1>1, <1>2, <1>3, PTL DEF Spec

(***************************************************************************)
(* Requests go out as they were made                                        *)
(***************************************************************************)

\* An application that posts when connected only, and makes its own GETs before it posts.
Careful == ~AppSendsEarly /\ ~AppGetsLate

\* Nothing is left to be asked for.
AllAsked == gateway_url /\ gateway_bot_url /\ current_user # "NULL"

\* The handle turns into a POST handle, with a body that may be freed, only when
\* nothing is left to be asked for; so every GET finds it as it was made.
HandleInvariant ==
    /\ pc \in {"gateway_bot", "user", "lws"} => gateway_url
    /\ pc \in {"user", "lws"} => gateway_bot_url
    /\ pc = "lws" => current_user # "NULL"
    /\ connected => AllAsked
    /\ AllAsked \/ curl_handle = [method |-> "GET", body |-> "none"]
    /\ curl_handle.method = "GET" => curl_handle.body = "none"
    /\ RequestsAsMade

\* A GET over an untouched handle goes out as it was made.
LEMMA CleanGet ==
    ASSUME curl_handle.method = "GET", curl_handle.body = "none", NEW answer, Get(answer)
    PROVE  RequestsAsMade' /\ curl_handle' = curl_handle
  BY DEF Get, SendRequest, HandleFor, RequestsAsMade

\* A POST goes out as it was made whatever the handle was.
LEMMA AnyPost ==
    ASSUME NEW body, NEW answer, ld_send_basic_message(body, answer), body # "freed"
    PROVE  RequestsAsMade' /\ curl_handle'.method = "POST"
  BY DEF ld_send_basic_message, SendRequest, HandleFor, RequestsAsMade

\* Every step keeps the handle invariant, if the application posts when nothing is left
\* to be asked for and makes its GETs before it posts.
LEMMA HandleStep ==
    ASSUME HandleInvariant, [Next]_vars,
           AppSends => AllAsked,
           AppGetsUser => curl_handle.method = "GET"
    PROVE  HandleInvariant'
  <1> USE DEF HandleInvariant, AllAsked
  <1>a. ASSUME UNCHANGED rest_vars
        PROVE  UNCHANGED curl_handle /\ RequestsAsMade'
    BY <1>a DEF rest_vars, RequestsAsMade
  <1>1. CASE UNCHANGED vars
    BY <1>1, <1>a DEF vars
  <1>2. CASE ld_connect
    BY <1>2, <1>a DEF ld_connect
  <1>3. CASE Skip("gateway", gateway_url, "gateway_bot")
    BY <1>3, <1>a DEF Skip
  <1>4. CASE Skip("gateway_bot", gateway_bot_url, "user")
    BY <1>4, <1>a DEF Skip
  <1>5. CASE Skip("user", current_user # "NULL", "lws")
    BY <1>5, <1>a DEF Skip
  <1>6. CASE GetGateway
    <2>1. RequestsAsMade' /\ curl_handle' = curl_handle
      BY <1>6, CleanGet DEF GetGateway
    <2> QED
      BY <1>6, <2>1 DEF GetGateway, Fails
  <1>7. CASE GetGatewayBot
    <2>1. RequestsAsMade' /\ curl_handle' = curl_handle
      BY <1>7, CleanGet DEF GetGatewayBot
    <2> QED
      BY <1>7, <2>1 DEF GetGatewayBot, BotError, Fails
  <1>8. CASE GetCurrentUser
    <2>1. RequestsAsMade' /\ curl_handle' = curl_handle
      <3>1. CASE UNCHANGED rest_vars
        BY <1>a, <3>1
      <3>2. CASE \E answer \in Answer : Get(answer)
        BY <1>8, <3>2, CleanGet DEF GetCurrentUser
      <3> QED
        BY <1>8, <3>1, <3>2 DEF GetCurrentUser
    <2> QED
      BY <1>8, <2>1 DEF GetCurrentUser, UserAfter, Fails
  <1>9. CASE GatewayConnects \/ GatewayCantConnect
    BY <1>9, <1>a DEF GatewayConnects, GatewayCantConnect, Fails
  <1>10. CASE Disconnect
    BY <1>10, <1>a DEF Disconnect, KeepsUrls
  <1>11. CASE AppSends
    BY <1>11, AnyPost DEF AppSends, Sends, MessageBody
  <1>12. CASE Crashed
    BY <1>12, <1>a DEF Crashed, vars
  <1>13. CASE AppGetsUser
    <2>1. RequestsAsMade' /\ curl_handle' = curl_handle
      BY <1>13, CleanGet DEF AppGetsUser
    <2> QED
      BY <1>13, <2>1 DEF AppGetsUser
  <1> QED
    BY <1>1, <1>2, <1>3, <1>4, <1>5, <1>6, <1>7, <1>8, <1>9, <1>10, <1>11, <1>12, <1>13
       DEF Next, Connecting

\* RequestsAsMade for every application that posts when connected only and makes no
\* GET of its own after that, however often its connection is lost.
THEOREM CarefulApplication == Careful /\ Spec => []RequestsAsMade
  <1>1. Init => HandleInvariant
    BY DEF Init, RestInit, HandleInvariant, AllAsked, RequestsAsMade
  <1>2. Careful /\ HandleInvariant /\ [Next]_vars => HandleInvariant'
    BY HandleStep DEF Careful, HandleInvariant, AppSends, Sends, AppGetsUser
  <1>3. HandleInvariant => RequestsAsMade
    BY DEF HandleInvariant
  <1>4. ASSUME Careful PROVE Spec => []RequestsAsMade
    <2>1. HandleInvariant /\ [Next]_vars => HandleInvariant'
      BY <1>2, <1>4
    <2> QED
      BY <1>1, <1>3, <2>1, PTL DEF Spec
  <1> QED
    BY <1>4

(***************************************************************************)
(* The ledger                                                               *)
(***************************************************************************)

Handles == {"curl_multi_handle", "lws_context", "gateway_ring"}

\* There is a context, and the program has not crashed on it.
Alive == life \in {"made", "bare", "failed"} /\ pc # "crashed"

\* What is held is there to be given back.
HeldIsObtained ==
    Alive => /\ \A f \in held : obtained[f] >= 1
             /\ \A f \in Handles : obtained[f] = IF f \in held THEN 1 ELSE 0
             /\ obtained["current_user"] = IF current_user = "NULL" THEN 0 ELSE 1

\* Nothing is obtained twice for one context: what may still come has not been paid for.
PaidOnce ==
    /\ FieldsObtainedOnce
    /\ Alive => /\ contexts >= 1
                /\ ~gateway_url => obtained["gateway_url"] < contexts
                /\ ~gateway_bot_url => obtained["gateway_bot_url"] < contexts

Ledger == ContextTypeOK /\ HeldIsObtained /\ CleanupReleases /\ PaidOnce

----------------------------------------------------------------------------

\* A request leaves the handle well-formed.
LEMMA RequestTypes ==
    ASSUME RestTypeOK, (\E answer \in Answer : Get(answer))
               \/ \E body \in MessageBody, answer \in Answer : ld_send_basic_message(body, answer)
    PROVE  RestTypeOK'
  <1> USE DEF RestTypeOK, SendRequest, HandleFor, Verb, Body
  <1>1. ASSUME NEW answer \in Answer, Get(answer) PROVE RestTypeOK'
    BY <1>1 DEF Get
  <1>2. ASSUME NEW body \in MessageBody, NEW answer \in Answer,
               ld_send_basic_message(body, answer)
        PROVE  RestTypeOK'
    BY <1>2 DEF ld_send_basic_message, MessageBody
  <1> QED
    BY <1>1, <1>2

\* A step of LdConnect keeps its types, takes no field back that it has filled, and
\* does nothing after a crash.
LEMMA ConnectStep ==
    ASSUME TypeOK, Next
    PROVE  /\ TypeOK'
           /\ gateway_url => gateway_url'
           /\ gateway_bot_url => gateway_bot_url'
           /\ current_user # "NULL" => current_user' # "NULL"
           /\ pc = "crashed" => pc' = "crashed" /\ UNCHANGED vars
  <1> USE DEF TypeOK, Stages
  <1>a. ASSUME UNCHANGED rest_vars PROVE RestTypeOK'
    BY <1>a DEF rest_vars, RestTypeOK
  <1>1. CASE ld_connect
    BY <1>1, <1>a DEF ld_connect
  <1>2. CASE Skip("gateway", gateway_url, "gateway_bot")
    BY <1>2, <1>a DEF Skip
  <1>3. CASE Skip("gateway_bot", gateway_bot_url, "user")
    BY <1>3, <1>a DEF Skip
  <1>4. CASE Skip("user", current_user # "NULL", "lws")
    BY <1>4, <1>a DEF Skip
  <1>5. CASE GetGateway
    <2>1. RestTypeOK'
      BY <1>5, RequestTypes DEF GetGateway
    <2> QED
      BY <1>5, <2>1 DEF GetGateway, Fails
  <1>6. CASE GetGatewayBot
    <2>1. RestTypeOK'
      BY <1>6, RequestTypes DEF GetGatewayBot
    <2> QED
      BY <1>6, <2>1 DEF GetGatewayBot, BotError, Fails
  <1>7. CASE GetCurrentUser
    <2>1. RestTypeOK'
      <3>1. CASE UNCHANGED rest_vars
        BY <1>a, <3>1
      <3>2. CASE \E answer \in Answer : Get(answer)
        BY <3>2, RequestTypes
      <3> QED
        BY <1>7, <3>1, <3>2 DEF GetCurrentUser
    <2> QED
      BY <1>7, <2>1 DEF GetCurrentUser, UserAfter, Fails
  <1>8. CASE GatewayConnects \/ GatewayCantConnect
    BY <1>8, <1>a DEF GatewayConnects, GatewayCantConnect, Fails
  <1>9. CASE Disconnect
    BY <1>9, <1>a DEF Disconnect, KeepsUrls
  <1>10. CASE AppSends
    BY <1>10, RequestTypes DEF AppSends, Sends
  <1>11. CASE AppGetsUser
    BY <1>11, RequestTypes DEF AppGetsUser
  <1>12. CASE Crashed
    BY <1>12, <1>a DEF Crashed, vars
  <1> QED
    BY <1>1, <1>2, <1>3, <1>4, <1>5, <1>6, <1>7, <1>8, <1>9, <1>10, <1>11, <1>12
       DEF Next, Connecting

----------------------------------------------------------------------------

\* Clearing the context gives LdConnect a state it can start from.
LEMMA ClearedTypes ==
    ASSUME TypeOK, ClearsContext, pc' \in {pc, "crashed"}
    PROVE  TypeOK'
  BY DEF TypeOK, ClearsContext, RestTypeOK, Verb, Body, Stages

\* A new context, however far it gets: there was none, so nothing is held twice.
LEMMA NewContextLedger ==
    ASSUME Ledger, life = "none", contexts < MaxContexts, ClearsContext,
           contexts' = contexts + 1, pc' \in {pc, "crashed"},
           life' \in {"made", "bare", "failed"},
           NEW got \in SUBSET OwnFields, "gateway_session_id" \notin got,
           obtained' = Obtain(got),
           held' = got \/ held' = got \ {"init_presence"}
    PROVE  Ledger'
  <1> USE ContextAssumption DEF Fields, ConnectFields, OwnFields
  <1>t. TypeOK' /\ obtained \in [Fields -> Nat] /\ contexts \in Nat
    BY ClearedTypes DEF Ledger, ContextTypeOK
  <1>o. \A f \in Fields : obtained'[f] = IF f \in got THEN obtained[f] + 1 ELSE obtained[f]
    BY DEF Obtain
  <1>1. ContextTypeOK'
    <2>1. obtained' \in [Fields -> Nat]
      BY <1>t DEF Obtain
    <2>2. contexts' \in 0..MaxContexts
      BY DEF Ledger, ContextTypeOK
    <2> QED
      BY <1>t, <2>1, <2>2 DEF ContextTypeOK
  <1>2. HeldIsObtained'
    <2>1. held' \subseteq got /\ \A f \in Handles : f \in held' <=> f \in got
      BY DEF Handles
    <2>2. \A f \in Handles \cup {"current_user"} : obtained[f] = 0
      BY DEF Ledger, CleanupReleases, Handles
    <2>3. \A f \in held' : obtained'[f] >= 1
      BY <1>t, <1>o, <2>1
    <2>4. \A f \in Handles : obtained'[f] = IF f \in held' THEN 1 ELSE 0
      BY <1>o, <2>1, <2>2 DEF Handles
    <2>5. current_user' = "NULL" /\ obtained'["current_user"] = 0
      BY <1>o, <2>2 DEF ClearsContext
    <2> QED
      BY <2>3, <2>4, <2>5 DEF HeldIsObtained
  <1>3. PaidOnce'
    <2>1. \A f \in Fields \ {"gateway_session_id", "gateway_rx_buffer"} :
             obtained[f] <= contexts
      BY DEF Ledger, PaidOnce, FieldsObtainedOnce
    <2>2. FieldsObtainedOnce'
      BY <1>t, <1>o, <2>1 DEF FieldsObtainedOnce
    <2> QED
      BY <1>t, <1>o, <2>1, <2>2 DEF PaidOnce
  <1>4. CleanupReleases'
    BY DEF CleanupReleases
  <1> QED
    BY <1>1, <1>2, <1>3, <1>4 DEF Ledger

\* A step of LdConnect pays for each field it fills, once.
LEMMA ServesStep ==
    ASSUME Ledger, Serves
    PROVE  Ledger'
  <1> USE DEF Fields, ConnectFields, OwnFields
  <1>t. /\ TypeOK /\ obtained \in [Fields -> Nat] /\ contexts \in Nat /\ Next
        /\ UNCHANGED <<life, contexts, held>>
    BY ContextAssumption DEF Ledger, ContextTypeOK, Serves, Stores
  <1>c. /\ TypeOK'
        /\ gateway_url => gateway_url'
        /\ gateway_bot_url => gateway_bot_url'
        /\ current_user # "NULL" => current_user' # "NULL"
        /\ pc = "crashed" => pc' = "crashed" /\ UNCHANGED vars
    BY <1>t, ConnectStep
  <1>o. /\ \A f \in OwnFields : obtained'[f] = obtained[f]
        /\ obtained'["gateway_url"] =
              obtained["gateway_url"] + IF gateway_url' /\ ~gateway_url THEN 1 ELSE 0
        /\ obtained'["gateway_bot_url"] =
              obtained["gateway_bot_url"] + IF gateway_bot_url' /\ ~gateway_bot_url THEN 1 ELSE 0
        /\ obtained'["current_user"] =
              obtained["current_user"]
                 + IF current_user' # "NULL" /\ current_user = "NULL" THEN 1 ELSE 0
    BY <1>t DEF Serves, Stores, Obtain
  <1>1. ContextTypeOK'
    <2>1. obtained' \in [Fields -> Nat]
      BY <1>t DEF Serves, Stores, Obtain
    <2> QED
      BY <1>t, <1>c, <2>1 DEF Ledger, ContextTypeOK
  <1>2. HeldIsObtained'
    <2>1. held \subseteq OwnFields /\ Handles \subseteq OwnFields
      BY DEF Ledger, ContextTypeOK, Handles
    <2> QED
      BY <1>t, <1>c, <1>o, <2>1 DEF Ledger, HeldIsObtained, Alive
  <1>3. PaidOnce'
    <2>1. CASE pc = "crashed"
      BY <2>1, <1>t, <1>c, <1>o DEF vars, Ledger, PaidOnce, FieldsObtainedOnce, Alive
    <2>2. CASE pc # "crashed"
      <3>1. Alive
        BY <2>2 DEF Alive, Serves, Stores
      <3>2. obtained["current_user"] = IF current_user = "NULL" THEN 0 ELSE 1
        BY <3>1 DEF Ledger, HeldIsObtained
      <3> QED
        BY <3>1, <3>2, <1>t, <1>c, <1>o DEF Ledger, PaidOnce, FieldsObtainedOnce, Alive
    <2> QED
      BY <2>1, <2>2
  <1>4. CleanupReleases'
    BY <1>t DEF CleanupReleases, Serves, Stores
  <1> QED
    BY <1>1, <1>2, <1>3, <1>4 DEF Ledger

\* The session id and the rx buffer are neither handles nor paid for once.
Renewed == {"gateway_session_id", "gateway_rx_buffer"}

\* What happens to one of them: it is obtained, given back, or left as it was.
Turns(f) ==
    \/ obtained'[f] = obtained[f] + 1
    \/ f \in held /\ f \notin held' /\ obtained'[f] = obtained[f] - 1
    \/ (f \in held' => f \in held) /\ obtained'[f] = obtained[f]

\* Session ids and buffers come and go, the two together or each by itself.
LEMMA RenewedStep ==
    ASSUME Ledger, life = "made", pc = "return", UNCHANGED <<vars, life, contexts>>,
           obtained' = [f \in Fields |-> obtained'[f]],
           \A f \in Fields \ Renewed : obtained'[f] = obtained[f],
           held' \ Renewed = held \ Renewed,
           \A f \in Renewed : Turns(f)
    PROVE  Ledger'
  <1> USE DEF Fields, ConnectFields, OwnFields
  <1>t. obtained \in [Fields -> Nat] /\ contexts \in Nat /\ TypeOK'
    BY ContextAssumption DEF Ledger, ContextTypeOK, vars, TypeOK, rest_vars, RestTypeOK
  <1>a. Alive /\ Alive'
    BY DEF Alive, vars
  <1>f. \A f \in Renewed : obtained'[f] \in Nat /\ (f \in held' => obtained'[f] >= 1)
    <2>1. \A f \in Renewed : f \in Fields /\ (f \in held => obtained[f] >= 1)
      BY <1>a DEF Renewed, Ledger, HeldIsObtained
    <2> QED
      BY <1>t, <2>1 DEF Turns
  <1>h. \A f \in Fields \ Renewed : f \in held' <=> f \in held
    OBVIOUS
  <1>1. ContextTypeOK'
    <2>1. \A f \in Fields : obtained'[f] \in Nat
      BY <1>t, <1>f
    <2>2. obtained' \in [Fields -> Nat]
      BY <2>1
    <2>3. held' \subseteq OwnFields
      BY DEF Ledger, ContextTypeOK, Renewed
    <2> QED
      BY <1>t, <2>2, <2>3 DEF Ledger, ContextTypeOK
  <1>2. HeldIsObtained'
    <2>1. held' \subseteq Fields
      BY <1>1 DEF ContextTypeOK
    <2>2. \A f \in held' : obtained'[f] >= 1
      BY <1>a, <1>f, <1>h, <2>1 DEF Ledger, HeldIsObtained
    <2>3. \A f \in Handles \cup {"current_user"} : f \in Fields \ Renewed
      BY DEF Handles, Renewed
    <2>4. \A f \in Handles \cup {"current_user"} :
              obtained'[f] = obtained[f] /\ (f \in held' <=> f \in held)
      BY <1>h, <2>3
    <2> QED
      BY <1>a, <2>2, <2>4 DEF Ledger, HeldIsObtained, vars
  <1>3. PaidOnce'
    <2>1. /\ obtained'["gateway_url"] = obtained["gateway_url"]
          /\ obtained'["gateway_bot_url"] = obtained["gateway_bot_url"]
      BY DEF Renewed
    <2> QED
      BY <1>a, <2>1 DEF Ledger, PaidOnce, FieldsObtainedOnce, vars, Renewed
  <1>4. CleanupReleases'
    BY DEF CleanupReleases
  <1> QED
    BY <1>1, <1>2, <1>3, <1>4 DEF Ledger

\* A message that is received changes nothing else, and is received while connected.
LEMMA ReceivesFrame ==
    ASSUME Receives
    PROVE  life = "made" /\ pc = "return" /\ connected /\ UNCHANGED <<vars, life, contexts>>
  BY DEF Receives, Ready, FirstFragment, Overwrites, InvalidSession, LastFragment, FreesField,
         LastOfReady, LastOfInvalidSession

\* Whatever is received, the session id and the buffer turn, and nothing else.
LEMMA ReceivesStep ==
    ASSUME Ledger, Receives
    PROVE  Ledger'
  <1> USE DEF Fields, ConnectFields, OwnFields, Renewed, Turns
  <1>f. life = "made" /\ pc = "return" /\ UNCHANGED <<vars, life, contexts>>
    BY ReceivesFrame
  <1>o. obtained \in [Fields -> Nat]
    BY DEF Ledger, ContextTypeOK
  <1>1. CASE Ready \/ FirstFragment
    BY <1>1, <1>f, <1>o, RenewedStep DEF Ready, FirstFragment, Overwrites, Obtain
  <1>2. CASE InvalidSession
    BY <1>2, <1>f, <1>o, RenewedStep
       DEF InvalidSession, FreesField, ClearsSession, ClearsPointer, Release
  <1>3. CASE LastFragment
    BY <1>3, <1>f, <1>o, RenewedStep DEF LastFragment, FreesField, ClearsPointer, Release
  <1>4. CASE LastOfReady
    BY <1>4, <1>f, <1>o, RenewedStep DEF LastOfReady
  <1>5. CASE LastOfInvalidSession
    BY <1>5, <1>f, <1>o, RenewedStep DEF LastOfInvalidSession, Release
  <1> QED
    BY <1>1, <1>2, <1>3, <1>4, <1>5 DEF Receives

----------------------------------------------------------------------------

\* Cleanup gives back what is held, which was obtained, and all the handles.
LEMMA CleanupStep ==
    ASSUME Ledger, ld_cleanup_context
    PROVE  Ledger'
  <1> USE DEF Fields, ConnectFields, OwnFields
  <1>a. Alive /\ obtained' = Release(Released)
    BY DEF ld_cleanup_context, Alive
  <1>t. obtained \in [Fields -> Nat] /\ contexts \in Nat
    BY ContextAssumption DEF Ledger, ContextTypeOK
  <1>r. \A f \in Released : obtained[f] >= 1
    BY <1>a DEF Ledger, HeldIsObtained, Released
  <1>o. \A f \in Fields : obtained'[f] = IF f \in Released THEN obtained[f] - 1 ELSE obtained[f]
    BY <1>a DEF Release
  <1>1. ContextTypeOK'
    <2>1. obtained' \in [Fields -> Nat]
      BY <1>a, <1>t, <1>r DEF Release
    <2>2. TypeOK'
      BY DEF Ledger, ContextTypeOK, TypeOK, ld_cleanup_context, rest_vars, RestTypeOK
    <2> QED
      BY <2>1, <2>2 DEF Ledger, ContextTypeOK, ld_cleanup_context
  <1>2. HeldIsObtained'
    BY DEF HeldIsObtained, Alive, ld_cleanup_context
  <1>3. PaidOnce'
    <2>1. FieldsObtainedOnce'
      <3>1. \A f \in Fields : obtained'[f] <= obtained[f]
        BY <1>o, <1>t
      <3> QED
        BY <3>1, <1>a, <1>t DEF Ledger, PaidOnce, FieldsObtainedOnce, ld_cleanup_context, Release
    <2> QED
      BY <2>1 DEF PaidOnce, Alive, ld_cleanup_context
  <1>4. CleanupReleases'
    <2>1. \A f \in Handles \cup {"current_user"} : obtained'[f] = 0
      <3>1. \A f \in Handles : f \in Released <=> f \in held
        BY DEF Handles, Released
      <3>2. "current_user" \in Released <=> current_user # "NULL"
        BY DEF Released, Ledger, ContextTypeOK
      <3> QED
        BY <1>a, <1>o, <3>1, <3>2 DEF Ledger, HeldIsObtained, Handles
    <2> QED
      BY <2>1 DEF CleanupReleases, Handles
  <1> QED
    BY <1>1, <1>2, <1>3, <1>4 DEF Ledger

----------------------------------------------------------------------------

\* Every step keeps the ledger.
LEMMA LedgerStep ==
    ASSUME Ledger, [ContextNext]_context_vars
    PROVE  Ledger'
  <1>a. \A step \in {"curl", "lws", "ring", "bot_token", "init_presence", "done"} :
           /\ ObtainedBefore(step) \cup {"names"} \in SUBSET OwnFields
           /\ "gateway_session_id" \notin ObtainedBefore(step)
    BY DEF ObtainedBefore, OwnFields
  <1>1. ASSUME NEW info \in Info, NEW step \in FailsAt(info) \cup {"done"},
               ld_init_context(info, step)
        PROVE  Ledger'
    <2> DEFINE got == ObtainedBefore(step)
                      \cup IF PastNames(step) /\ info.names = "given" THEN {"names"} ELSE {}
    <2>1. got \in SUBSET OwnFields /\ "gateway_session_id" \notin got
      BY <1>a DEF FailsAt
    <2>2. obtained' = Obtain(got) /\ (held' = got \/ held' = got \ {"init_presence"})
      BY <1>1 DEF ld_init_context
    <2> HIDE DEF got
    <2> QED
      BY <1>1, <2>1, <2>2, NewContextLedger DEF ld_init_context
  <1>2. ASSUME NEW info \in Info, InitCopiesNull(info)
        PROVE  Ledger'
    <2> DEFINE got == ObtainedBefore("bot_token")
    <2>1. got \in SUBSET OwnFields /\ "gateway_session_id" \notin got
      BY <1>a
    <2>2. obtained' = Obtain(got) /\ held' = got
      BY <1>2 DEF InitCopiesNull
    <2> HIDE DEF got
    <2> QED
      BY <1>2, <2>1, <2>2, NewContextLedger DEF InitCopiesNull
  <1>3. CASE InitWithoutInfo
    <2> DEFINE got == ObtainedBefore("bot_token")
    <2>1. got \in SUBSET OwnFields /\ "gateway_session_id" \notin got
      BY <1>a
    <2>2. obtained' = Obtain(got) /\ held' = got
      BY <1>3 DEF InitWithoutInfo
    <2> HIDE DEF got
    <2> QED
      BY <1>3, <2>1, <2>2, NewContextLedger DEF InitWithoutInfo
  <1>4. CASE Serves
    BY <1>4, ServesStep
  <1>5. CASE Receives
    BY <1>5, ReceivesStep
  <1>6. CASE ld_cleanup_context
    BY <1>6, CleanupStep
  <1>7. CASE UNCHANGED <<vars, contexts, held, obtained>> /\ life' \in {life, "exited"}
    BY <1>7
       DEF Ledger, ContextTypeOK, TypeOK, vars, rest_vars, RestTypeOK, HeldIsObtained, Alive,
           CleanupReleases, PaidOnce, FieldsObtainedOnce
  <1> QED
    BY <1>1, <1>2, <1>3, <1>4, <1>5, <1>6, <1>7
       DEF ContextNext, MakesContext, Exits, Stopped, context_vars, life_vars

\* The ledger is right from the start.
LEMMA LedgerStarts ==
    ASSUME ContextInit
    PROVE  Ledger
  <1>1. TypeOK
    BY DEF ContextInit, Init, RestInit, TypeOK, RestTypeOK, Verb, Body, Stages
  <1>2. life = "none" /\ contexts = 0 /\ held = {} /\ \A f \in Fields : obtained[f] = 0
    BY DEF ContextInit
  <1>3. ContextTypeOK
    BY <1>1, <1>2, ContextAssumption DEF ContextTypeOK, ContextInit
  <1>4. HeldIsObtained /\ PaidOnce
    BY <1>2 DEF HeldIsObtained, PaidOnce, Alive, FieldsObtainedOnce
  <1>5. CleanupReleases
    BY <1>2 DEF CleanupReleases, Fields, ConnectFields, OwnFields
  <1> QED
    BY <1>3, <1>4, <1>5 DEF Ledger

LEMMA LedgerHolds == ContextSpec => []Ledger
  <1>1. ContextInit => Ledger
    BY LedgerStarts
  <1>2. Ledger /\ [ContextNext]_context_vars => Ledger'
    BY LedgerStep
  <1> QED
    BY <1>1, <1>2, PTL DEF ContextSpec

\* ContextTypeOK, for any number of contexts: with every release a step downwards, no
\* field of a context is freed that was not obtained or was freed before.
THEOREM NothingFreedTwice == ContextSpec => []ContextTypeOK
  BY LedgerHolds, PTL DEF Ledger

\* CleanupReleases: ld_cleanup_context leaves no lws context, ring, curl multi handle or
\* user behind, after any history, a failed ld_init_context included.
THEOREM CleanupComplete == ContextSpec => []CleanupReleases
  BY LedgerHolds, PTL DEF Ledger

\* FieldsObtainedOnce, for any number of contexts, of failed attempts and of reconnects: what
\* ld_connect repeats is never the allocation for a field it has filled before.
THEOREM RetriesObtainOnce == ContextSpec => []FieldsObtainedOnce
  BY LedgerHolds, PTL DEF Ledger, PaidOnce

----------------------------------------------------------------------------

\* ld_connect runs only while there is a context, and gets nowhere without a token.
ConnectsInside ==
    /\ StagesInOrder
    /\ life \notin {"made", "bare"} => pc \in {"return", "crashed"}
    /\ life = "bare" => ~gateway_bot_url

\* Outside ld_connect nothing needs the URL, so a new context may start without.
LEMMA InsideStep ==
    ASSUME ConnectsInside, [ContextNext]_context_vars
    PROVE  ConnectsInside'
  <1> USE DEF ConnectsInside, StagesInOrder
  <1>1. CASE ClearsContext /\ life = "none" /\ pc' \in {pc, "crashed"}
    BY <1>1 DEF ClearsContext
  <1>2. CASE Serves
    BY <1>2, StagesStep DEF Serves, Stores
  <1>3. CASE UNCHANGED vars /\ (life' = "made" \/ (pc \in {"return", "crashed"} /\ life' # "bare"))
    BY <1>3 DEF vars
  <1>4. CASE ld_cleanup_context
    BY <1>4 DEF ld_cleanup_context
  <1>5. CASE UNCHANGED context_vars
    BY <1>5 DEF context_vars, vars, life_vars
  <1> QED
    BY <1>1, <1>2, <1>3, <1>4, <1>5, ReceivesFrame
       DEF ContextNext, MakesContext, ld_init_context, InitCopiesNull, InitWithoutInfo, Exits,
           Stopped

\* ConnectHasUrl, for every context of a program: no failure of a request, no other
\* context before it, and nothing the application requests lets ld_connect reach
\* ld_gateway_connect without the URL.
THEOREM UrlInEveryContext == ContextSpec => []ConnectHasUrl
  <1>1. ContextInit => ConnectsInside
    BY DEF ContextInit, Init, ConnectsInside, StagesInOrder
  <1>2. ConnectsInside /\ [ContextNext]_context_vars => ConnectsInside'
    BY InsideStep
  <1>3. ConnectsInside => ConnectHasUrl
    BY DEF ConnectsInside, StagesInOrder, ConnectHasUrl
  <1> QED
    BY <1>1, <1>2, <1>3, PTL DEF ContextSpec
=============================================================================
