----------------------------- MODULE LdBotProofs -----------------------------
(***************************************************************************)
(* Proofs about the example programs: what LdContext and LdConnect promise  *)
(* to every application they promise to these, and what holds because of    *)
(* the way these go about it.                                               *)
(***************************************************************************)
EXTENDS LdBot, LdContextProofs

----------------------------------------------------------------------------
(***************************************************************************)
(* The examples are applications                                            *)
(***************************************************************************)

\* A message that is posted is posted through a context that is there.
LEMMA PostIsServed ==
    ASSUME NEW answer \in Answer, Posts(answer)
    PROVE  Serves /\ AppSends
  BY DEF Posts, Serves, AppSends, Next

\* What a callback does with a message, it does by posting, or in the program alone.
LEMMA CallbackServes ==
    ASSUME NEW message, callback(message)
    PROVE  Serves \/ UNCHANGED context_vars
  <1>1. CASE AyylmaoAnswers(message)
    BY <1>1, PostIsServed DEF AyylmaoAnswers
  <1>2. CASE HashAnswers(message)
    BY <1>2, PostIsServed DEF HashAnswers
  <1>3. CASE CounterAnswers(message)
    BY <1>3, PostIsServed DEF CounterAnswers
  <1> QED
    BY <1>1, <1>2, <1>3 DEF callback, AyylmaoReadsNull, HashOverruns, HashHalts, CounterHalts

\* Every step of a program is a step of LdContext's application, or none of the library's.
LEMMA BotStep ==
    ASSUME BotNext
    PROVE  ContextNext \/ UNCHANGED context_vars
  <1>1. CASE Starts
    BY <1>1 DEF Starts, InfoOf, ContextNext, MakesContext, ld_init_context, InitCopiesNull
  <1>2. CASE CallsConnect
    BY <1>2 DEF CallsConnect, ContextNext, Serves, Next, Connecting
  <1>3. CASE CallsService
    BY <1>3 DEF CallsService, ContextNext, Serves, Next, Connecting
  <1>4. CASE ConnectStage
    BY <1>4 DEF ConnectStage, ContextNext, Serves, Next
  <1>5. CASE HangsUp \/ ConnectionLost
    BY <1>5 DEF HangsUp, ConnectionLost, ConnectionEnds, ContextNext, Serves, Next
  <1>6. CASE PostsOnce \/ SaysFarewell
    BY <1>6, PostIsServed DEF PostsOnce, SaysFarewell, ContextNext
  <1>7. CASE CleansContext \/ Returns
    BY <1>7 DEF CleansContext, Returns, ContextNext
  <1>8. CASE Dispatched
    BY <1>8 DEF Dispatched, ContextNext
  <1>9. CASE MessageCreate
    BY <1>9, CallbackServes DEF MessageCreate, ContextNext
  <1>10. CASE LeavesLoop \/ ServiceReturns \/ ServiceFails \/ Interrupt \/ Halted
    BY <1>10 DEF LeavesLoop, ServiceReturns, ServiceFails, Interrupt, Halted, all_vars
  <1> QED
    BY <1>1, <1>2, <1>3, <1>4, <1>5, <1>6, <1>7, <1>8, <1>9, <1>10 DEF BotNext, Runs

\* Each example implements the application of LdContext, which may do as it likes.
THEOREM ExamplesAreApplications == BotSpec => ContextSpec
  <1>1. BotInit => ContextInit
    BY DEF BotInit
  <1>2. [BotNext]_all_vars => [ContextNext]_context_vars
    BY BotStep DEF all_vars
  <1> QED
    BY <1>1, <1>2, PTL DEF BotSpec, ContextSpec

\* So the library frees no field of a context twice in any of them, cleans up what it cleans
\* up, and allocates no URL and no user again, however often a program such as ayylmao tries.
THEOREM ExamplesCleanUp ==
    BotSpec => [](ContextTypeOK /\ CleanupReleases /\ ConnectHasUrl /\ FieldsObtainedOnce)
  BY ExamplesAreApplications, NothingFreedTwice, CleanupComplete, UrlInEveryContext,
     RetriesObtainOnce, PTL

----------------------------------------------------------------------------
(***************************************************************************)
(* Whom they answer                                                         *)
(***************************************************************************)

\* What a program's callback sees of the author of a message.
LEMMA ParsedAuthor ==
    ASSUME NEW a \in Authors, NEW object,
           object = [channel_id |-> 1, author |-> AuthorObject(a)]
             \/ \E content \in Contents :
                   object = [channel_id |-> 1, author |-> AuthorObject(a), content |-> content]
    PROVE  /\ PackMessage(object).author.id = a
           /\ a # "human" => PackMessage(object).author.bot = TRUE
  <1>1. "author" \in DOMAIN object /\ object.author = AuthorObject(a)
    OBVIOUS
  <1>2. PackMessage(object).author = LoadUser(AuthorObject(a))
    BY <1>1 DEF PackMessage, MessageInit
  <1>3. "id" \in DOMAIN AuthorObject(a) /\ AuthorObject(a)["id"] = a
    BY DEF AuthorObject
  <1>4. a # "human" => "bot" \in DOMAIN AuthorObject(a) /\ AuthorObject(a)["bot"] = TRUE
    BY DEF AuthorObject
  <1>5. a # JsonNull
    BY BotAssumption
  <1>6. LoadUser(AuthorObject(a))["id"] = a
    <2>1. LoadUser(AuthorObject(a))["id"] = Field(AuthorObject(a), "id", Garbage)
      BY <1>3 DEF LoadUser, Strings, Flags
    <2> QED
      BY <2>1, <1>3, <1>5 DEF Field
  <1>7. a # "human" => LoadUser(AuthorObject(a))["bot"] = (AuthorObject(a)["bot"] = TRUE)
    BY <1>4 DEF LoadUser, Strings, Flags
  <1> QED
    BY <1>2, <1>4, <1>6, <1>7

\* A message that is heeded is a human's.
LEMMA HeededIsHuman ==
    ASSUME NEW message, NEW a \in Authors, Heeded(message),
           message.author.id = a, a # "human" => message.author.bot = TRUE
    PROVE  message.author.id = "human"
  BY JsonAssumption DEF Heeded, BotFlag

\* Whoever is answered by a callback is human.
LEMMA CallbackAnswers ==
    ASSUME NEW message, NEW a \in Authors, callback(message),
           message.author.id = a, a # "human" => message.author.bot = TRUE
    PROVE  answered' \in {answered, "human"}
  <1>1. CASE AyylmaoAnswers(message)
    BY <1>1, HeededIsHuman DEF AyylmaoAnswers, AnswersTo
  <1>2. CASE HashAnswers(message)
    BY <1>2, HeededIsHuman DEF HashAnswers, AnswersTo
  <1>3. CASE CounterAnswers(message)
    BY <1>3, HeededIsHuman DEF CounterAnswers, AnswersTo
  <1> QED
    BY <1>1, <1>2, <1>3 DEF callback, AyylmaoReadsNull, HashOverruns, HashHalts, CounterHalts

\* AnswersHumansOnly, although the own id and the flag may be memory nobody has written.
THEOREM ExamplesAnswerHumans == BotSpec => []AnswersHumansOnly
  <1>1. BotInit => AnswersHumansOnly
    BY DEF BotInit, AnswersHumansOnly
  <1>2. AnswersHumansOnly /\ [BotNext]_all_vars => AnswersHumansOnly'
    <2> SUFFICES ASSUME AnswersHumansOnly, [BotNext]_all_vars
                 PROVE  answered' \in {answered, "human"}
      BY DEF AnswersHumansOnly
    <2>1. CASE MessageCreate
      <3>1. PICK a \in Authors :
               callback(ParsedWithout(a)) \/ \E content \in Contents : callback(Parsed(a, content))
        BY <2>1 DEF MessageCreate
      <3>2. CASE callback(ParsedWithout(a))
        <4> DEFINE message == ParsedWithout(a)
        <4>1. message.author.id = a /\ (a # "human" => message.author.bot = TRUE)
          BY ParsedAuthor DEF ParsedWithout
        <4>2. callback(message)
          BY <3>2
        <4> HIDE DEF message
        <4> QED
          BY <4>1, <4>2, CallbackAnswers
      <3>3. ASSUME NEW content \in Contents, callback(Parsed(a, content))
            PROVE  answered' \in {answered, "human"}
        <4> DEFINE message == Parsed(a, content)
        <4>1. message.author.id = a /\ (a # "human" => message.author.bot = TRUE)
          BY ParsedAuthor DEF Parsed
        <4>2. callback(message)
          BY <3>3
        <4> HIDE DEF message
        <4> QED
          BY <4>1, <4>2, CallbackAnswers
      <3> QED
        BY <3>1, <3>2, <3>3
    <2>2. CASE UNCHANGED all_vars
      BY <2>2 DEF all_vars, bot_vars
    <2>3. CASE Runs \/ ServiceFails \/ ConnectionLost \/ Dispatched \/ Interrupt \/ Halted
      BY <2>3
         DEF Runs, Starts, LeavesLoop, CallsConnect, CallsService, ConnectStage,
             ServiceReturns, HangsUp, ConnectionLost, ConnectionEnds, PostsOnce, SaysFarewell,
             CleansContext, Returns, ServiceFails, Dispatched, Interrupt, Halted, all_vars, bot_vars
    <2> QED
      BY <2>1, <2>2, <2>3 DEF BotNext
  <1> QED
    BY <1>1, <1>2, PTL DEF BotSpec
----------------------------------------------------------------------------
(***************************************************************************)
(* How they use the handle                                                  *)
(***************************************************************************)

\* simplepost does nothing but post.  The others post when connected, and hash in the end
\* when it has been connected, as target says.
UsesHandle ==
    /\ at = "start" => ~target /\ (life = "none" => pc = "return")
    /\ at = "post" => program = "simplepost"
    /\ IF program = "simplepost"
       THEN /\ at \in {"start", "post", "ended"}
            /\ pc \in {"return", "crashed"} /\ ~connected
            /\ RequestsAsMade
       ELSE HandleInvariant /\ (target => AllAsked)

\* A new context finds the handle clean.
LEMMA CleanStart ==
    ASSUME RequestsAsMade, pc = "return", pc' \in {pc, "crashed"}, ClearsContext
    PROVE  HandleInvariant' /\ ~connected' /\ RequestsAsMade'
  BY DEF ClearsContext, HandleInvariant, AllAsked, RequestsAsMade

\* The steps of LdConnect that are no application's keep the handle as it should be.
LEMMA LibraryUse ==
    ASSUME HandleInvariant,
           ld_connect \/ (Connecting /\ pc \in Stages) \/ Disconnect
    PROVE  HandleInvariant' /\ (AllAsked => AllAsked')
  <1>1. [Next]_vars
    BY DEF Next, Connecting
  <1>2. ~AppSends /\ ~AppGetsUser
    <2>1. CASE ld_connect
      BY <2>1 DEF ld_connect, AppSends, Sends, AppGetsUser
    <2>2. CASE pc \in Stages
      BY <2>2 DEF Stages, AppSends, Sends, AppGetsUser
    <2>3. CASE Disconnect
      BY <2>3 DEF Disconnect, AppSends, Sends, AppGetsUser
    <2> QED
      BY <2>1, <2>2, <2>3
  <1>3. HandleInvariant'
    BY <1>1, <1>2, HandleStep
  <1>4. AllAsked => AllAsked'
    BY DEF ld_connect, Connecting, Skip, GetGateway, GetGatewayBot, GetCurrentUser,
           GatewayConnects, GatewayCantConnect, Disconnect, KeepsUrls, AllAsked
  <1> QED
    BY <1>3, <1>4

\* So does a post, of a program that has everything.
LEMMA PostUse ==
    ASSUME HandleInvariant, AllAsked, NEW answer, Posts(answer)
    PROVE  HandleInvariant' /\ AllAsked'
  <1>1. PICK body \in MessageBody : Sends(body, answer)
    BY DEF Posts
  <1>2. RequestsAsMade' /\ curl_handle'.method = "POST"
    BY <1>1, AnyPost DEF Sends, MessageBody
  <1> QED
    BY <1>1, <1>2 DEF Sends, HandleInvariant, AllAsked

\* A step that leaves the context alone, but for the ledger.
LEMMA CalmUse ==
    ASSUME UNCHANGED vars
    PROVE  /\ HandleInvariant => HandleInvariant'
           /\ AllAsked => AllAsked'
           /\ RequestsAsMade => RequestsAsMade'
  BY DEF vars, rest_vars, HandleInvariant, AllAsked, RequestsAsMade

\* What a callback does.
LEMMA CallbackUse ==
    ASSUME UsesHandle, NEW message, callback(message)
    PROVE  UsesHandle'
  <1>0. /\ program # "simplepost" /\ program' = program
        /\ HandleInvariant /\ AllAsked /\ at = "ld_service"
        /\ at' \in {"ld_service", "hangup", "crashed"}
    BY DEF UsesHandle, HandleInvariant, callback, AyylmaoAnswers, AyylmaoReadsNull, HashOverruns, HashHalts,
           HashAnswers, CounterHalts, CounterAnswers, InCallback, AnswersTo
  <1>1. HandleInvariant' /\ AllAsked'
    <2>1. CASE UNCHANGED context_vars
      BY <1>0, <2>1, CalmUse DEF context_vars
    <2>2. CASE \E answer \in Answer : Posts(answer)
      BY <1>0, <2>2, PostUse
    <2> QED
      BY <2>1, <2>2
         DEF callback, AyylmaoAnswers, AyylmaoReadsNull, HashOverruns, HashHalts, HashAnswers, CounterHalts,
             CounterAnswers
  <1> QED
    BY <1>0, <1>1 DEF UsesHandle

\* Every step of a program.
LEMMA BotUse ==
    ASSUME UsesHandle, [BotNext]_all_vars
    PROVE  UsesHandle'
  <1>1. CASE Starts
    <2>2. life = "none" /\ life' # "none" /\ pc' \in {pc, "crashed"} /\ ClearsContext
      BY <1>1 DEF Starts, ld_init_context, InitCopiesNull
    <2>1. RequestsAsMade /\ pc = "return" /\ ~target /\ at = "start"
      BY <1>1, <2>2 DEF Starts, UsesHandle, HandleInvariant
    <2>3. HandleInvariant' /\ ~connected' /\ RequestsAsMade'
      BY <2>1, <2>2, CleanStart
    <2>4. /\ UNCHANGED <<program, target>>
          /\ \/ program = "simplepost" /\ at' \in {"post", "ended"}
             \/ program # "simplepost" /\ at' \in {"loop", "cleanup", "ended"}
             \/ at' = "start"
      BY <1>1 DEF Starts, AfterFailure, InitCopiesNull
    <2> QED
      BY <2>1, <2>2, <2>3, <2>4 DEF UsesHandle
  <1>2. ASSUME CallsConnect \/ CallsService \/ ConnectStage \/ HangsUp \/ ConnectionLost
        PROVE  UsesHandle'
    <2>1. program # "simplepost" /\ at' \in {"ld_connect", "ld_service", "loop", "call", "cleanup"}
      <3>1. at \in {"loop", "call", "ld_connect", "ld_service", "hangup"}
        BY <1>2
           DEF CallsConnect, CallsService, ServiceIsNext, ConnectStage, HangsUp, ConnectionLost
      <3>2. program # "simplepost"
        BY <3>1 DEF UsesHandle
      <3>3. at' \in {at, "ld_connect", "ld_service", "loop", "call", "cleanup"} /\ at' # "hangup"
        BY <1>2
           DEF CallsConnect, CallsService, ConnectStage, HangsUp, ConnectionLost, ConnectionEnds,
               LibraryFails, AfterError
      <3> QED
        BY <3>1, <3>2, <3>3
    <2>2. HandleInvariant' /\ (AllAsked => AllAsked')
      <3>1. CASE UNCHANGED context_vars
        BY <2>1, <3>1, CalmUse DEF UsesHandle, context_vars
      <3>2. CASE ld_connect \/ (Connecting /\ pc \in Stages) \/ Disconnect
        BY <2>1, <3>2, LibraryUse DEF UsesHandle
      <3> QED
        BY <1>2, <3>1, <3>2
           DEF CallsConnect, CallsService, ConnectStage, HangsUp, ConnectionLost, ConnectionEnds
    <2>3. UNCHANGED <<program, target>>
      BY <1>2
         DEF CallsConnect, CallsService, ConnectStage, HangsUp, ConnectionLost, ConnectionEnds
    <2> QED
      BY <2>1, <2>2, <2>3 DEF UsesHandle
  <1>3. CASE PostsOnce
    <2>1. PICK answer \in Answer, body \in MessageBody : Sends(body, answer)
      BY <1>3 DEF PostsOnce, Posts
    <2>2. RequestsAsMade'
      BY <2>1, AnyPost DEF Sends, MessageBody
    <2> QED
      BY <1>3, <2>1, <2>2 DEF PostsOnce, UsesHandle, Sends
  <1>4. CASE SaysFarewell
    <2>1. program # "simplepost" /\ UNCHANGED <<program, target>> /\ at' = "cleanup"
      BY <1>4 DEF SaysFarewell, UsesHandle
    <2>2. HandleInvariant' /\ (AllAsked => AllAsked')
      <3>1. CASE target
        BY <1>4, <2>1, <3>1, PostUse DEF SaysFarewell, UsesHandle
      <3>2. CASE ~target
        BY <1>4, <2>1, <3>2, CalmUse DEF SaysFarewell, UsesHandle, context_vars
      <3> QED
        BY <3>1, <3>2
    <2> QED
      BY <2>1, <2>2 DEF UsesHandle
  <1>5. CASE CleansContext
    BY <1>5
       DEF CleansContext, ld_cleanup_context, rest_vars, UsesHandle, HandleInvariant, AllAsked,
           RequestsAsMade
  <1>6. CASE MessageCreate
    BY <1>6, CallbackUse DEF MessageCreate
  <1>7. CASE Dispatched
    <2>1. UNCHANGED vars /\ life = "made" /\ UNCHANGED life /\ UNCHANGED bot_vars
      BY <1>7, ReceivesFrame DEF Dispatched
    <2> QED
      BY <2>1, CalmUse DEF UsesHandle, bot_vars, vars
  <1>8. CASE Returns
    BY <1>8, CalmUse DEF Returns, Exits, UsesHandle, bot_vars, vars
  <1>9. ASSUME LeavesLoop \/ ServiceReturns \/ ServiceFails \/ Interrupt \/ UNCHANGED all_vars
        PROVE  UsesHandle'
    <2>1. UNCHANGED <<vars, life>> /\ UNCHANGED <<program, target>>
      BY <1>9
         DEF LeavesLoop, ServiceReturns, ServiceFails, Interrupt, context_vars, life_vars, all_vars,
             bot_vars
    <2>2. \/ at' = at
          \/ at # "start" /\ at # "post" /\ at # "ended"
             /\ at' \in {"farewell", "ended", "cleanup", "loop"}
      BY <1>9
         DEF LeavesLoop, ServiceReturns, ServiceFails, ServiceIsNext, LibraryFails, AfterError,
             AfterLoop, Interrupt, all_vars, bot_vars
    <2> QED
      BY <2>1, <2>2, CalmUse DEF UsesHandle, vars
  <1> QED
    BY <1>1, <1>2, <1>3, <1>4, <1>5, <1>6, <1>7, <1>8, <1>9 DEF BotNext, Runs, Halted

\* Where the programs are, no matter how, when they use the handle.
LEMMA HandleUsed == BotSpec => []UsesHandle
  <1>1. BotInit => UsesHandle
    BY DEF BotInit, ContextInit, Init, RestInit, UsesHandle, HandleInvariant, AllAsked,
           RequestsAsMade
  <1> QED
    BY <1>1, BotUse, PTL DEF BotSpec

\* RequestsAsMade: no example posts between the library's requests, or turns one of them
\* into a POST, although most make requests of both kinds over one handle.
THEOREM ExamplesRequestAsMade == BotSpec => []RequestsAsMade
  <1>1. UsesHandle => RequestsAsMade
    BY DEF UsesHandle, HandleInvariant
  <1> QED
    BY <1>1, HandleUsed, PTL

\* CallbackHasUser: no callback follows a NULL current_user.
THEOREM ExamplesHaveUser == BotSpec => []CallbackHasUser
  <1>1. UsesHandle => CallbackHasUser
    BY DEF UsesHandle, HandleInvariant, AllAsked, CallbackHasUser, HasUser
  <1> QED
    BY <1>1, HandleUsed, PTL

----------------------------------------------------------------------------
(***************************************************************************)
(* How they end                                                             *)
(***************************************************************************)

\* The way to the end leads through the cleanup, for those that have one.
LEMMA EndStep ==
    ASSUME ReturnsCleanly, UsesHandle, [BotNext]_all_vars
    PROVE  ReturnsCleanly'
  <1> USE DEF ReturnsCleanly, CleansUp
  <1>1. CASE Starts
    <2>1. UNCHANGED program /\ (at' = "ended" => life' = "failed")
      <3>1. ASSUME NEW info, ld_init_context(info, "done"),
                   at' = IF program = "simplepost" THEN "post" ELSE "loop"
            PROVE  at' # "ended"
        BY <3>1
      <3>2. ASSUME NEW info, NEW step \in FailsAt(info), ld_init_context(info, step)
            PROVE  life' = "failed"
        BY <3>2 DEF ld_init_context, FailsAt
      <3>3. ASSUME NEW info, InitCopiesNull(info)
            PROVE  life' = "failed"
        BY <3>3 DEF InitCopiesNull
      <3> QED
        BY <1>1, <3>1, <3>2, <3>3 DEF Starts
    <2> QED
      BY <2>1
  <1>2. CASE CleansContext
    BY <1>2 DEF CleansContext, ld_cleanup_context
  <1>3. CASE Returns
    BY <1>3 DEF Returns, Exits, bot_vars
  <1>4. CASE PostsOnce
    BY <1>4 DEF PostsOnce, UsesHandle
  <1>5. CASE LeavesLoop
    BY <1>5 DEF LeavesLoop, AfterLoop
  <1>6. ASSUME MessageCreate PROVE at' # "ended"
    BY <1>6
       DEF MessageCreate, callback, AyylmaoAnswers, AyylmaoReadsNull, HashOverruns, HashHalts, HashAnswers,
           CounterHalts, CounterAnswers, InCallback
  <1>7. ASSUME \/ CallsConnect \/ CallsService \/ ConnectStage \/ ServiceReturns \/ HangsUp
               \/ ConnectionLost \/ SaysFarewell \/ ServiceFails
        PROVE  at' # "ended"
    BY <1>7
       DEF CallsConnect, CallsService, ConnectStage, ServiceReturns, HangsUp, ConnectionLost,
           ConnectionEnds, SaysFarewell, ServiceFails, ServiceIsNext, LibraryFails, AfterError
  <1>8. CASE Dispatched
    BY <1>8 DEF Dispatched, bot_vars
  <1>9. CASE Interrupt \/ UNCHANGED all_vars
    BY <1>9 DEF Interrupt, all_vars, bot_vars, context_vars, life_vars
  <1> QED
    BY <1>1, <1>2, <1>3, <1>4, <1>5, <1>6, <1>7, <1>8, <1>9 DEF BotNext, Runs, Halted

\* ReturnsCleanly: whatever error, signal or message ends the loop, what ld_init_context
\* made has been through ld_cleanup_context when main returns.
THEOREM ExamplesReturnCleanly == BotSpec => []ReturnsCleanly
  <1>1. BotInit => ReturnsCleanly
    BY DEF BotInit, ReturnsCleanly
  <1> QED
    BY <1>1, HandleUsed, EndStep, PTL DEF BotSpec

\* BotTypeOK; that the ledger of the context is a function into the natural numbers is
\* NothingFreedTwice.
THEOREM ExampleTypes == BotSpec => []BotTypeOK
  <1> DEFINE Own == /\ program \in Programs /\ at \in Places
                    /\ bot_state \in BOOLEAN /\ bot_exit \in BOOLEAN /\ target \in BOOLEAN
                    /\ answered \in Authors \cup {"nobody"}
  <1>1. BotInit => Own
    BY DEF BotInit, Places
  <1>2. Own /\ AnswersHumansOnly' /\ [BotNext]_all_vars => Own'
    <2> SUFFICES ASSUME Own, AnswersHumansOnly', [BotNext]_all_vars
                 PROVE  Own'
      OBVIOUS
    <2> USE DEF Places
    <2>0. answered' \in Authors \cup {"nobody"}
      BY DEF AnswersHumansOnly, Authors
    <2>1. CASE Starts \/ LeavesLoop \/ CallsConnect \/ CallsService
      BY <2>0, <2>1, Zenon DEF Starts, AfterFailure, LeavesLoop, AfterLoop, CallsConnect, CallsService
    <2>2. CASE ConnectStage \/ ServiceFails
      BY <2>0, <2>2, Zenon DEF ConnectStage, ServiceFails, LibraryFails, AfterError
    <2>3. CASE \/ ServiceReturns \/ HangsUp \/ ConnectionLost \/ PostsOnce \/ SaysFarewell
               \/ CleansContext \/ Returns
      BY <2>0, <2>3, Zenon
         DEF ServiceReturns, HangsUp, ConnectionLost, ConnectionEnds, PostsOnce, SaysFarewell,
             CleansContext, Returns, bot_vars
    <2>4. CASE Dispatched \/ Interrupt \/ UNCHANGED all_vars
      BY <2>0, <2>4, Zenon DEF Dispatched, Interrupt, all_vars, bot_vars
    <2>5. CASE MessageCreate
      <3>1. PICK message : callback(message)
        BY <2>5 DEF MessageCreate
      <3> QED
        BY <2>0, <3>1, Zenon
           DEF callback, AyylmaoAnswers, AyylmaoReadsNull, HashOverruns, HashHalts, HashAnswers, CounterHalts,
               CounterAnswers, AnswersTo
    <2> QED
      BY <2>1, <2>2, <2>3, <2>4, <2>5 DEF BotNext, Runs, Halted
  <1>3. BotSpec => []ContextTypeOK
    BY ExamplesCleanUp, PTL
  <1>4. ContextTypeOK /\ Own => BotTypeOK
    BY DEF BotTypeOK
  <1> QED
    BY <1>1, <1>2, <1>3, <1>4, ExamplesAnswerHumans, PTL DEF BotSpec

----------------------------------------------------------------------------
(***************************************************************************)
(* The control flow                                                         *)
(***************************************************************************)

\* All of the library that decides where a program goes next.
library == <<pc, connected, life>>

\* ld_init_context succeeds, or fails, or copies a NULL.
StartFlow ==
    /\ at = "start" /\ life = "none" /\ ~connected' /\ UNCHANGED bot_exit
    /\ \/ life' = "made" /\ UNCHANGED pc
          /\ at' = IF program = "simplepost" THEN "post" ELSE "loop"
       \/ life' = "failed" /\ UNCHANGED pc /\ at' \in {"cleanup", "ended"}
       \/ life' = "failed" /\ pc' = "crashed" /\ UNCHANGED at

LeaveFlow ==
    /\ at = "loop" /\ bot_exit
    /\ at' \in {"farewell", "ended", "cleanup"}
    /\ UNCHANGED library /\ UNCHANGED bot_exit

\* The program calls ld_connect, or ld_service does.
CallFlow ==
    /\ at = "call" \/ (at = "loop" /\ ~bot_exit)
    /\ \/ at = "loop" /\ at' = "ld_connect" /\ program \in ConnectsItself /\ ~connected
       \/ at' = "ld_service"
    /\ IF connected THEN UNCHANGED pc ELSE pc = "return" /\ pc' = "gateway"
    /\ UNCHANGED <<connected, life, bot_exit>>

StageFlow ==
    /\ at \in {"ld_connect", "ld_service"} /\ life \in {"made", "bare"} /\ UNCHANGED life
    /\ \/ pc = "gateway" /\ pc' \in {"gateway_bot", "crashed", "return"}
       \/ pc = "gateway_bot" /\ pc' \in {"user", "return"}
       \/ pc = "user" /\ pc' \in {"lws", "return"}
       \/ pc = "lws" /\ pc' = "return"
    /\ connected' # connected => pc = "lws"
    /\ IF pc' # "return"
       THEN UNCHANGED <<at, bot_exit>>
       ELSE /\ at' \in {"loop", "call", "cleanup"} /\ (bot_exit => bot_exit')
            /\ at' = "call" => at = "ld_connect"
            /\ at' # "loop" => program = "ping"

ReturnFlow == /\ at = "ld_service" /\ pc = "return" /\ at' = "loop"
              /\ UNCHANGED library /\ UNCHANGED bot_exit

HangupFlow == /\ at = "hangup" /\ at' = "ld_service"
              /\ ~connected' /\ UNCHANGED <<pc, life, bot_exit>>

\* simplepost's message, and hash's farewell
PostFlow == /\ \/ at = "post" /\ at' = "ended"
               \/ at = "farewell" /\ at' = "cleanup"
            /\ UNCHANGED library /\ UNCHANGED bot_exit

CleanupFlow ==
    /\ at = "cleanup" /\ pc = "return" /\ ~connected' /\ UNCHANGED bot_exit
    /\ \/ pc' = "crashed" /\ UNCHANGED <<at, life>>
       \/ UNCHANGED pc /\ at' = "ended" /\ life' = "none"

ExitFlow == /\ at = "ended" /\ pc = "return" /\ life' = "exited"
            /\ UNCHANGED <<at, bot_exit, pc, connected>>

RunsFlow ==
    /\ UNCHANGED program
    /\ \/ StartFlow \/ LeaveFlow \/ CallFlow \/ StageFlow \/ ReturnFlow
       \/ HangupFlow \/ PostFlow \/ CleanupFlow \/ ExitFlow

\* What happens to a program: a missed heartbeat, a lost connection, a message, a signal.
FailFlow ==
    /\ at = "call" \/ (at = "loop" /\ ~bot_exit)
    /\ connected /\ UNCHANGED library
    /\ at' \in {"loop", "cleanup"} /\ (bot_exit => bot_exit')
    /\ at' = "cleanup" => program = "ping"

LostFlow == /\ at = "ld_service" /\ connected /\ ~connected'
            /\ UNCHANGED <<at, bot_exit, pc, life>>

MessageFlow ==
    /\ at = "ld_service" /\ connected /\ UNCHANGED library
    /\ \/ UNCHANGED at
       \/ at' = "hangup" /\ program = "hash"
       \/ at' = "crashed"
    /\ bot_exit => bot_exit'

SignalFlow == ~Over /\ bot_exit' /\ UNCHANGED library /\ UNCHANGED at

CalmFlow == UNCHANGED library /\ UNCHANGED <<at, bot_exit>>

OtherFlow ==
    /\ UNCHANGED program
    /\ FailFlow \/ LostFlow \/ MessageFlow \/ SignalFlow \/ CalmFlow

\* An error never calls off a halt.
LEMMA ErrorFlow ==
    ASSUME LibraryFails
    PROVE  /\ bot_exit => bot_exit'
           /\ at' \in {"loop", "cleanup"} /\ (at' # "loop" => program = "ping")
  <1>1. bot_exit => bot_exit'
    BY Zenon DEF LibraryFails
  <1> QED
    BY <1>1 DEF LibraryFails, AfterError

LEMMA StageFlows ==
    ASSUME ConnectStage
    PROVE  StageFlow /\ UNCHANGED program
  <1>1. /\ at \in {"ld_connect", "ld_service"} /\ life \in {"made", "bare"}
        /\ UNCHANGED <<life, program>> /\ pc \in Stages
    BY DEF ConnectStage, Stores
  <1>2. /\ \/ pc = "gateway" /\ pc' \in {"gateway_bot", "crashed", "return"}
           \/ pc = "gateway_bot" /\ pc' \in {"user", "return"}
           \/ pc = "user" /\ pc' \in {"lws", "return"}
           \/ pc = "lws" /\ pc' = "return"
        /\ connected' # connected => pc = "lws"
    <2>1. CASE ld_connect
      BY <1>1, <2>1 DEF ld_connect, Stages
    <2>2. CASE Skip("gateway", gateway_url, "gateway_bot") \/ GetGateway
      BY <2>2 DEF Skip, GetGateway, Fails
    <2>3. CASE Skip("gateway_bot", gateway_bot_url, "user") \/ GetGatewayBot
      BY <2>3 DEF Skip, GetGatewayBot, BotError, Fails
    <2>4. CASE Skip("user", current_user # "NULL", "lws") \/ GetCurrentUser
      BY <2>4 DEF Skip, GetCurrentUser, Fails
    <2>5. CASE GatewayConnects \/ GatewayCantConnect
      BY <2>5 DEF GatewayConnects, GatewayCantConnect, Fails
    <2> QED
      BY <2>1, <2>2, <2>3, <2>4, <2>5 DEF ConnectStage, Connecting
  <1>3. IF pc' # "return"
        THEN UNCHANGED <<at, bot_exit>>
        ELSE /\ at' \in {"loop", "call", "cleanup"} /\ (bot_exit => bot_exit')
             /\ at' = "call" => at = "ld_connect"
             /\ at' # "loop" => program = "ping"
    BY ErrorFlow DEF ConnectStage
  <1> QED
    BY <1>1, <1>2, <1>3 DEF StageFlow

\* Every step that main takes of itself is one of the flow.
LEMMA RunsFlows ==
    ASSUME Runs
    PROVE  RunsFlow
  <1>1. CASE Starts
    <2>1. UNCHANGED <<program, bot_exit>> /\ at = "start"
      BY <1>1 DEF Starts
    <2>2. ASSUME NEW info, ld_init_context(info, "done"),
                 at' = IF program = "simplepost" THEN "post" ELSE "loop"
          PROVE  StartFlow
      BY <2>1, <2>2 DEF ld_init_context, ClearsContext, StartFlow
    <2>3. ASSUME NEW info, NEW step \in FailsAt(info), ld_init_context(info, step),
                 at' = AfterFailure(program)
          PROVE  StartFlow
      BY <2>1, <2>3 DEF ld_init_context, FailsAt, ClearsContext, AfterFailure, StartFlow
    <2>4. ASSUME NEW info, InitCopiesNull(info), UNCHANGED at
          PROVE  StartFlow
      BY <2>1, <2>4 DEF InitCopiesNull, ClearsContext, StartFlow
    <2> QED
      BY <1>1, <2>1, <2>2, <2>3, <2>4 DEF Starts, RunsFlow
  <1>2. CASE LeavesLoop
    BY <1>2 DEF LeavesLoop, AfterLoop, StopsLooping, context_vars, vars, life_vars, library,
                LeaveFlow, RunsFlow
  <1>3. CASE CallsConnect
    BY <1>3 DEF CallsConnect, StopsLooping, ld_connect, Stores, CallFlow, RunsFlow
  <1>4. CASE CallsService
    <2>1. IF connected THEN UNCHANGED pc ELSE pc = "return" /\ pc' = "gateway"
      BY <1>4 DEF CallsService, ld_connect, context_vars, vars
    <2>2. UNCHANGED <<connected, life, bot_exit, program>> /\ at' = "ld_service"
      BY <1>4 DEF CallsService, ld_connect, Stores, context_vars, vars, life_vars
    <2>3. at = "call" \/ (at = "loop" /\ ~bot_exit)
      BY <1>4 DEF CallsService, ServiceIsNext, StopsLooping
    <2> QED
      BY <2>1, <2>2, <2>3 DEF CallFlow, RunsFlow
  <1>5. CASE ConnectStage
    BY <1>5, StageFlows DEF RunsFlow
  <1>6. CASE ServiceReturns
    BY <1>6 DEF ServiceReturns, context_vars, vars, life_vars, library, ReturnFlow, RunsFlow
  <1>7. CASE HangsUp
    BY <1>7 DEF HangsUp, ConnectionEnds, Disconnect, Stores, HangupFlow, RunsFlow
  <1>8. CASE PostsOnce
    BY <1>8 DEF PostsOnce, Posts, Sends, Stores, library, PostFlow, RunsFlow
  <1>9. CASE SaysFarewell
    BY <1>9 DEF SaysFarewell, Posts, Sends, Stores, context_vars, vars, life_vars, library,
                PostFlow, RunsFlow
  <1>10. CASE CleansContext
    BY <1>10 DEF CleansContext, ld_cleanup_context, CleanupFlow, RunsFlow
  <1>11. CASE Returns
    BY <1>11 DEF Returns, Exits, bot_vars, vars, ExitFlow, RunsFlow
  <1> QED
    BY <1>1, <1>2, <1>3, <1>4, <1>5, <1>6, <1>7, <1>8, <1>9, <1>10, <1>11 DEF Runs

\* Whatever else happens.
LEMMA OthersFlow ==
    ASSUME [BotNext]_all_vars
    PROVE  Runs \/ OtherFlow
  <1>1. CASE ServiceFails
    BY <1>1, ErrorFlow DEF ServiceFails, ServiceIsNext, StopsLooping, context_vars, vars,
                           life_vars, library, FailFlow, OtherFlow
  <1>2. CASE ConnectionLost
    BY <1>2 DEF ConnectionLost, ConnectionEnds, Disconnect, Stores, LostFlow, OtherFlow
  <1>3. CASE Dispatched
    BY <1>3, ReceivesFrame DEF Dispatched, bot_vars, vars, library, CalmFlow, OtherFlow
  <1>4. ASSUME NEW message, callback(message)
        PROVE  OtherFlow
    <2>1. UNCHANGED library
      <3>1. ASSUME NEW answer, Posts(answer)
            PROVE  UNCHANGED library
        BY <3>1 DEF Posts, Sends, Stores, library
      <3>2. ASSUME UNCHANGED context_vars
            PROVE  UNCHANGED library
        BY <3>2 DEF context_vars, vars, life_vars, library
      <3> QED
        BY <1>4, <3>1, <3>2
           DEF callback, AyylmaoAnswers, AyylmaoReadsNull, HashOverruns, HashHalts, HashAnswers, CounterHalts,
               CounterAnswers
    <2>2. bot_exit => bot_exit'
      BY <1>4, Zenon
         DEF callback, AyylmaoAnswers, AyylmaoReadsNull, HashOverruns, HashHalts, HashAnswers, CounterHalts,
             CounterAnswers, AnswersTo
    <2> QED
      BY <1>4, <2>1, <2>2
         DEF callback, AyylmaoAnswers, AyylmaoReadsNull, HashOverruns, HashHalts, HashAnswers, CounterHalts,
             CounterAnswers, InCallback, AnswersTo, MessageFlow, OtherFlow
  <1>5. CASE Interrupt
    BY <1>5 DEF Interrupt, context_vars, vars, life_vars, library, SignalFlow, OtherFlow
  <1>6. CASE UNCHANGED all_vars
    BY <1>6 DEF all_vars, bot_vars, context_vars, vars, life_vars, library, CalmFlow, OtherFlow
  <1> QED
    BY <1>1, <1>2, <1>3, <1>4, <1>5, <1>6 DEF BotNext, MessageCreate, Halted

\* Where a program can be, seen from the library.  What ld_connect leaves, on success or on
\* an error, it leaves to main; and ayylmao, once its context is made, is in its loop or
\* in ld_service until it is stopped.
Placed ==
    /\ pc \in Stages => at \in {"ld_connect", "ld_service"}
    /\ pc = "crashed" => at \in {"start", "ld_connect", "ld_service", "cleanup"}
    /\ pc # "return" => ~connected
    /\ at = "start" /\ pc = "crashed" => life = "failed"
    /\ at = "ld_connect" => pc # "return"
    /\ at = "hangup" => connected
    /\ at = "ld_connect" => program \in ConnectsItself
    /\ program = "ayylmao" /\ life = "made" =>
          at \in {"loop", "ld_service"} \/ bot_exit \/ Dead

\* Every step of the flow keeps it so.
LEMMA PlacedStep ==
    ASSUME BotTypeOK, UsesHandle, Placed, [BotNext]_all_vars
    PROVE  Placed'
  <1> USE DEF Placed, Dead, Stages, ConnectsItself, library
  <1>0. pc \in Stages \cup {"return", "crashed"} /\ program \in Programs
    BY DEF BotTypeOK, ContextTypeOK, TypeOK
  <1>1. CASE Runs
    <2>1. RunsFlow
      BY <1>1, RunsFlows
    <2>2. CASE StartFlow
      BY <1>0, <2>1, <2>2 DEF RunsFlow, StartFlow
    <2>3. CASE LeaveFlow \/ CallFlow
      BY <1>0, <2>1, <2>3 DEF RunsFlow, LeaveFlow, CallFlow
    <2>4. CASE StageFlow
      BY <1>0, <2>1, <2>4 DEF RunsFlow, StageFlow
    <2>5. CASE ReturnFlow \/ HangupFlow \/ PostFlow
      BY <1>0, <2>1, <2>5 DEF RunsFlow, ReturnFlow, HangupFlow, PostFlow, UsesHandle
    <2>6. CASE CleanupFlow \/ ExitFlow
      BY <1>0, <2>1, <2>6 DEF RunsFlow, CleanupFlow, ExitFlow
    <2> QED
      BY <2>1, <2>2, <2>3, <2>4, <2>5, <2>6 DEF RunsFlow
  <1>2. CASE OtherFlow
    <2>1. CASE FailFlow \/ LostFlow
      BY <1>0, <1>2, <2>1 DEF OtherFlow, FailFlow, LostFlow
    <2>2. CASE MessageFlow
      BY <1>0, <1>2, <2>2 DEF OtherFlow, MessageFlow
    <2>3. CASE SignalFlow \/ CalmFlow
      BY <1>0, <1>2, <2>3 DEF OtherFlow, SignalFlow, CalmFlow
    <2> QED
      BY <1>2, <2>1, <2>2, <2>3 DEF OtherFlow
  <1> QED
    BY <1>1, <1>2, OthersFlow

\* Where every program is, always.
Settled == BotTypeOK /\ UsesHandle /\ Placed

LEMMA AlwaysSettled == BotSpec => []Settled
  <1>1. BotInit => Placed
    BY DEF BotInit, ContextInit, Init, Placed, Stages
  <1> QED
    BY <1>1, ExampleTypes, HandleUsed, PlacedStep, PTL DEF BotSpec, Settled

----------------------------------------------------------------------------
(***************************************************************************)
(* A halt ends the program                                                  *)
(***************************************************************************)

StageNumber ==
    CASE pc = "gateway" -> 4 [] pc = "gateway_bot" -> 3 [] pc = "user" -> 2 [] OTHER -> 1

\* How far main, once bot_exit is set, is from its return, whatever fails on the way.
Remaining ==
    CASE Over -> 0
      [] ~Over /\ at = "ended" -> 1
      [] ~Over /\ at = "cleanup" -> 2
      [] ~Over /\ at \in {"farewell", "post"} -> 3
      [] ~Over /\ at = "loop" -> 4
      [] ~Over /\ at = "ld_service" /\ pc = "return" /\ ~connected -> 5
      [] ~Over /\ at = "hangup" -> 6
      [] ~Over /\ at = "ld_service" /\ pc = "return" /\ connected -> 7
      [] ~Over /\ at = "ld_service" /\ pc # "return" -> 7 + StageNumber
      [] ~Over /\ at = "call" -> 12
      [] ~Over /\ at = "ld_connect" -> 12 + StageNumber
      [] ~Over /\ at = "start" -> 17

\* With bot_exit set, what happens to a program never takes it further from its end, and
\* what main does takes it nearer.
LEMMA HaltAdvances ==
    ASSUME Settled, Settled', bot_exit, ~Over, [BotNext]_all_vars
    PROVE  /\ bot_exit'
           /\ Remaining \in Nat /\ Remaining' \in Nat
           /\ Remaining' <= Remaining
           /\ Runs => Remaining' < Remaining
  <1> USE DEF Dead, Stages, library, StageNumber
  <1>0. /\ pc \in Stages \cup {"return"} /\ pc' \in Stages \cup {"return", "crashed"}
        /\ at \in Places \ {"crashed"} /\ at' \in Places
        /\ Placed /\ Placed' /\ life # "exited"
        /\ at = "post" => program = "simplepost"
    BY DEF Settled, BotTypeOK, ContextTypeOK, TypeOK, UsesHandle, Over
  <1>1. ASSUME Runs PROVE bot_exit' /\ Remaining' < Remaining
    <2>1. RunsFlow
      BY <1>1, RunsFlows
    <2>2. CASE StartFlow
      BY <1>0, <2>2 DEF StartFlow, Remaining, Over, Places
    <2>3. CASE LeaveFlow
      BY <1>0, <2>3 DEF LeaveFlow, Remaining, Over, Places
    <2>4. CASE CallFlow
      BY <1>0, <2>4 DEF CallFlow, Remaining, Over, Places, Placed
    <2>5. CASE StageFlow
      <3>1. bot_exit' /\ at \in {"ld_connect", "ld_service"} /\ pc \in Stages
        BY <1>0, <2>5 DEF StageFlow
      <3>2. Remaining = IF at = "ld_connect" THEN 12 + StageNumber ELSE 7 + StageNumber
        BY <1>0, <3>1 DEF Remaining, Over
      <3>3. CASE pc' = "crashed"
        BY <3>1, <3>2, <3>3 DEF Remaining, Over
      <3>4. CASE pc' = "return"
        <4>1. Remaining \in Nat /\ IF at = "ld_connect" THEN Remaining > 12 ELSE Remaining > 7
          BY <3>2
        <4>2. CASE at' = "call" /\ at = "ld_connect"
          <5>1. Remaining' \in {0, 12}
            BY <4>2 DEF Remaining
          <5> QED
            BY <3>1, <4>1, <4>2, <5>1
        <4>3. CASE at' = "loop"
          <5>1. Remaining' \in {0, 4}
            BY <4>3 DEF Remaining
          <5> QED
            BY <3>1, <4>1, <5>1
        <4>4. CASE at' = "cleanup"
          <5>1. Remaining' \in {0, 2}
            BY <4>4 DEF Remaining
          <5> QED
            BY <3>1, <4>1, <5>1
        <4> QED
          BY <2>5, <3>4, <4>2, <4>3, <4>4 DEF StageFlow
      <3>5. CASE pc' \notin {"crashed", "return"}
        <4>1. /\ UNCHANGED at /\ ~Over'
              /\ \/ pc = "gateway" /\ pc' = "gateway_bot"
                 \/ pc = "gateway_bot" /\ pc' = "user"
                 \/ pc = "user" /\ pc' = "lws"
          BY <1>0, <2>5, <3>5 DEF StageFlow, Over
        <4>2. Remaining' = IF at = "ld_connect" THEN 12 + StageNumber' ELSE 7 + StageNumber'
          BY <3>1, <4>1 DEF Remaining
        <4> QED
          BY <3>1, <3>2, <4>1, <4>2
      <3> QED
        BY <3>3, <3>4, <3>5
    <2>6. CASE ReturnFlow
      BY <1>0, <2>6 DEF ReturnFlow, Remaining, Over, Places
    <2>7. CASE HangupFlow
      BY <1>0, <2>7 DEF HangupFlow, Remaining, Over, Places, Placed
    <2>8. CASE PostFlow
      BY <1>0, <2>8 DEF PostFlow, Remaining, Over, Places
    <2>9. CASE CleanupFlow
      BY <1>0, <2>9 DEF CleanupFlow, Remaining, Over, Places
    <2>10. CASE ExitFlow
      BY <1>0, <2>10 DEF ExitFlow, Remaining, Over, Places
    <2> QED
      BY <2>1, <2>2, <2>3, <2>4, <2>5, <2>6, <2>7, <2>8, <2>9, <2>10 DEF RunsFlow
  <1>2. ASSUME OtherFlow PROVE bot_exit' /\ Remaining' <= Remaining
    <2>1. CASE FailFlow
      BY <1>0, <2>1 DEF FailFlow, Remaining, Over, Places, Placed
    <2>2. CASE LostFlow
      BY <1>0, <2>2 DEF LostFlow, Remaining, Over, Places, Placed
    <2>3. CASE MessageFlow
      BY <1>0, <2>3 DEF MessageFlow, Remaining, Over, Places, Placed
    <2>4. CASE SignalFlow \/ CalmFlow
      <3>1. UNCHANGED <<at, pc, connected, life>> /\ bot_exit'
        BY <2>4 DEF SignalFlow, CalmFlow
      <3>2. Remaining' = Remaining
        BY <3>1 DEF Remaining, Over
      <3>3. Remaining \in Nat
        BY <1>0 DEF Remaining, Over, Places
      <3> QED
        BY <3>1, <3>2, <3>3
    <2> QED
      BY <1>2, <2>1, <2>2, <2>3, <2>4 DEF OtherFlow
  <1>3. Remaining \in Nat /\ Remaining' \in Nat
    BY <1>0 DEF Remaining, Over, Places
  <1> QED
    BY <1>1, <1>2, <1>3, OthersFlow

\* What the two theorems on what programs do in the end are about: a fair run in which a
\* program that runs can take its steps.
LiveProgram == FairBotSpec /\ []ProgramCanStep

Within(k) == Remaining <= k

CountsDown(m, k) == bot_exit /\ Within(m) ~> bot_exit /\ Within(k)

\* One step of main nearer to the end.
LEMMA OneStepNearer ==
    ASSUME NEW k \in Nat, NEW m, m = k + 1
    PROVE  LiveProgram => CountsDown(m, k)
  <1> DEFINE Here == bot_exit /\ Within(m)
             There == bot_exit /\ Within(k)
  <1>1. Settled /\ Here /\ Over => There
    BY DEF Within, Remaining
  <1>2. Settled /\ Settled' /\ Here /\ [BotNext]_all_vars => Here' \/ There
    BY <1>1, HaltAdvances DEF Within
  <1>3. Settled /\ Settled' /\ Here /\ <<Runs>>_all_vars => There' \/ There
    BY <1>1, HaltAdvances DEF Within, BotNext
  <1>4. Settled /\ Here /\ ProgramCanStep => There \/ ENABLED <<Runs>>_all_vars
    BY <1>1 DEF ProgramCanStep
  <1> QED
    BY <1>2, <1>3, <1>4, AlwaysSettled, PTL
    DEF LiveProgram, FairBotSpec, BotSpec, ProgramFairness, CountsDown

\* HaltStops: bot_exit set anywhere, by a signal while ld_connect waits for its third
\* request as well as by a message, ends in a return of main or in a crash.  No order of
\* errors, reconnects and messages keeps main from testing it.
THEOREM HaltsInTheEnd == LiveProgram => HaltStops
  <1>1. /\ LiveProgram => CountsDown(1, 0) /\ CountsDown(2, 1) /\ CountsDown(3, 2)
        /\ LiveProgram => CountsDown(4, 3) /\ CountsDown(5, 4) /\ CountsDown(6, 5)
        /\ LiveProgram => CountsDown(7, 6) /\ CountsDown(8, 7) /\ CountsDown(9, 8)
        /\ LiveProgram => CountsDown(10, 9) /\ CountsDown(11, 10) /\ CountsDown(12, 11)
        /\ LiveProgram => CountsDown(13, 12) /\ CountsDown(14, 13) /\ CountsDown(15, 14)
        /\ LiveProgram => CountsDown(16, 15) /\ CountsDown(17, 16)
    BY OneStepNearer
  <1>2. Settled => Within(17)
    BY DEF Settled, BotTypeOK, ContextTypeOK, TypeOK, Places, Stages, Within, Remaining,
           StageNumber, Over, Dead
  <1>3. Settled /\ Within(0) => Over
    BY DEF Settled, BotTypeOK, ContextTypeOK, TypeOK, Places, Stages, Within, Remaining,
           StageNumber, Over, Dead
  <1> QED
    BY <1>1, <1>2, <1>3, AlwaysSettled, PTL DEF LiveProgram, FairBotSpec, CountsDown, HaltStops

----------------------------------------------------------------------------
(***************************************************************************)
(* ayylmao retries                                                          *)
(***************************************************************************)

\* ayylmao has its context and no connection, and nobody stops it.
Retrying ==
    program = "ayylmao" /\ life = "made" /\ ~connected /\ ~bot_exit /\ ~Dead

AtStage(stage) == Retrying /\ at = "ld_service" /\ pc = stage
InLoop == Retrying /\ at = "loop" /\ pc = "return"

\* Until it is connected, only the next step of main can come: from the loop into
\* ld_connect, from one stage to the next or back to the loop, and to the next try.
LEMMA RetryStep ==
    ASSUME Settled, Settled', Retrying, Retrying', [BotNext]_all_vars
    PROVE  \/ UNCHANGED all_vars
           \/ at = "loop" /\ at' = "ld_service" /\ ld_connect
           \/ at = "ld_service" /\ ConnectStage
           \/ at = "ld_service" /\ pc = "return" /\ at' = "loop" /\ UNCHANGED context_vars
  <1>1. at \in {"loop", "ld_service"} /\ at' \in {"loop", "ld_service"} /\ ~Over
    BY DEF Settled, Placed, Retrying, Over, Dead
  <1>2. CASE Runs
    <2>1. ~(Starts \/ LeavesLoop \/ CallsConnect \/ HangsUp \/ PostsOnce)
      BY <1>1 DEF Starts, LeavesLoop, StopsLooping, CallsConnect, ConnectsItself, HangsUp,
                  PostsOnce, Retrying
    <2>2. ~(SaysFarewell \/ CleansContext \/ Returns)
      BY <1>1 DEF SaysFarewell, CleansContext, Returns
    <2>3. CASE CallsService
      BY <1>1, <2>3 DEF CallsService, ServiceIsNext, Retrying
    <2>4. CASE ConnectStage
      BY <1>1, <2>4 DEF ConnectStage, Stages
    <2>5. CASE ServiceReturns
      BY <2>5 DEF ServiceReturns
    <2> QED
      BY <1>2, <2>1, <2>2, <2>3, <2>4, <2>5 DEF Runs
  <1>3. ~(ServiceFails \/ ConnectionLost \/ Dispatched \/ MessageCreate \/ Interrupt)
    BY ReceivesFrame DEF Retrying, ServiceFails, ConnectionLost, ConnectionEnds, Disconnect, Dispatched,
           MessageCreate, callback, AyylmaoAnswers, AyylmaoReadsNull, HashOverruns, HashHalts, HashAnswers, CounterHalts,
           CounterAnswers, InCallback, Interrupt
  <1> QED
    BY <1>2, <1>3 DEF BotNext, Halted

\* What is known stays known.
LEMMA RetryKeeps ==
    ASSUME Settled, Settled', Retrying, Retrying', [BotNext]_all_vars
    PROVE  /\ gateway_url => gateway_url'
           /\ gateway_bot_url => gateway_bot_url'
           /\ HasUser => HasUser'
  <1>1. CASE UNCHANGED context_vars \/ ld_connect
    BY <1>1 DEF context_vars, vars, ld_connect, HasUser
  <1>2. CASE ConnectStage
    <2>1. gateway_url => gateway_url'
      BY <1>2, Zenon
         DEF ConnectStage, Connecting, ld_connect, Skip, GetGateway, GetGatewayBot,
             GetCurrentUser, GatewayConnects, GatewayCantConnect
    <2>2. gateway_bot_url => gateway_bot_url'
      BY <1>2, Zenon
         DEF ConnectStage, Connecting, ld_connect, Skip, GetGateway, GetGatewayBot,
             GetCurrentUser, GatewayConnects, GatewayCantConnect
    <2>3. HasUser => HasUser'
      BY <1>2
         DEF HasUser, ConnectStage, Connecting, ld_connect, Skip, GetGateway, GetGatewayBot,
             GetCurrentUser, GatewayConnects, GatewayCantConnect
    <2> QED
      BY <2>1, <2>2, <2>3
  <1> QED
    BY <1>1, <1>2, RetryStep DEF all_vars

\* The way round: each stage leads to the next or back to the loop, and to the next if
\* what it is for is there.
LEMMA RetryMoves ==
    ASSUME Settled, Settled', Retrying, Retrying', [BotNext]_all_vars
    PROVE  \/ UNCHANGED all_vars
           \/ InLoop /\ AtStage("gateway")'
           \/ AtStage("return") /\ InLoop'
           \/ /\ AtStage("gateway")
              /\ AtStage("gateway_bot")' \/ InLoop'
              /\ gateway_url => AtStage("gateway_bot")'
           \/ /\ AtStage("gateway_bot")
              /\ AtStage("user")' \/ InLoop'
              /\ gateway_bot_url => AtStage("user")'
           \/ /\ AtStage("user")
              /\ AtStage("lws")' \/ InLoop'
              /\ HasUser => AtStage("lws")'
           \/ AtStage("lws") /\ InLoop'
  <1> USE DEF AtStage, InLoop
  <1>1. CASE at = "loop" /\ at' = "ld_service" /\ ld_connect
    BY <1>1 DEF ld_connect
  <1>2. CASE at = "ld_service" /\ pc = "return" /\ at' = "loop" /\ UNCHANGED context_vars
    BY <1>2 DEF context_vars, vars
  <1>3. ASSUME at = "ld_service", ConnectStage
        PROVE  /\ pc \in Stages
               /\ IF pc' = "return" THEN at' = "loop" ELSE at' = "ld_service"
               /\ pc' # "crashed"
    BY <1>3 DEF ConnectStage, LibraryFails, AfterError, Retrying, Dead
  <1>4. CASE at = "ld_service" /\ ConnectStage /\ pc = "gateway"
    BY <1>3, <1>4
       DEF ConnectStage, Connecting, ld_connect, Skip, GetGateway, GetGatewayBot, GetCurrentUser,
           GatewayConnects, GatewayCantConnect, Fails
  <1>5. CASE at = "ld_service" /\ ConnectStage /\ pc = "gateway_bot"
    BY <1>3, <1>5
       DEF ConnectStage, Connecting, ld_connect, Skip, GetGateway, GetGatewayBot, GetCurrentUser,
           GatewayConnects, GatewayCantConnect, BotError, Fails
  <1>6. CASE at = "ld_service" /\ ConnectStage /\ pc = "user"
    BY <1>3, <1>6
       DEF ConnectStage, Connecting, ld_connect, Skip, GetGateway, GetGatewayBot, GetCurrentUser,
           GatewayConnects, GatewayCantConnect, UserAfter, HasUser, Fails
  <1>7. CASE at = "ld_service" /\ ConnectStage /\ pc = "lws"
    BY <1>3, <1>7
       DEF ConnectStage, Connecting, ld_connect, Skip, GetGateway, GetGatewayBot, GetCurrentUser,
           GatewayConnects, GatewayCantConnect, Fails
  <1> QED
    BY <1>1, <1>2, <1>3, <1>4, <1>5, <1>6, <1>7, RetryStep DEF Stages

\* It is always at one of these.
LEMMA RetryPlaces ==
    ASSUME Settled, Retrying
    PROVE  \/ InLoop \/ AtStage("return") \/ AtStage("gateway") \/ AtStage("gateway_bot")
           \/ AtStage("user") \/ AtStage("lws")
  BY DEF Settled, BotTypeOK, ContextTypeOK, TypeOK, Placed, Retrying, Dead, Stages, InLoop, AtStage

\* A run in which it retries for ever, and what each of its steps does: main goes round and
\* round, and keeps what it knows.
LiveRun == [](Settled /\ ProgramCanStep) /\ [][BotNext]_all_vars
           /\ ProgramFairness /\ EnvironmentFairness
Retries == LiveRun /\ []Retrying
OnTheWay == Settled /\ Retrying /\ ProgramCanStep

Moves(place, next) == place => IF UNCHANGED all_vars THEN place' ELSE next

LEMMA RetryRun == Retries => []OnTheWay /\ [][BotNext]_all_vars /\ ProgramFairness
  BY PTL DEF Retries, LiveRun, OnTheWay

LEMMA RetryRound ==
    ASSUME OnTheWay, OnTheWay', [BotNext]_all_vars
    PROVE  /\ Moves(AtStage("return"), InLoop')
           /\ Moves(InLoop, AtStage("gateway")')
           /\ Moves(AtStage("gateway"), AtStage("gateway_bot")' \/ (InLoop' /\ ~gateway_url))
           /\ Moves(AtStage("gateway_bot"), AtStage("user")' \/ (InLoop' /\ ~gateway_bot_url))
           /\ Moves(AtStage("user"), AtStage("lws")' \/ (InLoop' /\ ~HasUser))
           /\ Moves(AtStage("lws"), InLoop')
  <1>1. UNCHANGED all_vars => UNCHANGED <<at, pc>>
    BY DEF all_vars, bot_vars, context_vars, vars
  <1>2. Retrying /\ Retrying' /\ Settled /\ Settled'
    BY DEF OnTheWay
  <1>3. ASSUME UNCHANGED all_vars
        PROVE  /\ InLoop => InLoop'
               /\ \A stage : AtStage(stage) => AtStage(stage)'
    BY <1>1, <1>2, <1>3 DEF InLoop, AtStage
  <1>4. CASE UNCHANGED all_vars
    BY <1>3, <1>4 DEF Moves
  <1>5. CASE ~UNCHANGED all_vars
    <2>1. /\ AtStage("return") => InLoop'
          /\ InLoop => AtStage("gateway")'
          /\ AtStage("lws") => InLoop'
      BY <1>2, <1>5, RetryMoves DEF InLoop, AtStage
    <2>2. /\ AtStage("gateway") => AtStage("gateway_bot")' \/ (InLoop' /\ ~gateway_url)
          /\ AtStage("gateway_bot") => AtStage("user")' \/ (InLoop' /\ ~gateway_bot_url)
          /\ AtStage("user") => AtStage("lws")' \/ (InLoop' /\ ~HasUser)
      BY <1>2, <1>5, RetryMoves DEF InLoop, AtStage
    <2> QED
      BY <1>5, <2>1, <2>2 DEF Moves
  <1> QED
    BY <1>4, <1>5

\* Main is never stuck on the way.
LEMMA RetryRuns == OnTheWay => ENABLED <<Runs>>_all_vars
  BY DEF OnTheWay, ProgramCanStep, Retrying, Over

\* ld_connect is called again and again.
LEMMA StartsAgain == Retries => []<>AtStage("gateway")
  <1>1. OnTheWay => \/ InLoop \/ AtStage("return") \/ AtStage("gateway")
                    \/ AtStage("gateway_bot") \/ AtStage("user") \/ AtStage("lws")
    BY RetryPlaces DEF OnTheWay
  <1>2. OnTheWay /\ OnTheWay' /\ [BotNext]_all_vars =>
           /\ AtStage("return") => AtStage("return")' \/ InLoop'
           /\ InLoop => InLoop' \/ AtStage("gateway")'
           /\ AtStage("gateway_bot") => AtStage("gateway_bot")' \/ AtStage("user")' \/ InLoop'
           /\ AtStage("user") => AtStage("user")' \/ AtStage("lws")' \/ InLoop'
           /\ AtStage("lws") => AtStage("lws")' \/ InLoop'
    BY RetryRound DEF Moves
  <1>3. OnTheWay /\ OnTheWay' /\ <<Runs>>_all_vars =>
           /\ AtStage("return") => InLoop'
           /\ InLoop => AtStage("gateway")'
           /\ AtStage("gateway_bot") => AtStage("user")' \/ InLoop'
           /\ AtStage("user") => AtStage("lws")' \/ InLoop'
           /\ AtStage("lws") => InLoop'
    BY RetryRound DEF Moves, BotNext
  <1> QED
    BY <1>1, <1>2, <1>3, RetryRun, RetryRuns, PTL DEF ProgramFairness

\* /gateway answers some time, and then it is not asked again.
LEMMA UrlIsKnown == Retries => <>[]gateway_url /\ []<>AtStage("gateway_bot")
  <1>1. OnTheWay /\ OnTheWay' /\ [BotNext]_all_vars /\ gateway_url => gateway_url'
    BY RetryKeeps DEF OnTheWay
  <1>2. OnTheWay /\ AtStage("gateway") /\ ~gateway_url => ENABLED <<UrlArrives>>_all_vars
    BY DEF OnTheWay, ProgramCanStep, AtStage
  <1>3. <<UrlArrives>>_all_vars => gateway_url'
    BY DEF UrlArrives
  <1>4. Retries => <>[]gateway_url
    BY <1>1, <1>2, <1>3, StartsAgain, RetryRun, PTL
    DEF Retries, LiveRun, EnvironmentFairness
  <1>5. OnTheWay /\ OnTheWay' /\ [BotNext]_all_vars /\ gateway_url /\ AtStage("gateway")
           => AtStage("gateway")' \/ AtStage("gateway_bot")'
    BY RetryRound DEF Moves
  <1>6. OnTheWay /\ OnTheWay' /\ <<Runs>>_all_vars /\ gateway_url /\ AtStage("gateway")
           => AtStage("gateway_bot")'
    BY RetryRound DEF Moves, BotNext
  <1> QED
    BY <1>4, <1>5, <1>6, StartsAgain, RetryRun, RetryRuns, PTL DEF ProgramFairness

\* Nor is /gateway/bot.
LEMMA BotUrlIsKnown == Retries => <>[]gateway_bot_url /\ []<>AtStage("user")
  <1>1. OnTheWay /\ OnTheWay' /\ [BotNext]_all_vars /\ gateway_bot_url => gateway_bot_url'
    BY RetryKeeps DEF OnTheWay
  <1>2. OnTheWay /\ AtStage("gateway_bot") /\ ~gateway_bot_url
           => ENABLED <<ShardsArrive>>_all_vars
    BY DEF OnTheWay, ProgramCanStep, AtStage
  <1>3. <<ShardsArrive>>_all_vars => gateway_bot_url'
    <2> SUFFICES ASSUME GetGatewayBot, shards' PROVE gateway_bot_url'
      BY DEF ShardsArrive
    <2>1. PICK answer \in Answer : /\ gateway_bot_url' = (answer \in {"partial", "complete"})
                                   /\ shards' = (answer = "complete")
      BY DEF GetGatewayBot
    <2> QED
      BY <2>1
  <1>4. Retries => <>[]gateway_bot_url
    BY <1>1, <1>2, <1>3, UrlIsKnown, RetryRun, PTL
    DEF Retries, LiveRun, EnvironmentFairness
  <1>5. OnTheWay /\ OnTheWay' /\ [BotNext]_all_vars /\ gateway_bot_url /\ AtStage("gateway_bot")
           => AtStage("gateway_bot")' \/ AtStage("user")'
    BY RetryRound DEF Moves
  <1>6. OnTheWay /\ OnTheWay' /\ <<Runs>>_all_vars /\ gateway_bot_url /\ AtStage("gateway_bot")
           => AtStage("user")'
    BY RetryRound DEF Moves, BotNext
  <1> QED
    BY <1>4, <1>5, <1>6, UrlIsKnown, RetryRun, RetryRuns, PTL DEF ProgramFairness

\* Once there is memory for it, the user is asked for; after that there is a struct, filled
\* or not, and the way to ld_gateway_connect is free.
LEMMA UserIsThere == Retries => []<>AtStage("lws")
  <1>1. OnTheWay /\ OnTheWay' /\ [BotNext]_all_vars /\ HasUser => HasUser'
    BY RetryKeeps DEF OnTheWay
  <1>2. OnTheWay /\ AtStage("user") /\ ~HasUser => ENABLED <<UserAllocated>>_all_vars
    BY DEF OnTheWay, ProgramCanStep, AtStage
  <1>3. <<UserAllocated>>_all_vars => HasUser'
    BY DEF UserAllocated
  <1>4. Retries => <>[]HasUser
    BY <1>1, <1>2, <1>3, BotUrlIsKnown, RetryRun, PTL
    DEF Retries, LiveRun, EnvironmentFairness
  <1>5. OnTheWay /\ OnTheWay' /\ [BotNext]_all_vars /\ HasUser /\ AtStage("user")
           => AtStage("user")' \/ AtStage("lws")'
    BY RetryRound DEF Moves
  <1>6. OnTheWay /\ OnTheWay' /\ <<Runs>>_all_vars /\ HasUser /\ AtStage("user")
           => AtStage("lws")'
    BY RetryRound DEF Moves, BotNext
  <1> QED
    BY <1>4, <1>5, <1>6, BotUrlIsKnown, RetryRun, RetryRuns, PTL DEF ProgramFairness

\* Nobody retries for ever.
LEMMA RetriesEnd == LiveRun => ~[]Retrying
  <1>1. OnTheWay /\ AtStage("lws") => ENABLED <<LwsConnects>>_all_vars
    BY DEF OnTheWay, ProgramCanStep, AtStage
  <1>2. <<LwsConnects>>_all_vars => ~Retrying'
    BY DEF LwsConnects, GatewayConnects, Retrying
  <1>3. OnTheWay => Retrying
    BY DEF OnTheWay
  <1>4. Retries => FALSE
    BY <1>1, <1>2, <1>3, UserIsThere, RetryRun, PTL
    DEF Retries, LiveRun, EnvironmentFairness
  <1> QED
    BY <1>4, PTL DEF Retries

\* RetriesConnect: whatever requests fail, and however often, ayylmao with a context gets
\* as far as a connection, because no failure costs it what an earlier request brought.
THEOREM AyylmaoConnects == LiveProgram => RetriesConnect
  <1> DEFINE Made == program = "ayylmao" /\ life = "made"
             Done == connected \/ bot_exit \/ Dead
  <1>1. Made /\ ~Done <=> Retrying
    BY DEF Retrying
  <1>2. Settled /\ Settled' /\ [BotNext]_all_vars /\ Retrying => Retrying' \/ Done'
    <2> SUFFICES ASSUME Settled, Settled', [BotNext]_all_vars, Retrying PROVE Made'
      BY DEF Retrying
    <2>1. at \in {"loop", "ld_service"} /\ life = "made" /\ program = "ayylmao"
      BY DEF Settled, Placed, Retrying
    <2>2. CASE RunsFlow
      BY <2>1, <2>2 DEF RunsFlow, StartFlow, LeaveFlow, CallFlow, StageFlow, ReturnFlow,
                        HangupFlow, PostFlow, CleanupFlow, ExitFlow, library
    <2>3. CASE OtherFlow
      BY <2>1, <2>3 DEF OtherFlow, FailFlow, LostFlow, MessageFlow, SignalFlow, CalmFlow, library
    <2> QED
      BY <2>2, <2>3, RunsFlows, OthersFlow
  <1>3. LiveProgram => LiveRun
    BY AlwaysSettled, PTL DEF LiveProgram, FairBotSpec, BotSpec, LiveRun
  <1>4. LiveRun => (Made ~> Done)
    <2>1. LiveRun => []LiveRun
      BY PTL DEF LiveRun, ProgramFairness, EnvironmentFairness
    <2>2. LiveRun => []Settled /\ [][BotNext]_all_vars
      BY PTL DEF LiveRun
    <2> QED
      BY <1>1, <1>2, <2>1, <2>2, RetriesEnd, PTL
  <1> QED
    BY <1>3, <1>4, PTL DEF RetriesConnect
=============================================================================
