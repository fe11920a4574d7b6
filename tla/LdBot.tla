-------------------------------- MODULE LdBot --------------------------------
(***************************************************************************)
(* The example programs (example_bots/), each with the library underneath:  *)
(* LdContext and LdConnect for what its calls do, LdJson for the messages   *)
(* its callback gets.  A program is a loop around ld_service, with a flag   *)
(* that SIGINT or a message sets; what differs is who calls ld_connect,     *)
(* what an error leads to, and what is left behind in the end.              *)
(*                                                                          *)
(* A message that a callback ignores changes nothing here.                  *)
(***************************************************************************)
EXTENDS LdContext, LdJson

\* The ids of those who write messages.
Authors == {"human", "another bot", "self"}

\* hash takes leave when it may have lost its connection, and simplepost has none.
ASSUME BotAssumption ==
    /\ AppSendsEarly
    /\ JsonNull \notin Authors

VARIABLES
    program,
    at,         \* where main is: "start", "loop", "ld_connect", "call" (of ld_service,
                \* with bot_exit tested already), "ld_service", "hangup" (a callback
                \* returned an error), "post", "farewell", "cleanup", "ended", "crashed"
    bot_state,  \* ld_connect has been called
    bot_exit,
    target,     \* target_channel # 0
    answered    \* whose message was answered last

\* In the library, or in the program itself.
Dead == pc = "crashed" \/ at = "crashed"
Over == life = "exited" \/ Dead

bot_vars == <<program, at, bot_state, bot_exit, target, answered>>
all_vars == <<context_vars, bot_vars>>

Programs == {"ayylmao", "counter", "hash", "ping", "simplepost"}

\* simplepost posts once and has no loop; ayylmao leaves it to ld_service to connect.
ConnectsItself == {"counter", "hash", "ping"}
CleansUp == {"ayylmao", "hash", "ping"}

Places == {"start", "loop", "ld_connect", "call", "ld_service", "hangup", "post", "farewell",
           "cleanup", "ended", "crashed"}

BotTypeOK ==
    /\ ContextTypeOK
    /\ program \in Programs /\ at \in Places
    /\ bot_state \in BOOLEAN /\ bot_exit \in BOOLEAN /\ target \in BOOLEAN
    /\ answered \in Authors \cup {"nobody"}

BotInit ==
    /\ ContextInit
    /\ program \in Programs /\ at = "start"
    /\ bot_state = FALSE /\ bot_exit = FALSE /\ target = FALSE
    /\ answered = "nobody"

----------------------------------------------------------------------------
(***************************************************************************)
(* main, up to the loop                                                     *)
(***************************************************************************)

\* What the program knows of its info.  ping never calls ld_init_context_info: all it has
\* not set itself is as malloc left it.
InfoOf(p) ==
    {info \in Info :
        /\ info.bot_token
        /\ p # "ping" => info.init_presence = (p = "hash") /\ info.names = "default"}

\* hash cleans up whatever it has got; the others just return.
AfterFailure(p) == IF p = "hash" THEN "cleanup" ELSE "ended"

Starts ==
    /\ at = "start"
    /\ \E info \in InfoOf(program) :
          \/ /\ ld_init_context(info, "done")
             /\ at' = IF program = "simplepost" THEN "post" ELSE "loop"
          \/ /\ \E step \in FailsAt(info) : ld_init_context(info, step)
             /\ at' = AfterFailure(program)
          \/ InitCopiesNull(info) /\ UNCHANGED at
    /\ UNCHANGED <<program, bot_state, bot_exit, target, answered>>

----------------------------------------------------------------------------
(***************************************************************************)
(* The loop                                                                 *)
(***************************************************************************)

PingJustReturns(p) ==                          \* mutant: ping returns without a cleanup
    IF p = "ping" THEN "ended" ELSE "loop"
\* Where an error takes the program: ayylmao tries again, its fail_mode being 1; hash and
\* counter set bot_exit and are seen out by the head of the loop.
AfterError(p) == IF p = "ping" THEN "cleanup" ELSE "loop"
GivesUp(p) == p \in {"counter", "hash"}
LibraryFails ==
    /\ at' = AfterError(program)
    /\ bot_exit' = (bot_exit \/ GivesUp(program))

\* After the loop hash says farewell, and counter skips what is commented out.
AfterLoop(p) == CASE p = "hash" -> "farewell" [] p = "counter" -> "ended" [] OTHER -> "cleanup"

StopsWhenOffline ==                            \* mutant: bot_exit tested between connections
    bot_exit /\ ~connected
StopsLooping == bot_exit

LeavesLoop ==
    /\ at = "loop" /\ StopsLooping
    /\ at' = AfterLoop(program)
    /\ UNCHANGED <<context_vars, program, bot_state, bot_exit, target, answered>>

\* The first round of a loop that connects itself.  ping sets bot_state only when
\* ld_connect succeeds, and has left the loop when it does not.
CallsConnect ==
    /\ at = "loop" /\ ~StopsLooping
    /\ program \in ConnectsItself /\ ~bot_state
    /\ ld_connect /\ Stores
    /\ at' = "ld_connect" /\ bot_state' = TRUE
    /\ UNCHANGED <<program, bot_exit, target, answered>>

ServiceIsNext ==
    \/ at = "call"
    \/ at = "loop" /\ ~StopsLooping /\ (program \in ConnectsItself => bot_state)

\* ld_service, with a connection or without one.
CallsService ==
    /\ ServiceIsNext
    /\ IF connected THEN UNCHANGED context_vars ELSE ld_connect /\ Stores
    /\ at' = "ld_service"
    /\ UNCHANGED <<program, bot_state, bot_exit, target, answered>>

\* ld_service that comes back with a heartbeat missed, or no room for one.
ServiceFails ==
    /\ ServiceIsNext /\ connected
    /\ LibraryFails
    /\ UNCHANGED <<context_vars, program, bot_state, target, answered>>

\* A stage of ld_connect, and what becomes of its result: after its own ld_connect ping
\* goes on to ld_service in the same round.
ConnectStage ==
    /\ at \in {"ld_connect", "ld_service"} /\ pc \in Stages
    /\ Connecting /\ Stores
    /\ \/ /\ pc' # "return"
          /\ UNCHANGED <<at, bot_exit>>
       \/ /\ pc' = "return" /\ connected'
          /\ at' = IF at = "ld_connect" /\ program = "ping" THEN "call" ELSE "loop"
          /\ UNCHANGED bot_exit
       \/ /\ pc' = "return" /\ ~connected'
          /\ LibraryFails
    /\ UNCHANGED <<program, bot_state, target, answered>>

ServiceReturns ==
    /\ at = "ld_service" /\ pc = "return"
    /\ at' = "loop"
    /\ UNCHANGED <<context_vars, program, bot_state, bot_exit, target, answered>>

ConnectionEnds ==
    /\ Disconnect /\ Stores
    /\ at' = "ld_service"
    /\ UNCHANGED <<program, bot_state, bot_exit, target, answered>>

\* lws loses the connection, or closes it after a callback that returned an error.
ConnectionLost == at = "ld_service" /\ ConnectionEnds
HangsUp == at = "hangup" /\ ConnectionEnds

\* What the library makes of other dispatches; the programs' callbacks ignore them.
Dispatched ==
    /\ at = "ld_service"
    /\ Receives
    /\ UNCHANGED bot_vars

----------------------------------------------------------------------------
(***************************************************************************)
(* MESSAGE_CREATE                                                           *)
(***************************************************************************)

\* The "author" of a message: Discord says of bots that they are bots.
AuthorObject(a) == IF a = "human" THEN [id |-> a] ELSE [id |-> a, bot |-> TRUE]

\* A message as it is parsed: without content, or with one that halts the bot, that is
\* what the bot answers, or what it answers with an error, or anything else.
Contents == {"hcf", "trigger", "bad trigger", "else"}
Parsed(a, content) ==
    PackMessage([channel_id |-> 1, author |-> AuthorObject(a), content |-> content])
ParsedWithout(a) == PackMessage([channel_id |-> 1, author |-> AuthorObject(a)])

\* What comparing with the own id may yield, and with the "bot" flag: each may be memory
\* that nobody has written.
OwnId(message) == IF current_user = "loaded" THEN {message.author.id = "self"} ELSE BOOLEAN
FlagUnread(message) == {FALSE}                 \* mutant: only the own id is looked at
BotFlag(message) == IF message.author.bot = Garbage THEN BOOLEAN ELSE {message.author.bot}

Heeded(message) == FALSE \in OwnId(message) /\ FALSE \in BotFlag(message)

\* The callback is called within ld_service.
InCallback(p) == at = "ld_service" /\ connected /\ program = p

\* ld_send_basic_message, with what comes of it.
Posts(answer) == (\E body \in MessageBody : Sends(body, answer)) /\ Stores

AnswersTo(message) ==
    /\ answered' = message.author.id
    /\ UNCHANGED <<program, bot_state, bot_exit>>

\* ayylmao looks at the author first, then compares the content without a test for NULL.
AyylmaoAnswers(message) ==
    /\ InCallback("ayylmao") /\ Heeded(message) /\ message.channel_id # 0
    /\ message.content = "trigger"
    /\ \E answer \in Answer : Posts(answer)
    /\ AnswersTo(message)
    /\ UNCHANGED <<at, target>>

AyylmaoReadsNull(message) ==
    /\ InCallback("ayylmao") /\ Heeded(message) /\ message.channel_id # 0
    /\ message.content = NULL
    /\ at' = "crashed"
    /\ UNCHANGED <<context_vars, program, bot_state, bot_exit, target, answered>>

\* hash obeys before it looks at the author.
HashHalts(message) ==
    /\ InCallback("hash") /\ message.content = "hcf"
    /\ bot_exit' = TRUE /\ target' = TRUE
    /\ UNCHANGED <<context_vars, program, at, bot_state, answered>>

\* A post of the hash that fails is an error of the callback; one that there is no such
\* hash function is not looked at.
HashAnswers(message) ==
    /\ InCallback("hash") /\ Heeded(message)
    /\ \E answer \in Answer :
          /\ Posts(answer)
          /\ \/ /\ message.content = "trigger"
                /\ at' = IF answer = "refused" THEN "hangup" ELSE at
             \/ /\ message.content = "bad trigger"
                /\ UNCHANGED at
    /\ target' = TRUE
    /\ AnswersTo(message)

\* It prints the name of a hash function, however long, into 100 bytes, and appends the
\* hash to memory nobody has written.
HashOverruns(message) ==
    /\ InCallback("hash") /\ Heeded(message)
    /\ message.content \in {"trigger", "bad trigger"}
    /\ at' = "crashed"
    /\ UNCHANGED <<context_vars, program, bot_state, bot_exit, target, answered>>

CounterHalts(message) ==
    /\ InCallback("counter") /\ message.content = "hcf"
    /\ bot_exit' = TRUE
    /\ UNCHANGED <<context_vars, program, at, bot_state, target, answered>>

\* One number in a hundred is answered.
CounterAnswers(message) ==
    /\ InCallback("counter") /\ Heeded(message)
    /\ message.content = "trigger"
    /\ \E answer \in Answer : Posts(answer)
    /\ AnswersTo(message)
    /\ UNCHANGED <<at, target>>

callback(message) ==
    \/ AyylmaoAnswers(message) \/ AyylmaoReadsNull(message)
    \/ HashHalts(message) \/ HashAnswers(message) \/ HashOverruns(message)
    \/ CounterHalts(message) \/ CounterAnswers(message)

MessageCreate ==
    \E a \in Authors :
        callback(ParsedWithout(a)) \/ \E content \in Contents : callback(Parsed(a, content))

----------------------------------------------------------------------------
(***************************************************************************)
(* The end                                                                  *)
(***************************************************************************)

\* simplepost's one message.
PostsOnce ==
    /\ at = "post"
    /\ \E answer \in Answer : Posts(answer)
    /\ at' = "ended"
    /\ UNCHANGED <<program, bot_state, bot_exit, target, answered>>

\* hash takes leave of the channel it was last used in.
SaysFarewell ==
    /\ at = "farewell"
    /\ IF target THEN \E answer \in Answer : Posts(answer) ELSE UNCHANGED context_vars
    /\ at' = "cleanup"
    /\ UNCHANGED <<program, bot_state, bot_exit, target, answered>>

CleansContext ==
    /\ at = "cleanup"
    /\ ld_cleanup_context
    /\ at' = IF pc' = "crashed" THEN at ELSE "ended"
    /\ UNCHANGED <<program, bot_state, bot_exit, target, answered>>

Returns == at = "ended" /\ Exits /\ UNCHANGED bot_vars

\* sig_handler, at any moment once it is installed; simplepost has none.
Interrupt ==
    /\ program # "simplepost" /\ ~bot_exit
    /\ ~Over
    /\ bot_exit' = TRUE
    /\ UNCHANGED <<context_vars, program, at, bot_state, target, answered>>

Halted == Over /\ UNCHANGED all_vars

----------------------------------------------------------------------------

\* What main does without being asked to.
Runs ==
    \/ Starts \/ LeavesLoop \/ CallsConnect \/ CallsService
    \/ ConnectStage \/ ServiceReturns
    \/ HangsUp
    \/ PostsOnce \/ SaysFarewell \/ CleansContext \/ Returns

BotNext ==
    \/ Runs
    \/ ServiceFails \/ ConnectionLost \/ Dispatched \/ MessageCreate
    \/ Interrupt \/ Halted

BotSpec == BotInit /\ [][BotNext]_all_vars

HasUser == current_user # "NULL"
UrlArrives == ConnectStage /\ GetGateway /\ gateway_url'
ShardsArrive == ConnectStage /\ GetGatewayBot /\ shards'
UserAllocated == ConnectStage /\ ~HasUser /\ HasUser'
LwsConnects == ConnectStage /\ GatewayConnects

\* The program runs, and a request or an lws_service comes to an end.
ProgramFairness == WF_all_vars(Runs)

\* Neither Discord nor the network fails for ever a request that they can answer, nor
\* malloc the one allocation whose failure is noticed.
EnvironmentFairness ==
    /\ SF_all_vars(UrlArrives) /\ SF_all_vars(ShardsArrive) /\ SF_all_vars(LwsConnects)
    /\ SF_all_vars(UserAllocated)

FairBotSpec == BotSpec /\ ProgramFairness /\ EnvironmentFairness

----------------------------------------------------------------------------
(***************************************************************************)
(* Properties                                                               *)
(***************************************************************************)

\* No program ever answers itself or another bot, although the struct it takes its own
\* id from may never have been filled, and the author's flag may not have been either.
AnswersHumansOnly == answered \in {"nobody", "human"}

\* A program that got its context made and cleans up has given back, when main returns,
\* what ld_cleanup_context gives back, however it left the loop.
ReturnsCleanly ==
    at = "ended" /\ program \in CleansUp => life # "made"

\* Every callback of the examples reads the id of context->current_user without a test:
\* the struct is there whenever a message can come, whatever /users/@me answered.
CallbackHasUser == at = "ld_service" /\ connected => HasUser

\* A program that has neither returned nor crashed has a next step of its own, wherever an
\* error or a lost connection has left it, and a request ld_connect is about to make can
\* succeed.  It is what the fairness above takes hold of.
ProgramCanStep ==
    /\ ~Over => ENABLED <<Runs>>_all_vars
    /\ pc = "gateway" /\ ~gateway_url => ENABLED <<UrlArrives>>_all_vars
    /\ pc = "gateway_bot" /\ ~gateway_bot_url => ENABLED <<ShardsArrive>>_all_vars
    /\ pc = "user" /\ ~HasUser => ENABLED <<UserAllocated>>_all_vars
    /\ pc = "lws" => ENABLED <<LwsConnects>>_all_vars

\* SIGINT, or a message that halts it, ends a program, or it has crashed.
HaltStops == bot_exit ~> Over

\* ayylmao, which retries, gets its connection, whatever failed before, unless it is
\* stopped or crashes.
RetriesConnect ==
    program = "ayylmao" /\ life = "made" ~> connected \/ bot_exit \/ Dead
=============================================================================
