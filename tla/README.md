# A verification of libdiscord in TLA+

This directory holds TLA+ models of libdiscord, the configurations with which TLC
checks them, and theorems about them that the TLA+ proof system (TLAPS) checks.
`PROJECT.json` lists the components, the runs, the mutants that show that each
property can fail, the source lines every definition stands for, the hazards of
the code and the theorems.

## 1. The system

libdiscord is a C library for Discord bots. A program fills in a
`struct ld_context_info`, calls `ld_init_context`, and then calls
`ld_service(context, timeout)` in a loop. Everything happens on that thread:
there is no locking, and all the interleaving comes from libwebsockets (lws),
which runs `ld_lws_callback` any number of times inside `lws_service`, from the
gateway, which sends when it likes, and from connections that break at any point
while the context lives on.

| Component | State | Operations | Talks to |
|---|---|---|---|
| Gateway client (`libdiscord.c`) | `lws_wsi`, `heartbeat_interval`, `last_hb`, `hb_count`, `gateway_ring`, `gateway_rx_buffer`, `gateway_session_id`, `last_seq`, `close_code` | `ld_service`, `ld_gateway_connect`, `ld_lws_callback` (one case per reason), `ld_gateway_payload_parser`, `ld_gateway_dispatch_parser`, `ld_gateway_queue_heartbeat` | lws (calls and callbacks), the gateway (messages), the user's callback |
| Bootstrap (`libdiscord.c`, `REST.c`) | `gateway_url`, `gateway_bot_url`, `shards`, `current_user` | `ld_connect`, `_ld_get_gateway`, `_ld_get_gateway_bot`, `ld_get_current_user` | REST; called by `ld_service` whenever `lws_wsi` is NULL |
| REST (`REST.c`) | `curl_handle` and the options on it; per request a header list, a body, a response buffer | `ld_rest_send_request`, `ld_rest_writefunction`, `ld_headers_put`, `ld_send_basic_message` | curl; called by the bootstrap and by the application |
| Context life cycle (`libdiscord.c`) | what of the context is created | `ld_init_context`, `ld_cleanup_context` | curl, lws |
| JSON (`json.c`) | none (a struct nobody initialised, now and then) | conversions between structs and jansson objects, payload building, snowflakes | jansson; called by the parser and by bots |
| Logging (`log.c`) | the log level | `ld_error`, ..., `ld_debug` | called by all |
| Example bots (five programs) | `bot_exit`, `bot_state`, `target_channel` | `main`: a loop around `ld_service`; a user callback that posts; a SIGINT handler | the library |

What is hard in it:

* **One context, many connections.** The context outlives its connections, and
  most of its fields are not reset when a connection ends: `hb_count`, the
  transmit ring, the rx buffer and the session all pass on to the next one.
* **Early returns in `ld_service`.** A missed acknowledgement, or a full ring,
  makes it return before `lws_service`. Nothing else services the socket.
* **Two bookkeepers.** `hb_count` is counted up when a heartbeat is *queued* and
  down when an ACK is *parsed*. In between lie the ring, the wire, the gateway,
  fragments, and any number of lost connections.
* **Retries over half-done work.** `ld_connect` is repeated until it succeeds and
  decides what to repeat from what the failed attempt left in the context.
* **A shared curl handle**, whose options no request resets.
* **Two units and a wall clock.** The interval comes in milliseconds, the timer counts
  seconds, in unsigned arithmetic, of a clock that can be set back.
* **Memory nobody has written.** The user a callback compares with, a message's author,
  and the identify struct of a client with a session may be as they were allocated.

What makes each component correct:

* Gateway client: at most one connection; at most one heartbeat unanswered, and
  counted; nothing sent before the first HELLO; every HELLO answered by IDENTIFY;
  fragments joined with their own message only; connections settle.
* Bootstrap: a connection is only made with what it needs; a client that keeps
  trying gets there.
* REST: a request goes out as it was made.
* Life cycle: what the fields of a context give back was obtained, and is given back once; no
  retry or reconnect obtains a URL, a user or a handle for a field that has one.
* Session: the sequence number is this session's or none; heartbeats are in time.
* JSON: a snowflake survives its round trip.
* Example bots: they answer humans only, stop when told to, return having cleaned up,
  and the one that retries gets its connection.

## 2. The modules

| Module | What it is |
|---|---|
| `LwsRing` | the lws ring buffer as libdiscord uses it (external) |
| `LdGateway` | the gateway client: service loop, callback, parser, heartbeat queue, with the gateway and the network as environment |
| `HeartbeatMonitor` | abstract specification of the heartbeat bookkeeping |
| `MCLdGateway` | instances of `LdGateway` for TLC |
| `LdGatewayProofs` | type correctness and the heartbeat accounting |
| `LdGatewaySafetyProofs` | the other safety properties of `LdGateway`, and the refinement |
| `LdGatewayLivenessProofs` | its liveness properties |
| `LdRest` | the shared curl handle |
| `LdConnect` | `ld_connect` and its three requests, over `LdRest` |
| `LdContext` | a context from `ld_init_context` to `ld_cleanup_context`, over `LdConnect`, and the next one |
| `LdContextProofs` | proofs about `LdConnect` and about the ledger of `LdContext` |
| `LdClient` | `LdContext` and `LdGateway` in one: the gateway client inside its context, and the next context |
| `MCLdClient` | an instance of `LdClient` for TLC |
| `LdClientProofs` | the two compose: each is the environment the other assumes |
| `LdJson` | `json.c`: payloads, IDENTIFY, presences, users, messages, snowflakes, as operators |
| `LdJsonProofs` | snowflakes, for all of them |
| `LdSession` | the gateway client again, one connection at a time, with the clock, the timer, `last_seq` and the payloads (over `LdJson`); implements `LdGateway` |
| `MCLdSession` | an instance of `LdSession`, and `LdJson` on bounded inputs, as assumptions TLC evaluates |
| `LdSessionProofs` | its invariants, the refinement, and what it takes over from `LdGateway` |
| `LdBot` | the five example programs over `LdContext`, `LdConnect` and `LdJson` |
| `LdBotProofs` | proofs about them, liveness included |

### LdGateway

`phase` says where the one thread is: in the application (`"app"`), or inside
`lws_service` (`"service"`), which is the only place where callbacks run. One
call of `ld_service` is one of

* `ServiceConnects`, `ServiceCantConnect`: no connection; `ld_connect` is called
  and `ld_service` returns without `lws_service`. (What `ld_connect` does before
  the connection is in `LdConnect`; here it works or it does not.)
* `ServiceMissedAck`, `ServiceCantFitHeartbeat`: the early returns.
* `ServicePolls`, then any number of callbacks, then `ServiceReturns`.

Each case of `ld_lws_callback` is an action: `ConnectionError`, `Established`,
`PeerInitiatedClose`, `WsiDestroy` (with `CLIENT_CLOSED`, which does nothing),
`Writeable`, and for `RECEIVE`, which distinguishes fragments, `ReceiveWhole`,
`ReceiveFirst`, `ReceiveMiddle` and `ReceiveLast`. `Parse` is
`ld_gateway_payload_parser`, with one operator per opcode that does something.
`Drop` is a connection that breaks, `Elapse` the passing of the heartbeat
interval, `AppConnects` an application that calls `ld_connect` itself.

How state corresponds: `hb_armed` is `heartbeat_interval != 0`; `hb_elapsed` is
the comparison of clock and `last_hb` in `ld_service`, set again by anything that
sets `last_hb`; `session` is `gateway_session_id != NULL`; `rx_buffer` is NULL or
the connection whose bytes are in `gateway_rx_buffer`, `Mixed` when they are no
one message's (a fragment behind another connection's, or the rest of a
connection that is gone). A connection is an identity `w`, and lws may use the
address of a destroyed one again. `greeted`, `hello_parsed`, `identified` and
`unacked` are the conversation on a connection, as seen by the gateway or, for
`hello_parsed`, by the library; they are there for the properties and for
`GatewaySends`, the gateway that keeps to its protocol: HELLO first and once, one
ACK per heartbeat, the rest after IDENTIFY. Discord is also allowed to send
nothing, to close with any code of `CloseCodes`, and to send what the parser
refuses (`"BAD"`).

Undefined behaviour is a choice: the identify struct that is used uninitialised
when there is a session (`UninitOutcomes`: a payload comes out of it, an error, or
a crash). A null dereference (`context->gi` on a fatal close) is a crash.

### LdConnect and LdRest

`pc` is the stage `ld_connect` has reached; each request is one step, because it
blocks. `current_user` is NULL, filled (`"loaded"`), filled from an answer that lacks fields
(`"partial"`), or allocated and never written (`UserAfter`); the allocation may fail too. `GetGateway`, `GetGatewayBot` and `GetCurrentUser` say what each outcome
(`Answer`) leaves in the context; `Skip` is a stage whose result is there
already. `LdRest` keeps what curl would do with the next request: whether the
handle has become a POST handle and what memory its body is in. `performed` is
the last request as it was made and as it went out.

### LdContext

`LdContext` composes the life cycle with `LdConnect` (`Serves` is a step of
`LdConnect!Next` that also enters what it allocates). Its ledger has two sides:
`held`, the fields of the context that are not NULL, and `obtained`, how much was
obtained for a field and not given back, whether or not a pointer leads there. So
a leak is an entry of `obtained` that outlives the pointer, and a second free takes
an entry below zero. `ld_init_context` is one step with the point at which it fails
as a parameter (`FailsAt`), or "done"; nothing is undone on failure, and the program
may then call `ld_cleanup_context` (`example-hash` does) or exit (the others do). Two
crashes are in the code and in the model: `lws_ring_destroy(NULL)` when the
initialisation failed before the ring, and the copy of a NULL browser
(`InitCopiesNull`). A context made without an info (`"bare"`) has no token: its `ld_connect` gets
`/gateway` and is refused `/gateway/bot` (`Stores`). `Receives` is what received messages do to the two fields that are
obtained again and again: `Ready`, `InvalidSession`, `FirstFragment`, `LastFragment`, and
`LastOfReady` and `LastOfInvalidSession`, where the last fragment of a message touches both.
That this is what the gateway client does is shown in `LdClient`. The ledger is about the
fields of the context and nothing else: the memory of requests, responses and JSON objects is
not in it (nor, then, the `json_decref` of a borrowed reference, whose crash is an outcome of
`GetGateway`), and neither is what `ld_gateway_connect` allocates for itself and loses (section 5).

### LdClient

`LdContext` knows of the gateway client only that a connection, a session id and an rx buffer
come and go; `LdGateway` has one context for ever, whose `ld_connect` just works or not.
`LdClient` has both states and puts their steps together. `NewContext` is `MakesContext` of
`LdContext` with the struct zeroed (`StructZeroed`); `CleansUp` is `ld_cleanup_context` with the
connections closed by `lws_context_destroy`, and with pointers to freed memory left in
the struct; `Bootstraps` goes through `ld_connect`'s stages and, in the last, is
`ServiceConnects`; `Services` and `RunsCallback` are `LdGateway`'s actions, each with the ledger
entry (`Enters`) for what it allocates and frees, read off the code of the callback: a malloc
for a first fragment whatever the buffer held, a realloc that obtains only if there was no
buffer, a strdup for READY, a free for INVALID_SESSION if there was a session, and a free
of the buffer behind the message. `TimePasses` lets the heartbeat interval run out at any
time, in a bootstrap too. Obtaining is bounded by `MaxLost` as in `LdContext`. A program that
leaves takes no more steps, so it has no action for that.

### LdJson

A JSON object is a function from its keys. What a NULL does is kept apart from what a
JSON `null` does (`json_object_set` takes no NULL, so the key is missing; `null` is a
value that `json_integer_value` turns into 0), and both from memory nobody has written
(`Garbage`). `LoadUser` and `PackMessage` leave what the object does not have as it lies;
`RolesRead` reads as many roles as there are bytes before the first zero, which is what
`strlen` counts; `UnpackStatusUpdate` never has a game, because `ld_json_dump_activity`
is empty. `SaveResumeStatus` says that a RESUME is checked and then not built.

### LdSession

The same code as `LdGateway`, seen from the other side: there, what several connections,
fragments and close codes do; here, what is in the fields that `LdGateway` abstracts from.
`last_hb` and `clock` are in seconds and `Since` is the unsigned difference of `ld_service`
(`Modulus` is 2^64 in the code); `heartbeat_interval` is in milliseconds; `ring` holds
payloads made by `CreatePayload`; `last_seq` is what `ParsedSeq` makes of each payload's
`"s"`, null in all but dispatches. `in_session` and `gw_seq` are the gateway's side of the
session. `Tick` lets the clock run, `SetBack` sets it back at any time (`lws_now_secs`
reads the wall clock), `age` is the true time since `last_hb` was set, and `idle` the
time since `ld_service` was called, which the application keeps below `ServiceGap`.

`ImplementsGateway` instantiates `LdGateway` with one connection, `hb_elapsed` replaced
by the comparison with the clock, `hb_armed` by the interval being there, and the ring by
its opcodes. One kind of step is excepted: when the clock is set back, or runs again
after that, the comparison may turn false again, which the flag of `LdGateway` cannot.

### LdBot

`at` is where `main` is; the rest of the state is the library's (`LdContext`). A program
calls `ld_connect` itself (`CallsConnect`) or leaves it to `ld_service`, and what it does
with an error is `AfterError` and `GivesUp`: ayylmao goes on, ping leaves the loop by a
break, hash and counter set `bot_exit`. A message comes while `main` is in `ld_service` and
there is a connection, goes through `PackMessage`, and meets the callback: the tests are
in the callback's order (hash obeys a halt before it looks at the author, ayylmao looks at
the author before the content and does not test the content for NULL). The comparison with
`current_user->id` yields either result unless the user was loaded, and so does the
author's `bot` unless the key was there. `Interrupt` is SIGINT at any moment. `HangsUp` is
lws closing the connection because hash's callback returned an error. `HashOverruns` is hash
printing the name of a hash function into 100 bytes, or appending to memory nobody has
written: the program may crash on any message it answers. Posts are
`LdConnect!Sends`, with a body or, when the text is not UTF-8, without. What ends a
program is `Exits` of `LdContext`, after `ld_cleanup_context` where the program calls it.

## 3. The runs

| Run | Checks | Instance |
|---|---|---|
| `gateway_single` | `TypeOK`, `OneGatewayConnection`, `HelloAnswered`, `FragmentsReassemble`, `ClientCanStep`, `ConnectionsSettle`, `HelloIsAnswered` | two connection identities, ring of 3, all fragmentations, all outcomes; only `ld_service` connects; fairness |
| `gateway_heartbeat` | `OneHeartbeatOutstanding`, `NothingBeforeFirstHello`, `MissedAckStopsService`, `HeartbeatsAreMonitored` | two connections at once (the application may call `ld_connect`), ring of 2, ACKs in fragments |
| `context_life` | `ContextTypeOK`, `ConnectHasUrl`, `CleanupReleases`, `FieldsObtainedOnce` | two contexts one after the other, every failure of their initialisation, an application that posts and gets at any time |
| `client` | `ClientTypeOK`, `CallbacksHaveContext`, `ImplementsContext`, `GatewayInEveryContext` | two contexts one after the other, one connection at a time, ring of 1, READY and INVALID_SESSION in fragments |
| `session` | `TypeOK`, `SeqIsCurrent`, `HeartbeatsOnTime`, `GatewayPromises`, `ImplementsGateway` | ring of 2, HELLOs with and without an interval, a clock of 0..4 that is set back, sessions of two dispatches, all outcomes of the uninitialised struct |
| `bots` | `BotTypeOK`, `RequestsAsMade`, `AnswersHumansOnly`, `ReturnsCleanly`, `CallbackHasUser`, `ProgramCanStep`, `HaltStops`, `RetriesConnect` | each of the five programs, one context, every failure, every kind of message and author, SIGINT; fairness |

and six runs that show where the code does not do what its documentation says:

| Run | What TLC finds |
|---|---|
| `gateway_early_heartbeat` | A heartbeat is queued, the connection is lost, the next one is established: the heartbeat is sent before HELLO. |
| `gateway_missed_ack` | A missed ACK: `ld_service` returns an error for ever, and neither closes nor services the connection. |
| `gateway_close_crash` | A close with code 1000 dereferences `context->gi`. |
| `gateway_stale_buffer` | A connection lost between fragments: the next HELLO is stored as a first fragment and never parsed. |
| `connect_incomplete` | `/users/@me` fails once: the next `ld_connect` finds the struct, skips the request, and connects with a user nobody has filled. |
| `session_seq_forgotten` | A dispatch, then a HEARTBEAT_ACK with its `"s":null`: `last_seq` is 0, and so is the number in the next heartbeat. |

**What the passing runs say beside them.** The heartbeat accounting
(`OneHeartbeatOutstanding`) is what the counter can really be relied on for:
whatever gets lost, the counter is never too low, so an ACK never makes it
negative; the price is `HeartbeatsAreMonitored`: a heartbeat that was lost is
never forgiven, and `MissedAckStopsService` says exactly in which state the
client is stuck then. `HelloAnswered` is not obvious because the ring's verdict is
ignored: it holds because a ring that is full holds at most one heartbeat, hence
an IDENTIFY already, provided it holds two payloads at all. `FragmentsReassemble`
is what survives of reassembly although the buffer is not reset.

`ContextTypeOK` and `CleanupReleases` say that the cleanup that the code has is
right for the fields of a context, wherever in a history it is called. What it does not give
back are the curl handle, the copied strings, the two URLs and, without a presence in the
info, the presence; `FieldsObtainedOnce` says that at least no retry of a half-done
`ld_connect` and no reconnect obtains any of these a second time, nor a user, which
rests on the tests for NULL in `ld_connect`. The session id and the rx buffer have no such
test and are lost with every reconnect; that is why they are left out of it. It says
nothing of memory outside the fields: `ld_gateway_connect` loses its path with every
connection (section 5).

`ImplementsContext` and `GatewayInEveryContext` are the two halves of one argument: the first says
that the steps `LdContext` allows for messages and losses are all there are, so
that its ledger is about the code that receives; the second that nothing of one context
(a count above one, a ring, a session, a connection that is still there) gets into the next, and that
in between the gateway client is left alone by all but its own code. (Of the second, the start of
a context is what could be wrong; that the steps in between are `LdGateway`'s is how `LdClient`
is put together.) `CallbacksHaveContext` is what
neither module can say alone: from the moment lws has a connection until the callback
for its destruction there is all that the callback dereferences, and no bootstrap runs
beside it. `LdContext` was missing two steps before this run found them: the last fragment of a
READY, and of an INVALID_SESSION, which change session id and buffer at once.

`SeqIsCurrent` is the other half of `session_seq_forgotten`: `last_seq` is never reset when
a connection ends, and it is the same null, counted as 0, that keeps a number of an old
session out of the heartbeats of the next. A parser that skipped the null would have that
bug instead (it is this property's mutant). `HeartbeatsOnTime` says what the units and the early
returns leave of the interval: a heartbeat comes within the whole seconds of the interval
and one call of `ld_service`, as long as the clock is not set back and the client has not
stalled on a missed ACK or a full ring. A clock set back makes the unsigned difference
huge: a heartbeat is due at once, and if one is unanswered it counts as missed, which
stalls the client; that is `ServiceMissedAck` in both modules. `GatewayPromises` says that
what `LdGateway` promises of every state does not depend on how `LdGateway` abstracts from the
clock: a single heartbeat outstanding, nothing before the first HELLO and the IDENTIFY for
every HELLO hold with the real timer as well, set back at will.

`ClientCanStep` and `ProgramCanStep` say that the steps fairness is stated of can be taken:
an `ld_service` of an open connection changes something unless the client has stalled, what
lws owes a connection can be delivered, `main` always has a next step, and a request that is
about to be made can succeed. Without them the fairness of the two specifications would hold
of a program that hangs; they are also what the liveness proofs start from.

Of the example programs, `AnswersHumansOnly` rests on Discord naming its bots alone: the test
of the own id may read an uninitialised struct (that is the mutant). `CallbackHasUser` is
why that read is not of NULL: the struct stays when the request for it fails. `RequestsAsMade`
holds of all five although hash posts without a connection in the end and simplepost has
none: what would break it is a GET after a post, and the library makes its GETs before the
first connection and never again. A program that posted before its first connection
would have its `GET /gateway` sent as a POST. `HaltStops` is about SIGINT or `hcf` in any state,
in the middle of a bootstrap as well as in a call that hangs up; `RetriesConnect` about
ayylmao, the only program that goes on after an error.

**Bounds.** Two connection identities are enough to have an old and a new
connection, alive at once or one after the other with the same or another
address; no action involves three. A ring of 2 can be full with and without a
heartbeat, a ring of 3 can hold two stale IDENTIFYs and a heartbeat. `HbMax` caps
`hb_count`: the counter never comes down again once it is above one, so what is
above the cap behaves like the cap (`MissedAckStopsService` holds of the uncapped
part, and the theorems hold for every cap). `CloseCodes` has one fatal and one
other code, all the code distinguishes. In `LdContext`, `MaxContexts` = 2 gives
a context that was preceded by another one that succeeded, or failed and was cleaned
up, and `MaxLost` = 1 a field that was overwritten once and is held again; the
theorems hold for every value of both. The `client` run has one identity for its
connections, the next one with the address of the one before, and the least of everything
else that lets each ledger entry happen (READY and INVALID_SESSION in fragments, a ring of 1, one
close code), because it multiplies the two state spaces; for the same reason states that differ only
in what no step and no property of the run depends on (`performed`, `shards`, counts of what is never
given back) are taken for one (`MCView`). The theorems about it hold for all constants. In `LdSession`, `MaxClock` and
`MaxAge` of 4 seconds lie past both intervals (2 s, and a default of 1.5 s, which is cut off to 1) and
the second of `ServiceGap`, so that either timer runs out and a heartbeat could be late for either, and
the clock is set back from before and after; `MaxSeq` = 2 has a READY and a
dispatch after it; a ring of 2 is full and not. `Modulus` only has to be larger than any
clock. In `LdBot` one context is one program; `MaxLost` is as in `LdContext`.

**Symmetry** in the connections is used in `gateway_heartbeat`, which has no liveness
property.

**Fairness** (`gateway_single`, `gateway_missed_ack`, `bots`). The
application calls `ld_service` in a loop whatever it returns, as
`example-ayylmao` does by default: weak fairness of `Service`. `lws_service`
returns: weak fairness of `ServiceReturns`. Over repeated calls lws handles each
descriptor that keeps being ready (a pending connection, a close, a writeable
request), although not in every call: strong fairness, per connection, of
`ConnectionError \/ Established`, `WsiDestroy` and `Writeable`, because `phase`
takes these in and out of being enabled. The network does not refuse for ever:
strong fairness of `ServiceConnects`. Nothing is assumed of when messages come, of
`Elapse`, or of the application's own calls. In `LdBot` (`FairBotSpec`) the program runs, a
request comes to an end and lws_service returns: weak fairness of `Runs`, all that `main`
does unasked, in which nothing is chosen by the environment but how a request ends; and
strong fairness of what `ld_connect` needs to succeed (`EnvironmentFairness`: the two URLs, the
allocation of the user, lws), because Discord, the network and malloc do not fail for ever. No fairness is assumed of SIGINT, messages, losses or errors.

Every run that may not stop is checked for deadlock; after a crash the models
stutter explicitly (`Crashed`).

## 4. The proofs

All proofs are for every set of connections, every ring capacity and every choice
of the environment's constants, from `RingAssumption` (the capacity is a natural
number), `GatewayAssumption` (sanity of the constants) and what a theorem names.
Every property of a passing run is stated by a theorem, except `ClientCanStep` and
`ProgramCanStep`, which are about `ENABLED`.

**Heartbeat accounting** (`LdGatewayProofs`). `OneHeartbeatOutstanding` is about
the set `Outstanding` of places where a heartbeat or its answer may be. The
induction uses `Accounting`, the same fact place by place: no two heartbeats in
the ring, no two connections that owe an ACK, no two ACKs in flight, no two of
the three kinds together, and a counter of at least one whenever there is any.
`AccountingShrinks` covers every step that only loses heartbeats,
`AccountingQueues` the one that makes one (the counter was zero, so there was
none), `AccountingWrites` the move from ring to wire, `AnswerTakesTheOnlyOne` the
move from wire to message. `TypeOK` is not inductive by itself: that an ACK does
not take `hb_count` below zero needs the accounting. So both are proved together.

**The other safety properties** (`LdGatewaySafetyProofs`) rest on the types and the
accounting.

* `MissedAckIsFinal`: no callback counts up, and nothing but a callback moves the
  deadline; so once `ld_service` takes the early return it takes it for ever.
* `NothingBeforeHello`: the property is inductive relative to the accounting, which
  excludes an ACK for a heartbeat nobody counted.
* `SingleConnection`, `MessagesReassemble`: a callback disturbs only its own
  connection and takes `lws_wsi` away only when that connection is gone
  (`CallbackOwn`). Both assume `~AppMayConnect`, without which they are false.
* `HelloGetsIdentify`: a ring that has no room left for an IDENTIFY holds at most one
  heartbeat, so if it holds two payloads one of them is an IDENTIFY already
  (`IdentifyIsThere`). Assumes `~AppMayConnect` and `Capacity >= 2`.
* `ImplementsMonitor`, the refinement: relative to `MonitorInv` (types, accounting and
  `MissedAckStopsService`) every step of the client is a `Send`, `Answer`, `Lose` or
  `Miss` of the monitor, or a stutter. `OwedMeaning` says the monitor's "outstanding"
  in terms of ring, wire and messages.

**Gateway liveness** (`LdGatewayLivenessProofs`). The prover has no rules for `ENABLED`, so
the two theorems are about `LiveClient`, `FairSpec` together with `[]ClientCanStep`: what has
to be known of `ENABLED` is a hypothesis, in one place, as a property of states that TLC
checks in the run of the same properties (with constants as in the run; there `LiveClient`
and `FairSpec` are the same). Everything else is proved, for all constants, from
`~AppMayConnect` and the safety invariants (`Known`).

* `ConnectionsDoSettle`: as long as a connection is being made or torn down it is the one in
  `lws_wsi` (`EntersWhenBusy`), so each call of `ld_service` of a client that is not stuck gets
  into `lws_service`, again and again. There the step that settles the connection is enabled, and
  strong fairness takes it.
* `HelloAnsweredInTheEnd`, for rings of at least two payloads. While the HELLO's connection lasts,
  nothing but its own writeable callback takes a payload from the ring (`OnlyWriteableTakes`,
  `InsertBehind`). Since at most one heartbeat is in the ring, IDENTIFY is first or second; a
  callback sends the heartbeat, the next one IDENTIFY (`WriteableAdvances`). Each is asked for again
  by the next `ld_service` because the ring is not empty (`ServiceAsks`), and the request stands
  until it is met (`WaitsForWriteable`).

**The session** (`LdSessionProofs`), from `SessionAssumption`, `JsonAssumption` and
`RingAssumption`. `SequenceIsOwn` is inductive with the types alone: an established connection is not
greeted, and the HELLO that greets it leaves 0 (`SeqStep`); `HeartbeatsInTime` needs that `clock`, `last_hb` and `age` agree while the clock was not
set back, and that a call of `ld_service` that finds the timer over either sets it or stalls. The
types need the accounting again, in the form it has with one connection.
`SessionImplementsGateway` maps each action to one of `LdGateway`, case by case: the arguments of
the instance are opaque to the backends unless they are unfolded, so each case first
states what the mapped variables do. What is payload here is an opcode there
(`HeartbeatFields`, `IdentifyFields`). `SessionAssumption` includes that uninitialised memory
is no connection.

The refinement goes on to the top. While nobody sets the clock back (`[]~stepped`),
`SteadySessionImplements` proves `Gateway!Spec` without an exception, and
`SteadySessionMonitored` takes `HeartbeatMonitor`'s specification and `MissedAckStopsService` over
from the theorems of `LdGateway`, which are instantiated with the session's state (`Proved`; the
instance's assumptions follow from the session's, `Applies`). The hypothesis is needed for
both: a clock set back can make `HeartbeatDue` false again, and a client that had missed an
acknowledgement is then serviced again. `SessionKeepsPromises` does without it. Its inductive
invariant, `GatewayInv`, is `LdGateway`'s (types, accounting, `OneGatewayConnection`,
`NothingBeforeFirstHello`, `Answered`), in which the timer does not occur (`TimerIsApart`), and a
step that changes the clock changes nothing else (`ClockIsTimer`).

**The example programs** (`LdBotProofs`). `ExamplesAreApplications` is a refinement: every step of
a program is a step of `ContextSpec` or leaves the library's state alone, so what is proved of
`LdContext` for any application holds of the five (`ExamplesCleanUp`: no field of a context freed twice, a
complete cleanup, the URL before the connection, and no URL or user obtained again). `ExamplesRequestAsMade`
replaces the assumption of `CarefulApplication`, which hash and simplepost do not meet, by where
a program can be: a post before the first connection is only made by a program that makes no
request after it. `ExamplesAnswerHumans` needs `BotAssumption`'s second part (an author's id is
no null).

Their two liveness properties are proved of `LiveProgram`, fairness together with `[]ProgramCanStep`,
for the same reason as above.

* `HaltsInTheEnd` (`HaltStops`): `Remaining` counts the steps `main` has before it once `bot_exit`
  is set, from `at` and the stage of `ld_connect`. Every step of `main` takes it down
  (`HaltAdvances`), and no failure, message, lost connection or second signal takes it up;
  weak fairness of `Runs` does the rest, by induction on the count, of which there are
  finitely many values (`OneStepNearer`).
* `AyylmaoConnects` (`RetriesConnect`): if it never connects, is never stopped and never crashes, it
  goes round for ever from the loop through `ld_connect`'s stages (`RetryRound`). Nothing on that way takes
  back a URL or the user struct (`RetryKeeps`). So `GET /gateway` is due again and again until it
  succeeds (`UrlIsKnown`, by strong fairness), then `GET /gateway/bot` (`BotUrlIsKnown`), then, once
  there is memory for it, a user struct is there even if its request fails (`UserIsThere`), and then lws is asked for a connection again and
  again, and makes it (`RetriesEnd`). `ld_connect`'s habit of keeping what a failed attempt brought is what
  the argument lives on: a client that started each attempt anew would need all
  its requests to succeed in one attempt, which strong fairness of each does not give.

**Snowflakes** (`LdJsonProofs`): widths, round trip and order for every natural number.

**Bootstrap** (`LdContextProofs`). `UrlBeforeConnect` follows from the order of
the stages. `CarefulApplication` proves `RequestsAsMade` from `~AppSendsEarly` and
`~AppGetsLate`: the handle is as `ld_init_curl` made it until nothing is left to be
asked for, and the application makes no GET after its first POST (`HandleInvariant`).

**The ledger** (`LdContextProofs`). `Ledger` adds two facts to the three properties:
`HeldIsObtained` (while there is a context, what is held can be given back, a handle
is held exactly if it was obtained, and the user is there exactly if it was
allocated) and `PaidOnce` (a URL that is still NULL has been paid for by earlier
contexts only). `ConnectStep` is the fact about `LdConnect` it rests on: a step never
takes back a field that was filled. `NewContextLedger` covers the three outcomes of
`ld_init_context`, `ServesStep`, `RenewedStep`, `ReceivesStep` and `CleanupStep` the rest. The proofs
assume `ContextAssumption` only. `RetriesObtainOnce` is `FieldsObtainedOnce`. `UrlInEveryContext` carries `ConnectHasUrl` over to
every context of a program: `ld_connect` runs only inside a context that was made, and for a bare one not past `/gateway/bot`
(`ConnectsInside`).

**Context and gateway client together** (`LdClientProofs`), from `ClientAssumption`,
`ContextAssumption`, `ConnectAssumption` and `RingAssumption`. Each of the two modules was proved about
with the other as its environment; that each is the environment the other assumes is circular
unless it is one induction. Its invariant is `ClientInv`: the ledger and the order of the stages
(`Ledger`, `ConnectsInside`), the gateway client's inductive invariants (`GatewayInv`), and
`InContext`, which ties the two: while there is a context they agree on the connection and on the
two pointers (`Agree`) and there is a ring, so that a cleanup ends the context and does not
crash halfway; without one lws has no connection (`AtRest`); and `ld_connect` runs only
in the application's call and without a connection.

* `ContextStep`: every step is one of `ContextNext` or a stutter. A callback that touches
  neither pointer stutters (`EntersNothing`) or is `Disconnect` (`EntersLoss`); received messages are
  taken case by case (`WholeStep`, `FragmentStep`, `LastStep`). `LastStep` needs the gateway's
  invariant: a last fragment finds the buffer of its own message, so what it frees was obtained.
* `ClientStep`: every step but `NewContext` and `CleansUp` is one of `LdGateway`'s or leaves it
  alone; the theorems of `LdGateway` are instantiated with this module's state (`Proved`, `SameNext`). A new
  context is `LdGateway`'s `Init` because of `AtRest` (`NewContextInit`), and a cleanup keeps its
  invariant although it is none of its steps (`GatewayInvKept`).
* `InContextKept` closes the circle, and `ClientInvHolds` follows.

So `ClientImplementsContext` and `ClientImplementsGateway` are the two refinements, and what was
proved of either module under an assumption about the other holds of the program:
`PromisesInEveryContext` and `HelloAnsweredInEveryContext` (the gateway client's safety properties, in
every context), `MonitoredInEveryContext` (within a context the bookkeeping is a `HeartbeatMonitor`)
and from it `MissedUntilCleanup` (only a new context gets over a missed acknowledgement), `ContextPromisesKept` (the ledger's, with the real gateway client), `ClientTypes` and
`CallbacksInContext`, which uses both halves of the invariant.

**Only model-checked.** `ClientCanStep` and `ProgramCanStep`, the facts about `ENABLED` that the
liveness theorems assume of a run, hence those theorems' hypothesis for constants other than
the runs'; the bounded inputs of `MCLdSession`; and what the violation runs show, which
are single behaviours.

## 5. What is not modelled

* The sizes of allocations: `ld_headers_put` (REST.c:42) and `ld_rest_writefunction` (REST.c:178)
  allocate too little. Both are sequential, of one request at a time, and wrong in
  any use, so that a model would restate them; they are in the list of hazards.
* The memory of requests, of messages a callback parses (no example calls
  `ld_json_message_cleanup`) and of JSON objects; a pointer in an info that was never set.
* The memory of `ld_gateway_connect` that no field points to: the path of 1000 bytes (libdiscord.c:650),
  which every connect loses, and `i` and `ads_port`, which are lost when lws makes no
  connection (671-673). They leak whenever the function runs, so there is nothing to
  check; they are in the list of hazards.
* Timestamps, and the structs of `json.h` that no function reads.
* The application calling `ld_connect` or `ld_service` from inside a callback, and
  two contexts at the same time.
* Logging, status codes and the build; how the example bots read their arguments, and what
  they compute for an answer (the hash, the number).
* lws, curl, jansson, the gateway and the REST API are external: they are modelled
  as the code relies on them.

## 6. Plan

1. (done) `LwsRing`, `LdGateway`, `HeartbeatMonitor`: the core.
2. (done) `LdRest`, `LdConnect`.
3. (done) `LdContext`: the life cycle, composed with `LdConnect`.
4. (done) `LdSession`, `LdJson`: the timer, the sequence number, the payloads, and the
   refinement of `LdGateway`.
5. (done) `LdBot`: the example programs over `LdContext`.
6. (done) Liveness of the gateway client and the examples, and the refinement chain from
   `LdSession` to `HeartbeatMonitor`, proved.
7. (done) `LdClient`: `LdContext` and `LdGateway` composed, each shown to be what the other
   assumes of it.
8. (open) The user's callback calling back into the library from inside `lws_service`.
