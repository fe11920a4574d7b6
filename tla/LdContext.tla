------------------------------ MODULE LdContext ------------------------------
(***************************************************************************)
(* The life of a context: ld_init_context with every way it can fail, the   *)
(* bootstrap of LdConnect in between, ld_cleanup_context, and the next      *)
(* context of the same program.  It keeps a ledger of the memory and the    *)
(* handles that the fields of a context stand for: what was obtained for a  *)
(* field and not yet given back, whether or not a pointer still leads there.*)
(* Memory that no field ever points to is not in the ledger: what requests  *)
(* and JSON objects take, and what ld_gateway_connect allocates (its path on *)
(* every call, i and ads_port when it fails) and never frees.               *)
(***************************************************************************)
EXTENDS LdConnect, Naturals

CONSTANTS
    MaxContexts,  \* contexts the program makes, one after the other
    MaxLost       \* bound on what a field that is overwritten may lose

ASSUME ContextAssumption == MaxContexts \in Nat \ {0} /\ MaxLost \in Nat

VARIABLES
    life,      \* "none": no context, "made", "bare": made without an info,
               \* "failed": ld_init_context failed, "exited": the program is gone
    contexts,  \* calls of ld_init_context so far
    held,      \* the fields of the context that are not NULL
    obtained   \* per field: how much was obtained and not given back

life_vars == <<life, contexts, held, obtained>>
context_vars == <<vars, life_vars>>

\* Fields LdConnect has as variables of its own, and the others; "names" are device,
\* browser and os.
ConnectFields == {"gateway_url", "gateway_bot_url", "current_user"}
OwnFields == {"curl_multi_handle", "curl_handle", "lws_context", "gateway_ring", "names",
              "bot_token", "init_presence", "gateway_session_id", "gateway_rx_buffer"}
Fields == ConnectFields \cup OwnFields

ContextTypeOK ==
    /\ TypeOK
    /\ life \in {"none", "made", "bare", "failed", "exited"}
    /\ contexts \in 0..MaxContexts
    /\ held \subseteq OwnFields
    /\ obtained \in [Fields -> Nat]

ContextInit ==
    /\ Init
    /\ life = "none" /\ contexts = 0
    /\ held = {}
    /\ obtained = [f \in Fields |-> 0]

Obtain(fs) == [f \in Fields |-> IF f \in fs THEN obtained[f] + 1 ELSE obtained[f]]
Release(fs) == [f \in Fields |-> IF f \in fs THEN obtained[f] - 1 ELSE obtained[f]]

----------------------------------------------------------------------------
(***************************************************************************)
(* ld_init_context                                                          *)
(***************************************************************************)

\* What the info gives: a token, a presence, the names (or an os without a browser).
Info == [bot_token : BOOLEAN, init_presence : BOOLEAN, names : {"default", "given", "os_only"}]

\* What has been obtained when it fails at a step; at "done" it has not failed.
ObtainedBefore(step) ==
    LET handles == {"curl_multi_handle", "curl_handle", "lws_context", "gateway_ring"}
    IN  CASE step = "curl"          -> {"curl_multi_handle"}
          [] step = "lws"           -> {"curl_multi_handle", "curl_handle"}
          [] step = "ring"          -> handles \ {"gateway_ring"}
          [] step = "bot_token"     -> handles
          [] step = "init_presence" -> handles \cup {"bot_token"}
          [] step = "done"          -> handles \cup {"bot_token", "init_presence"}

\* The steps that can fail with this info.
FailsAt(info) ==
    {"curl", "lws", "ring"} \cup IF info.bot_token THEN {"init_presence"} ELSE {"bot_token"}

PastNames(step) == step \in {"bot_token", "init_presence", "done"}

\* The fields a memset clears: whatever they held is out of reach.
ClearsContext ==
    /\ curl_handle' = [method |-> "GET", body |-> "none"]
    /\ gateway_url' = FALSE /\ gateway_bot_url' = FALSE
    /\ shards' = FALSE /\ current_user' = "NULL" /\ connected' = FALSE
    /\ UNCHANGED performed

\* The presence is allocated in any case; without one in the info the pointer to it
\* is set to NULL again.
ld_init_context(info, step) ==
    LET names == IF PastNames(step) /\ info.names = "given" THEN {"names"} ELSE {}
        got   == ObtainedBefore(step) \cup names
    IN  /\ life = "none" /\ contexts < MaxContexts
        /\ step \in FailsAt(info) \cup IF info.bot_token THEN {"done"} ELSE {}
        /\ ~(PastNames(step) /\ info.names = "os_only")
        /\ ClearsContext
        /\ contexts' = contexts + 1
        /\ obtained' = Obtain(got)
        /\ held' = IF info.init_presence THEN got ELSE got \ {"init_presence"}
        /\ life' = IF step = "done" THEN "made" ELSE "failed"
        /\ UNCHANGED pc

\* An os without a browser: os is copied from the browser's NULL.
InitCopiesNull(info) ==
    /\ life = "none" /\ contexts < MaxContexts
    /\ info.names = "os_only"
    /\ ClearsContext
    /\ contexts' = contexts + 1
    /\ obtained' = Obtain(ObtainedBefore("bot_token"))
    /\ held' = ObtainedBefore("bot_token")
    /\ pc' = "crashed" /\ life' = "failed"

\* Without an info the result is a context that cannot connect.
InitWithoutInfo ==
    /\ life = "none" /\ contexts < MaxContexts
    /\ ClearsContext
    /\ contexts' = contexts + 1
    /\ obtained' = Obtain(ObtainedBefore("bot_token"))
    /\ held' = ObtainedBefore("bot_token")
    /\ life' = "bare"
    /\ UNCHANGED pc

----------------------------------------------------------------------------
(***************************************************************************)
(* In between                                                               *)
(***************************************************************************)

\* What LdConnect stores in a field it has allocated.  Without a token a bare context gets
\* as far as /gateway/bot, which Discord refuses.
Stores ==
    /\ life \in {"made", "bare"}
    /\ life = "bare" => ~gateway_bot_url'
    /\ obtained' = Obtain({f \in ConnectFields :
                              \/ f = "gateway_url" /\ gateway_url' /\ ~gateway_url
                              \/ f = "gateway_bot_url" /\ gateway_bot_url' /\ ~gateway_bot_url
                              \/ f = "current_user" /\ current_user' # "NULL"
                                                    /\ current_user = "NULL"})
    /\ UNCHANGED <<life, contexts, held>>

Serves == Next /\ Stores

\* A pointer is overwritten with new memory, and what it led to is not freed.
Overwrites(f) ==
    /\ life = "made" /\ pc = "return" /\ connected
    /\ obtained[f] <= MaxLost
    /\ obtained' = Obtain({f})
    /\ held' = held \cup {f}
    /\ UNCHANGED <<vars, life, contexts>>

\* ld_dispatch_ready copies the session id, after a reconnect over the old one.
Ready == Overwrites("gateway_session_id")

\* A first fragment gets a buffer of its own, whatever an earlier connection left.
FirstFragment == Overwrites("gateway_rx_buffer")

\* free and NULL, or free of NULL
FreesField(f) ==
    /\ life = "made" /\ pc = "return" /\ connected
    /\ obtained' = IF f \in held THEN Release({f}) ELSE obtained
    /\ UNCHANGED <<vars, life, contexts>>

LeavesPointer == UNCHANGED held                \* mutant: freed, not set to NULL
ClearsPointer(f) == held' = held \ {f}
ClearsSession == ClearsPointer("gateway_session_id")

InvalidSession == FreesField("gateway_session_id") /\ ClearsSession

LastFragment ==
    /\ "gateway_rx_buffer" \in held
    /\ FreesField("gateway_rx_buffer")
    /\ ClearsPointer("gateway_rx_buffer")

\* The last fragment of a READY or an INVALID_SESSION: first what the message does to the
\* session id, then the buffer is freed.
LastOfReady ==
    /\ "gateway_rx_buffer" \in held
    /\ life = "made" /\ pc = "return" /\ connected
    /\ obtained["gateway_session_id"] <= MaxLost
    /\ obtained' = [obtained EXCEPT !["gateway_session_id"] = @ + 1,
                                    !["gateway_rx_buffer"] = @ - 1]
    /\ held' = (held \cup {"gateway_session_id"}) \ {"gateway_rx_buffer"}
    /\ UNCHANGED <<vars, life, contexts>>

LastOfInvalidSession ==
    /\ "gateway_rx_buffer" \in held
    /\ life = "made" /\ pc = "return" /\ connected
    /\ obtained' = Release(held \cap {"gateway_session_id", "gateway_rx_buffer"})
    /\ held' = held \ {"gateway_session_id", "gateway_rx_buffer"}
    /\ UNCHANGED <<vars, life, contexts>>

Receives ==
    \/ Ready \/ InvalidSession \/ FirstFragment \/ LastFragment
    \/ LastOfReady \/ LastOfInvalidSession

----------------------------------------------------------------------------
(***************************************************************************)
(* ld_cleanup_context, after a failed ld_init_context too                   *)
(***************************************************************************)

ReleasedButUser ==                             \* mutant: the user is forgotten
    held \cap {"gateway_session_id", "init_presence", "curl_multi_handle", "lws_context",
               "gateway_ring"}
\* What it gives back.
Released ==
    (held \cap {"gateway_session_id", "init_presence", "curl_multi_handle", "lws_context",
                "gateway_ring"})
    \cup IF current_user # "NULL" THEN {"current_user"} ELSE {}

\* lws_context_destroy closes the connection; lws_ring_destroy reads what it is given.
ld_cleanup_context ==
    /\ life \in {"made", "bare", "failed"} /\ pc = "return"
    /\ connected' = FALSE
    /\ IF "gateway_ring" \in held
       THEN obtained' = Release(Released) /\ life' = "none" /\ UNCHANGED pc
       ELSE obtained' = Release(Released) /\ pc' = "crashed" /\ UNCHANGED life
    /\ UNCHANGED <<rest_vars, gateway_url, gateway_bot_url, shards, current_user, held, contexts>>

\* The program may end whenever it is not inside the library.
Exits ==
    /\ life # "exited" /\ pc = "return"
    /\ life' = "exited"
    /\ UNCHANGED <<vars, contexts, held, obtained>>

Stopped == (life = "exited" \/ pc = "crashed") /\ UNCHANGED context_vars

----------------------------------------------------------------------------

\* The program has no context, and makes one with one of these infos, or with none.
MakesContext(infos) ==
    /\ life = "none"
    /\ \/ \E info \in infos :
             \/ InitCopiesNull(info)
             \/ \E step \in FailsAt(info) \cup {"done"} : ld_init_context(info, step)
       \/ InitWithoutInfo

ContextNext ==
    \/ MakesContext(Info)
    \/ Serves \/ Receives
    \/ ld_cleanup_context \/ Exits \/ Stopped

ContextSpec == ContextInit /\ [][ContextNext]_context_vars

----------------------------------------------------------------------------
(***************************************************************************)
(* Properties                                                               *)
(***************************************************************************)

\* No free of a field without a malloc before it: that ContextTypeOK keeps the ledger from
\* going below zero is what makes a second free of the same field a violation of it.

\* After ld_cleanup_context nothing is left of what it is there to give back, however
\* far ld_init_context and ld_connect had come.
CleanupReleases ==
    life = "none" => \A f \in {"curl_multi_handle", "lws_context", "gateway_ring",
                               "current_user"} : obtained[f] = 0

\* Nothing is allocated for the same field of one context twice, however often ld_connect
\* is repeated over half-done work and after losses: the tests for NULL that decide what
\* it asks for again lose no URL and no user.  The session id and the rx buffer, which
\* are overwritten without a test, are the exceptions; memory outside the fields, such as
\* ld_gateway_connect's path, is lost with every call and is no matter of this.
FieldsObtainedOnce ==
    \A f \in Fields \ {"gateway_session_id", "gateway_rx_buffer"} : obtained[f] <= contexts
=============================================================================
