------------------------------- MODULE LdJson -------------------------------
(***************************************************************************)
(* What lib/json.c makes of its arguments: payloads for the gateway and the *)
(* data of IDENTIFY, the members of a message and its author, snowflakes.   *)
(* A JSON object is a function from the keys it has; json_object_set takes  *)
(* no NULL, so a value that could not be made is a key that is missing.     *)
(***************************************************************************)
EXTENDS Integers, Sequences

CONSTANTS
    NULL,          \* the null pointer
    JsonNull,      \* the JSON value null, which is not the same
    Garbage,       \* what lies in memory nobody has written to
    DiscordEpoch   \* 1420070400000: the first second of 2015, in milliseconds

ASSUME JsonAssumption ==
    /\ NULL \notin Int
    /\ JsonNull \notin Int /\ JsonNull # NULL
    /\ Garbage # NULL /\ Garbage \notin BOOLEAN
    /\ DiscordEpoch \in Nat

\* json_object_set for each key: those whose value is NULL are not there.
Object(f) == [k \in {j \in DOMAIN f : f[j] # NULL} |-> f[k]]

\* json_integer_value
IntegerValue(v) == IF v = JsonNull THEN 0 ELSE v

----------------------------------------------------------------------------
(***************************************************************************)
(* Payloads                                                                 *)
(***************************************************************************)

\* ld_json_create_payload: d, t and s are optional.
CreatePayload(op, d, t, s) == Object([op |-> op, d |-> d, t |-> t, s |-> s])

SkipsNullSeq(p, last) ==                       \* mutant: null is no sequence number
    IF "s" \in DOMAIN p /\ p.s # JsonNull THEN p.s ELSE last
\* What ld_gateway_payload_parser leaves in last_seq: whatever is under "s", and
\* null, which is there when there is no number, counts as 0.
ParsedSeq(p, last) == IF "s" \in DOMAIN p THEN IntegerValue(p.s) ELSE last

\* ld_json_payload_valid of a payload struct; a negative s is only warned of.
PayloadValid(p) ==
    /\ p.op # "UNKNOWN"
    /\ p.d # NULL
    /\ p.op = "DISPATCH" => p.t # "UNKNOWN"

\* ld_json_save_resume checks what a RESUME needs, and then neither builds nor
\* returns one (ld_json_unpack_resume is empty).
SaveResumeStatus(resume) ==
    IF resume.token = NULL \/ resume.session_id = NULL THEN "missing" ELSE "undefined"

----------------------------------------------------------------------------
(***************************************************************************)
(* IDENTIFY                                                                 *)
(***************************************************************************)

\* ld_json_status2str: NULL for a value that is not of the enum.
Status2Str(status) ==
    IF status \in {"idle", "dnd", "online", "offline", "invisible"} THEN status ELSE NULL

\* The loop in ld_json_unpack_status_update runs to the first zero byte of the role
\* array, which says nothing of how many roles there are: bytes is that number.
RolesRead(roles, bytes) ==
    [i \in 1..bytes |-> IF i <= Len(roles) THEN roles[i] ELSE Garbage]

\* ld_json_unpack_status_update.  ld_json_dump_activity is empty: no game is sent.
UnpackStatusUpdate(su) ==
    Object([user   |-> su.guild_id,
            roles  |-> IF su.roles = NULL THEN NULL ELSE RolesRead(su.roles, su.bytes),
            game   |-> NULL,
            status |-> Status2Str(su.status)])

\* ld_json_unpack_identify_connection_properties
Or(x, default) == IF x = NULL THEN default ELSE x
UnpackProperties(p) ==
    [os |-> Or(p.os, "unknown"), device |-> Or(p.device, "libdiscord"),
     browser |-> Or(p.browser, "libdiscord")]

\* ld_set_identify, with the properties it allocates
SetIdentify(context) ==
    [token |-> context.bot_token,
     properties |-> [os |-> context.os, device |-> context.device, browser |-> context.browser],
     compress |-> FALSE,
     large_threshold |-> 250,
     shard |-> <<0, context.shards>>,
     status_update |-> context.init_presence]

\* ld_json_unpack_identify
UnpackIdentify(identify) ==
    IF identify.token = NULL \/ identify.properties = NULL
    THEN NULL
    ELSE Object([token |-> identify.token,
                 properties |-> UnpackProperties(identify.properties),
                 compress |-> identify.compress,
                 large_threshold |-> identify.large_threshold,
                 shard |-> identify.shard,
                 presence |-> IF identify.status_update = NULL THEN NULL
                              ELSE UnpackStatusUpdate(identify.status_update)])

----------------------------------------------------------------------------
(***************************************************************************)
(* Messages and users that come in                                          *)
(***************************************************************************)

\* A member that is looked for as a string: null is none.
Field(object, key, otherwise) ==
    IF key \in DOMAIN object /\ object[key] # JsonNull THEN object[key] ELSE otherwise

\* ld_json_load_user into a struct nobody has initialised: a member whose key is not
\* in the object is left as it lies there; a flag that is null is off.
Strings == {"id", "username", "discriminator", "avatar", "locale", "email"}
Flags == {"bot", "mfa_enabled", "verified"}
LoadUser(user) ==
    [k \in Strings \cup Flags |->
        IF k \notin DOMAIN user THEN Garbage
        ELSE IF k \in Flags THEN user[k] = TRUE
        ELSE Field(user, k, IF k = "locale" THEN NULL ELSE Garbage)]

\* ld_json_message_init
MessageInit == [id |-> 0, channel_id |-> 0, content |-> NULL, type |-> 0, author |-> NULL]

\* ld_json_pack_message into a struct as it was initialised.  The author's is allocated and
\* not initialised; the type, a number, is asked for as a string and stays 0.
PackMessage(message) ==
    [MessageInit EXCEPT
        !.id = Field(message, "id", @),
        !.channel_id = Field(message, "channel_id", @),
        !.content = Field(message, "content", @),
        !.author = IF "author" \in DOMAIN message THEN LoadUser(message.author) ELSE @]

----------------------------------------------------------------------------
(***************************************************************************)
(* Snowflakes: 42 bits of time, 5 of worker, 5 of process, 12 of increment  *)
(***************************************************************************)

\* ld_json_pack_snowflake: the shifts and masks as quotients and remainders.
PackSnowflake(flake) ==
    [timestamp      |-> flake \div 4194304,
     unix_timestamp |-> flake \div 4194304 + DiscordEpoch,
     worker_id      |-> (flake % 4194304) \div 131072,
     process_id     |-> (flake % 131072) \div 4096,
     increment      |-> flake % 4096]

\* The inverse, which the library does not have.
FlakeOf(s) == s.timestamp * 4194304 + s.worker_id * 131072 + s.process_id * 4096 + s.increment
=============================================================================
