---------------------------- MODULE MCLdSession ----------------------------
(***************************************************************************)
(* Instances of LdSession for TLC, and what lib/json.c makes of bounded     *)
(* inputs (tests/tests-json.c has the first two of these).                  *)
(***************************************************************************)
EXTENDS LdSession

CONSTANTS token

MCContext ==
    [bot_token |-> token, os |-> NULL, device |-> "d", browser |-> NULL, shards |-> 1,
     init_presence |-> NULL]

\* Two payloads of the tests: one without an opcode, and a complete dispatch.
ASSUME PayloadTests ==
    /\ ~PayloadValid([op |-> "UNKNOWN", d |-> NULL, t |-> "UNKNOWN", s |-> 0])
    /\ PayloadValid([op |-> "DISPATCH", d |-> <<>>, t |-> "PRESENCES_REPLACE", s |-> 9])

Presence(roles, status) ==
    [guild_id |-> 7, roles |-> roles, bytes |-> 2, game |-> "game", status |-> status]

\* A presence never says what is played, has no status if it is none of the enum, and
\* takes as many roles as there are bytes before the first zero.
ASSUME PresenceTests ==
    /\ DOMAIN UnpackStatusUpdate(Presence(NULL, "online")) = {"user", "status"}
    /\ DOMAIN UnpackStatusUpdate(Presence(NULL, "away")) = {"user"}
    /\ UnpackStatusUpdate(Presence(<<5>>, "idle")).roles = <<5, Garbage>>

\* IDENTIFY names defaults for what the application left out, and needs a token.
ASSUME IdentifyTests ==
    /\ LET d == UnpackIdentify(SetIdentify(MCContext))
       IN  /\ d.properties = [os |-> "unknown", device |-> "d", browser |-> "libdiscord"]
           /\ "presence" \notin DOMAIN d
    /\ UnpackIdentify(SetIdentify([MCContext EXCEPT !.bot_token = NULL])) = NULL

\* A message without content or author, which the examples have to expect, and a human
\* author, of whom Discord does not say that he is no bot.
ASSUME MessageTests ==
    /\ PackMessage([id |-> 1]).content = NULL /\ PackMessage([id |-> 1]).author = NULL
    /\ PackMessage([id |-> 1, type |-> 7, author |-> [id |-> 2]]).author.bot = Garbage
    /\ PackMessage([type |-> 7]).type = 0
    /\ PackMessage([author |-> [id |-> 2, bot |-> TRUE]]).author.bot = TRUE
    /\ LET user == LoadUser([id |-> 2, avatar |-> JsonNull, locale |-> JsonNull])
       IN  user.avatar = Garbage /\ user.locale = NULL /\ user.verified = Garbage

\* Snowflakes around every boundary of a field come back from their parts.
ASSUME SnowflakeTests ==
    \A time \in {0, 1, 510}, low \in {0, 1, 4095, 4096, 131071, 131072, 4194303} :
        LET flake == time * 4194304 + low IN FlakeOf(PackSnowflake(flake)) = flake
=============================================================================
