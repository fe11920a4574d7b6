---------------------------- MODULE MCLdClient ----------------------------
(***************************************************************************)
(* An instance of LdClient for TLC: a program with a token and a presence.  *)
(***************************************************************************)
EXTENDS LdClient

CONSTANT w1

MCWsis == {w1}
MCInfos == {[bot_token |-> TRUE, init_presence |-> TRUE, names |-> "default"]}

\* All of a state but what no step and no property of the run depends on: performed, shards,
\* and the counts of what is never given back.
GivenBack == Fields \ {"curl_handle", "bot_token", "names", "gateway_url", "gateway_bot_url"}

MCView ==
    <<curl_handle, pc, gateway_url, gateway_bot_url, current_user, connected,
      life, contexts, held, [f \in GivenBack |-> obtained[f]], gateway_vars>>
============================================================================
