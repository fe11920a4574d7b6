------------------------------- MODULE LdRest -------------------------------
(***************************************************************************)
(* The REST side of a context (lib/REST.c): every request of a context goes *)
(* through the one curl easy handle made by ld_init_curl, and an option set *)
(* on the handle stays set for the requests that follow.                    *)
(*                                                                          *)
(* A request is blocking: ld_rest_send_request sets the options, performs   *)
(* and returns, so it is one step here.                                     *)
(***************************************************************************)

VARIABLES
    curl_handle,   \* what curl does with the next request:
                   \*   method: CURLOPT_POSTFIELDS has made it a POST, or never was set
                   \*   body: the memory CURLOPT_POSTFIELDS points to
    performed      \* the request performed last: the verb it was made with, the
                   \* method it went out with, the state of the body curl read

rest_vars == <<curl_handle, performed>>

Verb == {"GET", "POST"}
Body == {"none", "live", "freed"}

RestTypeOK ==
    /\ curl_handle \in [method : Verb, body : Body]
    /\ performed \in [verb : Verb \cup {"none"}, method : Verb, body : Body]

\* ld_init_curl
RestInit ==
    /\ curl_handle = [method |-> "GET", body |-> "none"]
    /\ performed = [verb |-> "none", method |-> "GET", body |-> "none"]

----------------------------------------------------------------------------

\* What comes of curl_easy_perform: no answer (http_status stays -1), a status of
\* 400 or more with an error object for a body, or a status below 400 whose body
\* lacks what is looked for, has part of it, or has all of it.
Answer == {"none", "refused", "useless", "partial", "complete"}

\* What a request that goes out with this method may get: the server refuses a
\* POST to an endpoint that only has a GET.
Answers(verb, method) == IF verb = method THEN Answer ELSE {"none", "refused"}

\* ld_rest_send_request sets the handle up for POST, and for no other verb.
HandleFor(h, verb, body) ==
    IF verb = "POST" THEN [method |-> "POST", body |-> body] ELSE h

\* ld_rest_send_request
SendRequest(verb, body) ==
    LET h == HandleFor(curl_handle, verb, body)
    IN  performed' = [verb |-> verb, method |-> h.method, body |-> h.body]

\* A GET leaves the handle as it is.
Get(answer) ==
    /\ SendRequest("GET", "none")
    /\ answer \in Answers("GET", performed'.method)
    /\ UNCHANGED curl_handle

\* What ld_create_basic_message makes a body of: a JSON object, or nothing if the text
\* is not UTF-8 (its result is not looked at).
MessageBody == {"live", "none"}

\* ld_send_basic_message.  A status of 400 or more is an error and leaks the request; no
\* answer at all counts as success, and the request is freed with the body the handle
\* points to.
ld_send_basic_message(body, answer) ==
    /\ SendRequest("POST", body)
    /\ curl_handle' =
          [HandleFor(curl_handle, "POST", body) EXCEPT
              !.body = IF answer # "refused" /\ body = "live" THEN "freed" ELSE body]
=============================================================================
