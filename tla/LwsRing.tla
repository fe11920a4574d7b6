------------------------------ MODULE LwsRing ------------------------------
(***************************************************************************)
(* The libwebsockets ring buffer (struct lws_ring) as libdiscord uses it:   *)
(* one producer, one consumer with the default tail, one element at a time. *)
(* The library is outside the repository; this is what libdiscord.c relies  *)
(* on.  lws keeps one slot unused to tell a full ring from an empty one, so *)
(* a ring created with N elements (ld_init_lws passes 16, or the user's     *)
(* gateway_ringbuffer_size) holds Capacity = N - 1.                         *)
(***************************************************************************)
EXTENDS Naturals, Sequences

CONSTANT Capacity   \* payloads the ring holds before it is full

ASSUME RingAssumption == Capacity \in Nat

\* lws_ring_get_count_waiting_elements
RingWaiting(r) == Len(r)

\* lws_ring_get_count_free_elements
RingFree(r) == Capacity - Len(r)

\* lws_ring_insert of one element: a full ring takes nothing, and says so only
\* through its result.
RingInsert(r, x) == IF RingFree(r) = 0 THEN r ELSE Append(r, x)

\* lws_ring_consume of one element from a ring that has one: the oldest element, ...
RingOldest(r) == Head(r)

\* ... and what stays behind.
RingRest(r) == Tail(r)
============================================================================
