-------------------------- MODULE HeartbeatMonitor --------------------------
(***************************************************************************)
(* What the heartbeat bookkeeping of libdiscord promises, without rings,    *)
(* sockets or timers.  There is at most one heartbeat whose answer may      *)
(* still come.  It is sent only after the one before it was answered; a     *)
(* heartbeat may get lost, and then nothing brings its answer back; once a  *)
(* deadline passes with no answer the monitor has a miss on its hands, and  *)
(* there it stays.                                                          *)
(***************************************************************************)
VARIABLES
    beat,          \* "idle": all answered; "waiting": one is not; "missed"
    outstanding    \* an answer may still come

vars == <<beat, outstanding>>

TypeOK == beat \in {"idle", "waiting", "missed"} /\ outstanding \in BOOLEAN

Init == beat = "idle" /\ outstanding = FALSE

Send == /\ beat = "idle" /\ ~outstanding
        /\ beat' = "waiting" /\ outstanding' = TRUE

Answer == /\ beat = "waiting" /\ outstanding
          /\ beat' = "idle" /\ outstanding' = FALSE

Lose == /\ outstanding /\ outstanding' = FALSE
        /\ UNCHANGED beat

Miss == /\ beat = "waiting"
        /\ beat' = "missed"
        /\ UNCHANGED outstanding

Next == Send \/ Answer \/ Lose \/ Miss

Spec == Init /\ [][Next]_vars
=============================================================================
