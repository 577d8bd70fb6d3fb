--------------------------- MODULE CaptureLifecycle ---------------------------
(***************************************************************************)
(* What the capture service promises its callers: a mode, and one native   *)
(* session for each start, which opens at most once and is closed again    *)
(* before the start or the stop that ends it returns.                      *)
(***************************************************************************)
VARIABLES
  mode,    \* "stopped", "starting", "running", "stopping" or "failed"
  native   \* the session: "fresh" (start was called), "open" or "closed"

vars == <<mode, native>>

Init == mode = "stopped" /\ native = "closed"

\* start is accepted.
Begin ==
  /\ mode = "stopped"
  /\ mode' = "starting"
  /\ native' = "fresh"

OpenSession == mode = "starting" /\ native = "fresh" /\ native' = "open" /\ UNCHANGED mode

Started == mode = "starting" /\ native = "open" /\ mode' = "running" /\ UNCHANGED native

\* The stream reports a fatal error.
Break == mode = "running" /\ mode' = "failed" /\ UNCHANGED native

\* stop is accepted.
End == mode \in {"running", "failed"} /\ mode' = "stopping" /\ UNCHANGED native

\* The session is given up during start, or shut down by stop.
CloseSession ==
  /\ mode \in {"starting", "stopping"}
  /\ native \in {"fresh", "open"}
  /\ native' = "closed"
  /\ UNCHANGED mode

\* start or stop returns without a session; stop may report a failure.
Abandoned == mode = "starting" /\ native = "closed" /\ mode' = "stopped" /\ UNCHANGED native
Ended ==
  /\ mode = "stopping"
  /\ native = "closed"
  /\ mode' \in {"stopped", "failed"}
  /\ UNCHANGED native

Next == \/ Begin \/ OpenSession \/ Started \/ Break
        \/ End \/ CloseSession \/ Abandoned \/ Ended

Spec == Init /\ [][Next]_vars

=============================================================================
