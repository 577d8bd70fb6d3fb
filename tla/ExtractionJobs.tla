---------------------------- MODULE ExtractionJobs ----------------------------
(***************************************************************************)
(* What the extraction queue promises about each job, with no leases, no   *)
(* clock and no workers: a job is queued once, runs at most MaxAttempts    *)
(* times, ends completed or needs_attention, and then never changes again  *)
(* unless its segment is deleted.  ExtractionQueue implements it.          *)
(***************************************************************************)
EXTENDS Naturals

CONSTANTS Segments, MaxAttempts

VARIABLES phase, runs

vars == <<phase, runs>>

Init ==
  /\ phase = [s \in Segments |-> "absent"]
  /\ runs = [s \in Segments |-> 0]

Becomes(s, p, n) == phase'[s] = p /\ runs'[s] = n

Queue(s) == phase[s] = "absent" /\ Becomes(s, "pending", 0)

\* A fresh attempt, also straight after one that was lost.
Run(s) ==
  /\ phase[s] \in {"pending", "running"}
  /\ runs[s] < MaxAttempts
  /\ Becomes(s, "running", runs[s] + 1)

Retry(s) ==
  /\ phase[s] = "running"
  /\ runs[s] < MaxAttempts
  /\ Becomes(s, "pending", runs[s])

GiveUp(s) ==
  /\ phase[s] = "running"
  /\ runs[s] = MaxAttempts
  /\ Becomes(s, "needs_attention", runs[s])

Succeed(s) == phase[s] = "running" /\ Becomes(s, "completed", runs[s])

Delete(s) == Becomes(s, "gone", 0)

Stay(s) == Becomes(s, phase[s], runs[s])

Step(s) ==
  \/ Queue(s) \/ Run(s) \/ Retry(s) \/ GiveUp(s) \/ Succeed(s) \/ Delete(s)
  \/ Stay(s)

\* One claim may give up several expired jobs at once, so jobs step together.
Next ==
  /\ phase' \in [Segments -> {"absent", "pending", "running", "completed",
                              "needs_attention", "gone"}]
  /\ runs' \in [Segments -> 0..MaxAttempts]
  /\ \A s \in Segments : Step(s)

Spec == Init /\ [][Next]_vars

=============================================================================
