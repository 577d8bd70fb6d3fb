------------------------------ MODULE Supervisor ------------------------------
(***************************************************************************)
(* Supervisor::run of mega-runtime: one supervisor task for each subsystem,*)
(* all under the application's cancellation token, over the lifecycle      *)
(* table of mega-core.  The worker is a future that its supervisor polls;  *)
(* the token may be cancelled by another thread at any time.  Transitions  *)
(* that follow each other without an await are one action.                 *)
(***************************************************************************)
EXTENDS Sequences, Naturals

CONSTANTS
  Subsystems  \* the supervised subsystems

VARIABLES
  token,    \* the application's token is cancelled
  child,    \* child tokens cancelled by their supervisor
  pc,       \* where each supervisor is
  state,    \* Supervisor.state
  worker,   \* each worker future: "none", "pending", "ok" or "error"
  report    \* SupervisionReport: final state, cancelled and worker_error

vars == <<token, child, pc, state, worker, report>>

LifecycleStates == {"stopped", "starting", "running", "degraded", "stopping", "failed"}
NoReport == [final |-> "none", cancelled |-> FALSE, error |-> FALSE]

TypeOK ==
  /\ token \in BOOLEAN
  /\ child \subseteq Subsystems
  /\ pc \in [Subsystems -> {"new", "select", "polling", "draining", "done", "refused"}]
  /\ state \in [Subsystems -> LifecycleStates]
  /\ worker \in [Subsystems -> {"none", "pending", "ok", "error"}]
  /\ report \in [Subsystems -> [final : LifecycleStates \cup {"none"},
                                cancelled : BOOLEAN, error : BOOLEAN]]

Init ==
  /\ token = FALSE
  /\ child = {}
  /\ pc = [s \in Subsystems |-> "new"]
  /\ state = [s \in Subsystems |-> "stopped"]
  /\ worker = [s \in Subsystems |-> "none"]
  /\ report = [s \in Subsystems |-> NoReport]

-----------------------------------------------------------------------------
(* mega-core's lifecycle table, and a run of transitions by it *)

CanTransition(from, to) ==
  CASE from = "stopped"  -> to = "starting"
    [] from = "starting" -> to \in {"running", "degraded", "failed", "stopping"}
    [] from = "running"  -> to \in {"degraded", "failed", "stopping"}
    [] from = "degraded" -> to \in {"running", "failed", "stopping"}
    [] from = "failed"   -> to \in {"starting", "stopping", "stopped"}
    [] from = "stopping" -> to \in {"stopped", "failed"}

\* The supervisor of s goes through the states of path and on to the step
\* named, or returns the error of the first transition that is refused.
Transitions(s, path, step) ==
  LET all == <<state[s]>> \o path
      refused == {i \in 1..Len(path) : ~CanTransition(all[i], all[i + 1])}
  IN IF refused = {}
     THEN /\ state' = [state EXCEPT ![s] = path[Len(path)]]
          /\ pc' = [pc EXCEPT ![s] = step]
     ELSE /\ \E i \in refused :
               /\ \A j \in refused : i <= j
               /\ state' = [state EXCEPT ![s] = all[i]]
          /\ pc' = [pc EXCEPT ![s] = "refused"]

Reports(s, final, cancelled, error) ==
  report' = [report EXCEPT ![s] =
               [final |-> final, cancelled |-> cancelled, error |-> error]]

-----------------------------------------------------------------------------
(* Supervisor::run *)

Start(s) ==
  /\ pc[s] = "new"
  /\ Transitions(s, <<"starting", "running">>, "select")
  /\ worker' = [worker EXCEPT ![s] = "pending"]
  /\ UNCHANGED <<token, child, report>>

\* The biased select looks at the token first ...
TokenCancelled(s) ==
  /\ pc[s] = "select"
  /\ token
  /\ Transitions(s, <<"stopping">>, "draining")
  /\ child' = child \cup {s}
  /\ UNCHANGED <<token, worker, report>>

TokenNotCancelled(s) ==
  /\ pc[s] = "select"
  /\ ~token
  /\ pc' = [pc EXCEPT ![s] = "polling"]
  /\ UNCHANGED <<token, child, state, worker, report>>

\* A child token is cancelled with its parent.
ChildCancelled(s) == token \/ s \in child

\* The worker runs until its next await, or returns.
PollWorker(s, outcome) ==
  /\ worker[s] = "pending"
  /\ worker' = [worker EXCEPT ![s] = outcome]

\* ... and at the worker next.
WorkerPending(s) ==
  /\ pc[s] = "polling"
  /\ PollWorker(s, "pending")
  /\ pc' = [pc EXCEPT ![s] = "select"]
  /\ UNCHANGED <<token, child, state, report>>

WorkerReturns(s) ==
  /\ pc[s] = "polling"
  /\ PollWorker(s, "ok")
  /\ Transitions(s, <<"stopping", "stopped">>, "done")
  /\ child' = child \cup {s}
  /\ Reports(s, "stopped", FALSE, FALSE)
  /\ UNCHANGED token

WorkerFails(s) ==
  /\ pc[s] = "polling"
  /\ PollWorker(s, "error")
  /\ Transitions(s, <<"failed">>, "done")
  /\ child' = child \cup {s}
  /\ Reports(s, "failed", FALSE, TRUE)
  /\ UNCHANGED token

\* A cancelled worker is waited for; what it returns is ignored.
Drain(s, outcome) ==
  /\ pc[s] = "draining"
  /\ PollWorker(s, outcome)
  /\ UNCHANGED <<token, child, pc, state, report>>

\* Mutants of Drained: the worker is not waited for; only an Ok is taken.
DrainedEarly(s) ==
  /\ pc[s] = "draining"
  /\ Transitions(s, <<"stopped">>, "done")
  /\ Reports(s, "stopped", TRUE, FALSE)
  /\ UNCHANGED <<token, child, worker>>
DrainedCleanly(s) == worker[s] = "ok" /\ DrainedEarly(s)

Drained(s) ==
  /\ pc[s] = "draining"
  /\ worker[s] \in {"ok", "error"}
  /\ Transitions(s, <<"stopped">>, "done")
  /\ Reports(s, "stopped", TRUE, FALSE)
  /\ UNCHANGED <<token, child, worker>>

CancelApplication ==
  /\ ~token
  /\ token' = TRUE
  /\ UNCHANGED <<child, pc, state, worker, report>>

-----------------------------------------------------------------------------

Supervise(s) ==
  \/ Start(s) \/ TokenCancelled(s) \/ TokenNotCancelled(s)
  \/ WorkerPending(s) \/ Drained(s)
  \/ \E outcome \in {"ok", "error"} : Drain(s, outcome)

Next ==
  \/ CancelApplication
  \/ \E s \in Subsystems :
       Supervise(s) \/ WorkerReturns(s) \/ WorkerFails(s)

Spec == Init /\ [][Next]_vars

\* Tasks are polled, and a worker whose token is cancelled comes to an end; one
\* that is not cancelled may run for ever.
FairSpec == Spec /\ \A s \in Subsystems : WF_vars(Supervise(s))

-----------------------------------------------------------------------------
(* Properties *)

\* run never returns a transition error: each path through it, whenever the
\* token is cancelled, keeps to the lifecycle table.
NothingIsRefused == \A s \in Subsystems : pc[s] # "refused"

\* A report is published only after its worker is over and its token cancelled,
\* and says how the run ended: nothing revives a subsystem that was reported.
ReportComesLast ==
  \A s \in Subsystems : pc[s] = "done" =>
    /\ worker[s] \in {"ok", "error"}
    /\ ChildCancelled(s)
    /\ report[s].final = state[s]
    /\ report[s].error <=> state[s] = "failed"
    /\ ~report[s].cancelled /\ ~report[s].error => worker[s] = "ok"

\* Both, with the types: what a supervisor does to its subsystem is within the table and
\* is told only when it is over.
SupervisionIsSound == TypeOK /\ NothingIsRefused /\ ReportComesLast

\* Once the application is cancelled every supervisor reports.
CancellationEndsAll == token ~> \A s \in Subsystems : pc[s] = "done"

=============================================================================
