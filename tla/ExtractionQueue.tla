--------------------------- MODULE ExtractionQueue ---------------------------
(***************************************************************************)
(* The durable extraction queue of mega-store (queue_repo.rs): one job per *)
(* activity segment, claimed by workers under a lease, retried at most     *)
(* MaxAttempts times.                                                      *)
(*                                                                         *)
(* Every method of MemoryStore is one SQL transaction, hence one action.   *)
(* Time.  The code compares the timestamps it stores only with the now_ms  *)
(* its caller passes, so the model keeps each timestamp relative to now:   *)
(* due[s] is next_attempt_at - now and lease[s] is lease_expires_at - now, *)
(* and Tick lowers both.  A timestamp further in the past than Overdue is  *)
(* kept at -Overdue: nothing the code does depends on how long past it is, *)
(* except the order in which jobs that are all long due are taken.  due is *)
(* kept only while the job is pending (0 otherwise): every step that makes *)
(* a job pending sets next_attempt_at anew.                                *)
(***************************************************************************)
EXTENDS Integers, FiniteSets, Functions

CONSTANTS
  Segments,     \* identifiers of activity segments, each used once
  Workers,      \* workers, each of which does one job at a time
  WorkerIds,    \* what they may call themselves to claim_extraction
  Namings,      \* which worker goes by which id; several may go by the same
  MaxAttempts,  \* MAX_EXTRACTION_ATTEMPTS
  MaxLease,     \* the longest lease a worker asks for (MAX_LEASE_MILLIS)
  MaxBackoff,   \* bound: the longest retry delay a worker asks for
  Overdue,      \* bound: how long past a timestamp is told apart
  MaxSetBacks,  \* bound: how often the wall clock is set back
  MaxExpired,   \* bound: events recorded when apply_retention may still run
  NoWorker,     \* lease_owner IS NULL
  NoTicket      \* a worker that works on nothing

ASSUME QueueAssumption ==
  /\ MaxAttempts \in Nat \ {0}
  /\ MaxLease \in Nat \ {0}
  /\ MaxBackoff \in Nat
  /\ Overdue \in Nat
  /\ MaxSetBacks \in Nat
  /\ MaxExpired \in Nat
  /\ Namings \subseteq [Workers -> WorkerIds]
  /\ NoWorker \notin WorkerIds
  /\ NoTicket \notin Segments \X (1..MaxAttempts)

VARIABLES
  rows,        \* activity_segments: "unborn", "present" or "deleted"
  segState,    \* activity_segments.extraction_state
  segAttempts, \* activity_segments.extraction_attempts
  job,         \* extraction_jobs.state, "absent" when there is no row
  attempts,    \* extraction_jobs.attempts
  due,         \* extraction_jobs.next_attempt_at - now
  owner,       \* extraction_jobs.lease_owner
  lease,       \* extraction_jobs.lease_expires_at - now; 0 when NULL
  lastError,   \* extraction_jobs.last_error_code
  audit,       \* memory_events about the segment, counted by type
  paused,      \* memory_settings.extraction_paused
  id,          \* the worker_id each worker passes
  ticket,      \* the job and attempt each worker believes it works on
  setBacks,    \* how often the wall clock was set back so far
  expired      \* history: events about the segment that retention deleted

segVars == <<rows, segState, segAttempts>>
jobVars == <<job, attempts, due, owner, lease, lastError>>
auditVars == <<audit, expired>>
workerVars == <<id, ticket>>
vars == <<segVars, jobVars, auditVars, paused, workerVars, setBacks>>

SegmentStates == {"pending", "running", "completed", "needs_attention"}
JobStates == SegmentStates \cup {"absent"}
ErrorCodes == {"none", "lease_exhausted", "lease_expired", "reported"}
AuditTypes == {"closed", "started", "completed", "failed"}
Tickets == Segments \X (1..MaxAttempts)
NoEvents == [t \in AuditTypes |-> 0]
MaxAhead == MaxLease + MaxBackoff + MaxSetBacks

TypeOK ==
  /\ rows \in [Segments -> {"unborn", "present", "deleted"}]
  /\ segState \in [Segments -> SegmentStates]
  /\ segAttempts \in [Segments -> 0..MaxAttempts]
  /\ job \in [Segments -> JobStates]
  /\ attempts \in [Segments -> 0..MaxAttempts]
  /\ due \in [Segments -> (-Overdue)..MaxAhead]
  /\ owner \in [Segments -> WorkerIds \cup {NoWorker}]
  /\ lease \in [Segments -> (-Overdue)..MaxAhead]
  /\ lastError \in [Segments -> ErrorCodes]
  /\ audit \in [Segments -> [AuditTypes -> Nat]]
  /\ expired \in [Segments -> [AuditTypes -> Nat]]
  /\ id \in [Workers -> WorkerIds]
  /\ paused \in BOOLEAN
  /\ ticket \in [Workers -> Tickets \cup {NoTicket}]
  /\ setBacks \in 0..MaxSetBacks

Init ==
  /\ rows = [s \in Segments |-> "unborn"]
  /\ segState = [s \in Segments |-> "pending"]
  /\ segAttempts = [s \in Segments |-> 0]
  /\ job = [s \in Segments |-> "absent"]
  /\ attempts = [s \in Segments |-> 0]
  /\ due = [s \in Segments |-> 0]
  /\ owner = [s \in Segments |-> NoWorker]
  /\ lease = [s \in Segments |-> 0]
  /\ lastError = [s \in Segments |-> "none"]
  /\ audit = [s \in Segments |-> NoEvents]
  /\ expired = [s \in Segments |-> NoEvents]
  /\ id \in Namings
  /\ paused = FALSE
  /\ ticket = [w \in Workers |-> NoTicket]
  /\ setBacks = 0

-----------------------------------------------------------------------------
(* Helpers *)

\* Mutant of Logged: an event of a type already logged is not logged again.
LoggedOnce(s, t) == [audit EXCEPT ![s][t] = 1]

\* record_event_tx: one more event of type t about segment s.
Logged(s, t) == [audit EXCEPT ![s][t] = @ + 1]

\* How often such an event was recorded, deleted ones included.
Recorded(s, t) == audit[s][t] + expired[s][t]

\* Mutant of Expired: a lease is taken away one tick early.
ExpiredEarly(s) == job[s] = "running" /\ lease[s] <= 1

\* A running job whose lease_expires_at is not after now.
Expired(s) == job[s] = "running" /\ lease[s] <= 0

\* Mutant of Exhausted: one attempt too many is allowed for.
ExhaustedLate(s) == Expired(s) /\ attempts[s] > MaxAttempts

Exhausted(s) == Expired(s) /\ attempts[s] >= MaxAttempts

\* The two UPDATEs claim_extraction opens with: an expired job that has used
\* its attempts needs attention, any other expired job is due again.
SweptJob == [s \in Segments |->
  IF Exhausted(s) THEN "needs_attention"
  ELSE IF Expired(s) THEN "pending"
  ELSE job[s]]
SweptDue == [s \in Segments |->
  IF Expired(s) /\ ~Exhausted(s) THEN 0 ELSE due[s]]
SweptOwner == [s \in Segments |-> IF Expired(s) THEN NoWorker ELSE owner[s]]
SweptLease == [s \in Segments |-> IF Expired(s) THEN 0 ELSE lease[s]]
SweptError == [s \in Segments |->
  IF Exhausted(s) THEN "lease_exhausted"
  ELSE IF Expired(s) THEN "lease_expired"
  ELSE lastError[s]]

\* Mutant of Claimable: the SELECT does not ask for the state.
ClaimableInAnyState == {s \in Segments : SweptDue[s] <= 0 /\ attempts[s] < MaxAttempts}

\* The jobs the claiming SELECT may return once the sweep is done.
Claimable ==
  {s \in Segments : /\ SweptJob[s] = "pending"
                    /\ SweptDue[s] <= 0
                    /\ attempts[s] < MaxAttempts}

\* Mutant of Leased: the owner of the lease is not compared.
LeasedByAnyone(w, s) == job[s] = "running" /\ lease[s] > 0

\* leased_segment: an unexpired lease on the job of s is held under the id of w.
Leased(w, s) == job[s] = "running" /\ owner[s] = id[w] /\ lease[s] > 0

\* The segment w works on; only meaningful while it holds a ticket.
Working(w, s) == ticket[w] # NoTicket /\ ticket[w][1] = s

-----------------------------------------------------------------------------
(* The methods of MemoryStore *)

\* insert_activity_segment: the columns take their defaults.
InsertSegment(s) ==
  /\ rows[s] = "unborn"
  /\ rows' = [rows EXCEPT ![s] = "present"]
  /\ UNCHANGED <<segState, segAttempts, jobVars, auditVars, paused, workerVars, setBacks>>

\* enqueue_extraction when the segment has no job yet.  With a job,
\* ON CONFLICT DO NOTHING leaves every table alone.
Enqueue(s) ==
  /\ rows[s] = "present"
  /\ job[s] = "absent"
  /\ job' = [job EXCEPT ![s] = "pending"]
  /\ due' = [due EXCEPT ![s] = 0]
  /\ audit' = Logged(s, "closed")
  /\ UNCHANGED <<segVars, attempts, owner, lease, lastError, expired, paused, workerVars,
                 setBacks>>

\* claim_extraction by a worker that is free, which finds work: the sweep, then the
\* pending job that has been due longest.  Jobs due since the same time are taken in
\* either order (the code orders those by created_at).  Who claims again under its own
\* id while an answer of its own is pending is here another worker of that id.
Claim(w, s, length) ==
  /\ ticket[w] = NoTicket
  /\ ~paused
  /\ s \in Claimable
  /\ \A other \in Claimable : SweptDue[s] <= SweptDue[other]
  /\ job' = [SweptJob EXCEPT ![s] = "running"]
  /\ attempts' = [attempts EXCEPT ![s] = @ + 1]
  /\ due' = [SweptDue EXCEPT ![s] = 0]
  /\ owner' = [SweptOwner EXCEPT ![s] = id[w]]
  /\ lease' = [SweptLease EXCEPT ![s] = length]
  /\ lastError' = SweptError
  /\ audit' = Logged(s, "started")
  /\ ticket' = [ticket EXCEPT ![w] = <<s, attempts[s] + 1>>]
  /\ UNCHANGED <<segVars, expired, paused, id, setBacks>>

\* claim_extraction that finds nothing to run still commits the sweep.
ClaimNothing(w) ==
  /\ ticket[w] = NoTicket
  /\ ~paused
  /\ Claimable = {}
  /\ job' = SweptJob
  /\ due' = SweptDue
  /\ owner' = SweptOwner
  /\ lease' = SweptLease
  /\ lastError' = SweptError
  /\ UNCHANGED <<segVars, attempts, auditVars, paused, workerVars, setBacks>>

\* complete_extraction by a worker whose lease is still good.
Complete(w, s) ==
  /\ Working(w, s)
  /\ Leased(w, s)
  /\ job' = [job EXCEPT ![s] = "completed"]
  /\ owner' = [owner EXCEPT ![s] = NoWorker]
  /\ lease' = [lease EXCEPT ![s] = 0]
  /\ lastError' = [lastError EXCEPT ![s] = "none"]
  /\ segState' = [segState EXCEPT ![s] = "completed"]
  /\ audit' = Logged(s, "completed")
  /\ ticket' = [ticket EXCEPT ![w] = NoTicket]
  /\ UNCHANGED <<rows, segAttempts, attempts, due, expired, paused, id, setBacks>>

\* fail_extraction by a worker whose lease is still good: the third failure
\* needs attention, an earlier one is retried after the delay.
Fail(w, s, delay) ==
  /\ Working(w, s)
  /\ Leased(w, s)
  /\ LET next == IF attempts[s] >= MaxAttempts THEN "needs_attention" ELSE "pending"
     IN /\ job' = [job EXCEPT ![s] = next]
        /\ segState' = [segState EXCEPT ![s] = next]
        /\ due' = [due EXCEPT ![s] = IF next = "pending" THEN delay ELSE 0]
  /\ segAttempts' = [segAttempts EXCEPT ![s] = attempts[s]]
  /\ owner' = [owner EXCEPT ![s] = NoWorker]
  /\ lease' = [lease EXCEPT ![s] = 0]
  /\ lastError' = [lastError EXCEPT ![s] = "reported"]
  /\ audit' = Logged(s, "failed")
  /\ ticket' = [ticket EXCEPT ![w] = NoTicket]
  /\ UNCHANGED <<rows, attempts, expired, paused, id, setBacks>>

\* complete_extraction or fail_extraction that returns LeaseLost: the
\* transaction writes nothing and the worker drops the job.
LeaseLost(w, s) ==
  /\ Working(w, s)
  /\ ~Leased(w, s)
  /\ ticket' = [ticket EXCEPT ![w] = NoTicket]
  /\ UNCHANGED <<segVars, jobVars, auditVars, paused, id, setBacks>>

\* apply_retention deletes all events that occurred before the cutoff, here those
\* recorded so far.  A cutoff that lies further back leaves what this step, taken at
\* that time, would have left.
ApplyRetention ==
  /\ SumFunction([st \in Segments \X AuditTypes |-> Recorded(st[1], st[2])]) <= MaxExpired
  /\ audit' = [s \in Segments |-> NoEvents]
  /\ expired' = [s \in Segments |-> [t \in AuditTypes |-> Recorded(s, t)]]
  /\ UNCHANGED <<segVars, jobVars, paused, workerVars, setBacks>>

\* set_extraction_paused.
SetPaused(on) ==
  /\ paused # on
  /\ paused' = on
  /\ UNCHANGED <<segVars, jobVars, auditVars, workerVars, setBacks>>

\* delete_memory(Permanent) removed the last evidence of the segment: its row
\* goes, and ON DELETE CASCADE takes the job along, whatever its state.
DeleteSegment(s) ==
  /\ rows[s] = "present"
  /\ rows' = [rows EXCEPT ![s] = "deleted"]
  /\ segState' = [segState EXCEPT ![s] = "pending"]
  /\ segAttempts' = [segAttempts EXCEPT ![s] = 0]
  /\ job' = [job EXCEPT ![s] = "absent"]
  /\ attempts' = [attempts EXCEPT ![s] = 0]
  /\ due' = [due EXCEPT ![s] = 0]
  /\ owner' = [owner EXCEPT ![s] = NoWorker]
  /\ lease' = [lease EXCEPT ![s] = 0]
  /\ lastError' = [lastError EXCEPT ![s] = "none"]
  /\ UNCHANGED <<auditVars, paused, workerVars, setBacks>>

-----------------------------------------------------------------------------
(* The environment *)

\* A worker dies or is restarted and forgets what it was doing.
Crash(w) ==
  /\ ticket[w] # NoTicket
  /\ ticket' = [ticket EXCEPT ![w] = NoTicket]
  /\ UNCHANGED <<segVars, jobVars, auditVars, paused, id, setBacks>>

Later(t) == IF t > -Overdue THEN t - 1 ELSE t

\* The wall clock the callers read advances.
Tick ==
  /\ due' = [s \in Segments |-> IF job[s] = "pending" THEN Later(due[s]) ELSE due[s]]
  /\ lease' = [s \in Segments |-> IF job[s] = "running" THEN Later(lease[s]) ELSE lease[s]]
  /\ UNCHANGED <<segVars, job, attempts, owner, lastError, auditVars, paused, workerVars,
                 setBacks>>

\* The wall clock is set back: every stored timestamp is further away.
SetClockBack ==
  /\ setBacks < MaxSetBacks
  /\ setBacks' = setBacks + 1
  /\ due' = [s \in Segments |-> IF job[s] = "pending" THEN due[s] + 1 ELSE due[s]]
  /\ lease' = [s \in Segments |-> IF job[s] = "running" THEN lease[s] + 1 ELSE lease[s]]
  /\ UNCHANGED <<segVars, job, attempts, owner, lastError, auditVars, paused, workerVars>>

Finish(w) ==
  \E s \in Segments : \/ Complete(w, s)
                      \/ \E delay \in 0..MaxBackoff : Fail(w, s, delay)
                      \/ LeaseLost(w, s)

Poll(w) ==
  \/ \E s \in Segments, length \in 1..MaxLease : Claim(w, s, length)
  \/ ClaimNothing(w)

Next ==
  \/ \E s \in Segments : InsertSegment(s) \/ Enqueue(s) \/ DeleteSegment(s)
  \/ \E w \in Workers : Poll(w) \/ Finish(w) \/ Crash(w)
  \/ \E on \in BOOLEAN : SetPaused(on)
  \/ ApplyRetention
  \/ Tick
  \/ SetClockBack

Spec == Init /\ [][Next]_vars

\* Time passes, an idle worker polls again and again, and a worker that took a
\* job answers or dies.  Nothing else is promised: no one need enqueue or resume.
Fairness ==
  /\ WF_vars(Tick)
  /\ WF_vars(\E w \in Workers : Poll(w))
  /\ \A w \in Workers : WF_vars(Finish(w) \/ Crash(w))

FairSpec == Spec /\ Fairness

-----------------------------------------------------------------------------
(* Properties *)

\* The audit trail of a segment agrees with its job: one segment_closed event
\* when it was queued, one extraction_started per attempt, extraction_completed
\* exactly when the job is completed, and never more answers than attempts
\* that are over; an attempt without an answer lost its lease.  An event is
\* missing in the table only if apply_retention deleted it for its age.
AuditMatchesJob ==
  \A s \in Segments : rows[s] = "present" =>
    /\ Recorded(s, "closed") = IF job[s] = "absent" THEN 0 ELSE 1
    /\ Recorded(s, "started") = attempts[s]
    /\ Recorded(s, "completed") = IF job[s] = "completed" THEN 1 ELSE 0
    /\ Recorded(s, "failed") + Recorded(s, "completed")
          + (IF job[s] = "running" THEN 1 ELSE 0) <= attempts[s]

\* The copy of the job's state in activity_segments never claims more than the
\* job: it is completed exactly with the job, and the only way it can miss
\* that the job needs attention is that the last lease ran out.
SegmentTracksJob ==
  \A s \in Segments :
    /\ segState[s] = "completed" <=> job[s] = "completed"
    /\ segState[s] = "needs_attention" => job[s] = "needs_attention"
    /\ (job[s] = "needs_attention" /\ segState[s] # "needs_attention")
         => lastError[s] = "lease_exhausted"
    /\ segAttempts[s] <= attempts[s]

\* A worker whose lease is accepted works on the attempt the row records: an
\* answer computed for an attempt that was given up is never taken for the
\* answer of a later attempt, unless somebody else goes by the same worker id:
\* leased_segment asks for the job and the id, and not for the attempt.
AnswerIsForCurrentAttempt ==
  \A w \in Workers, s \in Segments :
    Working(w, s) /\ Leased(w, s) /\ ticket[w][2] # attempts[s]
      => \E other \in Workers \ {w} : id[other] = id[w]

\* A lease that has not run out is never given to somebody else, nor started
\* over: claim_extraction takes running jobs only once they expired.
LiveLeaseIsKept ==
  [][\A s \in Segments :
       (job[s] = "running" /\ lease[s] > 0 /\ job'[s] = "running")
         => owner'[s] = owner[s] /\ attempts'[s] = attempts[s]]_vars

\* The rows keep the shape the CHECK constraints of 0002_operations.sql demand
\* (running exactly with an owner), and the attempt count fits the state: a
\* pending job has attempts left, one that needs attention has none.
RowsAreConsistent ==
  \A s \in Segments :
    /\ rows[s] # "present" => job[s] = "absent"
    /\ job[s] = "running" <=> owner[s] # NoWorker
    /\ job[s] = "absent" => attempts[s] = 0
    /\ job[s] = "pending" => attempts[s] < MaxAttempts
    /\ job[s] \in {"running", "completed"} => attempts[s] > 0
    /\ job[s] = "needs_attention" => attempts[s] = MaxAttempts

\* The three accounts the store keeps of one job agree in every state: its own
\* row with the CHECK constraints and the attempt limit, the audit trail, and
\* the copy in activity_segments, although claim_extraction's sweep writes only
\* the first and deletion only some of them.
TablesAgree ==
  /\ TypeOK
  /\ RowsAreConsistent
  /\ AuditMatchesJob
  /\ SegmentTracksJob

Jobs == INSTANCE ExtractionJobs WITH
  phase <- [s \in Segments |-> IF rows[s] = "deleted" THEN "gone" ELSE job[s]],
  runs <- attempts

\* Each job goes through its states as ExtractionJobs promises: at most
\* MaxAttempts attempts, and completed or needs_attention for good.
ImplementsJobs == Jobs!Spec

Settled(s) == job[s] \in {"completed", "needs_attention", "absent"}

\* Unless extraction stays paused, every queued job settles: it completes,
\* needs attention, or its segment is deleted (no infinite retry loop, no job
\* left behind by a dead worker).
EveryJobSettles ==
  \A s \in Segments : (<>[]~paused) => (~Settled(s) ~> Settled(s))

=============================================================================
