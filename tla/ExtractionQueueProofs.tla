------------------------ MODULE ExtractionQueueProofs ------------------------
(***************************************************************************)
(* Proofs about ExtractionQueue, for any sets of segments and workers and  *)
(* any bounds.  QInv is the inductive invariant: the checked invariants    *)
(* plus how far ahead a timestamp can be, and the ticket of a worker that  *)
(* owns a job alone under its id, whether or not the lease has run out.    *)
(***************************************************************************)
EXTENDS ExtractionQueue, TLAPS

Bounds ==
  \A s \in Segments :
    /\ job[s] # "pending" => due[s] = 0
    /\ job[s] # "running" => lease[s] = 0
    /\ due[s] <= MaxBackoff + setBacks
    /\ lease[s] <= MaxLease + setBacks
    /\ rows[s] = "unborn" => \A t \in AuditTypes : Recorded(s, t) = 0
    /\ job[s] = "absent" => segState[s] = "pending" /\ segAttempts[s] = 0

\* Nobody else goes by the id of w.
Alone(w) == \A other \in Workers \ {w} : id[other] # id[w]

OwnerHoldsCurrentTicket ==
  \A w \in Workers, s \in Segments :
    Working(w, s) /\ owner[s] = id[w] /\ Alone(w) => ticket[w][2] = attempts[s]

QInv ==
  /\ TypeOK
  /\ RowsAreConsistent
  /\ AuditMatchesJob
  /\ SegmentTracksJob
  /\ Bounds
  /\ OwnerHoldsCurrentTicket

LEMMA InitQInv == Init => QInv
<1> SUFFICES ASSUME Init PROVE QInv
  OBVIOUS
<1> USE QueueAssumption DEF Init
<1>1. TypeOK
  <2>1. due \in [Segments -> (-Overdue)..MaxAhead] /\ lease \in [Segments -> (-Overdue)..MaxAhead]
    BY DEF MaxAhead
  <2>2. /\ audit \in [Segments -> [AuditTypes -> Nat]]
        /\ expired \in [Segments -> [AuditTypes -> Nat]]
    BY DEF NoEvents
  <2>3. segState \in [Segments -> SegmentStates] /\ job \in [Segments -> JobStates]
    BY DEF SegmentStates, JobStates
  <2>4. lastError \in [Segments -> ErrorCodes]
    BY DEF ErrorCodes
  <2>5. ticket \in [Workers -> Tickets \cup {NoTicket}]
    OBVIOUS
  <2>6. setBacks \in 0..MaxSetBacks
    OBVIOUS
  <2>7. segAttempts \in [Segments -> 0..MaxAttempts] /\ attempts \in [Segments -> 0..MaxAttempts]
    OBVIOUS
  <2>8. /\ id \in [Workers -> WorkerIds]
        /\ rows \in [Segments -> {"unborn", "present", "deleted"}]
        /\ paused \in BOOLEAN
        /\ owner \in [Segments -> WorkerIds \cup {NoWorker}]
    OBVIOUS
  <2> HIDE DEF Init
  <2>9. QED
    BY <2>1, <2>2, <2>3, <2>4, <2>5, <2>6, <2>7, <2>8 DEF TypeOK
<1>2. RowsAreConsistent
  BY DEF RowsAreConsistent
<1>3. AuditMatchesJob
  BY DEF AuditMatchesJob, Recorded, NoEvents, AuditTypes
<1>4. SegmentTracksJob
  BY DEF SegmentTracksJob
<1>5. Bounds
  BY DEF Bounds, Recorded, NoEvents
<1>6. OwnerHoldsCurrentTicket
  BY DEF OwnerHoldsCurrentTicket, Alone, Working
<1>7. QED
  BY <1>1, <1>2, <1>3, <1>4, <1>5, <1>6 DEF QInv

\* What recording an event does to the audit trail.
LEMMA LoggedCounts ==
  ASSUME TypeOK, NEW s \in Segments, NEW t \in AuditTypes,
         audit' = Logged(s, t), expired' = expired
  PROVE  /\ audit' \in [Segments -> [AuditTypes -> Nat]]
         /\ \A x \in Segments, u \in AuditTypes :
              /\ Recorded(x, u) \in Nat
              /\ Recorded(x, u)' = IF x = s /\ u = t THEN Recorded(x, u) + 1
                                                    ELSE Recorded(x, u)
<1>1. audit \in [Segments -> [AuditTypes -> Nat]] /\ expired \in [Segments -> [AuditTypes -> Nat]]
  BY DEF TypeOK
<1>2. audit[s] \in [AuditTypes -> Nat]
  BY <1>1
<1> DEFINE row == [audit[s] EXCEPT ![t] = @ + 1]
<1>3. row \in [AuditTypes -> Nat]
  BY <1>2
<1>4. \A u \in AuditTypes : row[u] = IF u = t THEN audit[s][u] + 1 ELSE audit[s][u]
  BY <1>2
<1>5. audit' = [audit EXCEPT ![s] = row]
  BY Zenon DEF Logged
<1> HIDE DEF row
<1>6. audit' \in [Segments -> [AuditTypes -> Nat]]
  BY <1>1, <1>3, <1>5
<1>7. ASSUME NEW x \in Segments, NEW u \in AuditTypes
      PROVE  /\ Recorded(x, u) \in Nat
             /\ Recorded(x, u)' = IF x = s /\ u = t THEN Recorded(x, u) + 1
                                                   ELSE Recorded(x, u)
  <2>1. audit'[x][u] = IF x = s /\ u = t THEN audit[x][u] + 1 ELSE audit[x][u]
    BY <1>1, <1>4, <1>5
  <2>2. audit[x][u] \in Nat /\ expired[x][u] \in Nat
    BY <1>1
  <2>3. QED
    BY <2>1, <2>2 DEF Recorded
<1>8. QED
  BY <1>6, <1>7

\* Nothing is recorded and nothing deleted.
LEMMA SameTrail ==
  ASSUME UNCHANGED auditVars
  PROVE  \A x \in Segments, u \in AuditTypes : Recorded(x, u)' = Recorded(x, u)
BY DEF auditVars, Recorded

LEMMA SameIds ==
  ASSUME id' = id
  PROVE  \A w \in Workers : Alone(w)' <=> Alone(w)
BY DEF Alone

LEMMA InsertSegmentKeeps ==
  ASSUME QInv, NEW s \in Segments, InsertSegment(s)
  PROVE QInv'
<1> USE QueueAssumption DEF QInv, InsertSegment, segVars, jobVars, auditVars, workerVars
<1>1. TypeOK'
  BY
  DEF TypeOK, SegmentStates, JobStates, ErrorCodes, AuditTypes, Tickets, MaxAhead, Bounds,
      AuditMatchesJob, RowsAreConsistent
<1>2. RowsAreConsistent'
  BY DEF RowsAreConsistent, TypeOK
<1>3. AuditMatchesJob'
  BY SameTrail
  DEF AuditMatchesJob, Bounds, RowsAreConsistent, TypeOK, AuditTypes
<1>4. SegmentTracksJob'
  BY DEF SegmentTracksJob, RowsAreConsistent, Bounds, TypeOK
<1>5. Bounds'
  BY SameTrail DEF Bounds, TypeOK
<1>6. OwnerHoldsCurrentTicket'
  BY SameIds DEF OwnerHoldsCurrentTicket, RowsAreConsistent, Working, TypeOK
<1>7. QED
  BY <1>1, <1>2, <1>3, <1>4, <1>5, <1>6

LEMMA EnqueueKeeps ==
  ASSUME QInv, NEW s \in Segments, Enqueue(s)
  PROVE QInv'
<1> USE QueueAssumption DEF QInv, Enqueue, segVars, jobVars, workerVars
<1>1. TypeOK'
  <2>1. audit' \in [Segments -> [AuditTypes -> Nat]]
    BY LoggedCounts DEF AuditTypes
  <2>2. QED
    BY <2>1
    DEF TypeOK, SegmentStates, JobStates, ErrorCodes, Tickets, MaxAhead, Bounds,
        RowsAreConsistent
<1>2. RowsAreConsistent'
  BY DEF RowsAreConsistent, TypeOK
<1>3. AuditMatchesJob'
  <2>1. \A x \in Segments, u \in AuditTypes :
          Recorded(x, u)' = IF x = s /\ u = "closed" THEN Recorded(x, u) + 1 ELSE Recorded(x, u)
    BY LoggedCounts DEF AuditTypes
  <2>2. \A x \in Segments, u \in AuditTypes : Recorded(x, u) \in Nat
    BY LoggedCounts DEF AuditTypes
  <2>3. QED
    BY <2>1, <2>2 DEF AuditMatchesJob, Bounds, RowsAreConsistent, TypeOK, AuditTypes
<1>4. SegmentTracksJob'
  BY DEF SegmentTracksJob, RowsAreConsistent, Bounds, TypeOK
<1>5. Bounds'
  <2>1. \A x \in Segments, u \in AuditTypes : x # s => Recorded(x, u)' = Recorded(x, u)
    BY LoggedCounts DEF AuditTypes
  <2>2. QED
    BY <2>1 DEF Bounds, TypeOK, RowsAreConsistent
<1>6. OwnerHoldsCurrentTicket'
  BY SameIds DEF OwnerHoldsCurrentTicket, RowsAreConsistent, Working, TypeOK
<1>7. QED
  BY <1>1, <1>2, <1>3, <1>4, <1>5, <1>6

LEMMA DeleteSegmentKeeps ==
  ASSUME QInv, NEW s \in Segments, DeleteSegment(s)
  PROVE QInv'
<1> USE QueueAssumption DEF QInv, DeleteSegment, segVars, jobVars, auditVars, workerVars
<1>1. TypeOK'
  BY
  DEF TypeOK, SegmentStates, JobStates, ErrorCodes, AuditTypes, Tickets, MaxAhead, Bounds,
      AuditMatchesJob, RowsAreConsistent
<1>2. RowsAreConsistent'
  BY DEF RowsAreConsistent, TypeOK
<1>3. AuditMatchesJob'
  BY SameTrail
  DEF AuditMatchesJob, Bounds, RowsAreConsistent, TypeOK, AuditTypes
<1>4. SegmentTracksJob'
  BY DEF SegmentTracksJob, RowsAreConsistent, Bounds, TypeOK
<1>5. Bounds'
  BY SameTrail DEF Bounds, TypeOK
<1>6. OwnerHoldsCurrentTicket'
  <2> SUFFICES ASSUME NEW v \in Workers, NEW x \in Segments,
                      Working(v, x)', owner'[x] = id'[v], Alone(v)'
               PROVE  ticket'[v][2] = attempts'[x]
    BY DEF OwnerHoldsCurrentTicket
  <2>1. id' = id /\ ticket' = ticket /\ id[v] # NoWorker
    BY DEF TypeOK
  <2>2. x # s /\ owner'[x] = owner[x] /\ attempts'[x] = attempts[x]
    BY <2>1 DEF TypeOK
  <2>3. Working(v, x) /\ owner[x] = id[v] /\ Alone(v)
    BY <2>1, <2>2, SameIds DEF Working
  <2>4. QED
    BY <2>1, <2>2, <2>3 DEF OwnerHoldsCurrentTicket
<1>7. QED
  BY <1>1, <1>2, <1>3, <1>4, <1>5, <1>6

\* What the sweep of claim_extraction makes of one job.
LEMMA SweepFacts ==
  ASSUME QInv, NEW x \in Segments
  PROVE  /\ Exhausted(x) => /\ job[x] = "running" /\ attempts[x] = MaxAttempts
                            /\ SweptJob[x] = "needs_attention" /\ SweptOwner[x] = NoWorker
                            /\ SweptLease[x] = 0 /\ SweptDue[x] = due[x]
                            /\ SweptError[x] = "lease_exhausted"
         /\ (Expired(x) /\ ~Exhausted(x)) =>
                            /\ job[x] = "running" /\ attempts[x] < MaxAttempts
                            /\ SweptJob[x] = "pending" /\ SweptOwner[x] = NoWorker
                            /\ SweptLease[x] = 0 /\ SweptDue[x] = 0
                            /\ SweptError[x] = "lease_expired"
         /\ (~Expired(x) /\ ~Exhausted(x)) =>
                            /\ SweptJob[x] = job[x] /\ SweptOwner[x] = owner[x]
                            /\ SweptLease[x] = lease[x] /\ SweptDue[x] = due[x]
                            /\ SweptError[x] = lastError[x]
<1>1. attempts[x] \in 0..MaxAttempts
  BY DEF QInv, TypeOK
<1>2. Exhausted(x) => job[x] = "running" /\ attempts[x] = MaxAttempts
  BY <1>1, QueueAssumption DEF Exhausted, Expired
<1>3. Expired(x) /\ ~Exhausted(x) => job[x] = "running" /\ attempts[x] < MaxAttempts
  BY <1>1, QueueAssumption DEF Exhausted, Expired
<1>4. Exhausted(x) => Expired(x)
  BY DEF Exhausted
<1>5. QED
  BY <1>2, <1>3, <1>4 DEF SweptJob, SweptOwner, SweptLease, SweptDue, SweptError

LEMMA SweepTypes ==
  ASSUME QInv
  PROVE  /\ SweptJob \in [Segments -> JobStates]
         /\ SweptDue \in [Segments -> (-Overdue)..MaxAhead]
         /\ SweptOwner \in [Segments -> WorkerIds \cup {NoWorker}]
         /\ SweptLease \in [Segments -> (-Overdue)..MaxAhead]
         /\ SweptError \in [Segments -> ErrorCodes]
BY QueueAssumption
   DEF QInv, TypeOK, SweptJob, SweptOwner, SweptLease, SweptDue, SweptError,
       JobStates, SegmentStates, ErrorCodes, MaxAhead

LEMMA ClaimKeeps ==
  ASSUME QInv, NEW w \in Workers, NEW s \in Segments, NEW length \in 1..MaxLease,
         Claim(w, s, length)
  PROVE QInv'
<1> USE QueueAssumption DEF QInv, Claim, segVars, jobVars, auditVars, workerVars
<1>0. /\ s \in Claimable
      /\ SweptJob[s] = "pending" /\ attempts[s] < MaxAttempts
      /\ job[s] \in {"pending", "running"} /\ rows[s] = "present"
  BY SweepFacts DEF Claimable, RowsAreConsistent, TypeOK, JobStates, SegmentStates
<1>a. /\ rows' = rows /\ segState' = segState /\ segAttempts' = segAttempts
      /\ \A x \in Segments :
           IF x = s
           THEN /\ job'[x] = "running" /\ attempts'[x] = attempts[x] + 1
                /\ owner'[x] = id[w] /\ lastError'[x] = SweptError[x]
           ELSE /\ job'[x] = SweptJob[x] /\ attempts'[x] = attempts[x]
                /\ owner'[x] = SweptOwner[x] /\ lastError'[x] = SweptError[x]
  BY <1>0, SweepTypes DEF TypeOK
<1>b. \A x \in Segments : attempts[x] \in 0..MaxAttempts /\ segAttempts[x] \in 0..MaxAttempts
  BY DEF TypeOK
<1>1. TypeOK'
  <2>1. audit' \in [Segments -> [AuditTypes -> Nat]]
    BY LoggedCounts DEF AuditTypes
  <2>2. QED
    <3>1. job' \in [Segments -> JobStates] /\ due' \in [Segments -> (-Overdue)..MaxAhead]
      BY SweepTypes DEF JobStates, SegmentStates, MaxAhead
    <3>2. attempts' \in [Segments -> 0..MaxAttempts]
          /\ ticket' \in [Workers -> Tickets \cup {NoTicket}]
      BY <1>0 DEF TypeOK, Tickets
    <3>3. owner' \in [Segments -> WorkerIds \cup {NoWorker}]
      BY SweepTypes DEF TypeOK
    <3>4. lease' \in [Segments -> (-Overdue)..MaxAhead] /\ lastError' \in [Segments -> ErrorCodes]
      BY SweepTypes DEF MaxAhead
    <3>5. UNCHANGED <<rows, segState, segAttempts, expired, paused, id, setBacks>>
      OBVIOUS
    <3> HIDE DEF Claim
    <3>6. QED
      BY <2>1, <3>1, <3>2, <3>3, <3>4, <3>5 DEF TypeOK
<1>2. RowsAreConsistent'
  BY <1>0, SweepFacts, SweepTypes DEF RowsAreConsistent, TypeOK
<1>3. AuditMatchesJob'
  <2>1. \A x \in Segments, u \in AuditTypes :
          Recorded(x, u)' = IF x = s /\ u = "started" THEN Recorded(x, u) + 1 ELSE Recorded(x, u)
    BY LoggedCounts DEF AuditTypes
  <2>2. \A x \in Segments, u \in AuditTypes : Recorded(x, u) \in Nat
    BY LoggedCounts DEF AuditTypes
  <2> SUFFICES ASSUME NEW x \in Segments, rows'[x] = "present"
               PROVE  /\ Recorded(x, "closed")' = IF job'[x] = "absent" THEN 0 ELSE 1
                      /\ Recorded(x, "started")' = attempts'[x]
                      /\ Recorded(x, "completed")' = IF job'[x] = "completed" THEN 1 ELSE 0
                      /\ Recorded(x, "failed")' + Recorded(x, "completed")'
                            + (IF job'[x] = "running" THEN 1 ELSE 0) <= attempts'[x]
    BY DEF AuditMatchesJob
  <2>3. /\ Recorded(x, "closed")' = Recorded(x, "closed")
        /\ Recorded(x, "completed")' = Recorded(x, "completed")
        /\ Recorded(x, "failed")' = Recorded(x, "failed")
        /\ Recorded(x, "started")' = IF x = s THEN Recorded(x, "started") + 1
                                                ELSE Recorded(x, "started")
        /\ Recorded(x, "completed") \in Nat /\ Recorded(x, "failed") \in Nat
    BY ONLY <2>1, <2>2 DEF AuditTypes
  <2>4. /\ Recorded(x, "closed") = IF job[x] = "absent" THEN 0 ELSE 1
        /\ Recorded(x, "started") = attempts[x]
        /\ Recorded(x, "completed") = IF job[x] = "completed" THEN 1 ELSE 0
        /\ Recorded(x, "failed") + Recorded(x, "completed")
              + (IF job[x] = "running" THEN 1 ELSE 0) <= attempts[x]
    BY <1>a DEF AuditMatchesJob
  <2>5. CASE x = s
    <3>1. job'[x] = "running" /\ attempts'[x] = attempts[x] + 1
      BY <1>a, <2>5
    <3>2. job[x] = "pending" \/ job[x] = "running"
      BY <1>0, <2>5
    <3>3. attempts[x] \in Nat
      BY <1>b
    <3>4. QED
      BY ONLY <2>3, <2>4, <2>5, <3>1, <3>2, <3>3
  <2>6. CASE x # s
    <3>1. job'[x] = SweptJob[x] /\ attempts'[x] = attempts[x]
      BY <1>a, <2>6
    <3>2. \/ SweptJob[x] = job[x]
          \/ job[x] = "running" /\ SweptJob[x] \in {"pending", "needs_attention"}
      BY SweepFacts
    <3>3. attempts[x] \in Nat
      BY <1>b
    <3>4. QED
      BY ONLY <2>3, <2>4, <2>6, <3>1, <3>2, <3>3
  <2>7. QED
    BY <2>5, <2>6
<1>4. SegmentTracksJob'
  <2> SUFFICES ASSUME NEW x \in Segments
               PROVE  /\ segState[x] = "completed" <=> job'[x] = "completed"
                      /\ segState[x] = "needs_attention" => job'[x] = "needs_attention"
                      /\ (job'[x] = "needs_attention" /\ segState[x] # "needs_attention")
                           => lastError'[x] = "lease_exhausted"
                      /\ segAttempts[x] <= attempts'[x]
    BY <1>a DEF SegmentTracksJob
  <2>1. /\ segState[x] = "completed" <=> job[x] = "completed"
        /\ segState[x] = "needs_attention" => job[x] = "needs_attention"
        /\ (job[x] = "needs_attention" /\ segState[x] # "needs_attention")
             => lastError[x] = "lease_exhausted"
        /\ segAttempts[x] <= attempts[x]
    BY DEF SegmentTracksJob
  <2>2. \/ SweptJob[x] = job[x] /\ SweptError[x] = lastError[x]
        \/ job[x] = "running" /\ SweptJob[x] = "pending"
        \/ job[x] = "running" /\ SweptJob[x] = "needs_attention"
           /\ SweptError[x] = "lease_exhausted"
    BY SweepFacts
  <2>3. CASE x = s
    <3>1. job'[x] = "running" /\ attempts'[x] = attempts[x] + 1
      BY <1>a, <2>3
    <3>2. job[x] = "pending" \/ job[x] = "running"
      BY <1>0, <2>3
    <3>3. QED
      BY ONLY <1>b, <2>1, <3>1, <3>2
  <2>4. CASE x # s
    <3>1. /\ job'[x] = SweptJob[x] /\ attempts'[x] = attempts[x]
          /\ lastError'[x] = SweptError[x]
      BY <1>a, <2>4
    <3>2. QED
      BY ONLY <2>1, <2>2, <3>1
  <2>5. QED
    BY <2>3, <2>4
<1>5. Bounds'
  <2>1. \A x \in Segments, u \in AuditTypes : x # s => Recorded(x, u)' = Recorded(x, u)
    BY LoggedCounts DEF AuditTypes
  <2>2. QED
    BY <1>0, SweepFacts, SweepTypes, <2>1 DEF Bounds, TypeOK, RowsAreConsistent
<1>6. OwnerHoldsCurrentTicket'
  <2> SUFFICES ASSUME NEW v \in Workers, NEW x \in Segments,
                      Working(v, x)', owner'[x] = id[v], Alone(v)
               PROVE  ticket'[v][2] = attempts'[x]
    BY DEF OwnerHoldsCurrentTicket, Alone
  <2>1. CASE x = s
    <3>1. v = w
      BY <1>0, SweepTypes, <2>1 DEF TypeOK, Alone
    <3>2. QED
      BY <1>0, <2>1, <3>1 DEF TypeOK
  <2>2. CASE x # s
    <3>1. owner[x] = id[v] /\ attempts'[x] = attempts[x]
      <4>1. owner'[x] = SweptOwner[x] /\ attempts'[x] = attempts[x]
        BY <1>a, <2>2
      <4>2. SweptOwner[x] = owner[x] \/ SweptOwner[x] = NoWorker
        BY DEF SweptOwner
      <4>3. id[v] # NoWorker
        BY DEF TypeOK
      <4>4. QED
        BY ONLY <4>1, <4>2, <4>3, owner'[x] = id[v]
    <3>2. v # w
      BY <2>2 DEF Working, TypeOK
    <3>3. QED
      BY <3>1, <3>2 DEF Working, OwnerHoldsCurrentTicket, TypeOK
  <2>3. QED
    BY <2>1, <2>2
<1>7. QED
  BY <1>1, <1>2, <1>3, <1>4, <1>5, <1>6

LEMMA ClaimNothingKeeps ==
  ASSUME QInv, NEW w \in Workers, ClaimNothing(w)
  PROVE QInv'
<1> USE QueueAssumption DEF QInv, ClaimNothing, segVars, jobVars, auditVars, workerVars
<1>1. TypeOK'
  BY SweepTypes
  DEF TypeOK, SegmentStates, JobStates, ErrorCodes, AuditTypes, Tickets, MaxAhead, Bounds,
      AuditMatchesJob, RowsAreConsistent
<1>2. RowsAreConsistent'
  BY SweepFacts, SweepTypes DEF RowsAreConsistent, TypeOK
<1>3. AuditMatchesJob'
  <2> SUFFICES ASSUME NEW x \in Segments, rows[x] = "present"
               PROVE  /\ Recorded(x, "closed") = IF SweptJob[x] = "absent" THEN 0 ELSE 1
                      /\ Recorded(x, "started") = attempts[x]
                      /\ Recorded(x, "completed") = IF SweptJob[x] = "completed" THEN 1 ELSE 0
                      /\ Recorded(x, "failed") + Recorded(x, "completed")
                            + (IF SweptJob[x] = "running" THEN 1 ELSE 0) <= attempts[x]
    BY SameTrail DEF AuditMatchesJob, AuditTypes
  <2>1. /\ Recorded(x, "closed") = IF job[x] = "absent" THEN 0 ELSE 1
        /\ Recorded(x, "started") = attempts[x]
        /\ Recorded(x, "completed") = IF job[x] = "completed" THEN 1 ELSE 0
        /\ Recorded(x, "failed") + Recorded(x, "completed")
              + (IF job[x] = "running" THEN 1 ELSE 0) <= attempts[x]
    BY DEF AuditMatchesJob
  <2>2. \/ SweptJob[x] = job[x]
        \/ job[x] = "running" /\ SweptJob[x] \in {"pending", "needs_attention"}
    BY SweepFacts
  <2>3. /\ Recorded(x, "failed") \in Nat /\ Recorded(x, "completed") \in Nat
        /\ attempts[x] \in Nat
    BY DEF Recorded, TypeOK, AuditTypes
  <2>4. QED
    BY ONLY <2>1, <2>2, <2>3
<1>4. SegmentTracksJob'
  BY SweepFacts, SweepTypes DEF SegmentTracksJob, RowsAreConsistent, Bounds, TypeOK
<1>5. Bounds'
  BY SweepFacts, SweepTypes, SameTrail DEF Bounds, TypeOK
<1>6. OwnerHoldsCurrentTicket'
  <2> SUFFICES ASSUME NEW v \in Workers, NEW x \in Segments,
                      Working(v, x)', owner'[x] = id'[v], Alone(v)'
               PROVE  ticket'[v][2] = attempts'[x]
    BY DEF OwnerHoldsCurrentTicket
  <2>1. id' = id /\ ticket' = ticket /\ attempts' = attempts /\ id[v] # NoWorker
    BY DEF TypeOK
  <2>2. owner'[x] = owner[x]
    BY <2>1 DEF SweptOwner
  <2>3. Working(v, x) /\ owner[x] = id[v] /\ Alone(v)
    BY <2>1, <2>2, SameIds DEF Working
  <2>4. QED
    BY <2>1, <2>3 DEF OwnerHoldsCurrentTicket
<1>7. QED
  BY <1>1, <1>2, <1>3, <1>4, <1>5, <1>6

LEMMA CompleteKeeps ==
  ASSUME QInv, NEW w \in Workers, NEW s \in Segments, Complete(w, s)
  PROVE QInv'
<1> USE QueueAssumption DEF QInv, Complete, Leased, segVars, jobVars, auditVars, workerVars
<1>1. TypeOK'
  <2>1. audit' \in [Segments -> [AuditTypes -> Nat]]
    BY LoggedCounts DEF AuditTypes
  <2>2. QED
    BY <2>1
    DEF TypeOK, SegmentStates, JobStates, ErrorCodes, Tickets, MaxAhead, Bounds,
        RowsAreConsistent
<1>2. RowsAreConsistent'
  BY DEF RowsAreConsistent, TypeOK
<1>3. AuditMatchesJob'
  <2>1. \A x \in Segments, u \in AuditTypes :
          Recorded(x, u)' = IF x = s /\ u = "completed" THEN Recorded(x, u) + 1 ELSE Recorded(x, u)
    BY LoggedCounts DEF AuditTypes
  <2>2. \A x \in Segments, u \in AuditTypes : Recorded(x, u) \in Nat
    BY LoggedCounts DEF AuditTypes
  <2>3. QED
    BY <2>1, <2>2 DEF AuditMatchesJob, Bounds, RowsAreConsistent, TypeOK, AuditTypes
<1>4. SegmentTracksJob'
  BY DEF SegmentTracksJob, RowsAreConsistent, Bounds, TypeOK
<1>5. Bounds'
  <2>1. \A x \in Segments, u \in AuditTypes : x # s => Recorded(x, u)' = Recorded(x, u)
    BY LoggedCounts DEF AuditTypes
  <2>2. QED
    BY <2>1 DEF Bounds, TypeOK, RowsAreConsistent
<1>6. OwnerHoldsCurrentTicket'
  <2> SUFFICES ASSUME NEW v \in Workers, NEW x \in Segments,
                      Working(v, x)', owner'[x] = id'[v], Alone(v)'
               PROVE  ticket'[v][2] = attempts'[x]
    BY DEF OwnerHoldsCurrentTicket
  <2>1. id' = id /\ attempts' = attempts /\ id[v] # NoWorker
    BY DEF TypeOK
  <2>2. v # w /\ ticket'[v] = ticket[v]
    BY DEF Working, TypeOK
  <2>3. x # s /\ owner'[x] = owner[x]
    BY <2>1 DEF TypeOK
  <2>4. Working(v, x) /\ owner[x] = id[v] /\ Alone(v)
    BY <2>1, <2>2, <2>3, SameIds DEF Working
  <2>5. QED
    BY <2>1, <2>2, <2>4 DEF OwnerHoldsCurrentTicket
<1>7. QED
  BY <1>1, <1>2, <1>3, <1>4, <1>5, <1>6

LEMMA FailKeeps ==
  ASSUME QInv, NEW w \in Workers, NEW s \in Segments, NEW delay \in 0..MaxBackoff, Fail(w, s, delay)
  PROVE QInv'
<1> USE QueueAssumption DEF QInv, Fail, Leased, segVars, jobVars, auditVars, workerVars
<1>1. TypeOK'
  <2>1. audit' \in [Segments -> [AuditTypes -> Nat]]
    BY LoggedCounts DEF AuditTypes
  <2>2. QED
    BY <2>1
    DEF TypeOK, SegmentStates, JobStates, ErrorCodes, Tickets, MaxAhead, Bounds,
        RowsAreConsistent
<1>2. RowsAreConsistent'
  <2>1. CASE attempts[s] = MaxAttempts
    BY <2>1 DEF RowsAreConsistent, TypeOK
  <2>2. CASE attempts[s] < MaxAttempts
    BY <2>2 DEF RowsAreConsistent, TypeOK
  <2>3. attempts[s] \in 0..MaxAttempts
    BY DEF TypeOK
  <2> HIDE DEF QInv, Fail
  <2>4. QED
    BY <2>1, <2>2, <2>3
<1>3. AuditMatchesJob'
  <2>1. \A x \in Segments, u \in AuditTypes :
          Recorded(x, u)' = IF x = s /\ u = "failed" THEN Recorded(x, u) + 1 ELSE Recorded(x, u)
    BY LoggedCounts DEF AuditTypes
  <2>2. \A x \in Segments, u \in AuditTypes : Recorded(x, u) \in Nat
    BY LoggedCounts DEF AuditTypes
  <2>3. QED
    BY <2>1, <2>2 DEF AuditMatchesJob, Bounds, RowsAreConsistent, TypeOK, AuditTypes
<1>4. SegmentTracksJob'
  BY DEF SegmentTracksJob, RowsAreConsistent, Bounds, TypeOK
<1>5. Bounds'
  <2>1. \A x \in Segments, u \in AuditTypes : x # s => Recorded(x, u)' = Recorded(x, u)
    BY LoggedCounts DEF AuditTypes
  <2>2. QED
    BY <2>1 DEF Bounds, TypeOK, RowsAreConsistent
<1>6. OwnerHoldsCurrentTicket'
  <2>1. /\ attempts' = attempts /\ id' = id /\ owner' = [owner EXCEPT ![s] = NoWorker]
        /\ ticket' = [ticket EXCEPT ![w] = NoTicket]
    OBVIOUS
  <2>2. /\ owner \in [Segments -> WorkerIds \cup {NoWorker}]
        /\ id \in [Workers -> WorkerIds] /\ NoWorker \notin WorkerIds
        /\ ticket \in [Workers -> Tickets \cup {NoTicket}]
    BY DEF TypeOK
  <2>3. OwnerHoldsCurrentTicket
    OBVIOUS
  <2> HIDE DEF QInv, Fail, Leased
  <2>4. QED
    BY <2>1, <2>2, <2>3, SameIds DEF OwnerHoldsCurrentTicket, Working, Leased
<1>7. QED
  BY <1>1, <1>2, <1>3, <1>4, <1>5, <1>6

LEMMA LeaseLostKeeps ==
  ASSUME QInv, NEW w \in Workers, NEW s \in Segments, LeaseLost(w, s)
  PROVE QInv'
<1> USE QueueAssumption DEF QInv, LeaseLost, segVars, jobVars, auditVars, workerVars
<1>1. TypeOK'
  BY
  DEF TypeOK, SegmentStates, JobStates, ErrorCodes, AuditTypes, Tickets, MaxAhead, Bounds,
      AuditMatchesJob, RowsAreConsistent
<1>2. RowsAreConsistent'
  BY DEF RowsAreConsistent, TypeOK
<1>3. AuditMatchesJob'
  BY SameTrail
  DEF AuditMatchesJob, Bounds, RowsAreConsistent, TypeOK, AuditTypes
<1>4. SegmentTracksJob'
  BY DEF SegmentTracksJob, RowsAreConsistent, Bounds, TypeOK
<1>5. Bounds'
  BY SameTrail DEF Bounds, TypeOK
<1>6. OwnerHoldsCurrentTicket'
  <2> SUFFICES ASSUME NEW v \in Workers, NEW x \in Segments,
                      Working(v, x)', owner'[x] = id'[v], Alone(v)'
               PROVE  ticket'[v][2] = attempts'[x]
    BY DEF OwnerHoldsCurrentTicket
  <2>1. id' = id /\ attempts' = attempts /\ owner' = owner
    OBVIOUS
  <2>2. v # w /\ ticket'[v] = ticket[v]
    BY DEF Working, TypeOK
  <2>3. Working(v, x) /\ owner[x] = id[v] /\ Alone(v)
    BY <2>1, <2>2, SameIds DEF Working
  <2>4. QED
    BY <2>1, <2>2, <2>3 DEF OwnerHoldsCurrentTicket
<1>7. QED
  BY <1>1, <1>2, <1>3, <1>4, <1>5, <1>6

LEMMA SetPausedKeeps ==
  ASSUME QInv, NEW on \in BOOLEAN, SetPaused(on)
  PROVE QInv'
<1> USE QueueAssumption DEF QInv, SetPaused, segVars, jobVars, auditVars, workerVars
<1>1. TypeOK'
  BY
  DEF TypeOK, SegmentStates, JobStates, ErrorCodes, AuditTypes, Tickets, MaxAhead, Bounds,
      AuditMatchesJob, RowsAreConsistent
<1>2. RowsAreConsistent'
  BY DEF RowsAreConsistent, TypeOK
<1>3. AuditMatchesJob'
  BY SameTrail
  DEF AuditMatchesJob, Bounds, RowsAreConsistent, TypeOK, AuditTypes
<1>4. SegmentTracksJob'
  BY DEF SegmentTracksJob, RowsAreConsistent, Bounds, TypeOK
<1>5. Bounds'
  BY SameTrail DEF Bounds, TypeOK
<1>6. OwnerHoldsCurrentTicket'
  BY SameIds DEF OwnerHoldsCurrentTicket, RowsAreConsistent, Working, TypeOK
<1>7. QED
  BY <1>1, <1>2, <1>3, <1>4, <1>5, <1>6

\* Retention moves events from one account to the other.
LEMMA ApplyRetentionKeeps ==
  ASSUME QInv, ApplyRetention
  PROVE QInv'
<1> USE QueueAssumption DEF QInv, ApplyRetention, segVars, jobVars, workerVars
<1>0. \A x \in Segments, u \in AuditTypes : Recorded(x, u) \in Nat
  BY DEF Recorded, TypeOK
<1>1. audit' \in [Segments -> [AuditTypes -> Nat]] /\ expired' \in [Segments -> [AuditTypes -> Nat]]
  BY <1>0 DEF NoEvents
<1>2. \A x \in Segments, u \in AuditTypes : Recorded(x, u)' = Recorded(x, u)
  <2>1. ASSUME NEW x \in Segments, NEW u \in AuditTypes PROVE Recorded(x, u)' = Recorded(x, u)
    <3>1. audit'[x][u] = 0 /\ expired'[x][u] = Recorded(x, u)
      BY DEF NoEvents
    <3>2. QED
      BY <1>0, <3>1 DEF Recorded
  <2>2. QED
    BY <2>1
<1>3. TypeOK'
  BY <1>1 DEF TypeOK
<1>4. RowsAreConsistent'
  BY DEF RowsAreConsistent
<1>5. AuditMatchesJob'
  BY <1>2 DEF AuditMatchesJob, AuditTypes
<1>6. SegmentTracksJob'
  BY DEF SegmentTracksJob
<1>7. Bounds'
  BY <1>2 DEF Bounds
<1>8. OwnerHoldsCurrentTicket'
  BY DEF OwnerHoldsCurrentTicket, Alone, Working
<1>9. QED
  BY <1>3, <1>4, <1>5, <1>6, <1>7, <1>8

LEMMA CrashKeeps ==
  ASSUME QInv, NEW w \in Workers, Crash(w)
  PROVE QInv'
<1> USE QueueAssumption DEF QInv, Crash, segVars, jobVars, auditVars, workerVars
<1>1. TypeOK'
  BY
  DEF TypeOK, SegmentStates, JobStates, ErrorCodes, AuditTypes, Tickets, MaxAhead, Bounds,
      AuditMatchesJob, RowsAreConsistent
<1>2. RowsAreConsistent'
  BY DEF RowsAreConsistent, TypeOK
<1>3. AuditMatchesJob'
  BY SameTrail
  DEF AuditMatchesJob, Bounds, RowsAreConsistent, TypeOK, AuditTypes
<1>4. SegmentTracksJob'
  BY DEF SegmentTracksJob, RowsAreConsistent, Bounds, TypeOK
<1>5. Bounds'
  BY SameTrail DEF Bounds, TypeOK
<1>6. OwnerHoldsCurrentTicket'
  BY SameIds DEF OwnerHoldsCurrentTicket, RowsAreConsistent, Working, TypeOK
<1>7. QED
  BY <1>1, <1>2, <1>3, <1>4, <1>5, <1>6

LEMMA TickKeeps ==
  ASSUME QInv, Tick
  PROVE QInv'
<1> USE QueueAssumption DEF QInv, Tick, Later, segVars, jobVars, auditVars, workerVars
<1>1. TypeOK'
  BY
  DEF TypeOK, SegmentStates, JobStates, ErrorCodes, AuditTypes, Tickets, MaxAhead, Bounds,
      AuditMatchesJob, RowsAreConsistent
<1>2. RowsAreConsistent'
  BY DEF RowsAreConsistent, TypeOK
<1>3. AuditMatchesJob'
  BY SameTrail
  DEF AuditMatchesJob, Bounds, RowsAreConsistent, TypeOK, AuditTypes
<1>4. SegmentTracksJob'
  BY DEF SegmentTracksJob, RowsAreConsistent, Bounds, TypeOK
<1>5. Bounds'
  BY SameTrail DEF Bounds, TypeOK
<1>6. OwnerHoldsCurrentTicket'
  BY SameIds DEF OwnerHoldsCurrentTicket, RowsAreConsistent, Working, TypeOK
<1>7. QED
  BY <1>1, <1>2, <1>3, <1>4, <1>5, <1>6

LEMMA SetClockBackKeeps ==
  ASSUME QInv, SetClockBack
  PROVE QInv'
<1> USE QueueAssumption DEF QInv, SetClockBack, segVars, jobVars, auditVars, workerVars
<1>1. TypeOK'
  BY
  DEF TypeOK, SegmentStates, JobStates, ErrorCodes, AuditTypes, Tickets, MaxAhead, Bounds,
      AuditMatchesJob, RowsAreConsistent
<1>2. RowsAreConsistent'
  BY DEF RowsAreConsistent, TypeOK
<1>3. AuditMatchesJob'
  BY SameTrail
  DEF AuditMatchesJob, Bounds, RowsAreConsistent, TypeOK, AuditTypes
<1>4. SegmentTracksJob'
  BY DEF SegmentTracksJob, RowsAreConsistent, Bounds, TypeOK
<1>5. Bounds'
  BY SameTrail DEF Bounds, TypeOK
<1>6. OwnerHoldsCurrentTicket'
  BY SameIds DEF OwnerHoldsCurrentTicket, RowsAreConsistent, Working, TypeOK
<1>7. QED
  BY <1>1, <1>2, <1>3, <1>4, <1>5, <1>6

LEMMA StutterKeeps == ASSUME QInv, UNCHANGED vars PROVE QInv'
BY DEF QInv, vars, segVars, jobVars, auditVars, workerVars, TypeOK, RowsAreConsistent,
       AuditMatchesJob, Recorded, SegmentTracksJob, Bounds, OwnerHoldsCurrentTicket, Alone,
       Working

LEMMA NextKeeps == QInv /\ [Next]_vars => QInv'
<1> SUFFICES ASSUME QInv, [Next]_vars PROVE QInv'
  OBVIOUS
<1>1. ASSUME NEW s \in Segments, InsertSegment(s) \/ Enqueue(s) \/ DeleteSegment(s)
      PROVE  QInv'
  BY <1>1, InsertSegmentKeeps, EnqueueKeeps, DeleteSegmentKeeps
<1>2. ASSUME NEW w \in Workers, Poll(w) PROVE QInv'
  BY <1>2, ClaimKeeps, ClaimNothingKeeps DEF Poll
<1>3. ASSUME NEW w \in Workers, Finish(w) PROVE QInv'
  BY <1>3, CompleteKeeps, FailKeeps, LeaseLostKeeps DEF Finish
<1>4. ASSUME NEW w \in Workers, Crash(w) PROVE QInv'
  BY <1>4, CrashKeeps
<1>5. ASSUME NEW on \in BOOLEAN, SetPaused(on) PROVE QInv'
  BY <1>5, SetPausedKeeps
<1>6. CASE Tick
  BY <1>6, TickKeeps
<1>7. CASE SetClockBack \/ ApplyRetention
  BY <1>7, SetClockBackKeeps, ApplyRetentionKeeps
<1>8. CASE UNCHANGED vars
  BY <1>8, StutterKeeps
<1>9. QED
  BY <1>1, <1>2, <1>3, <1>4, <1>5, <1>6, <1>7, <1>8 DEF Next

\* The inductive invariant holds throughout, with leases that run out, workers that share
\* an id, and a retention that deletes events: what AuditMatchesJob counts are the events
\* recorded, those deleted since included.
THEOREM QueueInvariant == Spec => []QInv
BY InitQInv, NextKeeps, PTL DEF Spec

\* Every variable keeps its type, whatever the sizes and bounds.
THEOREM QueueTypeCorrect == Spec => []TypeOK
<1>1. QInv => TypeOK
  BY DEF QInv
<1>2. QED
  BY <1>1, QueueInvariant, PTL

\* The rows satisfy the CHECK constraints of the migration, the events recorded, in the
\* table or deleted from it by apply_retention, match the job, and activity_segments never
\* claims more than the job.
THEOREM QueueTablesAgree == Spec => []TablesAgree
<1>1. QInv => TablesAgree
  BY DEF QInv, TablesAgree
<1>2. QED
  BY <1>1, QueueInvariant, PTL

\* An answer that is accepted was computed for the attempt the row records, unless another
\* worker goes by the same id.
THEOREM AnswersAreCurrent == Spec => []AnswerIsForCurrentAttempt
<1>1. QInv => AnswerIsForCurrentAttempt
  BY DEF QInv, OwnerHoldsCurrentTicket, Alone, AnswerIsForCurrentAttempt, Leased
<1>2. QED
  BY <1>1, QueueInvariant, PTL

\* A live lease is neither stolen nor started over.
THEOREM LiveLeases == Spec => LiveLeaseIsKept
<1> DEFINE Kept == \A s \in Segments :
       (job[s] = "running" /\ lease[s] > 0 /\ job'[s] = "running")
         => owner'[s] = owner[s] /\ attempts'[s] = attempts[s]
<1>1. QInv /\ [Next]_vars => [Kept]_vars
  <2> SUFFICES ASSUME QInv, Next,
                      NEW x \in Segments, job[x] = "running", lease[x] > 0,
                      job'[x] = "running"
               PROVE  owner'[x] = owner[x] /\ attempts'[x] = attempts[x]
    OBVIOUS
  <2> USE DEF TypeOK, QInv, jobVars, segVars
  <2>0. ~Expired(x) /\ lease[x] \in Int /\ x \notin Claimable
    BY SweepFacts DEF Expired, Exhausted, Claimable, MaxAhead
  <2>1. ASSUME NEW s \in Segments, InsertSegment(s) \/ Enqueue(s) \/ DeleteSegment(s)
        PROVE  owner'[x] = owner[x] /\ attempts'[x] = attempts[x]
    BY <2>1 DEF InsertSegment, Enqueue, DeleteSegment
  <2>2. ASSUME NEW w \in Workers, Poll(w)
        PROVE  owner'[x] = owner[x] /\ attempts'[x] = attempts[x]
    BY <2>0, <2>2, SweepFacts, SweepTypes DEF Poll, Claim, ClaimNothing, Exhausted
  <2>3. ASSUME NEW w \in Workers, Finish(w)
        PROVE  owner'[x] = owner[x] /\ attempts'[x] = attempts[x]
    BY <2>3 DEF Finish, Complete, Fail, LeaseLost
  <2>4. CASE \E w \in Workers : Crash(w)
    BY <2>4 DEF Crash
  <2>5. CASE (\E on \in BOOLEAN : SetPaused(on)) \/ ApplyRetention \/ Tick \/ SetClockBack
    BY <2>5 DEF SetPaused, ApplyRetention, Tick, SetClockBack
  <2>6. QED
    BY <2>1, <2>2, <2>3, <2>4, <2>5 DEF Next
<1>2. QED
  BY <1>1, QueueInvariant, PTL DEF Spec, LiveLeaseIsKept

-----------------------------------------------------------------------------
(* The queue implements ExtractionJobs *)

\* A step that changes one job at most is a step of the jobs when that job
\* takes a step.
LEMMA OneJobSteps ==
  ASSUME QInv, QInv', NEW s \in Segments, Jobs!Step(s),
         \A x \in Segments \ {s} : rows'[x] = rows[x] /\ job'[x] = job[x]
                                    /\ attempts'[x] = attempts[x]
  PROVE  Jobs!Next
<1>1. \A x \in Segments : Jobs!Step(x)
  BY DEF Jobs!Step, Jobs!Stay, Jobs!Becomes
<1>2. QED
  BY <1>1 DEF Jobs!Next, QInv, TypeOK, JobStates, SegmentStates

LEMMA QueueStepIsJobStep == QInv /\ QInv' /\ [Next]_vars => [Jobs!Next]_(Jobs!vars)
<1> SUFFICES ASSUME QInv, QInv', [Next]_vars PROVE [Jobs!Next]_(Jobs!vars)
  OBVIOUS
<1> USE DEF segVars, jobVars
<1> DEFINE Sames == UNCHANGED <<rows, job, attempts>>
<1>0. Sames => [Jobs!Next]_(Jobs!vars)
  BY DEF Jobs!vars
<1>1. ASSUME NEW s \in Segments, InsertSegment(s) PROVE Jobs!Next
  <2>1. Jobs!Stay(s)
    BY <1>1 DEF InsertSegment, Jobs!Stay, Jobs!Becomes, QInv, TypeOK
  <2>2. QED
    BY <1>1, <2>1, OneJobSteps DEF InsertSegment, Jobs!Step, QInv, TypeOK
<1>2. ASSUME NEW s \in Segments, Enqueue(s) PROVE Jobs!Next
  <2>1. Jobs!Queue(s)
    BY <1>2 DEF Enqueue, Jobs!Queue, Jobs!Becomes, QInv, TypeOK, RowsAreConsistent
  <2>2. QED
    BY <1>2, <2>1, OneJobSteps DEF Enqueue, Jobs!Step, QInv, TypeOK
<1>3. ASSUME NEW s \in Segments, DeleteSegment(s) PROVE Jobs!Next
  <2>1. Jobs!Delete(s)
    BY <1>3 DEF DeleteSegment, Jobs!Delete, Jobs!Becomes, QInv, TypeOK
  <2>2. QED
    BY <1>3, <2>1, OneJobSteps DEF DeleteSegment, Jobs!Step, QInv, TypeOK
<1>4. ASSUME NEW w \in Workers, NEW s \in Segments, Complete(w, s) PROVE Jobs!Next
  <2>1. Jobs!Succeed(s)
    BY <1>4 DEF Complete, Leased, Jobs!Succeed, Jobs!Becomes, QInv, TypeOK,
                RowsAreConsistent
  <2>2. QED
    BY <1>4, <2>1, OneJobSteps DEF Complete, Jobs!Step, QInv, TypeOK
<1>5. ASSUME NEW w \in Workers, NEW s \in Segments, NEW delay \in 0..MaxBackoff,
             Fail(w, s, delay)
      PROVE  Jobs!Next
  <2>0. attempts[s] \in 0..MaxAttempts /\ job[s] = "running" /\ rows[s] = "present"
    BY <1>5 DEF Fail, Leased, QInv, TypeOK, RowsAreConsistent
  <2>1. Jobs!GiveUp(s) \/ Jobs!Retry(s)
    <3>1. rows' = rows /\ attempts' = attempts
      BY <1>5 DEF Fail
    <3>2. CASE attempts[s] = MaxAttempts
      <4>1. job'[s] = "needs_attention"
        BY <1>5, <2>0, <3>2, QueueAssumption DEF Fail, QInv, TypeOK
      <4>2. QED
        BY <2>0, <3>1, <3>2, <4>1 DEF Jobs!GiveUp, Jobs!Becomes
    <3>3. CASE attempts[s] < MaxAttempts
      <4>1. job'[s] = "pending"
        BY <1>5, <2>0, <3>3, QueueAssumption DEF Fail, QInv, TypeOK
      <4>2. QED
        BY <2>0, <3>1, <3>3, <4>1 DEF Jobs!Retry, Jobs!Becomes
    <3>4. QED
      BY <2>0, <3>2, <3>3, QueueAssumption
  <2>2. QED
    BY <1>5, <2>1, OneJobSteps DEF Fail, Jobs!Step, QInv, TypeOK
<1>6. ASSUME NEW w \in Workers, Poll(w) PROVE Jobs!Next
  <2>1. \A x \in Segments : rows'[x] = rows[x]
    BY <1>6 DEF Poll, Claim, ClaimNothing
  <2>2. ASSUME NEW x \in Segments, job'[x] = SweptJob[x], attempts'[x] = attempts[x]
        PROVE  Jobs!Step(x)
    <3>1. CASE Exhausted(x)
      <4>1. Jobs!GiveUp(x)
        BY <2>1, <2>2, <3>1, SweepFacts
           DEF Jobs!GiveUp, Jobs!Becomes, QInv, RowsAreConsistent, TypeOK
      <4>2. QED
        BY <4>1 DEF Jobs!Step
    <3>2. CASE Expired(x) /\ ~Exhausted(x)
      <4>1. Jobs!Retry(x)
        BY <2>1, <2>2, <3>2, SweepFacts
           DEF Jobs!Retry, Jobs!Becomes, QInv, RowsAreConsistent, TypeOK
      <4>2. QED
        BY <4>1 DEF Jobs!Step
    <3>3. CASE ~Expired(x)
      <4>1. Jobs!Stay(x)
        BY <2>1, <2>2, <3>3, SweepFacts DEF Jobs!Stay, Jobs!Becomes, Exhausted
      <4>2. QED
        BY <4>1 DEF Jobs!Step
    <3>4. QED
      BY <3>1, <3>2, <3>3
  <2>3. ASSUME NEW s \in Segments, NEW length \in 1..MaxLease,
         Claim(w, s, length)
        PROVE  \A x \in Segments : Jobs!Step(x)
    <3>1. \A x \in Segments \ {s} : job'[x] = SweptJob[x] /\ attempts'[x] = attempts[x]
      BY <2>3, SweepTypes DEF Claim, QInv, TypeOK
    <3>2. attempts[s] < MaxAttempts /\ job[s] \in {"pending", "running"}
          /\ rows[s] = "present"
      BY <2>3, SweepFacts
         DEF Claim, Claimable, QInv, RowsAreConsistent, TypeOK, JobStates, SegmentStates
    <3>3. Jobs!Run(s)
      BY <2>1, <2>3, <3>2, SweepTypes DEF Claim, Jobs!Run, Jobs!Becomes, QInv, TypeOK
    <3>4. QED
      BY <2>2, <3>1, <3>3 DEF Jobs!Step
  <2>4. CASE ClaimNothing(w)
    <3>1. \A x \in Segments : job'[x] = SweptJob[x] /\ attempts'[x] = attempts[x]
      BY <2>4 DEF ClaimNothing
    <3>2. \A x \in Segments : Jobs!Step(x)
      BY <2>2, <3>1
    <3>3. QED
      BY <3>2 DEF Jobs!Next, QInv, TypeOK, JobStates, SegmentStates
  <2>5. QED
    BY <1>6, <2>3, <2>4 DEF Poll, Jobs!Next, QInv, TypeOK, JobStates, SegmentStates
<1>7. ASSUME NEW w \in Workers, NEW s \in Segments, LeaseLost(w, s) PROVE Sames
  BY <1>7 DEF LeaseLost
<1>8. ASSUME NEW w \in Workers, Crash(w) PROVE Sames
  BY <1>8 DEF Crash
<1>9. CASE \/ \E on \in BOOLEAN : SetPaused(on)
           \/ ApplyRetention \/ Tick \/ SetClockBack \/ UNCHANGED vars
  BY <1>0, <1>9 DEF SetPaused, ApplyRetention, Tick, SetClockBack, vars
<1>10. QED
  BY <1>0, <1>1, <1>2, <1>3, <1>4, <1>5, <1>6, <1>7, <1>8, <1>9 DEF Next, Finish

\* The queue implements the job life cycle: each job is queued once, runs at
\* most MaxAttempts times, and stays completed or needs_attention for good.
THEOREM QueueImplementsJobs == Spec => ImplementsJobs
<1>1. Init => Jobs!Init
  BY DEF Init, Jobs!Init
<1>2. QED
  BY <1>1, QueueStepIsJobStep, QueueInvariant, PTL DEF Spec, ImplementsJobs, Jobs!Spec

=============================================================================
