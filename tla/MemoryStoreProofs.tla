-------------------------- MODULE MemoryStoreProofs --------------------------
(***************************************************************************)
(* Proofs about MemoryStore for any sets of memories, events, keys and     *)
(* clients.  MInv is the inductive invariant.  It adds to the checked      *)
(* invariants what the code relies on without saying so: a row exists      *)
(* exactly while it has a revision, a key with no outcome names no memory, *)
(* the memory between the two statements of upsert_embedding was active    *)
(* once, and a client never read a revision that was not yet there.        *)
(***************************************************************************)
EXTENDS MemoryStore, FiniteSetTheorems, TLAPS

RowsHaveRevisions == \A m \in Memories : Present(m) <=> revision[m] > 0

KeysAgree ==
  \A k \in Keys :
    /\ reconciled[k].outcome = "none" => reconciled[k].memory = NoMemory
    /\ \A m \in created[k] :
         status[m] # "absent" /\ (Present(m) => reconciled[k].memory = m)
    /\ \A m \in Memories : reconciled[k].memory = m =>
         Present(m) /\ (m \in created[k] \/ reconciled[k].outcome = "duplicate")

InFlight ==
  \A m \in Memories : embedding = m =>
    status[m] \notin {"absent", "pending_review"} /\ (status[m] = "active" => embedded[m])

ViewsArePast ==
  \A c \in Clients, m \in Memories : Looks(c, m) =>
    status[m] # "absent" /\ (Present(m) => view[c].revision <= revision[m])

MInv ==
  /\ TypeOK
  /\ SearchFindsActive
  /\ RowsHaveRevisions
  /\ EmbeddingsFollowMemories
  /\ InFlight
  /\ EvidenceIsKept
  /\ KeysAgree
  /\ ViewsArePast
  /\ DeletionIsComplete

\* A refreshed job list is a job list.
LEMMA RefreshedType ==
  ASSUME work \in [Memories -> [Projections -> 0..MaxRevision]],
         NEW m \in Memories, NEW r \in 0..MaxRevision
  PROVE  Refreshed(m, r) \in [Memories -> [Projections -> 0..MaxRevision]]
BY MemoryAssumption DEF Refreshed, Max2

LEMMA InitMInv == Init => MInv
<1> SUFFICES ASSUME Init PROVE MInv
  OBVIOUS
<1> USE MemoryAssumption DEF Init, Looks, Present, Statuses
<1>1. TypeOK
  BY DEF TypeOK, Projections, Outcomes, ManualRank
<1>2. SearchFindsActive /\ RowsHaveRevisions /\ EmbeddingsFollowMemories /\ InFlight
  BY DEF SearchFindsActive, RowsHaveRevisions, EmbeddingsFollowMemories, InFlight
<1>3. EvidenceIsKept /\ KeysAgree /\ ViewsArePast /\ DeletionIsComplete
  BY DEF EvidenceIsKept, KeysAgree, ViewsArePast, DeletionIsComplete
<1>4. QED
  BY <1>1, <1>2, <1>3 DEF MInv

\* What clients read stays in the past where no row that was there is taken back.
LEMMA ViewsStay ==
  ASSUME ViewsArePast, view' = view,
         \A m \in Memories : status[m] # "absent" =>
           status'[m] = status[m] /\ revision'[m] = revision[m]
  PROVE  ViewsArePast'
BY DEF ViewsArePast, Looks, Present

LEMMA InsertSourceKeeps ==
  ASSUME MInv, NEW e \in Evidence, InsertSource(e)
  PROVE  MInv'
<1> USE MemoryAssumption
    DEF MInv, InsertSource, Present, Looks, Statuses, rowVars, projectionVars, planVars
<1>1. TypeOK'
  BY DEF TypeOK, Projections, Refreshed, Max2, Outcomes, Views, ManualRank
<1>2. SearchFindsActive' /\ RowsHaveRevisions'
  BY DEF TypeOK, SearchFindsActive, RowsHaveRevisions
<1>3. EmbeddingsFollowMemories' /\ InFlight'
  BY DEF TypeOK, EmbeddingsFollowMemories, InFlight, Refreshed, Max2, Projections
<1>4. EvidenceIsKept'
  BY DEF TypeOK, EvidenceIsKept, ManualRank
<1>5. KeysAgree'
  BY DEF TypeOK, KeysAgree
<1>6. ViewsArePast'
  BY ViewsStay
<1>7. DeletionIsComplete'
  BY DEF TypeOK, DeletionIsComplete, ViewsArePast, RowsHaveRevisions, Views
<1>8. QED
  BY <1>1, <1>2, <1>3, <1>4, <1>5, <1>6, <1>7

LEMMA AliasFromSourceKeeps ==
  ASSUME MInv, NEW e \in Evidence, AliasFromSource(e)
  PROVE  MInv'
<1> USE MemoryAssumption
    DEF MInv, AliasFromSource, Present, Looks, Statuses, rowVars, projectionVars, planVars
<1>1. TypeOK'
  BY DEF TypeOK, Projections, Refreshed, Max2, Outcomes, Views, ManualRank
<1>2. SearchFindsActive' /\ RowsHaveRevisions'
  BY DEF TypeOK, SearchFindsActive, RowsHaveRevisions
<1>3. EmbeddingsFollowMemories' /\ InFlight'
  BY DEF TypeOK, EmbeddingsFollowMemories, InFlight, Refreshed, Max2, Projections
<1>4. EvidenceIsKept'
  BY DEF TypeOK, EvidenceIsKept, ManualRank
<1>5. KeysAgree'
  BY DEF TypeOK, KeysAgree
<1>6. ViewsArePast'
  BY DEF TypeOK, ViewsArePast, RowsHaveRevisions, Views
<1>7. DeletionIsComplete'
  BY DEF TypeOK, DeletionIsComplete, ViewsArePast, RowsHaveRevisions, Views
<1>8. QED
  BY <1>1, <1>2, <1>3, <1>4, <1>5, <1>6, <1>7

LEMMA PlanNewKeeps ==
  ASSUME MInv, NEW k \in Keys, NEW n \in Memories, NEW st \in {"active", "pending_review"},
         NEW rank \in CandidateRanks, NEW es \in SUBSET Evidence, PlanNew(k, n, st, rank, es)
  PROVE  MInv'
<1> USE MemoryAssumption DEF MInv, PlanNew, Insert, Supported, Reconcile, Looks, Present, Statuses
<1>1. TypeOK'
  BY DEF TypeOK, Projections, Refreshed, Max2, Outcomes, Views, ManualRank
<1>2. SearchFindsActive' /\ RowsHaveRevisions'
  <2>1. \A x \in Memories : x # n => status'[x] = status[x] /\ indexed'[x] = indexed[x]
                                      /\ revision'[x] = revision[x]
    BY DEF TypeOK
  <2>2. status'[n] = st /\ (indexed'[n] <=> st = "active") /\ revision'[n] = 1
    BY DEF TypeOK
  <2>3. QED
    BY <2>1, <2>2 DEF SearchFindsActive, RowsHaveRevisions
<1>3. EmbeddingsFollowMemories' /\ InFlight'
  BY DEF TypeOK, EmbeddingsFollowMemories, InFlight, Refreshed, Max2, Projections
<1>4. EvidenceIsKept'
  BY DEF TypeOK, EvidenceIsKept, ManualRank
<1>5. KeysAgree'
  BY DEF TypeOK, KeysAgree
<1>6. ViewsArePast'
  <2>1. \A x \in Memories : x # n => status'[x] = status[x] /\ revision'[x] = revision[x]
    BY DEF TypeOK
  <2>2. status[n] = "absent" /\ view' = view
    OBVIOUS
  <2>3. QED
    BY <2>1, <2>2, ViewsStay
<1>7. DeletionIsComplete'
  BY DEF TypeOK, DeletionIsComplete, ViewsArePast, RowsHaveRevisions, Views
<1>8. QED
  BY <1>1, <1>2, <1>3, <1>4, <1>5, <1>6, <1>7

LEMMA PlanDuplicateKeeps ==
  ASSUME MInv, NEW k \in Keys, NEW m \in Memories, NEW es \in SUBSET Evidence,
         PlanDuplicate(k, m, es)
  PROVE  MInv'
<1> USE MemoryAssumption DEF MInv, PlanDuplicate, Reconcile, Looks, Present, Statuses
<1>1. TypeOK'
  BY DEF TypeOK, Projections, Refreshed, Max2, Outcomes, Views, ManualRank
<1>2. SearchFindsActive' /\ RowsHaveRevisions'
  BY DEF TypeOK, SearchFindsActive, RowsHaveRevisions
<1>3. EmbeddingsFollowMemories' /\ InFlight'
  BY DEF TypeOK, EmbeddingsFollowMemories, InFlight, Refreshed, Max2, Projections
<1>4. EvidenceIsKept'
  BY DEF TypeOK, EvidenceIsKept, ManualRank
<1>5. KeysAgree'
  BY DEF TypeOK, KeysAgree
<1>6. ViewsArePast'
  <2>1. revision'[m] = revision[m] + 1 /\ revision[m] \in Nat
        /\ \A x \in Memories : x # m => revision'[x] = revision[x] /\ status'[x] = status[x]
    BY DEF TypeOK
  <2>2. \A d \in Clients, x \in Memories : Looks(d, x)' => Looks(d, x) /\ view'[d] = view[d]
    BY DEF TypeOK
  <2>3. \A d \in Clients : view[d] # NoView => view[d].revision \in Nat
    BY DEF TypeOK, Views
  <2>4. status[m] \in {"active", "pending_review"} /\ status'[m] # "absent"
    BY DEF TypeOK
  <2> SUFFICES ASSUME NEW d \in Clients, NEW x \in Memories, Looks(d, x)'
               PROVE  status'[x] # "absent" /\ (Present(x)' => view'[d].revision <= revision'[x])
    BY DEF ViewsArePast
  <2>5. CASE x = m
    BY <2>1, <2>2, <2>3, <2>4, <2>5 DEF ViewsArePast
  <2>6. CASE x # m
    BY <2>1, <2>2, <2>6 DEF ViewsArePast
  <2>7. QED
    BY <2>5, <2>6
<1>7. DeletionIsComplete'
  BY DEF TypeOK, DeletionIsComplete, ViewsArePast, RowsHaveRevisions, Views
<1>8. QED
  BY <1>1, <1>2, <1>3, <1>4, <1>5, <1>6, <1>7

LEMMA PlanUpdateKeeps ==
  ASSUME MInv, NEW k \in Keys, NEW old \in Memories, NEW n \in Memories,
         NEW rank \in CandidateRanks, NEW es \in SUBSET Evidence, PlanUpdate(k, old, n, rank, es)
  PROVE  MInv'
<1> USE MemoryAssumption
    DEF MInv, PlanUpdate, Insert, Supported, Reconcile, Looks, Present, Statuses
<1>1. TypeOK'
  <2>1. revision[old] + 1 \in 0..MaxRevision /\ rank \in 0..ManualRank /\ es \subseteq Evidence
    BY DEF TypeOK, ManualRank
  <2>2. work' \in [Memories -> [Projections -> 0..MaxRevision]]
    BY <2>1, RefreshedType DEF TypeOK
  <2>3. reconciled' \in [Keys -> [outcome : Outcomes \cup {"none"},
                                  memory : Memories \cup {NoMemory}]]
    BY DEF TypeOK, Outcomes
  <2>4. relations' \subseteq Memories \X {"updates", "extends"} \X Memories
    BY DEF TypeOK
  <2>5. created' \in [Keys -> SUBSET Memories] /\ sources' \in [Memories -> SUBSET Evidence]
    BY <2>1 DEF TypeOK
  <2>6. QED
    BY <2>1, <2>2, <2>3, <2>4, <2>5 DEF TypeOK
<1>2. SearchFindsActive' /\ RowsHaveRevisions'
  BY DEF TypeOK, SearchFindsActive, RowsHaveRevisions
<1>3. EmbeddingsFollowMemories' /\ InFlight'
  BY DEF TypeOK, EmbeddingsFollowMemories, InFlight, Refreshed, Max2, Projections
<1>4. EvidenceIsKept'
  BY DEF TypeOK, EvidenceIsKept, ManualRank
<1>5. KeysAgree'
  BY DEF TypeOK, KeysAgree
<1>6. ViewsArePast'
  BY DEF TypeOK, ViewsArePast, RowsHaveRevisions, Views
<1>7. DeletionIsComplete'
  BY DEF TypeOK, DeletionIsComplete, ViewsArePast, RowsHaveRevisions, Views
<1>8. QED
  BY <1>1, <1>2, <1>3, <1>4, <1>5, <1>6, <1>7

LEMMA PlanExtendKeeps ==
  ASSUME MInv, NEW k \in Keys, NEW m \in Memories, NEW n \in Memories,
         NEW st \in {"active", "pending_review"}, NEW rank \in CandidateRanks, 
         NEW es \in SUBSET Evidence, PlanExtend(k, m, n, st, rank, es)
  PROVE  MInv'
<1> USE MemoryAssumption
    DEF MInv, PlanExtend, Insert, Supported, Reconcile, Looks, Present, Statuses
<1>1. TypeOK'
  BY DEF TypeOK, Projections, Refreshed, Max2, Outcomes, Views, ManualRank
<1>2. SearchFindsActive' /\ RowsHaveRevisions'
  BY DEF TypeOK, SearchFindsActive, RowsHaveRevisions
<1>3. EmbeddingsFollowMemories' /\ InFlight'
  BY DEF TypeOK, EmbeddingsFollowMemories, InFlight, Refreshed, Max2, Projections
<1>4. EvidenceIsKept'
  BY DEF TypeOK, EvidenceIsKept, ManualRank
<1>5. KeysAgree'
  BY DEF TypeOK, KeysAgree
<1>6. ViewsArePast'
  BY DEF TypeOK, ViewsArePast, RowsHaveRevisions, Views
<1>7. DeletionIsComplete'
  BY DEF TypeOK, DeletionIsComplete, ViewsArePast, RowsHaveRevisions, Views
<1>8. QED
  BY <1>1, <1>2, <1>3, <1>4, <1>5, <1>6, <1>7

LEMMA PlanIgnoreKeeps ==
  ASSUME MInv, NEW k \in Keys, PlanIgnore(k)
  PROVE  MInv'
<1> USE MemoryAssumption
    DEF MInv, PlanIgnore, Reconcile, Looks, Present, Statuses, rowVars, projectionVars,
        evidenceVars
<1>1. TypeOK'
  BY DEF TypeOK, Projections, Refreshed, Max2, Outcomes, Views, ManualRank
<1>2. SearchFindsActive' /\ RowsHaveRevisions'
  BY DEF TypeOK, SearchFindsActive, RowsHaveRevisions
<1>3. EmbeddingsFollowMemories' /\ InFlight'
  BY DEF TypeOK, EmbeddingsFollowMemories, InFlight, Refreshed, Max2, Projections
<1>4. EvidenceIsKept'
  BY DEF TypeOK, EvidenceIsKept, ManualRank
<1>5. KeysAgree'
  BY DEF TypeOK, KeysAgree
<1>6. ViewsArePast'
  BY ViewsStay
<1>7. DeletionIsComplete'
  BY DEF TypeOK, DeletionIsComplete, ViewsArePast, RowsHaveRevisions, Views
<1>8. QED
  BY <1>1, <1>2, <1>3, <1>4, <1>5, <1>6, <1>7

LEMMA ApplyRetentionKeeps ==
  ASSUME MInv, NEW gone \in SUBSET Keys, ApplyRetention(gone)
  PROVE  MInv'
<1> USE MemoryAssumption
    DEF MInv, ApplyRetention, Looks, Present, Statuses, rowVars, projectionVars, evidenceVars
<1>1. TypeOK'
  BY DEF TypeOK, Projections, Refreshed, Max2, Outcomes, Views, ManualRank
<1>2. SearchFindsActive' /\ RowsHaveRevisions'
  BY DEF TypeOK, SearchFindsActive, RowsHaveRevisions
<1>3. EmbeddingsFollowMemories' /\ InFlight'
  BY DEF TypeOK, EmbeddingsFollowMemories, InFlight, Refreshed, Max2, Projections
<1>4. EvidenceIsKept'
  BY DEF TypeOK, EvidenceIsKept, ManualRank
<1>5. KeysAgree'
  <2>1. \A k \in gone : reconciled[k].memory = NoMemory
    BY DEF Forgettable
  <2>2. \A k \in Keys : reconciled'[k].memory = reconciled[k].memory
    BY <2>1 DEF TypeOK
  <2>3. \A k \in Keys : k \notin gone => reconciled'[k] = reconciled[k]
    BY DEF TypeOK
  <2>4. \A k \in Keys : k \in gone => reconciled'[k].memory = NoMemory
    BY <2>1, <2>2
  <2>5. QED
    BY <2>2, <2>3, <2>4 DEF KeysAgree
<1>6. ViewsArePast'
  BY DEF TypeOK, ViewsArePast, RowsHaveRevisions, Views
<1>7. DeletionIsComplete'
  BY DEF TypeOK, DeletionIsComplete, ViewsArePast, RowsHaveRevisions, Views
<1>8. QED
  BY <1>1, <1>2, <1>3, <1>4, <1>5, <1>6, <1>7

LEMMA LookKeeps ==
  ASSUME MInv, NEW c \in Clients, NEW m \in Memories, Look(c, m)
  PROVE  MInv'
<1> USE MemoryAssumption
    DEF MInv, Look, Looks, Present, Statuses, rowVars, projectionVars, evidenceVars, planVars
<1>1. TypeOK'
  <2>1. [memory |-> m, revision |-> revision[m], status |-> status[m]] \in Views
    BY DEF TypeOK, Views, RowsHaveRevisions
  <2>2. view' \in [Clients -> Views \cup {NoView}]
    BY <2>1 DEF TypeOK
  <2>3. QED
    BY <2>2 DEF TypeOK
<1>2. SearchFindsActive' /\ RowsHaveRevisions'
  BY DEF TypeOK, SearchFindsActive, RowsHaveRevisions
<1>3. EmbeddingsFollowMemories' /\ InFlight'
  BY DEF TypeOK, EmbeddingsFollowMemories, InFlight, Refreshed, Max2, Projections
<1>4. EvidenceIsKept'
  BY DEF TypeOK, EvidenceIsKept, ManualRank
<1>5. KeysAgree'
  BY DEF TypeOK, KeysAgree
<1>6. ViewsArePast'
  BY DEF TypeOK, ViewsArePast, RowsHaveRevisions, Views
<1>7. DeletionIsComplete'
  BY DEF TypeOK, DeletionIsComplete, ViewsArePast, RowsHaveRevisions, Views
<1>8. QED
  BY <1>1, <1>2, <1>3, <1>4, <1>5, <1>6, <1>7

LEMMA RefusedKeeps ==
  ASSUME MInv, NEW c \in Clients, NEW m \in Memories, Refused(c, m)
  PROVE  MInv'
<1> USE MemoryAssumption
    DEF MInv, Refused, Acted, Looks, Present, Statuses, rowVars, projectionVars, evidenceVars,
        planVars
<1>1. TypeOK'
  BY DEF TypeOK, Projections, Refreshed, Max2, Outcomes, Views, ManualRank
<1>2. SearchFindsActive' /\ RowsHaveRevisions'
  BY DEF TypeOK, SearchFindsActive, RowsHaveRevisions
<1>3. EmbeddingsFollowMemories' /\ InFlight'
  BY DEF TypeOK, EmbeddingsFollowMemories, InFlight, Refreshed, Max2, Projections
<1>4. EvidenceIsKept'
  BY DEF TypeOK, EvidenceIsKept, ManualRank
<1>5. KeysAgree'
  BY DEF TypeOK, KeysAgree
<1>6. ViewsArePast'
  BY DEF TypeOK, ViewsArePast, RowsHaveRevisions, Views
<1>7. DeletionIsComplete'
  BY DEF TypeOK, DeletionIsComplete, ViewsArePast, RowsHaveRevisions, Views
<1>8. QED
  BY <1>1, <1>2, <1>3, <1>4, <1>5, <1>6, <1>7

LEMMA CreateManualKeeps ==
  ASSUME MInv, NEW n \in Memories, CreateManual(n)
  PROVE  MInv'
<1> USE MemoryAssumption DEF MInv, CreateManual, Insert, Looks, Present, Statuses, planVars
<1>1. TypeOK'
  BY DEF TypeOK, Projections, Refreshed, Max2, Outcomes, Views, ManualRank
<1>2. SearchFindsActive' /\ RowsHaveRevisions'
  BY DEF TypeOK, SearchFindsActive, RowsHaveRevisions
<1>3. EmbeddingsFollowMemories' /\ InFlight'
  BY DEF TypeOK, EmbeddingsFollowMemories, InFlight, Refreshed, Max2, Projections
<1>4. EvidenceIsKept'
  BY DEF TypeOK, EvidenceIsKept, ManualRank
<1>5. KeysAgree'
  BY DEF TypeOK, KeysAgree
<1>6. ViewsArePast'
  BY DEF TypeOK, ViewsArePast, RowsHaveRevisions, Views
<1>7. DeletionIsComplete'
  BY DEF TypeOK, DeletionIsComplete, ViewsArePast, RowsHaveRevisions, Views
<1>8. QED
  BY <1>1, <1>2, <1>3, <1>4, <1>5, <1>6, <1>7

LEMMA EditManualKeeps ==
  ASSUME MInv, NEW c \in Clients, NEW old \in Memories, NEW n \in Memories, EditManual(c, old, n)
  PROVE  MInv'
<1> USE MemoryAssumption
    DEF MInv, EditManual, Insert, Acted, Current, Looks, Present, Statuses, planVars
<1>1. TypeOK'
  <2>1. revision[old] + 1 \in 0..MaxRevision /\ ManualRank \in 0..ManualRank
    BY DEF TypeOK, ManualRank
  <2>2. work' \in [Memories -> [Projections -> 0..MaxRevision]]
    BY <2>1, RefreshedType DEF TypeOK
  <2>3. relations' \subseteq Memories \X {"updates", "extends"} \X Memories
    BY DEF TypeOK
  <2>4. revision' \in [Memories -> 0..MaxRevision]
    BY <2>1 DEF TypeOK
  <2>5. view' \in [Clients -> Views \cup {NoView}] /\ sources' \in [Memories -> SUBSET Evidence]
    BY DEF TypeOK
  <2>6. QED
    BY <2>1, <2>2, <2>3, <2>4, <2>5 DEF TypeOK
<1>2. SearchFindsActive' /\ RowsHaveRevisions'
  <2>1. n # old /\ revision[old] \in Nat
    BY DEF TypeOK
  <2>2. status'[n] = "active" /\ indexed'[n] /\ revision'[n] = revision[old] + 1
    BY <2>1 DEF TypeOK
  <2>3. status'[old] = "superseded" /\ ~indexed'[old] /\ revision'[old] = revision[old] + 1
    BY <2>1 DEF TypeOK
  <2>4. \A x \in Memories \ {n, old} : status'[x] = status[x] /\ indexed'[x] = indexed[x]
                                         /\ revision'[x] = revision[x]
    BY DEF TypeOK
  <2>5. SearchFindsActive'
    <3>1. SearchFindsActive
      OBVIOUS
    <3>2. QED
      BY ONLY <2>2, <2>3, <2>4, <3>1 DEF SearchFindsActive
  <2>6. RowsHaveRevisions'
    <3>1. \A x \in Memories \ {n, old} : Present(x)' <=> revision'[x] > 0
      BY <2>4 DEF RowsHaveRevisions
    <3>2. Present(n)' /\ Present(old)' /\ revision'[n] > 0 /\ revision'[old] > 0
      BY <2>1, <2>2, <2>3
    <3>3. QED
      BY <3>1, <3>2 DEF RowsHaveRevisions
  <2>7. QED
    BY <2>5, <2>6
<1>3. EmbeddingsFollowMemories' /\ InFlight'
  BY DEF TypeOK, EmbeddingsFollowMemories, InFlight, Refreshed, Max2, Projections
<1>4. EvidenceIsKept'
  BY DEF TypeOK, EvidenceIsKept, ManualRank
<1>5. KeysAgree'
  <2>1. n # old /\ status[n] = "absent" /\ status[old] \in Statuses
    BY DEF TypeOK
  <2>2. \A x \in Memories : x # n =>
          (Present(x)' <=> Present(x)) /\ (status'[x] = "absent" <=> status[x] = "absent")
    BY <2>1 DEF TypeOK
  <2>3. \A j \in Keys :
          created[j] \subseteq Memories /\ n \notin created[j] /\ reconciled[j].memory # n
    BY <2>1 DEF TypeOK, KeysAgree
  <2>4. KeysAgree /\ UNCHANGED <<reconciled, created>>
    OBVIOUS
  <2> HIDE DEF EditManual, Present
  <2>5. QED
    BY <2>2, <2>3, <2>4 DEF KeysAgree
<1>6. ViewsArePast'
  BY DEF TypeOK, ViewsArePast, RowsHaveRevisions, Views
<1>7. DeletionIsComplete'
  BY DEF TypeOK, DeletionIsComplete, ViewsArePast, RowsHaveRevisions, Views
<1>8. QED
  BY <1>1, <1>2, <1>3, <1>4, <1>5, <1>6, <1>7

LEMMA ConfirmKeeps ==
  ASSUME MInv, NEW c \in Clients, NEW m \in Memories, Confirm(c, m)
  PROVE  MInv'
<1> USE MemoryAssumption
    DEF MInv, Confirm, Acted, Current, Looks, Present, Statuses, evidenceVars, planVars
<1>1. TypeOK'
  BY DEF TypeOK, Projections, Refreshed, Max2, Outcomes, Views, ManualRank
<1>2. SearchFindsActive' /\ RowsHaveRevisions'
  BY DEF TypeOK, SearchFindsActive, RowsHaveRevisions
<1>3. EmbeddingsFollowMemories' /\ InFlight'
  BY DEF TypeOK, EmbeddingsFollowMemories, InFlight, Refreshed, Max2, Projections
<1>4. EvidenceIsKept'
  BY DEF TypeOK, EvidenceIsKept, ManualRank
<1>5. KeysAgree'
  BY DEF TypeOK, KeysAgree
<1>6. ViewsArePast'
  <2>1. revision'[m] = revision[m] + 1 /\ revision[m] \in Nat
        /\ \A x \in Memories : x # m => revision'[x] = revision[x] /\ status'[x] = status[x]
    BY DEF TypeOK
  <2>2. \A d \in Clients, x \in Memories : Looks(d, x)' => Looks(d, x) /\ view'[d] = view[d]
    BY DEF TypeOK
  <2>3. \A d \in Clients : view[d] # NoView => view[d].revision \in Nat
    BY DEF TypeOK, Views
  <2>4. status[m] \in {"active", "pending_review"} /\ status'[m] # "absent"
    BY DEF TypeOK
  <2> SUFFICES ASSUME NEW d \in Clients, NEW x \in Memories, Looks(d, x)'
               PROVE  status'[x] # "absent" /\ (Present(x)' => view'[d].revision <= revision'[x])
    BY DEF ViewsArePast
  <2>5. CASE x = m
    BY <2>1, <2>2, <2>3, <2>4, <2>5 DEF ViewsArePast
  <2>6. CASE x # m
    BY <2>1, <2>2, <2>6 DEF ViewsArePast
  <2>7. QED
    BY <2>5, <2>6
<1>7. DeletionIsComplete'
  BY DEF TypeOK, DeletionIsComplete, ViewsArePast, RowsHaveRevisions, Views
<1>8. QED
  BY <1>1, <1>2, <1>3, <1>4, <1>5, <1>6, <1>7

LEMMA RejectKeeps ==
  ASSUME MInv, NEW c \in Clients, NEW m \in Memories, Reject(c, m)
  PROVE  MInv'
<1> USE MemoryAssumption
    DEF MInv, Reject, Acted, Current, Looks, Present, Statuses, evidenceVars, planVars
<1>1. TypeOK'
  BY DEF TypeOK, Projections, Refreshed, Max2, Outcomes, Views, ManualRank
<1>2. SearchFindsActive' /\ RowsHaveRevisions'
  BY DEF TypeOK, SearchFindsActive, RowsHaveRevisions
<1>3. EmbeddingsFollowMemories' /\ InFlight'
  BY DEF TypeOK, EmbeddingsFollowMemories, InFlight, Refreshed, Max2, Projections
<1>4. EvidenceIsKept'
  BY DEF TypeOK, EvidenceIsKept, ManualRank
<1>5. KeysAgree'
  BY DEF TypeOK, KeysAgree
<1>6. ViewsArePast'
  <2>1. revision'[m] = revision[m] + 1 /\ revision[m] \in Nat
        /\ \A x \in Memories : x # m => revision'[x] = revision[x] /\ status'[x] = status[x]
    BY DEF TypeOK
  <2>2. \A d \in Clients, x \in Memories : Looks(d, x)' => Looks(d, x) /\ view'[d] = view[d]
    BY DEF TypeOK
  <2>3. \A d \in Clients : view[d] # NoView => view[d].revision \in Nat
    BY DEF TypeOK, Views
  <2>4. status[m] \in {"active", "pending_review"} /\ status'[m] # "absent"
    BY DEF TypeOK
  <2> SUFFICES ASSUME NEW d \in Clients, NEW x \in Memories, Looks(d, x)'
               PROVE  status'[x] # "absent" /\ (Present(x)' => view'[d].revision <= revision'[x])
    BY DEF ViewsArePast
  <2>5. CASE x = m
    BY <2>1, <2>2, <2>3, <2>4, <2>5 DEF ViewsArePast
  <2>6. CASE x # m
    BY <2>1, <2>2, <2>6 DEF ViewsArePast
  <2>7. QED
    BY <2>5, <2>6
<1>7. DeletionIsComplete'
  BY DEF TypeOK, DeletionIsComplete, ViewsArePast, RowsHaveRevisions, Views
<1>8. QED
  BY <1>1, <1>2, <1>3, <1>4, <1>5, <1>6, <1>7

LEMMA ForgetKeeps ==
  ASSUME MInv, NEW c \in Clients, NEW m \in Memories, Forget(c, m)
  PROVE  MInv'
<1> USE MemoryAssumption
    DEF MInv, Forget, Acted, Current, Looks, Present, Statuses, evidenceVars, planVars
<1>1. TypeOK'
  <2>1. work' \in [Memories -> [Projections -> 0..MaxRevision]]
    BY DEF TypeOK, NoWork
  <2>2. view' \in [Clients -> Views \cup {NoView}] /\ revision' \in [Memories -> 0..MaxRevision]
    BY DEF TypeOK
  <2>3. QED
    BY <2>1, <2>2 DEF TypeOK
<1>2. SearchFindsActive' /\ RowsHaveRevisions'
  BY DEF TypeOK, SearchFindsActive, RowsHaveRevisions
<1>3. EmbeddingsFollowMemories' /\ InFlight'
  BY DEF TypeOK, EmbeddingsFollowMemories, InFlight, Refreshed, Max2, Projections
<1>4. EvidenceIsKept'
  BY DEF TypeOK, EvidenceIsKept, ManualRank
<1>5. KeysAgree'
  BY DEF TypeOK, KeysAgree
<1>6. ViewsArePast'
  BY DEF TypeOK, ViewsArePast, RowsHaveRevisions, Views
<1>7. DeletionIsComplete'
  BY DEF TypeOK, DeletionIsComplete, ViewsArePast, RowsHaveRevisions, Views
<1>8. QED
  BY <1>1, <1>2, <1>3, <1>4, <1>5, <1>6, <1>7

LEMMA DeletePermanentlyKeeps ==
  ASSUME MInv, NEW c \in Clients, NEW m \in Memories, DeletePermanently(c, m)
  PROVE  MInv'
<1> USE MemoryAssumption DEF MInv, DeletePermanently, Acted, Current, Looks, Present, Statuses
<1>1. TypeOK'
  BY DEF TypeOK, Projections, Refreshed, Max2, Outcomes, Views, ManualRank
<1>2. SearchFindsActive' /\ RowsHaveRevisions'
  BY DEF TypeOK, SearchFindsActive, RowsHaveRevisions
<1>3. EmbeddingsFollowMemories' /\ InFlight'
  BY DEF TypeOK, EmbeddingsFollowMemories, InFlight, Refreshed, Max2, Projections
<1>4. EvidenceIsKept'
  <2>1. \A x \in Memories : x # m => sources'[x] = sources[x] /\ trust'[x] = trust[x]
                                      /\ status'[x] = status[x]
    BY DEF TypeOK
  <2>2. sources'[m] = {} /\ status'[m] = "gone"
    BY DEF TypeOK
  <2>3. \A x \in Memories : x # m => sources[x] \cap Exclusive(m) = {}
    BY DEF Exclusive
  <2>4. \A x \in Memories : x # m => \A e \in sources[x] : events'[e] = "kept"
    BY <2>3 DEF TypeOK, EvidenceIsKept
  <2>5. QED
    BY <2>1, <2>2, <2>4 DEF EvidenceIsKept
<1>5. KeysAgree'
  BY DEF TypeOK, KeysAgree
<1>6. ViewsArePast'
  BY DEF TypeOK, ViewsArePast, RowsHaveRevisions, Views
<1>7. DeletionIsComplete'
  <2>1. \A x \in Memories : x # m => status'[x] = status[x] /\ sources'[x] = sources[x]
          /\ indexed'[x] = indexed[x] /\ embedded'[x] = embedded[x] /\ tombstone'[x] = tombstone[x]
    BY DEF TypeOK
  <2>2. sources'[m] = {} /\ ~indexed'[m] /\ ~embedded'[m] /\ tombstone'[m] = revision[m] + 1
    BY DEF TypeOK
  <2>3. \A d \in Clients, x \in Memories : Looks(d, x)' => Looks(d, x) /\ view'[d] = view[d]
    BY DEF TypeOK
  <2>4. \A d \in Clients : Looks(d, m) => view[d].revision < revision[m] + 1
    BY DEF TypeOK, Views, ViewsArePast
  <2>5. \A k \in Keys, x \in Memories :
          reconciled'[k].memory = x => reconciled[k].memory = x /\ x # m
    BY DEF TypeOK
  <2>6. \A r \in relations' : r \in relations /\ r[1] # m /\ r[3] # m
    OBVIOUS
  <2> SUFFICES ASSUME NEW x \in Memories, status'[x] = "gone"
               PROVE  /\ \A d \in Clients : Looks(d, x)' => view'[d].revision < tombstone'[x]
                      /\ ~indexed'[x] /\ ~embedded'[x] /\ sources'[x] = {}
                      /\ \A r \in relations' : r[1] # x /\ r[3] # x
                      /\ \A k \in Keys : reconciled'[k].memory # x
    BY Zenon DEF DeletionIsComplete
  <2>7. CASE x = m
    BY <2>2, <2>3, <2>4, <2>5, <2>6, <2>7
  <2>8. CASE x # m
    BY <2>1, <2>3, <2>5, <2>6, <2>8 DEF DeletionIsComplete
  <2>9. QED
    BY <2>7, <2>8
<1>8. QED
  BY <1>1, <1>2, <1>3, <1>4, <1>5, <1>6, <1>7

LEMMA StoreEmbeddingKeeps ==
  ASSUME MInv, NEW m \in Memories, StoreEmbedding(m)
  PROVE  MInv'
<1> USE MemoryAssumption
    DEF MInv, StoreEmbedding, Looks, Present, Statuses, rowVars, evidenceVars, planVars
<1>1. TypeOK'
  BY DEF TypeOK, Projections, Refreshed, Max2, Outcomes, Views, ManualRank
<1>2. SearchFindsActive' /\ RowsHaveRevisions'
  BY DEF TypeOK, SearchFindsActive, RowsHaveRevisions
<1>3. EmbeddingsFollowMemories' /\ InFlight'
  BY DEF TypeOK, EmbeddingsFollowMemories, InFlight, Refreshed, Max2, Projections
<1>4. EvidenceIsKept'
  BY DEF TypeOK, EvidenceIsKept, ManualRank
<1>5. KeysAgree'
  BY DEF TypeOK, KeysAgree
<1>6. ViewsArePast'
  BY DEF TypeOK, ViewsArePast, RowsHaveRevisions, Views
<1>7. DeletionIsComplete'
  BY DEF TypeOK, DeletionIsComplete, ViewsArePast, RowsHaveRevisions, Views
<1>8. QED
  BY <1>1, <1>2, <1>3, <1>4, <1>5, <1>6, <1>7

LEMMA ClearEmbeddingJobKeeps ==
  ASSUME MInv, ClearEmbeddingJob
  PROVE  MInv'
<1> USE MemoryAssumption
    DEF MInv, ClearEmbeddingJob, Looks, Present, Statuses, rowVars, evidenceVars, planVars
<1>1. TypeOK'
  BY DEF TypeOK, Projections, Refreshed, Max2, Outcomes, Views, ManualRank
<1>2. SearchFindsActive' /\ RowsHaveRevisions'
  BY DEF TypeOK, SearchFindsActive, RowsHaveRevisions
<1>3. EmbeddingsFollowMemories' /\ InFlight'
  BY DEF TypeOK, EmbeddingsFollowMemories, InFlight, Refreshed, Max2, Projections
<1>4. EvidenceIsKept'
  BY DEF TypeOK, EvidenceIsKept, ManualRank
<1>5. KeysAgree'
  BY DEF TypeOK, KeysAgree
<1>6. ViewsArePast'
  BY DEF TypeOK, ViewsArePast, RowsHaveRevisions, Views
<1>7. DeletionIsComplete'
  BY DEF TypeOK, DeletionIsComplete, ViewsArePast, RowsHaveRevisions, Views
<1>8. QED
  BY <1>1, <1>2, <1>3, <1>4, <1>5, <1>6, <1>7

LEMMA CrashKeeps ==
  ASSUME MInv, Crash
  PROVE  MInv'
<1> USE MemoryAssumption
    DEF MInv, Crash, Looks, Present, Statuses, rowVars, projectionVars, evidenceVars, planVars
<1>1. TypeOK'
  BY DEF TypeOK, Projections, Refreshed, Max2, Outcomes, Views, ManualRank
<1>2. SearchFindsActive' /\ RowsHaveRevisions'
  BY DEF TypeOK, SearchFindsActive, RowsHaveRevisions
<1>3. EmbeddingsFollowMemories' /\ InFlight'
  BY DEF TypeOK, EmbeddingsFollowMemories, InFlight, Refreshed, Max2, Projections
<1>4. EvidenceIsKept'
  BY DEF TypeOK, EvidenceIsKept, ManualRank
<1>5. KeysAgree'
  BY DEF TypeOK, KeysAgree
<1>6. ViewsArePast'
  BY DEF TypeOK, ViewsArePast, RowsHaveRevisions, Views
<1>7. DeletionIsComplete'
  BY DEF TypeOK, DeletionIsComplete, ViewsArePast, RowsHaveRevisions, Views
<1>8. QED
  BY <1>1, <1>2, <1>3, <1>4, <1>5, <1>6, <1>7

LEMMA StutterKeeps ==
  ASSUME MInv, UNCHANGED vars
  PROVE  MInv'
<1> USE DEF vars, rowVars, projectionVars, evidenceVars, planVars
<1>1. TypeOK' /\ SearchFindsActive' /\ RowsHaveRevisions'
  BY DEF MInv, TypeOK, SearchFindsActive, RowsHaveRevisions, Present
<1>2. EmbeddingsFollowMemories' /\ InFlight' /\ EvidenceIsKept'
  BY DEF MInv, EmbeddingsFollowMemories, InFlight, EvidenceIsKept, Present
<1>3. KeysAgree' /\ ViewsArePast' /\ DeletionIsComplete'
  BY DEF MInv, KeysAgree, ViewsArePast, DeletionIsComplete, Looks, Present
<1>4. QED
  BY <1>1, <1>2, <1>3 DEF MInv

\* The inductive invariant holds whatever plans, users, embedding workers and
\* crashes do, in any order.
THEOREM StoreInvariant == Spec => []MInv
<1>1. ASSUME MInv, [Next]_vars PROVE MInv'
  <2>1. ASSUME NEW e \in Evidence, InsertSource(e) \/ AliasFromSource(e) PROVE MInv'
    BY <1>1, <2>1, InsertSourceKeeps, AliasFromSourceKeeps
  <2>2. ASSUME NEW k \in Keys, Plan(k) PROVE MInv'
    BY <1>1, <2>2, PlanNewKeeps, PlanDuplicateKeeps, PlanUpdateKeeps, PlanExtendKeeps,
       PlanIgnoreKeeps DEF Plan
  <2>3. ASSUME NEW gone \in SUBSET Keys, ApplyRetention(gone) PROVE MInv'
    BY <1>1, <2>3, ApplyRetentionKeeps
  <2>4. ASSUME NEW n \in Memories, CreateManual(n) PROVE MInv'
    BY <1>1, <2>4, CreateManualKeeps
  <2>5. ASSUME NEW c \in Clients, UserAct(c) PROVE MInv'
    BY <1>1, <2>5, LookKeeps, RefusedKeeps, EditManualKeeps, ConfirmKeeps, RejectKeeps,
       ForgetKeeps, DeletePermanentlyKeeps DEF UserAct
  <2>6. ASSUME NEW m \in Memories, StoreEmbedding(m) PROVE MInv'
    BY <1>1, <2>6, StoreEmbeddingKeeps
  <2>7. CASE ClearEmbeddingJob \/ Crash \/ UNCHANGED vars
    BY <1>1, <2>7, ClearEmbeddingJobKeeps, CrashKeeps, StutterKeeps
  <2>8. QED
    BY <1>1, <2>1, <2>2, <2>3, <2>4, <2>5, <2>6, <2>7 DEF Next
<1>2. MInv /\ [Next]_vars => MInv'
  BY <1>1
<1>3. QED
  BY InitMInv, <1>2, PTL DEF Spec

\* The variables keep their types, and no revision passes its bound.
THEOREM StoreTypeCorrect == Spec => []TypeOK
<1>1. MInv => TypeOK
  BY DEF MInv
<1>2. QED
  BY StoreInvariant, <1>1, PTL

\* A search finds exactly the active memories; embeddings are withdrawn with
\* their memory, and no active memory is left without an embedding and without
\* a job for one.
THEOREM ProjectionsAreExact == Spec => []ProjectionsFollowMemories
<1>1. MInv => ProjectionsFollowMemories
  BY DEF MInv, ProjectionsFollowMemories
<1>2. QED
  BY StoreInvariant, <1>1, PTL

\* Deletions never take the evidence another memory rests on.
THEOREM EvidenceSurvives == Spec => []EvidenceIsKept
<1>1. MInv => EvidenceIsKept
  BY DEF MInv
<1>2. QED
  BY StoreInvariant, <1>1, PTL

\* Permanent deletion leaves nothing that refers to the memory, and a tombstone
\* newer than every revision a client read.
THEOREM DeletionLeavesNothing == Spec => []DeletionIsComplete
<1>1. MInv => DeletionIsComplete
  BY DEF MInv
<1>2. QED
  BY StoreInvariant, <1>1, PTL

\* At most one row stands for a candidate at any time, and its audit entry
\* names it, whatever is retried, expired or deleted.
THEOREM CandidatesHaveOneRow == Spec => []OneRowPerCandidate
<1>1. ASSUME MInv PROVE OneRowPerCandidate
  <2> SUFFICES ASSUME NEW k \in Keys
               PROVE  /\ Cardinality({m \in created[k] : Present(m)}) <= 1
                      /\ \A m \in created[k] : Present(m) => reconciled[k].memory = m
                      /\ reconciled[k].memory # NoMemory =>
                           /\ Present(reconciled[k].memory)
                           /\ \/ reconciled[k].memory \in created[k]
                              \/ reconciled[k].outcome = "duplicate"
    BY DEF OneRowPerCandidate
  <2> DEFINE rows == {m \in created[k] : Present(m)}
  <2>1. created[k] \subseteq Memories /\ reconciled[k].memory \in Memories \cup {NoMemory}
    BY <1>1 DEF MInv, TypeOK
  <2>2. \A m \in created[k] : Present(m) => reconciled[k].memory = m
    BY <1>1 DEF MInv, KeysAgree
  <2>3. rows = {} \/ rows = {reconciled[k].memory}
    BY <2>2
  <2> HIDE DEF rows
  <2>4. Cardinality(rows) <= 1
    <3>1. Cardinality({}) = 0 /\ Cardinality({reconciled[k].memory}) = 1
      BY FS_EmptySet, FS_Singleton
    <3>2. QED
      BY <2>3, <3>1
  <2>5. reconciled[k].memory # NoMemory =>
          /\ Present(reconciled[k].memory)
          /\ \/ reconciled[k].memory \in created[k]
             \/ reconciled[k].outcome = "duplicate"
    BY <1>1, <2>1 DEF MInv, KeysAgree
  <2>6. QED
    BY <2>2, <2>4, <2>5 DEF rows
<1>2. MInv => OneRowPerCandidate
  BY <1>1
<1>3. QED
  BY StoreInvariant, <1>2, PTL

\* What a step can do to the statuses, with the link and the trust of the
\* successor when a memory is superseded.
Succeeds(n, old) ==
  /\ status[n] = "absent"
  /\ status[old] \in {"active", "pending_review", "superseded"}
  /\ status' = [status EXCEPT ![old] = "superseded", ![n] = "active"]
  /\ trust'[n] >= trust[old]
  /\ <<n, "updates", old>> \in relations'

StatusStep ==
  \/ UNCHANGED status
  \/ \E m \in Memories :
       \/ /\ status[m] = "absent"
          /\ \E p \in {"active", "pending_review"} : status' = [status EXCEPT ![m] = p]
       \/ /\ status[m] = "pending_review"
          /\ \E p \in {"active", "rejected"} : status' = [status EXCEPT ![m] = p]
       \/ /\ status[m] \in Statuses
          /\ \E p \in {"forgotten", "gone"} : status' = [status EXCEPT ![m] = p]
       \/ \E n \in Memories : Succeeds(n, m)

LEMMA EveryStatusStep ==
  ASSUME MInv, [Next]_vars
  PROVE  StatusStep
<1>1. TypeOK
  BY DEF MInv
<1>2. ASSUME NEW k \in Keys, Plan(k) PROVE StatusStep
  <2>1. ASSUME NEW m \in Memories, NEW es \in SUBSET Evidence,
         PlanDuplicate(k, m, es)
        PROVE  StatusStep
    BY <2>1 DEF PlanDuplicate, StatusStep
  <2>2. ASSUME NEW es \in SUBSET Evidence, NEW n \in Memories, NEW rank \in CandidateRanks,
               NEW st \in {"active", "pending_review"}, NEW m \in Memories,
               PlanNew(k, n, st, rank, es) \/ PlanExtend(k, m, n, st, rank, es)
        PROVE  StatusStep
    BY <2>2 DEF PlanNew, PlanExtend, Insert, StatusStep
  <2>3. ASSUME NEW es \in SUBSET Evidence, NEW n \in Memories, NEW rank \in CandidateRanks,
               NEW old \in Memories, PlanUpdate(k, old, n, rank, es)
        PROVE  StatusStep
    <3>1. /\ status[n] = "absent" /\ status[old] = "active" /\ rank >= trust[old]
          /\ trust'[n] = rank /\ <<n, "updates", old>> \in relations'
      BY <1>1, <2>3 DEF PlanUpdate, Insert, TypeOK
    <3>2. status' = [status EXCEPT ![old] = "superseded", ![n] = "active"]
      BY <1>1, <2>3, <3>1 DEF PlanUpdate, TypeOK
    <3>3. Succeeds(n, old)
      BY <3>1, <3>2 DEF Succeeds
    <3>4. QED
      BY <3>3 DEF StatusStep
  <2>4. CASE PlanIgnore(k)
    BY <2>4 DEF PlanIgnore, rowVars, StatusStep
  <2>5. QED
    BY <1>2, <2>1, <2>2, <2>3, <2>4 DEF Plan
<1>3. ASSUME NEW c \in Clients, UserAct(c) PROVE StatusStep
  <2> PICK m \in Memories :
        \/ Look(c, m) \/ Refused(c, m)
        \/ Confirm(c, m) \/ Reject(c, m) \/ Forget(c, m) \/ DeletePermanently(c, m)
        \/ \E n \in Memories : EditManual(c, m, n)
    BY <1>3 DEF UserAct
  <2>1. CASE Look(c, m) \/ Refused(c, m)
    BY <2>1 DEF Look, Refused, rowVars, StatusStep
  <2>2. CASE Confirm(c, m) \/ Reject(c, m)
    BY <2>2 DEF Confirm, Reject, StatusStep
  <2>3. CASE Forget(c, m) \/ DeletePermanently(c, m)
    BY <2>3 DEF Forget, DeletePermanently, Current, Present, StatusStep
  <2>4. ASSUME NEW n \in Memories, EditManual(c, m, n) PROVE StatusStep
    <3>1. /\ status[n] = "absent" /\ trust'[n] = ManualRank
          /\ status[m] \in {"active", "pending_review", "superseded"}
          /\ <<n, "updates", m>> \in relations'
      BY <1>1, <2>4 DEF EditManual, Insert, Current, Present, Statuses, TypeOK
    <3>2. status' = [status EXCEPT ![m] = "superseded", ![n] = "active"]
      BY <1>1, <2>4, <3>1 DEF EditManual, TypeOK
    <3>3. trust[m] \in 0..ManualRank /\ ManualRank >= trust[m]
      <4>1. trust[m] \in 0..ManualRank
        BY <1>1 DEF TypeOK
      <4>2. QED
        BY <4>1 DEF ManualRank
    <3>4. Succeeds(n, m)
      BY <3>1, <3>2, <3>3 DEF Succeeds
    <3>5. QED
      BY <3>4 DEF StatusStep
  <2>5. QED
    BY <2>1, <2>2, <2>3, <2>4
<1>4. ASSUME NEW e \in Evidence, InsertSource(e) \/ AliasFromSource(e) PROVE StatusStep
  BY <1>4 DEF InsertSource, AliasFromSource, rowVars, StatusStep
<1>5. ASSUME NEW gone \in SUBSET Keys, ApplyRetention(gone) PROVE StatusStep
  BY <1>5 DEF ApplyRetention, rowVars, StatusStep
<1>6. ASSUME NEW n \in Memories, CreateManual(n) PROVE StatusStep
  BY <1>6 DEF CreateManual, Insert, StatusStep
<1>7. ASSUME NEW m \in Memories, StoreEmbedding(m) PROVE StatusStep
  BY <1>7 DEF StoreEmbedding, rowVars, StatusStep
<1>8. CASE ClearEmbeddingJob \/ Crash \/ UNCHANGED vars
  BY <1>8 DEF ClearEmbeddingJob, Crash, vars, rowVars, StatusStep
<1>9. QED
  BY <1>2, <1>3, <1>4, <1>5, <1>6, <1>7, <1>8 DEF Next

\* A memory is superseded only as its successor, trusted at least as much,
\* appears and is linked to it: also when the user edits what was superseded
\* already.
THEOREM SuccessorsAppear == Spec => SupersededBySuccessor
<1>1. ASSUME MInv, [Next]_vars, NEW m \in Memories,
             status[m] # "superseded", status'[m] = "superseded"
      PROVE  \E n \in Memories : /\ status[n] = "absent" /\ status'[n] = "active"
                                 /\ trust'[n] >= trust[m]
                                 /\ <<n, "updates", m>> \in relations'
  <2>1. StatusStep
    BY <1>1, EveryStatusStep
  <2>2. status \in [Memories -> Statuses \cup {"absent", "gone"}]
    BY <1>1 DEF MInv, TypeOK
  <2>3. PICK x \in Memories, n \in Memories : Succeeds(n, x)
    BY <1>1, <2>1, <2>2 DEF StatusStep
  <2>4. x = m /\ n # m
    BY <1>1, <2>2, <2>3 DEF Succeeds
  <2>5. status'[n] = "active"
    BY <2>2, <2>3 DEF Succeeds
  <2>6. QED
    BY <2>3, <2>4, <2>5 DEF Succeeds
<1>2. MInv /\ [Next]_vars =>
        [\A m \in Memories : (status[m] # "superseded" /\ status'[m] = "superseded") =>
           \E n \in Memories : /\ status[n] = "absent" /\ status'[n] = "active"
                               /\ trust'[n] >= trust[m]
                               /\ <<n, "updates", m>> \in relations']_vars
  BY <1>1
<1>3. QED
  BY StoreInvariant, <1>2, PTL DEF Spec, SupersededBySuccessor

\* The store implements the abstract life of memories.
THEOREM StoreImplementsVersions == Spec => ImplementsVersions
<1>1. Init => Versions!Init
  BY DEF Init, Versions!Init
<1>2. ASSUME MInv, [Next]_vars, SearchFindsActive' PROVE [Versions!Next]_(Versions!vars)
  <2>1. StatusStep
    BY <1>2, EveryStatusStep
  <2>2. Versions!Search
    BY <1>2 DEF SearchFindsActive, Versions!Search
  <2>3. CASE UNCHANGED status
    <3>1. {m \in Memories : indexed'[m]} = {m \in Memories : indexed[m]}
      BY <1>2, <2>3 DEF MInv, SearchFindsActive
    <3>2. QED
      BY <2>3, <3>1 DEF Versions!vars
  <2>4. ASSUME NEW m \in Memories, status[m] = "absent",
               \E p \in {"active", "pending_review"} : status' = [status EXCEPT ![m] = p]
        PROVE  Versions!Next
    BY <2>2, <2>4 DEF Versions!Next, Versions!Learn
  <2>5. ASSUME NEW m \in Memories, status[m] = "pending_review",
               \E p \in {"active", "rejected"} : status' = [status EXCEPT ![m] = p]
        PROVE  Versions!Next
    BY <2>2, <2>5 DEF Versions!Next, Versions!Decide
  <2>6. ASSUME NEW m \in Memories, status[m] \in Statuses,
               \E p \in {"forgotten", "gone"} : status' = [status EXCEPT ![m] = p]
        PROVE  Versions!Next
    BY <2>2, <2>6 DEF Versions!Next, Versions!Forget, Versions!Delete, Versions!Current,
      Versions!Ended, Statuses
  <2>7. ASSUME NEW m \in Memories, NEW n \in Memories, Succeeds(n, m)
        PROVE  Versions!Next
    BY <2>2, <2>7 DEF Succeeds, Versions!Next, Versions!Replace, Versions!Current
  <2>8. QED
    BY <2>1, <2>3, <2>4, <2>5, <2>6, <2>7 DEF StatusStep
<1>3. MInv /\ MInv' /\ [Next]_vars => [Versions!Next]_(Versions!vars)
  <2>1. MInv' => SearchFindsActive'
    BY DEF MInv
  <2>2. QED
    BY <1>2, <2>1
<1>4. QED
  BY StoreInvariant, <1>1, <1>3, PTL DEF Spec, ImplementsVersions, Versions!Spec

===============================================================================
