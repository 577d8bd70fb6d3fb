----------------------------- MODULE MemoryStore -----------------------------
(***************************************************************************)
(* The memories of mega-store (memory_repo.rs, operations_repo.rs,         *)
(* embedding_repo.rs): how extraction plans and the user create, replace,  *)
(* review, forget and delete them, and the search documents, embeddings,   *)
(* projection jobs, relations, evidence and tombstones kept in step.       *)
(*                                                                         *)
(* Each method is one SQL transaction and one action, except               *)
(* upsert_embedding, whose two statements commit one after the other.      *)
(* What a memory says never changes under its id, so contents, categories, *)
(* scopes and confidences are left out.  A call that returns an error      *)
(* changes nothing and is no step, unless a client forgets what it read.   *)
(***************************************************************************)
EXTENDS Integers, FiniteSets

CONSTANTS
  Memories,       \* memory ids, each used for at most one row
  Evidence,       \* source event ids, each used once
  Keys,           \* (extraction_run_id, candidate_index) pairs
  Clients,        \* holders of a store: two windows, a window and a worker
  CandidateRanks, \* trust ranks of the assertion modes candidates arrive with
  MaxRevision,    \* bound: revisions of one memory
  NoMemory,
  NoView

ManualRank == 5   \* AssertionMode::Manual.trust_rank()

ASSUME MemoryAssumption ==
  /\ CandidateRanks \subseteq 1..ManualRank
  /\ MaxRevision \in Nat \ {0}
  /\ NoMemory \notin Memories

VARIABLES
  status,     \* memories.status; "absent" before and "gone" after the row
  revision,   \* memories.revision; 0 without a row
  trust,      \* trust rank of memories.assertion_mode; 0 without a row
  indexed,    \* there is a row in memory_search_documents
  embedded,   \* there is a row in memory_embeddings
  work,       \* projection_jobs.source_revision by memory and type; 0: no row
  relations,  \* memory_relations
  sources,    \* memory_sources
  events,     \* source_events: "unborn", "kept" or "purged"
  aliased,    \* events an entity_aliases row refers to
  reconciled, \* extraction_candidates: outcome and memory_id
  tombstone,  \* memory_tombstones.revision; 0: no row
  embedding,  \* the memory whose upsert_embedding ran only its first statement
  view,       \* the memory and revision each client has read and may act upon
  created     \* history: the rows ever inserted on behalf of a key

rowVars == <<status, revision, trust, relations>>
projectionVars == <<indexed, embedded, work>>
evidenceVars == <<sources, events, aliased>>
planVars == <<reconciled, created>>
vars == <<rowVars, projectionVars, evidenceVars, planVars, tombstone, embedding, view>>

Statuses == {"active", "pending_review", "superseded", "rejected", "forgotten"}
Projections == {"embedding", "profile"}
Outcomes == {"create", "duplicate", "update", "extend", "ignore", "request_review"}
Views == [memory : Memories, revision : 1..MaxRevision, status : Statuses]

TypeOK ==
  /\ status \in [Memories -> Statuses \cup {"absent", "gone"}]
  /\ revision \in [Memories -> 0..MaxRevision]
  /\ trust \in [Memories -> 0..ManualRank]
  /\ indexed \in [Memories -> BOOLEAN]
  /\ embedded \in [Memories -> BOOLEAN]
  /\ work \in [Memories -> [Projections -> 0..MaxRevision]]
  /\ relations \subseteq Memories \X {"updates", "extends"} \X Memories
  /\ sources \in [Memories -> SUBSET Evidence]
  /\ events \in [Evidence -> {"unborn", "kept", "purged"}]
  /\ aliased \subseteq Evidence
  /\ reconciled \in [Keys -> [outcome : Outcomes \cup {"none"},
                              memory : Memories \cup {NoMemory}]]
  /\ tombstone \in [Memories -> 0..MaxRevision + 1]
  /\ embedding \in Memories \cup {NoMemory}
  /\ view \in [Clients -> Views \cup {NoView}]
  /\ created \in [Keys -> SUBSET Memories]

Init ==
  /\ status = [m \in Memories |-> "absent"]
  /\ revision = [m \in Memories |-> 0]
  /\ trust = [m \in Memories |-> 0]
  /\ indexed = [m \in Memories |-> FALSE]
  /\ embedded = [m \in Memories |-> FALSE]
  /\ work = [m \in Memories |-> [p \in Projections |-> 0]]
  /\ relations = {}
  /\ sources = [m \in Memories |-> {}]
  /\ events = [e \in Evidence |-> "unborn"]
  /\ aliased = {}
  /\ reconciled = [k \in Keys |-> [outcome |-> "none", memory |-> NoMemory]]
  /\ tombstone = [m \in Memories |-> 0]
  /\ embedding = NoMemory
  /\ view = [c \in Clients |-> NoView]
  /\ created = [k \in Keys |-> {}]

-----------------------------------------------------------------------------
(* Helpers *)

Present(m) == status[m] \in Statuses
Max2(a, b) == IF a >= b THEN a ELSE b

\* enqueue_projection_refresh_tx: one job per type, at the highest revision
\* asked for so far.
Refreshed(m, r) == [work EXCEPT ![m] = [p \in Projections |-> Max2(work[m][p], r)]]
NoWork == [p \in Projections |-> 0]

\* Mutant of Exclusive: evidence shared with another memory counts too.
ExclusiveOrShared(m) == sources[m]

\* Evidence that only m rests on.
Exclusive(m) == {e \in sources[m] : \A o \in Memories \ {m} : e \notin sources[o]}

\* What a candidate brings (validate_plan_for_storage): existing evidence, at
\* least one event unless it is a manual assertion.
Supported(rank, es) ==
  /\ rank \in CandidateRanks
  /\ \A e \in es : events[e] = "kept"
  /\ rank # ManualRank => es # {}

\* insert_candidate_tx or insert_manual_tx on a new id, and the projection jobs
\* the callers enqueue for it at once.
Insert(n, rank, r, es) ==
  /\ status[n] = "absent"
  /\ r <= MaxRevision
  /\ trust' = [trust EXCEPT ![n] = rank]
  /\ sources' = [sources EXCEPT ![n] = es]
  /\ work' = Refreshed(n, r)

\* The extraction_candidates row of key k, written at the end of apply_plan.
Reconcile(k, outcome, m) ==
  reconciled' = [reconciled EXCEPT ![k] = [outcome |-> outcome, memory |-> m]]

-----------------------------------------------------------------------------
(* Evidence *)

\* insert_source_event that stores a new event.
InsertSource(e) ==
  /\ events[e] = "unborn"
  /\ events' = [events EXCEPT ![e] = "kept"]
  /\ UNCHANGED <<rowVars, projectionVars, sources, aliased, planVars, tombstone,
                 embedding, view>>

\* create_entity with a source event: the alias row keeps a foreign key to it.
AliasFromSource(e) ==
  /\ events[e] = "kept"
  /\ e \notin aliased
  /\ aliased' = aliased \cup {e}
  /\ UNCHANGED <<rowVars, projectionVars, sources, events, planVars, tombstone,
                 embedding, view>>

-----------------------------------------------------------------------------
(* apply_plan, one action per plan.  A key that has an outcome already only  *)
(* has that outcome returned again.                                          *)

\* Create and RequestReview: a new row of its own.
PlanNew(k, n, st, rank, es) ==
  /\ reconciled[k].outcome = "none"
  /\ Supported(rank, es)
  /\ Insert(n, rank, 1, es)
  /\ status' = [status EXCEPT ![n] = st]
  /\ revision' = [revision EXCEPT ![n] = 1]
  /\ indexed' = [indexed EXCEPT ![n] = st = "active"]
  /\ Reconcile(k, IF st = "active" THEN "create" ELSE "request_review", n)
  /\ created' = [created EXCEPT ![k] = @ \cup {n}]
  /\ UNCHANGED <<relations, embedded, events, aliased, tombstone, embedding, view>>

\* Duplicate: more evidence for an active memory.
PlanDuplicate(k, m, es) ==
  /\ reconciled[k].outcome = "none"
  /\ \A e \in es : events[e] = "kept"
  /\ status[m] = "active"
  /\ revision[m] < MaxRevision
  /\ sources' = [sources EXCEPT ![m] = @ \cup es]
  /\ revision' = [revision EXCEPT ![m] = @ + 1]
  /\ work' = Refreshed(m, revision[m] + 1)
  /\ Reconcile(k, "duplicate", m)
  /\ UNCHANGED <<status, trust, relations, indexed, embedded, events, aliased,
                 created, tombstone, embedding, view>>

\* Mutant of PlanUpdate: the trust of the old row is not compared.
PlanUpdateUntrusted(k, old, n, rank, es) ==
  /\ reconciled[k].outcome = "none"
  /\ Supported(rank, es)
  /\ status[old] = "active"
  /\ Insert(n, rank, revision[old] + 1, es)
  /\ status' = [status EXCEPT ![n] = "active", ![old] = "superseded"]
  /\ revision' = [revision EXCEPT ![n] = revision[old] + 1]
  /\ indexed' = [indexed EXCEPT ![n] = TRUE, ![old] = FALSE]
  /\ relations' = relations \cup {<<n, "updates", old>>}
  /\ Reconcile(k, "update", n)
  /\ created' = [created EXCEPT ![k] = @ \cup {n}]
  /\ UNCHANGED <<embedded, events, aliased, tombstone, embedding, view>>

\* Update: a new active row replaces an active one that is trusted no more.
\* The old row keeps its revision.
PlanUpdate(k, old, n, rank, es) ==
  /\ reconciled[k].outcome = "none"
  /\ Supported(rank, es)
  /\ status[old] = "active"
  /\ rank >= trust[old]
  /\ Insert(n, rank, revision[old] + 1, es)
  /\ status' = [status EXCEPT ![n] = "active", ![old] = "superseded"]
  /\ revision' = [revision EXCEPT ![n] = revision[old] + 1]
  /\ indexed' = [indexed EXCEPT ![n] = TRUE, ![old] = FALSE]
  /\ relations' = relations \cup {<<n, "updates", old>>}
  /\ Reconcile(k, "update", n)
  /\ created' = [created EXCEPT ![k] = @ \cup {n}]
  /\ UNCHANGED <<embedded, events, aliased, tombstone, embedding, view>>

\* Extend: a new row next to an active one.
PlanExtend(k, m, n, st, rank, es) ==
  /\ reconciled[k].outcome = "none"
  /\ Supported(rank, es)
  /\ status[m] = "active"
  /\ Insert(n, rank, 1, es)
  /\ status' = [status EXCEPT ![n] = st]
  /\ revision' = [revision EXCEPT ![n] = 1]
  /\ indexed' = [indexed EXCEPT ![n] = st = "active"]
  /\ relations' = relations \cup {<<n, "extends", m>>}
  /\ Reconcile(k, "extend", n)
  /\ created' = [created EXCEPT ![k] = @ \cup {n}]
  /\ UNCHANGED <<embedded, events, aliased, tombstone, embedding, view>>

\* Ignore: only the audit row.
PlanIgnore(k) ==
  /\ reconciled[k].outcome = "none"
  /\ Reconcile(k, "ignore", NoMemory)
  /\ UNCHANGED <<rowVars, projectionVars, evidenceVars, created, tombstone,
                 embedding, view>>

\* Mutant of Forgettable: audit rows go though they name a memory.
ForgettableWithMemory == {k \in Keys : reconciled[k].outcome \in {"ignore", "request_review"}}

\* apply_retention: audit rows of ignored and reviewed candidates that name no
\* memory go once they are old enough.
Forgettable == {k \in Keys : /\ reconciled[k].outcome \in {"ignore", "request_review"}
                             /\ reconciled[k].memory = NoMemory}
ApplyRetention(old) ==
  /\ old # {}
  /\ old \subseteq Forgettable
  /\ reconciled' = [k \in Keys |->
       IF k \in old THEN [outcome |-> "none", memory |-> NoMemory] ELSE reconciled[k]]
  /\ UNCHANGED <<rowVars, projectionVars, evidenceVars, created, tombstone,
                 embedding, view>>

-----------------------------------------------------------------------------
(* The user.  A client acts on a memory it has read, with the revision it    *)
(* read; ensure_revision accepts the call only if that is still current.     *)

\* get_memory or search.
Look(c, m) ==
  /\ Present(m)
  /\ view' = [view EXCEPT ![c] = [memory |-> m, revision |-> revision[m],
                                  status |-> status[m]]]
  /\ UNCHANGED <<rowVars, projectionVars, evidenceVars, planVars, tombstone, embedding>>

Looks(c, m) == view[c] # NoView /\ view[c].memory = m
Current(c, m) == Looks(c, m) /\ Present(m) /\ revision[m] = view[c].revision
Acted(c) == view' = [view EXCEPT ![c] = NoView]

\* NotFound or RevisionConflict: the client has to read again.
Refused(c, m) ==
  /\ Looks(c, m)
  /\ ~Current(c, m)
  /\ Acted(c)
  /\ UNCHANGED <<rowVars, projectionVars, evidenceVars, planVars, tombstone, embedding>>

\* create_manual.
CreateManual(n) ==
  /\ Insert(n, ManualRank, 1, {})
  /\ status' = [status EXCEPT ![n] = "active"]
  /\ revision' = [revision EXCEPT ![n] = 1]
  /\ indexed' = [indexed EXCEPT ![n] = TRUE]
  /\ UNCHANGED <<relations, embedded, events, aliased, planVars, tombstone,
                 embedding, view>>

\* Mutant of EditManual: a memory that was forgotten can be edited.
EditForgotten(c, old, n) ==
  /\ Current(c, old)
  /\ Insert(n, ManualRank, revision[old] + 1, {})
  /\ status' = [status EXCEPT ![n] = "active", ![old] = "superseded"]
  /\ revision' = [revision EXCEPT ![n] = revision[old] + 1, ![old] = @ + 1]
  /\ indexed' = [indexed EXCEPT ![n] = TRUE, ![old] = FALSE]
  /\ relations' = relations \cup {<<n, "updates", old>>}
  /\ Acted(c)
  /\ UNCHANGED <<embedded, events, aliased, planVars, tombstone, embedding>>

\* edit_manual: a manual row replaces the old one, whatever its status was,
\* unless it was forgotten or rejected.
EditManual(c, old, n) ==
  /\ Current(c, old)
  /\ status[old] \notin {"forgotten", "rejected"}
  /\ Insert(n, ManualRank, revision[old] + 1, {})
  /\ status' = [status EXCEPT ![n] = "active", ![old] = "superseded"]
  /\ revision' = [revision EXCEPT ![n] = revision[old] + 1, ![old] = @ + 1]
  /\ indexed' = [indexed EXCEPT ![n] = TRUE, ![old] = FALSE]
  /\ relations' = relations \cup {<<n, "updates", old>>}
  /\ Acted(c)
  /\ UNCHANGED <<embedded, events, aliased, planVars, tombstone, embedding>>

\* confirm_pending.
Confirm(c, m) ==
  /\ Current(c, m)
  /\ status[m] = "pending_review"
  /\ revision[m] < MaxRevision
  /\ status' = [status EXCEPT ![m] = "active"]
  /\ trust' = [trust EXCEPT ![m] = ManualRank]
  /\ revision' = [revision EXCEPT ![m] = @ + 1]
  /\ indexed' = [indexed EXCEPT ![m] = TRUE]
  /\ work' = Refreshed(m, revision[m] + 1)
  /\ Acted(c)
  /\ UNCHANGED <<relations, embedded, evidenceVars, planVars, tombstone, embedding>>

\* reject_pending: the projection jobs of the memory stay behind.
Reject(c, m) ==
  /\ Current(c, m)
  /\ status[m] = "pending_review"
  /\ revision[m] < MaxRevision
  /\ status' = [status EXCEPT ![m] = "rejected"]
  /\ revision' = [revision EXCEPT ![m] = @ + 1]
  /\ indexed' = [indexed EXCEPT ![m] = FALSE]
  /\ embedded' = [embedded EXCEPT ![m] = FALSE]
  /\ Acted(c)
  /\ UNCHANGED <<trust, relations, work, evidenceVars, planVars, tombstone, embedding>>

\* Mutant of Forget: the search document stays.
ForgetButFind(c, m) ==
  /\ Current(c, m)
  /\ revision[m] < MaxRevision
  /\ status' = [status EXCEPT ![m] = "forgotten"]
  /\ revision' = [revision EXCEPT ![m] = @ + 1]
  /\ embedded' = [embedded EXCEPT ![m] = FALSE]
  /\ work' = [work EXCEPT ![m] = NoWork]
  /\ Acted(c)
  /\ UNCHANGED <<indexed, trust, relations, evidenceVars, planVars, tombstone, embedding>>

\* delete_memory(Forget) and remove_rebuildable_projections.
Forget(c, m) ==
  /\ Current(c, m)
  /\ revision[m] < MaxRevision
  /\ status' = [status EXCEPT ![m] = "forgotten"]
  /\ revision' = [revision EXCEPT ![m] = @ + 1]
  /\ indexed' = [indexed EXCEPT ![m] = FALSE]
  /\ embedded' = [embedded EXCEPT ![m] = FALSE]
  /\ work' = [work EXCEPT ![m] = NoWork]
  /\ Acted(c)
  /\ UNCHANGED <<trust, relations, evidenceVars, planVars, tombstone, embedding>>

\* Mutant of DeletePermanently: the tombstone keeps the revision of the row.
DeleteAtRevision(c, m) ==
  /\ Current(c, m)
  /\ Exclusive(m) \cap aliased = {}
  /\ status' = [status EXCEPT ![m] = "gone"]
  /\ revision' = [revision EXCEPT ![m] = 0]
  /\ trust' = [trust EXCEPT ![m] = 0]
  /\ indexed' = [indexed EXCEPT ![m] = FALSE]
  /\ embedded' = [embedded EXCEPT ![m] = FALSE]
  /\ relations' = {r \in relations : r[1] # m /\ r[3] # m}
  /\ sources' = [sources EXCEPT ![m] = {}]
  /\ events' = [e \in Evidence |-> IF e \in Exclusive(m) THEN "purged" ELSE events[e]]
  /\ reconciled' = [k \in Keys |->
       IF reconciled[k].memory = m THEN [reconciled[k] EXCEPT !.memory = NoMemory]
       ELSE reconciled[k]]
  /\ tombstone' = [tombstone EXCEPT ![m] = revision[m]]
  /\ Acted(c)
  /\ UNCHANGED <<work, aliased, created, embedding>>

\* delete_memory(Permanent): the row and what cascades from it, and the
\* evidence nothing else rests on.  An entity alias that refers to that
\* evidence makes the transaction fail.  Projection jobs stay behind.
DeletePermanently(c, m) ==
  /\ Current(c, m)
  /\ Exclusive(m) \cap aliased = {}
  /\ status' = [status EXCEPT ![m] = "gone"]
  /\ revision' = [revision EXCEPT ![m] = 0]
  /\ trust' = [trust EXCEPT ![m] = 0]
  /\ indexed' = [indexed EXCEPT ![m] = FALSE]
  /\ embedded' = [embedded EXCEPT ![m] = FALSE]
  /\ relations' = {r \in relations : r[1] # m /\ r[3] # m}
  /\ sources' = [sources EXCEPT ![m] = {}]
  /\ events' = [e \in Evidence |-> IF e \in Exclusive(m) THEN "purged" ELSE events[e]]
  /\ reconciled' = [k \in Keys |->
       IF reconciled[k].memory = m THEN [reconciled[k] EXCEPT !.memory = NoMemory]
       ELSE reconciled[k]]
  /\ tombstone' = [tombstone EXCEPT ![m] = revision[m] + 1]
  /\ Acted(c)
  /\ UNCHANGED <<work, aliased, created, embedding>>

-----------------------------------------------------------------------------
(* Embeddings *)

\* upsert_embedding, first statement.
StoreEmbedding(m) ==
  /\ embedding = NoMemory
  /\ status[m] = "active"
  /\ embedded' = [embedded EXCEPT ![m] = TRUE]
  /\ embedding' = m
  /\ UNCHANGED <<rowVars, indexed, work, evidenceVars, planVars, tombstone, view>>

\* Second statement: the job is done, unless it asks for a later revision.
ClearEmbeddingJob ==
  /\ embedding # NoMemory
  /\ work' = IF Present(embedding) /\ work[embedding]["embedding"] <= revision[embedding]
             THEN [work EXCEPT ![embedding]["embedding"] = 0] ELSE work
  /\ embedding' = NoMemory
  /\ UNCHANGED <<rowVars, indexed, embedded, evidenceVars, planVars, tombstone, view>>

\* The process stops; a client forgets what it read and the second statement
\* of upsert_embedding may never run.
Crash ==
  /\ embedding # NoMemory \/ \E c \in Clients : view[c] # NoView
  /\ embedding' = NoMemory
  /\ view' = [c \in Clients |-> NoView]
  /\ UNCHANGED <<rowVars, projectionVars, evidenceVars, planVars, tombstone>>

-----------------------------------------------------------------------------

Plan(k) ==
  \/ PlanIgnore(k)
  \/ \E es \in SUBSET Evidence :
       \/ \E m \in Memories : PlanDuplicate(k, m, es)
       \/ \E n \in Memories, rank \in CandidateRanks :
            \/ \E st \in {"active", "pending_review"} :
                 \/ PlanNew(k, n, st, rank, es)
                 \/ \E m \in Memories : PlanExtend(k, m, n, st, rank, es)
            \/ \E old \in Memories : PlanUpdate(k, old, n, rank, es)

UserAct(c) ==
  \E m \in Memories :
    \/ Look(c, m) \/ Refused(c, m)
    \/ Confirm(c, m) \/ Reject(c, m) \/ Forget(c, m) \/ DeletePermanently(c, m)
    \/ \E n \in Memories : EditManual(c, m, n)

Next ==
  \/ \E e \in Evidence : InsertSource(e) \/ AliasFromSource(e)
  \/ \E k \in Keys : Plan(k)
  \/ \E old \in SUBSET Keys : ApplyRetention(old)
  \/ \E n \in Memories : CreateManual(n)
  \/ \E c \in Clients : UserAct(c)
  \/ \E m \in Memories : StoreEmbedding(m)
  \/ ClearEmbeddingJob
  \/ Crash

Spec == Init /\ [][Next]_vars

-----------------------------------------------------------------------------
(* Properties *)

\* The search index holds exactly the active memories, after any sequence of
\* plans, edits, reviews and deletions (remove, refresh_search_document).
SearchFindsActive == \A m \in Memories : indexed[m] <=> status[m] = "active"

\* No embedding outlives its memory's withdrawal, and an active memory that has
\* none yet has a job asking for its current revision: whatever is interleaved
\* with the two statements of upsert_embedding, and wherever it stops, no
\* memory is left out of vector retrieval for good.
EmbeddingsFollowMemories ==
  \A m \in Memories :
    /\ embedded[m] => status[m] \in {"active", "superseded"}
    /\ status[m] = "active" /\ ~embedded[m] => work[m]["embedding"] >= revision[m]

\* What is derived from a memory follows it through every step: the search
\* index is exact, and its embedding is there, or asked for, or withdrawn.
ProjectionsFollowMemories ==
  /\ TypeOK
  /\ SearchFindsActive
  /\ EmbeddingsFollowMemories

\* Every accepted memory that was not entered or confirmed by hand keeps at
\* least one source event, though deleting a memory that shares its evidence
\* purges what nothing else rests on.
EvidenceIsKept ==
  \A m \in Memories :
    /\ \A e \in sources[m] : events[e] = "kept"
    /\ Present(m) /\ trust[m] # ManualRank => sources[m] # {}

\* A key never stands behind two rows at once, and the row an audit entry names
\* is the one made for it, or an existing one it confirmed: retries, retention
\* of the audit entries and deletions in any order do not duplicate a memory.
OneRowPerCandidate ==
  \A k \in Keys :
    /\ Cardinality({m \in created[k] : Present(m)}) <= 1
    /\ \A m \in created[k] : Present(m) => reconciled[k].memory = m
    /\ LET m == reconciled[k].memory
       IN m # NoMemory => Present(m) /\ (m \in created[k] \/ reconciled[k].outcome = "duplicate")

\* A tombstone is newer than any revision a client could have read, and its
\* memory leaves nothing behind but jobs: no relation, evidence or audit entry
\* refers to it.
DeletionIsComplete ==
  \A m \in Memories : status[m] = "gone" =>
    /\ \A c \in Clients : Looks(c, m) => view[c].revision < tombstone[m]
    /\ ~indexed[m] /\ ~embedded[m] /\ sources[m] = {}
    /\ \A r \in relations : r[1] # m /\ r[3] # m
    /\ \A k \in Keys : reconciled[k].memory # m

\* A memory is superseded only together with the appearance of an active
\* successor that is trusted at least as much, and the link between them.
SupersededBySuccessor ==
  [][\A m \in Memories : (status[m] # "superseded" /\ status'[m] = "superseded") =>
       \E n \in Memories : /\ status[n] = "absent" /\ status'[n] = "active"
                           /\ trust'[n] >= trust[m]
                           /\ <<n, "updates", m>> \in relations']_vars

Versions == INSTANCE MemoryVersions WITH
  phase <- status, found <- {m \in Memories : indexed[m]}

\* Memories live as MemoryVersions promises: each is learned once, replaced only
\* as its successor appears, and found exactly while it is active.
ImplementsVersions == Versions!Spec

\* STALKY_MEMORY_SPEC.md promises that the user can permanently delete a memory
\* and its retained evidence.
EveryMemoryDeletable ==
  \A m \in Memories : Present(m) => Exclusive(m) \cap aliased = {}

=============================================================================
