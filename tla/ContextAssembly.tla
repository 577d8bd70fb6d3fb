---------------------------- MODULE ContextAssembly ----------------------------
(***************************************************************************)
(* How mega-store assembles the context of one request (assemble_context,  *)
(* search, hydrate_memory) and mega-memory ranks and renders it            *)
(* (rank_memories, render_memory_context), while other connections commit  *)
(* to the same database: the searches are separate reads, and so is the    *)
(* rest of each memory a search found.                                     *)
(***************************************************************************)
EXTENDS Naturals, Sequences, FiniteSets, Functions

CONSTANTS
  MaxMemory,  \* bound: memories; ids are numbers, so that they have an order
  Kinds,      \* what memories are like: scope, apps, entities, trust, weight ...
  Requests,   \* MemoryContextRequest
  Limit,      \* rows a search returns (200; 100 for an entity)
  MaxChanges, \* bound: commits of other connections during the call
  None

VARIABLES
  kind,       \* of each memory: these never change under its id
  status,     \* memories.status, "gone" once it is deleted
  updated,    \* memories.updated_at, all different
  request,
  step,       \* the search under way; one more after the last of them
  outcome,    \* how the call ended: "pending", "done" or "refused"
  rows,       \* rows the search returned that are still to be completed
  candidates, \* what is known of each memory that was found, or None
  shown,      \* the memories of the answer, which has them in the order of Ahead
  changes,    \* how many commits there were
  eligible,   \* history: memories that were eligible at some time in the call ...
  always,     \* ... and all the time
  crowded     \* history: memories that a search left out for Limit newer ones

storeVars == <<kind, status, updated>>
callVars == <<request, step, outcome, rows, candidates, shown>>
historyVars == <<eligible, always, crowded>>
vars == <<storeVars, callVars, changes, historyVars>>

MemoryIds == 1..MaxMemory
Statuses == {"active", "superseded", "pending_review", "forgotten", "gone"}
Visible == {"active"} \cup IF request.history THEN {"superseded"} ELSE {}

-----------------------------------------------------------------------------
(* rank_memories and render_memory_context *)

\* eligible, of a memory of kind k as it was read: with its status, apps and entities.
Eligible(k, st, apps, entities) ==
  /\ st \in Visible
  /\ k.sensitive => request.sensitive
  /\ apps = {} \/ request.app \in apps
  /\ \/ k.scope = "global"
     \/ k.scope = "app" /\ k.key = request.app
     \/ k.scope = "project" /\ k.key = request.project
     \/ k.scope = "entity" /\ entities \cap Range(request.entities) # {}
EligibleNow(m) == Eligible(kind[m], status[m], kind[m].apps, kind[m].entities)

\* The hard boosts, and the rest of score, in thousandths.  Without embeddings the
\* similarity is 0, and without signals so is the freshness of what goes out of date.
Boosts(k, apps, entities, alias) ==
  {b \in {"decision", "app", "entity", "trust"} :
     CASE b = "decision" -> k.type = "decision" /\ k.scope = "project" /\ k.key = request.project
       [] b = "app"      -> request.app \in apps
       [] b = "entity"   -> alias \/ entities \cap Range(request.entities) # {}
       [] b = "trust"    -> k.trust >= 4}
\* Mutant of Boost: trust weighs less than the rest of the score can.
BoostLess == [decision |-> 4000, app |-> 2000, entity |-> 1000, trust |-> 400]
Boost == [decision |-> 4000, app |-> 2000, entity |-> 1000, trust |-> 500]

\* Of a memory that is eligible, so that a scope that is not global is the request's.
Blended(k, found) ==
  (IF found THEN 200 ELSE 0)
  + (IF k.scope = "global" THEN 75 ELSE 150)
  + k.importance                                 \* hundredths, weighed by a tenth
  + (k.trust * k.confidence) \div 5
  + (IF k.type \in {"episode", "task"} THEN 0 ELSE 50)

Boosted(bs) ==
  (IF "decision" \in bs THEN Boost.decision ELSE 0) + (IF "app" \in bs THEN Boost.app ELSE 0)
  + (IF "entity" \in bs THEN Boost.entity ELSE 0) + (IF "trust" \in bs THEN Boost.trust ELSE 0)

BoostsOf(m) ==
  LET c == candidates[m] IN Boosts(kind[m], c.apps, c.entities, c.alias)
Score(m) == Blended(kind[m], candidates[m].found) + Boosted(BoostsOf(m))

\* The order of sort_by: score, then the newer one, then the id.
Ahead(m, n) ==
  LET c == candidates[m]
      d == candidates[n]
  IN \/ Score(m) > Score(n)
     \/ Score(m) = Score(n) /\ c.updated > d.updated
     \/ Score(m) = Score(n) /\ c.updated = d.updated /\ m < n

\* Mutant of Ranked: whatever a search found is ranked.
RankedUnfiltered == {m \in MemoryIds : candidates[m] # None}

Ranked ==
  {m \in MemoryIds :
    /\ candidates[m] # None
    /\ Eligible(kind[m], candidates[m].status, candidates[m].apps, candidates[m].entities)}

Cost(items) == SumFunction([m \in items |-> kind[m].cost])

\* There is room left for m after those of the items that are ahead of it.
Fits(items, m) == Cost({n \in items : Ahead(n, m)}) + kind[m].cost <= request.room

\* What does not fit is passed over, and what comes after it may still fit.
Rendered(items) == \A m \in Ranked : m \in items <=> Fits(items, m)

-----------------------------------------------------------------------------
(* search *)

\* Mutant of Searches: nobody asks for the memories about an entity.
SearchesWithoutEntities ==
  (IF request.project # None THEN << [by |-> "project"] >> ELSE << >>)
  \o (IF request.app # None THEN << [by |-> "applies"], [by |-> "app"] >> ELSE << >>)
  \o << [by |-> "global"] >>
  \o (IF request.query # "none" THEN << [by |-> "query"] >> ELSE << >>)

\* The searches of a request, in their order.
Searches ==
  (IF request.project # None THEN << [by |-> "project"] >> ELSE << >>)
  \o (IF request.app # None THEN << [by |-> "applies"], [by |-> "app"] >> ELSE << >>)
  \o [i \in DOMAIN request.entities |-> [by |-> "entity", id |-> request.entities[i]]]
  \o << [by |-> "global"] >>
  \o (IF request.query # "none" THEN << [by |-> "query"] >> ELSE << >>)

\* What kinds of memories a search is about.
About(q, k) ==
  \/ q.by = "project" /\ k.scope = "project" /\ k.key = request.project
  \/ q.by = "applies" /\ request.app \in k.apps
  \/ q.by = "app"     /\ k.scope = "app" /\ k.key = request.app
  \/ q.by = "entity"  /\ q.id \in k.entities
  \/ q.by = "global"  /\ k.scope = "global"
  \/ q.by = "query"   /\ k.matches

\* The memories that it hits.  The index of words holds the active ones only.
Hits(q) ==
  {m \in MemoryIds : /\ About(q, kind[m]) /\ status[m] \in Visible
                     /\ q.by = "query" => status[m] = "active"}

Newest(ms) == {m \in ms : Cardinality({n \in ms : updated[n] > updated[m]}) < Limit}

-----------------------------------------------------------------------------
(* The call *)

\* What is known of a memory that was found.
Finds ==
  [status : Statuses, updated : Nat, apps : SUBSET UNION {k.apps : k \in Kinds},
   entities : SUBSET UNION {k.entities : k \in Kinds}, found : BOOLEAN, alias : BOOLEAN]

TypeOK ==
  /\ kind \in [MemoryIds -> Kinds] /\ status \in [MemoryIds -> Statuses]
  /\ updated \in [MemoryIds -> Nat]
  /\ request \in Requests
  /\ step \in 1..Len(Searches) + 1 /\ outcome \in {"pending", "done", "refused"}
  /\ rows \subseteq [id : MemoryIds, status : Visible, updated : Nat]
  /\ candidates \in [MemoryIds -> Finds \cup {None}]
  /\ \A m \in MemoryIds : candidates[m] # None =>
       /\ candidates[m].status \in Visible
       /\ candidates[m].apps \subseteq kind[m].apps
       /\ candidates[m].entities \subseteq kind[m].entities
  /\ shown \subseteq MemoryIds /\ changes \in 0..MaxChanges
  /\ always \subseteq eligible /\ eligible \cup crowded \subseteq MemoryIds

Init ==
  /\ kind \in [MemoryIds -> Kinds]
  /\ status \in [MemoryIds -> {"active", "pending_review"}]
  /\ updated = [m \in MemoryIds |-> m]
  /\ request \in Requests
  /\ step = 1 /\ outcome = "pending" /\ rows = {}
  /\ candidates = [m \in MemoryIds |-> None] /\ shown = {}
  /\ changes = 0
  /\ eligible = {m \in MemoryIds : EligibleNow(m)} /\ always = eligible /\ crowded = {}

\* MemorySearchFilter::validate refuses a query of more than 500 characters, though a
\* request may have 4,000.
TooLong(q) == q.by = "query" /\ request.query = "long"

\* A search reads the rows, or is refused, and with it the whole call.
Search ==
  /\ outcome = "pending" /\ step <= Len(Searches) /\ rows = {}
  /\ LET q == Searches[step]
         found == Newest(Hits(q))
     IN IF TooLong(q)
        THEN outcome' = "refused" /\ UNCHANGED <<step, rows, crowded>>
        ELSE /\ rows' = {[id |-> m, status |-> status[m], updated |-> updated[m]] : m \in found}
             /\ crowded' = crowded \cup (Hits(q) \ found)
             /\ step' = IF found = {} THEN step + 1 ELSE step
             /\ outcome' = outcome
  /\ UNCHANGED <<storeVars, request, candidates, shown, changes, eligible, always>>

\* hydrate_memory of the next row: its apps and entities as they are by now, none if the
\* memory was deleted meanwhile.  A memory that was found before keeps what was read then.
Hydrate ==
  /\ \E r \in rows :
       LET m == r.id
           q == Searches[step]
           known == candidates[m]
           there == status[m] # "gone"
       IN /\ \A o \in rows : o.updated <= r.updated
          /\ candidates' = [candidates EXCEPT ![m] =
               IF known = None
               THEN [status |-> r.status, updated |-> r.updated,
                     apps |-> IF there THEN kind[m].apps ELSE {},
                     entities |-> IF there THEN kind[m].entities ELSE {},
                     found |-> q.by = "query", alias |-> q.by = "entity"]
               ELSE [known EXCEPT !.found = @ \/ q.by = "query", !.alias = @ \/ q.by = "entity"]]
          /\ rows' = rows \ {r}
          /\ step' = IF rows' = {} THEN step + 1 ELSE step
  /\ UNCHANGED <<storeVars, request, outcome, shown, changes, historyVars>>

\* The answer, and its entry in the audit log.
Answer ==
  /\ outcome = "pending" /\ step = Len(Searches) + 1
  /\ \E items \in SUBSET Ranked : Rendered(items) /\ shown' = items
  /\ outcome' = "done"
  /\ UNCHANGED <<storeVars, request, step, rows, candidates, changes, historyVars>>

-----------------------------------------------------------------------------
(* Other connections: confirm_pending, an update, more evidence, delete_memory *)

Commits(m, st) ==
  /\ outcome = "pending" /\ changes < MaxChanges
  /\ status' = [status EXCEPT ![m] = st]
  /\ updated' = [updated EXCEPT ![m] = MaxMemory + 1 + changes]
  /\ changes' = changes + 1
  /\ UNCHANGED <<kind, callVars, crowded>>
  /\ eligible' = eligible \cup {n \in MemoryIds : EligibleNow(n)'}
  /\ always' = {n \in always : EligibleNow(n)'}

Confirm(m)   == status[m] = "pending_review" /\ Commits(m, "active")
Supersede(m) == status[m] = "active" /\ Commits(m, "superseded")
Reinforce(m) == status[m] = "active" /\ Commits(m, "active")
Forget(m)    == status[m] \notin {"forgotten", "gone"} /\ Commits(m, "forgotten")
Delete(m)    == status[m] # "gone" /\ Commits(m, "gone")

-----------------------------------------------------------------------------

Next ==
  \/ Search \/ Hydrate \/ Answer
  \/ \E m \in MemoryIds : Confirm(m) \/ Supersede(m) \/ Reinforce(m) \/ Forget(m) \/ Delete(m)

Spec == Init /\ [][Next]_vars

-----------------------------------------------------------------------------
(* Properties *)

\* Whatever changes between the searches, a memory the answer shows was meant for this
\* request at some time during the call, unless it was deleted for good meanwhile: its
\* status, sensitivity, apps and scope allowed it; and every variable has its type.
ShownWasEligible ==
  /\ TypeOK
  /\ \A m \in shown : m \in eligible \/ status[m] = "gone"

\* A memory that is meant for the request all along is shown, unless those ahead of it leave
\* no room for it, or a search left it out for its limit of newer ones: the searches
\* together cover all that is eligible.
NothingIsMissed ==
  outcome = "done" => \A m \in always \ crowded : m \in shown \/ ~Fits(shown, m)

\* "Hard boosts precede blended ranking": a memory with all boosts of another and one more
\* comes first, however high the other scores in everything else.
BoostsPrecedeBlend ==
  outcome = "done" => \A m, n \in Ranked :
    BoostsOf(n) \subseteq BoostsOf(m) /\ BoostsOf(n) # BoostsOf(m) => Ahead(m, n)

=============================================================================
