----------------------------- MODULE Projections -----------------------------
(***************************************************************************)
(* What mega-store derives from memories and the entities they mention:    *)
(* profiles (profile_repo.rs, mega-memory's profile.rs), which a worker    *)
(* computes from memories it read and stores later, their invalidation     *)
(* when a memory is withdrawn (memory_repo.rs), and entities that are      *)
(* created, resolved and merged (entity_repo.rs).                          *)
(*                                                                         *)
(* Each method is one transaction, except create_entity, whose two inserts *)
(* commit one after the other.  Entities are of one type; the worker that  *)
(* builds profiles and chooses their source revision is not in src/.       *)
(***************************************************************************)
EXTENDS Naturals, FiniteSets, Sequences

CONSTANTS
  Memories,   \* memory ids, each used for one row
  MaxEntities, \* bound: entities created; their ids are in the order of creation
  Names,      \* normalised names
  Shapes,     \* the scope, apps, categories (slugs as paths) and mentions memories come with
  Topics,     \* projection type and key of the profiles that are kept
  EntityQuorum, \* memories an entity profile takes (3)
  MaxBuilds,  \* bound: profiles computed
  NoProfile

\* A category is a non-empty path; validate_profile refuses an empty key.
ASSUME ProjectionsAssumption ==
  /\ \A t \in Topics : t.type \in {"global", "app", "project", "category", "entity"}
  /\ \A t \in Topics : t.type = "category" => Len(t.key) \in Nat \ {0}
  /\ \A s \in Shapes : \A p \in s.paths : Len(p) \in Nat
  /\ Shapes # {} /\ Names # {} /\ MaxBuilds \in Nat /\ MaxEntities \in Nat
  /\ NoProfile \notin [shows : SUBSET Memories, revision : 1..MaxBuilds]

VARIABLES
  status,    \* memories.status; "absent" before and "gone" after the row
  shape,     \* of each memory, once inserted
  subjects,  \* memory_entities
  phase,     \* of each entity: "unborn", "nameless" (no alias row yet), "live",
             \* "merged", or "lost" when it was merged without an alias row
  name,      \* entities.normalized_name
  aliases,   \* entity_aliases
  revision,  \* entities.revision
  profile,   \* memory_profiles: the memories shown, and source_revision
  building,  \* profiles that were computed and are not stored yet
  builds,    \* how many have been computed: the worker's source revisions
  heir       \* history: the entity each one was merged into, in the end

Entities == 1..MaxEntities

memoryVars == <<status, shape, subjects>>
entityVars == <<phase, name, aliases, revision, heir>>
vars == <<memoryVars, entityVars, profile, building, builds>>

Present(m) == status[m] \in {"active", "superseded", "forgotten"}
Alive(e) == phase[e] \in {"nameless", "live"}
Contents == [shows : SUBSET Memories, revision : 1..MaxBuilds]

TypeOK ==
  /\ status \in [Memories -> {"absent", "active", "superseded", "forgotten", "gone"}]
  /\ shape \in [Memories -> Shapes]
  /\ subjects \subseteq Memories \X Entities
  /\ phase \in [Entities -> {"unborn", "nameless", "live", "merged", "lost"}]
  /\ name \in [Entities -> Names]
  /\ aliases \subseteq Entities \X Names
  /\ revision \in [Entities -> 1..Cardinality(Entities)]
  /\ profile \in [Topics -> Contents \cup {NoProfile}]
  /\ building \subseteq [topic : Topics, shows : SUBSET Memories, revision : 1..MaxBuilds]
  /\ builds \in 0..MaxBuilds
  /\ heir \in [Entities -> Entities]

Init ==
  /\ status = [m \in Memories |-> "absent"]
  /\ shape = [m \in Memories |-> CHOOSE s \in Shapes : TRUE]
  /\ subjects = {}
  /\ phase = [e \in Entities |-> "unborn"]
  /\ name = [e \in Entities |-> CHOOSE n \in Names : TRUE]
  /\ aliases = {} /\ revision = [e \in Entities |-> 1]
  /\ profile = [t \in Topics |-> NoProfile]
  /\ building = {} /\ builds = 0
  /\ heir = [e \in Entities |-> e]

-----------------------------------------------------------------------------
(* Which profiles a memory belongs to, as two places of the code have it     *)

IsPrefix(p, q) == Len(p) <= Len(q) /\ SubSeq(q, 1, Len(p)) = p

\* belongs_to_projection, of a memory as search hands it out.
Belongs(m, t) ==
  LET s == shape[m]
  IN CASE t.type = "global"   -> s.scope.type = "global"
       [] t.type = "app"      -> t.key \in s.apps \/ s.scope = t
       [] t.type = "project"  -> s.scope = t
       [] t.type = "category" -> \E p \in s.paths : IsPrefix(t.key, p)
       [] t.type = "entity"   -> <<m, t.key>> \in subjects

\* Mutant of Invalidated: a category without those below it.
InvalidatedExactly(m) ==
  LET s == shape[m]
  IN {t \in Topics : t.type = "category" /\ t.key \in s.paths}
     \cup {t \in Topics : t.type # "category" /\ Belongs(m, t)}

\* invalidate_affected_profiles, from the rows that are there.
Invalidated(m) ==
  LET s == shape[m]
      global == {t \in Topics : t.type = "global" /\ s.scope.type = "global"}
      scoped == {t \in Topics : t.type \in {"app", "project"} /\ s.scope = t}
      applied == {t \in Topics : t.type = "app" /\ t.key \in s.apps}
      above == {t \in Topics : t.type = "category" /\ \E p \in s.paths :
                  \E i \in 1..Len(p) : t.key = SubSeq(p, 1, i)}
      about == {t \in Topics : t.type = "entity" /\ <<m, t.key>> \in subjects}
  IN global \cup scoped \cup applied \cup above \cup about

Without(topics) == [t \in Topics |-> IF t \in topics THEN NoProfile ELSE profile[t]]

-----------------------------------------------------------------------------
(* Entities *)

\* Whom a name stands for: resolve_entity, and each mention of a candidate.
NamedBy(n) == {e \in Entities : Alive(e) /\ (name[e] = n \/ <<e, n>> \in aliases)}

\* create_entity: the entity first, and then, if the process is still there, its alias.
CreateEntity(e, n) ==
  /\ phase[e] = "unborn" /\ \A f \in 1..e - 1 : phase[f] # "unborn"
  /\ phase' = [phase EXCEPT ![e] = "nameless"]
  /\ name' = [name EXCEPT ![e] = n]
  /\ UNCHANGED <<memoryVars, aliases, revision, heir, profile, building, builds>>

NameEntity(e) ==
  /\ phase[e] = "nameless"
  /\ phase' = [phase EXCEPT ![e] = "live"]
  /\ aliases' = aliases \cup {<<e, name[e]>>}
  /\ UNCHANGED <<memoryVars, name, revision, heir, profile, building, builds>>

\* Mutant of Inherited: the name of the duplicate, and not its other aliases.
InheritedName(p, d) == {<<p, name[d]>>}
Inherited(p, d) == {<<p, n>> : n \in {n \in Names : <<d, n>> \in aliases}}

\* merge_entities by somebody who has seen both as they are.  The rows of the duplicate
\* in memory_entities are copied and not removed, so that the deletion of a duplicate
\* a memory mentions fails, and the whole transaction with it.
Merge(p, d) ==
  /\ p # d /\ Alive(p) /\ Alive(d)
  /\ \A m \in Memories : <<m, d>> \notin subjects
  /\ phase' = [phase EXCEPT ![d] = IF @ = "live" THEN "merged" ELSE "lost"]
  /\ aliases' = {a \in aliases : a[1] # d} \cup Inherited(p, d)
  /\ revision' = [revision EXCEPT ![p] = @ + 1]
  /\ profile' = Without({t \in Topics : t.type = "entity" /\ t.key \in {p, d}})
  /\ heir' = [e \in Entities |-> IF heir[e] = d THEN p ELSE heir[e]]
  /\ UNCHANGED <<memoryVars, name, building, builds>>

-----------------------------------------------------------------------------
(* Memories.  A mention is tied to the one entity it names, if there is one; two that *)
(* name the same one violate a key and the memory is not stored.                      *)

Tied(s) == {n \in s.mentions : Cardinality(NamedBy(n)) = 1}

Remember(m, s) ==
  /\ status[m] = "absent"
  /\ \A n, o \in Tied(s) : n # o => NamedBy(n) # NamedBy(o)
  /\ status' = [status EXCEPT ![m] = "active"]
  /\ shape' = [shape EXCEPT ![m] = s]
  /\ subjects' = subjects \cup {<<m, e>> : e \in UNION {NamedBy(n) : n \in Tied(s)}}
  /\ UNCHANGED <<entityVars, profile, building, builds>>

\* By an update or an edit; profiles that show the memory stay.
Supersede(m) ==
  /\ status[m] = "active"
  /\ status' = [status EXCEPT ![m] = "superseded"]
  /\ UNCHANGED <<shape, subjects, entityVars, profile, building, builds>>

\* delete_memory(Forget).
Forget(m) ==
  /\ Present(m)
  /\ status' = [status EXCEPT ![m] = "forgotten"]
  /\ profile' = Without(Invalidated(m))
  /\ UNCHANGED <<shape, subjects, entityVars, building, builds>>

\* delete_memory(Permanent).
DeletePermanently(m) ==
  /\ Present(m)
  /\ status' = [status EXCEPT ![m] = "gone"]
  /\ subjects' = {s \in subjects : s[1] # m}
  /\ profile' = Without(Invalidated(m))
  /\ UNCHANGED <<shape, entityVars, building, builds>>

-----------------------------------------------------------------------------
(* Profiles *)

\* Entity profiles call for three memories about the entity (entity_profile_is_eligible).
BuildProfile(t) ==
  LET shown == {m \in Memories : status[m] = "active" /\ Belongs(m, t)}
  IN /\ builds < MaxBuilds
     /\ t.type = "entity" => Cardinality(shown) >= EntityQuorum
     /\ builds' = builds + 1
     /\ building' = building \cup {[topic |-> t, shows |-> shown, revision |-> builds + 1]}
     /\ UNCHANGED <<memoryVars, entityVars, profile>>

\* put_profile: a profile of an older revision does not replace a newer one.
PutProfile(b) ==
  /\ building' = building \ {b}
  /\ profile' = IF profile[b.topic] = NoProfile \/ b.revision >= profile[b.topic].revision
                THEN [profile EXCEPT ![b.topic] = [shows |-> b.shows, revision |-> b.revision]]
                ELSE profile
  /\ UNCHANGED <<memoryVars, entityVars, builds>>

-----------------------------------------------------------------------------

Next ==
  \/ \E e \in Entities : NameEntity(e) \/ \E n \in Names : CreateEntity(e, n)
  \/ \E p, d \in Entities : Merge(p, d)
  \/ \E m \in Memories :
       \/ \E s \in Shapes : Remember(m, s)
       \/ Supersede(m) \/ Forget(m) \/ DeletePermanently(m)
  \/ \E t \in Topics : BuildProfile(t)
  \/ \E b \in building : PutProfile(b)

Spec == Init /\ [][Next]_vars

-----------------------------------------------------------------------------
(* Properties *)

\* When a memory is forgotten or deleted, no profile of any type that is stored at that
\* time shows it any longer, whatever was merged or superseded since the profile was
\* built: the conditions of invalidate_affected_profiles reach all that
\* belongs_to_projection let in.  A profile that was computed before and is stored later
\* shows the memory again (PutProfile): nothing in the code stops it.
WithdrawalReachesProfiles ==
  [][\A m \in Memories :
       status[m] \in {"active", "superseded"} /\ status'[m] \in {"forgotten", "gone"} =>
         \A t \in Topics : profile'[t] # NoProfile => m \notin profile'[t].shows]_vars

\* Every name an entity was created under stands for the entity it was merged into, after
\* any chain of merges, and every variable has its type.
NamesSurviveMerges ==
  /\ TypeOK
  /\ \A e \in Entities : phase[e] \in {"live", "merged"} => heir[e] \in NamedBy(name[e])

=============================================================================
