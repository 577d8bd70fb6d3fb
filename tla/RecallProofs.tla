------------------------------ MODULE RecallProofs ------------------------------
(***************************************************************************)
(* Proofs about what is made of stored memories.                           *)
(*                                                                         *)
(* Of the profiles: a withdrawal reaches every stored profile, and names   *)
(* survive merges, for any memories, entities, topics and profiles under   *)
(* way.  PInv says that what shows a memory, stored or still being built,  *)
(* is about a topic that the memory belongs to as long as it is there;     *)
(* EInv says where the alias of each name is, and counts the merges.       *)
(*                                                                         *)
(* Of the context: what an answer shows was meant for the request, what is *)
(* meant for it is shown, and boosts decide the order, for any memories,   *)
(* requests, limits and commits in between.  CInv says what the searches   *)
(* that are over must have found, and how old what they found may be.      *)
(***************************************************************************)
EXTENDS MCRecall, Integers, FiniteSetTheorems, SequenceTheorems, TLAPS

-----------------------------------------------------------------------------
(* Profiles *)

Current(m) == status[m] \in {"active", "superseded"}

\* A memory that is shown was inserted, and belongs to the topic while it is current.
Reached(m, t) == status[m] # "absent" /\ (Current(m) => Belongs(m, t))

PInv ==
  /\ status \in [Memories -> {"absent", "active", "superseded", "forgotten", "gone"}]
  /\ shape \in [Memories -> Shapes]
  /\ profile \in [Topics -> Contents \cup {NoProfile}]
  /\ building \subseteq [topic : Topics, shows : SUBSET Memories, revision : 1..MaxBuilds]
  /\ builds \in 0..MaxBuilds
  /\ \A t \in Topics : profile[t] # NoProfile => \A m \in profile[t].shows : Reached(m, t)
  /\ \A b \in building : \A m \in b.shows : Reached(m, b.topic)

\* The DELETEs of invalidate_affected_profiles reach all that belongs_to_projection lets in.
LEMMA InvalidationCovers ==
  ASSUME NEW m \in Memories, shape[m] \in Shapes, NEW t \in Topics, Belongs(m, t)
  PROVE  t \in Invalidated(m)
<1> DEFINE s == shape[m]
<1>1. CASE t.type = "category"
  <2>1. PICK p \in s.paths : IsPrefix(t.key, p)
    BY <1>1 DEF Belongs
  <2>2. Len(t.key) \in 1..Len(p) /\ t.key = SubSeq(p, 1, Len(t.key))
    BY <1>1, <2>1, ProjectionsAssumption DEF IsPrefix
  <2>3. QED
    BY <1>1, <2>1, <2>2 DEF Invalidated
<1>2. CASE t.type = "app"
  BY <1>2 DEF Belongs, Invalidated
<1>3. CASE t.type = "project"
  BY <1>3 DEF Belongs, Invalidated
<1>4. CASE t.type = "global"
  BY <1>4 DEF Belongs, Invalidated
<1>5. CASE t.type = "entity"
  BY <1>5 DEF Belongs, Invalidated
<1>6. QED
  BY <1>1, <1>2, <1>3, <1>4, <1>5, ProjectionsAssumption

\* A memory that keeps its shape and its mentions belongs where it did.
LEMMA BelongsAsBefore ==
  ASSUME NEW m \in Memories, NEW t, shape'[m] = shape[m],
         \A e : <<m, e>> \in subjects' <=> <<m, e>> \in subjects
  PROVE  Belongs(m, t)' <=> Belongs(m, t)
BY DEF Belongs

\* Steps that leave what is stored and built, or take some of it away.
Kept ==
  /\ profile' \in [Topics -> Contents \cup {NoProfile}]
  /\ \A t \in Topics : profile'[t] \in {profile[t], NoProfile}
  /\ building' = building /\ builds' = builds

LEMMA KeptReached ==
  ASSUME PInv, Kept,
         status' \in [Memories -> {"absent", "active", "superseded", "forgotten", "gone"}],
         shape' \in [Memories -> Shapes],
         \A m \in Memories, t \in Topics : Reached(m, t) => Reached(m, t)'
  PROVE  PInv'
BY DEF PInv, Kept, Contents

LEMMA WithoutKept ==
  ASSUME PInv, NEW topics, profile' = Without(topics), UNCHANGED <<building, builds>>
  PROVE  Kept /\ \A t \in topics \cap Topics : profile'[t] = NoProfile
BY DEF PInv, Kept, Without

LEMMA MemoriesAsBefore ==
  ASSUME UNCHANGED memoryVars
  PROVE  \A m \in Memories, t \in Topics : Reached(m, t) => Reached(m, t)'
BY DEF Reached, Current, Belongs, memoryVars

LEMMA InitPInv == Init => PInv
<1> SUFFICES ASSUME Init PROVE PInv
  OBVIOUS
<1>1. (CHOOSE s \in Shapes : TRUE) \in Shapes
  BY ProjectionsAssumption
<1>2. QED
  BY <1>1, ProjectionsAssumption DEF Init, PInv

LEMMA StepPInv == PInv /\ [Next]_vars => PInv'
<1> SUFFICES ASSUME PInv, [Next]_vars PROVE PInv'
  OBVIOUS
<1>1. ASSUME NEW e \in Entities, NameEntity(e) \/ \E n \in Names : CreateEntity(e, n)
      PROVE  PInv'
  <2>1. Kept /\ UNCHANGED memoryVars
    BY <1>1 DEF NameEntity, CreateEntity, PInv, Kept
  <2>2. QED
    BY <2>1, MemoriesAsBefore, KeptReached DEF PInv, memoryVars
<1>2. ASSUME NEW p \in Entities, NEW d \in Entities, Merge(p, d) PROVE PInv'
  <2>1. Kept /\ UNCHANGED memoryVars
    BY <1>2, WithoutKept DEF Merge
  <2>2. QED
    BY <2>1, MemoriesAsBefore, KeptReached DEF PInv, memoryVars
<1>3. ASSUME NEW m \in Memories, NEW s \in Shapes, Remember(m, s) PROVE PInv'
  <2>1. Kept
    BY <1>3 DEF Remember, PInv, Kept
  <2>2. status' \in [Memories -> {"absent", "active", "superseded", "forgotten", "gone"}]
        /\ shape' \in [Memories -> Shapes]
    BY <1>3 DEF Remember, PInv
  <2>3. ASSUME NEW n \in Memories, NEW t \in Topics, Reached(n, t) PROVE Reached(n, t)'
    <3>1. n # m
      BY <1>3, <2>3 DEF Remember, Reached
    <3>2. status'[n] = status[n] /\ shape'[n] = shape[n]
      BY <1>3, <3>1 DEF Remember, PInv
    <3>3. \A e : <<n, e>> \in subjects' <=> <<n, e>> \in subjects
      BY <1>3, <3>1 DEF Remember
    <3>4. QED
      BY <2>3, <3>2, <3>3, BelongsAsBefore DEF Reached, Current
  <2>4. QED
    BY <2>1, <2>2, <2>3, KeptReached
<1>4. ASSUME NEW m \in Memories, Supersede(m) PROVE PInv'
  <2>1. Kept /\ UNCHANGED <<shape, subjects>>
    BY <1>4 DEF Supersede, PInv, Kept
  <2>2. status' \in [Memories -> {"absent", "active", "superseded", "forgotten", "gone"}]
    BY <1>4 DEF Supersede, PInv
  <2>3. ASSUME NEW n \in Memories, NEW t \in Topics, Reached(n, t) PROVE Reached(n, t)'
    <3>1. status'[n] # "absent" /\ (Current(n)' => Current(n))
      BY <1>4, <2>3 DEF Supersede, Reached, Current, PInv
    <3>2. QED
      BY <2>1, <2>3, <3>1, BelongsAsBefore DEF Reached
  <2>4. QED
    BY <2>1, <2>2, <2>3, KeptReached DEF PInv
<1>5. ASSUME NEW m \in Memories, Forget(m) \/ DeletePermanently(m) PROVE PInv'
  <2>1. Kept /\ shape' = shape
    BY <1>5, WithoutKept DEF Forget, DeletePermanently
  <2>2. status' \in [Memories -> {"absent", "active", "superseded", "forgotten", "gone"}]
        /\ status'[m] \in {"forgotten", "gone"}
    BY <1>5 DEF Forget, DeletePermanently, PInv
  <2>3. ASSUME NEW n \in Memories, NEW t \in Topics, Reached(n, t) PROVE Reached(n, t)'
    <3>1. CASE n = m
      BY <2>2, <3>1 DEF Reached, Current
    <3>2. CASE n # m
      <4>1. status'[n] = status[n] /\ \A e : <<n, e>> \in subjects' <=> <<n, e>> \in subjects
        BY <1>5, <3>2 DEF Forget, DeletePermanently, PInv
      <4>2. QED
        BY <2>1, <2>3, <4>1, BelongsAsBefore DEF Reached, Current
    <3>3. QED
      BY <3>1, <3>2
  <2>4. QED
    BY <2>1, <2>2, <2>3, KeptReached DEF PInv
<1>6. ASSUME NEW t \in Topics, BuildProfile(t) PROVE PInv'
  <2> DEFINE new == [topic |-> t,
                     shows |-> {m \in Memories : status[m] = "active" /\ Belongs(m, t)},
                     revision |-> builds + 1]
  <2>1. /\ building' = building \cup {new} /\ builds' = builds + 1 /\ builds < MaxBuilds
        /\ UNCHANGED <<memoryVars, profile>>
    BY <1>6 DEF BuildProfile, entityVars
  <2>2. \A m \in new.shows : Reached(m, new.topic)
    BY DEF Reached, Current
  <2>3. \A b \in building' : \A m \in b.shows : Reached(m, b.topic)
    BY <2>1, <2>2 DEF PInv
  <2>4. \A m \in Memories, u \in Topics : Reached(m, u) => Reached(m, u)'
    BY <2>1, MemoriesAsBefore
  <2>5. new \in [topic : Topics, shows : SUBSET Memories, revision : 1..MaxBuilds]
        /\ builds' \in 0..MaxBuilds
    BY <2>1, ProjectionsAssumption DEF PInv
  <2>6. QED
    BY <2>1, <2>3, <2>4, <2>5 DEF PInv, memoryVars, Contents
<1>7. ASSUME NEW b \in building, PutProfile(b) PROVE PInv'
  <2>1. building' \subseteq building /\ UNCHANGED <<memoryVars, builds>>
    BY <1>7 DEF PutProfile
  <2>2. \A m \in Memories, t \in Topics : Reached(m, t) => Reached(m, t)'
    BY <2>1, MemoriesAsBefore
  <2>3. b.topic \in Topics /\ [shows |-> b.shows, revision |-> b.revision] \in Contents
    BY DEF PInv, Contents
  <2>4. profile' \in [Topics -> Contents \cup {NoProfile}]
    BY <1>7, <2>3 DEF PutProfile, PInv
  <2>5. ASSUME NEW t \in Topics, profile'[t] # NoProfile, NEW m \in profile'[t].shows
        PROVE  Reached(m, t)'
    <3>1. m \in Memories
      BY <2>4, <2>5 DEF Contents
    <3>2. CASE profile'[t] = profile[t]
      BY <2>2, <2>5, <3>1, <3>2 DEF PInv
    <3>3. CASE profile'[t] # profile[t]
      <4>1. t = b.topic /\ profile'[t].shows = b.shows
        BY <1>7, <2>3, <3>3 DEF PutProfile, PInv
      <4>2. QED
        BY <2>2, <2>5, <3>1, <4>1 DEF PInv
    <3>4. QED
      BY <3>2, <3>3
  <2>6. ASSUME NEW c \in building', NEW m \in c.shows PROVE Reached(m, c.topic)'
    BY <2>1, <2>2, <2>6 DEF PInv
  <2>7. QED
    BY <2>1, <2>4, <2>5, <2>6 DEF PInv, memoryVars
<1>8. CASE UNCHANGED vars
  <2>1. Kept /\ UNCHANGED memoryVars
    BY <1>8 DEF vars, memoryVars, entityVars, PInv, Kept
  <2>2. QED
    BY <2>1, MemoriesAsBefore, KeptReached DEF PInv, memoryVars
<1>9. QED
  BY <1>1, <1>2, <1>3, <1>4, <1>5, <1>6, <1>7, <1>8 DEF Next

\* When a memory is forgotten or deleted, no profile stored at that time shows it any longer
\* (delete_memory and invalidate_affected_profiles of memory_repo.rs), for any topics and
\* whatever was merged since it was built.  Of a profile stored afterwards nothing is said.
THEOREM WithdrawalsReach == Spec => WithdrawalReachesProfiles
<1>1. ASSUME PInv, [Next]_vars, NEW m \in Memories, Current(m),
             status'[m] \in {"forgotten", "gone"}, NEW t \in Topics, profile'[t] # NoProfile
      PROVE  m \notin profile'[t].shows
  <2>1. Forget(m) \/ DeletePermanently(m)
    BY <1>1 DEF Next, vars, memoryVars, entityVars, PInv, Current, NameEntity, CreateEntity,
                Merge, Remember, Supersede, Forget, DeletePermanently, BuildProfile, PutProfile
  <2>2. profile' = Without(Invalidated(m))
    BY <2>1 DEF Forget, DeletePermanently
  <2>3. t \notin Invalidated(m) /\ profile'[t] = profile[t]
    BY <1>1, <2>2 DEF Without
  <2>4. ~Belongs(m, t)
    BY <1>1, <2>3, InvalidationCovers DEF PInv
  <2>5. QED
    BY <1>1, <2>3, <2>4 DEF PInv, Reached
<1>2. PInv /\ [Next]_vars =>
        [\A m \in Memories :
           status[m] \in {"active", "superseded"} /\ status'[m] \in {"forgotten", "gone"} =>
             \A t \in Topics : profile'[t] # NoProfile => m \notin profile'[t].shows]_vars
  BY <1>1 DEF Current
<1>3. QED
  BY <1>2, InitPInv, StepPInv, PTL DEF Spec, WithdrawalReachesProfiles

-----------------------------------------------------------------------------
(* Names.  An entity that is there is its own heir, and the heir of one that *)
(* got as far as its alias row is there and has that alias: merging copies   *)
(* aliases, not names.                                                       *)

Gone == {d \in Entities : phase[d] \in {"merged", "lost"}}

Heirs ==
  /\ \A e \in Entities : Alive(e) \/ phase[e] = "unborn" => heir[e] = e
  /\ \A e \in Entities : phase[e] \in {"live", "merged"} =>
       Alive(heir[e]) /\ <<heir[e], name[e]>> \in aliases

EInv ==
  /\ subjects \subseteq Memories \X Entities
  /\ phase \in [Entities -> {"unborn", "nameless", "live", "merged", "lost"}]
  /\ name \in [Entities -> Names]
  /\ aliases \subseteq Entities \X Names
  /\ heir \in [Entities -> Entities]
  /\ revision \in [Entities -> Nat \ {0}]
  /\ \A e \in Entities : revision[e] <= 1 + Cardinality(Gone) /\ Gone # Entities
  /\ Heirs

\* The entity that is merged away is one more that is gone, and the one that stays is not.
LEMMA GoneGrows ==
  ASSUME phase \in [Entities -> {"unborn", "nameless", "live", "merged", "lost"}],
         NEW p \in Entities, NEW d \in Entities, Merge(p, d)
  PROVE  Cardinality(Gone') = Cardinality(Gone) + 1 /\ Cardinality(Gone) \in Nat
<1>1. IsFiniteSet(Entities)
  BY ProjectionsAssumption, FS_Interval DEF Entities
<1>2. IsFiniteSet(Gone) /\ Cardinality(Gone) \in Nat
  BY <1>1, FS_Subset, FS_CardinalityType DEF Gone
<1>3. d \notin Gone /\ Gone' = Gone \cup {d}
  BY DEF Merge, Gone, Alive
<1>4. QED
  BY <1>2, <1>3, FS_AddElement

\* While an entity is there, fewer are gone than there are entities.
LEMMA GoneIsBounded ==
  ASSUME NEW p \in Entities, p \notin Gone
  PROVE  Cardinality(Gone) + 1 <= Cardinality(Entities) /\ Cardinality(Entities) \in Nat
<1>1. IsFiniteSet(Entities) /\ Cardinality(Entities) \in Nat
  <2>1. 1 \in Int /\ MaxEntities \in Int
    BY ProjectionsAssumption
  <2>2. IsFiniteSet(Entities)
    BY <2>1, FS_Interval DEF Entities
  <2>3. QED
    BY <2>2, FS_CardinalityType
<1>2. Gone \subseteq Entities /\ Gone # Entities /\ IsFiniteSet(Gone) /\ Cardinality(Gone) \in Nat
  BY <1>1, FS_Subset, FS_CardinalityType DEF Gone
<1>3. Cardinality(Gone) <= Cardinality(Entities) /\ Cardinality(Gone) # Cardinality(Entities)
  BY <1>1, <1>2, FS_Subset
<1>4. QED
  BY <1>1, <1>2, <1>3

\* Steps that leave the entities alone.
LEMMA EntitiesKept ==
  ASSUME EInv, UNCHANGED entityVars, subjects' \subseteq Memories \X Entities
  PROVE  EInv'
BY DEF EInv, Heirs, Alive, Gone, entityVars

LEMMA InitEInv == Init => EInv
<1> SUFFICES ASSUME Init PROVE EInv
  OBVIOUS
<1>1. (CHOOSE n \in Names : TRUE) \in Names
  BY ProjectionsAssumption
<1>2. Gone = {} /\ Cardinality(Gone) = 0
  BY FS_EmptySet DEF Init, Gone
<1>3. QED
  BY <1>1, <1>2 DEF Init, EInv, Heirs, Alive

LEMMA CreateKeepsEInv ==
  ASSUME EInv, NEW e \in Entities, NEW n \in Names, CreateEntity(e, n)
  PROVE  EInv'
<1> USE DEF CreateEntity, memoryVars
<1>1. UNCHANGED Gone
  BY DEF EInv, Gone
<1>2. Heirs'
  <2>1. \A f \in Entities \ {e} : phase'[f] = phase[f] /\ name'[f] = name[f]
    BY DEF EInv
  <2>2. phase'[e] = "nameless" /\ heir'[e] = e
    BY DEF EInv, Heirs
  <2>3. ASSUME NEW f \in Entities, phase'[f] \in {"live", "merged"}
        PROVE  Alive(heir[f])' /\ <<heir'[f], name'[f]>> \in aliases'
    BY <2>1, <2>2, <2>3 DEF EInv, Heirs, Alive
  <2>4. \A f \in Entities : Alive(f)' \/ phase'[f] = "unborn" => heir'[f] = f
    BY <2>1, <2>2 DEF EInv, Heirs, Alive
  <2>5. QED
    BY <2>3, <2>4 DEF Heirs
<1>3. QED
  BY <1>1, <1>2 DEF EInv

LEMMA NameKeepsEInv ==
  ASSUME EInv, NEW e \in Entities, NameEntity(e)
  PROVE  EInv'
<1> USE DEF NameEntity, memoryVars
<1>1. UNCHANGED Gone
  BY DEF EInv, Gone
<1>2. \A f \in Entities : Alive(f)' <=> Alive(f)
  BY DEF EInv, Alive
<1>3. heir[e] = e /\ Alive(e)
  BY DEF EInv, Heirs, Alive
<1>4. Heirs'
  <2>1. ASSUME NEW f \in Entities, phase'[f] \in {"live", "merged"}
        PROVE  Alive(heir[f])' /\ <<heir'[f], name'[f]>> \in aliases'
    <3>1. CASE f = e
      BY <1>2, <1>3, <3>1
    <3>2. CASE f # e
      <4>1. phase[f] \in {"live", "merged"} /\ heir[f] \in Entities
        BY <2>1, <3>2 DEF EInv
      <4>2. Alive(heir[f]) /\ <<heir[f], name[f]>> \in aliases
        BY <4>1 DEF EInv, Heirs
      <4>3. Alive(heir[f])'
        BY <1>2, <4>1, <4>2 DEF Alive
      <4>4. QED
        BY <4>2, <4>3
    <3>3. QED
      BY <3>1, <3>2
  <2>2. \A f \in Entities : Alive(f)' \/ phase'[f] = "unborn" => heir'[f] = f
    BY <1>2 DEF EInv, Heirs
  <2>3. QED
    BY <2>1, <2>2 DEF Heirs
<1>5. QED
  BY <1>1, <1>4 DEF EInv

\* Whoever had the duplicate for its heir has the one that stays, which gets the aliases.
LEMMA MergeKeepsEInv ==
  ASSUME EInv, NEW p \in Entities, NEW d \in Entities, Merge(p, d)
  PROVE  EInv'
<1> USE DEF Merge, memoryVars
<1>1. p # d /\ Alive(p) /\ Alive(d) /\ heir[p] = p /\ heir[d] = d
  BY DEF EInv, Heirs
<1>2. /\ \A f \in Entities \ {d} : phase'[f] = phase[f] /\ (Alive(f)' <=> Alive(f))
      /\ phase'[d] = IF phase[d] = "live" THEN "merged" ELSE "lost"
      /\ \A f \in Entities : heir'[f] = IF heir[f] = d THEN p ELSE heir[f]
      /\ heir' \in [Entities -> Entities]
  BY DEF EInv, Alive
<1>3. \A a \in aliases : a[1] # d => a \in aliases'
  OBVIOUS
<1>4. \A n \in Names : <<d, n>> \in aliases => <<p, n>> \in aliases'
  BY DEF Inherited
<1>5. aliases' \subseteq Entities \X Names
  <2>1. ASSUME NEW a \in Inherited(p, d) PROVE a \in Entities \X Names
    <3>1. PICK n \in Names : a = <<p, n>>
      BY ONLY <2>1 DEF Inherited
    <3>2. QED
      BY ONLY <3>1, p \in Entities
  <2>2. {a \in aliases : a[1] # d} \subseteq Entities \X Names
    BY DEF EInv
  <2>3. QED
    BY <2>1, <2>2
<1>6. /\ \A f \in Entities : revision'[f] \in Nat \ {0} /\ revision'[f] <= 1 + Cardinality(Gone')
      /\ p \notin Gone'
  <2>1. Cardinality(Gone') = Cardinality(Gone) + 1 /\ Cardinality(Gone) \in Nat
    BY GoneGrows DEF EInv
  <2>2. SUFFICES ASSUME NEW f \in Entities
                 PROVE  revision'[f] \in Nat \ {0} /\ revision'[f] <= 1 + Cardinality(Gone')
    BY <1>1, <1>2 DEF Gone, Alive
  <2>3. revision[f] \in Nat \ {0} /\ revision[f] <= 1 + Cardinality(Gone)
    BY DEF EInv
  <2>4. revision'[f] \in {revision[f], revision[f] + 1}
    BY DEF EInv
  <2>5. QED
    BY <2>1, <2>3, <2>4
<1>7. ASSUME NEW f \in Entities, phase'[f] \in {"live", "merged"}
      PROVE  Alive(heir[f])' /\ <<heir'[f], name'[f]>> \in aliases'
  <2>1. phase[f] \in {"live", "merged"}
    BY <1>2, <1>7
  <2>2. Alive(heir[f]) /\ <<heir[f], name[f]>> \in aliases 
        /\ heir[f] \in Entities /\ name[f] \in Names
    BY <2>1 DEF EInv, Heirs
  <2>3. CASE heir[f] = d
    <3>1. heir'[f] = p /\ <<p, name[f]>> \in aliases'
      BY <1>2, <1>4, <2>2, <2>3
    <3>2. Alive(p)'
      BY <1>1, <1>2
    <3>3. QED
      BY <3>1, <3>2 DEF Alive
  <2>4. CASE heir[f] # d
    <3>1. heir'[f] = heir[f] /\ <<heir[f], name[f]>> \in aliases'
      BY <1>2, <1>3, <2>2, <2>4
    <3>2. phase'[heir[f]] = phase[heir[f]]
      BY <1>2, <2>2, <2>4
    <3>3. QED
      BY <2>2, <3>1, <3>2 DEF Alive
  <2>5. QED
    BY <2>3, <2>4
<1>8. ASSUME NEW f \in Entities, Alive(f)' \/ phase'[f] = "unborn"
      PROVE  heir'[f] = f
  <2>1. f # d
    BY <1>2, <1>8 DEF Alive
  <2>2. heir[f] = f
    BY <1>2, <1>8, <2>1 DEF EInv, Heirs
  <2>3. QED
    BY <1>2, <2>1, <2>2
<1>9. phase' \in [Entities -> {"unborn", "nameless", "live", "merged", "lost"}]
  BY DEF EInv
<1>10. revision' \in [Entities -> Nat \ {0}]
  BY <1>6 DEF EInv
<1>11. Heirs'
  BY <1>7, <1>8 DEF Heirs
<1>12. QED
  BY <1>2, <1>5, <1>6, <1>9, <1>10, <1>11 DEF EInv

LEMMA StepEInv == EInv /\ [Next]_vars => EInv'
<1> SUFFICES ASSUME EInv, [Next]_vars PROVE EInv'
  OBVIOUS
<1>1. ASSUME NEW e \in Entities, NameEntity(e) \/ \E n \in Names : CreateEntity(e, n)
      PROVE  EInv'
  BY <1>1, NameKeepsEInv, CreateKeepsEInv
<1>2. ASSUME NEW p \in Entities, NEW d \in Entities, Merge(p, d) PROVE EInv'
  BY <1>2, MergeKeepsEInv
<1>3. ASSUME NEW m \in Memories,
             \/ \E s \in Shapes : Remember(m, s)
             \/ Supersede(m) \/ Forget(m) \/ DeletePermanently(m)
      PROVE  EInv'
  <2>1. UNCHANGED entityVars
    BY <1>3 DEF Remember, Supersede, Forget, DeletePermanently
  <2>2. subjects \subseteq Memories \X Entities
    BY DEF EInv
  <2>3. subjects' \subseteq Memories \X Entities
    <3>1. ASSUME NEW s \in Shapes, Remember(m, s) PROVE subjects' \subseteq Memories \X Entities
      <4>1. UNION {NamedBy(n) : n \in Tied(s)} \subseteq Entities
        BY DEF NamedBy
      <4>2. QED
        BY <2>2, <3>1, <4>1 DEF Remember
    <3>2. CASE Supersede(m) \/ Forget(m) \/ DeletePermanently(m)
      BY <2>2, <3>2 DEF Supersede, Forget, DeletePermanently
    <3>3. QED
      BY <1>3, <3>1, <3>2
  <2>4. QED
    BY <2>1, <2>3, EntitiesKept
<1>4. ASSUME (\E t \in Topics : BuildProfile(t)) \/ (\E b \in building : PutProfile(b))
             \/ UNCHANGED vars
      PROVE  EInv'
  <2>1. UNCHANGED entityVars /\ UNCHANGED subjects
    BY <1>4 DEF BuildProfile, PutProfile, vars, memoryVars
  <2>2. QED
    BY <2>1, EntitiesKept DEF EInv
<1>5. QED
  BY <1>1, <1>2, <1>3, <1>4 DEF Next

\* Whoever is asked for by a name an entity was created under finds the entity that one was
\* merged into, after any chain of merges (merge_entities and resolve_entity of
\* entity_repo.rs), and all variables keep their types.
THEOREM NamesAreInherited == Spec => []NamesSurviveMerges
<1>1. ASSUME PInv, EInv PROVE NamesSurviveMerges
  <2>1. ASSUME NEW e \in Entities, phase[e] \in {"live", "merged"}
        PROVE  heir[e] \in NamedBy(name[e])
    BY <1>1, <2>1 DEF EInv, Heirs, NamedBy
  <2>2. ASSUME NEW e \in Entities PROVE revision[e] \in 1..Cardinality(Entities)
    <3>1. revision[e] \in Nat \ {0} /\ revision[e] <= 1 + Cardinality(Gone) /\ Gone # Entities
      BY <1>1 DEF EInv
    <3>2. PICK p \in Entities : p \notin Gone
      BY <3>1 DEF Gone
    <3>3. Cardinality(Gone) + 1 <= Cardinality(Entities) /\ Cardinality(Entities) \in Nat
      BY <3>2, GoneIsBounded
    <3>4. Cardinality(Gone) \in Nat
      <4>1. 1 \in Int /\ MaxEntities \in Int
        BY ProjectionsAssumption
      <4>2. IsFiniteSet(Entities)
        BY <4>1, FS_Interval DEF Entities
      <4>3. QED
        BY <4>2, FS_Subset, FS_CardinalityType DEF Gone
    <3>5. QED
      BY <3>1, <3>3, <3>4
  <2>3. TypeOK
    BY <1>1, <2>2 DEF PInv, EInv, TypeOK
  <2>4. QED
    BY <2>1, <2>3 DEF NamesSurviveMerges
<1>2. QED
  BY <1>1, InitPInv, StepPInv, InitEInv, StepEInv, PTL DEF Spec

-----------------------------------------------------------------------------
(* The context of a request.  First, the searches that are made for it. *)

Queries ==
  {[by |-> b] : b \in {"project", "applies", "app", "global", "query"}}
  \cup {[by |-> "entity", id |-> request.entities[i]] : i \in DOMAIN request.entities}

Has(s, x) == \E i \in 1..Len(s) : s[i] = x

\* What one of two sequences has, the two together have.
LEMMA ConcatHas ==
  ASSUME NEW S, NEW s \in Seq(S), NEW t \in Seq(S)
  PROVE  s \o t \in Seq(S) /\ \A x : Has(s, x) \/ Has(t, x) => Has(s \o t, x)
<1> USE DEF Has
<1>1. /\ s \o t \in Seq(S) /\ Len(s \o t) = Len(s) + Len(t)
      /\ \A i \in 1..Len(s) + Len(t) :
           (s \o t)[i] = IF i <= Len(s) THEN s[i] ELSE t[i - Len(s)]
  BY ConcatProperties
<1>2. Len(s) \in Nat /\ Len(t) \in Nat
  OBVIOUS
<1>3. ASSUME NEW x, Has(s, x) PROVE Has(s \o t, x)
  <2>1. PICK i \in 1..Len(s) : s[i] = x
    BY <1>3
  <2>2. i \in 1..Len(s) + Len(t) /\ (s \o t)[i] = x
    BY <1>1, <1>2, <2>1
  <2>3. QED
    BY <1>1, <2>2
<1>4. ASSUME NEW x, Has(t, x) PROVE Has(s \o t, x)
  <2>1. PICK i \in 1..Len(t) : t[i] = x
    BY <1>4
  <2>2. Len(s) + i \in 1..Len(s) + Len(t) /\ ~(Len(s) + i <= Len(s)) /\ Len(s) + i - Len(s) = i
    BY <1>2
  <2>3. (s \o t)[Len(s) + i] = x
    BY <1>1, <2>1, <2>2
  <2>4. QED
    BY <1>1, <2>2, <2>3
<1>5. QED
  BY <1>1, <1>3, <1>4

\* The searches are for the project, the app, the entities and all that is global.
LEMMA SearchesAre ==
  ASSUME request \in Requests
  PROVE  /\ Ctx!Searches \in Seq(Queries)
         /\ request.project # None => Has(Ctx!Searches, [by |-> "project"])
         /\ request.app # None => Has(Ctx!Searches, [by |-> "app"])
         /\ \A i \in DOMAIN request.entities :
              Has(Ctx!Searches, [by |-> "entity", id |-> request.entities[i]])
         /\ Has(Ctx!Searches, [by |-> "global"])
<1> DEFINE P1 == IF request.project # None THEN << [by |-> "project"] >> ELSE << >>
           P2 == IF request.app # None THEN << [by |-> "applies"], [by |-> "app"] >> ELSE << >>
           P3 == [i \in DOMAIN request.entities |-> [by |-> "entity", id |-> request.entities[i]]]
           P4 == << [by |-> "global"] >>
           P5 == IF request.query # "none" THEN << [by |-> "query"] >> ELSE << >>
<1>1. Len(request.entities) \in Nat /\ DOMAIN request.entities = 1..Len(request.entities)
  BY ContextAssumption
<1>2. P1 \in Seq(Queries) /\ (request.project # None => Has(P1, [by |-> "project"]))
  <2>1. [by |-> "project"] \in Queries
    BY DEF Queries
  <2>2. QED
    BY <2>1 DEF Has
<1>3. P2 \in Seq(Queries) /\ (request.app # None => Has(P2, [by |-> "app"]))
  <2>1. [by |-> "applies"] \in Queries /\ [by |-> "app"] \in Queries
    BY DEF Queries
  <2>2. CASE request.app # None
    <3>1. << [by |-> "applies"], [by |-> "app"] >>[2] = [by |-> "app"]
          /\ Len(<< [by |-> "applies"], [by |-> "app"] >>) = 2
      OBVIOUS
    <3>2. QED
      BY <2>1, <2>2, <3>1 DEF Has
  <2>3. QED
    BY <2>2
<1>4. /\ P3 \in Seq(Queries)
      /\ \A i \in DOMAIN request.entities :
           Has(P3, [by |-> "entity", id |-> request.entities[i]])
  <2>1. P3 \in [1..Len(request.entities) -> Queries]
    BY <1>1 DEF Queries
  <2>2. P3 \in Seq(Queries)
    BY <1>1, <2>1, SeqDef
  <2>3. Len(P3) = Len(request.entities)
    BY <1>1, <2>1, <2>2
  <2>4. QED
    BY <1>1, <2>2, <2>3 DEF Has
<1>5. P4 \in Seq(Queries) /\ Has(P4, [by |-> "global"])
  BY DEF Queries, Has
<1>6. P5 \in Seq(Queries)
  <2>1. [by |-> "query"] \in Queries
    BY DEF Queries
  <2>2. QED
    BY <2>1
<1>7. Ctx!Searches = P1 \o P2 \o P3 \o P4 \o P5
  BY DEF Ctx!Searches
<1> HIDE DEF P1, P2, P3, P4, P5
<1>8. P1 \o P2 \in Seq(Queries) /\ \A x : Has(P1, x) \/ Has(P2, x) => Has(P1 \o P2, x)
  BY <1>2, <1>3, ConcatHas
<1>9. /\ P1 \o P2 \o P3 \in Seq(Queries)
      /\ \A x : Has(P1 \o P2, x) \/ Has(P3, x) => Has(P1 \o P2 \o P3, x)
  BY <1>8, <1>4, ConcatHas
<1>10. /\ P1 \o P2 \o P3 \o P4 \in Seq(Queries)
       /\ \A x : Has(P1 \o P2 \o P3, x) \/ Has(P4, x) => Has(P1 \o P2 \o P3 \o P4, x)
  BY <1>9, <1>5, ConcatHas
<1>11. /\ P1 \o P2 \o P3 \o P4 \o P5 \in Seq(Queries)
       /\ \A x : Has(P1 \o P2 \o P3 \o P4, x) => Has(P1 \o P2 \o P3 \o P4 \o P5, x)
  BY <1>10, <1>6, ConcatHas
<1>12. QED
  BY <1>2, <1>3, <1>4, <1>5, <1>7, <1>8, <1>9, <1>10, <1>11

\* Whatever is meant for a request is what one of its searches by scope is about.
LEMMA SearchesReach ==
  ASSUME request \in Requests, NEW k \in Kinds, NEW st,
         Ctx!Eligible(k, st, k.apps, k.entities)
  PROVE  \E i \in 1..Len(Ctx!Searches) :
           Ctx!Searches[i].by # "query" /\ Ctx!About(Ctx!Searches[i], k)
<1>1. k.scope \in {"global", "app", "project", "entity"} /\ k.key # None
  BY ContextAssumption
<1>2. CASE k.scope = "global"
  <2>1. PICK i \in 1..Len(Ctx!Searches) : Ctx!Searches[i] = [by |-> "global"]
    BY SearchesAre DEF Has
  <2>2. QED
    BY <1>2, <2>1 DEF Ctx!About
<1>3. CASE k.scope = "app"
  <2>1. k.key = request.app /\ request.app # None
    BY <1>1, <1>3 DEF Ctx!Eligible
  <2>2. PICK i \in 1..Len(Ctx!Searches) : Ctx!Searches[i] = [by |-> "app"]
    BY <2>1, SearchesAre DEF Has
  <2>3. QED
    BY <1>3, <2>1, <2>2 DEF Ctx!About
<1>4. CASE k.scope = "project"
  <2>1. k.key = request.project /\ request.project # None
    BY <1>1, <1>4 DEF Ctx!Eligible
  <2>2. PICK i \in 1..Len(Ctx!Searches) : Ctx!Searches[i] = [by |-> "project"]
    BY <2>1, SearchesAre DEF Has
  <2>3. QED
    BY <1>4, <2>1, <2>2 DEF Ctx!About
<1>5. CASE k.scope = "entity"
  <2>1. PICK j \in DOMAIN request.entities : request.entities[j] \in k.entities
    BY <1>5 DEF Ctx!Eligible, Ctx!Range
  <2>2. PICK i \in 1..Len(Ctx!Searches) :
               Ctx!Searches[i] = [by |-> "entity", id |-> request.entities[j]]
    BY <2>1, SearchesAre DEF Has
  <2>3. QED
    BY <2>1, <2>2 DEF Ctx!About
<1>6. QED
  BY <1>1, <1>2, <1>3, <1>4, <1>5

-----------------------------------------------------------------------------
(* Scores *)

\* A memory's trust, weighed by its confidence, is a tenth of the score, and three fifths of
\* that when the trust is not high.
LEMMA TrustWeighs ==
  ASSUME NEW t \in 1..5, NEW c \in 0..100
  PROVE  (t * c) \div 5 \in 0..100 /\ (t <= 3 => (t * c) \div 5 \in 0..60)
<1>1. CASE t = 1  BY <1>1
<1>2. CASE t = 2  BY <1>2
<1>3. CASE t = 3  BY <1>3
<1>4. CASE t = 4  BY <1>4
<1>5. CASE t = 5  BY <1>5
<1>6. QED
  BY <1>1, <1>2, <1>3, <1>4, <1>5

\* The score without boosts is between 75 and 600, and 560 when the trust is not high.
LEMMA BlendBounded ==
  ASSUME NEW k \in Kinds, NEW f \in BOOLEAN
  PROVE  Ctx!Blended(k, f) \in 75..600 /\ (k.trust <= 3 => Ctx!Blended(k, f) <= 560)
<1> DEFINE w == (k.trust * k.confidence) \div 5
<1>1. w \in 0..100 /\ (k.trust <= 3 => w \in 0..60) /\ k.importance \in 0..100
  <2>1. k.trust \in 1..5 /\ k.confidence \in 0..100 /\ k.importance \in 0..100
    BY ContextAssumption
  <2>2. QED
    BY <2>1, TrustWeighs
<1> DEFINE x == IF f THEN 200 ELSE 0
           y == IF k.scope = "global" THEN 75 ELSE 150
           z == IF k.type \in {"episode", "task"} THEN 0 ELSE 50
           i == k.importance
<1>2. Ctx!Blended(k, f) = x + y + i + w + z
  BY DEF Ctx!Blended
<1>3. x \in 0..200 /\ y \in 75..150 /\ z \in 0..50 /\ i \in 0..100
  BY <1>1
<1> HIDE DEF w, x, y, z, i
<1>4. x + y + i + w + z \in 75..600 /\ (w \in 0..60 => x + y + i + w + z <= 560)
  BY ONLY <1>1, <1>3
<1>5. QED
  BY <1>1, <1>2, <1>4

\* One boost more is worth 500, and 1000 if it is not the one for trust.
LEMMA BoostsAdd ==
  ASSUME NEW more, NEW less, less \subseteq more,
         more \subseteq {"decision", "app", "entity", "trust"},
         less # more
  PROVE  /\ Ctx!Boosted(more) \in Nat /\ Ctx!Boosted(less) \in Nat
         /\ Ctx!Boosted(more) >= Ctx!Boosted(less) + 500
         /\ ~("trust" \in more /\ "trust" \notin less)
              => Ctx!Boosted(more) >= Ctx!Boosted(less) + 1000
<1>1. /\ Ctx!Boost.decision = 4000 /\ Ctx!Boost.app = 2000
      /\ Ctx!Boost.entity = 1000 /\ Ctx!Boost.trust = 500
  BY DEF Ctx!Boost
<1>2. PICK b \in {"decision", "app", "entity", "trust"} : b \in more /\ b \notin less
  OBVIOUS
<1>3. /\ "decision" \in less => "decision" \in more
      /\ "app" \in less => "app" \in more
      /\ "entity" \in less => "entity" \in more
      /\ "trust" \in less => "trust" \in more
  OBVIOUS
<1>4. CASE b = "decision"
  BY ONLY <1>1, <1>2, <1>3, <1>4 DEF Ctx!Boosted
<1>5. CASE b = "app"
  BY ONLY <1>1, <1>2, <1>3, <1>5 DEF Ctx!Boosted
<1>6. CASE b = "entity"
  BY ONLY <1>1, <1>2, <1>3, <1>6 DEF Ctx!Boosted
<1>7. CASE b = "trust"
  BY ONLY <1>1, <1>2, <1>3, <1>7 DEF Ctx!Boosted
<1>8. QED
  BY <1>2, <1>4, <1>5, <1>6, <1>7

\* No score in everything else makes up for a boost.
LEMMA BoostsWin ==
  ASSUME Ctx!TypeOK, NEW m \in Ctx!Ranked, NEW n \in Ctx!Ranked,
         Ctx!BoostsOf(n) \subseteq Ctx!BoostsOf(m), Ctx!BoostsOf(n) # Ctx!BoostsOf(m)
  PROVE  Ctx!Ahead(m, n)
<1>1. /\ m \in Ctx!MemoryIds /\ n \in Ctx!MemoryIds
      /\ kind[m] \in Kinds /\ kind[n] \in Kinds
      /\ candidates[m].found \in BOOLEAN /\ candidates[n].found \in BOOLEAN
  BY DEF Ctx!Ranked, Ctx!TypeOK, Ctx!Finds
<1> DEFINE bm == Ctx!Blended(kind[m], candidates[m].found)
           bn == Ctx!Blended(kind[n], candidates[n].found)
<1>2. bm \in 75..600 /\ bn \in 75..600 /\ (kind[n].trust <= 3 => bn <= 560)
  BY <1>1, BlendBounded
<1>3. /\ Ctx!BoostsOf(m) \subseteq {"decision", "app", "entity", "trust"}
      /\ "trust" \in Ctx!BoostsOf(n) <=> kind[n].trust >= 4
  BY DEF Ctx!BoostsOf, Ctx!Boosts
<1>4. kind[n].trust \in 1..5
  BY <1>1, ContextAssumption
<1> DEFINE hm == Ctx!Boosted(Ctx!BoostsOf(m))
           hn == Ctx!Boosted(Ctx!BoostsOf(n))
<1>5. /\ hm \in Nat /\ hn \in Nat /\ hm >= hn + 500
      /\ "trust" \in Ctx!BoostsOf(n) => hm >= hn + 1000
  BY <1>3, BoostsAdd
<1>6. Ctx!Score(m) = bm + hm /\ Ctx!Score(n) = bn + hn
  BY DEF Ctx!Score
<1> HIDE DEF bm, bn, hm, hn
<1>7. CASE "trust" \in Ctx!BoostsOf(n)
  BY <1>2, <1>5, <1>6, <1>7 DEF Ctx!Ahead
<1>8. CASE "trust" \notin Ctx!BoostsOf(n)
  <2>1. kind[n].trust <= 3
    BY <1>3, <1>4, <1>8
  <2>2. QED
    BY <1>2, <1>5, <1>6, <2>1 DEF Ctx!Ahead
<1>9. QED
  BY <1>7, <1>8

-----------------------------------------------------------------------------
(* What has been read *)

\* Reads are over once the call or its searches are.
Read ==
  /\ outcome # "pending" => rows = {}
  /\ step = Len(Ctx!Searches) + 1 => rows = {}

\* The histories are what they say.
History ==
  \A m \in Ctx!MemoryIds :
    (Ctx!EligibleNow(m) => m \in eligible) /\ (m \in always => Ctx!EligibleNow(m))

\* Whoever looks eligible by a status that was read was so at some time.
RowsSeen ==
  \A r \in rows :
    Ctx!Eligible(kind[r.id], r.status, kind[r.id].apps, kind[r.id].entities) => r.id \in eligible

FoundSeen ==
  \A m \in Ctx!MemoryIds : candidates[m] # None =>
    /\ \/ standing[m] = "gone"
       \/ candidates[m].apps = kind[m].apps /\ candidates[m].entities = kind[m].entities
    /\ Ctx!Eligible(kind[m], candidates[m].status, kind[m].apps, kind[m].entities) => m \in eligible

\* A search by scope that is over has found all that it is about and that stayed eligible;
\* the search under way has found it, or has its row.
FoundAt(i, m) ==
  /\ i < step => candidates[m] # None
  /\ i = step /\ rows # {} => candidates[m] # None \/ \E r \in rows : r.id = m

Covered ==
  \A i \in 1..Len(Ctx!Searches), m \in always \ crowded :
    Ctx!Searches[i].by # "query" /\ Ctx!About(Ctx!Searches[i], kind[m]) => FoundAt(i, m)

Shown == \A m \in shown : m \in eligible \/ standing[m] = "gone"

CInv ==
  /\ Ctx!TypeOK /\ Read /\ History /\ RowsSeen /\ FoundSeen /\ Covered /\ Shown
  /\ NothingIsMissed

-----------------------------------------------------------------------------
(* Steps *)

\* What the request decides does not change.
LEMMA SameRequest ==
  ASSUME request' = request
  PROVE  /\ Ctx!Searches' = Ctx!Searches /\ Ctx!Visible' = Ctx!Visible
         /\ \A k, st, apps, es : Ctx!Eligible(k, st, apps, es)' <=> Ctx!Eligible(k, st, apps, es)
         /\ \A q, k : Ctx!About(q, k)' <=> Ctx!About(q, k)
<1>1. Ctx!Searches' = Ctx!Searches
  BY DEF Ctx!Searches
<1>2. Ctx!Visible' = Ctx!Visible
  BY DEF Ctx!Visible
<1>3. \A k, st, apps, es : Ctx!Eligible(k, st, apps, es)' <=> Ctx!Eligible(k, st, apps, es)
  BY <1>2 DEF Ctx!Eligible
<1>4. \A q, k : Ctx!About(q, k)' <=> Ctx!About(q, k)
  BY DEF Ctx!About
<1>5. QED
  BY <1>1, <1>2, <1>3, <1>4

\* What a step that reads nothing of the store and writes nothing to it leaves alone.
LEMMA SameStore ==
  ASSUME request' = request, kind' = kind, standing' = standing, eligible' = eligible,
         always' = always
  PROVE  /\ History => History'
         /\ candidates' = candidates /\ FoundSeen => FoundSeen'
         /\ shown' = shown /\ Shown => Shown'
         /\ rows' = rows /\ RowsSeen => RowsSeen'
<1>1. \A k, st, apps, es : Ctx!Eligible(k, st, apps, es)' <=> Ctx!Eligible(k, st, apps, es)
  BY SameRequest
<1>2. \A m : Ctx!EligibleNow(m)' <=> Ctx!EligibleNow(m)
  BY <1>1 DEF Ctx!EligibleNow
<1>3. Ctx!MemoryIds' = Ctx!MemoryIds
  BY DEF Ctx!MemoryIds
<1>4. History => History'
  BY <1>2, <1>3 DEF History
<1>5. candidates' = candidates /\ FoundSeen => FoundSeen'
  BY <1>1, <1>3 DEF FoundSeen
<1>6. shown' = shown /\ Shown => Shown'
  BY DEF Shown
<1>7. rows' = rows /\ RowsSeen => RowsSeen'
  BY <1>1 DEF RowsSeen
<1>8. QED
  BY <1>4, <1>5, <1>6, <1>7

\* What fits depends on the request, and on what is known of the memories.
LEMMA SameFits ==
  ASSUME request' = request, kind' = kind, candidates' = candidates, NEW items, NEW m
  PROVE  Ctx!Fits(items, m)' <=> Ctx!Fits(items, m)
BY
DEF Ctx!Fits, Ctx!Cost, Ctx!Ahead, Ctx!Score, Ctx!Blended, Ctx!Boosted, Ctx!BoostsOf, Ctx!Boosts,
    Ctx!Boost

LEMMA InitCInv == ASSUME Ctx!Init PROVE CInv
<1>1. /\ request \in Requests /\ step = 1 /\ rows = {} /\ outcome = "pending"
      /\ candidates = [m \in Ctx!MemoryIds |-> None] /\ shown = {} /\ crowded = {}
      /\ eligible = {m \in Ctx!MemoryIds : Ctx!EligibleNow(m)} /\ always = eligible
  BY DEF Ctx!Init
<1>2. Len(Ctx!Searches) \in Nat
  BY <1>1, SearchesAre
<1>3. Ctx!TypeOK
  <2>1. /\ kind \in [Ctx!MemoryIds -> Kinds] /\ updated \in [Ctx!MemoryIds -> Nat]
        /\ changes \in 0..MaxChanges
    BY ContextAssumption DEF Ctx!Init, Ctx!MemoryIds
  <2>2. standing \in [Ctx!MemoryIds -> Ctx!Statuses]
    BY DEF Ctx!Init, Ctx!Statuses
  <2>3. QED
    BY <1>1, <1>2, <2>1, <2>2 DEF Ctx!TypeOK
<1>4. Read /\ RowsSeen /\ FoundSeen /\ Shown /\ NothingIsMissed
  BY <1>1 DEF Read, RowsSeen, FoundSeen, Shown, NothingIsMissed, Ctx!NothingIsMissed
<1>5. History
  BY <1>1 DEF History
<1>6. Covered
  BY <1>1 DEF Covered, FoundAt
<1>7. QED
  BY <1>3, <1>4, <1>5, <1>6 DEF CInv

LEMMA SearchStep == ASSUME CInv, Ctx!Search PROVE CInv'
<1> DEFINE q == Ctx!Searches[step]
           found == Ctx!Newest(Ctx!Hits(q))
           row(m) == [id |-> m, status |-> standing[m], updated |-> updated[m]]
<1>1. /\ outcome = "pending" /\ step <= Len(Ctx!Searches) /\ rows = {}
      /\ kind' = kind /\ standing' = standing /\ updated' = updated /\ request' = request
      /\ candidates' = candidates /\ shown' = shown /\ changes' = changes
      /\ eligible' = eligible /\ always' = always
  BY DEF Ctx!Search, Ctx!storeVars
<1>2. /\ Ctx!Searches' = Ctx!Searches /\ Ctx!Visible' = Ctx!Visible
      /\ Ctx!MemoryIds' = Ctx!MemoryIds
      /\ \A k, st, apps, es : Ctx!Eligible(k, st, apps, es)' <=> Ctx!Eligible(k, st, apps, es)
      /\ \A a, k : Ctx!About(a, k)' <=> Ctx!About(a, k)
  BY <1>1, SameRequest DEF Ctx!MemoryIds
<1>3. \/ outcome' = "refused" /\ step' = step /\ rows' = rows /\ crowded' = crowded
      \/ /\ rows' = {row(m) : m \in found} /\ outcome' = outcome
         /\ crowded' = crowded \cup (Ctx!Hits(q) \ found)
         /\ step' = IF found = {} THEN step + 1 ELSE step
  BY DEF Ctx!Search
<1>4. /\ found \subseteq Ctx!Hits(q)
      /\ Ctx!Hits(q) \subseteq {m \in Ctx!MemoryIds : standing[m] \in Ctx!Visible}
  BY DEF Ctx!Newest, Ctx!Hits
<1>5. Len(Ctx!Searches) \in Nat /\ step \in 1..Len(Ctx!Searches) + 1
  BY SearchesAre DEF CInv, Ctx!TypeOK
<1>6. step' \in 1..Len(Ctx!Searches) + 1
  BY <1>1, <1>3, <1>5
<1>7. rows' \subseteq [id : Ctx!MemoryIds, status : Ctx!Visible, updated : Nat]
  <2>1. \A m \in found : row(m) \in [id : Ctx!MemoryIds, status : Ctx!Visible, updated : Nat]
    BY <1>4 DEF CInv, Ctx!TypeOK
  <2>2. QED
    BY <1>1, <1>3, <2>1
<1>8. crowded' \subseteq Ctx!MemoryIds
  BY <1>3, <1>4 DEF CInv, Ctx!TypeOK
<1>9. Ctx!TypeOK'
  BY <1>1, <1>2, <1>3, <1>6, <1>7, <1>8 DEF CInv, Ctx!TypeOK, Ctx!Finds, Ctx!Statuses
<1>10. Read'
  <2>1. CASE rows' = rows
    BY <1>1, <2>1 DEF Read
  <2>2. CASE rows' = {row(m) : m \in found} /\ outcome' = outcome
             /\ step' = IF found = {} THEN step + 1 ELSE step
    BY <1>1, <1>2, <1>5, <2>2 DEF Read
  <2>3. QED
    BY <1>3, <2>1, <2>2
<1>11. History' /\ FoundSeen' /\ Shown'
  BY <1>1, SameStore DEF CInv
<1>12. RowsSeen'
  <2>1. \A m \in found : Ctx!EligibleNow(m) => m \in eligible
    BY <1>4 DEF CInv, History
  <2>2. QED
    BY <1>1, <1>2, <1>3, <2>1 DEF CInv, RowsSeen, Ctx!EligibleNow
<1>13. Covered'
  <2> SUFFICES ASSUME NEW i \in 1..Len(Ctx!Searches), NEW m \in always \ crowded',
                      Ctx!Searches[i].by # "query", Ctx!About(Ctx!Searches[i], kind[m])
               PROVE  FoundAt(i, m)'
    BY <1>1, <1>2 DEF Covered
  <2>1. m \in always \ crowded /\ m \in Ctx!MemoryIds
    BY <1>3 DEF CInv, Ctx!TypeOK
  <2>2. i < step => candidates[m] # None
    BY <2>1 DEF CInv, Covered, FoundAt
  <2>3. CASE rows' = rows /\ step' = step
    BY <1>1, <2>2, <2>3 DEF FoundAt
  <2>4. CASE /\ rows' = {row(n) : n \in found}
             /\ crowded' = crowded \cup (Ctx!Hits(q) \ found)
             /\ step' = IF found = {} THEN step + 1 ELSE step
    <3>1. i = step => m \in found
      <4>1. Ctx!EligibleNow(m)
        BY <2>1 DEF CInv, History
      <4>2. standing[m] \in Ctx!Visible
        BY <4>1 DEF Ctx!EligibleNow, Ctx!Eligible
      <4>3. i = step => m \in Ctx!Hits(q)
        BY <2>1, <4>2 DEF Ctx!Hits
      <4>4. QED
        BY <2>4, <4>3
    <3>2. i = step => \E r \in rows' : r.id = m
      <4>1. m \in found => row(m) \in rows' /\ row(m).id = m
        BY <2>4
      <4>2. QED
        BY <3>1, <4>1
    <3>3. i < step' => i < step \/ (found = {} /\ i = step)
      <4>1. i \in Nat /\ step \in Nat
        BY <1>5
      <4> HIDE DEF found, row
      <4>2. step' = step \/ (found = {} /\ step' = step + 1)
        BY <2>4
      <4>3. QED
        BY <4>1, <4>2
    <3>4. i = step' => i = step \/ found = {}
      BY <2>4
    <3>5. QED
      BY <1>1, <2>2, <2>4, <3>1, <3>2, <3>3, <3>4 DEF FoundAt
  <2>5. QED
    BY <1>3, <2>3, <2>4
<1>14. NothingIsMissed'
  BY <1>1, <1>3 DEF NothingIsMissed, Ctx!NothingIsMissed
<1>15. QED
  BY <1>9, <1>10, <1>11, <1>12, <1>13, <1>14 DEF CInv

LEMMA HydrateStep == ASSUME CInv, Ctx!Hydrate PROVE CInv'
<1> DEFINE q == Ctx!Searches[step]
<1>1. /\ kind' = kind /\ standing' = standing /\ updated' = updated /\ request' = request
      /\ outcome' = outcome /\ shown' = shown /\ changes' = changes
      /\ eligible' = eligible /\ always' = always /\ crowded' = crowded
  BY DEF Ctx!Hydrate, Ctx!storeVars, Ctx!historyVars
<1>2. PICK r \in rows :
        /\ candidates' = [candidates EXCEPT ![r.id] =
             IF candidates[r.id] = None
             THEN [status |-> r.status, updated |-> r.updated,
                   apps |-> IF standing[r.id] # "gone" THEN kind[r.id].apps ELSE {},
                   entities |-> IF standing[r.id] # "gone" THEN kind[r.id].entities ELSE {},
                   found |-> q.by = "query", alias |-> q.by = "entity"]
             ELSE [candidates[r.id] EXCEPT !.found = @ \/ q.by = "query",
                                           !.alias = @ \/ q.by = "entity"]]
        /\ rows' = rows \ {r}
        /\ step' = IF rows' = {} THEN step + 1 ELSE step
  BY DEF Ctx!Hydrate
<1> DEFINE new == candidates'[r.id]
           known == candidates[r.id]
<1>3. /\ Ctx!Searches' = Ctx!Searches /\ Ctx!Visible' = Ctx!Visible
      /\ Ctx!MemoryIds' = Ctx!MemoryIds
      /\ \A k, st, apps, es : Ctx!Eligible(k, st, apps, es)' <=> Ctx!Eligible(k, st, apps, es)
      /\ \A a, k : Ctx!About(a, k)' <=> Ctx!About(a, k)
  BY <1>1, SameRequest DEF Ctx!MemoryIds
<1>4. Len(Ctx!Searches) \in Nat /\ step \in 1..Len(Ctx!Searches) /\ outcome = "pending"
  BY <1>2, SearchesAre DEF CInv, Ctx!TypeOK, Read
<1>5. /\ r \in [id : Ctx!MemoryIds, status : Ctx!Visible, updated : Nat] /\ r.id \in Ctx!MemoryIds
      /\ kind[r.id] \in Kinds /\ Ctx!Visible \subseteq Ctx!Statuses
      /\ candidates \in [Ctx!MemoryIds -> Ctx!Finds \cup {None}] /\ None \notin Ctx!Finds
      /\ candidates[r.id] # None => candidates[r.id].status \in Ctx!Visible
           /\ candidates[r.id].apps \subseteq kind[r.id].apps
           /\ candidates[r.id].entities \subseteq kind[r.id].entities
  BY <1>2, ContextAssumption DEF CInv, Ctx!TypeOK, Ctx!Visible, Ctx!Statuses
<1>6. /\ new \in Ctx!Finds /\ new.status \in Ctx!Visible
      /\ new.apps \subseteq kind[r.id].apps /\ new.entities \subseteq kind[r.id].entities
      /\ \/ standing[r.id] = "gone"
         \/ new.apps = kind[r.id].apps /\ new.entities = kind[r.id].entities
      /\ Ctx!Eligible(kind[r.id], new.status, kind[r.id].apps, kind[r.id].entities)
           => r.id \in eligible
  <2>1. CASE known = None
    <3> DEFINE there == standing[r.id] # "gone"
               apps == IF there THEN kind[r.id].apps ELSE {}
               es == IF there THEN kind[r.id].entities ELSE {}
    <3>1. new = [status |-> r.status, updated |-> r.updated, apps |-> apps, entities |-> es,
                 found |-> q.by = "query", alias |-> q.by = "entity"]
      BY <1>2, <1>5, <2>1
    <3>2. r.status \in Ctx!Visible /\ r.status \in Ctx!Statuses /\ r.updated \in Nat
      BY <1>5
    <3>3. /\ apps \subseteq kind[r.id].apps /\ es \subseteq kind[r.id].entities
          /\ there => apps = kind[r.id].apps /\ es = kind[r.id].entities
      OBVIOUS
    <3>4. /\ apps \in SUBSET UNION {k.apps : k \in Kinds}
          /\ es \in SUBSET UNION {k.entities : k \in Kinds}
      BY <1>5, <3>3
    <3>5. Ctx!Eligible(kind[r.id], r.status, kind[r.id].apps, kind[r.id].entities)
            => r.id \in eligible
      BY <1>2 DEF CInv, RowsSeen
    <3> HIDE DEF apps, es, new
    <3>6. new \in Ctx!Finds
      BY <3>1, <3>2, <3>4 DEF Ctx!Finds
    <3>7. new.status = r.status /\ new.apps = apps /\ new.entities = es
      BY <3>1
    <3>8. QED
      BY <3>2, <3>3, <3>5, <3>6, <3>7
  <2>2. CASE known # None
    <3>1. known \in Ctx!Finds
      BY <1>5, <2>2
    <3>2. new = [known EXCEPT !.found = @ \/ q.by = "query", !.alias = @ \/ q.by = "entity"]
      BY <1>2, <1>5, <2>2
    <3>3. new \in Ctx!Finds /\ new.status = known.status /\ new.apps = known.apps
          /\ new.entities = known.entities
      BY <3>1, <3>2 DEF Ctx!Finds
    <3>4. /\ \/ standing[r.id] = "gone"
             \/ known.apps = kind[r.id].apps /\ known.entities = kind[r.id].entities
          /\ Ctx!Eligible(kind[r.id], known.status, kind[r.id].apps, kind[r.id].entities)
               => r.id \in eligible
      <4>1. r.id \in Ctx!MemoryIds /\ candidates[r.id] # None
        BY <1>5, <2>2
      <4>2. QED
        BY <4>1 DEF CInv, FoundSeen
    <3> HIDE DEF new, known
    <3>5. known.status \in Ctx!Visible /\ known.apps \subseteq kind[r.id].apps
          /\ known.entities \subseteq kind[r.id].entities
      BY <1>5, <2>2 DEF known
    <3>6. QED
      BY <3>3, <3>4, <3>5
  <2>3. QED
    BY <2>1, <2>2
<1>7. /\ candidates' \in [Ctx!MemoryIds -> Ctx!Finds \cup {None}] /\ new # None
      /\ \A m \in Ctx!MemoryIds : m # r.id => candidates'[m] = candidates[m]
  <2>1. \E c : candidates' = [candidates EXCEPT ![r.id] = c]
    BY <1>2
  <2>2. PICK c : candidates' = [candidates EXCEPT ![r.id] = c]
    BY <2>1
  <2>3. new = c
    BY <1>5, <2>2
  <2>4. c \in Ctx!Finds
    BY <1>6, <2>3
  <2>5. QED
    BY <1>5, <2>2, <2>3, <2>4
<1> HIDE DEF new, known
<1>8. step' \in 1..Len(Ctx!Searches) + 1
  BY <1>2, <1>4
<1>9. Ctx!TypeOK'
  <2>1. \A m \in Ctx!MemoryIds : candidates'[m] # None =>
          /\ candidates'[m].status \in Ctx!Visible
          /\ candidates'[m].apps \subseteq kind[m].apps
          /\ candidates'[m].entities \subseteq kind[m].entities
    <3> TAKE m \in Ctx!MemoryIds
    <3>1. CASE m = r.id
      BY <1>6, <3>1 DEF new
    <3>2. CASE m # r.id
      BY <1>7, <3>2 DEF CInv, Ctx!TypeOK
    <3>3. QED
      BY <3>1, <3>2
  <2>2. rows' \subseteq [id : Ctx!MemoryIds, status : Ctx!Visible, updated : Nat]
    BY <1>2 DEF CInv, Ctx!TypeOK
  <2>3. Ctx!Finds' = Ctx!Finds /\ Ctx!Statuses' = Ctx!Statuses
    BY DEF Ctx!Finds, Ctx!Statuses
  <2>4. QED
    BY <1>1, <1>3, <1>7, <1>8, <2>1, <2>2, <2>3 DEF CInv, Ctx!TypeOK
<1>10. Read'
  <2>1. step' = Len(Ctx!Searches) + 1 => rows' = {}
    BY <1>2, <1>4
  <2>2. QED
    BY <1>1, <1>3, <1>4, <2>1 DEF Read
<1>11. History' /\ Shown'
  BY <1>1, SameStore DEF CInv
<1>12. RowsSeen'
  BY <1>1, <1>2, <1>3 DEF CInv, RowsSeen
<1>13. FoundSeen'
  <2> SUFFICES ASSUME NEW m \in Ctx!MemoryIds, candidates'[m] # None
               PROVE  /\ \/ standing[m] = "gone"
                         \/ /\ candidates'[m].apps = kind[m].apps
                            /\ candidates'[m].entities = kind[m].entities
                      /\ Ctx!Eligible(kind[m], candidates'[m].status, kind[m].apps,
                                      kind[m].entities)
                           => m \in eligible
    BY <1>1, <1>3 DEF FoundSeen
  <2>1. CASE m = r.id
    BY <1>6, <2>1 DEF new
  <2>2. CASE m # r.id
    BY <1>7, <2>2 DEF CInv, FoundSeen
  <2>3. QED
    BY <2>1, <2>2
<1>14. Covered'
  <2> SUFFICES ASSUME NEW i \in 1..Len(Ctx!Searches), NEW m \in always \ crowded,
                      Ctx!Searches[i].by # "query", Ctx!About(Ctx!Searches[i], kind[m])
               PROVE  FoundAt(i, m)'
    BY <1>1, <1>3 DEF Covered
  <2>1. m \in Ctx!MemoryIds /\ FoundAt(i, m)
    BY DEF CInv, Covered, Ctx!TypeOK
  <2>2. candidates[m] # None => candidates'[m] # None
    BY <1>7, <2>1 DEF new
  <2>3. i = step => candidates'[m] # None \/ \E o \in rows' : o.id = m
    <3>1. ASSUME NEW o \in rows, o.id = m PROVE candidates'[m] # None \/ o \in rows'
      <4>1. o = r => candidates'[m] # None
        BY <1>7, <3>1 DEF new
      <4>2. QED
        BY <1>2, <4>1
    <3>2. QED
      BY <1>2, <2>1, <2>2, <3>1 DEF FoundAt
  <2>4. /\ rows' # {} => step' = step
        /\ rows' = {} => step' = step + 1
    BY <1>2
  <2>5. i \in Nat /\ step \in Nat
    BY <1>4
  <2>6. i < step => candidates'[m] # None
    BY <2>1, <2>2 DEF FoundAt
  <2>7. CASE rows' # {}
    BY <2>3, <2>4, <2>6, <2>7 DEF FoundAt
  <2>8. CASE rows' = {}
    <3>1. i = step => candidates'[m] # None
      BY <2>3, <2>8
    <3>2. i < step' => i < step \/ i = step
      BY <2>4, <2>5, <2>8
    <3>3. QED
      BY <2>6, <2>8, <3>1, <3>2 DEF FoundAt
  <2>9. QED
    BY <2>7, <2>8
<1>15. NothingIsMissed'
  BY <1>1, <1>4 DEF NothingIsMissed, Ctx!NothingIsMissed
<1>16. QED
  BY <1>9, <1>10, <1>11, <1>12, <1>13, <1>14, <1>15 DEF CInv

\* Once all searches are over, whoever is still meant for the request is ranked.
LEMMA AllAreRanked ==
  ASSUME CInv, step = Len(Ctx!Searches) + 1, NEW m \in always \ crowded
  PROVE  m \in Ctx!Ranked
<1>1. m \in Ctx!MemoryIds /\ kind[m] \in Kinds /\ request \in Requests /\ Len(Ctx!Searches) \in Nat
  BY SearchesAre DEF CInv, Ctx!TypeOK
<1>2. Ctx!EligibleNow(m) /\ standing[m] \in Ctx!Visible
  BY <1>1 DEF CInv, History, Ctx!EligibleNow, Ctx!Eligible
<1>3. PICK i \in 1..Len(Ctx!Searches) :
             Ctx!Searches[i].by # "query" /\ Ctx!About(Ctx!Searches[i], kind[m])
  BY <1>1, <1>2, SearchesReach DEF Ctx!EligibleNow
<1>4. candidates[m] # None
  BY <1>1, <1>3 DEF CInv, Covered, FoundAt
<1>5. /\ candidates[m].status \in Ctx!Visible
      /\ candidates[m].apps = kind[m].apps /\ candidates[m].entities = kind[m].entities
  BY <1>1, <1>2, <1>4 DEF CInv, Ctx!TypeOK, FoundSeen, Ctx!Visible
<1>6. Ctx!Eligible(kind[m], candidates[m].status, candidates[m].apps, candidates[m].entities)
  BY <1>2, <1>5 DEF Ctx!EligibleNow, Ctx!Eligible
<1>7. QED
  BY <1>1, <1>4, <1>6 DEF Ctx!Ranked

LEMMA AnswerStep == ASSUME CInv, Ctx!Answer PROVE CInv'
<1>1. /\ kind' = kind /\ standing' = standing /\ updated' = updated /\ request' = request
      /\ step' = step /\ rows' = rows /\ candidates' = candidates /\ changes' = changes
      /\ eligible' = eligible /\ always' = always /\ crowded' = crowded
      /\ outcome' = "done" /\ step = Len(Ctx!Searches) + 1
  BY DEF Ctx!Answer, Ctx!storeVars, Ctx!historyVars
<1>2. PICK items \in SUBSET Ctx!Ranked : Ctx!Rendered(items) /\ shown' = items
  BY DEF Ctx!Answer
<1>3. /\ Ctx!Searches' = Ctx!Searches /\ Ctx!Visible' = Ctx!Visible
      /\ Ctx!MemoryIds' = Ctx!MemoryIds
      /\ Ctx!Finds' = Ctx!Finds /\ Ctx!Statuses' = Ctx!Statuses
      /\ \A a, k : Ctx!About(a, k)' <=> Ctx!About(a, k)
  BY <1>1, SameRequest DEF Ctx!MemoryIds, Ctx!Finds, Ctx!Statuses
<1>4. Ctx!TypeOK'
  <2>1. shown' \subseteq Ctx!MemoryIds
    BY <1>2 DEF Ctx!Ranked
  <2>2. QED
    BY <1>1, <1>3, <2>1 DEF CInv, Ctx!TypeOK
<1>5. Read'
  BY <1>1, <1>3 DEF CInv, Read
<1>6. History' /\ FoundSeen' /\ RowsSeen'
  BY <1>1, SameStore DEF CInv
<1>7. Covered'
  BY <1>1, <1>3 DEF CInv, Covered, FoundAt
<1>8. Shown'
  <2> SUFFICES ASSUME NEW m \in items PROVE m \in eligible \/ standing[m] = "gone"
    BY <1>1, <1>2 DEF Shown
  <2>1. /\ m \in Ctx!MemoryIds /\ candidates[m] # None
        /\ Ctx!Eligible(kind[m], candidates[m].status, candidates[m].apps, candidates[m].entities)
    BY DEF Ctx!Ranked
  <2>2. QED
    BY <2>1 DEF CInv, FoundSeen
<1>9. NothingIsMissed'
  <2> SUFFICES ASSUME NEW m \in always \ crowded
               PROVE  (m \in shown \/ ~Ctx!Fits(shown, m))'
    BY <1>1 DEF NothingIsMissed, Ctx!NothingIsMissed
  <2>1. m \in items <=> Ctx!Fits(items, m)
    BY <1>1, <1>2, AllAreRanked DEF Ctx!Rendered
  <2>2. Ctx!Fits(items, m)' <=> Ctx!Fits(items, m)
    BY <1>1, SameFits
  <2>3. Ctx!Fits(shown, m)' <=> Ctx!Fits(items, m)'
    BY <1>2 DEF Ctx!Fits
  <2>4. QED
    BY <1>2, <2>1, <2>2, <2>3
<1>10. QED
  BY <1>4, <1>5, <1>6, <1>7, <1>8, <1>9 DEF CInv

\* A commit changes what is eligible, and the histories with it; nobody comes back.
LEMMA CommitStep ==
  ASSUME CInv, NEW m \in Ctx!MemoryIds, NEW st \in Ctx!Statuses, Ctx!Commits(m, st),
         standing[m] = "gone" => st = "gone"
  PROVE  CInv'
<1>1. /\ kind' = kind /\ request' = request /\ step' = step /\ outcome' = outcome
      /\ rows' = rows /\ candidates' = candidates /\ shown' = shown /\ crowded' = crowded
      /\ outcome = "pending" /\ changes < MaxChanges /\ changes' = changes + 1
      /\ standing' = [standing EXCEPT ![m] = st]
      /\ updated' = [updated EXCEPT ![m] = MaxMemory + 1 + changes]
      /\ eligible' = eligible \cup {n \in Ctx!MemoryIds : Ctx!EligibleNow(n)'}
      /\ always' = {n \in always : Ctx!EligibleNow(n)'}
  BY DEF Ctx!Commits, Ctx!callVars
<1>2. /\ Ctx!Searches' = Ctx!Searches /\ Ctx!Visible' = Ctx!Visible
      /\ Ctx!MemoryIds' = Ctx!MemoryIds
      /\ Ctx!Finds' = Ctx!Finds /\ Ctx!Statuses' = Ctx!Statuses
      /\ \A k, s, apps, es : Ctx!Eligible(k, s, apps, es)' <=> Ctx!Eligible(k, s, apps, es)
      /\ \A a, k : Ctx!About(a, k)' <=> Ctx!About(a, k)
  BY <1>1, SameRequest DEF Ctx!MemoryIds, Ctx!Finds, Ctx!Statuses
<1>3. /\ eligible \subseteq eligible' /\ always' \subseteq always
      /\ eligible' \subseteq Ctx!MemoryIds /\ always' \subseteq eligible'
  BY <1>1 DEF CInv, Ctx!TypeOK
<1>4. /\ standing \in [Ctx!MemoryIds -> Ctx!Statuses]
      /\ standing' \in [Ctx!MemoryIds -> Ctx!Statuses]
      /\ \A n \in Ctx!MemoryIds : standing[n] = "gone" => standing'[n] = "gone"
  BY <1>1 DEF CInv, Ctx!TypeOK
<1>5. Ctx!TypeOK'
  <2>1. changes' \in 0..MaxChanges /\ MaxMemory + 1 + changes \in Nat
    BY <1>1, ContextAssumption DEF CInv, Ctx!TypeOK
  <2>2. updated' \in [Ctx!MemoryIds -> Nat]
    BY <1>1, <2>1 DEF CInv, Ctx!TypeOK
  <2>3. QED
    BY <1>1, <1>2, <1>3, <1>4, <2>1, <2>2 DEF CInv, Ctx!TypeOK
<1>6. Read'
  BY <1>1, <1>2 DEF CInv, Read
<1>7. History'
  BY <1>1, <1>2 DEF CInv, Ctx!TypeOK, History
<1>8. RowsSeen'
  BY <1>1, <1>2, <1>3 DEF CInv, RowsSeen
<1>9. FoundSeen'
  BY <1>1, <1>2, <1>3, <1>4 DEF CInv, FoundSeen
<1>10. Covered'
  BY <1>1, <1>2, <1>3 DEF CInv, Covered, FoundAt
<1>11. Shown'
  <2>1. shown \subseteq Ctx!MemoryIds
    BY DEF CInv, Ctx!TypeOK
  <2>2. QED
    BY <1>1, <1>3, <1>4, <2>1 DEF CInv, Shown
<1>12. NothingIsMissed'
  BY <1>1 DEF NothingIsMissed, Ctx!NothingIsMissed
<1>13. QED
  BY <1>5, <1>6, <1>7, <1>8, <1>9, <1>10, <1>11, <1>12 DEF CInv

LEMMA StutterCInv == ASSUME CInv, UNCHANGED Ctx!vars PROVE CInv'
<1>1. /\ kind' = kind /\ standing' = standing /\ updated' = updated /\ request' = request
      /\ step' = step /\ rows' = rows /\ candidates' = candidates /\ changes' = changes
      /\ eligible' = eligible /\ always' = always /\ crowded' = crowded
      /\ outcome' = outcome /\ shown' = shown
  BY DEF Ctx!vars, Ctx!storeVars, Ctx!callVars, Ctx!historyVars
<1>2. /\ Ctx!Searches' = Ctx!Searches /\ Ctx!Visible' = Ctx!Visible
      /\ Ctx!MemoryIds' = Ctx!MemoryIds
      /\ Ctx!Finds' = Ctx!Finds /\ Ctx!Statuses' = Ctx!Statuses
      /\ \A a, k : Ctx!About(a, k)' <=> Ctx!About(a, k)
  BY <1>1, SameRequest DEF Ctx!MemoryIds, Ctx!Finds, Ctx!Statuses
<1>3. Ctx!TypeOK' /\ Read' /\ Covered'
  BY <1>1, <1>2 DEF CInv, Ctx!TypeOK, Read, Covered, FoundAt
<1>4. History' /\ FoundSeen' /\ RowsSeen' /\ Shown'
  BY <1>1, SameStore DEF CInv
<1>5. NothingIsMissed'
  <2>1. \A m : Ctx!Fits(shown, m)' <=> Ctx!Fits(shown, m)
    BY <1>1, SameFits
  <2>2. QED
    BY <1>1, <2>1 DEF CInv, NothingIsMissed, Ctx!NothingIsMissed
<1>6. QED
  BY <1>3, <1>4, <1>5 DEF CInv

-----------------------------------------------------------------------------
(* The theorems of the context *)

LEMMA StepCInv == ASSUME CInv, Ctx!Next PROVE CInv'
<1>1. ASSUME NEW m \in Ctx!MemoryIds,
             \/ Ctx!Confirm(m) \/ Ctx!Supersede(m) \/ Ctx!Reinforce(m)
             \/ Ctx!Forget(m) \/ Ctx!Delete(m)
      PROVE  CInv'
  <2>1. \E st \in Ctx!Statuses : Ctx!Commits(m, st) /\ (standing[m] = "gone" => st = "gone")
    BY <1>1 DEF Ctx!Confirm, Ctx!Supersede, Ctx!Reinforce, Ctx!Forget, Ctx!Delete, Ctx!Statuses
  <2>2. QED
    BY <2>1, CommitStep
<1>2. QED
  BY <1>1, SearchStep, HydrateStep, AnswerStep DEF Ctx!Next

\* What a call of assemble_context has read is as old, and as complete, as CInv says.
THEOREM CallInvariant == Ctx!Spec => []CInv
<1>1. CInv /\ [Ctx!Next]_(Ctx!vars) => CInv'
  BY StepCInv, StutterCInv
<1>2. QED
  BY InitCInv, <1>1, PTL DEF Ctx!Spec

\* What the answer of assemble_context shows was meant for the request at some time during
\* the call, or was deleted for good since, whatever other connections committed between
\* its searches (search, hydrate_memory and rank_memories's eligible), and all variables
\* keep their types.
THEOREM ShownIsMeant == Ctx!Spec => []ShownWasEligible
<1>1. CInv => ShownWasEligible
  BY DEF CInv, Shown, ShownWasEligible, Ctx!ShownWasEligible
<1>2. QED
  BY CallInvariant, <1>1, PTL

\* What stays eligible throughout the call is found by one of the searches of
\* assemble_context and shown, unless a search left it out for its limit or the budget of
\* render_memory_context has no room after what is ahead of it.
THEOREM MeantIsShown == Ctx!Spec => []NothingIsMissed
<1>1. CInv => NothingIsMissed
  BY DEF CInv
<1>2. QED
  BY CallInvariant, <1>1, PTL

\* "Hard boosts precede blended ranking": the weights of score leave no way to make up for a
\* boost, for any importance, confidence and trust.
THEOREM BoostsComeFirst == Ctx!Spec => []BoostsPrecedeBlend
<1>1. CInv => BoostsPrecedeBlend
  BY BoostsWin DEF CInv, BoostsPrecedeBlend, Ctx!BoostsPrecedeBlend
<1>2. QED
  BY CallInvariant, <1>1, PTL

=============================================================================
