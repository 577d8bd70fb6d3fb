------------------------------- MODULE MCRecall -------------------------------
(***************************************************************************)
(* Instances for TLC of what is made of memories once they are stored:     *)
(* profiles with the entities they are about (Projections), and the        *)
(* context of a request (ContextAssembly).  They are modelled on their     *)
(* own: in each behavior one of the two moves and the other rests.         *)
(***************************************************************************)
EXTENDS Projections

-----------------------------------------------------------------------------
(* Of the profiles: topics of every type, and shapes that belong to them   *)
(* in different ways.                                                      *)

Topic(type, key) == [type |-> type, key |-> key]
GlobalTopic == Topic("global", "global")
StalkyTopic == Topic("project", "stalky")
SlackTopic  == Topic("app", "slack")

AllNames == {"ann", "anna"}
AllTopics ==
  {GlobalTopic, SlackTopic, StalkyTopic, Topic("entity", 1),
   Topic("category", <<"work">>), Topic("category", <<"work", "rust">>)}
AllShapes ==
  {[scope |-> GlobalTopic, apps |-> {"slack"}, paths |-> {<<"work", "rust">>},
    mentions |-> {"ann"}],
   [scope |-> SlackTopic, apps |-> {}, paths |-> {}, mentions |-> {}],
   [scope |-> StalkyTopic, apps |-> {}, paths |-> {<<"work">>}, mentions |-> {"ann", "anna"}]}

-----------------------------------------------------------------------------
(* The two components *)

CONSTANTS MaxMemory, Kinds, Requests, Limit, MaxChanges, None

VARIABLES
  unit,   \* the component that moves
  kind, standing, updated, request, step, outcome, rows, candidates, shown, changes,
  eligible, always, crowded

contextVars == <<kind, standing, updated, request, step, outcome, rows, candidates, shown,
                 changes, eligible, always, crowded>>
recallVars == <<unit, vars, contextVars>>

Ctx == INSTANCE ContextAssembly WITH status <- standing

\* Of the context: what the checks of a candidate and the levels of trust_rank make sure of.
\* What a scope names is there, shares are in hundredths.
ASSUME ContextAssumption ==
  /\ MaxMemory \in Nat /\ MaxChanges \in Nat /\ None \notin Ctx!Finds
  /\ \A k \in Kinds :
       /\ k.scope \in {"global", "app", "project", "entity"} /\ k.key # None
       /\ k.trust \in 1..5 /\ k.confidence \in 0..100 /\ k.importance \in 0..100
  /\ \A r \in Requests :
       Len(r.entities) \in Nat /\ DOMAIN r.entities = 1..Len(r.entities)

\* A context that rests does so in one of its initial states.
RecallInit ==
  /\ unit \in {"profiles", "context"}
  /\ Init
  /\ unit = "profiles" =>
       /\ kind = [m \in Ctx!MemoryIds |-> CHOOSE k \in Kinds : TRUE]
       /\ standing = [m \in Ctx!MemoryIds |-> "active"]
       /\ request = CHOOSE r \in Requests : TRUE
  /\ Ctx!Init

RecallNext ==
  \/ unit = "profiles" /\ Next /\ UNCHANGED <<unit, contextVars>>
  \/ unit = "context" /\ Ctx!Next /\ UNCHANGED <<unit, vars>>

RecallSpec == RecallInit /\ [][RecallNext]_recallVars

-----------------------------------------------------------------------------
(* The properties of the context, with its types *)

\* What the answer shows was meant for the request at some time during the call.
ShownWasEligible == Ctx!ShownWasEligible

\* What is meant for the request all along is shown, room and limits allowing.
NothingIsMissed == Ctx!NothingIsMissed

\* No score in everything else makes up for a boost.
BoostsPrecedeBlend == Ctx!BoostsPrecedeBlend

-----------------------------------------------------------------------------
(* Of the context: memories and requests *)

Kind(scope, key, apps, entities, sensitive, type, trust, confidence, importance, matches, cost) ==
  [scope |-> scope, key |-> key, apps |-> apps, entities |-> entities, sensitive |-> sensitive,
   type |-> type, trust |-> trust, confidence |-> confidence, importance |-> importance,
   matches |-> matches, cost |-> cost]

\* The first has the lowest score with a boost, the second the highest without one.
AllKinds ==
  {Kind("global", "global", {}, {}, FALSE, "episode", 4, 0, 0, FALSE, 1),
   Kind("project", "stalky", {}, {}, FALSE, "fact", 3, 95, 100, TRUE, 2),
   Kind("global", "global", {"slack"}, {}, TRUE, "decision", 1, 50, 50, TRUE, 1),
   Kind("entity", "alice", {}, {"alice"}, FALSE, "task", 2, 50, 50, TRUE, 1),
   Kind("app", "slack", {}, {}, FALSE, "preference", 5, 100, 50, FALSE, 2),
   Kind("project", "stalky", {"slack"}, {"alice"}, FALSE, "decision", 4, 80, 50, FALSE, 1)}

Request(app, project, entities, query, history, sensitive, room) ==
  [app |-> app, project |-> project, entities |-> entities, query |-> query,
   history |-> history, sensitive |-> sensitive, room |-> room]

AllRequests ==
  {Request("slack", "stalky", << >>, "short", FALSE, TRUE, 3),
   Request(None, None, <<"alice">>, "none", TRUE, FALSE, 1),
   Request("xcode", "stalky", <<"alice">>, "long", TRUE, TRUE, 3)}

=============================================================================
