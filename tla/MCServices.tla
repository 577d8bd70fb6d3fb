------------------------------ MODULE MCServices ------------------------------
(***************************************************************************)
(* Instances for TLC of the small asynchronous components: the event       *)
(* queue, the supervisors and the backend's key cache.  They share no      *)
(* state: in each behavior one of them moves and the others rest.          *)
(***************************************************************************)
EXTENDS BoundedQueue, FiniteSets

CONSTANTS Subsystems, Requests, Keys, First, TTL, StaleTTL, Cooldown, MaxNow

\* Of the backend's key cache: the lifetimes are constants of auth.rs, the first of them
\* not zero, and so many requests are under way at a time.
ASSUME KeyCacheAssumption ==
  /\ IsFiniteSet(Requests) /\ "nobody" \notin Requests
  /\ First \in Keys
  /\ TTL \in Nat \ {0} /\ StaleTTL \in Nat /\ Cooldown \in Nat /\ MaxNow \in Nat

VARIABLES
  unit,   \* the component that moves
  token, child, pc, state, worker, report,
  now, value, refresh, queue, request, fetch, served, withdrawn, overdue, forced

supVars == <<token, child, pc, state, worker, report>>
jwksVars == <<now, value, refresh, queue, request, fetch, served, withdrawn, overdue, forced>>
allVars == <<unit, vars, supVars, jwksVars>>

Sup == INSTANCE Supervisor
Jwks == INSTANCE JwksCache

AllPolicies == {"reject", "drop_newest", "drop_oldest"}

ServicesInit ==
  /\ unit \in {"queue", "supervisor", "jwks"}
  /\ Init /\ Sup!Init /\ Jwks!Init
  /\ unit # "queue" => policy = "reject"

OfQueue(step) == unit = "queue" /\ step /\ UNCHANGED <<unit, supVars, jwksVars>>
OfSupervisor(step) == unit = "supervisor" /\ step /\ UNCHANGED <<unit, vars, jwksVars>>

ServicesNext ==
  \/ OfQueue(Next)
  \/ OfSupervisor(Sup!Next)
  \/ unit = "jwks" /\ Jwks!Next /\ UNCHANGED <<unit, vars, supVars>>

\* Each component is as fair as in its FairSpec.
ServicesSpec ==
  /\ ServicesInit /\ [][ServicesNext]_allVars
  /\ WF_allVars(OfQueue(Receive)) /\ WF_allVars(OfQueue(Await))
  /\ \A s \in Subsystems : WF_allVars(OfSupervisor(Sup!Supervise(s)))

-----------------------------------------------------------------------------
(* The properties of the components, with their types *)

\* Every supervisor keeps to the lifecycle table and reports once all is over.
SupervisionIsSound == Sup!SupervisionIsSound

\* Once the application is cancelled every supervisor reports.
CancellationEndsAll == Sup!CancellationEndsAll

\* A key that was withdrawn is accepted for less than both lifetimes of a cached set and
\* one fetch of each request under way.
WithdrawnKeysEnd == Jwks!TypeOK /\ Jwks!WithdrawnKeysEnd

\* While the cached set is fresh, unknown keys make the backend ask at most once in a
\* cooldown.
RefreshesAreSpaced == Jwks!RefreshesAreSpaced

\* Cached keys are never lost or replaced by older ones.
CacheNeverGoesBack == Jwks!CacheNeverGoesBack

=============================================================================
