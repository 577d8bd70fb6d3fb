------------------------------- MODULE JwksCache -------------------------------
(***************************************************************************)
(* The backend's cache of the key set that verifies access tokens          *)
(* (JwksCache in backend/src/auth.rs), with the requests that look for a   *)
(* key, and the server that publishes the set.  Requests are futures: they *)
(* interleave at their awaits (the refresh mutex, which is fair, and the   *)
(* fetch) and are dropped when the client goes away.                       *)
(*                                                                         *)
(* Time is counted in steps of JWKS_REQUEST_TIMEOUT; a fetch takes at most *)
(* one step, and a request that can go on does so within the step.         *)
(***************************************************************************)
EXTENDS Naturals, Sequences, FiniteSets

CONSTANTS
  Requests,  \* requests under way at the same time
  Keys,      \* key ids
  First,     \* the key that is published at the start
  TTL,       \* JWKS_CACHE_TTL
  StaleTTL,  \* JWKS_STALE_IF_ERROR_TTL
  Cooldown,  \* UNKNOWN_KID_REFRESH_COOLDOWN
  MaxNow     \* bound: the time that is looked at

VARIABLES
  now,
  value,      \* the cached key set, and when its fetch began
  refresh,    \* the mutex: its holder, and when the last forced refresh began
  queue,      \* requests waiting for the mutex
  request,    \* what each request looks for, and how
  fetch,      \* the fetch under way
  served,     \* the server's key set
  withdrawn,  \* history: when each key was withdrawn, MaxNow when it was not
  overdue,    \* history: how long the key accepted last, in this step, had been withdrawn
  forced      \* history: when the fetches began that a cached, fresh set had not stopped

vars == <<now, value, refresh, queue, request, fetch, served, withdrawn, overdue, forced>>

Times == 0..MaxNow
Nobody == "nobody"
Never == MaxNow + 1
NoFetch == [at |-> 0, step |-> "none", keys |-> {}]
Resting == [step |-> "idle", kid |-> First, forced |-> FALSE, stale |-> FALSE]

TypeOK ==
  /\ now \in Times
  /\ value \in [keys : SUBSET Keys, at : Times, present : BOOLEAN]
  /\ refresh \in [holder : Requests \cup {Nobody}, last : Times \cup {Never}]
  /\ queue \in Seq(Requests)
  /\ request \in [Requests -> [step : {"idle", "queued", "fetching"}, kid : Keys,
                               forced : BOOLEAN, stale : BOOLEAN]]
  /\ fetch \in [at : Times, step : {"none", "asked", "answered"}, keys : SUBSET Keys]
  /\ served \subseteq Keys /\ withdrawn \in [Keys -> Times]
  /\ overdue \in Times /\ forced \in Seq(Times)

Init ==
  /\ now = 0
  /\ value = [keys |-> {}, at |-> 0, present |-> FALSE]
  /\ refresh = [holder |-> Nobody, last |-> Never]
  /\ queue = << >> /\ request = [r \in Requests |-> Resting] /\ fetch = NoFetch
  /\ served = {First} /\ withdrawn = [k \in Keys |-> MaxNow]
  /\ overdue = 0 /\ forced = << >>

-----------------------------------------------------------------------------
(* CachedKeys *)

Fresh == value.present /\ now < value.at + TTL

\* Mutant of CanServeStale: a set that was cached once is served for ever.
CanAlwaysServe == value.present
CanServeStale == value.present /\ now < value.at + TTL + StaleTTL

-----------------------------------------------------------------------------
(* key and refresh *)

\* verify goes on with the key, or the token is refused.
Ends(r, accepted) ==
  /\ request' = [request EXCEPT ![r] = Resting]
  /\ overdue' = IF accepted /\ withdrawn[request[r].kid] <= now
                THEN now - withdrawn[request[r].kid] ELSE 0

\* A fresh set that has the key answers at once ...
Found(r, k) ==
  /\ request[r].step = "idle"
  /\ Fresh /\ k \in value.keys
  /\ overdue' = IF withdrawn[k] <= now THEN now - withdrawn[k] ELSE 0
  /\ UNCHANGED <<now, value, refresh, queue, request, fetch, served, withdrawn, forced>>

\* ... one that has not forces a refresh, and any other set calls for one, but
\* stands in for it if it is not too old.
Missing(r, k) ==
  /\ request[r].step = "idle"
  /\ ~(Fresh /\ k \in value.keys)
  /\ request' = [request EXCEPT ![r] = [step |-> "queued", kid |-> k, forced |-> Fresh,
                   stale |-> ~Fresh /\ CanServeStale /\ k \in value.keys]]
  /\ queue' = Append(queue, r)
  /\ UNCHANGED <<now, value, refresh, fetch, served, withdrawn, overdue, forced>>

HasTurn(r) == queue # << >> /\ r = Head(queue) /\ refresh.holder = Nobody

\* Mutant of CoolsDown: it is not looked at.
NeverCools == FALSE
CoolsDown == refresh.last # Never /\ now - refresh.last < Cooldown

\* Somebody else has refreshed the set meanwhile, or too many unknown keys are asked.
Served(r) ==
  /\ HasTurn(r)
  /\ Fresh /\ (request[r].forced => CoolsDown)
  /\ queue' = Tail(queue)
  /\ Ends(r, request[r].kid \in value.keys)
  /\ UNCHANGED <<now, value, refresh, fetch, served, withdrawn, forced>>

FetchBegins(r) ==
  /\ HasTurn(r)
  /\ ~(Fresh /\ (request[r].forced => CoolsDown))
  /\ queue' = Tail(queue)
  /\ refresh' = [holder |-> r, last |-> IF request[r].forced THEN now ELSE refresh.last]
  /\ request' = [request EXCEPT ![r].step = "fetching"]
  /\ fetch' = [at |-> now, step |-> "asked", keys |-> {}]
  /\ forced' = IF Fresh THEN Append(forced, now) ELSE forced
  /\ UNCHANGED <<now, value, served, withdrawn, overdue>>

ServerAnswers ==
  /\ fetch.step = "asked"
  /\ fetch' = [fetch EXCEPT !.step = "answered", !.keys = served]
  /\ UNCHANGED <<now, value, refresh, queue, request, served, withdrawn, overdue, forced>>

Releases == refresh' = [refresh EXCEPT !.holder = Nobody] /\ fetch' = NoFetch

\* Mutant of FetchStored: an empty set is stored, too.
FetchStoredEmpty(r) ==
  /\ refresh.holder = r /\ fetch.step = "answered"
  /\ value' = [keys |-> fetch.keys, at |-> fetch.at, present |-> TRUE]
  /\ Releases
  /\ Ends(r, request[r].kid \in fetch.keys)
  /\ UNCHANGED <<now, queue, served, withdrawn, forced>>

\* The set takes the place of the cached one, unless it is empty.
FetchStored(r) ==
  /\ refresh.holder = r /\ fetch.step = "answered" /\ fetch.keys # {}
  /\ value' = [keys |-> fetch.keys, at |-> fetch.at, present |-> TRUE]
  /\ Releases
  /\ Ends(r, request[r].kid \in fetch.keys)
  /\ UNCHANGED <<now, queue, served, withdrawn, forced>>

\* The fetch fails, at any time: a key of the older set still does.
FetchFails(r) ==
  /\ refresh.holder = r
  /\ Releases
  /\ Ends(r, request[r].stale)
  /\ UNCHANGED <<now, value, queue, served, withdrawn, forced>>

\* The client goes away: the future is dropped where it stands, in the queue or in
\* the fetch.
Dropped(r) ==
  /\ \/ /\ \E i \in 1..Len(queue) :
             /\ queue[i] = r
             /\ queue' = SubSeq(queue, 1, i - 1) \o SubSeq(queue, i + 1, Len(queue))
        /\ UNCHANGED <<refresh, fetch>>
     \/ refresh.holder = r /\ Releases /\ UNCHANGED queue
  /\ request' = [request EXCEPT ![r] = Resting]
  /\ UNCHANGED <<now, value, served, withdrawn, overdue, forced>>

-----------------------------------------------------------------------------
(* The server, and time *)

Publish(k) ==
  /\ k \notin served /\ withdrawn[k] = MaxNow
  /\ served' = served \cup {k}
  /\ UNCHANGED <<now, value, refresh, queue, request, fetch, withdrawn, overdue, forced>>

Withdraw(k) ==
  /\ k \in served
  /\ served' = served \ {k} /\ withdrawn' = [withdrawn EXCEPT ![k] = now]
  /\ UNCHANGED <<now, value, refresh, queue, request, fetch, overdue, forced>>

Tick ==
  /\ now < MaxNow - 1
  /\ refresh.holder = Nobody => queue = << >>
  /\ fetch.step # "none" => now = fetch.at
  /\ now' = now + 1 /\ overdue' = 0
  /\ UNCHANGED <<value, refresh, queue, request, fetch, served, withdrawn, forced>>

-----------------------------------------------------------------------------

Next ==
  \/ \E r \in Requests :
       \/ \E k \in Keys : Found(r, k) \/ Missing(r, k)
       \/ Served(r) \/ FetchBegins(r) \/ FetchStored(r) \/ FetchFails(r) \/ Dropped(r)
  \/ ServerAnswers
  \/ \E k \in Keys : Publish(k) \/ Withdraw(k)
  \/ Tick

Spec == Init /\ [][Next]_vars

-----------------------------------------------------------------------------
(* Properties *)

\* A key that was withdrawn is accepted for less than both lifetimes of a cached set and
\* one fetch of each request under way: a request may have to wait for the fetches of all
\* the others before its own, and only then falls back on the key it found.
WithdrawnKeysEnd == overdue < TTL + StaleTTL + Cardinality(Requests)

\* Of the fetches that begin while the cached set is fresh, for tokens with unknown
\* keys, any two are a cooldown apart, however many requests there are and whatever
\* becomes of them.  (Once the set is no longer fresh, each request may fetch.)
RefreshesAreSpaced ==
  \A i, j \in 1..Len(forced) : i < j => forced[j] - forced[i] >= Cooldown

\* Once keys are cached, no slow, failed, empty or dropped answer takes them away, or
\* puts an older set in the place of a newer one.
CacheNeverGoesBack ==
  [][value.present => value'.keys # {} /\ value'.at >= value.at]_vars

=============================================================================
