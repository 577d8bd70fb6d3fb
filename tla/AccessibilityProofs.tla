-------------------------- MODULE AccessibilityProofs --------------------------
(***************************************************************************)
(* Proofs about Accessibility for any applications, trees and bounds.      *)
(* Standing is the invariant behind the refusal of old ids; QInv says      *)
(* where the thread and its channels are at each place of a call.  Neither *)
(* needs the types of the data; these follow last, with what is known of   *)
(* the sequences that read_raw makes of a tree.                            *)
(***************************************************************************)
EXTENDS Accessibility, Integers, FiniteSetTheorems, TLAPS

\* Every entry is of the tree that stands.
Standing == \A i \in DOMAIN elements : elements[i].generation = built

LEMMA NoEntries == DOMAIN << >> = {}
  OBVIOUS

LEMMA ReadStands == ASSUME NEW a, NEW g, ReadTree(a, g) PROVE Standing'
<1>1. PICK o \in Reads(a) : elements' = Entries(a, o, g)
  BY DEF ReadTree
<1>2. built' = g
  BY DEF ReadTree
<1>3. CASE o[Head(Tree[a])] # "read"
  BY <1>1, <1>3, NoEntries DEF Entries, Standing
<1>4. CASE o[Head(Tree[a])] = "read"
  <2>1. ASSUME NEW i \in DOMAIN elements' PROVE elements'[i].generation = g
    BY <1>1, <1>4, <2>1 DEF Entries
  <2>2. QED
    BY <1>2, <2>1 DEF Standing
<1>5. QED
  BY <1>3, <1>4

LEMMA NothingStands == ASSUME elements' = << >> PROVE Standing'
BY NoEntries DEF Standing

LEMMA FocusStands ==
  ASSUME Standing, NEW a, LoseApplication \/ Rebind(a) \/ RebindFails(a)
  PROVE  Standing'
<1>1. CASE LoseApplication
  BY <1>1, NothingStands DEF LoseApplication
<1>2. CASE Rebind(a)
  BY <1>2, ReadStands DEF Rebind
<1>3. CASE RebindFails(a)
  BY <1>3, NothingStands DEF RebindFails, KeepTree, Standing
<1>4. QED
  BY <1>1, <1>2, <1>3

\* What a notification does to the tree; every other step keeps or empties it.
LEMMA NotificationStands == ASSUME Standing, HandleNotification PROVE Standing'
<1>1. CASE ReadTree(app, generation + 1)
  BY <1>1, ReadStands
<1>2. ASSUME NEW kept \in SUBSET DOMAIN elements,
             KeepTree(generation + 1, [i \in kept |-> elements[i]], built)
      PROVE  Standing'
  BY <1>2 DEF KeepTree, Standing
<1>3. QED
  BY <1>1, <1>2 DEF HandleNotification

LEMMA StepStands == Standing /\ [Next]_vars => Standing'
<1> SUFFICES ASSUME Standing, [Next]_vars PROVE Standing'
  OBVIOUS
<1>1. CASE InstallFails \/ HandleStop
  BY <1>1, NothingStands DEF InstallFails, HandleStop, Ends
<1>2. CASE Install \/ RefreshFocus
  BY <1>2, FocusStands DEF Install, RefreshFocus
<1>3. CASE HandleNotification
  BY <1>3, NotificationStands
<1>4. CASE Publish \/ PerformAction \/ RefuseAction \/ EnterRunLoop \/ LeaveRunLoop
  BY <1>4 DEF Publish, PerformAction, RefuseAction, EnterRunLoop, LeaveRunLoop, runtimeVars,
              Standing
<1>5. CASE \/ CallStep \/ Start \/ StartTimesOut \/ StopService \/ StopTimesOut
           \/ RefreshPermission \/ Execute \/ World
  BY <1>5 DEF CallStep, Started, NotStarted, StartJoined, StopAnswered, StopJoined,
              ExecuteReturns, Start, StartTimesOut, StopService, StopTimesOut,
              RefreshPermission, Execute, World, ChannelsDropped, NativeUnchanged,
              runtimeVars, Standing
<1>6. CASE UNCHANGED vars
  BY <1>6 DEF vars, runtimeVars, Standing
<1>7. QED
  BY <1>1, <1>2, <1>3, <1>4, <1>5, <1>6 DEF Next, ThreadStep

\* An id of a tree of this session that was replaced or cleared fails closed
\* (execute_action in native.rs), however long the action waited and whatever failed while
\* the tree was rebuilt.
THEOREM OldIdsFailClosed == Spec => []NoActionOnReplacedTree
<1>1. Init => Standing /\ NoActionOnReplacedTree
  BY NoEntries DEF Init, Standing, NoActionOnReplacedTree
<1>2. ASSUME Standing, NoActionOnReplacedTree, [Next]_vars
      PROVE  NoActionOnReplacedTree'
  <2>1. CASE PerformAction
    <3> DEFINE c == Head(commands)
               deed == [choice |-> c, on |-> elements[c.id].element, start |-> starts,
                        tree |-> built]
    <3>1. c.id \in DOMAIN elements /\ elements[c.id].generation = c.generation
      BY <2>1 DEF PerformAction
    <3>2. deed.choice.generation = deed.tree
      BY <1>2, <3>1 DEF Standing
    <3>3. performed' = performed \cup {deed}
      BY <2>1 DEF PerformAction
    <3> HIDE DEF deed
    <3>4. QED
      BY <1>2, <3>2, <3>3 DEF NoActionOnReplacedTree
  <2>2. CASE performed' = performed
    BY <1>2, <2>2 DEF NoActionOnReplacedTree
  <2>3. PerformAction \/ performed' = performed
    BY <1>2
    DEF Next, ThreadStep, InstallFails, Install, Publish, RefuseAction, HandleStop,
        EnterRunLoop, LeaveRunLoop, RefreshFocus, HandleNotification, CallStep, Started,
        NotStarted, StartJoined, StopAnswered, StopJoined, ExecuteReturns, Start,
        StartTimesOut, StopService, StopTimesOut, RefreshPermission, Execute, World, vars
  <2>4. QED
    BY <2>1, <2>2, <2>3
<1>3. QED
  BY <1>1, <1>2, StepStands, PTL DEF Spec

-----------------------------------------------------------------------------
(* What is left behind *)

StopIsSent == \E i \in 1..Len(commands) : commands[i] = Stop
Runs == thread \in {"draining", "looping"}

\* A thread that is gone left nothing in its channels; one that publishes is at work.
Channels ==
  /\ commands \in Seq({Stop} \cup shown)
  /\ \A c \in shown : c # Stop
  /\ thread = "gone" => commands = << >> /\ ~unpublished.present
  /\ unpublished.present => thread \in {"installing", "looping"}

\* Between calls, and while an action is waited for, a session has a thread that runs
\* and was not told to stop, and without a session there is none.
Sessions ==
  /\ session => call.op \in {"none", "execute"} /\ Runs /\ ~StopIsSent
  /\ call.op \in {"none", "execute"} => ready = "none" /\ ~ack /\ (~session => thread = "gone")

\* While start waits, its thread installs, is ready, or failed and is gone.
Starting ==
  call.op = "start" /\ call.step = "waiting" =>
    \/ ready = "none" /\ thread = "installing" /\ ~ack /\ ~StopIsSent
    \/ ready = "ok" /\ Runs /\ ~ack /\ ~StopIsSent
    \/ ready \in {"error", "untrusted"} /\ thread = "gone"

\* A thread that installs is one that start waits for.
Installing == thread = "installing" => call.op = "start"

\* A service that shows itself stopped shows nothing else; one that shows itself running
\* has a session, or is being stopped.
Stopped ==
  /\ state = "stopped" => snapshot = NoSnapshot /\ call.op = "none" /\ ~session
  /\ state = "running" => session \/ call.op = "stop"
  /\ call.op = "none" => call = Idle

QInv == Channels /\ Sessions /\ Starting /\ Installing /\ Stopped

\* The channel: what is in it after a command was taken or sent.
LEMMA NothingSent == << >> \in Seq({Stop} \cup shown) /\ (commands = << >> => ~StopIsSent)
BY DEF StopIsSent

LEMMA SentAsBefore == commands' = commands => StopIsSent' = StopIsSent
BY DEF StopIsSent

LEMMA NothingSentYet == commands' = << >> => ~StopIsSent'
BY DEF StopIsSent

LEMMA SentByTail ==
  ASSUME commands \in Seq({Stop} \cup shown), commands # << >>, commands' = Tail(commands)
  PROVE  commands' \in Seq({Stop} \cup shown) /\ (StopIsSent' => StopIsSent)
BY DEF StopIsSent

LEMMA SentByHead ==
  ASSUME commands \in Seq({Stop} \cup shown), commands # << >>, Head(commands) = Stop
  PROVE  StopIsSent
BY DEF StopIsSent

LEMMA SentByAppend ==
  ASSUME commands \in Seq({Stop} \cup shown), NEW c \in {Stop} \cup shown,
         commands' = Append(commands, c)
  PROVE  commands' \in Seq({Stop} \cup shown) /\ (StopIsSent' /\ c # Stop => StopIsSent)
BY DEF StopIsSent

LEMMA MoreShown ==
  ASSUME commands \in Seq({Stop} \cup shown), commands' = commands, shown \subseteq shown'
  PROVE  commands' \in Seq({Stop} \cup shown') /\ StopIsSent' = StopIsSent
BY DEF StopIsSent

LEMMA ChoicesAreNotStop ==
  ASSUME NEW i, NEW g, NEW e, NEW n
  PROVE  [id |-> i, generation |-> g, element |-> e, start |-> n] # Stop
<1>1. DOMAIN [id |-> i, generation |-> g, element |-> e, start |-> n] # DOMAIN Stop
  BY DEF Stop
<1>2. QED
  BY <1>1

LEMMA StepQInv == QInv /\ Next => QInv'
<1> SUFFICES ASSUME QInv, Next PROVE QInv'
  OBVIOUS
<1> USE DEF QInv, Channels, Sessions, Starting, Installing, Stopped, Runs, Idle, NoSnapshot
<1>1. CASE InstallFails
  BY <1>1
  DEF StopIsSent, InstallFails, Ends, serviceVars, osVars
<1>2. CASE Install
  BY <1>2
  DEF StopIsSent, Install, Rebind, ReadTree, Shot, LoseApplication, serviceVars, osVars
<1>3. CASE Publish
  BY <1>3, MoreShown, ChoicesAreNotStop
  DEF Publish, osVars
<1>4. CASE PerformAction
  BY <1>4, SentByTail
  DEF PerformAction, serviceVars, runtimeVars, osVars
<1>5. CASE RefuseAction
  BY <1>5, SentByTail
  DEF RefuseAction, serviceVars, runtimeVars, osVars
<1>6. CASE HandleStop
  BY <1>6, SentByHead
  DEF HandleStop, Ends, serviceVars, osVars
<1>7. CASE EnterRunLoop
  BY <1>7
  DEF StopIsSent, EnterRunLoop, serviceVars, runtimeVars, osVars
<1>8. CASE LeaveRunLoop
  BY <1>8
  DEF StopIsSent, LeaveRunLoop, serviceVars, runtimeVars, osVars
<1>9. CASE RefreshFocus
  BY <1>9
  DEF StopIsSent, RefreshFocus, Rebind, RebindFails, KeepTree, ReadTree, Shot,
      LoseApplication, serviceVars, osVars
<1>10. CASE HandleNotification
  BY <1>10
  DEF StopIsSent, HandleNotification, KeepTree, ReadTree, Shot, serviceVars, osVars
<1>11. CASE Started
  BY <1>11
  DEF StopIsSent, Started, Waits, ChannelsDropped, runtimeVars, osVars
<1>12. CASE NotStarted
  BY <1>12
  DEF StopIsSent, NotStarted, Waits, ChannelsDropped, runtimeVars, osVars
<1>13. CASE StartJoined
  BY <1>13
  DEF StopIsSent, StartJoined, Joins, ChannelsDropped, runtimeVars, osVars
<1>14. CASE StopAnswered
  BY <1>14
  DEF StopIsSent, StopAnswered, Cleared, ChannelsDropped, runtimeVars, osVars
<1>15. CASE StopJoined
  BY <1>15
  DEF StopIsSent, StopJoined, Cleared, ChannelsDropped, runtimeVars, osVars
<1>16. CASE ExecuteReturns
  BY <1>16
  DEF StopIsSent, ExecuteReturns, Waits, NativeUnchanged, runtimeVars, osVars
<1>17. CASE Start
  BY <1>17, NothingSent, NothingSentYet
  DEF Start, Free, Goes, runtimeVars, osVars
<1>18. CASE StartTimesOut
  BY <1>18, SentByAppend, SentAsBefore
  DEF StartTimesOut, Waits, Goes, NativeUnchanged, runtimeVars, osVars
<1>19. CASE StopService
  BY <1>19, SentByAppend, SentAsBefore
  DEF StopService, Free, Goes, Cleared, NativeUnchanged, runtimeVars, osVars
<1>20. CASE StopTimesOut
  BY <1>20
  DEF StopIsSent, StopTimesOut, Goes, NativeUnchanged, runtimeVars, osVars
<1>21. CASE RefreshPermission
  BY <1>21, SentByAppend, SentAsBefore
  DEF RefreshPermission, Free, Goes, NativeUnchanged, runtimeVars, osVars
<1>22. CASE Execute
  BY <1>22, SentByAppend
  DEF Execute, Free, Goes, NativeUnchanged, runtimeVars, osVars
<1>23. CASE World
  BY <1>23
  DEF StopIsSent, World, serviceVars, NativeUnchanged, runtimeVars
<1>24. QED
  BY <1>1, <1>2, <1>3, <1>4, <1>5, <1>6, <1>7, <1>8, <1>9, <1>10, <1>11, <1>12,
     <1>13, <1>14, <1>15, <1>16, <1>17, <1>18, <1>19, <1>20, <1>21, <1>22, <1>23
  DEF Next, ThreadStep, CallStep

LEMMA InitQInv == Init => QInv
<1> SUFFICES ASSUME Init PROVE QInv
  OBVIOUS
<1>1. Channels /\ ~StopIsSent
  BY DEF Init, Channels, StopIsSent, NoSnapshot
<1>2. Sessions /\ Starting /\ Installing /\ Stopped
  BY DEF Init, Sessions, Starting, Installing, Stopped, Idle
<1>3. QED
  BY <1>1, <1>2 DEF QInv

LEMMA StillQInv == QInv /\ UNCHANGED vars => QInv'
BY DEF QInv, Channels, Sessions, Starting, Installing, Stopped, StopIsSent, Runs, vars,
       serviceVars, runtimeVars

\* Whatever timed out or failed, between calls a service without a session has no thread
\* and no command left, and one in state "stopped" shows nothing (start, stop and
\* refresh_permission of service.rs over NativeSession in native.rs); of what one in state
\* "failed" shows nothing is said.
THEOREM NothingIsLeftRunning == Spec => []NothingRunsOn
<1>1. QInv => NothingRunsOn
  BY DEF QInv, Channels, Sessions, Stopped, NothingRunsOn, Free
<1>2. QED
  BY <1>1, InitQInv, StepQInv, StillQInv, PTL DEF Spec

-----------------------------------------------------------------------------
(* The sequences that read_raw makes of a tree *)

\* Among the places P each rank is taken.
LEMMA RanksAreTaken ==
  ASSUME NEW n \in Nat, NEW P \in SUBSET (1..n)
  PROVE  /\ IsFiniteSet(P) /\ Cardinality(P) \in 0..n
         /\ \A k \in 1..Cardinality(P) : \E i \in P : Cardinality({j \in P : j <= i}) = k
<1> DEFINE c == Cardinality(P)
           upTo(i) == {j \in P : j <= i}
           rank == [i \in P |-> Cardinality(upTo(i))]
<1>1. IsFiniteSet(P) /\ c \in 0..n
  <2>1. IsFiniteSet(1..n) /\ Cardinality(1..n) = n
    BY FS_Interval
  <2>2. IsFiniteSet(P) /\ c <= n
    BY <2>1, FS_Subset
  <2>3. c \in Nat
    BY <2>2, FS_CardinalityType
  <2>4. QED
    BY <2>2, <2>3
<1>2. ASSUME NEW i \in P
      PROVE  IsFiniteSet(upTo(i)) /\ Cardinality(upTo(i)) \in 1..c
  <2>1. upTo(i) \in SUBSET P /\ i \in upTo(i)
    OBVIOUS
  <2>2. IsFiniteSet(upTo(i)) /\ Cardinality(upTo(i)) <= c
    BY ONLY <1>1, <2>1, FS_Subset
  <2>3. Cardinality(upTo(i)) \in Nat /\ (Cardinality(upTo(i)) = 0 <=> upTo(i) = {})
    BY ONLY <2>2, FS_CardinalityType, FS_EmptySet
  <2>4. QED
    BY ONLY <1>1, <2>1, <2>2, <2>3
<1>3. ASSUME NEW i \in P, NEW k \in P, i < k
      PROVE  Cardinality(upTo(i)) < Cardinality(upTo(k))
  <2>1. upTo(i) \cup {k} \in SUBSET upTo(k) /\ k \notin upTo(i)
    <3>1. i \in Int /\ k \in Int /\ \A j \in P : j \in Int
      OBVIOUS
    <3>2. \A j \in P : j <= i => j <= k
      BY <1>3, <3>1
    <3>3. k \notin upTo(i)
      BY <1>3, <3>1
    <3>4. k \in upTo(k)
      BY <3>1
    <3>5. upTo(i) \in SUBSET upTo(k)
      BY <3>2
    <3>6. QED
      BY ONLY <3>3, <3>4, <3>5
  <2>2. /\ IsFiniteSet(upTo(i)) /\ IsFiniteSet(upTo(k)) /\ Cardinality(upTo(i)) \in Nat
        /\ Cardinality(upTo(k)) \in Nat
    BY <1>1, <1>2
  <2>3. Cardinality(upTo(i) \cup {k}) = Cardinality(upTo(i)) + 1
    BY ONLY <2>1, <2>2, FS_AddElement
  <2>4. Cardinality(upTo(i) \cup {k}) <= Cardinality(upTo(k))
    BY ONLY <2>1, <2>2, FS_Subset
  <2>5. QED
    BY ONLY <2>2, <2>3, <2>4
<1> HIDE DEF upTo
<1>4. rank \in Injection(P, 1..c)
  <2>1. rank \in [P -> 1..c]
    BY <1>2
  <2>2. ASSUME NEW i \in P, NEW k \in P, rank[i] = rank[k] PROVE i = k
    <3>1. Cardinality(upTo(i)) \in Nat /\ Cardinality(upTo(k)) \in Nat
      BY <1>1, <1>2
    <3>2. i < k \/ k < i \/ i = k
      OBVIOUS
    <3>3. QED
      BY <1>3, <2>2, <3>1, <3>2
  <2>3. QED
    BY <2>1, <2>2 DEF Injection, IsInjective
<1>5. IsFiniteSet(1..c) /\ Cardinality(1..c) = c
  BY <1>1, FS_Interval
<1>6. rank \in Surjection(P, 1..c)
  BY <1>1, <1>4, <1>5, FS_Injection
<1>7. \A k \in 1..c : \E i \in P : Cardinality(upTo(i)) = k
  BY <1>6 DEF Surjection
<1>8. QED
  BY <1>1, <1>7 DEF upTo

\* What was visited is a part of the tree, and more of it with more endings.
LEMMA VisitedOfTree ==
  ASSUME NEW S, NEW tree \in Seq(S), NEW o, NEW endings
  PROVE  /\ Visited(tree, o, endings) \in Seq(S)
         /\ Len(Visited(tree, o, endings))
                = Cardinality({i \in DOMAIN tree : o[tree[i]] \in endings})
         /\ Len(Visited(tree, o, endings)) <= Len(tree)
<1> DEFINE places == {i \in DOMAIN tree : o[tree[i]] \in endings}
           c == Cardinality(places)
           at(n) == CHOOSE i \in places : Cardinality({j \in places : j <= i}) = n
<1>1. places \in SUBSET (1..Len(tree)) /\ Len(tree) \in Nat
  OBVIOUS
<1>2. /\ c \in 0..Len(tree)
      /\ \A n \in 1..c : \E i \in places : Cardinality({j \in places : j <= i}) = n
  BY ONLY <1>1, RanksAreTaken
<1> HIDE DEF c
<1>3. \A n \in 1..c : at(n) \in places
  BY <1>2
<1>4. \A n \in 1..c : tree[at(n)] \in S
  <2>1. \A i \in places : tree[i] \in S
    OBVIOUS
  <2> HIDE DEF places, at
  <2>2. QED
    BY ONLY <1>3, <2>1
<1>5. Visited(tree, o, endings) = [n \in 1..c |-> tree[at(n)]]
  BY DEF Visited, c
<1> HIDE DEF at
<1>6. QED
  BY <1>2, <1>4, <1>5 DEF c

LEMMA MoreVisited ==
  ASSUME NEW S, NEW tree \in Seq(S), NEW o, NEW endings, NEW more, endings \subseteq more
  PROVE  Len(Visited(tree, o, endings)) <= Len(Visited(tree, o, more))
<1> DEFINE some == {i \in DOMAIN tree : o[tree[i]] \in endings}
           all == {i \in DOMAIN tree : o[tree[i]] \in more}
<1>1. all \in SUBSET (1..Len(tree)) /\ some \in SUBSET all /\ Len(tree) \in Nat
  OBVIOUS
<1>2. IsFiniteSet(all)
  BY ONLY <1>1, RanksAreTaken
<1>3. Cardinality(some) <= Cardinality(all)
  BY ONLY <1>1, <1>2, FS_Subset
<1>4. QED
  BY <1>3, VisitedOfTree

-----------------------------------------------------------------------------
(* The types *)

Snapshots == [generation : Generations, nodes : Seq(Elements), present : BOOLEAN]
Calls == [op : {"none", "start", "stop", "refresh", "execute"},
          step : {"idle", "waiting", "joining"}]

\* What the runtime holds: its entries, and the nodes it has not published, have ids of
\* some tree, and what it observes is an application.
EntriesFit ==
  /\ DOMAIN elements \subseteq Ids
  /\ \A i \in DOMAIN elements :
       elements[i] \in [element : Elements, generation : Generations, offers : BOOLEAN]
Runtime ==
  /\ generation \in Generations /\ built \in Generations
  /\ unpublished \in Snapshots
  /\ \A i \in DOMAIN unpublished.nodes : i - 1 \in Ids
  /\ EntriesFit
  /\ app \in Apps \cup {NoApp} /\ observer \in BOOLEAN
  /\ observer => app \in Apps

\* The rest of TypeOK, but the commands, which QInv types.
Service ==
  /\ state \in {"stopped", "starting", "running", "failed"}
  /\ permission \in {"unknown", "granted", "denied"}
  /\ snapshot \in Snapshots /\ session \in BOOLEAN
  /\ call \in Calls
  /\ thread \in {"gone", "installing", "draining", "looping"}
  /\ ready \in {"none", "ok", "error", "untrusted"} /\ ack \in BOOLEAN
  /\ front \in Apps \cup {NoApp, Stalky} /\ trusted \in BOOLEAN
  /\ starts \in 0..MaxStarts /\ asked \in 0..MaxActions
Seen ==
  /\ shown \subseteq Choices
  /\ performed \subseteq Deeds

TInv == Runtime /\ Service /\ Seen

LEMMA TInvTypes == TInv /\ QInv => TypeOK
<1> SUFFICES ASSUME TInv, QInv PROVE TypeOK
  OBVIOUS
<1>1. commands \in Seq({Stop} \cup Choices)
  <2>1. commands \in Seq({Stop} \cup shown) /\ shown \subseteq Choices
    BY DEF QInv, Channels, TInv, Seen
  <2>2. QED
    BY ONLY <2>1
<1>2. QED
  BY <1>1 DEF TInv, Runtime, Service, Seen, EntriesFit, Snapshots, Calls, TypeOK

LEMMA NothingFits == ASSUME elements' = << >> PROVE EntriesFit'
BY NoEntries DEF EntriesFit

LEMMA NoNodes == << >> \in Seq(Elements) /\ DOMAIN << >> = {}
OBVIOUS

LEMMA TreesAreOfElements ==
  ASSUME NEW a \in Apps
  PROVE  /\ Tree[a] \in Seq(Elements) /\ Tree[a] # << >> /\ Len(Tree[a]) \in Nat
         /\ \A i \in 1..Len(Tree[a]) : i - 1 \in Ids
<1>1. Tree[a] \in Seq(Range(Tree[a])) /\ Tree[a] # << >>
  BY AccessibilityAssumption
<1>2. Range(Tree[a]) \subseteq Elements
  BY DEF Elements
<1>3. Tree[a] \in Seq(Elements)
  BY ONLY <1>1, <1>2
<1>4. Len(Tree[a]) \in Nat
  BY <1>3
<1>5. \A i \in 1..Len(Tree[a]) : i - 1 \in 0..Len(Tree[a]) - 1
  BY <1>4
<1>6. QED
  BY <1>1, <1>3, <1>4, <1>5 DEF Ids

LEMMA ReadFits ==
  ASSUME NEW a \in Apps, NEW g \in Generations, ReadTree(a, g)
  PROVE  /\ generation' = g /\ built' = g
         /\ EntriesFit'
         /\ unpublished' \in Snapshots
         /\ \A i \in DOMAIN unpublished'.nodes : i - 1 \in Ids
<1>1. PICK o \in Reads(a) :
        elements' = Entries(a, o, g) /\ unpublished' = Shot(g, Nodes(a, o))
  BY DEF ReadTree
<1> DEFINE tree == Tree[a]
<1>2. /\ tree \in Seq(Elements) /\ Len(tree) \in Nat
      /\ \A i \in 1..Len(tree) : i - 1 \in Ids
  BY TreesAreOfElements
<1>3. ASSUME NEW endings
      PROVE  /\ Visited(tree, o, endings) \in Seq(Elements)
             /\ Len(Visited(tree, o, endings)) \in 0..Len(tree)
  <2>1. /\ Visited(tree, o, endings) \in Seq(Elements)
        /\ Len(Visited(tree, o, endings)) <= Len(tree)
    BY <1>2, VisitedOfTree
  <2>2. Len(Visited(tree, o, endings)) \in Nat
    BY <2>1
  <2>3. QED
    BY <1>2, <2>1, <2>2
<1>4. Nodes(a, o) \in Seq(Elements) /\ \A i \in DOMAIN Nodes(a, o) : i - 1 \in Ids
  <2>1. CASE Nodes(a, o) = << >>
    BY <2>1
  <2>2. CASE Nodes(a, o) = Visited(tree, o, {"read"})
    <3>1. Nodes(a, o) \in Seq(Elements) /\ Len(Nodes(a, o)) \in 0..Len(tree)
      BY <1>3, <2>2
    <3>2. DOMAIN Nodes(a, o) \subseteq 1..Len(tree)
      BY ONLY <1>2, <3>1
    <3>3. QED
      BY <1>2, <3>1, <3>2
  <2>3. QED
    BY <2>1, <2>2 DEF Nodes
<1>5. EntriesFit'
  <2>1. CASE elements' = << >>
    BY <2>1, NothingFits
  <2>2. CASE elements' = [i \in 0..Len(Bindings(a, o)) - 1 |->
                            [element |-> Handles(a, o)[i + 1], generation |-> g,
                             offers |-> Bindings(a, o)[i + 1] \in Offering]]
    <3>1. /\ Handles(a, o) \in Seq(Elements)
          /\ Len(Bindings(a, o)) \in 0..Len(tree) /\ Len(Handles(a, o)) \in Nat
          /\ Len(Bindings(a, o)) <= Len(Handles(a, o))
      <4>1. {"read", "late"} \subseteq {"read", "late", "early"}
        OBVIOUS
      <4>2. Len(Visited(tree, o, {"read", "late"}))
               <= Len(Visited(tree, o, {"read", "late", "early"}))
        BY <1>2, <4>1, MoreVisited
      <4>3. QED
        BY <1>2, <1>3, <4>2 DEF Handles, Bindings
    <3>2. ASSUME NEW i \in 0..Len(Bindings(a, o)) - 1
          PROVE  i \in Ids /\ Handles(a, o)[i + 1] \in Elements
      <4>1. i + 1 \in 1..Len(tree) /\ i + 1 \in 1..Len(Handles(a, o)) /\ (i + 1) - 1 = i
        BY <1>2, <3>1
      <4>2. QED
        BY <1>2, <3>1, <4>1
    <3> HIDE DEF tree
    <3>3. QED
      BY <2>2, <3>2 DEF EntriesFit
  <2>3. QED
    BY <1>1, <2>1, <2>2 DEF Entries
<1>6. unpublished' \in Snapshots /\ unpublished'.nodes = Nodes(a, o)
  BY <1>1, <1>4 DEF Shot, Snapshots
<1>7. QED
  BY <1>4, <1>5, <1>6 DEF ReadTree

\* What each handler of the thread leaves in the runtime.
LEMMA RuntimeKept == Runtime /\ UNCHANGED runtimeVars => Runtime'
BY DEF runtimeVars, Runtime, EntriesFit

LEMMA ShotsOfNothing ==
  ASSUME NEW g \in Generations
  PROVE  Shot(g, << >>) \in Snapshots /\ Shot(g, << >>).nodes = << >>
BY NoNodes DEF Shot, Snapshots

LEMMA LoseFits == Runtime /\ LoseApplication => Runtime'
<1> SUFFICES ASSUME Runtime, LoseApplication PROVE Runtime'
  OBVIOUS
<1>1. generation \in Generations /\ 0 \in Generations
  BY AccessibilityAssumption DEF Runtime, Generations
<1>2. /\ unpublished' \in Snapshots /\ unpublished'.nodes = << >>
      /\ generation' = generation /\ built' = 0 /\ app' = NoApp /\ observer' = FALSE
  BY <1>1, ShotsOfNothing DEF LoseApplication
<1>3. EntriesFit'
  BY NothingFits DEF LoseApplication
<1>4. QED
  BY <1>1, <1>2, <1>3, NoNodes DEF Runtime

LEMMA RebindFits == ASSUME Runtime, NEW a \in Apps, Rebind(a) PROVE Runtime'
<1>1. generation + 2 \in Generations
  BY AccessibilityAssumption DEF Runtime, Rebind, Generations
<1>2. ReadTree(a, generation + 2) /\ app' = a /\ observer' = TRUE
  BY DEF Rebind
<1>3. QED
  BY <1>1, <1>2, ReadFits DEF Runtime

LEMMA RebindFailsFits == ASSUME Runtime, NEW a \in Apps, RebindFails(a) PROVE Runtime'
<1>1. CASE observer' = FALSE /\ UNCHANGED <<app, elements, generation, built, unpublished>>
  BY <1>1 DEF Runtime, EntriesFit
<1>2. ASSUME NEW step \in {1, 2}, generation + step <= MaxGeneration,
             app' = a, observer' \in BOOLEAN, KeepTree(generation + step, << >>, 0)
      PROVE  Runtime'
  <2>1. generation + step \in Generations /\ 0 \in Generations
    BY <1>2, AccessibilityAssumption DEF Runtime, Generations
  <2>2. EntriesFit'
    BY <1>2, NothingFits DEF KeepTree
  <2>3. QED
    BY <1>2, <2>1, <2>2 DEF Runtime, KeepTree
<1>3. generation < MaxGeneration => generation + 1 <= MaxGeneration
  BY AccessibilityAssumption DEF Runtime, Generations
<1>4. QED
  BY <1>1, <1>2, <1>3 DEF RebindFails

LEMMA NotificationFits == Runtime /\ HandleNotification => Runtime'
<1> SUFFICES ASSUME Runtime, HandleNotification PROVE Runtime'
  OBVIOUS
<1>1. generation + 1 \in Generations /\ app \in Apps
  BY AccessibilityAssumption DEF Runtime, HandleNotification, Generations
<1>2. app' = app /\ observer' = observer
  BY DEF HandleNotification
<1>3. CASE ReadTree(app, generation + 1)
  BY <1>1, <1>2, <1>3, ReadFits DEF Runtime
<1>4. ASSUME NEW kept \in SUBSET DOMAIN elements,
             KeepTree(generation + 1, [i \in kept |-> elements[i]], built)
      PROVE  Runtime'
  <2>1. EntriesFit'
    BY <1>4 DEF KeepTree, Runtime, EntriesFit
  <2>2. QED
    BY <1>1, <1>2, <1>4, <2>1 DEF KeepTree, Runtime
<1>5. QED
  BY <1>3, <1>4 DEF HandleNotification

LEMMA EndsFit == Runtime /\ Ends => Runtime'
<1> SUFFICES ASSUME Runtime, Ends PROVE Runtime'
  OBVIOUS
<1>1. EntriesFit' /\ 0 \in Generations
  BY NothingFits, AccessibilityAssumption DEF Ends, Generations
<1>2. QED
  BY <1>1 DEF Ends, Runtime

LEMMA RuntimeFits == Runtime /\ Service /\ [Next]_vars => Runtime'
<1> SUFFICES ASSUME Runtime, Service, [Next]_vars PROVE Runtime'
  OBVIOUS
<1>1. CASE InstallFails \/ HandleStop
  BY <1>1, EndsFit DEF InstallFails, HandleStop
<1>2. CASE Install
  BY <1>2, RebindFits, LoseFits DEF Install
<1>3. CASE RefreshFocus
  <2>1. NewTarget => front \in Apps
    BY DEF NewTarget, Service
  <2>2. QED
    BY <1>3, <2>1, RebindFits, RebindFailsFits, LoseFits DEF RefreshFocus
<1>4. CASE HandleNotification
  BY <1>4, NotificationFits
<1>5. CASE Publish
  <2>1. unpublished' \in Snapshots /\ unpublished'.nodes = << >>
    BY <1>5, NoNodes, AccessibilityAssumption DEF Publish, NoSnapshot, Snapshots, Generations
  <2>2. QED
    BY <1>5, <2>1, NoNodes DEF Publish, Runtime, EntriesFit
<1>6. CASE UNCHANGED runtimeVars
  BY <1>6, RuntimeKept
<1>7. CASE PerformAction \/ RefuseAction \/ EnterRunLoop \/ LeaveRunLoop
  BY <1>7, RuntimeKept DEF PerformAction, RefuseAction, EnterRunLoop, LeaveRunLoop
<1>8. CASE \/ CallStep \/ Start \/ StartTimesOut \/ StopService \/ StopTimesOut
           \/ RefreshPermission \/ Execute \/ World
  BY <1>8, RuntimeKept
  DEF CallStep, Started, NotStarted, StartJoined, StopAnswered, StopJoined, ExecuteReturns,
      Start, StartTimesOut, StopService, StopTimesOut, RefreshPermission, Execute, World,
      ChannelsDropped, NativeUnchanged
<1>9. QED
  BY <1>1, <1>2, <1>3, <1>4, <1>5, <1>6, <1>7, <1>8 DEF Next, ThreadStep, vars

\* What is shown has ids of its tree, and what was performed was shown.
LEMMA SeenFits == TInv /\ QInv /\ [Next]_vars => Seen'
<1> SUFFICES ASSUME TInv, QInv, [Next]_vars PROVE Seen'
  OBVIOUS
<1>1. CASE Publish
  <2>1. ASSUME NEW i \in DOMAIN unpublished.nodes
        PROVE  [id |-> i - 1, generation |-> unpublished.generation,
                element |-> unpublished.nodes[i], start |-> starts] \in Choices
    <3>1. /\ unpublished.nodes \in Seq(Elements) /\ unpublished.generation \in Generations
          /\ i - 1 \in Ids /\ starts \in 0..MaxStarts
      BY DEF TInv, Runtime, Snapshots, Service
    <3>2. unpublished.nodes[i] \in Elements
      BY <3>1
    <3>3. QED
      BY <3>1, <3>2 DEF Choices
  <2>2. QED
    BY <1>1, <2>1 DEF Publish, TInv, Seen
<1>2. CASE PerformAction
  <2> DEFINE c == Head(commands)
  <2>1. c \in Choices
    <3>1. commands \in Seq({Stop} \cup shown) /\ commands # << >> /\ c # Stop
      BY <1>2 DEF PerformAction, QInv, Channels
    <3>2. c \in {Stop} \cup shown
      BY ONLY <3>1
    <3>3. QED
      BY <3>1, <3>2 DEF TInv, Seen
  <2>2. c.id \in DOMAIN elements /\ elements[c.id].element \in Elements
    BY <1>2 DEF PerformAction, TInv, Runtime, EntriesFit
  <2> DEFINE deed == [choice |-> c, on |-> elements[c.id].element, start |-> starts,
                      tree |-> built]
  <2>a. starts \in 0..MaxStarts /\ built \in Generations
    BY DEF TInv, Service, Runtime
  <2>3. deed \in Deeds
    BY ONLY <2>1, <2>2, <2>a DEF Deeds
  <2>4. /\ performed' = performed \cup {deed}
        /\ shown' = shown
    BY <1>2 DEF PerformAction
  <2>5. QED
    BY <2>3, <2>4 DEF TInv, Seen
<1>3. CASE UNCHANGED <<shown, performed>>
  BY <1>3 DEF TInv, Seen
<1>4. Publish \/ PerformAction \/ UNCHANGED <<shown, performed>>
  BY DEF Next, ThreadStep, InstallFails, Install, RefuseAction, HandleStop,
         EnterRunLoop, LeaveRunLoop, RefreshFocus, HandleNotification, CallStep, Started,
         NotStarted, StartJoined, StopAnswered, StopJoined, ExecuteReturns, Start,
         StartTimesOut, StopService, StopTimesOut, RefreshPermission, Execute, World, vars
<1>5. QED
  BY <1>1, <1>2, <1>3, <1>4

\* The calls keep the types of the service's variables.
LEMMA Counting ==
  /\ starts \in 0..MaxStarts /\ starts < MaxStarts => starts + 1 \in 0..MaxStarts
  /\ asked \in 0..MaxActions /\ asked < MaxActions => asked + 1 \in 0..MaxActions
BY AccessibilityAssumption

LEMMA NoSnapshotIsOne == NoSnapshot \in Snapshots
BY NoNodes, AccessibilityAssumption DEF NoSnapshot, Snapshots, Generations

LEMMA ServiceFits == Runtime /\ Service /\ [Next]_vars => Service'
<1> SUFFICES ASSUME Runtime, Service, [Next]_vars PROVE Service'
  OBVIOUS
<1>0. NoSnapshot \in Snapshots /\ unpublished \in Snapshots /\ Idle \in Calls
  BY NoSnapshotIsOne DEF Runtime, Idle, Calls
<1>a. ASSUME NEW op \in {"start", "stop", "refresh", "execute"},
              NEW step \in {"waiting", "joining"}, Goes(op, step)
       PROVE  call' \in Calls
  BY <1>a DEF Goes, Calls
<1> USE DEF Service, serviceVars, osVars
<1>1. CASE InstallFails \/ HandleStop
  BY <1>1 DEF InstallFails, HandleStop, Ends
<1>2. CASE Install \/ RefreshFocus \/ HandleNotification
  BY <1>2 DEF Install, RefreshFocus, HandleNotification
<1>3. CASE Publish
  BY <1>0, <1>3 DEF Publish
<1>4. CASE PerformAction \/ RefuseAction \/ EnterRunLoop \/ LeaveRunLoop
  BY <1>4 DEF PerformAction, RefuseAction, EnterRunLoop, LeaveRunLoop
<1>5. CASE Started
  BY <1>0, <1>5 DEF Started, ChannelsDropped
<1>6. CASE NotStarted
  BY <1>0, <1>6 DEF NotStarted, ChannelsDropped
<1>7. CASE StartJoined
  BY <1>0, <1>7 DEF StartJoined, ChannelsDropped
<1>8. CASE StopAnswered \/ StopJoined
  <2>1. snapshot' \in Snapshots /\ state' \in {"stopped", "starting", "running", "failed"}
    BY <1>0, <1>8 DEF StopAnswered, StopJoined, Cleared
  <2>2. QED
    BY <1>0, <1>8, <2>1 DEF StopAnswered, StopJoined, ChannelsDropped
<1>9. CASE ExecuteReturns
  BY <1>0, <1>9 DEF ExecuteReturns, NativeUnchanged
<1>10. CASE Start
  BY <1>a, <1>10, Counting DEF Start
<1>11. CASE StartTimesOut
  BY <1>a, <1>11 DEF StartTimesOut, NativeUnchanged
<1>12. CASE StopService
  <2>1. snapshot' \in Snapshots /\ state' \in {"stopped", "starting", "running", "failed"}
    BY <1>0, <1>12 DEF StopService, Cleared
  <2>2. call' \in Calls
    BY <1>a, <1>12 DEF StopService
  <2>3. QED
    BY <1>12, <2>1, <2>2 DEF StopService, NativeUnchanged
<1>13. CASE RefreshPermission
  <2>1. snapshot' \in Snapshots /\ state' \in {"stopped", "starting", "running", "failed"}
    BY <1>0, <1>13 DEF RefreshPermission
  <2>2. call' \in Calls /\ session' \in BOOLEAN
    BY <1>a, <1>13 DEF RefreshPermission
  <2>3. QED
    BY <1>13, <2>1, <2>2 DEF RefreshPermission, NativeUnchanged
<1>14. CASE StopTimesOut \/ Execute
  <2>1. CASE StopTimesOut
    BY <1>a, <2>1 DEF StopTimesOut, NativeUnchanged
  <2>2. CASE Execute
    BY <1>a, <2>2, Counting DEF Execute, NativeUnchanged
  <2>3. QED
    BY <1>14, <2>1, <2>2
<1>15. CASE World
  <2>1. front' \in Apps \cup {NoApp, Stalky}
    BY <1>15 DEF World
  <2>2. trusted' \in BOOLEAN
    BY <1>15 DEF World
  <2>3. QED
    BY <1>15, <2>1, <2>2 DEF World, NativeUnchanged
<1>16. CASE UNCHANGED vars
  BY <1>16 DEF vars
<1>17. QED
  BY <1>1, <1>2, <1>3, <1>4, <1>5, <1>6, <1>7, <1>8, <1>9, <1>10, <1>11, <1>12, <1>13,
     <1>14, <1>15, <1>16
  DEF Next, ThreadStep, CallStep

LEMMA InitTInv == Init => TInv
<1> SUFFICES ASSUME Init PROVE TInv
  OBVIOUS
<1>1. 0 \in Generations /\ 0 \in 0..MaxStarts /\ 0 \in 0..MaxActions
  BY AccessibilityAssumption DEF Generations
<1>2. NoSnapshot \in Snapshots /\ NoSnapshot.nodes = << >>
  BY NoSnapshotIsOne DEF NoSnapshot
<1>3. EntriesFit
  BY NoEntries DEF Init, EntriesFit
<1>4. Runtime
  BY <1>1, <1>2, <1>3, NoNodes DEF Init, Runtime
<1>5. Service /\ Seen
  BY <1>1, <1>2 DEF Init, Service, Seen, Idle, Calls
<1>6. QED
  BY <1>4, <1>5 DEF TInv

\* Every id that is shown, kept or sent is one of a tree, and every variable of the service
\* and of the runtime of native.rs keeps its type, however trees are read and requests end.
THEOREM AccessibilityTypeCorrect == Spec => []TypeOK
<1>1. TInv /\ QInv /\ [Next]_vars => TInv'
  BY RuntimeFits, SeenFits, ServiceFits DEF TInv
<1>2. Init => TInv /\ QInv
  BY InitTInv, InitQInv
<1>3. QInv /\ [Next]_vars => QInv'
  BY StepQInv, StillQInv
<1>4. QED
  BY <1>1, <1>2, <1>3, TInvTypes, PTL DEF Spec

\* Types and quiet together: whatever timed out or failed, a service without a session has
\* no thread and no command left, and one in state "stopped" shows nothing.
THEOREM StoppedStaysQuiet == Spec => []StoppedIsQuiet
BY AccessibilityTypeCorrect, NothingIsLeftRunning, PTL DEF StoppedIsQuiet

================================================================================
