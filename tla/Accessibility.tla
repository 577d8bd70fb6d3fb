----------------------------- MODULE Accessibility -----------------------------
(***************************************************************************)
(* Accessibility observation and control (crate stalky-accessibility): the *)
(* service that the desktop's commands call (service.rs), and the thread   *)
(* that observes the focused application and performs actions on its       *)
(* elements (native.rs).                                                   *)
(*                                                                         *)
(* The lifecycle mutex admits one call at a time, so there is one `call`.  *)
(* A wait for the thread separates two steps of a call, and each wait may  *)
(* time out.  The thread alternates between draining its commands and its  *)
(* run loop, where notifications rebuild the tree; one handler of the      *)
(* thread is one action, since what it works on is its own until the       *)
(* snapshot is published.                                                  *)
(***************************************************************************)
EXTENDS Naturals, Sequences, FiniteSets, Functions

CONSTANTS
  Apps,           \* other applications that can have the focus
  Tree,           \* each application's elements, in the order read_raw visits them
  Faulty,         \* elements whose attributes can fail to be read
  Offering,       \* elements that offer the action clients ask for
  MaxStarts,      \* bound: sessions started
  MaxGeneration,  \* bound: rebuilds in a session
  MaxActions,     \* bound: actions requested
  NoApp, Stalky   \* who has the focus when no other application has it

ASSUME AccessibilityAssumption ==
  /\ NoApp \notin Apps /\ Stalky \notin Apps /\ NoApp # Stalky
  /\ \A a \in Apps : Tree[a] \in Seq(Range(Tree[a])) \ {<< >>}
  /\ MaxStarts \in Nat /\ MaxGeneration \in Nat /\ MaxActions \in Nat

VARIABLES
  (* ServiceInner *)
  state,       \* AccessibilityState
  permission,  \* "unknown", "granted" or "denied"
  snapshot,    \* the snapshot the service shows
  session,     \* whether it holds a session
  call,        \* the call that holds the lifecycle mutex, and where it is
  (* the AX thread *)
  thread,      \* "gone", "installing", "draining" or "looping"
  commands,    \* the channel to it
  ready, ack,  \* what start and stop wait for
  generation, elements, app, observer,  \* NativeRuntime
  unpublished, \* the snapshot that was read and not yet handed to the sink
  (* macOS *)
  trusted,     \* AXIsProcessTrusted
  front,       \* the application with the focus
  (* history *)
  starts,      \* sessions started
  asked,       \* actions requested
  shown,       \* what each id stood for in the snapshots published
  built,       \* the generation of the tree that stands
  performed    \* the actions performed: the id asked for, the element acted on, and
               \* the session and the generation of its tree

serviceVars == <<state, permission, snapshot, session, call>>
runtimeVars == <<generation, elements, app, observer, unpublished, built>>
osVars == <<trusted, front>>
vars == <<serviceVars, thread, commands, ready, ack, runtimeVars, osVars,
          starts, asked, shown, performed>>

Elements == UNION {Range(Tree[a]) : a \in Apps}
Ids == UNION {0..Len(Tree[a]) - 1 : a \in Apps}
Generations == 0..MaxGeneration
NoSnapshot == [generation |-> 0, nodes |-> << >>, present |-> FALSE]
Stop == [stop |-> TRUE]
Idle == [op |-> "none", step |-> "idle"]

\* An id as a client holds it, with the session and the element it stood for in the
\* snapshot.
Choices == [id : Ids, generation : Generations, element : Elements, start : 0..MaxStarts]
Deeds == [choice : Choices, on : Elements, start : 0..MaxStarts, tree : Generations]

TypeOK ==
  /\ state \in {"stopped", "starting", "running", "failed"}
  /\ permission \in {"unknown", "granted", "denied"}
  /\ {snapshot, unpublished} \subseteq
       [generation : Generations, nodes : Seq(Elements), present : BOOLEAN]
  /\ session \in BOOLEAN
  /\ call \in [op : {"none", "start", "stop", "refresh", "execute"},
               step : {"idle", "waiting", "joining"}]
  /\ thread \in {"gone", "installing", "draining", "looping"}
  /\ commands \in Seq({Stop} \cup Choices)
  /\ ready \in {"none", "ok", "error", "untrusted"} /\ ack \in BOOLEAN
  /\ generation \in Generations /\ built \in Generations
  /\ DOMAIN elements \subseteq Ids
  /\ \A i \in DOMAIN elements :
       elements[i] \in [element : Elements, generation : Generations, offers : BOOLEAN]
  /\ app \in Apps \cup {NoApp} /\ front \in Apps \cup {NoApp, Stalky}
  /\ observer \in BOOLEAN /\ trusted \in BOOLEAN
  /\ starts \in 0..MaxStarts /\ asked \in 0..MaxActions
  /\ shown \subseteq Choices
  /\ performed \subseteq Deeds

Init ==
  /\ state = "stopped" /\ permission = "unknown" /\ snapshot = NoSnapshot
  /\ session = FALSE /\ call = Idle
  /\ thread = "gone" /\ commands = << >>
  /\ ready = "none" /\ ack = FALSE
  /\ generation = 0 /\ elements = << >> /\ app = NoApp /\ observer = FALSE /\ built = 0
  /\ unpublished = NoSnapshot
  /\ trusted \in BOOLEAN /\ front \in Apps \cup {NoApp, Stalky}
  /\ starts = 0 /\ asked = 0 /\ shown = {} /\ performed = {}

-----------------------------------------------------------------------------
(* NativeRuntime: reading the tree *)

\* How a visit to an element ends: "absent" when it is not reached (gone, or the
\* budget is used up), "early" or "late" when an attribute cannot be read before
\* or after its actions were noted.
Outcomes(e) == {"read", "absent"} \cup IF e \in Faulty THEN {"early", "late"} ELSE {}

Reads(a) == {o \in [Range(Tree[a]) -> {"read", "absent", "early", "late"}] :
               \A e \in Range(Tree[a]) : o[e] \in Outcomes(e)}

\* The elements of a tree whose visits ended in one of these ways, in the order of the tree.
Visited(tree, o, endings) ==
  LET places == {i \in DOMAIN tree : o[tree[i]] \in endings}
      rank(i) == Cardinality({j \in places : j <= i})
  IN [n \in 1..Cardinality(places) |-> tree[CHOOSE i \in places : rank(i) = n]]

\* read_raw: the handle of each element visited is pushed, the binding of each
\* whose actions were read, and a node is left of each that was read throughout.
Handles(a, o) == Visited(Tree[a], o, {"read", "late", "early"})
Bindings(a, o) == Visited(Tree[a], o, {"read", "late"})
\* The tree, flattened: normalize_tree numbers its nodes from 0 in this order.
Nodes(a, o) == IF o[Head(Tree[a])] # "read" THEN << >> ELSE Visited(Tree[a], o, {"read"})

\* Handles and bindings are paired by their place, unless the root was not read.
Entries(a, o, g) ==
  IF o[Head(Tree[a])] # "read" THEN << >>
  ELSE [i \in 0..Len(Bindings(a, o)) - 1 |->
          [element |-> Handles(a, o)[i + 1], generation |-> g,
           offers |-> Bindings(a, o)[i + 1] \in Offering]]

Shot(g, nodes) == [generation |-> g, nodes |-> nodes, present |-> TRUE]

\* Mutant of ReadTree: what is left of the last tree is not cleared.
ReadTreeOver(a, g) ==
  /\ trusted
  /\ generation' = g /\ built' = g
  /\ \E o \in Reads(a) :
       LET fresh == Entries(a, o, g) IN
       /\ elements' = [i \in DOMAIN elements \cup DOMAIN fresh |->
                          IF i \in DOMAIN fresh THEN fresh[i] ELSE elements[i]]
       /\ unpublished' = Shot(g, Nodes(a, o))

\* refresh_snapshot of the application a, with generation g, up to the publication.
ReadTree(a, g) ==
  /\ trusted
  /\ generation' = g /\ built' = g
  /\ \E o \in Reads(a) :
       elements' = Entries(a, o, g) /\ unpublished' = Shot(g, Nodes(a, o))

\* ... and when it fails before it has cleared the last tree.
KeepTree(g, kept, standing) ==
  /\ generation' = g /\ elements' = kept /\ built' = standing
  /\ UNCHANGED unpublished

-----------------------------------------------------------------------------
(* NativeRuntime: the focus *)

\* Nothing has the focus: the application that had it is let go.
LoseApplication ==
  /\ trusted
  /\ app' = NoApp /\ observer' = FALSE /\ elements' = << >> /\ built' = 0
  /\ unpublished' = Shot(generation, << >>)
  /\ UNCHANGED generation

\* rebind_application to the application a, then refresh_snapshot.
Rebind(a) ==
  /\ generation + 2 <= MaxGeneration
  /\ app' = a /\ observer' = TRUE
  /\ ReadTree(a, generation + 2)

\* One of them fails: before the elements are cleared, once the process is noted
\* as the one that is observed, or when it is being observed.
RebindFails(a) ==
  \/ /\ observer' = FALSE
     /\ UNCHANGED <<app, elements, generation, built, unpublished>>
  \/ /\ generation < MaxGeneration
     /\ app' = a /\ observer' = FALSE
     /\ KeepTree(generation + 1, << >>, 0)
  \/ /\ generation + 2 <= MaxGeneration
     /\ app' = a /\ observer' = TRUE
     /\ KeepTree(generation + 2, << >>, 0)

\* Stalky itself, and the application that is observed, are no new target.
NewTarget == front \notin {NoApp, Stalky, app}

-----------------------------------------------------------------------------
(* The AX thread *)

\* NativeRuntime::shutdown, and the thread returns.
Ends ==
  /\ thread' = "gone" /\ commands' = << >>
  /\ observer' = FALSE /\ app' = NoApp /\ elements' = << >> /\ built' = 0 /\ generation' = 0
  /\ UNCHANGED unpublished

\* create or install fails, and start is told why.
InstallFails ==
  /\ thread = "installing" /\ ~unpublished.present
  /\ ready' = IF trusted THEN "error" ELSE "untrusted"
  /\ Ends
  /\ UNCHANGED <<serviceVars, ack, osVars, starts, asked, shown, performed>>

\* install: refresh_focus(true), up to the publication.
Install ==
  /\ thread = "installing" /\ ~unpublished.present
  /\ IF front \in Apps THEN Rebind(front) ELSE LoseApplication
  /\ UNCHANGED <<serviceVars, thread, commands, ready, ack, osVars, starts, asked, shown,
                 performed>>

\* publish_snapshot: the sink only tries the lock of ServiceInner, which execute
\* holds while it waits, and status and any other call for moments, so that every
\* publication can be lost.  After install the thread reports that it is ready.
Publish ==
  /\ unpublished.present
  /\ \/ /\ call.op # "execute"
        /\ snapshot' = unpublished
        /\ shown' = shown \cup
             {[id |-> i - 1, generation |-> unpublished.generation,
               element |-> unpublished.nodes[i], start |-> starts] :
                i \in DOMAIN unpublished.nodes}
     \/ UNCHANGED <<snapshot, shown>>
  /\ unpublished' = NoSnapshot
  /\ IF thread = "installing" THEN ready' = "ok" /\ thread' = "draining"
     ELSE UNCHANGED <<ready, thread>>
  /\ UNCHANGED <<state, permission, session, call, commands, ack, generation, elements, app,
                 observer, osVars, starts, asked, built, performed>>

\* execute_action: the id names an entry of its generation, which offered the
\* action when the tree was read, and the element still offers it.
PerformAction ==
  /\ thread = "draining" /\ commands # << >> /\ Head(commands) # Stop
  /\ LET c == Head(commands) IN
     /\ c.id \in DOMAIN elements
     /\ elements[c.id].generation = c.generation
     /\ elements[c.id].offers /\ elements[c.id].element \in Offering
     /\ performed' = performed \cup
          {[choice |-> c, on |-> elements[c.id].element, start |-> starts, tree |-> built]}
  /\ commands' = Tail(commands)
  /\ UNCHANGED <<serviceVars, thread, ready, ack, runtimeVars, osVars, starts, asked, shown>>

\* ... or the action is refused, or macOS does not perform it.
RefuseAction ==
  /\ thread = "draining" /\ commands # << >> /\ Head(commands) # Stop
  /\ commands' = Tail(commands)
  /\ UNCHANGED <<serviceVars, thread, ready, ack, runtimeVars, osVars, starts, asked, shown,
                 performed>>

HandleStop ==
  /\ thread = "draining" /\ commands # << >> /\ Head(commands) = Stop
  /\ Ends
  /\ ack' = TRUE
  /\ UNCHANGED <<serviceVars, ready, osVars, starts, asked, shown, performed>>

\* Everything was drained: a look at the focus, when it is due, and the run loop.
EnterRunLoop ==
  /\ thread = "draining" /\ commands = << >>
  /\ thread' = "looping"
  /\ UNCHANGED <<serviceVars, commands, ready, ack, runtimeVars, osVars, starts, asked,
                 shown, performed>>

LeaveRunLoop ==
  /\ thread = "looping" /\ ~unpublished.present
  /\ thread' = "draining"
  /\ UNCHANGED <<serviceVars, commands, ready, ack, runtimeVars, osVars, starts, asked,
                 shown, performed>>

\* refresh_focus(false), on the poll or on a notification of the focus.
RefreshFocus ==
  /\ thread = "looping" /\ ~unpublished.present
  /\ \/ front = NoApp /\ app # NoApp /\ LoseApplication
     \/ NewTarget /\ Rebind(front)
     \/ NewTarget /\ RebindFails(front)
  /\ UNCHANGED <<serviceVars, thread, commands, ready, ack, osVars, starts, asked, shown,
                 performed>>

\* handle_notification of anything else: a destroyed element loses its entry, and
\* the tree is rebuilt.
HandleNotification ==
  /\ thread = "looping" /\ ~unpublished.present
  /\ observer /\ generation < MaxGeneration
  /\ \/ ReadTree(app, generation + 1)
     \/ \E gone \in {{}} \cup {{e} : e \in Range(Tree[app])} :
          LET kept == {i \in DOMAIN elements : elements[i].element \notin gone} IN
          KeepTree(generation + 1, [i \in kept |-> elements[i]], built)
  /\ UNCHANGED <<serviceVars, thread, commands, ready, ack, app, observer, osVars, starts,
                 asked, shown, performed>>

-----------------------------------------------------------------------------
(* AccessibilityService: the calls.  Each begins when no other holds the        *)
(* lifecycle mutex; one that must not wait ends in the same step.               *)

Free == call.op = "none"
Waits(op) == call.op = op /\ call.step = "waiting"
Joins(op) == call.op = op /\ call.step = "joining"
Goes(op, step) == call' = [op |-> op, step |-> step]
ChannelsDropped == ready' = "none" /\ ack' = FALSE /\ UNCHANGED <<thread, runtimeVars>>
NativeUnchanged == UNCHANGED <<thread, ready, ack, runtimeVars>>

\* start, up to the wait for the new thread; a service that runs refuses it.
Start ==
  /\ Free /\ ~session /\ state # "running"
  /\ starts < MaxStarts
  /\ starts' = starts + 1
  /\ state' = "starting"
  /\ Goes("start", "waiting")
  /\ thread' = "installing" /\ commands' = << >>
  /\ UNCHANGED <<permission, snapshot, session, ready, ack, runtimeVars, osVars, asked, shown,
                 performed>>

Started ==
  /\ Waits("start") /\ ready = "ok"
  /\ session' = TRUE /\ state' = "running" /\ permission' = "granted"
  /\ call' = Idle
  /\ UNCHANGED <<snapshot, commands, osVars, starts, asked, shown, performed>>
  /\ ChannelsDropped

NotStarted ==
  /\ Waits("start") /\ ready \in {"error", "untrusted"} /\ thread = "gone"
  /\ state' = "failed"
  /\ permission' = IF ready = "untrusted" THEN "denied" ELSE permission
  /\ call' = Idle
  /\ UNCHANGED <<snapshot, session, commands, osVars, starts, asked, shown, performed>>
  /\ ChannelsDropped

\* Mutants of StartTimesOut: the thread is left to itself; it is joined, not told.
StartTimesOutAlone ==
  /\ Waits("start") /\ ready = "none"
  /\ commands' = Append(commands, Stop)
  /\ state' = "failed"
  /\ call' = Idle
  /\ UNCHANGED <<permission, snapshot, session, osVars, starts, asked, shown, performed>>
  /\ NativeUnchanged
StartTimesOutUntold ==
  /\ Waits("start") /\ ready = "none"
  /\ Goes("start", "joining")
  /\ UNCHANGED <<state, permission, snapshot, session, commands, osVars, starts, asked, shown,
                 performed>>
  /\ NativeUnchanged

\* The thread was not ready in START_TIMEOUT: it is told to stop and joined.
StartTimesOut ==
  /\ Waits("start") /\ ready = "none"
  /\ commands' = Append(commands, Stop)
  /\ Goes("start", "joining")
  /\ UNCHANGED <<state, permission, snapshot, session, osVars, starts, asked, shown, performed>>
  /\ NativeUnchanged

StartJoined ==
  /\ Joins("start") /\ thread = "gone"
  /\ state' = "failed"
  /\ call' = Idle
  /\ UNCHANGED <<permission, snapshot, session, commands, osVars, starts, asked, shown, performed>>
  /\ ChannelsDropped

\* What stop leaves when the session has ended, well or not.
Cleared(well) ==
  /\ snapshot' = NoSnapshot
  /\ state' = IF well THEN "stopped" ELSE "failed"

\* stop takes the session and tells its thread; without one it only clears.
StopService ==
  /\ Free
  /\ session' = FALSE
  /\ IF session
     THEN /\ Goes("stop", "waiting") /\ commands' = Append(commands, Stop)
          /\ UNCHANGED <<state, snapshot>>
     ELSE /\ Cleared(TRUE)
          /\ UNCHANGED <<call, commands>>
  /\ UNCHANGED <<permission, osVars, starts, asked, shown, performed>>
  /\ NativeUnchanged

\* refresh_permission: a running service without the grant fails, clears what it
\* shows and only then ends its session.
RefreshPermission ==
  /\ Free
  /\ permission' = IF trusted THEN "granted" ELSE "denied"
  /\ IF ~trusted /\ state = "running"
     THEN /\ state' = "failed" /\ snapshot' = NoSnapshot /\ session' = FALSE
          /\ Goes("refresh", "waiting") /\ commands' = Append(commands, Stop)
     ELSE UNCHANGED <<state, snapshot, session, call, commands>>
  /\ UNCHANGED <<osVars, starts, asked, shown, performed>>
  /\ NativeUnchanged

\* NativeSession::stop: the acknowledgement comes, or STOP_TIMEOUT passes; either
\* way the thread is joined.
StopAnswered ==
  /\ call.op \in {"stop", "refresh"} /\ call.step = "waiting" /\ ack /\ thread = "gone"
  /\ IF call.op = "stop" THEN Cleared(TRUE) ELSE UNCHANGED <<state, snapshot>>
  /\ call' = Idle
  /\ UNCHANGED <<permission, session, commands, osVars, starts, asked, shown, performed>>
  /\ ChannelsDropped

StopTimesOut ==
  /\ call.op \in {"stop", "refresh"} /\ call.step = "waiting" /\ ~ack
  /\ Goes(call.op, "joining")
  /\ UNCHANGED <<state, permission, snapshot, session, commands, osVars, starts, asked, shown,
                 performed>>
  /\ NativeUnchanged

StopJoined ==
  /\ call.op \in {"stop", "refresh"} /\ call.step = "joining" /\ thread = "gone"
  /\ IF call.op = "stop" THEN Cleared(FALSE) ELSE UNCHANGED <<state, snapshot>>
  /\ call' = Idle
  /\ UNCHANGED <<permission, session, commands, osVars, starts, asked, shown, performed>>
  /\ ChannelsDropped

\* execute: an action on an id that some snapshot showed, in this session or an
\* earlier one, goes to the thread.  The channel holds four commands in the code and
\* a full one makes the sender wait; here it holds all, for the thread drains it.
Execute ==
  /\ Free /\ session /\ state = "running"
  /\ asked < MaxActions
  /\ asked' = asked + 1
  /\ Goes("execute", "waiting")
  /\ \E c \in shown : commands' = Append(commands, c)
  /\ UNCHANGED <<state, permission, snapshot, session, osVars, starts, shown, performed>>
  /\ NativeUnchanged

\* The answer comes, or ACTION_TIMEOUT passes and the action stays in the channel.
ExecuteReturns ==
  /\ Waits("execute")
  /\ call' = Idle
  /\ UNCHANGED <<state, permission, snapshot, session, commands, osVars, starts, asked, shown,
                 performed>>
  /\ NativeUnchanged

\* macOS: the user grants or withdraws trust, or turns to another application.
World ==
  /\ \/ trusted' = ~trusted /\ UNCHANGED front
     \/ front' \in (Apps \cup {NoApp, Stalky}) \ {front} /\ UNCHANGED trusted
  /\ UNCHANGED <<serviceVars, commands, starts, asked, shown, performed>>
  /\ NativeUnchanged

-----------------------------------------------------------------------------

ThreadStep ==
  \/ InstallFails \/ Install \/ Publish \/ PerformAction \/ RefuseAction \/ HandleStop
  \/ EnterRunLoop \/ LeaveRunLoop

CallStep ==
  \/ Started \/ NotStarted \/ StartJoined \/ StopAnswered \/ StopJoined \/ ExecuteReturns

Next ==
  \/ ThreadStep \/ CallStep
  \/ Start \/ StartTimesOut \/ StopService \/ StopTimesOut \/ RefreshPermission \/ Execute
  \/ RefreshFocus \/ HandleNotification
  \/ World

Spec == Init /\ [][Next]_vars

\* The thread is scheduled, macOS answers it within the messaging timeouts, and
\* the callers are scheduled; nothing makes a timeout happen.
FairSpec == Spec /\ WF_vars(ThreadStep) /\ WF_vars(CallStep)

-----------------------------------------------------------------------------
(* Properties *)

\* Between calls a service without a session has no thread left behind, whatever
\* timed out, so a late action or a second observer cannot come; and a service
\* whose state is "stopped" shows nothing of the screen.  One whose state is "failed"
\* may: a start that timed out after its thread had published, and a publication that
\* comes while refresh_permission ends the session, leave their snapshot there until
\* the next stop.
NothingRunsOn ==
  Free /\ ~session =>
    /\ thread = "gone" /\ commands = << >>
    /\ state = "stopped" => snapshot = NoSnapshot

\* That, and every variable has its type.
StoppedIsQuiet == TypeOK /\ NothingRunsOn

\* However long an action waited in the channel, one that was chosen in this session
\* is performed only by an id of the tree that stands: ids of a tree of the session
\* that was replaced or cleared fail closed.
NoActionOnReplacedTree ==
  \A p \in performed : p.choice.start = p.start => p.choice.generation = p.tree

\* README.md and refresh_snapshot: stale ids fail closed; so does every id of an
\* earlier session, whose tree was cleared when its thread ended.
OldSessionsFailClosed == \A p \in performed : p.choice.start = p.start

\* No call hangs: the sink never waits for the lock that a call holds, and the
\* thread that is joined always comes to its end.
CallsReturn == ~Free ~> Free

\* README.md: controls are restricted to what the selected element advertises; so
\* the element acted on is the one the id stood for in the snapshot.
ActsOnTheSelectedElement == \A p \in performed : p.on = p.choice.element

=============================================================================
