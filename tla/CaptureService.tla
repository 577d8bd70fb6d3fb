---------------------------- MODULE CaptureService ----------------------------
(***************************************************************************)
(* The screen capture service of mega-capture: start, stop and the event   *)
(* callbacks of service.rs over the macOS backend of native.rs, with its   *)
(* control thread, frame worker, one-frame inbox and ScreenCaptureKit      *)
(* stream.                                                                 *)
(*                                                                         *)
(* start and stop hold the lifecycle mutex from beginning to end, so one   *)
(* variable, op, says where the only running call is.  What is done under  *)
(* the inner mutex is one action.  A callback that finds that mutex taken  *)
(* by try_lock drops its frame; the mutex can be taken at any time (status *)
(* takes it), so a drop is always possible.  Session g is the g-th one     *)
(* started; frame n is the n-th one the stream delivered.                  *)
(***************************************************************************)
EXTENDS Naturals

CONSTANTS
  Contents,     \* what a frame can show (its digest)
  MaxSessions,  \* bound: sessions started
  MaxFrames     \* bound: frames delivered

ASSUME CaptureAssumption == MaxSessions \in Nat \ {0} /\ MaxFrames \in Nat

VARIABLES
  state,      \* ServiceInner.state
  session,    \* ServiceInner.session: a session number, 0 when None
  held,       \* FrameIngest.latest: number (timestamp) and content, or NoFrame
  taken,      \* FrameMetrics: accepted, duplicate and invalid frames
  drops,      \* callback_drops, by session (start makes a new counter)
  op,         \* where the call holding the lifecycle mutex is
  late,       \* NativeSession::stop gave up waiting for the reply
  startup,    \* the startup channel: "empty", "ok" or "error"
  gen,        \* how many sessions were started
  control,    \* where each session's control thread is
  stream,     \* each SCStream: "none", "live", "dead" or "off"
  registered, \* the stream output is registered
  troubled,   \* shutdown of the session collected an error
  inbox,      \* InboxState.frame
  closed,     \* InboxState.closed
  worker,     \* the frame worker: "none", "running" or "ended"
  carrying,   \* the frame the worker took and has not handed on
  alarm,      \* a didStopWithError callback is on its way
  delivered,  \* how many frames were delivered, which numbers them
  discarded,  \* history: frames inbox.shutdown threw away, by session
  began,      \* history: frames delivered and taken before the latest session
  newest      \* FrameMetrics.last_frame: the number of the frame it describes

serviceVars == <<state, session, held, taken, newest>>
callVars == <<op, late, startup, gen>>
nativeVars == <<control, stream, registered, troubled, alarm>>
frameVars == <<inbox, closed, worker, carrying, delivered, discarded, drops, began>>
vars == <<serviceVars, callVars, nativeVars, frameVars>>

Sessions == 1..MaxSessions
Frames == [n : 1..MaxFrames, shows : Contents]
NoFrame == [n |-> 0, shows |-> "nothing"]
Waiting(f) == IF f = NoFrame THEN 0 ELSE 1
Taken == taken.accepted + taken.duplicate + taken.invalid

TypeOK ==
  /\ state \in {"stopped", "starting", "running", "stopping", "failed"}
  /\ session \in 0..MaxSessions
  /\ held \in Frames \cup {NoFrame}
  /\ taken \in [accepted : Nat, duplicate : Nat, invalid : Nat]
  /\ op \in {"idle", "starting", "timedOut", "abandoning", "stopping"}
  /\ late \in BOOLEAN
  /\ startup \in {"empty", "ok", "error"}
  /\ gen \in 0..MaxSessions
  /\ control \in [Sessions -> {"none", "setup", "prepared", "registered", "streaming",
                               "serving", "closing", "draining", "joining", "ended"}]
  /\ stream \in [Sessions -> {"none", "live", "dead", "off"}]
  /\ registered \in [Sessions -> BOOLEAN]
  /\ troubled \in [Sessions -> BOOLEAN]
  /\ alarm \in [Sessions -> BOOLEAN]
  /\ inbox \in [Sessions -> Frames \cup {NoFrame}]
  /\ closed \in [Sessions -> BOOLEAN]
  /\ worker \in [Sessions -> {"none", "running", "ended"}]
  /\ carrying \in [Sessions -> Frames \cup {NoFrame}]
  /\ delivered \in 0..MaxFrames
  /\ discarded \in [Sessions -> Nat]
  /\ drops \in [Sessions -> Nat]
  /\ began \in [frames : 0..MaxFrames, taken : Nat]
  /\ newest \in 0..MaxFrames

Init ==
  /\ state = "stopped" /\ session = 0 /\ held = NoFrame /\ newest = 0
  /\ taken = [accepted |-> 0, duplicate |-> 0, invalid |-> 0]
  /\ op = "idle" /\ late = FALSE /\ startup = "empty" /\ gen = 0
  /\ control = [g \in Sessions |-> "none"]
  /\ stream = [g \in Sessions |-> "none"]
  /\ registered = [g \in Sessions |-> FALSE]
  /\ troubled = [g \in Sessions |-> FALSE]
  /\ alarm = [g \in Sessions |-> FALSE]
  /\ inbox = [g \in Sessions |-> NoFrame]
  /\ closed = [g \in Sessions |-> FALSE]
  /\ worker = [g \in Sessions |-> "none"]
  /\ carrying = [g \in Sessions |-> NoFrame]
  /\ delivered = 0 /\ began = [frames |-> 0, taken |-> 0]
  /\ discarded = [g \in Sessions |-> 0]
  /\ drops = [g \in Sessions |-> 0]

-----------------------------------------------------------------------------
(* CaptureService::start and NativeBackend::start *)

\* The state is Stopped: on to the backend, which spawns a control thread.
BeginStart ==
  /\ op = "idle"
  /\ state = "stopped"
  /\ gen < MaxSessions
  /\ op' = "starting"
  /\ state' = "starting"
  /\ gen' = gen + 1
  /\ startup' = "empty"
  /\ control' = [control EXCEPT ![gen + 1] = "setup"]
  /\ began' = [frames |-> delivered, taken |-> Taken]
  /\ UNCHANGED <<session, held, taken, newest, late, stream, registered, troubled,
                 alarm, inbox, closed, worker, carrying, delivered, discarded, drops>>

\* recv_timeout gives up; a result may still be put into the channel until the
\* receiver is dropped.
StartTimesOut ==
  /\ op = "starting"
  /\ startup = "empty"
  /\ op' = "timedOut"
  /\ UNCHANGED <<serviceVars, late, startup, gen, nativeVars, frameVars>>

\* The receiver and the command sender are dropped.
Abandon ==
  /\ op = "timedOut"
  /\ op' = "abandoning"
  /\ UNCHANGED <<serviceVars, late, startup, gen, nativeVars, frameVars>>

\* Mutant of StartFails: the control thread is detached, not joined.
StartFailsDetached ==
  /\ \/ op = "starting" /\ startup = "error"
     \/ op = "abandoning"
  /\ op' = "idle"
  /\ state' = "stopped"
  /\ UNCHANGED <<session, held, taken, newest, late, startup, gen, nativeVars, frameVars>>

\* The backend returns an error, having joined the control thread.
StartFails ==
  /\ \/ op = "starting" /\ startup = "error"
     \/ op = "abandoning"
  /\ control[gen] = "ended"
  /\ op' = "idle"
  /\ state' = "stopped"
  /\ UNCHANGED <<session, held, taken, newest, late, startup, gen, nativeVars, frameVars>>

\* The backend returns the session: Running, whatever was reported meanwhile.
StartSucceeds ==
  /\ op = "starting"
  /\ startup = "ok"
  /\ op' = "idle"
  /\ state' = "running"
  /\ session' = gen
  /\ UNCHANGED <<held, taken, newest, late, startup, gen, nativeVars, frameVars>>

-----------------------------------------------------------------------------
(* CaptureService::stop and NativeSession::stop *)

BeginStop ==
  /\ op = "idle"
  /\ state \in {"running", "failed"}
  /\ op' = "stopping"
  /\ state' = "stopping"
  /\ session' = 0
  /\ late' = FALSE
  /\ UNCHANGED <<held, taken, newest, startup, gen, nativeVars, frameVars>>

\* The reply does not come in time; the control thread is joined all the same.
StopTimesOut ==
  /\ op = "stopping"
  /\ control[gen] # "ended"
  /\ ~late
  /\ late' = TRUE
  /\ UNCHANGED <<serviceVars, op, startup, gen, nativeVars, frameVars>>

\* The control thread is joined.  A second stop after a failed one has no
\* session left to stop and succeeds.
FinishStop ==
  /\ op = "stopping"
  /\ control[gen] = "ended"
  /\ op' = "idle"
  /\ held' = NoFrame
  /\ state' = IF late \/ troubled[gen] THEN "failed" ELSE "stopped"
  /\ troubled' = [troubled EXCEPT ![gen] = FALSE]
  /\ UNCHANGED <<session, taken, newest, late, startup, gen, control, stream,
                 registered, alarm, frameVars>>

-----------------------------------------------------------------------------
(* The control thread: native_control_thread, setup_native_runtime and       *)
(* NativeRuntime::shutdown                                                   *)

ToStep(g, step) == control' = [control EXCEPT ![g] = step]

\* The caller still holds the receiving end of the startup channel.
Listening(g) == g = gen /\ op \in {"starting", "timedOut"}
Report(g, result) == startup' = IF Listening(g) THEN result ELSE startup

\* No permission, no display, or no worker thread: nothing to clean up.
SetupFails(g) ==
  /\ control[g] = "setup"
  /\ ToStep(g, "ended")
  /\ Report(g, "error")
  /\ UNCHANGED <<serviceVars, op, late, gen, stream, registered, troubled, alarm, frameVars>>

SpawnWorker(g) ==
  /\ control[g] = "setup"
  /\ ToStep(g, "prepared")
  /\ worker' = [worker EXCEPT ![g] = "running"]
  /\ UNCHANGED <<serviceVars, callVars, stream, registered, troubled, alarm, inbox,
                 closed, carrying, delivered, discarded, drops, began>>

\* addStreamOutput: on failure cleanup_start_failure shuts down what there is.
RegisterOutput(g, ok) ==
  /\ control[g] = "prepared"
  /\ ToStep(g, IF ok THEN "registered" ELSE "closing")
  /\ registered' = [registered EXCEPT ![g] = ok]
  /\ troubled' = [troubled EXCEPT ![g] = ~ok]
  /\ UNCHANGED <<serviceVars, callVars, stream, alarm, frameVars>>

\* startCapture takes effect: frames and errors may come before its completion
\* is seen, and it may do so after the wait for it was given up.
StreamStarts(g) ==
  /\ control[g] \in {"registered", "closing"}
  /\ registered[g]
  /\ stream[g] = "none"
  /\ stream' = [stream EXCEPT ![g] = "live"]
  /\ UNCHANGED <<serviceVars, callVars, control, registered, troubled, alarm, frameVars>>

\* start_stream returns: completed, or an error or a timeout, after which the
\* stream may be live nevertheless.
StartStreamReturns(g, ok) ==
  /\ control[g] = "registered"
  /\ ok => stream[g] # "none"
  /\ ToStep(g, IF ok THEN "streaming" ELSE "closing")
  /\ troubled' = [troubled EXCEPT ![g] = ~ok]
  /\ UNCHANGED <<serviceVars, callVars, stream, registered, alarm, frameVars>>

\* The send succeeds while the receiver exists, whether or not it is read.
ReportStarted(g) ==
  /\ control[g] = "streaming"
  /\ ToStep(g, IF Listening(g) THEN "serving" ELSE "closing")
  /\ Report(g, "ok")
  /\ UNCHANGED <<serviceVars, op, late, gen, stream, registered, troubled, alarm, frameVars>>

\* Mutant of ServeStop: only a command ends the wait, not the lost sender.
ServeStopCommand(g) ==
  /\ control[g] = "serving"
  /\ g = gen
  /\ op = "stopping"
  /\ ToStep(g, "closing")
  /\ UNCHANGED <<serviceVars, callVars, stream, registered, troubled, alarm, frameVars>>

\* A stop command arrives, or its sender is gone.
ServeStop(g) ==
  /\ control[g] = "serving"
  /\ g = gen
  /\ op \in {"stopping", "abandoning"}
  /\ ToStep(g, "closing")
  /\ UNCHANGED <<serviceVars, callVars, stream, registered, troubled, alarm, frameVars>>

\* shutdown: stop the stream if its output is registered (this may fail or
\* time out) and remove the output ...
StopStream(g, ok) ==
  /\ control[g] = "closing"
  /\ ToStep(g, "draining")
  /\ \/ /\ registered[g]
        /\ \/ stream' = [stream EXCEPT ![g] = "off"]
           \/ ~ok /\ UNCHANGED stream
        /\ troubled' = [troubled EXCEPT ![g] = @ \/ ~ok]
     \/ ~registered[g] /\ UNCHANGED <<stream, troubled>>
  /\ registered' = [registered EXCEPT ![g] = FALSE]
  /\ UNCHANGED <<serviceVars, callVars, alarm, frameVars>>

\* ... close the inbox, throwing away what is in it ...
CloseInbox(g) ==
  /\ control[g] = "draining"
  /\ ToStep(g, "joining")
  /\ closed' = [closed EXCEPT ![g] = TRUE]
  /\ discarded' = [discarded EXCEPT ![g] = @ + Waiting(inbox[g])]
  /\ inbox' = [inbox EXCEPT ![g] = NoFrame]
  /\ UNCHANGED <<serviceVars, callVars, stream, registered, troubled, alarm, worker,
                 carrying, delivered, drops, began>>

\* Mutant of JoinWorker: the frame worker is detached, not joined.
JoinWorkerDetached(g) ==
  /\ control[g] = "joining"
  /\ ToStep(g, "ended")
  /\ startup' = IF Listening(g) /\ startup = "empty" THEN "error" ELSE startup
  /\ UNCHANGED <<serviceVars, op, late, gen, stream, registered, troubled, alarm, frameVars>>

\* ... and join the worker.  A session that could not be started reports now.
JoinWorker(g) ==
  /\ control[g] = "joining"
  /\ worker[g] = "ended"
  /\ ToStep(g, "ended")
  /\ startup' = IF Listening(g) /\ startup = "empty" THEN "error" ELSE startup
  /\ UNCHANGED <<serviceVars, op, late, gen, stream, registered, troubled, alarm, frameVars>>

-----------------------------------------------------------------------------
(* Frames and errors *)

Dropped(g) == drops' = [drops EXCEPT ![g] = @ + 1]

\* didOutputSampleBuffer comes while the stream is live, or was under way as
\* the output was removed.  None is still under way once the worker was joined: the
\* code does not wait for its dispatch queue, and this is what the model assumes of it.
CallsBack(g) ==
  /\ delivered < MaxFrames
  /\ stream[g] = "live"
  /\ registered[g] \/ control[g] \in {"draining", "joining"}
  /\ delivered' = delivered + 1

\* Mutant of DeliverFrame: the frame that is replaced is not counted.
DeliverFrameSilently(g, c) ==
  /\ CallsBack(g)
  /\ \/ /\ ~closed[g]
        /\ inbox' = [inbox EXCEPT ![g] = [n |-> delivered + 1, shows |-> c]]
        /\ UNCHANGED drops
     \/ Dropped(g) /\ UNCHANGED inbox
  /\ UNCHANGED <<serviceVars, callVars, nativeVars, closed, worker, carrying, discarded, began>>

\* A complete frame: into the inbox in place of one still waiting there, or
\* dropped because the inbox is busy or closed.
DeliverFrame(g, c) ==
  /\ CallsBack(g)
  /\ \/ /\ ~closed[g]
        /\ inbox' = [inbox EXCEPT ![g] = [n |-> delivered + 1, shows |-> c]]
        /\ drops' = [drops EXCEPT ![g] = @ + Waiting(inbox[g])]
     \/ Dropped(g) /\ UNCHANGED inbox
  /\ UNCHANGED <<serviceVars, callVars, nativeVars, closed, worker, carrying, discarded, began>>

\* A frame that cannot be decoded goes straight to ServiceEvents::ingest.
DeliverInvalid(g) ==
  /\ CallsBack(g)
  /\ \/ /\ state = "running"
        /\ taken' = [taken EXCEPT !.invalid = @ + 1]
        /\ UNCHANGED drops
     \/ Dropped(g) /\ UNCHANGED taken
  /\ UNCHANGED <<state, session, held, newest, callVars, nativeVars, inbox, closed,
                 worker, carrying, discarded, began>>

\* NativeFrameInbox::take.
WorkerTakes(g) ==
  /\ worker[g] = "running"
  /\ carrying[g] = NoFrame
  /\ \/ /\ inbox[g] # NoFrame
        /\ carrying' = [carrying EXCEPT ![g] = inbox[g]]
        /\ inbox' = [inbox EXCEPT ![g] = NoFrame]
        /\ UNCHANGED worker
     \/ /\ inbox[g] = NoFrame
        /\ closed[g]
        /\ worker' = [worker EXCEPT ![g] = "ended"]
        /\ UNCHANGED <<carrying, inbox>>
  /\ UNCHANGED <<serviceVars, callVars, nativeVars, closed, delivered, discarded, drops,
                 began>>

\* ServiceEvents::ingest_owned and FrameIngest::commit_frame: of a frame like the
\* one held only the timestamp is kept.
WorkerIngests(g) ==
  /\ carrying[g] # NoFrame
  /\ carrying' = [carrying EXCEPT ![g] = NoFrame]
  /\ \/ /\ state = "running"
        /\ newest' = carrying[g].n
        /\ held' = carrying[g]
        /\ taken' = IF held.shows = carrying[g].shows
                    THEN [taken EXCEPT !.duplicate = @ + 1]
                    ELSE [taken EXCEPT !.accepted = @ + 1]
        /\ UNCHANGED drops
     \/ Dropped(g) /\ UNCHANGED <<held, taken, newest>>
  /\ UNCHANGED <<state, session, callVars, nativeVars, inbox, closed, worker,
                 delivered, discarded, began>>

\* The stream stops with an error ...
StreamDies(g) ==
  /\ stream[g] = "live"
  /\ stream' = [stream EXCEPT ![g] = "dead"]
  /\ alarm' = [alarm EXCEPT ![g] = TRUE]
  /\ UNCHANGED <<serviceVars, callVars, control, registered, troubled, frameVars>>

\* ... and record_stream_error says so, whichever session it is about.
RecordStreamError(g) ==
  /\ alarm[g]
  /\ alarm' = [alarm EXCEPT ![g] = FALSE]
  /\ state' = IF state = "running" THEN "failed" ELSE state
  /\ UNCHANGED <<session, held, taken, newest, callVars, control, stream, registered,
                 troubled, frameVars>>

-----------------------------------------------------------------------------

Control(g) ==
  \/ SetupFails(g) \/ SpawnWorker(g) \/ StreamStarts(g) \/ ReportStarted(g)
  \/ ServeStop(g) \/ CloseInbox(g) \/ JoinWorker(g)
  \/ \E ok \in BOOLEAN : RegisterOutput(g, ok) \/ StartStreamReturns(g, ok) \/ StopStream(g, ok)

Call == StartFails \/ StartSucceeds \/ Abandon \/ FinishStop

Next ==
  \/ BeginStart \/ BeginStop \/ StartTimesOut \/ StopTimesOut \/ Call
  \/ \E g \in Sessions :
       \/ Control(g) \/ WorkerTakes(g) \/ WorkerIngests(g)
       \/ DeliverInvalid(g) \/ StreamDies(g) \/ RecordStreamError(g)
       \/ \E c \in Contents : DeliverFrame(g, c)

Spec == Init /\ [][Next]_vars

\* Threads that can run do, and every native completion is waited for with a
\* timeout, so that the control thread always gets on.
FairSpec ==
  /\ Spec
  /\ WF_vars(Call)
  /\ \A g \in Sessions : WF_vars(Control(g)) /\ WF_vars(WorkerTakes(g)) /\ WF_vars(WorkerIngests(g))

-----------------------------------------------------------------------------
(* Properties *)

Alive(g) == control[g] \notin {"none", "ended"}

\* No session outlives its start and stop: at most one control thread runs, and
\* once start or stop has returned without a running session there is no
\* thread, no registered output and no frame left in memory, in whatever order
\* the startup result, the timeout and the errors came.
NothingIsLeftBehind ==
  /\ TypeOK
  /\ \A g \in Sessions : Alive(g) => g = gen /\ (op # "idle" \/ session = g)
  /\ \A g \in Sessions : ~Alive(g) =>
       /\ worker[g] # "running" /\ ~registered[g]
       /\ inbox[g] = NoFrame /\ carrying[g] = NoFrame
  /\ op = "idle" /\ session = 0 => held = NoFrame

\* Each frame of a session is committed, counted as dropped by the counter of that
\* session, or under way; only the one frame that waits when the inbox is shut down
\* disappears without being counted.
FramesAreAccountedFor ==
  /\ gen > 0 => delivered - began.frames =
       (Taken - began.taken) + drops[gen] + discarded[gen]
         + Waiting(inbox[gen]) + Waiting(carrying[gen])
  /\ \A g \in Sessions : discarded[g] <= (IF closed[g] THEN 1 ELSE 0)

\* The service never goes back to an older frame, though frames are replaced
\* in the inbox, dropped on the way, and come from one session after another.
FramesNeverGoBack == [][newest' >= newest /\ held'.n \in {0, newest'}]_vars

\* start and stop always return, also when the stream never answers.
CallsReturn == op # "idle" ~> op = "idle"

Native == CASE gen = 0 -> "closed"
            [] gen > 0 /\ control[gen] = "ended" -> "closed"
            [] gen > 0 /\ control[gen] = "setup" -> "fresh"
            [] OTHER -> "open"
Lifecycle == INSTANCE CaptureLifecycle WITH mode <- state, native <- Native

\* The service implements the lifecycle that the rest of the application counts
\* on: each start opens at most one session, and none is left behind a start
\* that failed or a stop.
ImplementsLifecycle == Lifecycle!Spec

=============================================================================
