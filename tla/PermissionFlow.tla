---------------------------- MODULE PermissionFlow ----------------------------
(***************************************************************************)
(* The desktop application's Screen Recording permission: the commands     *)
(* permission_request and permission_statuses of lib.rs over the           *)
(* PermissionCoordinator, the stored preferences and macOS, and the screen *)
(* capture that must not outlive the grant.  Capture is the abstract       *)
(* CaptureLifecycle.                                                       *)
(*                                                                         *)
(* Each await, lock release and system call separates two actions.  The    *)
(* status commands run one at a time on the main thread; a request runs on *)
(* the runtime's threads, and so does a stop the user asks for.            *)
(***************************************************************************)
EXTENDS Naturals

CONSTANTS
  Commands,  \* asynchronous commands that can be under way together
  Main       \* the main thread, with its poll of the permission; none of Commands

VARIABLES
  live,       \* macOS: what tccd answers now
  cached,     \* macOS: what CGPreflightScreenCaptureAccess answers
  registry,   \* PermissionRegistry: the state of the capability
  inFlight,   \* CoordinatorState.in_flight holds the capability
  requested,  \* StoredPreferences: the capability's request count is not 0
  pc,         \* where each command and the main thread are
  asked,      \* the has_requested each request read and has yet to use
  observed,   \* the state each caller got from macOS and has yet to use
  denied,     \* history: a request was answered with a denial
  mode, native  \* the capture service, as in CaptureLifecycle

captureVars == <<mode, native>>
osVars == <<live, cached>>
coordVars == <<registry, inFlight>>
vars == <<live, cached, registry, inFlight, requested, pc, asked, observed, denied, mode, native>>

Askers == Commands \cup {Main}
States == {"unknown", "requesting", "granted", "denied", "revoked", "restartRequired"}

Capture == INSTANCE CaptureLifecycle

TypeOK ==
  /\ live \in BOOLEAN /\ cached \in BOOLEAN
  /\ registry \in States /\ inFlight \in BOOLEAN /\ requested \in BOOLEAN
  /\ pc \in [Askers -> {"idle", "read", "begun", "recorded", "prompted", "answered",
                         "looking", "seen", "observed", "stopping", "waiting"}]
  /\ asked \in [Commands -> BOOLEAN]
  /\ observed \in [Askers -> States]
  /\ denied \in BOOLEAN
  /\ mode \in {"stopped", "starting", "running", "stopping", "failed"}
  /\ native \in {"fresh", "open", "closed"}

Init ==
  /\ live \in BOOLEAN /\ cached = live
  /\ registry = "unknown" /\ inFlight = FALSE /\ requested = FALSE
  /\ pc = [c \in Askers |-> "idle"]
  /\ asked = [c \in Commands |-> FALSE]
  /\ observed = [c \in Askers |-> "unknown"]
  /\ denied = FALSE
  /\ Capture!Init

-----------------------------------------------------------------------------
(* What the code decides *)

\* screen_recording_permission_state, where the private preflight is available.
ScreenRecordingState ==
  CASE live /\ cached -> "granted"
    [] live /\ ~cached -> "restartRequired"
    [] ~live /\ cached -> "revoked"
    [] ~live /\ ~cached -> "denied"

\* permission_request_decision says Request.
MayRequest(state, hasRequested) == state = "unknown" \/ (state = "denied" /\ ~hasRequested)

\* PermissionCoordinator::snapshot.
Snapshot == IF inFlight THEN "requesting" ELSE registry

Goes(c, to) == pc' = [pc EXCEPT ![c] = to]

-----------------------------------------------------------------------------
(* permission_request *)

\* The preferences are asked before the coordinator is locked.
ReadPreferences(c) ==
  /\ pc[c] = "idle"
  /\ Goes(c, "read")
  /\ asked' = [asked EXCEPT ![c] = requested]
  /\ UNCHANGED <<osVars, coordVars, requested, observed, denied, captureVars>>

\* Mutant of BeginRequest: in_flight is not consulted, only the registry.
BeginRequestAnyway(c) ==
  /\ pc[c] = "read"
  /\ MayRequest(registry, asked[c])
  /\ Goes(c, "begun")
  /\ registry' = "requesting"
  /\ inFlight' = TRUE
  /\ asked' = [asked EXCEPT ![c] = FALSE]
  /\ UNCHANGED <<osVars, requested, observed, denied, captureVars>>

BeginRequest(c) ==
  /\ pc[c] = "read"
  /\ ~inFlight
  /\ MayRequest(registry, asked[c])
  /\ Goes(c, "begun")
  /\ registry' = "requesting"
  /\ inFlight' = TRUE
  /\ asked' = [asked EXCEPT ![c] = FALSE]
  /\ UNCHANGED <<osVars, requested, observed, denied, captureVars>>

RefuseRequest(c) ==
  /\ pc[c] = "read"
  /\ inFlight \/ ~MayRequest(registry, asked[c])
  /\ Goes(c, "idle")
  /\ asked' = [asked EXCEPT ![c] = FALSE]
  /\ UNCHANGED <<osVars, coordVars, requested, observed, denied, captureVars>>

\* The request is counted on disk before anything is shown.
RecordRequest(c) ==
  /\ pc[c] = "begun"
  /\ Goes(c, "recorded")
  /\ requested' = TRUE
  /\ UNCHANGED <<osVars, coordVars, asked, observed, denied, captureVars>>

\* mark_request_failed: the preferences could not be written, or System
\* Settings could not be opened.  The registry stays at Requesting.
MarkRequestFailed(c) ==
  /\ pc[c] \in {"begun", "recorded"}
  /\ Goes(c, "idle")
  /\ inFlight' = FALSE
  /\ UNCHANGED <<osVars, registry, requested, asked, observed, denied, captureVars>>

\* CGRequestScreenCaptureAccess refreshes the cached answer.
Prompt(c) ==
  /\ pc[c] = "recorded"
  /\ Goes(c, "prompted")
  /\ cached' = live
  /\ UNCHANGED <<live, coordVars, requested, asked, observed, denied, captureVars>>

ReadAnswer(c) ==
  /\ pc[c] = "prompted"
  /\ Goes(c, "answered")
  /\ observed' = [observed EXCEPT ![c] = ScreenRecordingState]
  /\ UNCHANGED <<osVars, coordVars, requested, asked, denied, captureVars>>

\* The command goes on with a refresh of its own.
FinishRequest(c) ==
  /\ pc[c] = "answered"
  /\ Goes(c, "looking")
  /\ inFlight' = FALSE
  /\ registry' = observed[c]
  /\ observed' = [observed EXCEPT ![c] = "unknown"]
  /\ denied' = (denied \/ observed[c] = "denied")
  /\ UNCHANGED <<osVars, requested, asked, captureVars>>

-----------------------------------------------------------------------------
(* refresh_permission_snapshot and stop_services_without_permission *)

\* permission_statuses: the poll of the window, and its focus event.
Poll ==
  /\ pc[Main] = "idle"
  /\ Goes(Main, "looking")
  /\ UNCHANGED <<osVars, coordVars, requested, asked, observed, denied, captureVars>>

Look(c) ==
  /\ pc[c] = "looking"
  /\ Goes(c, "seen")
  /\ observed' = [observed EXCEPT ![c] = ScreenRecordingState]
  /\ UNCHANGED <<osVars, coordVars, requested, asked, denied, captureVars>>

\* Mutant of Observe: observations are refused while the registry is Requesting.
ObserveUnlessRequesting(c) ==
  /\ pc[c] = "seen"
  /\ Goes(c, "observed")
  /\ registry' = IF registry = "requesting" THEN registry ELSE observed[c]
  /\ observed' = [observed EXCEPT ![c] = "unknown"]
  /\ UNCHANGED <<osVars, inFlight, requested, asked, denied, captureVars>>

Observe(c) ==
  /\ pc[c] = "seen"
  /\ Goes(c, "observed")
  /\ registry' = observed[c]
  /\ observed' = [observed EXCEPT ![c] = "unknown"]
  /\ UNCHANGED <<osVars, inFlight, requested, asked, denied, captureVars>>

\* Mutant of TakeSnapshot: only a denial stops the capture.
TakeSnapshotOfDenial(c) ==
  /\ pc[c] = "observed"
  /\ Goes(c, IF Snapshot = "denied" THEN "stopping" ELSE "idle")
  /\ UNCHANGED <<osVars, coordVars, requested, asked, observed, denied, captureVars>>

\* Anything but a grant stops the capture, a request under way included.
TakeSnapshot(c) ==
  /\ pc[c] = "observed"
  /\ Goes(c, IF Snapshot = "granted" THEN "idle" ELSE "stopping")
  /\ UNCHANGED <<osVars, coordVars, requested, asked, observed, denied, captureVars>>

\* capture_stop, the user's own command.
UserStop(c) ==
  /\ pc[c] = "idle"
  /\ Goes(c, "stopping")
  /\ UNCHANGED <<osVars, coordVars, requested, asked, observed, denied, captureVars>>

\* CaptureService::stop waits for a start or stop under way to return.
StopCapture(c) ==
  /\ pc[c] = "stopping"
  /\ \/ Goes(c, "waiting") /\ Capture!End
     \/ mode = "stopped" /\ Goes(c, "idle") /\ UNCHANGED captureVars
  /\ UNCHANGED <<osVars, coordVars, requested, asked, observed, denied>>

CaptureStopped(c) ==
  /\ pc[c] = "waiting"
  /\ Goes(c, "idle")
  /\ Capture!Ended
  /\ UNCHANGED <<osVars, coordVars, requested, asked, observed, denied>>

-----------------------------------------------------------------------------
(* The capture service, macOS, and the application's restart *)

\* setup_native_runtime asks for the permission before it opens anything.
OpenSession == ScreenRecordingState = "granted" /\ Capture!OpenSession

CaptureMoves == Capture!Started \/ Capture!CloseSession \/ Capture!Abandoned

CaptureSteps ==
  /\ Capture!Begin \/ OpenSession \/ CaptureMoves \/ Capture!Break
  /\ UNCHANGED <<osVars, coordVars, requested, pc, asked, observed, denied>>

\* The user switches the permission on or off in System Settings.
UserDecides ==
  /\ live' = ~live
  /\ denied' = (denied /\ ~live')
  /\ UNCHANGED <<cached, coordVars, requested, pc, asked, observed, captureVars>>

\* relaunch_app, or the end of the process: only the preferences stay.
Relaunch ==
  /\ cached' = live
  /\ registry' = "unknown" /\ inFlight' = FALSE
  /\ pc' = [c \in Askers |-> "idle"]
  /\ asked' = [c \in Commands |-> FALSE]
  /\ observed' = [c \in Askers |-> "unknown"]
  /\ mode' = "stopped" /\ native' = "closed"
  /\ UNCHANGED <<live, requested, denied>>

-----------------------------------------------------------------------------

RequestSteps(c) ==
  \/ BeginRequest(c) \/ RefuseRequest(c) \/ RecordRequest(c) \/ MarkRequestFailed(c)
  \/ Prompt(c) \/ ReadAnswer(c) \/ FinishRequest(c)

RefreshSteps(c) == Look(c) \/ Observe(c) \/ TakeSnapshot(c) \/ CaptureStopped(c)

Next ==
  \/ \E c \in Commands : ReadPreferences(c) \/ RequestSteps(c) \/ UserStop(c)
  \/ Poll
  \/ \E c \in Askers : RefreshSteps(c) \/ StopCapture(c)
  \/ CaptureSteps \/ UserDecides \/ Relaunch

Spec == Init /\ [][Next]_vars

\* The window polls as long as it runs, the main thread goes on when it can, a
\* start or stop of the capture returns (CaptureService's CallsReturn), and the
\* main thread gets a lifecycle mutex that is free again and again.
Fairness ==
  /\ WF_vars(Poll \/ RefreshSteps(Main)) /\ SF_vars(StopCapture(Main))
  /\ \A c \in Commands : WF_vars(CaptureStopped(c))
  /\ WF_vars(CaptureMoves /\ CaptureSteps)

FairSpec == Spec /\ Fairness

-----------------------------------------------------------------------------
(* Properties *)

Asking(c) == pc[c] \in {"begun", "recorded", "prompted", "answered"}

\* However requests race, one at a time is between begin_request and
\* finish_request, and in_flight says so: a failed request leaves no mark behind
\* that would refuse every later one, nor does one clear the mark of another.
\* And a prompt is shown only after its request is on disk, so that a crash at
\* any point cannot make a later run believe it never asked.
RequestsAreOnRecord ==
  /\ TypeOK
  /\ \A c, d \in Commands : Asking(c) /\ Asking(d) => c = d
  /\ inFlight <=> \E c \in Commands : Asking(c)
  /\ (\E c \in Commands : pc[c] \in {"prompted", "answered"}) \/ denied => requested

\* A capture that has lost its grant does not go on as running, whatever the commands
\* under way and the stale states they hold, unless the grant returns first.  Its mode
\* may be "failed" then, and a native session whose stop failed may still be open.
RevocationStopsCapture == mode = "running" /\ ~live ~> mode # "running" \/ live

\* A request that failed, which leaves the registry at Requesting and so every
\* request refused, does not stay in the way.
CanAskAgain == registry = "requesting" /\ ~inFlight ~> registry # "requesting" \/ inFlight

=============================================================================
