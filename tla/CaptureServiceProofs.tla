-------------------------- MODULE CaptureServiceProofs --------------------------
(***************************************************************************)
(* Proofs about CaptureService for any number of sessions and frames.      *)
(* CInv ties the call that holds the lifecycle mutex, the state it shows   *)
(* and the startup channel to the place of the latest control thread       *)
(* (Calling), says what each place of a thread leaves standing (Standing), *)
(* and orders the frames that are under way (InOrder).                     *)
(***************************************************************************)
EXTENDS CaptureService, Integers, TLAPS

Places == {"setup", "prepared", "registered", "streaming", "serving", "closing", "draining",
           "joining", "ended"}

\* Sessions before the latest are over, those after it have not begun.
Sequential ==
  /\ gen = 0 => op = "idle" /\ session = 0 /\ state = "stopped"
  /\ gen > 0 => control[gen] \in Places
  /\ \A g \in Sessions : g < gen => control[g] = "ended"
  /\ \A g \in Sessions : g > gen => control[g] = "none"

\* What the running call, or its absence, says of the state, the session and the thread.
Calling ==
  /\ op = "idle" =>
       \/ session = 0 /\ state \in {"stopped", "failed"} /\ (gen > 0 => control[gen] = "ended")
       \/ session = gen /\ gen > 0 /\ state \in {"running", "failed"} /\ control[gen] = "serving"
  /\ op \in {"starting", "timedOut", "abandoning"} => session = 0 /\ state = "starting"
  /\ op \in {"starting", "timedOut"} =>
       /\ startup = "empty" <=> control[gen] \notin {"serving", "ended"}
       /\ startup = "ok" <=> control[gen] = "serving"
  /\ op = "stopping" => /\ session = 0 /\ state = "stopping"
                        /\ control[gen] \in {"serving", "closing", "draining", "joining", "ended"}
  /\ state \in {"starting", "stopped"} \/ (session = 0 /\ op = "idle") => held = NoFrame

\* What stands of a session while its thread is at each place.
StandsAt(g) ==
  /\ control[g] \in {"none", "setup"} =>
       worker[g] = "none" /\ ~registered[g] /\ ~closed[g]
  /\ control[g] \in {"prepared", "registered", "streaming", "serving", "closing", "draining"} =>
       worker[g] = "running" /\ ~closed[g]
  /\ control[g] \in {"prepared", "draining", "joining", "ended"} => ~registered[g]
  /\ control[g] = "joining" => worker[g] \in {"running", "ended"} /\ closed[g]
  /\ control[g] = "ended" => worker[g] \in {"none", "ended"}
  /\ worker[g] = "none" => inbox[g] = NoFrame /\ carrying[g] = NoFrame
  /\ worker[g] = "ended" => carrying[g] = NoFrame /\ closed[g]
  /\ closed[g] => inbox[g] = NoFrame
Standing == \A g \in Sessions : StandsAt(g)

\* Frames under way are newer than what the service has, and the older one is carried.
InOrder ==
  /\ newest <= delivered
  /\ held.n \in {0, newest}
  /\ \A g \in Sessions :
       /\ inbox[g].n <= delivered /\ carrying[g].n <= delivered
       /\ inbox[g] # NoFrame => inbox[g].n > newest /\ inbox[g].n > carrying[g].n
       /\ carrying[g] # NoFrame => carrying[g].n > newest

CInv == TypeOK /\ Sequential /\ Calling /\ Standing

\* The types of what Sequential, Calling and Standing speak of.
Threads ==
  /\ gen \in 0..MaxSessions /\ session \in 0..MaxSessions
  /\ control \in [Sessions -> Places \cup {"none"}]
  /\ registered \in [Sessions -> BOOLEAN] /\ closed \in [Sessions -> BOOLEAN]
  /\ worker \in [Sessions -> {"none", "running", "ended"}]
  /\ inbox \in [Sessions -> Frames \cup {NoFrame}]
  /\ carrying \in [Sessions -> Frames \cup {NoFrame}]

LEMMA ThreadTypes == TypeOK => Threads
BY DEF TypeOK, Threads, Places

\* The counters of FrameMetrics.
LEMMA CountersCount ==
  ASSUME taken \in [accepted : Nat, duplicate : Nat, invalid : Nat]
  PROVE  /\ [taken EXCEPT !.accepted = @ + 1] \in [accepted : Nat, duplicate : Nat, invalid : Nat]
         /\ [taken EXCEPT !.duplicate = @ + 1] \in [accepted : Nat, duplicate : Nat, invalid : Nat]
         /\ [taken EXCEPT !.invalid = @ + 1] \in [accepted : Nat, duplicate : Nat, invalid : Nat]
OBVIOUS

LEMMA InitCInv == Init => CInv
<1> SUFFICES ASSUME Init PROVE CInv
  OBVIOUS
<1>1. TypeOK
  <2>1. /\ taken \in [accepted : Nat, duplicate : Nat, invalid : Nat]
        /\ began \in [frames : 0..MaxFrames, taken : Nat]
    BY CaptureAssumption DEF Init
  <2>2. /\ discarded \in [Sessions -> Nat] /\ drops \in [Sessions -> Nat]
        /\ inbox \in [Sessions -> Frames \cup {NoFrame}]
        /\ carrying \in [Sessions -> Frames \cup {NoFrame}]
        /\ held \in Frames \cup {NoFrame}
    BY DEF Init
  <2>3. /\ control \in [Sessions -> Places \cup {"none"}]
        /\ stream \in [Sessions -> {"none", "live", "dead", "off"}]
        /\ worker \in [Sessions -> {"none", "running", "ended"}]
    BY DEF Init
  <2>4. /\ registered \in [Sessions -> BOOLEAN] /\ troubled \in [Sessions -> BOOLEAN]
        /\ alarm \in [Sessions -> BOOLEAN] /\ closed \in [Sessions -> BOOLEAN]
    BY DEF Init
  <2>5. /\ state = "stopped" /\ op = "idle" /\ startup = "empty" /\ late \in BOOLEAN
        /\ session = 0 /\ gen = 0 /\ newest = 0 /\ delivered = 0
    BY DEF Init
  <2>6. 0 \in 0..MaxSessions /\ 0 \in 0..MaxFrames
    BY CaptureAssumption
  <2>7. QED
    BY <2>1, <2>2, <2>3, <2>4, <2>5, <2>6 DEF TypeOK, Places
<1>2. Sequential /\ Calling /\ Standing
  BY CaptureAssumption DEF Init, Sequential, Calling, Standing, StandsAt, Sessions
<1>3. QED
  BY <1>1, <1>2 DEF CInv

-----------------------------------------------------------------------------
(* Each step keeps CInv *)

LEMMA BeginStartKeepsCInv ==
  ASSUME CInv, BeginStart
  PROVE  CInv'
<1> USE CaptureAssumption DEF BeginStart, serviceVars, callVars, nativeVars, frameVars, Sessions
<1>1. TypeOK /\ Sequential /\ Calling /\ Standing /\ Threads
  BY ThreadTypes DEF CInv
<1>2. TypeOK'
  <2>1. began' \in [frames : 0..MaxFrames, taken : Nat]
    <3>1. /\ taken.accepted \in Nat /\ taken.duplicate \in Nat /\ taken.invalid \in Nat
          /\ delivered \in 0..MaxFrames
      BY <1>1 DEF TypeOK
    <3>2. Taken \in Nat
      BY ONLY <3>1 DEF Taken
    <3>3. began' = [frames |-> delivered, taken |-> Taken]
      OBVIOUS
    <3>4. QED
      BY ONLY <3>1, <3>2, <3>3
  <2>2. gen' \in 0..MaxSessions /\ control' \in [Sessions -> Places \cup {"none"}]
    BY <1>1 DEF TypeOK, Places
  <2>3. QED
    BY <1>1, <2>1, <2>2 DEF TypeOK, Places
<1>3. Sequential' /\ Calling'
  BY <1>1 DEF Threads, Sequential, Calling, Places
<1>4. Standing'
  BY <1>1 DEF Threads, Standing, StandsAt, Sequential, Calling, Places
<1>5. QED
  BY <1>2, <1>3, <1>4 DEF CInv

LEMMA StartTimesOutKeepsCInv ==
  ASSUME CInv, StartTimesOut
  PROVE  CInv'
<1> USE CaptureAssumption DEF StartTimesOut, serviceVars, callVars, nativeVars, frameVars, Sessions
<1>1. TypeOK /\ Sequential /\ Calling /\ Standing /\ Threads
  BY ThreadTypes DEF CInv
<1>2. TypeOK'
  BY <1>1 DEF TypeOK, Sequential, Places
<1>3. Sequential' /\ Calling'
  BY <1>1 DEF Threads, Sequential, Calling, Places
<1>4. Standing'
  BY <1>1 DEF Threads, Standing, StandsAt, Sequential, Calling, Places
<1>5. QED
  BY <1>2, <1>3, <1>4 DEF CInv

LEMMA AbandonKeepsCInv ==
  ASSUME CInv, Abandon
  PROVE  CInv'
<1> USE CaptureAssumption DEF Abandon, serviceVars, callVars, nativeVars, frameVars, Sessions
<1>1. TypeOK /\ Sequential /\ Calling /\ Standing /\ Threads
  BY ThreadTypes DEF CInv
<1>2. TypeOK'
  BY <1>1 DEF TypeOK, Sequential, Places
<1>3. Sequential' /\ Calling'
  BY <1>1 DEF Threads, Sequential, Calling, Places
<1>4. Standing'
  BY <1>1 DEF Threads, Standing, StandsAt, Sequential, Calling, Places
<1>5. QED
  BY <1>2, <1>3, <1>4 DEF CInv

LEMMA StartFailsKeepsCInv ==
  ASSUME CInv, StartFails
  PROVE  CInv'
<1> USE CaptureAssumption DEF StartFails, serviceVars, callVars, nativeVars, frameVars, Sessions
<1>1. TypeOK /\ Sequential /\ Calling /\ Standing /\ Threads
  BY ThreadTypes DEF CInv
<1>2. TypeOK'
  BY <1>1 DEF TypeOK, Sequential, Places
<1>3. Sequential' /\ Calling'
  BY <1>1 DEF Threads, Sequential, Calling, Places
<1>4. Standing'
  BY <1>1 DEF Threads, Standing, StandsAt, Sequential, Calling, Places
<1>5. QED
  BY <1>2, <1>3, <1>4 DEF CInv

LEMMA StartSucceedsKeepsCInv ==
  ASSUME CInv, StartSucceeds
  PROVE  CInv'
<1> USE CaptureAssumption DEF StartSucceeds, serviceVars, callVars, nativeVars, frameVars, Sessions
<1>1. TypeOK /\ Sequential /\ Calling /\ Standing /\ Threads
  BY ThreadTypes DEF CInv
<1>2. TypeOK'
  BY <1>1 DEF TypeOK, Sequential, Places
<1>3. Sequential' /\ Calling'
  BY <1>1 DEF Threads, Sequential, Calling, Places
<1>4. Standing'
  BY <1>1 DEF Threads, Standing, StandsAt, Sequential, Calling, Places
<1>5. QED
  BY <1>2, <1>3, <1>4 DEF CInv

LEMMA BeginStopKeepsCInv ==
  ASSUME CInv, BeginStop
  PROVE  CInv'
<1> USE CaptureAssumption DEF BeginStop, serviceVars, callVars, nativeVars, frameVars, Sessions
<1>1. TypeOK /\ Sequential /\ Calling /\ Standing /\ Threads
  BY ThreadTypes DEF CInv
<1>2. TypeOK'
  <2>1. late' \in BOOLEAN /\ state' \in {"stopped", "starting", "running", "stopping", "failed"}
    OBVIOUS
  <2>2. /\ session' \in 0..MaxSessions
        /\ op' \in {"idle", "starting", "timedOut", "abandoning", "stopping"}
    OBVIOUS
  <2>3. QED
    BY <1>1, <2>1, <2>2 DEF TypeOK
<1>3. Sequential' /\ Calling'
  BY <1>1 DEF Threads, Sequential, Calling, Places
<1>4. Standing'
  BY <1>1 DEF Threads, Standing, StandsAt, Sequential, Calling, Places
<1>5. QED
  BY <1>2, <1>3, <1>4 DEF CInv

LEMMA StopTimesOutKeepsCInv ==
  ASSUME CInv, StopTimesOut
  PROVE  CInv'
<1> USE CaptureAssumption DEF StopTimesOut, serviceVars, callVars, nativeVars, frameVars, Sessions
<1>1. TypeOK /\ Sequential /\ Calling /\ Standing /\ Threads
  BY ThreadTypes DEF CInv
<1>2. TypeOK'
  BY <1>1 DEF TypeOK, Sequential, Places
<1>3. Sequential' /\ Calling'
  BY <1>1 DEF Threads, Sequential, Calling, Places
<1>4. Standing'
  BY <1>1 DEF Threads, Standing, StandsAt, Sequential, Calling, Places
<1>5. QED
  BY <1>2, <1>3, <1>4 DEF CInv

LEMMA FinishStopKeepsCInv ==
  ASSUME CInv, FinishStop
  PROVE  CInv'
<1> USE CaptureAssumption DEF FinishStop, serviceVars, callVars, nativeVars, frameVars, Sessions
<1>1. TypeOK /\ Sequential /\ Calling /\ Standing /\ Threads
  BY ThreadTypes DEF CInv
<1>2. TypeOK'
  BY <1>1 DEF TypeOK, Sequential, Places
<1>3. Sequential' /\ Calling'
  BY <1>1 DEF Threads, Sequential, Calling, Places
<1>4. Standing'
  BY <1>1 DEF Threads, Standing, StandsAt, Sequential, Calling, Places
<1>5. QED
  BY <1>2, <1>3, <1>4 DEF CInv

LEMMA SetupFailsKeepsCInv ==
  ASSUME CInv, NEW g \in Sessions, SetupFails(g)
  PROVE  CInv'
<1> USE CaptureAssumption
    DEF SetupFails, ToStep, Report, Listening, serviceVars, callVars, nativeVars, frameVars,
        Sessions
<1>1. TypeOK /\ Sequential /\ Calling /\ Standing /\ Threads
  BY ThreadTypes DEF CInv
<1>2. TypeOK'
  BY <1>1 DEF TypeOK, Sequential, Places
<1>3. Sequential' /\ Calling'
  BY <1>1 DEF Threads, Sequential, Calling, Places
<1>4. Standing'
  BY <1>1 DEF Threads, Standing, StandsAt, Sequential, Calling, Places
<1>5. QED
  BY <1>2, <1>3, <1>4 DEF CInv

LEMMA SpawnWorkerKeepsCInv ==
  ASSUME CInv, NEW g \in Sessions, SpawnWorker(g)
  PROVE  CInv'
<1> USE CaptureAssumption
    DEF SpawnWorker, ToStep, serviceVars, callVars, nativeVars, frameVars, Sessions
<1>1. TypeOK /\ Sequential /\ Calling /\ Standing /\ Threads
  BY ThreadTypes DEF CInv
<1>2. TypeOK'
  BY <1>1 DEF TypeOK, Sequential, Places
<1>3. Sequential' /\ Calling'
  BY <1>1 DEF Threads, Sequential, Calling, Places
<1>4. Standing'
  BY <1>1 DEF Threads, Standing, StandsAt, Sequential, Calling, Places
<1>5. QED
  BY <1>2, <1>3, <1>4 DEF CInv

LEMMA RegisterOutputKeepsCInv ==
  ASSUME CInv, NEW g \in Sessions, NEW ok \in BOOLEAN, RegisterOutput(g, ok)
  PROVE  CInv'
<1> USE CaptureAssumption
    DEF RegisterOutput, ToStep, serviceVars, callVars, nativeVars, frameVars, Sessions
<1>1. TypeOK /\ Sequential /\ Calling /\ Standing /\ Threads
  BY ThreadTypes DEF CInv
<1>2. TypeOK'
  <2>1. control' \in [Sessions -> Places \cup {"none"}] /\ registered' \in [Sessions -> BOOLEAN]
    BY <1>1 DEF Threads, Places
  <2>2. QED
    BY <1>1, <2>1 DEF TypeOK, Places
<1>3. Sequential' /\ Calling'
  BY <1>1 DEF Threads, Sequential, Calling, Places
<1>4. Standing'
  BY <1>1 DEF Threads, Standing, StandsAt, Sequential, Calling, Places
<1>5. QED
  BY <1>2, <1>3, <1>4 DEF CInv

LEMMA StreamStartsKeepsCInv ==
  ASSUME CInv, NEW g \in Sessions, StreamStarts(g)
  PROVE  CInv'
<1> USE CaptureAssumption DEF StreamStarts, serviceVars, callVars, nativeVars, frameVars, Sessions
<1>1. TypeOK /\ Sequential /\ Calling /\ Standing /\ Threads
  BY ThreadTypes DEF CInv
<1>2. TypeOK'
  BY <1>1 DEF TypeOK, Sequential, Places
<1>3. Sequential' /\ Calling'
  BY <1>1 DEF Threads, Sequential, Calling, Places
<1>4. Standing'
  BY <1>1 DEF Threads, Standing, StandsAt, Sequential, Calling, Places
<1>5. QED
  BY <1>2, <1>3, <1>4 DEF CInv

LEMMA StartStreamReturnsKeepsCInv ==
  ASSUME CInv, NEW g \in Sessions, NEW ok \in BOOLEAN, StartStreamReturns(g, ok)
  PROVE  CInv'
<1> USE CaptureAssumption
    DEF StartStreamReturns, ToStep, serviceVars, callVars, nativeVars, frameVars, Sessions
<1>1. TypeOK /\ Sequential /\ Calling /\ Standing /\ Threads
  BY ThreadTypes DEF CInv
<1>2. TypeOK'
  <2>1. control' \in [Sessions -> Places \cup {"none"}]
    BY <1>1 DEF Threads, Places
  <2>2. troubled' \in [Sessions -> BOOLEAN]
    <3>1. troubled \in [Sessions -> BOOLEAN]
      BY <1>1 DEF TypeOK
    <3>2. troubled' = [troubled EXCEPT ![g] = ~ok]
      OBVIOUS
    <3>3. QED
      BY ONLY <3>1, <3>2
  <2>3. UNCHANGED <<serviceVars, callVars, frameVars, stream, registered, alarm>>
    OBVIOUS
  <2> HIDE DEF StartStreamReturns
  <2>4. QED
    BY <1>1, <2>1, <2>2, <2>3 DEF TypeOK, Places
<1>3. Sequential' /\ Calling'
  BY <1>1 DEF Threads, Sequential, Calling, Places
<1>4. Standing'
  BY <1>1 DEF Threads, Standing, StandsAt, Sequential, Calling, Places
<1>5. QED
  BY <1>2, <1>3, <1>4 DEF CInv

LEMMA ReportStartedKeepsCInv ==
  ASSUME CInv, NEW g \in Sessions, ReportStarted(g)
  PROVE  CInv'
<1> USE CaptureAssumption
    DEF ReportStarted, ToStep, Report, Listening, serviceVars, callVars, nativeVars, frameVars,
        Sessions
<1>1. TypeOK /\ Sequential /\ Calling /\ Standing /\ Threads
  BY ThreadTypes DEF CInv
<1>2. TypeOK'
  BY <1>1 DEF TypeOK, Sequential, Places
<1>3. Sequential' /\ Calling'
  BY <1>1 DEF Threads, Sequential, Calling, Places
<1>4. Standing'
  BY <1>1 DEF Threads, Standing, StandsAt, Sequential, Calling, Places
<1>5. QED
  BY <1>2, <1>3, <1>4 DEF CInv

LEMMA ServeStopKeepsCInv ==
  ASSUME CInv, NEW g \in Sessions, ServeStop(g)
  PROVE  CInv'
<1> USE CaptureAssumption
    DEF ServeStop, ToStep, serviceVars, callVars, nativeVars, frameVars, Sessions
<1>1. TypeOK /\ Sequential /\ Calling /\ Standing /\ Threads
  BY ThreadTypes DEF CInv
<1>2. TypeOK'
  BY <1>1 DEF TypeOK, Sequential, Places
<1>3. Sequential' /\ Calling'
  BY <1>1 DEF Threads, Sequential, Calling, Places
<1>4. Standing'
  BY <1>1 DEF Threads, Standing, StandsAt, Sequential, Calling, Places
<1>5. QED
  BY <1>2, <1>3, <1>4 DEF CInv

LEMMA StopStreamKeepsCInv ==
  ASSUME CInv, NEW g \in Sessions, NEW ok \in BOOLEAN, StopStream(g, ok)
  PROVE  CInv'
<1> USE CaptureAssumption
    DEF StopStream, ToStep, serviceVars, callVars, nativeVars, frameVars, Sessions
<1>1. TypeOK /\ Sequential /\ Calling /\ Standing /\ Threads
  BY ThreadTypes DEF CInv
<1>2. TypeOK'
  <2>1. control' \in [Sessions -> Places \cup {"none"}]
    BY <1>1 DEF TypeOK, Places
  <2>2. /\ stream' \in [Sessions -> {"none", "live", "dead", "off"}]
        /\ registered' \in [Sessions -> BOOLEAN]
    BY <1>1 DEF TypeOK
  <2>3. troubled' \in [Sessions -> BOOLEAN]
    <3>1. (troubled[g] \/ ~ok) \in BOOLEAN
      OBVIOUS
    <3>2. QED
      BY <1>1, <3>1 DEF TypeOK
  <2>4. QED
    BY <1>1, <2>1, <2>2, <2>3 DEF TypeOK, Places
<1>3. Sequential' /\ Calling'
  <2>1. g = gen /\ gen > 0
    BY <1>1 DEF Threads, Sequential
  <2>2. control' = [control EXCEPT ![g] = "draining"] /\ UNCHANGED <<serviceVars, callVars>>
    OBVIOUS
  <2>3. QED
    BY <1>1, <2>1, <2>2 DEF Threads, Sequential, Calling, Places
<1>4. Standing'
  BY <1>1 DEF Threads, Standing, StandsAt, Sequential, Calling, Places
<1>5. QED
  BY <1>2, <1>3, <1>4 DEF CInv

LEMMA CloseInboxKeepsCInv ==
  ASSUME CInv, NEW g \in Sessions, CloseInbox(g)
  PROVE  CInv'
<1> USE CaptureAssumption
    DEF CloseInbox, ToStep, serviceVars, callVars, nativeVars, frameVars, Sessions
<1>1. TypeOK /\ Sequential /\ Calling /\ Standing /\ Threads
  BY ThreadTypes DEF CInv
<1>2. TypeOK'
  <2>1. control' \in [Sessions -> Places \cup {"none"}]
    BY <1>1 DEF Threads, Places
  <2>2. Waiting(inbox[g]) \in Nat
    BY DEF Waiting
  <2>3. /\ discarded' \in [Sessions -> Nat] /\ closed' \in [Sessions -> BOOLEAN]
        /\ inbox' \in [Sessions -> Frames \cup {NoFrame}]
    BY <1>1, <2>2 DEF TypeOK
  <2>4. QED
    BY <1>1, <2>1, <2>3 DEF TypeOK, Places
<1>3. Sequential' /\ Calling'
  <2>1. g = gen /\ gen > 0
    BY <1>1 DEF Threads, Sequential
  <2>2. control' = [control EXCEPT ![g] = "joining"] /\ UNCHANGED <<serviceVars, callVars>>
    OBVIOUS
  <2>3. QED
    BY <1>1, <2>1, <2>2 DEF Threads, Sequential, Calling, Places
<1>4. Standing'
  <2>1. ASSUME NEW h \in Sessions \ {g} PROVE StandsAt(h)'
    BY <1>1, <2>1 DEF TypeOK, Standing, StandsAt
  <2>2. StandsAt(g)'
    BY <1>1 DEF TypeOK, Standing, StandsAt
  <2>3. QED
    BY <2>1, <2>2 DEF Standing
<1>5. QED
  BY <1>2, <1>3, <1>4 DEF CInv

LEMMA JoinWorkerKeepsCInv ==
  ASSUME CInv, NEW g \in Sessions, JoinWorker(g)
  PROVE  CInv'
<1> USE CaptureAssumption
    DEF JoinWorker, ToStep, Listening, serviceVars, callVars, nativeVars, frameVars, Sessions
<1>1. TypeOK /\ Sequential /\ Calling /\ Standing /\ Threads
  BY ThreadTypes DEF CInv
<1>2. TypeOK'
  BY <1>1 DEF TypeOK, Sequential, Places
<1>3. Sequential' /\ Calling'
  BY <1>1 DEF Threads, Sequential, Calling, Places
<1>4. Standing'
  BY <1>1 DEF Threads, Standing, StandsAt, Sequential, Calling, Places
<1>5. QED
  BY <1>2, <1>3, <1>4 DEF CInv

LEMMA DeliverFrameKeepsCInv ==
  ASSUME CInv, NEW g \in Sessions, NEW c \in Contents, DeliverFrame(g, c)
  PROVE  CInv'
<1> USE CaptureAssumption
    DEF DeliverFrame, CallsBack, Dropped, serviceVars, callVars, nativeVars, frameVars, Sessions
<1>1. TypeOK /\ Sequential /\ Calling /\ Standing /\ Threads
  BY ThreadTypes DEF CInv
<1>2. TypeOK'
  <2>1. [n |-> delivered + 1, shows |-> c] \in Frames /\ delivered' \in 0..MaxFrames
    BY <1>1 DEF TypeOK, Frames
  <2>2. Waiting(inbox[g]) \in Nat
    BY DEF Waiting
  <2>3. \A n \in Nat : drops[g] + n \in Nat
    <3>1. drops[g] \in Nat
      BY <1>1 DEF TypeOK
    <3>2. QED
      BY ONLY <3>1
  <2>4. drops' \in [Sessions -> Nat]
    <3>1. drops \in [Sessions -> Nat]
          /\ drops[g] + Waiting(inbox[g]) \in Nat /\ drops[g] + 1 \in Nat
      BY <1>1, <2>2, <2>3 DEF TypeOK
    <3>2. \/ drops' = [drops EXCEPT ![g] = @ + Waiting(inbox[g])]
          \/ drops' = [drops EXCEPT ![g] = @ + 1]
      OBVIOUS
    <3>3. QED
      BY <3>1, <3>2
  <2>5. inbox' \in [Sessions -> Frames \cup {NoFrame}]
    BY <1>1, <2>1 DEF TypeOK
  <2>6. QED
    BY <1>1, <2>1, <2>4, <2>5 DEF TypeOK
<1>3. Sequential' /\ Calling'
  BY <1>1 DEF Threads, Sequential, Calling, Places
<1>4. Standing'
  <2>1. control[g] \notin {"none", "setup", "ended"}
    BY <1>1 DEF TypeOK, Standing, StandsAt
  <2>2. ASSUME NEW h \in Sessions PROVE StandsAt(h)'
    <3>1. CASE h = g /\ inbox' # inbox
      BY <1>1, <2>1, <3>1 DEF TypeOK, Standing, StandsAt
    <3>2. CASE h # g \/ inbox' = inbox
      <4>1. inbox'[h] = inbox[h]
        BY <1>1, <3>2 DEF TypeOK
      <4>2. QED
        BY <1>1, <4>1 DEF Standing, StandsAt
    <3>3. QED
      BY <3>1, <3>2
  <2>3. QED
    BY <2>2 DEF Standing
<1>5. QED
  BY <1>2, <1>3, <1>4 DEF CInv

LEMMA DeliverInvalidKeepsCInv ==
  ASSUME CInv, NEW g \in Sessions, DeliverInvalid(g)
  PROVE  CInv'
<1> USE CaptureAssumption
    DEF DeliverInvalid, CallsBack, Dropped, serviceVars, callVars, nativeVars, frameVars,
        Sessions
<1>1. TypeOK /\ Sequential /\ Calling /\ Standing /\ Threads
  BY ThreadTypes DEF CInv
<1>2. TypeOK'
  <2>1. taken' \in [accepted : Nat, duplicate : Nat, invalid : Nat]
    <3>1. /\ [taken EXCEPT !.invalid = @ + 1] \in [accepted : Nat, duplicate : Nat, invalid : Nat]
          /\ taken \in [accepted : Nat, duplicate : Nat, invalid : Nat]
      BY <1>1, CountersCount DEF TypeOK
    <3>2. taken' \in {taken, [taken EXCEPT !.invalid = @ + 1]}
      OBVIOUS
    <3>3. QED
      BY <3>1, <3>2
  <2>2. delivered' \in 0..MaxFrames
    <3>1. delivered \in 0..MaxFrames
      BY <1>1 DEF TypeOK
    <3>2. delivered' = delivered + 1 /\ delivered < MaxFrames
      OBVIOUS
    <3>3. MaxFrames \in Nat
      OBVIOUS
    <3>4. QED
      BY ONLY <3>1, <3>2, <3>3
  <2>3. drops' \in [Sessions -> Nat]
    <3>1. drops[g] + 1 \in Nat /\ drops \in [Sessions -> Nat]
      <4>1. drops[g] \in Nat /\ drops \in [Sessions -> Nat]
        BY <1>1 DEF TypeOK
      <4>2. QED
        BY ONLY <4>1
    <3>2. drops' = drops \/ drops' = [drops EXCEPT ![g] = @ + 1]
      OBVIOUS
    <3>3. QED
      BY <3>1, <3>2
  <2>4. QED
    BY <1>1, <2>1, <2>2, <2>3 DEF TypeOK
<1>3. Sequential' /\ Calling'
  BY <1>1 DEF Threads, Sequential, Calling, Places
<1>4. Standing'
  BY <1>1 DEF Threads, Standing, StandsAt, Sequential, Calling, Places
<1>5. QED
  BY <1>2, <1>3, <1>4 DEF CInv

LEMMA WorkerTakesKeepsCInv ==
  ASSUME CInv, NEW g \in Sessions, WorkerTakes(g)
  PROVE  CInv'
<1> USE CaptureAssumption DEF WorkerTakes, serviceVars, callVars, nativeVars, frameVars, Sessions
<1>1. TypeOK /\ Sequential /\ Calling /\ Standing /\ Threads
  BY ThreadTypes DEF CInv
<1>2. TypeOK'
  <2>1. /\ carrying' \in [Sessions -> Frames \cup {NoFrame}]
        /\ inbox' \in [Sessions -> Frames \cup {NoFrame}]
        /\ worker' \in [Sessions -> {"none", "running", "ended"}]
    <3>1. CASE inbox[g] # NoFrame
      BY <1>1, <3>1 DEF TypeOK
    <3>2. CASE inbox[g] = NoFrame
      BY <1>1, <3>2 DEF TypeOK
    <3>3. QED
      BY <3>1, <3>2
  <2>2. QED
    BY <1>1, <2>1 DEF TypeOK
<1>3. Sequential' /\ Calling'
  BY <1>1 DEF Threads, Sequential, Calling, Places
<1>4. Standing'
  <2>1. ASSUME NEW h \in Sessions \ {g} PROVE StandsAt(h)'
    <3>1. inbox'[h] = inbox[h] /\ carrying'[h] = carrying[h] /\ worker'[h] = worker[h]
      BY <1>1, <2>1 DEF TypeOK
    <3>2. QED
      BY <1>1, <3>1 DEF Standing, StandsAt
  <2>2. StandsAt(g)'
    <3>1. CASE inbox[g] # NoFrame
      BY <1>1, <3>1 DEF TypeOK, Standing, StandsAt
    <3>2. CASE inbox[g] = NoFrame
      BY <1>1, <3>2 DEF TypeOK, Standing, StandsAt, Places
    <3>3. QED
      BY <3>1, <3>2
  <2>3. QED
    BY <2>1, <2>2 DEF Standing
<1>5. QED
  BY <1>2, <1>3, <1>4 DEF CInv

LEMMA WorkerIngestsKeepsCInv ==
  ASSUME CInv, NEW g \in Sessions, WorkerIngests(g)
  PROVE  CInv'
<1> USE CaptureAssumption
    DEF WorkerIngests, Dropped, serviceVars, callVars, nativeVars, frameVars, Sessions
<1>1. TypeOK /\ Sequential /\ Calling /\ Standing /\ Threads
  BY ThreadTypes DEF CInv
<1>2. TypeOK'
  <2>1. taken' \in [accepted : Nat, duplicate : Nat, invalid : Nat]
    <3>1. /\ [taken EXCEPT !.duplicate = @ + 1] \in [accepted : Nat, duplicate : Nat, invalid : Nat]
          /\ [taken EXCEPT !.accepted = @ + 1] \in [accepted : Nat, duplicate : Nat, invalid : Nat]
          /\ taken \in [accepted : Nat, duplicate : Nat, invalid : Nat]
      BY <1>1, CountersCount DEF TypeOK
    <3>2. taken' \in {taken, [taken EXCEPT !.duplicate = @ + 1], [taken EXCEPT !.accepted = @ + 1]}
      OBVIOUS
    <3>3. QED
      BY <3>1, <3>2
  <2>2. carrying[g] \in Frames /\ carrying[g].n \in 0..MaxFrames
    BY <1>1 DEF TypeOK, Frames
  <2>3. newest' \in 0..MaxFrames /\ held' \in Frames \cup {NoFrame}
    BY <1>1, <2>2 DEF TypeOK
  <2>6. drops' \in [Sessions -> Nat]
    <3>1. drops[g] + 1 \in Nat /\ drops \in [Sessions -> Nat]
      <4>1. drops[g] \in Nat /\ drops \in [Sessions -> Nat]
        BY <1>1 DEF TypeOK
      <4>2. QED
        BY ONLY <4>1
    <3>2. drops' = drops \/ drops' = [drops EXCEPT ![g] = @ + 1]
      OBVIOUS
    <3>3. QED
      BY <3>1, <3>2
  <2>4. carrying' \in [Sessions -> Frames \cup {NoFrame}]
    BY <1>1 DEF TypeOK
  <2>5. QED
    BY <1>1, <2>1, <2>3, <2>4, <2>6 DEF TypeOK
<1>3. Sequential' /\ Calling'
  BY <1>1 DEF Threads, Sequential, Calling, Places
<1>4. Standing'
  BY <1>1 DEF Threads, Standing, StandsAt, Sequential, Calling, Places
<1>5. QED
  BY <1>2, <1>3, <1>4 DEF CInv

LEMMA StreamDiesKeepsCInv ==
  ASSUME CInv, NEW g \in Sessions, StreamDies(g)
  PROVE  CInv'
<1> USE CaptureAssumption DEF StreamDies, serviceVars, callVars, nativeVars, frameVars, Sessions
<1>1. TypeOK /\ Sequential /\ Calling /\ Standing /\ Threads
  BY ThreadTypes DEF CInv
<1>2. TypeOK'
  BY <1>1 DEF TypeOK, Sequential, Places
<1>3. Sequential' /\ Calling'
  BY <1>1 DEF Threads, Sequential, Calling, Places
<1>4. Standing'
  BY <1>1 DEF Threads, Standing, StandsAt, Sequential, Calling, Places
<1>5. QED
  BY <1>2, <1>3, <1>4 DEF CInv

LEMMA RecordStreamErrorKeepsCInv ==
  ASSUME CInv, NEW g \in Sessions, RecordStreamError(g)
  PROVE  CInv'
<1> USE CaptureAssumption
    DEF RecordStreamError, serviceVars, callVars, nativeVars, frameVars, Sessions
<1>1. TypeOK /\ Sequential /\ Calling /\ Standing /\ Threads
  BY ThreadTypes DEF CInv
<1>2. TypeOK'
  BY <1>1 DEF TypeOK, Sequential, Places
<1>3. Sequential' /\ Calling'
  BY <1>1 DEF Threads, Sequential, Calling, Places
<1>4. Standing'
  BY <1>1 DEF Threads, Standing, StandsAt, Sequential, Calling, Places
<1>5. QED
  BY <1>2, <1>3, <1>4 DEF CInv

-----------------------------------------------------------------------------
(* No session outlives its start and stop *)

LEMMA NextKeepsCInv == CInv /\ [Next]_vars => CInv'
<1> SUFFICES ASSUME CInv, [Next]_vars PROVE CInv'
  OBVIOUS
<1>1. CASE BeginStart \/ BeginStop \/ StartTimesOut \/ StopTimesOut \/ Call
  BY <1>1, BeginStartKeepsCInv, BeginStopKeepsCInv, StartTimesOutKeepsCInv, StopTimesOutKeepsCInv,
     StartFailsKeepsCInv, StartSucceedsKeepsCInv, AbandonKeepsCInv, FinishStopKeepsCInv DEF Call
<1>2. ASSUME NEW g \in Sessions, Control(g) PROVE CInv'
  BY <1>2, SetupFailsKeepsCInv, SpawnWorkerKeepsCInv, StreamStartsKeepsCInv,
     ReportStartedKeepsCInv, ServeStopKeepsCInv, CloseInboxKeepsCInv, JoinWorkerKeepsCInv,
     RegisterOutputKeepsCInv, StartStreamReturnsKeepsCInv, StopStreamKeepsCInv DEF Control
<1>3. ASSUME NEW g \in Sessions, NEW c \in Contents, DeliverFrame(g, c) PROVE CInv'
  BY <1>3, DeliverFrameKeepsCInv
<1>4. ASSUME NEW g \in Sessions,
             \/ WorkerTakes(g) \/ WorkerIngests(g)
             \/ DeliverInvalid(g) \/ StreamDies(g) \/ RecordStreamError(g)
      PROVE  CInv'
  BY <1>4, WorkerTakesKeepsCInv, WorkerIngestsKeepsCInv, DeliverInvalidKeepsCInv,
     StreamDiesKeepsCInv, RecordStreamErrorKeepsCInv
<1>5. CASE UNCHANGED vars
  <2> USE <1>5 DEF vars, serviceVars, callVars, nativeVars, frameVars
  <2>1. TypeOK'
    BY DEF CInv, TypeOK
  <2>2. Sequential' /\ Calling' /\ Standing'
    BY DEF CInv, Sequential, Calling, Standing, StandsAt
  <2>3. QED
    BY <2>1, <2>2 DEF CInv
<1>6. QED
  BY <1>1, <1>2, <1>3, <1>4, <1>5 DEF Next

LEMMA CaptureInvariant == Spec => []CInv
BY InitCInv, NextKeepsCInv, PTL DEF Spec

\* A thread that runs is that of the latest session.
LEMMA OnlyTheLatest ==
  ASSUME CInv, NEW g \in Sessions, Alive(g)
  PROVE  g = gen /\ gen > 0
BY DEF CInv, TypeOK, Sequential, Sessions, Alive

\* At most one control thread runs, and when start or stop has returned without a running
\* session no thread, registered output or frame is left, whichever of the startup
\* result, the timeouts and the errors came first.
THEOREM SessionsEndWithTheirCalls == Spec => []NothingIsLeftBehind
<1>1. CInv => NothingIsLeftBehind
  <2> SUFFICES ASSUME CInv PROVE NothingIsLeftBehind
    OBVIOUS
  <2>1. ASSUME NEW g \in Sessions, Alive(g) PROVE g = gen /\ (op # "idle" \/ session = g)
    BY <2>1, OnlyTheLatest DEF CInv, Calling, Alive
  <2>2. ASSUME NEW g \in Sessions, ~Alive(g)
        PROVE  /\ worker[g] # "running" /\ ~registered[g]
               /\ inbox[g] = NoFrame /\ carrying[g] = NoFrame
    BY <2>2 DEF CInv, TypeOK, Standing, StandsAt, Alive
  <2>3. op = "idle" /\ session = 0 => held = NoFrame
    BY DEF CInv, Calling
  <2>4. QED
    BY <2>1, <2>2, <2>3 DEF CInv, NothingIsLeftBehind
<1>2. QED
  BY <1>1, CaptureInvariant, PTL

-----------------------------------------------------------------------------
(* Frames: their order and their accounts *)

\* What FramesAreAccountedFor says is inductive together with: what is thrown away is
\* thrown away as the inbox is closed, and a session not yet begun has dropped nothing.
Accounts ==
  /\ FramesAreAccountedFor
  /\ \A g \in Sessions : g > gen => drops[g] = 0

\* The numbers of frames under way, and how many wait, are numbers.
LEMMA FramesAreNumbered ==
  ASSUME TypeOK, NEW g \in Sessions
  PROVE  /\ inbox[g].n \in Nat /\ carrying[g].n \in Nat /\ held.n \in Nat
         /\ Waiting(inbox[g]) \in {0, 1} /\ Waiting(carrying[g]) \in {0, 1}
         /\ Taken \in Nat /\ began.taken \in Nat /\ began.frames \in Nat
BY CaptureAssumption DEF TypeOK, Frames, NoFrame, Waiting, Taken

\* Who delivers or hands on a frame is the latest session.
LEMMA FramesOfTheLatest ==
  ASSUME CInv, NEW g \in Sessions,
         \/ CallsBack(g) \/ worker[g] = "running" \/ carrying[g] # NoFrame \/ inbox[g] # NoFrame
         \/ control[g] = "draining"
  PROVE  g = gen /\ gen > 0
<1>1. Alive(g)
  BY DEF CInv, TypeOK, Standing, StandsAt, CallsBack, Alive
<1>2. QED
  BY <1>1, OnlyTheLatest

\* Steps that leave the frames alone, but for the service giving up the one it holds.
LEMMA OthersKeepFrames ==
  ASSUME CInv, InOrder, Accounts, held' \in {held, NoFrame},
         UNCHANGED <<newest, taken, gen, inbox, closed, carrying, delivered, discarded,
                     drops, began>>
  PROVE  InOrder' /\ Accounts'
<1>1. InOrder'
  BY DEF InOrder, NoFrame
<1>2. Accounts'
  BY DEF Accounts, FramesAreAccountedFor, Taken
<1>3. QED
  BY <1>1, <1>2

LEMMA BeginStartKeepsFrames ==
  ASSUME CInv, InOrder, Accounts, BeginStart
  PROVE  InOrder' /\ Accounts'
<1> USE DEF BeginStart
<1>1. TypeOK /\ Sequential /\ Standing
  BY DEF CInv
<1>2. InOrder'
  BY DEF InOrder
<1>3. gen + 1 \in Sessions /\ gen \in Nat /\ delivered \in Nat /\ Taken \in Nat
  <2>1. gen + 1 \in Sessions /\ gen \in Nat /\ delivered \in Nat
    BY <1>1, CaptureAssumption DEF TypeOK, Sessions
  <2>2. QED
    BY <1>1, <2>1, FramesAreNumbered
<1>4. /\ inbox[gen + 1] = NoFrame /\ carrying[gen + 1] = NoFrame /\ ~closed[gen + 1]
      /\ drops[gen + 1] = 0
  BY <1>1, <1>3 DEF Sequential, Standing, StandsAt, Accounts
<1>5. discarded[gen + 1] = 0
  BY <1>1, <1>3, <1>4 DEF TypeOK, Accounts, FramesAreAccountedFor
<1>6. /\ delivered' - began'.frames = 0 /\ Taken' - began'.taken = 0
  BY <1>3 DEF Taken
<1>7. /\ Waiting(inbox'[gen']) = 0 /\ Waiting(carrying'[gen']) = 0
      /\ drops'[gen'] = 0 /\ discarded'[gen'] = 0
  BY <1>4, <1>5 DEF Waiting
<1>8. FramesAreAccountedFor'
  BY <1>6, <1>7 DEF Accounts, FramesAreAccountedFor
<1>9. Accounts'
  BY <1>3, <1>8 DEF Accounts, Sessions
<1>10. QED
  BY <1>2, <1>9

\* The frame in the inbox is thrown away, once: the inbox was open.
LEMMA CloseInboxKeepsFrames ==
  ASSUME CInv, InOrder, Accounts, NEW g \in Sessions, CloseInbox(g)
  PROVE  InOrder' /\ Accounts'
<1> USE DEF CloseInbox, serviceVars, callVars, nativeVars
<1>1. TypeOK /\ Sequential /\ Standing /\ g = gen /\ gen > 0
  BY FramesOfTheLatest DEF CInv
<1>2. inbox' = [inbox EXCEPT ![g] = NoFrame] /\ UNCHANGED <<newest, held, delivered, carrying>>
  OBVIOUS
<1>3. InOrder'
  BY <1>1, <1>2 DEF InOrder, NoFrame, TypeOK
<1>4. ~closed[g] /\ discarded[g] = 0 /\ Waiting(inbox[g]) \in {0, 1}
  BY <1>1, FramesAreNumbered DEF Standing, StandsAt, Accounts, FramesAreAccountedFor, TypeOK
<1>5. /\ discarded'[g] = Waiting(inbox[g]) /\ Waiting(inbox'[g]) = 0 /\ closed'[g]
      /\ UNCHANGED <<delivered, began, Taken, drops, carrying, gen>>
  BY <1>1, <1>4 DEF TypeOK, Waiting, Taken
<1>6. delivered' - began'.frames = (Taken' - began'.taken) + drops'[gen'] + discarded'[gen']
        + Waiting(inbox'[gen']) + Waiting(carrying'[gen'])
  <2> DEFINE before == (Taken - began.taken) + drops[gen]
             waits == Waiting(inbox[g])
             carries == Waiting(carrying[g])
  <2>1. delivered - began.frames = before + 0 + waits + carries
    BY <1>1, <1>4 DEF Accounts, FramesAreAccountedFor
  <2>2. before \in Int /\ waits \in Int /\ carries \in Int
    BY <1>1, FramesAreNumbered DEF TypeOK
  <2>3. delivered - began.frames = before + waits + 0 + carries
    <3> HIDE DEF before, waits, carries
    <3> QED BY <2>1, <2>2
  <2>4. QED
    BY <1>1, <1>5, <2>3
<1>7. \A h \in Sessions : discarded'[h] <= (IF closed'[h] THEN 1 ELSE 0)
  <2> SUFFICES ASSUME NEW h \in Sessions PROVE discarded'[h] <= (IF closed'[h] THEN 1 ELSE 0)
    OBVIOUS
  <2>1. CASE h = g
    BY <1>4, <1>5, <2>1
  <2>2. CASE h # g
    BY <1>1, <2>2 DEF TypeOK, Accounts, FramesAreAccountedFor
  <2>3. QED
    BY <2>1, <2>2
<1>8. Accounts'
  BY <1>5, <1>6, <1>7 DEF Accounts, FramesAreAccountedFor
<1>9. QED
  BY <1>3, <1>8

\* A frame is delivered: it waits, takes the place of one that is counted, or is counted.
LEMMA DeliverFrameKeepsFrames ==
  ASSUME CInv, InOrder, Accounts, NEW g \in Sessions, NEW c \in Contents, DeliverFrame(g, c)
  PROVE  InOrder' /\ Accounts'
<1> USE CaptureAssumption DEF DeliverFrame, Dropped, serviceVars, callVars, nativeVars
<1>1. TypeOK /\ g = gen /\ gen > 0 /\ delivered' = delivered + 1 /\ delivered \in Nat
  BY FramesOfTheLatest DEF CInv, CallsBack, TypeOK
<1> DEFINE f == [n |-> delivered + 1, shows |-> c]
<1>2. f # NoFrame /\ f.n = delivered + 1 /\ Waiting(f) = 1
  BY <1>1 DEF NoFrame, Waiting
<1>3. inbox' = [inbox EXCEPT ![g] = f] \/ inbox' = inbox
  OBVIOUS
<1>4. UNCHANGED <<newest, held, carrying>>
  OBVIOUS
<1>5. /\ newest \in Nat
      /\ \A h \in Sessions : inbox[h].n \in Nat /\ carrying[h].n \in Nat
  BY <1>1, FramesAreNumbered DEF TypeOK
<1>6. InOrder'
  <2>1. newest' <= delivered' /\ held'.n \in {0, newest'}
    BY <1>1, <1>4, <1>5 DEF InOrder
  <2>2. ASSUME NEW h \in Sessions
        PROVE  /\ inbox'[h].n <= delivered' /\ carrying'[h].n <= delivered'
               /\ inbox'[h] # NoFrame => inbox'[h].n > newest' /\ inbox'[h].n > carrying'[h].n
               /\ carrying'[h] # NoFrame => carrying'[h].n > newest'
    <3> HIDE DEF f
    <3>1. inbox'[h] = f \/ inbox'[h] = inbox[h]
      BY <1>1, <1>3 DEF TypeOK
    <3>2. QED
      BY <1>1, <1>2, <1>4, <1>5, <3>1 DEF InOrder
  <2>3. QED
    BY <2>1, <2>2 DEF InOrder
<1>7. /\ Waiting(inbox'[g]) + drops'[g] = Waiting(inbox[g]) + drops[g] + 1
      /\ drops'[g] \in Nat /\ Waiting(inbox'[g]) \in {0, 1}
  <2>1. drops[g] \in Nat /\ Waiting(inbox[g]) \in {0, 1}
    BY <1>1, FramesAreNumbered DEF TypeOK
  <2>2. CASE inbox' = [inbox EXCEPT ![g] = f]
             /\ drops' = [drops EXCEPT ![g] = @ + Waiting(inbox[g])]
    <3>1. inbox'[g] = f /\ drops'[g] = drops[g] + Waiting(inbox[g])
      BY <1>1, <2>2 DEF TypeOK
    <3>2. QED
      BY <1>2, <2>1, <3>1
  <2>3. CASE inbox' = inbox /\ drops' = [drops EXCEPT ![g] = @ + 1]
    BY <1>1, <2>1, <2>3 DEF TypeOK
  <2>4. QED
    BY <2>2, <2>3
<1>8. UNCHANGED <<began, Taken, discarded, closed, carrying, gen>>
  BY DEF Taken
<1>9. delivered' - began'.frames = (Taken' - began'.taken) + drops'[gen'] + discarded'[gen']
        + Waiting(inbox'[gen']) + Waiting(carrying'[gen'])
  <2> DEFINE kept == Taken - began.taken
             gone == discarded[g]
             carries == Waiting(carrying[g])
  <2>1. /\ kept \in Int /\ gone \in Int /\ carries \in Int /\ began.frames \in Int
        /\ drops[g] \in Int /\ Waiting(inbox[g]) \in Int
    BY <1>1, FramesAreNumbered DEF TypeOK
  <2>2. delivered - began.frames = kept + drops[g] + gone + Waiting(inbox[g]) + carries
    BY <1>1 DEF Accounts, FramesAreAccountedFor
  <2>3. delivered' - began.frames = kept + drops'[g] + gone + Waiting(inbox'[g]) + carries
    <3> DEFINE after == Waiting(inbox'[g]) + drops'[g]
               before == Waiting(inbox[g]) + drops[g]
    <3>1. delivered - began.frames = before + kept + gone + carries
      <4> HIDE DEF kept, gone, carries
      <4> QED BY <2>1, <2>2
    <3>2. after = before + 1 /\ after \in Int /\ before \in Int
      BY <1>7, <2>1
    <3>3. delivered' - began.frames = after + kept + gone + carries
      <4> HIDE DEF kept, gone, carries, after, before
      <4> QED BY <1>1, <2>1, <3>1, <3>2
    <3>4. drops'[g] \in Int /\ Waiting(inbox'[g]) \in Int
      BY <1>7
    <3>5. QED
      <4> HIDE DEF kept, gone, carries
      <4> QED BY <2>1, <3>3, <3>4
  <2>4. QED
    BY <1>1, <1>8, <2>3
<1>10. \A h \in Sessions : h > gen' => drops'[h] = 0
  <2>1. ASSUME NEW h \in Sessions, h > gen PROVE drops'[h] = 0
    <3>1. h # g /\ drops[h] = 0
      BY <1>1, <2>1 DEF Accounts, TypeOK
    <3>2. QED
      BY <1>1, <3>1 DEF TypeOK
  <2>2. QED
    BY <1>8, <2>1
<1>11. Accounts'
  BY <1>8, <1>9, <1>10 DEF Accounts, FramesAreAccountedFor
<1>12. QED
  BY <1>6, <1>11

\* A frame that cannot be decoded is counted one way or the other.
LEMMA DeliverInvalidKeepsFrames ==
  ASSUME CInv, InOrder, Accounts, NEW g \in Sessions, DeliverInvalid(g)
  PROVE  InOrder' /\ Accounts'
<1> USE CaptureAssumption DEF DeliverInvalid, Dropped, callVars, nativeVars
<1>1. TypeOK /\ g = gen /\ gen > 0 /\ delivered' = delivered + 1 /\ delivered \in Nat
  BY FramesOfTheLatest DEF CInv, CallsBack, TypeOK
<1>2. UNCHANGED <<newest, held, carrying, inbox, began, discarded, closed, gen>>
  OBVIOUS
<1>3. InOrder'
  <2>1. newest \in Nat /\ \A h \in Sessions : inbox[h].n \in Nat /\ carrying[h].n \in Nat
    BY <1>1, FramesAreNumbered DEF TypeOK
  <2>2. QED
    BY <1>1, <1>2, <2>1 DEF InOrder
<1>4. Taken' + drops'[g] = Taken + drops[g] + 1 /\ Taken' \in Nat /\ drops'[g] \in Nat
  <2>1. /\ drops[g] \in Nat /\ drops \in [Sessions -> Nat]
        /\ taken \in [accepted : Nat, duplicate : Nat, invalid : Nat]
    BY <1>1 DEF TypeOK
  <2>2. CASE taken' = [taken EXCEPT !.invalid = @ + 1] /\ drops' = drops
    BY <2>1, <2>2 DEF Taken
  <2>3. CASE taken' = taken /\ drops' = [drops EXCEPT ![g] = @ + 1]
    BY <2>1, <2>3 DEF Taken
  <2>4. QED
    BY <2>2, <2>3
<1>5. delivered' - began'.frames = (Taken' - began'.taken) + drops'[gen'] + discarded'[gen']
        + Waiting(inbox'[gen']) + Waiting(carrying'[gen'])
  <2> DEFINE rest == discarded[g] + Waiting(inbox[g]) + Waiting(carrying[g])
  <2>1. /\ rest \in Int /\ began.frames \in Int /\ began.taken \in Int /\ Taken \in Int
        /\ drops[g] \in Int
    BY <1>1, FramesAreNumbered DEF TypeOK
  <2>2. delivered - began.frames = (Taken - began.taken) + drops[g] + rest
    BY <1>1, <2>1, FramesAreNumbered DEF Accounts, FramesAreAccountedFor, TypeOK
  <2>3. delivered' - began.frames = (Taken' - began.taken) + drops'[g] + rest
    <3> HIDE DEF rest
    <3> QED BY <1>1, <1>4, <2>1, <2>2
  <2>4. QED
    BY <1>1, <1>2, <1>4, <2>3, FramesAreNumbered DEF TypeOK
<1>6. \A h \in Sessions : h > gen' => drops'[h] = 0
  BY <1>1, <1>2 DEF Accounts, TypeOK
<1>7. Accounts'
  BY <1>2, <1>5, <1>6 DEF Accounts, FramesAreAccountedFor
<1>8. QED
  BY <1>3, <1>7

LEMMA WorkerTakesKeepsFrames ==
  ASSUME CInv, InOrder, Accounts, NEW g \in Sessions, WorkerTakes(g)
  PROVE  InOrder' /\ Accounts'
<1> USE DEF WorkerTakes, serviceVars, callVars, nativeVars
<1>1. TypeOK /\ g = gen /\ gen > 0
  BY FramesOfTheLatest DEF CInv
<1>2. CASE inbox[g] = NoFrame
  BY <1>2, OthersKeepFrames
<1>3. CASE inbox[g] # NoFrame
  <2>1. /\ carrying[g] = NoFrame /\ carrying' = [carrying EXCEPT ![g] = inbox[g]]
        /\ inbox' = [inbox EXCEPT ![g] = NoFrame]
        /\ UNCHANGED <<newest, held, taken, delivered, began, discarded, drops, closed, gen>>
    BY <1>3
  <2>2. /\ carrying'[g] = inbox[g] /\ inbox'[g] = NoFrame
        /\ \A h \in Sessions \ {g} : carrying'[h] = carrying[h] /\ inbox'[h] = inbox[h]
    BY <1>1, <2>1 DEF TypeOK
  <2>3. InOrder'
    BY <1>1, <2>1, <2>2, FramesAreNumbered DEF InOrder, NoFrame, TypeOK
  <2>4. Waiting(carrying'[g]) = Waiting(inbox[g]) /\ Waiting(inbox'[g]) = Waiting(carrying[g])
    BY <2>1, <2>2
  <2>5. delivered' - began'.frames = (Taken' - began'.taken) + drops'[gen'] + discarded'[gen']
          + Waiting(inbox'[gen']) + Waiting(carrying'[gen'])
    <3> DEFINE before == (Taken - began.taken) + drops[gen] + discarded[gen]
               waits == Waiting(inbox[g])
               carries == Waiting(carrying[g])
    <3>1. before \in Int /\ waits \in Int /\ carries \in Int
      BY <1>1, FramesAreNumbered DEF TypeOK
    <3>2. delivered - began.frames = before + waits + carries
      BY <1>1 DEF Accounts, FramesAreAccountedFor
    <3>3. delivered - began.frames = before + carries + waits
      <4> HIDE DEF before, waits, carries
      <4> QED BY <3>1, <3>2
    <3>4. UNCHANGED Taken
      BY <2>1 DEF Taken
    <3>5. QED
      BY <1>1, <2>1, <2>4, <3>3, <3>4
  <2>6. Accounts'
    BY <2>1, <2>5 DEF Accounts, FramesAreAccountedFor
  <2>7. QED
    BY <2>3, <2>6
<1>4. QED
  BY <1>2, <1>3

\* The frame that is handed on is the oldest under way, and is counted.
LEMMA WorkerIngestsKeepsFrames ==
  ASSUME CInv, InOrder, Accounts, NEW g \in Sessions, WorkerIngests(g)
  PROVE  InOrder' /\ Accounts' /\ newest' >= newest
<1> USE DEF WorkerIngests, Dropped, callVars, nativeVars
<1>1. TypeOK /\ g = gen /\ gen > 0
  BY FramesOfTheLatest DEF CInv
<1>2. /\ carrying' = [carrying EXCEPT ![g] = NoFrame]
      /\ UNCHANGED <<inbox, delivered, began, discarded, closed, gen>>
      /\ \/ newest' = carrying[g].n /\ held' = carrying[g]
         \/ UNCHANGED <<newest, held>>
  OBVIOUS
<1>3. /\ carrying'[g] = NoFrame
      /\ \A h \in Sessions \ {g} : carrying'[h] = carrying[h] /\ inbox[h] = NoFrame
  BY <1>1, <1>2, FramesOfTheLatest DEF TypeOK
<1>4. /\ newest \in Nat /\ carrying[g].n > newest /\ newest' >= newest
      /\ \A h \in Sessions : inbox[h].n \in Nat /\ carrying[h].n \in Nat
  BY <1>1, <1>2, FramesAreNumbered DEF InOrder, TypeOK
<1>5. InOrder'
  <2>1. newest' <= delivered' /\ held'.n \in {0, newest'}
    BY <1>2 DEF InOrder
  <2>2. ASSUME NEW h \in Sessions
        PROVE  /\ inbox'[h].n <= delivered' /\ carrying'[h].n <= delivered'
               /\ inbox'[h] # NoFrame => inbox'[h].n > newest' /\ inbox'[h].n > carrying'[h].n
               /\ carrying'[h] # NoFrame => carrying'[h].n > newest'
    <3>1. CASE h = g
      <4>1. carrying'[h] = NoFrame /\ carrying'[h].n = 0
        BY <1>3, <3>1 DEF NoFrame
      <4>2. inbox'[h] # NoFrame => inbox'[h].n > carrying[g].n /\ inbox'[h].n > newest
        BY <1>2, <3>1 DEF InOrder
      <4>3. 0 <= delivered'
        BY <1>1, <1>2 DEF TypeOK
      <4>4. QED
        BY <1>2, <1>4, <3>1, <4>1, <4>2, <4>3 DEF InOrder
    <3>2. CASE h # g
      <4>1. carrying[h] = NoFrame
        BY <1>1, <3>2, FramesOfTheLatest
      <4>2. QED
        BY <1>2, <1>3, <3>2, <4>1 DEF InOrder, NoFrame
    <3>3. QED
      BY <3>1, <3>2
  <2>3. QED
    BY <2>1, <2>2 DEF InOrder
<1>6. Taken' + drops'[g] = Taken + drops[g] + 1 /\ Taken' \in Nat /\ drops'[g] \in Nat
  <2>1. /\ drops[g] \in Nat /\ drops \in [Sessions -> Nat]
        /\ taken \in [accepted : Nat, duplicate : Nat, invalid : Nat]
    BY <1>1 DEF TypeOK
  <2>2. CASE taken' = [taken EXCEPT !.duplicate = @ + 1] /\ drops' = drops
    BY <2>1, <2>2 DEF Taken
  <2>3. CASE taken' = [taken EXCEPT !.accepted = @ + 1] /\ drops' = drops
    BY <2>1, <2>3 DEF Taken
  <2>4. CASE taken' = taken /\ drops' = [drops EXCEPT ![g] = @ + 1]
    BY <2>1, <2>4 DEF Taken
  <2>5. QED
    BY <2>2, <2>3, <2>4
<1>7. Waiting(carrying[g]) = 1 /\ Waiting(carrying'[g]) = 0
  BY <1>3 DEF Waiting
<1>8. delivered' - began'.frames = (Taken' - began'.taken) + drops'[gen'] + discarded'[gen']
        + Waiting(inbox'[gen']) + Waiting(carrying'[gen'])
  <2> DEFINE rest == discarded[g] + Waiting(inbox[g])
             came == delivered - began.frames
  <2>1. /\ rest \in Int /\ began.taken \in Int /\ Taken \in Int /\ drops[g] \in Int
        /\ discarded[g] \in Int /\ Waiting(inbox[g]) \in Int
    BY <1>1, FramesAreNumbered DEF TypeOK
  <2>2. came = (Taken - began.taken) + drops[g] + rest + 1
    BY <1>1, <1>7, <2>1 DEF Accounts, FramesAreAccountedFor
  <2>3. came = (Taken' - began.taken) + drops'[g] + rest + 0
    <3> HIDE DEF rest, came
    <3> QED BY <1>6, <2>1, <2>2
  <2>4. QED
    BY <1>1, <1>2, <1>6, <1>7, <2>1, <2>3
<1>9. \A h \in Sessions : h > gen' => drops'[h] = 0
  BY <1>1, <1>2 DEF Accounts, TypeOK
<1>10. Accounts'
  BY <1>2, <1>8, <1>9 DEF Accounts, FramesAreAccountedFor
<1>11. QED
  BY <1>4, <1>5, <1>10

LEMMA NextKeepsFrames ==
  CInv /\ InOrder /\ Accounts /\ [Next]_vars => InOrder' /\ Accounts' /\ newest' >= newest
<1> SUFFICES ASSUME CInv, InOrder, Accounts, [Next]_vars
             PROVE  InOrder' /\ Accounts' /\ newest' >= newest
  OBVIOUS
<1>1. newest \in Nat /\ newest >= newest
  BY DEF CInv, TypeOK
<1>2. CASE BeginStart
  BY <1>1, <1>2, BeginStartKeepsFrames DEF BeginStart
<1>3. CASE BeginStop \/ StartTimesOut \/ StopTimesOut \/ Call
  BY <1>1, <1>3, OthersKeepFrames
  DEF BeginStop, StartTimesOut, StopTimesOut, Call, StartFails, StartSucceeds, Abandon,
      FinishStop, serviceVars, callVars, nativeVars, frameVars
<1>4. ASSUME NEW g \in Sessions, CloseInbox(g) PROVE InOrder' /\ Accounts' /\ newest' >= newest
  BY <1>1, <1>4, CloseInboxKeepsFrames DEF CloseInbox, serviceVars
<1>5. ASSUME NEW g \in Sessions, Control(g), ~CloseInbox(g)
      PROVE  InOrder' /\ Accounts' /\ newest' >= newest
  BY <1>1, <1>5, OthersKeepFrames
  DEF Control, SetupFails, SpawnWorker, RegisterOutput, StreamStarts, StartStreamReturns,
      ReportStarted, ServeStop, StopStream, JoinWorker, serviceVars, callVars, nativeVars, frameVars
<1>6. ASSUME NEW g \in Sessions, NEW c \in Contents, DeliverFrame(g, c)
      PROVE  InOrder' /\ Accounts' /\ newest' >= newest
  BY <1>1, <1>6, DeliverFrameKeepsFrames DEF DeliverFrame, serviceVars
<1>7. ASSUME NEW g \in Sessions, DeliverInvalid(g) PROVE InOrder' /\ Accounts' /\ newest' >= newest
  BY <1>1, <1>7, DeliverInvalidKeepsFrames DEF DeliverInvalid
<1>8. ASSUME NEW g \in Sessions, WorkerTakes(g) PROVE InOrder' /\ Accounts' /\ newest' >= newest
  BY <1>1, <1>8, WorkerTakesKeepsFrames DEF WorkerTakes, serviceVars
<1>9. ASSUME NEW g \in Sessions, WorkerIngests(g) PROVE InOrder' /\ Accounts' /\ newest' >= newest
  BY <1>9, WorkerIngestsKeepsFrames
<1>10. ASSUME NEW g \in Sessions, StreamDies(g) \/ RecordStreamError(g)
       PROVE  InOrder' /\ Accounts' /\ newest' >= newest
  BY <1>1, <1>10, OthersKeepFrames
  DEF StreamDies, RecordStreamError, serviceVars, callVars, frameVars
<1>11. CASE UNCHANGED vars
  BY <1>1, <1>11, OthersKeepFrames DEF vars, serviceVars, callVars, nativeVars, frameVars
<1>12. QED
  BY <1>2, <1>3, <1>4, <1>5, <1>6, <1>7, <1>8, <1>9, <1>10, <1>11 DEF Next

LEMMA FramesInvariant == Spec => [](InOrder /\ Accounts)
<1>1. Init => InOrder /\ Accounts
  <2> SUFFICES ASSUME Init PROVE InOrder /\ Accounts
    OBVIOUS
  <2>1. InOrder
    BY DEF Init, InOrder, NoFrame
  <2>2. Accounts
    BY DEF Init, Accounts, FramesAreAccountedFor
  <2>3. QED
    BY <2>1, <2>2
<1>2. QED
  BY <1>1, NextKeepsFrames, CaptureInvariant, PTL DEF Spec

\* Every frame the stream delivered is committed, counted as dropped by the counter of its
\* session, or under way, however deliveries, the worker and the end of the session
\* interleave; only the one waiting as the inbox is shut down disappears.
THEOREM FramesAreCounted == Spec => []FramesAreAccountedFor
<1>1. Accounts => FramesAreAccountedFor
  BY DEF Accounts
<1>2. QED
  BY <1>1, FramesInvariant, PTL

\* The metrics and the frame that is held never go back to an older frame, though frames
\* replace each other, are dropped, and come from one session after another.
THEOREM FramesMoveForward == Spec => FramesNeverGoBack
<1>1. CInv /\ InOrder /\ Accounts /\ [Next]_vars =>
        [newest' >= newest /\ held'.n \in {0, newest'}]_vars
  BY NextKeepsFrames DEF InOrder
<1>2. QED
  BY <1>1, CaptureInvariant, FramesInvariant, PTL DEF Spec, FramesNeverGoBack

-----------------------------------------------------------------------------
(* The service implements CaptureLifecycle *)

\* The steps of a call.
LEMMA CallRefines ==
  ASSUME CInv, BeginStart \/ BeginStop \/ StartTimesOut \/ StopTimesOut \/ Call
  PROVE  [Lifecycle!Next]_(Lifecycle!vars)
<1> USE CaptureAssumption DEF Lifecycle!vars, Native, serviceVars, callVars, nativeVars, frameVars
<1>1. TypeOK /\ Sequential /\ Calling
  BY DEF CInv
<1>2. CASE BeginStart
  <2>1. gen' = gen + 1 /\ control'[gen + 1] = "setup" /\ state = "stopped" /\ state' = "starting"
    BY <1>1, <1>2 DEF BeginStart, TypeOK, Sessions
  <2>2. Native' = "fresh"
    BY <1>1, <2>1 DEF TypeOK
  <2>3. QED
    BY <2>1, <2>2 DEF Lifecycle!Next, Lifecycle!Begin
<1>3. CASE BeginStop
  BY <1>3 DEF BeginStop, Lifecycle!Next, Lifecycle!End
<1>4. CASE StartTimesOut \/ StopTimesOut \/ Abandon
  BY <1>4 DEF StartTimesOut, StopTimesOut, Abandon
<1>5. CASE StartFails
  BY <1>1, <1>5 DEF StartFails, Calling, Sequential, TypeOK, Lifecycle!Next, Lifecycle!Abandoned
<1>6. CASE StartSucceeds
  <2>1. state = "starting" /\ state' = "running" /\ gen > 0 /\ control[gen] = "serving"
    BY <1>1, <1>6 DEF StartSucceeds, Calling, Sequential, TypeOK
  <2>2. Native = "open" /\ Native' = Native
    BY <1>6, <2>1 DEF StartSucceeds
  <2>3. QED
    BY <2>1, <2>2 DEF Lifecycle!Next, Lifecycle!Started
<1>7. CASE FinishStop
  <2>1. state = "stopping" /\ gen > 0 /\ control[gen] = "ended" /\ state' \in {"stopped", "failed"}
    BY <1>1, <1>7 DEF FinishStop, Calling, Sequential, TypeOK
  <2>2. Native = "closed" /\ Native' = Native
    BY <1>7, <2>1 DEF FinishStop
  <2>3. QED
    BY <2>1, <2>2 DEF Lifecycle!Next, Lifecycle!Ended
<1>8. QED
  BY <1>2, <1>3, <1>4, <1>5, <1>6, <1>7 DEF Call

\* The steps of a control thread: it opens the session once and closes it before the call
\* that waits for it returns.
LEMMA ControlRefines ==
  ASSUME CInv, NEW g \in Sessions, Control(g)
  PROVE  [Lifecycle!Next]_(Lifecycle!vars)
<1> USE CaptureAssumption DEF Lifecycle!vars, serviceVars, callVars, nativeVars, frameVars, ToStep
<1>1. TypeOK /\ Sequential /\ Calling /\ Standing
  BY DEF CInv
<1>2. g = gen /\ gen > 0 /\ UNCHANGED <<state, gen, op>>
  BY <1>1, OnlyTheLatest
  DEF Control, Alive, SetupFails, SpawnWorker, RegisterOutput, StreamStarts, StartStreamReturns,
      ReportStarted, ServeStop, StopStream, CloseInbox, JoinWorker, Standing, StandsAt
<1>3. CASE SetupFails(g)
  <2>1. control[gen] = "setup" /\ control'[gen] = "ended" /\ state = "starting"
    BY <1>1, <1>2, <1>3 DEF SetupFails, Calling, TypeOK
  <2>2. Native = "fresh" /\ Native' = "closed"
    BY <1>2, <2>1 DEF Native
  <2>3. QED
    BY <1>2, <2>1, <2>2 DEF Lifecycle!Next, Lifecycle!CloseSession
<1>4. CASE SpawnWorker(g)
  <2>1. control[gen] = "setup" /\ control'[gen] = "prepared" /\ state = "starting"
    BY <1>1, <1>2, <1>4 DEF SpawnWorker, Calling, TypeOK
  <2>2. Native = "fresh" /\ Native' = "open"
    BY <1>2, <2>1 DEF Native
  <2>3. QED
    BY <1>2, <2>1, <2>2 DEF Lifecycle!Next, Lifecycle!OpenSession
<1>5. CASE JoinWorker(g)
  <2>1. control[gen] = "joining" /\ control'[gen] = "ended" /\ state \in {"starting", "stopping"}
    BY <1>1, <1>2, <1>5 DEF JoinWorker, Calling, TypeOK
  <2>2. Native = "open" /\ Native' = "closed"
    BY <1>2, <2>1 DEF Native
  <2>3. QED
    BY <1>2, <2>1, <2>2 DEF Lifecycle!Next, Lifecycle!CloseSession
<1>6. CASE \/ StreamStarts(g) \/ ReportStarted(g) \/ ServeStop(g) \/ CloseInbox(g)
           \/ \E ok \in BOOLEAN :
                RegisterOutput(g, ok) \/ StartStreamReturns(g, ok) \/ StopStream(g, ok)
  <2>1. control[gen] \notin {"setup", "ended"} /\ control'[gen] \notin {"setup", "ended"}
    BY <1>1, <1>2, <1>6
    DEF TypeOK, RegisterOutput, StreamStarts, StartStreamReturns, ReportStarted, ServeStop,
        StopStream, CloseInbox, Standing, StandsAt
  <2>2. Native' = Native
    BY <1>2, <2>1 DEF Native
  <2>3. QED
    BY <1>2, <2>2
<1>7. QED
  BY <1>3, <1>4, <1>5, <1>6 DEF Control

\* Each start opens at most one session, which is closed before the start that failed, or
\* the stop, returns: CaptureService implements CaptureLifecycle.
THEOREM ServiceImplementsLifecycle == Spec => ImplementsLifecycle
<1>1. Init => Lifecycle!Init
  BY DEF Init, Lifecycle!Init, Native
<1>2. CInv /\ [Next]_vars => [Lifecycle!Next]_(Lifecycle!vars)
  <2> SUFFICES ASSUME CInv, [Next]_vars PROVE [Lifecycle!Next]_(Lifecycle!vars)
    OBVIOUS
  <2>1. ASSUME NEW g \in Sessions, RecordStreamError(g) PROVE [Lifecycle!Next]_(Lifecycle!vars)
    BY <2>1 DEF RecordStreamError, Lifecycle!Next, Lifecycle!Break, Lifecycle!vars, Native, callVars
  <2>2. ASSUME NEW g \in Sessions,
               \/ WorkerTakes(g) \/ WorkerIngests(g) \/ DeliverInvalid(g) \/ StreamDies(g)
               \/ \E c \in Contents : DeliverFrame(g, c)
        PROVE  UNCHANGED Lifecycle!vars
    BY <2>2 DEF WorkerTakes, WorkerIngests, DeliverInvalid, StreamDies, DeliverFrame,
                Lifecycle!vars, Native, serviceVars, callVars, nativeVars
  <2>3. CASE UNCHANGED vars
    BY <2>3 DEF vars, serviceVars, callVars, nativeVars, Lifecycle!vars, Native
  <2>4. QED
    BY <2>1, <2>2, <2>3, CallRefines, ControlRefines DEF Next
<1>3. QED
  BY <1>1, <1>2, CaptureInvariant, PTL DEF Spec, ImplementsLifecycle, Lifecycle!Spec

=============================================================================
