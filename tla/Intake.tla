-------------------------------- MODULE Intake --------------------------------
(***************************************************************************)
(* How observed text becomes batches for the extractor: the segmenter      *)
(* (mega-memory segmentation.rs), the evidence tables (mega-store          *)
(* source_repo.rs) and the batches of an extraction attempt                *)
(* (load_extraction_batches, ExtractionBatch::validate, and the keys that  *)
(* apply_plan remembers).                                                  *)
(*                                                                         *)
(* Nothing in the repository calls these together yet.  The driver assumed *)
(* here stores an event, admits it, and stores the segment that this       *)
(* closes; a worker loads the batches of a segment and applies them one    *)
(* after the other, and begins again when it failed.  Each batch yields    *)
(* one candidate.                                                          *)
(***************************************************************************)
EXTENDS Naturals, SequencesExt

CONSTANTS
  MaxEvents,   \* bound: source events; event i has the i-th id
  Contexts,    \* pairs of application and scope
  Texts,       \* normalised texts
  Size,        \* their lengths in characters
  Limit,       \* MAX_EXTRACTION_BATCH_CHARS, MAX_EVIDENCE_CHARS, MAX_EXTRACTION_INPUT_CHARS
  Inactivity,  \* INACTIVITY_MILLIS
  MaxSegment,  \* MAX_SEGMENT_MILLIS
  MaxMembers,  \* sources insert_activity_segment takes
  Durations,   \* bound: how long events last
  MaxAttempts, \* bound: attempts in all
  MaxTime      \* bound: the time at which events end

ASSUME IntakeAssumption ==
  /\ Size \in [Texts -> Nat]
  /\ Inactivity \in Nat /\ MaxSegment \in Nat /\ MaxMembers \in Nat
  /\ Durations \subseteq Nat /\ MaxTime \in Nat

VARIABLES
  event,     \* source_events in order of arrival, and what became of each
  open,      \* ActivitySegmenter.open; its app, scope and start are its first member's
  segments,  \* activity_segments with their sources, in order of insertion
  attempt,   \* the extraction attempt under way: its batches and the next to apply
  job,       \* attempts begun on each segment, and whether one succeeded
  applied,   \* extraction_candidates: the run ids seen, and the sources each stood for
  thinned    \* history: segments that lost text after an attempt on them began

vars == <<event, open, segments, attempt, job, applied, thinned>>

Sources == DOMAIN event
Times == 0..MaxTime
Events == [fate : {"admitted", "repeat", "late", "refused", "lost"}, text : Texts,
           context : Contexts, start : Times, end : Times, present : BOOLEAN]
NoOpen == [members |-> << >>, seen |-> {}, end |-> 0]
NoAttempt == [segment |-> 0, batches |-> << >>, next |-> 1]

TypeOK ==
  /\ event \in Seq(Events)
  /\ open.members \in Seq(Sources) /\ open.seen \subseteq Texts /\ open.end \in Times
  /\ \A g \in DOMAIN segments : segments[g].members \subseteq Sources
  /\ attempt.segment \in 0..Len(segments) /\ attempt.next \in 1..Len(attempt.batches) + 1
  /\ attempt.batches \in Seq(SUBSET Sources)
  /\ DOMAIN job = DOMAIN segments
  /\ DOMAIN applied \subseteq (DOMAIN segments) \X (Nat \ {0})
  /\ thinned \subseteq DOMAIN segments

Init ==
  /\ event = << >>
  /\ open = NoOpen /\ segments = << >>
  /\ attempt = NoAttempt /\ job = << >>
  /\ applied = << >>
  /\ thinned = {}

-----------------------------------------------------------------------------
(* The segmenter *)

IsOpen == open.members # << >>
Opened == event[Head(open.members)]

\* Mutant of Boundary: pauses do not count.
BoundaryNever(e) == Opened.context # e.context \/ e.end - Opened.start >= MaxSegment

\* boundary_for: another app or scope, a pause, or too long a segment.
Boundary(e) ==
  \/ Opened.context # e.context
  \/ e.start - open.end >= Inactivity
  \/ e.end - Opened.start >= MaxSegment

\* The open segment after event s was taken in: a text that it has seen only makes it
\* longer.
TakenIn(s, e, before) ==
  [members |-> IF e.text \in before.seen THEN before.members ELSE Append(before.members, s),
   seen |-> before.seen \cup {e.text},
   end |-> IF before.end < e.end THEN e.end ELSE before.end]

\* insert_activity_segment refuses a draft that is too long or has too many sources.
Storable == open.end - Opened.start <= MaxSegment /\ Len(open.members) <= MaxMembers

\* What becomes of the members of the open segment.
Settled(events, fate) ==
  [s \in DOMAIN events |-> IF s \in ToSet(open.members) THEN [events[s] EXCEPT !.fate = fate]
                           ELSE events[s]]

\* take_open, and insert_activity_segment of the draft.
Stored(events) ==
  IF Storable
  THEN /\ segments' = Append(segments, [start |-> Opened.start, end |-> open.end,
                                        members |-> ToSet(open.members)])
       /\ job' = Append(job, [attempts |-> 0, done |-> FALSE])
       /\ event' = events
  ELSE /\ event' = Settled(events, "refused")
       /\ UNCHANGED <<segments, job>>

\* insert_source_event of an event the store does not have, and admit.
Observe(e) ==
  /\ Len(event) < MaxEvents
  /\ \A o \in Sources : <<event[o].context, event[o].text, event[o].start>>
                          # <<e.context, e.text, e.start>>
  /\ LET s == Len(event) + 1
         as(fate) == Append(event, [e EXCEPT !.fate = fate])
     IN \/ /\ IsOpen /\ e.start < open.end           \* OutOfOrder
           /\ event' = as("late")
           /\ UNCHANGED <<open, segments, job>>
        \/ /\ IsOpen /\ e.start >= open.end /\ Boundary(e)
           /\ Stored(as("admitted"))
           /\ open' = TakenIn(s, e, NoOpen)
        \/ /\ IsOpen => e.start >= open.end /\ ~Boundary(e)
           /\ event' = as(IF e.text \in open.seen THEN "repeat" ELSE "admitted")
           /\ open' = TakenIn(s, e, open)
           /\ UNCHANGED <<segments, job>>
  /\ UNCHANGED <<attempt, applied, thinned>>

\* Mutant of CloseSegment: the draft is copied, not taken.
CloseSegmentCopied ==
  /\ IsOpen
  /\ Stored(event)
  /\ UNCHANGED <<open, attempt, applied, thinned>>

\* close: the session ends, capture is paused, or the computer goes to sleep.
CloseSegment ==
  /\ IsOpen
  /\ Stored(event)
  /\ open' = NoOpen
  /\ UNCHANGED <<attempt, applied, thinned>>

\* The segmenter and the worker's attempt are in memory only.
Crash ==
  /\ IsOpen \/ attempt # NoAttempt
  /\ event' = Settled(event, "lost")
  /\ open' = NoOpen /\ attempt' = NoAttempt
  /\ UNCHANGED <<segments, job, applied, thinned>>

-----------------------------------------------------------------------------
(* The batches of an attempt *)

Length(s) == Size[event[s].text]
Chars(batch) == MapThenSumSet(Length, batch)

\* The sources of a segment that still have text, by start and id.
Readable(g) == {s \in segments[g].members : event[s].present}
Before(s, o) ==
  event[s].start < event[o].start \/ (event[s].start = event[o].start /\ s < o)
Place(s, sources) == 1 + Cardinality({o \in sources : Before(o, s)})
Sorted(sources) ==
  [i \in 1..Cardinality(sources) |-> CHOOSE s \in sources : Place(s, sources) = i]

\* Where load_extraction_batches begins a batch, given the lengths of the sources: with
\* the first of them, and where the next one does not fit with the characters so far.
Cuts(lengths) ==
  LET chars[i \in 0..Len(lengths)] ==
        IF i = 0 THEN 0
        ELSE IF chars[i - 1] + lengths[i] > Limit THEN lengths[i]
        ELSE chars[i - 1] + lengths[i]
  IN {i \in DOMAIN lengths : i = 1 \/ chars[i - 1] + lengths[i] > Limit}

\* The b-th batch has the sources from the b-th of these places to the next.
Pieces(line, cuts) ==
  [b \in 1..Cardinality(cuts) |->
     {line[i] : i \in {i \in DOMAIN line : Cardinality({c \in cuts : c <= i}) = b}}]

Batches(g) ==
  LET line == Sorted(Readable(g))
  IN Pieces(line, Cuts([i \in DOMAIN line |-> Length(line[i])]))

\* push_batch joins the texts with line breaks, and validate counts those too.
Accepted(batch) == Chars(batch) + Cardinality(batch) - 1 <= Limit

BeginAttempt(g) ==
  /\ attempt = NoAttempt
  /\ ~job[g].done
  /\ FoldLeft(LAMBDA n, j : n + j.attempts, 0, job) < MaxAttempts
  /\ attempt' = [segment |-> g, batches |-> Batches(g), next |-> 1]
  /\ job' = [job EXCEPT ![g].attempts = @ + 1]
  /\ UNCHANGED <<event, open, segments, applied, thinned>>

Working == attempt # NoAttempt
HasNext == Working /\ attempt.next <= Len(attempt.batches)
Batch == attempt.batches[attempt.next]

\* Mutant of RunId: the batch alone names the run, not the job.
RunIdOfBatch == <<1, attempt.next>>
RunId == <<attempt.segment, attempt.next>>

\* The extractor's answer to an accepted batch is reconciled and applied: if its key has
\* an outcome, that one is returned and nothing else happens.
ApplyBatch ==
  /\ HasNext /\ Accepted(Batch)
  /\ applied' = [run \in (DOMAIN applied) \cup {RunId} |->
                   IF run \in DOMAIN applied THEN applied[run] ELSE Batch]
  /\ attempt' = [attempt EXCEPT !.next = @ + 1]
  /\ UNCHANGED <<event, open, segments, job, thinned>>

\* validate refuses the batch, or the extractor or the store fails.
AttemptFails ==
  /\ HasNext
  /\ attempt' = NoAttempt
  /\ UNCHANGED <<event, open, segments, job, applied, thinned>>

AttemptSucceeds ==
  /\ Working /\ ~HasNext
  /\ job' = [job EXCEPT ![attempt.segment].done = TRUE]
  /\ attempt' = NoAttempt
  /\ UNCHANGED <<event, open, segments, applied, thinned>>

-----------------------------------------------------------------------------
(* Evidence that goes           *)

Thins(gone) == thinned' = thinned \cup
  {g \in DOMAIN segments : job[g].attempts > 0 /\ Readable(g) \cap gone # {}}

\* expire_source_text, and the same statement of apply_retention.
ExpireText(cutoff) ==
  LET old == {s \in Sources : event[s].present /\ event[s].end < cutoff}
  IN /\ old # {}
     /\ event' = [s \in Sources |-> IF s \in old THEN [event[s] EXCEPT !.present = FALSE]
                                    ELSE event[s]]
     /\ Thins(old)
     /\ UNCHANGED <<open, segments, attempt, job, applied>>

-----------------------------------------------------------------------------

\* Events end one after the other; any time may have passed since the last one.
NewEvents ==
  {e \in [fate : {"admitted"}, text : Texts, context : Contexts, present : {TRUE},
          start : Times, end : Times] :
     /\ e.start <= e.end /\ e.end - e.start \in Durations
     /\ \A s \in Sources : event[s].end <= e.end}

Next ==
  \/ \E e \in NewEvents : Observe(e)
  \/ CloseSegment \/ Crash
  \/ \E g \in DOMAIN segments : BeginAttempt(g)
  \/ ApplyBatch \/ AttemptFails \/ AttemptSucceeds
  \/ \E cutoff \in 1..MaxTime + 1 : ExpireText(cutoff)

Spec == Init /\ [][Next]_vars

-----------------------------------------------------------------------------
(* Properties *)

\* An admitted event is in the open segment or in exactly one that was stored, unless the
\* store refused that segment or a crash lost it; any other event is in none.
NoSourceIsLost ==
  /\ TypeOK
  /\ \A s \in Sources :
       LET homes == {g \in DOMAIN segments : s \in segments[g].members}
           inOpen == IF s \in ToSet(open.members) THEN 1 ELSE 0
       IN Cardinality(homes) + inOpen = IF event[s].fate = "admitted" THEN 1 ELSE 0

\* A segment is one stretch of activity: one app and scope, no pause, never longer than
\* the limit, no text twice, and all of it within the times the segment names.
SegmentsAreSound ==
  \A g \in DOMAIN segments :
    LET m == segments[g].members
    IN /\ segments[g].end - segments[g].start <= MaxSegment
       /\ \A s, o \in m :
            /\ event[s].context = event[o].context
            /\ event[s].start >= segments[g].start /\ event[s].end <= segments[g].end
            /\ event[s].text = event[o].text => s = o
       /\ \A s \in m : event[s].start > segments[g].start =>
            \E o \in 1..(s - 1) : /\ event[o].context = event[s].context
                                  /\ event[s].start - event[o].end < Inactivity

\* Attempts that fail, crash and begin again miss no evidence and mix none up: a run that
\* was applied stands for sources of its own segment, and once an attempt succeeds, some
\* run stands for each source, provided no text went meanwhile.
RetriesSkipNothing ==
  /\ \A key \in DOMAIN applied : applied[key] \subseteq segments[key[1]].members
  /\ \A g \in DOMAIN segments : job[g].done /\ g \notin thinned =>
       \A s \in Readable(g) : \E key \in DOMAIN applied : key[1] = g /\ s \in applied[key]

=============================================================================
