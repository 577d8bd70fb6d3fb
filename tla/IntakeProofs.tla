------------------------------ MODULE IntakeProofs ------------------------------
(***************************************************************************)
(* Proofs about Intake for any texts, contexts, limits and bounds.  IInv   *)
(* is the inductive invariant: what the open segment may take in is sound  *)
(* as far as it goes, every admitted event has one home, and, where no     *)
(* text went, the batches of an attempt are those every other attempt on   *)
(* the segment has.  The last of these rests on what is shown first: the   *)
(* batches depend on the readable sources alone, and cover them.           *)
(***************************************************************************)
EXTENDS Intake, FiniteSetTheorems, SequenceTheorems, TLAPS

-----------------------------------------------------------------------------
(* The batches of a segment *)

\* A set of sources whose times are known, in the events as they are.
Timed(sources) ==
  IsFiniteSet(sources) /\ sources \subseteq Nat /\ \A s \in sources : event[s].start \in Nat

LEMMA PlacesAreInOrder ==
  ASSUME NEW R, Timed(R)
  PROVE  /\ Cardinality(R) \in Nat
         /\ \A s \in R : Place(s, R) \in 1..Cardinality(R)
         /\ \A s, o \in R : Before(s, o) => Place(s, R) < Place(o, R)
<1>1. Cardinality(R) \in Nat
  BY FS_CardinalityType DEF Timed
<1> DEFINE earlier(s) == {o \in R : Before(o, s)}
<1>2. ASSUME NEW s \in R
      PROVE  IsFiniteSet(earlier(s)) /\ Cardinality(earlier(s)) \in 0..Cardinality(R) - 1
  <2>1. earlier(s) \in SUBSET (R \ {s})
    BY DEF Before, Timed
  <2>2. IsFiniteSet(R \ {s}) /\ Cardinality(R \ {s}) = Cardinality(R) - 1
    BY FS_RemoveElement DEF Timed
  <2>3. IsFiniteSet(earlier(s)) /\ Cardinality(earlier(s)) <= Cardinality(R \ {s})
    BY ONLY <2>1, <2>2, FS_Subset
  <2>4. Cardinality(earlier(s)) \in Nat
    BY ONLY <2>3, FS_CardinalityType
  <2>5. QED
    BY ONLY <1>1, <2>2, <2>3, <2>4
<1>3. ASSUME NEW s \in R, NEW o \in R, Before(s, o)
      PROVE  Cardinality(earlier(s)) < Cardinality(earlier(o))
  <2>1. earlier(s) \cup {s} \in SUBSET earlier(o) /\ s \notin earlier(s)
    <3>1. s \in earlier(o) /\ s \notin earlier(s)
      BY <1>3 DEF Before, Timed
    <3>2. ASSUME NEW x \in R, Before(x, s) PROVE Before(x, o)
      <4>1. /\ event[x].start \in Nat /\ event[s].start \in Nat /\ event[o].start \in Nat
            /\ x \in Nat /\ s \in Nat /\ o \in Nat
        BY DEF Timed
      <4>2. QED
        BY <1>3, <3>2, <4>1 DEF Before
    <3>3. QED
      BY <3>1, <3>2
  <2>2. IsFiniteSet(earlier(s)) /\ IsFiniteSet(earlier(o)) /\ Cardinality(earlier(s)) \in Nat
        /\ Cardinality(earlier(o)) \in Nat
    BY <1>2
  <2>3. Cardinality(earlier(s) \cup {s}) = Cardinality(earlier(s)) + 1
    BY ONLY <2>1, <2>2, FS_AddElement
  <2>4. Cardinality(earlier(s) \cup {s}) <= Cardinality(earlier(o))
    BY ONLY <2>1, <2>2, FS_Subset
  <2>5. QED
    BY ONLY <2>2, <2>3, <2>4
<1>4. \A s : Place(s, R) = 1 + Cardinality(earlier(s))
  BY DEF Place
<1> HIDE DEF earlier
<1>5. QED
  BY <1>1, <1>2, <1>3, <1>4

\* Every place is taken, by one source.
LEMMA OnePlaceEach ==
  ASSUME NEW R, Timed(R)
  PROVE  /\ \A s, o \in R : Place(s, R) = Place(o, R) => s = o
         /\ \A i \in 1..Cardinality(R) : \E s \in R : Place(s, R) = i
<1> DEFINE n == Cardinality(R)
           place == [s \in R |-> Place(s, R)]
<1>1. /\ n \in Nat
      /\ \A s \in R : Place(s, R) \in 1..n
      /\ \A s, o \in R : Before(s, o) => Place(s, R) < Place(o, R)
  BY PlacesAreInOrder
<1>2. \A s, o \in R : s # o => Before(s, o) \/ Before(o, s)
  BY DEF Before, Timed
<1>3. ASSUME NEW s \in R, NEW o \in R, Place(s, R) = Place(o, R) PROVE s = o
  BY <1>1, <1>2, <1>3
<1>4. place \in Injection(R, 1..n)
  BY <1>1, <1>3 DEF Injection, IsInjective
<1>5. IsFiniteSet(1..n) /\ Cardinality(1..n) = n
  BY <1>1, FS_Interval
<1>6. place \in Surjection(R, 1..n)
  BY <1>4, <1>5, FS_Injection
<1>7. \A i \in 1..n : \E s \in R : Place(s, R) = i
  BY <1>6 DEF Surjection
<1>8. QED
  BY <1>3, <1>7

LEMMA SortedByPlace ==
  ASSUME NEW R, Timed(R)
  PROVE  /\ Sorted(R) \in [1..Cardinality(R) -> R]
         /\ \A s \in R : Place(s, R) \in 1..Cardinality(R) /\ Sorted(R)[Place(s, R)] = s
<1>1. \A i \in 1..Cardinality(R) : Sorted(R)[i] \in R /\ Place(Sorted(R)[i], R) = i
  BY OnePlaceEach DEF Sorted
<1>2. Sorted(R) \in [1..Cardinality(R) -> R]
  BY <1>1 DEF Sorted
<1>3. ASSUME NEW s \in R
      PROVE  Place(s, R) \in 1..Cardinality(R) /\ Sorted(R)[Place(s, R)] = s
  BY <1>1, PlacesAreInOrder, OnePlaceEach
<1>4. QED
  BY <1>2, <1>3

\* A batch begins with the first source.
LEMMA FirstCut ==
  ASSUME NEW lengths
  PROVE  Cuts(lengths) \subseteq DOMAIN lengths /\ (1 \in DOMAIN lengths => 1 \in Cuts(lengths))
BY DEF Cuts

\* The batches are cut from the line, and no place in it is left out.
LEMMA PiecesCover ==
  ASSUME NEW n \in Nat, NEW R, NEW line \in [1..n -> R], NEW cuts \in SUBSET (1..n),
         1 \in 1..n => 1 \in cuts
  PROVE  /\ Pieces(line, cuts) \in Seq(SUBSET R)
         /\ \A i \in 1..n : \E b \in DOMAIN Pieces(line, cuts) : line[i] \in Pieces(line, cuts)[b]
<1> DEFINE upTo(i) == {c \in cuts : c <= i}
<1>1. IsFiniteSet(cuts) /\ Cardinality(cuts) \in Nat
  <2>1. IsFiniteSet(1..n)
    BY FS_Interval
  <2>2. QED
    BY ONLY <2>1, cuts \in SUBSET (1..n), FS_Subset, FS_CardinalityType
<1>2. ASSUME NEW i \in 1..n PROVE Cardinality(upTo(i)) \in 1..Cardinality(cuts)
  <2>1. upTo(i) \in SUBSET cuts /\ 1 \in upTo(i)
    OBVIOUS
  <2>2. /\ IsFiniteSet(upTo(i)) /\ Cardinality(upTo(i)) \in Nat
        /\ Cardinality(upTo(i)) <= Cardinality(cuts)
    BY ONLY <1>1, <2>1, FS_Subset, FS_CardinalityType
  <2>3. Cardinality(upTo(i)) # 0
    BY ONLY <2>1, <2>2, FS_EmptySet
  <2>4. QED
    BY ONLY <1>1, <2>2, <2>3
<1> DEFINE piece(b) == {line[i] : i \in {i \in DOMAIN line : Cardinality(upTo(i)) = b}}
<1>3. Pieces(line, cuts) = [b \in 1..Cardinality(cuts) |-> piece(b)]
  BY DEF Pieces
<1>4. \A b : piece(b) \in SUBSET R
  OBVIOUS
<1>5. \A i \in 1..n : line[i] \in piece(Cardinality(upTo(i)))
  OBVIOUS
<1> HIDE DEF piece, upTo
<1>6. QED
  BY <1>1, <1>2, <1>3, <1>4, <1>5

\* Every source of the segment that still has text is in a batch, and nothing else is.
LEMMA BatchesCover ==
  ASSUME NEW g, Timed(Readable(g))
  PROVE  /\ Batches(g) \in Seq(SUBSET Readable(g))
         /\ \A s \in Readable(g) : \E i \in DOMAIN Batches(g) : s \in Batches(g)[i]
<1> DEFINE R == Readable(g)
           n == Cardinality(R)
           line == Sorted(R)
           lengths == [i \in DOMAIN line |-> Length(line[i])]
<1>1. n \in Nat /\ line \in [1..n -> R]
      /\ \A s \in R : Place(s, R) \in 1..n /\ line[Place(s, R)] = s
  BY PlacesAreInOrder, SortedByPlace
<1>2. DOMAIN lengths = 1..n
  BY <1>1
<1>3. Cuts(lengths) \in SUBSET (1..n) /\ (1 \in 1..n => 1 \in Cuts(lengths))
  BY <1>2, FirstCut
<1>4. Batches(g) = Pieces(line, Cuts(lengths))
  BY DEF Batches
<1> HIDE DEF R, n, line, lengths
<1>5. /\ Pieces(line, Cuts(lengths)) \in Seq(SUBSET R)
      /\ \A i \in 1..n : \E b \in DOMAIN Pieces(line, Cuts(lengths)) :
            line[i] \in Pieces(line, Cuts(lengths))[b]
  BY <1>1, <1>3, PiecesCover
<1>6. QED
  BY <1>1, <1>4, <1>5 DEF R

\* The batches change only with the sources that can be read, their starts and lengths.
LEMMA BatchesKept ==
  ASSUME NEW g, Timed(Readable(g)), Readable(g)' = Readable(g),
         \A s \in Readable(g) :
           event'[s].start = event[s].start /\ event'[s].text = event[s].text
  PROVE  Batches(g)' = Batches(g)
<1> DEFINE R == Readable(g)
           line == Sorted(R)
<1>1. \A s, o \in R : Before(s, o)' = Before(s, o)
  BY DEF Before
<1>2. \A s \in R : Place(s, R)' = Place(s, R)
  <2>1. ASSUME NEW s \in R PROVE {o \in R : Before(o, s)'} = {o \in R : Before(o, s)}
    BY <1>1
  <2>2. QED
    BY <2>1 DEF Place
<1>3. \A i \in 1..Cardinality(R) :
        (CHOOSE s \in R : Place(s, R) = i)' = CHOOSE s \in R : Place(s, R) = i
  <2> TAKE i \in 1..Cardinality(R)
  <2>1. PICK s \in R : Place(s, R) = i
    BY OnePlaceEach
  <2>2. \A o \in R : Place(o, R) = i => o = s
    BY <2>1, OnePlaceEach
  <2>3. (CHOOSE o \in R : Place(o, R) = i) = s
    BY <2>1, <2>2
  <2>4. (CHOOSE o \in R : Place(o, R)' = i) = s
    BY <1>2, <2>1, <2>2
  <2>5. (CHOOSE o \in R : Place(o, R) = i)' = CHOOSE o \in R : Place(o, R)' = i
    OBVIOUS
  <2>6. QED
    BY <2>3, <2>4, <2>5
<1>4. Sorted(R)' = Sorted(R)
  BY <1>3 DEF Sorted
<1>5. \A i \in DOMAIN line : line[i] \in R
  BY SortedByPlace
<1>6. \A i \in DOMAIN line : Length(line[i])' = Length(line[i])
  BY <1>4, <1>5 DEF Length
<1>7. QED
  BY <1>4, <1>6 DEF Batches

-----------------------------------------------------------------------------
(* The invariant *)

Segments == [start : Times, end : Times, members : SUBSET Sources]
Jobs == [attempts : Nat, done : BOOLEAN]

\* The types, and those of what is in the sequences.
Shapes ==
  /\ event \in Seq(Events)
  /\ open \in [members : Seq(Sources), seen : SUBSET Texts, end : Times]
  /\ segments \in Seq(Segments)
  /\ job \in Seq(Jobs) /\ Len(job) = Len(segments)
  /\ attempt \in [segment : 0..Len(segments), batches : Seq(SUBSET Sources), next : Nat \ {0}]
  /\ attempt.next <= Len(attempt.batches) + 1
  /\ attempt.segment = 0 => attempt = NoAttempt
  /\ DOMAIN applied \subseteq (DOMAIN segments) \X (Nat \ {0})
  /\ thinned \subseteq DOMAIN segments

\* The sources m are one stretch of activity, between two times, in the events ev.
Stretch(ev, m, from, to) ==
  /\ \A s, o \in m :
       /\ ev[s].context = ev[o].context
       /\ ev[s].start >= from /\ ev[s].end <= to
       /\ ev[s].text = ev[o].text => s = o
  /\ \A s \in m : ev[s].start > from =>
       \E o \in 1..(s - 1) : /\ ev[o].context = ev[s].context
                             /\ ev[s].start - ev[o].end < Inactivity

\* So is the open segment, which knows the texts it has seen and when the last event in
\* it ended, be that a member or a repetition.
OpenIsSound ==
  /\ ~IsOpen => open = NoOpen
  /\ IsOpen =>
       /\ Stretch(event, ToSet(open.members), Opened.start, open.end)
       /\ \A s \in ToSet(open.members) : event[s].text \in open.seen
       /\ Opened.start <= open.end
       /\ \E o \in Sources : event[o].end = open.end /\ event[o].context = Opened.context

\* Of the events ev, those that were admitted and not lost have one place, among the
\* members m of the open segment or in one that is stored, and only those have.
OneHomeIn(ev, m, segs) ==
  /\ \A s \in DOMAIN ev : ev[s].fate = "admitted" <=>
                            s \in m \/ \E g \in DOMAIN segs : s \in segs[g].members
  /\ \A g \in DOMAIN segs : segs[g].members \cap m = {}
  /\ \A g, h \in DOMAIN segs : g # h => segs[g].members \cap segs[h].members = {}

OneHome == OneHomeIn(event, ToSet(open.members), segments)

\* Runs and attempts stand for batches as they are cut now, where no text went, and one
\* that is done or under way has applied each batch it passed.
RunsStand ==
  /\ \A g \in (DOMAIN segments) \ thinned :
       /\ \A key \in DOMAIN applied : key[1] = g =>
            key[2] \in DOMAIN Batches(g) /\ applied[key] = Batches(g)[key[2]]
       /\ job[g].done => \A i \in DOMAIN Batches(g) : <<g, i>> \in DOMAIN applied
       /\ attempt.segment = g =>
            /\ attempt.batches = Batches(g)
            /\ \A i \in 1..(attempt.next - 1) : <<g, i>> \in DOMAIN applied
  /\ \A g \in DOMAIN segments :
       \/ job[g].done \/ attempt.segment = g \/ (\E key \in DOMAIN applied : key[1] = g)
       => job[g].attempts > 0

\* Whatever went, no run stands for a source of another segment.
RunsKeepApart ==
  /\ \A key \in DOMAIN applied : applied[key] \subseteq segments[key[1]].members
  /\ \A i \in DOMAIN attempt.batches :
       attempt.batches[i] \subseteq segments[attempt.segment].members

IInv == Shapes /\ OpenIsSound /\ OneHome /\ SegmentsAreSound /\ RunsStand /\ RunsKeepApart

-----------------------------------------------------------------------------
(* What the invariant says of one segment, and what each step keeps *)

LEMMA InitIInv == Init => IInv
<1> SUFFICES ASSUME Init PROVE IInv
  OBVIOUS
<1> USE IntakeAssumption DEF Init, NoOpen, NoAttempt
<1>1. Shapes
  BY DEF Shapes, Sources, Times
<1>2. OpenIsSound /\ OneHome /\ SegmentsAreSound
  BY DEF OpenIsSound, IsOpen, OneHome, OneHomeIn, SegmentsAreSound, Sources, ToSet
<1>3. RunsStand /\ RunsKeepApart
  BY DEF RunsStand, RunsKeepApart
<1>4. QED
  BY <1>1, <1>2, <1>3 DEF IInv

\* What an event is: its times are numbers, and it has a number itself.
LEMMA EventTypes ==
  ASSUME Shapes
  PROVE  /\ Sources = 1..Len(event) /\ Len(event) \in Nat
         /\ \A s \in Sources : event[s] \in Events
         /\ \A s \in Sources : event[s].start \in Nat /\ event[s].end \in Nat
<1>1. event \in Seq(Events)
  BY DEF Shapes
<1>2. Sources = 1..Len(event) /\ Len(event) \in Nat /\ \A s \in Sources : event[s] \in Events
  BY <1>1 DEF Sources
<1>3. \A e \in Events : e.start \in Nat /\ e.end \in Nat
  BY IntakeAssumption DEF Events, Times
<1>4. QED
  BY <1>2, <1>3

LEMMA SegmentTypes ==
  ASSUME Shapes, NEW g \in DOMAIN segments
  PROVE  segments[g] \in Segments /\ segments[g].members \in SUBSET Sources
<1>1. segments \in Seq(Segments)
  BY DEF Shapes
<1>2. segments[g] \in Segments
  BY <1>1
<1>3. QED
  BY <1>2 DEF Segments

LEMMA ReadableIsTimed ==
  ASSUME Shapes, NEW g \in DOMAIN segments
  PROVE  Timed(Readable(g)) /\ Readable(g) \subseteq Sources
<1>1. segments[g].members \subseteq Sources
  BY SegmentTypes
<1>2. Readable(g) \in SUBSET Sources
  BY <1>1 DEF Readable
<1>3. IsFiniteSet(Sources)
  BY EventTypes, FS_Interval
<1>4. IsFiniteSet(Readable(g))
  BY ONLY <1>2, <1>3, FS_Subset
<1>5. QED
  BY <1>2, <1>4, EventTypes DEF Timed

\* Events stay, and so does what they are.
Kept ==
  /\ Sources \subseteq Sources'
  /\ \A s \in Sources :
       /\ event'[s].context = event[s].context /\ event'[s].text = event[s].text
       /\ event'[s].start = event[s].start /\ event'[s].end = event[s].end
TextsKept == \A s \in Sources : event'[s].present = event[s].present

LEMMA StretchKept ==
  ASSUME Shapes, Kept, NEW m \in SUBSET Sources, NEW from, NEW to,
         Stretch(event, m, from, to)
  PROVE  Stretch(event', m, from, to)
<1>1. \A s \in m : \A o \in 1..(s - 1) : o \in Sources
  BY EventTypes
<1>2. QED
  BY <1>1 DEF Stretch, Kept

\* A segment that is stored joins those that are sound.
Draft == [start |-> Opened.start, end |-> open.end, members |-> ToSet(open.members)]

LEMMA SoundIsStretch ==
  SegmentsAreSound <=>
    \A g \in DOMAIN segments :
      /\ segments[g].end - segments[g].start <= MaxSegment
      /\ Stretch(event, segments[g].members, segments[g].start, segments[g].end)
BY DEF SegmentsAreSound, Stretch

LEMMA SegmentsStaySound ==
  ASSUME Shapes, Shapes', OpenIsSound, SegmentsAreSound, Kept,
         \/ segments' = segments
         \/ IsOpen /\ Storable /\ segments' = Append(segments, Draft)
  PROVE  SegmentsAreSound'
<1>1. \A g \in DOMAIN segments :
        /\ segments[g].members \in SUBSET Sources
        /\ segments[g].end - segments[g].start <= MaxSegment
        /\ Stretch(event', segments[g].members, segments[g].start, segments[g].end)
  BY SoundIsStretch, StretchKept, SegmentTypes
<1>2. ASSUME IsOpen, Storable
      PROVE  /\ Draft.end - Draft.start <= MaxSegment
             /\ Stretch(event', Draft.members, Draft.start, Draft.end)
  <2>1. ToSet(open.members) \in SUBSET Sources
    BY DEF Shapes, ToSet
  <2>2. Stretch(event, ToSet(open.members), Opened.start, open.end)
    BY <1>2 DEF OpenIsSound
  <2>3. QED
    BY <1>2, <2>1, <2>2, StretchKept DEF Draft, Storable
<1>3. \A g \in DOMAIN segments' :
        /\ segments'[g].end - segments'[g].start <= MaxSegment
        /\ Stretch(event', segments'[g].members, segments'[g].start, segments'[g].end)
  <2>1. CASE segments' = segments
    BY <1>1, <2>1
  <2>2. CASE IsOpen /\ Storable /\ segments' = Append(segments, Draft)
    <3>1. segments \in Seq(Segments)
      BY DEF Shapes
    <3>2. ASSUME NEW g \in DOMAIN segments'
          PROVE  (g \in DOMAIN segments /\ segments'[g] = segments[g]) \/ segments'[g] = Draft
      BY <2>2, <3>1
    <3>3. QED
      BY <1>1, <1>2, <2>2, <3>2
  <2>3. QED
    BY <2>1, <2>2
<1>4. QED
  BY <1>3 DEF SegmentsAreSound, Stretch

\* Where no text goes, neither do the batches.
LEMMA BatchesStay ==
  ASSUME Shapes, Kept, TextsKept, NEW g \in DOMAIN segments, segments'[g] = segments[g]
  PROVE  Batches(g)' = Batches(g)
<1>1. Timed(Readable(g)) /\ Readable(g) \subseteq Sources
  BY ReadableIsTimed
<1>2. segments[g].members \subseteq Sources
  BY SegmentTypes
<1>3. Readable(g)' = Readable(g)
  BY <1>2 DEF Readable, TextsKept
<1>4. QED
  BY <1>1, <1>3, BatchesKept DEF Kept

\* Where no text goes, neither does what a run or an attempt stands for.
LEMMA RunsKept ==
  ASSUME Shapes, Shapes', RunsStand, RunsKeepApart, Kept, TextsKept,
         UNCHANGED <<attempt, applied, thinned>>,
         \/ UNCHANGED <<segments, job>>
         \/ /\ segments' = Append(segments, Draft)
            /\ job' = Append(job, [attempts |-> 0, done |-> FALSE])
  PROVE  RunsStand' /\ RunsKeepApart'
<1>1. /\ DOMAIN segments \subseteq DOMAIN segments'
      /\ \A g \in DOMAIN segments : segments'[g] = segments[g] /\ job'[g] = job[g]
      /\ \A g \in (DOMAIN segments') \ (DOMAIN segments) : ~job'[g].done
  <2>1. /\ segments \in Seq(Segments) /\ job \in Seq(Jobs) /\ Len(job) = Len(segments)
    BY DEF Shapes
  <2>2. CASE UNCHANGED <<segments, job>>
    BY <2>2
  <2>3. CASE /\ segments' = Append(segments, Draft)
             /\ job' = Append(job, [attempts |-> 0, done |-> FALSE])
    BY <2>1, <2>3
  <2>4. QED
    BY <2>2, <2>3
<1>2. ASSUME NEW g \in DOMAIN segments PROVE Batches(g)' = Batches(g)
  BY <1>1, BatchesStay
<1>3. /\ \A key \in DOMAIN applied : key[1] \in DOMAIN segments
      /\ attempt.segment \in (DOMAIN segments) \cup {0}
      /\ 0 \notin DOMAIN segments' /\ (attempt.segment = 0 => attempt = NoAttempt)
  BY DEF Shapes
<1>4. RunsStand'
  <2>1. ASSUME NEW g \in (DOMAIN segments') \ thinned'
        PROVE  /\ \A key \in DOMAIN applied : key[1] = g =>
                    key[2] \in DOMAIN Batches(g)' /\ applied[key] = Batches(g)'[key[2]]
               /\ job'[g].done => \A i \in DOMAIN Batches(g)' : <<g, i>> \in DOMAIN applied
               /\ attempt.segment = g =>
                    /\ attempt.batches = Batches(g)'
                    /\ \A i \in 1..(attempt.next - 1) : <<g, i>> \in DOMAIN applied
    <3>1. CASE g \in DOMAIN segments
      BY <1>1, <1>2, <2>1, <3>1 DEF RunsStand
    <3>2. CASE g \notin DOMAIN segments
      BY <1>1, <1>3, <2>1, <3>2
    <3>3. QED
      BY <3>1, <3>2
  <2>2. \A g \in DOMAIN segments' :
          \/ job'[g].done \/ attempt.segment = g \/ (\E key \in DOMAIN applied : key[1] = g)
          => job'[g].attempts > 0
    BY <1>1, <1>3 DEF RunsStand
  <2>3. QED
    BY <2>1, <2>2 DEF RunsStand
<1>5. RunsKeepApart'
  <2>1. \A key \in DOMAIN applied : applied[key] \subseteq segments'[key[1]].members
    BY <1>1, <1>3 DEF RunsKeepApart
  <2>2. \A i \in DOMAIN attempt.batches :
          attempt.batches[i] \subseteq segments'[attempt.segment].members
    BY <1>1, <1>3 DEF RunsKeepApart, NoAttempt
  <2>3. QED
    BY <2>1, <2>2 DEF RunsKeepApart
<1>6. QED
  BY <1>4, <1>5

-----------------------------------------------------------------------------
(* Steps of the segmenter *)

\* Events that only have their fate settled.
LEMMA SettledEvents ==
  ASSUME NEW evs \in Seq(Events), NEW fate \in {"refused", "lost"}
  PROVE  /\ Settled(evs, fate) \in Seq(Events)
         /\ DOMAIN Settled(evs, fate) = DOMAIN evs
         /\ \A s \in DOMAIN evs : LET new == Settled(evs, fate)[s] IN
              /\ new.context = evs[s].context /\ new.text = evs[s].text
              /\ new.start = evs[s].start /\ new.end = evs[s].end
              /\ new.present = evs[s].present
              /\ new.fate = IF s \in ToSet(open.members) THEN fate ELSE evs[s].fate
<1>1. \A s \in DOMAIN evs : evs[s] \in Events
  OBVIOUS
<1>2. \A s \in DOMAIN evs : LET new == [evs[s] EXCEPT !.fate = fate] IN
        /\ new \in Events
        /\ new.context = evs[s].context /\ new.text = evs[s].text
        /\ new.start = evs[s].start /\ new.end = evs[s].end
        /\ new.present = evs[s].present /\ new.fate = fate
  BY <1>1 DEF Events
<1>3. DOMAIN Settled(evs, fate) = DOMAIN evs
  BY DEF Settled
<1>4. \A s \in DOMAIN evs :
        Settled(evs, fate)[s] = IF s \in ToSet(open.members) THEN [evs[s] EXCEPT !.fate = fate]
                                ELSE evs[s]
  BY DEF Settled
<1>5. Settled(evs, fate) \in [1..Len(evs) -> Events]
  <2>1. DOMAIN evs = 1..Len(evs)
    OBVIOUS
  <2>2. \A s \in DOMAIN evs : Settled(evs, fate)[s] \in Events
    BY <1>1, <1>2, <1>4
  <2>3. QED
    BY <1>3, <2>1, <2>2 DEF Settled
<1>6. Settled(evs, fate) \in Seq(Events)
  BY <1>5
<1>7. QED
  BY <1>2, <1>3, <1>4, <1>6

\* Where the draft goes: it is stored, or its sources are settled as refused.
LEMMA StoredEvents ==
  ASSUME NEW evs \in Seq(Events), Stored(evs)
  PROVE  /\ event' \in Seq(Events) /\ DOMAIN event' = DOMAIN evs
         /\ \A s \in DOMAIN evs :
              /\ event'[s].context = evs[s].context /\ event'[s].text = evs[s].text
              /\ event'[s].start = evs[s].start /\ event'[s].end = evs[s].end
              /\ event'[s].present = evs[s].present
         /\ \/ /\ Storable /\ event' = evs
               /\ segments' = Append(segments, Draft)
               /\ job' = Append(job, [attempts |-> 0, done |-> FALSE])
            \/ /\ UNCHANGED <<segments, job>>
               /\ \A s \in DOMAIN evs : event'[s].fate =
                    IF s \in ToSet(open.members) THEN "refused" ELSE evs[s].fate
<1>1. CASE Storable
  BY <1>1 DEF Stored, Draft
<1>2. CASE ~Storable
  <2>1. event' = Settled(evs, "refused") /\ UNCHANGED <<segments, job>>
    BY <1>2 DEF Stored
  <2>2. QED
    BY <2>1, SettledEvents
<1>3. QED
  BY <1>1, <1>2

\* The members leave the open segment for the one that is stored, or have no home; those
\* of x stay in the open one.
LEMMA StoredHomes ==
  ASSUME Shapes, NEW evs \in Seq(Events), NEW x, Stored(evs),
         x \cap ToSet(open.members) = {},
         OneHomeIn(evs, ToSet(open.members) \cup x, segments)
  PROVE  OneHomeIn(event', x, segments')
<1> DEFINE m == ToSet(open.members)
<1>1. segments \in Seq(Segments)
  BY DEF Shapes
<1>2. CASE event' = evs /\ segments' = Append(segments, Draft)
  <2>1. /\ DOMAIN segments' = (DOMAIN segments) \cup {Len(segments) + 1}
        /\ Len(segments) + 1 \notin DOMAIN segments
        /\ \A g \in DOMAIN segments : segments'[g] = segments[g]
        /\ segments'[Len(segments) + 1] = Draft
    BY <1>1, <1>2
  <2>2. Draft.members = m
    BY DEF Draft
  <2> HIDE DEF m
  <2>3. OneHomeIn(evs, m \cup x, segments) /\ x \cap m = {}
    BY DEF m
  <2>4. \A g \in DOMAIN segments' :
          \/ g \in DOMAIN segments /\ segments'[g].members = segments[g].members
          \/ g = Len(segments) + 1 /\ segments'[g].members = m
    BY <2>1, <2>2
  <2>5. \A s : (\E g \in DOMAIN segments' : s \in segments'[g].members)
               <=> s \in m \/ \E g \in DOMAIN segments : s \in segments[g].members
    BY <2>1, <2>2
  <2>6. \A g \in DOMAIN segments' : segments'[g].members \cap x = {}
    BY <2>3, <2>4 DEF OneHomeIn
  <2>7. \A g, h \in DOMAIN segments' :
          g # h => segments'[g].members \cap segments'[h].members = {}
    BY <2>3, <2>4 DEF OneHomeIn
  <2>8. \A s \in DOMAIN event' : event'[s].fate = "admitted" <=>
          s \in x \/ \E g \in DOMAIN segments' : s \in segments'[g].members
    BY <1>2, <2>3, <2>5 DEF OneHomeIn
  <2>9. QED
    BY <2>6, <2>7, <2>8 DEF OneHomeIn
<1>3. CASE /\ segments' = segments
           /\ \A s \in DOMAIN evs : event'[s].fate =
                IF s \in ToSet(open.members) THEN "refused" ELSE evs[s].fate
  <2>1. DOMAIN event' = DOMAIN evs
    BY StoredEvents
  <2>2. \A g \in DOMAIN segments : \A s \in m : s \notin segments[g].members
    BY DEF OneHomeIn
  <2>3. QED
    BY <1>3, <2>1, <2>2 DEF OneHomeIn
<1>4. QED
  BY <1>2, <1>3, StoredEvents

\* The types, when the worker rests.
LEMMA ShapesGrow ==
  ASSUME Shapes, Sources \subseteq Sources', event' \in Seq(Events),
         open' \in [members : Seq(Sources'), seen : SUBSET Texts, end : Times],
         UNCHANGED <<attempt, applied, thinned>>,
         \/ UNCHANGED <<segments, job>>
         \/ /\ IsOpen /\ segments' = Append(segments, Draft)
            /\ job' = Append(job, [attempts |-> 0, done |-> FALSE])
  PROVE  Shapes'
<1>1. /\ segments \in Seq(Segments) /\ job \in Seq(Jobs) /\ Len(job) = Len(segments)
      /\ open \in [members : Seq(Sources), seen : SUBSET Texts, end : Times]
  BY DEF Shapes
<1>2. Segments \subseteq Segments'
  BY DEF Segments
<1>3. IsOpen => Draft \in Segments
  <2>1. SUFFICES ASSUME IsOpen PROVE Draft \in Segments
    OBVIOUS
  <2>2. ToSet(open.members) \in SUBSET Sources /\ Head(open.members) \in Sources
    BY <1>1, <2>1 DEF ToSet, IsOpen
  <2>3. Opened.start \in Times
    BY <2>2, EventTypes DEF Opened, Events
  <2>4. QED
    BY <1>1, <2>2, <2>3 DEF Draft, Segments
<1>4. segments' \in Seq(Segments') /\ job' \in Seq(Jobs) /\ Len(job') = Len(segments')
      /\ DOMAIN segments \subseteq DOMAIN segments' /\ Len(segments) <= Len(segments')
  <2>1. segments \in Seq(Segments')
    BY <1>1, <1>2
  <2>2. CASE UNCHANGED <<segments, job>>
    BY <1>1, <2>1, <2>2
  <2>3. CASE /\ IsOpen /\ segments' = Append(segments, Draft)
             /\ job' = Append(job, [attempts |-> 0, done |-> FALSE])
    <3>1. Draft \in Segments' /\ [attempts |-> 0, done |-> FALSE] \in Jobs
      BY <1>2, <1>3, <2>3 DEF Jobs
    <3>2. QED
      BY <1>1, <2>1, <2>3, <3>1
  <2>4. QED
    BY <2>2, <2>3
<1>5. attempt' \in [segment : 0..Len(segments'), batches : Seq(SUBSET (Sources')), next : Nat \ {0}]
  <2>1. attempt \in [segment : 0..Len(segments), batches : Seq(SUBSET Sources), next : Nat \ {0}]
    BY DEF Shapes
  <2>2. attempt.batches \in Seq(SUBSET (Sources'))
    BY <2>1
  <2>3. Len(segments) \in Nat /\ Len(segments') \in Nat
    BY <1>1, <1>4
  <2>4. attempt.segment \in 0..Len(segments')
    BY <1>4, <2>1, <2>3
  <2>5. QED
    BY <2>1, <2>2, <2>4
<1>6. /\ attempt'.next <= Len(attempt'.batches) + 1
      /\ attempt'.segment = 0 => attempt' = NoAttempt
      /\ DOMAIN applied' \subseteq (DOMAIN segments') \X (Nat \ {0})
      /\ thinned' \subseteq DOMAIN segments'
  BY <1>4 DEF Shapes
<1>7. QED
  BY <1>4, <1>5, <1>6 DEF Shapes

\* The open segment as it was, of events that are kept.
LEMMA OpenStays ==
  ASSUME Shapes, OpenIsSound, Kept, UNCHANGED open
  PROVE  OpenIsSound'
<1>1. CASE IsOpen
  <2>1. ToSet(open.members) \in SUBSET Sources /\ Head(open.members) \in Sources
    BY <1>1 DEF Shapes, ToSet, IsOpen
  <2>2. /\ Stretch(event, ToSet(open.members), Opened.start, open.end)
        /\ \A s \in ToSet(open.members) : event[s].text \in open.seen
        /\ Opened.start <= open.end
        /\ \E o \in Sources : event[o].end = open.end /\ event[o].context = Opened.context
    BY <1>1 DEF OpenIsSound
  <2>3. Opened'.start = Opened.start /\ Opened'.context = Opened.context
    BY <2>1 DEF Opened, Kept
  <2>4. Stretch(event', ToSet(open.members), Opened.start, open.end)
    BY <2>1, <2>2, StretchKept
  <2>5. \A s \in ToSet(open.members) : event'[s].text \in open.seen
    BY <2>1, <2>2 DEF Kept
  <2>6. \E o \in Sources' : event'[o].end = open.end /\ event'[o].context = Opened.context
    BY <2>2 DEF Kept
  <2>7. QED
    BY <1>1, <2>2, <2>3, <2>4, <2>5, <2>6 DEF OpenIsSound, IsOpen
<1>2. CASE ~IsOpen
  BY <1>2 DEF OpenIsSound, IsOpen
<1>3. QED
  BY <1>1, <1>2

\* The event e arrives under the number s.
Arrives(e, s) ==
  /\ s = Len(event) + 1 /\ s \in Sources'
  /\ event'[s].context = e.context /\ event'[s].text = e.text
  /\ event'[s].start = e.start /\ event'[s].end = e.end

\* A segment that is opened with it.
LEMMA OpenAnew ==
  ASSUME NEW e \in NewEvents, NEW s, Arrives(e, s), open' = TakenIn(s, e, NoOpen)
  PROVE  OpenIsSound' /\ ToSet(open'.members) = {s}
<1>1. e.start \in Nat /\ e.end \in Nat /\ e.start <= e.end
  BY IntakeAssumption DEF NewEvents, Times
<1>2. open' = [members |-> <<s>>, seen |-> {e.text}, end |-> e.end]
  <2>1. Append(<< >>, s) = <<s>> /\ {} \cup {e.text} = {e.text}
    OBVIOUS
  <2>2. (IF 0 < e.end THEN e.end ELSE 0) = e.end
    BY <1>1
  <2>3. QED
    BY <2>1, <2>2 DEF TakenIn, NoOpen
<1>3. ToSet(open'.members) = {s} /\ Head(open'.members) = s /\ IsOpen'
  BY <1>2 DEF ToSet, IsOpen
<1>4. Opened' = event'[s]
  BY <1>3 DEF Opened
<1>5. Stretch(event', {s}, e.start, e.end)
  BY <1>1 DEF Stretch, Arrives
<1>6. Opened'.start = e.start /\ Opened'.context = e.context
  BY <1>4 DEF Arrives
<1>7. Stretch(event', ToSet(open'.members), Opened'.start, open'.end)
  BY <1>2, <1>3, <1>5, <1>6
<1>8. \A o \in ToSet(open'.members) : event'[o].text \in open'.seen
  BY <1>2, <1>3 DEF Arrives
<1>9. \E o \in Sources' : event'[o].end = open'.end /\ event'[o].context = Opened'.context
  BY <1>2, <1>6 DEF Arrives
<1>10. OpenIsSound'
  BY <1>1, <1>2, <1>3, <1>6, <1>7, <1>8, <1>9 DEF OpenIsSound
<1>11. QED
  BY <1>3, <1>10

\* The open segment with one event more, which comes without a boundary.
LEMMA OpenGrows ==
  ASSUME Shapes, OpenIsSound, IsOpen, Kept, NEW e \in NewEvents, NEW s, Arrives(e, s),
         e.start >= open.end, ~Boundary(e), open' = TakenIn(s, e, open)
  PROVE  /\ OpenIsSound'
         /\ ToSet(open'.members) =
              ToSet(open.members) \cup IF e.text \in open.seen THEN {} ELSE {s}
<1> DEFINE m == ToSet(open.members)
           from == Opened.start
<1>1. /\ open.members \in Seq(Sources) /\ open.members # << >> /\ open.end \in Nat
      /\ m \in SUBSET Sources /\ Head(open.members) \in m
  BY IntakeAssumption DEF Shapes, ToSet, IsOpen, Times
<1>2. e.start \in Nat /\ e.end \in Nat /\ e.start <= e.end
  BY IntakeAssumption DEF NewEvents, Times
<1>3. /\ Stretch(event', m, from, open.end)
      /\ \A o \in m : event'[o].text \in open.seen
      /\ from <= open.end /\ from \in Nat
      /\ \E o \in Sources : event'[o].end = open.end /\ event'[o].context = Opened.context
      /\ \A o \in m : event'[o].context = Opened.context
      /\ \A o \in Sources : event'[o].end \in Nat /\ event'[o].start \in Nat
  <2>1. Stretch(event, m, from, open.end)
    BY DEF OpenIsSound
  <2>2. Stretch(event', m, from, open.end)
    BY <1>1, <2>1, StretchKept
  <2>3. \A o \in m : event'[o].context = Opened.context
    BY <1>1, <2>1 DEF Kept, Stretch, Opened
  <2>4. from \in Nat
    BY <1>1, EventTypes DEF Opened
  <2>5. \A o \in Sources : event'[o].end \in Nat /\ event'[o].start \in Nat
    BY EventTypes DEF Kept
  <2>6. QED
    BY <1>1, <2>2, <2>3, <2>4, <2>5 DEF OpenIsSound, Kept
<1>4. /\ e.context = Opened.context
      /\ ~(e.start - open.end >= Inactivity)
  BY DEF Boundary
<1>5. open'.end = e.end /\ open'.seen = open.seen \cup {e.text}
  BY <1>1, <1>2 DEF TakenIn
<1>6. open'.members = IF e.text \in open.seen THEN open.members ELSE Append(open.members, s)
  BY DEF TakenIn
<1>7. /\ ToSet(open'.members) = m \cup IF e.text \in open.seen THEN {} ELSE {s}
      /\ Head(open'.members) = Head(open.members) /\ IsOpen'
  <2>1. CASE e.text \in open.seen
    BY <1>6, <2>1 DEF IsOpen
  <2>2. CASE e.text \notin open.seen
    <3>1. open'.members = Append(open.members, s)
      BY <1>6, <2>2
    <3>2. /\ DOMAIN open'.members = (DOMAIN open.members) \cup {Len(open.members) + 1}
          /\ \A i \in DOMAIN open.members : open'.members[i] = open.members[i]
          /\ open'.members[Len(open.members) + 1] = s /\ open'.members # << >>
          /\ Head(open'.members) = Head(open.members)
      BY <1>1, <3>1
    <3>3. ToSet(open'.members) = m \cup {s}
      BY <3>2 DEF ToSet
    <3>4. QED
      BY <2>2, <3>2, <3>3 DEF IsOpen
  <2>3. QED
    BY <2>1, <2>2
<1>8. Opened'.start = from /\ Opened'.context = Opened.context
  <2>1. Opened' = event'[Head(open.members)] /\ Opened = event[Head(open.members)]
    BY <1>7 DEF Opened
  <2>2. QED
    BY <1>1, <2>1 DEF Kept
<1> HIDE DEF m, from
<1>9. Stretch(event', m, from, e.end)
  <2>1. \A o \in m : event'[o].end \in Nat /\ event'[o].end <= open.end
    BY <1>1, <1>3 DEF Stretch
  <2>2. \A o \in m : event'[o].end <= e.end
    BY <1>1, <1>2, <2>1
  <2>3. QED
    BY <1>3, <2>2 DEF Stretch
<1>10. ASSUME e.text \notin open.seen PROVE Stretch(event', m \cup {s}, from, e.end)
  <2>1. \A o \in m : /\ event'[o].context = event'[s].context
                     /\ event'[o].text # event'[s].text
    BY <1>3, <1>4, <1>10 DEF Arrives
  <2>2. event'[s].start >= from /\ event'[s].end <= e.end
    BY <1>1, <1>2, <1>3 DEF Arrives
  <2>3. \E o \in 1..(s - 1) : /\ event'[o].context = event'[s].context
                              /\ event'[s].start - event'[o].end < Inactivity
    <3>1. PICK o \in Sources : event'[o].end = open.end /\ event'[o].context = Opened.context
      BY <1>3
    <3>2. o \in 1..(s - 1)
      BY EventTypes DEF Arrives
    <3>3. event'[s].start - event'[o].end < Inactivity
      BY <1>1, <1>2, <1>4, <3>1, IntakeAssumption DEF Arrives
    <3>4. QED
      BY <1>4, <3>1, <3>2, <3>3 DEF Arrives
  <2>4. QED
    BY <1>9, <2>1, <2>2, <2>3 DEF Stretch
<1>11. Stretch(event', ToSet(open'.members), from, open'.end)
  BY <1>5, <1>7, <1>9, <1>10
<1>12. \A o \in ToSet(open'.members) : event'[o].text \in open'.seen
  BY <1>3, <1>5, <1>7 DEF Arrives
<1>13. from <= open'.end
  BY <1>1, <1>2, <1>3, <1>5
<1>14. event'[s].end = open'.end /\ event'[s].context = Opened.context /\ s \in Sources'
  BY <1>4, <1>5 DEF Arrives
<1>15. OpenIsSound'
  BY <1>7, <1>8, <1>11, <1>12, <1>13, <1>14 DEF OpenIsSound
<1>16. QED
  BY <1>7, <1>15 DEF m

\* What observing adds: an event of the fate given.
Of(e, fate) == [e EXCEPT !.fate = fate]

LEMMA Added ==
  ASSUME Shapes, NEW e \in NewEvents, NEW fate \in {"admitted", "repeat", "late"},
         NEW evs, evs = Append(event, Of(e, fate))
  PROVE  /\ evs \in Seq(Events) /\ DOMAIN evs = Sources \cup {Len(event) + 1}
         /\ Len(event) + 1 \notin Sources
         /\ \A s \in Sources : evs[s] = event[s]
         /\ LET new == evs[Len(event) + 1] IN
              /\ new.context = e.context /\ new.text = e.text
              /\ new.start = e.start /\ new.end = e.end /\ new.fate = fate
<1> DEFINE new == Of(e, fate)
<1>1. event \in Seq(Events) /\ Sources = 1..Len(event) /\ Len(event) \in Nat
  BY EventTypes DEF Shapes
<1>2. /\ new \in Events
      /\ new.context = e.context /\ new.text = e.text
      /\ new.start = e.start /\ new.end = e.end /\ new.fate = fate
  BY DEF NewEvents, Events, Of
<1> HIDE DEF new
<1>3. evs = Append(event, new)
  BY DEF new
<1>4. /\ evs \in Seq(Events) /\ DOMAIN evs = 1..Len(event) + 1
      /\ \A s \in 1..Len(event) : evs[s] = event[s]
      /\ evs[Len(event) + 1] = new
  BY <1>1, <1>2, <1>3
<1>5. QED
  BY <1>1, <1>2, <1>4

\* What is open after an event was taken in has its type.
LEMMA OpenTypes ==
  ASSUME Shapes, NEW e \in NewEvents, NEW before, Sources \subseteq Sources',
         Len(event) + 1 \in Sources', before \in {open, NoOpen}
  PROVE  TakenIn(Len(event) + 1, e, before) \in
           [members : Seq(Sources'), seen : SUBSET Texts, end : Times]
<1>1. open \in [members : Seq(Sources), seen : SUBSET Texts, end : Times]
  BY DEF Shapes
<1>2. before \in [members : Seq(Sources'), seen : SUBSET Texts, end : Times]
  <2>1. open.members \in Seq(Sources')
    BY <1>1
  <2>2. CASE before = open
    BY <1>1, <2>1, <2>2
  <2>3. CASE before = NoOpen
    BY <2>3, IntakeAssumption DEF NoOpen, Times
  <2>4. QED
    BY <2>2, <2>3
<1>3. e.text \in Texts /\ e.end \in Times
  BY DEF NewEvents
<1>4. Append(before.members, Len(event) + 1) \in Seq(Sources')
  BY <1>2
<1>5. QED
  BY <1>2, <1>3, <1>4 DEF TakenIn

LEMMA ObserveKeeps ==
  ASSUME IInv, NEW e \in NewEvents, Observe(e)
  PROVE  IInv'
<1> DEFINE s == Len(event) + 1
           as(fate) == Append(event, [e EXCEPT !.fate = fate])
<1>0. Shapes /\ OpenIsSound /\ OneHome /\ SegmentsAreSound /\ RunsStand /\ RunsKeepApart
  BY DEF IInv
<1>1. /\ UNCHANGED <<attempt, applied, thinned>>
      /\ \/ /\ IsOpen /\ event' = as("late") /\ UNCHANGED <<open, segments, job>>
         \/ /\ IsOpen /\ Stored(as("admitted")) /\ open' = TakenIn(s, e, NoOpen)
         \/ /\ IsOpen => e.start >= open.end /\ ~Boundary(e)
            /\ event' = as(IF e.text \in open.seen THEN "repeat" ELSE "admitted")
            /\ open' = TakenIn(s, e, open)
            /\ UNCHANGED <<segments, job>>
  BY DEF Observe
<1>2. OneHomeIn(event, ToSet(open.members), segments)
  BY <1>0 DEF OneHome
<1>3. /\ open.members \in Seq(Sources) /\ ToSet(open.members) \in SUBSET Sources
      /\ \A g \in DOMAIN segments : segments[g].members \in SUBSET Sources
  BY <1>0, SegmentTypes DEF Shapes, ToSet
<1> HIDE DEF s, as
<1>4. ASSUME NEW fate \in {"admitted", "repeat", "late"}
      PROVE  /\ as(fate) \in Seq(Events) /\ DOMAIN as(fate) = Sources \cup {s} /\ s \notin Sources
             /\ \A o \in Sources : as(fate)[o] = event[o]
             /\ as(fate)[s].context = e.context /\ as(fate)[s].text = e.text
             /\ as(fate)[s].start = e.start /\ as(fate)[s].end = e.end
             /\ as(fate)[s].fate = fate
  <2>1. s = Len(event) + 1 /\ as(fate) = Append(event, Of(e, fate))
    BY DEF as, s, Of
  <2>2. Shapes
    BY <1>0
  <2>3. \A evs : evs = Append(event, Of(e, fate)) =>
          /\ evs \in Seq(Events) /\ DOMAIN evs = Sources \cup {Len(event) + 1}
          /\ Len(event) + 1 \notin Sources
          /\ \A o \in Sources : evs[o] = event[o]
          /\ LET new == evs[Len(event) + 1] IN
               /\ new.context = e.context /\ new.text = e.text
               /\ new.start = e.start /\ new.end = e.end /\ new.fate = fate
    BY ONLY <2>2, Added, e \in NewEvents, fate \in {"admitted", "repeat", "late"}
  <2>4. QED
    BY ONLY <2>1, <2>3
<1>5. CASE IsOpen /\ event' = as("late") /\ UNCHANGED <<open, segments, job>>
  <2>1. Kept /\ TextsKept /\ Sources \subseteq Sources'
    BY <1>4, <1>5 DEF Kept, TextsKept, Sources
  <2>2. Shapes'
    <3>1. event' \in Seq(Events)
      BY <1>4, <1>5
    <3>2. open' \in [members : Seq(Sources'), seen : SUBSET Texts, end : Times]
      BY <1>0, <1>5, <2>1 DEF Shapes
    <3>3. QED
      BY <1>0, <1>1, <1>5, <2>1, <3>1, <3>2, ShapesGrow
  <2>3. OpenIsSound'
    BY <1>0, <1>5, <2>1, OpenStays
  <2>4. OneHomeIn(event', ToSet(open.members), segments)
    <3>1. /\ DOMAIN event' = Sources \cup {s} /\ s \notin Sources
          /\ \A o \in Sources : event'[o].fate = event[o].fate
          /\ event'[s].fate # "admitted"
      BY <1>4, <1>5
    <3>2. s \notin ToSet(open.members) /\ \A g \in DOMAIN segments : s \notin segments[g].members
      BY <1>3, <3>1
    <3>3. QED
      BY <1>2, <3>1, <3>2 DEF OneHomeIn, Sources
  <2>5. SegmentsAreSound' /\ RunsStand' /\ RunsKeepApart'
    BY <1>0, <1>1, <1>5, <2>1, <2>2, SegmentsStaySound, RunsKept
  <2>6. QED
    BY <1>5, <2>2, <2>3, <2>4, <2>5 DEF IInv, OneHome
<1>6. CASE IsOpen /\ Stored(as("admitted")) /\ open' = TakenIn(s, e, NoOpen)
  <2> DEFINE evs == as("admitted")
  <2>1. /\ evs \in Seq(Events) /\ DOMAIN evs = Sources \cup {s} /\ s \notin Sources
        /\ \A o \in Sources : evs[o] = event[o]
        /\ evs[s].context = e.context /\ evs[s].text = e.text
        /\ evs[s].start = e.start /\ evs[s].end = e.end /\ evs[s].fate = "admitted"
    BY <1>4
  <2> HIDE DEF evs
  <2>2. Stored(evs)
    BY <1>6 DEF evs
  <2>3. /\ event' \in Seq(Events) /\ DOMAIN event' = Sources \cup {s}
        /\ \A o \in Sources \cup {s} :
             /\ event'[o].context = evs[o].context /\ event'[o].text = evs[o].text
             /\ event'[o].start = evs[o].start /\ event'[o].end = evs[o].end
             /\ event'[o].present = evs[o].present
        /\ \/ /\ Storable /\ segments' = Append(segments, Draft)
              /\ job' = Append(job, [attempts |-> 0, done |-> FALSE])
           \/ UNCHANGED <<segments, job>>
    BY <2>1, <2>2, StoredEvents
  <2>4. Kept /\ TextsKept /\ Sources \subseteq Sources' /\ Arrives(e, s)
    BY <2>1, <2>3 DEF Kept, TextsKept, Sources, Arrives, s
  <2>5. Shapes'
    <3>1. open' \in [members : Seq(Sources'), seen : SUBSET Texts, end : Times]
      BY <1>0, <1>6, <2>4, OpenTypes DEF s, Arrives
    <3>2. QED
      BY <1>0, <1>1, <1>6, <2>3, <2>4, <3>1, ShapesGrow
  <2>6. OpenIsSound' /\ ToSet(open'.members) = {s}
    BY <1>6, <2>4, OpenAnew
  <2>7. OneHomeIn(event', {s}, segments')
    <3>1. OneHomeIn(evs, ToSet(open.members) \cup {s}, segments)
      BY <1>2, <1>3, <2>1 DEF OneHomeIn, Sources
    <3>2. {s} \cap ToSet(open.members) = {}
      BY <1>3, <2>1
    <3>3. QED
      BY <1>0, <2>1, <2>2, <3>1, <3>2, StoredHomes
  <2>8. SegmentsAreSound' /\ RunsStand' /\ RunsKeepApart'
    BY <1>0, <1>1, <1>6, <2>3, <2>4, <2>5, SegmentsStaySound, RunsKept
  <2>9. QED
    BY <2>5, <2>6, <2>7, <2>8 DEF IInv, OneHome
<1>7. CASE /\ IsOpen => e.start >= open.end /\ ~Boundary(e)
           /\ event' = as(IF e.text \in open.seen THEN "repeat" ELSE "admitted")
           /\ open' = TakenIn(s, e, open)
           /\ UNCHANGED <<segments, job>>
  <2> DEFINE fate == IF e.text \in open.seen THEN "repeat" ELSE "admitted"
  <2>1. /\ event' \in Seq(Events) /\ DOMAIN event' = Sources \cup {s} /\ s \notin Sources
        /\ \A o \in Sources : event'[o] = event[o]
        /\ event'[s].context = e.context /\ event'[s].text = e.text
        /\ event'[s].start = e.start /\ event'[s].end = e.end
        /\ event'[s].fate = fate
    BY <1>4, <1>7
  <2>2. Kept /\ TextsKept /\ Sources \subseteq Sources' /\ Arrives(e, s)
    BY <2>1 DEF Kept, TextsKept, Sources, Arrives, s
  <2>3. Shapes'
    <3>1. open' \in [members : Seq(Sources'), seen : SUBSET Texts, end : Times]
      BY <1>0, <1>7, <2>2, OpenTypes DEF s, Arrives
    <3>2. QED
      BY <1>0, <1>1, <1>7, <2>1, <2>2, <3>1, ShapesGrow
  <2>4. /\ OpenIsSound'
        /\ ToSet(open'.members) =
             ToSet(open.members) \cup IF e.text \in open.seen THEN {} ELSE {s}
    <3>1. CASE IsOpen
      BY <1>0, <1>7, <2>2, <3>1, OpenGrows
    <3>2. CASE ~IsOpen
      <4>1. open = NoOpen /\ ToSet(open.members) = {} /\ e.text \notin open.seen
        BY <1>0, <3>2 DEF OpenIsSound, NoOpen, ToSet
      <4>2. OpenIsSound' /\ ToSet(open'.members) = {s}
        BY <1>7, <2>2, <4>1, OpenAnew
      <4>3. QED
        BY <4>1, <4>2
    <3>3. QED
      BY <3>1, <3>2
  <2>5. OneHomeIn(event', ToSet(open'.members), segments)
    <3>1. CASE e.text \in open.seen
      BY <1>2, <1>3, <2>1, <2>4, <3>1 DEF OneHomeIn, Sources
    <3>2. CASE e.text \notin open.seen
      BY <1>2, <1>3, <2>1, <2>4, <3>2 DEF OneHomeIn, Sources
    <3>3. QED
      BY <3>1, <3>2
  <2>6. SegmentsAreSound' /\ RunsStand' /\ RunsKeepApart'
    BY <1>0, <1>1, <1>7, <2>2, <2>3, SegmentsStaySound, RunsKept
  <2>7. QED
    BY <1>7, <2>3, <2>4, <2>5, <2>6 DEF IInv, OneHome
<1>8. QED
  BY <1>1, <1>5, <1>6, <1>7

\* The open segment is stored, refused or lost.
LEMMA CloseKeeps ==
  ASSUME IInv, CloseSegment
  PROVE  IInv'
<1>0. Shapes /\ OpenIsSound /\ OneHome /\ SegmentsAreSound /\ RunsStand /\ RunsKeepApart
  BY DEF IInv
<1>1. IsOpen /\ Stored(event) /\ open' = NoOpen /\ UNCHANGED <<attempt, applied, thinned>>
  BY DEF CloseSegment
<1>2. event \in Seq(Events)
  BY <1>0 DEF Shapes
<1>3. /\ event' \in Seq(Events) /\ DOMAIN event' = Sources
      /\ \A o \in Sources :
           /\ event'[o].context = event[o].context /\ event'[o].text = event[o].text
           /\ event'[o].start = event[o].start /\ event'[o].end = event[o].end
           /\ event'[o].present = event[o].present
      /\ \/ /\ Storable /\ segments' = Append(segments, Draft)
            /\ job' = Append(job, [attempts |-> 0, done |-> FALSE])
         \/ UNCHANGED <<segments, job>>
  BY <1>1, <1>2, StoredEvents DEF Sources
<1>4. Kept /\ TextsKept /\ Sources \subseteq Sources'
  BY <1>3 DEF Kept, TextsKept, Sources
<1>5. ToSet(open'.members) = {} /\ OpenIsSound'
  BY <1>1 DEF OpenIsSound, IsOpen, NoOpen, ToSet
<1>6. Shapes'
  <2>1. open' \in [members : Seq(Sources'), seen : SUBSET Texts, end : Times]
    BY <1>1, IntakeAssumption DEF NoOpen, Times
  <2>2. QED
    BY <1>0, <1>1, <1>3, <1>4, <2>1, ShapesGrow
<1>7. OneHomeIn(event', {}, segments')
  <2>1. OneHomeIn(event, ToSet(open.members) \cup {}, segments)
    BY <1>0 DEF OneHome, OneHomeIn
  <2>2. QED
    BY <1>0, <1>1, <1>2, <2>1, StoredHomes
<1>8. SegmentsAreSound' /\ RunsStand' /\ RunsKeepApart'
  BY <1>0, <1>1, <1>3, <1>4, <1>6, SegmentsStaySound, RunsKept
<1>9. QED
  BY <1>5, <1>6, <1>7, <1>8 DEF IInv, OneHome

\* What was open is lost, and the attempt with it.
LEMMA CrashKeeps ==
  ASSUME IInv, Crash
  PROVE  IInv'
<1>0. Shapes /\ OpenIsSound /\ OneHome /\ SegmentsAreSound /\ RunsStand /\ RunsKeepApart
  BY DEF IInv
<1>1. /\ event' = Settled(event, "lost") /\ open' = NoOpen /\ attempt' = NoAttempt
      /\ UNCHANGED <<segments, job, applied, thinned>>
  BY DEF Crash
<1>2. /\ event' \in Seq(Events) /\ DOMAIN event' = Sources
      /\ \A s \in Sources :
           /\ event'[s].context = event[s].context /\ event'[s].text = event[s].text
           /\ event'[s].start = event[s].start /\ event'[s].end = event[s].end
           /\ event'[s].present = event[s].present
           /\ event'[s].fate = IF s \in ToSet(open.members) THEN "lost" ELSE event[s].fate
  <2>1. event \in Seq(Events)
    BY <1>0 DEF Shapes
  <2>2. QED
    BY <1>1, <2>1, SettledEvents DEF Sources
<1>3. Kept /\ TextsKept /\ Sources' = Sources
  BY <1>2 DEF Kept, TextsKept, Sources
<1>4. ToSet(open'.members) = {} /\ OpenIsSound'
  BY <1>1 DEF OpenIsSound, IsOpen, NoOpen, ToSet
<1>5. Shapes'
  <2>1. open' \in [members : Seq(Sources'), seen : SUBSET Texts, end : Times]
    BY <1>1, IntakeAssumption DEF NoOpen, Times
  <2>2. segments' \in Seq(Segments')
    BY <1>0, <1>1, <1>3 DEF Shapes, Segments
  <2>3. /\ attempt' \in [segment : 0..Len(segments), batches : Seq(SUBSET (Sources')),
                         next : Nat \ {0}]
        /\ attempt'.next <= Len(attempt'.batches) + 1
    BY <1>0, <1>1 DEF Shapes, NoAttempt
  <2>4. QED
    BY <1>0, <1>1, <1>2, <2>1, <2>2, <2>3 DEF Shapes
<1>6. OneHomeIn(event', {}, segments')
  BY <1>0, <1>1, <1>2 DEF OneHome, OneHomeIn, Sources
<1>7. SegmentsAreSound'
  BY <1>0, <1>1, <1>3, <1>5, SegmentsStaySound
<1>8. RunsStand' /\ RunsKeepApart'
  <2>1. \A g \in DOMAIN segments : Batches(g)' = Batches(g) /\ g # 0
    BY <1>0, <1>1, <1>3, BatchesStay DEF Shapes
  <2>2. attempt'.segment = 0 /\ DOMAIN attempt'.batches = {}
    BY <1>1 DEF NoAttempt
  <2>3. QED
    BY <1>0, <1>1, <2>1, <2>2 DEF RunsStand, RunsKeepApart
<1>9. QED
  BY <1>4, <1>5, <1>6, <1>7, <1>8 DEF IInv, OneHome

-----------------------------------------------------------------------------
(* Steps of the worker *)

\* What the worker leaves alone stays as it is.
LEMMA WorkerKeeps ==
  ASSUME IInv, UNCHANGED <<event, open, segments, thinned>>, job' \in Seq(Jobs),
         Len(job') = Len(job),
         attempt' \in [segment : 0..Len(segments), batches : Seq(SUBSET Sources),
                       next : Nat \ {0}],
         attempt'.next <= Len(attempt'.batches) + 1,
         attempt'.segment = 0 => attempt' = NoAttempt,
         DOMAIN applied' \subseteq (DOMAIN segments) \X (Nat \ {0})
  PROVE  /\ Shapes' /\ OpenIsSound' /\ OneHome' /\ SegmentsAreSound'
         /\ \A g \in DOMAIN segments : Batches(g)' = Batches(g)
<1>1. Shapes /\ OpenIsSound /\ OneHome /\ SegmentsAreSound
  BY DEF IInv
<1>2. Sources' = Sources /\ Segments' = Segments
  BY DEF Sources, Segments
<1>3. Shapes'
  BY <1>1, <1>2 DEF Shapes
<1>4. Kept /\ TextsKept
  BY <1>2 DEF Kept, TextsKept
<1>5. OpenIsSound'
  BY <1>1, <1>4, OpenStays
<1>6. OneHome'
  BY <1>1 DEF OneHome, OneHomeIn
<1>7. SegmentsAreSound'
  BY <1>1, <1>3, <1>4, SegmentsStaySound
<1>8. \A g \in DOMAIN segments : Batches(g)' = Batches(g)
  BY <1>1, <1>4, BatchesStay
<1>9. QED
  BY <1>3, <1>5, <1>6, <1>7, <1>8

LEMMA BeginAttemptKeeps ==
  ASSUME IInv, NEW g \in DOMAIN segments, BeginAttempt(g)
  PROVE  IInv'
<1>0. Shapes /\ RunsStand /\ RunsKeepApart
  BY DEF IInv
<1>1. /\ attempt = NoAttempt /\ ~job[g].done
      /\ attempt' = [segment |-> g, batches |-> Batches(g), next |-> 1]
      /\ job' = [job EXCEPT ![g].attempts = @ + 1]
      /\ UNCHANGED <<event, open, segments, applied, thinned>>
  BY DEF BeginAttempt
<1>2. /\ Batches(g) \in Seq(SUBSET Readable(g)) /\ Readable(g) \subseteq Sources
      /\ Readable(g) \subseteq segments[g].members
  BY <1>0, ReadableIsTimed, BatchesCover DEF Readable
<1>3. /\ segments \in Seq(Segments) /\ job \in Seq(Jobs) /\ Len(job) = Len(segments)
      /\ g \in 1..Len(segments) /\ DOMAIN applied \subseteq (DOMAIN segments) \X (Nat \ {0})
  BY <1>0 DEF Shapes
<1>4. /\ job' \in Seq(Jobs) /\ Len(job') = Len(job) /\ DOMAIN job = DOMAIN segments
      /\ \A h \in DOMAIN segments :
           job'[h].done = job[h].done /\ job'[h].attempts >= job[h].attempts
      /\ job'[g].attempts > 0
  <2>1. job[g] \in Jobs
    BY <1>3
  <2>2. [job[g] EXCEPT !.attempts = @ + 1] \in Jobs
        /\ [job[g] EXCEPT !.attempts = @ + 1].done = job[g].done
        /\ [job[g] EXCEPT !.attempts = @ + 1].attempts = job[g].attempts + 1
        /\ job[g].attempts \in Nat
    BY <2>1 DEF Jobs
  <2>3. /\ DOMAIN job = DOMAIN segments /\ DOMAIN job' = DOMAIN job
        /\ job'[g] = [job[g] EXCEPT !.attempts = @ + 1]
        /\ \A h \in DOMAIN segments : h # g => job'[h] = job[h]
    BY <1>1, <1>3
  <2>4. \A h \in DOMAIN segments : job[h].attempts \in Nat
    <3>1. \A h \in DOMAIN segments : job[h] \in Jobs
      BY <1>3
    <3>2. QED
      BY <3>1 DEF Jobs
  <2>5. job' \in Seq(Jobs) /\ Len(job') = Len(job)
    BY <1>1, <1>3, <2>2
  <2>6. /\ job'[g].done = job[g].done /\ job'[g].attempts >= job[g].attempts
        /\ job'[g].attempts > 0
    BY <2>2, <2>3
  <2>7. \A h \in DOMAIN segments :
          job'[h].done = job[h].done /\ job'[h].attempts >= job[h].attempts
    <3> TAKE h \in DOMAIN segments
    <3>1. CASE h = g
      BY <2>3, <2>6, <3>1
    <3>2. CASE h # g
      BY <2>3, <2>4, <3>2
    <3>3. QED
      BY <3>1, <3>2
  <2>8. QED
    BY <2>3, <2>5, <2>6, <2>7
<1>5. /\ attempt' \in [segment : 0..Len(segments), batches : Seq(SUBSET Sources),
                       next : Nat \ {0}]
      /\ attempt'.next <= Len(attempt'.batches) + 1 /\ attempt'.segment # 0
  <2>1. Batches(g) \in Seq(SUBSET Sources)
    BY <1>2
  <2>2. QED
    BY <1>1, <1>3, <2>1
<1>6. /\ Shapes' /\ OpenIsSound' /\ OneHome' /\ SegmentsAreSound'
      /\ \A h \in DOMAIN segments : Batches(h)' = Batches(h)
  BY <1>1, <1>3, <1>4, <1>5, WorkerKeeps
<1>7. attempt'.segment = g /\ attempt'.batches = Batches(g) /\ attempt'.next = 1
  BY <1>1
<1>8. RunsStand'
  <2>1. \A h \in (DOMAIN segments) \ thinned :
          /\ \A key \in DOMAIN applied : key[1] = h =>
               key[2] \in DOMAIN Batches(h) /\ applied[key] = Batches(h)[key[2]]
          /\ job'[h].done => \A i \in DOMAIN Batches(h) : <<h, i>> \in DOMAIN applied
          /\ attempt'.segment = h =>
               /\ attempt'.batches = Batches(h)
               /\ \A i \in 1..(attempt'.next - 1) : <<h, i>> \in DOMAIN applied
    BY <1>0, <1>4, <1>7 DEF RunsStand
  <2>2. \A h \in DOMAIN segments :
          \/ job'[h].done \/ attempt'.segment = h \/ (\E key \in DOMAIN applied : key[1] = h)
          => job'[h].attempts > 0
    <3>1. \A h \in DOMAIN segments : job[h].attempts \in Nat /\ job'[h].attempts \in Nat
      <4>1. \A h \in DOMAIN segments : job[h] \in Jobs /\ job'[h] \in Jobs
        BY <1>3, <1>4
      <4>2. QED
        BY <4>1 DEF Jobs
    <3>2. QED
      BY <1>0, <1>4, <1>7, <3>1 DEF RunsStand
  <2>3. QED
    BY <1>1, <1>6, <2>1, <2>2 DEF RunsStand
<1>9. RunsKeepApart'
  BY <1>0, <1>1, <1>2, <1>7 DEF RunsKeepApart
<1>10. QED
  BY <1>6, <1>8, <1>9 DEF IInv

\* The attempt that is under way is on a segment.
LEMMA WorkingOnOne ==
  ASSUME Shapes, Working
  PROVE  /\ attempt.segment \in DOMAIN segments /\ attempt.segment # 0
         /\ attempt.batches \in Seq(SUBSET Sources) /\ attempt.next \in Nat \ {0}
BY DEF Shapes, Working

LEMMA ApplyBatchKeeps ==
  ASSUME IInv, ApplyBatch
  PROVE  IInv'
<1>0. Shapes /\ RunsStand /\ RunsKeepApart
  BY DEF IInv
<1> DEFINE g == attempt.segment
           n == attempt.next
<1>1. /\ Working /\ n <= Len(attempt.batches)
      /\ applied' = [run \in (DOMAIN applied) \cup {<<g, n>>} |->
                       IF run \in DOMAIN applied THEN applied[run] ELSE attempt.batches[n]]
      /\ attempt' = [attempt EXCEPT !.next = @ + 1]
      /\ UNCHANGED <<event, open, segments, job, thinned>>
  BY DEF ApplyBatch, HasNext, RunId, Batch
<1>2. /\ g \in DOMAIN segments /\ g # 0 /\ n \in Nat \ {0} /\ n \in DOMAIN attempt.batches
      /\ attempt.batches \in Seq(SUBSET Sources)
  BY <1>0, <1>1, WorkingOnOne
<1>3. /\ attempt \in [segment : 0..Len(segments), batches : Seq(SUBSET Sources),
                      next : Nat \ {0}]
      /\ job \in Seq(Jobs) /\ DOMAIN applied \subseteq (DOMAIN segments) \X (Nat \ {0})
  BY <1>0 DEF Shapes
<1>4. attempt'.segment = g /\ attempt'.batches = attempt.batches /\ attempt'.next = n + 1
      /\ attempt' \in [segment : 0..Len(segments), batches : Seq(SUBSET Sources),
                       next : Nat \ {0}]
  <2>1. attempt' = [attempt EXCEPT !.next = @ + 1]
    BY <1>1
  <2>2. QED
    BY ONLY <1>3, <2>1
<1>5. /\ DOMAIN applied' = (DOMAIN applied) \cup {<<g, n>>}
      /\ \A key \in DOMAIN applied : applied'[key] = applied[key]
      /\ <<g, n>> \in DOMAIN applied \/ applied'[<<g, n>>] = attempt.batches[n]
  BY <1>1
<1> HIDE DEF g, n
<1>6. DOMAIN applied' \subseteq (DOMAIN segments) \X (Nat \ {0})
  BY <1>2, <1>3, <1>5
<1>7. /\ Shapes' /\ OpenIsSound' /\ OneHome' /\ SegmentsAreSound'
      /\ \A h \in DOMAIN segments : Batches(h)' = Batches(h)
  <2>1. UNCHANGED <<event, open, segments, thinned>>
    BY <1>1
  <2>2. job' \in Seq(Jobs) /\ Len(job') = Len(job)
    BY <1>1, <1>3
  <2>3. attempt'.segment # 0
    BY <1>2, <1>4
  <2>4. attempt'.next <= Len(attempt'.batches) + 1
    BY <1>1, <1>2, <1>4 DEF n
  <2>5. QED
    BY <1>4, <1>6, <2>1, <2>2, <2>3, <2>4, WorkerKeeps
<1>8. RunsStand'
  <2>1. ASSUME NEW h \in (DOMAIN segments) \ thinned
        PROVE  /\ \A key \in DOMAIN applied' : key[1] = h =>
                    key[2] \in DOMAIN Batches(h) /\ applied'[key] = Batches(h)[key[2]]
               /\ job[h].done => \A i \in DOMAIN Batches(h) : <<h, i>> \in DOMAIN applied'
               /\ attempt'.segment = h =>
                    /\ attempt'.batches = Batches(h)
                    /\ \A i \in 1..(attempt'.next - 1) : <<h, i>> \in DOMAIN applied'
    <3>1. /\ \A key \in DOMAIN applied : key[1] = h =>
               key[2] \in DOMAIN Batches(h) /\ applied[key] = Batches(h)[key[2]]
          /\ job[h].done => \A i \in DOMAIN Batches(h) : <<h, i>> \in DOMAIN applied
          /\ g = h => /\ attempt.batches = Batches(h)
                      /\ \A i \in 1..(n - 1) : <<h, i>> \in DOMAIN applied
      BY <1>0 DEF RunsStand, g, n
    <3>2. ASSUME NEW key \in DOMAIN applied', key[1] = h
          PROVE  key[2] \in DOMAIN Batches(h) /\ applied'[key] = Batches(h)[key[2]]
      <4>1. CASE key \in DOMAIN applied
        BY <1>5, <3>1, <3>2, <4>1
      <4>2. CASE key \notin DOMAIN applied
        <5>1. key = <<g, n>> /\ g = h /\ applied'[key] = attempt.batches[n]
          BY <1>5, <3>2, <4>2
        <5>2. QED
          BY <1>2, <3>1, <5>1
      <4>3. QED
        BY <4>1, <4>2
    <3>3. \A i \in 1..n : i \in 1..(n - 1) \/ i = n
      BY <1>2
    <3>4. attempt'.segment = h => \A i \in 1..(attempt'.next - 1) : <<h, i>> \in DOMAIN applied'
      <4>1. attempt'.next - 1 = n
        BY <1>2, <1>4
      <4>2. QED
        BY <1>4, <1>5, <3>1, <3>3, <4>1
    <3>5. QED
      BY <1>4, <1>5, <3>1, <3>2, <3>4
  <2>2. ASSUME NEW h \in DOMAIN segments,
               job[h].done \/ attempt'.segment = h \/ \E key \in DOMAIN applied' : key[1] = h
        PROVE  job'[h].attempts > 0
    <3>1. job[h].done \/ g = h \/ \E key \in DOMAIN applied : key[1] = h
      BY <1>4, <1>5, <2>2
    <3>2. QED
      BY <1>0, <1>1, <3>1 DEF RunsStand, g
  <2>3. segments' = segments /\ thinned' = thinned /\ job' = job
    BY <1>1
  <2>4. QED
    BY <1>7, <2>1, <2>2, <2>3 DEF RunsStand
<1>9. RunsKeepApart'
  <2>1. attempt.batches[n] \subseteq segments[g].members
    BY <1>0, <1>2 DEF RunsKeepApart, g
  <2>2. \A key \in DOMAIN applied' : applied'[key] \subseteq segments[key[1]].members
    BY <1>0, <1>5, <2>1 DEF RunsKeepApart
  <2>3. \A i \in DOMAIN attempt'.batches :
          attempt'.batches[i] \subseteq segments[attempt'.segment].members
    BY <1>0, <1>4 DEF RunsKeepApart, g
  <2>4. QED
    BY <1>1, <2>2, <2>3 DEF RunsKeepApart
<1>10. QED
  BY <1>7, <1>8, <1>9 DEF IInv

LEMMA AttemptFailsKeeps ==
  ASSUME IInv, AttemptFails
  PROVE  IInv'
<1>0. Shapes /\ RunsStand /\ RunsKeepApart
  BY DEF IInv
<1>1. /\ attempt' = [segment |-> 0, batches |-> << >>, next |-> 1]
      /\ UNCHANGED <<event, open, segments, job, applied, thinned>>
  BY DEF AttemptFails, NoAttempt
<1>2. /\ attempt'.segment = 0 /\ DOMAIN attempt'.batches = {}
      /\ attempt' \in [segment : 0..Len(segments), batches : Seq(SUBSET Sources),
                       next : Nat \ {0}]
      /\ attempt'.next <= Len(attempt'.batches) + 1 /\ attempt' = NoAttempt
  BY <1>0, <1>1 DEF Shapes, NoAttempt
<1>3. job \in Seq(Jobs) /\ DOMAIN applied \subseteq (DOMAIN segments) \X (Nat \ {0})
      /\ 0 \notin DOMAIN segments
  BY <1>0 DEF Shapes
<1>4. /\ Shapes' /\ OpenIsSound' /\ OneHome' /\ SegmentsAreSound'
      /\ \A h \in DOMAIN segments : Batches(h)' = Batches(h)
  BY <1>1, <1>2, <1>3, WorkerKeeps
<1>5. RunsStand'
  BY <1>0, <1>1, <1>2, <1>3, <1>4 DEF RunsStand
<1>6. RunsKeepApart'
  BY <1>0, <1>1, <1>2 DEF RunsKeepApart
<1>7. QED
  BY <1>4, <1>5, <1>6 DEF IInv

\* All batches were passed, so that where no text went all of them have a run.
LEMMA AttemptSucceedsKeeps ==
  ASSUME IInv, AttemptSucceeds
  PROVE  IInv'
<1>0. Shapes /\ RunsStand /\ RunsKeepApart
  BY DEF IInv
<1> DEFINE g == attempt.segment
<1>1. /\ Working /\ ~(attempt.next <= Len(attempt.batches))
      /\ job' = [job EXCEPT ![g].done = TRUE]
      /\ attempt' = [segment |-> 0, batches |-> << >>, next |-> 1]
      /\ UNCHANGED <<event, open, segments, applied, thinned>>
  BY DEF AttemptSucceeds, HasNext, NoAttempt
<1>2. /\ g \in DOMAIN segments /\ g # 0 /\ attempt.batches \in Seq(SUBSET Sources)
      /\ attempt.next - 1 = Len(attempt.batches)
  BY <1>0, <1>1, WorkingOnOne DEF Shapes
<1>3. /\ attempt'.segment = 0 /\ DOMAIN attempt'.batches = {}
      /\ attempt' \in [segment : 0..Len(segments), batches : Seq(SUBSET Sources),
                       next : Nat \ {0}]
      /\ attempt'.next <= Len(attempt'.batches) + 1 /\ attempt' = NoAttempt
  BY <1>0, <1>1 DEF Shapes, NoAttempt
<1>4. /\ job \in Seq(Jobs) /\ DOMAIN applied \subseteq (DOMAIN segments) \X (Nat \ {0})
      /\ 0 \notin DOMAIN segments /\ DOMAIN job = DOMAIN segments
  BY <1>0 DEF Shapes
<1> HIDE DEF g
<1>5. /\ job' \in Seq(Jobs) /\ Len(job') = Len(job)
      /\ \A h \in DOMAIN segments : /\ job'[h].attempts = job[h].attempts
                                    /\ job'[h].done => job[h].done \/ h = g
  <2>1. job[g] \in Jobs
    BY <1>2, <1>4
  <2>2. /\ [job[g] EXCEPT !.done = TRUE] \in Jobs
        /\ [job[g] EXCEPT !.done = TRUE].attempts = job[g].attempts
    BY <2>1 DEF Jobs
  <2>3. /\ DOMAIN job' = DOMAIN job /\ job'[g] = [job[g] EXCEPT !.done = TRUE]
        /\ \A h \in DOMAIN segments : h # g => job'[h] = job[h]
    BY <1>1, <1>2, <1>4
  <2>4. job' \in Seq(Jobs) /\ Len(job') = Len(job)
    BY <1>1, <1>2, <1>4, <2>2
  <2>5. QED
    BY <2>2, <2>3, <2>4
<1>6. /\ Shapes' /\ OpenIsSound' /\ OneHome' /\ SegmentsAreSound'
      /\ \A h \in DOMAIN segments : Batches(h)' = Batches(h)
  BY <1>1, <1>3, <1>4, <1>5, WorkerKeeps
<1>7. RunsStand'
  <2>1. ASSUME NEW h \in (DOMAIN segments) \ thinned
        PROVE  /\ \A key \in DOMAIN applied : key[1] = h =>
                    key[2] \in DOMAIN Batches(h) /\ applied[key] = Batches(h)[key[2]]
               /\ job'[h].done => \A i \in DOMAIN Batches(h) : <<h, i>> \in DOMAIN applied
    <3>1. /\ \A key \in DOMAIN applied : key[1] = h =>
               key[2] \in DOMAIN Batches(h) /\ applied[key] = Batches(h)[key[2]]
          /\ job[h].done => \A i \in DOMAIN Batches(h) : <<h, i>> \in DOMAIN applied
          /\ g = h => /\ attempt.batches = Batches(h)
                      /\ \A i \in 1..(attempt.next - 1) : <<h, i>> \in DOMAIN applied
      BY <1>0 DEF RunsStand, g
    <3>2. g = h => \A i \in DOMAIN Batches(h) : <<h, i>> \in DOMAIN applied
      <4>1. DOMAIN attempt.batches = 1..(attempt.next - 1)
        BY <1>2
      <4>2. QED
        BY <3>1, <4>1
    <3>3. QED
      BY <1>5, <3>1, <3>2
  <2>2. ASSUME NEW h \in DOMAIN segments, job'[h].done \/ \E key \in DOMAIN applied : key[1] = h
        PROVE  job'[h].attempts > 0
    BY <1>0, <1>5, <2>2 DEF RunsStand, g
  <2>3. QED
    BY <1>1, <1>3, <1>4, <1>6, <2>1, <2>2 DEF RunsStand
<1>8. RunsKeepApart'
  BY <1>0, <1>1, <1>3 DEF RunsKeepApart
<1>9. QED
  BY <1>6, <1>7, <1>8 DEF IInv

-----------------------------------------------------------------------------
(* Evidence that goes *)

\* The batches of a segment that no attempt saw may change; those of another only where
\* it is thinned.
LEMMA ExpireTextKeeps ==
  ASSUME IInv, NEW cutoff, ExpireText(cutoff)
  PROVE  IInv'
<1>0. Shapes /\ OpenIsSound /\ OneHome /\ SegmentsAreSound /\ RunsStand /\ RunsKeepApart
  BY DEF IInv
<1> DEFINE old == {s \in Sources : event[s].present /\ event[s].end < cutoff}
<1>1. /\ event' = [s \in Sources |-> IF s \in old THEN [event[s] EXCEPT !.present = FALSE]
                                     ELSE event[s]]
      /\ Thins(old) /\ UNCHANGED <<open, segments, attempt, job, applied>>
  BY DEF ExpireText
<1>2. \A s \in Sources : event[s] \in Events
  BY <1>0, EventTypes
<1> HIDE DEF old
<1>3. \A s \in Sources : LET e == [event[s] EXCEPT !.present = FALSE] IN
        /\ e \in Events
        /\ e.context = event[s].context /\ e.text = event[s].text
        /\ e.start = event[s].start /\ e.end = event[s].end /\ e.fate = event[s].fate
  BY <1>2 DEF Events
<1>4. /\ DOMAIN event' = Sources
      /\ \A s \in Sources :
           /\ event'[s] \in Events
           /\ event'[s].context = event[s].context /\ event'[s].text = event[s].text
           /\ event'[s].start = event[s].start /\ event'[s].end = event[s].end
           /\ event'[s].fate = event[s].fate
           /\ s \notin old => event'[s].present = event[s].present
           /\ event'[s].present => event[s].present
  <2>1. \A s \in Sources : s \in old => ~event'[s].present
    BY <1>1, <1>2 DEF Events
  <2>2. QED
    BY <1>1, <1>2, <1>3, <2>1
<1>5. event' \in Seq(Events) /\ Sources' = Sources
  <2>1. Sources = 1..Len(event) /\ Len(event) \in Nat
    BY <1>0, EventTypes
  <2>2. event' \in [1..Len(event) -> Events]
    BY <1>1, <1>4, <2>1
  <2>3. event' \in Seq(Events)
    BY <2>1, <2>2
  <2>4. QED
    BY <1>4, <2>3 DEF Sources
<1>6. Kept
  BY <1>4, <1>5 DEF Kept
<1>7. thinned \subseteq thinned' /\ thinned' \subseteq DOMAIN segments
  BY <1>0, <1>1 DEF Thins, Shapes
<1>8. Shapes'
  BY <1>0, <1>1, <1>5, <1>7 DEF Shapes, Segments
<1>9. OpenIsSound' /\ SegmentsAreSound'
  BY <1>0, <1>1, <1>6, <1>8, OpenStays, SegmentsStaySound
<1>10. OneHome'
  BY <1>0, <1>1, <1>4, <1>5 DEF OneHome, OneHomeIn, Sources
<1>11. ASSUME NEW g \in (DOMAIN segments) \ thinned', job[g].attempts > 0
       PROVE  Batches(g)' = Batches(g)
  <2>1. Timed(Readable(g)) /\ Readable(g) \subseteq Sources /\ segments[g].members \subseteq Sources
    BY <1>0, ReadableIsTimed, SegmentTypes
  <2>2. Readable(g) \cap old = {}
    BY <1>1, <1>11 DEF Thins
  <2>3. Readable(g)' = Readable(g)
    BY <1>1, <1>4, <2>1, <2>2 DEF Readable
  <2>4. QED
    BY <1>4, <2>1, <2>3, BatchesKept
<1>12. RunsStand'
  <2>1. \A g \in DOMAIN segments :
          \/ job[g].done \/ attempt.segment = g \/ (\E key \in DOMAIN applied : key[1] = g)
          => job[g].attempts > 0
    BY <1>0 DEF RunsStand
  <2>2. ASSUME NEW g \in (DOMAIN segments) \ thinned'
        PROVE  /\ \A key \in DOMAIN applied : key[1] = g =>
                    key[2] \in DOMAIN Batches(g)' /\ applied[key] = Batches(g)'[key[2]]
               /\ job[g].done => \A i \in DOMAIN Batches(g)' : <<g, i>> \in DOMAIN applied
               /\ attempt.segment = g =>
                    /\ attempt.batches = Batches(g)'
                    /\ \A i \in 1..(attempt.next - 1) : <<g, i>> \in DOMAIN applied
    <3>1. CASE job[g].attempts > 0
      BY <1>0, <1>7, <1>11, <3>1 DEF RunsStand
    <3>2. CASE ~(job[g].attempts > 0)
      BY <2>1, <3>2
    <3>3. QED
      BY <3>1, <3>2
  <2>3. QED
    BY <1>1, <2>1, <2>2 DEF RunsStand
<1>13. RunsKeepApart'
  BY <1>0, <1>1 DEF RunsKeepApart
<1>14. QED
  BY <1>8, <1>9, <1>10, <1>12, <1>13 DEF IInv

-----------------------------------------------------------------------------
(* The theorems *)

LEMMA StillIInv == IInv /\ UNCHANGED vars => IInv'
<1> SUFFICES ASSUME IInv, UNCHANGED vars PROVE IInv'
  OBVIOUS
<1>1. UNCHANGED <<event, open, segments, attempt, job, applied, thinned>>
  BY DEF vars
<1>2. Shapes /\ RunsStand /\ RunsKeepApart
  BY DEF IInv
<1>3. /\ Shapes' /\ OpenIsSound' /\ OneHome' /\ SegmentsAreSound'
      /\ \A h \in DOMAIN segments : Batches(h)' = Batches(h)
  BY <1>1, <1>2, WorkerKeeps DEF Shapes
<1>4. RunsStand' /\ RunsKeepApart'
  BY <1>1, <1>2, <1>3 DEF RunsStand, RunsKeepApart
<1>5. QED
  BY <1>3, <1>4 DEF IInv

LEMMA NextIInv == IInv /\ [Next]_vars => IInv'
<1> SUFFICES ASSUME IInv, [Next]_vars PROVE IInv'
  OBVIOUS
<1>1. CASE \E e \in NewEvents : Observe(e)
  BY <1>1, ObserveKeeps
<1>2. CASE CloseSegment
  BY <1>2, CloseKeeps
<1>3. CASE Crash
  BY <1>3, CrashKeeps
<1>4. CASE \E g \in DOMAIN segments : BeginAttempt(g)
  BY <1>4, BeginAttemptKeeps
<1>5. CASE ApplyBatch
  BY <1>5, ApplyBatchKeeps
<1>6. CASE AttemptFails
  BY <1>6, AttemptFailsKeeps
<1>7. CASE AttemptSucceeds
  BY <1>7, AttemptSucceedsKeeps
<1>8. CASE \E cutoff \in 1..MaxTime + 1 : ExpireText(cutoff)
  BY <1>8, ExpireTextKeeps
<1>9. CASE UNCHANGED vars
  BY <1>9, StillIInv
<1>10. QED
  BY <1>1, <1>2, <1>3, <1>4, <1>5, <1>6, <1>7, <1>8, <1>9 DEF Next

\* The invariant of the proofs holds in every state the segmenter, the store and the
\* worker reach.
THEOREM IntakeInvariant == Spec => []IInv
<1>1. Init => IInv
  BY InitIInv
<1>2. IInv /\ [Next]_vars => IInv'
  BY NextIInv
<1>3. QED
  BY <1>1, <1>2, PTL DEF Spec

\* One home makes one or none, counting the open segment.
LEMMA HomesAreCounted == IInv => NoSourceIsLost
<1> SUFFICES ASSUME IInv PROVE NoSourceIsLost
  OBVIOUS
<1>1. Shapes /\ OneHomeIn(event, ToSet(open.members), segments)
  BY DEF IInv, OneHome
<1>2. TypeOK
  <2>1. /\ event \in Seq(Events) /\ open.members \in Seq(Sources)
        /\ open.seen \subseteq Texts /\ open.end \in Times
        /\ attempt.segment \in 0..Len(segments) /\ attempt.next \in 1..Len(attempt.batches) + 1
        /\ attempt.batches \in Seq(SUBSET Sources)
        /\ DOMAIN job = DOMAIN segments
        /\ DOMAIN applied \subseteq (DOMAIN segments) \X (Nat \ {0})
        /\ thinned \subseteq DOMAIN segments
    BY <1>1 DEF Shapes
  <2>2. \A g \in DOMAIN segments : segments[g].members \subseteq Sources
    BY <1>1, SegmentTypes
  <2>3. QED
    BY <2>1, <2>2 DEF TypeOK
<1>3. ASSUME NEW s \in Sources
      PROVE  LET homes == {g \in DOMAIN segments : s \in segments[g].members}
                 inOpen == IF s \in ToSet(open.members) THEN 1 ELSE 0
             IN Cardinality(homes) + inOpen = IF event[s].fate = "admitted" THEN 1 ELSE 0
  <2> DEFINE homes == {g \in DOMAIN segments : s \in segments[g].members}
  <2>1. /\ event[s].fate = "admitted" <=> s \in ToSet(open.members) \/ homes # {}
        /\ s \in ToSet(open.members) => homes = {}
        /\ \A g, h \in homes : g = h
    BY <1>1 DEF OneHomeIn, Sources
  <2> HIDE DEF homes
  <2>2. Cardinality(homes) = IF homes = {} THEN 0 ELSE 1
    <3>1. CASE homes = {}
      BY <3>1, FS_EmptySet
    <3>2. CASE homes # {}
      <4>1. PICK g : homes = {g}
        BY <2>1, <3>2
      <4>2. QED
        BY <4>1, FS_Singleton
    <3>3. QED
      BY <3>1, <3>2
  <2>3. QED
    BY <2>1, <2>2 DEF homes
<1>4. QED
  BY <1>2, <1>3 DEF NoSourceIsLost

\* Every event that is admitted is in the open segment or in exactly one that was stored,
\* unless the store refused that segment or a crash lost it, and no other event is in any:
\* admit, close and insert_activity_segment, for any texts, limits and order of steps.
THEOREM SourcesHaveAHome == Spec => []NoSourceIsLost
<1>1. IInv => NoSourceIsLost
  BY HomesAreCounted
<1>2. QED
  BY <1>1, IntakeInvariant, PTL

\* Every segment that is stored is one stretch of activity: one app and scope, no pause
\* within, no text twice, never longer than the limit, and within its own times.
THEOREM SegmentsAreStretches == Spec => []SegmentsAreSound
<1>1. IInv => SegmentsAreSound
  BY DEF IInv
<1>2. QED
  BY <1>1, IntakeInvariant, PTL

\* Attempts that fail, crash and begin again miss no evidence and mix none up: a run
\* stands for sources of its own segment, and after an attempt that succeeded every source
\* that still has text is in one, provided no text went since the first attempt.
THEOREM RetriesMissNothing == Spec => []RetriesSkipNothing
<1>1. ASSUME IInv PROVE RetriesSkipNothing
  <2>1. Shapes /\ RunsStand /\ RunsKeepApart
    BY <1>1 DEF IInv
  <2>2. ASSUME NEW g \in DOMAIN segments, job[g].done, g \notin thinned, NEW s \in Readable(g)
        PROVE  \E key \in DOMAIN applied : key[1] = g /\ s \in applied[key]
    <3>1. PICK i \in DOMAIN Batches(g) : s \in Batches(g)[i]
      BY <2>1, ReadableIsTimed, BatchesCover
    <3>2. <<g, i>> \in DOMAIN applied
      BY <2>1, <2>2 DEF RunsStand
    <3>3. applied[<<g, i>>] = Batches(g)[i]
      BY <2>1, <2>2, <3>2 DEF RunsStand
    <3>4. QED
      BY <3>1, <3>2, <3>3
  <2>3. QED
    BY <2>1, <2>2 DEF RetriesSkipNothing, RunsKeepApart
<1>2. IInv => RetriesSkipNothing
  BY <1>1
<1>3. QED
  BY <1>2, IntakeInvariant, PTL

====
