---------------------------- MODULE ServicesProofs ----------------------------
(***************************************************************************)
(* Proofs about the components that MCServices instantiates: BoundedQueue  *)
(* (for every capacity, set of policies and number of items), Supervisor   *)
(* (any number of subsystems) and JwksCache (any number of requests and    *)
(* keys, any lifetimes).                                                   *)
(***************************************************************************)
EXTENDS MCServices, Integers, Functions, SequenceTheorems, FiniteSetTheorems, TLAPS

(* BoundedQueue: BInv is the inductive invariant: the checked ones, with     *)
(* InOrder taken apart into what it says of the items received, of those     *)
(* waiting, and of one against the other.                                    *)

Ordered ==
  /\ \A i, j \in 1..Len(received) : i < j => received[i] < received[j]
  /\ \A i, j \in 1..Len(items) : i < j => items[i] < items[j]
  /\ \A i \in 1..Len(received), j \in 1..Len(items) : received[i] < items[j]
  /\ \A i \in 1..Len(received) : received[i] <= published
  /\ \A i \in 1..Len(items) : items[i] <= published

\* Only the state of the end is wanted from the receiver: it stops at an empty
\* closed queue.
Ended == receiver = "ended" => closed /\ items = << >>

BInv == TypeOK /\ NoLostWakeup /\ AcceptedIsAccountedFor /\ Ordered /\ Ended

Stats == [accepted : Nat, dropped_newest : Nat, dropped_oldest : Nat]

\* The counters after an item is accepted, refused, or accepted in the place
\* of an older one.
LEMMA Counting ==
  ASSUME NEW r \in Stats
  PROVE  /\ [r EXCEPT !.accepted = @ + 1] =
              [accepted |-> r.accepted + 1, dropped_newest |-> r.dropped_newest,
               dropped_oldest |-> r.dropped_oldest]
         /\ [r EXCEPT !.dropped_newest = @ + 1] =
              [accepted |-> r.accepted, dropped_newest |-> r.dropped_newest + 1,
               dropped_oldest |-> r.dropped_oldest]
         /\ [r EXCEPT !.dropped_oldest = @ + 1, !.accepted = @ + 1] =
              [accepted |-> r.accepted + 1, dropped_newest |-> r.dropped_newest,
               dropped_oldest |-> r.dropped_oldest + 1]
<1>1. [r EXCEPT !.accepted = @ + 1] =
        [accepted |-> r.accepted + 1, dropped_newest |-> r.dropped_newest,
         dropped_oldest |-> r.dropped_oldest]
  BY DEF Stats
<1>2. [r EXCEPT !.dropped_newest = @ + 1] =
        [accepted |-> r.accepted, dropped_newest |-> r.dropped_newest + 1,
         dropped_oldest |-> r.dropped_oldest]
  BY DEF Stats
<1>3. ASSUME NEW q, q = [r EXCEPT !.dropped_oldest = @ + 1, !.accepted = @ + 1]
      PROVE  q = [accepted |-> r.accepted + 1, dropped_newest |-> r.dropped_newest,
                  dropped_oldest |-> r.dropped_oldest + 1]
  BY <1>3 DEF Stats
<1>4. QED
  BY <1>1, <1>2, <1>3

LEMMA InitBInv == Init => BInv
<1> SUFFICES ASSUME Init PROVE BInv
  OBVIOUS
<1>1. items \in Seq(Item) /\ received \in Seq(Item) /\ Len(items) = 0 /\ Len(received) = 0
  BY EmptySeq DEF Init
<1>2. TypeOK
  <2>1. stats \in Stats /\ published \in 0..MaxItems
    BY QueueAssumption DEF Init, Stats
  <2>2. QED
    BY <1>1, <2>1 DEF Init, TypeOK, Stats
<1>3. AcceptedIsAccountedFor
  BY <1>1, QueueAssumption DEF Init, AcceptedIsAccountedFor
<1>4. NoLostWakeup /\ Ordered /\ Ended
  BY <1>1 DEF Init, NoLostWakeup, Ordered, Ended
<1>5. QED
  BY <1>2, <1>3, <1>4 DEF BInv

\* What TypeOK says of the two sequences, with the facts about an append and
\* the removal of the head.
LEMMA Shapes ==
  ASSUME TypeOK
  PROVE  /\ Item \subseteq Nat /\ Len(items) \in Nat /\ Len(received) \in Nat
         /\ \A i \in 1..Len(items) : items[i] \in Item
         /\ \A i \in 1..Len(received) : received[i] \in Item
         /\ items # << >> => Len(items) > 0
         /\ items = << >> => Len(items) = 0
<1>1. items \in Seq(Item) /\ received \in Seq(Item)
  BY DEF TypeOK
<1>2. QED
  <2>1. Item \subseteq Nat
    BY QueueAssumption DEF Item
  <2>2. /\ Len(items) \in Nat /\ \A i \in 1..Len(items) : items[i] \in Item
        /\ Len(received) \in Nat /\ \A i \in 1..Len(received) : received[i] \in Item
    BY <1>1, LenProperties, ElementOfSeq
  <2>3. (items # << >> => Len(items) > 0) /\ (items = << >> => Len(items) = 0)
    BY <1>1, EmptySeq
  <2>4. QED
    BY <2>1, <2>2, <2>3

\* Publishing appends an item newer than all before it.
LEMMA AppendKeepsOrder ==
  ASSUME TypeOK, Ordered, NEW s \in Seq(Item), published < MaxItems,
         NEW d \in {0, 1}, Len(s) = Len(items) - d,
         \A i \in 1..Len(s) : s[i] = items[i + d],
         items' = Append(s, published + 1), published' = published + 1,
         received' = received
  PROVE  items' \in Seq(Item) /\ Len(items') = Len(s) + 1 /\ Ordered'
<1>1. published \in Nat /\ published + 1 \in Item
  BY QueueAssumption DEF TypeOK, Item
<1>2. /\ items' \in Seq(Item) /\ Len(items') = Len(s) + 1
      /\ \A i \in 1..Len(s) : items'[i] = s[i]
      /\ items'[Len(s) + 1] = published + 1
  BY <1>1, AppendProperties
<1>3. Len(s) \in Nat /\ \A i \in 1..Len(s) : i + d \in 1..Len(items)
  BY Shapes, LenProperties
<1>4. \A i \in 1..Len(items') : i \in 1..Len(s) \/ i = Len(s) + 1
  BY <1>2, <1>3
<1>5. \A i \in 1..Len(items') : items'[i] \in Nat /\ items'[i] <= published + 1
  <2> SUFFICES ASSUME NEW i \in 1..Len(items')
               PROVE  items'[i] \in Nat /\ items'[i] <= published + 1
    OBVIOUS
  <2>1. CASE i = Len(s) + 1
    BY <2>1, <1>1, <1>2
  <2>2. CASE i \in 1..Len(s)
    <3>1. items'[i] = items[i + d] /\ i + d \in 1..Len(items)
      BY <2>2, <1>2, <1>3
    <3>2. items[i + d] \in Nat /\ items[i + d] <= published
      BY <3>1, Shapes DEF Ordered
    <3>3. QED
      BY <3>1, <3>2, <1>1
  <2>3. QED
    BY <2>1, <2>2, <1>4
<1>6. \A i, j \in 1..Len(items') : i < j => items'[i] < items'[j]
  <2> SUFFICES ASSUME NEW i \in 1..Len(items'), NEW j \in 1..Len(items'), i < j
               PROVE  items'[i] < items'[j]
    OBVIOUS
  <2>1. i \in 1..Len(s) /\ items'[i] = items[i + d] /\ i + d \in 1..Len(items)
    BY <1>2, <1>3, <1>4
  <2>2. CASE j = Len(s) + 1
    <3>1. items[i + d] \in Nat /\ items[i + d] <= published /\ published \in Nat
      BY <1>1, <2>1, Shapes DEF Ordered
    <3>2. items'[j] = published + 1
      BY <2>2, <1>1, <1>2
    <3>3. QED
      BY ONLY <2>1, <3>1, <3>2
  <2>3. CASE j \in 1..Len(s)
    <3>1. items'[j] = items[j + d] /\ j + d \in 1..Len(items) /\ i + d < j + d
      BY <2>3, <1>2, <1>3
    <3>2. QED
      BY <2>1, <3>1 DEF Ordered
  <2>4. QED
    BY <2>2, <2>3, <1>4
<1>7. \A i \in 1..Len(received), j \in 1..Len(items') : received[i] < items'[j]
  <2> SUFFICES ASSUME NEW i \in 1..Len(received), NEW j \in 1..Len(items')
               PROVE  received[i] < items'[j]
    OBVIOUS
  <2>1. received[i] \in Nat /\ received[i] <= published
    BY Shapes DEF Ordered
  <2>2. CASE j = Len(s) + 1
    BY <2>1, <2>2, <1>1, <1>2
  <2>3. CASE j \in 1..Len(s)
    BY <2>3, <1>2, <1>3 DEF Ordered
  <2>4. QED
    BY <2>2, <2>3, <1>4
<1>8. \A i \in 1..Len(received) : received[i] <= published + 1
  BY <1>1, Shapes DEF Ordered
<1>9. QED
  BY <1>2, <1>5, <1>6, <1>7, <1>8 DEF Ordered

\* The counters and the types of a step that publishes.
LEMMA PublishKeeps ==
  ASSUME BInv, Publish
  PROVE  BInv'
<1>1. items' \in Seq(Item) /\ Len(items') = Len(items) + 1 /\ Ordered'
  <2>1. items \in Seq(Item)
    BY DEF BInv, TypeOK
  <2>2. Len(items) = Len(items) - 0 /\ \A i \in 1..Len(items) : items[i] = items[i + 0]
    BY Shapes DEF BInv
  <2>3. QED
    BY <2>1, <2>2, AppendKeepsOrder DEF BInv, Publish
<1>2. /\ stats \in Stats /\ stats' \in Stats
      /\ stats' = [accepted |-> stats.accepted + 1, dropped_newest |-> stats.dropped_newest,
                   dropped_oldest |-> stats.dropped_oldest]
  <2>1. stats \in Stats /\ stats' = [stats EXCEPT !.accepted = @ + 1]
    BY DEF BInv, TypeOK, Publish, Stats
  <2>2. stats' = [accepted |-> stats.accepted + 1, dropped_newest |-> stats.dropped_newest,
                  dropped_oldest |-> stats.dropped_oldest]
    BY <2>1, Counting
  <2>3. QED
    BY <2>1, <2>2 DEF Stats
<1>3. /\ UNCHANGED <<policy, closed, received>> /\ Len(items) < Capacity
      /\ published < MaxItems /\ published' = published + 1 /\ ~closed
      /\ permit' \in BOOLEAN /\ receiver' \in {receiver, "woken"}
      /\ receiver = "parked" => receiver' = "woken"
      /\ receiver # "parked" => permit'
  BY DEF BInv, TypeOK, Publish, NotifyOne
<1> USE DEF BInv
<1>4. TypeOK'
  BY <1>1, <1>2, <1>3, QueueAssumption DEF TypeOK, Stats
<1>5. NoLostWakeup'
  BY <1>3 DEF TypeOK, NoLostWakeup
<1>6. AcceptedIsAccountedFor'
  <2>1. /\ Len(items) \in Nat /\ Len(received) \in Nat /\ Capacity \in Nat
        /\ stats.accepted \in Nat /\ stats.dropped_oldest \in Nat
        /\ stats.dropped_newest \in Nat /\ published \in Nat
    <3>1. stats.accepted \in Nat /\ stats.dropped_oldest \in Nat /\ stats.dropped_newest \in Nat
      BY <1>2 DEF Stats
    <3>2. Len(items) \in Nat /\ Len(received) \in Nat
      BY Shapes
    <3>3. published \in Nat /\ Capacity \in Nat
      BY QueueAssumption DEF TypeOK
    <3>4. QED
      BY <3>1, <3>2, <3>3
  <2>2. /\ stats'.accepted = stats.accepted + 1 /\ stats'.dropped_oldest = stats.dropped_oldest
        /\ stats'.dropped_newest = stats.dropped_newest
    BY <1>2
  <2>3. QED
    BY <1>1, <1>3, <2>1, <2>2 DEF AcceptedIsAccountedFor
<1>7. Ended'
  BY <1>3 DEF Ended
<1>8. QED
  BY <1>1, <1>4, <1>5, <1>6, <1>7

LEMMA PublishFullKeeps ==
  ASSUME BInv, PublishFull
  PROVE  BInv'
<1> USE DEF BInv
<1>1. items # << >> /\ items \in Seq(Item) /\ Len(items) \in Nat /\ stats \in Stats
  BY Shapes, EmptySeq, QueueAssumption DEF TypeOK, PublishFull, Stats
<1>2. /\ UNCHANGED <<policy, closed, received>>
      /\ published < MaxItems /\ published' = published + 1 /\ ~closed
  BY DEF PublishFull
<1>3. CASE /\ policy = "drop_oldest"
           /\ items' = Append(Tail(items), published + 1)
           /\ stats' = [stats EXCEPT !.dropped_oldest = @ + 1, !.accepted = @ + 1]
           /\ NotifyOne
  <2>1. /\ Tail(items) \in Seq(Item) /\ Len(Tail(items)) = Len(items) - 1
        /\ \A i \in 1..Len(Tail(items)) : Tail(items)[i] = items[i + 1]
    BY <1>1, HeadTailProperties
  <2>2. items' \in Seq(Item) /\ Len(items') = Len(Tail(items)) + 1 /\ Ordered'
    BY <1>2, <1>3, <2>1, AppendKeepsOrder
  <2>3. stats' = [accepted |-> stats.accepted + 1, dropped_newest |-> stats.dropped_newest,
                  dropped_oldest |-> stats.dropped_oldest + 1]
    BY <1>1, <1>3, Counting
  <2>4. stats' \in Stats
    BY <1>1, <2>3 DEF Stats
  <2>5. permit' \in BOOLEAN /\ receiver' \in {receiver, "woken"}
        /\ (receiver = "parked" => receiver' = "woken")
        /\ (receiver # "parked" => permit')
    BY <1>3 DEF TypeOK, NotifyOne
  <2> HIDE <1>3
  <2>6. TypeOK'
    BY <1>2, <2>2, <2>4, <2>5, QueueAssumption DEF TypeOK, Stats
  <2>7. AcceptedIsAccountedFor'
    <3>1. policy = "drop_oldest"
      BY <1>3
    <3>2. QED
      BY <1>1, <1>2, <2>1, <2>2, <2>3, <3>1, Shapes DEF AcceptedIsAccountedFor, Stats
  <2>8. NoLostWakeup' /\ Ended'
    BY <1>1, <1>2, <2>5 DEF TypeOK, NoLostWakeup, Ended
  <2>9. QED
    BY <2>2, <2>6, <2>7, <2>8
<1>4. CASE /\ policy \in {"reject", "drop_newest"} /\ UNCHANGED <<items, permit, receiver>>
           /\ \/ stats' = stats
              \/ policy = "drop_newest" /\ stats' = [stats EXCEPT !.dropped_newest = @ + 1]
  <2>1. \/ stats' = stats
        \/ /\ policy = "drop_newest"
           /\ stats' = [accepted |-> stats.accepted, dropped_newest |-> stats.dropped_newest + 1,
                        dropped_oldest |-> stats.dropped_oldest]
    BY <1>1, <1>4, Counting
  <2>2. stats' \in Stats /\ stats'.accepted = stats.accepted
        /\ stats'.dropped_oldest = stats.dropped_oldest
        /\ (policy # "drop_newest" => stats'.dropped_newest = stats.dropped_newest)
    BY <1>1, <2>1 DEF Stats
  <2>3. policy \in {"reject", "drop_newest"} /\ UNCHANGED <<items, permit, receiver>>
    BY <1>4
  <2>4. TypeOK'
    BY <1>2, <2>2, <2>3, QueueAssumption DEF TypeOK, Stats
  <2>5. AcceptedIsAccountedFor'
    BY <1>2, <2>2, <2>3 DEF AcceptedIsAccountedFor
  <2>6. Ordered'
    <3>1. published \in Nat /\ \A i \in 1..Len(items) : items[i] \in Nat
      BY Shapes DEF TypeOK
    <3>2. \A i \in 1..Len(received) : received[i] \in Nat
      BY Shapes
    <3>3. QED
      BY <1>2, <2>3, <3>1, <3>2 DEF Ordered
  <2>7. NoLostWakeup' /\ Ended'
    BY <1>2, <2>3 DEF NoLostWakeup, Ended
  <2>8. QED
    BY <2>4, <2>5, <2>6, <2>7
<1>5. QED
  BY <1>3, <1>4 DEF PublishFull

LEMMA ReceiveKeeps ==
  ASSUME BInv, Receive
  PROVE  BInv'
<1> USE QueueAssumption DEF BInv, Receive
<1>1. CASE items = << >> /\ UNCHANGED <<items, received>>
  BY <1>1 DEF TypeOK, NoLostWakeup, AcceptedIsAccountedFor, Ordered, Ended
<1>2. CASE items # << >> /\ receiver' = "idle" /\ items' = Tail(items)
             /\ received' = Append(received, Head(items))
  <2>1. /\ items' \in Seq(Item) /\ Len(items') = Len(items) - 1 /\ Head(items) \in Item
        /\ \A i \in 1..Len(items') : items'[i] = items[i + 1]
    BY <1>2, HeadTailProperties DEF TypeOK
  <2>2. Head(items) = items[1] /\ 1 \in 1..Len(items)
    BY <1>2, Shapes
  <2>3. /\ received' \in Seq(Item) /\ Len(received') = Len(received) + 1
        /\ \A i \in 1..Len(received) : received'[i] = received[i]
        /\ received'[Len(received) + 1] = items[1]
    BY <1>2, <2>1, <2>2, AppendProperties DEF TypeOK
  <2>4. \A i \in 1..Len(received') : i \in 1..Len(received) \/ i = Len(received) + 1
    BY <2>3, Shapes
  <2>5. \A i \in 1..Len(items') : i + 1 \in 1..Len(items) /\ i + 1 > 1
    BY <2>1, Shapes
  <2>6. TypeOK'
    BY <1>2, <2>1, <2>3 DEF TypeOK
  <2>7. AcceptedIsAccountedFor'
    BY <2>1, <2>3, Shapes DEF TypeOK, AcceptedIsAccountedFor
  <2>8. Ordered'
    <3>1. \A i, j \in 1..Len(received') : i < j => received'[i] < received'[j]
      <4> SUFFICES ASSUME NEW i \in 1..Len(received'), NEW j \in 1..Len(received'), i < j
                   PROVE  received'[i] < received'[j]
        OBVIOUS
      <4>1. i \in 1..Len(received)
        BY <2>3, Shapes
      <4>2. CASE j = Len(received) + 1
        BY <4>1, <4>2, <2>2, <2>3 DEF Ordered
      <4>3. CASE j \in 1..Len(received)
        BY <4>1, <4>3, <2>3 DEF Ordered
      <4>4. QED
        BY <4>2, <4>3, <2>4
    <3>2. \A i, j \in 1..Len(items') : i < j => items'[i] < items'[j]
      <4> SUFFICES ASSUME NEW i \in 1..Len(items'), NEW j \in 1..Len(items'), i < j
                   PROVE  items'[i] < items'[j]
        OBVIOUS
      <4>1. i + 1 \in 1..Len(items) /\ j + 1 \in 1..Len(items) /\ i + 1 < j + 1
        BY <2>5
      <4>2. QED
        BY <4>1, <2>1 DEF Ordered
    <3>3. \A i \in 1..Len(received'), j \in 1..Len(items') : received'[i] < items'[j]
      <4> SUFFICES ASSUME NEW i \in 1..Len(received'), NEW j \in 1..Len(items')
                   PROVE  received'[i] < items'[j]
        OBVIOUS
      <4>1. j + 1 \in 1..Len(items) /\ 1 < j + 1 /\ items'[j] = items[j + 1]
        BY <2>1, <2>5
      <4>2. CASE i = Len(received) + 1
        BY <4>1, <4>2, <2>2, <2>3 DEF Ordered
      <4>3. CASE i \in 1..Len(received)
        BY <4>1, <4>3, <2>3 DEF Ordered
      <4>4. QED
        BY <4>2, <4>3, <2>4
    <3>4. /\ \A i \in 1..Len(received') : received'[i] <= published
          /\ \A i \in 1..Len(items') : items'[i] <= published
      BY <2>1, <2>2, <2>3, <2>4, <2>5 DEF Ordered
    <3>5. QED
      BY <3>1, <3>2, <3>3, <3>4 DEF Ordered
  <2>9. NoLostWakeup' /\ Ended'
    BY <1>2 DEF NoLostWakeup, Ended
  <2>10. QED
    BY <2>6, <2>7, <2>8, <2>9
<1>3. QED
  BY <1>1, <1>2

\* Closing, parking and cancelling move neither an item nor a counter.
LEMMA QuietKeeps ==
  ASSUME BInv, Close \/ Await \/ Cancel \/ UNCHANGED vars
  PROVE  BInv'
<1>1. UNCHANGED <<policy, items, published, stats, received>>
  BY DEF Close, Await, Cancel, vars
<1>2. TypeOK'
  BY DEF BInv, TypeOK, Close, Await, Cancel, NotifyOne, vars
<1>3. NoLostWakeup'
  BY DEF BInv, TypeOK, NoLostWakeup, Ended, Close, Await, Cancel, NotifyOne, vars
<1>4. AcceptedIsAccountedFor' /\ Ordered'
  BY <1>1 DEF BInv, AcceptedIsAccountedFor, Ordered
<1>5. Ended'
  BY DEF BInv, TypeOK, Ended, Close, Await, Cancel, NotifyOne, vars
<1>6. QED
  BY <1>2, <1>3, <1>4, <1>5 DEF BInv

\* The inductive invariant holds throughout, whoever publishes, closes,
\* receives or cancels in whatever order.
THEOREM BusInvariant == Spec => []BInv
<1>1. BInv /\ [Next]_vars => BInv'
  BY PublishKeeps, PublishFullKeeps, ReceiveKeeps, QuietKeeps DEF Next
<1>2. QED
  BY InitBInv, <1>1, PTL DEF Spec

\* The variables keep their types.
THEOREM BusTypeCorrect == Spec => []TypeOK
<1>1. BInv => TypeOK
  BY DEF BInv
<1>2. QED
  BY BusInvariant, <1>1, PTL

\* No interleaving of publish, close, recv and its cancellation loses a
\* wake-up, whatever the capacity.
THEOREM NoWakeupIsLost == Spec => []NoLostWakeup
<1>1. BInv => NoLostWakeup
  BY DEF BInv
<1>2. QED
  BY BusInvariant, <1>1, PTL

\* The counters account for every accepted item and the capacity is kept.
THEOREM NothingIsLostUncounted == Spec => []AcceptedIsAccountedFor
<1>1. BInv => AcceptedIsAccountedFor
  BY DEF BInv
<1>2. QED
  BY BusInvariant, <1>1, PTL

\* Items are received in the order they were published, each at most once,
\* under every policy.
THEOREM ReceivedInOrder == Spec => []InOrder
<1>1. ASSUME BInv PROVE InOrder
  <2> DEFINE all == received \o items
  <2>1. received \in Seq(Item) /\ items \in Seq(Item)
    BY <1>1 DEF BInv, TypeOK
  <2>2. /\ Len(all) = Len(received) + Len(items)
        /\ \A i \in 1..Len(all) :
             all[i] = IF i <= Len(received) THEN received[i] ELSE items[i - Len(received)]
    BY <2>1, ConcatProperties
  <2> HIDE DEF all
  <2>3. Len(received) \in Nat /\ Len(items) \in Nat
    BY <1>1, Shapes DEF BInv
  <2>4. ASSUME NEW i \in 1..Len(all), NEW j \in 1..Len(all), i < j
        PROVE  all[i] < all[j]
    <3>1. CASE j <= Len(received)
      BY <1>1, <2>2, <2>3, <2>4, <3>1 DEF BInv, Ordered
    <3>2. CASE i <= Len(received) /\ ~(j <= Len(received))
      <4>1. i \in 1..Len(received) /\ j - Len(received) \in 1..Len(items)
        BY <2>2, <2>3, <3>2
      <4>2. QED
        BY <1>1, <2>2, <3>2, <4>1 DEF BInv, Ordered
    <3>3. CASE ~(i <= Len(received))
      <4>1. /\ i - Len(received) \in 1..Len(items) /\ j - Len(received) \in 1..Len(items)
            /\ i - Len(received) < j - Len(received) /\ ~(j <= Len(received))
        BY <2>2, <2>3, <2>4, <3>3
      <4>2. QED
        BY <1>1, <2>2, <3>3, <4>1 DEF BInv, Ordered
    <3>4. QED
      BY <3>1, <3>2, <3>3, <2>3
  <2>5. QED
    BY <2>4 DEF InOrder, all
<1>2. BInv => InOrder
  BY <1>1
<1>3. QED
  BY BusInvariant, <1>2, PTL

\* All of it together, in every behavior of the queue.
THEOREM QueueStaysSound == Spec => []QueueIsSound
<1>1. BInv => TypeOK
  BY DEF BInv
<1>2. QED
  BY BusInvariant, <1>1, NoWakeupIsLost, NothingIsLostUncounted, ReceivedInOrder, PTL
     DEF QueueIsSound

-----------------------------------------------------------------------------
(* Supervisor: SInv ties the state of the lifecycle table to the place of    *)
(* its supervisor: that is why no path through run is ever refused.          *)

\* In which states of the table each step of a supervisor is taken.
InStep ==
  \A s \in Subsystems :
    /\ pc[s] = "new" => state[s] = "stopped"
    /\ pc[s] \in {"select", "polling"} => state[s] = "running" /\ worker[s] = "pending"
    /\ pc[s] = "draining" => state[s] = "stopping" /\ s \in child
    /\ pc[s] = "done" => state[s] \in {"stopped", "failed"}

\* What ReportComesLast says of one subsystem.
ReportOf(s) ==
  /\ worker[s] \in {"ok", "error"}
  /\ Sup!ChildCancelled(s)
  /\ report[s].final = state[s]
  /\ report[s].error <=> state[s] = "failed"
  /\ ~report[s].cancelled /\ ~report[s].error => worker[s] = "ok"

SInv == Sup!TypeOK /\ InStep /\ Sup!NothingIsRefused /\ Sup!ReportComesLast

-----------------------------------------------------------------------------
(* Runs of transitions that the table allows *)

\* A single transition of the table is taken.
LEMMA OneTransition ==
  ASSUME NEW s, NEW a, NEW step, Sup!CanTransition(state[s], a), Sup!Transitions(s, <<a>>, step)
  PROVE  /\ state' = [state EXCEPT ![s] = a]
         /\ pc' = [pc EXCEPT ![s] = step]
<1> DEFINE all == <<state[s]>> \o <<a>>
<1>1. all[1] = state[s] /\ all[2] = a /\ Len(<<a>>) = 1 /\ <<a>>[1] = a
  OBVIOUS
<1>2. {i \in 1..Len(<<a>>) : ~Sup!CanTransition(all[i], all[i + 1])} = {}
  <2>1. ASSUME NEW i \in 1..Len(<<a>>) PROVE Sup!CanTransition(all[i], all[i + 1])
    <3>1. i = 1 /\ i + 1 = 2
      BY <1>1
    <3>2. QED
      BY <1>1, <3>1
  <2>2. QED
    BY <2>1
<1>3. QED
  BY <1>1, <1>2 DEF Sup!Transitions

\* So are two in a row.
LEMMA TwoTransitions ==
  ASSUME NEW s, NEW a, NEW b, NEW step, Sup!CanTransition(state[s], a), Sup!CanTransition(a, b),
         Sup!Transitions(s, <<a, b>>, step)
  PROVE  /\ state' = [state EXCEPT ![s] = b]
         /\ pc' = [pc EXCEPT ![s] = step]
<1> DEFINE all == <<state[s]>> \o <<a, b>>
<1>1. /\ all[1] = state[s] /\ all[2] = a /\ all[3] = b
      /\ Len(<<a, b>>) = 2 /\ <<a, b>>[2] = b
  OBVIOUS
<1>2. {i \in 1..Len(<<a, b>>) : ~Sup!CanTransition(all[i], all[i + 1])} = {}
  <2>1. ASSUME NEW i \in 1..Len(<<a, b>>) PROVE Sup!CanTransition(all[i], all[i + 1])
    <3>1. (i = 1 /\ i + 1 = 2) \/ (i = 2 /\ i + 1 = 3)
      BY <1>1
    <3>2. QED
      BY <1>1, <3>1
  <2>2. QED
    BY <2>1
<1>3. QED
  BY <1>1, <1>2 DEF Sup!Transitions

\* The transitions that run makes are all in the table.
LEMMA PathsAreLegal ==
  /\ Sup!CanTransition("stopped", "starting") /\ Sup!CanTransition("starting", "running")
  /\ Sup!CanTransition("running", "stopping") /\ Sup!CanTransition("running", "failed")
  /\ Sup!CanTransition("stopping", "stopped")
BY DEF Sup!CanTransition

-----------------------------------------------------------------------------
(* Each step keeps SInv *)

LEMMA InitSInv == Sup!Init => SInv
<1> SUFFICES ASSUME Sup!Init PROVE SInv
  OBVIOUS
<1>1. Sup!NoReport \in [final : Sup!LifecycleStates \cup {"none"},
                        cancelled : BOOLEAN, error : BOOLEAN]
  BY DEF Sup!NoReport
<1>2. Sup!TypeOK
  BY <1>1 DEF Sup!Init, Sup!TypeOK, Sup!LifecycleStates
<1>3. InStep /\ Sup!NothingIsRefused /\ Sup!ReportComesLast
  BY DEF Sup!Init, InStep, Sup!NothingIsRefused, Sup!ReportComesLast
<1>4. QED
  BY <1>2, <1>3 DEF SInv

\* The report of a run that ended keeps its type.
LEMMA ReportType ==
  ASSUME Sup!TypeOK, NEW s \in Subsystems, NEW final \in Sup!LifecycleStates,
         NEW cancelled \in BOOLEAN, NEW error \in BOOLEAN,
         Sup!Reports(s, final, cancelled, error)
  PROVE  /\ report' \in [Subsystems -> [final : Sup!LifecycleStates \cup {"none"},
                                        cancelled : BOOLEAN, error : BOOLEAN]]
         /\ report'[s] = [final |-> final, cancelled |-> cancelled, error |-> error]
         /\ \A r \in Subsystems \ {s} : report'[r] = report[r]
BY DEF Sup!TypeOK, Sup!Reports

LEMMA NextSInv == SInv /\ [Sup!Next]_(Sup!vars) => SInv'
<1> USE DEF Sup!LifecycleStates
<1> SUFFICES ASSUME SInv, [Sup!Next]_(Sup!vars) PROVE SInv'
  OBVIOUS
<1>0. Sup!TypeOK /\ InStep /\ Sup!NothingIsRefused /\ Sup!ReportComesLast
  BY DEF SInv
<1>1. CASE Sup!CancelApplication
  BY <1>0, <1>1
  DEF Sup!CancelApplication, SInv, Sup!TypeOK, InStep, Sup!NothingIsRefused, Sup!ReportComesLast,
      Sup!ChildCancelled
<1>2. ASSUME NEW s \in Subsystems, Sup!Start(s) PROVE SInv'
  <2>1. state' = [state EXCEPT ![s] = "running"] /\ pc' = [pc EXCEPT ![s] = "select"]
    <3>1. /\ Sup!CanTransition(state[s], "starting") /\ Sup!CanTransition("starting", "running")
          /\ Sup!Transitions(s, <<"starting", "running">>, "select")
      BY <1>0, <1>2, PathsAreLegal DEF Sup!Start, InStep
    <3>2. QED
      BY <3>1, TwoTransitions
  <2>2. QED
    BY <1>0, <1>2, <2>1
    DEF Sup!Start, SInv, Sup!TypeOK, InStep, Sup!NothingIsRefused, Sup!ReportComesLast,
        Sup!ChildCancelled
<1>3. ASSUME NEW s \in Subsystems, Sup!TokenCancelled(s) PROVE SInv'
  <2>1. state' = [state EXCEPT ![s] = "stopping"] /\ pc' = [pc EXCEPT ![s] = "draining"]
    <3>1. /\ Sup!CanTransition(state[s], "stopping")
          /\ Sup!Transitions(s, <<"stopping">>, "draining")
      BY <1>0, <1>3, PathsAreLegal DEF Sup!TokenCancelled, InStep
    <3>2. QED
      BY <3>1, OneTransition, Zenon
  <2>2. QED
    BY <1>0, <1>3, <2>1
    DEF Sup!TokenCancelled, SInv, Sup!TypeOK, InStep, Sup!NothingIsRefused, Sup!ReportComesLast,
        Sup!ChildCancelled
<1>4. ASSUME NEW s \in Subsystems, Sup!TokenNotCancelled(s) \/ Sup!WorkerPending(s) PROVE SInv'
  BY <1>0, <1>4
  DEF Sup!TokenNotCancelled, Sup!WorkerPending, Sup!PollWorker, SInv, Sup!TypeOK, InStep,
      Sup!NothingIsRefused,
      Sup!ReportComesLast, Sup!ChildCancelled
<1>5. ASSUME NEW s \in Subsystems, NEW outcome \in {"ok", "error"}, Sup!Drain(s, outcome)
      PROVE  SInv'
  BY <1>0, <1>5
  DEF Sup!Drain, Sup!PollWorker, SInv, Sup!TypeOK, InStep, Sup!NothingIsRefused,
      Sup!ReportComesLast, Sup!ChildCancelled
<1>6. ASSUME NEW s \in Subsystems, Sup!Drained(s) PROVE SInv'
  <2>1. state' = [state EXCEPT ![s] = "stopped"] /\ pc' = [pc EXCEPT ![s] = "done"]
    <3>1. Sup!CanTransition(state[s], "stopped")
      BY <1>0, <1>6, PathsAreLegal DEF Sup!Drained, InStep
    <3>2. Sup!Transitions(s, <<"stopped">>, "done")
      BY <1>6 DEF Sup!Drained
    <3>3. QED
      BY ONLY <3>1, <3>2, OneTransition, Zenon
  <2>2. /\ report' \in [Subsystems -> [final : Sup!LifecycleStates \cup {"none"},
                                       cancelled : BOOLEAN, error : BOOLEAN]]
        /\ report'[s] = [final |-> "stopped", cancelled |-> TRUE, error |-> FALSE]
        /\ \A r \in Subsystems \ {s} : report'[r] = report[r]
    BY <1>0, <1>6, ReportType DEF Sup!Drained
  <2>3. Sup!TypeOK'
    BY <1>0, <1>6, <2>1, <2>2 DEF Sup!Drained, Sup!TypeOK
  <2>4. InStep' /\ Sup!NothingIsRefused'
    BY <1>0, <1>6, <2>1 DEF Sup!Drained, Sup!TypeOK, InStep, Sup!NothingIsRefused
  <2>5. Sup!ReportComesLast'
    <3>1. ASSUME NEW r \in Subsystems \ {s}, (pc[r] = "done")' PROVE ReportOf(r)'
      BY <1>0, <1>6, <2>1, <2>2, <3>1
      DEF Sup!Drained, Sup!TypeOK, Sup!ReportComesLast, ReportOf, Sup!ChildCancelled
    <3>2. ReportOf(s)'
      BY <1>0, <1>6, <2>1, <2>2
      DEF Sup!Drained, Sup!TypeOK, InStep, ReportOf, Sup!ChildCancelled
    <3>3. QED
      BY <3>1, <3>2 DEF Sup!ReportComesLast, ReportOf
  <2>6. QED
    BY <2>3, <2>4, <2>5 DEF SInv
<1>7. ASSUME NEW s \in Subsystems, Sup!WorkerReturns(s) PROVE SInv'
  <2>1. state' = [state EXCEPT ![s] = "stopped"] /\ pc' = [pc EXCEPT ![s] = "done"]
    <3>1. Sup!CanTransition(state[s], "stopping")
      BY <1>0, <1>7, PathsAreLegal DEF Sup!WorkerReturns, InStep
    <3>2. Sup!CanTransition("stopping", "stopped")
      BY PathsAreLegal
    <3>3. Sup!Transitions(s, <<"stopping", "stopped">>, "done")
      BY <1>7 DEF Sup!WorkerReturns
    <3>4. QED
      BY ONLY <3>1, <3>2, <3>3, TwoTransitions
  <2>2. /\ report' \in [Subsystems -> [final : Sup!LifecycleStates \cup {"none"},
                                       cancelled : BOOLEAN, error : BOOLEAN]]
        /\ report'[s] = [final |-> "stopped", cancelled |-> FALSE, error |-> FALSE]
        /\ \A r \in Subsystems \ {s} : report'[r] = report[r]
    BY <1>0, <1>7, ReportType DEF Sup!WorkerReturns
  <2>3. Sup!TypeOK'
    BY <1>0, <1>7, <2>1, <2>2 DEF Sup!WorkerReturns, Sup!PollWorker, Sup!TypeOK
  <2>4. InStep' /\ Sup!NothingIsRefused'
    BY <1>0, <1>7, <2>1
    DEF Sup!WorkerReturns, Sup!PollWorker, Sup!TypeOK, InStep, Sup!NothingIsRefused
  <2>5. Sup!ReportComesLast'
    <3>1. ASSUME NEW r \in Subsystems \ {s}, (pc[r] = "done")' PROVE ReportOf(r)'
      BY <1>0, <1>7, <2>1, <2>2, <3>1
      DEF Sup!WorkerReturns, Sup!PollWorker, Sup!TypeOK, Sup!ReportComesLast, ReportOf,
          Sup!ChildCancelled
    <3>2. ReportOf(s)'
      BY <1>0, <1>7, <2>1, <2>2
      DEF Sup!WorkerReturns, Sup!PollWorker, Sup!TypeOK, InStep, ReportOf, Sup!ChildCancelled
    <3>3. QED
      BY <3>1, <3>2 DEF Sup!ReportComesLast, ReportOf
  <2>6. QED
    BY <2>3, <2>4, <2>5 DEF SInv
<1>8. ASSUME NEW s \in Subsystems, Sup!WorkerFails(s) PROVE SInv'
  <2>1. state' = [state EXCEPT ![s] = "failed"] /\ pc' = [pc EXCEPT ![s] = "done"]
    <3>1. Sup!CanTransition(state[s], "failed")
      BY <1>0, <1>8, PathsAreLegal DEF Sup!WorkerFails, InStep
    <3>2. Sup!Transitions(s, <<"failed">>, "done")
      BY <1>8 DEF Sup!WorkerFails
    <3>3. QED
      BY ONLY <3>1, <3>2, OneTransition, Zenon
  <2>2. /\ report' \in [Subsystems -> [final : Sup!LifecycleStates \cup {"none"},
                                       cancelled : BOOLEAN, error : BOOLEAN]]
        /\ report'[s] = [final |-> "failed", cancelled |-> FALSE, error |-> TRUE]
        /\ \A r \in Subsystems \ {s} : report'[r] = report[r]
    BY <1>0, <1>8, ReportType DEF Sup!WorkerFails
  <2>3. Sup!TypeOK'
    BY <1>0, <1>8, <2>1, <2>2 DEF Sup!WorkerFails, Sup!PollWorker, Sup!TypeOK
  <2>4. InStep' /\ Sup!NothingIsRefused'
    BY <1>0, <1>8, <2>1
    DEF Sup!WorkerFails, Sup!PollWorker, Sup!TypeOK, InStep, Sup!NothingIsRefused
  <2>5. Sup!ReportComesLast'
    <3>1. ASSUME NEW r \in Subsystems \ {s}, (pc[r] = "done")' PROVE ReportOf(r)'
      BY <1>0, <1>8, <2>1, <2>2, <3>1
      DEF Sup!WorkerFails, Sup!PollWorker, Sup!TypeOK, Sup!ReportComesLast, ReportOf,
          Sup!ChildCancelled
    <3>2. ReportOf(s)'
      BY <1>0, <1>8, <2>1, <2>2
      DEF Sup!WorkerFails, Sup!PollWorker, Sup!TypeOK, InStep, ReportOf, Sup!ChildCancelled
    <3>3. QED
      BY <3>1, <3>2 DEF Sup!ReportComesLast, ReportOf
  <2>6. QED
    BY <2>3, <2>4, <2>5 DEF SInv
<1>9. CASE UNCHANGED Sup!vars
  BY <1>0, <1>9
  DEF Sup!vars, SInv, Sup!TypeOK, InStep, Sup!NothingIsRefused, Sup!ReportComesLast,
      Sup!ChildCancelled
<1>10. QED
  BY <1>1, <1>2, <1>3, <1>4, <1>5, <1>6, <1>7, <1>8, <1>9 DEF Sup!Next, Sup!Supervise

-----------------------------------------------------------------------------

\* However the token and the workers race, for any number of subsystems: run keeps to the
\* lifecycle table, so that no transition it makes is refused, and its report comes after
\* the worker and its token are over and tells how the run ended.
THEOREM SupervisionStaysSound == Sup!Spec => []SupervisionIsSound
<1>1. SInv => SupervisionIsSound
  BY DEF SInv, SupervisionIsSound, Sup!SupervisionIsSound
<1>2. QED
  BY <1>1, InitSInv, NextSInv, PTL DEF Sup!Spec

-----------------------------------------------------------------------------
(* JwksCache: a key that is cached, or was answered, was published when the  *)
(* fetch began (Cached); requests wait in line, each once (Turns); and a     *)
(* request that may fall back on an older set has not waited for longer than *)
(* those that are gone from before it could take (Waits).                    *)

\* What is cached, and the fetch under way.
Cached ==
  /\ value.present => value.keys # {}
  /\ value.at <= now
  /\ \A k \in value.keys : value.at <= withdrawn[k]
  /\ \A k \in served : withdrawn[k] = MaxNow
  /\ fetch.step = "none" <=> refresh.holder = Jwks!Nobody
  /\ fetch.step # "none" => value.at <= fetch.at /\ fetch.at <= now /\ now <= fetch.at + 1
  /\ fetch.step = "answered" => \A k \in fetch.keys : fetch.at <= withdrawn[k]

\* The line for the mutex.
Turns ==
  /\ \A i \in 1..Len(queue) : request[queue[i]].step = "queued"
  /\ \A i, j \in 1..Len(queue) : queue[i] = queue[j] => i = j
  /\ refresh.holder # Jwks!Nobody => request[refresh.holder].step = "fetching"

\* How many requests are served or ahead, and whether the fetch under way has taken its time.
Held == IF refresh.holder = Jwks!Nobody THEN 0 ELSE 1
Ticked == IF fetch.step # "none" /\ fetch.at < now THEN 1 ELSE 0
AllRequests == Cardinality(Requests)

\* The key that r may fall back on was not withdrawn for longer than both lifetimes and
\* the time of so many fetches.
StaleFor(r, fetches) ==
  request[r].stale => now < withdrawn[request[r].kid] + TTL + StaleTTL + fetches

Waits ==
  /\ Len(queue) + Held <= AllRequests
  /\ \A i \in 1..Len(queue) : StaleFor(queue[i], AllRequests - i - Held + Ticked)
  /\ refresh.holder # Jwks!Nobody => StaleFor(refresh.holder, AllRequests - 1 + Ticked)

\* Refreshes that a fresh set did not stop are forced ones, and the last of them is known.
Asked ==
  /\ refresh.last # Jwks!Never => refresh.last <= now
  /\ \A i \in 1..Len(forced) : refresh.last # Jwks!Never /\ forced[i] <= refresh.last
  /\ Jwks!RefreshesAreSpaced

JInv == Jwks!TypeOK /\ Cached /\ Turns /\ Waits /\ Asked /\ Jwks!WithdrawnKeysEnd

\* What a request is like.
RequestRecord == [step : {"idle", "queued", "fetching"}, kid : Keys,
                  forced : BOOLEAN, stale : BOOLEAN]

LEMMA JwksShapes ==
  ASSUME Jwks!TypeOK
  PROVE  /\ now \in Nat /\ value.at \in Nat /\ fetch.at \in Nat /\ refresh.last \in Nat
         /\ overdue \in Nat /\ Len(queue) \in Nat /\ AllRequests \in Nat /\ MaxNow \in Nat
         /\ TTL \in Nat \ {0} /\ StaleTTL \in Nat /\ Held \in {0, 1} /\ Ticked \in {0, 1}
         /\ \A k \in Keys : withdrawn[k] \in Nat
         /\ \A r \in Requests : request[r] \in RequestRecord /\ r # Jwks!Nobody
         /\ \A i \in 1..Len(queue) : queue[i] \in Requests
<1>1. now \in Nat /\ overdue \in Nat /\ \A k \in Keys : withdrawn[k] \in Nat
  BY KeyCacheAssumption DEF Jwks!TypeOK, Jwks!Times
<1>2. value.at \in Nat /\ fetch.at \in Nat /\ refresh.last \in Nat
  BY KeyCacheAssumption DEF Jwks!TypeOK, Jwks!Times, Jwks!Never
<1>3. Len(queue) \in Nat /\ \A i \in 1..Len(queue) : queue[i] \in Requests
  BY LenProperties, ElementOfSeq DEF Jwks!TypeOK
<1>4. AllRequests \in Nat
  BY KeyCacheAssumption, FS_CardinalityType DEF AllRequests
<1>5. \A r \in Requests : request[r] \in RequestRecord /\ r # Jwks!Nobody
  BY KeyCacheAssumption DEF Jwks!TypeOK, RequestRecord, Jwks!Nobody
<1>6. QED
  BY KeyCacheAssumption, <1>1, <1>2, <1>3, <1>4, <1>5 DEF Held, Ticked

\* A line in which nobody stands twice is no longer than there are requests.
LEMMA LineFits ==
  ASSUME NEW s \in Seq(Requests), \A i, j \in 1..Len(s) : s[i] = s[j] => i = j
  PROVE  Len(s) <= AllRequests
<1>1. Len(s) \in Nat /\ s \in [1..Len(s) -> Requests]
  BY LenProperties
<1>2. s \in Injection(1..Len(s), Requests)
  BY <1>1 DEF Injection, IsInjective
<1>3. Cardinality(1..Len(s)) = Len(s)
  <2>1. 1 \in Int /\ Len(s) \in Int /\ Len(s) - 1 + 1 = Len(s) /\ Len(s) \in Nat
    BY ONLY <1>1
  <2>2. Cardinality(1..Len(s)) = IF 1 > Len(s) THEN 0 ELSE Len(s) - 1 + 1
    BY ONLY <2>1, FS_Interval
  <2>3. QED
    BY ONLY <2>1, <2>2
<1>4. QED
  BY <1>2, <1>3, KeyCacheAssumption, FS_Injection DEF AllRequests

\* Taking the p-th out of a sequence.
LEMMA TakenOut ==
  ASSUME NEW S, NEW s \in Seq(S), NEW p \in 1..Len(s)
  PROVE  LET t == SubSeq(s, 1, p - 1) \o SubSeq(s, p + 1, Len(s))
         IN  /\ t \in Seq(S) /\ Len(t) = Len(s) - 1
             /\ \A i \in 1..Len(t) : t[i] = IF i < p THEN s[i] ELSE s[i + 1]
<1> DEFINE a == SubSeq(s, 1, p - 1)
           b == SubSeq(s, p + 1, Len(s))
<1>1. Len(s) \in Nat /\ \A i \in 1..Len(s) : s[i] \in S
  BY LenProperties, ElementOfSeq
<1>2. p \in Nat /\ p >= 1 /\ p <= Len(s)
  BY <1>1
<1>3. /\ a \in Seq(S) /\ Len(a) = p - 1
      /\ \A i \in 1..(p - 1) : a[i] = s[i]
  <2>1. 1 \in Int /\ p - 1 \in Int /\ \A i \in 1..(p - 1) : s[i] \in S
    BY <1>1, <1>2
  <2>2. /\ a \in Seq(S) /\ Len(a) = IF 1 <= p - 1 THEN (p - 1) - 1 + 1 ELSE 0
        /\ \A i \in 1..((p - 1) - 1 + 1) : a[i] = s[1 + i - 1]
    BY <2>1, SubSeqProperties
  <2>3. QED
    BY <1>2, <2>2
<1>4. /\ b \in Seq(S) /\ Len(b) = Len(s) - p
      /\ \A i \in 1..(Len(s) - p) : b[i] = s[p + i]
  <2>1. p + 1 \in Int /\ Len(s) \in Int /\ \A i \in (p + 1)..Len(s) : s[i] \in S
    BY <1>1, <1>2
  <2>2. /\ b \in Seq(S) /\ Len(b) = IF p + 1 <= Len(s) THEN Len(s) - (p + 1) + 1 ELSE 0
        /\ \A i \in 1..(Len(s) - (p + 1) + 1) : b[i] = s[p + 1 + i - 1]
    BY <2>1, SubSeqProperties
  <2>3. QED
    BY <1>1, <1>2, <2>2
<1> HIDE DEF a, b
<1>5. /\ a \o b \in Seq(S) /\ Len(a \o b) = Len(a) + Len(b)
      /\ \A i \in 1..Len(a) + Len(b) : (a \o b)[i] = IF i <= Len(a) THEN a[i] ELSE b[i - Len(a)]
  BY <1>3, <1>4, ConcatProperties
<1>6. Len(a \o b) = Len(s) - 1
  BY <1>1, <1>2, <1>3, <1>4, <1>5
<1>7. ASSUME NEW i \in 1..Len(a \o b)
      PROVE  (a \o b)[i] = IF i < p THEN s[i] ELSE s[i + 1]
  <2>1. i \in Nat /\ i >= 1 /\ i <= Len(s) - 1
    BY <1>1, <1>6
  <2>2. CASE i < p
    BY <1>1, <1>2, <1>3, <1>4, <1>5, <2>1, <2>2
  <2>3. CASE i >= p
    <3>1. (a \o b)[i] = b[i - (p - 1)]
      BY <1>1, <1>2, <1>3, <1>4, <1>5, <2>1, <2>3
    <3>2. i - (p - 1) \in 1..(Len(s) - p) /\ p + (i - (p - 1)) = i + 1
      BY <1>1, <1>2, <2>1, <2>3
    <3>3. QED
      BY <1>2, <1>4, <2>1, <2>3, <3>1, <3>2
  <2>4. QED
    BY <1>2, <2>1, <2>2, <2>3
<1>8. QED
  BY <1>5, <1>6, <1>7 DEF a, b

\* The head of a sequence is its first, and its tail what is left without it.
LEMMA HeadOut ==
  ASSUME NEW S, NEW s \in Seq(S), s # << >>
  PROVE  /\ 1 \in 1..Len(s) /\ Head(s) = s[1]
         /\ Tail(s) \in Seq(S) /\ Len(Tail(s)) = Len(s) - 1
         /\ \A i \in 1..Len(Tail(s)) : Tail(s)[i] = s[i + 1]
<1>1. Len(s) \in Nat \ {0}
  BY EmptySeq
<1>2. QED
  BY <1>1, HeadTailProperties

-----------------------------------------------------------------------------
(* The line for the mutex *)

\* Nobody comes or goes; a key may be withdrawn.
LEMMA LineKept ==
  ASSUME Jwks!TypeOK, Jwks!TypeOK', Turns, Waits,
         UNCHANGED <<queue, request, now, Ticked>>, refresh'.holder = refresh.holder,
         \A k \in Keys : withdrawn'[k] \in {withdrawn[k], now}
  PROVE  Turns' /\ Waits'
<1>1. UNCHANGED Held
  BY DEF Held
<1>2. Turns'
  BY DEF Turns
<1>3. \A i \in 1..Len(queue) : AllRequests - i - Held + Ticked \in Nat
  BY JwksShapes DEF Waits
<1>4. ASSUME NEW r \in Requests, NEW n \in Nat, StaleFor(r, n) PROVE StaleFor(r, n)'
  <2>1. request[r].kid \in Keys
    BY JwksShapes DEF RequestRecord
  <2>2. withdrawn[request[r].kid] \in Nat /\ now \in Nat /\ TTL \in Nat \ {0} /\ StaleTTL \in Nat
    BY <2>1, JwksShapes
  <2>3. QED
    BY <1>4, <2>1, <2>2 DEF StaleFor
<1>5. ASSUME refresh'.holder # Jwks!Nobody PROVE StaleFor(refresh.holder, AllRequests - 1 + Ticked)'
  <2>1. refresh.holder \in Requests /\ refresh.holder # Jwks!Nobody /\ Held = 1
    BY <1>5 DEF Jwks!TypeOK, Held
  <2>2. AllRequests - 1 + Ticked \in Nat
    BY <2>1, JwksShapes DEF Waits
  <2>3. StaleFor(refresh.holder, AllRequests - 1 + Ticked)
    BY <2>1 DEF Waits
  <2>4. QED
    BY <1>4, <2>1, <2>2, <2>3 DEF StaleFor, AllRequests
<1>6. ASSUME NEW i \in 1..Len(queue) PROVE StaleFor(queue[i], AllRequests - i - Held + Ticked)'
  <2>1. StaleFor(queue[i], AllRequests - i - Held + Ticked) /\ queue[i] \in Requests
    BY JwksShapes DEF Waits
  <2>2. QED
    BY <1>1, <1>3, <1>4, <2>1 DEF StaleFor, AllRequests
<1>7. QED
  BY <1>1, <1>2, <1>5, <1>6 DEF Waits, AllRequests

\* The p-th leaves the line, while the mutex stays with whom it was.
LEMMA LineShortens ==
  ASSUME Jwks!TypeOK, Jwks!TypeOK', Turns, Waits, NEW p \in 1..Len(queue),
         Len(queue') = Len(queue) - 1,
         \A i \in 1..Len(queue') : queue'[i] = IF i < p THEN queue[i] ELSE queue[i + 1],
         \A q \in Requests \ {queue[p]} : request'[q] = request[q],
         UNCHANGED <<refresh, fetch, now, withdrawn>>
  PROVE  Turns' /\ Waits'
<1>1. UNCHANGED <<Held, Ticked>>
  BY DEF Held, Ticked
<1> DEFINE was(i) == IF i < p THEN i ELSE i + 1
<1>2. ASSUME NEW i \in 1..Len(queue')
      PROVE  /\ was(i) \in 1..Len(queue) /\ was(i) # p /\ i <= was(i)
             /\ queue'[i] = queue[was(i)] /\ queue[was(i)] \in Requests \ {queue[p]}
  <2>1. was(i) \in 1..Len(queue) /\ was(i) # p /\ i <= was(i) /\ queue'[i] = queue[was(i)]
    <3>1. Len(queue) \in Nat /\ Len(queue') = Len(queue) - 1
      BY JwksShapes
    <3>2. i \in Nat /\ i >= 1 /\ i <= Len(queue) - 1 /\ p \in Nat
      BY <3>1
    <3>3. QED
      BY <3>1, <3>2
  <2>2. QED
    BY <2>1, JwksShapes DEF Turns
<1>3. \A i, j \in 1..Len(queue') : was(i) = was(j) => i = j
  BY JwksShapes
<1>4. refresh.holder # Jwks!Nobody =>
        refresh.holder \in Requests \ {queue[p]}
  BY JwksShapes DEF Turns, Jwks!TypeOK
<1>5. Turns'
  <2>1. \A i \in 1..Len(queue') : request'[queue'[i]].step = "queued"
    BY <1>2 DEF Turns
  <2>2. \A i, j \in 1..Len(queue') : queue'[i] = queue'[j] => i = j
    BY <1>2, <1>3 DEF Turns
  <2>3. refresh'.holder # Jwks!Nobody => request'[refresh'.holder].step = "fetching"
    BY <1>4 DEF Turns
  <2>4. QED
    BY <2>1, <2>2, <2>3 DEF Turns
<1>6. ASSUME NEW i \in 1..Len(queue')
      PROVE  StaleFor(queue[was(i)], AllRequests - i - Held + Ticked)
  <2> DEFINE r == queue[was(i)]
             w == withdrawn[request[r].kid]
  <2>1. StaleFor(r, AllRequests - was(i) - Held + Ticked)
    BY <1>2 DEF Waits
  <2>2. w \in Nat /\ now \in Nat /\ TTL \in Nat /\ StaleTTL \in Nat
    BY <1>2, JwksShapes DEF RequestRecord
  <2>3. /\ AllRequests \in Nat /\ was(i) \in Nat /\ i \in Nat /\ Held \in Nat /\ Ticked \in Nat
        /\ i <= was(i)
    BY <1>2, JwksShapes
  <2>4. AllRequests - was(i) - Held + Ticked <= AllRequests - i - Held + Ticked
    BY <2>3
  <2> DEFINE less == AllRequests - was(i) - Held + Ticked
             more == AllRequests - i - Held + Ticked
  <2>5. less \in Int /\ more \in Int /\ less <= more
    BY <2>3, <2>4
  <2>6. now < w + TTL + StaleTTL + less => now < w + TTL + StaleTTL + more
    <3> HIDE DEF w, less, more
    <3> QED BY <2>2, <2>5
  <2>7. QED
    BY <2>1, <2>6 DEF StaleFor
<1>7. ASSUME NEW i \in 1..Len(queue')
      PROVE  StaleFor(queue[i], AllRequests - i - Held + Ticked)'
  BY <1>1, <1>2, <1>6 DEF StaleFor, AllRequests
<1>8. refresh.holder # Jwks!Nobody => StaleFor(refresh.holder, AllRequests - 1 + Ticked)'
  BY <1>1, <1>4 DEF StaleFor, AllRequests, Waits
<1>9. Len(queue') + Held' <= AllRequests'
  BY <1>1, JwksShapes DEF Waits, AllRequests
<1>10. QED
  BY <1>5, <1>7, <1>8, <1>9 DEF Waits

\* Who holds the mutex is done with it.
LEMMA HolderLeaves ==
  ASSUME Jwks!TypeOK, Jwks!TypeOK', Turns, Waits,
         refresh.holder # Jwks!Nobody, refresh'.holder = Jwks!Nobody, fetch'.step = "none",
         \A q \in Requests \ {refresh.holder} : request'[q] = request[q],
         UNCHANGED <<queue, now, withdrawn>>
  PROVE  Turns' /\ Waits'
<1>1. Held = 1 /\ Held' = 0 /\ Ticked' = 0 /\ Ticked \in {0, 1}
  BY DEF Held, Ticked
<1>2. ASSUME NEW i \in 1..Len(queue)
      PROVE  queue[i] \in Requests \ {refresh.holder} /\ request'[queue[i]] = request[queue[i]]
  BY JwksShapes DEF Turns
<1>3. Turns'
  BY <1>2 DEF Turns
<1>4. ASSUME NEW i \in 1..Len(queue)
      PROVE  StaleFor(queue[i], AllRequests - i - 0 + 0)
  <2> DEFINE w == withdrawn[request[queue[i]].kid]
  <2>1. StaleFor(queue[i], AllRequests - i - 1 + Ticked)
    BY <1>1 DEF Waits
  <2>2. /\ w \in Nat /\ now \in Nat /\ TTL \in Nat /\ StaleTTL \in Nat /\ AllRequests \in Nat
        /\ i \in Nat
    BY <1>2, JwksShapes DEF RequestRecord
  <2>3. now < w + TTL + StaleTTL + (AllRequests - i - 1 + Ticked)
          => now < w + TTL + StaleTTL + (AllRequests - i - 0 + 0)
    <3> HIDE DEF w
    <3> QED BY <1>1, <2>2
  <2>4. QED
    BY <2>1, <2>3 DEF StaleFor
<1>5. ASSUME NEW i \in 1..Len(queue)
      PROVE  StaleFor(queue[i], AllRequests - i - Held + Ticked)'
  BY <1>1, <1>2, <1>4 DEF StaleFor, AllRequests
<1>6. Len(queue') + Held' <= AllRequests'
  BY <1>1, JwksShapes DEF Waits, AllRequests
<1>7. QED
  BY <1>3, <1>5, <1>6 DEF Waits

\* The first in line takes the mutex.
LEMMA HeadTakes ==
  ASSUME Jwks!TypeOK, Jwks!TypeOK', Turns, Waits, queue # << >>,
         refresh.holder = Jwks!Nobody, refresh'.holder = queue[1], fetch'.at = now,
         fetch.step = "none",
         Len(queue') = Len(queue) - 1, \A i \in 1..Len(queue') : queue'[i] = queue[i + 1],
         request' = [request EXCEPT ![queue[1]].step = "fetching"],
         UNCHANGED <<now, withdrawn>>
  PROVE  Turns' /\ Waits'
<1>1. 1 \in 1..Len(queue) /\ queue[1] \in Requests /\ queue[1] # Jwks!Nobody
  <2>1. Len(queue) \in Nat \ {0}
    BY EmptySeq DEF Jwks!TypeOK
  <2>2. QED
    BY <2>1, JwksShapes
<1>2. Held = 0 /\ Held' = 1 /\ Ticked' = 0 /\ Ticked = 0 /\ now \in Nat
  BY <1>1, JwksShapes DEF Held, Ticked
<1>3. request'[queue[1]].step = "fetching"
  BY <1>1 DEF Jwks!TypeOK
<1>4. /\ request'[queue[1]].stale = request[queue[1]].stale
      /\ request'[queue[1]].kid = request[queue[1]].kid
  BY <1>1 DEF Jwks!TypeOK
<1>5. ASSUME NEW i \in 1..Len(queue')
      PROVE  /\ i + 1 \in 1..Len(queue) /\ queue'[i] = queue[i + 1]
             /\ request'[queue'[i]] = request[queue[i + 1]]
  <2>1. i + 1 \in 1..Len(queue) /\ i + 1 # 1
    BY JwksShapes
  <2>2. queue[i + 1] \in Requests \ {queue[1]}
    BY <1>1, <2>1, JwksShapes DEF Turns
  <2>3. QED
    BY <2>1, <2>2 DEF Jwks!TypeOK
<1>6. Turns'
  <2>1. \A i \in 1..Len(queue') : request'[queue'[i]].step = "queued"
    BY <1>5 DEF Turns
  <2>2. \A i, j \in 1..Len(queue') : queue'[i] = queue'[j] => i = j
    <3> SUFFICES ASSUME NEW i \in 1..Len(queue'), NEW j \in 1..Len(queue'), queue'[i] = queue'[j]
                 PROVE  i = j
      OBVIOUS
    <3>1. i + 1 = j + 1
      BY <1>5 DEF Turns
    <3>2. QED
      BY <3>1
  <2>3. QED
    BY <1>3, <2>1, <2>2 DEF Turns
<1>7. StaleFor(refresh.holder, AllRequests - 1 + Ticked)'
  <2>1. StaleFor(queue[1], AllRequests - 1 - Held + Ticked) /\ AllRequests \in Nat
    BY <1>1, JwksShapes DEF Waits
  <2>2. AllRequests - 1 - Held + Ticked = AllRequests - 1 + Ticked'
    BY <1>2, <2>1
  <2>3. QED
    BY <1>4, <2>1, <2>2 DEF StaleFor, AllRequests
<1>8. ASSUME NEW i \in 1..Len(queue')
      PROVE  StaleFor(queue[i], AllRequests - i - Held + Ticked)'
  <2>1. StaleFor(queue[i + 1], AllRequests - (i + 1) - Held + Ticked) /\ AllRequests \in Nat
    BY <1>5, JwksShapes DEF Waits
  <2>2. AllRequests - (i + 1) - Held + Ticked = AllRequests - i - Held' + Ticked'
    BY <1>2, <2>1
  <2>3. QED
    BY <1>5, <2>1, <2>2 DEF StaleFor, AllRequests
<1>9. Len(queue') + Held' <= AllRequests'
  BY <1>2, JwksShapes DEF Waits, AllRequests
<1>10. QED
  BY <1>6, <1>7, <1>8, <1>9 DEF Waits

\* A request joins the line.  It was not in it, so there is room; the key it may fall
\* back on is in the cached set, which is not too old.
LEMMA LineGrows ==
  ASSUME Jwks!TypeOK, Jwks!TypeOK', Cached, Turns, Waits,
         NEW r \in Requests, NEW k \in Keys, Jwks!Missing(r, k)
  PROVE  Turns' /\ Waits'
<1> DEFINE n == Len(queue)
<1>1. /\ queue \in Seq(Requests) /\ queue' = Append(queue, r) /\ n \in Nat
      /\ Len(queue') = n + 1 /\ queue'[n + 1] = r /\ \A i \in 1..n : queue'[i] = queue[i]
  BY JwksShapes, AppendProperties DEF Jwks!TypeOK, Jwks!Missing
<1>2. /\ request[r].step = "idle"
      /\ request' = [request EXCEPT ![r] = [step |-> "queued", kid |-> k, forced |-> Jwks!Fresh,
                       stale |-> ~Jwks!Fresh /\ Jwks!CanServeStale /\ k \in value.keys]]
      /\ UNCHANGED <<now, refresh, fetch, withdrawn, value>>
  BY DEF Jwks!Missing
<1>3. /\ request'[r].step = "queued" /\ request'[r].kid = k
      /\ request'[r].stale => Jwks!CanServeStale /\ k \in value.keys
      /\ \A q \in Requests \ {r} : request'[q] = request[q]
  BY <1>2 DEF Jwks!TypeOK
<1>4. /\ \A i \in 1..n : queue[i] \in Requests \ {r}
      /\ refresh.holder # Jwks!Nobody => refresh.holder \in Requests \ {r}
  BY <1>2, JwksShapes DEF Turns, Jwks!TypeOK
<1>5. UNCHANGED <<Held, Ticked>>
  BY <1>2 DEF Held, Ticked
<1>6. ASSUME NEW i \in 1..(n + 1), i \notin 1..n PROVE i = n + 1
  BY <1>1, <1>6
<1>7. \A i, j \in 1..Len(queue') : queue'[i] = queue'[j] => i = j
  <2> SUFFICES ASSUME NEW i \in 1..Len(queue'), NEW j \in 1..Len(queue'), queue'[i] = queue'[j]
               PROVE  i = j
    OBVIOUS
  <2>1. CASE i \in 1..n /\ j \in 1..n
    BY <1>1, <2>1 DEF Turns
  <2>2. CASE i \notin 1..n \/ j \notin 1..n
    BY <1>1, <1>4, <1>6, <2>2
  <2>3. QED
    BY <2>1, <2>2
<1>8. \A i \in 1..Len(queue') : request'[queue'[i]].step = "queued"
  BY <1>1, <1>3, <1>4, <1>6 DEF Turns
<1>9. Turns'
  BY <1>2, <1>3, <1>4, <1>7, <1>8 DEF Turns
<1>10. Len(queue') + Held' <= AllRequests
  <2>1. CASE refresh.holder = Jwks!Nobody
    <3>1. queue' \in Seq(Requests)
      BY DEF Jwks!TypeOK
    <3>2. Len(queue') <= AllRequests
      BY <1>7, <3>1, LineFits
    <3>3. Held' = 0
      BY <1>5, <2>1 DEF Held
    <3>4. QED
      BY <1>1, <3>2, <3>3, JwksShapes
  <2>2. CASE refresh.holder # Jwks!Nobody
    <3> DEFINE all == Append(queue', refresh.holder)
    <3>1. /\ all \in Seq(Requests) /\ Len(all) = n + 2 /\ all[n + 2] = refresh.holder
          /\ \A i \in 1..(n + 1) : all[i] = queue'[i] /\ queue'[i] \in Requests \ {refresh.holder}
      <4>1. queue' \in Seq(Requests) /\ refresh.holder \in Requests
        BY <1>4, <2>2 DEF Jwks!TypeOK
      <4>2. /\ all \in Seq(Requests) /\ Len(all) = Len(queue') + 1
            /\ all[Len(queue') + 1] = refresh.holder
            /\ \A i \in 1..Len(queue') : all[i] = queue'[i]
        BY <4>1, AppendProperties
      <4>3. \A i \in 1..(n + 1) : queue'[i] \in Requests \ {refresh.holder}
        <5>1. ASSUME NEW i \in 1..n PROVE queue[i] # refresh.holder /\ queue[i] \in Requests
          BY <1>4, <2>2 DEF Turns
        <5>2. QED
          BY <1>1, <1>4, <1>6, <2>2, <5>1
      <4>4. QED
        BY <1>1, <4>2, <4>3
    <3> HIDE DEF all
    <3>2. \A i, j \in 1..Len(all) : all[i] = all[j] => i = j
      <4>1. ASSUME NEW i \in 1..Len(all), i \notin 1..(n + 1) PROVE i = n + 2
        BY <1>1, <3>1, <4>1
      <4>2. QED
        BY <1>1, <1>7, <3>1, <4>1
    <3>3. n + 2 <= AllRequests
      BY <3>1, <3>2, LineFits
    <3>4. Held' = 1
      BY <1>5, <2>2 DEF Held
    <3>5. QED
      BY <1>1, <3>3, <3>4, JwksShapes
  <2>3. QED
    BY <2>1, <2>2
<1>11. ASSUME NEW i \in 1..Len(queue'), i = n + 1
       PROVE  StaleFor(queue[i], AllRequests - i - Held + Ticked)'
  <2> DEFINE w == withdrawn[k]
             room == AllRequests - i - Held' + Ticked'
  <2>1. ASSUME request'[r].stale PROVE now < w + TTL + StaleTTL + room
    <3>1. now < value.at + TTL + StaleTTL /\ value.at <= w
      BY <1>3, <2>1 DEF Jwks!CanServeStale, Cached
    <3>2. room \in Nat
      <4>1. AllRequests \in Nat /\ Held' \in {0, 1} /\ Ticked' \in {0, 1}
        BY <1>5, JwksShapes
      <4>2. Len(queue') = n + 1 /\ i = n + 1 /\ n \in Nat
        BY <1>1, <1>11
      <4>3. QED
        BY ONLY <1>10, <4>1, <4>2
    <3>3. now \in Nat /\ w \in Nat /\ value.at \in Nat /\ TTL \in Nat /\ StaleTTL \in Nat
      BY JwksShapes
    <3>4. QED
      <4> HIDE DEF w, room
      <4> QED BY <3>1, <3>2, <3>3
  <2>2. queue'[i] = r
    BY <1>1, <1>11
  <2>3. QED
    BY <1>2, <1>3, <2>1, <2>2 DEF StaleFor, AllRequests
<1>12. ASSUME NEW i \in 1..n PROVE StaleFor(queue[i], AllRequests - i - Held + Ticked)'
  BY <1>1, <1>2, <1>3, <1>4, <1>5 DEF StaleFor, AllRequests, Waits
<1>13. refresh.holder # Jwks!Nobody => StaleFor(refresh.holder, AllRequests - 1 + Ticked)'
  BY <1>2, <1>3, <1>4, <1>5 DEF StaleFor, AllRequests, Waits
<1>14. ASSUME NEW i \in 1..Len(queue') PROVE StaleFor(queue[i], AllRequests - i - Held + Ticked)'
  <2>1. CASE i \in 1..n
    BY <1>12, <2>1
  <2>2. CASE i \notin 1..n
    <3>1. i = n + 1
      BY <1>1, <1>6, <2>2
    <3>2. QED
      BY <1>11, <3>1
  <2>3. QED
    BY <2>1, <2>2
<1>15. QED
  BY <1>2, <1>9, <1>10, <1>13, <1>14 DEF Waits, AllRequests

\* Time passes only while the holder's fetch is younger than a step, or nobody waits.
LEMMA LineAges ==
  ASSUME Jwks!TypeOK, Jwks!TypeOK', Cached, Turns, Waits, Jwks!Tick
  PROVE  Turns' /\ Waits'
<1> USE DEF Jwks!Tick
<1>1. Turns' /\ UNCHANGED Held
  BY DEF Turns, Held
<1>2. CASE refresh.holder = Jwks!Nobody
  <2>1. Len(queue) = 0
    BY <1>2
  <2>2. QED
    BY <1>1, <1>2, <2>1 DEF Waits, AllRequests
<1>3. CASE refresh.holder # Jwks!Nobody
  <2>1. Ticked = 0 /\ Ticked' = 1 /\ now \in Nat
    BY <1>3, JwksShapes DEF Cached, Ticked
  <2>2. ASSUME NEW r \in Requests, NEW m \in Int, StaleFor(r, m + Ticked)
        PROVE  StaleFor(r, m + Ticked)'
    <3> DEFINE w == withdrawn[request[r].kid]
    <3>1. w \in Nat /\ TTL \in Nat /\ StaleTTL \in Nat
      BY JwksShapes DEF RequestRecord
    <3>2. now < w + TTL + StaleTTL + (m + 0) => now + 1 < w + TTL + StaleTTL + (m + 1)
      <4> HIDE DEF w
      <4> QED BY <2>1, <3>1
    <3>3. QED
      BY <2>1, <2>2, <3>2 DEF StaleFor
  <2>3. ASSUME NEW i \in 1..Len(queue) PROVE StaleFor(queue[i], AllRequests - i - Held + Ticked)'
    <3>1. /\ queue[i] \in Requests /\ AllRequests - i - Held \in Int
          /\ StaleFor(queue[i], (AllRequests - i - Held) + Ticked)
      <4>1. queue[i] \in Requests /\ AllRequests \in Nat /\ Held \in {0, 1} /\ i \in Nat
        BY JwksShapes
      <4>2. QED
        BY <4>1 DEF Waits
    <3>2. QED
      BY <1>1, <2>2, <3>1 DEF AllRequests, StaleFor
  <2>4. StaleFor(refresh.holder, AllRequests - 1 + Ticked)'
    <3>1. /\ refresh.holder \in Requests /\ AllRequests - 1 \in Int
          /\ StaleFor(refresh.holder, (AllRequests - 1) + Ticked)
      BY <1>3, JwksShapes DEF Waits, Jwks!TypeOK
    <3>2. QED
      BY <2>2, <3>1 DEF AllRequests, StaleFor
  <2>5. QED
    BY <1>1, <2>3, <2>4 DEF Waits, AllRequests
<1>4. QED
  BY <1>2, <1>3

-----------------------------------------------------------------------------
(* Each step of the cache keeps JInv *)

Longest == TTL + StaleTTL + AllRequests

LEMMA OverdueIsBounded ==
  /\ Jwks!WithdrawnKeysEnd <=> overdue < Longest
  /\ Jwks!WithdrawnKeysEnd' <=> overdue' < Longest
<1>1. Jwks!Cardinality(Requests) = Cardinality(Requests)
  BY DEF Jwks!Cardinality, Cardinality
<1>2. QED
  BY <1>1 DEF Jwks!WithdrawnKeysEnd, Longest, AllRequests

\* A request comes to its end: it rests, and the key it was given, if any, was not
\* withdrawn for as long as the bound.
LEMMA EndsShape ==
  ASSUME Jwks!TypeOK, NEW r \in Requests, NEW accepted \in BOOLEAN, Jwks!Ends(r, accepted),
         accepted => now < withdrawn[request[r].kid] + Longest
  PROVE  /\ request' \in [Requests -> RequestRecord]
         /\ \A q \in Requests \ {r} : request'[q] = request[q]
         /\ overdue' \in Jwks!Times /\ overdue' < Longest
<1> DEFINE w == withdrawn[request[r].kid]
<1>1. w \in Nat /\ now \in Jwks!Times /\ now \in Nat /\ Longest \in Nat \ {0} /\ MaxNow \in Nat
  <2>1. /\ now \in Nat /\ AllRequests \in Nat /\ MaxNow \in Nat /\ TTL \in Nat \ {0}
        /\ StaleTTL \in Nat /\ request[r] \in RequestRecord /\ \A k \in Keys : withdrawn[k] \in Nat
    BY JwksShapes
  <2>2. w \in Nat
    BY <2>1 DEF RequestRecord
  <2>3. Longest \in Nat \ {0}
    BY ONLY <2>1 DEF Longest
  <2>4. QED
    BY <2>1, <2>2, <2>3 DEF Jwks!TypeOK
<1>2. Jwks!Resting \in RequestRecord
  BY KeyCacheAssumption DEF Jwks!Resting, RequestRecord
<1>3. /\ request' \in [Requests -> RequestRecord]
      /\ \A q \in Requests \ {r} : request'[q] = request[q]
  BY <1>2 DEF Jwks!Ends, Jwks!TypeOK, RequestRecord
<1>4. overdue' \in Jwks!Times /\ overdue' < Longest
  <2>1. CASE accepted /\ w <= now
    <3>1. overdue' = now - w
      BY <2>1 DEF Jwks!Ends
    <3>2. now < w + Longest
      BY <2>1
    <3>3. QED
      <4> HIDE DEF w
      <4> QED BY <1>1, <2>1, <3>1, <3>2 DEF Jwks!Times
  <2>2. CASE ~(accepted /\ w <= now)
    <3>1. overdue' = 0
      BY <2>2 DEF Jwks!Ends
    <3>2. QED
      BY <1>1, <3>1 DEF Jwks!Times
  <2>3. QED
    BY <2>1, <2>2
<1>5. QED
  BY <1>3, <1>4

\* A key of a fresh set was not withdrawn for as long as the set may be used.
LEMMA FreshKeys ==
  ASSUME Jwks!TypeOK, Cached, Jwks!Fresh, NEW k \in value.keys
  PROVE  k \in Keys /\ now < withdrawn[k] + TTL /\ now < withdrawn[k] + Longest
<1>1. k \in Keys /\ value.at <= withdrawn[k] /\ now < value.at + TTL
  BY DEF Jwks!TypeOK, Cached, Jwks!Fresh
<1>2. /\ now \in Nat /\ value.at \in Nat /\ withdrawn[k] \in Nat /\ AllRequests \in Nat
      /\ TTL \in Nat \ {0} /\ StaleTTL \in Nat
  BY <1>1, JwksShapes
<1>3. QED
  BY ONLY <1>1, <1>2 DEF Longest

LEMMA InitJInv == Jwks!Init => JInv
<1> SUFFICES ASSUME Jwks!Init PROVE JInv
  OBVIOUS
<1> USE KeyCacheAssumption DEF Jwks!Init
<1>1. Jwks!TypeOK
  <2>1. queue \in Seq(Requests) /\ Len(queue) = 0
    BY EmptySeq
  <2>2. 0 \in Jwks!Times /\ MaxNow \in Jwks!Times
    BY DEF Jwks!Times
  <2>3. /\ value \in [keys : SUBSET Keys, at : Jwks!Times, present : BOOLEAN]
        /\ refresh \in [holder : Requests \cup {Jwks!Nobody}, last : Jwks!Times \cup {Jwks!Never}]
        /\ fetch \in [at : Jwks!Times, step : {"none", "asked", "answered"}, keys : SUBSET Keys]
    BY <2>2 DEF Jwks!NoFetch
  <2>a. forced \in Seq(Jwks!Times)
    BY EmptySeq
  <2>4. request \in [Requests -> [step : {"idle", "queued", "fetching"}, kid : Keys,
                                  forced : BOOLEAN, stale : BOOLEAN]]
    BY DEF Jwks!Resting
  <2>5. QED
    BY <2>1, <2>2, <2>a, <2>3, <2>4 DEF Jwks!TypeOK
<1>2. Cached
  BY DEF Cached, Jwks!NoFetch
<1>3. Turns /\ Waits
  <2>1. Len(queue) = 0 /\ Held = 0 /\ AllRequests \in Nat
    BY <1>1, JwksShapes DEF Held
  <2>2. QED
    BY <2>1 DEF Turns, Waits
<1>4. Asked
  <2>1. Len(forced) = 0
    BY EmptySeq
  <2>2. QED
    BY <2>1 DEF Asked, Jwks!RefreshesAreSpaced
<1>5. Jwks!WithdrawnKeysEnd
  BY <1>1, JwksShapes, OverdueIsBounded DEF Longest
<1>6. QED
  BY <1>1, <1>2, <1>3, <1>4, <1>5 DEF JInv

\* The key is found in the cached set.
LEMMA FoundKeeps ==
  ASSUME JInv, NEW r \in Requests, NEW k \in Keys, Jwks!Found(r, k)
  PROVE  JInv'
<1> USE DEF Jwks!Found
<1>1. Jwks!TypeOK /\ Cached /\ Turns /\ Waits /\ Asked
  BY DEF JInv
<1>2. overdue' \in Jwks!Times /\ overdue' < Longest
  <2>1. now < withdrawn[k] + Longest
    BY <1>1, FreshKeys
  <2>2. withdrawn[k] \in Nat /\ now \in Nat /\ Longest \in Nat \ {0} /\ now \in Jwks!Times
    <3>1. /\ now \in Nat /\ withdrawn[k] \in Nat /\ AllRequests \in Nat
          /\ TTL \in Nat \ {0} /\ StaleTTL \in Nat
      BY <1>1, JwksShapes
    <3>2. Longest \in Nat \ {0}
      BY ONLY <3>1 DEF Longest
    <3>3. QED
      BY <1>1, <3>1, <3>2 DEF Jwks!TypeOK
  <2>3. QED
    BY <2>1, <2>2, KeyCacheAssumption DEF Jwks!Times
<1>3. Jwks!TypeOK'
  BY <1>1, <1>2 DEF Jwks!TypeOK
<1>4. Cached' /\ Asked'
  BY <1>1 DEF Cached, Asked, Jwks!RefreshesAreSpaced
<1>5. Turns' /\ Waits'
  BY <1>1, <1>3, LineKept DEF Ticked
<1>6. Jwks!WithdrawnKeysEnd'
  BY <1>2, OverdueIsBounded
<1>7. QED
  BY <1>3, <1>4, <1>5, <1>6 DEF JInv

\* A refresh is called for.
LEMMA MissingKeeps ==
  ASSUME JInv, NEW r \in Requests, NEW k \in Keys, Jwks!Missing(r, k)
  PROVE  JInv'
<1> USE DEF Jwks!Missing
<1>1. Jwks!TypeOK /\ Cached /\ Turns /\ Waits /\ Asked
  BY DEF JInv
<1>2. Jwks!TypeOK'
  <2>1. queue' \in Seq(Requests)
    BY <1>1, AppendProperties DEF Jwks!TypeOK
  <2>2. Jwks!Fresh \in BOOLEAN
        /\ (~Jwks!Fresh /\ Jwks!CanServeStale /\ k \in value.keys) \in BOOLEAN
    BY <1>1 DEF Jwks!TypeOK, Jwks!Fresh
  <2>3. [step |-> "queued", kid |-> k, forced |-> Jwks!Fresh,
         stale |-> ~Jwks!Fresh /\ Jwks!CanServeStale /\ k \in value.keys] \in
          [step : {"idle", "queued", "fetching"}, kid : Keys, forced : BOOLEAN, stale : BOOLEAN]
    BY <2>2
  <2>4. request' \in [Requests -> [step : {"idle", "queued", "fetching"}, kid : Keys,
                                   forced : BOOLEAN, stale : BOOLEAN]]
    BY <1>1, <2>3 DEF Jwks!TypeOK
  <2>5. QED
    BY <1>1, <2>1, <2>4 DEF Jwks!TypeOK
<1>3. Cached' /\ Asked'
  BY <1>1 DEF Cached, Asked, Jwks!RefreshesAreSpaced
<1>4. Turns' /\ Waits'
  BY <1>1, <1>2, LineGrows
<1>5. Jwks!WithdrawnKeysEnd'
  BY DEF JInv, Jwks!WithdrawnKeysEnd
<1>6. QED
  BY <1>2, <1>3, <1>4, <1>5 DEF JInv

\* The first in line is served from the set that was refreshed meanwhile.
LEMMA ServedKeeps ==
  ASSUME JInv, NEW r \in Requests, Jwks!Served(r)
  PROVE  JInv'
<1> USE DEF Jwks!Served, Jwks!HasTurn
<1>1. Jwks!TypeOK /\ Cached /\ Turns /\ Waits /\ Asked
  BY DEF JInv
<1>2. /\ 1 \in 1..Len(queue) /\ r = queue[1] /\ queue' \in Seq(Requests)
      /\ Len(queue') = Len(queue) - 1 /\ \A i \in 1..Len(queue') : queue'[i] = queue[i + 1]
  BY <1>1, HeadOut DEF Jwks!TypeOK
<1>3. /\ request' \in [Requests -> RequestRecord]
      /\ \A q \in Requests \ {r} : request'[q] = request[q]
      /\ overdue' \in Jwks!Times /\ overdue' < Longest
  <2>1. request[r].kid \in value.keys => now < withdrawn[request[r].kid] + Longest
    BY <1>1, FreshKeys
  <2>2. /\ (request[r].kid \in value.keys) \in BOOLEAN
        /\ Jwks!Ends(r, request[r].kid \in value.keys)
    OBVIOUS
  <2>3. QED
    BY ONLY <1>1, <2>1, <2>2, EndsShape, r \in Requests
<1>4. Jwks!TypeOK'
  BY <1>1, <1>2, <1>3 DEF Jwks!TypeOK, RequestRecord
<1>5. Cached' /\ Asked'
  BY <1>1 DEF Cached, Asked, Jwks!RefreshesAreSpaced
<1>6. Turns' /\ Waits'
  <2>1. \A i \in 1..Len(queue') : queue'[i] = IF i < 1 THEN queue[i] ELSE queue[i + 1]
    BY <1>2
  <2>2. QED
    BY <1>1, <1>2, <1>3, <1>4, <2>1, LineShortens
<1>7. Jwks!WithdrawnKeysEnd'
  BY <1>3, OverdueIsBounded
<1>8. QED
  BY <1>4, <1>5, <1>6, <1>7 DEF JInv

\* The first in line fetches; when the cached set is fresh the fetch is forced, and the
\* cooldown of the last one is over.
LEMMA FetchBeginsKeeps ==
  ASSUME JInv, NEW r \in Requests, Jwks!FetchBegins(r)
  PROVE  JInv'
<1> USE DEF Jwks!FetchBegins, Jwks!HasTurn
<1>1. Jwks!TypeOK /\ Cached /\ Turns /\ Waits /\ Asked
  BY DEF JInv
<1>2. /\ 1 \in 1..Len(queue) /\ r = queue[1] /\ queue' \in Seq(Requests)
      /\ Len(queue') = Len(queue) - 1 /\ \A i \in 1..Len(queue') : queue'[i] = queue[i + 1]
  BY <1>1, HeadOut DEF Jwks!TypeOK
<1>3. /\ now \in Jwks!Times /\ now \in Nat /\ request[r].forced \in BOOLEAN
      /\ refresh.last \in Jwks!Times \cup {Jwks!Never} /\ now # Jwks!Never
  <2>1. now \in Nat /\ MaxNow \in Nat
    BY <1>1, JwksShapes
  <2>2. /\ now \in Jwks!Times /\ refresh.last \in Jwks!Times \cup {Jwks!Never}
        /\ request[r].forced \in BOOLEAN
    BY <1>1 DEF Jwks!TypeOK
  <2>3. QED
    BY <2>1, <2>2 DEF Jwks!Times, Jwks!Never
<1>4. /\ refresh'.holder = r /\ refresh'.last = IF request[r].forced THEN now ELSE refresh.last
      /\ refresh' \in [holder : Requests \cup {Jwks!Nobody}, last : Jwks!Times \cup {Jwks!Never}]
      /\ fetch' = [at |-> now, step |-> "asked", keys |-> {}]
  BY <1>3
<1>5. Jwks!TypeOK'
  <2>1. request' \in [Requests -> [step : {"idle", "queued", "fetching"}, kid : Keys,
                                   forced : BOOLEAN, stale : BOOLEAN]]
    <3>1. request \in [Requests -> [step : {"idle", "queued", "fetching"}, kid : Keys,
                                    forced : BOOLEAN, stale : BOOLEAN]]
      BY ONLY <1>1 DEF Jwks!TypeOK
    <3>2. request' = [request EXCEPT ![r].step = "fetching"]
      OBVIOUS
    <3>3. QED
      BY ONLY <3>1, <3>2
  <2>2. fetch' \in [at : Jwks!Times, step : {"none", "asked", "answered"}, keys : SUBSET Keys]
    BY <1>3, <1>4
  <2>3. forced' \in Seq(Jwks!Times)
    <3>1. forced \in Seq(Jwks!Times)
      BY ONLY <1>1 DEF Jwks!TypeOK
    <3>2. forced' = forced \/ forced' = Append(forced, now)
      BY Zenon
    <3>3. Append(forced, now) \in Seq(Jwks!Times)
      BY ONLY <1>3, <3>1, AppendProperties
    <3>4. QED
      BY ONLY <3>1, <3>2, <3>3
  <2>4. QED
    BY <1>1, <1>2, <1>4, <2>1, <2>2, <2>3 DEF Jwks!TypeOK
<1>6. Cached'
  <2>1. r # Jwks!Nobody /\ now \in Nat
    BY <1>1, JwksShapes
  <2>2. QED
    BY <1>1, <1>4, <2>1 DEF Cached
<1>7. Turns' /\ Waits'
  <2>1. fetch.step = "none"
    BY <1>1 DEF Cached
  <2>2. fetch'.at = now /\ request' = [request EXCEPT ![queue[1]].step = "fetching"]
    BY <1>2, <1>4
  <2>3. QED
    BY <1>1, <1>2, <1>4, <1>5, <2>1, <2>2, HeadTakes
<1>8. Asked'
  <2>1. refresh'.last # Jwks!Never => refresh'.last <= now
    BY <1>1, <1>3, <1>4 DEF Asked
  <2>2. CASE ~Jwks!Fresh
    <3>1. \A i \in 1..Len(forced) : refresh'.last # Jwks!Never /\ forced[i] <= refresh'.last
      <4> SUFFICES ASSUME NEW i \in 1..Len(forced)
                   PROVE  refresh'.last # Jwks!Never /\ forced[i] <= refresh'.last
        OBVIOUS
      <4>1. /\ refresh.last # Jwks!Never /\ forced[i] <= refresh.last /\ refresh.last <= now
            /\ forced[i] \in Nat
        <5>1. forced \in Seq(Jwks!Times)
          BY <1>1 DEF Jwks!TypeOK
        <5>2. forced[i] \in Jwks!Times
          BY ONLY <5>1, ElementOfSeq
        <5>3. QED
          BY <1>1, <5>2, KeyCacheAssumption DEF Asked, Jwks!Times
      <4>2. now \in Nat /\ refresh.last \in Nat /\ refresh'.last \in {now, refresh.last}
        BY <1>1, <1>4, JwksShapes
      <4>3. QED
        BY <1>3, <4>1, <4>2
    <3>2. QED
      BY <1>1, <2>1, <2>2, <3>1 DEF Asked, Jwks!RefreshesAreSpaced
  <2>3. CASE Jwks!Fresh
    <3>1. request[r].forced /\ ~Jwks!CoolsDown /\ forced' = Append(forced, now)
          /\ refresh'.last = now
      BY <1>4, <2>3
    <3> DEFINE n == Len(forced)
    <3>a. forced \in Seq(Jwks!Times)
      BY <1>1 DEF Jwks!TypeOK
    <3>b. /\ n \in Nat /\ Len(forced') = n + 1 /\ forced'[n + 1] = now
          /\ \A i \in 1..n : forced'[i] = forced[i] /\ forced[i] \in Jwks!Times
      <4>1. n \in Nat /\ \A i \in 1..n : forced[i] \in Jwks!Times
        BY ONLY <3>a, LenProperties, ElementOfSeq
      <4>2. /\ Len(Append(forced, now)) = n + 1 /\ Append(forced, now)[n + 1] = now
            /\ \A i \in 1..n : Append(forced, now)[i] = forced[i]
        BY ONLY <1>3, <3>a, AppendProperties
      <4>3. forced' = Append(forced, now)
        BY <3>1
      <4> HIDE DEF n
      <4>4. QED
        BY ONLY <4>1, <4>2, <4>3
    <3>2. \A i \in 1..n : forced[i] \in Nat /\ forced[i] <= now /\ now - forced[i] >= Cooldown
      <4> SUFFICES ASSUME NEW i \in 1..n
                   PROVE  forced[i] \in Nat /\ forced[i] <= now /\ now - forced[i] >= Cooldown
        OBVIOUS
      <4>1. /\ forced[i] <= refresh.last /\ refresh.last <= now /\ forced[i] \in Nat
            /\ ~(now - refresh.last < Cooldown)
        BY <1>1, <3>1, <3>b, KeyCacheAssumption DEF Asked, Jwks!Times, Jwks!CoolsDown
      <4>2. refresh.last \in Nat /\ now \in Nat /\ Cooldown \in Nat
        BY <1>1, JwksShapes, KeyCacheAssumption
      <4>3. QED
        BY ONLY <4>1, <4>2
    <3> HIDE DEF n
    <3>3. \A i \in 1..Len(forced') : refresh'.last # Jwks!Never /\ forced'[i] <= refresh'.last
      <4>1. \A i \in 1..Len(forced') : i \in 1..n \/ i = n + 1
        BY ONLY <3>b
      <4>2. QED
        BY ONLY <1>3, <3>1, <3>b, <3>2, <4>1
    <3>4. Jwks!RefreshesAreSpaced'
      <4> SUFFICES ASSUME NEW i \in 1..Len(forced'), NEW j \in 1..Len(forced'), i < j
                   PROVE  forced'[j] - forced'[i] >= Cooldown
        BY DEF Jwks!RefreshesAreSpaced
      <4>1. i \in 1..n /\ (j \in 1..n \/ j = n + 1)
        BY ONLY <3>b, i \in 1..Len(forced'), j \in 1..Len(forced'), i < j
      <4>2. CASE j \in 1..n
        <5>1. forced[j] - forced[i] >= Cooldown
          BY <1>1, <4>1, <4>2 DEF Asked, Jwks!RefreshesAreSpaced, n
        <5>2. QED
          BY ONLY <3>b, <4>1, <4>2, <5>1
      <4>3. CASE j = n + 1
        BY ONLY <3>b, <3>2, <4>1, <4>3
      <4>4. QED
        BY <4>1, <4>2, <4>3
    <3>5. QED
      BY <2>1, <3>3, <3>4 DEF Asked
  <2>4. QED
    BY <2>2, <2>3
<1>9. Jwks!WithdrawnKeysEnd'
  BY DEF JInv, Jwks!WithdrawnKeysEnd
<1>10. QED
  BY <1>5, <1>6, <1>7, <1>8, <1>9 DEF JInv

\* What the holder leaves behind as it releases the mutex.
LEMMA ReleasesShape ==
  ASSUME Jwks!TypeOK, Jwks!Releases
  PROVE  /\ refresh'.holder = Jwks!Nobody /\ refresh'.last = refresh.last
         /\ refresh' \in [holder : Requests \cup {Jwks!Nobody}, last : Jwks!Times \cup {Jwks!Never}]
         /\ fetch'.step = "none" /\ fetch'.keys = {}
         /\ fetch' \in [at : Jwks!Times, step : {"none", "asked", "answered"}, keys : SUBSET Keys]
<1>1. 0 \in Jwks!Times
  BY KeyCacheAssumption DEF Jwks!Times
<1>2. QED
  BY <1>1 DEF Jwks!TypeOK, Jwks!Releases, Jwks!NoFetch

\* The holder of the mutex stores what it fetched.
LEMMA FetchStoredKeeps ==
  ASSUME JInv, NEW r \in Requests, Jwks!FetchStored(r)
  PROVE  JInv' /\ value'.keys # {} /\ value'.at >= value.at
<1> USE DEF Jwks!FetchStored
<1>1. Jwks!TypeOK /\ Cached /\ Turns /\ Waits /\ Asked
  BY DEF JInv
<1>2. r # Jwks!Nobody /\ refresh.holder = r /\ fetch.step = "answered"
  BY <1>1, JwksShapes
<1>3. /\ value.at <= fetch.at /\ fetch.at <= now /\ now <= fetch.at + 1
      /\ \A k \in fetch.keys : k \in Keys /\ fetch.at <= withdrawn[k]
      /\ fetch.at \in Jwks!Times
  BY <1>1, <1>2 DEF Cached, Jwks!TypeOK
<1>4. value' = [keys |-> fetch.keys, at |-> fetch.at, present |-> TRUE] /\ fetch.keys # {}
  OBVIOUS
<1>5. /\ request' \in [Requests -> RequestRecord]
      /\ \A q \in Requests \ {r} : request'[q] = request[q]
      /\ overdue' \in Jwks!Times /\ overdue' < Longest
  <2>1. ASSUME request[r].kid \in fetch.keys PROVE now < withdrawn[request[r].kid] + Longest
    <3> DEFINE w == withdrawn[request[r].kid]
    <3>1. fetch.at <= w /\ w \in Nat /\ now <= fetch.at + 1
      BY <1>1, <1>3, <2>1, JwksShapes
    <3>2. AllRequests >= 1
      BY <1>1, <1>2, JwksShapes DEF Waits, Held
    <3>3. fetch.at \in Nat /\ now \in Nat /\ Longest \in Nat /\ Longest >= 2
      <4>1. /\ fetch.at \in Nat /\ now \in Nat /\ TTL \in Nat \ {0} /\ StaleTTL \in Nat
            /\ AllRequests \in Nat
        BY <1>1, JwksShapes
      <4>2. QED
        BY ONLY <3>2, <4>1 DEF Longest
    <3>4. now < w + Longest
      <4> HIDE DEF w
      <4> QED BY ONLY <3>1, <3>3
    <3>5. QED
      BY <3>4
  <2>2. /\ (request[r].kid \in fetch.keys) \in BOOLEAN
        /\ Jwks!Ends(r, request[r].kid \in fetch.keys)
    OBVIOUS
  <2>3. QED
    BY ONLY <1>1, <2>1, <2>2, EndsShape, r \in Requests
<1>6. Jwks!TypeOK'
  <2>1. value' \in [keys : SUBSET Keys, at : Jwks!Times, present : BOOLEAN]
    BY <1>3, <1>4
  <2>2. QED
    BY <1>1, <1>5, <2>1, ReleasesShape DEF Jwks!TypeOK, RequestRecord
<1>7. Cached'
  BY <1>1, <1>3, <1>4, ReleasesShape DEF Cached
<1>8. Turns' /\ Waits'
  BY <1>1, <1>2, <1>5, <1>6, ReleasesShape, HolderLeaves
<1>9. Asked'
  BY <1>1, ReleasesShape DEF Asked, Jwks!RefreshesAreSpaced
<1>10. Jwks!WithdrawnKeysEnd'
  BY <1>5, OverdueIsBounded
<1>11. value'.keys # {} /\ value'.at >= value.at
  BY <1>1, <1>3, <1>4, JwksShapes
<1>12. QED
  BY <1>6, <1>7, <1>8, <1>9, <1>10, <1>11 DEF JInv

\* The fetch fails; the request may fall back on a key of the older set.
LEMMA FetchFailsKeeps ==
  ASSUME JInv, NEW r \in Requests, Jwks!FetchFails(r)
  PROVE  JInv'
<1> USE DEF Jwks!FetchFails
<1>1. Jwks!TypeOK /\ Cached /\ Turns /\ Waits /\ Asked
  BY DEF JInv
<1>2. r # Jwks!Nobody /\ refresh.holder = r
  BY <1>1, JwksShapes
<1>3. request[r].stale \in BOOLEAN
  BY <1>1, JwksShapes DEF RequestRecord
<1>4. /\ request' \in [Requests -> RequestRecord]
      /\ \A q \in Requests \ {r} : request'[q] = request[q]
      /\ overdue' \in Jwks!Times /\ overdue' < Longest
  <2>1. ASSUME request[r].stale PROVE now < withdrawn[request[r].kid] + Longest
    <3> DEFINE w == withdrawn[request[r].kid]
    <3>1. now < w + TTL + StaleTTL + (AllRequests - 1 + Ticked)
      BY <1>1, <1>2, <2>1 DEF Waits, StaleFor
    <3>2. /\ w \in Nat /\ now \in Nat /\ TTL \in Nat /\ StaleTTL \in Nat /\ AllRequests \in Nat
          /\ Ticked \in {0, 1}
      BY <1>1, JwksShapes DEF RequestRecord
    <3>3. now < w + Longest
      <4> HIDE DEF w
      <4> QED BY ONLY <3>1, <3>2 DEF Longest
    <3>4. QED
      BY <3>3
  <2>2. QED
    BY <1>1, <1>3, <2>1, EndsShape
<1>5. Jwks!TypeOK'
  BY <1>1, <1>4, ReleasesShape DEF Jwks!TypeOK, RequestRecord
<1>6. Cached'
  BY <1>1, ReleasesShape DEF Cached
<1>7. Turns' /\ Waits'
  BY <1>1, <1>2, <1>4, <1>5, ReleasesShape, HolderLeaves
<1>8. Asked'
  BY <1>1, ReleasesShape DEF Asked, Jwks!RefreshesAreSpaced
<1>9. Jwks!WithdrawnKeysEnd'
  BY <1>4, OverdueIsBounded
<1>10. QED
  BY <1>5, <1>6, <1>7, <1>8, <1>9 DEF JInv

\* A request is given up where it stands.
LEMMA DroppedKeeps ==
  ASSUME JInv, NEW r \in Requests, Jwks!Dropped(r)
  PROVE  JInv'
<1> USE DEF Jwks!Dropped
<1>1. Jwks!TypeOK /\ Cached /\ Turns /\ Waits /\ Asked
  BY DEF JInv
<1>2. /\ request' \in [Requests -> RequestRecord]
      /\ \A q \in Requests \ {r} : request'[q] = request[q]
  <2>1. Jwks!Resting \in RequestRecord
    BY KeyCacheAssumption DEF Jwks!Resting, RequestRecord
  <2>2. QED
    BY <1>1, <2>1 DEF Jwks!TypeOK, RequestRecord
<1>3. Jwks!WithdrawnKeysEnd'
  BY DEF JInv, Jwks!WithdrawnKeysEnd
<1>4. CASE refresh.holder = r /\ Jwks!Releases /\ UNCHANGED queue
  <2>1. r # Jwks!Nobody
    BY <1>1, JwksShapes
  <2>2. Jwks!TypeOK'
    BY <1>1, <1>2, <1>4, ReleasesShape DEF Jwks!TypeOK, RequestRecord
  <2>3. Cached' /\ Asked'
    BY <1>1, <1>4, ReleasesShape DEF Cached, Asked, Jwks!RefreshesAreSpaced
  <2>4. Turns' /\ Waits'
    BY <1>1, <1>2, <1>4, <2>1, <2>2, ReleasesShape, HolderLeaves
  <2>5. QED
    BY <1>3, <2>2, <2>3, <2>4 DEF JInv
<1>5. ASSUME NEW p \in 1..Len(queue), queue[p] = r, UNCHANGED <<refresh, fetch>>,
             queue' = SubSeq(queue, 1, p - 1) \o SubSeq(queue, p + 1, Len(queue))
      PROVE  JInv'
  <2>1. /\ queue' \in Seq(Requests) /\ Len(queue') = Len(queue) - 1
        /\ \A i \in 1..Len(queue') : queue'[i] = IF i < p THEN queue[i] ELSE queue[i + 1]
    <3>1. queue \in Seq(Requests)
      BY <1>1 DEF Jwks!TypeOK
    <3>2. QED
      BY ONLY <1>5, <3>1, TakenOut
  <2>2. Jwks!TypeOK'
    BY <1>1, <1>2, <1>5, <2>1 DEF Jwks!TypeOK, RequestRecord
  <2>3. Cached' /\ Asked'
    BY <1>1, <1>5 DEF Cached, Asked, Jwks!RefreshesAreSpaced
  <2>4. Turns' /\ Waits'
    BY <1>1, <1>2, <1>5, <2>1, <2>2, LineShortens
  <2>5. QED
    BY <1>3, <2>2, <2>3, <2>4 DEF JInv
<1>6. QED
  BY <1>4, <1>5

\* The server, which publishes and withdraws keys and answers, and time.
LEMMA ServerAnswersKeeps ==
  ASSUME JInv, Jwks!ServerAnswers
  PROVE  JInv'
<1> USE DEF Jwks!ServerAnswers
<1>1. Jwks!TypeOK /\ Cached /\ Turns /\ Waits /\ Asked
  BY DEF JInv
<1>2. /\ fetch'.at = fetch.at /\ fetch'.step = "answered" /\ fetch'.keys = served
      /\ fetch' \in [at : Jwks!Times, step : {"none", "asked", "answered"}, keys : SUBSET Keys]
  BY <1>1 DEF Jwks!TypeOK
<1>3. Jwks!TypeOK'
  BY <1>1, <1>2 DEF Jwks!TypeOK
<1>4. Cached'
  <2>1. \A k \in served : fetch.at <= withdrawn[k]
    <3> SUFFICES ASSUME NEW k \in served PROVE fetch.at <= withdrawn[k]
      OBVIOUS
    <3>1. withdrawn[k] = MaxNow /\ fetch.at \in 0..MaxNow
      BY <1>1 DEF Cached, Jwks!TypeOK, Jwks!Times
    <3>2. QED
      BY <3>1, KeyCacheAssumption
  <2>2. QED
    BY <1>1, <1>2, <2>1 DEF Cached
<1>5. Turns' /\ Waits'
  <2>1. UNCHANGED Ticked
    BY <1>2 DEF Ticked
  <2>2. QED
    BY <1>1, <1>3, <2>1, LineKept
<1>6. Asked' /\ Jwks!WithdrawnKeysEnd'
  BY <1>1 DEF JInv, Asked, Jwks!RefreshesAreSpaced, Jwks!WithdrawnKeysEnd
<1>7. QED
  BY <1>3, <1>4, <1>5, <1>6 DEF JInv

LEMMA PublishKeepsKeys ==
  ASSUME JInv, NEW k \in Keys, Jwks!Publish(k) \/ Jwks!Withdraw(k)
  PROVE  JInv'
<1> USE DEF Jwks!Publish, Jwks!Withdraw
<1>1. Jwks!TypeOK /\ Cached /\ Turns /\ Waits /\ Asked
  BY DEF JInv
<1>2. /\ served' \subseteq Keys /\ withdrawn' \in [Keys -> Jwks!Times]
      /\ \A h \in Keys : withdrawn'[h] \in {withdrawn[h], now}
      /\ \A h \in served' : withdrawn'[h] = MaxNow
  BY <1>1 DEF Jwks!TypeOK, Cached
<1>3. Jwks!TypeOK'
  BY <1>1, <1>2 DEF Jwks!TypeOK
<1>4. Cached'
  <2>1. \A h \in value.keys : value.at <= withdrawn'[h]
    BY <1>1, <1>2, JwksShapes DEF Cached, Jwks!TypeOK
  <2>2. fetch.step = "answered" => \A h \in fetch.keys : fetch.at <= withdrawn'[h]
    BY <1>1, <1>2, JwksShapes DEF Cached, Jwks!TypeOK
  <2>3. QED
    BY <1>1, <1>2, <2>1, <2>2 DEF Cached
<1>5. Turns' /\ Waits'
  <2>1. UNCHANGED Ticked
    BY DEF Ticked
  <2>2. QED
    BY <1>1, <1>2, <1>3, <2>1, LineKept
<1>6. Asked' /\ Jwks!WithdrawnKeysEnd'
  BY <1>1 DEF JInv, Asked, Jwks!RefreshesAreSpaced, Jwks!WithdrawnKeysEnd
<1>7. QED
  BY <1>3, <1>4, <1>5, <1>6 DEF JInv

LEMMA TickKeeps ==
  ASSUME JInv, Jwks!Tick
  PROVE  JInv'
<1> USE DEF Jwks!Tick
<1>1. Jwks!TypeOK /\ Cached /\ Turns /\ Waits /\ Asked
  BY DEF JInv
<1>2. now \in Nat /\ now + 1 \in Jwks!Times /\ 0 \in Jwks!Times
  BY <1>1, JwksShapes DEF Jwks!Times
<1>3. Jwks!TypeOK'
  BY <1>1, <1>2 DEF Jwks!TypeOK
<1>4. Cached'
  BY <1>1, JwksShapes DEF Cached
<1>5. Turns' /\ Waits'
  BY <1>1, <1>3, LineAges
<1>6. Asked'
  BY <1>1, JwksShapes DEF Asked, Jwks!RefreshesAreSpaced
<1>7. Jwks!WithdrawnKeysEnd'
  <2>1. overdue' < Longest
    BY <1>1, JwksShapes DEF Longest
  <2>2. QED
    BY <2>1, OverdueIsBounded
<1>8. QED
  BY <1>3, <1>4, <1>5, <1>6, <1>7 DEF JInv

\* While it lasts, a step leaves the cached set alone or puts a newer one in its place.
LEMMA NextKeepsJInv ==
  JInv /\ [Jwks!Next]_(Jwks!vars) =>
    JInv' /\ (value.present => value'.keys # {} /\ value'.at >= value.at)
<1> SUFFICES ASSUME JInv, [Jwks!Next]_(Jwks!vars)
             PROVE  JInv' /\ (value.present => value'.keys # {} /\ value'.at >= value.at)
  OBVIOUS
<1>1. ASSUME UNCHANGED value PROVE value.present => value'.keys # {} /\ value'.at >= value.at
  BY <1>1, JwksShapes DEF JInv, Cached
<1>2. ASSUME NEW r \in Requests, NEW k \in Keys, Jwks!Found(r, k) \/ Jwks!Missing(r, k)
      PROVE  JInv' /\ UNCHANGED value
  BY <1>2, FoundKeeps, MissingKeeps DEF Jwks!Found, Jwks!Missing
<1>3. ASSUME NEW r \in Requests, Jwks!Served(r) \/ Jwks!FetchBegins(r) \/ Jwks!FetchFails(r)
                                 \/ Jwks!Dropped(r)
      PROVE  JInv' /\ UNCHANGED value
  BY <1>3, ServedKeeps, FetchBeginsKeeps, FetchFailsKeeps, DroppedKeeps
  DEF Jwks!Served, Jwks!FetchBegins, Jwks!FetchFails, Jwks!Dropped
<1>4. ASSUME NEW r \in Requests, Jwks!FetchStored(r)
      PROVE  JInv' /\ (value.present => value'.keys # {} /\ value'.at >= value.at)
  BY <1>4, FetchStoredKeeps
<1>5. ASSUME NEW k \in Keys, Jwks!Publish(k) \/ Jwks!Withdraw(k) PROVE JInv' /\ UNCHANGED value
  BY <1>5, PublishKeepsKeys DEF Jwks!Publish, Jwks!Withdraw
<1>6. CASE Jwks!ServerAnswers \/ Jwks!Tick
  BY <1>1, <1>6, ServerAnswersKeeps, TickKeeps DEF Jwks!ServerAnswers, Jwks!Tick
<1>7. CASE UNCHANGED Jwks!vars
  <2> USE <1>7 DEF Jwks!vars
  <2>1. Jwks!TypeOK' /\ Cached' /\ Asked'
    BY DEF JInv, Jwks!TypeOK, Cached, Asked, Jwks!RefreshesAreSpaced
  <2>2. Turns' /\ Waits'
    BY <2>1, LineKept DEF JInv, Ticked
  <2>3. Jwks!WithdrawnKeysEnd'
    BY DEF JInv, Jwks!WithdrawnKeysEnd
  <2>4. QED
    BY <1>1, <2>1, <2>2, <2>3 DEF JInv
<1>8. QED
  BY <1>1, <1>2, <1>3, <1>4, <1>5, <1>6, <1>7 DEF Jwks!Next

LEMMA JwksInvariant == Jwks!Spec => []JInv
BY InitJInv, NextKeepsJInv, PTL DEF Jwks!Spec

\* However many requests wait for the mutex, and whichever of them are dropped, a key that
\* was withdrawn is accepted for less than both lifetimes of a cached set and one fetch of
\* each request.
THEOREM WithdrawnKeysComeToAnEnd == Jwks!Spec => []WithdrawnKeysEnd
<1>1. JInv => WithdrawnKeysEnd
  BY DEF JInv, WithdrawnKeysEnd
<1>2. QED
  BY <1>1, JwksInvariant, PTL

\* Any two fetches that begin while the cached set is fresh, for tokens with unknown keys,
\* are a cooldown apart; of the fetches for a set that is no longer fresh nothing is said.
THEOREM RefreshesKeepTheirDistance == Jwks!Spec => []RefreshesAreSpaced
<1>1. JInv => RefreshesAreSpaced
  BY DEF JInv, Asked, RefreshesAreSpaced
<1>2. QED
  BY <1>1, JwksInvariant, PTL

\* Once keys are cached, no step takes them away or puts an older set in their place.
THEOREM CacheMovesForward == Jwks!Spec => CacheNeverGoesBack
<1>1. JInv /\ [Jwks!Next]_(Jwks!vars) =>
        [value.present => value'.keys # {} /\ value'.at >= value.at]_(Jwks!vars)
  BY NextKeepsJInv
<1>2. QED
  BY <1>1, JwksInvariant, PTL DEF Jwks!Spec, CacheNeverGoesBack, Jwks!CacheNeverGoesBack

=============================================================================
