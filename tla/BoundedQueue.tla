----------------------------- MODULE BoundedQueue -----------------------------
(***************************************************************************)
(* The bounded event queue of mega-runtime (event_bus.rs): publishers on   *)
(* any thread, one asynchronous receiver woken through a tokio Notify.     *)
(*                                                                         *)
(* Everything done under the queue's mutex is one action.  recv takes the  *)
(* mutex, finds the queue empty, releases it, and only then awaits the     *)
(* notification: that gap is a state of its own ("leaving").  Notify keeps *)
(* at most one permit when nobody is parked.                               *)
(***************************************************************************)
EXTENDS Naturals, Sequences

CONSTANTS
  Capacity,   \* of the queue
  Policies,   \* the overflow policies to consider
  MaxItems    \* bound: items published; item i is the i-th one

ASSUME QueueAssumption ==
  /\ Capacity \in Nat \ {0}   \* bounded_queue refuses 0
  /\ Policies \subseteq {"reject", "drop_newest", "drop_oldest"}
  /\ MaxItems \in Nat

VARIABLES
  policy,     \* fixed at construction
  items,      \* QueueState.items
  closed,
  permit,     \* Notify holds a permit
  receiver,   \* where the receiver is: "idle", "leaving", "parked", "woken", "ended"
  published,  \* how many items publish was called with
  stats,      \* QueueStats
  received    \* history: what recv returned, in order

vars == <<policy, items, closed, permit, receiver, published, stats, received>>

Item == 1..MaxItems

TypeOK ==
  /\ policy \in Policies
  /\ items \in Seq(Item)
  /\ closed \in BOOLEAN
  /\ permit \in BOOLEAN
  /\ receiver \in {"idle", "leaving", "parked", "woken", "ended"}
  /\ published \in 0..MaxItems
  /\ stats \in [accepted : Nat, dropped_newest : Nat, dropped_oldest : Nat]
  /\ received \in Seq(Item)

Init ==
  /\ policy \in Policies
  /\ items = << >>
  /\ closed = FALSE
  /\ permit = FALSE
  /\ receiver = "idle"
  /\ published = 0
  /\ stats = [accepted |-> 0, dropped_newest |-> 0, dropped_oldest |-> 0]
  /\ received = << >>

\* Mutant of NotifyOne: notify_waiters, which leaves no permit.
NotifyWaiters ==
  /\ receiver' = IF receiver = "parked" THEN "woken" ELSE receiver
  /\ permit' = permit

\* Notify::notify_one: wake the parked receiver, or leave a permit.
NotifyOne ==
  IF receiver = "parked"
  THEN receiver' = "woken" /\ permit' = permit
  ELSE receiver' = receiver /\ permit' = TRUE

\* publish with room in the queue.
Publish ==
  /\ published < MaxItems
  /\ ~closed
  /\ Len(items) < Capacity
  /\ published' = published + 1
  /\ items' = Append(items, published + 1)
  /\ stats' = [stats EXCEPT !.accepted = @ + 1]
  /\ NotifyOne
  /\ UNCHANGED <<policy, closed, received>>

\* publish on a full queue: the policy decides who loses.  Err(Full) changes
\* nothing but that the item is gone.
PublishFull ==
  /\ published < MaxItems
  /\ ~closed
  /\ Len(items) >= Capacity
  /\ published' = published + 1
  /\ \/ /\ policy = "reject"
        /\ UNCHANGED <<items, stats, permit, receiver>>
     \/ /\ policy = "drop_newest"
        /\ stats' = [stats EXCEPT !.dropped_newest = @ + 1]
        /\ UNCHANGED <<items, permit, receiver>>
     \/ /\ policy = "drop_oldest"
        /\ items' = Append(Tail(items), published + 1)
        /\ stats' = [stats EXCEPT !.dropped_oldest = @ + 1, !.accepted = @ + 1]
        /\ NotifyOne
  /\ UNCHANGED <<policy, closed, received>>

\* Mutant of Close: nobody is told.
CloseSilently ==
  /\ ~closed
  /\ closed' = TRUE
  /\ UNCHANGED <<policy, items, permit, receiver, published, stats, received>>

\* close, by a publisher or the receiver.
Close ==
  /\ ~closed
  /\ closed' = TRUE
  /\ NotifyOne
  /\ UNCHANGED <<policy, items, published, stats, received>>

\* One turn of the loop in recv, under the mutex: an item, the end, or on to
\* the await.
Receive ==
  /\ receiver \in {"idle", "woken"}
  /\ \/ /\ items # << >>
        /\ received' = Append(received, Head(items))
        /\ items' = Tail(items)
        /\ receiver' = "idle"
     \/ /\ items = << >>
        /\ receiver' = IF closed THEN "ended" ELSE "leaving"
        /\ UNCHANGED <<items, received>>
  /\ UNCHANGED <<policy, closed, permit, published, stats>>

\* notified().await: a permit is taken at once, otherwise the receiver parks.
Await ==
  /\ receiver = "leaving"
  /\ IF permit THEN permit' = FALSE /\ receiver' = "woken"
     ELSE permit' = permit /\ receiver' = "parked"
  /\ UNCHANGED <<policy, items, closed, published, stats, received>>

\* The recv future is dropped before it completes (a select! took another
\* branch) and recv is called again; Notified hands an unused wake-up back.
Cancel ==
  /\ receiver \in {"leaving", "parked", "woken"}
  /\ permit' = (permit \/ receiver = "woken")
  /\ receiver' = "idle"
  /\ UNCHANGED <<policy, items, closed, published, stats, received>>

Next == Publish \/ PublishFull \/ Close \/ Receive \/ Await \/ Cancel

Spec == Init /\ [][Next]_vars

\* The receiver's task is polled as long as it can move.
FairSpec == Spec /\ WF_vars(Receive) /\ WF_vars(Await)

-----------------------------------------------------------------------------
(* Properties *)

\* No wake-up is lost: the receiver is never parked, nor about to park without
\* a permit, while there is an item to take or the end to report.
NoLostWakeup ==
  /\ receiver = "parked" => items = << >> /\ ~closed
  /\ receiver = "leaving" /\ (items # << >> \/ closed) => permit

\* The counters account for every accepted item: received, waiting, or pushed
\* out by a newer one; and the queue never grows beyond its capacity.
AcceptedIsAccountedFor ==
  /\ Len(items) <= Capacity
  /\ stats.accepted = Len(received) + Len(items) + stats.dropped_oldest
  /\ policy # "drop_oldest" => stats.dropped_oldest = 0
  /\ policy # "drop_newest" => stats.dropped_newest = 0

\* The receiver sees items in the order of publication, and what waits is
\* newer than what it saw: no item is duplicated or overtaken, whatever is
\* dropped.
InOrder ==
  LET all == received \o items
  IN \A i, j \in 1..Len(all) : i < j => all[i] < all[j]

\* All three, and the types of the variables.
QueueIsSound == TypeOK /\ NoLostWakeup /\ AcceptedIsAccountedFor /\ InOrder

\* After close the receiver learns that the queue has ended, and not before it
\* took everything that was still in it.
EndIsReported == closed ~> (receiver = "ended" /\ items = << >>)

=============================================================================
