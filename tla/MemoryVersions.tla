---------------------------- MODULE MemoryVersions ----------------------------
(***************************************************************************)
(* What mega-store promises about each memory, without revisions, jobs or  *)
(* evidence: a memory is learned, may wait for review, may be replaced by  *)
(* a new active one, forgotten, and deleted for good; and a search finds   *)
(* exactly the active ones at every moment.                                *)
(***************************************************************************)
CONSTANTS Memories

VARIABLES phase, found

vars == <<phase, found>>

Current == {"active", "pending_review", "superseded"}
Ended == {"rejected", "forgotten"}

Init ==
  /\ phase = [m \in Memories |-> "absent"]
  /\ found = {}

\* A search answers from the phases the step ends in.
Search == found' = {m \in Memories : phase'[m] = "active"}

Learn(m) ==
  /\ phase[m] = "absent"
  /\ \E p \in {"active", "pending_review"} : phase' = [phase EXCEPT ![m] = p]
  /\ Search

\* One step: the old memory is superseded as the new one becomes active.
Replace(old, new) ==
  /\ phase[old] \in Current
  /\ phase[new] = "absent"
  /\ phase' = [phase EXCEPT ![old] = "superseded", ![new] = "active"]
  /\ Search

Decide(m) ==
  /\ phase[m] = "pending_review"
  /\ \E p \in {"active", "rejected"} : phase' = [phase EXCEPT ![m] = p]
  /\ Search

Forget(m) ==
  /\ phase[m] \in Current \cup Ended
  /\ phase' = [phase EXCEPT ![m] = "forgotten"]
  /\ Search

Delete(m) ==
  /\ phase[m] \in Current \cup Ended
  /\ phase' = [phase EXCEPT ![m] = "gone"]
  /\ Search

Next ==
  \E m \in Memories :
    \/ Learn(m) \/ Decide(m) \/ Forget(m) \/ Delete(m)
    \/ \E n \in Memories : Replace(m, n)

Spec == Init /\ [][Next]_vars

=============================================================================
