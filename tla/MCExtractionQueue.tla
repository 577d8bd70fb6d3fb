-------------------------- MODULE MCExtractionQueue --------------------------
(* A small instance of ExtractionQueue for TLC. *)
EXTENDS ExtractionQueue

\* Each worker has an id of its own, or all go by the same.
OwnIds == CHOOSE naming \in [Workers -> WorkerIds] :
            \A v, w \in Workers : v # w => naming[v] # naming[w]
OneId(i) == [w \in Workers |-> i]
TwoNamings == {OwnIds, OneId(CHOOSE i \in WorkerIds : TRUE)}

=============================================================================
