------------------------------ MODULE MCDesktop ------------------------------
(***************************************************************************)
(* Instances for TLC of what the commands of the desktop application do:   *)
(* the cloud session and the Screen Recording permission.  They share no   *)
(* state, so that in each specification one of the two rests.              *)
(***************************************************************************)
EXTENDS AuthSession

CONSTANTS Commands, Main

\* Of the permissions.
ASSUME DesktopAssumption == Main \notin Commands

VARIABLES
  live, cached, registry, inFlight, requested, pc, asked, observed, denied, mode, native

permissionVars == <<live, cached, registry, inFlight, requested, pc, asked, observed, denied,
                    mode, native>>
desktopVars == <<vars, permissionVars>>

Perm == INSTANCE PermissionFlow

DesktopInit == Init /\ Perm!Init
SessionInit == DesktopInit /\ live = TRUE

OfSession(step) == step /\ UNCHANGED permissionVars
OfPermissions(step) == step /\ UNCHANGED vars

\* Each component is as fair as in its FairSpec.
SessionSpec ==
  /\ SessionInit
  /\ [][OfSession(Next)]_desktopVars
  /\ Fairness

PermissionSpec ==
  /\ DesktopInit
  /\ [][OfPermissions(Perm!Next)]_desktopVars
  /\ Perm!Fairness

-----------------------------------------------------------------------------
(* The properties of the permissions, with their types *)

\* One request is under way at a time, in_flight says so, and none is off the record.
RequestsAreOnRecord == Perm!RequestsAreOnRecord

\* A capture that has lost its grant does not go on as running: it is stopped, or failed.
RevocationStopsCapture == Perm!RevocationStopsCapture

\* A request that failed does not stay in the way.
CanAskAgain == Perm!CanAskAgain

=============================================================================
