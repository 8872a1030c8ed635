---------------------------- MODULE MCSeparation ----------------------------
(***************************************************************************)
(* Separations, for TLC.  Constants and variables have names of their own, *)
(* so that MCMembers_proofs can speak of them beside the pages about a     *)
(* person.                                                                 *)
(***************************************************************************)
CONSTANTS
  Persons, Statuses, SeparationOps, SeparationRequests, MaxHandled, MaxFailures, MaxOutside

VARIABLES
  standing,       \* row of Separation
  account, log,
  recruiterLoad,  \* load
  handling,       \* req
  rec, cron,
  received,       \* begun
  failures,       \* faults
  outside, regained, misread,
  absences,       \* leaves
  returns, cut

Sep == INSTANCE Separation WITH
  Members <- Persons, Starts <- Statuses, Ops <- SeparationOps,
  MaxRequests <- SeparationRequests, MaxActive <- MaxHandled, MaxFaults <- MaxFailures,
  row <- standing, load <- recruiterLoad, req <- handling, begun <- received,
  faults <- failures, leaves <- absences

ASSUME SeparationAssumption == Sep!Sound

SeparationSpec == Sep!Spec
FairSeparationSpec == Sep!FairSpec

\* What the separated still have is shown to S1, and the end of a leave is mailed
\* once; see Separation.
SeparationsAreInOrder == Sep!SeparationsAreInOrder

\* Whatever fails and whoever gives access back, what a separated member has is
\* removed in the end, unless they serve again; see Separation.
CleanedInTheEnd == Sep!CleanedInTheEnd

-----------------------------------------------------------------------------
(* Where the code departs from what one would expect: see Separation.  No run *)
(* has these.                                                                *)

FlagsTruthful == Sep!FlagsTruthful
ReturnedLeavesGroup == Sep!ReturnedLeavesGroup
ServingKeepTheirs == Sep!ServingKeepTheirs
BlacklistHolds == Sep!BlacklistHolds
ServingHaveAccounts == Sep!ServingHaveAccounts
=============================================================================
