----------------------------- MODULE MCMembers -----------------------------
(***************************************************************************)
(* The pages about one person, for TLC: the applicant's card on the        *)
(* recruiting board, the shops a member joins, the training a member       *)
(* claims and the events a member was at.  Every behaviour uses one of the *)
(* pages; the variables of the others are 0 in it.                         *)
(***************************************************************************)
EXTENDS PipelineBoard, TLC

CONSTANTS
  Pages,         \* the pages that are used: see AllPages
  r1, r2,
  \* Shops
  ShopKeys, Unlisted, Start, MaxShops, Asks, MaxActive, ShopRequests, MaxFaults,
  \* Training
  Tradocs, Certs, Ribbons, Ftxs, FtxRibbons, Level, Date, Attended, Claims, Filed, MaxDevices,
  TrainingRequests,
  \* Attendance
  m1, e1, e2, Members, Events, Field, Invited, MaxRows, AttendanceRequests, MaxEdits

VARIABLES
  page,      \* the page that is used
  billets, base, leads, ask, editor, given, dropped, untouched, faults,
  claim, rows, attended, last, licence, granted, undone, dimmed, erased,
  rsvp, event, credits, ftx, grants, cited, edits, clashed, revoked,
  ribbon,        \* of the training and attendance pages
  crossed        \* of every page but the board

boardVars == <<card, holds, member, total, load, fresh, visited, heldFrom>>
shopVars == <<billets, base, leads, ask, editor, given, dropped, untouched, faults>>
trainingVars == <<claim, rows, attended, last, licence, granted, undone, dimmed, erased>>
attendanceVars == <<rsvp, event, credits, ftx, grants, cited, edits, clashed, revoked>>
allVars == <<page, boardVars, shopVars, trainingVars, attendanceVars, ribbon, req, begun, crossed>>

Shops == INSTANCE Shops WITH MaxRequests <- ShopRequests, page <- editor
Training == INSTANCE Training WITH MaxRequests <- TrainingRequests
Roll == INSTANCE Attendance WITH MaxRequests <- AttendanceRequests

ASSUME ShopsAssumption == Shops!Sound
ASSUME TrainingAssumption == Training!Sound
ASSUME AttendanceAssumption == Roll!Sound

AllPages == {"board", "shops", "training", "attendance"}

-----------------------------------------------------------------------------
NoBoard == /\ card = 0 /\ holds = 0 /\ member = 0 /\ total = 0 /\ load = 0 /\ fresh = 0
           /\ visited = 0 /\ heldFrom = 0
NoShops == /\ billets = 0 /\ base = 0 /\ leads = 0 /\ ask = 0 /\ editor = 0 /\ given = 0
           /\ dropped = 0 /\ untouched = 0 /\ faults = 0
NoTraining == /\ claim = 0 /\ rows = 0 /\ attended = 0 /\ last = 0 /\ licence = 0
              /\ granted = 0 /\ undone = 0 /\ dimmed = 0 /\ erased = 0
NoAttendance == /\ rsvp = 0 /\ event = 0 /\ credits = 0 /\ ftx = 0 /\ grants = 0 /\ cited = 0
                /\ edits = 0 /\ clashed = 0 /\ revoked = 0

MembersInit ==
  /\ page \in Pages
  /\ \/ page = "board" /\ Init /\ NoShops /\ NoTraining /\ NoAttendance /\ ribbon = 0 /\ crossed = 0
     \/ page = "shops" /\ Shops!Init /\ NoBoard /\ NoTraining /\ NoAttendance /\ ribbon = 0
     \/ page = "training" /\ Training!Init /\ NoBoard /\ NoShops /\ NoAttendance
     \/ page = "attendance" /\ Roll!Init /\ NoBoard /\ NoShops /\ NoTraining

BoardStep ==
  /\ page = "board" /\ Next
  /\ UNCHANGED <<page, shopVars, trainingVars, attendanceVars, ribbon, crossed>>
ShopStep ==
  /\ page = "shops" /\ Shops!Next
  /\ UNCHANGED <<page, boardVars, trainingVars, attendanceVars, ribbon>>
TrainingStep ==
  /\ page = "training" /\ Training!Next
  /\ UNCHANGED <<page, boardVars, shopVars, attendanceVars>>
AttendanceStep ==
  /\ page = "attendance" /\ Roll!Next
  /\ UNCHANGED <<page, boardVars, shopVars, trainingVars>>

MembersNext == BoardStep \/ ShopStep \/ TrainingStep \/ AttendanceStep
MembersSpec == MembersInit /\ [][MembersNext]_allVars

-----------------------------------------------------------------------------
\* However the operations on a card interleave, it skips no stage and its hold
\* comments name stages it has been in; see PipelineBoard.
BoardIsInOrder == page = "board" => TypeOK /\ NoStageSkipped

\* The note of the PayPal webhook never undoes what somebody else has written on
\* the card while the webhook was working.
AnnotationKeepsEdits == [][page = "board" => AnnotationKept]_allVars

\* Accepted members are in their shops and in the groups of these; see Shops.
ShopsAreStaffed == page = "shops" => Shops!ShopsAreStaffed

\* What is approved or granted is on record and counts, until it is revoked; see
\* Training.
TrainingIsInOrder == page = "training" => Training!TrainingIsInOrder

\* The record of attendance agrees with itself: credits are earned, ftx_count is
\* what the rows say, and who was taken off the record stays off; see Attendance.
RecordsAgree == page = "attendance" => Roll!RecordsAgree

\* A ribbon carries one award for each event led, however finalizations and
\* reopenings overlap; see Attendance.
AwardsMatchGrants == page = "attendance" => Roll!AwardsMatchGrants

-----------------------------------------------------------------------------
(* Where the code departs from what it says or one would expect; no run has  *)
(* these.  Those of PipelineBoard have their names here without an alias.    *)

\* Of the shops; see Shops.
SavingKeepsShops == page = "shops" => Shops!SavingKeepsShops
AcceptedIsAlwaysHeld == page = "shops" => Shops!AcceptedIsAlwaysHeld
GroupsAlwaysFollow == page = "shops" => Shops!GroupsAlwaysFollow

\* Of the training records; see Training.
StarsAreAlwaysKept == page = "training" => Training!StarsAreAlwaysKept
HighestLicence == page = "training" => Training!HighestLicence
OneRecordEach == page = "training" => Training!OneRecordEach
DeniedIsNotOnRecord == page = "training" => Training!DeniedIsNotOnRecord
GrantsStand == Training!GrantsStand
LicenceIsHeld == page = "training" => Training!LicenceIsHeld
PointsMatchProfile == page = "training" => Training!PointsMatchProfile

\* Of the record of attendance; see Attendance.
OneRowEach == page = "attendance" => Roll!OneRowEach
NoShowsAreAbsent == page = "attendance" => Roll!NoShowsAreAbsent
AttendanceLocked == Roll!AttendanceLocked
AttendeesCredited == page = "attendance" => Roll!AttendeesCredited
CitationsFollowGrants == page = "attendance" => Roll!CitationsFollowGrants
RevokedLoseCredit == page = "attendance" => Roll!RevokedLoseCredit

-----------------------------------------------------------------------------
OneRequest == {r1}
TwoRequests == {r1, r2}
Nothing == {}
LevelOf == [tech |-> 1, extra |-> 3]
DateOf == [f1 |-> 1, f2 |-> 2]
FiledOnes == <<"multi", "f2", "none">>
FiledTwo == <<"multi", "tech", "extra">>
OneMember == {m1}
TwoEvents == {e1, e2}
InvitedToFirst == << <<e1, m1>> >>

\* TLC's events have one commander or none; who has none has no ribbon by hand.
RollInit ==
  /\ MembersInit
  /\ \A e \in Events : event[e].led = event[e1].led
  /\ event[e1].led = {} => ~ribbon[m1].manual
AttendanceSpec == RollInit /\ [][MembersNext]_allVars

Symmetry == Permutations(TwoRequests)
=============================================================================
