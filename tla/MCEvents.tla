------------------------------ MODULE MCEvents ------------------------------
(***************************************************************************)
(* The pages about events, for TLC: the orders of one event, the rows of a *)
(* recurring series, the rotation of its instructors, the schedule of an   *)
(* FTX and its operations console.  Every behaviour uses one of the pages; *)
(* the variables of the others are 0 in it.                                *)
(***************************************************************************)
EXTENDS EventSeries

CONSTANTS
  Pages,         \* the pages that are used: see AllPages
  \* EventOrders
  Members, MaxCopies, MaxEdits, MaxFaults,
  \* Rotation
  Instructors, TeachingDays, Pools, Leaves, Browsers, MaxSteps,
  \* ScheduleBuilder
  BlockIds, EventDays, Times,
  \* OpsConsole
  Comrades, Guests, TeamMates, Vexes, MaxSlots, ConsoleRequests

VARIABLES
  page,      \* the page that is used
  event, rsvp, serving, fragos, sheets, outbox, edits, faults, answer, sent,
  recent, ordered, unmailed, aware, unnoticed,
  instructor, cancelled, leave, plans, steps,
  block, changed,
  present, immune, slots, guard, duty, vexes, vexed, buddies, given, pressed, batch, stuck

ordersVars == <<event, rsvp, serving, fragos, sheets, outbox, edits, faults, answer, sent,
                recent, ordered, unmailed, aware, unnoticed>>
seriesVars == <<row, texts, kind, moved, held, wide, window, gone, renamed>>
rotationVars == <<instructor, cancelled, leave, plans, steps>>
scheduleVars == <<block, changed>>
consoleVars == <<present, immune, slots, guard, duty, vexes, vexed, buddies, given, pressed,
                 batch, stuck>>
requestVars == <<req, begun, crossed>>
dayVars == <<now, byHand>>
allVars == <<page, ordersVars, seriesVars, rotationVars, scheduleVars, consoleVars,
             requestVars, dayVars>>

Orders == INSTANCE EventOrders
Rota == INSTANCE Rotation
          WITH Members <- Instructors, Days <- TeachingDays, Pages <- Browsers, page <- plans
Builder == INSTANCE ScheduleBuilder WITH Ids <- BlockIds
Console == INSTANCE OpsConsole WITH Members <- Comrades, MaxRequests <- ConsoleRequests

ASSUME OrdersAssumption == Orders!Sound
ASSUME ScheduleAssumption == Builder!Sound
ASSUME ConsoleAssumption == Console!Sound

\* The operations console has three: who stands guard, who has extra duties, and
\* vexillations and buddies.
ConsolePages == {"guard", "duty", "teams"}
AllPages == {"orders", "series", "rotation", "schedule"} \cup ConsolePages

-----------------------------------------------------------------------------
NoOrders == /\ event = 0 /\ rsvp = 0 /\ serving = 0 /\ fragos = 0 /\ sheets = 0 /\ outbox = 0
            /\ edits = 0 /\ faults = 0 /\ answer = 0 /\ sent = 0
            /\ recent = 0 /\ ordered = 0 /\ unmailed = 0 /\ aware = 0 /\ unnoticed = 0
NoSeries == /\ row = 0 /\ texts = 0 /\ kind = 0 /\ moved = 0 /\ held = 0 /\ wide = 0
            /\ window = 0 /\ gone = 0 /\ renamed = 0
NoRota == instructor = 0 /\ cancelled = 0 /\ leave = 0 /\ plans = 0 /\ steps = 0
NoSchedule == block = 0 /\ changed = 0
NoConsole == /\ present = 0 /\ immune = 0 /\ slots = 0 /\ guard = 0 /\ duty = 0 /\ vexes = 0
             /\ vexed = 0 /\ buddies = 0 /\ given = 0 /\ pressed = 0 /\ batch = 0 /\ stuck = 0
NoRequests == req = 0 /\ begun = 0 /\ crossed = 0
NoDays == now = 0 /\ byHand = 0

\* Nobody who comes while the teams are made up counts; nobody is exempt from guard.
ConsoleInit ==
  /\ Console!Init
  /\ page = "teams" => present = {} /\ immune = {}
  /\ page = "guard" => immune = {}

EventsInit ==
  /\ page \in Pages
  /\ \/ page = "orders" /\ Orders!Init /\ NoSeries /\ NoRota /\ NoSchedule /\ NoConsole /\ NoDays
     \/ page = "series" /\ Init /\ NoOrders /\ NoRota /\ NoSchedule /\ NoConsole
     \/ /\ page = "rotation" /\ Rota!Init
        /\ NoOrders /\ NoSeries /\ NoSchedule /\ NoConsole /\ NoRequests
     \/ /\ page = "schedule" /\ Builder!Init
        /\ NoOrders /\ NoSeries /\ NoRota /\ NoConsole /\ NoDays
     \/ /\ page \in ConsolePages /\ ConsoleInit
        /\ NoOrders /\ NoSeries /\ NoRota /\ NoSchedule /\ NoDays

OrdersStep ==
  /\ page = "orders" /\ Orders!Next
  /\ UNCHANGED <<page, seriesVars, rotationVars, scheduleVars, consoleVars, dayVars>>
SeriesStep ==
  /\ page = "series" /\ Next
  /\ UNCHANGED <<page, ordersVars, rotationVars, scheduleVars, consoleVars>>
RotationStep ==
  /\ page = "rotation" /\ Rota!Next
  /\ UNCHANGED <<page, ordersVars, seriesVars, scheduleVars, consoleVars, requestVars>>
ScheduleStep ==
  /\ page = "schedule" /\ Builder!Next
  /\ UNCHANGED <<page, ordersVars, seriesVars, rotationVars, consoleVars, dayVars>>
ConsoleFrame == UNCHANGED <<page, ordersVars, seriesVars, rotationVars, scheduleVars, dayVars>>
\* On guard and duties there are fewer requests than on teams.
Few == begun' <= MaxRequests
GuardStep == page = "guard" /\ (Console!AnybodyNext \/ Console!GuardNext) /\ Few /\ ConsoleFrame
DutyStep == page = "duty" /\ (Console!AnybodyNext \/ Console!DutyNext) /\ Few /\ ConsoleFrame
TeamsStep == page = "teams" /\ Console!TeamsNext /\ ConsoleFrame

EventsNext ==
  \/ OrdersStep \/ SeriesStep \/ RotationStep \/ ScheduleStep
  \/ GuardStep \/ DutyStep \/ TeamsStep
EventsSpec == EventsInit /\ [][EventsNext]_allVars

-----------------------------------------------------------------------------
\* The orders of the event are in order: the warning order goes out once, every
\* FRAGO has its number, and the answer given last stands.
OrdersAreInOrder ==
  page = "orders" =>
    Orders!TypeOK /\ Orders!WarnoMailedOnce /\ Orders!FragosNumbered /\ Orders!AnswersStand

\* Who is going is told, of the operations order and of a cancellation, but for mails
\* and notices that are dropped or lost.
GoingAreTold == 
  page = "orders" => Orders!GoingHaveOrders /\ Orders!GoingKnowItIsOff

\* The rows of a series agree with each other and with what was asked for, whichever
\* requests follow each other; see EventSeries.
RowsAreInOrder == page = "series" => SeriesIsInOrder

\* Plans for the instructors are fair and give nobody a day of his leave, and who was
\* set by hand stays until a plan that shows the day is applied; see Rotation.
RotationIsFair == page = "rotation" => Rota!RotationIsFair

\* The blocks of a day are shown in the order of their times; see ScheduleBuilder.
ScheduleIsInOrder == page = "schedule" => Builder!ScheduleIsInOrder

\* Guard, duties and teams are given to who may have them, and once; see OpsConsole.
ConsoleIsInOrder == page \in ConsolePages => Console!ConsoleIsInOrder

-----------------------------------------------------------------------------
(* Where the code departs from what it says or one would expect; no run has  *)
(* these.  Those of EventSeries have their names here without an alias.      *)

\* Of the orders of an event; see EventOrders.
CancelledStaysClosed == page = "orders" => Orders!CancelledStaysClosed
OrderIssuedOnce == page = "orders" => Orders!OrderIssuedOnce
ReviewPublishedOnce == page = "orders" => Orders!ReviewPublishedOnce
OneSubmissionShown == page = "orders" => Orders!OneSubmissionShown
OneRowEach == page = "orders" => Orders!OneRowEach
OverriddenHaveOrders == page = "orders" => Orders!OverriddenHaveOrders
LateHaveOrders == page = "orders" => Orders!LateHaveOrders
GoingAlwaysHaveOrders == page = "orders" => Orders!GoingAlwaysHaveOrders
GoingAlwaysKnow == page = "orders" => Orders!GoingAlwaysKnow
AnsweredIsPreserved == Orders!AnsweredIsPreserved

\* Of the instructors' rotation and the FTX schedule; see Rotation, ScheduleBuilder.
LatestWaitLongest == page = "rotation" => Rota!LatestWaitLongest
PlansAreAlwaysFair == page = "rotation" => Rota!PlansAreAlwaysFair
AssignedAreHistory == page = "rotation" => Rota!AssignedAreHistory
HandsAlwaysStand == Rota!HandsAlwaysStand
PlansAreForTheFuture == Rota!PlansAreForTheFuture
ChangesAreSorted == page = "schedule" => Builder!ChangesAreSorted
AddsAreSorted == page = "schedule" => Builder!AddsAreSorted

\* Of the operations console; see OpsConsole.
ImmunesAreAlwaysSpared == page = "guard" => Console!ImmunesAreAlwaysSpared
AutoGuardsAlwaysOnce == page = "guard" => Console!AutoGuardsAlwaysOnce
SlotsAreAlwaysOne == page = "guard" => Console!SlotsAreAlwaysOne
GuardsReconfigure == page = "guard" => Console!GuardsReconfigure
GuardsAreEven == page = "guard" => Console!GuardsAreEven
BuddiesAreReciprocal == page = "teams" => Console!BuddiesAreReciprocal
DutyIsForThePresent == page = "duty" => Console!DutyIsForThePresent

-----------------------------------------------------------------------------
ThreeMonths == <<0, 3, 5, 9>>
Weekly == [rule |-> "weekly", day |-> 0]
Monthly == [rule |-> "monthly", day |-> 3]
OneKind == {Weekly}
BothKinds == {Weekly, Monthly}
OneGroup == {Instructors}
LeaveDays == {<<1, 2>>, <<2, 9>>}
=============================================================================
