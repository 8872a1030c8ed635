------------------------------ MODULE MCPortal ------------------------------
(***************************************************************************)
(* What comes to the portal from outside or goes out to everybody, for     *)
(* TLC: payments, the supplies of S4, announcements and threat levels, and *)
(* the sessions of a browser.  Every behaviour uses one of the pages; the  *)
(* variables of the others are 0 in it.                                    *)
(***************************************************************************)
EXTENDS PaypalWebhook, Sequences, TLC

CONSTANTS
  Pages,         \* the pages that are used: see AllPages
  \* PaypalWebhook: a recruit rae with a card c1, a member max who eats at two
  \* FTXs, another card c2
  t1, t2, h1, h2, rae, max, c1, c2, none,
  \* Logistics
  Cases, Kind, Items, Start, Shelf, Heads, Command, MaxActive, SupplyRequests,
  \* Broadcast
  AnnIds, NoticeRequests,
  \* Sessions
  Tabs, Accounts, GroupSets, Window, Interval, Cap, MaxTime, MaxFlows, MaxAsks, MaxChanges,
  SignInAsks, SignInTime, BrowsingFlows

VARIABLES
  page,      \* the page that is used
  case, item, log, recent, seen, late, excused,
  ann, removed, level, bell, ended, failed, unrung, levels,
  now, cookie, tabs, token, minted, groups, changed, verified, stored, asks, changes, lapped,
  out, cut, wrong,
  begun, crossed

paymentVars == <<payment, outcome, fee, meal, notes>>
supplyVars == <<case, item, log, recent, seen, late, excused>>
noticeVars == <<ann, removed, level, bell, ended, failed, unrung, levels>>
sessionVars == <<now, cookie, tabs, token, minted, groups, changed, verified, stored, asks,
                 changes, lapped, out, cut, wrong>>
allVars == <<page, paymentVars, supplyVars, noticeVars, sessionVars, req, told, dropped,
             crashes, faults, begun, crossed>>

Supplies == INSTANCE Logistics WITH MaxRequests <- SupplyRequests
Notices == INSTANCE Broadcast WITH MaxRequests <- NoticeRequests
Browser == INSTANCE Sessions

ASSUME SuppliesAssumption == Supplies!Sound
ASSUME NoticesAssumption == Notices!Sound
ASSUME BrowserAssumption == Browser!Sound

BrowserPages == {"signins", "sessions"}
AllPages == {"payments", "supplies", "notices"} \cup BrowserPages

-----------------------------------------------------------------------------
NoPayments == payment = 0 /\ outcome = 0 /\ fee = 0 /\ meal = 0 /\ notes = 0
NoSupplies == /\ case = 0 /\ item = 0 /\ log = 0 /\ recent = 0 /\ seen = 0 /\ late = 0
              /\ excused = 0
NoNotices == /\ ann = 0 /\ removed = 0 /\ level = 0 /\ bell = 0 /\ ended = 0 /\ failed = 0
             /\ unrung = 0 /\ levels = 0
NoSessions == /\ now = 0 /\ cookie = 0 /\ tabs = 0 /\ token = 0 /\ minted = 0 /\ groups = 0
              /\ changed = 0 /\ verified = 0 /\ stored = 0 /\ asks = 0 /\ changes = 0
              /\ lapped = 0 /\ out = 0 /\ cut = 0 /\ wrong = 0

PortalInit ==
  /\ page \in Pages
  /\ \/ /\ page = "payments" /\ Init
        /\ NoSupplies /\ NoNotices /\ NoSessions /\ begun = 0 /\ crossed = 0
     \/ /\ page = "supplies" /\ Supplies!Init
        /\ NoPayments /\ NoNotices /\ NoSessions /\ dropped = 0 /\ faults = 0
     \/ /\ page = "notices" /\ Notices!Init
        /\ NoPayments /\ NoSupplies /\ NoSessions /\ told = 0 /\ crashes = 0
     \/ /\ page \in BrowserPages /\ Browser!Init /\ \A a \in Accounts : groups[a] = {"Leaders"}
        /\ NoPayments /\ NoSupplies /\ NoNotices
        /\ req = 0 /\ told = 0 /\ dropped = 0 /\ crashes = 0 /\ begun = 0 /\ crossed = 0

PaymentStep ==
  /\ page = "payments" /\ Next
  /\ UNCHANGED <<page, supplyVars, noticeVars, sessionVars, begun, crossed>>
SupplyStep ==
  /\ page = "supplies" /\ Supplies!Next
  /\ UNCHANGED <<page, paymentVars, noticeVars, sessionVars, dropped, faults>>
NoticeStep ==
  /\ page = "notices" /\ Notices!Next
  /\ UNCHANGED <<page, paymentVars, supplyVars, sessionVars, told, crashes>>
SessionFrame ==
  UNCHANGED <<page, paymentVars, supplyVars, noticeVars, req, told, dropped, crashes, begun,
              crossed>>
\* The sign-ins of a browser and few pages, or few sign-ins and their pages, for longer.
SignInStep ==
  page = "signins" /\ Browser!Next /\ asks' <= SignInAsks /\ now' <= SignInTime /\ SessionFrame
SessionStep ==
  page = "sessions" /\ Browser!Next /\ Len(minted') <= BrowsingFlows /\ SessionFrame

PortalNext == PaymentStep \/ SupplyStep \/ NoticeStep \/ SignInStep \/ SessionStep
PortalSpec == PortalInit /\ [][PortalNext]_allVars

-----------------------------------------------------------------------------
\* A payment has its effects once, on what it paid for; see PaypalWebhook.
PaymentsCountOnce == page = "payments" => TypeOK /\ SideEffectsOnce /\ CreditsMatchPayments

\* No payment is lost without a trace, and the trace tells what became of it; see
\* PaypalWebhook.
PaymentsAreAccounted == page = "payments" => AuditTruthful /\ PaymentsTraced

\* The desk of S4 is straight: reviews are signed, shelf and log agree and the
\* approvers are told; see Logistics.
DeskIsStraight == page = "supplies" => Supplies!DeskIsStraight

\* Announcements and threat levels reach everybody, and those taken back leave no
\* notice behind; see Broadcast.
EverybodyIsTold == page = "notices" => Notices!EverybodyIsTold

\* A sign-in that was granted completes, roles are fresh, and what a page may not do
\* it does not; see Sessions.
SessionsAreInOrder == page \in BrowserPages => Browser!SessionsAreInOrder

-----------------------------------------------------------------------------
(* Where the code departs from what it says or one would expect; no run has  *)
(* these.  Those of PaypalWebhook have their names here without an alias.    *)

\* Of the supplies; see Logistics.
OneItemEach == page = "supplies" => Supplies!OneItemEach
CommandIsTold == page = "supplies" => Supplies!CommandIsTold
RetiredStays == page = "supplies" => Supplies!RetiredStays
ShelfIsTrue == page = "supplies" => Supplies!ShelfIsTrue

\* Of announcements and threat levels; see Broadcast.
NoneEverDangle == page = "notices" => Notices!NoneEverDangle
EditsKeep == page = "notices" => Notices!EditsKeep
EditedStandOnceAlways == page = "notices" => Notices!EditedStandOnceAlways
FailedAreNotPosted == page = "notices" => Notices!FailedAreNotPosted
LevelsAlwaysTold == page = "notices" => Notices!LevelsAlwaysTold
LastAnnouncedIsTheLevel == page = "notices" => Notices!LastAnnouncedIsTheLevel

\* Of sign-ins and sessions; see Sessions.
GrantsAreAccepted == page \in BrowserPages => Browser!GrantsAreAccepted
SignedOutAlwaysStays == page \in BrowserPages => Browser!SignedOutAlwaysStays
StoredRolesFollow == page \in BrowserPages => Browser!StoredRolesFollow
VerifiedFirst == page \in BrowserPages => Browser!VerifiedFirst

-----------------------------------------------------------------------------
OneTxn == {t1}
TwoTxns == {t1, t2}
TwoHandlers == {h1, h2}
Roster == {rae, max}
Owing == {rae}
Pipeline == {c1, c2}
OnTheRoster == (c1 :> {rae}) @@ (c2 :> {})
Twins == (c1 :> {rae}) @@ (c2 :> {rae, max})
TwoFtx == 1..2
MaxEats == [e \in TwoFtx |-> max]
Prices == (1 :> StandardPrice) @@ (2 :> 2000)

Nobody == [amount |-> 5000, usd |-> TRUE, inline |-> TRUE, cards |-> {},
           namedCards |-> {}, people |-> {}, namedPeople |-> {}]
FeeByCard == [Nobody EXCEPT !.amount = 5180, !.cards = {c1},
                            !.namedCards = {c1}, !.namedPeople = {rae}]
FeeByName == [Nobody EXCEPT !.namedCards = {c1}, !.namedPeople = {rae}]
FeeTwoCards == [Nobody EXCEPT !.cards = {c2}, !.namedCards = {c1}]
FeeByMember == [Nobody EXCEPT !.inline = FALSE, !.people = {rae, max}]
TooLittle == [FeeByMember EXCEPT !.amount = 4950]
Euros == [FeeByCard EXCEPT !.usd = FALSE]
MealPayment == [Nobody EXCEPT !.amount = 1576, !.people = {max}]
DearMeal == [MealPayment EXCEPT !.amount = 2000, !.inline = FALSE]
StrayMeal == [MealPayment EXCEPT !.people = {rae}]
Gift == [MealPayment EXCEPT !.amount = 2500]

AllKinds == {Nobody, FeeByCard, FeeByName, FeeTwoCards, FeeByMember, TooLittle,
             Euros, MealPayment, DearMeal, StrayMeal, Gift}
OnlyMeals == {MealPayment}
OnlyNamed == {FeeByName}
OnlyTwoCards == {FeeTwoCards}

KindOf == [e1 |-> "expense", e2 |-> "expense", p1 |-> "purchase", d1 |-> "donation",
           p2 |-> "purchase", d2 |-> "donation", m |-> "meal"]
Begun == [e1 |-> <<"none">>, e2 |-> <<"none">>, p1 |-> <<"none">>, d1 |-> <<"none">>,
          p2 |-> <<"none", "pending", "approved">>, d2 |-> <<"none", "pending">>,
          m |-> <<"unpaid">>]

SomeGroups == {{"Leaders"}, {"Leaders", "Guests"}}

Symmetry == Permutations(TwoHandlers) \cup Permutations(Tabs)
=============================================================================
