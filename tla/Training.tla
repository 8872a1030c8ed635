------------------------------- MODULE Training -------------------------------
(***************************************************************************)
(* A member's training record: the claims the member submits and a reviewer *)
(* approves, denies or revokes (app/routes/training_claims.py), what is     *)
(* signed off and awarded directly (app/routes/awards.py) and the ribbons   *)
(* that are granted, claimed or derived from attendance                    *)
(* (app/routes/ribbons_admin.py, app/services/ribbon_derive.py).            *)
(* A request reads in one step and commits in another, so that reviewers   *)
(* cross each other; a record is a row, and nothing but the ribbons' table  *)
(* refuses a second one.                                                   *)
(***************************************************************************)
EXTENDS Integers, FiniteSets

CONSTANTS
  Tradocs, Certs, Ribbons, Ftxs,   \* what can be claimed
  FtxRibbons,   \* the ribbons derived from the multi-company FTXs attended
  Level,        \* certificate -> the class of radio licence, 0 for none
  Date,         \* FTX -> its day, a number
  Attended,     \* the FTXs attended to begin with
  Claims,       \* the claims there is room for
  Filed,        \* claim -> what it is for when filed beforehand, "none" for the others
  MaxDevices,   \* the devices of a ribbon
  MaxActive,    \* bound on the requests in progress at once
  MaxRequests   \* bound on the requests begun

VARIABLES
  claim,     \* claim -> [of, status]
  rows,      \* sign-offs and certificates -> how many rows record it
  ribbon,    \* ribbon -> [held, devices, cites]: cites is award index -> comment
  attended,  \* the FTXs whose RSVP row says attended
  last,      \* members.last_ftx, 0 for never
  licence,   \* members.ham_license_class
  req,       \* the requests in progress
  begun,
  granted,   \* history: records granted directly and not revoked since
  undone,    \* history: claims whose record was removed after they were approved
  crossed,   \* history: things that two requests had read at once
  dimmed,    \* history: ribbons that lost devices to the approval of a claim
  erased     \* history: ribbons one of whose comments an award took away

vars == <<claim, rows, ribbon, attended, last, licence, req, begun, granted, undone, crossed, dimmed,
          erased>>

Records == Tradocs \cup Certs
Things == Records \cup Ribbons \cup Ftxs
Slots == 1..MaxActive
Statuses == {"none", "pending", "approved", "denied"}
ClaimType == [of : Things \cup {"none"}, status : Statuses]
Comments == {"none", "blank", "text"}
RibbonType == [held : BOOLEAN, devices : 0..MaxDevices, cites : [0..MaxDevices -> Comments]]
NoRibbon == [held |-> FALSE, devices |-> 0, cites |-> [n \in 0..MaxDevices |-> "none"]]
NoRequest == [op |-> "none", on |-> {}, claims |-> {}]

\* Types; the statuses of a claim and what a ribbon holds.
TypeOK ==
  /\ claim \in [Claims -> ClaimType] /\ rows \in [Records -> Nat]
  /\ ribbon \in [Ribbons -> RibbonType] /\ attended \subseteq Ftxs
  /\ last \in {0} \cup {Date[f] : f \in Ftxs} /\ begun \in 0..MaxRequests

Init ==
  /\ claim = [c \in Claims |-> [of |-> Filed[c],
                                status |-> IF Filed[c] = "none" THEN "none" ELSE "pending"]]
  /\ rows = [t \in Records |-> 0] /\ ribbon = [t \in Ribbons |-> NoRibbon]
  /\ attended = Attended /\ last = 0 /\ licence = 0
  /\ req = [r \in Slots |-> NoRequest] /\ begun = 0
  /\ granted = {} /\ undone = {} /\ crossed = {} /\ dimmed = {} /\ erased = {}

-----------------------------------------------------------------------------
Larger(a, b) == IF a > b THEN a ELSE b

\* derive_ribbons: the first multi-company FTX is the ribbon, each further one a device.
Derived(t, went) == IF t \in FtxRibbons THEN Larger(0, Cardinality(went) - 1) ELSE 0

\* compute_member_points: a stored ribbon counts with its own devices, one that
\* is only derived with the derived ones.
Counted(rib, t, went) == IF rib[t].held THEN rib[t].devices ELSE Derived(t, went)

\* record_citation: a blank comment does not erase one.
Cite(cites, n, comment) ==
  [cites EXCEPT ![n] = IF @ = "none" \/ comment = "text" THEN comment ELSE @]

\* What a request is about: the approval of an FTX also reads members.last_ftx.
Touches(q) == q.on \cup IF q.op = "approve" /\ q.on \subseteq Ftxs THEN {"last"} ELSE {}
Begin(request) ==
  /\ begun < MaxRequests /\ begun' = begun + 1
  /\ \E r \in Slots :
       /\ req[r] = NoRequest /\ \A q \in Slots : q < r => req[q] # NoRequest
       /\ req' = [req EXCEPT ![r] = request]
       /\ crossed' = crossed \cup (Touches(request) \cap UNION {Touches(req[q]) : q \in Slots \ {r}})
  /\ UNCHANGED <<claim, rows, ribbon, attended, last, licence, granted, undone, dimmed, erased>>
End(r) == req' = [req EXCEPT ![r] = NoRequest]

\* Mutant: claims filed before are not looked at.
NonePending(things) == {}
\* The things that have a claim pending already.
Pending(things) == {t \in things : \E c \in Claims : claim[c] = [of |-> t, status |-> "pending"]}

\* submit_claim: a claim for each thing ticked that has none pending.
Submit(things) ==
  /\ things # {} /\ (things \subseteq Tradocs \/ Cardinality(things) = 1)
  /\ things \ Pending(things) # {}
  /\ Begin([op |-> "submit", on |-> things \ Pending(things), claims |-> {}])

\* approve_claim up to its commit: it reads the stored row and the derived devices.
\* When the latter fails it counts as none; a failure of the database, which is
\* what could fail there, fails the commit too.
Approve(c) ==
  LET t == claim[c].of
  IN  /\ claim[c].status = "pending"
      /\ Begin([op |-> "approve", on |-> {t}, claims |-> {c}, last |-> last,
                went |-> attended,
                stored |-> IF t \in Ribbons THEN ribbon[t] ELSE NoRibbon,
                derived |-> Derived(t, attended)])

\* deny_claim and revoke_claim up to their commits.
Deny(c) ==
  /\ claim[c].status = "pending"
  /\ Begin([op |-> "deny", on |-> {claim[c].of}, claims |-> {c}])
Revoke(c) ==
  /\ claim[c].status = "approved"
  /\ Begin([op |-> "revoke", on |-> {claim[c].of}, claims |-> {c}])

\* grant_tradoc and grant_cert: skipped when there is a record, and refused
\* with an error when there are two.
Grant(t) ==
  /\ rows[t] = 0
  /\ Begin([op |-> "grant", on |-> {t}, claims |-> {}])

\* grant_ribbon and revoke_ribbon; tabs and tenure discs are refused.
GrantRibbon(t, n, comment) ==
  Begin([op |-> "ribbon", on |-> {t}, claims |-> {}, stored |-> ribbon[t], n |-> n, comment |-> comment])
RevokeRibbon(t) ==
  /\ ribbon[t].held
  /\ Begin([op |-> "unribbon", on |-> {t}, claims |-> {}])

-----------------------------------------------------------------------------
\* The request ends in an error and its transaction is rolled back.
Refused(r) ==
  /\ End(r)
  /\ UNCHANGED <<claim, rows, ribbon, attended, last, licence, begun, granted, undone, crossed, dimmed, erased>>

Free == {c \in Claims : claim[c].status = "none"}
CommitSubmit(r) ==
  /\ req[r].op = "submit"
  /\ Cardinality(Free) >= Cardinality(req[r].on)
  /\ \E filing \in [req[r].on -> Free] :
       /\ \A s, t \in req[r].on : s # t => filing[s] # filing[t]
       /\ claim' = [c \in Claims |-> IF \E t \in req[r].on : filing[t] = c
                      THEN [of |-> CHOOSE t \in req[r].on : filing[t] = c, status |-> "pending"]
                      ELSE claim[c]]
  /\ End(r)
  /\ UNCHANGED <<rows, ribbon, attended, last, licence, begun, granted, undone, crossed, dimmed, erased>>

\* The row of a ribbon was inserted or deleted after it was read: the insertion
\* breaks the unique constraint, the update finds no row.
Broken(q, t, writes) ==
  \/ ~q.stored.held /\ ribbon[t].held
  \/ q.stored.held /\ ~ribbon[t].held /\ writes

\* The step takes a comment of the ribbon away.
Erased(t) == {u \in {t} : \E n \in 0..MaxDevices :
                ribbon[u].cites[n] = "text" /\ ribbon'[u].cites[n] # "text"}

\* Mutant: the stored row of a claimed ribbon starts without devices.
ClaimedBare(q, t) ==
  IF ~q.stored.held
  THEN [held |-> TRUE, devices |-> 0, cites |-> Cite(NoRibbon.cites, 0, "text")]
  ELSE ribbon[t]

\* What approving a claim makes of the ribbon: the devices the member has earned
\* are kept, and one already held is only ever raised.
Claimed(q, t) ==
  IF ~q.stored.held
  THEN [held |-> TRUE, devices |-> q.derived, cites |-> Cite(NoRibbon.cites, 0, "text")]
  ELSE IF q.derived > q.stored.devices THEN [ribbon[t] EXCEPT !.devices = q.derived]
  ELSE ribbon[t]

\* Mutant: last_ftx is the FTX approved last.
LastApproved(q, t) == Date[t]

\* last_ftx moves forward only.
LastFtx(q, t) == IF Date[t] > q.last THEN Date[t] ELSE last

\* Mutant: the claim is approved and the record left to be entered.
NotSignedOff(q, t) == rows

\* The sign-off or certificate row an approval adds.
SignedOff(q, t) == [rows EXCEPT ![t] = @ + 1]

CommitApprove(r) ==
  /\ req[r].op = "approve"
  /\ \E t \in req[r].on, c \in req[r].claims :
       LET q == req[r]
           writes == q.derived > q.stored.devices
       IN  IF t \in Ribbons /\ Broken(q, t, writes)
           THEN Refused(r)
           ELSE /\ claim' = [claim EXCEPT ![c].status = "approved"]
                /\ rows' = IF t \in Records THEN SignedOff(q, t) ELSE rows
                /\ licence' = IF t \in Certs /\ Level[t] > 0 THEN Level[t] ELSE licence
                /\ ribbon' = IF t \in Ribbons /\ (~q.stored.held \/ writes)
                             THEN [ribbon EXCEPT ![t] = Claimed(q, t)] ELSE ribbon
                \* an RSVP row read as attended is not written
                /\ attended' = IF t \in Ftxs /\ t \notin q.went THEN attended \cup {t} ELSE attended
                /\ last' = IF t \in Ftxs THEN LastFtx(q, t) ELSE last
                /\ undone' = undone \ {c}
                /\ dimmed' = IF t \in Ribbons /\ Counted(ribbon', t, q.went) < Counted(ribbon, t, q.went)
                             THEN dimmed \cup {t} ELSE dimmed
                /\ erased' = IF t \in Ribbons THEN erased \cup Erased(t) ELSE erased
                /\ End(r) /\ UNCHANGED <<begun, granted, crossed>>

CommitDeny(r) ==
  /\ req[r].op = "deny"
  /\ claim' = [c \in Claims |-> IF c \in req[r].claims THEN [claim[c] EXCEPT !.status = "denied"] ELSE claim[c]]
  /\ End(r)
  /\ UNCHANGED <<rows, ribbon, attended, last, licence, begun, granted, undone, crossed, dimmed, erased>>

\* The claims of a thing that are approved.
ApprovedFor(t) == {c \in Claims : claim[c] = [of |-> t, status |-> "approved"]}

\* Mutant: the record stays when its claim is revoked.
NothingDeleted(on) == rows
\* Every row of the sign-off or certificate is deleted; a ribbon, an attendance
\* and a radio licence stay.
Deleted(on) == [t \in Records |-> IF t \in on THEN 0 ELSE rows[t]]

CommitRevoke(r) ==
  /\ req[r].op = "revoke"
  /\ claim' = [c \in Claims |-> IF c \in req[r].claims THEN [claim[c] EXCEPT !.status = "denied"] ELSE claim[c]]
  /\ rows' = Deleted(req[r].on)
  /\ granted' = granted \ req[r].on
  /\ undone' = undone \cup UNION {ApprovedFor(t) : t \in req[r].on \cap Records}
  /\ End(r)
  /\ UNCHANGED <<ribbon, attended, last, licence, begun, crossed, dimmed, erased>>

CommitGrant(r) ==
  /\ req[r].op = "grant"
  /\ rows' = [t \in Records |-> IF t \in req[r].on THEN rows[t] + 1 ELSE rows[t]]
  /\ granted' = granted \cup req[r].on
  /\ End(r)
  /\ UNCHANGED <<claim, ribbon, attended, last, licence, begun, undone, crossed, dimmed, erased>>

\* Mutant: a new award replaces the comments of the earlier ones.
Fresh(q, t) ==
  [held |-> TRUE, devices |-> q.n, cites |-> Cite(NoRibbon.cites, q.n, q.comment)]

\* The device count is what the form says; each award has a comment of its own.
Awarded(q, t) ==
  [held |-> TRUE, devices |-> IF q.n = q.stored.devices THEN ribbon[t].devices ELSE q.n,
   cites |-> Cite(ribbon[t].cites, q.n, q.comment)]

CommitRibbon(r) ==
  /\ req[r].op = "ribbon"
  /\ \E t \in req[r].on :
       IF Broken(req[r], t, TRUE)
       THEN Refused(r)
       ELSE /\ ribbon' = [ribbon EXCEPT ![t] = Awarded(req[r], t)] /\ End(r)
            /\ erased' = erased \cup Erased(t)
            /\ UNCHANGED <<claim, rows, attended, last, licence, begun, granted, undone, crossed, dimmed>>

\* The citations go with the row.
CommitUnribbon(r) ==
  /\ req[r].op = "unribbon"
  /\ ribbon' = [t \in Ribbons |-> IF t \in req[r].on THEN NoRibbon ELSE ribbon[t]]
  /\ undone' = undone \cup UNION {ApprovedFor(t) : t \in req[r].on}
  /\ End(r)
  /\ UNCHANGED <<claim, rows, attended, last, licence, begun, granted, crossed, dimmed, erased>>

\* Attendance is entered and corrected elsewhere, at an FTX.
Overlaps(f) == crossed' = crossed \cup ({f} \cap UNION {req[r].on : r \in Slots})
Attend(f) ==
  /\ f \notin attended /\ attended' = attended \cup {f} /\ Overlaps(f)
  /\ UNCHANGED <<claim, rows, ribbon, last, licence, req, begun, granted, undone, dimmed, erased>>
Correct(f) ==
  /\ f \in attended /\ attended' = attended \ {f}
  /\ undone' = undone \cup ApprovedFor(f) /\ Overlaps(f)
  /\ UNCHANGED <<claim, rows, ribbon, last, licence, req, begun, granted, dimmed, erased>>

Begins ==
  \/ \E things \in SUBSET Things : Submit(things)
  \/ \E c \in Claims : Approve(c) \/ Deny(c) \/ Revoke(c)
  \/ \E t \in Records : Grant(t)
  \/ \E t \in Ribbons : \/ RevokeRibbon(t)
                        \/ \E n \in 0..MaxDevices, comment \in {"blank", "text"} :
                             GrantRibbon(t, n, comment)
Commits ==
  \E r \in Slots :
    \/ CommitSubmit(r) \/ CommitApprove(r) \/ CommitDeny(r) \/ CommitRevoke(r)
    \/ CommitGrant(r) \/ CommitRibbon(r) \/ CommitUnribbon(r)
Next == Begins \/ Commits \/ \E f \in Ftxs : Attend(f) \/ Correct(f)
Spec == Init /\ [][Next]_vars

-----------------------------------------------------------------------------
OnRecord(t) ==
  /\ t \in Records => rows[t] > 0
  /\ t \in Ribbons => ribbon[t].held
  /\ t \in Ftxs => t \in attended

\* What was approved is on the member's record, unless it was taken away since
\* or requests about it overlapped (approve_claim creates "the actual record").
ApprovedIsOnRecord ==
  \A c \in Claims \ undone :
    claim[c].status = "approved" => claim[c].of \in crossed \/ OnRecord(claim[c].of)

\* Every sign-off and certificate stands on an approved claim or a direct
\* grant: denying and revoking leave none behind, unless requests about it overlapped.
RecordsHaveGround ==
  \A t \in Records : rows[t] > 0 => t \in granted \cup crossed \/ ApprovedFor(t) # {}

\* A thing has one claim pending at most, unless requests about it overlapped.
OneClaimPending ==
  \A c, d \in Claims :
    c # d /\ claim[c].status = "pending" /\ claim[d].status = "pending" /\ claim[c].of = claim[d].of
    => claim[c].of \in crossed

\* "a claim never *erases* stars the member already earned" (approve_claim),
\* unless requests about the ribbon overlapped.
StarsAreKept == dimmed \subseteq crossed

\* The FTX of an approved claim is not later than the member's last, unless two
\* such approvals overlapped.
LastFtxIsLatest ==
  \A c \in Claims : claim[c].status = "approved" /\ claim[c].of \in Ftxs
    => "last" \in crossed \/ last >= Date[claim[c].of]

\* A comment given with an award stays when the next award is made (record_citation).
CommentsStay == erased = {}

\* The training record is in order: the parts above, which the README explains.
TrainingIsInOrder ==
  TypeOK /\ ApprovedIsOnRecord /\ RecordsHaveGround /\ OneClaimPending /\ StarsAreKept
  /\ LastFtxIsLatest /\ CommentsStay

-----------------------------------------------------------------------------
(* Why the training record is in order: the inductive invariant. *)

\* The constants: a thing is of one kind, and is filed for once beforehand; there
\* are devices for all the FTXs.
Sound ==
  /\ Records \cap Ribbons = {} /\ Records \cap Ftxs = {} /\ Ribbons \cap Ftxs = {}
  /\ "none" \notin Things /\ "last" \notin Things
  /\ Filed \in [Claims -> Things \cup {"none"}]
  /\ \A c, d \in Claims : c # d /\ Filed[c] = Filed[d] => Filed[c] = "none"
  /\ Date \in [Ftxs -> Nat] /\ Attended \subseteq Ftxs
  /\ MaxRequests \in Nat /\ MaxDevices \in Nat
  /\ FtxRibbons \subseteq Ribbons
  /\ \A t \in Ribbons, went \in SUBSET Ftxs : Derived(t, went) \in 0..MaxDevices

\* What a request in progress is, by what it came for.
Days == {0} \cup {Date[f] : f \in Ftxs}
Submissions == [op : {"submit"}, on : SUBSET Things, claims : {{}}]
Approvals == [op : {"approve"}, on : {{t} : t \in Things}, claims : {{c} : c \in Claims}, last : Days,
              went : SUBSET Ftxs, stored : RibbonType, derived : 0..MaxDevices]
Refusals == [op : {"deny", "revoke"}, on : {{t} : t \in Things}, claims : {{c} : c \in Claims}]
Grants == [op : {"grant"}, on : {{t} : t \in Records}, claims : {{}}]
Awards == [op : {"ribbon"}, on : {{t} : t \in Ribbons}, claims : {{}}, stored : RibbonType,
           n : 0..MaxDevices, comment : {"blank", "text"}]
Removals == [op : {"unribbon"}, on : {{t} : t \in Ribbons}, claims : {{}}]
Underway == Submissions \cup Approvals \cup Refusals \cup Grants \cup Awards \cup Removals
TypeInv == TypeOK /\ req \in [Slots -> Underway \cup {NoRequest}]

\* A claim filed has a status, and a ribbon not held nothing else.
ClaimInv(c) == claim[c].status # "none" => claim[c].of \in Things
RibbonInv(t) == ribbon[t].held \/ ribbon[t] = NoRibbon

\* What a request has read is still so, unless another was about the same.
SubmitInv(q) == q.op = "submit" => \A t \in q.on \ crossed : Pending({t}) = {}
DecideInv(q) ==
  \A c \in q.claims :
    /\ claim[c].of \in q.on /\ claim[c].status # "none"
    /\ q.op \in {"approve", "deny"} => claim[c].of \in crossed \/ claim[c].status = "pending"
ApproveInv(q) ==
  q.op = "approve" => \A t \in q.on :
    /\ t \in Ribbons => q.derived = Derived(t, q.went) /\ (t \in crossed \/ q.stored = ribbon[t])
    /\ t \in Ftxs => /\ t \in crossed \/ (t \in q.went <=> t \in attended)
                     /\ "last" \in crossed \/ q.last = last
RequestInv(q) == SubmitInv(q) /\ DecideInv(q) /\ ApproveInv(q)
CrossInv == \A r, s \in Slots : r # s => Touches(req[r]) \cap Touches(req[s]) \subseteq crossed

TrainingInv ==
  /\ TypeInv /\ CrossInv
  /\ \A r \in Slots : RequestInv(req[r])
  /\ \A c \in Claims : ClaimInv(c)
  /\ \A t \in Ribbons : RibbonInv(t)
  /\ ApprovedIsOnRecord /\ RecordsHaveGround /\ OneClaimPending /\ StarsAreKept
  /\ LastFtxIsLatest /\ CommentsStay

-----------------------------------------------------------------------------
(* What the code does not keep. *)

\* A claim never costs devices, whatever other requests are under way.
StarsAreAlwaysKept == dimmed = {}

\* A thing is recorded once.
OneRecordEach == \A t \in Records : rows[t] <= 1

\* What is denied and nothing else is not on record.
DeniedIsNotOnRecord ==
  \A t \in Things \ granted :
    (\E c \in Claims : claim[c] = [of |-> t, status |-> "denied"]) /\ ApprovedFor(t) = {}
    => t \notin Ribbons \cup Records \/ ~OnRecord(t) \/ t \in crossed

\* A direct sign-off stands when the claim for the same item is revoked.
GrantsStand == [][\A t \in granted \ granted' : FALSE]_vars

\* The licence class is that of a certificate on record.
LicenceIsHeld == licence = 0 \/ \E t \in Certs : Level[t] = licence /\ rows[t] > 0

\* The licence class is the highest of the certificates.
HighestLicence == \A t \in Certs : rows[t] > 0 /\ t \notin granted => licence >= Level[t]

\* The points count the devices the profile shows.
PointsMatchProfile ==
  \A t \in Ribbons : ribbon[t].held => ribbon[t].devices >= Derived(t, attended)
=============================================================================
