----------------------------- MODULE Separation -----------------------------
(***************************************************************************)
(* Members leave, come back, and go on leave.  The portal                  *)
(* (app/routes/s1_admin.py) disables the Nextcloud account and takes its   *)
(* groups away before it commits the separation; a reconciler on the host  *)
(* (scripts/offboard-reconcile.py) later removes what is left and corrects *)
(* the flags of the separation log; a daily runner (leave_return_runner.py)*)
(* ends leaves.  These are three processes that share the roster and the   *)
(* accounts, and whose calls may fail one by one.                          *)
(***************************************************************************)
EXTENDS Integers, FiniteSets

CONSTANTS
  Members,
  Starts,       \* the statuses members may have when the history begins
  Ops,          \* the operations S1 uses, see OpKinds
  MaxRequests,  \* bound on the requests begun
  MaxActive,    \* bound on the requests in progress at once
  MaxFaults,    \* bound on failing calls, dying processes and restarts
  MaxOutside    \* bound on logins and on promotions made elsewhere

OpKinds == {"offboard", "reactivate", "leave"}
Serving == {"recruit", "active", "inactive"}
Gone == {"separated", "blacklisted"}
Groups == {"13th Legion", "Rank", "on-leave"}
Restored == {"13th Legion", "Rank"}  \* what a reactivation gives back

\* The constants' assumptions.
Sound ==
  /\ IsFiniteSet(Members) /\ Starts \subseteq Serving /\ Ops \subseteq OpKinds
  /\ MaxRequests \in Nat /\ MaxActive \in Nat /\ MaxFaults \in Nat /\ MaxOutside \in Nat

VARIABLES
  row,       \* member -> status, patch and leave in the roster
  account,   \* member -> the Nextcloud account, its groups, Talk rooms, tokens
  log,       \* member -> the flags of the rows in separation_log
  load,      \* current_load of the recruiter all recruits have
  req,       \* the request of each number
  rec,       \* the reconciler
  cron,      \* the leave runner
  begun, faults, outside,
  regained,  \* history: members whose account regained something unseen
  misread,   \* history: members whose flags come from a call that failed
  leaves,    \* history: member -> leaves granted
  returns,   \* history: member -> mails that the leave has ended
  cut        \* history: members mailed by a runner that died before its commit

tables == <<row, account, log, load>>
bounds == <<begun, faults, outside>>
history == <<regained, misread, leaves, returns, cut>>
vars == <<tables, req, rec, cron, bounds, history>>

Flags == [disabled : BOOLEAN, groups : BOOLEAN, talk : BOOLEAN, tokens : BOOLEAN]
Rows == [status : Serving \cup Gone, patched : BOOLEAN, leave : {"none", "running", "over"}]
Accounts == [exists : BOOLEAN, enabled : BOOLEAN, groups : SUBSET Groups,
             rooms : BOOLEAN, tokens : BOOLEAN]
Requests == 1..MaxRequests
Handled == [pc : {"disable", "list", "remove", "verify", "ensure", "enable", "add",
                  "leave", "commit"},
            op : OpKinds, m : Members, seen : Rows, to : Serving \cup Gone,
            account : BOOLEAN,  \* the form's box for the account: disable, enable
            groups : BOOLEAN,   \* and for the groups: remove, restore
            left : SUBSET Groups, disabled : BOOLEAN, removed : BOOLEAN]
Reconciling == [pc : {"idle", "next", "mark", "remove", "evict", "revoke", "verify",
                      "record"},
                todo : SUBSET Members, m : Members, left : SUBSET Groups,
                rooms : BOOLEAN, tokens : BOOLEAN, flags : Flags,
                was : BOOLEAN]  \* history: regained before this visit

\* Types; the request of a number is "none" before it begins and after it ends.
TypeOK ==
  /\ row \in [Members -> Rows]
  /\ account \in [Members -> Accounts]
  /\ log \in [Members -> SUBSET Flags]
  /\ load \in Nat
  /\ \A r \in Requests : req[r].pc = "none" \/ req[r] \in Handled
  /\ rec.pc = "idle" \/ rec \in Reconciling
  /\ cron \in [pc : {"idle", "work"}, todo : SUBSET Members, done : SUBSET Members]
  /\ begun \in 0..MaxRequests /\ faults \in 0..MaxFaults /\ outside \in 0..MaxOutside

-----------------------------------------------------------------------------
NoRequest == [pc |-> "none"]
NoFlags == [disabled |-> FALSE, groups |-> FALSE, talk |-> FALSE, tokens |-> FALSE]
IdleReconciler == [pc |-> "idle"]
IdleRunner == [pc |-> "idle", todo |-> {}, done |-> {}]

\* Active members have their patch; an inactive recruit has none, and was never
\* provisioned.
Init ==
  /\ \E s \in [Members -> Starts] :
       /\ row = [m \in Members |-> [status |-> s[m], patched |-> s[m] = "active", leave |-> "none"]]
       /\ account = [m \in Members |->
            [exists |-> s[m] # "inactive", enabled |-> s[m] # "inactive",
             groups |-> IF s[m] = "inactive" THEN {} ELSE Restored,
             rooms |-> s[m] # "inactive", tokens |-> s[m] # "inactive"]]
       /\ load = Cardinality({m \in Members : s[m] = "recruit"})
  /\ log = [m \in Members |-> {}]
  /\ req = [r \in Requests |-> NoRequest]
  /\ rec = IdleReconciler /\ cron = IdleRunner
  /\ begun = 0 /\ faults = 0 /\ outside = 0
  /\ regained = {} /\ misread = {} /\ cut = {}
  /\ leaves = [m \in Members |-> 0] /\ returns = [m \in Members |-> 0]

MayFail == faults < MaxFaults /\ faults' = faults + 1
NoFault == UNCHANGED faults
Written(old, seen, new) == IF new = seen THEN old ELSE new
Leftovers(m) == account[m].groups # {} \/ account[m].rooms \/ account[m].tokens
Neutralised(m) == ~account[m].exists \/ ~account[m].enabled

End(r) == req' = [req EXCEPT ![r] = NoRequest]
Step(r, pc) == req' = [req EXCEPT ![r].pc = pc]

-----------------------------------------------------------------------------
(* Requests of S1. *)

Begin(request) ==
  /\ begun < MaxRequests /\ begun' = begun + 1
  /\ Cardinality({r \in Requests : req[r].pc # "none"}) < MaxActive
  /\ request.op \in Ops
  /\ req' = [req EXCEPT ![begun + 1] = request]

Request(op, pc, m, to, acc, grp) ==
  [pc |-> pc, op |-> op, m |-> m, seen |-> row[m], to |-> to, account |-> acc,
   groups |-> grp, left |-> {}, disabled |-> FALSE, removed |-> FALSE]

\* process_offboarding has no condition on the status.
BeginOffboard(m) ==
  /\ \E to \in Gone, acc, grp \in BOOLEAN :
       Begin(Request("offboard", "disable", m, to, acc, grp))
  /\ UNCHANGED <<tables, rec, cron, faults, outside, history>>

\* The account is disabled if the box was ticked; a failure is noted, and may
\* come after the effect.
Disable(r) ==
  LET q == req[r] IN
  /\ q.pc = "disable"
  /\ \/ /\ q.account /\ account[q.m].exists /\ NoFault
        /\ account' = [account EXCEPT ![q.m].enabled = FALSE]
        /\ req' = [req EXCEPT ![r].pc = "list", ![r].disabled = TRUE]
     \/ /\ q.account /\ account[q.m].exists /\ MayFail
        /\ \/ account' = [account EXCEPT ![q.m].enabled = FALSE]
           \/ UNCHANGED account
        /\ Step(r, "list")
     \/ /\ ~q.account \/ ~account[q.m].exists
        /\ NoFault /\ UNCHANGED account /\ Step(r, "list")
  /\ UNCHANGED <<row, log, load, rec, cron, begun, outside, history>>

\* _nc_remove_all_groups lists the groups ...
ListGroups(r) ==
  LET q == req[r] IN
  /\ q.pc = "list"
  /\ \/ /\ q.groups /\ account[q.m].exists /\ NoFault
        /\ req' = [req EXCEPT ![r].pc = "remove", ![r].left = account[q.m].groups]
     \/ q.groups /\ account[q.m].exists /\ MayFail /\ Step(r, "commit")
     \/ (~q.groups \/ ~account[q.m].exists) /\ NoFault /\ Step(r, "commit")
  /\ UNCHANGED <<tables, rec, cron, begun, outside, history>>

\* ... deletes them one by one, whatever the answers ...
RemoveGroup(r) ==
  LET q == req[r] IN
  /\ q.pc = "remove"
  /\ \E g \in q.left :
       /\ \/ NoFault /\ account' = [account EXCEPT ![q.m].groups = @ \ {g}]
          \/ MayFail /\ UNCHANGED account
       /\ req' = [req EXCEPT ![r].left = @ \ {g}]
  /\ UNCHANGED <<row, log, load, rec, cron, begun, outside, history>>

\* ... and believes only a second listing.
VerifyGroups(r) ==
  /\ req[r].pc = "remove" /\ req[r].left = {}
  /\ \/ /\ NoFault
        /\ req' = [req EXCEPT ![r].pc = "commit",
                              ![r].removed = account[req[r].m].groups = {}]
     \/ MayFail /\ Step(r, "commit")
  /\ UNCHANGED <<tables, rec, cron, begun, outside, history>>

\* _release_recruiter_load.
Released(n) == IF n > 0 THEN n - 1 ELSE 0

UnguardedOffboard(r) ==  \* Mutant: the load has no floor.
  LET q == req[r] IN
  /\ q.pc = "commit" /\ q.op = "offboard"
  /\ row' = [row EXCEPT ![q.m].status = Written(@, q.seen.status, q.to)]
  /\ log' = [log EXCEPT ![q.m] = @ \cup {NoFlags}]
  /\ load' = IF q.seen.status = "recruit" THEN load - 1 ELSE load
  /\ End(r)
  /\ UNCHANGED <<account, rec, cron, bounds, history>>

\* The status, the log row and the recruiter's load, in one transaction.
CommitOffboard(r) ==
  LET q == req[r] IN
  /\ q.pc = "commit" /\ q.op = "offboard"
  /\ row' = [row EXCEPT ![q.m].status = Written(@, q.seen.status, q.to)]
  /\ log' = [log EXCEPT ![q.m] = @ \cup
       {[NoFlags EXCEPT !.disabled = q.disabled, !.groups = q.removed]}]
  /\ load' = IF q.seen.status = "recruit" THEN Released(load) ELSE load
  /\ End(r)
  /\ UNCHANGED <<account, rec, cron, bounds, history>>

\* reactivate_member refuses a blacklisted member.
BeginReactivate(m) ==
  /\ row[m].status \in {"separated", "inactive"}
  /\ \E to \in {"active", "recruit"}, acc, grp \in BOOLEAN :
       Begin(Request("reactivate", "ensure", m, to, acc, grp))
  /\ UNCHANGED <<tables, rec, cron, faults, outside, history>>

\* An account that does not exist is created, unless a call fails.
EnsureAccount(r) ==
  LET q == req[r] IN
  /\ q.pc = "ensure"
  /\ \/ /\ q.account \/ q.groups
        /\ NoFault
        /\ account' = IF account[q.m].exists THEN account
                      ELSE [account EXCEPT ![q.m].exists = TRUE, ![q.m].enabled = TRUE]
        /\ regained' = IF account[q.m].exists THEN regained ELSE regained \cup {q.m}
     \/ (q.account \/ q.groups) /\ MayFail /\ UNCHANGED <<account, regained>>
     \/ ~q.account /\ ~q.groups /\ NoFault /\ UNCHANGED <<account, regained>>
  /\ Step(r, "enable")
  /\ UNCHANGED <<row, log, load, rec, cron, begun, outside, misread, leaves, returns, cut>>

EnableAccount(r) ==
  LET q == req[r] IN
  /\ q.pc = "enable"
  /\ \/ /\ q.account /\ account[q.m].exists /\ NoFault
        /\ account' = [account EXCEPT ![q.m].enabled = TRUE]
        /\ regained' = regained \cup {q.m}
     \/ q.account /\ account[q.m].exists /\ MayFail /\ UNCHANGED <<account, regained>>
     \/ (~q.account \/ ~account[q.m].exists) /\ NoFault /\ UNCHANGED <<account, regained>>
  /\ req' = [req EXCEPT ![r].pc = "add", ![r].left = IF q.groups THEN Restored ELSE {}]
  /\ UNCHANGED <<row, log, load, rec, cron, begun, outside, misread, leaves, returns, cut>>

\* The groups are added one by one.  The answers are not looked at; an
\* exception ends the loop.
RestoreGroup(r) ==
  LET q == req[r] IN
  /\ q.pc = "add"
  /\ \E g \in q.left :
       \/ /\ NoFault
          /\ account' = IF account[q.m].exists
                          THEN [account EXCEPT ![q.m].groups = @ \cup {g}] ELSE account
          /\ regained' = regained \cup {q.m}
          /\ req' = [req EXCEPT ![r].left = @ \ {g}]
       \/ /\ MayFail
          /\ UNCHANGED <<account, regained>>
          /\ \/ req' = [req EXCEPT ![r].left = @ \ {g}]
             \/ req' = [req EXCEPT ![r].left = {}]
  /\ UNCHANGED <<row, log, load, rec, cron, begun, outside, misread, leaves, returns, cut>>

\* The new status; the row it adds to the log is not one of a separation.
CommitReactivate(r) ==
  LET q == req[r] IN
  /\ q.pc = "add" /\ q.left = {}
  /\ row' = [row EXCEPT ![q.m].status = Written(@, q.seen.status, q.to)]
  /\ End(r)
  /\ UNCHANGED <<account, log, load, rec, cron, bounds, history>>

\* place_on_leave: for members with a patch, whatever their status.
BeginLeave(m) ==
  /\ row[m].patched /\ row[m].leave = "none"
  /\ Begin(Request("leave", "leave", m, row[m].status, TRUE, TRUE))
  /\ UNCHANGED <<tables, rec, cron, faults, outside, history>>

JoinLeaveGroup(r) ==
  LET q == req[r] IN
  /\ q.pc = "leave"
  /\ \/ /\ account[q.m].exists /\ NoFault
        /\ account' = [account EXCEPT ![q.m].groups = @ \cup {"on-leave"}]
        /\ regained' = regained \cup {q.m}
     \/ account[q.m].exists /\ MayFail /\ UNCHANGED <<account, regained>>
     \/ ~account[q.m].exists /\ NoFault /\ UNCHANGED <<account, regained>>
  /\ Step(r, "commit")
  /\ UNCHANGED <<row, log, load, rec, cron, begun, outside, misread, leaves, returns, cut>>

CommitLeave(r) ==
  LET q == req[r] IN
  /\ q.pc = "commit" /\ q.op = "leave"
  /\ row' = [row EXCEPT ![q.m].leave = "running"]
  /\ leaves' = [leaves EXCEPT ![q.m] = @ + 1]
  /\ End(r)
  /\ UNCHANGED <<account, log, load, rec, cron, bounds, regained, misread, returns, cut>>

\* The portal dies, or a request raises before its commit: what the calls did
\* to the account stays.
RequestDies(r) ==
  /\ req[r].pc # "none" /\ MayFail
  /\ End(r)
  /\ UNCHANGED <<tables, rec, cron, begun, outside, history>>

-----------------------------------------------------------------------------
(* What happens elsewhere. *)

\* The reconciler has looked at the member and not recorded yet.
Visited(m) == rec.pc \notin {"idle", "next"} /\ rec.m = m

\* A user whose account is enabled logs in with a device and enters a room.
Login(m) ==
  /\ account[m].exists /\ account[m].enabled
  /\ outside < MaxOutside /\ outside' = outside + 1
  /\ account' = [account EXCEPT ![m].tokens = TRUE, ![m].rooms = TRUE]
  /\ regained' = IF Visited(m) THEN regained \cup {m} ELSE regained
  /\ UNCHANGED <<row, log, load, req, rec, cron, begun, faults, misread, leaves, returns, cut>>

\* _sync_rank_group, after a promotion or an edit, whatever the status.
SyncRank(m) ==
  /\ account[m].exists
  /\ outside < MaxOutside /\ outside' = outside + 1
  /\ account' = [account EXCEPT ![m].groups = @ \cup {"Rank"}]
  /\ regained' = regained \cup {m}
  /\ UNCHANGED <<row, log, load, req, rec, cron, begun, faults, misread, leaves, returns, cut>>

LeaveRunsOut(m) ==
  /\ row[m].leave = "running"
  /\ row' = [row EXCEPT ![m].leave = "over"]
  /\ UNCHANGED <<account, log, load, req, rec, cron, bounds, history>>

-----------------------------------------------------------------------------
(* The leave runner, once a day. *)

RunnerStarts ==
  /\ cron.pc = "idle"
  /\ \E m \in Members : row[m].leave = "over"
  /\ cron' = [pc |-> "work", todo |-> {m \in Members : row[m].leave = "over"}, done |-> {}]
  /\ UNCHANGED <<tables, req, rec, bounds, history>>

\* The call that should take the member out of the leave group passes a body to
\* a method that takes none, and its error is swallowed; then the mail is sent.
ReturnMember(m) ==
  /\ cron.pc = "work" /\ m \in cron.todo
  /\ cron' = [cron EXCEPT !.todo = @ \ {m}, !.done = @ \cup {m}]
  /\ \/ NoFault /\ returns' = [returns EXCEPT ![m] = @ + 1]
     \/ MayFail /\ UNCHANGED returns
  /\ UNCHANGED <<tables, req, rec, begun, outside, regained, misread, leaves, cut>>

NothingCommitted ==  \* Mutant: the session is closed without a commit.
  /\ cron.pc = "work" /\ cron.todo = {}
  /\ cron' = IdleRunner
  /\ UNCHANGED <<tables, req, rec, bounds, history>>

\* One commit for all of them.
RunnerCommits ==
  /\ cron.pc = "work" /\ cron.todo = {}
  /\ row' = [m \in Members |->
       IF m \in cron.done THEN [row[m] EXCEPT !.leave = "none"] ELSE row[m]]
  /\ cron' = IdleRunner
  /\ UNCHANGED <<account, log, load, req, rec, bounds, history>>

RunnerDies ==
  /\ cron.pc = "work" /\ MayFail
  /\ cron' = IdleRunner
  /\ cut' = cut \cup cron.done
  /\ UNCHANGED <<tables, req, rec, begun, outside, regained, misread, leaves, returns>>

-----------------------------------------------------------------------------
(* The reconciler, every ten minutes, outside the portal. *)

NewlyUnresolved ==  \* Mutant: only rows with nothing done yet.
  {m \in Members : row[m].status \in Gone /\ NoFlags \in log[m]}

GoneMembers == {m \in Members : row[m].status \in Gone}

\* It lists the members once and then visits them one after the other.
RecStarts ==
  /\ rec.pc = "idle" /\ GoneMembers # {}
  /\ \E m \in Members :
       rec' = [pc |-> "next", todo |-> GoneMembers, m |-> m, left |-> {},
               rooms |-> FALSE, tokens |-> FALSE, flags |-> NoFlags, was |-> FALSE]
  /\ UNCHANGED <<tables, req, cron, bounds, history>>

\* To the next member, or to the end.
Proceed == rec' = IF rec.todo = {} THEN IdleReconciler ELSE [rec EXCEPT !.pc = "next"]

\* The groups, rooms and tokens of a member.  A failure of occ looks like an
\* account that does not exist; of the queries, VisitFails.  User names are
\* plain: the others SAFE_UID refuses at every visit, and are reported.
Look(m) ==
  /\ rec.pc = "next" /\ m \in rec.todo
  /\ \/ /\ NoFault /\ UNCHANGED misread
        /\ LET groups == IF account[m].exists THEN account[m].groups ELSE {} IN
           rec' = [rec EXCEPT !.todo = @ \ {m}, !.m = m, !.left = groups,
                     !.rooms = account[m].rooms, !.tokens = account[m].tokens,
                     !.was = m \in regained,
                     !.pc = IF Leftovers(m) THEN "remove" ELSE "mark"]
     \/ /\ MayFail /\ misread' = misread \cup {m}
        /\ rec' = [rec EXCEPT !.todo = @ \ {m}, !.m = m, !.left = {},
                     !.rooms = account[m].rooms, !.tokens = account[m].tokens,
                     !.was = m \in regained,
                     !.pc = IF account[m].rooms \/ account[m].tokens THEN "remove"
                            ELSE "mark"]
  /\ regained' = IF Leftovers(m) THEN regained ELSE regained \ {m}
  /\ UNCHANGED <<tables, req, cron, begun, outside, leaves, returns, cut>>

\* UPDATE separation_log: every row of the member's separations.
Record(m, flags) == log' = [log EXCEPT ![m] = {flags : f \in @}]

\* Nothing is left: the flags say so.
MarkClean ==
  /\ rec.pc = "mark"
  /\ \/ NoFault /\ UNCHANGED misread
        /\ Record(rec.m, [disabled |-> Neutralised(rec.m), groups |-> TRUE,
                          talk |-> TRUE, tokens |-> TRUE])
     \/ MayFail /\ misread' = misread \cup {rec.m}
        /\ Record(rec.m, [disabled |-> TRUE, groups |-> TRUE, talk |-> TRUE,
                          tokens |-> TRUE])
  /\ Proceed
  /\ UNCHANGED <<row, account, load, req, cron, begun, outside, regained, leaves,
                 returns, cut>>

OccRemoves ==
  /\ rec.pc = "remove"
  /\ \E g \in rec.left :
       /\ \/ NoFault /\ account' = [account EXCEPT ![rec.m].groups = @ \ {g}]
          \/ MayFail /\ UNCHANGED account
       /\ rec' = [rec EXCEPT !.left = @ \ {g}]
  /\ UNCHANGED <<row, log, load, req, cron, begun, outside, history>>

Evict ==
  /\ rec.pc = "remove" /\ rec.left = {}
  /\ \/ rec.rooms /\ NoFault /\ account' = [account EXCEPT ![rec.m].rooms = FALSE]
     \/ rec.rooms /\ MayFail /\ UNCHANGED account
     \/ ~rec.rooms /\ NoFault /\ UNCHANGED account
  /\ rec' = [rec EXCEPT !.pc = "revoke"]
  /\ UNCHANGED <<row, log, load, req, cron, begun, outside, history>>

Revoke ==
  /\ rec.pc = "revoke"
  /\ account' = IF rec.tokens THEN [account EXCEPT ![rec.m].tokens = FALSE] ELSE account
  /\ rec' = [rec EXCEPT !.pc = "verify"]
  /\ UNCHANGED <<row, log, load, req, cron, bounds, history>>

Unchecked ==  \* Mutant: the flags say what was done, not what is left.
  /\ rec.pc = "verify"
  /\ rec' = [rec EXCEPT !.pc = "record", !.flags =
       [disabled |-> Neutralised(rec.m), groups |-> TRUE, talk |-> TRUE, tokens |-> TRUE]]
  /\ UNCHANGED <<tables, req, cron, bounds, history>>

\* It looks again.  A failure of occ now reads as "no groups", and as an account
\* that cannot be logged into.
Verify ==
  /\ rec.pc = "verify"
  /\ \/ /\ NoFault /\ UNCHANGED misread
        /\ rec' = [rec EXCEPT !.pc = "record", !.flags =
             [disabled |-> Neutralised(rec.m),
              groups |-> ~account[rec.m].exists \/ account[rec.m].groups = {},
              talk |-> ~account[rec.m].rooms, tokens |-> ~account[rec.m].tokens]]
     \/ /\ MayFail /\ misread' = misread \cup {rec.m}
        /\ rec' = [rec EXCEPT !.pc = "record", !.flags =
             [disabled |-> TRUE, groups |-> TRUE,
              talk |-> ~account[rec.m].rooms, tokens |-> ~account[rec.m].tokens]]
  /\ regained' = regained \ {rec.m}
  /\ UNCHANGED <<tables, req, cron, begun, outside, leaves, returns, cut>>

RecordResult ==
  /\ rec.pc = "record"
  /\ Record(rec.m, rec.flags)
  /\ Proceed
  /\ UNCHANGED <<row, account, load, req, cron, bounds, history>>

\* A statement raises, in the look already or later: on to the next member,
\* without a record.
VisitFails ==
  /\ rec.pc \in {"mark", "remove", "revoke", "verify", "record"} /\ MayFail
  /\ Proceed
  /\ regained' = IF rec.was THEN regained \cup {rec.m} ELSE regained
  /\ UNCHANGED <<tables, req, cron, begun, outside, misread, leaves, returns, cut>>

-----------------------------------------------------------------------------
Reconcile ==
  \/ RecStarts \/ (\E m \in Members : Look(m)) \/ MarkClean \/ OccRemoves \/ Evict
  \/ Revoke \/ Verify \/ RecordResult \/ VisitFails

Runner ==
  \/ RunnerStarts \/ (\E m \in Members : ReturnMember(m)) \/ RunnerCommits \/ RunnerDies

Next ==
  \/ \E m \in Members :
       \/ BeginOffboard(m) \/ BeginReactivate(m) \/ BeginLeave(m)
       \/ Login(m) \/ SyncRank(m) \/ LeaveRunsOut(m)
  \/ \E r \in Requests :
       \/ Disable(r) \/ ListGroups(r) \/ RemoveGroup(r) \/ VerifyGroups(r)
       \/ CommitOffboard(r)
       \/ EnsureAccount(r) \/ EnableAccount(r) \/ RestoreGroup(r) \/ CommitReactivate(r)
       \/ JoinLeaveGroup(r) \/ CommitLeave(r) \/ RequestDies(r)
  \/ Reconcile \/ Runner

Spec == Init /\ [][Next]_vars

\* Both are timers of the host, which start them again whatever happened.
FairSpec == Spec /\ WF_vars(Reconcile) /\ WF_vars(Runner)

-----------------------------------------------------------------------------
(* Properties. *)

\* The panel of unresolved cleanups: a row of the log with a flag unset.
AllSet(f) == f.disabled /\ f.groups /\ f.talk /\ f.tokens
Unresolved(m) == \E f \in log[m] : ~AllSet(f)

\* Between the visits of the reconciler, what a separated member still has is
\* shown to S1 as unresolved, unless another handler gave it back since the
\* reconciler looked, the user came in while it looked, or a failing call of occ
\* was taken for an answer.
NothingHidden ==
  \A m \in Members :
    row[m].status \in Gone /\ Leftovers(m) /\ m \notin regained \cup misread /\ ~Visited(m)
      => Unresolved(m)

\* Whatever fails and whoever gives access back, a separated member's groups,
\* rooms and tokens are removed in the end, unless they serve again.
CleanedInTheEnd ==
  \A m \in Members :
    row[m].status \in Gone /\ Leftovers(m) ~> row[m].status \notin Gone \/ ~Leftovers(m)

\* The end of a leave is mailed once, unless the runner died between its mails
\* and its commit.
ReturnMailedOnce == \A m \in Members : m \notin cut => returns[m] <= leaves[m]

\* Separations are in order: what the separated still have is shown, and the end
\* of a leave is mailed once.
SeparationsAreInOrder == TypeOK /\ NothingHidden /\ ReturnMailedOnce

-----------------------------------------------------------------------------
(* The inductive invariant. *)

TypeInv ==
  /\ row \in [Members -> Rows]
  /\ account \in [Members -> Accounts]
  /\ log \in [Members -> SUBSET Flags]
  /\ load \in Nat
  /\ req \in [Requests -> {NoRequest} \cup Handled]
  /\ rec \in {IdleReconciler} \cup Reconciling
  /\ cron \in [pc : {"idle", "work"}, todo : SUBSET Members, done : SUBSET Members]
  /\ begun \in 0..MaxRequests /\ faults \in 0..MaxFaults /\ outside \in 0..MaxOutside
  /\ regained \subseteq Members /\ misread \subseteq Members /\ cut \subseteq Members
  /\ leaves \in [Members -> Nat] /\ returns \in [Members -> Nat]

\* A reactivation makes nobody leave; who left has a row in the log; there is
\* nothing in an account that does not exist.
StateInv ==
  /\ \A r \in Requests : req[r].pc \in {"ensure", "enable", "add"} => req[r].to \in Serving
  /\ \A m \in Members : row[m].status \in Gone => log[m] # {}
  /\ \A m \in Members : ~account[m].exists => ~Leftovers(m)

\* What the separated still have is shown.  Who is not shown cannot come in.
Shown(m) ==
  row[m].status \in Gone /\ m \notin regained \cup misread
    => Unresolved(m) \/ (~Leftovers(m) /\ Neutralised(m))

Clean(m) == m \in regained \cup misread \/ ~Leftovers(m)

\* What a visit will record is true, and a visit that fails has hidden nothing.
VisitInv ==
  /\ rec.pc = "mark" => Clean(rec.m) /\ (~rec.was => Shown(rec.m))
  /\ rec.pc \in {"remove", "revoke", "verify", "record"} =>
       (~rec.was /\ rec.m \notin misread /\ row[rec.m].status \in Gone => Unresolved(rec.m))
  /\ rec.pc = "record" /\ AllSet(rec.flags) =>
       rec.m \in regained \cup misread \/ (~Leftovers(rec.m) /\ Neutralised(rec.m))

HiddenInv == \A m \in Members : ~Visited(m) => Shown(m)

\* A mail is owed for every leave that the runner has not come to.
Owed(m) == IF row[m].leave # "none" /\ m \notin cron.done THEN 1 ELSE 0
ReturnInv ==
  /\ cron.todo \cap cron.done = {}
  /\ cron.pc = "idle" => cron.todo = {} /\ cron.done = {}
  /\ \A m \in cron.todo \cup cron.done : row[m].leave # "none"
  /\ \A m \in Members \ cut : returns[m] + Owed(m) <= leaves[m]

SeparationInv == TypeInv /\ StateInv /\ VisitInv /\ HiddenInv /\ ReturnInv

-----------------------------------------------------------------------------
(* What the program does not keep. *)

\* The flags of the log are true: violated when occ cannot be run.
FlagsTruthful ==
  \A m \in Members :
    row[m].status \in Gone /\ Leftovers(m) /\ m \notin regained => Unresolved(m)

\* A member who has returned from leave is taken out of the leave group, which
\* exempts accounts from retention: violated by every return.
ReturnedLeavesGroup ==
  \A m \in Members : row[m].leave = "over" ~> "on-leave" \notin account[m].groups

\* The reconciler takes nothing from a member who serves: violated when it has
\* listed somebody who is reactivated before it comes to them.
ServingKeepTheirs ==
  [][\A m \in Members : OccRemoves /\ m = rec.m => row[m].status \in Gone]_vars

\* A blacklisted member is never reactivated: violated by a reactivation that
\* read the status before, and by a second offboarding for another reason.
BlacklistHolds ==
  [][\A m \in Members : row[m].status = "blacklisted" => row'[m].status = "blacklisted"]_vars

\* A member who serves has the account they had: violated by a portal that dies
\* between the calls to Nextcloud and the commit.
ServingHaveAccounts ==
  \A m \in Members :
    row[m].status = "active" /\ (\A r \in Requests : req[r].pc = "none") => account[m].enabled
=============================================================================
