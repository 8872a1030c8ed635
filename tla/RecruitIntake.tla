--------------------------- MODULE RecruitIntake ---------------------------
(***************************************************************************)
(* Phases 1 and 1.5 of the recruit daemon (recruit-pipeline/               *)
(* recruit-daemon.py): submissions of the application form become cards of *)
(* the Deck board or are forwarded to other companies, and the applicants  *)
(* whose card S1 has moved to "Documents & Payment" are asked to pay.      *)
(* A poll that raises is abandoned: what it has recorded stays in memory,  *)
(* and is lost if the daemon dies before the end of a later poll.          *)
(***************************************************************************)
EXTENDS Naturals, FiniteSets

CONSTANTS
  Subs,           \* the form submissions
  Applications,   \* what a submission may be like, see Application
  Faults,         \* the kinds of failure the environment exhibits
  MaxCards,       \* bound on the cards created for one submission
  MaxFaults,      \* bound on the failures and dry runs of a history
  MaxCrashes,     \* bound on daemon crashes
  MaxEdits,       \* bound on what S1 staff undo or correct
  NoSub           \* "no submission is being handled"

(***************************************************************************)
(* A Deck call is refused ("deck"), takes effect but its reply is lost     *)
(* ("lostReply"), or a list cannot be fetched ("list"); the blacklist      *)
(* query fails ("db"); SMTP fails ("smtp") or accepts a message and fails  *)
(* afterwards ("lostAck"); forwarding to another company fails             *)
(* ("forward"); state.json is not written ("save"); S1 tests a new version *)
(* with --once --dry-run while the service is stopped ("dryRun"); Talk     *)
(* refuses a notice to S1, or Deck a note on a card ("notice"), at any     *)
(* time: these refusals are not counted.                                   *)
(***************************************************************************)
FaultKinds == {"deck", "lostReply", "list", "db", "smtp", "lostAck", "forward",
               "save", "dryRun", "notice"}

Mails == {"none", "malformed", "bounces", "good"}
\* screen: is the applicant, or a similar name, blacklisted?
\* located: does the geocoder find the address?
Application == [screen : {"clean", "fuzzy", "exact"}, route : {"deck", "other"},
                mail : Mails, located : BOOLEAN]
Cards == Subs \X (1..MaxCards)

ASSUME ApplicationsAssumption == Applications \subseteq Application
ASSUME FaultsAssumption == Faults \subseteq FaultKinds
ASSUME BoundsAssumption ==
  /\ MaxCards \in Nat \ {0} /\ MaxFaults \in Nat
  /\ MaxCrashes \in Nat /\ MaxEdits \in Nat
ASSUME NoSubAssumption == NoSub \notin Subs

VARIABLES
  app,        \* submission -> its content
  submitted,  \* the submissions the Forms API lists
  stack,      \* card -> the stack it is in: "absent", "early", "documents"
  email,      \* card -> the address the card yields for the payment email
  letters,    \* submission -> what was delivered: "confirmation", "forward"
  rejected,   \* the submissions answered as blacklist hits
  told,       \* the submissions S1 was told to screen by hand
  unheard,    \* those that Talk refused to tell S1 about
  payments,   \* card -> payment emails delivered
  flagged,    \* the cards S1 was told to correct and to move out and back
  unflagged,  \* the cards S1 should have been told to correct, but was not
  movedBack,  \* the flagged cards that S1 has corrected and moved back
  abandoned,  \* the submissions a dry run has recorded, or marked the card of,
              \* and those that could not be forwarded
  mem, disk,  \* the daemon's state dictionary, and state.json
  pc,         \* where the daemon is
  work,       \* submissions of this poll still to visit
  due,        \* cards of this poll still to visit, with their address
  cur,        \* the submission being handled
  crashes, edits,
  faults,     \* failures so far
  lost        \* of these, those that hid an effect: lost replies and acks

boardVars == <<stack, email>>
outVars == <<letters, rejected, told, unheard, payments, flagged, unflagged,
             movedBack, abandoned>>
stateVars == <<mem, disk>>
pollVars == <<pc, work, due, cur>>
boundVars == <<crashes, edits, faults, lost>>
vars == <<app, submitted, boardVars, outVars, stateVars, pollVars, boundVars>>

Memories == [processed : SUBSET Subs, paid : SUBSET Cards]

TypeOK ==
  /\ app \in [Subs -> Application]
  /\ submitted \subseteq Subs
  /\ stack \in [Cards -> {"absent", "early", "documents"}]
  /\ email \in [Cards -> Mails]
  /\ letters \in [Subs -> SUBSET {"confirmation", "forward"}]
  /\ rejected \subseteq Subs /\ told \subseteq Subs /\ unheard \subseteq Subs
  /\ payments \in [Cards -> Nat]
  /\ flagged \subseteq Cards /\ unflagged \subseteq Cards
  /\ movedBack \subseteq Cards
  /\ mem \in Memories /\ disk \in Memories
  /\ pc \in {"down", "idle", "intake", "post", "forward", "confirm", "payment"}
  /\ work \subseteq Subs
  /\ due \subseteq Cards \X Mails
  /\ cur \in Subs \cup {NoSub}
  /\ abandoned \subseteq Subs
  /\ crashes \in 0..MaxCrashes /\ edits \in 0..MaxEdits
  /\ faults \in 0..MaxFaults /\ lost \in 0..faults

EmptyState == [processed |-> {}, paid |-> {}]

Init ==
  /\ app \in [Subs -> Applications]
  /\ submitted = {}
  /\ stack = [c \in Cards |-> "absent"]
  /\ email = [c \in Cards |-> "none"]
  /\ letters = [s \in Subs |-> {}]
  /\ rejected = {} /\ told = {} /\ unheard = {}
  /\ payments = [c \in Cards |-> 0]
  /\ flagged = {} /\ unflagged = {} /\ movedBack = {}
  /\ mem = EmptyState /\ disk = EmptyState
  /\ pc = "idle" /\ work = {} /\ due = {} /\ cur = NoSub
  /\ abandoned = {}
  /\ crashes = 0 /\ edits = 0 /\ faults = 0 /\ lost = 0

-----------------------------------------------------------------------------
(***************************************************************************)
(* Helpers.                                                                *)
(***************************************************************************)
Fault(k) ==
  /\ k \in Faults /\ faults < MaxFaults
  /\ faults' = faults + 1 /\ UNCHANGED <<crashes, edits>>
Fails(k) == Fault(k) /\ UNCHANGED lost       \* without effect
HidesEffect(k) == Fault(k) /\ lost' = lost + 1
NoFault == UNCHANGED boundVars

CardsOf(s) == {c \in Cards : c[1] = s /\ stack[c] # "absent"}

\* check_new_submissions goes on to the next submission
NextSubmission == pc' = "intake" /\ cur' = NoSub /\ UNCHANGED <<work, due>>
Processed(s) == mem' = [mem EXCEPT !.processed = @ \cup {s}] /\ UNCHANGED disk

\* Mutant: the card is recorded under the id of its submission
PaidBySubmission(c) ==
  mem' = [mem EXCEPT !.paid = @ \cup {c[1]}] /\ UNCHANGED disk
Paid(c) == mem' = [mem EXCEPT !.paid = @ \cup {c}] /\ UNCHANGED disk

\* The POST takes effect: a card in "New Application", with the next number
CardCreated(s) ==
  \E c \in Cards :
    /\ c[1] = s /\ stack[c] = "absent"
    /\ \A d \in Cards : d[1] = s /\ stack[d] = "absent" => c[2] <= d[2]
    /\ stack' = [stack EXCEPT ![c] = "early"]
    /\ email' = [email EXCEPT ![c] = app[s].mail]

-----------------------------------------------------------------------------
(***************************************************************************)
(* Phase 1: check_new_submissions.                                         *)
(***************************************************************************)
BeginPoll ==
  /\ pc = "idle"
  /\ pc' = "intake" /\ work' = submitted
  /\ UNCHANGED <<app, submitted, boardVars, outVars, stateVars, due, cur,
                 boundVars>>

SkipProcessed ==
  /\ pc = "intake"
  /\ work \cap mem.processed # {}
  /\ work' = work \ mem.processed
  /\ UNCHANGED <<app, submitted, boardVars, outVars, stateVars, pc, due, cur,
                 boundVars>>

\* Mutant: a failed query is taken for "not blacklisted"
SilentScreen ==
  /\ pc = "intake"
  /\ \E s \in work \ mem.processed :
       /\ IF app[s].screen = "exact" THEN Fails("db") ELSE NoFault
       /\ work' = work \ {s} /\ cur' = s
       /\ pc' = IF app[s].route = "deck" THEN "post" ELSE "forward"
       /\ told' = IF app[s].screen = "fuzzy" THEN told \cup {s} ELSE told
  /\ UNCHANGED <<app, submitted, boardVars, letters, rejected, unheard, payments,
                 flagged, unflagged, movedBack, abandoned, stateVars, due>>

\* Mutant: a rejected submission is not recorded
RejectedForgotten ==
  /\ pc = "intake"
  /\ \E s \in work \ mem.processed :
       /\ app[s].screen = "exact"
       /\ work' = work \ {s}
       /\ rejected' = rejected \cup {s}
  /\ UNCHANGED <<app, submitted, boardVars, letters, told, unheard, payments,
                 flagged, unflagged, movedBack, abandoned, stateVars, pc, due,
                 cur, boundVars>>

\* An exact match: rejected, whether or not the rejection email goes out
RejectBlacklisted ==
  /\ pc = "intake"
  /\ \E s \in work \ mem.processed :
       /\ app[s].screen = "exact"
       /\ work' = work \ {s}
       /\ rejected' = rejected \cup {s}
       /\ Processed(s)
  /\ UNCHANGED <<app, submitted, boardVars, letters, told, unheard, payments,
                 flagged, unflagged, movedBack, abandoned, pc, due, cur,
                 boundVars>>

\* notify_s1_nctalk: a refusal is only logged, and its result is not looked at
TellS1(s) ==
  \/ told' = told \cup {s} /\ UNCHANGED unheard
  \/ "notice" \in Faults /\ unheard' = unheard \cup {s} /\ UNCHANGED told

\* No match, a similar name, or a check that did not run
Screen ==
  /\ pc = "intake"
  /\ \E s \in work \ mem.processed :
       /\ work' = work \ {s} /\ cur' = s
       /\ pc' = IF app[s].route = "deck" THEN "post" ELSE "forward"
       /\ \/ app[s].screen = "clean" /\ NoFault /\ UNCHANGED <<told, unheard>>
          \/ app[s].screen = "fuzzy" /\ NoFault /\ TellS1(s)
          \/ Fails("db") /\ TellS1(s)
  /\ UNCHANGED <<app, submitted, boardVars, letters, rejected, payments, flagged,
                 unflagged, movedBack, abandoned, stateVars, due>>

\* create_deck_card; an attachment that fails to upload is only logged
PostCard ==
  /\ pc = "post" /\ app[cur].located
  /\ CardCreated(cur)
  /\ pc' = "confirm"
  /\ UNCHANGED <<app, submitted, outVars, stateVars, work, due, cur, boundVars>>

\* nc_request retries a POST that timed out, four times at most
PostReplyLost ==
  /\ pc = "post" /\ app[cur].located
  /\ HidesEffect("lostReply")
  /\ CardCreated(cur)
  /\ \/ UNCHANGED pollVars
     \/ NextSubmission
  /\ UNCHANGED <<app, submitted, outVars, stateVars>>

\* Mutant: the submission is recorded although no card was created
FailedPostProcessed ==
  /\ pc = "post"
  /\ IF app[cur].located THEN Fails("deck") ELSE NoFault
  /\ NextSubmission
  /\ Processed(cur)
  /\ UNCHANGED <<app, submitted, boardVars, outVars>>

(***************************************************************************)
(* create_deck_card raises, and the submission is not recorded.  It always *)
(* raises when the geocoder finds nothing: the fallback uses "city", a     *)
(* name that create_deck_card does not define.                             *)
(***************************************************************************)
PostFails ==
  /\ pc = "post"
  /\ IF app[cur].located THEN Fails("deck") ELSE NoFault
  /\ NextSubmission
  /\ UNCHANGED <<app, submitted, boardVars, outVars, stateVars>>

\* forward_application_to_unit: its result is not looked at
Forward ==
  /\ pc = "forward"
  /\ \/ /\ letters' = [letters EXCEPT ![cur] = @ \cup {"forward"}]
        /\ NoFault /\ UNCHANGED abandoned
     \/ /\ Fails("forward") /\ UNCHANGED letters
        /\ abandoned' = abandoned \cup {cur}
  /\ pc' = "confirm"
  /\ UNCHANGED <<app, submitted, boardVars, rejected, told, unheard, payments,
                 flagged, unflagged, movedBack, stateVars, work, due, cur>>

\* The confirmation email, whose result is not looked at either
Confirm ==
  /\ pc = "confirm"
  /\ \/ /\ app[cur].mail = "good" /\ NoFault
        /\ letters' = [letters EXCEPT ![cur] = @ \cup {"confirmation"}]
     \/ /\ IF app[cur].mail = "good" THEN Fails("smtp") ELSE NoFault
        /\ UNCHANGED letters
  /\ Processed(cur)
  /\ NextSubmission
  /\ UNCHANGED <<app, submitted, boardVars, rejected, told, unheard, payments,
                 flagged, unflagged, movedBack, abandoned>>

-----------------------------------------------------------------------------
(***************************************************************************)
(* Phase 1.5: check_payment_cards.                                         *)
(***************************************************************************)
BeginPayments ==
  /\ pc = "intake" /\ work = {}
  /\ pc' = "payment"
  /\ due' = {<<c, email[c]>> : c \in {d \in Cards : stack[d] = "documents"}}
  /\ UNCHANGED <<app, submitted, boardVars, outVars, stateVars, work, cur,
                 boundVars>>

\* Mutant: a malformed address is passed over in silence
MalformedSkipped ==
  /\ pc = "payment"
  /\ \E d \in due :
       /\ d[1] \in mem.paid \/ d[2] \in {"none", "malformed"}
       /\ due' = due \ {d}
  /\ UNCHANGED <<app, submitted, boardVars, outVars, stateVars, pc, work, cur,
                 boundVars>>

\* Asked already, or no address to ask
SkipCard ==
  /\ pc = "payment"
  /\ \E d \in due : /\ d[1] \in mem.paid \/ d[2] = "none"
                    /\ due' = due \ {d}
  /\ UNCHANGED <<app, submitted, boardVars, outVars, stateVars, pc, work, cur,
                 boundVars>>

\* S1 is told about card c by a notice, or Talk refuses it
Noticed(c) ==
  /\ \/ flagged' = flagged \cup {c} /\ UNCHANGED unflagged
     \/ "notice" \in Faults /\ unflagged' = unflagged \cup {c} /\ UNCHANGED flagged
  /\ UNCHANGED stack

\* mark_card_bad_email: the PUT of the note names the stack the card was in
Noted(c) ==
  /\ flagged' = flagged \cup {c}
  /\ stack' = [stack EXCEPT ![c] = "documents"]
  /\ UNCHANGED unflagged

(***************************************************************************)
(* A malformed address, or a permanent rejection (any 5xx reply: of the    *)
(* recipient, or of the login): recorded in any case.  S1 gets a notice,   *)
(* and after a rejection the card a note; each may fail, and is only       *)
(* logged.                                                                 *)
(***************************************************************************)
BadAddress ==
  /\ pc = "payment"
  /\ \E d \in due :
       /\ d[1] \notin mem.paid
       /\ due' = due \ {d}
       /\ Paid(d[1])
       /\ \/ d[2] = "malformed" /\ NoFault /\ Noticed(d[1])
          \/ /\ \/ d[2] = "bounces" /\ NoFault
                \/ d[2] = "good" /\ Fails("smtp")
             /\ Noted(d[1]) \/ ("notice" \in Faults /\ Noticed(d[1]))
  /\ UNCHANGED <<app, submitted, email, letters, rejected, told, unheard, payments,
                 movedBack, abandoned, pc, work, cur>>

\* Mutant: the card is not recorded
AsksAgain ==
  /\ pc = "payment"
  /\ \E d \in due :
       /\ d[1] \notin mem.paid /\ d[2] = "good"
       /\ due' = due \ {d}
       /\ payments' = [payments EXCEPT ![d[1]] = @ + 1]
  /\ UNCHANGED <<app, submitted, boardVars, letters, rejected, told, unheard,
                 flagged, unflagged, movedBack, abandoned, stateVars, pc, work,
                 cur, boundVars>>

AskPayment ==
  /\ pc = "payment"
  /\ \E d \in due :
       /\ d[1] \notin mem.paid /\ d[2] = "good"
       /\ due' = due \ {d}
       /\ payments' = [payments EXCEPT ![d[1]] = @ + 1]
       /\ \/ NoFault /\ Paid(d[1])
          \/ HidesEffect("lostAck") /\ UNCHANGED stateVars
  /\ UNCHANGED <<app, submitted, boardVars, letters, rejected, told, unheard,
                 flagged, unflagged, movedBack, abandoned, pc, work, cur>>

AskPaymentFails ==
  /\ pc = "payment"
  /\ Fails("smtp")
  /\ \E d \in due : /\ d[1] \notin mem.paid /\ d[2] \in {"bounces", "good"}
                    /\ due' = due \ {d}
  /\ UNCHANGED <<app, submitted, boardVars, outVars, stateVars, pc, work, cur>>

SaveState ==
  /\ pc = "payment" /\ due = {}
  /\ disk' = mem /\ pc' = "idle"
  /\ UNCHANGED <<app, submitted, boardVars, outVars, mem, work, due, cur,
                 boundVars>>

\* A list could not be fetched, or state.json not written: no save
PollRaises ==
  /\ \/ pc = "intake" /\ work = {} /\ Fails("list")
     \/ pc = "payment" /\ due = {} /\ Fails("save")
  /\ pc' = "idle"
  /\ UNCHANGED <<app, submitted, boardVars, outVars, stateVars, work, due, cur>>

-----------------------------------------------------------------------------
(***************************************************************************)
(* The daemon dies and is restarted; a dry run, which records what it      *)
(* would have done in the same state.json, and which does tell S1 about a  *)
(* malformed address.                                                      *)
(***************************************************************************)
Crash ==
  /\ pc # "down" /\ crashes < MaxCrashes
  /\ crashes' = crashes + 1
  /\ pc' = "down" /\ work' = {} /\ due' = {} /\ cur' = NoSub
  /\ mem' = EmptyState
  /\ UNCHANGED <<app, submitted, boardVars, outVars, disk, edits, faults, lost>>

Restart ==
  /\ pc = "down"
  /\ pc' = "idle" /\ mem' = disk
  /\ UNCHANGED <<app, submitted, boardVars, outVars, disk, work, due, cur,
                 boundVars>>

DryRun ==
  LET asked == {c \in Cards \ disk.paid :
                  stack[c] = "documents" /\ email[c] # "none"}
      malformed == {c \in asked : email[c] = "malformed"}
  IN
  /\ pc = "down"
  /\ Fails("dryRun")
  /\ disk' = [processed |-> disk.processed \cup submitted,
              paid |-> disk.paid \cup asked]
  /\ \E refused \in SUBSET malformed :
       /\ refused = {} \/ "notice" \in Faults
       /\ flagged' = flagged \cup (malformed \ refused)
       /\ unflagged' = unflagged \cup refused
  /\ abandoned' = abandoned \cup (submitted \ disk.processed)
                            \cup {c[1] : c \in asked}
  /\ UNCHANGED <<app, submitted, boardVars, letters, rejected, told, unheard,
                 payments, movedBack, mem, pollVars>>

-----------------------------------------------------------------------------
(***************************************************************************)
(* Applicants and S1 staff.                                                *)
(***************************************************************************)
Submit(s) ==
  /\ s \notin submitted
  /\ submitted' = submitted \cup {s}
  /\ UNCHANGED <<app, boardVars, outVars, stateVars, pollVars, boundVars>>

\* Background check and interview done: the card is dragged on
MoveToDocuments(c) ==
  /\ stack[c] = "early"
  /\ stack' = [stack EXCEPT ![c] = "documents"]
  /\ movedBack' = IF c \in flagged /\ email[c] = "good"
                    THEN movedBack \cup {c} ELSE movedBack
  /\ UNCHANGED <<app, submitted, email, letters, rejected, told, unheard,
                 payments, flagged, unflagged, abandoned, stateVars, pollVars,
                 boundVars>>

MoveOut(c) ==
  /\ stack[c] = "documents" /\ edits < MaxEdits
  /\ stack' = [stack EXCEPT ![c] = "early"]
  /\ edits' = edits + 1
  /\ UNCHANGED <<app, submitted, email, outVars, stateVars, pollVars, crashes,
                 faults, lost>>

CorrectEmail(c) ==
  /\ stack[c] # "absent" /\ email[c] # "good" /\ edits < MaxEdits
  /\ email' = [email EXCEPT ![c] = "good"]
  /\ edits' = edits + 1
  /\ UNCHANGED <<app, submitted, stack, outVars, stateVars, pollVars, crashes,
                 faults, lost>>

-----------------------------------------------------------------------------
Daemon ==
  \/ BeginPoll \/ SkipProcessed \/ RejectBlacklisted \/ Screen
  \/ PostCard \/ PostReplyLost \/ PostFails \/ Forward \/ Confirm
  \/ BeginPayments \/ SkipCard \/ BadAddress \/ AskPayment \/ AskPaymentFails
  \/ SaveState \/ PollRaises
  \/ Restart

Next ==
  \/ Daemon
  \/ Crash \/ DryRun
  \/ \E s \in Subs : Submit(s)
  \/ \E c \in Cards : MoveToDocuments(c) \/ MoveOut(c) \/ CorrectEmail(c)

Spec == Init /\ [][Next]_vars

\* systemd keeps the daemon running, and none of its calls hangs for ever
FairSpec == Spec /\ WF_vars(Daemon)

-----------------------------------------------------------------------------
(***************************************************************************)
(* "So the next poll retries it instead of losing the applicant"           *)
(* (tests/test_dry_run.py): a submission recorded as processed, in memory  *)
(* or on disk, was rejected, forwarded, or has a card.  There are only two *)
(* ways to lose it: a dry run, and a forward whose failure is not noticed. *)
(***************************************************************************)
NoLostApplication ==
  \A s \in mem.processed \cup disk.processed :
    s \in rejected \cup abandoned \/ "forward" \in letters[s] \/ CardsOf(s) # {}

(***************************************************************************)
(* "FAIL-OPEN, LOUDLY" (check_blacklist): a blacklisted applicant gets     *)
(* past the screen only if S1 was told that it did not run, or if Talk has *)
(* refused to tell S1.                                                     *)
(***************************************************************************)
BlacklistedNeverSilently ==
  \A s \in Subs :
    app[s].screen # "clean" /\ (CardsOf(s) # {} \/ letters[s] # {}) =>
      s \in told \/ s \in unheard

(***************************************************************************)
(* "But make sure a human knows it wasn't checked" (check_new_submissions),*)
(* what BlacklistedNeverSilently would say without unheard: the notice is  *)
(* sent once and its failure only logged, and no run keeps it.             *)
(***************************************************************************)
BlacklistedAlwaysTold ==
  \A s \in Subs :
    app[s].screen # "clean" /\ (CardsOf(s) # {} \/ letters[s] # {}) => s \in told

(***************************************************************************)
(* Every card too many, and every payment email too many, is due to a      *)
(* crash or to a lost reply: failures that are noticed, abandoned polls    *)
(* and unsaved states never repeat what was done.                          *)
(***************************************************************************)
RepeatedOnlyWhenLost ==
  /\ \A s \in Subs : Cardinality(CardsOf(s)) <= 1 + crashes + lost
  /\ \A c \in Cards : payments[c] <= 1 + crashes + lost

(***************************************************************************)
(* Applications are kept: none is lost, and none is handled twice for      *)
(* another reason than a crash or a lost reply.                            *)
(***************************************************************************)
ApplicationsAreKept == TypeOK /\ NoLostApplication /\ RepeatedOnlyWhenLost

(***************************************************************************)
(* Liveness: whatever fails for a while, every submission is dealt with,   *)
(* but for those whose address the geocoder does not find.                 *)
(***************************************************************************)
SubmissionsHandled ==
  \A s \in Subs :
    s \in submitted /\ app[s].located ~> s \in disk.processed

(***************************************************************************)
(* Liveness: an applicant whose card stays in "Documents & Payment" with   *)
(* an address is asked to pay, or S1 is told that the address is bad; the  *)
(* exceptions are a dry run, and a notice, and note, that were refused.    *)
(***************************************************************************)
PaymentAsked ==
  \A c \in Cards :
    stack[c] = "documents" /\ email[c] # "none" ~>
      \/ stack[c] # "documents" \/ payments[c] > 0
      \/ c \in flagged \/ c \in unflagged \/ c[1] \in abandoned

(***************************************************************************)
(* "Mark the card handled [...] and flag S1 to fix the card data"          *)
(* (check_payment_cards), what PaymentAsked would say without unflagged:   *)
(* the card is marked whether or not S1 was reached, and no run keeps it.  *)
(***************************************************************************)
PaymentAskedOrTold ==
  \A c \in Cards :
    stack[c] = "documents" /\ email[c] # "none" ~>
      \/ stack[c] # "documents" \/ payments[c] > 0
      \/ c \in flagged \/ c[1] \in abandoned

(***************************************************************************)
(* The warning "Geocoding failed for all address variants, defaulting to"  *)
(* (create_deck_card) promises a card for every address: every submission  *)
(* is dealt with.                                                          *)
(***************************************************************************)
EverySubmissionHandled ==
  \A s \in Subs : s \in submitted ~> s \in disk.processed

(***************************************************************************)
(* "Correct the applicant's Proton email, then move the card out and back  *)
(* into *Documents & Payment* to re-trigger" (mark_card_bad_email): a card *)
(* so treated gets its payment email.                                      *)
(***************************************************************************)
MovingBackRetriggers == \A c \in Cards : c \in movedBack ~> payments[c] > 0
=============================================================================
