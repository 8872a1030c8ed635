--------------------------- MODULE PipelineBoard ---------------------------
(***************************************************************************)
(* One applicant's card on the recruiting board of Nextcloud Deck, and the *)
(* programs that rewrite it: the pipeline handlers of the portal           *)
(* (app/routes/s1_admin.py), the PayPal webhook (paypal_webhook.py) and    *)
(* the recruit daemon.  Each of them reads the card, computes a whole new  *)
(* card and PUTs it under a path that also names a stack, which moves the  *)
(* card there.  Only the webhook makes its PUT conditional (If-Match).     *)
(***************************************************************************)
EXTENDS Naturals, Sequences

CONSTANTS
  Requests,   \* slots for operations in progress
  Starts,     \* the stages in which the card may be when the history begins
  Ops,        \* the operations that are used, see OpKinds
  MaxOps      \* bound on the operations begun

Stages == 11..16   \* New Application .. Complete; 14 Documents, 15 Approved
OnHold == 81       \* ON_HOLD_STACK
Stacks == Stages \cup {OnHold}
PaymentStacks == {14, 13, 12, 11}   \* DECK_PAYMENT_STACKS

\* correct: set_protonmail; update: update_applicant_info; pay:
\* set_card_payment; annotate: the webhook; bounce: mark_card_bad_email;
\* complete: move_card_to_stack after onboarding.
OpKinds == {"advance", "hold", "resume", "decline", "correct", "update", "pay",
            "annotate", "bounce", "complete"}
DaemonOps == {"bounce", "complete"}   \* their PUT is retried by nc_request

ASSUME StartsAssumption == Starts \subseteq Stages
ASSUME OpsAssumption == Ops \subseteq OpKinds
ASSUME MaxOpsAssumption == MaxOps \in Nat

VARIABLES
  card,      \* the card as Deck stores it
  holds,     \* the return stacks recorded in hold comments, the newest first
  member,    \* the status of the applicant's member row, or "none"
  total,     \* total_recruited of the recruiter, counted from the start
  load,      \* current_load of the recruiter: this applicant and another
  req,       \* slot -> the operation it carries out
  fresh,     \* the slots whose copy of the card has the card's current ETag
  visited,   \* history: the stages the card has been in
  heldFrom,  \* history: the stack the card was in when it was last put on hold
  begun

deckVars == <<card, holds, fresh, visited, heldFrom>>
dbVars == <<member, total, load>>
vars == <<deckVars, dbVars, req, begun>>

\* What the operations can tell apart of a card: the Proton address, the
\* "Payment" line, the webhook's note, the bounce warning, archived or not.
CardRecords == [stack : Stacks, mail : {"applied", "corrected"},
                payment : {"none", "manual"}, auto : BOOLEAN,
                bounce : BOOLEAN, open : BOOLEAN]

Pcs == {"idle", "fetch", "comments", "put", "comment", "readRecruiter",
        "writeRecruiter"}
Requested == [pc : Pcs, op : OpKinds, seen : CardRecords, to : Stacks,
              row : [total : Nat, load : Nat]]

TypeOK ==
  /\ card \in CardRecords
  /\ holds \in Seq(Stacks)
  /\ member \in {"none", "recruit", "active"}
  /\ total \in Nat /\ load \in Nat
  /\ req \in [Requests -> Requested]
  /\ fresh \subseteq Requests
  /\ visited \subseteq Stages
  /\ heldFrom \in Stacks
  /\ begun \in 0..MaxOps

NewCard(s) == [stack |-> s, mail |-> "applied", payment |-> "none",
               auto |-> FALSE, bounce |-> FALSE, open |-> TRUE]
Idle == [pc |-> "idle", op |-> "advance", seen |-> NewCard(11), to |-> 11,
         row |-> [total |-> 0, load |-> 0]]

Init ==
  /\ \E s \in Starts : card = NewCard(s) /\ visited = 11..s
  /\ holds = <<>>
  /\ member \in {"none", "recruit"} /\ total = 0 /\ load = 2
  /\ req = [r \in Requests |-> Idle]
  /\ fresh = {}
  /\ heldFrom = 11
  /\ begun = 0

-----------------------------------------------------------------------------
(***************************************************************************)
(* Reading.  The portal's handlers and the webhook look the card up in the *)
(* list of stacks, which has no archived card; the daemon polls one stack. *)
(***************************************************************************)
\* No "Already at final stage"
NoFinalStage(op, s) == CASE op = "resume" -> s = OnHold
                         [] op = "annotate" -> s \in PaymentStacks
                         [] op = "bounce"   -> s = 14
                         [] op = "complete" -> s = 15
                         [] OTHER -> s # OnHold
\* The early returns: nothing follows the last stage, only a card that is
\* not on hold is held, and only one on hold is resumed.
Applies(op, s) ==
  CASE op = "advance"  -> s \in Stages \ {16}
    [] op = "hold"     -> s # OnHold
    [] op = "resume"   -> s = OnHold
    [] op = "annotate" -> s \in PaymentStacks
    [] op = "bounce"   -> s = 14
    [] op = "complete" -> s = 15
    [] OTHER           -> TRUE

\* The stack that the PUT will name
Target(op, s) ==
  CASE op = "advance"  -> s + 1
    [] op = "hold"     -> OnHold
    [] op = "complete" -> 16
    [] OTHER           -> s

Look(r, op) ==
  /\ req[r].pc = "idle"
  /\ op \in Ops
  /\ begun < MaxOps
  /\ card.open
  /\ Applies(op, card.stack)
  /\ begun' = begun + 1
  /\ req' = [req EXCEPT ![r] =
       [pc |-> CASE op = "resume" -> "comments"
                 [] op \in DaemonOps \cup {"annotate"} -> "fetch"
                 [] OTHER -> "put",
        op |-> op, seen |-> card, to |-> Target(op, card.stack),
        row |-> Idle.row]]
  /\ UNCHANGED <<deckVars, dbVars>>

\* The webhook and the daemon then fetch the card itself, with its ETag; the
\* stack they PUT to is still the one they found it in.
Fetch(r) ==
  /\ req[r].pc = "fetch"
  /\ req' = [req EXCEPT ![r].pc = "put", ![r].seen = card]
  /\ fresh' = fresh \cup {r}
  /\ UNCHANGED <<card, holds, visited, heldFrom, dbVars, begun>>

\* A default that looks harmless: the interview
DefaultInterview == IF holds = <<>> THEN 13 ELSE Head(holds)
\* resume_applicant: the newest comment that names a return stack, else New
\* Application
ReturnStack == IF holds = <<>> THEN 11 ELSE Head(holds)

ReadComments(r) ==
  /\ req[r].pc = "comments"
  /\ req' = [req EXCEPT ![r].pc = "put", ![r].to = ReturnStack]
  /\ UNCHANGED <<deckVars, dbVars, begun>>

\* The comment list is refused (the status is not 200).
CommentsRefused(r) ==
  /\ req[r].pc = "comments"
  /\ req' = [req EXCEPT ![r].pc = "put", ![r].to = 11]
  /\ UNCHANGED <<deckVars, dbVars, begun>>

-----------------------------------------------------------------------------
(***************************************************************************)
(* Writing.  A PUT replaces the title and the description by those of the  *)
(* copy and moves the card; only decline_applicant sends "archived".       *)
(***************************************************************************)
Edited(op, c) ==
  CASE op = "correct"  -> [c EXCEPT !.mail = "corrected"]
    [] op = "update"   -> [c EXCEPT !.mail = "corrected", !.bounce = FALSE]
    [] op = "pay"      -> [c EXCEPT !.payment = "manual"]
    [] op = "annotate" -> [c EXCEPT !.auto = TRUE]
    [] op = "bounce"   -> [c EXCEPT !.bounce = TRUE]
    [] OTHER           -> c

Stored(r) ==
  [Edited(req[r].op, req[r].seen) EXCEPT
     !.stack = req[r].to, !.open = card.open /\ req[r].op # "decline"]

\* A webhook that does not send the ETag
Unconditional(r) == TRUE
\* The webhook's If-Match
Accepted(r) == req[r].op = "annotate" => r \in fresh

Store(r) ==
  /\ card' = Stored(r)
  /\ fresh' = {}
  /\ visited' = visited \cup ({req[r].to} \cap Stages)
  /\ heldFrom' = IF req[r].op = "hold" THEN card.stack ELSE heldFrom
  /\ UNCHANGED holds

AfterPut(op) ==
  CASE op \in {"advance", "hold"} -> "comment"
    [] op = "decline"            -> "readRecruiter"
    [] OTHER                     -> "idle"

Put(r) ==
  /\ req[r].pc = "put"
  /\ Accepted(r)
  /\ Store(r)
  /\ req' = [req EXCEPT ![r].pc = AfterPut(req[r].op)]
  /\ UNCHANGED <<dbVars, begun>>

\* Deck stores the card but the answer is lost: the portal reports an error
\* and leaves it there, nc_request sends the daemon's PUT again.
PutAnswerLost(r) ==
  /\ req[r].pc = "put"
  /\ Accepted(r)
  /\ Store(r)
  /\ req' = [req EXCEPT ![r].pc =
               IF req[r].op \in DaemonOps THEN "put" ELSE "idle"]
  /\ UNCHANGED <<dbVars, begun>>

\* Deck refuses the PUT.  decline_applicant alone does not look at its status.
DeclineRefused(r) ==
  /\ req[r].pc = "put" /\ req[r].op = "decline"
  /\ req' = [req EXCEPT ![r].pc = "readRecruiter"]
  /\ UNCHANGED <<deckVars, dbVars, begun>>

\* A read or a write raises: Deck is down or refuses the request, the ETag is
\* outdated, a call times out, the process is stopped.  The handler reports an
\* error or logs it, and what it had still to do is not done.
Abandon(r) ==
  /\ req[r].pc # "idle"
  /\ req' = [req EXCEPT ![r].pc = "idle"]
  /\ UNCHANGED <<deckVars, dbVars, begun>>

-----------------------------------------------------------------------------
(***************************************************************************)
(* After the PUT.  hold_applicant stores the stack it has read in a        *)
(* comment; advance_pipeline_stage comments too, and credits the recruiter *)
(* when it has moved the card into Complete; decline_applicant releases    *)
(* the recruiter's load.                                                   *)
(***************************************************************************)
AfterComment(r) ==
  IF req[r].op = "advance" /\ req[r].to = 16 THEN "readRecruiter" ELSE "idle"

PostComment(r) ==
  /\ req[r].pc = "comment"
  /\ holds' = IF req[r].op = "hold" THEN <<req[r].seen.stack>> \o holds
                                    ELSE holds
  /\ req' = [req EXCEPT ![r].pc = AfterComment(r)]
  /\ UNCHANGED <<card, fresh, visited, heldFrom, dbVars, begun>>

\* Refused: the status of the POST is not looked at.
CommentRefused(r) ==
  /\ req[r].pc = "comment"
  /\ req' = [req EXCEPT ![r].pc = AfterComment(r)]
  /\ UNCHANGED <<deckVars, dbVars, begun>>

\* The guard of the credit: the member is still a recruit.  The load is
\* released for any member.
Credited(op) ==
  IF op = "advance" THEN member = "recruit" ELSE member # "none"

\* _credit_recruiter_on_completion and _release_recruiter_load read the member
\* and the recruiter ...
ReadRecruiter(r) ==
  /\ req[r].pc = "readRecruiter"
  /\ req' = [req EXCEPT
       ![r].pc = IF Credited(req[r].op) THEN "writeRecruiter" ELSE "idle",
       ![r].row = [total |-> total, load |-> load]]
  /\ UNCHANGED <<deckVars, dbVars, begun>>

\* ... and write one more recruited and one fewer in the pipeline, floor 0.
WriteRecruiter(r) ==
  /\ req[r].pc = "writeRecruiter"
  /\ total' = IF req[r].op = "advance" THEN req[r].row.total + 1 ELSE total
  /\ load' = IF req[r].row.load = 0 THEN load ELSE req[r].row.load - 1
  /\ req' = [req EXCEPT ![r].pc = "idle"]
  /\ UNCHANGED <<deckVars, member, begun>>

\* The recruit is patched: the member row becomes 'active'.
Patch ==
  /\ member = "recruit"
  /\ member' = "active"
  /\ UNCHANGED <<deckVars, total, load, req, begun>>

Next ==
  \/ \E r \in Requests :
       \/ \E op \in OpKinds : Look(r, op)
       \/ Fetch(r) \/ ReadComments(r) \/ CommentsRefused(r)
       \/ Put(r) \/ PutAnswerLost(r) \/ DeclineRefused(r) \/ Abandon(r)
       \/ PostComment(r) \/ CommentRefused(r)
       \/ ReadRecruiter(r) \/ WriteRecruiter(r)
  \/ Patch

Spec == Init /\ [][Next]_vars

-----------------------------------------------------------------------------
(***************************************************************************)
(* Properties.                                                             *)
(***************************************************************************)
\* However holds, resumes, lost comments and stale copies interleave, the
\* card reaches no stage before the stages that precede it in STAGE_FLOW, and
\* no hold comment names a stage that the card has not been in: nobody is
\* onboarded who never was in Documents & Payment.
NoStageSkipped ==
  /\ \A s \in visited : 11..s \subseteq visited
  /\ \A i \in 1..Len(holds) : holds[i] \in visited
  /\ card.stack \in visited \cup {OnHold}

\* The note of the PayPal webhook never undoes what somebody else has written
\* on the card while the webhook was working.
AnnotationKept ==
  \A r \in Requests :
    (Put(r) \/ PutAnswerLost(r)) /\ req[r].op = "annotate"
      => card' = [card EXCEPT !.auto = TRUE, !.stack = card'.stack]

\* Writing a note on a card leaves the card in its stack, as the docstring of
\* mark_card_bad_email says.
NotesDoNotMove ==
  [][\A r \in Requests :
       (Put(r) \/ PutAnswerLost(r)) /\ req[r].op \in {"annotate", "bounce"}
         => card'.stack = card.stack]_vars

\* A completed onboarding is credited to the recruiter once, which the guard
\* in _credit_recruiter_on_completion is there for.
CreditedOnce == total <= 1

\* A recruiter is relieved of an applicant who was declined, and declining
\* archives the card, as the docstring of decline_applicant says.
DeclinedLeaves ==
  [][\A r \in Requests :
       WriteRecruiter(r) /\ req[r].op = "decline" => ~card.open]_vars

\* A resumed card returns to the stack it was taken from when it was put on
\* hold, as the docstring of resume_applicant says.
ResumesWhereHeld ==
  [][\A r \in Requests :
       (Put(r) \/ PutAnswerLost(r)) /\ req[r].op = "resume"
         => card'.stack = heldFrom]_vars
=============================================================================
