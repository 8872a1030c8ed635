--------------------------- MODULE PaypalWebhook ---------------------------
(***************************************************************************)
(* The PayPal webhook of the portal (app/routes/paypal_webhook.py): every  *)
(* captured payment is delivered at least once, possibly again while an    *)
(* earlier delivery is still being handled; the handler records it in      *)
(* webhook_events, finds out what it pays for, and settles that.  The      *)
(* handlers of several deliveries interleave at their awaits.  Amounts are *)
(* in cents.  Deliveries whose signature does not verify change nothing.   *)
(***************************************************************************)
EXTENDS Naturals, FiniteSets

CONSTANTS
  Txns,        \* captured payments (PayPal capture ids)
  Handlers,    \* slots for deliveries being handled
  Members, Recruits,   \* the roster; the members who owe the application fee
  Cards,       \* cards in DECK_PAYMENT_STACKS
  Namesakes,   \* card -> the members with the first and last name on the card
  Meals,       \* meal RSVPs for coming FTXs, numbered in order of their dates
  Eater,       \* meal -> the member whose RSVP it is
  Price,       \* meal -> effective_price of its event
  Payments,    \* what a payment may be, see PaymentRecord
  Faults,      \* the kinds of failure that occur, see FaultKinds
  MaxFaults,   \* bound on the failures of a history
  MaxCrashes,  \* bound on the crashes of the portal
  None

\* PayPal does not answer the order query ("payer"), Deck does not answer the
\* search ("board") or the update ("annotate"), a notification cannot be
\* stored ("notify"), the outcome cannot be written ("audit"), any other
\* statement raises ("db").
FaultKinds == {"payer", "board", "annotate", "notify", "audit", "db"}

AppFeeMin == 5000   \* APP_FEE_MIN and APP_FEE_MAX
AppFeeMax == 5300
MealFeeSlack == 150
StandardPrice == 1500

\* inline: the capture names the payer; otherwise the order must be fetched.
\* cards and namedCards: the cards with an address, or only the name, of the
\* payer; people and namedPeople: the same for members.
PaymentRecord ==
  [amount : Nat, usd : BOOLEAN, inline : BOOLEAN,
   cards : SUBSET Cards, namedCards : SUBSET Cards,
   people : SUBSET Members, namedPeople : SUBSET Members]

ASSUME TxnsAssumption == Txns # {}
ASSUME PaymentsAssumption == Payments \subseteq PaymentRecord
ASSUME RosterAssumption ==
  /\ Recruits \subseteq Members
  /\ Namesakes \in [Cards -> SUBSET Members]
ASSUME MealsAssumption ==
  /\ Meals \subseteq Nat
  /\ Eater \in [Meals -> Members] /\ Price \in [Meals -> Nat]
ASSUME NoneAssumption == None \notin Members \cup Cards \cup Meals \cup Txns
ASSUME FaultsAssumption == Faults \subseteq FaultKinds
ASSUME BoundsAssumption == MaxFaults \in Nat /\ MaxCrashes \in Nat

VARIABLES
  payment,    \* txn -> what is known of it; it does not change
  outcome,    \* txn -> the outcome in its webhook_events row, "absent" if none
  fee,        \* member -> app_fee_status, and "paid" by which transactions
  meal,       \* meal -> the transactions that have marked it paid
  notes,      \* txn -> payment notes appended to cards for it
  told,       \* txn -> notifications about it stored for S1 or S4
  req,        \* slot -> the delivery it handles
  dropped,    \* payments of which a handler was cut short (history)
  faults, crashes

effectVars == <<fee, meal, notes, told>>
vars == <<payment, outcome, effectVars, req, dropped, faults, crashes>>

Outcomes == {"absent", "processing", "ignored_currency", "needs_review",
             "matched_deck", "matched_member", "unmatched"}
Unsettled == {"absent", "processing"}
Pcs == {"idle", "insert", "payer", "board", "annotate", "cardMember",
        "payCardMember", "members", "payFee", "payMeal", "notify", "outcome",
        "outcomeFirst", "notifyLast"}
Deliveries == [pc : Pcs, txn : Txns, known : BOOLEAN, card : Cards \cup {None},
               member : Members \cup {None}, meal : Meals \cup {None},
               result : Outcomes]

TypeOK ==
  /\ payment \in [Txns -> Payments]
  /\ outcome \in [Txns -> Outcomes]
  /\ fee \in [Members -> [status : {"pending", "paid", "waived"},
                          by : SUBSET Txns]]
  /\ meal \in [Meals -> SUBSET Txns]
  /\ notes \in [Txns -> Nat] /\ told \in [Txns -> Nat]
  /\ req \in [Handlers -> Deliveries]
  /\ dropped \subseteq Txns
  /\ faults \in 0..MaxFaults /\ crashes \in 0..MaxCrashes

Idle == [pc |-> "idle", txn |-> CHOOSE t \in Txns : TRUE, known |-> FALSE,
         card |-> None, member |-> None, meal |-> None, result |-> "absent"]

Init ==
  /\ payment \in [Txns -> Payments]
  /\ outcome = [t \in Txns |-> "absent"]
  /\ \E waived \in SUBSET Recruits :
       fee = [m \in Members |->
                [status |-> IF m \in waived THEN "waived" ELSE "pending",
                 by |-> {}]]
  /\ meal = [e \in Meals |-> {}]
  /\ notes = [t \in Txns |-> 0] /\ told = [t \in Txns |-> 0]
  /\ req = [h \in Handlers |-> Idle]
  /\ dropped = {} /\ faults = 0 /\ crashes = 0

-----------------------------------------------------------------------------
(***************************************************************************)
(* What a payment is.                                                      *)
(***************************************************************************)
\* The floor before it was raised to the full fee
OldFloor(t) == payment[t].amount \in (AppFeeMin - 50)..AppFeeMax
IsAppFee(t) == payment[t].amount \in AppFeeMin..AppFeeMax

\* amount_covers without the upper end
AmountCovers(t, price) ==
  payment[t].amount \in price..(price + MealFeeSlack)

\* unpaid_upcoming_meal_stmt and pick_meal_payment: the unpaid RSVPs of the
\* member that the payment covers, of which the soonest is taken
Payable(t, m) == {e \in Meals : /\ Eater[e] = m /\ meal[e] = {}
                                /\ AmountCovers(t, Price[e])}
Soonest(S) == CHOOSE e \in S : \A d \in S : e <= d

LooksLikeMeal(t, m) ==
  \E p \in {StandardPrice} \cup {Price[e] : e \in {d \in Meals : Eater[d] = m}} :
    AmountCovers(t, p)

\* Where a known payer is found: addresses before names
Found(t, known) ==
  IF ~known THEN {}
  ELSE IF payment[t].people # {} THEN payment[t].people
  ELSE payment[t].namedPeople

-----------------------------------------------------------------------------
(***************************************************************************)
(* The steps of a handler.                                                 *)
(***************************************************************************)
At(h, p) == req[h].pc = p
Goto(h, p) == req' = [req EXCEPT ![h].pc = p]
Finish(h, p, res) == req' = [req EXCEPT ![h].pc = p, ![h].result = res]

Fault(k) == k \in Faults /\ faults < MaxFaults /\ faults' = faults + 1
NoFault == UNCHANGED faults

\* The handlers hs end without an answer; past the insert that is for good.
CutShort(hs) ==
  dropped' = dropped \cup
               {req[h].txn : h \in {g \in hs : req[g].pc \notin {"idle", "insert"}}}

\* PayPal delivers a payment, for the first time or again.
Deliver(h, t) ==
  /\ At(h, "idle")
  /\ req' = [req EXCEPT ![h] = [Idle EXCEPT !.pc = "insert", !.txn = t]]
  /\ UNCHANGED <<payment, outcome, effectVars, faults, dropped, crashes>>

\* A row that is not unique
NoUniqueRow(h) ==
  /\ At(h, "insert")
  /\ Goto(h, "payer")
  /\ outcome' = [outcome EXCEPT ![req[h].txn] = "processing"]
  /\ UNCHANGED <<payment, effectVars, faults, dropped, crashes>>

\* Insert the row; UNIQUE (provider, transaction_id) answers "duplicate".
InsertRow(h) ==
  /\ At(h, "insert")
  /\ LET t == req[h].txn IN
       IF outcome[t] = "absent"
       THEN /\ outcome' = [outcome EXCEPT ![t] = "processing"]
            /\ Goto(h, "payer")
       ELSE Goto(h, "idle") /\ UNCHANGED outcome
  /\ UNCHANGED <<payment, effectVars, faults, dropped, crashes>>

\* Who paid: from the capture, or from the order, which may not be available.
FindPayer(h) ==
  /\ At(h, "payer")
  /\ \E known \in BOOLEAN :
       LET t == req[h].txn IN
       /\ IF known \/ payment[t].inline THEN known /\ NoFault ELSE Fault("payer")
       /\ req' = [req EXCEPT
            ![h].known = known,
            ![h].result = IF payment[t].usd THEN "absent"
                                            ELSE "ignored_currency",
            ![h].pc = IF ~payment[t].usd THEN "outcome"
                      ELSE IF IsAppFee(t) THEN "board" ELSE "members"]
  /\ UNCHANGED <<payment, outcome, effectVars, dropped, crashes>>

\* A name match that is annotated all the same
ReviewFallsThrough(h) ==
  /\ At(h, "board")
  /\ LET p == payment[req[h].txn]
         hits == IF req[h].known THEN p.cards \cup p.namedCards ELSE {}
     IN \/ hits = {} /\ Goto(h, "members")
        \/ \E c \in hits :
             req' = [req EXCEPT
               ![h].card = c, ![h].pc = "annotate",
               ![h].result = IF c \in p.cards THEN "matched_deck"
                                              ELSE "needs_review"]
  /\ UNCHANGED <<payment, outcome, effectVars, faults, dropped, crashes>>

\* _find_deck_card returns the first card, in the order of the board, that
\* matches by address or by name; one matched by name only is not trusted.
SearchBoard(h) ==
  /\ At(h, "board")
  /\ LET p == payment[req[h].txn]
         hits == IF req[h].known THEN p.cards \cup p.namedCards ELSE {}
     IN \/ /\ hits = {}
           /\ Goto(h, "members")
        \/ \E c \in hits :
             req' = [req EXCEPT
               ![h].card = c,
               ![h].result = IF c \in p.cards THEN "matched_deck"
                                              ELSE "needs_review",
               ![h].pc = IF c \in p.cards THEN "annotate" ELSE "notify"]
  /\ UNCHANGED <<payment, outcome, effectVars, faults, dropped, crashes>>

\* Deck does not answer: as if no card matched.
BoardFails(h) ==
  /\ At(h, "board")
  /\ Fault("board")
  /\ Goto(h, "members")
  /\ UNCHANGED <<payment, outcome, effectVars, dropped, crashes>>

\* _annotate_deck_card; its result is not looked at.
Annotate(h) ==
  /\ At(h, "annotate")
  /\ Goto(h, "cardMember")
  /\ \/ /\ notes' = [notes EXCEPT ![req[h].txn] = @ + 1]
        /\ NoFault
     \/ UNCHANGED notes /\ Fault("annotate")
  /\ UNCHANGED <<payment, outcome, fee, meal, told, dropped, crashes>>

\* "If a member record happens to exist already, update it too"; two members
\* of the same name raise MultipleResultsFound.
ReadCardMember(h) ==
  /\ At(h, "cardMember")
  /\ LET named == Namesakes[req[h].card] IN
       \/ named = {} /\ Goto(h, "notify") /\ UNCHANGED dropped
       \/ Cardinality(named) > 1 /\ Goto(h, "idle") /\ CutShort({h})
       \/ \E m \in named :
            /\ named = {m}
            /\ UNCHANGED dropped
            /\ IF fee[m].status = "paid"
               THEN Goto(h, "notify")
               ELSE req' = [req EXCEPT ![h].pc = "payCardMember",
                                       ![h].member = m]
  /\ UNCHANGED <<payment, outcome, effectVars, faults, crashes>>

\* Strategy 2: the members table
MatchMember(h) ==
  /\ At(h, "members")
  /\ LET t == req[h].txn IN
     \/ /\ Found(t, req[h].known) = {}
        /\ Finish(h, "notify", "unmatched")
     \/ \E m \in Found(t, req[h].known) :
          LET meals == Payable(t, m)
              kind == IF IsAppFee(t)
                      THEN IF m \in Recruits /\ fee[m].status = "pending"
                           THEN "payFee" ELSE "notify"
                      ELSE IF meals # {} THEN "payMeal"
                      ELSE IF LooksLikeMeal(t, m) THEN "outcomeFirst"
                      ELSE "notify"
          IN req' = [req EXCEPT
               ![h].pc = kind, ![h].member = m,
               ![h].meal = IF kind = "payMeal" THEN Soonest(meals) ELSE None,
               ![h].result = IF kind = "outcomeFirst" THEN "needs_review"
                                                      ELSE "matched_member"]
  /\ UNCHANGED <<payment, outcome, effectVars, faults, dropped, crashes>>

\* PayPal's word for a payment that is complete
PayPalStatus(h) ==
  /\ At(h, "payCardMember") \/ At(h, "payFee")
  /\ fee' = [fee EXCEPT ![req[h].member] =
               [status |-> "completed", by |-> @.by \cup {req[h].txn}]]
  /\ Goto(h, "notify")
  /\ UNCHANGED <<payment, outcome, meal, notes, told, faults, dropped, crashes>>

\* The commits of what was read before
PayFee(h) ==
  /\ At(h, "payCardMember") \/ At(h, "payFee")
  /\ fee' = [fee EXCEPT ![req[h].member] =
               [status |-> "paid", by |-> @.by \cup {req[h].txn}]]
  /\ Goto(h, "notify")
  /\ UNCHANGED <<payment, outcome, meal, notes, told, faults, dropped, crashes>>

PayMeal(h) ==
  /\ At(h, "payMeal")
  /\ meal' = [meal EXCEPT ![req[h].meal] = @ \cup {req[h].txn}]
  /\ Goto(h, "notify")
  /\ UNCHANGED <<payment, outcome, fee, notes, told, faults, dropped, crashes>>

\* A notification whose failure ends the handler
NotifyFailureEnds(h) ==
  /\ At(h, "notify") \/ At(h, "notifyLast")
  /\ \/ /\ told' = [told EXCEPT ![req[h].txn] = @ + 1] /\ NoFault
        /\ Goto(h, IF At(h, "notify") THEN "outcome" ELSE "idle")
     \/ UNCHANGED told /\ Fault("notify") /\ Goto(h, "idle")
  /\ UNCHANGED <<payment, outcome, fee, meal, notes, dropped, crashes>>

\* A notification that cannot be stored is passed over in silence.
Notify(h) ==
  /\ At(h, "notify") \/ At(h, "notifyLast")
  /\ \/ told' = [told EXCEPT ![req[h].txn] = @ + 1] /\ NoFault
     \/ UNCHANGED told /\ Fault("notify")
  /\ Goto(h, IF At(h, "notify") THEN "outcome" ELSE "idle")
  /\ UNCHANGED <<payment, outcome, fee, meal, notes, dropped, crashes>>

\* _set_outcome: best effort.  The review of a meal payment sets it before
\* the notification, everything else after it.
SetOutcome(h) ==
  /\ At(h, "outcome") \/ At(h, "outcomeFirst")
  /\ \/ outcome' = [outcome EXCEPT ![req[h].txn] = req[h].result] /\ NoFault
     \/ UNCHANGED outcome /\ Fault("audit")
  /\ Goto(h, IF At(h, "outcome") THEN "idle" ELSE "notifyLast")
  /\ UNCHANGED <<payment, effectVars, dropped, crashes>>

\* A query or a commit raises: the answer is a 500, which PayPal retries.
DatabaseFails(h) ==
  /\ req[h].pc \in {"insert", "cardMember", "payCardMember", "members", "payFee",
                    "payMeal"}
  /\ Fault("db")
  /\ Goto(h, "idle")
  /\ CutShort({h})
  /\ UNCHANGED <<payment, outcome, effectVars, crashes>>

\* The portal is killed or restarted: every delivery in progress is lost.
Crash ==
  /\ crashes < MaxCrashes
  /\ \E h \in Handlers : ~At(h, "idle")
  /\ crashes' = crashes + 1
  /\ CutShort(Handlers)
  /\ req' = [h \in Handlers |-> Idle]
  /\ UNCHANGED <<payment, outcome, effectVars, faults>>

Step(h) ==
  \/ InsertRow(h) \/ FindPayer(h) \/ SearchBoard(h) \/ BoardFails(h)
  \/ Annotate(h) \/ ReadCardMember(h) \/ MatchMember(h)
  \/ PayFee(h) \/ PayMeal(h) \/ Notify(h) \/ SetOutcome(h)
  \/ DatabaseFails(h)

Next ==
  \/ \E h \in Handlers : Step(h) \/ \E t \in Txns : Deliver(h, t)
  \/ Crash

Spec == Init /\ [][Next]_vars

-----------------------------------------------------------------------------
(***************************************************************************)
(* Properties.                                                             *)
(***************************************************************************)
FeesOf(t) == {m \in Members : t \in fee[m].by}
MealsOf(t) == {e \in Meals : t \in meal[e]}

\* However often a payment is delivered, and whatever fails, it has its effects
\* once: one note on one card, one fee or one meal settled, one notification
\* (the reason for webhook_events given in models/webhook_event.py).
SideEffectsOnce ==
  \A t \in Txns :
    /\ notes[t] <= 1 /\ told[t] <= 1
    /\ Cardinality(FeesOf(t)) + Cardinality(MealsOf(t)) <= 1

\* What a payment settles is what was paid for: the full fee (not 49.50, see
\* the comment on APP_FEE_MIN), by a recruit or for a card with the payer's
\* address; or the payer's meal at the price of its event.
CreditsMatchPayments ==
  \A t \in Txns :
    /\ \A m \in FeesOf(t) :
         /\ payment[t].usd /\ payment[t].amount \in AppFeeMin..AppFeeMax
         /\ \/ m \in Recruits \cap (payment[t].people \cup payment[t].namedPeople)
            \/ \E c \in payment[t].cards : m \in Namesakes[c]
    /\ \A e \in MealsOf(t) :
         /\ payment[t].usd
         /\ payment[t].amount \in Price[e]..(Price[e] + MealFeeSlack)
         /\ Eater[e] \in payment[t].people \cup payment[t].namedPeople

\* The audit row tells what happened: a payment that it hands to S1 or S4, or
\* ignores, has settled nothing and marked no card.
AuditTruthful ==
  \A t \in Txns :
    outcome[t] \in {"ignored_currency", "needs_review", "unmatched"} =>
      notes[t] = 0 /\ FeesOf(t) = {} /\ MealsOf(t) = {}

InHand(t) == \E h \in Handlers : ~At(h, "idle") /\ ~At(h, "insert")
                                /\ req[h].txn = t
Traced(t) == \/ outcome[t] \notin Unsettled \/ told[t] > 0 \/ notes[t] > 0
             \/ FeesOf(t) # {} \/ MealsOf(t) # {}

\* A payment in dollars that is recorded, and whose redelivery is thus answered
\* with "duplicate", is being handled or has left a trace by which it is known
\* what became of it, unless its handler was cut short: no single failure of the
\* calls that the handler guards loses a payment (two do: of the notification,
\* and of the outcome).
PaymentsTraced ==
  \A t \in Txns :
    outcome[t] # "absent" /\ payment[t].usd => InHand(t) \/ Traced(t) \/ t \in dropped

\* The same without exception: "every webhook transaction we've already
\* processed" (models/webhook_event.py) is what webhook_events records.
RecordedIsProcessed ==
  \A t \in Txns :
    outcome[t] # "absent" /\ payment[t].usd => InHand(t) \/ Traced(t)

\* A meal is paid once: a payment goes to an unpaid RSVP (pick_meal_payment).
MealPaidOnce == \A e \in Meals : Cardinality(meal[e]) <= 1

\* A payment that matches its card by name only verifies no fee: "never
\* auto-verify them".
NameOnlyReviewed ==
  \A t \in Txns :
    (payment[t].namedCards # {} /\ payment[t].cards = {} /\ payment[t].people = {})
      => FeesOf(t) = {}

\* The docstring of _find_deck_card gives an address priority over a name: a
\* payment whose address is on a card is not sent to review as a name match.
AddressBeforeName ==
  \A t \in Txns : payment[t].cards # {} => outcome[t] # "needs_review"
=============================================================================
