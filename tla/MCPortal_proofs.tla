-------------------------- MODULE MCPortal_proofs --------------------------
(***************************************************************************)
(* The theorems about the pages of the portal (MCPortal): those about the  *)
(* payments (PaypalWebhook), for any number of payments, handlers, members *)
(* and cards, which carry over since a behaviour that uses the page of the *)
(* payments is one of PaypalWebhook, and those about the S4 desk           *)
(* (Logistics), about announcements (Broadcast) and about the session of a *)
(* browser (Sessions).                                                     *)
(***************************************************************************)
EXTENDS MCPortal, Sequences, FiniteSetTheorems, WellFoundedInduction, TLAPS

-----------------------------------------------------------------------------
(***************************************************************************)
(* Type correctness.                                                       *)
(***************************************************************************)
LEMMA IdleType == Idle \in Deliveries
BY TxnsAssumption DEF Idle, Deliveries, Pcs, Outcomes

\* Every variable keeps its type, and a handler has found what its step is about.
TypeInv ==
  /\ TypeOK
  /\ \A h \in Handlers :
       /\ req[h].pc \in {"annotate", "cardMember", "payCardMember"} => req[h].card \in Cards
       /\ req[h].pc \in {"payCardMember", "payFee", "payMeal"} => req[h].member \in Members
       /\ req[h].pc = "payMeal" => req[h].meal \in Meals

\* The soonest of some meals is one of them.
LEMMA SoonestIsPayable ==
  ASSUME NEW t \in Txns, NEW m \in Members, Payable(t, m) # {}
  PROVE  Soonest(Payable(t, m)) \in Payable(t, m)
<1> DEFINE S == Payable(t, m)
<1>1. S \subseteq Nat /\ S # {}
  BY MealsAssumption DEF Payable
<1> DEFINE R == OpToRel(<, Nat)
<1>2. IsWellFoundedOn(R, Nat)
  BY NatLessThanWellFounded
<1>3. \A d, e \in Nat : ~(<<d, e>> \in R) => e <= d
  BY DEF OpToRel
<1> HIDE DEF S, R
<1>4. PICK e \in S : \A d \in S : ~(<<d, e>> \in R)
  BY <1>1, <1>2, WFMin
<1>5. \A d \in S : e <= d
  BY <1>1, <1>3, <1>4
<1>6. QED
  BY <1>5 DEF Soonest, S

\* A failure is counted, and stays within the bound.
LEMMA FaultType ==
  ASSUME faults \in 0..MaxFaults, NEW k, Fault(k) \/ NoFault
  PROVE  faults' \in 0..MaxFaults /\ faults <= faults'
BY BoundsAssumption DEF Fault, NoFault

\* A step of one handler keeps the types if its own record has them.
LEMMA HandlerType ==
  ASSUME TypeInv, NEW h \in Handlers, NEW q \in Deliveries, req' = [req EXCEPT ![h] = q],
         q.pc \in {"annotate", "cardMember", "payCardMember"} => q.card \in Cards,
         q.pc \in {"payCardMember", "payFee", "payMeal"} => q.member \in Members,
         q.pc = "payMeal" => q.meal \in Meals
  PROVE  /\ req' \in [Handlers -> Deliveries]
         /\ \A g \in Handlers :
              /\ req'[g].pc \in {"annotate", "cardMember", "payCardMember"} => req'[g].card \in Cards
              /\ req'[g].pc \in {"payCardMember", "payFee", "payMeal"} => req'[g].member \in Members
              /\ req'[g].pc = "payMeal" => req'[g].meal \in Meals
BY DEF TypeInv, TypeOK

\* The same of a handler that only goes on.
LEMMA GotoType ==
  ASSUME TypeInv, NEW h \in Handlers, NEW p \in Pcs, Goto(h, p),
         p \in {"annotate", "cardMember", "payCardMember"} => req[h].card \in Cards,
         p \notin {"payCardMember", "payFee", "payMeal"}
  PROVE  /\ req' \in [Handlers -> Deliveries]
         /\ \A g \in Handlers :
              /\ req'[g].pc \in {"annotate", "cardMember", "payCardMember"} => req'[g].card \in Cards
              /\ req'[g].pc \in {"payCardMember", "payFee", "payMeal"} => req'[g].member \in Members
              /\ req'[g].pc = "payMeal" => req'[g].meal \in Meals
<1> DEFINE q == [req[h] EXCEPT !.pc = p]
<1>1. req[h] \in Deliveries /\ req' = [req EXCEPT ![h] = q]
  BY DEF Goto, TypeInv, TypeOK
<1>2. q \in Deliveries /\ q.pc = p /\ q.card = req[h].card
  BY <1>1 DEF Deliveries
<1> HIDE DEF q
<1>3. QED
  BY <1>1, <1>2, HandlerType

\* The variables never leave their types: the lemmas all others build on.
LEMMA TypeInit == Init => TypeInv
<1> SUFFICES ASSUME Init PROVE TypeInv
  OBVIOUS
<1>1. req \in [Handlers -> Deliveries] /\ \A h \in Handlers : req[h].pc = "idle"
  BY IdleType DEF Init, Idle
<1>2. fee \in [Members -> [status : {"pending", "paid", "waived"}, by : SUBSET Txns]]
  BY DEF Init
<1>3. QED
  BY <1>1, <1>2, BoundsAssumption DEF Init, TypeInv, TypeOK, Outcomes

LEMMA TypeStep == TypeInv /\ [Next]_vars => TypeInv'
<1> SUFFICES ASSUME TypeInv, [Next]_vars PROVE TypeInv'
  OBVIOUS
<1> USE DEF TypeInv, TypeOK, effectVars, NoFault
<1>1. ASSUME NEW h \in Handlers, Step(h) PROVE TypeInv'
  <2> DEFINE t == req[h].txn
  <2> USE DEF At
  <2>1. t \in Txns /\ req[h] \in Deliveries
    BY DEF Deliveries
  <2> HIDE DEF TypeInv, TypeOK
  <2>2. CASE InsertRow(h)
    <3>1. outcome' \in [Txns -> Outcomes]
      BY <2>1, <2>2 DEF InsertRow, Outcomes, TypeInv, TypeOK
    <3>2. Goto(h, "payer") \/ Goto(h, "idle")
      BY <2>2 DEF InsertRow
    <3>3. QED
      BY <2>2, <3>1, <3>2, GotoType DEF InsertRow, Pcs, TypeInv, TypeOK
  <2>3. CASE FindPayer(h)
    <3>1. PICK known \in BOOLEAN, res \in Outcomes, p \in {"outcome", "board", "members"} :
            req' = [req EXCEPT ![h].known = known, ![h].result = res, ![h].pc = p]
      BY <2>3 DEF FindPayer, Outcomes
    <3> DEFINE q == [req[h] EXCEPT !.known = known, !.result = res, !.pc = p]
    <3>2. q \in Deliveries /\ q.pc = p
      BY <2>1, <3>1 DEF Deliveries, Pcs
    <3>3. req' = [req EXCEPT ![h] = q]
      BY <3>1 DEF TypeInv, TypeOK
    <3>4. faults' \in 0..MaxFaults
      BY <2>3, FaultType DEF FindPayer, TypeInv, TypeOK
    <3> HIDE DEF q
    <3>5. QED
      BY <2>3, <3>1, <3>2, <3>3, <3>4, HandlerType DEF FindPayer, TypeInv, TypeOK
  <2>4. CASE SearchBoard(h)
    <3>1. CASE Goto(h, "members")
      BY <2>4, <3>1, GotoType DEF SearchBoard, Pcs, TypeInv, TypeOK
    <3>2. ASSUME NEW c \in Cards, NEW res \in Outcomes, NEW p \in {"annotate", "notify"},
                 req' = [req EXCEPT ![h].card = c, ![h].result = res, ![h].pc = p]
          PROVE  TypeInv'
      <4> DEFINE q == [req[h] EXCEPT !.card = c, !.result = res, !.pc = p]
      <4>1. q \in Deliveries /\ q.pc = p /\ q.card = c
        BY <2>1 DEF Deliveries, Pcs
      <4>2. req' = [req EXCEPT ![h] = q]
        BY <3>2 DEF TypeInv, TypeOK
      <4> HIDE DEF q
      <4>3. QED
        BY <2>4, <4>1, <4>2, HandlerType DEF SearchBoard, TypeInv, TypeOK
    <3>3. payment[t].cards \cup payment[t].namedCards \subseteq Cards
      BY <2>1, PaymentsAssumption DEF PaymentRecord, TypeInv, TypeOK
    <3>4. QED
      BY <2>4, <3>1, <3>2, <3>3 DEF SearchBoard, Outcomes
  <2>5. CASE BoardFails(h)
    BY <2>5, FaultType, GotoType DEF BoardFails, Pcs, TypeInv, TypeOK
  <2>6. CASE Annotate(h)
    <3>1. notes' \in [Txns -> Nat]
      BY <2>1, <2>6 DEF Annotate, TypeInv, TypeOK
    <3>2. req[h].card \in Cards
      BY <2>6 DEF Annotate, TypeInv
    <3>3. QED
      BY <2>6, <3>1, <3>2, FaultType, GotoType DEF Annotate, Pcs, TypeInv, TypeOK
  <2>7. CASE ReadCardMember(h)
    <3>1. Namesakes[req[h].card] \subseteq Members /\ req[h].card \in Cards
      BY <2>7, RosterAssumption DEF ReadCardMember, TypeInv
    <3>2. dropped' \subseteq Txns
      BY <2>1, <2>7 DEF ReadCardMember, CutShort, TypeInv, TypeOK
    <3>3. CASE Goto(h, "notify") \/ Goto(h, "idle")
      BY <2>7, <3>2, <3>3, GotoType DEF ReadCardMember, Pcs, TypeInv, TypeOK
    <3>4. ASSUME NEW m \in Members,
                 req' = [req EXCEPT ![h].pc = "payCardMember", ![h].member = m]
          PROVE  TypeInv'
      <4> DEFINE q == [req[h] EXCEPT !.pc = "payCardMember", !.member = m]
      <4>1. q \in Deliveries /\ q.pc = "payCardMember" /\ q.member = m /\ q.card = req[h].card
        BY <2>1 DEF Deliveries, Pcs
      <4>2. req' = [req EXCEPT ![h] = q]
        BY <3>4 DEF TypeInv, TypeOK
      <4> HIDE DEF q
      <4>3. QED
        BY <2>7, <3>1, <3>2, <4>1, <4>2, HandlerType DEF ReadCardMember, TypeInv, TypeOK
    <3>5. QED
      BY <2>7, <3>1, <3>3, <3>4 DEF ReadCardMember
  <2>8. CASE MatchMember(h)
    <3>1. ASSUME NEW m \in Members \cup {None}, NEW e \in Meals \cup {None}, NEW res \in Outcomes,
                 NEW kind \in {"notify", "outcomeFirst", "payFee", "payMeal"},
                 kind \in {"payFee", "payMeal"} => m \in Members,
                 kind = "payMeal" => e \in Meals,
                 req' = [req EXCEPT ![h].pc = kind, ![h].member = m, ![h].meal = e,
                                    ![h].result = res]
          PROVE  TypeInv'
      <4> DEFINE q == [req[h] EXCEPT !.pc = kind, !.member = m, !.meal = e, !.result = res]
      <4>1. q \in Deliveries /\ q.pc = kind /\ q.member = m /\ q.meal = e
        BY <2>1 DEF Deliveries, Pcs
      <4>2. req' = [req EXCEPT ![h] = q]
        BY <3>1 DEF TypeInv, TypeOK
      <4>3. /\ q.pc \notin {"annotate", "cardMember", "payCardMember"}
            /\ q.pc \in {"payCardMember", "payFee", "payMeal"} => q.member \in Members
            /\ q.pc = "payMeal" => q.meal \in Meals
        BY <3>1, <4>1
      <4> HIDE DEF q
      <4>4. /\ req' \in [Handlers -> Deliveries]
            /\ \A g \in Handlers :
                 /\ req'[g].pc \in {"annotate", "cardMember", "payCardMember"}
                      => req'[g].card \in Cards
                 /\ req'[g].pc \in {"payCardMember", "payFee", "payMeal"}
                      => req'[g].member \in Members
                 /\ req'[g].pc = "payMeal" => req'[g].meal \in Meals
        BY <4>1, <4>2, <4>3, HandlerType
      <4>5. QED
        BY <2>8, <4>4 DEF MatchMember, TypeInv, TypeOK
    <3>2. CASE Finish(h, "notify", "unmatched")
      <4>1. req' = [req EXCEPT ![h].pc = "notify", ![h].member = req[h].member,
                               ![h].meal = req[h].meal, ![h].result = "unmatched"]
        BY <2>1, <3>2 DEF Finish, TypeInv, TypeOK, Deliveries
      <4>2. req[h].member \in Members \cup {None} /\ req[h].meal \in Meals \cup {None}
        BY <2>1 DEF Deliveries
      <4>3. QED
        BY <3>1, <4>1, <4>2 DEF Outcomes
    <3>3. ASSUME NEW m \in Found(t, req[h].known),
                 NEW kind \in {"payFee", "notify", "payMeal", "outcomeFirst"},
                 kind = "payMeal" => Payable(t, m) # {},
                 req' = [req EXCEPT
                   ![h].pc = kind, ![h].member = m,
                   ![h].meal = IF kind = "payMeal" THEN Soonest(Payable(t, m)) ELSE None,
                   ![h].result = IF kind = "outcomeFirst" THEN "needs_review"
                                                          ELSE "matched_member"]
          PROVE  TypeInv'
      <4> DEFINE e == IF kind = "payMeal" THEN Soonest(Payable(t, m)) ELSE None
      <4> DEFINE res == IF kind = "outcomeFirst" THEN "needs_review" ELSE "matched_member"
      <4>1. res \in Outcomes
        BY DEF Outcomes
      <4>2. req' = [req EXCEPT ![h].pc = kind, ![h].member = m, ![h].meal = e,
                               ![h].result = res]
        BY <3>3
      <4>3. m \in Members
        BY <2>1, PaymentsAssumption DEF Found, PaymentRecord, TypeInv, TypeOK
      <4>4. kind = "payMeal" => e \in Meals
        <5> SUFFICES ASSUME kind = "payMeal" PROVE e \in Meals
          OBVIOUS
        <5>1. e \in Payable(t, m)
          BY <2>1, <3>3, <4>3, SoonestIsPayable
        <5>2. QED
          BY <5>1 DEF Payable
      <4>5. e \in Meals \cup {None}
        BY <4>4
      <4> HIDE DEF e, res
      <4>6. QED
        BY <3>1, <4>1, <4>2, <4>3, <4>4, <4>5
    <3>4. ASSUME NEW m \in Found(t, req[h].known),
                 LET meals == Payable(t, m)
                     kind == IF IsAppFee(t)
                             THEN IF m \in Recruits /\ fee[m].status = "pending"
                                  THEN "payFee" ELSE "notify"
                             ELSE IF meals # {} THEN "payMeal"
                             ELSE IF LooksLikeMeal(t, m) THEN "outcomeFirst"
                             ELSE "notify"
                 IN req' = [req EXCEPT
                      ![h].pc = kind, ![h].member = m,
                      ![h].meal = IF kind = "payMeal" THEN Soonest(meals) ELSE None,
                      ![h].result = IF kind = "outcomeFirst" THEN "needs_review"
                                                             ELSE "matched_member"]
          PROVE  TypeInv'
      <4> DEFINE kind == IF IsAppFee(t)
                         THEN IF m \in Recruits /\ fee[m].status = "pending"
                              THEN "payFee" ELSE "notify"
                         ELSE IF Payable(t, m) # {} THEN "payMeal"
                         ELSE IF LooksLikeMeal(t, m) THEN "outcomeFirst"
                         ELSE "notify"
      <4>1. /\ kind \in {"payFee", "notify", "payMeal", "outcomeFirst"}
            /\ kind = "payMeal" => Payable(t, m) # {}
        OBVIOUS
      <4>2. req' = [req EXCEPT
                   ![h].pc = kind, ![h].member = m,
                   ![h].meal = IF kind = "payMeal" THEN Soonest(Payable(t, m)) ELSE None,
                   ![h].result = IF kind = "outcomeFirst" THEN "needs_review"
                                                          ELSE "matched_member"]
        BY <3>4
      <4> HIDE DEF kind
      <4>3. QED
        BY <3>3, <4>1, <4>2
    <3>5. QED
      BY <2>8, <3>2, <3>4 DEF MatchMember
  <2>9. CASE PayFee(h)
    <3>1. fee' \in [Members -> [status : {"pending", "paid", "waived"}, by : SUBSET Txns]]
      BY <2>1, <2>9 DEF PayFee, TypeInv, TypeOK
    <3>2. QED
      BY <2>9, <3>1, GotoType DEF PayFee, Pcs, TypeInv, TypeOK
  <2>10. CASE PayMeal(h)
    <3>1. meal' \in [Meals -> SUBSET Txns]
      BY <2>1, <2>10 DEF PayMeal, TypeInv, TypeOK
    <3>2. QED
      BY <2>10, <3>1, GotoType DEF PayMeal, Pcs, TypeInv, TypeOK
  <2>11. CASE Notify(h)
    <3>1. told' \in [Txns -> Nat]
      BY <2>1, <2>11 DEF Notify, TypeInv, TypeOK
    <3>2. Goto(h, "outcome") \/ Goto(h, "idle")
      BY <2>11 DEF Notify
    <3>3. QED
      BY <2>11, <3>1, <3>2, FaultType, GotoType DEF Notify, Pcs, TypeInv, TypeOK
  <2>12. CASE SetOutcome(h)
    <3>1. outcome' \in [Txns -> Outcomes]
      BY <2>1, <2>12 DEF SetOutcome, Deliveries, TypeInv, TypeOK
    <3>2. Goto(h, "notifyLast") \/ Goto(h, "idle")
      BY <2>12 DEF SetOutcome
    <3>3. QED
      BY <2>12, <3>1, <3>2, FaultType, GotoType DEF SetOutcome, Pcs, TypeInv, TypeOK
  <2>13. CASE DatabaseFails(h)
    <3>1. dropped' \subseteq Txns
      BY <2>1, <2>13 DEF DatabaseFails, CutShort, TypeInv, TypeOK
    <3>2. QED
      BY <2>13, <3>1, FaultType, GotoType DEF DatabaseFails, Pcs, TypeInv, TypeOK
  <2>14. QED
    BY <1>1, <2>2, <2>3, <2>4, <2>5, <2>6, <2>7, <2>8, <2>9, <2>10, <2>11, <2>12, <2>13
       DEF Step
<1>2. ASSUME NEW h \in Handlers, NEW t \in Txns, Deliver(h, t) PROVE TypeInv'
  <2> DEFINE q == [Idle EXCEPT !.pc = "insert", !.txn = t]
  <2>1. q \in Deliveries /\ q.pc = "insert"
    BY IdleType DEF Idle, Deliveries, Pcs
  <2>2. req' = [req EXCEPT ![h] = q]
    BY <1>2 DEF Deliver
  <2> HIDE DEF q
  <2>3. QED
    BY <1>2, <2>1, <2>2, HandlerType DEF Deliver
<1>3. CASE Crash
  BY <1>3, IdleType, BoundsAssumption DEF Crash, CutShort, Idle, Deliveries
<1>4. CASE UNCHANGED vars
  BY <1>4 DEF vars
<1>5. QED
  BY <1>1, <1>2, <1>3, <1>4 DEF Next

\* Types are right at every step.
THEOREM TypeOKCorrect == Spec => []TypeOK
<1>1. TypeInv => TypeOK
  BY DEF TypeInv
<1>2. QED
  BY <1>1, TypeInit, TypeStep, PTL DEF Spec

\* What holds of every step holds in every state.
THEOREM TypeCorrect == Spec => []TypeInv
BY TypeInit, TypeStep, PTL DEF Spec

-----------------------------------------------------------------------------
(***************************************************************************)
(* Effects: the row of webhook_events gives a payment to one handler, and  *)
(* what that handler has done so far follows from the step it is at.       *)
(***************************************************************************)
Past(h) == req[h].pc \notin {"idle", "insert"}

\* The effects of a payment have not begun, but for the notification.
Untouched(t) == notes[t] = 0 /\ FeesOf(t) = {} /\ MealsOf(t) = {}
HandedOver == {"ignored_currency", "needs_review", "unmatched"}

Payers(t) == payment[t].people \cup payment[t].namedPeople
FeeMatches(t, m) ==
  /\ payment[t].usd /\ IsAppFee(t)
  /\ m \in Recruits \cap Payers(t) \/ \E c \in payment[t].cards : m \in Namesakes[c]
MealMatches(t, e) == payment[t].usd /\ AmountCovers(t, Price[e]) /\ Eater[e] \in Payers(t)

\* What a handler past the insert has done and found at each of its steps.
StageInv(h, t) ==
  /\ outcome[t] # "absent"
  /\ req[h].pc # "notifyLast" => outcome[t] = "processing"
  /\ req[h].pc # "outcome" => told[t] = 0
  /\ req[h].pc \notin {"notify", "outcome"} => FeesOf(t) = {} /\ MealsOf(t) = {}
  /\ req[h].pc \notin {"cardMember", "payCardMember", "notify", "outcome"} => notes[t] = 0
  /\ req[h].pc \in {"annotate", "cardMember", "payCardMember"} =>
       req[h].result = "matched_deck" /\ req[h].card \in payment[t].cards
  /\ req[h].pc \in {"payFee", "payMeal"} => req[h].result = "matched_member"
  /\ req[h].pc \in {"notify", "outcome", "outcomeFirst"} => req[h].result \notin Unsettled
  /\ req[h].pc \in {"notify", "outcome"} /\ req[h].result \in HandedOver => Untouched(t)
  /\ req[h].pc \in {"board", "annotate", "cardMember", "payCardMember"} =>
       payment[t].usd /\ IsAppFee(t)
  /\ req[h].pc = "members" => payment[t].usd
  /\ req[h].pc \in {"payCardMember", "payFee"} => FeeMatches(t, req[h].member)
  /\ req[h].pc = "payMeal" => MealMatches(t, req[h].meal)

\* What holds of every payment.
TxnInv(t) ==
  /\ notes[t] <= 1 /\ told[t] <= 1
  /\ \A m, n \in FeesOf(t) : m = n
  /\ \A d, e \in MealsOf(t) : d = e
  /\ FeesOf(t) = {} \/ MealsOf(t) = {}
  /\ outcome[t] = "absent" => Untouched(t) /\ told[t] = 0
  /\ outcome[t] \in HandedOver => Untouched(t)
  /\ \A m \in FeesOf(t) : FeeMatches(t, m)
  /\ \A e \in MealsOf(t) : MealMatches(t, e)

SafeInv ==
  /\ \A g, h \in Handlers : Past(g) /\ Past(h) /\ req[g].txn = req[h].txn => g = h
  /\ \A h \in Handlers, t \in Txns : Past(h) /\ req[h].txn = t => StageInv(h, t)
  /\ \A t \in Txns : TxnInv(t)

\* A step leaves a payment alone.
Same(t) ==
  /\ outcome'[t] = outcome[t] /\ notes'[t] = notes[t] /\ told'[t] = told[t]
  /\ FeesOf(t)' = FeesOf(t) /\ MealsOf(t)' = MealsOf(t)

LEMMA SameTxn ==
  ASSUME NEW t \in Txns, Same(t), payment' = payment, TxnInv(t)
  PROVE  TxnInv(t)'
BY DEF Same, TxnInv, Untouched, FeeMatches, MealMatches, Payers, IsAppFee, AmountCovers,
       FeesOf, MealsOf

LEMMA SameStage ==
  ASSUME NEW h \in Handlers, NEW t \in Txns, Same(t), payment' = payment,
         req'[h] = req[h], StageInv(h, t)
  PROVE  StageInv(h, t)'
BY DEF Same, StageInv, Untouched, FeeMatches, MealMatches, Payers, IsAppFee, AmountCovers,
       FeesOf, MealsOf

\* A handler that owns its payment, or takes a payment that is not recorded,
\* disturbs no other.
LEMMA OneDisturbed ==
  ASSUME SafeInv, NEW h \in Handlers, NEW t \in Txns, req[h].txn = t, req'[h].txn = t,
         payment' = payment, \A g \in Handlers \ {h} : req'[g] = req[g],
         Past(h) \/ outcome[t] = "absent",
         \A u \in Txns \ {t} : Same(u),
         Past(h)' => StageInv(h, t)', TxnInv(t)'
  PROVE  SafeInv'
<1>1. ASSUME NEW g \in Handlers \ {h}, Past(g) PROVE req[g].txn # t
  <2>1. req[g].txn = t => StageInv(g, t)
    BY <1>1 DEF SafeInv
  <2>2. req[g].txn = t => outcome[t] # "absent"
    BY <2>1 DEF StageInv
  <2>3. QED
    BY <1>1, <2>2 DEF SafeInv
<1>2. \A g \in Handlers \ {h} : Past(g)' <=> Past(g)
  BY DEF Past
<1>3. \A f, g \in Handlers : Past(f)' /\ Past(g)' /\ req'[f].txn = req'[g].txn => f = g
  <2> SUFFICES ASSUME NEW f \in Handlers, NEW g \in Handlers, Past(f)', Past(g)',
                      req'[f].txn = req'[g].txn
               PROVE  f = g
    OBVIOUS
  <2>1. CASE f # h /\ g # h
    <3>1. Past(f) /\ Past(g) /\ req[f].txn = req[g].txn
      BY <1>2, <2>1
    <3>2. QED
      BY <3>1 DEF SafeInv
  <2>2. CASE f = h /\ g # h
    BY <1>1, <1>2, <2>2
  <2>3. CASE f # h /\ g = h
    BY <1>1, <1>2, <2>3
  <2>4. QED
    BY <2>1, <2>2, <2>3
<1>4. \A g \in Handlers, u \in Txns : Past(g)' /\ req'[g].txn = u => StageInv(g, u)'
  <2> SUFFICES ASSUME NEW g \in Handlers, NEW u \in Txns, Past(g)', req'[g].txn = u
               PROVE  StageInv(g, u)'
    OBVIOUS
  <2>1. CASE g = h
    BY <2>1
  <2>2. CASE g # h
    <3>1. Past(g) /\ req[g].txn = u /\ req'[g] = req[g]
      BY <1>2, <2>2
    <3>2. Same(u)
      BY <1>1, <2>2, <3>1
    <3>3. StageInv(g, u)
      BY <3>1 DEF SafeInv
    <3>4. QED
      BY <3>1, <3>2, <3>3, SameStage
  <2>3. QED
    BY <2>1, <2>2
<1>5. \A u \in Txns : TxnInv(u)'
  <2> SUFFICES ASSUME NEW u \in Txns, u # t PROVE TxnInv(u)'
    OBVIOUS
  <2>1. Same(u) /\ TxnInv(u)
    BY DEF SafeInv
  <2>2. QED
    BY <2>1, SameTxn
<1>6. QED
  BY <1>3, <1>4, <1>5 DEF SafeInv

\* Nor does one that ends, or that has not come to the insert yet.
LEMMA NoneDisturbed ==
  ASSUME SafeInv, payment' = payment,
         \A g \in Handlers : req'[g] = req[g] \/ ~Past(g)',
         \A u \in Txns : Same(u)
  PROVE  SafeInv'
<1>1. \A g \in Handlers : Past(g)' => Past(g) /\ req'[g] = req[g]
  BY DEF Past
<1>2. \A f, g \in Handlers : Past(f)' /\ Past(g)' /\ req'[f].txn = req'[g].txn => f = g
  <2> SUFFICES ASSUME NEW f \in Handlers, NEW g \in Handlers, Past(f)', Past(g)',
                      req'[f].txn = req'[g].txn
               PROVE  f = g
    OBVIOUS
  <2>1. Past(f) /\ Past(g) /\ req[f].txn = req[g].txn
    BY <1>1
  <2>2. QED
    BY <2>1 DEF SafeInv
<1>3. \A g \in Handlers, u \in Txns : Past(g)' /\ req'[g].txn = u => StageInv(g, u)'
  <2> SUFFICES ASSUME NEW g \in Handlers, NEW u \in Txns, Past(g)', req'[g].txn = u
               PROVE  StageInv(g, u)'
    OBVIOUS
  <2>1. Past(g) /\ req'[g] = req[g] /\ req[g].txn = u
    BY <1>1
  <2>2. StageInv(g, u)
    BY <2>1 DEF SafeInv
  <2>3. QED
    BY <2>1, <2>2, SameStage
<1>4. \A u \in Txns : TxnInv(u)'
  BY SameTxn DEF SafeInv
<1>5. QED
  BY <1>2, <1>3, <1>4 DEF SafeInv

\* What a handler that goes on takes along.
LEMMA GotoMoves ==
  ASSUME TypeInv, NEW h \in Handlers, NEW p \in Pcs, Goto(h, p)
  PROVE  /\ req'[h] = [req[h] EXCEPT !.pc = p]
         /\ req'[h].pc = p /\ req'[h].txn = req[h].txn /\ req'[h].card = req[h].card
         /\ req'[h].member = req[h].member /\ req'[h].meal = req[h].meal
         /\ req'[h].result = req[h].result
         /\ \A g \in Handlers \ {h} : req'[g] = req[g]
<1>1. req \in [Handlers -> Deliveries] /\ req[h] \in Deliveries
  BY DEF TypeInv, TypeOK
<1>2. req'[h] = [req[h] EXCEPT !.pc = p] /\ \A g \in Handlers \ {h} : req'[g] = req[g]
  BY <1>1 DEF Goto
<1>3. QED
  BY <1>1, <1>2 DEF Deliveries

\* The steps of a handler keep the invariant.
LEMMA SafeOfStep ==
  ASSUME TypeInv, TypeInv', SafeInv, NEW h \in Handlers, NEW t \in Txns, req[h].txn = t,
         Step(h)
  PROVE  SafeInv'
<1> USE DEF At, effectVars, NoFault
<1>1. /\ Past(h) => StageInv(h, t)
      /\ TxnInv(t)
  BY DEF SafeInv
<1>2. UNCHANGED effectVars /\ UNCHANGED outcome => \A u \in Txns : Same(u)
  BY DEF Same, FeesOf, MealsOf
<1>3. UNCHANGED <<fee, meal>> => \A u \in Txns : FeesOf(u)' = FeesOf(u) /\ MealsOf(u)' = MealsOf(u)
  BY DEF FeesOf, MealsOf
<1>4. req \in [Handlers -> Deliveries] /\ req[h] \in Deliveries
  BY DEF TypeInv, TypeOK
<1>5. CASE InsertRow(h)
  <2>1. payment' = payment /\ UNCHANGED effectVars /\ ~Past(h)
    BY <1>5 DEF InsertRow, Past
  <2>2. CASE outcome[t] = "absent"
    <3>1. Goto(h, "payer") /\ outcome' = [outcome EXCEPT ![t] = "processing"]
      BY <1>5, <2>2 DEF InsertRow
    <3>2. /\ req'[h].pc = "payer" /\ req'[h].txn = t
          /\ \A g \in Handlers \ {h} : req'[g] = req[g]
      BY <3>1, GotoMoves DEF Pcs
    <3>3. outcome'[t] = "processing" /\ \A u \in Txns \ {t} : Same(u)
      BY <2>1, <3>1, <1>3 DEF Same, TypeInv, TypeOK
    <3>4. Untouched(t)' /\ told'[t] = 0
      BY <1>1, <1>3, <2>1, <2>2 DEF TxnInv, Untouched
    <3>5. StageInv(h, t)'
      BY <3>2, <3>3, <3>4 DEF StageInv, Untouched
    <3>6. TxnInv(t)'
      BY <3>3, <3>4 DEF TxnInv, Untouched, HandedOver
    <3>7. QED
      BY <2>1, <2>2, <3>2, <3>3, <3>5, <3>6, OneDisturbed
  <2>3. CASE outcome[t] # "absent"
    <3>1. Goto(h, "idle") /\ UNCHANGED outcome
      BY <1>5, <2>3 DEF InsertRow
    <3>2. \A g \in Handlers : req'[g] = req[g] \/ ~Past(g)'
      BY <3>1, GotoMoves DEF Pcs, Past
    <3>3. QED
      BY <1>2, <2>1, <3>1, <3>2, NoneDisturbed
  <2>4. QED
    BY <2>2, <2>3
<1>6. CASE FindPayer(h)
  <2>1. payment' = payment /\ UNCHANGED effectVars /\ UNCHANGED outcome /\ Past(h)
    BY <1>6 DEF FindPayer, Past
  <2>2. StageInv(h, t) /\ req[h].pc = "payer"
    BY <1>1, <1>6, <2>1 DEF FindPayer
  <2>3. PICK known \in BOOLEAN :
          req' = [req EXCEPT
            ![h].known = known,
            ![h].result = IF payment[t].usd THEN "absent" ELSE "ignored_currency",
            ![h].pc = IF ~payment[t].usd THEN "outcome"
                      ELSE IF IsAppFee(t) THEN "board" ELSE "members"]
    BY <1>6 DEF FindPayer
  <2>4. /\ req'[h].txn = t /\ \A g \in Handlers \ {h} : req'[g] = req[g]
        /\ \/ ~payment[t].usd /\ req'[h].pc = "outcome" /\ req'[h].result = "ignored_currency"
           \/ payment[t].usd /\ IsAppFee(t) /\ req'[h].pc = "board"
           \/ payment[t].usd /\ req'[h].pc = "members"
    BY <1>4, <2>3 DEF Deliveries
  <2>5. StageInv(h, t)'
    BY <1>2, <2>1, <2>2, <2>4 DEF StageInv, Same, Untouched, IsAppFee, Unsettled
  <2>6. TxnInv(t)'
    BY <1>1, <1>2, <2>1, SameTxn
  <2>7. QED
    BY <1>2, <2>1, <2>4, <2>5, <2>6, OneDisturbed
<1>7. CASE SearchBoard(h)
  <2>1. payment' = payment /\ UNCHANGED effectVars /\ UNCHANGED outcome /\ Past(h)
    BY <1>7 DEF SearchBoard, Past
  <2>2. StageInv(h, t) /\ req[h].pc = "board"
    BY <1>1, <1>7, <2>1 DEF SearchBoard
  <2>3. /\ req'[h].txn = t /\ \A g \in Handlers \ {h} : req'[g] = req[g]
        /\ \/ req'[h].pc = "members"
           \/ req'[h].pc = "notify" /\ req'[h].result = "needs_review"
           \/ /\ req'[h].pc = "annotate" /\ req'[h].result = "matched_deck"
              /\ req'[h].card \in payment[t].cards
    <3>1. CASE Goto(h, "members")
      BY <3>1, GotoMoves DEF Pcs
    <3>2. ASSUME NEW c \in payment[t].cards \cup payment[t].namedCards,
                 req' = [req EXCEPT
                   ![h].card = c,
                   ![h].result = IF c \in payment[t].cards THEN "matched_deck"
                                                           ELSE "needs_review",
                   ![h].pc = IF c \in payment[t].cards THEN "annotate" ELSE "notify"]
          PROVE  <2>3!:
      BY <1>4, <3>2 DEF Deliveries
    <3>3. QED
      BY <1>7, <3>1, <3>2 DEF SearchBoard
  <2>4. StageInv(h, t)'
    BY <1>2, <2>1, <2>2, <2>3 DEF StageInv, Same, Untouched, IsAppFee, Unsettled
  <2>5. TxnInv(t)'
    BY <1>1, <1>2, <2>1, SameTxn
  <2>6. QED
    BY <1>2, <2>1, <2>3, <2>4, <2>5, OneDisturbed
<1>8. CASE BoardFails(h)
  <2>1. /\ payment' = payment /\ UNCHANGED effectVars /\ UNCHANGED outcome /\ Past(h)
        /\ Goto(h, "members")
    BY <1>8 DEF BoardFails, Past
  <2>2. StageInv(h, t) /\ req[h].pc = "board"
    BY <1>1, <1>8, <2>1 DEF BoardFails
  <2>3. /\ req'[h].pc = "members" /\ req'[h].txn = t
        /\ \A g \in Handlers \ {h} : req'[g] = req[g]
    BY <2>1, GotoMoves DEF Pcs
  <2>4. StageInv(h, t)'
    BY <1>2, <2>1, <2>2, <2>3 DEF StageInv, Same, Untouched
  <2>5. TxnInv(t)'
    BY <1>1, <1>2, <2>1, SameTxn
  <2>6. QED
    BY <1>2, <2>1, <2>3, <2>4, <2>5, OneDisturbed
<1>9. CASE Annotate(h)
  <2>1. /\ payment' = payment /\ UNCHANGED <<fee, meal, told, outcome>> /\ Past(h)
        /\ Goto(h, "cardMember")
        /\ notes' = [notes EXCEPT ![t] = @ + 1] \/ UNCHANGED notes
    BY <1>9 DEF Annotate, Past
  <2>2. StageInv(h, t) /\ req[h].pc = "annotate"
    BY <1>1, <1>9, <2>1 DEF Annotate
  <2>3. /\ req'[h].pc = "cardMember" /\ req'[h].txn = t /\ req'[h].result = req[h].result
        /\ req'[h].card = req[h].card
        /\ \A g \in Handlers \ {h} : req'[g] = req[g]
    BY <2>1, GotoMoves DEF Pcs
  <2>4. notes'[t] <= 1 /\ \A u \in Txns \ {t} : Same(u)
    BY <1>3, <2>1, <2>2 DEF StageInv, Same, TypeInv, TypeOK
  <2>5. StageInv(h, t)'
    BY <1>3, <2>1, <2>2, <2>3 DEF StageInv, IsAppFee
  <2>6. TxnInv(t)'
    BY <1>1, <1>3, <2>1, <2>2, <2>4 DEF StageInv, TxnInv, HandedOver
  <2>7. QED
    BY <2>1, <2>3, <2>4, <2>5, <2>6, OneDisturbed
<1>10. CASE ReadCardMember(h)
  <2>1. payment' = payment /\ UNCHANGED effectVars /\ UNCHANGED outcome /\ Past(h)
    BY <1>10 DEF ReadCardMember, Past
  <2>2. StageInv(h, t) /\ req[h].pc = "cardMember"
    BY <1>1, <1>10, <2>1 DEF ReadCardMember
  <2>3. TxnInv(t)'
    BY <1>1, <1>2, <2>1, SameTxn
  <2>4. CASE Goto(h, "idle")
    <3>1. \A g \in Handlers : req'[g] = req[g] \/ ~Past(g)'
      BY <2>4, GotoMoves DEF Pcs, Past
    <3>2. QED
      BY <1>2, <2>1, <3>1, NoneDisturbed
  <2>5. CASE Goto(h, "notify")
    <3>1. /\ req'[h].pc = "notify" /\ req'[h].txn = t /\ req'[h].result = "matched_deck"
          /\ \A g \in Handlers \ {h} : req'[g] = req[g]
      BY <2>2, <2>5, GotoMoves DEF StageInv, Pcs
    <3>2. StageInv(h, t)'
      BY <1>2, <2>1, <2>2, <3>1 DEF StageInv, Same, Untouched, Unsettled, HandedOver
    <3>3. QED
      BY <1>2, <2>1, <2>3, <3>1, <3>2, OneDisturbed
  <2>6. ASSUME NEW m \in Namesakes[req[h].card],
               req' = [req EXCEPT ![h].pc = "payCardMember", ![h].member = m]
        PROVE  SafeInv'
    <3>1. /\ req'[h].pc = "payCardMember" /\ req'[h].txn = t /\ req'[h].member = m
          /\ req'[h].card = req[h].card /\ req'[h].result = req[h].result
          /\ \A g \in Handlers \ {h} : req'[g] = req[g]
      BY <1>4, <2>6 DEF Deliveries
    <3>2. FeeMatches(t, m)
      BY <2>2, <2>6 DEF StageInv, FeeMatches
    <3>3. FeeMatches(t, m)'
      BY <2>1, <3>2 DEF FeeMatches, IsAppFee, Payers
    <3>4. StageInv(h, t)'
      BY <1>2, <2>1, <2>2, <3>1, <3>3 DEF StageInv, Same, Untouched, IsAppFee
    <3>5. QED
      BY <1>2, <2>1, <2>3, <3>1, <3>4, OneDisturbed
  <2>7. QED
    BY <1>10, <2>4, <2>5, <2>6 DEF ReadCardMember
<1>11. CASE MatchMember(h)
  <2>1. payment' = payment /\ UNCHANGED effectVars /\ UNCHANGED outcome /\ Past(h)
    BY <1>11 DEF MatchMember, Past
  <2>2. StageInv(h, t) /\ req[h].pc = "members"
    BY <1>1, <1>11, <2>1 DEF MatchMember
  <2>3. TxnInv(t)'
    BY <1>1, <1>2, <2>1, SameTxn
  <2>4. CASE Finish(h, "notify", "unmatched")
    <3>1. /\ req'[h].pc = "notify" /\ req'[h].txn = t /\ req'[h].result = "unmatched"
          /\ \A g \in Handlers \ {h} : req'[g] = req[g]
      BY <1>4, <2>4 DEF Finish, Deliveries
    <3>2. StageInv(h, t)'
      BY <1>2, <2>1, <2>2, <3>1 DEF StageInv, Same, Untouched, Unsettled, HandedOver
    <3>3. QED
      BY <1>2, <2>1, <2>3, <3>1, <3>2, OneDisturbed
  <2>5. ASSUME NEW m \in Found(t, req[h].known),
               NEW kind \in {"payFee", "notify", "payMeal", "outcomeFirst"}, NEW e,
               NEW res \in {"needs_review", "matched_member"},
               kind = "outcomeFirst" <=> res = "needs_review",
               kind = "payFee" => IsAppFee(t) /\ m \in Recruits,
               kind = "payMeal" => e \in Payable(t, m),
               req' = [req EXCEPT ![h].pc = kind, ![h].member = m, ![h].meal = e,
                                  ![h].result = res]
        PROVE  SafeInv'
    <3>1. /\ req'[h].pc = kind /\ req'[h].txn = t /\ req'[h].member = m
          /\ req'[h].meal = e /\ req'[h].result = res
          /\ \A g \in Handlers \ {h} : req'[g] = req[g]
      BY <1>4, <2>5 DEF Deliveries
    <3>2. m \in Payers(t)
      BY DEF Found, Payers
    <3>3. kind = "payFee" => FeeMatches(t, m)'
      BY <2>1, <2>2, <2>5, <3>2 DEF StageInv, FeeMatches, IsAppFee, Payers
    <3>4. kind = "payMeal" => MealMatches(t, e)'
      BY <2>1, <2>2, <2>5, <3>2 DEF StageInv, MealMatches, Payable, AmountCovers, Payers
    <3>5. StageInv(h, t)'
      BY <1>2, <2>1, <2>2, <2>5, <3>1, <3>3, <3>4
         DEF StageInv, Same, Untouched, Unsettled, HandedOver
    <3>6. QED
      BY <1>2, <2>1, <2>3, <3>1, <3>5, OneDisturbed
  <2>6. ASSUME NEW m \in Found(t, req[h].known),
               NEW kind \in {"payFee", "notify", "payMeal", "outcomeFirst"},
               kind = "payFee" => IsAppFee(t) /\ m \in Recruits,
               kind = "payMeal" => Payable(t, m) # {},
               req' = [req EXCEPT
                 ![h].pc = kind, ![h].member = m,
                 ![h].meal = IF kind = "payMeal" THEN Soonest(Payable(t, m)) ELSE None,
                 ![h].result = IF kind = "outcomeFirst" THEN "needs_review"
                                                        ELSE "matched_member"]
        PROVE  SafeInv'
    <3> DEFINE e == IF kind = "payMeal" THEN Soonest(Payable(t, m)) ELSE None
    <3> DEFINE res == IF kind = "outcomeFirst" THEN "needs_review" ELSE "matched_member"
    <3>1. m \in Members
      BY PaymentsAssumption DEF Found, PaymentRecord, TypeInv, TypeOK
    <3>2. kind = "payMeal" => e \in Payable(t, m)
      BY <2>6, <3>1, SoonestIsPayable
    <3>3. /\ res \in {"needs_review", "matched_member"}
          /\ kind = "outcomeFirst" <=> res = "needs_review"
      OBVIOUS
    <3>4. req' = [req EXCEPT ![h].pc = kind, ![h].member = m, ![h].meal = e,
                             ![h].result = res]
      BY <2>6
    <3> HIDE DEF e, res
    <3>5. QED
      BY <2>5, <2>6, <3>2, <3>3, <3>4
  <2>7. ASSUME NEW m \in Found(t, req[h].known),
               LET meals == Payable(t, m)
                   kind == IF IsAppFee(t)
                           THEN IF m \in Recruits /\ fee[m].status = "pending"
                                THEN "payFee" ELSE "notify"
                           ELSE IF meals # {} THEN "payMeal"
                           ELSE IF LooksLikeMeal(t, m) THEN "outcomeFirst"
                           ELSE "notify"
               IN req' = [req EXCEPT
                    ![h].pc = kind, ![h].member = m,
                    ![h].meal = IF kind = "payMeal" THEN Soonest(meals) ELSE None,
                    ![h].result = IF kind = "outcomeFirst" THEN "needs_review"
                                                           ELSE "matched_member"]
        PROVE  SafeInv'
    <3> DEFINE kind == IF IsAppFee(t)
                       THEN IF m \in Recruits /\ fee[m].status = "pending"
                            THEN "payFee" ELSE "notify"
                       ELSE IF Payable(t, m) # {} THEN "payMeal"
                       ELSE IF LooksLikeMeal(t, m) THEN "outcomeFirst"
                       ELSE "notify"
    <3>1. /\ kind \in {"payFee", "notify", "payMeal", "outcomeFirst"}
          /\ kind = "payFee" => IsAppFee(t) /\ m \in Recruits
          /\ kind = "payMeal" => Payable(t, m) # {}
      OBVIOUS
    <3>2. req' = [req EXCEPT
                 ![h].pc = kind, ![h].member = m,
                 ![h].meal = IF kind = "payMeal" THEN Soonest(Payable(t, m)) ELSE None,
                 ![h].result = IF kind = "outcomeFirst" THEN "needs_review"
                                                        ELSE "matched_member"]
      BY <2>7
    <3> HIDE DEF kind
    <3>3. QED
      BY <2>6, <3>1, <3>2
  <2>8. QED
    BY <1>11, <2>4, <2>7 DEF MatchMember
<1>12. CASE PayFee(h)
  <2>1. PICK m \in Members : m = req[h].member
    BY <1>12 DEF PayFee, At, TypeInv
  <2>2. /\ payment' = payment /\ UNCHANGED <<outcome, meal, notes, told>> /\ Past(h)
        /\ req[h].pc \in {"payCardMember", "payFee"} /\ Goto(h, "notify")
        /\ fee' = [fee EXCEPT ![m] = [status |-> "paid", by |-> @.by \cup {t}]]
    BY <1>12, <2>1 DEF PayFee, Past
  <2>3. StageInv(h, t)
    BY <1>1, <2>2
  <2>4. /\ req'[h].pc = "notify" /\ req'[h].txn = t
        /\ req'[h].result \in {"matched_deck", "matched_member"}
        /\ \A g \in Handlers \ {h} : req'[g] = req[g]
    BY <2>2, <2>3, GotoMoves DEF StageInv, Pcs
  <2>5. fee'[m].by = fee[m].by \cup {t} /\ \A n \in Members \ {m} : fee'[n] = fee[n]
    BY <2>2, <2>3 DEF TypeInv, TypeOK
  <2>6. /\ FeesOf(t)' = FeesOf(t) \cup {m} /\ MealsOf(t)' = MealsOf(t)
        /\ \A u \in Txns \ {t} : Same(u)
    BY <2>2, <2>3, <2>5 DEF FeesOf, MealsOf, Same
  <2>7. FeesOf(t)' = {m} /\ MealsOf(t)' = {} /\ FeeMatches(t, m)
    BY <2>1, <2>2, <2>3, <2>6 DEF StageInv
  <2>8. FeeMatches(t, m)'
    BY <2>2, <2>7 DEF FeeMatches, IsAppFee, Payers
  <2>9. outcome'[t] = "processing" /\ told'[t] = 0 /\ notes'[t] <= 1
    BY <1>1, <2>2, <2>3 DEF StageInv, TxnInv
  <2>10. StageInv(h, t)'
    BY <2>4, <2>9 DEF StageInv, Unsettled, HandedOver
  <2>11. TxnInv(t)'
    BY <2>7, <2>8, <2>9 DEF TxnInv, HandedOver
  <2>12. QED
    BY <2>2, <2>4, <2>6, <2>10, <2>11, OneDisturbed
<1>13. CASE PayMeal(h)
  <2>1. PICK e \in Meals : e = req[h].meal
    BY <1>13 DEF PayMeal, At, TypeInv
  <2>2. /\ payment' = payment /\ UNCHANGED <<outcome, fee, notes, told>> /\ Past(h)
        /\ req[h].pc = "payMeal" /\ Goto(h, "notify")
        /\ meal' = [meal EXCEPT ![e] = @ \cup {t}]
    BY <1>13, <2>1 DEF PayMeal, Past
  <2>3. StageInv(h, t)
    BY <1>1, <2>2
  <2>4. /\ req'[h].pc = "notify" /\ req'[h].txn = t /\ req'[h].result = "matched_member"
        /\ \A g \in Handlers \ {h} : req'[g] = req[g]
    BY <2>2, <2>3, GotoMoves DEF StageInv, Pcs
  <2>5. meal'[e] = meal[e] \cup {t} /\ \A d \in Meals \ {e} : meal'[d] = meal[d]
    BY <2>2, <2>3 DEF TypeInv, TypeOK
  <2>6. /\ MealsOf(t)' = MealsOf(t) \cup {e} /\ FeesOf(t)' = FeesOf(t)
        /\ \A u \in Txns \ {t} : Same(u)
    BY <2>2, <2>3, <2>5 DEF FeesOf, MealsOf, Same
  <2>7. MealsOf(t)' = {e} /\ FeesOf(t)' = {} /\ MealMatches(t, e)
    BY <2>1, <2>2, <2>3, <2>6 DEF StageInv
  <2>8. MealMatches(t, e)'
    BY <2>2, <2>7 DEF MealMatches, AmountCovers, Payers
  <2>9. outcome'[t] = "processing" /\ told'[t] = 0 /\ notes'[t] <= 1
    BY <1>1, <2>2, <2>3 DEF StageInv, TxnInv
  <2>10. StageInv(h, t)'
    BY <2>4, <2>9 DEF StageInv, Unsettled, HandedOver
  <2>11. TxnInv(t)'
    BY <2>7, <2>8, <2>9 DEF TxnInv, HandedOver
  <2>12. QED
    BY <2>2, <2>4, <2>6, <2>10, <2>11, OneDisturbed
<1>14. CASE Notify(h)
  <2>1. /\ payment' = payment /\ UNCHANGED <<outcome, fee, meal, notes>> /\ Past(h)
        /\ \/ req[h].pc = "notify" /\ Goto(h, "outcome")
           \/ req[h].pc = "notifyLast" /\ Goto(h, "idle")
        /\ told' = [told EXCEPT ![t] = @ + 1] \/ UNCHANGED told
    BY <1>14 DEF Notify, Past
  <2>2. StageInv(h, t)
    BY <1>1, <2>1
  <2>3. /\ req'[h].txn = t /\ req'[h].result = req[h].result
        /\ req'[h].pc = IF req[h].pc = "notify" THEN "outcome" ELSE "idle"
        /\ \A g \in Handlers \ {h} : req'[g] = req[g]
    BY <2>1, GotoMoves DEF Pcs
  <2>4. told'[t] <= 1 /\ \A u \in Txns \ {t} : Same(u)
    BY <1>3, <2>1, <2>2 DEF StageInv, Same, TypeInv, TypeOK
  <2>5. Past(h)' => StageInv(h, t)'
    BY <1>3, <2>1, <2>2, <2>3 DEF StageInv, Past, Untouched
  <2>6. TxnInv(t)'
    BY <1>1, <1>3, <2>1, <2>2, <2>4
       DEF TxnInv, StageInv, Untouched, FeeMatches, MealMatches, Payers, IsAppFee, AmountCovers
  <2>7. QED
    BY <2>1, <2>3, <2>4, <2>5, <2>6, OneDisturbed
<1>15. CASE SetOutcome(h)
  <2>1. /\ payment' = payment /\ UNCHANGED effectVars /\ Past(h)
        /\ \/ req[h].pc = "outcome" /\ Goto(h, "idle")
           \/ req[h].pc = "outcomeFirst" /\ Goto(h, "notifyLast")
        /\ outcome' = [outcome EXCEPT ![t] = req[h].result] \/ UNCHANGED outcome
    BY <1>15 DEF SetOutcome, Past
  <2>2. StageInv(h, t)
    BY <1>1, <2>1
  <2>3. /\ req'[h].txn = t
        /\ req'[h].pc = IF req[h].pc = "outcome" THEN "idle" ELSE "notifyLast"
        /\ \A g \in Handlers \ {h} : req'[g] = req[g]
    BY <2>1, GotoMoves DEF Pcs
  <2>4. /\ outcome'[t] = req[h].result \/ outcome'[t] = outcome[t]
        /\ \A u \in Txns \ {t} : Same(u)
    BY <1>3, <2>1 DEF Same, TypeInv, TypeOK
  <2>5. outcome'[t] # "absent" /\ (outcome'[t] \in HandedOver => Untouched(t))
    BY <2>1, <2>2, <2>4 DEF StageInv, Unsettled, Untouched, HandedOver
  <2>6. Past(h)' => StageInv(h, t)'
    BY <1>3, <2>1, <2>2, <2>3, <2>5 DEF StageInv, Past
  <2>7. TxnInv(t)'
    BY <1>1, <1>3, <2>1, <2>5
       DEF TxnInv, Untouched, FeeMatches, MealMatches, Payers, IsAppFee, AmountCovers
  <2>8. QED
    BY <2>1, <2>3, <2>4, <2>6, <2>7, OneDisturbed
<1>16. CASE DatabaseFails(h)
  <2>1. /\ payment' = payment /\ UNCHANGED effectVars /\ UNCHANGED outcome
        /\ Goto(h, "idle")
    BY <1>16 DEF DatabaseFails
  <2>2. \A g \in Handlers : req'[g] = req[g] \/ ~Past(g)'
    BY <2>1, GotoMoves DEF Pcs, Past
  <2>3. QED
    BY <1>2, <2>1, <2>2, NoneDisturbed
<1>17. QED
  BY <1>5, <1>6, <1>7, <1>8, <1>9, <1>10, <1>11, <1>12, <1>13, <1>14, <1>15, <1>16 DEF Step

LEMMA SafeInit == Init => SafeInv
BY DEF Init, SafeInv, Past, Idle, TxnInv, Untouched, FeesOf, MealsOf, HandedOver

LEMMA SafeStep == TypeInv /\ TypeInv' /\ SafeInv /\ [Next]_vars => SafeInv'
<1> SUFFICES ASSUME TypeInv, TypeInv', SafeInv, [Next]_vars PROVE SafeInv'
  OBVIOUS
<1> USE DEF effectVars
<1>1. UNCHANGED effectVars /\ UNCHANGED outcome => \A u \in Txns : Same(u)
  BY DEF Same, FeesOf, MealsOf
<1>2. ASSUME NEW h \in Handlers, Step(h) PROVE SafeInv'
  <2>1. PICK t \in Txns : req[h].txn = t
    BY DEF TypeInv, TypeOK, Deliveries
  <2>2. QED
    BY <1>2, <2>1, SafeOfStep
<1>3. ASSUME NEW h \in Handlers, NEW t \in Txns, Deliver(h, t) PROVE SafeInv'
  <2>1. \A g \in Handlers : req'[g] = req[g] \/ ~Past(g)'
    BY <1>3 DEF Deliver, Past, Idle, TypeInv, TypeOK
  <2>2. QED
    BY <1>1, <1>3, <2>1, NoneDisturbed DEF Deliver
<1>4. CASE Crash
  <2>1. \A g \in Handlers : req'[g] = req[g] \/ ~Past(g)'
    BY <1>4 DEF Crash, Past, Idle
  <2>2. QED
    BY <1>1, <1>4, <2>1, NoneDisturbed DEF Crash
<1>5. CASE UNCHANGED vars
  BY <1>1, <1>5, NoneDisturbed DEF vars
<1>6. QED
  BY <1>2, <1>3, <1>4, <1>5 DEF Next

THEOREM SafeCorrect == Spec => [](TypeInv /\ SafeInv)
BY TypeInit, TypeStep, SafeInit, SafeStep, PTL DEF Spec

\* What the invariant says of a payment is what the properties state: a payment
\* that settles one fee or one meal at most has its effects once,
LEMMA OnceOfSafe == TypeInv /\ SafeInv => SideEffectsOnce
<1> SUFFICES ASSUME TypeInv, SafeInv, NEW t \in Txns
             PROVE  /\ notes[t] <= 1 /\ told[t] <= 1
                    /\ Cardinality(FeesOf(t)) + Cardinality(MealsOf(t)) <= 1
  BY DEF SideEffectsOnce
<1>1. TxnInv(t)
  BY DEF SafeInv
<1>2. ASSUME NEW S, \A x, y \in S : x = y PROVE S = {} \/ Cardinality(S) = 1
  <2>1. ASSUME NEW x \in S PROVE Cardinality(S) = 1
    <3>1. S = {x}
      BY <1>2
    <3>2. QED
      BY <3>1, FS_Singleton
  <2>2. QED
    BY <2>1
<1>3. FeesOf(t) = {} \/ Cardinality(FeesOf(t)) = 1
  BY <1>1, <1>2 DEF TxnInv
<1>4. MealsOf(t) = {} \/ Cardinality(MealsOf(t)) = 1
  BY <1>1, <1>2 DEF TxnInv
<1>5. Cardinality({}) = 0
  BY FS_EmptySet
<1>6. QED
  BY <1>1, <1>3, <1>4, <1>5 DEF TxnInv

\* it settles what it paid for,
LEMMA CreditsOfSafe == SafeInv => CreditsMatchPayments
BY DEF SafeInv, TxnInv, CreditsMatchPayments, FeeMatches, MealMatches, Payers, IsAppFee,
       AmountCovers

\* and one that was handed over has settled nothing.
LEMMA AuditOfSafe == SafeInv => AuditTruthful
BY DEF SafeInv, TxnInv, AuditTruthful, Untouched, HandedOver

\* However often a payment is delivered, it has its effects once.
THEOREM SideEffectsOnceCorrect == Spec => []SideEffectsOnce
BY SafeCorrect, OnceOfSafe, PTL

\* Every fee and every meal that is marked paid was paid for.
THEOREM CreditsMatchPaymentsCorrect == Spec => []CreditsMatchPayments
BY SafeCorrect, CreditsOfSafe, PTL

\* The audit row never denies what a payment has settled.
THEOREM AuditTruthfulCorrect == Spec => []AuditTruthful
BY SafeCorrect, AuditOfSafe, PTL

-----------------------------------------------------------------------------
(***************************************************************************)
(* Traces: with one failure at most, a payment that was recorded is being  *)
(* handled or it is known what became of it.                               *)
(***************************************************************************)
\* A handler has told S1 and S4, or written the outcome first, unless that was
\* the failure.
TracedInv ==
  /\ \A h \in Handlers, t \in Txns : req[h].txn = t =>
       /\ req[h].pc = "outcome" /\ payment[t].usd => told[t] > 0 \/ faults >= 1
       /\ req[h].pc = "notifyLast" => outcome[t] \notin Unsettled \/ faults >= 1
  /\ PaymentsTraced

\* What a payment has left behind stays.
Keeps(t) ==
  /\ told[t] > 0 => told'[t] > 0
  /\ outcome[t] \notin Unsettled => outcome'[t] \notin Unsettled
  /\ Traced(t) => Traced(t)'

LEMMA SameKeeps ==
  ASSUME NEW t \in Txns, Same(t)
  PROVE  Keeps(t)
BY DEF Same, Keeps, Traced, FeesOf, MealsOf

\* A handler that goes on, or ends and leaves a trace, loses no payment.
LEMMA OneTraced ==
  ASSUME TracedInv, NEW h \in Handlers, NEW t \in Txns, req[h].txn = t, req'[h].txn = t,
         payment' = payment, \A g \in Handlers \ {h} : req'[g] = req[g],
         \A u \in Txns \ {t} : Same(u), Keeps(t),
         dropped \subseteq dropped', faults \in Nat, faults' \in Nat, faults <= faults',
         req'[h].pc = "outcome" /\ payment[t].usd => told'[t] > 0 \/ faults' >= 1,
         req'[h].pc = "notifyLast" => outcome'[t] \notin Unsettled \/ faults' >= 1,
         \/ Past(h)' \/ t \in dropped' \/ (payment[t].usd => Traced(t)')
         \/ ~Past(h) /\ outcome'[t] = outcome[t]
  PROVE  TracedInv'
<1>1. \A u \in Txns : Keeps(u)
  BY SameKeeps
<1>2. \A g \in Handlers \ {h} : Past(g)' <=> Past(g)
  BY DEF Past
<1>3. \A u \in Txns : InHand(u)' <=> \E g \in Handlers : Past(g)' /\ req'[g].txn = u
  BY DEF InHand, At, Past
<1>4. \A u \in Txns : InHand(u) <=> \E g \in Handlers : Past(g) /\ req[g].txn = u
  BY DEF InHand, At, Past
<1>5. ASSUME NEW u \in Txns, outcome'[u] # "absent", payment[u].usd
      PROVE  InHand(u)' \/ Traced(u)' \/ u \in dropped'
  <2>1. CASE u # t
    <3>1. outcome[u] # "absent"
      BY <1>5, <2>1 DEF Same
    <3>2. InHand(u) \/ Traced(u) \/ u \in dropped
      BY <1>5, <3>1 DEF TracedInv, PaymentsTraced
    <3>3. InHand(u) => InHand(u)'
      BY <1>2, <1>3, <1>4, <2>1
    <3>4. QED
      BY <1>1, <3>2, <3>3 DEF Keeps
  <2>2. CASE u = t
    <3>1. CASE Past(h)' \/ t \in dropped' \/ (payment[t].usd => Traced(t)')
      BY <1>3, <1>5, <2>2, <3>1
    <3>2. CASE ~Past(h) /\ outcome'[t] = outcome[t]
      <4>1. InHand(t) \/ Traced(t) \/ t \in dropped
        BY <1>5, <2>2, <3>2 DEF TracedInv, PaymentsTraced
      <4>2. InHand(t) => InHand(t)'
        BY <1>2, <1>3, <1>4, <3>2
      <4>3. QED
        BY <1>1, <2>2, <4>1, <4>2 DEF Keeps
    <3>3. QED
      BY <3>1, <3>2
  <2>3. QED
    BY <2>1, <2>2
<1>6. PaymentsTraced'
  BY <1>5 DEF PaymentsTraced
<1>7. ASSUME NEW g \in Handlers, NEW u \in Txns, req'[g].txn = u
      PROVE  /\ req'[g].pc = "outcome" /\ payment'[u].usd => told'[u] > 0 \/ faults' >= 1
             /\ req'[g].pc = "notifyLast" => outcome'[u] \notin Unsettled \/ faults' >= 1
  <2>1. CASE g = h
    BY <1>7, <2>1
  <2>2. CASE g # h
    <3>1. req'[g] = req[g] /\ req[g].txn = u
      BY <1>7, <2>2
    <3>2. /\ req[g].pc = "outcome" /\ payment[u].usd => told[u] > 0 \/ faults >= 1
          /\ req[g].pc = "notifyLast" => outcome[u] \notin Unsettled \/ faults >= 1
      BY <3>1 DEF TracedInv
    <3>3. faults >= 1 => faults' >= 1
      OBVIOUS
    <3>4. QED
      BY <1>1, <3>1, <3>2, <3>3 DEF Keeps
  <2>3. QED
    BY <2>1, <2>2
<1>8. QED
  BY <1>6, <1>7 DEF TracedInv

\* The steps of a handler lose no payment: the two calls that are guarded, the
\* notification and the outcome, do not both fail.
LEMMA TracedOfStep ==
  ASSUME MaxFaults <= 1, TypeInv, TypeInv', SafeInv, TracedInv,
         NEW h \in Handlers, NEW t \in Txns, req[h].txn = t, Step(h)
  PROVE  TracedInv'
<1> USE DEF At, effectVars, NoFault
<1>1. /\ Past(h) => StageInv(h, t)
      /\ req[h].pc = "outcome" /\ payment[t].usd => told[t] > 0 \/ faults >= 1
      /\ req[h].pc = "notifyLast" => outcome[t] \notin Unsettled \/ faults >= 1
  BY DEF SafeInv, TracedInv
<1>2. UNCHANGED effectVars /\ UNCHANGED outcome => \A u \in Txns : Same(u) /\ Keeps(u)
  BY SameKeeps DEF Same, FeesOf, MealsOf
<1>3. UNCHANGED <<fee, meal>> => \A u \in Txns : FeesOf(u)' = FeesOf(u) /\ MealsOf(u)' = MealsOf(u)
  BY DEF FeesOf, MealsOf
<1>4. req \in [Handlers -> Deliveries] /\ req[h] \in Deliveries
  BY DEF TypeInv, TypeOK
<1>5. faults \in Nat /\ faults' \in Nat
  BY BoundsAssumption DEF TypeInv, TypeOK
<1>6. \A k : Fault(k) => faults = 0 /\ faults' = 1
  BY <1>5, BoundsAssumption DEF Fault
<1>7. CASE InsertRow(h)
  <2>1. payment' = payment /\ UNCHANGED <<effectVars, dropped, faults>> /\ ~Past(h)
    BY <1>7 DEF InsertRow, Past
  <2>2. CASE outcome[t] = "absent"
    <3>1. Goto(h, "payer") /\ outcome' = [outcome EXCEPT ![t] = "processing"]
      BY <1>7, <2>2 DEF InsertRow
    <3>2. /\ req'[h].pc = "payer" /\ req'[h].txn = t
          /\ \A g \in Handlers \ {h} : req'[g] = req[g]
      BY <3>1, GotoMoves DEF Pcs
    <3>3. \A u \in Txns \ {t} : Same(u)
      BY <2>1, <3>1, <1>3 DEF Same, TypeInv, TypeOK
    <3>4. Keeps(t)
      BY <1>3, <2>1, <2>2 DEF Keeps, Traced, Unsettled
    <3>5. Past(h)'
      BY <3>2 DEF Past
    <3>6. QED
      BY <1>5, <2>1, <3>2, <3>3, <3>4, <3>5, OneTraced
  <2>3. CASE outcome[t] # "absent"
    <3>1. Goto(h, "idle") /\ UNCHANGED outcome
      BY <1>7, <2>3 DEF InsertRow
    <3>2. /\ req'[h].pc = "idle" /\ req'[h].txn = t
          /\ \A g \in Handlers \ {h} : req'[g] = req[g]
      BY <3>1, GotoMoves DEF Pcs
    <3>3. QED
      BY <1>2, <1>5, <2>1, <3>1, <3>2, OneTraced
  <2>4. QED
    BY <2>2, <2>3
<1>8. CASE FindPayer(h)
  <2>1. /\ payment' = payment /\ UNCHANGED <<effectVars, outcome, dropped>>
        /\ faults <= faults'
    BY <1>5, <1>6, <1>8 DEF FindPayer
  <2>2. PICK known \in BOOLEAN :
          req' = [req EXCEPT
            ![h].known = known,
            ![h].result = IF payment[t].usd THEN "absent" ELSE "ignored_currency",
            ![h].pc = IF ~payment[t].usd THEN "outcome"
                      ELSE IF IsAppFee(t) THEN "board" ELSE "members"]
    BY <1>8 DEF FindPayer
  <2>3. /\ req'[h].txn = t /\ \A g \in Handlers \ {h} : req'[g] = req[g]
        /\ \/ ~payment[t].usd /\ req'[h].pc = "outcome"
           \/ req'[h].pc \in {"board", "members"}
    BY <1>4, <2>2 DEF Deliveries
  <2>4. Past(h)'
    BY <2>3 DEF Past
  <2>5. QED
    BY <1>2, <1>5, <2>1, <2>3, <2>4, OneTraced
<1>9. CASE SearchBoard(h)
  <2>1. payment' = payment /\ UNCHANGED <<effectVars, outcome, dropped, faults>>
    BY <1>9 DEF SearchBoard
  <2>2. /\ req'[h].txn = t /\ \A g \in Handlers \ {h} : req'[g] = req[g]
        /\ req'[h].pc \in {"members", "notify", "annotate"}
    <3>1. CASE Goto(h, "members")
      BY <3>1, GotoMoves DEF Pcs
    <3>2. ASSUME NEW c \in payment[t].cards \cup payment[t].namedCards,
                 req' = [req EXCEPT
                   ![h].card = c,
                   ![h].result = IF c \in payment[t].cards THEN "matched_deck"
                                                           ELSE "needs_review",
                   ![h].pc = IF c \in payment[t].cards THEN "annotate" ELSE "notify"]
          PROVE  <2>2!:
      BY <1>4, <3>2 DEF Deliveries
    <3>3. QED
      BY <1>9, <3>1, <3>2 DEF SearchBoard
  <2>3. Past(h)'
    BY <2>2 DEF Past
  <2>4. QED
    BY <1>2, <1>5, <2>1, <2>2, <2>3, OneTraced
<1>10. CASE BoardFails(h)
  <2>1. /\ payment' = payment /\ UNCHANGED <<effectVars, outcome, dropped>>
        /\ faults <= faults' /\ Goto(h, "members")
    BY <1>5, <1>6, <1>10 DEF BoardFails
  <2>2. /\ req'[h].pc = "members" /\ req'[h].txn = t
        /\ \A g \in Handlers \ {h} : req'[g] = req[g]
    BY <2>1, GotoMoves DEF Pcs
  <2>3. Past(h)'
    BY <2>2 DEF Past
  <2>4. QED
    BY <1>2, <1>5, <2>1, <2>2, <2>3, OneTraced
<1>11. CASE Annotate(h)
  <2>1. /\ payment' = payment /\ UNCHANGED <<fee, meal, told, outcome, dropped>>
        /\ faults <= faults' /\ Goto(h, "cardMember")
        /\ notes' = [notes EXCEPT ![t] = @ + 1] \/ UNCHANGED notes
    BY <1>5, <1>6, <1>11 DEF Annotate
  <2>2. /\ req'[h].pc = "cardMember" /\ req'[h].txn = t
        /\ \A g \in Handlers \ {h} : req'[g] = req[g]
    BY <2>1, GotoMoves DEF Pcs
  <2>3. /\ \A u \in Txns \ {t} : Same(u)
        /\ notes[t] > 0 => notes'[t] > 0
    BY <1>3, <2>1 DEF Same, TypeInv, TypeOK
  <2>4. Keeps(t)
    BY <1>3, <2>1, <2>3 DEF Keeps, Traced
  <2>5. Past(h)'
    BY <2>2 DEF Past
  <2>6. QED
    BY <1>5, <2>1, <2>2, <2>3, <2>4, <2>5, OneTraced
<1>12. CASE ReadCardMember(h)
  <2>1. /\ payment' = payment /\ UNCHANGED <<effectVars, outcome, faults>> /\ Past(h)
        /\ dropped \subseteq dropped'
    BY <1>12 DEF ReadCardMember, CutShort, Past
  <2>2. CASE Goto(h, "idle") /\ CutShort({h})
    <3>1. /\ req'[h].pc = "idle" /\ req'[h].txn = t
          /\ \A g \in Handlers \ {h} : req'[g] = req[g]
      BY <2>2, GotoMoves DEF Pcs
    <3>2. t \in dropped'
      BY <2>1, <2>2 DEF CutShort, Past
    <3>3. QED
      BY <1>2, <1>5, <2>1, <3>1, <3>2, OneTraced
  <2>3. CASE Goto(h, "notify")
    <3>1. /\ req'[h].pc = "notify" /\ req'[h].txn = t
          /\ \A g \in Handlers \ {h} : req'[g] = req[g]
      BY <2>3, GotoMoves DEF Pcs
    <3>2. Past(h)'
      BY <3>1 DEF Past
    <3>3. QED
      BY <1>2, <1>5, <2>1, <3>1, <3>2, OneTraced
  <2>4. ASSUME NEW m \in Namesakes[req[h].card],
               req' = [req EXCEPT ![h].pc = "payCardMember", ![h].member = m]
        PROVE  TracedInv'
    <3>1. /\ req'[h].pc = "payCardMember" /\ req'[h].txn = t
          /\ \A g \in Handlers \ {h} : req'[g] = req[g]
      BY <1>4, <2>4 DEF Deliveries
    <3>2. Past(h)'
      BY <3>1 DEF Past
    <3>3. QED
      BY <1>2, <1>5, <2>1, <3>1, <3>2, OneTraced
  <2>5. QED
    BY <1>12, <2>2, <2>3, <2>4 DEF ReadCardMember
<1>13. CASE MatchMember(h)
  <2>1. payment' = payment /\ UNCHANGED <<effectVars, outcome, dropped, faults>>
    BY <1>13 DEF MatchMember
  <2>2. ASSUME req'[h].txn = t, \A g \in Handlers \ {h} : req'[g] = req[g],
               req'[h].pc \in {"payFee", "notify", "payMeal", "outcomeFirst"}
        PROVE  TracedInv'
    <3>1. Past(h)'
      BY <2>2 DEF Past
    <3>2. QED
      BY <1>2, <1>5, <2>1, <2>2, <3>1, OneTraced
  <2>3. CASE Finish(h, "notify", "unmatched")
    <3>1. /\ req'[h].pc = "notify" /\ req'[h].txn = t
          /\ \A g \in Handlers \ {h} : req'[g] = req[g]
      BY <1>4, <2>3 DEF Finish, Deliveries
    <3>2. QED
      BY <2>2, <3>1
  <2>4. ASSUME NEW m, NEW kind \in {"payFee", "notify", "payMeal", "outcomeFirst"},
               NEW e, NEW res,
               req' = [req EXCEPT ![h].pc = kind, ![h].member = m, ![h].meal = e,
                                  ![h].result = res]
        PROVE  TracedInv'
    <3>1. /\ req'[h].pc = kind /\ req'[h].txn = t
          /\ \A g \in Handlers \ {h} : req'[g] = req[g]
      BY <1>4, <2>4 DEF Deliveries
    <3>2. QED
      BY <2>2, <3>1
  <2>5. ASSUME NEW m \in Found(t, req[h].known),
               LET meals == Payable(t, m)
                   kind == IF IsAppFee(t)
                           THEN IF m \in Recruits /\ fee[m].status = "pending"
                                THEN "payFee" ELSE "notify"
                           ELSE IF meals # {} THEN "payMeal"
                           ELSE IF LooksLikeMeal(t, m) THEN "outcomeFirst"
                           ELSE "notify"
               IN req' = [req EXCEPT
                    ![h].pc = kind, ![h].member = m,
                    ![h].meal = IF kind = "payMeal" THEN Soonest(meals) ELSE None,
                    ![h].result = IF kind = "outcomeFirst" THEN "needs_review"
                                                           ELSE "matched_member"]
        PROVE  TracedInv'
    <3> DEFINE kind == IF IsAppFee(t)
                       THEN IF m \in Recruits /\ fee[m].status = "pending"
                            THEN "payFee" ELSE "notify"
                       ELSE IF Payable(t, m) # {} THEN "payMeal"
                       ELSE IF LooksLikeMeal(t, m) THEN "outcomeFirst"
                       ELSE "notify"
    <3> DEFINE e == IF kind = "payMeal" THEN Soonest(Payable(t, m)) ELSE None
    <3> DEFINE res == IF kind = "outcomeFirst" THEN "needs_review" ELSE "matched_member"
    <3>1. kind \in {"payFee", "notify", "payMeal", "outcomeFirst"}
      OBVIOUS
    <3>2. req' = [req EXCEPT ![h].pc = kind, ![h].member = m, ![h].meal = e,
                             ![h].result = res]
      BY <2>5
    <3> HIDE DEF kind, e, res
    <3>3. QED
      BY <2>4, <3>1, <3>2
  <2>6. QED
    BY <1>13, <2>3, <2>5 DEF MatchMember
<1>14. CASE PayFee(h)
  <2>1. PICK m \in Members : m = req[h].member
    BY <1>14 DEF PayFee, TypeInv
  <2>2. /\ payment' = payment /\ UNCHANGED <<outcome, meal, notes, told, dropped, faults>>
        /\ Goto(h, "notify")
        /\ fee' = [fee EXCEPT ![m] = [status |-> "paid", by |-> @.by \cup {t}]]
    BY <1>14, <2>1 DEF PayFee
  <2>3. /\ req'[h].pc = "notify" /\ req'[h].txn = t
        /\ \A g \in Handlers \ {h} : req'[g] = req[g]
    BY <2>2, GotoMoves DEF Pcs
  <2>4. fee'[m].by = fee[m].by \cup {t} /\ \A n \in Members \ {m} : fee'[n] = fee[n]
    BY <2>2 DEF TypeInv, TypeOK
  <2>5. /\ FeesOf(t)' = FeesOf(t) \cup {m} /\ MealsOf(t)' = MealsOf(t)
        /\ \A u \in Txns \ {t} : Same(u)
    BY <2>2, <2>4 DEF FeesOf, MealsOf, Same
  <2>6. Keeps(t)
    BY <2>2, <2>5 DEF Keeps, Traced
  <2>7. Past(h)'
    BY <2>3 DEF Past
  <2>8. QED
    BY <1>5, <2>2, <2>3, <2>5, <2>6, <2>7, OneTraced
<1>15. CASE PayMeal(h)
  <2>1. PICK e \in Meals : e = req[h].meal
    BY <1>15 DEF PayMeal, TypeInv
  <2>2. /\ payment' = payment /\ UNCHANGED <<outcome, fee, notes, told, dropped, faults>>
        /\ Goto(h, "notify")
        /\ meal' = [meal EXCEPT ![e] = @ \cup {t}]
    BY <1>15, <2>1 DEF PayMeal
  <2>3. /\ req'[h].pc = "notify" /\ req'[h].txn = t
        /\ \A g \in Handlers \ {h} : req'[g] = req[g]
    BY <2>2, GotoMoves DEF Pcs
  <2>4. meal'[e] = meal[e] \cup {t} /\ \A d \in Meals \ {e} : meal'[d] = meal[d]
    BY <2>2 DEF TypeInv, TypeOK
  <2>5. /\ MealsOf(t)' = MealsOf(t) \cup {e} /\ FeesOf(t)' = FeesOf(t)
        /\ \A u \in Txns \ {t} : Same(u)
    BY <2>2, <2>4 DEF FeesOf, MealsOf, Same
  <2>6. Keeps(t)
    BY <2>2, <2>5 DEF Keeps, Traced
  <2>7. Past(h)'
    BY <2>3 DEF Past
  <2>8. QED
    BY <1>5, <2>2, <2>3, <2>5, <2>6, <2>7, OneTraced
<1>16. CASE Notify(h)
  <2>1. /\ payment' = payment /\ UNCHANGED <<outcome, fee, meal, notes, dropped>>
        /\ \/ req[h].pc = "notify" /\ Goto(h, "outcome")
           \/ req[h].pc = "notifyLast" /\ Goto(h, "idle")
        /\ \/ told' = [told EXCEPT ![t] = @ + 1] /\ faults' = faults
           \/ UNCHANGED told /\ faults = 0 /\ faults' = 1
    BY <1>6, <1>16 DEF Notify
  <2>2. /\ req'[h].txn = t
        /\ req'[h].pc = IF req[h].pc = "notify" THEN "outcome" ELSE "idle"
        /\ \A g \in Handlers \ {h} : req'[g] = req[g]
    BY <2>1, GotoMoves DEF Pcs
  <2>3. /\ \A u \in Txns \ {t} : Same(u)
        /\ told'[t] > 0 \/ (told'[t] = told[t] /\ faults = 0 /\ faults' = 1)
    BY <1>3, <2>1 DEF Same, TypeInv, TypeOK
  <2>4. Keeps(t)
    BY <1>3, <2>1, <2>3 DEF Keeps, Traced
  <2>5. Past(h)' \/ Traced(t)'
    BY <1>1, <2>1, <2>2, <2>3 DEF Past, Traced
  <2>6. faults <= faults' /\ (told'[t] > 0 \/ faults' >= 1) /\ req'[h].pc # "notifyLast"
    BY <1>5, <2>1, <2>2, <2>3
  <2>7. QED
    BY <1>5, <2>1, <2>2, <2>3, <2>4, <2>5, <2>6, OneTraced
<1>17. CASE SetOutcome(h)
  <2>1. /\ payment' = payment /\ UNCHANGED effectVars /\ UNCHANGED dropped /\ Past(h)
        /\ \/ req[h].pc = "outcome" /\ Goto(h, "idle")
           \/ req[h].pc = "outcomeFirst" /\ Goto(h, "notifyLast")
        /\ \/ outcome' = [outcome EXCEPT ![t] = req[h].result] /\ faults' = faults
           \/ UNCHANGED outcome /\ faults = 0 /\ faults' = 1
    BY <1>6, <1>17 DEF SetOutcome, Past
  <2>2. /\ req'[h].txn = t
        /\ req'[h].pc = IF req[h].pc = "outcome" THEN "idle" ELSE "notifyLast"
        /\ \A g \in Handlers \ {h} : req'[g] = req[g]
    BY <2>1, GotoMoves DEF Pcs
  <2>3. req[h].result \notin Unsettled
    BY <1>1, <2>1 DEF StageInv
  <2>4. /\ \A u \in Txns \ {t} : Same(u)
        /\ \/ outcome'[t] \notin Unsettled
           \/ outcome'[t] = outcome[t] /\ faults = 0 /\ faults' = 1
    BY <1>3, <2>1, <2>3 DEF Same, TypeInv, TypeOK
  <2>5. Keeps(t)
    BY <1>3, <2>1, <2>4 DEF Keeps, Traced
  <2>6. Past(h)' \/ (payment[t].usd => Traced(t)')
    BY <1>1, <2>1, <2>2, <2>4 DEF Past, Traced
  <2>7. faults <= faults' /\ (outcome'[t] \notin Unsettled \/ faults' >= 1)
        /\ req'[h].pc # "outcome"
    BY <1>5, <2>1, <2>2, <2>4
  <2>8. QED
    BY <1>5, <2>1, <2>2, <2>4, <2>5, <2>6, <2>7, OneTraced
<1>18. CASE DatabaseFails(h)
  <2>1. /\ payment' = payment /\ UNCHANGED effectVars /\ UNCHANGED outcome
        /\ faults <= faults' /\ Goto(h, "idle") /\ CutShort({h})
    BY <1>5, <1>6, <1>18 DEF DatabaseFails
  <2>2. /\ req'[h].pc = "idle" /\ req'[h].txn = t
        /\ \A g \in Handlers \ {h} : req'[g] = req[g]
    BY <2>1, GotoMoves DEF Pcs
  <2>3. dropped \subseteq dropped' /\ (Past(h) => t \in dropped')
    BY <2>1 DEF CutShort, Past
  <2>4. QED
    BY <1>2, <1>5, <2>1, <2>2, <2>3, OneTraced
<1>19. QED
  BY <1>7, <1>8, <1>9, <1>10, <1>11, <1>12, <1>13, <1>14, <1>15, <1>16, <1>17, <1>18 DEF Step

LEMMA TracedInit == Init => TracedInv
BY DEF Init, TracedInv, PaymentsTraced, Idle

LEMMA TracedStep ==
  MaxFaults <= 1 /\ TypeInv /\ TypeInv' /\ SafeInv /\ TracedInv /\ [Next]_vars => TracedInv'
<1> SUFFICES ASSUME MaxFaults <= 1, TypeInv, TypeInv', SafeInv, TracedInv, [Next]_vars
             PROVE  TracedInv'
  OBVIOUS
<1> USE DEF effectVars
<1>1. UNCHANGED effectVars /\ UNCHANGED outcome => \A u \in Txns : Same(u) /\ Keeps(u)
  BY SameKeeps DEF Same, FeesOf, MealsOf
<1>2. ASSUME NEW h \in Handlers, Step(h) PROVE TracedInv'
  <2>1. PICK t \in Txns : req[h].txn = t
    BY DEF TypeInv, TypeOK, Deliveries
  <2>2. QED
    BY <1>2, <2>1, TracedOfStep
<1>3. ASSUME UNCHANGED <<payment, effectVars, outcome>>, faults' = faults,
             dropped \subseteq dropped',
             \A g \in Handlers : \/ req'[g] = req[g]
                                 \/ /\ ~Past(g)'
                                    /\ Past(g) => req[g].txn \in dropped'
      PROVE  TracedInv'
  <2>1. \A u \in Txns : InHand(u) => InHand(u)' \/ u \in dropped'
    BY <1>3 DEF InHand, At, Past
  <2>2. \A u \in Txns : outcome'[u] = outcome[u] /\ told'[u] = told[u] /\ (Traced(u) => Traced(u)')
    BY <1>1, <1>3 DEF Keeps
  <2>3. PaymentsTraced'
    BY <1>3, <2>1, <2>2 DEF TracedInv, PaymentsTraced
  <2>4. \A g \in Handlers : req'[g].pc \in {"outcome", "notifyLast"} => req'[g] = req[g]
    BY <1>3 DEF Past
  <2>5. QED
    BY <1>3, <2>2, <2>3, <2>4 DEF TracedInv
<1>4. ASSUME NEW h \in Handlers, NEW t \in Txns, Deliver(h, t) PROVE TracedInv'
  <2>1. \A g \in Handlers : req'[g] = req[g] \/ (~Past(g)' /\ ~Past(g))
    BY <1>4 DEF Deliver, Past, Idle, At, TypeInv, TypeOK
  <2>2. QED
    BY <1>3, <1>4, <2>1 DEF Deliver
<1>5. CASE Crash
  <2>1. \A g \in Handlers : ~Past(g)' /\ (Past(g) => req[g].txn \in dropped')
    BY <1>5 DEF Crash, Past, Idle, CutShort
  <2>2. QED
    BY <1>3, <1>5, <2>1 DEF Crash, CutShort
<1>6. CASE UNCHANGED vars
  BY <1>3, <1>6 DEF vars
<1>7. QED
  BY <1>2, <1>4, <1>5, <1>6 DEF Next

\* A payment that is recorded, and will not be delivered again, is being handled,
\* was cut short or has left a trace, as long as one call fails at most.
THEOREM PaymentsTracedCorrect == MaxFaults <= 1 => (Spec => []PaymentsTraced)
<1>1. MaxFaults <= 1 /\ Init => TypeInv /\ SafeInv /\ TracedInv
  BY TypeInit, SafeInit, TracedInit
<1>2. (MaxFaults <= 1) /\ (TypeInv /\ SafeInv /\ TracedInv) /\ [Next]_vars
        => (TypeInv /\ SafeInv /\ TracedInv)'
  BY TypeStep, SafeStep, TracedStep
<1>3. TypeInv /\ SafeInv /\ TracedInv => PaymentsTraced
  BY DEF TracedInv
<1>4. SUFFICES ASSUME MaxFaults <= 1 PROVE Spec => []PaymentsTraced
  OBVIOUS
<1>5. Init => TypeInv /\ SafeInv /\ TracedInv
  BY <1>1, <1>4
<1>6. (TypeInv /\ SafeInv /\ TracedInv) /\ [Next]_vars => (TypeInv /\ SafeInv /\ TracedInv)'
  BY <1>2, <1>4
<1>7. QED
  BY <1>3, <1>5, <1>6, PTL DEF Spec
-----------------------------------------------------------------------------

LEMMA OnlyPayments == page = "payments" /\ PortalInit => Init
BY DEF PortalInit, BrowserPages

LEMMA OnlyPaymentSteps == page = "payments" /\ [PortalNext]_allVars => [Next]_vars
BY DEF PortalNext, PaymentStep, SupplyStep, NoticeStep, SignInStep, SessionStep, BrowserPages,
       allVars, paymentVars, vars, effectVars

LEMMA PageStays == [PortalNext]_allVars => page' = page
BY DEF PortalNext, PaymentStep, SupplyStep, NoticeStep, SignInStep, SessionStep, SessionFrame,
       allVars

\* Every payment has its effects once, on what it paid for.
THEOREM PaymentsCountOnceCorrect == PortalSpec => []PaymentsCountOnce
<1> DEFINE IInv == page = "payments" => TypeInv /\ SafeInv
<1>1. PortalInit => IInv
  BY OnlyPayments, TypeInit, SafeInit
<1>2. IInv /\ [PortalNext]_allVars => IInv'
  BY OnlyPaymentSteps, PageStays, TypeStep, SafeStep
<1>3. IInv => PaymentsCountOnce
  <2>1. TypeInv => TypeOK
    BY DEF TypeInv
  <2>2. QED
    BY <2>1, OnceOfSafe, CreditsOfSafe DEF PaymentsCountOnce
<1> HIDE DEF IInv
<1>4. QED
  BY <1>1, <1>2, <1>3, PTL DEF PortalSpec

\* No payment is lost without a trace if one call fails at most, and its trace
\* tells what became of it.
THEOREM PaymentsAreAccountedCorrect == MaxFaults <= 1 => (PortalSpec => []PaymentsAreAccounted)
<1> DEFINE IInv == page = "payments" => TypeInv /\ SafeInv /\ TracedInv
<1>1. SUFFICES ASSUME MaxFaults <= 1 PROVE PortalSpec => []PaymentsAreAccounted
  OBVIOUS
<1>2. PortalInit => IInv
  BY OnlyPayments, TypeInit, SafeInit, TracedInit
<1>3. IInv /\ [PortalNext]_allVars => IInv'
  BY <1>1, OnlyPaymentSteps, PageStays, TypeStep, SafeStep, TracedStep
<1>4. IInv => PaymentsAreAccounted
  BY AuditOfSafe DEF TracedInv, PaymentsAreAccounted
<1> HIDE DEF IInv
<1>5. QED
  BY <1>2, <1>3, <1>4, PTL DEF PortalSpec

-----------------------------------------------------------------------------
(***************************************************************************)
(* The S4 desk: DeskInv is inductive (see Logistics).                      *)
(***************************************************************************)
LEMMA OnlySupplies == page = "supplies" /\ PortalInit => Supplies!Init
BY DEF PortalInit, BrowserPages

LEMMA OnlySupplySteps ==
  page = "supplies" /\ [PortalNext]_allVars => [Supplies!Next]_(Supplies!vars)
BY DEF PortalNext, PaymentStep, SupplyStep, NoticeStep, SignInStep, SessionStep, BrowserPages,
       allVars, supplyVars, Supplies!vars

\* What a button makes of a row: its status moves as S4 may move it, and a
\* status that needs a signature is written with one.
LEMMA PressedFacts ==
  ASSUME Supplies!Sound, NEW c \in Cases, NEW old \in Supplies!CaseType,
         NEW sign \in Supplies!Signs \ {"none"},
         NEW op \in DOMAIN Supplies!Shown[Kind[c]],
         NEW new, new = Supplies!Pressed(c, op, old, sign)
  PROVE  /\ op \in Supplies!Buttons /\ new \in Supplies!CaseType
         /\ Kind[c] = "meal" => (new.state = "paid") = (new.by # "none")
         /\ Kind[c] # "meal" => new.by \in {old.by, sign}
         /\ new.state # old.state => new.state # "none"
         /\ Kind[c] \in {"purchase", "donation"} /\ new.state = "approved" =>
              new.by # "none" \/ new.state = old.state
         /\ Kind[c] = "expense" /\ new.state = "reimbursed" => new.by # "none" \/ new.state = old.state
         /\ Kind[c] = "purchase" /\ new.state = "purchased" => old.state \in {"approved", "purchased"}
         /\ new.state = "received" => old.state = "received" \/ Supplies!Arrives(c, op, old, new)
         /\ Supplies!Arrives(c, op, old, new) =>
              \/ Kind[c] = "donation" /\ op = "received"
              \/ Kind[c] = "purchase" /\ op = "advance" /\ old.state = "purchased"
<1> USE DEF Supplies!Sound, Supplies!CaseType, Supplies!Signs, Supplies!States, Supplies!Buttons,
        Supplies!Pressed, Supplies!Shown, Supplies!Arrives
<1>1. CASE Kind[c] = "expense"
  BY <1>1 DEF Supplies!OfExpense
<1>2. CASE Kind[c] = "purchase"
  BY <1>2 DEF Supplies!OfPurchase, Supplies!Advanced
<1>3. CASE Kind[c] = "donation"
  BY <1>3 DEF Supplies!OfDonation
<1>4. CASE Kind[c] = "meal"
  BY <1>4 DEF Supplies!OfMeal
<1>5. QED
  BY <1>1, <1>2, <1>3, <1>4

\* A request begins in a slot of its own, and what it shares with another is crossed.
LEMMA BeginFacts ==
  ASSUME Supplies!Sound, Supplies!TypeInv, NEW request \in Supplies!Requests, Supplies!Begin(request)
  PROVE  \E r \in Supplies!Slots :
           /\ req[r] = Supplies!NoRequest /\ req' = [req EXCEPT ![r] = request]
           /\ crossed \subseteq crossed' /\ begun' \in 0..SupplyRequests
           /\ \A s \in Supplies!Slots \ {r} : request.reads \cap Supplies!Holds(s) \subseteq crossed'
<1>1. PICK r \in Supplies!Slots :
        /\ req[r] = Supplies!NoRequest /\ req' = [req EXCEPT ![r] = request]
        /\ crossed' = crossed \cup (request.reads \cap
                        UNION {Supplies!Holds(q) : q \in Supplies!Slots \ {r}})
  BY DEF Supplies!Begin
<1>2. \A s \in Supplies!Slots \ {r} : request.reads \cap Supplies!Holds(s) \subseteq crossed'
  BY <1>1
<1>3. begun' \in 0..SupplyRequests
  BY DEF Supplies!Begin, Supplies!TypeInv, Supplies!TypeOK, Supplies!Sound
<1>4. QED
  BY <1>1, <1>2, <1>3

LEMMA DeskInit == Supplies!Sound /\ Supplies!Init => Supplies!DeskInv
<1> SUFFICES ASSUME Supplies!Sound, Supplies!Init PROVE Supplies!DeskInv
  OBVIOUS
<1>1. \A c \in Cases : Supplies!Last(Start[c]) \in {Start[c][n] : n \in DOMAIN Start[c]}
                       /\ {Start[c][n] : n \in DOMAIN Start[c]} \subseteq Supplies!States
  BY DEF Supplies!Sound, Supplies!Last
<1>2. Supplies!TypeInv
  <2>1. case \in [Cases -> Supplies!CaseType]
    BY <1>1 DEF Supplies!Init, Supplies!CaseType, Supplies!Signs
  <2>2. item \in [Items -> Supplies!ItemType]
    BY DEF Supplies!Init, Supplies!ItemType
  <2>3. seen \in [Cases -> SUBSET Supplies!States]
    BY <1>1 DEF Supplies!Init
  <2>4. QED
    BY <2>1, <2>2, <2>3 DEF Supplies!Init, Supplies!TypeInv, Supplies!TypeOK, Supplies!Sound
<1>3. Supplies!CrossInv /\ \A r \in Supplies!Slots : Supplies!RequestInv(req[r])
  BY DEF Supplies!Init, Supplies!CrossInv, Supplies!Holds, Supplies!RequestInv, Supplies!NoRequest
<1>4. ASSUME NEW c \in Cases PROVE Supplies!CaseInv(c)
  <2>1. case[c].state = Supplies!Last(Start[c])
        /\ seen[c] = {Start[c][n] : n \in DOMAIN Start[c]}
        /\ (Supplies!Last(Start[c]) \notin {"none", "pending", "unpaid"} => case[c].by # "none")
    BY DEF Supplies!Init
  <2>2. Start[c] = <<"none">> => seen[c] = {"none"}
    BY <2>1
  <2>3. QED
    BY <1>1, <2>1, <2>2 DEF Supplies!CaseInv, Supplies!Sound
<1>5. ASSUME NEW i \in Items PROVE Supplies!ItemInv(i)
  BY DEF Supplies!Init, Supplies!ItemInv, Supplies!Open
<1>6. Supplies!BooksAreBacked
  BY DEF Supplies!BooksAreBacked, Supplies!Sources, Supplies!Init, Supplies!Sound
<1>7. Supplies!ReceivedIsOnTheBooks
  BY DEF Supplies!ReceivedIsOnTheBooks, Supplies!Init, Supplies!Sound
<1>8. Supplies!SomebodyStandsBehind
  <2> SUFFICES ASSUME NEW c \in Cases PROVE
        CASE Kind[c] = "meal" -> c \in crossed \/ (case[c].state = "paid") = (case[c].by # "none")
          [] Kind[c] = "purchase" ->
               case[c].state \in {"approved", "purchased", "received"} => case[c].by # "none"
          [] Kind[c] = "donation" -> case[c].state \in {"approved", "received"} => case[c].by # "none"
          [] OTHER -> case[c].state = "reimbursed" => case[c].by # "none"
    BY DEF Supplies!SomebodyStandsBehind
  <2>1. case[c].state = Supplies!Last(Start[c])
        /\ (case[c].by = "none" <=> case[c].state \in {"none", "pending", "unpaid"})
    BY DEF Supplies!Init
  <2>2. Kind[c] = "meal" => case[c].state \in {"unpaid", "paid"}
    BY <1>1, <2>1 DEF Supplies!Sound
  <2>3. QED
    BY <2>1, <2>2
<1>9. Supplies!HeadsAreTold
  <2>1. \A c \in Cases : Start[c] = <<"none">> => case[c].state = "none"
    <3> SUFFICES ASSUME NEW c \in Cases, Start[c] = <<"none">> PROVE case[c].state = "none"
      OBVIOUS
    <3>1. case[c].state = Supplies!Last(Start[c])
      BY DEF Supplies!Init
    <3>2. Supplies!Last(<<"none">>) = "none"
      BY DEF Supplies!Last
    <3>3. QED
      BY <3>1, <3>2
  <2>2. QED
    BY <2>1 DEF Supplies!HeadsAreTold
<1>10. QED
  BY <1>2, <1>3, <1>4, <1>5, <1>6, <1>7, <1>8, <1>9 DEF Supplies!DeskInv

\* A request stays in order while its own case or item stays as it is, or is crossed.
LEMMA RequestKept ==
  ASSUME Supplies!TypeInv, Supplies!TypeInv', NEW q \in Supplies!Requests \cup {Supplies!NoRequest},
         Supplies!RequestInv(q), crossed \subseteq crossed', late \subseteq late',
         \A c \in Cases :
           /\ seen[c] \subseteq seen'[c]
           /\ Kind[c] # "meal" /\ case[c].by # "none" => case'[c].by # "none"
           /\ Kind[c] # "meal" \/ case'[c] = case[c] \/ c \in crossed' \/ q.pc # "commit"
                \/ c \notin q.reads,
         \A i \in Items :
           /\ item[i].state # "none" => item'[i].state # "none"
           /\ \/ item'[i] = item[i] /\ log'[i] = log[i]
              \/ i \in crossed' \/ q.pc # "item" \/ i \notin q.reads \/ item[i].state = "none"
  PROVE  Supplies!RequestInv(q)'
<1>1. CASE q.pc = "commit"
  <2>1. q \in Supplies!Presses
    BY <1>1 DEF Supplies!Requests, Supplies!Presses, Supplies!Handlings, Supplies!Submissions,
             Supplies!Additions, Supplies!NoRequest
  <2>2. ASSUME NEW c \in q.reads PROVE Supplies!PressInv(q, c)'
    <3>1. c \in Cases /\ Supplies!PressInv(q, c)
      BY <1>1, <2>1 DEF Supplies!Presses, Supplies!RequestInv
    <3>2. QED
      BY <1>1, <3>1 DEF Supplies!PressInv
  <2>3. QED
    BY <1>1, <2>2 DEF Supplies!RequestInv
<1>2. CASE q.pc = "item"
  <2>1. q \in Supplies!Handlings
    BY <1>2 DEF Supplies!Requests, Supplies!Presses, Supplies!Handlings, Supplies!Submissions,
             Supplies!Additions, Supplies!NoRequest
  <2>2. ASSUME NEW i \in q.reads PROVE Supplies!HandleInv(q, i)'
    <3>1. i \in Items /\ Supplies!HandleInv(q, i)
      BY <1>2, <2>1 DEF Supplies!Handlings, Supplies!RequestInv
    <3>2. CASE i \in crossed' \cup late'
      BY <3>1, <3>2 DEF Supplies!HandleInv
    <3>3. CASE i \notin crossed' \cup late'
      <4>1. item'[i] = item[i] /\ log'[i] = log[i] /\ i \notin crossed \cup late
        BY <1>2, <3>1, <3>3 DEF Supplies!HandleInv
      <4>2. Supplies!Open(i)' = Supplies!Open(i)
        BY <4>1 DEF Supplies!Open
      <4>3. Supplies!Latest(i)' = Supplies!Latest(i)
        BY <4>2 DEF Supplies!Latest
      <4>4. QED
        BY <3>1, <4>1, <4>2, <4>3 DEF Supplies!HandleInv
    <3>4. QED
      BY <3>2, <3>3
  <2>3. QED
    BY <1>2, <2>2 DEF Supplies!RequestInv
<1>3. QED
  BY <1>1, <1>2 DEF Supplies!RequestInv

\* A request that begins and changes nothing yet keeps the desk straight.
LEMMA DeskBegins ==
  ASSUME Supplies!Sound, Supplies!DeskInv, Supplies!TypeInv',
         NEW request \in Supplies!Requests, Supplies!Begin(request),
         UNCHANGED <<case, item, log, told, recent, crashes, seen, excused>>,
         late \subseteq late', Supplies!RequestInv(request)'
  PROVE  Supplies!DeskInv'
<1>1. PICK r \in Supplies!Slots :
           /\ req[r] = Supplies!NoRequest /\ req' = [req EXCEPT ![r] = request]
           /\ crossed \subseteq crossed' /\ begun' \in 0..SupplyRequests
           /\ \A s \in Supplies!Slots \ {r} : request.reads \cap Supplies!Holds(s) \subseteq crossed'
  BY BeginFacts DEF Supplies!DeskInv
<1>2. \A s \in Supplies!Slots : req'[s] = IF s = r THEN request ELSE req[s]
  BY <1>1 DEF Supplies!DeskInv, Supplies!TypeInv
<1>3. ASSUME NEW s \in Supplies!Slots PROVE Supplies!RequestInv(req[s])'
  <2>1. CASE s = r
    BY <1>2, <2>1 DEF Supplies!RequestInv, Supplies!PressInv, Supplies!HandleInv
  <2>2. CASE s # r
    <3>1. PICK q \in Supplies!Requests \cup {Supplies!NoRequest} : q = req[s]
      BY DEF Supplies!DeskInv, Supplies!TypeInv
    <3>2. Supplies!RequestInv(q)
      BY <3>1 DEF Supplies!DeskInv
    <3>3. Supplies!RequestInv(q)'
      BY <1>1, <3>2, RequestKept DEF Supplies!DeskInv
    <3>4. QED
      BY <1>2, <2>2, <3>1, <3>3 DEF Supplies!RequestInv, Supplies!PressInv, Supplies!HandleInv
  <2>3. QED
    BY <2>1, <2>2
<1>4. Supplies!CrossInv'
  <2>1. SUFFICES ASSUME NEW s \in Supplies!Slots, NEW t \in Supplies!Slots, s # t
                 PROVE  Supplies!Holds(s)' \cap Supplies!Holds(t)' \subseteq crossed'
    BY DEF Supplies!CrossInv
  <2>2. Supplies!Holds(r)' \subseteq request.reads
    BY <1>2 DEF Supplies!Holds
  <2>3. \A u \in Supplies!Slots \ {r} : Supplies!Holds(u)' = Supplies!Holds(u)
    BY <1>2 DEF Supplies!Holds
  <2>4. Supplies!Holds(s) \cap Supplies!Holds(t) \subseteq crossed
    BY <2>1 DEF Supplies!DeskInv, Supplies!CrossInv
  <2>5. QED
    BY <1>1, <2>1, <2>2, <2>3, <2>4
<1>5. \A c \in Cases : Supplies!CaseInv(c)'
  BY DEF Supplies!DeskInv, Supplies!CaseInv
<1>6. \A i \in Items : Supplies!ItemInv(i)'
  BY <1>1 DEF Supplies!DeskInv, Supplies!ItemInv, Supplies!Open
<1>7. Supplies!BooksAreBacked' /\ Supplies!ReceivedIsOnTheBooks'
  BY DEF Supplies!DeskInv, Supplies!BooksAreBacked, Supplies!ReceivedIsOnTheBooks, Supplies!Sources
<1>8. Supplies!SomebodyStandsBehind'
  BY <1>1 DEF Supplies!DeskInv, Supplies!SomebodyStandsBehind
<1>9. Supplies!HeadsAreTold'
  <2>1. SUFFICES ASSUME NEW c \in Cases, NEW m \in Heads,
                        case[c].state # "none", Start[c] = <<"none">>, m \notin told[c] \cup excused[c]
                 PROVE  \E s \in Supplies!Slots : /\ req'[s] # Supplies!NoRequest
                          /\ req'[s].about = c /\ m \in req'[s].todo
    BY DEF Supplies!HeadsAreTold
  <2>2. PICK s \in Supplies!Slots :
          req[s] # Supplies!NoRequest /\ req[s].about = c /\ m \in req[s].todo
    BY <2>1 DEF Supplies!HeadsAreTold, Supplies!DeskInv
  <2>3. QED
    BY <1>1, <1>2, <2>2
<1>10. QED
  BY <1>3, <1>4, <1>5, <1>6, <1>7, <1>8, <1>9 DEF Supplies!DeskInv

\* The types, of a request that begins and changes nothing yet.
LEMMA TypeBegins ==
  ASSUME Supplies!Sound, Supplies!TypeInv, NEW request \in Supplies!Requests, Supplies!Begin(request),
         UNCHANGED <<case, item, log, told, recent, crashes, seen, excused>>
  PROVE  Supplies!TypeInv'
<1>1. PICK r \in Supplies!Slots :
        req' = [req EXCEPT ![r] = request] /\ begun' \in 0..SupplyRequests
  BY BeginFacts
<1>2. req' \in [Supplies!Slots -> Supplies!Requests \cup {Supplies!NoRequest}]
  BY <1>1 DEF Supplies!TypeInv
<1>3. QED
  BY <1>1, <1>2 DEF Supplies!TypeInv, Supplies!TypeOK

LEMMA DeskPress ==
  ASSUME Supplies!Sound, Supplies!DeskInv, NEW c \in Cases, NEW button, NEW sign \in Supplies!Signs,
         Supplies!Press(c, button, sign)
  PROVE  Supplies!DeskInv'
<1>1. /\ button \in DOMAIN Supplies!Shown[Kind[c]] /\ Supplies!Shown[Kind[c]][button] \cap seen[c] # {}
      /\ sign \in Supplies!Signs \ {"none"} /\ case[c] \in Supplies!CaseType
  BY DEF Supplies!Press, Supplies!Signs, Supplies!DeskInv, Supplies!TypeInv, Supplies!TypeOK
<1>2. PICK old \in Supplies!CaseType : old = case[c]
  BY <1>1
<1>3. PICK new \in Supplies!CaseType : new = Supplies!Pressed(c, button, old, sign)
  BY <1>1, PressedFacts
<1>4. PICK q : q = [Supplies!Idle EXCEPT !.op = button, !.reads = {c}, !.old = old, !.new = new]
  OBVIOUS
<1>5. /\ q \in Supplies!Presses /\ q.pc = "commit" /\ q.reads = {c} /\ q.op = button
      /\ q.old = old /\ q.new = new
  <2>1. button \in Supplies!Buttons
    BY <1>1, <1>3, PressedFacts
  <2>2. q = [pc |-> "commit", op |-> button, about |-> "none", reads |-> {c}, old |-> old,
             new |-> new, row |-> 0, todo |-> {}]
    BY <1>4 DEF Supplies!Idle
  <2>3. QED
    BY <2>1, <2>2 DEF Supplies!Presses
<1>6. Supplies!Begin(q)
  BY <1>2, <1>3, <1>4 DEF Supplies!Press
<1>7. UNCHANGED <<case, item, log, told, recent, crashes, seen, late, excused>>
  BY DEF Supplies!Press
<1>8. Supplies!TypeInv'
  BY <1>5, <1>6, <1>7, TypeBegins DEF Supplies!Requests, Supplies!DeskInv
<1>9. old.state \in seen[c]
  BY <1>2 DEF Supplies!DeskInv, Supplies!CaseInv
<1>10. Supplies!PressInv(q, c)'
  BY <1>1, <1>2, <1>3, <1>5, <1>7, <1>9 DEF Supplies!PressInv
<1>11. Supplies!RequestInv(q)'
  BY <1>5, <1>10 DEF Supplies!RequestInv
<1>12. QED
  BY <1>5, <1>6, <1>7, <1>8, <1>11, DeskBegins DEF Supplies!Requests

LEMMA DeskAdd == ASSUME Supplies!Sound, Supplies!DeskInv, Supplies!AddItem PROVE Supplies!DeskInv'
<1>1. PICK q : q = [Supplies!Idle EXCEPT !.op = "add", !.pc = "add"]
  OBVIOUS
<1>2. q \in Supplies!Additions /\ q.pc = "add"
  BY <1>1 DEF Supplies!Additions, Supplies!Idle
<1>3. Supplies!Begin(q) /\ UNCHANGED <<case, item, log, told, recent, crashes, seen, late, excused>>
  BY <1>1 DEF Supplies!AddItem
<1>4. Supplies!TypeInv'
  BY <1>2, <1>3, TypeBegins DEF Supplies!Requests, Supplies!DeskInv
<1>5. Supplies!RequestInv(q)'
  BY <1>2 DEF Supplies!RequestInv
<1>6. QED
  BY <1>2, <1>3, <1>4, <1>5, DeskBegins DEF Supplies!Requests

LEMMA DeskHandle ==
  ASSUME Supplies!Sound, Supplies!DeskInv, NEW i \in Items,
         NEW op \in {"checkout", "checkin", "retire"},
         NEW to \in {"available", "checked_out", "retired"}, NEW n \in Nat,
         to = [checkout |-> "checked_out", checkin |-> "available", retire |-> "retired"][op],
         op = "checkin" => n \in Supplies!Latest(i), Supplies!Handle(i, op, to, n)
  PROVE  Supplies!DeskInv'
<1>1. PICK old \in {"available", "checked_out", "retired"} : old = item[i].state
  BY DEF Supplies!Handle, Supplies!DeskInv, Supplies!TypeInv, Supplies!TypeOK, Supplies!ItemType
<1>2. PICK q : q = [Supplies!Idle EXCEPT !.op = op, !.pc = "item", !.reads = {i}, !.old = old,
                      !.new = to, !.row = n]
  OBVIOUS
<1>3. /\ q \in Supplies!Handlings /\ q.pc = "item" /\ q.reads = {i} /\ q.op = op
      /\ q.old = old /\ q.new = to /\ q.row = n
  BY <1>2 DEF Supplies!Handlings, Supplies!Idle
<1>4. Supplies!Begin(q)
  BY <1>1, <1>2 DEF Supplies!Handle
<1>5. UNCHANGED <<case, item, log, told, recent, crashes, seen, excused>>
  BY DEF Supplies!Handle
<1>6. Supplies!TypeInv'
  BY <1>3, <1>4, <1>5, TypeBegins DEF Supplies!Requests, Supplies!DeskInv
<1>7. late' = IF (op # "checkin") = (Supplies!Open(i) # {}) THEN late \cup {i} ELSE late
  BY DEF Supplies!Handle
<1>8. Supplies!HandleInv(q, i)'
  <2>1. Supplies!Open(i)' = Supplies!Open(i) /\ Supplies!Latest(i)' = Supplies!Latest(i)
    BY <1>5 DEF Supplies!Open, Supplies!Latest
  <2>2. item'[i].state = old /\ item'[i].state # "none"
    BY <1>1, <1>5
  <2>3. i \in late' \/ (op = "checkin" <=> Supplies!Open(i) # {})
    BY <1>7
  <2>4. QED
    BY <1>3, <2>1, <2>2, <2>3 DEF Supplies!HandleInv
<1>9. Supplies!RequestInv(q)'
  BY <1>3, <1>8 DEF Supplies!RequestInv
<1>10. QED
  BY <1>3, <1>4, <1>5, <1>6, <1>7, <1>9, DeskBegins DEF Supplies!Requests

\* A request that ends frees its slot and crosses nothing.
LEMMA EndFacts ==
  ASSUME Supplies!DeskInv, NEW r \in Supplies!Slots, Supplies!End(r), crossed' = crossed
  PROVE  /\ req' \in [Supplies!Slots -> Supplies!Requests \cup {Supplies!NoRequest}]
         /\ \A s \in Supplies!Slots : req'[s] = IF s = r THEN Supplies!NoRequest ELSE req[s]
         /\ Supplies!CrossInv'
<1>1. /\ req' \in [Supplies!Slots -> Supplies!Requests \cup {Supplies!NoRequest}]
      /\ \A s \in Supplies!Slots : req'[s] = IF s = r THEN Supplies!NoRequest ELSE req[s]
  BY DEF Supplies!End, Supplies!DeskInv, Supplies!TypeInv
<1>2. \A s \in Supplies!Slots : Supplies!Holds(s)' \subseteq Supplies!Holds(s)
  BY <1>1 DEF Supplies!Holds
<1>3. QED
  BY <1>1, <1>2 DEF Supplies!DeskInv, Supplies!CrossInv

\* What the other requests have read stays as it was, or is crossed.
LEMMA OthersKept ==
  ASSUME Supplies!DeskInv, Supplies!TypeInv', NEW r \in Supplies!Slots,
         \A s \in Supplies!Slots : req'[s] = IF s = r THEN Supplies!NoRequest ELSE req[s],
         crossed' = crossed, late' = late,
         \A c \in Cases :
           /\ seen[c] \subseteq seen'[c]
           /\ Kind[c] # "meal" /\ case[c].by # "none" => case'[c].by # "none"
           /\ Kind[c] # "meal" \/ case'[c] = case[c] \/ c \in Supplies!Holds(r),
         \A i \in Items :
           /\ item[i].state # "none" => item'[i].state # "none"
           /\ \/ item'[i] = item[i] /\ log'[i] = log[i]
              \/ i \in Supplies!Holds(r) \/ item[i].state = "none"
  PROVE  \A s \in Supplies!Slots : Supplies!RequestInv(req[s])'
<1>1. SUFFICES ASSUME NEW s \in Supplies!Slots PROVE Supplies!RequestInv(req[s])'
  OBVIOUS
<1>2. CASE s = r
  BY <1>2 DEF Supplies!RequestInv, Supplies!NoRequest
<1>3. CASE s # r
  <2>1. PICK q \in Supplies!Requests \cup {Supplies!NoRequest} : q = req[s]
    BY DEF Supplies!DeskInv, Supplies!TypeInv
  <2>2. Supplies!RequestInv(q) /\ Supplies!TypeInv
    BY <2>1 DEF Supplies!DeskInv
  <2>3. q.pc \in {"commit", "item"} => q.reads \cap Supplies!Holds(r) \subseteq crossed'
    BY <1>3, <2>1 DEF Supplies!DeskInv, Supplies!CrossInv, Supplies!Holds, Supplies!NoRequest
  <2>4. Supplies!RequestInv(q)'
    <3>1. CASE q.pc \in {"commit", "item"}
      BY <2>1, <2>2, <2>3, <3>1, RequestKept
    <3>2. CASE q.pc \notin {"commit", "item"}
      BY <3>2 DEF Supplies!RequestInv
    <3>3. QED
      BY <3>1, <3>2
  <2>5. req'[s] = q
    BY <1>3, <2>1
  <2>6. QED
    BY <2>4, <2>5 DEF Supplies!RequestInv, Supplies!PressInv, Supplies!HandleInv
<1>4. QED
  BY <1>2, <1>3

\* A new item is one there was not, and takes no source from another.
LEMMA EnterFacts ==
  ASSUME Supplies!DeskInv, NEW source \in Cases \cup {"none"}, Supplies!Enter(source)
  PROVE  /\ item' \in [Items -> Supplies!ItemType]
         /\ \A i \in Items :
              \/ item'[i] = item[i]
              \/ item[i].state = "none" /\ item'[i] = [state |-> "available", source |-> source]
         /\ \A i \in Items : item'[i].state = "none" => item'[i] = item[i]
         /\ Supplies!Sources' \subseteq Supplies!Sources \cup {source}
         /\ Supplies!Sources \ {"none"} \subseteq Supplies!Sources' /\ source \in Supplies!Sources'
<1>1. PICK i \in Items : /\ item[i].state = "none"
                         /\ item' = [item EXCEPT ![i] = [state |-> "available", source |-> source]]
  BY DEF Supplies!Enter
<1>2. /\ item \in [Items -> Supplies!ItemType]
      /\ \A k \in Items : item[k].state = "none" => item[k].source = "none"
  BY DEF Supplies!DeskInv, Supplies!TypeInv, Supplies!TypeOK, Supplies!ItemInv
<1>3. /\ item' \in [Items -> Supplies!ItemType]
      /\ \A k \in Items : item'[k] = IF k = i THEN [state |-> "available", source |-> source] ELSE item[k]
  BY <1>1, <1>2 DEF Supplies!ItemType
<1>4. Supplies!Sources' \subseteq Supplies!Sources \cup {source}
  BY <1>3 DEF Supplies!Sources
<1>5. Supplies!Sources \ {"none"} \subseteq Supplies!Sources' /\ source \in Supplies!Sources'
  BY <1>1, <1>2, <1>3 DEF Supplies!Sources
<1>6. QED
  BY <1>1, <1>3, <1>4, <1>5

LEMMA DeskCommit ==
  ASSUME Supplies!Sound, Supplies!DeskInv, NEW r \in Supplies!Slots, NEW c \in Cases,
         Supplies!CommitCase(r, c)
  PROVE  Supplies!DeskInv'
<1>1. PICK q \in Supplies!Requests \cup {Supplies!NoRequest} : q = req[r]
  BY DEF Supplies!DeskInv, Supplies!TypeInv
<1>2. q \in Supplies!Presses /\ q.pc = "commit" /\ q.reads = {c} /\ Supplies!PressInv(q, c)
  <2>1. q.pc = "commit" /\ q.reads = {c} /\ Supplies!RequestInv(q)
    BY <1>1 DEF Supplies!CommitCase, Supplies!DeskInv
  <2>2. QED
    BY <2>1 DEF Supplies!RequestInv, Supplies!Requests, Supplies!Presses, Supplies!Handlings,
             Supplies!Submissions, Supplies!Additions, Supplies!NoRequest
<1>3. PICK sign \in Supplies!Signs \ {"none"} : q.new = Supplies!Pressed(c, q.op, q.old, sign)
  BY <1>2 DEF Supplies!PressInv
<1> DEFINE old == q.old
           new == q.new
<1>4. /\ old \in Supplies!CaseType /\ new \in Supplies!CaseType
      /\ q.op \in DOMAIN Supplies!Shown[Kind[c]] /\ Supplies!Shown[Kind[c]][q.op] \cap seen[c] # {}
      /\ old.state \in seen[c]
  BY <1>2 DEF Supplies!Presses, Supplies!PressInv
<1>5. /\ Kind[c] = "meal" => (new.state = "paid") = (new.by # "none")
      /\ Kind[c] # "meal" => new.by \in {old.by, sign}
      /\ new.state # old.state => new.state # "none"
      /\ Kind[c] \in {"purchase", "donation"} /\ new.state = "approved" =>
              new.by # "none" \/ new.state = old.state
      /\ Kind[c] = "expense" /\ new.state = "reimbursed" => new.by # "none" \/ new.state = old.state
      /\ Kind[c] = "purchase" /\ new.state = "purchased" => old.state \in {"approved", "purchased"}
      /\ new.state = "received" => old.state = "received" \/ Supplies!Arrives(c, q.op, old, new)
      /\ Supplies!Arrives(c, q.op, old, new) =>
              \/ Kind[c] = "donation" /\ q.op = "received"
              \/ Kind[c] = "purchase" /\ q.op = "advance" /\ old.state = "purchased"
  BY <1>3, <1>4, PressedFacts
<1>6. PICK kept : /\ kept = [f \in {"state", "by"} |-> IF new[f] = old[f] THEN case[c][f] ELSE new[f]]
                 /\ case' = [case EXCEPT ![c] = kept] /\ seen' = [seen EXCEPT ![c] = @ \cup {kept.state}]
  BY <1>1 DEF Supplies!CommitCase
<1>7. /\ kept.state = IF new.state = old.state THEN case[c].state ELSE new.state
      /\ kept.by = IF new.by = old.by THEN case[c].by ELSE new.by
  BY <1>6
<1>8. kept \in Supplies!CaseType
  BY <1>4, <1>6 DEF Supplies!CaseType, Supplies!DeskInv, Supplies!TypeInv, Supplies!TypeOK
<1>9. /\ \A d \in Cases : case'[d] = IF d = c THEN kept ELSE case[d]
      /\ \A d \in Cases : seen'[d] = IF d = c THEN seen[d] \cup {kept.state} ELSE seen[d]
      /\ case' \in [Cases -> Supplies!CaseType] /\ seen' \in [Cases -> SUBSET Supplies!States]
  BY <1>6, <1>8 DEF Supplies!CaseType, Supplies!DeskInv, Supplies!TypeInv, Supplies!TypeOK
<1>10. /\ Supplies!End(r) /\ log' = log /\ told' = told /\ recent' = recent /\ begun' = begun
       /\ crashes' = crashes /\ crossed' = crossed /\ late' = late /\ excused' = excused
  BY DEF Supplies!CommitCase
<1>11. /\ item' \in [Items -> Supplies!ItemType]
       /\ \A i \in Items :
            \/ item'[i] = item[i]
            \/ item[i].state = "none" /\ item'[i] = [state |-> "available", source |-> c]
       /\ \A i \in Items : item'[i].state = "none" => item'[i] = item[i]
       /\ Supplies!Sources \ {"none"} \subseteq Supplies!Sources'
       /\ Supplies!Sources' \subseteq Supplies!Sources \cup {c}
       /\ IF Supplies!Arrives(c, q.op, old, new) THEN c \in Supplies!Sources'
          ELSE Supplies!Sources' = Supplies!Sources
  <2>1. CASE Supplies!Arrives(c, q.op, old, new)
    <3>1. Supplies!Enter(c)
      BY <1>1, <2>1 DEF Supplies!CommitCase
    <3>2. QED
      BY <2>1, <3>1, EnterFacts
  <2>2. CASE ~Supplies!Arrives(c, q.op, old, new)
    <3>1. item' = item
      BY <1>1, <2>2 DEF Supplies!CommitCase
    <3>2. QED
      BY <2>2, <3>1 DEF Supplies!Sources, Supplies!DeskInv, Supplies!TypeInv, Supplies!TypeOK
  <2>3. QED
    BY <2>1, <2>2
<1>12. /\ req' \in [Supplies!Slots -> Supplies!Requests \cup {Supplies!NoRequest}]
       /\ \A s \in Supplies!Slots : req'[s] = IF s = r THEN Supplies!NoRequest ELSE req[s]
       /\ Supplies!CrossInv'
  BY <1>10, EndFacts
<1>13. Supplies!TypeInv'
  BY <1>9, <1>10, <1>11, <1>12 DEF Supplies!DeskInv, Supplies!TypeInv, Supplies!TypeOK
<1>14. /\ Supplies!CaseInv(c) /\ c # "none" /\ Kind[c] \in {"expense", "purchase", "donation", "meal"}
       /\ case[c].state \in seen[c]
  BY DEF Supplies!DeskInv, Supplies!Sound, Supplies!CaseInv
<1>15. Kind[c] # "meal" =>
         /\ case[c].by # "none" => kept.by # "none"
         /\ new.by # "none" => kept.by # "none"
  BY <1>2, <1>3, <1>5, <1>7 DEF Supplies!PressInv
<1>16. \A s \in Supplies!Slots : Supplies!RequestInv(req[s])'
  <2>1. c \in Supplies!Holds(r)
    BY <1>1, <1>2 DEF Supplies!Holds, Supplies!NoRequest
  <2>2. \A d \in Cases :
          /\ seen[d] \subseteq seen'[d]
          /\ Kind[d] # "meal" /\ case[d].by # "none" => case'[d].by # "none"
          /\ Kind[d] # "meal" \/ case'[d] = case[d] \/ d \in Supplies!Holds(r)
    BY <1>9, <1>15, <2>1
  <2>3. \A i \in Items :
          /\ item[i].state # "none" => item'[i].state # "none"
          /\ \/ item'[i] = item[i] /\ log'[i] = log[i]
             \/ i \in Supplies!Holds(r) \/ item[i].state = "none"
    BY <1>10, <1>11
  <2>4. QED
    BY <1>10, <1>12, <1>13, <2>2, <2>3, OthersKept
\* A button was shown, so somebody submitted the case.
<1>17. ~(Start[c] = <<"none">> /\ case[c].state = "none")
  BY <1>4, <1>14 DEF Supplies!CaseInv, Supplies!Shown
<1>18. ASSUME NEW d \in Cases PROVE Supplies!CaseInv(d)'
  <2>1. CASE d # c
    BY <1>9, <2>1 DEF Supplies!DeskInv, Supplies!CaseInv
  <2>2. CASE d = c
    <3>1. case'[c] = kept /\ seen'[c] = seen[c] \cup {kept.state}
      BY <1>9
    <3>2. Kind[c] \in {"purchase", "donation"} /\ "approved" \in seen'[c] => kept.by # "none"
      BY <1>5, <1>7, <1>14, <1>15, <3>1 DEF Supplies!CaseInv
    <3>3. Kind[c] = "purchase" /\ "purchased" \in seen'[c] => "approved" \in seen'[c]
      BY <1>4, <1>5, <1>7, <1>14, <3>1 DEF Supplies!CaseInv
    <3>4. ~(Start[c] = <<"none">> /\ kept.state = "none")
      BY <1>5, <1>7, <1>17
    <3>5. QED
      BY <2>2, <3>1, <3>2, <3>3, <3>4 DEF Supplies!CaseInv
  <2>3. QED
    BY <2>1, <2>2
<1>19. \A i \in Items : Supplies!ItemInv(i)'
  BY <1>10, <1>11 DEF Supplies!DeskInv, Supplies!ItemInv, Supplies!Open
<1>20. Supplies!BooksAreBacked'
  <2>1. SUFFICES ASSUME NEW d \in Cases, d \in Supplies!Sources'
                 PROVE  "approved" \in seen'[d] /\ (Kind[d] = "purchase" => "purchased" \in seen'[d])
    BY DEF Supplies!BooksAreBacked
  <2>2. CASE d \in Supplies!Sources
    BY <1>9, <2>2 DEF Supplies!DeskInv, Supplies!BooksAreBacked
  <2>3. CASE d \notin Supplies!Sources
    <3>1. d = c /\ Supplies!Arrives(c, q.op, old, new)
      BY <1>11, <2>1, <2>3
    <3>2. CASE Kind[c] = "donation" /\ q.op = "received"
      BY <1>4, <1>9, <3>1, <3>2 DEF Supplies!Shown
    <3>3. CASE Kind[c] = "purchase" /\ old.state = "purchased"
      BY <1>4, <1>9, <1>14, <3>1, <3>3 DEF Supplies!CaseInv
    <3>4. QED
      BY <1>5, <3>1, <3>2, <3>3
  <2>4. QED
    BY <2>2, <2>3
<1>21. Supplies!ReceivedIsOnTheBooks'
  <2>1. SUFFICES ASSUME NEW d \in Cases, "received" \in seen'[d] PROVE d \in Supplies!Sources'
    BY DEF Supplies!ReceivedIsOnTheBooks
  <2>2. d # "none"
    BY DEF Supplies!Sound
  <2>3. CASE "received" \in seen[d]
    BY <1>11, <2>2, <2>3 DEF Supplies!DeskInv, Supplies!ReceivedIsOnTheBooks
  <2>4. CASE "received" \notin seen[d]
    BY <1>5, <1>7, <1>9, <1>11, <1>14, <2>1, <2>4
  <2>5. QED
    BY <2>3, <2>4
<1>22. Supplies!SomebodyStandsBehind'
  <2> SUFFICES ASSUME NEW d \in Cases PROVE
        CASE Kind[d] = "meal" -> d \in crossed' \/ (case'[d].state = "paid") = (case'[d].by # "none")
          [] Kind[d] = "purchase" ->
               case'[d].state \in {"approved", "purchased", "received"} => case'[d].by # "none"
          [] Kind[d] = "donation" -> case'[d].state \in {"approved", "received"} => case'[d].by # "none"
          [] OTHER -> case'[d].state = "reimbursed" => case'[d].by # "none"
    BY DEF Supplies!SomebodyStandsBehind
  <2>1. CASE d # c
    BY <1>9, <1>10, <2>1 DEF Supplies!DeskInv, Supplies!SomebodyStandsBehind
  <2>2. CASE d = c /\ Kind[c] = "meal"
    <3>1. c \in crossed \/ old = case[c]
      BY <1>2, <2>2 DEF Supplies!PressInv
    <3>2. c \in crossed \/ (kept.state = new.state /\ kept.by = new.by)
      BY <1>7, <3>1
    <3>3. QED
      BY <1>5, <1>9, <1>10, <2>2, <3>2
  <2>3. CASE d = c /\ Kind[c] \in {"purchase", "donation"}
    <3>1. Supplies!CaseInv(c)' /\ case'[c] = kept
      BY <1>9, <1>18
    <3>2. kept.state \in {"approved", "received"} => "approved" \in seen'[c]
      BY <1>20, <1>21, <3>1 DEF Supplies!CaseInv, Supplies!BooksAreBacked, Supplies!ReceivedIsOnTheBooks
    <3>3. QED
      BY <2>3, <3>1, <3>2 DEF Supplies!CaseInv
  <2>4. CASE d = c /\ Kind[c] = "expense"
    <3>1. case[c].state = "reimbursed" => case[c].by # "none"
      BY <2>4 DEF Supplies!DeskInv, Supplies!SomebodyStandsBehind
    <3>2. kept.state = "reimbursed" => kept.by # "none"
      BY <1>5, <1>7, <1>15, <2>4, <3>1
    <3>3. QED
      BY <1>9, <2>4, <3>2
  <2>5. QED
    BY <1>14, <2>1, <2>2, <2>3, <2>4
<1>23. Supplies!HeadsAreTold'
  <2>1. SUFFICES ASSUME NEW d \in Cases, NEW m \in Heads,
                        case'[d].state # "none", Start[d] = <<"none">>, m \notin told[d] \cup excused[d]
                 PROVE  \E s \in Supplies!Slots : /\ req'[s] # Supplies!NoRequest
                          /\ req'[s].about = d /\ m \in req'[s].todo
    BY <1>10 DEF Supplies!HeadsAreTold
  <2>2. case[d].state # "none"
    BY <1>9, <1>17, <2>1
  <2>3. PICK s \in Supplies!Slots :
          req[s] # Supplies!NoRequest /\ req[s].about = d /\ m \in req[s].todo
    BY <2>1, <2>2 DEF Supplies!HeadsAreTold, Supplies!DeskInv
  <2>4. s # r
    BY <1>1, <1>2, <2>3 DEF Supplies!Presses
  <2>5. QED
    BY <1>12, <2>3, <2>4
<1>24. QED
  BY <1>12, <1>13, <1>16, <1>18, <1>19, <1>20, <1>21, <1>22, <1>23 DEF Supplies!DeskInv

LEMMA DeskSubmit ==
  ASSUME Supplies!Sound, Supplies!DeskInv, NEW c \in Cases, Kind[c] # "meal", Supplies!Submit(c)
  PROVE  Supplies!DeskInv'
<1>1. PICK q : q = [Supplies!Idle EXCEPT !.pc = "notify", !.op = "submit", !.about = c, !.todo = Heads]
  OBVIOUS
<1>2. q \in Supplies!Requests /\ q.pc = "notify" /\ q.about = c /\ q.todo = Heads /\ q.reads = {}
  BY <1>1 DEF Supplies!Requests, Supplies!Submissions, Supplies!Idle
<1>3. Supplies!Begin(q)
  BY <1>1 DEF Supplies!Submit, Supplies!Approvers
<1>4. PICK r \in Supplies!Slots :
           /\ req[r] = Supplies!NoRequest /\ req' = [req EXCEPT ![r] = q]
           /\ crossed \subseteq crossed' /\ begun' \in 0..SupplyRequests
  BY <1>2, <1>3, BeginFacts DEF Supplies!DeskInv
<1>5. /\ req' \in [Supplies!Slots -> Supplies!Requests \cup {Supplies!NoRequest}]
      /\ \A s \in Supplies!Slots : req'[s] = IF s = r THEN q ELSE req[s]
  BY <1>2, <1>4 DEF Supplies!DeskInv, Supplies!TypeInv
<1>6. /\ case[c].state = "none" /\ case' = [case EXCEPT ![c].state = "pending"]
      /\ seen' = [seen EXCEPT ![c] = @ \cup {"pending"}]
      /\ UNCHANGED <<item, log, told, recent, crashes, late, excused>>
  BY DEF Supplies!Submit
<1>7. /\ case' \in [Cases -> Supplies!CaseType] /\ seen' \in [Cases -> SUBSET Supplies!States]
      /\ \A d \in Cases : case'[d].by = case[d].by
                         /\ case'[d].state = IF d = c THEN "pending" ELSE case[d].state
      /\ \A d \in Cases \ {c} : case'[d] = case[d]
      /\ \A d \in Cases : seen'[d] = IF d = c THEN seen[d] \cup {"pending"} ELSE seen[d]
  BY <1>6 DEF Supplies!DeskInv, Supplies!TypeInv, Supplies!TypeOK, Supplies!CaseType, Supplies!States
<1>8. Supplies!TypeInv'
  BY <1>4, <1>5, <1>6, <1>7 DEF Supplies!DeskInv, Supplies!TypeInv, Supplies!TypeOK
<1>9. ASSUME NEW s \in Supplies!Slots PROVE Supplies!RequestInv(req[s])'
  <2>1. CASE s = r
    BY <1>2, <1>5, <2>1 DEF Supplies!RequestInv
  <2>2. CASE s # r
    <3>1. PICK p \in Supplies!Requests \cup {Supplies!NoRequest} : p = req[s]
      BY DEF Supplies!DeskInv, Supplies!TypeInv
    <3>2. Supplies!RequestInv(p) /\ Supplies!TypeInv
      BY <3>1 DEF Supplies!DeskInv
    <3>3. /\ \A d \in Cases :
               /\ seen[d] \subseteq seen'[d]
               /\ Kind[d] # "meal" /\ case[d].by # "none" => case'[d].by # "none"
               /\ Kind[d] # "meal" \/ case'[d] = case[d]
          /\ crossed \subseteq crossed' /\ late' = late /\ item' = item /\ log' = log
      BY <1>4, <1>6, <1>7
    <3>4. Supplies!RequestInv(p)'
      BY <1>8, <3>2, <3>3, RequestKept
    <3>5. req'[s] = p
      BY <1>5, <2>2, <3>1
    <3>6. QED
      BY <3>4, <3>5 DEF Supplies!RequestInv, Supplies!PressInv, Supplies!HandleInv
  <2>3. QED
    BY <2>1, <2>2
<1>10. Supplies!CrossInv'
  <2>1. Supplies!Holds(r)' = {} /\ \A s \in Supplies!Slots \ {r} : Supplies!Holds(s)' = Supplies!Holds(s)
    BY <1>2, <1>5 DEF Supplies!Holds
  <2>2. QED
    BY <1>4, <2>1 DEF Supplies!DeskInv, Supplies!CrossInv
<1>11. \A d \in Cases : Supplies!CaseInv(d)'
  BY <1>7 DEF Supplies!DeskInv, Supplies!CaseInv
<1>12. \A i \in Items : Supplies!ItemInv(i)'
  BY <1>4, <1>6 DEF Supplies!DeskInv, Supplies!ItemInv, Supplies!Open
<1>13. Supplies!BooksAreBacked' /\ Supplies!ReceivedIsOnTheBooks'
  BY <1>6, <1>7 DEF Supplies!DeskInv, Supplies!BooksAreBacked, Supplies!ReceivedIsOnTheBooks, Supplies!Sources
<1>14. Supplies!SomebodyStandsBehind'
  BY <1>4, <1>7 DEF Supplies!DeskInv, Supplies!SomebodyStandsBehind
<1>15. Supplies!HeadsAreTold'
  <2>1. SUFFICES ASSUME NEW d \in Cases, NEW m \in Heads, Start[d] = <<"none">>,
                        case'[d].state # "none", m \notin told'[d] \cup excused'[d]
                 PROVE  \E s \in Supplies!Slots : /\ req'[s] # Supplies!NoRequest
                          /\ req'[s].about = d /\ m \in req'[s].todo
    BY DEF Supplies!HeadsAreTold
  <2>2. CASE d = c
    BY <1>2, <1>5, <2>2 DEF Supplies!NoRequest
  <2>3. CASE d # c
    <3>1. PICK s \in Supplies!Slots :
            req[s] # Supplies!NoRequest /\ req[s].about = d /\ m \in req[s].todo
      BY <1>6, <1>7, <2>1, <2>3 DEF Supplies!HeadsAreTold, Supplies!DeskInv
    <3>2. QED
      BY <1>4, <1>5, <3>1
  <2>4. QED
    BY <2>2, <2>3
<1>16. QED
  BY <1>8, <1>9, <1>10, <1>11, <1>12, <1>13, <1>14, <1>15 DEF Supplies!DeskInv

\* What a request does that neither touches a case nor who was to be told of one.
LEMMA CasesKept ==
  ASSUME Supplies!DeskInv, UNCHANGED <<case, seen, crossed>>
  PROVE  /\ \A c \in Cases : Supplies!CaseInv(c)'
         /\ Supplies!SomebodyStandsBehind'
<1>1. \A c \in Cases : Supplies!CaseInv(c)'
  BY DEF Supplies!DeskInv, Supplies!CaseInv
<1>2. Supplies!SomebodyStandsBehind'
  BY DEF Supplies!DeskInv, Supplies!SomebodyStandsBehind
<1>3. QED
  BY <1>1, <1>2

\* A request goes by nothing else.
LEMMA RequestUnmoved ==
  ASSUME Supplies!DeskInv, UNCHANGED <<case, item, log, seen, crossed, late>>,
         NEW s \in Supplies!Slots, req'[s] = req[s]
  PROVE  Supplies!RequestInv(req[s])'
<1>1. Supplies!RequestInv(req[s])
  BY DEF Supplies!DeskInv
<1>2. ASSUME NEW i PROVE Supplies!Open(i)' = Supplies!Open(i)
  BY DEF Supplies!Open
<1>3. ASSUME NEW i PROVE Supplies!Latest(i)' = Supplies!Latest(i)
  BY <1>2 DEF Supplies!Latest
<1>4. ASSUME NEW c, Supplies!PressInv(req[s], c) PROVE Supplies!PressInv(req[s], c)'
  BY <1>4 DEF Supplies!PressInv
<1>5. ASSUME NEW i, Supplies!HandleInv(req[s], i) PROVE Supplies!HandleInv(req[s], i)'
  BY <1>2, <1>3, <1>5 DEF Supplies!HandleInv
<1>6. QED
  BY <1>1, <1>4, <1>5 DEF Supplies!RequestInv

LEMMA DeskCommitAdd ==
  ASSUME Supplies!Sound, Supplies!DeskInv, NEW r \in Supplies!Slots, Supplies!CommitAdd(r)
  PROVE  Supplies!DeskInv'
<1>1. /\ req[r].pc = "add" /\ Supplies!Enter("none") /\ Supplies!End(r)
      /\ UNCHANGED <<case, log, told, recent, begun, crashes, seen, crossed, late, excused>>
  BY DEF Supplies!CommitAdd
<1>2. /\ item' \in [Items -> Supplies!ItemType]
      /\ \A i \in Items :
              \/ item'[i] = item[i]
              \/ item[i].state = "none" /\ item'[i] = [state |-> "available", source |-> "none"]
      /\ \A i \in Items : item'[i].state = "none" => item'[i] = item[i]
      /\ Supplies!Sources' \subseteq Supplies!Sources \cup {"none"}
      /\ Supplies!Sources \ {"none"} \subseteq Supplies!Sources'
  BY <1>1, EnterFacts
<1>3. /\ req' \in [Supplies!Slots -> Supplies!Requests \cup {Supplies!NoRequest}]
      /\ \A s \in Supplies!Slots : req'[s] = IF s = r THEN Supplies!NoRequest ELSE req[s]
      /\ Supplies!CrossInv'
  BY <1>1, EndFacts
<1>4. Supplies!TypeInv'
  BY <1>1, <1>2, <1>3 DEF Supplies!DeskInv, Supplies!TypeInv, Supplies!TypeOK
<1>5. \A s \in Supplies!Slots : Supplies!RequestInv(req[s])'
  BY <1>1, <1>2, <1>3, <1>4, OthersKept
<1>6. (\A c \in Cases : Supplies!CaseInv(c)') /\ Supplies!SomebodyStandsBehind'
  BY <1>1, CasesKept
<1>7. \A i \in Items : Supplies!ItemInv(i)'
  BY <1>1, <1>2 DEF Supplies!DeskInv, Supplies!ItemInv, Supplies!Open
<1>8. Supplies!BooksAreBacked' /\ Supplies!ReceivedIsOnTheBooks'
  BY <1>1, <1>2 DEF Supplies!DeskInv, Supplies!BooksAreBacked, Supplies!ReceivedIsOnTheBooks, Supplies!Sound
<1>9. Supplies!HeadsAreTold'
  <2>1. req[r] \in Supplies!Additions
    BY <1>1 DEF Supplies!DeskInv, Supplies!TypeInv, Supplies!Requests, Supplies!Presses,
             Supplies!Handlings, Supplies!Submissions, Supplies!NoRequest
  <2>2. req[r].todo = {}
    BY <2>1 DEF Supplies!Additions
  <2>3. QED
    BY <1>1, <1>3, <2>2 DEF Supplies!DeskInv, Supplies!HeadsAreTold
<1>10. QED
  BY <1>3, <1>4, <1>5, <1>6, <1>7, <1>8, <1>9 DEF Supplies!DeskInv

\* The log of an item nobody else is about agrees with where it is.
LEMMA DeskCommitItem ==
  ASSUME Supplies!Sound, Supplies!DeskInv, NEW r \in Supplies!Slots, NEW i \in Items,
         Supplies!CommitItem(r, i)
  PROVE  Supplies!DeskInv'
<1>1. PICK q \in Supplies!Requests \cup {Supplies!NoRequest} : q = req[r]
  BY DEF Supplies!DeskInv, Supplies!TypeInv
<1>2. q \in Supplies!Handlings /\ q.reads = {i} /\ Supplies!HandleInv(q, i)
  <2>1. q.pc = "item" /\ q.reads = {i} /\ Supplies!RequestInv(q)
    BY <1>1 DEF Supplies!CommitItem, Supplies!DeskInv
  <2>2. QED
    BY <2>1 DEF Supplies!RequestInv, Supplies!Requests, Supplies!Presses, Supplies!Handlings,
             Supplies!Submissions, Supplies!Additions, Supplies!NoRequest
<1>3. /\ Supplies!End(r)
      /\ UNCHANGED <<case, told, recent, begun, crashes, seen, crossed, late, excused>>
      /\ item' = [item EXCEPT ![i].state = IF q.new = q.old THEN @ ELSE q.new]
      /\ log' = [log EXCEPT ![i] = Supplies!Logged(@, q.op, q.row)]
  BY <1>1 DEF Supplies!CommitItem
<1>4. /\ req' \in [Supplies!Slots -> Supplies!Requests \cup {Supplies!NoRequest}]
      /\ \A s \in Supplies!Slots : req'[s] = IF s = r THEN Supplies!NoRequest ELSE req[s]
      /\ Supplies!CrossInv'
  BY <1>3, EndFacts
<1>5. /\ item \in [Items -> Supplies!ItemType] /\ item[i].state # "none"
      /\ q.old \in {"available", "checked_out", "retired"}
      /\ q.new \in {"available", "checked_out", "retired"}
      /\ q.op \in {"checkout", "checkin", "retire"} /\ q.row \in Nat /\ q.todo = {}
  BY <1>2 DEF Supplies!Handlings, Supplies!HandleInv, Supplies!DeskInv, Supplies!TypeInv, Supplies!TypeOK
<1>6. /\ item' \in [Items -> Supplies!ItemType]
      /\ \A k \in Items : item'[k].source = item[k].source
      /\ \A k \in Items \ {i} : item'[k] = item[k] /\ log'[k] = log[k]
      /\ item'[i].state = IF q.new = q.old THEN item[i].state ELSE q.new
      /\ item'[i].state # "none"
  BY <1>3, <1>5 DEF Supplies!ItemType, Supplies!DeskInv, Supplies!TypeInv, Supplies!TypeOK
<1>7. Supplies!TypeInv'
  <2>1. log' \in [Items -> Seq(Supplies!Checkout)]
    <3>1. log \in [Items -> Seq(Supplies!Checkout)]
      BY DEF Supplies!DeskInv, Supplies!TypeInv, Supplies!TypeOK
    <3>2. ASSUME NEW l \in Seq(Supplies!Checkout) PROVE Supplies!Logged(l, q.op, q.row) \in Seq(Supplies!Checkout)
      <4>1. Append(l, "out") \in Seq(Supplies!Checkout)
        BY DEF Supplies!Checkout
      <4>2. [l EXCEPT ![q.row] = "in"] \in Seq(Supplies!Checkout)
        <5>1. CASE q.row \in 1..Len(l)
          BY <5>1 DEF Supplies!Checkout
        <5>2. CASE q.row \notin 1..Len(l)
          <6>1. [l EXCEPT ![q.row] = "in"] = l
            BY <5>2
          <6>2. QED
            BY <6>1
        <5>3. QED
          BY <5>1, <5>2
      <4>3. QED
        BY <4>1, <4>2 DEF Supplies!Logged
    <3>3. QED
      BY <1>3, <3>1, <3>2
  <2>2. QED
    BY <1>3, <1>4, <1>6, <2>1 DEF Supplies!DeskInv, Supplies!TypeInv, Supplies!TypeOK
<1>8. \A s \in Supplies!Slots : Supplies!RequestInv(req[s])'
  <2>1. i \in Supplies!Holds(r)
    BY <1>1, <1>2 DEF Supplies!Holds, Supplies!NoRequest, Supplies!Handlings
  <2>2. QED
    BY <1>3, <1>4, <1>6, <1>7, <2>1, OthersKept
<1>9. (\A c \in Cases : Supplies!CaseInv(c)') /\ Supplies!SomebodyStandsBehind'
  BY <1>3, CasesKept
<1>10. ASSUME NEW k \in Items PROVE Supplies!ItemInv(k)'
  <2>1. CASE k # i
    BY <1>3, <1>6, <2>1 DEF Supplies!DeskInv, Supplies!ItemInv, Supplies!Open
  <2>2. CASE k = i /\ i \in crossed \cup late
    BY <1>3, <1>6, <2>2 DEF Supplies!ItemInv
  <2>3. CASE k = i /\ i \notin crossed \cup late
    <3>1. /\ item'[i].state = q.new /\ log[i] \in Seq(Supplies!Checkout)
          /\ log'[i] = Supplies!Logged(log[i], q.op, q.row)
      BY <1>2, <1>3, <1>6, <2>3 DEF Supplies!HandleInv, Supplies!DeskInv, Supplies!TypeInv, Supplies!TypeOK
    <3>2. CASE q.op = "checkout"
      <4>1. Supplies!Open(i) = {} /\ q.new = "checked_out" /\ log'[i] = Append(log[i], "out")
        BY <1>2, <2>3, <3>1, <3>2 DEF Supplies!HandleInv, Supplies!Logged
      <4>2. Supplies!Open(i)' = {Len(log[i]) + 1}
        BY <3>1, <4>1 DEF Supplies!Open, Supplies!Checkout
      <4>3. Len(log[i]) + 1 \in DOMAIN log'[i]
        BY <3>1, <4>1
      <4>4. QED
        BY <1>6, <2>3, <3>1, <4>1, <4>2, <4>3 DEF Supplies!ItemInv
    <3>3. CASE q.op = "checkin"
      <4>1. q.row \in Supplies!Open(i) /\ q.new = "available"
        BY <1>2, <2>3, <3>3 DEF Supplies!HandleInv, Supplies!Latest
      <4>2. PICK n : Supplies!Open(i) = {n}
        BY <2>3, <4>1 DEF Supplies!DeskInv, Supplies!ItemInv
      <4>3. q.row = n /\ n \in 1..Len(log[i])
        BY <3>1, <4>1, <4>2 DEF Supplies!Open
      <4>4. log'[i] = [log[i] EXCEPT ![n] = "in"]
        BY <3>1, <3>3, <4>3 DEF Supplies!Logged
      <4>5. Supplies!Open(i)' = {}
        BY <3>1, <4>2, <4>3, <4>4 DEF Supplies!Open, Supplies!Checkout
      <4>6. QED
        BY <1>6, <2>3, <3>1, <4>1, <4>5 DEF Supplies!ItemInv
    <3>4. CASE q.op = "retire"
      <4>1. Supplies!Open(i) = {} /\ q.new = "retired" /\ log'[i] = log[i]
        BY <1>2, <2>3, <3>1, <3>4 DEF Supplies!HandleInv, Supplies!Logged
      <4>2. Supplies!Open(i)' = {}
        BY <4>1 DEF Supplies!Open
      <4>3. QED
        BY <1>6, <2>3, <3>1, <4>1, <4>2 DEF Supplies!ItemInv
    <3>5. QED
      BY <1>5, <3>2, <3>3, <3>4
  <2>4. QED
    BY <2>1, <2>2, <2>3
<1>11. Supplies!BooksAreBacked' /\ Supplies!ReceivedIsOnTheBooks'
  <2>1. Supplies!Sources' = Supplies!Sources
    BY <1>6 DEF Supplies!Sources
  <2>2. QED
    BY <1>3, <2>1 DEF Supplies!DeskInv, Supplies!BooksAreBacked, Supplies!ReceivedIsOnTheBooks
<1>12. Supplies!HeadsAreTold'
  BY <1>1, <1>3, <1>4, <1>5 DEF Supplies!DeskInv, Supplies!HeadsAreTold
<1>13. QED
  BY <1>4, <1>7, <1>8, <1>9, <1>10, <1>11, <1>12 DEF Supplies!DeskInv

LEMMA DeskNotify ==
  ASSUME Supplies!Sound, Supplies!DeskInv, NEW r \in Supplies!Slots, NEW m \in Supplies!People,
         Supplies!Notify(r, m)
  PROVE  Supplies!DeskInv'
<1>1. PICK q \in Supplies!Requests \cup {Supplies!NoRequest} : q = req[r]
  BY DEF Supplies!DeskInv, Supplies!TypeInv
<1>2. q \in Supplies!Submissions /\ m \in q.todo
  BY <1>1 DEF Supplies!Notify, Supplies!Requests, Supplies!Presses, Supplies!Handlings,
             Supplies!Submissions, Supplies!Additions, Supplies!NoRequest
<1>3. UNCHANGED <<case, item, log, begun, crashes, seen, crossed, late>>
  BY DEF Supplies!Notify
<1>4. PICK p : /\ p = IF q.todo = {m} THEN Supplies!NoRequest ELSE [q EXCEPT !.todo = @ \ {m}]
               /\ req' = [req EXCEPT ![r] = p]
  BY <1>1 DEF Supplies!Notify, Supplies!End
<1>5. /\ p \in Supplies!Requests \cup {Supplies!NoRequest}
      /\ p = Supplies!NoRequest \/ (p.reads = {} /\ p.about = q.about /\ p.todo = q.todo \ {m})
      /\ p.pc \notin {"commit", "item"}
  BY <1>2, <1>4 DEF Supplies!Submissions, Supplies!Requests, Supplies!NoRequest
<1>6. /\ req' \in [Supplies!Slots -> Supplies!Requests \cup {Supplies!NoRequest}]
      /\ \A s \in Supplies!Slots : req'[s] = IF s = r THEN p ELSE req[s]
  BY <1>4, <1>5 DEF Supplies!DeskInv, Supplies!TypeInv
<1>7. /\ told' \in [Cases -> SUBSET Supplies!People] /\ excused' \in [Cases -> SUBSET Supplies!People]
      /\ recent' \in [{Kind[c] : c \in Cases} -> SUBSET Supplies!People]
      /\ \A c \in Cases : told[c] \cup excused[c] \subseteq told'[c] \cup excused'[c]
      /\ m \in told'[q.about] \cup excused'[q.about]
  <2> USE <1>1, <1>2 DEF Supplies!DeskInv, Supplies!TypeInv, Supplies!Submissions
  <2>1. CASE m \in recent[Kind[q.about]]
    BY <2>1 DEF Supplies!Notify
  <2>2. CASE m \notin recent[Kind[q.about]]
    BY <2>2 DEF Supplies!Notify
  <2>3. QED
    BY <2>1, <2>2
<1>8. Supplies!TypeInv'
  BY <1>3, <1>6, <1>7 DEF Supplies!DeskInv, Supplies!TypeInv, Supplies!TypeOK, Supplies!People
<1>9. Supplies!CrossInv'
  <2>1. Supplies!Holds(r)' = {} /\ \A s \in Supplies!Slots \ {r} : Supplies!Holds(s)' = Supplies!Holds(s)
    BY <1>5, <1>6 DEF Supplies!Holds
  <2>2. QED
    BY <1>3, <2>1 DEF Supplies!DeskInv, Supplies!CrossInv
<1>10. ASSUME NEW s \in Supplies!Slots PROVE Supplies!RequestInv(req[s])'
  <2>1. CASE s = r
    BY <1>5, <1>6, <2>1 DEF Supplies!RequestInv
  <2>2. CASE s # r
    BY <1>3, <1>6, <2>2, RequestUnmoved
  <2>3. QED
    BY <2>1, <2>2
<1>11. (\A c \in Cases : Supplies!CaseInv(c)') /\ Supplies!SomebodyStandsBehind'
  BY <1>3, CasesKept
<1>12. \A i \in Items : Supplies!ItemInv(i)'
  BY <1>3 DEF Supplies!DeskInv, Supplies!ItemInv, Supplies!Open
<1>13. Supplies!BooksAreBacked' /\ Supplies!ReceivedIsOnTheBooks'
  BY <1>3 DEF Supplies!DeskInv, Supplies!BooksAreBacked, Supplies!ReceivedIsOnTheBooks, Supplies!Sources
<1>14. Supplies!HeadsAreTold'
  <2>1. SUFFICES ASSUME NEW c \in Cases, NEW h \in Heads, Start[c] = <<"none">>,
                        case[c].state # "none", h \notin told'[c] \cup excused'[c]
                 PROVE  \E s \in Supplies!Slots : /\ req'[s] # Supplies!NoRequest
                          /\ req'[s].about = c /\ h \in req'[s].todo
    BY <1>3 DEF Supplies!HeadsAreTold
  <2>2. PICK s \in Supplies!Slots :
            req[s] # Supplies!NoRequest /\ req[s].about = c /\ h \in req[s].todo
    BY <1>7, <2>1 DEF Supplies!HeadsAreTold, Supplies!DeskInv
  <2>3. CASE s # r
    BY <1>6, <2>2, <2>3
  <2>4. CASE s = r
    <3>1. q.about = c /\ h \in q.todo /\ h # m
      BY <1>1, <1>7, <2>1, <2>2, <2>4
    <3>2. p # Supplies!NoRequest
      BY <1>2, <1>4, <3>1 DEF Supplies!Submissions, Supplies!NoRequest
    <3>3. QED
      BY <1>5, <1>6, <2>4, <3>1, <3>2
  <2>5. QED
    BY <2>3, <2>4
<1>15. QED
  BY <1>8, <1>9, <1>10, <1>11, <1>12, <1>13, <1>14 DEF Supplies!DeskInv

LEMMA DeskMinute == ASSUME Supplies!DeskInv, Supplies!Minute PROVE Supplies!DeskInv'
<1>1. /\ recent' = [k \in DOMAIN recent |-> {}]
      /\ UNCHANGED <<case, item, log, told, req, begun, crashes, seen, crossed, late, excused>>
  BY DEF Supplies!Minute
<1>2. Supplies!TypeInv'
  BY <1>1 DEF Supplies!DeskInv, Supplies!TypeInv, Supplies!TypeOK
<1>3. Supplies!CrossInv'
  BY <1>1 DEF Supplies!DeskInv, Supplies!CrossInv, Supplies!Holds
<1>4. \A s \in Supplies!Slots : Supplies!RequestInv(req[s])'
  BY <1>1, RequestUnmoved
<1>5. \A i \in Items : Supplies!ItemInv(i)'
  BY <1>1 DEF Supplies!DeskInv, Supplies!ItemInv, Supplies!Open
<1>6. QED
  BY <1>1, <1>2, <1>3, <1>4, <1>5, CasesKept
     DEF Supplies!DeskInv, Supplies!BooksAreBacked, Supplies!ReceivedIsOnTheBooks, Supplies!Sources,
         Supplies!HeadsAreTold

\* A restart leaves nobody waiting to be told who is not accounted for.
LEMMA DeskCrash == ASSUME Supplies!Sound, Supplies!DeskInv, Supplies!Crash PROVE Supplies!DeskInv'
<1>1. /\ crashes' \in 0..MaxCrashes /\ req' = [r \in Supplies!Slots |-> Supplies!NoRequest]
      /\ excused' = [c \in Cases |-> excused[c] \cup UNION {req[r].todo : r \in
            {s \in Supplies!Slots : req[s] # Supplies!NoRequest /\ req[s].about = c}}]
      /\ UNCHANGED <<case, item, log, told, recent, begun, seen, crossed, late>>
  BY DEF Supplies!Crash, Supplies!DeskInv, Supplies!TypeInv, Supplies!TypeOK, Supplies!Sound
<1>2. /\ \A r \in Supplies!Slots : req[r] # Supplies!NoRequest => req[r].todo \subseteq Supplies!People
      /\ \A c \in Cases, r \in Supplies!Slots :
           req[r] # Supplies!NoRequest /\ req[r].about = c => req[r].todo \subseteq excused'[c]
      /\ \A c \in Cases : excused[c] \subseteq excused'[c]
  BY <1>1 DEF Supplies!DeskInv, Supplies!TypeInv, Supplies!Requests, Supplies!Presses,
       Supplies!Handlings, Supplies!Submissions, Supplies!Additions, Supplies!People
<1>3. excused' \in [Cases -> SUBSET Supplies!People]
  BY <1>1, <1>2 DEF Supplies!DeskInv, Supplies!TypeInv
<1>4. Supplies!TypeInv'
  BY <1>1, <1>3 DEF Supplies!DeskInv, Supplies!TypeInv, Supplies!TypeOK
<1>5. Supplies!CrossInv' /\ \A s \in Supplies!Slots : Supplies!RequestInv(req[s])'
  BY <1>1 DEF Supplies!CrossInv, Supplies!Holds, Supplies!RequestInv, Supplies!NoRequest
<1>6. \A i \in Items : Supplies!ItemInv(i)'
  BY <1>1 DEF Supplies!DeskInv, Supplies!ItemInv, Supplies!Open
<1>7. Supplies!HeadsAreTold'
  BY <1>1, <1>2 DEF Supplies!DeskInv, Supplies!HeadsAreTold
<1>8. QED
  BY <1>1, <1>4, <1>5, <1>6, <1>7, CasesKept
     DEF Supplies!DeskInv, Supplies!BooksAreBacked, Supplies!ReceivedIsOnTheBooks, Supplies!Sources

LEMMA DeskStep ==
  ASSUME Supplies!Sound, Supplies!DeskInv, [Supplies!Next]_(Supplies!vars)
  PROVE  Supplies!DeskInv'
<1>1. ASSUME NEW c \in Cases,
             Supplies!SubmitExpense(c) \/ Supplies!SubmitPurchase(c) \/ Supplies!SubmitDonation(c)
      PROVE  Supplies!DeskInv'
  BY <1>1, DeskSubmit DEF Supplies!SubmitExpense, Supplies!SubmitPurchase, Supplies!SubmitDonation
<1>2. ASSUME NEW c \in Cases, NEW b \in Supplies!Buttons, NEW s \in Supplies!Signs,
             Supplies!Press(c, b, s)
      PROVE  Supplies!DeskInv'
  BY <1>2, DeskPress
<1>3. CASE Supplies!AddItem
  BY <1>3, DeskAdd
<1>4. ASSUME NEW i \in Items, Supplies!CheckOut(i) \/ Supplies!CheckIn(i) \/ Supplies!Retire(i)
      PROVE  Supplies!DeskInv'
  <2>1. CASE Supplies!CheckOut(i)
    BY <2>1, DeskHandle DEF Supplies!CheckOut
  <2>2. CASE Supplies!CheckIn(i)
    <3>1. PICK n \in Supplies!Latest(i) : Supplies!Handle(i, "checkin", "available", n)
      BY <2>2 DEF Supplies!CheckIn
    <3>2. n \in Nat
      BY <3>1 DEF Supplies!Latest, Supplies!Open, Supplies!DeskInv, Supplies!TypeInv, Supplies!TypeOK
    <3>3. QED
      BY <3>1, <3>2, DeskHandle
  <2>3. CASE Supplies!Retire(i)
    BY <2>3, DeskHandle DEF Supplies!Retire
  <2>4. QED
    BY <1>4, <2>1, <2>2, <2>3
<1>5. ASSUME NEW r \in Supplies!Slots, NEW c \in Cases, Supplies!CommitCase(r, c) PROVE Supplies!DeskInv'
  BY <1>5, DeskCommit
<1>6. ASSUME NEW r \in Supplies!Slots, NEW m \in Heads \cup Command, Supplies!Notify(r, m)
      PROVE  Supplies!DeskInv'
  BY <1>6, DeskNotify DEF Supplies!People
<1>7. ASSUME NEW r \in Supplies!Slots, Supplies!CommitAdd(r) PROVE Supplies!DeskInv'
  BY <1>7, DeskCommitAdd
<1>8. ASSUME NEW r \in Supplies!Slots, NEW i \in Items, Supplies!CommitItem(r, i) PROVE Supplies!DeskInv'
  BY <1>8, DeskCommitItem
<1>9. CASE Supplies!Minute
  BY <1>9, DeskMinute
<1>10. CASE Supplies!Crash
  BY <1>10, DeskCrash
<1>11. CASE UNCHANGED Supplies!vars
  <2>1. UNCHANGED <<case, item, log, told, recent, req, begun, crashes, seen, crossed, late, excused>>
    BY <1>11 DEF Supplies!vars
  <2>2. Supplies!TypeInv' /\ Supplies!CrossInv'
    BY <2>1 DEF Supplies!DeskInv, Supplies!TypeInv, Supplies!TypeOK, Supplies!CrossInv, Supplies!Holds
  <2>3. \A s \in Supplies!Slots : Supplies!RequestInv(req[s])'
    BY <2>1, RequestUnmoved
  <2>4. \A i \in Items : Supplies!ItemInv(i)'
    BY <2>1 DEF Supplies!DeskInv, Supplies!ItemInv, Supplies!Open
  <2>5. QED
    BY <2>1, <2>2, <2>3, <2>4, CasesKept
       DEF Supplies!DeskInv, Supplies!BooksAreBacked, Supplies!ReceivedIsOnTheBooks, Supplies!Sources,
           Supplies!HeadsAreTold
<1>12. QED
  BY <1>1, <1>2, <1>3, <1>4, <1>5, <1>6, <1>7, <1>8, <1>9, <1>10, <1>11
     DEF Supplies!Next, Supplies!Begins, Supplies!Continues

(***************************************************************************)
(* The records of S4 are straight for every set of cases, items and people *)
(* and however many requests overlap, pages grow stale and restarts come.  *)
(***************************************************************************)
THEOREM DeskIsStraightCorrect == PortalSpec => []DeskIsStraight
<1> DEFINE IInv == page = "supplies" => Supplies!DeskInv
<1>1. PortalInit => IInv
  BY OnlySupplies, SuppliesAssumption, DeskInit
<1>2. IInv /\ [PortalNext]_allVars => IInv'
  <2> SUFFICES ASSUME page = "supplies", Supplies!DeskInv, [PortalNext]_allVars PROVE Supplies!DeskInv'
    BY PageStays
  <2>1. [Supplies!Next]_(Supplies!vars)
    BY OnlySupplySteps
  <2>2. QED
    BY <2>1, SuppliesAssumption, DeskStep
<1>3. IInv => DeskIsStraight
  <2>1. Supplies!DeskInv => Supplies!DeskIsStraight
    BY DEF Supplies!DeskIsStraight, Supplies!DeskInv, Supplies!TypeInv, Supplies!ItemInv,
       Supplies!LogTellsWhoHasIt
  <2>2. QED
    BY <2>1 DEF DeskIsStraight
<1> HIDE DEF IInv
<1>4. QED
  BY <1>1, <1>2, <1>3, PTL DEF PortalSpec

-----------------------------------------------------------------------------
(***************************************************************************)
(* Announcements and levels: BroadcastInv is inductive (see Broadcast).    *)
(***************************************************************************)
LEMMA OnlyNotices == page = "notices" /\ PortalInit => Notices!Init
BY DEF PortalInit, BrowserPages

LEMMA OnlyNoticeSteps ==
  page = "notices" /\ [PortalNext]_allVars => [Notices!Next]_(Notices!vars)
BY DEF PortalNext, PaymentStep, SupplyStep, NoticeStep, SignInStep, SessionStep, BrowserPages,
       allVars, noticeVars, Notices!vars

LEMMA NoticesInit == Notices!Sound /\ Notices!Init => Notices!BroadcastInv
<1> SUFFICES ASSUME Notices!Sound, Notices!Init PROVE Notices!BroadcastInv
  OBVIOUS
<1> USE DEF Notices!Init
<1>1. Notices!Numbered = {} /\ bell = {} /\ \A t \in Notices!Topics : t # 0
  BY DEF Notices!Numbered, Notices!Topics
<1>2. Notices!TypeInv
  BY <1>1 DEF Notices!Sound, Notices!TypeInv, Notices!TypeOK
<1>3. Notices!BellInv /\ Notices!CrossInv /\ \A r \in Notices!Slots : Notices!RequestInv(req[r])
  BY <1>1 DEF Notices!BellInv, Notices!CrossInv, Notices!Touched, Notices!Tells, Notices!RequestInv,
       Notices!NoRequest
<1>4. \A t \in Notices!Topics : Notices!TopicInv(t) /\ Notices!Unused(t)
  BY <1>1 DEF Notices!TopicInv, Notices!Settled, Notices!Stage, Notices!Bells, Notices!About,
       Notices!Standing, Notices!Unused, Notices!NoRequest
<1>5. QED
  BY <1>2, <1>3, <1>4 DEF Notices!BroadcastInv, Notices!PostedAreTold

\* The only request about a topic that nothing harmed.
LEMMA AloneOnTopic ==
  ASSUME Notices!BroadcastInv, NEW r \in Notices!Slots, req[r] # Notices!NoRequest,
         Notices!Unharmed(req[r].topic)
  PROVE  \A s \in Notices!Slots \ {r} : req[s].topic # req[r].topic
<1>1. \A s \in Notices!Slots : req[s] \in Notices!Requests \cup {Notices!NoRequest}
  BY DEF Notices!BroadcastInv, Notices!TypeInv
<1>2. \A s \in Notices!Slots : req[s].topic # 0 => req[s].topic \in Notices!Touched(req[s])
  BY <1>1 DEF Notices!Touched, Notices!Requests, Notices!Postings, Notices!Deletions, Notices!Edits,
       Notices!NoRequest
<1>3. req[r].topic # 0
  BY <1>1 DEF Notices!Requests, Notices!Postings, Notices!Deletions, Notices!Edits, Notices!Topics
<1>4. QED
  BY <1>2, <1>3 DEF Notices!BroadcastInv, Notices!CrossInv, Notices!Unharmed

\* A step about one topic leaves the numbers and the other topics as they are.
LEMMA NumbersStay ==
  ASSUME Notices!BroadcastInv, NEW u,
         \A a \in AnnIds : ann'[a] = ann[a] \/ (ann[a] = Notices!NoAnn /\ ann'[a].topic = u)
  PROVE  /\ Notices!Numbered \subseteq Notices!Numbered'
         /\ \A a \in Notices!Numbered : ann'[a] = ann[a]
         /\ \A n, t : Notices!Of(n, t) => n \in Notices!Numbered' /\ ann'[n].topic = t
BY DEF Notices!Numbered, Notices!Of

LEMMA OtherTopics ==
  ASSUME Notices!Sound, Notices!BroadcastInv, NEW r \in Notices!Slots, NEW u \in Notices!Topics,
         \A s \in Notices!Slots \ {r} : req'[s] = req[s],
         req[r].topic \in {0, u}, req'[r].topic \in {0, u},
         \A a \in AnnIds : ann'[a] = ann[a] \/ (ann[a] = Notices!NoAnn /\ ann'[a].topic = u),
         removed \subseteq removed', \A a \in removed' \ removed : ann[a].topic = u,
         \A b : b.topic # u => (b \in bell' <=> b \in bell),
         failed \subseteq failed', crossed \subseteq crossed',
         \A t : t # u => /\ t \in dropped' <=> t \in dropped
                         /\ t \in unrung' <=> t \in unrung
                         /\ t \in levels' <=> t \in levels
                         /\ t \in ended' => t \in ended,
         NEW t \in Notices!Topics, t # u
  PROVE  /\ Notices!TopicInv(t)'
         /\ Notices!LevelInv(t) => Notices!LevelInv(t)'
         /\ Notices!Unused(t) => Notices!Unused(t)'
<1>1. Notices!Bells(t)' = Notices!Bells(t)
  BY DEF Notices!Bells
<1>2. Notices!About(t)' = Notices!About(t) /\ \A a \in Notices!About(t) : ann'[a] = ann[a]
  BY DEF Notices!About, Notices!Standing, Notices!Numbered
<1>3. Notices!Unharmed(t)' => Notices!Unharmed(t)
  BY DEF Notices!Unharmed
<1>4. \A s \in Notices!Slots : /\ (req[s].topic = t) <=> (req'[s].topic = t)
                               /\ req[s].topic = t => req'[s] = req[s]
  BY DEF Notices!Topics
<1>5. Notices!TopicInv(t)'
  <2>1. ASSUME Notices!Unharmed(t)', NEW s \in Notices!Slots, req'[s].topic = t
        PROVE  Notices!Stage(req[s])'
    <3>1. Notices!Stage(req[s]) /\ req'[s] = req[s] /\ req[s].topic = t
      BY <1>3, <1>4, <2>1 DEF Notices!BroadcastInv, Notices!TopicInv
    <3>2. QED
      BY <1>1, <1>2, <3>1 DEF Notices!Stage
  <2>2. ASSUME Notices!Unharmed(t)', \A s \in Notices!Slots : req'[s].topic # t
        PROVE  Notices!Settled(t)'
    <3>1. Notices!Settled(t)
      BY <1>3, <1>4, <2>2 DEF Notices!BroadcastInv, Notices!TopicInv
    <3>2. QED
      BY <1>1, <1>2, <3>1 DEF Notices!Settled
  <2>3. QED
    BY <2>1, <2>2 DEF Notices!TopicInv
<1>6. Notices!LevelInv(t) => Notices!LevelInv(t)'
  <2>1. \A b : b \in bell /\ Notices!Bells(t) = {b} => b \in bell'
    BY DEF Notices!Bells
  <2>2. QED
    BY <1>1, <1>4, <2>1 DEF Notices!LevelInv, Notices!Tells
<1>7. Notices!Unused(t) => Notices!Unused(t)'
  BY <1>4 DEF Notices!Unused, Notices!Numbered
<1>8. QED
  BY <1>5, <1>6, <1>7

\* What is left to show of a step of a request: the next stage of its own topic.
LEMMA NoticeAdvances ==
  ASSUME Notices!Sound, Notices!BroadcastInv, NEW r \in Notices!Slots,
         NEW q \in Notices!Requests, q = req[r],
         NEW p \in Notices!Requests \cup {Notices!NoRequest}, req' = [req EXCEPT ![r] = p],
         p # Notices!NoRequest =>
           p.topic = q.topic /\ p.op = q.op /\ (Notices!Tells(p) => Notices!Tells(q)),
         ann' \in [AnnIds -> [topic : Notices!Topics, version : 0..NoticeRequests] \cup {Notices!NoAnn}],
         \A a \in AnnIds : ann'[a] = ann[a] \/ (ann[a] = Notices!NoAnn /\ ann'[a].topic = q.topic),
         removed \subseteq removed', removed' \subseteq Notices!Numbered',
         \A a \in removed' \ removed : ann[a].topic = q.topic,
         \A b \in bell' : b \in [topic : Notices!Topics, source : AnnIds \cup {0}, read : BOOLEAN],
         \A b : b.topic # q.topic => (b \in bell' <=> b \in bell),
         \A b \in bell' \ bell : b.source # 0 => Notices!Of(b.source, b.topic)',
         faults' \in 0..MaxFaults, failed \subseteq failed', crossed' = crossed,
         level' = level, begun' = begun, levels' = levels,
         dropped \subseteq dropped', dropped' \subseteq dropped \cup {q.topic},
         unrung \subseteq unrung', unrung' \subseteq unrung \cup {q.topic},
         ended' \subseteq ended \cup {q.topic},
         p # Notices!NoRequest =>
           /\ p.number # 0 => Notices!Of(p.number, p.topic)'
           /\ p.pc \in {"repost", "purge"} => p.topic \in dropped',
         p # Notices!NoRequest /\ Notices!Unharmed(q.topic)' => Notices!Stage(p)',
         p = Notices!NoRequest /\ Notices!Unharmed(q.topic)' => Notices!Settled(q.topic)',
         0 \notin failed' /\ q.topic \in levels \ (dropped' \cup unrung') => Notices!LevelInv(q.topic)',
         q.topic \in ended' \ (dropped' \cup unrung') => \E b \in bell' : b.topic = q.topic
  PROVE  Notices!BroadcastInv'
<1>1. /\ req \in [Notices!Slots -> Notices!Requests \cup {Notices!NoRequest}]
      /\ \A s \in Notices!Slots : req'[s] = IF s = r THEN p ELSE req[s]
      /\ q.topic \in Notices!Topics /\ q # Notices!NoRequest /\ q.pc # "none"
      /\ 0 \notin Notices!Topics /\ q.topic <= begun
  <2>1. req \in [Notices!Slots -> Notices!Requests \cup {Notices!NoRequest}]
    BY DEF Notices!BroadcastInv, Notices!TypeInv
  <2>2. q.topic \in Notices!Topics /\ 0 \notin Notices!Topics /\ q.pc # "none"
    BY DEF Notices!Requests, Notices!Postings, Notices!Deletions, Notices!Edits, Notices!Topics
  <2>3. q.topic <= begun
    BY <2>2 DEF Notices!BroadcastInv, Notices!Unused, Notices!Topics, Notices!TypeInv, Notices!TypeOK
  <2>4. QED
    BY <2>1, <2>2, <2>3 DEF Notices!NoRequest
<1>2. p.topic \in {0, q.topic} /\ Notices!NoRequest.topic = 0 /\ Notices!NoRequest.pc = "none"
  BY DEF Notices!NoRequest
<1>3. /\ Notices!Numbered \subseteq Notices!Numbered'
      /\ \A a \in Notices!Numbered : ann'[a] = ann[a]
      /\ \A n, t : Notices!Of(n, t) => Notices!Of(n, t)'
  BY NumbersStay DEF Notices!Of
<1>4. \A t \in Notices!Topics \ {q.topic} :
        /\ Notices!TopicInv(t)'
        /\ Notices!LevelInv(t) => Notices!LevelInv(t)'
        /\ Notices!Unused(t) => Notices!Unused(t)'
  <2>1. TAKE t \in Notices!Topics \ {q.topic}
  <2>2. \A x : x # q.topic => /\ x \in dropped' <=> x \in dropped
                              /\ x \in unrung' <=> x \in unrung
                              /\ x \in levels' <=> x \in levels
                              /\ x \in ended' => x \in ended
    OBVIOUS
  <2>3. \A s \in Notices!Slots \ {r} : req'[s] = req[s]
    BY <1>1
  <2>4. req[r].topic \in {0, q.topic} /\ req'[r].topic \in {0, q.topic}
    BY <1>1, <1>2
  <2>5. QED
    BY <1>1, <2>2, <2>3, <2>4, OtherTopics
<1>5. Notices!TypeInv'
  <2>1. ended' \subseteq Notices!Topics /\ level' \in 0..NoticeRequests /\ begun' \in 0..NoticeRequests
    BY <1>1 DEF Notices!BroadcastInv, Notices!TypeInv, Notices!TypeOK
  <2>2. \A a \in Notices!Numbered' : ann'[a] \in [topic : Notices!Topics, version : 0..NoticeRequests]
    BY DEF Notices!Numbered
  <2>3. req' \in [Notices!Slots -> Notices!Requests \cup {Notices!NoRequest}]
    BY <1>1
  <2>4. QED
    BY <2>1, <2>2, <2>3 DEF Notices!TypeInv, Notices!TypeOK
<1>6. Notices!BellInv'
  BY <1>3 DEF Notices!BellInv, Notices!BroadcastInv
<1>7. Notices!CrossInv'
  <2>1. /\ Notices!Touched(p) \subseteq Notices!Touched(q)
        /\ Notices!Tells(p) => Notices!Tells(q) /\ p.topic = q.topic
    BY <1>1, <1>2 DEF Notices!Touched, Notices!Tells
  <2>2. \A s, t \in Notices!Slots : s # t =>
          /\ Notices!Touched(req[s]) \cap Notices!Touched(req[t]) \subseteq crossed
          /\ Notices!Tells(req[s]) /\ Notices!Tells(req[t]) => req[s].topic # req[t].topic
    BY DEF Notices!BroadcastInv, Notices!CrossInv
  <2>3. ASSUME NEW s \in Notices!Slots, NEW t \in Notices!Slots, s # t
        PROVE  /\ Notices!Touched(req'[s]) \cap Notices!Touched(req'[t]) \subseteq crossed
               /\ Notices!Tells(req'[s]) /\ Notices!Tells(req'[t]) => req'[s].topic # req'[t].topic
    <3>1. /\ Notices!Touched(req'[s]) \subseteq Notices!Touched(req[s])
          /\ Notices!Tells(req'[s]) => Notices!Tells(req[s]) /\ req'[s].topic = req[s].topic
      BY <1>1, <2>1
    <3>2. /\ Notices!Touched(req'[t]) \subseteq Notices!Touched(req[t])
          /\ Notices!Tells(req'[t]) => Notices!Tells(req[t]) /\ req'[t].topic = req[t].topic
      BY <1>1, <2>1
    <3>3. QED
      BY <2>2, <2>3, <3>1, <3>2
  <2>4. QED
    BY <2>3 DEF Notices!CrossInv, Notices!Touched, Notices!Tells
<1>8. \A s \in Notices!Slots : Notices!RequestInv(req[s])'
  <2>1. TAKE s \in Notices!Slots
  <2>2. CASE s = r
    BY <1>1, <1>2, <2>2 DEF Notices!RequestInv
  <2>3. CASE s # r
    <3>1. Notices!RequestInv(req[s]) /\ req'[s] = req[s]
      BY <1>1, <2>3 DEF Notices!BroadcastInv
    <3>2. QED
      BY <1>3, <3>1 DEF Notices!RequestInv
  <2>4. QED
    BY <2>2, <2>3
<1>9. Notices!TopicInv(q.topic)'
  <2>1. CASE Notices!Unharmed(q.topic)'
    <3>1. \A s \in Notices!Slots \ {r} : req'[s].topic # q.topic
      <4>1. Notices!Unharmed(q.topic)
        BY <2>1 DEF Notices!Unharmed
      <4>2. QED
        BY <1>1, <4>1, AloneOnTopic
    <3>2. req'[r] = p
      BY <1>1
    <3>3. \A s \in Notices!Slots : req'[s].topic = q.topic => Notices!Stage(req[s])'
      <4>1. SUFFICES ASSUME req'[r].topic = q.topic PROVE Notices!Stage(req[r])'
        BY <3>1
      <4>2. p # Notices!NoRequest
        BY <1>1, <1>2, <3>2, <4>1
      <4>3. Notices!Stage(p)'
        BY <2>1, <4>2
      <4>4. QED
        BY <3>2, <4>3 DEF Notices!Stage, Notices!About, Notices!Bells
    <3>4. (\A s \in Notices!Slots : req'[s].topic # q.topic) => Notices!Settled(q.topic)'
      BY <2>1, <3>2
    <3>5. QED
      BY <3>3, <3>4 DEF Notices!TopicInv
  <2>2. QED
    BY <2>1 DEF Notices!TopicInv
<1>10. \A t \in Notices!Topics : Notices!TopicInv(t)' /\ (begun' < t => Notices!Unused(t)')
  <2>1. begun \in Int /\ q.topic \in Int
    BY <1>1 DEF Notices!Topics, Notices!BroadcastInv, Notices!TypeInv, Notices!TypeOK
  <2>2. \A t \in Notices!Topics : begun < t => Notices!Unused(t) /\ t # q.topic
    BY <1>1, <2>1 DEF Notices!BroadcastInv, Notices!Topics
  <2>3. QED
    BY <1>4, <1>9, <2>2
<1>11. 0 \notin failed' => \A t \in levels' \ (dropped' \cup unrung') : Notices!LevelInv(t)'
  BY <1>4 DEF Notices!BroadcastInv
<1>12. levels' \subseteq Notices!Topics /\ Notices!PostedAreTold'
  <2>1. levels' \subseteq Notices!Topics
    BY DEF Notices!BroadcastInv
  <2>2. \A t \in ended' \ (dropped' \cup unrung') : \E b \in bell' : b.topic = t
    BY DEF Notices!BroadcastInv, Notices!PostedAreTold
  <2>3. QED
    BY <2>1, <2>2 DEF Notices!PostedAreTold
<1>13. QED
  BY <1>5, <1>6, <1>7, <1>8, <1>10, <1>11, <1>12 DEF Notices!BroadcastInv

\* What BroadcastInv says of one request.
LEMMA NoticeRequest ==
  ASSUME Notices!Sound, Notices!BroadcastInv, NEW r \in Notices!Slots, req[r].pc # "none"
  PROVE  /\ req[r] \in Notices!Requests /\ Notices!RequestInv(req[r])
         /\ req[r].topic \in Notices!Topics
         /\ Notices!Unharmed(req[r].topic) => Notices!Stage(req[r])
         /\ Notices!Tells(req[r]) /\ 0 \notin failed /\ req[r].topic \in levels \ (dropped \cup unrung) =>
              Notices!Bells(req[r].topic) = {} /\ req[r].op = "level"
<1>1. req[r] \in Notices!Requests
  BY DEF Notices!BroadcastInv, Notices!TypeInv, Notices!NoRequest
<1>2. req[r].topic \in Notices!Topics
  BY <1>1 DEF Notices!Requests, Notices!Postings, Notices!Deletions, Notices!Edits
<1>3. Notices!RequestInv(req[r]) /\ (Notices!Unharmed(req[r].topic) => Notices!Stage(req[r]))
  BY <1>2 DEF Notices!BroadcastInv, Notices!TopicInv
<1>4. ASSUME Notices!Tells(req[r]), 0 \notin failed, req[r].topic \in levels \ (dropped \cup unrung)
      PROVE  Notices!Bells(req[r].topic) = {} /\ req[r].op = "level"
  <2>1. Notices!LevelInv(req[r].topic)
    BY <1>4 DEF Notices!BroadcastInv
  <2>2. PICK s \in Notices!Slots : /\ Notices!Tells(req[s]) /\ req[s].op = "level"
                                   /\ req[s].topic = req[r].topic /\ Notices!Bells(req[r].topic) = {}
    BY <1>4, <2>1 DEF Notices!LevelInv
  <2>3. s = r
    BY <1>4, <2>2 DEF Notices!BroadcastInv, Notices!CrossInv
  <2>4. QED
    BY <2>2, <2>3
<1>5. QED
  BY <1>1, <1>2, <1>3, <1>4

\* A number nobody had is put up for a topic.
LEMMA PutFacts ==
  ASSUME Notices!Sound, Notices!BroadcastInv, NEW n \in Notices!NextNumber, NEW t \in Notices!Topics,
         NEW v \in 0..NoticeRequests, Notices!Put(n, t, v)
  PROVE  /\ n \in AnnIds /\ n # 0 /\ n \notin Notices!Numbered /\ n \notin removed
         /\ ann' = [a \in AnnIds |-> IF a = n THEN [topic |-> t, version |-> v] ELSE ann[a]]
         /\ ann' \in [AnnIds -> [topic : Notices!Topics, version : 0..NoticeRequests] \cup {Notices!NoAnn}]
         /\ \A a \in AnnIds : ann'[a] = ann[a] \/ (ann[a] = Notices!NoAnn /\ ann'[a].topic = t)
         /\ Notices!Numbered' = Notices!Numbered \cup {n} /\ Notices!Of(n, t)'
         /\ removed' = removed => Notices!About(t)' = Notices!About(t) \cup {n}
<1>1. /\ ann \in [AnnIds -> [topic : Notices!Topics, version : 0..NoticeRequests] \cup {Notices!NoAnn}]
      /\ removed \subseteq Notices!Numbered
  BY DEF Notices!BroadcastInv, Notices!TypeInv, Notices!TypeOK
<1>2. n \in AnnIds /\ n # 0 /\ n \notin Notices!Numbered
  BY DEF Notices!NextNumber, Notices!Sound
<1>3. ann' = [a \in AnnIds |-> IF a = n THEN [topic |-> t, version |-> v] ELSE ann[a]]
  BY <1>1, <1>2 DEF Notices!Put
<1>4. [topic |-> t, version |-> v] # Notices!NoAnn /\ ann[n] = Notices!NoAnn
  BY <1>2 DEF Notices!NoAnn, Notices!Topics, Notices!Numbered
<1>5. Notices!Numbered' = Notices!Numbered \cup {n}
  BY <1>2, <1>3, <1>4 DEF Notices!Numbered
<1>6. ASSUME removed' = removed PROVE Notices!About(t)' = Notices!About(t) \cup {n}
  BY <1>1, <1>2, <1>3, <1>5, <1>6 DEF Notices!About, Notices!Standing, Notices!Numbered
<1>7. QED
  BY <1>1, <1>2, <1>3, <1>4, <1>5, <1>6 DEF Notices!Of

LEMMA NoticeCreate ==
  ASSUME Notices!Sound, Notices!BroadcastInv, NEW r \in Notices!Slots, Notices!Create(r)
  PROVE  Notices!BroadcastInv'
<1>1. PICK q \in Notices!Requests : q = req[r] /\ q.pc = "post" /\ q.op \in {"post", "level"}
  BY NoticeRequest DEF Notices!Create
<1>2. /\ q.topic \in Notices!Topics /\ q.number = 0 /\ Notices!Tells(q)
      /\ q \in [pc : {"post"}, op : {"post", "level"}, topic : Notices!Topics, number : {0}]
  BY <1>1 DEF Notices!Requests, Notices!Postings, Notices!Deletions, Notices!Edits, Notices!Tells
<1>3. PICK n \in Notices!NextNumber, known \in BOOLEAN :
        /\ Notices!Put(n, q.topic, 0)
        /\ IF known THEN UNCHANGED <<faults, failed>> ELSE Notices!Fault(q.topic)
        /\ req' = [req EXCEPT ![r] = [q EXCEPT !.pc = "bell", !.number = IF known THEN n ELSE 0]]
  <2>1. req[r] = q
    BY <1>1
  <2>2. QED
    BY <2>1 DEF Notices!Create
<1>4. PICK p \in Notices!Requests :
        /\ p = [q EXCEPT !.pc = "bell", !.number = IF known THEN n ELSE 0]
        /\ p.pc = "bell" /\ p.topic = q.topic /\ p.op = q.op
        /\ p.number = IF known THEN n ELSE 0
  <2> DEFINE x == [q EXCEPT !.pc = "bell", !.number = IF known THEN n ELSE 0]
  <2>1. x \in [pc : {"bell"}, op : {"post", "level"}, topic : Notices!Topics, number : AnnIds \cup {0}]
    BY <1>2 DEF Notices!NextNumber
  <2>2. x.pc = "bell" /\ x.topic = q.topic /\ x.op = q.op /\ x.number = IF known THEN n ELSE 0
    BY <1>2
  <2> HIDE DEF x
  <2>3. x \in Notices!Requests
    BY <2>1 DEF Notices!Requests, Notices!Postings
  <2>4. QED
    BY <2>2, <2>3 DEF x
<1>5. /\ ann' \in [AnnIds -> [topic : Notices!Topics, version : 0..NoticeRequests] \cup {Notices!NoAnn}]
      /\ \A a \in AnnIds : ann'[a] = ann[a] \/ (ann[a] = Notices!NoAnn /\ ann'[a].topic = q.topic)
      /\ Notices!Numbered' = Notices!Numbered \cup {n} /\ Notices!Of(n, q.topic)'
      /\ removed' = removed => Notices!About(q.topic)' = Notices!About(q.topic) \cup {n}
  BY <1>2, <1>3, PutFacts DEF Notices!Sound
<1>6. /\ UNCHANGED <<removed, level, bell, begun, crossed, ended, dropped, unrung, levels>>
      /\ faults' \in 0..MaxFaults /\ failed \subseteq failed' /\ (~known => q.topic \in failed')
      /\ removed \subseteq Notices!Numbered
      /\ \A b \in bell : b \in [topic : Notices!Topics, source : AnnIds \cup {0}, read : BOOLEAN]
  BY <1>3 DEF Notices!Create, Notices!hist, Notices!Fault, Notices!Sound, Notices!BroadcastInv,
              Notices!TypeInv, Notices!TypeOK
<1>7. req' = [req EXCEPT ![r] = p] /\ p # Notices!NoRequest
  BY <1>3, <1>4 DEF Notices!NoRequest
<1>8. ASSUME Notices!Unharmed(q.topic)' PROVE Notices!Stage(p)'
  <2>1. Notices!Unharmed(q.topic) /\ known
    BY <1>6, <1>8 DEF Notices!Unharmed
  <2>2. Notices!Stage(q)
    BY <1>1, <2>1, NoticeRequest
  <2>3. Notices!Bells(q.topic)' = {} /\ q.topic \notin dropped' /\ Notices!About(q.topic)' = {n}
    BY <1>1, <1>5, <1>6, <2>2 DEF Notices!Stage, Notices!Bells
  <2>4. QED
    BY <1>4, <2>1, <2>3 DEF Notices!Stage
<1>9. ASSUME 0 \notin failed', q.topic \in levels \ (dropped' \cup unrung') PROVE Notices!LevelInv(q.topic)'
  <2>1. Notices!Bells(q.topic) = {} /\ q.op = "level"
    BY <1>1, <1>2, <1>6, <1>9, NoticeRequest
  <2>2. Notices!Tells(p)' /\ p.op = "level" /\ p.topic = q.topic /\ req'[r] = p
    BY <1>4, <1>7, <2>1 DEF Notices!Tells, Notices!BroadcastInv, Notices!TypeInv
  <2>3. QED
    BY <1>6, <2>1, <2>2 DEF Notices!LevelInv, Notices!Bells, Notices!Tells
<1>10. q.topic \in ended' \ (dropped' \cup unrung') => \E b \in bell' : b.topic = q.topic
  BY <1>6 DEF Notices!BroadcastInv, Notices!PostedAreTold
<1>11. p.number # 0 => Notices!Of(p.number, p.topic)'
  BY <1>4, <1>5
<1>12. /\ removed \subseteq removed' /\ removed' \subseteq Notices!Numbered' /\ removed' \ removed = {}
       /\ bell' \ bell = {} /\ \A b : b.topic # q.topic => (b \in bell' <=> b \in bell)
       /\ dropped \subseteq dropped' /\ dropped' \subseteq dropped \cup {q.topic}
       /\ unrung \subseteq unrung' /\ unrung' \subseteq unrung \cup {q.topic}
       /\ ended' \subseteq ended \cup {q.topic}
       /\ \A b \in bell' : b \in [topic : Notices!Topics, source : AnnIds \cup {0}, read : BOOLEAN]
  BY <1>5, <1>6
<1>13. p.topic = q.topic /\ p.op = q.op /\ (Notices!Tells(p) => Notices!Tells(q))
       /\ p.pc \notin {"repost", "purge"}
  BY <1>2, <1>4
<1>14. QED
  BY <1>1, <1>5, <1>6, <1>7, <1>8, <1>9, <1>10, <1>11, <1>12, <1>13, NoticeAdvances

\* Nothing is put up.
LEMMA NothingPut ==
  ASSUME Notices!BroadcastInv, ann' = ann, NEW t
  PROVE  /\ ann' \in [AnnIds -> [topic : Notices!Topics, version : 0..NoticeRequests] \cup {Notices!NoAnn}]
         /\ \A a \in AnnIds : ann'[a] = ann[a] \/ (ann[a] = Notices!NoAnn /\ ann'[a].topic = t)
         /\ Notices!Numbered' = Notices!Numbered /\ removed \subseteq Notices!Numbered
         /\ \A n, x : Notices!Of(n, x)' <=> Notices!Of(n, x)
BY DEF Notices!BroadcastInv, Notices!TypeInv, Notices!TypeOK, Notices!Numbered, Notices!Of

LEMMA NoticeCreateFails ==
  ASSUME Notices!Sound, Notices!BroadcastInv, NEW r \in Notices!Slots, Notices!CreateFails(r)
  PROVE  Notices!BroadcastInv'
<1>1. PICK q \in Notices!Requests : q = req[r] /\ q.pc = "post" /\ q.op \in {"post", "level"}
  BY NoticeRequest DEF Notices!CreateFails
<1>2. /\ q.topic \in Notices!Topics /\ q.number = 0 /\ Notices!Tells(q)
      /\ q \in [pc : {"post"}, op : {"post", "level"}, topic : Notices!Topics, number : {0}]
  BY <1>1 DEF Notices!Requests, Notices!Postings, Notices!Deletions, Notices!Edits, Notices!Tells
<1>3. /\ UNCHANGED <<removed, level, bell, begun, crossed, ended, dropped, unrung, levels>>
      /\ faults' \in 0..MaxFaults /\ failed' = failed \cup {q.topic}
      /\ removed \subseteq Notices!Numbered
      /\ \A b \in bell : b \in [topic : Notices!Topics, source : AnnIds \cup {0}, read : BOOLEAN]
  BY <1>1 DEF Notices!CreateFails, Notices!hist, Notices!Fault, Notices!Sound, Notices!BroadcastInv,
              Notices!TypeInv, Notices!TypeOK
<1>4. PICK p \in Notices!Requests \cup {Notices!NoRequest} :
        /\ req' = [req EXCEPT ![r] = p]
        /\ p # Notices!NoRequest => /\ p.topic = q.topic /\ p.op = q.op /\ p.number = 0 /\ p.pc = "bell"
        /\ q.op = "level" => p # Notices!NoRequest
  <2>1. CASE q.op = "post"
    <3>1. req' = [req EXCEPT ![r] = Notices!NoRequest]
      BY <1>1, <2>1 DEF Notices!CreateFails, Notices!AfterRefusal, Notices!End
    <3>2. QED
      BY <2>1, <3>1
  <2>2. CASE q.op = "level"
    <3> DEFINE x == [q EXCEPT !.pc = "bell"]
    <3>1. req' = [req EXCEPT ![r] = x]
      BY <1>1, <2>2 DEF Notices!CreateFails, Notices!AfterRefusal, Notices!Goto
    <3>2. x \in [pc : {"bell"}, op : {"post", "level"}, topic : Notices!Topics, number : AnnIds \cup {0}]
      BY <1>2
    <3>3. x.topic = q.topic /\ x.op = q.op /\ x.number = 0 /\ x.pc = "bell"
      BY <1>2
    <3>4. x # Notices!NoRequest
      BY <3>3 DEF Notices!NoRequest
    <3> HIDE DEF x
    <3>5. x \in Notices!Requests
      BY <3>2 DEF Notices!Requests, Notices!Postings
    <3>6. QED
      BY <3>1, <3>3, <3>4, <3>5
  <2>3. QED
    BY <1>1, <2>1, <2>2
<1>5. /\ ann' \in [AnnIds -> [topic : Notices!Topics, version : 0..NoticeRequests] \cup {Notices!NoAnn}]
      /\ \A a \in AnnIds : ann'[a] = ann[a] \/ (ann[a] = Notices!NoAnn /\ ann'[a].topic = q.topic)
      /\ Notices!Numbered \subseteq Notices!Numbered'
  <2>1. CASE ann' = ann
    BY <2>1, NothingPut
  <2>2. ASSUME NEW n \in Notices!NextNumber, Notices!Put(n, q.topic, 0)
        PROVE  <1>5!:
    BY <1>2, <2>2, PutFacts DEF Notices!Sound
  <2>3. QED
    BY <1>1, <2>1, <2>2 DEF Notices!CreateFails
<1>6. ASSUME 0 \notin failed', q.topic \in levels \ (dropped' \cup unrung') PROVE Notices!LevelInv(q.topic)'
  <2>1. Notices!Bells(q.topic) = {} /\ q.op = "level"
    BY <1>1, <1>2, <1>3, <1>6, NoticeRequest
  <2>2. Notices!Tells(p)' /\ p.op = "level" /\ p.topic = q.topic /\ req'[r] = p
    BY <1>4, <2>1 DEF Notices!Tells, Notices!BroadcastInv, Notices!TypeInv
  <2>3. QED
    BY <1>3, <2>1, <2>2 DEF Notices!LevelInv, Notices!Bells, Notices!Tells
<1>7. q.topic \in ended' \ (dropped' \cup unrung') => \E b \in bell' : b.topic = q.topic
  BY <1>3 DEF Notices!BroadcastInv, Notices!PostedAreTold
<1>8. ~ Notices!Unharmed(q.topic)'
  BY <1>3 DEF Notices!Unharmed
<1>9. /\ removed \subseteq removed' /\ removed' \subseteq Notices!Numbered' /\ removed' \ removed = {}
      /\ bell' \ bell = {} /\ \A b : b.topic # q.topic => (b \in bell' <=> b \in bell)
      /\ dropped \subseteq dropped' /\ dropped' \subseteq dropped \cup {q.topic}
      /\ unrung \subseteq unrung' /\ unrung' \subseteq unrung \cup {q.topic}
      /\ ended' \subseteq ended \cup {q.topic} /\ failed \subseteq failed'
      /\ \A b \in bell' : b \in [topic : Notices!Topics, source : AnnIds \cup {0}, read : BOOLEAN]
  BY <1>3, <1>5
<1>10. p # Notices!NoRequest =>
         /\ p.topic = q.topic /\ p.op = q.op /\ (Notices!Tells(p) => Notices!Tells(q))
         /\ p.pc \notin {"repost", "purge"} /\ p.number = 0
  BY <1>2, <1>4
<1>11. QED
  BY <1>1, <1>3, <1>4, <1>5, <1>6, <1>7, <1>8, <1>9, <1>10, NoticeAdvances

LEMMA NoticeRing ==
  ASSUME Notices!Sound, Notices!BroadcastInv, NEW r \in Notices!Slots, Notices!Ring(r)
  PROVE  Notices!BroadcastInv'
<1>1. PICK q \in Notices!Requests : q = req[r] /\ q.pc = "bell" /\ Notices!RequestInv(q)
  BY NoticeRequest DEF Notices!Ring
<1>2. q.topic \in Notices!Topics /\ q.number \in AnnIds \cup {0} /\ Notices!Tells(q)
  BY <1>1 DEF Notices!Requests, Notices!Postings, Notices!Deletions, Notices!Edits, Notices!Tells
<1>3. PICK new \in [topic : Notices!Topics, source : AnnIds \cup {0}, read : BOOLEAN] :
        /\ new.topic = q.topic /\ new.source = q.number
        /\ bell' = bell \cup {new}
  <2> DEFINE x == [topic |-> q.topic, source |-> q.number, read |-> FALSE]
  <2>1. x \in [topic : Notices!Topics, source : AnnIds \cup {0}, read : BOOLEAN]
    BY <1>2
  <2>2. x.topic = q.topic /\ x.source = q.number
    OBVIOUS
  <2>3. bell' = bell \cup {x}
    BY <1>1 DEF Notices!Ring, Notices!Source
  <2> HIDE DEF x
  <2>4. QED
    BY <2>1, <2>2, <2>3
<1>4. /\ UNCHANGED <<ann, removed, level, begun, faults, failed, crossed, dropped, unrung, levels>>
      /\ ended' = ended \cup {q.topic} /\ req' = [req EXCEPT ![r] = Notices!NoRequest]
      /\ faults' \in 0..MaxFaults
      /\ \A b \in bell' : b \in [topic : Notices!Topics, source : AnnIds \cup {0}, read : BOOLEAN]
  BY <1>1, <1>3 DEF Notices!Ring, Notices!End, Notices!BroadcastInv, Notices!TypeInv, Notices!TypeOK
<1>5. \A b \in bell' \ bell : b.source # 0 => Notices!Of(b.source, b.topic)'
  BY <1>1, <1>3, <1>4, NothingPut DEF Notices!RequestInv
<1>6. Notices!Bells(q.topic) = {} => Notices!Bells(q.topic)' = {new}
  BY <1>3 DEF Notices!Bells
<1>7. ASSUME Notices!Unharmed(q.topic)' PROVE Notices!Settled(q.topic)'
  <2>1. Notices!Stage(q)
    BY <1>1, <1>4, <1>7, NoticeRequest DEF Notices!Unharmed
  <2>2. Notices!Bells(q.topic)' = {new} /\ q.topic \notin dropped' /\ Notices!About(q.topic)' = {q.number}
    BY <1>1, <1>4, <1>6, <2>1 DEF Notices!Stage, Notices!About, Notices!Standing, Notices!Numbered
  <2>3. QED
    BY <1>3, <2>2 DEF Notices!Settled
<1>8. ASSUME 0 \notin failed', q.topic \in levels \ (dropped' \cup unrung') PROVE Notices!LevelInv(q.topic)'
  <2>1. Notices!Bells(q.topic)' = {new}
    BY <1>1, <1>2, <1>4, <1>6, <1>8, NoticeRequest
  <2>2. \A s \in Notices!Slots : Notices!Tells(req'[s]) => req'[s].topic # q.topic
    <3>1. \A s \in Notices!Slots : req'[s] = IF s = r THEN Notices!NoRequest ELSE req[s]
      BY <1>4 DEF Notices!BroadcastInv, Notices!TypeInv
    <3>2. ~ Notices!Tells(Notices!NoRequest)
      BY DEF Notices!Tells, Notices!NoRequest
    <3>3. QED
      BY <1>1, <1>2, <3>1, <3>2 DEF Notices!BroadcastInv, Notices!CrossInv
  <2>3. QED
    BY <1>3, <2>1, <2>2 DEF Notices!LevelInv, Notices!Tells
<1>9. \E b \in bell' : b.topic = q.topic
  BY <1>3
<1>10. /\ removed \subseteq removed' /\ removed' \subseteq Notices!Numbered' /\ removed' \ removed = {}
       /\ \A b : b.topic # q.topic => (b \in bell' <=> b \in bell)
       /\ dropped \subseteq dropped' /\ dropped' \subseteq dropped \cup {q.topic}
       /\ unrung \subseteq unrung' /\ unrung' \subseteq unrung \cup {q.topic}
       /\ ended' \subseteq ended \cup {q.topic} /\ failed \subseteq failed'
       /\ ann' \in [AnnIds -> [topic : Notices!Topics, version : 0..NoticeRequests] \cup {Notices!NoAnn}]
       /\ \A a \in AnnIds : ann'[a] = ann[a] \/ (ann[a] = Notices!NoAnn /\ ann'[a].topic = q.topic)
  BY <1>3, <1>4, NothingPut
<1>11. Notices!NoRequest \in Notices!Requests \cup {Notices!NoRequest}
  OBVIOUS
<1>12. QED
  BY <1>1, <1>4, <1>5, <1>7, <1>8, <1>9, <1>10, <1>11, NoticeAdvances

LEMMA NoticeRingFails ==
  ASSUME Notices!Sound, Notices!BroadcastInv, NEW r \in Notices!Slots, Notices!RingFails(r)
  PROVE  Notices!BroadcastInv'
<1>1. PICK q \in Notices!Requests : q = req[r] /\ q.pc = "bell" /\ Notices!RequestInv(q)
  BY NoticeRequest DEF Notices!RingFails
<1>2. q.topic \in Notices!Topics
  BY <1>1 DEF Notices!Requests, Notices!Postings, Notices!Deletions, Notices!Edits
<1>3. /\ UNCHANGED <<ann, removed, level, bell, begun, faults, failed, crossed, dropped, levels>>
      /\ ended' = ended \cup {q.topic} /\ unrung' = unrung \cup {q.topic}
      /\ req' = [req EXCEPT ![r] = Notices!NoRequest]
      /\ faults' \in 0..MaxFaults
      /\ \A b \in bell' : b \in [topic : Notices!Topics, source : AnnIds \cup {0}, read : BOOLEAN]
  BY <1>1 DEF Notices!RingFails, Notices!End, Notices!BroadcastInv, Notices!TypeInv, Notices!TypeOK
<1>4. ASSUME Notices!Unharmed(q.topic)' PROVE Notices!Settled(q.topic)'
  <2>1. Notices!Stage(q)
    BY <1>1, <1>3, <1>4, NoticeRequest DEF Notices!Unharmed
  <2>2. Notices!Bells(q.topic)' = {} /\ q.topic \notin dropped' /\ Notices!About(q.topic)' = {q.number}
    BY <1>1, <1>3, <2>1 DEF Notices!Stage, Notices!Bells, Notices!About, Notices!Standing, Notices!Numbered
  <2>3. QED
    BY <2>2 DEF Notices!Settled
<1>5. q.topic \in unrung'
  BY <1>3
<1>6. /\ removed \subseteq removed' /\ removed' \subseteq Notices!Numbered' /\ removed' \ removed = {}
      /\ bell' \ bell = {} /\ \A b : b.topic # q.topic => (b \in bell' <=> b \in bell)
      /\ dropped \subseteq dropped' /\ dropped' \subseteq dropped \cup {q.topic}
      /\ unrung \subseteq unrung' /\ unrung' \subseteq unrung \cup {q.topic}
      /\ ended' \subseteq ended \cup {q.topic} /\ failed \subseteq failed'
      /\ ann' \in [AnnIds -> [topic : Notices!Topics, version : 0..NoticeRequests] \cup {Notices!NoAnn}]
      /\ \A a \in AnnIds : ann'[a] = ann[a] \/ (ann[a] = Notices!NoAnn /\ ann'[a].topic = q.topic)
  BY <1>3, NothingPut
<1>7. Notices!NoRequest \in Notices!Requests \cup {Notices!NoRequest}
  OBVIOUS
<1>8. QED
  BY <1>1, <1>3, <1>4, <1>5, <1>6, <1>7, NoticeAdvances

\* A deletion or an edit goes on to its next call.
LEMMA GoesOn ==
  ASSUME NEW q \in Notices!Requests, q.pc \in {"remove", "repost"}, NEW next \in {"repost", "purge"},
         next = "repost" => q.op = "edit"
  PROVE  LET x == [q EXCEPT !.pc = next] IN
         /\ x \in Notices!Requests /\ x # Notices!NoRequest /\ x.pc = next
         /\ x.op = q.op /\ x.topic = q.topic /\ x.number = q.number
<1>1. q \in Notices!Deletions \cup Notices!Edits
  BY DEF Notices!Requests, Notices!Postings, Notices!Deletions, Notices!Edits
<1> DEFINE x == [q EXCEPT !.pc = next]
<1>2. x.pc = next /\ x.op = q.op /\ x.topic = q.topic /\ x.number = q.number
  BY <1>1 DEF Notices!Deletions, Notices!Edits
<1>3. CASE q.op = "edit"
  <2>1. q \in Notices!Edits
    BY <1>1, <1>3 DEF Notices!Deletions
  <2>2. x \in Notices!Edits
    BY <2>1 DEF Notices!Edits
  <2>3. QED
    BY <1>2, <2>2 DEF Notices!Requests, Notices!NoRequest
<1>4. CASE q.op # "edit"
  <2>1. q \in Notices!Deletions
    BY <1>1, <1>4 DEF Notices!Edits
  <2>2. x \in Notices!Deletions
    BY <1>4, <2>1 DEF Notices!Deletions
  <2>3. QED
    BY <1>2, <2>2 DEF Notices!Requests, Notices!NoRequest
<1>5. QED
  BY <1>3, <1>4

LEMMA NoticeTakenDown ==
  ASSUME Notices!Sound, Notices!BroadcastInv, NEW r \in Notices!Slots,
         Notices!Remove(r) \/ Notices!RemoveFails(r)
  PROVE  Notices!BroadcastInv'
<1>1. PICK q \in Notices!Requests : q = req[r] /\ q.pc = "remove" /\ Notices!RequestInv(q)
  BY NoticeRequest DEF Notices!Remove, Notices!RemoveFails
<1>2. /\ q.topic \in Notices!Topics /\ q.number \in AnnIds /\ q.op \in {"delete", "edit"}
      /\ Notices!Of(q.number, q.topic)
  BY <1>1 DEF Notices!Requests, Notices!Postings, Notices!Deletions, Notices!Edits, Notices!RequestInv,
       Notices!Sound
<1>3. PICK p \in Notices!Requests \cup {Notices!NoRequest} :
        /\ req' = [req EXCEPT ![r] = p]
        /\ p # Notices!NoRequest =>
             /\ p.topic = q.topic /\ p.op = q.op /\ p.number = q.number /\ p.pc \in {"repost", "purge"}
        /\ Notices!Remove(r) /\ q.number \in Notices!Standing => p # Notices!NoRequest
  <2>1. CASE req' = [req EXCEPT ![r] = Notices!NoRequest] /\
             ~(Notices!Remove(r) /\ q.number \in Notices!Standing)
    BY <2>1
  <2>2. CASE q.op = "edit" /\ req' = [req EXCEPT ![r] = [q EXCEPT !.pc = "repost"]]
    BY <1>1, <2>2, GoesOn
  <2>3. CASE req' = [req EXCEPT ![r] = [q EXCEPT !.pc = "purge"]]
    <3>1. q.pc \in {"remove", "repost"} /\ "purge" \in {"repost", "purge"} /\ "purge" # "repost"
      BY <1>1
    <3>2. LET x == [q EXCEPT !.pc = "purge"] IN
          /\ x \in Notices!Requests /\ x # Notices!NoRequest /\ x.pc = "purge"
          /\ x.op = q.op /\ x.topic = q.topic /\ x.number = q.number
      BY <3>1, GoesOn
    <3>3. QED
      BY <2>3, <3>2
  <2>4. CASE Notices!RemoveFails(r)
    <3>1. ~ Notices!Remove(r)
      BY <1>1, <2>4 DEF Notices!Remove, Notices!RemoveFails, Notices!Fault, Notices!BroadcastInv,
           Notices!TypeInv, Notices!TypeOK
    <3>2. QED
      BY <1>1, <2>1, <2>2, <2>4, <3>1 DEF Notices!RemoveFails, Notices!Goto, Notices!End
  <2>5. CASE Notices!Remove(r)
    BY <1>1, <2>1, <2>2, <2>3, <2>5 DEF Notices!Remove, Notices!Goto, Notices!End
  <2>6. QED
    BY <2>4, <2>5
<1>4. /\ UNCHANGED <<ann, level, bell, begun, crossed, ended, unrung, levels>>
      /\ dropped' = dropped \cup {q.topic}
      /\ removed' = removed \/ removed' = removed \cup {q.number}
      /\ Notices!Remove(r) => removed' = removed \cup {q.number}
      /\ faults' \in 0..MaxFaults /\ failed \subseteq failed'
      /\ ~ Notices!Remove(r) => q.topic \in failed'
      /\ \A b \in bell' : b \in [topic : Notices!Topics, source : AnnIds \cup {0}, read : BOOLEAN]
  BY <1>1 DEF Notices!Remove, Notices!RemoveFails, Notices!Fault, Notices!Sound, Notices!BroadcastInv,
              Notices!TypeInv, Notices!TypeOK
<1>5. ASSUME Notices!Unharmed(q.topic)' PROVE p # Notices!NoRequest /\ Notices!Stage(p)'
  <2>1. Notices!Stage(q) /\ Notices!Remove(r)
    BY <1>1, <1>4, <1>5, NoticeRequest DEF Notices!Unharmed
  <2>2. Notices!About(q.topic) = {q.number} /\ \A b \in Notices!Bells(q.topic) : b.source = q.number
    BY <1>1, <2>1 DEF Notices!Stage
  <2>3. p # Notices!NoRequest
    BY <1>3, <2>1, <2>2 DEF Notices!About
  <2>4. Notices!About(q.topic)' = {} /\ Notices!Bells(q.topic)' = Notices!Bells(q.topic)
    BY <1>4, <2>1, <2>2 DEF Notices!About, Notices!Bells, Notices!Standing, Notices!Numbered
  <2>5. QED
    BY <1>3, <2>2, <2>3, <2>4 DEF Notices!Stage
<1>6. q.topic \in dropped'
  BY <1>4
<1>7. /\ removed \subseteq removed' /\ removed' \subseteq Notices!Numbered'
      /\ \A a \in removed' \ removed : ann[a].topic = q.topic
      /\ bell' \ bell = {} /\ \A b : b.topic # q.topic => (b \in bell' <=> b \in bell)
      /\ dropped \subseteq dropped' /\ dropped' \subseteq dropped \cup {q.topic}
      /\ unrung \subseteq unrung' /\ unrung' \subseteq unrung \cup {q.topic}
      /\ ended' \subseteq ended \cup {q.topic}
      /\ ann' \in [AnnIds -> [topic : Notices!Topics, version : 0..NoticeRequests] \cup {Notices!NoAnn}]
      /\ \A a \in AnnIds : ann'[a] = ann[a] \/ (ann[a] = Notices!NoAnn /\ ann'[a].topic = q.topic)
  BY <1>2, <1>4, NothingPut DEF Notices!Of
<1>8. p # Notices!NoRequest =>
        /\ p.topic = q.topic /\ p.op = q.op /\ (Notices!Tells(p) => Notices!Tells(q))
        /\ (p.number # 0 => Notices!Of(p.number, p.topic)')
  BY <1>2, <1>3, <1>4, NothingPut DEF Notices!Tells
<1>9. QED
  BY <1>1, <1>3, <1>4, <1>5, <1>6, <1>7, <1>8, NoticeAdvances

LEMMA NoticeRepost ==
  ASSUME Notices!Sound, Notices!BroadcastInv, NEW r \in Notices!Slots,
         Notices!Repost(r) \/ Notices!RepostFails(r)
  PROVE  Notices!BroadcastInv'
<1>1. PICK q \in Notices!Requests : q = req[r] /\ q.pc = "repost" /\ Notices!RequestInv(q)
  BY NoticeRequest DEF Notices!Repost, Notices!RepostFails
<1>2. /\ q.topic \in Notices!Topics /\ q.number \in AnnIds /\ q.op = "edit"
      /\ Notices!Of(q.number, q.topic) /\ q.version \in Notices!Topics /\ q.topic \in dropped
  BY <1>1 DEF Notices!Requests, Notices!Postings, Notices!Deletions, Notices!Edits, Notices!RequestInv,
       Notices!Sound
<1>3. PICK p \in Notices!Requests \cup {Notices!NoRequest} :
        /\ req' = [req EXCEPT ![r] = p]
        /\ p # Notices!NoRequest =>
             /\ p.topic = q.topic /\ p.op = q.op /\ p.number = q.number /\ p.pc = "purge"
        /\ Notices!Repost(r) => p # Notices!NoRequest
  <2>1. CASE Notices!RepostFails(r) /\ req' = [req EXCEPT ![r] = Notices!NoRequest]
    <3>1. ~ Notices!Repost(r)
      BY <1>1, <2>1 DEF Notices!Repost, Notices!RepostFails, Notices!Fault, Notices!BroadcastInv,
           Notices!TypeInv, Notices!TypeOK
    <3>2. QED
      BY <2>1, <3>1
  <2>2. CASE req' = [req EXCEPT ![r] = [q EXCEPT !.pc = "purge"]]
    <3>1. q.pc \in {"remove", "repost"} /\ "purge" \in {"repost", "purge"} /\ "purge" # "repost"
      BY <1>1
    <3>2. LET x == [q EXCEPT !.pc = "purge"] IN
          /\ x \in Notices!Requests /\ x # Notices!NoRequest /\ x.pc = "purge"
          /\ x.op = q.op /\ x.topic = q.topic /\ x.number = q.number
      BY <3>1, GoesOn
    <3>3. QED
      BY <2>2, <3>2
  <2>3. QED
    BY <1>1, <2>1, <2>2 DEF Notices!Repost, Notices!RepostFails, Notices!Goto, Notices!End
<1>4. /\ UNCHANGED <<removed, level, bell, begun, crossed, ended, dropped, unrung, levels>>
      /\ removed \subseteq Notices!Numbered
      /\ faults' \in 0..MaxFaults /\ failed \subseteq failed'
      /\ ~ Notices!Repost(r) => q.topic \in failed'
      /\ \A b \in bell' : b \in [topic : Notices!Topics, source : AnnIds \cup {0}, read : BOOLEAN]
  BY <1>1 DEF Notices!Repost, Notices!RepostFails, Notices!hist, Notices!Fault, Notices!Sound,
              Notices!BroadcastInv, Notices!TypeInv, Notices!TypeOK
<1>5. /\ ann' \in [AnnIds -> [topic : Notices!Topics, version : 0..NoticeRequests] \cup {Notices!NoAnn}]
      /\ \A a \in AnnIds : ann'[a] = ann[a] \/ (ann[a] = Notices!NoAnn /\ ann'[a].topic = q.topic)
      /\ Notices!Numbered \subseteq Notices!Numbered' /\ Notices!Of(q.number, q.topic)'
      /\ Notices!Repost(r) => \E n \in AnnIds :
           /\ Notices!About(q.topic)' = Notices!About(q.topic) \cup {n} /\ ann'[n].version # 0
  <2>1. ASSUME \E n \in Notices!NextNumber : Notices!Put(n, q.topic, q.version) PROVE <1>5!:
    <3>1. PICK n \in Notices!NextNumber : Notices!Put(n, q.topic, q.version)
      BY <2>1
    <3>2. q.version \in 0..NoticeRequests /\ q.version # 0
      BY <1>2 DEF Notices!Topics, Notices!Sound
    <3>3. n \in AnnIds /\ n \notin Notices!Numbered /\ ann'[n].version = q.version
      BY <1>2, <3>1, <3>2, PutFacts
    <3>4. Notices!Of(q.number, q.topic)'
      BY <1>2, <3>1, <3>2, PutFacts DEF Notices!Of
    <3>5. QED
      BY <1>2, <1>4, <3>1, <3>2, <3>3, <3>4, PutFacts
  <2>2. CASE ann' = ann /\ Notices!RepostFails(r)
    <3>1. ~ Notices!Repost(r)
      BY <1>1, <2>2 DEF Notices!Repost, Notices!RepostFails, Notices!Fault, Notices!BroadcastInv,
           Notices!TypeInv, Notices!TypeOK
    <3>2. QED
      BY <1>2, <2>2, <3>1, NothingPut
  <2>3. QED
    BY <1>1, <2>1, <2>2 DEF Notices!Repost, Notices!RepostFails, Notices!NewVersion
<1>6. ASSUME Notices!Unharmed(q.topic)' PROVE p # Notices!NoRequest /\ Notices!Stage(p)'
  <2>1. Notices!Stage(q) /\ Notices!Repost(r)
    BY <1>1, <1>4, <1>6, NoticeRequest DEF Notices!Unharmed
  <2>2. Notices!About(q.topic) = {} /\ \A b \in Notices!Bells(q.topic) : b.source = q.number
    BY <1>1, <2>1 DEF Notices!Stage
  <2>3. PICK n \in AnnIds : Notices!About(q.topic)' = {n} /\ ann'[n].version # 0
    BY <1>5, <2>1, <2>2
  <2>4. Notices!Bells(q.topic)' = Notices!Bells(q.topic) /\ p # Notices!NoRequest
    BY <1>3, <1>4, <2>1 DEF Notices!Bells
  <2>5. QED
    BY <1>3, <2>2, <2>3, <2>4 DEF Notices!Stage
<1>7. /\ removed \subseteq removed' /\ removed' \subseteq Notices!Numbered' /\ removed' \ removed = {}
      /\ bell' \ bell = {} /\ \A b : b.topic # q.topic => (b \in bell' <=> b \in bell)
      /\ dropped \subseteq dropped' /\ dropped' \subseteq dropped \cup {q.topic}
      /\ unrung \subseteq unrung' /\ unrung' \subseteq unrung \cup {q.topic}
      /\ ended' \subseteq ended \cup {q.topic} /\ q.topic \in dropped'
  BY <1>2, <1>4, <1>5
<1>8. p # Notices!NoRequest =>
        /\ p.topic = q.topic /\ p.op = q.op /\ (Notices!Tells(p) => Notices!Tells(q))
        /\ (p.number # 0 => Notices!Of(p.number, p.topic)')
  BY <1>3, <1>5 DEF Notices!Tells
<1>9. QED
  BY <1>1, <1>3, <1>4, <1>5, <1>6, <1>7, <1>8, NoticeAdvances

LEMMA NoticePurge ==
  ASSUME Notices!Sound, Notices!BroadcastInv, NEW r \in Notices!Slots,
         Notices!Purge(r) \/ Notices!PurgeFails(r)
  PROVE  Notices!BroadcastInv'
<1>1. PICK q \in Notices!Requests : q = req[r] /\ q.pc = "purge" /\ Notices!RequestInv(q)
  BY NoticeRequest DEF Notices!Purge, Notices!PurgeFails
<1>2. /\ q.topic \in Notices!Topics /\ q.number \in AnnIds /\ q.number # 0
      /\ Notices!Of(q.number, q.topic) /\ q.topic \in dropped
  BY <1>1 DEF Notices!Requests, Notices!Postings, Notices!Deletions, Notices!Edits, Notices!RequestInv,
       Notices!Sound
<1>3. /\ UNCHANGED <<ann, removed, level, begun, crossed, ended, dropped, unrung, levels>>
      /\ req' = [req EXCEPT ![r] = Notices!NoRequest]
      /\ \/ bell' = {b \in bell : b.source # q.number} /\ failed' = failed
         \/ bell' = bell /\ q.topic \in failed'
      /\ faults' \in 0..MaxFaults /\ failed \subseteq failed'
      /\ \A b \in bell' : b \in [topic : Notices!Topics, source : AnnIds \cup {0}, read : BOOLEAN]
  <2>1. faults \in 0..MaxFaults /\ \A b \in bell : b \in [topic : Notices!Topics, source : AnnIds \cup {0},
                                                       read : BOOLEAN]
    BY DEF Notices!BroadcastInv, Notices!TypeInv, Notices!TypeOK
  <2>2. CASE Notices!Purge(r)
    BY <1>1, <2>1, <2>2 DEF Notices!Purge, Notices!Purged, Notices!End, Notices!hist
  <2>3. CASE Notices!PurgeFails(r)
    BY <1>1, <2>1, <2>3 DEF Notices!PurgeFails, Notices!End, Notices!Fault, Notices!Sound, Notices!hist
  <2>4. QED
    BY <2>2, <2>3
<1>4. \A b : b.topic # q.topic => (b \in bell' <=> b \in bell)
  BY <1>2, <1>3 DEF Notices!BroadcastInv, Notices!BellInv, Notices!Of
<1>5. ASSUME Notices!Unharmed(q.topic)' PROVE Notices!Settled(q.topic)'
  <2>1. Notices!Stage(q) /\ bell' = {b \in bell : b.source # q.number}
    BY <1>1, <1>3, <1>5, NoticeRequest DEF Notices!Unharmed
  <2>2. /\ \A b \in Notices!Bells(q.topic) : b.source = q.number
        /\ \A a \in Notices!About(q.topic) : ann[a].version # 0 /\ Notices!About(q.topic) = {a}
    BY <1>1, <2>1 DEF Notices!Stage
  <2>3. Notices!Bells(q.topic)' = {} /\ Notices!About(q.topic)' = Notices!About(q.topic)
    BY <1>3, <2>1, <2>2 DEF Notices!Bells, Notices!About, Notices!Standing, Notices!Numbered
  <2>4. QED
    BY <1>3, <2>2, <2>3 DEF Notices!Settled
<1>6. /\ removed \subseteq removed' /\ removed' \subseteq Notices!Numbered' /\ removed' \ removed = {}
      /\ bell' \ bell = {} /\ failed \subseteq failed'
      /\ dropped \subseteq dropped' /\ dropped' \subseteq dropped \cup {q.topic}
      /\ unrung \subseteq unrung' /\ unrung' \subseteq unrung \cup {q.topic}
      /\ ended' \subseteq ended \cup {q.topic} /\ q.topic \in dropped'
      /\ ann' \in [AnnIds -> [topic : Notices!Topics, version : 0..NoticeRequests] \cup {Notices!NoAnn}]
      /\ \A a \in AnnIds : ann'[a] = ann[a] \/ (ann[a] = Notices!NoAnn /\ ann'[a].topic = q.topic)
  BY <1>2, <1>3, NothingPut
<1>7. Notices!NoRequest \in Notices!Requests \cup {Notices!NoRequest}
  OBVIOUS
<1>8. QED
  BY <1>1, <1>3, <1>4, <1>5, <1>6, <1>7, NoticeAdvances

LEMMA NoticeBegins ==
  ASSUME Notices!Sound, Notices!BroadcastInv, NEW p \in Notices!Requests, Notices!Begin(p),
         UNCHANGED <<ann, removed, bell, faults, failed, ended, dropped, unrung>>,
         level' \in 0..NoticeRequests,
         \/ /\ p.pc = "post" /\ p.topic = begun + 1 /\ p.number = 0
            /\ levels' = IF p.op = "level" THEN levels \cup {p.topic} ELSE levels
         \/ p.pc = "remove" /\ Notices!Of(p.number, p.topic) /\ levels' = levels
  PROVE  Notices!BroadcastInv'
<1>1. /\ begun \in Nat /\ begun < NoticeRequests /\ begun' = begun + 1
      /\ begun' \in 0..NoticeRequests /\ NoticeRequests \in Nat
  BY DEF Notices!Begin, Notices!BroadcastInv, Notices!TypeInv, Notices!TypeOK, Notices!Sound
<1>2. PICK r \in Notices!Slots :
        /\ req[r] = Notices!NoRequest
        /\ \A s \in Notices!Slots : req'[s] = IF s = r THEN p ELSE req[s]
        /\ req' \in [Notices!Slots -> Notices!Requests \cup {Notices!NoRequest}]
        /\ crossed \subseteq crossed'
        /\ \A s \in Notices!Slots \ {r} : Notices!Touched(p) \cap Notices!Touched(req[s]) \subseteq crossed'
        /\ p.number \in removed => p.topic \in crossed'
  BY DEF Notices!Begin, Notices!BroadcastInv, Notices!TypeInv
<1>3. /\ p.topic \in Notices!Topics /\ p.topic # 0 /\ p.topic \in Nat /\ p # Notices!NoRequest
      /\ p.pc # "none" /\ p.topic \in Notices!Touched(p)
  BY DEF Notices!Requests, Notices!Postings, Notices!Deletions, Notices!Edits, Notices!Topics,
       Notices!NoRequest, Notices!Touched
<1>4. /\ p.pc = "post" => Notices!Unused(p.topic)
      /\ p.pc = "remove" => p.topic <= begun
  BY <1>1, <1>3 DEF Notices!BroadcastInv, Notices!Of, Notices!Unused, Notices!Topics
<1>5. /\ \A t : Notices!Bells(t)' = Notices!Bells(t) /\ Notices!About(t)' = Notices!About(t)
      /\ \A n, t : Notices!Of(n, t)' <=> Notices!Of(n, t)
      /\ Notices!Numbered' = Notices!Numbered
  BY DEF Notices!Bells, Notices!About, Notices!Standing, Notices!Numbered, Notices!Of
<1>6. Notices!NoRequest.topic = 0 /\ Notices!NoRequest.pc = "none"
  BY DEF Notices!NoRequest
<1>7. \A t \in Notices!Topics \ {p.topic} :
        /\ Notices!TopicInv(t)'
        /\ Notices!LevelInv(t) => Notices!LevelInv(t)'
        /\ Notices!Unused(t) => Notices!Unused(t)'
  <2>1. TAKE t \in Notices!Topics \ {p.topic}
  <2>2. \A x : x # p.topic => /\ x \in dropped' <=> x \in dropped
                              /\ x \in unrung' <=> x \in unrung
                              /\ x \in levels' <=> x \in levels
                              /\ x \in ended' => x \in ended
    OBVIOUS
  <2>3. \A s \in Notices!Slots \ {r} : req'[s] = req[s]
    BY <1>2
  <2>4. req[r].topic \in {0, p.topic} /\ req'[r].topic \in {0, p.topic}
    BY <1>2, <1>6
  <2>5. /\ \A a \in AnnIds : ann'[a] = ann[a] \/ (ann[a] = Notices!NoAnn /\ ann'[a].topic = p.topic)
        /\ removed \subseteq removed' /\ \A a \in removed' \ removed : ann[a].topic = p.topic
        /\ \A b : b.topic # p.topic => (b \in bell' <=> b \in bell)
        /\ failed \subseteq failed' /\ crossed \subseteq crossed'
    BY <1>2
  <2>6. QED
    BY <1>3, <2>2, <2>3, <2>4, <2>5, OtherTopics
<1>8. Notices!TypeInv' /\ Notices!BellInv' /\ levels' \subseteq Notices!Topics
  <2>1. Notices!TypeOK'
    BY <1>1, <1>5 DEF Notices!BroadcastInv, Notices!TypeInv, Notices!TypeOK
  <2>2. QED
    BY <1>2, <1>3, <1>5, <2>1 DEF Notices!BroadcastInv, Notices!TypeInv, Notices!BellInv
<1>9. Notices!CrossInv'
  <2>1. ASSUME NEW s \in Notices!Slots \ {r}, Notices!Tells(p), Notices!Tells(req[s])
        PROVE  p.topic # req[s].topic
    <3>1. p.pc = "post"
      BY <2>1 DEF Notices!Tells
    <3>2. QED
      BY <1>4, <3>1 DEF Notices!Unused
  <2>2. \A s, t \in Notices!Slots : s # t =>
          /\ Notices!Touched(req[s]) \cap Notices!Touched(req[t]) \subseteq crossed
          /\ Notices!Tells(req[s]) /\ Notices!Tells(req[t]) => req[s].topic # req[t].topic
    BY DEF Notices!BroadcastInv, Notices!CrossInv
  <2>3. ASSUME NEW s \in Notices!Slots, NEW t \in Notices!Slots, s # t
        PROVE  /\ Notices!Touched(req'[s]) \cap Notices!Touched(req'[t]) \subseteq crossed'
               /\ Notices!Tells(req'[s]) /\ Notices!Tells(req'[t]) => req'[s].topic # req'[t].topic
    <3>1. CASE s = r
      BY <1>2, <2>1, <2>3, <3>1
    <3>2. CASE t = r
      BY <1>2, <2>1, <2>3, <3>2
    <3>3. CASE s # r /\ t # r
      BY <1>2, <2>2, <2>3, <3>3
    <3>4. QED
      BY <3>1, <3>2, <3>3
  <2>4. QED
    BY <2>3 DEF Notices!CrossInv, Notices!Touched, Notices!Tells
<1>10. \A s \in Notices!Slots : Notices!RequestInv(req[s])'
  <2>1. TAKE s \in Notices!Slots
  <2>2. CASE s = r
    BY <1>2, <1>5, <2>2 DEF Notices!RequestInv
  <2>3. CASE s # r
    <3>1. Notices!RequestInv(req[s]) /\ req'[s] = req[s]
      BY <1>2, <2>3 DEF Notices!BroadcastInv
    <3>2. QED
      BY <1>5, <3>1 DEF Notices!RequestInv
  <2>4. QED
    BY <2>2, <2>3
<1>11. Notices!TopicInv(p.topic)'
  <2>1. SUFFICES ASSUME Notices!Unharmed(p.topic)' PROVE Notices!TopicInv(p.topic)'
    BY DEF Notices!TopicInv
  <2>2. \A s \in Notices!Slots \ {r} : req[s].topic # p.topic
    <3>1. \A s \in Notices!Slots : req[s].topic # 0 => req[s].topic \in Notices!Touched(req[s])
      BY DEF Notices!Touched, Notices!Requests, Notices!Postings, Notices!Deletions, Notices!Edits,
           Notices!NoRequest, Notices!BroadcastInv, Notices!TypeInv
    <3>2. QED
      BY <1>2, <1>3, <2>1, <3>1 DEF Notices!Unharmed
  <2>3. Notices!Stage(p)'
    <3>1. CASE p.pc = "post"
      <4>1. Notices!Bells(p.topic) = {} /\ Notices!About(p.topic) = {} /\ p.topic \notin dropped
        BY <1>4, <3>1 DEF Notices!Unused, Notices!Bells, Notices!About, Notices!Standing
      <4>2. QED
        BY <1>5, <3>1, <4>1 DEF Notices!Stage
    <3>2. CASE p.pc = "remove"
      <4>1. Notices!Unharmed(p.topic) /\ p.number \notin removed
        BY <1>2, <2>1 DEF Notices!Unharmed
      <4>2. Notices!Settled(p.topic)
        BY <1>2, <1>3, <1>6, <2>2, <4>1 DEF Notices!BroadcastInv, Notices!TopicInv
      <4>3. p.number \in Notices!About(p.topic)
        BY <3>2, <4>1 DEF Notices!Of, Notices!About, Notices!Standing
      <4>4. Notices!About(p.topic) = {p.number} /\ \A b \in Notices!Bells(p.topic) : b.source = p.number
        BY <4>2, <4>3 DEF Notices!Settled
      <4>5. QED
        BY <1>5, <3>2, <4>4 DEF Notices!Stage
    <3>3. QED
      BY <3>1, <3>2
  <2>4. Notices!Stage(req[r])'
    <3>1. req'[r] = p
      BY <1>2
    <3>2. QED
      BY <2>3, <3>1 DEF Notices!Stage, Notices!About, Notices!Bells
  <2>5. QED
    BY <1>2, <2>2, <2>4 DEF Notices!TopicInv
<1>12. ASSUME 0 \notin failed', NEW t \in levels' \ (dropped' \cup unrung') PROVE Notices!LevelInv(t)'
  <2>1. CASE t # p.topic
    BY <1>7, <1>8, <1>12, <2>1 DEF Notices!BroadcastInv
  <2>2. CASE t = p.topic /\ p.pc = "post"
    <3>1. p.op = "level" /\ Notices!Bells(t) = {}
      BY <1>4, <1>12, <2>2 DEF Notices!Unused, Notices!Bells
    <3>2. Notices!Tells(p) /\ req'[r] = p
      BY <1>2, <2>2 DEF Notices!Tells
    <3>3. QED
      BY <1>5, <2>2, <3>1, <3>2 DEF Notices!LevelInv, Notices!Tells
  <2>3. CASE t = p.topic /\ p.pc = "remove"
    <3>1. Notices!LevelInv(t)
      BY <1>12, <2>3 DEF Notices!BroadcastInv
    <3>2. ~ Notices!Tells(p) /\ ~ Notices!Tells(req[r])
      BY <1>2, <1>6, <2>3 DEF Notices!Tells
    <3>3. \A s \in Notices!Slots : /\ Notices!Tells(req'[s]) <=> Notices!Tells(req[s])
                                   /\ Notices!Tells(req[s]) => req'[s] = req[s]
      BY <1>2, <3>2
    <3>4. QED
      BY <1>5, <3>1, <3>3 DEF Notices!LevelInv, Notices!Tells
  <2>4. QED
    BY <2>1, <2>2, <2>3
<1>13. \A t \in Notices!Topics : Notices!TopicInv(t)' /\ (begun' < t => Notices!Unused(t)')
  <2>1. \A t \in Notices!Topics : begun' < t => Notices!Unused(t) /\ t # p.topic
    BY <1>1, <1>3, <1>4 DEF Notices!BroadcastInv, Notices!Topics
  <2>2. QED
    BY <1>7, <1>11, <2>1
<1>14. Notices!PostedAreTold'
  BY DEF Notices!BroadcastInv, Notices!PostedAreTold
<1>15. QED
  BY <1>8, <1>9, <1>10, <1>12, <1>13, <1>14 DEF Notices!BroadcastInv

LEMMA NoticeBegun ==
  ASSUME Notices!Sound, Notices!BroadcastInv,
         Notices!Post \/ Notices!SetLevel \/ \E a \in AnnIds : Notices!Delete(a) \/ Notices!Edit(a)
  PROVE  Notices!BroadcastInv'
<1>1. begun \in 0..NoticeRequests /\ NoticeRequests \in Nat
  BY DEF Notices!BroadcastInv, Notices!TypeInv, Notices!TypeOK, Notices!Sound
<1>2. ASSUME Notices!Post \/ Notices!SetLevel PROVE Notices!BroadcastInv'
  <2>1. PICK op \in {"post", "level"} :
          /\ Notices!Begin([pc |-> "post", op |-> op, topic |-> begun + 1, number |-> 0])
          /\ UNCHANGED <<ann, removed, bell, faults, failed, ended, dropped, unrung>>
          /\ level' \in {level, begun + 1}
          /\ levels' = IF op = "level" THEN levels \cup {begun + 1} ELSE levels
    BY <1>2 DEF Notices!Post, Notices!SetLevel, Notices!hist
  <2> DEFINE x == [pc |-> "post", op |-> op, topic |-> begun + 1, number |-> 0]
  <2>2. begun < NoticeRequests
    BY <2>1 DEF Notices!Begin
  <2>3. begun + 1 \in Notices!Topics /\ level' \in 0..NoticeRequests
    BY <1>1, <2>1, <2>2 DEF Notices!Topics, Notices!BroadcastInv, Notices!TypeInv, Notices!TypeOK
  <2>4. x \in [pc : {"post"}, op : {"post", "level"}, topic : Notices!Topics, number : {0}]
    BY <2>3
  <2>5. x.pc = "post" /\ x.topic = begun + 1 /\ x.number = 0 /\ x.op = op
    OBVIOUS
  <2>6. Notices!Begin(x)
    BY <2>1
  <2> HIDE DEF x
  <2>7. x \in Notices!Requests
    BY <2>4 DEF Notices!Requests, Notices!Postings
  <2>8. QED
    BY <2>1, <2>3, <2>5, <2>6, <2>7, NoticeBegins
<1>3. ASSUME NEW a \in AnnIds, Notices!Delete(a) \/ Notices!Edit(a) PROVE Notices!BroadcastInv'
  <2>1. /\ a \in Notices!Numbered /\ ann[a].topic \in Notices!Topics
        /\ UNCHANGED <<ann, removed, level, bell, faults, failed, ended, dropped, unrung, levels>>
        /\ level' \in 0..NoticeRequests
    BY <1>3 DEF Notices!Delete, Notices!Edit, Notices!hist, Notices!BroadcastInv, Notices!TypeInv,
         Notices!TypeOK
  <2>2. CASE Notices!Delete(a)
    <3> DEFINE x == [pc |-> "remove", op |-> "delete", topic |-> ann[a].topic, number |-> a]
    <3>1. x \in Notices!Deletions /\ x.pc = "remove" /\ x.number = a /\ x.topic = ann[a].topic
      BY <2>1 DEF Notices!Deletions
    <3>2. Notices!Begin(x)
      BY <2>2 DEF Notices!Delete
    <3> HIDE DEF x
    <3>3. x \in Notices!Requests /\ Notices!Of(x.number, x.topic)
      BY <2>1, <3>1 DEF Notices!Requests, Notices!Of
    <3>4. QED
      BY <2>1, <3>1, <3>2, <3>3, NoticeBegins
  <2>3. CASE Notices!Edit(a)
    <3> DEFINE x == [pc |-> "remove", op |-> "edit", topic |-> ann[a].topic, number |-> a,
                     version |-> begun + 1]
    <3>1. Notices!Begin(x)
      BY <2>3 DEF Notices!Edit
    <3>2. begun + 1 \in Notices!Topics
      BY <1>1, <3>1 DEF Notices!Begin, Notices!Topics
    <3>3. x \in Notices!Edits /\ x.pc = "remove" /\ x.number = a /\ x.topic = ann[a].topic
      BY <2>1, <3>2 DEF Notices!Edits
    <3> HIDE DEF x
    <3>4. x \in Notices!Requests /\ Notices!Of(x.number, x.topic)
      BY <2>1, <3>3 DEF Notices!Requests, Notices!Of
    <3>5. QED
      BY <2>1, <3>1, <3>3, <3>4, NoticeBegins
  <2>4. QED
    BY <1>3, <2>2, <2>3
<1>4. QED
  BY <1>2, <1>3

\* Reading keeps what the notifications are about.
LEMMA NoticeRead ==
  ASSUME Notices!BroadcastInv, NEW seen_, Notices!Read(seen_) PROVE Notices!BroadcastInv'
<1> DEFINE Marked(b) == IF b \in seen_ THEN [b EXCEPT !.read = TRUE] ELSE b
           Bell == [topic : Notices!Topics, source : AnnIds \cup {0}, read : BOOLEAN]
<1>1. /\ UNCHANGED <<ann, removed, level, req, begun, faults, failed, crossed, ended, dropped, unrung, levels>>
      /\ seen_ \subseteq bell
      /\ bell' = (bell \ seen_) \cup {[b EXCEPT !.read = TRUE] : b \in seen_}
  BY DEF Notices!Read, Notices!hist
<1>2. \A b \in bell : b \in Bell
  BY DEF Notices!BroadcastInv, Notices!TypeInv, Notices!TypeOK
<1>3. \A b \in bell : Marked(b) \in Bell /\ Marked(b).topic = b.topic /\ Marked(b).source = b.source
  BY <1>2
<1>4. bell' = {Marked(b) : b \in bell}
  <2>1. \A b \in bell : Marked(b) \in bell'
    BY <1>1
  <2>2. \A x \in bell' : \E b \in bell : x = Marked(b)
    BY <1>1
  <2>3. QED
    BY <2>1, <2>2
<1> HIDE DEF Marked
<1>5. /\ \A x \in bell' : x \in Bell /\ \E b \in bell : x.topic = b.topic /\ x.source = b.source
      /\ \A b \in bell : \E x \in bell' : x.topic = b.topic /\ x.source = b.source
  BY <1>3, <1>4
<1>6. \A t : Notices!Bells(t)' = {Marked(b) : b \in Notices!Bells(t)}
  <2>1. TAKE t
  <2>2. \A x \in Notices!Bells(t)' : x \in {Marked(b) : b \in Notices!Bells(t)}
    BY <1>3, <1>4 DEF Notices!Bells
  <2>3. \A b \in Notices!Bells(t) : Marked(b) \in Notices!Bells(t)'
    BY <1>3, <1>4 DEF Notices!Bells
  <2>4. QED
    BY <2>2, <2>3
<1>7. \A t : /\ Notices!About(t)' = Notices!About(t)
             /\ Notices!Bells(t) = {} => Notices!Bells(t)' = {}
             /\ \A x \in Notices!Bells(t)' : \E b \in Notices!Bells(t) : x.source = b.source
             /\ \A b \in bell : Notices!Bells(t) = {b} => \E x \in bell' : Notices!Bells(t)' = {x}
  <2>1. TAKE t
  <2>2. Notices!About(t)' = Notices!About(t)
    BY <1>1 DEF Notices!About, Notices!Standing, Notices!Numbered
  <2>3. \A b \in Notices!Bells(t) : b \in bell
    BY DEF Notices!Bells
  <2>4. \A x \in Notices!Bells(t)' : \E b \in Notices!Bells(t) : x.source = b.source
    BY <1>3, <1>6, <2>3
  <2>5. ASSUME NEW b \in bell, Notices!Bells(t) = {b} PROVE \E x \in bell' : Notices!Bells(t)' = {x}
    <3>1. Notices!Bells(t)' = {Marked(b)} /\ Marked(b) \in bell'
      BY <1>4, <1>6, <2>5
    <3>2. QED
      BY <3>1
  <2>6. Notices!Bells(t) = {} => Notices!Bells(t)' = {}
    BY <1>6
  <2>7. QED
    BY <2>2, <2>4, <2>5, <2>6
<1>8. Notices!TypeInv'
  BY <1>1, <1>5 DEF Notices!BroadcastInv, Notices!TypeInv, Notices!TypeOK, Notices!Numbered
<1>9. Notices!BellInv' /\ \A s \in Notices!Slots : Notices!RequestInv(req[s])'
  BY <1>1, <1>5 DEF Notices!BroadcastInv, Notices!BellInv, Notices!RequestInv, Notices!Of,
     Notices!Numbered
<1>10. Notices!CrossInv'
  BY <1>1 DEF Notices!BroadcastInv, Notices!CrossInv, Notices!Touched, Notices!Tells
<1>11. ASSUME NEW t \in Notices!Topics
       PROVE  Notices!TopicInv(t)' /\ (Notices!Unused(t) => Notices!Unused(t)')
  <2>1. \A s \in Notices!Slots : Notices!Stage(req[s]) => Notices!Stage(req[s])'
    BY <1>1, <1>7 DEF Notices!Stage
  <2>2. Notices!Settled(t) => Notices!Settled(t)'
    BY <1>1, <1>7 DEF Notices!Settled
  <2>3. Notices!TopicInv(t)
    BY DEF Notices!BroadcastInv
  <2>4. Notices!Unused(t) => Notices!Unused(t)'
    BY <1>1, <1>5 DEF Notices!Unused, Notices!Numbered
  <2>5. QED
    BY <1>1, <2>1, <2>2, <2>3, <2>4 DEF Notices!TopicInv, Notices!Unharmed
<1>12. \A t : Notices!LevelInv(t) => Notices!LevelInv(t)'
  BY <1>1, <1>7 DEF Notices!LevelInv, Notices!Tells
<1>13. Notices!PostedAreTold'
  <2>1. ASSUME NEW t \in ended \ (dropped \cup unrung) PROVE \E x \in bell' : x.topic = t
    <3>1. PICK b \in bell : b.topic = t
      BY DEF Notices!BroadcastInv, Notices!PostedAreTold
    <3>2. QED
      BY <1>5, <3>1
  <2>2. QED
    BY <1>1, <2>1 DEF Notices!PostedAreTold
<1>14. QED
  BY <1>1, <1>8, <1>9, <1>10, <1>11, <1>12, <1>13 DEF Notices!BroadcastInv

\* A restart harms the topics of the requests it ends.
LEMMA NoticeCrash ==
  ASSUME Notices!Sound, Notices!BroadcastInv, Notices!Crash PROVE Notices!BroadcastInv'
<1>1. /\ UNCHANGED <<ann, removed, level, bell, begun, crossed, ended, dropped, unrung, levels>>
      /\ faults' \in 0..MaxFaults
      /\ failed' = failed \cup UNION {Notices!Touched(req[r]) : r \in Notices!Slots}
      /\ req' = [r \in Notices!Slots |-> Notices!NoRequest]
  BY DEF Notices!Crash, Notices!hist, Notices!BroadcastInv, Notices!TypeInv, Notices!TypeOK,
         Notices!Sound
<1>2. /\ \A t : Notices!Bells(t)' = Notices!Bells(t) /\ Notices!About(t)' = Notices!About(t)
      /\ \A n, t : Notices!Of(n, t)' <=> Notices!Of(n, t)
      /\ Notices!Numbered' = Notices!Numbered
  BY <1>1 DEF Notices!Bells, Notices!About, Notices!Standing, Notices!Numbered, Notices!Of
<1>3. /\ Notices!NoRequest.topic = 0 /\ Notices!NoRequest.pc = "none"
      /\ \A r \in Notices!Slots : req'[r] = Notices!NoRequest
  BY <1>1 DEF Notices!NoRequest
<1>4. Notices!TypeInv' /\ Notices!BellInv'
  BY <1>1, <1>2 DEF Notices!BroadcastInv, Notices!TypeInv, Notices!TypeOK, Notices!BellInv
<1>5. Notices!CrossInv' /\ \A s \in Notices!Slots : Notices!RequestInv(req[s])'
  BY <1>3 DEF Notices!CrossInv, Notices!Touched, Notices!Tells, Notices!RequestInv
<1>6. \A r \in Notices!Slots : req[r].pc # "none" =>
        /\ req[r].topic \in failed' /\ (req[r].op = "level" => 0 \in failed')
  <2>1. \A r \in Notices!Slots : Notices!Touched(req[r]) \subseteq failed'
    BY <1>1
  <2>2. QED
    BY <2>1 DEF Notices!Touched
<1>7. ASSUME NEW t \in Notices!Topics
      PROVE  Notices!TopicInv(t)' /\ (Notices!Unused(t) => Notices!Unused(t)')
  <2>1. ASSUME Notices!Unharmed(t)' PROVE Notices!Settled(t)'
    <3>1. \A r \in Notices!Slots : req[r].topic # t
      <4>1. t # 0
        BY DEF Notices!Topics
      <4>2. QED
        BY <1>3, <1>6, <2>1, <4>1 DEF Notices!Unharmed, Notices!BroadcastInv, Notices!TypeInv,
           Notices!Requests, Notices!Postings, Notices!Deletions, Notices!Edits
    <3>2. Notices!Settled(t)
      BY <1>1, <2>1, <3>1 DEF Notices!BroadcastInv, Notices!TopicInv, Notices!Unharmed
    <3>3. QED
      BY <1>1, <1>2, <3>2 DEF Notices!Settled
  <2>2. \A r \in Notices!Slots : req'[r].topic # t
    BY <1>3 DEF Notices!Topics
  <2>3. QED
    BY <1>1, <1>2, <2>1, <2>2 DEF Notices!TopicInv, Notices!Unused
<1>8. ASSUME 0 \notin failed', NEW t \in levels' \ (dropped' \cup unrung') PROVE Notices!LevelInv(t)'
  <2>1. Notices!LevelInv(t) /\ \A r \in Notices!Slots : ~(Notices!Tells(req[r]) /\ req[r].op = "level")
    BY <1>1, <1>6, <1>8 DEF Notices!BroadcastInv, Notices!Tells
  <2>2. \E b \in bell : Notices!Bells(t) = {b}
    BY <2>1 DEF Notices!LevelInv
  <2>3. QED
    BY <1>1, <1>2, <1>3, <2>2 DEF Notices!LevelInv, Notices!Tells
<1>9. Notices!PostedAreTold'
  BY <1>1 DEF Notices!BroadcastInv, Notices!PostedAreTold
<1>10. QED
  BY <1>1, <1>4, <1>5, <1>7, <1>8, <1>9 DEF Notices!BroadcastInv

LEMMA NoticeStutter ==
  ASSUME Notices!BroadcastInv, UNCHANGED Notices!vars PROVE Notices!BroadcastInv'
<1>1. UNCHANGED <<ann, removed, level, bell, req, begun, faults, ended, failed, crossed, dropped, unrung, levels>>
  BY DEF Notices!vars
<1>2. Notices!TypeInv' /\ Notices!BellInv' /\ Notices!CrossInv' /\ Notices!PostedAreTold'
  BY <1>1 DEF Notices!BroadcastInv, Notices!TypeInv, Notices!TypeOK, Notices!BellInv, Notices!CrossInv,
     Notices!Touched, Notices!Tells, Notices!PostedAreTold, Notices!Of, Notices!Numbered
<1>3. \A s \in Notices!Slots : Notices!RequestInv(req[s])'
  BY <1>1 DEF Notices!BroadcastInv, Notices!RequestInv, Notices!Of, Notices!Numbered
<1>4. \A t \in Notices!Topics : /\ Notices!TopicInv(t)' /\ (begun' < t => Notices!Unused(t)')
                                /\ Notices!LevelInv(t) => Notices!LevelInv(t)'
  BY <1>1 DEF Notices!BroadcastInv, Notices!TopicInv, Notices!Settled, Notices!Stage, Notices!Bells,
     Notices!About, Notices!Standing, Notices!Unused, Notices!LevelInv, Notices!Unharmed,
     Notices!Numbered, Notices!Tells
<1>5. QED
  BY <1>1, <1>2, <1>3, <1>4 DEF Notices!BroadcastInv

LEMMA NoticesStep ==
  ASSUME Notices!Sound, Notices!BroadcastInv, [Notices!Next]_(Notices!vars)
  PROVE  Notices!BroadcastInv'
<1>1. ASSUME NEW r \in Notices!Slots,
             \/ Notices!Create(r) \/ Notices!CreateFails(r) \/ Notices!Ring(r) \/ Notices!RingFails(r)
             \/ Notices!Remove(r) \/ Notices!RemoveFails(r) \/ Notices!Repost(r) \/ Notices!RepostFails(r)
             \/ Notices!Purge(r) \/ Notices!PurgeFails(r)
      PROVE  Notices!BroadcastInv'
  BY <1>1, NoticeCreate, NoticeCreateFails, NoticeRing, NoticeRingFails, NoticeTakenDown, NoticeRepost,
     NoticePurge
<1>2. QED
  BY <1>1, NoticeBegun, NoticeRead, NoticeCrash, NoticeStutter DEF Notices!Next

(***************************************************************************)
(* Everybody is told, for every set of numbers and however many requests   *)
(* overlap, are refused, lose their answer or are ended by a restart: no   *)
(* level is left out, no posting without its bell, no bell that points at  *)
(* an announcement deleted, and no announcement that was edited twice.     *)
(***************************************************************************)
THEOREM EverybodyIsToldCorrect == PortalSpec => []EverybodyIsTold
<1> DEFINE IInv == page = "notices" => Notices!BroadcastInv
<1>1. PortalInit => IInv
  BY OnlyNotices, NoticesAssumption, NoticesInit
<1>2. IInv /\ [PortalNext]_allVars => IInv'
  <2> SUFFICES ASSUME page = "notices", Notices!BroadcastInv, [PortalNext]_allVars
               PROVE  Notices!BroadcastInv'
    BY PageStays
  <2>1. [Notices!Next]_(Notices!vars)
    BY OnlyNoticeSteps
  <2>2. QED
    BY <2>1, NoticesAssumption, NoticesStep
<1>3. IInv => EverybodyIsTold
  <2> SUFFICES ASSUME Notices!BroadcastInv PROVE Notices!EverybodyIsTold
    BY DEF EverybodyIsTold
  <2>1. Notices!TypeOK /\ Notices!PostedAreTold
    BY DEF Notices!BroadcastInv, Notices!TypeInv
  <2>2. ASSUME Notices!Quiet, NEW t \in Notices!Topics, Notices!Unharmed(t) PROVE Notices!Settled(t)
    <3>1. \A r \in Notices!Slots : req[r].topic # t
      BY <2>2 DEF Notices!Quiet, Notices!NoRequest, Notices!Topics
    <3>2. QED
      BY <2>2, <3>1 DEF Notices!BroadcastInv, Notices!TopicInv
  <2>3. Notices!LevelsAreTold
    BY DEF Notices!BroadcastInv, Notices!LevelsAreTold, Notices!LevelInv, Notices!Bells, Notices!Quiet,
       Notices!NoRequest, Notices!Tells
  <2>4. Notices!NoneDangle
    <3>1. \A b \in bell : b.topic \in Notices!Topics /\ b \in Notices!Bells(b.topic)
      BY <2>1 DEF Notices!TypeOK, Notices!Bells
    <3>2. QED
      BY <2>2, <3>1 DEF Notices!NoneDangle, Notices!Settled
  <2>5. Notices!EditedStandOnce
    <3>1. \A a \in Notices!Standing : ann[a].topic \in Notices!Topics /\ a \in Notices!About(ann[a].topic)
      BY <2>1 DEF Notices!TypeOK, Notices!About, Notices!Standing
    <3>2. QED
      BY <2>2, <3>1 DEF Notices!EditedStandOnce, Notices!Settled
  <2>6. QED
    BY <2>1, <2>3, <2>4, <2>5 DEF Notices!EverybodyIsTold
<1> HIDE DEF IInv
<1>4. QED
  BY <1>1, <1>2, <1>3, PTL DEF PortalSpec

-----------------------------------------------------------------------------
(***************************************************************************)
(* Sign-ins and sessions (Sessions): what holds of every session that a    *)
(* tab or the browser has, and, while requests do not overlap, of the one  *)
(* request that is under way.                                              *)
(***************************************************************************)
LEMMA OnlySessions == page \in BrowserPages /\ PortalInit => Browser!Init
BY DEF PortalInit, BrowserPages

LEMMA OnlySessionSteps ==
  page \in BrowserPages /\ [PortalNext]_allVars => [Browser!Next]_(Browser!vars)
BY DEF BrowserPages, PortalNext, PaymentStep, SupplyStep, NoticeStep, SignInStep, SessionStep, allVars,
   sessionVars, Browser!vars

LEMMA SessionsInit == Browser!Sound /\ Browser!Init => Browser!SessionInv
<1> SUFFICES ASSUME Browser!Sound, Browser!Init PROVE Browser!SessionInv
  OBVIOUS
<1>1. /\ Browser!NoFlow \in [flow : Nat, ts : Int] /\ Browser!Never \in Int /\ Browser!Never <= 0
      /\ {} \in SUBSET Browser!Flows
  BY DEF Browser!NoFlow, Browser!Never, Browser!Sound
<1>2. Browser!Empty \in Browser!Cookies /\ Browser!Empty.user = Browser!NoUser
  BY <1>1 DEF Browser!Empty, Browser!Cookies
<1>3. cookie = Browser!Empty /\ now = 0
  BY DEF Browser!Init
<1>4. Browser!CookieInv(cookie)
  BY <1>1, <1>2, <1>3 DEF Browser!CookieInv, Browser!Signed, Browser!Empty
<1>5. Browser!TypeInv
  <2>1. tabs \in [Tabs -> Browser!TabStates] /\ minted \in Seq(Int)
    BY DEF Browser!Init, Browser!TabStates
  <2>2. stored \in [Accounts -> Browser!RoleSets] /\ changed \in [Accounts -> Int] /\ DOMAIN groups = Accounts
    BY <1>1 DEF Browser!Init, Browser!RoleSets
  <2>3. lapped \in BOOLEAN /\ out \in BOOLEAN
    BY DEF Browser!Init
  <2>4. QED
    BY <1>1, <1>2, <2>1, <2>2, <2>3 DEF Browser!Init, Browser!TypeInv, Browser!Sound
<1>6. \A t \in Tabs : tabs[t] = Browser!Idle /\ ~Browser!Waiting(t)
  BY DEF Browser!Init, Browser!Waiting, Browser!Idle
<1>7. Browser!AloneInv /\ \A t \in Tabs : Browser!TabInv(t)
  BY <1>6 DEF Browser!AloneInv, Browser!TabInv, Browser!Idle
<1>8. QED
  BY <1>4, <1>5, <1>7 DEF Browser!Init, Browser!SessionInv, Browser!SignInsComplete, Browser!RolesAreFresh,
     Browser!VerifiedBefore

\* What a tab that waits has.
LEMMA TabFacts ==
  ASSUME Browser!TypeInv, NEW t \in Tabs
  PROVE  /\ tabs[t] \in Browser!TabStates
         /\ Browser!Waiting(t) => tabs[t].session \in Browser!Cookies
         /\ tabs[t].pc \in {"toNC", "grant", "callback"} => tabs[t].flow \in Browser!Flows
         /\ tabs[t].pc = "callback" => tabs[t].who \in Accounts
         /\ tabs[t].pc = "reply" => tabs[t].had \in BOOLEAN
         /\ tabs[t].pc = "page" => tabs[t].kind \in {"view", "save", "verify", "logout"}
BY DEF Browser!TypeInv, Browser!TabStates, Browser!Waiting, Browser!Idle

\* What a step leaves of what sessions rest on.
SessionGrows ==
  /\ now <= now' /\ verified \subseteq verified' /\ faults <= faults' /\ cut \subseteq cut'
  /\ (lapped => lapped') /\ Len(minted) <= Len(minted') /\ Browser!Flows \subseteq Browser!Flows'
  /\ \A f \in Browser!Flows : minted'[f] = minted[f]
  /\ \A a \in Accounts : (groups'[a] = groups[a] /\ changed'[a] = changed[a]) \/ changed'[a] = now

LEMMA CookieKept ==
  ASSUME Browser!TypeInv, Browser!TypeInv', SessionGrows, NEW s \in Browser!Cookies, Browser!CookieInv(s)
  PROVE  Browser!CookieInv(s)' /\ s \in Browser!Cookies'
<1>1. s \in Browser!Cookies'
  BY DEF SessionGrows, Browser!Cookies
<1>2. /\ s.inflight = Browser!NoFlow \/ s.inflight.flow \in s.pending
      /\ s.refreshed <= now'
      /\ s.verified => verified' # {}
  BY DEF Browser!CookieInv, SessionGrows, Browser!Cookies, Browser!TypeInv
<1>3. ASSUME faults' = 0, Browser!Signed(s)
      PROVE  s.user.roles = Browser!RolesOf(groups'[s.user.name]) \/ s.refreshed <= changed'[s.user.name]
  <2>1. faults = 0
    BY <1>3 DEF SessionGrows, Browser!TypeInv
  <2>2. s.user.name \in Accounts /\ s.refreshed \in Int /\ changed[s.user.name] \in Int
    BY <1>3 DEF Browser!Cookies, Browser!Signed, Browser!TypeInv
  <2>3. s.user.roles = Browser!RolesOf(groups[s.user.name]) \/ s.refreshed <= changed[s.user.name]
    BY <1>3, <2>1 DEF Browser!CookieInv
  <2>4. s.refreshed <= now
    BY DEF Browser!CookieInv
  <2>5. QED
    BY <2>2, <2>3, <2>4 DEF SessionGrows
<1>4. QED
  BY <1>1, <1>2, <1>3 DEF Browser!CookieInv, Browser!NoFlow, Browser!Signed

LEMMA ExcusedKept ==
  ASSUME Browser!Sound, Browser!TypeInv, Browser!TypeInv', SessionGrows, NEW f \in Browser!Flows,
         Browser!Excused(f)
  PROVE  Browser!Excused(f)'
<1>1. /\ minted[f] \in Int /\ Len(minted) \in Int /\ Len(minted') \in Int /\ f \in Int
      /\ minted'[f] = minted[f] /\ now \in Int /\ now' \in Int
  BY DEF Browser!TypeInv, Browser!Flows, SessionGrows
<1>2. /\ now - minted[f] >= Interval => now' - minted'[f] >= Interval
      /\ Len(minted) - f > Cap => Len(minted') - f > Cap
  BY <1>1 DEF Browser!Sound, SessionGrows
<1>3. QED
  BY <1>2 DEF Browser!Excused, SessionGrows

\* One tab takes a step.
LEMMA TabMoves ==
  ASSUME Browser!Sound, Browser!SessionInv, Browser!TypeInv', SessionGrows, NEW t \in Tabs,
         NEW x \in Browser!TabStates',
         Browser!Set(t, x), Browser!CookieInv(cookie)',
         x.pc \in {"toNC", "callback", "page", "reply"} => Browser!CookieInv(x.session)',
         x.pc = "toNC" => x.flow \in x.session.pending,
         ~lapped' => Browser!AloneInv' /\ (out' => Browser!LeftInv'),
         Browser!SignInsComplete', Browser!RolesAreFresh', Browser!VerifiedBefore'
  PROVE  Browser!SessionInv'
<1>1. tabs'[t] = x /\ \A u \in Tabs \ {t} : tabs'[u] = tabs[u]
  BY DEF Browser!Set, Browser!SessionInv, Browser!TypeInv
<1>2. Browser!TabInv(t)'
  BY <1>1 DEF Browser!TabInv, Browser!Waiting
<1>3. ASSUME NEW u \in Tabs \ {t} PROVE Browser!TabInv(u)'
  <2>1. Browser!TypeInv /\ Browser!TabInv(u)
    BY DEF Browser!SessionInv
  <2>2. CASE ~Browser!Waiting(u)
    BY <1>1, <2>1, <2>2 DEF Browser!TabInv, Browser!Waiting
  <2>3. CASE Browser!Waiting(u)
    <3>1. tabs[u].session \in Browser!Cookies /\ Browser!CookieInv(tabs[u].session)
      BY <2>1, <2>3, TabFacts DEF Browser!TabInv
    <3>2. PICK s : s = tabs[u].session
      OBVIOUS
    <3>3. Browser!CookieInv(s)'
      BY <2>1, <3>1, <3>2, CookieKept
    <3>4. Browser!CookieInv(tabs[u].session)'
      BY <1>1, <3>2, <3>3 DEF Browser!CookieInv, Browser!Signed
    <3>5. QED
      BY <1>1, <2>1, <3>4 DEF Browser!TabInv
  <2>4. QED
    BY <2>2, <2>3
<1>4. QED
  BY <1>2, <1>3 DEF Browser!SessionInv
\* While requests do not overlap, one that is sent is the only one.
LEMMA AloneStarts ==
  ASSUME Browser!Sound, Browser!SessionInv, Browser!TypeInv', SessionGrows, NEW t \in Tabs,
         NEW x \in Browser!TabStates',
         ~Browser!Waiting(t), Browser!Set(t, x), Browser!Sends(t), UNCHANGED <<cookie, out>>,
         token' \in {token, "none"},
         x.pc \in {"toNC", "page", "callback"}, x.session.user = cookie.user,
         x.pc = "page" => x.session = cookie,
         x.pc = "callback" => token' = "none" /\ (~lapped => Browser!Kept(x.session, x.flow)'),
         token' # "none" => \A f \in Browser!Flows : f \in cookie.pending => Browser!Kept(x.session, f)'
  PROVE  ~lapped' => Browser!AloneInv' /\ (out' => Browser!LeftInv')
<1> SUFFICES ASSUME ~lapped' PROVE Browser!AloneInv' /\ (out' => Browser!LeftInv')
  OBVIOUS
<1>1. Browser!TypeInv /\ ~lapped /\ Browser!AloneInv /\ (out => Browser!LeftInv) /\ \A u \in Tabs : ~Browser!Waiting(u)
  BY DEF Browser!Sends, Browser!SessionInv
<1>2. tabs'[t] = x /\ \A u \in Tabs \ {t} : tabs'[u] = tabs[u]
  BY <1>1 DEF Browser!Set, Browser!TypeInv
<1>3. Browser!Waiting(t)' /\ \A u \in Tabs : Browser!Waiting(u)' => u = t
  BY <1>1, <1>2 DEF Browser!Waiting
<1>4. ASSUME NEW g \in Tabs, tabs'[g].pc = "grant", token' = g
      PROVE  Browser!Kept(cookie, tabs[g].flow)' /\ Browser!Kept(x.session, tabs[g].flow)'
  <2>1. g # t /\ tabs'[g] = tabs[g] /\ token = g /\ tabs[g].flow \in Browser!Flows
    BY <1>1, <1>2, <1>4, TabFacts DEF Browser!Sound
  <2>2. Browser!Kept(cookie, tabs[g].flow)
    BY <1>1, <1>4, <2>1 DEF Browser!AloneInv
  <2>3. PICK f \in Browser!Flows : f = tabs[g].flow /\ f = tabs'[g].flow
    BY <2>1
  <2>4. Browser!Excused(f) => Browser!Excused(f)'
    BY <1>1, ExcusedKept
  <2>5. f \in cookie.pending => Browser!Kept(x.session, f)'
    BY <1>4 DEF Browser!Sound
  <2>6. Browser!Kept(cookie, f)' /\ Browser!Kept(x.session, f)'
    BY <2>2, <2>3, <2>4, <2>5 DEF Browser!Kept
  <2>7. QED
    BY <2>3, <2>6 DEF Browser!Kept, Browser!Excused
<1>5. Browser!AloneInv'
  <2>1. ASSUME NEW u \in Tabs, tabs'[u].pc = "callback"
        PROVE  token' = "none" /\ Browser!Kept(tabs[u].session, tabs[u].flow)'
    <3>1. u = t /\ x.pc = "callback"
      BY <1>2, <1>3, <2>1 DEF Browser!Waiting
    <3>2. QED
      BY <1>1, <1>2, <3>1 DEF Browser!Kept, Browser!Excused
  <2>2. ASSUME NEW g \in Tabs, tabs'[g].pc = "grant", token' = g
        PROVE  /\ Browser!Kept(cookie, tabs[g].flow)'
               /\ \A u \in Tabs : Browser!Waiting(u)' => Browser!Kept(tabs[u].session, tabs[g].flow)'
    BY <1>2, <1>3, <1>4, <2>2 DEF Browser!Kept, Browser!Excused
  <2>3. \A u \in Tabs : tabs'[u].pc = "page" => tabs'[u].session = cookie'
    BY <1>2, <1>3 DEF Browser!Waiting
  <2>4. QED
    BY <1>3, <2>1, <2>2, <2>3 DEF Browser!AloneInv
<1>6. ASSUME out' PROVE Browser!LeftInv'
  <2>1. ~Browser!Signed(cookie)
    BY <1>1, <1>6 DEF Browser!LeftInv, Browser!Waiting
  <2>2. QED
    BY <1>2, <1>3, <2>1 DEF Browser!LeftInv, Browser!Signed
<1>7. QED
  BY <1>5, <1>6

\* ... and so is one that goes on, or ends.
LEMMA AloneGoes ==
  ASSUME Browser!Sound, Browser!SessionInv, Browser!TypeInv', SessionGrows, NEW t \in Tabs,
         NEW x \in Browser!TabStates',
         Browser!Waiting(t), Browser!Set(t, x), UNCHANGED lapped, x.pc \in {"reply", "grant", "idle"},
         \/ token' = token /\ x.pc # "grant"
         \/ token' = t /\ x.pc = "grant" /\ Browser!Kept(cookie, x.flow)',
         ~lapped /\ tabs[t].pc # "callback" => \A f \in Browser!Flows :
           Browser!Kept(cookie, f) /\ Browser!Kept(tabs[t].session, f) =>
             Browser!Kept(cookie, f)' /\ (x.pc = "reply" => Browser!Kept(x.session, f)'),
         ~lapped /\ Browser!AloneInv /\ out' /\ (out => Browser!LeftInv) =>
           /\ x.pc = "reply" => ~Browser!Signed(x.session)
           /\ Browser!Signed(cookie') => x.pc = "reply" /\ (x.session # Browser!Empty \/ x.had)
  PROVE  ~lapped' => Browser!AloneInv' /\ (out' => Browser!LeftInv')
<1> SUFFICES ASSUME ~lapped' PROVE Browser!AloneInv' /\ (out' => Browser!LeftInv')
  OBVIOUS
<1>1. Browser!TypeInv /\ ~lapped /\ Browser!AloneInv /\ (out => Browser!LeftInv)
  BY DEF Browser!SessionInv
<1>2. tabs'[t] = x /\ \A u \in Tabs \ {t} : tabs'[u] = tabs[u] /\ ~Browser!Waiting(u) /\ ~Browser!Waiting(u)'
  BY <1>1 DEF Browser!Set, Browser!TypeInv, Browser!AloneInv, Browser!Waiting
<1>3. (Browser!Waiting(t)' => x.pc = "reply") /\ \A u \in Tabs : Browser!Waiting(u)' => u = t
  BY <1>2 DEF Browser!Waiting
<1>4. ASSUME NEW g \in Tabs, tabs'[g].pc = "grant", token' = g
      PROVE  Browser!Kept(cookie, tabs[g].flow)' /\ (x.pc = "reply" => Browser!Kept(x.session, tabs[g].flow)')
  <2>1. CASE g = t
    BY <1>2, <1>4, <2>1 DEF Browser!Kept, Browser!Excused
  <2>2. CASE g # t
    <3>1. tabs'[g] = tabs[g] /\ token = g /\ tabs[g].flow \in Browser!Flows /\ tabs[t].pc # "callback"
      BY <1>1, <1>2, <1>4, <2>2, TabFacts DEF Browser!Sound, Browser!AloneInv
    <3>2. Browser!Kept(cookie, tabs[g].flow) /\ Browser!Kept(tabs[t].session, tabs[g].flow)
      BY <1>1, <1>4, <3>1 DEF Browser!AloneInv
    <3>3. QED
      BY <1>1, <3>1, <3>2 DEF Browser!Kept, Browser!Excused
  <2>3. QED
    BY <2>1, <2>2
<1>5. Browser!AloneInv'
  <2>1. ASSUME NEW g \in Tabs, tabs'[g].pc = "grant", token' = g
        PROVE  /\ Browser!Kept(cookie, tabs[g].flow)'
               /\ \A u \in Tabs : Browser!Waiting(u)' => Browser!Kept(tabs[u].session, tabs[g].flow)'
    BY <1>2, <1>3, <1>4, <2>1 DEF Browser!Kept, Browser!Excused
  <2>2. \A u \in Tabs : tabs'[u].pc \notin {"page", "callback"}
    BY <1>2, <1>3 DEF Browser!Waiting
  <2>3. QED
    BY <1>3, <2>1, <2>2 DEF Browser!AloneInv
<1>6. ASSUME out' PROVE Browser!LeftInv'
  BY <1>1, <1>2, <1>3, <1>6 DEF Browser!LeftInv, Browser!Signed
<1>7. QED
  BY <1>5, <1>6

LEMMA BrowserCounts == \A S : Browser!Cardinality(S) = Cardinality(S)
BY DEF Browser!Cardinality, Cardinality

LEMMA PrunedKept ==
  ASSUME Browser!Sound, Browser!TypeInv, NEW f \in cookie.pending, f \notin Browser!Pruned(cookie.pending)
  PROVE  now - minted[f] >= Interval \/ Len(minted) - f >= Cap
<1> DEFINE later == {g \in Browser!Live(cookie.pending) : f < g}
<1>1. /\ cookie.pending \subseteq Browser!Flows /\ f \in Browser!Flows /\ Browser!Flows = 1..Len(minted)
      /\ Len(minted) \in Nat
      /\ now \in Int /\ minted[f] \in Int /\ Interval \in Nat /\ Cap \in Nat
  BY DEF Browser!TypeInv, Browser!Cookies, Browser!Flows, Browser!Sound
<1>2. CASE f \notin Browser!Live(cookie.pending)
  BY <1>1, <1>2 DEF Browser!Live
<1>3. CASE f \in Browser!Live(cookie.pending)
  <2>1. ~(Cardinality(later) < Cap)
    BY <1>3, BrowserCounts DEF Browser!Pruned
  <2>2. later \subseteq (f + 1)..Len(minted)
    <3>1. Browser!Live(cookie.pending) \subseteq 1..Len(minted)
      BY <1>1 DEF Browser!Live
    <3>2. f \in Int /\ Len(minted) \in Int
      BY <1>1
    <3>3. QED
      BY <3>1, <3>2
  <2>3. IsFiniteSet((f + 1)..Len(minted)) /\ Cardinality((f + 1)..Len(minted)) = Len(minted) - f
    <3>1. f + 1 \in Int /\ Len(minted) \in Int /\ f \in 1..Len(minted)
      BY <1>1
    <3>2. /\ IsFiniteSet((f + 1)..Len(minted))
          /\ Cardinality((f + 1)..Len(minted)) =
               (IF f + 1 > Len(minted) THEN 0 ELSE Len(minted) - (f + 1) + 1)
      BY <3>1, FS_Interval
    <3>3. QED
      BY <3>1, <3>2
  <2>4. Cardinality(later) <= Len(minted) - f /\ Cardinality(later) \in Nat
    BY <2>2, <2>3, FS_Subset, FS_CardinalityType
  <2>5. QED
    BY <1>1, <2>1, <2>4
<1>4. QED
  BY <1>2, <1>3

LEMMA SessionLogin ==
  ASSUME Browser!Sound, Browser!SessionInv, NEW t \in Tabs, Browser!Login(t)
  PROVE  Browser!SessionInv'
<1>1. /\ UNCHANGED <<now, cookie, token, asks, Browser!records, faults, out, cut, wrong>>
      /\ UNCHANGED <<groups, changed, verified, stored, changes>>
      /\ ~Browser!Waiting(t) /\ Browser!Sends(t) /\ Browser!TypeInv /\ Browser!CookieInv(cookie)
      /\ cookie \in Browser!Cookies
  BY DEF Browser!Login, Browser!SessionInv, Browser!TypeInv, Browser!records
<1>2. PICK x : /\ Browser!Set(t, x) /\ x.pc = "toNC" /\ x.session.user = cookie.user
               /\ x \in Browser!TabStates' /\ SessionGrows /\ minted' \in Seq(Int)
               /\ x.session \in Browser!Cookies' /\ Browser!CookieInv(x.session)'
               /\ x.flow \in x.session.pending
               /\ \A f \in Browser!Flows : f \in cookie.pending => f \in x.session.pending \/ Browser!Excused(f)'
  <2>1. CASE Browser!Reusable(cookie)
    <3>1. PICK x : /\ Browser!Set(t, x) /\ UNCHANGED minted
                   /\ x = [pc |-> "toNC", session |-> cookie, flow |-> cookie.inflight.flow]
      BY <2>1 DEF Browser!Login
    <3>2. x.flow \in cookie.pending /\ cookie.inflight.flow \in Browser!Flows
      BY <1>1, <2>1, <3>1 DEF Browser!Reusable, Browser!CookieInv, Browser!Cookies
    <3>3. SessionGrows
      BY <1>1, <3>1 DEF SessionGrows, Browser!Sends, Browser!TypeInv, Browser!Flows
    <3>4. x.session = cookie /\ cookie \in Browser!Cookies' /\ Browser!CookieInv(cookie)'
      BY <1>1, <3>1 DEF Browser!Cookies, Browser!Flows, Browser!CookieInv, Browser!NoFlow, Browser!Signed
    <3>5. x \in Browser!TabStates'
      BY <1>1, <3>1, <3>2, <3>4 DEF Browser!TabStates, Browser!Flows
    <3>6. Browser!CookieInv(x.session)'
      BY <1>1, <3>1 DEF Browser!CookieInv, Browser!NoFlow, Browser!Signed
    <3>7. QED
      BY <1>1, <3>1, <3>2, <3>3, <3>4, <3>5, <3>6 DEF Browser!TypeInv
  <2>2. CASE ~Browser!Reusable(cookie)
    <3>1. PICK flow, s, x :
            /\ flow = Len(minted) + 1
            /\ s = [cookie EXCEPT !.pending = Browser!Pruned(@) \cup {flow},
                                  !.inflight = [flow |-> flow, ts |-> now]]
            /\ x = [pc |-> "toNC", flow |-> flow, session |-> s]
            /\ Browser!Set(t, x) /\ minted' = Append(minted, now)
      BY <2>2 DEF Browser!Login
    <3>2. /\ minted \in Seq(Int) /\ now \in Int /\ Len(minted) \in Nat /\ minted' \in Seq(Int)
          /\ Len(minted') = Len(minted) + 1 /\ Browser!Flows = 1..Len(minted) /\ Browser!Flows' = 1..flow
          /\ \A f \in Browser!Flows : minted'[f] = minted[f]
      BY <1>1, <3>1 DEF Browser!TypeInv, Browser!Flows
    <3>3. Browser!Flows \subseteq Browser!Flows' /\ Len(minted) <= Len(minted')
      <4>1. \A n \in Nat : 1..n \subseteq 1..(n + 1) /\ n <= n + 1
        OBVIOUS
      <4>2. QED
        BY <3>1, <3>2, <4>1
    <3>4. SessionGrows
      <4>1. now <= now' /\ faults <= faults'
        BY <1>1 DEF Browser!TypeInv
      <4>2. lapped => lapped'
        BY <1>1 DEF Browser!Sends
      <4>3. QED
        BY <1>1, <3>2, <3>3, <4>1, <4>2 DEF SessionGrows
    <3>5. Browser!Pruned(cookie.pending) \subseteq Browser!Flows /\ flow \in Browser!Flows'
      BY <1>1, <3>1, <3>2 DEF Browser!Pruned, Browser!Live, Browser!Cookies
    <3>6. /\ s.user = cookie.user /\ s.pending = Browser!Pruned(cookie.pending) \cup {flow}
          /\ s.inflight = [flow |-> flow, ts |-> now] /\ s.refreshed = cookie.refreshed
          /\ s.verified = cookie.verified
          /\ s = [user |-> s.user, pending |-> s.pending, inflight |-> s.inflight,
                  refreshed |-> s.refreshed, verified |-> s.verified]
      BY <1>1, <3>1 DEF Browser!Cookies
    <3>7. s \in Browser!Cookies'
      <4>1. s.pending \in SUBSET Browser!Flows'
        BY <3>3, <3>5, <3>6
      <4>2. s.inflight \in [flow : Nat, ts : Int]
        BY <3>1, <3>2, <3>6
      <4>3. /\ s.user \in {Browser!NoUser} \cup [name : Accounts, roles : Browser!RoleSets]
            /\ s.refreshed \in Int /\ s.verified \in BOOLEAN
        BY <1>1, <3>6 DEF Browser!Cookies
      <4>4. QED
        BY <3>6, <4>1, <4>2, <4>3 DEF Browser!Cookies
    <3>8. Browser!CookieInv(s)'
      BY <1>1, <3>6 DEF Browser!CookieInv, Browser!NoFlow, Browser!Signed
    <3>9. x \in Browser!TabStates' /\ x.flow \in s.pending /\ x.session = s /\ x.pc = "toNC"
      BY <3>1, <3>5, <3>6, <3>7 DEF Browser!TabStates
    <3>10. ASSUME NEW f \in Browser!Flows, f \in cookie.pending PROVE f \in s.pending \/ Browser!Excused(f)'
      <4>1. f \in Browser!Pruned(cookie.pending) \/ now - minted[f] >= Interval \/ Len(minted) - f >= Cap
        BY <1>1, <3>10, PrunedKept
      <4>2. Len(minted) - f >= Cap => Len(minted') - f > Cap
        BY <3>2 DEF Browser!Sound
      <4>3. QED
        BY <1>1, <3>2, <3>6, <4>1, <4>2 DEF Browser!Excused
    <3>11. Browser!CookieInv(x.session)'
      BY <3>8, <3>9 DEF Browser!CookieInv, Browser!Signed
    <3>12. QED
      BY <3>1, <3>2, <3>4, <3>6, <3>7, <3>9, <3>10, <3>11
  <2>3. QED
    BY <2>1, <2>2
<1>3. Browser!TypeInv'
  <2>1. tabs' \in [Tabs -> Browser!TabStates']
    <3>1. Browser!TabStates \subseteq Browser!TabStates'
      BY <1>2 DEF Browser!TabStates, SessionGrows, Browser!Cookies
    <3>2. QED
      BY <1>1, <1>2, <3>1 DEF Browser!Set, Browser!TypeInv
  <2>2. cookie' \in Browser!Cookies' /\ cut' \subseteq Browser!Flows' /\ lapped' \in BOOLEAN
    BY <1>1, <1>2 DEF SessionGrows, Browser!Cookies, Browser!Sends, Browser!TypeInv
  <2>3. QED
    BY <1>1, <1>2, <2>1, <2>2 DEF Browser!TypeInv
<1>4. Browser!CookieInv(cookie)'
  BY <1>1 DEF Browser!CookieInv, Browser!NoFlow, Browser!Signed
<1>5. ~lapped' => Browser!AloneInv' /\ (out' => Browser!LeftInv')
  <2>1. \A f \in Browser!Flows : f \in cookie.pending => Browser!Kept(x.session, f)'
    BY <1>2 DEF Browser!Kept
  <2>2. QED
    BY <1>1, <1>2, <1>3, <2>1, AloneStarts
<1>6. Browser!SignInsComplete' /\ Browser!RolesAreFresh' /\ Browser!VerifiedBefore'
  BY <1>1 DEF Browser!SessionInv, Browser!SignInsComplete, Browser!RolesAreFresh, Browser!VerifiedBefore
<1>7. QED
  BY <1>2, <1>3, <1>4, <1>5, <1>6, TabMoves

\* A step that mints no state keeps the types if what it writes has them.
LEMMA TypeMoves ==
  ASSUME Browser!TypeInv, UNCHANGED minted, NEW t \in Tabs, NEW x \in Browser!TabStates, Browser!Set(t, x)
  PROVE  /\ tabs' \in [Tabs -> Browser!TabStates'] /\ x \in Browser!TabStates'
         /\ Browser!Flows' = Browser!Flows /\ Browser!Cookies' = Browser!Cookies
         /\ Browser!TabStates' = Browser!TabStates
BY DEF Browser!TypeInv, Browser!Set, Browser!Flows, Browser!Cookies, Browser!TabStates

LEMMA SessionFollow ==
  ASSUME Browser!Sound, Browser!SessionInv, NEW t \in Tabs, Browser!Follow(t)
  PROVE  Browser!SessionInv'
<1>0. PICK x : x = [pc |-> "grant", flow |-> tabs[t].flow]
  OBVIOUS
<1>1. /\ UNCHANGED <<now, minted, asks, Browser!records, faults, lapped, out, cut, wrong>>
      /\ UNCHANGED <<groups, changed, verified, stored, changes>>
      /\ Browser!Waiting(t) /\ Browser!TypeInv /\ cookie' = tabs[t].session /\ token' = t
      /\ Browser!Set(t, x)
      /\ tabs[t].pc = "toNC"
  BY <1>0 DEF Browser!Follow, Browser!SessionInv, Browser!records, Browser!Waiting
<1>2. /\ tabs[t].session \in Browser!Cookies /\ Browser!CookieInv(tabs[t].session)
      /\ tabs[t].flow \in Browser!Flows
      /\ tabs[t].flow \in tabs[t].session.pending
  BY <1>1, TabFacts DEF Browser!SessionInv, Browser!TabInv
<1>3. x \in Browser!TabStates /\ x.pc = "grant" /\ x.flow = tabs[t].flow
  BY <1>0, <1>2 DEF Browser!TabStates
<1>4. SessionGrows
  BY <1>1 DEF SessionGrows, Browser!Flows, Browser!TypeInv
<1>5. Browser!TypeInv' /\ x \in Browser!TabStates'
  BY <1>1, <1>2, <1>3, TypeMoves DEF Browser!TypeInv
<1>6. Browser!CookieInv(cookie)'
  BY <1>1, <1>2 DEF Browser!CookieInv, Browser!NoFlow, Browser!Signed
<1>7. ~lapped' => Browser!AloneInv' /\ (out' => Browser!LeftInv')
  <2>1. Browser!Kept(cookie, x.flow)'
    BY <1>1, <1>2, <1>3 DEF Browser!Kept
  <2>2. ASSUME NEW f \in Browser!Flows, Browser!Kept(tabs[t].session, f) PROVE Browser!Kept(cookie, f)'
    BY <1>1, <1>4, <1>5, <2>2, ExcusedKept DEF Browser!Kept
  <2>3. out' /\ (out => Browser!LeftInv) => ~Browser!Signed(cookie')
    BY <1>1 DEF Browser!LeftInv
  <2>4. QED
    BY <1>1, <1>3, <1>4, <1>5, <2>1, <2>2, <2>3, AloneGoes
<1>8. Browser!SignInsComplete' /\ Browser!RolesAreFresh' /\ Browser!VerifiedBefore'
  BY <1>1 DEF Browser!SessionInv, Browser!SignInsComplete, Browser!RolesAreFresh, Browser!VerifiedBefore
<1>9. QED
  BY <1>1, <1>3, <1>4, <1>5, <1>6, <1>7, <1>8, TabMoves

\* A request that is sent with the session of the browser.
LEMMA SentFacts ==
  ASSUME Browser!Sound, Browser!SessionInv, NEW t \in Tabs, NEW x \in Browser!TabStates,
         ~Browser!Waiting(t), Browser!Set(t, x), Browser!Sends(t),
         UNCHANGED <<now, cookie, minted, faults, out, cut, wrong, groups, changed, verified, stored>>,
         token' \in {token, "none"}, x.pc \in {"page", "callback"}, x.session = cookie,
         x.pc = "callback" => token' = "none" /\ (~lapped => Browser!Kept(cookie, x.flow)),
         x.pc = "callback" => x.flow \in Browser!Flows
  PROVE  Browser!SessionInv'
<1>1. Browser!TypeInv /\ Browser!CookieInv(cookie)
  BY DEF Browser!SessionInv
<1>2. SessionGrows
  BY <1>1 DEF SessionGrows, Browser!Flows, Browser!TypeInv, Browser!Sends
<1>3. Browser!TypeInv' /\ x \in Browser!TabStates'
  BY <1>1, TypeMoves DEF Browser!TypeInv, Browser!Sends
<1>4. Browser!CookieInv(cookie)' /\ Browser!CookieInv(x.session)'
  BY <1>1 DEF Browser!CookieInv, Browser!NoFlow, Browser!Signed
<1>5. ~lapped' => Browser!AloneInv' /\ (out' => Browser!LeftInv')
  <2>1. \A f \in Browser!Flows : f \in cookie.pending => Browser!Kept(x.session, f)'
    BY DEF Browser!Kept
  <2>2. x.pc = "callback" => token' = "none" /\ (~lapped => Browser!Kept(x.session, x.flow)')
    BY <1>1, <1>2, <1>3, ExcusedKept DEF Browser!Kept
  <2>3. QED
    BY <1>2, <1>3, <2>1, <2>2, AloneStarts
<1>6. Browser!SignInsComplete' /\ Browser!RolesAreFresh' /\ Browser!VerifiedBefore'
  BY DEF Browser!SessionInv, Browser!SignInsComplete, Browser!RolesAreFresh, Browser!VerifiedBefore
<1>7. QED
  BY <1>2, <1>3, <1>4, <1>5, <1>6, TabMoves

LEMMA SessionAsk ==
  ASSUME Browser!Sound, Browser!SessionInv, NEW t \in Tabs,
         NEW kind \in {"view", "save", "verify", "logout"},
         Browser!Ask(t, kind)
  PROVE  Browser!SessionInv'
<1>1. PICK x : x = [pc |-> "page", kind |-> kind, session |-> cookie]
  OBVIOUS
<1>2. /\ ~Browser!Waiting(t) /\ Browser!Set(t, x) /\ Browser!Sends(t) /\ token' = token
      /\ UNCHANGED <<now, cookie, minted, faults, out, cut, wrong, groups, changed, verified, stored>>
  BY <1>1 DEF Browser!Ask, Browser!records
<1>3. x \in Browser!TabStates /\ x.pc = "page" /\ x.session = cookie
  BY <1>1 DEF Browser!SessionInv, Browser!TypeInv, Browser!TabStates
<1>4. QED
  BY <1>2, <1>3, SentFacts

LEMMA SessionGrant ==
  ASSUME Browser!Sound, Browser!SessionInv, NEW t \in Tabs, NEW who \in Accounts,
         Browser!Grant(t, who) PROVE Browser!SessionInv'
<1>1. /\ tabs[t].pc = "grant" /\ ~Browser!Waiting(t) /\ Browser!TypeInv /\ tabs[t].flow \in Browser!Flows
      /\ cookie \in Browser!Cookies
      /\ UNCHANGED <<now, cookie, minted, faults, out, cut, wrong, groups, changed, verified, stored>>
  BY TabFacts DEF Browser!Grant, Browser!Waiting, Browser!SessionInv, Browser!TypeInv, Browser!records
<1>2. CASE token = t
  <2>1. PICK x : x = [pc |-> "callback", session |-> cookie, flow |-> tabs[t].flow, who |-> who]
    OBVIOUS
  <2>2. Browser!Set(t, x) /\ Browser!Sends(t) /\ token' = "none"
    BY <1>2, <2>1 DEF Browser!Grant
  <2>3. /\ x \in Browser!TabStates /\ x.pc = "callback" /\ x.session = cookie /\ x.flow = tabs[t].flow
    BY <1>1, <2>1 DEF Browser!TabStates
  <2>4. ~lapped => Browser!Kept(cookie, x.flow)
    BY <1>1, <1>2, <2>3 DEF Browser!SessionInv, Browser!AloneInv
  <2>5. QED
    BY <1>1, <2>2, <2>3, <2>4, SentFacts
<1>3. CASE token # t
  <2>1. PICK x : x = Browser!Idle
    OBVIOUS
  <2>2. Browser!Set(t, x) /\ UNCHANGED <<token, lapped>>
    BY <1>3, <2>1 DEF Browser!Grant
  <2>3. x \in Browser!TabStates /\ x.pc = "idle"
    BY <2>1 DEF Browser!TabStates, Browser!Idle
  <2>4. SessionGrows
    BY <1>1, <2>2 DEF SessionGrows, Browser!Flows, Browser!TypeInv
  <2>5. Browser!TypeInv' /\ x \in Browser!TabStates'
    BY <1>1, <2>2, <2>3, TypeMoves DEF Browser!TypeInv
  <2>6. Browser!CookieInv(cookie)'
    BY <1>1 DEF Browser!SessionInv, Browser!CookieInv, Browser!NoFlow, Browser!Signed
  <2>7. tabs'[t] = x /\ \A u \in Tabs \ {t} : tabs'[u] = tabs[u]
    BY <1>1, <2>2 DEF Browser!Set, Browser!TypeInv
  <2>8. ASSUME ~lapped' PROVE Browser!AloneInv' /\ (out' => Browser!LeftInv')
    <3>1. Browser!AloneInv /\ (out => Browser!LeftInv)
      BY <2>2, <2>8 DEF Browser!SessionInv
    <3>2. \A u \in Tabs : (Browser!Waiting(u)' => u # t /\ Browser!Waiting(u)) /\ (tabs'[u].pc \in {"page", "callback", "grant"} => u # t)
      BY <2>3, <2>7 DEF Browser!Waiting
    <3>3. Browser!AloneInv'
      BY <1>1, <2>2, <2>7, <3>1, <3>2 DEF Browser!AloneInv, Browser!Kept, Browser!Excused
    <3>4. out' => Browser!LeftInv'
      BY <1>1, <2>2, <2>7, <3>1, <3>2 DEF Browser!LeftInv, Browser!Signed
    <3>5. QED
      BY <3>3, <3>4
  <2>9. Browser!SignInsComplete' /\ Browser!RolesAreFresh' /\ Browser!VerifiedBefore'
    BY <1>1 DEF Browser!SessionInv, Browser!SignInsComplete, Browser!RolesAreFresh, Browser!VerifiedBefore
  <2>10. QED
    BY <2>2, <2>3, <2>4, <2>5, <2>6, <2>8, <2>9, TabMoves
<1>4. QED
  BY <1>2, <1>3

\* A request that is answered, or ends.
LEMMA AnswerFacts ==
  ASSUME Browser!Sound, Browser!SessionInv, NEW t \in Tabs, NEW x \in Browser!TabStates, Browser!Waiting(t),
         Browser!Set(t, x),
         x.pc \in {"reply", "idle"}, UNCHANGED <<now, minted, lapped, token, groups, changed>>,
         cookie' \in Browser!Cookies, Browser!CookieInv(cookie)',
         x.pc = "reply" => Browser!CookieInv(x.session)',
         verified \subseteq verified', verified' \subseteq Accounts, stored' \in [Accounts -> Browser!RoleSets],
         faults' \in 0..MaxFaults, faults <= faults', cut \subseteq cut', cut' \subseteq Browser!Flows,
         out' \in BOOLEAN,
         ~lapped /\ tabs[t].pc # "callback" => \A f \in Browser!Flows :
           Browser!Kept(cookie, f) /\ Browser!Kept(tabs[t].session, f) =>
             Browser!Kept(cookie, f)' /\ (x.pc = "reply" => Browser!Kept(x.session, f)'),
         ~lapped /\ Browser!AloneInv /\ out' /\ (out => Browser!LeftInv) =>
           /\ x.pc = "reply" => ~Browser!Signed(x.session)
           /\ Browser!Signed(cookie') => x.pc = "reply" /\ (x.session # Browser!Empty \/ x.had),
         Browser!SignInsComplete', Browser!RolesAreFresh', Browser!VerifiedBefore'
  PROVE  Browser!SessionInv'
<1>1. Browser!TypeInv
  BY DEF Browser!SessionInv
<1>2. SessionGrows
  BY <1>1 DEF SessionGrows, Browser!Flows, Browser!TypeInv
<1>3. Browser!TypeInv' /\ x \in Browser!TabStates'
  BY <1>1, TypeMoves DEF Browser!TypeInv
<1>4. ~lapped' => Browser!AloneInv' /\ (out' => Browser!LeftInv')
  BY <1>2, <1>3, AloneGoes
<1>5. QED
  BY <1>2, <1>3, <1>4, TabMoves

LEMMA RolesType == \A gs : Browser!RolesOf(gs) \in Browser!RoleSets
BY DEF Browser!RolesOf, Browser!RoleSets

LEMMA SessionCallback ==
  ASSUME Browser!Sound, Browser!SessionInv, NEW t \in Tabs, Browser!Callback(t)
  PROVE  Browser!SessionInv'
<1>1. PICK q : q = tabs[t]
  OBVIOUS
<1>2. /\ Browser!Waiting(t) /\ Browser!TypeInv /\ q.pc = "callback" /\ q.session \in Browser!Cookies
      /\ q.flow \in Browser!Flows
      /\ q.who \in Accounts /\ Browser!CookieInv(q.session) /\ cookie \in Browser!Cookies
      /\ Browser!CookieInv(cookie)
      /\ UNCHANGED <<now, cookie, token, minted, asks, groups, changed, verified, changes, lapped, cut>>
  BY <1>1, TabFacts DEF Browser!Callback, Browser!Waiting, Browser!SessionInv, Browser!TabInv,
     Browser!TypeInv
<1>3. PICK s : s = [Browser!Landed(q.session) EXCEPT !.pending = Browser!Live(@ \ {q.flow})]
  OBVIOUS
<1>4. /\ s \in Browser!Cookies /\ s.user = q.session.user /\ s.inflight = Browser!NoFlow
      /\ s.refreshed = q.session.refreshed /\ s.verified = q.session.verified
  <2>1. /\ Browser!NoFlow \in [flow : Nat, ts : Int]
        /\ Browser!Live(q.session.pending \ {q.flow}) \in SUBSET Browser!Flows
    BY <1>2 DEF Browser!NoFlow, Browser!Never, Browser!Sound, Browser!Live, Browser!Cookies
  <2>2. /\ s.user = q.session.user /\ s.inflight = Browser!NoFlow
        /\ s.refreshed = q.session.refreshed /\ s.verified = q.session.verified
        /\ s.pending = Browser!Live(q.session.pending \ {q.flow})
        /\ s = [user |-> s.user, pending |-> s.pending, inflight |-> s.inflight,
                refreshed |-> s.refreshed, verified |-> s.verified]
    BY <1>2, <1>3 DEF Browser!Landed, Browser!Cookies
  <2>3. QED
    BY <1>2, <2>1, <2>2 DEF Browser!Cookies
<1>5. Browser!CookieInv(s)
  BY <1>2, <1>4 DEF Browser!CookieInv, Browser!Signed
<1>6. Browser!SignInsComplete' /\ Browser!RolesAreFresh' /\ Browser!VerifiedBefore'
  <2>1. q.flow \in q.session.pending \/ Browser!Excused(q.flow)
    BY <1>1, <1>2 DEF Browser!SessionInv, Browser!AloneInv, Browser!Kept, Browser!Excused
  <2>2. wrong' = wrong
    BY <1>1, <1>2, <2>1 DEF Browser!Callback, Browser!Wrong
  <2>3. QED
    BY <2>2 DEF Browser!SessionInv, Browser!SignInsComplete, Browser!RolesAreFresh, Browser!VerifiedBefore
<1>7. ~lapped /\ Browser!AloneInv => \A u \in Tabs : Browser!Waiting(u) => u = t
  BY <1>2 DEF Browser!AloneInv
<1>8. ~lapped /\ Browser!AloneInv /\ out /\ Browser!LeftInv => ~Browser!Signed(q.session) /\ ~Browser!Signed(cookie)
  BY <1>1, <1>2, <1>7 DEF Browser!LeftInv, Browser!Waiting
<1>9. CASE faults' \in 0..MaxFaults /\ faults <= faults' /\ UNCHANGED <<stored, out>> /\ Browser!Reply(t, s, TRUE)
  <2>1. PICK x : x = [pc |-> "reply", session |-> s, had |-> TRUE]
    OBVIOUS
  <2>2. x \in Browser!TabStates /\ Browser!Set(t, x) /\ x.pc = "reply" /\ x.session = s
    BY <1>4, <1>9, <2>1 DEF Browser!TabStates, Browser!Reply
  <2>3. Browser!CookieInv(cookie)' /\ Browser!CookieInv(s)' /\ Browser!CookieInv(x.session)'
    BY <1>2, <1>4, <1>5, <1>9, <2>2 DEF Browser!CookieInv, Browser!Signed, Browser!NoFlow, Browser!TypeInv
  <2>4. ~lapped /\ Browser!AloneInv /\ out' /\ (out => Browser!LeftInv) => ~Browser!Signed(x.session) /\ ~Browser!Signed(cookie')
    BY <1>2, <1>4, <1>8, <1>9, <2>2 DEF Browser!Signed
  <2>5. QED
    BY <1>1, <1>2, <1>6, <1>9, <2>2, <2>3, <2>4, AnswerFacts DEF Browser!TypeInv
<1>10. CASE faults' \in 0..MaxFaults /\ faults <= faults' /\ UNCHANGED <<stored, out>> /\ Browser!Set(t, Browser!Idle)
  <2>1. PICK x : x = Browser!Idle
    OBVIOUS
  <2>2. x \in Browser!TabStates /\ Browser!Set(t, x) /\ x.pc = "idle"
    BY <1>10, <2>1 DEF Browser!TabStates, Browser!Idle
  <2>3. Browser!CookieInv(cookie)'
    BY <1>2, <1>10 DEF Browser!CookieInv, Browser!Signed, Browser!NoFlow, Browser!TypeInv
  <2>4. ~lapped /\ Browser!AloneInv /\ out' /\ (out => Browser!LeftInv) => ~Browser!Signed(cookie')
    BY <1>2, <1>8, <1>10 DEF Browser!Signed
  <2>5. QED
    BY <1>1, <1>2, <1>6, <1>10, <2>2, <2>3, <2>4, AnswerFacts DEF Browser!TypeInv
<1>11. ASSUME NEW fetched \in BOOLEAN,
              IF fetched THEN UNCHANGED faults ELSE Browser!Fault,
              stored' = [stored EXCEPT ![q.who] = Browser!RolesOf(IF fetched THEN groups[q.who] ELSE {})],
              out' = FALSE,
              Browser!Reply(t, [s EXCEPT !.user =
                [name |-> q.who, roles |-> Browser!RolesOf(IF fetched THEN groups[q.who] ELSE {})]], TRUE)
       PROVE  Browser!SessionInv'
  <2>1. PICK roles : roles = Browser!RolesOf(IF fetched THEN groups[q.who] ELSE {})
    OBVIOUS
  <2>2. PICK r : r = [s EXCEPT !.user = [name |-> q.who, roles |-> roles]]
    OBVIOUS
  <2>3. PICK x : x = [pc |-> "reply", session |-> r, had |-> TRUE]
    OBVIOUS
  <2>4. /\ r \in Browser!Cookies /\ r.user = [name |-> q.who, roles |-> roles]
        /\ r.inflight = Browser!NoFlow
        /\ r.refreshed = s.refreshed /\ r.verified = s.verified /\ roles \in Browser!RoleSets
    BY <1>2, <1>4, <2>1, <2>2, RolesType DEF Browser!Cookies
  <2>5. x \in Browser!TabStates /\ Browser!Set(t, x) /\ x.pc = "reply" /\ x.session = r
    BY <1>11, <2>1, <2>2, <2>3, <2>4 DEF Browser!TabStates, Browser!Reply
  <2>6. faults' \in 0..MaxFaults /\ faults <= faults' /\ (faults' = 0 => fetched)
    BY <1>2, <1>11 DEF Browser!Fault, Browser!TypeInv, Browser!Sound
  <2>7. Browser!CookieInv(cookie)' /\ Browser!CookieInv(r)'
    <3>1. Browser!CookieInv(cookie)'
      BY <1>2, <2>6 DEF Browser!CookieInv, Browser!Signed, Browser!NoFlow, Browser!TypeInv
    <3>2. faults' = 0 => r.user.roles = Browser!RolesOf(groups'[r.user.name])
      BY <1>2, <2>1, <2>4, <2>6
    <3>3. QED
      BY <1>2, <1>5, <2>4, <3>1, <3>2, <1>4 DEF Browser!CookieInv, Browser!Signed
  <2>8. Browser!CookieInv(x.session)'
    BY <2>5, <2>7 DEF Browser!CookieInv, Browser!Signed
  <2>9. stored' \in [Accounts -> Browser!RoleSets]
    BY <1>2, <1>11, RolesType DEF Browser!TypeInv
  <2>10. QED
    BY <1>1, <1>2, <1>6, <1>11, <2>5, <2>6, <2>7, <2>8, <2>9, AnswerFacts DEF Browser!TypeInv
<1>12. QED
  <2>1. faults \in 0..MaxFaults /\ MaxFaults \in Nat
    BY <1>2 DEF Browser!TypeInv, Browser!Sound
  <2>2. Browser!Fault => faults' \in 0..MaxFaults /\ faults <= faults'
    BY <2>1 DEF Browser!Fault
  <2>3. PICK session : session = [Browser!Landed(tabs[t].session) EXCEPT !.pending = Browser!Live(@ \ {tabs[t].flow})]
    OBVIOUS
  <2>4. \/ Browser!Reply(t, session, TRUE) /\ UNCHANGED <<stored, faults, out>>
        \/ Browser!Fault /\ (Browser!Reply(t, session, TRUE) \/ Browser!Set(t, Browser!Idle)) /\ UNCHANGED <<stored, out>>
        \/ \E fetched \in BOOLEAN :
             /\ IF fetched THEN UNCHANGED faults ELSE Browser!Fault
             /\ stored' = [stored EXCEPT ![tabs[t].who] =
                             Browser!RolesOf(IF fetched THEN groups[tabs[t].who] ELSE {})]
             /\ out' = FALSE
             /\ Browser!Reply(t, [session EXCEPT !.user = [name |-> tabs[t].who,
                 roles |-> Browser!RolesOf(IF fetched THEN groups[tabs[t].who] ELSE {})]], TRUE)
    BY <2>3 DEF Browser!Callback
  <2>5. session = s
    BY <1>1, <1>3, <2>3
  <2>6. Browser!Reply(t, session, TRUE) => Browser!Reply(t, s, TRUE)
    BY <2>5
  <2>7. ASSUME NEW fetched \in BOOLEAN,
               IF fetched THEN UNCHANGED faults ELSE Browser!Fault,
               stored' = [stored EXCEPT ![tabs[t].who] =
                           Browser!RolesOf(IF fetched THEN groups[tabs[t].who] ELSE {})],
               out' = FALSE,
               Browser!Reply(t, [session EXCEPT !.user = [name |-> tabs[t].who,
                 roles |-> Browser!RolesOf(IF fetched THEN groups[tabs[t].who] ELSE {})]], TRUE)
        PROVE  Browser!SessionInv'
    BY <1>1, <1>11, <2>5, <2>7
  <2>8. CASE Browser!Reply(t, session, TRUE) /\ UNCHANGED <<stored, faults, out>>
    BY <1>9, <2>1, <2>6, <2>8
  <2>9. CASE Browser!Fault /\ (Browser!Reply(t, session, TRUE) \/ Browser!Set(t, Browser!Idle)) /\ UNCHANGED <<stored, out>>
    BY <1>9, <1>10, <2>2, <2>6, <2>9
  <2>10. QED
    BY <2>4, <2>7, <2>8, <2>9, Zenon

LEMMA SessionArrive ==
  ASSUME Browser!Sound, Browser!SessionInv, NEW t \in Tabs, Browser!Arrive(t)
  PROVE  Browser!SessionInv'
<1>1. /\ Browser!Waiting(t) /\ tabs[t].pc = "reply" /\ Browser!TypeInv
      /\ tabs[t].session \in Browser!Cookies
      /\ cookie \in Browser!Cookies /\ Browser!CookieInv(cookie) /\ Browser!CookieInv(tabs[t].session)
      /\ tabs[t].had \in BOOLEAN
      /\ UNCHANGED <<now, token, minted, faults, lapped, out, cut, wrong, groups, changed, verified, stored>>
  BY TabFacts DEF Browser!Arrive, Browser!Waiting, Browser!SessionInv, Browser!TabInv, Browser!TypeInv,
     Browser!records
<1>2. PICK x : x = Browser!Idle
  OBVIOUS
<1>3. x \in Browser!TabStates /\ x.pc = "idle" /\ Browser!Set(t, x)
  BY <1>2 DEF Browser!Arrive, Browser!TabStates, Browser!Idle
<1>4. \/ cookie' = tabs[t].session
      \/ cookie' = cookie /\ tabs[t].session = Browser!Empty /\ ~tabs[t].had
  BY DEF Browser!Arrive
<1>5. cookie' \in Browser!Cookies /\ Browser!CookieInv(cookie)'
  BY <1>1, <1>4 DEF Browser!CookieInv, Browser!Signed, Browser!NoFlow
<1>6. ASSUME NEW f \in Browser!Flows, Browser!Kept(cookie, f), Browser!Kept(tabs[t].session, f) PROVE Browser!Kept(cookie, f)'
  BY <1>1, <1>4, <1>6 DEF Browser!Kept, Browser!Excused
<1>7. ~lapped /\ Browser!AloneInv /\ out' /\ (out => Browser!LeftInv) => ~Browser!Signed(cookie')
  <2>1. SUFFICES ASSUME Browser!AloneInv, Browser!LeftInv PROVE ~Browser!Signed(cookie')
    BY <1>1
  <2>2. ~Browser!Signed(tabs[t].session)
    BY <1>1, <2>1 DEF Browser!LeftInv
  <2>3. cookie' = cookie /\ tabs[t].session = Browser!Empty /\ ~tabs[t].had => ~Browser!Signed(cookie)
    BY <1>1, <2>1 DEF Browser!LeftInv, Browser!AloneInv, Browser!Waiting
  <2>4. QED
    BY <1>4, <2>2, <2>3 DEF Browser!Signed
<1>8. Browser!SignInsComplete' /\ Browser!RolesAreFresh' /\ Browser!VerifiedBefore'
  BY <1>1 DEF Browser!SessionInv, Browser!SignInsComplete, Browser!RolesAreFresh, Browser!VerifiedBefore
<1>9. QED
  BY <1>1, <1>3, <1>5, <1>6, <1>7, <1>8, AnswerFacts DEF Browser!TypeInv

\* What the refresh makes of the session of a member.
LEMMA PassedFacts ==
  ASSUME Browser!Sound, Browser!SessionInv, NEW t \in Tabs, tabs[t].pc = "page",
         Browser!Signed(tabs[t].session),
         NEW ok \in BOOLEAN, Browser!Fetch(tabs[t], ok), UNCHANGED <<groups, changed>>
  PROVE  LET s == Browser!Passed(tabs[t], ok) IN
         /\ s \in Browser!Cookies /\ s.user.name = tabs[t].session.user.name /\ s.user.name \in Accounts
         /\ s.pending = tabs[t].session.pending /\ s.inflight = tabs[t].session.inflight
         /\ s.verified = tabs[t].session.verified /\ s.refreshed <= now
         /\ faults' \in 0..MaxFaults /\ faults <= faults'
         /\ faults' = 0 => \/ s.user.roles = Browser!RolesOf(groups[s.user.name])
                           \/ s.refreshed <= changed[s.user.name] /\ now - s.refreshed < Interval
<1>1. PICK p : p = tabs[t].session
  OBVIOUS
<1>2. /\ Browser!TypeInv /\ p \in Browser!Cookies /\ Browser!CookieInv(p) /\ p.user.name \in Accounts
      /\ Browser!Signed(p)
      /\ p.user.roles \in Browser!RoleSets /\ p.user \in [name : Accounts, roles : Browser!RoleSets]
  <2>1. Browser!TypeInv /\ p \in Browser!Cookies /\ Browser!CookieInv(p) /\ Browser!Signed(p)
    BY <1>1, TabFacts DEF Browser!SessionInv, Browser!TabInv, Browser!Waiting
  <2>2. QED
    BY <2>1 DEF Browser!Cookies, Browser!Signed
<1>3. faults' \in 0..MaxFaults /\ faults <= faults' /\ (faults' = 0 => faults = 0 /\ (Browser!Due(p) => ok))
  BY <1>1, <1>2 DEF Browser!Fetch, Browser!Fault, Browser!TypeInv, Browser!Sound
<1>4. CASE ~Browser!Due(p)
  <2>1. Browser!Passed(tabs[t], ok) = p
    BY <1>1, <1>4 DEF Browser!Passed
  <2>2. now - p.refreshed < Interval
    BY <1>2, <1>4 DEF Browser!Due, Browser!TypeInv, Browser!Cookies, Browser!Sound
  <2>3. QED
    BY <1>1, <1>2, <1>3, <2>1, <2>2 DEF Browser!CookieInv
<1>5. CASE Browser!Due(p)
  <2>1. PICK s : s = Browser!Passed(tabs[t], ok)
    OBVIOUS
  <2>2. PICK roles : roles = IF ok THEN Browser!RolesOf(groups[p.user.name]) ELSE p.user.roles
    OBVIOUS
  <2>3. /\ s.user = [name |-> p.user.name, roles |-> roles] /\ s.pending = p.pending
        /\ s.inflight = p.inflight /\ s.refreshed = now /\ s.verified = p.verified
        /\ s = [user |-> s.user, pending |-> s.pending, inflight |-> s.inflight,
                refreshed |-> s.refreshed, verified |-> s.verified]
    <3>1. s = Browser!Refreshed(p, ok)
      BY <1>1, <1>5, <2>1 DEF Browser!Passed
    <3>2. p = [user |-> p.user, pending |-> p.pending, inflight |-> p.inflight,
               refreshed |-> p.refreshed, verified |-> p.verified]
      BY <1>2 DEF Browser!Cookies
    <3>3. p.user = [name |-> p.user.name, roles |-> p.user.roles]
      BY <1>2
    <3>4. QED
      BY <2>2, <3>1, <3>2, <3>3 DEF Browser!Refreshed
  <2>4. roles \in Browser!RoleSets
    BY <1>2, <2>2, RolesType
  <2>5. s \in Browser!Cookies
    BY <1>2, <2>3, <2>4 DEF Browser!Cookies, Browser!TypeInv
  <2>6. now <= now
    BY <1>2 DEF Browser!TypeInv
  <2>7. faults' = 0 => roles = Browser!RolesOf(groups[s.user.name])
    BY <1>3, <1>5, <2>2, <2>3
  <2>8. QED
    BY <1>1, <1>2, <1>3, <2>1, <2>3, <2>5, <2>6, <2>7
<1>6. QED
  BY <1>4, <1>5

\* The answer to a member's page: the session as refreshed, and a mark.
LEMMA PageAnswered ==
  ASSUME Browser!Sound, Browser!SessionInv, NEW t \in Tabs, tabs[t].pc = "page",
         Browser!Signed(tabs[t].session),
         NEW ok \in BOOLEAN, Browser!Fetch(tabs[t], ok), NEW marked \in BOOLEAN,
         Browser!Reply(t, [Browser!Passed(tabs[t], ok) EXCEPT !.verified = @ \/ marked], TRUE),
         verified \subseteq verified', verified' \subseteq Accounts, marked => verified' # {},
         UNCHANGED <<now, cookie, token, minted, lapped, out, cut, groups, changed, stored>>,
         Browser!SignInsComplete', Browser!RolesAreFresh', Browser!VerifiedBefore'
  PROVE  Browser!SessionInv'
<1>1. PICK q, p : q = tabs[t] /\ p = Browser!Passed(q, ok)
  OBVIOUS
<1>2. /\ Browser!Waiting(t) /\ Browser!TypeInv /\ cookie \in Browser!Cookies /\ Browser!CookieInv(cookie)
      /\ q.session \in Browser!Cookies
      /\ Browser!CookieInv(q.session)
  BY <1>1, TabFacts DEF Browser!SessionInv, Browser!TabInv, Browser!TypeInv, Browser!Waiting
<1>3. /\ p \in Browser!Cookies /\ p.user.name = q.session.user.name /\ p.user.name \in Accounts
      /\ p.pending = q.session.pending /\ p.inflight = q.session.inflight
      /\ p.verified = q.session.verified /\ p.refreshed <= now
      /\ faults' \in 0..MaxFaults /\ faults <= faults'
      /\ faults' = 0 => \/ p.user.roles = Browser!RolesOf(groups[p.user.name])
                        \/ p.refreshed <= changed[p.user.name]
  BY <1>1, PassedFacts
<1>4. PICK s : s = [p EXCEPT !.verified = @ \/ marked]
  OBVIOUS
<1>5. /\ s \in Browser!Cookies /\ s.user = p.user /\ s.pending = p.pending /\ s.inflight = p.inflight
      /\ s.refreshed = p.refreshed /\ s.verified = (p.verified \/ marked)
  BY <1>3, <1>4 DEF Browser!Cookies
<1>6. PICK x : x = [pc |-> "reply", session |-> s, had |-> TRUE]
  OBVIOUS
<1>7. x \in Browser!TabStates /\ Browser!Set(t, x) /\ x.pc = "reply" /\ x.session = s
  BY <1>1, <1>4, <1>5, <1>6 DEF Browser!Reply, Browser!TabStates
<1>8. Browser!CookieInv(s)'
  <2>1. s.verified => verified' # {}
    BY <1>2, <1>3, <1>5 DEF Browser!CookieInv
  <2>2. s.inflight = Browser!NoFlow \/ s.inflight.flow \in s.pending
    BY <1>2, <1>3, <1>5 DEF Browser!CookieInv
  <2>3. QED
    BY <1>3, <1>5, <2>1, <2>2 DEF Browser!CookieInv, Browser!NoFlow, Browser!Signed
<1>9. Browser!CookieInv(cookie)' /\ Browser!CookieInv(x.session)'
  <2>1. Browser!CookieInv(cookie)'
    BY <1>2, <1>3 DEF Browser!CookieInv, Browser!NoFlow, Browser!Signed, Browser!TypeInv
  <2>2. QED
    BY <1>7, <1>8, <2>1 DEF Browser!CookieInv, Browser!Signed
<1>10. ASSUME NEW f \in Browser!Flows, Browser!Kept(cookie, f), Browser!Kept(q.session, f)
       PROVE  Browser!Kept(cookie, f)' /\ Browser!Kept(x.session, f)'
  BY <1>1, <1>3, <1>5, <1>7, <1>10 DEF Browser!Kept, Browser!Excused
<1>11. ~lapped /\ Browser!AloneInv /\ out' /\ (out => Browser!LeftInv) => FALSE
  BY <1>1, <1>2 DEF Browser!LeftInv
<1>12. QED
  BY <1>1, <1>2, <1>3, <1>7, <1>9, <1>10, <1>11, AnswerFacts DEF Browser!TypeInv

LEMMA SessionServe ==
  ASSUME Browser!Sound, Browser!SessionInv, NEW t \in Tabs, Browser!Serve(t)
  PROVE  Browser!SessionInv'
<1> DEFINE Opens(s) == ~Browser!ReadOnly(s, tabs[t].session, tabs[t].kind) /\ Browser!Verified(s)
           Serves(s) == Opens(s) /\ "leader" \in s.user.roles
           Settles(s, ok) == Serves(s) /\ ok /\ faults = 0 /\ now - changed[s.user.name] >= Interval
           FoundBy(s, ok) ==
             [stale |-> Settles(s, ok) /\ s.user.roles # Browser!RolesOf(groups[s.user.name]),
              guest |-> Settles(s, ok) /\ tabs[t].kind = "save" /\ "Guests" \in groups[s.user.name],
              early |-> Serves(s) /\ verified = {},
              unverified |-> Serves(s) /\ s.user.name \notin verified]
<1>0. PICK ok \in BOOLEAN :
        /\ Browser!Fetch(tabs[t], ok)
        /\ Browser!Reply(t, [Browser!Passed(tabs[t], ok) EXCEPT !.verified = @ \/ Opens(Browser!Passed(tabs[t], ok))], TRUE)
        /\ wrong' = wrong \cup {w \in DOMAIN FoundBy(Browser!Passed(tabs[t], ok), ok) :
                                  FoundBy(Browser!Passed(tabs[t], ok), ok)[w]}
  BY DEF Browser!Serve
<1>1a. PICK q : q = tabs[t]
  OBVIOUS
<1>1b. PICK s : s = Browser!Passed(q, ok)
  OBVIOUS
<1>1c. PICK open : open = Opens(s)
  OBVIOUS
<1>1d. PICK served : served = Serves(s)
  OBVIOUS
<1>1e. PICK settled : settled = Settles(s, ok)
  OBVIOUS
<1>1f. PICK found : found = FoundBy(s, ok)
  OBVIOUS
<1>1. /\ q = tabs[t] /\ s = Browser!Passed(q, ok) /\ open = Opens(s) /\ served = Serves(s)
      /\ settled = Settles(s, ok) /\ found = FoundBy(s, ok)
  BY <1>1a, <1>1b, <1>1c, <1>1d, <1>1e, <1>1f
<1>1g. /\ ok \in BOOLEAN /\ Browser!Fetch(q, ok) /\ Browser!Reply(t, [s EXCEPT !.verified = @ \/ open], TRUE)
       /\ wrong' = wrong \cup {w \in DOMAIN found : found[w]}
  BY <1>0, <1>1
<1>2. /\ UNCHANGED <<now, cookie, token, minted, lapped, out, cut, groups, changed, verified, stored>>
      /\ q.pc = "page" /\ q.kind \in {"view", "save"} /\ Browser!Signed(q.session)
  BY <1>1 DEF Browser!Serve, Browser!records
<1>3. Browser!TypeInv /\ q.session \in Browser!Cookies /\ Browser!CookieInv(q.session)
  BY <1>1, <1>2, TabFacts DEF Browser!SessionInv, Browser!TabInv, Browser!Waiting
<1>4. /\ s \in Browser!Cookies /\ s.user.name \in Accounts /\ s.verified = q.session.verified
      /\ faults' = 0 => \/ s.user.roles = Browser!RolesOf(groups[s.user.name])
                        \/ s.refreshed <= changed[s.user.name] /\ now - s.refreshed < Interval
  BY <1>1, <1>1g, <1>2, PassedFacts
<1>5. settled => faults' = 0
  BY <1>1, <1>1g DEF Browser!Fetch
<1>6. ASSUME settled PROVE s.user.roles = Browser!RolesOf(groups[s.user.name])
  <2>1. changed[s.user.name] \in Int /\ s.refreshed \in Int /\ now \in Int /\ Interval \in Int
    BY <1>3, <1>4 DEF Browser!TypeInv, Browser!Cookies, Browser!Sound
  <2>2. now - changed[s.user.name] >= Interval
    BY <1>1, <1>6
  <2>3. QED
    BY <1>4, <1>5, <1>6, <2>1, <2>2
<1>7. ~(settled /\ q.kind = "save" /\ "Guests" \in groups[s.user.name])
  BY <1>1, <1>6 DEF Browser!RolesOf, Browser!ReadOnly
<1>8. open => verified # {}
  BY <1>1, <1>3, <1>4 DEF Browser!Verified, Browser!CookieInv
<1>9. wrong' \subseteq wrong \cup {"unverified"}
  <2>1. DOMAIN found = {"stale", "guest", "early", "unverified"}
    BY <1>1
  <2>2. ~found["stale"] /\ ~found["guest"]
    BY <1>1, <1>6, <1>7
  <2>3. ~found["early"]
    BY <1>1, <1>8
  <2>4. QED
    BY <1>1g, <2>1, <2>2, <2>3
<1>10. Browser!SignInsComplete' /\ Browser!RolesAreFresh' /\ Browser!VerifiedBefore'
  BY <1>9 DEF Browser!SessionInv, Browser!SignInsComplete, Browser!RolesAreFresh, Browser!VerifiedBefore
<1>11. open \in BOOLEAN /\ verified \subseteq verified' /\ verified' \subseteq Accounts
  BY <1>1, <1>2, <1>3 DEF Browser!TypeInv
<1>12. QED
  BY <1>1, <1>1g, <1>2, <1>8, <1>10, <1>11, PageAnswered

LEMMA SessionVerify ==
  ASSUME Browser!Sound, Browser!SessionInv, NEW t \in Tabs, Browser!VerifyContact(t)
  PROVE  Browser!SessionInv'
<1>1. PICK ok, q, s, sent :
        /\ ok \in BOOLEAN /\ q = tabs[t] /\ s = Browser!Passed(q, ok)
        /\ sent = ~Browser!ReadOnly(s, q.session, q.kind)
        /\ Browser!Fetch(q, ok) /\ verified' = IF sent THEN verified \cup {s.user.name} ELSE verified
        /\ Browser!Reply(t, [s EXCEPT !.verified = @ \/ sent], TRUE)
  BY DEF Browser!VerifyContact
<1>2. /\ UNCHANGED <<now, cookie, token, minted, lapped, out, cut, groups, changed, stored, wrong>>
      /\ q.pc = "page" /\ Browser!Signed(q.session) /\ sent \in BOOLEAN
  BY <1>1 DEF Browser!VerifyContact
<1>3. s.user.name \in Accounts
  BY <1>1, <1>2, PassedFacts
<1>4. verified \subseteq verified' /\ verified' \subseteq Accounts /\ (sent => verified' # {})
  BY <1>1, <1>3 DEF Browser!SessionInv, Browser!TypeInv
<1>5. Browser!SignInsComplete' /\ Browser!RolesAreFresh' /\ Browser!VerifiedBefore'
  BY <1>2 DEF Browser!SessionInv, Browser!SignInsComplete, Browser!RolesAreFresh, Browser!VerifiedBefore
<1>6. QED
  BY <1>1, <1>2, <1>4, <1>5, PageAnswered

LEMMA SessionRedirect ==
  ASSUME Browser!Sound, Browser!SessionInv, NEW t \in Tabs, Browser!Redirect(t)
  PROVE  Browser!SessionInv'
<1>1. PICK q, x : /\ q = tabs[t] /\ x = [pc |-> "reply", session |-> q.session, had |-> q.session # Browser!Empty]
  OBVIOUS
<1>2. /\ q.pc = "page" /\ ~Browser!Signed(q.session) /\ Browser!Set(t, x) /\ Browser!Waiting(t)
      /\ tabs[t] = q
      /\ UNCHANGED <<now, cookie, token, minted, faults, lapped, out, cut, wrong, groups, changed, verified, stored>>
  BY <1>1 DEF Browser!Redirect, Browser!Reply, Browser!records, Browser!Waiting
<1>3. /\ Browser!TypeInv /\ cookie \in Browser!Cookies /\ Browser!CookieInv(cookie)
      /\ q.session \in Browser!Cookies /\ Browser!CookieInv(q.session)
  BY <1>1, <1>2, TabFacts DEF Browser!SessionInv, Browser!TabInv, Browser!TypeInv
<1>4. x \in Browser!TabStates /\ x.pc = "reply" /\ x.session = q.session
  BY <1>1, <1>3 DEF Browser!TabStates
<1>5. Browser!CookieInv(cookie)' /\ Browser!CookieInv(x.session)'
  BY <1>2, <1>3, <1>4 DEF Browser!CookieInv, Browser!Signed, Browser!NoFlow
<1>6. ASSUME NEW f \in Browser!Flows, Browser!Kept(cookie, f), Browser!Kept(q.session, f)
      PROVE  Browser!Kept(cookie, f)' /\ Browser!Kept(x.session, f)'
  BY <1>2, <1>4, <1>6 DEF Browser!Kept, Browser!Excused
<1>7. ~lapped /\ Browser!AloneInv => cookie = q.session
  BY <1>1, <1>2 DEF Browser!AloneInv
<1>8. ~lapped /\ Browser!AloneInv => ~Browser!Signed(x.session) /\ ~Browser!Signed(cookie')
  BY <1>2, <1>4, <1>7 DEF Browser!Signed
<1>9. Browser!SignInsComplete' /\ Browser!RolesAreFresh' /\ Browser!VerifiedBefore'
  BY <1>2 DEF Browser!SessionInv, Browser!SignInsComplete, Browser!RolesAreFresh, Browser!VerifiedBefore
<1>10. QED
  <2>1. verified' \subseteq Accounts /\ stored' \in [Accounts -> Browser!RoleSets] /\ faults' \in 0..MaxFaults
        /\ faults <= faults' /\ cut' \subseteq Browser!Flows /\ out' \in BOOLEAN
        /\ cookie' \in Browser!Cookies
    BY <1>2, <1>3 DEF Browser!TypeInv, Browser!Sound
  <2>2. QED
    BY <1>2, <1>4, <1>5, <1>6, <1>8, <1>9, <2>1, AnswerFacts

LEMMA SessionLogout ==
  ASSUME Browser!Sound, Browser!SessionInv, NEW t \in Tabs, Browser!Logout(t)
  PROVE  Browser!SessionInv'
<1>1. PICK x : x = [pc |-> "reply", session |-> Browser!Empty, had |-> tabs[t].session # Browser!Empty]
  OBVIOUS
<1>2. /\ tabs[t].pc = "page" /\ Browser!Set(t, x) /\ Browser!Waiting(t) /\ out' = TRUE
      /\ cut' = Browser!Flows
      /\ UNCHANGED <<now, cookie, token, minted, faults, lapped, wrong, groups, changed, verified, stored>>
  BY <1>1 DEF Browser!Logout, Browser!Reply, Browser!records, Browser!Waiting
<1>3. Browser!TypeInv /\ cookie \in Browser!Cookies /\ Browser!CookieInv(cookie)
  BY DEF Browser!SessionInv, Browser!TypeInv
<1>4. /\ Browser!NoFlow \in [flow : Nat, ts : Int] /\ Browser!Never \in Int /\ Browser!Never <= 0
      /\ {} \in SUBSET Browser!Flows
  BY DEF Browser!NoFlow, Browser!Never, Browser!Sound
<1>5. Browser!Empty \in Browser!Cookies /\ Browser!Empty.user = Browser!NoUser
  BY <1>4 DEF Browser!Empty, Browser!Cookies
<1>6. x \in Browser!TabStates /\ x.pc = "reply" /\ x.session = Browser!Empty /\ (~x.had => tabs[t].session = Browser!Empty)
  BY <1>1, <1>5 DEF Browser!TabStates
<1>7. Browser!CookieInv(cookie)'
  BY <1>2, <1>3 DEF Browser!CookieInv, Browser!Signed, Browser!NoFlow
<1>8. Browser!CookieInv(x.session)'
  <2>1. Browser!Empty.inflight = Browser!NoFlow /\ Browser!Empty.refreshed = Browser!Never /\ ~Browser!Empty.verified
    BY DEF Browser!Empty
  <2>2. Browser!Never <= now'
    BY <1>2, <1>3, <1>4 DEF Browser!TypeInv
  <2>3. QED
    BY <1>5, <1>6, <2>1, <2>2 DEF Browser!CookieInv, Browser!Signed, Browser!NoFlow, Browser!Never,
       Browser!NoUser
<1>9. \A f \in Browser!Flows : Browser!Kept(cookie, f)' /\ Browser!Kept(x.session, f)'
  BY <1>2 DEF Browser!Kept, Browser!Excused
<1>10. ~lapped /\ Browser!AloneInv => cookie = tabs[t].session
  BY <1>2 DEF Browser!AloneInv
<1>11. ~lapped /\ Browser!AloneInv => ~Browser!Signed(x.session) /\ (Browser!Signed(cookie') => x.had)
  BY <1>2, <1>5, <1>6, <1>10 DEF Browser!Signed
<1>12. Browser!SignInsComplete' /\ Browser!RolesAreFresh' /\ Browser!VerifiedBefore'
  BY <1>2 DEF Browser!SessionInv, Browser!SignInsComplete, Browser!RolesAreFresh, Browser!VerifiedBefore
<1>13. cut \subseteq cut' /\ out' \in BOOLEAN
  BY <1>2, <1>3 DEF Browser!TypeInv
<1>14. QED
  BY <1>2, <1>3, <1>6, <1>7, <1>8, <1>9, <1>11, <1>12, <1>13, AnswerFacts DEF Browser!TypeInv

\* Nothing the tabs wait for moves.
LEMMA NoTabMoves ==
  ASSUME Browser!Sound, Browser!SessionInv, Browser!TypeInv', SessionGrows,
         UNCHANGED <<cookie, tabs, token, minted, verified, faults, lapped, out, cut, wrong>>
  PROVE  Browser!SessionInv'
<1>1. Browser!TypeInv /\ Browser!CookieInv(cookie) /\ cookie \in Browser!Cookies
  BY DEF Browser!SessionInv, Browser!TypeInv
<1>2. Browser!CookieInv(cookie)'
  <2>1. PICK s : s = cookie
    OBVIOUS
  <2>2. Browser!CookieInv(s)'
    BY <1>1, <2>1, CookieKept
  <2>3. QED
    BY <2>1, <2>2 DEF Browser!CookieInv, Browser!Signed
<1>3. ASSUME NEW u \in Tabs PROVE Browser!TabInv(u)'
  <2>1. Browser!TabInv(u)
    BY DEF Browser!SessionInv
  <2>2. CASE ~Browser!Waiting(u)
    BY <2>1, <2>2 DEF Browser!TabInv, Browser!Waiting
  <2>3. CASE Browser!Waiting(u)
    <3>1. PICK s : s = tabs[u].session
      OBVIOUS
    <3>2. s \in Browser!Cookies /\ Browser!CookieInv(s)
      BY <1>1, <2>1, <2>3, <3>1, TabFacts DEF Browser!TabInv
    <3>3. Browser!CookieInv(s)'
      BY <1>1, <3>2, CookieKept
    <3>4. Browser!CookieInv(tabs[u].session)'
      BY <3>1, <3>3 DEF Browser!CookieInv, Browser!Signed
    <3>5. QED
      BY <2>1, <3>4 DEF Browser!TabInv
  <2>4. QED
    BY <2>2, <2>3
<1>4. ASSUME ~lapped' PROVE Browser!AloneInv' /\ (out' => Browser!LeftInv')
  <2>1. Browser!AloneInv /\ (out => Browser!LeftInv)
    BY <1>4 DEF Browser!SessionInv
  <2>2. \A f \in Browser!Flows : Browser!Excused(f) => Browser!Excused(f)'
    BY <1>1, ExcusedKept
  <2>3. \A u \in Tabs : (tabs[u].pc \in {"callback", "grant"} => tabs[u].flow \in Browser!Flows)
                        /\ (Browser!Waiting(u)' <=> Browser!Waiting(u))
    BY <1>1, TabFacts DEF Browser!Waiting
  <2>4. ASSUME NEW u \in Tabs, tabs[u].pc = "callback" PROVE Browser!Kept(tabs[u].session, tabs[u].flow)'
    <3>1. PICK f \in Browser!Flows : f = tabs[u].flow
      BY <2>3, <2>4
    <3>2. Browser!Kept(tabs[u].session, f)
      BY <2>1, <2>4, <3>1 DEF Browser!AloneInv
    <3>3. QED
      BY <2>2, <3>1, <3>2 DEF Browser!Kept, Browser!Excused
  <2>5. ASSUME NEW g \in Tabs, tabs[g].pc = "grant", token = g
        PROVE  Browser!Kept(cookie, tabs[g].flow)' /\ \A u \in Tabs : Browser!Waiting(u) => Browser!Kept(tabs[u].session, tabs[g].flow)'
    <3>1. PICK f \in Browser!Flows : f = tabs[g].flow
      BY <2>3, <2>5
    <3>2. Browser!Kept(cookie, f) /\ \A u \in Tabs : Browser!Waiting(u) => Browser!Kept(tabs[u].session, f)
      BY <2>1, <2>5, <3>1 DEF Browser!AloneInv
    <3>3. QED
      BY <2>2, <3>1, <3>2 DEF Browser!Kept, Browser!Excused
  <2>6. Browser!AloneInv'
    BY <2>1, <2>3, <2>4, <2>5 DEF Browser!AloneInv
  <2>7. QED
    BY <2>1, <2>3, <2>6 DEF Browser!LeftInv, Browser!Signed
<1>5. QED
  BY <1>2, <1>3, <1>4 DEF Browser!SessionInv, Browser!SignInsComplete, Browser!RolesAreFresh,
     Browser!VerifiedBefore

LEMMA SessionRegroup ==
  ASSUME Browser!Sound, Browser!SessionInv, NEW a \in Accounts, NEW gs \in GroupSets,
         Browser!Regroup(a, gs) PROVE Browser!SessionInv'
<1>1. /\ groups' = [groups EXCEPT ![a] = gs] /\ changed' = [changed EXCEPT ![a] = now]
      /\ UNCHANGED <<now, cookie, tabs, token, minted, verified, stored, faults, lapped, out, cut, wrong>>
      /\ Browser!TypeInv
  BY DEF Browser!Regroup, Browser!SessionInv
<1>2. /\ DOMAIN groups' = Accounts /\ changed' \in [Accounts -> Int]
      /\ \A b \in Accounts : (groups'[b] = groups[b] /\ changed'[b] = changed[b]) \/ changed'[b] = now
  BY <1>1 DEF Browser!TypeInv
<1>3. Browser!Flows' = Browser!Flows /\ Browser!Cookies' = Browser!Cookies /\ Browser!TabStates' = Browser!TabStates
  BY <1>1 DEF Browser!Flows, Browser!Cookies, Browser!TabStates
<1>4. Browser!TypeInv' /\ SessionGrows
  BY <1>1, <1>2, <1>3 DEF Browser!TypeInv, SessionGrows, Browser!Flows
<1>5. QED
  BY <1>1, <1>4, NoTabMoves

LEMMA SessionTick == ASSUME Browser!Sound, Browser!SessionInv, Browser!Tick PROVE Browser!SessionInv'
<1>1. /\ now < MaxTime /\ now' = now + 1 /\ Browser!TypeInv
      /\ UNCHANGED <<cookie, tabs, token, minted, faults, lapped, out, cut, wrong, groups, changed, verified, stored>>
  BY DEF Browser!Tick, Browser!SessionInv, Browser!records
<1>2. Browser!Flows' = Browser!Flows /\ Browser!Cookies' = Browser!Cookies /\ Browser!TabStates' = Browser!TabStates
  BY <1>1 DEF Browser!Flows, Browser!Cookies, Browser!TabStates
<1>3. now' \in 0..MaxTime /\ now <= now'
  BY <1>1 DEF Browser!TypeInv, Browser!Sound
<1>4. Browser!TypeInv' /\ SessionGrows
  BY <1>1, <1>2, <1>3 DEF Browser!TypeInv, SessionGrows, Browser!Flows
<1>5. QED
  BY <1>1, <1>4, NoTabMoves

LEMMA SessionStutter ==
  ASSUME Browser!Sound, Browser!SessionInv, UNCHANGED Browser!vars
  PROVE  Browser!SessionInv'
<1>1. /\ UNCHANGED <<now, cookie, tabs, token, minted, groups, changed, verified, stored, faults,
                     lapped, out, cut, wrong>>
      /\ Browser!TypeInv
  BY DEF Browser!vars, Browser!SessionInv
<1>2. Browser!Flows' = Browser!Flows /\ Browser!Cookies' = Browser!Cookies /\ Browser!TabStates' = Browser!TabStates
  BY <1>1 DEF Browser!Flows, Browser!Cookies, Browser!TabStates
<1>3. Browser!TypeInv' /\ SessionGrows
  BY <1>1, <1>2 DEF Browser!TypeInv, SessionGrows, Browser!Flows
<1>4. QED
  BY <1>1, <1>3, NoTabMoves

LEMMA SessionsStep ==
  ASSUME Browser!Sound, Browser!SessionInv, [Browser!Next]_(Browser!vars)
  PROVE  Browser!SessionInv'
<1>1. ASSUME NEW t \in Tabs,
             \/ Browser!Login(t) \/ Browser!Follow(t) \/ Browser!Callback(t) \/ Browser!Arrive(t) \/ Browser!Serve(t) \/ Browser!VerifyContact(t)
             \/ Browser!Redirect(t) \/ Browser!Logout(t)
      PROVE  Browser!SessionInv'
  BY <1>1, SessionLogin, SessionFollow, SessionCallback, SessionArrive, SessionServe, SessionVerify,
     SessionRedirect, SessionLogout
<1>2. ASSUME NEW t \in Tabs,
             \/ \E who \in Accounts : Browser!Grant(t, who)
             \/ \E kind \in {"view", "save", "verify", "logout"} : Browser!Ask(t, kind)
      PROVE  Browser!SessionInv'
  BY <1>2, SessionGrant, SessionAsk
<1>3. QED
  BY <1>1, <1>2, SessionRegroup, SessionTick, SessionStutter DEF Browser!Next

LEMMA SessionsHold == ASSUME Browser!SessionInv PROVE Browser!SessionsAreInOrder
<1>1. Browser!TypeOK
  <2>1. Browser!TypeInv
    BY DEF Browser!SessionInv
  <2>2. \A t \in Tabs : tabs[t].pc \in {"idle", "toNC", "grant", "callback", "page", "reply"}
    BY <2>1, TabFacts DEF Browser!TabStates, Browser!Idle
  <2>3. cookie.inflight.flow \in Browser!Flows \cup {0}
    BY <2>1 DEF Browser!SessionInv, Browser!CookieInv, Browser!NoFlow, Browser!TypeInv, Browser!Cookies
  <2>4. QED
    BY <2>1, <2>2, <2>3 DEF Browser!TypeOK, Browser!TypeInv, Browser!Cookies
<1>2. Browser!SignedOutStays
  BY DEF Browser!SessionInv, Browser!LeftInv, Browser!SignedOutStays, Browser!Waiting
<1>3. QED
  BY <1>1, <1>2 DEF Browser!SessionInv, Browser!SessionsAreInOrder

(***************************************************************************)
(* Sessions are in order, for any number of tabs and accounts and however  *)
(* their requests overlap: a sign-in that was granted finds its state,     *)
(* pages go by roles that are fresh, none is served before details were    *)
(* verified, and who signed out stays signed out.                          *)
(***************************************************************************)
THEOREM SessionsAreInOrderCorrect == PortalSpec => []SessionsAreInOrder
<1> DEFINE IInv == page \in BrowserPages => Browser!SessionInv
<1>1. PortalInit => IInv
  BY OnlySessions, BrowserAssumption, SessionsInit
<1>2. IInv /\ [PortalNext]_allVars => IInv'
  <2> SUFFICES ASSUME page \in BrowserPages, Browser!SessionInv, [PortalNext]_allVars
               PROVE  Browser!SessionInv'
    BY PageStays
  <2>1. [Browser!Next]_(Browser!vars)
    BY OnlySessionSteps
  <2>2. QED
    BY <2>1, BrowserAssumption, SessionsStep
<1>3. IInv => SessionsAreInOrder
  BY SessionsHold DEF SessionsAreInOrder
<1> HIDE DEF IInv
<1>4. QED
  BY <1>1, <1>2, <1>3, PTL DEF PortalSpec
=============================================================================
