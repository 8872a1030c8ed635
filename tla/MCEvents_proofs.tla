--------------------------- MODULE MCEvents_proofs ---------------------------
(***************************************************************************)
(* The theorems about the pages of MCEvents: each page keeps the inductive *)
(* invariant of its module, and a behaviour stays on its page.             *)
(***************************************************************************)
EXTENDS MCEvents, FiniteSetTheorems, TLAPS

LEMMA PageKept == [EventsNext]_allVars => page' = page
BY DEF EventsNext, OrdersStep, SeriesStep, RotationStep, ScheduleStep, ConsoleFrame, GuardStep,
   DutyStep, TeamsStep, allVars

-----------------------------------------------------------------------------
(***************************************************************************)
(* The orders of an event: OrdersInv is inductive (see EventOrders).       *)
(***************************************************************************)
LEMMA OnlyOrders == page = "orders" /\ EventsInit => Orders!Init
BY DEF EventsInit, ConsolePages

LEMMA OnlyOrdersSteps == page = "orders" /\ [EventsNext]_allVars => [Orders!Next]_(Orders!vars)
BY DEF EventsNext, OrdersStep, SeriesStep, RotationStep, ScheduleStep, ConsoleFrame, GuardStep,
   DutyStep, TeamsStep, allVars, ordersVars, requestVars, Orders!vars, Orders!mail, Orders!bounds,
   Orders!history, Orders!notices

\* A slot is free or has a request.
LEMMA SlotIs ==
  ASSUME Orders!OrdersInv, NEW s \in Orders!Slots
  PROVE  /\ req[s] \in Orders!Request \cup {Orders!NoRequest}
         /\ req[s].pc = "none" <=> req[s] = Orders!NoRequest
         /\ req[s].pc # "none" <=> req[s] \in Orders!Request
BY DEF Orders!OrdersInv, Orders!TypeInv, Orders!Request, Orders!NoRequest

\* Whom a request is about.
LEMMA ConcernsIs ==
  ASSUME NEW s \in Orders!Slots
  PROVE  /\ req[s].pc # "none" /\ req[s].op \in {"answer", "override"} =>
              Orders!Concerns(s) = {req[s].row[1]}
         /\ req[s].pc # "none" /\ req[s].op = "maintain" =>
              Orders!Concerns(s) = req[s].add \cup {i[1] : i \in req[s].prune}
         /\ req[s].pc \notin {"none", "claim"} /\ req[s].op = "warno" => Orders!Concerns(s) = req[s].add
         /\ req[s].pc \notin {"none", "flush"} /\ req[s].op = "opord" => Orders!Concerns(s) = Members
BY DEF Orders!Concerns

\* Whose answers overlap the request that commits.
LEMMA OverlappedIs ==
  ASSUME NEW r \in Orders!Slots, NEW s \in Orders!Slots, s # r
  PROVE  /\ Orders!Answering(r) # {} => Orders!Answering(r) \cap Orders!Concerns(s) \subseteq Orders!Overlapped(r)
         /\ Orders!Answering(r) = {} /\ req[r].op = "cancel" => Orders!Answering(s) \subseteq Orders!Overlapped(r)
         /\ Orders!Answering(r) = {} => Orders!Answering(s) \cap Orders!Concerns(r) \subseteq Orders!Overlapped(r)
BY DEF Orders!Overlapped

LEMMA OrdersInit == Orders!Sound /\ Orders!Init => Orders!OrdersInv
<1> SUFFICES ASSUME Orders!Sound, Orders!Init PROVE Orders!OrdersInv
  OBVIOUS
<1>1. /\ rsvp \in [Orders!Rows -> Orders!Statuses] /\ event \in Orders!EventType
      /\ event.status = "active" /\ event.opord = FALSE /\ event.warno = FALSE
  BY DEF Orders!Init, Orders!Statuses, Orders!Answers, Orders!EventType
<1>2. /\ \A r \in Orders!Slots : req[r] = Orders!NoRequest /\ req[r].pc = "none"
      /\ fragos = {} /\ sheets = {} /\ outbox = {} /\ recent = {} /\ begun = 0 /\ edits = 0 /\ faults = 0
      /\ serving = Members
      /\ req = [r \in Orders!Slots |-> Orders!NoRequest]
      /\ \A m \in Members : answer[m].says = "none"
      /\ sent.warno = 0 /\ sent.frago = [n \in Orders!Numbers |-> 0] /\ sent.refused = FALSE
      /\ answer = [m \in Members |-> [says |-> "none", own |-> FALSE]]
      /\ sent \in [warno : Nat, opord : Nat, aar : Nat, frago : [Orders!Numbers -> Nat], refused : BOOLEAN]
  BY DEF Orders!Init, Orders!NoRequest
<1>3. Orders!TypeInv
  <2>1. 1..0 = {} /\ 0 \in 0..MaxRequests /\ 0 \in 0..MaxEdits /\ 0 \in 0..MaxFaults
    BY DEF Orders!Sound
  <2>2. Orders!TypeOK
    BY <1>1, <1>2, <2>1 DEF Orders!TypeOK
  <2>3. Orders!HistoryInv
    BY <1>2 DEF Orders!HistoryInv, Orders!Statuses
  <2>4. QED
    BY <1>2, <2>2, <2>3 DEF Orders!TypeInv
<1>4. Orders!LockInv /\ Orders!WarnoInv
  BY <1>2 DEF Orders!LockInv, Orders!WarnoInv, Orders!Holds
<1>5. Orders!FragoInv
  BY <1>2 DEF Orders!FragoInv, Orders!Numbers
<1>6. Orders!AnswersStand /\ Orders!OrderedInv /\ Orders!AwareInv
  BY <1>1, <1>2 DEF Orders!AnswersStand, Orders!OrderedInv, Orders!AwareInv, Orders!Answers
<1>7. \A r \in Orders!Slots : Orders!SlotInv(r)
  BY <1>2 DEF Orders!SlotInv, Orders!AnswerInv, Orders!RosterInv, Orders!OpordInv
<1>8. QED
  BY <1>3, <1>4, <1>5, <1>6, <1>7 DEF Orders!OrdersInv

\* One request moves on to p.
LEMMA SlotMoves ==
  ASSUME Orders!OrdersInv, NEW r \in Orders!Slots, NEW p \in Orders!Request \cup {Orders!NoRequest},
         req' = [req EXCEPT ![r] = p]
  PROVE  /\ \A s \in Orders!Slots : req'[s] = IF s = r THEN p ELSE req[s]
         /\ req' \in [Orders!Slots -> Orders!Request \cup {Orders!NoRequest}]
BY DEF Orders!OrdersInv, Orders!TypeInv

\* Nothing that a request has read changes.
LEMMA QuietSlot ==
  ASSUME NEW s \in Orders!Slots, Orders!SlotInv(s), req'[s] = req[s],
         UNCHANGED <<rsvp, answer, crossed>>,
         event'.opord = event.opord, event'.status = event.status
  PROVE  Orders!SlotInv(s)'
<1>1. PICK q : q = req[s]
  OBVIOUS
<1>2. \A m : Orders!RowsOf(m)' = Orders!RowsOf(m)
  BY DEF Orders!RowsOf
<1>3. Orders!AnswerInv(q)' <=> Orders!AnswerInv(q)
  BY <1>2 DEF Orders!AnswerInv
<1>4. Orders!OpordInv(q)' <=> Orders!OpordInv(q)
  BY DEF Orders!OpordInv, Orders!Attending, Orders!Having
<1>5. Orders!Concerns(s)' = Orders!Concerns(s)
  BY DEF Orders!Concerns
<1>6. Orders!RosterInv(s)' <=> Orders!RosterInv(s)
  BY <1>5 DEF Orders!RosterInv
<1>7. QED
  BY <1>1, <1>3, <1>4, <1>6 DEF Orders!SlotInv, Orders!AnswerInv, Orders!OpordInv, Orders!PlaceInv

\* Nor does who has answered what and been told.
LEMMA QuietRest ==
  ASSUME Orders!OrdersInv, UNCHANGED <<rsvp, answer, crossed>>,
         event'.opord = event.opord, event'.status = event.status,
         ordered \cup unmailed \cup UNION outbox \subseteq ordered' \cup unmailed' \cup UNION outbox',
         aware \cup unnoticed \subseteq aware' \cup unnoticed',
         \A s \in Orders!Slots : req[s].pc = "notify" =>
           \/ \E u \in Orders!Slots : req'[u].pc = "notify"
           \/ Orders!Having({"pending", "attending"}) \subseteq aware' \cup unnoticed'
  PROVE  Orders!AnswersStand' /\ Orders!OrderedInv' /\ Orders!AwareInv'
<1>1. /\ \A m : Orders!RowsOf(m)' = Orders!RowsOf(m)
      /\ Orders!Attending' = Orders!Attending
      /\ Orders!Attending \subseteq Orders!Having({"pending", "attending"})
  BY DEF Orders!RowsOf, Orders!Attending, Orders!Having
<1>2. Orders!AnswersStand'
  BY <1>1 DEF Orders!OrdersInv, Orders!AnswersStand
<1>3. Orders!OrderedInv'
  BY <1>1 DEF Orders!OrdersInv, Orders!OrderedInv
<1>4. Orders!AwareInv'
  BY <1>1 DEF Orders!OrdersInv, Orders!AwareInv
<1>5. QED
  BY <1>2, <1>3, <1>4

\* The lock goes to a request only when nobody has it.
LEMMA LockKept ==
  ASSUME Orders!OrdersInv, NEW r \in Orders!Slots, NEW p \in Orders!Request \cup {Orders!NoRequest},
         req' = [req EXCEPT ![r] = p],
         Orders!Holds(r)' => Orders!Holds(r) \/ Orders!Unlocked(r)
  PROVE  Orders!LockInv'
<1>1. \A s \in Orders!Slots : s # r => (Orders!Holds(s)' <=> Orders!Holds(s))
  BY SlotMoves DEF Orders!Holds
<1>2. QED
  BY <1>1 DEF Orders!LockInv, Orders!OrdersInv, Orders!Unlocked

\* A request that is no warning order with the lock leaves these alone.
LEMMA WarnoKept ==
  ASSUME Orders!OrdersInv, NEW r \in Orders!Slots, NEW p \in Orders!Request \cup {Orders!NoRequest},
         req' = [req EXCEPT ![r] = p],
         event'.warno = event.warno, sent'.warno = sent.warno, faults' = faults,
         ~(req[r].pc = "commit" /\ req[r].op = "warno"),
         p.pc = "none" \/ p.op # "warno" \/ p.pc = "claim" \/ ~event.warno
  PROVE  Orders!WarnoInv'
<1>1. \A s \in Orders!Slots : req'[s] = IF s = r THEN p ELSE req[s]
  BY SlotMoves
<1>2. \A s \in Orders!Slots : s # r => (Orders!Holds(s)' <=> Orders!Holds(s))
  BY <1>1 DEF Orders!Holds
<1>3. Orders!Holds(r)' => p.pc # "none" /\ p.pc # "claim"
  BY <1>1 DEF Orders!Holds
<1>4. QED
  BY <1>1, <1>2, <1>3 DEF Orders!OrdersInv, Orders!WarnoInv

\* And one that is no FRAGO leaves those alone.
LEMMA FragoKept ==
  ASSUME Orders!OrdersInv, NEW r \in Orders!Slots, NEW p \in Orders!Request \cup {Orders!NoRequest},
         req' = [req EXCEPT ![r] = p], begun' \in Nat, begun \in Nat, begun' >= begun,
         fragos' = fragos, sent'.frago = sent.frago, sent'.refused = sent.refused, faults' = faults,
         req[r].pc # "none" => req[r].op # "frago", p.pc # "none" => p.op # "frago"
  PROVE  Orders!FragoInv'
<1>1. \A s \in Orders!Slots : req'[s] = IF s = r THEN p ELSE req[s]
  BY SlotMoves
<1>2. ~sent'.refused /\ \E k \in 0..begun' : fragos' = 1..k
  BY DEF Orders!OrdersInv, Orders!FragoInv
<1>3. \A s \in Orders!Slots : req'[s].pc # "none" /\ req'[s].op = "frago" =>
        /\ req'[s].number \in Orders!Numbers /\ req'[s].number <= begun'
        /\ req'[s].number - 1 \in fragos' \cup {0} /\ \A k \in fragos' : k < req'[s].number
  <2>1. SUFFICES ASSUME NEW s \in Orders!Slots, req'[s].pc # "none", req'[s].op = "frago"
                 PROVE  /\ req'[s].number \in Orders!Numbers /\ req'[s].number <= begun'
                        /\ req'[s].number - 1 \in fragos' \cup {0} /\ \A k \in fragos' : k < req'[s].number
    OBVIOUS
  <2>2. s # r /\ req'[s] = req[s]
    BY <1>1, <2>1
  <2>3. /\ req[s].number \in Orders!Numbers /\ req[s].number <= begun
        /\ req[s].number - 1 \in fragos \cup {0} /\ \A k \in fragos : k < req[s].number
    BY <2>1, <2>2 DEF Orders!OrdersInv, Orders!FragoInv
  <2>4. QED
    BY <2>2, <2>3 DEF Orders!Numbers
<1>4. \A n \in Orders!Numbers :
       \/ sent'.frago[n] <= faults'
       \/ /\ sent'.frago[n] <= 1 + faults'
          /\ n \in fragos' \/ \E s \in Orders!Slots : req'[s].pc = "commit" /\ req'[s].op = "frago" /\ req'[s].number = n
  BY <1>1 DEF Orders!OrdersInv, Orders!FragoInv
<1>5. QED
  BY <1>2, <1>3, <1>4 DEF Orders!FragoInv

\* What is left to show of a step that changes nobody's row or answer.
LEMMA QuietAdvance ==
  ASSUME Orders!Sound, Orders!OrdersInv, NEW r \in Orders!Slots,
         NEW p \in Orders!Request \cup {Orders!NoRequest}, req' = [req EXCEPT ![r] = p],
         UNCHANGED <<rsvp, answer, crossed, faults>>,
         event'.opord = event.opord, event'.status = event.status,
         ordered \cup unmailed \cup UNION outbox \subseteq ordered' \cup unmailed' \cup UNION outbox',
         aware \cup unnoticed \subseteq aware' \cup unnoticed',
         req[r].pc = "notify" => Orders!Having({"pending", "attending"}) \subseteq aware' \cup unnoticed',
         Orders!TypeOK', Orders!HistoryInv', Orders!WarnoInv', Orders!FragoInv',
         Orders!Holds(r)' => Orders!Holds(r) \/ Orders!Unlocked(r), Orders!SlotInv(r)'
  PROVE  Orders!OrdersInv'
<1>1. /\ \A s \in Orders!Slots : req'[s] = IF s = r THEN p ELSE req[s]
      /\ req' \in [Orders!Slots -> Orders!Request \cup {Orders!NoRequest}]
  BY SlotMoves
<1>2. \A s \in Orders!Slots : Orders!SlotInv(s)'
  <2>1. SUFFICES ASSUME NEW s \in Orders!Slots, s # r PROVE Orders!SlotInv(s)'
    OBVIOUS
  <2>2. Orders!SlotInv(s) /\ req'[s] = req[s]
    BY <1>1, <2>1 DEF Orders!OrdersInv
  <2>3. QED
    BY <2>2, QuietSlot
<1>3. \A s \in Orders!Slots : req[s].pc = "notify" =>
        \/ \E u \in Orders!Slots : req'[u].pc = "notify"
        \/ Orders!Having({"pending", "attending"}) \subseteq aware' \cup unnoticed'
  BY <1>1
<1>4. Orders!AnswersStand' /\ Orders!OrderedInv' /\ Orders!AwareInv'
  BY <1>3, QuietRest
<1>5. Orders!LockInv'
  BY LockKept
<1>6. QED
  BY <1>1, <1>2, <1>4, <1>5 DEF Orders!OrdersInv, Orders!TypeInv

\* The row of a member who has one at most: what it is, or where it will be.
LEMMA TheRowIs ==
  ASSUME Orders!Sound, NEW m \in Members
  PROVE  /\ Orders!RowsOf(m) = {} => Orders!NextFree(m) \in Orders!Rows /\ Orders!NextFree(m)[1] = m
                                       /\ rsvp[Orders!NextFree(m)] = "none"
         /\ Orders!Unique(m) =>
              /\ Orders!TheRow(m) \in Orders!Rows /\ Orders!TheRow(m)[1] = m
              /\ IF rsvp[Orders!TheRow(m)] = "none" THEN Orders!RowsOf(m) = {}
                 ELSE Orders!RowsOf(m) = {Orders!TheRow(m)}
<1>1. CASE Orders!RowsOf(m) = {}
  <2>1. <<m, 1>> \in Orders!Rows /\ <<m, 1>>[1] = m
    BY DEF Orders!Rows, Orders!Sound
  <2>2. <<m, 1>> \in Orders!Free(m)
    BY <1>1, <2>1 DEF Orders!Free, Orders!RowsOf
  <2>3. Orders!NextFree(m) \in Orders!Free(m)
    BY <2>2 DEF Orders!NextFree
  <2>4. QED
    BY <1>1, <2>3 DEF Orders!Free, Orders!TheRow
<1>2. CASE Orders!RowsOf(m) # {}
  <2>1. Orders!TheRow(m) \in Orders!RowsOf(m)
    BY <1>2 DEF Orders!TheRow
  <2>2. /\ Orders!TheRow(m) \in Orders!Rows /\ Orders!TheRow(m)[1] = m
        /\ rsvp[Orders!TheRow(m)] # "none"
    BY <2>1 DEF Orders!RowsOf
  <2>3. Orders!Unique(m) => Orders!RowsOf(m) = {Orders!TheRow(m)}
    BY <2>1 DEF Orders!Unique
  <2>4. QED
    BY <1>2, <2>2, <2>3
<1>3. QED
  BY <1>1, <1>2

\* A request begins with what it has found.
LEMMA BeginIs ==
  ASSUME Orders!Sound, Orders!OrdersInv,
         NEW pc \in {"save", "claim", "flush", "cancel"},
         NEW op \in {"answer", "override", "maintain", "warno", "opord", "frago", "cancel", "publish", "review"},
         NEW found \in [row : Orders!Rows \cup {Orders!NoRow}, seen : Orders!Statuses,
                        says : Orders!Statuses, add : SUBSET Members, prune : SUBSET Orders!Rows,
                        number : 0..MaxRequests],
         Orders!Begin(pc, op, found)
  PROVE  /\ begun \in Nat /\ begun' = begun + 1 /\ begun' \in 0..MaxRequests
         /\ \E r \in Orders!Slots, p \in Orders!Request :
              /\ req[r] = Orders!NoRequest /\ req' = [req EXCEPT ![r] = p]
              /\ p.pc = pc /\ p.op = op /\ p.row = found.row /\ p.seen = found.seen /\ p.says = found.says
              /\ p.read.opord = event.opord /\ p.read.status = event.status
              /\ p.add = found.add /\ p.prune = found.prune /\ p.number = found.number
<1>1. /\ begun \in Nat /\ begun' = begun + 1 /\ begun' \in 0..MaxRequests /\ begun + 1 \in Orders!Numbers
      /\ event \in Orders!EventType
  BY DEF Orders!Begin, Orders!OrdersInv, Orders!TypeInv, Orders!TypeOK, Orders!Sound, Orders!Numbers
<1>2. PICK read : read = [status |-> event.status, open |-> event.open, opord |-> event.opord]
  OBVIOUS
<1>3. PICK n : n = begun + 1
  OBVIOUS
<1>4. PICK p : p = [pc |-> pc, op |-> op, n |-> n, row |-> found.row, seen |-> found.seen,
                    says |-> found.says, read |-> read, add |-> found.add, prune |-> found.prune,
                    to |-> {}, number |-> found.number, gone |-> {}]
  OBVIOUS
<1>5. read \in [status : {"active", "cancelled"}, open : BOOLEAN, opord : BOOLEAN]
      /\ read.opord = event.opord /\ read.status = event.status
  BY <1>1, <1>2 DEF Orders!EventType
<1>6. p \in Orders!Request
  BY <1>1, <1>3, <1>4, <1>5 DEF Orders!Request
<1>7. PICK r \in Orders!Slots : req[r] = Orders!NoRequest /\ req' = [req EXCEPT ![r] = p]
  BY <1>2, <1>3, <1>4 DEF Orders!Begin
<1>8. QED
  BY <1>1, <1>4, <1>5, <1>6, <1>7

\* What is left to show of a request that begins.
LEMMA OrderBegins ==
  ASSUME Orders!Sound, Orders!OrdersInv, Orders!OnlyBegins, NEW r \in Orders!Slots,
         NEW p \in Orders!Request, req[r] = Orders!NoRequest, req' = [req EXCEPT ![r] = p],
         begun \in Nat, begun' = begun + 1, begun' \in 0..MaxRequests,
         p.pc \in {"save", "claim", "flush", "cancel"}, Orders!PlaceInv(p), Orders!AnswerInv(p),
         p.op = "maintain" => \A m \in p.add \cup {i[1] : i \in p.prune} :
                                m \in crossed \/ answer[m].says \notin Orders!Answers,
         p.op = "frago" => p.number \in Orders!NextNumber /\ \A s \in Orders!Slots : ~Orders!Holds(s)
  PROVE  Orders!OrdersInv'
<1>1. UNCHANGED <<event, rsvp, serving, fragos, sheets, outbox, edits, faults,
                  recent, ordered, unmailed, aware, unnoticed, answer,
                  crossed, sent>>
  BY DEF Orders!OnlyBegins, Orders!history, Orders!notices
<1>2. /\ \A s \in Orders!Slots : req'[s] = IF s = r THEN p ELSE req[s]
      /\ req' \in [Orders!Slots -> Orders!Request \cup {Orders!NoRequest}]
  BY SlotMoves
<1>3. p.pc # "none" /\ p.pc # "notify" /\ p.pc # "commit" /\ p.pc # "mail" /\ req[r].pc = "none"
      /\ (p.op = "warno" => p.pc = "claim")
  <2>1. p.op = "warno" => p.pc \in {"claim", "mail", "commit"}
    BY DEF Orders!PlaceInv
  <2>2. req[r].pc = "none"
    BY DEF Orders!NoRequest
  <2>3. QED
    BY <2>1, <2>2
<1>4. Orders!Holds(r)' => p.op = "frago"
  BY <1>2, <1>3 DEF Orders!Holds
<1>5. Orders!TypeOK' /\ Orders!HistoryInv'
  BY <1>1, <1>2 DEF Orders!OrdersInv, Orders!TypeInv, Orders!TypeOK, Orders!HistoryInv
<1>6. Orders!WarnoInv'
  BY <1>1, <1>3, WarnoKept
<1>7. Orders!FragoInv'
  <2>1. CASE p.op # "frago"
    <3>1. p \in Orders!Request \cup {Orders!NoRequest} /\ begun' \in Nat /\ begun' >= begun
      OBVIOUS
    <3>2. fragos' = fragos /\ sent'.frago = sent.frago /\ sent'.refused = sent.refused /\ faults' = faults
      BY <1>1
    <3>3. QED
      BY <1>3, <2>1, <3>1, <3>2, FragoKept
  <2>2. CASE p.op = "frago"
    <3>1. ~sent'.refused /\ \E k \in 0..begun' : fragos' = 1..k
      BY <1>1 DEF Orders!OrdersInv, Orders!FragoInv
    <3>2. \A s \in Orders!Slots : req'[s].pc # "none" /\ req'[s].op = "frago" =>
            /\ req'[s].number \in Orders!Numbers /\ req'[s].number <= begun'
            /\ req'[s].number - 1 \in fragos' \cup {0} /\ \A k \in fragos' : k < req'[s].number
      <4>1. SUFFICES ASSUME NEW s \in Orders!Slots, req'[s].pc # "none", req'[s].op = "frago"
                     PROVE  /\ req'[s].number \in Orders!Numbers /\ req'[s].number <= begun'
                            /\ req'[s].number - 1 \in fragos' \cup {0} /\ \A k \in fragos' : k < req'[s].number
        OBVIOUS
      <4>2. CASE s = r
        <5>1. PICK k \in 0..begun : fragos = 1..k
          BY DEF Orders!OrdersInv, Orders!FragoInv
        <5>2. p.number \in Orders!Numbers /\ p.number - 1 \in fragos \cup {0}
              /\ \A j \in fragos : j < p.number
          BY <2>2 DEF Orders!NextNumber
        <5>3. p.number <= begun + 1
          BY <5>1, <5>2 DEF Orders!Numbers
        <5>4. QED
          BY <1>1, <1>2, <4>2, <5>2, <5>3
      <4>3. CASE s # r
        <5>1. req[s].pc # "none" /\ req[s].op = "frago" /\ req'[s] = req[s]
          BY <1>2, <4>1, <4>3
        <5>2. /\ req[s].number \in Orders!Numbers /\ req[s].number <= begun
              /\ req[s].number - 1 \in fragos \cup {0} /\ \A k \in fragos : k < req[s].number
          BY <5>1 DEF Orders!OrdersInv, Orders!FragoInv
        <5>3. QED
          BY <1>1, <5>1, <5>2 DEF Orders!Numbers
      <4>4. QED
        BY <4>2, <4>3
    <3>3. \A n \in Orders!Numbers :
            \/ sent'.frago[n] <= faults'
            \/ /\ sent'.frago[n] <= 1 + faults'
               /\ n \in fragos' \/ \E s \in Orders!Slots :
                    req'[s].pc = "commit" /\ req'[s].op = "frago" /\ req'[s].number = n
      BY <1>1, <1>2, <1>3 DEF Orders!OrdersInv, Orders!FragoInv
    <3>4. QED
      BY <3>1, <3>2, <3>3 DEF Orders!FragoInv
  <2>3. QED
    BY <2>1, <2>2
<1>8. Orders!SlotInv(r)'
  <2>1. req'[r] = p
    BY <1>2
  <2>2. Orders!AnswerInv(p)'
    BY <1>1 DEF Orders!AnswerInv, Orders!RowsOf
  <2>3. p.op = "maintain" => Orders!Concerns(r)' = p.add \cup {i[1] : i \in p.prune}
    BY <1>3, <2>1 DEF Orders!Concerns
  <2>4. p.op = "warno" => Orders!Concerns(r)' = {}
    BY <1>3, <2>1 DEF Orders!Concerns
  <2>5. Orders!RosterInv(r)'
    BY <1>1, <2>1, <2>3, <2>4 DEF Orders!RosterInv
  <2>6. Orders!OpordInv(p)'
    BY <1>3 DEF Orders!OpordInv
  <2>7. QED
    BY <2>1, <2>2, <2>5, <2>6 DEF Orders!SlotInv, Orders!AnswerInv, Orders!OpordInv, Orders!PlaceInv
<1>9. p \in Orders!Request \cup {Orders!NoRequest}
  OBVIOUS
<1>10. Orders!Holds(r)' => Orders!Holds(r) \/ Orders!Unlocked(r)
  BY <1>4 DEF Orders!Unlocked
<1>11. UNCHANGED <<rsvp, answer, crossed, faults>> /\ event'.opord = event.opord
       /\ event'.status = event.status /\ aware \cup unnoticed \subseteq aware' \cup unnoticed'
       /\ ordered \cup unmailed \cup UNION outbox \subseteq ordered' \cup unmailed' \cup UNION outbox'
  BY <1>1
<1>12. QED
  BY <1>3, <1>5, <1>6, <1>7, <1>8, <1>9, <1>10, <1>11, QuietAdvance

\* Answering finds the member's row as it is.
LEMMA AnswerBegins ==
  ASSUME Orders!Sound, Orders!OrdersInv, NEW m \in Members,
         NEW says \in {"pending"} \cup Orders!Answers,
         Orders!BeginAnswer(m, says) \/ Orders!BeginOverride(m, says)
  PROVE  Orders!OrdersInv'
<1>1. PICK op \in {"answer", "override"} : Orders!Begin("save", op, Orders!Answer(Orders!TheRow(m), says))
  BY DEF Orders!BeginAnswer, Orders!BeginOverride
<1>2. Orders!Unique(m) /\ Orders!OnlyBegins
  BY DEF Orders!BeginAnswer, Orders!BeginOverride
<1>3. /\ Orders!TheRow(m) \in Orders!Rows /\ Orders!TheRow(m)[1] = m
      /\ IF rsvp[Orders!TheRow(m)] = "none" THEN Orders!RowsOf(m) = {}
         ELSE Orders!RowsOf(m) = {Orders!TheRow(m)}
  BY <1>2, TheRowIs
<1>4. PICK at \in Orders!Rows : at = Orders!TheRow(m)
  BY <1>3
<1>5. PICK seen \in Orders!Statuses : seen = rsvp[at]
  BY DEF Orders!OrdersInv, Orders!TypeInv, Orders!TypeOK
<1>6. PICK found : found = [row |-> at, seen |-> seen, says |-> says, add |-> {}, prune |-> {}, number |-> 0]
  OBVIOUS
<1>7. Orders!Answer(Orders!TheRow(m), says) = found
  BY <1>4, <1>5, <1>6 DEF Orders!Answer
<1>8. found \in [row : Orders!Rows \cup {Orders!NoRow}, seen : Orders!Statuses, says : Orders!Statuses,
                 add : SUBSET Members, prune : SUBSET Orders!Rows, number : 0..MaxRequests]
  BY <1>6 DEF Orders!Statuses, Orders!Sound
<1>9. Orders!Begin("save", op, found)
  BY <1>1, <1>7
<1>10. /\ begun \in Nat /\ begun' = begun + 1 /\ begun' \in 0..MaxRequests
       /\ \E r \in Orders!Slots, p \in Orders!Request :
            /\ req[r] = Orders!NoRequest /\ req' = [req EXCEPT ![r] = p]
            /\ p.pc = "save" /\ p.op = op /\ p.row = found.row /\ p.seen = found.seen /\ p.says = found.says
            /\ p.read.opord = event.opord /\ p.read.status = event.status
            /\ p.add = found.add /\ p.prune = found.prune /\ p.number = found.number
  BY <1>8, <1>9, BeginIs
<1>11. PICK r \in Orders!Slots, p \in Orders!Request :
         /\ req[r] = Orders!NoRequest /\ req' = [req EXCEPT ![r] = p]
         /\ p.pc = "save" /\ p.op = op /\ p.row = at /\ p.seen = seen /\ p.says = says
         /\ p.read.opord = event.opord /\ p.read.status = event.status
  BY <1>6, <1>10
<1>12. Orders!PlaceInv(p)
  BY <1>11 DEF Orders!PlaceInv, Orders!Answers
<1>13. Orders!AnswerInv(p)
  BY <1>3, <1>4, <1>5, <1>11 DEF Orders!AnswerInv
<1>14. p.op # "maintain" /\ p.op # "frago" /\ p.pc \in {"save", "claim", "flush", "cancel"}
  BY <1>11
<1>15. QED
  BY <1>2, <1>10, <1>11, <1>12, <1>13, <1>14, OrderBegins

\* The others begin without a look at the rows, but for the roster's tidying.
LEMMA RestBegins ==
  ASSUME Orders!Sound, Orders!OrdersInv,
         \/ Orders!BeginMaintain \/ Orders!BeginWarno \/ Orders!BeginBanner \/ Orders!BeginOpord
         \/ Orders!BeginFrago \/ Orders!BeginCancel \/ Orders!BeginPublish \/ Orders!BeginReview
  PROVE  Orders!OrdersInv'
<1>1. Orders!OnlyBegins
  BY DEF Orders!BeginMaintain, Orders!BeginWarno, Orders!BeginBanner, Orders!BeginOpord,
     Orders!BeginFrago, Orders!BeginCancel, Orders!BeginPublish, Orders!BeginReview
<1>2. PICK pc \in {"save", "claim", "flush", "cancel"},
           op \in {"maintain", "warno", "opord", "frago", "cancel", "publish", "review"},
           add \in SUBSET Members, prune \in SUBSET Orders!Rows, number \in 0..MaxRequests :
        /\ Orders!Begin(pc, op, [row |-> Orders!NoRow, seen |-> "none", says |-> "none",
                                 add |-> add, prune |-> prune, number |-> number])
        /\ <<pc, op>> \in {<<"save", "maintain">>, <<"claim", "warno">>, <<"flush", "opord">>, <<"flush", "frago">>,
                           <<"cancel", "cancel">>, <<"save", "publish">>, <<"save", "review">>}
        /\ op = "maintain" => add = Orders!Missing /\ prune \subseteq Orders!Needless
        /\ op = "frago" => number \in Orders!NextNumber /\ \A s \in Orders!Slots : ~Orders!Holds(s)
  <2>1. /\ Orders!Missing \in SUBSET Members /\ Orders!Needless \in SUBSET Orders!Rows
        /\ Orders!NextNumber \subseteq 0..MaxRequests /\ 0 \in 0..MaxRequests
    BY DEF Orders!Missing, Orders!Needless, Orders!NextNumber, Orders!Numbers, Orders!Sound,
       Orders!OrdersInv, Orders!TypeInv, Orders!TypeOK
  <2>2. CASE Orders!BeginMaintain
    <3>1. PICK pruned \in Orders!Pruned : Orders!Begin("save", "maintain", Orders!Found(Orders!Missing, pruned, 0))
      BY <2>2 DEF Orders!BeginMaintain
    <3>2. pruned \subseteq Orders!Needless /\ pruned \in SUBSET Orders!Rows
      BY <2>1 DEF Orders!Pruned
    <3>3. QED
      BY <2>1, <3>1, <3>2 DEF Orders!Found
  <2>3. CASE Orders!BeginWarno \/ Orders!BeginBanner
    BY <2>1, <2>3 DEF Orders!BeginWarno, Orders!BeginBanner, Orders!Plain, Orders!Found
  <2>4. CASE Orders!BeginOpord
    BY <2>1, <2>4 DEF Orders!BeginOpord, Orders!Plain, Orders!Found
  <2>5. CASE Orders!BeginFrago
    <3>1. PICK n \in Orders!NextNumber : Orders!Begin("flush", "frago", Orders!Found({}, {}, n))
      BY <2>5 DEF Orders!BeginFrago
    <3>2. QED
      BY <2>1, <2>5, <3>1 DEF Orders!BeginFrago, Orders!Plain, Orders!Found
  <2>6. CASE Orders!BeginCancel
    BY <2>1, <2>6 DEF Orders!BeginCancel, Orders!Plain, Orders!Found, Orders!CancelOrder
  <2>7. CASE Orders!BeginPublish
    BY <2>1, <2>7 DEF Orders!BeginPublish, Orders!Plain, Orders!Found
  <2>8. CASE Orders!BeginReview
    BY <2>1, <2>8 DEF Orders!BeginReview, Orders!Plain, Orders!Found
  <2>9. QED
    BY <2>2, <2>3, <2>4, <2>5, <2>6, <2>7, <2>8
<1>3. PICK found : found = [row |-> Orders!NoRow, seen |-> "none", says |-> "none",
                            add |-> add, prune |-> prune, number |-> number]
  OBVIOUS
<1>4. found \in [row : Orders!Rows \cup {Orders!NoRow}, seen : Orders!Statuses, says : Orders!Statuses,
                 add : SUBSET Members, prune : SUBSET Orders!Rows, number : 0..MaxRequests]
  BY <1>3 DEF Orders!Statuses
<1>5. /\ begun \in Nat /\ begun' = begun + 1 /\ begun' \in 0..MaxRequests
      /\ \E r \in Orders!Slots, p \in Orders!Request :
           /\ req[r] = Orders!NoRequest /\ req' = [req EXCEPT ![r] = p]
           /\ p.pc = pc /\ p.op = op /\ p.row = found.row /\ p.seen = found.seen /\ p.says = found.says
           /\ p.read.opord = event.opord /\ p.read.status = event.status
           /\ p.add = found.add /\ p.prune = found.prune /\ p.number = found.number
  BY <1>2, <1>3, <1>4, BeginIs
<1>6. PICK r \in Orders!Slots, p \in Orders!Request :
        /\ req[r] = Orders!NoRequest /\ req' = [req EXCEPT ![r] = p]
        /\ p.pc = pc /\ p.op = op /\ p.add = add /\ p.prune = prune /\ p.number = number
  BY <1>3, <1>5
<1>7. Orders!PlaceInv(p)
  BY <1>2, <1>6 DEF Orders!PlaceInv
<1>8. Orders!AnswerInv(p)
  BY <1>2, <1>6 DEF Orders!AnswerInv
<1>9. op = "maintain" => \A m \in add \cup {i[1] : i \in prune} :
                            m \in crossed \/ answer[m].says \notin Orders!Answers
  <2>1. SUFFICES ASSUME op = "maintain", NEW m \in add \cup {i[1] : i \in prune}, m \notin crossed,
                        answer[m].says \in Orders!Answers
                 PROVE  FALSE
    OBVIOUS
  <2>2. m \in Members
    BY <1>2, <2>1 DEF Orders!Rows
  <2>3. Orders!RowsOf(m) # {} /\ \A i \in Orders!RowsOf(m) : rsvp[i] = answer[m].says
    BY <2>1, <2>2 DEF Orders!OrdersInv, Orders!AnswersStand
  <2>4. CASE m \in add
    BY <1>2, <2>1, <2>3, <2>4 DEF Orders!Missing
  <2>5. CASE m \in {i[1] : i \in prune}
    <3>1. PICK i \in Orders!Needless : i[1] = m
      BY <1>2, <2>1, <2>5
    <3>2. i \in Orders!RowsOf(m) /\ rsvp[i] = "pending"
      BY <3>1 DEF Orders!Needless, Orders!RowsOf
    <3>3. QED
      BY <2>1, <2>3, <3>2 DEF Orders!Answers
  <2>6. QED
    BY <2>1, <2>4, <2>5
<1>10. QED
  BY <1>1, <1>2, <1>5, <1>6, <1>7, <1>8, <1>9, OrderBegins

\* A slot that is free.
LEMMA FreeSlot ==
  ASSUME NEW r \in Orders!Slots, req'[r] = Orders!NoRequest
  PROVE  /\ Orders!SlotInv(r)' /\ ~Orders!Holds(r)'
         /\ Orders!NoRequest \in Orders!Request \cup {Orders!NoRequest}
         /\ Orders!NoRequest.pc = "none"
BY DEF Orders!SlotInv, Orders!AnswerInv, Orders!RosterInv, Orders!OpordInv, Orders!Holds, Orders!NoRequest

\* A request that says nothing of anybody's row.
LEMMA PlainSlot ==
  ASSUME NEW r \in Orders!Slots, NEW p \in Orders!Request, req'[r] = p, Orders!PlaceInv(p),
         p.op \in {"frago", "cancel", "publish", "review"}
  PROVE  Orders!SlotInv(r)'
BY DEF Orders!SlotInv, Orders!PlaceInv, Orders!AnswerInv, Orders!RosterInv, Orders!OpordInv

\* The warning order is claimed: whom it is to give rows has none.
LEMMA WarnoClaimed ==
  ASSUME Orders!Sound, Orders!OrdersInv, NEW r \in Orders!Slots, Orders!Claim(r)
  PROVE  Orders!OrdersInv'
<1>1. UNCHANGED <<event, rsvp, serving, fragos, sheets, outbox, begun, edits, faults,
                  recent, ordered, unmailed, aware, unnoticed,
                  answer, crossed, sent>>
  BY DEF Orders!Claim, Orders!bounds, Orders!history, Orders!notices
<1>2. PICK q \in Orders!Request : q = req[r] /\ q.pc = "claim" /\ Orders!PlaceInv(q)
  BY SlotIs DEF Orders!Claim, Orders!OrdersInv, Orders!SlotInv
<1>3. q.op = "warno"
  <2>1. q.op \in {"answer", "override", "maintain", "warno", "opord", "frago", "cancel", "publish", "review"}
    BY DEF Orders!Request
  <2>2. QED
    BY <1>2, <2>1 DEF Orders!PlaceInv
<1>4. \E p \in Orders!Request \cup {Orders!NoRequest} :
        /\ req' = [req EXCEPT ![r] = p] /\ Orders!SlotInv(r)'
        /\ Orders!Holds(r)' => Orders!Holds(r) \/ Orders!Unlocked(r)
        /\ p.pc = "none" \/ ~event.warno
        /\ p.pc # "none" => p.op # "frago"
  <2>1. CASE event.warno
    <3>1. req' = [req EXCEPT ![r] = Orders!NoRequest]
      BY <2>1 DEF Orders!Claim, Orders!End
    <3>2. req'[r] = Orders!NoRequest
      BY <3>1 DEF Orders!OrdersInv, Orders!TypeInv
    <3>3. QED
      BY <3>1, <3>2, FreeSlot
  <2>2. CASE ~event.warno
    <3>1. PICK add \in SUBSET Members : add = Orders!Missing
      BY DEF Orders!Missing, Orders!OrdersInv, Orders!TypeInv, Orders!TypeOK
    <3>2. PICK p : p = [q EXCEPT !.pc = "mail", !.add = add]
      OBVIOUS
    <3>3. p \in Orders!Request /\ p.pc = "mail" /\ p.op = "warno" /\ p.add = add
      BY <1>3, <3>2 DEF Orders!Request
    <3>4. req' = [req EXCEPT ![r] = p]
      BY <1>2, <2>2, <3>1, <3>2 DEF Orders!Claim
    <3>5. req'[r] = p
      BY <3>4 DEF Orders!OrdersInv, Orders!TypeInv
    <3>6. Orders!Concerns(r)' = add
      BY <3>3, <3>5 DEF Orders!Concerns
    <3>7. \A m \in add \ crossed : answer[m].says \notin Orders!Answers
      BY <3>1 DEF Orders!OrdersInv, Orders!AnswersStand, Orders!Missing
    <3>8. Orders!RosterInv(r)'
      BY <1>1, <3>6, <3>7 DEF Orders!RosterInv
    <3>9. Orders!SlotInv(r)'
      BY <3>3, <3>5, <3>8 DEF Orders!SlotInv, Orders!PlaceInv, Orders!AnswerInv, Orders!OpordInv
    <3>10. Orders!Unlocked(r)
      BY DEF Orders!Claim
    <3>11. QED
      BY <2>2, <3>3, <3>4, <3>9, <3>10
  <2>3. QED
    BY <2>1, <2>2
<1>5. PICK p \in Orders!Request \cup {Orders!NoRequest} :
        /\ req' = [req EXCEPT ![r] = p] /\ Orders!SlotInv(r)'
        /\ Orders!Holds(r)' => Orders!Holds(r) \/ Orders!Unlocked(r)
        /\ p.pc = "none" \/ ~event.warno
        /\ p.pc # "none" => p.op # "frago"
  BY <1>4
<1>6. Orders!TypeOK' /\ Orders!HistoryInv' /\ begun \in Nat /\ begun' \in Nat /\ begun' >= begun
  BY <1>1, <1>5, SlotMoves DEF Orders!OrdersInv, Orders!TypeInv, Orders!TypeOK, Orders!HistoryInv
<1>7. req[r].pc = "claim" /\ req[r].op # "frago"
  BY <1>2, <1>3
<1>8. Orders!WarnoInv'
  BY <1>1, <1>5, <1>7, WarnoKept
<1>9. Orders!FragoInv'
  BY <1>1, <1>5, <1>6, <1>7, FragoKept
<1>10. UNCHANGED <<rsvp, answer, crossed, faults>> /\ event'.opord = event.opord
       /\ event'.status = event.status /\ aware \cup unnoticed \subseteq aware' \cup unnoticed'
       /\ ordered \cup unmailed \cup UNION outbox \subseteq ordered' \cup unmailed' \cup UNION outbox' /\ req[r].pc # "notify"
  BY <1>1, <1>7
<1>11. QED
  BY <1>5, <1>6, <1>8, <1>9, <1>10, QuietAdvance

\* The types after a step that leaves the roster and the FRAGOs alone.
LEMMA OrdersTypes ==
  ASSUME Orders!Sound, Orders!OrdersInv, NEW r \in Orders!Slots,
         NEW p \in Orders!Request \cup {Orders!NoRequest}, req' = [req EXCEPT ![r] = p],
         UNCHANGED <<event, rsvp, serving, fragos, sheets, outbox, begun, edits, faults>>,
         recent' = recent \/ recent' \subseteq Members
  PROVE  /\ Orders!TypeOK'
         /\ begun \in Nat /\ begun' \in Nat /\ begun' >= begun /\ faults \in Nat
<1>1. \A s \in Orders!Slots : req'[s] \in Orders!Request \cup {Orders!NoRequest}
  BY SlotMoves
<1>2. QED
  BY <1>1 DEF Orders!OrdersInv, Orders!TypeInv, Orders!TypeOK, Orders!Sound

\* The warning order is mailed, and the operations order finds who attends.
LEMMA WarnoMailed ==
  ASSUME Orders!Sound, Orders!OrdersInv, NEW r \in Orders!Slots, Orders!MailWarno(r)
  PROVE  Orders!OrdersInv'
<1>1. /\ UNCHANGED <<event, rsvp, serving, fragos, sheets, outbox, begun, edits, faults,
                     recent, ordered, unmailed, aware, unnoticed,
                     answer, crossed>>
      /\ sent' = [sent EXCEPT !.warno = @ + 1]
  BY DEF Orders!MailWarno, Orders!bounds, Orders!notices
<1>2. PICK q \in Orders!Request :
        /\ q = req[r] /\ q.pc = "mail" /\ Orders!PlaceInv(q) /\ Orders!Holds(r)
  <2>1. req[r].pc = "mail" /\ req[r].pc # "none"
    BY DEF Orders!MailWarno
  <2>2. Orders!Holds(r)
    BY <2>1 DEF Orders!Holds
  <2>3. Orders!PlaceInv(req[r])
    BY <2>1 DEF Orders!OrdersInv, Orders!SlotInv
  <2>4. QED
    BY <2>1, <2>2, <2>3, SlotIs
<1>3. q.op = "warno" /\ ~event.warno
  <2>1. q.op \in {"answer", "override", "maintain", "warno", "opord", "frago", "cancel", "publish", "review"}
    BY DEF Orders!Request
  <2>2. q.op = "warno"
    BY <1>2, <2>1 DEF Orders!PlaceInv
  <2>3. QED
    BY <1>2, <2>2 DEF Orders!OrdersInv, Orders!WarnoInv
<1>4. PICK p : p = [q EXCEPT !.pc = "commit"]
  OBVIOUS
<1>5. p \in Orders!Request /\ p.pc = "commit" /\ p.op = "warno" /\ p.add = q.add
  BY <1>3, <1>4 DEF Orders!Request
<1>6. req' = [req EXCEPT ![r] = p]
  BY <1>2, <1>4 DEF Orders!MailWarno, Orders!At
<1>7. \A s \in Orders!Slots : req'[s] = IF s = r THEN p ELSE req[s]
  BY <1>5, <1>6, SlotMoves
<1>8. Orders!SlotInv(r)'
  <2>1. Orders!Concerns(r)' = q.add /\ Orders!Concerns(r) = q.add
    BY <1>2, <1>3, <1>5, <1>7 DEF Orders!Concerns
  <2>2. Orders!RosterInv(r)'
    BY <1>1, <1>2, <1>3, <2>1 DEF Orders!OrdersInv, Orders!SlotInv, Orders!RosterInv
  <2>3. QED
    BY <1>5, <1>7, <2>2 DEF Orders!SlotInv, Orders!PlaceInv, Orders!AnswerInv, Orders!OpordInv
<1>9. /\ sent.warno \in Nat /\ faults \in Nat /\ sent'.warno = sent.warno + 1
      /\ sent'.frago = sent.frago /\ sent'.refused = sent.refused
      /\ sent' \in [warno : Nat, opord : Nat, aar : Nat, frago : [Orders!Numbers -> Nat], refused : BOOLEAN]
  BY <1>1 DEF Orders!OrdersInv, Orders!TypeInv, Orders!TypeOK, Orders!HistoryInv, Orders!Sound
<1>10. Orders!TypeOK' /\ Orders!HistoryInv' /\ begun \in Nat /\ begun' \in Nat /\ begun' >= begun
  <2>1. Orders!HistoryInv'
    BY <1>1, <1>9 DEF Orders!OrdersInv, Orders!TypeInv, Orders!HistoryInv
  <2>2. QED
    BY <1>1, <1>5, <1>6, <2>1, OrdersTypes
<1>11. Orders!WarnoInv'
  <2>1. sent.warno <= faults
    <3>1. \A s \in Orders!Slots : req[s].pc = "commit" => s = r
      BY <1>2 DEF Orders!OrdersInv, Orders!LockInv, Orders!Holds
    <3>2. QED
      BY <1>2, <1>3, <3>1 DEF Orders!OrdersInv, Orders!WarnoInv
  <2>2. sent'.warno <= 1 + faults'
    BY <1>1, <1>9, <2>1
  <2>3. \A s \in Orders!Slots : req'[s].pc # "none" /\ req'[s].op = "warno" /\ Orders!Holds(s)' => ~event'.warno
    BY <1>1, <1>3
  <2>4. QED
    BY <1>5, <1>7, <2>2, <2>3 DEF Orders!WarnoInv
<1>12. Orders!FragoInv'
  BY <1>1, <1>2, <1>3, <1>5, <1>6, <1>9, <1>10, FragoKept
<1>13. UNCHANGED <<rsvp, answer, crossed, faults>> /\ event'.opord = event.opord
       /\ event'.status = event.status /\ aware \cup unnoticed \subseteq aware' \cup unnoticed'
       /\ ordered \cup unmailed \cup UNION outbox \subseteq ordered' \cup unmailed' \cup UNION outbox' /\ req[r].pc # "notify"
       /\ Orders!Holds(r)
  BY <1>1, <1>2
<1>14. p \in Orders!Request \cup {Orders!NoRequest}
  BY <1>5
<1>15. QED
  BY <1>6, <1>8, <1>10, <1>11, <1>12, <1>13, <1>14, QuietAdvance

LEMMA OpordFlushed ==
  ASSUME Orders!Sound, Orders!OrdersInv, NEW r \in Orders!Slots, Orders!FlushOpord(r)
  PROVE  Orders!OrdersInv'
<1>1. /\ UNCHANGED <<event, rsvp, serving, fragos, sheets, outbox, begun, edits, faults,
                     recent, ordered, unmailed, aware, unnoticed,
                     answer, crossed, sent>>
      /\ req[r].pc = "flush" /\ req[r].op = "opord" /\ Orders!Unlocked(r)
      /\ req' = [req EXCEPT ![r] = [@ EXCEPT !.pc = "commit", !.to = Orders!Attending]]
  BY DEF Orders!FlushOpord, Orders!bounds, Orders!history, Orders!notices
<1>2. PICK q \in Orders!Request : q = req[r]
  BY <1>1, SlotIs
<1>3. PICK to \in SUBSET Members : to = Orders!Attending
  BY DEF Orders!Attending, Orders!Having, Orders!Rows
<1>4. PICK p : p = [q EXCEPT !.pc = "commit", !.to = to]
  OBVIOUS
<1>5. p \in Orders!Request /\ p.pc = "commit" /\ p.op = "opord" /\ p.to = to
  BY <1>1, <1>2, <1>4 DEF Orders!Request
<1>6. req' = [req EXCEPT ![r] = p]
  BY <1>1, <1>2, <1>3, <1>4
<1>7. \A s \in Orders!Slots : req'[s] = IF s = r THEN p ELSE req[s]
  BY <1>5, <1>6, SlotMoves
<1>8. Orders!SlotInv(r)'
  <2>1. Orders!Attending' = Orders!Attending
    BY <1>1 DEF Orders!Attending, Orders!Having
  <2>2. Orders!OpordInv(p)'
    BY <1>3, <1>5, <2>1 DEF Orders!OpordInv
  <2>3. QED
    BY <1>5, <1>7, <2>2 DEF Orders!SlotInv, Orders!PlaceInv, Orders!AnswerInv, Orders!RosterInv, Orders!OpordInv
<1>9. Orders!TypeOK' /\ begun \in Nat /\ begun' \in Nat /\ begun' >= begun
  BY <1>1, <1>5, <1>6, OrdersTypes
<1>10. Orders!HistoryInv'
  BY <1>1 DEF Orders!OrdersInv, Orders!TypeInv, Orders!HistoryInv
<1>11. Orders!WarnoInv'
  BY <1>1, <1>5, <1>6, WarnoKept
<1>12. Orders!FragoInv'
  BY <1>1, <1>5, <1>6, <1>9, FragoKept
<1>13. UNCHANGED <<rsvp, answer, crossed, faults>> /\ event'.opord = event.opord
       /\ event'.status = event.status /\ aware \cup unnoticed \subseteq aware' \cup unnoticed'
       /\ ordered \cup unmailed \cup UNION outbox \subseteq ordered' \cup unmailed' \cup UNION outbox' /\ req[r].pc # "notify"
       /\ Orders!Unlocked(r)
  BY <1>1
<1>14. p \in Orders!Request \cup {Orders!NoRequest}
  BY <1>5
<1>15. QED
  BY <1>6, <1>8, <1>9, <1>10, <1>11, <1>12, <1>13, <1>14, QuietAdvance

\* A FRAGO is posted: nobody else has one, so that its number is free.
LEMMA FragoFlushed ==
  ASSUME Orders!Sound, Orders!OrdersInv, NEW r \in Orders!Slots, Orders!FlushFrago(r)
  PROVE  Orders!OrdersInv'
<1>1. /\ UNCHANGED <<event, rsvp, serving, fragos, sheets, outbox, begun, edits, faults,
                     recent, ordered, unmailed, aware, unnoticed,
                     answer, crossed>>
      /\ req[r].pc = "flush" /\ req[r].op = "frago"
  BY DEF Orders!FlushFrago, Orders!bounds, Orders!notices
<1>2. PICK q \in Orders!Request : q = req[r]
  BY <1>1, SlotIs
<1>3. Orders!Holds(r)
  BY <1>1 DEF Orders!Holds
<1>4. /\ q.number \in Orders!Numbers /\ q.number <= begun /\ q.number \notin fragos
      /\ q.number - 1 \in fragos \cup {0} /\ \A k \in fragos : k < q.number
  <2>1. /\ q.number \in Orders!Numbers /\ q.number <= begun
        /\ q.number - 1 \in fragos \cup {0} /\ \A k \in fragos : k < q.number
    BY <1>1, <1>2 DEF Orders!OrdersInv, Orders!FragoInv
  <2>2. QED
    BY <2>1 DEF Orders!Numbers
<1>5. PICK n \in Orders!Numbers : n = q.number
  BY <1>4
<1>6. /\ req' = [req EXCEPT ![r] = [@ EXCEPT !.pc = "commit"]]
      /\ sent' = [sent EXCEPT !.frago[n] = @ + 1]
  BY <1>2, <1>4, <1>5 DEF Orders!FlushFrago, Orders!At
<1>7. PICK p : p = [q EXCEPT !.pc = "commit"]
  OBVIOUS
<1>8. p \in Orders!Request /\ p.pc = "commit" /\ p.op = "frago" /\ p.number = n
  BY <1>1, <1>2, <1>5, <1>7 DEF Orders!Request
<1>9. req' = [req EXCEPT ![r] = p]
  BY <1>2, <1>6, <1>7
<1>10. \A s \in Orders!Slots : req'[s] = IF s = r THEN p ELSE req[s]
  BY <1>8, <1>9, SlotMoves
<1>11. Orders!SlotInv(r)'
  <2>1. Orders!PlaceInv(p)
    BY <1>8 DEF Orders!PlaceInv
  <2>2. QED
    BY <1>8, <1>10, <2>1, PlainSlot
<1>12. Orders!TypeOK' /\ begun \in Nat /\ begun' \in Nat /\ begun' >= begun /\ faults \in Nat
  BY <1>1, <1>8, <1>9, OrdersTypes
<1>13. /\ sent' \in [warno : Nat, opord : Nat, aar : Nat, frago : [Orders!Numbers -> Nat], refused : BOOLEAN]
       /\ sent'.warno = sent.warno /\ sent'.refused = sent.refused
       /\ sent.frago \in [Orders!Numbers -> Nat]
       /\ \A k \in Orders!Numbers : sent'.frago[k] = IF k = n THEN sent.frago[k] + 1 ELSE sent.frago[k]
  <2>1. sent \in [warno : Nat, opord : Nat, aar : Nat, frago : [Orders!Numbers -> Nat], refused : BOOLEAN]
    BY DEF Orders!OrdersInv, Orders!TypeInv, Orders!HistoryInv
  <2>2. PICK f \in [Orders!Numbers -> Nat] : f = sent.frago
    BY <2>1
  <2>3. PICK g : g = [f EXCEPT ![n] = f[n] + 1]
    OBVIOUS
  <2>4. g \in [Orders!Numbers -> Nat] /\ \A k \in Orders!Numbers : g[k] = IF k = n THEN f[k] + 1 ELSE f[k]
    BY <2>3
  <2>5. sent' = [sent EXCEPT !.frago = g]
    BY <1>6, <2>2, <2>3
  <2>6. sent'.frago = g /\ sent'.warno = sent.warno /\ sent'.refused = sent.refused
        /\ sent' \in [warno : Nat, opord : Nat, aar : Nat, frago : [Orders!Numbers -> Nat], refused : BOOLEAN]
    BY <2>1, <2>4, <2>5
  <2>7. QED
    BY <2>2, <2>4, <2>6
<1>14. Orders!HistoryInv'
  BY <1>1, <1>13 DEF Orders!OrdersInv, Orders!TypeInv, Orders!HistoryInv
<1>15. Orders!WarnoInv'
  BY <1>1, <1>8, <1>9, <1>13, WarnoKept
<1>16. \A s \in Orders!Slots : req[s].pc # "none" /\ req[s].op = "frago" => s = r
  <2>1. SUFFICES ASSUME NEW s \in Orders!Slots, req[s].pc # "none", req[s].op = "frago" PROVE s = r
    OBVIOUS
  <2>2. Orders!Holds(s)
    BY <2>1 DEF Orders!OrdersInv, Orders!SlotInv, Orders!PlaceInv, Orders!Holds
  <2>3. QED
    BY <1>3, <2>2 DEF Orders!OrdersInv, Orders!LockInv
<1>17. Orders!FragoInv'
  <2>1. ~sent'.refused /\ \E k \in 0..begun' : fragos' = 1..k
    BY <1>1, <1>13 DEF Orders!OrdersInv, Orders!FragoInv
  <2>2. \A s \in Orders!Slots : req'[s].pc # "none" /\ req'[s].op = "frago" =>
          /\ req'[s].number \in Orders!Numbers /\ req'[s].number <= begun'
          /\ req'[s].number - 1 \in fragos' \cup {0} /\ \A k \in fragos' : k < req'[s].number
    BY <1>1, <1>4, <1>5, <1>8, <1>10, <1>16
  <2>3. \A k \in Orders!Numbers :
          \/ sent'.frago[k] <= faults'
          \/ /\ sent'.frago[k] <= 1 + faults'
             /\ k \in fragos' \/ \E s \in Orders!Slots :
                  req'[s].pc = "commit" /\ req'[s].op = "frago" /\ req'[s].number = k
    <3>1. SUFFICES ASSUME NEW k \in Orders!Numbers
                   PROVE  \/ sent'.frago[k] <= faults'
                          \/ /\ sent'.frago[k] <= 1 + faults'
                             /\ k \in fragos' \/ \E s \in Orders!Slots :
                                  req'[s].pc = "commit" /\ req'[s].op = "frago" /\ req'[s].number = k
      OBVIOUS
    <3>2. \/ sent.frago[k] <= faults
          \/ sent.frago[k] <= 1 + faults /\ k \in fragos
      BY <1>1, <1>16 DEF Orders!OrdersInv, Orders!FragoInv
    <3>3. sent.frago[k] \in Nat
      BY <1>13
    <3>4. CASE k = n
      BY <1>1, <1>4, <1>5, <1>8, <1>10, <1>12, <1>13, <3>2, <3>3, <3>4
    <3>5. CASE k # n
      BY <1>1, <1>13, <3>2, <3>5
    <3>6. QED
      BY <3>4, <3>5
  <2>4. QED
    BY <2>1, <2>2, <2>3 DEF Orders!FragoInv
<1>18. UNCHANGED <<rsvp, answer, crossed, faults>> /\ event'.opord = event.opord
       /\ event'.status = event.status /\ aware \cup unnoticed \subseteq aware' \cup unnoticed'
       /\ ordered \cup unmailed \cup UNION outbox \subseteq ordered' \cup unmailed' \cup UNION outbox' /\ req[r].pc # "notify"
  BY <1>1
<1>19. p \in Orders!Request \cup {Orders!NoRequest}
  BY <1>8
<1>20. QED
  BY <1>3, <1>9, <1>11, <1>12, <1>14, <1>15, <1>17, <1>18, <1>19, QuietAdvance

\* It is committed: its number is the last one now.
LEMMA FragoCommitted ==
  ASSUME Orders!Sound, Orders!OrdersInv, NEW r \in Orders!Slots, Orders!CommitFrago(r)
  PROVE  Orders!OrdersInv'
<1>1. /\ UNCHANGED <<event, rsvp, serving, sheets, outbox, begun, edits, faults,
                     recent, ordered, unmailed, aware, unnoticed,
                     answer, crossed, sent>>
      /\ req[r].pc = "commit" /\ req[r].op = "frago" /\ fragos' = fragos \cup {req[r].number}
      /\ req' = [req EXCEPT ![r] = Orders!NoRequest]
  BY DEF Orders!CommitFrago, Orders!bounds, Orders!history, Orders!notices, Orders!End
<1>2. /\ Orders!NoRequest \in Orders!Request \cup {Orders!NoRequest} /\ Orders!NoRequest.pc = "none"
      /\ \A s \in Orders!Slots : req'[s] = IF s = r THEN Orders!NoRequest ELSE req[s]
  BY <1>1, SlotMoves DEF Orders!NoRequest
<1>3. Orders!SlotInv(r)' /\ ~Orders!Holds(r)'
  BY <1>2, FreeSlot
<1>4. \A s \in Orders!Slots : req[s].pc # "none" /\ req[s].op = "frago" => s = r
  <2>1. SUFFICES ASSUME NEW s \in Orders!Slots, req[s].pc # "none", req[s].op = "frago" PROVE s = r
    OBVIOUS
  <2>2. Orders!Holds(s) /\ Orders!Holds(r)
    BY <1>1, <2>1 DEF Orders!OrdersInv, Orders!SlotInv, Orders!PlaceInv, Orders!Holds
  <2>3. QED
    BY <2>2 DEF Orders!OrdersInv, Orders!LockInv
<1>5. PICK n \in Orders!Numbers : /\ n = req[r].number /\ n <= begun /\ n - 1 \in fragos \cup {0}
                                  /\ \A k \in fragos : k < n
  BY <1>1 DEF Orders!OrdersInv, Orders!FragoInv
<1>6. begun \in 0..MaxRequests /\ MaxRequests \in Nat
  BY DEF Orders!OrdersInv, Orders!TypeInv, Orders!TypeOK, Orders!Sound
<1>7. fragos' = 1..n /\ n \in 0..begun /\ n \in 0..MaxRequests
  <2>1. PICK k \in 0..begun : fragos = 1..k
    BY DEF Orders!OrdersInv, Orders!FragoInv
  <2>2. n = k + 1
    BY <1>5, <1>6, <2>1 DEF Orders!Numbers
  <2>3. QED
    BY <1>1, <1>5, <1>6, <2>1, <2>2
<1>8. Orders!TypeOK'
  <2>1. \A s \in Orders!Slots : req'[s] = Orders!NoRequest \/ req'[s] \in Orders!Request
    BY <1>2 DEF Orders!OrdersInv, Orders!TypeInv, Orders!TypeOK
  <2>2. fragos' \subseteq Orders!Numbers
    BY <1>6, <1>7 DEF Orders!Numbers
  <2>3. QED
    BY <1>1, <1>7, <2>1, <2>2 DEF Orders!OrdersInv, Orders!TypeInv, Orders!TypeOK
<1>9. Orders!HistoryInv'
  BY <1>1 DEF Orders!OrdersInv, Orders!TypeInv, Orders!HistoryInv
<1>10. Orders!WarnoInv'
  BY <1>1, <1>2, WarnoKept
<1>11. Orders!FragoInv'
  <2>1. ~sent'.refused /\ \E k \in 0..begun' : fragos' = 1..k
    BY <1>1, <1>7 DEF Orders!OrdersInv, Orders!FragoInv
  <2>2. \A s \in Orders!Slots : ~(req'[s].pc # "none" /\ req'[s].op = "frago")
    BY <1>2, <1>4
  <2>3. \A k \in Orders!Numbers :
          \/ sent'.frago[k] <= faults'
          \/ sent'.frago[k] <= 1 + faults' /\ k \in fragos'
    <3>1. SUFFICES ASSUME NEW k \in Orders!Numbers
                   PROVE  \/ sent.frago[k] <= faults
                          \/ sent.frago[k] <= 1 + faults /\ k \in fragos'
      BY <1>1
    <3>2. \/ sent.frago[k] <= faults
          \/ /\ sent.frago[k] <= 1 + faults
             /\ k \in fragos \/ \E s \in Orders!Slots :
                  req[s].pc = "commit" /\ req[s].op = "frago" /\ req[s].number = k
      BY DEF Orders!OrdersInv, Orders!FragoInv
    <3>3. QED
      BY <1>1, <1>4, <3>2
  <2>4. QED
    BY <2>1, <2>2, <2>3 DEF Orders!FragoInv
<1>12. UNCHANGED <<rsvp, answer, crossed, faults>> /\ event'.opord = event.opord
       /\ event'.status = event.status /\ aware \cup unnoticed \subseteq aware' \cup unnoticed'
       /\ ordered \cup unmailed \cup UNION outbox \subseteq ordered' \cup unmailed' \cup UNION outbox' /\ req[r].pc # "notify"
  BY <1>1
<1>13. QED
  BY <1>1, <1>2, <1>3, <1>8, <1>9, <1>10, <1>11, <1>12, QuietAdvance

\* Everyone who has not declined is told that the event is cancelled, or is not.
LEMMA CancelNotified ==
  ASSUME Orders!Sound, Orders!OrdersInv, NEW r \in Orders!Slots,
         Orders!NotifyAffected(r) \/ Orders!NotifyFails(r)
  PROVE  Orders!OrdersInv'
<1>1. /\ UNCHANGED <<event, rsvp, serving, fragos, sheets, outbox, begun, edits, faults, ordered,
                     unmailed, answer, crossed, sent>>
      /\ req[r].pc = "notify" /\ req' = [req EXCEPT ![r] = Orders!NoRequest]
      /\ aware \cup unnoticed \subseteq aware' \cup unnoticed'
      /\ Orders!Having({"pending", "attending"}) \subseteq aware' \cup unnoticed'
      /\ recent' \subseteq Members
  <2>1. PICK told \in SUBSET (Orders!Having({"pending", "attending"}) \ recent) : Orders!Noticed(told)
    BY DEF Orders!NotifyAffected, Orders!NotifyFails
  <2>2. req[r].pc = "notify" /\ req' = [req EXCEPT ![r] = Orders!NoRequest]
    BY DEF Orders!NotifyAffected, Orders!NotifyFails, Orders!End, Orders!CancelNext, Orders!CancelOrder
  <2>3. recent \subseteq Members /\ told \subseteq Members
    BY DEF Orders!OrdersInv, Orders!TypeInv, Orders!TypeOK, Orders!Having, Orders!Rows
  <2>4. QED
    BY <2>1, <2>2, <2>3 DEF Orders!Noticed, Orders!bounds
<1>2. /\ Orders!NoRequest \in Orders!Request \cup {Orders!NoRequest} /\ Orders!NoRequest.pc = "none"
      /\ \A s \in Orders!Slots : req'[s] = IF s = r THEN Orders!NoRequest ELSE req[s]
  BY <1>1, SlotMoves DEF Orders!NoRequest
<1>3. Orders!SlotInv(r)' /\ ~Orders!Holds(r)'
  BY <1>2, FreeSlot
<1>4. Orders!TypeOK' /\ begun \in Nat /\ begun' \in Nat /\ begun' >= begun
  BY <1>1, <1>2, OrdersTypes
<1>5. req[r].op # "frago"
  BY <1>1 DEF Orders!OrdersInv, Orders!SlotInv, Orders!PlaceInv
<1>6. Orders!HistoryInv'
  BY <1>1 DEF Orders!OrdersInv, Orders!TypeInv, Orders!HistoryInv
<1>7. Orders!WarnoInv'
  BY <1>1, <1>2, WarnoKept
<1>8. Orders!FragoInv'
  BY <1>1, <1>2, <1>4, <1>5, FragoKept
<1>9. UNCHANGED <<rsvp, answer, crossed, faults>> /\ event'.opord = event.opord
       /\ event'.status = event.status /\ aware \cup unnoticed \subseteq aware' \cup unnoticed'
       /\ ordered \cup unmailed \cup UNION outbox \subseteq ordered' \cup unmailed' \cup UNION outbox'
       /\ Orders!Having({"pending", "attending"}) \subseteq aware' \cup unnoticed'
  BY <1>1
<1>10. QED
  BY <1>1, <1>2, <1>3, <1>4, <1>6, <1>7, <1>8, <1>9, QuietAdvance

\* The review's items are replaced.
LEMMA ItemsReplaced ==
  ASSUME Orders!Sound, Orders!OrdersInv, NEW r \in Orders!Slots,
         Orders!DeleteItems(r) \/ Orders!CommitItems(r)
  PROVE  Orders!OrdersInv'
<1>1. /\ UNCHANGED <<rsvp, serving, fragos, outbox, begun, edits, faults,
                     recent, ordered, unmailed, aware, unnoticed, answer, crossed>>
      /\ req[r].pc \in {"save", "items"} /\ event' \in {event, [event EXCEPT !.aar = TRUE]}
      /\ sent' \in {sent, [sent EXCEPT !.aar = @ + 1]}
  BY DEF Orders!DeleteItems, Orders!CommitItems, Orders!bounds, Orders!history, Orders!notices
<1>2. PICK q \in Orders!Request : q = req[r]
  BY <1>1, SlotIs
<1>3. q.op \in {"publish", "review"}
  <2>1. q.op \in {"answer", "override", "maintain", "warno", "opord", "frago", "cancel", "publish", "review"}
    BY DEF Orders!Request
  <2>2. CASE Orders!DeleteItems(r)
    BY <1>2, <2>2 DEF Orders!DeleteItems
  <2>3. CASE Orders!CommitItems(r)
    <3>1. q.pc = "items"
      BY <1>2, <2>3 DEF Orders!CommitItems
    <3>2. Orders!PlaceInv(q)
      BY <1>2, <3>1 DEF Orders!OrdersInv, Orders!SlotInv
    <3>3. QED
      BY <2>1, <3>1, <3>2 DEF Orders!PlaceInv
  <2>4. QED
    BY <2>2, <2>3
<1>4. PICK p \in Orders!Request \cup {Orders!NoRequest} :
        /\ req' = [req EXCEPT ![r] = p] /\ Orders!SlotInv(r)' /\ ~Orders!Holds(r)'
        /\ p.pc \in {"none", "items"} /\ (p.pc # "none" => p.op \in {"publish", "review"})
        /\ sheets' \subseteq Orders!Numbers
  <2>1. CASE Orders!DeleteItems(r)
    <3>1. PICK deleted \in SUBSET Orders!Numbers : deleted = sheets
      BY DEF Orders!OrdersInv, Orders!TypeInv, Orders!TypeOK
    <3>2. PICK p : p = [q EXCEPT !.pc = "items", !.gone = deleted]
      OBVIOUS
    <3>3. p \in Orders!Request /\ p.pc = "items" /\ p.op = q.op
      BY <3>2 DEF Orders!Request
    <3>4. req' = [req EXCEPT ![r] = p] /\ sheets' = sheets
      BY <1>2, <2>1, <3>1, <3>2 DEF Orders!DeleteItems
    <3>5. req'[r] = p
      BY <3>3, <3>4, SlotMoves
    <3>6. Orders!PlaceInv(p)
      BY <1>3, <3>3 DEF Orders!PlaceInv
    <3>7. Orders!SlotInv(r)'
      BY <1>3, <3>3, <3>5, <3>6, PlainSlot
    <3>8. ~Orders!Holds(r)'
      BY <3>3, <3>5 DEF Orders!Holds
    <3>9. QED
      BY <1>3, <3>1, <3>3, <3>4, <3>7, <3>8
  <2>2. CASE Orders!CommitItems(r)
    <3>1. req' = [req EXCEPT ![r] = Orders!NoRequest] /\ sheets' = (sheets \ q.gone) \cup {q.n}
      BY <1>2, <2>2 DEF Orders!CommitItems, Orders!End
    <3>2. q.n \in Orders!Numbers
      BY DEF Orders!Request
    <3>3. sheets' \subseteq Orders!Numbers
      BY <3>1, <3>2 DEF Orders!OrdersInv, Orders!TypeInv, Orders!TypeOK
    <3>4. req'[r] = Orders!NoRequest
      BY <3>1 DEF Orders!OrdersInv, Orders!TypeInv
    <3>5. Orders!SlotInv(r)' /\ ~Orders!Holds(r)' /\ Orders!NoRequest.pc = "none"
          /\ Orders!NoRequest \in Orders!Request \cup {Orders!NoRequest}
      BY <3>4, FreeSlot
    <3>6. QED
      BY <3>1, <3>3, <3>5
  <2>3. QED
    BY <2>1, <2>2
<1>5. /\ event' \in Orders!EventType /\ event'.opord = event.opord /\ event'.status = event.status
      /\ event'.warno = event.warno
  BY <1>1 DEF Orders!OrdersInv, Orders!TypeInv, Orders!TypeOK, Orders!EventType
<1>6. /\ sent' \in [warno : Nat, opord : Nat, aar : Nat, frago : [Orders!Numbers -> Nat], refused : BOOLEAN]
      /\ sent'.warno = sent.warno /\ sent'.frago = sent.frago /\ sent'.refused = sent.refused
  BY <1>1 DEF Orders!OrdersInv, Orders!TypeInv, Orders!HistoryInv
<1>7. Orders!TypeOK' /\ begun \in Nat /\ begun' \in Nat /\ begun' >= begun
  <2>1. \A s \in Orders!Slots : req'[s] = Orders!NoRequest \/ req'[s] \in Orders!Request
    BY <1>4, SlotMoves
  <2>2. QED
    BY <1>1, <1>4, <1>5, <2>1 DEF Orders!OrdersInv, Orders!TypeInv, Orders!TypeOK, Orders!Sound
<1>8. Orders!HistoryInv'
  BY <1>1, <1>6 DEF Orders!OrdersInv, Orders!TypeInv, Orders!HistoryInv
<1>9. Orders!WarnoInv'
  BY <1>1, <1>2, <1>3, <1>4, <1>5, <1>6, WarnoKept
<1>10. Orders!FragoInv'
  BY <1>1, <1>2, <1>3, <1>4, <1>6, <1>7, FragoKept
<1>11. UNCHANGED <<rsvp, answer, crossed, faults>> /\ aware \cup unnoticed \subseteq aware' \cup unnoticed' /\ req[r].pc # "notify"
       /\ ordered \cup unmailed \cup UNION outbox \subseteq ordered' \cup unmailed' \cup UNION outbox'
  BY <1>1
<1>12. QED
  BY <1>4, <1>5, <1>7, <1>8, <1>9, <1>10, <1>11, QuietAdvance

\* The row that an answer has read is gone: the request fails.
LEMMA AnswerFails ==
  ASSUME Orders!Sound, Orders!OrdersInv, NEW r \in Orders!Slots, Orders!SaveAnswer(r),
         UNCHANGED <<rsvp, outbox, answer, crossed, aware>>
  PROVE  Orders!OrdersInv'
<1>1. /\ UNCHANGED <<event, serving, fragos, sheets, begun, edits, faults, recent, ordered, unmailed, unnoticed, sent>>
      /\ req[r].pc = "save" /\ req[r].op \in {"answer", "override"}
      /\ req' = [req EXCEPT ![r] = Orders!NoRequest]
  BY DEF Orders!SaveAnswer, Orders!bounds, Orders!notices, Orders!End
<1>2. /\ Orders!NoRequest \in Orders!Request \cup {Orders!NoRequest} /\ Orders!NoRequest.pc = "none"
      /\ \A s \in Orders!Slots : req'[s] = IF s = r THEN Orders!NoRequest ELSE req[s]
  BY <1>1, SlotMoves DEF Orders!NoRequest
<1>3. Orders!SlotInv(r)' /\ ~Orders!Holds(r)'
  BY <1>2, FreeSlot
<1>4. Orders!TypeOK' /\ begun \in Nat /\ begun' \in Nat /\ begun' >= begun
  BY <1>1, <1>2, OrdersTypes
<1>5. Orders!HistoryInv'
  BY <1>1 DEF Orders!OrdersInv, Orders!TypeInv, Orders!HistoryInv
<1>6. Orders!WarnoInv'
  BY <1>1, <1>2, WarnoKept
<1>7. Orders!FragoInv'
  BY <1>1, <1>2, <1>4, FragoKept
<1>8. /\ UNCHANGED <<rsvp, answer, crossed, faults>> /\ event'.opord = event.opord
      /\ event'.status = event.status /\ aware \cup unnoticed \subseteq aware' \cup unnoticed' /\ req[r].pc # "notify"
      /\ ordered \cup unmailed \cup UNION outbox \subseteq ordered' \cup unmailed' \cup UNION outbox'
  BY <1>1
<1>9. QED
  BY <1>1, <1>2, <1>3, <1>4, <1>5, <1>6, <1>7, <1>8, QuietAdvance

\* A request about which others have changed nothing, unless it has been crossed by them:
\* touched are the members whose rows or answers the step changes.
LEMMA CrossedSlot ==
  ASSUME Orders!OrdersInv, NEW s \in Orders!Slots, req'[s] = req[s], crossed \subseteq crossed',
         NEW touched \in SUBSET Members,
         \A i \in Orders!Rows : i[1] \notin touched => rsvp'[i] = rsvp[i],
         \A m \in Members \ touched : answer'[m] = answer[m],
         Orders!Answering(s) \cap touched \subseteq crossed',
         \/ event'.opord = event.opord /\ event'.status = event.status
         \/ Orders!Answering(s) \subseteq crossed',
         answer' = answer \/ Orders!Concerns(s) \cap touched \subseteq crossed',
         req[s].pc = "commit" /\ req[s].op = "opord" =>
           Orders!Attending' \ crossed' \subseteq Orders!Attending
  PROVE  Orders!SlotInv(s)'
<1>1. PICK q \in Orders!Request \cup {Orders!NoRequest} : q = req[s]
  BY SlotIs
<1>2. Orders!SlotInv(s) /\ req'[s] = q
  BY <1>1 DEF Orders!OrdersInv
<1>3. Orders!Concerns(s)' = Orders!Concerns(s) /\ Orders!Concerns(s) \subseteq Members
  <2>1. Orders!Concerns(s)' = Orders!Concerns(s)
    BY DEF Orders!Concerns
  <2>2. q.pc # "none" => q \in Orders!Request /\ Orders!PlaceInv(q)
    BY <1>1, <1>2, SlotIs DEF Orders!SlotInv
  <2>3. Orders!Concerns(s) \subseteq Members
    BY <1>1, <2>2 DEF Orders!Concerns, Orders!Request, Orders!PlaceInv, Orders!Rows
  <2>4. QED
    BY <2>1, <2>3
<1>4. Orders!AnswerInv(q)'
  <2>1. SUFFICES ASSUME q.pc = "save", q.op \in {"answer", "override"}, q.row[1] \notin crossed'
                 PROVE  Orders!AnswerInv(q)'
    BY DEF Orders!AnswerInv
  <2>2. Orders!Answering(s) = {q.row[1]} /\ q.row[1] \notin crossed /\ q.row[1] \notin touched
    BY <1>1, <2>1 DEF Orders!Answering
  <2>3. event'.opord = event.opord /\ event'.status = event.status
    BY <2>1, <2>2
  <2>4. q \in Orders!Request /\ Orders!PlaceInv(q) /\ Orders!AnswerInv(q)
    BY <1>1, <1>2, <2>1, SlotIs DEF Orders!SlotInv
  <2>5. q.row \in Orders!Rows
    BY <2>1, <2>4 DEF Orders!PlaceInv
  <2>6. Orders!RowsOf(q.row[1])' = Orders!RowsOf(q.row[1]) /\ rsvp'[q.row] = rsvp[q.row]
    BY <2>2, <2>5 DEF Orders!RowsOf
  <2>7. QED
    BY <2>1, <2>2, <2>3, <2>4, <2>6 DEF Orders!AnswerInv
<1>5. Orders!RosterInv(s)'
  BY <1>1, <1>2, <1>3 DEF Orders!SlotInv, Orders!RosterInv
<1>6. Orders!OpordInv(q)'
  BY <1>1, <1>2 DEF Orders!SlotInv, Orders!OpordInv
<1>7. q.pc # "none" => Orders!PlaceInv(q)
  BY <1>1, <1>2 DEF Orders!SlotInv
<1>8. QED
  BY <1>2, <1>4, <1>5, <1>6, <1>7 DEF Orders!SlotInv, Orders!AnswerInv, Orders!OpordInv, Orders!PlaceInv

\* What is left to show of a request that changes what others have read, and ends or goes
\* on to tell whom it concerns.
LEMMA LoudAdvance ==
  ASSUME Orders!OrdersInv, NEW r \in Orders!Slots,
         NEW p \in Orders!Request \cup {Orders!NoRequest}, req' = [req EXCEPT ![r] = p],
         p.pc \in {"none", "notify"}, Orders!SlotInv(r)',
         Orders!TypeOK', Orders!HistoryInv', Orders!WarnoInv', Orders!FragoInv',
         Orders!AnswersStand', Orders!OrderedInv', Orders!AwareInv',
         \A s \in Orders!Slots \ {r} : req'[s] = req[s] => Orders!SlotInv(s)'
  PROVE  Orders!OrdersInv'
<1>1. /\ \A s \in Orders!Slots : req'[s] = IF s = r THEN p ELSE req[s]
      /\ req' \in [Orders!Slots -> Orders!Request \cup {Orders!NoRequest}]
  BY SlotMoves
<1>2. \A s \in Orders!Slots : Orders!SlotInv(s)'
  BY <1>1
<1>3. Orders!Holds(r)' => Orders!Holds(r) \/ Orders!Unlocked(r)
  BY <1>1 DEF Orders!Holds
<1>4. Orders!LockInv'
  BY <1>3, LockKept
<1>5. QED
  BY <1>1, <1>2, <1>4 DEF Orders!OrdersInv, Orders!TypeInv

\* Nobody attends who did not, and nobody's answer changes: everyone who is to be told has been.
LEMMA NobodyNew ==
  ASSUME Orders!OrdersInv, crossed \subseteq crossed', UNCHANGED <<answer, faults,
                                                                   recent, ordered, unmailed, aware, unnoticed, outbox>>,
         event'.opord = event.opord, event'.status = event.status,
         Orders!Attending' \subseteq Orders!Attending,
         \A s \in Orders!Slots : req[s].pc = "notify" => req'[s].pc = "notify"
  PROVE  Orders!OrderedInv' /\ Orders!AwareInv'
<1>1. Orders!OrderedInv'
  BY DEF Orders!OrdersInv, Orders!OrderedInv
<1>2. Orders!AwareInv'
  BY DEF Orders!OrdersInv, Orders!AwareInv
<1>3. QED
  BY <1>1, <1>2

\* Rows are added and pruned, of the members whom the request is about.
LEMMA RosterChanges ==
  ASSUME Orders!OrdersInv, NEW r \in Orders!Slots, req[r].pc # "none", req[r].op \in {"maintain", "warno"},
         req' = [req EXCEPT ![r] = Orders!NoRequest],
         crossed' = crossed \cup Orders!Overlapped(r), UNCHANGED <<answer, faults,
                                                                   recent, ordered, unmailed, aware, unnoticed, outbox>>,
         event'.opord = event.opord, event'.status = event.status,
         \A i \in Orders!Rows : \/ rsvp'[i] = rsvp[i]
                                \/ i[1] \in Orders!Concerns(r) /\ rsvp'[i] \in {"none", "pending"},
         Orders!TypeOK', Orders!HistoryInv', Orders!WarnoInv', Orders!FragoInv'
  PROVE  Orders!OrdersInv'
<1>1. /\ Orders!NoRequest \in Orders!Request \cup {Orders!NoRequest} /\ Orders!NoRequest.pc = "none"
      /\ \A s \in Orders!Slots : req'[s] = IF s = r THEN Orders!NoRequest ELSE req[s]
  BY SlotMoves DEF Orders!NoRequest
<1>2. Orders!SlotInv(r)'
  BY <1>1, FreeSlot
<1>3. Orders!Attending' \subseteq Orders!Attending
  BY DEF Orders!Attending, Orders!Having
<1>4. PICK q \in Orders!Request : q = req[r]
  BY SlotIs
<1>5. PICK about \in SUBSET Members : about = Orders!Concerns(r)
  <2>1. q.op \in {"maintain", "warno"} /\ q.pc # "none"
    BY <1>4
  <2>2. Orders!Concerns(r) \subseteq Members
    BY <1>4, <2>1 DEF Orders!Concerns, Orders!Request, Orders!Rows
  <2>3. QED
    BY <2>2
<1>6. \A m \in about \ crossed : answer[m].says \notin Orders!Answers
  BY <1>5 DEF Orders!OrdersInv, Orders!SlotInv, Orders!RosterInv
<1>7. Orders!AnswersStand'
  <2>1. SUFFICES ASSUME NEW m \in Members \ crossed', answer[m].says \in Orders!Answers
                 PROVE  Orders!RowsOf(m)' # {} /\ \A i \in Orders!RowsOf(m)' : rsvp'[i] = answer[m].says
    BY DEF Orders!AnswersStand
  <2>2. m \notin crossed /\ m \notin about
    BY <1>6, <2>1
  <2>3. \A i \in Orders!Rows : i[1] = m => rsvp'[i] = rsvp[i]
    BY <1>5, <2>2
  <2>4. Orders!RowsOf(m)' = Orders!RowsOf(m) /\ \A i \in Orders!RowsOf(m) : rsvp'[i] = rsvp[i]
    BY <2>3 DEF Orders!RowsOf
  <2>5. QED
    BY <2>1, <2>2, <2>4 DEF Orders!OrdersInv, Orders!AnswersStand
<1>8. Orders!OrderedInv' /\ Orders!AwareInv'
  <2>1. \A s \in Orders!Slots : req[s].pc = "notify" => req'[s].pc = "notify"
    <3>1. req[r].pc # "notify"
      BY <1>4 DEF Orders!OrdersInv, Orders!SlotInv, Orders!PlaceInv
    <3>2. QED
      BY <1>1, <3>1
  <2>2. crossed \subseteq crossed'
    OBVIOUS
  <2>3. QED
    BY <1>3, <2>1, <2>2, NobodyNew
<1>9. ASSUME NEW s \in Orders!Slots \ {r}, req'[s] = req[s] PROVE Orders!SlotInv(s)'
  <2>1. Orders!Answering(r) = {} /\ s # r /\ s \in Orders!Slots
    BY DEF Orders!Answering
  <2>2. Orders!Answering(s) \cap about \subseteq crossed' /\ crossed \subseteq crossed'
    BY <1>5, <2>1, OverlappedIs
  <2>3. \A i \in Orders!Rows : i[1] \notin about => rsvp'[i] = rsvp[i]
    BY <1>5
  <2>4. \A m \in Members \ about : answer'[m] = answer[m]
    OBVIOUS
  <2>5. req[s].pc = "commit" /\ req[s].op = "opord" => Orders!Attending' \ crossed' \subseteq Orders!Attending
    BY <1>3
  <2>6. answer' = answer /\ event'.opord = event.opord /\ event'.status = event.status
    OBVIOUS
  <2>7. QED
    BY <1>9, <2>1, <2>2, <2>3, <2>4, <2>5, <2>6, CrossedSlot
<1>10. QED
  BY <1>1, <1>2, <1>7, <1>8, <1>9, LoudAdvance

\* The free row of a member is none of another member's.
LEMMA NextFreeIs ==
  ASSUME NEW m \in Members, Orders!Free(m) # {}
  PROVE  Orders!NextFree(m) \in Orders!Rows /\ Orders!NextFree(m)[1] = m /\ rsvp[Orders!NextFree(m)] = "none"
BY DEF Orders!NextFree, Orders!Free

\* The page of the event tidies its roster.
LEMMA RosterSaved ==
  ASSUME Orders!Sound, Orders!OrdersInv, NEW r \in Orders!Slots, Orders!SaveRoster(r)
  PROVE  Orders!OrdersInv'
<1>1. /\ UNCHANGED <<event, serving, fragos, sheets, outbox, begun, edits, faults,
                     recent, ordered, unmailed, aware, unnoticed, answer, sent>>
      /\ req[r].pc = "save" /\ req[r].op = "maintain"
      /\ req' = [req EXCEPT ![r] = Orders!NoRequest]
      /\ crossed' = crossed \cup Orders!Overlapped(r)
  BY DEF Orders!SaveRoster, Orders!bounds, Orders!notices, Orders!End
<1>2. PICK q \in Orders!Request : q = req[r]
  BY <1>1, SlotIs
<1>3. rsvp' = [i \in Orders!Rows |-> IF i \in q.prune THEN "none" ELSE Orders!WithPending(rsvp, q.add)[i]]
  BY <1>2 DEF Orders!SaveRoster
<1>4. Orders!Concerns(r) = q.add \cup {i[1] : i \in q.prune}
  BY <1>1, <1>2, ConcernsIs
<1>5. \A i \in Orders!Rows : \/ rsvp'[i] = rsvp[i]
                             \/ i[1] \in Orders!Concerns(r) /\ rsvp'[i] \in {"none", "pending"}
  BY <1>3, <1>4 DEF Orders!WithPending
<1>6. rsvp' \in [Orders!Rows -> Orders!Statuses]
  BY <1>3 DEF Orders!WithPending, Orders!OrdersInv, Orders!TypeInv, Orders!TypeOK, Orders!Statuses
<1>7. /\ Orders!NoRequest \in Orders!Request \cup {Orders!NoRequest} /\ Orders!NoRequest.pc = "none"
      /\ \A s \in Orders!Slots : req'[s] = IF s = r THEN Orders!NoRequest ELSE req[s]
  BY <1>1, SlotMoves DEF Orders!NoRequest
<1>8. Orders!TypeOK' /\ begun \in Nat /\ begun' \in Nat /\ begun' >= begun
  <2>1. \A s \in Orders!Slots : req'[s] = Orders!NoRequest \/ req'[s] \in Orders!Request
    BY <1>7 DEF Orders!OrdersInv, Orders!TypeInv, Orders!TypeOK
  <2>2. QED
    BY <1>1, <1>6, <2>1 DEF Orders!OrdersInv, Orders!TypeInv, Orders!TypeOK, Orders!Sound
<1>9. Orders!HistoryInv'
  BY <1>1 DEF Orders!OrdersInv, Orders!TypeInv, Orders!HistoryInv
<1>10. Orders!WarnoInv'
  BY <1>1, <1>7, WarnoKept
<1>11. Orders!FragoInv'
  BY <1>1, <1>7, <1>8, FragoKept
<1>12. req[r].pc # "none" /\ req[r].op \in {"maintain", "warno"}
       /\ UNCHANGED <<answer, faults, recent, ordered, unmailed, aware, unnoticed, outbox>>
       /\ event'.opord = event.opord /\ event'.status = event.status
  BY <1>1
<1>13. QED
  BY <1>1, <1>5, <1>8, <1>9, <1>10, <1>11, <1>12, RosterChanges

\* The warning order commits: it is this request's, which has the lock.
LEMMA WarnoCommitted ==
  ASSUME Orders!Sound, Orders!OrdersInv, NEW r \in Orders!Slots, Orders!CommitWarno(r)
  PROVE  Orders!OrdersInv'
<1>1. /\ UNCHANGED <<serving, fragos, sheets, outbox, begun, edits, faults,
                     recent, ordered, unmailed, aware, unnoticed, answer, sent>>
      /\ req[r].pc = "commit" /\ req[r].op = "warno"
      /\ req' = [req EXCEPT ![r] = Orders!NoRequest]
      /\ crossed' = crossed \cup Orders!Overlapped(r)
  BY DEF Orders!CommitWarno, Orders!bounds, Orders!notices, Orders!End
<1>2. PICK q \in Orders!Request : q = req[r]
  BY <1>1, SlotIs
<1>3. rsvp' = Orders!WithPending(rsvp, q.add)
      /\ event' = [event EXCEPT !.warno = TRUE, !.open = IF q.read.open THEN @ ELSE TRUE]
  BY <1>2 DEF Orders!CommitWarno
<1>4. Orders!Concerns(r) = q.add
  BY <1>1, <1>2, ConcernsIs
<1>5. \A i \in Orders!Rows : \/ rsvp'[i] = rsvp[i]
                             \/ i[1] \in Orders!Concerns(r) /\ rsvp'[i] \in {"none", "pending"}
  BY <1>3, <1>4 DEF Orders!WithPending
<1>6. rsvp' \in [Orders!Rows -> Orders!Statuses]
  BY <1>3 DEF Orders!WithPending, Orders!OrdersInv, Orders!TypeInv, Orders!TypeOK, Orders!Statuses
<1>7. /\ Orders!NoRequest \in Orders!Request \cup {Orders!NoRequest} /\ Orders!NoRequest.pc = "none"
      /\ \A s \in Orders!Slots : req'[s] = IF s = r THEN Orders!NoRequest ELSE req[s]
  BY <1>1, SlotMoves DEF Orders!NoRequest
<1>8. /\ event' \in Orders!EventType /\ event'.opord = event.opord /\ event'.status = event.status
      /\ event'.warno = TRUE
  BY <1>3 DEF Orders!OrdersInv, Orders!TypeInv, Orders!TypeOK, Orders!EventType
<1>9. Orders!TypeOK' /\ begun \in Nat /\ begun' \in Nat /\ begun' >= begun /\ faults \in Nat
  <2>1. \A s \in Orders!Slots : req'[s] = Orders!NoRequest \/ req'[s] \in Orders!Request
    BY <1>7 DEF Orders!OrdersInv, Orders!TypeInv, Orders!TypeOK
  <2>2. QED
    BY <1>1, <1>6, <1>8, <2>1 DEF Orders!OrdersInv, Orders!TypeInv, Orders!TypeOK, Orders!Sound
<1>10. Orders!HistoryInv'
  BY <1>1 DEF Orders!OrdersInv, Orders!TypeInv, Orders!HistoryInv
<1>11. Orders!WarnoInv'
  <2>1. Orders!Holds(r)
    BY <1>1 DEF Orders!Holds
  <2>2. \A s \in Orders!Slots : ~Orders!Holds(s)'
    <3>1. SUFFICES ASSUME NEW s \in Orders!Slots PROVE ~Orders!Holds(s)'
      OBVIOUS
    <3>2. CASE s = r
      BY <1>7, <3>2 DEF Orders!Holds
    <3>3. CASE s # r
      <4>1. ~Orders!Holds(s)
        BY <2>1, <3>3 DEF Orders!OrdersInv, Orders!LockInv
      <4>2. req'[s] = req[s]
        BY <1>7, <3>3
      <4>3. QED
        BY <4>1, <4>2 DEF Orders!Holds
    <3>4. QED
      BY <3>2, <3>3
  <2>3. sent.warno \in Nat
    BY DEF Orders!OrdersInv, Orders!TypeInv, Orders!HistoryInv
  <2>4. sent.warno <= 1 + faults
    BY <1>9, <2>3 DEF Orders!OrdersInv, Orders!WarnoInv
  <2>5. QED
    BY <1>1, <1>8, <2>2, <2>4 DEF Orders!WarnoInv
<1>12. Orders!FragoInv'
  BY <1>1, <1>7, <1>9, FragoKept
<1>13. req[r].pc # "none" /\ req[r].op \in {"maintain", "warno"}
       /\ UNCHANGED <<answer, faults, recent, ordered, unmailed, aware, unnoticed, outbox>>
  BY <1>1
<1>14. QED
  BY <1>1, <1>5, <1>8, <1>9, <1>10, <1>11, <1>12, <1>13, RosterChanges

\* The operations order commits, and goes to all who attend.
LEMMA OpordCommitted ==
  ASSUME Orders!Sound, Orders!OrdersInv, NEW r \in Orders!Slots, Orders!CommitOpord(r)
  PROVE  Orders!OrdersInv'
<1>1. /\ UNCHANGED <<rsvp, serving, fragos, sheets, begun, edits, faults,
                     recent, ordered, unmailed, aware, unnoticed, answer>>
      /\ req[r].pc = "commit" /\ req[r].op = "opord"
      /\ req' = [req EXCEPT ![r] = Orders!NoRequest]
      /\ crossed' = crossed \cup Orders!Overlapped(r)
      /\ event' = [event EXCEPT !.opord = TRUE] /\ sent' = [sent EXCEPT !.opord = @ + 1]
  BY DEF Orders!CommitOpord, Orders!bounds, Orders!notices, Orders!End
<1>2. PICK q \in Orders!Request : q = req[r]
  BY <1>1, SlotIs
<1>3. outbox' = outbox \cup {q.to} /\ Orders!Attending \ crossed \subseteq q.to /\ q.to \in SUBSET Members
  <2>1. Orders!OpordInv(q)
    BY <1>2 DEF Orders!OrdersInv, Orders!SlotInv
  <2>2. outbox' = outbox \cup {q.to}
    BY <1>2 DEF Orders!CommitOpord
  <2>3. QED
    BY <1>1, <1>2, <2>1, <2>2 DEF Orders!OpordInv, Orders!Request
<1>4. /\ Orders!NoRequest \in Orders!Request \cup {Orders!NoRequest} /\ Orders!NoRequest.pc = "none"
      /\ \A s \in Orders!Slots : req'[s] = IF s = r THEN Orders!NoRequest ELSE req[s]
  BY <1>1, SlotMoves DEF Orders!NoRequest
<1>5. /\ event' \in Orders!EventType /\ event'.warno = event.warno /\ event'.status = event.status
      /\ sent' \in [warno : Nat, opord : Nat, aar : Nat, frago : [Orders!Numbers -> Nat], refused : BOOLEAN]
      /\ sent'.warno = sent.warno /\ sent'.frago = sent.frago /\ sent'.refused = sent.refused
  <2>1. event' \in Orders!EventType /\ event'.warno = event.warno /\ event'.status = event.status
    BY <1>1 DEF Orders!OrdersInv, Orders!TypeInv, Orders!TypeOK, Orders!EventType
  <2>2. /\ sent' \in [warno : Nat, opord : Nat, aar : Nat, frago : [Orders!Numbers -> Nat], refused : BOOLEAN]
        /\ sent'.warno = sent.warno /\ sent'.frago = sent.frago /\ sent'.refused = sent.refused
    BY <1>1 DEF Orders!OrdersInv, Orders!TypeInv, Orders!HistoryInv
  <2>3. QED
    BY <2>1, <2>2
<1>6. Orders!TypeOK' /\ begun \in Nat /\ begun' \in Nat /\ begun' >= begun
  <2>1. \A s \in Orders!Slots : req'[s] = Orders!NoRequest \/ req'[s] \in Orders!Request
    BY <1>4 DEF Orders!OrdersInv, Orders!TypeInv, Orders!TypeOK
  <2>2. outbox' \subseteq SUBSET Members
    BY <1>3 DEF Orders!OrdersInv, Orders!TypeInv, Orders!TypeOK
  <2>3. QED
    BY <1>1, <1>5, <2>1, <2>2 DEF Orders!OrdersInv, Orders!TypeInv, Orders!TypeOK, Orders!Sound
<1>7. Orders!HistoryInv'
  BY <1>1, <1>5 DEF Orders!OrdersInv, Orders!TypeInv, Orders!HistoryInv
<1>8. Orders!WarnoInv'
  BY <1>1, <1>4, <1>5, WarnoKept
<1>9. Orders!FragoInv'
  BY <1>1, <1>4, <1>5, <1>6, FragoKept
<1>10. Orders!AnswersStand'
  <2>1. \A m : Orders!RowsOf(m)' = Orders!RowsOf(m)
    BY <1>1 DEF Orders!RowsOf
  <2>2. QED
    BY <1>1, <2>1 DEF Orders!OrdersInv, Orders!AnswersStand
<1>11. Orders!Attending' = Orders!Attending
  BY <1>1 DEF Orders!Attending, Orders!Having
<1>12. Orders!OrderedInv'
  BY <1>1, <1>3, <1>11 DEF Orders!OrderedInv
<1>13. Orders!AwareInv'
  BY <1>1, <1>4, <1>5, <1>11 DEF Orders!OrdersInv, Orders!AwareInv
<1>14. ASSUME NEW s \in Orders!Slots \ {r}, req'[s] = req[s] PROVE Orders!SlotInv(s)'
  <2>1. Orders!Answering(r) = {} /\ s # r /\ s \in Orders!Slots /\ Orders!Concerns(r) = Members
    BY <1>1, ConcernsIs DEF Orders!Answering
  <2>2. Orders!Answering(s) \subseteq Members
    <3>1. PICK w \in Orders!Request \cup {Orders!NoRequest} : w = req[s]
      BY SlotIs
    <3>2. w.pc # "none" => w \in Orders!Request /\ Orders!PlaceInv(w)
      BY <3>1, SlotIs DEF Orders!OrdersInv, Orders!SlotInv
    <3>3. QED
      BY <3>1, <3>2 DEF Orders!Answering, Orders!PlaceInv, Orders!Rows
  <2>3. Orders!Answering(s) \subseteq crossed' /\ crossed \subseteq crossed'
    BY <1>1, <2>1, <2>2, OverlappedIs
  <2>4. PICK nobody \in SUBSET Members : nobody = {}
    OBVIOUS
  <2>5. \A i \in Orders!Rows : i[1] \notin nobody => rsvp'[i] = rsvp[i]
    BY <1>1
  <2>6. \A m \in Members \ nobody : answer'[m] = answer[m]
    BY <1>1
  <2>7. answer' = answer /\ Orders!Answering(s) \cap nobody \subseteq crossed'
    BY <1>1, <2>4
  <2>8. req[s].pc = "commit" /\ req[s].op = "opord" => Orders!Attending' \ crossed' \subseteq Orders!Attending
    BY <1>11
  <2>9. QED
    BY <1>14, <2>1, <2>3, <2>5, <2>6, <2>7, <2>8, CrossedSlot
<1>15. Orders!SlotInv(r)'
  BY <1>4, FreeSlot
<1>16. QED
  BY <1>1, <1>4, <1>6, <1>7, <1>8, <1>9, <1>10, <1>12, <1>13, <1>14, <1>15, LoudAdvance

\* A cancellation commits, and goes on to tell whom it concerns.
LEMMA CancelSaved ==
  ASSUME Orders!Sound, Orders!OrdersInv, NEW r \in Orders!Slots, Orders!SaveCancel(r)
  PROVE  Orders!OrdersInv'
<1>1. /\ UNCHANGED <<rsvp, serving, fragos, sheets, outbox, begun, edits, faults,
                     recent, ordered, unmailed, aware, unnoticed, answer, sent>>
      /\ req[r].pc = "cancel" /\ crossed' = crossed \cup Orders!Overlapped(r)
      /\ req' = [req EXCEPT ![r] = [req[r] EXCEPT !.pc = "notify"]]
  BY DEF Orders!SaveCancel, Orders!bounds, Orders!notices, Orders!CancelNext, Orders!CancelOrder, Orders!At
<1>2. PICK q \in Orders!Request : q = req[r]
  BY <1>1, SlotIs
<1>3. q.op = "cancel" /\ q.pc = "cancel"
  <2>1. Orders!PlaceInv(q)
    BY <1>1, <1>2 DEF Orders!OrdersInv, Orders!SlotInv
  <2>2. q.op \in {"answer", "override", "maintain", "warno", "opord", "frago", "cancel", "publish", "review"}
    BY DEF Orders!Request
  <2>3. QED
    BY <1>1, <1>2, <2>1, <2>2 DEF Orders!PlaceInv
<1>4. PICK p : p = [q EXCEPT !.pc = "notify"]
  OBVIOUS
<1>5. p \in Orders!Request /\ p.pc = "notify" /\ p.op = "cancel"
  BY <1>3, <1>4 DEF Orders!Request
<1>6. p \in Orders!Request \cup {Orders!NoRequest} /\ req' = [req EXCEPT ![r] = p]
  BY <1>1, <1>2, <1>4, <1>5
<1>7. \A s \in Orders!Slots : req'[s] = IF s = r THEN p ELSE req[s]
  BY <1>6, SlotMoves
<1>8. /\ event' \in Orders!EventType /\ event'.warno = event.warno /\ event'.opord = event.opord
  <2>1. event' = [event EXCEPT !.status = "cancelled", !.open = IF q.read.open THEN FALSE ELSE @]
    BY <1>2 DEF Orders!SaveCancel
  <2>2. QED
    BY <2>1 DEF Orders!OrdersInv, Orders!TypeInv, Orders!TypeOK, Orders!EventType
<1>9. Orders!TypeOK' /\ begun \in Nat /\ begun' \in Nat /\ begun' >= begun
  <2>1. \A s \in Orders!Slots : req'[s] = Orders!NoRequest \/ req'[s] \in Orders!Request
    BY <1>5, <1>7 DEF Orders!OrdersInv, Orders!TypeInv, Orders!TypeOK
  <2>2. QED
    BY <1>1, <1>8, <2>1 DEF Orders!OrdersInv, Orders!TypeInv, Orders!TypeOK, Orders!Sound
<1>10. Orders!HistoryInv'
  BY <1>1 DEF Orders!OrdersInv, Orders!TypeInv, Orders!HistoryInv
<1>11. Orders!WarnoInv'
  BY <1>1, <1>5, <1>6, <1>8, WarnoKept
<1>12. Orders!FragoInv'
  <2>1. q.op # "frago" /\ (req[r].pc # "none" => req[r].op # "frago") /\ (p.pc # "none" => p.op # "frago")
    BY <1>2, <1>3, <1>5
  <2>2. QED
    BY <1>1, <1>6, <1>9, <2>1, FragoKept
<1>13. Orders!AnswersStand'
  <2>1. \A m : Orders!RowsOf(m)' = Orders!RowsOf(m)
    BY <1>1 DEF Orders!RowsOf
  <2>2. QED
    BY <1>1, <2>1 DEF Orders!OrdersInv, Orders!AnswersStand
<1>14. Orders!Attending' = Orders!Attending
  BY <1>1 DEF Orders!Attending, Orders!Having
<1>15. Orders!OrderedInv'
  BY <1>1, <1>8, <1>14 DEF Orders!OrdersInv, Orders!OrderedInv
<1>16. Orders!AwareInv'
  <2>1. req'[r].pc = "notify"
    BY <1>5, <1>7
  <2>2. QED
    BY <2>1 DEF Orders!AwareInv
<1>17. ASSUME NEW s \in Orders!Slots \ {r}, req'[s] = req[s] PROVE Orders!SlotInv(s)'
  <2>1. Orders!Answering(r) = {} /\ s # r /\ s \in Orders!Slots /\ req[r].op = "cancel"
    BY <1>1, <1>2, <1>3 DEF Orders!Answering
  <2>2. Orders!Answering(s) \subseteq crossed' /\ crossed \subseteq crossed'
    BY <1>1, <2>1, OverlappedIs
  <2>3. PICK nobody \in SUBSET Members : nobody = {}
    OBVIOUS
  <2>4. \A i \in Orders!Rows : i[1] \notin nobody => rsvp'[i] = rsvp[i]
    BY <1>1
  <2>5. \A m \in Members \ nobody : answer'[m] = answer[m]
    BY <1>1
  <2>6. answer' = answer /\ Orders!Answering(s) \cap nobody \subseteq crossed'
    BY <1>1, <2>3
  <2>7. req[s].pc = "commit" /\ req[s].op = "opord" => Orders!Attending' \ crossed' \subseteq Orders!Attending
    BY <1>14
  <2>8. QED
    BY <1>17, <2>1, <2>2, <2>4, <2>5, <2>6, <2>7, CrossedSlot
<1>18. Orders!SlotInv(r)'
  <2>1. Orders!PlaceInv(p) /\ req'[r] = p /\ p.op \in {"frago", "cancel", "publish", "review"}
    BY <1>5, <1>7 DEF Orders!PlaceInv
  <2>2. QED
    BY <1>5, <2>1, PlainSlot
<1>19. p.pc \in {"none", "notify"}
  BY <1>5
<1>20. QED
  BY <1>6, <1>9, <1>10, <1>11, <1>12, <1>13, <1>15, <1>16, <1>17, <1>18, <1>19, LoudAdvance

\* An answer is written to the row it has found.
LEMMA AnswerSaved ==
  ASSUME Orders!Sound, Orders!OrdersInv, NEW r \in Orders!Slots, Orders!SaveAnswer(r)
  PROVE  Orders!OrdersInv'
<1>1. /\ UNCHANGED <<event, serving, fragos, sheets, begun, edits, faults, recent, ordered, unmailed, unnoticed, sent>>
      /\ req[r].pc = "save" /\ req[r].op \in {"answer", "override"}
      /\ req' = [req EXCEPT ![r] = Orders!NoRequest]
  BY DEF Orders!SaveAnswer, Orders!bounds, Orders!notices, Orders!End
<1>2. PICK q \in Orders!Request : q = req[r]
  BY <1>1, SlotIs
<1>3. /\ q.pc = "save" /\ q.op \in {"answer", "override"} /\ q.row \in Orders!Rows /\ q.says # "none"
      /\ q.says \in Orders!Statuses /\ q.seen \in Orders!Statuses
      /\ Orders!AnswerInv(q)
  BY <1>1, <1>2 DEF Orders!OrdersInv, Orders!SlotInv, Orders!PlaceInv, Orders!Request
<1>4. PICK m \in Members : m = q.row[1]
  BY <1>3 DEF Orders!Rows
<1>5. PICK at : at = IF q.seen = "none" THEN Orders!NextFree(m) ELSE q.row
  OBVIOUS
<1>6. PICK own \in BOOLEAN : own = (q.op = "answer")
  OBVIOUS
<1>7. q.seen = "none" => Orders!Free(m) # {}
  BY <1>2, <1>4 DEF Orders!SaveAnswer
<1>8. at \in Orders!Rows /\ at[1] = m /\ (q.seen = "none" => rsvp[at] = "none")
  BY <1>3, <1>4, <1>5, <1>7, NextFreeIs
<1>9. CASE UNCHANGED <<rsvp, outbox, answer, crossed, aware>>
  BY <1>9, AnswerFails
<1>10. CASE ~UNCHANGED <<rsvp, outbox, answer, crossed, aware>>
  <2>1. /\ rsvp' = [rsvp EXCEPT ![at] = IF q.says = q.seen THEN @ ELSE q.says]
        /\ outbox' = IF own /\ Orders!CaughtUp(q) THEN outbox \cup {{m}} ELSE outbox
        /\ answer' = [answer EXCEPT ![m] =
             [says |-> q.says, own |-> own /\ (q.says # q.seen \/ answer[m].own)]]
        /\ crossed' = crossed \cup Orders!Overlapped(r)
        /\ aware' = IF own /\ q.read.status = "cancelled" THEN aware \cup {m} ELSE aware
    BY <1>2, <1>4, <1>5, <1>6, <1>10 DEF Orders!SaveAnswer
  <2>2. /\ Orders!NoRequest \in Orders!Request \cup {Orders!NoRequest} /\ Orders!NoRequest.pc = "none"
        /\ \A s \in Orders!Slots : req'[s] = IF s = r THEN Orders!NoRequest ELSE req[s]
    BY <1>1, SlotMoves DEF Orders!NoRequest
  <2>3. /\ rsvp \in [Orders!Rows -> Orders!Statuses] /\ answer \in [Members -> [says : Orders!Statuses, own : BOOLEAN]]
        /\ \A i \in Orders!Rows : i # at => rsvp'[i] = rsvp[i]
        /\ rsvp'[at] = IF q.says = q.seen THEN rsvp[at] ELSE q.says
        /\ \A k \in Members : k # m => answer'[k] = answer[k]
        /\ answer'[m].says = q.says /\ (answer'[m].own => own /\ (q.says # q.seen \/ answer[m].own))
    BY <1>8, <2>1 DEF Orders!OrdersInv, Orders!TypeInv, Orders!TypeOK, Orders!HistoryInv
  <2>4. Orders!TypeOK' /\ begun \in Nat /\ begun' \in Nat /\ begun' >= begun
    <3>1. \A s \in Orders!Slots : req'[s] = Orders!NoRequest \/ req'[s] \in Orders!Request
      BY <2>2 DEF Orders!OrdersInv, Orders!TypeInv, Orders!TypeOK
    <3>2. rsvp' \in [Orders!Rows -> Orders!Statuses]
      BY <1>3, <2>1, <2>3
    <3>3. outbox' \subseteq SUBSET Members
      BY <2>1 DEF Orders!OrdersInv, Orders!TypeInv, Orders!TypeOK
    <3>4. QED
      BY <1>1, <3>1, <3>2, <3>3 DEF Orders!OrdersInv, Orders!TypeInv, Orders!TypeOK, Orders!Sound
  <2>5. Orders!HistoryInv'
    <3>1. answer' \in [Members -> [says : Orders!Statuses, own : BOOLEAN]]
      <4>1. answer' = [answer EXCEPT ![m] = [says |-> q.says, own |-> own /\ (q.says # q.seen \/ answer[m].own)]]
        BY <2>1
      <4>2. (own /\ (q.says # q.seen \/ answer[m].own)) \in BOOLEAN
        OBVIOUS
      <4>3. QED
        BY <1>3, <2>3, <4>1, <4>2
    <3>2. QED
      BY <1>1, <3>1 DEF Orders!OrdersInv, Orders!TypeInv, Orders!HistoryInv
  <2>6. Orders!WarnoInv'
    BY <1>1, <2>2, WarnoKept
  <2>7. Orders!FragoInv'
    BY <1>1, <2>2, <2>4, FragoKept
  <2>8. \A k \in Members : k # m => Orders!RowsOf(k)' = Orders!RowsOf(k)
                                     /\ \A i \in Orders!RowsOf(k) : rsvp'[i] = rsvp[i]
    BY <1>8, <2>3 DEF Orders!RowsOf
  <2>9. m \notin crossed => Orders!RowsOf(m)' = {at} /\ rsvp'[at] = q.says
    <3>1. SUFFICES ASSUME m \notin crossed PROVE Orders!RowsOf(m)' = {at} /\ rsvp'[at] = q.says
      OBVIOUS
    <3>2. IF q.seen = "none" THEN Orders!RowsOf(m) = {} ELSE Orders!RowsOf(m) = {at} /\ rsvp[at] = q.seen
      BY <1>3, <1>4, <1>5, <3>1 DEF Orders!AnswerInv
    <3>3. rsvp'[at] = q.says
      BY <1>3, <2>3, <3>2
    <3>4. \A i \in Orders!Rows : i[1] = m /\ i # at => rsvp[i] = "none"
      BY <3>2 DEF Orders!RowsOf
    <3>5. QED
      BY <1>3, <1>8, <2>3, <3>3, <3>4 DEF Orders!RowsOf
  <2>10. Orders!AnswersStand'
    <3>1. SUFFICES ASSUME NEW k \in Members, k \notin crossed', answer'[k].says \in Orders!Answers
                   PROVE  Orders!RowsOf(k)' # {} /\ \A i \in Orders!RowsOf(k)' : rsvp'[i] = answer'[k].says
      BY DEF Orders!AnswersStand
    <3>2. k \notin crossed
      BY <2>1, <3>1
    <3>3. CASE k = m
      BY <2>3, <2>9, <3>2, <3>3
    <3>4. CASE k # m
      BY <2>3, <2>8, <3>1, <3>2, <3>4 DEF Orders!OrdersInv, Orders!AnswersStand
    <3>5. QED
      BY <3>3, <3>4
  <2>11. \A k \in Orders!Attending' : k # m => k \in Orders!Attending
    BY <1>8, <2>3 DEF Orders!Attending, Orders!Having
  \* Of the member who has answered: the answer was read, or the member is told with it.
  <2>12. m \in Orders!Attending' \ crossed' /\ answer'[m].own =>
           /\ m \notin crossed /\ own
           /\ \/ m \in Orders!Attending /\ answer[m].own
              \/ q.says = "attending" /\ q.seen # "attending"
           /\ event.opord => q.read.opord
           /\ event.status = "cancelled" => q.read.status = "cancelled"
    <3>1. SUFFICES ASSUME m \in Orders!Attending', m \notin crossed', answer'[m].own
                   PROVE  /\ m \notin crossed /\ own
                          /\ \/ m \in Orders!Attending /\ answer[m].own
                             \/ q.says = "attending" /\ q.seen # "attending"
                          /\ event.opord => q.read.opord
                          /\ event.status = "cancelled" => q.read.status = "cancelled"
      OBVIOUS
    <3>2. m \notin crossed /\ own
      BY <2>1, <2>3, <3>1
    <3>3. PICK i \in Orders!Rows : rsvp'[i] = "attending" /\ i[1] = m
      BY <3>1 DEF Orders!Attending, Orders!Having
    <3>4. i \in Orders!RowsOf(m)'
      BY <3>3 DEF Orders!RowsOf
    <3>5. q.says = "attending"
      BY <2>9, <3>2, <3>3, <3>4
    <3>6. /\ event.opord => q.read.opord
          /\ event.status = "cancelled" => q.read.status = "cancelled"
          /\ q.seen # "none" => Orders!RowsOf(m) = {q.row} /\ rsvp[q.row] = q.seen
      BY <1>3, <1>4, <3>2 DEF Orders!AnswerInv
    <3>7. q.seen = "attending" => m \in Orders!Attending /\ answer[m].own
      <4>1. SUFFICES ASSUME q.seen = "attending" PROVE m \in Orders!Attending /\ answer[m].own
        OBVIOUS
      <4>2. rsvp[q.row] = "attending"
        BY <3>6, <4>1
      <4>3. m \in Orders!Attending
        BY <1>3, <1>4, <4>2 DEF Orders!Attending, Orders!Having
      <4>4. QED
        BY <2>3, <3>1, <3>5, <4>1, <4>3
    <3>8. QED
      BY <3>2, <3>5, <3>6, <3>7
  <2>13. Orders!OrderedInv'
    <3>1. SUFFICES ASSUME event.opord, NEW k \in Orders!Attending', k \notin crossed', answer'[k].own
                   PROVE  k \in ordered \cup unmailed \cup UNION outbox'
      BY <1>1 DEF Orders!OrderedInv
    <3>2. UNION outbox \subseteq UNION outbox'
      BY <2>1
    <3>3. k \notin crossed /\ k \in Members
      BY <2>1, <3>1 DEF Orders!Attending, Orders!Having, Orders!Rows
    <3>4. k \in Orders!Attending /\ answer[k].own => k \in ordered \cup unmailed \cup UNION outbox
      BY <3>1, <3>3 DEF Orders!OrdersInv, Orders!OrderedInv
    <3>5. CASE k # m
      BY <2>3, <2>11, <3>1, <3>2, <3>3, <3>4, <3>5
    <3>6. CASE k = m
      <4>1. /\ own /\ q.read.opord
            /\ \/ m \in Orders!Attending /\ answer[m].own
               \/ q.says = "attending" /\ q.seen # "attending"
        BY <2>12, <3>1, <3>6
      <4>2. q.says = "attending" /\ q.seen # "attending" => {m} \in outbox'
        BY <2>1, <4>1 DEF Orders!CaughtUp
      <4>3. QED
        BY <3>2, <3>4, <3>6, <4>1, <4>2
    <3>7. QED
      BY <3>5, <3>6
  <2>14. Orders!AwareInv'
    <3>1. SUFFICES ASSUME event.status = "cancelled",
                          ~\E s \in Orders!Slots : req'[s].pc = "notify",
                          NEW k \in Orders!Attending', k \notin crossed', answer'[k].own
                   PROVE  k \in aware' \cup unnoticed
      BY <1>1 DEF Orders!AwareInv
    <3>2. ~\E s \in Orders!Slots : req[s].pc = "notify"
      BY <1>1, <2>2, <3>1
    <3>3. k \notin crossed /\ k \in Members
      BY <2>1, <3>1 DEF Orders!Attending, Orders!Having, Orders!Rows
    <3>4. k \in Orders!Attending /\ answer[k].own => k \in aware \cup unnoticed
      BY <3>1, <3>2, <3>3 DEF Orders!OrdersInv, Orders!AwareInv
    <3>5. CASE k # m
      BY <2>1, <2>3, <2>11, <3>1, <3>3, <3>4, <3>5
    <3>6. CASE k = m
      <4>1. own /\ q.read.status = "cancelled"
        BY <2>12, <3>1, <3>6
      <4>2. QED
        BY <2>1, <3>6, <4>1
    <3>7. QED
      BY <3>5, <3>6
  <2>15. ASSUME NEW s \in Orders!Slots \ {r}, req'[s] = req[s] PROVE Orders!SlotInv(s)'
    <3>1. PICK touched \in SUBSET Members : touched = {m}
      OBVIOUS
    <3>2. Orders!Answering(r) = touched /\ s # r /\ s \in Orders!Slots
      BY <1>1, <1>2, <1>4, <3>1 DEF Orders!Answering
    <3>3. Orders!Concerns(s) \cap touched \subseteq crossed' /\ crossed \subseteq crossed'
      BY <2>1, <3>1, <3>2, OverlappedIs
    <3>4. Orders!Answering(s) \subseteq Orders!Concerns(s)
      BY ConcernsIs DEF Orders!Answering
    <3>5. Orders!Answering(s) \cap touched \subseteq crossed'
      BY <3>3, <3>4
    <3>6. \A i \in Orders!Rows : i[1] \notin touched => rsvp'[i] = rsvp[i]
      BY <1>8, <2>3, <3>1
    <3>7. \A k \in Members \ touched : answer'[k] = answer[k]
      BY <2>3, <3>1
    <3>8. event'.opord = event.opord /\ event'.status = event.status
      BY <1>1
    <3>9. req[s].pc = "commit" /\ req[s].op = "opord" => Orders!Attending' \ crossed' \subseteq Orders!Attending
      <4>1. SUFFICES ASSUME req[s].pc = "commit", req[s].op = "opord"
                     PROVE  Orders!Attending' \ crossed' \subseteq Orders!Attending
        OBVIOUS
      <4>2. Orders!Concerns(s) = Members
        BY <3>2, <4>1, ConcernsIs
      <4>3. m \in crossed'
        BY <3>1, <3>3, <4>2
      <4>4. QED
        BY <2>11, <4>3
    <3>10. QED
      BY <2>15, <3>2, <3>3, <3>5, <3>6, <3>7, <3>8, <3>9, CrossedSlot
  <2>16. Orders!SlotInv(r)'
    BY <2>2, FreeSlot
  <2>17. QED
    BY <1>1, <2>2, <2>4, <2>5, <2>6, <2>7, <2>10, <2>13, <2>14, <2>15, <2>16, LoudAdvance
<1>11. QED
  BY <1>9, <1>10

\* Mails go out, and the event and the unit change under the requests.
LEMMA OrdersWorld ==
  ASSUME Orders!Sound, Orders!OrdersInv,
         \/ \E to \in SUBSET Members : Orders!Deliver(to)
         \/ Orders!CancelOther \/ Orders!Minute
         \/ Orders!Edit \/ Orders!Schedule \/ Orders!Close
         \/ \E m \in Members : Orders!Enlist(m)
         \/ UNCHANGED Orders!vars
  PROVE  Orders!OrdersInv'
<1>1. UNCHANGED <<rsvp, fragos, sheets, req, begun, faults, aware, unnoticed, answer, crossed, sent>>
  BY DEF Orders!Deliver, Orders!CancelOther, Orders!Minute, Orders!OnlyRecent, Orders!Edit,
     Orders!Schedule, Orders!Close, Orders!Enlist, Orders!Edited, Orders!mail, Orders!bounds,
     Orders!history, Orders!notices, Orders!vars
<1>2. /\ event' \in Orders!EventType /\ event'.status = event.status /\ event'.opord = event.opord
      /\ event'.warno = event.warno
  BY DEF Orders!Deliver, Orders!CancelOther, Orders!Minute, Orders!OnlyRecent, Orders!Edit,
     Orders!Schedule, Orders!Close, Orders!Enlist, Orders!vars, Orders!OrdersInv, Orders!TypeInv,
     Orders!TypeOK, Orders!EventType
<1>3. edits' \in 0..MaxEdits /\ serving' \subseteq Members
  BY DEF Orders!Deliver, Orders!CancelOther, Orders!Minute, Orders!OnlyRecent, Orders!Edit,
     Orders!Schedule, Orders!Close, Orders!Enlist, Orders!Edited, Orders!bounds, Orders!vars,
     Orders!OrdersInv, Orders!TypeInv, Orders!TypeOK, Orders!Sound
<1>4. /\ ordered \cup unmailed \cup UNION outbox \subseteq ordered' \cup unmailed' \cup UNION outbox'
      /\ outbox' \subseteq SUBSET Members /\ recent' \subseteq Members
  <2>1. outbox \subseteq SUBSET Members /\ recent \subseteq Members
    BY DEF Orders!OrdersInv, Orders!TypeInv, Orders!TypeOK
  <2>2. CASE UNCHANGED <<recent, ordered, unmailed, outbox>>
    BY <2>1, <2>2
  <2>3. CASE Orders!CancelOther \/ Orders!Minute
    BY <2>1, <2>3 DEF Orders!CancelOther, Orders!Minute, Orders!OnlyRecent, Orders!mail
  <2>4. CASE \E to \in SUBSET Members : Orders!Deliver(to)
    <3>1. PICK to \in SUBSET Members : Orders!Deliver(to)
      BY <2>4
    <3>2. PICK failed \in SUBSET to :
            ordered' = ordered \cup (to \ failed) /\ unmailed' = unmailed \cup failed
      BY <3>1 DEF Orders!Deliver
    <3>3. outbox' = outbox \ {to} /\ recent' = recent
      BY <3>1 DEF Orders!Deliver
    <3>4. ASSUME NEW k \in ordered \cup unmailed \cup UNION outbox
          PROVE  k \in ordered' \cup unmailed' \cup UNION outbox'
      BY <3>2, <3>3
    <3>5. QED
      BY <2>1, <3>3, <3>4
  <2>5. QED
    BY <2>2, <2>3, <2>4 DEF Orders!Edit, Orders!Schedule, Orders!Close, Orders!Enlist,
       Orders!Edited, Orders!mail, Orders!history, Orders!notices, Orders!vars
<1>5. Orders!TypeInv'
  <2>1. Orders!TypeOK'
    BY <1>1, <1>2, <1>3, <1>4 DEF Orders!OrdersInv, Orders!TypeInv, Orders!TypeOK
  <2>2. QED
    BY <1>1, <2>1 DEF Orders!OrdersInv, Orders!TypeInv, Orders!HistoryInv
<1>6. \A s \in Orders!Slots : Orders!SlotInv(s)'
  BY <1>1, <1>2, QuietSlot DEF Orders!OrdersInv
<1>7. Orders!AnswersStand' /\ Orders!OrderedInv' /\ Orders!AwareInv'
  <2>1. \A s \in Orders!Slots : req[s].pc = "notify" =>
          \/ \E u \in Orders!Slots : req'[u].pc = "notify"
          \/ Orders!Having({"pending", "attending"}) \subseteq aware' \cup unnoticed'
    BY <1>1
  <2>2. aware \cup unnoticed \subseteq aware' \cup unnoticed'
    BY <1>1
  <2>3. QED
    BY <1>1, <1>2, <1>4, <2>1, <2>2, QuietRest
<1>8. Orders!LockInv' /\ Orders!WarnoInv' /\ Orders!FragoInv'
  <2>1. \A s \in Orders!Slots : Orders!Holds(s)' <=> Orders!Holds(s)
    BY <1>1 DEF Orders!Holds
  <2>2. Orders!LockInv' /\ Orders!WarnoInv'
    BY <1>1, <1>2, <2>1 DEF Orders!OrdersInv, Orders!LockInv, Orders!WarnoInv
  <2>3. Orders!FragoInv'
    BY <1>1 DEF Orders!OrdersInv, Orders!FragoInv
  <2>4. QED
    BY <2>2, <2>3
<1>9. QED
  BY <1>5, <1>6, <1>7, <1>8 DEF Orders!OrdersInv

\* A crash ends every request: what was mailed and not committed may go out once more.
LEMMA OrdersCrash ==
  ASSUME Orders!Sound, Orders!OrdersInv, Orders!Crash
  PROVE  Orders!OrdersInv'
<1>1. /\ UNCHANGED <<event, rsvp, serving, fragos, sheets, begun, edits, recent, ordered, aware,
                     answer, crossed, sent>>
      /\ faults' = faults + 1 /\ faults \in Nat /\ faults' \in 0..MaxFaults
      /\ req' = [r \in Orders!Slots |-> Orders!NoRequest] /\ outbox' = {}
      /\ unmailed' = unmailed \cup UNION outbox /\ unnoticed \subseteq unnoticed'
      /\ (\E r \in Orders!Slots : req[r].pc = "notify") =>
           Orders!Having({"pending", "attending"}) \subseteq unnoticed'
  BY DEF Orders!Crash, Orders!OrdersInv, Orders!TypeInv, Orders!TypeOK, Orders!Sound
<1>2. \A s \in Orders!Slots : req'[s] = Orders!NoRequest /\ req'[s].pc = "none"
  BY <1>1 DEF Orders!NoRequest
<1>3. Orders!TypeInv'
  <2>1. Orders!TypeOK'
    BY <1>1, <1>2 DEF Orders!OrdersInv, Orders!TypeInv, Orders!TypeOK
  <2>2. QED
    BY <1>1, <2>1 DEF Orders!OrdersInv, Orders!TypeInv, Orders!HistoryInv
<1>4. \A s \in Orders!Slots : Orders!SlotInv(s)'
  BY <1>2 DEF Orders!SlotInv, Orders!AnswerInv, Orders!RosterInv, Orders!OpordInv
<1>5. Orders!AnswersStand'
  <2>1. \A k : Orders!RowsOf(k)' = Orders!RowsOf(k)
    BY <1>1 DEF Orders!RowsOf
  <2>2. QED
    BY <1>1, <2>1 DEF Orders!OrdersInv, Orders!AnswersStand
<1>6. Orders!OrderedInv' /\ Orders!AwareInv'
  <2>1. /\ Orders!Attending' = Orders!Attending
        /\ Orders!Attending \subseteq Orders!Having({"pending", "attending"})
    BY <1>1 DEF Orders!Attending, Orders!Having
  <2>2. Orders!OrderedInv'
    BY <1>1, <2>1 DEF Orders!OrdersInv, Orders!OrderedInv
  <2>3. Orders!AwareInv'
    BY <1>1, <2>1 DEF Orders!OrdersInv, Orders!AwareInv
  <2>4. QED
    BY <2>2, <2>3
<1>7. Orders!LockInv'
  BY <1>2 DEF Orders!LockInv, Orders!Holds
<1>8. Orders!WarnoInv'
  <2>1. sent.warno \in Nat
    BY DEF Orders!OrdersInv, Orders!TypeInv, Orders!HistoryInv
  <2>2. sent'.warno <= faults'
    BY <1>1, <2>1 DEF Orders!OrdersInv, Orders!WarnoInv
  <2>3. QED
    BY <1>2, <2>2 DEF Orders!WarnoInv
<1>9. Orders!FragoInv'
  <2>1. \A n \in Orders!Numbers : sent.frago[n] \in Nat
    BY DEF Orders!OrdersInv, Orders!TypeInv, Orders!HistoryInv
  <2>2. \A n \in Orders!Numbers : sent'.frago[n] <= faults'
    BY <1>1, <2>1 DEF Orders!OrdersInv, Orders!FragoInv
  <2>3. ~sent'.refused /\ \E k \in 0..begun' : fragos' = 1..k
    BY <1>1 DEF Orders!OrdersInv, Orders!FragoInv
  <2>4. QED
    BY <1>2, <2>2, <2>3 DEF Orders!FragoInv
<1>10. QED
  BY <1>3, <1>4, <1>5, <1>6, <1>7, <1>8, <1>9 DEF Orders!OrdersInv

LEMMA OrdersSteps ==
  Orders!Sound /\ Orders!OrdersInv /\ [Orders!Next]_(Orders!vars) => Orders!OrdersInv'
<1> SUFFICES ASSUME Orders!Sound, Orders!OrdersInv, [Orders!Next]_(Orders!vars) PROVE Orders!OrdersInv'
  OBVIOUS
<1>1. CASE Orders!Reads
  <2>1. CASE \E m \in Members, says \in {"pending"} \cup Orders!Answers :
               Orders!BeginAnswer(m, says) \/ Orders!BeginOverride(m, says)
    BY <2>1, AnswerBegins
  <2>2. CASE \/ Orders!BeginMaintain \/ Orders!BeginWarno \/ Orders!BeginBanner \/ Orders!BeginOpord
             \/ Orders!BeginFrago \/ Orders!BeginCancel \/ Orders!BeginPublish \/ Orders!BeginReview
    BY <2>2, RestBegins
  <2>3. QED
    BY <1>1, <2>1, <2>2 DEF Orders!Reads
<1>2. CASE \E r \in Orders!Slots : Orders!Writes(r)
  <2>1. PICK r \in Orders!Slots : Orders!Writes(r)
    BY <1>2
  <2>2. CASE Orders!SaveAnswer(r) \/ Orders!SaveRoster(r)
    BY <2>2, AnswerSaved, RosterSaved
  <2>3. CASE Orders!Claim(r) \/ Orders!MailWarno(r) \/ Orders!CommitWarno(r)
    BY <2>3, WarnoClaimed, WarnoMailed, WarnoCommitted
  <2>4. CASE Orders!FlushOpord(r) \/ Orders!CommitOpord(r)
    BY <2>4, OpordFlushed, OpordCommitted
  <2>5. CASE Orders!FlushFrago(r) \/ Orders!CommitFrago(r)
    BY <2>5, FragoFlushed, FragoCommitted
  <2>6. CASE Orders!SaveCancel(r) \/ Orders!NotifyAffected(r) \/ Orders!NotifyFails(r)
    BY <2>6, CancelSaved, CancelNotified
  <2>7. CASE Orders!DeleteItems(r) \/ Orders!CommitItems(r)
    BY <2>7, ItemsReplaced
  <2>8. QED
    BY <2>1, <2>2, <2>3, <2>4, <2>5, <2>6, <2>7 DEF Orders!Writes
<1>3. CASE Orders!World /\ ~Orders!Crash
  <2>1. CASE \E m \in Members : Orders!Enlist(m)
    BY <2>1, OrdersWorld
  <2>2. CASE \/ \E to \in SUBSET Members : Orders!Deliver(to)
             \/ Orders!CancelOther \/ Orders!Minute
             \/ Orders!Edit \/ Orders!Schedule \/ Orders!Close
    BY <2>2, OrdersWorld
  <2>3. QED
    BY <1>3, <2>1, <2>2 DEF Orders!World
<1>4. CASE Orders!Crash
  BY <1>4, OrdersCrash
<1>5. CASE UNCHANGED Orders!vars
  BY <1>5, OrdersWorld
<1>6. QED
  BY <1>1, <1>2, <1>3, <1>4, <1>5 DEF Orders!Next

LEMMA OrdersInvariant == EventsSpec => [](page = "orders" => Orders!OrdersInv)
<1> DEFINE IInv == page = "orders" => Orders!OrdersInv
<1>1. EventsInit => IInv
  BY OnlyOrders, OrdersAssumption, OrdersInit
<1>2. IInv /\ [EventsNext]_allVars => IInv'
  <2> SUFFICES ASSUME page = "orders", Orders!OrdersInv, [EventsNext]_allVars
               PROVE  Orders!OrdersInv'
    BY PageKept
  <2>1. [Orders!Next]_(Orders!vars)
    BY OnlyOrdersSteps
  <2>2. QED
    BY <2>1, OrdersAssumption, OrdersSteps
<1>3. QED
  BY <1>1, <1>2, PTL DEF EventsSpec

(***************************************************************************)
(* However many members, requests, copies of a row and crashes there are:  *)
(* the warning order goes out once, and once more for each crash at most,  *)
(* FRAGOs are numbered without gaps and none is refused, and the answer    *)
(* given last stands unless it overlapped a request about the member.      *)
(***************************************************************************)
THEOREM OrdersAreInOrderCorrect == EventsSpec => []OrdersAreInOrder
<1>1. (page = "orders" => Orders!OrdersInv) => OrdersAreInOrder
  <2> SUFFICES ASSUME Orders!OrdersInv
               PROVE  Orders!TypeOK /\ Orders!WarnoMailedOnce /\ Orders!FragosNumbered /\ Orders!AnswersStand
    BY DEF OrdersAreInOrder
  <2>1. Orders!TypeOK /\ Orders!AnswersStand /\ faults \in Nat
    BY OrdersAssumption DEF Orders!OrdersInv, Orders!TypeInv, Orders!TypeOK, Orders!Sound
  <2>2. sent.warno \in Nat /\ \A n \in Orders!Numbers : sent.frago[n] \in Nat
    BY DEF Orders!OrdersInv, Orders!TypeInv, Orders!HistoryInv
  <2>3. Orders!WarnoMailedOnce
    BY <2>1, <2>2 DEF Orders!OrdersInv, Orders!WarnoInv, Orders!WarnoMailedOnce
  <2>4. Orders!FragosNumbered
    BY <2>1, <2>2 DEF Orders!OrdersInv, Orders!FragoInv, Orders!FragosNumbered
  <2>5. QED
    BY <2>1, <2>3, <2>4
<1>2. QED
  BY <1>1, OrdersInvariant, PTL

(***************************************************************************)
(* Whoever says that they attend is mailed the operations order, and told  *)
(* of a cancellation, unless their answer overlapped it, or the mail or    *)
(* the notice was lost, or dropped for another one of the same title.      *)
(***************************************************************************)
THEOREM GoingAreToldCorrect == EventsSpec => []GoingAreTold
<1>1. (page = "orders" => Orders!OrdersInv) => GoingAreTold
  <2> SUFFICES ASSUME Orders!OrdersInv PROVE Orders!GoingHaveOrders /\ Orders!GoingKnowItIsOff
    BY DEF GoingAreTold
  <2>1. Orders!GoingHaveOrders
    BY DEF Orders!OrdersInv, Orders!OrderedInv, Orders!GoingHaveOrders
  <2>2. ASSUME NEW s \in Orders!Slots, req[s].pc = "notify"
        PROVE  req[s] # Orders!NoRequest /\ req[s].op = "cancel"
    <3>1. PICK q \in Orders!Request : q = req[s]
      BY <2>2, SlotIs
    <3>2. Orders!PlaceInv(q)
      BY <2>2, <3>1 DEF Orders!OrdersInv, Orders!SlotInv
    <3>3. q.op \in {"answer", "override", "maintain", "warno", "opord", "frago", "cancel", "publish", "review"}
      BY DEF Orders!Request
    <3>4. QED
      BY <2>2, <3>1, <3>2, <3>3, SlotIs DEF Orders!PlaceInv
  <2>3. Orders!GoingKnowItIsOff
    BY <2>2 DEF Orders!OrdersInv, Orders!AwareInv, Orders!GoingKnowItIsOff
  <2>4. QED
    BY <2>1, <2>3
<1>2. QED
  BY <1>1, OrdersInvariant, PTL

-----------------------------------------------------------------------------
(***************************************************************************)
(* The schedule of an event: ScheduleInv is inductive (see                 *)
(* ScheduleBuilder).                                                       *)
(***************************************************************************)
LEMMA OnlySchedule == page = "schedule" /\ EventsInit => Builder!Init
BY DEF EventsInit, ConsolePages

LEMMA OnlyScheduleSteps == page = "schedule" /\ [EventsNext]_allVars => [Builder!Next]_(Builder!vars)
BY DEF EventsNext, OrdersStep, SeriesStep, RotationStep, ScheduleStep, ConsoleFrame, GuardStep,
   DutyStep, TeamsStep, allVars, scheduleVars, requestVars, Builder!vars

LEMMA ScheduleInit == Builder!Sound /\ Builder!Init => Builder!ScheduleInv
<1> SUFFICES ASSUME Builder!Sound, Builder!Init PROVE Builder!ScheduleInv
  OBVIOUS
<1>1. /\ Builder!Blocks = {} /\ begun = 0 /\ changed = {} /\ crossed = {}
      /\ DOMAIN block = BlockIds /\ DOMAIN req = Builder!Slots
      /\ \A r \in Builder!Slots : req[r] = Builder!NoRequest
  BY DEF Builder!Init, Builder!Blocks
<1>2. Builder!NoRequest.pc = "none" /\ Builder!NoRequest.on = {}
  BY DEF Builder!NoRequest
<1>3. \A d : Builder!On(d) = {}
  BY <1>1 DEF Builder!On
<1>4. Builder!TypeInv
  BY <1>1, <1>2 DEF Builder!TypeInv, Builder!TypeOK, Builder!IsRequest, Builder!AboutInv, Builder!Sound
<1>5. Builder!LoneInv /\ \A r \in Builder!Slots : Builder!AddInv(req[r])
  BY <1>1, <1>2 DEF Builder!LoneInv, Builder!AddInv
<1>6. Builder!ScheduleIsInOrder
  BY <1>3, <1>4 DEF Builder!ScheduleIsInOrder, Builder!TypeInv
<1>7. QED
  BY <1>4, <1>5, <1>6 DEF Builder!ScheduleInv

\* FiniteSets as ScheduleBuilder sees it is FiniteSets.
LEMMA BuilderCounts == \A S : Builder!Cardinality(S) = Cardinality(S)
BY DEF Builder!Cardinality, Cardinality

LEMMA BuilderFinite == \A S : Builder!IsFiniteSet(S) <=> IsFiniteSet(S)
BY DEF Builder!IsFiniteSet, IsFiniteSet

\* A set that holds two others and one more has more elements than both.
LEMMA CountBefore ==
  ASSUME NEW A, NEW B, NEW C, NEW x, IsFiniteSet(C), A \cup B \cup {x} \subseteq C,
         A \cap B = {}, x \notin A \cup B
  PROVE  /\ Cardinality(A) \in Nat /\ Cardinality(B) \in Nat /\ Cardinality(C) \in Nat
         /\ Cardinality(A) + Cardinality(B) + 1 <= Cardinality(C)
<1>1. IsFiniteSet(A) /\ IsFiniteSet(B)
  BY FS_Subset
<1>2. IsFiniteSet(A \cup B) /\ Cardinality(A \cup B) = Cardinality(A) + Cardinality(B) - Cardinality(A \cap B)
  BY <1>1, FS_Union
<1>3. Cardinality(A \cap B) = 0
  BY FS_EmptySet
<1>4. Cardinality((A \cup B) \cup {x}) = Cardinality(A \cup B) + 1
  BY <1>2, FS_AddElement
<1>5. Cardinality((A \cup B) \cup {x}) <= Cardinality(C)
  BY FS_Subset
<1>6. Cardinality(A) \in Nat /\ Cardinality(B) \in Nat /\ Cardinality(C) \in Nat
  BY <1>1, FS_CardinalityType
<1>7. QED
  BY <1>2, <1>3, <1>4, <1>5, <1>6

\* The blocks of a day are finitely many, and so are those before a time.
LEMMA BlocksCount ==
  ASSUME Builder!Sound, Builder!TypeInv
  PROVE  /\ \A i \in Builder!Blocks : /\ i \in BlockIds /\ i \in Nat
                                      /\ block[i].day \in EventDays /\ block[i].start \in Nat
                                      /\ block[i].sort \in Nat \ {0}
         /\ \A d : IsFiniteSet(Builder!On(d)) /\ Builder!On(d) \subseteq Builder!Blocks
         /\ \A d, t : Cardinality(Builder!Sooner(d, t)) \in Nat
         /\ \A i \in Builder!Blocks : Cardinality(Builder!Earlier(i)) \in Nat
<1>1. Builder!Blocks \subseteq BlockIds /\ IsFiniteSet(Builder!Blocks)
  <2>1. Builder!Blocks \subseteq BlockIds /\ IsFiniteSet(BlockIds)
    BY BuilderFinite DEF Builder!Blocks, Builder!Sound
  <2>2. QED
    BY <2>1, FS_Subset
<1>2. \A i \in Builder!Blocks : /\ i \in BlockIds /\ i \in Nat
                                /\ block[i].day \in EventDays /\ block[i].start \in Nat
                                /\ block[i].sort \in Nat \ {0}
  BY <1>1 DEF Builder!TypeInv, Builder!TypeOK, Builder!Sound
<1>3. \A d : IsFiniteSet(Builder!On(d)) /\ Builder!On(d) \subseteq Builder!Blocks
  BY <1>1, FS_Subset DEF Builder!On
<1>4. ASSUME NEW d, NEW t PROVE Cardinality(Builder!Sooner(d, t)) \in Nat
  BY <1>3, FS_Subset, FS_CardinalityType DEF Builder!Sooner
<1>5. ASSUME NEW i \in Builder!Blocks PROVE Cardinality(Builder!Earlier(i)) \in Nat
  BY <1>3, FS_Subset, FS_CardinalityType DEF Builder!Earlier
<1>6. QED
  BY <1>2, <1>3, <1>4, <1>5

\* The blocks before a time are those before a block with an earlier one, those of
\* its time before it, itself, and maybe more.
LEMMA SoonerCount ==
  ASSUME Builder!Sound, Builder!TypeInv, NEW i \in Builder!Blocks, NEW t, block[i].start < t,
         t \in Nat
  PROVE  Cardinality(Builder!Sooner(block[i].day, block[i].start)) + Cardinality(Builder!Earlier(i)) + 1
           <= Cardinality(Builder!Sooner(block[i].day, t))
<1>1. PICK d : d = block[i].day
  OBVIOUS
<1>2. /\ \A j \in Builder!On(d) : block[j].start \in Nat /\ j \in Nat
      /\ block[i].start \in Nat /\ i \in Nat /\ IsFiniteSet(Builder!On(d)) /\ i \in Builder!On(d)
  BY <1>1, BlocksCount DEF Builder!On
<1>3. Builder!Sooner(d, block[i].start) \cup Builder!Earlier(i) \cup {i} \subseteq Builder!Sooner(d, t)
  BY <1>1, <1>2 DEF Builder!Sooner, Builder!Earlier
<1>4. Builder!Sooner(d, block[i].start) \cap Builder!Earlier(i) = {}
      /\ i \notin Builder!Sooner(d, block[i].start) \cup Builder!Earlier(i)
  BY <1>1, <1>2 DEF Builder!Sooner, Builder!Earlier
<1>5. IsFiniteSet(Builder!Sooner(d, t))
  BY <1>2, FS_Subset DEF Builder!Sooner
<1>6. QED
  BY <1>1, <1>3, <1>4, <1>5, CountBefore

\* The numbers that an addition gives to the blocks of its day are those of their times.
LEMMA NumberedIs ==
  ASSUME Builder!Sound, Builder!TypeInv, NEW d \in EventDays, NEW t \in Times,
         NEW own, own = Builder!Numbered(d, t).own, NEW others, others = Builder!Numbered(d, t).others
  PROVE  /\ own \in Nat \ {0} /\ others \in [Builder!On(d) -> Nat \ {0}]
         /\ \A i, j \in Builder!On(d) : block[i].start < block[j].start => others[i] < others[j]
         /\ \A i \in Builder!On(d) : /\ block[i].start < t => others[i] < own
                                     /\ t < block[i].start => own < others[i]
<1>1. /\ t \in Nat /\ Cardinality(Builder!Sooner(d, t)) \in Nat
      /\ own = Cardinality(Builder!Sooner(d, t)) + 1
  <2>1. t \in Nat
    BY DEF Builder!Sound
  <2>2. Cardinality(Builder!Sooner(d, t)) \in Nat
    BY BlocksCount
  <2>3. own = Cardinality(Builder!Sooner(d, t)) + 1
    BY BuilderCounts DEF Builder!Numbered
  <2>4. QED
    BY <2>1, <2>2, <2>3
<1>2. \A i \in Builder!On(d) :
        /\ i \in Builder!Blocks /\ block[i].day = d /\ block[i].start \in Nat
        /\ Cardinality(Builder!Sooner(d, block[i].start)) \in Nat /\ Cardinality(Builder!Earlier(i)) \in Nat
        /\ others[i] = Cardinality(Builder!Sooner(d, block[i].start)) + Cardinality(Builder!Earlier(i)) + 1
                         + IF t <= block[i].start THEN 1 ELSE 0
  <2>1. SUFFICES ASSUME NEW i \in Builder!On(d)
                 PROVE  /\ i \in Builder!Blocks /\ block[i].day = d /\ block[i].start \in Nat
                        /\ Cardinality(Builder!Sooner(d, block[i].start)) \in Nat
                        /\ Cardinality(Builder!Earlier(i)) \in Nat
                        /\ others[i] = Cardinality(Builder!Sooner(d, block[i].start))
                                         + Cardinality(Builder!Earlier(i)) + 1
                                         + IF t <= block[i].start THEN 1 ELSE 0
    OBVIOUS
  <2>2. i \in Builder!Blocks /\ block[i].day = d
    BY <2>1 DEF Builder!On
  <2>3. /\ block[i].start \in Nat /\ Cardinality(Builder!Earlier(i)) \in Nat
        /\ Cardinality(Builder!Sooner(d, block[i].start)) \in Nat
    BY <2>2, BlocksCount
  <2>4. others[i] = Cardinality(Builder!Sooner(d, block[i].start)) + Cardinality(Builder!Earlier(i)) + 1
                      + IF t <= block[i].start THEN 1 ELSE 0
    BY <2>1, BuilderCounts DEF Builder!Numbered
  <2>5. QED
    BY <2>2, <2>3, <2>4
<1>3. others \in [Builder!On(d) -> Nat \ {0}]
  <2>1. others = [i \in Builder!On(d) |-> others[i]]
    BY DEF Builder!Numbered
  <2>2. \A i \in Builder!On(d) : others[i] \in Nat \ {0}
    BY <1>1, <1>2
  <2>3. QED
    BY <2>1, <2>2
<1>4. ASSUME NEW i \in Builder!On(d), NEW j \in Builder!On(d), block[i].start < block[j].start
      PROVE  others[i] < others[j]
  <2>1. Cardinality(Builder!Sooner(d, block[i].start)) + Cardinality(Builder!Earlier(i)) + 1
          <= Cardinality(Builder!Sooner(d, block[j].start))
    BY <1>2, <1>4, SoonerCount
  <2>2. QED
    BY <1>1, <1>2, <1>4, <2>1
<1>5. ASSUME NEW i \in Builder!On(d), block[i].start < t PROVE others[i] < own
  <2>1. Cardinality(Builder!Sooner(d, block[i].start)) + Cardinality(Builder!Earlier(i)) + 1
          <= Cardinality(Builder!Sooner(d, t))
    BY <1>1, <1>2, <1>5, SoonerCount
  <2>2. QED
    BY <1>1, <1>2, <1>5, <2>1
<1>6. ASSUME NEW i \in Builder!On(d), t < block[i].start PROVE own < others[i]
  <2>1. \A j \in Builder!On(d) : block[j].start \in Nat
    BY <1>2
  <2>2. Builder!Sooner(d, t) \subseteq Builder!Sooner(d, block[i].start)
    BY <1>1, <1>2, <1>6, <2>1 DEF Builder!Sooner
  <2>3. IsFiniteSet(Builder!Sooner(d, block[i].start))
    BY BlocksCount, FS_Subset DEF Builder!Sooner
  <2>4. Cardinality(Builder!Sooner(d, t)) <= Cardinality(Builder!Sooner(d, block[i].start))
    BY <2>2, <2>3, FS_Subset
  <2>5. QED
    BY <1>1, <1>2, <1>6, <2>4
<1>7. QED
  BY <1>1, <1>3, <1>4, <1>5, <1>6

\* The blocks of a day stand in the order of their times.
ByTime(d) ==
  \A i, j \in Builder!On(d) : block[i].start < block[j].start => Builder!ShownBefore(i, j)

\* What a request in progress is, by its step.
LEMMA ScheduleRequest ==
  ASSUME NEW q, Builder!IsRequest(q), Builder!AboutInv(q)
  PROVE  /\ q.on \subseteq EventDays
         /\ q.pc \in {"none", "add", "update", "delete"}
         /\ q.pc = "add" => /\ q.day \in EventDays /\ q.on = {q.day} /\ q.start \in Times
                            /\ q.sorts.own \in Nat \ {0}
                            /\ DOMAIN q.sorts.others = DOMAIN q.read
                            /\ \A i \in DOMAIN q.read : /\ q.sorts.others[i] \in Nat \ {0}
                                                        /\ i \in BlockIds
         /\ q.pc = "update" => /\ q.id \in BlockIds /\ q.day \in EventDays /\ q.start \in Times
                               /\ q.moved => q.day \in q.on
         /\ q.pc = "delete" => q.id \in BlockIds
<1>1. CASE q = Builder!NoRequest
  BY <1>1 DEF Builder!NoRequest
<1>2. CASE q \in Builder!Deletions
  BY <1>2 DEF Builder!Deletions
<1>3. CASE q \in Builder!Updates
  BY <1>3 DEF Builder!Updates, Builder!AboutInv
<1>4. ASSUME NEW read \in SUBSET BlockIds, q \in Builder!Additions(read)
      PROVE  /\ q.on \subseteq EventDays /\ q.pc = "add" /\ q.day \in EventDays /\ q.on = {q.day}
             /\ q.start \in Times /\ q.sorts.own \in Nat \ {0}
             /\ DOMAIN q.sorts.others = DOMAIN q.read
             /\ \A i \in DOMAIN q.read : q.sorts.others[i] \in Nat \ {0} /\ i \in BlockIds
  <2>1. /\ q.on \subseteq EventDays /\ q.pc = "add" /\ q.day \in EventDays /\ q.start \in Times
        /\ q.sorts \in [own : Nat \ {0}, others : [read -> Nat \ {0}]] /\ q.read \in [read -> Nat \ {0}]
    BY <1>4 DEF Builder!Additions
  <2>2. q.on = {q.day}
    BY <2>1 DEF Builder!AboutInv
  <2>3. QED
    BY <2>1, <2>2
<1>5. QED
  BY <1>1, <1>2, <1>3, <1>4 DEF Builder!IsRequest

\* A request that begins overlaps those in progress on the days that it shares with them.
LEMMA ScheduleBegins ==
  ASSUME Builder!Sound, Builder!ScheduleInv, NEW p, Builder!IsRequest(p), Builder!AboutInv(p), Builder!AddInv(p),
         Builder!Begin(p), UNCHANGED <<block, changed>>
  PROVE  Builder!ScheduleInv'
<1>1. PICK r \in Builder!Slots :
        /\ req' = [req EXCEPT ![r] = p]
        /\ crossed' = crossed \cup (p.on \cap UNION {req[q].on : q \in Builder!Slots \ {r}})
  BY DEF Builder!Begin
<1>2. /\ DOMAIN req = Builder!Slots /\ Builder!TypeOK /\ DOMAIN block = BlockIds
      /\ \A s \in Builder!Slots : Builder!IsRequest(req[s]) /\ Builder!AboutInv(req[s])
  BY DEF Builder!ScheduleInv, Builder!TypeInv
<1>3. DOMAIN req' = Builder!Slots /\ \A s \in Builder!Slots : req'[s] = IF s = r THEN p ELSE req[s]
  BY <1>1, <1>2
<1>4. p.on \subseteq EventDays
  BY ScheduleRequest
<1>5. Builder!Blocks' = Builder!Blocks /\ \A d : Builder!On(d)' = Builder!On(d)
  BY DEF Builder!Blocks, Builder!On
<1>6. Builder!TypeOK'
  <2>1. begun' \in 0..MaxRequests
    BY <1>2 DEF Builder!Begin, Builder!TypeOK, Builder!Sound
  <2>2. crossed' \subseteq EventDays /\ changed' \subseteq EventDays
    BY <1>1, <1>2, <1>4 DEF Builder!TypeOK
  <2>3. \A i \in Builder!Blocks' :
          block'[i] \in [day : EventDays, start : Times, sort : Nat \ {0}]
    BY <1>2, <1>5 DEF Builder!TypeOK
  <2>4. QED
    BY <2>1, <2>2, <2>3 DEF Builder!TypeOK
<1>7. Builder!TypeInv'
  <2>1. \A s \in Builder!Slots : Builder!IsRequest(req'[s]) /\ Builder!AboutInv(req'[s])
    BY <1>2, <1>3
  <2>2. QED
    BY <1>2, <1>3, <1>6, <2>1 DEF Builder!TypeInv
<1>8. Builder!LoneInv'
  <2>1. \A s \in Builder!Slots : s # r => p.on \cap req[s].on \subseteq crossed'
    BY <1>1
  <2>2. \A s, u \in Builder!Slots : s # u => req[s].on \cap req[u].on \subseteq crossed'
    BY <1>1 DEF Builder!ScheduleInv, Builder!LoneInv
  <2>3. \A s, u \in Builder!Slots : s # u => req'[s].on \cap req'[u].on \subseteq crossed'
    BY <1>3, <2>1, <2>2
  <2>4. QED
    BY <2>3 DEF Builder!LoneInv
<1>9. ASSUME NEW s \in Builder!Slots PROVE Builder!AddInv(req[s])'
  <2>1. PICK q : q = req'[s]
    OBVIOUS
  <2>2. Builder!AddInv(q)
    BY <1>3, <2>1 DEF Builder!ScheduleInv
  <2>3. q.day \notin crossed' => q.day \notin crossed
    BY <1>1
  <2>4. QED
    BY <1>5, <2>1, <2>2, <2>3 DEF Builder!AddInv
<1>10. Builder!ScheduleIsInOrder'
  <2>1. \A d \in EventDays \ (changed' \cup crossed') : d \in EventDays \ (changed \cup crossed)
    BY <1>1
  <2>2. \A d \in EventDays \ (changed \cup crossed) : \A i, j \in Builder!On(d) :
          block[i].start < block[j].start => Builder!ShownBefore(i, j)
    BY DEF Builder!ScheduleInv, Builder!ScheduleIsInOrder
  <2>3. \A i, j : Builder!ShownBefore(i, j)' <=> Builder!ShownBefore(i, j)
    BY DEF Builder!ShownBefore
  <2>4. QED
    BY <1>5, <1>6, <2>1, <2>2, <2>3 DEF Builder!ScheduleIsInOrder
<1>11. QED
  BY <1>7, <1>8, <1>9, <1>10 DEF Builder!ScheduleInv

\* A commit keeps the order if it keeps the days that it is not about, and sorts those
\* it is about or counts them as changed or crossed.
LEMMA ScheduleEnds ==
  ASSUME Builder!ScheduleInv, NEW r \in Builder!Slots, NEW q, q = req[r], Builder!End(r),
         Builder!TypeOK', DOMAIN block' = BlockIds, crossed \subseteq crossed',
         changed \ changed' \subseteq q.on,
         \A d \in EventDays \ (q.on \cup crossed') :
           Builder!On(d)' = Builder!On(d) /\ \A i \in Builder!On(d) : block'[i] = block[i],
         \A d \in q.on \ (changed' \cup crossed') : ByTime(d)'
  PROVE  Builder!ScheduleInv'
<1>1. /\ DOMAIN req = Builder!Slots
      /\ \A s \in Builder!Slots : Builder!IsRequest(req[s]) /\ Builder!AboutInv(req[s])
  BY DEF Builder!ScheduleInv, Builder!TypeInv
<1>2. /\ DOMAIN req' = Builder!Slots
      /\ \A s \in Builder!Slots : req'[s] = IF s = r THEN Builder!NoRequest ELSE req[s]
  BY <1>1 DEF Builder!End
<1>3. /\ Builder!NoRequest.pc = "none" /\ Builder!NoRequest.on = {}
      /\ Builder!IsRequest(Builder!NoRequest) /\ Builder!AboutInv(Builder!NoRequest)
  BY DEF Builder!NoRequest, Builder!IsRequest, Builder!AboutInv
<1>4. Builder!TypeInv'
  <2>1. \A s \in Builder!Slots : Builder!IsRequest(req'[s]) /\ Builder!AboutInv(req'[s])
    BY <1>1, <1>2, <1>3
  <2>2. QED
    BY <1>2, <2>1 DEF Builder!TypeInv
<1>5. Builder!LoneInv'
  <2>1. \A s, u \in Builder!Slots : s # u => req[s].on \cap req[u].on \subseteq crossed'
    BY DEF Builder!ScheduleInv, Builder!LoneInv
  <2>2. \A s, u \in Builder!Slots : s # u => req'[s].on \cap req'[u].on \subseteq crossed'
    BY <1>2, <1>3, <2>1
  <2>3. QED
    BY <2>2 DEF Builder!LoneInv
<1>6. ASSUME NEW s \in Builder!Slots PROVE Builder!AddInv(req[s])'
  <2>1. CASE s = r
    BY <1>2, <1>3, <2>1 DEF Builder!AddInv
  <2>2. CASE s # r
    <3>1. PICK p : p = req[s] /\ p = req'[s]
      BY <1>2, <2>2
    <3>2. SUFFICES ASSUME p.pc = "add", p.day \notin crossed' PROVE Builder!AddInv(p)'
      BY <3>1 DEF Builder!AddInv
    <3>3. p.day \in EventDays /\ p.on = {p.day}
      BY <1>1, <3>1, <3>2, ScheduleRequest
    <3>4. p.day \notin q.on
      BY <2>2, <3>1, <3>2, <3>3 DEF Builder!ScheduleInv, Builder!LoneInv
    <3>5. /\ Builder!On(p.day)' = Builder!On(p.day)
          /\ \A i \in Builder!On(p.day) : block'[i] = block[i]
      BY <3>2, <3>3, <3>4
    <3>6. Builder!AddInv(p)
      BY <3>1 DEF Builder!ScheduleInv
    <3>7. QED
      BY <3>2, <3>5, <3>6 DEF Builder!AddInv
  <2>3. QED
    BY <2>1, <2>2
<1>7. Builder!ScheduleIsInOrder'
  <2>1. ASSUME NEW d \in EventDays \ (changed' \cup crossed') PROVE ByTime(d)'
    <3>1. CASE d \in q.on
      BY <2>1, <3>1
    <3>2. CASE d \notin q.on
      <4>1. Builder!On(d)' = Builder!On(d) /\ \A i \in Builder!On(d) : block'[i] = block[i]
        BY <2>1, <3>2
      <4>2. d \in EventDays \ (changed \cup crossed)
        BY <2>1, <3>2
      <4>3. ByTime(d)
        BY <4>2 DEF Builder!ScheduleInv, Builder!ScheduleIsInOrder, ByTime
      <4>4. QED
        BY <4>1, <4>3 DEF ByTime, Builder!ShownBefore
    <3>3. QED
      BY <3>1, <3>2
  <2>2. QED
    BY <2>1 DEF Builder!ScheduleIsInOrder, ByTime
<1>8. QED
  BY <1>4, <1>5, <1>6, <1>7 DEF Builder!ScheduleInv

\* What the commits about a block cross: its day, unless they are about it.
LEMMA StrayedIs ==
  ASSUME NEW q, NEW ids, Builder!TypeOK, DOMAIN block = BlockIds, q.on \subseteq EventDays
  PROVE  /\ Builder!Strayed(q, ids) \subseteq EventDays
         /\ \A i \in ids \cap Builder!Blocks :
              block[i].day \in q.on \/ block[i].day \in Builder!Strayed(q, ids)
<1>1. \A i \in Builder!Blocks : block[i].day \in EventDays
  BY DEF Builder!TypeOK
<1>2. QED
  BY <1>1 DEF Builder!Strayed

\* What has a number is a block.
LEMMA NumberedBlock ==
  ASSUME NEW b, b.sort # 0
  PROVE  b # Builder!NoBlock
BY DEF Builder!NoBlock

LEMMA CommitAddInv ==
  ASSUME Builder!Sound, Builder!ScheduleInv, NEW r \in Builder!Slots, Builder!CommitAdd(r)
  PROVE  Builder!ScheduleInv'
<1>1. PICK q : q = req[r]
  OBVIOUS
<1>2. /\ Builder!TypeOK /\ DOMAIN block = BlockIds /\ Builder!IsRequest(q) /\ Builder!AboutInv(q)
      /\ Builder!AddInv(q)
  BY <1>1 DEF Builder!ScheduleInv, Builder!TypeInv
<1>3. PICK ids : ids = Builder!Renumbered(q)
  OBVIOUS
<1>4. PICK new \in BlockIds \ Builder!Blocks :
        block' = [i \in BlockIds |->
          CASE i = new -> [day |-> q.day, start |-> q.start, sort |-> q.sorts.own]
            [] i \in ids -> [block[i] EXCEPT !.sort = q.sorts.others[i]]
            [] OTHER -> block[i]]
  BY <1>1, <1>3 DEF Builder!CommitAdd
<1>5. /\ q.pc = "add" /\ ids \subseteq Builder!Blocks /\ changed' = changed \ {q.day}
      /\ crossed' = crossed \cup Builder!Strayed(q, ids) /\ Builder!End(r) /\ UNCHANGED begun
  BY <1>1, <1>3 DEF Builder!CommitAdd
<1>6. /\ q.on \subseteq EventDays /\ q.day \in EventDays /\ q.on = {q.day} /\ q.start \in Times
      /\ q.sorts.own \in Nat \ {0} /\ DOMAIN q.sorts.others = DOMAIN q.read
      /\ \A i \in DOMAIN q.read : q.sorts.others[i] \in Nat \ {0}
  BY <1>2, <1>5, ScheduleRequest
<1>7. /\ Builder!Strayed(q, ids) \subseteq EventDays
      /\ \A i \in ids : block[i].day \in q.on \/ block[i].day \in Builder!Strayed(q, ids)
  BY <1>2, <1>5, <1>6, StrayedIs
<1>8. /\ \A i \in ids : i \in DOMAIN q.read /\ q.sorts.others[i] # q.read[i]
      /\ \A i \in DOMAIN q.read \ ids : q.sorts.others[i] = q.read[i]
  BY <1>3, <1>6 DEF Builder!Renumbered
<1>9. \A i \in Builder!Blocks :
        /\ i \in BlockIds /\ i # new /\ block[i] \in [day : EventDays, start : Times, sort : Nat \ {0}]
  BY <1>2, <1>4 DEF Builder!TypeOK, Builder!Blocks
<1>10. /\ block'[new] = [day |-> q.day, start |-> q.start, sort |-> q.sorts.own]
       /\ \A i \in ids : block'[i] = [block[i] EXCEPT !.sort = q.sorts.others[i]]
       /\ \A i \in BlockIds \ (ids \cup {new}) : block'[i] = block[i]
  BY <1>4, <1>5, <1>9
<1>11. \A i \in ids : /\ block'[i].day = block[i].day /\ block'[i].start = block[i].start
                      /\ block'[i].sort = q.sorts.others[i] /\ i \in Builder!Blocks
                      /\ block'[i] \in [day : EventDays, start : Times, sort : Nat \ {0}]
  <2>1. SUFFICES ASSUME NEW i \in ids
                 PROVE  /\ block'[i].day = block[i].day /\ block'[i].start = block[i].start
                        /\ block'[i].sort = q.sorts.others[i] /\ i \in Builder!Blocks
                        /\ block'[i] \in [day : EventDays, start : Times, sort : Nat \ {0}]
    OBVIOUS
  <2>2. PICK b, n : b = block[i] /\ n = q.sorts.others[i]
    OBVIOUS
  <2>3. /\ b \in [day : EventDays, start : Times, sort : Nat \ {0}] /\ i \in Builder!Blocks
        /\ n \in Nat \ {0} /\ block'[i] = [b EXCEPT !.sort = n]
    BY <1>5, <1>6, <1>8, <1>9, <1>10, <2>1, <2>2
  <2>4. /\ block'[i].day = b.day /\ block'[i].start = b.start /\ block'[i].sort = n
        /\ block'[i] \in [day : EventDays, start : Times, sort : Nat \ {0}]
    BY <2>3
  <2>5. QED
    BY <2>2, <2>3, <2>4
<1>12. /\ block'[new].day = q.day /\ block'[new].start = q.start /\ block'[new].sort = q.sorts.own
       /\ block'[new] \in [day : EventDays, start : Times, sort : Nat \ {0}]
  BY <1>6, <1>10
<1>13. Builder!Blocks' = Builder!Blocks \cup {new}
  <2>1. \A i \in BlockIds : block'[i] # Builder!NoBlock <=> i = new \/ block[i] # Builder!NoBlock
    <3>1. block'[new] # Builder!NoBlock
      BY <1>6, <1>12, NumberedBlock
    <3>2. \A i \in ids : block'[i] # Builder!NoBlock /\ block[i] # Builder!NoBlock
      BY <1>6, <1>8, <1>11, NumberedBlock DEF Builder!Blocks
    <3>3. QED
      BY <1>10, <3>1, <3>2
  <2>2. QED
    BY <1>4, <2>1 DEF Builder!Blocks
<1>14. Builder!TypeOK'
  <2>1. \A i \in Builder!Blocks' : block'[i] \in [day : EventDays, start : Times, sort : Nat \ {0}]
    BY <1>9, <1>10, <1>11, <1>12, <1>13
  <2>2. begun' \in 0..MaxRequests /\ changed' \subseteq EventDays /\ crossed' \subseteq EventDays
    BY <1>2, <1>5, <1>7 DEF Builder!TypeOK
  <2>3. QED
    BY <2>1, <2>2 DEF Builder!TypeOK
<1>15. ASSUME NEW d \in EventDays \ (q.on \cup crossed')
       PROVE  Builder!On(d)' = Builder!On(d) /\ \A i \in Builder!On(d) : block'[i] = block[i]
  <2>1. \A i \in ids : block[i].day # d /\ block'[i].day # d
    BY <1>5, <1>7, <1>11, <1>15
  <2>2. block'[new].day # d
    BY <1>6, <1>12, <1>15
  <2>3. \A i \in Builder!Blocks \ ids : block'[i] = block[i]
    BY <1>9, <1>10
  <2>4. QED
    BY <1>13, <2>1, <2>2, <2>3 DEF Builder!On
<1>16. ASSUME NEW d \in q.on \ (changed' \cup crossed') PROVE ByTime(d)'
  <2>1. d = q.day /\ q.day \notin crossed
    BY <1>5, <1>6, <1>16
  <2>2. /\ DOMAIN q.read = Builder!On(d)
        /\ \A i \in Builder!On(d) : q.read[i] = block[i].sort
        /\ \A i, j \in Builder!On(d) :
             block[i].start < block[j].start => q.sorts.others[i] < q.sorts.others[j]
        /\ \A i \in Builder!On(d) : /\ block[i].start < q.start => q.sorts.others[i] < q.sorts.own
                                    /\ q.start < block[i].start => q.sorts.own < q.sorts.others[i]
    BY <1>2, <1>5, <2>1 DEF Builder!AddInv
  <2>3. \A i \in Builder!On(d) : block'[i].sort = q.sorts.others[i] /\ block'[i].start = block[i].start
    <3>1. \A i \in Builder!On(d) \ ids : q.sorts.others[i] = block[i].sort /\ block'[i] = block[i]
      BY <1>8, <1>9, <1>10, <2>2 DEF Builder!On
    <3>2. QED
      BY <1>11, <2>2, <3>1
  <2>4. Builder!On(d)' \subseteq Builder!On(d) \cup {new}
    <3>1. \A i \in Builder!Blocks : block'[i].day = block[i].day
      BY <1>9, <1>10, <1>11
    <3>2. QED
      BY <1>13, <3>1 DEF Builder!On
  <2>5. q.start \in Nat
    BY <1>6 DEF Builder!Sound
  <2>6. ASSUME NEW i \in Builder!On(d)', NEW j \in Builder!On(d)', block'[i].start < block'[j].start
        PROVE  block'[i].sort < block'[j].sort
    <3>1. CASE i # new /\ j # new
      BY <2>2, <2>3, <2>4, <2>6, <3>1
    <3>2. CASE i = new /\ j # new
      BY <1>12, <2>2, <2>3, <2>4, <2>6, <3>2
    <3>3. CASE i # new /\ j = new
      BY <1>12, <2>2, <2>3, <2>4, <2>6, <3>3
    <3>4. CASE i = new /\ j = new
      BY <1>12, <2>5, <2>6, <3>4
    <3>5. QED
      BY <3>1, <3>2, <3>3, <3>4
  <2>7. QED
    BY <2>6 DEF ByTime, Builder!ShownBefore
<1>17. crossed \subseteq crossed' /\ changed \ changed' \subseteq q.on
  BY <1>5, <1>6
<1>18. DOMAIN block' = BlockIds
  BY <1>4
<1>19. QED
  BY <1>1, <1>2, <1>5, <1>14, <1>15, <1>16, <1>17, <1>18, ScheduleEnds

LEMMA FailAddInv ==
  ASSUME Builder!ScheduleInv, NEW r \in Builder!Slots, Builder!FailAdd(r)
  PROVE  Builder!ScheduleInv'
<1>1. PICK q : q = req[r]
  OBVIOUS
<1>2. Builder!End(r) /\ UNCHANGED <<block, begun, changed, crossed>>
  BY DEF Builder!FailAdd
<1>3. Builder!TypeOK /\ DOMAIN block = BlockIds /\ Builder!IsRequest(q) /\ Builder!AboutInv(q)
  BY <1>1 DEF Builder!ScheduleInv, Builder!TypeInv
<1>4. q.on \subseteq EventDays
  BY <1>3, ScheduleRequest
<1>5. Builder!Blocks' = Builder!Blocks /\ \A d : Builder!On(d)' = Builder!On(d)
  BY <1>2 DEF Builder!Blocks, Builder!On
<1>6. Builder!TypeOK'
  BY <1>2, <1>3, <1>5 DEF Builder!TypeOK
<1>7. ASSUME NEW d \in q.on \ (changed' \cup crossed') PROVE ByTime(d)'
  <2>1. ByTime(d)
    BY <1>2, <1>4, <1>7 DEF Builder!ScheduleInv, Builder!ScheduleIsInOrder, ByTime
  <2>2. QED
    BY <1>2, <1>5, <2>1 DEF ByTime, Builder!ShownBefore
<1>8. QED
  BY <1>1, <1>2, <1>3, <1>5, <1>6, <1>7, ScheduleEnds

LEMMA CommitUpdateInv ==
  ASSUME Builder!ScheduleInv, NEW r \in Builder!Slots, Builder!CommitUpdate(r)
  PROVE  Builder!ScheduleInv'
<1>1. PICK q : q = req[r]
  OBVIOUS
<1>2. Builder!TypeOK /\ DOMAIN block = BlockIds /\ Builder!IsRequest(q) /\ Builder!AboutInv(q)
  BY <1>1 DEF Builder!ScheduleInv, Builder!TypeInv
<1>3. q.pc = "update" /\ Builder!End(r) /\ UNCHANGED begun
  BY <1>1 DEF Builder!CommitUpdate
<1>4. /\ q.on \subseteq EventDays /\ q.id \in BlockIds /\ q.day \in EventDays /\ q.start \in Times
      /\ q.moved => q.day \in q.on
  BY <1>2, <1>3, ScheduleRequest
<1>5. CASE q.id \notin Builder!Blocks
  <2>1. UNCHANGED <<block, changed, crossed>>
    BY <1>1, <1>5 DEF Builder!CommitUpdate
  <2>2. Builder!Blocks' = Builder!Blocks /\ \A d : Builder!On(d)' = Builder!On(d)
    BY <2>1 DEF Builder!Blocks, Builder!On
  <2>3. Builder!TypeOK'
    BY <1>2, <1>3, <2>1, <2>2 DEF Builder!TypeOK
  <2>4. ASSUME NEW d \in q.on \ (changed' \cup crossed') PROVE ByTime(d)'
    <3>1. ByTime(d)
      BY <1>4, <2>1, <2>4 DEF Builder!ScheduleInv, Builder!ScheduleIsInOrder, ByTime
    <3>2. QED
      BY <2>1, <2>2, <3>1 DEF ByTime, Builder!ShownBefore
  <2>5. QED
    BY <1>1, <1>2, <1>3, <2>1, <2>2, <2>3, <2>4, ScheduleEnds
<1>6. CASE q.id \in Builder!Blocks
  <2>1. /\ changed' = changed \cup q.on /\ crossed' = crossed \cup Builder!Strayed(q, {q.id})
        /\ block' = [block EXCEPT ![q.id] =
             [day |-> IF q.moved THEN q.day ELSE @.day,
              start |-> IF q.shifted THEN q.start ELSE @.start, sort |-> @.sort]]
    BY <1>1, <1>6 DEF Builder!CommitUpdate
  <2>2. /\ Builder!Strayed(q, {q.id}) \subseteq EventDays
        /\ block[q.id].day \in q.on \/ block[q.id].day \in Builder!Strayed(q, {q.id})
    BY <1>2, <1>4, <1>6, StrayedIs
  <2>3. \A i \in Builder!Blocks :
          i \in BlockIds /\ block[i] \in [day : EventDays, start : Times, sort : Nat \ {0}]
    BY <1>2 DEF Builder!TypeOK, Builder!Blocks
  <2>4. PICK b : b = [day |-> IF q.moved THEN q.day ELSE block[q.id].day,
                      start |-> IF q.shifted THEN q.start ELSE block[q.id].start,
                      sort |-> block[q.id].sort]
    OBVIOUS
  <2>5. DOMAIN block' = BlockIds /\ \A i \in BlockIds : block'[i] = IF i = q.id THEN b ELSE block[i]
    BY <1>2, <1>4, <2>1, <2>4
  <2>6. /\ b \in [day : EventDays, start : Times, sort : Nat \ {0}]
        /\ b.day = IF q.moved THEN q.day ELSE block[q.id].day
    BY <1>4, <1>6, <2>3, <2>4
  <2>7. Builder!Blocks' = Builder!Blocks
    <3>1. b # Builder!NoBlock
      BY <2>6, NumberedBlock
    <3>2. QED
      BY <1>4, <1>6, <2>5, <3>1 DEF Builder!Blocks
  <2>8. Builder!TypeOK'
    <3>1. \A i \in Builder!Blocks' : block'[i] \in [day : EventDays, start : Times, sort : Nat \ {0}]
      BY <2>3, <2>5, <2>6, <2>7
    <3>2. begun' \in 0..MaxRequests /\ changed' \subseteq EventDays /\ crossed' \subseteq EventDays
      BY <1>2, <1>3, <1>4, <2>1, <2>2 DEF Builder!TypeOK
    <3>3. QED
      BY <3>1, <3>2 DEF Builder!TypeOK
  <2>9. ASSUME NEW d \in EventDays \ (q.on \cup crossed')
        PROVE  Builder!On(d)' = Builder!On(d) /\ \A i \in Builder!On(d) : block'[i] = block[i]
    <3>1. block[q.id].day # d /\ b.day # d
      BY <1>4, <2>1, <2>2, <2>6, <2>9
    <3>2. \A i \in Builder!Blocks : block'[i] = IF i = q.id THEN b ELSE block[i]
      BY <2>3, <2>5
    <3>3. QED
      BY <2>7, <3>1, <3>2 DEF Builder!On
  <2>10. crossed \subseteq crossed' /\ changed \ changed' \subseteq q.on /\ q.on \ (changed' \cup crossed') = {}
    BY <2>1
  <2>11. QED
    BY <1>1, <1>3, <2>5, <2>8, <2>9, <2>10, ScheduleEnds
<1>7. QED
  BY <1>5, <1>6

LEMMA CommitDeleteInv ==
  ASSUME Builder!ScheduleInv, NEW r \in Builder!Slots, Builder!CommitDelete(r)
  PROVE  Builder!ScheduleInv'
<1>1. PICK q : q = req[r]
  OBVIOUS
<1>2. Builder!TypeOK /\ DOMAIN block = BlockIds /\ Builder!IsRequest(q) /\ Builder!AboutInv(q)
  BY <1>1 DEF Builder!ScheduleInv, Builder!TypeInv
<1>3. /\ q.pc = "delete" /\ Builder!End(r) /\ UNCHANGED <<begun, changed>>
      /\ crossed' = crossed \cup Builder!Strayed(q, {q.id})
      /\ block' = [block EXCEPT ![q.id] = Builder!NoBlock]
  BY <1>1 DEF Builder!CommitDelete
<1>4. q.on \subseteq EventDays /\ q.id \in BlockIds
  BY <1>2, <1>3, ScheduleRequest
<1>5. /\ Builder!Strayed(q, {q.id}) \subseteq EventDays
      /\ q.id \in Builder!Blocks =>
           block[q.id].day \in q.on \/ block[q.id].day \in Builder!Strayed(q, {q.id})
  BY <1>2, <1>4, StrayedIs
<1>6. DOMAIN block' = BlockIds
      /\ \A i \in BlockIds : block'[i] = IF i = q.id THEN Builder!NoBlock ELSE block[i]
  BY <1>2, <1>3, <1>4
<1>7. Builder!Blocks' = Builder!Blocks \ {q.id} /\ Builder!Blocks \subseteq BlockIds
  BY <1>6 DEF Builder!Blocks
<1>8. \A i \in Builder!Blocks' : block'[i] = block[i] /\ i \in Builder!Blocks
  BY <1>6, <1>7
<1>9. Builder!TypeOK'
  <2>1. \A i \in Builder!Blocks' : block'[i] \in [day : EventDays, start : Times, sort : Nat \ {0}]
    BY <1>2, <1>8 DEF Builder!TypeOK
  <2>2. begun' \in 0..MaxRequests /\ changed' \subseteq EventDays /\ crossed' \subseteq EventDays
    BY <1>2, <1>3, <1>5 DEF Builder!TypeOK
  <2>3. QED
    BY <2>1, <2>2 DEF Builder!TypeOK
<1>10. \A d : Builder!On(d)' = Builder!On(d) \ {q.id}
  BY <1>7, <1>8 DEF Builder!On
<1>11. ASSUME NEW d \in EventDays \ (q.on \cup crossed')
       PROVE  Builder!On(d)' = Builder!On(d) /\ \A i \in Builder!On(d) : block'[i] = block[i]
  <2>1. q.id \notin Builder!On(d)
    BY <1>3, <1>5, <1>11 DEF Builder!On
  <2>2. \A i \in Builder!On(d) : i \in Builder!Blocks
    BY DEF Builder!On
  <2>3. QED
    BY <1>7, <1>8, <1>10, <2>1, <2>2
<1>12. ASSUME NEW d \in q.on \ (changed' \cup crossed') PROVE ByTime(d)'
  <2>1. ByTime(d)
    BY <1>3, <1>4, <1>12 DEF Builder!ScheduleInv, Builder!ScheduleIsInOrder, ByTime
  <2>2. \A i \in Builder!On(d)' : i \in Builder!On(d) /\ block'[i] = block[i]
    BY <1>8, <1>10 DEF Builder!On
  <2>3. QED
    BY <2>1, <2>2 DEF ByTime, Builder!ShownBefore
<1>13. crossed \subseteq crossed' /\ changed \ changed' \subseteq q.on
  BY <1>3
<1>14. QED
  BY <1>1, <1>3, <1>6, <1>9, <1>11, <1>12, <1>13, ScheduleEnds

LEMMA AddBegins ==
  ASSUME Builder!Sound, Builder!ScheduleInv, NEW d \in EventDays, NEW t \in Times, Builder!Add(d, t)
  PROVE  Builder!ScheduleInv'
<1>1. PICK sorts, read : sorts = Builder!Numbered(d, t) /\ read = [i \in Builder!On(d) |-> block[i].sort]
  OBVIOUS
<1>2. PICK own, others : own = sorts.own /\ others = sorts.others
  OBVIOUS
<1>3. sorts = [own |-> own, others |-> others]
  BY <1>1, <1>2 DEF Builder!Numbered
<1>4. PICK p : p = [pc |-> "add", on |-> {d}, day |-> d, start |-> t, sorts |-> sorts, read |-> read]
  OBVIOUS
<1>5. Builder!Begin(p) /\ UNCHANGED <<block, changed>>
  BY <1>1, <1>4 DEF Builder!Add
<1>6. Builder!TypeInv
  BY DEF Builder!ScheduleInv
<1>7. /\ own \in Nat \ {0} /\ others \in [Builder!On(d) -> Nat \ {0}]
      /\ \A i, j \in Builder!On(d) : block[i].start < block[j].start => others[i] < others[j]
      /\ \A i \in Builder!On(d) : /\ block[i].start < t => others[i] < own
                                  /\ t < block[i].start => own < others[i]
  BY <1>1, <1>2, <1>6, NumberedIs
<1>8. \A i \in Builder!On(d) : i \in BlockIds /\ block[i].sort \in Nat \ {0}
  BY <1>6, BlocksCount DEF Builder!On
<1>9. read \in [Builder!On(d) -> Nat \ {0}] /\ Builder!On(d) \in SUBSET BlockIds
  BY <1>1, <1>8
<1>10. /\ p.pc = "add" /\ p.on = {d} /\ p.day = d /\ p.start = t /\ p.sorts.own = own
       /\ p.sorts.others = others /\ p.read = read
  BY <1>3, <1>4
<1>11. Builder!IsRequest(p)
  <2>1. sorts \in [own : Nat \ {0}, others : [Builder!On(d) -> Nat \ {0}]]
    BY <1>3, <1>7
  <2>2. p \in Builder!Additions(Builder!On(d))
    BY <1>4, <1>9, <2>1 DEF Builder!Additions
  <2>3. QED
    BY <1>9, <2>2 DEF Builder!IsRequest
<1>12. Builder!AboutInv(p)
  BY <1>10 DEF Builder!AboutInv
<1>13. Builder!AddInv(p)
  <2>1. DOMAIN read = Builder!On(d) /\ \A i \in Builder!On(d) : read[i] = block[i].sort
    BY <1>1
  <2>2. QED
    BY <1>7, <1>10, <2>1 DEF Builder!AddInv
<1>14. QED
  BY <1>5, <1>11, <1>12, <1>13, ScheduleBegins

LEMMA UpdateBegins ==
  ASSUME Builder!Sound, Builder!ScheduleInv, NEW i \in BlockIds, NEW d \in EventDays, NEW t \in Times,
         Builder!Update(i, d, t)
  PROVE  Builder!ScheduleInv'
<1>1. PICK p : p = [pc |-> "update", on |-> {d, block[i].day}, id |-> i, day |-> d, start |-> t,
                    moved |-> d # block[i].day, shifted |-> t # block[i].start]
  OBVIOUS
<1>2. Builder!Begin(p) /\ i \in Builder!Blocks /\ UNCHANGED <<block, changed>>
  BY <1>1 DEF Builder!Update
<1>3. block[i].day \in EventDays
  BY <1>2 DEF Builder!ScheduleInv, Builder!TypeInv, Builder!TypeOK
<1>4. Builder!IsRequest(p)
  <2>1. p \in Builder!Updates
    BY <1>1, <1>3 DEF Builder!Updates
  <2>2. QED
    BY <2>1 DEF Builder!IsRequest
<1>5. p.pc = "update" /\ p.day \in p.on
  BY <1>1
<1>6. Builder!AboutInv(p) /\ Builder!AddInv(p)
  BY <1>5 DEF Builder!AboutInv, Builder!AddInv
<1>7. QED
  BY <1>2, <1>4, <1>6, ScheduleBegins

LEMMA DeleteBegins ==
  ASSUME Builder!Sound, Builder!ScheduleInv, NEW i \in BlockIds, Builder!Delete(i)
  PROVE  Builder!ScheduleInv'
<1>1. PICK p : p = [pc |-> "delete", on |-> {block[i].day}, id |-> i]
  OBVIOUS
<1>2. Builder!Begin(p) /\ i \in Builder!Blocks /\ UNCHANGED <<block, changed>>
  BY <1>1 DEF Builder!Delete
<1>3. block[i].day \in EventDays
  BY <1>2 DEF Builder!ScheduleInv, Builder!TypeInv, Builder!TypeOK
<1>4. Builder!IsRequest(p) /\ p.pc = "delete"
  <2>1. p \in Builder!Deletions /\ p.pc = "delete"
    BY <1>1, <1>3 DEF Builder!Deletions
  <2>2. QED
    BY <2>1 DEF Builder!IsRequest
<1>5. Builder!AboutInv(p) /\ Builder!AddInv(p)
  BY <1>4 DEF Builder!AboutInv, Builder!AddInv
<1>6. QED
  BY <1>2, <1>4, <1>5, ScheduleBegins

LEMMA ScheduleSteps ==
  Builder!Sound /\ Builder!ScheduleInv /\ [Builder!Next]_(Builder!vars) => Builder!ScheduleInv'
<1> SUFFICES ASSUME Builder!Sound, Builder!ScheduleInv, [Builder!Next]_(Builder!vars)
             PROVE  Builder!ScheduleInv'
  OBVIOUS
<1>1. ASSUME NEW d \in EventDays, NEW t \in Times, Builder!Add(d, t) PROVE Builder!ScheduleInv'
  BY <1>1, AddBegins
<1>2. ASSUME NEW i \in BlockIds, NEW d \in EventDays, NEW t \in Times, Builder!Update(i, d, t)
      PROVE  Builder!ScheduleInv'
  BY <1>2, UpdateBegins
<1>3. ASSUME NEW i \in BlockIds, Builder!Delete(i) PROVE Builder!ScheduleInv'
  BY <1>3, DeleteBegins
<1>4. ASSUME NEW r \in Builder!Slots,
             Builder!CommitAdd(r) \/ Builder!FailAdd(r) \/ Builder!CommitUpdate(r) \/ Builder!CommitDelete(r)
      PROVE  Builder!ScheduleInv'
  BY <1>4, CommitAddInv, FailAddInv, CommitUpdateInv, CommitDeleteInv
<1>5. CASE UNCHANGED Builder!vars
  <2>1. UNCHANGED <<block, req, begun, changed, crossed>>
    BY <1>5 DEF Builder!vars
  <2>2. Builder!Blocks' = Builder!Blocks /\ \A d : Builder!On(d)' = Builder!On(d)
    BY <2>1 DEF Builder!Blocks, Builder!On
  <2>3. Builder!TypeInv' /\ Builder!LoneInv'
    BY <2>1, <2>2 DEF Builder!ScheduleInv, Builder!TypeInv, Builder!TypeOK, Builder!LoneInv
  <2>4. \A r \in Builder!Slots : Builder!AddInv(req[r])'
    BY <2>1, <2>2 DEF Builder!ScheduleInv, Builder!AddInv
  <2>5. Builder!ScheduleIsInOrder'
    BY <2>1, <2>2, <2>3
       DEF Builder!ScheduleInv, Builder!TypeInv, Builder!ScheduleIsInOrder, Builder!ShownBefore
  <2>6. QED
    BY <2>3, <2>4, <2>5 DEF Builder!ScheduleInv
<1>6. QED
  BY <1>1, <1>2, <1>3, <1>4, <1>5 DEF Builder!Next

(***************************************************************************)
(* However many blocks, days, times and requests at once there are: the    *)
(* builder shows a day by its times, unless one of its blocks was changed  *)
(* since the last was added, or requests about it overlapped.              *)
(***************************************************************************)
THEOREM ScheduleIsInOrderCorrect == EventsSpec => []ScheduleIsInOrder
<1> DEFINE IInv == page = "schedule" => Builder!ScheduleInv
<1>1. EventsInit => IInv
  BY OnlySchedule, ScheduleAssumption, ScheduleInit
<1>2. IInv /\ [EventsNext]_allVars => IInv'
  <2> SUFFICES ASSUME page = "schedule", Builder!ScheduleInv, [EventsNext]_allVars
               PROVE  Builder!ScheduleInv'
    BY PageKept
  <2>1. [Builder!Next]_(Builder!vars)
    BY OnlyScheduleSteps
  <2>2. QED
    BY <2>1, ScheduleAssumption, ScheduleSteps
<1>3. IInv => ScheduleIsInOrder
  BY DEF Builder!ScheduleInv, ScheduleIsInOrder
<1>4. QED
  BY <1>1, <1>2, <1>3, PTL DEF EventsSpec

-----------------------------------------------------------------------------
(***************************************************************************)
(* Lemmas on what is dealt in turn: each gets the same, or one more.       *)
(***************************************************************************)
LEMMA Remainder ==
  ASSUME NEW k \in Nat \ {0}, NEW x \in Nat
  PROVE  x % k \in 0..(k - 1) /\ x \div k \in Nat /\ x = k * (x \div k) + (x % k)
OBVIOUS

LEMMA RemainderUnique ==
  ASSUME NEW k \in Nat \ {0}, NEW d \in Int, NEW e \in Int, NEW a \in 0..(k - 1),
         NEW b \in 0..(k - 1), k * d + a = k * e + b
  PROVE  a = b
<1>1. ASSUME NEW u \in Int, NEW w \in Int, u < w PROVE k * w >= k * u + k
  <2>1. PICK c \in Nat : w = u + 1 + c
    BY <1>1
  <2>2. k * c >= 0
    OBVIOUS
  <2>3. k * w = k * u + k + k * c
    BY <2>1
  <2>4. QED
    BY <2>2, <2>3
<1>2. CASE d = e
  BY <1>2
<1>3. CASE d < e
  <2>1. k * e >= k * d + k
    BY <1>1, <1>3
  <2>2. QED
    BY <2>1
<1>4. CASE d > e
  <2>1. k * d >= k * e + k
    BY <1>1, <1>4
  <2>2. QED
    BY <2>1
<1>5. QED
  BY <1>2, <1>3, <1>4

LEMMA RemainderIs ==
  ASSUME NEW k \in Nat \ {0}, NEW y \in Nat, NEW b \in 0..(k - 1), NEW d \in Int, y = k * d + b
  PROVE  y % k = b
<1>1. PICK e \in Nat, a \in 0..(k - 1) : a = y % k /\ y = k * e + a
  BY Remainder
<1>2. k * d + b = k * e + a
  BY <1>1
<1>3. b = a
  BY <1>2, RemainderUnique
<1>4. QED
  BY <1>1, <1>3

\* From one remainder to another: back in the same round, or to the round before.
LEMMA RemainderShift ==
  ASSUME NEW k \in Nat \ {0}, NEW x \in Nat, NEW b \in 0..(k - 1)
  PROVE  /\ x >= x % k /\ (x # x % k => x >= k)
         /\ b <= x % k => (x - (x % k) + b) % k = b
         /\ x >= k => (x - k - (x % k) + b) % k = b /\ x - k - (x % k) + b >= 0
<1>1. PICK d \in Nat, a \in 0..(k - 1) : a = x % k /\ x = k * d + a
  BY Remainder
<1>2. PICK m \in Nat : m = k * d /\ (d # 0 => m >= k)
  <2>1. k * d \in Nat /\ (d # 0 => k * d >= k)
    <3>1. CASE d = 0
      BY <3>1
    <3>2. CASE d # 0
      <4>1. PICK c \in Nat : d = 1 + c
        BY <3>2
      <4>2. k * d = k + k * c /\ k * c \in Nat
        BY <4>1
      <4>3. QED
        BY <4>2
    <3>3. QED
      BY <3>1, <3>2
  <2>2. QED
    BY <2>1
<1>3. x = m + a
  BY <1>1, <1>2
<1>4. x >= a /\ (x # a => x >= k)
  <2>1. d = 0 => m = 0
    BY <1>2
  <2>2. QED
    BY <1>2, <1>3, <2>1
<1>5. ASSUME b <= a PROVE (x - a + b) % k = b
  <2>1. PICK y \in Nat : y = x - a + b /\ y = m + b
    BY <1>3
  <2>2. y = k * d + b
    BY <1>2, <2>1
  <2>3. y % k = b
    BY <2>2, RemainderIs
  <2>4. QED
    BY <2>1, <2>3
<1>6. ASSUME x >= k PROVE (x - k - a + b) % k = b /\ x - k - a + b >= 0
  <2>1. d # 0
    BY <1>1, <1>6
  <2>2. PICK e \in Nat : d = e + 1
    BY <2>1
  <2>3. m = k * e + k /\ m >= k
    BY <1>2, <2>1, <2>2
  <2>4. PICK y \in Nat : y = x - k - a + b /\ y = m - k + b
    BY <1>3, <2>3
  <2>5. y = k * e + b
    BY <2>3, <2>4
  <2>6. y % k = b
    BY <2>5, RemainderIs
  <2>7. QED
    BY <2>4, <2>6
<1>7. QED
  BY <1>1, <1>4, <1>5, <1>6

\* A map that tells its arguments apart: into a set as large, it reaches all of it.
LEMMA Embedding ==
  ASSUME NEW S, NEW T, NEW f \in [S -> T], \A x, y \in S : f[x] = f[y] => x = y, IsFiniteSet(T)
  PROVE  /\ IsFiniteSet(S) /\ Cardinality(S) <= Cardinality(T)
         /\ Cardinality(S) = Cardinality(T) => \A t \in T : \E x \in S : f[x] = t
<1>1. f \in Injection(S, T)
  BY DEF Injection, IsInjective
<1>2. /\ IsFiniteSet(S) /\ Cardinality(S) <= Cardinality(T)
      /\ Cardinality(S) = Cardinality(T) => f \in Surjection(S, T)
  BY <1>1, FS_Injection
<1>3. QED
  BY <1>2 DEF Surjection

\* Those in turn n that fall on a remainder.
Turns(n, k, a) == {i \in 1..n : (i - 1) % k = a}

LEMMA TurnsAreEven ==
  ASSUME NEW n \in Nat, NEW k \in Nat \ {0}, NEW a \in 0..(k - 1), NEW b \in 0..(k - 1)
  PROVE  /\ IsFiniteSet(Turns(n, k, a)) /\ Cardinality(Turns(n, k, a)) \in Nat
         /\ Cardinality(Turns(n, k, a)) <= Cardinality(Turns(n, k, b)) + 1
<1>1. \A c : IsFiniteSet(Turns(n, k, c)) /\ Cardinality(Turns(n, k, c)) \in Nat
  <2>1. IsFiniteSet(1..n) /\ \A c : Turns(n, k, c) \subseteq 1..n
    BY FS_Interval DEF Turns
  <2>2. QED
    BY <2>1, FS_Subset, FS_CardinalityType
<1>2. PICK rest : rest = Turns(n, k, a) \ {a + 1}
  OBVIOUS
<1>3. IsFiniteSet(rest) /\ Cardinality(rest) \in Nat /\ Cardinality(Turns(n, k, a)) <= Cardinality(rest) + 1
  <2>1. PICK S, x : S = Turns(n, k, a) /\ x = a + 1
    OBVIOUS
  <2>2. IsFiniteSet(S) /\ Cardinality(S) \in Nat /\ rest = S \ {x}
    BY <1>1, <1>2, <2>1
  <2>3. IsFiniteSet(rest) /\ Cardinality(rest) = IF x \in S THEN Cardinality(S) - 1 ELSE Cardinality(S)
    BY <2>2, FS_RemoveElement
  <2>4. Cardinality(rest) \in Nat
    BY <2>3, FS_CardinalityType
  <2>5. QED
    BY <2>1, <2>2, <2>3, <2>4
<1>4. PICK f : f = [i \in rest |-> IF b <= a THEN i - a + b ELSE i - k - a + b]
  OBVIOUS
<1>5. \A i \in rest : f[i] \in Turns(n, k, b)
  <2>1. SUFFICES ASSUME NEW i \in rest PROVE f[i] \in Turns(n, k, b)
    OBVIOUS
  <2>2. PICK x \in Nat : x = i - 1 /\ x % k = a /\ x < n /\ x # a
    BY <1>2, <2>1 DEF Turns
  <2>3. /\ x >= a /\ x >= k /\ (b <= a => (x - a + b) % k = b)
        /\ (x - k - a + b) % k = b /\ x - k - a + b >= 0
    BY <2>2, RemainderShift
  <2>4. i = x + 1 /\ i \in Int /\ f[i] = IF b <= a THEN i - a + b ELSE i - k - a + b
    BY <1>2, <1>4, <2>1, <2>2 DEF Turns
  <2>5. CASE b <= a
    <3>1. PICK y \in Nat : y = x - a + b /\ y % k = b
      BY <2>3, <2>5
    <3>2. f[i] = y + 1 /\ y + 1 \in 1..n /\ y + 1 - 1 = y
      BY <2>2, <2>4, <2>5, <3>1
    <3>3. QED
      BY <3>1, <3>2 DEF Turns
  <2>6. CASE ~(b <= a)
    <3>1. PICK y \in Nat : y = x - k - a + b /\ y % k = b
      BY <2>3
    <3>2. f[i] = y + 1 /\ y + 1 \in 1..n /\ y + 1 - 1 = y
      BY <2>2, <2>4, <2>6, <3>1
    <3>3. QED
      BY <3>1, <3>2 DEF Turns
  <2>7. QED
    BY <2>5, <2>6
<1>6. \A i, j \in rest : f[i] = f[j] => i = j
  <2>1. \A i \in rest : i \in Int
    BY <1>2 DEF Turns
  <2>2. QED
    BY <1>4, <2>1
<1>7. f \in [rest -> Turns(n, k, b)]
  BY <1>4, <1>5
<1>8. Cardinality(rest) <= Cardinality(Turns(n, k, b))
  BY <1>1, <1>6, <1>7, Embedding
<1>9. QED
  BY <1>1, <1>3, <1>8

\* A numbering of finitely many uses every number, and a ranking has all of them.
LEMMA Numbers ==
  ASSUME NEW S, IsFiniteSet(S)
  PROVE  /\ Cardinality(S) \in Nat /\ IsFiniteSet(1..Cardinality(S))
         /\ Cardinality(1..Cardinality(S)) = Cardinality(S)
<1>1. PICK n \in Nat : n = Cardinality(S)
  BY FS_CardinalityType
<1>2. IsFiniteSet(1..n) /\ Cardinality(1..n) = IF 1 > n THEN 0 ELSE n - 1 + 1
  BY FS_Interval
<1>3. QED
  BY <1>1, <1>2

LEMMA EveryNumber ==
  ASSUME NEW S, IsFiniteSet(S), NEW order \in [S -> 1..Cardinality(S)],
         \A x, y \in S : order[x] = order[y] => x = y
  PROVE  \A i \in 1..Cardinality(S) : \E x \in S : order[x] = i
<1>1. PICK T : T = 1..Cardinality(S)
  OBVIOUS
<1>2. IsFiniteSet(T) /\ Cardinality(S) = Cardinality(T) /\ order \in [S -> T]
  BY <1>1, Numbers
<1>3. \A t \in T : \E x \in S : order[x] = t
  BY <1>2, Embedding
<1>4. QED
  BY <1>1, <1>3

LEMMA EveryRank ==
  ASSUME NEW T, IsFiniteSet(T), NEW ranked \in [1..Cardinality(T) -> T],
         \A i, j \in 1..Cardinality(T) : ranked[i] = ranked[j] => i = j
  PROVE  \A t \in T : \E i \in 1..Cardinality(T) : ranked[i] = t
BY Numbers, Embedding

\* Who is dealt one thing.
Dealt(S, deal, t) == {p \in S : deal[p] = t}

\* People numbered and dealt in turn over a ranking are spread over it.
LEMMA DealtAreEven ==
  ASSUME NEW S, IsFiniteSet(S), NEW order \in [S -> 1..Cardinality(S)],
         \A x, y \in S : order[x] = order[y] => x = y,
         NEW T, IsFiniteSet(T), NEW k \in Nat \ {0}, k = Cardinality(T), NEW ranked \in [1..k -> T],
         \A i, j \in 1..k : ranked[i] = ranked[j] => i = j,
         NEW dealt, \A p \in S : dealt[p] = ranked[((order[p] - 1) % k) + 1]
  PROVE  /\ \A p \in S : dealt[p] \in T
         /\ \A s, t \in T :
              Cardinality(Dealt(S, dealt, s)) <= Cardinality(Dealt(S, dealt, t)) + 1
<1>1. PICK n \in Nat : n = Cardinality(S)
  BY FS_CardinalityType
<1>2. \A p \in S : order[p] \in 1..n /\ (order[p] - 1) % k \in 0..(k - 1)
  <2>1. \A p \in S : order[p] \in 1..n /\ order[p] - 1 \in Nat
    BY <1>1
  <2>2. QED
    BY <2>1, Remainder
<1>3. \A p \in S : dealt[p] = ranked[((order[p] - 1) % k) + 1] /\ dealt[p] \in T
  BY <1>2
<1>4. ASSUME NEW s \in T, NEW t \in T
      PROVE  Cardinality(Dealt(S, dealt, s)) <= Cardinality(Dealt(S, dealt, t)) + 1
  <2>1. PICK a \in 0..(k - 1), b \in 0..(k - 1) : ranked[a + 1] = s /\ ranked[b + 1] = t
    <3>1. PICK i \in 1..k, j \in 1..k : ranked[i] = s /\ ranked[j] = t
      BY EveryRank
    <3>2. i - 1 \in 0..(k - 1) /\ j - 1 \in 0..(k - 1) /\ i - 1 + 1 = i /\ j - 1 + 1 = j
      OBVIOUS
    <3>3. QED
      BY <3>1, <3>2
  <2>2. PICK ps, pt : ps = Dealt(S, dealt, s) /\ pt = Dealt(S, dealt, t)
    OBVIOUS
  <2>3. IsFiniteSet(ps) /\ IsFiniteSet(pt) /\ Cardinality(ps) \in Nat /\ Cardinality(pt) \in Nat
    BY <2>2, FS_Subset, FS_CardinalityType DEF Dealt
  <2>4. \A p \in S : /\ dealt[p] = s => (order[p] - 1) % k = a
                     /\ (order[p] - 1) % k = b => dealt[p] = t
    <3>1. SUFFICES ASSUME NEW p \in S
                   PROVE  /\ dealt[p] = s => (order[p] - 1) % k = a
                          /\ (order[p] - 1) % k = b => dealt[p] = t
      OBVIOUS
    <3>2. PICK c \in 0..(k - 1) : c = (order[p] - 1) % k /\ dealt[p] = ranked[c + 1]
      BY <1>2, <1>3, <3>1
    <3>3. a + 1 \in 1..k /\ c + 1 \in 1..k
      OBVIOUS
    <3>4. ranked[c + 1] = ranked[a + 1] => c + 1 = a + 1
      BY <3>3
    <3>5. QED
      BY <2>1, <3>2, <3>4
  <2>5. Cardinality(ps) <= Cardinality(Turns(n, k, a))
    <3>1. PICK f : f = [p \in ps |-> order[p]]
      OBVIOUS
    <3>2. \A p \in ps : p \in S /\ order[p] \in 1..n /\ (order[p] - 1) % k = a
      BY <1>2, <2>2, <2>4 DEF Dealt
    <3>3. f \in [ps -> Turns(n, k, a)] /\ \A x, y \in ps : f[x] = f[y] => x = y
      BY <3>1, <3>2 DEF Turns
    <3>4. IsFiniteSet(Turns(n, k, a))
      BY TurnsAreEven
    <3>5. QED
      BY <3>3, <3>4, Embedding
  <2>6. Cardinality(Turns(n, k, b)) <= Cardinality(pt)
    <3>1. \A i \in Turns(n, k, b) : \E p \in S : order[p] = i
      BY <1>1, EveryNumber DEF Turns
    <3>2. PICK f : f = [i \in Turns(n, k, b) |-> CHOOSE p \in S : order[p] = i]
      OBVIOUS
    <3>3. \A i \in Turns(n, k, b) : f[i] \in S /\ order[f[i]] = i
      BY <3>1, <3>2
    <3>4. \A i \in Turns(n, k, b) : f[i] \in pt
      BY <2>2, <2>4, <3>3 DEF Turns, Dealt
    <3>5. f \in [Turns(n, k, b) -> pt] /\ \A i, j \in Turns(n, k, b) : f[i] = f[j] => i = j
      BY <3>2, <3>3, <3>4
    <3>6. QED
      BY <2>3, <3>5, Embedding
  <2>7. /\ Cardinality(Turns(n, k, a)) \in Nat /\ Cardinality(Turns(n, k, b)) \in Nat
        /\ Cardinality(Turns(n, k, a)) <= Cardinality(Turns(n, k, b)) + 1
    BY TurnsAreEven
  <2>8. QED
    BY <2>2, <2>3, <2>5, <2>6, <2>7
<1>5. QED
  BY <1>3, <1>4

-----------------------------------------------------------------------------
(***************************************************************************)
(* The operations console: ConsoleInv is inductive (see OpsConsole).       *)
(***************************************************************************)
LEMMA ConsoleCounts == \A S : Console!Cardinality(S) = Cardinality(S)
BY DEF Console!Cardinality, Cardinality

LEMMA ConsoleFinite == \A S : Console!IsFiniteSet(S) <=> IsFiniteSet(S)
BY DEF Console!IsFiniteSet, IsFiniteSet

LEMMA OnlyConsole == page \in ConsolePages /\ EventsInit => Console!Init
BY DEF EventsInit, ConsolePages, ConsoleInit

ConsoleSteps ==
  \/ Console!AnybodyNext \/ Console!GuardNext \/ Console!DutyNext \/ Console!TeamsNext
  \/ UNCHANGED Console!vars
LEMMA OnlyConsoleSteps == page \in ConsolePages /\ [EventsNext]_allVars => ConsoleSteps
BY DEF EventsNext, OrdersStep, SeriesStep, RotationStep, ScheduleStep, ConsoleFrame, GuardStep,
   DutyStep, TeamsStep, allVars, consoleVars, requestVars, Console!vars, Console!tables,
   Console!hist, ConsolePages, ConsoleSteps

LEMMA ConsoleStarts == Console!Sound /\ Console!Init => Console!ConsoleInv
<1> SUFFICES ASSUME Console!Sound, Console!Init PROVE Console!ConsoleInv
  OBVIOUS
<1>1. /\ slots = {} /\ guard = {} /\ batch = {} /\ begun = 0 /\ pressed = {} /\ given = {}
      /\ vexes = {} /\ vexed = {} /\ buddies = {} /\ crossed = {}
      /\ present \subseteq Console!People /\ immune \subseteq Comrades
      /\ duty \in [Comrades -> {"none", "ad_hoc", "geo_team"}]
      /\ DOMAIN req = Console!Slots /\ \A r \in Console!Slots : req[r] = Console!NoRequest
  BY DEF Console!Init
<1>2. Console!NoRequest.op = "none"
  BY DEF Console!NoRequest
<1>3. \A r \in Console!Slots : req[r].op = "none" /\ Console!RequestInv(req[r])
  BY <1>1, <1>2 DEF Console!RequestInv
<1>4. Console!TypeOK
  BY <1>1 DEF Console!TypeOK
<1>5. Console!TypeInv
  BY <1>1, <1>3, <1>4, FS_EmptySet, ConsoleFinite DEF Console!TypeInv
<1>6. Console!LoneInv /\ Console!AutoInv /\ Console!FreshInv /\ Console!SpreadInv /\ Console!BatchInv
  BY <1>1, <1>3
     DEF Console!LoneInv, Console!AutoInv, Console!FreshInv, Console!SpreadInv, Console!BatchInv
<1>7. Console!ImmunesAreSpared /\ Console!SlotsStand /\ Console!GivenDutiesStand /\ Console!OneVexEach
  BY <1>1
     DEF Console!ImmunesAreSpared, Console!SlotsStand, Console!GivenDutiesStand, Console!OneVexEach
<1>8. QED
  BY <1>5, <1>6, <1>7 DEF Console!ConsoleInv

\* What stays true of the requests when some of them end, in slots that stay.
LEMMA ConsoleGoesOn ==
  ASSUME Console!ConsoleInv, begun' \in Nat, begun <= begun', UNCHANGED <<immune, slots, crossed>>,
         DOMAIN req' = Console!Slots,
         \A s \in Console!Slots : req'[s] = req[s] \/ req'[s] = Console!NoRequest,
         \A g \in batch' : g \in batch \/ g.slot \in slots,
         \/ batch' = batch
         \/ "configure" \notin crossed =>
              \A s, t \in slots : Console!Cardinality({g \in batch' : g.slot = s})
                                    <= Console!Cardinality({g \in batch' : g.slot = t}) + 1
  PROVE  /\ \A r \in Console!Slots : Console!RequestInv(req[r])'
         /\ IsFiniteSet(slots') /\ \A s \in slots' : s.conf \in 1..begun'
         /\ Console!LoneInv' /\ Console!FreshInv' /\ Console!SpreadInv' /\ Console!BatchInv'
<1>1. Console!NoRequest.op = "none"
  BY DEF Console!NoRequest
<1>2. /\ \A r \in Console!Slots : Console!RequestInv(req[r])
      /\ IsFiniteSet(slots) /\ \A s \in slots : s.conf \in 1..begun
      /\ begun \in Nat
  BY ConsoleFinite DEF Console!ConsoleInv, Console!TypeInv, Console!TypeOK
<1>3. \A s \in Console!Slots : req'[s].op # "none" => req'[s] = req[s]
  BY <1>1
<1>4. ASSUME NEW r \in Console!Slots PROVE Console!RequestInv(req[r])'
  <2>1. PICK q : q = req'[r]
    OBVIOUS
  <2>2. CASE q.op = "none"
    BY <2>1, <2>2 DEF Console!RequestInv
  <2>3. CASE q.op # "none"
    <3>1. Console!RequestInv(q)
      BY <1>2, <1>3, <2>1, <2>3
    <3>2. \A who : Console!Unasked(who) => Console!Unasked(who)'
      BY DEF Console!Unasked
    <3>3. \A c \in 1..begun : c \in 1..begun'
      BY <1>2
    <3>4. QED
      BY <2>1, <3>1, <3>2, <3>3 DEF Console!RequestInv
  <2>4. QED
    BY <2>2, <2>3
<1>5. \A s \in slots' : s.conf \in 1..begun'
  BY <1>2
<1>6. Console!LoneInv'
  BY <1>3 DEF Console!ConsoleInv, Console!LoneInv
<1>7. Console!FreshInv'
  <2>1. SUFFICES ASSUME "configure" \notin crossed, NEW r \in Console!Slots, req'[r].op = "configure"
                 PROVE  /\ \A s \in slots' \cup {g.slot : g \in batch'} : s.conf # req'[r].conf
                        /\ \A s \in Console!Slots : req'[s].op = "auto" =>
                             \A p \in DOMAIN req'[s].posts : req'[s].posts[p].conf # req'[r].conf
    BY DEF Console!FreshInv
  <2>2. req'[r] = req[r]
    BY <1>3, <2>1
  <2>3. /\ \A s \in slots \cup {g.slot : g \in batch} : s.conf # req[r].conf
        /\ \A s \in Console!Slots : req[s].op = "auto" =>
             \A p \in DOMAIN req[s].posts : req[s].posts[p].conf # req[r].conf
    BY <2>1, <2>2 DEF Console!ConsoleInv, Console!FreshInv
  <2>4. QED
    BY <1>3, <2>2, <2>3
<1>8. Console!SpreadInv'
  <2>1. SUFFICES ASSUME "configure" \notin crossed
                 PROVE  Console!SpreadInv'
    BY DEF Console!SpreadInv
  <2>2. {g.slot : g \in batch'} \subseteq slots =>
          \A s, t \in slots : Console!Cardinality({g \in batch' : g.slot = s})
                                <= Console!Cardinality({g \in batch' : g.slot = t}) + 1
    BY <2>1 DEF Console!ConsoleInv, Console!SpreadInv
  <2>3. ASSUME NEW r \in Console!Slots, req'[r].op = "auto", NEW posts, posts = req'[r].posts,
               \A p \in DOMAIN posts : posts[p] \in slots
        PROVE  \A s, t \in slots :
                 Console!Cardinality(Console!Posted(posts, s)) <= Console!Cardinality(Console!Posted(posts, t)) + 1
    <3>1. req'[r] = req[r]
      BY <1>3, <2>3
    <3>2. QED
      BY <2>1, <2>3, <3>1 DEF Console!ConsoleInv, Console!SpreadInv
  <2>4. QED
    BY <2>2, <2>3 DEF Console!SpreadInv
<1>9. Console!BatchInv'
  <2>1. \A g \in batch' : g.slot.conf \in 1..begun
    BY <1>2 DEF Console!ConsoleInv, Console!BatchInv
  <2>2. \A c \in 1..begun : c \in 1..begun'
    BY <1>2
  <2>3. QED
    BY <2>1, <2>2 DEF Console!BatchInv
<1>10. QED
  BY <1>2, <1>4, <1>5, <1>6, <1>7, <1>8, <1>9


\* What is on guard by the automatic assignment stays in order when nothing joins it.
LEMMA AutoStays ==
  ASSUME Console!ConsoleInv, UNCHANGED crossed,
         \A s \in Console!Slots : req'[s] = req[s] \/ req'[s] = Console!NoRequest,
         \A g \in guard' : g \in guard \/ g.by = "hand"
  PROVE  Console!AutoInv'
<1>1. Console!NoRequest.op = "none"
  BY DEF Console!NoRequest
<1>2. \A s \in Console!Slots : req'[s].op # "none" => req'[s] = req[s]
  BY <1>1
<1>3. \A g \in guard' : g.by = "auto" => g \in guard
  OBVIOUS
<1>4. QED
  BY <1>2, <1>3 DEF Console!ConsoleInv, Console!AutoInv

\* Steps that begin no request and end none.
LEMMA ConsoleWorld ==
  ASSUME Console!ConsoleInv, begun' = begun \/ begun' = begun + 1,
         UNCHANGED <<immune, slots, batch, req, crossed, pressed>>, guard' \subseteq guard,
         given' \subseteq given, Console!TypeOK', Console!GivenDutiesStand', Console!OneVexEach'
  PROVE  Console!ConsoleInv'
<1>1. begun \in Nat /\ DOMAIN req = Console!Slots /\ given \subseteq Comrades
  BY DEF Console!ConsoleInv, Console!TypeInv
<1>2. /\ \A r \in Console!Slots : Console!RequestInv(req[r])'
      /\ IsFiniteSet(slots') /\ \A s \in slots' : s.conf \in 1..begun'
      /\ Console!LoneInv' /\ Console!FreshInv' /\ Console!SpreadInv' /\ Console!BatchInv'
  BY <1>1, ConsoleGoesOn
<1>3. Console!AutoInv'
  BY AutoStays
<1>4. Console!TypeInv'
  BY <1>1, <1>2, ConsoleFinite DEF Console!TypeInv
<1>5. Console!ImmunesAreSpared' /\ Console!SlotsStand'
  BY DEF Console!ConsoleInv, Console!ImmunesAreSpared, Console!SlotsStand
<1>6. QED
  BY <1>2, <1>3, <1>4, <1>5 DEF Console!ConsoleInv

\* Who comes and goes.
LEMMA ConsolePresence ==
  ASSUME Console!ConsoleInv, begun' = begun + 1, present' \subseteq Console!People,
         UNCHANGED <<immune, Console!tables, req, Console!hist, crossed>>
  PROVE  Console!ConsoleInv'
<1>1. UNCHANGED <<immune, slots, batch, req, crossed, pressed, guard, duty, vexes, vexed, buddies, given>>
  BY DEF Console!tables, Console!hist
<1>2. Console!TypeOK' /\ Console!GivenDutiesStand' /\ Console!OneVexEach'
  BY <1>1 DEF Console!ConsoleInv, Console!TypeInv, Console!TypeOK, Console!GivenDutiesStand,
              Console!OneVexEach
<1>3. QED
  BY <1>1, <1>2, ConsoleWorld

\* Who comes to be exempt while a request is under way is noted.
LEMMA ConsoleToggle ==
  ASSUME Console!ConsoleInv, NEW m \in Comrades, Console!ToggleImmunes(m)
  PROVE  Console!ConsoleInv'
<1>1. /\ begun' = begun + 1 /\ immune' \subseteq immune \cup {m}
      /\ crossed' = IF \E r \in Console!Slots : req[r] # Console!NoRequest
                    THEN crossed \cup {m} ELSE crossed
      /\ UNCHANGED <<present, slots, guard, duty, vexes, vexed, buddies, req, given, pressed, batch>>
  BY DEF Console!ToggleImmunes, Console!Count, Console!tables, Console!hist
<1>2. Console!NoRequest.op = "none"
  BY DEF Console!NoRequest
<1>3. crossed \subseteq crossed'
  BY <1>1
<1>4. begun \in Nat /\ DOMAIN req = Console!Slots /\ \A r \in Console!Slots : Console!RequestInv(req[r])
  BY DEF Console!ConsoleInv, Console!TypeInv
<1>5. \A c \in 1..begun : c \in 1..begun'
  BY <1>1, <1>4
<1>6. ASSUME NEW r \in Console!Slots PROVE Console!RequestInv(req[r])'
  <2>1. PICK q : q = req[r] /\ q = req'[r]
    BY <1>1
  <2>2. CASE q.op = "none"
    BY <2>1, <2>2 DEF Console!RequestInv
  <2>3. CASE q.op # "none"
    <3>1. Console!RequestInv(q)
      BY <1>4, <2>1
    <3>2. crossed' = crossed \cup {m}
      BY <1>1, <1>2, <2>1, <2>3
    <3>3. \A who : Console!Unasked(who) => Console!Unasked(who)'
      BY <1>1, <3>2 DEF Console!Unasked
    <3>4. QED
      BY <1>1, <1>3, <1>5, <2>1, <3>1, <3>3 DEF Console!RequestInv
  <2>4. QED
    BY <2>2, <2>3
<1>7. Console!TypeOK'
  BY <1>1 DEF Console!ConsoleInv, Console!TypeInv, Console!TypeOK
<1>8. Console!TypeInv'
  BY <1>1, <1>4, <1>5, <1>6, <1>7, ConsoleFinite DEF Console!ConsoleInv, Console!TypeInv
<1>9. Console!LoneInv' /\ Console!AutoInv' /\ Console!FreshInv' /\ Console!SpreadInv'
  <2>1. Console!LoneInv'
    BY <1>1, <1>3 DEF Console!ConsoleInv, Console!LoneInv
  <2>2. Console!AutoInv'
    BY <1>1, <1>3 DEF Console!ConsoleInv, Console!AutoInv
  <2>3. Console!FreshInv'
    BY <1>1, <1>3 DEF Console!ConsoleInv, Console!FreshInv
  <2>4. Console!SpreadInv'
    BY <1>1, <1>3 DEF Console!ConsoleInv, Console!SpreadInv, Console!Posted
  <2>5. QED
    BY <2>1, <2>2, <2>3, <2>4
<1>10. Console!BatchInv'
  BY <1>1, <1>5 DEF Console!ConsoleInv, Console!BatchInv
<1>11. /\ Console!ImmunesAreSpared' /\ Console!SlotsStand' /\ Console!GivenDutiesStand'
       /\ Console!OneVexEach'
  BY <1>1, <1>3 DEF Console!ConsoleInv, Console!ImmunesAreSpared, Console!SlotsStand,
                    Console!GivenDutiesStand, Console!OneVexEach
<1>12. QED
  BY <1>8, <1>9, <1>10, <1>11 DEF Console!ConsoleInv

\* A request that begins: what it took down stands.
LEMMA ConsoleBegins ==
  ASSUME Console!ConsoleInv, NEW p, p.op \in {"configure", "guard", "auto", "duty", "team"},
         Console!Begin(p), UNCHANGED <<present, immune, Console!tables, Console!hist>>,
         Console!RequestInv(p)', p.op = "configure" => p.conf = begun + 1,
         p.op = "auto" =>
           /\ \A x \in DOMAIN p.posts : p.posts[x] \in slots
           /\ \A g \in guard : g.by = "auto" => g.who \notin DOMAIN p.posts
           /\ \A s, t \in slots : Console!Cardinality(Console!Posted(p.posts, s))
                                    <= Console!Cardinality(Console!Posted(p.posts, t)) + 1
  PROVE  Console!ConsoleInv'
<1>1. /\ begun' = begun + 1
      /\ UNCHANGED <<present, immune, slots, guard, duty, vexes, vexed, buddies, given, pressed, batch>>
  BY DEF Console!Begin, Console!Count, Console!tables, Console!hist
<1>2. PICK r \in Console!Slots :
        /\ req' = [req EXCEPT ![r] = p]
        /\ crossed' = crossed \cup {p.op : q \in {q \in Console!Slots \ {r} : req[q].op = p.op}}
  BY DEF Console!Begin
<1>3. /\ begun \in Nat /\ DOMAIN req = Console!Slots
      /\ \A s \in Console!Slots : Console!RequestInv(req[s])
      /\ \A s \in slots : s.conf \in 1..begun
      /\ \A g \in batch : g.slot.conf \in 1..begun
  BY DEF Console!ConsoleInv, Console!TypeInv, Console!BatchInv
<1>4. DOMAIN req' = Console!Slots /\ \A s \in Console!Slots : req'[s] = IF s = r THEN p ELSE req[s]
  BY <1>2, <1>3
<1>5. crossed \subseteq crossed' /\ \A s \in Console!Slots : s # r /\ req[s].op = p.op => p.op \in crossed'
  BY <1>2
<1>6. \A c \in 1..begun : c \in 1..begun'
  BY <1>1, <1>3
<1>7. ASSUME NEW s \in Console!Slots PROVE Console!RequestInv(req[s])'
  <2>1. CASE s = r
    <3>1. req'[s] = p
      BY <1>4, <2>1
    <3>2. QED
      BY <3>1 DEF Console!RequestInv, Console!Unasked
  <2>2. CASE s # r
    <3>1. PICK q : q = req[s] /\ q = req'[s]
      BY <1>4, <2>2
    <3>2. Console!RequestInv(q)
      BY <1>3, <3>1
    <3>3. \A who : Console!Unasked(who) => Console!Unasked(who)'
      BY <1>1, <1>5 DEF Console!Unasked
    <3>4. QED
      BY <1>1, <1>5, <1>6, <3>1, <3>2, <3>3 DEF Console!RequestInv
  <2>3. QED
    BY <2>1, <2>2
<1>8. Console!TypeInv'
  <2>1. Console!TypeOK'
    BY <1>1 DEF Console!ConsoleInv, Console!TypeInv, Console!TypeOK
  <2>2. QED
    BY <1>1, <1>3, <1>4, <1>6, <1>7, <2>1, ConsoleFinite DEF Console!ConsoleInv, Console!TypeInv
<1>9. Console!LoneInv'
  <2>1. ASSUME NEW s \in Console!Slots, NEW u \in Console!Slots, s # u, req'[s].op = req'[u].op,
               req'[s].op # "none"
        PROVE  req'[s].op \in crossed'
    <3>1. CASE s = r
      BY <1>4, <1>5, <2>1, <3>1
    <3>2. CASE u = r
      BY <1>4, <1>5, <2>1, <3>2
    <3>3. CASE s # r /\ u # r
      BY <1>4, <1>5, <2>1, <3>3 DEF Console!ConsoleInv, Console!LoneInv
    <3>4. QED
      BY <3>1, <3>2, <3>3
  <2>2. QED
    BY <2>1 DEF Console!LoneInv
<1>10. Console!AutoInv'
  <2>1. SUFFICES ASSUME "auto" \notin crossed'
                 PROVE  /\ \A g, h \in guard : g.by = "auto" /\ h.by = "auto" /\ g.who = h.who => g = h
                        /\ \A s \in Console!Slots : req'[s].op = "auto" =>
                             \A g \in guard : g.by = "auto" => g.who \notin DOMAIN req'[s].posts
    BY <1>1 DEF Console!AutoInv
  <2>2. QED
    BY <1>4, <1>5, <2>1 DEF Console!ConsoleInv, Console!AutoInv
<1>11. Console!FreshInv'
  <2>1. SUFFICES ASSUME "configure" \notin crossed', NEW s \in Console!Slots, req'[s].op = "configure"
                 PROVE  /\ \A u \in slots \cup {g.slot : g \in batch} : u.conf # req'[s].conf
                        /\ \A u \in Console!Slots : req'[u].op = "auto" =>
                             \A x \in DOMAIN req'[u].posts : req'[u].posts[x].conf # req'[s].conf
    BY <1>1 DEF Console!FreshInv
  <2>2. CASE s = r
    <3>1. p.op = "configure" /\ req'[s].conf = begun + 1
      BY <1>4, <2>1, <2>2
    <3>2. \A u \in slots \cup {g.slot : g \in batch} : u.conf \in 1..begun
      BY <1>3
    <3>3. ASSUME NEW u \in Console!Slots, req'[u].op = "auto", NEW x \in DOMAIN req'[u].posts
          PROVE  req'[u].posts[x].conf \in 1..begun
      <4>1. PICK q : q = req'[u]
        OBVIOUS
      <4>2. q = req[u]
        BY <1>4, <2>2, <3>1, <3>3, <4>1
      <4>3. Console!RequestInv(q) /\ q.op = "auto" /\ x \in DOMAIN q.posts
        BY <1>3, <3>3, <4>1, <4>2
      <4>4. QED
        BY <4>1, <4>3 DEF Console!RequestInv
    <3>4. QED
      BY <1>3, <3>1, <3>2, <3>3
  <2>3. CASE s # r
    <3>1. /\ \A u \in slots \cup {g.slot : g \in batch} : u.conf # req'[s].conf
          /\ \A u \in Console!Slots : req[u].op = "auto" =>
               \A x \in DOMAIN req[u].posts : req[u].posts[x].conf # req'[s].conf
      BY <1>4, <1>5, <2>1, <2>3 DEF Console!ConsoleInv, Console!FreshInv
    <3>2. p.op = "auto" => \A x \in DOMAIN p.posts : p.posts[x].conf # req'[s].conf
      BY <3>1
    <3>3. QED
      BY <1>4, <3>1, <3>2
  <2>4. QED
    BY <2>2, <2>3
<1>12. Console!SpreadInv'
  <2>1. SUFFICES ASSUME "configure" \notin crossed'
                 PROVE  Console!SpreadInv'
    BY DEF Console!SpreadInv
  <2>2. {g.slot : g \in batch} \subseteq slots =>
          \A s, t \in slots : Console!Cardinality({g \in batch : g.slot = s})
                                <= Console!Cardinality({g \in batch : g.slot = t}) + 1
    BY <1>5, <2>1 DEF Console!ConsoleInv, Console!SpreadInv
  <2>3. ASSUME NEW u \in Console!Slots, req'[u].op = "auto", NEW posts, posts = req'[u].posts,
               \A x \in DOMAIN posts : posts[x] \in slots
        PROVE  \A s, t \in slots :
                 Console!Cardinality(Console!Posted(posts, s)) <= Console!Cardinality(Console!Posted(posts, t)) + 1
    <3>1. CASE u = r
      BY <1>4, <2>3, <3>1
    <3>2. CASE u # r
      BY <1>4, <1>5, <2>1, <2>3, <3>2 DEF Console!ConsoleInv, Console!SpreadInv
    <3>3. QED
      BY <3>1, <3>2
  <2>4. QED
    BY <1>1, <2>2, <2>3 DEF Console!SpreadInv
<1>13. Console!BatchInv'
  BY <1>1, <1>3, <1>6 DEF Console!BatchInv
<1>14. /\ Console!ImmunesAreSpared' /\ Console!SlotsStand' /\ Console!GivenDutiesStand'
       /\ Console!OneVexEach'
  BY <1>1, <1>5 DEF Console!ConsoleInv, Console!ImmunesAreSpared, Console!SlotsStand,
                    Console!GivenDutiesStand, Console!OneVexEach
<1>15. QED
  BY <1>8, <1>9, <1>10, <1>11, <1>12, <1>13, <1>14 DEF Console!ConsoleInv


LEMMA ConfigureBegins ==
  ASSUME Console!Sound, Console!ConsoleInv, NEW n \in 1..MaxSlots, Console!Configure(n)
  PROVE  Console!ConsoleInv'
<1>1. PICK p : p = [op |-> "configure", conf |-> begun + 1, n |-> n, old |-> slots]
  OBVIOUS
<1>2. Console!Begin(p) /\ UNCHANGED <<present, immune, Console!tables, Console!hist>>
  BY <1>1 DEF Console!Configure
<1>3. begun < ConsoleRequests /\ begun' = begun + 1 /\ slots' = slots /\ begun \in Nat /\ ConsoleRequests \in Nat
  BY <1>2 DEF Console!Begin, Console!Count, Console!tables, Console!ConsoleInv, Console!TypeInv,
              Console!Sound
<1>4. p.op = "configure" /\ p.conf = begun + 1 /\ p.n = n /\ p.old = slots
  BY <1>1
<1>5. Console!RequestInv(p)'
  BY <1>3, <1>4 DEF Console!RequestInv
<1>6. QED
  BY <1>2, <1>4, <1>5, ConsoleBegins

LEMMA GuardBegins ==
  ASSUME Console!ConsoleInv, NEW who \in Console!People, NEW n \in 1..MaxSlots, NEW override \in BOOLEAN,
         Console!Guard(who, n, override)
  PROVE  Console!ConsoleInv'
<1>1. PICK slot : slot = Console!SlotOf(n)
  OBVIOUS
<1>2. slot # Console!NoSlot => slot.number = n
  BY <1>1 DEF Console!SlotOf
<1>3. PICK p : p = [op |-> "guard", who |-> who, n |-> n, slot |-> slot, override |-> override]
  OBVIOUS
<1>4. /\ Console!Begin(p) /\ UNCHANGED <<present, immune, Console!tables, Console!hist>>
      /\ override \/ who \notin immune
  BY <1>1, <1>3 DEF Console!Guard, Console!Spared
<1>5. p.op = "guard" /\ p.who = who /\ p.n = n /\ p.slot = slot /\ p.override = override
  BY <1>3
<1>6. override \/ Console!Unasked({who})'
  BY <1>4 DEF Console!Unasked
<1>7. Console!RequestInv(p)'
  BY <1>2, <1>5, <1>6 DEF Console!RequestInv
<1>8. QED
  BY <1>4, <1>5, <1>7, ConsoleBegins

LEMMA DutyBegins ==
  ASSUME Console!ConsoleInv, NEW m \in Comrades, NEW override \in BOOLEAN, Console!Duty(m, override)
  PROVE  Console!ConsoleInv'
<1>1. PICK p : p = [op |-> "duty", who |-> m, override |-> override, found |-> duty[m] # "none"]
  OBVIOUS
<1>2. /\ Console!Begin(p) /\ UNCHANGED <<present, immune, Console!tables, Console!hist>>
      /\ override \/ m \notin immune
  BY <1>1 DEF Console!Duty, Console!Spared
<1>3. p.op = "duty" /\ p.who = m /\ p.override = override
  BY <1>1
<1>4. override \/ Console!Unasked({m})'
  BY <1>2 DEF Console!Unasked
<1>5. Console!RequestInv(p)'
  BY <1>3, <1>4 DEF Console!RequestInv
<1>6. QED
  BY <1>2, <1>3, <1>5, ConsoleBegins

LEMMA DutyTeamBegins ==
  ASSUME Console!Sound, Console!ConsoleInv, Console!DutyTeam
  PROVE  Console!ConsoleInv'
<1>1. PICK p : p = [op |-> "team", who |-> Console!OnTeam]
  OBVIOUS
<1>2. Console!Begin(p) /\ UNCHANGED <<present, immune, Console!tables, Console!hist>>
  BY <1>1 DEF Console!DutyTeam
<1>3. p.op = "team" /\ p.who = Console!OnTeam
  BY <1>1
<1>4. \A m \in Console!OnTeam : m \in present /\ m \notin immune /\ duty[m] = "none"
  BY DEF Console!OnTeam, Console!Spared
<1>5. Console!RequestInv(p)'
  <2>1. p.who \subseteq Comrades
    BY <1>3, <1>4 DEF Console!OnTeam, Console!Sound
  <2>2. Console!Unasked(p.who)'
    BY <1>2, <1>3, <1>4 DEF Console!Unasked
  <2>3. QED
    BY <1>3, <2>1, <2>2 DEF Console!RequestInv
<1>6. QED
  BY <1>2, <1>3, <1>5, ConsoleBegins

\* The automatic assignment takes down slots that stand, whom nobody put on guard,
\* and as many of them for each slot, or one more.
LEMMA AutoBegins ==
  ASSUME Console!Sound, Console!ConsoleInv, Console!Auto
  PROVE  Console!ConsoleInv'
<1>1. PICK S : S = Console!Targets
  OBVIOUS
<1>2. PICK order \in Console!Orders(S), ranked \in Console!Ranked :
        Console!Begin([op |-> "auto", posts |-> Console!Distributed(order, ranked)])
  BY <1>1 DEF Console!Auto
<1>3. slots # {} /\ UNCHANGED <<present, immune, Console!tables, Console!hist>>
  BY DEF Console!Auto
<1>4. PICK posts, p : posts = Console!Distributed(order, ranked) /\ p = [op |-> "auto", posts |-> posts]
  OBVIOUS
<1>5. Console!Begin(p) /\ p.op = "auto" /\ p.posts = posts
  BY <1>2, <1>4
<1>6. IsFiniteSet(slots) /\ begun \in Nat
      /\ \A s \in slots : s.conf \in 1..begun /\ s.number \in 1..MaxSlots
  BY ConsoleFinite DEF Console!ConsoleInv, Console!TypeInv, Console!TypeOK
<1>7. S \subseteq Console!People /\ IsFiniteSet(S) /\ S \cap immune = {}
      /\ \A x \in S : \A g \in guard : g.who # x
  <2>1. S \subseteq Console!People /\ S \cap immune = {} /\ \A x \in S : Console!Rows(x) = {}
    BY <1>1 DEF Console!Targets, Console!Spared, Console!ConsoleInv, Console!TypeInv, Console!TypeOK
  <2>2. IsFiniteSet(Comrades) /\ IsFiniteSet(Guests)
    BY ConsoleFinite DEF Console!Sound
  <2>3. IsFiniteSet(Console!People)
    BY <2>2, FS_Union DEF Console!People
  <2>4. QED
    BY <2>1, <2>3, FS_Subset DEF Console!Rows
<1>8. /\ order \in [S -> 1..Cardinality(S)]
      /\ \A x, y \in S : order[x] = order[y] => x = y
  BY <1>2, ConsoleCounts DEF Console!Orders
<1>9. PICK k \in Nat \ {0} : k = Cardinality(slots)
  BY <1>3, <1>6, FS_CardinalityType, FS_EmptySet
<1>10. ranked \in [1..k -> slots] /\ \A i, j \in 1..k : ranked[i] = ranked[j] => i = j
  <2>1. ranked \in [1..k -> slots] /\ \A i, j \in DOMAIN ranked : ranked[i] = ranked[j] => i = j
    BY <1>2, <1>9, ConsoleCounts DEF Console!Ranked
  <2>2. QED
    BY <2>1
<1>11. Console!Cardinality(DOMAIN ranked) = k
  <2>1. DOMAIN ranked = 1..k /\ Cardinality(1..k) = k
    BY <1>6, <1>9, <1>10, Numbers
  <2>2. QED
    BY <2>1, ConsoleCounts
<1>12. posts = [x \in S |-> ranked[((order[x] - 1) % k) + 1]]
  <2>1. DOMAIN order = S
    BY <1>8
  <2>2. QED
    BY <1>4, <1>11, <2>1 DEF Console!Distributed
<1>13. /\ \A x \in S : posts[x] \in slots
       /\ \A s, t \in slots :
            Cardinality(Dealt(S, posts, s)) <= Cardinality(Dealt(S, posts, t)) + 1
  <2>1. PICK T : T = slots
    OBVIOUS
  <2>2. IsFiniteSet(T) /\ k = Cardinality(T) /\ ranked \in [1..k -> T]
    BY <1>6, <1>9, <1>10, <2>1
  <2>3. /\ \A x \in S : posts[x] \in T
        /\ \A s, t \in T :
             Cardinality(Dealt(S, posts, s)) <= Cardinality(Dealt(S, posts, t)) + 1
    <3>1. \A x \in S : posts[x] = ranked[((order[x] - 1) % k) + 1]
      BY <1>12
    <3>2. QED
      BY <1>7, <1>8, <1>10, <2>2, <3>1, DealtAreEven
  <2>4. QED
    BY <2>1, <2>3
<1>14. DOMAIN posts = S
  BY <1>12
<1>15. \A s, t \in slots : Console!Cardinality(Console!Posted(p.posts, s))
                             <= Console!Cardinality(Console!Posted(p.posts, t)) + 1
  BY <1>5, <1>13, <1>14, ConsoleCounts DEF Console!Posted, Dealt
<1>16. Console!RequestInv(p)'
  <2>1. begun' = begun + 1
    BY <1>5 DEF Console!Begin, Console!Count
  <2>2. \A x \in S : posts[x].number \in 1..MaxSlots /\ posts[x].conf \in 1..begun'
    BY <1>6, <1>13, <2>1
  <2>3. Console!Unasked(S)'
    BY <1>3, <1>7 DEF Console!Unasked
  <2>4. QED
    BY <1>5, <1>7, <1>14, <2>2, <2>3 DEF Console!RequestInv
<1>17. \A g \in guard : g.by = "auto" => g.who \notin DOMAIN p.posts
  BY <1>5, <1>7, <1>14
<1>18. \A x \in DOMAIN p.posts : p.posts[x] \in slots
  BY <1>5, <1>13, <1>14
<1>19. QED
  BY <1>3, <1>5, <1>15, <1>16, <1>17, <1>18, ConsoleBegins


\* What ends with a request: it, and nothing of the others.
LEMMA ConsoleEnds ==
  ASSUME Console!ConsoleInv, NEW r \in Console!Slots, Console!End(r), UNCHANGED begun
  PROVE  /\ DOMAIN req' = Console!Slots /\ begun' \in Nat /\ begun <= begun'
         /\ \A s \in Console!Slots : req'[s] = IF s = r THEN Console!NoRequest ELSE req[s]
         /\ \A s \in Console!Slots : req'[s].op # "none" => s # r /\ req'[s] = req[s]
         /\ \A s \in Console!Slots : req'[s].op = req[r].op /\ req[r].op # "none" => req[r].op \in crossed
<1>1. DOMAIN req = Console!Slots /\ begun \in Nat
  BY DEF Console!ConsoleInv, Console!TypeInv
<1>2. DOMAIN req' = Console!Slots
      /\ \A s \in Console!Slots : req'[s] = IF s = r THEN Console!NoRequest ELSE req[s]
  BY <1>1 DEF Console!End
<1>3. Console!NoRequest.op = "none"
  BY DEF Console!NoRequest
<1>4. \A s \in Console!Slots : req'[s].op # "none" => s # r /\ req'[s] = req[s]
  BY <1>2, <1>3
<1>5. QED
  BY <1>1, <1>2, <1>4 DEF Console!ConsoleInv, Console!LoneInv

\* A commit that leaves slots and the last batch alone.
LEMMA ConsoleCommits ==
  ASSUME Console!ConsoleInv, NEW r \in Console!Slots, Console!End(r),
         UNCHANGED <<begun, immune, slots, batch, crossed>>,
         Console!TypeOK', Console!AutoInv', Console!ImmunesAreSpared', Console!SlotsStand',
         Console!GivenDutiesStand', Console!OneVexEach', given' \subseteq Comrades
  PROVE  Console!ConsoleInv'
<1>1. /\ DOMAIN req' = Console!Slots /\ begun' \in Nat /\ begun <= begun'
      /\ \A s \in Console!Slots : req'[s] = req[s] \/ req'[s] = Console!NoRequest
  BY ConsoleEnds
<1>2. /\ \A s \in Console!Slots : Console!RequestInv(req[s])'
      /\ IsFiniteSet(slots') /\ \A s \in slots' : s.conf \in 1..begun'
      /\ Console!LoneInv' /\ Console!FreshInv' /\ Console!SpreadInv' /\ Console!BatchInv'
  BY <1>1, ConsoleGoesOn
<1>3. Console!TypeInv'
  BY <1>1, <1>2, ConsoleFinite DEF Console!TypeInv
<1>4. QED
  BY <1>2, <1>3 DEF Console!ConsoleInv

LEMMA CommitGuardInv ==
  ASSUME Console!ConsoleInv, NEW r \in Console!Slots, Console!CommitGuard(r)
  PROVE  Console!ConsoleInv'
<1>1. PICK q : q = req[r]
  OBVIOUS
<1>2. /\ q.op = "guard" /\ Console!End(r)
      /\ UNCHANGED <<present, immune, slots, duty, vexes, vexed, buddies, begun, given, batch, crossed>>
  BY <1>1 DEF Console!CommitGuard
<1>3. Console!RequestInv(q)
  BY <1>1 DEF Console!ConsoleInv, Console!TypeInv
<1>4. /\ q.who \in Console!People /\ q.n \in 1..MaxSlots
      /\ q.slot # Console!NoSlot => q.slot.number = q.n
      /\ q.override \/ Console!Unasked({q.who})
  BY <1>2, <1>3 DEF Console!RequestInv
<1>5. PICK g : g = [who |-> q.who, number |-> q.n, slot |-> q.slot, by |-> "hand"]
  OBVIOUS
<1>6. g.who = q.who /\ g.number = q.n /\ g.slot = q.slot /\ g.by = "hand"
  BY <1>5
<1>7. \/ /\ q.slot = Console!NoSlot \/ q.slot \in slots
         /\ \A h \in guard : h.who = q.who => h.number # q.n
         /\ guard' = guard \cup {g}
         /\ pressed' = pressed \cup (IF q.override THEN {} ELSE {q.who} \cap immune)
      \/ UNCHANGED <<guard, pressed>>
  BY <1>1, <1>5 DEF Console!CommitGuard, Console!Standing, Console!Rows
<1>8. Console!TypeOK'
  <2>1. /\ \A h \in guard' : h.who \in Console!People /\ h.number \in 1..MaxSlots /\ h.by \in {"hand", "auto"}
        /\ \A h, i \in guard' : h.who = i.who /\ h.number = i.number => h = i
    BY <1>4, <1>6, <1>7 DEF Console!ConsoleInv, Console!TypeInv, Console!TypeOK
  <2>2. QED
    BY <1>2, <2>1 DEF Console!ConsoleInv, Console!TypeInv, Console!TypeOK
<1>9. Console!AutoInv'
  <2>1. \A h \in guard' : h \in guard \/ h.by = "hand"
    BY <1>6, <1>7
  <2>2. \A s \in Console!Slots : req'[s] = req[s] \/ req'[s] = Console!NoRequest
    BY <1>2, ConsoleEnds
  <2>3. QED
    BY <1>2, <2>1, <2>2, AutoStays
<1>10. Console!ImmunesAreSpared'
  BY <1>2, <1>4, <1>7 DEF Console!ConsoleInv, Console!ImmunesAreSpared, Console!Unasked
<1>11. Console!SlotsStand'
  <2>1. "configure" \notin crossed => \A h \in guard' : h.slot # Console!NoSlot =>
          h.slot \in slots /\ h.slot.number = h.number
    BY <1>4, <1>6, <1>7 DEF Console!ConsoleInv, Console!SlotsStand
  <2>2. QED
    BY <1>2, <2>1 DEF Console!ConsoleInv, Console!SlotsStand
<1>12. Console!GivenDutiesStand' /\ Console!OneVexEach'
  BY <1>2 DEF Console!ConsoleInv, Console!GivenDutiesStand, Console!OneVexEach
<1>13. given' \subseteq Comrades
  BY <1>2 DEF Console!ConsoleInv, Console!TypeInv
<1>14. QED
  BY <1>2, <1>8, <1>9, <1>10, <1>11, <1>12, <1>13, ConsoleCommits

\* A commit about duties.
LEMMA ConsoleDuties ==
  ASSUME Console!ConsoleInv, NEW r \in Console!Slots, Console!End(r),
         UNCHANGED <<present, immune, slots, guard, vexes, vexed, buddies, begun, batch, crossed>>,
         duty' \in [Comrades -> {"none", "ad_hoc", "geo_team"}], pressed' \subseteq crossed,
         given' \subseteq Comrades, Console!GivenDutiesStand'
  PROVE  Console!ConsoleInv'
<1>1. Console!TypeOK'
  BY DEF Console!ConsoleInv, Console!TypeInv, Console!TypeOK
<1>2. Console!AutoInv'
  <2>1. \A s \in Console!Slots : req'[s] = req[s] \/ req'[s] = Console!NoRequest
    BY ConsoleEnds
  <2>2. QED
    BY <2>1, AutoStays
<1>3. Console!ImmunesAreSpared' /\ Console!SlotsStand' /\ Console!OneVexEach'
  BY DEF Console!ConsoleInv, Console!ImmunesAreSpared, Console!SlotsStand, Console!OneVexEach
<1>4. QED
  BY <1>1, <1>2, <1>3, ConsoleCommits

LEMMA CommitDutyInv ==
  ASSUME Console!ConsoleInv, NEW r \in Console!Slots, Console!CommitDuty(r)
  PROVE  Console!ConsoleInv'
<1>1. PICK q : q = req[r]
  OBVIOUS
<1>2. /\ q.op = "duty" /\ Console!End(r)
      /\ UNCHANGED <<present, immune, slots, guard, vexes, vexed, buddies, begun, batch, crossed>>
      /\ \/ /\ duty' = [duty EXCEPT ![q.who] = "ad_hoc"] /\ given' = given \cup {q.who}
            /\ pressed' = pressed \cup (IF q.override THEN {} ELSE {q.who} \cap immune)
         \/ UNCHANGED <<duty, given, pressed>>
  BY <1>1 DEF Console!CommitDuty
<1>3. Console!RequestInv(q) /\ duty \in [Comrades -> {"none", "ad_hoc", "geo_team"}]
      /\ pressed \subseteq crossed /\ \A m \in given : m \in Comrades /\ duty[m] = "ad_hoc"
  BY <1>1 DEF Console!ConsoleInv, Console!TypeInv, Console!TypeOK, Console!ImmunesAreSpared,
              Console!GivenDutiesStand
<1>4. q.who \in Comrades /\ (q.override \/ Console!Unasked({q.who}))
  BY <1>2, <1>3 DEF Console!RequestInv
<1>5. duty' \in [Comrades -> {"none", "ad_hoc", "geo_team"}]
  BY <1>2, <1>3
<1>6. pressed' \subseteq crossed
  BY <1>2, <1>3, <1>4 DEF Console!Unasked
<1>7. Console!GivenDutiesStand'
  <2>1. CASE UNCHANGED <<duty, given, pressed>>
    BY <1>3, <2>1 DEF Console!GivenDutiesStand
  <2>2. CASE duty' = [duty EXCEPT ![q.who] = "ad_hoc"] /\ given' = given \cup {q.who}
    <3>1. duty'[q.who] = "ad_hoc" /\ \A m \in Comrades : m # q.who => duty'[m] = duty[m]
      BY <1>3, <1>4, <2>2
    <3>2. QED
      BY <1>3, <2>2, <3>1 DEF Console!GivenDutiesStand
  <2>3. QED
    BY <1>2, <2>1, <2>2
<1>8. given' \subseteq Comrades
  BY <1>2, <1>3, <1>4
<1>9. QED
  BY <1>2, <1>5, <1>6, <1>7, <1>8, ConsoleDuties

LEMMA CommitDutyTeamInv ==
  ASSUME Console!ConsoleInv, NEW r \in Console!Slots, Console!CommitDutyTeam(r)
  PROVE  Console!ConsoleInv'
<1>1. PICK q : q = req[r]
  OBVIOUS
<1>2. /\ q.op = "team" /\ Console!End(r)
      /\ UNCHANGED <<present, immune, slots, guard, vexes, vexed, buddies, begun, given, batch, crossed>>
      /\ \/ /\ \A m \in q.who : duty[m] = "none"
            /\ duty' = [m \in Comrades |-> IF m \in q.who THEN "geo_team" ELSE duty[m]]
            /\ pressed' = pressed \cup (q.who \cap immune)
         \/ UNCHANGED <<duty, pressed>>
  BY <1>1 DEF Console!CommitDutyTeam, Console!StillFree
<1>3. Console!RequestInv(q) /\ duty \in [Comrades -> {"none", "ad_hoc", "geo_team"}]
      /\ pressed \subseteq crossed /\ \A m \in given : m \in Comrades /\ duty[m] = "ad_hoc"
  BY <1>1 DEF Console!ConsoleInv, Console!TypeInv, Console!TypeOK, Console!ImmunesAreSpared,
              Console!GivenDutiesStand
<1>4. q.who \subseteq Comrades /\ Console!Unasked(q.who)
  BY <1>2, <1>3 DEF Console!RequestInv
<1>5. duty' \in [Comrades -> {"none", "ad_hoc", "geo_team"}]
  BY <1>2, <1>3
<1>6. pressed' \subseteq crossed
  BY <1>2, <1>3, <1>4 DEF Console!Unasked
<1>7. Console!GivenDutiesStand'
  <2>1. \A m \in given : duty'[m] = duty[m]
    BY <1>2, <1>3
  <2>2. QED
    BY <1>2, <1>3, <2>1 DEF Console!GivenDutiesStand
<1>8. given' \subseteq Comrades
  BY <1>2, <1>3, <1>4
<1>9. QED
  BY <1>2, <1>5, <1>6, <1>7, <1>8, ConsoleDuties


\* New slots are finitely many.
LEMMA NewSlots ==
  ASSUME NEW c, NEW n \in Nat
  PROVE  IsFiniteSet({[conf |-> c, number |-> i] : i \in 1..n})
<1>1. PICK T : T = {[conf |-> c, number |-> i] : i \in 1..n}
  OBVIOUS
<1>2. PICK f : f = [i \in 1..n |-> [conf |-> c, number |-> i]]
  OBVIOUS
<1>3. f \in [1..n -> T] /\ \A t \in T : \E i \in 1..n : f[i] = t
  BY <1>1, <1>2
<1>4. f \in Surjection(1..n, T)
  BY <1>3 DEF Surjection
<1>5. IsFiniteSet(1..n)
  BY FS_Interval
<1>6. QED
  BY <1>1, <1>4, <1>5, FS_Surjection

LEMMA CommitConfigureInv ==
  ASSUME Console!Sound, Console!ConsoleInv, NEW r \in Console!Slots, Console!CommitConfigure(r)
  PROVE  Console!ConsoleInv'
<1>1. PICK q : q = req[r]
  OBVIOUS
<1>2. /\ q.op = "configure" /\ Console!End(r)
      /\ UNCHANGED <<present, immune, guard, duty, vexes, vexed, buddies, begun, given, pressed,
                     batch, crossed>>
  BY <1>1 DEF Console!CommitConfigure
<1>3. PICK new : new = {[conf |-> q.conf, number |-> i] : i \in 1..q.n}
  OBVIOUS
<1>4. \/ UNCHANGED slots
      \/ slots' = (slots \ q.old) \cup new /\ \A g \in guard : g.slot \notin q.old
  BY <1>1, <1>3 DEF Console!CommitConfigure, Console!Replaced
<1>5. Console!GivenDutiesStand' /\ Console!OneVexEach' /\ Console!ImmunesAreSpared'
      /\ given' \subseteq Comrades
  BY <1>2 DEF Console!ConsoleInv, Console!TypeInv, Console!GivenDutiesStand, Console!OneVexEach,
              Console!ImmunesAreSpared
<1>6. Console!AutoInv'
  <2>1. \A s \in Console!Slots : req'[s] = req[s] \/ req'[s] = Console!NoRequest
    BY <1>2, ConsoleEnds
  <2>2. QED
    BY <1>2, <2>1, AutoStays
<1>7. CASE UNCHANGED slots
  <2>1. Console!TypeOK' /\ Console!SlotsStand'
    BY <1>2, <1>7 DEF Console!ConsoleInv, Console!TypeInv, Console!TypeOK, Console!SlotsStand
  <2>2. QED
    BY <1>2, <1>5, <1>6, <1>7, <2>1, ConsoleCommits
<1>8. CASE slots' = (slots \ q.old) \cup new /\ \A g \in guard : g.slot \notin q.old
  <2>1. /\ DOMAIN req' = Console!Slots /\ begun' \in Nat /\ begun' = begun
        /\ \A s \in Console!Slots : req'[s].op # "none" => s # r /\ req'[s] = req[s]
        /\ "configure" \notin crossed => \A s \in Console!Slots : req'[s].op # "configure"
    BY <1>1, <1>2, ConsoleEnds
  <2>2. /\ \A s \in Console!Slots : Console!RequestInv(req[s])
        /\ IsFiniteSet(slots) /\ \A s \in slots : s.conf \in 1..begun
        /\ \A s \in slots : s.number \in 1..MaxSlots /\ s.conf \in 1..ConsoleRequests
    BY ConsoleFinite DEF Console!ConsoleInv, Console!TypeInv, Console!TypeOK
  <2>3. /\ q.conf \in 1..ConsoleRequests /\ q.conf \in 1..begun /\ q.n \in 1..MaxSlots
        /\ "configure" \notin crossed => q.old = slots
    BY <1>1, <1>2, <2>2 DEF Console!RequestInv
  <2>4. \A s \in new : /\ s.conf = q.conf /\ s.number \in 1..MaxSlots
                       /\ \A t \in new : s.number = t.number => s = t
    <3>1. q.n \in Nat /\ \A i \in 1..q.n : i \in 1..MaxSlots
      BY <2>3 DEF Console!Sound
    <3>2. \A s \in new : \E i \in 1..q.n : s = [conf |-> q.conf, number |-> i]
      BY <1>3
    <3>3. QED
      BY <3>1, <3>2
  <2>5. IsFiniteSet(new)
    <3>1. PICK c, n \in Nat : c = q.conf /\ n = q.n
      BY <2>3 DEF Console!Sound
    <3>2. QED
      BY <1>3, <3>1, NewSlots
  <2>6. IsFiniteSet(slots')
    BY <1>8, <2>2, <2>5, FS_Union, FS_Subset
  <2>7. \A s \in slots' : s.conf \in 1..begun' /\ s.number \in 1..MaxSlots /\ s.conf \in 1..ConsoleRequests
    BY <1>8, <2>1, <2>2, <2>3, <2>4
  <2>8. ASSUME NEW s \in Console!Slots PROVE Console!RequestInv(req[s])'
    <3>1. PICK p : p = req'[s]
      OBVIOUS
    <3>2. CASE p.op = "none"
      BY <3>1, <3>2 DEF Console!RequestInv
    <3>3. CASE p.op # "none"
      <4>1. Console!RequestInv(p)
        BY <2>1, <2>2, <3>1, <3>3
      <4>2. p.op = "configure" => "configure" \in crossed
        BY <2>1, <3>1
      <4>3. QED
        BY <1>2, <3>1, <4>1, <4>2 DEF Console!RequestInv, Console!Unasked
    <3>4. QED
      BY <3>2, <3>3
  <2>9. Console!TypeInv'
    <3>1. Console!TypeOK'
      BY <1>2, <2>7 DEF Console!ConsoleInv, Console!TypeInv, Console!TypeOK
    <3>2. QED
      BY <1>5, <2>1, <2>6, <2>7, <2>8, <3>1, ConsoleFinite DEF Console!TypeInv
  <2>10. Console!LoneInv' /\ Console!BatchInv'
    BY <1>2, <2>1 DEF Console!ConsoleInv, Console!LoneInv, Console!BatchInv
  <2>11. Console!FreshInv'
    BY <1>2, <2>1 DEF Console!FreshInv
  <2>12. ASSUME "configure" \notin crossed PROVE slots' = new /\ \A s \in new : s.conf = q.conf
    BY <1>8, <2>3, <2>4, <2>12
  <2>13. Console!SpreadInv'
    <3>1. SUFFICES ASSUME "configure" \notin crossed PROVE Console!SpreadInv'
      BY <1>2 DEF Console!SpreadInv
    <3>2. /\ \A g \in batch : g.slot.conf # q.conf
          /\ \A s \in Console!Slots : req[s].op = "auto" =>
               \A p \in DOMAIN req[s].posts : req[s].posts[p].conf # q.conf
      BY <1>1, <1>2, <3>1 DEF Console!ConsoleInv, Console!FreshInv
    <3>3. Console!Cardinality({}) = 0
      BY ConsoleCounts, FS_EmptySet
    <3>4. {g.slot : g \in batch'} \subseteq slots' =>
            \A s, t \in slots' : Console!Cardinality({g \in batch' : g.slot = s})
                                   <= Console!Cardinality({g \in batch' : g.slot = t}) + 1
      <4>1. SUFFICES ASSUME {g.slot : g \in batch'} \subseteq slots', NEW s, NEW t
                     PROVE  Console!Cardinality({g \in batch' : g.slot = s})
                              <= Console!Cardinality({g \in batch' : g.slot = t}) + 1
        OBVIOUS
      <4>2. batch' = {}
        BY <1>2, <2>12, <3>1, <3>2, <4>1
      <4>3. {g \in batch' : g.slot = s} = {} /\ {g \in batch' : g.slot = t} = {}
        BY <4>2
      <4>4. QED
        BY <3>3, <4>3
    <3>5. ASSUME NEW u \in Console!Slots, req'[u].op = "auto", NEW posts, posts = req'[u].posts,
                 \A x \in DOMAIN posts : posts[x] \in slots'
          PROVE  \A s, t \in slots' : Console!Cardinality(Console!Posted(posts, s))
                                        <= Console!Cardinality(Console!Posted(posts, t)) + 1
      <4>1. \A x \in DOMAIN posts : posts[x].conf # q.conf
        BY <2>1, <3>2, <3>5
      <4>2. DOMAIN posts = {}
        BY <2>12, <3>1, <3>5, <4>1
      <4>3. \A s : Console!Posted(posts, s) = {}
        BY <4>2 DEF Console!Posted
      <4>4. QED
        BY <3>3, <4>3
    <3>6. QED
      BY <3>4, <3>5 DEF Console!SpreadInv
  <2>14. Console!SlotsStand'
    <3>1. SUFFICES ASSUME "configure" \notin crossed
                   PROVE  /\ \A s, t \in slots' : s.number = t.number => s = t
                          /\ \A g \in guard : g.slot # Console!NoSlot =>
                               g.slot \in slots' /\ g.slot.number = g.number
      BY <1>2 DEF Console!SlotsStand
    <3>2. \A s, t \in slots' : s.number = t.number => s = t
      BY <2>4, <2>12, <3>1
    <3>3. \A g \in guard : g.slot = Console!NoSlot
      BY <1>8, <2>3, <3>1 DEF Console!ConsoleInv, Console!SlotsStand
    <3>4. QED
      BY <3>2, <3>3
  <2>15. QED
    BY <1>5, <1>6, <2>9, <2>10, <2>11, <2>13, <2>14 DEF Console!ConsoleInv
<1>9. QED
  BY <1>4, <1>7, <1>8

\* Rows of guard duty, one for each of those assigned, are as many as they are.
LEMMA RowsAreAsMany ==
  ASSUME NEW posts, IsFiniteSet(DOMAIN posts), NEW rows, NEW s,
         \A g \in rows : g.who \in DOMAIN posts /\ g.slot = posts[g.who],
         \A g, h \in rows : g.who = h.who => g = h,
         \A p \in DOMAIN posts : \E g \in rows : g.who = p
  PROVE  /\ Cardinality({g \in rows : g.slot = s}) = Cardinality(Dealt(DOMAIN posts, posts, s))
         /\ Cardinality(Dealt(DOMAIN posts, posts, s)) \in Nat
<1>1. PICK G, P : G = {g \in rows : g.slot = s} /\ P = Dealt(DOMAIN posts, posts, s)
  OBVIOUS
<1>2. IsFiniteSet(P)
  BY <1>1, FS_Subset DEF Dealt
<1>3. PICK f : f = [g \in G |-> g.who]
  OBVIOUS
<1>4. f \in [G -> P] /\ \A g, h \in G : f[g] = f[h] => g = h
  BY <1>1, <1>3 DEF Dealt
<1>5. IsFiniteSet(G) /\ Cardinality(G) <= Cardinality(P)
  BY <1>2, <1>4, Embedding
<1>6. PICK e : e = [p \in P |-> CHOOSE g \in rows : g.who = p]
  OBVIOUS
<1>7. \A p \in P : e[p] \in G /\ e[p].who = p
  BY <1>1, <1>6 DEF Dealt
<1>8. e \in [P -> G] /\ \A p, x \in P : e[p] = e[x] => p = x
  BY <1>6, <1>7
<1>9. Cardinality(P) <= Cardinality(G)
  BY <1>5, <1>8, Embedding
<1>10. Cardinality(P) \in Nat /\ Cardinality(G) \in Nat
  BY <1>2, <1>5, FS_CardinalityType
<1>11. Cardinality(G) = Cardinality(P)
  BY <1>5, <1>9, <1>10
<1>12. QED
  BY <1>1, <1>10, <1>11


LEMMA CommitAutoInv ==
  ASSUME Console!Sound, Console!ConsoleInv, NEW r \in Console!Slots, Console!CommitAuto(r)
  PROVE  Console!ConsoleInv'
<1>1. PICK q, posts, D : q = req[r] /\ posts = q.posts /\ D = DOMAIN q.posts
  OBVIOUS
<1>2. PICK new : new = {[who |-> p, number |-> posts[p].number, slot |-> posts[p], by |-> "auto"] : p \in D}
  OBVIOUS
<1>3. /\ q.op = "auto" /\ Console!End(r)
      /\ UNCHANGED <<present, immune, slots, duty, vexes, vexed, buddies, begun, given, crossed>>
      /\ \/ /\ \A d \in new : Console!Standing(d.slot) /\ \A g \in Console!Rows(d.who) : g.number # d.number
            /\ guard' = guard \cup new /\ batch' = new /\ pressed' = pressed \cup (D \cap immune)
         \/ UNCHANGED <<guard, batch, pressed>>
  BY <1>1, <1>2 DEF Console!CommitAuto
<1>4. \A s \in Console!Slots : req'[s] = req[s] \/ req'[s] = Console!NoRequest
  BY <1>3, ConsoleEnds
<1>5. Console!GivenDutiesStand' /\ Console!OneVexEach' /\ given' \subseteq Comrades
  BY <1>3 DEF Console!ConsoleInv, Console!TypeInv, Console!GivenDutiesStand, Console!OneVexEach
<1>6. CASE UNCHANGED <<guard, batch, pressed>>
  <2>1. Console!TypeOK' /\ Console!SlotsStand' /\ Console!ImmunesAreSpared'
    BY <1>3, <1>6 DEF Console!ConsoleInv, Console!TypeInv, Console!TypeOK, Console!SlotsStand,
                      Console!ImmunesAreSpared
  <2>2. Console!AutoInv'
    BY <1>3, <1>4, <1>6, AutoStays
  <2>3. QED
    BY <1>3, <1>5, <1>6, <2>1, <2>2, ConsoleCommits
<1>7. CASE /\ \A d \in new : Console!Standing(d.slot) /\ \A g \in Console!Rows(d.who) : g.number # d.number
           /\ guard' = guard \cup new /\ batch' = new /\ pressed' = pressed \cup (D \cap immune)
  <2>1. Console!RequestInv(q)
    BY <1>1 DEF Console!ConsoleInv, Console!TypeInv
  <2>2. /\ D \subseteq Console!People /\ Console!Unasked(D)
        /\ \A p \in D : posts[p].number \in 1..MaxSlots
    BY <1>1, <1>3, <2>1 DEF Console!RequestInv
  <2>3. \A d \in new : /\ d.who \in D /\ d.number = posts[d.who].number /\ d.slot = posts[d.who]
                       /\ d.by = "auto" /\ \A e \in new : d.who = e.who => d = e
    <3>1. \A d \in new : d = [who |-> d.who, number |-> posts[d.who].number, slot |-> posts[d.who],
                              by |-> "auto"] /\ d.who \in D
      <4>1. SUFFICES ASSUME NEW p \in D,
                            NEW d, d = [who |-> p, number |-> posts[p].number, slot |-> posts[p], by |-> "auto"]
                     PROVE  d.who = p
        BY <1>2
      <4>2. QED
        BY <4>1
    <3>2. QED
      BY <3>1
  <2>4. \A p \in D : \E d \in new : d.who = p
    <3>1. SUFFICES ASSUME NEW p \in D PROVE \E d \in new : d.who = p
      OBVIOUS
    <3>2. [who |-> p, number |-> posts[p].number, slot |-> posts[p], by |-> "auto"] \in new
      BY <1>2
    <3>3. QED
      BY <3>2
  <2>5. Console!NoSlot.number = 0
    BY DEF Console!NoSlot
  <2>6. \A d \in new : d.slot \in slots /\ d.slot.number = d.number
    <3>1. \A d \in new : d.slot # Console!NoSlot
      BY <2>2, <2>3, <2>5 DEF Console!Sound
    <3>2. QED
      BY <1>7, <2>3, <3>1 DEF Console!Standing
  <2>7. \A d \in new : \A g \in guard : g.who = d.who => g.number # d.number
    BY <1>7 DEF Console!Rows
  <2>8. Console!TypeOK'
    <3>1. \A g \in guard' : /\ g.who \in Console!People /\ g.number \in 1..MaxSlots
                            /\ g.by \in {"hand", "auto"}
      BY <1>7, <2>2, <2>3 DEF Console!ConsoleInv, Console!TypeInv, Console!TypeOK
    <3>2. \A g, h \in guard' : g.who = h.who /\ g.number = h.number => g = h
      BY <1>7, <2>3, <2>7 DEF Console!ConsoleInv, Console!TypeInv, Console!TypeOK
    <3>3. QED
      BY <1>3, <3>1, <3>2 DEF Console!ConsoleInv, Console!TypeInv, Console!TypeOK
  <2>9. Console!AutoInv'
    <3>1. SUFFICES ASSUME "auto" \notin crossed
                   PROVE  /\ \A g, h \in guard' : g.by = "auto" /\ h.by = "auto" /\ g.who = h.who => g = h
                          /\ \A s \in Console!Slots : req'[s].op # "auto"
      BY <1>3 DEF Console!AutoInv
    <3>2. \A s \in Console!Slots : req'[s].op # "auto"
      BY <1>1, <1>3, <3>1, ConsoleEnds
    <3>3. /\ \A g, h \in guard : g.by = "auto" /\ h.by = "auto" /\ g.who = h.who => g = h
          /\ \A g \in guard : g.by = "auto" => g.who \notin D
      BY <1>1, <1>3, <3>1 DEF Console!ConsoleInv, Console!AutoInv
    <3>4. \A g, h \in guard' : g.by = "auto" /\ h.by = "auto" /\ g.who = h.who => g = h
      BY <1>7, <2>3, <3>3
    <3>5. QED
      BY <3>2, <3>4
  <2>10. Console!ImmunesAreSpared'
    BY <1>3, <1>7, <2>2 DEF Console!ConsoleInv, Console!ImmunesAreSpared, Console!Unasked
  <2>11. Console!SlotsStand'
    BY <1>3, <1>7, <2>6 DEF Console!ConsoleInv, Console!SlotsStand
  <2>12. ASSUME "configure" \notin crossed
         PROVE  \A s, t \in slots : Console!Cardinality({g \in new : g.slot = s})
                                      <= Console!Cardinality({g \in new : g.slot = t}) + 1
    <3>1. \A p \in D : posts[p] \in slots
      BY <2>3, <2>4, <2>6
    <3>2. \A s, t \in slots : Console!Cardinality(Console!Posted(posts, s))
                                <= Console!Cardinality(Console!Posted(posts, t)) + 1
      BY <1>1, <1>3, <2>12, <3>1 DEF Console!ConsoleInv, Console!SpreadInv
    <3>3. \A s : Console!Posted(posts, s) = Dealt(D, posts, s)
      BY <1>1 DEF Console!Posted, Dealt
    <3>4. IsFiniteSet(D)
      <4>1. IsFiniteSet(Comrades) /\ IsFiniteSet(Guests)
        BY ConsoleFinite DEF Console!Sound
      <4>2. IsFiniteSet(Console!People)
        BY <4>1, FS_Union DEF Console!People
      <4>3. QED
        BY <2>2, <4>2, FS_Subset
    <3>5. DOMAIN posts = D
      BY <1>1
    <3>6. \A s : Cardinality({g \in new : g.slot = s}) = Cardinality(Dealt(D, posts, s))
      BY <2>3, <2>4, <3>4, <3>5, RowsAreAsMany
    <3>7. QED
      BY <3>2, <3>3, <3>6, ConsoleCounts
  <2>13. /\ DOMAIN req' = Console!Slots /\ begun' \in Nat /\ begun <= begun'
         /\ \A g \in batch' : g \in batch \/ g.slot \in slots
    BY <1>3, <1>7, <2>6, ConsoleEnds
  <2>14. /\ \A s \in Console!Slots : Console!RequestInv(req[s])'
         /\ IsFiniteSet(slots') /\ \A s \in slots' : s.conf \in 1..begun'
         /\ Console!LoneInv' /\ Console!FreshInv' /\ Console!SpreadInv' /\ Console!BatchInv'
    BY <1>3, <1>4, <1>7, <2>12, <2>13, ConsoleGoesOn
  <2>15. Console!TypeInv'
    BY <1>5, <2>8, <2>13, <2>14, ConsoleFinite DEF Console!TypeInv
  <2>16. QED
    BY <1>5, <2>9, <2>10, <2>11, <2>14, <2>15 DEF Console!ConsoleInv
<1>8. QED
  BY <1>3, <1>6, <1>7

LEMMA RelieveInv ==
  ASSUME Console!ConsoleInv, NEW g, Console!Relieve(g)
  PROVE  Console!ConsoleInv'
<1>1. /\ begun' = begun + 1 /\ guard' = guard \ {g}
      /\ UNCHANGED <<present, immune, slots, batch, req, crossed, pressed, duty, vexes, vexed,
                     buddies, given>>
  BY DEF Console!Relieve, Console!Count, Console!hist
<1>2. Console!TypeOK' /\ Console!GivenDutiesStand' /\ Console!OneVexEach'
  BY <1>1 DEF Console!ConsoleInv, Console!TypeInv, Console!TypeOK, Console!GivenDutiesStand,
              Console!OneVexEach
<1>3. QED
  BY <1>1, <1>2, ConsoleWorld

LEMMA UnassignInv ==
  ASSUME Console!ConsoleInv, NEW m \in Comrades, Console!Unassign(m)
  PROVE  Console!ConsoleInv'
<1>1. /\ begun' = begun + 1 /\ duty' = [duty EXCEPT ![m] = "none"] /\ given' = given \ {m}
      /\ UNCHANGED <<present, immune, slots, batch, req, crossed, pressed, guard, vexes, vexed, buddies>>
  BY DEF Console!Unassign, Console!Count
<1>2. /\ duty \in [Comrades -> {"none", "ad_hoc", "geo_team"}]
      /\ \A x \in given : x \in Comrades /\ duty[x] = "ad_hoc"
  BY DEF Console!ConsoleInv, Console!TypeInv, Console!TypeOK, Console!GivenDutiesStand
<1>3. duty' \in [Comrades -> {"none", "ad_hoc", "geo_team"}] /\ \A x \in given' : duty'[x] = "ad_hoc"
  BY <1>1, <1>2
<1>4. Console!TypeOK' /\ Console!GivenDutiesStand' /\ Console!OneVexEach'
  BY <1>1, <1>3 DEF Console!ConsoleInv, Console!TypeInv, Console!TypeOK, Console!GivenDutiesStand,
                    Console!OneVexEach
<1>5. QED
  BY <1>1, <1>4, ConsoleWorld

\* Vexillations and buddies.
LEMMA TeamsInv ==
  ASSUME Console!ConsoleInv, Console!TeamsNext
  PROVE  Console!ConsoleInv'
<1>1. /\ vexed \subseteq vexes \X Console!People /\ vexes \subseteq Vexes
      /\ \A p \in buddies : p \in Console!People \X (Console!People \cup {"nobody"})
      /\ \A x, y \in vexed : x[2] = y[2] /\ x[2] \in Comrades => x = y
  BY DEF Console!ConsoleInv, Console!TypeInv, Console!TypeOK, Console!OneVexEach
<1>3. /\ begun' = begun + 1
      /\ UNCHANGED <<present, immune, slots, batch, req, crossed, pressed, guard, duty, given>>
  BY DEF Console!TeamsNext, Console!CreateVex, Console!DeleteVex, Console!AssignVex, Console!PairBuddy,
         Console!UnpairBuddy, Console!Count, Console!hist
<1>4. \/ \E v \in Vexes : vexes' = vexes \cup {v} /\ UNCHANGED <<vexed, buddies>>
      \/ \E v \in Vexes : /\ vexes' = vexes \ {v} /\ vexed' = vexed \ {x \in vexed : x[1] = v}
                          /\ UNCHANGED buddies
      \/ \E v \in vexes, who \in Console!People :
           /\ vexed' = (vexed \ (IF who \in Comrades THEN {x \in vexed : x[2] = who} ELSE {})) \cup {<<v, who>>}
           /\ UNCHANGED <<vexes, buddies>>
      \/ \E a \in Console!People, b \in Console!People \cup {"nobody"} :
           buddies' = buddies \cup {<<a, b>>} /\ UNCHANGED <<vexes, vexed>>
      \/ buddies' \subseteq buddies /\ UNCHANGED <<vexes, vexed>>
  BY DEF Console!TeamsNext, Console!CreateVex, Console!DeleteVex, Console!AssignVex, Console!PairBuddy,
         Console!UnpairBuddy, Console!Cascaded, Console!Left
<1>5. /\ vexed' \subseteq vexes' \X Console!People /\ vexes' \subseteq Vexes
      /\ \A p \in buddies' : p \in Console!People \X (Console!People \cup {"nobody"})
      /\ \A x, y \in vexed' : x[2] = y[2] /\ x[2] \in Comrades => x = y
  <2>1. CASE \E v \in Vexes : vexes' = vexes \cup {v} /\ UNCHANGED <<vexed, buddies>>
    BY <1>1, <2>1
  <2>2. CASE \E v \in Vexes : /\ vexes' = vexes \ {v} /\ vexed' = vexed \ {x \in vexed : x[1] = v}
                              /\ UNCHANGED buddies
    BY <1>1, <2>2
  <2>3. CASE \E v \in vexes, who \in Console!People :
           /\ vexed' = (vexed \ (IF who \in Comrades THEN {x \in vexed : x[2] = who} ELSE {})) \cup {<<v, who>>}
           /\ UNCHANGED <<vexes, buddies>>
    BY <1>1, <2>3
  <2>4. CASE \E a \in Console!People, b \in Console!People \cup {"nobody"} :
           buddies' = buddies \cup {<<a, b>>} /\ UNCHANGED <<vexes, vexed>>
    BY <1>1, <2>4
  <2>5. CASE buddies' \subseteq buddies /\ UNCHANGED <<vexes, vexed>>
    BY <1>1, <2>5
  <2>6. QED
    BY <1>4, <2>1, <2>2, <2>3, <2>4, <2>5
<1>6. Console!TypeOK'
  BY <1>3, <1>5 DEF Console!ConsoleInv, Console!TypeInv, Console!TypeOK
<1>7. Console!OneVexEach'
  BY <1>5 DEF Console!OneVexEach
<1>8. Console!GivenDutiesStand'
  BY <1>3 DEF Console!ConsoleInv, Console!GivenDutiesStand
<1>9. QED
  BY <1>3, <1>6, <1>7, <1>8, ConsoleWorld

LEMMA ConsoleKept ==
  Console!Sound /\ Console!ConsoleInv /\ ConsoleSteps => Console!ConsoleInv'
<1> SUFFICES ASSUME Console!Sound, Console!ConsoleInv, ConsoleSteps PROVE Console!ConsoleInv'
  OBVIOUS
<1>1. CASE Console!AnybodyNext
  <2>1. present \subseteq Console!People /\ Comrades \subseteq Console!People /\ Guests \subseteq Console!People
    BY DEF Console!ConsoleInv, Console!TypeInv, Console!TypeOK, Console!People
  <2>2. ASSUME NEW m \in Comrades, Console!CheckIn(m) PROVE Console!ConsoleInv'
    BY <2>1, <2>2, ConsolePresence DEF Console!CheckIn, Console!Count
  <2>3. ASSUME NEW m \in Comrades, Console!UncheckIn(m) PROVE Console!ConsoleInv'
    BY <2>1, <2>3, ConsolePresence DEF Console!UncheckIn, Console!Count
  <2>4. ASSUME NEW m \in Comrades, Console!ToggleImmunes(m) PROVE Console!ConsoleInv'
    BY <2>4, ConsoleToggle
  <2>5. ASSUME NEW g \in Guests, Console!WalkIn(g) PROVE Console!ConsoleInv'
    BY <2>1, <2>5, ConsolePresence DEF Console!WalkIn, Console!Count
  <2>6. QED
    BY <1>1, <2>2, <2>3, <2>4, <2>5 DEF Console!AnybodyNext
<1>2. CASE Console!GuardNext
  <2>1. ASSUME NEW n \in 1..MaxSlots, Console!Configure(n) PROVE Console!ConsoleInv'
    BY <2>1, ConfigureBegins
  <2>2. ASSUME NEW who \in Console!People, NEW n \in 1..MaxSlots, NEW override \in BOOLEAN,
               Console!Guard(who, n, override)
        PROVE  Console!ConsoleInv'
    BY <2>2, GuardBegins
  <2>3. ASSUME NEW r \in Console!Slots,
               Console!CommitConfigure(r) \/ Console!CommitGuard(r) \/ Console!CommitAuto(r)
        PROVE  Console!ConsoleInv'
    BY <2>3, CommitConfigureInv, CommitGuardInv, CommitAutoInv
  <2>4. QED
    BY <1>2, <2>1, <2>2, <2>3, AutoBegins, RelieveInv DEF Console!GuardNext
<1>3. CASE Console!DutyNext
  <2>1. ASSUME NEW m \in Comrades, NEW override \in BOOLEAN, Console!Duty(m, override)
        PROVE  Console!ConsoleInv'
    BY <2>1, DutyBegins
  <2>2. ASSUME NEW m \in Comrades, Console!Unassign(m) PROVE Console!ConsoleInv'
    BY <2>2, UnassignInv
  <2>3. ASSUME NEW r \in Console!Slots, Console!CommitDuty(r) \/ Console!CommitDutyTeam(r)
        PROVE  Console!ConsoleInv'
    BY <2>3, CommitDutyInv, CommitDutyTeamInv
  <2>4. QED
    BY <1>3, <2>1, <2>2, <2>3, DutyTeamBegins DEF Console!DutyNext
<1>4. CASE Console!TeamsNext
  BY <1>4, TeamsInv
<1>5. CASE UNCHANGED Console!vars
  <2>1. UNCHANGED <<present, immune, slots, guard, duty, vexes, vexed, buddies, req, begun, given,
                    pressed, batch, crossed>>
    BY <1>5 DEF Console!vars
  <2>2. Console!TypeOK' /\ Console!GivenDutiesStand' /\ Console!OneVexEach'
    BY <2>1 DEF Console!ConsoleInv, Console!TypeInv, Console!TypeOK, Console!GivenDutiesStand,
                Console!OneVexEach
  <2>3. QED
    BY <2>1, <2>2, ConsoleWorld
<1>6. QED
  BY <1>1, <1>2, <1>3, <1>4, <1>5 DEF ConsoleSteps

\* What of the invariant is counted: nobody is on guard twice by the automatic
\* assignment, and the last one was spread over the slots.
LEMMA AutoOnce ==
  ASSUME Console!ConsoleInv
  PROVE  Console!AutoGuardsOnce
<1>1. ASSUME "auto" \notin crossed, NEW p
      PROVE  Console!Cardinality({g \in Console!Rows(p) : g.by = "auto"}) <= 1
  <2>1. PICK A : A = {g \in Console!Rows(p) : g.by = "auto"}
    OBVIOUS
  <2>2. \A g, h \in A : g = h
    BY <1>1, <2>1 DEF Console!ConsoleInv, Console!AutoInv, Console!Rows
  <2>3. Cardinality(A) <= 1
    <3>1. CASE A = {}
      BY <3>1, FS_EmptySet
    <3>2. CASE A # {}
      <4>1. PICK g \in A : A = {g}
        BY <2>2, <3>2
      <4>2. Cardinality({g}) = 1
        BY FS_Singleton
      <4>3. QED
        BY <4>1, <4>2
    <3>3. QED
      BY <3>1, <3>2
  <2>4. QED
    BY <2>1, <2>3, ConsoleCounts
<1>2. QED
  BY <1>1 DEF Console!AutoGuardsOnce, Console!ConsoleInv, Console!SpreadInv

(***************************************************************************)
(* However many members, guests, vexillations, slots and requests at once  *)
(* there are: guard, duties and vexillations are given to who may have     *)
(* them, and once, the guard is spread over its slots, and a duty given by *)
(* hand is not taken; the parts that overlapping requests break say so.    *)
(***************************************************************************)
THEOREM ConsoleIsInOrderCorrect == EventsSpec => []ConsoleIsInOrder
<1> DEFINE IInv == page \in ConsolePages => Console!ConsoleInv
<1>1. EventsInit => IInv
  BY OnlyConsole, ConsoleAssumption, ConsoleStarts
<1>2. IInv /\ [EventsNext]_allVars => IInv'
  <2> SUFFICES ASSUME page \in ConsolePages, Console!ConsoleInv, [EventsNext]_allVars
               PROVE  Console!ConsoleInv'
    BY PageKept
  <2>1. ConsoleSteps
    BY OnlyConsoleSteps
  <2>2. QED
    BY <2>1, ConsoleAssumption, ConsoleKept
<1>3. IInv => ConsoleIsInOrder
  <2>1. Console!ConsoleInv => Console!ConsoleIsInOrder
    BY AutoOnce DEF Console!ConsoleInv, Console!TypeInv, Console!ConsoleIsInOrder
  <2>2. QED
    BY <2>1 DEF ConsoleIsInOrder
<1>4. QED
  BY <1>1, <1>2, <1>3, PTL DEF EventsSpec

-----------------------------------------------------------------------------
(***************************************************************************)
(* The rows of a series: SeriesInv is inductive (see EventSeries).         *)
(***************************************************************************)
\* Those of a set with a smaller key.
Below(S, key, x) == {y \in S : key[y] < key[x]}

\* What has keys of its own is counted through by them.
LEMMA RanksAre ==
  ASSUME NEW S, IsFiniteSet(S), NEW key \in [S -> Int], \A x, y \in S : key[x] = key[y] => x = y
  PROVE  /\ \A x \in S : Cardinality(Below(S, key, x)) \in Nat /\ Cardinality(Below(S, key, x)) < Cardinality(S)
         /\ \A x, y \in S : Cardinality(Below(S, key, x)) = Cardinality(Below(S, key, y)) => x = y
<1>1. \A x \in S : IsFiniteSet(Below(S, key, x)) /\ key[x] \in Int
  BY FS_Subset DEF Below
<1>2. Cardinality(S) \in Nat
  BY FS_CardinalityType
<1>3. ASSUME NEW x \in S
      PROVE  Cardinality(Below(S, key, x)) \in Nat /\ Cardinality(Below(S, key, x)) < Cardinality(S)
  <2>1. PICK A : A = Below(S, key, x)
    OBVIOUS
  <2>2. A \cup {} \cup {x} \subseteq S /\ A \cap {} = {} /\ x \notin A \cup {}
    BY <1>1, <2>1 DEF Below
  <2>3. Cardinality(A) \in Nat /\ Cardinality({}) \in Nat /\ Cardinality(A) + Cardinality({}) + 1 <= Cardinality(S)
    BY <2>2, CountBefore
  <2>4. QED
    BY <1>2, <2>1, <2>3
<1>4. ASSUME NEW x \in S, NEW y \in S, key[x] < key[y]
      PROVE  Cardinality(Below(S, key, x)) # Cardinality(Below(S, key, y))
  <2>1. PICK A, B : A = Below(S, key, x) /\ B = Below(S, key, y)
    OBVIOUS
  <2>2. A \cup {} \cup {x} \subseteq B /\ A \cap {} = {} /\ x \notin A \cup {} /\ IsFiniteSet(B)
    BY <1>1, <1>4, <2>1 DEF Below
  <2>3. /\ Cardinality(A) \in Nat /\ Cardinality({}) \in Nat /\ Cardinality(B) \in Nat
        /\ Cardinality(A) + Cardinality({}) + 1 <= Cardinality(B)
    BY <2>2, CountBefore
  <2>4. QED
    BY <2>1, <2>3
<1>5. \A x, y \in S : Cardinality(Below(S, key, x)) = Cardinality(Below(S, key, y)) => x = y
  <2>1. \A x, y \in S : x # y => key[x] < key[y] \/ key[y] < key[x]
    BY <1>1
  <2>2. QED
    BY <1>4, <2>1
<1>6. QED
  BY <1>3, <1>5

LEMMA RankFound ==
  ASSUME NEW S, IsFiniteSet(S), NEW key \in [S -> Int], \A x, y \in S : key[x] = key[y] => x = y,
         NEW n \in Nat, n < Cardinality(S)
  PROVE  \E x \in S : Cardinality(Below(S, key, x)) = n
<1>1. Cardinality(S) \in Nat
  BY FS_CardinalityType
<1>2. /\ \A x \in S : Cardinality(Below(S, key, x)) \in Nat /\ Cardinality(Below(S, key, x)) < Cardinality(S)
      /\ \A x, y \in S : Cardinality(Below(S, key, x)) = Cardinality(Below(S, key, y)) => x = y
  BY RanksAre
<1>3. PICK order : order = [x \in S |-> Cardinality(Below(S, key, x)) + 1]
  OBVIOUS
<1>4. order \in [S -> 1..Cardinality(S)] /\ \A x, y \in S : order[x] = order[y] => x = y
  BY <1>1, <1>2, <1>3
<1>5. PICK x \in S : order[x] = n + 1
  BY <1>1, <1>4, EveryNumber
<1>6. QED
  BY <1>2, <1>3, <1>5

\* The place of an added row, by its day.
Place(F, A, a) ==
  CHOOSE i \in F : Cardinality({j \in F : j < i}) = Cardinality({b \in A : b.date < a.date})

\* The rows added have places of their own.
LEMMA PlacesAre ==
  ASSUME NEW F, IsFiniteSet(F), F \subseteq Nat, NEW A, IsFiniteSet(A), \A a \in A : a.date \in Nat,
         \A a, b \in A : a.date = b.date => a = b, Cardinality(F) >= Cardinality(A)
  PROVE  /\ \A a \in A : Place(F, A, a) \in F
         /\ \A a, b \in A : Place(F, A, a) = Place(F, A, b) => a = b
<1>1. PICK number : number = [i \in F |-> i]
  OBVIOUS
<1>2. PICK day : day = [a \in A |-> a.date]
  OBVIOUS
<1>3. \A i \in F : Below(F, number, i) = {j \in F : j < i}
  BY <1>1 DEF Below
<1>4. \A a \in A : Below(A, day, a) = {b \in A : b.date < a.date}
  BY <1>2 DEF Below
<1>5. number \in [F -> Int] /\ \A i, j \in F : number[i] = number[j] => i = j
  BY <1>1
<1>6. day \in [A -> Int] /\ \A a, b \in A : day[a] = day[b] => a = b
  BY <1>2
<1>7. Cardinality(F) \in Nat /\ Cardinality(A) \in Nat
  BY FS_CardinalityType
<1>8. ASSUME NEW n \in Nat, n < Cardinality(F) PROVE \E i \in F : Cardinality(Below(F, number, i)) = n
  BY <1>5, <1>8, RankFound
<1>9. /\ \A a \in A : Cardinality(Below(A, day, a)) \in Nat /\ Cardinality(Below(A, day, a)) < Cardinality(A)
      /\ \A a, b \in A : Cardinality(Below(A, day, a)) = Cardinality(Below(A, day, b)) => a = b
  BY <1>6, RanksAre
<1>10. ASSUME NEW a \in A
       PROVE  Place(F, A, a) \in F /\ Cardinality(Below(F, number, Place(F, A, a))) = Cardinality(Below(A, day, a))
  <2>0. PICK n : n = Cardinality(Below(A, day, a))
    OBVIOUS
  <2>1. n \in Nat /\ n = Cardinality({b \in A : b.date < a.date}) /\ n < Cardinality(F)
                  /\ n = Cardinality(Below(A, day, a))
    <3>1. n \in Nat /\ n < Cardinality(A)
      BY <1>9, <2>0
    <3>2. Below(A, day, a) = {b \in A : b.date < a.date}
      BY <1>4
    <3>3. n < Cardinality(F)
      BY <1>7, <3>1
    <3>4. QED
      BY <2>0, <3>1, <3>2, <3>3
  <2>2. \E i \in F : Cardinality({j \in F : j < i}) = n
    BY <1>3, <1>8, <2>1
  <2>3. PICK p : p = Place(F, A, a)
    OBVIOUS
  <2>4. p = CHOOSE i \in F : Cardinality({j \in F : j < i}) = n
    BY <2>1, <2>3 DEF Place
  <2>5. p \in F /\ Cardinality({j \in F : j < p}) = n
    BY <2>2, <2>4
  <2>6. Below(F, number, p) = {j \in F : j < p}
    BY <1>3, <2>5
  <2>7. QED
    BY <2>1, <2>3, <2>5, <2>6
<1>11. ASSUME NEW a \in A, NEW b \in A, Place(F, A, a) = Place(F, A, b) PROVE a = b
  <2>1. Cardinality(Below(A, day, a)) = Cardinality(Below(A, day, b))
    BY <1>10, <1>11
  <2>2. QED
    BY <1>9, <2>1
<1>12. QED
  BY <1>10, <1>11

\* A table with rows added has them where nothing was, and is else as before.
LEMMA AddedAre ==
  ASSUME NEW t, NEW A, IsFiniteSet(A), \A a \in A : a.date \in Nat \ {0},
         \A a, b \in A : a.date = b.date => a = b, Cardinality(Unused(t)) >= Cardinality(A),
         NEW u, u = WithAdded(t, A)
  PROVE  /\ DOMAIN u = Ids
         /\ \A i \in Ids : u[i] = t[i] \/ (i \in Unused(t) /\ u[i] \in A)
         /\ \A a \in A : \E i \in Unused(t) : u[i] = a
         /\ \A i, j \in Unused(t) : u[i] \in A /\ u[i] = u[j] => i = j
<1>1. PICK F : F = Unused(t)
  OBVIOUS
<1>2. F \subseteq Ids /\ IsFiniteSet(F) /\ F \subseteq Nat /\ \A i \in F : t[i] = NoRow
  BY <1>1, SeriesAssumption, FS_Subset DEF Unused
<1>4. /\ \A a \in A : Place(F, A, a) \in F
      /\ \A a, b \in A : Place(F, A, a) = Place(F, A, b) => a = b
  <2>1. Cardinality(F) >= Cardinality(A) /\ \A a \in A : a.date \in Nat
    BY <1>1
  <2>2. QED
    BY <1>2, <2>1, PlacesAre
<1>5. /\ DOMAIN u = Ids
      /\ \A i \in Ids : (\A a \in A : Place(F, A, a) # i) => u[i] = t[i]
      /\ \A i \in Ids : (\E a \in A : Place(F, A, a) = i) => u[i] = CHOOSE a \in A : Place(F, A, a) = i
  <2>1. u = [i \in Ids |-> IF \E a \in A : Place(F, A, a) = i THEN CHOOSE a \in A : Place(F, A, a) = i ELSE t[i]]
    BY <1>1, Zenon DEF WithAdded, Place
  <2>2. QED
    BY <2>1
<1>6. \A a \in A : u[Place(F, A, a)] = a
  <2> SUFFICES ASSUME NEW a \in A PROVE u[Place(F, A, a)] = a
    OBVIOUS
  <2>1. PICK p : p = Place(F, A, a)
    OBVIOUS
  <2>2. p \in Ids /\ \E b \in A : Place(F, A, b) = p
    BY <1>2, <1>4, <2>1
  <2>5. u[p] = CHOOSE b \in A : Place(F, A, b) = p
    BY <1>5, <2>2, Zenon
  <2>3. u[p] \in A /\ Place(F, A, u[p]) = p
    BY <2>2, <2>5, Zenon
  <2>4. QED
    BY <1>4, <2>1, <2>3
<1>7. \A i \in Ids : (\E a \in A : Place(F, A, a) = i /\ u[i] = a) \/ u[i] = t[i]
  BY <1>5, <1>6
<1>8. NoRow \notin A
  BY DEF NoRow
<1>9. ASSUME NEW i \in F, u[i] \in A PROVE Place(F, A, u[i]) = i
  BY <1>2, <1>7, <1>8, <1>9
<1>10. QED
  BY <1>1, <1>2, <1>4, <1>5, <1>6, <1>7, <1>9

\* A row has a day, and is none that is missing.
LEMMA RowIs ==
  ASSUME NEW x \in RowType
  PROVE  /\ x.date \in Days /\ x.date \in Nat \ {0} /\ x.status \in {"active", "cancelled"}
         /\ x.title \in 0..MaxTexts /\ x.text \in 0..MaxTexts /\ x.series \in BOOLEAN /\ x.master \in BOOLEAN
         /\ x # NoRow
BY DEF RowType, NoRow, Days

LEMMA NoRowIs ==
  /\ NoRow.date = 0 /\ NoRow.status = "none" /\ NoRow.title = 0 /\ NoRow.text = 0
  /\ ~NoRow.series /\ ~NoRow.master
  /\ NoRow \notin RowType
BY DEF RowType, NoRow, Days

\* What a commit does with a row: it goes, it is kept with what was changed, or it is new.
GoesAway(q, i) == row'[i] = NoRow /\ (row[i] = NoRow \/ i \in q.dels)
IsKept(q, i) ==
  /\ row[i] \in RowType /\ row'[i] \in RowType
  /\ row'[i].series = row[i].series /\ row'[i].master = row[i].master
  /\ row'[i].date = IF q.new[i].date = q.old[i].date THEN row[i].date ELSE q.new[i].date
  /\ row'[i].status = IF q.new[i].status = q.old[i].status THEN row[i].status ELSE q.new[i].status
  /\ row'[i].title = IF q.new[i].title = q.old[i].title THEN row[i].title ELSE q.new[i].title
  /\ row'[i].text = IF q.new[i].text = q.old[i].text THEN row[i].text ELSE q.new[i].text
  /\ q.new[i] # q.old[i] => q.old[i] \in RowType /\ q.new[i] \in RowType
IsAdded(q, i) ==
  /\ row[i] = NoRow /\ row'[i] \in q.adds
  /\ \A s \in Slots : req[s] # NoRequest => req[s].old[i] = NoRow

LEMMA CommitIs ==
  ASSUME SeriesInv, NEW r \in Slots, Commit(r)
  PROVE  /\ DOMAIN row' = Ids /\ req[r] # NoRequest /\ RequestInv(req[r])
         /\ \A i \in Ids : GoesAway(req[r], i) \/ IsKept(req[r], i) \/ IsAdded(req[r], i)
         /\ \A a \in req[r].adds : \E i \in Ids : row'[i] = a
         /\ \A i, j \in Ids : IsAdded(req[r], i) /\ IsAdded(req[r], j) /\ row'[i] = row'[j] => i = j
<1>1. PICK q : q = req[r]
  OBVIOUS
<1>2. PICK kept : kept = [i \in Ids |-> IF i \in q.dels THEN NoRow ELSE IF i \in Changed(q) THEN Written(q, i) ELSE row[i]]
  OBVIOUS
<1>3. /\ q.pc = "commit" /\ ~Stale(q) /\ Cardinality(Unused(kept)) >= Cardinality(q.adds)
      /\ row' = WithAdded(kept, q.adds)
  BY <1>1, <1>2 DEF Commit
<1>4. q # NoRequest /\ RequestInv(q)
  BY <1>1, <1>3 DEF SeriesInv, NoRequest
<1>5. PlanInv(q) /\ row \in [Ids -> RowType \cup {NoRow}]
  BY <1>4 DEF RequestInv, SeriesInv, TypeInv
<1>6. /\ IsFiniteSet(q.adds) /\ \A a \in q.adds : a \in RowType /\ a.date \in Nat \ {0}
      /\ \A a, b \in q.adds : a.date = b.date => a = b
      /\ \A a \in q.adds : q.mark.op \in {"recur", "sync"}
  BY <1>5, RowIs DEF PlanInv
<1>7. /\ DOMAIN row' = Ids
      /\ \A i \in Ids : row'[i] = kept[i] \/ (i \in Unused(kept) /\ row'[i] \in q.adds)
      /\ \A a \in q.adds : \E i \in Unused(kept) : row'[i] = a
      /\ \A i, j \in Unused(kept) : row'[i] \in q.adds /\ row'[i] = row'[j] => i = j
  <2>1. \A a \in q.adds : a.date \in Nat \ {0}
    BY <1>6
  <2>2. QED
    BY <1>3, <1>6, <2>1, AddedAre
<1>8. ASSUME NEW i \in Ids, i \notin q.dels
      PROVE  \/ row[i] = NoRow /\ kept[i] = NoRow
             \/ kept[i] \in RowType /\ (row'[i] = kept[i] => IsKept(q, i))
  <2>1. row[i] \in RowType \cup {NoRow} /\ ChangeInv(q, i)
    BY <1>5 DEF PlanInv
  <2>2. CASE i \in Changed(q)
    <3>1. row[i] # NoRow /\ q.old[i] # q.new[i] /\ kept[i] = Written(q, i)
      BY <1>2, <1>3, <1>8, <2>1, <2>2 DEF Stale, Changed, ChangeInv
    <3>2. q.old[i] \in RowType /\ q.new[i] \in RowType /\ row[i] \in RowType
      BY <2>1, <3>1 DEF ChangeInv
    <3>3. kept[i] \in RowType
      BY <3>1, <3>2 DEF Written, RowType
    <3>4. QED
      BY <3>1, <3>2, <3>3 DEF IsKept, Written
  <2>3. CASE i \notin Changed(q)
    <3>1. kept[i] = row[i] /\ q.new[i] = q.old[i]
      BY <1>2, <1>8, <2>3 DEF Changed
    <3>2. QED
      BY <2>1, <3>1 DEF IsKept
  <2>4. QED
    BY <2>2, <2>3
<1>9. ASSUME NEW i \in Ids PROVE i \in q.dels => kept[i] = NoRow /\ q.adds = {}
  <2>1. ChangeInv(q, i)
    BY <1>5 DEF PlanInv
  <2>2. QED
    BY <1>2, <1>6, <2>1 DEF ChangeInv
<1>10. ASSUME NEW i \in Unused(kept), row'[i] \in q.adds PROVE i \in Ids /\ IsAdded(q, i)
  <2>1. i \in Ids /\ kept[i] = NoRow /\ \A s \in Slots : req[s] = NoRequest \/ req[s].old[i] = NoRow
    BY <1>10 DEF Unused
  <2>2. i \notin q.dels
    BY <1>9, <1>10, <2>1
  <2>3. row[i] = NoRow
    BY <1>8, <2>1, <2>2, RowIs
  <2>4. QED
    BY <1>10, <2>1, <2>3 DEF IsAdded
<1>11. ASSUME NEW i \in Ids PROVE GoesAway(q, i) \/ IsKept(q, i) \/ IsAdded(q, i)
  <2>1. CASE i \in Unused(kept) /\ row'[i] \in q.adds
    BY <1>10, <2>1
  <2>2. CASE row'[i] = kept[i] /\ i \in q.dels
    BY <1>9, <2>2 DEF GoesAway
  <2>3. CASE row'[i] = kept[i] /\ i \notin q.dels
    BY <1>8, <2>3 DEF GoesAway
  <2>4. QED
    BY <1>7, <2>1, <2>2, <2>3
<1>12. ASSUME NEW i \in Ids, IsAdded(q, i) PROVE i \in Unused(kept) /\ row'[i] \in q.adds
  <2>1. row[i] = NoRow /\ row'[i] \in q.adds /\ row'[i] \in RowType
    BY <1>6, <1>12 DEF IsAdded
  <2>2. row'[i] # NoRow /\ i \notin q.dels
    BY <1>9, <2>1, RowIs
  <2>3. kept[i] = NoRow
    <3>1. kept[i] = row[i] \/ i \in Changed(q)
      BY <1>2, <2>2
    <3>2. i \in Changed(q) => i \in q.updates
      BY <1>5 DEF PlanInv, ChangeInv, Changed
    <3>3. QED
      BY <1>3, <2>1, <3>1, <3>2 DEF Stale
  <2>4. QED
    BY <1>7, <2>1, <2>2, <2>3
<1>13. \A i, j \in Ids : IsAdded(q, i) /\ IsAdded(q, j) /\ row'[i] = row'[j] => i = j
  BY <1>7, <1>12
<1>14. \A a \in q.adds : \E i \in Ids : row'[i] = a
  BY <1>7, <1>10
<1>15. QED
  BY <1>1, <1>4, <1>7, <1>11, <1>13, <1>14

\* What a commit leaves as it is.
LEMMA CommitRest ==
  ASSUME SeriesInv, NEW r \in Slots, Commit(r)
  PROVE  /\ now' = now /\ begun' = begun /\ texts' = texts /\ crossed' = crossed /\ kind' = kind
         /\ DOMAIN req' = Slots /\ req'[r] = NoRequest /\ \A s \in Slots : s # r => req'[s] = req[s]
BY DEF Commit, SeriesInv, TypeInv

\* A row that is kept, and what is remembered of it.
LEMMA KeptIs ==
  ASSUME SeriesInv, NEW r \in Slots, Commit(r), NEW i \in Ids, IsKept(req[r], i)
  PROVE  /\ i \notin moved' => i \notin moved /\ row'[i].date = row[i].date
         /\ i \notin renamed' => i \notin renamed /\ (row[i].series \/ row'[i].title = row[i].title)
         /\ row'[i].title # row[i].title /\ row[i].series => req[r].mark.op = "edit"
         /\ req[r].new[i].title # req[r].old[i].title => req[r].new[i].text # req[r].old[i].text
         /\ row'[i].text # row[i].text /\ row[i].series =>
              req[r].mark.op = "edit" \/ (req[r].mark.op = "sync" /\ row'[i].text = 0)
         /\ row'[i].status # row[i].status =>
              /\ row'[i].status = "cancelled" /\ req[r].mark.op \in {"cancel", "recur"}
              /\ req[r].new[i].status # req[r].old[i].status /\ req[r].old[i] \in RowType
              /\ req[r].mark.op = "cancel" => i \in byHand'
         /\ i \in held' => i \in held
         /\ i \in byHand => i \in byHand'
<1>1. PICK q : q = req[r]
  OBVIOUS
<1>2. ChangeInv(q, i) /\ SinceInv(q)
  BY <1>1, CommitIs DEF RequestInv, PlanInv
<1>3. PICK missing : missing = {j \in Ids : row[j] = NoRow}
  OBVIOUS
<1>4. /\ moved' = (moved \ missing) \cup {j \in Ids : q.new[j].date # q.old[j].date}
      /\ byHand' = (byHand \ missing) \cup (IF q.mark.op = "cancel" THEN Changed(q) ELSE {})
      /\ held' = held \ missing
      /\ renamed' = (renamed \ missing) \cup {j \in Ids : q.new[j].title # q.old[j].title /\ ~row[j].series}
  BY <1>1, <1>3 DEF Commit
<1>5. IsKept(q, i) /\ i \notin missing
  BY <1>1, <1>3, RowIs DEF IsKept
<1>6. \/ q.new[i] = q.old[i]
      \/ q.old[i] \in RowType /\ q.new[i] \in RowType /\ row[i].series = q.old[i].series
  <2>1. ASSUME q.old[i] \in RowType PROVE row[i].series = q.old[i].series
    BY <1>2, <1>5, <2>1, RowIs DEF SinceInv, IsKept
  <2>2. QED
    BY <1>5, <2>1 DEF IsKept
<1>7. i \notin moved' => i \notin moved /\ row'[i].date = row[i].date
  BY <1>4, <1>5 DEF IsKept
<1>8. i \notin renamed' => i \notin renamed /\ (row[i].series \/ row'[i].title = row[i].title)
  <2>1. row'[i].title # row[i].title /\ ~row[i].series => i \in renamed'
    BY <1>4, <1>5 DEF IsKept
  <2>2. QED
    BY <1>4, <1>5, <2>1
<1>9. /\ row'[i].title # row[i].title /\ row[i].series => q.mark.op = "edit"
      /\ q.new[i].title # q.old[i].title => q.new[i].text # q.old[i].text
      /\ row'[i].text # row[i].text /\ row[i].series =>
           q.mark.op = "edit" \/ (q.mark.op = "sync" /\ row'[i].text = 0)
  BY <1>2, <1>5, <1>6 DEF IsKept, ChangeInv
<1>10. row'[i].status # row[i].status =>
         /\ row'[i].status = "cancelled" /\ q.mark.op \in {"cancel", "recur"}
         /\ q.new[i].status # q.old[i].status /\ q.old[i] \in RowType
         /\ q.mark.op = "cancel" => i \in byHand'
  <2>1. row'[i].status # row[i].status => q.new[i].status # q.old[i].status /\ row'[i].status = q.new[i].status
    BY <1>5 DEF IsKept
  <2>2. q.new[i].status # q.old[i].status => i \in Changed(q)
    BY DEF Changed
  <2>3. QED
    BY <1>2, <1>4, <1>6, <2>1, <2>2 DEF ChangeInv
<1>11. QED
  BY <1>1, <1>4, <1>5, <1>7, <1>8, <1>9, <1>10

\* What an added row is.
LEMMA AddedIs ==
  ASSUME SeriesInv, NEW r \in Slots, Commit(r), NEW i \in Ids, IsAdded(req[r], i)
  PROVE  /\ row'[i] \in RowType /\ ~row'[i].master /\ row'[i].text <= texts
         /\ req[r].mark.op = IF row'[i].series THEN "recur" ELSE "sync"
         /\ i \notin held'
BY CommitIs DEF IsAdded, RequestInv, PlanInv, Commit

\* The contents of the whole series agree after a commit only if they did before, unless it
\* changes the contents.
LEMMA WideKept ==
  ASSUME SeriesInv, NEW r \in Slots, Commit(r)
  PROVE  /\ wide' \in BOOLEAN
         /\ \/ wide' <=> wide
            \/ /\ req[r].mark.op = "edit" /\ (wide' <=> req[r].mark.wide)
               /\ \E i \in Ids : req[r].new[i].text # req[r].old[i].text
         /\ req[r].mark.op = "edit" /\ (\E i \in Ids : req[r].new[i].text # req[r].old[i].text) =>
              (wide' <=> req[r].mark.wide)
<1>1. wide \in BOOLEAN /\ req[r].mark.wide \in BOOLEAN
  BY CommitIs DEF SeriesInv, TypeInv, RequestInv, PlanInv
<1>2. PICK retext \in BOOLEAN : retext <=> \E i \in Ids : req[r].new[i].text # req[r].old[i].text
  OBVIOUS
<1>3. wide' = IF req[r].mark.op = "edit" /\ retext THEN req[r].mark.wide ELSE wide
  BY <1>2 DEF Commit
<1>4. QED
  BY <1>1, <1>2, <1>3

LEMMA CommitTypes ==
  ASSUME SeriesInv, NEW r \in Slots, Commit(r) PROVE TypeInv'
<1>1. TypeInv /\ RequestInv(req[r])
  BY CommitIs DEF SeriesInv
<1>2. ASSUME NEW i \in Ids, row'[i] # NoRow
      PROVE  /\ row'[i] \in RowType /\ row'[i].text <= texts
             /\ row'[i].master => row[i] # NoRow /\ row[i].master
  <2>1. CASE IsKept(req[r], i)
    <3>1. row[i] # NoRow /\ row[i].text <= texts
      BY <1>1, <2>1, RowIs DEF IsKept, TypeInv, Rows
    <3>2. req[r].new[i].text <= texts
      BY <1>1 DEF RequestInv, PlanInv, ChangeInv
    <3>3. QED
      BY <2>1, <3>1, <3>2 DEF IsKept
  <2>2. CASE IsAdded(req[r], i)
    BY <2>2, AddedIs
  <2>3. QED
    BY <1>2, <2>1, <2>2, CommitIs DEF GoesAway
<1>3. row' \in [Ids -> RowType \cup {NoRow}]
  <2>1. row' = [i \in Ids |-> row'[i]]
    <3>1. PICK t, A : row' = WithAdded(t, A)
      BY DEF Commit
    <3>2. QED
      BY <3>1 DEF WithAdded
  <2>2. QED
    BY <1>2, <2>1
<1>4. \A i, j \in Rows' : row'[i].master /\ row'[j].master => i = j
  BY <1>1, <1>2 DEF TypeInv, TypeOK, Rows
<1>5. \A i \in Rows' : row'[i] \in RowType /\ row'[i].text <= texts
  BY <1>2 DEF Rows
<1>6. QED
  BY <1>1, <1>3, <1>4, <1>5, CommitRest, WideKept DEF TypeInv, TypeOK

LEMMA CommitHistory ==
  ASSUME SeriesInv, NEW r \in Slots, Commit(r) PROVE HistoryInv'
<1>1. HistoryInv /\ RequestInv(req[r])
  BY CommitIs DEF SeriesInv
<1>2. ASSUME NEW i \in held', i \in Rows' PROVE i \in moved' \/ row'[i].date <= now
  <2>1. i \in Ids /\ row'[i] # NoRow
    BY <1>2 DEF Rows
  <2>2. IsKept(req[r], i)
    BY <1>2, <2>1, CommitIs, AddedIs DEF GoesAway
  <2>3. i \in held /\ i \in Rows /\ (i \notin moved' => i \notin moved /\ row'[i].date = row[i].date)
    BY <1>2, <2>1, <2>2, KeptIs, RowIs DEF IsKept, Rows
  <2>4. QED
    BY <1>1, <2>3 DEF HistoryInv
<1>3. ASSUME NEW i \in Rows', i \notin Series' PROVE i \in renamed' \/ row'[i].title = 0
  <2>1. i \in Ids /\ row'[i] # NoRow /\ ~row'[i].series
    BY <1>3 DEF Rows, Series
  <2>2. CASE IsKept(req[r], i)
    <3>1. i \in Rows /\ i \notin Series
      BY <2>1, <2>2, RowIs DEF IsKept, Rows, Series
    <3>2. QED
      BY <1>1, <2>1, <2>2, <3>1, KeptIs DEF HistoryInv, Series
  <2>3. CASE IsAdded(req[r], i)
    BY <1>1, <2>1, <2>3, AddedIs DEF RequestInv, SyncInv, IsAdded
  <2>4. QED
    BY <2>1, <2>2, <2>3, CommitIs DEF GoesAway
<1>4. QED
  BY <1>2, <1>3, CommitRest DEF HistoryInv

\* The rows a request adds.
LEMMA AddsAre ==
  ASSUME NEW q, PlanInv(q), NEW a \in q.adds
  PROVE  a \in RowType /\ (a.series => q.mark.op = "recur") /\ (~a.series => q.mark.op = "sync")
BY DEF PlanInv

\* Two requests in progress, of which one commits.
LEMMA BothCrossed ==
  ASSUME SeriesInv, NEW r \in Slots, Commit(r), NEW s \in Slots, req'[s] # NoRequest
  PROVE  /\ s # r /\ req[s] # NoRequest /\ req'[s] = req[s] /\ RequestInv(req[s])
         /\ {req[r].mark.op, req[s].mark.op} \in crossed
BY CommitRest, CommitIs DEF SeriesInv, CrossInv

LEMMA CommitCross ==
  ASSUME SeriesInv, NEW r \in Slots, Commit(r) PROVE CrossInv' /\ CloneInv'
<1>1. CrossInv'
  <2> SUFFICES ASSUME NEW s \in Slots, NEW t \in Slots, s # t, req'[s] # NoRequest, req'[t] # NoRequest
               PROVE  {req'[s].mark.op, req'[t].mark.op} \in crossed'
    BY DEF CrossInv
  <2> QED
    BY BothCrossed, CommitRest DEF SeriesInv, CrossInv
<1>2. CloneInv'
  <2> SUFFICES ASSUME Unmixed', NEW s \in Slots, NEW t \in Slots,
                      NEW a \in IF req'[s] = NoRequest THEN {} ELSE req'[s].adds,
                      NEW b \in IF req'[t] = NoRequest THEN {} ELSE req'[t].adds, a.series, b.series
               PROVE  Alike(a, b)
    BY DEF CloneInv
  <2>1. req'[s] # NoRequest /\ req'[t] # NoRequest
    OBVIOUS
  <2>2. /\ req[s] # NoRequest /\ a \in req[s].adds /\ req[t] # NoRequest /\ b \in req[t].adds
        /\ {req[r].mark.op, req[s].mark.op} \in crossed /\ PlanInv(req[s])
    BY <2>1, BothCrossed DEF RequestInv
  <2>3. req[s].mark.op = "recur"
    BY <2>2, AddsAre
  <2>7. wide' /\ {"edit", "recur"} \notin crossed /\ {req[r].mark.op, "recur"} \in crossed
    BY <2>2, <2>3, CommitRest DEF Unmixed
  <2>8. req[r].mark.op # "edit"
    BY <2>7
  <2>4. Unmixed
    BY <2>7, <2>8, WideKept, CommitRest DEF Unmixed
  <2>5. CloneInv
    BY DEF SeriesInv
  <2>6. QED
    BY <2>2, <2>4, <2>5 DEF CloneInv
<1>3. QED
  BY <1>1, <1>2

LEMMA CommitSince ==
  ASSUME SeriesInv, NEW r \in Slots, Commit(r), NEW s \in Slots, NEW q, q = req[s], req'[s] # NoRequest
  PROVE  SinceInv(q)'
<1>1. q = req[s]
  OBVIOUS
<1>2. q # NoRequest /\ SinceInv(q) /\ PlanInv(q) /\ {req[r].mark.op, q.mark.op} \in crossed
  BY BothCrossed DEF RequestInv
<1>3. crossed' = crossed
  BY CommitRest
<1>4. ASSUME NEW i \in Ids
      PROVE  /\ q.old[i] # NoRow /\ row'[i] # NoRow =>
                  /\ row'[i].series = q.old[i].series
                  /\ i \in moved' \/ row'[i].date = q.old[i].date
                  /\ q.old[i].status = "cancelled" => row'[i].status = "cancelled"
                  /\ row'[i].title = q.old[i].title \/ IF row'[i].series THEN {q.mark.op, "edit"} \in crossed
                                                        ELSE i \in renamed'
             /\ q.old[i] # NoRow /\ row'[i] = NoRow => {q.mark.op, "delete"} \in crossed
             /\ q.old[i] = NoRow /\ row'[i] # NoRow =>
                  {q.mark.op, IF row'[i].series THEN "recur" ELSE "sync"} \in crossed
  <2>1. /\ q.old[i] # NoRow /\ row[i] # NoRow =>
             /\ row[i].series = q.old[i].series
             /\ i \in moved \/ row[i].date = q.old[i].date
             /\ q.old[i].status = "cancelled" => row[i].status = "cancelled"
             /\ row[i].title = q.old[i].title \/ IF row[i].series THEN {q.mark.op, "edit"} \in crossed
                                                  ELSE i \in renamed
        /\ q.old[i] # NoRow /\ row[i] = NoRow => {q.mark.op, "delete"} \in crossed
        /\ q.old[i] = NoRow /\ row[i] # NoRow =>
             {q.mark.op, IF row[i].series THEN "recur" ELSE "sync"} \in crossed
    BY <1>2 DEF SinceInv
  <2>2. CASE IsKept(req[r], i)
    <3>1. row[i] # NoRow /\ row'[i] # NoRow /\ row'[i].series = row[i].series
      BY <2>2, RowIs DEF IsKept
    <3>2. /\ i \notin moved' => i \notin moved /\ row'[i].date = row[i].date
          /\ i \notin renamed' => i \notin renamed /\ (row[i].series \/ row'[i].title = row[i].title)
          /\ row'[i].title # row[i].title /\ row[i].series => req[r].mark.op = "edit"
          /\ row'[i].status # row[i].status => row'[i].status = "cancelled"
      BY <2>2, KeptIs
    <3>3. {req[r].mark.op, q.mark.op} = {q.mark.op, req[r].mark.op}
      OBVIOUS
    <3>4. row'[i].title # row[i].title /\ row[i].series => {q.mark.op, "edit"} \in crossed
      BY <1>2, <3>2, <3>3
    <3>5. QED
      BY <2>1, <3>1, <3>2, <3>4
  <2>3. CASE IsAdded(req[r], i)
    <3>1. q.old[i] = NoRow /\ row'[i] # NoRow
      BY <1>1, <1>2, <2>3, AddedIs, RowIs DEF IsAdded
    <3>2. req[r].mark.op = IF row'[i].series THEN "recur" ELSE "sync"
      BY <2>3, AddedIs
    <3>3. {req[r].mark.op, q.mark.op} = {q.mark.op, req[r].mark.op}
      OBVIOUS
    <3>4. QED
      BY <1>2, <3>1, <3>2, <3>3
  <2>4. CASE GoesAway(req[r], i)
    <3>1. row'[i] = NoRow /\ (row[i] = NoRow \/ i \in req[r].dels)
      BY <2>4 DEF GoesAway
    <3>2. i \in req[r].dels => req[r].mark.op = "delete"
      BY CommitIs DEF RequestInv, PlanInv, ChangeInv
    <3>3. {req[r].mark.op, q.mark.op} = {q.mark.op, req[r].mark.op}
      OBVIOUS
    <3>4. QED
      BY <1>2, <2>1, <3>1, <3>2, <3>3
  <2>5. QED
    BY <2>2, <2>3, <2>4, CommitIs
<1>5. QED
  BY <1>2, <1>3, <1>4, Zenon DEF SinceInv

LEMMA CommitOthers ==
  ASSUME SeriesInv, NEW r \in Slots, Commit(r), NEW s \in Slots, NEW q, q = req[s], req'[s] # NoRequest
  PROVE  RequestInv(q)'
<1>1. q = req[s]
  OBVIOUS
<1>2. q # NoRequest /\ RequestInv(q) /\ {req[r].mark.op, q.mark.op} \in crossed
  BY BothCrossed
<1>3. crossed' = crossed /\ texts' = texts /\ now' = now
  BY CommitRest
<1>4. PlanInv(q)' /\ WideInv(q)' /\ SyncInv(q)'
  BY <1>2, <1>3 DEF RequestInv, PlanInv, ChangeInv, WideInv, SyncInv
<1>5. ASSUME q.mark.op = "recur", Unmixed', NEW a \in q.adds, NEW i \in Series'
      PROVE  Alike(row'[i], a)
  <2>1. /\ req[r].mark.op # "edit" /\ Unmixed /\ RecurInv(q) /\ PlanInv(q)
    <3>1. req[r].mark.op # "edit"
      BY <1>2, <1>3, <1>5 DEF Unmixed
    <3>2. QED
      BY <1>2, <1>3, <1>5, <3>1, WideKept DEF RequestInv, Unmixed
  <2>2. a.series
    BY <1>5, <2>1 DEF PlanInv
  <2>3. i \in Ids /\ row'[i] # NoRow /\ row'[i].series
    BY <1>5 DEF Series, Rows
  <2>4. CASE IsKept(req[r], i)
    <3>1. i \in Series
      BY <2>3, <2>4, RowIs DEF IsKept, Series, Rows
    <3>2. Alike(row[i], a)
      BY <1>5, <2>1, <3>1 DEF RecurInv
    <3>3. row'[i].title = row[i].title /\ (row'[i].text = row[i].text \/ row'[i].text = 0)
      BY <2>1, <2>3, <2>4, <3>1, KeptIs DEF Series
    <3>4. QED
      BY <3>2, <3>3 DEF Alike
  <2>5. CASE IsAdded(req[r], i)
    <3>1. row'[i] \in req[r].adds /\ req[r] # NoRequest
      BY <2>5, CommitIs DEF IsAdded
    <3>2. CloneInv
      BY DEF SeriesInv
    <3>3. QED
      BY <1>1, <1>2, <1>5, <2>1, <2>2, <2>3, <3>1, <3>2 DEF CloneInv
  <2>6. QED
    BY <2>3, <2>4, <2>5, CommitIs DEF GoesAway
<1>6. RecurInv(q)'
  <2>1. RecurInv(q)
    BY <1>2 DEF RequestInv
  <2>2. QED
    BY <1>3, <1>5, <2>1 DEF RecurInv
<1>7. SinceInv(q)'
  BY <1>2, CommitSince
<1>8. QED
  BY <1>2, <1>4, <1>6, <1>7 DEF RequestInv

LEMMA CommitOccurrences ==
  ASSUME SeriesInv, NEW r \in Slots, Commit(r) PROVE OneOccurrenceEach'
<1> SUFFICES ASSUME {"recur"} \notin crossed', NEW i \in Series' \ moved', NEW j \in Series' \ moved',
                    row'[i].date = row'[j].date
             PROVE  i = j
  BY DEF OneOccurrenceEach
<1>1. OneOccurrenceEach /\ crossed' = crossed /\ RequestInv(req[r])
  BY CommitRest, CommitIs DEF SeriesInv
<1>2. i \in Ids /\ row'[i] # NoRow /\ row'[i].series /\ j \in Ids /\ row'[j] # NoRow /\ row'[j].series
  BY DEF Series, Rows
<1>3. /\ IsKept(req[r], i) \/ IsAdded(req[r], i)
      /\ IsKept(req[r], j) \/ IsAdded(req[r], j)
  BY <1>2, CommitIs DEF GoesAway
<1>4. ASSUME NEW k \in Ids, IsKept(req[r], k), row'[k].series, k \notin moved'
      PROVE  k \in Series \ moved /\ row'[k].date = row[k].date
  BY <1>4, KeptIs, RowIs DEF IsKept, Series, Rows
<1>5. ASSUME NEW k \in Ids, NEW l \in Ids, IsKept(req[r], k), IsAdded(req[r], l), row'[k].series,
             row'[l].series, k \notin moved'
      PROVE  row'[k].date # row'[l].date
  <2>1. k \in Series \ moved /\ row'[k].date = row[k].date
    BY <1>4, <1>5
  <2>2. req[r].mark.op = "recur" /\ row'[l] \in req[r].adds
    BY <1>5, AddedIs DEF IsAdded
  <2>3. req[r].old[k].series => req[r].old[k].date # row'[l].date
    BY <1>1, <2>2 DEF RequestInv, RecurInv
  <2>4. row[k] # NoRow /\ row[k].series
    BY <2>1 DEF Series, Rows
  <2>5. req[r].old[k] # NoRow
    <3>1. req[r].old[k] = NoRow => {"recur", "recur"} \in crossed
      BY <1>1, <2>2, <2>4 DEF RequestInv, SinceInv
    <3>2. {"recur", "recur"} = {"recur"}
      OBVIOUS
    <3>3. QED
      BY <1>1, <3>1, <3>2
  <2>6. req[r].old[k].series /\ req[r].old[k].date = row[k].date
    BY <1>1, <2>1, <2>4, <2>5 DEF RequestInv, SinceInv
  <2>7. QED
    BY <2>1, <2>3, <2>6
<1>6. CASE IsKept(req[r], i) /\ IsKept(req[r], j)
  BY <1>1, <1>2, <1>4, <1>6 DEF OneOccurrenceEach
<1>7. CASE IsAdded(req[r], i) /\ IsAdded(req[r], j)
  <2>1. row'[i] \in req[r].adds /\ row'[j] \in req[r].adds
    BY <1>7 DEF IsAdded
  <2>2. row'[i] = row'[j]
    BY <1>1, <2>1 DEF RequestInv, PlanInv
  <2>3. QED
    BY <1>2, <1>7, <2>2, CommitIs
<1>8. QED
  BY <1>2, <1>3, <1>5, <1>6, <1>7

LEMMA CommitEntries ==
  ASSUME SeriesInv, NEW r \in Slots, Commit(r) PROVE EntriesOnce'
<1> SUFFICES ASSUME {"sync"} \notin crossed',
                    NEW i \in (Rows' \ Series') \ (renamed' \cup moved'),
                    NEW j \in (Rows' \ Series') \ (renamed' \cup moved'),
                    row'[i].date = row'[j].date
             PROVE  i = j
  BY DEF EntriesOnce
<1>1. EntriesOnce /\ HistoryInv /\ crossed' = crossed /\ RequestInv(req[r])
  BY CommitRest, CommitIs DEF SeriesInv
<1>2. i \in Ids /\ row'[i] # NoRow /\ ~row'[i].series /\ j \in Ids /\ row'[j] # NoRow /\ ~row'[j].series
  BY DEF Series, Rows
<1>3. /\ IsKept(req[r], i) \/ IsAdded(req[r], i)
      /\ IsKept(req[r], j) \/ IsAdded(req[r], j)
  BY <1>2, CommitIs DEF GoesAway
<1>4. ASSUME NEW k \in Ids, IsKept(req[r], k), ~row'[k].series, k \notin renamed' \cup moved'
      PROVE  k \in (Rows \ Series) \ (renamed \cup moved) /\ row'[k].date = row[k].date
  BY <1>4, KeptIs, RowIs DEF IsKept, Series, Rows
<1>5. ASSUME NEW k \in Ids, NEW l \in Ids, IsKept(req[r], k), IsAdded(req[r], l), ~row'[k].series,
             ~row'[l].series, k \notin renamed' \cup moved'
      PROVE  row'[k].date # row'[l].date
  <2>1. k \in (Rows \ Series) \ (renamed \cup moved) /\ row'[k].date = row[k].date
    BY <1>4, <1>5
  <2>2. req[r].mark.op = "sync" /\ row'[l] \in req[r].adds
    BY <1>5, AddedIs DEF IsAdded
  <2>3. req[r].old[k] # NoRow /\ req[r].old[k].title = 0 => req[r].old[k].date # row'[l].date
    BY <1>1, <2>2 DEF RequestInv, SyncInv
  <2>4. row[k] # NoRow /\ ~row[k].series /\ row[k].title = 0
    BY <1>1, <2>1 DEF Series, Rows, HistoryInv
  <2>5. req[r].old[k] # NoRow
    <3>1. req[r].old[k] = NoRow => {"sync", "sync"} \in crossed
      BY <1>1, <2>2, <2>4 DEF RequestInv, SinceInv
    <3>2. {"sync", "sync"} = {"sync"}
      OBVIOUS
    <3>3. QED
      BY <1>1, <3>1, <3>2
  <2>6. req[r].old[k].title = 0 /\ req[r].old[k].date = row[k].date
    BY <1>1, <2>1, <2>4, <2>5 DEF RequestInv, SinceInv
  <2>7. QED
    BY <2>1, <2>3, <2>5, <2>6
<1>6. CASE IsKept(req[r], i) /\ IsKept(req[r], j)
  BY <1>1, <1>2, <1>4, <1>6 DEF EntriesOnce
<1>7. CASE IsAdded(req[r], i) /\ IsAdded(req[r], j)
  <2>1. row'[i] \in req[r].adds /\ row'[j] \in req[r].adds
    BY <1>7 DEF IsAdded
  <2>2. row'[i] = row'[j]
    BY <1>1, <2>1 DEF RequestInv, PlanInv
  <2>3. QED
    BY <1>2, <1>7, <2>2, CommitIs
<1>8. QED
  BY <1>2, <1>3, <1>5, <1>6, <1>7

LEMMA CommitPast ==
  ASSUME SeriesInv, NEW r \in Slots, Commit(r) PROVE PastStands'
<1> SUFFICES ASSUME {"pass", "recur"} \notin crossed', NEW i \in held', i \in Rows'
             PROVE  Active(i)' \/ i \in byHand' \cup moved'
  BY DEF PastStands
<1>1. PastStands /\ HistoryInv /\ crossed' = crossed /\ RequestInv(req[r])
  BY CommitRest, CommitIs DEF SeriesInv
<1>2. i \in Ids /\ row'[i] # NoRow
  BY DEF Rows
<1>3. IsKept(req[r], i)
  BY <1>2, CommitIs, AddedIs DEF GoesAway
<1>4. /\ i \in held /\ i \in Rows /\ row[i] # NoRow /\ (i \in byHand => i \in byHand')
      /\ i \notin moved' => i \notin moved /\ row'[i].date = row[i].date
  BY <1>2, <1>3, KeptIs, RowIs DEF IsKept, Rows
<1>5. CASE row'[i].status = row[i].status
  BY <1>1, <1>4, <1>5 DEF PastStands, Active
<1>6. CASE row'[i].status # row[i].status
  <2>1. /\ req[r].mark.op \in {"cancel", "recur"} /\ req[r].new[i].status # req[r].old[i].status
        /\ req[r].old[i] \in RowType /\ req[r].old[i] # NoRow
        /\ req[r].mark.op = "cancel" => i \in byHand'
    BY <1>2, <1>3, <1>6, KeptIs, RowIs
  <2>2. CASE req[r].mark.op = "recur"
    <3>1. req[r].old[i].date > now
      BY <1>1, <1>2, <2>1, <2>2 DEF RequestInv, RecurInv
    <3>2. i \in moved \/ row[i].date = req[r].old[i].date
      BY <1>1, <1>2, <1>4, <2>1 DEF RequestInv, SinceInv
    <3>3. i \in moved \/ row[i].date <= now
      BY <1>1, <1>4 DEF HistoryInv
    <3>4. now \in Nat /\ req[r].old[i].date \in Nat
      BY <2>1, RowIs DEF SeriesInv, TypeInv
    <3>5. QED
      BY <1>4, <3>1, <3>2, <3>3, <3>4
  <2>3. QED
    BY <2>1, <2>2
<1>7. QED
  BY <1>5, <1>6

LEMMA CommitContents ==
  ASSUME SeriesInv, NEW r \in Slots, Commit(r) PROVE ContentsAgree'
<1> SUFFICES ASSUME Unmixed', NEW i \in Series', NEW j \in Series'
             PROVE  Alike(row'[i], row'[j])
  BY DEF ContentsAgree
<1>1. ContentsAgree /\ CloneInv /\ crossed' = crossed /\ RequestInv(req[r])
  BY CommitRest, CommitIs DEF SeriesInv
<1>2. i \in Ids /\ row'[i] # NoRow /\ row'[i].series /\ j \in Ids /\ row'[j] # NoRow /\ row'[j].series
  BY DEF Series, Rows
<1>3. /\ IsKept(req[r], i) \/ IsAdded(req[r], i)
      /\ IsKept(req[r], j) \/ IsAdded(req[r], j)
  BY <1>2, CommitIs DEF GoesAway
<1>4. wide' /\ {"edit"} \notin crossed /\ {"edit", "recur"} \notin crossed
  BY <1>1 DEF Unmixed
<1>5. CASE req[r].mark.op = "edit" /\ req[r].mark.wide
  <2>1. PICK u, t \in 0..MaxTexts :
          \A k \in Ids : req[r].old[k].series =>
            req[r].new[k].title = u /\ req[r].new[k].text = t /\ req[r].old[k].text # t
    BY <1>1, <1>5 DEF RequestInv, WideInv
  <2>2. ASSUME NEW k \in Ids, row'[k].series, IsKept(req[r], k) \/ IsAdded(req[r], k)
        PROVE  row'[k].title = u /\ row'[k].text = t
    <3>1. IsKept(req[r], k)
      BY <1>5, <2>2, AddedIs
    <3>2. row[k] # NoRow /\ row[k].series
      BY <2>2, <3>1, RowIs DEF IsKept
    <3>3. req[r].old[k] # NoRow
      BY <1>1, <1>4, <1>5, <3>2 DEF RequestInv, SinceInv
    <3>4. req[r].old[k].series
      BY <1>1, <3>2, <3>3 DEF RequestInv, SinceInv
    <3>5. req[r].new[k].title = u /\ req[r].new[k].text = t /\ req[r].old[k].text # t
      BY <2>1, <3>4
    <3>6. {"edit", "edit"} = {"edit"}
      OBVIOUS
    <3>7. row[k].title = req[r].old[k].title
      BY <1>1, <1>4, <1>5, <3>2, <3>3, <3>6 DEF RequestInv, SinceInv
    <3>8. QED
      BY <3>1, <3>5, <3>7 DEF IsKept
  <2>3. QED
    BY <1>2, <1>3, <2>2 DEF Alike
<1>6. CASE ~(req[r].mark.op = "edit" /\ req[r].mark.wide)
  <2>1. wide /\ ~(req[r].mark.op = "edit" /\ \E k \in Ids : req[r].new[k].text # req[r].old[k].text)
    BY <1>4, <1>6, WideKept
  <2>2. Unmixed
    BY <1>1, <2>1 DEF Unmixed
  <2>3. ASSUME NEW k \in Ids, row'[k].series, IsKept(req[r], k)
        PROVE  /\ k \in Series /\ row'[k].title = row[k].title
               /\ row'[k].text = row[k].text \/ (req[r].mark.op = "sync" /\ row'[k].text = 0)
    <3>1. k \in Series
      BY <2>3, RowIs DEF IsKept, Series, Rows
    <3>2. req[r].mark.op = "edit" => row'[k].title = row[k].title /\ row'[k].text = row[k].text
      <4>1. req[r].new[k].title # req[r].old[k].title => req[r].new[k].text # req[r].old[k].text
        BY <2>3, KeptIs
      <4>2. QED
        BY <2>1, <2>3, <4>1 DEF IsKept
    <3>3. QED
      BY <2>3, <3>1, <3>2, KeptIs DEF Series
  <2>4. ASSUME NEW k \in Ids, row'[k].series, IsAdded(req[r], k)
        PROVE  req[r].mark.op = "recur" /\ row'[k] \in req[r].adds
    BY <2>4, AddedIs DEF IsAdded
  <2>5. ASSUME NEW k \in Ids, NEW l \in Ids, row'[k].series, row'[l].series, IsKept(req[r], k), IsAdded(req[r], l)
        PROVE  Alike(row'[k], row'[l]) /\ Alike(row'[l], row'[k])
    <3>1. Alike(row[k], row'[l])
      BY <1>1, <2>2, <2>3, <2>4, <2>5 DEF RequestInv, RecurInv
    <3>2. QED
      BY <2>3, <2>5, <3>1 DEF Alike
  <2>6. ASSUME NEW k \in Ids, NEW l \in Ids, row'[k].series, row'[l].series, IsAdded(req[r], k), IsAdded(req[r], l)
        PROVE  Alike(row'[k], row'[l])
    BY <1>1, <2>2, <2>4, <2>6, CommitIs DEF CloneInv
  <2>7. ASSUME NEW k \in Ids, NEW l \in Ids, row'[k].series, row'[l].series, IsKept(req[r], k), IsKept(req[r], l)
        PROVE  Alike(row'[k], row'[l])
    <3>1. Alike(row[k], row[l])
      BY <1>1, <2>2, <2>3, <2>7 DEF ContentsAgree
    <3>2. QED
      BY <2>3, <2>7, <3>1 DEF Alike
  <2>8. QED
    BY <1>2, <1>3, <2>5, <2>6, <2>7
<1>7. QED
  BY <1>5, <1>6

\* The rows of a request that read them all before the others changed the series.
LEMMA CommitRange ==
  ASSUME SeriesInv, NEW r \in Slots, Commit(r) PROVE RangeHolds'
<1> SUFFICES ASSUME window'.on, moved' = {}, window'.rule = "weekly",
                    crossed' \cap {{"recur"}, {"recur", "delete"}} = {}
             PROVE  /\ \A d \in window'.from..window'.to :
                         (d - window'.anchor) % Period = 0 => d \in Dates(Series)'
                    /\ \A i \in Series' :
                         Active(i)' => row'[i].date <= window'.at \/ row'[i].date \in window'.from..window'.to
  BY DEF RangeHolds
<1>1. /\ RangeHolds /\ crossed' = crossed /\ RequestInv(req[r])
      /\ {"recur"} \notin crossed /\ {"recur", "delete"} \notin crossed
  BY CommitRest, CommitIs DEF SeriesInv
<1>2. ASSUME NEW i \in Ids, IsKept(req[r], i)
      PROVE  /\ i \in Rows /\ i \in Rows' /\ i \notin moved /\ row'[i].date = row[i].date
             /\ row'[i].series = row[i].series
             /\ row'[i].status = "active" => row[i].status = "active"
  BY <1>2, KeptIs, RowIs DEF IsKept, Rows
<1>3. ASSUME NEW i \in Series' PROVE i \in Ids /\ row'[i].series /\ (IsKept(req[r], i) \/ IsAdded(req[r], i))
  BY <1>3, CommitIs DEF Series, Rows, GoesAway
<1>4. ASSUME NEW i \in Series, i \notin req[r].dels PROVE i \in Ids /\ IsKept(req[r], i)
  BY <1>4, CommitIs DEF Series, Rows, GoesAway, IsAdded
<1>5. \A i \in req[r].dels : req[r].mark.op = "delete"
  BY <1>1 DEF RequestInv, PlanInv, ChangeInv
<1>6. CASE req[r].mark.op = "recur"
  <2>1. PICK w : w = req[r].mark.window
    OBVIOUS
  <2>2. window' = w
    BY <1>6, <2>1 DEF Commit
  <2>3. ASSUME NEW i \in Ids, req[r].old[i].series
        PROVE  i \in Series' /\ row'[i].date = req[r].old[i].date /\ IsKept(req[r], i)
    <3>1. req[r].old[i] # NoRow
      BY <2>3, NoRowIs
    <3>2. {"recur", "delete"} \notin crossed
      BY <1>1
    <3>3. row[i] # NoRow
      BY <1>1, <1>6, <3>1, <3>2 DEF RequestInv, SinceInv
    <3>4. row[i].series /\ (i \in moved \/ row[i].date = req[r].old[i].date)
      BY <1>1, <2>3, <3>1, <3>3 DEF RequestInv, SinceInv
    <3>5. i \in Series /\ i \notin req[r].dels
      BY <1>5, <1>6, <3>3, <3>4 DEF Series, Rows
    <3>6. IsKept(req[r], i)
      BY <1>4, <3>5
    <3>7. QED
      BY <1>2, <3>4, <3>6 DEF Series
  <2>4. ASSUME NEW d \in w.from..w.to, (d - w.anchor) % Period = 0 PROVE d \in Dates(Series)'
    <3>1. w.rule = "weekly"
      BY <2>2
    <3>2. \/ \E i \in Ids : req[r].old[i].series /\ req[r].old[i].date = d
          \/ \E a \in req[r].adds : a.date = d
      BY <1>1, <1>6, <2>1, <2>4, <3>1 DEF RequestInv, RecurInv
    <3>3. CASE \E i \in Ids : req[r].old[i].series /\ req[r].old[i].date = d
      BY <2>3, <3>3 DEF Dates
    <3>4. CASE \E a \in req[r].adds : a.date = d
      <4>1. PICK a \in req[r].adds : a.date = d
        BY <3>4
      <4>2. a \in RowType /\ a.series
        BY <1>1, <1>6, AddsAre DEF RequestInv
      <4>3. PICK i \in Ids : row'[i] = a
        BY CommitIs
      <4>4. i \in Series'
        BY <4>2, <4>3, RowIs DEF Series, Rows
      <4>5. QED
        BY <4>1, <4>3, <4>4 DEF Dates
    <3>5. QED
      BY <3>2, <3>3, <3>4
  <2>5. ASSUME NEW i \in Series', row'[i].status = "active"
        PROVE  row'[i].date <= w.at \/ row'[i].date \in w.from..w.to
    <3>1. i \in Ids /\ row'[i].series
      BY <1>3, <2>5
    <3>2. CASE IsKept(req[r], i)
      <4>1. row[i] # NoRow /\ row[i].series /\ row'[i].date = row[i].date /\ row[i].status = "active"
        BY <1>2, <2>5, <3>1, <3>2 DEF Rows
      <4>2. req[r].old[i] # NoRow
        <5>1. req[r].old[i] = NoRow => {"recur", "recur"} \in crossed
          BY <1>1, <1>6, <3>1, <4>1 DEF RequestInv, SinceInv
        <5>2. {"recur", "recur"} = {"recur"}
          OBVIOUS
        <5>3. QED
          BY <1>1, <5>1, <5>2
      <4>3. /\ req[r].old[i].series /\ req[r].old[i].date = row'[i].date
            /\ req[r].old[i].status # "cancelled"
        BY <1>1, <1>2, <3>1, <3>2, <4>1, <4>2 DEF RequestInv, SinceInv
      <4>4. req[r].old[i] \in RowType /\ req[r].new[i] \in RowType
        BY <1>1, <3>1, <4>2 DEF RequestInv, PlanInv, ChangeInv
      <4>5. req[r].new[i].status = "active"
        BY <2>5, <3>2, <4>3, <4>4, RowIs DEF IsKept
      <4>6. QED
        BY <1>1, <1>6, <2>1, <3>1, <4>3, <4>5 DEF RequestInv, RecurInv
    <3>3. CASE IsAdded(req[r], i)
      BY <1>1, <1>6, <2>1, <3>3 DEF RequestInv, RecurInv, IsAdded
    <3>4. QED
      BY <1>3, <2>5, <3>2, <3>3
  <2>6. QED
    BY <2>2, <2>4, <2>5 DEF Active
<1>7. CASE req[r].mark.op # "recur"
  <2>1. window' = NoWindow \/ (window' = window /\ moved' = moved /\ req[r].mark.op # "delete")
    BY <1>7 DEF Commit
  <2>2. window' = window /\ moved = {} /\ req[r].mark.op # "delete"
    BY <2>1 DEF NoWindow
  <2>3. /\ \A d \in window.from..window.to : (d - window.anchor) % Period = 0 => d \in Dates(Series)
        /\ \A i \in Series : Active(i) => row[i].date <= window.at \/ row[i].date \in window.from..window.to
    <3>1. crossed \cap {{"recur"}, {"recur", "delete"}} = {}
      BY <1>1
    <3>2. QED
      BY <1>1, <2>2, <3>1 DEF RangeHolds
  <2>4. ASSUME NEW i \in Series PROVE i \in Series' /\ row'[i].date = row[i].date
    BY <1>2, <1>4, <1>5, <2>2, <2>4 DEF Series
  <2>5. \A d \in Dates(Series) : d \in Dates(Series)'
    BY <2>4 DEF Dates
  <2>6. ASSUME NEW i \in Series', row'[i].status = "active"
        PROVE  row[i].status = "active" /\ i \in Series /\ row'[i].date = row[i].date
    <3>1. IsKept(req[r], i)
      BY <1>3, <1>7, <2>6, AddedIs
    <3>2. QED
      BY <1>2, <1>3, <2>6, <3>1 DEF Series
  <2>7. QED
    BY <2>2, <2>3, <2>5, <2>6 DEF Active
<1>8. QED
  BY <1>6, <1>7

LEMMA CommitSeries ==
  ASSUME SeriesInv, NEW r \in Slots, Commit(r) PROVE SeriesInv'
<1>1. ASSUME NEW s \in Slots, NEW q \in {req'[s]} \ {NoRequest} PROVE RequestInv(q)'
  BY <1>1, CommitOthers, BothCrossed
<1>2. QED
  BY <1>1, CommitTypes, CommitHistory, CommitCross, CommitOccurrences, CommitEntries, CommitPast,
     CommitContents, CommitRange DEF SeriesInv

\* A request that gives up changes nothing.
LEMMA QuietSeries ==
  ASSUME SeriesInv, DOMAIN req' = Slots, \A s \in Slots : req'[s] = NoRequest \/ req'[s] = req[s],
         UNCHANGED <<row, now, begun, texts, crossed, hist>>
  PROVE  SeriesInv'
<1>1. /\ DOMAIN req' = Slots /\ \A s \in Slots : req'[s] = NoRequest \/ req'[s] = req[s]
      /\ UNCHANGED <<row, now, begun, texts, crossed, hist>>
  OBVIOUS
<1>2. ASSUME NEW s \in Slots, req'[s] # NoRequest
      PROVE  req'[s] = req[s] /\ req[s] # NoRequest
  BY <1>1, <1>2
<1>7. ASSUME NEW s \in Slots, NEW q \in {req'[s]} \ {NoRequest} PROVE RequestInv(q)'
  <2>1. RequestInv(q)
    <3>1. q \in {req[s]} \ {NoRequest}
      BY <1>2, <1>7
    <3>2. QED
      BY <3>1 DEF SeriesInv
  <2>2. PlanInv(q)' /\ WideInv(q)' /\ SyncInv(q)'
    BY <1>1, <2>1 DEF RequestInv, PlanInv, ChangeInv, WideInv, SyncInv
  <2>3. RecurInv(q)'
    BY <1>1, <2>1 DEF RequestInv, RecurInv, hist, Series, Rows, Unmixed
  <2>4. SinceInv(q)'
    BY <1>1, <2>1 DEF RequestInv, SinceInv, hist
  <2>5. QED
    BY <2>2, <2>3, <2>4 DEF RequestInv
<1>3. CrossInv'
  BY <1>1, <1>2 DEF SeriesInv, CrossInv
<1>4. CloneInv'
  <2>1. CloneInv
    BY DEF SeriesInv
  <2>2. QED
    BY <1>1, <1>2, <2>1 DEF CloneInv, hist, Unmixed
<1>5. TypeInv' /\ HistoryInv' /\ OneOccurrenceEach' /\ PastStands' /\ RangeHolds' /\ ContentsAgree' /\ EntriesOnce'
  BY <1>1 DEF SeriesInv, TypeInv, TypeOK, HistoryInv, OneOccurrenceEach, PastStands, RangeHolds, ContentsAgree,
     EntriesOnce, hist, Series, Rows, Active, Dates, Unmixed
<1>6. QED
  BY <1>3, <1>4, <1>5, <1>7 DEF SeriesInv

LEMMA PassSeries ==
  ASSUME SeriesInv, Pass PROVE SeriesInv'
<1>1. PICK d : /\ d \in Dates(Rows) /\ now < d /\ now' = d
               /\ held' = held \cup {i \in Rows : row[i].date = d /\ Active(i)}
  BY DEF Pass
<1>2. /\ crossed' = crossed \cup {{"pass", req[r].mark.op} : r \in {p \in Slots : req[p] # NoRequest}}
      /\ UNCHANGED <<row, req, begun, texts, kind, moved, byHand, wide, window, gone, renamed>>
  BY DEF Pass
<1>3. \A i \in Rows : row[i] \in RowType /\ row[i].date \in Days /\ row[i].date \in Nat
  BY RowIs DEF SeriesInv, TypeInv, TypeOK
<1>4. now \in Nat /\ d \in Days /\ d \in Nat /\ d \in 0..LastDay
  BY <1>1, <1>3 DEF Dates, Days, SeriesInv, TypeInv
<1>5. TypeInv'
  BY <1>1, <1>2, <1>4 DEF SeriesInv, TypeInv, TypeOK, Rows
<1>6. HistoryInv'
  <2>1. ASSUME NEW i \in held', i \in Rows PROVE i \in moved \/ row[i].date <= d
    BY <1>1, <1>3, <1>4, <2>1 DEF SeriesInv, HistoryInv
  <2>2. QED
    BY <1>1, <1>2, <2>1 DEF SeriesInv, HistoryInv, Rows, Series
<1>7. CrossInv' /\ CloneInv'
  <2>1. CrossInv /\ CloneInv /\ \A c \in crossed : c \in crossed'
    BY <1>2 DEF SeriesInv
  <2>2. CrossInv'
    BY <1>2, <2>1 DEF CrossInv
  <2>3. CloneInv'
    BY <1>2, <2>1 DEF CloneInv, Unmixed
  <2>4. QED
    BY <2>2, <2>3
<1>8. ASSUME NEW s \in Slots, NEW q \in {req'[s]} \ {NoRequest} PROVE RequestInv(q)'
  <2>1. q = req[s] /\ req[s] # NoRequest /\ RequestInv(q)
    <3>1. q = req[s] /\ q \in {req[s]} \ {NoRequest}
      BY <1>2, <1>8
    <3>2. QED
      BY <3>1 DEF SeriesInv
  <2>2. PlanInv(q)' /\ WideInv(q)' /\ SyncInv(q)'
    BY <1>2, <2>1 DEF RequestInv, PlanInv, ChangeInv, WideInv, SyncInv
  <2>3. RecurInv(q)'
    <3>1. ASSUME q.mark.op = "recur" PROVE {"pass", "recur"} \in crossed'
      BY <1>2, <2>1, <3>1
    <3>2. \A c \in crossed : c \in crossed'
      BY <1>2
    <3>3. RecurInv(q)
      BY <2>1 DEF RequestInv
    <3>4. UNCHANGED <<wide, row>>
      BY <1>2
    <3>5. QED
      BY <3>1, <3>2, <3>3, <3>4 DEF RecurInv, Series, Rows, Unmixed
  <2>4. SinceInv(q)'
    <3>1. \A c \in crossed : c \in crossed'
      BY <1>2
    <3>2. SinceInv(q) /\ UNCHANGED <<row, moved, renamed>>
      BY <1>2, <2>1 DEF RequestInv
    <3>3. QED
      BY <3>1, <3>2 DEF SinceInv
  <2>5. QED
    BY <2>2, <2>3, <2>4 DEF RequestInv
<1>9. PastStands'
  <2>1. PastStands /\ \A c \in crossed : c \in crossed'
    BY <1>2 DEF SeriesInv
  <2>2. QED
    BY <1>1, <1>2, <2>1 DEF PastStands, Rows, Active
<1>10. OneOccurrenceEach' /\ RangeHolds' /\ ContentsAgree' /\ EntriesOnce'
  <2>1. /\ OneOccurrenceEach /\ RangeHolds /\ ContentsAgree /\ EntriesOnce
        /\ \A c \in crossed : c \in crossed'
    BY <1>2 DEF SeriesInv
  <2>2. OneOccurrenceEach' /\ ContentsAgree' /\ EntriesOnce'
    BY <1>2, <2>1 DEF OneOccurrenceEach, ContentsAgree, EntriesOnce, Rows, Series, Unmixed
  <2>3. RangeHolds'
    BY <1>2, <2>1 DEF RangeHolds, Rows, Series, Dates, Active
  <2>4. QED
    BY <2>2, <2>3
<1>11. QED
  BY <1>5, <1>6, <1>7, <1>8, <1>9, <1>10 DEF SeriesInv

\* A request that begins with what it has read and worked out.
LEMMA BeginSeries ==
  ASSUME SeriesInv, NEW new, NEW adds, NEW dels, NEW updates, NEW mark, Begin(new, adds, dels, updates, mark),
         UNCHANGED <<row, now, hist>>, texts' \in Nat, texts' >= texts,
         NEW q, q = [pc |-> "commit", old |-> row, new |-> new, adds |-> adds, dels |-> dels,
                     updates |-> updates, mark |-> mark],
         PlanInv(q)', WideInv(q), RecurInv(q), SyncInv(q),
         mark.op = "recur" => \A a \in adds : \E i \in Series : a.title = row[i].title /\ a.text = row[i].text
  PROVE  SeriesInv'
<1>1. PICK r \in Slots :
        /\ req[r] = NoRequest /\ req' = [req EXCEPT ![r] = q]
        /\ crossed' = crossed \cup {{mark.op, req[p].mark.op} : p \in {p \in Slots \ {r} : req[p] # NoRequest}}
  BY DEF Begin
<1>2. UNCHANGED <<row, now, kind, moved, byHand, held, wide, window, gone, renamed>>
  BY DEF hist
<1>3. begun' \in 0..MaxRequests
  <2>1. MaxRequests \in Nat
    BY SeriesAssumption
  <2>2. begun < MaxRequests /\ begun' = begun + 1
    BY DEF Begin
  <2>3. begun \in 0..MaxRequests
    BY DEF SeriesInv, TypeInv, TypeOK
  <2>4. QED
    BY <2>1, <2>2, <2>3
<1>4. TypeInv'
  <2>1. TypeInv /\ DOMAIN req' = Slots
    BY <1>1 DEF SeriesInv, TypeInv
  <2>2. \A i \in Rows : row[i].text \in Nat /\ row[i].text <= texts /\ row[i] \in RowType
    BY <2>1, RowIs DEF TypeInv, TypeOK
  <2>3. \A i \in Rows : row[i].text <= texts'
    BY <2>1, <2>2 DEF TypeInv
  <2>4. QED
    BY <1>2, <1>3, <2>1, <2>3 DEF TypeInv, TypeOK, Rows
<1>5. \A c \in crossed : c \in crossed'
  BY <1>1
<1>6. /\ DOMAIN req = Slots /\ req'[r] = q /\ q # NoRequest /\ \A s \in Slots : s # r => req'[s] = req[s]
      /\ q.mark = mark
  BY <1>1 DEF SeriesInv, TypeInv, NoRequest
<1>7. CrossInv'
  <2> SUFFICES ASSUME NEW s \in Slots, NEW t \in Slots, s # t, req'[s] # NoRequest, req'[t] # NoRequest
               PROVE  {req'[s].mark.op, req'[t].mark.op} \in crossed'
    BY DEF CrossInv
  <2>1. CASE s # r /\ t # r
    BY <1>5, <1>6, <2>1 DEF SeriesInv, CrossInv
  <2>2. ASSUME NEW p \in Slots \ {r}, req[p] # NoRequest PROVE {q.mark.op, req[p].mark.op} \in crossed'
    BY <1>1, <1>6, <2>2
  <2>3. CASE s = r
    BY <1>6, <2>2, <2>3
  <2>4. CASE t = r
    <3>1. {q.mark.op, req[s].mark.op} \in crossed' /\ req'[s] = req[s]
      BY <1>6, <2>2, <2>4
    <3>2. {q.mark.op, req[s].mark.op} = {req[s].mark.op, q.mark.op}
      OBVIOUS
    <3>3. QED
      BY <1>6, <2>4, <3>1, <3>2
  <2>5. QED
    BY <2>1, <2>3, <2>4
<1>8. RequestInv(q)'
  <2>1. WideInv(q)' /\ SyncInv(q)'
    BY DEF WideInv, SyncInv
  <2>2. RecurInv(q)'
    BY <1>2, <1>5 DEF RecurInv, Rows, Series, Unmixed
  <2>3. q.old = row
    OBVIOUS
  <2>4. SinceInv(q)'
    BY <1>2, <2>3 DEF SinceInv
  <2>5. QED
    BY <2>1, <2>2, <2>4 DEF RequestInv
<1>9. ASSUME NEW s \in Slots, s # r, NEW p \in {req[s]} \ {NoRequest} PROVE RequestInv(p)'
  <2>1. RequestInv(p)
    BY <1>9 DEF SeriesInv
  <2>2. PlanInv(p)'
    <3>1. PlanInv(p) /\ texts \in Nat
      BY <2>1 DEF RequestInv, SeriesInv, TypeInv
    <3>2. ASSUME NEW i \in Ids PROVE ChangeInv(p, i)'
      <4>1. ChangeInv(p, i)
        BY <3>1, <3>2 DEF PlanInv
      <4>2. p.new[i].text \in Nat
        BY <4>1, RowIs, NoRowIs DEF ChangeInv
      <4>3. p.new[i].text <= texts'
        BY <3>1, <4>1, <4>2 DEF ChangeInv
      <4>4. QED
        BY <4>1, <4>3 DEF ChangeInv
    <3>3. ASSUME NEW a \in p.adds PROVE a.text <= texts'
      <4>1. a.text \in Nat /\ a.text <= texts
        BY <3>1, <3>3, RowIs DEF PlanInv
      <4>2. QED
        BY <3>1, <4>1
    <3>4. QED
      BY <3>1, <3>2, <3>3 DEF PlanInv
  <2>3. WideInv(p)' /\ SyncInv(p)'
    BY <2>1 DEF RequestInv, WideInv, SyncInv
  <2>4. RecurInv(p)'
    BY <1>2, <1>5, <2>1 DEF RequestInv, RecurInv, Rows, Series, Unmixed
  <2>5. SinceInv(p)'
    BY <1>2, <1>5, <2>1 DEF RequestInv, SinceInv
  <2>6. QED
    BY <2>2, <2>3, <2>4, <2>5 DEF RequestInv
<1>10. ASSUME NEW s \in Slots, NEW p \in {req'[s]} \ {NoRequest} PROVE RequestInv(p)'
  BY <1>6, <1>8, <1>9, <1>10
<1>11. CloneInv'
  <2> SUFFICES ASSUME Unmixed', NEW s \in Slots, NEW t \in Slots,
                      NEW a \in IF req'[s] = NoRequest THEN {} ELSE req'[s].adds,
                      NEW b \in IF req'[t] = NoRequest THEN {} ELSE req'[t].adds, a.series, b.series
               PROVE  Alike(a, b)
    BY DEF CloneInv
  <2>1. Unmixed
    BY <1>2, <1>5 DEF Unmixed
  <2>2. ASSUME NEW u \in Slots, NEW c \in IF req'[u] = NoRequest THEN {} ELSE req'[u].adds, c.series
        PROVE  req'[u].mark.op = "recur" /\ \A i \in Series : Alike(row[i], c)
    <3>1. PICK p : p = req'[u]
      OBVIOUS
    <3>2. p \in {req'[u]} \ {NoRequest} /\ c \in p.adds
      BY <1>6, <2>2, <3>1
    <3>3. PlanInv(p)' /\ RecurInv(p)'
      BY <1>10, <3>2 DEF RequestInv
    <3>4. p.mark.op = "recur"
      BY <2>2, <3>2, <3>3 DEF PlanInv
    <3>5. \A i \in Series' : Alike(row'[i], c)
      BY <3>2, <3>3, <3>4 DEF RecurInv
    <3>6. QED
      BY <1>2, <3>1, <3>4, <3>5 DEF Series, Rows
  <2>3. ASSUME NEW c \in IF req'[r] = NoRequest THEN {} ELSE req'[r].adds, c.series
        PROVE  \E i \in Series : c.title = row[i].title /\ c.text = row[i].text
    BY <1>6, <2>2, <2>3
  <2>4. CASE s # r /\ t # r
    <3>1. CloneInv
      BY DEF SeriesInv
    <3>2. QED
      BY <1>6, <2>1, <2>4, <3>1 DEF CloneInv
  <2>5. CASE s = r
    <3>1. PICK i \in Series : a.title = row[i].title /\ a.text = row[i].text
      BY <2>3, <2>5
    <3>2. Alike(row[i], b)
      BY <2>2, <3>1
    <3>3. QED
      BY <3>1, <3>2 DEF Alike
  <2>6. CASE t = r
    <3>1. PICK i \in Series : b.title = row[i].title /\ b.text = row[i].text
      BY <2>3, <2>6
    <3>2. Alike(row[i], a)
      BY <2>2, <3>1
    <3>3. QED
      BY <3>1, <3>2 DEF Alike
  <2>7. QED
    BY <2>4, <2>5, <2>6
<1>12. HistoryInv'
  BY <1>2 DEF SeriesInv, HistoryInv, Rows, Series
<1>13. OneOccurrenceEach' /\ ContentsAgree' /\ EntriesOnce' /\ PastStands' /\ RangeHolds'
  <2>1. OneOccurrenceEach /\ ContentsAgree /\ EntriesOnce /\ PastStands /\ RangeHolds
    BY DEF SeriesInv
  <2>2. OneOccurrenceEach' /\ ContentsAgree' /\ EntriesOnce'
    BY <1>2, <1>5, <2>1 DEF OneOccurrenceEach, ContentsAgree, EntriesOnce, Rows, Series, Unmixed
  <2>3. RangeHolds' /\ PastStands'
    BY <1>2, <1>5, <2>1 DEF RangeHolds, PastStands, Rows, Series, Dates, Active
  <2>4. QED
    BY <2>2, <2>3
<1>14. QED
  BY <1>4, <1>7, <1>10, <1>11, <1>12, <1>13 DEF SeriesInv

\* The calendar is finite, and a month's days are in it.
LEMMA CalendarDays ==
  /\ Days \subseteq Nat \ {0} /\ IsFiniteSet(Days) /\ LastDay \in Nat
  /\ \A m \in DOMAIN Months : Before[m] \in Nat /\ Months[m] \in Nat \ {0} /\ Before[m] + Months[m] <= LastDay
<1>1. LastDay \in Nat /\ Before \in Seq(0..LastDay) /\ Len(Before) > 1
  <2>1. Before \in Seq(0..LastDay) /\ Len(Before) > 1
    BY CalendarAssumption
  <2>2. Len(Before) \in DOMAIN Before /\ DOMAIN Before = 1..Len(Before)
    BY <2>1
  <2>3. Before[Len(Before)] \in 0..LastDay
    <3>1. PICK S : S = 0..LastDay
      OBVIOUS
    <3>2. Before \in Seq(S)
      BY <2>1, <3>1
    <3>3. \A k \in DOMAIN Before : Before[k] \in S
      BY <3>2
    <3>4. QED
      BY <2>2, <3>1, <3>3
  <2>4. QED
    BY <2>1, <2>3 DEF LastDay
<1>2. ASSUME NEW m \in DOMAIN Months
      PROVE  Before[m] \in Nat /\ Months[m] \in Nat \ {0} /\ Before[m] + Months[m] <= LastDay
  <2>1. m \in 1..(Len(Before) - 1) /\ Months[m] = Before[m + 1] - Before[m]
    BY <1>2 DEF Months
  <2>2. Before[m] \in 0..LastDay /\ Before[m + 1] \in 0..LastDay
    BY <1>1, <2>1
  <2>3. Months[m] > 0
    BY <1>2, CalendarAssumption
  <2>4. QED
    BY <1>1, <2>1, <2>2, <2>3
<1>3. Days \subseteq Nat \ {0} /\ IsFiniteSet(Days)
  <2>1. IsFiniteSet(1..LastDay)
    BY <1>1, FS_Interval
  <2>2. QED
    BY <1>1, <2>1 DEF Days
<1>4. QED
  BY <1>1, <1>2, <1>3

\* Rows with days of their own are as few as the days.
LEMMA DatedFinite ==
  ASSUME NEW A, NEW D, IsFiniteSet(D), \A a \in A : a.date \in D, \A a, b \in A : a.date = b.date => a = b
  PROVE  IsFiniteSet(A)
<1>1. PICK f : f = [a \in A |-> a.date]
  OBVIOUS
<1>2. f \in [A -> D] /\ \A a, b \in A : f[a] = f[b] => a = b
  BY <1>1
<1>3. QED
  BY <1>2, Embedding

\* The rows that are read, for what a request will do with them.
LEMMA RowsRead ==
  ASSUME SeriesInv, NEW i \in Ids
  PROVE  /\ row[i] \in RowType \cup {NoRow} /\ row[i].text \in Nat /\ row[i].text <= texts /\ texts \in Nat
         /\ row[i].title \in 0..MaxTexts
         /\ i \in Rows <=> row[i] # NoRow
         /\ i \in Series <=> row[i].series
BY RowIs, NoRowIs, SeriesAssumption DEF SeriesInv, TypeInv, Rows, Series

LEMMA TargetsAre ==
  ASSUME NEW i \in Rows, NEW scope \in Scopes
  PROVE  /\ SeriesTargets(i, scope) \subseteq Rows
         /\ row[i].series => SeriesTargets(i, scope) \subseteq Series
         /\ ~row[i].series => SeriesTargets(i, scope) = {i}
BY DEF SeriesTargets, Scopes, Series, Rows

LEMMA EditSeries ==
  ASSUME SeriesInv, NEW i \in Rows, NEW scope \in Scopes, NEW day, NEW title, NEW text,
         Edit(i, scope, day, title, text),
         \/ scope = "this" /\ title = row[i].title /\ text = row[i].text
         \/ title \in {row[i].title, texts + 1} /\ text = texts + 1
  PROVE  SeriesInv'
<1>1. i \in Ids /\ row[i] \in RowType /\ day \in Days /\ text <= MaxTexts /\ row[i].title \in 0..MaxTexts
  <2>1. i \in Ids /\ row[i] # NoRow
    BY DEF Rows
  <2>2. row[i] \in RowType /\ row[i].title \in 0..MaxTexts
    BY <2>1, RowsRead
  <2>3. day \in Days /\ text <= MaxTexts
    BY DEF Edit
  <2>4. QED
    BY <2>1, <2>2, <2>3
<1>2. text \in Nat /\ texts \in Nat /\ texts' \in Nat /\ texts' >= texts /\ text <= texts'
  <2>1. row[i].text \in Nat /\ texts \in Nat
    BY <1>1, RowsRead
  <2>2. texts' = IF text > texts THEN text ELSE texts
    BY DEF Edit
  <2>3. QED
    BY <2>1, <2>2
<1>3. PICK touched : touched = IF scope = "future" /\ row[i].series THEN {j \in Series : row[j].date >= day} \cup {i}
                               ELSE SeriesTargets(i, scope)
  OBVIOUS
<1>4. PICK new : new = [j \in Ids |-> [row[j] EXCEPT !.title = IF j \in touched THEN title ELSE @,
                                                  !.text = IF j \in touched THEN text ELSE @,
                                                  !.date = IF j = i THEN day ELSE @]]
  OBVIOUS
<1>5. PICK mark : mark = [op |-> IF row[i].series THEN "edit" ELSE "rename", wide |-> scope = "series"]
  OBVIOUS
<1>6. Begin(new, {}, {}, touched, mark) /\ UNCHANGED <<row, now, hist>>
  BY <1>3, <1>4, <1>5 DEF Edit
<1>7. /\ touched \subseteq Rows /\ (row[i].series => touched \subseteq Series)
      /\ (~row[i].series => touched = {i}) /\ (scope = "series" /\ row[i].series => touched = Series)
  <2>1. row[i].series => i \in Series
    BY DEF Series
  <2>2. QED
    BY <1>3, <2>1, TargetsAre DEF Series, SeriesTargets
<1>8. PICK q : q = [pc |-> "commit", old |-> row, new |-> new, adds |-> {}, dels |-> {},
                    updates |-> touched, mark |-> mark]
  OBVIOUS
<1>16. title \in 0..MaxTexts /\ i \in touched
  <2>1. title \in 0..MaxTexts
    BY <1>1, <1>2
  <2>2. row[i].series => i \in Series
    BY DEF Series
  <2>3. i \in touched
    BY <1>3, <2>2 DEF SeriesTargets, Scopes
  <2>4. QED
    BY <2>1, <2>3
<1>9. /\ mark.op \in {"edit", "rename"} /\ mark.op = (IF row[i].series THEN "edit" ELSE "rename")
      /\ mark.wide \in BOOLEAN /\ (mark.wide <=> scope = "series")
  BY <1>5
<1>15. ASSUME NEW j \in Ids, row[j] \in RowType
       PROVE  /\ new[j] \in RowType /\ new[j].series = row[j].series /\ new[j].status = row[j].status
              /\ new[j].title = (IF j \in touched THEN title ELSE row[j].title)
              /\ new[j].text = (IF j \in touched THEN text ELSE row[j].text)
              /\ new[j].date = (IF j = i THEN day ELSE row[j].date)
  <2>1. PICK u, t, d : /\ u = (IF j \in touched THEN title ELSE row[j].title)
                      /\ t = (IF j \in touched THEN text ELSE row[j].text)
                      /\ d = (IF j = i THEN day ELSE row[j].date)
    OBVIOUS
  <2>2. u \in 0..MaxTexts /\ t \in 0..MaxTexts /\ d \in Days
    BY <1>1, <1>2, <1>15, <1>16, <2>1, RowIs
  <2>3. new[j] = [date |-> d, status |-> row[j].status, title |-> u, text |-> t,
                  series |-> row[j].series, master |-> row[j].master]
    BY <1>4, <1>15, <2>1 DEF RowType
  <2>4. QED
    BY <1>15, <2>1, <2>2, <2>3 DEF RowType
<1>10. ASSUME NEW j \in Ids PROVE ChangeInv(q, j)'
  <2>1. row[j] \in RowType \cup {NoRow} /\ (j \in Rows <=> row[j] # NoRow) /\ (j \in Series <=> row[j].series)
        /\ row[j].text \in Nat /\ row[j].text <= texts
    BY RowsRead
  <2>2. CASE row[j] = NoRow
    <3>1. j \notin touched /\ j # i
      BY <1>7, <2>1, <2>2
    <3>2. new[j] = NoRow
      BY <1>4, <2>2, <3>1 DEF NoRow
    <3>3. QED
      BY <1>2, <1>8, <2>1, <2>2, <3>2, NoRowIs DEF ChangeInv
  <2>3. CASE row[j] \in RowType
    <3>1. /\ new[j] \in RowType /\ new[j].series = row[j].series /\ new[j].status = row[j].status
          /\ new[j].title = (IF j \in touched THEN title ELSE row[j].title)
          /\ new[j].text = (IF j \in touched THEN text ELSE row[j].text)
          /\ new[j].date = (IF j = i THEN day ELSE row[j].date)
      BY <1>15, <2>3
    <3>2. new[j] # NoRow /\ row[j] # NoRow
      BY <2>3, <3>1, RowIs
    <3>3. new[j].text <= texts'
      BY <1>2, <2>1, <3>1
    <3>4. j \in touched => mark.op = IF row[j].series THEN "edit" ELSE "rename"
      BY <1>7, <1>9, <2>1
    <3>5. q.old[j] = row[j] /\ q.new[j] = new[j] /\ q.mark = mark /\ j \notin q.dels /\ q.updates = touched
      BY <1>8
    <3>6. new[j].title # row[j].title => new[j].text # row[j].text
      <4>1. CASE j \in touched /\ text = texts + 1
        BY <1>2, <2>1, <3>1, <4>1
      <4>2. CASE scope = "this" /\ title = row[i].title
        <5>1. touched = {i}
          BY <1>3, <4>2 DEF SeriesTargets
        <5>2. QED
          BY <3>1, <4>2, <5>1
      <4>3. QED
        BY <3>1, <4>1, <4>2
    <3>7. j \notin touched => new[j] = row[j]
      <4>1. ASSUME j \notin touched PROVE new[j] = [row[j] EXCEPT !.title = @, !.text = @, !.date = @]
        BY <1>4, <1>16, <4>1
      <4>2. QED
        BY <2>3, <4>1 DEF RowType
    <3>8. QED
      BY <1>9, <2>3, <3>1, <3>2, <3>3, <3>4, <3>5, <3>6, <3>7 DEF ChangeInv
  <2>4. QED
    BY <2>1, <2>2, <2>3
<1>11. PlanInv(q)'
  BY <1>8, <1>9, <1>10, FS_EmptySet DEF PlanInv, Ops
<1>12. WideInv(q)
  <2> SUFFICES ASSUME mark.op = "edit", mark.wide
               PROVE  \E u, t \in 0..MaxTexts : \A j \in Ids : row[j].series =>
                        new[j].title = u /\ new[j].text = t /\ row[j].text # t
    BY <1>8 DEF WideInv
  <2>1. text = texts + 1 /\ touched = Series /\ text \in 0..MaxTexts
    BY <1>1, <1>2, <1>7, <1>9
  <2>2. ASSUME NEW j \in Ids, row[j].series
        PROVE  new[j].title = title /\ new[j].text = text /\ row[j].text # text
    <3>1. j \in touched /\ row[j].text \in Nat /\ row[j].text <= texts /\ row[j] \in RowType
      BY <2>1, <2>2, RowsRead, NoRowIs
    <3>2. QED
      BY <1>2, <1>15, <2>1, <2>2, <3>1
  <2>3. QED
    BY <1>16, <2>1, <2>2
<1>13. RecurInv(q) /\ SyncInv(q) /\ mark.op # "recur"
  BY <1>8, <1>9 DEF RecurInv, SyncInv
<1>14. QED
  BY <1>2, <1>6, <1>8, <1>11, <1>12, <1>13, BeginSeries

LEMMA CancelSeries ==
  ASSUME SeriesInv, NEW i \in Rows, NEW scope \in Scopes, Cancel(i, scope) PROVE SeriesInv'
<1>1. PICK new : new = [j \in Ids |-> IF j \in SeriesTargets(i, scope) THEN [row[j] EXCEPT !.status = "cancelled"]
                                      ELSE row[j]]
  OBVIOUS
<1>2. PICK mark : mark = [op |-> "cancel", wide |-> FALSE]
  OBVIOUS
<1>3. Begin(new, {}, {}, SeriesTargets(i, scope), mark) /\ UNCHANGED <<row, now, texts, hist>>
  BY <1>1, <1>2 DEF Cancel
<1>4. PICK q : q = [pc |-> "commit", old |-> row, new |-> new, adds |-> {}, dels |-> {},
                    updates |-> SeriesTargets(i, scope), mark |-> mark]
  OBVIOUS
<1>5. ASSUME NEW j \in Ids PROVE ChangeInv(q, j)'
  <2>1. /\ row[j] \in RowType \cup {NoRow} /\ (j \in Rows <=> row[j] # NoRow)
        /\ row[j].text <= texts
    BY RowsRead
  <2>2. j \in SeriesTargets(i, scope) => row[j] \in RowType
    BY <2>1, TargetsAre
  <2>3. /\ new[j] = row[j]
        \/ /\ row[j] \in RowType /\ new[j] \in RowType /\ new[j].series = row[j].series
           /\ new[j].title = row[j].title /\ new[j].text = row[j].text /\ new[j].date = row[j].date
           /\ new[j].status = "cancelled" /\ j \in SeriesTargets(i, scope)
    BY <1>1, <2>1, <2>2 DEF RowType
  <2>4. /\ q.old[j] = row[j] /\ q.new[j] = new[j] /\ q.mark.op = "cancel" /\ j \notin q.dels
        /\ q.updates = SeriesTargets(i, scope)
    BY <1>2, <1>4
  <2>5. QED
    BY <1>3, <2>1, <2>3, <2>4, RowIs DEF ChangeInv
<1>6. PlanInv(q)'
  BY <1>2, <1>4, <1>5, FS_EmptySet DEF PlanInv, Ops
<1>7. WideInv(q) /\ RecurInv(q) /\ SyncInv(q) /\ mark.op # "recur"
  BY <1>2, <1>4 DEF WideInv, RecurInv, SyncInv
<1>8. texts' \in Nat /\ texts' >= texts
  BY <1>3 DEF SeriesInv, TypeInv
<1>9. QED
  BY <1>3, <1>4, <1>6, <1>7, <1>8, BeginSeries

LEMMA DeleteSeries ==
  ASSUME SeriesInv, NEW i \in Rows, NEW scope \in Scopes, Delete(i, scope) PROVE SeriesInv'
<1>1. PICK mark : mark = [op |-> "delete", wide |-> FALSE]
  OBVIOUS
<1>2. PICK dels : dels = SeriesTargets(i, scope)
  OBVIOUS
<1>3. Begin(row, {}, dels, {}, mark) /\ UNCHANGED <<row, now, texts, hist>>
  BY <1>1, <1>2 DEF Delete
<1>4. PICK q : q = [pc |-> "commit", old |-> row, new |-> row, adds |-> {}, dels |-> dels,
                    updates |-> {}, mark |-> mark]
  OBVIOUS
<1>5. dels \subseteq Ids /\ \A j \in dels : row[j] # NoRow
  BY <1>2, TargetsAre DEF Rows
<1>6. ASSUME NEW j \in Ids PROVE ChangeInv(q, j)'
  <2>1. row[j] \in RowType \cup {NoRow} /\ row[j].text <= texts
    BY RowsRead
  <2>2. q.old[j] = row[j] /\ q.new[j] = row[j] /\ q.mark.op = "delete" /\ q.dels = dels
    BY <1>1, <1>4
  <2>3. QED
    BY <1>3, <1>5, <2>1, <2>2 DEF ChangeInv
<1>7. PlanInv(q)'
  BY <1>1, <1>4, <1>5, <1>6, FS_EmptySet DEF PlanInv, Ops
<1>8. WideInv(q) /\ RecurInv(q) /\ SyncInv(q) /\ mark.op # "recur"
  BY <1>1, <1>4 DEF WideInv, RecurInv, SyncInv
<1>9. texts' \in Nat /\ texts' >= texts
  BY <1>3 DEF SeriesInv, TypeInv
<1>10. QED
  BY <1>3, <1>4, <1>7, <1>8, <1>9, BeginSeries

LEMMA SyncSeries ==
  ASSUME SeriesInv, Sync PROVE SeriesInv'
<1>1. PICK mark : mark = [op |-> "sync", wide |-> FALSE]
  OBVIOUS
<1>2. PICK unmatched : unmatched = {c \in CalDates : Matched(c) = {}}
  OBVIOUS
<1>3. PICK adds : adds = {[NoRow EXCEPT !.date = d, !.status = "active"] : d \in unmatched}
  OBVIOUS
<1>4. PICK found, texted \in SUBSET Ids :
        /\ texted \subseteq found
        /\ Begin([j \in Ids |-> IF j \in texted THEN [row[j] EXCEPT !.text = 0] ELSE row[j]], adds, {}, found, mark)
        /\ found \subseteq Rows /\ UNCHANGED <<row, now, texts, hist>>
  <2>1. PICK there : there = UNION {Matched(d) : d \in CalDates}
    OBVIOUS
  <2>2. PICK described \in SUBSET CalDates :
          Begin([j \in Ids |-> IF j \in UNION {Matched(d) : d \in described} THEN [row[j] EXCEPT !.text = 0]
                               ELSE row[j]], adds, {}, there, mark)
    BY <1>1, <1>2, <1>3, <2>1 DEF Sync
  <2>3. PICK some : some = UNION {Matched(d) : d \in described}
    OBVIOUS
  <2>4. some \subseteq there /\ there \subseteq Rows /\ Rows \subseteq Ids
    BY <2>1, <2>3 DEF Matched, Rows
  <2>5. UNCHANGED <<row, now, texts, hist>>
    BY DEF Sync
  <2>6. Begin([j \in Ids |-> IF j \in some THEN [row[j] EXCEPT !.text = 0] ELSE row[j]], adds, {}, there, mark)
    BY <2>2, <2>3
  <2>7. QED
    BY <2>4, <2>5, <2>6
<1>17. PICK new : new = [j \in Ids |-> IF j \in texted THEN [row[j] EXCEPT !.text = 0] ELSE row[j]]
  OBVIOUS
<1>5. PICK q : q = [pc |-> "commit", old |-> row, new |-> new, adds |-> adds, dels |-> {},
                    updates |-> found, mark |-> mark]
  OBVIOUS
<1>6. ASSUME NEW j \in Ids PROVE ChangeInv(q, j)'
  <2>1. row[j] \in RowType \cup {NoRow} /\ row[j].text <= texts /\ (j \in Rows <=> row[j] # NoRow) /\ texts \in Nat
    BY RowsRead
  <2>2. q.old[j] = row[j] /\ q.new[j] = new[j] /\ q.mark.op = "sync" /\ q.dels = {} /\ q.updates = found
    BY <1>1, <1>5
  <2>3. \/ new[j] = row[j]
        \/ /\ row[j] \in RowType /\ new[j] \in RowType /\ new[j].series = row[j].series
           /\ new[j].title = row[j].title /\ new[j].text = 0 /\ new[j].date = row[j].date
           /\ new[j].status = row[j].status /\ j \in found
    <3>1. MaxTexts \in Nat
      BY SeriesAssumption
    <3>2. QED
      BY <1>4, <1>17, <2>1, <3>1 DEF RowType
  <2>4. QED
    BY <1>4, <2>1, <2>2, <2>3, RowIs DEF ChangeInv
<1>7. IsFiniteSet(unmatched) /\ unmatched \subseteq Days
  <2>1. Days \subseteq Int /\ IsFiniteSet(Days)
    BY CalendarDays
  <2>2. unmatched \subseteq Days
    BY <1>2, SeriesAssumption
  <2>3. QED
    BY <2>1, <2>2, FS_Subset
<1>8. MaxTexts \in Nat
  BY SeriesAssumption
<1>9. ASSUME NEW a \in adds
      PROVE  /\ a \in RowType /\ a.title = 0 /\ a.text = 0 /\ a.series = FALSE /\ a.master = FALSE
             /\ a.date \in unmatched
             /\ a = [NoRow EXCEPT !.date = a.date, !.status = "active"]
  <2>1. PICK d \in unmatched : a = [NoRow EXCEPT !.date = d, !.status = "active"]
    BY <1>3
  <2>2. a = [date |-> d, status |-> "active", title |-> 0, text |-> 0, series |-> FALSE, master |-> FALSE]
    BY <2>1 DEF NoRow
  <2>3. d \in Days /\ 0 \in 0..MaxTexts
    BY <1>7, <1>8
  <2>4. a.date = d
    BY <2>2
  <2>5. a \in RowType
    BY <2>2, <2>3 DEF RowType
  <2>6. a.title = 0 /\ a.text = 0 /\ a.series = FALSE /\ a.master = FALSE
    BY <2>2
  <2>7. a = [NoRow EXCEPT !.date = a.date, !.status = "active"]
    BY <2>1, <2>4
  <2>8. QED
    BY <2>4, <2>5, <2>6, <2>7
<1>11. IsFiniteSet(adds)
  <2>1. \A a \in adds : a.date \in unmatched
    BY <1>9
  <2>2. \A a, b \in adds : a.date = b.date => a = b
    BY <1>9
  <2>3. QED
    BY <1>7, <2>1, <2>2, DatedFinite
<1>12. PlanInv(q)'
  <2>1. ASSUME NEW a \in adds
        PROVE  a \in RowType /\ a.master = FALSE /\ a.series = FALSE /\ a.text <= texts'
    <3>1. texts' \in Nat
      BY <1>4 DEF SeriesInv, TypeInv
    <3>2. a.text = 0 /\ a \in RowType /\ a.master = FALSE /\ a.series = FALSE
      BY <1>9, <2>1
    <3>3. QED
      BY <3>1, <3>2
  <2>2. ASSUME NEW a \in adds, NEW b \in adds, a.date = b.date PROVE a = b
    BY <1>9, <2>2
  <2>3. QED
    BY <1>1, <1>5, <1>6, <1>11, <2>1, <2>2 DEF PlanInv, Ops
<1>13. SyncInv(q)
  <2>1. ASSUME NEW a \in adds, NEW j \in Ids, row[j] # NoRow, row[j].title = 0
        PROVE  a.title = 0 /\ row[j].date # a.date
    <3>1. Matched(a.date) = {} /\ a.title = 0
      BY <1>2, <1>9, <2>1
    <3>2. QED
      BY <2>1, <3>1 DEF Matched, Rows
  <2>2. \A a \in adds : a.title = 0
    BY <1>9
  <2>3. QED
    BY <1>5, <2>1, <2>2 DEF SyncInv
<1>14. WideInv(q) /\ RecurInv(q) /\ mark.op # "recur"
  BY <1>1, <1>5 DEF WideInv, RecurInv
<1>15. texts' \in Nat /\ texts' >= texts
  BY <1>4 DEF SeriesInv, TypeInv
<1>16. QED
  BY <1>4, <1>5, <1>12, <1>13, <1>14, <1>15, <1>17, BeginSeries

LEMMA FirstDate ==
  ASSUME NEW S, IsFiniteSet(S), S \subseteq Int, S # {}
  PROVE  Min(S) \in S
<1>1. PICK key : key = [x \in S |-> x]
  OBVIOUS
<1>2. key \in [S -> Int] /\ \A x, y \in S : key[x] = key[y] => x = y
  BY <1>1
<1>3. Cardinality(S) \in Nat /\ Cardinality(S) # 0
  BY FS_CardinalityType, FS_EmptySet
<1>4. PICK x \in S : Cardinality(Below(S, key, x)) = 0
  <2>1. 0 < Cardinality(S)
    BY <1>3
  <2>2. QED
    BY <1>2, <2>1, RankFound
<1>5. IsFiniteSet(Below(S, key, x)) /\ Below(S, key, x) = {}
  BY <1>4, FS_Subset, FS_EmptySet DEF Below
<1>6. \A y \in S : ~(y < x)
  BY <1>1, <1>5 DEF Below
<1>7. \A y \in S : x <= y
  BY <1>6
<1>8. QED
  BY <1>7 DEF Min

\* The days a series has.
LEMMA SeriesDates ==
  ASSUME SeriesInv
  PROVE  /\ Dates(Series) \subseteq Days /\ IsFiniteSet(Dates(Series))
         /\ Series # {} => Min(Dates(Series)) \in Dates(Series)
<1>1. \A i \in Series : row[i].date \in Days
  BY RowIs DEF SeriesInv, TypeInv, TypeOK, Series
<1>2. Dates(Series) \subseteq Days
  BY <1>1 DEF Dates
<1>3. IsFiniteSet(Dates(Series)) /\ Dates(Series) \subseteq Int
  <2>1. IsFiniteSet(Days) /\ Days \subseteq Int
    BY CalendarDays
  <2>2. IsFiniteSet(Dates(Series))
    BY <1>2, <2>1, FS_Subset
  <2>3. QED
    BY <1>2, <2>1, <2>2
<1>4. Series # {} => Dates(Series) # {}
  BY DEF Dates
<1>5. QED
  BY <1>2, <1>3, <1>4, FirstDate

LEMMA DayOfMonth ==
  ASSUME NEW d \in Days
  PROVE  d - Before[MonthOf[d]] \in Nat \ {0}
<1>1. \E m \in DOMAIN Months : Before[m] < d /\ d <= Before[m] + Months[m]
  BY CalendarAssumption
<1>2. MonthOf[d] \in DOMAIN Months /\ Before[MonthOf[d]] < d
  BY <1>1 DEF MonthOf
<1>3. QED
  BY <1>2, CalendarDays

\* A cadence has a day of the month.
LEMMA CadenceIs ==
  ASSUME SeriesInv
  PROVE  Cadence = NoKind \/ Cadence.rule = "weekly" \/ Cadence.day \in Nat \ {0}
<1>1. kind.rule = "weekly" \/ kind.day \in Nat \ {0}
  BY DEF SeriesInv, TypeInv, AllKinds
<1>2. Inferred = NoKind \/ Inferred.rule = "weekly" \/ Inferred.day \in Nat \ {0}
  <2>1. PICK N : N = {d - Before[MonthOf[d]] : d \in Dates(Series)}
    OBVIOUS
  <2>2. N \subseteq Nat \ {0}
    BY <2>1, SeriesDates, DayOfMonth
  <2>3. \/ Inferred = [rule |-> "weekly", day |-> 0]
        \/ Inferred = NoKind
        \/ Cardinality(N) = 1 /\ Inferred = [rule |-> "monthly", day |-> CHOOSE n \in N : TRUE]
    BY <2>1, Zenon DEF Inferred
  <2>4. Cardinality(N) = 1 => (CHOOSE n \in N : TRUE) \in N
    <3>1. Cardinality(N) = 1 => N # {}
      BY FS_EmptySet
    <3>2. QED
      BY <3>1
  <2>5. PICK c : c = CHOOSE n \in N : TRUE
    OBVIOUS
  <2>6. Cardinality(N) = 1 => c \in Nat \ {0}
    BY <2>2, <2>4, <2>5
  <2>7. Inferred = [rule |-> "monthly", day |-> c] => Inferred.day = c
    OBVIOUS
  <2>8. Inferred = [rule |-> "weekly", day |-> 0] => Inferred.rule = "weekly"
    OBVIOUS
  <2>9. QED
    BY <2>3, <2>5, <2>6, <2>7, <2>8
<1>3. QED
  BY <1>1, <1>2 DEF Cadence

LEMMA OccurrencesAre ==
  ASSUME SeriesInv, NEW first \in Days, NEW from \in Days, NEW to \in Days, Cadence # NoKind
  PROVE  /\ OccurrencesBetween(first, Cadence, from, to) \subseteq Days
         /\ OccurrencesBetween(first, Cadence, from, to) \subseteq from..to
         /\ Cadence.rule = "weekly" =>
              \A d \in from..to : (d - first) % Period = 0 => d \in OccurrencesBetween(first, Cadence, from, to)
<1>1. from \in Nat /\ to \in Nat /\ Days = 1..LastDay /\ LastDay \in Nat
  BY CalendarDays DEF Days
<1>2. \A d \in from..to : d \in Days
  BY <1>1
<1>3. ASSUME Cadence.rule # "weekly", NEW m \in DOMAIN Months PROVE OnDay(m, Cadence.day) \in Days
  <2>1. /\ Before[m] \in Nat /\ Months[m] \in Nat \ {0} /\ Before[m] + Months[m] <= LastDay
        /\ Cadence.day \in Nat \ {0}
    BY <1>3, CadenceIs, CalendarDays
  <2>2. QED
    BY <1>1, <2>1 DEF OnDay
<1>4. CASE Cadence.rule = "weekly"
  BY <1>2, <1>4 DEF OccurrencesBetween
<1>5. CASE Cadence.rule # "weekly"
  <2>1. PICK monthly : monthly = {OnDay(m, Cadence.day) : m \in DOMAIN Months}
    OBVIOUS
  <2>2. monthly \subseteq Days
    BY <1>3, <1>5, <2>1
  <2>3. \/ OccurrencesBetween(first, Cadence, from, to) = monthly \cap (from..to)
        \/ OccurrencesBetween(first, Cadence, from, to) =
             ({first} \cup {d \in monthly : MonthOf[d] > MonthOf[first]}) \cap (from..to)
    BY <1>5, <2>1, Zenon DEF OccurrencesBetween
  <2>4. QED
    BY <1>5, <2>2, <2>3
<1>6. QED
  BY <1>4, <1>5

LEMMA RecurSeries ==
  ASSUME SeriesInv, NEW from \in Ends \cup RowRange, NEW to \in Ends \cup RowRange, Recur(from, to)
  PROVE  SeriesInv'
<1>1. PICK first : first = Min(Dates(Series))
  OBVIOUS
<1>2. PICK anchor : anchor = CHOOSE i \in Series : row[i].date = first
  OBVIOUS
<1>3. PICK targets : targets = OccurrencesBetween(first, Cadence, from, to)
  OBVIOUS
<1>4. PICK new : new = [i \in Ids |-> IF i \in Outside(targets) THEN [row[i] EXCEPT !.status = "cancelled"] ELSE row[i]]
  OBVIOUS
<1>5. PICK adds : adds = {Clone(d, anchor) : d \in targets \ Dates(Series)}
  OBVIOUS
<1>6. PICK w : w = [on |-> TRUE, from |-> from, to |-> to, anchor |-> first, at |-> now, rule |-> Cadence.rule]
  OBVIOUS
<1>7. PICK mark : mark = [op |-> "recur", wide |-> FALSE, window |-> w]
  OBVIOUS
<1>8. /\ Series # {} /\ Cadence # NoKind /\ Begin(new, adds, {}, Outside(targets), mark)
      /\ UNCHANGED <<row, now, texts, hist>>
  BY <1>1, <1>2, <1>3, <1>4, <1>5, <1>6, <1>7, Zenon DEF Recur
<1>9. PICK q : q = [pc |-> "commit", old |-> row, new |-> new, adds |-> adds, dels |-> {},
                    updates |-> Outside(targets), mark |-> mark]
  OBVIOUS
<1>10. first \in Dates(Series) /\ first \in Days /\ Dates(Series) \subseteq Days
  BY <1>1, <1>8, SeriesDates
<1>11. from \in Days /\ to \in Days
  BY <1>10, SeriesAssumption DEF RowRange
<1>12. /\ targets \subseteq Days /\ targets \subseteq from..to
       /\ Cadence.rule = "weekly" => \A d \in from..to : (d - first) % Period = 0 => d \in targets
  BY <1>3, <1>8, <1>10, <1>11, OccurrencesAre
<1>13. anchor \in Series /\ anchor \in Ids /\ row[anchor] \in RowType /\ row[anchor].series /\ row[anchor].text <= texts
  <2>1. \E i \in Series : row[i].date = first
    BY <1>10 DEF Dates
  <2>2. anchor \in Series
    BY <1>2, <2>1
  <2>3. QED
    BY <2>2, RowsRead DEF Series, Rows
<1>14. ASSUME NEW a \in adds
       PROVE  /\ a \in RowType /\ a.date \in targets \ Dates(Series)
              /\ a.title = row[anchor].title /\ a.text = row[anchor].text
              /\ a.series = TRUE /\ a.master = FALSE /\ a = Clone(a.date, anchor)
  <2>1. PICK d \in targets \ Dates(Series) : a = Clone(d, anchor)
    BY <1>5
  <2>2. a = [date |-> d, status |-> "active", title |-> row[anchor].title, text |-> row[anchor].text,
             series |-> row[anchor].series, master |-> FALSE]
    BY <1>13, <2>1 DEF Clone, RowType
  <2>3. /\ a.date = d /\ a.title = row[anchor].title /\ a.text = row[anchor].text
        /\ a.series = TRUE /\ a.master = FALSE
    BY <1>13, <2>2 DEF RowType
  <2>4. a \in RowType
    BY <1>12, <1>13, <2>2 DEF RowType
  <2>5. QED
    BY <2>1, <2>3, <2>4
<1>15. ASSUME NEW j \in Ids
       PROVE  /\ row[j] \in RowType \cup {NoRow} /\ row[j].text <= texts
              /\ \/ new[j] = row[j] /\ j \notin Outside(targets)
                 \/ /\ j \in Outside(targets) /\ row[j] \in RowType /\ new[j] \in RowType
                    /\ new[j].series = row[j].series /\ new[j].title = row[j].title
                    /\ new[j].text = row[j].text /\ new[j].date = row[j].date /\ new[j].status = "cancelled" /\ row[j].date > now
  <2>1. /\ row[j] \in RowType \cup {NoRow} /\ (j \in Rows <=> row[j] # NoRow) /\ row[j].text <= texts
    BY RowsRead
  <2>2. j \in Outside(targets) => j \in Rows /\ row[j].date > now
    BY DEF Outside, Series
  <2>3. QED
    BY <1>4, <2>1, <2>2 DEF RowType
<1>16. ASSUME NEW j \in Ids PROVE ChangeInv(q, j)'
  <2>1. /\ q.old[j] = row[j] /\ q.new[j] = new[j] /\ q.mark.op = "recur" /\ j \notin q.dels
        /\ q.updates = Outside(targets)
    BY <1>7, <1>9
  <2>2. QED
    BY <1>8, <1>15, <2>1, RowIs DEF ChangeInv
<1>17. \A a, b \in adds : a.date = b.date => a = b
  BY <1>14
<1>18. IsFiniteSet(adds)
  <2>1. IsFiniteSet(Days) /\ \A a \in adds : a.date \in Days
    BY <1>12, <1>14, CalendarDays
  <2>2. QED
    BY <1>17, <2>1, DatedFinite
<1>19. PlanInv(q)'
  <2>1. \A a \in adds : a \in RowType /\ a.master = FALSE /\ a.series = TRUE /\ a.text <= texts'
    BY <1>8, <1>13, <1>14
  <2>2. /\ q.pc = "commit" /\ q.dels = {} /\ q.adds = adds /\ q.mark.op = "recur" /\ q.mark.wide = FALSE
    BY <1>7, <1>9
  <2>3. QED
    BY <1>16, <1>17, <1>18, <2>1, <2>2 DEF PlanInv, Ops
<1>20. RecurInv(q)
  <2>1. /\ q.mark.window = w /\ w.on /\ w.at = now /\ w.from = from /\ w.to = to /\ w.anchor = first
        /\ w.rule = Cadence.rule /\ q.old = row /\ q.new = new /\ q.adds = adds
    BY <1>6, <1>7, <1>9
  <2>2. ASSUME NEW j \in Ids, new[j].status # row[j].status PROVE row[j].date > now
    BY <1>15, <2>2
  <2>3. ASSUME NEW j \in Ids, row[j].series, new[j].status = "active"
        PROVE  row[j].date <= now \/ row[j].date \in from..to
    <3>1. new[j] = row[j] /\ j \notin Outside(targets)
      BY <1>15, <2>3
    <3>2. j \in Series /\ row[j].status = "active" /\ row[j] \in RowType
      BY <2>3, <3>1, RowsRead, NoRowIs
    <3>3. row[j].date \in Nat /\ now \in Nat
      BY <3>2, RowIs DEF SeriesInv, TypeInv
    <3>4. row[j].date > now => row[j].date \in targets
      BY <3>1, <3>2 DEF Outside, Active
    <3>5. QED
      BY <1>12, <3>3, <3>4
  <2>4. ASSUME NEW a \in adds
        PROVE  a.date \in from..to /\ \A j \in Ids : row[j].series => row[j].date # a.date
    <3>1. a.date \in targets /\ a.date \notin Dates(Series)
      BY <1>14
    <3>2. \A j \in Ids : row[j].series => j \in Series
      BY RowsRead
    <3>3. QED
      BY <1>12, <3>1, <3>2 DEF Dates
  <2>5. ASSUME Cadence.rule = "weekly", NEW d \in from..to, (d - first) % Period = 0
        PROVE  \/ \E j \in Ids : row[j].series /\ row[j].date = d
               \/ \E a \in adds : a.date = d
    <3>1. d \in targets
      BY <1>12, <2>5
    <3>2. CASE d \in Dates(Series)
      BY <3>2 DEF Dates, Series, Rows
    <3>3. CASE d \notin Dates(Series)
      <4>1. Clone(d, anchor) \in adds
        BY <1>5, <3>1, <3>3
      <4>2. Clone(d, anchor).date = d
        BY <1>13 DEF Clone, RowType
      <4>3. QED
        BY <4>1, <4>2
    <3>4. QED
      BY <3>2, <3>3
  <2>6. ASSUME Unmixed, NEW a \in adds, NEW j \in Series PROVE Alike(row[j], a)
    <3>1. ContentsAgree
      BY DEF SeriesInv
    <3>2. Alike(row[j], row[anchor])
      BY <1>13, <2>6, <3>1 DEF ContentsAgree
    <3>3. QED
      BY <1>14, <2>6, <3>2 DEF Alike
  <2>7. QED
    BY <2>1, <2>2, <2>3, <2>4, <2>5, <2>6 DEF RecurInv
<1>21. WideInv(q) /\ SyncInv(q)
  BY <1>7, <1>9 DEF WideInv, SyncInv
<1>22. texts' \in Nat /\ texts' >= texts
  BY <1>8 DEF SeriesInv, TypeInv
<1>23. QED
  BY <1>8, <1>9, <1>13, <1>14, <1>19, <1>20, <1>21, <1>22, BeginSeries

LEMMA StartsAre ==
  ASSUME kind \in AllKinds, NEW from
  PROVE  SeriesStarts(kind, from) \subseteq Days
<1>1. CASE kind.rule = "weekly"
  BY <1>1 DEF SeriesStarts
<1>2. CASE kind.rule # "weekly"
  <2>1. kind.day \in Nat \ {0}
    BY <1>2 DEF AllKinds
  <2>2. ASSUME NEW m \in DOMAIN Months, kind.day <= Months[m] PROVE Before[m] + kind.day \in Days
    BY <2>1, <2>2, CalendarDays DEF Days
  <2>3. QED
    BY <1>2, <2>2 DEF SeriesStarts
<1>3. QED
  BY <1>1, <1>2

LEMMA CreatedAre ==
  ASSUME NEW S, S \subseteq Days, row = Created(S)
  PROVE  /\ row \in [Ids -> RowType \cup {NoRow}]
         /\ \A i \in Ids : row[i] # NoRow =>
              row[i].status = "active" /\ row[i].title = 0 /\ row[i].text = 1 /\ row[i].series = TRUE
              /\ row[i].master = (i = 1)
         /\ \A i, j \in Ids : row[i] # NoRow /\ row[j] # NoRow /\ row[i].date = row[j].date => i = j
<1>1. IsFiniteSet(S) /\ S \subseteq Int /\ S \subseteq Days
  <2>1. IsFiniteSet(Days) /\ Days \subseteq Int
    BY CalendarDays
  <2>2. IsFiniteSet(S)
    BY <2>1, FS_Subset
  <2>3. QED
    BY <2>1, <2>2
<1>2. PICK n : n = Cardinality(S) /\ n \in Nat
  BY <1>1, FS_CardinalityType
<1>3. PICK key : key = [x \in S |-> x]
  OBVIOUS
<1>4. key \in [S -> Int] /\ \A x, y \in S : key[x] = key[y] => x = y
  BY <1>1, <1>3
<1>5. \A x \in S : Below(S, key, x) = {c \in S : c < x}
  BY <1>3 DEF Below
<1>6. PICK day : day = [k \in Nat |-> CHOOSE d \in S : Cardinality({c \in S : c < d}) = k]
  OBVIOUS
<1>7. ASSUME NEW k \in Nat, k < n
      PROVE  day[k] \in S /\ Cardinality({c \in S : c < day[k]}) = k
  <2>1. PICK x \in S : Cardinality(Below(S, key, x)) = k
    BY <1>1, <1>2, <1>4, <1>7, RankFound
  <2>2. \E d \in S : Cardinality({c \in S : c < d}) = k
    BY <1>5, <2>1
  <2>3. day[k] = CHOOSE d \in S : Cardinality({c \in S : c < d}) = k
    BY <1>6
  <2>4. QED
    BY <2>2, <2>3
<1>8. ASSUME NEW i \in Ids
      PROVE  row[i] = IF i > n THEN NoRow
                    ELSE [date |-> day[i - 1], status |-> "active", title |-> 0, text |-> 1,
                          series |-> TRUE, master |-> i = 1]
  <2>1. i - 1 \in Nat
    BY SeriesAssumption
  <2>2. day[i - 1] = CHOOSE d \in S : Cardinality({c \in S : c < d}) = i - 1
    BY <1>6, <2>1
  <2>3. QED
    BY <1>2, <2>2 DEF Created
<1>9. ASSUME NEW i \in Ids
      PROVE  row[i] = NoRow \/ (/\ row[i] \in RowType /\ row[i].date = day[i - 1] /\ i - 1 \in Nat /\ i - 1 < n
                              /\ row[i].status = "active" /\ row[i].title = 0 /\ row[i].text = 1
                              /\ row[i].series = TRUE /\ row[i].master = (i = 1))
  <2>1. i \in Nat \ {0} /\ MaxTexts \in Nat \ {0}
    BY SeriesAssumption
  <2>2. CASE i > n
    BY <1>8, <2>2
  <2>3. CASE ~(i > n)
    <3>1. i - 1 \in Nat /\ i - 1 < n
      BY <1>2, <2>1, <2>3
    <3>2. day[i - 1] \in Days
      BY <1>1, <1>7, <3>1
    <3>3. row[i] = [date |-> day[i - 1], status |-> "active", title |-> 0, text |-> 1, series |-> TRUE, master |-> i = 1]
      BY <1>8, <2>3
    <3>4. row[i] \in RowType
      BY <2>1, <3>2, <3>3 DEF RowType
    <3>5. QED
      BY <3>1, <3>3, <3>4
  <2>4. QED
    BY <2>2, <2>3
<1>10. row \in [Ids -> RowType \cup {NoRow}]
  <2>1. row = [i \in Ids |-> row[i]]
    BY DEF Created
  <2>2. QED
    BY <1>9, <2>1
<1>11. ASSUME NEW i \in Ids, NEW j \in Ids, row[i] # NoRow, row[j] # NoRow, row[i].date = row[j].date PROVE i = j
  <2>1. day[i - 1] = day[j - 1] /\ i - 1 \in Nat /\ i - 1 < n /\ j - 1 \in Nat /\ j - 1 < n
    BY <1>9, <1>11
  <2>2. i - 1 = j - 1
    BY <1>7, <2>1
  <2>3. QED
    BY <2>2, SeriesAssumption
<1>12. QED
  BY <1>9, <1>10, <1>11

LEMMA SeriesInit == Init => SeriesInv
<1> SUFFICES ASSUME Init PROVE SeriesInv
  OBVIOUS
<1>1. kind \in AllKinds
  BY SeriesAssumption DEF Init
<1>2. PICK S : row = Created(S) /\ S \subseteq Days
  BY <1>1, StartsAre DEF Init
<1>3. /\ row \in [Ids -> RowType \cup {NoRow}]
      /\ \A i \in Ids : row[i] # NoRow =>
           row[i].status = "active" /\ row[i].title = 0 /\ row[i].text = 1 /\ row[i].series = TRUE
           /\ row[i].master = (i = 1)
      /\ \A i, j \in Ids : row[i] # NoRow /\ row[j] # NoRow /\ row[i].date = row[j].date => i = j
  BY <1>2, CreatedAre
<1>4. LastDay \in Nat /\ MaxRequests \in Nat
  BY CalendarDays, SeriesAssumption
<1>5. /\ now = 0 /\ req = [r \in Slots |-> NoRequest] /\ begun = 0 /\ texts = 1 /\ crossed = {}
      /\ moved = {} /\ byHand = {} /\ held = {} /\ wide = TRUE /\ window = NoWindow
      /\ gone = {} /\ renamed = {}
  BY DEF Init
<1>6. ASSUME NEW i \in Rows
      PROVE  /\ i \in Ids /\ row[i] \in RowType /\ row[i].title = 0 /\ row[i].text = 1
             /\ row[i].master = (i = 1) /\ i \in Series
  BY <1>3, <1>6 DEF Rows, Series
<1>7. TypeInv
  <2>1. \A i, j \in Rows : row[i].master /\ row[j].master => i = j
    BY <1>6
  <2>2. QED
    BY <1>1, <1>3, <1>4, <1>5, <1>6, <2>1 DEF TypeInv, TypeOK
<1>8. HistoryInv /\ CrossInv /\ CloneInv
  BY <1>5, <1>6 DEF HistoryInv, CrossInv, CloneInv
<1>9. \A r \in Slots : {req[r]} \ {NoRequest} = {}
  BY <1>5
<1>10. OneOccurrenceEach /\ EntriesOnce
  BY <1>3, <1>6 DEF OneOccurrenceEach, EntriesOnce, Series, Rows
<1>11. PastStands /\ RangeHolds
  BY <1>5 DEF PastStands, RangeHolds, NoWindow
<1>12. ContentsAgree
  BY <1>6 DEF ContentsAgree, Alike, Series
<1>13. QED
  BY <1>7, <1>8, <1>9, <1>10, <1>11, <1>12 DEF SeriesInv

LEMMA SeriesSteps == SeriesInv /\ [Next]_vars => SeriesInv'
<1> SUFFICES ASSUME SeriesInv, [Next]_vars PROVE SeriesInv'
  OBVIOUS
<1>1. CASE \E i \in Rows : Edit(i, "this", row[i].date + 1, row[i].title, row[i].text)
  <2>1. "this" \in Scopes
    BY DEF Scopes
  <2>2. QED
    BY <1>1, <2>1, EditSeries
<1>2. CASE \E i \in Rows, scope \in Scopes :
             \/ Cancel(i, scope)
             \/ Delete(i, scope)
             \/ \E title \in {row[i].title, texts + 1} : Edit(i, scope, row[i].date, title, texts + 1)
  BY <1>2, CancelSeries, DeleteSeries, EditSeries
<1>3. CASE \E from, to \in Ends \cup RowRange : Recur(from, to)
  BY <1>3, RecurSeries
<1>4. CASE Sync
  BY <1>4, SyncSeries
<1>5. CASE \E r \in Slots : Commit(r) \/ Fail(r)
  <2>1. ASSUME NEW r \in Slots, Fail(r) PROVE SeriesInv'
    <3>1. /\ DOMAIN req' = Slots /\ \A s \in Slots : req'[s] = NoRequest \/ req'[s] = req[s]
          /\ UNCHANGED <<row, now, begun, texts, crossed, hist>>
      BY <2>1 DEF Fail, SeriesInv, TypeInv
    <3>2. QED
      BY <3>1, QuietSeries
  <2>2. QED
    BY <1>5, <2>1, CommitSeries
<1>6. CASE Pass
  BY <1>6, PassSeries
<1>7. CASE UNCHANGED vars
  <2>1. /\ DOMAIN req' = Slots /\ \A s \in Slots : req'[s] = NoRequest \/ req'[s] = req[s]
        /\ UNCHANGED <<row, now, begun, texts, crossed, hist>>
    BY <1>7 DEF vars, SeriesInv, TypeInv
  <2>2. QED
    BY <2>1, QuietSeries
<1>8. QED
  BY <1>1, <1>2, <1>3, <1>4, <1>5, <1>6, <1>7 DEF Next

LEMMA OnlySeries == page = "series" /\ EventsInit => Init
BY DEF EventsInit, ConsolePages

LEMMA OnlySeriesSteps == page = "series" /\ [EventsNext]_allVars => [Next]_vars
BY DEF EventsNext, OrdersStep, SeriesStep, RotationStep, ScheduleStep, ConsoleFrame, GuardStep,
   DutyStep, TeamsStep, allVars, seriesVars, requestVars, dayVars, vars, hist

(***************************************************************************)
(* However many rows, requests and days there are: the series has one      *)
(* occurrence on a day, what took place stands, the range that was asked   *)
(* for is filled and nothing later is left outside of it, titles and contents  *)
(* agree after an edit of them all but for those a pull took from the      *)
(* calendar, and an entry of the calendar has one event; each up to the    *)
(* overlaps that are named with it.                                        *)
(***************************************************************************)
THEOREM RowsAreInOrderCorrect == EventsSpec => []RowsAreInOrder
<1> DEFINE IInv == page = "series" => SeriesInv
<1>1. EventsInit => IInv
  BY OnlySeries, SeriesInit
<1>2. IInv /\ [EventsNext]_allVars => IInv'
  <2> SUFFICES ASSUME page = "series", SeriesInv, [EventsNext]_allVars
               PROVE  SeriesInv'
    BY PageKept
  <2>1. [Next]_vars
    BY OnlySeriesSteps
  <2>2. QED
    BY <2>1, SeriesSteps
<1>3. IInv => RowsAreInOrder
  BY DEF SeriesInv, TypeInv, SeriesIsInOrder, RowsAreInOrder
<1>4. QED
  BY <1>1, <1>2, <1>3, PTL DEF EventsSpec
=============================================================================
