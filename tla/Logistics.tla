------------------------------ MODULE Logistics ------------------------------
(***************************************************************************)
(* The S4 desk (app/routes/s4_admin.py): expenses, purchases, donations    *)
(* and the meal payments of an event, which pass from status to status by  *)
(* the buttons of a page, and the inventory with its log of who has what.  *)
(* No handler asks for the status the button was shown for, and a page may *)
(* stay open as long as it likes: a button that was ever shown may be      *)
(* pressed at any time, twice or after another.  A request reads the rows  *)
(* in one step and commits in another.  The names of the statuses of an    *)
(* expense, a purchase and a donation that mean the same are one here.     *)
(***************************************************************************)
EXTENDS Integers, Sequences

CONSTANTS
  Cases,        \* expenses, purchases, donations and meals to be paid
  Kind,         \* case -> "expense", "purchase", "donation" or "meal"
  Items,        \* the items there is room for in the inventory
  Start,        \* case -> the statuses it has been through, the last its own
  Shelf,        \* the items there are to begin with
  Heads,        \* the active heads of S4
  Command,      \* the active members whose roles hold command or admin
  MaxActive,    \* bound on the requests in progress at once
  MaxRequests,  \* bound on the requests begun
  MaxCrashes    \* bound on restarts

VARIABLES
  case,      \* case -> [state, by]: by is who approved, paid out or reviewed, or the method paid
  item,      \* item -> [state, source]
  log,       \* s4_checkouts: item -> sequence of "out" and "in", the oldest first
  told,      \* notifications: case -> the members told of its submission
  recent,    \* kind -> the members notified of one within the last minute
  req,       \* the requests in progress
  begun, crashes,
  seen,      \* history: case -> the statuses a page can have shown
  crossed,   \* history: cases and items that two requests had read at once
  late,      \* history: items checked out or in from a page out of date
  excused    \* history: case -> members told of another within the minute, or lost to a crash

vars == <<case, item, log, told, recent, req, begun, crashes, seen, crossed, late, excused>>

Slots == 1..MaxActive
States == {"none", "pending", "approved", "rejected", "purchased", "received", "reimbursed",
           "unpaid", "paid"}
Signs == {"none", "s4", "cash", "paypal"}
CaseType == [state : States, by : Signs]
ItemType == [state : {"none", "available", "checked_out", "retired"}, source : Cases \cup {"none"}]
Checkout == {"out", "in"}
NoRequest == [pc |-> "none"]

\* Types; who stands for what, and an item that exists has a status.
TypeOK ==
  /\ case \in [Cases -> CaseType] /\ item \in [Items -> ItemType]
  /\ log \in [Items -> Seq(Checkout)]
  /\ told \in [Cases -> SUBSET (Heads \cup Command)]
  /\ begun \in 0..MaxRequests /\ crashes \in 0..MaxCrashes

-----------------------------------------------------------------------------
Last(s) == s[Len(s)]

Init ==
  /\ case = [c \in Cases |-> [state |-> Last(Start[c]),
               by |-> IF Last(Start[c]) \in {"none", "pending", "unpaid"} THEN "none"
                      ELSE IF Kind[c] = "meal" THEN "cash" ELSE "s4"]]
  /\ item = [i \in Items |-> [state |-> IF i \in Shelf THEN "available" ELSE "none",
                              source |-> "none"]]
  /\ log = [i \in Items |-> << >>]
  /\ told = [c \in Cases |-> {}] /\ recent = [k \in {Kind[c] : c \in Cases} |-> {}]
  /\ req = [r \in Slots |-> NoRequest] /\ begun = 0 /\ crashes = 0
  /\ seen = [c \in Cases |-> {Start[c][n] : n \in DOMAIN Start[c]}]
  /\ crossed = {} /\ late = {} /\ excused = [c \in Cases |-> {}]

\* What a request in progress has read: a case, an item or nothing.
Holds(r) == IF req[r] = NoRequest THEN {} ELSE req[r].reads
Begin(request) ==
  /\ begun < MaxRequests /\ begun' = begun + 1
  /\ \E r \in Slots :
       /\ req[r] = NoRequest /\ \A q \in Slots : q < r => req[q] # NoRequest
       /\ req' = [req EXCEPT ![r] = request]
       /\ crossed' = crossed \cup (request.reads \cap UNION {Holds(q) : q \in Slots \ {r}})
End(r) == req' = [req EXCEPT ![r] = NoRequest]
Idle == [pc |-> "commit", op |-> "none", about |-> "none", reads |-> {}, old |-> "none", new |-> "none",
         row |-> 0, todo |-> {}]

-----------------------------------------------------------------------------
(* The buttons of a case. *)

\* Mutant: a donation may be received before it is accepted.
ShownEarly ==
  [expense |-> [approve |-> {"pending"}, reject |-> {"pending"}, reimburse |-> {"approved"}],
   purchase |-> [approve |-> {"pending"}, deny |-> {"pending"},
                 advance |-> {"approved", "purchased"}],
   donation |-> [accept |-> {"pending"}, reject |-> {"pending"}, received |-> {"pending"}],
   meal |-> [mark_paid |-> {"unpaid"}, mark_unpaid |-> {"paid"}]]

\* The buttons, with the status the pages show them for.
Shown ==
  [expense |-> [approve |-> {"pending"}, reject |-> {"pending"}, reimburse |-> {"approved"}],
   purchase |-> [approve |-> {"pending"}, deny |-> {"pending"},
                 advance |-> {"approved", "purchased"}],
   donation |-> [accept |-> {"pending"}, reject |-> {"pending"}, received |-> {"approved"}],
   meal |-> [mark_paid |-> {"unpaid"}, mark_unpaid |-> {"paid"}]]

\* advance_purchase: the only handler that looks at the status.
Advanced(state) ==
  IF state = "approved" THEN "purchased" ELSE IF state = "purchased" THEN "received" ELSE state

\* approve_expense and reject_expense record nobody, reimburse_expense who paid out.
OfExpense(button, old, sign) ==
  CASE button = "approve" -> [old EXCEPT !.state = "approved"]
    [] button = "reject" -> [old EXCEPT !.state = "rejected"]
    [] button = "reimburse" -> [state |-> "reimbursed", by |-> sign]

\* approve_purchase, deny_purchase and advance_purchase.
OfPurchase(button, old, sign) ==
  CASE button = "approve" -> [state |-> "approved", by |-> sign]
    [] button = "deny" -> [old EXCEPT !.state = "rejected"]
    [] button = "advance" -> [old EXCEPT !.state = Advanced(@)]

\* Mutant: the reviewer of a donation is not recorded.
Unsigned(button, old, sign) ==
  IF button = "accept" THEN [old EXCEPT !.state = "approved"] ELSE old

\* accept_donation, reject_donation and receive_donation.
OfDonation(button, old, sign) ==
  CASE button = "accept" -> [state |-> "approved", by |-> sign]
    [] button = "reject" -> [state |-> "rejected", by |-> sign]
    [] button = "received" -> [old EXCEPT !.state = "received"]

\* mark_meal_paid and mark_meal_unpaid.
OfMeal(button, old, sign) ==
  IF button = "mark_paid" THEN [state |-> "paid", by |-> sign] ELSE [state |-> "unpaid", by |-> "none"]

\* What the handler makes of the row it has read.
Pressed(c, button, old, sign) ==
  CASE Kind[c] = "expense" -> OfExpense(button, old, sign)
    [] Kind[c] = "purchase" -> OfPurchase(button, old, sign)
    [] Kind[c] = "donation" -> OfDonation(button, old, sign)
    [] Kind[c] = "meal" -> OfMeal(button, old, sign)

Press(c, button, sign) ==
  /\ button \in DOMAIN Shown[Kind[c]] /\ Shown[Kind[c]][button] \cap seen[c] # {}
  /\ sign \in IF Kind[c] = "meal" THEN {"cash", "paypal"} ELSE {"s4"}
  /\ Begin([Idle EXCEPT !.op = button, !.reads = {c}, !.old = case[c],
              !.new = Pressed(c, button, case[c], sign)])
  /\ UNCHANGED <<case, item, log, told, recent, crashes, seen, late, excused>>

\* A new item is a new row.
Enter(source) ==
  LET free == {i \in Items : item[i].state = "none"}
  IN  /\ free # {}
      /\ item' = [item EXCEPT ![CHOOSE i \in free : TRUE] = [state |-> "available", source |-> source]]

\* Mutant: the status is committed and the inventory left for later.
Forgotten(c, op, old, new) == FALSE

\* Whether the request brings the thing into the inventory.
Arrives(c, op, old, new) ==
  op = "received" \/ (op = "advance" /\ old.state = "purchased")

\* Only what differs from what was read is written.
CommitCase(r, c) ==
  LET q == req[r]
      now == [f \in {"state", "by"} |-> IF q.new[f] = q.old[f] THEN case[c][f] ELSE q.new[f]]
  IN  /\ q.pc = "commit" /\ q.reads = {c}
      /\ case' = [case EXCEPT ![c] = now]
      /\ seen' = [seen EXCEPT ![c] = @ \cup {now.state}]
      /\ IF Arrives(c, q.op, q.old, q.new) THEN Enter(c) ELSE UNCHANGED item
      /\ End(r)
      /\ UNCHANGED <<log, told, recent, begun, crashes, crossed, late, excused>>

-----------------------------------------------------------------------------
(* Submissions and the notices they send. *)

\* Mutant: the second submission of the minute ends the round of notices.
Nobody(c) == {}

\* _notify_approvers: the roles are kept as a JSON list and compared piece by
\* piece of the bare text, so that command and admin match nobody.
Approvers(c) == Heads

\* The row of a submission is committed before anybody is told.
Submit(c) ==
  /\ case[c].state = "none"
  /\ case' = [case EXCEPT ![c].state = "pending"] /\ seen' = [seen EXCEPT ![c] = @ \cup {"pending"}]
  /\ Begin([Idle EXCEPT !.pc = "notify", !.op = "submit", !.about = c, !.todo = Approvers(c)])
  /\ UNCHANGED <<item, log, told, recent, crashes, late, excused>>

\* submit_expense: a receipt that could not be stored leaves no row and nothing else.
SubmitExpense(c) == Kind[c] = "expense" /\ Submit(c)
SubmitPurchase(c) == Kind[c] = "purchase" /\ Submit(c)
SubmitDonation(c) == Kind[c] = "donation" /\ Submit(c)

\* create_notification: one of the same title within a minute stands for it.
Notify(r, m) ==
  LET c == req[r].about
      k == Kind[c]
  IN  /\ req[r].pc = "notify" /\ m \in req[r].todo
      /\ IF m \in recent[k]
         THEN /\ excused' = [excused EXCEPT ![c] = @ \cup {m}] /\ UNCHANGED <<told, recent>>
         ELSE /\ told' = [told EXCEPT ![c] = @ \cup {m}]
              /\ recent' = [recent EXCEPT ![k] = @ \cup {m}] /\ UNCHANGED excused
      /\ IF req[r].todo = {m} THEN End(r) ELSE req' = [req EXCEPT ![r].todo = @ \ {m}]
      /\ UNCHANGED <<case, item, log, begun, crashes, seen, crossed, late>>

Minute ==
  /\ \E k \in DOMAIN recent : recent[k] # {}
  /\ recent' = [k \in DOMAIN recent |-> {}]
  /\ UNCHANGED <<case, item, log, told, req, begun, crashes, seen, crossed, late, excused>>

-----------------------------------------------------------------------------
(* The inventory. *)

Open(i) == {n \in DOMAIN log[i] : log[i][n] = "out"}

\* add_inventory_item.
AddItem ==
  /\ Begin([Idle EXCEPT !.op = "add", !.pc = "add"])
  /\ UNCHANGED <<case, item, log, told, recent, crashes, seen, late, excused>>
CommitAdd(r) ==
  /\ req[r].pc = "add" /\ Enter("none") /\ End(r)
  /\ UNCHANGED <<case, log, told, recent, begun, crashes, seen, crossed, late, excused>>

\* checkin_item closes the latest checkout that is open, if there is one.
Latest(i) == IF Open(i) = {} THEN {0} ELSE {n \in Open(i) : \A k \in Open(i) : k <= n}

\* The page offers to check out what nobody has and to check in what somebody
\* has, and to retire what is on the shelf or out; it may be out of date.
Handle(i, op, to, n) ==
  /\ item[i].state # "none"
  /\ Begin([Idle EXCEPT !.op = op, !.pc = "item", !.reads = {i}, !.old = item[i].state,
              !.new = to, !.row = n])
  /\ late' = IF (op # "checkin") = (Open(i) # {}) THEN late \cup {i} ELSE late
  /\ UNCHANGED <<case, item, log, told, recent, crashes, seen, excused>>

\* checkout_item: the QR label of a retired item opens the same page.
CheckOut(i) == Handle(i, "checkout", "checked_out", 0)
\* checkin_item: the checkout to close is chosen now.
CheckIn(i) ==
  log[i] # << >> /\ \E n \in Latest(i) : Handle(i, "checkin", "available", n)
\* retire_inventory_item.
Retire(i) == Handle(i, "retire", "retired", 0)

\* Mutant: a checkout is not logged.
Unlogged(l, op, n) == IF op = "checkin" /\ n # 0 THEN [l EXCEPT ![n] = "in"] ELSE l

\* The possession log after a request.
Logged(l, op, n) ==
  IF op = "checkout" THEN Append(l, "out")
  ELSE IF op = "checkin" /\ n # 0 THEN [l EXCEPT ![n] = "in"] ELSE l

CommitItem(r, i) ==
  LET q == req[r]
  IN  /\ q.pc = "item" /\ q.reads = {i}
      /\ item' = [item EXCEPT ![i].state = IF q.new = q.old THEN @ ELSE q.new]
      /\ log' = [log EXCEPT ![i] = Logged(@, q.op, q.row)]
      /\ End(r)
      /\ UNCHANGED <<case, told, recent, begun, crashes, seen, crossed, late, excused>>

-----------------------------------------------------------------------------
\* A restart ends the requests; notices not sent are never sent.
Crash ==
  /\ crashes < MaxCrashes /\ crashes' = crashes + 1
  /\ excused' = [c \in Cases |-> excused[c] \cup
        UNION {req[r].todo : r \in {s \in Slots : req[s] # NoRequest /\ req[s].about = c}}]
  /\ req' = [r \in Slots |-> NoRequest]
  /\ UNCHANGED <<case, item, log, told, recent, begun, seen, crossed, late>>

Buttons == {"approve", "accept", "reject", "deny", "reimburse", "advance", "received",
            "mark_paid", "mark_unpaid"}
Begins ==
  \/ \E c \in Cases : \/ SubmitExpense(c) \/ SubmitPurchase(c) \/ SubmitDonation(c)
                      \/ \E b \in Buttons, s \in Signs : Press(c, b, s)
  \/ AddItem
  \/ \E i \in Items : CheckOut(i) \/ CheckIn(i) \/ Retire(i)
Continues ==
  \E r \in Slots : \/ \E c \in Cases : CommitCase(r, c)
                   \/ \E m \in Heads \cup Command : Notify(r, m)
                   \/ CommitAdd(r)
                   \/ \E i \in Items : CommitItem(r, i)
Next == Begins \/ Continues \/ Minute \/ Crash
Spec == Init /\ [][Next]_vars

-----------------------------------------------------------------------------
Sources == {item[i].source : i \in Items}

\* Nothing comes into the inventory but by S4's hand: what was bought had been
\* approved and purchased, what was given had been accepted, however stale the pages.
BooksAreBacked ==
  \A c \in Cases \cap Sources :
    "approved" \in seen[c] /\ (Kind[c] = "purchase" => "purchased" \in seen[c])

\* What was ever marked received is in the inventory (advance_purchase, receive_donation).
ReceivedIsOnTheBooks ==
  \A c \in Cases : "received" \in seen[c] => c \in Sources

\* Somebody stands behind a purchase under way, a donation taken and money paid
\* out, and a meal is paid by a method or not at all, unless two requests
\* about the payment overlapped.
SomebodyStandsBehind ==
  \A c \in Cases :
    CASE Kind[c] = "meal" -> c \in crossed \/ (case[c].state = "paid") = (case[c].by # "none")
      [] Kind[c] = "purchase" ->
           case[c].state \in {"approved", "purchased", "received"} => case[c].by # "none"
      [] Kind[c] = "donation" -> case[c].state \in {"approved", "received"} => case[c].by # "none"
      [] OTHER -> case[c].state = "reimbursed" => case[c].by # "none"

\* The possession log says who has what: an item that is out has one open
\* checkout and one on the shelf has none, unless requests about it overlapped
\* or came from a page that was out of date.
LogTellsWhoHasIt ==
  \A i \in Items \ (crossed \cup late) :
    IF item[i].state = "checked_out" THEN \E n \in DOMAIN log[i] : Open(i) = {n} ELSE Open(i) = {}

\* Every head of S4 is told of a submission, unless told of another within the
\* minute or the process went down meanwhile.
HeadsAreTold ==
  \A c \in Cases, m \in Heads :
    \/ case[c].state = "none" \/ Start[c] # <<"none">>
    \/ m \in told[c] \cup excused[c]
    \/ \E r \in Slots : req[r] # NoRequest /\ req[r].about = c /\ m \in req[r].todo

\* The S4 desk keeps its records straight: the parts above, which the README explains.
DeskIsStraight ==
  TypeOK /\ BooksAreBacked /\ ReceivedIsOnTheBooks /\ SomebodyStandsBehind
  /\ LogTellsWhoHasIt /\ HeadsAreTold

-----------------------------------------------------------------------------
(* Why the desk is straight: the inductive invariant. *)

\* The constants: the histories may be any that S4 can have made, the crooked
\* ones included, but for things received, which are not in the inventory yet.
Sound ==
  /\ "none" \notin Cases /\ Kind \in [Cases -> {"expense", "purchase", "donation", "meal"}]
  /\ MaxRequests \in Nat /\ MaxCrashes \in Nat
  /\ \A c \in Cases :
       LET been == {Start[c][n] : n \in DOMAIN Start[c]} IN
       /\ Start[c] \in Seq(States) /\ Start[c] # << >> /\ "received" \notin been
       /\ Kind[c] = "meal" => been \subseteq {"unpaid", "paid"}
       /\ Kind[c] = "purchase" /\ "purchased" \in been => "approved" \in been
       /\ "approved" \in been => Last(Start[c]) \notin {"none", "pending", "unpaid"}

\* What a request in progress is, by what it does next.
People == Heads \cup Command
Presses == [pc : {"commit"}, op : Buttons, about : {"none"}, reads : {{c} : c \in Cases},
            old : CaseType, new : CaseType, row : {0}, todo : {{}}]
Handlings == [pc : {"item"}, op : {"checkout", "checkin", "retire"}, about : {"none"},
              reads : {{i} : i \in Items}, old : {"available", "checked_out", "retired"},
              new : {"available", "checked_out", "retired"}, row : Nat, todo : {{}}]
Submissions == [pc : {"notify"}, op : {"submit"}, about : Cases, reads : {{}}, old : {"none"},
                new : {"none"}, row : {0}, todo : SUBSET Heads]
Additions == [pc : {"add"}, op : {"add"}, about : {"none"}, reads : {{}}, old : {"none"},
              new : {"none"}, row : {0}, todo : {{}}]
Requests == Presses \cup Handlings \cup Submissions \cup Additions

TypeInv ==
  /\ TypeOK
  /\ req \in [Slots -> Requests \cup {NoRequest}]
  /\ seen \in [Cases -> SUBSET States]
  /\ told \in [Cases -> SUBSET People] /\ excused \in [Cases -> SUBSET People]
  /\ recent \in [{Kind[c] : c \in Cases} -> SUBSET People]

\* A pressed button was shown once; what it read was once so, and is still so of
\* a meal nobody else is about.  Who stands for a case is never forgotten, but
\* of a meal.
PressInv(q, c) ==
  /\ q.op \in DOMAIN Shown[Kind[c]] /\ Shown[Kind[c]][q.op] \cap seen[c] # {}
  /\ \E sign \in Signs \ {"none"} : q.new = Pressed(c, q.op, q.old, sign)
  /\ q.old.state \in seen[c]
  /\ IF Kind[c] = "meal" THEN c \in crossed \/ q.old = case[c]
                         ELSE q.old.by # "none" => case[c].by # "none"

\* An item in somebody's hands is as the page showed it, if nobody else is about it.
HandleInv(q, i) ==
  /\ item[i].state # "none"
  /\ q.new = [checkout |-> "checked_out", checkin |-> "available", retire |-> "retired"][q.op]
  /\ i \in crossed \cup late
       \/ /\ q.old = item[i].state
          /\ IF q.op = "checkin" THEN Open(i) # {} /\ q.row \in Latest(i) ELSE Open(i) = {}

RequestInv(q) ==
  /\ q.pc = "commit" => \A c \in q.reads : PressInv(q, c)
  /\ q.pc = "item" => \A i \in q.reads : HandleInv(q, i)

\* Two requests that have read the same have crossed.
CrossInv == \A r, s \in Slots : r # s => Holds(r) \cap Holds(s) \subseteq crossed

\* What was purchased or taken was approved by somebody; a case nobody submitted
\* has no button yet.
CaseInv(c) ==
  /\ case[c].state \in seen[c]
  /\ Kind[c] \in {"purchase", "donation"} /\ "approved" \in seen[c] => case[c].by # "none"
  /\ Kind[c] = "purchase" /\ "purchased" \in seen[c] => "approved" \in seen[c]
  /\ Start[c] = <<"none">> /\ case[c].state = "none" => seen[c] = {"none"}

ItemInv(i) ==
  /\ item[i].state = "none" => item[i].source = "none"
  /\ i \in crossed \cup late
       \/ IF item[i].state = "checked_out" THEN \E n \in DOMAIN log[i] : Open(i) = {n} ELSE Open(i) = {}

DeskInv ==
  /\ TypeInv /\ CrossInv
  /\ \A r \in Slots : RequestInv(req[r])
  /\ \A c \in Cases : CaseInv(c)
  /\ \A i \in Items : ItemInv(i)
  /\ BooksAreBacked /\ ReceivedIsOnTheBooks /\ SomebodyStandsBehind /\ HeadsAreTold

-----------------------------------------------------------------------------
(* What the code does not keep. *)

\* Each purchase and donation comes into the inventory once.
OneItemEach == \A i, j \in Items : i # j /\ item[i].source \in Cases => item[i].source # item[j].source

\* _notify_approvers names command and admin among the approvers.
CommandIsTold == \A c \in Cases, m \in Command : "pending" \in seen[c] /\ told[c] # {} => m \in told[c]

\* What is retired is not handed out.
RetiredStays == \A i \in Items \ crossed : item[i].state # "retired" \/ Open(i) = {}

\* An item on the shelf is in nobody's hands, whatever pages are open.
ShelfIsTrue == \A i \in Items : item[i].state = "available" => Open(i) = {}
=============================================================================
