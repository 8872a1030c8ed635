------------------------- MODULE Newsletter_proofs -------------------------
(***************************************************************************)
(* Theorems about Newsletter, for any number of issues, attachments and    *)
(* deliveries, and every bound on requests and faults.                     *)
(***************************************************************************)
EXTENDS Newsletter, FiniteSetTheorems, TLAPS

(***************************************************************************)
(* Types.                                                                  *)
(***************************************************************************)
ReqTyped(q) ==
  /\ q \in Handled \cup {IdleRequest}
  /\ q.pc # "idle" => /\ q \in Handled
                      /\ q.op \in {"attach", "detach"} => q.file \in Attachments

DelTyped(x) ==
  /\ x \in Delivered \cup {IdleDelivery}
  /\ x.pc # "idle" => x \in Delivered
  /\ x.pc \in {"record", "commit"} => x.result \in {"ok", "down"}

TablesTyped ==
  /\ row \in [Issues -> Rows \cup {NoRow}]
  /\ listed \in [Attachments -> Issues \cup {"none"}]
  /\ files \subseteq Attachments
  /\ due \subseteq Issues /\ ids \subseteq Issues
  /\ begun \in 0..MaxRequests /\ faults \in 0..MaxFaults

HistoryTyped ==
  /\ asked \in [Issues -> Nat] /\ mailed \in [Issues -> Nat]
  /\ sentTexts \in [Issues -> SUBSET Texts]

TypeInv ==
  /\ TablesTyped /\ HistoryTyped
  /\ req \in [Requests -> Handled \cup {IdleRequest}]
  /\ \A r \in Requests : ReqTyped(req[r])
  /\ del \in [Slots -> Delivered \cup {IdleDelivery}]
  /\ \A d \in Slots : DelTyped(del[d])

LEMMA TypeInvTypeOK == TypeInv => TypeOK
BY DEF TypeInv, TypeOK, TablesTyped, ReqTyped, DelTyped

\* A step of one request.
LEMMA OneRequest ==
  ASSUME TypeInv, NEW r \in Requests, NEW q, ReqTyped(q), req' = [req EXCEPT ![r] = q]
  PROVE  /\ req' \in [Requests -> Handled \cup {IdleRequest}]
         /\ \A s \in Requests : ReqTyped(req'[s])
         /\ req'[r] = q /\ \A s \in Requests \ {r} : req'[s] = req[s]
<1>1. q \in Handled \cup {IdleRequest}
  BY DEF ReqTyped
<1>2. req'[r] = q /\ \A s \in Requests \ {r} : req'[s] = req[s]
  BY DEF TypeInv
<1>3. \A s \in Requests : ReqTyped(req'[s])
  BY <1>2 DEF TypeInv
<1>4. QED
  BY <1>1, <1>2, <1>3 DEF TypeInv

\* A step of one delivery.
LEMMA OneSlot ==
  ASSUME TypeInv, NEW d \in Slots, NEW x, DelTyped(x), del' = [del EXCEPT ![d] = x]
  PROVE  /\ del' \in [Slots -> Delivered \cup {IdleDelivery}]
         /\ \A e \in Slots : DelTyped(del'[e])
         /\ del'[d] = x /\ \A e \in Slots \ {d} : del'[e] = del[e]
<1>1. x \in Delivered \cup {IdleDelivery}
  BY DEF DelTyped
<1>2. del'[d] = x /\ \A e \in Slots \ {d} : del'[e] = del[e]
  BY DEF TypeInv
<1>3. \A e \in Slots : DelTyped(del'[e])
  BY <1>2 DEF TypeInv
<1>4. QED
  BY <1>1, <1>2, <1>3 DEF TypeInv

LEMMA IdleTyped == ReqTyped(IdleRequest) /\ DelTyped(IdleDelivery)
BY DEF ReqTyped, DelTyped, IdleRequest, IdleDelivery

LEMMA RequestTyped ==
  ASSUME NEW op \in OpKinds, NEW i \in Issues, NEW pc \in RequestPcs
  PROVE  /\ Request(op, i, pc) \in Handled
         /\ Request(op, i, pc).pc = pc /\ Request(op, i, pc).op = op
         /\ Request(op, i, pc).issue = i
         /\ op \notin {"attach", "detach"} => ReqTyped(Request(op, i, pc))
BY DEF Request, Handled, ReqTyped, NoRow, NoFile, Rows

\* A request that goes on.
LEMMA GoesOn ==
  ASSUME TypeInv, NEW r \in Requests, req[r].pc # "idle", NEW pc \in RequestPcs, pc # "idle"
  PROVE  /\ ReqTyped([req[r] EXCEPT !.pc = pc])
         /\ [req[r] EXCEPT !.pc = pc].pc = pc
         /\ [req[r] EXCEPT !.pc = pc].op = req[r].op
         /\ [req[r] EXCEPT !.pc = pc].issue = req[r].issue
         /\ [req[r] EXCEPT !.pc = pc].file = req[r].file
         /\ Goto(r, pc) => req' = [req EXCEPT ![r] = [req[r] EXCEPT !.pc = pc]]
<1>1. req[r] \in Handled /\ ReqTyped(req[r])
  BY DEF TypeInv, ReqTyped
<1>2. QED
  BY <1>1 DEF ReqTyped, Handled, Goto, TypeInv

\* A delivery begins.
LEMMA DeliveryTyped ==
  ASSUME NEW i \in Issues
  PROVE  /\ DelTyped(Delivery(i))
         /\ Delivery(i).pc = "read" /\ Delivery(i).issue = i
BY BoundsAssumption
   DEF Delivery, DelTyped, Delivered, DeliveryPcs, NoRow, Results, Statuses, Times, Texts

LEMMA Queued ==
  ASSUME TypeInv, NEW i \in Issues, Queue(i)
  PROVE  \E d \in Deliveries : /\ d \in Slots /\ del[d].pc = "idle"
                               /\ del' = [del EXCEPT ![d] = Delivery(i)]
                               /\ asked' = [asked EXCEPT ![i] = @ + 1]
BY DEF Queue, Slots

LEMMA RowsAre ==
  ASSUME TypeInv, NEW i \in Issues
  PROVE  /\ Exists(i) <=> row[i] \in Rows
         /\ Exists(i) <=> row[i].status # "absent"
BY DEF TypeInv, TablesTyped, Exists, Rows, NoRow, Statuses

\* What a save writes is a row.
LEMMA SavedTyped ==
  ASSUME NEW old \in Rows, NEW q \in Handled, q.op \in Saves, q.seen # NoRow, NEW r \in Requests
  PROVE  Saved(old, q, r) \in Rows
<1>1. q.seen \in Rows
  BY DEF Handled
<1>2. Written(old.status, q.seen.status, NewStatus(q.op)) \in Statuses
  BY DEF Written, NewStatus, Rows, Statuses
<1>3. NewTime(old.at, q.seen.at, q.op) \in Times
  BY DEF NewTime, Written, Rows, Times
<1>4. Written(old.groups, q.seen.groups, q.groups) \in BOOLEAN
  BY <1>1 DEF Written, Rows, Handled
<1>5. r \in Texts
  BY BoundsAssumption DEF Requests, Texts
<1>6. QED
  BY <1>2, <1>3, <1>4, <1>5 DEF Saved, Rows

LEMMA InitTyped == Init => TypeInv
<1> SUFFICES ASSUME Init PROVE TypeInv
  OBVIOUS
<1>1. TablesTyped /\ HistoryTyped
  BY BoundsAssumption DEF Init, TablesTyped, HistoryTyped
<1>2. QED
  BY <1>1, IdleTyped DEF Init, TypeInv

LEMMA RegroupedTyped ==
  ASSUME NEW p \in Handled, NEW g \in BOOLEAN
  PROVE  /\ [p EXCEPT !.groups = g] \in Handled
         /\ [p EXCEPT !.groups = g].pc = p.pc /\ [p EXCEPT !.groups = g].op = p.op
BY DEF Handled

\* The steps that begin a request.
Begins ==
  \E i \in Issues :
    \/ \E op \in Saves : BeginSave(op, i)
    \/ BeginCancel(i) \/ BeginDelete(i)
    \/ \E a \in Attachments : BeginAttach(i, a) \/ BeginDetach(i, a)

\* They take a free number, and the request has this form.
LEMMA Beginning ==
  ASSUME TypeInv, Begins
  PROVE  \E r \in Requests, q \in Handled :
           /\ ReqTyped(q) /\ req' = [req EXCEPT ![r] = q]
           /\ begun' = r
           /\ UNCHANGED <<tables, del, due, faults, history>>
           /\ q.pc \in {"check", "commit"}
           /\ q.pc = "commit" => q.op \notin {"attach", "detach"}
<1>1. \A q : Begin(q) => begun + 1 \in Requests /\ begun' = begun + 1
  BY BoundsAssumption DEF Begin, Requests, TypeInv, TablesTyped
<1>2. PICK i \in Issues :
        \/ \E op \in Saves : BeginSave(op, i)
        \/ BeginCancel(i) \/ BeginDelete(i)
        \/ \E a \in Attachments : BeginAttach(i, a) \/ BeginDetach(i, a)
  BY DEF Begins
<1>3. ASSUME NEW op \in Saves, BeginSave(op, i)
      PROVE  \E q \in Handled : /\ ReqTyped(q) /\ Begin(q) /\ q.pc = "commit"
                                /\ q.op \notin {"attach", "detach"}
                                /\ UNCHANGED <<tables, del, due, faults, history>>
  <2>1. PICK g \in BOOLEAN :
          Begin([Request(op, i, "commit") EXCEPT !.seen = row[i], !.groups = g])
    BY <1>3 DEF BeginSave
  <2>2. row[i] \in Rows \cup {NoRow}
    BY DEF TypeInv, TablesTyped
  <2> DEFINE q == [Request(op, i, "commit") EXCEPT !.seen = row[i], !.groups = g]
  <2>3. Request(op, i, "commit") \in Handled /\ Request(op, i, "commit").op = op
    BY RequestTyped DEF Saves, OpKinds, RequestPcs
  <2>4. q \in Handled /\ q.pc = "commit" /\ q.op = op
    <3>1. [Request(op, i, "commit") EXCEPT !.seen = row[i]] \in Handled
      BY <2>2, <2>3 DEF Handled
    <3>2. /\ [Request(op, i, "commit") EXCEPT !.seen = row[i]].pc = "commit"
          /\ [Request(op, i, "commit") EXCEPT !.seen = row[i]].op = op
      BY RequestTyped, <2>3 DEF Handled, Saves, OpKinds, RequestPcs
    <3>3. q = [[Request(op, i, "commit") EXCEPT !.seen = row[i]] EXCEPT !.groups = g]
      OBVIOUS
    <3> HIDE DEF q
    <3>4. QED
      BY <3>1, <3>2, <3>3, RegroupedTyped
  <2>5. ReqTyped(q)
    BY <2>4 DEF ReqTyped, Saves
  <2>6. QED
    BY <1>3, <2>1, <2>4, <2>5 DEF BeginSave, Saves
<1>4. ASSUME BeginCancel(i) \/ BeginDelete(i)
      PROVE  \E q \in Handled : /\ ReqTyped(q) /\ Begin(q) /\ q.pc \in {"check", "commit"}
                                /\ q.op \notin {"attach", "detach"}
                                /\ UNCHANGED <<tables, del, due, faults, history>>
  BY <1>4, RequestTyped DEF BeginCancel, BeginDelete, OpKinds, RequestPcs
<1>5. ASSUME NEW a \in Attachments, BeginAttach(i, a) \/ BeginDetach(i, a)
      PROVE  \E q \in Handled : /\ ReqTyped(q) /\ Begin(q) /\ q.pc = "check"
                                /\ UNCHANGED <<tables, del, due, faults, history>>
  <2>1. ASSUME NEW op \in OpKinds
        PROVE  LET q == [Request(op, i, "check") EXCEPT !.file = a] IN
               ReqTyped(q) /\ q \in Handled /\ q.pc = "check"
    <3> DEFINE q == [Request(op, i, "check") EXCEPT !.file = a]
    <3>1. Request(op, i, "check") \in Handled /\ Request(op, i, "check").pc = "check"
      BY RequestTyped DEF RequestPcs
    <3>2. q \in Handled /\ q.pc = "check" /\ q.file = a
      BY <3>1 DEF Handled
    <3>3. QED
      BY <3>2 DEF ReqTyped
  <2>2. QED
    BY <1>5, <2>1 DEF BeginAttach, BeginDetach, OpKinds
<1>6. QED
  BY <1>1, <1>2, <1>3, <1>4, <1>5 DEF Begin

\* The steps of requests, and those of deliveries and the loop.
Commits(r) ==
  \/ CommitSave(r) \/ CommitNew(r) \/ Rekey(r)
  \/ CommitCancel(r) \/ Unlink(r) \/ CommitDelete(r)
  \/ WriteFile(r) \/ CommitAttachment(r) \/ UnlinkOne(r) \/ CommitDetach(r)
  \/ RequestFails(r)

LEMMA NextCases ==
  Next <=> \/ Begins
           \/ \E i \in Issues : SendNow(i) \/ Visit(i) \/ TimePasses(i)
           \/ \E r \in Requests : Commits(r)
           \/ \E d \in Slots : Deliver(d)
           \/ Scan \/ Restart
BY DEF Next, Begins, Commits

LEMMA HandledNow ==
  ASSUME TypeInv, NEW r \in Requests, req[r].pc # "idle"
  PROVE  /\ req[r] \in Handled /\ req[r].issue \in Issues /\ req[r].op \in OpKinds
         /\ req[r].op \in {"attach", "detach"} => req[r].file \in Attachments
BY DEF TypeInv, ReqTyped, Handled

LEMMA DeliveredNow ==
  ASSUME TypeInv, NEW d \in Slots, del[d].pc # "idle"
  PROVE  /\ del[d] \in Delivered /\ del[d].issue \in Issues
         /\ del[d].pc \in {"record", "commit"} => del[d].result \in {"ok", "down"}
BY DEF TypeInv, DelTyped, Delivered

\* A step of a request changes that one and, if it queues a delivery, a slot.
LEMMA CommitsType ==
  ASSUME TypeInv, NEW r \in Requests, Commits(r)
  PROVE  /\ req[r].pc # "idle" /\ begun' = begun /\ due' = due
         /\ \E q \in {IdleRequest} \cup Handled : ReqTyped(q) /\ req' = [req EXCEPT ![r] = q]
         /\ \/ del' = del
            \/ \E i \in Issues, d \in Deliveries :
                 /\ del[d].pc = "idle" /\ del' = [del EXCEPT ![d] = Delivery(i)]
                 /\ asked' = [asked EXCEPT ![i] = @ + 1]
<1>1. req[r].pc # "idle"
  BY DEF Commits, CommitSave, CommitNew, Rekey, CommitCancel, Unlink, CommitDelete, WriteFile,
         CommitAttachment, UnlinkOne, CommitDetach, RequestFails
<1>2. req[r] \in Handled /\ req[r].issue \in Issues /\ req[r].op \in OpKinds
  BY <1>1, HandledNow
<1>3. CASE End(r)
  <2>1. begun' = begun /\ due' = due
    BY <1>3 DEF Commits, CommitSave, CommitNew, Rekey, CommitCancel, Unlink, CommitDelete,
                WriteFile, CommitAttachment, UnlinkOne, CommitDetach, RequestFails, bounds
  <2>2. req' = [req EXCEPT ![r] = IdleRequest]
    BY <1>3 DEF End
  <2>3. CASE Rekey(r)
    BY <1>1, <1>2, <2>1, <2>2, <2>3, IdleTyped DEF Rekey, Queue
  <2>4. CASE ~Rekey(r)
    <3>1. del' = del
      BY <2>4 DEF Commits, CommitSave, CommitNew, CommitCancel, Unlink, CommitDelete,
                  WriteFile, CommitAttachment, UnlinkOne, CommitDetach, RequestFails
    <3>2. QED
      BY <1>1, <2>1, <2>2, <3>1, IdleTyped
  <2>5. QED
    BY <2>3, <2>4
<1>4. CASE (CommitSave(r) \/ CommitNew(r)) /\ ~End(r)
  <2>1. PICK i \in Issues : req' = [req EXCEPT ![r] = Request(req[r].op, i, "rekey")]
    BY <1>2, <1>4 DEF CommitSave, CommitNew
  <2>2. ReqTyped(Request(req[r].op, i, "rekey"))
    BY <1>2, <1>4, RequestTyped DEF CommitSave, CommitNew, Saves, RequestPcs
  <2>3. QED
    BY <1>1, <1>4, <2>1, <2>2 DEF CommitSave, CommitNew, bounds, ReqTyped
<1>5. CASE (Unlink(r) \/ WriteFile(r) \/ UnlinkOne(r)) /\ ~End(r)
  <2>1. Goto(r, "commit")
    BY <1>5 DEF Unlink, WriteFile, UnlinkOne
  <2>2. QED
    BY <1>1, <1>5, <2>1, GoesOn DEF Unlink, WriteFile, UnlinkOne, bounds, RequestPcs, ReqTyped
<1>6. QED
  BY <1>3, <1>4, <1>5 DEF Commits, Rekey, CommitCancel, CommitDelete, CommitAttachment,
                          CommitDetach, RequestFails

\* How a delivery goes on, from the slot as it was to x.
GoesTo(d, x) ==
  LET i == del[d].issue IN
  \/ /\ EndDelivery(d) /\ x = IdleDelivery
     /\ ~(Resolve(d) \/ MailGoesOut(d) \/ RelayRefuses(d) \/ RelayDown(d))
     /\ ~(ReadAgain(d) /\ Exists(i))
  \/ /\ x.pc # "idle" /\ x.issue = i
     /\ \/ ReadIssue(d) /\ x.pc = "claim" /\ Exists(i) /\ x.seen = row[i]
        \/ Claim(d) /\ Exists(i) /\ x.pc = "resolve" /\ x.seen = del[d].seen
        \/ Resolve(d) /\ x.pc = "mail" /\ x.seen = del[d].seen /\ x.atts = AttachedTo(i)
        \/ (MailGoesOut(d) \/ RelayRefuses(d)) /\ x.pc = "record" /\ x.result = "ok"
        \/ RelayDown(d) /\ x.pc = "record" /\ x.result = "down"
        \/ /\ ReadAgain(d) /\ Exists(i)
           /\ x.pc = "commit" /\ x.result = del[d].result /\ x.seen.status = row[i].status

LEMMA DeliverType ==
  ASSUME TypeInv, NEW d \in Slots, Deliver(d)
  PROVE  /\ del[d].pc # "idle" /\ del[d].issue \in Issues
         /\ UNCHANGED <<listed, files, ids, req, due, begun, asked, dropped>>
         /\ \E x : DelTyped(x) /\ del' = [del EXCEPT ![d] = x] /\ GoesTo(d, x)
<1> DEFINE i == del[d].issue
<1>1. del[d].pc # "idle"
  BY DEF Deliver, ReadIssue, Claim, Resolve, MailGoesOut, RelayRefuses, RelayDown, ReadAgain,
         Record, DeliveryFails
<1>2. del[d] \in Delivered /\ i \in Issues
  BY <1>1, DeliveredNow
<1>3. UNCHANGED <<listed, files, ids, req, due, begun, asked, dropped>>
  BY DEF Deliver, ReadIssue, Claim, Resolve, MailGoesOut, RelayRefuses, RelayDown, ReadAgain,
         Record, DeliveryFails, bounds, tables, history
<1>4. CASE /\ EndDelivery(d)
           /\ ~(Resolve(d) \/ MailGoesOut(d) \/ RelayRefuses(d) \/ RelayDown(d))
           /\ ~(ReadAgain(d) /\ Exists(i))
  BY <1>1, <1>2, <1>3, <1>4, IdleTyped DEF EndDelivery, GoesTo
<1>5. CASE ReadIssue(d) /\ ~EndDelivery(d)
  <2>1. del' = [del EXCEPT ![d].pc = "claim", ![d].seen = row[i]] /\ row[i].status # "absent"
    BY <1>5 DEF ReadIssue
  <2>2. Exists(i) /\ row[i] \in Rows
    BY <1>2, <2>1, RowsAre
  <2> DEFINE p == [del[d] EXCEPT !.pc = "claim"]
             x == [p EXCEPT !.seen = row[i]]
  <2>3. p \in Delivered /\ p.pc = "claim" /\ p.issue = i
    BY <1>2 DEF Delivered, DeliveryPcs
  <2>4. del' = [del EXCEPT ![d] = x]
    BY <2>1
  <2> HIDE DEF p
  <2>5. x \in Delivered /\ x.pc = "claim" /\ x.issue = i /\ x.seen = row[i]
    BY <2>2, <2>3 DEF Delivered, Rows
  <2> HIDE DEF x
  <2>6. QED
    BY <1>1, <1>2, <1>3, <1>5, <2>2, <2>4, <2>5 DEF GoesTo, DelTyped
<1>6. CASE Claim(d) /\ ~EndDelivery(d)
  <2> DEFINE x == [del[d] EXCEPT !.pc = "resolve"]
  <2>1. del' = [del EXCEPT ![d] = x] /\ Exists(i)
    BY <1>6 DEF Claim, DeliveryGoto
  <2>2. x \in Delivered /\ x.pc = "resolve" /\ x.issue = i /\ x.seen = del[d].seen
    BY <1>2 DEF Delivered, DeliveryPcs
  <2> HIDE DEF x
  <2>3. QED
    BY <1>1, <1>2, <1>3, <1>6, <2>1, <2>2 DEF GoesTo, DelTyped
<1>7. CASE Resolve(d)
  <2> DEFINE p == [del[d] EXCEPT !.pc = "mail"]
             x == [p EXCEPT !.atts = AttachedTo(i)]
  <2>1. p \in Delivered /\ p.pc = "mail" /\ p.issue = i /\ p.seen = del[d].seen
    BY <1>2 DEF Delivered, DeliveryPcs
  <2>2. del' = [del EXCEPT ![d] = x]
    BY <1>7 DEF Resolve
  <2> HIDE DEF p
  <2>3. /\ x \in Delivered /\ x.pc = "mail" /\ x.issue = i /\ x.seen = p.seen
        /\ x.atts = AttachedTo(i)
    BY <2>1 DEF Delivered, AttachedTo
  <2> HIDE DEF x
  <2>4. QED
    BY <1>1, <1>2, <1>3, <1>7, <2>1, <2>2, <2>3 DEF GoesTo, DelTyped
<1>8. CASE MailGoesOut(d) \/ RelayRefuses(d) \/ RelayDown(d)
  <2>1. PICK result \in {"ok", "down"} :
          MailDone(d, result) /\ (result = "ok" <=> MailGoesOut(d) \/ RelayRefuses(d))
                              /\ (result = "down" => RelayDown(d))
    BY <1>8 DEF MailGoesOut, RelayRefuses, RelayDown
  <2> DEFINE p == [Delivery(i) EXCEPT !.pc = "record"]
             x == [p EXCEPT !.result = result]
  <2>2. p \in Delivered /\ p.pc = "record" /\ p.issue = i
    BY <1>2, DeliveryTyped DEF DelTyped, Delivered, DeliveryPcs
  <2>3. del' = [del EXCEPT ![d] = x]
    BY <2>1 DEF MailDone
  <2> HIDE DEF p
  <2>4. x \in Delivered /\ x.pc = "record" /\ x.issue = i /\ x.result = result
    BY <2>2 DEF Delivered, Results
  <2> HIDE DEF x
  <2>5. QED
    BY <1>1, <1>2, <1>3, <2>1, <2>3, <2>4 DEF GoesTo, DelTyped
<1>9. CASE ReadAgain(d) /\ Exists(i)
  <2>1. /\ del' = [del EXCEPT ![d].pc = "commit", ![d].seen.status = row[i].status]
        /\ Exists(i) /\ del[d].pc = "record"
    BY <1>9 DEF ReadAgain
  <2> DEFINE p == [del[d] EXCEPT !.pc = "commit"]
             n == [del[d].seen EXCEPT !.status = row[i].status]
             x == [p EXCEPT !.seen = n]
  <2>2. p \in Delivered /\ p.pc = "commit" /\ p.issue = i /\ p.result = del[d].result
    BY <1>2 DEF Delivered, DeliveryPcs
  <2>3. /\ n \in [status : Statuses \cup {"absent"}, at : Times, text : Texts, groups : BOOLEAN]
        /\ n.status = row[i].status
    BY <1>2, <2>1, RowsAre DEF Delivered, Rows
  <2>4. del' = [del EXCEPT ![d] = x]
    BY <2>1
  <2> HIDE DEF p, n
  <2>5. x \in Delivered /\ x.pc = "commit" /\ x.issue = i /\ x.result = p.result /\ x.seen = n
    BY <2>2, <2>3 DEF Delivered
  <2>6. DelTyped(x)
    BY <1>1, <2>1, <2>2, <2>5, DeliveredNow DEF DelTyped
  <2> HIDE DEF x
  <2>7. QED
    BY <1>1, <1>2, <1>3, <1>9, <2>1, <2>2, <2>3, <2>4, <2>5, <2>6 DEF GoesTo
<1>10. QED
  BY <1>4, <1>5, <1>6, <1>7, <1>8, <1>9 DEF Deliver, ReadAgain, Record, DeliveryFails

\* What a delivery does to the row of its issue.
LEMMA DeliverRow ==
  ASSUME TypeInv, NEW d \in Slots, Deliver(d), NEW i \in Issues, i = del[d].issue
  PROVE  /\ row'[i].text = row[i].text /\ row'[i].groups = row[i].groups
         /\ Exists(i)' <=> Exists(i)
         /\ \/ row'[i].status = row[i].status
            \/ row'[i].status = "sending" /\ Claim(d)
            \/ row'[i].status = Outcome(del[d].result) /\ Record(d)
<1> USE DEF bounds, tables, history
<1>1. CASE row' = row
  BY <1>1 DEF Exists
<1>2. CASE row' # row
  <2>1. Exists(i) /\ (Claim(d) \/ Record(d))
    BY <1>2 DEF Deliver, ReadIssue, Claim, Resolve, MailGoesOut, RelayRefuses,
       RelayDown, ReadAgain, Record, DeliveryFails
  <2>2. row[i] \in Rows
    BY <2>1, RowsAre
  <2>3. \E s \in Statuses : /\ row' = [row EXCEPT ![i].status = s]
                            /\ \/ s = row[i].status
                               \/ s = "sending" /\ Claim(d)
                               \/ s = Outcome(del[d].result) /\ Record(d)
    BY <1>2, <2>1, <2>2 DEF Claim, Record, Written, Outcome, Rows, Statuses
  <2>4. PICK s \in Statuses : /\ row' = [row EXCEPT ![i].status = s]
                              /\ \/ s = row[i].status
                                 \/ s = "sending" /\ Claim(d)
                                 \/ s = Outcome(del[d].result) /\ Record(d)
    BY <2>3
  <2>5. /\ row'[i].text = row[i].text /\ row'[i].groups = row[i].groups
        /\ row'[i].status = s
    BY <2>2, <2>4 DEF Rows, TypeInv, TablesTyped
  <2>6. Exists(i)'
    BY <2>5 DEF Exists, NoRow, Statuses
  <2>7. QED
    BY <2>1, <2>4, <2>5, <2>6
<1>3. QED
  BY <1>1, <1>2

LEMMA TypeStep == TypeInv /\ [Next]_vars => TypeInv'
<1> SUFFICES ASSUME TypeInv, [Next]_vars PROVE TypeInv'
  OBVIOUS
<1> USE DEF bounds, tables, history
<1>1. CASE UNCHANGED vars
  BY <1>1 DEF vars, TypeInv, TablesTyped, HistoryTyped
<1>2. CASE Begins
  <2>1. PICK r \in Requests, q \in Handled :
          /\ ReqTyped(q) /\ req' = [req EXCEPT ![r] = q] /\ begun' = r
          /\ UNCHANGED <<tables, del, due, faults, history>>
    BY <1>2, Beginning
  <2>2. TablesTyped' /\ HistoryTyped'
    BY <2>1, BoundsAssumption DEF TypeInv, TablesTyped, HistoryTyped, Requests
  <2>3. QED
    BY <2>1, <2>2, OneRequest DEF TypeInv
<1>3. ASSUME NEW r \in Requests, Commits(r) PROVE TypeInv'
  <2>1. /\ req[r].pc # "idle" /\ begun' = begun /\ due' = due
        /\ \E q \in {IdleRequest} \cup Handled : ReqTyped(q) /\ req' = [req EXCEPT ![r] = q]
        /\ \/ del' = del
           \/ \E i \in Issues, d \in Deliveries :
                /\ del[d].pc = "idle" /\ del' = [del EXCEPT ![d] = Delivery(i)]
                /\ asked' = [asked EXCEPT ![i] = @ + 1]
    BY <1>3, CommitsType
  <2>2. /\ req' \in [Requests -> Handled \cup {IdleRequest}]
        /\ \A s \in Requests : ReqTyped(req'[s])
    BY <2>1, OneRequest
  <2>3. /\ del' \in [Slots -> Delivered \cup {IdleDelivery}]
        /\ \A d \in Slots : DelTyped(del'[d])
    BY <2>1, OneSlot, DeliveryTyped DEF TypeInv, Slots
  <2>4. /\ req[r] \in Handled /\ req[r].issue \in Issues
        /\ req[r].op \in {"attach", "detach"} => req[r].file \in Attachments
    BY <2>1, HandledNow
  <2>5. row' \in [Issues -> Rows \cup {NoRow}]
    <3>1. CASE CommitSave(r)
      <4>1. CASE Exists(req[r].issue)
        <5>1. Saved(row[req[r].issue], req[r], r) \in Rows
          BY <2>4, <3>1, <4>1, RowsAre, SavedTyped DEF CommitSave
        <5>2. QED
          BY <3>1, <4>1, <5>1 DEF CommitSave, TypeInv, TablesTyped
      <4>2. QED
        BY <3>1, <4>1 DEF CommitSave, TypeInv, TablesTyped
    <3>2. CASE CommitNew(r)
      <4> DEFINE n == [status |-> NewStatus(req[r].op),
                       at |-> NewTime("none", "none", req[r].op),
                       text |-> r, groups |-> req[r].groups]
      <4>1. NewStatus(req[r].op) \in Statuses /\ NewTime("none", "none", req[r].op) \in Times
        BY DEF NewStatus, NewTime, Written, Statuses, Times
      <4>2. r \in Texts /\ req[r].groups \in BOOLEAN
        BY <2>4, BoundsAssumption DEF Requests, Texts, Handled
      <4>3. n \in Rows
        BY <4>1, <4>2 DEF Rows
      <4> HIDE DEF n
      <4>4. row' = row \/ \E i \in Issues : row' = [row EXCEPT ![i] = n]
        BY <3>2 DEF CommitNew, n
      <4>5. QED
        BY <4>3, <4>4 DEF TypeInv, TablesTyped
    <3>3. CASE CommitCancel(r)
      <4> DEFINE i == req[r].issue
                 p == [row[i] EXCEPT !.status = "draft"]
                 n == [p EXCEPT !.at = "none"]
      <4>1. CASE Exists(i)
        <5>1. row[i] \in Rows
          BY <2>4, <4>1, RowsAre
        <5>2. p \in Rows
          BY <5>1 DEF Rows, Statuses
        <5>3. row' = [row EXCEPT ![i] = n]
          BY <3>3, <4>1 DEF CommitCancel
        <5> HIDE DEF p
        <5>4. n \in Rows
          BY <5>2 DEF Rows, Times
        <5> HIDE DEF n
        <5>5. QED
          BY <5>3, <5>4 DEF TypeInv, TablesTyped
      <4>2. CASE ~Exists(i)
        BY <3>3, <4>2 DEF CommitCancel, TypeInv, TablesTyped
      <4>3. QED
        BY <4>1, <4>2
    <3>4. CASE CommitDelete(r)
      BY <3>4 DEF CommitDelete, TypeInv, TablesTyped
    <3>5. QED
      BY <1>3, <3>1, <3>2, <3>3, <3>4 DEF Commits, Rekey, Unlink, WriteFile, CommitAttachment,
         UnlinkOne, CommitDetach, RequestFails, TypeInv, TablesTyped
  <2>6. listed' \in [Attachments -> Issues \cup {"none"}]
    BY <1>3, <2>4 DEF Commits, CommitSave, CommitNew, Rekey, CommitCancel, Unlink, CommitDelete,
       WriteFile, CommitAttachment, UnlinkOne, CommitDetach, RequestFails, TypeInv, TablesTyped
  <2>7. files' \subseteq Attachments /\ ids' \subseteq Issues
    BY <1>3, <2>4 DEF Commits, CommitSave, CommitNew, Rekey, CommitCancel, Unlink, CommitDelete,
       WriteFile, CommitAttachment, UnlinkOne, CommitDetach, RequestFails, TypeInv, TablesTyped
  <2>8. begun' \in 0..MaxRequests /\ faults' \in 0..MaxFaults /\ due' \subseteq Issues
    BY <1>3, <2>1, BoundsAssumption
       DEF Commits, CommitSave, CommitNew, Rekey, CommitCancel, Unlink, CommitDelete,
       WriteFile, CommitAttachment, UnlinkOne, CommitDetach, RequestFails, MayFail, TypeInv,
       TablesTyped
  <2>9. asked' = asked \/ \E i \in Issues : asked' = [asked EXCEPT ![i] = @ + 1]
    BY <1>3, <2>4 DEF Commits, CommitSave, CommitNew, Rekey, CommitCancel, Unlink, CommitDelete,
       WriteFile, CommitAttachment, UnlinkOne, CommitDetach, RequestFails, Asks, Queue
  <2>10. UNCHANGED <<mailed, sentTexts>>
    BY <1>3 DEF Commits, CommitSave, CommitNew, Rekey, CommitCancel, Unlink, CommitDelete,
       WriteFile, CommitAttachment, UnlinkOne, CommitDetach, RequestFails
  <2>11. TablesTyped' /\ HistoryTyped'
    BY <2>5, <2>6, <2>7, <2>8, <2>9, <2>10 DEF TypeInv, TablesTyped, HistoryTyped
  <2>12. QED
    BY <2>2, <2>3, <2>11 DEF TypeInv
<1>4. ASSUME NEW d \in Slots, Deliver(d) PROVE TypeInv'
  <2>1. /\ del[d].pc # "idle" /\ del[d].issue \in Issues
        /\ UNCHANGED <<listed, files, ids, req, due, begun, asked, dropped>>
        /\ \E x : DelTyped(x) /\ del' = [del EXCEPT ![d] = x] /\ GoesTo(d, x)
    BY <1>4, DeliverType
  <2>2. /\ del' \in [Slots -> Delivered \cup {IdleDelivery}]
        /\ \A e \in Slots : DelTyped(del'[e])
    BY <2>1, OneSlot
  <2>3. faults' \in 0..MaxFaults
    BY <1>4, BoundsAssumption
       DEF Deliver, ReadIssue, Claim, Resolve, MailGoesOut, RelayRefuses, RelayDown, ReadAgain,
           Record, DeliveryFails, MayFail, TypeInv, TablesTyped
  <2>4. \/ row' = row
        \/ \E s \in Statuses : Exists(del[d].issue) /\ row' = [row EXCEPT ![del[d].issue].status = s]
    <3>1. CASE Claim(d)
      BY <3>1 DEF Claim, Statuses
    <3>2. CASE Record(d) /\ Exists(del[d].issue)
      <4>1. row[del[d].issue] \in Rows
        BY <2>1, <3>2, RowsAre
      <4>2. Written(row[del[d].issue].status, del[d].seen.status, Outcome(del[d].result))
              \in Statuses
        BY <4>1 DEF Written, Outcome, Rows, Statuses
      <4>3. QED
        BY <3>2, <4>2 DEF Record
    <3>3. CASE ~Claim(d) /\ ~(Record(d) /\ Exists(del[d].issue))
      BY <1>4, <3>3 DEF Deliver, ReadIssue, Resolve, MailGoesOut, RelayRefuses, RelayDown,
                        ReadAgain, Record, DeliveryFails
    <3>4. QED
      BY <3>1, <3>2, <3>3
  <2>5. row' \in [Issues -> Rows \cup {NoRow}]
    <3>1. ASSUME NEW s \in Statuses, Exists(del[d].issue)
          PROVE  [row[del[d].issue] EXCEPT !.status = s] \in Rows
      <4>1. row[del[d].issue] \in Rows
        BY <2>1, <3>1, RowsAre
      <4>2. QED
        BY <4>1 DEF Rows
    <3>2. QED
      BY <2>4, <3>1 DEF TypeInv, TablesTyped
  <2>6. HistoryTyped'
    <3>1. CASE MailGoesOut(d) /\ del[d].seen.groups
      <4>1. del[d].seen.text \in Texts
        BY <2>1, DeliveredNow DEF Delivered
      <4>2. QED
        BY <2>1, <3>1, <4>1 DEF MailGoesOut, TypeInv, HistoryTyped
    <3>2. CASE ~(MailGoesOut(d) /\ del[d].seen.groups)
      <4>1. UNCHANGED <<mailed, sentTexts>>
        BY <1>4, <3>2 DEF Deliver, ReadIssue, Claim, Resolve, MailGoesOut, RelayRefuses,
                          RelayDown, ReadAgain, Record, DeliveryFails
      <4>2. QED
        BY <2>1, <4>1 DEF TypeInv, HistoryTyped
    <3>3. QED
      BY <3>1, <3>2
  <2>7. QED
    BY <2>1, <2>2, <2>3, <2>5, <2>6 DEF TypeInv, TablesTyped
<1>5. ASSUME NEW i \in Issues, SendNow(i) PROVE TypeInv'
  <2>1. PICK d \in Deliveries : d \in Slots /\ del' = [del EXCEPT ![d] = Delivery(i)]
                                /\ asked' = [asked EXCEPT ![i] = @ + 1]
    BY <1>5, Queued DEF SendNow
  <2>2. TablesTyped' /\ HistoryTyped'
    BY <1>5, <2>1, BoundsAssumption DEF SendNow, TypeInv, TablesTyped, HistoryTyped
  <2>3. QED
    BY <1>5, <2>1, <2>2, OneSlot, DeliveryTyped DEF TypeInv, SendNow
<1>6. ASSUME NEW i \in Issues, Visit(i) PROVE TypeInv'
  <2>1. Loop \in Slots
    BY DEF Slots
  <2>2. TablesTyped' /\ HistoryTyped'
    BY <1>6 DEF Visit, TypeInv, TablesTyped, HistoryTyped
  <2>3. QED
    BY <1>6, <2>1, <2>2, OneSlot, DeliveryTyped DEF TypeInv, Visit
<1>7. ASSUME NEW i \in Issues, TimePasses(i) PROVE TypeInv'
  <2>1. row[i] \in Rows
    BY <1>7 DEF TimePasses, TypeInv, TablesTyped, NoRow
  <2>2. [row[i] EXCEPT !.at = "due"] \in Rows
    BY <2>1 DEF Rows, Times
  <2>3. TablesTyped' /\ HistoryTyped'
    BY <1>7, <2>2 DEF TimePasses, TypeInv, TablesTyped, HistoryTyped
  <2>4. QED
    BY <1>7, <2>3 DEF TimePasses, TypeInv
<1>8. CASE Scan
  BY <1>8 DEF Scan, TypeInv, TablesTyped, HistoryTyped
<1>9. CASE Restart
  <2>1. TablesTyped' /\ HistoryTyped'
    BY <1>9, BoundsAssumption DEF Restart, MayFail, TypeInv, TablesTyped, HistoryTyped
  <2>2. QED
    BY <1>9, <2>1, IdleTyped DEF Restart, TypeInv
<1>10. QED
  BY <1>1, <1>2, <1>3, <1>4, <1>5, <1>6, <1>7, <1>8, <1>9, NextCases

\* Type correctness.
THEOREM TypeCorrect == Spec => []TypeInv
BY InitTyped, TypeStep, PTL DEF Spec

(***************************************************************************)
(* What is in hand exists, or existed: an id is never used again, so that  *)
(* a delivery that has outlived its issue is not of a later one.           *)
(***************************************************************************)
KnownInv ==
  /\ \A i \in Issues : Exists(i) => i \in ids
  /\ \A d \in Slots : del[d].pc # "idle" => del[d].issue \in ids
  /\ due \subseteq ids
  /\ \A r \in Requests : req[r].pc = "rekey" => req[r].issue \in ids
  /\ del[Loop].pc # "idle" => del[Loop].issue \notin due

LEMMA KnownStep == TypeInv /\ KnownInv /\ [Next]_vars => KnownInv'
<1> SUFFICES ASSUME TypeInv, KnownInv, [Next]_vars PROVE KnownInv'
  OBVIOUS
<1> USE DEF bounds, tables, history
<1>0. TypeInv'
  BY TypeStep
<1>1. CASE UNCHANGED vars
  BY <1>1 DEF vars, KnownInv, Exists
<1>2. CASE Begins
  <2>1. PICK r \in Requests, q \in Handled :
          /\ ReqTyped(q) /\ req' = [req EXCEPT ![r] = q]
          /\ UNCHANGED <<tables, del, due, faults, history>> /\ q.pc \in {"check", "commit"}
    BY <1>2, Beginning
  <2>2. req'[r].pc # "rekey" /\ \A s \in Requests \ {r} : req'[s] = req[s]
    BY <2>1, OneRequest
  <2>3. QED
    BY <2>1, <2>2 DEF KnownInv, Exists
<1>3. ASSUME NEW r \in Requests, Commits(r) PROVE KnownInv'
  <2>1. req[r].pc # "idle" /\ due' = due
    BY <1>3, CommitsType
  <2>2. PICK q \in {IdleRequest} \cup Handled : ReqTyped(q) /\ req' = [req EXCEPT ![r] = q]
    BY <1>3, CommitsType
  <2>3. req'[r] = q /\ \A s \in Requests \ {r} : req'[s] = req[s]
    BY <2>2, OneRequest
  <2>4. /\ req[r] \in Handled /\ req[r].issue \in Issues /\ req[r].op \in OpKinds
    BY <2>1, HandledNow
  <2>5. \A i \in Issues : Exists(i)' => i \in ids'
    <3>1. CASE CommitNew(r)
      BY <3>1 DEF CommitNew, KnownInv, Exists, TypeInv, TablesTyped
    <3>2. CASE CommitSave(r) \/ CommitCancel(r) \/ CommitDelete(r)
      BY <2>4, <3>2 DEF CommitSave, CommitCancel, CommitDelete, KnownInv, Exists, TypeInv,
                        TablesTyped
    <3>3. QED
      BY <1>3, <3>1, <3>2 DEF Commits, Rekey, Unlink, WriteFile, CommitAttachment,
         UnlinkOne, CommitDetach, RequestFails, KnownInv, Exists
  <2>6. ids \subseteq ids'
    BY <1>3 DEF Commits, CommitSave, CommitNew, Rekey, CommitCancel, Unlink, CommitDelete,
       WriteFile, CommitAttachment, UnlinkOne, CommitDetach, RequestFails
  <2>7. req'[r].pc = "rekey" => req'[r].issue \in ids'
    <3>1. CASE End(r)
      BY <2>3, <2>2, <3>1 DEF End, IdleRequest, TypeInv
    <3>2. CASE CommitSave(r) /\ ~End(r)
      <4>1. req' = [req EXCEPT ![r] = Request(req[r].op, req[r].issue, "rekey")]
            /\ Exists(req[r].issue)
        BY <3>2 DEF CommitSave
      <4>2. req'[r] = Request(req[r].op, req[r].issue, "rekey")
        BY <4>1 DEF TypeInv
      <4>3. QED
        BY <2>4, <2>6, <4>1, <4>2, RequestTyped DEF RequestPcs, KnownInv
    <3>3. CASE CommitNew(r) /\ ~End(r)
      <4>1. PICK i \in Issues : req' = [req EXCEPT ![r] = Request(req[r].op, i, "rekey")]
                                /\ i \in ids'
        BY <3>3 DEF CommitNew
      <4>2. req'[r] = Request(req[r].op, i, "rekey")
        BY <4>1 DEF TypeInv
      <4>3. QED
        BY <2>4, <4>1, <4>2, RequestTyped DEF RequestPcs
    <3>4. CASE Goto(r, "commit")
      BY <3>4, <2>4 DEF Goto, TypeInv, Handled
    <3>5. QED
      BY <1>3, <3>1, <3>2, <3>3, <3>4 DEF Commits, Rekey, CommitCancel, Unlink, CommitDelete,
         WriteFile, CommitAttachment, UnlinkOne, CommitDetach, RequestFails
  <2>8. \A d \in Slots : del'[d] = del[d] \/ (d # Loop /\ del'[d].issue \in ids)
    <3>1. CASE Rekey(r) /\ del' # del
      <4>1. Queue(req[r].issue) /\ req[r].issue \in ids
        BY <3>1 DEF Rekey, KnownInv
      <4>2. QED
        BY <2>4, <4>1, Queued, DeliveryTyped, LoopAssumption DEF TypeInv
    <3>2. CASE del' = del
      BY <3>2
    <3>3. QED
      BY <1>3, <3>1, <3>2 DEF Commits, CommitSave, CommitNew, CommitCancel, Unlink, CommitDelete,
         WriteFile, CommitAttachment, UnlinkOne, CommitDetach, RequestFails
  <2>9. Loop \in Slots
    BY DEF Slots
  <2>10. QED
    BY <2>1, <2>3, <2>5, <2>6, <2>7, <2>8, <2>9 DEF KnownInv
<1>4. ASSUME NEW d \in Slots, Deliver(d) PROVE KnownInv'
  <2>1. /\ del[d].pc # "idle" /\ del[d].issue \in Issues
        /\ UNCHANGED <<ids, req, due>>
    BY <1>4, DeliverType
  <2>2. PICK x : DelTyped(x) /\ del' = [del EXCEPT ![d] = x] /\ GoesTo(d, x)
    BY <1>4, DeliverType
  <2>3. del'[d] = x /\ \A e \in Slots \ {d} : del'[e] = del[e]
    BY <2>2, OneSlot
  <2>4. x.pc # "idle" => x.issue = del[d].issue
    BY <2>2 DEF GoesTo, IdleDelivery
  <2>5. \A i \in Issues : Exists(i)' => Exists(i)
    BY <1>4, <2>1 DEF Deliver, ReadIssue, Claim, Resolve, MailGoesOut, RelayRefuses, RelayDown,
       ReadAgain, Record, DeliveryFails, Exists, TypeInv, TablesTyped
  <2>6. Loop \in Slots
    BY DEF Slots
  <2>7. QED
    BY <2>1, <2>3, <2>4, <2>5, <2>6 DEF KnownInv
<1>5. ASSUME NEW i \in Issues, SendNow(i) PROVE KnownInv'
  <2>1. i \in ids
    BY <1>5, RowsAre DEF SendNow, KnownInv
  <2>2. PICK d \in Deliveries : d \in Slots /\ del' = [del EXCEPT ![d] = Delivery(i)]
    BY <1>5, Queued DEF SendNow
  <2>3. /\ del'[d].issue = i /\ \A e \in Slots \ {d} : del'[e] = del[e]
    BY <2>2, OneSlot, DeliveryTyped
  <2>4. d # Loop /\ Loop \in Slots
    BY LoopAssumption DEF Slots
  <2>5. QED
    BY <1>5, <2>1, <2>2, <2>3, <2>4 DEF SendNow, KnownInv, Exists
<1>6. ASSUME NEW i \in Issues, Visit(i) PROVE KnownInv'
  <2>1. Loop \in Slots
    BY DEF Slots
  <2>2. del'[Loop].issue = i /\ \A e \in Slots \ {Loop} : del'[e] = del[e]
    BY <1>6, <2>1, OneSlot, DeliveryTyped DEF Visit
  <2>3. QED
    BY <1>6, <2>1, <2>2 DEF Visit, KnownInv, Exists
<1>7. ASSUME NEW i \in Issues, TimePasses(i) PROVE KnownInv'
  <2>1. \A j \in Issues : Exists(j)' => Exists(j)
    <3>1. Exists(i)
      BY <1>7 DEF TimePasses, Exists, NoRow
    <3>2. \A j \in Issues \ {i} : row'[j] = row[j]
      BY <1>7 DEF TimePasses, TypeInv, TablesTyped
    <3>3. QED
      BY <3>1, <3>2 DEF Exists
  <2>2. QED
    BY <1>7, <2>1 DEF TimePasses, KnownInv
<1>8. CASE Scan
  <2>1. \A i \in Issues : IsDue(i) => i \in ids
    BY RowsAre DEF IsDue, KnownInv
  <2>2. QED
    BY <1>8, <2>1 DEF Scan, KnownInv, Exists
<1>9. CASE Restart
  <2>1. \A r \in Requests : req'[r].pc = "idle"
    BY <1>9 DEF Restart, IdleRequest
  <2>2. Loop \in Slots /\ \A d \in Slots : del'[d].pc = "idle"
    BY <1>9 DEF Restart, IdleDelivery, Slots
  <2>3. QED
    BY <1>9, <2>1, <2>2 DEF Restart, KnownInv, Exists
<1>10. QED
  BY <1>1, <1>2, <1>3, <1>4, <1>5, <1>6, <1>7, <1>8, <1>9, NextCases

LEMMA InitKnown == Init => KnownInv
BY DEF Init, KnownInv, Exists, IdleRequest, IdleDelivery, Slots

(***************************************************************************)
(* Attachments: a file is on disk or its removal was requested, from when  *)
(* its row is about to be committed until it is mailed.                    *)
(***************************************************************************)
Accounted == files \cup dropped

AttachInv ==
  /\ \A a \in Attachments : listed[a] # "none" => a \in Accounted
  /\ \A r \in Requests : req[r].pc = "commit" /\ req[r].op = "attach" => req[r].file \in Accounted
  /\ \A d \in Slots : del[d].pc = "mail" => del[d].atts \subseteq Accounted
  /\ AttachmentsMailed

LEMMA InitAttach == Init => AttachInv
BY DEF Init, AttachInv, AttachmentsMailed, IdleRequest, IdleDelivery

LEMMA AttachStep == TypeInv /\ AttachInv /\ [Next]_vars => AttachInv'
<1> SUFFICES ASSUME TypeInv, AttachInv, [Next]_vars PROVE AttachInv'
  OBVIOUS
<1> USE DEF bounds, tables, history, AttachmentsMailed
<1>1. CASE UNCHANGED vars
  BY <1>1 DEF vars, AttachInv, Accounted
<1>2. CASE Begins
  <2>1. PICK r \in Requests, q \in Handled :
          /\ ReqTyped(q) /\ req' = [req EXCEPT ![r] = q]
          /\ UNCHANGED <<tables, del, due, faults, history>>
          /\ q.pc = "commit" => q.op \notin {"attach", "detach"}
    BY <1>2, Beginning
  <2>2. req'[r] = q /\ \A s \in Requests \ {r} : req'[s] = req[s]
    BY <2>1, OneRequest
  <2>3. QED
    BY <2>1, <2>2 DEF AttachInv, Accounted
<1>3. ASSUME NEW r \in Requests, Commits(r) PROVE AttachInv'
  <2>1. req[r].pc # "idle"
    BY <1>3, CommitsType
  <2>2. PICK q \in {IdleRequest} \cup Handled : ReqTyped(q) /\ req' = [req EXCEPT ![r] = q]
    BY <1>3, CommitsType
  <2>3. req'[r] = q /\ \A s \in Requests \ {r} : req'[s] = req[s]
    BY <2>2, OneRequest
  <2>4. req[r] \in Handled /\ req[r].issue \in Issues /\ req[r].op \in OpKinds
    BY <2>1, HandledNow
  <2>5. \A d \in Slots : del'[d] = del[d] \/ del'[d].pc # "mail"
    <3>1. CASE \E i \in Issues, d \in Deliveries : del' = [del EXCEPT ![d] = Delivery(i)]
      BY <3>1, DeliveryTyped DEF TypeInv
    <3>2. QED
      BY <1>3, <3>1, CommitsType
  <2>6. Accounted \subseteq Accounted'
    BY <1>3 DEF Commits, CommitSave, CommitNew, Rekey, CommitCancel, Unlink, CommitDelete,
       WriteFile, CommitAttachment, UnlinkOne, CommitDetach, RequestFails, Accounted
  <2>7. missing' = missing /\ dropped \subseteq dropped'
    BY <1>3 DEF Commits, CommitSave, CommitNew, Rekey, CommitCancel, Unlink, CommitDelete,
       WriteFile, CommitAttachment, UnlinkOne, CommitDetach, RequestFails
  <2>8. req'[r].pc = "commit" /\ req'[r].op = "attach" => req'[r].file \in Accounted'
    <3>1. CASE End(r)
      BY <3>1 DEF End, IdleRequest, TypeInv
    <3>2. CASE (CommitSave(r) \/ CommitNew(r)) /\ ~End(r)
      <4>1. PICK i \in Issues : req' = [req EXCEPT ![r] = Request(req[r].op, i, "rekey")]
        BY <2>4, <3>2 DEF CommitSave, CommitNew
      <4>2. req'[r] = Request(req[r].op, i, "rekey")
        BY <4>1 DEF TypeInv
      <4>3. QED
        BY <4>2 DEF Request
    <3>3. CASE (Unlink(r) \/ WriteFile(r) \/ UnlinkOne(r)) /\ ~End(r)
      <4>1. req'[r].op = req[r].op /\ req'[r].file = req[r].file
        BY <2>4, <3>3 DEF Unlink, WriteFile, UnlinkOne, Goto, TypeInv, Handled
      <4>2. QED
        BY <3>3, <4>1 DEF Unlink, WriteFile, UnlinkOne, Accounted
    <3>4. QED
      BY <1>3, <3>1, <3>2, <3>3 DEF Commits, Rekey, CommitCancel, CommitDelete,
         CommitAttachment, CommitDetach, RequestFails
  <2>9. \A a \in Attachments : listed'[a] # "none" => a \in Accounted'
    <3>1. CASE CommitAttachment(r)
      <4>1. req[r].file \in Accounted
        BY <3>1 DEF CommitAttachment, AttachInv
      <4>2. QED
        BY <2>6, <3>1, <4>1 DEF CommitAttachment, AttachInv, TypeInv, TablesTyped
    <3>2. CASE CommitDelete(r) \/ CommitDetach(r)
      BY <2>6, <3>2 DEF CommitDelete, CommitDetach, AttachInv, TypeInv, TablesTyped
    <3>3. QED
      BY <1>3, <2>6, <3>1, <3>2 DEF Commits, CommitSave, CommitNew, Rekey, CommitCancel,
         Unlink, WriteFile, UnlinkOne, RequestFails, AttachInv
  <2>10. QED
    BY <2>3, <2>5, <2>6, <2>7, <2>8, <2>9 DEF AttachInv
<1>4. ASSUME NEW d \in Slots, Deliver(d) PROVE AttachInv'
  <2>1. /\ del[d].pc # "idle" /\ del[d].issue \in Issues
        /\ UNCHANGED <<listed, files, req, dropped>>
    BY <1>4, DeliverType
  <2>2. PICK x : DelTyped(x) /\ del' = [del EXCEPT ![d] = x] /\ GoesTo(d, x)
    BY <1>4, DeliverType
  <2>3. del'[d] = x /\ \A e \in Slots \ {d} : del'[e] = del[e]
    BY <2>2, OneSlot
  <2>4. x.pc = "mail" => x.atts \subseteq Accounted
    BY <2>1, <2>2, IssuesAssumption
       DEF GoesTo, IdleDelivery, AttachedTo, AttachInv
  <2>5. missing' \subseteq dropped
    <3>1. CASE MailGoesOut(d)
      BY <3>1 DEF MailGoesOut, AttachInv, Accounted
    <3>2. CASE ~MailGoesOut(d)
      BY <1>4, <3>2 DEF Deliver, ReadIssue, Claim, Resolve, RelayRefuses, RelayDown, ReadAgain,
                        Record, DeliveryFails, AttachInv
    <3>3. QED
      BY <3>1, <3>2
  <2>6. QED
    BY <2>1, <2>3, <2>4, <2>5 DEF AttachInv, Accounted
<1>5. ASSUME NEW i \in Issues, SendNow(i) PROVE AttachInv'
  <2>1. PICK d \in Deliveries : d \in Slots /\ del' = [del EXCEPT ![d] = Delivery(i)]
    BY <1>5, Queued DEF SendNow
  <2>2. del'[d].pc = "read" /\ \A e \in Slots \ {d} : del'[e] = del[e]
    BY <2>1, OneSlot, DeliveryTyped
  <2>3. QED
    BY <1>5, <2>2 DEF SendNow, AttachInv, Accounted
<1>6. ASSUME NEW i \in Issues, Visit(i) PROVE AttachInv'
  <2>1. Loop \in Slots
    BY DEF Slots
  <2>2. del'[Loop].pc = "read" /\ \A e \in Slots \ {Loop} : del'[e] = del[e]
    BY <1>6, <2>1, OneSlot, DeliveryTyped DEF Visit
  <2>3. QED
    BY <1>6, <2>2 DEF Visit, AttachInv, Accounted
<1>7. CASE Scan \/ \E i \in Issues : TimePasses(i)
  BY <1>7 DEF Scan, TimePasses, AttachInv, Accounted
<1>8. CASE Restart
  <2>1. /\ \A r \in Requests : req'[r].pc = "idle"
        /\ \A d \in Slots : del'[d].pc = "idle"
    BY <1>8 DEF Restart, IdleRequest, IdleDelivery
  <2>2. QED
    BY <1>8, <2>1 DEF Restart, AttachInv, Accounted
<1>9. QED
  BY <1>1, <1>2, <1>3, <1>4, <1>5, <1>6, <1>7, <1>8, NextCases

\* A mail leaves out a listed attachment only when its removal was requested.
THEOREM AttachmentsMailedCorrect == Spec => []AttachmentsMailed
<1>1. AttachInv => AttachmentsMailed
  BY DEF AttachInv
<1>2. QED
  BY <1>1, InitAttach, AttachStep, TypeCorrect, PTL DEF Spec

(***************************************************************************)
(* "sending": whoever has claimed an issue and not recorded its result yet *)
(* will change the status when it does.                                    *)
(***************************************************************************)
Holds(d, i) ==
  /\ Claimed(d) /\ del[d].issue = i
  /\ del[d].pc = "commit" => del[d].seen.status # Outcome(del[d].result)

SendingInv ==
  \A i \in Issues : row[i].status = "sending" => i \in cut \/ \E d \in Slots : Holds(d, i)

LEMMA InitSending == Init => SendingInv
BY DEF Init, SendingInv, NoRow

\* A step that makes no issue "sending" and takes no delivery from an issue.
LEMMA NobodyLetsGo ==
  ASSUME SendingInv, cut \subseteq cut',
         \A i \in Issues : row'[i].status = "sending" => row[i].status = "sending",
         \A d \in Slots : del'[d] = del[d] \/ del[d].pc = "idle"
  PROVE  SendingInv'
<1>1. ASSUME NEW d \in Slots, NEW i \in Issues, Holds(d, i) PROVE Holds(d, i)'
  BY <1>1 DEF Holds, Claimed
<1>2. QED
  BY <1>1 DEF SendingInv

LEMMA SendingStep == TypeInv /\ SendingInv /\ [Next]_vars => SendingInv'
<1> SUFFICES ASSUME TypeInv, SendingInv, [Next]_vars PROVE SendingInv'
  OBVIOUS
<1> USE DEF bounds, tables, history
<1>1. CASE UNCHANGED vars
  BY <1>1, NobodyLetsGo DEF vars
<1>2. CASE Begins
  BY <1>2, Beginning, NobodyLetsGo
<1>3. ASSUME NEW r \in Requests, Commits(r) PROVE SendingInv'
  <2>1. req[r].pc # "idle"
    BY <1>3, CommitsType
  <2>2. req[r] \in Handled /\ req[r].issue \in Issues
    BY <2>1, HandledNow
  <2>3. \A d \in Slots : del'[d] = del[d] \/ del[d].pc = "idle"
    BY <1>3, CommitsType DEF TypeInv
  <2>4. cut' = cut
    BY <1>3 DEF Commits, CommitSave, CommitNew, Rekey, CommitCancel, Unlink, CommitDelete,
       WriteFile, CommitAttachment, UnlinkOne, CommitDetach, RequestFails
  <2>5. \A i \in Issues : row'[i].status = "sending" => row[i].status = "sending"
    <3>1. CASE CommitSave(r)
      <4>1. Saved(row[req[r].issue], req[r], r).status = "sending"
              => row[req[r].issue].status = "sending"
        BY DEF Saved, Written, NewStatus
      <4>2. QED
        BY <2>2, <3>1, <4>1 DEF CommitSave, TypeInv, TablesTyped
    <3>2. CASE CommitNew(r)
      BY <3>2 DEF CommitNew, NewStatus, TypeInv, TablesTyped
    <3>3. CASE CommitCancel(r)
      <4>1. CASE Exists(req[r].issue)
        <5>1. row[req[r].issue] \in Rows
          BY <2>2, <4>1, RowsAre
        <5>2. row'[req[r].issue].status = "draft"
              /\ \A i \in Issues \ {req[r].issue} : row'[i] = row[i]
          BY <2>2, <3>3, <4>1, <5>1 DEF CommitCancel, TypeInv, TablesTyped, Rows
        <5>3. QED
          BY <5>2
      <4>2. QED
        BY <3>3, <4>1 DEF CommitCancel
    <3>4. CASE CommitDelete(r)
      BY <2>2, <3>4 DEF CommitDelete, NoRow, TypeInv, TablesTyped
    <3>5. QED
      BY <1>3, <3>1, <3>2, <3>3, <3>4 DEF Commits, Rekey, Unlink, WriteFile, CommitAttachment,
         UnlinkOne, CommitDetach, RequestFails
  <2>6. QED
    BY <2>3, <2>4, <2>5, NobodyLetsGo
<1>4. ASSUME NEW d \in Slots, Deliver(d) PROVE SendingInv'
  <2>1. PICK i \in Issues : i = del[d].issue /\ del[d].pc # "idle"
    BY <1>4, DeliverType
  <2>2. PICK x : DelTyped(x) /\ del' = [del EXCEPT ![d] = x] /\ GoesTo(d, x)
    BY <1>4, DeliverType
  <2>3. del'[d] = x /\ \A e \in Slots \ {d} : del'[e] = del[e]
    BY <2>2, OneSlot
  <2>4. \A e \in Slots \ {d}, j \in Issues : Holds(e, j) => Holds(e, j)'
    BY <2>3 DEF Holds, Claimed
  <2>5. cut \subseteq cut'
    BY <1>4 DEF Deliver, ReadIssue, Claim, Resolve, MailGoesOut, RelayRefuses, RelayDown,
       ReadAgain, Record, DeliveryFails
  <2>6. \A j \in Issues \ {i} : row'[j] = row[j]
    BY <1>4, <2>1 DEF Deliver, ReadIssue, Claim, Resolve, MailGoesOut, RelayRefuses, RelayDown,
       ReadAgain, Record, DeliveryFails, TypeInv, TablesTyped
  <2>7. \A j \in Issues \ {i} : Holds(d, j) => FALSE
    BY <2>1 DEF Holds
  <2>8. row[i].status = "sending" /\ ~Holds(d, i) => i \in cut' \/ \E e \in Slots : Holds(e, i)'
    BY <2>4, <2>5 DEF SendingInv
  <2>9. row'[i].status = "sending" => i \in cut' \/ \E e \in Slots : Holds(e, i)'
    <3>1. CASE Claim(d) /\ ~EndDelivery(d)
      <4>1. x.pc = "resolve" /\ x.issue = i
        BY <2>1, <2>2, <3>1 DEF GoesTo, Claim, ReadIssue, Resolve, MailGoesOut, RelayRefuses,
                          RelayDown, ReadAgain
      <4>2. QED
        BY <2>3, <4>1 DEF Holds, Claimed
    <3>2. CASE Resolve(d) \/ MailGoesOut(d) \/ RelayRefuses(d) \/ RelayDown(d)
      <4>1. x.pc \in {"mail", "record"} /\ x.issue = i
        BY <2>1, <2>2, <3>2 DEF GoesTo, Claim, ReadIssue, Resolve, MailGoesOut, RelayRefuses,
                          RelayDown, ReadAgain
      <4>2. QED
        BY <2>3, <4>1 DEF Holds, Claimed
    <3>3. CASE ReadAgain(d) /\ Exists(i)
      <4>1. x.pc = "commit" /\ x.issue = i /\ x.seen.status = row[i].status /\ row' = row
        BY <2>1, <2>2, <3>3 DEF GoesTo, Claim, ReadIssue, Resolve, MailGoesOut, RelayRefuses,
                          RelayDown, ReadAgain
      <4>2. QED
        BY <2>3, <4>1 DEF Holds, Claimed, Outcome
    <3>4. CASE Record(d)
      <4>1. CASE Exists(i)
        <5>1. row'[i].status
                = Written(row[i].status, del[d].seen.status, Outcome(del[d].result))
          <6>1. row[i] \in Rows
            BY <2>1, <4>1, RowsAre
          <6>2. QED
            BY <2>1, <3>4, <4>1, <6>1 DEF Record, TypeInv, TablesTyped, Rows
        <5>2. row'[i].status = "sending" => row[i].status = "sending" /\ ~Holds(d, i)
          BY <3>4, <5>1 DEF Written, Outcome, Holds, Record
        <5>3. QED
          BY <2>8, <5>2
      <4>2. CASE ~Exists(i)
        BY <2>1, <3>4, <4>2 DEF Record, Exists, NoRow
      <4>3. QED
        BY <4>1, <4>2
    <3>5. CASE DeliveryFails(d)
      <4>1. row' = row /\ (Claimed(d) => i \in cut')
        BY <2>1, <3>5 DEF DeliveryFails
      <4>2. QED
        BY <2>1, <2>8, <4>1 DEF Holds
    <3>6. CASE ReadIssue(d) \/ (Claim(d) /\ EndDelivery(d))
      <4>1. row' = row /\ ~Holds(d, i)
        BY <2>1, <2>2, <2>3, <3>6
           DEF ReadIssue, Claim, Holds, Claimed, GoesTo, IdleDelivery, EndDelivery, DeliveryGoto
      <4>2. QED
        BY <2>8, <4>1
    <3>7. CASE ReadAgain(d) /\ ~Exists(i)
      <4>1. ~Exists(i) /\ row' = row
        BY <3>7 DEF ReadAgain
      <4>2. QED
        BY <4>1 DEF Exists, NoRow
    <3>8. QED
      BY <1>4, <3>1, <3>2, <3>3, <3>4, <3>5, <3>6, <3>7 DEF Deliver
  <2>10. ASSUME NEW j \in Issues \ {i}, row'[j].status = "sending"
         PROVE  j \in cut' \/ \E e \in Slots : Holds(e, j)'
    <3>1. j \in cut \/ \E e \in Slots \ {d} : Holds(e, j)
      BY <2>6, <2>7, <2>10 DEF SendingInv
    <3>2. QED
      BY <2>4, <2>5, <3>1
  <2>11. QED
    BY <2>9, <2>10 DEF SendingInv
<1>5. ASSUME NEW i \in Issues, SendNow(i) \/ Visit(i) PROVE SendingInv'
  <2>1. \A d \in Slots : del'[d] = del[d] \/ del[d].pc = "idle"
    BY <1>5, Queued DEF SendNow, Visit, TypeInv
  <2>2. QED
    BY <1>5, <2>1, NobodyLetsGo DEF SendNow, Visit
<1>6. ASSUME NEW i \in Issues, TimePasses(i) PROVE SendingInv'
  <2>1. row'[i].status = row[i].status
    <3>1. row[i] \in Rows
      BY <1>6 DEF TimePasses, TypeInv, TablesTyped, NoRow
    <3>2. QED
      BY <1>6, <3>1 DEF TimePasses, TypeInv, TablesTyped, Rows
  <2>2. \A j \in Issues \ {i} : row'[j] = row[j]
    BY <1>6 DEF TimePasses, TypeInv, TablesTyped
  <2>3. QED
    BY <1>6, <2>1, <2>2, NobodyLetsGo DEF TimePasses
<1>7. CASE Scan
  BY <1>7, NobodyLetsGo DEF Scan
<1>8. CASE Restart
  <2>1. \A i \in Issues, d \in Slots : Holds(d, i) => i \in cut'
    BY <1>8 DEF Holds, Restart, InHand
  <2>2. QED
    BY <1>8, <2>1 DEF Restart, SendingInv
<1>9. QED
  BY <1>1, <1>2, <1>3, <1>4, <1>5, <1>6, <1>7, <1>8, NextCases

\* An issue is "sending" only while a delivery works on it, or since one was
\* cut short.
THEOREM SendingIsInHandCorrect == Spec => []SendingIsInHand
<1>1. SendingInv => SendingIsInHand
  BY DEF SendingInv, SendingIsInHand, InHand, Holds
<1>2. QED
  BY <1>1, InitSending, SendingStep, TypeCorrect, PTL DEF Spec

(***************************************************************************)
(* "sent": unless it is excused, an issue has the text that its deliveries *)
(* have read, and once they are through, that text has reached somebody.   *)
(***************************************************************************)
Reads(d, i) == del[d].pc \in {"claim", "resolve", "mail"} /\ del[d].issue = i
Through(d, i) == /\ del[d].pc \in {"record", "commit"} /\ del[d].issue = i
                 /\ del[d].result = "ok"
Reached(i) == row[i].groups => row[i].text \in sentTexts[i]

TextOK(i) ==
  /\ \A d \in Slots : Reads(d, i) /\ Exists(i) =>
       row[i].text = del[d].seen.text /\ (row[i].groups <=> del[d].seen.groups)
  /\ \A d \in Slots : Through(d, i) /\ Exists(i) => Reached(i)
  /\ row[i].status = "sent" => Reached(i)

TextInv == \A i \in Issues \ excused : TextOK(i)

LEMMA InitText == Init => TextInv
BY DEF Init, TextInv, TextOK, Reads, Through, Exists, NoRow, IdleDelivery

\* A step that leaves the text of an issue alone, or deletes it.
LEMMA TextKept ==
  ASSUME NEW i \in Issues, TextOK(i), sentTexts[i] \subseteq sentTexts'[i],
         \/ row'[i] = NoRow
         \/ /\ Exists(i) /\ row'[i].text = row[i].text /\ (row'[i].groups <=> row[i].groups)
            /\ row'[i].status = "sent" => row[i].status = "sent",
         \A d \in Slots : \/ del'[d] = del[d]
                          \/ del'[d].pc \in {"idle", "read"}
                          \/ del'[d].issue # i
  PROVE  TextOK(i)'
<1>1. CASE row'[i] = NoRow
  BY <1>1 DEF TextOK, Exists, NoRow
<1>2. CASE row'[i] # NoRow
  <2>1. Reached(i) => Reached(i)'
    BY <1>2 DEF Reached
  <2>2. \A d \in Slots : /\ Reads(d, i)' => Reads(d, i) /\ del'[d] = del[d]
                         /\ Through(d, i)' => Through(d, i)
    BY DEF Reads, Through
  <2>3. QED
    BY <1>2, <2>1, <2>2 DEF TextOK
<1>3. QED
  BY <1>1, <1>2

LEMMA TextSame ==
  ASSUME TypeInv, TextInv, row' = row, sentTexts' = sentTexts, excused \subseteq excused',
         \A d \in Slots : del'[d] = del[d] \/ del'[d].pc \in {"idle", "read"}
  PROVE  TextInv'
<1>1. ASSUME NEW i \in Issues \ excused PROVE TextOK(i)'
  <2>1. TextOK(i)
    BY DEF TextInv
  <2>2. QED
    BY <2>1, TextKept DEF Exists
<1>2. QED
  BY <1>1 DEF TextInv

LEMMA TextStep == TypeInv /\ KnownInv /\ TextInv /\ [Next]_vars => TextInv'
<1> SUFFICES ASSUME TypeInv, KnownInv, TextInv, [Next]_vars PROVE TextInv'
  OBVIOUS
<1> USE DEF bounds, tables, history
<1>1. CASE UNCHANGED vars
  BY <1>1, TextSame DEF vars
<1>2. CASE Begins
  BY <1>2, Beginning, TextSame
<1>3. ASSUME NEW r \in Requests, Commits(r) PROVE TextInv'
  <2>1. req[r].pc # "idle"
    BY <1>3, CommitsType
  <2>2. req[r] \in Handled /\ req[r].issue \in Issues
    BY <2>1, HandledNow
  <2>3. \A d \in Slots : del'[d] = del[d] \/ del'[d].pc = "read"
    BY <1>3, CommitsType, DeliveryTyped DEF TypeInv
  <2>4. sentTexts' = sentTexts /\ excused \subseteq excused'
    BY <1>3 DEF Commits, CommitSave, CommitNew, Rekey, CommitCancel, Unlink, CommitDelete,
       WriteFile, CommitAttachment, UnlinkOne, CommitDetach, RequestFails
  <2>5. ASSUME NEW i \in Issues \ excused', row'[i] = row[i] PROVE TextOK(i)'
    BY <2>3, <2>4, <2>5, TextKept DEF TextInv, Exists
  <2>6. CASE CommitSave(r)
    <3>1. CASE ~Exists(req[r].issue)
      BY <2>3, <2>4, <2>6, <3>1, TextSame DEF CommitSave
    <3>2. CASE Exists(req[r].issue)
      <4>1. PICK i \in Issues : i = req[r].issue
        BY <2>2
      <4>2. row' = [row EXCEPT ![i] = Saved(row[i], req[r], r)]
        BY <2>6, <3>2, <4>1 DEF CommitSave
      <4>3. ASSUME i \notin excused' PROVE TextOK(i)'
        <5>1. ~UnderWay(i) /\ row[i].status = req[r].seen.status
          BY <2>6, <3>2, <4>1, <4>3 DEF CommitSave
        <5>2. row'[i] = Saved(row[i], req[r], r)
          BY <4>2 DEF TypeInv, TablesTyped
        <5>3. row'[i].status # "sent"
          BY <5>1, <5>2 DEF Saved, Written, NewStatus
        <5>4. \A d \in Slots : ~Reads(d, i)' /\ ~Through(d, i)'
          BY <2>3, <5>1 DEF UnderWay, Reads, Through
        <5>5. QED
          BY <5>3, <5>4 DEF TextOK
      <4>4. \A j \in Issues \ {i} : row'[j] = row[j]
        BY <4>2 DEF TypeInv, TablesTyped
      <4>5. QED
        BY <2>5, <4>3, <4>4 DEF TextInv
    <3>3. QED
      BY <3>1, <3>2
  <2>7. CASE CommitNew(r)
    <3>1. CASE row' = row
      BY <2>3, <2>4, <3>1, TextSame
    <3>2. CASE row' # row
      <4>1. PICK i \in Issues \ ids :
              /\ row' = [row EXCEPT ![i] =
                   [status |-> NewStatus(req[r].op),
                    at |-> NewTime("none", "none", req[r].op),
                    text |-> r, groups |-> req[r].groups]]
              /\ del' = del
        BY <2>7, <3>2 DEF CommitNew
      <4>2. row'[i].status # "sent"
        BY <4>1 DEF NewStatus, TypeInv, TablesTyped
      <4>3. \A d \in Slots : ~Reads(d, i)' /\ ~Through(d, i)'
        BY <4>1 DEF KnownInv, Reads, Through
      <4>4. TextOK(i)'
        BY <4>2, <4>3 DEF TextOK
      <4>5. \A j \in Issues \ {i} : row'[j] = row[j]
        BY <4>1 DEF TypeInv, TablesTyped
      <4>6. QED
        BY <2>5, <4>4, <4>5 DEF TextInv
    <3>3. QED
      BY <3>1, <3>2
  <2>8. CASE CommitCancel(r) /\ row' # row
    <3>1. PICK i \in Issues : i = req[r].issue
      BY <2>2
    <3>2. /\ row[i] \in Rows /\ Exists(i)
          /\ row' = [row EXCEPT ![i].status = "draft", ![i].at = "none"]
      BY <2>8, <3>1, RowsAre DEF CommitCancel
    <3>3. /\ row'[i].status = "draft" /\ row'[i].text = row[i].text
          /\ row'[i].groups = row[i].groups
      BY <3>2 DEF TypeInv, TablesTyped, Rows
    <3>4. \A j \in Issues \ {i} : row'[j] = row[j]
      BY <3>2 DEF TypeInv, TablesTyped
    <3>5. i \notin excused => TextOK(i)'
      BY <2>3, <2>4, <3>2, <3>3, TextKept DEF TextInv
    <3>6. QED
      BY <2>4, <2>5, <3>4, <3>5 DEF TextInv
  <2>9. CASE CommitDelete(r)
    <3>1. \A j \in Issues : row'[j] = row[j] \/ row'[j] = NoRow
      BY <2>9 DEF CommitDelete, TypeInv, TablesTyped
    <3>2. QED
      BY <2>3, <2>4, <2>5, <3>1, TextKept DEF TextInv
  <2>10. QED
    <3>1. CASE row' = row
      BY <2>3, <2>4, <3>1, TextSame
    <3>2. QED
      BY <1>3, <2>6, <2>7, <2>8, <2>9, <3>1 DEF Commits, Rekey, Unlink, WriteFile,
         CommitAttachment, UnlinkOne, CommitDetach, RequestFails
<1>4. ASSUME NEW d \in Slots, Deliver(d) PROVE TextInv'
  <2>1. PICK i \in Issues : i = del[d].issue /\ del[d].pc # "idle"
    BY <1>4, DeliverType
  <2>2. PICK x : DelTyped(x) /\ del' = [del EXCEPT ![d] = x] /\ GoesTo(d, x)
    BY <1>4, DeliverType
  <2>3. del'[d] = x /\ \A e \in Slots \ {d} : del'[e] = del[e]
    BY <2>2, OneSlot
  <2>4. x.pc = "idle" \/ x.issue = i
    BY <2>1, <2>2 DEF GoesTo, IdleDelivery
  <2>5. /\ \A j \in Issues \ {i} : row'[j] = row[j] /\ sentTexts'[j] = sentTexts[j]
        /\ excused \subseteq excused' /\ sentTexts[i] \subseteq sentTexts'[i]
    BY <1>4, <2>1 DEF Deliver, ReadIssue, Claim, Resolve, MailGoesOut, RelayRefuses, RelayDown,
       ReadAgain, Record, DeliveryFails, TypeInv, TablesTyped, HistoryTyped
  <2>6. ASSUME NEW j \in Issues \ excused', j # i PROVE TextOK(j)'
    <3>1. \A e \in Slots : del'[e] = del[e] \/ del'[e].pc = "idle" \/ del'[e].issue # j
      BY <2>3, <2>4, <2>6
    <3>2. TextOK(j) /\ sentTexts[j] \subseteq sentTexts'[j] /\ row'[j] = row[j]
      BY <2>5, <2>6 DEF TextInv
    <3>3. QED
      BY <3>1, <3>2, TextKept DEF Exists
  <2>7. /\ row'[i].text = row[i].text /\ row'[i].groups = row[i].groups
        /\ Exists(i)' <=> Exists(i)
        /\ \/ row'[i].status = row[i].status
           \/ row'[i].status = "sending" /\ Claim(d)
           \/ row'[i].status = Outcome(del[d].result) /\ Record(d)
    BY <1>4, <2>1, DeliverRow
  <2>8. ASSUME i \notin excused' PROVE TextOK(i)'
    <3>1. TextOK(i)
      BY <2>5, <2>8 DEF TextInv
    <3>2. Reached(i) => Reached(i)'
      BY <2>5, <2>7 DEF Reached
    <3>3. \A e \in Slots \ {d} :
            /\ Reads(e, i)' /\ Exists(i)' =>
                 row'[i].text = del'[e].seen.text /\ (row'[i].groups <=> del'[e].seen.groups)
            /\ Through(e, i)' /\ Exists(i)' => Reached(i)'
      BY <2>3, <2>7, <3>1, <3>2 DEF TextOK, Reads, Through
    <3>4. Reads(d, i)' /\ Exists(i)' =>
            row'[i].text = x.seen.text /\ (row'[i].groups <=> x.seen.groups)
      <4>1. CASE ReadIssue(d) /\ x.seen = row[i]
        BY <2>7, <4>1
      <4>2. CASE Reads(d, i) /\ x.seen = del[d].seen
        BY <2>7, <3>1, <4>2 DEF TextOK
      <4>3. QED
        BY <2>1, <2>2, <2>3, <4>1, <4>2 DEF GoesTo, Reads, Claim, Resolve, IdleDelivery
    <3>5. Through(d, i)' /\ Exists(i)' => Reached(i)'
      <4>1. CASE Through(d, i)
        BY <2>7, <3>1, <3>2, <4>1 DEF TextOK
      <4>2. CASE MailGoesOut(d) /\ Exists(i)
        <5>1. row[i].text = del[d].seen.text /\ (row[i].groups <=> del[d].seen.groups)
          BY <2>1, <3>1, <4>2 DEF TextOK, Reads, MailGoesOut
        <5>2. del[d].seen.groups => del[d].seen.text \in sentTexts'[i]
          BY <2>1, <4>2 DEF MailGoesOut, TypeInv, HistoryTyped
        <5>3. QED
          BY <2>7, <5>1, <5>2 DEF Reached
      <4>3. CASE RelayRefuses(d)
        BY <2>1, <2>8, <4>3 DEF RelayRefuses
      <4>4. QED
        BY <2>1, <2>2, <2>3, <2>7, <4>1, <4>2, <4>3
           DEF GoesTo, Through, ReadAgain, IdleDelivery
    <3>6. row'[i].status = "sent" => Reached(i)'
      <4>1. CASE row'[i].status = row[i].status
        BY <3>1, <3>2, <4>1 DEF TextOK
      <4>2. CASE row'[i].status = Outcome(del[d].result) /\ Record(d) /\ Exists(i)
        <5>1. del[d].result = "down" \/ Through(d, i)
          BY <2>1, <4>2, DeliveredNow DEF Record, Through
        <5>2. QED
          BY <3>1, <3>2, <4>2, <5>1 DEF TextOK, Outcome
      <4>3. QED
        BY <2>1, <2>7, <4>1, <4>2 DEF Record, Exists
    <3>7. QED
      BY <2>3, <3>3, <3>4, <3>5, <3>6 DEF TextOK
  <2>9. QED
    BY <2>6, <2>8 DEF TextInv
<1>5. ASSUME NEW i \in Issues, SendNow(i) \/ Visit(i) PROVE TextInv'
  <2>1. \A d \in Slots : del'[d] = del[d] \/ del'[d].pc = "read"
    BY <1>5, Queued, DeliveryTyped DEF SendNow, Visit, TypeInv
  <2>2. QED
    BY <1>5, <2>1, TextSame DEF SendNow, Visit
<1>6. ASSUME NEW i \in Issues, TimePasses(i) PROVE TextInv'
  <2>1. Exists(i) /\ row[i] \in Rows
    BY <1>6, RowsAre DEF TimePasses, Exists, NoRow
  <2>2. /\ row'[i].status = row[i].status /\ row'[i].text = row[i].text
        /\ row'[i].groups = row[i].groups
    BY <1>6, <2>1 DEF TimePasses, TypeInv, TablesTyped, Rows
  <2>3. \A j \in Issues \ {i} : row'[j] = row[j]
    BY <1>6 DEF TimePasses, TypeInv, TablesTyped
  <2>4. del' = del /\ sentTexts' = sentTexts /\ excused' = excused
    BY <1>6 DEF TimePasses
  <2>5. \A j \in Issues \ excused : TextOK(j)'
    BY <2>1, <2>2, <2>3, <2>4, TextKept DEF TextInv, Exists
  <2>6. QED
    BY <2>4, <2>5 DEF TextInv
<1>7. CASE Scan
  BY <1>7, TextSame DEF Scan
<1>8. CASE Restart
  BY <1>8, TextSame DEF Restart, IdleDelivery
<1>9. QED
  BY <1>1, <1>2, <1>3, <1>4, <1>5, <1>6, <1>7, <1>8, NextCases

\* "sent" is said only of a text that has reached somebody, but for the issues
\* that are excused.
THEOREM SentWasMailedCorrect == Spec => []SentWasMailed
<1>1. TextInv => SentWasMailed
  BY DEF TextInv, TextOK, Reached, SentWasMailed
<1>2. Init => TypeInv /\ KnownInv /\ TextInv
  BY InitTyped, InitKnown, InitText
<1>3. TypeInv /\ KnownInv /\ TextInv /\ [Next]_vars => (TypeInv /\ KnownInv /\ TextInv)'
  BY TypeStep, KnownStep, TextStep
<1>4. QED
  BY <1>1, <1>2, <1>3, PTL DEF Spec

(***************************************************************************)
(* What is asked for: every delivery before its mail was asked for by a    *)
(* request of its own, and the loop, which mails what is scheduled, due or *)
(* in its hands, by one more.                                              *)
(***************************************************************************)
Before == {"read", "claim", "resolve", "mail"}
Pending(i) == {d \in Deliveries : del[d].pc \in Before /\ del[d].issue = i}
LoopMails(i) == del[Loop].pc \in {"resolve", "mail"} /\ del[Loop].issue = i
LoopMay(i) == \/ row[i].status = "scheduled" \/ i \in due
              \/ del[Loop].pc \in {"read", "claim"} /\ del[Loop].issue = i
One(P) == IF P THEN 1 ELSE 0

Asked(i) ==
  /\ IsFiniteSet(Pending(i))
  /\ mailed[i] + Cardinality(Pending(i)) + One(LoopMails(i)) + One(LoopMay(i)) <= asked[i]

AskInv == \A i \in Issues : Asked(i)

LEMMA InitAsk == Init => AskInv
<1> SUFFICES ASSUME Init, NEW i \in Issues PROVE Asked(i)
  BY DEF AskInv
<1>1. Pending(i) = {} /\ ~LoopMails(i) /\ ~LoopMay(i)
  BY DEF Init, Pending, Before, LoopMails, LoopMay, IdleDelivery, NoRow, Slots
<1>2. QED
  BY <1>1, FS_EmptySet DEF Asked, One, Init

\* Nothing new is owed for i.
LEMMA OwesNoMore ==
  ASSUME TypeInv, TypeInv', NEW i \in Issues, Asked(i),
         mailed'[i] = mailed[i], asked[i] <= asked'[i], Pending(i)' \subseteq Pending(i),
         LoopMay(i)' => LoopMay(i),
         LoopMails(i)' => LoopMails(i) \/ (LoopMay(i) /\ ~LoopMay(i)')
  PROVE  Asked(i)'
<1>1. IsFiniteSet(Pending(i)') /\ Cardinality(Pending(i)') <= Cardinality(Pending(i))
      /\ Cardinality(Pending(i)) \in Nat /\ Cardinality(Pending(i)') \in Nat
  BY FS_Subset, FS_CardinalityType DEF Asked
<1>2. mailed[i] \in Nat /\ asked[i] \in Nat /\ asked'[i] \in Nat
  BY DEF TypeInv, HistoryTyped
<1>3. One(LoopMails(i)') + One(LoopMay(i)') <= One(LoopMails(i)) + One(LoopMay(i))
  BY DEF One
<1>4. QED
  BY <1>1, <1>2, <1>3 DEF Asked, One

\* One request more, for a delivery or for the loop.
LEMMA OwesOneMore ==
  ASSUME TypeInv, TypeInv', NEW i \in Issues, Asked(i),
         mailed'[i] = mailed[i], asked'[i] = asked[i] + 1, LoopMails(i)' => LoopMails(i),
         \/ Pending(i)' \subseteq Pending(i)
         \/ /\ LoopMay(i)' => LoopMay(i)
            /\ \E d \in Deliveries : Pending(i)' = Pending(i) \cup {d}
  PROVE  Asked(i)'
<1>1. Cardinality(Pending(i)) \in Nat /\ mailed[i] \in Nat /\ asked[i] \in Nat
  BY FS_CardinalityType DEF Asked, TypeInv, HistoryTyped
<1>2. CASE Pending(i)' \subseteq Pending(i)
  <2>1. /\ IsFiniteSet(Pending(i)') /\ Cardinality(Pending(i)') <= Cardinality(Pending(i))
        /\ Cardinality(Pending(i)') \in Nat
    BY <1>2, FS_Subset, FS_CardinalityType DEF Asked
  <2>2. QED
    BY <1>1, <2>1 DEF Asked, One
<1>3. ASSUME NEW d \in Deliveries, Pending(i)' = Pending(i) \cup {d}, LoopMay(i)' => LoopMay(i)
      PROVE  Asked(i)'
  <2>1. /\ IsFiniteSet(Pending(i)') /\ Cardinality(Pending(i)') <= Cardinality(Pending(i)) + 1
        /\ Cardinality(Pending(i)') \in Nat
    <3>1. /\ IsFiniteSet(Pending(i) \cup {d})
          /\ \/ Cardinality(Pending(i) \cup {d}) = Cardinality(Pending(i))
             \/ Cardinality(Pending(i) \cup {d}) = Cardinality(Pending(i)) + 1
      BY FS_AddElement DEF Asked
    <3>2. QED
      BY <1>1, <1>3, <3>1
  <2>2. QED
    BY <1>1, <1>3, <2>1 DEF Asked, One
<1>4. QED
  BY <1>2, <1>3

\* A mail, of a delivery or of the loop.
LEMMA OwesOneLess ==
  ASSUME TypeInv, TypeInv', NEW i \in Issues, Asked(i),
         mailed'[i] = mailed[i] + 1, asked'[i] = asked[i], LoopMay(i)' => LoopMay(i),
         \/ /\ LoopMails(i)' => LoopMails(i)
            /\ \E d \in Pending(i) : Pending(i)' = Pending(i) \ {d}
         \/ LoopMails(i) /\ ~LoopMails(i)' /\ Pending(i)' = Pending(i)
  PROVE  Asked(i)'
<1>1. Cardinality(Pending(i)) \in Nat /\ mailed[i] \in Nat /\ asked[i] \in Nat
  BY FS_CardinalityType DEF Asked, TypeInv, HistoryTyped
<1>2. CASE LoopMails(i) /\ ~LoopMails(i)' /\ Pending(i)' = Pending(i)
  BY <1>1, <1>2 DEF Asked, One
<1>3. ASSUME NEW d \in Pending(i), Pending(i)' = Pending(i) \ {d}, LoopMails(i)' => LoopMails(i)
      PROVE  Asked(i)'
  <2>1. /\ IsFiniteSet(Pending(i)') /\ Cardinality(Pending(i)') = Cardinality(Pending(i)) - 1
    BY <1>3, FS_RemoveElement DEF Asked
  <2>2. QED
    BY <1>1, <1>3, <2>1 DEF Asked, One
<1>4. QED
  BY <1>2, <1>3

\* A step that neither mails nor makes anything scheduled, and in which no
\* delivery begins.
LEMMA NothingNewIsOwed ==
  ASSUME TypeInv, TypeInv', AskInv, mailed' = mailed, due' \subseteq due,
         \A i \in Issues : asked[i] <= asked'[i],
         \A i \in Issues : row'[i].status = "scheduled" => row[i].status = "scheduled",
         \A d \in Slots : del'[d] = del[d] \/ del'[d].pc \notin Before
  PROVE  AskInv'
<1> SUFFICES ASSUME NEW i \in Issues PROVE Asked(i)'
  BY DEF AskInv
<1>1. Pending(i)' \subseteq Pending(i)
  BY DEF Pending, Slots
<1>2. Loop \in Slots
  BY DEF Slots
<1>3. LoopMay(i)' => LoopMay(i)
  BY <1>2 DEF LoopMay, Before
<1>4. LoopMails(i)' => LoopMails(i)
  BY <1>2 DEF LoopMails, Before
<1>5. QED
  BY <1>1, <1>3, <1>4, OwesNoMore DEF AskInv

\* A delivery is asked for and queued.
LEMMA QueueIsOwed ==
  ASSUME TypeInv, TypeInv', AskInv, NEW i \in Issues, Queue(i), mailed' = mailed, due' = due,
         row' = row
  PROVE  AskInv'
<1>1. PICK d \in Deliveries : /\ d \in Slots /\ del[d].pc = "idle"
                              /\ del' = [del EXCEPT ![d] = Delivery(i)]
                              /\ asked' = [asked EXCEPT ![i] = @ + 1]
  BY Queued
<1>2. /\ del'[d].pc = "read" /\ del'[d].issue = i
      /\ \A e \in Slots \ {d} : del'[e] = del[e]
  BY <1>1, OneSlot, DeliveryTyped
<1>3. d # Loop /\ Loop \in Slots /\ Deliveries \subseteq Slots
  BY LoopAssumption DEF Slots
<1>4. \A j \in Issues : (LoopMay(j)' <=> LoopMay(j)) /\ (LoopMails(j)' <=> LoopMails(j))
  BY <1>2, <1>3 DEF LoopMay, LoopMails
<1>5. Asked(i)'
  <2>1. Pending(i)' = Pending(i) \cup {d}
    BY <1>1, <1>2, <1>3 DEF Pending, Before
  <2>2. asked'[i] = asked[i] + 1
    BY <1>1 DEF TypeInv, HistoryTyped
  <2>3. QED
    BY <1>4, <2>1, <2>2, OwesOneMore DEF AskInv
<1>6. ASSUME NEW j \in Issues \ {i} PROVE Asked(j)'
  <2>1. Pending(j)' \subseteq Pending(j)
    BY <1>2, <1>3 DEF Pending
  <2>2. asked'[j] = asked[j] /\ asked[j] \in Nat
    BY <1>1 DEF TypeInv, HistoryTyped
  <2>3. QED
    BY <1>4, <2>1, <2>2, OwesNoMore DEF AskInv
<1>7. QED
  BY <1>5, <1>6 DEF AskInv

\* A save may schedule an issue, and then asks for it.
LEMMA ScheduleIsOwed ==
  ASSUME TypeInv, TypeInv', AskInv, NEW i \in Issues, NEW op, Asks(op, i),
         mailed' = mailed, due' = due, del' = del,
         op # "schedule" => (row'[i].status = "scheduled" => row[i].status = "scheduled"),
         \A j \in Issues \ {i} : row'[j] = row[j]
  PROVE  AskInv'
<1>1. \A j \in Issues : Pending(j)' = Pending(j) /\ (LoopMails(j)' <=> LoopMails(j))
  BY DEF Pending, LoopMails
<1>2. \A j \in Issues \ {i} : LoopMay(j)' <=> LoopMay(j)
  BY DEF LoopMay
<1>3. ASSUME NEW j \in Issues \ {i} PROVE Asked(j)'
  <2>1. asked'[j] = asked[j] /\ asked[j] \in Nat
    BY DEF Asks, TypeInv, HistoryTyped
  <2>2. QED
    BY <1>1, <1>2, <2>1, OwesNoMore DEF AskInv
<1>4. Asked(i)'
  <2>1. CASE op = "schedule"
    <3>1. asked'[i] = asked[i] + 1
      BY <2>1 DEF Asks, TypeInv, HistoryTyped
    <3>2. QED
      BY <1>1, <3>1, OwesOneMore DEF AskInv
  <2>2. CASE op # "schedule"
    <3>1. asked'[i] = asked[i] /\ asked[i] \in Nat
      BY <2>2 DEF Asks, TypeInv, HistoryTyped
    <3>2. LoopMay(i)' => LoopMay(i)
      BY <2>2 DEF LoopMay
    <3>3. QED
      BY <1>1, <3>1, <3>2, OwesNoMore DEF AskInv
  <2>3. QED
    BY <2>1, <2>2
<1>5. QED
  BY <1>3, <1>4 DEF AskInv

LEMMA DeliveryIsOwed ==
  ASSUME TypeInv, TypeInv', KnownInv, AskInv, NEW d \in Slots, Deliver(d)
  PROVE  AskInv'
<1> USE DEF bounds, tables, history
<1>1. PICK i \in Issues : i = del[d].issue /\ del[d].pc # "idle"
  BY DeliverType
<1>2. PICK x : DelTyped(x) /\ del' = [del EXCEPT ![d] = x] /\ GoesTo(d, x)
  BY DeliverType
<1>3. del'[d] = x /\ \A e \in Slots \ {d} : del'[e] = del[e]
  BY <1>2, OneSlot
<1>4. x.pc = "idle" \/ x.issue = i
  BY <1>1, <1>2 DEF GoesTo, IdleDelivery
<1>5. due' = due /\ asked' = asked /\ Loop \in Slots /\ Deliveries \subseteq Slots
  BY DeliverType DEF Slots
<1>6. /\ x.pc \in Before => del[d].pc \in Before
      /\ x.pc \in {"read", "claim"} => del[d].pc \in {"read", "claim"}
      /\ x.pc \in {"resolve", "mail"} => \/ del[d].pc \in {"resolve", "mail"}
                                         \/ Claim(d) /\ Exists(i) /\ del[d].pc = "claim"
  BY <1>1, <1>2 DEF GoesTo, ReadIssue, Claim, Resolve, IdleDelivery, Before
<1>7. row'[i].status = "scheduled" => row[i].status = "scheduled"
  BY <1>1, DeliverRow DEF Outcome
<1>8. \A j \in Issues \ {i} : row'[j] = row[j] /\ mailed'[j] = mailed[j]
  BY <1>1 DEF Deliver, ReadIssue, Claim, Resolve, MailGoesOut, RelayRefuses, RelayDown,
     ReadAgain, Record, DeliveryFails, TypeInv, TablesTyped, HistoryTyped
<1>9. ASSUME NEW j \in Issues \ {i} PROVE Asked(j)'
  <2>1. Pending(j)' \subseteq Pending(j)
    BY <1>3, <1>4, <1>5 DEF Pending, Before
  <2>2. (LoopMay(j)' => LoopMay(j)) /\ (LoopMails(j)' => LoopMails(j))
    BY <1>3, <1>4, <1>5, <1>8 DEF LoopMay, LoopMails
  <2>3. asked[j] \in Nat
    BY DEF TypeInv, HistoryTyped
  <2>4. QED
    BY <1>5, <1>8, <2>1, <2>2, <2>3, OwesNoMore DEF AskInv
<1>10. Pending(i)' \subseteq Pending(i)
  BY <1>1, <1>3, <1>4, <1>5, <1>6 DEF Pending
<1>11. LoopMay(i)' => LoopMay(i)
  BY <1>1, <1>3, <1>5, <1>6, <1>7 DEF LoopMay
<1>12. ASSUME MailGoesOut(d) /\ del[d].seen.groups PROVE Asked(i)'
  <2>1. mailed'[i] = mailed[i] + 1
    BY <1>1, <1>12 DEF MailGoesOut, TypeInv, HistoryTyped
  <2>2. x.pc = "record" /\ del[d].pc = "mail"
    BY <1>2, <1>12 DEF GoesTo, MailGoesOut, ReadIssue, Claim, Resolve, RelayRefuses, RelayDown,
                       ReadAgain
  <2>3. CASE d = Loop
    <3>1. LoopMails(i) /\ ~LoopMails(i)'
      BY <1>1, <1>3, <2>2, <2>3 DEF LoopMails
    <3>2. Pending(i)' = Pending(i)
      BY <1>3, <1>5, <2>3, LoopAssumption DEF Pending
    <3>3. QED
      BY <1>5, <1>11, <2>1, <3>1, <3>2, OwesOneLess DEF AskInv
  <2>4. CASE d # Loop
    <3>1. d \in Pending(i) /\ Pending(i)' = Pending(i) \ {d}
      BY <1>1, <1>3, <1>5, <2>2, <2>4 DEF Pending, Before, Slots
    <3>2. LoopMails(i)' => LoopMails(i)
      BY <1>3, <1>5, <2>4 DEF LoopMails
    <3>3. QED
      BY <1>5, <1>11, <2>1, <3>1, <3>2, OwesOneLess DEF AskInv
  <2>5. QED
    BY <2>3, <2>4
<1>13. ASSUME ~(MailGoesOut(d) /\ del[d].seen.groups) PROVE Asked(i)'
  <2>1. mailed' = mailed
    BY <1>13 DEF Deliver, ReadIssue, Claim, Resolve, MailGoesOut, RelayRefuses, RelayDown,
       ReadAgain, Record, DeliveryFails
  <2>2. LoopMails(i)' => LoopMails(i) \/ (LoopMay(i) /\ ~LoopMay(i)')
    <3>1. CASE d # Loop
      BY <1>3, <1>5, <3>1 DEF LoopMails
    <3>2. CASE d = Loop /\ del[d].pc \in {"resolve", "mail"}
      BY <1>1, <3>2 DEF LoopMails
    <3>3. CASE d = Loop /\ Claim(d) /\ Exists(i) /\ del[d].pc = "claim"
      <4>1. row'[i].status = "sending"
        <5>1. row[i] \in Rows
          BY <3>3, RowsAre
        <5>2. QED
          BY <1>1, <3>3, <5>1 DEF Claim, TypeInv, TablesTyped, Rows
      <4>2. i \notin due /\ LoopMay(i)
        BY <1>1, <3>3 DEF KnownInv, LoopMay
      <4>3. LoopMails(i)' => ~LoopMay(i)'
        BY <1>5, <4>1, <4>2 DEF LoopMails, LoopMay
      <4>4. QED
        BY <4>2, <4>3
    <3>4. QED
      BY <1>3, <1>6, <3>1, <3>2, <3>3 DEF LoopMails
  <2>3. asked[i] \in Nat
    BY DEF TypeInv, HistoryTyped
  <2>4. QED
    BY <1>5, <1>10, <1>11, <2>1, <2>2, <2>3, OwesNoMore DEF AskInv
<1>14. QED
  BY <1>9, <1>12, <1>13 DEF AskInv

LEMMA AskStep == TypeInv /\ KnownInv /\ AskInv /\ [Next]_vars => AskInv'
<1> SUFFICES ASSUME TypeInv, KnownInv, AskInv, [Next]_vars PROVE AskInv'
  OBVIOUS
<1> USE DEF bounds, tables, history
<1>0. TypeInv' /\ \A i \in Issues : asked[i] \in Nat
  BY TypeStep DEF TypeInv, HistoryTyped
<1>1. CASE UNCHANGED vars
  BY <1>0, <1>1, NothingNewIsOwed DEF vars
<1>2. CASE Begins
  BY <1>0, <1>2, Beginning, NothingNewIsOwed
<1>3. ASSUME NEW r \in Requests, Commits(r) PROVE AskInv'
  <2>1. req[r].pc # "idle" /\ due' = due
    BY <1>3, CommitsType
  <2>2. req[r].issue \in Issues
    BY <2>1, HandledNow
  <2>3. mailed' = mailed
    BY <1>3 DEF Commits, CommitSave, CommitNew, Rekey, CommitCancel, Unlink, CommitDelete,
       WriteFile, CommitAttachment, UnlinkOne, CommitDetach, RequestFails
  <2>4. CASE CommitSave(r) /\ Exists(req[r].issue)
    <3>1. PICK i \in Issues : i = req[r].issue
      BY <2>2
    <3>2. /\ row' = [row EXCEPT ![i] = Saved(row[i], req[r], r)]
          /\ Asks(req[r].op, i) /\ del' = del
      BY <2>4, <3>1 DEF CommitSave
    <3>3. row'[i] = Saved(row[i], req[r], r) /\ \A j \in Issues \ {i} : row'[j] = row[j]
      BY <3>2 DEF TypeInv, TablesTyped
    <3>4. req[r].op # "schedule" =>
            (row'[i].status = "scheduled" => row[i].status = "scheduled")
      BY <3>3 DEF Saved, Written, NewStatus
    <3>5. QED
      BY <1>0, <2>1, <2>3, <3>2, <3>3, <3>4, ScheduleIsOwed
  <2>5. CASE CommitNew(r) /\ row' # row
    <3>1. PICK i \in Issues \ ids :
            /\ row' = [row EXCEPT ![i] =
                 [status |-> NewStatus(req[r].op),
                  at |-> NewTime("none", "none", req[r].op),
                  text |-> r, groups |-> req[r].groups]]
            /\ Asks(req[r].op, i) /\ del' = del
      BY <2>5 DEF CommitNew
    <3>2. /\ row'[i].status = NewStatus(req[r].op)
          /\ \A j \in Issues \ {i} : row'[j] = row[j]
      BY <3>1 DEF TypeInv, TablesTyped
    <3>3. req[r].op # "schedule" =>
            (row'[i].status = "scheduled" => row[i].status = "scheduled")
      BY <3>2 DEF NewStatus
    <3>4. i \in Issues /\ Asks(req[r].op, i) /\ del' = del
          /\ \A j \in Issues \ {i} : row'[j] = row[j]
      BY <3>1, <3>2
    <3>5. QED
      BY <1>0, <2>1, <2>3, <3>3, <3>4, ScheduleIsOwed
  <2>6. CASE Rekey(r) /\ req[r].op = "send"
    <3>1. PICK i \in Issues : i = req[r].issue
      BY <2>2
    <3>2. Queue(i) /\ row' = row
      BY <2>6, <3>1 DEF Rekey
    <3>3. QED
      BY <1>0, <2>1, <2>3, <3>2, QueueIsOwed
  <2>7. CASE CommitCancel(r) \/ CommitDelete(r)
    <3>1. del' = del /\ asked' = asked
      BY <2>7 DEF CommitCancel, CommitDelete
    <3>2. \A j \in Issues : row'[j].status = "scheduled" => row[j].status = "scheduled"
      <4>1. CASE CommitDelete(r)
        BY <4>1 DEF CommitDelete, NoRow, TypeInv, TablesTyped
      <4>2. CASE CommitCancel(r) /\ Exists(req[r].issue)
        <5>1. row[req[r].issue] \in Rows
          BY <2>2, <4>2, RowsAre
        <5>2. /\ row'[req[r].issue].status = "draft"
              /\ \A j \in Issues \ {req[r].issue} : row'[j] = row[j]
          BY <2>2, <4>2, <5>1 DEF CommitCancel, TypeInv, TablesTyped, Rows
        <5>3. QED
          BY <5>2
      <4>3. CASE CommitCancel(r) /\ ~Exists(req[r].issue)
        BY <4>3 DEF CommitCancel
      <4>4. QED
        BY <2>7, <4>1, <4>2, <4>3
    <3>3. QED
      BY <1>0, <2>1, <2>3, <3>1, <3>2, NothingNewIsOwed
  <2>8. CASE row' = row /\ del' = del /\ asked' = asked
    BY <1>0, <2>1, <2>3, <2>8, NothingNewIsOwed
  <2>9. QED
    <3>1. CASE CommitNew(r) /\ row' = row
      <4>1. del' = del
        BY <3>1 DEF CommitNew
      <4>2. ASSUME NEW i \in Issues, Asks(req[r].op, i) PROVE AskInv'
        BY <1>0, <2>1, <2>3, <3>1, <4>1, <4>2, ScheduleIsOwed
      <4>3. CASE asked' = asked
        BY <2>8, <3>1, <4>1, <4>3
      <4>4. QED
        BY <3>1, <4>2, <4>3 DEF CommitNew
    <3>2. QED
      BY <1>3, <2>4, <2>5, <2>6, <2>7, <2>8, <3>1 DEF Commits, CommitSave, Rekey, Unlink,
         WriteFile, CommitAttachment, UnlinkOne, CommitDetach, RequestFails
<1>4. ASSUME NEW d \in Slots, Deliver(d) PROVE AskInv'
  BY <1>0, <1>4, DeliveryIsOwed
<1>5. ASSUME NEW i \in Issues, SendNow(i) PROVE AskInv'
  BY <1>0, <1>5, QueueIsOwed DEF SendNow
<1>6. ASSUME NEW i \in Issues, Visit(i) PROVE AskInv'
  <2>1. Loop \in Slots /\ Deliveries \subseteq Slots
    BY DEF Slots
  <2>2. /\ del'[Loop].pc = "read" /\ del'[Loop].issue = i
        /\ \A e \in Slots \ {Loop} : del'[e] = del[e]
    BY <1>6, <2>1, OneSlot, DeliveryTyped DEF Visit
  <2>3. \A j \in Issues : Pending(j)' \subseteq Pending(j) /\ ~LoopMails(j)'
    BY <2>1, <2>2, LoopAssumption DEF Pending, LoopMails
  <2>4. \A j \in Issues : LoopMay(j)' => LoopMay(j)
    BY <1>6, <2>2 DEF Visit, LoopMay
  <2>5. \A j \in Issues : Asked(j)'
    BY <1>0, <1>6, <2>3, <2>4, OwesNoMore DEF Visit, AskInv
  <2>6. QED
    BY <2>5 DEF AskInv
<1>7. ASSUME NEW i \in Issues, TimePasses(i) PROVE AskInv'
  <2>1. row[i] \in Rows
    BY <1>7 DEF TimePasses, TypeInv, TablesTyped, NoRow
  <2>2. row'[i].status = row[i].status /\ \A j \in Issues \ {i} : row'[j] = row[j]
    BY <1>7, <2>1 DEF TimePasses, TypeInv, TablesTyped, Rows
  <2>3. QED
    BY <1>0, <1>7, <2>2, NothingNewIsOwed DEF TimePasses
<1>8. CASE Scan
  <2>1. \A j \in Issues : /\ Pending(j)' = Pending(j) /\ (LoopMails(j)' => LoopMails(j))
                          /\ LoopMay(j)' => LoopMay(j)
    BY <1>8 DEF Scan, Pending, LoopMails, LoopMay, IsDue
  <2>2. \A j \in Issues : Asked(j)'
    BY <1>0, <1>8, <2>1, OwesNoMore DEF Scan, AskInv
  <2>3. QED
    BY <2>2 DEF AskInv
<1>9. CASE Restart
  BY <1>0, <1>9, NothingNewIsOwed DEF Restart, IdleDelivery, Before
<1>10. QED
  BY <1>1, <1>2, <1>3, <1>4, <1>5, <1>6, <1>7, <1>8, <1>9, NextCases

\* An issue reaches its readers at most as often as it was asked for.
THEOREM NoUnaskedMailCorrect == Spec => []NoUnaskedMail
<1>1. TypeInv /\ AskInv => NoUnaskedMail
  <2> SUFFICES ASSUME TypeInv, AskInv, NEW i \in Issues PROVE mailed[i] <= asked[i]
    BY DEF NoUnaskedMail
  <2>1. Asked(i) /\ mailed[i] \in Nat /\ asked[i] \in Nat
    BY DEF AskInv, TypeInv, HistoryTyped
  <2>2. Cardinality(Pending(i)) \in Nat
    BY <2>1, FS_CardinalityType DEF Asked
  <2>3. QED
    BY <2>1, <2>2 DEF Asked, One
<1>2. Init => TypeInv /\ KnownInv /\ AskInv
  BY InitTyped, InitKnown, InitAsk
<1>3. TypeInv /\ KnownInv /\ AskInv /\ [Next]_vars => (TypeInv /\ KnownInv /\ AskInv)'
  BY TypeStep, KnownStep, AskStep
<1>4. QED
  BY <1>1, <1>2, <1>3, PTL DEF Spec

\* Issues are in order: what the run of Newsletter checks, all of it.
THEOREM IssuesAreInOrderCorrect == Spec => []IssuesAreInOrder
<1>1. Spec => []TypeOK
  BY TypeCorrect, TypeInvTypeOK, PTL
<1>2. TypeOK /\ SendingIsInHand /\ NoUnaskedMail /\ SentWasMailed /\ AttachmentsMailed
        => IssuesAreInOrder
  BY DEF IssuesAreInOrder
<1>3. QED
  BY <1>1, <1>2, SendingIsInHandCorrect, NoUnaskedMailCorrect, SentWasMailedCorrect,
     AttachmentsMailedCorrect, PTL
=============================================================================
