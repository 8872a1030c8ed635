-------------------------- MODULE MCMembers_proofs --------------------------
(***************************************************************************)
(* Theorems about the pages about a person (MCMembers): the card on the    *)
(* recruiting board, for any number of operations on it, the shops, the    *)
(* training record and the record of attendance; and about how a member    *)
(* leaves (MCSeparation).                                                  *)
(***************************************************************************)
EXTENDS MCMembers, MCSeparation, SequenceTheorems, FiniteSetTheorems, WellFoundedInduction, TLAPS

-----------------------------------------------------------------------------
(***************************************************************************)
(* Where the card has been.                                                *)
(***************************************************************************)
Under(s) == {k \in Stages : k < s}

\* An operation under way puts the card into a stack whose stages before it the
\* card has been in; a hold has read one of them.
ReqInv(r) ==
  req[r].pc # "idle" =>
    /\ req[r].to \in Stages => Under(req[r].to) \subseteq visited
    /\ req[r].op = "hold" => req[r].pc # "fetch" /\ req[r].seen.stack \in visited
    /\ req[r].pc = "comments" => req[r].op = "resume"

\* Whoever still has the card's ETag has the card as it is.
FreshInv(r) ==
  r \in fresh /\ req[r].pc = "put" /\ req[r].op = "annotate" => req[r].seen = card

BoardInv ==
  /\ TypeOK
  /\ 11 \in visited /\ \A s \in visited : Under(s) \subseteq visited
  /\ \A i \in 1..Len(holds) : holds[i] \in visited
  /\ card.stack \in visited \cup {OnHold}
  /\ \A r \in Requests : ReqInv(r) /\ FreshInv(r)

\* The stages up to one are those before it and itself.
LEMMA StagesUpTo == \A s \in Stages : 11..s = Under(s) \cup {s}
BY DEF Under, Stages

\* A card that is edited is a card.
LEMMA EditedType ==
  ASSUME NEW op \in OpKinds, NEW c \in CardRecords
  PROVE  Edited(op, c) \in CardRecords
BY DEF Edited, CardRecords

\* An operation that goes on, or takes up what it reads, is one still.
LEMMA RequestedType ==
  ASSUME NEW q \in Requested, NEW p \in Pcs
  PROVE  /\ [q EXCEPT !.pc = p] \in Requested
         /\ \A c \in CardRecords : [q EXCEPT !.pc = p, !.seen = c] \in Requested
         /\ \A s \in Stacks : [q EXCEPT !.pc = p, !.to = s] \in Requested
         /\ \A n \in [total : Nat, load : Nat] : [q EXCEPT !.pc = p, !.row = n] \in Requested
BY DEF Requested

LEMMA IdleType == Idle \in Requested /\ \A s \in Stages : NewCard(s) \in CardRecords
BY DEF Idle, Requested, Pcs, OpKinds, NewCard, CardRecords, Stacks, Stages, OnHold

\* A step of one operation that leaves the card alone, and keeps its own part of
\* the invariant, keeps the invariant.
LEMMA OneMoves ==
  ASSUME BoardInv, NEW r \in Requests, NEW q \in Requested, req' = [req EXCEPT ![r] = q],
         UNCHANGED <<card, holds, visited, heldFrom>>,
         member' \in {"none", "recruit", "active"}, total' \in Nat, load' \in Nat,
         fresh' \in {fresh, fresh \cup {r}}, begun' \in 0..MaxOps,
         q.pc # "idle" =>
           /\ q.to \in Stages => Under(q.to) \subseteq visited
           /\ q.op = "hold" => q.pc # "fetch" /\ q.seen.stack \in visited
           /\ q.pc = "comments" => q.op = "resume",
         q.pc = "put" /\ q.op = "annotate" => q.seen = card
  PROVE  BoardInv'
<1>1. req' \in [Requests -> Requested] /\ fresh' \subseteq Requests
  BY DEF BoardInv, TypeOK
<1>2. TypeOK'
  BY <1>1 DEF BoardInv, TypeOK
<1>3. req'[r] = q /\ \A o \in Requests \ {r} : req'[o] = req[o]
  BY DEF BoardInv, TypeOK
<1>4. \A o \in Requests : ReqInv(o)'
  BY <1>3 DEF BoardInv, ReqInv
<1>5. \A o \in Requests : FreshInv(o)'
  BY <1>3 DEF BoardInv, FreshInv
<1>6. QED
  BY <1>2, <1>4, <1>5 DEF BoardInv

\* A PUT moves the card into a stage whose predecessors it has been in, and every
\* copy read before is out of date.
LEMMA PutMoves ==
  ASSUME BoardInv, NEW r \in Requests, NEW p \in Pcs, req[r].pc = "put", Store(r),
         req' = [req EXCEPT ![r].pc = p], UNCHANGED <<dbVars, begun>>, p \notin {"fetch", "comments"}
  PROVE  BoardInv'
<1> DEFINE t == req[r].to
<1>1. req[r] \in Requested /\ t \in Stacks /\ card \in CardRecords
  BY DEF BoardInv, TypeOK, Requested
<1>2. Edited(req[r].op, req[r].seen) \in CardRecords
  BY <1>1, EditedType DEF Requested
<1>3. card' \in CardRecords /\ card'.stack = t
  BY <1>1, <1>2 DEF Store, Stored, CardRecords
<1> DEFINE q == [req[r] EXCEPT !.pc = p]
<1>4. /\ q \in Requested /\ req' = [req EXCEPT ![r] = q]
      /\ q.op = req[r].op /\ q.to = t /\ q.seen = req[r].seen /\ q.pc = p
  BY <1>1 DEF BoardInv, TypeOK, Requested
<1> HIDE DEF q
<1>5. req' \in [Requests -> Requested]
  BY <1>4 DEF BoardInv, TypeOK
<1>6. /\ req'[r].op = req[r].op /\ req'[r].to = t /\ req'[r].seen = req[r].seen
      /\ req'[r].pc = p /\ \A o \in Requests \ {r} : req'[o] = req[o]
  BY <1>4 DEF BoardInv, TypeOK
<1>7. visited' = visited \cup ({t} \cap Stages) /\ fresh' = {} /\ UNCHANGED holds
  BY DEF Store
<1>8. t \in Stages => Under(t) \subseteq visited
  BY DEF BoardInv, ReqInv
<1>9. heldFrom' \in Stacks
  BY <1>1 DEF Store, BoardInv, TypeOK, CardRecords
<1>10. TypeOK'
  BY <1>3, <1>5, <1>7, <1>9 DEF BoardInv, TypeOK, dbVars
<1>11. \A o \in Requests : ReqInv(o)'
  BY <1>6, <1>7 DEF BoardInv, ReqInv
<1>12. \A o \in Requests : FreshInv(o)'
  BY <1>7 DEF FreshInv
<1> HIDE DEF t
<1>13. 11 \in visited' /\ \A s \in visited' : Under(s) \subseteq visited'
  BY <1>7, <1>8 DEF BoardInv
<1>14. card'.stack \in visited' \cup {OnHold}
  BY <1>1, <1>3, <1>7 DEF Stacks
<1>15. \A i \in 1..Len(holds') : holds'[i] \in visited'
  BY <1>7 DEF BoardInv
<1>16. QED
  BY <1>10, <1>11, <1>12, <1>13, <1>14, <1>15 DEF BoardInv

LEMMA BoardInit == Init => BoardInv
<1> SUFFICES ASSUME Init PROVE BoardInv
  OBVIOUS
<1>1. PICK s \in Starts : card = NewCard(s) /\ visited = 11..s
  BY DEF Init
<1>2. s \in Stages /\ visited = Under(s) \cup {s}
  BY <1>1, StartsAssumption, StagesUpTo
<1>3. TypeOK
  BY <1>1, <1>2, IdleType, MaxOpsAssumption DEF Init, TypeOK, Stacks, Stages, Under
<1>4. 11 \in visited /\ \A k \in visited : Under(k) \subseteq visited
  BY <1>1, <1>2 DEF Under, Stages
<1>5. card.stack \in visited
  BY <1>1, <1>2 DEF NewCard
<1>6. \A r \in Requests : ReqInv(r) /\ FreshInv(r)
  BY DEF Init, ReqInv, FreshInv, Idle
<1>7. QED
  BY <1>3, <1>4, <1>5, <1>6 DEF BoardInv, Init

LEMMA BoardStays == BoardInv /\ [Next]_vars => BoardInv'
<1> SUFFICES ASSUME BoardInv, [Next]_vars PROVE BoardInv'
  OBVIOUS
<1> USE DEF deckVars, dbVars
<1>1. /\ member \in {"none", "recruit", "active"} /\ total \in Nat /\ load \in Nat
      /\ begun \in 0..MaxOps /\ card \in CardRecords
      /\ \A r \in Requests : req[r] \in Requested /\ req[r].to \in Stacks
      /\ req \in [Requests -> Requested] /\ holds \in Seq(Stacks)
  BY DEF BoardInv, TypeOK, Requested
<1>2. ASSUME NEW r \in Requests, NEW op \in OpKinds, Look(r, op) PROVE BoardInv'
  <2> DEFINE p == CASE op = "resume" -> "comments"
                    [] op \in DaemonOps \cup {"annotate"} -> "fetch"
                    [] OTHER -> "put"
  <2> DEFINE t == Target(op, card.stack)
  <2> DEFINE q == [pc |-> p, op |-> op, seen |-> card, to |-> t, row |-> Idle.row]
  <2>1. p \in Pcs /\ (op = "hold" => p = "put") /\ (op = "annotate" => p = "fetch")
        /\ (p = "comments" => op = "resume")
    BY DEF Pcs, DaemonOps
  <2>2. card.stack \in Stacks /\ Applies(op, card.stack)
    BY <1>1, <1>2 DEF Look, CardRecords
  <2>3. t \in Stacks /\ (t \in Stages => t = card.stack \/ t = card.stack + 1 \/ (op = "complete" /\ t = 16))
    BY <2>2 DEF Target, Applies, Stacks, Stages, OnHold
  <2>4. t \in Stages => Under(t) \subseteq visited
    <3>1. CASE t = card.stack
      BY <3>1, StagesUpTo DEF BoardInv, Stages, OnHold
    <3>2. CASE t # card.stack /\ t \in Stages
      <4>1. card.stack \in Stages /\ t = card.stack + 1
        BY <2>2, <2>3, <3>2 DEF Target, Applies, Stacks, Stages, OnHold
      <4>2. Under(t) \subseteq Under(card.stack) \cup {card.stack}
        BY <4>1 DEF Under, Stages
      <4>3. card.stack \in visited
        BY <4>1 DEF BoardInv, Stages, OnHold
      <4>4. QED
        BY <4>2, <4>3 DEF BoardInv
    <3>3. QED
      BY <3>1, <3>2
  <2>5. op = "hold" => card.stack \in visited
    BY <2>2 DEF Applies, BoardInv
  <2> HIDE DEF p, t
  <2>6. q \in Requested
    BY <1>1, <2>1, <2>3 DEF Requested, Idle
  <2>7. req' = [req EXCEPT ![r] = q] /\ begun' \in 0..MaxOps
    BY <1>1, <1>2, MaxOpsAssumption DEF Look, p, t
  <2>8. q.pc = p /\ q.op = op /\ q.to = t /\ q.seen = card
    OBVIOUS
  <2> HIDE DEF q
  <2>9. UNCHANGED <<card, holds, visited, heldFrom, member, total, load, fresh>>
    BY <1>2 DEF Look
  <2>10. /\ q.to \in Stages => Under(q.to) \subseteq visited
         /\ q.op = "hold" => q.pc # "fetch" /\ q.seen.stack \in visited
         /\ q.pc = "comments" => q.op = "resume"
         /\ q.pc = "put" /\ q.op = "annotate" => q.seen = card
    BY <2>1, <2>4, <2>5, <2>8
  <2>11. QED
    BY <1>1, <2>6, <2>7, <2>9, <2>10, OneMoves
<1>3. ASSUME NEW r \in Requests, Fetch(r) PROVE BoardInv'
  <2> DEFINE q == [req[r] EXCEPT !.pc = "put", !.seen = card]
  <2>1. q \in Requested /\ req' = [req EXCEPT ![r] = q]
    BY <1>1, <1>3, RequestedType DEF Fetch, Pcs
  <2>2. q.pc = "put" /\ q.op = req[r].op /\ q.to = req[r].to /\ q.seen = card
    BY <1>1 DEF Requested
  <2>3. ReqInv(r) /\ req[r].pc = "fetch"
    BY <1>3 DEF Fetch, BoardInv
  <2> HIDE DEF q
  <2>4. QED
    BY <1>1, <1>3, <2>1, <2>2, <2>3, OneMoves DEF Fetch, ReqInv
<1>4. ASSUME NEW r \in Requests, NEW s \in Stacks, req[r].pc = "comments", s \in visited \cup {OnHold},
             req' = [req EXCEPT ![r].pc = "put", ![r].to = s],
             UNCHANGED <<deckVars, dbVars, begun>>
      PROVE  BoardInv'
  <2> DEFINE q == [req[r] EXCEPT !.pc = "put", !.to = s]
  <2>1. q \in Requested /\ req' = [req EXCEPT ![r] = q]
    BY <1>1, <1>4, RequestedType DEF Pcs
  <2>2. q.pc = "put" /\ q.op = req[r].op /\ q.to = s /\ q.seen = req[r].seen
    BY <1>1 DEF Requested
  <2>3. ReqInv(r) /\ (s \in Stages => Under(s) \subseteq visited)
    BY <1>4 DEF BoardInv, Stages, OnHold
  <2>4. req[r].op = "resume"
    BY <1>4, <2>3 DEF ReqInv
  <2> HIDE DEF q
  <2>5. QED
    BY <1>1, <1>4, <2>1, <2>2, <2>3, <2>4, OneMoves DEF ReqInv
<1>5. ASSUME NEW r \in Requests, ReadComments(r) PROVE BoardInv'
  <2>1. ReturnStack \in Stacks /\ ReturnStack \in visited
    BY <1>1 DEF ReturnStack, BoardInv, Stacks, Stages
  <2>2. QED
    BY <1>4, <1>5, <2>1 DEF ReadComments
<1>6. ASSUME NEW r \in Requests, CommentsRefused(r) PROVE BoardInv'
  <2>1. 11 \in Stacks /\ 11 \in visited
    BY DEF BoardInv, Stacks, Stages
  <2>2. QED
    BY <1>4, <1>6, <2>1 DEF CommentsRefused
<1>7. ASSUME NEW r \in Requests, Put(r) \/ PutAnswerLost(r) PROVE BoardInv'
  <2>1. PICK p \in {"comment", "readRecruiter", "idle", "put"} : req' = [req EXCEPT ![r].pc = p]
    BY <1>7 DEF Put, PutAnswerLost, AfterPut
  <2>2. QED
    BY <1>7, <2>1, PutMoves DEF Put, PutAnswerLost, Pcs
<1>8. ASSUME NEW r \in Requests, NEW p \in {"readRecruiter", "idle", "writeRecruiter"},
             req[r].pc # "idle", req' = [req EXCEPT ![r].pc = p],
             UNCHANGED <<card, fresh, visited, heldFrom, begun>>,
             member' \in {"none", "recruit", "active"}, total' \in Nat, load' \in Nat,
             UNCHANGED holds
      PROVE  BoardInv'
  <2> DEFINE q == [req[r] EXCEPT !.pc = p]
  <2>1. q \in Requested /\ req' = [req EXCEPT ![r] = q]
    BY <1>1, <1>8, RequestedType DEF Pcs
  <2>2. q.pc = p /\ q.op = req[r].op /\ q.to = req[r].to /\ q.seen = req[r].seen
    BY <1>1 DEF Requested
  <2>3. ReqInv(r)
    BY DEF BoardInv
  <2> HIDE DEF q
  <2>4. QED
    BY <1>1, <1>8, <2>1, <2>2, <2>3, OneMoves DEF ReqInv
<1>9. ASSUME NEW r \in Requests, DeclineRefused(r) \/ Abandon(r) \/ CommentRefused(r) PROVE BoardInv'
  <2>1. PICK p \in {"readRecruiter", "idle"} : req' = [req EXCEPT ![r].pc = p]
    BY <1>9 DEF DeclineRefused, Abandon, CommentRefused, AfterComment
  <2>2. req[r].pc # "idle" /\ UNCHANGED <<deckVars, dbVars, begun>>
    BY <1>9 DEF DeclineRefused, Abandon, CommentRefused
  <2>3. QED
    BY <1>1, <1>8, <2>1, <2>2
<1>10. ASSUME NEW r \in Requests, PostComment(r) PROVE BoardInv'
  <2>1. PICK p \in {"readRecruiter", "idle"} : req' = [req EXCEPT ![r].pc = p]
    BY <1>10 DEF PostComment, AfterComment
  <2>2. CASE req[r].op # "hold"
    BY <1>1, <1>8, <1>10, <2>1, <2>2 DEF PostComment
  <2>3. CASE req[r].op = "hold"
    <3> DEFINE s == req[r].seen.stack
    <3>1. s \in visited /\ s \in Stacks
      BY <1>1, <1>10, <2>3 DEF BoardInv, ReqInv, PostComment, Requested, CardRecords
    <3>2. holds' = <<s>> \o holds
      BY <1>10, <2>3 DEF PostComment
    <3> HIDE DEF s
    <3>3. holds' \in Seq(Stacks) /\ \A i \in 1..Len(holds') : holds'[i] \in visited
      BY <1>1, <3>1, <3>2 DEF BoardInv
    <3> DEFINE q == [req[r] EXCEPT !.pc = p]
    <3>4. q \in Requested /\ req' = [req EXCEPT ![r] = q]
      BY <1>1, <2>1, RequestedType DEF Pcs
    <3>5. q.pc = p /\ q.op = req[r].op /\ q.to = req[r].to /\ q.seen = req[r].seen
      BY <1>1 DEF Requested
    <3> HIDE DEF q
    <3>6. req' \in [Requests -> Requested] /\ req'[r] = q
          /\ \A o \in Requests \ {r} : req'[o] = req[o]
      BY <1>1, <3>4
    <3>7. UNCHANGED <<card, fresh, visited, heldFrom, dbVars, begun>> /\ req[r].pc # "idle"
      BY <1>10 DEF PostComment
    <3>8. TypeOK'
      BY <3>3, <3>6, <3>7 DEF BoardInv, TypeOK
    <3>9. \A o \in Requests : ReqInv(o)' /\ FreshInv(o)'
      BY <2>1, <3>5, <3>6, <3>7 DEF BoardInv, ReqInv, FreshInv
    <3>10. QED
      BY <3>3, <3>7, <3>8, <3>9 DEF BoardInv
  <2>4. QED
    BY <2>2, <2>3
<1>11. ASSUME NEW r \in Requests, ReadRecruiter(r) PROVE BoardInv'
  <2>1. PICK p \in {"writeRecruiter", "idle"} :
          req' = [req EXCEPT ![r].pc = p, ![r].row = [total |-> total, load |-> load]]
    BY <1>11 DEF ReadRecruiter
  <2> DEFINE n == [total |-> total, load |-> load]
  <2> DEFINE q == [req[r] EXCEPT !.pc = p, !.row = n]
  <2>2. n \in [total : Nat, load : Nat]
    BY <1>1
  <2>3. q \in Requested /\ req' = [req EXCEPT ![r] = q]
    BY <1>1, <2>1, <2>2, RequestedType DEF Pcs
  <2>4. q.pc = p /\ q.op = req[r].op /\ q.to = req[r].to /\ q.seen = req[r].seen
    BY <1>1 DEF Requested
  <2>5. ReqInv(r) /\ req[r].pc # "idle" /\ UNCHANGED <<deckVars, dbVars, begun>>
    BY <1>11 DEF BoardInv, ReadRecruiter
  <2> HIDE DEF q
  <2>6. QED
    BY <1>1, <2>3, <2>4, <2>5, OneMoves DEF ReqInv
<1>12. ASSUME NEW r \in Requests, WriteRecruiter(r) PROVE BoardInv'
  <2>1. req[r].row.total \in Nat /\ req[r].row.load \in Nat
    BY <1>1 DEF Requested
  <2>2. total' \in Nat /\ load' \in Nat
    BY <1>1, <1>12, <2>1 DEF WriteRecruiter
  <2>3. QED
    BY <1>1, <1>8, <1>12, <2>2 DEF WriteRecruiter
<1>13. CASE Patch
  <2>1. member' = "active" /\ UNCHANGED <<deckVars, total, load, req, begun>>
    BY <1>13 DEF Patch
  <2>2. QED
    BY <2>1 DEF BoardInv, TypeOK, ReqInv, FreshInv
<1>14. CASE UNCHANGED vars
  BY <1>14 DEF vars, BoardInv, TypeOK, ReqInv, FreshInv
<1>15. QED
  BY <1>2, <1>3, <1>5, <1>6, <1>7, <1>9, <1>10, <1>11, <1>12, <1>13, <1>14 DEF Next

\* The invariant says what the property does.
LEMMA InOrder == BoardInv => TypeOK /\ NoStageSkipped
<1> SUFFICES ASSUME BoardInv PROVE NoStageSkipped
  BY DEF BoardInv
<1>1. visited \subseteq Stages
  BY DEF BoardInv, TypeOK
<1>2. \A s \in visited : 11..s \subseteq visited
  BY <1>1, StagesUpTo DEF BoardInv
<1>3. QED
  BY <1>2 DEF BoardInv, NoStageSkipped

\* The card reaches no stage before those that precede it, however the operations
\* on it interleave, fail or are repeated.
THEOREM NoStageSkippedCorrect == Spec => []NoStageSkipped
BY BoardInit, BoardStays, InOrder, PTL DEF Spec

-----------------------------------------------------------------------------
(***************************************************************************)
(* The note of the webhook.                                                *)
(***************************************************************************)
\* A PUT of the webhook is accepted only for a copy that is up to date, and changes
\* nothing but the note and the stack.
LEMMA NoteOnly == BoardInv => AnnotationKept
<1> SUFFICES ASSUME BoardInv, NEW r \in Requests, Put(r) \/ PutAnswerLost(r),
                    req[r].op = "annotate"
             PROVE  card' = [card EXCEPT !.auto = TRUE, !.stack = card'.stack]
  BY DEF AnnotationKept
<1>1. r \in fresh /\ req[r].pc = "put" /\ card' = Stored(r)
  BY DEF Put, PutAnswerLost, Accepted, Store
<1>2. req[r].seen = card
  BY <1>1 DEF BoardInv, FreshInv
<1>3. card \in CardRecords
  BY DEF BoardInv, TypeOK
<1>4. Edited("annotate", card) = [card EXCEPT !.auto = TRUE]
  BY DEF Edited
<1>5. card' = [card EXCEPT !.auto = TRUE, !.stack = req[r].to]
  BY <1>1, <1>2, <1>3, <1>4 DEF Stored, CardRecords
<1>6. card'.stack = req[r].to
  BY <1>3, <1>5 DEF CardRecords
<1>7. QED
  BY <1>5, <1>6

-----------------------------------------------------------------------------
(***************************************************************************)
(* The same of the pages about a person, of which the board is one.        *)
(***************************************************************************)
PageInv == page = "board" => BoardInv

LEMMA PageInit == MembersInit => PageInv
BY BoardInit DEF MembersInit, PageInv

LEMMA PageStays == PageInv /\ [MembersNext]_allVars => PageInv'
<1> SUFFICES ASSUME PageInv, [MembersNext]_allVars, page' = "board" PROVE BoardInv'
  BY DEF PageInv
<1>1. page = "board" /\ [Next]_vars
  BY DEF MembersNext, BoardStep, ShopStep, TrainingStep, AttendanceStep, allVars, boardVars, vars, deckVars,
         dbVars
<1>2. QED
  BY <1>1, BoardStays DEF PageInv

\* The board is in order for any number of operations on the card.
THEOREM BoardIsInOrderCorrect == MembersSpec => []BoardIsInOrder
<1>1. PageInv => BoardIsInOrder
  BY InOrder DEF PageInv, BoardIsInOrder
<1>2. QED
  BY <1>1, PageInit, PageStays, PTL DEF MembersSpec

\* The webhook's note never undoes what was written while the webhook was working.
THEOREM AnnotationKeepsEditsCorrect == MembersSpec => AnnotationKeepsEdits
<1>1. PageInv => (page = "board" => AnnotationKept)
  BY NoteOnly DEF PageInv
<1>2. QED
  BY <1>1, PageInit, PageStays, PTL DEF MembersSpec, AnnotationKeepsEdits

-----------------------------------------------------------------------------
(***************************************************************************)
(* The shops: ShopInv is inductive (see Shops).                            *)
(***************************************************************************)
LEMMA PageKept == [MembersNext]_allVars => page' = page
BY DEF MembersNext, BoardStep, ShopStep, TrainingStep, AttendanceStep, allVars

LEMMA OnlyShops == page = "shops" /\ MembersInit => Shops!Init
BY DEF MembersInit

LEMMA OnlyShopSteps == page = "shops" /\ [MembersNext]_allVars => [Shops!Next]_(Shops!vars)
BY DEF MembersNext, BoardStep, ShopStep, TrainingStep, AttendanceStep, allVars, shopVars, Shops!vars

\* The shops of billets, before and after one is joined.
LEMMA HeldFacts ==
  ASSUME NEW b \in SUBSET Shops!Billets
  PROVE  /\ Shops!Held(b) \subseteq ShopKeys /\ Shops!LeadOf(b) \subseteq Shops!Held(b)
         /\ \A s \in ShopKeys : /\ Shops!Joined(b, s) \in SUBSET Shops!Billets
                                /\ Shops!Held(Shops!Joined(b, s)) = Shops!Held(b) \cup {s}
<1>1. Shops!Held(b) \subseteq ShopKeys /\ Shops!LeadOf(b) \subseteq Shops!Held(b)
  BY DEF Shops!Held, Shops!LeadOf, Shops!Billets
<1>2. ASSUME NEW s \in ShopKeys
      PROVE  /\ Shops!Joined(b, s) \in SUBSET Shops!Billets
             /\ Shops!Held(Shops!Joined(b, s)) = Shops!Held(b) \cup {s}
  <2>1. PICK x \in Shops!Billets : x = Shops!SignupBillet(s) /\ x[1] = s
    <3>1. PICK k \in Shops!Kinds : Shops!SignupBillet(s) = <<s, k>>
      BY DEF Shops!SignupBillet, Shops!Kinds
    <3>2. QED
      BY <3>1 DEF Shops!Billets
  <2>2. Shops!Held(b \cup {x}) = Shops!Held(b) \cup {s}
    BY <2>1 DEF Shops!Held
  <2>3. QED
    BY <2>1, <2>2 DEF Shops!Joined
<1>3. QED
  BY <1>1, <1>2

\* The groups that the sync leaves of those that were right before.
LEMMA SyncFacts ==
  ASSUME NEW old \in SUBSET Shops!Billets, NEW new \in SUBSET Shops!Billets
  PROVE  /\ Shops!Synced(old, new, Shops!Held(old)) = Shops!Held(new)
         /\ Shops!LeadsSynced(old, new, Shops!LeadOf(old)) = Shops!LeadOf(new)
         /\ \A g \in SUBSET ShopKeys : /\ Shops!Synced(old, new, g) \subseteq ShopKeys
                                       /\ Shops!LeadsSynced(old, new, g) \subseteq ShopKeys
<1>1. /\ Shops!Held(old) \subseteq ShopKeys /\ Shops!LeadOf(old) \subseteq Shops!Held(old)
      /\ Shops!Held(new) \subseteq ShopKeys /\ Shops!LeadOf(new) \subseteq Shops!Held(new)
  BY HeldFacts
<1>2. QED
  BY <1>1 DEF Shops!Synced, Shops!LeadsSynced

LEMMA ShopsInit == Shops!Sound /\ Shops!Init => Shops!ShopInv
<1> SUFFICES ASSUME Shops!Sound, Shops!Init PROVE Shops!ShopInv
  OBVIOUS
<1> USE DEF Shops!Init
<1>1. Shops!Held(Start) \subseteq ShopKeys /\ Shops!LeadOf(Start) \subseteq ShopKeys
  BY HeldFacts DEF Shops!Sound
<1>2. Shops!TypeInv
  BY <1>1 DEF Shops!Sound, Shops!TypeInv, Shops!TypeOK, Shops!NoPage
<1>3. \A n \in Asks : ask[n].status = "none"
  BY DEF Shops!NoAsk
<1>4. Shops!AcceptedIsHeld /\ Shops!HeldHasGround /\ Shops!OneAskPending
  BY <1>3 DEF Shops!AcceptedIsHeld, Shops!HeldHasGround, Shops!OneAskPending
<1>5. \A r \in Shops!Slots :
        Shops!SignupInv(req[r]) /\ Shops!DecisionInv(req[r]) /\ Shops!BilletsInv(req[r])
  BY DEF Shops!SignupInv, Shops!DecisionInv, Shops!BilletsInv, Shops!NoRequest
<1>6. QED
  BY <1>2, <1>4, <1>5 DEF Shops!ShopInv, Shops!CrossInv, Shops!NoRequest

\* A step of one request leaves the grounds and the other requests as they are.
LEMMA GroundKept ==
  ASSUME crossed \subseteq crossed', given \subseteq given',
         \A n \in Asks : ask'[n] = ask[n] \/ ask[n].status # "accepted" \/ ask[n].shop \in crossed
  PROVE  \A s : Shops!Ground(s) => Shops!Ground(s)'
<1> SUFFICES ASSUME NEW s, Shops!Ground(s), s \notin given' \cup crossed'
             PROVE  \E n \in Asks : ask'[n] = [shop |-> s, status |-> "accepted"]
  BY DEF Shops!Ground
<1>1. PICK n \in Asks : ask[n] = [shop |-> s, status |-> "accepted"]
  BY DEF Shops!Ground
<1>2. ask'[n] = ask[n]
  BY <1>1
<1>3. QED
  BY <1>1, <1>2

LEMMA OtherRequests ==
  ASSUME Shops!Sound, Shops!ShopInv, NEW r \in Shops!Slots, NEW t \in Shops!Slots \ {r},
         req'[t] = req[t], crossed \subseteq crossed', given \subseteq given',
         \A n \in Asks :
           \/ ask'[n] = ask[n]
           \/ ask[n].status = "none" /\ ask'[n].shop \in req[r].on
           \/ /\ ask[n].status = "pending" \/ ask[n].shop \in crossed
              /\ ask[n].shop \in req[r].on /\ ask'[n].shop = ask[n].shop
              /\ ask'[n].status \in {"accepted", "declined"},
         \/ billets' = billets /\ base' = base /\ leads' = leads
         \/ "billets" \in req[r].on \cup crossed'
  PROVE  Shops!SignupInv(req[t])' /\ Shops!DecisionInv(req[t])' /\ Shops!BilletsInv(req[t])'
<1>1. /\ req[r].on \cap req[t].on \subseteq crossed
      /\ Shops!SignupInv(req[t]) /\ Shops!DecisionInv(req[t]) /\ Shops!BilletsInv(req[t])
      /\ req[t] \in Shops!Underway \cup {Shops!NoRequest}
  BY DEF Shops!ShopInv, Shops!CrossInv, Shops!TypeInv
<1>2. \A s : Shops!Ground(s) => Shops!Ground(s)'
  BY GroundKept
<1>3. ASSUME NEW s \in req[t].on \ crossed', Shops!AlreadyPending(s)' PROVE Shops!AlreadyPending(s)
  <2>1. PICK n \in Asks : ask'[n] = [shop |-> s, status |-> "pending"]
    BY <1>3 DEF Shops!AlreadyPending
  <2>2. s \notin req[r].on
    BY <1>1, <1>3
  <2>3. ask'[n] = ask[n]
    BY <2>1, <2>2
  <2>4. QED
    BY <2>1, <2>3 DEF Shops!AlreadyPending
<1>4. Shops!SignupInv(req[t])'
  <2>1. SUFFICES ASSUME req[t].pc = "file", NEW s \in req[t].on, s \notin crossed',
                        Shops!AlreadyPending(s)'
                 PROVE  FALSE
    BY DEF Shops!SignupInv
  <2>2. Shops!AlreadyPending(s)
    BY <1>3, <2>1
  <2>3. QED
    BY <1>1, <2>1, <2>2 DEF Shops!SignupInv
<1>5. Shops!DecisionInv(req[t])'
  <2>1. SUFFICES ASSUME req[t].pc \notin {"none", "file"} PROVE Shops!DecisionInv(req[t])'
    BY DEF Shops!DecisionInv
  <2>2. \A s \in Shops!Held(req[t].old) : Shops!Ground(s)'
    BY <1>1, <1>2, <2>1 DEF Shops!DecisionInv
  <2>3. ASSUME req[t].op \in {"accept", "decline"}
        PROVE  /\ ask'[req[t].n].shop = ask[req[t].n].shop /\ ask'[req[t].n].status # "none"
               /\ ask[req[t].n].shop \in crossed' \/ ask'[req[t].n].status = "pending"
    <3>1. /\ req[t].n \in Asks /\ ask[req[t].n].shop \in req[t].on /\ ask[req[t].n].status # "none"
          /\ ask[req[t].n].shop \in crossed \/ ask[req[t].n].status = "pending"
      <4>1. PICK q \in Shops!Underway : q = req[t]
        BY <1>1, <2>1 DEF Shops!NoRequest
      <4>2. q.n \in Asks
        BY <2>1, <2>3, <4>1 DEF Shops!Underway, Shops!Signups, Shops!Accepts, Shops!Declines, Shops!Edits
      <4>3. QED
        BY <1>1, <2>1, <2>3, <4>1, <4>2 DEF Shops!DecisionInv
    <3>2. QED
      BY <1>1, <3>1
  <2>4. QED
    BY <1>1, <2>1, <2>2, <2>3 DEF Shops!DecisionInv
<1>6. Shops!BilletsInv(req[t])'
  <2>1. SUFFICES ASSUME "billets" \in req[t].on, "billets" \notin crossed' PROVE Shops!BilletsInv(req[t])'
    BY DEF Shops!BilletsInv
  <2>2. billets' = billets /\ base' = base /\ leads' = leads
    BY <1>1, <2>1
  <2>3. QED
    BY <1>1, <2>1, <2>2 DEF Shops!BilletsInv
<1>7. QED
  BY <1>4, <1>5, <1>6

\* The properties of ShopInv that are about the asks.
LEMMA ShopAsks ==
  ASSUME Shops!ShopInv, UNCHANGED <<billets, ask>>, crossed \subseteq crossed',
         given \subseteq given', dropped \subseteq dropped'
  PROVE  Shops!AcceptedIsHeld' /\ Shops!HeldHasGround' /\ Shops!OneAskPending'
BY DEF Shops!ShopInv, Shops!AcceptedIsHeld, Shops!HeldHasGround, Shops!OneAskPending, Shops!Held

LEMMA ShopBegins ==
  ASSUME Shops!Sound, Shops!ShopInv, NEW p \in Shops!Underway, Shops!Begin(p),
         UNCHANGED <<billets, base, leads, ask, faults, given, dropped, untouched>>,
         editor'.shown \subseteq Shops!Billets,
         Shops!SignupInv(p), Shops!DecisionInv(p),
         "billets" \in p.on => p.old = billets /\ (p.pc = "sync" \/ p.new = billets)
  PROVE  Shops!ShopInv'
<1>1. begun' \in 0..ShopRequests
  BY DEF Shops!Begin, Shops!ShopInv, Shops!TypeInv, Shops!TypeOK, Shops!Sound
<1>2. PICK r \in Shops!Slots :
        /\ req[r] = Shops!NoRequest
        /\ \A s \in Shops!Slots : req'[s] = IF s = r THEN p ELSE req[s]
        /\ req' \in [Shops!Slots -> Shops!Underway \cup {Shops!NoRequest}]
        /\ crossed \subseteq crossed'
        /\ \A s \in Shops!Slots \ {r} : p.on \cap req[s].on \subseteq crossed'
  BY DEF Shops!Begin, Shops!ShopInv, Shops!TypeInv
<1>3. Shops!NoRequest.on = {}
  BY DEF Shops!NoRequest
<1>4. Shops!TypeInv'
  BY <1>1, <1>2 DEF Shops!ShopInv, Shops!TypeInv, Shops!TypeOK
<1>5. Shops!CrossInv'
  BY <1>2 DEF Shops!ShopInv, Shops!CrossInv
<1>6. \A t \in Shops!Slots :
        Shops!SignupInv(req[t])' /\ Shops!DecisionInv(req[t])' /\ Shops!BilletsInv(req[t])'
  <2>1. TAKE t \in Shops!Slots
  <2>2. CASE t # r
    <3>1. req'[t] = req[t] /\ \A n \in Asks : ask'[n] = ask[n]
      BY <1>2, <2>2
    <3>2. QED
      BY <1>2, <2>2, <3>1, OtherRequests
  <2>3. CASE t = r
    <3>1. \A s : Shops!Ground(s) => Shops!Ground(s)'
      BY <1>2, GroundKept
    <3>2. Shops!SignupInv(req[t])' /\ Shops!DecisionInv(req[t])'
      BY <1>2, <2>3, <3>1 DEF Shops!SignupInv, Shops!DecisionInv, Shops!AlreadyPending
    <3>3. ASSUME "billets" \in p.on \ crossed'
          PROVE  p.old = billets /\ base = Shops!Held(billets) /\ leads = Shops!LeadOf(billets)
      <4>1. \A s \in Shops!Slots : "billets" \notin req[s].on
        BY <1>2, <1>3, <3>3
      <4>2. QED
        BY <1>2, <3>3, <4>1 DEF Shops!ShopInv
    <3>4. Shops!BilletsInv(req[t])'
      BY <1>2, <2>3, <3>3 DEF Shops!BilletsInv
    <3>5. QED
      BY <3>2, <3>4
  <2>4. QED
    BY <2>2, <2>3
<1>7. "billets" \notin crossed' \cup UNION {req'[t].on : t \in Shops!Slots} =>
        base' = Shops!Held(billets') /\ leads' = Shops!LeadOf(billets')
  <2>1. SUFFICES ASSUME "billets" \notin crossed', \A t \in Shops!Slots : "billets" \notin req'[t].on
                 PROVE  base = Shops!Held(billets) /\ leads = Shops!LeadOf(billets)
    OBVIOUS
  <2>2. \A t \in Shops!Slots : "billets" \notin req[t].on
    BY <1>2, <1>3, <2>1
  <2>3. QED
    BY <1>2, <2>1, <2>2 DEF Shops!ShopInv
<1>8. QED
  BY <1>2, <1>4, <1>5, <1>6, <1>7, ShopAsks DEF Shops!ShopInv, Shops!Held, Shops!LeadOf

\* A sign-up, a decision or an edit begins.
LEMMA ShopSignup ==
  ASSUME Shops!Sound, Shops!ShopInv, NEW s \in ShopKeys, Shops!Signup(s) PROVE Shops!ShopInv'
<1> DEFINE x == [pc |-> "file", on |-> {s}]
<1>1. x \in Shops!Signups /\ x.pc = "file" /\ x.on = {s}
  BY DEF Shops!Signups
<1>2. Shops!Begin(x) /\ ~ Shops!AlreadyPending(s)
      /\ UNCHANGED <<billets, base, leads, ask, editor, faults, given, dropped, untouched>>
  BY DEF Shops!Signup
<1> HIDE DEF x
<1>3. x \in Shops!Underway /\ Shops!SignupInv(x) /\ Shops!DecisionInv(x) /\ "billets" \notin x.on
  BY <1>1, <1>2 DEF Shops!Underway, Shops!SignupInv, Shops!DecisionInv, Shops!Sound
<1>4. editor'.shown \subseteq Shops!Billets
  BY <1>2 DEF Shops!ShopInv, Shops!TypeInv, Shops!TypeOK
<1>5. QED
  BY <1>2, <1>3, <1>4, ShopBegins

LEMMA ShopDecides ==
  ASSUME Shops!Sound, Shops!ShopInv, NEW n \in Asks, Shops!Accept(n) \/ Shops!Decline(n)
  PROVE  Shops!ShopInv'
<1>1. /\ billets \in SUBSET Shops!Billets /\ editor.shown \subseteq Shops!Billets
      /\ \A s \in Shops!Held(billets) : Shops!Ground(s)
  BY DEF Shops!ShopInv, Shops!TypeInv, Shops!TypeOK, Shops!HeldHasGround, Shops!Ground
<1>2. PICK s \in ShopKeys : s = ask[n].shop /\ ask[n].status = "pending"
  BY DEF Shops!Accept, Shops!Decline, Shops!ShopInv, Shops!TypeInv, Shops!TypeOK, Shops!NoAsk
<1>3. UNCHANGED <<billets, base, leads, ask, editor, faults, given, dropped, untouched>>
  BY DEF Shops!Accept, Shops!Decline
<1>4. CASE Shops!Accept(n)
  <2>1. PICK new \in SUBSET Shops!Billets :
          new = Shops!Joined(billets, s) /\ Shops!Held(new) = Shops!Held(billets) \cup {s}
    BY <1>1, HeldFacts
  <2>2. PICK pc \in {"sync", "commit"} : pc = IF new = billets THEN "commit" ELSE "sync"
    OBVIOUS
  <2> DEFINE x == [pc |-> pc, on |-> {s, "billets"}, op |-> "accept", n |-> n, old |-> billets,
                   new |-> new, same |-> FALSE]
  <2>3. x \in Shops!Accepts
    BY <1>1, <2>2 DEF Shops!Accepts
  <2>4. /\ x.pc = pc /\ x.on = {s, "billets"} /\ x.op = "accept" /\ x.n = n /\ x.old = billets
        /\ x.new = new
    OBVIOUS
  <2>5. Shops!Begin(x)
    BY <1>2, <1>4, <2>1, <2>2 DEF Shops!Accept
  <2> HIDE DEF x
  <2>6. Shops!SignupInv(x) /\ Shops!DecisionInv(x)
    BY <1>1, <1>2, <2>1, <2>2, <2>4 DEF Shops!SignupInv, Shops!DecisionInv
  <2>7. x \in Shops!Underway /\ editor'.shown \subseteq Shops!Billets
    BY <1>1, <1>3, <2>3 DEF Shops!Underway
  <2>8. QED
    BY <1>3, <2>2, <2>4, <2>5, <2>6, <2>7, ShopBegins
<1>5. CASE Shops!Decline(n)
  <2> DEFINE x == [pc |-> "commit", on |-> {s}, op |-> "decline", n |-> n, old |-> billets,
                   new |-> billets, same |-> FALSE]
  <2>1. x \in Shops!Declines
    BY <1>1 DEF Shops!Declines
  <2>2. /\ x.pc = "commit" /\ x.on = {s} /\ x.op = "decline" /\ x.n = n /\ x.old = billets
        /\ x.new = billets
    OBVIOUS
  <2>3. Shops!Begin(x)
    BY <1>2, <1>5 DEF Shops!Decline
  <2> HIDE DEF x
  <2>4. Shops!SignupInv(x) /\ Shops!DecisionInv(x)
    BY <1>1, <1>2, <2>2 DEF Shops!SignupInv, Shops!DecisionInv
  <2>5. x \in Shops!Underway /\ editor'.shown \subseteq Shops!Billets
    BY <1>1, <1>3, <2>1 DEF Shops!Underway
  <2>6. QED
    BY <1>3, <2>2, <2>3, <2>4, <2>5, ShopBegins
<1>6. QED
  BY <1>4, <1>5

LEMMA ShopEdits ==
  ASSUME Shops!Sound, Shops!ShopInv, Shops!PostEdit PROVE Shops!ShopInv'
<1>1. /\ billets \in SUBSET Shops!Billets /\ editor.shown \subseteq Shops!Billets
      /\ \A s \in Shops!Held(billets) : Shops!Ground(s)
  BY DEF Shops!ShopInv, Shops!TypeInv, Shops!TypeOK, Shops!HeldHasGround, Shops!Ground
<1>2. PICK flip \in {{}} \cup {{x} : x \in Shops!Options} :
        Shops!Begin([pc |-> "sync", on |-> {"billets"}, op |-> "edit", n |-> 0, old |-> billets,
                     new |-> ((editor.shown \cap Shops!Options) \ flip)
                               \cup (flip \ (editor.shown \cap Shops!Options)),
                     same |-> flip = {} /\ editor.shown = billets])
  BY DEF Shops!PostEdit
<1>3. PICK new \in SUBSET Shops!Billets :
        new = ((editor.shown \cap Shops!Options) \ flip)
                \cup (flip \ (editor.shown \cap Shops!Options))
  BY <1>1 DEF Shops!Options, Shops!Billets, Shops!Kinds
<1>4. PICK same \in BOOLEAN : same = (flip = {} /\ editor.shown = billets)
  OBVIOUS
<1> DEFINE x == [pc |-> "sync", on |-> {"billets"}, op |-> "edit", n |-> 0, old |-> billets,
                 new |-> new, same |-> same]
<1>5. x \in Shops!Edits
  BY <1>1 DEF Shops!Edits
<1>6. x.pc = "sync" /\ x.on = {"billets"} /\ x.op = "edit" /\ x.old = billets
  OBVIOUS
<1>7. Shops!Begin(x)
  BY <1>2, <1>3, <1>4
<1> HIDE DEF x
<1>8. Shops!SignupInv(x) /\ Shops!DecisionInv(x) /\ x \in Shops!Underway
  BY <1>1, <1>5, <1>6 DEF Shops!SignupInv, Shops!DecisionInv, Shops!Underway
<1>9. /\ UNCHANGED <<billets, base, leads, ask, faults, given, dropped, untouched>>
      /\ editor'.shown \subseteq Shops!Billets
  BY DEF Shops!PostEdit, Shops!NoPage
<1>10. QED
  BY <1>6, <1>7, <1>8, <1>9, ShopBegins

\* What is left to show of a step of a request.
LEMMA ShopAdvances ==
  ASSUME Shops!Sound, Shops!ShopInv, NEW r \in Shops!Slots, NEW q, q = req[r],
         NEW p \in Shops!Underway \cup {Shops!NoRequest}, p.on \subseteq q.on,
         req' = [req EXCEPT ![r] = p], crossed \subseteq crossed', given \subseteq given',
         \A n \in Asks :
           \/ ask'[n] = ask[n]
           \/ ask[n].status = "none" /\ ask'[n].shop \in q.on
           \/ /\ ask[n].status = "pending" \/ ask[n].shop \in crossed
              /\ ask[n].shop \in q.on /\ ask'[n].shop = ask[n].shop
              /\ ask'[n].status \in {"accepted", "declined"},
         \/ billets' = billets /\ base' = base /\ leads' = leads
         \/ "billets" \in q.on \cup crossed',
         Shops!TypeOK', Shops!SignupInv(p)', Shops!DecisionInv(p)', Shops!BilletsInv(p)',
         "billets" \in q.on \ (p.on \cup crossed') =>
           base' = Shops!Held(billets)' /\ leads' = Shops!LeadOf(billets)',
         Shops!AcceptedIsHeld', Shops!HeldHasGround', Shops!OneAskPending'
  PROVE  Shops!ShopInv'
<1>1. /\ req \in [Shops!Slots -> Shops!Underway \cup {Shops!NoRequest}]
      /\ \A s \in Shops!Slots : req'[s] = IF s = r THEN p ELSE req[s]
  BY DEF Shops!ShopInv, Shops!TypeInv
<1>2. Shops!TypeInv'
  BY <1>1 DEF Shops!TypeInv
<1>3. Shops!CrossInv'
  <2>1. \A s \in Shops!Slots : req'[s].on \subseteq req[s].on
    BY <1>1
  <2>2. QED
    BY <2>1 DEF Shops!ShopInv, Shops!CrossInv
<1>4. \A t \in Shops!Slots :
        Shops!SignupInv(req[t])' /\ Shops!DecisionInv(req[t])' /\ Shops!BilletsInv(req[t])'
  <2>1. TAKE t \in Shops!Slots
  <2>2. CASE t # r
    <3>1. req'[t] = req[t]
      BY <1>1, <2>2
    <3>2. QED
      BY <2>2, <3>1, OtherRequests
  <2>3. CASE t = r
    <3>1. req'[t] = p
      BY <1>1, <2>3
    <3>2. QED
      BY <3>1 DEF Shops!SignupInv, Shops!DecisionInv, Shops!BilletsInv
  <2>4. QED
    BY <2>2, <2>3
<1>5. "billets" \notin crossed' \cup UNION {req'[t].on : t \in Shops!Slots} =>
        base' = Shops!Held(billets)' /\ leads' = Shops!LeadOf(billets)'
  <2>1. SUFFICES ASSUME "billets" \notin crossed', \A t \in Shops!Slots : "billets" \notin req'[t].on
                 PROVE  base' = Shops!Held(billets)' /\ leads' = Shops!LeadOf(billets)'
    OBVIOUS
  <2>2. CASE "billets" \in q.on
    BY <1>1, <2>1, <2>2
  <2>3. CASE "billets" \notin q.on
    <3>1. \A t \in Shops!Slots : "billets" \notin req[t].on
      BY <1>1, <2>1, <2>3
    <3>2. base = Shops!Held(billets) /\ leads = Shops!LeadOf(billets)
      BY <2>1, <3>1 DEF Shops!ShopInv
    <3>3. QED
      BY <2>1, <2>3, <3>2 DEF Shops!Held, Shops!LeadOf
  <2>4. QED
    BY <2>2, <2>3
<1>6. QED
  BY <1>2, <1>3, <1>4, <1>5 DEF Shops!ShopInv

LEMMA NoRequestIdle ==
  /\ Shops!NoRequest.on = {} /\ Shops!NoRequest \in Shops!Underway \cup {Shops!NoRequest}
  /\ Shops!SignupInv(Shops!NoRequest)' /\ Shops!DecisionInv(Shops!NoRequest)'
  /\ Shops!BilletsInv(Shops!NoRequest)'
BY DEF Shops!NoRequest, Shops!SignupInv, Shops!DecisionInv, Shops!BilletsInv

LEMMA ShopFiles ==
  ASSUME Shops!Sound, Shops!ShopInv, NEW r \in Shops!Slots, Shops!File(r) PROVE Shops!ShopInv'
<1>1. PICK q \in Shops!Underway : q = req[r] /\ q.pc = "file" /\ Shops!SignupInv(q)
  BY DEF Shops!File, Shops!ShopInv, Shops!TypeInv, Shops!NoRequest
<1>2. PICK s \in ShopKeys : q.on = {s}
  BY <1>1 DEF Shops!Underway, Shops!Signups, Shops!Accepts, Shops!Declines, Shops!Edits
<1>3. PICK n \in Asks :
        /\ ask[n] = Shops!NoAsk
        /\ ask' = [ask EXCEPT ![n] = [shop |-> s, status |-> "pending"]]
  <2>1. {m \in Asks : ask[m] = Shops!NoAsk} # {}
    BY DEF Shops!File
  <2>2. QED
    BY <1>1, <1>2, <2>1 DEF Shops!File
<1>4. /\ req' = [req EXCEPT ![r] = Shops!NoRequest]
      /\ UNCHANGED <<billets, base, leads, editor, begun, faults, crossed, given, dropped, untouched>>
  BY DEF Shops!File, Shops!End
<1>5. PICK new \in [shop : ShopKeys, status : {"pending", "accepted", "declined"}] :
        /\ new = [shop |-> s, status |-> "pending"] /\ new.shop = s /\ new.status = "pending"
        /\ \A m \in Asks : /\ m # n => ask'[m] = ask[m]
                           /\ m = n => ask[m].status = "none" /\ (ask'[m] = new \/ ask'[m] = ask[m])
  BY <1>3 DEF Shops!NoAsk
<1>6. Shops!TypeOK'
  BY <1>3, <1>4, <1>5 DEF Shops!ShopInv, Shops!TypeInv, Shops!TypeOK
<1>7. \A m \in Asks : ask'[m] = ask[m] \/ (m = n /\ ask'[m] = new)
  BY <1>5
<1>8. Shops!AcceptedIsHeld'
  BY <1>4, <1>5, <1>7 DEF Shops!ShopInv, Shops!AcceptedIsHeld, Shops!Held
<1>9. Shops!HeldHasGround'
  <2>1. \A x : Shops!Ground(x) => Shops!Ground(x)'
    BY <1>4, <1>5, GroundKept
  <2>2. QED
    BY <1>4, <2>1 DEF Shops!ShopInv, Shops!HeldHasGround, Shops!Ground, Shops!Held
<1>10. Shops!OneAskPending'
  <2>1. SUFFICES ASSUME NEW k \in Asks, NEW m \in Asks, k # m, ask'[k] = ask'[m],
                        ask'[m].status = "pending"
                 PROVE  ask'[m].shop \in crossed
    BY <1>4 DEF Shops!OneAskPending
  <2>2. CASE ask'[k] = ask[k] /\ ask'[m] = ask[m]
    BY <2>1, <2>2 DEF Shops!ShopInv, Shops!OneAskPending
  <2>3. CASE (k = n /\ ask'[k] = new) \/ (m = n /\ ask'[m] = new)
    <3>1. Shops!AlreadyPending(s) /\ ask'[m].shop = s
      BY <1>5, <1>7, <2>1, <2>3 DEF Shops!AlreadyPending
    <3>2. QED
      BY <1>1, <1>2, <3>1 DEF Shops!SignupInv
  <2>4. QED
    BY <1>7, <2>2, <2>3
<1>11. "billets" \notin q.on
  BY <1>2 DEF Shops!Sound
<1>12. \A m \in Asks : ask'[m] = ask[m] \/ (ask[m].status = "none" /\ ask'[m].shop \in q.on)
  BY <1>2, <1>5, <1>7
<1>13. QED
  BY <1>1, <1>4, <1>6, <1>8, <1>9, <1>10, <1>11, <1>12, NoRequestIdle, ShopAdvances

\* What ShopInv says of a request that has read the billets.
LEMMA ShopRequest ==
  ASSUME Shops!Sound, Shops!ShopInv, NEW r \in Shops!Slots, req[r].pc \in {"sync", "commit"}
  PROVE  /\ req[r] \in Shops!Accepts \cup Shops!Declines \cup Shops!Edits
         /\ Shops!DecisionInv(req[r]) /\ Shops!BilletsInv(req[r])
         /\ req[r].old \in SUBSET Shops!Billets /\ req[r].new \in SUBSET Shops!Billets
         /\ req[r].op \in {"accept", "decline", "edit"}
         /\ req[r].op \in {"accept", "decline"} => req[r].n \in Asks
         /\ "billets" \in req[r].on <=> req[r].op \in {"accept", "edit"}
<1>1. PICK q \in Shops!Underway : q = req[r]
  BY DEF Shops!ShopInv, Shops!TypeInv, Shops!NoRequest
<1>2. q \in Shops!Accepts \cup Shops!Declines \cup Shops!Edits
  BY <1>1 DEF Shops!Underway, Shops!Signups
<1>3. /\ q.old \in SUBSET Shops!Billets /\ q.new \in SUBSET Shops!Billets
      /\ q.op \in {"accept", "decline", "edit"}
      /\ q.op \in {"accept", "decline"} => q.n \in Asks
  BY <1>2 DEF Shops!Accepts, Shops!Declines, Shops!Edits
<1>4. "billets" \in q.on <=> q.op \in {"accept", "edit"}
  BY <1>2 DEF Shops!Accepts, Shops!Declines, Shops!Edits, Shops!Sound
<1>5. QED
  BY <1>1, <1>2, <1>3, <1>4 DEF Shops!ShopInv

LEMMA ShopSyncs ==
  ASSUME Shops!Sound, Shops!ShopInv, NEW r \in Shops!Slots, Shops!Sync(r) \/ Shops!SyncLost(r)
  PROVE  Shops!ShopInv'
<1>1. PICK q : q = req[r]
  OBVIOUS
<1>2. /\ q.pc = "sync" /\ q \in Shops!Accepts \cup Shops!Declines \cup Shops!Edits
      /\ Shops!DecisionInv(q) /\ Shops!BilletsInv(q)
      /\ q.old \in SUBSET Shops!Billets /\ q.new \in SUBSET Shops!Billets
      /\ "billets" \in q.on <=> q.op \in {"accept", "edit"}
  BY <1>1, ShopRequest DEF Shops!Sync, Shops!SyncLost
<1>3. "billets" \in q.on
  BY <1>2 DEF Shops!Accepts, Shops!Declines, Shops!Edits
<1>4. PICK p \in Shops!Underway :
        /\ req' = [req EXCEPT ![r] = p] /\ p.pc = "commit" /\ p.on = q.on
        /\ p.op = q.op /\ p.n = q.n /\ p.old = q.old /\ p.new = q.new
  <2> DEFINE x == [q EXCEPT !.pc = "commit"]
  <2>1. x \in Shops!Accepts \cup Shops!Edits
    BY <1>2 DEF Shops!Accepts, Shops!Declines, Shops!Edits
  <2>2. x.pc = "commit" /\ x.on = q.on /\ x.op = q.op /\ x.n = q.n /\ x.old = q.old /\ x.new = q.new
    BY <1>2 DEF Shops!Accepts, Shops!Declines, Shops!Edits
  <2>3. req' = [req EXCEPT ![r] = x]
    BY <1>1 DEF Shops!Sync, Shops!SyncLost
  <2> HIDE DEF x
  <2>4. QED
    BY <2>1, <2>2, <2>3 DEF Shops!Underway
<1>5. /\ UNCHANGED <<billets, ask, editor, begun, given, dropped, untouched>>
      /\ base' \in {base, Shops!Synced(q.old, q.new, base)}
      /\ leads' \in {leads, Shops!LeadsSynced(q.old, q.new, leads)}
      /\ faults' \in 0..MaxFaults /\ crossed \subseteq crossed'
  BY <1>1 DEF Shops!Sync, Shops!SyncLost, Shops!ShopInv, Shops!TypeInv, Shops!TypeOK, Shops!Sound
<1>6. "billets" \notin crossed' =>
        /\ base' = Shops!Synced(q.old, q.new, base) /\ leads' = Shops!LeadsSynced(q.old, q.new, leads)
        /\ crossed' = crossed
  BY <1>1 DEF Shops!Sync, Shops!SyncLost
<1>7. Shops!TypeOK'
  BY <1>2, <1>5, SyncFacts DEF Shops!ShopInv, Shops!TypeInv, Shops!TypeOK
<1>8. Shops!BilletsInv(p)'
  <2>1. SUFFICES ASSUME "billets" \notin crossed'
                 PROVE  /\ p.old = billets'
                        /\ base' = Shops!Held(p.new) /\ leads' = Shops!LeadOf(p.new)
    BY <1>4 DEF Shops!BilletsInv
  <2>2. q.old = billets /\ base = Shops!Held(q.old) /\ leads = Shops!LeadOf(q.old)
    BY <1>2, <1>3, <1>6, <2>1 DEF Shops!BilletsInv
  <2>3. QED
    BY <1>2, <1>4, <1>5, <1>6, <2>1, <2>2, SyncFacts
<1>9. Shops!SignupInv(p)' /\ Shops!DecisionInv(p)'
  <2>1. \A s : Shops!Ground(s) => Shops!Ground(s)'
    BY <1>5, GroundKept
  <2>2. QED
    BY <1>2, <1>4, <1>5, <2>1 DEF Shops!SignupInv, Shops!DecisionInv
<1>10. Shops!AcceptedIsHeld' /\ Shops!HeldHasGround' /\ Shops!OneAskPending'
  BY <1>5, ShopAsks
<1>11. QED
  BY <1>1, <1>3, <1>4, <1>5, <1>7, <1>8, <1>9, <1>10, ShopAdvances

LEMMA ShopCommits ==
  ASSUME Shops!Sound, Shops!ShopInv, NEW r \in Shops!Slots, Shops!Commit(r) PROVE Shops!ShopInv'
<1>1. PICK q : q = req[r]
  OBVIOUS
<1>2. /\ q.pc = "commit" /\ Shops!DecisionInv(q) /\ Shops!BilletsInv(q)
      /\ q.old \in SUBSET Shops!Billets /\ q.new \in SUBSET Shops!Billets
      /\ q.op \in {"accept", "decline", "edit"}
      /\ q.op \in {"accept", "decline"} => q.n \in Asks
      /\ "billets" \in q.on <=> q.op \in {"accept", "edit"}
  BY <1>1, ShopRequest DEF Shops!Commit
<1>3. /\ UNCHANGED <<base, leads, editor, begun, faults, crossed>>
      /\ req' = [req EXCEPT ![r] = Shops!NoRequest]
      /\ billets' = IF q.new = q.old THEN billets ELSE q.new
      /\ q.op # "edit" => given' = given /\ dropped' = dropped
      /\ q.op = "edit" => /\ given' = given \cup (Shops!Held(billets)' \ Shops!Held(q.old))
                          /\ dropped' = dropped \cup {n \in Asks : ask[n].status = "accepted"
                                           /\ ask[n].shop \notin Shops!Held(billets)'}
  BY <1>1, <1>2 DEF Shops!Commit, Shops!End, Shops!Held
<1>4. /\ ask' = IF q.op = "edit" THEN ask
                ELSE [ask EXCEPT ![q.n].status = IF q.op = "accept" THEN "accepted" ELSE "declined"]
  BY <1>1, <1>2 DEF Shops!Commit
<1>5. \A n \in Asks :
        \/ ask'[n] = ask[n] /\ (q.op = "edit" \/ n # q.n)
        \/ /\ n = q.n /\ q.op \in {"accept", "decline"}
           /\ ask'[n].shop = ask[n].shop
           /\ ask'[n].status = IF q.op = "accept" THEN "accepted" ELSE "declined"
           /\ ask'[n] \in [shop : ShopKeys, status : {"accepted", "declined"}]
           /\ ask[n].shop \in q.on /\ ask[n].shop \in ShopKeys
           /\ ask[n].status = "pending" \/ ask[n].shop \in crossed
  <2>1. TAKE n \in Asks
  <2>2. CASE q.op = "edit" \/ n # q.n
    BY <1>4, <2>2
  <2>3. CASE n = q.n /\ q.op \in {"accept", "decline"}
    <3>1. /\ ask[n].shop \in q.on /\ ask[n].shop \in ShopKeys /\ ask[n].status # "none"
          /\ ask[n].status = "pending" \/ ask[n].shop \in crossed
      BY <1>2, <2>3 DEF Shops!DecisionInv
    <3>2. ask[n] \in [shop : ShopKeys, status : {"pending", "accepted", "declined"}]
      BY <3>1 DEF Shops!ShopInv, Shops!TypeInv, Shops!TypeOK, Shops!NoAsk
    <3>3. PICK st \in {"accepted", "declined"} : st = IF q.op = "accept" THEN "accepted" ELSE "declined"
      OBVIOUS
    <3>4. ask'[n] = [ask[n] EXCEPT !.status = st] /\ q.op # "edit"
      BY <1>4, <2>3, <3>3 DEF Shops!ShopInv, Shops!TypeInv, Shops!TypeOK
    <3>5. ask'[n] = [shop |-> ask[n].shop, status |-> st]
      BY <3>2, <3>4
    <3>6. QED
      BY <2>3, <3>1, <3>3, <3>5
  <2>4. QED
    BY <1>2, <2>2, <2>3
<1>6. Shops!TypeOK'
  <2>1. billets' \subseteq Shops!Billets
    BY <1>2, <1>3 DEF Shops!ShopInv, Shops!TypeInv, Shops!TypeOK
  <2>2. /\ \A n \in Asks : ask'[n] \in
               [shop : ShopKeys, status : {"pending", "accepted", "declined"}] \cup {Shops!NoAsk}
        /\ ask' = [n \in Asks |-> ask'[n]]
    BY <1>4, <1>5 DEF Shops!ShopInv, Shops!TypeInv, Shops!TypeOK
  <2>3. QED
    BY <1>3, <2>1, <2>2 DEF Shops!ShopInv, Shops!TypeInv, Shops!TypeOK
<1>7. given \subseteq given' /\ crossed \subseteq crossed'
  BY <1>2, <1>3
<1>8. \A n \in Asks :
        \/ ask'[n] = ask[n]
        \/ /\ ask[n].status = "pending" \/ ask[n].shop \in crossed
           /\ ask[n].shop \in q.on /\ ask'[n].shop = ask[n].shop
           /\ ask'[n].status \in {"accepted", "declined"}
  BY <1>5
<1>9. "billets" \in q.on \ crossed' => q.old = billets /\ billets' = q.new
                                       /\ base = Shops!Held(q.new) /\ leads = Shops!LeadOf(q.new)
  BY <1>2, <1>3 DEF Shops!BilletsInv
<1>10. q.op = "decline" => billets' = billets
  BY <1>2, <1>3 DEF Shops!DecisionInv
<1>11. q.op = "accept" => Shops!Held(q.new) = Shops!Held(q.old) \cup {ask[q.n].shop}
  BY <1>2 DEF Shops!DecisionInv
<1>12. Shops!AcceptedIsHeld'
  <2>1. SUFFICES ASSUME NEW n \in Asks \ dropped', ask'[n].status = "accepted", "billets" \notin crossed
                 PROVE  ask'[n].shop \in Shops!Held(billets)'
    BY <1>3 DEF Shops!AcceptedIsHeld
  <2>2. ask[n].status = "accepted" => ask[n].shop \in Shops!Held(billets)
    BY <1>2, <1>3, <2>1 DEF Shops!ShopInv, Shops!AcceptedIsHeld
  <2>3. CASE q.op = "decline"
    BY <1>5, <1>10, <2>1, <2>2, <2>3 DEF Shops!Held
  <2>4. CASE q.op = "accept"
    <3>1. Shops!Held(billets)' = Shops!Held(billets) \cup {ask[q.n].shop}
      BY <1>2, <1>3, <1>9, <1>11, <2>1, <2>4 DEF Shops!Held
    <3>2. QED
      BY <1>5, <2>1, <2>2, <3>1
  <2>5. CASE q.op = "edit"
    BY <1>3, <1>5, <2>1, <2>5
  <2>6. QED
    BY <1>2, <2>3, <2>4, <2>5
<1>13. Shops!HeldHasGround'
  <2>1. \A x : Shops!Ground(x) => Shops!Ground(x)'
    BY <1>7, <1>8, GroundKept
  <2>2. SUFFICES ASSUME NEW x \in Shops!Held(billets)' PROVE Shops!Ground(x)'
    BY DEF Shops!HeldHasGround, Shops!Ground
  <2>3. CASE billets' = billets
    BY <2>1, <2>2, <2>3 DEF Shops!ShopInv, Shops!HeldHasGround, Shops!Ground, Shops!Held
  <2>4. CASE billets' # billets
    <3>1. Shops!Held(billets)' = Shops!Held(q.new) /\ q.op \in {"accept", "edit"}
      BY <1>2, <1>3, <1>10, <2>4 DEF Shops!Held
    <3>2. CASE x \in Shops!Held(q.old)
      BY <1>2, <2>1, <3>2 DEF Shops!DecisionInv
    <3>3. CASE x \notin Shops!Held(q.old) /\ q.op = "edit"
      BY <1>3, <2>2, <3>3 DEF Shops!Ground
    <3>4. CASE x \notin Shops!Held(q.old) /\ q.op = "accept"
      <4>1. x = ask[q.n].shop /\ q.n \in Asks
        BY <1>2, <1>11, <2>2, <3>1, <3>4
      <4>2. ask'[q.n] = [shop |-> x, status |-> "accepted"]
        BY <1>5, <3>4, <4>1
      <4>3. QED
        BY <4>1, <4>2 DEF Shops!Ground
    <3>5. QED
      BY <3>1, <3>2, <3>3, <3>4
  <2>5. QED
    BY <2>3, <2>4
<1>14. Shops!OneAskPending'
  <2>1. SUFFICES ASSUME NEW m \in Asks, NEW n \in Asks, m # n, ask'[m] = ask'[n],
                        ask'[n].status = "pending"
                 PROVE  ask'[n].shop \in crossed
    BY <1>3 DEF Shops!OneAskPending
  <2>2. ask'[m] = ask[m] /\ ask'[n] = ask[n]
    BY <1>5, <2>1
  <2>3. QED
    BY <2>1, <2>2 DEF Shops!ShopInv, Shops!OneAskPending
<1>15. "billets" \in q.on \ (Shops!NoRequest.on \cup crossed') =>
         base' = Shops!Held(billets)' /\ leads' = Shops!LeadOf(billets)'
  BY <1>3, <1>9 DEF Shops!Held, Shops!LeadOf
<1>16. \/ billets' = billets /\ base' = base /\ leads' = leads
       \/ "billets" \in q.on \cup crossed'
  BY <1>2, <1>3, <1>10
<1>17. QED
  BY <1>1, <1>3, <1>6, <1>7, <1>8, <1>12, <1>13, <1>14, <1>15, <1>16, NoRequestIdle, ShopAdvances

LEMMA ShopCrash ==
  ASSUME Shops!Sound, Shops!ShopInv, Shops!Crash PROVE Shops!ShopInv'
<1>1. /\ UNCHANGED <<billets, base, leads, ask, editor, begun, given, dropped, untouched>>
      /\ faults' \in 0..MaxFaults /\ req' = [r \in Shops!Slots |-> Shops!NoRequest]
      /\ crossed' = crossed \cup UNION {req[r].on : r \in Shops!Slots}
  BY DEF Shops!Crash, Shops!ShopInv, Shops!TypeInv, Shops!TypeOK, Shops!Sound
<1>2. Shops!TypeInv'
  BY <1>1 DEF Shops!ShopInv, Shops!TypeInv, Shops!TypeOK
<1>3. \A r \in Shops!Slots : req'[r] = Shops!NoRequest
  BY <1>1
<1>4. Shops!CrossInv' /\ \A r \in Shops!Slots :
        Shops!SignupInv(req[r])' /\ Shops!DecisionInv(req[r])' /\ Shops!BilletsInv(req[r])'
  BY <1>3 DEF Shops!CrossInv, Shops!SignupInv, Shops!DecisionInv, Shops!BilletsInv, Shops!NoRequest
<1>5. "billets" \notin crossed' => base' = Shops!Held(billets)' /\ leads' = Shops!LeadOf(billets)'
  BY <1>1 DEF Shops!ShopInv, Shops!Held, Shops!LeadOf
<1>6. Shops!AcceptedIsHeld' /\ Shops!HeldHasGround' /\ Shops!OneAskPending'
  BY <1>1, ShopAsks
<1>7. QED
  BY <1>2, <1>4, <1>5, <1>6 DEF Shops!ShopInv

\* A profile editor is opened, or nothing happens.
LEMMA ShopOpens ==
  ASSUME Shops!ShopInv, Shops!OpenPage \/ UNCHANGED Shops!vars PROVE Shops!ShopInv'
<1>1. /\ UNCHANGED <<billets, base, leads, ask, req, begun, faults, crossed, given, dropped, untouched>>
      /\ editor'.shown \subseteq Shops!Billets
  BY DEF Shops!OpenPage, Shops!vars, Shops!ShopInv, Shops!TypeInv, Shops!TypeOK
<1>2. Shops!TypeInv'
  BY <1>1 DEF Shops!ShopInv, Shops!TypeInv, Shops!TypeOK
<1>3. \A r \in Shops!Slots :
        Shops!SignupInv(req[r])' /\ Shops!DecisionInv(req[r])' /\ Shops!BilletsInv(req[r])'
  BY <1>1 DEF Shops!ShopInv, Shops!SignupInv, Shops!DecisionInv, Shops!BilletsInv, Shops!Ground,
     Shops!AlreadyPending
<1>4. Shops!AcceptedIsHeld' /\ Shops!HeldHasGround' /\ Shops!OneAskPending'
  BY <1>1, ShopAsks
<1>5. QED
  BY <1>1, <1>2, <1>3, <1>4 DEF Shops!ShopInv, Shops!CrossInv, Shops!Held, Shops!LeadOf

LEMMA ShopsStep ==
  ASSUME Shops!Sound, Shops!ShopInv, [Shops!Next]_(Shops!vars) PROVE Shops!ShopInv'
BY ShopSignup, ShopDecides, ShopEdits, ShopFiles, ShopSyncs, ShopCommits, ShopCrash, ShopOpens
   DEF Shops!Next

(***************************************************************************)
(* Accepted members are in their shops, nobody else is, and the groups     *)
(* follow, for every set of shops and however many requests overlap.       *)
(***************************************************************************)
THEOREM ShopsAreStaffedCorrect == MembersSpec => []ShopsAreStaffed
<1> DEFINE IInv == page = "shops" => Shops!ShopInv
<1>1. MembersInit => IInv
  BY OnlyShops, ShopsAssumption, ShopsInit
<1>2. IInv /\ [MembersNext]_allVars => IInv'
  <2> SUFFICES ASSUME page = "shops", Shops!ShopInv, [MembersNext]_allVars PROVE Shops!ShopInv'
    BY PageKept
  <2>1. [Shops!Next]_(Shops!vars)
    BY OnlyShopSteps
  <2>2. QED
    BY <2>1, ShopsAssumption, ShopsStep
<1>3. IInv => ShopsAreStaffed
  BY DEF ShopsAreStaffed, Shops!ShopsAreStaffed, Shops!ShopInv, Shops!TypeInv,
     Shops!GroupsFollowBillets, Shops!Quiet, Shops!NoRequest
<1> HIDE DEF IInv
<1>4. QED
  BY <1>1, <1>2, <1>3, PTL DEF MembersSpec

-----------------------------------------------------------------------------
(***************************************************************************)
(* The training record: TrainingInv is inductive (see Training).           *)
(***************************************************************************)
LEMMA OnlyTraining == page = "training" /\ MembersInit => Training!Init
BY DEF MembersInit

LEMMA OnlyTrainingSteps == page = "training" /\ [MembersNext]_allVars => [Training!Next]_(Training!vars)
BY DEF MembersNext, BoardStep, ShopStep, TrainingStep, AttendanceStep, allVars, trainingVars, Training!vars

\* What is on record is a matter of one table.
LEMMA OnRecordIs ==
  ASSUME Training!Sound
  PROVE  /\ \A t \in Training!Records : t \notin Ribbons \cup Ftxs /\ (Training!OnRecord(t) <=> rows[t] > 0)
         /\ \A t \in Ribbons : t \notin Training!Records \cup Ftxs
                                 /\ (Training!OnRecord(t) <=> ribbon[t].held)
         /\ \A t \in Ftxs : t \notin Training!Records \cup Ribbons
                              /\ (Training!OnRecord(t) <=> t \in attended)
         /\ \A t \in Training!Records : Training!OnRecord(t)' <=> rows'[t] > 0
         /\ \A t \in Ribbons : Training!OnRecord(t)' <=> ribbon'[t].held
         /\ \A t \in Ftxs : Training!OnRecord(t)' <=> t \in attended'
         /\ Training!Things = Training!Records \cup Ribbons \cup Ftxs
BY DEF Training!Sound, Training!OnRecord, Training!Things, Training!Records

LEMMA TrainingInit == Training!Sound /\ Training!Init => Training!TrainingInv
<1> SUFFICES ASSUME Training!Sound, Training!Init PROVE Training!TrainingInv
  OBVIOUS
<1> USE DEF Training!Init
<1>1. \A c \in Claims : /\ claim[c].of = Filed[c]
                        /\ claim[c].status = IF Filed[c] = "none" THEN "none" ELSE "pending"
  OBVIOUS
<1>2. Training!NoRibbon \in Training!RibbonType
  BY DEF Training!NoRibbon, Training!RibbonType, Training!Comments, Training!Sound
<1>3. Training!TypeInv
  <2>1. claim \in [Claims -> Training!ClaimType]
    BY DEF Training!ClaimType, Training!Statuses, Training!Sound
  <2>2. begun \in 0..TrainingRequests /\ attended \subseteq Ftxs
    BY DEF Training!Sound
  <2>3. QED
    BY <1>2, <2>1, <2>2 DEF Training!TypeInv, Training!TypeOK
<1>4. Training!CrossInv /\ \A r \in Training!Slots : Training!RequestInv(req[r])
  BY DEF Training!CrossInv, Training!RequestInv, Training!SubmitInv, Training!DecideInv,
     Training!ApproveInv, Training!NoRequest, Training!Touches
<1>5. /\ \A c \in Claims : Training!ClaimInv(c) /\ claim[c].status # "approved"
      /\ \A t \in Ribbons : Training!RibbonInv(t)
  BY <1>1 DEF Training!ClaimInv, Training!RibbonInv, Training!Sound
<1>6. Training!ApprovedIsOnRecord /\ Training!LastFtxIsLatest
  BY <1>5 DEF Training!ApprovedIsOnRecord, Training!LastFtxIsLatest
<1>7. Training!RecordsHaveGround /\ Training!StarsAreKept /\ Training!CommentsStay
  BY DEF Training!RecordsHaveGround, Training!StarsAreKept, Training!CommentsStay
<1>8. Training!OneClaimPending
  BY <1>1 DEF Training!OneClaimPending, Training!Sound
<1>9. QED
  BY <1>3, <1>4, <1>5, <1>6, <1>7, <1>8 DEF Training!TrainingInv

\* What a step that is about the things in U does to a request that is not, or
\* whose things have crossed.
LEMMA OtherReviews ==
  ASSUME Training!TrainingInv, NEW s \in Training!Slots, NEW U,
         req'[s] = req[s], Training!Touches(req[s]) \cap U \subseteq crossed', crossed \subseteq crossed',
         \A c \in Claims :
           \/ claim'[c] = claim[c]
           \/ claim[c].status = "none" /\ claim'[c].of \in U
           \/ /\ claim[c].of \in U /\ claim'[c].of = claim[c].of
              /\ claim'[c].status \in {"approved", "denied"},
         \A t \in Ribbons \ U : ribbon'[t] = ribbon[t],
         \A f \in Ftxs \ U : f \in attended' <=> f \in attended,
         last' = last \/ "last" \in U
  PROVE  Training!RequestInv(req[s])'
<1>1. /\ Training!RequestInv(req[s]) /\ req[s] \in Training!Underway \cup {Training!NoRequest}
      /\ req[s].on \cap U \subseteq crossed'
  BY DEF Training!TrainingInv, Training!TypeInv, Training!Touches
<1>2. PICK q \in Training!Underway \cup {Training!NoRequest} : q = req[s]
  BY <1>1
<1>3. q.claims \subseteq Claims
  BY <1>2 DEF Training!Underway, Training!Submissions, Training!Approvals, Training!Refusals,
     Training!Grants, Training!Awards, Training!Removals, Training!NoRequest
<1>4. Training!SubmitInv(q)'
  <2>1. SUFFICES ASSUME q.op = "submit", NEW t \in q.on \ crossed', Training!Pending({t})' # {}
                 PROVE  FALSE
    BY DEF Training!SubmitInv
  <2>2. PICK c \in Claims : claim'[c] = [of |-> t, status |-> "pending"]
    BY <2>1 DEF Training!Pending
  <2>3. t \notin U /\ t \notin crossed /\ Training!Pending({t}) = {}
    BY <1>1, <1>2, <2>1 DEF Training!RequestInv, Training!SubmitInv
  <2>4. claim'[c] = claim[c]
    BY <2>2, <2>3
  <2>5. QED
    BY <2>2, <2>3, <2>4 DEF Training!Pending
<1>5. Training!DecideInv(q)'
  <2>1. SUFFICES ASSUME NEW c \in q.claims
                 PROVE  /\ claim'[c].of \in q.on /\ claim'[c].status # "none"
                        /\ q.op \in {"approve", "deny"} =>
                             claim'[c].of \in crossed' \/ claim'[c].status = "pending"
    BY DEF Training!DecideInv
  <2>2. /\ c \in Claims /\ claim[c].of \in q.on /\ claim[c].status # "none"
        /\ q.op \in {"approve", "deny"} => claim[c].of \in crossed \/ claim[c].status = "pending"
    BY <1>1, <1>2, <1>3 DEF Training!RequestInv, Training!DecideInv
  <2>3. CASE claim'[c] = claim[c]
    BY <2>2, <2>3
  <2>4. CASE claim'[c] # claim[c]
    BY <1>1, <1>2, <2>2, <2>4
  <2>5. QED
    BY <2>3, <2>4
<1>6. Training!ApproveInv(q)'
  <2>1. SUFFICES ASSUME q.op = "approve", NEW t \in q.on
                 PROVE  /\ t \in Ribbons => /\ q.derived = Training!Derived(t, q.went)
                                            /\ t \in crossed' \/ q.stored = ribbon'[t]
                        /\ t \in Ftxs => /\ t \in crossed' \/ (t \in q.went <=> t \in attended')
                                         /\ "last" \in crossed' \/ q.last = last'
    BY DEF Training!ApproveInv, Training!Derived
  <2>2. /\ t \in Ribbons => /\ q.derived = Training!Derived(t, q.went)
                            /\ t \in crossed \/ q.stored = ribbon[t]
        /\ t \in Ftxs => /\ t \in crossed \/ (t \in q.went <=> t \in attended)
                         /\ "last" \in crossed \/ q.last = last
    BY <1>1, <1>2, <2>1 DEF Training!RequestInv, Training!ApproveInv
  <2>3. t \in U => t \in crossed'
    BY <1>1, <1>2, <2>1
  <2>4. t \in Ftxs => "last" \in Training!Touches(q)
    <3>1. q \in Training!Approvals
      BY <2>1 DEF Training!Underway, Training!Submissions, Training!Refusals,
         Training!Grants, Training!Awards, Training!Removals, Training!NoRequest
    <3>2. q.on = {t}
      BY <2>1, <3>1 DEF Training!Approvals
    <3>3. QED
      BY <2>1, <3>2 DEF Training!Touches
  <2>5. QED
    BY <1>2, <2>2, <2>3, <2>4
<1>7. QED
  BY <1>2, <1>4, <1>5, <1>6 DEF Training!RequestInv, Training!SubmitInv, Training!DecideInv,
     Training!ApproveInv

\* A request begins: it has read what is so.
LEMMA ReviewBegins ==
  ASSUME Training!Sound, Training!TrainingInv, NEW p \in Training!Underway, Training!Begin(p),
         Training!RequestInv(p)
  PROVE  Training!TrainingInv'
<1>1. PICK r \in Training!Slots :
        /\ req[r] = Training!NoRequest /\ req' = [req EXCEPT ![r] = p]
        /\ crossed' = crossed \cup (Training!Touches(p)
                        \cap UNION {Training!Touches(req[q]) : q \in Training!Slots \ {r}})
  BY DEF Training!Begin
<1>2. /\ UNCHANGED <<claim, rows, ribbon, attended, last, licence, granted, undone, dimmed, erased>>
      /\ begun < TrainingRequests /\ begun' = begun + 1
  BY DEF Training!Begin
<1>3. \A s \in Training!Slots : req'[s] = IF s = r THEN p ELSE req[s]
  BY <1>1 DEF Training!TrainingInv, Training!TypeInv
<1>4. Training!TypeInv'
  <2>1. begun' \in 0..TrainingRequests
    BY <1>2 DEF Training!Sound, Training!TrainingInv, Training!TypeInv, Training!TypeOK
  <2>2. req' \in [Training!Slots -> Training!Underway \cup {Training!NoRequest}]
    BY <1>1 DEF Training!TrainingInv, Training!TypeInv
  <2>3. QED
    BY <1>2, <2>1, <2>2 DEF Training!TrainingInv, Training!TypeInv, Training!TypeOK
<1>5. Training!CrossInv'
  <2>1. SUFFICES ASSUME NEW s \in Training!Slots, NEW u \in Training!Slots, s # u
                 PROVE  Training!Touches(req'[s]) \cap Training!Touches(req'[u]) \subseteq crossed'
    BY DEF Training!CrossInv, Training!Touches
  <2>2. CASE s = r
    BY <1>1, <1>3, <2>1, <2>2
  <2>3. CASE u = r
    BY <1>1, <1>3, <2>1, <2>3
  <2>4. CASE s # r /\ u # r
    BY <1>1, <1>3, <2>1, <2>4 DEF Training!TrainingInv, Training!CrossInv
  <2>5. QED
    BY <2>2, <2>3, <2>4
<1>6. \A s \in Training!Slots : Training!RequestInv(req[s])'
  <2>1. SUFFICES ASSUME NEW s \in Training!Slots PROVE Training!RequestInv(req[s])'
    OBVIOUS
  <2>2. CASE s = r
    <3>1. Training!RequestInv(p)'
      BY <1>1, <1>2 DEF Training!RequestInv, Training!SubmitInv, Training!DecideInv,
         Training!ApproveInv, Training!Pending, Training!Derived
    <3>2. req'[s] = p
      BY <1>3, <2>2
    <3>3. QED
      BY <3>1, <3>2 DEF Training!RequestInv, Training!SubmitInv, Training!DecideInv,
         Training!ApproveInv
  <2>3. CASE s # r
    <3>1. req'[s] = req[s] /\ crossed \subseteq crossed'
      BY <1>1, <1>3, <2>3
    <3>2. Training!Touches(req[s]) \cap {} \subseteq crossed'
      OBVIOUS
    <3>3. /\ \A c \in Claims : claim'[c] = claim[c]
          /\ \A t \in Ribbons \ {} : ribbon'[t] = ribbon[t]
          /\ \A f \in Ftxs \ {} : f \in attended' <=> f \in attended
          /\ last' = last
      BY <1>2
    <3>4. QED
      BY <3>1, <3>2, <3>3, OtherReviews
  <2>4. QED
    BY <2>2, <2>3
<1>7. \A t : Training!OnRecord(t)' <=> Training!OnRecord(t)
  BY <1>2 DEF Training!OnRecord
<1>8. \A t : Training!ApprovedFor(t)' = Training!ApprovedFor(t)
  BY <1>2 DEF Training!ApprovedFor
<1>9. /\ Training!ApprovedIsOnRecord' /\ Training!RecordsHaveGround' /\ Training!OneClaimPending'
      /\ Training!StarsAreKept' /\ Training!LastFtxIsLatest' /\ Training!CommentsStay'
  BY <1>1, <1>2, <1>7, <1>8 DEF Training!TrainingInv, Training!ApprovedIsOnRecord,
     Training!RecordsHaveGround, Training!OneClaimPending, Training!StarsAreKept,
     Training!LastFtxIsLatest, Training!CommentsStay
<1>10. (\A c \in Claims : Training!ClaimInv(c)') /\ \A t \in Ribbons : Training!RibbonInv(t)'
  BY <1>2 DEF Training!TrainingInv, Training!ClaimInv, Training!RibbonInv
<1>11. QED
  BY <1>4, <1>5, <1>6, <1>9, <1>10 DEF Training!TrainingInv

\* What is left to show of a request that ends: it changes nothing but what it is
\* about, and the record is in order.
LEMMA ReviewEnds ==
  ASSUME Training!Sound, Training!TrainingInv, NEW r \in Training!Slots, Training!End(r),
         UNCHANGED <<begun, crossed>>,
         \A c \in Claims :
           \/ claim'[c] = claim[c]
           \/ claim[c].status = "none" /\ claim'[c].of \in req[r].on
           \/ /\ claim[c].of \in req[r].on /\ claim'[c].of = claim[c].of
              /\ claim'[c].status \in {"approved", "denied"},
         \A t \in Ribbons \ req[r].on : ribbon'[t] = ribbon[t],
         \A f \in Ftxs \ req[r].on : f \in attended' <=> f \in attended,
         last' = last \/ "last" \in Training!Touches(req[r]),
         Training!TypeOK', \A t \in Ribbons : Training!RibbonInv(t)',
         Training!ApprovedIsOnRecord', Training!RecordsHaveGround', Training!OneClaimPending',
         Training!StarsAreKept', Training!LastFtxIsLatest', Training!CommentsStay'
  PROVE  Training!TrainingInv'
<1>1. /\ req \in [Training!Slots -> Training!Underway \cup {Training!NoRequest}]
      /\ req' = [req EXCEPT ![r] = Training!NoRequest]
  BY DEF Training!TrainingInv, Training!TypeInv, Training!End
<1>2. \A s \in Training!Slots : req'[s] = IF s = r THEN Training!NoRequest ELSE req[s]
  BY <1>1
<1>3. Training!TypeInv'
  BY <1>1 DEF Training!TypeInv
<1>4. Training!CrossInv'
  <2>1. SUFFICES ASSUME NEW s \in Training!Slots, NEW u \in Training!Slots, s # u
                 PROVE  Training!Touches(req'[s]) \cap Training!Touches(req'[u]) \subseteq crossed'
    BY DEF Training!CrossInv, Training!Touches
  <2>2. Training!Touches(Training!NoRequest) = {}
    BY DEF Training!Touches, Training!NoRequest
  <2>3. QED
    BY <1>2, <2>1, <2>2 DEF Training!TrainingInv, Training!CrossInv
<1>5. req[r].on \subseteq Training!Things
  <2>1. PICK q \in Training!Underway \cup {Training!NoRequest} : q = req[r]
    BY <1>1
  <2>2. q.on \subseteq Training!Things
    BY DEF Training!Underway, Training!Submissions, Training!Approvals, Training!Refusals,
       Training!Grants, Training!Awards, Training!Removals, Training!NoRequest, Training!Things
  <2>3. QED
    BY <2>1, <2>2
<1>6. \A s \in Training!Slots : Training!RequestInv(req[s])'
  <2>1. SUFFICES ASSUME NEW s \in Training!Slots PROVE Training!RequestInv(req[s])'
    OBVIOUS
  <2>2. CASE s = r
    <3>1. req'[s] = Training!NoRequest
      BY <1>2, <2>2
    <3>2. QED
      BY <3>1 DEF Training!RequestInv, Training!SubmitInv, Training!DecideInv,
         Training!ApproveInv, Training!NoRequest
  <2>3. CASE s # r
    <3> DEFINE U == Training!Touches(req[r])
    <3>1. req'[s] = req[s] /\ crossed \subseteq crossed'
      BY <1>2, <2>3
    <3>2. Training!Touches(req[s]) \cap U \subseteq crossed'
      BY <2>3 DEF Training!TrainingInv, Training!CrossInv
    <3>3. req[r].on \subseteq U
      BY DEF Training!Touches
    <3>4. \A c \in Claims :
            \/ claim'[c] = claim[c]
            \/ claim[c].status = "none" /\ claim'[c].of \in U
            \/ /\ claim[c].of \in U /\ claim'[c].of = claim[c].of
               /\ claim'[c].status \in {"approved", "denied"}
      BY <3>3
    <3>5. /\ \A t \in Ribbons \ U : ribbon'[t] = ribbon[t]
          /\ \A f \in Ftxs \ U : f \in attended' <=> f \in attended
          /\ last' = last \/ "last" \in U
      BY <3>3
    <3> HIDE DEF U
    <3>6. QED
      BY <3>1, <3>2, <3>4, <3>5, OtherReviews
  <2>4. QED
    BY <2>2, <2>3
<1>7. \A c \in Claims : Training!ClaimInv(c)'
  BY <1>5 DEF Training!TrainingInv, Training!ClaimInv
<1>8. QED
  BY <1>3, <1>4, <1>6, <1>7 DEF Training!TrainingInv

\* What a claim is for when its status is one that a request asks for.
LEMMA ClaimFacts ==
  ASSUME Training!TrainingInv, NEW c \in Claims
  PROVE  /\ \A u, s : claim[c] = [of |-> u, status |-> s] <=> claim[c].of = u /\ claim[c].status = s
         /\ claim[c] \in Training!ClaimType
         /\ claim[c].status # "none" => claim[c].of \in Training!Things
BY DEF Training!TrainingInv, Training!TypeInv, Training!TypeOK, Training!ClaimType, Training!ClaimInv

\* Submitting: none of what is asked for has a claim pending.
LEMMA SubmitBegins ==
  ASSUME Training!Sound, Training!TrainingInv, NEW things \in SUBSET Training!Things,
         Training!Submit(things)
  PROVE  Training!TrainingInv'
<1>1. PICK on : on = things \ Training!Pending(things)
  OBVIOUS
<1>2. PICK p : p = [op |-> "submit", on |-> on, claims |-> {}]
  OBVIOUS
<1>3. p \in Training!Underway /\ Training!Begin(p)
  BY <1>1, <1>2 DEF Training!Submit, Training!Underway, Training!Submissions
<1>4. \A t \in on : Training!Pending({t}) = {}
  BY <1>1 DEF Training!Pending
<1>5. Training!RequestInv(p)
  BY <1>2, <1>4 DEF Training!RequestInv, Training!SubmitInv, Training!DecideInv, Training!ApproveInv
<1>6. QED
  BY <1>3, <1>5, ReviewBegins

\* Approving: the stored ribbon, the attendance and the last FTX are what they are.
LEMMA ApproveBegins ==
  ASSUME Training!Sound, Training!TrainingInv, NEW c \in Claims, Training!Approve(c)
  PROVE  Training!TrainingInv'
<1>1. PICK t \in Training!Things : t = claim[c].of /\ claim[c].status = "pending"
  BY ClaimFacts DEF Training!Approve
<1>2. PICK d : d = Training!Derived(t, attended)
  OBVIOUS
<1>3. PICK b : b = IF t \in Ribbons THEN ribbon[t] ELSE Training!NoRibbon
  OBVIOUS
<1>4. PICK l, w : l = last /\ w = attended
  OBVIOUS
<1>5. PICK p : p = [op |-> "approve", on |-> {t}, claims |-> {c}, last |-> l, went |-> w,
                    stored |-> b, derived |-> d]
  OBVIOUS
<1>6. Training!Begin(p)
  BY <1>1, <1>2, <1>3, <1>4, <1>5 DEF Training!Approve
<1>7. p \in Training!Underway
  <2>1. l \in Training!Days /\ w \in SUBSET Ftxs
    BY <1>4 DEF Training!TrainingInv, Training!TypeInv, Training!TypeOK, Training!Days
  <2>2. Training!NoRibbon \in Training!RibbonType
    BY DEF Training!NoRibbon, Training!RibbonType, Training!Comments, Training!Sound
  <2>3. b \in Training!RibbonType
    BY <1>3, <2>2 DEF Training!TrainingInv, Training!TypeInv, Training!TypeOK
  <2>4. d \in 0..MaxDevices
    <3>1. CASE t \in Ribbons
      BY <1>2, <1>4, <2>1, <3>1 DEF Training!Sound
    <3>2. CASE t \notin Ribbons
      BY <1>2, <3>2 DEF Training!Sound, Training!Derived
    <3>3. QED
      BY <3>1, <3>2
  <2>5. p \in Training!Approvals
    BY <1>5, <2>1, <2>3, <2>4 DEF Training!Approvals
  <2>6. QED
    BY <2>5 DEF Training!Underway
<1>8. Training!RequestInv(p)
  BY <1>1, <1>2, <1>3, <1>4, <1>5 DEF Training!RequestInv, Training!SubmitInv, Training!DecideInv,
     Training!ApproveInv
<1>9. QED
  BY <1>6, <1>7, <1>8, ReviewBegins

\* Denying and revoking: the claim has been filed.
LEMMA RefusalBegins ==
  ASSUME Training!Sound, Training!TrainingInv, NEW c \in Claims,
         Training!Deny(c) \/ Training!Revoke(c)
  PROVE  Training!TrainingInv'
<1>1. PICK op \in {"deny", "revoke"} :
        /\ claim[c].status = IF op = "deny" THEN "pending" ELSE "approved"
        /\ Training!Begin([op |-> op, on |-> {claim[c].of}, claims |-> {c}])
  BY DEF Training!Deny, Training!Revoke
<1>2. PICK t \in Training!Things : t = claim[c].of
  BY <1>1, ClaimFacts
<1>3. PICK p : p = [op |-> op, on |-> {t}, claims |-> {c}]
  OBVIOUS
<1>4. Training!Begin(p)
  BY <1>1, <1>2, <1>3
<1>5. p \in Training!Underway
  BY <1>3 DEF Training!Underway, Training!Refusals
<1>6. Training!RequestInv(p)
  BY <1>1, <1>2, <1>3 DEF Training!RequestInv, Training!SubmitInv, Training!DecideInv,
     Training!ApproveInv
<1>7. QED
  BY <1>4, <1>5, <1>6, ReviewBegins

\* Granting and awarding directly reads no claim.
LEMMA GrantBegins ==
  ASSUME Training!Sound, Training!TrainingInv,
         \/ \E t \in Training!Records : Training!Grant(t)
         \/ \E t \in Ribbons :
              \/ Training!RevokeRibbon(t)
              \/ \E n \in 0..MaxDevices, comment \in {"blank", "text"} : Training!GrantRibbon(t, n, comment)
  PROVE  Training!TrainingInv'
<1>1. ASSUME NEW p \in Training!Underway, Training!Begin(p), p.claims = {},
             p.op \in {"grant", "ribbon", "unribbon"}
      PROVE  Training!TrainingInv'
  BY <1>1, ReviewBegins DEF Training!RequestInv, Training!SubmitInv, Training!DecideInv,
     Training!ApproveInv
<1>2. CASE \E t \in Training!Records : Training!Grant(t)
  <2>1. PICK t \in Training!Records : Training!Grant(t)
    BY <1>2
  <2>2. [op |-> "grant", on |-> {t}, claims |-> {}] \in Training!Underway
    BY DEF Training!Underway, Training!Grants
  <2>3. QED
    BY <1>1, <2>1, <2>2 DEF Training!Grant
<1>3. CASE \E t \in Ribbons : Training!RevokeRibbon(t)
  <2>1. PICK t \in Ribbons : Training!RevokeRibbon(t)
    BY <1>3
  <2>2. [op |-> "unribbon", on |-> {t}, claims |-> {}] \in Training!Underway
    BY DEF Training!Underway, Training!Removals
  <2>3. QED
    BY <1>1, <2>1, <2>2 DEF Training!RevokeRibbon
<1>4. CASE \E t \in Ribbons, n \in 0..MaxDevices, comment \in {"blank", "text"} :
             Training!GrantRibbon(t, n, comment)
  <2>1. PICK t \in Ribbons, n \in 0..MaxDevices, comment \in {"blank", "text"} :
               Training!GrantRibbon(t, n, comment)
    BY <1>4
  <2>2. PICK b \in Training!RibbonType : b = ribbon[t]
    BY DEF Training!TrainingInv, Training!TypeInv, Training!TypeOK
  <2>3. PICK p : p = [op |-> "ribbon", on |-> {t}, claims |-> {}, stored |-> b, n |-> n, comment |-> comment]
    OBVIOUS
  <2>4. p \in Training!Underway
    BY <2>3 DEF Training!Underway, Training!Awards
  <2>5. QED
    BY <1>1, <2>1, <2>2, <2>3, <2>4 DEF Training!GrantRibbon
<1>5. QED
  BY <1>2, <1>3, <1>4

\* What a request in progress is, by what it came for.
LEMMA ReviewIs ==
  ASSUME Training!Sound, Training!TrainingInv, NEW r \in Training!Slots
  PROVE  /\ req[r].op = "submit" => req[r].on \subseteq Training!Things /\ req[r].claims = {}
         /\ req[r].op = "approve" => req[r] \in Training!Approvals
         /\ req[r].op \in {"deny", "revoke"} => req[r] \in Training!Refusals
         /\ req[r].op = "grant" => req[r] \in Training!Grants
         /\ req[r].op = "ribbon" => req[r] \in Training!Awards
         /\ req[r].op = "unribbon" => req[r] \in Training!Removals
         /\ Training!RequestInv(req[r])
<1>1. PICK q \in Training!Underway \cup {Training!NoRequest} : q = req[r]
  BY DEF Training!TrainingInv, Training!TypeInv
<1>2. Training!RequestInv(req[r])
  BY DEF Training!TrainingInv
<1>3. /\ q.op = "submit" => q.on \subseteq Training!Things /\ q.claims = {}
      /\ q.op = "approve" => q \in Training!Approvals
      /\ q.op \in {"deny", "revoke"} => q \in Training!Refusals
      /\ q.op = "grant" => q \in Training!Grants
      /\ q.op = "ribbon" => q \in Training!Awards
      /\ q.op = "unribbon" => q \in Training!Removals
  BY DEF Training!Underway, Training!Submissions, Training!Approvals, Training!Refusals,
     Training!Grants, Training!Awards, Training!Removals, Training!NoRequest
<1>4. QED
  BY <1>1, <1>2, <1>3

\* What the ribbons are is not disturbed by a request that leaves them alone.
LEMMA SameRibbons ==
  ASSUME Training!TrainingInv, UNCHANGED <<ribbon, dimmed, erased, crossed>>
  PROVE  /\ \A t \in Ribbons : Training!RibbonInv(t)'
         /\ Training!StarsAreKept' /\ Training!CommentsStay'
BY DEF Training!TrainingInv, Training!RibbonInv, Training!StarsAreKept, Training!CommentsStay

\* A request that is refused at its commit.
LEMMA ReviewRefused ==
  ASSUME Training!Sound, Training!TrainingInv, NEW r \in Training!Slots, Training!Refused(r)
  PROVE  Training!TrainingInv'
<1>1. UNCHANGED <<claim, rows, ribbon, attended, last, licence, begun, granted, undone, crossed, dimmed, erased>>
      /\ Training!End(r)
  BY DEF Training!Refused
<1>2. Training!TypeOK'
  BY <1>1 DEF Training!TrainingInv, Training!TypeInv, Training!TypeOK
<1>3. (\A t : Training!OnRecord(t)' <=> Training!OnRecord(t))
      /\ \A t : Training!ApprovedFor(t)' = Training!ApprovedFor(t)
  BY <1>1 DEF Training!OnRecord, Training!ApprovedFor
<1>4. /\ Training!ApprovedIsOnRecord' /\ Training!RecordsHaveGround' /\ Training!OneClaimPending'
      /\ Training!LastFtxIsLatest'
  BY <1>1, <1>3 DEF Training!TrainingInv, Training!ApprovedIsOnRecord,
     Training!RecordsHaveGround, Training!OneClaimPending, Training!LastFtxIsLatest
<1>5. QED
  BY <1>1, <1>2, <1>4, SameRibbons, ReviewEnds

\* The claims are filed: one for each thing that had none pending.
LEMMA SubmitEnds ==
  ASSUME Training!Sound, Training!TrainingInv, NEW r \in Training!Slots, Training!CommitSubmit(r)
  PROVE  Training!TrainingInv'
<1>1. PICK on \in SUBSET Training!Things : on = req[r].on
  BY ReviewIs DEF Training!CommitSubmit
<1>2. PICK filing \in [on -> Training!Free] :
        /\ \A s, t \in on : s # t => filing[s] # filing[t]
        /\ claim' = [c \in Claims |-> IF \E t \in on : filing[t] = c
                       THEN [of |-> CHOOSE t \in on : filing[t] = c, status |-> "pending"]
                       ELSE claim[c]]
  BY <1>1 DEF Training!CommitSubmit
<1>3. /\ UNCHANGED <<rows, ribbon, attended, last, licence, begun, granted, undone, crossed, dimmed, erased>>
      /\ Training!End(r) /\ req[r].op = "submit"
  BY DEF Training!CommitSubmit
<1>4. \A c \in Claims :
        \/ claim'[c] = claim[c]
        \/ /\ claim[c].status = "none" /\ filing[claim'[c].of] = c
           /\ claim'[c].of \in on /\ claim'[c].status = "pending" /\ claim'[c] \in Training!ClaimType
  <2>1. SUFFICES ASSUME NEW c \in Claims, NEW u \in on, filing[u] = c
                 PROVE  /\ claim[c].status = "none" /\ filing[claim'[c].of] = c
                        /\ claim'[c].of \in on /\ claim'[c].status = "pending"
                        /\ claim'[c] \in Training!ClaimType
    BY <1>2
  <2>2. PICK t \in on : t = (CHOOSE s \in on : filing[s] = c) /\ filing[t] = c
    BY <2>1
  <2>3. claim'[c] = [of |-> t, status |-> "pending"]
    BY <1>2, <2>1, <2>2
  <2>4. claim[c].status = "none"
    BY <2>1 DEF Training!Free
  <2>5. claim'[c] \in Training!ClaimType
    BY <1>1, <2>2, <2>3 DEF Training!ClaimType, Training!Statuses
  <2>6. QED
    BY <2>2, <2>3, <2>4, <2>5
<1>5. Training!TypeOK'
  <2>1. claim' \in [Claims -> Training!ClaimType]
    <3>1. SUFFICES ASSUME NEW c \in Claims PROVE claim'[c] \in Training!ClaimType
      BY <1>2
    <3>2. QED
      BY <1>4, ClaimFacts
  <2>2. QED
    BY <1>3, <2>1 DEF Training!TrainingInv, Training!TypeInv, Training!TypeOK
<1>6. \A c \in Claims : claim[c].status = "approved" \/ claim'[c].status = "approved"
                          => claim'[c] = claim[c]
  BY <1>4
<1>7. \A t : Training!OnRecord(t)' <=> Training!OnRecord(t)
  BY <1>3 DEF Training!OnRecord
<1>8. Training!ApprovedIsOnRecord' /\ Training!LastFtxIsLatest'
  BY <1>3, <1>6, <1>7 DEF Training!TrainingInv, Training!ApprovedIsOnRecord, Training!LastFtxIsLatest
<1>9. Training!RecordsHaveGround'
  <2>1. \A t : Training!ApprovedFor(t) \subseteq Training!ApprovedFor(t)'
    BY <1>6 DEF Training!ApprovedFor
  <2>2. QED
    BY <1>3, <2>1 DEF Training!TrainingInv, Training!RecordsHaveGround
<1>10. Training!OneClaimPending'
  <2>1. SUFFICES ASSUME NEW c \in Claims, NEW d \in Claims, c # d, claim'[c].status = "pending",
                        claim'[d].status = "pending", claim'[c].of = claim'[d].of
                 PROVE  claim'[c].of \in crossed
    BY <1>3 DEF Training!OneClaimPending
  <2>2. ASSUME NEW e \in Claims, NEW g \in Claims, claim'[e] # claim[e], claim'[g] = claim[g],
               claim'[e].of = claim'[g].of, claim'[g].status = "pending"
        PROVE  claim'[e].of \in crossed
    <3>1. claim'[e].of \in on
      BY <1>4, <2>2
    <3>2. claim[g] = [of |-> claim'[e].of, status |-> "pending"]
      BY <2>2, ClaimFacts
    <3>3. Training!Pending({claim'[e].of}) # {}
      BY <3>2 DEF Training!Pending
    <3>4. QED
      BY <1>1, <1>3, <3>1, <3>3, ReviewIs DEF Training!RequestInv, Training!SubmitInv
  <2>3. CASE claim'[c] = claim[c] /\ claim'[d] = claim[d]
    BY <2>1, <2>3 DEF Training!TrainingInv, Training!OneClaimPending
  <2>4. CASE claim'[c] # claim[c] /\ claim'[d] = claim[d]
    BY <2>1, <2>2, <2>4
  <2>5. CASE claim'[c] = claim[c] /\ claim'[d] # claim[d]
    BY <2>1, <2>2, <2>5
  <2>6. CASE claim'[c] # claim[c] /\ claim'[d] # claim[d]
    BY <1>4, <2>1, <2>6
  <2>7. QED
    BY <2>3, <2>4, <2>5, <2>6
<1>11. \A c \in Claims :
        \/ claim'[c] = claim[c]
        \/ claim[c].status = "none" /\ claim'[c].of \in req[r].on
  BY <1>1, <1>4
<1>12. QED
  BY <1>3, <1>5, <1>8, <1>9, <1>10, <1>11, SameRibbons, ReviewEnds

\* A claim is denied or revoked; revoking deletes the rows.
LEMMA RefusalEnds ==
  ASSUME Training!Sound, Training!TrainingInv, NEW r \in Training!Slots,
         Training!CommitDeny(r) \/ Training!CommitRevoke(r)
  PROVE  Training!TrainingInv'
<1>1. /\ Training!End(r) /\ req[r].op \in {"deny", "revoke"}
      /\ claim' = [c \in Claims |-> IF c \in req[r].claims THEN [claim[c] EXCEPT !.status = "denied"] ELSE claim[c]]
      /\ UNCHANGED <<ribbon, attended, last, licence, begun, crossed, dimmed, erased>>
  BY DEF Training!CommitDeny, Training!CommitRevoke
<1>2. PICK t \in Training!Things, c \in Claims : req[r].on = {t} /\ req[r].claims = {c}
  BY <1>1, ReviewIs DEF Training!Refusals
<1>3. /\ claim[c].of = t /\ claim[c].status # "none"
      /\ req[r].op = "deny" => t \in crossed \/ claim[c].status = "pending"
  BY <1>2, ReviewIs DEF Training!RequestInv, Training!DecideInv
<1>4. \A d \in Claims : IF d = c THEN claim'[d] = [of |-> t, status |-> "denied"]
                                 ELSE claim'[d] = claim[d]
  <2>1. claim'[c] = [of |-> t, status |-> "denied"]
    <3>1. claim[c] = [of |-> t, status |-> claim[c].status]
      BY <1>3, ClaimFacts
    <3>2. PICK s : claim[c] = [of |-> t, status |-> s]
      BY <3>1
    <3>3. QED
      BY <1>1, <1>2, <3>2
  <2>2. QED
    BY <1>1, <1>2, <2>1
<1>5. \/ req[r].op = "deny" /\ UNCHANGED <<rows, granted, undone>>
      \/ /\ req[r].op = "revoke" /\ granted' = granted \ {t}
         /\ rows' = [u \in Training!Records |-> IF u = t THEN 0 ELSE rows[u]]
         /\ undone' = undone \cup UNION {Training!ApprovedFor(u) : u \in {t} \cap Training!Records}
  BY <1>2 DEF Training!CommitDeny, Training!CommitRevoke, Training!Deleted
<1>6. Training!TypeOK'
  <2>1. claim' \in [Claims -> Training!ClaimType]
    <3>1. SUFFICES ASSUME NEW d \in Claims PROVE claim'[d] \in Training!ClaimType
      BY <1>1
    <3>2. CASE d = c
      BY <1>2, <1>4, <3>2 DEF Training!ClaimType, Training!Statuses
    <3>3. CASE d # c
      BY <1>4, <3>3, ClaimFacts
    <3>4. QED
      BY <3>2, <3>3
  <2>2. rows' \in [Training!Records -> Nat]
    BY <1>5 DEF Training!TrainingInv, Training!TypeInv, Training!TypeOK
  <2>3. QED
    BY <1>1, <2>1, <2>2 DEF Training!TrainingInv, Training!TypeInv, Training!TypeOK
<1>7. Training!ApprovedIsOnRecord'
  <2>1. SUFFICES ASSUME NEW d \in Claims, d \notin undone', claim'[d].status = "approved",
                        NEW u, u = claim'[d].of
                 PROVE  u \in crossed' \/ Training!OnRecord(u)'
    BY DEF Training!ApprovedIsOnRecord, Training!OnRecord
  <2>2. claim'[d] = claim[d] /\ claim[d] = [of |-> u, status |-> "approved"] /\ u \in Training!Things
    <3>1. d # c
      BY <1>4, <2>1
    <3>2. claim'[d] = claim[d]
      BY <1>4, <3>1
    <3>3. QED
      BY <2>1, <3>2, ClaimFacts
  <2>3. d \notin undone /\ (u \in crossed \/ Training!OnRecord(u))
    BY <1>5, <2>1, <2>2 DEF Training!TrainingInv, Training!ApprovedIsOnRecord
  <2>4. u \in Training!Records => rows'[u] = rows[u]
    <3>1. d \in Training!ApprovedFor(u)
      BY <2>2 DEF Training!ApprovedFor
    <3>2. QED
      BY <1>5, <2>1, <3>1
  <2>5. Training!OnRecord(u)' <=> Training!OnRecord(u)
    BY <1>1, <2>4 DEF Training!OnRecord
  <2>6. QED
    BY <1>1, <2>3, <2>5
<1>8. Training!RecordsHaveGround'
  <2>1. SUFFICES ASSUME NEW u \in Training!Records, rows'[u] > 0, u \notin granted' \cup crossed
                 PROVE  Training!ApprovedFor(u)' # {}
    BY <1>1 DEF Training!RecordsHaveGround
  <2>2. rows[u] > 0 /\ u \notin granted /\ (req[r].op = "revoke" => u # t)
    BY <1>5, <2>1
  <2>3. PICK d \in Claims : claim[d] = [of |-> u, status |-> "approved"]
    BY <2>1, <2>2 DEF Training!TrainingInv, Training!RecordsHaveGround, Training!ApprovedFor
  <2>4. d # c
    BY <1>1, <1>3, <2>1, <2>2, <2>3
  <2>5. QED
    BY <1>4, <2>3, <2>4 DEF Training!ApprovedFor
<1>9. Training!OneClaimPending' /\ Training!LastFtxIsLatest'
  BY <1>1, <1>4 DEF Training!TrainingInv, Training!OneClaimPending, Training!LastFtxIsLatest
<1>10. \A d \in Claims :
        \/ claim'[d] = claim[d]
        \/ /\ claim[d].of \in req[r].on /\ claim'[d].of = claim[d].of
           /\ claim'[d].status \in {"approved", "denied"}
  BY <1>2, <1>3, <1>4
<1>11. QED
  BY <1>1, <1>6, <1>7, <1>8, <1>9, <1>10, SameRibbons, ReviewEnds

\* A record is entered directly.
LEMMA GrantEnds ==
  ASSUME Training!Sound, Training!TrainingInv, NEW r \in Training!Slots, Training!CommitGrant(r)
  PROVE  Training!TrainingInv'
<1>1. /\ Training!End(r) /\ granted' = granted \cup req[r].on
      /\ rows' = [t \in Training!Records |-> IF t \in req[r].on THEN rows[t] + 1 ELSE rows[t]]
      /\ UNCHANGED <<claim, ribbon, attended, last, licence, begun, undone, crossed, dimmed, erased>>
  BY DEF Training!CommitGrant
<1>2. /\ rows \in [Training!Records -> Nat] /\ rows' \in [Training!Records -> Nat]
      /\ \A t \in Training!Records : rows'[t] >= rows[t]
  BY <1>1 DEF Training!TrainingInv, Training!TypeInv, Training!TypeOK
<1>3. Training!TypeOK'
  BY <1>1, <1>2 DEF Training!TrainingInv, Training!TypeInv, Training!TypeOK
<1>4. \A t \in Training!Things : Training!OnRecord(t) => Training!OnRecord(t)'
  BY <1>1, <1>2, OnRecordIs
<1>5. Training!ApprovedIsOnRecord'
  <2>1. SUFFICES ASSUME NEW d \in Claims, d \notin undone, claim[d].status = "approved",
                        NEW u, u = claim[d].of
                 PROVE  u \in crossed \/ Training!OnRecord(u)'
    BY <1>1 DEF Training!ApprovedIsOnRecord, Training!OnRecord
  <2>2. u \in Training!Things /\ (u \in crossed \/ Training!OnRecord(u))
    BY <2>1, ClaimFacts DEF Training!TrainingInv, Training!ApprovedIsOnRecord
  <2>3. QED
    BY <1>4, <2>2
<1>6. \A t : Training!ApprovedFor(t)' = Training!ApprovedFor(t)
  BY <1>1 DEF Training!ApprovedFor
<1>7. Training!RecordsHaveGround'
  BY <1>1, <1>2, <1>6 DEF Training!TrainingInv, Training!RecordsHaveGround
<1>8. Training!OneClaimPending' /\ Training!LastFtxIsLatest'
  BY <1>1 DEF Training!TrainingInv, Training!OneClaimPending, Training!LastFtxIsLatest
<1>9. QED
  BY <1>1, <1>3, <1>5, <1>7, <1>8, SameRibbons, ReviewEnds

\* A comment on the row of an award is not erased by a blank one.
LEMMA CiteKeeps ==
  ASSUME NEW cites \in [0..MaxDevices -> Training!Comments], NEW n \in 0..MaxDevices,
         NEW comment \in {"blank", "text"}
  PROVE  /\ Training!Cite(cites, n, comment) \in [0..MaxDevices -> Training!Comments]
         /\ \A m \in 0..MaxDevices : cites[m] = "text" => Training!Cite(cites, n, comment)[m] = "text"
<1>1. PICK x : x = IF cites[n] = "none" \/ comment = "text" THEN comment ELSE cites[n]
  OBVIOUS
<1>2. Training!Cite(cites, n, comment) = [cites EXCEPT ![n] = x]
  BY <1>1 DEF Training!Cite
<1>3. x \in Training!Comments /\ (cites[n] = "text" => x = "text")
  BY <1>1 DEF Training!Comments
<1>4. \A m \in 0..MaxDevices : [cites EXCEPT ![n] = x][m] = IF m = n THEN x ELSE cites[m]
  OBVIOUS
<1>5. QED
  BY <1>2, <1>3, <1>4

\* A ribbon is awarded with a comment.
LEMMA RibbonEnds ==
  ASSUME Training!Sound, Training!TrainingInv, NEW r \in Training!Slots, Training!CommitRibbon(r)
  PROVE  Training!TrainingInv'
<1>1. req[r] \in Training!Awards /\ req[r].op = "ribbon"
  BY ReviewIs DEF Training!CommitRibbon
<1>2. PICK t \in Ribbons : req[r].on = {t}
  BY <1>1 DEF Training!Awards
<1>3. CASE Training!Refused(r)
  BY <1>3, ReviewRefused
<1>4. CASE ~Training!Refused(r)
  <2>1. /\ ribbon' = [ribbon EXCEPT ![t] = Training!Awarded(req[r], t)] /\ Training!End(r)
        /\ erased' = erased \cup Training!Erased(t)
        /\ UNCHANGED <<claim, rows, attended, last, licence, begun, granted, undone, crossed, dimmed>>
    BY <1>2, <1>4 DEF Training!CommitRibbon
  <2>2. ribbon \in [Ribbons -> Training!RibbonType]
    BY DEF Training!TrainingInv, Training!TypeInv, Training!TypeOK
  <2>3. PICK b \in Training!RibbonType : b = ribbon[t]
    BY <2>2
  <2>4. PICK a : a = Training!Awarded(req[r], t)
    OBVIOUS
  <2>5. /\ a \in Training!RibbonType /\ a.held = TRUE
        /\ \A n \in 0..MaxDevices : b.cites[n] = "text" => a.cites[n] = "text"
    <3>1. PICK n \in 0..MaxDevices, comment \in {"blank", "text"} :
            n = req[r].n /\ comment = req[r].comment
      BY <1>1 DEF Training!Awards
    <3>2. PICK cites : cites = Training!Cite(b.cites, n, comment)
      OBVIOUS
    <3>3. PICK d : d = IF n = req[r].stored.devices THEN b.devices ELSE n
      OBVIOUS
    <3>4. d \in 0..MaxDevices /\ b.cites \in [0..MaxDevices -> Training!Comments]
      BY <3>3 DEF Training!RibbonType
    <3>5. a = [held |-> TRUE, devices |-> d, cites |-> cites]
      BY <2>3, <2>4, <3>1, <3>2, <3>3 DEF Training!Awarded
    <3>6. /\ cites \in [0..MaxDevices -> Training!Comments]
          /\ \A m \in 0..MaxDevices : b.cites[m] = "text" => cites[m] = "text"
      BY <3>2, <3>4, CiteKeeps
    <3>7. QED
      BY <3>4, <3>5, <3>6 DEF Training!RibbonType
  <2>6. ribbon' = [ribbon EXCEPT ![t] = a]
    BY <2>1, <2>4
  <2>7. ribbon' \in [Ribbons -> Training!RibbonType] /\ ribbon'[t] = a
        /\ \A u \in Ribbons : u # t => ribbon'[u] = ribbon[u]
    BY <2>2, <2>5, <2>6
  <2>8. Training!TypeOK'
    BY <2>1, <2>7 DEF Training!TrainingInv, Training!TypeInv, Training!TypeOK
  <2>9. \A u \in Ribbons : Training!RibbonInv(u)'
    BY <2>5, <2>7 DEF Training!TrainingInv, Training!RibbonInv
  <2>10. Training!CommentsStay'
    <3>1. Training!Erased(t) = {}
      BY <2>3, <2>5, <2>7 DEF Training!Erased
    <3>2. QED
      BY <2>1, <3>1 DEF Training!TrainingInv, Training!CommentsStay
  <2>11. Training!ApprovedIsOnRecord'
    <3>1. SUFFICES ASSUME NEW d \in Claims, d \notin undone, claim[d].status = "approved",
                          NEW u, u = claim[d].of
                   PROVE  u \in crossed \/ Training!OnRecord(u)'
      BY <2>1 DEF Training!ApprovedIsOnRecord, Training!OnRecord
    <3>2. u \in crossed \/ Training!OnRecord(u)
      BY <3>1 DEF Training!TrainingInv, Training!ApprovedIsOnRecord
    <3>3. QED
      BY <2>1, <2>5, <2>7, <3>2 DEF Training!OnRecord
  <2>12. \A u : Training!ApprovedFor(u)' = Training!ApprovedFor(u)
    BY <2>1 DEF Training!ApprovedFor
  <2>13. /\ Training!RecordsHaveGround' /\ Training!OneClaimPending' /\ Training!LastFtxIsLatest'
         /\ Training!StarsAreKept'
    BY <2>1, <2>12 DEF Training!TrainingInv, Training!RecordsHaveGround, Training!OneClaimPending,
       Training!LastFtxIsLatest, Training!StarsAreKept
  <2>14. \A u \in Ribbons \ req[r].on : ribbon'[u] = ribbon[u]
    BY <1>2, <2>7
  <2>15. QED
    BY <2>1, <2>8, <2>9, <2>10, <2>11, <2>13, <2>14, ReviewEnds
<1>5. QED
  BY <1>3, <1>4

\* A ribbon is taken away, its comments with it.
LEMMA UnribbonEnds ==
  ASSUME Training!Sound, Training!TrainingInv, NEW r \in Training!Slots, Training!CommitUnribbon(r)
  PROVE  Training!TrainingInv'
<1>1. /\ Training!End(r)
      /\ ribbon' = [t \in Ribbons |-> IF t \in req[r].on THEN Training!NoRibbon ELSE ribbon[t]]
      /\ undone' = undone \cup UNION {Training!ApprovedFor(t) : t \in req[r].on}
      /\ UNCHANGED <<claim, rows, attended, last, licence, begun, granted, crossed, dimmed, erased>>
  BY DEF Training!CommitUnribbon
<1>2. Training!NoRibbon \in Training!RibbonType
  BY DEF Training!NoRibbon, Training!RibbonType, Training!Comments, Training!Sound
<1>3. ribbon' \in [Ribbons -> Training!RibbonType]
  BY <1>1, <1>2 DEF Training!TrainingInv, Training!TypeInv, Training!TypeOK
<1>4. Training!TypeOK'
  BY <1>1, <1>3 DEF Training!TrainingInv, Training!TypeInv, Training!TypeOK
<1>5. \A t \in Ribbons : Training!RibbonInv(t)'
  BY <1>1 DEF Training!TrainingInv, Training!RibbonInv
<1>6. Training!ApprovedIsOnRecord'
  <2>1. SUFFICES ASSUME NEW d \in Claims, d \notin undone', claim'[d].status = "approved",
                        NEW u, u = claim'[d].of
                 PROVE  u \in crossed' \/ Training!OnRecord(u)'
    BY DEF Training!ApprovedIsOnRecord, Training!OnRecord
  <2>2. claim'[d] = claim[d] /\ claim[d] = [of |-> u, status |-> "approved"]
    BY <1>1, <2>1, ClaimFacts
  <2>3. d \notin undone /\ (u \in crossed \/ Training!OnRecord(u))
    BY <1>1, <2>1, <2>2 DEF Training!TrainingInv, Training!ApprovedIsOnRecord
  <2>4. u \notin req[r].on
    <3>1. d \in Training!ApprovedFor(u)
      BY <2>2 DEF Training!ApprovedFor
    <3>2. QED
      BY <1>1, <2>1, <3>1
  <2>5. u \in Ribbons => ribbon'[u] = ribbon[u]
    BY <1>1, <2>4
  <2>6. QED
    BY <1>1, <2>3, <2>5 DEF Training!OnRecord
<1>7. \A u : Training!ApprovedFor(u)' = Training!ApprovedFor(u)
  BY <1>1 DEF Training!ApprovedFor
<1>8. /\ Training!RecordsHaveGround' /\ Training!OneClaimPending' /\ Training!LastFtxIsLatest'
      /\ Training!StarsAreKept' /\ Training!CommentsStay'
  BY <1>1, <1>7 DEF Training!TrainingInv, Training!RecordsHaveGround, Training!OneClaimPending,
     Training!LastFtxIsLatest, Training!StarsAreKept, Training!CommentsStay
<1>9. \A t \in Ribbons \ req[r].on : ribbon'[t] = ribbon[t]
  BY <1>1
<1>10. QED
  BY <1>1, <1>4, <1>5, <1>6, <1>8, <1>9, ReviewEnds

\* Attendance is entered or corrected.
LEMMA AttendanceChanges ==
  ASSUME Training!Sound, Training!TrainingInv, NEW f \in Ftxs, Training!Attend(f) \/ Training!Correct(f)
  PROVE  Training!TrainingInv'
<1>1. /\ crossed' = crossed \cup ({f} \cap UNION {req[r].on : r \in Training!Slots})
      /\ UNCHANGED <<claim, rows, ribbon, last, licence, req, begun, granted, dimmed, erased>>
      /\ attended' \subseteq Ftxs /\ \A g \in Ftxs : g # f => (g \in attended' <=> g \in attended)
      /\ \/ attended' = attended \cup {f} /\ undone' = undone
         \/ undone' = undone \cup Training!ApprovedFor(f)
  BY DEF Training!Attend, Training!Correct, Training!Overlaps, Training!TrainingInv,
     Training!TypeInv, Training!TypeOK
<1>2. Training!TypeInv'
  BY <1>1 DEF Training!TrainingInv, Training!TypeInv, Training!TypeOK
<1>3. Training!CrossInv'
  BY <1>1 DEF Training!TrainingInv, Training!CrossInv, Training!Touches
<1>4. \A s \in Training!Slots : Training!RequestInv(req[s])'
  <2>1. SUFFICES ASSUME NEW s \in Training!Slots PROVE Training!RequestInv(req[s])'
    OBVIOUS
  <2>2. Training!Touches(req[s]) \cap {f} \subseteq crossed'
    BY <1>1 DEF Training!Touches, Training!Sound, Training!Things
  <2>3. /\ \A c \in Claims : claim'[c] = claim[c]
        /\ \A t \in Ribbons \ {f} : ribbon'[t] = ribbon[t]
        /\ \A g \in Ftxs \ {f} : g \in attended' <=> g \in attended
        /\ last' = last /\ req'[s] = req[s] /\ crossed \subseteq crossed'
    BY <1>1
  <2>4. QED
    BY <2>2, <2>3, OtherReviews
<1>5. Training!ApprovedIsOnRecord'
  <2>1. SUFFICES ASSUME NEW d \in Claims, d \notin undone', claim'[d].status = "approved",
                        NEW u, u = claim'[d].of
                 PROVE  u \in crossed' \/ Training!OnRecord(u)'
    BY DEF Training!ApprovedIsOnRecord, Training!OnRecord
  <2>2. claim'[d] = claim[d] /\ claim[d] = [of |-> u, status |-> "approved"]
    BY <1>1, <2>1, ClaimFacts
  <2>3. d \notin undone /\ (u \in crossed \/ Training!OnRecord(u))
    BY <1>1, <2>1, <2>2 DEF Training!TrainingInv, Training!ApprovedIsOnRecord
  <2>4. d \in Training!ApprovedFor(u)
    BY <2>2 DEF Training!ApprovedFor
  <2>5. u \in attended => u \in Ftxs /\ u \in attended'
    BY <1>1, <2>1, <2>4 DEF Training!TrainingInv, Training!TypeInv, Training!TypeOK
  <2>6. QED
    BY <1>1, <2>3, <2>5 DEF Training!OnRecord
<1>6. \A u : Training!ApprovedFor(u)' = Training!ApprovedFor(u)
  BY <1>1 DEF Training!ApprovedFor
<1>7. /\ Training!RecordsHaveGround' /\ Training!OneClaimPending' /\ Training!LastFtxIsLatest'
      /\ Training!StarsAreKept' /\ Training!CommentsStay'
  BY <1>1, <1>6 DEF Training!TrainingInv, Training!RecordsHaveGround, Training!OneClaimPending,
     Training!LastFtxIsLatest, Training!StarsAreKept, Training!CommentsStay
<1>8. (\A c \in Claims : Training!ClaimInv(c)') /\ \A t \in Ribbons : Training!RibbonInv(t)'
  BY <1>1 DEF Training!TrainingInv, Training!ClaimInv, Training!RibbonInv
<1>9. QED
  BY <1>2, <1>3, <1>4, <1>5, <1>7, <1>8 DEF Training!TrainingInv

\* What approving a claim makes of a ribbon that is as it was read, or has crossed.
LEMMA ClaimedRibbon ==
  ASSUME Training!Sound, Training!TrainingInv, NEW t \in Ribbons, NEW q \in Training!Approvals,
         t \in crossed \/ q.stored = ribbon[t], q.derived = Training!Derived(t, q.went),
         ~Training!Broken(q, t, q.derived > q.stored.devices),
         ribbon' = IF ~q.stored.held \/ q.derived > q.stored.devices
                   THEN [ribbon EXCEPT ![t] = Training!Claimed(q, t)] ELSE ribbon
  PROVE  /\ ribbon' \in [Ribbons -> Training!RibbonType]
         /\ \A u \in Ribbons : u # t => ribbon'[u] = ribbon[u]
         /\ t \in crossed \/ ribbon'[t].held
         /\ \A u \in Ribbons : ribbon[u].held => ribbon'[u].held
         /\ Training!RibbonInv(t)'
         /\ t \in crossed \/ ~(Training!Counted(ribbon', t, q.went) < Training!Counted(ribbon, t, q.went))
         /\ Training!Erased(t) = {}
<1>1. ribbon \in [Ribbons -> Training!RibbonType]
  BY DEF Training!TrainingInv, Training!TypeInv, Training!TypeOK
<1>2. PICK b \in Training!RibbonType : b = ribbon[t]
  BY <1>1
<1>3. b.held \/ b = Training!NoRibbon
  BY <1>2 DEF Training!TrainingInv, Training!RibbonInv
<1>4. /\ q.stored \in Training!RibbonType /\ q.derived \in 0..MaxDevices /\ q.derived \in Int
      /\ q.stored.devices \in Int /\ b.devices \in Int
  BY DEF Training!Approvals, Training!RibbonType, Training!Sound
<1>5. Training!Counted(ribbon, t, q.went) = IF b.held THEN b.devices ELSE q.derived
  BY <1>2 DEF Training!Counted
<1>6. CASE ~q.stored.held
  <2>1. b = Training!NoRibbon /\ ~b.held
    BY <1>2, <1>3, <1>6 DEF Training!Broken, Training!NoRibbon
  <2>2. PICK cites : cites = Training!Cite(Training!NoRibbon.cites, 0, "text")
    OBVIOUS
  <2>3. cites \in [0..MaxDevices -> Training!Comments]
    <3>1. /\ Training!NoRibbon.cites \in [0..MaxDevices -> Training!Comments]
          /\ 0 \in 0..MaxDevices /\ "text" \in {"blank", "text"}
      BY DEF Training!NoRibbon, Training!Comments, Training!Sound
    <3>2. QED
      BY <2>2, <3>1, CiteKeeps
  <2>4. PICK a : a = [held |-> TRUE, devices |-> q.derived, cites |-> cites]
    OBVIOUS
  <2>5. a \in Training!RibbonType /\ a.held = TRUE /\ a.devices = q.derived
    BY <1>4, <2>3, <2>4 DEF Training!RibbonType
  <2>6. ribbon' = [ribbon EXCEPT ![t] = a]
    BY <1>6, <2>2, <2>4 DEF Training!Claimed
  <2>7. /\ ribbon' \in [Ribbons -> Training!RibbonType] /\ ribbon'[t] = a
        /\ \A u \in Ribbons : u # t => ribbon'[u] = ribbon[u]
    BY <1>1, <2>5, <2>6
  <2>8. Training!RibbonInv(t)'
    BY <2>5, <2>7 DEF Training!RibbonInv
  <2>9. Training!Counted(ribbon', t, q.went) = q.derived
    BY <2>5, <2>7 DEF Training!Counted
  <2>10. Training!Erased(t) = {}
    <3>1. b.cites = [n \in 0..MaxDevices |-> "none"]
      BY <2>1 DEF Training!NoRibbon
    <3>2. \A n \in 0..MaxDevices : b.cites[n] # "text"
      BY <3>1
    <3>3. QED
      BY <1>2, <3>2 DEF Training!Erased
  <2>11. \A u \in Ribbons : ribbon[u].held => ribbon'[u].held
    BY <2>5, <2>7
  <2>12. QED
    BY <1>4, <1>5, <2>1, <2>5, <2>7, <2>8, <2>9, <2>10, <2>11
<1>7. CASE q.stored.held /\ q.derived > q.stored.devices
  <2>1. b.held
    BY <1>2, <1>7 DEF Training!Broken
  <2>2. PICK a : a = [b EXCEPT !.devices = q.derived]
    OBVIOUS
  <2>3. /\ a \in Training!RibbonType /\ a.held = b.held /\ a.devices = q.derived
        /\ a.cites = b.cites
    BY <1>4, <2>2 DEF Training!RibbonType
  <2>4. ribbon' = [ribbon EXCEPT ![t] = a]
    BY <1>2, <1>7, <2>2 DEF Training!Claimed
  <2>5. /\ ribbon' \in [Ribbons -> Training!RibbonType] /\ ribbon'[t] = a
        /\ \A u \in Ribbons : u # t => ribbon'[u] = ribbon[u]
    BY <1>1, <2>3, <2>4
  <2>6. Training!RibbonInv(t)'
    BY <2>1, <2>3, <2>5 DEF Training!RibbonInv
  <2>7. Training!Counted(ribbon', t, q.went) = q.derived
    BY <2>1, <2>3, <2>5 DEF Training!Counted
  <2>8. t \in crossed \/ b.devices = q.stored.devices
    BY <1>2
  <2>9. Training!Erased(t) = {}
    BY <1>2, <2>3, <2>5 DEF Training!Erased
  <2>10. \A u \in Ribbons : ribbon[u].held => ribbon'[u].held
    BY <2>1, <2>3, <2>5
  <2>11. t \in crossed \/ ~(q.derived < b.devices)
    BY <1>4, <1>7, <2>8
  <2>12. QED
    BY <1>5, <2>1, <2>3, <2>5, <2>6, <2>7, <2>9, <2>10, <2>11
<1>8. CASE q.stored.held /\ ~(q.derived > q.stored.devices)
  <2>1. ribbon' = ribbon
    BY <1>8
  <2>2. t \in crossed \/ b.held
    BY <1>2, <1>8
  <2>3. Training!RibbonInv(t)'
    BY <2>1 DEF Training!TrainingInv, Training!RibbonInv
  <2>4. Training!Erased(t) = {}
    BY <2>1 DEF Training!Erased
  <2>5. Training!Counted(ribbon', t, q.went) = Training!Counted(ribbon, t, q.went)
        /\ Training!Counted(ribbon, t, q.went) \in Int
    BY <1>4, <1>5, <2>1
  <2>6. QED
    BY <1>1, <1>2, <2>1, <2>2, <2>3, <2>4, <2>5
<1>9. QED
  BY <1>6, <1>7, <1>8

\* A claim is approved.
LEMMA ApproveEnds ==
  ASSUME Training!Sound, Training!TrainingInv, NEW r \in Training!Slots, Training!CommitApprove(r)
  PROVE  Training!TrainingInv'
<1>1. PICK q \in Training!Approvals : q = req[r] /\ q.op = "approve"
  BY ReviewIs DEF Training!CommitApprove
<1>2. PICK t \in Training!Things, c \in Claims : q.on = {t} /\ q.claims = {c}
  BY DEF Training!Approvals
<1>3. /\ claim[c].of = t /\ claim[c].status # "none"
      /\ t \in crossed \/ claim[c].status = "pending"
      /\ t \in Ribbons => q.derived = Training!Derived(t, q.went) /\ (t \in crossed \/ q.stored = ribbon[t])
      /\ t \in Ftxs => /\ t \in crossed \/ (t \in q.went <=> t \in attended)
                       /\ "last" \in crossed \/ q.last = last
  <2>1. Training!RequestInv(q)
    BY <1>1, ReviewIs DEF Training!RequestInv, Training!SubmitInv, Training!DecideInv, Training!ApproveInv
  <2>2. QED
    BY <1>1, <1>2, <2>1 DEF Training!RequestInv, Training!DecideInv, Training!ApproveInv
<1>4. CASE Training!Refused(r)
  BY <1>4, ReviewRefused
<1>5. CASE ~Training!Refused(r)
  <2>1. /\ t \in Ribbons => ~Training!Broken(q, t, q.derived > q.stored.devices)
        /\ claim' = [claim EXCEPT ![c].status = "approved"]
        /\ rows' = IF t \in Training!Records THEN Training!SignedOff(q, t) ELSE rows
        /\ ribbon' = IF t \in Ribbons /\ (~q.stored.held \/ q.derived > q.stored.devices)
                     THEN [ribbon EXCEPT ![t] = Training!Claimed(q, t)] ELSE ribbon
        /\ attended' = IF t \in Ftxs /\ t \notin q.went THEN attended \cup {t} ELSE attended
        /\ last' = IF t \in Ftxs THEN Training!LastFtx(q, t) ELSE last
        /\ undone' = undone \ {c}
        /\ dimmed' = IF t \in Ribbons /\ Training!Counted(ribbon', t, q.went) < Training!Counted(ribbon, t, q.went)
                     THEN dimmed \cup {t} ELSE dimmed
        /\ erased' = IF t \in Ribbons THEN erased \cup Training!Erased(t) ELSE erased
        /\ Training!End(r) /\ UNCHANGED <<begun, granted, crossed>>
    BY <1>1, <1>2, <1>5 DEF Training!CommitApprove
  <2>2. \A d \in Claims : IF d = c THEN claim'[d] = [of |-> t, status |-> "approved"]
                                   ELSE claim'[d] = claim[d]
    <3>1. claim[c] = [of |-> t, status |-> claim[c].status]
      BY <1>3, ClaimFacts
    <3>2. PICK s : claim[c] = [of |-> t, status |-> s]
      BY <3>1
    <3>3. claim \in [Claims -> Training!ClaimType]
      BY DEF Training!TrainingInv, Training!TypeInv, Training!TypeOK
    <3>4. QED
      BY <2>1, <3>2, <3>3
  <2>3. claim' \in [Claims -> Training!ClaimType]
    <3>1. [of |-> t, status |-> "approved"] \in Training!ClaimType
      BY DEF Training!ClaimType, Training!Statuses
    <3>2. \A d \in Claims : claim'[d] \in Training!ClaimType
      BY <2>2, <3>1, ClaimFacts
    <3>3. claim' = [d \in Claims |-> claim'[d]]
      BY <2>1 DEF Training!TrainingInv, Training!TypeInv, Training!TypeOK
    <3>4. QED
      BY <3>2, <3>3
  <2>4. /\ rows' \in [Training!Records -> Nat]
        /\ t \in Training!Records => rows'[t] > 0
        /\ \A u \in Training!Records : /\ u # t => rows'[u] = rows[u]
                                       /\ rows[u] > 0 => rows'[u] > 0
    BY <2>1 DEF Training!SignedOff, Training!TrainingInv, Training!TypeInv, Training!TypeOK
  <2>5. /\ ribbon' \in [Ribbons -> Training!RibbonType]
        /\ \A u \in Ribbons : u # t => ribbon'[u] = ribbon[u]
        /\ t \in Ribbons => t \in crossed \/ ribbon'[t].held
        /\ \A u \in Ribbons : ribbon[u].held => ribbon'[u].held
        /\ \A u \in Ribbons : Training!RibbonInv(u)'
        /\ dimmed' \subseteq dimmed \cup crossed /\ erased' = erased
    <3>1. CASE t \in Ribbons
      <4>1. ribbon' = IF ~q.stored.held \/ q.derived > q.stored.devices
                      THEN [ribbon EXCEPT ![t] = Training!Claimed(q, t)] ELSE ribbon
        BY <2>1, <3>1
      <4>2. /\ ribbon' \in [Ribbons -> Training!RibbonType]
            /\ \A u \in Ribbons : u # t => ribbon'[u] = ribbon[u]
            /\ t \in crossed \/ ribbon'[t].held
            /\ \A u \in Ribbons : ribbon[u].held => ribbon'[u].held
            /\ Training!RibbonInv(t)'
            /\ t \in crossed \/ ~(Training!Counted(ribbon', t, q.went) < Training!Counted(ribbon, t, q.went))
            /\ Training!Erased(t) = {}
        BY <1>3, <2>1, <3>1, <4>1, ClaimedRibbon
      <4>3. \A u \in Ribbons : Training!RibbonInv(u)'
        BY <4>2 DEF Training!TrainingInv, Training!RibbonInv
      <4>4. dimmed' \subseteq dimmed \cup crossed /\ erased' = erased
        BY <2>1, <4>2
      <4>5. QED
        BY <4>2, <4>3, <4>4
    <3>2. CASE t \notin Ribbons
      <4>1. ribbon' = ribbon /\ dimmed' = dimmed /\ erased' = erased
        BY <2>1, <3>2
      <4>2. QED
        BY <3>2, <4>1 DEF Training!TrainingInv, Training!TypeInv, Training!TypeOK, Training!RibbonInv
    <3>3. QED
      BY <3>1, <3>2
  <2>6. /\ attended' \subseteq Ftxs /\ \A f \in Ftxs : f # t => (f \in attended' <=> f \in attended)
        /\ attended \subseteq attended' /\ (t \in Ftxs => t \in crossed \/ t \in attended')
    BY <1>3, <2>1 DEF Training!TrainingInv, Training!TypeInv, Training!TypeOK
  <2>7. /\ last' \in {0} \cup {Date[f] : f \in Ftxs}
        /\ t \in Ftxs \/ last' = last
        /\ "last" \in crossed \/ (last' >= last /\ (t \in Ftxs => last' >= Date[t]))
    <3>1. /\ last \in {0} \cup {Date[f] : f \in Ftxs} /\ last \in Int
          /\ \A f \in Ftxs : Date[f] \in Int
      BY DEF Training!TrainingInv, Training!TypeInv, Training!TypeOK, Training!Sound
    <3>2. CASE t \in Ftxs
      <4>1. PICK d, l, k : d = Date[t] /\ l = q.last /\ k = last
        OBVIOUS
      <4>2. last' = IF d > l THEN d ELSE k
        BY <2>1, <3>2, <4>1 DEF Training!LastFtx
      <4>3. "last" \in crossed \/ l = k
        BY <1>3, <3>2, <4>1
      <4>4. d \in Int /\ k \in Int
        BY <3>1, <3>2, <4>1
      <4>5. "last" \in crossed \/ (last' >= k /\ last' >= d)
        <5>1. ASSUME l = k PROVE last' >= k /\ last' >= d
          <6>1. CASE d > k
            BY <4>2, <4>4, <5>1, <6>1
          <6>2. CASE ~(d > k)
            BY <4>2, <4>4, <5>1, <6>2
          <6>3. QED
            BY <6>1, <6>2
        <5>2. QED
          BY <4>3, <5>1
      <4>6. last' \in {0} \cup {Date[f] : f \in Ftxs}
        BY <3>1, <3>2, <4>1, <4>2
      <4>7. QED
        BY <3>2, <4>1, <4>5, <4>6
    <3>3. CASE t \notin Ftxs
      BY <2>1, <3>1, <3>3
    <3>4. QED
      BY <3>2, <3>3
  <2>8. Training!TypeOK'
    BY <2>1, <2>3, <2>4, <2>5, <2>6, <2>7 DEF Training!TrainingInv, Training!TypeInv, Training!TypeOK
  <2>9. Training!ApprovedIsOnRecord'
    <3>1. SUFFICES ASSUME NEW d \in Claims, d \notin undone', claim'[d].status = "approved",
                          NEW u, u = claim'[d].of
                   PROVE  u \in crossed' \/ Training!OnRecord(u)'
      BY DEF Training!ApprovedIsOnRecord, Training!OnRecord
    <3>2. CASE d = c
      <4>1. u = t
        BY <2>2, <3>1, <3>2
      <4>2. QED
        BY <2>1, <2>4, <2>5, <2>6, <4>1 DEF Training!OnRecord
    <3>3. CASE d # c
      <4>1. d \notin undone /\ claim'[d] = claim[d]
        BY <2>1, <2>2, <3>1, <3>3
      <4>2. u \in crossed \/ Training!OnRecord(u)
        BY <3>1, <4>1 DEF Training!TrainingInv, Training!ApprovedIsOnRecord
      <4>3. QED
        BY <2>1, <2>4, <2>5, <2>6, <4>2 DEF Training!OnRecord
    <3>4. QED
      BY <3>2, <3>3
  <2>10. Training!RecordsHaveGround'
    <3>1. \A u : Training!ApprovedFor(u) \subseteq Training!ApprovedFor(u)'
      BY <1>3, <2>2 DEF Training!ApprovedFor
    <3>2. c \in Training!ApprovedFor(t)'
      BY <2>2 DEF Training!ApprovedFor
    <3>3. \A u \in Training!Records : u # t => rows'[u] = rows[u]
      BY <2>4
    <3>4. QED
      BY <2>1, <3>1, <3>2, <3>3 DEF Training!TrainingInv, Training!RecordsHaveGround
  <2>11. Training!OneClaimPending'
    BY <2>1, <2>2 DEF Training!TrainingInv, Training!OneClaimPending
  <2>12. Training!StarsAreKept' /\ Training!CommentsStay'
    BY <2>1, <2>5 DEF Training!TrainingInv, Training!StarsAreKept, Training!CommentsStay
  <2>13. Training!LastFtxIsLatest'
    <3>1. SUFFICES ASSUME NEW d \in Claims, claim'[d].status = "approved", claim'[d].of \in Ftxs,
                          "last" \notin crossed
                   PROVE  last' >= Date[claim'[d].of]
      BY <2>1 DEF Training!LastFtxIsLatest
    <3>2. CASE d = c
      BY <2>2, <2>7, <3>1, <3>2
    <3>3. CASE d # c
      <4>1. claim'[d] = claim[d] /\ last >= Date[claim[d].of] /\ last' >= last
        BY <2>2, <2>7, <3>1, <3>3 DEF Training!TrainingInv, Training!LastFtxIsLatest
      <4>2. last \in Int /\ last' \in Int /\ Date[claim[d].of] \in Int
        BY <2>7, <3>1, <4>1 DEF Training!TrainingInv, Training!TypeInv, Training!TypeOK, Training!Sound
      <4>3. QED
        BY <4>1, <4>2
    <3>4. QED
      BY <3>2, <3>3
  <2>14. last' = last \/ "last" \in Training!Touches(req[r])
    BY <1>1, <1>2, <2>7 DEF Training!Touches
  <2>15. \A d \in Claims :
          \/ claim'[d] = claim[d]
          \/ /\ claim[d].of \in req[r].on /\ claim'[d].of = claim[d].of
             /\ claim'[d].status \in {"approved", "denied"}
    BY <1>1, <1>2, <1>3, <2>2
  <2>16. /\ \A u \in Ribbons \ req[r].on : ribbon'[u] = ribbon[u]
         /\ \A f \in Ftxs \ req[r].on : f \in attended' <=> f \in attended
         /\ \A u \in Ribbons : Training!RibbonInv(u)'
         /\ Training!End(r) /\ UNCHANGED <<begun, crossed>>
    BY <1>1, <1>2, <2>1, <2>5, <2>6
  <2>17. QED
    BY <2>8, <2>9, <2>10, <2>11, <2>12, <2>13, <2>14, <2>15, <2>16, ReviewEnds
<1>6. QED
  BY <1>4, <1>5

LEMMA TrainingSteps ==
  ASSUME Training!Sound, Training!TrainingInv, [Training!Next]_(Training!vars)
  PROVE  Training!TrainingInv'
<1>1. CASE Training!Begins
  BY <1>1, SubmitBegins, ApproveBegins, RefusalBegins, GrantBegins DEF Training!Begins
<1>2. CASE Training!Commits
  BY <1>2, SubmitEnds, ApproveEnds, RefusalEnds, GrantEnds, RibbonEnds, UnribbonEnds DEF Training!Commits
<1>3. CASE \E f \in Ftxs : Training!Attend(f) \/ Training!Correct(f)
  BY <1>3, AttendanceChanges
<1>4. CASE UNCHANGED Training!vars
  <2>1. UNCHANGED <<claim, rows, ribbon, attended, last, licence, req, begun, granted, undone, crossed,
                    dimmed, erased>>
    BY <1>4 DEF Training!vars
  <2>2. /\ Training!TypeInv' /\ Training!CrossInv' /\ \A r \in Training!Slots : Training!RequestInv(req[r])'
    BY <2>1 DEF Training!TrainingInv, Training!TypeInv, Training!TypeOK, Training!CrossInv,
       Training!Touches, Training!RequestInv, Training!SubmitInv, Training!DecideInv,
       Training!ApproveInv, Training!Pending
  <2>3. /\ (\A t : Training!OnRecord(t)' <=> Training!OnRecord(t))
        /\ \A t : Training!ApprovedFor(t)' = Training!ApprovedFor(t)
    BY <2>1 DEF Training!OnRecord, Training!ApprovedFor
  <2>4. /\ Training!ApprovedIsOnRecord' /\ Training!RecordsHaveGround' /\ Training!OneClaimPending'
        /\ Training!StarsAreKept' /\ Training!LastFtxIsLatest' /\ Training!CommentsStay'
    BY <2>1, <2>3 DEF Training!TrainingInv, Training!ApprovedIsOnRecord, Training!RecordsHaveGround,
       Training!OneClaimPending, Training!StarsAreKept, Training!LastFtxIsLatest, Training!CommentsStay
  <2>5. (\A c \in Claims : Training!ClaimInv(c)') /\ \A t \in Ribbons : Training!RibbonInv(t)'
    BY <2>1 DEF Training!TrainingInv, Training!ClaimInv, Training!RibbonInv
  <2>6. QED
    BY <2>2, <2>4, <2>5 DEF Training!TrainingInv
<1>5. QED
  BY <1>1, <1>2, <1>3, <1>4 DEF Training!Next

(***************************************************************************)
(* What was approved or granted is on the member's record and counts, and  *)
(* nothing else is, for every set of things to claim and however many      *)
(* requests overlap.                                                       *)
(***************************************************************************)
THEOREM TrainingIsInOrderCorrect == MembersSpec => []TrainingIsInOrder
<1> DEFINE IInv == page = "training" => Training!TrainingInv
<1>1. MembersInit => IInv
  BY OnlyTraining, TrainingAssumption, TrainingInit
<1>2. IInv /\ [MembersNext]_allVars => IInv'
  <2> SUFFICES ASSUME page = "training", Training!TrainingInv, [MembersNext]_allVars
               PROVE  Training!TrainingInv'
    BY PageKept
  <2>1. [Training!Next]_(Training!vars)
    BY OnlyTrainingSteps
  <2>2. QED
    BY <2>1, TrainingAssumption, TrainingSteps
<1>3. IInv => TrainingIsInOrder
  BY DEF TrainingIsInOrder, Training!TrainingIsInOrder, Training!TrainingInv, Training!TypeInv
<1> HIDE DEF IInv
<1>4. QED
  BY <1>1, <1>2, <1>3, PTL DEF MembersSpec

-----------------------------------------------------------------------------
(***************************************************************************)
(* The record of attendance: AttendanceInv is inductive (see Attendance).  *)
(***************************************************************************)
LEMMA OnlyAttendance == page = "attendance" /\ MembersInit => Roll!Init
BY DEF MembersInit

LEMMA OnlyAttendanceSteps ==
  page = "attendance" /\ [MembersNext]_allVars => [Roll!Next]_(Roll!vars)
BY DEF MembersNext, BoardStep, ShopStep, TrainingStep, AttendanceStep, allVars, attendanceVars,
       Roll!vars, Roll!records, Roll!honours, Roll!bounds, Roll!history

\* The instance's cardinalities are those of the library's theorems.
LEMMA RecordCounts == \A S : Roll!Cardinality(S) = Cardinality(S) /\ (Roll!IsFiniteSet(S) <=> IsFiniteSet(S))
BY DEF Roll!Cardinality, Cardinality, Roll!IsFiniteSet, IsFiniteSet

\* Numbers of rows, requests and events.
LEMMA RecordSizes ==
  ASSUME Roll!Sound
  PROVE  /\ \A S \in SUBSET Roll!Rows : IsFiniteSet(S) /\ Cardinality(S) \in 0..MaxRows
         /\ \A S \in SUBSET Roll!Slots : IsFiniteSet(S) /\ Cardinality(S) \in 0..MaxActive
         /\ \A S \in SUBSET Events : IsFiniteSet(S) /\ Cardinality(S) \in Nat
<1>1. \A n \in Nat : IsFiniteSet(1..n) /\ Cardinality(1..n) = n
  BY FS_Interval
<1>2. ASSUME NEW n \in Nat, NEW S \in SUBSET (1..n) PROVE IsFiniteSet(S) /\ Cardinality(S) \in 0..n
  <2>1. IsFiniteSet(S) /\ Cardinality(S) <= Cardinality(1..n)
    BY <1>1, FS_Subset
  <2>2. QED
    BY <1>1, <2>1, FS_CardinalityType
<1>3. MaxRows \in Nat /\ MaxActive \in Nat /\ IsFiniteSet(Events)
  BY RecordCounts DEF Roll!Sound
<1>4. \A S \in SUBSET Events : IsFiniteSet(S) /\ Cardinality(S) \in Nat
  BY <1>3, FS_Subset, FS_CardinalityType
<1>5. QED
  BY <1>2, <1>3, <1>4 DEF Roll!Rows, Roll!Slots

LEMMA RowsAreNot == \A row \in Roll!RowType : row # Roll!NoRow
<1>1. \A row \in Roll!RowType : "member" \in DOMAIN row
  BY DEF Roll!RowType
<1>2. "member" \notin DOMAIN Roll!NoRow
  BY DEF Roll!NoRow
<1>3. QED
  BY <1>1, <1>2

\* A request is one that was handled, or none.
LEMMA RequestFacts ==
  ASSUME Roll!TypeInv, NEW r \in Roll!Slots
  PROVE  /\ req[r] = Roll!NoRequest \/ req[r] \in Roll!Handled
         /\ req[r] = Roll!NoRequest <=> req[r].pc = "none"
         /\ req[r] # Roll!NoRequest <=> r \in Roll!Pending
BY DEF Roll!TypeInv, Roll!Handled, Roll!NoRequest, Roll!Pending

LEMMA HandledFacts ==
  ASSUME NEW q \in Roll!Handled
  PROVE  /\ q.pc \in {"save", "revoke", "close", "mark", "count", "award", "reverse", "commit"}
         /\ q.op \in {"checkin", "walkin", "present", "clear", "revoke", "noshow", "finalize", "reopen"}
         /\ q.e \in Events /\ q.i \in 0..MaxRows /\ q.m \in Members
         /\ q.seen \in {Roll!NoRow} \cup Roll!RowType
         /\ q.stamp \in 0..MaxEdits /\ q.marks \subseteq Roll!Rows /\ q.there \subseteq Members
         /\ q.due \subseteq Members /\ q.led \subseteq Members /\ q.counts \in [Members -> Nat]
         /\ q.ribbons \in [Members -> Roll!RibbonType]
BY DEF Roll!Handled

\* Only what differs is written; who the row is for, and where, stays.
LEMMA Merged ==
  ASSUME NEW now \in Roll!RowType, NEW seen \in Roll!RowType, NEW new \in Roll!RowType
  PROVE  /\ Roll!Merge(now, seen, new) \in Roll!RowType
         /\ Roll!Merge(now, seen, new).event = now.event /\ Roll!Merge(now, seen, new).member = now.member
         /\ Roll!Merge(now, seen, new).attended
              = IF new.attended = seen.attended THEN now.attended
                          ELSE new.attended
         /\ Roll!Merge(now, seen, new).checked
              = IF new.checked = seen.checked THEN now.checked
                         ELSE new.checked
BY DEF Roll!Merge, Roll!RowType

-----------------------------------------------------------------------------
\* A request begins with what it read, and nothing done.
Begun(r, q, op, pc, e, m, i) ==
  /\ req[r] = Roll!NoRequest /\ req' = [req EXCEPT ![r] = q]
  /\ begun' = begun + 1 /\ begun' \in 0..AttendanceRequests
  /\ q.op = op /\ q.pc = pc /\ q.e = e /\ q.i = i /\ q.m = m
  /\ q.seen = IF i = 0 THEN Roll!NoRow ELSE rsvp[i]
  /\ q.stamp = event[e].stamp /\ q.marks = {} /\ q.there = {} /\ q.due = {}
  /\ q.led = IF op = "reopen" THEN {c \in Members : <<e, c>> \in grants} ELSE {}
  /\ \A c \in Members : q.ribbons[c] = Roll!NoRibbon /\ q.counts[c] = 0

LEMMA BegunFacts ==
  ASSUME Roll!Sound, Roll!TypeInv, NEW op, NEW pc, NEW e \in Events, NEW m \in Members,
         NEW i \in 0..MaxRows,
         op \in {"checkin", "walkin", "present", "clear", "revoke", "noshow", "finalize", "reopen"},
         pc \in {"save", "revoke", "mark", "reverse"}, Roll!Begin(op, pc, e, m, i)
  PROVE  \E r \in Roll!Slots, q \in Roll!Handled : Begun(r, q, op, pc, e, m, i)
<1> DEFINE q == [pc |-> pc, op |-> op, e |-> e, i |-> i, m |-> m,
                 seen |-> IF i = 0 THEN Roll!NoRow ELSE rsvp[i], stamp |-> event[e].stamp,
                 marks |-> {}, there |-> {}, due |-> {},
                 led |-> IF op = "reopen" THEN {c \in Members : <<e, c>> \in grants} ELSE {},
                 counts |-> [c \in Members |-> 0],
                 ribbons |-> [c \in Members |-> Roll!NoRibbon]]
<1>1. PICK r \in Roll!Slots : req[r] = Roll!NoRequest /\ req' = [req EXCEPT ![r] = q]
  BY DEF Roll!Begin
<1>2. begun' = begun + 1 /\ begun' \in 0..AttendanceRequests
  <2>1. /\ begun < AttendanceRequests /\ begun' = begun + 1 /\ begun \in 0..AttendanceRequests
        /\ AttendanceRequests \in Nat
    BY DEF Roll!Begin, Roll!TypeInv, Roll!Sound
  <2>2. QED
    BY <2>1
<1>3. q.seen \in {Roll!NoRow} \cup Roll!RowType
  <2>1. i = 0 \/ i \in Roll!Rows
    BY DEF Roll!Rows, Roll!Sound
  <2>2. QED
    BY <2>1 DEF Roll!TypeInv
<1>4. event[e].stamp \in 0..MaxEdits
  BY DEF Roll!TypeInv
<1>5. [c \in Members |-> Roll!NoRibbon] \in [Members -> Roll!RibbonType]
  BY DEF Roll!NoRibbon, Roll!RibbonType, Roll!Sound
<1>6. q \in Roll!Handled
  BY <1>3, <1>4, <1>5 DEF Roll!Handled
<1>7. \A c \in Members : q.ribbons[c] = Roll!NoRibbon /\ q.counts[c] = 0
  OBVIOUS
<1>8. QED
  BY <1>1, <1>2, <1>6, <1>7 DEF Begun

-----------------------------------------------------------------------------
(* Ribbons. *)

LedBy(m) == {e \in Events : <<e, m>> \in grants}
Awards(rib) == IF rib.held THEN rib.devices + 1 ELSE 0
OwnOne(rib) == IF rib.manual THEN 1 ELSE 0

\* What the property says of one member.
LEMMA AwardsOfOne ==
  /\ Roll!AwardsMatchGrants
       <=> \A m \in Members \ clashed : Awards(ribbon[m]) = Cardinality(LedBy(m)) + OwnOne(ribbon[m])
  /\ Roll!AwardsMatchGrants'
       <=> \A m \in Members \ clashed' :
             Awards(ribbon'[m]) = Cardinality(LedBy(m)') + OwnOne(ribbon'[m])
BY RecordCounts DEF Roll!AwardsMatchGrants, Awards, OwnOne, LedBy

\* One request changes: what it decorates, it has not read yet.
LEMMA HonoursStay ==
  ASSUME Roll!TypeInv, Roll!TypeInv', Roll!HonourInv, NEW r, \A s \in Roll!Slots \ {r} : req'[s] = req[s],
         UNCHANGED <<ribbon, grants>>, clashed \subseteq clashed',
         r \in Roll!Slots => \/ req'[r] = req[r] \/ req'[r] = Roll!NoRequest
                             \/ /\ req'[r].op # "reopen" /\ req'[r].pc # "commit"
                                /\ req'[r].pc \in {"count", "award"} => ~Roll!LockedEvent(r, req'[r].e)
  PROVE  Roll!HonourInv'
<1>1. Roll!EventInv'
  <2> SUFFICES ASSUME NEW a \in Roll!Slots, NEW b \in Roll!Slots, NEW e \in Events
               PROVE  /\ Roll!Holds(a, e)' /\ Roll!Holds(b, e)' => a = b
                      /\ a # b /\ Roll!Reopens(a, e)' /\ Roll!Reopens(b, e)' => Members \subseteq clashed'
    BY DEF Roll!EventInv
  <2>1. /\ Roll!Holds(a, e) /\ Roll!Holds(b, e) => a = b
        /\ a # b /\ Roll!Reopens(a, e) /\ Roll!Reopens(b, e) => Members \subseteq clashed
    BY DEF Roll!HonourInv, Roll!EventInv
  <2>2. \A s \in Roll!Slots : \/ req'[s] = req[s] \/ ~(Roll!Holds(s, e)' \/ Roll!Reopens(s, e)')
                              \/ s = r /\ ~Roll!Reopens(s, e)' /\ ~Roll!LockedEvent(r, e)
    BY DEF Roll!Holds, Roll!Reopens, Roll!NoRequest
  <2>3. \A s \in Roll!Slots : req'[s] = req[s] =>
         (Roll!Holds(s, e)' <=> Roll!Holds(s, e)) /\ (Roll!Reopens(s, e)' <=> Roll!Reopens(s, e))
    BY DEF Roll!Holds, Roll!Reopens
  <2>4. ASSUME Roll!Holds(a, e)', Roll!Holds(b, e)', a # b PROVE FALSE
    BY <2>1, <2>2, <2>3, <2>4 DEF Roll!LockedEvent
  <2>5. QED
    BY <2>1, <2>2, <2>3, <2>4
<1>2. Roll!RibbonInv'
  <2> SUFFICES ASSUME NEW a \in Roll!Pending', NEW m \in req'[a].led \ clashed'
               PROVE  /\ req'[a].op = "reopen" => <<req'[a].e, m>> \in grants
                      /\ req'[a].pc = "commit" =>
                           /\ req'[a].op = "finalize" => <<req'[a].e, m>> \notin grants
                           /\ req'[a].ribbons[m] = ribbon[m]
                           /\ req'[a].op = "reopen" =>
                                req'[a].counts[m]
                                   = Roll!Cardinality({f \in Events \ {req'[a].e} : <<f, m>> \in grants'})
                           /\ \A s \in Roll!Pending' \ {a} : req'[s].pc = "commit" => m \notin req'[s].led
    BY DEF Roll!RibbonInv, Roll!OtherGrants
  <2>1. a \in Roll!Slots /\ req'[a] # Roll!NoRequest
    BY DEF Roll!Pending
  <2>2. CASE req'[a] # req[a]
    BY <2>1, <2>2
  <2>3. CASE req'[a] = req[a]
    <3>1. a \in Roll!Pending /\ m \in req[a].led \ clashed
      BY <2>1, <2>3 DEF Roll!Pending
    <3>2. /\ req[a].op = "reopen" => <<req[a].e, m>> \in grants
          /\ req[a].pc = "commit" =>
               /\ req[a].op = "finalize" => <<req[a].e, m>> \notin grants
               /\ req[a].ribbons[m] = ribbon[m]
               /\ req[a].op = "reopen" => req[a].counts[m] = Roll!Cardinality(Roll!OtherGrants(req[a], m))
               /\ \A s \in Roll!Pending \ {a} : req[s].pc = "commit" => m \notin req[s].led
      BY <3>1 DEF Roll!HonourInv, Roll!RibbonInv
    <3>3. Roll!OtherGrants(req[a], m) = {f \in Events \ {req'[a].e} : <<f, m>> \in grants'}
      BY <2>3 DEF Roll!OtherGrants
    <3>4. \A s \in Roll!Pending' : req'[s].pc = "commit" => s \in Roll!Pending /\ req'[s] = req[s]
      BY DEF Roll!Pending
    <3>5. QED
      BY <2>3, <3>2, <3>3, <3>4
  <2>4. QED
    BY <2>2, <2>3
<1>3. Roll!AwardsMatchGrants'
  BY AwardsOfOne DEF Roll!HonourInv, LedBy
<1>4. QED
  BY <1>1, <1>2, <1>3 DEF Roll!HonourInv

\* A reopening lists its grants; who reopens the event beside it clashes.
LEMMA ReopenHonours ==
  ASSUME Roll!Sound, Roll!TypeInv, Roll!TypeInv', Roll!HonourInv, NEW e \in Events,
         Roll!BeginReopen(e) PROVE Roll!HonourInv'
<1>1. /\ UNCHANGED <<ribbon, grants>>
      /\ clashed' = IF \E s \in Roll!Slots : Roll!Reopens(s, e) THEN clashed \cup Members ELSE clashed
  BY DEF Roll!BeginReopen, Roll!honours, Roll!Reopens
<1>2. PICK r \in Roll!Slots, q \in Roll!Handled :
        /\ req[r] = Roll!NoRequest /\ req' = [req EXCEPT ![r] = q]
        /\ q.op = "reopen" /\ q.pc = "reverse" /\ q.e = e
        /\ q.led = {c \in Members : <<e, c>> \in grants}
  <2>1. (CHOOSE m \in Members : TRUE) \in Members
    BY DEF Roll!Sound
  <2>2. 0 \in 0..MaxRows
    BY DEF Roll!Sound
  <2>3. Roll!Begin("reopen", "reverse", e, CHOOSE m \in Members : TRUE, 0)
    BY DEF Roll!BeginReopen
  <2>4. PICK m \in Members : Roll!Begin("reopen", "reverse", e, m, 0)
    BY <2>1, <2>3
  <2>5. PICK r \in Roll!Slots, q \in Roll!Handled : Begun(r, q, "reopen", "reverse", e, m, 0)
    BY <2>2, <2>4, BegunFacts
  <2>6. QED
    BY <2>5 DEF Begun
<1>3. DOMAIN req = Roll!Slots /\ req'[r] = q /\ \A s \in Roll!Slots \ {r} : req'[s] = req[s]
  BY <1>2 DEF Roll!TypeInv
<1>4. clashed \subseteq clashed'
  BY <1>1
<1>5. Roll!EventInv'
  <2> SUFFICES ASSUME NEW a \in Roll!Slots, NEW b \in Roll!Slots, NEW f \in Events
               PROVE  /\ Roll!Holds(a, f)' /\ Roll!Holds(b, f)' => a = b
                      /\ a # b /\ Roll!Reopens(a, f)' /\ Roll!Reopens(b, f)' => Members \subseteq clashed'
    BY DEF Roll!EventInv
  <2>1. /\ Roll!Holds(a, f) /\ Roll!Holds(b, f) => a = b
        /\ a # b /\ Roll!Reopens(a, f) /\ Roll!Reopens(b, f) => Members \subseteq clashed
    BY DEF Roll!HonourInv, Roll!EventInv
  <2>2. ~Roll!Holds(r, f)' /\ (Roll!Reopens(r, f)' => f = e)
    BY <1>2, <1>3 DEF Roll!Holds, Roll!Reopens
  <2>3. \A s \in Roll!Slots \ {r} :
         (Roll!Holds(s, f)' <=> Roll!Holds(s, f)) /\ (Roll!Reopens(s, f)' <=> Roll!Reopens(s, f))
    BY <1>3 DEF Roll!Holds, Roll!Reopens
  <2>4. QED
    BY <1>1, <1>4, <2>1, <2>2, <2>3
<1>6. Roll!RibbonInv'
  <2> SUFFICES ASSUME NEW a \in Roll!Pending', NEW m \in req'[a].led \ clashed'
               PROVE  /\ req'[a].op = "reopen" => <<req'[a].e, m>> \in grants
                      /\ req'[a].pc = "commit" =>
                           /\ req'[a].op = "finalize" => <<req'[a].e, m>> \notin grants
                           /\ req'[a].ribbons[m] = ribbon[m]
                           /\ req'[a].op = "reopen" =>
                                req'[a].counts[m]
                                   = Roll!Cardinality({f \in Events \ {req'[a].e} : <<f, m>> \in grants'})
                           /\ \A s \in Roll!Pending' \ {a} : req'[s].pc = "commit" => m \notin req'[s].led
    BY <1>1 DEF Roll!RibbonInv, Roll!OtherGrants
  <2>1. a \in Roll!Slots /\ req'[a] # Roll!NoRequest
    BY DEF Roll!Pending
  <2>2. CASE a = r
    BY <1>2, <1>3, <2>2
  <2>3. CASE a # r
    <3>1. a \in Roll!Pending /\ m \in req[a].led \ clashed /\ req'[a] = req[a]
      BY <1>3, <1>4, <2>1, <2>3 DEF Roll!Pending
    <3>2. /\ req[a].op = "reopen" => <<req[a].e, m>> \in grants
          /\ req[a].pc = "commit" =>
               /\ req[a].op = "finalize" => <<req[a].e, m>> \notin grants
               /\ req[a].ribbons[m] = ribbon[m]
               /\ req[a].op = "reopen" => req[a].counts[m] = Roll!Cardinality(Roll!OtherGrants(req[a], m))
               /\ \A s \in Roll!Pending \ {a} : req[s].pc = "commit" => m \notin req[s].led
      BY <3>1 DEF Roll!HonourInv, Roll!RibbonInv
    <3>3. Roll!OtherGrants(req[a], m) = {f \in Events \ {req'[a].e} : <<f, m>> \in grants'}
      BY <1>1, <3>1 DEF Roll!OtherGrants
    <3>4. \A s \in Roll!Pending' : req'[s].pc = "commit" => s \in Roll!Pending /\ req'[s] = req[s]
      BY <1>2, <1>3 DEF Roll!Pending
    <3>5. QED
      BY <3>1, <3>2, <3>3, <3>4
  <2>4. QED
    BY <2>2, <2>3
<1>7. Roll!AwardsMatchGrants'
  BY <1>1, <1>4, AwardsOfOne DEF Roll!HonourInv, LedBy
<1>8. QED
  BY <1>5, <1>6, <1>7 DEF Roll!HonourInv

\* A request that reads ribbons, and goes on to its commit.
LEMMA ReadHonours ==
  ASSUME Roll!TypeInv, Roll!TypeInv', Roll!HonourInv, NEW r \in Roll!Pending, NEW q \in Roll!Handled,
         req' = [req EXCEPT ![r] = q], UNCHANGED <<ribbon, grants>>,
         \A s \in Roll!Pending : Roll!RequestInv(req[s]),
         clashed' = clashed \cup (q.led \cap Roll!Reading(r)),
         q.pc = "commit" /\ q.op = req[r].op /\ q.e = req[r].e /\ q.ribbons = ribbon,
         \/ q.op = "finalize" /\ req[r].pc = "award" /\ \A m \in q.led : <<q.e, m>> \notin grants
         \/ /\ q.op = "reopen" /\ q.led = req[r].led
            /\ \A m \in Members : q.counts[m] = Roll!Cardinality(Roll!OtherGrants(q, m))
  PROVE  Roll!HonourInv'
<1>1. r \in Roll!Slots /\ req[r] # Roll!NoRequest /\ req[r] \in Roll!Handled /\ req[r].pc # "none"
  BY RequestFacts DEF Roll!Pending
<1>2. req'[r] = q /\ \A s \in Roll!Slots \ {r} : req'[s] = req[s]
  BY <1>1 DEF Roll!TypeInv
<1>3. clashed \subseteq clashed' /\ q.led \subseteq Members
  BY HandledFacts
<1>4. Roll!EventInv'
  <2> SUFFICES ASSUME NEW a \in Roll!Slots, NEW b \in Roll!Slots, NEW f \in Events
               PROVE  /\ Roll!Holds(a, f)' /\ Roll!Holds(b, f)' => a = b
                      /\ a # b /\ Roll!Reopens(a, f)' /\ Roll!Reopens(b, f)' => Members \subseteq clashed'
    BY DEF Roll!EventInv
  <2>1. /\ Roll!Holds(a, f) /\ Roll!Holds(b, f) => a = b
        /\ a # b /\ Roll!Reopens(a, f) /\ Roll!Reopens(b, f) => Members \subseteq clashed
    BY DEF Roll!HonourInv, Roll!EventInv
  <2>2. (Roll!Holds(r, f)' => Roll!Holds(r, f)) /\ (Roll!Reopens(r, f)' => Roll!Reopens(r, f))
    BY <1>1, <1>2 DEF Roll!Holds, Roll!Reopens
  <2>3. \A s \in Roll!Slots \ {r} :
         (Roll!Holds(s, f)' <=> Roll!Holds(s, f)) /\ (Roll!Reopens(s, f)' <=> Roll!Reopens(s, f))
    BY <1>2 DEF Roll!Holds, Roll!Reopens
  <2>4. QED
    BY <1>3, <2>1, <2>2, <2>3
<1>5. ASSUME NEW s \in Roll!Pending \ {r}, req[s].pc = "commit", NEW m \in q.led \ clashed',
             m \in req[s].led
      PROVE  FALSE
  <2>1. s \in Roll!Slots /\ req[s].op \in {"finalize", "reopen"}
    BY <1>5 DEF Roll!RequestInv, Roll!OpsAt, Roll!Pending
  <2>2. m \in Roll!Reading(r)
    BY <1>3, <1>5, <2>1 DEF Roll!Reading
  <2>3. QED
    BY <1>5, <2>2
<1>6. Roll!Pending' = Roll!Pending
  BY <1>1, <1>2 DEF Roll!Pending, Roll!NoRequest
<1>7. Roll!RibbonInv'
  <2> SUFFICES ASSUME NEW a \in Roll!Pending', NEW m \in req'[a].led \ clashed'
               PROVE  /\ req'[a].op = "reopen" => <<req'[a].e, m>> \in grants
                      /\ req'[a].pc = "commit" =>
                           /\ req'[a].op = "finalize" => <<req'[a].e, m>> \notin grants
                           /\ req'[a].ribbons[m] = ribbon[m]
                           /\ req'[a].op = "reopen" =>
                                req'[a].counts[m]
                                   = Roll!Cardinality({f \in Events \ {req'[a].e} : <<f, m>> \in grants'})
                           /\ \A s \in Roll!Pending' \ {a} : req'[s].pc = "commit" => m \notin req'[s].led
    BY DEF Roll!RibbonInv, Roll!OtherGrants
  <2>1. a \in Roll!Slots /\ a \in Roll!Pending
    BY <1>6 DEF Roll!Pending
  <2>2. CASE a = r
    <3>1. ASSUME q.op = "reopen" PROVE <<q.e, m>> \in grants
      <4>1. m \in req[r].led \ clashed /\ req[r].op = "reopen"
        BY <1>2, <1>3, <2>2, <3>1
      <4>2. QED
        BY <3>1, <4>1 DEF Roll!HonourInv, Roll!RibbonInv
    <3>2. q.op = "reopen" => q.counts[m] = Roll!Cardinality(Roll!OtherGrants(q, m))
      BY <1>2, <1>3, <2>2
    <3>3. Roll!OtherGrants(q, m) = {f \in Events \ {req'[a].e} : <<f, m>> \in grants'}
      BY <1>2, <2>2 DEF Roll!OtherGrants
    <3>4. q.op = "finalize" => <<q.e, m>> \notin grants
      BY <1>2, <2>2
    <3>5. QED
      BY <1>2, <1>5, <1>6, <2>1, <2>2, <3>1, <3>2, <3>3, <3>4 DEF Roll!Pending
  <2>3. CASE a # r
    <3>1. m \in req[a].led \ clashed /\ req'[a] = req[a]
      BY <1>2, <1>3, <2>1, <2>3
    <3>2. /\ req[a].op = "reopen" => <<req[a].e, m>> \in grants
          /\ req[a].pc = "commit" =>
               /\ req[a].op = "finalize" => <<req[a].e, m>> \notin grants
               /\ req[a].ribbons[m] = ribbon[m]
               /\ req[a].op = "reopen" => req[a].counts[m] = Roll!Cardinality(Roll!OtherGrants(req[a], m))
               /\ \A s \in Roll!Pending \ {a} : req[s].pc = "commit" => m \notin req[s].led
      BY <2>1, <3>1 DEF Roll!HonourInv, Roll!RibbonInv
    <3>3. Roll!OtherGrants(req[a], m) = {f \in Events \ {req'[a].e} : <<f, m>> \in grants'}
      BY <3>1 DEF Roll!OtherGrants
    <3>4. ASSUME NEW s \in Roll!Pending \ {a}, req[a].pc = "commit", req'[s].pc = "commit"
          PROVE  m \notin req'[s].led
      BY <1>2, <1>5, <2>1, <2>3, <3>1, <3>2, <3>4 DEF Roll!Pending
    <3>5. QED
      BY <1>6, <3>1, <3>2, <3>3, <3>4
  <2>4. QED
    BY <2>2, <2>3
<1>8. Roll!AwardsMatchGrants'
  BY <1>3, AwardsOfOne DEF Roll!HonourInv, LedBy
<1>9. QED
  BY <1>4, <1>7, <1>8 DEF Roll!HonourInv

\* One device more than was read is one award more.
LEMMA DecoratedOne ==
  ASSUME NEW rib \in Roll!RibbonType
  PROVE  /\ Awards(rib) \in Nat /\ Awards(Roll!NoRibbon) = 0 /\ OwnOne(Roll!NoRibbon) = 0
         /\ rib.held => /\ Awards(Roll!Decorated(rib)) = Awards(rib) + 1
                        /\ OwnOne(Roll!Decorated(rib)) = OwnOne(rib)
         /\ ~rib.held => Awards(rib) = 0 /\ Awards(Roll!Decorated(rib)) = 1 /\ OwnOne(Roll!Decorated(rib)) = 0
         /\ OwnOne(rib) \in {0, 1}
         /\ Roll!Decorated(rib) \in [held : BOOLEAN, manual : BOOLEAN, devices : 0..(rib.devices + 1)]
<1>1. rib.devices \in Nat /\ rib.held \in BOOLEAN /\ rib.manual \in BOOLEAN
  BY DEF Roll!RibbonType
<1>2. CASE rib.held
  <2>1. /\ Roll!Decorated(rib).held /\ Roll!Decorated(rib).manual = rib.manual
        /\ Roll!Decorated(rib).devices = rib.devices + 1
    BY <1>2 DEF Roll!Decorated, Roll!RibbonType
  <2>2. Roll!Decorated(rib) \in [held : BOOLEAN, manual : BOOLEAN, devices : 0..(rib.devices + 1)]
    <3>1. [rib EXCEPT !.devices = @ + 1] \in [held : BOOLEAN, manual : BOOLEAN, devices : 0..(rib.devices + 1)]
      BY <1>1 DEF Roll!RibbonType
    <3>2. QED
      BY <1>2, <3>1 DEF Roll!Decorated
  <2>3. QED
    BY <1>1, <1>2, <2>1, <2>2 DEF Awards, OwnOne, Roll!NoRibbon
<1>3. CASE ~rib.held
  <2>1. Roll!Decorated(rib) = [held |-> TRUE, manual |-> FALSE, devices |-> 0]
    BY <1>3 DEF Roll!Decorated, Roll!NoRibbon
  <2>2. 0 \in 0..(rib.devices + 1)
    BY <1>1
  <2>3. QED
    BY <1>1, <1>3, <2>1, <2>2 DEF Awards, OwnOne, Roll!NoRibbon
<1>4. QED
  BY <1>2, <1>3

\* Undoing takes one award off a ribbon that has one for each grant.
LEMMA UndecoratedOne ==
  ASSUME NEW rib \in Roll!RibbonType, rib.held, NEW n \in Nat, Awards(rib) = n + 1 + OwnOne(rib)
  PROVE  Awards(Roll!Undecorated(rib, n)) = n + OwnOne(Roll!Undecorated(rib, n))
<1>1. rib.devices \in Nat /\ rib.manual \in BOOLEAN
  BY DEF Roll!RibbonType
<1>2. rib.devices + 1 = n + 1 + OwnOne(rib) /\ OwnOne(rib) = IF rib.manual THEN 1 ELSE 0
  BY DEF Awards, OwnOne
<1>3. CASE n = 0 /\ ~rib.manual /\ rib.devices = 0
  BY <1>3 DEF Roll!Undecorated, Roll!NoRibbon, Awards, OwnOne
<1>4. CASE ~(n = 0 /\ ~rib.manual /\ rib.devices = 0)
  <2>1. rib.devices # 0
    BY <1>1, <1>2, <1>4
  <2>2. /\ Roll!Undecorated(rib, n).held = rib.held /\ Roll!Undecorated(rib, n).manual = rib.manual
        /\ Roll!Undecorated(rib, n).devices = rib.devices - 1
    BY <1>4, <2>1 DEF Roll!Undecorated, Roll!RibbonType
  <2>3. QED
    BY <1>1, <1>2, <2>2 DEF Awards, OwnOne
<1>5. QED
  BY <1>3, <1>4

LEMMA UndecoratedType ==
  ASSUME NEW rib \in Roll!RibbonType, NEW n
  PROVE  Roll!Undecorated(rib, n) \in [held : BOOLEAN, manual : BOOLEAN, devices : 0..rib.devices]
<1>1. rib.devices \in Nat /\ rib.held \in BOOLEAN /\ rib.manual \in BOOLEAN
  BY DEF Roll!RibbonType
<1>2. Roll!NoRibbon \in [held : BOOLEAN, manual : BOOLEAN, devices : 0..rib.devices]
  BY <1>1 DEF Roll!NoRibbon
<1>3. [rib EXCEPT !.devices = IF @ = 0 THEN 0 ELSE @ - 1]
        \in [held : BOOLEAN, manual : BOOLEAN, devices : 0..rib.devices]
  BY <1>1 DEF Roll!RibbonType
<1>4. QED
  BY <1>2, <1>3 DEF Roll!Undecorated

\* A request ends whose grants change, and with them the ribbons: what the others
\* know of those who are not clashed stays.
LEMMA CommitHonours ==
  ASSUME Roll!Sound, Roll!TypeInv, Roll!TypeInv', Roll!HonourInv, NEW r \in Roll!Pending,
         req' = [req EXCEPT ![r] = Roll!NoRequest],
         req[r].pc = "commit", UNCHANGED clashed,
         \A m \in Members \ req[r].led : ribbon'[m] = ribbon[m] /\ LedBy(m)' = LedBy(m),
         \A m \in Members, e \in Events : <<e, m>> \in grants /\ <<e, m>> \notin grants'
                                            => req[r].op = "reopen" /\ e = req[r].e,
         \A m \in req[r].led \ clashed : Awards(ribbon'[m]) = Cardinality(LedBy(m)') + OwnOne(ribbon'[m])
  PROVE  Roll!HonourInv'
<1> DEFINE q == req[r]
<1>1. r \in Roll!Slots /\ q \in Roll!Handled /\ q.pc # "none"
  BY RequestFacts DEF Roll!Pending
<1>2. req'[r] = Roll!NoRequest /\ \A s \in Roll!Slots \ {r} : req'[s] = req[s]
  BY <1>1 DEF Roll!TypeInv
<1>3. q.led \subseteq Members /\ q.e \in Events
  BY <1>1, HandledFacts
<1>4. Roll!EventInv'
  <2> SUFFICES ASSUME NEW a \in Roll!Slots, NEW b \in Roll!Slots, NEW f \in Events
               PROVE  /\ Roll!Holds(a, f)' /\ Roll!Holds(b, f)' => a = b
                      /\ a # b /\ Roll!Reopens(a, f)' /\ Roll!Reopens(b, f)' => Members \subseteq clashed'
    BY DEF Roll!EventInv
  <2>1. /\ Roll!Holds(a, f) /\ Roll!Holds(b, f) => a = b
        /\ a # b /\ Roll!Reopens(a, f) /\ Roll!Reopens(b, f) => Members \subseteq clashed
    BY DEF Roll!HonourInv, Roll!EventInv
  <2>2. ~Roll!Holds(r, f)' /\ ~Roll!Reopens(r, f)'
    BY <1>2 DEF Roll!Holds, Roll!Reopens, Roll!NoRequest
  <2>3. \A s \in Roll!Slots \ {r} :
         (Roll!Holds(s, f)' <=> Roll!Holds(s, f)) /\ (Roll!Reopens(s, f)' <=> Roll!Reopens(s, f))
    BY <1>2 DEF Roll!Holds, Roll!Reopens
  <2>4. QED
    BY <2>1, <2>2, <2>3
<1>5. Roll!Pending' = Roll!Pending \ {r}
  BY <1>1, <1>2 DEF Roll!Pending
<1>6. Roll!RibbonInv'
  <2> SUFFICES ASSUME NEW a \in Roll!Pending', NEW m \in req'[a].led \ clashed'
               PROVE  /\ req'[a].op = "reopen" => <<req'[a].e, m>> \in grants'
                      /\ req'[a].pc = "commit" =>
                           /\ req'[a].op = "finalize" => <<req'[a].e, m>> \notin grants'
                           /\ req'[a].ribbons[m] = ribbon'[m]
                           /\ req'[a].op = "reopen" =>
                                req'[a].counts[m]
                                   = Roll!Cardinality({f \in Events \ {req'[a].e} : <<f, m>> \in grants'})
                           /\ \A s \in Roll!Pending' \ {a} : req'[s].pc = "commit" => m \notin req'[s].led
    BY DEF Roll!RibbonInv, Roll!OtherGrants
  <2>1. /\ a \in Roll!Pending /\ a # r /\ a \in Roll!Slots /\ req'[a] = req[a] /\ m \in req[a].led \ clashed
        /\ req[a] \in Roll!Handled /\ req[a].pc # "none"
    BY <1>2, <1>5, RequestFacts DEF Roll!Pending
  <2>2. m \in Members /\ req[a].e \in Events
    BY <2>1, HandledFacts
  <2>3. /\ req[a].op = "reopen" => <<req[a].e, m>> \in grants
        /\ req[a].pc = "commit" =>
             /\ req[a].op = "finalize" => <<req[a].e, m>> \notin grants
             /\ req[a].ribbons[m] = ribbon[m]
             /\ req[a].op = "reopen" => req[a].counts[m] = Roll!Cardinality(Roll!OtherGrants(req[a], m))
             /\ \A s \in Roll!Pending \ {a} : req[s].pc = "commit" => m \notin req[s].led
    BY <2>1 DEF Roll!HonourInv, Roll!RibbonInv
  <2>4. ASSUME req[a].op = "reopen" PROVE <<req[a].e, m>> \in grants'
    <3>1. ASSUME req[r].op = "reopen", req[r].e = req[a].e PROVE FALSE
      <4>1. Roll!Reopens(a, req[a].e) /\ Roll!Reopens(r, req[a].e)
        BY <1>1, <2>1, <2>4, <3>1 DEF Roll!Reopens
      <4>2. Members \subseteq clashed
        BY <1>1, <2>1, <2>2, <4>1 DEF Roll!HonourInv, Roll!EventInv
      <4>3. QED
        BY <2>1, <2>2, <4>2
    <3>2. QED
      BY <2>2, <2>3, <2>4, <3>1
  <2>5. ASSUME req[a].pc = "commit" PROVE m \notin req[r].led
    BY <2>1, <2>3, <2>5
  <2>6. ASSUME req[a].pc = "commit"
        PROVE  ribbon'[m] = ribbon[m] /\ \A f \in Events : <<f, m>> \in grants' <=> <<f, m>> \in grants
    BY <2>2, <2>5, <2>6 DEF LedBy
  <2>7. ASSUME req[a].pc = "commit"
        PROVE  {f \in Events \ {req'[a].e} : <<f, m>> \in grants'} = Roll!OtherGrants(req[a], m)
    BY <2>1, <2>6, <2>7 DEF Roll!OtherGrants
  <2>8. \A s \in Roll!Pending' : s \in Roll!Pending /\ req'[s] = req[s]
    BY <1>2, <1>5 DEF Roll!Pending
  <2>9. QED
    BY <2>1, <2>2, <2>3, <2>4, <2>6, <2>7, <2>8
<1>7. Roll!AwardsMatchGrants'
  <2> SUFFICES ASSUME NEW m \in Members \ clashed'
               PROVE  Awards(ribbon'[m]) = Cardinality(LedBy(m)') + OwnOne(ribbon'[m])
    BY AwardsOfOne
  <2>1. CASE m \in req[r].led
    BY <2>1
  <2>2. CASE m \notin req[r].led
    <3>1. Awards(ribbon[m]) = Cardinality(LedBy(m)) + OwnOne(ribbon[m])
      BY AwardsOfOne DEF Roll!HonourInv
    <3>2. QED
      BY <2>2, <3>1
  <2>3. QED
    BY <2>1, <2>2
<1>8. QED
  BY <1>4, <1>6, <1>7 DEF Roll!HonourInv

LEMMA FinalizeHonours ==
  ASSUME Roll!Sound, Roll!TypeInv, Roll!TypeInv', Roll!HonourInv, NEW r \in Roll!Slots,
         Roll!CommitFinalize(r) PROVE Roll!HonourInv'
<1> DEFINE q == req[r]
<1>1. /\ q.pc = "commit" /\ q.op = "finalize" /\ UNCHANGED clashed
      /\ grants' = grants \cup ({q.e} \X q.led)
      /\ ribbon' = [m \in Members |-> IF m \in q.led THEN Roll!Decorated(q.ribbons[m]) ELSE ribbon[m]]
      /\ req' = [req EXCEPT ![r] = Roll!NoRequest]
  BY DEF Roll!CommitFinalize, Roll!End, Roll!history
<1>2. r \in Roll!Pending /\ q \in Roll!Handled
  BY <1>1, RequestFacts
<1>3. q.led \subseteq Members /\ q.e \in Events
  BY <1>2, HandledFacts
<1>4. \A m \in Members \ q.led : ribbon'[m] = ribbon[m] /\ LedBy(m)' = LedBy(m)
  BY <1>1 DEF LedBy
<1>5. ASSUME NEW m \in q.led \ clashed
      PROVE  Awards(ribbon'[m]) = Cardinality(LedBy(m)') + OwnOne(ribbon'[m])
  <2>1. <<q.e, m>> \notin grants /\ q.ribbons[m] = ribbon[m] /\ m \in Members
    BY <1>1, <1>2, <1>3, <1>5 DEF Roll!HonourInv, Roll!RibbonInv
  <2>2. ribbon'[m] = Roll!Decorated(ribbon[m]) /\ ribbon[m] \in Roll!RibbonType
    BY <1>1, <1>5, <2>1 DEF Roll!TypeInv
  <2>3. LedBy(m)' = LedBy(m) \cup {q.e} /\ q.e \notin LedBy(m)
    BY <1>1, <1>3, <1>5, <2>1 DEF LedBy
  <2>4. IsFiniteSet(LedBy(m)) /\ Cardinality(LedBy(m)) \in Nat
    BY RecordSizes DEF LedBy
  <2>5. Cardinality(LedBy(m)') = Cardinality(LedBy(m)) + 1
    BY <2>3, <2>4, FS_AddElement
  <2>6. Awards(ribbon[m]) = Cardinality(LedBy(m)) + OwnOne(ribbon[m])
    BY <1>5, <2>1, AwardsOfOne DEF Roll!HonourInv
  <2>7. QED
    BY <2>2, <2>4, <2>5, <2>6, DecoratedOne
<1>6. QED
  BY <1>1, <1>2, <1>4, <1>5, CommitHonours

LEMMA ReopenedHonours ==
  ASSUME Roll!Sound, Roll!TypeInv, Roll!TypeInv', Roll!HonourInv, NEW r \in Roll!Slots,
         Roll!CommitReopen(r) PROVE Roll!HonourInv'
<1> DEFINE q == req[r]
           new(m) == Roll!Undecorated(q.ribbons[m], q.counts[m])
<1> DEFINE back == {m \in q.led : q.ribbons[m].held}
<1>1. /\ q.pc = "commit" /\ q.op = "reopen" /\ UNCHANGED clashed
      /\ grants' = grants \ ({q.e} \X q.led)
      /\ \A m \in Members :
           ribbon'[m] = IF m \in q.led /\ q.ribbons[m].held THEN new(m) ELSE ribbon[m]
      /\ req' = [req EXCEPT ![r] = Roll!NoRequest]
  <2>1. /\ q.pc = "commit" /\ q.op = "reopen" /\ UNCHANGED clashed
        /\ grants' = grants \ ({q.e} \X q.led)
        /\ ribbon' = [m \in Members |-> IF m \in back THEN [c \in back |-> new(c)][m] ELSE ribbon[m]]
        /\ req' = [req EXCEPT ![r] = Roll!NoRequest]
    BY DEF Roll!CommitReopen, Roll!End, Roll!history
  <2>2. \A m \in back : [c \in back |-> new(c)][m] = new(m)
    OBVIOUS
  <2>3. QED
    BY <2>1, <2>2
<1>2. r \in Roll!Pending /\ q \in Roll!Handled
  BY <1>1, RequestFacts
<1>3. q.led \subseteq Members /\ q.e \in Events
  BY <1>2, HandledFacts
<1>4. \A m \in Members \ q.led : ribbon'[m] = ribbon[m] /\ LedBy(m)' = LedBy(m)
  BY <1>1 DEF LedBy
<1>5. ASSUME NEW m \in q.led \ clashed
      PROVE  Awards(ribbon'[m]) = Cardinality(LedBy(m)') + OwnOne(ribbon'[m])
  <2>1. /\ <<q.e, m>> \in grants /\ q.ribbons[m] = ribbon[m] /\ m \in Members
        /\ q.counts[m] = Roll!Cardinality(Roll!OtherGrants(q, m))
    BY <1>1, <1>2, <1>3, <1>5 DEF Roll!HonourInv, Roll!RibbonInv
  <2>2. ribbon[m] \in Roll!RibbonType
    BY <2>1 DEF Roll!TypeInv
  <2>3. LedBy(m) = Roll!OtherGrants(q, m) \cup {q.e} /\ q.e \notin Roll!OtherGrants(q, m)
    BY <1>3, <2>1 DEF LedBy, Roll!OtherGrants
  <2>4. LedBy(m)' = Roll!OtherGrants(q, m)
    BY <1>1, <1>3, <1>5 DEF LedBy, Roll!OtherGrants
  <2>5. IsFiniteSet(Roll!OtherGrants(q, m)) /\ Cardinality(Roll!OtherGrants(q, m)) \in Nat
    BY RecordSizes DEF Roll!OtherGrants
  <2>6. Cardinality(LedBy(m)) = q.counts[m] + 1 /\ q.counts[m] = Cardinality(Roll!OtherGrants(q, m))
    BY <2>1, <2>3, <2>5, FS_AddElement, RecordCounts
  <2>7. Awards(ribbon[m]) = q.counts[m] + 1 + OwnOne(ribbon[m])
    BY <1>5, <2>1, <2>6, AwardsOfOne DEF Roll!HonourInv
  <2>8. q.ribbons[m].held
    BY <2>1, <2>2, <2>5, <2>6, <2>7, DecoratedOne
  <2>9. ribbon'[m] = new(m)
    BY <1>1, <1>5, <2>1, <2>8
  <2>10. QED
    BY <2>1, <2>2, <2>4, <2>5, <2>6, <2>7, <2>8, <2>9, UndecoratedOne
<1>6. \A m \in Members, e \in Events : <<e, m>> \in grants /\ <<e, m>> \notin grants' => e = q.e
  BY <1>1
<1>7. QED
  BY <1>1, <1>2, <1>4, <1>5, <1>6, CommitHonours

-----------------------------------------------------------------------------
(* The record of attendance. *)

\* Rows stay the member's, at their event.
RowsStay ==
  \A i \in Roll!Rows : rsvp[i] # Roll!NoRow => /\ rsvp'[i] # Roll!NoRow
                                               /\ rsvp'[i].event = rsvp[i].event
                                               /\ rsvp'[i].member = rsvp[i].member
Attends(i, m) == rsvp[i] # Roll!NoRow /\ rsvp[i].member = m /\ rsvp[i].attended
Steady(m) == \A i \in Roll!Rows : Attends(i, m)' <=> Attends(i, m)

\* While a member's attendance stays, what was counted of it stays.
LEMMA CountedStays ==
  ASSUME Roll!TypeInv, Roll!TypeInv', RowsStay, NEW m \in Members, Steady(m),
         NEW also \in SUBSET Roll!Rows, \A i \in also : rsvp[i] # Roll!NoRow
  PROVE  /\ Roll!FtxRows(m, also)' = Roll!FtxRows(m, also)
         /\ \A e \in Events : (\E i \in Roll!RowsOf(e, m)' : rsvp'[i].attended \/ i \in also)
                                <=> \E i \in Roll!RowsOf(e, m) : rsvp[i].attended \/ i \in also
<1>1. ASSUME NEW i \in Roll!Rows
      PROVE  (rsvp'[i] # Roll!NoRow /\ rsvp'[i].member = m /\ (rsvp'[i].attended \/ i \in also))
               <=> (rsvp[i] # Roll!NoRow /\ rsvp[i].member = m /\ (rsvp[i].attended \/ i \in also))
  <2>1. CASE i \in also
    BY <2>1 DEF RowsStay
  <2>2. CASE i \notin also
    BY <2>2 DEF Steady, Attends
  <2>3. QED
    BY <2>1, <2>2
<1>2. ASSUME NEW i \in Roll!Rows, rsvp[i] # Roll!NoRow PROVE rsvp'[i].event = rsvp[i].event
  BY <1>2 DEF RowsStay
<1>3. Roll!FtxRows(m, also)' = Roll!FtxRows(m, also)
  BY <1>1, <1>2 DEF Roll!FtxRows
<1>4. ASSUME NEW e \in Events
      PROVE  (\E i \in Roll!RowsOf(e, m)' : rsvp'[i].attended \/ i \in also)
               <=> \E i \in Roll!RowsOf(e, m) : rsvp[i].attended \/ i \in also
  BY <1>1, <1>2 DEF Roll!RowsOf
<1>5. QED
  BY <1>3, <1>4

\* What a request that does not change has counted stays.
LEMMA CountKept ==
  ASSUME Roll!TypeInv, Roll!TypeInv', RowsStay, crossed \subseteq crossed', NEW s \in Roll!Pending,
         req'[s] = req[s],
         Roll!RequestInv(req[s]), Roll!CountInv(req[s]),
         \A m \in Members \ crossed' : Roll!Counts(s, m) => Steady(m),
         req[s].pc \in {"count", "award", "commit"} /\ req[s].op = "finalize" =>
           \A i \in req[s].marks \cap revoked' : i \in revoked \/ rsvp'[i].member \in crossed'
  PROVE  Roll!CountInv(req[s])'
<1>1. PICK q \in Roll!Handled : q = req[s]
  BY RequestFacts DEF Roll!Pending
<1>2. /\ q.m \in Members /\ q.i \in 0..MaxRows /\ q.marks \subseteq Roll!Rows /\ q.e \in Events
  BY HandledFacts
<1>3. ASSUME q.pc = "close", q.m \notin crossed' PROVE q.counts[q.m] = Roll!LeftAfter(q)'
  <2>1. /\ q.op \in {"revoke", "noshow"} /\ q.i # 0 /\ q.seen \in Roll!RowType
        /\ rsvp[q.i] # Roll!NoRow /\ rsvp[q.i].member = q.m
    BY <1>1, <1>3 DEF Roll!RequestInv, Roll!OpsAt
  <2>2. Steady(q.m)
    BY <1>1, <1>2, <1>3, <2>1 DEF Roll!Counts, Roll!Counting
  <2>3. q.i \in Roll!Rows
    BY <1>2, <2>1 DEF Roll!Rows
  <2>4. Roll!FtxRows(q.m, {})' = Roll!FtxRows(q.m, {})
    BY <1>2, <2>2, CountedStays
  <2>5. /\ rsvp[q.i] \in Roll!RowType /\ rsvp'[q.i] \in Roll!RowType
        /\ rsvp'[q.i].attended = rsvp[q.i].attended
    <3>1. rsvp'[q.i] # Roll!NoRow /\ rsvp'[q.i].member = q.m
      BY <2>1, <2>3 DEF RowsStay
    <3>2. rsvp[q.i] \in Roll!RowType /\ rsvp'[q.i] \in Roll!RowType
      BY <2>1, <2>3, <3>1 DEF Roll!TypeInv
    <3>3. rsvp'[q.i].attended <=> rsvp[q.i].attended
      BY <2>1, <2>2, <2>3, <3>1 DEF Steady, Attends
    <3>4. QED
      BY <3>2, <3>3 DEF Roll!RowType
  <2>6. Roll!Revoked(q) \in Roll!RowType
    BY <2>1 DEF Roll!Revoked, Roll!RowType
  <2>7. Roll!Merge(rsvp'[q.i], q.seen, Roll!Revoked(q)).attended
         = Roll!Merge(rsvp[q.i], q.seen, Roll!Revoked(q)).attended
    BY <2>1, <2>5, <2>6, Merged
  <2>8. Roll!LeftAfter(q)' = Roll!LeftAfter(q)
    BY <2>4, <2>7 DEF Roll!LeftAfter, Roll!Revoked, Roll!Merge
  <2>9. QED
    BY <1>1, <1>3, <2>8 DEF Roll!CountInv
<1>4. ASSUME q.pc \in {"award", "commit"}, q.op = "finalize", NEW m \in Members \ crossed'
      PROVE  /\ (m \in q.there <=> Roll!IsThere(q, m)')
             /\ q.counts[m] = Roll!Cardinality(Roll!FtxRows(m, q.marks)')
  <2>1. Steady(m)
    BY <1>1, <1>4 DEF Roll!Counts, Roll!Counting
  <2>2. \A i \in q.marks : rsvp[i] # Roll!NoRow
    BY <1>1 DEF Roll!RequestInv
  <2>3. /\ Roll!FtxRows(m, q.marks)' = Roll!FtxRows(m, q.marks)
        /\ (\E i \in Roll!RowsOf(q.e, m)' : rsvp'[i].attended \/ i \in q.marks)
             <=> \E i \in Roll!RowsOf(q.e, m) : rsvp[i].attended \/ i \in q.marks
    BY <1>2, <2>1, <2>2, CountedStays
  <2>4. (m \in q.there <=> Roll!IsThere(q, m)) /\ q.counts[m] = Roll!Cardinality(Roll!FtxRows(m, q.marks))
    BY <1>1, <1>4 DEF Roll!CountInv
  <2>5. QED
    BY <2>3, <2>4 DEF Roll!IsThere
<1>5. ASSUME q.pc \in {"count", "award", "commit"}, q.op = "finalize", NEW i \in q.marks \cap revoked'
      PROVE  rsvp'[i].member \in crossed'
  <2>1. i \in revoked => rsvp[i].member \in crossed
    BY <1>1, <1>5 DEF Roll!CountInv
  <2>2. rsvp[i] # Roll!NoRow
    BY <1>1, <1>5 DEF Roll!RequestInv
  <2>3. rsvp'[i].member = rsvp[i].member
    BY <1>2, <1>5, <2>2 DEF RowsStay
  <2>4. QED
    BY <1>1, <1>5, <2>1, <2>3
<1>6. req'[s] = q
  BY <1>1
<1>7. Roll!LeftAfter(req[s])' = Roll!LeftAfter(q)'
  BY <1>6 DEF Roll!LeftAfter, Roll!Revoked, Roll!Merge, Roll!FtxRows
<1>8. \A m \in Members : /\ Roll!IsThere(req[s], m)' <=> Roll!IsThere(q, m)'
                         /\ Roll!FtxRows(m, req[s].marks)' = Roll!FtxRows(m, q.marks)'
  BY <1>6 DEF Roll!IsThere, Roll!FtxRows, Roll!RowsOf
<1>9. QED
  BY <1>3, <1>4, <1>5, <1>6, <1>7, <1>8 DEF Roll!CountInv

\* One request changes, or none: what the others rely on stays.
LEMMA OthersKept ==
  ASSUME Roll!Sound, Roll!RecordInv, Roll!TypeInv', NEW r, \A s \in Roll!Slots \ {r} : req'[s] = req[s],
         RowsStay,
         \A e \in Events : event[e].stamp <= event'[e].stamp, crossed \subseteq crossed',
         r \in Roll!Slots => \A m \in Members :
           Roll!Counts(r, m)' => Roll!Counts(r, m) \/ (Roll!Beside(r, m) => m \in crossed'),
         r \in Roll!Slots /\ req'[r] # Roll!NoRequest => Roll!RequestInv(req[r])' /\ Roll!CountInv(req[r])',
         \A m \in Members \ crossed' : Steady(m) \/ \A s \in Roll!Slots \ {r} : ~Roll!Counts(s, m),
         \A i \in revoked' \ revoked, s \in Roll!Slots \ {r} :
           Roll!Counting(s) /\ req[s].op = "finalize" => rsvp'[i].member \in crossed'
  PROVE  Roll!CrossInv' /\ \A s \in Roll!Pending' : Roll!RequestInv(req[s])' /\ Roll!CountInv(req[s])'
<1>1. Roll!TypeInv
  BY DEF Roll!RecordInv
<1>2. \A s \in Roll!Slots \ {r}, m \in Members : Roll!Counts(s, m)' <=> Roll!Counts(s, m)
  BY DEF Roll!Counts, Roll!Counting
<1>3. Roll!CrossInv'
  <2> SUFFICES ASSUME NEW a \in Roll!Slots, NEW b \in Roll!Slots, NEW m \in Members, a # b,
                      Roll!Counts(a, m)', Roll!Counts(b, m)'
               PROVE  m \in crossed'
    BY DEF Roll!CrossInv
  <2>1. Roll!Counts(a, m) /\ Roll!Counts(b, m) => m \in crossed
    BY DEF Roll!RecordInv, Roll!CrossInv
  <2>2. CASE a # r /\ b # r
    BY <1>2, <2>1, <2>2
  <2>3. ASSUME NEW c \in Roll!Slots \ {r}, Roll!Counts(c, m), Roll!Counts(r, m)',
               r \in Roll!Slots PROVE m \in crossed'
    <3>1. Roll!Beside(r, m)
      BY <2>3 DEF Roll!Beside, Roll!Counts
    <3>2. Roll!Counts(r, m) => m \in crossed
      BY <2>3 DEF Roll!RecordInv, Roll!CrossInv
    <3>3. QED
      BY <2>3, <3>1, <3>2
  <2>4. QED
    BY <1>2, <2>2, <2>3
<1>4. ASSUME NEW s \in Roll!Pending' \ {r} PROVE Roll!RequestInv(req[s])' /\ Roll!CountInv(req[s])'
  <2>1. s \in Roll!Slots /\ req'[s] = req[s] /\ s \in Roll!Pending
    BY <1>4 DEF Roll!Pending
  <2>2. Roll!RequestInv(req[s]) /\ Roll!CountInv(req[s])
    BY <2>1 DEF Roll!RecordInv
  <2>3. PICK q \in Roll!Handled : q = req[s]
    BY <1>1, <2>1, RequestFacts DEF Roll!Pending
  <2>4. Roll!RequestInv(q)'
    <3>1. /\ q.i \in 0..MaxRows /\ q.marks \subseteq Roll!Rows /\ q.e \in Events /\ q.stamp \in 0..MaxEdits
          /\ MaxRows \in Nat /\ MaxEdits \in Nat
      BY HandledFacts DEF Roll!Sound
    <3>2. q.i # 0 => q.i \in Roll!Rows
      BY <3>1 DEF Roll!Rows
    <3>3. event[q.e].stamp \in Int /\ event'[q.e].stamp \in Int /\ q.stamp <= event[q.e].stamp
      BY <1>1, <2>2, <2>3, <3>1 DEF Roll!TypeInv, Roll!RequestInv
    <3>4. q.stamp <= event'[q.e].stamp
      BY <3>1, <3>3
    <3>5. \A i \in q.marks : rsvp'[i] # Roll!NoRow /\ rsvp'[i].event = q.e
      BY <2>2, <2>3, <3>1 DEF Roll!RequestInv, RowsStay
    <3>6. q.i # 0 => rsvp'[q.i] # Roll!NoRow /\ rsvp'[q.i].event = q.e /\ rsvp'[q.i].member = q.m
      BY <2>2, <2>3, <3>2 DEF Roll!RequestInv, RowsStay
    <3>7. QED
      BY <2>2, <2>3, <3>4, <3>5, <3>6 DEF Roll!RequestInv
  <2>5. Roll!RequestInv(req[s])'
    BY <2>1, <2>3, <2>4 DEF Roll!RequestInv
  <2>6. \A m \in Members \ crossed' : Roll!Counts(s, m) => Steady(m)
    BY <1>4, <2>1
  <2>7. req[s].pc \in {"count", "award", "commit"} /\ req[s].op = "finalize" =>
           \A i \in req[s].marks \cap revoked' : i \in revoked \/ rsvp'[i].member \in crossed'
    BY <1>4, <2>1 DEF Roll!Counting
  <2>8. Roll!CountInv(req[s])'
    BY <1>1, <2>1, <2>2, <2>6, <2>7, CountKept
  <2>9. QED
    BY <2>5, <2>8
<1>5. QED
  BY <1>3, <1>4 DEF Roll!Pending

\* Nobody's record changes: neither the rows nor what they got for it, and no
\* event is finalized.
LEMMA RecordsStay ==
  ASSUME Roll!Sound, Roll!RecordInv, Roll!TypeInv', Roll!BoundInv', NEW r,
         \A s \in Roll!Slots \ {r} : req'[s] = req[s],
         UNCHANGED <<rsvp, credits, ftx, revoked>>, crossed \subseteq crossed',
         \A e \in Events : /\ event[e].stamp <= event'[e].stamp /\ event'[e].stamp <= edits'
                           /\ event'[e].finalized => event[e].finalized,
         r \in Roll!Slots => \A m \in Members :
           Roll!Counts(r, m)' => Roll!Counts(r, m) \/ (Roll!Beside(r, m) => m \in crossed'),
         r \in Roll!Slots /\ req'[r] # Roll!NoRequest => Roll!RequestInv(req[r])' /\ Roll!CountInv(req[r])'
  PROVE  Roll!RecordInv'
<1>1. RowsStay /\ \A m \in Members : Steady(m)
  BY DEF RowsStay, Steady, Attends
<1>2. Roll!CrossInv' /\ \A s \in Roll!Pending' : Roll!RequestInv(req[s])' /\ Roll!CountInv(req[s])'
  BY <1>1, OthersKept
<1>3. Roll!RevokedInv'
  BY DEF Roll!RecordInv, Roll!RevokedInv
<1>4. Roll!CreditEarned'
  <2>1. \A e \in Events : event'[e].stamp = 0 => event[e].stamp = 0
    <3>1. \A e \in Events : event[e].stamp \in Nat /\ event[e].stamp <= event'[e].stamp
      BY DEF Roll!RecordInv, Roll!TypeInv, Roll!Sound
    <3>2. QED
      BY <3>1
  <2>2. QED
    BY <2>1 DEF Roll!RecordInv, Roll!CreditEarned, Roll!RowsOf
<1>5. Roll!CountsAttended'
  <2> SUFFICES ASSUME NEW m \in Members \ crossed',
                      \A i \in Roll!FtxRows(m, {})' : event'[rsvp'[i].event].finalized
               PROVE  ftx'[m] = Roll!Cardinality(Roll!FtxRows(m, {})')
    BY DEF Roll!CountsAttended
  <2>1. Roll!FtxRows(m, {})' = Roll!FtxRows(m, {})
    BY DEF Roll!FtxRows
  <2>2. \A i \in Roll!FtxRows(m, {}) : rsvp[i].event \in Events
    BY DEF Roll!FtxRows, Roll!RecordInv, Roll!Sound
  <2>3. \A i \in Roll!FtxRows(m, {}) : event[rsvp[i].event].finalized
    BY <2>1, <2>2
  <2>4. QED
    BY <2>1, <2>3 DEF Roll!RecordInv, Roll!CountsAttended
<1>6. QED
  BY <1>2, <1>3, <1>4, <1>5 DEF Roll!RecordInv

-----------------------------------------------------------------------------
(* Bounds. *)

\* Requests that end or go on leave room for the rows to come.
LEMMA RoomKept ==
  ASSUME Roll!Sound, Roll!TypeInv, Roll!BoundInv, UNCHANGED rsvp, Roll!Adding' \subseteq Roll!Adding
  PROVE  Cardinality(Roll!Adding') <= Cardinality(Roll!Free')
<1>1. Roll!Free' = Roll!Free
  BY DEF Roll!Free
<1>2. IsFiniteSet(Roll!Adding) /\ Cardinality(Roll!Adding) \in Nat /\ Cardinality(Roll!Free) \in Nat
  BY RecordSizes DEF Roll!Adding, Roll!Free
<1>3. Cardinality(Roll!Adding') <= Cardinality(Roll!Adding) /\ Cardinality(Roll!Adding') \in Nat
  BY <1>2, FS_Subset, FS_CardinalityType
<1>4. Cardinality(Roll!Adding) <= Cardinality(Roll!Free)
  BY RecordCounts DEF Roll!BoundInv
<1>5. QED
  BY <1>1, <1>2, <1>3, <1>4

\* What a request adds to a ribbon it has begun for.
LEMMA BoundFacts ==
  ASSUME Roll!Sound, Roll!TypeInv, Roll!BoundInv
  PROVE  /\ IsFiniteSet(Roll!Pending) /\ Cardinality(Roll!Pending) \in Nat
         /\ Cardinality(Roll!Pending) <= begun
         /\ begun \in Nat
         /\ \A m \in Members :
              /\ ribbon[m].devices \in Nat /\ ribbon[m].devices + Cardinality(Roll!Pending) <= begun
              /\ \A r \in Roll!Pending : /\ req[r].ribbons[m].devices \in Nat
                                         /\ req[r].ribbons[m].devices + Cardinality(Roll!Pending) <= begun
<1>1. IsFiniteSet(Roll!Pending) /\ Cardinality(Roll!Pending) \in Nat
  BY RecordSizes DEF Roll!Pending
<1>2. begun \in Nat
  BY DEF Roll!TypeInv, Roll!Sound
<1>3. \A rib \in Roll!RibbonType : rib.devices \in Nat
  BY DEF Roll!RibbonType, Roll!Sound
<1>4. \A m \in Members : ribbon[m].devices \in Nat
  BY <1>3 DEF Roll!TypeInv
<1>5. \A r \in Roll!Pending, m \in Members : req[r].ribbons[m].devices \in Nat
  <2> TAKE r \in Roll!Pending, m \in Members
  <2>1. req[r] \in Roll!Handled
    BY RequestFacts DEF Roll!Pending
  <2>2. req[r].ribbons[m] \in Roll!RibbonType
    BY <2>1, HandledFacts
  <2>3. QED
    BY <1>3, <2>2
<1>6. \A m \in Members :
        /\ ribbon[m].devices + Cardinality(Roll!Pending) <= begun
        /\ \A r \in Roll!Pending : req[r].ribbons[m].devices + Cardinality(Roll!Pending) <= begun
  BY RecordCounts DEF Roll!BoundInv
<1>7. PICK m \in Members : TRUE
  BY DEF Roll!Sound
<1>8. ribbon[m].devices \in Nat /\ ribbon[m].devices + Cardinality(Roll!Pending) <= begun
  BY <1>4, <1>6, <1>7
<1>9. Cardinality(Roll!Pending) <= begun
  BY <1>1, <1>2, <1>8
<1>10. QED
  BY <1>1, <1>2, <1>4, <1>5, <1>6, <1>9

LEMMA BoundBegins ==
  ASSUME Roll!Sound, Roll!TypeInv, Roll!BoundInv, NEW r \in Roll!Slots, NEW q \in Roll!Handled, NEW op,
         NEW pc, NEW e, NEW m, NEW i,
         Begun(r, q, op, pc, e, m, i), UNCHANGED <<rsvp, ribbon>>,
         pc = "save" /\ i = 0 => Roll!Cardinality(Roll!Free) > MaxActive - 1
  PROVE  Roll!BoundInv'
<1>1. /\ req[r] = Roll!NoRequest /\ req'[r] = q /\ (\A s \in Roll!Slots \ {r} : req'[s] = req[s])
      /\ begun' = begun + 1
  BY DEF Begun, Roll!TypeInv
<1>2. q.pc = pc /\ q.i = i /\ q # Roll!NoRequest /\ \A c \in Members : q.ribbons[c].devices = 0
  BY HandledFacts DEF Begun, Roll!NoRibbon, Roll!NoRequest
<1>3. Roll!Pending' = Roll!Pending \cup {r} /\ r \notin Roll!Pending
  BY <1>1, <1>2 DEF Roll!Pending
<1>4. Cardinality(Roll!Pending') = Cardinality(Roll!Pending) + 1
  BY <1>3, BoundFacts, FS_AddElement
<1>5. Cardinality(Roll!Adding') <= Cardinality(Roll!Free')
  <2>1. CASE pc = "save" /\ i = 0
    <3>1. Cardinality(Roll!Free) > MaxActive - 1 /\ Roll!Free' = Roll!Free
      BY <2>1, RecordCounts DEF Roll!Free
    <3>2. Cardinality(Roll!Adding') \in 0..MaxActive /\ Cardinality(Roll!Free) \in Nat /\ MaxActive \in Nat
      BY RecordSizes DEF Roll!Adding, Roll!Free, Roll!Sound
    <3>3. QED
      BY <3>1, <3>2
  <2>2. CASE ~(pc = "save" /\ i = 0)
    <3>1. Roll!Adding' \subseteq Roll!Adding
      BY <1>1, <1>2, <2>2 DEF Roll!Adding
    <3>2. QED
      BY <3>1, RoomKept
  <2>3. QED
    BY <2>1, <2>2
<1>6. ASSUME NEW c \in Members
      PROVE  /\ ribbon'[c].devices + Cardinality(Roll!Pending') <= begun'
             /\ \A s \in Roll!Pending' : req'[s].ribbons[c].devices + Cardinality(Roll!Pending') <= begun'
  <2>1. ribbon'[c].devices + Cardinality(Roll!Pending') <= begun'
    BY <1>1, <1>4, BoundFacts
  <2>2. ASSUME NEW s \in Roll!Pending' PROVE req'[s].ribbons[c].devices + Cardinality(Roll!Pending') <= begun'
    <3>1. CASE s = r
      BY <1>1, <1>2, <1>4, <3>1, BoundFacts
    <3>2. CASE s # r
      <4>1. s \in Roll!Pending /\ req'[s] = req[s]
        BY <1>1, <1>3, <2>2, <3>2 DEF Roll!Pending
      <4>2. QED
        BY <1>1, <1>4, <4>1, BoundFacts
    <3>3. QED
      BY <3>1, <3>2
  <2>3. QED
    BY <2>1, <2>2
<1>7. QED
  BY <1>5, <1>6, RecordCounts DEF Roll!BoundInv

LEMMA BoundMoves ==
  ASSUME Roll!Sound, Roll!TypeInv, Roll!BoundInv, NEW r \in Roll!Pending, NEW q \in Roll!Handled,
         req' = [req EXCEPT ![r] = q],
         q.pc # "save", UNCHANGED <<rsvp, ribbon, begun>>,
         q.ribbons = req[r].ribbons \/ q.ribbons = ribbon
  PROVE  Roll!BoundInv'
<1>1. /\ r \in Roll!Slots /\ req'[r] = q /\ (\A s \in Roll!Slots \ {r} : req'[s] = req[s])
      /\ q # Roll!NoRequest
  BY HandledFacts DEF Roll!TypeInv, Roll!NoRequest, Roll!Pending
<1>2. Roll!Pending' = Roll!Pending
  BY <1>1 DEF Roll!Pending
<1>3. Roll!Adding' \subseteq Roll!Adding
  BY <1>1 DEF Roll!Adding
<1>4. ASSUME NEW c \in Members
      PROVE  /\ ribbon'[c].devices + Cardinality(Roll!Pending') <= begun'
             /\ \A s \in Roll!Pending' : req'[s].ribbons[c].devices + Cardinality(Roll!Pending') <= begun'
  BY <1>1, <1>2, BoundFacts DEF Roll!Pending
<1>5. QED
  BY <1>3, <1>4, RoomKept, RecordCounts DEF Roll!BoundInv

LEMMA BoundEnds ==
  ASSUME Roll!Sound, Roll!TypeInv, Roll!BoundInv, NEW r \in Roll!Pending,
         req' = [req EXCEPT ![r] = Roll!NoRequest],
         UNCHANGED begun, Cardinality(Roll!Adding') <= Cardinality(Roll!Free'),
         \A m \in Members : /\ ribbon'[m].devices \in Nat
                            /\ \/ ribbon'[m].devices <= ribbon[m].devices
                               \/ ribbon'[m].devices <= req[r].ribbons[m].devices + 1
  PROVE  Roll!BoundInv'
<1>1. r \in Roll!Slots /\ req'[r] = Roll!NoRequest /\ (\A s \in Roll!Slots \ {r} : req'[s] = req[s])
  BY DEF Roll!TypeInv, Roll!Pending
<1>2. Roll!Pending' = Roll!Pending \ {r}
  BY <1>1 DEF Roll!Pending
<1>3. Cardinality(Roll!Pending') = Cardinality(Roll!Pending) - 1
  BY <1>2, BoundFacts, FS_RemoveElement
<1>4. ASSUME NEW c \in Members
      PROVE  /\ ribbon'[c].devices + Cardinality(Roll!Pending') <= begun'
             /\ \A s \in Roll!Pending' : req'[s].ribbons[c].devices + Cardinality(Roll!Pending') <= begun'
  <2>1. ribbon'[c].devices + Cardinality(Roll!Pending') <= begun'
    BY <1>3, BoundFacts
  <2>2. ASSUME NEW s \in Roll!Pending' PROVE req'[s].ribbons[c].devices + Cardinality(Roll!Pending') <= begun'
    <3>1. s \in Roll!Pending /\ req'[s] = req[s]
      BY <1>1, <1>2, <2>2 DEF Roll!Pending
    <3>2. QED
      BY <1>3, <3>1, BoundFacts
  <2>3. QED
    BY <2>1, <2>2
<1>5. QED
  BY <1>4, RecordCounts DEF Roll!BoundInv

LEMMA BoundStays ==
  ASSUME Roll!Sound, Roll!TypeInv, Roll!BoundInv,
         UNCHANGED <<rsvp, ribbon, req, begun>> PROVE Roll!BoundInv'
<1>1. Roll!Pending' = Roll!Pending /\ Roll!Adding' = Roll!Adding /\ Roll!Free' = Roll!Free
  BY DEF Roll!Pending, Roll!Adding, Roll!Free
<1>2. QED
  BY <1>1 DEF Roll!BoundInv

-----------------------------------------------------------------------------
(* Requests begin. *)

LEMMA OpsAtFacts ==
  /\ Roll!OpsAt("save") = {"checkin", "walkin", "present", "clear"}
  /\ Roll!OpsAt("revoke") = {"revoke", "noshow"} /\ Roll!OpsAt("close") = {"revoke", "noshow"}
  /\ Roll!OpsAt("reverse") = {"reopen"} /\ Roll!OpsAt("commit") = {"finalize", "reopen"}
  /\ Roll!OpsAt("mark") = {"finalize"} /\ Roll!OpsAt("count") = {"finalize"}
  /\ Roll!OpsAt("award") = {"finalize"}
BY DEF Roll!OpsAt

LEMMA Begins ==
  ASSUME Roll!Sound, Roll!AttendanceInv, NEW op, NEW pc, NEW e \in Events, NEW m \in Members,
         NEW i \in 0..MaxRows,
         pc \in {"save", "revoke", "mark", "reverse"}, op \in Roll!OpsAt(pc), Roll!Begin(op, pc, e, m, i),
         UNCHANGED <<rsvp, event, credits, ftx, ribbon, grants, cited, edits, crossed, revoked>>,
         clashed \subseteq clashed', clashed' \subseteq Members, pc = "revoke" => i # 0,
         i # 0 => rsvp[i] # Roll!NoRow /\ rsvp[i].event = e /\ rsvp[i].member = m,
         pc = "save" /\ i = 0 => Roll!Cardinality(Roll!Free) > MaxActive - 1
  PROVE  Roll!TypeInv' /\ Roll!RecordInv' /\ (op # "reopen" => Roll!HonourInv')
<1>1. Roll!TypeInv /\ Roll!BoundInv /\ Roll!HonourInv /\ Roll!RecordInv
  BY DEF Roll!AttendanceInv, Roll!RecordInv
<1>2. op \in {"checkin", "walkin", "present", "clear", "revoke", "noshow", "finalize", "reopen"}
  BY OpsAtFacts
<1>3. PICK r \in Roll!Slots, q \in Roll!Handled : Begun(r, q, op, pc, e, m, i)
  BY <1>1, <1>2, BegunFacts
<1>4. /\ req' = [req EXCEPT ![r] = q] /\ req[r] = Roll!NoRequest /\ req'[r] = q
      /\ \A s \in Roll!Slots \ {r} : req'[s] = req[s]
      /\ begun' \in 0..AttendanceRequests
  BY <1>1, <1>3 DEF Begun, Roll!TypeInv
<1>5. Roll!TypeInv'
  BY <1>1, <1>4 DEF Roll!TypeInv, Roll!RowsOf, Roll!Rows
<1>6. Roll!BoundInv'
  BY <1>1, <1>3, BoundBegins
<1>7. /\ q.op = op /\ q.pc = pc /\ q.e = e /\ q.i = i /\ q.m = m
      /\ q.seen = IF i = 0 THEN Roll!NoRow ELSE rsvp[i]
      /\ q.stamp = event[e].stamp /\ q.marks = {} /\ q.there = {} /\ q.due = {}
      /\ op # "reopen" => q.led = {}
  BY <1>3 DEF Begun
<1>8. Roll!RequestInv(q)'
  <2>1. i # 0 => rsvp[i] \in Roll!RowType
    <3>1. i # 0 => i \in Roll!Rows
      BY DEF Roll!Rows, Roll!Sound
    <3>2. QED
      BY <1>1, <3>1 DEF Roll!TypeInv
  <2>2. event[e].stamp \in Int /\ event' = event /\ rsvp' = rsvp
    BY <1>1 DEF Roll!TypeInv
  <2>3. \A c \in Members : q.counts[c] <= MaxRows
    BY <1>3 DEF Begun, Roll!Sound
  <2>4. QED
    BY <1>7, <2>1, <2>2, <2>3 DEF Roll!RequestInv
<1>9. Roll!RequestInv(req[r])' /\ Roll!CountInv(req[r])'
  <2>1. Roll!RequestInv(req[r])'
    BY <1>4, <1>8 DEF Roll!RequestInv
  <2>2. req'[r].pc \in {"save", "revoke", "mark", "reverse"}
    BY <1>4, <1>7
  <2>3. QED
    BY <2>1, <2>2 DEF Roll!CountInv
<1>10. \A c \in Members : ~Roll!Counts(r, c)'
  BY <1>4, <1>7 DEF Roll!Counts, Roll!Counting
<1>11. Roll!RecordInv'
  <2>1. \A f \in Events : /\ event[f].stamp <= event'[f].stamp /\ event'[f].stamp <= edits'
                          /\ event'[f].finalized => event[f].finalized
    BY <1>1 DEF Roll!RecordInv, Roll!TypeInv, Roll!Sound
  <2>2. QED
    BY <1>1, <1>4, <1>5, <1>6, <1>9, <1>10, <2>1, RecordsStay
<1>12. op # "reopen" => Roll!HonourInv'
  BY <1>1, <1>4, <1>5, <1>7, HonoursStay
<1>13. QED
  BY <1>5, <1>11, <1>12

LEMMA AttendanceBegins ==
  ASSUME Roll!Sound, Roll!AttendanceInv, NEW e \in Events, NEW m \in Members,
         Roll!BeginCheckIn(e, m) \/ Roll!BeginUncheckIn(e, m) \/ Roll!BeginWalkIn(e, m)
  PROVE  Roll!AttendanceInv'
<1>1. /\ UNCHANGED <<rsvp, event, credits, ftx, ribbon, grants, cited, edits, crossed, clashed, revoked>>
      /\ clashed \subseteq Members
  BY DEF Roll!BeginCheckIn, Roll!BeginUncheckIn, Roll!BeginWalkIn, Roll!records, Roll!honours, Roll!history,
     Roll!AttendanceInv, Roll!RecordInv, Roll!TypeInv
<1>2. PICK i : i = Roll!TheRow(e, m)
  OBVIOUS
<1>3. \/ i = 0 /\ Roll!RowsOf(e, m) = {}
      \/ i \in Roll!Rows /\ rsvp[i] # Roll!NoRow /\ rsvp[i].event = e /\ rsvp[i].member = m
  <2>1. CASE Roll!RowsOf(e, m) = {}
    BY <1>2, <2>1 DEF Roll!TheRow
  <2>2. CASE Roll!RowsOf(e, m) # {}
    <3>1. Cardinality(Roll!RowsOf(e, m)) <= 1
      BY <2>2, RecordCounts DEF Roll!BeginCheckIn, Roll!BeginUncheckIn, Roll!BeginWalkIn, Roll!Unique
    <3>2. \E j \in Roll!Rows : Roll!RowsOf(e, m) = {j}
      <4>1. PICK j \in Roll!RowsOf(e, m) : TRUE
        BY <2>2
      <4>2. IsFiniteSet(Roll!RowsOf(e, m)) /\ IsFiniteSet(Roll!RowsOf(e, m) \ {j}) /\ j \in Roll!Rows
        BY <4>1, RecordSizes DEF Roll!RowsOf
      <4>3. Cardinality(Roll!RowsOf(e, m)) \in Nat /\ Cardinality(Roll!RowsOf(e, m) \ {j}) \in Nat
        BY <4>2, FS_CardinalityType
      <4>4. Cardinality(Roll!RowsOf(e, m) \ {j}) = Cardinality(Roll!RowsOf(e, m)) - 1
        BY <4>1, <4>2, FS_RemoveElement
      <4>5. Cardinality(Roll!RowsOf(e, m) \ {j}) = 0
        BY <3>1, <4>3, <4>4
      <4>6. Roll!RowsOf(e, m) \ {j} = {}
        BY <4>2, <4>5, FS_EmptySet
      <4>7. QED
        BY <4>1, <4>2, <4>6
    <3>3. i \in Roll!Rows /\ Roll!RowsOf(e, m) = {i}
      BY <1>2, <2>2, <3>2 DEF Roll!TheRow
    <3>4. QED
      BY <3>3 DEF Roll!RowsOf
  <2>3. QED
    BY <2>1, <2>2
<1>4. i \in 0..MaxRows
  BY <1>3 DEF Roll!Rows, Roll!Sound
<1>5. 0 \in 0..MaxRows
  BY DEF Roll!Sound
<1>6. CASE Roll!BeginCheckIn(e, m)
  <2>1. /\ Roll!Begin("checkin", "save", e, m, i)
        /\ (Roll!RowsOf(e, m) = {} => Roll!Cardinality(Roll!Free) > MaxActive - 1)
    BY <1>2, <1>6 DEF Roll!BeginCheckIn
  <2>2. i = 0 => Roll!Cardinality(Roll!Free) > MaxActive - 1
    BY <1>3, <2>1 DEF Roll!Rows
  <2>3. Roll!RecordInv' /\ Roll!HonourInv'
    BY <1>1, <1>3, <1>4, <2>1, <2>2, OpsAtFacts, Begins
  <2>4. QED
    BY <2>3 DEF Roll!AttendanceInv
<1>7. CASE Roll!BeginUncheckIn(e, m)
  <2>1. Roll!Begin("revoke", "revoke", e, m, i) /\ Roll!RowsOf(e, m) # {}
    BY <1>2, <1>7 DEF Roll!BeginUncheckIn
  <2>2. i # 0
    BY <1>3, <2>1 DEF Roll!Rows
  <2>3. Roll!RecordInv' /\ Roll!HonourInv'
    BY <1>1, <1>3, <1>4, <2>1, <2>2, OpsAtFacts, Begins
  <2>4. QED
    BY <2>3 DEF Roll!AttendanceInv
<1>8. CASE Roll!BeginWalkIn(e, m)
  <2>1. Roll!Begin("walkin", "save", e, m, 0) /\ Roll!Cardinality(Roll!Free) > MaxActive - 1
    BY <1>8 DEF Roll!BeginWalkIn
  <2>2. Roll!RecordInv' /\ Roll!HonourInv'
    BY <1>1, <1>5, <2>1, OpsAtFacts, Begins
  <2>3. QED
    BY <2>2 DEF Roll!AttendanceInv
<1>9. QED
  BY <1>6, <1>7, <1>8

LEMMA MarkBegins ==
  ASSUME Roll!Sound, Roll!AttendanceInv, NEW i \in Roll!Rows, Roll!BeginToggle(i) \/ Roll!BeginNoShow(i)
  PROVE  Roll!AttendanceInv'
<1>1. /\ UNCHANGED <<rsvp, event, credits, ftx, ribbon, grants, cited, edits, crossed, clashed, revoked>>
      /\ clashed \subseteq Members
  BY DEF Roll!BeginToggle, Roll!BeginNoShow, Roll!records, Roll!honours, Roll!history, Roll!AttendanceInv,
     Roll!RecordInv, Roll!TypeInv
<1>2. i \in 0..MaxRows /\ i # 0
  BY DEF Roll!Rows, Roll!Sound
<1>3. rsvp[i] # Roll!NoRow /\ rsvp[i].event \in Events /\ rsvp[i].member \in Members
  BY DEF Roll!BeginToggle, Roll!BeginNoShow, Roll!AttendanceInv, Roll!RecordInv, Roll!TypeInv, Roll!RowType
<1>4. PICK e \in Events, m \in Members : e = rsvp[i].event /\ m = rsvp[i].member
  BY <1>3
<1>5. \/ Roll!Begin("revoke", "revoke", e, m, i) \/ Roll!Begin("noshow", "revoke", e, m, i)
      \/ Roll!Begin("present", "save", e, m, i) \/ Roll!Begin("clear", "save", e, m, i)
  BY <1>4 DEF Roll!BeginToggle, Roll!BeginNoShow
<1>6. ASSUME NEW op, NEW pc, <<op, pc>> \in {<<"revoke", "revoke">>, <<"noshow", "revoke">>,
                                             <<"present", "save">>, <<"clear", "save">>},
             Roll!Begin(op, pc, e, m, i)
      PROVE  Roll!AttendanceInv'
  <2>1. pc \in {"save", "revoke"} /\ op \in Roll!OpsAt(pc) /\ op # "reopen"
    BY <1>6, OpsAtFacts
  <2>2. Roll!RecordInv' /\ Roll!HonourInv'
    BY <1>1, <1>2, <1>3, <1>4, <1>6, <2>1, Begins
  <2>3. QED
    BY <2>2 DEF Roll!AttendanceInv
<1>7. QED
  BY <1>5, <1>6

LEMMA EventBegins ==
  ASSUME Roll!Sound, Roll!AttendanceInv, NEW e \in Events, Roll!BeginFinalize(e) \/ Roll!BeginReopen(e)
  PROVE  Roll!AttendanceInv'
<1>1. /\ UNCHANGED <<rsvp, event, credits, ftx, ribbon, grants, cited, edits, crossed, revoked>>
      /\ clashed \subseteq Members /\ clashed \subseteq clashed' /\ clashed' \subseteq Members
  BY DEF Roll!BeginFinalize, Roll!BeginReopen, Roll!records, Roll!honours, Roll!history, Roll!AttendanceInv,
     Roll!RecordInv, Roll!TypeInv
<1>2. 0 \in 0..MaxRows
  BY DEF Roll!Sound
<1>3. PICK m \in Members : m = CHOOSE c \in Members : TRUE
  BY DEF Roll!Sound
<1>4. CASE Roll!BeginFinalize(e)
  <2>1. Roll!Begin("finalize", "mark", e, m, 0)
    BY <1>3, <1>4 DEF Roll!BeginFinalize
  <2>2. Roll!RecordInv' /\ Roll!HonourInv'
    BY <1>1, <1>2, <2>1, OpsAtFacts, Begins
  <2>3. QED
    BY <2>2 DEF Roll!AttendanceInv
<1>5. CASE Roll!BeginReopen(e)
  <2>1. Roll!Begin("reopen", "reverse", e, m, 0)
    BY <1>3, <1>5 DEF Roll!BeginReopen
  <2>2. Roll!TypeInv' /\ Roll!RecordInv'
    BY <1>1, <1>2, <2>1, OpsAtFacts, Begins
  <2>3. Roll!TypeInv /\ Roll!HonourInv
    BY DEF Roll!AttendanceInv, Roll!RecordInv
  <2>4. Roll!HonourInv'
    BY <1>5, <2>2, <2>3, ReopenHonours
  <2>5. QED
    BY <2>2, <2>4 DEF Roll!AttendanceInv
<1>6. QED
  BY <1>4, <1>5

-----------------------------------------------------------------------------
(* Requests go on, and end. *)

\* A request goes on with what it read: what it is about stays.
LEMMA RecordMoves ==
  ASSUME Roll!Sound, Roll!RecordInv, NEW r \in Roll!Pending, NEW q \in Roll!Handled,
         req' = [req EXCEPT ![r] = q],
         UNCHANGED <<rsvp, event, credits, ftx, ribbon, grants, cited, begun, edits, revoked>>,
         crossed \subseteq crossed', crossed' \subseteq Members, clashed' \subseteq Members,
         q.e = req[r].e /\ q.i = req[r].i /\ q.m = req[r].m /\ q.seen = req[r].seen
           /\ q.stamp = req[r].stamp /\ q.op = req[r].op,
         q.op \in Roll!OpsAt(q.pc), q.pc # "save",
         q.pc \in {"revoke", "close"} => req[r].pc \in {"revoke", "close"},
         q.due \subseteq q.there, \A i \in q.marks : rsvp[i] # Roll!NoRow /\ rsvp[i].event = q.e,
         q.op # "reopen" => \A m \in Members : q.counts[m] <= MaxRows,
         q.ribbons = req[r].ribbons \/ q.ribbons = ribbon,
         \A m \in Members : Roll!Counts(r, m)' => Roll!Counts(r, m) \/ (Roll!Beside(r, m) => m \in crossed'),
         Roll!CountInv(req[r])'
  PROVE  Roll!TypeInv' /\ Roll!RecordInv'
<1>1. Roll!TypeInv /\ Roll!BoundInv /\ Roll!RequestInv(req[r]) /\ r \in Roll!Slots
  BY DEF Roll!RecordInv, Roll!Pending
<1>2. req'[r] = q /\ \A s \in Roll!Slots \ {r} : req'[s] = req[s]
  BY <1>1 DEF Roll!TypeInv
<1>3. Roll!TypeInv'
  BY <1>1, <1>2 DEF Roll!TypeInv
<1>4. Roll!BoundInv'
  BY <1>1, BoundMoves
<1>5. Roll!RequestInv(q)'
  BY <1>1 DEF Roll!RequestInv
<1>6. Roll!RequestInv(req[r])'
  BY <1>2, <1>5 DEF Roll!RequestInv
<1>7. \A f \in Events : /\ event[f].stamp <= event'[f].stamp /\ event'[f].stamp <= edits'
                        /\ event'[f].finalized => event[f].finalized
  BY <1>1 DEF Roll!RecordInv, Roll!TypeInv, Roll!Sound
<1>8. Roll!RecordInv'
  BY <1>1, <1>2, <1>3, <1>4, <1>6, <1>7, RecordsStay
<1>9. QED
  BY <1>3, <1>8

LEMMA RevokeMoves ==
  ASSUME Roll!Sound, Roll!AttendanceInv, NEW r \in Roll!Slots, Roll!FlushRevoke(r)
  PROVE  Roll!AttendanceInv'
<1> DEFINE q == req[r]
           row == Roll!Merge(rsvp[q.i], q.seen, Roll!Revoked(q))
           left == Roll!Cardinality(Roll!FtxRows(q.m, {}) \ {q.i})
                      + IF row.attended /\ q.e \in Field THEN 1 ELSE 0
           new == [q EXCEPT !.pc = "close", !.counts = [@ EXCEPT ![q.m] = left]]
<1>1. /\ q.pc = "revoke" /\ UNCHANGED <<rsvp, event, credits, ftx, ribbon, grants, cited, begun, edits,
                                        clashed, revoked>>
      /\ crossed' = IF Roll!Beside(r, q.m) THEN crossed \cup {q.m} ELSE crossed
  BY DEF Roll!FlushRevoke, Roll!records, Roll!honours, Roll!bounds
<1>2. /\ Roll!RecordInv /\ Roll!TypeInv /\ Roll!HonourInv /\ r \in Roll!Pending /\ q \in Roll!Handled
      /\ Roll!RequestInv(q)
  BY <1>1, RequestFacts DEF Roll!AttendanceInv, Roll!RecordInv
<1>3. q.op \in {"revoke", "noshow"} /\ q.i # 0 /\ q.i \in Roll!Rows /\ q.m \in Members
  <2>1. q.i \in 0..MaxRows /\ q.m \in Members
    BY <1>2, HandledFacts
  <2>2. QED
    BY <1>1, <1>2, <2>1, OpsAtFacts DEF Roll!RequestInv, Roll!Rows
<1>4. left \in 0..MaxRows
  <2>1. Roll!FtxRows(q.m, {}) \ {q.i} \subseteq Roll!Rows \ {q.i}
    BY DEF Roll!FtxRows
  <2>2. /\ IsFiniteSet(Roll!Rows) /\ Cardinality(Roll!Rows) \in 0..MaxRows
        /\ Cardinality(Roll!FtxRows(q.m, {}) \ {q.i}) \in 0..MaxRows
    BY <2>1, RecordSizes
  <2>3. IsFiniteSet(Roll!Rows \ {q.i}) /\ Cardinality(Roll!Rows \ {q.i}) = Cardinality(Roll!Rows) - 1
    BY <1>3, <2>2, FS_RemoveElement
  <2>4. Cardinality(Roll!FtxRows(q.m, {}) \ {q.i}) <= Cardinality(Roll!Rows \ {q.i})
    BY <2>1, <2>3, FS_Subset
  <2>5. PICK k \in Nat : k = Roll!Cardinality(Roll!FtxRows(q.m, {}) \ {q.i})
    BY <2>2, RecordCounts
  <2>6. k + 1 <= MaxRows
    BY <2>2, <2>3, <2>4, <2>5, RecordCounts DEF Roll!Sound
  <2>7. QED
    BY <2>5, <2>6 DEF Roll!Sound
<1>5. /\ new \in Roll!Handled /\ new.pc = "close" /\ new.op = q.op /\ new.e = q.e /\ new.i = q.i
      /\ new.m = q.m
      /\ new.seen = q.seen /\ new.stamp = q.stamp /\ new.due = q.due /\ new.there = q.there
      /\ new.marks = q.marks /\ new.ribbons = q.ribbons /\ new.led = q.led
      /\ new.counts = [q.counts EXCEPT ![q.m] = left]
  <2>1. [q.counts EXCEPT ![q.m] = left] \in [Members -> Nat]
    BY <1>2, <1>4, HandledFacts DEF Roll!Sound
  <2> HIDE DEF left
  <2>2. QED
    BY <1>2, <2>1 DEF Roll!Handled
<1>6. new.counts[q.m] = left /\ \A m \in Members : new.counts[m] <= MaxRows
  <2> HIDE DEF left
  <2>1. \A m \in Members : q.counts[m] <= MaxRows
    BY <1>2, <1>3 DEF Roll!RequestInv
  <2>2. q.counts \in [Members -> Nat] /\ left <= MaxRows
    BY <1>2, <1>4, HandledFacts DEF Roll!Sound
  <2> HIDE DEF new
  <2>3. QED
    BY <1>3, <1>5, <2>1, <2>2
<1>7. req' = [req EXCEPT ![r] = new]
  BY <1>2 DEF Roll!FlushRevoke, Roll!TypeInv
<1> HIDE DEF new, left, row
<1>8. req'[r] = new
  BY <1>2, <1>7 DEF Roll!TypeInv
<1>9. Roll!CountInv(req[r])'
  <2>1. left = Roll!LeftAfter(q)
    BY DEF left, row, Roll!LeftAfter
  <2>2. Roll!LeftAfter(req[r])' = Roll!LeftAfter(q)
    <3>1. /\ req'[r].m = q.m /\ req'[r].i = q.i /\ req'[r].e = q.e /\ req'[r].seen = q.seen
          /\ req'[r].op = q.op
      BY <1>5, <1>8
    <3>2. Roll!FtxRows(req[r].m, {})' = Roll!FtxRows(q.m, {})
      BY <1>1, <3>1 DEF Roll!FtxRows
    <3>3. Roll!Revoked(req[r])' = Roll!Revoked(q)
      BY <3>1 DEF Roll!Revoked
    <3>4. Roll!Merge(rsvp[req[r].i], req[r].seen, Roll!Revoked(req[r]))' = row
      BY <1>1, <3>1, <3>3 DEF Roll!Merge, row
    <3>5. QED
      BY <3>1, <3>2, <3>4 DEF Roll!LeftAfter, row
  <2>3. QED
    BY <1>5, <1>6, <1>8, <2>1, <2>2 DEF Roll!CountInv
<1>10. \A m \in Members : Roll!Counts(r, m)' => Roll!Counts(r, m) \/ (Roll!Beside(r, m) => m \in crossed')
  BY <1>1, <1>3, <1>5, <1>8 DEF Roll!Counts
<1>11. crossed \subseteq crossed' /\ crossed' \subseteq Members /\ clashed' \subseteq Members
  BY <1>1, <1>2, <1>3 DEF Roll!TypeInv
<1>12. new.op \in Roll!OpsAt(new.pc) /\ new.op # "reopen"
  BY <1>3, <1>5, OpsAtFacts
<1>13. Roll!TypeInv' /\ Roll!RecordInv'
  BY <1>1, <1>2, <1>5, <1>6, <1>7, <1>9, <1>10, <1>11, <1>12, RecordMoves DEF Roll!RequestInv
<1>14. Roll!HonourInv'
  <2>1. \A s \in Roll!Slots \ {r} : req'[s] = req[s]
    BY <1>2, <1>7 DEF Roll!TypeInv
  <2>2. QED
    BY <1>1, <1>2, <1>5, <1>8, <1>12, <1>13, <2>1, HonoursStay
<1>15. QED
  BY <1>13, <1>14 DEF Roll!AttendanceInv

LEMMA MarkMoves ==
  ASSUME Roll!Sound, Roll!AttendanceInv, NEW r \in Roll!Slots, Roll!MarkCheckIns(r)
  PROVE  Roll!AttendanceInv'
<1> DEFINE q == req[r]
           marks == {i \in Roll!Rows : /\ rsvp[i] # Roll!NoRow /\ rsvp[i].event = q.e
                                       /\ rsvp[i].checked /\ ~rsvp[i].attended}
           new == [q EXCEPT !.pc = "count", !.marks = marks]
<1>1. /\ q.pc = "mark" /\ UNCHANGED <<rsvp, event, credits, ftx, ribbon, grants, cited, begun, edits,
                                      clashed, revoked>>
      /\ crossed' = crossed \cup {m \in Members : Roll!Beside(r, m)} /\ ~Roll!LockedEvent(r, q.e)
  BY DEF Roll!MarkCheckIns, Roll!records, Roll!honours, Roll!bounds
<1>2. /\ Roll!RecordInv /\ Roll!TypeInv /\ Roll!HonourInv /\ r \in Roll!Pending /\ q \in Roll!Handled
      /\ Roll!RequestInv(q)
  BY <1>1, RequestFacts DEF Roll!AttendanceInv, Roll!RecordInv
<1>3. q.op = "finalize"
  BY <1>1, <1>2, OpsAtFacts DEF Roll!RequestInv
<1>4. /\ new \in Roll!Handled /\ new.pc = "count" /\ new.op = q.op /\ new.e = q.e /\ new.i = q.i
      /\ new.m = q.m
      /\ new.seen = q.seen /\ new.stamp = q.stamp /\ new.due = q.due /\ new.there = q.there
      /\ new.marks = marks /\ new.ribbons = q.ribbons /\ new.led = q.led /\ new.counts = q.counts
  BY <1>2 DEF Roll!Handled
<1>5. req' = [req EXCEPT ![r] = new]
  BY <1>2 DEF Roll!MarkCheckIns, Roll!TypeInv
<1>6. \A i \in marks : rsvp[i] # Roll!NoRow /\ rsvp[i].event = q.e
  OBVIOUS
<1>7. \A i \in marks \cap revoked : rsvp[i].member \in crossed
  BY <1>2 DEF Roll!RecordInv, Roll!RevokedInv
<1> HIDE DEF new, marks
<1>8. req'[r] = new
  BY <1>2, <1>5 DEF Roll!TypeInv
<1>9. Roll!CountInv(req[r])'
  BY <1>1, <1>4, <1>7, <1>8 DEF Roll!CountInv
<1>10. \A m \in Members : Roll!Counts(r, m)' => Roll!Counts(r, m) \/ (Roll!Beside(r, m) => m \in crossed')
  BY <1>1 DEF Roll!Counts
<1>11. crossed \subseteq crossed' /\ crossed' \subseteq Members /\ clashed' \subseteq Members
  BY <1>1, <1>2 DEF Roll!TypeInv
<1>12. new.op \in Roll!OpsAt(new.pc) /\ new.op # "reopen" /\ \A m \in Members : new.counts[m] <= MaxRows
  BY <1>2, <1>3, <1>4, OpsAtFacts DEF Roll!RequestInv
<1>13. Roll!TypeInv' /\ Roll!RecordInv'
  BY <1>1, <1>2, <1>4, <1>5, <1>6, <1>9, <1>10, <1>11, <1>12, RecordMoves DEF Roll!RequestInv
<1>14. Roll!HonourInv'
  <2>1. \A s \in Roll!Slots \ {r} : req'[s] = req[s]
    BY <1>2, <1>5 DEF Roll!TypeInv
  <2>2. QED
    BY <1>1, <1>2, <1>4, <1>8, <1>12, <1>13, <2>1, HonoursStay
<1>15. QED
  BY <1>13, <1>14 DEF Roll!AttendanceInv

LEMMA CountMoves ==
  ASSUME Roll!Sound, Roll!AttendanceInv, NEW r \in Roll!Slots, Roll!CountAttendees(r)
  PROVE  Roll!AttendanceInv'
<1> DEFINE q == req[r]
           there == {m \in Members : \E i \in Roll!RowsOf(q.e, m) : rsvp[i].attended \/ i \in q.marks}
           due == {m \in there : credits[m] = {}}
           counts == [m \in Members |-> Roll!Cardinality(Roll!FtxRows(m, q.marks))]
           new == [q EXCEPT !.pc = "award", !.there = there, !.due = due, !.counts = counts]
<1>1. /\ q.pc = "count" /\ UNCHANGED <<rsvp, event, credits, ftx, ribbon, grants, cited, begun, edits,
                                       clashed, revoked>>
      /\ crossed' = crossed \cup {m \in Members : Roll!Beside(r, m)}
  BY DEF Roll!CountAttendees, Roll!records, Roll!honours, Roll!bounds
<1>2. /\ Roll!RecordInv /\ Roll!TypeInv /\ Roll!HonourInv /\ r \in Roll!Pending /\ q \in Roll!Handled
      /\ Roll!RequestInv(q) /\ Roll!CountInv(q)
  BY <1>1, RequestFacts DEF Roll!AttendanceInv, Roll!RecordInv
<1>3. q.op = "finalize"
  BY <1>1, <1>2, OpsAtFacts DEF Roll!RequestInv
<1>4. \A m \in Members : counts[m] \in 0..MaxRows
  <2>1. \A m \in Members : Roll!FtxRows(m, q.marks) \subseteq Roll!Rows
    BY DEF Roll!FtxRows
  <2>2. QED
    BY <2>1, RecordSizes, RecordCounts
<1>5. counts \in [Members -> Nat]
  BY <1>4 DEF Roll!Sound
<1>6. req' = [req EXCEPT ![r] = new]
  BY <1>2 DEF Roll!CountAttendees, Roll!TypeInv
<1>7. there \subseteq Members /\ due \subseteq there
  OBVIOUS
<1>8. \A m \in Members : /\ m \in there <=> Roll!IsThere(q, m)
                         /\ counts[m] = Roll!Cardinality(Roll!FtxRows(m, q.marks))
  BY DEF Roll!IsThere
<1> HIDE DEF there, due, counts
<1>9. /\ new \in Roll!Handled /\ new.pc = "award" /\ new.op = q.op /\ new.e = q.e /\ new.i = q.i
      /\ new.m = q.m
      /\ new.seen = q.seen /\ new.stamp = q.stamp /\ new.due = due /\ new.there = there
      /\ new.marks = q.marks /\ new.ribbons = q.ribbons /\ new.led = q.led /\ new.counts = counts
  BY <1>2, <1>5, <1>7 DEF Roll!Handled
<1> HIDE DEF new
<1>10. req'[r] = new
  BY <1>2, <1>6 DEF Roll!TypeInv
<1>11. crossed \subseteq crossed' /\ crossed' \subseteq Members /\ clashed' \subseteq Members
  BY <1>1, <1>2 DEF Roll!TypeInv
<1>12. Roll!CountInv(req[r])'
  <2>1. \A m \in Members : Roll!IsThere(req[r], m)' <=> Roll!IsThere(q, m)
    BY <1>1, <1>9, <1>10 DEF Roll!IsThere, Roll!RowsOf
  <2>2. \A m \in Members : Roll!FtxRows(m, req[r].marks)' = Roll!FtxRows(m, q.marks)
    BY <1>1, <1>9, <1>10 DEF Roll!FtxRows
  <2>3. \A i \in q.marks \cap revoked : rsvp[i].member \in crossed
    BY <1>1, <1>2, <1>3 DEF Roll!CountInv
  <2>4. QED
    BY <1>1, <1>8, <1>9, <1>10, <1>11, <2>1, <2>2, <2>3 DEF Roll!CountInv
<1>13. \A m \in Members : Roll!Counts(r, m)' => Roll!Counts(r, m)
  BY <1>1, <1>3 DEF Roll!Counts, Roll!Counting
<1>14. new.op \in Roll!OpsAt(new.pc) /\ new.op # "reopen"
  BY <1>3, <1>9, OpsAtFacts
<1>15. \A m \in Members : new.counts[m] <= MaxRows
  BY <1>4, <1>9 DEF Roll!Sound
<1>16. Roll!TypeInv' /\ Roll!RecordInv'
  BY <1>1, <1>2, <1>6, <1>7, <1>9, <1>11, <1>12, <1>13, <1>14, <1>15, RecordMoves DEF Roll!RequestInv
<1>17. Roll!HonourInv'
  <2>1. \A s \in Roll!Slots \ {r} : req'[s] = req[s]
    BY <1>2, <1>6 DEF Roll!TypeInv
  <2>2. ~Roll!LockedEvent(r, q.e)
    <3>1. Roll!Holds(r, q.e) /\ q.e \in Events
      BY <1>1, <1>2, <1>3, HandledFacts DEF Roll!Holds
    <3>2. QED
      BY <1>2, <3>1 DEF Roll!LockedEvent, Roll!HonourInv, Roll!EventInv
  <2>3. QED
    BY <1>1, <1>2, <1>9, <1>10, <1>14, <1>16, <2>1, <2>2, HonoursStay
<1>18. QED
  BY <1>16, <1>17 DEF Roll!AttendanceInv

LEMMA RibbonMoves ==
  ASSUME Roll!Sound, Roll!AttendanceInv, NEW r \in Roll!Slots, Roll!ReadRibbons(r)
  PROVE  Roll!AttendanceInv'
<1> DEFINE q == req[r]
           led == IF q.e \in Field THEN {m \in event[q.e].led : <<q.e, m>> \notin grants} ELSE {}
           new == [q EXCEPT !.pc = "commit", !.led = led, !.ribbons = ribbon]
<1>1. /\ q.pc = "award" /\ UNCHANGED <<rsvp, event, credits, ftx, ribbon, grants, cited, begun, edits,
                                       crossed, revoked>>
      /\ clashed' = clashed \cup (led \cap Roll!Reading(r))
  BY DEF Roll!ReadRibbons, Roll!records, Roll!honours, Roll!bounds
<1>2. /\ Roll!RecordInv /\ Roll!TypeInv /\ Roll!HonourInv /\ r \in Roll!Pending /\ q \in Roll!Handled
      /\ Roll!RequestInv(q) /\ Roll!CountInv(q)
  BY <1>1, RequestFacts DEF Roll!AttendanceInv, Roll!RecordInv
<1>3. q.op = "finalize" /\ q.e \in Events
  BY <1>1, <1>2, OpsAtFacts, HandledFacts DEF Roll!RequestInv
<1>4. led \subseteq Members /\ \A m \in led : <<q.e, m>> \notin grants
  BY <1>2, <1>3 DEF Roll!TypeInv
<1>5. req' = [req EXCEPT ![r] = new]
  BY <1>2 DEF Roll!ReadRibbons, Roll!TypeInv
<1> HIDE DEF led
<1>6. /\ new \in Roll!Handled /\ new.pc = "commit" /\ new.op = q.op /\ new.e = q.e /\ new.i = q.i
      /\ new.m = q.m
      /\ new.seen = q.seen /\ new.stamp = q.stamp /\ new.due = q.due /\ new.there = q.there
      /\ new.marks = q.marks /\ new.ribbons = ribbon /\ new.led = led /\ new.counts = q.counts
  BY <1>2, <1>4 DEF Roll!Handled, Roll!TypeInv
<1> HIDE DEF new
<1>7. req'[r] = new
  BY <1>2, <1>5 DEF Roll!TypeInv
<1>8. crossed' \subseteq Members /\ clashed' \subseteq Members
  BY <1>1, <1>2, <1>4 DEF Roll!TypeInv
<1>9. Roll!CountInv(req[r])'
  <2>1. \A m \in Members : Roll!IsThere(req[r], m)' <=> Roll!IsThere(q, m)
    BY <1>1, <1>6, <1>7 DEF Roll!IsThere, Roll!RowsOf
  <2>2. \A m \in Members : Roll!FtxRows(m, req[r].marks)' = Roll!FtxRows(m, q.marks)
    BY <1>1, <1>6, <1>7 DEF Roll!FtxRows
  <2>3. QED
    BY <1>1, <1>2, <1>3, <1>6, <1>7, <2>1, <2>2 DEF Roll!CountInv
<1>10. \A m \in Members : Roll!Counts(r, m)' => Roll!Counts(r, m)
  BY <1>1, <1>3 DEF Roll!Counts, Roll!Counting
<1>11. /\ new.op \in Roll!OpsAt(new.pc) /\ new.op # "reopen" /\ new.pc # "close"
       /\ \A m \in Members : new.counts[m] <= MaxRows
  BY <1>2, <1>3, <1>6, OpsAtFacts DEF Roll!RequestInv
<1>12. Roll!TypeInv' /\ Roll!RecordInv'
  BY <1>1, <1>2, <1>5, <1>6, <1>8, <1>9, <1>10, <1>11, RecordMoves DEF Roll!RequestInv
<1>13. \A s \in Roll!Pending : Roll!RequestInv(req[s])
  BY <1>2 DEF Roll!RecordInv
<1>14. Roll!HonourInv'
  BY <1>1, <1>2, <1>3, <1>4, <1>5, <1>6, <1>12, <1>13, ReadHonours
<1>15. QED
  BY <1>12, <1>14 DEF Roll!AttendanceInv

LEMMA ReverseMoves ==
  ASSUME Roll!Sound, Roll!AttendanceInv, NEW r \in Roll!Slots, Roll!ReverseGrants(r)
  PROVE  Roll!AttendanceInv'
<1> DEFINE q == req[r]
           counts == [m \in Members |-> Roll!Cardinality({e \in Events \ {q.e} : <<e, m>> \in grants})]
           new == [q EXCEPT !.pc = "commit", !.ribbons = ribbon, !.counts = counts]
<1>1. /\ q.pc = "reverse" /\ UNCHANGED <<rsvp, event, credits, ftx, ribbon, grants, cited, begun, edits,
                                         crossed, revoked>>
      /\ clashed' = clashed \cup (q.led \cap Roll!Reading(r))
  BY DEF Roll!ReverseGrants, Roll!records, Roll!honours, Roll!bounds
<1>2. /\ Roll!RecordInv /\ Roll!TypeInv /\ Roll!HonourInv /\ r \in Roll!Pending /\ q \in Roll!Handled
      /\ Roll!RequestInv(q)
  BY <1>1, RequestFacts DEF Roll!AttendanceInv, Roll!RecordInv
<1>3. q.op = "reopen" /\ q.led \subseteq Members
  BY <1>1, <1>2, OpsAtFacts, HandledFacts DEF Roll!RequestInv
<1>4. counts \in [Members -> Nat]
  BY RecordSizes, RecordCounts
<1>5. req' = [req EXCEPT ![r] = new]
  BY <1>2 DEF Roll!ReverseGrants, Roll!TypeInv
<1>6. \A m \in Members : counts[m] = Roll!Cardinality(Roll!OtherGrants(q, m))
  BY DEF Roll!OtherGrants
<1> HIDE DEF counts
<1>7. /\ new \in Roll!Handled /\ new.pc = "commit" /\ new.op = q.op /\ new.e = q.e /\ new.i = q.i
      /\ new.m = q.m
      /\ new.seen = q.seen /\ new.stamp = q.stamp /\ new.due = q.due /\ new.there = q.there
      /\ new.marks = q.marks /\ new.ribbons = ribbon /\ new.led = q.led /\ new.counts = counts
  BY <1>2, <1>4 DEF Roll!Handled, Roll!TypeInv
<1> HIDE DEF new
<1>8. req'[r] = new
  BY <1>2, <1>5 DEF Roll!TypeInv
<1>9. crossed' \subseteq Members /\ clashed' \subseteq Members
  BY <1>1, <1>2, <1>3 DEF Roll!TypeInv
<1>10. Roll!CountInv(req[r])'
  BY <1>3, <1>7, <1>8 DEF Roll!CountInv
<1>11. \A m \in Members : ~Roll!Counts(r, m)'
  BY <1>3, <1>7, <1>8 DEF Roll!Counts, Roll!Counting
<1>12. new.op \in Roll!OpsAt(new.pc) /\ new.op = "reopen"
  BY <1>3, <1>7, OpsAtFacts
<1>13. Roll!TypeInv' /\ Roll!RecordInv'
  BY <1>1, <1>2, <1>5, <1>7, <1>9, <1>10, <1>11, <1>12, RecordMoves DEF Roll!RequestInv
<1>14. \A s \in Roll!Pending : Roll!RequestInv(req[s])
  BY <1>2 DEF Roll!RecordInv
<1>15. \A m \in Members : new.counts[m] = Roll!Cardinality(Roll!OtherGrants(new, m))
  BY <1>6, <1>7 DEF Roll!OtherGrants
<1>16. Roll!HonourInv'
  BY <1>1, <1>2, <1>3, <1>5, <1>7, <1>13, <1>14, <1>15, ReadHonours
<1>17. QED
  BY <1>13, <1>16 DEF Roll!AttendanceInv

LEMMA Rollbacks ==
  ASSUME Roll!Sound, Roll!AttendanceInv, NEW r \in Roll!Slots, Roll!Rollback(r)
  PROVE  Roll!AttendanceInv'
<1>1. /\ req[r].pc = "commit" /\ req' = [req EXCEPT ![r] = Roll!NoRequest]
      /\ UNCHANGED <<rsvp, event, credits, ftx, ribbon, grants, cited, begun, edits, crossed, clashed, revoked>>
  BY DEF Roll!Rollback, Roll!End, Roll!records, Roll!honours, Roll!bounds, Roll!history
<1>2. Roll!RecordInv /\ Roll!TypeInv /\ Roll!BoundInv /\ Roll!HonourInv /\ r \in Roll!Pending
  BY <1>1, RequestFacts DEF Roll!AttendanceInv, Roll!RecordInv
<1>3. req'[r] = Roll!NoRequest /\ \A s \in Roll!Slots \ {r} : req'[s] = req[s]
  BY <1>1, <1>2 DEF Roll!TypeInv
<1>4. Roll!TypeInv'
  BY <1>1, <1>2 DEF Roll!TypeInv
<1>5. Roll!BoundInv'
  <2>1. Roll!Adding' \subseteq Roll!Adding
    BY <1>3 DEF Roll!Adding, Roll!NoRequest
  <2>2. Cardinality(Roll!Adding') <= Cardinality(Roll!Free')
    BY <1>1, <1>2, <2>1, RoomKept
  <2>3. \A m \in Members : ribbon'[m].devices \in Nat /\ ribbon'[m].devices <= ribbon[m].devices
    BY <1>1, <1>2, BoundFacts
  <2>4. QED
    BY <1>1, <1>2, <2>2, <2>3, BoundEnds
<1>6. \A m \in Members : ~Roll!Counts(r, m)'
  BY <1>3 DEF Roll!Counts, Roll!Counting, Roll!NoRequest
<1>7. \A f \in Events : /\ event[f].stamp <= event'[f].stamp /\ event'[f].stamp <= edits'
                        /\ event'[f].finalized => event[f].finalized
  BY <1>1, <1>2 DEF Roll!RecordInv, Roll!TypeInv, Roll!Sound
<1>8. Roll!RecordInv'
  BY <1>1, <1>2, <1>3, <1>4, <1>5, <1>6, <1>7, RecordsStay
<1>9. Roll!HonourInv'
  BY <1>1, <1>2, <1>3, <1>4, HonoursStay
<1>10. QED
  BY <1>8, <1>9 DEF Roll!AttendanceInv

LEMMA Reopenings ==
  ASSUME Roll!Sound, Roll!AttendanceInv, NEW r \in Roll!Slots, Roll!CommitReopen(r)
  PROVE  Roll!AttendanceInv'
<1> DEFINE q == req[r]
           new(m) == Roll!Undecorated(q.ribbons[m], q.counts[m])
           back == {m \in q.led : q.ribbons[m].held}
<1>1. /\ q.pc = "commit" /\ q.op = "reopen" /\ req' = [req EXCEPT ![r] = Roll!NoRequest]
      /\ event' = [event EXCEPT ![q.e].finalized = FALSE]
      /\ grants' = grants \ ({q.e} \X q.led)
      /\ UNCHANGED <<rsvp, credits, ftx, begun, edits, crossed, clashed, revoked>>
  BY DEF Roll!CommitReopen, Roll!End, Roll!bounds, Roll!history
<1>2. /\ Roll!RecordInv /\ Roll!TypeInv /\ Roll!BoundInv /\ Roll!HonourInv /\ r \in Roll!Pending
      /\ q \in Roll!Handled
  BY <1>1, RequestFacts DEF Roll!AttendanceInv, Roll!RecordInv
<1>3. req'[r] = Roll!NoRequest /\ \A s \in Roll!Slots \ {r} : req'[s] = req[s]
  BY <1>1, <1>2 DEF Roll!TypeInv
<1>4. /\ q.e \in Events /\ q.led \subseteq Members
      /\ \A m \in Members : q.ribbons[m] \in Roll!RibbonType /\ ribbon[m] \in Roll!RibbonType
  BY <1>2, HandledFacts DEF Roll!TypeInv
<1>5. \A m \in Members : /\ new(m) \in Roll!RibbonType /\ new(m).devices \in Nat
                         /\ new(m).devices <= q.ribbons[m].devices
  <2> TAKE m \in Members
  <2>1. new(m) \in [held : BOOLEAN, manual : BOOLEAN, devices : 0..q.ribbons[m].devices]
    BY <1>4, UndecoratedType
  <2>2. q.ribbons[m].devices \in 0..AttendanceRequests /\ AttendanceRequests \in Nat
    BY <1>4 DEF Roll!RibbonType, Roll!Sound
  <2> HIDE DEF new
  <2>3. new(m).devices \in 0..q.ribbons[m].devices
    BY <2>1
  <2>4. new(m).devices \in 0..AttendanceRequests
    BY <2>2, <2>3
  <2>5. QED
    BY <2>1, <2>2, <2>3, <2>4 DEF Roll!RibbonType
<1>6. /\ ribbon' = [m \in Members |-> IF m \in back THEN [c \in back |-> new(c)][m] ELSE ribbon[m]]
      /\ cited' = [m \in Members |->
           IF m \notin back THEN cited[m]
           ELSE IF ~[c \in back |-> new(c)][m].held THEN {}
           ELSE {c \in cited[m] : c[1] # q.ribbons[m].devices}]
  BY DEF Roll!CommitReopen
<1> HIDE DEF new
<1>7. /\ ribbon' \in [Members -> Roll!RibbonType]
      /\ \A m \in Members : ribbon'[m] = new(m) \/ ribbon'[m] = ribbon[m]
  BY <1>4, <1>5, <1>6
<1>8. cited' \in [Members -> SUBSET ((0..AttendanceRequests) \X Events)]
  <2>1. \A m \in Members : cited[m] \subseteq (0..AttendanceRequests) \X Events
    BY <1>2 DEF Roll!TypeInv
  <2>2. \A m \in Members : cited'[m] \subseteq cited[m]
    BY <1>6
  <2>3. DOMAIN cited' = Members
    BY <1>6
  <2>4. cited' = [m \in Members |-> cited'[m]]
    BY <1>6
  <2>5. QED
    BY <2>1, <2>2, <2>4
<1>9. /\ event' \in [Events -> [finalized : BOOLEAN, stamp : 0..MaxEdits, led : SUBSET Members]]
      /\ \A f \in Events : event'[f].stamp = event[f].stamp /\ (event'[f].finalized => event[f].finalized)
  BY <1>1, <1>2, <1>4 DEF Roll!TypeInv
<1>10. Roll!TypeInv'
  BY <1>1, <1>2, <1>7, <1>8, <1>9 DEF Roll!TypeInv
<1>11. Roll!BoundInv'
  <2>1. Roll!Adding' \subseteq Roll!Adding
    BY <1>3 DEF Roll!Adding, Roll!NoRequest
  <2>2. Cardinality(Roll!Adding') <= Cardinality(Roll!Free')
    BY <1>1, <1>2, <2>1, RoomKept
  <2>3. \A m \in Members : /\ ribbon'[m].devices \in Nat
                           /\ \/ ribbon'[m].devices <= ribbon[m].devices
                              \/ ribbon'[m].devices <= q.ribbons[m].devices + 1
    BY <1>2, <1>5, <1>7, BoundFacts
  <2>4. QED
    BY <1>1, <1>2, <2>2, <2>3, BoundEnds
<1>12. \A m \in Members : ~Roll!Counts(r, m)'
  BY <1>3 DEF Roll!Counts, Roll!Counting, Roll!NoRequest
<1>13. \A f \in Events : /\ event[f].stamp <= event'[f].stamp /\ event'[f].stamp <= edits'
                         /\ event'[f].finalized => event[f].finalized
  BY <1>1, <1>2, <1>9 DEF Roll!RecordInv, Roll!TypeInv, Roll!Sound
<1>14. Roll!RecordInv'
  BY <1>1, <1>2, <1>3, <1>10, <1>11, <1>12, <1>13, RecordsStay
<1>15. Roll!HonourInv'
  BY <1>2, <1>10, ReopenedHonours
<1>16. QED
  BY <1>14, <1>15 DEF Roll!AttendanceInv

LEMMA EventChanges ==
  ASSUME Roll!Sound, Roll!AttendanceInv,
         \/ \E e \in Events : Roll!Retitle(e) \/ \E led \in SUBSET Members : Roll!SetCommander(e, led)
         \/ UNCHANGED Roll!vars
  PROVE  Roll!AttendanceInv'
<1>1. UNCHANGED <<rsvp, credits, ftx, ribbon, grants, cited, req, begun, crossed, clashed, revoked>>
  BY DEF Roll!Retitle, Roll!SetCommander, Roll!honours, Roll!history, Roll!vars, Roll!records, Roll!bounds
<1>2. Roll!RecordInv /\ Roll!TypeInv /\ Roll!BoundInv /\ Roll!HonourInv
  BY DEF Roll!AttendanceInv, Roll!RecordInv
<1>3. /\ event' \in [Events -> [finalized : BOOLEAN, stamp : 0..MaxEdits, led : SUBSET Members]]
      /\ edits' \in 0..MaxEdits
      /\ \A f \in Events : /\ event[f].stamp <= event'[f].stamp /\ event'[f].stamp <= edits'
                           /\ event'[f].finalized => event[f].finalized
  <2>1. /\ edits \in 0..MaxEdits /\ MaxEdits \in Nat
        /\ \A f \in Events : event[f].stamp \in Nat /\ event[f].stamp <= edits
    BY <1>2 DEF Roll!RecordInv, Roll!TypeInv, Roll!Sound
  <2>2. ASSUME NEW e \in Events, Roll!Retitle(e)
        PROVE  /\ event' \in [Events -> [finalized : BOOLEAN, stamp : 0..MaxEdits, led : SUBSET Members]]
               /\ edits' \in 0..MaxEdits
               /\ \A f \in Events : /\ event[f].stamp <= event'[f].stamp /\ event'[f].stamp <= edits'
                                    /\ event'[f].finalized => event[f].finalized
    <3>1. /\ edits < MaxEdits /\ edits' = edits + 1
          /\ event' = [event EXCEPT ![e] = [event[e] EXCEPT !.stamp = @ + 1]]
      BY <2>2 DEF Roll!Retitle
    <3>2. event[e].stamp + 1 \in 0..MaxEdits
      BY <2>1, <3>1
    <3>3. /\ event[e] \in [finalized : BOOLEAN, stamp : 0..MaxEdits, led : SUBSET Members]
          /\ [event[e] EXCEPT !.stamp = @ + 1]
               \in [finalized : BOOLEAN, stamp : 0..MaxEdits, led : SUBSET Members]
      BY <1>2, <3>2 DEF Roll!TypeInv
    <3>4. event'[e] = [event[e] EXCEPT !.stamp = @ + 1] /\ \A f \in Events \ {e} : event'[f] = event[f]
      BY <1>2, <3>1 DEF Roll!TypeInv
    <3>5. event'[e].stamp = event[e].stamp + 1 /\ event'[e].finalized = event[e].finalized
      BY <3>3, <3>4
    <3>6. event' \in [Events -> [finalized : BOOLEAN, stamp : 0..MaxEdits, led : SUBSET Members]]
      BY <1>2, <3>1, <3>3 DEF Roll!TypeInv
    <3>7. ASSUME NEW f \in Events
          PROVE  /\ event[f].stamp <= event'[f].stamp /\ event'[f].stamp <= edits'
                 /\ event'[f].finalized => event[f].finalized
      <4>1. CASE f = e
        BY <2>1, <3>1, <3>5, <4>1
      <4>2. CASE f # e
        BY <2>1, <3>1, <3>4, <4>2
      <4>3. QED
        BY <4>1, <4>2
    <3>8. edits' \in 0..MaxEdits
      BY <2>1, <3>1
    <3>9. QED
      BY <3>6, <3>7, <3>8
  <2>3. ASSUME NEW e \in Events, NEW led \in SUBSET Members, Roll!SetCommander(e, led)
        PROVE  /\ event' \in [Events -> [finalized : BOOLEAN, stamp : 0..MaxEdits, led : SUBSET Members]]
               /\ edits' \in 0..MaxEdits
               /\ \A f \in Events : /\ event[f].stamp <= event'[f].stamp /\ event'[f].stamp <= edits'
                                    /\ event'[f].finalized => event[f].finalized
    <3>1. /\ edits < MaxEdits /\ edits' = edits + 1
          /\ event' = [event EXCEPT ![e].led = led]
      BY <2>3 DEF Roll!SetCommander
    <3>2. event' \in [Events -> [finalized : BOOLEAN, stamp : 0..MaxEdits, led : SUBSET Members]]
      BY <1>2, <3>1 DEF Roll!TypeInv
    <3>3. \A f \in Events : event'[f].stamp = event[f].stamp /\ event'[f].finalized = event[f].finalized
      BY <1>2, <3>1 DEF Roll!TypeInv
    <3>4. QED
      BY <2>1, <3>1, <3>2, <3>3
  <2>4. CASE UNCHANGED Roll!vars
    BY <1>2, <2>1, <2>4 DEF Roll!vars, Roll!records, Roll!bounds, Roll!TypeInv
  <2>5. QED
    BY <2>2, <2>3, <2>4
<1>4. Roll!TypeInv'
  BY <1>1, <1>2, <1>3 DEF Roll!TypeInv
<1>5. Roll!BoundInv'
  BY <1>1, <1>2, BoundStays
<1>6. 0 \notin Roll!Slots
  BY DEF Roll!Slots
<1>7. Roll!RecordInv'
  BY <1>1, <1>2, <1>3, <1>4, <1>5, <1>6, RecordsStay
<1>8. Roll!HonourInv'
  BY <1>1, <1>2, <1>4, <1>6, HonoursStay
<1>9. QED
  BY <1>7, <1>8 DEF Roll!AttendanceInv

-----------------------------------------------------------------------------
(* The rows change. *)

LEMMA LeastOf == ASSUME NEW S, S \subseteq Nat, S # {} PROVE \E x \in S : \A y \in S : x <= y
<1> DEFINE R == OpToRel(<, Nat)
<1>1. IsWellFoundedOn(R, Nat)
  BY NatLessThanWellFounded
<1>2. \A d, e \in Nat : ~(<<d, e>> \in R) => e <= d
  BY DEF OpToRel
<1> HIDE DEF R
<1>3. PICK e \in S : \A d \in S : ~(<<d, e>> \in R)
  BY <1>1, WFMin
<1>4. QED
  BY <1>2, <1>3

\* What saving sets: somebody is checked in, or attends.
LEMMA SavedRow ==
  ASSUME NEW q, NEW row \in Roll!RowType
  PROVE  /\ Roll!Saved(q, row) \in Roll!RowType
         /\ Roll!Saved(q, row).attended = (row.attended \/ q.op \notin {"checkin", "clear"})
         /\ Roll!Saved(q, row).checked = (row.checked \/ q.op = "checkin")
BY DEF Roll!Saved, Roll!RowType

LEMMA RowSaves ==
  ASSUME Roll!Sound, Roll!AttendanceInv, NEW r \in Roll!Slots, Roll!SaveRow(r)
  PROVE  Roll!AttendanceInv'
<1> DEFINE qq == req[r]
           ii == IF qq.i = 0 THEN CHOOSE j \in Roll!Free : \A k \in Roll!Free : j <= k ELSE qq.i
           nn == IF qq.i = 0 THEN Roll!Fresh(qq.e, qq.m) ELSE rsvp[ii]
           ss == IF qq.i = 0 THEN nn ELSE qq.seen
<1>0. /\ qq.pc = "save"
      /\ rsvp' = [rsvp EXCEPT ![ii] = Roll!Merge(nn, ss, Roll!Saved(qq, ss))]
      /\ revoked' = IF qq.op = "clear" THEN revoked ELSE revoked \ Roll!RowsOf(qq.e, qq.m)
      /\ crossed' = IF Roll!Beside(r, qq.m) \/ (qq.op # "checkin" /\ event[qq.e].finalized)
                      THEN crossed \cup {qq.m} ELSE crossed
  BY DEF Roll!SaveRow
<1>1. PICK q, i, now, seen :
        /\ q = req[r]
        /\ i = IF q.i = 0 THEN CHOOSE j \in Roll!Free : \A k \in Roll!Free : j <= k ELSE q.i
        /\ now = IF q.i = 0 THEN Roll!Fresh(q.e, q.m) ELSE rsvp[i]
        /\ seen = IF q.i = 0 THEN now ELSE q.seen
        /\ q.pc = "save"
        /\ rsvp' = [rsvp EXCEPT ![i] = Roll!Merge(now, seen, Roll!Saved(q, seen))]
        /\ revoked' = IF q.op = "clear" THEN revoked ELSE revoked \ Roll!RowsOf(q.e, q.m)
        /\ crossed' = IF Roll!Beside(r, q.m) \/ (q.op # "checkin" /\ event[q.e].finalized)
                        THEN crossed \cup {q.m} ELSE crossed
  <2> DEFINE P(q, i, now, seen) ==
        /\ q = req[r]
        /\ i = IF q.i = 0 THEN CHOOSE j \in Roll!Free : \A k \in Roll!Free : j <= k ELSE q.i
        /\ now = IF q.i = 0 THEN Roll!Fresh(q.e, q.m) ELSE rsvp[i]
        /\ seen = IF q.i = 0 THEN now ELSE q.seen
        /\ q.pc = "save"
        /\ rsvp' = [rsvp EXCEPT ![i] = Roll!Merge(now, seen, Roll!Saved(q, seen))]
        /\ revoked' = IF q.op = "clear" THEN revoked ELSE revoked \ Roll!RowsOf(q.e, q.m)
        /\ crossed' = IF Roll!Beside(r, q.m) \/ (q.op # "checkin" /\ event[q.e].finalized)
                        THEN crossed \cup {q.m} ELSE crossed
  <2>1. P(qq, ii, nn, ss)
    BY <1>0
  <2> HIDE DEF P, ii, nn, ss
  <2>2. \E q, i, now, seen : P(q, i, now, seen)
    BY <2>1
  <2>3. QED
    BY <2>2 DEF P
<1>2. /\ req' = [req EXCEPT ![r] = Roll!NoRequest]
      /\ UNCHANGED <<event, credits, ftx, ribbon, grants, cited, begun, edits, clashed>>
  BY DEF Roll!SaveRow, Roll!End, Roll!honours, Roll!bounds
<1>3. /\ Roll!RecordInv /\ Roll!TypeInv /\ Roll!BoundInv /\ Roll!HonourInv /\ r \in Roll!Pending
      /\ q \in Roll!Handled /\ Roll!RequestInv(q)
  BY <1>1, RequestFacts DEF Roll!AttendanceInv, Roll!RecordInv
<1>4. req'[r] = Roll!NoRequest /\ \A s \in Roll!Slots \ {r} : req'[s] = req[s]
  BY <1>2, <1>3 DEF Roll!TypeInv
<1>5. q.e \in Events /\ q.m \in Members /\ q.i \in 0..MaxRows
  BY <1>3, HandledFacts
<1>6. /\ q.i = 0 => i \in Roll!Free /\ now = Roll!Fresh(q.e, q.m) /\ seen = now
      /\ q.i # 0 => i = q.i /\ rsvp[i] # Roll!NoRow /\ now = rsvp[i] /\ i \in Roll!RowsOf(q.e, q.m)
      /\ i \in Roll!Rows
  <2>1. CASE q.i = 0
    <3>1. r \in Roll!Adding
      BY <1>1, <2>1 DEF Roll!Adding
    <3>2. IsFiniteSet(Roll!Adding) /\ Cardinality(Roll!Adding) \in Nat /\ Cardinality(Roll!Adding) # 0
      BY <3>1, RecordSizes, FS_EmptySet DEF Roll!Adding
    <3>3. Cardinality(Roll!Adding) <= Cardinality(Roll!Free) /\ Cardinality(Roll!Free) \in Nat
      BY <1>3, RecordSizes, RecordCounts DEF Roll!BoundInv, Roll!Free
    <3>4. Roll!Free # {}
      BY <3>2, <3>3, FS_EmptySet
    <3>5. Roll!Free \subseteq Nat /\ Roll!Free \subseteq Roll!Rows
      BY DEF Roll!Free, Roll!Rows
    <3>6. \E j \in Roll!Free : \A k \in Roll!Free : j <= k
      BY <3>4, <3>5, LeastOf
    <3>7. i \in Roll!Free
      BY <1>1, <2>1, <3>6
    <3>8. QED
      BY <1>1, <2>1, <3>5, <3>7
  <2>2. CASE q.i # 0
    <3>1. q.i \in Roll!Rows
      BY <1>5, <2>2 DEF Roll!Rows, Roll!Sound
    <3>2. QED
      BY <1>1, <1>3, <2>2, <3>1 DEF Roll!RequestInv, Roll!RowsOf
  <2>3. QED
    BY <2>1, <2>2
<1>7. now \in Roll!RowType /\ seen \in Roll!RowType /\ now.event = q.e /\ now.member = q.m
  <2>1. CASE q.i = 0
    <3>1. /\ Roll!Fresh(q.e, q.m) \in Roll!RowType /\ Roll!Fresh(q.e, q.m).event = q.e
          /\ Roll!Fresh(q.e, q.m).member = q.m
      BY <1>5 DEF Roll!Fresh, Roll!RowType
    <3>2. QED
      BY <1>6, <2>1, <3>1
  <2>2. CASE q.i # 0
    <3>1. rsvp[i] \in Roll!RowType /\ q.seen \in Roll!RowType
      BY <1>3, <1>6, <2>2 DEF Roll!TypeInv, Roll!RequestInv
    <3>2. QED
      BY <1>1, <1>6, <2>2, <3>1 DEF Roll!RowsOf
  <2>3. QED
    BY <2>1, <2>2
<1>8. PICK row : row = Roll!Merge(now, seen, Roll!Saved(q, seen))
  OBVIOUS
<1>9. /\ row \in Roll!RowType /\ row.event = q.e /\ row.member = q.m /\ row # Roll!NoRow
      /\ now.attended => row.attended
      /\ row.attended # now.attended => q.op \notin {"checkin", "clear"} /\ row.attended
      /\ q.op # "checkin" => row.checked = now.checked
  <2>1. /\ Roll!Saved(q, seen) \in Roll!RowType
        /\ Roll!Saved(q, seen).attended = (seen.attended \/ q.op \notin {"checkin", "clear"})
        /\ Roll!Saved(q, seen).checked = (seen.checked \/ q.op = "checkin")
    BY <1>7, SavedRow
  <2>2. /\ row \in Roll!RowType /\ row.event = now.event /\ row.member = now.member
        /\ row.attended = IF Roll!Saved(q, seen).attended = seen.attended THEN now.attended
                          ELSE Roll!Saved(q, seen).attended
        /\ row.checked = IF Roll!Saved(q, seen).checked = seen.checked THEN now.checked
                         ELSE Roll!Saved(q, seen).checked
    BY <1>7, <1>8, <2>1, Merged
  <2>3. /\ now.attended \in BOOLEAN /\ seen.attended \in BOOLEAN /\ seen.checked \in BOOLEAN
        /\ now.checked \in BOOLEAN
    BY <1>7 DEF Roll!RowType
  <2>4. /\ row.event = q.e /\ row.member = q.m /\ row # Roll!NoRow
        /\ row.attended \in BOOLEAN /\ row.checked \in BOOLEAN
    BY <1>7, <2>2, RowsAreNot DEF Roll!RowType
  <2>5. CASE q.op \in {"checkin", "clear"}
    <3>1. row.attended = now.attended
      BY <2>1, <2>2, <2>3, <2>5
    <3>2. q.op # "checkin" => row.checked = now.checked
      BY <2>1, <2>2, <2>3
    <3>3. QED
      BY <2>2, <2>4, <2>5, <3>1, <3>2
  <2>6. CASE q.op \notin {"checkin", "clear"}
    <3>1. Roll!Saved(q, seen).attended
      BY <2>1, <2>6
    <3>2. row.attended \/ row.attended = now.attended
      BY <2>2, <2>3, <3>1
    <3>3. row.checked = now.checked
      BY <2>1, <2>2, <2>3, <2>6
    <3>4. QED
      BY <2>2, <2>4, <2>6, <3>2, <3>3
  <2>7. QED
    BY <2>5, <2>6
<1>10. rsvp'[i] = row /\ (\A j \in Roll!Rows \ {i} : rsvp'[j] = rsvp[j])
       /\ rsvp' \in [Roll!Rows -> {Roll!NoRow} \cup Roll!RowType]
  BY <1>1, <1>3, <1>6, <1>8, <1>9 DEF Roll!TypeInv
<1>11. crossed \subseteq crossed' /\ crossed' \subseteq Members /\ revoked' \subseteq revoked
  BY <1>1, <1>3, <1>5 DEF Roll!TypeInv
<1>12. Roll!TypeInv'
  BY <1>2, <1>3, <1>10, <1>11 DEF Roll!TypeInv
<1>13. RowsStay
  <2>1. \A j \in Roll!Rows \ {i} : rsvp[j] # Roll!NoRow => rsvp'[j] = rsvp[j]
    BY <1>10
  <2>2. rsvp[i] # Roll!NoRow => now = rsvp[i]
    BY <1>6 DEF Roll!Free
  <2>3. QED
    BY <1>7, <1>9, <1>10, <2>1, <2>2 DEF RowsStay
<1>14. \A m \in Members \ {q.m} : Steady(m)
  <2>1. \A m \in Members \ {q.m} : ~Attends(i, m)' /\ ~Attends(i, m)
    BY <1>6, <1>7, <1>9, <1>10 DEF Attends, Roll!Free
  <2>2. \A m \in Members, j \in Roll!Rows \ {i} : Attends(j, m)' <=> Attends(j, m)
    BY <1>10 DEF Attends
  <2>3. QED
    BY <2>1, <2>2 DEF Steady
<1>15. row.attended = now.attended => Steady(q.m)
  <2>1. ASSUME row.attended = now.attended PROVE Attends(i, q.m)' <=> Attends(i, q.m)
    <3>1. CASE q.i = 0
      <4>1. ~now.attended /\ rsvp[i] = Roll!NoRow
        BY <1>6, <3>1 DEF Roll!Fresh, Roll!Free
      <4>2. QED
        BY <1>9, <1>10, <2>1, <4>1 DEF Attends
    <3>2. CASE q.i # 0
      BY <1>6, <1>7, <1>9, <1>10, <2>1, <3>2 DEF Attends
    <3>3. QED
      BY <3>1, <3>2
  <2>2. \A j \in Roll!Rows \ {i} : Attends(j, q.m)' <=> Attends(j, q.m)
    BY <1>10 DEF Attends
  <2>3. QED
    BY <2>1, <2>2 DEF Steady
<1>16. Roll!BoundInv'
  <2>1. Cardinality(Roll!Adding') <= Cardinality(Roll!Free')
    <3>1. /\ IsFiniteSet(Roll!Adding) /\ Cardinality(Roll!Adding) \in Nat /\ IsFiniteSet(Roll!Free)
          /\ Cardinality(Roll!Free) \in Nat
      BY RecordSizes DEF Roll!Adding, Roll!Free
    <3>2. Cardinality(Roll!Adding) <= Cardinality(Roll!Free)
      BY <1>3, RecordCounts DEF Roll!BoundInv
    <3>3. CASE q.i = 0
      <4>1. Roll!Adding' = Roll!Adding \ {r} /\ r \in Roll!Adding
        BY <1>1, <1>4, <3>3 DEF Roll!Adding, Roll!NoRequest
      <4>2. Roll!Free' = Roll!Free \ {i} /\ i \in Roll!Free
        BY <1>6, <1>9, <1>10, <3>3 DEF Roll!Free
      <4>3. /\ Cardinality(Roll!Adding') = Cardinality(Roll!Adding) - 1
            /\ Cardinality(Roll!Free') = Cardinality(Roll!Free) - 1
        BY <3>1, <4>1, <4>2, FS_RemoveElement
      <4>4. QED
        BY <3>1, <3>2, <4>3
    <3>4. CASE q.i # 0
      <4>1. Roll!Adding' = Roll!Adding
        BY <1>1, <1>4, <3>4 DEF Roll!Adding, Roll!NoRequest
      <4>2. Roll!Free' = Roll!Free
        BY <1>6, <1>9, <1>10, <3>4 DEF Roll!Free
      <4>3. QED
        BY <3>2, <4>1, <4>2
    <3>5. QED
      BY <3>3, <3>4
  <2>2. \A m \in Members : ribbon'[m].devices \in Nat /\ ribbon'[m].devices <= ribbon[m].devices
    BY <1>2, <1>3, BoundFacts
  <2>3. QED
    BY <1>2, <1>3, <2>1, <2>2, BoundEnds
<1>17. Roll!CrossInv' /\ \A s \in Roll!Pending' : Roll!RequestInv(req[s])' /\ Roll!CountInv(req[s])'
  <2>1. \A m \in Members : ~Roll!Counts(r, m)'
    BY <1>4 DEF Roll!Counts, Roll!Counting, Roll!NoRequest
  <2>2. \A m \in Members \ crossed' : Steady(m) \/ \A s \in Roll!Slots \ {r} : ~Roll!Counts(s, m)
    BY <1>1, <1>14 DEF Roll!Beside, Roll!Counts
  <2>3. \A e \in Events : event[e].stamp <= event'[e].stamp
    BY <1>2, <1>3 DEF Roll!TypeInv
  <2>4. QED
    BY <1>3, <1>4, <1>11, <1>12, <1>13, <2>1, <2>2, <2>3, OthersKept
<1>18. Roll!RevokedInv'
  <2> SUFFICES ASSUME NEW j \in revoked'
               PROVE  /\ rsvp'[j] # Roll!NoRow
                      /\ rsvp'[j].member \notin crossed' => ~rsvp'[j].attended /\ ~rsvp'[j].checked
    BY DEF Roll!RevokedInv
  <2>1. /\ j \in revoked /\ j \in Roll!Rows /\ rsvp[j] # Roll!NoRow
        /\ rsvp[j].member \notin crossed => ~rsvp[j].attended /\ ~rsvp[j].checked
    BY <1>3, <1>11 DEF Roll!RecordInv, Roll!RevokedInv, Roll!TypeInv
  <2>2. CASE j # i
    BY <1>10, <1>11, <2>1, <2>2
  <2>3. CASE j = i
    <3>1. q.i # 0 /\ now = rsvp[i]
      BY <1>6, <2>1, <2>3 DEF Roll!Free
    <3>2. q.op = "clear"
      BY <1>1, <1>6, <2>3, <3>1
    <3>3. QED
      BY <1>7, <1>9, <1>10, <1>11, <2>1, <2>3, <3>1, <3>2
  <2>4. QED
    BY <2>2, <2>3
<1>19. Roll!CreditEarned'
  <2> SUFFICES ASSUME NEW m \in Members \ crossed', NEW e \in Events,
                      event'[e].stamp = 0, <<e, 0>> \in credits'[m]
               PROVE  \E j \in Roll!RowsOf(e, m)' : rsvp'[j].attended
    BY DEF Roll!CreditEarned
  <2>1. PICK j \in Roll!RowsOf(e, m) : rsvp[j].attended
    BY <1>2, <1>3, <1>11 DEF Roll!RecordInv, Roll!CreditEarned
  <2>2. rsvp'[j].attended
    <3>1. CASE j = i
      BY <1>6, <1>9, <1>10, <2>1, <3>1 DEF Roll!RowsOf, Roll!Free
    <3>2. CASE j # i
      BY <1>10, <2>1, <3>2 DEF Roll!RowsOf
    <3>3. QED
      BY <3>1, <3>2
  <2>3. j \in Roll!RowsOf(e, m)'
    BY <1>13 DEF Roll!RowsOf, RowsStay
  <2>4. QED
    BY <2>2, <2>3
<1>20. Roll!CountsAttended'
  <2> SUFFICES ASSUME NEW m \in Members \ crossed',
                      \A j \in Roll!FtxRows(m, {})' : event'[rsvp'[j].event].finalized
               PROVE  ftx'[m] = Roll!Cardinality(Roll!FtxRows(m, {})')
    BY DEF Roll!CountsAttended
  <2>1. Roll!FtxRows(m, {})' = Roll!FtxRows(m, {})
    <3>1. CASE Steady(m)
      BY <1>3, <1>12, <1>13, <3>1, CountedStays
    <3>2. CASE ~Steady(m)
      <4>1. m = q.m /\ q.op \notin {"checkin", "clear"} /\ row.attended
        BY <1>9, <1>14, <1>15, <3>2
      <4>2. ~event[q.e].finalized /\ row.attended
        BY <1>1, <1>9, <4>1
      <4>3. q.e \notin Field
        <5>1. ASSUME q.e \in Field PROVE FALSE
          <6>1. i \in Roll!FtxRows(m, {})'
            BY <1>6, <1>9, <1>10, <4>1, <4>2, <5>1 DEF Roll!FtxRows
          <6>2. QED
            BY <1>2, <1>9, <1>10, <4>2, <6>1
        <5>2. QED
          BY <5>1
      <4>4. i \notin Roll!FtxRows(m, {})' /\ i \notin Roll!FtxRows(m, {})
        BY <1>6, <1>7, <1>9, <1>10, <4>3 DEF Roll!FtxRows, Roll!Free
      <4>5. \A j \in Roll!Rows \ {i} : j \in Roll!FtxRows(m, {})' <=> j \in Roll!FtxRows(m, {})
        BY <1>10 DEF Roll!FtxRows
      <4>6. ASSUME NEW j PROVE j \in Roll!FtxRows(m, {})' <=> j \in Roll!FtxRows(m, {})
        <5>1. CASE j \in Roll!Rows
          BY <4>4, <4>5, <5>1
        <5>2. CASE j \notin Roll!Rows
          BY <5>2 DEF Roll!FtxRows
        <5>3. QED
          BY <5>1, <5>2
      <4>7. QED
        BY <4>6
    <3>3. QED
      BY <3>1, <3>2
  <2>2. \A j \in Roll!FtxRows(m, {}) : event[rsvp[j].event].finalized
    <3>1. \A j \in Roll!FtxRows(m, {}) : rsvp'[j].event = rsvp[j].event
      BY <1>13 DEF Roll!FtxRows, RowsStay
    <3>2. QED
      BY <1>2, <2>1, <3>1
  <2>3. QED
    BY <1>2, <1>3, <1>11, <2>1, <2>2 DEF Roll!RecordInv, Roll!CountsAttended
<1>21. \A e \in Events : event'[e].stamp <= edits'
  BY <1>2, <1>3 DEF Roll!RecordInv
<1>22. Roll!HonourInv'
  BY <1>2, <1>3, <1>4, <1>12, HonoursStay
<1>23. Roll!RecordInv'
  BY <1>12, <1>16, <1>17, <1>18, <1>19, <1>20, <1>21 DEF Roll!RecordInv
<1>24. QED
  BY <1>22, <1>23 DEF Roll!AttendanceInv

LEMMA RevokeCloses ==
  ASSUME Roll!Sound, Roll!AttendanceInv, NEW r \in Roll!Slots, Roll!CloseRevoke(r)
  PROVE  Roll!AttendanceInv'
<1>1. PICK q : q = req[r]
  OBVIOUS
<1>2. PICK row : row = Roll!Merge(rsvp[q.i], q.seen, Roll!Revoked(q))
  OBVIOUS
<1>3. /\ q.pc = "close" /\ req' = [req EXCEPT ![r] = Roll!NoRequest]
      /\ rsvp' = [rsvp EXCEPT ![q.i] = row]
      /\ credits' = [credits EXCEPT ![q.m] = @ \ {<<q.e, q.stamp>>}]
      /\ ftx' = [ftx EXCEPT ![q.m] = q.counts[q.m]]
      /\ revoked' = IF rsvp[q.i] = q.seen THEN revoked \cup {q.i} ELSE revoked
      /\ UNCHANGED <<event, ribbon, grants, cited, begun, edits, crossed, clashed>>
  BY <1>1, <1>2 DEF Roll!CloseRevoke, Roll!End, Roll!honours, Roll!bounds
<1>4. /\ Roll!RecordInv /\ Roll!TypeInv /\ Roll!BoundInv /\ Roll!HonourInv /\ r \in Roll!Pending
      /\ q \in Roll!Handled
      /\ Roll!RequestInv(q) /\ Roll!CountInv(q)
  BY <1>1, <1>3, RequestFacts DEF Roll!AttendanceInv, Roll!RecordInv
<1>5. req'[r] = Roll!NoRequest /\ \A s \in Roll!Slots \ {r} : req'[s] = req[s]
  BY <1>3, <1>4 DEF Roll!TypeInv
<1>6. /\ q.e \in Events /\ q.m \in Members /\ q.i \in 0..MaxRows /\ q.counts \in [Members -> Nat]
      /\ q.stamp \in 0..MaxEdits
  BY <1>4, HandledFacts
<1>7. /\ q.op \in {"revoke", "noshow"} /\ q.i \in Roll!Rows /\ q.seen \in Roll!RowType
      /\ rsvp[q.i] # Roll!NoRow /\ rsvp[q.i].event = q.e /\ rsvp[q.i].member = q.m
      /\ q.counts[q.m] \in 0..MaxRows
  <2>1. q.op \in {"revoke", "noshow"}
    BY <1>3, <1>4, OpsAtFacts DEF Roll!RequestInv
  <2>2. q.i \in Roll!Rows
    BY <1>3, <1>4, <1>6 DEF Roll!RequestInv, Roll!Rows, Roll!Sound
  <2>3. q.counts[q.m] \in 0..MaxRows
    BY <1>4, <1>6, <2>1 DEF Roll!RequestInv, Roll!Sound
  <2>4. QED
    BY <1>3, <1>4, <2>1, <2>2, <2>3 DEF Roll!RequestInv
<1>8. rsvp[q.i] \in Roll!RowType
  BY <1>4, <1>7 DEF Roll!TypeInv
<1>9. Roll!Revoked(q) \in Roll!RowType /\ ~Roll!Revoked(q).attended /\ ~Roll!Revoked(q).checked
  BY <1>7 DEF Roll!Revoked, Roll!RowType
<1>10. /\ row \in Roll!RowType /\ row # Roll!NoRow /\ row.event = q.e /\ row.member = q.m
       /\ row.attended => rsvp[q.i].attended /\ ~q.seen.attended
       /\ row.checked => rsvp[q.i].checked /\ ~q.seen.checked
  <2>1. /\ row \in Roll!RowType /\ row.event = rsvp[q.i].event /\ row.member = rsvp[q.i].member
        /\ row.attended = IF Roll!Revoked(q).attended = q.seen.attended THEN rsvp[q.i].attended
                          ELSE Roll!Revoked(q).attended
        /\ row.checked = IF Roll!Revoked(q).checked = q.seen.checked THEN rsvp[q.i].checked
                         ELSE Roll!Revoked(q).checked
    BY <1>2, <1>7, <1>8, <1>9, Merged
  <2>2. /\ q.seen.attended \in BOOLEAN /\ q.seen.checked \in BOOLEAN
        /\ Roll!Revoked(q).attended = FALSE /\ Roll!Revoked(q).checked = FALSE
    BY <1>7, <1>9 DEF Roll!RowType
  <2>3. row.attended => rsvp[q.i].attended /\ ~q.seen.attended
    BY <2>1, <2>2
  <2>4. row.checked => rsvp[q.i].checked /\ ~q.seen.checked
    BY <2>1, <2>2
  <2>5. QED
    BY <1>7, <2>1, <2>3, <2>4, RowsAreNot
<1>11. /\ rsvp'[q.i] = row /\ (\A j \in Roll!Rows \ {q.i} : rsvp'[j] = rsvp[j])
       /\ rsvp' \in [Roll!Rows -> {Roll!NoRow} \cup Roll!RowType]
  BY <1>3, <1>4, <1>7, <1>10 DEF Roll!TypeInv
<1>12. /\ credits' \in [Members -> SUBSET (Events \X (0..MaxEdits))]
       /\ \A m \in Members : credits'[m] \subseteq credits[m]
       /\ <<q.e, q.stamp>> \notin credits'[q.m]
  BY <1>3, <1>4, <1>6 DEF Roll!TypeInv
<1>13. /\ ftx' \in [Members -> 0..MaxRows] /\ ftx'[q.m] = q.counts[q.m]
       /\ \A m \in Members \ {q.m} : ftx'[m] = ftx[m]
  BY <1>3, <1>4, <1>6, <1>7 DEF Roll!TypeInv
<1>14. Roll!TypeInv'
  BY <1>3, <1>4, <1>7, <1>11, <1>12, <1>13 DEF Roll!TypeInv
<1>15. RowsStay
  BY <1>7, <1>10, <1>11 DEF RowsStay
<1>16. \A m \in Members \ {q.m} : Steady(m)
  <2>1. \A m \in Members \ {q.m} : ~Attends(q.i, m)' /\ ~Attends(q.i, m)
    BY <1>7, <1>10, <1>11 DEF Attends
  <2>2. \A m \in Members, j \in Roll!Rows \ {q.i} : Attends(j, m)' <=> Attends(j, m)
    BY <1>11 DEF Attends
  <2>3. QED
    BY <2>1, <2>2 DEF Steady
<1>17. \A s \in Roll!Slots \ {r} : Roll!Counts(s, q.m) => q.m \in crossed
  <2>1. Roll!Counts(r, q.m)
    BY <1>1, <1>3, <1>7 DEF Roll!Counts, Roll!Counting
  <2>2. QED
    BY <1>4, <1>6, <2>1 DEF Roll!RecordInv, Roll!CrossInv
<1>18. Roll!CrossInv' /\ \A s \in Roll!Pending' : Roll!RequestInv(req[s])' /\ Roll!CountInv(req[s])'
  <2>1. \A m \in Members : ~Roll!Counts(r, m)'
    BY <1>5 DEF Roll!Counts, Roll!Counting, Roll!NoRequest
  <2>2. \A m \in Members \ crossed' : Steady(m) \/ \A s \in Roll!Slots \ {r} : ~Roll!Counts(s, m)
    BY <1>3, <1>16, <1>17
  <2>3. \A e \in Events : event[e].stamp <= event'[e].stamp
    BY <1>3, <1>4 DEF Roll!TypeInv
  <2>4. ASSUME NEW j \in revoked' \ revoked, NEW s \in Roll!Slots \ {r}, Roll!Counting(s),
               req[s].op = "finalize"
        PROVE  rsvp'[j].member \in crossed'
    <3>1. j = q.i
      BY <1>3, <2>4
    <3>2. Roll!Counts(s, q.m)
      BY <2>4 DEF Roll!Counts
    <3>3. QED
      BY <1>3, <1>10, <1>11, <1>17, <3>1, <3>2
  <2>5. QED
    BY <1>3, <1>4, <1>5, <1>14, <1>15, <2>1, <2>2, <2>3, <2>4, OthersKept
<1>19. Roll!BoundInv'
  <2>1. Roll!Adding' \subseteq Roll!Adding /\ Roll!Free' = Roll!Free
    BY <1>5, <1>7, <1>10, <1>11 DEF Roll!Adding, Roll!Free, Roll!NoRequest
  <2>2. IsFiniteSet(Roll!Adding) /\ Cardinality(Roll!Adding) \in Nat /\ Cardinality(Roll!Free) \in Nat
    BY RecordSizes DEF Roll!Adding, Roll!Free
  <2>3. Cardinality(Roll!Adding') <= Cardinality(Roll!Adding) /\ Cardinality(Roll!Adding') \in Nat
    BY <2>1, <2>2, FS_Subset, FS_CardinalityType
  <2>4. Cardinality(Roll!Adding) <= Cardinality(Roll!Free)
    BY <1>4, RecordCounts DEF Roll!BoundInv
  <2>5. Cardinality(Roll!Adding') <= Cardinality(Roll!Free')
    BY <2>1, <2>2, <2>3, <2>4
  <2>6. \A m \in Members : ribbon'[m].devices \in Nat /\ ribbon'[m].devices <= ribbon[m].devices
    BY <1>3, <1>4, BoundFacts
  <2>7. QED
    BY <1>3, <1>4, <2>5, <2>6, BoundEnds
<1>20. Roll!RevokedInv'
  <2> SUFFICES ASSUME NEW j \in revoked'
               PROVE  /\ rsvp'[j] # Roll!NoRow
                      /\ rsvp'[j].member \notin crossed => ~rsvp'[j].attended /\ ~rsvp'[j].checked
    BY <1>3 DEF Roll!RevokedInv
  <2>1. j \in revoked => /\ j \in Roll!Rows /\ rsvp[j] # Roll!NoRow
                         /\ rsvp[j].member \notin crossed => ~rsvp[j].attended /\ ~rsvp[j].checked
    BY <1>4 DEF Roll!RecordInv, Roll!RevokedInv, Roll!TypeInv
  <2>2. CASE j # q.i
    BY <1>3, <1>11, <2>1, <2>2
  <2>3. CASE j = q.i /\ rsvp[q.i] = q.seen
    BY <1>10, <1>11, <2>3
  <2>4. CASE j = q.i /\ rsvp[q.i] # q.seen
    BY <1>3, <1>7, <1>10, <1>11, <2>1, <2>4
  <2>5. QED
    BY <2>2, <2>3, <2>4
<1>21. Roll!CreditEarned'
  <2> SUFFICES ASSUME NEW m \in Members \ crossed, NEW e \in Events,
                      event[e].stamp = 0, <<e, 0>> \in credits'[m]
               PROVE  \E j \in Roll!RowsOf(e, m)' : rsvp'[j].attended
    BY <1>3 DEF Roll!CreditEarned
  <2>1. PICK j \in Roll!RowsOf(e, m) : rsvp[j].attended
    BY <1>4, <1>12 DEF Roll!RecordInv, Roll!CreditEarned
  <2>2. j # q.i
    <3>1. ASSUME j = q.i PROVE FALSE
      <4>1. m = q.m /\ e = q.e
        BY <1>7, <2>1, <3>1 DEF Roll!RowsOf
      <4>2. q.stamp <= event[q.e].stamp
        BY <1>4 DEF Roll!RequestInv
      <4>3. q.stamp = 0
        BY <1>6, <4>1, <4>2 DEF Roll!Sound
      <4>4. QED
        BY <1>12, <4>1, <4>3
    <3>2. QED
      BY <3>1
  <2>3. rsvp'[j] = rsvp[j] /\ j \in Roll!Rows
    BY <1>11, <2>1, <2>2 DEF Roll!RowsOf
  <2>4. QED
    BY <2>1, <2>3 DEF Roll!RowsOf
<1>22. Roll!CountsAttended'
  <2> SUFFICES ASSUME NEW m \in Members \ crossed,
                      \A j \in Roll!FtxRows(m, {})' : event[rsvp'[j].event].finalized
               PROVE  ftx'[m] = Roll!Cardinality(Roll!FtxRows(m, {})')
    BY <1>3 DEF Roll!CountsAttended
  <2>1. CASE m # q.m
    <3>1. Roll!FtxRows(m, {})' = Roll!FtxRows(m, {})
      BY <1>4, <1>14, <1>15, <1>16, <2>1, CountedStays
    <3>2. \A j \in Roll!FtxRows(m, {}) : rsvp'[j].event = rsvp[j].event
      BY <1>15 DEF Roll!FtxRows, RowsStay
    <3>3. \A j \in Roll!FtxRows(m, {}) : event[rsvp[j].event].finalized
      BY <3>1, <3>2
    <3>4. QED
      BY <1>4, <1>13, <2>1, <3>1, <3>3 DEF Roll!RecordInv, Roll!CountsAttended
  <2>2. CASE m = q.m
    <3>1. q.counts[q.m] = Roll!LeftAfter(q)
      BY <1>3, <1>4, <2>2 DEF Roll!CountInv
    <3>2. PICK others : others = Roll!FtxRows(q.m, {}) \ {q.i}
      OBVIOUS
    <3>3. Roll!LeftAfter(q) = Roll!Cardinality(others) + IF row.attended /\ q.e \in Field THEN 1 ELSE 0
      BY <1>2, <3>2 DEF Roll!LeftAfter
    <3>4. IsFiniteSet(others) /\ Cardinality(others) \in Nat /\ q.i \notin others
      BY <3>2, RecordSizes DEF Roll!FtxRows
    <3>5. \A j \in Roll!Rows \ {q.i} : j \in Roll!FtxRows(q.m, {})' <=> j \in Roll!FtxRows(q.m, {})
      BY <1>11 DEF Roll!FtxRows
    <3>6. q.i \in Roll!FtxRows(q.m, {})' <=> row.attended /\ q.e \in Field
      BY <1>7, <1>10, <1>11 DEF Roll!FtxRows
    <3>7. ASSUME NEW j
          PROVE  j \in Roll!FtxRows(q.m, {})' <=> j \in others \/ (j = q.i /\ row.attended /\ q.e \in Field)
      <4>1. CASE j \in Roll!Rows
        BY <3>2, <3>5, <3>6, <4>1
      <4>2. CASE j \notin Roll!Rows
        BY <1>7, <3>2, <4>2 DEF Roll!FtxRows
      <4>3. QED
        BY <4>1, <4>2
    <3>8. CASE row.attended /\ q.e \in Field
      <4>1. Roll!FtxRows(q.m, {})' = others \cup {q.i}
        BY <3>7, <3>8
      <4>2. Cardinality(Roll!FtxRows(q.m, {})') = Cardinality(others) + 1
        BY <3>4, <4>1, FS_AddElement
      <4>3. QED
        BY <1>13, <2>2, <3>1, <3>3, <3>8, <4>2, RecordCounts
    <3>9. CASE ~(row.attended /\ q.e \in Field)
      <4>1. Roll!FtxRows(q.m, {})' = others
        BY <3>7, <3>9
      <4>2. QED
        BY <1>13, <2>2, <3>1, <3>3, <3>4, <3>9, <4>1, RecordCounts
    <3>10. QED
      BY <3>8, <3>9
  <2>3. QED
    BY <2>1, <2>2
<1>23. \A e \in Events : event'[e].stamp <= edits'
  BY <1>3, <1>4 DEF Roll!RecordInv
<1>24. Roll!HonourInv'
  BY <1>3, <1>4, <1>5, <1>14, HonoursStay
<1>25. Roll!RecordInv'
  BY <1>14, <1>18, <1>19, <1>20, <1>21, <1>22, <1>23 DEF Roll!RecordInv
<1>26. QED
  BY <1>24, <1>25 DEF Roll!AttendanceInv

LEMMA Finalizes ==
  ASSUME Roll!Sound, Roll!AttendanceInv, NEW r \in Roll!Slots, Roll!CommitFinalize(r)
  PROVE  Roll!AttendanceInv'
<1>1. PICK q : q = req[r]
  OBVIOUS
<1>2. /\ q.pc = "commit" /\ q.op = "finalize" /\ req' = [req EXCEPT ![r] = Roll!NoRequest]
      /\ event' = [event EXCEPT ![q.e].finalized = TRUE]
      /\ rsvp' = [i \in Roll!Rows |-> IF i \in q.marks THEN [rsvp[i] EXCEPT !.attended = TRUE] ELSE rsvp[i]]
      /\ credits' = [m \in Members |->
           IF m \in q.due THEN credits[m] \cup {<<q.e, q.stamp>>} ELSE credits[m]]
      /\ ftx' = [m \in Members |-> IF m \in q.there THEN q.counts[m] ELSE ftx[m]]
      /\ grants' = grants \cup ({q.e} \X q.led)
      /\ ribbon' = [m \in Members |->
           IF m \in q.led THEN Roll!Decorated(q.ribbons[m]) ELSE ribbon[m]]
      /\ cited' = [m \in Members |->
           IF m \in q.led
             THEN {c \in cited[m] : c[1] # Roll!Decorated(q.ribbons[m]).devices}
                    \cup {<<Roll!Decorated(q.ribbons[m]).devices, q.e>>}
             ELSE cited[m]]
      /\ UNCHANGED <<begun, edits, crossed, clashed, revoked>>
  BY <1>1 DEF Roll!CommitFinalize, Roll!End, Roll!bounds, Roll!history
<1>3. /\ Roll!RecordInv /\ Roll!TypeInv /\ Roll!BoundInv /\ Roll!HonourInv /\ r \in Roll!Pending
      /\ q \in Roll!Handled
      /\ Roll!RequestInv(q) /\ Roll!CountInv(q)
  BY <1>1, <1>2, RequestFacts DEF Roll!AttendanceInv, Roll!RecordInv
<1>4. req'[r] = Roll!NoRequest /\ \A s \in Roll!Slots \ {r} : req'[s] = req[s]
  BY <1>2, <1>3 DEF Roll!TypeInv
<1>5. /\ q.e \in Events /\ q.m \in Members /\ q.counts \in [Members -> Nat] /\ q.stamp \in 0..MaxEdits
      /\ q.marks \subseteq Roll!Rows /\ q.there \subseteq Members /\ q.led \subseteq Members
      /\ q.ribbons \in [Members -> Roll!RibbonType]
  BY <1>3, HandledFacts
<1>6. \A i \in q.marks : rsvp[i] # Roll!NoRow /\ rsvp[i] \in Roll!RowType /\ rsvp[i].event = q.e
  BY <1>3, <1>5 DEF Roll!RequestInv, Roll!TypeInv
<1>7. /\ \A i \in q.marks : /\ rsvp'[i] \in Roll!RowType /\ rsvp'[i].attended /\ rsvp'[i] # Roll!NoRow
                            /\ rsvp'[i].event = rsvp[i].event /\ rsvp'[i].member = rsvp[i].member
                            /\ rsvp'[i].checked = rsvp[i].checked
      /\ \A i \in Roll!Rows \ q.marks : rsvp'[i] = rsvp[i]
  <2>1. ASSUME NEW i \in q.marks
        PROVE  /\ rsvp'[i] \in Roll!RowType /\ rsvp'[i].attended /\ rsvp'[i] # Roll!NoRow
               /\ rsvp'[i].event = rsvp[i].event /\ rsvp'[i].member = rsvp[i].member
               /\ rsvp'[i].checked = rsvp[i].checked
    <3>1. rsvp'[i] = [rsvp[i] EXCEPT !.attended = TRUE] /\ rsvp[i] \in Roll!RowType
      BY <1>2, <1>5, <1>6, <2>1
    <3>2. /\ rsvp'[i] \in Roll!RowType /\ rsvp'[i].attended
          /\ rsvp'[i].event = rsvp[i].event /\ rsvp'[i].member = rsvp[i].member
          /\ rsvp'[i].checked = rsvp[i].checked
      BY <3>1 DEF Roll!RowType
    <3>3. QED
      BY <3>2, RowsAreNot
  <2>2. \A i \in Roll!Rows \ q.marks : rsvp'[i] = rsvp[i]
    BY <1>2
  <2>3. QED
    BY <2>1, <2>2
<1>8. RowsStay
  BY <1>7 DEF RowsStay
<1>9. rsvp' \in [Roll!Rows -> {Roll!NoRow} \cup Roll!RowType]
  <2>1. \A i \in Roll!Rows : rsvp'[i] \in {Roll!NoRow} \cup Roll!RowType
    BY <1>3, <1>7 DEF Roll!TypeInv
  <2>2. rsvp' = [i \in Roll!Rows |-> rsvp'[i]]
    BY <1>2
  <2>3. QED
    BY <2>1, <2>2
<1>10. /\ event' \in [Events -> [finalized : BOOLEAN, stamp : 0..MaxEdits, led : SUBSET Members]]
       /\ \A e \in Events : event'[e].stamp = event[e].stamp
       /\ \A e \in Events \ {q.e} : event'[e].finalized = event[e].finalized
  <2> DEFINE EventType == [finalized : BOOLEAN, stamp : 0..MaxEdits, led : SUBSET Members]
  <2>1. event \in [Events -> EventType]
    BY <1>3 DEF Roll!TypeInv
  <2>2. event[q.e] \in EventType
    BY <1>5, <2>1
  <2>3. /\ event'[q.e] = [event[q.e] EXCEPT !.finalized = TRUE]
        /\ \A e \in Events \ {q.e} : event'[e] = event[e]
    BY <1>2, <1>5, <2>1
  <2>4. [event[q.e] EXCEPT !.finalized = TRUE] \in EventType
    BY <2>2
  <2>5. event'[q.e].stamp = event[q.e].stamp
    BY <2>2, <2>3
  <2>6. event' \in [Events -> EventType]
    BY <1>2, <1>5, <2>1, <2>4
  <2>7. QED
    BY <2>3, <2>5, <2>6
<1>11. credits' \in [Members -> SUBSET (Events \X (0..MaxEdits))]
  BY <1>2, <1>3, <1>5 DEF Roll!TypeInv
<1>12. /\ ftx' \in [Members -> 0..MaxRows]
       /\ \A m \in Members : ftx'[m] = IF m \in q.there THEN q.counts[m] ELSE ftx[m]
  <2>1. \A m \in Members : q.counts[m] \in 0..MaxRows
    BY <1>2, <1>3, <1>5 DEF Roll!RequestInv, Roll!Sound
  <2>2. QED
    BY <1>2, <1>3, <2>1 DEF Roll!TypeInv
<1>13. \A m \in Members : /\ Roll!Decorated(q.ribbons[m]) \in Roll!RibbonType
                          /\ Roll!Decorated(q.ribbons[m]).devices \in Nat
                          /\ Roll!Decorated(q.ribbons[m]).devices <= q.ribbons[m].devices + 1
                          /\ Roll!Decorated(q.ribbons[m]).devices \in 0..AttendanceRequests
  <2> TAKE m \in Members
  <2>1. PICK new : new = Roll!Decorated(q.ribbons[m])
    OBVIOUS
  <2>2. new \in [held : BOOLEAN, manual : BOOLEAN, devices : 0..(q.ribbons[m].devices + 1)]
    BY <1>5, <2>1, DecoratedOne
  <2>3. /\ q.ribbons[m].devices \in Nat /\ q.ribbons[m].devices + Cardinality(Roll!Pending) <= begun
        /\ Cardinality(Roll!Pending) \in Nat /\ begun \in 0..AttendanceRequests
        /\ AttendanceRequests \in Nat
    BY <1>1, <1>3, BoundFacts DEF Roll!TypeInv, Roll!Sound
  <2>4. Cardinality(Roll!Pending) # 0
    BY <1>3, BoundFacts, FS_EmptySet
  <2>5. new.devices \in 0..(q.ribbons[m].devices + 1)
    BY <2>2
  <2>6. /\ new.devices \in 0..AttendanceRequests /\ new.devices \in Nat
        /\ new.devices <= q.ribbons[m].devices + 1
    BY <2>3, <2>4, <2>5
  <2>7. new \in Roll!RibbonType
    BY <2>2, <2>6 DEF Roll!RibbonType
  <2>8. QED
    BY <2>1, <2>6, <2>7
<1>14. ribbon' \in [Members -> Roll!RibbonType]
  BY <1>2, <1>3, <1>13 DEF Roll!TypeInv
<1>15. cited' \in [Members -> SUBSET ((0..AttendanceRequests) \X Events)]
  <2>1. \A m \in Members : cited'[m] \subseteq (0..AttendanceRequests) \X Events
    <3> TAKE m \in Members
    <3>1. cited[m] \subseteq (0..AttendanceRequests) \X Events
      BY <1>3 DEF Roll!TypeInv
    <3>2. PICK d \in 0..AttendanceRequests : d = Roll!Decorated(q.ribbons[m]).devices
      BY <1>13
    <3>3. cited'[m] \subseteq cited[m] \cup {<<d, q.e>>}
      BY <1>2, <3>2
    <3>4. QED
      BY <1>5, <3>1, <3>3
  <2>2. cited' = [m \in Members |-> cited'[m]]
    BY <1>2
  <2>3. QED
    BY <2>1, <2>2
<1>16. grants' \subseteq Events \X Members
  BY <1>2, <1>3, <1>5 DEF Roll!TypeInv
<1>17. Roll!TypeInv'
  BY <1>2, <1>3, <1>9, <1>10, <1>11, <1>12, <1>14, <1>15, <1>16 DEF Roll!TypeInv
<1>18. \A m \in Members \ crossed : /\ \A s \in Roll!Slots \ {r} : ~Roll!Counts(s, m)
                                    /\ m \in q.there <=> Roll!IsThere(q, m)
                                    /\ q.counts[m] = Roll!Cardinality(Roll!FtxRows(m, q.marks))
  <2>1. \A m \in Members : Roll!Counts(r, m)
    BY <1>1, <1>2 DEF Roll!Counts, Roll!Counting
  <2>2. QED
    BY <1>2, <1>3, <2>1 DEF Roll!RecordInv, Roll!CrossInv, Roll!CountInv
<1>19. Roll!CrossInv' /\ \A s \in Roll!Pending' : Roll!RequestInv(req[s])' /\ Roll!CountInv(req[s])'
  <2>1. \A m \in Members : ~Roll!Counts(r, m)'
    BY <1>4 DEF Roll!Counts, Roll!Counting, Roll!NoRequest
  <2>2. \A e \in Events : event[e].stamp <= event'[e].stamp
    BY <1>3, <1>10 DEF Roll!TypeInv
  <2>3. QED
    BY <1>2, <1>3, <1>4, <1>8, <1>17, <1>18, <2>1, <2>2, OthersKept
<1>20. Roll!BoundInv'
  <2>1. Roll!Adding' \subseteq Roll!Adding /\ Roll!Free' = Roll!Free
    BY <1>4, <1>6, <1>7 DEF Roll!Adding, Roll!Free, Roll!NoRequest
  <2>2. IsFiniteSet(Roll!Adding) /\ Cardinality(Roll!Adding) \in Nat /\ Cardinality(Roll!Free) \in Nat
    BY RecordSizes DEF Roll!Adding, Roll!Free
  <2>3. Cardinality(Roll!Adding') <= Cardinality(Roll!Adding) /\ Cardinality(Roll!Adding') \in Nat
    BY <2>1, <2>2, FS_Subset, FS_CardinalityType
  <2>4. Cardinality(Roll!Adding) <= Cardinality(Roll!Free)
    BY <1>3, RecordCounts DEF Roll!BoundInv
  <2>5. Cardinality(Roll!Adding') <= Cardinality(Roll!Free')
    BY <2>1, <2>2, <2>3, <2>4
  <2>6. \A m \in Members : /\ ribbon'[m].devices \in Nat
                           /\ \/ ribbon'[m].devices <= ribbon[m].devices
                              \/ ribbon'[m].devices <= req[r].ribbons[m].devices + 1
    BY <1>1, <1>2, <1>3, <1>13, BoundFacts
  <2>7. QED
    BY <1>2, <1>3, <2>5, <2>6, BoundEnds
<1>21. Roll!RevokedInv'
  <2> SUFFICES ASSUME NEW j \in revoked
               PROVE  /\ rsvp'[j] # Roll!NoRow
                      /\ rsvp'[j].member \notin crossed => ~rsvp'[j].attended /\ ~rsvp'[j].checked
    BY <1>2 DEF Roll!RevokedInv
  <2>1. /\ j \in Roll!Rows /\ rsvp[j] # Roll!NoRow
        /\ rsvp[j].member \notin crossed => ~rsvp[j].attended /\ ~rsvp[j].checked
    BY <1>3 DEF Roll!RecordInv, Roll!RevokedInv, Roll!TypeInv
  <2>2. CASE j \in q.marks
    BY <1>2, <1>3, <1>7, <2>2 DEF Roll!CountInv
  <2>3. CASE j \notin q.marks
    BY <1>7, <2>1, <2>3
  <2>4. QED
    BY <2>2, <2>3
<1>22. Roll!CreditEarned'
  <2> SUFFICES ASSUME NEW m \in Members \ crossed, NEW e \in Events,
                      event[e].stamp = 0, <<e, 0>> \in credits'[m]
               PROVE  \E j \in Roll!RowsOf(e, m)' : rsvp'[j].attended
    BY <1>2, <1>10 DEF Roll!CreditEarned
  <2>1. \E j \in Roll!RowsOf(e, m) : rsvp[j].attended \/ j \in q.marks
    <3>1. CASE <<e, 0>> \in credits[m]
      BY <1>3, <3>1 DEF Roll!RecordInv, Roll!CreditEarned
    <3>2. CASE <<e, 0>> \notin credits[m]
      <4>1. m \in q.due /\ e = q.e
        BY <1>2, <3>2
      <4>2. Roll!IsThere(q, m)
        BY <1>3, <1>18, <4>1 DEF Roll!RequestInv
      <4>3. QED
        BY <4>1, <4>2 DEF Roll!IsThere
    <3>3. QED
      BY <3>1, <3>2
  <2>2. PICK j \in Roll!RowsOf(e, m) : rsvp[j].attended \/ j \in q.marks
    BY <2>1
  <2>3. rsvp'[j].attended
    BY <1>7, <2>2 DEF Roll!RowsOf
  <2>4. j \in Roll!RowsOf(e, m)'
    BY <1>8 DEF Roll!RowsOf, RowsStay
  <2>5. QED
    BY <2>3, <2>4
<1>23. Roll!CountsAttended'
  <2> SUFFICES ASSUME NEW m \in Members \ crossed,
                      \A j \in Roll!FtxRows(m, {})' : event'[rsvp'[j].event].finalized
               PROVE  ftx'[m] = Roll!Cardinality(Roll!FtxRows(m, {})')
    BY <1>2 DEF Roll!CountsAttended
  <2>1. ASSUME NEW j PROVE j \in Roll!FtxRows(m, {})' <=> j \in Roll!FtxRows(m, q.marks)
    <3>1. CASE j \in q.marks
      BY <1>5, <1>6, <1>7, <3>1 DEF Roll!FtxRows
    <3>2. CASE j \in Roll!Rows \ q.marks
      BY <1>7, <3>2 DEF Roll!FtxRows
    <3>3. CASE j \notin Roll!Rows
      BY <3>3 DEF Roll!FtxRows
    <3>4. QED
      BY <1>5, <3>1, <3>2, <3>3
  <2>2. Roll!FtxRows(m, {})' = Roll!FtxRows(m, q.marks)
    BY <2>1
  <2>3. CASE m \in q.there
    BY <1>12, <1>18, <2>2, <2>3
  <2>4. CASE m \notin q.there
    <3>1. \A j \in Roll!RowsOf(q.e, m) : ~rsvp[j].attended /\ j \notin q.marks
      BY <1>18, <2>4 DEF Roll!IsThere
    <3>2. \A j \in Roll!FtxRows(m, q.marks) : j \notin q.marks /\ rsvp[j].event # q.e
      BY <1>6, <3>1 DEF Roll!FtxRows, Roll!RowsOf
    <3>3. Roll!FtxRows(m, q.marks) = Roll!FtxRows(m, {})
      BY <3>2 DEF Roll!FtxRows
    <3>4. \A j \in Roll!FtxRows(m, {}) : rsvp[j].event \in Events \ {q.e} /\ rsvp'[j].event = rsvp[j].event
      BY <1>8, <3>2, <3>3 DEF Roll!FtxRows, RowsStay, Roll!Sound
    <3>5. \A j \in Roll!FtxRows(m, {}) : event[rsvp[j].event].finalized
      BY <1>10, <2>2, <3>3, <3>4
    <3>6. QED
      BY <1>3, <1>12, <2>2, <2>4, <3>3, <3>5 DEF Roll!RecordInv, Roll!CountsAttended
  <2>5. QED
    BY <2>3, <2>4
<1>24. \A e \in Events : event'[e].stamp <= edits'
  BY <1>2, <1>3, <1>10 DEF Roll!RecordInv
<1>25. Roll!HonourInv'
  BY <1>3, <1>17, FinalizeHonours
<1>26. Roll!RecordInv'
  BY <1>17, <1>19, <1>20, <1>21, <1>22, <1>23, <1>24 DEF Roll!RecordInv
<1>27. QED
  BY <1>25, <1>26 DEF Roll!AttendanceInv

LEMMA AttendanceInit == ASSUME Roll!Sound, Roll!Init PROVE Roll!AttendanceInv
<1>1. PICK led \in [Events -> SUBSET Members] :
        event = [e \in Events |-> [finalized |-> FALSE, stamp |-> 0, led |-> led[e]]]
  BY DEF Roll!Init
<1>2. PICK byhand \in SUBSET Members :
        ribbon = [m \in Members |-> [Roll!NoRibbon EXCEPT !.held = m \in byhand, !.manual = m \in byhand]]
  BY DEF Roll!Init
<1>3. /\ rsvp = [i \in Roll!Rows |-> IF i <= Len(Invited) THEN Roll!Fresh(Invited[i][1], Invited[i][2])
                                 ELSE Roll!NoRow]
      /\ credits = [m \in Members |-> {}] /\ ftx = [m \in Members |-> 0]
      /\ grants = {} /\ cited = [m \in Members |-> {}] /\ req = [r \in Roll!Slots |-> Roll!NoRequest]
      /\ begun = 0 /\ edits = 0 /\ crossed = {} /\ clashed = {} /\ revoked = {}
  BY DEF Roll!Init
<1>4. \A i \in Roll!Rows : /\ rsvp[i] \in {Roll!NoRow} \cup Roll!RowType
                           /\ rsvp[i] # Roll!NoRow => ~rsvp[i].attended
  <2> TAKE i \in Roll!Rows
  <2>1. CASE i <= Len(Invited)
    <3>1. Invited \in Seq(Events \X Members) /\ i \in 1..Len(Invited)
      BY <2>1 DEF Roll!Sound, Roll!Rows
    <3>2. PICK x : x = Invited[i]
      OBVIOUS
    <3>3. x \in Events \X Members
      BY <3>1, <3>2
    <3>4. rsvp[i] = Roll!Fresh(x[1], x[2]) /\ x[1] \in Events /\ x[2] \in Members
      BY <1>3, <2>1, <3>2, <3>3
    <3>5. QED
      BY <3>4 DEF Roll!Fresh, Roll!RowType
  <2>2. CASE ~(i <= Len(Invited))
    BY <1>3, <2>2
  <2>3. QED
    BY <2>1, <2>2
<1>5. rsvp \in [Roll!Rows -> {Roll!NoRow} \cup Roll!RowType]
  BY <1>3, <1>4
<1>6. /\ 0 \in 0..MaxRows /\ 0 \in 0..AttendanceRequests /\ 0 \in 0..MaxEdits
      /\ event \in [Events -> [finalized : BOOLEAN, stamp : 0..MaxEdits, led : SUBSET Members]]
      /\ \A e \in Events : event[e].stamp = 0
  BY <1>1 DEF Roll!Sound
<1>7. \A m \in Members : /\ ribbon[m] \in Roll!RibbonType /\ ribbon[m].devices = 0
                         /\ ribbon[m].held <=> m \in byhand
                         /\ ribbon[m].manual <=> m \in byhand
  <2> TAKE m \in Members
  <2>1. CASE m \in byhand
    <3>1. ribbon[m] = [held |-> TRUE, manual |-> TRUE, devices |-> 0]
      BY <1>2, <2>1 DEF Roll!NoRibbon
    <3>2. QED
      BY <1>6, <2>1, <3>1 DEF Roll!RibbonType
  <2>2. CASE m \notin byhand
    <3>1. (m \in byhand) = FALSE
      BY <2>2
    <3>2. ribbon[m] = [Roll!NoRibbon EXCEPT !.held = FALSE, !.manual = FALSE]
      BY <1>2, <3>1
    <3>3. ribbon[m] = [held |-> FALSE, manual |-> FALSE, devices |-> 0]
      BY <3>2 DEF Roll!NoRibbon
    <3>4. QED
      BY <1>6, <2>2, <3>3 DEF Roll!RibbonType
  <2>3. QED
    BY <2>1, <2>2
<1>8. Roll!TypeInv
  BY <1>2, <1>3, <1>5, <1>6, <1>7 DEF Roll!TypeInv
<1>9. /\ Roll!Pending = {} /\ Roll!Adding = {}
      /\ \A r \in Roll!Slots : req[r] = Roll!NoRequest /\ req[r].pc = "none"
  BY <1>3 DEF Roll!Pending, Roll!Adding, Roll!NoRequest
<1>10. Cardinality({}) = 0
  BY FS_EmptySet
<1>11. Roll!BoundInv
  <2>1. Cardinality(Roll!Free) \in Nat
    BY RecordSizes DEF Roll!Free
  <2>2. \A m \in Members : ribbon[m].devices = 0
    BY <1>7
  <2>3. Roll!Cardinality(Roll!Adding) = 0 /\ Roll!Cardinality(Roll!Pending) = 0
    BY <1>9, <1>10, RecordCounts
  <2>4. Roll!Cardinality(Roll!Adding) <= Roll!Cardinality(Roll!Free)
    BY <2>1, <2>3, RecordCounts
  <2>5. \A m \in Members : /\ ribbon[m].devices + Roll!Cardinality(Roll!Pending) <= begun
                           /\ \A r \in Roll!Pending :
                                req[r].ribbons[m].devices + Roll!Cardinality(Roll!Pending) <= begun
    BY <1>3, <1>9, <2>2, <2>3
  <2>6. QED
    BY <2>4, <2>5 DEF Roll!BoundInv
<1>12. \A m \in Members : Roll!FtxRows(m, {}) = {}
  BY <1>4 DEF Roll!FtxRows
<1>13. Roll!CountsAttended
  BY <1>3, <1>10, <1>12, RecordCounts DEF Roll!CountsAttended
<1>14. Roll!RecordInv
  BY <1>3, <1>6, <1>8, <1>9, <1>11, <1>13 DEF Roll!RecordInv, Roll!CrossInv, Roll!Counts, Roll!Counting,
     Roll!RevokedInv, Roll!CreditEarned
<1>15. Roll!AwardsMatchGrants
  <2> SUFFICES ASSUME NEW m \in Members \ clashed
               PROVE  Awards(ribbon[m]) = Cardinality(LedBy(m)) + OwnOne(ribbon[m])
    BY AwardsOfOne
  <2>1. LedBy(m) = {}
    BY <1>3 DEF LedBy
  <2>2. /\ ribbon[m].held <=> m \in byhand
        /\ ribbon[m].manual <=> m \in byhand
        /\ ribbon[m].devices = 0
    BY <1>7
  <2>3. Cardinality(LedBy(m)) = 0
    BY <1>10, <2>1
  <2>4. CASE m \in byhand
    BY <2>2, <2>3, <2>4 DEF Awards, OwnOne
  <2>5. CASE m \notin byhand
    BY <2>2, <2>3, <2>5 DEF Awards, OwnOne
  <2>6. QED
    BY <2>4, <2>5
<1>16. Roll!EventInv /\ Roll!RibbonInv
  BY <1>9 DEF Roll!EventInv, Roll!RibbonInv, Roll!Holds, Roll!Reopens
<1>17. QED
  BY <1>14, <1>15, <1>16 DEF Roll!AttendanceInv, Roll!HonourInv

LEMMA AttendanceSteps ==
  ASSUME Roll!Sound, Roll!AttendanceInv, [Roll!Next]_(Roll!vars) PROVE Roll!AttendanceInv'
<1>1. CASE \E e \in Events : \/ \E m \in Members : \/ Roll!BeginCheckIn(e, m) \/ Roll!BeginUncheckIn(e, m)
                                                    \/ Roll!BeginWalkIn(e, m)
                             \/ Roll!BeginFinalize(e) \/ Roll!BeginReopen(e)
  BY <1>1, AttendanceBegins, EventBegins
<1>2. CASE \E i \in Roll!Rows : Roll!BeginToggle(i) \/ Roll!BeginNoShow(i)
  BY <1>2, MarkBegins
<1>3. CASE \E r \in Roll!Slots :
             \/ Roll!SaveRow(r) \/ Roll!FlushRevoke(r) \/ Roll!CloseRevoke(r)
             \/ Roll!MarkCheckIns(r) \/ Roll!CountAttendees(r) \/ Roll!ReadRibbons(r) \/ Roll!CommitFinalize(r)
             \/ Roll!ReverseGrants(r) \/ Roll!CommitReopen(r) \/ Roll!Rollback(r)
  BY <1>3, RowSaves, RevokeMoves, RevokeCloses, MarkMoves, CountMoves, RibbonMoves, Finalizes,
     ReverseMoves, Reopenings, Rollbacks
<1>4. CASE \/ \E e \in Events : Roll!Retitle(e) \/ \E led \in SUBSET Members : Roll!SetCommander(e, led)
           \/ UNCHANGED Roll!vars
  BY <1>4, EventChanges
<1>5. QED
  BY <1>1, <1>2, <1>3, <1>4 DEF Roll!Next

LEMMA AttendanceHolds ==
  ASSUME Roll!AttendanceInv
  PROVE  /\ Roll!TypeOK /\ Roll!CreditEarned /\ Roll!CountsAttended
         /\ Roll!RevokedStaysOut /\ Roll!AwardsMatchGrants
<1>1. Roll!TypeOK
  BY DEF Roll!AttendanceInv, Roll!RecordInv, Roll!TypeInv, Roll!TypeOK
<1>2. Roll!RevokedStaysOut
  BY DEF Roll!AttendanceInv, Roll!RecordInv, Roll!RevokedInv, Roll!RevokedStaysOut
<1>3. QED
  BY <1>1, <1>2 DEF Roll!AttendanceInv, Roll!RecordInv, Roll!HonourInv

\* Every behaviour of the attendance page keeps AttendanceInv.
LEMMA AttendanceStays == MembersSpec => [](page = "attendance" => Roll!AttendanceInv)
<1> DEFINE IInv == page = "attendance" => Roll!AttendanceInv
<1>1. MembersInit => IInv
  BY OnlyAttendance, AttendanceAssumption, AttendanceInit
<1>2. IInv /\ [MembersNext]_allVars => IInv'
  <2> SUFFICES ASSUME page = "attendance", Roll!AttendanceInv, [MembersNext]_allVars
               PROVE  Roll!AttendanceInv'
    BY PageKept
  <2>1. [Roll!Next]_(Roll!vars)
    BY OnlyAttendanceSteps
  <2>2. QED
    BY <2>1, AttendanceAssumption, AttendanceSteps
<1> HIDE DEF IInv
<1>3. MembersSpec => []IInv
  BY <1>1, <1>2, PTL DEF MembersSpec
<1>4. QED
  BY <1>3 DEF IInv

(***************************************************************************)
(* The record of attendance agrees with itself, for any members, events    *)
(* and rows, and however the requests of one page overlap those of         *)
(* another: credits are earned, ftx_count is what the rows say, and who    *)
(* was taken off the record is not put back by a finalization.             *)
(***************************************************************************)
THEOREM RecordsAgreeCorrect == MembersSpec => []RecordsAgree
<1>1. (page = "attendance" => Roll!AttendanceInv) => RecordsAgree
  BY AttendanceHolds DEF RecordsAgree, Roll!RecordsAgree
<1>2. QED
  BY <1>1, AttendanceStays, PTL

(***************************************************************************)
(* The Mission Leader ribbon carries one award for each event led and one  *)
(* if it was given by hand, however finalizations and reopenings of any    *)
(* events overlap, unless two of them had the ribbon at once.              *)
(***************************************************************************)
THEOREM AwardsMatchGrantsCorrect == MembersSpec => []AwardsMatchGrants
<1>1. (page = "attendance" => Roll!AttendanceInv) => AwardsMatchGrants
  BY AttendanceHolds DEF AwardsMatchGrants
<1>2. QED
  BY <1>1, AttendanceStays, PTL

-----------------------------------------------------------------------------
(***************************************************************************)
(* Separations and leaves: SeparationInv is inductive (see Separation).    *)
(***************************************************************************)
LEMMA SeparationCounts ==
  \A S : Sep!Cardinality(S) = Cardinality(S) /\ (Sep!IsFiniteSet(S) <=> IsFiniteSet(S))
BY DEF Sep!Cardinality, Cardinality, Sep!IsFiniteSet, IsFiniteSet

\* What a request of the separation's operations is.
LEMMA SeparationFacts ==
  ASSUME Sep!TypeInv
  PROVE  /\ \A m \in Persons : /\ standing[m] \in Sep!Rows /\ account[m] \in Sep!Accounts
                               /\ log[m] \in SUBSET Sep!Flags
                               /\ absences[m] \in Nat /\ returns[m] \in Nat
         /\ \A r \in Sep!Requests : /\ handling[r] = Sep!NoRequest \/ handling[r] \in Sep!Handled
                                    /\ handling[r].pc # "none" => handling[r] \in Sep!Handled
BY DEF Sep!TypeInv, Sep!NoRequest

LEMMA SeparationHandled ==
  ASSUME NEW q \in Sep!Handled
  PROVE  /\ q.pc \in {"disable", "list", "remove", "verify", "ensure", "enable", "add", "leave", "commit"}
         /\ q.op \in Sep!OpKinds /\ q.m \in Persons /\ q.seen \in Sep!Rows
         /\ q.to \in Sep!Serving \cup Sep!Gone
         /\ q.left \in SUBSET Sep!Groups /\ q.disabled \in BOOLEAN /\ q.removed \in BOOLEAN
BY DEF Sep!Handled

\* One request goes on, or ends, or begins.
LEMMA RequestMoves ==
  ASSUME Sep!TypeInv, Sep!StateInv, NEW r \in Sep!Requests, NEW q \in {Sep!NoRequest} \cup Sep!Handled,
         handling' = [handling EXCEPT ![r] = q], q.pc \in {"ensure", "enable", "add"}
             => q.to \in Sep!Serving
  PROVE  /\ handling' \in [Sep!Requests -> {Sep!NoRequest} \cup Sep!Handled]
         /\ \A s \in Sep!Requests : handling'[s].pc \in {"ensure", "enable", "add"}
             => handling'[s].to \in Sep!Serving
<1>1. handling'[r] = q /\ \A s \in Sep!Requests \ {r} : handling'[s] = handling[s]
  BY DEF Sep!TypeInv
<1>2. QED
  BY <1>1 DEF Sep!TypeInv, Sep!StateInv

\* The runner and what it has mailed are as they were, and the same members are
\* on leave.
LEMMA ReturnStays ==
  ASSUME Sep!TypeInv, Sep!ReturnInv, UNCHANGED <<cron, absences, returns, cut>>,
         \A m \in Persons : standing'[m].leave = "none" <=> standing[m].leave = "none"
  PROVE  Sep!ReturnInv'
<1>1. \A m \in Persons : Sep!Owed(m)' = Sep!Owed(m)
  BY DEF Sep!Owed
<1>2. cron.todo \subseteq Persons /\ cron.done \subseteq Persons
  BY DEF Sep!TypeInv
<1>3. QED
  BY <1>1, <1>2 DEF Sep!ReturnInv

\* A step after which nobody has more than before, or their account has regained
\* it, and nobody is gone who is not shown.
LEMMA HiddenStays ==
  ASSUME Sep!TypeInv, Sep!StateInv, Sep!VisitInv, Sep!HiddenInv,
         UNCHANGED misread, regained \subseteq regained',
         \/ UNCHANGED rec
         \/ /\ rec'.m = rec.m /\ rec'.was = rec.was
            /\ rec.pc \in {"remove", "revoke"} /\ rec'.pc \in {"remove", "revoke", "verify"},
         \A m \in Persons : \/ m \in regained'
                            \/ /\ Sep!Leftovers(m)' => Sep!Leftovers(m)
                               /\ Sep!Neutralised(m) => Sep!Neutralised(m)'
                            \/ ~Sep!Visited(m) /\ ~Sep!Neutralised(m),
         \A m \in Persons : ~account'[m].exists => ~Sep!Leftovers(m)',
         \A m \in Persons : standing'[m].status \in Sep!Gone =>
           Sep!Unresolved(m)' \/ (standing[m].status \in Sep!Gone /\ log'[m] = log[m])
  PROVE  /\ Sep!VisitInv' /\ Sep!HiddenInv'
         /\ \A m \in Persons : standing'[m].status \in Sep!Gone => log'[m] # {}
<1>1. \A m : Sep!Unresolved(m) => (log'[m] = log[m] => Sep!Unresolved(m)')
  BY DEF Sep!Unresolved
<1>2. \A m \in Persons : Sep!Shown(m) => Sep!Shown(m)'
  <2> SUFFICES ASSUME NEW m \in Persons, Sep!Shown(m), standing'[m].status \in Sep!Gone,
                      m \notin regained' \cup misread,
                      ~Sep!Unresolved(m)'
               PROVE  (~Sep!Leftovers(m) /\ Sep!Neutralised(m))'
    BY DEF Sep!Shown
  <2>1. /\ standing[m].status \in Sep!Gone /\ log'[m] = log[m] /\ ~Sep!Unresolved(m)
        /\ m \notin regained \cup misread
    BY <1>1
  <2>2. ~Sep!Leftovers(m) /\ Sep!Neutralised(m)
    BY <2>1 DEF Sep!Shown
  <2>3. QED
    BY <2>2
<1>3. \A m \in Persons : Sep!Visited(m)' <=> Sep!Visited(m)
  BY DEF Sep!Visited
<1>4. Sep!HiddenInv'
  BY <1>2, <1>3 DEF Sep!HiddenInv
<1>5. rec.pc \notin {"idle", "next"} => rec.m \in Persons /\ Sep!Visited(rec.m)
  BY DEF Sep!TypeInv, Sep!IdleReconciler, Sep!Reconciling, Sep!Visited
<1>6. rec.pc \notin {"idle", "next"} =>
        \/ rec.m \in regained'
        \/ /\ Sep!Leftovers(rec.m)' => Sep!Leftovers(rec.m)
           /\ Sep!Neutralised(rec.m) => Sep!Neutralised(rec.m)'
  BY <1>5
<1>7. rec.pc \in {"remove", "revoke", "verify", "record"} =>
        (~rec.was /\ rec.m \notin misread /\ standing'[rec.m].status \in Sep!Gone => Sep!Unresolved(rec.m)')
  BY <1>1, <1>5 DEF Sep!VisitInv
<1>8. ASSUME UNCHANGED rec PROVE Sep!VisitInv'
  <2>1. rec.pc = "mark" => Sep!Clean(rec.m)'
    <3> SUFFICES ASSUME rec.pc = "mark" PROVE Sep!Clean(rec.m)'
      OBVIOUS
    <3>1. Sep!Clean(rec.m)
      BY DEF Sep!VisitInv
    <3>2. QED
      BY <1>6, <1>8, <3>1 DEF Sep!Clean
  <2>2. rec.pc = "mark" /\ ~rec.was => Sep!Shown(rec.m)'
    BY <1>2, <1>5 DEF Sep!VisitInv
  <2>3. rec.pc = "record" /\ Sep!AllSet(rec.flags) =>
          rec.m \in regained' \cup misread \/ (~Sep!Leftovers(rec.m) /\ Sep!Neutralised(rec.m))'
    BY <1>6 DEF Sep!VisitInv
  <2>4. QED
    BY <1>7, <1>8, <2>1, <2>2, <2>3 DEF Sep!VisitInv
<1>9. ASSUME rec'.m = rec.m, rec'.was = rec.was,
             rec.pc \in {"remove", "revoke"}, rec'.pc \in {"remove", "revoke", "verify"}
      PROVE  Sep!VisitInv'
  <2>1. ~rec.was /\ rec.m \notin misread /\ standing'[rec.m].status \in Sep!Gone => Sep!Unresolved(rec.m)'
    BY <1>7, <1>9
  <2>2. rec'.pc # "mark" /\ rec'.pc # "record"
    BY <1>9
  <2>3. QED
    BY <1>9, <2>1, <2>2 DEF Sep!VisitInv
<1>10. \A m \in Persons : standing'[m].status \in Sep!Gone => log'[m] # {}
  BY DEF Sep!StateInv, Sep!Unresolved
<1>11. QED
  BY <1>4, <1>8, <1>9, <1>10

LEMMA FailuresStay ==
  ASSUME Sep!Sound, Sep!TypeInv, Sep!MayFail \/ Sep!NoFault
  PROVE  failures' \in 0..MaxFailures
BY DEF Sep!Sound, Sep!TypeInv, Sep!MayFail, Sep!NoFault

\* What TypeInv says, for the lemmas that follow.
LEMMA SeparationTypes ==
  ASSUME Sep!TypeInv
  PROVE  /\ standing \in [Persons -> Sep!Rows] /\ account \in [Persons -> Sep!Accounts]
         /\ log \in [Persons -> SUBSET Sep!Flags] /\ recruiterLoad \in Nat
         /\ handling \in [Sep!Requests -> {Sep!NoRequest} \cup Sep!Handled]
         /\ rec \in {Sep!IdleReconciler} \cup Sep!Reconciling
         /\ cron \in [pc : {"idle", "work"}, todo : SUBSET Persons, done : SUBSET Persons]
         /\ received \in 0..SeparationRequests /\ failures \in 0..MaxFailures /\ outside \in 0..MaxOutside
         /\ regained \subseteq Persons /\ misread \subseteq Persons /\ cut \subseteq Persons
         /\ absences \in [Persons -> Nat] /\ returns \in [Persons -> Nat]
BY DEF Sep!TypeInv

\* A step that changes one account, or none.
LEMMA AccountChanges ==
  ASSUME Sep!TypeInv, NEW m \in Persons, NEW a \in Sep!Accounts, account' = [account EXCEPT ![m] = a]
  PROVE  /\ account' \in [Persons -> Sep!Accounts]
         /\ account'[m] = a /\ \A n \in Persons \ {m} : account'[n] = account[n]
BY DEF Sep!TypeInv

\* A step of a request, or of somebody elsewhere, that neither shows nor hides.
LEMMA AccessStays ==
  ASSUME Sep!SeparationInv, Sep!TypeInv', Sep!ReturnInv',
         UNCHANGED misread, regained \subseteq regained',
         \/ UNCHANGED rec
         \/ /\ rec'.m = rec.m /\ rec'.was = rec.was
            /\ rec.pc \in {"remove", "revoke"} /\ rec'.pc \in {"remove", "revoke", "verify"},
         \A s \in Sep!Requests : handling'[s].pc \in {"ensure", "enable", "add"}
             => handling'[s].to \in Sep!Serving,
         \A m \in Persons : \/ m \in regained'
                            \/ /\ Sep!Leftovers(m)' => Sep!Leftovers(m)
                               /\ Sep!Neutralised(m) => Sep!Neutralised(m)'
                            \/ ~Sep!Visited(m) /\ ~Sep!Neutralised(m),
         \A m \in Persons : ~account'[m].exists => ~Sep!Leftovers(m)',
         \A m \in Persons : standing'[m].status \in Sep!Gone =>
           Sep!Unresolved(m)' \/ (standing[m].status \in Sep!Gone /\ log'[m] = log[m])
  PROVE  Sep!SeparationInv'
<1>1. Sep!TypeInv /\ Sep!StateInv /\ Sep!VisitInv /\ Sep!HiddenInv
  BY DEF Sep!SeparationInv
<1>2. /\ Sep!VisitInv' /\ Sep!HiddenInv'
      /\ \A m \in Persons : standing'[m].status \in Sep!Gone => log'[m] # {}
  BY <1>1, HiddenStays
<1>3. Sep!StateInv'
  BY <1>2 DEF Sep!StateInv
<1>4. QED
  BY <1>2, <1>3 DEF Sep!SeparationInv

\* A step of a request that changes no account.
LEMMA RequestOnly ==
  ASSUME Sep!Sound, Sep!SeparationInv, NEW r \in Sep!Requests, NEW q \in {Sep!NoRequest} \cup Sep!Handled,
         handling' = [handling EXCEPT ![r] = q], q.pc \in {"ensure", "enable", "add"}
             => q.to \in Sep!Serving,
         received' \in 0..SeparationRequests, failures' \in 0..MaxFailures,
         UNCHANGED <<Sep!tables, rec, cron, outside, Sep!history>>
  PROVE  Sep!SeparationInv'
<1>1. Sep!TypeInv /\ Sep!StateInv /\ Sep!ReturnInv
  BY DEF Sep!SeparationInv
<1>2. /\ handling' \in [Sep!Requests -> {Sep!NoRequest} \cup Sep!Handled]
      /\ \A s \in Sep!Requests : handling'[s].pc \in {"ensure", "enable", "add"}
             => handling'[s].to \in Sep!Serving
  BY <1>1, RequestMoves
<1>3. UNCHANGED <<standing, account, log, recruiterLoad, rec, cron, outside, regained, misread,
                  absences, returns, cut>>
  BY DEF Sep!tables, Sep!history
<1>4. Sep!TypeInv'
  BY <1>1, <1>2, <1>3 DEF Sep!TypeInv
<1>5. Sep!ReturnInv'
  BY <1>1, <1>3, ReturnStays
<1>6. \A m \in Persons : /\ Sep!Leftovers(m)' <=> Sep!Leftovers(m)
                         /\ Sep!Neutralised(m)' <=> Sep!Neutralised(m)
  BY <1>3 DEF Sep!Leftovers, Sep!Neutralised
<1>7. \A m \in Persons : ~account'[m].exists => ~Sep!Leftovers(m)'
  BY <1>1, <1>3, <1>6 DEF Sep!StateInv
<1>8. \A m \in Persons : standing'[m].status \in Sep!Gone =>
        Sep!Unresolved(m)' \/ (standing[m].status \in Sep!Gone /\ log'[m] = log[m])
  BY <1>3
<1>9. QED
  BY <1>2, <1>3, <1>4, <1>5, <1>6, <1>7, <1>8, AccessStays

\* A step of a request that changes one account.
LEMMA RequestCalls ==
  ASSUME Sep!Sound, Sep!SeparationInv, NEW r \in Sep!Requests, NEW q \in Sep!Handled, NEW m \in Persons,
         NEW a \in Sep!Accounts,
         handling' = [handling EXCEPT ![r] = q], q.pc \in {"ensure", "enable", "add"}
             => q.to \in Sep!Serving,
         account' = [account EXCEPT ![m] = a], failures' \in 0..MaxFailures,
         a.exists \/ a = account[m],
         \/ regained' = regained \cup {m}
         \/ /\ UNCHANGED regained
            /\ a.groups \subseteq account[m].groups /\ a.rooms = account[m].rooms
            /\ a.tokens = account[m].tokens /\ a.exists = account[m].exists
            /\ a.enabled => account[m].enabled,
         UNCHANGED <<standing, log, recruiterLoad, rec, cron, received, outside, misread, absences,
                     returns, cut>>
  PROVE  Sep!SeparationInv'
<1>1. Sep!TypeInv /\ Sep!StateInv /\ Sep!ReturnInv
  BY DEF Sep!SeparationInv
<1>2. /\ handling' \in [Sep!Requests -> {Sep!NoRequest} \cup Sep!Handled]
      /\ \A s \in Sep!Requests : handling'[s].pc \in {"ensure", "enable", "add"}
             => handling'[s].to \in Sep!Serving
  BY <1>1, RequestMoves
<1>3. /\ account' \in [Persons -> Sep!Accounts]
      /\ account'[m] = a /\ \A n \in Persons \ {m} : account'[n] = account[n]
  BY <1>1, AccountChanges
<1>4. regained \subseteq regained' /\ regained' \subseteq Persons
  BY <1>1 DEF Sep!TypeInv
<1>5. Sep!TypeInv'
  BY <1>1, <1>2, <1>3, <1>4 DEF Sep!TypeInv
<1>6. Sep!ReturnInv'
  BY <1>1, ReturnStays
<1>7. \A n \in Persons \ {m} : /\ Sep!Leftovers(n)' <=> Sep!Leftovers(n)
                               /\ Sep!Neutralised(n)' <=> Sep!Neutralised(n)
  BY <1>3 DEF Sep!Leftovers, Sep!Neutralised
<1>8. \/ m \in regained'
      \/ (Sep!Leftovers(m)' => Sep!Leftovers(m)) /\ (Sep!Neutralised(m) => Sep!Neutralised(m)')
  BY <1>3 DEF Sep!Leftovers, Sep!Neutralised
<1>9. ~account'[m].exists => ~Sep!Leftovers(m)'
  BY <1>1, <1>3 DEF Sep!Leftovers, Sep!StateInv
<1>10. \A n \in Persons : ~account'[n].exists => ~Sep!Leftovers(n)'
  BY <1>1, <1>3, <1>7, <1>9 DEF Sep!StateInv
<1>11. \A n \in Persons : standing'[n].status \in Sep!Gone =>
         Sep!Unresolved(n)' \/ (standing[n].status \in Sep!Gone /\ log'[n] = log[n])
  OBVIOUS
<1>12. QED
  BY <1>2, <1>4, <1>5, <1>6, <1>7, <1>8, <1>10, <1>11, AccessStays

\* What a step of a request may rely on.
LEMMA HandledHere ==
  ASSUME Sep!SeparationInv, NEW r \in Sep!Requests, handling[r].pc # "none"
  PROVE  /\ handling[r] \in Sep!Handled /\ handling[r].m \in Persons
         /\ account[handling[r].m] \in Sep!Accounts
         /\ standing[handling[r].m] \in Sep!Rows /\ handling[r].to \in Sep!Serving \cup Sep!Gone
         /\ handling[r].left \in SUBSET Sep!Groups
         /\ handling[r].pc \in {"ensure", "enable", "add"} => handling[r].to \in Sep!Serving
         /\ failures \in 0..MaxFailures /\ received \in 0..SeparationRequests
BY SeparationFacts, SeparationHandled DEF Sep!SeparationInv, Sep!StateInv, Sep!TypeInv

LEMMA DisableKeeps ==
  ASSUME Sep!Sound, Sep!SeparationInv, NEW r \in Sep!Requests, Sep!Disable(r)
  PROVE  Sep!SeparationInv'
<1>1. /\ handling[r] \in Sep!Handled /\ handling[r].m \in Persons /\ account[handling[r].m] \in Sep!Accounts
      /\ handling[r].left \in SUBSET Sep!Groups /\ Sep!TypeInv
  BY HandledHere DEF Sep!Disable, Sep!SeparationInv
<1>2. failures' \in 0..MaxFailures
  BY <1>1, FailuresStay DEF Sep!Disable
<1> DEFINE a == [account[handling[r].m] EXCEPT !.enabled = FALSE]
           q == [handling[r] EXCEPT !.pc = "list", !.disabled = TRUE]
           p == [handling[r] EXCEPT !.pc = "list"]
<1>3. a \in Sep!Accounts /\ (account[handling[r].m].exists => a.exists)
  BY <1>1 DEF Sep!Accounts
<1>4. /\ a.groups \subseteq account[handling[r].m].groups /\ a.rooms = account[handling[r].m].rooms
      /\ a.tokens = account[handling[r].m].tokens /\ a.exists = account[handling[r].m].exists
      /\ a.enabled => account[handling[r].m].enabled
  BY <1>1 DEF Sep!Accounts
<1>5. q \in Sep!Handled /\ q.pc = "list" /\ p \in Sep!Handled /\ p.pc = "list"
  BY <1>1 DEF Sep!Handled
<1>6. /\ UNCHANGED <<standing, log, recruiterLoad, rec, cron, received, outside, Sep!history>>
      /\ UNCHANGED <<regained, misread, absences, returns, cut>>
  BY DEF Sep!Disable, Sep!history
<1>7. account' = [account EXCEPT ![handling[r].m] = a] \/ UNCHANGED account
  BY DEF Sep!Disable
<1>8. handling' = [handling EXCEPT ![r] = q] \/ handling' = [handling EXCEPT ![r] = p]
  BY DEF Sep!Disable, Sep!Step
<1>9. UNCHANGED account \/ account[handling[r].m].exists
  BY DEF Sep!Disable
<1> HIDE DEF a, q, p
<1>10. PICK h \in Sep!Handled : handling' = [handling EXCEPT ![r] = h] /\ h.pc = "list"
  BY <1>5, <1>8
<1>11. CASE UNCHANGED account
  <2>1. received' \in 0..SeparationRequests /\ UNCHANGED Sep!tables
    BY <1>1, <1>6, <1>11, SeparationTypes DEF Sep!tables
  <2>2. QED
    BY <1>2, <1>6, <1>10, <2>1, RequestOnly
<1>12. CASE account' = [account EXCEPT ![handling[r].m] = a] /\ account[handling[r].m].exists
  BY <1>1, <1>2, <1>3, <1>4, <1>6, <1>10, <1>12, RequestCalls
<1>13. QED
  BY <1>7, <1>9, <1>11, <1>12

LEMMA ListGroupsKeeps ==
  ASSUME Sep!Sound, Sep!SeparationInv, NEW r \in Sep!Requests, Sep!ListGroups(r)
  PROVE  Sep!SeparationInv'
<1>1. /\ handling[r] \in Sep!Handled /\ account[handling[r].m] \in Sep!Accounts /\ Sep!TypeInv
      /\ received \in 0..SeparationRequests
  BY HandledHere DEF Sep!ListGroups, Sep!SeparationInv
<1>2. failures' \in 0..MaxFailures
  BY <1>1, FailuresStay DEF Sep!ListGroups
<1>3. account[handling[r].m].groups \in SUBSET Sep!Groups
  BY <1>1 DEF Sep!Accounts
<1>4. \/ handling' = [handling EXCEPT ![r] =
                       [handling[r] EXCEPT !.pc = "remove", !.left = account[handling[r].m].groups]]
      \/ handling' = [handling EXCEPT ![r] = [handling[r] EXCEPT !.pc = "commit"]]
  BY DEF Sep!ListGroups, Sep!Step
<1>5. /\ [handling[r] EXCEPT !.pc = "remove", !.left = account[handling[r].m].groups] \in Sep!Handled
      /\ [handling[r] EXCEPT !.pc = "remove", !.left = account[handling[r].m].groups].pc = "remove"
      /\ [handling[r] EXCEPT !.pc = "commit"] \in Sep!Handled
      /\ [handling[r] EXCEPT !.pc = "commit"].pc = "commit"
  BY <1>1, <1>3 DEF Sep!Handled
<1>6. UNCHANGED <<Sep!tables, rec, cron, outside, Sep!history>> /\ received' \in 0..SeparationRequests
  BY <1>1 DEF Sep!ListGroups
<1>7. PICK h \in Sep!Handled : /\ handling' = [handling EXCEPT ![r] = h]
                              /\ h.pc \notin {"ensure", "enable", "add"}
  BY <1>4, <1>5
<1>8. QED
  BY <1>2, <1>6, <1>7, RequestOnly

LEMMA RemoveGroupKeeps ==
  ASSUME Sep!Sound, Sep!SeparationInv, NEW r \in Sep!Requests, Sep!RemoveGroup(r)
  PROVE  Sep!SeparationInv'
<1>1. /\ handling[r] \in Sep!Handled /\ handling[r].m \in Persons /\ account[handling[r].m] \in Sep!Accounts
      /\ handling[r].left \in SUBSET Sep!Groups /\ Sep!TypeInv
  BY HandledHere DEF Sep!RemoveGroup, Sep!SeparationInv
<1>2. PICK g \in handling[r].left :
        /\ \/ Sep!NoFault /\ account' = [account EXCEPT ![handling[r].m].groups = @ \ {g}]
           \/ Sep!MayFail /\ UNCHANGED account
        /\ handling' = [handling EXCEPT ![r].left = @ \ {g}]
  BY DEF Sep!RemoveGroup
<1>3. failures' \in 0..MaxFailures
  BY <1>1, <1>2, FailuresStay
<1> DEFINE a == [account[handling[r].m] EXCEPT !.groups = @ \ {g}]
           h == [handling[r] EXCEPT !.left = @ \ {g}]
<1>4. a \in Sep!Accounts
  BY <1>1 DEF Sep!Accounts
<1>5. /\ a.groups \subseteq account[handling[r].m].groups /\ a.rooms = account[handling[r].m].rooms
      /\ a.tokens = account[handling[r].m].tokens /\ a.exists = account[handling[r].m].exists
      /\ a.enabled => account[handling[r].m].enabled
  BY <1>1 DEF Sep!Accounts
<1>6. h \in Sep!Handled /\ h.pc = "remove"
  <2>1. handling[r].left \ {g} \in SUBSET Sep!Groups /\ handling[r].pc = "remove"
    BY <1>1 DEF Sep!RemoveGroup
  <2>2. QED
    BY <1>1, <2>1 DEF Sep!Handled
<1>7. /\ UNCHANGED <<standing, log, recruiterLoad, rec, cron, received, outside, Sep!history>>
      /\ UNCHANGED <<regained, misread, absences, returns, cut>>
  BY DEF Sep!RemoveGroup, Sep!history
<1>8. account' = [account EXCEPT ![handling[r].m] = a] \/ UNCHANGED account
  BY <1>2
<1>9. handling' = [handling EXCEPT ![r] = h]
  BY <1>2
<1>10. a.exists \/ a = account[handling[r].m]
  <2>1. ~account[handling[r].m].exists => account[handling[r].m].groups = {}
    BY <1>1 DEF Sep!SeparationInv, Sep!StateInv, Sep!Leftovers
  <2>2. account[handling[r].m].groups = {} => a = account[handling[r].m]
    BY <1>1 DEF Sep!Accounts
  <2>3. QED
    BY <1>5, <2>1, <2>2
<1> HIDE DEF a, h
<1>11. CASE UNCHANGED account
  <2>1. received' \in 0..SeparationRequests /\ UNCHANGED Sep!tables
    BY <1>1, <1>7, <1>11, SeparationTypes DEF Sep!tables
  <2>2. QED
    BY <1>3, <1>6, <1>7, <1>9, <2>1, RequestOnly
<1>12. CASE account' = [account EXCEPT ![handling[r].m] = a]
  BY <1>1, <1>3, <1>4, <1>5, <1>6, <1>7, <1>9, <1>10, <1>12, RequestCalls
<1>13. QED
  BY <1>8, <1>11, <1>12

LEMMA VerifyGroupsKeeps ==
  ASSUME Sep!Sound, Sep!SeparationInv, NEW r \in Sep!Requests, Sep!VerifyGroups(r)
  PROVE  Sep!SeparationInv'
<1>1. /\ handling[r] \in Sep!Handled /\ Sep!TypeInv /\ received \in 0..SeparationRequests
  BY HandledHere DEF Sep!VerifyGroups, Sep!SeparationInv
<1>2. failures' \in 0..MaxFailures
  BY <1>1, FailuresStay DEF Sep!VerifyGroups
<1> DEFINE b == account[handling[r].m].groups = {}
           h == [handling[r] EXCEPT !.pc = "commit", !.removed = b]
           p == [handling[r] EXCEPT !.pc = "commit"]
<1>3. b \in BOOLEAN
  OBVIOUS
<1>4. handling' = [handling EXCEPT ![r] = h] \/ handling' = [handling EXCEPT ![r] = p]
  BY DEF Sep!VerifyGroups, Sep!Step
<1> HIDE DEF b
<1>5. h \in Sep!Handled /\ h.pc = "commit" /\ p \in Sep!Handled /\ p.pc = "commit"
  BY <1>1, <1>3 DEF Sep!Handled
<1>6. UNCHANGED <<Sep!tables, rec, cron, outside, Sep!history>> /\ received' \in 0..SeparationRequests
  BY <1>1 DEF Sep!VerifyGroups
<1> HIDE DEF h, p
<1>7. PICK q \in Sep!Handled : handling' = [handling EXCEPT ![r] = q] /\ q.pc = "commit"
  BY <1>4, <1>5
<1>8. QED
  BY <1>2, <1>6, <1>7, RequestOnly

\* A commit: the row of a member changes its status, and no leave changes.
LEMMA CommitOffboardKeeps ==
  ASSUME Sep!Sound, Sep!SeparationInv, NEW r \in Sep!Requests, Sep!CommitOffboard(r)
  PROVE  Sep!SeparationInv'
<1>0. PICK m \in Persons : m = handling[r].m
  BY HandledHere DEF Sep!CommitOffboard
<1> DEFINE s == Sep!Written(standing[m].status, handling[r].seen.status, handling[r].to)
           f == [Sep!NoFlags EXCEPT !.disabled = handling[r].disabled, !.groups = handling[r].removed]
<1>1. /\ handling[r] \in Sep!Handled /\ standing[m] \in Sep!Rows
      /\ handling[r].to \in Sep!Serving \cup Sep!Gone
      /\ handling[r].disabled \in BOOLEAN /\ handling[r].removed \in BOOLEAN
      /\ Sep!TypeInv /\ Sep!StateInv /\ Sep!ReturnInv
  BY <1>0, HandledHere, SeparationHandled DEF Sep!CommitOffboard, Sep!SeparationInv
<1>2. /\ standing' = [standing EXCEPT ![m].status = s] /\ log' = [log EXCEPT ![m] = @ \cup {f}]
      /\ recruiterLoad' \in {Sep!Released(recruiterLoad), recruiterLoad}
      /\ handling' = [handling EXCEPT ![r] = Sep!NoRequest]
  BY <1>0 DEF Sep!CommitOffboard, Sep!End
<1>3. UNCHANGED <<account, rec, cron, received, failures, outside, regained, misread, absences,
                  returns, cut>>
  BY DEF Sep!CommitOffboard, Sep!bounds, Sep!history
<1>4. s \in Sep!Serving \cup Sep!Gone
  BY <1>1 DEF Sep!Written, Sep!Rows
<1>5. f \in Sep!Flags /\ ~f.talk
  BY <1>1 DEF Sep!Flags, Sep!NoFlags
<1>6. Sep!NoRequest.pc = "none"
  BY DEF Sep!NoRequest
<1>7. /\ handling' \in [Sep!Requests -> {Sep!NoRequest} \cup Sep!Handled]
      /\ \A n \in Sep!Requests : handling'[n].pc \in {"ensure", "enable", "add"}
             => handling'[n].to \in Sep!Serving
  BY <1>1, <1>2, <1>6, RequestMoves
<1> HIDE DEF s, f
<1>8. standing' \in [Persons -> Sep!Rows]
  BY <1>1, <1>2, <1>4 DEF Sep!TypeInv, Sep!Rows
<1>9. log' \in [Persons -> SUBSET Sep!Flags]
  BY <1>1, <1>2, <1>5 DEF Sep!TypeInv
<1>10. recruiterLoad' \in Nat
  BY <1>1, <1>2 DEF Sep!Released, Sep!TypeInv
<1>11. Sep!TypeInv'
  BY <1>1, <1>3, <1>7, <1>8, <1>9, <1>10 DEF Sep!TypeInv
<1>12. \A n \in Persons : standing'[n].leave = standing[n].leave
  BY <1>1, <1>2 DEF Sep!TypeInv, Sep!Rows
<1>13. Sep!ReturnInv'
  BY <1>1, <1>3, <1>12, ReturnStays
<1>14. \A n \in Persons \ {m} : standing'[n] = standing[n] /\ log'[n] = log[n]
  BY <1>1, <1>2 DEF Sep!TypeInv
<1>15. Sep!Unresolved(m)'
  <2>2. f \in log'[m]
    BY <1>1, <1>2 DEF Sep!TypeInv
  <2>3. ~Sep!AllSet(f)
    BY <1>5 DEF Sep!AllSet
  <2>4. \E g \in log'[m] : ~Sep!AllSet(g)
    BY <2>2, <2>3
  <2>5. QED
    BY <1>1, <2>4 DEF Sep!Unresolved
<1>16. \A n \in Persons : standing'[n].status \in Sep!Gone =>
         Sep!Unresolved(n)' \/ (standing[n].status \in Sep!Gone /\ log'[n] = log[n])
  BY <1>14, <1>15
<1>17. \A n \in Persons : /\ Sep!Leftovers(n)' <=> Sep!Leftovers(n)
                          /\ Sep!Neutralised(n)' <=> Sep!Neutralised(n)
  BY <1>3 DEF Sep!Leftovers, Sep!Neutralised
<1>18. \A n \in Persons : ~account'[n].exists => ~Sep!Leftovers(n)'
  BY <1>1, <1>3, <1>17 DEF Sep!StateInv
<1>19. QED
  BY <1>3, <1>7, <1>11, <1>13, <1>16, <1>17, <1>18, AccessStays

LEMMA CommitReactivateKeeps ==
  ASSUME Sep!Sound, Sep!SeparationInv, NEW r \in Sep!Requests, Sep!CommitReactivate(r)
  PROVE  Sep!SeparationInv'
<1>1. PICK m \in Persons, s \in Sep!Serving \cup Sep!Gone :
        /\ standing' = [standing EXCEPT ![m].status = s]
        /\ s = standing[m].status \/ s \in Sep!Serving
  <2>1. /\ handling[r].m \in Persons /\ standing[handling[r].m] \in Sep!Rows
        /\ handling[r].to \in Sep!Serving
    BY HandledHere DEF Sep!CommitReactivate
  <2>2. standing' = [standing EXCEPT ![handling[r].m].status =
                  Sep!Written(standing[handling[r].m].status, handling[r].seen.status, handling[r].to)]
    BY DEF Sep!CommitReactivate
  <2>3. Sep!Written(standing[handling[r].m].status, handling[r].seen.status, handling[r].to)
          \in {standing[handling[r].m].status, handling[r].to}
    BY DEF Sep!Written
  <2>4. standing[handling[r].m].status \in Sep!Serving \cup Sep!Gone
    BY <2>1 DEF Sep!Rows
  <2>5. QED
    BY <2>1, <2>2, <2>3, <2>4
<1>2. Sep!TypeInv /\ Sep!StateInv /\ Sep!ReturnInv
  BY DEF Sep!SeparationInv
<1>3. UNCHANGED <<account, log, recruiterLoad, rec, cron, received, failures, outside, regained,
                  misread, absences, returns, cut>>
  BY DEF Sep!CommitReactivate, Sep!bounds, Sep!history
<1>4. handling' = [handling EXCEPT ![r] = Sep!NoRequest] /\ Sep!NoRequest.pc = "none"
  BY DEF Sep!CommitReactivate, Sep!End, Sep!NoRequest
<1>5. /\ handling' \in [Sep!Requests -> {Sep!NoRequest} \cup Sep!Handled]
      /\ \A n \in Sep!Requests : handling'[n].pc \in {"ensure", "enable", "add"}
             => handling'[n].to \in Sep!Serving
  BY <1>2, <1>4, RequestMoves
<1>6. standing' \in [Persons -> Sep!Rows]
  BY <1>1, <1>2 DEF Sep!TypeInv, Sep!Rows
<1>7. Sep!TypeInv'
  BY <1>2, <1>3, <1>5, <1>6 DEF Sep!TypeInv
<1>8. \A n \in Persons : standing'[n].leave = standing[n].leave
  BY <1>1, <1>2 DEF Sep!TypeInv, Sep!Rows
<1>9. Sep!ReturnInv'
  BY <1>2, <1>3, <1>8, ReturnStays
<1>10. \A n \in Persons : standing'[n].status \in Sep!Gone =>
         standing[n].status \in Sep!Gone /\ log'[n] = log[n]
  <2>1. Sep!Serving \cap Sep!Gone = {}
    BY DEF Sep!Serving, Sep!Gone
  <2>2. \A n \in Persons \ {m} : standing'[n] = standing[n]
    BY <1>1, <1>2 DEF Sep!TypeInv
  <2>3. standing'[m].status = s
    BY <1>1, <1>2 DEF Sep!TypeInv, Sep!Rows
  <2>4. QED
    BY <1>1, <1>3, <2>1, <2>2, <2>3
<1>11. \A n \in Persons : /\ Sep!Leftovers(n)' <=> Sep!Leftovers(n)
                          /\ Sep!Neutralised(n)' <=> Sep!Neutralised(n)
  BY <1>3 DEF Sep!Leftovers, Sep!Neutralised
<1>12. \A n \in Persons : ~account'[n].exists => ~Sep!Leftovers(n)'
  BY <1>2, <1>3, <1>11 DEF Sep!StateInv
<1>13. QED
  BY <1>3, <1>5, <1>7, <1>9, <1>10, <1>11, <1>12, AccessStays

LEMMA EnsureAccountKeeps ==
  ASSUME Sep!Sound, Sep!SeparationInv, NEW r \in Sep!Requests, Sep!EnsureAccount(r)
  PROVE  Sep!SeparationInv'
<1>1. /\ handling[r] \in Sep!Handled /\ handling[r].m \in Persons /\ account[handling[r].m] \in Sep!Accounts
      /\ handling[r].to \in Sep!Serving /\ Sep!TypeInv
  BY HandledHere DEF Sep!EnsureAccount, Sep!SeparationInv
<1>2. failures' \in 0..MaxFailures
  BY <1>1, FailuresStay DEF Sep!EnsureAccount
<1> DEFINE a == [account[handling[r].m] EXCEPT !.exists = TRUE, !.enabled = TRUE]
           h == [handling[r] EXCEPT !.pc = "enable"]
<1>3. a \in Sep!Accounts /\ a.exists
  BY <1>1 DEF Sep!Accounts
<1>4. h \in Sep!Handled /\ h.to = handling[r].to
  BY <1>1 DEF Sep!Handled
<1>5. handling' = [handling EXCEPT ![r] = h]
  BY DEF Sep!EnsureAccount, Sep!Step
<1>6. UNCHANGED <<standing, log, recruiterLoad, rec, cron, received, outside, misread, absences,
                  returns, cut>>
  BY DEF Sep!EnsureAccount
<1>7. \/ account' = [account EXCEPT ![handling[r].m] = a] /\ regained' = regained \cup {handling[r].m}
      \/ UNCHANGED <<account, regained>>
  BY DEF Sep!EnsureAccount
<1> HIDE DEF a, h
<1>8. CASE UNCHANGED <<account, regained>>
  <2>1. received' \in 0..SeparationRequests /\ UNCHANGED <<Sep!tables, rec, cron, outside, Sep!history>>
    BY <1>1, <1>6, <1>8, SeparationTypes DEF Sep!tables, Sep!history
  <2>2. QED
    BY <1>1, <1>2, <1>4, <1>5, <2>1, RequestOnly
<1>9. CASE account' = [account EXCEPT ![handling[r].m] = a] /\ regained' = regained \cup {handling[r].m}
  BY <1>1, <1>2, <1>3, <1>4, <1>5, <1>6, <1>9, RequestCalls
<1>10. QED
  BY <1>7, <1>8, <1>9

LEMMA EnableAccountKeeps ==
  ASSUME Sep!Sound, Sep!SeparationInv, NEW r \in Sep!Requests, Sep!EnableAccount(r)
  PROVE  Sep!SeparationInv'
<1>1. /\ handling[r] \in Sep!Handled /\ handling[r].m \in Persons /\ account[handling[r].m] \in Sep!Accounts
      /\ handling[r].to \in Sep!Serving /\ Sep!TypeInv
  BY HandledHere DEF Sep!EnableAccount, Sep!SeparationInv
<1>2. failures' \in 0..MaxFailures
  BY <1>1, FailuresStay DEF Sep!EnableAccount
<1> DEFINE a == [account[handling[r].m] EXCEPT !.enabled = TRUE]
           h == [handling[r] EXCEPT !.pc = "add", !.left = IF handling[r].groups THEN Sep!Restored ELSE {}]
<1>3. a \in Sep!Accounts /\ (account[handling[r].m].exists => a.exists)
  BY <1>1 DEF Sep!Accounts
<1>4. h \in Sep!Handled /\ h.to = handling[r].to
  BY <1>1 DEF Sep!Handled, Sep!Restored, Sep!Groups
<1>5. handling' = [handling EXCEPT ![r] = h]
  BY DEF Sep!EnableAccount
<1>6. UNCHANGED <<standing, log, recruiterLoad, rec, cron, received, outside, misread, absences,
                  returns, cut>>
  BY DEF Sep!EnableAccount
<1>7. \/ /\ account' = [account EXCEPT ![handling[r].m] = a] /\ regained' = regained \cup {handling[r].m}
         /\ account[handling[r].m].exists
      \/ UNCHANGED <<account, regained>>
  BY DEF Sep!EnableAccount
<1> HIDE DEF a, h
<1>8. CASE UNCHANGED <<account, regained>>
  <2>1. received' \in 0..SeparationRequests /\ UNCHANGED <<Sep!tables, rec, cron, outside, Sep!history>>
    BY <1>1, <1>6, <1>8, SeparationTypes DEF Sep!tables, Sep!history
  <2>2. QED
    BY <1>1, <1>2, <1>4, <1>5, <2>1, RequestOnly
<1>9. CASE /\ account' = [account EXCEPT ![handling[r].m] = a] /\ regained' = regained \cup {handling[r].m}
           /\ account[handling[r].m].exists
  BY <1>1, <1>2, <1>3, <1>4, <1>5, <1>6, <1>9, RequestCalls
<1>10. QED
  BY <1>7, <1>8, <1>9

LEMMA RestoreGroupKeeps ==
  ASSUME Sep!Sound, Sep!SeparationInv, NEW r \in Sep!Requests, Sep!RestoreGroup(r)
  PROVE  Sep!SeparationInv'
<1>1. /\ handling[r] \in Sep!Handled /\ handling[r].m \in Persons /\ account[handling[r].m] \in Sep!Accounts
      /\ handling[r].to \in Sep!Serving /\ handling[r].left \in SUBSET Sep!Groups /\ Sep!TypeInv
  BY HandledHere DEF Sep!RestoreGroup, Sep!SeparationInv
<1>2. PICK g \in handling[r].left :
        \/ /\ Sep!NoFault
           /\ account' = IF account[handling[r].m].exists
                           THEN [account EXCEPT ![handling[r].m].groups = @ \cup {g}] ELSE account
           /\ regained' = regained \cup {handling[r].m}
           /\ handling' = [handling EXCEPT ![r].left = @ \ {g}]
        \/ /\ Sep!MayFail
           /\ UNCHANGED <<account, regained>>
           /\ \/ handling' = [handling EXCEPT ![r].left = @ \ {g}]
              \/ handling' = [handling EXCEPT ![r].left = {}]
  BY DEF Sep!RestoreGroup
<1>3. failures' \in 0..MaxFailures
  BY <1>1, <1>2, FailuresStay
<1> DEFINE a == [account[handling[r].m] EXCEPT !.groups = @ \cup {g}]
           h == [handling[r] EXCEPT !.left = @ \ {g}]
           n == [handling[r] EXCEPT !.left = {}]
<1>4. a \in Sep!Accounts /\ (account[handling[r].m].exists => a.exists)
  BY <1>1 DEF Sep!Accounts
<1>5. /\ h \in Sep!Handled /\ h.to = handling[r].to
      /\ n \in Sep!Handled /\ n.to = handling[r].to
  BY <1>1 DEF Sep!Handled
<1>6. UNCHANGED <<standing, log, recruiterLoad, rec, cron, received, outside, misread, absences,
                  returns, cut>>
  BY DEF Sep!RestoreGroup
<1>7. \/ /\ account' = [account EXCEPT ![handling[r].m] = a] /\ regained' = regained \cup {handling[r].m}
         /\ account[handling[r].m].exists
      \/ UNCHANGED account /\ regained' = regained \cup {handling[r].m}
      \/ UNCHANGED <<account, regained>>
  BY <1>2
<1>8. handling' = [handling EXCEPT ![r] = h] \/ handling' = [handling EXCEPT ![r] = n]
  BY <1>2
<1> HIDE DEF a, h, n
<1>9. PICK q \in Sep!Handled : handling' = [handling EXCEPT ![r] = q] /\ q.to \in Sep!Serving
  BY <1>1, <1>5, <1>8
<1>10. CASE UNCHANGED <<account, regained>>
  <2>1. received' \in 0..SeparationRequests /\ UNCHANGED <<Sep!tables, rec, cron, outside, Sep!history>>
    BY <1>1, <1>6, <1>10, SeparationTypes DEF Sep!tables, Sep!history
  <2>2. QED
    BY <1>3, <1>9, <2>1, RequestOnly
<1>11. CASE UNCHANGED account /\ regained' = regained \cup {handling[r].m}
  <2>1. account' = [account EXCEPT ![handling[r].m] = account[handling[r].m]]
    BY <1>1, <1>11 DEF Sep!TypeInv
  <2>2. QED
    BY <1>1, <1>3, <1>6, <1>9, <1>11, <2>1, RequestCalls
<1>12. CASE /\ account' = [account EXCEPT ![handling[r].m] = a] /\ regained' = regained \cup {handling[r].m}
            /\ account[handling[r].m].exists
  BY <1>1, <1>3, <1>4, <1>6, <1>9, <1>12, RequestCalls
<1>13. QED
  BY <1>7, <1>10, <1>11, <1>12

LEMMA JoinLeaveGroupKeeps ==
  ASSUME Sep!Sound, Sep!SeparationInv, NEW r \in Sep!Requests, Sep!JoinLeaveGroup(r)
  PROVE  Sep!SeparationInv'
<1>1. /\ handling[r] \in Sep!Handled /\ handling[r].m \in Persons /\ account[handling[r].m] \in Sep!Accounts
      /\ Sep!TypeInv
  BY HandledHere DEF Sep!JoinLeaveGroup, Sep!SeparationInv
<1>2. failures' \in 0..MaxFailures
  BY <1>1, FailuresStay DEF Sep!JoinLeaveGroup
<1> DEFINE a == [account[handling[r].m] EXCEPT !.groups = @ \cup {"on-leave"}]
           h == [handling[r] EXCEPT !.pc = "commit"]
<1>3. a \in Sep!Accounts /\ (account[handling[r].m].exists => a.exists)
  BY <1>1 DEF Sep!Accounts, Sep!Groups
<1>4. h \in Sep!Handled /\ h.pc = "commit"
  BY <1>1 DEF Sep!Handled
<1>5. handling' = [handling EXCEPT ![r] = h]
  BY DEF Sep!JoinLeaveGroup, Sep!Step
<1>6. UNCHANGED <<standing, log, recruiterLoad, rec, cron, received, outside, misread, absences,
                  returns, cut>>
  BY DEF Sep!JoinLeaveGroup
<1>7. \/ /\ account' = [account EXCEPT ![handling[r].m] = a] /\ regained' = regained \cup {handling[r].m}
         /\ account[handling[r].m].exists
      \/ UNCHANGED <<account, regained>>
  BY DEF Sep!JoinLeaveGroup
<1> HIDE DEF a, h
<1>8. CASE UNCHANGED <<account, regained>>
  <2>1. received' \in 0..SeparationRequests /\ UNCHANGED <<Sep!tables, rec, cron, outside, Sep!history>>
    BY <1>1, <1>6, <1>8, SeparationTypes DEF Sep!tables, Sep!history
  <2>2. QED
    BY <1>2, <1>4, <1>5, <2>1, RequestOnly
<1>9. CASE /\ account' = [account EXCEPT ![handling[r].m] = a] /\ regained' = regained \cup {handling[r].m}
           /\ account[handling[r].m].exists
  BY <1>1, <1>2, <1>3, <1>4, <1>5, <1>6, <1>9, RequestCalls
<1>10. QED
  BY <1>7, <1>8, <1>9

\* A leave is granted: a mail more is owed, unless the member was on leave.
LEMMA CommitLeaveKeeps ==
  ASSUME Sep!Sound, Sep!SeparationInv, NEW r \in Sep!Requests, Sep!CommitLeave(r)
  PROVE  Sep!SeparationInv'
<1> DEFINE m == handling[r].m
<1>1. m \in Persons /\ standing[m] \in Sep!Rows /\ Sep!TypeInv /\ Sep!StateInv /\ Sep!ReturnInv
  BY HandledHere DEF Sep!CommitLeave, Sep!SeparationInv
<1>2. /\ standing' = [standing EXCEPT ![m].leave = "running"] /\ absences' = [absences EXCEPT ![m] = @ + 1]
      /\ handling' = [handling EXCEPT ![r] = Sep!NoRequest] /\ Sep!NoRequest.pc = "none"
  BY DEF Sep!CommitLeave, Sep!End, Sep!NoRequest
<1>3. UNCHANGED <<account, log, recruiterLoad, rec, cron, received, failures, outside, regained,
                  misread, returns, cut>>
  BY DEF Sep!CommitLeave, Sep!bounds
<1>4. /\ handling' \in [Sep!Requests -> {Sep!NoRequest} \cup Sep!Handled]
      /\ \A n \in Sep!Requests : handling'[n].pc \in {"ensure", "enable", "add"}
             => handling'[n].to \in Sep!Serving
  BY <1>1, <1>2, RequestMoves
<1> HIDE DEF m
<1>5. standing' \in [Persons -> Sep!Rows] /\ absences' \in [Persons -> Nat]
  BY <1>1, <1>2 DEF Sep!TypeInv, Sep!Rows
<1>6. Sep!TypeInv'
  BY <1>1, <1>3, <1>4, <1>5 DEF Sep!TypeInv
<1>7. \A n \in Persons : standing'[n].status = standing[n].status
  BY <1>1, <1>2 DEF Sep!TypeInv, Sep!Rows
<1>8. Sep!ReturnInv'
  <2>1. standing'[m].leave = "running" /\ absences'[m] = absences[m] + 1
    BY <1>1, <1>2 DEF Sep!TypeInv, Sep!Rows
  <2>2. \A n \in Persons \ {m} : standing'[n] = standing[n] /\ absences'[n] = absences[n]
    BY <1>1, <1>2 DEF Sep!TypeInv
  <2>3. \A n \in Persons \ cut : absences[n] \in Nat /\ returns[n] \in Nat /\ Sep!Owed(n) \in {0, 1}
    BY <1>1 DEF Sep!TypeInv, Sep!Owed
  <2>4. \A n \in Persons \ {m} : (IF standing'[n].leave # "none" /\ n \notin cron'.done THEN 1 ELSE 0)
                                    = Sep!Owed(n)
    BY <1>3, <2>2 DEF Sep!Owed
  <2>5. (IF standing'[m].leave # "none" /\ m \notin cron'.done THEN 1 ELSE 0) \in {0, 1}
    OBVIOUS
  <2>6. (IF standing'[m].leave # "none" /\ m \notin cron'.done THEN 1 ELSE 0) <= Sep!Owed(m) + 1
    BY DEF Sep!Owed
  <2>7. \A n \in Persons \ cut :
          returns[n] + (IF standing'[n].leave # "none" /\ n \notin cron'.done THEN 1 ELSE 0)
                          <= absences'[n]
    <3> SUFFICES ASSUME NEW n \in Persons \ cut
                 PROVE  returns[n] + (IF standing'[n].leave # "none" /\ n \notin cron'.done THEN 1 ELSE 0)
                          <= absences'[n]
      OBVIOUS
    <3>1. returns[n] + Sep!Owed(n) <= absences[n]
      BY <1>1 DEF Sep!ReturnInv
    <3>2. CASE n = m
      BY <2>1, <2>3, <2>5, <2>6, <3>1, <3>2
    <3>3. CASE n # m
      BY <2>2, <2>3, <2>4, <3>1, <3>3
    <3>4. QED
      BY <3>2, <3>3
  <2>8. \A n \in cron.todo \cup cron.done : standing'[n].leave # "none"
    BY <1>1, <2>1, <2>2 DEF Sep!ReturnInv, Sep!TypeInv
  <2>9. QED
    BY <1>1, <1>3, <2>7, <2>8 DEF Sep!ReturnInv, Sep!Owed
<1>9. \A n \in Persons : /\ Sep!Leftovers(n)' <=> Sep!Leftovers(n)
                         /\ Sep!Neutralised(n)' <=> Sep!Neutralised(n)
  BY <1>3 DEF Sep!Leftovers, Sep!Neutralised
<1>10. \A n \in Persons : ~account'[n].exists => ~Sep!Leftovers(n)'
  BY <1>1, <1>3, <1>9 DEF Sep!StateInv
<1>11. QED
  BY <1>3, <1>4, <1>6, <1>7, <1>8, <1>9, <1>10, AccessStays

LEMMA RequestDiesKeeps ==
  ASSUME Sep!Sound, Sep!SeparationInv, NEW r \in Sep!Requests, Sep!RequestDies(r)
  PROVE  Sep!SeparationInv'
<1>1. Sep!TypeInv /\ received \in 0..SeparationRequests /\ failures' \in 0..MaxFailures
  BY FailuresStay, HandledHere DEF Sep!RequestDies, Sep!SeparationInv
<1>2. /\ handling' = [handling EXCEPT ![r] = Sep!NoRequest] /\ Sep!NoRequest.pc = "none"
      /\ received' \in 0..SeparationRequests
      /\ UNCHANGED <<Sep!tables, rec, cron, outside, Sep!history>>
  BY <1>1 DEF Sep!RequestDies, Sep!End, Sep!NoRequest
<1>3. QED
  BY <1>1, <1>2, RequestOnly

LEMMA BeginKeeps ==
  ASSUME Sep!Sound, Sep!SeparationInv, NEW q \in Sep!Handled, Sep!Begin(q),
         q.pc \in {"ensure", "enable", "add"} => q.to \in Sep!Serving,
         UNCHANGED <<Sep!tables, rec, cron, failures, outside, Sep!history>>
  PROVE  Sep!SeparationInv'
<1>1. received \in 0..SeparationRequests /\ failures \in 0..MaxFailures /\ SeparationRequests \in Nat
  BY DEF Sep!Sound, Sep!SeparationInv, Sep!TypeInv
<1>2. received + 1 \in Sep!Requests /\ received' \in 0..SeparationRequests
  BY <1>1 DEF Sep!Begin, Sep!Requests
<1>3. handling' = [handling EXCEPT ![received + 1] = q]
  BY DEF Sep!Begin
<1>4. failures' \in 0..MaxFailures
  BY <1>1
<1>5. QED
  BY <1>2, <1>3, <1>4, RequestOnly

LEMMA RequestIsHandled ==
  ASSUME Sep!TypeInv, NEW op \in Sep!OpKinds, NEW m \in Persons, NEW to \in Sep!Serving \cup Sep!Gone,
         NEW acc \in BOOLEAN, NEW grp \in BOOLEAN,
         NEW pc \in {"disable", "list", "remove", "verify", "ensure", "enable", "add", "leave", "commit"}
  PROVE  /\ Sep!Request(op, pc, m, to, acc, grp) \in Sep!Handled
         /\ Sep!Request(op, pc, m, to, acc, grp).pc = pc /\ Sep!Request(op, pc, m, to, acc, grp).to = to
<1>1. standing[m] \in Sep!Rows
  BY DEF Sep!TypeInv
<1>2. QED
  BY <1>1 DEF Sep!Request, Sep!Handled

LEMMA BeginOffboardKeeps ==
  ASSUME Sep!Sound, Sep!SeparationInv, NEW m \in Persons, Sep!BeginOffboard(m)
  PROVE  Sep!SeparationInv'
<1>1. PICK to \in Sep!Gone, acc \in BOOLEAN, grp \in BOOLEAN :
        Sep!Begin(Sep!Request("offboard", "disable", m, to, acc, grp))
  BY DEF Sep!BeginOffboard
<1>2. Sep!TypeInv /\ to \in Sep!Serving \cup Sep!Gone /\ "offboard" \in Sep!OpKinds
  BY DEF Sep!SeparationInv, Sep!OpKinds
<1>3. /\ Sep!Request("offboard", "disable", m, to, acc, grp) \in Sep!Handled
      /\ Sep!Request("offboard", "disable", m, to, acc, grp).pc = "disable"
  BY <1>2, RequestIsHandled
<1>4. UNCHANGED <<Sep!tables, rec, cron, failures, outside, Sep!history>>
  BY DEF Sep!BeginOffboard
<1>5. QED
  BY <1>1, <1>3, <1>4, BeginKeeps

LEMMA BeginReactivateKeeps ==
  ASSUME Sep!Sound, Sep!SeparationInv, NEW m \in Persons, Sep!BeginReactivate(m)
  PROVE  Sep!SeparationInv'
<1>1. PICK to \in {"active", "recruit"}, acc \in BOOLEAN, grp \in BOOLEAN :
        Sep!Begin(Sep!Request("reactivate", "ensure", m, to, acc, grp))
  BY DEF Sep!BeginReactivate
<1>2. Sep!TypeInv /\ to \in Sep!Serving /\ to \in Sep!Serving \cup Sep!Gone /\ "reactivate" \in Sep!OpKinds
  BY DEF Sep!SeparationInv, Sep!OpKinds, Sep!Serving
<1>3. /\ Sep!Request("reactivate", "ensure", m, to, acc, grp) \in Sep!Handled
      /\ Sep!Request("reactivate", "ensure", m, to, acc, grp).to = to
  BY <1>2, RequestIsHandled
<1>4. UNCHANGED <<Sep!tables, rec, cron, failures, outside, Sep!history>>
  BY DEF Sep!BeginReactivate
<1>5. QED
  BY <1>1, <1>2, <1>3, <1>4, BeginKeeps

LEMMA BeginLeaveKeeps ==
  ASSUME Sep!Sound, Sep!SeparationInv, NEW m \in Persons, Sep!BeginLeave(m)
  PROVE  Sep!SeparationInv'
<1>1. Sep!Begin(Sep!Request("leave", "leave", m, standing[m].status, TRUE, TRUE))
  BY DEF Sep!BeginLeave
<1>2. Sep!TypeInv /\ standing[m].status \in Sep!Serving \cup Sep!Gone /\ "leave" \in Sep!OpKinds
  BY DEF Sep!SeparationInv, Sep!OpKinds, Sep!TypeInv, Sep!Rows
<1>3. /\ Sep!Request("leave", "leave", m, standing[m].status, TRUE, TRUE) \in Sep!Handled
      /\ Sep!Request("leave", "leave", m, standing[m].status, TRUE, TRUE).pc = "leave"
  <2>1. standing[m] \in Sep!Rows
    BY <1>2 DEF Sep!TypeInv
  <2>2. QED
    BY <1>2, <2>1 DEF Sep!Request, Sep!Handled
<1>4. UNCHANGED <<Sep!tables, rec, cron, failures, outside, Sep!history>>
  BY DEF Sep!BeginLeave
<1>5. QED
  BY <1>1, <1>3, <1>4, BeginKeeps

\* A step that leaves the requests alone and changes one account.
LEMMA AccountOnly ==
  ASSUME Sep!SeparationInv, NEW m \in Persons, NEW a \in Sep!Accounts, account' = [account EXCEPT ![m] = a],
         a.exists \/ a = account[m],
         failures' \in 0..MaxFailures, outside' \in 0..MaxOutside,
         \/ regained' = regained \cup {m}
         \/ UNCHANGED regained /\ ~Sep!Visited(m) /\ ~Sep!Neutralised(m)
         \/ /\ UNCHANGED regained
            /\ a.groups \subseteq account[m].groups /\ (a.rooms => account[m].rooms)
            /\ (a.tokens => account[m].tokens) /\ a.exists = account[m].exists
            /\ a.enabled = account[m].enabled,
         rec' \in {Sep!IdleReconciler} \cup Sep!Reconciling,
         \/ UNCHANGED rec
         \/ /\ rec'.m = rec.m /\ rec'.was = rec.was
            /\ rec.pc \in {"remove", "revoke"} /\ rec'.pc \in {"remove", "revoke", "verify"},
         UNCHANGED <<standing, log, recruiterLoad, handling, cron, received, misread, absences,
                     returns, cut>>
  PROVE  Sep!SeparationInv'
<1>1. Sep!TypeInv /\ Sep!StateInv /\ Sep!ReturnInv
  BY DEF Sep!SeparationInv
<1>2. /\ account' \in [Persons -> Sep!Accounts]
      /\ account'[m] = a /\ \A n \in Persons \ {m} : account'[n] = account[n]
  BY <1>1, AccountChanges
<1>3. regained \subseteq regained' /\ regained' \subseteq Persons
  BY <1>1 DEF Sep!TypeInv
<1>4. Sep!TypeInv'
  BY <1>1, <1>2, <1>3 DEF Sep!TypeInv
<1>5. Sep!ReturnInv'
  BY <1>1, ReturnStays
<1>6. \A n \in Persons \ {m} : /\ Sep!Leftovers(n)' <=> Sep!Leftovers(n)
                               /\ Sep!Neutralised(n)' <=> Sep!Neutralised(n)
  BY <1>2 DEF Sep!Leftovers, Sep!Neutralised
<1>7. \/ m \in regained'
      \/ (Sep!Leftovers(m)' => Sep!Leftovers(m)) /\ (Sep!Neutralised(m) => Sep!Neutralised(m)')
      \/ ~Sep!Visited(m) /\ ~Sep!Neutralised(m)
  BY <1>2 DEF Sep!Leftovers, Sep!Neutralised
<1>8. ~account'[m].exists => ~Sep!Leftovers(m)'
  BY <1>1, <1>2 DEF Sep!Leftovers, Sep!StateInv
<1>9. \A n \in Persons : ~account'[n].exists => ~Sep!Leftovers(n)'
  BY <1>1, <1>2, <1>6, <1>8 DEF Sep!StateInv
<1>10. \A s \in Sep!Requests : handling'[s].pc \in {"ensure", "enable", "add"}
             => handling'[s].to \in Sep!Serving
  BY <1>1 DEF Sep!StateInv
<1>11. \A n \in Persons : standing'[n].status \in Sep!Gone =>
         Sep!Unresolved(n)' \/ (standing[n].status \in Sep!Gone /\ log'[n] = log[n])
  OBVIOUS
<1>12. QED
  BY <1>3, <1>4, <1>5, <1>6, <1>7, <1>9, <1>10, <1>11, AccessStays

LEMMA LoginKeeps ==
  ASSUME Sep!Sound, Sep!SeparationInv, NEW m \in Persons, Sep!Login(m)
  PROVE  Sep!SeparationInv'
<1> DEFINE a == [account[m] EXCEPT !.tokens = TRUE, !.rooms = TRUE]
<1>1. Sep!TypeInv /\ account[m] \in Sep!Accounts
  BY DEF Sep!SeparationInv, Sep!TypeInv
<1>2. a \in Sep!Accounts /\ a.exists
  BY <1>1 DEF Sep!Login, Sep!Accounts
<1>3. account' = [account EXCEPT ![m] = a]
  BY DEF Sep!Login
<1>4. /\ failures' \in 0..MaxFailures /\ outside' \in 0..MaxOutside
      /\ rec' \in {Sep!IdleReconciler} \cup Sep!Reconciling
  BY <1>1 DEF Sep!Login, Sep!TypeInv, Sep!Sound
<1>5. ~Sep!Neutralised(m)
  BY DEF Sep!Login, Sep!Neutralised
<1>6. \/ regained' = regained \cup {m}
      \/ UNCHANGED regained /\ ~Sep!Visited(m)
  BY DEF Sep!Login
<1>7. UNCHANGED <<standing, log, recruiterLoad, handling, rec, cron, received, misread, absences,
                  returns, cut>>
  BY DEF Sep!Login
<1> HIDE DEF a
<1>8. QED
  BY <1>2, <1>3, <1>4, <1>5, <1>6, <1>7, AccountOnly

LEMMA SyncRankKeeps ==
  ASSUME Sep!Sound, Sep!SeparationInv, NEW m \in Persons, Sep!SyncRank(m)
  PROVE  Sep!SeparationInv'
<1> DEFINE a == [account[m] EXCEPT !.groups = @ \cup {"Rank"}]
<1>1. Sep!TypeInv /\ account[m] \in Sep!Accounts
  BY DEF Sep!SeparationInv, Sep!TypeInv
<1>2. a \in Sep!Accounts /\ a.exists
  BY <1>1 DEF Sep!SyncRank, Sep!Accounts, Sep!Groups
<1>3. account' = [account EXCEPT ![m] = a]
  BY DEF Sep!SyncRank
<1>4. /\ failures' \in 0..MaxFailures /\ outside' \in 0..MaxOutside
      /\ rec' \in {Sep!IdleReconciler} \cup Sep!Reconciling
  BY <1>1 DEF Sep!SyncRank, Sep!TypeInv, Sep!Sound
<1>5. /\ regained' = regained \cup {m}
      /\ UNCHANGED <<standing, log, recruiterLoad, handling, rec, cron, received, misread, absences,
                     returns, cut>>
  BY DEF Sep!SyncRank
<1> HIDE DEF a
<1>6. QED
  BY <1>2, <1>3, <1>4, <1>5, AccountOnly

\* The three steps of the reconciler that take something away.
LEMMA OccRemovesKeeps ==
  ASSUME Sep!Sound, Sep!SeparationInv, Sep!OccRemoves
  PROVE  Sep!SeparationInv'
<1>1. /\ Sep!TypeInv /\ Sep!StateInv /\ rec \in Sep!Reconciling /\ rec.m \in Persons
      /\ account[rec.m] \in Sep!Accounts
  BY DEF Sep!SeparationInv, Sep!TypeInv, Sep!OccRemoves, Sep!IdleReconciler, Sep!Reconciling
<1>2. PICK g \in rec.left :
        /\ \/ Sep!NoFault /\ account' = [account EXCEPT ![rec.m].groups = @ \ {g}]
           \/ Sep!MayFail /\ UNCHANGED account
        /\ rec' = [rec EXCEPT !.left = @ \ {g}]
  BY DEF Sep!OccRemoves
<1> DEFINE a == [account[rec.m] EXCEPT !.groups = @ \ {g}]
<1>3. /\ a \in Sep!Accounts
      /\ a.groups \subseteq account[rec.m].groups /\ a.rooms = account[rec.m].rooms
      /\ a.tokens = account[rec.m].tokens /\ a.exists = account[rec.m].exists
      /\ a.enabled = account[rec.m].enabled
  BY <1>1 DEF Sep!Accounts
<1>4. a.exists \/ a = account[rec.m]
  <2>1. ~account[rec.m].exists => account[rec.m].groups = {}
    BY <1>1 DEF Sep!StateInv, Sep!Leftovers
  <2>2. account[rec.m].groups = {} => a = account[rec.m]
    BY <1>1 DEF Sep!Accounts
  <2>3. QED
    BY <1>3, <2>1, <2>2
<1>5. /\ rec' \in Sep!Reconciling /\ rec'.m = rec.m /\ rec'.was = rec.was /\ rec.pc = "remove"
      /\ rec'.pc = "remove"
  BY <1>1, <1>2 DEF Sep!OccRemoves, Sep!Reconciling
<1>6. failures' \in 0..MaxFailures /\ outside' \in 0..MaxOutside
  BY <1>1, <1>2, FailuresStay DEF Sep!OccRemoves, Sep!TypeInv
<1>7. UNCHANGED <<standing, log, recruiterLoad, handling, cron, received, misread, absences, returns,
                  cut, regained>>
  BY DEF Sep!OccRemoves, Sep!history
<1>8. \/ account' = [account EXCEPT ![rec.m] = a]
      \/ account' = [account EXCEPT ![rec.m] = account[rec.m]]
  BY <1>1, <1>2 DEF Sep!TypeInv
<1> HIDE DEF a
<1>9. CASE account' = [account EXCEPT ![rec.m] = a]
  BY <1>1, <1>3, <1>4, <1>5, <1>6, <1>7, <1>9, AccountOnly
<1>10. CASE account' = [account EXCEPT ![rec.m] = account[rec.m]]
  BY <1>1, <1>5, <1>6, <1>7, <1>10, AccountOnly
<1>11. QED
  BY <1>8, <1>9, <1>10

LEMMA EvictKeeps ==
  ASSUME Sep!Sound, Sep!SeparationInv, Sep!Evict
  PROVE  Sep!SeparationInv'
<1>1. /\ Sep!TypeInv /\ Sep!StateInv /\ rec \in Sep!Reconciling /\ rec.m \in Persons
      /\ account[rec.m] \in Sep!Accounts
  BY DEF Sep!SeparationInv, Sep!TypeInv, Sep!Evict, Sep!IdleReconciler, Sep!Reconciling
<1> DEFINE a == [account[rec.m] EXCEPT !.rooms = FALSE]
<1>2. /\ a \in Sep!Accounts
      /\ a.groups = account[rec.m].groups /\ ~a.rooms
      /\ a.tokens = account[rec.m].tokens /\ a.exists = account[rec.m].exists
      /\ a.enabled = account[rec.m].enabled
  BY <1>1 DEF Sep!Accounts
<1>3. a.exists \/ a = account[rec.m]
  <2>1. ~account[rec.m].exists => ~account[rec.m].rooms
    BY <1>1 DEF Sep!StateInv, Sep!Leftovers
  <2>2. ~account[rec.m].rooms => a = account[rec.m]
    BY <1>1 DEF Sep!Accounts
  <2>3. QED
    BY <1>2, <2>1, <2>2
<1>4. /\ rec' \in Sep!Reconciling /\ rec'.m = rec.m /\ rec'.was = rec.was /\ rec.pc = "remove"
      /\ rec'.pc = "revoke"
  BY <1>1 DEF Sep!Evict, Sep!Reconciling
<1>5. failures' \in 0..MaxFailures /\ outside' \in 0..MaxOutside
  BY <1>1, FailuresStay DEF Sep!Evict, Sep!TypeInv
<1>6. UNCHANGED <<standing, log, recruiterLoad, handling, cron, received, misread, absences, returns,
                  cut, regained>>
  BY DEF Sep!Evict, Sep!history
<1>7. \/ account' = [account EXCEPT ![rec.m] = a]
      \/ account' = [account EXCEPT ![rec.m] = account[rec.m]]
  BY <1>1 DEF Sep!TypeInv, Sep!Evict
<1> HIDE DEF a
<1>8. CASE account' = [account EXCEPT ![rec.m] = a]
  BY <1>1, <1>2, <1>3, <1>4, <1>5, <1>6, <1>8, AccountOnly
<1>9. CASE account' = [account EXCEPT ![rec.m] = account[rec.m]]
  BY <1>1, <1>4, <1>5, <1>6, <1>9, AccountOnly
<1>10. QED
  BY <1>7, <1>8, <1>9

LEMMA RevokeKeeps ==
  ASSUME Sep!Sound, Sep!SeparationInv, Sep!Revoke
  PROVE  Sep!SeparationInv'
<1>1. /\ Sep!TypeInv /\ Sep!StateInv /\ rec \in Sep!Reconciling /\ rec.m \in Persons
      /\ account[rec.m] \in Sep!Accounts
  BY DEF Sep!SeparationInv, Sep!TypeInv, Sep!Revoke, Sep!IdleReconciler, Sep!Reconciling
<1> DEFINE a == [account[rec.m] EXCEPT !.tokens = FALSE]
<1>2. /\ a \in Sep!Accounts
      /\ a.groups = account[rec.m].groups /\ a.rooms = account[rec.m].rooms
      /\ ~a.tokens /\ a.exists = account[rec.m].exists
      /\ a.enabled = account[rec.m].enabled
  BY <1>1 DEF Sep!Accounts
<1>3. a.exists \/ a = account[rec.m]
  <2>1. ~account[rec.m].exists => ~account[rec.m].tokens
    BY <1>1 DEF Sep!StateInv, Sep!Leftovers
  <2>2. ~account[rec.m].tokens => a = account[rec.m]
    BY <1>1 DEF Sep!Accounts
  <2>3. QED
    BY <1>2, <2>1, <2>2
<1>4. /\ rec' \in Sep!Reconciling /\ rec'.m = rec.m /\ rec'.was = rec.was /\ rec.pc = "revoke"
      /\ rec'.pc = "verify"
  BY <1>1 DEF Sep!Revoke, Sep!Reconciling
<1>5. UNCHANGED <<standing, log, recruiterLoad, handling, cron, received, failures, outside, misread,
                  absences, returns, cut, regained>>
  BY DEF Sep!Revoke, Sep!history, Sep!bounds
<1>6. failures' \in 0..MaxFailures /\ outside' \in 0..MaxOutside
  BY <1>1, <1>5 DEF Sep!TypeInv
<1>7. \/ account' = [account EXCEPT ![rec.m] = a]
      \/ account' = [account EXCEPT ![rec.m] = account[rec.m]]
  BY <1>1 DEF Sep!TypeInv, Sep!Revoke
<1> HIDE DEF a
<1>8. CASE account' = [account EXCEPT ![rec.m] = a]
  BY <1>1, <1>2, <1>3, <1>4, <1>5, <1>6, <1>8, AccountOnly
<1>9. CASE account' = [account EXCEPT ![rec.m] = account[rec.m]]
  BY <1>1, <1>4, <1>5, <1>6, <1>9, AccountOnly
<1>10. QED
  BY <1>7, <1>8, <1>9

\* A step after which roster and requests are as they were and no account changes.
LEMMA NothingTaken ==
  ASSUME Sep!SeparationInv, Sep!TypeInv', Sep!VisitInv', Sep!HiddenInv', Sep!ReturnInv',
         \A m \in Persons : standing'[m].status = standing[m].status /\ (log[m] # {} => log'[m] # {}),
         UNCHANGED <<handling, account>>
  PROVE  Sep!SeparationInv'
<1>1. \A m \in Persons : Sep!Leftovers(m)' <=> Sep!Leftovers(m)
  BY DEF Sep!Leftovers
<1>2. Sep!StateInv'
  BY <1>1 DEF Sep!SeparationInv, Sep!StateInv
<1>3. QED
  BY <1>2 DEF Sep!SeparationInv

\* Who is shown stays so, when their account, row and log do not change and nobody
\* forgets what they regained.
LEMMA ShownStays ==
  ASSUME NEW m \in Persons, Sep!Shown(m), standing'[m].status = standing[m].status, log'[m] = log[m],
         account'[m] = account[m],
         m \in regained \cup misread => m \in regained' \cup misread'
  PROVE  Sep!Shown(m)'
BY DEF Sep!Shown, Sep!Unresolved, Sep!Leftovers, Sep!Neutralised

LEMMA RecStartsKeeps ==
  ASSUME Sep!Sound, Sep!SeparationInv, Sep!RecStarts
  PROVE  Sep!SeparationInv'
<1>1. Sep!TypeInv /\ Sep!HiddenInv /\ Sep!ReturnInv
  BY DEF Sep!SeparationInv
<1>2. /\ UNCHANGED <<standing, account, log, recruiterLoad, handling, cron, received, failures, outside>>
      /\ UNCHANGED <<regained, misread, absences, returns, cut>>
  BY DEF Sep!RecStarts, Sep!tables, Sep!bounds, Sep!history
<1>3. rec' \in Sep!Reconciling /\ rec'.pc = "next"
  BY DEF Sep!RecStarts, Sep!Reconciling, Sep!GoneMembers, Sep!NoFlags, Sep!Flags
<1>4. Sep!TypeInv'
  BY <1>1, <1>2, <1>3 DEF Sep!TypeInv
<1>5. Sep!ReturnInv'
  BY <1>1, <1>2, ReturnStays
<1>6. Sep!VisitInv'
  BY <1>3 DEF Sep!VisitInv
<1>7. \A m \in Persons : Sep!Shown(m)
  BY <1>1 DEF Sep!HiddenInv, Sep!Visited, Sep!RecStarts
<1>8. \A m \in Persons : Sep!Shown(m)'
  BY <1>2, <1>7, ShownStays
<1>9. Sep!HiddenInv'
  BY <1>8 DEF Sep!HiddenInv
<1>10. QED
  BY <1>2, <1>4, <1>5, <1>6, <1>9, NothingTaken

LEMMA LookKeeps ==
  ASSUME Sep!Sound, Sep!SeparationInv, NEW m \in Persons, Sep!Look(m)
  PROVE  Sep!SeparationInv'
<1>1. /\ Sep!TypeInv /\ Sep!HiddenInv /\ Sep!ReturnInv /\ rec \in Sep!Reconciling
      /\ account[m] \in Sep!Accounts
  BY DEF Sep!SeparationInv, Sep!TypeInv, Sep!Look, Sep!IdleReconciler
<1>2. UNCHANGED <<standing, account, log, recruiterLoad, handling, cron, received, outside, absences,
                  returns, cut>>
  BY DEF Sep!Look, Sep!tables
<1>3. failures' \in 0..MaxFailures
  BY <1>1, FailuresStay DEF Sep!Look
<1>4. /\ rec' \in Sep!Reconciling /\ rec'.m = m /\ rec'.was = (m \in regained)
      /\ rec'.pc \in {"mark", "remove"}
  <2> DEFINE With(left, pc) ==
        [rec EXCEPT !.todo = @ \ {m}, !.m = m, !.left = left, !.rooms = account[m].rooms,
           !.tokens = account[m].tokens, !.was = m \in regained, !.pc = pc]
  <2>1. PICK left \in SUBSET Sep!Groups, pc \in {"mark", "remove"} : rec' = With(left, pc)
    BY <1>1 DEF Sep!Look, Sep!Accounts
  <2>2. account[m].rooms \in BOOLEAN /\ account[m].tokens \in BOOLEAN /\ (m \in regained) \in BOOLEAN
    BY <1>1 DEF Sep!Accounts
  <2>3. With(left, pc) \in Sep!Reconciling
    BY <1>1, <2>2 DEF Sep!Reconciling
  <2>4. With(left, pc).m = m /\ With(left, pc).was = (m \in regained) /\ With(left, pc).pc = pc
    BY <1>1 DEF Sep!Reconciling
  <2>5. QED
    BY <2>1, <2>3, <2>4
<1>5. \/ misread' = misread /\ rec'.pc = IF Sep!Leftovers(m) THEN "remove" ELSE "mark"
      \/ misread' = misread \cup {m}
  BY <1>1 DEF Sep!Look, Sep!Reconciling
<1>6. /\ regained' = IF Sep!Leftovers(m) THEN regained ELSE regained \ {m}
      /\ regained' \subseteq Persons /\ misread' \subseteq Persons
  BY <1>1, <1>5 DEF Sep!Look, Sep!TypeInv
<1>7. Sep!TypeInv'
  BY <1>1, <1>2, <1>3, <1>4, <1>6 DEF Sep!TypeInv
<1>8. Sep!ReturnInv'
  BY <1>1, <1>2, ReturnStays
<1>9. \A n \in Persons : Sep!Shown(n)
  BY <1>1 DEF Sep!HiddenInv, Sep!Visited, Sep!Look
<1>10. Sep!HiddenInv'
  <2> SUFFICES ASSUME NEW n \in Persons, ~Sep!Visited(n)' PROVE Sep!Shown(n)'
    BY DEF Sep!HiddenInv
  <2>1. n # m
    BY <1>4 DEF Sep!Visited
  <2>2. QED
    BY <1>2, <1>5, <1>6, <1>9, <2>1, ShownStays
<1>11. Sep!VisitInv'
  <2>1. rec'.pc = "mark" => m \in misread' \/ ~Sep!Leftovers(m)
    BY <1>5
  <2>2. rec'.pc = "mark" => Sep!Clean(m)'
    BY <1>2, <2>1 DEF Sep!Clean, Sep!Leftovers
  <2>3. m \notin regained => Sep!Shown(m)'
    BY <1>2, <1>5, <1>6, <1>9, ShownStays
  <2>4. rec'.pc = "remove" =>
          (m \notin regained /\ m \notin misread' /\ standing[m].status \in Sep!Gone => Sep!Unresolved(m))
    BY <1>5, <1>9 DEF Sep!Shown
  <2>5. Sep!Unresolved(m) => Sep!Unresolved(m)'
    BY <1>2 DEF Sep!Unresolved
  <2>6. QED
    BY <1>2, <1>4, <2>2, <2>3, <2>4, <2>5 DEF Sep!VisitInv
<1>12. QED
  BY <1>2, <1>7, <1>8, <1>10, <1>11, NothingTaken

\* The flags of every row of a member are set, and the reconciler goes on.
LEMMA RecordKeeps ==
  ASSUME Sep!Sound, Sep!SeparationInv, rec \in Sep!Reconciling, rec.pc \in {"mark", "record"},
         NEW flags \in Sep!Flags, Sep!Record(rec.m, flags), Sep!Proceed, failures' \in 0..MaxFailures,
         misread' \in {misread, misread \cup {rec.m}},
         Sep!AllSet(flags) => \/ rec.m \in regained \cup misread'
                              \/ (~Sep!Leftovers(rec.m) /\ Sep!Neutralised(rec.m)),
         UNCHANGED <<standing, account, recruiterLoad, handling, cron, received, outside, regained,
                     absences, returns, cut>>
  PROVE  Sep!SeparationInv'
<1>1. Sep!TypeInv /\ Sep!StateInv /\ Sep!HiddenInv /\ Sep!ReturnInv
  BY DEF Sep!SeparationInv
<1>2. PICK m \in Persons : m = rec.m
  BY DEF Sep!Reconciling
<1>3. rec' \in {Sep!IdleReconciler} \cup Sep!Reconciling /\ rec'.pc \in {"idle", "next"}
  BY DEF Sep!Proceed, Sep!IdleReconciler, Sep!Reconciling
<1>4. /\ log'[m] = {flags : f \in log[m]} /\ log' \in [Persons -> SUBSET Sep!Flags]
      /\ \A n \in Persons \ {m} : log'[n] = log[n]
  BY <1>1, <1>2 DEF Sep!Record, Sep!TypeInv
<1>5. misread' \subseteq Persons /\ misread \subseteq misread'
  BY <1>1, <1>2 DEF Sep!TypeInv
<1>6. Sep!TypeInv'
  BY <1>1, <1>3, <1>4, <1>5 DEF Sep!TypeInv
<1>7. Sep!ReturnInv'
  BY <1>1, ReturnStays
<1>8. Sep!VisitInv'
  BY <1>3 DEF Sep!VisitInv
<1>9. \A n \in Persons \ {m} : Sep!Shown(n)'
  <2> SUFFICES ASSUME NEW n \in Persons \ {m} PROVE Sep!Shown(n)'
    OBVIOUS
  <2>1. Sep!Shown(n)
    BY <1>1, <1>2 DEF Sep!HiddenInv, Sep!Visited
  <2>2. QED
    BY <1>4, <1>5, <2>1, ShownStays
<1>10. Sep!Shown(m)'
  <2>1. standing[m].status \in Sep!Gone => log[m] # {}
    BY <1>1 DEF Sep!StateInv
  <2>2. CASE Sep!AllSet(flags)
    <3>1. m \in regained \cup misread' \/ (~Sep!Leftovers(m) /\ Sep!Neutralised(m))
      BY <1>2, <2>2
    <3>2. m \in regained' \cup misread' \/ (~Sep!Leftovers(m) /\ Sep!Neutralised(m))'
      BY <3>1 DEF Sep!Leftovers, Sep!Neutralised
    <3>3. QED
      BY <3>2 DEF Sep!Shown
  <2>3. CASE ~Sep!AllSet(flags)
    <3>1. standing[m].status \in Sep!Gone => flags \in log'[m]
      BY <1>4, <2>1
    <3>2. standing'[m].status \in Sep!Gone => Sep!Unresolved(m)'
      BY <2>3, <3>1 DEF Sep!Unresolved
    <3>3. QED
      BY <3>2 DEF Sep!Shown
  <2>4. QED
    BY <2>2, <2>3
<1>11. Sep!HiddenInv'
  BY <1>9, <1>10 DEF Sep!HiddenInv
<1>12. \A n \in Persons : log[n] # {} => log'[n] # {}
  BY <1>4
<1>13. QED
  BY <1>6, <1>7, <1>8, <1>11, <1>12, NothingTaken

LEMMA MarkCleanKeeps ==
  ASSUME Sep!Sound, Sep!SeparationInv, Sep!MarkClean
  PROVE  Sep!SeparationInv'
<1>1. Sep!TypeInv /\ Sep!VisitInv /\ rec \in Sep!Reconciling /\ rec.pc = "mark" /\ Sep!Clean(rec.m)
  BY DEF Sep!SeparationInv, Sep!TypeInv, Sep!MarkClean, Sep!IdleReconciler, Sep!VisitInv
<1>2. failures' \in 0..MaxFailures
  BY <1>1, FailuresStay DEF Sep!MarkClean
<1> DEFINE f == [disabled |-> Sep!Neutralised(rec.m), groups |-> TRUE, talk |-> TRUE, tokens |-> TRUE]
           g == [disabled |-> TRUE, groups |-> TRUE, talk |-> TRUE, tokens |-> TRUE]
<1>3. Sep!Neutralised(rec.m) \in BOOLEAN
  BY DEF Sep!Neutralised
<1>4. f \in Sep!Flags /\ g \in Sep!Flags /\ (Sep!AllSet(f) => Sep!Neutralised(rec.m))
  BY <1>3 DEF Sep!Flags, Sep!AllSet
<1>5. /\ Sep!Proceed
      /\ UNCHANGED <<standing, account, recruiterLoad, handling, cron, received, outside, regained,
                     absences, returns, cut>>
  BY DEF Sep!MarkClean
<1>6. \/ misread' = misread /\ Sep!Record(rec.m, f)
      \/ misread' = misread \cup {rec.m} /\ Sep!Record(rec.m, g)
  BY DEF Sep!MarkClean
<1> HIDE DEF f, g
<1>7. CASE misread' = misread /\ Sep!Record(rec.m, f)
  <2>1. Sep!AllSet(f) => rec.m \in regained \cup misread' \/ (~Sep!Leftovers(rec.m) /\ Sep!Neutralised(rec.m))
    BY <1>1, <1>4, <1>7 DEF Sep!Clean
  <2>2. QED
    BY <1>1, <1>2, <1>4, <1>5, <1>7, <2>1, RecordKeeps
<1>8. CASE misread' = misread \cup {rec.m} /\ Sep!Record(rec.m, g)
  BY <1>1, <1>2, <1>4, <1>5, <1>8, RecordKeeps
<1>9. QED
  BY <1>6, <1>7, <1>8

LEMMA RecordResultKeeps ==
  ASSUME Sep!Sound, Sep!SeparationInv, Sep!RecordResult
  PROVE  Sep!SeparationInv'
<1>1. Sep!TypeInv /\ Sep!VisitInv /\ rec \in Sep!Reconciling /\ rec.pc = "record" /\ rec.flags \in Sep!Flags
  BY DEF Sep!SeparationInv, Sep!TypeInv, Sep!RecordResult, Sep!IdleReconciler, Sep!Reconciling
<1>2. UNCHANGED <<standing, account, recruiterLoad, handling, cron, received, failures, outside,
                  regained, misread, absences, returns, cut>>
  BY DEF Sep!RecordResult, Sep!bounds, Sep!history
<1>3. Sep!AllSet(rec.flags) => \/ rec.m \in regained \cup misread'
                               \/ (~Sep!Leftovers(rec.m) /\ Sep!Neutralised(rec.m))
  BY <1>1, <1>2 DEF Sep!VisitInv
<1>4. failures' \in 0..MaxFailures /\ misread' \in {misread, misread \cup {rec.m}}
  BY <1>1, <1>2 DEF Sep!TypeInv
<1>5. Sep!Record(rec.m, rec.flags) /\ Sep!Proceed
  BY DEF Sep!RecordResult
<1>6. QED
  BY <1>1, <1>2, <1>3, <1>4, <1>5, RecordKeeps

LEMMA VerifyKeeps ==
  ASSUME Sep!Sound, Sep!SeparationInv, Sep!Verify
  PROVE  Sep!SeparationInv'
<1>1. /\ Sep!TypeInv /\ Sep!StateInv /\ Sep!VisitInv /\ Sep!HiddenInv /\ Sep!ReturnInv
      /\ rec \in Sep!Reconciling /\ rec.pc = "verify"
  BY DEF Sep!SeparationInv, Sep!TypeInv, Sep!Verify, Sep!IdleReconciler
<1>2. PICK m \in Persons : m = rec.m
  BY <1>1 DEF Sep!Reconciling
<1>3. UNCHANGED <<standing, account, log, recruiterLoad, handling, cron, received, outside, absences,
                  returns, cut>>
  BY DEF Sep!Verify, Sep!tables
<1>4. failures' \in 0..MaxFailures
  BY <1>1, FailuresStay DEF Sep!Verify
<1> DEFINE f == [disabled |-> Sep!Neutralised(m),
                 groups |-> ~account[m].exists \/ account[m].groups = {},
                 talk |-> ~account[m].rooms, tokens |-> ~account[m].tokens]
           g == [disabled |-> TRUE, groups |-> TRUE, talk |-> ~account[m].rooms,
                 tokens |-> ~account[m].tokens]
<1>5. Sep!Neutralised(m) \in BOOLEAN /\ account[m] \in Sep!Accounts
  BY <1>1 DEF Sep!Neutralised, Sep!TypeInv
<1>6. f \in Sep!Flags /\ g \in Sep!Flags /\ (Sep!AllSet(f) => ~Sep!Leftovers(m) /\ Sep!Neutralised(m))
  BY <1>1, <1>5 DEF Sep!Flags, Sep!AllSet, Sep!Leftovers, Sep!StateInv, Sep!Accounts
<1>7. \/ misread' = misread /\ rec' = [rec EXCEPT !.pc = "record", !.flags = f]
      \/ misread' = misread \cup {m} /\ rec' = [rec EXCEPT !.pc = "record", !.flags = g]
  BY <1>2 DEF Sep!Verify
<1> HIDE DEF f, g
<1>8. /\ rec' \in Sep!Reconciling /\ rec'.m = m /\ rec'.was = rec.was /\ rec'.pc = "record"
      /\ misread' = misread \cup {m} \/ rec'.flags = f
  BY <1>1, <1>2, <1>6, <1>7 DEF Sep!Reconciling
<1>9. /\ regained' = regained \ {m} /\ regained' \subseteq Persons
      /\ misread' \subseteq Persons /\ misread \subseteq misread'
  BY <1>1, <1>2, <1>7 DEF Sep!Verify, Sep!TypeInv
<1>10. Sep!TypeInv'
  BY <1>1, <1>3, <1>4, <1>8, <1>9 DEF Sep!TypeInv
<1>11. Sep!ReturnInv'
  BY <1>1, <1>3, ReturnStays
<1>12. Sep!HiddenInv'
  <2> SUFFICES ASSUME NEW n \in Persons, ~Sep!Visited(n)' PROVE Sep!Shown(n)'
    BY DEF Sep!HiddenInv
  <2>1. n # m
    BY <1>8 DEF Sep!Visited
  <2>2. Sep!Shown(n)
    BY <1>1, <1>2, <2>1 DEF Sep!HiddenInv, Sep!Visited
  <2>3. QED
    BY <1>3, <1>9, <2>1, <2>2, ShownStays
<1>13. Sep!VisitInv'
  <2>1. ~rec.was /\ m \notin misread' /\ standing[m].status \in Sep!Gone => Sep!Unresolved(m)'
    <3>1. ~rec.was /\ m \notin misread /\ standing[m].status \in Sep!Gone => Sep!Unresolved(m)
      BY <1>1, <1>2 DEF Sep!VisitInv
    <3>2. Sep!Unresolved(m) => Sep!Unresolved(m)'
      BY <1>3 DEF Sep!Unresolved
    <3>3. QED
      BY <1>9, <3>1, <3>2
  <2>2. m \in misread' \/ (Sep!AllSet(rec'.flags) => ~Sep!Leftovers(m) /\ Sep!Neutralised(m))
    BY <1>6, <1>8
  <2>3. (~Sep!Leftovers(m) /\ Sep!Neutralised(m)) => (~Sep!Leftovers(m) /\ Sep!Neutralised(m))'
    BY <1>3 DEF Sep!Leftovers, Sep!Neutralised
  <2>4. QED
    BY <1>3, <1>8, <2>1, <2>2, <2>3 DEF Sep!VisitInv
<1>14. QED
  BY <1>3, <1>10, <1>11, <1>12, <1>13, NothingTaken

LEMMA VisitFailsKeeps ==
  ASSUME Sep!Sound, Sep!SeparationInv, Sep!VisitFails
  PROVE  Sep!SeparationInv'
<1>1. Sep!TypeInv /\ Sep!VisitInv /\ Sep!HiddenInv /\ Sep!ReturnInv /\ rec \in Sep!Reconciling
  BY DEF Sep!SeparationInv, Sep!TypeInv, Sep!VisitFails, Sep!IdleReconciler
<1>2. PICK m \in Persons : m = rec.m
  BY <1>1 DEF Sep!Reconciling
<1>3. UNCHANGED <<standing, account, log, recruiterLoad, handling, cron, received, outside, misread,
                  absences, returns, cut>>
  BY DEF Sep!VisitFails, Sep!tables
<1>4. failures' \in 0..MaxFailures
  BY <1>1, FailuresStay DEF Sep!VisitFails
<1>5. rec' \in {Sep!IdleReconciler} \cup Sep!Reconciling /\ rec'.pc \in {"idle", "next"}
  BY <1>1 DEF Sep!VisitFails, Sep!Proceed, Sep!IdleReconciler, Sep!Reconciling
<1>6. /\ regained' = IF rec.was THEN regained \cup {m} ELSE regained
      /\ regained' \subseteq Persons
  BY <1>1, <1>2 DEF Sep!VisitFails, Sep!TypeInv
<1>7. Sep!TypeInv'
  BY <1>1, <1>3, <1>4, <1>5, <1>6 DEF Sep!TypeInv
<1>8. Sep!ReturnInv'
  BY <1>1, <1>3, ReturnStays
<1>9. Sep!VisitInv'
  BY <1>5 DEF Sep!VisitInv
<1>10. \A n \in Persons \ {m} : Sep!Shown(n)'
  <2> SUFFICES ASSUME NEW n \in Persons \ {m} PROVE Sep!Shown(n)'
    OBVIOUS
  <2>1. Sep!Shown(n)
    BY <1>1, <1>2 DEF Sep!HiddenInv, Sep!Visited
  <2>2. QED
    BY <1>3, <1>6, <2>1, ShownStays
<1>11. Sep!Shown(m)'
  <2>1. CASE rec.was
    BY <1>6, <2>1 DEF Sep!Shown
  <2>2. CASE ~rec.was
    <3>1. Sep!Shown(m)
      BY <1>1, <1>2, <2>2 DEF Sep!VisitInv, Sep!Shown, Sep!VisitFails
    <3>2. QED
      BY <1>3, <1>6, <2>2, <3>1, ShownStays
  <2>3. QED
    BY <2>1, <2>2
<1>12. Sep!HiddenInv'
  BY <1>10, <1>11 DEF Sep!HiddenInv
<1>13. QED
  BY <1>3, <1>7, <1>8, <1>9, <1>12, NothingTaken

\* The steps of the runner change who is on leave, and nothing else that is shown.
LEMMA LeavesOnly ==
  ASSUME Sep!SeparationInv, Sep!TypeInv', Sep!ReturnInv',
         \A m \in Persons : standing'[m].status = standing[m].status,
         UNCHANGED <<account, log, handling, rec, regained, misread>>
  PROVE  Sep!SeparationInv'
<1>1. Sep!TypeInv /\ Sep!StateInv
  BY DEF Sep!SeparationInv
<1>2. \A m \in Persons : /\ Sep!Leftovers(m)' <=> Sep!Leftovers(m)
                         /\ Sep!Neutralised(m)' <=> Sep!Neutralised(m)
  BY DEF Sep!Leftovers, Sep!Neutralised
<1>3. \A m \in Persons : ~account'[m].exists => ~Sep!Leftovers(m)'
  BY <1>1, <1>2 DEF Sep!StateInv
<1>4. \A s \in Sep!Requests : handling'[s].pc \in {"ensure", "enable", "add"}
             => handling'[s].to \in Sep!Serving
  BY <1>1 DEF Sep!StateInv
<1>5. QED
  BY <1>2, <1>3, <1>4, AccessStays

LEMMA LeaveRunsOutKeeps ==
  ASSUME Sep!Sound, Sep!SeparationInv, NEW m \in Persons, Sep!LeaveRunsOut(m)
  PROVE  Sep!SeparationInv'
<1>1. Sep!TypeInv /\ Sep!ReturnInv /\ standing[m].leave = "running"
  BY DEF Sep!SeparationInv, Sep!LeaveRunsOut
<1>2. standing' = [standing EXCEPT ![m].leave = "over"]
  BY DEF Sep!LeaveRunsOut
<1>3. UNCHANGED <<account, log, recruiterLoad, handling, rec, cron, received, failures, outside,
                  regained, misread, absences, returns, cut>>
  BY DEF Sep!LeaveRunsOut, Sep!bounds, Sep!history
<1>4. standing' \in [Persons -> Sep!Rows]
  BY <1>1, <1>2 DEF Sep!TypeInv, Sep!Rows
<1>5. Sep!TypeInv'
  BY <1>1, <1>3, <1>4 DEF Sep!TypeInv
<1>6. \A n \in Persons : /\ standing'[n].status = standing[n].status
                         /\ standing'[n].leave = "none" <=> standing[n].leave = "none"
  BY <1>1, <1>2 DEF Sep!TypeInv, Sep!Rows
<1>7. Sep!ReturnInv'
  BY <1>1, <1>3, <1>6, ReturnStays
<1>8. QED
  BY <1>3, <1>5, <1>6, <1>7, LeavesOnly

LEMMA RunnerStartsKeeps ==
  ASSUME Sep!Sound, Sep!SeparationInv, Sep!RunnerStarts
  PROVE  Sep!SeparationInv'
<1>1. Sep!TypeInv /\ Sep!ReturnInv /\ cron.pc = "idle" /\ cron.todo = {} /\ cron.done = {}
  BY DEF Sep!SeparationInv, Sep!ReturnInv, Sep!RunnerStarts
<1>2. UNCHANGED <<standing, account, log, recruiterLoad, handling, rec, received, failures, outside,
                  regained, misread, absences, returns, cut>>
  BY DEF Sep!RunnerStarts, Sep!tables, Sep!bounds, Sep!history
<1>3. /\ cron' \in [pc : {"idle", "work"}, todo : SUBSET Persons, done : SUBSET Persons]
      /\ cron'.pc = "work" /\ cron'.done = {} /\ \A m \in cron'.todo : standing[m].leave = "over"
  BY DEF Sep!RunnerStarts
<1>4. Sep!TypeInv'
  BY <1>1, <1>2, <1>3 DEF Sep!TypeInv
<1>5. \A m \in Persons : Sep!Owed(m)' = Sep!Owed(m)
  BY <1>1, <1>2, <1>3 DEF Sep!Owed
<1>6. Sep!ReturnInv'
  BY <1>1, <1>2, <1>3, <1>5 DEF Sep!ReturnInv
<1>7. QED
  BY <1>2, <1>4, <1>6, LeavesOnly

LEMMA ReturnMemberKeeps ==
  ASSUME Sep!Sound, Sep!SeparationInv, NEW m \in Persons, Sep!ReturnMember(m)
  PROVE  Sep!SeparationInv'
<1>1. Sep!TypeInv /\ Sep!ReturnInv /\ cron.pc = "work" /\ m \in cron.todo
  BY DEF Sep!SeparationInv, Sep!ReturnMember
<1>2. UNCHANGED <<standing, account, log, recruiterLoad, handling, rec, received, outside, regained,
                  misread, absences, cut>>
  BY DEF Sep!ReturnMember, Sep!tables
<1>3. failures' \in 0..MaxFailures
  BY <1>1, FailuresStay DEF Sep!ReturnMember
<1>4. /\ cron' \in [pc : {"idle", "work"}, todo : SUBSET Persons, done : SUBSET Persons]
      /\ cron'.pc = "work" /\ cron'.todo = cron.todo \ {m} /\ cron'.done = cron.done \cup {m}
  BY <1>1 DEF Sep!ReturnMember, Sep!TypeInv
<1>5. returns' \in [Persons -> Nat] /\ \A n \in Persons \ {m} : returns'[n] = returns[n]
  BY <1>1 DEF Sep!ReturnMember, Sep!TypeInv
<1>6. returns'[m] <= returns[m] + 1 /\ returns[m] \in Nat /\ absences[m] \in Nat /\ returns'[m] \in Nat
  BY <1>1, <1>5 DEF Sep!ReturnMember, Sep!TypeInv
<1>7. Sep!TypeInv'
  BY <1>1, <1>2, <1>3, <1>4, <1>5 DEF Sep!TypeInv
<1>8. Sep!Owed(m) = 1 /\ Sep!Owed(m)' = 0
  BY <1>1, <1>2, <1>4 DEF Sep!Owed, Sep!ReturnInv
<1>9. \A n \in Persons \ {m} : Sep!Owed(n)' = Sep!Owed(n)
  BY <1>2, <1>4 DEF Sep!Owed
<1>10. \A n \in Persons \ cut : returns'[n] + Sep!Owed(n)' <= absences[n]
  <2>1. \A n \in Persons \ cut : returns[n] + Sep!Owed(n) <= absences[n]
    BY <1>1 DEF Sep!ReturnInv
  <2>2. m \notin cut => returns'[m] + Sep!Owed(m)' <= absences[m]
    BY <1>6, <1>8, <2>1
  <2>3. QED
    BY <1>5, <1>9, <2>1, <2>2
<1>11. Sep!ReturnInv'
  BY <1>1, <1>2, <1>4, <1>10 DEF Sep!ReturnInv
<1>12. QED
  BY <1>2, <1>7, <1>11, LeavesOnly

LEMMA RunnerCommitsKeeps ==
  ASSUME Sep!Sound, Sep!SeparationInv, Sep!RunnerCommits
  PROVE  Sep!SeparationInv'
<1>1. Sep!TypeInv /\ Sep!ReturnInv /\ cron.todo = {}
  BY DEF Sep!SeparationInv, Sep!RunnerCommits
<1>2. UNCHANGED <<account, log, recruiterLoad, handling, rec, received, failures, outside, regained,
                  misread, absences, returns, cut>>
  BY DEF Sep!RunnerCommits, Sep!bounds, Sep!history
<1>3. cron' = Sep!IdleRunner /\ cron'.pc = "idle" /\ cron'.todo = {} /\ cron'.done = {}
  BY DEF Sep!RunnerCommits, Sep!IdleRunner
<1>4. /\ standing' \in [Persons -> Sep!Rows]
      /\ \A m \in Persons : standing'[m] = IF m \in cron.done THEN [standing[m] EXCEPT !.leave = "none"]
                                           ELSE standing[m]
  BY <1>1 DEF Sep!RunnerCommits, Sep!TypeInv, Sep!Rows
<1>5. \A m \in Persons : /\ standing'[m].status = standing[m].status
                         /\ m \in cron.done => standing'[m].leave = "none"
  BY <1>1, <1>4 DEF Sep!TypeInv, Sep!Rows
<1>6. cron' \in [pc : {"idle", "work"}, todo : SUBSET Persons, done : SUBSET Persons]
  BY <1>3 DEF Sep!IdleRunner
<1>7. Sep!TypeInv'
  BY <1>1, <1>2, <1>4, <1>6 DEF Sep!TypeInv
<1>8. \A m \in Persons : Sep!Owed(m)' = Sep!Owed(m)
  BY <1>3, <1>4, <1>5 DEF Sep!Owed
<1>9. Sep!ReturnInv'
  BY <1>1, <1>2, <1>3, <1>8 DEF Sep!ReturnInv
<1>10. QED
  BY <1>2, <1>5, <1>7, <1>9, LeavesOnly

LEMMA RunnerDiesKeeps ==
  ASSUME Sep!Sound, Sep!SeparationInv, Sep!RunnerDies
  PROVE  Sep!SeparationInv'
<1>1. Sep!TypeInv /\ Sep!ReturnInv /\ cron.done \subseteq Persons
  BY DEF Sep!SeparationInv, Sep!TypeInv
<1>2. UNCHANGED <<standing, account, log, recruiterLoad, handling, rec, received, outside, regained,
                  misread, absences, returns>>
  BY DEF Sep!RunnerDies, Sep!tables
<1>3. failures' \in 0..MaxFailures
  BY <1>1, FailuresStay DEF Sep!RunnerDies
<1>4. /\ cron' = Sep!IdleRunner /\ cron'.pc = "idle" /\ cron'.todo = {} /\ cron'.done = {}
      /\ cut' = cut \cup cron.done
  BY DEF Sep!RunnerDies, Sep!IdleRunner
<1>5. cron' \in [pc : {"idle", "work"}, todo : SUBSET Persons, done : SUBSET Persons]
  BY <1>4 DEF Sep!IdleRunner
<1>6. Sep!TypeInv'
  BY <1>1, <1>2, <1>3, <1>4, <1>5 DEF Sep!TypeInv
<1>7. \A m \in Persons \ cut' : Sep!Owed(m)' = Sep!Owed(m)
  BY <1>2, <1>4 DEF Sep!Owed
<1>8. Sep!ReturnInv'
  BY <1>1, <1>2, <1>4, <1>7 DEF Sep!ReturnInv
<1>9. QED
  BY <1>2, <1>6, <1>8, LeavesOnly

LEMMA SeparationInit ==
  ASSUME Sep!Sound, Sep!Init
  PROVE  Sep!SeparationInv
<1>1. PICK s \in [Persons -> Statuses] :
        /\ standing = [m \in Persons |-> [status |-> s[m], patched |-> s[m] = "active", leave |-> "none"]]
        /\ account = [m \in Persons |->
             [exists |-> s[m] # "inactive", enabled |-> s[m] # "inactive",
              groups |-> IF s[m] = "inactive" THEN {} ELSE Sep!Restored,
              rooms |-> s[m] # "inactive", tokens |-> s[m] # "inactive"]]
        /\ recruiterLoad = Sep!Cardinality({m \in Persons : s[m] = "recruit"})
  BY DEF Sep!Init
<1>2. \A m \in Persons : s[m] \in Sep!Serving
  BY DEF Sep!Sound
<1>3. standing \in [Persons -> Sep!Rows] /\ account \in [Persons -> Sep!Accounts]
  BY <1>1, <1>2 DEF Sep!Rows, Sep!Accounts, Sep!Restored, Sep!Groups
<1>4. recruiterLoad \in Nat
  <2>1. IsFiniteSet({m \in Persons : s[m] = "recruit"})
    BY SeparationCounts, FS_Subset DEF Sep!Sound
  <2>2. QED
    BY <1>1, <2>1, SeparationCounts, FS_CardinalityType
<1>5. /\ log = [m \in Persons |-> {}] /\ handling = [r \in Sep!Requests |-> Sep!NoRequest]
      /\ rec = Sep!IdleReconciler /\ cron = Sep!IdleRunner
      /\ received = 0 /\ failures = 0 /\ outside = 0
      /\ regained = {} /\ misread = {} /\ cut = {}
      /\ absences = [m \in Persons |-> 0] /\ returns = [m \in Persons |-> 0]
  BY DEF Sep!Init
<1>6. cron \in [pc : {"idle", "work"}, todo : SUBSET Persons, done : SUBSET Persons]
  BY <1>5 DEF Sep!IdleRunner
<1>7. 0 \in 0..SeparationRequests /\ 0 \in 0..MaxFailures /\ 0 \in 0..MaxOutside
  BY DEF Sep!Sound
<1>8. Sep!TypeInv
  BY <1>3, <1>4, <1>5, <1>6, <1>7 DEF Sep!TypeInv
<1>9. \A m \in Persons : standing[m].status \notin Sep!Gone
  BY <1>1, <1>2 DEF Sep!Serving, Sep!Gone
<1>10. Sep!StateInv
  <2>1. \A m \in Persons : ~account[m].exists => ~Sep!Leftovers(m)
    BY <1>1 DEF Sep!Leftovers
  <2>2. \A r \in Sep!Requests : handling[r].pc = "none"
    BY <1>5 DEF Sep!NoRequest
  <2>3. QED
    BY <1>9, <2>1, <2>2 DEF Sep!StateInv
<1>11. rec.pc = "idle"
  BY <1>5 DEF Sep!IdleReconciler
<1>12. Sep!VisitInv /\ Sep!HiddenInv
  BY <1>9, <1>11 DEF Sep!VisitInv, Sep!HiddenInv, Sep!Shown
<1>13. Sep!ReturnInv
  <2>1. \A m \in Persons : standing[m].leave = "none"
    BY <1>1
  <2>2. \A m \in Persons : Sep!Owed(m) = 0
    BY <2>1 DEF Sep!Owed
  <2>3. cron.todo = {} /\ cron.done = {}
    BY <1>5 DEF Sep!IdleRunner
  <2>4. \A m \in Persons : returns[m] = 0 /\ absences[m] = 0
    BY <1>5
  <2>5. QED
    BY <2>2, <2>3, <2>4 DEF Sep!ReturnInv
<1>14. QED
  BY <1>8, <1>10, <1>12, <1>13 DEF Sep!SeparationInv

LEMMA SeparationSteps ==
  ASSUME Sep!Sound, Sep!SeparationInv, [Sep!Next]_(Sep!vars)
  PROVE  Sep!SeparationInv'
<1>1. ASSUME NEW m \in Persons,
             \/ Sep!BeginOffboard(m) \/ Sep!BeginReactivate(m) \/ Sep!BeginLeave(m)
             \/ Sep!Login(m) \/ Sep!SyncRank(m) \/ Sep!LeaveRunsOut(m)
      PROVE  Sep!SeparationInv'
  BY <1>1, BeginOffboardKeeps, BeginReactivateKeeps, BeginLeaveKeeps, LoginKeeps, SyncRankKeeps,
     LeaveRunsOutKeeps
<1>2. ASSUME NEW r \in Sep!Requests,
             \/ Sep!Disable(r) \/ Sep!ListGroups(r) \/ Sep!RemoveGroup(r) \/ Sep!VerifyGroups(r)
             \/ Sep!CommitOffboard(r)
             \/ Sep!EnsureAccount(r) \/ Sep!EnableAccount(r) \/ Sep!RestoreGroup(r) \/ Sep!CommitReactivate(r)
             \/ Sep!JoinLeaveGroup(r) \/ Sep!CommitLeave(r) \/ Sep!RequestDies(r)
      PROVE  Sep!SeparationInv'
  BY <1>2, DisableKeeps, ListGroupsKeeps, RemoveGroupKeeps, VerifyGroupsKeeps, CommitOffboardKeeps,
     EnsureAccountKeeps, EnableAccountKeeps, RestoreGroupKeeps, CommitReactivateKeeps,
     JoinLeaveGroupKeeps, CommitLeaveKeeps, RequestDiesKeeps
<1>3. ASSUME Sep!Reconcile PROVE Sep!SeparationInv'
  BY <1>3, RecStartsKeeps, LookKeeps, MarkCleanKeeps, OccRemovesKeeps, EvictKeeps, RevokeKeeps,
     VerifyKeeps, RecordResultKeeps, VisitFailsKeeps DEF Sep!Reconcile
<1>4. ASSUME Sep!Runner PROVE Sep!SeparationInv'
  BY <1>4, RunnerStartsKeeps, ReturnMemberKeeps, RunnerCommitsKeeps, RunnerDiesKeeps DEF Sep!Runner
<1>5. ASSUME UNCHANGED Sep!vars PROVE Sep!SeparationInv'
  <2>1. /\ UNCHANGED <<standing, account, log, recruiterLoad, handling, rec, cron, received, failures,
                       outside>>
        /\ UNCHANGED <<regained, misread, absences, returns, cut>>
    BY <1>5 DEF Sep!vars, Sep!tables, Sep!bounds, Sep!history
  <2>2. Sep!TypeInv /\ Sep!ReturnInv
    BY DEF Sep!SeparationInv
  <2>3. Sep!TypeInv'
    BY <2>1, <2>2 DEF Sep!TypeInv
  <2>4. Sep!ReturnInv'
    BY <2>1, <2>2, ReturnStays
  <2>5. QED
    BY <2>1, <2>3, <2>4, LeavesOnly
<1>6. QED
  BY <1>1, <1>2, <1>3, <1>4, <1>5 DEF Sep!Next

\* SeparationInv is what the property says.
LEMMA SeparationHolds ==
  ASSUME Sep!Sound, Sep!SeparationInv
  PROVE  Sep!SeparationsAreInOrder
<1>1. Sep!TypeInv /\ Sep!HiddenInv /\ Sep!ReturnInv
  BY DEF Sep!SeparationInv
<1>2. Sep!TypeOK
  <2>1. \A r \in Sep!Requests : handling[r].pc = "none" \/ handling[r] \in Sep!Handled
    BY <1>1 DEF Sep!TypeInv, Sep!NoRequest
  <2>2. rec.pc = "idle" \/ rec \in Sep!Reconciling
    BY <1>1 DEF Sep!TypeInv, Sep!IdleReconciler
  <2>3. QED
    BY <1>1, <2>1, <2>2, SeparationTypes DEF Sep!TypeOK
<1>3. Sep!NothingHidden
  BY <1>1 DEF Sep!NothingHidden, Sep!HiddenInv, Sep!Shown
<1>4. Sep!ReturnMailedOnce
  <2> SUFFICES ASSUME NEW m \in Persons, m \notin cut PROVE returns[m] <= absences[m]
    BY DEF Sep!ReturnMailedOnce
  <2>1. /\ returns[m] + Sep!Owed(m) <= absences[m] /\ Sep!Owed(m) \in {0, 1} /\ returns[m] \in Nat
        /\ absences[m] \in Nat
    BY <1>1 DEF Sep!ReturnInv, Sep!Owed, Sep!TypeInv
  <2>2. QED
    BY <2>1
<1>5. QED
  BY <1>2, <1>3, <1>4 DEF Sep!SeparationsAreInOrder

(***************************************************************************)
(* Separations are in order, for any members, requests in progress and     *)
(* bounds on faults, however the portal, the reconciler and the runner     *)
(* overlap: what a separated member still has is shown to S1, unless it    *)
(* was given back unseen or an occ that failed was taken for an answer,    *)
(* and the end of a leave is mailed once, unless the runner was cut short. *)
(***************************************************************************)
THEOREM SeparationsAreInOrderCorrect == SeparationSpec => []SeparationsAreInOrder
<1>1. Sep!Init => Sep!SeparationInv
  BY SeparationAssumption, SeparationInit
<1>2. Sep!SeparationInv /\ [Sep!Next]_(Sep!vars) => Sep!SeparationInv'
  BY SeparationAssumption, SeparationSteps
<1>3. Sep!SeparationInv => SeparationsAreInOrder
  BY SeparationAssumption, SeparationHolds DEF SeparationsAreInOrder
<1>4. QED
  BY <1>1, <1>2, <1>3, PTL DEF SeparationSpec, Sep!Spec
=============================================================================
