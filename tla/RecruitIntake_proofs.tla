------------------------ MODULE RecruitIntake_proofs ------------------------
(***************************************************************************)
(* Theorems about RecruitIntake, for any number of submissions and cards,  *)
(* and every bound on failures, crashes and edits.                         *)
(***************************************************************************)
EXTENDS RecruitIntake, FiniteSetTheorems, TLAPS

-----------------------------------------------------------------------------
(***************************************************************************)
(* Type correctness.                                                       *)
(***************************************************************************)
\* While a submission is being handled, the daemon has it in hand.
Busy == pc \in {"post", "forward", "confirm"}

\* Every variable keeps its type; what is in hand is not yet recorded; a card
\* that the daemon has listed exists.
TypeInv ==
  /\ TypeOK
  /\ Busy => cur \in Subs /\ cur \notin mem.processed
  /\ \A d \in due : stack[d[1]] # "absent"

\* A failure is counted, and stays within the bound.
LEMMA FaultType ==
  ASSUME NEW k, TypeOK, Fails(k) \/ HidesEffect(k)
  PROVE  /\ faults' \in 0..MaxFaults /\ lost' \in 0..faults'
         /\ crashes' \in 0..MaxCrashes /\ edits' \in 0..MaxEdits
BY BoundsAssumption DEF TypeOK, Fails, HidesEffect, Fault

\* Recording a submission, or a card, leaves a state dictionary.
LEMMA MemoryType ==
  ASSUME NEW s \in Subs, NEW c \in Cards, mem \in Memories, disk \in Memories,
         Processed(s) \/ Paid(c)
  PROVE  mem' \in Memories /\ disk' \in Memories
BY DEF Processed, Paid, Memories

\* The variables never leave their types: the theorem all others build on.
THEOREM TypeCorrect == Spec => []TypeInv
<1>1. Init => TypeInv
  BY ApplicationsAssumption, BoundsAssumption
     DEF Init, TypeInv, TypeOK, Busy, Memories, EmptyState, Mails
<1>2. TypeInv /\ [Next]_vars => TypeInv'
  <2> SUFFICES ASSUME TypeInv, [Next]_vars PROVE TypeInv'
    OBVIOUS
  <2> USE DEF TypeInv, TypeOK, Busy, boardVars, outVars, stateVars, pollVars, boundVars,
          NoFault
  <2>1. CASE BeginPoll
    BY <2>1 DEF BeginPoll
  <2>2. CASE SkipProcessed
    BY <2>2 DEF SkipProcessed
  <2>3. CASE RejectBlacklisted
    BY <2>3 DEF RejectBlacklisted, Processed, Memories
  <2>4. CASE Screen
    BY <2>4, FaultType DEF Screen, TellS1, Memories
  <2>5. CASE PostCard
    BY <2>5 DEF PostCard, CardCreated, Application
  <2>6. CASE PostReplyLost
    BY <2>6, FaultType DEF PostReplyLost, CardCreated, Application, NextSubmission
  <2>7. CASE PostFails
    BY <2>7, FaultType DEF PostFails, NextSubmission
  <2>8. CASE Forward
    BY <2>8, FaultType DEF Forward
  <2>9. CASE Confirm
    BY <2>9, FaultType DEF Confirm, NextSubmission, Processed, Memories
  <2>10. CASE BeginPayments
    BY <2>10 DEF BeginPayments
  <2>11. CASE SkipCard
    BY <2>11 DEF SkipCard
  <2>12. CASE BadAddress
    <3>1. PICK c \in Cards : /\ stack[c] # "absent" /\ Paid(c)
                             /\ Noted(c) \/ Noticed(c)
      BY <2>12 DEF BadAddress
    <3>2. due' \subseteq due /\ (NoFault \/ Fails("smtp"))
      BY <2>12 DEF BadAddress
    <3>3. /\ stack' \in [Cards -> {"absent", "early", "documents"}]
          /\ flagged' \subseteq Cards /\ unflagged' \subseteq Cards
          /\ \A e \in Cards : stack[e] # "absent" => stack'[e] # "absent"
      <4>1. CASE Noted(c)
        BY <3>1, <4>1 DEF Noted
      <4>2. CASE Noticed(c)
        BY <3>1, <4>2 DEF Noticed
      <4>3. QED
        BY <3>1, <4>1, <4>2
    <3>4. mem' \in Memories /\ disk' \in Memories
      BY <3>1 DEF Paid, Memories
    <3>5. \A e \in due' : stack'[e[1]] # "absent"
      BY <3>2, <3>3
    <3>6. QED
      BY <2>12, <3>2, <3>3, <3>4, <3>5, FaultType DEF BadAddress
  <2>13. CASE AskPayment
    BY <2>13, FaultType DEF AskPayment, Paid, Memories
  <2>14. CASE AskPaymentFails
    BY <2>14, FaultType DEF AskPaymentFails
  <2>15. CASE SaveState
    BY <2>15 DEF SaveState
  <2>16. CASE PollRaises
    BY <2>16, FaultType DEF PollRaises
  <2>17. CASE Crash
    BY <2>17, BoundsAssumption DEF Crash, EmptyState, Memories
  <2>18. CASE Restart
    BY <2>18 DEF Restart
  <2>19. CASE DryRun
    <3>1. flagged' \subseteq Cards /\ unflagged' \subseteq Cards
      BY <2>19 DEF DryRun
    <3>2. QED
      BY <2>19, <3>1, FaultType DEF DryRun, Memories, Cards
  <2>20. ASSUME NEW s \in Subs, Submit(s) PROVE TypeInv'
    BY <2>20 DEF Submit
  <2>21. ASSUME NEW c \in Cards, MoveToDocuments(c) \/ MoveOut(c) \/ CorrectEmail(c)
         PROVE TypeInv'
    BY <2>21, BoundsAssumption DEF MoveToDocuments, MoveOut, CorrectEmail, Mails
  <2>22. CASE UNCHANGED vars
    BY <2>22 DEF vars
  <2>23. QED
    BY <2>1, <2>2, <2>3, <2>4, <2>5, <2>6, <2>7, <2>8, <2>9, <2>10, <2>11, <2>12, <2>13,
       <2>14, <2>15, <2>16, <2>17, <2>18, <2>19, <2>20, <2>21, <2>22 DEF Next, Daemon
<1>3. QED
  BY <1>1, <1>2, PTL DEF Spec

\* Types are right at every step.
THEOREM TypeOKCorrect == Spec => []TypeOK
BY TypeCorrect, PTL DEF TypeInv

\* A bad address is reported on a card that exists: no card comes or goes.
LEMMA NoteOnCard ==
  ASSUME TypeInv, BadAddress
  PROVE  \A c \in Cards : stack[c] = "absent" <=> stack'[c] = "absent"
<1>1. PICK d \in due : Noted(d[1]) \/ Noticed(d[1])
  BY DEF BadAddress
<1>2. d[1] \in Cards /\ stack[d[1]] # "absent"
  BY DEF TypeInv, TypeOK
<1>3. CASE Noted(d[1])
  BY <1>2, <1>3 DEF Noted, TypeInv, TypeOK
<1>4. CASE Noticed(d[1])
  BY <1>4 DEF Noticed
<1>5. QED
  BY <1>1, <1>3, <1>4

-----------------------------------------------------------------------------
(***************************************************************************)
(* What is never taken back.                                               *)
(***************************************************************************)
\* A card that exists stays, an answer stays given, and what S1 was told or a
\* dry run has recorded remains so.
LEMMA NothingTakenBack ==
  ASSUME TypeInv, [Next]_vars
  PROVE  /\ app' = app
         /\ \A s \in Subs : CardsOf(s) \subseteq CardsOf(s)' /\ letters[s] \subseteq letters'[s]
         /\ rejected \subseteq rejected' /\ abandoned \subseteq abandoned'
         /\ told \subseteq told' /\ unheard \subseteq unheard'
<1> USE DEF TypeInv, TypeOK, CardsOf, boardVars, outVars, stateVars, pollVars, boundVars
<1>1. CASE PostCard \/ PostReplyLost
  BY <1>1 DEF PostCard, PostReplyLost, CardCreated
<1>2. CASE Forward \/ Confirm
  BY <1>2 DEF Forward, Confirm, Busy
<1>3. CASE RejectBlacklisted \/ Screen \/ AskPayment
  BY <1>3 DEF RejectBlacklisted, Screen, TellS1, AskPayment
<1>4. CASE \/ BeginPoll \/ SkipProcessed \/ PostFails \/ BeginPayments \/ SkipCard
           \/ AskPaymentFails \/ SaveState \/ PollRaises \/ Restart \/ Crash \/ DryRun
  BY <1>4 DEF BeginPoll, SkipProcessed, PostFails, BeginPayments, SkipCard,
       AskPaymentFails, SaveState, PollRaises, Restart, Crash, DryRun
<1>5. ASSUME NEW s \in Subs, Submit(s)
      PROVE  UNCHANGED <<app, stack, letters, rejected, told, unheard, abandoned>>
  BY <1>5 DEF Submit
<1>6. ASSUME NEW c \in Cards, MoveToDocuments(c) \/ MoveOut(c) \/ CorrectEmail(c)
      PROVE  /\ UNCHANGED <<app, letters, rejected, told, unheard, abandoned>>
             /\ \A d \in Cards : stack[d] # "absent" => stack'[d] # "absent"
  BY <1>6 DEF MoveToDocuments, MoveOut, CorrectEmail
<1>7. CASE UNCHANGED vars
  BY <1>7 DEF vars
<1>8. CASE BadAddress
  BY <1>8, NoteOnCard DEF BadAddress
<1>9. QED
  BY <1>1, <1>2, <1>3, <1>4, <1>5, <1>6, <1>7, <1>8 DEF Next, Daemon

-----------------------------------------------------------------------------
(***************************************************************************)
(* The blacklist.                                                          *)
(***************************************************************************)
\* Whoever is past the screen although it should have stopped them was
\* reported, or Talk refused it, already while the submission is in hand.
ScreenInv ==
  /\ BlacklistedNeverSilently
  /\ Busy /\ app[cur].screen # "clean" => cur \in told \/ cur \in unheard

\* A blacklisted applicant gets past the screen only if S1 was told that it did
\* not run, or if Talk has refused the notice.
THEOREM BlacklistedNeverSilentlyCorrect == Spec => []BlacklistedNeverSilently
<1>1. Init => ScreenInv
  BY DEF Init, ScreenInv, BlacklistedNeverSilently, CardsOf, Busy
<1>2. TypeInv /\ ScreenInv /\ [Next]_vars => ScreenInv'
  <2> SUFFICES ASSUME TypeInv, ScreenInv, [Next]_vars PROVE ScreenInv'
    OBVIOUS
  <2>1. app' = app /\ told \subseteq told' /\ unheard \subseteq unheard'
    BY NothingTakenBack
  <2> USE DEF TypeInv, TypeOK, Busy, ScreenInv, BlacklistedNeverSilently, CardsOf,
          boardVars, outVars, stateVars, pollVars, boundVars
  <2>2. CASE Screen
    BY <2>1, <2>2 DEF Screen, TellS1
  <2>3. CASE PostCard \/ PostReplyLost
    <3>1. \A s \in Subs : s # cur => CardsOf(s)' = CardsOf(s)
      BY <2>3 DEF PostCard, PostReplyLost, CardCreated
    <3>2. UNCHANGED <<letters, told, unheard>>
      BY <2>3 DEF PostCard, PostReplyLost
    <3>3. Busy' => cur' = cur /\ Busy
      BY <2>3 DEF PostCard, PostReplyLost, NextSubmission
    <3>4. Busy
      BY <2>3 DEF PostCard, PostReplyLost
    <3>5. QED
      BY <2>1, <3>1, <3>2, <3>3, <3>4
  <2>4. CASE Forward \/ Confirm
    BY <2>1, <2>4 DEF Forward, Confirm, NextSubmission
  <2>5. CASE \/ BeginPoll \/ SkipProcessed \/ RejectBlacklisted \/ PostFails \/ BeginPayments
             \/ SkipCard \/ AskPayment \/ AskPaymentFails \/ SaveState
             \/ PollRaises \/ Restart \/ Crash \/ DryRun
    BY <2>1, <2>5 DEF BeginPoll, SkipProcessed, RejectBlacklisted, PostFails, BeginPayments,
         SkipCard, AskPayment, AskPaymentFails, SaveState, PollRaises, Restart, Crash,
         DryRun, NextSubmission
  <2>6. ASSUME NEW s \in Subs, Submit(s)
        PROVE  ScreenInv'
    BY <2>6 DEF Submit
  <2>7. ASSUME NEW c \in Cards, MoveToDocuments(c) \/ MoveOut(c) \/ CorrectEmail(c)
        PROVE  ScreenInv'
    <3>1. \A s \in Subs : CardsOf(s)' = CardsOf(s)
      BY <2>7 DEF MoveToDocuments, MoveOut, CorrectEmail
    <3>2. UNCHANGED <<app, letters, told, unheard, pc, cur>>
      BY <2>7 DEF MoveToDocuments, MoveOut, CorrectEmail
    <3>3. QED
      BY <3>1, <3>2
  <2>8. CASE UNCHANGED vars
    BY <2>8 DEF vars
  <2>9. CASE BadAddress
    <3>1. \A s \in Subs : CardsOf(s) # {} <=> CardsOf(s)' # {}
      BY <2>9, NoteOnCard DEF CardsOf
    <3>2. UNCHANGED <<app, letters, told, unheard, pc, cur>>
      BY <2>9 DEF BadAddress
    <3>3. QED
      BY <3>1, <3>2
  <2>10. QED
    BY <2>2, <2>3, <2>4, <2>5, <2>6, <2>7, <2>8, <2>9 DEF Next, Daemon
<1>3. QED
  BY <1>1, <1>2, TypeCorrect, PTL DEF Spec, ScreenInv

-----------------------------------------------------------------------------
(***************************************************************************)
(* No application is lost.                                                 *)
(***************************************************************************)
\* What has become of a submission that may be recorded.
Settled(s) == s \in rejected \cup abandoned \/ "forward" \in letters[s] \/ CardsOf(s) # {}

\* A submission is settled before it is confirmed, and so before it is recorded.
KeptInv ==
  /\ \A s \in mem.processed \cup disk.processed : Settled(s)
  /\ pc = "confirm" => Settled(cur)

\* A submission recorded as processed was answered, has a card, or was given up
\* by a dry run or an unnoticed failure.
THEOREM NoLostApplicationCorrect == Spec => []NoLostApplication
<1>1. Init => KeptInv
  BY DEF Init, KeptInv, EmptyState
<1>2. TypeInv /\ KeptInv /\ [Next]_vars => KeptInv'
  <2> SUFFICES ASSUME TypeInv, KeptInv, [Next]_vars PROVE KeptInv'
    OBVIOUS
  <2>1. \A s \in Subs : Settled(s) => Settled(s)'
    BY NothingTakenBack DEF Settled
  <2>2. mem.processed \subseteq Subs /\ disk.processed \subseteq Subs /\ (Busy => cur \in Subs)
    BY DEF TypeInv, TypeOK, Memories
  <2> USE DEF KeptInv, boardVars, outVars, stateVars, pollVars, boundVars, Busy
  <2>3. CASE RejectBlacklisted
    BY <2>1, <2>2, <2>3 DEF RejectBlacklisted, Processed, TypeInv, TypeOK, Memories, Settled
  <2>4. CASE Screen
    BY <2>1, <2>2, <2>4 DEF Screen
  <2>5. CASE PostCard \/ PostReplyLost
    <3>1. \A s \in Subs : s = cur => Settled(s)'
      <4> SUFFICES ASSUME NEW s \in Subs, s = cur PROVE CardsOf(s)' # {}
        BY DEF Settled
      <4>1. PICK c \in Cards : c[1] = s /\ stack' = [stack EXCEPT ![c] = "early"]
        BY <2>5 DEF PostCard, PostReplyLost, CardCreated
      <4>2. stack'[c] = "early"
        BY <4>1 DEF TypeInv, TypeOK
      <4>3. c \in CardsOf(s)'
        BY <4>1, <4>2 DEF CardsOf
      <4>4. QED
        BY <4>3
    <3>2. UNCHANGED <<mem, disk>> /\ (pc' = "confirm" => cur' = cur) /\ cur \in Subs
      BY <2>2, <2>5 DEF PostCard, PostReplyLost, NextSubmission
    <3>3. pc' = "confirm" => Settled(cur)'
      <4> HIDE DEF Busy
      <4>1. ASSUME pc' = "confirm" PROVE \E s \in Subs : s = cur' /\ Settled(s)'
        BY <3>1, <3>2, <4>1
      <4>2. QED
        BY <4>1
    <3>4. QED
      BY <2>1, <2>2, <3>2, <3>3
  <2>6. CASE Forward
    BY <2>1, <2>2, <2>6 DEF Forward, Settled, TypeInv, TypeOK
  <2>7. CASE Confirm
    BY <2>1, <2>2, <2>7 DEF Confirm, Processed, NextSubmission, TypeInv, TypeOK, Memories
  <2>8. CASE BadAddress \/ AskPayment
    BY <2>1, <2>2, <2>8 DEF BadAddress, AskPayment, Paid, TypeInv, TypeOK, Memories
  <2>9. CASE \/ BeginPoll \/ SkipProcessed \/ PostFails \/ BeginPayments \/ SkipCard
             \/ AskPaymentFails \/ SaveState \/ PollRaises \/ Restart
    BY <2>1, <2>2, <2>9 DEF BeginPoll, SkipProcessed, PostFails, BeginPayments, SkipCard,
         AskPaymentFails, SaveState, PollRaises, Restart, NextSubmission
  <2>10. CASE Crash
    BY <2>1, <2>2, <2>10 DEF Crash, EmptyState
  <2>11. CASE DryRun
    <3>1. disk'.processed = disk.processed \cup submitted /\ mem' = mem /\ pc' = pc
          /\ submitted \ disk.processed \subseteq abandoned'
      BY <2>11 DEF DryRun
    <3>2. submitted \subseteq Subs /\ pc # "confirm"
      BY <2>11 DEF DryRun, TypeInv, TypeOK
    <3>3. QED
      BY <2>1, <2>2, <3>1, <3>2 DEF Settled
  <2>12. ASSUME NEW s \in Subs, Submit(s) PROVE KeptInv'
    BY <2>1, <2>2, <2>12 DEF Submit
  <2>13. ASSUME NEW c \in Cards, MoveToDocuments(c) \/ MoveOut(c) \/ CorrectEmail(c)
         PROVE  KeptInv'
    BY <2>1, <2>2, <2>13 DEF MoveToDocuments, MoveOut, CorrectEmail
  <2>14. CASE UNCHANGED vars
    BY <2>1, <2>2, <2>14 DEF vars
  <2>15. QED
    BY <2>3, <2>4, <2>5, <2>6, <2>7, <2>8, <2>9, <2>10, <2>11, <2>12, <2>13, <2>14
       DEF Next, Daemon
<1>3. KeptInv => NoLostApplication
  BY DEF KeptInv, NoLostApplication, Settled
<1>4. QED
  BY <1>1, <1>2, <1>3, TypeCorrect, PTL DEF Spec

-----------------------------------------------------------------------------
(***************************************************************************)
(* Nothing is repeated without a cause.                                    *)
(***************************************************************************)
\* The submissions that are recorded, or will be before anything else happens.
Sure == mem.processed \cup {s \in Subs : pc = "confirm" /\ cur = s}
One(S, x) == IF x \in S THEN 1 ELSE 0

\* A submission that the daemon does not know to be done has no more cards than
\* there were crashes and lost replies, a card not known to be asked no more emails.
CountInv ==
  /\ pc = "down" => mem = EmptyState
  /\ \A s \in Subs : /\ IsFiniteSet(CardsOf(s))
                      /\ Cardinality(CardsOf(s)) <= crashes + lost + One(Sure, s)
  /\ \A c \in Cards : payments[c] <= crashes + lost + One(mem.paid, c)

\* The cards of a submission are as many as before, or one more.
LEMMA OneMoreCard ==
  ASSUME TypeInv, NEW t \in Subs, CardCreated(t), NEW s \in Subs, IsFiniteSet(CardsOf(s))
  PROVE  /\ IsFiniteSet(CardsOf(s)')
         /\ Cardinality(CardsOf(s)') = Cardinality(CardsOf(s)) + IF s = t THEN 1 ELSE 0
         /\ Cardinality(CardsOf(s)) \in Nat
<1>1. PICK c \in Cards : /\ c[1] = t /\ stack[c] = "absent"
                         /\ stack' = [stack EXCEPT ![c] = "early"]
  BY DEF CardCreated
<1>2. CardsOf(s)' = CardsOf(s) \cup (IF s = t THEN {c} ELSE {}) /\ c \notin CardsOf(s)
  BY <1>1 DEF CardsOf, TypeInv, TypeOK
<1>3. Cardinality(CardsOf(s)) \in Nat
  BY FS_CardinalityType
<1>4. CASE s = t
  BY <1>2, <1>3, <1>4, FS_AddElement
<1>5. CASE s # t
  BY <1>2, <1>3, <1>5
<1>6. QED
  BY <1>3, <1>4, <1>5

\* No card and no payment email too many but after a crash or a lost reply.
THEOREM RepeatedOnlyWhenLostCorrect == Spec => []RepeatedOnlyWhenLost
<1>1. Init => CountInv
  <2> SUFFICES ASSUME Init PROVE CountInv
    OBVIOUS
  <2>1. \A s \in Subs : CardsOf(s) = {}
    BY DEF Init, CardsOf
  <2>2. QED
    BY <2>1, FS_EmptySet DEF Init, CountInv, One
<1>2. TypeInv /\ CountInv /\ [Next]_vars => CountInv'
  <2> SUFFICES ASSUME TypeInv, CountInv, [Next]_vars PROVE CountInv'
    OBVIOUS
  <2>1. /\ crashes \in Nat /\ lost \in Nat /\ payments \in [Cards -> Nat]
        /\ \A s \in Subs : Cardinality(CardsOf(s)) \in Nat
    BY BoundsAssumption, FS_CardinalityType DEF TypeInv, TypeOK, CountInv
  <2> USE DEF boardVars, outVars, stateVars, pollVars, boundVars, NoFault, One
  <2>2. ASSUME \A s \in Subs : CardsOf(s)' = CardsOf(s), payments' = payments,
               Sure \subseteq Sure', mem.paid \subseteq mem'.paid,
               crashes' = crashes, lost' \in {lost, lost + 1}, pc' # "down" \/ UNCHANGED <<pc, mem>>
        PROVE  CountInv'
    BY <2>1, <2>2 DEF CountInv
  <2>3. ASSUME UNCHANGED <<stack, payments, mem, crashes, lost>>, pc' # "down" \/ pc' = pc,
               pc # "confirm"
        PROVE  CountInv'
    BY <2>2, <2>3 DEF CardsOf, Sure
  <2>4. CASE \/ BeginPoll \/ SkipProcessed \/ PostFails \/ BeginPayments \/ SkipCard
             \/ AskPaymentFails \/ SaveState \/ PollRaises \/ Screen \/ Forward \/ DryRun
    BY <2>3, <2>4 DEF BeginPoll, SkipProcessed, PostFails, BeginPayments, SkipCard,
         AskPaymentFails, SaveState, PollRaises, Screen, Forward, DryRun, NextSubmission,
         Fails, Fault
  <2>5. CASE RejectBlacklisted \/ BadAddress \/ Confirm
    <3>1. UNCHANGED <<payments, crashes, lost>> /\ pc' # "down"
      BY <2>5 DEF RejectBlacklisted, BadAddress, Confirm, NextSubmission, Fails, Fault
    <3>2. mem.paid \subseteq mem'.paid /\ Sure \subseteq Sure'
      BY <2>5 DEF RejectBlacklisted, BadAddress, Confirm, Processed, Paid, NextSubmission,
           Sure, TypeInv, TypeOK, Memories
    <3>3. \A s \in Subs : CardsOf(s)' = CardsOf(s)
      BY <2>5, NoteOnCard DEF RejectBlacklisted, Confirm, CardsOf
    <3>4. QED
      BY <2>2, <3>1, <3>2, <3>3
  <2>6. CASE PostCard \/ PostReplyLost
    <3>1. cur \in Subs /\ cur \notin Sure /\ CardCreated(cur) /\ pc # "down" /\ pc' # "down"
      BY <2>6 DEF PostCard, PostReplyLost, TypeInv, Busy, Sure, NextSubmission
    <3>2. UNCHANGED <<payments, mem, crashes>>
      BY <2>6 DEF PostCard, PostReplyLost, HidesEffect, Fault
    <3>3. (lost' = lost /\ cur \in Sure') \/ lost' = lost + 1
      BY <2>6, <3>1 DEF PostCard, PostReplyLost, HidesEffect, Sure
    <3>4. Sure \subseteq Sure'
      BY <2>6 DEF PostCard, PostReplyLost, Sure
    <3>5. \A s \in Subs : /\ IsFiniteSet(CardsOf(s)')
                          /\ Cardinality(CardsOf(s)')
                               = Cardinality(CardsOf(s)) + IF s = cur THEN 1 ELSE 0
      BY <3>1, OneMoreCard DEF CountInv
    <3>6. QED
      BY <2>1, <3>1, <3>2, <3>3, <3>4, <3>5 DEF CountInv
  <2>7. CASE AskPayment
    <3>1. UNCHANGED <<stack, pc, cur, crashes>>
      BY <2>7 DEF AskPayment, HidesEffect, Fault
    <3>2. PICK c \in Cards : /\ c \notin mem.paid
                             /\ payments' = [payments EXCEPT ![c] = @ + 1]
                             /\ \/ UNCHANGED <<lost>> /\ Paid(c)
                                \/ lost' = lost + 1 /\ UNCHANGED mem
      BY <2>7 DEF AskPayment, HidesEffect, TypeInv, TypeOK
    <3>3. /\ mem'.processed = mem.processed /\ mem.paid \subseteq mem'.paid
          /\ (lost' = lost /\ c \in mem'.paid) \/ lost' = lost + 1
      BY <3>2 DEF Paid, TypeInv, TypeOK, Memories
    <3>4. pc # "down" /\ \A s \in Subs : CardsOf(s)' = CardsOf(s)
      BY <2>7, <3>1 DEF AskPayment, CardsOf
    <3>5. Sure' = Sure
      BY <3>1, <3>3 DEF Sure
    <3>6. \A d \in Cards : payments'[d] <= crashes' + lost' + One(mem'.paid, d)
      BY <2>1, <3>1, <3>2, <3>3 DEF CountInv
    <3>7. \A s \in Subs : Cardinality(CardsOf(s)') <= crashes' + lost' + One(Sure', s)
      BY <2>1, <3>1, <3>3, <3>4, <3>5 DEF CountInv
    <3>8. QED
      BY <3>1, <3>4, <3>6, <3>7 DEF CountInv
  <2>8. CASE Crash
    <3>1. /\ UNCHANGED <<stack, payments, lost>> /\ crashes' = crashes + 1
          /\ mem' = EmptyState
      BY <2>8 DEF Crash
    <3>2. \A s \in Subs : CardsOf(s)' = CardsOf(s)
      BY <3>1 DEF CardsOf
    <3>3. \A s \in Subs : Cardinality(CardsOf(s)') <= crashes' + lost' + One(Sure', s)
      BY <2>1, <3>1, <3>2 DEF CountInv
    <3>4. \A c \in Cards : payments'[c] <= crashes' + lost' + One(mem'.paid, c)
      BY <2>1, <3>1 DEF CountInv
    <3>5. QED
      BY <3>1, <3>2, <3>3, <3>4 DEF CountInv
  <2>9. CASE Restart
    <3>1. Sure = {} /\ mem.paid = {} /\ pc' # "down"
      BY <2>9 DEF Restart, CountInv, EmptyState, Sure
    <3>2. QED
      BY <2>2, <2>9, <3>1 DEF Restart, CardsOf
  <2>10. ASSUME NEW s \in Subs, Submit(s) PROVE CountInv'
    BY <2>2, <2>10 DEF Submit, CardsOf, Sure
  <2>11. ASSUME NEW c \in Cards, MoveToDocuments(c) \/ MoveOut(c) \/ CorrectEmail(c)
         PROVE  CountInv'
    <3>1. \A s \in Subs : CardsOf(s)' = CardsOf(s)
      BY <2>11 DEF MoveToDocuments, MoveOut, CorrectEmail, CardsOf, TypeInv, TypeOK
    <3>2. UNCHANGED <<payments, mem, pc, cur, crashes, lost>>
      BY <2>11 DEF MoveToDocuments, MoveOut, CorrectEmail
    <3>3. QED
      BY <2>2, <3>1, <3>2 DEF Sure
  <2>12. CASE UNCHANGED vars
    BY <2>2, <2>12 DEF vars, CardsOf, Sure
  <2>13. QED
    BY <2>4, <2>5, <2>6, <2>7, <2>8, <2>9, <2>10, <2>11, <2>12 DEF Next, Daemon
<1>3. TypeInv /\ CountInv => RepeatedOnlyWhenLost
  <2> SUFFICES ASSUME TypeInv, CountInv PROVE RepeatedOnlyWhenLost
    OBVIOUS
  <2>1. /\ crashes \in Nat /\ lost \in Nat /\ payments \in [Cards -> Nat]
        /\ \A s \in Subs : Cardinality(CardsOf(s)) \in Nat
    BY BoundsAssumption, FS_CardinalityType DEF TypeInv, TypeOK, CountInv
  <2>2. QED
    BY <2>1 DEF CountInv, One, RepeatedOnlyWhenLost
<1>4. QED
  BY <1>1, <1>2, <1>3, TypeCorrect, PTL DEF Spec

\* Applications are kept: the conjunction that the run checks.
THEOREM ApplicationsAreKeptCorrect == Spec => []ApplicationsAreKept
BY TypeOKCorrect, NoLostApplicationCorrect, RepeatedOnlyWhenLostCorrect, PTL
   DEF ApplicationsAreKept
=============================================================================
