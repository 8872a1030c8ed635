--------------------- MODULE RecruitOnboarding_proofs ---------------------
(***************************************************************************)
(* Theorems about RecruitOnboarding, for every set of cards and users,     *)
(* every retry limit and every bound on crashes and manual edits.          *)
(***************************************************************************)
EXTENDS RecruitOnboarding, TLAPS

-----------------------------------------------------------------------------
(***************************************************************************)
(* Type correctness.                                                       *)
(***************************************************************************)
\* Counting a failed attempt yields a state dictionary again.
LEMMA WithFailureType ==
  ASSUME NEW m \in Memories, NEW c \in Cards
  PROVE  WithFailure(m, c) \in Memories
<1> DEFINE n == m.failures[c] + 1
           f == [m.failures EXCEPT ![c] = n]
           d == IF n >= MaxAttempts THEN m.dead \cup {c} ELSE m.dead
<1>1. n \in Nat /\ f \in [Cards -> Nat] /\ d \in SUBSET Cards
  BY DEF Memories
<1>2. WithFailure(m, c) = [m EXCEPT !.failures = f, !.dead = d]
  BY DEF WithFailure, Memories
<1> HIDE DEF f, d
<1>3. QED
  BY <1>1, <1>2 DEF Memories

\* Abandoning an attempt keeps the daemon's variables in their types.
LEMMA GiveUpType ==
  ASSUME NEW m \in Memories, cur \in Cards, disk \in Memories,
         work \subseteq Cards \X Protons, addr \in Protons,
         live \in BOOLEAN, mailing \in BOOLEAN, GiveUp(m)
  PROVE  /\ mem' \in Memories /\ disk' \in Memories
         /\ pc' = "poll" /\ cur' = NoCard
         /\ work' \subseteq Cards \X Protons /\ addr' \in Protons
         /\ live' \in BOOLEAN /\ mailing' \in BOOLEAN
BY WithFailureType DEF GiveUp

\* Every variable keeps its type; a busy daemon, or request, has a card.
TypeInv ==
  /\ TypeOK
  /\ pc \in BusyPcs => cur \in Cards
  /\ portal.pc # "idle" => portal.card \in Cards

\* The variables never leave their types: the theorem all others build on.
THEOREM TypeCorrect == Spec => []TypeInv
<1>1. Init => TypeInv
  <2> SUFFICES ASSUME Init PROVE TypeInv
    OBVIOUS
  <2>1. mem \in Memories /\ disk \in Memories
    BY DEF Init, Memories, EmptyState
  <2>2. portal \in Requests /\ portal.pc = "idle"
    BY DEF Init, IdleRequest, Requests, Protons
  <2>3. crashes \in 0..MaxCrashes /\ edits \in 0..MaxEdits
    BY BoundsAssumption DEF Init
  <2>4. pc \in {"down", "idle", "poll"} /\ work \subseteq Cards \X Protons
        /\ cur \in Cards \cup {NoCard} /\ addr \in Protons
        /\ live \in BOOLEAN /\ mailing \in BOOLEAN
    BY DEF Init, Protons
  <2>5. stack \in [Cards -> Stacks] /\ proton \in [Cards -> Protons]
        /\ account \in [Users -> {"absent", "fresh", "used"}]
        /\ holders \in [Users -> SUBSET Cards] /\ welcomes \in [Cards -> Nat]
    BY DEF Init, Stacks
  <2>6. chosen = {} /\ grouped = {} /\ roster = {}
        /\ misled = {} /\ warned = {} /\ unheard = {} /\ pardoned = {}
        /\ rehearsed = {}
    BY DEF Init
  <2>7. pc \notin BusyPcs
    BY DEF Init, BusyPcs
  <2>8. QED
    BY <2>1, <2>2, <2>3, <2>4, <2>5, <2>6, <2>7 DEF TypeInv, TypeOK
<1>2. TypeInv /\ [Next]_vars => TypeInv'
  <2> SUFFICES ASSUME TypeInv, [Next]_vars PROVE TypeInv'
    OBVIOUS
  <2> USE UserOfAssumption, BoundsAssumption, NoCardAssumption
      DEF TypeInv, TypeOK, BusyPcs, deckVars, cloudVars, historyVars,
          daemonVars, boundVars
  <2>1. CASE BeginPoll
    BY <2>1 DEF BeginPoll
  <2>2. CASE SkipCard
    BY <2>2 DEF SkipCard
  <2>3. CASE RejectCard
    BY <2>3, WithFailureType DEF RejectCard
  <2>4. CASE StartCard
    <3>1. PICK w \in work : cur' = w[1] /\ addr' = w[2] /\ work' = work \ {w}
      BY <2>4 DEF StartCard
    <3>2. w[1] \in Cards /\ w[2] \in Protons
      BY <3>1
    <3>3. QED
      BY <2>4, <3>1, <3>2 DEF StartCard
  <2>5. CASE CreateAccount
    BY <2>5 DEF CreateAccount, PasswordReplaced, GoOn, user
  <2>6. CASE AccountExists
    BY <2>6 DEF AccountExists, GoOn, user
  <2>7. CASE CreateReplyLost
    BY <2>7, GiveUpType DEF CreateReplyLost, PasswordReplaced, GoOn, user
  <2>8. CASE CreateFails
    BY <2>8, GiveUpType DEF CreateFails, user
  <2>9. CASE ReadLastLogin
    BY <2>9 DEF ReadLastLogin, GoOn, user
  <2>10. CASE LastLoginUnreadable
    BY <2>10 DEF LastLoginUnreadable, GoOn
  <2>11. CASE ResetPassword
    BY <2>11, GiveUpType DEF ResetPassword, PasswordReplaced, GoOn, Overtaken, user, Requests, Protons
  <2>12. CASE ResetFails
    BY <2>12, GiveUpType DEF ResetFails, user
  <2>13. CASE AddGroups
    BY <2>13 DEF AddGroups, TellS1, GoOn, user
  <2>14. CASE InsertMember
    BY <2>14, GiveUpType DEF InsertMember, GoOn, user
  <2>15. CASE InsertFails
    BY <2>15, GiveUpType DEF InsertFails, user
  <2>16. CASE SendWelcome
    <3>1. misled' \subseteq Cards /\ holders' \in [Users -> SUBSET Cards]
      BY <2>16 DEF SendWelcome, Delivered
    <3>2. welcomes' \in [Cards -> Nat]
      BY <2>16 DEF SendWelcome
    <3>3. CASE mem' = [mem EXCEPT !.welcomed = @ \cup {cur}] /\ pc' = "finish"
               /\ UNCHANGED <<disk, work, cur, addr, live, mailing>>
      BY <2>16, <3>1, <3>2, <3>3 DEF SendWelcome, Memories
    <3>4. CASE GiveUp(mem)
      BY <2>16, <3>1, <3>2, <3>4, GiveUpType DEF SendWelcome
    <3>5. QED
      BY <2>16, <3>3, <3>4 DEF SendWelcome
  <2>17. CASE WelcomeFails
    BY <2>17, GiveUpType DEF WelcomeFails, user
  <2>18. CASE WelcomeBounces
    <3>1. stack' \in [Cards -> Stacks]
      BY <2>18 DEF WelcomeBounces, Stacks
    <3>2. [mem EXCEPT !.dead = @ \cup {cur}] \in Memories
      BY <2>18 DEF WelcomeBounces, Memories
    <3>3. GiveUp([mem EXCEPT !.dead = @ \cup {cur}])
      BY <2>18 DEF WelcomeBounces
    <3>4. QED
      BY <2>18, <3>1, <3>2, <3>3, GiveUpType DEF WelcomeBounces
  <2>19. CASE WelcomeNotNeeded
    BY <2>19 DEF WelcomeNotNeeded, GoOn
  <2>20. CASE FinishCard
    BY <2>20 DEF FinishCard, Memories, Stacks
  <2>21. CASE SaveState
    BY <2>21 DEF SaveState
  <2>22. CASE SaveFails
    BY <2>22 DEF SaveFails
  <2>23. CASE Restart
    BY <2>23 DEF Restart
  <2>24. CASE Crash
    BY <2>24 DEF Crash, EmptyState, Memories
  <2>25. CASE DryRun
    <3>1. disk' \in Memories
      <4>1. PICK o \in SUBSET Cards, f \in [Cards -> Nat], d \in SUBSET Cards :
              disk' = [disk EXCEPT !.onboarded = o, !.failures = f, !.dead = d]
        <5> DEFINE tried == {c \in Cards \ (disk.onboarded \cup disk.dead) :
                               stack[c] = "approved"}
                   passed == {c \in tried : proton[c] # "missing"}
                   f == [c \in Cards |-> IF c \in passed THEN 0
                                        ELSE IF c \in tried THEN disk.failures[c] + 1
                                        ELSE disk.failures[c]]
                   o == disk.onboarded \cup passed
                   d == disk.dead \cup {c \in tried \ passed : f[c] >= MaxAttempts}
        <5>1. f \in [Cards -> Nat]
          BY DEF Memories
        <5>2. o \in SUBSET Cards /\ d \in SUBSET Cards
          BY DEF Memories
        <5>3. disk' = [disk EXCEPT !.onboarded = o, !.failures = f, !.dead = d]
          BY <2>25 DEF DryRun
        <5> HIDE DEF f, o, d
        <5>4. QED
          BY <5>1, <5>2, <5>3
      <4>2. QED
        BY <4>1 DEF Memories
    <3>2. pardoned' \subseteq Cards /\ rehearsed' \subseteq Cards
      BY <2>25 DEF DryRun
    <3>3. QED
      BY <2>25, <3>1, <3>2 DEF DryRun
  <2>26. CASE PortalResets
    <3>1. portal' \in Requests
      BY <2>26 DEF PortalResets, Requests
    <3>2. live' \in BOOLEAN /\ holders' \in [Users -> SUBSET Cards]
          /\ chosen' \subseteq Users
      BY <2>26 DEF PortalResets, PasswordReplaced
    <3>3. portal'.pc = "mail" /\ portal'.card = portal.card
          /\ portal.card \in Cards
      BY <2>26 DEF PortalResets, Requests
    <3>4. QED
      BY <2>26, <3>1, <3>2, <3>3 DEF PortalResets
  <2>27. CASE PortalMails
    <3>1. portal' \in Requests
      BY <2>27 DEF PortalMails, IdleRequest, Requests, Protons
    <3>2. misled' \subseteq Cards /\ holders' \in [Users -> SUBSET Cards]
      <4>1. CASE UNCHANGED <<holders, misled>>
        BY <4>1
      <4>2. CASE Delivered(portal.card, portal.password = "live")
        BY <2>27, <4>2 DEF Delivered, PortalMails, Requests
      <4>3. QED
        BY <2>27, <4>1, <4>2 DEF PortalMails
    <3>3. portal'.pc = "idle"
      BY <2>27 DEF PortalMails, IdleRequest
    <3>4. QED
      BY <2>27, <3>1, <3>2, <3>3 DEF PortalMails
  <2>28. ASSUME NEW c \in Cards, Approve(c) PROVE TypeInv'
    BY <2>28 DEF Approve, Stacks
  <2>29. ASSUME NEW c \in Cards, Recall(c) PROVE TypeInv'
    BY <2>29 DEF Recall, Stacks
  <2>30. ASSUME NEW c \in Cards, Pardon(c) PROVE TypeInv'
    BY <2>30 DEF Pardon, Memories
  <2>31. ASSUME NEW c \in Cards, AdvanceCard(c) PROVE TypeInv'
    BY <2>31 DEF AdvanceCard, IdleRequest, Stacks, Requests, Protons
  <2>32. ASSUME NEW c \in Cards, LogIn(c) PROVE TypeInv'
    BY <2>32 DEF LogIn
  <2>33. ASSUME NEW c \in Cards, ChoosePassword(c) PROVE TypeInv'
    BY <2>33 DEF ChoosePassword, Overtaken, Requests, Protons
  <2>34. ASSUME NEW c \in Cards, NEW p \in Protons, SetProton(c, p) PROVE TypeInv'
    BY <2>34 DEF SetProton
  <2>35. CASE UNCHANGED vars
    BY <2>35 DEF vars
  <2>36. QED
    BY <2>1, <2>2, <2>3, <2>4, <2>5, <2>6, <2>7, <2>8, <2>9, <2>10, <2>11, <2>12, <2>13, <2>14, <2>15, <2>16, <2>17, <2>18, <2>19, <2>20, <2>21, <2>22, <2>23, <2>24, <2>25, <2>26, <2>27, <2>28, <2>29, <2>30, <2>31, <2>32, <2>33, <2>34, <2>35
       DEF Next, Daemon, HandleCard, Portal
<1>3. QED
  BY <1>1, <1>2, PTL DEF Spec
-----------------------------------------------------------------------------
(***************************************************************************)
(* Credentials come after the roster row.                                  *)
(***************************************************************************)
\* User u has a Nextcloud account and a row in the members table.
Enrolled(u) == account[u] # "absent" /\ u \in roster

(***************************************************************************)
(* CredentialsAfterRoster is not inductive: what the daemon has done for   *)
(* the card in hand must be known at each step, and what state.json says   *)
(* must be true as well, because a restart believes it.                    *)
(***************************************************************************)
RosterInv ==
  /\ pc \in BusyPcs \ {"create"} => account[user] # "absent"
  /\ pc \in {"mail", "finish"} => user \in roster
  /\ \A c \in Cards :
       \/ welcomes[c] > 0 \/ stack[c] = "complete"
       \/ c \in (mem.onboarded \cup disk.onboarded) \ rehearsed
       => Enrolled(UserOf[c])

\* No step of the system removes an account or a roster row.
LEMMA EnrolmentKept ==
  ASSUME TypeInv, [Next]_vars
  PROVE  /\ \A u \in Users : account[u] # "absent" => account'[u] # "absent"
         /\ roster \subseteq roster'
<1> USE UserOfAssumption DEF TypeInv, TypeOK
<1>1. \A u \in Users : account[u] # "absent" => account'[u] # "absent"
  <2>1. CASE account' = account
    BY <2>1
  <2>2. CASE CreateAccount \/ CreateReplyLost
    BY <2>2 DEF CreateAccount, CreateReplyLost
  <2>3. ASSUME NEW c \in Cards, LogIn(c)
        PROVE  \A u \in Users : account[u] # "absent" => account'[u] # "absent"
    BY <2>3 DEF LogIn
  <2>4. QED
    BY <2>1, <2>2, <2>3
       DEF Next, vars, cloudVars, Daemon, HandleCard, Portal,
           BeginPoll, SkipCard, RejectCard, StartCard, SaveState, SaveFails,
           AccountExists, CreateFails, ReadLastLogin, LastLoginUnreadable,
           ResetPassword, ResetFails, AddGroups, InsertMember, InsertFails,
           SendWelcome, WelcomeFails, WelcomeBounces, WelcomeNotNeeded,
           FinishCard, Restart, Crash, DryRun, PortalResets, PortalMails, Approve,
           Recall, SetProton, Pardon, AdvanceCard, ChoosePassword
<1>2. roster \subseteq roster'
  <2>1. CASE roster' = roster
    BY <2>1
  <2>2. CASE InsertMember
    BY <2>2 DEF InsertMember
  <2>3. QED
    BY <2>1, <2>2
       DEF Next, vars, cloudVars, Daemon, HandleCard, Portal,
           BeginPoll, SkipCard, RejectCard, StartCard, SaveState, SaveFails,
           CreateAccount, AccountExists, CreateReplyLost, CreateFails,
           ReadLastLogin, LastLoginUnreadable,
           ResetPassword, ResetFails, AddGroups, InsertFails,
           SendWelcome, WelcomeFails, WelcomeBounces, WelcomeNotNeeded,
           FinishCard, Restart, Crash, DryRun, PortalResets, PortalMails, Approve,
           Recall, SetProton, Pardon, AdvanceCard, LogIn, ChoosePassword
<1>3. QED
  BY <1>1, <1>2

\* Abandoning an attempt records nothing as onboarded.
LEMMA GiveUpForgets ==
  ASSUME NEW m \in Memories, cur \in Cards, m.onboarded = mem.onboarded,
         m.welcomed = mem.welcomed, GiveUp(m)
  PROVE  /\ mem'.onboarded = mem.onboarded /\ mem'.welcomed = mem.welcomed
         /\ disk' = disk /\ pc' = "poll"
BY DEF GiveUp, WithFailure, Memories

\* What the daemon, the portal, S1 and the recruit do keeps RosterInv.
LEMMA RosterInvCorrect == Spec => []RosterInv
<1>1. Init => RosterInv
  BY DEF Init, RosterInv, BusyPcs, EmptyState
<1>2. TypeInv /\ RosterInv /\ [Next]_vars => RosterInv'
  <2> SUFFICES ASSUME TypeInv, RosterInv, [Next]_vars PROVE RosterInv'
    OBVIOUS
  <2>0. /\ \A u \in Users : account[u] # "absent" => account'[u] # "absent"
        /\ \A u \in Users : Enrolled(u) => Enrolled(u)'
        /\ roster \subseteq roster'
    BY EnrolmentKept DEF Enrolled
  <2> USE UserOfAssumption, <2>0
      DEF TypeInv, TypeOK, RosterInv, BusyPcs, user,
          deckVars, cloudVars, historyVars, daemonVars, boundVars
  <2>1. CASE BeginPoll
    BY <2>1
       DEF BeginPoll
  <2>2. CASE SkipCard
    BY <2>2
       DEF SkipCard
  <2>3. CASE RejectCard
    BY <2>3
       DEF RejectCard, WithFailure, Memories
  <2>4. CASE StartCard
    BY <2>4
       DEF StartCard
  <2>5. CASE SaveState
    BY <2>5
       DEF SaveState
  <2>6. CASE SaveFails
    BY <2>6
       DEF SaveFails
  <2>7. CASE CreateAccount
    BY <2>7
       DEF CreateAccount, GoOn
  <2>8. CASE AccountExists
    BY <2>8
       DEF AccountExists, GoOn
  <2>9. CASE CreateReplyLost
    BY <2>9, GiveUpForgets
       DEF CreateReplyLost, GoOn
  <2>10. CASE CreateFails
    BY <2>10, GiveUpForgets
       DEF CreateFails
  <2>11. CASE ReadLastLogin
    BY <2>11
       DEF ReadLastLogin, GoOn
  <2>12. CASE LastLoginUnreadable
    BY <2>12
       DEF LastLoginUnreadable, GoOn
  <2>13. CASE ResetPassword
    BY <2>13, GiveUpForgets
       DEF ResetPassword, GoOn
  <2>14. CASE ResetFails
    BY <2>14, GiveUpForgets
       DEF ResetFails
  <2>15. CASE AddGroups
    BY <2>15
       DEF AddGroups, GoOn
  <2>16. CASE InsertMember
    BY <2>16, GiveUpForgets
       DEF InsertMember, GoOn
  <2>17. CASE InsertFails
    BY <2>17, GiveUpForgets
       DEF InsertFails
  <2>18. CASE SendWelcome
    <3>1. Enrolled(user)
      BY <2>18 DEF SendWelcome, Enrolled
    <3>2. \A c \in Cards : welcomes'[c] > 0 => welcomes[c] > 0 \/ c = cur
      BY <2>18 DEF SendWelcome
    <3>3. mem'.onboarded = mem.onboarded /\ pc' \in {"finish", "poll"}
          /\ (pc' = "finish" => cur' = cur)
      BY <2>18, GiveUpForgets DEF SendWelcome, Memories
    <3>4. stack' = stack /\ disk' = disk /\ rehearsed' = rehearsed
      BY <2>18 DEF SendWelcome, GiveUp
    <3>5. QED
      BY <3>1, <3>2, <3>3, <3>4 DEF Enrolled
  <2>19. CASE WelcomeFails
    BY <2>19, GiveUpForgets
       DEF WelcomeFails
  <2>20. CASE WelcomeBounces
    BY <2>20, GiveUpForgets
       DEF WelcomeBounces, Memories
  <2>21. CASE WelcomeNotNeeded
    BY <2>21
       DEF WelcomeNotNeeded, GoOn
  <2>22. CASE FinishCard
    <3>1. Enrolled(user)
      BY <2>22 DEF FinishCard, Enrolled
    <3>2. \A c \in Cards : stack'[c] = "complete" => stack[c] = "complete" \/ c = cur
      BY <2>22 DEF FinishCard
    <3>3. mem'.onboarded = mem.onboarded \cup {cur}
      BY <2>22 DEF FinishCard, Memories
    <3>4. QED
      BY <2>22, <3>1, <3>2, <3>3 DEF FinishCard, Enrolled
  <2>23. CASE Restart
    BY <2>23
       DEF Restart
  <2>24. CASE Crash
    BY <2>24
       DEF Crash, EmptyState
  <2>25. CASE DryRun
    <3>1. disk'.onboarded \subseteq disk.onboarded \cup rehearsed'
      BY <2>25 DEF DryRun, Memories
    <3>2. QED
      BY <2>25, <3>1 DEF DryRun
  <2>26. CASE PortalResets
    BY <2>26
       DEF PortalResets
  <2>27. CASE PortalMails
    BY <2>27
       DEF PortalMails
  <2>28. ASSUME NEW c \in Cards, Approve(c) PROVE RosterInv'
    BY <2>28 DEF Approve
  <2>29. ASSUME NEW c \in Cards, Recall(c) PROVE RosterInv'
    BY <2>29 DEF Recall
  <2>30. ASSUME NEW c \in Cards, Pardon(c) PROVE RosterInv'
    BY <2>30 DEF Pardon, Memories
  <2>31. ASSUME NEW c \in Cards, AdvanceCard(c) PROVE RosterInv'
    BY <2>31 DEF AdvanceCard
  <2>32. ASSUME NEW c \in Cards, LogIn(c) PROVE RosterInv'
    BY <2>32 DEF LogIn
  <2>33. ASSUME NEW c \in Cards, ChoosePassword(c) PROVE RosterInv'
    BY <2>33 DEF ChoosePassword
  <2>34. ASSUME NEW c \in Cards, NEW p \in Protons, SetProton(c, p) PROVE RosterInv'
    BY <2>34 DEF SetProton
  <2>35. CASE UNCHANGED vars
    BY <2>35 DEF vars
  <2>36. QED
    BY <2>1, <2>2, <2>3, <2>4, <2>5, <2>6, <2>7, <2>8, <2>9, <2>10, <2>11,
       <2>12, <2>13, <2>14, <2>15, <2>16, <2>17, <2>18, <2>19, <2>20, <2>21,
       <2>22, <2>23, <2>24, <2>25, <2>26, <2>27, <2>28, <2>29, <2>30, <2>31, <2>32,
       <2>33, <2>34, <2>35
       DEF Next, Daemon, HandleCard, Portal
<1>3. QED
  BY <1>1, <1>2, TypeCorrect, PTL DEF Spec

(***************************************************************************)
(* Credentials are mailed, a card is completed, and (but for a dry run) is *)
(* recorded as onboarded only after the account and the roster row exist,  *)
(* whatever fails, crashes or is edited.                                   *)
(***************************************************************************)
THEOREM RosterFirst == Spec => []CredentialsAfterRoster
<1>1. TypeInv /\ RosterInv => CredentialsAfterRoster
  BY UserOfAssumption DEF RosterInv, CredentialsAfterRoster, Enrolled
<1>2. QED
  BY <1>1, TypeCorrect, RosterInvCorrect, PTL

\* The type invariant of the runs.
THEOREM TypeOKCorrect == Spec => []TypeOK
<1>1. TypeInv => TypeOK
  BY DEF TypeInv
<1>2. QED
  BY <1>1, TypeCorrect, PTL

-----------------------------------------------------------------------------
(***************************************************************************)
(* Mailed passwords, when S1 approves cards in Deck and not through the    *)
(* portal's advance button.                                                *)
(***************************************************************************)
(***************************************************************************)
(* From the moment the daemon has set a password until it has mailed it,   *)
(* the password is current and nobody else holds it.                       *)
(***************************************************************************)
PasswordInv ==
  /\ portal.pc = "idle"
  /\ pc \in {"groups", "insert", "mail"} /\ mailing =>
       live /\ holders[user] = {}
  /\ misled = {}

(***************************************************************************)
(* Without the portal's own welcome email, every mailed password opened    *)
(* the account when it was mailed, even for applicants of the same name.   *)
(***************************************************************************)
LEMMA PasswordInvCorrect ==
  ASSUME PortalCards = {}
  PROVE  Spec => []PasswordInv
<1>1. Init => PasswordInv
  BY DEF Init, PasswordInv, IdleRequest
<1>2. TypeInv /\ PasswordInv /\ [Next]_vars => PasswordInv'
  <2> SUFFICES ASSUME TypeInv, PasswordInv, [Next]_vars PROVE PasswordInv'
    OBVIOUS
  <2> USE UserOfAssumption, NoCardAssumption
      DEF TypeInv, TypeOK, PasswordInv, BusyPcs, user,
          deckVars, cloudVars, historyVars, daemonVars, boundVars
  <2>1. CASE BeginPoll
    BY <2>1
       DEF BeginPoll
  <2>2. CASE SkipCard
    BY <2>2
       DEF SkipCard
  <2>3. CASE RejectCard
    BY <2>3
       DEF RejectCard, WithFailure, Memories
  <2>4. CASE StartCard
    BY <2>4
       DEF StartCard
  <2>5. CASE SaveState
    BY <2>5
       DEF SaveState
  <2>6. CASE SaveFails
    BY <2>6
       DEF SaveFails
  <2>7. CASE CreateAccount
    BY <2>7
       DEF CreateAccount, GoOn, PasswordReplaced
  <2>8. CASE AccountExists
    BY <2>8
       DEF AccountExists, GoOn
  <2>9. CASE CreateReplyLost
    BY <2>9, GiveUpForgets
       DEF CreateReplyLost, GoOn, PasswordReplaced
  <2>10. CASE CreateFails
    BY <2>10, GiveUpForgets
       DEF CreateFails
  <2>11. CASE ReadLastLogin
    BY <2>11
       DEF ReadLastLogin, GoOn
  <2>12. CASE LastLoginUnreadable
    BY <2>12
       DEF LastLoginUnreadable, GoOn
  <2>13. CASE ResetPassword
    BY <2>13, GiveUpForgets
       DEF ResetPassword, GoOn, PasswordReplaced, Overtaken, Requests
  <2>14. CASE ResetFails
    BY <2>14, GiveUpForgets
       DEF ResetFails
  <2>15. CASE AddGroups
    BY <2>15
       DEF AddGroups, GoOn
  <2>16. CASE InsertMember
    BY <2>16, GiveUpForgets
       DEF InsertMember, GoOn
  <2>17. CASE InsertFails
    BY <2>17, GiveUpForgets
       DEF InsertFails
  <2>18. CASE SendWelcome
    BY <2>18, GiveUpForgets
       DEF SendWelcome, Memories, Delivered
  <2>19. CASE WelcomeFails
    BY <2>19, GiveUpForgets
       DEF WelcomeFails
  <2>20. CASE WelcomeBounces
    BY <2>20, GiveUpForgets
       DEF WelcomeBounces, Memories
  <2>21. CASE WelcomeNotNeeded
    BY <2>21
       DEF WelcomeNotNeeded, GoOn
  <2>22. CASE FinishCard
    BY <2>22
       DEF FinishCard, Memories
  <2>23. CASE Restart
    BY <2>23
       DEF Restart
  <2>24. CASE Crash
    BY <2>24
       DEF Crash, EmptyState
  <2>25. CASE DryRun
    BY <2>25
       DEF DryRun
  <2>26. CASE PortalResets
    BY <2>26
       DEF PortalResets
  <2>27. CASE PortalMails
    BY <2>27
       DEF PortalMails
  <2>28. ASSUME NEW c \in Cards, Approve(c) PROVE PasswordInv'
    BY <2>28 DEF Approve
  <2>29. ASSUME NEW c \in Cards, Recall(c) PROVE PasswordInv'
    BY <2>29 DEF Recall
  <2>30. ASSUME NEW c \in Cards, Pardon(c) PROVE PasswordInv'
    BY <2>30 DEF Pardon, Memories
  <2>31. ASSUME NEW c \in Cards, AdvanceCard(c) PROVE PasswordInv'
    BY <2>31 DEF AdvanceCard
  <2>32. ASSUME NEW c \in Cards, LogIn(c) PROVE PasswordInv'
    BY <2>32 DEF LogIn
  <2>33. ASSUME NEW c \in Cards, ChoosePassword(c) PROVE PasswordInv'
    BY <2>33 DEF ChoosePassword, Overtaken, Requests
  <2>34. ASSUME NEW c \in Cards, NEW p \in Protons, SetProton(c, p) PROVE PasswordInv'
    BY <2>34 DEF SetProton
  <2>35. CASE UNCHANGED vars
    BY <2>35 DEF vars
  <2>36. QED
    BY <2>1, <2>2, <2>3, <2>4, <2>5, <2>6, <2>7, <2>8, <2>9, <2>10, <2>11,
       <2>12, <2>13, <2>14, <2>15, <2>16, <2>17, <2>18, <2>19, <2>20, <2>21,
       <2>22, <2>23, <2>24, <2>25, <2>26, <2>27, <2>28, <2>29, <2>30, <2>31, <2>32,
       <2>33, <2>34, <2>35
       DEF Next, Daemon, HandleCard, Portal
<1>3. QED
  BY <1>1, <1>2, TypeCorrect, PTL DEF Spec

THEOREM MailedPasswordWorksCorrect ==
  ASSUME PortalCards = {}
  PROVE  Spec => []MailedPasswordWorks
<1>1. PasswordInv => MailedPasswordWorks
  BY DEF PasswordInv, MailedPasswordWorks
<1>2. QED
  BY <1>1, PasswordInvCorrect, PTL


-----------------------------------------------------------------------------
(***************************************************************************)
(* Nobody is locked out.                                                   *)
(***************************************************************************)
CanLogIn(c) == c \in holders[UserOf[c]] \/ account[UserOf[c]] = "used"

(***************************************************************************)
(* The card in hand is not onboarded yet, so resetting its password takes  *)
(* nothing from a recruit who is; state.json lags behind memory but never  *)
(* holds more; and credentials are skipped only for an account in use.     *)
(***************************************************************************)
LoginInv ==
  /\ pc \in BusyPcs => cur \notin mem.onboarded
  /\ pc = "down" => mem.onboarded = {} /\ mem.welcomed = {}
  /\ pc # "down" => disk.onboarded \subseteq mem.onboarded
  /\ disk.welcomed \subseteq disk.onboarded
  /\ \A c \in mem.welcomed : c \in mem.onboarded \/ (pc = "finish" /\ c = cur)
  /\ pc \in {"groups", "insert", "mail"} /\ ~mailing => account[user] = "used"
  /\ pc = "finish" => CanLogIn(cur)
  /\ \A c \in Cards :
       c \in (mem.onboarded \cup disk.onboarded) \ rehearsed => CanLogIn(c)

(***************************************************************************)
(* If applicants have different user names, S1 approves in Deck and        *)
(* lastLogin is readable, a recruit the daemon calls onboarded, in memory  *)
(* or on disk, can log in, whatever crashes, lost replies and failed saves *)
(* happened before.  The recruits a dry run has recorded are not claimed.  *)
(***************************************************************************)
THEOREM OnboardedCanLogInCorrect ==
  ASSUME PortalCards = {}, "lastLogin" \notin Faults,
         \A c, d \in Cards : UserOf[c] = UserOf[d] => c = d
  PROVE  Spec => []OnboardedCanLogIn
<1>1. Init => LoginInv
  BY DEF Init, LoginInv, BusyPcs, EmptyState
<1>2. TypeInv /\ RosterInv /\ PasswordInv /\ LoginInv /\ [Next]_vars => LoginInv'
  <2> SUFFICES ASSUME TypeInv, RosterInv, PasswordInv, LoginInv, [Next]_vars
               PROVE  LoginInv'
    OBVIOUS
  <2> USE UserOfAssumption, NoCardAssumption
      DEF TypeInv, TypeOK, PasswordInv, LoginInv, BusyPcs, user,
          deckVars, cloudVars, historyVars, daemonVars, boundVars
  <2>1. CASE BeginPoll
    BY <2>1
       DEF BeginPoll, CanLogIn
  <2>2. CASE SkipCard
    BY <2>2
       DEF SkipCard, CanLogIn
  <2>3. CASE RejectCard
    BY <2>3
       DEF RejectCard, WithFailure, Memories, CanLogIn
  <2>4. CASE StartCard
    BY <2>4
       DEF StartCard, Skipped, CanLogIn
  <2>5. CASE SaveState
    BY <2>5
       DEF SaveState, CanLogIn
  <2>6. CASE SaveFails
    BY <2>6
       DEF SaveFails, CanLogIn
  <2>7. CASE CreateAccount
    BY <2>7
       DEF CreateAccount, GoOn, PasswordReplaced, CanLogIn, RosterInv, Enrolled
  <2>8. CASE AccountExists
    BY <2>8
       DEF AccountExists, GoOn, CanLogIn
  <2>9. CASE CreateReplyLost
    BY <2>9, GiveUpForgets
       DEF CreateReplyLost, GoOn, PasswordReplaced, CanLogIn, RosterInv, Enrolled
  <2>10. CASE CreateFails
    BY <2>10, GiveUpForgets
       DEF CreateFails, CanLogIn
  <2>11. CASE ReadLastLogin
    BY <2>11
       DEF ReadLastLogin, GoOn, CanLogIn, RosterInv
  <2>12. CASE LastLoginUnreadable
    BY <2>12
       DEF LastLoginUnreadable, GoOn, CanLogIn
  <2>13. CASE ResetPassword
    BY <2>13, GiveUpForgets
       DEF ResetPassword, GoOn, PasswordReplaced, CanLogIn
  <2>14. CASE ResetFails
    BY <2>14, GiveUpForgets
       DEF ResetFails, CanLogIn
  <2>15. CASE AddGroups
    BY <2>15
       DEF AddGroups, GoOn, CanLogIn
  <2>16. CASE InsertMember
    <3>1. /\ pc = "insert" /\ account' = account /\ holders' = holders
          /\ rehearsed' = rehearsed
      BY <2>16 DEF InsertMember
    <3>2. CASE GoOn("mail", live, mailing)
      BY <3>1, <3>2 DEF GoOn, CanLogIn
    <3>3. CASE GiveUp(mem)
      BY <3>1, <3>3, GiveUpForgets DEF CanLogIn
    <3>4. QED
      BY <2>16, <3>2, <3>3 DEF InsertMember
  <2>17. CASE InsertFails
    BY <2>17, GiveUpForgets
       DEF InsertFails, CanLogIn
  <2>18. CASE SendWelcome
    <3>1. CASE mem' = [mem EXCEPT !.welcomed = @ \cup {cur}] /\ pc' = "finish"
               /\ UNCHANGED <<disk, work, cur, addr, live, mailing>>
      <4>1. mem'.onboarded = mem.onboarded
            /\ mem'.welcomed = mem.welcomed \cup {cur}
        BY <3>1 DEF Memories
      <4>2. cur \in holders'[user] /\ account' = account
        BY <2>18 DEF SendWelcome, Delivered
      <4>3. \A c \in Cards : c \in holders[UserOf[c]] => c \in holders'[UserOf[c]]
        BY <2>18 DEF SendWelcome, Delivered
      <4>4. pc = "mail" /\ disk' = disk /\ cur' = cur /\ rehearsed' = rehearsed
        BY <2>18, <3>1 DEF SendWelcome
      <4>5. QED
        BY <3>1, <4>1, <4>2, <4>3, <4>4 DEF CanLogIn
    <3>2. CASE GiveUp(mem)
      <4>1. /\ mem'.onboarded = mem.onboarded /\ mem'.welcomed = mem.welcomed
            /\ disk' = disk /\ pc' = "poll"
        BY <2>18, <3>2, GiveUpForgets DEF SendWelcome
      <4>2. \A c \in Cards : c \in holders[UserOf[c]] => c \in holders'[UserOf[c]]
        BY <2>18 DEF SendWelcome, Delivered
      <4>3. account' = account /\ rehearsed' = rehearsed
        BY <2>18 DEF SendWelcome
      <4>4. pc = "mail"
        BY <2>18 DEF SendWelcome
      <4>5. QED
        BY <4>1, <4>2, <4>3, <4>4 DEF CanLogIn
    <3>3. QED
      BY <2>18, <3>1, <3>2 DEF SendWelcome
  <2>19. CASE WelcomeFails
    BY <2>19, GiveUpForgets
       DEF WelcomeFails, CanLogIn
  <2>20. CASE WelcomeBounces
    BY <2>20, GiveUpForgets
       DEF WelcomeBounces, Memories, CanLogIn
  <2>21. CASE WelcomeNotNeeded
    BY <2>21
       DEF WelcomeNotNeeded, GoOn, CanLogIn
  <2>22. CASE FinishCard
    <3>1. mem'.onboarded = mem.onboarded \cup {cur} /\ mem'.welcomed = mem.welcomed
      BY <2>22 DEF FinishCard, Memories
    <3>2. QED
      BY <2>22, <3>1 DEF FinishCard, CanLogIn
  <2>23. CASE Restart
    BY <2>23
       DEF Restart, CanLogIn
  <2>24. CASE Crash
    BY <2>24
       DEF Crash, EmptyState, CanLogIn
  <2>25. CASE DryRun
    <3>1. /\ disk'.onboarded \subseteq disk.onboarded \cup rehearsed'
          /\ disk.onboarded \subseteq disk'.onboarded
          /\ disk'.welcomed = disk.welcomed
      BY <2>25 DEF DryRun, Memories
    <3>2. pc = "down" /\ rehearsed \subseteq rehearsed'
      BY <2>25 DEF DryRun
    <3>3. QED
      BY <2>25, <3>1, <3>2 DEF DryRun, CanLogIn
  <2>26. CASE PortalResets
    BY <2>26
       DEF PortalResets, CanLogIn
  <2>27. CASE PortalMails
    BY <2>27
       DEF PortalMails, CanLogIn
  <2>28. ASSUME NEW c \in Cards, Approve(c) PROVE LoginInv'
    BY <2>28 DEF Approve, CanLogIn
  <2>29. ASSUME NEW c \in Cards, Recall(c) PROVE LoginInv'
    BY <2>29 DEF Recall, CanLogIn
  <2>30. ASSUME NEW c \in Cards, Pardon(c) PROVE LoginInv'
    BY <2>30 DEF Pardon, Memories, CanLogIn
  <2>31. ASSUME NEW c \in Cards, AdvanceCard(c) PROVE LoginInv'
    BY <2>31 DEF AdvanceCard, CanLogIn
  <2>32. ASSUME NEW c \in Cards, LogIn(c) PROVE LoginInv'
    BY <2>32 DEF LogIn, CanLogIn
  <2>33. ASSUME NEW c \in Cards, ChoosePassword(c) PROVE LoginInv'
    BY <2>33 DEF ChoosePassword, CanLogIn
  <2>34. ASSUME NEW c \in Cards, NEW p \in Protons, SetProton(c, p) PROVE LoginInv'
    BY <2>34 DEF SetProton, CanLogIn
  <2>35. CASE UNCHANGED vars
    BY <2>35 DEF vars, CanLogIn
  <2>36. QED
    BY <2>1, <2>2, <2>3, <2>4, <2>5, <2>6, <2>7, <2>8, <2>9, <2>10, <2>11,
       <2>12, <2>13, <2>14, <2>15, <2>16, <2>17, <2>18, <2>19, <2>20, <2>21,
       <2>22, <2>23, <2>24, <2>25, <2>26, <2>27, <2>28, <2>29, <2>30, <2>31, <2>32,
       <2>33, <2>34, <2>35
       DEF Next, Daemon, HandleCard, Portal
<1>3. TypeInv /\ LoginInv => OnboardedCanLogIn
  BY DEF LoginInv, OnboardedCanLogIn, CanLogIn, TypeInv, TypeOK, Memories
<1>4. QED
  BY <1>1, <1>2, <1>3, TypeCorrect, RosterInvCorrect, PasswordInvCorrect, PTL
     DEF Spec

-----------------------------------------------------------------------------
(***************************************************************************)
(* Nobody is onboarded by halves.                                          *)
(***************************************************************************)
(***************************************************************************)
(* The account of card c is in its groups, or S1 was told to add them, or  *)
(* Talk refused to tell S1.                                                *)
(***************************************************************************)
Settled(c) == UserOf[c] \in grouped \/ c \in warned \/ c \in unheard

(***************************************************************************)
(* The groups are settled before the roster row is written.  An account    *)
(* whose creation lost its reply may have none, and nobody knows: but a    *)
(* recruit gets into an account only by a password that was mailed, so an  *)
(* account in use, or with its password in a mailbox, is settled as well,  *)
(* which is why a retry may pass the groups by if the account is in use.   *)
(***************************************************************************)
GroupsInv ==
  /\ pc \in {"insert", "mail", "finish"} => Settled(cur)
  /\ \A c \in Cards :
       \/ holders[UserOf[c]] # {} \/ account[UserOf[c]] = "used"
       \/ c \in (mem.onboarded \cup disk.onboarded) \ rehearsed
       => Settled(c)

\* Nobody is taken out of the groups, and no warning is taken back.
LEMMA SettlementKept ==
  ASSUME [Next]_vars
  PROVE  \A c \in Cards : Settled(c) => Settled(c)'
<1>1. grouped \subseteq grouped'
  <2>1. CASE grouped' = grouped
    BY <2>1
  <2>2. CASE CreateAccount \/ CreateReplyLost \/ AddGroups
    BY <2>2 DEF CreateAccount, CreateReplyLost, AddGroups
  <2>3. QED
    BY <2>1, <2>2
       DEF Next, vars, cloudVars, Daemon, HandleCard, Portal,
           BeginPoll, SkipCard, RejectCard, StartCard, SaveState, SaveFails,
           AccountExists, CreateFails, ReadLastLogin, LastLoginUnreadable,
           ResetPassword, ResetFails, InsertMember, InsertFails,
           SendWelcome, WelcomeFails, WelcomeBounces, WelcomeNotNeeded,
           FinishCard, Restart, Crash, DryRun, PortalResets, PortalMails, Approve,
           Recall, SetProton, Pardon, AdvanceCard, LogIn, ChoosePassword
<1>2. warned \subseteq warned' /\ unheard \subseteq unheard'
  <2>1. CASE warned' = warned /\ unheard' = unheard
    BY <2>1
  <2>2. CASE AddGroups
    BY <2>2 DEF AddGroups, TellS1
  <2>3. QED
    BY <2>1, <2>2
       DEF Next, vars, historyVars, Daemon, HandleCard, Portal,
           BeginPoll, SkipCard, RejectCard, StartCard, SaveState, SaveFails,
           CreateAccount, AccountExists, CreateReplyLost, CreateFails,
           ReadLastLogin, LastLoginUnreadable,
           ResetPassword, ResetFails, InsertMember, InsertFails,
           SendWelcome, WelcomeFails, WelcomeBounces, WelcomeNotNeeded,
           FinishCard, Restart, Crash, DryRun, PortalResets, PortalMails, Approve,
           Recall, SetProton, Pardon, AdvanceCard, LogIn, ChoosePassword
<1>3. QED
  BY <1>1, <1>2 DEF Settled

(***************************************************************************)
(* If applicants have different user names, S1 approves in Deck and        *)
(* lastLogin is readable, nobody but in a dry run is onboarded outside the *)
(* Nextcloud groups without S1 being told, or Talk refusing the notice,    *)
(* whatever reply was lost and whatever the retry after it found.          *)
(***************************************************************************)
THEOREM NoSilentHalfOnboardingCorrect ==
  ASSUME PortalCards = {}, "lastLogin" \notin Faults,
         \A c, d \in Cards : UserOf[c] = UserOf[d] => c = d
  PROVE  Spec => []NoSilentHalfOnboarding
<1>1. Init => GroupsInv
  BY UserOfAssumption DEF Init, GroupsInv, EmptyState
<1>2. TypeInv /\ RosterInv /\ PasswordInv /\ GroupsInv /\ [Next]_vars => GroupsInv'
  <2> SUFFICES ASSUME TypeInv, RosterInv, PasswordInv, GroupsInv, [Next]_vars
               PROVE  GroupsInv'
    OBVIOUS
  <2>0. \A c \in Cards : Settled(c) => Settled(c)'
    BY SettlementKept
  <2> USE UserOfAssumption, NoCardAssumption, <2>0
      DEF TypeInv, TypeOK, PasswordInv, GroupsInv, BusyPcs, user,
          deckVars, cloudVars, historyVars, daemonVars, boundVars
  <2>1. CASE BeginPoll
    BY <2>1 DEF BeginPoll
  <2>2. CASE SkipCard
    BY <2>2 DEF SkipCard
  <2>3. CASE RejectCard
    BY <2>3 DEF RejectCard, WithFailure, Memories
  <2>4. CASE StartCard
    BY <2>4 DEF StartCard
  <2>5. CASE SaveState
    BY <2>5 DEF SaveState
  <2>6. CASE SaveFails
    BY <2>6 DEF SaveFails
  <2>7. CASE CreateAccount
    <3>1. cur' = cur /\ Settled(cur)'
      BY <2>7 DEF CreateAccount, GoOn, Settled
    <3>2. QED
      BY <2>7, <3>1 DEF CreateAccount, GoOn, PasswordReplaced
  <2>8. CASE AccountExists
    BY <2>8 DEF AccountExists, GoOn
  <2>9. CASE CreateReplyLost
    BY <2>9, GiveUpForgets DEF CreateReplyLost, GoOn, PasswordReplaced
  <2>10. CASE CreateFails
    BY <2>10, GiveUpForgets DEF CreateFails
  <2>11. CASE ReadLastLogin
    BY <2>11 DEF ReadLastLogin, GoOn, RosterInv
  <2>12. CASE LastLoginUnreadable
    BY <2>12 DEF LastLoginUnreadable, GoOn
  <2>13. CASE ResetPassword
    BY <2>13, GiveUpForgets DEF ResetPassword, GoOn, PasswordReplaced
  <2>14. CASE ResetFails
    BY <2>14, GiveUpForgets DEF ResetFails
  <2>15. CASE AddGroups
    <3>1. cur' = cur /\ Settled(cur)'
      BY <2>15 DEF AddGroups, TellS1, GoOn, Settled
    <3>2. QED
      BY <2>15, <3>1 DEF AddGroups, GoOn
  <2>16. CASE InsertMember
    <3>1. /\ pc = "insert" /\ account' = account /\ holders' = holders
          /\ rehearsed' = rehearsed
      BY <2>16 DEF InsertMember
    <3>2. CASE GoOn("mail", live, mailing)
      <4>1. cur' = cur /\ Settled(cur)'
        BY <3>1, <3>2 DEF GoOn, Settled
      <4>2. QED
        BY <3>1, <3>2, <4>1 DEF GoOn
    <3>3. CASE GiveUp(mem)
      BY <3>1, <3>3, GiveUpForgets
    <3>4. QED
      BY <2>16, <3>2, <3>3 DEF InsertMember
  <2>17. CASE InsertFails
    BY <2>17, GiveUpForgets DEF InsertFails
  <2>18. CASE SendWelcome
    <3>1. /\ pc = "mail" /\ pc' \in {"finish", "poll"} /\ (pc' = "finish" => cur' = cur)
          /\ mem'.onboarded = mem.onboarded /\ disk' = disk /\ account' = account
          /\ rehearsed' = rehearsed
      BY <2>18, GiveUpForgets DEF SendWelcome, Memories
    <3>2. UserOf[cur] \in grouped' \/ cur \in warned' \/ cur \in unheard'
      BY <2>18, <3>1 DEF SendWelcome, Settled
    <3>3. \A c \in Cards : holders'[UserOf[c]] # {} => holders[UserOf[c]] # {} \/ c = cur
      BY <2>18 DEF SendWelcome, Delivered
    <3>4. QED
      BY <3>1, <3>2, <3>3 DEF Settled
  <2>19. CASE WelcomeFails
    BY <2>19, GiveUpForgets DEF WelcomeFails
  <2>20. CASE WelcomeBounces
    BY <2>20, GiveUpForgets DEF WelcomeBounces, Memories
  <2>21. CASE WelcomeNotNeeded
    BY <2>21 DEF WelcomeNotNeeded, GoOn
  <2>22. CASE FinishCard
    BY <2>22 DEF FinishCard, Memories
  <2>23. CASE Restart
    BY <2>23 DEF Restart
  <2>24. CASE Crash
    BY <2>24 DEF Crash, EmptyState
  <2>25. CASE DryRun
    <3>1. disk'.onboarded \subseteq disk.onboarded \cup rehearsed'
      BY <2>25 DEF DryRun, Memories
    <3>2. pc = "down" /\ rehearsed \subseteq rehearsed'
      BY <2>25 DEF DryRun
    <3>3. QED
      BY <2>25, <3>1, <3>2 DEF DryRun
  <2>26. CASE PortalResets
    BY <2>26 DEF PortalResets
  <2>27. CASE PortalMails
    BY <2>27 DEF PortalMails
  <2>28. ASSUME NEW c \in Cards, Approve(c) PROVE GroupsInv'
    BY <2>28 DEF Approve
  <2>29. ASSUME NEW c \in Cards, Recall(c) PROVE GroupsInv'
    BY <2>29 DEF Recall
  <2>30. ASSUME NEW c \in Cards, Pardon(c) PROVE GroupsInv'
    BY <2>30 DEF Pardon, Memories
  <2>31. ASSUME NEW c \in Cards, AdvanceCard(c) PROVE GroupsInv'
    BY <2>31 DEF AdvanceCard
  <2>32. ASSUME NEW c \in Cards, LogIn(c) PROVE GroupsInv'
    BY <2>32 DEF LogIn
  <2>33. ASSUME NEW c \in Cards, ChoosePassword(c) PROVE GroupsInv'
    BY <2>33 DEF ChoosePassword
  <2>34. ASSUME NEW c \in Cards, NEW p \in Protons, SetProton(c, p) PROVE GroupsInv'
    BY <2>34 DEF SetProton
  <2>35. CASE UNCHANGED vars
    BY <2>35 DEF vars
  <2>36. QED
    BY <2>1, <2>2, <2>3, <2>4, <2>5, <2>6, <2>7, <2>8, <2>9, <2>10, <2>11,
       <2>12, <2>13, <2>14, <2>15, <2>16, <2>17, <2>18, <2>19, <2>20, <2>21,
       <2>22, <2>23, <2>24, <2>25, <2>26, <2>27, <2>28, <2>29, <2>30, <2>31, <2>32,
       <2>33, <2>34, <2>35
       DEF Next, Daemon, HandleCard, Portal
<1>3. TypeInv /\ GroupsInv => NoSilentHalfOnboarding
  BY DEF GroupsInv, NoSilentHalfOnboarding, Settled, TypeInv, TypeOK, Memories
<1>4. QED
  BY <1>1, <1>2, <1>3, TypeCorrect, RosterInvCorrect, PasswordInvCorrect, PTL
     DEF Spec

=============================================================================
