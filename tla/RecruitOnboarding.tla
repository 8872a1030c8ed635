------------------------- MODULE RecruitOnboarding -------------------------
(***************************************************************************)
(* Phase 2 of the recruit daemon (recruit-pipeline/recruit-daemon.py): the *)
(* cards of the "Approved -- Onboarding" Deck stack become members.  For   *)
(* one card the daemon makes a chain of external calls (Nextcloud account, *)
(* roster row in the portal database, welcome email, Deck move), any of    *)
(* which may fail, and some of which may take effect although the reply is *)
(* lost.  What it remembers lives in memory and reaches state.json only at *)
(* the end of a poll.                                                      *)
(*                                                                         *)
(* S1 staff act on the same cards at any moment: in Deck, through the      *)
(* portal's "advance" button (app/routes/s1_admin.py), which mails         *)
(* credentials of its own, and by editing state.json.                      *)
(***************************************************************************)
EXTENDS Naturals, FiniteSets

CONSTANTS
  Cards,          \* ids of the Deck cards
  Users,          \* Nextcloud user names
  UserOf,         \* the user name first.last computed from a card's legal name
  MaxAttempts,    \* MAX_ONBOARD_ATTEMPTS
  Faults,         \* the kinds of failure the environment exhibits
  PortalCards,    \* the cards S1 approves with the portal's advance button
  MaxCrashes,     \* bound on daemon crashes
  MaxEdits,       \* bound on what S1 staff do by hand
  NoCard          \* "no card is being handled"

(***************************************************************************)
(* The failures: a Nextcloud call is refused ("nc"), takes effect but its  *)
(* reply is lost ("lostReply"), or the lastLogin field cannot be read      *)
(* ("lastLogin"); the portal database raises, before or after the commit   *)
(* ("db"); SMTP fails for now ("smtp") or after it accepted the message    *)
(* ("lostAck"); both Deck calls that move a card fail ("deck"); Talk       *)
(* refuses a notice to S1 ("talk"); state.json cannot be written ("save"). *)
(***************************************************************************)
FaultKinds == {"nc", "lostReply", "lastLogin", "db", "smtp", "lostAck",
               "deck", "talk", "save"}

ASSUME UserOfAssumption == UserOf \in [Cards -> Users]
ASSUME MaxAttemptsAssumption == MaxAttempts \in Nat \ {0}
ASSUME BoundsAssumption == MaxCrashes \in Nat /\ MaxEdits \in Nat
ASSUME FaultsAssumption == Faults \subseteq FaultKinds
ASSUME PortalCardsAssumption == PortalCards \subseteq Cards
ASSUME NoCardAssumption == NoCard \notin Cards

VARIABLES
  stack,      \* card -> the Deck stack it is in
  proton,     \* card -> the Proton Mail field of its description
  account,    \* user -> "absent", "fresh" (never logged in) or "used"
  chosen,     \* the users whose password is one they chose themselves
  grouped,    \* the users that are in all their Nextcloud groups
  roster,     \* the users that have a row in the members table
  holders,    \* user -> the cards whose mailbox holds the current password
  welcomes,   \* card -> number of daemon welcome emails delivered for it
  misled,     \* the cards that were ever mailed a password that opens nothing
  warned,     \* the cards for which S1 was told to add groups by hand
  unheard,    \* the cards for which Talk refused to tell S1 so
  pardoned,   \* the cards S1 took off the dead-letter list, not tried since
  rehearsed,  \* the cards a dry run has recorded as onboarded
  mem, disk,  \* the daemon's state dictionary, and state.json
  pc,         \* where the daemon is
  work,       \* the cards of this poll still to visit, as they were listed
  cur, addr,  \* the card being onboarded, and its Proton address as listed
  live,       \* is nc_password the current password of the card's account?
  mailing,    \* send_welcome
  portal,     \* the advance request between two of its awaits
  crashes, edits

deckVars == <<stack, proton>>
cloudVars == <<account, chosen, grouped, roster, holders>>
historyVars == <<welcomes, misled, warned, unheard, pardoned, rehearsed>>
daemonVars == <<mem, disk, pc, work, cur, addr, live, mailing>>
boundVars == <<crashes, edits>>
vars == <<deckVars, cloudVars, historyVars, daemonVars, portal, boundVars>>

Stacks == {"documents", "approved", "complete"}
\* "bounces": well formed, but the mail server refuses the recipient for good
Protons == {"missing", "bounces", "good"}
Memories == [onboarded : SUBSET Cards, welcomed : SUBSET Cards,
             dead : SUBSET Cards, failures : [Cards -> Nat]]
BusyPcs == {"create", "exists", "reset", "groups", "insert", "mail", "finish"}
Requests == [card : Cards \cup {NoCard}, addr : Protons,
             pc : {"idle", "reset", "mail"},
             password : {"none", "stale", "live"}]

TypeOK ==
  /\ stack \in [Cards -> Stacks]
  /\ proton \in [Cards -> Protons]
  /\ account \in [Users -> {"absent", "fresh", "used"}]
  /\ chosen \subseteq Users
  /\ grouped \subseteq Users
  /\ roster \subseteq Users
  /\ holders \in [Users -> SUBSET Cards]
  /\ welcomes \in [Cards -> Nat]
  /\ misled \subseteq Cards
  /\ warned \subseteq Cards
  /\ unheard \subseteq Cards
  /\ pardoned \subseteq Cards
  /\ rehearsed \subseteq Cards
  /\ mem \in Memories
  /\ disk \in Memories
  /\ pc \in {"down", "idle", "poll"} \cup BusyPcs
  /\ work \subseteq Cards \X Protons
  /\ cur \in Cards \cup {NoCard}
  /\ addr \in Protons
  /\ live \in BOOLEAN
  /\ mailing \in BOOLEAN
  /\ portal \in Requests
  /\ crashes \in 0..MaxCrashes
  /\ edits \in 0..MaxEdits

user == UserOf[cur]     \* nc_username

EmptyState == [onboarded |-> {}, welcomed |-> {}, dead |-> {},
               failures |-> [c \in Cards |-> 0]]
IdleRequest == [card |-> NoCard, addr |-> "missing", pc |-> "idle",
                password |-> "none"]

Init ==
  /\ stack = [c \in Cards |-> "documents"]
  /\ proton \in [Cards -> Protons]
  /\ account = [u \in Users |-> "absent"]
  /\ chosen = {} /\ grouped = {} /\ roster = {}
  /\ holders = [u \in Users |-> {}]
  /\ welcomes = [c \in Cards |-> 0]
  /\ misled = {} /\ warned = {} /\ unheard = {}
  /\ pardoned = {} /\ rehearsed = {}
  /\ mem = EmptyState /\ disk = EmptyState
  /\ pc = "idle" /\ work = {} /\ cur = NoCard /\ addr = "missing"
  /\ live = FALSE /\ mailing = FALSE
  /\ portal = IdleRequest
  /\ crashes = 0 /\ edits = 0

-----------------------------------------------------------------------------
(***************************************************************************)
(* Helpers.                                                                *)
(***************************************************************************)
\* onboard_member's early return: done already, or given up on
Skipped(c) == c \in mem.onboarded \/ c \in mem.dead

\* Mutant: the failures are counted down
CountsDown(m, c) ==
  [m EXCEPT !.failures[c] = @ - 1]

\* Mutant: no attempt is the last one
NeverGivesUp(m, c) ==
  [m EXCEPT !.failures[c] = IF @ < MaxAttempts THEN @ + 1 ELSE @]

\* What the wrapper records when _onboard_member returns False
WithFailure(m, c) ==
  LET n == m.failures[c] + 1
  IN  [m EXCEPT !.failures[c] = n,
                !.dead = IF n >= MaxAttempts THEN @ \cup {c} ELSE @]

\* The attempt on card cur fails: count it and go on to the next card
GiveUp(m) ==
  /\ mem' = WithFailure(m, cur)
  /\ pc' = "poll" /\ cur' = NoCard
  /\ UNCHANGED <<disk, work, addr, live, mailing>>

\* The attempt on card cur goes on with step p
GoOn(p, l, m) ==
  /\ pc' = p /\ live' = l /\ mailing' = m
  /\ UNCHANGED <<mem, disk, work, cur, addr>>

\* The password of user u is replaced by one no mailbox holds yet
PasswordReplaced(u) ==
  /\ holders' = [holders EXCEPT ![u] = {}]
  /\ chosen' = chosen \ {u}

-----------------------------------------------------------------------------
(***************************************************************************)
(* The daemon's poll.                                                      *)
(***************************************************************************)
BeginPoll ==
  /\ pc = "idle"
  /\ pc' = "poll"
  /\ work' = {<<c, proton[c]>> : c \in {d \in Cards : stack[d] = "approved"}}
  /\ UNCHANGED <<deckVars, cloudVars, historyVars, mem, disk, cur, addr, live,
                 mailing, portal, boundVars>>

SkipCard ==
  /\ pc = "poll"
  /\ \E w \in work : Skipped(w[1]) /\ work' = work \ {w}
  /\ UNCHANGED <<deckVars, cloudVars, historyVars, mem, disk, pc, cur, addr,
                 live, mailing, portal, boundVars>>

\* No usable Proton address on the card as it was listed
RejectCard ==
  /\ pc = "poll"
  /\ \E w \in work :
       /\ ~Skipped(w[1]) /\ w[2] = "missing"
       /\ work' = work \ {w}
       /\ mem' = WithFailure(mem, w[1])
       /\ pardoned' = pardoned \ {w[1]}
  /\ UNCHANGED <<deckVars, cloudVars, welcomes, misled, warned, unheard,
                 rehearsed, disk, pc, cur, addr, live, mailing, portal,
                 boundVars>>

StartCard ==
  /\ pc = "poll"
  /\ \E w \in work :
       /\ ~Skipped(w[1]) /\ w[2] # "missing"
       /\ work' = work \ {w}
       /\ cur' = w[1] /\ addr' = w[2]
       /\ pardoned' = pardoned \ {w[1]}
  /\ pc' = "create" /\ live' = FALSE /\ mailing' = TRUE
  /\ UNCHANGED <<deckVars, cloudVars, welcomes, misled, warned, unheard,
                 rehearsed, mem, disk, portal, boundVars>>

\* save_state at the end of a poll in which no phase raised
SaveState ==
  /\ pc = "poll" /\ work = {}
  /\ disk' = mem
  /\ pc' = "idle"
  /\ UNCHANGED <<deckVars, cloudVars, historyVars, mem, work, cur, addr, live,
                 mailing, portal, boundVars>>

SaveFails ==
  /\ "save" \in Faults
  /\ pc = "poll" /\ work = {}
  /\ pc' = "idle"
  /\ UNCHANGED <<deckVars, cloudVars, historyVars, mem, disk, work, cur, addr,
                 live, mailing, portal, boundVars>>

-----------------------------------------------------------------------------
(***************************************************************************)
(* create_nc_account and the recovery of an account that already exists.   *)
(***************************************************************************)
CreateAccount ==
  /\ pc = "create" /\ account[user] = "absent"
  /\ account' = [account EXCEPT ![user] = "fresh"]
  /\ grouped' = grouped \cup {user}
  /\ PasswordReplaced(user)
  /\ GoOn("insert", TRUE, TRUE)
  /\ UNCHANGED <<deckVars, roster, historyVars, portal, boundVars>>

\* OCS 102 "User already exists"
AccountExists ==
  /\ pc = "create" /\ account[user] # "absent"
  /\ GoOn("exists", FALSE, TRUE)
  /\ UNCHANGED <<deckVars, cloudVars, historyVars, portal, boundVars>>

(***************************************************************************)
(* Nextcloud makes the account, perhaps without all its groups, and the    *)
(* reply is lost.  A retry or nc_user_exists finds the account, or that    *)
(* question fails as well and the attempt is abandoned.                    *)
(***************************************************************************)
CreateReplyLost ==
  /\ "lostReply" \in Faults
  /\ pc = "create" /\ account[user] = "absent"
  /\ account' = [account EXCEPT ![user] = "fresh"]
  /\ grouped' \in {grouped, grouped \cup {user}}
  /\ PasswordReplaced(user)
  /\ \/ GoOn("exists", TRUE, TRUE)
     \/ GiveUp(mem)
  /\ UNCHANGED <<deckVars, roster, historyVars, portal, boundVars>>

CreateFails ==
  /\ "nc" \in Faults
  /\ pc = "create"
  /\ GiveUp(mem)
  /\ UNCHANGED <<deckVars, cloudVars, historyVars, portal, boundVars>>

\* Mutant: whoever has an account is taken to know the password
ExistingMeansInformed ==
  /\ pc = "exists"
  /\ GoOn("insert", live, FALSE)
  /\ UNCHANGED <<deckVars, cloudVars, historyVars, portal, boundVars>>

\* Mutant: the password made up for this attempt is mailed without a reset
MailsWithoutReset ==
  /\ pc = "exists"
  /\ GoOn("insert", live, TRUE)
  /\ UNCHANGED <<deckVars, cloudVars, historyVars, portal, boundVars>>

\* nc_user_never_logged_in: True leads to a reset, False or None to no email
ReadLastLogin ==
  /\ pc = "exists"
  /\ IF account[user] = "fresh"
       THEN GoOn("reset", live, TRUE)
       ELSE GoOn("insert", live, FALSE)
  /\ UNCHANGED <<deckVars, cloudVars, historyVars, portal, boundVars>>

LastLoginUnreadable ==
  /\ "lastLogin" \in Faults
  /\ pc = "exists"
  /\ GoOn("insert", live, FALSE)
  /\ UNCHANGED <<deckVars, cloudVars, historyVars, portal, boundVars>>

\* A reset makes the password of a concurrent portal request stale
Overtaken(r, u) ==
  IF r.card # NoCard /\ UserOf[r.card] = u /\ r.password = "live"
    THEN [r EXCEPT !.password = "stale"]
    ELSE r

ResetPassword ==
  /\ pc = "reset"
  /\ PasswordReplaced(user)
  /\ portal' = Overtaken(portal, user)
  /\ \/ GoOn("groups", TRUE, TRUE)
     \/ "lostReply" \in Faults /\ GiveUp(mem)
  /\ UNCHANGED <<deckVars, account, grouped, roster, historyVars, boundVars>>

ResetFails ==
  /\ "nc" \in Faults
  /\ pc = "reset"
  /\ GiveUp(mem)
  /\ UNCHANGED <<deckVars, cloudVars, historyVars, portal, boundVars>>

\* Mutant: the notification to S1 is left out
GroupFailureUntold ==
  /\ pc = "groups"
  /\ \/ grouped' = grouped \cup {user}
     \/ "nc" \in Faults /\ UNCHANGED grouped
  /\ GoOn("insert", live, mailing)
  /\ UNCHANGED <<deckVars, account, chosen, roster, holders, historyVars,
                 portal, boundVars>>

\* notify_s1_nctalk: a refusal is only logged, and its result is not looked at
TellS1 ==
  \/ warned' = warned \cup {cur} /\ UNCHANGED unheard
  \/ "talk" \in Faults /\ unheard' = unheard \cup {cur} /\ UNCHANGED warned

\* add_to_nc_groups: a failure is not fatal
AddGroups ==
  /\ pc = "groups"
  /\ \/ grouped' = grouped \cup {user} /\ UNCHANGED <<warned, unheard>>
     \/ "nc" \in Faults /\ TellS1 /\ UNCHANGED grouped
  /\ GoOn("insert", live, mailing)
  /\ UNCHANGED <<deckVars, account, chosen, roster, holders, welcomes, misled,
                 pardoned, rehearsed, portal, boundVars>>

-----------------------------------------------------------------------------
(***************************************************************************)
(* The roster row, the welcome email and the end of the attempt.           *)
(***************************************************************************)
\* create_portal_member: CREATED or EXISTS (ON CONFLICT DO NOTHING)
InsertMember ==
  /\ pc = "insert"
  /\ roster' = roster \cup {user}
  /\ \/ GoOn("mail", live, mailing)
     \/ "db" \in Faults /\ GiveUp(mem)     \* the reply to COMMIT was lost
  /\ UNCHANGED <<deckVars, account, chosen, grouped, holders, historyVars,
                 portal, boundVars>>

\* Mutant: a failed insert is logged and the attempt goes on
InsertFailureIgnored ==
  /\ "db" \in Faults
  /\ pc = "insert"
  /\ GoOn("mail", live, mailing)
  /\ UNCHANGED <<deckVars, cloudVars, historyVars, portal, boundVars>>

InsertFails ==
  /\ "db" \in Faults
  /\ pc = "insert"
  /\ GiveUp(mem)
  /\ UNCHANGED <<deckVars, cloudVars, historyVars, portal, boundVars>>

\* The message is in the mailbox of card c; l: it holds the current password
Delivered(c, l) ==
  IF l
    THEN /\ holders' = [holders EXCEPT ![UserOf[c]] = @ \cup {c}]
         /\ UNCHANGED misled
    ELSE misled' = misled \cup {c} /\ UNCHANGED holders

SendWelcome ==
  /\ pc = "mail" /\ mailing /\ cur \notin mem.welcomed
  /\ addr = "good"
  /\ Delivered(cur, live)
  /\ welcomes' = [welcomes EXCEPT ![cur] = @ + 1]
  /\ \/ /\ mem' = [mem EXCEPT !.welcomed = @ \cup {cur}]
        /\ pc' = "finish"
        /\ UNCHANGED <<disk, work, cur, addr, live, mailing>>
     \/ "lostAck" \in Faults /\ GiveUp(mem)
  /\ UNCHANGED <<deckVars, account, chosen, grouped, roster, warned, unheard,
                 pardoned, rehearsed, portal, boundVars>>

WelcomeFails ==
  /\ "smtp" \in Faults
  /\ pc = "mail" /\ mailing /\ cur \notin mem.welcomed
  /\ GiveUp(mem)
  /\ UNCHANGED <<deckVars, cloudVars, historyVars, portal, boundVars>>

(***************************************************************************)
(* A permanent rejection, of the recipient or (any 5xx reply) of the login *)
(* to the mail server: dead-lettered at once, and counted by the wrapper.  *)
(* The PUT of mark_card_bad_email names the stack "approved".              *)
(***************************************************************************)
WelcomeBounces ==
  /\ pc = "mail" /\ mailing /\ cur \notin mem.welcomed
  /\ addr = "bounces" \/ "smtp" \in Faults
  /\ \/ stack' = [stack EXCEPT ![cur] = "approved"]
     \/ "deck" \in Faults /\ UNCHANGED stack
  /\ GiveUp([mem EXCEPT !.dead = @ \cup {cur}])
  /\ UNCHANGED <<proton, cloudVars, historyVars, portal, boundVars>>

WelcomeNotNeeded ==
  /\ pc = "mail" /\ (~mailing \/ cur \in mem.welcomed)
  /\ GoOn("finish", live, mailing)
  /\ UNCHANGED <<deckVars, cloudVars, historyVars, portal, boundVars>>

(***************************************************************************)
(* move_card_to_stack and the PUT that retitles the card: each moves it,   *)
(* and neither result is looked at.  The wrapper forgets the failures.     *)
(***************************************************************************)
FinishCard ==
  /\ pc = "finish"
  /\ \/ stack' = [stack EXCEPT ![cur] = "complete"]
     \/ "deck" \in Faults /\ UNCHANGED stack
  /\ mem' = [mem EXCEPT !.onboarded = @ \cup {cur}, !.failures[cur] = 0]
  /\ pc' = "poll" /\ cur' = NoCard
  /\ UNCHANGED <<proton, cloudVars, historyVars, disk, work, addr, live,
                 mailing, portal, boundVars>>

-----------------------------------------------------------------------------
(***************************************************************************)
(* The daemon process dies and is started again by systemd.                *)
(***************************************************************************)
Crash ==
  /\ pc # "down" /\ crashes < MaxCrashes
  /\ crashes' = crashes + 1
  /\ pc' = "down" /\ work' = {} /\ cur' = NoCard
  /\ mem' = EmptyState
  /\ UNCHANGED <<deckVars, cloudVars, historyVars, disk, addr, live, mailing,
                 portal, edits>>

Restart ==
  /\ pc = "down"
  /\ mem' = disk
  /\ pc' = "idle"
  /\ UNCHANGED <<deckVars, cloudVars, historyVars, disk, work, cur, addr, live,
                 mailing, portal, boundVars>>

(***************************************************************************)
(* The service is stopped and the daemon run by hand, --once --dry-run: it *)
(* visits the approved cards as a poll does, calls nothing, and records in *)
(* state.json those it would onboard as onboarded.                         *)
(***************************************************************************)
DryRun ==
  LET tried == {c \in Cards \ (disk.onboarded \cup disk.dead) :
                  stack[c] = "approved"}
      passed == {c \in tried : proton[c] # "missing"}
      failures == [c \in Cards |-> IF c \in passed THEN 0
                                  ELSE IF c \in tried THEN disk.failures[c] + 1
                                  ELSE disk.failures[c]]
  IN
  /\ pc = "down" /\ edits < MaxEdits
  /\ disk' = [disk EXCEPT
                !.onboarded = @ \cup passed,
                !.failures = failures,
                !.dead = @ \cup {c \in tried \ passed :
                                   failures[c] >= MaxAttempts}]
  /\ pardoned' = pardoned \ tried
  /\ rehearsed' = rehearsed \cup passed
  /\ edits' = edits + 1
  /\ UNCHANGED <<deckVars, cloudVars, welcomes, misled, warned, unheard, mem, pc,
                 work, cur, addr, live, mailing, portal, crashes>>

-----------------------------------------------------------------------------
(***************************************************************************)
(* S1 staff.  Approve is a drag in Deck; the other actions are edits.      *)
(***************************************************************************)
Approve(c) ==
  /\ c \notin PortalCards
  /\ stack[c] = "documents"
  /\ stack' = [stack EXCEPT ![c] = "approved"]
  /\ UNCHANGED <<proton, cloudVars, historyVars, daemonVars, portal, boundVars>>

Recall(c) ==
  /\ stack[c] = "approved" /\ edits < MaxEdits
  /\ stack' = [stack EXCEPT ![c] = "documents"]
  /\ edits' = edits + 1
  /\ UNCHANGED <<proton, cloudVars, historyVars, daemonVars, portal, crashes>>

SetProton(c, p) ==
  /\ p \in Protons \ {proton[c], "missing"} /\ edits < MaxEdits
  /\ proton' = [proton EXCEPT ![c] = p]
  /\ edits' = edits + 1
  /\ UNCHANGED <<stack, cloudVars, historyVars, daemonVars, portal, crashes>>

\* Take a card off 'onboard_dead_letter' in state.json
Pardon(c) ==
  /\ c \in disk.dead /\ edits < MaxEdits
  /\ disk' = [disk EXCEPT !.dead = @ \ {c}]
  /\ pardoned' = pardoned \cup {c}
  /\ edits' = edits + 1
  /\ UNCHANGED <<deckVars, cloudVars, welcomes, misled, warned, unheard,
                 rehearsed, mem, pc, work, cur, addr, live, mailing, portal,
                 crashes>>

(***************************************************************************)
(* The portal's advance button, 14 -> 15: the PUT that moves the card,     *)
(* then _send_welcome_email, which looks the member up by name, resets the *)
(* password if there is one, and mails a password either way.              *)
(***************************************************************************)
AdvanceCard(c) ==
  /\ c \in PortalCards /\ portal.pc = "idle"
  /\ stack[c] = "documents"
  /\ stack' = [stack EXCEPT ![c] = "approved"]
  /\ portal' = IF proton[c] = "missing"
                 THEN IdleRequest
                 ELSE [card |-> c, addr |-> proton[c], pc |-> "reset",
                       password |-> "none"]
  /\ UNCHANGED <<proton, cloudVars, historyVars, daemonVars, boundVars>>

\* A temp_password is made up; it is set only if a roster row was found
PortalResets ==
  LET u == UserOf[portal.card] IN
  /\ portal.pc = "reset"
  /\ \/ /\ u \notin roster \/ "db" \in Faults
        /\ portal' = [portal EXCEPT !.pc = "mail", !.password = "stale"]
        /\ UNCHANGED <<holders, chosen, live>>
     \/ /\ u \in roster
        /\ portal' = [portal EXCEPT !.pc = "mail", !.password = "live"]
        /\ PasswordReplaced(u)
        /\ live' = (live /\ cur # NoCard /\ UserOf[cur] # u)
     \/ /\ u \in roster /\ "nc" \in Faults    \* "(password not reset)"
        /\ portal' = [portal EXCEPT !.pc = "mail"]
        /\ UNCHANGED <<holders, chosen, live>>
  /\ UNCHANGED <<deckVars, account, grouped, roster, historyVars, mem, disk, pc,
                 work, cur, addr, mailing, boundVars>>

PortalMails ==
  /\ portal.pc = "mail"
  /\ \/ /\ portal.addr = "good" /\ portal.password # "none"
        /\ Delivered(portal.card, portal.password = "live")
     \/ /\ \/ portal.addr = "bounces" \/ portal.password = "none"
           \/ "smtp" \in Faults
        /\ UNCHANGED <<holders, misled>>
  /\ portal' = IdleRequest
  /\ UNCHANGED <<deckVars, account, chosen, grouped, roster, welcomes, warned,
                 unheard, pardoned, rehearsed, daemonVars, boundVars>>

-----------------------------------------------------------------------------
(***************************************************************************)
(* The recruit, who has a working password in the mailbox.                 *)
(***************************************************************************)
LogIn(c) ==
  /\ c \in holders[UserOf[c]]
  /\ account[UserOf[c]] = "fresh"
  /\ account' = [account EXCEPT ![UserOf[c]] = "used"]
  /\ UNCHANGED <<deckVars, chosen, grouped, roster, holders, historyVars,
                 daemonVars, portal, boundVars>>

ChoosePassword(c) ==
  LET u == UserOf[c] IN
  /\ c \in holders[u] /\ account[u] = "used"
  /\ chosen' = chosen \cup {u}
  /\ holders' = [holders EXCEPT ![u] = {}]
  /\ live' = (live /\ cur # NoCard /\ UserOf[cur] # u)
  /\ portal' = Overtaken(portal, u)
  /\ UNCHANGED <<deckVars, account, grouped, roster, historyVars, mem, disk, pc,
                 work, cur, addr, mailing, boundVars>>

-----------------------------------------------------------------------------
HandleCard ==
  \/ CreateAccount \/ AccountExists \/ CreateReplyLost \/ CreateFails
  \/ ReadLastLogin \/ LastLoginUnreadable
  \/ ResetPassword \/ ResetFails \/ AddGroups
  \/ InsertMember \/ InsertFails
  \/ SendWelcome \/ WelcomeFails \/ WelcomeBounces \/ WelcomeNotNeeded
  \/ FinishCard

Daemon ==
  \/ BeginPoll \/ SkipCard \/ RejectCard \/ StartCard
  \/ HandleCard
  \/ SaveState \/ SaveFails
  \/ Restart

Portal == PortalResets \/ PortalMails

Next ==
  \/ Daemon
  \/ Crash \/ DryRun
  \/ Portal
  \/ \E c \in Cards :
       \/ Approve(c) \/ Recall(c) \/ Pardon(c) \/ AdvanceCard(c)
       \/ \E p \in Protons : SetProton(c, p)
       \/ LogIn(c) \/ ChoosePassword(c)

Spec == Init /\ [][Next]_vars

(***************************************************************************)
(* systemd restarts the daemon, whose loop never stops.  A step of it may  *)
(* fail but does not hang: Nextcloud calls have a timeout, and a hanging   *)
(* SMTP call is ended by the systemd watchdog, which is a crash.  A poll   *)
(* that ends because the cards could not be listed changes nothing here;   *)
(* fairness assumes that they can be listed now and again.                 *)
(***************************************************************************)
FairSpec == Spec /\ WF_vars(Daemon)

-----------------------------------------------------------------------------
(***************************************************************************)
(* Safety.                                                                 *)
(***************************************************************************)
(***************************************************************************)
(* No recruit receives the daemon's credentials, and no card reaches       *)
(* Complete, before the Nextcloud account and the roster row both exist:   *)
(* whatever fails or crashes, nobody is "live in Nextcloud and invisible   *)
(* to S1".  Nor is a card recorded as onboarded, but by a dry run.         *)
(***************************************************************************)
CredentialsAfterRoster ==
  \A c \in Cards :
    \/ welcomes[c] > 0 \/ stack[c] = "complete"
    \/ c \in (mem.onboarded \cup disk.onboarded) \ rehearsed
    => account[UserOf[c]] # "absent" /\ UserOf[c] \in roster

(***************************************************************************)
(* A recruit whose onboarding the daemon holds to be complete is not       *)
(* locked out: the current password is in the recruit's mailbox, or the    *)
(* recruit has logged in.  A crash after the email, a lost acknowledgement *)
(* and the password resets of every retry must all end there.  Not so the  *)
(* cards a dry run has recorded: OnboardedAreMembers.                      *)
(***************************************************************************)
OnboardedCanLogIn ==
  \A c \in (mem.onboarded \cup disk.onboarded) \ rehearsed :
    c \in holders[UserOf[c]] \/ account[UserOf[c]] = "used"

(***************************************************************************)
(* Every password that was mailed opened the account when it was mailed.   *)
(***************************************************************************)
MailedPasswordWorks == misled = {}

(***************************************************************************)
(* "Silent half-onboarding" (add_to_nc_groups): a recruit onboarded        *)
(* without all Nextcloud groups, though nobody was told to add them.  Only *)
(* the dry run does so, or a Talk that refuses the notice as well.         *)
(***************************************************************************)
NoSilentHalfOnboarding ==
  \A c \in (mem.onboarded \cup disk.onboarded) \ rehearsed :
    UserOf[c] \in grouped \/ c \in warned \/ c \in unheard

(***************************************************************************)
(* "Don't create accounts or send emails" (--dry-run): and yet the daemon  *)
(* started after a dry run skips the cards it has recorded, whose recruits *)
(* have no account.  What CredentialsAfterRoster would say without         *)
(* rehearsed; no run keeps it.                                             *)
(***************************************************************************)
OnboardedAreMembers ==
  \A c \in mem.onboarded : account[UserOf[c]] # "absent" /\ UserOf[c] \in roster

(***************************************************************************)
(* "The recruit will be missing share/Talk access until someone fixes it,  *)
(* so say so loudly" (_onboard_member).  What NoSilentHalfOnboarding would *)
(* say without unheard: groups and notice are two calls to one Nextcloud,  *)
(* and no run keeps it.                                                    *)
(***************************************************************************)
HalfOnboardedAlwaysTold ==
  \A c \in mem.onboarded \ rehearsed : UserOf[c] \in grouped \/ c \in warned

(***************************************************************************)
(* "Guarded so a re-run can never send a second copy" (_onboard_member,    *)
(* step 5): one welcome email per card.                                    *)
(***************************************************************************)
WelcomeSentOnce == \A c \in Cards : welcomes[c] <= 1

(***************************************************************************)
(* "It means some earlier attempt already made the account"                *)
(* (create_nc_account): the credentials of one account are never mailed    *)
(* for two different recruits.                                             *)
(***************************************************************************)
OneRecruitPerAccount ==
  \A c, d \in Cards :
    welcomes[c] > 0 /\ welcomes[d] > 0 /\ UserOf[c] = UserOf[d] => c = d

(***************************************************************************)
(* "To retry it, S1 fixes the underlying problem and removes the card id   *)
(* from 'onboard_dead_letter' in state.json" (onboard_member): a card so   *)
(* removed does not come back before it was tried again.                   *)
(***************************************************************************)
RemovalFromDeadLetterHolds == pardoned \cap disk.dead = {}

(***************************************************************************)
(* "Reset it -- but ONLY if they have never logged in, otherwise we'd      *)
(* clobber a password the member chose themselves" (_onboard_member): no   *)
(* step replaces a password its owner has chosen.                          *)
(***************************************************************************)
ChosenPasswordKept == [][chosen \subseteq chosen']_vars

(***************************************************************************)
(* Liveness: a card left in Approved is not retried for ever (onboard_     *)
(* member: 1,942 attempts in 7 days); it is onboarded or dead-lettered.    *)
(***************************************************************************)
BoundedRetry ==
  \A c \in Cards :
    stack[c] = "approved" ~>
      stack[c] # "approved" \/ c \in mem.onboarded \/ c \in mem.dead

=============================================================================
