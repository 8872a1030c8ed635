-------------------------------- MODULE Shops --------------------------------
(***************************************************************************)
(* Who belongs to a staff shop (S1 to S6): a patched member asks to join   *)
(* one and the shop's lead or Command decides (app/routes/shops.py), S1    *)
(* ticks billets in the profile editor, and the Nextcloud groups of the    *)
(* shops follow the billets (app/routes/member_edit.py).  One member.  A    *)
(* request reads the record, calls Nextcloud, and only then commits, so    *)
(* that seconds pass between what it read and what it writes.              *)
(***************************************************************************)
EXTENDS Integers, FiniteSets

CONSTANTS
  ShopKeys,      \* the shops
  Unlisted,      \* the shops whose sign-up billet the profile editor has no box for
  Start,         \* the member's billets to begin with
  MaxShops,      \* settings_store.max_shops
  Asks,          \* the join requests there is room for
  MaxActive,     \* bound on the requests in progress at once
  MaxRequests,   \* bound on the requests begun
  MaxFaults      \* bound on lost calls of Nextcloud and restarts

VARIABLES
  billets,   \* members.primary_billet: a set of <<shop, kind>>
  base,      \* the shops whose group the account is in
  leads,     \* the shops whose lead group the account is in
  ask,       \* shop_signup_requests: ask -> [shop, status]
  page,      \* the billets shown by a profile editor that is open
  req,       \* the requests in progress
  begun, faults,
  crossed,   \* history: what two requests had read at once, or one failed on
  given,     \* history: shops held to begin with or ticked in the editor
  dropped,   \* history: accepted requests whose shop an edit took away
  untouched  \* history: shops lost to an edit that changed no box

vars == <<billets, base, leads, ask, page, req, begun, faults, crossed, given, dropped, untouched>>

Kinds == {"lead", "member", "signup"}
Billets == ShopKeys \X Kinds
Slots == 1..MaxActive
NoAsk == [shop |-> "none", status |-> "none"]
NoPage == [open |-> FALSE, shown |-> {}]
NoRequest == [pc |-> "none", on |-> {}]

\* BILLET_OPTIONS: the boxes of the editor.
Options == ShopKeys \X {"lead", "member"}
\* The billet a sign-up gives is made of the shop's name.
SignupBillet(s) == <<s, IF s \in Unlisted THEN "signup" ELSE "member">>
\* _held_shop_keys, _shop_numbers_from_billets and _is_shop_lead.
Held(b) == {x[1] : x \in b}
LeadOf(b) == {x[1] : x \in {y \in b : y[2] = "lead"}}

\* Types; a request that was asked is for a shop.
TypeOK ==
  /\ billets \subseteq Billets /\ base \subseteq ShopKeys /\ leads \subseteq ShopKeys
  /\ ask \in [Asks -> [shop : ShopKeys, status : {"pending", "accepted", "declined"}] \cup {NoAsk}]
  /\ page.shown \subseteq Billets /\ begun \in 0..MaxRequests /\ faults \in 0..MaxFaults

Init ==
  /\ billets = Start /\ base = Held(Start) /\ leads = LeadOf(Start)
  /\ ask = [n \in Asks |-> NoAsk] /\ page = NoPage
  /\ req = [r \in Slots |-> NoRequest] /\ begun = 0 /\ faults = 0
  /\ crossed = {} /\ given = Held(Start) /\ dropped = {} /\ untouched = {}

Begin(request) ==
  /\ begun < MaxRequests /\ begun' = begun + 1
  /\ \E r \in Slots :
       /\ req[r] = NoRequest /\ \A q \in Slots : q < r => req[q] # NoRequest
       /\ req' = [req EXCEPT ![r] = request]
       /\ crossed' = crossed \cup (request.on \cap UNION {req[q].on : q \in Slots \ {r}})
End(r) == req' = [req EXCEPT ![r] = NoRequest]

-----------------------------------------------------------------------------
\* Mutant: a request already pending is not looked for.
NonePending(s) == FALSE
\* "No duplicate pending request for the same shop."
AlreadyPending(s) == \E n \in Asks : ask[n] = [shop |-> s, status |-> "pending"]

\* submit_shop_signup, for a patched member: up to its commit.
Signup(s) ==
  /\ s \notin Held(billets) /\ Cardinality(Held(billets)) < MaxShops
  /\ ~AlreadyPending(s)
  /\ Begin([pc |-> "file", on |-> {s}])
  /\ UNCHANGED <<billets, base, leads, ask, page, faults, given, dropped, untouched>>
File(r) ==
  LET free == {n \in Asks : ask[n] = NoAsk}
  IN  /\ req[r].pc = "file" /\ free # {}
      /\ \E s \in req[r].on :
           ask' = [ask EXCEPT ![CHOOSE n \in free : TRUE] = [shop |-> s, status |-> "pending"]]
      /\ End(r)
      /\ UNCHANGED <<billets, base, leads, page, begun, faults, crossed, given, dropped, untouched>>

\* Mutant: the new billet takes the place of the others.
Replaced(old, s) == {SignupBillet(s)}
\* The shop is appended to the billets that were read.
Joined(old, s) == IF s \in Held(old) THEN old ELSE old \cup {SignupBillet(s)}

\* _decide_shop_signup up to its commit: accepting syncs the groups first.
Accept(n) ==
  LET s == ask[n].shop
      new == Joined(billets, s)
  IN  /\ ask[n].status = "pending"
      /\ Begin([pc |-> IF new = billets THEN "commit" ELSE "sync", on |-> {s, "billets"},
                op |-> "accept", n |-> n, old |-> billets, new |-> new, same |-> FALSE])
      /\ UNCHANGED <<billets, base, leads, ask, page, faults, given, dropped, untouched>>
Decline(n) ==
  /\ ask[n].status = "pending"
  /\ Begin([pc |-> "commit", on |-> {ask[n].shop}, op |-> "decline", n |-> n,
            old |-> billets, new |-> billets, same |-> FALSE])
  /\ UNCHANGED <<billets, base, leads, ask, page, faults, given, dropped, untouched>>

\* edit_member_page.
OpenPage ==
  /\ page = NoPage /\ page' = [open |-> TRUE, shown |-> billets]
  /\ UNCHANGED <<billets, base, leads, ask, req, begun, faults, crossed, given, dropped, untouched>>

\* save_member_edit up to its commit: the billets become the boxes ticked,
\* those shown or one of them changed.
PostEdit ==
  /\ page.open
  /\ \E flip \in {{}} \cup {{x} : x \in Options} :
       LET boxes == page.shown \cap Options
           new == (boxes \ flip) \cup (flip \ boxes)
       IN  Begin([pc |-> "sync", on |-> {"billets"}, op |-> "edit", n |-> 0,
                  old |-> billets, new |-> new, same |-> flip = {} /\ page.shown = billets])
  /\ page' = NoPage
  /\ UNCHANGED <<billets, base, leads, ask, faults, given, dropped, untouched>>

\* Mutant: the groups of a shop given up are kept.
OnlyAdded(old, new, groups) == groups \cup Held(new)
\* _sync_shop_groups: the groups of the shops held are added and of those
\* dropped removed; the lead groups follow the lead billets.
Synced(old, new, groups) == (groups \cup Held(new)) \ (Held(old) \ Held(new))
LeadsSynced(old, new, groups) ==
  (groups \cup LeadOf(new)) \ ((Held(old) \cup Held(new)) \ LeadOf(new))

Sync(r) ==
  LET q == req[r]
  IN  /\ q.pc = "sync"
      /\ base' = Synced(q.old, q.new, base) /\ leads' = LeadsSynced(q.old, q.new, leads)
      /\ req' = [req EXCEPT ![r].pc = "commit"]
      /\ UNCHANGED <<billets, ask, page, begun, faults, crossed, given, dropped, untouched>>

\* Nextcloud does not answer, or refuses one of the calls: it is logged and
\* the request goes on.
SyncLost(r) ==
  LET q == req[r]
  IN  /\ q.pc = "sync" /\ faults < MaxFaults /\ faults' = faults + 1
      /\ base' \in {base, Synced(q.old, q.new, base)} /\ UNCHANGED leads
      /\ req' = [req EXCEPT ![r].pc = "commit"]
      /\ crossed' = crossed \cup {"billets"}
      /\ UNCHANGED <<billets, ask, page, begun, given, dropped, untouched>>

\* What differs from what was read is written.
Commit(r) ==
  LET q == req[r]
      now == IF q.new = q.old THEN billets ELSE q.new
  IN  /\ q.pc = "commit"
      /\ billets' = now
      /\ ask' = CASE q.op = "accept" -> [ask EXCEPT ![q.n].status = "accepted"]
                  [] q.op = "decline" -> [ask EXCEPT ![q.n].status = "declined"]
                  [] OTHER -> ask
      /\ given' = IF q.op = "edit" THEN given \cup (Held(now) \ Held(q.old)) ELSE given
      /\ dropped' = IF q.op = "edit"
                    THEN dropped \cup {n \in Asks : ask[n].status = "accepted"
                                                      /\ ask[n].shop \notin Held(now)}
                    ELSE dropped
      /\ untouched' = IF q.same THEN untouched \cup (Held(q.old) \ Held(q.new)) ELSE untouched
      /\ End(r)
      /\ UNCHANGED <<base, leads, page, begun, faults, crossed>>

\* A restart ends the requests, after their calls of Nextcloud or before.
Crash ==
  /\ faults < MaxFaults /\ faults' = faults + 1
  /\ crossed' = crossed \cup UNION {req[r].on : r \in Slots}
  /\ req' = [r \in Slots |-> NoRequest]
  /\ UNCHANGED <<billets, base, leads, ask, page, begun, given, dropped, untouched>>

Next ==
  \/ \E s \in ShopKeys : Signup(s)
  \/ \E n \in Asks : Accept(n) \/ Decline(n)
  \/ OpenPage \/ PostEdit
  \/ \E r \in Slots : File(r) \/ Sync(r) \/ SyncLost(r) \/ Commit(r)
  \/ Crash
Spec == Init /\ [][Next]_vars

-----------------------------------------------------------------------------
Quiet == \A r \in Slots : req[r] = NoRequest

\* "Single source of truth = the portal billet assignment" (_sync_shop_groups):
\* the groups are those of the billets, once nothing is in progress, unless
\* requests overlapped or one of them failed.
GroupsFollowBillets ==
  Quiet /\ "billets" \notin crossed => base = Held(billets) /\ leads = LeadOf(billets)

\* A member accepted into a shop holds it until an edit takes it away, unless
\* requests about the billets overlapped.
AcceptedIsHeld ==
  \A n \in Asks \ dropped :
    ask[n].status = "accepted" /\ "billets" \notin crossed => ask[n].shop \in Held(billets)

\* Nobody comes into a shop but by the editor or an accepted request, unless
\* decisions about the shop overlapped.
HeldHasGround ==
  \A s \in Held(billets) :
    s \in given \cup crossed \/ \E n \in Asks : ask[n] = [shop |-> s, status |-> "accepted"]

\* One request per shop is pending, unless two were sent at once.
OneAskPending ==
  \A m, n \in Asks : m # n /\ ask[m] = ask[n] /\ ask[n].status = "pending" => ask[n].shop \in crossed

\* The shops are staffed as decided: the parts above, which the README explains.
ShopsAreStaffed ==
  TypeOK /\ GroupsFollowBillets /\ AcceptedIsHeld /\ HeldHasGround /\ OneAskPending

-----------------------------------------------------------------------------
(* Why the shops are staffed: the inductive invariant. *)

\* The constants.
Sound ==
  /\ "billets" \notin ShopKeys /\ Start \subseteq Billets
  /\ MaxRequests \in Nat /\ MaxFaults \in Nat

\* What a request in progress is, by what it came for.
Signups == [pc : {"file"}, on : {{s} : s \in ShopKeys}]
Accepts == [pc : {"sync", "commit"}, on : {{s, "billets"} : s \in ShopKeys}, op : {"accept"}, n : Asks,
            old : SUBSET Billets, new : SUBSET Billets, same : {FALSE}]
Declines == [pc : {"commit"}, on : {{s} : s \in ShopKeys}, op : {"decline"}, n : Asks,
             old : SUBSET Billets, new : SUBSET Billets, same : {FALSE}]
Edits == [pc : {"sync", "commit"}, on : {{"billets"}}, op : {"edit"}, n : {0},
          old : SUBSET Billets, new : SUBSET Billets, same : BOOLEAN]
Underway == Signups \cup Accepts \cup Declines \cup Edits
TypeInv == TypeOK /\ req \in [Slots -> Underway \cup {NoRequest}]

\* A ground to be in a shop, which is never lost.
Ground(s) == s \in given \cup crossed \/ \E n \in Asks : ask[n] = [shop |-> s, status |-> "accepted"]

\* A sign-up is for a shop nobody asked for meanwhile; a decision is about a
\* request that is still undecided, unless somebody else was at it.
SignupInv(q) == q.pc = "file" => \A s \in q.on : s \in crossed \/ ~AlreadyPending(s)
DecisionInv(q) ==
  q.pc # "none" /\ q.pc # "file" =>
    /\ \A s \in Held(q.old) : Ground(s)
    /\ q.op \in {"accept", "decline"} =>
         /\ ask[q.n].shop \in q.on \cap ShopKeys /\ ask[q.n].status # "none"
         /\ ask[q.n].shop \in crossed \/ ask[q.n].status = "pending"
    /\ q.op = "accept" => Held(q.new) = Held(q.old) \cup {ask[q.n].shop}
    /\ q.op = "decline" => q.new = q.old
\* What a request about the billets read is still so, and its groups are those of
\* the billets before or after it, if it is the only one.
BilletsInv(q) ==
  "billets" \in q.on \ crossed =>
    /\ q.old = billets
    /\ q.pc = "sync" => base = Held(q.old) /\ leads = LeadOf(q.old)
    /\ q.pc = "commit" => base = Held(q.new) /\ leads = LeadOf(q.new)
CrossInv == \A r, q \in Slots : r # q => req[r].on \cap req[q].on \subseteq crossed

ShopInv ==
  /\ TypeInv /\ CrossInv
  /\ \A r \in Slots : SignupInv(req[r]) /\ DecisionInv(req[r]) /\ BilletsInv(req[r])
  /\ "billets" \notin crossed \cup UNION {req[r].on : r \in Slots} =>
       base = Held(billets) /\ leads = LeadOf(billets)
  /\ AcceptedIsHeld /\ HeldHasGround /\ OneAskPending

-----------------------------------------------------------------------------
(* What the code does not keep. *)

\* Saving a profile without touching its boxes leaves the shops alone.
SavingKeepsShops == untouched = {}

\* An accepted member is in the shop whatever else is decided meanwhile.
AcceptedIsAlwaysHeld == \A n \in Asks \ dropped : ask[n].status = "accepted" => ask[n].shop \in Held(billets)

\* The groups follow whatever overlapped, as long as nothing failed.
GroupsAlwaysFollow == Quiet /\ faults = 0 => base = Held(billets)
=============================================================================
