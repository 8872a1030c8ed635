------------------------------ MODULE Sessions ------------------------------
(***************************************************************************)
(* Signing in and the portal session of one browser (app/routes/auth.py,   *)
(* app/auth.py and the middlewares of app/main.py).  The session is one    *)
(* signed cookie: a request works on the copy it was sent with, and its    *)
(* response replaces the cookie as a whole.  Nextcloud keeps one grant     *)
(* token for the browser, and every visit to its authorize page mints      *)
(* another.  Time is counted in ticks of the single-flight window.         *)
(***************************************************************************)
EXTENDS Integers, Sequences, FiniteSets

CONSTANTS
  Tabs, Accounts,
  GroupSets,     \* the group sets Nextcloud may give an account
  Window,        \* IN_FLIGHT_WINDOW
  Interval,      \* DISPLAY_REFRESH_INTERVAL, and how long a state is kept
  Cap,           \* how many pending states a new one leaves
  MaxTime,       \* bound on the clock
  MaxFlows,      \* bound on the sign-ins begun
  MaxAsks,       \* bound on the pages asked for
  MaxChanges,    \* bound on the changes of groups
  MaxFaults      \* bound on the group lists that could not be fetched

\* The constants are what they should be.
Sound ==
  /\ Window \in Nat /\ Interval \in Nat /\ Cap \in Nat /\ MaxTime \in Nat /\ MaxFlows \in Nat
  /\ MaxAsks \in Nat /\ MaxChanges \in Nat /\ MaxFaults \in Nat /\ "none" \notin Tabs

VARIABLES
  now,
  cookie,    \* the browser's session
  tabs,      \* what each tab waits for
  token,     \* the tab whose grant token Nextcloud holds, "none" if no token stands
  minted,    \* when each sign-in was begun
  groups,    \* account -> groups in Nextcloud
  changed,   \* account -> when they changed last
  verified,  \* accounts whose contact details are verified
  stored,    \* account -> portal_roles
  asks, changes, faults,
  lapped,    \* history: two requests were under way at once
  out,       \* history: the browser was signed out, and did not sign in since
  cut,       \* history: flows begun before a sign-out
  wrong      \* history: what was done that should not be

vars == <<now, cookie, tabs, token, minted, groups, changed, verified, stored,
          asks, changes, faults, lapped, out, cut, wrong>>
records == <<groups, changed, verified, stored, changes>>

Never == 0 - Interval
NoUser == [name |-> "", roles |-> {}]
Signed(s) == s.user # NoUser
NoFlow == [flow |-> 0, ts |-> Never]
Empty == [user |-> NoUser, pending |-> {}, inflight |-> NoFlow,
          refreshed |-> Never, verified |-> FALSE]
Idle == [pc |-> "idle"]
Flows == DOMAIN minted

\* map_groups_to_roles; guests get the view roles besides the mark.
RolesOf(gs) ==
  IF "Guests" \in gs THEN {"guest", "leader"} ELSE IF "Leaders" \in gs THEN {"leader"} ELSE {}
RoleSets == SUBSET {"guest", "leader"}

\* Types; the states kept in a session are those of sign-ins that were begun.
TypeOK ==
  /\ now \in 0..MaxTime /\ faults \in 0..MaxFaults /\ verified \subseteq Accounts
  /\ stored \in [Accounts -> RoleSets]
  /\ cookie.user = NoUser \/ (cookie.user.name \in Accounts /\ cookie.user.roles \in RoleSets)
  /\ cookie.pending \subseteq Flows
  /\ cookie.inflight.flow \in Flows \cup {0}
  /\ \A t \in Tabs : tabs[t].pc \in {"idle", "toNC", "grant", "callback", "page", "reply"}

Init ==
  /\ now = 0 /\ cookie = Empty /\ tabs = [t \in Tabs |-> Idle] /\ token = "none" /\ minted = <<>>
  /\ groups \in [Accounts -> GroupSets] /\ changed = [a \in Accounts |-> Never]
  /\ verified = {} /\ stored = [a \in Accounts |-> {}] /\ asks = 0 /\ changes = 0 /\ faults = 0
  /\ lapped = FALSE /\ out = FALSE /\ cut = {} /\ wrong = {}

\* A request leaves with the cookie as it is.
Waiting(t) == tabs[t].pc \in {"toNC", "callback", "page", "reply"}
Set(t, state) == tabs' = [tabs EXCEPT ![t] = state]
Sends(t) == lapped' = (lapped \/ \E u \in Tabs \ {t} : Waiting(u))
Reply(t, session, had) == Set(t, [pc |-> "reply", session |-> session, had |-> had])
Fault == faults < MaxFaults /\ faults' = faults + 1
Wrong(what, found) == wrong' = wrong \cup (IF found THEN {what} ELSE {})

-----------------------------------------------------------------------------
Reusable(s) == s.inflight # NoFlow /\ now - s.inflight.ts < Window
Live(pending) == {f \in pending : minted[f] + Interval >= now}
\* Expired states are pruned, and all but the last Cap.
Pruned(pending) ==
  {f \in Live(pending) : Cardinality({g \in Live(pending) : f < g}) < Cap}
\* login and _build_authorize_url: one step of the server.
Login(t) ==
  /\ ~Waiting(t) /\ Sends(t)
  /\ IF Reusable(cookie)
     THEN /\ Set(t, [pc |-> "toNC", session |-> cookie, flow |-> cookie.inflight.flow])
          /\ UNCHANGED minted
     ELSE LET flow == Len(minted) + 1 IN
          /\ Len(minted) < MaxFlows /\ minted' = Append(minted, now)
          /\ Set(t, [pc |-> "toNC", flow |-> flow, session |->
                      [cookie EXCEPT !.pending = Pruned(@) \cup {flow},
                                     !.inflight = [flow |-> flow, ts |-> now]]])
  /\ UNCHANGED <<now, cookie, token, asks, records, faults, out, cut, wrong>>
\* The redirect is followed: Nextcloud's authorize page mints a token.
Follow(t) ==
  /\ tabs[t].pc = "toNC" /\ cookie' = tabs[t].session /\ token' = t
  /\ Set(t, [pc |-> "grant", flow |-> tabs[t].flow])
  /\ UNCHANGED <<now, minted, asks, records, faults, lapped, out, cut, wrong>>
\* The member grants access: refused unless the page's token stands.
Grant(t, who) ==
  /\ tabs[t].pc = "grant"
  /\ IF token = t
     THEN /\ token' = "none" /\ Sends(t)
          /\ Set(t, [pc |-> "callback", session |-> cookie, flow |-> tabs[t].flow, who |-> who])
     ELSE Set(t, Idle) /\ UNCHANGED <<token, lapped>>
  /\ UNCHANGED <<now, cookie, minted, asks, records, faults, out, cut, wrong>>

\* Mutant: the sign-in stays in flight when it is over.
Inflight(s) == s
Landed(s) == [s EXCEPT !.inflight = NoFlow]
\* A state that was not asked for too long ago, cut off or crowded out.
Excused(flow) == lapped \/ flow \in cut \/ now - minted[flow] >= Interval \/ Len(minted) - flow > Cap
\* callback: authlib takes the state out of the session, and those expired.
\* Without it, or when the code is not exchanged, the login page is shown; when
\* the account cannot be read, nothing is answered but the error, and the cookie
\* stays.  The groups are fetched, or the token's own, partial, list is used;
\* portal_roles is written, and the session gets its user.
Callback(t) ==
  LET q == tabs[t]
      found == q.flow \in q.session.pending
      session == [Landed(q.session) EXCEPT !.pending = Live(@ \ {q.flow})]
  IN
  /\ q.pc = "callback"
  /\ Wrong("mismatch", ~found /\ ~Excused(q.flow))
  /\ \/ ~found /\ Reply(t, session, TRUE) /\ UNCHANGED <<stored, faults, out>>
     \/ found /\ Fault /\ (Reply(t, session, TRUE) \/ Set(t, Idle)) /\ UNCHANGED <<stored, out>>
     \/ \E fetched \in BOOLEAN :
          LET roles == RolesOf(IF fetched THEN groups[q.who] ELSE {}) IN
          /\ found /\ (IF fetched THEN UNCHANGED faults ELSE Fault)
          /\ stored' = [stored EXCEPT ![q.who] = roles] /\ out' = FALSE
          /\ Reply(t, [session EXCEPT !.user = [name |-> q.who, roles |-> roles]], TRUE)
  /\ UNCHANGED <<now, cookie, token, minted, asks, groups, changed, verified, changes, lapped, cut>>

\* The response arrives, with a cookie unless there is and was no session.
Arrive(t) ==
  /\ tabs[t].pc = "reply" /\ Set(t, Idle)
  /\ cookie' = IF tabs[t].session = Empty /\ ~tabs[t].had THEN cookie ELSE tabs[t].session
  /\ UNCHANGED <<now, token, minted, asks, records, faults, lapped, out, cut, wrong>>

-----------------------------------------------------------------------------
\* A page is asked for, a change saved, the contact form sent, or the session
\* ended.
Ask(t, kind) ==
  /\ ~Waiting(t) /\ Sends(t) /\ asks < MaxAsks /\ asks' = asks + 1
  /\ Set(t, [pc |-> "page", kind |-> kind, session |-> cookie])
  /\ UNCHANGED <<now, cookie, token, minted, records, faults, out, cut, wrong>>

Due(s) == Signed(s) /\ now - s.refreshed >= Interval
\* Mutant: a refresh keeps the roles.
KeepsRoles(s, ok) == [s EXCEPT !.refreshed = now]
\* DisplayRefreshMiddleware: a failure keeps the roles until the next refresh.
Refreshed(s, ok) ==
  [s EXCEPT !.refreshed = now, !.user.roles = IF ok THEN RolesOf(groups[s.user.name]) ELSE @]
\* Mutant: the guest check comes before the refresh.
Earlier(s, before, kind) == kind # "view" /\ "guest" \in before.user.roles
\* GuestReadOnlyMiddleware, inside the refresh.
ReadOnly(s, before, kind) == kind # "view" /\ "guest" \in s.user.roles
\* Mutant: a session is not asked about its contact details.
AllVerified(s) == TRUE
\* ContactVerifyMiddleware: noted in the session, or in the member's row.
Verified(s) == s.verified \/ s.user.name \in verified

\* The session as the refresh leaves it; a failed one counts as a fault.
Passed(q, ok) == IF Due(q.session) THEN Refreshed(q.session, ok) ELSE q.session
Fetch(q, ok) == IF Due(q.session) /\ ~ok THEN Fault ELSE ok /\ UNCHANGED faults
\* The middlewares in their order, then the page, for leaders (require_role).
Serve(t) ==
  LET q == tabs[t] IN
  /\ q.pc = "page" /\ q.kind \in {"view", "save"} /\ Signed(q.session)
  /\ \E ok \in BOOLEAN :
       LET s == Passed(q, ok)
           who == s.user.name
           open == ~ReadOnly(s, q.session, q.kind) /\ Verified(s)
           served == open /\ "leader" \in s.user.roles
           settled == served /\ ok /\ faults = 0 /\ now - changed[who] >= Interval
           found == [stale |-> settled /\ s.user.roles # RolesOf(groups[who]),
                     guest |-> settled /\ q.kind = "save" /\ "Guests" \in groups[who],
                     early |-> served /\ verified = {},
                     unverified |-> served /\ who \notin verified]
       IN
       /\ Fetch(q, ok)
       /\ Reply(t, [s EXCEPT !.verified = @ \/ open], TRUE)
       /\ wrong' = wrong \cup {w \in DOMAIN found : found[w]}
  /\ UNCHANGED <<now, cookie, token, minted, asks, records, lapped, out, cut>>
\* submit_verify_contact: not asked whether the details are verified.
VerifyContact(t) ==
  LET q == tabs[t] IN
  /\ q.pc = "page" /\ q.kind = "verify" /\ Signed(q.session)
  /\ \E ok \in BOOLEAN :
       LET s == Passed(q, ok)
           sent == ~ReadOnly(s, q.session, q.kind) IN
       /\ Fetch(q, ok)
       /\ verified' = IF sent THEN verified \cup {s.user.name} ELSE verified
       /\ Reply(t, [s EXCEPT !.verified = @ \/ sent], TRUE)
  /\ UNCHANGED <<now, cookie, token, minted, asks, groups, changed, stored, changes,
                 lapped, out, cut, wrong>>
\* Without a user everything but signing in leads to the login.
Redirect(t) ==
  LET q == tabs[t] IN
  /\ q.pc = "page" /\ q.kind # "logout" /\ ~Signed(q.session)
  /\ Reply(t, q.session, q.session # Empty)
  /\ UNCHANGED <<now, cookie, token, minted, asks, records, faults, lapped, out, cut, wrong>>

\* logout.
Logout(t) ==
  /\ tabs[t].pc = "page" /\ tabs[t].kind = "logout"
  /\ Reply(t, Empty, tabs[t].session # Empty)
  /\ out' = TRUE /\ cut' = Flows
  /\ UNCHANGED <<now, cookie, token, minted, asks, records, faults, lapped, wrong>>

-----------------------------------------------------------------------------
\* Groups change in Nextcloud (Roster, Shops, Separation).
Regroup(a, gs) ==
  /\ groups[a] # gs /\ changes < MaxChanges /\ changes' = changes + 1
  /\ groups' = [groups EXCEPT ![a] = gs] /\ changed' = [changed EXCEPT ![a] = now]
  /\ UNCHANGED <<now, cookie, tabs, token, minted, asks, verified, stored, faults, lapped, out, cut, wrong>>
\* Requests are shorter than a tick: a call to Nextcloud is given ten seconds.
Tick ==
  /\ \A t \in Tabs : ~Waiting(t)
  /\ now < MaxTime /\ now' = now + 1
  /\ UNCHANGED <<cookie, tabs, token, minted, asks, records, faults, lapped, out, cut, wrong>>

Next ==
  \/ \E t \in Tabs :
       \/ Login(t) \/ Follow(t) \/ Callback(t) \/ Arrive(t) \/ Serve(t) \/ VerifyContact(t)
       \/ Redirect(t) \/ Logout(t)
       \/ \E who \in Accounts : Grant(t, who)
       \/ \E kind \in {"view", "save", "verify", "logout"} : Ask(t, kind)
  \/ \E a \in Accounts, gs \in GroupSets : Regroup(a, gs)
  \/ Tick
Spec == Init /\ [][Next]_vars

-----------------------------------------------------------------------------
\* "so the freshly-minted state isn't found": a sign-in that was granted finds
\* its state in the session, unless requests overlapped, the session was ended
\* in between, or the state expired or was crowded out by newer ones.
SignInsComplete == "mismatch" \notin wrong

\* A page is never served on roles older than the refresh interval, and a
\* guest of that long saves nothing, while the groups can be fetched.
RolesAreFresh == {"stale", "guest"} \cap wrong = {}

\* No page is served in a browser before a member's contact details were
\* verified in it.
VerifiedBefore == "early" \notin wrong

\* A session that was ended stays ended until the next sign-in, unless
\* requests overlapped.
SignedOutStays == out /\ ~lapped /\ (\A t \in Tabs : ~Waiting(t)) => ~Signed(cookie)

\* Sessions are in order: the parts above, which the README explains.
SessionsAreInOrder ==
  TypeOK /\ SignInsComplete /\ RolesAreFresh /\ VerifiedBefore /\ SignedOutStays

-----------------------------------------------------------------------------
(* Why: the inductive invariant. *)

Cookies ==
  [user : {NoUser} \cup [name : Accounts, roles : RoleSets], pending : SUBSET Flows,
   inflight : [flow : Nat, ts : Int], refreshed : Int, verified : BOOLEAN]
TabStates ==
  {Idle} \cup [pc : {"toNC"}, session : Cookies, flow : Flows] \cup [pc : {"grant"}, flow : Flows]
  \cup [pc : {"callback"}, session : Cookies, flow : Flows, who : Accounts]
  \cup [pc : {"page"}, kind : {"view", "save", "verify", "logout"}, session : Cookies]
  \cup [pc : {"reply"}, session : Cookies, had : BOOLEAN]
TypeInv ==
  /\ now \in 0..MaxTime /\ faults \in 0..MaxFaults /\ verified \subseteq Accounts
  /\ minted \in Seq(Int) /\ cookie \in Cookies /\ tabs \in [Tabs -> TabStates]
  /\ token \in Tabs \cup {"none"} /\ cut \subseteq Flows
  /\ stored \in [Accounts -> RoleSets] /\ changed \in [Accounts -> Int]
  /\ DOMAIN groups = Accounts /\ lapped \in BOOLEAN /\ out \in BOOLEAN

\* A session knows of the sign-in in flight, and what its roles are worth.
CookieInv(s) ==
  /\ s.inflight = NoFlow \/ s.inflight.flow \in s.pending
  /\ s.refreshed <= now
  /\ s.verified => verified # {}
  /\ faults = 0 /\ Signed(s) =>
       \/ s.user.roles = RolesOf(groups[s.user.name])
       \/ s.refreshed <= changed[s.user.name]
TabInv(t) ==
  /\ Waiting(t) => CookieInv(tabs[t].session)
  /\ tabs[t].pc = "toNC" => tabs[t].flow \in tabs[t].session.pending

\* While requests do not overlap, each goes by the session of the browser, the
\* state of a sign-in that may be granted is in it, and nobody is signed in who left.
Kept(s, flow) == flow \in s.pending \/ Excused(flow)
AloneInv ==
  /\ \A t, u \in Tabs : Waiting(t) /\ Waiting(u) => t = u
  /\ \A t \in Tabs : tabs[t].pc = "page" => tabs[t].session = cookie
  /\ \A t \in Tabs : tabs[t].pc = "callback" =>
       token = "none" /\ Kept(tabs[t].session, tabs[t].flow)
  /\ \A t \in Tabs : tabs[t].pc = "grant" /\ token = t =>
       /\ Kept(cookie, tabs[t].flow)
       /\ \A u \in Tabs : Waiting(u) => Kept(tabs[u].session, tabs[t].flow)
LeftInv ==
  /\ \A t \in Tabs : Waiting(t) => ~Signed(tabs[t].session)
  /\ Signed(cookie) => \E t \in Tabs :
       tabs[t].pc = "reply" /\ (tabs[t].session # Empty \/ tabs[t].had)

SessionInv ==
  /\ TypeInv /\ CookieInv(cookie) /\ \A t \in Tabs : TabInv(t)
  /\ ~lapped => AloneInv /\ (out => LeftInv)
  /\ SignInsComplete /\ RolesAreFresh /\ VerifiedBefore

-----------------------------------------------------------------------------
(* What the code does not keep. *)

\* "One login = exactly one /authorize": the grant that is tapped is accepted.
GrantsAreAccepted == ~lapped => \A t \in Tabs : tabs[t].pc = "grant" => token = t

\* No page is served to a member whose contact details are not verified: the mark
\* in the session is kept when another member signs in.
VerifiedFirst == "unverified" \notin wrong

\* A session that was ended stays ended, whatever overlaps.
SignedOutAlwaysStays == out /\ (\A t \in Tabs : ~Waiting(t)) => ~Signed(cookie)

\* portal_roles, which notices go by, are the roles of the session.
StoredRolesFollow ==
  (\A t \in Tabs : ~Waiting(t)) /\ Signed(cookie) /\ ~lapped => stored[cookie.user.name] = cookie.user.roles
=============================================================================
