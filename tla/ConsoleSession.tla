--------------------------- MODULE ConsoleSession ---------------------------
(***************************************************************************)
(* Who is signed in to the admin console: the App and Login components of  *)
(* proxy/admin-ui/src/main.tsx in every open browser tab, the cookies the  *)
(* tabs share, and the proxy's sessions.                                   *)
(*                                                                         *)
(* A tab talks to the proxy by requests that are answered in any order:    *)
(* `net` holds those in flight.  A request carries the session cookie of   *)
(* the moment it was sent; the cookies of a response take effect when the  *)
(* response arrives.  React runs the effects of a state change before it   *)
(* handles the next event, so they belong to the step that changed the     *)
(* state (Commit).  Equal requests of one tab are one member of `net`.     *)
(***************************************************************************)
EXTENDS Integers, FiniteSets

CONSTANTS
  Tabs,        \* the browser's tabs
  Accounts,    \* accounts somebody signs in to
  Admins,      \* those whose role is "admin"
  NoUser,      \* session.user is null
  Loading,     \* session.loading
  MaxLogins,   \* sessions ever created (bound)
  MaxLosses,   \* requests or responses that get lost (bound)
  MaxEnds,     \* sessions that expire or whose account is disabled (bound)
  MaxReloads,  \* reloads of a tab (bound)
  MaxMoves,    \* changes of view by links and history buttons (bound)
  MaxTurns,    \* the four above together (bound)
  MaxPending   \* the user acts while fewer requests are in flight (bound)

ASSUME TabsAssumption == Tabs # {}
ASSUME AdminsAssumption == Admins \subseteq Accounts
ASSUME NoUserAssumption == NoUser \notin Accounts /\ Loading \notin Accounts
                           /\ NoUser # Loading
ASSUME BoundsAssumption == {MaxLogins, MaxLosses, MaxEnds, MaxReloads, MaxMoves,
                             MaxTurns, MaxPending} \subseteq Nat

VARIABLES
  tab,      \* React state of each tab
  net,      \* requests of each tab that are in flight
  cookie,   \* session named by macocr_session and macocr_csrf, 0 when unset
  owner,    \* account each session was created for, NoUser before that
  live,     \* sessions Redis still holds for an enabled account
  losses, ends, reloads, moves

serverVars == <<owner, live>>
boundVars == <<losses, ends, reloads, moves>>
vars == <<tab, net, cookie, serverVars, boundVars>>

Sessions == 1 .. MaxLogins
AppView == {"users", "keys", "workers", "portal"}
Paths == AppView \cup {"root"}

Tab == [user : Accounts \cup {NoUser, Loading},
        csrf : 0 .. MaxLogins,
        view : AppView,
        path : Paths,
        busy : BOOLEAN]         \* the Login form waits for its answer

PageCalls == {"users", "keys", "config", "poll"}
CallKinds == PageCalls \cup {"me", "login", "logout"}
Request == [kind  : CallKinds,
            sess  : 0 .. MaxLogins,
            who   : Accounts \cup {NoUser},
            form  : BOOLEAN,     \* the Login form that sent it is still mounted
            reply : {"none", "ok", "401", "lost"}]

TypeOK ==
  /\ tab \in [Tabs -> Tab]
  /\ net \in [Tabs -> SUBSET Request]
  /\ cookie \in 0 .. MaxLogins
  /\ owner \in [Sessions -> Accounts \cup {NoUser}]
  /\ live \subseteq {s \in Sessions : owner[s] # NoUser}
  /\ losses \in 0 .. MaxLosses
  /\ ends \in 0 .. MaxEnds
  /\ reloads \in 0 .. MaxReloads
  /\ moves \in 0 .. MaxMoves

-----------------------------------------------------------------------------
(* What a tab shows *)

ViewFromPath(path) == IF path = "root" THEN "users" ELSE path

Shell(rec) == rec.user \in Accounts
LoginShown(rec) == rec.user = NoUser
IsAdmin(rec) == rec.user \in Admins

\* The component that fills the workspace.
Page(rec) ==
  CASE ~Shell(rec)                            -> "none"
    [] IsAdmin(rec) /\ rec.view = "workers"   -> "workers"
    [] IsAdmin(rec) /\ rec.view = "users"     -> "users"
    [] OTHER                                  -> "portal"

\* What a page fetches when it mounts and whenever `api` changes.
Loads(page) ==
  CASE page = "workers" -> {"poll"}
    [] page = "users"   -> {"users"}
    [] page = "portal"  -> {"keys", "config"}
    [] OTHER            -> {}

Call(kind, jar, who) ==
  [kind |-> kind, sess |-> jar, who |-> who, form |-> TRUE, reply |-> "none"]

\* The effect that keeps the view within the user's role; navigate(_, true)
\* also replaces the address.
RedirectOneWay(rec) ==
  IF Shell(rec) /\ ~IsAdmin(rec) /\ rec.view # "portal"
  THEN [rec EXCEPT !.view = "portal", !.path = "portal"] ELSE rec
Redirect(rec) ==
  IF Shell(rec) /\ IsAdmin(rec) /\ rec.view = "portal"
  THEN [rec EXCEPT !.view = "users", !.path = "users"] ELSE RedirectOneWay(rec)

\* Requests the effects of a state change send: /me and the page's loads run
\* again when csrf, and with it `api`, has changed; a page loads when it
\* mounts, the portal also when the user changes.
EffectsOf(old, new, jar) ==
  LET fresh == new.csrf # old.csrf
      mounts == \/ Page(new) # Page(old)
                \/ Page(new) = "portal" /\ new.user # old.user
      settled == Redirect(new)
  IN {Call(k, jar, NoUser) :
        k \in (IF fresh THEN {"me"} ELSE {})
              \cup (IF fresh \/ mounts THEN Loads(Page(new)) ELSE {})
              \cup (IF Page(settled) # Page(new) THEN Loads(Page(settled)) ELSE {})}

\* The Workers page aborts its poll when it unmounts or `api` changes; a
\* Login form that unmounts no longer sees the answer to its request.
Survivors(requests, old, new) ==
  LET aborted == Page(Redirect(new)) # "workers" \/ new.csrf # old.csrf
      left == LoginShown(old) /\ ~LoginShown(new)
  IN {IF left /\ r.kind = "login" THEN [r EXCEPT !.form = FALSE] ELSE r :
        r \in {q \in requests : ~(aborted /\ q.kind = "poll")}}

Commit(t, new, requests, jar) ==
  LET mounted == IF LoginShown(new) /\ LoginShown(tab[t]) THEN new
                 ELSE [new EXCEPT !.busy = FALSE]
  IN /\ tab' = [tab EXCEPT ![t] = Redirect(mounted)]
     /\ net' = [net EXCEPT ![t] = Survivors(requests, tab[t], new)
                                  \cup EffectsOf(tab[t], new, jar)]

Init ==
  /\ \E path \in Paths :
       tab = [t \in Tabs |-> [user |-> Loading, csrf |-> 0, busy |-> FALSE,
                              view |-> ViewFromPath(path), path |-> path]]
  /\ net = [t \in Tabs |-> {Call("me", 0, NoUser)}]
  /\ cookie = 0
  /\ owner = [s \in Sessions |-> NoUser]
  /\ live = {}
  /\ losses = 0 /\ ends = 0 /\ reloads = 0 /\ moves = 0

-----------------------------------------------------------------------------
(* The user *)

Turn == losses + ends + reloads + moves < MaxTurns
UserMayAct(t) == Cardinality(net[t]) < MaxPending

SubmitLogin(t, a) ==
  /\ LoginShown(tab[t]) /\ ~tab[t].busy /\ UserMayAct(t)
  /\ tab' = [tab EXCEPT ![t].busy = TRUE]
  /\ net' = [net EXCEPT ![t] = @ \cup {Call("login", cookie, a)}]
  /\ UNCHANGED <<cookie, serverVars, boundVars>>

ClickLogout(t) ==
  /\ Shell(tab[t]) /\ UserMayAct(t)
  /\ net' = [net EXCEPT ![t] = @ \cup {Call("logout", cookie, NoUser)}]
  /\ UNCHANGED <<tab, cookie, serverVars, boundVars>>

\* The sidebar's links.
Navigate(t, v) ==
  /\ Shell(tab[t])
  /\ v \in (IF IsAdmin(tab[t]) THEN AppView \ {"portal"} ELSE {"portal"})
  /\ UserMayAct(t) /\ moves < MaxMoves /\ Turn /\ moves' = moves + 1
  /\ Commit(t, [tab[t] EXCEPT !.view = v, !.path = v], net[t], cookie)
  /\ UNCHANGED <<cookie, serverVars, losses, ends, reloads>>

\* Back or forward to an address of the tab's history.
PopState(t, path) ==
  /\ UserMayAct(t) /\ moves < MaxMoves /\ Turn /\ moves' = moves + 1
  /\ Commit(t, [tab[t] EXCEPT !.view = ViewFromPath(path), !.path = path],
            net[t], cookie)
  /\ UNCHANGED <<cookie, serverVars, losses, ends, reloads>>

\* The page starts over; whatever was in flight answers nobody.
Reload(t) ==
  /\ reloads < MaxReloads /\ Turn
  /\ reloads' = reloads + 1
  /\ tab' = [tab EXCEPT ![t] = [user |-> Loading, csrf |-> cookie, busy |-> FALSE,
                                view |-> ViewFromPath(@.path), path |-> @.path]]
  /\ net' = [net EXCEPT ![t] = {Call("me", cookie, NoUser)}]
  /\ UNCHANGED <<cookie, serverVars, losses, ends, moves>>

\* The Workers page polls again five seconds after an answer.
Poll(t) ==
  /\ Page(tab[t]) = "workers"
  /\ \A r \in net[t] : r.kind # "poll"
  /\ net' = [net EXCEPT ![t] = @ \cup {Call("poll", cookie, NoUser)}]
  /\ UNCHANGED <<tab, cookie, serverVars, boundVars>>

-----------------------------------------------------------------------------
(* The proxy *)

Answered(t, r, answer) == net' = [net EXCEPT ![t] = (@ \ {r}) \cup {answer}]

\* Me answers with the session's account, or 401 (sessionFromContext).
ServeMe(t, r) ==
  /\ r \in net[t] /\ r.kind = "me" /\ r.reply = "none"
  /\ Answered(t, r, IF r.sess \in live THEN [r EXCEPT !.reply = "ok", !.who = owner[r.sess]]
                    ELSE [r EXCEPT !.reply = "401"])
  /\ UNCHANGED <<tab, cookie, serverVars, boundVars>>

\* Any answer but 401, a 403 included, changes nothing in this module.
ServePageCall(t, r) ==
  /\ r \in net[t] /\ r.kind \in PageCalls /\ r.reply = "none"
  /\ IF r.sess \in live THEN net' = [net EXCEPT ![t] = @ \ {r}]
     ELSE Answered(t, r, [r EXCEPT !.reply = "401"])
  /\ UNCHANGED <<tab, cookie, serverVars, boundVars>>

\* Login creates a session, or refuses the credentials or the attempt.
ServeLogin(t, r) ==
  /\ r \in net[t] /\ r.kind = "login" /\ r.reply = "none"
  /\ \/ \E s \in Sessions :
          /\ owner[s] = NoUser /\ \A q \in Sessions : q < s => owner[q] # NoUser
          /\ owner' = [owner EXCEPT ![s] = r.who]
          /\ live' = live \cup {s}
          /\ Answered(t, r, [r EXCEPT !.reply = "ok", !.sess = s])
     \/ /\ Answered(t, r, [r EXCEPT !.reply = "401"])
        /\ UNCHANGED serverVars
  /\ UNCHANGED <<tab, cookie, boundVars>>

ServeLogout(t, r) ==
  /\ r \in net[t] /\ r.kind = "logout" /\ r.reply = "none"
  /\ live' = live \ {r.sess}
  /\ Answered(t, r, [r EXCEPT !.reply = "ok"])
  /\ UNCHANGED <<tab, cookie, owner, boundVars>>

\* The session expires (its cookies with it) or its account is disabled.
EndSession(s) ==
  /\ s \in live /\ ends < MaxEnds /\ Turn
  /\ ends' = ends + 1
  /\ live' = live \ {s}
  /\ cookie' \in {cookie, IF cookie = s THEN 0 ELSE cookie}
  /\ UNCHANGED <<tab, net, owner, losses, reloads, moves>>

\* A request or its response is lost: fetch rejects.
Lose(t, r) ==
  /\ r \in net[t] /\ r.reply # "lost" /\ losses < MaxLosses /\ Turn
  /\ losses' = losses + 1
  /\ Answered(t, r, [r EXCEPT !.reply = "lost"])
  /\ UNCHANGED <<tab, cookie, serverVars, ends, reloads, moves>>

-----------------------------------------------------------------------------
(* Responses arriving in a tab *)

SignedOut(rec) == [rec EXCEPT !.user = NoUser]

\* Faulty variants: api that leaves a 401 to its callers; a chain without catch.
KeepsShell(rec, r) == rec
OnFailedCall(rec, r) == IF r.reply = "401" THEN SignedOut(rec) ELSE rec

NoCatch(rec, r) == IF r.reply = "ok" THEN [rec EXCEPT !.user = r.who]
                   ELSE OnFailedCall(rec, r)
OnMe(rec, r) == IF r.reply = "ok" THEN [rec EXCEPT !.user = r.who] ELSE SignedOut(rec)

DeliverMe(t, r) ==
  /\ r \in net[t] /\ r.kind = "me" /\ r.reply # "none"
  /\ Commit(t, OnMe(tab[t], r), net[t] \ {r}, cookie)
  /\ UNCHANGED <<cookie, serverVars, boundVars>>

DeliverPageCall(t, r) ==
  /\ r \in net[t] /\ r.kind \in PageCalls /\ r.reply # "none"
  /\ Commit(t, OnFailedCall(tab[t], r), net[t] \ {r}, cookie)
  /\ UNCHANGED <<cookie, serverVars, boundVars>>

\* Where a fresh login lands: an administrator on the address he came for.
\* Faulty variant: the address is taken for the view it names.
LandingRaw(a, path) == IF a \notin Admins THEN "portal" ELSE path
Landing(a, path) ==
  IF a \notin Admins THEN "portal"
  ELSE IF ViewFromPath(path) = "portal" THEN "users" ELSE ViewFromPath(path)

\* Faulty variant: a refused login leaves the button disabled.
StaysBusy(rec, r) == rec
OnRefusedLogin(rec, r) == IF r.form THEN [rec EXCEPT !.busy = FALSE] ELSE rec

DeliverLogin(t, r) ==
  /\ r \in net[t] /\ r.kind = "login" /\ r.reply # "none"
  /\ IF r.reply = "ok"
     THEN LET v == Landing(r.who, tab[t].path) IN
          /\ cookie' = r.sess
          /\ Commit(t, [tab[t] EXCEPT !.csrf = r.sess, !.user = r.who,
                                      !.view = v, !.path = v], net[t] \ {r}, r.sess)
     ELSE /\ Commit(t, OnRefusedLogin(tab[t], r), net[t] \ {r}, cookie)
          /\ UNCHANGED cookie
  /\ UNCHANGED <<serverVars, boundVars>>

\* logout() does not look at the status; it does not get here when fetch
\* rejects, and then changes nothing.
DeliverLogout(t, r) ==
  /\ r \in net[t] /\ r.kind = "logout" /\ r.reply # "none"
  /\ IF r.reply = "ok"
     THEN /\ cookie' = 0
          /\ Commit(t, [SignedOut(tab[t]) EXCEPT !.csrf = 0, !.path = "root"],
                    net[t] \ {r}, 0)
     ELSE /\ net' = [net EXCEPT ![t] = @ \ {r}]
          /\ UNCHANGED <<tab, cookie>>
  /\ UNCHANGED <<serverVars, boundVars>>

-----------------------------------------------------------------------------
Serve(t, r) == \/ ServeMe(t, r) \/ ServePageCall(t, r)
               \/ ServeLogin(t, r) \/ ServeLogout(t, r)
Deliver(t, r) == \/ DeliverMe(t, r) \/ DeliverPageCall(t, r)
                 \/ DeliverLogin(t, r) \/ DeliverLogout(t, r)

Next ==
  \/ \E t \in Tabs :
       \/ \E a \in Accounts : SubmitLogin(t, a)
       \/ ClickLogout(t)
       \/ \E v \in AppView : Navigate(t, v)
       \/ \E path \in Paths : PopState(t, path)
       \/ Reload(t)
       \/ Poll(t)
       \/ \E r \in net[t] : Serve(t, r) \/ Deliver(t, r) \/ Lose(t, r)
  \/ \E s \in Sessions : EndSession(s)

Spec == Init /\ [][Next]_vars

\* Requests of every kind are answered, or lost and reported so, and the
\* browser delivers the answers; the poll timer fires.  Nothing is assumed of
\* the user.
Progress(t, kind) ==
  \E r \in net[t] : r.kind = kind /\ (Serve(t, r) \/ Deliver(t, r))
Fairness ==
  \A t \in Tabs : /\ \A kind \in CallKinds : WF_vars(Progress(t, kind))
                  /\ WF_vars(Poll(t))
FairSpec == Spec /\ Fairness

-----------------------------------------------------------------------------
(* Properties *)

\* The redirect effect and the landing after a login keep a signed-in user on
\* a view of his role, whatever the history buttons, a stale address or a late
\* /me answer ask for.
ViewFitsRole ==
  \A t \in Tabs : Shell(tab[t]) => (IsAdmin(tab[t]) <=> tab[t].view # "portal")

\* An answer that will sign the tab out is already under way.
Doomed(t) ==
  \E r \in net[t] : \/ r.kind = "logout" /\ r.reply \in {"none", "ok"}
                    \/ r.kind # "login" /\ r.reply = "401"
                    \/ r.kind # "login" /\ r.reply = "none" /\ r.sess \notin live

\* After a logout a late /me answer can bring the console back although the
\* session is gone, and a logout in one tab leaves the others as they are.  The
\* pages' own loads then end it: as long as nothing is lost and the session was
\* not ended from outside, a browser without a session has a tab that shows no
\* console or is about to be signed out by a 401.
GhostShellIsDoomed ==
  losses = 0 /\ ends = 0 /\ cookie \notin live =>
    \E t \in Tabs : ~Shell(tab[t]) \/ Doomed(t)

\* The initial spinner does not stay: an answered, refused or lost /me all end it.
SpinnerEnds == \A t \in Tabs : tab[t].user = Loading ~> tab[t].user # Loading

\* A Login form that waits is released or replaced by the console.
LoginAnswered == \A t \in Tabs : tab[t].busy ~> ~tab[t].busy

\* A tab left on the Workers page notices that the browser has no session any
\* more (another tab logged out): its poll is answered 401.
WorkersPageNoticesLogout ==
  \A t \in Tabs : (Page(tab[t]) = "workers" /\ cookie = 0)
                    ~> (Page(tab[t]) # "workers" \/ cookie # 0)
=============================================================================
