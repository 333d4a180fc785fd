------------------------ MODULE ConsoleSessionProofs ------------------------
(***************************************************************************)
(* Proofs about ConsoleSession for any number of tabs, accounts, sessions  *)
(* and requests in flight.                                                 *)
(*                                                                         *)
(* React's part of a step is always Commit: CommitTab says what it makes   *)
(* of the tab, CommitNet what it makes of the requests in flight.          *)
(***************************************************************************)
EXTENDS ConsoleSession, TLAPS

USE TabsAssumption, AdminsAssumption, NoUserAssumption, BoundsAssumption

\* A login names an account, and a request a session that exists.
Proper(r) ==
  /\ r.kind = "login" => r.who \in Accounts
  /\ r.kind = "logout" => r.reply # "401"
  /\ losses = 0 => r.reply # "lost"
  /\ r.sess = 0 \/ owner[r.sess] # NoUser

NetProper == \A t \in Tabs : \A r \in net[t] : Proper(r)
CookieKnown == cookie = 0 \/ owner[cookie] # NoUser

TypeInv == TypeOK /\ NetProper /\ CookieKnown

-----------------------------------------------------------------------------
(* The operators of the model.                                             *)

LEMMA PageValues ==
  ASSUME NEW rec \in Tab
  PROVE  /\ Page(rec) \in {"none", "workers", "users", "portal"}
         /\ Page(rec) = "none" <=> ~Shell(rec)
         /\ Page(rec) = "workers" <=> Shell(rec) /\ IsAdmin(rec) /\ rec.view = "workers"
BY DEF Page, Shell, IsAdmin, Tab

LEMMA RedirectFits ==
  ASSUME NEW rec \in Tab
  PROVE  /\ Redirect(rec) \in Tab
         /\ Redirect(rec).user = rec.user /\ Redirect(rec).csrf = rec.csrf
         /\ Shell(rec) => (IsAdmin(rec) <=> Redirect(rec).view # "portal")
         /\ rec.view = "workers" /\ IsAdmin(rec) => Redirect(rec) = rec
BY DEF Redirect, RedirectOneWay, Shell, IsAdmin, Tab, AppView, Paths

LEMMA LoadsValues ==
  ASSUME NEW page \in {"none", "workers", "users", "portal"}
  PROVE  /\ Loads(page) \subseteq PageCalls
         /\ page # "none" => Loads(page) # {}
         /\ "poll" \in Loads(page) => page = "workers"
BY DEF Loads, PageCalls

LEMMA CallTyped ==
  ASSUME NEW kind \in CallKinds, NEW jar \in 0 .. MaxLogins, NEW who \in Accounts \cup {NoUser}
  PROVE  Call(kind, jar, who) \in Request
BY DEF Call, Request

\* What a mounted form's request is once the form is gone.
Aged(left, r) == IF left /\ r.kind = "login" THEN [r EXCEPT !.form = FALSE] ELSE r

LEMMA AgedSame ==
  ASSUME NEW r \in Request, NEW left \in BOOLEAN
  PROVE  /\ Aged(left, r) \in Request
         /\ Aged(left, r).kind = r.kind /\ Aged(left, r).sess = r.sess
         /\ Aged(left, r).who = r.who /\ Aged(left, r).reply = r.reply
         /\ r.kind # "login" => Aged(left, r) = r
BY DEF Aged, Request

\* Requests after a commit: those that survive, and calls with the new cookie.
LEMMA CommitNet ==
  ASSUME tab \in [Tabs -> Tab], net \in [Tabs -> SUBSET Request],
         NEW t \in Tabs, NEW new \in Tab, NEW requests, NEW jar \in 0 .. MaxLogins,
         Commit(t, new, requests, jar)
  PROVE  /\ \A u \in Tabs : u # t => net'[u] = net[u]
         /\ \E left \in BOOLEAN : \A q \in net'[t] :
              \/ \E r \in requests : /\ q = Aged(left, r)
                                     /\ r.kind = "poll" => Page(Redirect(new)) = "workers"
              \/ \E kind \in PageCalls \cup {"me"} :
                   /\ q = Call(kind, jar, NoUser)
                   /\ kind = "poll" => Page(Redirect(new)) = "workers"
<1> DEFINE left == LoginShown(tab[t]) /\ ~LoginShown(new)
           aborted == Page(Redirect(new)) # "workers" \/ new.csrf # tab[t].csrf
<1>1. net' = [net EXCEPT ![t] = Survivors(requests, tab[t], new) \cup EffectsOf(tab[t], new, jar)]
  BY DEF Commit
<1>2. ASSUME NEW q \in Survivors(requests, tab[t], new)
      PROVE  \E r \in requests : /\ q = Aged(left, r)
                                 /\ r.kind = "poll" => Page(Redirect(new)) = "workers"
  BY <1>2 DEF Survivors, Aged
<1>3. ASSUME NEW q \in EffectsOf(tab[t], new, jar)
      PROVE  \E kind \in PageCalls \cup {"me"} :
               /\ q = Call(kind, jar, NoUser)
               /\ kind = "poll" => Page(Redirect(new)) = "workers"
  <2>1. PICK kind : /\ q = Call(kind, jar, NoUser)
                    /\ \/ kind = "me"
                       \/ kind \in Loads(Page(new))
                       \/ kind \in Loads(Page(Redirect(new)))
    BY <1>3 DEF EffectsOf
  <2>2. Page(new) = "workers" => Page(Redirect(new)) = "workers"
    BY PageValues, RedirectFits
  <2>3. Page(new) \in {"none", "workers", "users", "portal"}
        /\ Page(Redirect(new)) \in {"none", "workers", "users", "portal"}
    BY PageValues, RedirectFits
  <2> QED BY <2>1, <2>2, <2>3, LoadsValues
<1>4. left \in BOOLEAN
  BY DEF LoginShown
<1> HIDE DEF left
<1>5. net'[t] = Survivors(requests, tab[t], new) \cup EffectsOf(tab[t], new, jar)
  BY <1>1
<1> QED BY <1>1, <1>2, <1>3, <1>4, <1>5

\* As long as the CSRF token is the same, a commit keeps every request but a
\* form's and a poll whose page it leaves, and sends the loads of a page it mounts.
LEMMA CommitKeeps ==
  ASSUME net \in [Tabs -> SUBSET Request],
         NEW t \in Tabs, NEW new, NEW requests, NEW jar,
         Commit(t, new, requests, jar), new.csrf = tab[t].csrf
  PROVE  /\ \A r \in requests : /\ r.kind # "login"
                                /\ r.kind # "poll" \/ Page(Redirect(new)) = "workers"
                                => r \in net'[t]
         /\ Page(new) # Page(tab[t]) =>
              \A kind \in Loads(Page(new)) : Call(kind, jar, NoUser) \in net'[t]
<1>1. net'[t] = Survivors(requests, tab[t], new) \cup EffectsOf(tab[t], new, jar)
  BY DEF Commit
<1>2. ASSUME NEW r \in requests, r.kind # "login",
             r.kind # "poll" \/ Page(Redirect(new)) = "workers"
      PROVE  r \in Survivors(requests, tab[t], new)
  BY <1>2 DEF Survivors
<1>3. ASSUME Page(new) # Page(tab[t]), NEW kind \in Loads(Page(new))
      PROVE  Call(kind, jar, NoUser) \in EffectsOf(tab[t], new, jar)
  BY <1>3 DEF EffectsOf
<1> QED BY <1>1, <1>2, <1>3

\* The tab after a commit is the new state, on a view that fits its role.
LEMMA CommitTab ==
  ASSUME tab \in [Tabs -> Tab],
         NEW t \in Tabs, NEW new \in Tab, NEW requests, NEW jar,
         Commit(t, new, requests, jar)
  PROVE  /\ tab' \in [Tabs -> Tab]
         /\ \A u \in Tabs : u # t => tab'[u] = tab[u]
         /\ tab'[t].user = new.user
         /\ Page(tab'[t]) = Page(Redirect(new))
         /\ Shell(tab'[t]) => (IsAdmin(tab'[t]) <=> tab'[t].view # "portal")
<1> DEFINE mounted == IF LoginShown(new) /\ LoginShown(tab[t]) THEN new
                      ELSE [new EXCEPT !.busy = FALSE]
<1>1. tab' = [tab EXCEPT ![t] = Redirect(mounted)]
  BY DEF Commit
<1>2. mounted \in Tab /\ mounted.user = new.user /\ mounted.view = new.view
  BY DEF Tab
<1> HIDE DEF mounted
<1>3. Redirect(mounted) \in Tab /\ Redirect(mounted).user = new.user
  BY <1>2, RedirectFits
<1>4. Redirect(mounted).view = Redirect(new).view
  BY <1>2, <1>3, RedirectFits DEF Redirect, RedirectOneWay, Shell, IsAdmin, Tab
<1>5. Redirect(new).user = new.user
  BY RedirectFits
<1>6. tab'[t] = Redirect(mounted)
  BY <1>1
<1>7. Page(Redirect(mounted)) = Page(Redirect(new))
  BY <1>3, <1>4, <1>5 DEF Page, Shell, IsAdmin
<1>8. Shell(Redirect(mounted)) => (IsAdmin(Redirect(mounted)) <=> Redirect(mounted).view # "portal")
  BY <1>2, <1>3, RedirectFits DEF Shell, IsAdmin
<1> QED BY <1>1, <1>3, <1>6, <1>7, <1>8

-----------------------------------------------------------------------------
(* Types.                                                                  *)

LEMMA CommitTyped ==
  ASSUME TypeInv, NEW t \in Tabs, NEW new \in Tab, NEW requests \in SUBSET net[t],
         NEW jar \in 0 .. MaxLogins, jar = 0 \/ owner[jar] # NoUser,
         Commit(t, new, requests, jar), UNCHANGED <<owner, losses>>
  PROVE  /\ tab' \in [Tabs -> Tab] /\ net' \in [Tabs -> SUBSET Request]
         /\ NetProper'
<1> USE DEF TypeInv, TypeOK
<1>1. tab' \in [Tabs -> Tab]
  BY CommitTab
<1>2. ASSUME NEW kind \in PageCalls \cup {"me"}
      PROVE  Call(kind, jar, NoUser) \in Request /\ Proper(Call(kind, jar, NoUser))'
  <2>1. kind \in CallKinds
    BY DEF CallKinds
  <2>2. kind # "login" /\ kind # "logout"
    BY DEF PageCalls
  <2>3. Call(kind, jar, NoUser).kind = kind /\ Call(kind, jar, NoUser).sess = jar
        /\ Call(kind, jar, NoUser).reply = "none"
    BY DEF Call
  <2> QED BY <2>1, <2>2, <2>3, CallTyped DEF Proper
<1>3. ASSUME NEW r \in requests, NEW left \in BOOLEAN
      PROVE  Aged(left, r) \in Request /\ Proper(Aged(left, r))'
  BY AgedSame DEF NetProper, Proper
<1>4. \A q \in net'[t] : q \in Request /\ Proper(q)'
  BY <1>2, <1>3, CommitNet
<1>5. \A u \in Tabs : u # t => net'[u] = net[u]
  BY CommitNet
<1>6. \A u \in Tabs : net'[u] \in SUBSET Request /\ \A q \in net'[u] : Proper(q)'
  BY <1>4, <1>5 DEF NetProper, Proper
<1>7. net' = [net EXCEPT ![t] = net'[t]]
  BY DEF Commit
<1>8. net' \in [Tabs -> SUBSET Request]
  BY <1>6, <1>7
<1> QED BY <1>1, <1>6, <1>8 DEF NetProper

\* A call is added, or answered.
LEMMA AnswerTyped ==
  ASSUME TypeInv, NEW t \in Tabs, NEW r, NEW answer \in Request, Proper(answer)',
         net' = [net EXCEPT ![t] = (@ \ {r}) \cup {answer}],
         \A s \in Sessions : owner[s] # NoUser => owner'[s] # NoUser,
         losses' = 0 => losses = 0
  PROVE  net' \in [Tabs -> SUBSET Request] /\ NetProper'
<1> USE DEF TypeInv, TypeOK
<1>1. net' \in [Tabs -> SUBSET Request]
  OBVIOUS
<1>2. ASSUME NEW u \in Tabs, NEW q \in net[u]
      PROVE  Proper(q)'
  <2>1. q \in Request /\ Proper(q)
    BY DEF NetProper
  <2>2. q.sess = 0 \/ q.sess \in Sessions
    BY <2>1 DEF Request, Sessions
  <2> QED BY <2>1, <2>2 DEF Proper
<1>3. \A u \in Tabs : \A q \in net'[u] : q \in net[u] \/ q = answer
  OBVIOUS
<1> QED BY <1>1, <1>2, <1>3 DEF NetProper

\* A call sent with the browser's present cookie.
LEMMA CallProper ==
  ASSUME TypeInv, NEW kind \in CallKinds, NEW who \in Accounts \cup {NoUser},
         kind = "login" => who \in Accounts, UNCHANGED <<owner, losses>>,
         NEW jar, jar = cookie
  PROVE  Call(kind, jar, who) \in Request /\ Proper(Call(kind, jar, who))'
<1>1. jar \in 0 .. MaxLogins /\ (jar = 0 \/ owner[jar] # NoUser)
  BY DEF TypeInv, TypeOK, CookieKnown
<1>2. Call(kind, jar, who).kind = kind /\ Call(kind, jar, who).sess = jar
      /\ Call(kind, jar, who).who = who /\ Call(kind, jar, who).reply = "none"
  BY DEF Call
<1> QED BY <1>1, <1>2, CallTyped DEF Proper

LEMMA CallAdded ==
  ASSUME TypeInv, NEW t \in Tabs, NEW kind \in CallKinds, NEW who \in Accounts \cup {NoUser},
         kind = "login" => who \in Accounts, UNCHANGED <<owner, losses>>,
         NEW jar, jar = cookie,
         net' = [net EXCEPT ![t] = @ \cup {Call(kind, jar, who)}]
  PROVE  net' \in [Tabs -> SUBSET Request] /\ NetProper'
<1> DEFINE sent == Call(kind, jar, who)
<1>1. sent \in Request /\ Proper(sent)'
  BY CallProper
<1>2. net' = [net EXCEPT ![t] = (@ \ {sent}) \cup {sent}]
  OBVIOUS
<1> HIDE DEF sent
<1> QED BY <1>1, <1>2, AnswerTyped

LEMMA UserTyped ==
  ASSUME TypeInv, NEW t \in Tabs,
         \/ \E a \in Accounts : SubmitLogin(t, a)
         \/ ClickLogout(t)
         \/ \E v \in AppView : Navigate(t, v)
         \/ \E path \in Paths : PopState(t, path)
         \/ Reload(t)
         \/ Poll(t)
  PROVE  TypeInv'
<1> USE DEF TypeInv, TypeOK, CookieKnown, serverVars, boundVars
<1>1. PICK jar : jar = cookie
  OBVIOUS
<1>2. ASSUME NEW kind \in CallKinds, NEW who \in Accounts \cup {NoUser},
             kind = "login" => who \in Accounts, UNCHANGED <<owner, losses>>,
             net' = [net EXCEPT ![t] = @ \cup {Call(kind, cookie, who)}]
      PROVE  net' \in [Tabs -> SUBSET Request] /\ NetProper'
  BY <1>1, <1>2, CallAdded
<1>3. ASSUME NEW a \in Accounts, SubmitLogin(t, a)
      PROVE  TypeInv'
  <2>1. tab' \in [Tabs -> Tab]
    <3>1. [tab[t] EXCEPT !.busy = TRUE] \in Tab
      BY DEF Tab
    <3> QED BY <1>3, <3>1 DEF SubmitLogin
  <2>2. net' \in [Tabs -> SUBSET Request] /\ NetProper'
    BY <1>2, <1>3 DEF SubmitLogin, CallKinds
  <2> QED BY <1>3, <2>1, <2>2 DEF SubmitLogin
<1>4. CASE ClickLogout(t)
  <2>1. net' \in [Tabs -> SUBSET Request] /\ NetProper'
    <3>1. "logout" \in CallKinds /\ "logout" # "login" /\ NoUser \in Accounts \cup {NoUser}
      BY DEF CallKinds
    <3>2. net' = [net EXCEPT ![t] = @ \cup {Call("logout", cookie, NoUser)}]
          /\ UNCHANGED <<owner, losses>>
      BY <1>4 DEF ClickLogout
    <3> QED BY <1>2, <3>1, <3>2
  <2> QED BY <1>4, <2>1 DEF ClickLogout
<1>5. CASE Poll(t)
  <2>1. net' \in [Tabs -> SUBSET Request] /\ NetProper'
    <3>1. "poll" \in CallKinds /\ "poll" # "login" /\ NoUser \in Accounts \cup {NoUser}
      BY DEF CallKinds, PageCalls
    <3>2. net' = [net EXCEPT ![t] = @ \cup {Call("poll", cookie, NoUser)}]
          /\ UNCHANGED <<owner, losses>>
      BY <1>5 DEF Poll
    <3> QED BY <1>2, <3>1, <3>2
  <2> QED BY <1>5, <2>1 DEF Poll
<1>10. ASSUME NEW new \in Tab, Commit(t, new, net[t], cookie), moves < MaxMoves, moves' = moves + 1,
              UNCHANGED <<cookie, owner, live, losses, ends, reloads>>
       PROVE  TypeInv'
  <2>1. /\ tab' \in [Tabs -> Tab] /\ net' \in [Tabs -> SUBSET Request]
        /\ NetProper'
    BY <1>10, CommitTyped
  <2> QED BY <1>10, <2>1
<1>6. ASSUME NEW v \in AppView, Navigate(t, v)
      PROVE  TypeInv'
  <2>1. [tab[t] EXCEPT !.view = v, !.path = v] \in Tab
    BY DEF Tab, AppView, Paths
  <2> QED BY <1>6, <1>10, <2>1 DEF Navigate
<1>7. ASSUME NEW path \in Paths, PopState(t, path)
      PROVE  TypeInv'
  <2>1. [tab[t] EXCEPT !.view = ViewFromPath(path), !.path = path] \in Tab
    BY DEF Tab, AppView, Paths, ViewFromPath
  <2> QED BY <1>7, <1>10, <2>1 DEF PopState
<1>8. CASE Reload(t)
  <2> DEFINE rec == [user |-> Loading, csrf |-> cookie, busy |-> FALSE,
                     view |-> ViewFromPath(tab[t].path), path |-> tab[t].path]
  <2>1. rec \in Tab
    BY DEF Tab, AppView, Paths, ViewFromPath
  <2>2. tab' = [tab EXCEPT ![t] = rec]
    BY <1>8 DEF Reload
  <2> HIDE DEF rec
  <2>3. tab' \in [Tabs -> Tab]
    BY <2>1, <2>2
  <2>4. Call("me", jar, NoUser) \in Request /\ Proper(Call("me", jar, NoUser))'
    BY <1>1, <1>8, CallProper DEF Reload, CallKinds
  <2>5. net' = [net EXCEPT ![t] = {Call("me", jar, NoUser)}] /\ owner' = owner /\ losses' = losses
    BY <1>1, <1>8 DEF Reload
  <2>6. ASSUME NEW u \in Tabs, NEW q \in net'[u]
        PROVE  q \in Request /\ Proper(q)'
    <3>1. CASE u = t
      BY <2>4, <2>5, <2>6, <3>1
    <3>2. CASE u # t
      BY <2>5, <2>6, <3>2 DEF NetProper, Proper
    <3> QED BY <3>1, <3>2
  <2>7. net' \in [Tabs -> SUBSET Request] /\ NetProper'
    BY <2>5, <2>6 DEF NetProper
  <2> QED BY <1>8, <2>3, <2>7 DEF Reload
<1> QED BY <1>3, <1>4, <1>5, <1>6, <1>7, <1>8

LEMMA ProxyTyped ==
  ASSUME TypeInv, NEW t \in Tabs, NEW r \in net[t], Serve(t, r) \/ Lose(t, r)
  PROVE  TypeInv'
<1> USE DEF TypeInv, TypeOK, CookieKnown, serverVars, boundVars
<1>1. r \in Request /\ Proper(r)
  BY DEF NetProper
<1>2. ASSUME NEW answer, Answered(t, r, answer), answer \in Request, Proper(answer)',
             \A s \in Sessions : owner[s] # NoUser => owner'[s] # NoUser,
             losses' = 0 => losses = 0
      PROVE  net' \in [Tabs -> SUBSET Request] /\ NetProper'
  BY <1>2, AnswerTyped DEF Answered
<1>3. CASE ServeMe(t, r)
  <2>0. PICK account : account = owner[r.sess]
    OBVIOUS
  <2> DEFINE yes == [r EXCEPT !.reply = "ok", !.who = account]
             no == [r EXCEPT !.reply = "401"]
  <2>1. r.kind = "me" /\ UNCHANGED <<owner, losses>>
    BY <1>3 DEF ServeMe
  <2>2. no \in Request /\ Proper(no)'
    BY <1>1, <2>1 DEF Request, Proper
  <2>3. r.sess \in live => yes \in Request /\ Proper(yes)'
    BY <1>1, <2>0, <2>1 DEF Request, Proper
  <2>4. Answered(t, r, IF r.sess \in live THEN yes ELSE no)
    BY <1>3, <2>0 DEF ServeMe
  <2> HIDE DEF yes, no
  <2>5. PICK answer \in Request : Answered(t, r, answer) /\ Proper(answer)'
    <3>1. CASE r.sess \in live
      BY <2>3, <2>4, <3>1 DEF Answered
    <3>2. CASE r.sess \notin live
      BY <2>2, <2>4, <3>2 DEF Answered
    <3> QED BY <3>1, <3>2
  <2>6. net' \in [Tabs -> SUBSET Request] /\ NetProper'
    BY <1>2, <2>1, <2>5
  <2> QED BY <1>3, <2>6 DEF ServeMe
<1>4. CASE ServePageCall(t, r)
  <2>1. UNCHANGED <<owner, losses>> /\ r.kind \in PageCalls
    BY <1>4 DEF ServePageCall
  <2>2. [r EXCEPT !.reply = "401"] \in Request /\ Proper([r EXCEPT !.reply = "401"])'
    BY <1>1, <2>1 DEF Request, Proper, PageCalls
  <2>3. CASE net' = [net EXCEPT ![t] = @ \ {r}]
    BY <1>4, <2>1, <2>3 DEF ServePageCall, NetProper, Proper
  <2>4. CASE Answered(t, r, [r EXCEPT !.reply = "401"])
    <3>1. net' \in [Tabs -> SUBSET Request] /\ NetProper'
      BY <1>2, <2>1, <2>2, <2>4
    <3> QED BY <1>4, <3>1 DEF ServePageCall
  <2> QED BY <1>4, <2>3, <2>4 DEF ServePageCall
<1>5. CASE ServeLogin(t, r)
  <2>1. r.kind = "login" /\ losses' = losses
    BY <1>5 DEF ServeLogin
  <2>2. ASSUME NEW s \in Sessions, owner[s] = NoUser,
               owner' = [owner EXCEPT ![s] = r.who], live' = live \cup {s},
               Answered(t, r, [r EXCEPT !.reply = "ok", !.sess = s])
        PROVE  TypeInv'
    <3> DEFINE answer == [r EXCEPT !.reply = "ok", !.sess = s]
    <3>1. r.who \in Accounts
      BY <1>1, <2>1 DEF Proper
    <3>2. owner' \in [Sessions -> Accounts \cup {NoUser}] /\ owner'[s] # NoUser
          /\ \A q \in Sessions : owner[q] # NoUser => owner'[q] # NoUser
      BY <2>2, <3>1
    <3>3. answer \in Request /\ answer.kind = "login" /\ answer.who = r.who
          /\ answer.reply = "ok" /\ answer.sess = s
      <4>1. s \in 0 .. MaxLogins
        BY DEF Sessions
      <4> QED BY <1>1, <2>1, <4>1 DEF Request
    <3>4. Proper(answer)'
      BY <3>1, <3>2, <3>3 DEF Proper
    <3> HIDE DEF answer
    <3>5. net' \in [Tabs -> SUBSET Request] /\ NetProper'
      BY <1>2, <2>1, <2>2, <3>2, <3>3, <3>4 DEF answer
    <3>6. live' \subseteq {q \in Sessions : owner'[q] # NoUser}
      BY <2>2, <3>2
    <3>7. UNCHANGED <<tab, cookie, losses, ends, reloads, moves>>
      BY <1>5 DEF ServeLogin
    <3>8. CookieKnown'
      BY <3>2, <3>7 DEF Sessions
    <3> QED BY <3>2, <3>5, <3>6, <3>7, <3>8
  <2>3. CASE Answered(t, r, [r EXCEPT !.reply = "401"]) /\ UNCHANGED <<owner, live>>
    <3>1. [r EXCEPT !.reply = "401"] \in Request /\ Proper([r EXCEPT !.reply = "401"])'
      BY <1>1, <2>1, <2>3 DEF Request, Proper
    <3>2. net' \in [Tabs -> SUBSET Request] /\ NetProper'
      BY <1>2, <2>1, <2>3, <3>1
    <3> QED BY <1>5, <2>3, <3>2 DEF ServeLogin
  <2> QED BY <1>5, <2>2, <2>3 DEF ServeLogin
<1>6. CASE ServeLogout(t, r)
  <2>1. [r EXCEPT !.reply = "ok"] \in Request /\ Proper([r EXCEPT !.reply = "ok"])'
    BY <1>1, <1>6 DEF ServeLogout, Request, Proper
  <2>2. net' \in [Tabs -> SUBSET Request] /\ NetProper'
    BY <1>2, <1>6, <2>1 DEF ServeLogout
  <2> QED BY <1>6, <2>2 DEF ServeLogout
<1>7. CASE Lose(t, r)
  <2>1. losses' = losses + 1 /\ losses' \in 0 .. MaxLosses /\ losses' # 0
    BY <1>7 DEF Lose
  <2>2. [r EXCEPT !.reply = "lost"] \in Request /\ Proper([r EXCEPT !.reply = "lost"])'
    BY <1>1, <1>7, <2>1 DEF Lose, Request, Proper
  <2>3. net' \in [Tabs -> SUBSET Request] /\ NetProper'
    BY <1>2, <1>7, <2>1, <2>2 DEF Lose
  <2> QED BY <1>7, <2>1, <2>3 DEF Lose
<1> QED BY <1>3, <1>4, <1>5, <1>6, <1>7 DEF Serve

\* A response that arrives either commits a new state of the tab, under the
\* cookie it leaves the browser with, or is the failure of a logout.
LEMMA DeliverySteps ==
  ASSUME TypeInv, NEW t \in Tabs, NEW r \in net[t], Deliver(t, r)
  PROVE  /\ r \in Request /\ Proper(r) /\ r.reply # "none"
         /\ UNCHANGED <<owner, live, losses, ends, reloads, moves>>
         /\ \/ \E new \in Tab : /\ Commit(t, new, net[t] \ {r}, cookie)
                                /\ cookie' = cookie /\ new.csrf = tab[t].csrf
                                /\ r.kind # "logout"
                                /\ r.kind # "login" /\ r.reply = "401" => ~Shell(new)
            \/ \E new \in Tab : /\ Commit(t, new, net[t] \ {r}, r.sess)
                                /\ cookie' = r.sess
                                /\ r.kind = "login" /\ r.reply = "ok"
            \/ \E new \in Tab : /\ Commit(t, new, net[t] \ {r}, 0)
                                /\ cookie' = 0 /\ ~Shell(new)
            \/ /\ net' = [net EXCEPT ![t] = @ \ {r}]
               /\ UNCHANGED <<tab, cookie>>
               /\ r.kind = "logout" /\ r.reply \notin {"none", "ok"}
<1> USE DEF TypeInv, TypeOK, serverVars, boundVars
<1>1. r \in Request /\ Proper(r)
  BY DEF NetProper
<1>2. tab[t] \in Tab
  OBVIOUS
<1>3. ASSUME NEW user \in Accounts \cup {NoUser, Loading}
      PROVE  LET new == [tab[t] EXCEPT !.user = user]
             IN  new \in Tab /\ new.csrf = tab[t].csrf /\ new.user = user
  BY <1>2 DEF Tab
<1>4. SignedOut(tab[t]) \in Tab /\ SignedOut(tab[t]).csrf = tab[t].csrf
      /\ SignedOut(tab[t]).user = NoUser /\ ~Shell(SignedOut(tab[t]))
  BY <1>3 DEF SignedOut, Shell
<1>6. CASE DeliverMe(t, r)
  <2>1. OnMe(tab[t], r) \in Tab /\ OnMe(tab[t], r).csrf = tab[t].csrf
        /\ (r.reply = "401" => ~Shell(OnMe(tab[t], r)))
    BY <1>1, <1>3, <1>4 DEF OnMe, Request
  <2> QED BY <1>1, <1>6, <2>1 DEF DeliverMe
<1>7. CASE DeliverPageCall(t, r)
  <2>1. OnFailedCall(tab[t], r) \in Tab /\ OnFailedCall(tab[t], r).csrf = tab[t].csrf
        /\ (r.reply = "401" => ~Shell(OnFailedCall(tab[t], r)))
    BY <1>2, <1>4 DEF OnFailedCall
  <2>2. r.kind # "logout"
    BY <1>7 DEF DeliverPageCall, PageCalls
  <2> QED BY <1>1, <1>7, <2>1, <2>2 DEF DeliverPageCall
<1>8. CASE DeliverLogin(t, r)
  <2>1. CASE r.reply = "ok"
    <3> DEFINE v == Landing(r.who, tab[t].path)
               new == [tab[t] EXCEPT !.csrf = r.sess, !.user = r.who, !.view = v, !.path = v]
    <3>1. v \in AppView
      BY <1>2 DEF Landing, ViewFromPath, AppView, Paths, Tab
    <3> HIDE DEF v
    <3>2. new \in Tab
      BY <1>1, <1>2, <3>1 DEF Tab, Paths, Request
    <3>3. Commit(t, new, net[t] \ {r}, r.sess) /\ cookie' = r.sess
          /\ UNCHANGED <<owner, live, losses, ends, reloads, moves>> /\ r.kind = "login"
      BY <1>8, <2>1 DEF DeliverLogin, v
    <3> HIDE DEF new
    <3> QED BY <1>1, <2>1, <3>2, <3>3
  <2>2. CASE r.reply # "ok"
    <3>1. OnRefusedLogin(tab[t], r) \in Tab /\ OnRefusedLogin(tab[t], r).csrf = tab[t].csrf
      BY <1>2 DEF OnRefusedLogin, Tab
    <3> QED BY <1>1, <1>8, <2>2, <3>1 DEF DeliverLogin
  <2> QED BY <2>1, <2>2
<1>9. CASE DeliverLogout(t, r)
  <2>1. CASE r.reply = "ok"
    <3> DEFINE new == [SignedOut(tab[t]) EXCEPT !.csrf = 0, !.path = "root"]
    <3>1. new \in Tab /\ ~Shell(new)
      <4>1. ASSUME NEW rec \in Tab, ~Shell(rec)
            PROVE  [rec EXCEPT !.csrf = 0, !.path = "root"] \in Tab
                   /\ ~Shell([rec EXCEPT !.csrf = 0, !.path = "root"])
        <5>1. 0 \in 0 .. MaxLogins /\ "root" \in Paths
          BY DEF Paths
        <5> QED BY <4>1, <5>1 DEF Tab, Shell
      <4> QED BY <1>4, <4>1
    <3>2. Commit(t, new, net[t] \ {r}, 0) /\ cookie' = 0
          /\ UNCHANGED <<owner, live, losses, ends, reloads, moves>>
      BY <1>9, <2>1 DEF DeliverLogout
    <3> HIDE DEF new
    <3> QED BY <1>1, <2>1, <3>1, <3>2
  <2>2. CASE r.reply # "ok"
    BY <1>1, <1>9, <2>2 DEF DeliverLogout
  <2> QED BY <2>1, <2>2
<1> QED BY <1>6, <1>7, <1>8, <1>9 DEF Deliver

LEMMA DeliveryTyped ==
  ASSUME TypeInv, NEW t \in Tabs, NEW r \in net[t], Deliver(t, r)
  PROVE  TypeInv'
<1> USE DEF TypeInv, TypeOK, CookieKnown
<1>1. ASSUME NEW new \in Tab, NEW jar, Commit(t, new, net[t] \ {r}, jar), cookie' = jar,
             jar \in 0 .. MaxLogins, jar = 0 \/ owner[jar] # NoUser,
             UNCHANGED <<owner, live, losses, ends, reloads, moves>>
      PROVE  TypeInv'
  <2>1. /\ tab' \in [Tabs -> Tab] /\ net' \in [Tabs -> SUBSET Request]
        /\ NetProper'
    <3>1. net[t] \ {r} \in SUBSET net[t]
      OBVIOUS
    <3> QED BY <1>1, <3>1, CommitTyped
  <2> QED BY <1>1, <2>1
<1>2. /\ 0 \in 0 .. MaxLogins
      /\ cookie \in 0 .. MaxLogins /\ (cookie = 0 \/ owner[cookie] # NoUser)
      /\ r.sess \in 0 .. MaxLogins /\ (r.sess = 0 \/ owner[r.sess] # NoUser)
      /\ UNCHANGED <<owner, live, losses, ends, reloads, moves>>
  <2>1. r \in Request /\ Proper(r) /\ UNCHANGED <<owner, live, losses, ends, reloads, moves>>
    BY DeliverySteps
  <2> QED BY <2>1 DEF Request, Proper
<1>3. ASSUME net' = [net EXCEPT ![t] = @ \ {r}], UNCHANGED <<tab, cookie>>
      PROVE  TypeInv'
  <2>1. net' \in [Tabs -> SUBSET Request] /\ NetProper'
    BY <1>2, <1>3 DEF NetProper, Proper
  <2> QED BY <1>2, <1>3, <2>1
<1> QED BY <1>1, <1>2, <1>3, DeliverySteps

LEMMA TypesKept ==
  ASSUME TypeInv, [Next]_vars
  PROVE  TypeInv'
<1>1. ASSUME NEW s \in Sessions, EndSession(s)
      PROVE  TypeInv'
  <2>1. UNCHANGED <<tab, net, owner, losses, reloads, moves>> /\ live' \subseteq live
        /\ cookie' \in {cookie, 0} /\ ends' \in 0 .. MaxEnds
    BY <1>1 DEF EndSession, TypeInv, TypeOK
  <2> QED BY <2>1 DEF TypeInv, TypeOK, NetProper, Proper, CookieKnown
<1>2. CASE UNCHANGED vars
  BY <1>2 DEF vars, serverVars, boundVars, TypeInv, TypeOK, NetProper, Proper, CookieKnown
<1> QED BY <1>1, <1>2, UserTyped, ProxyTyped, DeliveryTyped DEF Next

-----------------------------------------------------------------------------
(* A signed-in user is on a view of his role: every commit ends with the   *)
(* redirect, and no other step touches the user or the view of a console.  *)

LEMMA ViewsKept ==
  ASSUME TypeInv, ViewFitsRole, [Next]_vars
  PROVE  ViewFitsRole'
<1> USE DEF TypeInv, TypeOK
<1>1. ASSUME NEW t \in Tabs, NEW new \in Tab, NEW requests, NEW jar,
             Commit(t, new, requests, jar)
      PROVE  ViewFitsRole'
  BY <1>1, CommitTab DEF ViewFitsRole, Shell, IsAdmin
<1>2. ASSUME UNCHANGED tab
      PROVE  ViewFitsRole'
  BY <1>2 DEF ViewFitsRole, Shell, IsAdmin
<1>3. ASSUME NEW t \in Tabs, NEW a \in Accounts, SubmitLogin(t, a)
      PROVE  ViewFitsRole'
  <2>1. /\ \A u \in Tabs : u # t => tab'[u] = tab[u]
        /\ tab'[t].user = NoUser
    BY <1>3 DEF SubmitLogin, LoginShown, Tab
  <2> QED BY <2>1 DEF ViewFitsRole, Shell, IsAdmin
<1>4. ASSUME NEW t \in Tabs, Reload(t)
      PROVE  ViewFitsRole'
  <2>1. /\ \A u \in Tabs : u # t => tab'[u] = tab[u]
        /\ tab'[t].user = Loading
    BY <1>4 DEF Reload
  <2> QED BY <2>1 DEF ViewFitsRole, Shell, IsAdmin
<1>5. ASSUME NEW t \in Tabs, NEW v \in AppView, Navigate(t, v)
      PROVE  ViewFitsRole'
  <2>1. [tab[t] EXCEPT !.view = v, !.path = v] \in Tab
    BY DEF Tab, Paths
  <2> QED BY <1>1, <1>5, <2>1 DEF Navigate
<1>6. ASSUME NEW t \in Tabs, NEW path \in Paths, PopState(t, path)
      PROVE  ViewFitsRole'
  <2>1. [tab[t] EXCEPT !.view = ViewFromPath(path), !.path = path] \in Tab
    BY DEF Tab, AppView, Paths, ViewFromPath
  <2> QED BY <1>1, <1>6, <2>1 DEF PopState
<1>7. ASSUME NEW t \in Tabs, NEW r \in net[t], Deliver(t, r)
      PROVE  ViewFitsRole'
  <2>1. UNCHANGED tab \/ \E new \in Tab : \E jar : Commit(t, new, net[t] \ {r}, jar)
    BY <1>7, DeliverySteps
  <2> QED BY <1>1, <1>2, <2>1
<1>8. ASSUME NEW t \in Tabs, NEW r \in net[t], Serve(t, r) \/ Lose(t, r)
      PROVE  UNCHANGED tab
  BY <1>8 DEF Serve, ServeMe, ServePageCall, ServeLogin, ServeLogout, Lose
<1>9. ASSUME NEW t \in Tabs, ClickLogout(t) \/ Poll(t)
      PROVE  UNCHANGED tab
  BY <1>9 DEF ClickLogout, Poll
<1>10. ASSUME NEW s \in Sessions, EndSession(s)
       PROVE  UNCHANGED tab
  BY <1>10 DEF EndSession
<1>11. CASE UNCHANGED vars
  BY <1>2, <1>11 DEF vars
<1> QED BY <1>2, <1>3, <1>4, <1>5, <1>6, <1>7, <1>8, <1>9, <1>10, <1>11 DEF Next

-----------------------------------------------------------------------------
(* What the user's steps and the proxy's do, apart from types.             *)

\* What Doomed asks of a request: its answer signs the tab out.
Ending(r) == \/ r.kind = "logout" /\ r.reply \in {"none", "ok"}
             \/ r.kind # "login" /\ r.reply = "401"
             \/ r.kind # "login" /\ r.reply = "none" /\ r.sess \notin live

\* The user sends a request, changes the view, or starts the page over.
UserStep(t) ==
  \/ \E a \in Accounts : SubmitLogin(t, a)
  \/ ClickLogout(t)
  \/ \E v \in AppView : Navigate(t, v)
  \/ \E path \in Paths : PopState(t, path)
  \/ Reload(t)
  \/ Poll(t)

LEMMA UserSteps ==
  ASSUME TypeInv, NEW t \in Tabs, UserStep(t)
  PROVE  /\ UNCHANGED <<cookie, owner, live, losses, ends>>
         /\ \/ \E kind \in CallKinds, who \in Accounts \cup {NoUser} :
                  /\ net' = [net EXCEPT ![t] = @ \cup {Call(kind, cookie, who)}]
                  /\ \A u \in Tabs : Page(tab'[u]) = Page(tab[u]) /\ tab'[u].user = tab[u].user
                  /\ kind = "poll" => Page(tab[t]) = "workers"
            \/ \E new \in Tab : /\ Commit(t, new, net[t], cookie)
                                /\ new.csrf = tab[t].csrf /\ new.user = tab[t].user
            \/ /\ net' = [net EXCEPT ![t] = {Call("me", cookie, NoUser)}]
               /\ \A u \in Tabs : u # t => tab'[u] = tab[u]
               /\ tab'[t].user = Loading
<1> USE DEF TypeInv, TypeOK, serverVars, boundVars
<1>1. ASSUME NEW a \in Accounts, SubmitLogin(t, a)
      PROVE  /\ UNCHANGED <<cookie, owner, live, losses, ends>>
             /\ net' = [net EXCEPT ![t] = @ \cup {Call("login", cookie, a)}]
             /\ \A u \in Tabs : Page(tab'[u]) = Page(tab[u]) /\ tab'[u].user = tab[u].user
  <2>1. \A rec \in Tab : [rec EXCEPT !.busy = TRUE].user = rec.user
                        /\ [rec EXCEPT !.busy = TRUE].view = rec.view
    BY DEF Tab
  <2>2. \A u \in Tabs : tab'[u].user = tab[u].user /\ tab'[u].view = tab[u].view
    <3>1. tab' = [tab EXCEPT ![t] = [tab[t] EXCEPT !.busy = TRUE]]
      BY <1>1 DEF SubmitLogin
    <3> QED BY <2>1, <3>1
  <2>3. \A u \in Tabs : Page(tab'[u]) = Page(tab[u])
    BY <2>2 DEF Page, Shell, IsAdmin
  <2> QED BY <1>1, <2>2, <2>3 DEF SubmitLogin
<1>2. CASE ClickLogout(t)
  <2>1. "logout" \in CallKinds /\ "logout" # "poll"
    BY DEF CallKinds
  <2>2. /\ UNCHANGED <<tab, cookie, owner, live, losses, ends>>
        /\ net' = [net EXCEPT ![t] = @ \cup {Call("logout", cookie, NoUser)}]
    BY <1>2 DEF ClickLogout
  <2> QED BY <2>1, <2>2
<1>3. CASE Poll(t)
  <2>1. "poll" \in CallKinds
    BY DEF CallKinds, PageCalls
  <2>2. /\ UNCHANGED <<tab, cookie, owner, live, losses, ends>>
        /\ net' = [net EXCEPT ![t] = @ \cup {Call("poll", cookie, NoUser)}]
        /\ Page(tab[t]) = "workers"
    BY <1>3 DEF Poll
  <2> QED BY <2>1, <2>2
<1>4. ASSUME NEW v \in AppView, Navigate(t, v)
      PROVE  /\ UNCHANGED <<cookie, owner, live, losses, ends>>
             /\ \E new \in Tab : /\ Commit(t, new, net[t], cookie)
                                 /\ new.csrf = tab[t].csrf /\ new.user = tab[t].user
  <2> DEFINE new == [tab[t] EXCEPT !.view = v, !.path = v]
  <2>1. new \in Tab /\ new.csrf = tab[t].csrf /\ new.user = tab[t].user
    BY DEF Tab, Paths
  <2>2. Commit(t, new, net[t], cookie) /\ UNCHANGED <<cookie, owner, live, losses, ends>>
    BY <1>4 DEF Navigate
  <2> HIDE DEF new
  <2> QED BY <2>1, <2>2
<1>5. ASSUME NEW path \in Paths, PopState(t, path)
      PROVE  /\ UNCHANGED <<cookie, owner, live, losses, ends>>
             /\ \E new \in Tab : /\ Commit(t, new, net[t], cookie)
                                 /\ new.csrf = tab[t].csrf /\ new.user = tab[t].user
  <2> DEFINE new == [tab[t] EXCEPT !.view = ViewFromPath(path), !.path = path]
  <2>1. new \in Tab /\ new.csrf = tab[t].csrf /\ new.user = tab[t].user
    BY DEF Tab, AppView, Paths, ViewFromPath
  <2>2. Commit(t, new, net[t], cookie) /\ UNCHANGED <<cookie, owner, live, losses, ends>>
    BY <1>5 DEF PopState
  <2> HIDE DEF new
  <2> QED BY <2>1, <2>2
<1>6. CASE Reload(t)
  BY <1>6 DEF Reload
<1>7. ASSUME NEW a \in Accounts, SubmitLogin(t, a)
      PROVE  "login" \in CallKinds /\ a \in Accounts \cup {NoUser} /\ "login" # "poll"
  BY DEF CallKinds
<1> QED BY <1>1, <1>2, <1>3, <1>4, <1>5, <1>6, <1>7 DEF UserStep

\* The proxy answers a request without renaming its session, drops the answer
\* nobody minds, or creates a session nobody has heard of.
LEMMA ProxySteps ==
  ASSUME TypeInv, NEW t \in Tabs, NEW r \in net[t], Serve(t, r) \/ Lose(t, r)
  PROVE  /\ UNCHANGED <<tab, cookie, ends>> /\ (losses' = 0 => losses = 0)
         /\ \/ \E answer \in Request :
                  /\ Answered(t, r, answer) /\ answer.kind = r.kind /\ answer.sess = r.sess
                  /\ ~(answer.kind = "login" /\ answer.reply = "ok")
                  /\ UNCHANGED owner
                  /\ \/ live' = live
                     \/ r.kind = "logout" /\ answer.reply = "ok" /\ live' = live \ {r.sess}
                  /\ r.kind = "login" /\ r.reply = "ok" => losses' # 0
                  /\ Ending(r) /\ losses' = 0 =>
                       \/ answer.kind = "logout" /\ answer.reply = "ok"
                       \/ answer.kind # "login" /\ answer.reply = "401"
            \/ /\ net' = [net EXCEPT ![t] = @ \ {r}] /\ UNCHANGED <<owner, live>>
               /\ ~Ending(r) /\ r.kind # "login"
            \/ \E answer \in Request :
                  /\ Answered(t, r, answer) /\ answer.kind = "login"
                  /\ answer.sess \in Sessions /\ owner[answer.sess] = NoUser
                  /\ live' = live \cup {answer.sess}
                  /\ r.kind = "login" /\ r.reply = "none"
<1> USE DEF TypeInv, TypeOK, serverVars, boundVars
<1>1. r \in Request /\ Proper(r)
  BY DEF NetProper
<1>2. \A reply \in {"ok", "401", "lost"} :
        /\ [r EXCEPT !.reply = reply] \in Request
        /\ [r EXCEPT !.reply = reply].kind = r.kind /\ [r EXCEPT !.reply = reply].sess = r.sess
        /\ [r EXCEPT !.reply = reply].reply = reply
  BY <1>1 DEF Request
<1>3. CASE ServeMe(t, r)
  <2>1. PICK account : account = owner[r.sess]
    OBVIOUS
  <2>2. r.kind = "me" /\ r.reply = "none"
        /\ UNCHANGED <<tab, cookie, owner, live, losses, ends, reloads, moves>>
    BY <1>3 DEF ServeMe
  <2>3. CASE r.sess \in live
    <3> DEFINE yes == [r EXCEPT !.reply = "ok", !.who = account]
    <3>1. yes \in Request /\ yes.kind = "me" /\ yes.sess = r.sess /\ yes.reply = "ok"
      BY <1>1, <2>1, <2>2, <2>3 DEF Request
    <3>2. Answered(t, r, yes)
      BY <1>3, <2>1, <2>3 DEF ServeMe
    <3>3. ~Ending(r)
      BY <2>2, <2>3 DEF Ending
    <3> HIDE DEF yes
    <3> QED BY <2>2, <3>1, <3>2, <3>3
  <2>4. CASE r.sess \notin live
    <3> DEFINE no == [r EXCEPT !.reply = "401"]
    <3>1. no \in Request /\ no.kind = "me" /\ no.sess = r.sess /\ no.reply = "401"
      BY <1>2, <2>2
    <3>2. Answered(t, r, no)
      BY <1>3, <2>4 DEF ServeMe
    <3> HIDE DEF no
    <3> QED BY <2>2, <3>1, <3>2
  <2> QED BY <2>3, <2>4
<1>4. CASE ServePageCall(t, r)
  <2>1. r.kind \notin {"login", "logout"} /\ r.reply = "none"
        /\ UNCHANGED <<tab, cookie, owner, live, losses, ends, reloads, moves>>
    BY <1>4 DEF ServePageCall, PageCalls
  <2>2. CASE r.sess \in live
    <3>1. net' = [net EXCEPT ![t] = @ \ {r}] /\ ~Ending(r)
      BY <1>4, <2>1, <2>2 DEF ServePageCall, Ending
    <3> QED BY <2>1, <3>1
  <2>3. CASE r.sess \notin live
    <3> DEFINE no == [r EXCEPT !.reply = "401"]
    <3>1. no \in Request /\ no.kind = r.kind /\ no.sess = r.sess /\ no.reply = "401"
      BY <1>2
    <3>2. Answered(t, r, no)
      BY <1>4, <2>3 DEF ServePageCall
    <3> HIDE DEF no
    <3> QED BY <2>1, <3>1, <3>2
  <2> QED BY <2>2, <2>3
<1>5. CASE ServeLogin(t, r)
  <2>1. r.kind = "login" /\ r.reply = "none" /\ UNCHANGED <<tab, cookie, losses, ends>>
    BY <1>5 DEF ServeLogin
  <2>2. ASSUME NEW s \in Sessions, owner[s] = NoUser,
               owner' = [owner EXCEPT ![s] = r.who], live' = live \cup {s},
               Answered(t, r, [r EXCEPT !.reply = "ok", !.sess = s])
        PROVE  \E answer \in Request :
                 /\ Answered(t, r, answer) /\ answer.kind = "login"
                 /\ answer.sess \in Sessions /\ owner[answer.sess] = NoUser
                 /\ live' = live \cup {answer.sess}
    <3> DEFINE answer == [r EXCEPT !.reply = "ok", !.sess = s]
    <3>1. s \in 0 .. MaxLogins
      BY DEF Sessions
    <3>2. answer \in Request /\ answer.kind = "login" /\ answer.sess = s
      BY <1>1, <2>1, <3>1 DEF Request
    <3>3. Answered(t, r, answer)
      BY <2>2
    <3> HIDE DEF answer
    <3> QED BY <2>2, <3>2, <3>3
  <2>3. CASE Answered(t, r, [r EXCEPT !.reply = "401"]) /\ UNCHANGED <<owner, live>>
    <3> DEFINE no == [r EXCEPT !.reply = "401"]
    <3>1. no \in Request /\ no.kind = "login" /\ no.sess = r.sess /\ no.reply = "401"
      BY <1>2, <2>1
    <3>2. Answered(t, r, no) /\ ~Ending(r)
      BY <2>1, <2>3 DEF Ending
    <3> HIDE DEF no
    <3> QED BY <2>1, <2>3, <3>1, <3>2
  <2> QED BY <1>5, <2>1, <2>2, <2>3 DEF ServeLogin
<1>6. CASE ServeLogout(t, r)
  <2> DEFINE done == [r EXCEPT !.reply = "ok"]
  <2>1. done \in Request /\ done.kind = r.kind /\ done.sess = r.sess /\ done.reply = "ok"
    BY <1>2
  <2>2. Answered(t, r, done) /\ r.kind = "logout" /\ live' = live \ {r.sess}
        /\ UNCHANGED <<tab, cookie, owner, losses, ends>>
    BY <1>6 DEF ServeLogout
  <2> HIDE DEF done
  <2>3. /\ done.kind = "logout" /\ ~(done.kind = "login" /\ done.reply = "ok")
        /\ ~(r.kind = "login" /\ r.reply = "ok")
    BY <2>1, <2>2
  <2>4. UNCHANGED <<tab, cookie, ends>> /\ losses' = losses /\ UNCHANGED owner
    BY <2>2
  <2>5. /\ done \in Request /\ Answered(t, r, done) /\ done.kind = r.kind /\ done.sess = r.sess
        /\ r.kind = "logout" /\ done.reply = "ok" /\ live' = live \ {r.sess}
    BY <2>1, <2>2
  <2> QED BY <2>3, <2>4, <2>5, Zenon
<1>7. CASE Lose(t, r)
  <2> DEFINE lost == [r EXCEPT !.reply = "lost"]
  <2>1. lost \in Request /\ lost.kind = r.kind /\ lost.sess = r.sess /\ lost.reply = "lost"
    BY <1>2
  <2>2. Answered(t, r, lost) /\ losses' # 0
        /\ UNCHANGED <<tab, cookie, owner, live, ends>>
    BY <1>7 DEF Lose
  <2>3. ~(lost.kind = "login" /\ lost.reply = "ok")
    BY <2>1
  <2> HIDE DEF lost
  <2>4. losses' # 0 /\ UNCHANGED <<tab, cookie, owner, live, ends>>
    BY <2>2
  <2> QED BY <2>1, <2>2, <2>3, <2>4
<1> QED BY <1>3, <1>4, <1>5, <1>6, <1>7 DEF Serve

-----------------------------------------------------------------------------
(* Polls belong to the Workers page of their tab, and a login that was     *)
(* answered holds a session that nothing else in flight knows.             *)

PollsOnPage == \A t \in Tabs : \A r \in net[t] : r.kind = "poll" => Page(tab[t]) = "workers"

LEMMA PollsKept ==
  ASSUME TypeInv, PollsOnPage, [Next]_vars
  PROVE  PollsOnPage'
<1>1. ASSUME NEW t \in Tabs, NEW new \in Tab, NEW requests \in SUBSET net[t],
             NEW jar \in 0 .. MaxLogins, Commit(t, new, requests, jar)
      PROVE  PollsOnPage'
  <2>1. \A u \in Tabs : u # t => net'[u] = net[u] /\ tab'[u] = tab[u]
    BY <1>1, CommitNet, CommitTab DEF TypeInv, TypeOK
  <2>2. Page(tab'[t]) = Page(Redirect(new))
    BY <1>1, CommitTab DEF TypeInv, TypeOK
  <2>3. ASSUME NEW q \in net'[t], q.kind = "poll"
        PROVE  Page(Redirect(new)) = "workers"
    <3>1. PICK left \in BOOLEAN :
            \/ \E r \in requests : /\ q = Aged(left, r)
                                   /\ r.kind = "poll" => Page(Redirect(new)) = "workers"
            \/ \E kind \in PageCalls \cup {"me"} :
                 /\ q = Call(kind, jar, NoUser)
                 /\ kind = "poll" => Page(Redirect(new)) = "workers"
      BY <1>1, <2>3, CommitNet DEF TypeInv, TypeOK
    <3>2. \A r \in requests : Aged(left, r).kind = r.kind
      BY AgedSame DEF TypeInv, TypeOK
    <3>3. \A kind : Call(kind, jar, NoUser).kind = kind
      BY DEF Call
    <3> QED BY <2>3, <3>1, <3>2, <3>3
  <2> QED BY <2>1, <2>2, <2>3 DEF PollsOnPage
<1>2. ASSUME UNCHANGED tab, \A u \in Tabs : \A q \in net'[u] : \E r \in net[u] : q.kind = r.kind
      PROVE  PollsOnPage'
  BY <1>2 DEF PollsOnPage
<1>3. ASSUME NEW t \in Tabs, UserStep(t)
      PROVE  PollsOnPage'
  <2>1. ASSUME NEW kind \in CallKinds, NEW who,
               net' = [net EXCEPT ![t] = @ \cup {Call(kind, cookie, who)}],
               \A u \in Tabs : Page(tab'[u]) = Page(tab[u]),
               kind = "poll" => Page(tab[t]) = "workers"
        PROVE  PollsOnPage'
    <3> DEFINE sent == Call(kind, cookie, who)
    <3>1. sent.kind = kind
      BY DEF Call
    <3>2. net' = [net EXCEPT ![t] = @ \cup {sent}]
      BY <2>1
    <3> HIDE DEF sent
    <3>3. \A u \in Tabs : \A q \in net'[u] : q \in net[u] \/ (u = t /\ q = sent)
      BY <3>2 DEF TypeInv, TypeOK
    <3> QED BY <2>1, <3>1, <3>3 DEF PollsOnPage
  <2>2. ASSUME net' = [net EXCEPT ![t] = {Call("me", cookie, NoUser)}],
               \A u \in Tabs : u # t => tab'[u] = tab[u]
        PROVE  PollsOnPage'
    <3>1. Call("me", cookie, NoUser).kind = "me"
      BY DEF Call
    <3>2. \A u \in Tabs : \A q \in net'[u] : (u # t /\ q \in net[u]) \/ q = Call("me", cookie, NoUser)
      BY <2>2 DEF TypeInv, TypeOK
    <3> QED BY <2>2, <3>1, <3>2 DEF PollsOnPage
  <2>3. cookie \in 0 .. MaxLogins /\ net[t] \in SUBSET net[t]
    BY DEF TypeInv, TypeOK
  <2> QED BY <1>1, <1>3, <2>1, <2>2, <2>3, UserSteps
<1>4. ASSUME NEW t \in Tabs, NEW r \in net[t], Serve(t, r) \/ Lose(t, r)
      PROVE  PollsOnPage'
  <2>1. ASSUME NEW answer, Answered(t, r, answer), answer.kind = r.kind
        PROVE  \A u \in Tabs : \A q \in net'[u] : \E p \in net[u] : q.kind = p.kind
    BY <2>1 DEF Answered, TypeInv, TypeOK
  <2>2. ASSUME net' = [net EXCEPT ![t] = @ \ {r}]
        PROVE  \A u \in Tabs : \A q \in net'[u] : \E p \in net[u] : q.kind = p.kind
    BY <2>2 DEF TypeInv, TypeOK
  <2>4. /\ UNCHANGED tab
        /\ \/ net' = [net EXCEPT ![t] = @ \ {r}]
           \/ \E answer : Answered(t, r, answer) /\ answer.kind = r.kind
    BY <1>4, ProxySteps
  <2> QED BY <1>2, <2>1, <2>2, <2>4
<1>5. ASSUME NEW t \in Tabs, NEW r \in net[t], Deliver(t, r)
      PROVE  PollsOnPage'
  <2>1. net[t] \ {r} \in SUBSET net[t] /\ cookie \in 0 .. MaxLogins /\ 0 \in 0 .. MaxLogins
        /\ r.sess \in 0 .. MaxLogins
    BY DEF TypeInv, TypeOK, Request
  <2>2. ASSUME net' = [net EXCEPT ![t] = @ \ {r}], UNCHANGED tab
        PROVE  PollsOnPage'
    BY <2>2 DEF PollsOnPage, TypeInv, TypeOK
  <2> QED BY <1>1, <1>5, <2>1, <2>2, DeliverySteps
<1>6. ASSUME NEW s \in Sessions, EndSession(s)
      PROVE  PollsOnPage'
  BY <1>6 DEF EndSession, PollsOnPage
<1>7. CASE UNCHANGED vars
  BY <1>7 DEF vars, PollsOnPage
<1> QED BY <1>3, <1>4, <1>5, <1>6, <1>7 DEF Next, UserStep

\* A login that was answered and has not arrived.
Signing(r) == r.kind = "login" /\ r.reply = "ok"

LoginsPending ==
  \A t \in Tabs : \A r \in net[t] : Signing(r) =>
    /\ r.sess # 0 /\ r.sess # cookie
    /\ ends = 0 => r.sess \in live
    /\ \A u \in Tabs : \A q \in net[u] : q.sess = r.sess => u = t /\ q = r

\* The requests of one tab that are left, aged or not, and others that do not
\* sign in, of a session no pending login holds.
LEMMA PendingLeft ==
  ASSUME TypeInv, LoginsPending, NEW t \in Tabs, NEW left \in BOOLEAN,
         NEW old \in SUBSET net[t], NEW jar,
         \A u \in Tabs : u # t => net'[u] = net[u],
         \A q \in net'[t] : \/ \E r \in old : q = Aged(left, r)
                            \/ q.sess = jar /\ ~Signing(q),
         \A u \in Tabs : \A r \in net[u] :
           Signing(r) /\ (u # t \/ r \in old) => r.sess # jar /\ r.sess # cookie',
         UNCHANGED <<ends, live>>
  PROVE  LoginsPending'
<1> DEFINE Now(u) == IF u = t THEN old ELSE net[u]
           Since(u, r) == IF u = t THEN Aged(left, r) ELSE r
<1>1. ASSUME NEW u \in Tabs, NEW r \in Now(u)
      PROVE  /\ r \in net[u] /\ r \in Request /\ Since(u, r).sess = r.sess
             /\ Signing(Since(u, r)) <=> Signing(r)
  <2>1. r \in net[u] /\ r \in Request
    BY <1>1 DEF TypeInv, TypeOK
  <2>2. Aged(left, r).sess = r.sess /\ (Signing(Aged(left, r)) <=> Signing(r))
    BY <2>1, AgedSame DEF Signing
  <2> QED BY <2>1, <2>2
<1>2. ASSUME NEW u \in Tabs, NEW q \in net'[u]
      PROVE  \/ \E r \in Now(u) : q = Since(u, r)
             \/ q.sess = jar /\ ~Signing(q)
  BY <1>2
<1>3. \A u \in Tabs : \A r \in Now(u) : Signing(r) => r.sess # jar /\ r.sess # cookie'
  OBVIOUS
<1> HIDE DEF Now, Since
<1>4. ASSUME NEW u \in Tabs, NEW q \in net'[u], Signing(q)
      PROVE  /\ q.sess # 0 /\ q.sess # cookie'
             /\ ends' = 0 => q.sess \in live'
             /\ \A w \in Tabs : \A p \in net'[w] : p.sess = q.sess => w = u /\ p = q
  <2>1. PICK r \in Now(u) : q = Since(u, r)
    BY <1>2, <1>4
  <2>2. r \in net[u] /\ Signing(r) /\ q.sess = r.sess
    BY <1>1, <1>4, <2>1
  <2>3. /\ r.sess # 0 /\ (ends = 0 => r.sess \in live)
        /\ \A w \in Tabs : \A p \in net[w] : p.sess = r.sess => w = u /\ p = r
    BY <2>2 DEF LoginsPending
  <2>4. r.sess # jar /\ r.sess # cookie'
    BY <1>3, <2>2
  <2>5. ASSUME NEW w \in Tabs, NEW p \in net'[w], p.sess = q.sess
        PROVE  w = u /\ p = q
    <3>1. PICK s \in Now(w) : p = Since(w, s)
      BY <1>2, <2>2, <2>4, <2>5
    <3>2. s \in net[w] /\ s.sess = r.sess
      BY <1>1, <2>2, <2>5, <3>1
    <3>3. w = u /\ s = r
      BY <2>3, <3>2
    <3> QED BY <2>1, <3>1, <3>3
  <2> QED BY <2>2, <2>3, <2>4, <2>5
<1> QED BY <1>4 DEF LoginsPending, Signing

\* The proxy's answers.
LEMMA PendingAnswered ==
  ASSUME TypeInv, LoginsPending, NEW t \in Tabs, NEW r \in net[t],
         Serve(t, r) \/ Lose(t, r)
  PROVE  LoginsPending'
<1>1. UNCHANGED <<cookie, ends>>
  BY ProxySteps
<1>2. ASSUME NEW answer \in Request,
             Answered(t, r, answer), answer.kind = r.kind, answer.sess = r.sess, ~Signing(answer),
             \/ live' = live
             \/ r.kind = "logout" /\ live' = live \ {r.sess}
      PROVE  LoginsPending'
  <2>1. \A u \in Tabs : \A q \in net'[u] :
           \/ q \in net[u] /\ (u # t \/ q # r)
           \/ u = t /\ q = answer
    BY <1>2 DEF Answered, TypeInv, TypeOK
  <2>2. ASSUME NEW u \in Tabs, NEW q \in net'[u], Signing(q)
        PROVE  /\ q.sess # 0 /\ q.sess # cookie'
               /\ ends' = 0 => q.sess \in live'
               /\ \A w \in Tabs : \A p \in net'[w] : p.sess = q.sess => w = u /\ p = q
    <3>1. q \in net[u] /\ (u # t \/ q # r)
      BY <1>2, <2>1, <2>2
    <3>2. /\ q.sess # 0 /\ q.sess # cookie /\ (ends = 0 => q.sess \in live)
          /\ \A w \in Tabs : \A p \in net[w] : p.sess = q.sess => w = u /\ p = q
      BY <2>2, <3>1 DEF LoginsPending
    <3>3. q.sess # r.sess
      BY <3>1, <3>2
    <3>4. ASSUME NEW w \in Tabs, NEW p \in net'[w], p.sess = q.sess
          PROVE  w = u /\ p = q
      BY <1>2, <2>1, <3>2, <3>3, <3>4
    <3> QED BY <1>1, <1>2, <3>2, <3>3, <3>4
  <2> QED BY <2>2 DEF LoginsPending, Signing
<1>3. ASSUME net' = [net EXCEPT ![t] = @ \ {r}], live' = live
      PROVE  LoginsPending'
  <2>1. \A u \in Tabs : \A q \in net'[u] : q \in net[u]
    BY <1>3 DEF TypeInv, TypeOK
  <2> QED BY <1>1, <1>3, <2>1 DEF LoginsPending, Signing
<1>4. ASSUME NEW answer \in Request, Answered(t, r, answer), answer.kind = "login",
             answer.sess \in Sessions, owner[answer.sess] = NoUser,
             live' = live \cup {answer.sess}
      PROVE  LoginsPending'
  <2>1. PICK s \in Sessions : s = answer.sess
    BY <1>4
  <2>3. \A u \in Tabs : \A q \in net'[u] : q \in net[u] \/ (u = t /\ q = answer)
    BY <1>4 DEF Answered, TypeInv, TypeOK
  <2>4. s # 0 /\ s # cookie /\ \A u \in Tabs : \A q \in net[u] : q.sess # s
    BY <1>4, <2>1 DEF Sessions, TypeInv, TypeOK, CookieKnown, NetProper, Proper
  <2>5. ASSUME NEW u \in Tabs, NEW q \in net'[u], Signing(q)
        PROVE  /\ q.sess # 0 /\ q.sess # cookie'
               /\ ends' = 0 => q.sess \in live'
               /\ \A w \in Tabs : \A p \in net'[w] : p.sess = q.sess => w = u /\ p = q
    <3>1. CASE u = t /\ q = answer
      BY <1>1, <1>4, <2>1, <2>3, <2>4, <3>1
    <3>2. CASE q \in net[u]
      <4>1. /\ q.sess # 0 /\ q.sess # cookie /\ (ends = 0 => q.sess \in live)
            /\ \A w \in Tabs : \A p \in net[w] : p.sess = q.sess => w = u /\ p = q
        BY <2>5, <3>2 DEF LoginsPending
      <4> QED BY <1>1, <1>4, <2>1, <2>3, <2>4, <3>2, <4>1
    <3> QED BY <2>3, <3>1, <3>2
  <2> QED BY <2>5 DEF LoginsPending, Signing
<1> QED BY <1>2, <1>3, <1>4, ProxySteps DEF Signing

LEMMA PendingCommitted ==
  ASSUME TypeInv, LoginsPending, NEW t \in Tabs, NEW new \in Tab,
         NEW requests \in SUBSET net[t], NEW jar \in 0 .. MaxLogins,
         Commit(t, new, requests, jar), cookie' = jar,
         \A u \in Tabs : \A r \in net[u] :
           Signing(r) /\ (u # t \/ r \in requests) => r.sess # jar,
         UNCHANGED <<ends, live>>
  PROVE  LoginsPending'
<1>1. \A u \in Tabs : u # t => net'[u] = net[u]
  BY CommitNet DEF TypeInv, TypeOK
<1>2. PICK left \in BOOLEAN : \A q \in net'[t] :
        \/ \E r \in requests : q = Aged(left, r)
        \/ \E kind \in PageCalls \cup {"me"} : q = Call(kind, jar, NoUser)
  BY CommitNet DEF TypeInv, TypeOK
<1>3. \A kind : Call(kind, jar, NoUser).sess = jar /\ ~Signing(Call(kind, jar, NoUser))
  BY DEF Call, Signing
<1>4. \A q \in net'[t] : \/ \E r \in requests : q = Aged(left, r)
                         \/ q.sess = jar /\ ~Signing(q)
  BY <1>2, <1>3
<1> QED BY <1>1, <1>4, PendingLeft

LEMMA PendingKept ==
  ASSUME TypeInv, LoginsPending, [Next]_vars
  PROVE  LoginsPending'
<1>1. /\ cookie \in 0 .. MaxLogins
      /\ \A u \in Tabs : \A r \in net[u] : Signing(r) => r.sess # 0 /\ r.sess # cookie
  BY DEF TypeInv, TypeOK, LoginsPending
<1>2. ASSUME NEW t \in Tabs, UserStep(t)
      PROVE  LoginsPending'
  <2>1. UNCHANGED <<cookie, ends, live>>
    BY <1>2, UserSteps
  <2>2. ASSUME NEW new \in Tab, Commit(t, new, net[t], cookie)
        PROVE  LoginsPending'
    BY <1>1, <2>1, <2>2, PendingCommitted
  <2>3. ASSUME NEW kind, NEW who, NEW old \in SUBSET net[t],
               net' = [net EXCEPT ![t] = old \cup {Call(kind, cookie, who)}]
        PROVE  LoginsPending'
    <3>1. PICK jar : jar = cookie
      OBVIOUS
    <3> DEFINE sent == Call(kind, jar, who)
    <3>2. sent.sess = jar /\ ~Signing(sent)
      BY DEF Call, Signing
    <3>3. net' = [net EXCEPT ![t] = old \cup {sent}]
      BY <2>3, <3>1
    <3> HIDE DEF sent
    <3>4. \A q \in net'[t] : q \in old \/ q = sent
      BY <3>3 DEF TypeInv, TypeOK
    <3>5. \A u \in Tabs : u # t => net'[u] = net[u]
      BY <3>3
    <3>6. PICK left \in BOOLEAN : ~left
      OBVIOUS
    <3>7. \A q \in net'[t] : \/ \E r \in old : q = Aged(left, r)
                             \/ q.sess = jar /\ ~Signing(q)
      BY <3>2, <3>4, <3>6 DEF Aged
    <3>8. \A u \in Tabs : \A r \in net[u] :
            Signing(r) /\ (u # t \/ r \in old) => r.sess # jar /\ r.sess # cookie'
      BY <1>1, <2>1, <3>1
    <3> QED BY <2>1, <3>5, <3>7, <3>8, PendingLeft
  <2>4. net[t] \cup {Call("me", cookie, NoUser)} = net[t] \cup {Call("me", cookie, NoUser)}
        /\ {Call("me", cookie, NoUser)} = {} \cup {Call("me", cookie, NoUser)}
    OBVIOUS
  <2>5. net[t] \in SUBSET net[t] /\ {} \in SUBSET net[t]
    OBVIOUS
  <2> QED BY <1>2, <2>2, <2>3, <2>4, <2>5, UserSteps
<1>3. ASSUME NEW t \in Tabs, NEW r \in net[t], Deliver(t, r)
      PROVE  LoginsPending'
  <2>1. UNCHANGED <<ends, live>> /\ net[t] \ {r} \in SUBSET net[t]
        /\ r.sess \in 0 .. MaxLogins /\ 0 \in 0 .. MaxLogins
    <3>1. r \in Request /\ UNCHANGED <<ends, live>>
      BY <1>3, DeliverySteps
    <3> QED BY <3>1 DEF Request
  <2>2. ASSUME NEW new \in Tab, Commit(t, new, net[t] \ {r}, cookie), cookie' = cookie
        PROVE  LoginsPending'
    BY <1>1, <2>1, <2>2, PendingCommitted
  <2>3. ASSUME NEW new \in Tab, Commit(t, new, net[t] \ {r}, 0), cookie' = 0
        PROVE  LoginsPending'
    BY <1>1, <2>1, <2>3, PendingCommitted
  <2>4. ASSUME NEW new \in Tab, Commit(t, new, net[t] \ {r}, r.sess), cookie' = r.sess,
               r.kind = "login", r.reply = "ok"
        PROVE  LoginsPending'
    <3>1. \A u \in Tabs : \A q \in net[u] : q.sess = r.sess => u = t /\ q = r
      BY <2>4 DEF LoginsPending, Signing
    <3>2. \A u \in Tabs : \A q \in net[u] :
            Signing(q) /\ (u # t \/ q \in net[t] \ {r}) => q.sess # r.sess
      BY <3>1
    <3> QED BY <2>1, <2>4, <3>2, PendingCommitted
  <2>5. ASSUME net' = [net EXCEPT ![t] = @ \ {r}], UNCHANGED cookie
        PROVE  LoginsPending'
    <3>1. \A u \in Tabs : \A q \in net'[u] : q \in net[u]
      BY <2>5 DEF TypeInv, TypeOK
    <3> QED BY <2>1, <2>5, <3>1 DEF LoginsPending, Signing
  <2> QED BY <1>3, <2>2, <2>3, <2>4, <2>5, DeliverySteps
<1>4. ASSUME NEW s \in Sessions, EndSession(s)
      PROVE  LoginsPending'
  <2>1. net' = net /\ cookie' \in {cookie, 0} /\ ends' # 0
    BY <1>4 DEF EndSession, TypeInv, TypeOK
  <2> QED BY <2>1 DEF LoginsPending, Signing
<1>5. CASE UNCHANGED vars
  BY <1>5 DEF vars, serverVars, boundVars, LoginsPending, Signing
<1> QED BY <1>2, <1>3, <1>4, <1>5, PendingAnswered DEF Next, UserStep

-----------------------------------------------------------------------------
(* A console without a session is about to be signed out.  Once the        *)
(* browser's session is gone, each tab by itself stays safe: it shows no   *)
(* console, or a request in flight is answered so that it shows none.      *)

Safe(t) == ~Shell(tab[t]) \/ \E r \in net[t] : Ending(r)

LEMMA LiveGrows ==
  ASSUME TypeInv, [Next]_vars
  PROVE  /\ \A s \in live' : s \in live \/ (s \in Sessions /\ owner[s] = NoUser)
         /\ losses' = 0 => losses = 0
         /\ ends' = 0 => ends = 0
<1>1. ASSUME NEW t \in Tabs, UserStep(t)
      PROVE  UNCHANGED <<live, losses, ends>>
  BY <1>1, UserSteps
<1>2. ASSUME NEW t \in Tabs, NEW r \in net[t], Serve(t, r) \/ Lose(t, r)
      PROVE  /\ \A s \in live' : s \in live \/ (s \in Sessions /\ owner[s] = NoUser)
             /\ losses' = 0 => losses = 0
             /\ ends' = ends
  BY <1>2, ProxySteps
<1>3. ASSUME NEW t \in Tabs, NEW r \in net[t], Deliver(t, r)
      PROVE  UNCHANGED <<live, losses, ends>>
  BY <1>3, DeliverySteps
<1>4. ASSUME NEW s \in Sessions, EndSession(s)
      PROVE  live' \subseteq live /\ losses' = losses /\ ends' # 0
  BY <1>4 DEF EndSession, TypeInv, TypeOK
<1>5. CASE UNCHANGED vars
  BY <1>5 DEF vars, serverVars, boundVars
<1> QED BY <1>1, <1>2, <1>3, <1>4, <1>5 DEF Next, UserStep

\* No session is created under a name a request in flight already has.
LEMMA EndingKept ==
  ASSUME TypeInv, NEW t \in Tabs, NEW r \in net[t], Ending(r),
         \A s \in live' : s \in live \/ (s \in Sessions /\ owner[s] = NoUser)
  PROVE  Ending(r)'
<1>1. r.sess \in live' => r.sess \in live
  BY DEF TypeInv, TypeOK, NetProper, Proper, Sessions
<1> QED BY <1>1 DEF Ending

\* A commit under a dead session: the page it mounts asks and is refused; the
\* page it keeps keeps its requests.
LEMMA CommitSafe ==
  ASSUME TypeInv, PollsOnPage, NEW t \in Tabs, NEW new \in Tab,
         NEW requests \in SUBSET net[t],
         Commit(t, new, requests, cookie), new.csrf = tab[t].csrf,
         cookie \notin live, live' = live,
         ~Shell(tab[t]) \/ \E r \in requests : Ending(r)
  PROVE  Safe(t)'
<1>1. CASE ~Shell(new)
  <2>1. tab'[t].user = new.user
    BY CommitTab DEF TypeInv, TypeOK
  <2> QED BY <1>1, <2>1 DEF Safe, Shell
<1>2. CASE Shell(new) /\ Page(new) # Page(tab[t])
  <2>1. PICK jar : jar = cookie
    OBVIOUS
  <2>2. Page(new) \in {"workers", "users", "portal"}
    BY <1>2, PageValues
  <2>3. PICK kind \in Loads(Page(new)) : kind \in PageCalls
    BY <2>2, LoadsValues
  <2>4. Call(kind, jar, NoUser) \in net'[t]
    BY <1>2, <2>1, <2>3, CommitKeeps DEF TypeInv, TypeOK
  <2>5. Call(kind, jar, NoUser).kind = kind /\ Call(kind, jar, NoUser).sess = jar
        /\ Call(kind, jar, NoUser).reply = "none" /\ kind # "login"
    BY <2>3 DEF Call, PageCalls
  <2>6. Ending(Call(kind, jar, NoUser))'
    BY <2>1, <2>5 DEF Ending
  <2> QED BY <2>4, <2>6 DEF Safe
<1>3. CASE Shell(new) /\ Page(new) = Page(tab[t])
  <2>1. tab[t] \in Tab
    BY DEF TypeInv, TypeOK
  <2>2. Shell(tab[t])
    BY <1>3, <2>1, PageValues
  <2>3. PICK r \in requests : Ending(r)
    BY <2>2
  <2>4. r.kind # "login"
    BY <2>3 DEF Ending
  <2>5. r.kind = "poll" => Page(Redirect(new)) = "workers"
    <3>1. r.kind = "poll" => Page(new) = "workers"
      BY <1>3 DEF PollsOnPage
    <3>2. Page(new) = "workers" => Redirect(new) = new
      BY PageValues, RedirectFits
    <3> QED BY <3>1, <3>2
  <2>6. r \in net'[t]
    BY <2>4, <2>5, CommitKeeps DEF TypeInv, TypeOK
  <2>7. Ending(r)'
    BY <2>3 DEF Ending
  <2> QED BY <2>6, <2>7 DEF Safe
<1> QED BY <1>1, <1>2, <1>3

\* Steps of another tab leave a tab safe.
LEMMA OthersSafe ==
  ASSUME TypeInv, [Next]_vars, NEW t \in Tabs, Safe(t),
         tab'[t].user = tab[t].user, net[t] \subseteq net'[t]
  PROVE  Safe(t)'
<1>1. ASSUME NEW r \in net[t], Ending(r)
      PROVE  Ending(r)'
  BY <1>1, LiveGrows, EndingKept
<1> QED BY <1>1 DEF Safe, Shell

LEMMA SafeKept ==
  ASSUME TypeInv, PollsOnPage, LoginsPending, [Next]_vars, NEW t \in Tabs, Safe(t),
         losses' = 0, ends' = 0, cookie \notin live, cookie' \notin live'
  PROVE  Safe(t)'
<1>1. losses = 0 /\ ends = 0
  BY LiveGrows
<1>2. ASSUME NEW u \in Tabs, UserStep(u)
      PROVE  Safe(t)'
  <2>1. UNCHANGED <<cookie, owner, live, losses, ends>>
    BY <1>2, UserSteps
  <2>2. ASSUME NEW kind \in CallKinds, NEW who,
               net' = [net EXCEPT ![u] = @ \cup {Call(kind, cookie, who)}],
               \A w \in Tabs : tab'[w].user = tab[w].user
        PROVE  Safe(t)'
    <3>1. net[t] \subseteq net'[t]
      BY <2>2 DEF TypeInv, TypeOK
    <3> QED BY <2>2, <3>1, OthersSafe
  <2>3. ASSUME NEW new \in Tab, Commit(u, new, net[u], cookie), new.csrf = tab[u].csrf
        PROVE  Safe(t)'
    <3>1. CASE u = t
      <4>1. net[t] \in SUBSET net[t]
        OBVIOUS
      <4> QED BY <2>1, <2>3, <3>1, <4>1, CommitSafe DEF Safe
    <3>2. CASE u # t
      BY <2>3, <3>2, CommitNet, CommitTab, OthersSafe DEF TypeInv, TypeOK
    <3> QED BY <3>1, <3>2
  <2>4. ASSUME net' = [net EXCEPT ![u] = {Call("me", cookie, NoUser)}],
               \A w \in Tabs : w # u => tab'[w] = tab[w], tab'[u].user = Loading
        PROVE  Safe(t)'
    <3>1. CASE u = t
      BY <2>4, <3>1 DEF Safe, Shell
    <3>2. CASE u # t
      BY <2>4, <3>2, OthersSafe DEF TypeInv, TypeOK
    <3> QED BY <3>1, <3>2
  <2>5. CASE \E kind \in CallKinds, who \in Accounts \cup {NoUser} :
                /\ net' = [net EXCEPT ![u] = @ \cup {Call(kind, cookie, who)}]
                /\ \A w \in Tabs : tab'[w].user = tab[w].user
    BY <2>2, <2>5
  <2>6. CASE \E new \in Tab : Commit(u, new, net[u], cookie) /\ new.csrf = tab[u].csrf
    BY <2>3, <2>6
  <2> QED BY <1>2, <2>4, <2>5, <2>6, UserSteps
<1>3. ASSUME NEW u \in Tabs, NEW r \in net[u], Serve(u, r) \/ Lose(u, r)
      PROVE  Safe(t)'
  <2>1. UNCHANGED tab
    BY <1>3, ProxySteps
  <2>2. CASE u # t
    <3>1. net'[t] = net[t]
      <4>1. net' = [net EXCEPT ![u] = @ \ {r}] \/ \E answer : Answered(u, r, answer)
        BY <1>3, ProxySteps
      <4> QED BY <2>2, <4>1 DEF Answered, TypeInv, TypeOK
    <3> QED BY <2>1, <3>1, OthersSafe
  <2>3. CASE u = t /\ Shell(tab[t])
    <3>1. PICK q \in net[t] : Ending(q)
      BY <2>3 DEF Safe
    <3>2. Ending(q)'
      BY <3>1, LiveGrows, EndingKept
    <3>3. CASE q \in net'[t]
      BY <3>2, <3>3 DEF Safe
    <3>4. CASE q \notin net'[t]
      <4>1. PICK answer : /\ Answered(t, q, answer)
                          /\ \/ answer.kind = "logout" /\ answer.reply = "ok"
                             \/ answer.kind # "login" /\ answer.reply = "401"
        <5>1. ASSUME NEW answer, Answered(u, r, answer)
              PROVE  q = r
          BY <2>3, <3>1, <3>4, <5>1 DEF Answered, TypeInv, TypeOK
        <5>2. ASSUME net' = [net EXCEPT ![u] = @ \ {r}]
              PROVE  q = r
          BY <2>3, <3>1, <3>4, <5>2 DEF TypeInv, TypeOK
        <5>3. (q = r /\ q.kind # "login") \/ q.kind = "login"
          BY <1>3, <5>1, <5>2, ProxySteps
        <5>4. q.kind # "login"
          BY <3>1 DEF Ending
        <5> QED BY <1>3, <2>3, <3>1, <5>3, <5>4, ProxySteps
      <4>2. answer \in net'[t]
        BY <4>1 DEF Answered, TypeInv, TypeOK
      <4>3. Ending(answer)'
        BY <4>1 DEF Ending
      <4> QED BY <4>2, <4>3 DEF Safe
    <3> QED BY <3>3, <3>4
  <2>4. CASE ~Shell(tab[t])
    BY <2>1, <2>4 DEF Safe, Shell
  <2> QED BY <2>2, <2>3, <2>4
<1>4. ASSUME NEW u \in Tabs, NEW r \in net[u], Deliver(u, r)
      PROVE  Safe(t)'
  <2>1. r \in Request /\ Proper(r) /\ r.reply # "none" /\ UNCHANGED <<owner, live>>
    BY <1>4, DeliverySteps
  <2>2. net[u] \ {r} \in SUBSET net[u] /\ cookie \in 0 .. MaxLogins
        /\ r.sess \in 0 .. MaxLogins /\ 0 \in 0 .. MaxLogins
    BY <2>1 DEF Request, TypeInv, TypeOK
  <2>3. CASE u # t
    <3>1. ASSUME NEW new \in Tab, NEW jar \in 0 .. MaxLogins, Commit(u, new, net[u] \ {r}, jar)
          PROVE  Safe(t)'
      BY <2>3, <3>1, CommitNet, CommitTab, OthersSafe DEF TypeInv, TypeOK
    <3>2. ASSUME net' = [net EXCEPT ![u] = @ \ {r}], UNCHANGED tab
          PROVE  Safe(t)'
      BY <2>3, <3>2, OthersSafe
    <3> QED BY <1>4, <2>2, <3>1, <3>2, DeliverySteps
  <2>4. CASE u = t
    <3>1. ASSUME NEW new \in Tab, Commit(t, new, net[t] \ {r}, cookie),
                 new.csrf = tab[t].csrf, r.kind # "logout",
                 r.kind # "login" /\ r.reply = "401" => ~Shell(new)
          PROVE  Safe(t)'
      <4>1. CASE ~Shell(new)
        <5>1. tab'[t].user = new.user
          BY <3>1, CommitTab DEF TypeInv, TypeOK
        <5> QED BY <4>1, <5>1 DEF Safe, Shell
      <4>2. CASE ~Ending(r)
        <5>1. ~Shell(tab[t]) \/ \E q \in net[t] \ {r} : Ending(q)
          BY <4>2 DEF Safe
        <5> QED BY <2>1, <2>2, <2>4, <3>1, <5>1, CommitSafe
      <4>3. Ending(r) => ~Shell(new)
        BY <2>1, <3>1 DEF Ending
      <4> QED BY <4>1, <4>2, <4>3
    <3>2. ASSUME r.kind = "login", r.reply = "ok", cookie' = r.sess
          PROVE  FALSE
      BY <1>1, <2>1, <3>2 DEF LoginsPending, Signing
    <3>3. ASSUME NEW new \in Tab, Commit(t, new, net[t] \ {r}, 0), ~Shell(new)
          PROVE  Safe(t)'
      <4>1. tab'[t].user = new.user
        BY <3>3, CommitTab DEF TypeInv, TypeOK
      <4> QED BY <3>3, <4>1 DEF Safe, Shell
    <3>4. ~(r.kind = "logout" /\ r.reply \notin {"none", "ok"})
      BY <1>1, <2>1 DEF Proper, Request
    <3> QED BY <1>4, <2>4, <3>1, <3>2, <3>3, <3>4, DeliverySteps
  <2> QED BY <2>3, <2>4
<1>5. ASSUME NEW s \in Sessions, EndSession(s)
      PROVE  FALSE
  BY <1>1, <1>5 DEF EndSession
<1>6. CASE UNCHANGED vars
  BY <1>6, OthersSafe DEF vars
<1> QED BY <1>2, <1>3, <1>4, <1>5, <1>6 DEF Next, UserStep

\* A browser loses its session by a logout only: its answer is then still to
\* arrive, or has just turned the tab into a Login form.
LEMMA GhostsKept ==
  ASSUME TypeInv, PollsOnPage, LoginsPending, GhostShellIsDoomed, [Next]_vars
  PROVE  GhostShellIsDoomed'
<1>1. \A t \in Tabs : (~Shell(tab[t]) \/ Doomed(t)) <=> Safe(t)
  BY DEF Safe, Doomed, Ending
<1>2. \A t \in Tabs : (~Shell(tab[t]) \/ Doomed(t))' <=> Safe(t)'
  BY DEF Safe, Doomed, Ending
<1> SUFFICES ASSUME losses' = 0, ends' = 0, cookie' \notin live'
             PROVE  \E t \in Tabs : Safe(t)'
  BY <1>2 DEF GhostShellIsDoomed
<1>3. losses = 0 /\ ends = 0
  BY LiveGrows
<1>4. CASE cookie \notin live
  <2>1. PICK t \in Tabs : Safe(t)
    BY <1>1, <1>3, <1>4 DEF GhostShellIsDoomed
  <2> QED BY <1>4, <2>1, SafeKept
<1>5. CASE cookie \in live
  <2>1. ASSUME NEW t \in Tabs, UserStep(t)
        PROVE  FALSE
    BY <1>5, <2>1, UserSteps
  <2>2. ASSUME NEW t \in Tabs, NEW r \in net[t], Serve(t, r) \/ Lose(t, r)
        PROVE  Safe(t)'
    <3>1. cookie' = cookie /\ cookie \notin live'
      BY <2>2, ProxySteps
    <3>2. PICK answer : Answered(t, r, answer) /\ answer.kind = "logout" /\ answer.reply = "ok"
      <4>1. PICK answer : /\ Answered(t, r, answer) /\ answer.kind = r.kind
                          /\ r.kind = "logout" /\ answer.reply = "ok"
        BY <1>5, <2>2, <3>1, ProxySteps
      <4> QED BY <4>1
    <3>3. answer \in net'[t]
      BY <3>2 DEF Answered, TypeInv, TypeOK
    <3>4. Ending(answer)'
      BY <3>2 DEF Ending
    <3> QED BY <3>3, <3>4 DEF Safe
  <2>3. ASSUME NEW t \in Tabs, NEW r \in net[t], Deliver(t, r)
        PROVE  Safe(t)'
    <3>1. live' = live
      BY <2>3, DeliverySteps
    <3>2. ASSUME r.kind = "login", r.reply = "ok", cookie' = r.sess
          PROVE  FALSE
      BY <1>3, <3>1, <3>2 DEF LoginsPending, Signing
    <3>3. cookie' # cookie
      BY <1>5, <3>1
    <3>4. PICK new \in Tab : Commit(t, new, net[t] \ {r}, 0) /\ ~Shell(new)
      BY <2>3, <3>2, <3>3, DeliverySteps
    <3>5. tab'[t].user = new.user
      BY <3>4, CommitTab DEF TypeInv, TypeOK
    <3> QED BY <3>4, <3>5 DEF Safe, Shell
  <2>4. ASSUME NEW s \in Sessions, EndSession(s)
        PROVE  FALSE
    BY <1>3, <2>4 DEF EndSession
  <2>5. ~UNCHANGED vars
    BY <1>5 DEF vars, serverVars
  <2> QED BY <2>1, <2>2, <2>3, <2>4, <2>5 DEF Next, UserStep
<1> QED BY <1>4, <1>5

-----------------------------------------------------------------------------
(* The inductive invariant and what follows from it.                       *)

Inv == TypeInv /\ ViewFitsRole /\ PollsOnPage /\ LoginsPending /\ GhostShellIsDoomed

LEMMA InitInv ==
  ASSUME Init
  PROVE  Inv
<1>1. PICK path \in Paths :
        tab = [t \in Tabs |-> [user |-> Loading, csrf |-> 0, busy |-> FALSE,
                              view |-> ViewFromPath(path), path |-> path]]
  BY DEF Init
<1>2. \A t \in Tabs : tab[t].user = Loading
  BY <1>1
<1>3. tab \in [Tabs -> Tab]
  <2> DEFINE rec == [user |-> Loading, csrf |-> 0, busy |-> FALSE,
                     view |-> ViewFromPath(path), path |-> path]
  <2>1. 0 \in 0 .. MaxLogins /\ ViewFromPath(path) \in AppView
    BY DEF ViewFromPath, Paths, AppView
  <2>2. rec \in Tab
    BY <2>1 DEF Tab
  <2>3. tab = [t \in Tabs |-> rec]
    BY <1>1
  <2> HIDE DEF rec
  <2> QED BY <2>2, <2>3
<1>4. Call("me", 0, NoUser) \in Request
  BY CallTyped DEF CallKinds
<1>5. Call("me", 0, NoUser).kind = "me" /\ Call("me", 0, NoUser).sess = 0
      /\ Call("me", 0, NoUser).reply = "none"
  BY DEF Call
<1>6. net \in [Tabs -> SUBSET Request] /\ \A t \in Tabs : \A r \in net[t] : r = Call("me", 0, NoUser)
  BY <1>4 DEF Init
<1>7. TypeInv
  <2>1. NetProper
    BY <1>5, <1>6 DEF NetProper, Proper
  <2>2. /\ owner = [s \in Sessions |-> NoUser] /\ live = {} /\ cookie = 0
        /\ losses = 0 /\ ends = 0 /\ reloads = 0 /\ moves = 0
    BY DEF Init
  <2>3. owner \in [Sessions -> Accounts \cup {NoUser}]
    BY <2>2
  <2>4. \A n \in {MaxLogins, MaxLosses, MaxEnds, MaxReloads, MaxMoves} : 0 \in 0 .. n
    OBVIOUS
  <2> QED BY <1>3, <1>6, <2>1, <2>2, <2>3, <2>4 DEF TypeInv, TypeOK, CookieKnown
<1>8. \A t \in Tabs : ~Shell(tab[t])
  BY <1>2 DEF Shell
<1> QED BY <1>5, <1>6, <1>7, <1>8
        DEF Inv, ViewFitsRole, PollsOnPage, LoginsPending, Signing, GhostShellIsDoomed

\* The invariant is inductive.
THEOREM Invariance == Spec => []Inv
<1>1. Init => Inv
  BY InitInv
<1>2. Inv /\ [Next]_vars => Inv'
  BY TypesKept, ViewsKept, PollsKept, PendingKept, GhostsKept DEF Inv
<1> QED BY <1>1, <1>2, PTL DEF Spec

\* Tabs, requests, cookies and sessions have their types; a session the proxy
\* still holds was created for an account.
THEOREM TypeCorrect == Spec => []TypeOK
<1>1. Inv => TypeOK
  BY DEF Inv, TypeInv
<1> QED BY <1>1, Invariance, PTL

\* Whatever the history buttons, a stale address or a late /me answer do, a
\* signed-in user is shown a view of his role (the redirect effect and landing
\* after login in main.tsx).
THEOREM ViewsFitRoles == Spec => []ViewFitsRole
<1>1. Inv => ViewFitsRole
  BY DEF Inv
<1> QED BY <1>1, Invariance, PTL

\* A browser whose session is gone by a logout has a tab that shows no console
\* or is about to be signed out by an answer under way (api's 401 handling and
\* the loads of the pages in main.tsx), in any number of tabs.
THEOREM GhostShellsAreDoomed == Spec => []GhostShellIsDoomed
<1>1. Inv => GhostShellIsDoomed
  BY DEF Inv
<1> QED BY <1>1, Invariance, PTL

=============================================================================
