---------------------------- MODULE ConsolePages ----------------------------
(***************************************************************************)
(* The pages of the admin console: the workspace shows the users page      *)
(* (UsersPage), the developer portal (KeysPortal) or the workers page      *)
(* (WorkersPage), whichever `view` says (ConsoleSession has how the view   *)
(* and the user change).  A behaviour is one visit to one of them: pages   *)
(* share nothing but the names of what they keep, so the variables of the  *)
(* page shown have its values and the others are Absent.                   *)
(***************************************************************************)
EXTENDS Integers, FiniteSets

CONSTANTS
  Absent,                                        \* of a page that is not shown
  Users, InitialStorage, NoUser, MaxEdits,       \* the users page
  Typable, AccountRates, MaxKeys, MaxReloads,    \* the developer portal
  Nodes, Nobody, AuthMode, MaxRuns, MaxCalls,    \* the workers page
  MaxSends, MaxOthers, MaxLosses, MaxPending,    \* bounds of the pages
  MaxTurns     \* what the bounds from MaxSends to MaxLosses count, together (bound)

ASSUME NamesAssumption ==
  /\ NoUser \notin Users /\ Nobody \notin Nodes
  /\ "enrollment" \notin Nodes \cup {Nobody}
ASSUME ValuesAssumption ==
  /\ InitialStorage \cup AccountRates \subseteq Nat /\ Typable \subseteq Int
  /\ AuthMode \in {"shared", "enrollment"}
ASSUME BoundsAssumption ==
  {MaxEdits, MaxKeys, MaxReloads, MaxRuns, MaxCalls, MaxSends, MaxOthers,
   MaxLosses, MaxPending, MaxTurns} \subseteq Nat
ASSUME RunsAssumption == MaxCalls < MaxRuns    \* a control refreshes the table

VARIABLES
  view,
  loading, unseen, others, losses,               \* every page
  rows, form, net, sends,                        \* users and portal
  acct, configs, edits,
  key, rate, config, banner, revealed, reloads,
  node, nodes, authMode, error, pending, code, run, timer, polls, call, calls

common == <<view, loading, unseen, others, losses>>
ofForms == <<rows, form, net, sends>>
ofUsers == <<acct, configs, edits>>
ofPortal == <<key, rate, config, banner, revealed, reloads>>
ofWorkers == <<node, nodes, authMode, error, pending, code, run, timer, polls,
               call, calls>>
vars == <<common, ofForms, ofUsers, ofPortal, ofWorkers>>

UsersShown == INSTANCE UsersPage
Portal == INSTANCE KeysPortal
Workers == INSTANCE WorkersPage

NoForms == rows = Absent /\ form = Absent /\ net = Absent /\ sends = Absent
NoUsers == acct = Absent /\ configs = Absent /\ edits = Absent
NoPortal == /\ key = Absent /\ rate = Absent /\ config = Absent
            /\ banner = Absent /\ revealed = Absent /\ reloads = Absent
NoWorkers == /\ node = Absent /\ nodes = Absent /\ authMode = Absent /\ error = Absent
             /\ pending = Absent /\ code = Absent /\ run = Absent /\ timer = Absent
             /\ polls = Absent /\ call = Absent /\ calls = Absent

Init ==
  \/ view = "users" /\ UsersShown!Init /\ NoPortal /\ NoWorkers
  \/ view = "portal" /\ Portal!Init /\ NoUsers /\ NoWorkers
  \/ view = "workers" /\ Workers!Init /\ NoForms /\ NoUsers /\ NoPortal

OnUsers == view = "users" /\ UNCHANGED <<view, ofPortal, ofWorkers>>
OnPortal == view = "portal" /\ UNCHANGED <<view, ofUsers, ofWorkers>>
OnWorkers == view = "workers" /\ UNCHANGED <<view, ofForms, ofUsers, ofPortal>>

Next ==
  \/ OnUsers /\ UsersShown!Next /\ sends' + others' + losses' + edits' <= MaxTurns
  \/ OnPortal /\ Portal!Next /\ sends' + others' + losses' + reloads' <= MaxTurns
  \/ OnWorkers /\ Workers!Next /\ calls' + others' + losses' <= MaxTurns

Spec == Init /\ [][Next]_vars

\* The proxy answers the calls of every kind and the browser delivers the
\* answers and fires the poll timer; nothing is assumed of any user.
Fairness ==
  /\ WF_vars(OnUsers /\ UsersShown!RowsRead)
  /\ WF_vars(OnUsers /\ UsersShown!ConfigsRead)
  /\ WF_vars(OnUsers /\ UsersShown!ChangeServed)
  /\ WF_vars(OnUsers /\ UsersShown!LoadDelivered)
  /\ WF_vars(OnUsers /\ UsersShown!AnswerDelivered)
  /\ \A kind \in {"load", "create", "edit", "password", "revoke"} :
       /\ WF_vars(OnPortal /\ Portal!ServeKind(kind, "none"))
       /\ WF_vars(OnPortal /\ Portal!DeliverKind(kind))
  /\ WF_vars(OnPortal /\ Portal!ServeKind("create", "checked"))
  /\ \A half \in {"keys", "config"} : WF_vars(OnPortal /\ Portal!ServeKind("load", half))
  /\ \A gen \in 1 .. MaxRuns :
       /\ WF_vars(OnWorkers /\ Workers!ServeRun(gen))
       /\ WF_vars(OnWorkers /\ Workers!DeliverRun(gen))
  /\ WF_vars(OnWorkers /\ Workers!ServeCall)
  /\ WF_vars(OnWorkers /\ Workers!DeliverControl)
  /\ WF_vars(OnWorkers /\ Workers!DeliverEnroll)
  /\ WF_vars(OnWorkers /\ Workers!TimerFires)
FairSpec == Spec /\ Fairness

-----------------------------------------------------------------------------
(* Properties *)

TypeOK ==
  /\ view \in {"users", "portal", "workers"}
  /\ view = "users" => UsersShown!TypeOK
  /\ view = "portal" => Portal!TypeOK
  /\ view = "workers" => Workers!TypeOK

\* Opening the limits form of an account whose row came with its quotas, the
\* storage quota a whole number of GiB, and saving it unchanged keeps every quota
\* as the row had it, zero (unlimited) included.
UntouchedSaveIsNeutral ==
  view = "users" /\ form.kind = "limits" /\ ~form.touched
  /\ form.from.known /\ form.from.storage % 4 = 0 =>
    /\ UsersShown!SaveCall(form).rate = form.from.rate
    /\ UsersShown!SaveCall(form).storage = form.from.storage

\* A new or changed account (created, suspended or reactivated), key or Mac that
\* the page reported as done is, at some time after it, in the table, in that
\* state or a later one: the page reads again after every success.  An account
\* beyond the 100 lowest ids is not in any list, and limits may be shown from an
\* older copy.  (A slower answer to an older load may then put an older row back.)
\* The workers page gets there however many polls fail, the others do not try again.
Unseen(x) ==
  /\ x \in DOMAIN unseen /\ unseen[x] > 0
  /\ view = "users" => acct[x].listed
AckedChangeIsShown ==
  \A x \in Users \cup 1 .. MaxKeys \cup Nodes :
    Unseen(x) ~> (~Unseen(x) \/ (view # "workers" /\ losses > 0))

\* A form that waits is closed or given back to the user; the forms for a new
\* account and for passwords also when their call or the answer is lost.
Busy == view \in {"users", "portal"} /\ form.busy
FormsWithoutCatch == {"limits", "edit"} \cup (IF view = "portal" THEN {"create"} ELSE {})
FormsRecover == Busy ~> (~Busy \/ (losses > 0 /\ form.kind \in FormsWithoutCatch))

\* A secret that has left the screen is never on it again ("you won't be able
\* to view it again", says the banner).
SecretShownOnce ==
  [][view = "portal" =>
       \A k \in 1 .. MaxKeys : banner' = k /\ banner # k => k \notin revealed]_vars

\* The secret of a new key, which nobody can ever read again, gets on the
\* screen even if the dialog is closed while it waits, as long as the page
\* stays and the answer arrives.
Revealable(k) ==
  view = "portal" /\ \E r \in net : r.kind = "create" /\ r.key = k /\ r.page
NewKeyIsRevealed ==
  \A k \in 1 .. MaxKeys :
    Revealable(k)
      ~> (view = "portal" /\ (k \in revealed \/ losses > 0 \/ reloads > 0))

\* The workers table never goes back in time: answers to the polls of disposed
\* runs, which may be slower than those of later ones, are dropped.
TableNeverGoesBack ==
  [][view = "workers" => \A n \in Nodes : nodes'[n].ver >= nodes[n].ver]_vars

\* The buttons come back after every control and enrollment, a lost one included.
Disabled == view = "workers" /\ pending # Nobody
ButtonsComeBack == Disabled ~> ~Disabled
=============================================================================
