----------------------------- MODULE UsersPage -----------------------------
(***************************************************************************)
(* One visit of an administrator to the users page of the console:         *)
(* AdminUsersListPage, CreateUserModal, ConfigureLimitsModal,              *)
(* ResetPasswordModal and QuotaSelector of proxy/admin-ui/src/main.tsx,    *)
(* against the accounts the proxy stores.  Other administrators change     *)
(* them too.                                                               *)
(*                                                                         *)
(* An account is a row of `users` and one of account_configs, and the      *)
(* second is read through Redis.  The proxy sets the copy in Redis after   *)
(* every read and every write of a configuration, without a look at what   *)
(* is there and in no order with the others; the set may fail or be late   *)
(* unnoticed, and the copy expires.  So what a read gets is any one of the *)
(* configurations the account has had, the stored one among them.          *)
(*                                                                         *)
(* The page holds a copy of the accounts (rows).  Its calls are answered   *)
(* in any order; equal unanswered calls are one member of `net`.  Storage  *)
(* quotas are counted in quarters of a GiB, so that the whole GiB of the   *)
(* form and the bytes of the store differ.  doc_quota takes the same path  *)
(* as rate_limit_rpm and is left out, and so are passwords.                *)
(***************************************************************************)
EXTENDS Integers, FiniteSets

CONSTANTS
  Users,          \* developer accounts, existing or still to be created
  InitialStorage, \* storage quotas accounts start with, in quarter GiB
  NoUser,
  MaxSends,       \* calls that change something (bound)
  MaxOthers,      \* changes by the other administrator (bound)
  MaxLosses,      \* calls or answers that get lost, loads that fail (bound)
  MaxPending,     \* the user acts while fewer calls are in flight (bound)
  MaxEdits        \* edits of quota fields (bound)

VARIABLES
  acct,     \* the stored rows of `users`
  configs,  \* the configurations each account has had
  rows,     \* `users`: the page's copy
  loading,
  form,     \* the open modal
  net,      \* calls in flight
  unseen,   \* version of each account reported as done and not yet shown, or 0
  sends, others, losses, edits

bounds == <<sends, others, losses, edits>>
vars == <<acct, configs, rows, loading, form, net, unseen, bounds>>

Max2(a, b) == IF a >= b THEN a ELSE b

\* `ver` numbers the states of a row, for the properties only; 0 when there is no
\* such account.  `listed`: its id, given when it is inserted, is one of the 100
\* lowest; accounts are never deleted.
Versions == 0 .. 1 + MaxSends + MaxOthers
Account == [ver : Versions, disabled : BOOLEAN, listed : BOOLEAN]
NoAccount == [ver |-> 0, disabled |-> FALSE, listed |-> FALSE]

\* account_configs, and what the trigger inserts with a new user.
Config == [rate : Nat, storage : Nat]
DefaultConfig == [rate |-> 60, storage |-> 0]

\* An account as the list has it; `known` is FALSE when `config` is missing.
Row == [ver : Versions, disabled : BOOLEAN, known : BOOLEAN, rate : Nat, storage : Nat]
NoRow == [ver |-> 0, disabled |-> FALSE, known |-> FALSE, rate |-> 0, storage |-> 0]

Kinds == {"create", "limits", "reset"}
Form == [kind : Kinds \cup {"none"}, user : Users \cup {NoUser},
         from : Row,                      \* the row it was opened on
         rate : Nat, gb : Nat, busy : BOOLEAN, touched : BOOLEAN]
Closed == [kind |-> "none", user |-> NoUser, from |-> NoRow, rate |-> 0,
           gb |-> 0, busy |-> FALSE, touched |-> FALSE]

Request == [kind : Kinds \cup {"load", "toggle"}, user : Users \cup {NoUser},
            rate : Nat, storage : Nat, disabled : BOOLEAN,
            mounted : BOOLEAN,            \* the form that sent it is still there
            reply : {"none", "rows", "inserted", "read", "ok", "refused", "lost"},
            ver : Versions, list : [Users -> Row]]

TypeOK ==
  /\ acct \in [Users -> Account] /\ configs \in [Users -> SUBSET Config]
  /\ rows \in [Users -> Row]
  /\ loading \in BOOLEAN
  /\ form \in Form
  /\ net \subseteq Request
  /\ unseen \in [Users -> Versions]
  /\ \A u \in Users : unseen[u] <= acct[u].ver /\ rows[u].ver <= acct[u].ver
  /\ sends \in 0 .. MaxSends /\ others \in 0 .. MaxOthers
  /\ losses \in 0 .. MaxLosses /\ edits \in 0 .. MaxEdits

-----------------------------------------------------------------------------
(* Quotas *)

\* Math.round of a quarter-GiB count to GiB, and back to what is saved.
RoundGB(storage) == (storage + 2) \div 4
SavedStorage(gb) == 4 * gb

\* What ConfigureLimitsModal shows for a row, defaults when its configuration is
\* missing.  Faulty variant: `||` where the code has `??`, so that the stored 0
\* becomes the default.
LimitsOrDefault(row) ==
  [rate |-> IF row.known /\ row.rate # 0 THEN row.rate ELSE 60, gb |-> RoundGB(row.storage)]
Limits(row) ==
  [rate |-> IF row.known THEN row.rate ELSE 60, gb |-> RoundGB(row.storage)]

\* QuotaSelector: the two buttons and the number field.
Unlimited(value) == 0
Custom(value) == IF value = 0 THEN 60 ELSE value
Typed(value, n) == IF value = 0 THEN value ELSE Max2(1, n)

-----------------------------------------------------------------------------
(* Calls *)

Call(kind, u) == [kind |-> kind, user |-> u, rate |-> 0, storage |-> 0,
                  disabled |-> FALSE, mounted |-> TRUE, reply |-> "none",
                  ver |-> 0, list |-> [v \in Users |-> NoRow]]
Load == Call("load", NoUser)
SaveCall(f) == [Call(f.kind, f.user) EXCEPT !.rate = f.rate,
                                            !.storage = SavedStorage(f.gb)]
ToggleCall(u, row) == [Call("toggle", u) EXCEPT !.disabled = ~row.disabled]

\* A modal that unmounts no longer sees the answer to its call.
Unmounted(calls) ==
  {IF r.kind \in Kinds THEN [r EXCEPT !.mounted = FALSE] ELSE r : r \in calls}

UserMayAct == Cardinality(net) < MaxPending
PageFree == form.kind = "none"      \* the overlay covers the page's buttons

Init ==
  /\ acct \in {a \in [Users -> [ver : {0, 1}, disabled : {FALSE}, listed : BOOLEAN]] :
                 \A u \in Users : a[u].ver = 0 => a[u] = NoAccount}
  /\ configs \in {c \in [Users -> SUBSET [rate : {0, 60}, storage : InitialStorage \cup {0}]] :
                    \A u \in Users : Cardinality(c[u]) = acct[u].ver}
  /\ rows = [u \in Users |-> NoRow]
  /\ loading = TRUE
  /\ form = Closed
  /\ net = {Load}
  /\ unseen = [u \in Users |-> 0]
  /\ sends = 0 /\ others = 0 /\ losses = 0 /\ edits = 0

-----------------------------------------------------------------------------
(* The administrator *)

Refresh ==
  /\ PageFree /\ UserMayAct
  /\ loading' = TRUE
  /\ net' = net \cup {Load}
  /\ UNCHANGED <<acct, configs, rows, form, unseen, bounds>>

OpenCreate(u) ==
  /\ PageFree /\ UserMayAct
  /\ form' = [Closed EXCEPT !.kind = "create", !.user = u, !.rate = 60, !.gb = 10]
  /\ UNCHANGED <<acct, configs, rows, loading, net, unseen, bounds>>

OpenLimits(u) ==
  /\ PageFree /\ UserMayAct /\ ~loading /\ rows[u].ver > 0
  /\ form' = [Closed EXCEPT !.kind = "limits", !.user = u, !.from = rows[u],
                            !.rate = Limits(rows[u]).rate,
                            !.gb = Limits(rows[u]).gb]
  /\ UNCHANGED <<acct, configs, rows, loading, net, unseen, bounds>>

OpenReset(u) ==
  /\ PageFree /\ UserMayAct /\ ~loading /\ rows[u].ver > 0
  /\ form' = [Closed EXCEPT !.kind = "reset", !.user = u]
  /\ UNCHANGED <<acct, configs, rows, loading, net, unseen, bounds>>

\* Cancel, X or a click beside the box; all of them work while it is busy.
CloseForm ==
  /\ form.kind # "none"
  /\ form' = Closed
  /\ net' = Unmounted(net)
  /\ UNCHANGED <<acct, configs, rows, loading, unseen, bounds>>

EditQuota ==
  /\ form.kind \in {"create", "limits"} /\ edits < MaxEdits
  /\ edits' = edits + 1
  /\ \E value \in {Unlimited(form.rate), Custom(form.rate)}
                  \cup {Typed(form.rate, n) : n \in -1 .. 1} :
       form' = [form EXCEPT !.rate = value, !.touched = TRUE]
  /\ UNCHANGED <<acct, configs, rows, loading, net, unseen, sends, others, losses>>

EditStorage ==
  /\ form.kind \in {"create", "limits"} /\ edits < MaxEdits
  /\ edits' = edits + 1
  /\ \E value \in {Unlimited(form.gb), Custom(form.gb)}
                  \cup {Typed(form.gb, n) : n \in -1 .. 1} :
       form' = [form EXCEPT !.gb = value, !.touched = TRUE]
  /\ UNCHANGED <<acct, configs, rows, loading, net, unseen, sends, others, losses>>

SubmitForm ==
  /\ form.kind # "none" /\ ~form.busy /\ UserMayAct /\ sends < MaxSends
  /\ sends' = sends + 1
  /\ form' = [form EXCEPT !.busy = TRUE]
  /\ net' = net \cup {SaveCall(form)}
  /\ UNCHANGED <<acct, configs, rows, loading, unseen, others, losses, edits>>

\* The action is chosen by the row the button was drawn for, and confirmed.
ToggleStatus(u) ==
  /\ PageFree /\ UserMayAct /\ sends < MaxSends /\ ~loading /\ rows[u].ver > 0
  /\ sends' = sends + 1
  /\ net' = net \cup {ToggleCall(u, rows[u])}
  /\ UNCHANGED <<acct, configs, rows, loading, form, unseen, others, losses, edits>>

-----------------------------------------------------------------------------
(* The proxy, the other administrator, the network *)

Answered(r, answer) == net' = (net \ {r}) \cup {answer}

\* ListUsers reads the rows first, the lowest ids, and then each configuration;
\* one that cannot be read is left out of the answer.
Listing(a) ==
  IF a.listed THEN [NoRow EXCEPT !.ver = a.ver, !.disabled = a.disabled] ELSE NoRow
Configured(u, row) ==
  {row} \cup {[row EXCEPT !.known = TRUE, !.rate = c.rate, !.storage = c.storage] :
               c \in IF row.ver > 0 THEN configs[u] ELSE {}}

ReadRows(r) ==
  /\ r \in net /\ r.kind = "load" /\ r.reply = "none"
  /\ Answered(r, [r EXCEPT !.reply = "rows", !.list = [u \in Users |-> Listing(acct[u])]])
  /\ UNCHANGED <<acct, configs, rows, loading, form, unseen, bounds>>

ReadConfigs(r) ==
  /\ r \in net /\ r.reply = "rows"
  /\ \E list \in [Users -> UNION {Configured(u, r.list[u]) : u \in Users}] :
       /\ \A u \in Users : list[u] \in Configured(u, r.list[u])
       /\ Answered(r, [r EXCEPT !.reply = "ok", !.list = list])
  /\ UNCHANGED <<acct, configs, rows, loading, form, unseen, bounds>>

\* CreateUser inserts the account, and then replaces its default configuration:
\* the answer is the same when that fails.
InsertUser(r) ==
  /\ r \in net /\ r.kind = "create" /\ r.reply = "none" /\ acct[r.user].ver = 0
  /\ \E listed \in BOOLEAN :
       acct' = [acct EXCEPT ![r.user] = [ver |-> 1, disabled |-> FALSE, listed |-> listed]]
  /\ configs' = [configs EXCEPT ![r.user] = {DefaultConfig}]
  /\ Answered(r, [r EXCEPT !.reply = "inserted", !.ver = 1])
  /\ UNCHANGED <<rows, loading, form, unseen, bounds>>

Sent(r) == [rate |-> r.rate, storage |-> r.storage]
ConfigureUser(r) ==
  /\ r \in net /\ r.reply = "inserted"
  /\ configs' \in {configs, [configs EXCEPT ![r.user] = @ \cup {Sent(r)}]}
  /\ Answered(r, [r EXCEPT !.reply = "ok"])
  /\ UNCHANGED <<acct, rows, loading, form, unseen, bounds>>

\* UpdateAccountConfig replaces every field by what the page sends.  What it has
\* read before, perhaps an old copy, only decides whether it refuses.
SaveConfig(r) ==
  /\ r \in net /\ r.kind = "limits" /\ r.reply = "none" /\ acct[r.user].ver > 0
  /\ configs' = [configs EXCEPT ![r.user] = @ \cup {Sent(r)}]
  /\ Answered(r, [r EXCEPT !.reply = "ok"])
  /\ UNCHANGED <<acct, rows, loading, form, unseen, bounds>>

\* UpdateUser and ResetPassword read the row and write all of it: the first sets
\* `disabled`, the second puts back what it has read.
Written(u, d) ==
  [acct EXCEPT ![u] = [ver |-> acct[u].ver + 1, disabled |-> d, listed |-> acct[u].listed]]

SetStatus(r) ==
  /\ r \in net /\ r.kind = "toggle" /\ r.reply = "none" /\ acct[r.user].ver > 0
  /\ acct' = Written(r.user, r.disabled)
  /\ Answered(r, [r EXCEPT !.reply = "ok", !.ver = acct[r.user].ver + 1])
  /\ UNCHANGED <<configs, rows, loading, form, unseen, bounds>>

ReadForReset(r) ==
  /\ r \in net /\ r.kind = "reset" /\ r.reply = "none" /\ acct[r.user].ver > 0
  /\ Answered(r, [r EXCEPT !.reply = "read", !.disabled = acct[r.user].disabled])
  /\ UNCHANGED <<acct, configs, rows, loading, form, unseen, bounds>>

WriteReset(r) ==
  /\ r \in net /\ r.reply = "read"
  /\ acct' = Written(r.user, r.disabled)
  /\ Answered(r, [r EXCEPT !.reply = "ok"])
  /\ UNCHANGED <<configs, rows, loading, form, unseen, bounds>>

\* A condition of the call does not hold, or the database fails.
Refuse(r) ==
  /\ r \in net /\ r.kind # "load" /\ r.reply \in {"none", "read"}
  /\ Answered(r, [r EXCEPT !.reply = "refused"])
  /\ UNCHANGED <<acct, configs, rows, loading, form, unseen, bounds>>

\* Others suspend, reactivate or reset a password, with a row they have read
\* before, or change the limits.
OtherAdmin(u) ==
  /\ others < MaxOthers /\ acct[u].ver > 0
  /\ others' = others + 1
  /\ \/ (\E d \in BOOLEAN : acct' = Written(u, d)) /\ UNCHANGED configs
     \/ /\ \E gb \in {0, 1} :
             configs' = [configs EXCEPT ![u] = @ \cup {[rate |-> 60, storage |-> SavedStorage(gb)]}]
        /\ UNCHANGED acct
  /\ UNCHANGED <<rows, loading, form, net, unseen, sends, losses, edits>>

\* fetch rejects, whatever the proxy has done, or a load is answered with an error.
Lose(r) ==
  /\ r \in net /\ r.reply \notin {"refused", "lost"} /\ losses < MaxLosses
  /\ losses' = losses + 1
  /\ \/ Answered(r, [r EXCEPT !.reply = "lost"])
     \/ r.kind = "load" /\ r.reply = "none" /\ Answered(r, [r EXCEPT !.reply = "refused"])
  /\ UNCHANGED <<acct, configs, rows, loading, form, unseen, sends, others, edits>>

-----------------------------------------------------------------------------
(* Answers arriving in the page *)

Answers == {"ok", "refused", "lost"}

\* A rejected fetch leaves `loading` as it is.
DeliverLoad(r) ==
  /\ r \in net /\ r.kind = "load" /\ r.reply \in Answers
  /\ net' = net \ {r}
  /\ rows' = IF r.reply = "ok" THEN r.list ELSE rows
  /\ loading' = IF r.reply = "lost" THEN loading ELSE FALSE
  /\ unseen' = [u \in Users |-> IF rows'[u].ver >= unseen[u] THEN 0 ELSE unseen[u]]
  /\ UNCHANGED <<acct, configs, form, bounds>>

\* The forms' submit(): those with a catch show the error and are released;
\* the limits form is released by an answer only.
\* Faulty variant: the catch without setBusy(false).
NeverReleased(f, r) == f
AfterFailure(f, r) ==
  IF r.mounted /\ (r.kind # "limits" \/ r.reply = "refused")
  THEN [f EXCEPT !.busy = FALSE] ELSE f

\* Faulty variant: a change that does not read the accounts again.
NoReload(r) == {}
Reload(r) == IF r.kind = "reset" THEN {} ELSE {Load}

\* handleCreateUser, handleSaveLimits and handleResetPassword close the form
\* of their kind, whoever it is open for, and say so; all but the last load.
DeliverFormAnswer(r) ==
  /\ r \in net /\ r.kind \in Kinds /\ r.reply \in Answers
  /\ IF r.reply = "ok"
     THEN /\ form' = IF form.kind = r.kind THEN Closed ELSE form
          /\ net' = (IF form.kind = r.kind THEN Unmounted(net \ {r}) ELSE net \ {r})
                      \cup Reload(r)
          /\ loading' = (loading \/ Reload(r) # {})
          /\ unseen' = [unseen EXCEPT ![r.user] = Max2(@, r.ver)]
     ELSE /\ form' = AfterFailure(form, r)
          /\ net' = net \ {r}
          /\ UNCHANGED <<loading, unseen>>
  /\ UNCHANGED <<acct, configs, rows, bounds>>

DeliverToggle(r) ==
  /\ r \in net /\ r.kind = "toggle" /\ r.reply \in Answers
  /\ net' = (net \ {r}) \cup (IF r.reply = "ok" THEN Reload(r) ELSE {})
  /\ loading' = (loading \/ (r.reply = "ok" /\ Reload(r) # {}))
  /\ unseen' = IF r.reply = "ok" THEN [unseen EXCEPT ![r.user] = Max2(@, r.ver)]
              ELSE unseen
  /\ UNCHANGED <<acct, configs, rows, form, bounds>>

-----------------------------------------------------------------------------
ServeLoad(r) == ReadRows(r) \/ ReadConfigs(r)
ServeChange(r) ==
  \/ InsertUser(r) \/ ConfigureUser(r) \/ SaveConfig(r) \/ SetStatus(r)
  \/ ReadForReset(r) \/ WriteReset(r) \/ Refuse(r)
Serve(r) == ServeLoad(r) \/ ServeChange(r)
DeliverAnswer(r) == DeliverFormAnswer(r) \/ DeliverToggle(r)
Deliver(r) == DeliverLoad(r) \/ DeliverAnswer(r)

Next ==
  \/ \E u \in Users : \/ OpenCreate(u) \/ OpenLimits(u) \/ OpenReset(u)
                      \/ ToggleStatus(u) \/ OtherAdmin(u)
  \/ Refresh \/ CloseForm \/ EditQuota \/ EditStorage \/ SubmitForm
  \/ \E r \in net : Serve(r) \/ Deliver(r) \/ Lose(r)

\* What the proxy and the browser get done, of the calls there are.
RowsRead == \E r \in net : ReadRows(r)
ConfigsRead == \E r \in net : ReadConfigs(r)
ChangeServed == \E r \in net : ServeChange(r)
LoadDelivered == \E r \in net : DeliverLoad(r)
AnswerDelivered == \E r \in net : DeliverAnswer(r)
=============================================================================
