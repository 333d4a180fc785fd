----------------------------- MODULE KeysPortal -----------------------------
(***************************************************************************)
(* A developer's page of the console: UserSelfPortal, CreateKeyModal,      *)
(* EditKeyLimitModal, ResetPasswordModal and KeyGeneratedBanner of         *)
(* proxy/admin-ui/src/main.tsx, with what the proxy does to the account's  *)
(* API keys (GenerateKey, UpdateKeyRateLimit, RevokeKey).                  *)
(*                                                                         *)
(* A load joins two calls, for the keys and for the account's limits,      *)
(* which read the store at different moments.  Calls are answered in any   *)
(* order; equal unanswered calls are one member of `net`.  A reload of the *)
(* page leaves the calls it had sent to be served but answered to nobody.  *)
(***************************************************************************)
EXTENDS Integers, FiniteSets

CONSTANTS
  Typable,     \* numbers typed into a limit field
  AccountRates,\* limits an administrator gives the account, 0 is unlimited
  MaxKeys,     \* keys ever created (bound)
  MaxSends,    \* changing calls (bound)
  MaxOthers,   \* changes of the limit that a read of the account gets (bound)
  MaxLosses,   \* calls or answers that get lost (bound)
  MaxReloads,  \* reloads of the page (bound)
  MaxPending   \* the user acts while fewer calls are in flight (bound)

VARIABLES
  key,       \* rows of api_keys
  rate,      \* the account's rate_limit_rpm, as a read gets it now (getConfig)
  rows,      \* `keys`: the page's copy
  config,    \* the page's copy of `rate`, 0 before the first load
  loading,
  form,      \* the open modal
  banner,    \* the key whose secret is shown, 0 for none
  revealed,  \* keys whose secret has been on the screen
  unseen,    \* version of a key reported as changed and not yet shown, or 0
  net,       \* calls in flight
  sends, others, losses, reloads

store == <<key, rate>>
bounds == <<sends, others, losses, reloads>>
vars == <<store, rows, config, loading, form, banner, revealed, unseen, net, bounds>>

Keys == 1 .. MaxKeys

\* `ver` numbers the changes of a key, for the properties only; 0: no such key.
ApiKey == [ver : 0 .. 1 + MaxSends, rpm : Nat, revoked : BOOLEAN]
NoKey == [ver |-> 0, rpm |-> 0, revoked |-> FALSE]
NoKeys == [k \in Keys |-> NoKey]

Forms == {"create", "edit", "password"}
Form == [kind : Forms \cup {"none"}, key : 0 .. MaxKeys, rpm : Nat, busy : BOOLEAN]
Closed == [kind |-> "none", key |-> 0, rpm |-> 0, busy |-> FALSE]

Request == [kind : Forms \cup {"load", "revoke"}, key : 0 .. MaxKeys, rpm : Nat,
            page : BOOLEAN,               \* the page that sent it is still there
            mounted : BOOLEAN,            \* and the modal that sent it
            reply : {"none", "checked", "keys", "config", "ok", "refused", "lost"},
            ver : 0 .. 1 + MaxSends,
            list : [Keys -> ApiKey], limit : Nat]

TypeOK ==
  /\ key \in [Keys -> ApiKey] /\ rows \in [Keys -> ApiKey]
  /\ rate \in AccountRates /\ config \in AccountRates \cup {0}
  /\ loading \in BOOLEAN /\ form \in Form
  /\ banner \in {0} \cup revealed
  /\ revealed \subseteq {k \in Keys : key[k].ver > 0}
  /\ unseen \in [Keys -> 0 .. 1 + MaxSends]
  /\ net \subseteq Request
  /\ \A k \in Keys : unseen[k] <= key[k].ver /\ rows[k].ver <= key[k].ver
  /\ sends \in 0 .. MaxSends /\ others \in 0 .. MaxOthers
  /\ losses \in 0 .. MaxLosses /\ reloads \in 0 .. MaxReloads

-----------------------------------------------------------------------------
(* Calls *)

Call(kind, k, rpm) == [kind |-> kind, key |-> k, rpm |-> rpm, page |-> TRUE,
                       mounted |-> TRUE, reply |-> "none", ver |-> 0,
                       list |-> NoKeys, limit |-> 0]
Load == Call("load", 0, 0)

\* CreateKeyModal starts from the account's limit, or 60 when it has none.
DefaultRpm == IF config = 0 THEN 60 ELSE config

Unmounted(calls) ==
  {IF r.kind \in Forms THEN [r EXCEPT !.mounted = FALSE] ELSE r : r \in calls}

UserMayAct == Cardinality(net) < MaxPending
PageFree == form.kind = "none"      \* the overlay covers the page's buttons
Shown(k) == ~loading /\ rows[k].ver > 0

Init ==
  /\ key = NoKeys
  /\ rate \in AccountRates /\ config = 0      \* /me does not send it
  /\ rows = NoKeys
  /\ loading = TRUE
  /\ form = Closed
  /\ banner = 0 /\ revealed = {}
  /\ unseen = [k \in Keys |-> 0]
  /\ net = {Load}
  /\ sends = 0 /\ others = 0 /\ losses = 0 /\ reloads = 0

-----------------------------------------------------------------------------
(* The user *)

Refresh ==
  /\ PageFree /\ UserMayAct
  /\ loading' = TRUE
  /\ net' = net \cup {Load}
  /\ UNCHANGED <<store, rows, config, form, banner, revealed, unseen, bounds>>

OpenForm ==
  /\ PageFree /\ UserMayAct
  /\ \/ form' = [Closed EXCEPT !.kind = "create", !.rpm = DefaultRpm]
     \/ form' = [Closed EXCEPT !.kind = "password"]
     \/ \E k \in Keys :
          /\ Shown(k) /\ ~rows[k].revoked
          /\ form' = [Closed EXCEPT !.kind = "edit", !.key = k, !.rpm = rows[k].rpm]
  /\ UNCHANGED <<store, rows, config, loading, banner, revealed, unseen, net, bounds>>

\* Cancel, X or a click beside the box; they work while the form is busy too.
CloseForm ==
  /\ form.kind # "none"
  /\ form' = Closed
  /\ net' = Unmounted(net)
  /\ UNCHANGED <<store, rows, config, loading, banner, revealed, unseen, bounds>>

\* QuotaSelector: the Unlimited button, the Custom button, the number field.
Selectable(value) ==
  (IF value = 0 THEN {60} ELSE {IF n < 1 THEN 1 ELSE n : n \in Typable}) \cup {0}

EditRpm ==
  /\ form.kind \in {"create", "edit"}
  /\ \E rpm \in Selectable(form.rpm) : form' = [form EXCEPT !.rpm = rpm]
  /\ UNCHANGED <<store, rows, config, loading, banner, revealed, unseen, net, bounds>>

SubmitForm ==
  /\ form.kind # "none" /\ ~form.busy /\ UserMayAct /\ sends < MaxSends
  /\ sends' = sends + 1
  /\ form' = [form EXCEPT !.busy = TRUE]
  /\ net' = net \cup {Call(form.kind, form.key, form.rpm)}
  /\ UNCHANGED <<store, rows, config, loading, banner, revealed, unseen,
                 others, losses, reloads>>

ClickRevoke(k) ==
  /\ PageFree /\ UserMayAct /\ sends < MaxSends /\ Shown(k) /\ ~rows[k].revoked
  /\ sends' = sends + 1
  /\ net' = net \cup {Call("revoke", k, 0)}
  /\ UNCHANGED <<store, rows, config, loading, form, banner, revealed, unseen,
                 others, losses, reloads>>

CloseBanner ==
  /\ banner # 0 /\ PageFree
  /\ banner' = 0
  /\ UNCHANGED <<store, rows, config, loading, form, revealed, unseen, net, bounds>>

ReloadPage ==
  /\ reloads < MaxReloads /\ reloads' = reloads + 1
  /\ rows' = NoKeys /\ config' = 0 /\ loading' = TRUE /\ form' = Closed /\ banner' = 0
  /\ unseen' = [k \in Keys |-> 0]
  /\ net' = {[r EXCEPT !.page = FALSE, !.mounted = FALSE] :
               r \in {q \in net : q.kind # "load"}} \cup {Load}
  /\ UNCHANGED <<store, revealed, sends, others, losses>>

-----------------------------------------------------------------------------
(* The proxy *)

Answered(r, answer) == net' = (net \ {r}) \cup {answer}

\* The two calls of a load read the store at their own time, in either order.
ServeLoad(r) ==
  /\ r \in net /\ r.kind = "load" /\ r.reply \in {"none", "keys", "config"}
  /\ \/ /\ r.reply \in {"none", "config"}
        /\ Answered(r, [r EXCEPT !.list = key,
                                 !.reply = IF @ = "none" THEN "keys" ELSE "ok"])
     \/ /\ r.reply \in {"none", "keys"}
        /\ Answered(r, [r EXCEPT !.limit = rate,
                                 !.reply = IF @ = "none" THEN "config" ELSE "ok"])
  /\ UNCHANGED <<store, rows, config, loading, form, banner, revealed, unseen, bounds>>

\* GenerateKey: nothing or too much asked for gives the account's limit.
Clamped(rpm) == IF rpm = 0 \/ (rate > 0 /\ rpm > rate) THEN rate ELSE rpm

\* APIKeyRepository.Create: no limit becomes 60.
Stored(rpm) == IF rpm = 0 THEN 60 ELSE rpm

CheckCreate(r) ==
  /\ r \in net /\ r.kind = "create" /\ r.reply = "none"
  /\ Answered(r, [r EXCEPT !.reply = "checked", !.limit = r.rpm, !.rpm = Clamped(@)])
  /\ UNCHANGED <<store, rows, config, loading, form, banner, revealed, unseen, bounds>>

InsertKey(r) ==
  /\ r \in net /\ r.kind = "create" /\ r.reply = "checked"
  /\ \/ \E k \in Keys :
          /\ key[k].ver = 0 /\ \A j \in Keys : j < k => key[j].ver > 0
          /\ key' = [key EXCEPT ![k] = [ver |-> 1, rpm |-> Stored(r.rpm), revoked |-> FALSE]]
          /\ Answered(r, [r EXCEPT !.reply = "ok", !.key = k, !.ver = 1])
     \/ UNCHANGED key /\ Answered(r, [r EXCEPT !.reply = "refused"])
  /\ UNCHANGED <<rate, rows, config, loading, form, banner, revealed, unseen, bounds>>

\* UpdateKeyRateLimit takes any limit; Revoke works once.
Changed(r, old) ==
  CASE r.kind = "edit"                   -> {[old EXCEPT !.ver = @ + 1, !.rpm = r.rpm]}
    [] r.kind = "revoke" /\ ~old.revoked -> {[old EXCEPT !.ver = @ + 1, !.revoked = TRUE]}
    [] OTHER                             -> {}

ServeChange(r) ==
  /\ r \in net /\ r.kind \in {"edit", "revoke"} /\ r.reply = "none"
  /\ \/ \E new \in Changed(r, key[r.key]) :
          /\ key' = [key EXCEPT ![r.key] = new]
          /\ Answered(r, [r EXCEPT !.reply = "ok", !.ver = new.ver])
     \/ UNCHANGED key /\ Answered(r, [r EXCEPT !.reply = "refused"])
  /\ UNCHANGED <<rate, rows, config, loading, form, banner, revealed, unseen, bounds>>

\* A new password; or any form's call that is refused.
ServeOther(r) ==
  /\ r \in net /\ r.kind \in {"password", "create"} /\ r.reply = "none"
  /\ \/ r.kind = "password" /\ Answered(r, [r EXCEPT !.reply = "ok"])
     \/ Answered(r, [r EXCEPT !.reply = "refused"])
  /\ UNCHANGED <<store, rows, config, loading, form, banner, revealed, unseen, bounds>>

\* An administrator gives the account another limit, or the copy in Redis that a
\* read gets expires or is replaced by a newer or an older one.
SetAccountRate ==
  /\ others < MaxOthers /\ others' = others + 1
  /\ rate' \in AccountRates
  /\ UNCHANGED <<key, rows, config, loading, form, banner, revealed, unseen, net,
                 sends, losses, reloads>>

\* fetch rejects.
Lose(r) ==
  /\ r \in net /\ r.reply # "lost" /\ losses < MaxLosses
  /\ losses' = losses + 1
  /\ Answered(r, [r EXCEPT !.reply = "lost"])
  /\ UNCHANGED <<store, rows, config, loading, form, banner, revealed, unseen,
                 sends, others, reloads>>

-----------------------------------------------------------------------------
(* Answers arriving in the page *)

Final == {"ok", "refused", "lost"}

\* The answer to a page that is gone changes nothing.
DeliverNowhere(r) ==
  /\ r \in net /\ ~r.page /\ r.reply \in Final
  /\ net' = net \ {r}
  /\ UNCHANGED <<store, rows, config, loading, form, banner, revealed, unseen, bounds>>

\* A rejected fetch leaves `loading` set.
DeliverLoad(r) ==
  /\ r \in net /\ r.kind = "load" /\ r.reply \in {"ok", "lost"}
  /\ net' = net \ {r}
  /\ IF r.reply = "ok"
     THEN /\ rows' = r.list /\ config' = r.limit /\ loading' = FALSE
          /\ unseen' = [k \in Keys |-> IF r.list[k].ver >= unseen[k] THEN 0 ELSE unseen[k]]
     ELSE UNCHANGED <<rows, config, loading, unseen>>
  /\ UNCHANGED <<store, form, banner, revealed, bounds>>

\* What is left of the form after an error: only the password form has a
\* catch, the others are released by an answer and not by a rejected fetch.
AfterFailure(f, r) ==
  IF r.mounted /\ (r.kind = "password" \/ r.reply = "refused")
  THEN [f EXCEPT !.busy = FALSE] ELSE f

\* Faulty variants: the new key is handed to the dialog, which may be closed;
\* the answer to any form shows its key.
BannerAlways(r) == IF r.key # 0 THEN r.key ELSE banner
BannerIfOpen(r) == IF r.kind = "create" /\ r.mounted THEN r.key ELSE banner
NewBanner(r) == IF r.kind = "create" THEN r.key ELSE banner

\* Every change but that of the password reads the keys again.
Again(r) == IF r.kind = "password" THEN {} ELSE {Load}

\* handleCreateKey, handleUpdateKeyLimit, handleChangePassword close the form
\* of their kind, whichever key it is open for.
DeliverFormAnswer(r) ==
  /\ r \in net /\ r.page /\ r.kind \in Forms /\ r.reply \in Final
  /\ IF r.reply = "ok"
     THEN /\ form' = IF form.kind = r.kind THEN Closed ELSE form
          /\ net' = (IF form.kind = r.kind THEN Unmounted(net \ {r}) ELSE net \ {r})
                      \cup Again(r)
          /\ loading' = (loading \/ Again(r) # {})
          /\ banner' = NewBanner(r)
          /\ revealed' = revealed \cup ({banner'} \ {0})
          /\ unseen' = [k \in Keys |-> IF k = r.key /\ r.ver > unseen[k] THEN r.ver
                                       ELSE unseen[k]]
     ELSE /\ form' = AfterFailure(form, r)
          /\ net' = net \ {r}
          /\ UNCHANGED <<loading, banner, revealed, unseen>>
  /\ UNCHANGED <<store, rows, config, bounds>>

\* A refused revocation is not even mentioned.
DeliverRevoke(r) ==
  /\ r \in net /\ r.page /\ r.kind = "revoke" /\ r.reply \in Final
  /\ net' = (net \ {r}) \cup (IF r.reply = "ok" THEN Again(r) ELSE {})
  /\ loading' = (loading \/ (r.reply = "ok" /\ Again(r) # {}))
  /\ unseen' = IF r.reply = "ok" /\ r.ver > unseen[r.key]
               THEN [unseen EXCEPT ![r.key] = r.ver] ELSE unseen
  /\ UNCHANGED <<store, rows, config, form, banner, revealed, bounds>>

-----------------------------------------------------------------------------
Serve(r) == ServeLoad(r) \/ CheckCreate(r) \/ InsertKey(r) \/ ServeChange(r) \/ ServeOther(r)
Deliver(r) == DeliverNowhere(r) \/ DeliverLoad(r) \/ DeliverFormAnswer(r) \/ DeliverRevoke(r)

Next ==
  \/ Refresh \/ OpenForm \/ CloseForm \/ EditRpm \/ SubmitForm \/ CloseBanner
  \/ ReloadPage \/ SetAccountRate
  \/ \E k \in Keys : ClickRevoke(k)
  \/ \E r \in net : Serve(r) \/ Deliver(r) \/ Lose(r)

\* The proxy answers the calls of every kind, the browser delivers the answers.
ServeKind(kind, stage) == \E r \in net : r.kind = kind /\ r.reply = stage /\ Serve(r)
DeliverKind(kind) == \E r \in net : r.kind = kind /\ Deliver(r)
=============================================================================
