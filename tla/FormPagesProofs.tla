-------------------------- MODULE FormPagesProofs --------------------------
(***************************************************************************)
(* Proofs about the users page and the developer portal of ConsolePages,   *)
(* for any number of accounts, keys and calls in flight, and with those of *)
(* WorkersPageProofs the type invariant of all pages.                      *)
(***************************************************************************)
EXTENDS WorkersPageProofs, FiniteSetTheorems

USE NamesAssumption, ValuesAssumption, BoundsAssumption, RunsAssumption

-----------------------------------------------------------------------------
(* The users page                                                          *)

\* Calls that may still change an account.
Owing == {r \in net : r.kind # "load" /\ r.reply \in {"none", "read"}}

UsersTyped ==
  /\ acct \in [Users -> UsersShown!Account]
  /\ configs \in [Users -> SUBSET UsersShown!Config]
  /\ rows \in [Users -> UsersShown!Row]
  /\ loading \in BOOLEAN
  /\ form \in UsersShown!Form
  /\ net \in SUBSET UsersShown!Request
  /\ unseen \in [Users -> UsersShown!Versions]
  /\ sends \in 0 .. MaxSends /\ others \in 0 .. MaxOthers
  /\ losses \in 0 .. MaxLosses /\ edits \in 0 .. MaxEdits

\* What the page shows, has shown as done or is about to be told is no newer
\* than the account.
RowsAreBehind ==
  \A u \in Users : unseen[u] <= acct[u].ver /\ rows[u].ver <= acct[u].ver
CallIsBehind(r) ==
  /\ \A u \in Users : r.list[u].ver <= acct[u].ver
  /\ r.kind # "load" => r.user \in Users /\ r.ver <= acct[r.user].ver
  /\ r.reply \in {"inserted", "read"} => r.kind # "load"
CallsAreBehind == \A r \in net : CallIsBehind(r)

\* What the bounds leave room for.
RoomForChanges ==
  /\ IsFiniteSet(Owing)
  /\ \A u \in Users : acct[u].ver + Cardinality(Owing) <= 1 + sends + others

FormIsFor == form.kind # "none" => form.user \in Users
UntouchedIsShown ==
  form.kind = "limits" /\ ~form.touched /\ form.from.known =>
    form.rate = form.from.rate /\ form.gb = UsersShown!RoundGB(form.from.storage)

UsersInv ==
  /\ UsersTyped /\ RowsAreBehind /\ CallsAreBehind /\ RoomForChanges
  /\ FormIsFor /\ UntouchedIsShown

LEMMA UsersTypedByInv ==
  ASSUME UsersInv
  PROVE  UsersShown!TypeOK
BY DEF UsersInv, UsersTyped, RowsAreBehind, UsersShown!TypeOK

LEMMA AccountFacts ==
  /\ UsersShown!NoAccount \in UsersShown!Account /\ UsersShown!NoAccount.ver = 0
  /\ 0 \in UsersShown!Versions /\ UsersShown!Versions \subseteq Nat
  /\ \A a \in UsersShown!Account : a.ver \in Nat /\ a.disabled \in BOOLEAN
BY DEF UsersShown!NoAccount, UsersShown!Account, UsersShown!Versions

LEMMA RowFacts ==
  /\ UsersShown!NoRow \in UsersShown!Row /\ UsersShown!NoRow.ver = 0
  /\ \A row \in UsersShown!Row :
       /\ row.ver \in Nat /\ row.disabled \in BOOLEAN
       /\ row.rate \in Nat /\ row.storage \in Nat
BY AccountFacts DEF UsersShown!NoRow, UsersShown!Row

\* A call as the page sends it.
LEMMA NewCall ==
  ASSUME NEW kind \in UsersShown!Kinds \cup {"load", "toggle"}, NEW u \in Users \cup {NoUser}
  PROVE  LET c == UsersShown!Call(kind, u)
         IN  /\ c \in UsersShown!Request /\ c.kind = kind /\ c.user = u /\ c.ver = 0
             /\ c.reply = "none" /\ \A v \in Users : c.list[v].ver = 0
BY AccountFacts, RowFacts DEF UsersShown!Call, UsersShown!Request

LEMMA LoadCall ==
  /\ UsersShown!Load \in UsersShown!Request /\ UsersShown!Load.kind = "load"
  /\ UsersShown!Load.reply = "none"
  /\ \A v \in Users : UsersShown!Load.list[v].ver = 0
BY NewCall DEF UsersShown!Load

LEMMA SaveRequest ==
  ASSUME NEW f \in UsersShown!Form, f.kind # "none", f.user \in Users
  PROVE  LET c == UsersShown!SaveCall(f)
         IN  /\ c \in UsersShown!Request /\ c.kind # "load" /\ c.user \in Users /\ c.ver = 0
             /\ \A v \in Users : c.list[v].ver = 0
<1>1. f.kind \in UsersShown!Kinds /\ f.rate \in Nat /\ f.gb \in Nat
  BY DEF UsersShown!Form
<1>2. UsersShown!SavedStorage(f.gb) \in Nat
  BY <1>1 DEF UsersShown!SavedStorage
<1>3. f.kind # "load"
  BY <1>1 DEF UsersShown!Kinds
<1> QED BY <1>1, <1>2, <1>3, AccountFacts, RowFacts DEF UsersShown!SaveCall, UsersShown!Call, UsersShown!Request

LEMMA ToggleRequest ==
  ASSUME NEW u \in Users, NEW row \in UsersShown!Row
  PROVE  LET c == UsersShown!ToggleCall(u, row)
         IN  /\ c \in UsersShown!Request /\ c.kind # "load" /\ c.user \in Users /\ c.ver = 0
             /\ \A v \in Users : c.list[v].ver = 0
<1>1. row.disabled \in BOOLEAN
  BY RowFacts
<1> QED BY <1>1, AccountFacts, RowFacts DEF UsersShown!ToggleCall, UsersShown!Call, UsersShown!Request

-----------------------------------------------------------------------------
(* What the steps of the users page do to the calls in flight.             *)

\* Calls are dropped, and the accounts are read again.
LEMMA CallsDropped ==
  ASSUME UsersInv, net' \in SUBSET (net \cup {UsersShown!Load}), UNCHANGED <<acct, sends, others>>
  PROVE  net' \in SUBSET UsersShown!Request /\ CallsAreBehind' /\ RoomForChanges'
<1> USE DEF UsersInv
<1>1. net' \in SUBSET UsersShown!Request
  BY LoadCall DEF UsersTyped
<1>2. CallsAreBehind'
  <2> SUFFICES ASSUME NEW r \in net' PROVE CallIsBehind(r)'
    BY DEF CallsAreBehind
  <2>1. CASE r \in net
    BY <2>1 DEF CallsAreBehind, CallIsBehind
  <2>2. CASE r = UsersShown!Load
    <3>1. \A u \in Users : acct[u].ver \in Nat
      BY AccountFacts DEF UsersTyped
    <3> QED BY <2>2, <3>1, LoadCall DEF CallIsBehind
  <2> QED BY <2>1, <2>2
<1>3. RoomForChanges'
  <2>1. Owing' \in SUBSET Owing
    BY LoadCall DEF Owing
  <2>2. IsFiniteSet(Owing') /\ Cardinality(Owing') <= Cardinality(Owing)
    BY <2>1, FS_Subset DEF RoomForChanges
  <2>3. Cardinality(Owing) \in Nat /\ Cardinality(Owing') \in Nat
    BY <2>2, FS_CardinalityType DEF RoomForChanges
  <2>4. \A u \in Users : acct[u].ver \in Nat
    BY AccountFacts DEF UsersTyped
  <2>5. sends \in Nat /\ others \in Nat
    BY DEF UsersTyped
  <2> QED BY <2>2, <2>3, <2>4, <2>5 DEF RoomForChanges
<1> QED BY <1>1, <1>2, <1>3

\* A modal goes, with what its calls could still have done to it.
LEMMA CallsUnmounted ==
  ASSUME UsersInv, NEW S \in SUBSET net, UNCHANGED <<acct, sends, others>>,
         net' \in SUBSET (UsersShown!Unmounted(S) \cup {UsersShown!Load})
  PROVE  net' \in SUBSET UsersShown!Request /\ CallsAreBehind' /\ RoomForChanges'
<1> USE DEF UsersInv
<1> DEFINE After(r) == IF r.kind \in UsersShown!Kinds THEN [r EXCEPT !.mounted = FALSE] ELSE r
<1>1. ASSUME NEW r \in S
      PROVE  /\ After(r) \in UsersShown!Request
             /\ After(r).kind = r.kind /\ After(r).user = r.user /\ After(r).ver = r.ver
             /\ After(r).reply = r.reply /\ After(r).list = r.list
  <2>1. r \in UsersShown!Request
    BY <1>1 DEF UsersTyped
  <2>2. CASE r.kind \in UsersShown!Kinds
    BY <2>1, <2>2 DEF UsersShown!Request
  <2> QED BY <2>1, <2>2
<1>2. \A x \in net' : x = UsersShown!Load \/ \E r \in S : x = After(r)
  BY DEF UsersShown!Unmounted
<1> HIDE DEF After
<1>3. net' \in SUBSET UsersShown!Request
  BY <1>1, <1>2, LoadCall
<1>4. CallsAreBehind'
  <2> SUFFICES ASSUME NEW x \in net' PROVE CallIsBehind(x)'
    BY DEF CallsAreBehind
  <2>1. CASE \E r \in S : x = After(r)
    <3> PICK r \in S : x = After(r)
      BY <2>1
    <3> QED BY <1>1 DEF CallsAreBehind, CallIsBehind
  <2>2. CASE x = UsersShown!Load
    <3>1. \A u \in Users : acct[u].ver \in Nat
      BY AccountFacts DEF UsersTyped
    <3> QED BY <2>2, <3>1, LoadCall DEF CallIsBehind
  <2> QED BY <1>2, <2>1, <2>2
<1>5. RoomForChanges'
  <2> DEFINE Old == {r \in S : After(r) \in Owing'}
             f == [r \in Old |-> After(r)]
  <2>1. Old \in SUBSET Owing
    BY <1>1 DEF Owing
  <2>2. \A x \in Owing' : \E r \in Old : x = After(r)
    BY <1>2, LoadCall DEF Owing
  <2>3. f \in Surjection(Old, Owing')
    BY <2>2 DEF Surjection
  <2>4. IsFiniteSet(Old) /\ Cardinality(Old) <= Cardinality(Owing)
    BY <2>1, FS_Subset DEF RoomForChanges
  <2> HIDE DEF f, Old
  <2>5. IsFiniteSet(Owing') /\ Cardinality(Owing') <= Cardinality(Old)
    BY <2>3, <2>4, FS_Surjection
  <2>6. Cardinality(Owing) \in Nat /\ Cardinality(Old) \in Nat /\ Cardinality(Owing') \in Nat
    BY <2>4, <2>5, FS_CardinalityType DEF RoomForChanges
  <2>7. \A u \in Users : acct[u].ver \in Nat
    BY AccountFacts DEF UsersTyped
  <2>8. sends \in Nat /\ others \in Nat
    BY DEF UsersTyped
  <2> QED BY <2>4, <2>5, <2>6, <2>7, <2>8 DEF RoomForChanges
<1> QED BY <1>3, <1>4, <1>5

\* A change is sent.
LEMMA CallSent ==
  ASSUME UsersInv, NEW c \in UsersShown!Request, c.kind # "load", c.user \in Users, c.ver = 0,
         \A v \in Users : c.list[v].ver = 0,
         net' = net \cup {c}, sends' = sends + 1, UNCHANGED <<acct, others>>
  PROVE  net' \in SUBSET UsersShown!Request /\ CallsAreBehind' /\ RoomForChanges'
<1> USE DEF UsersInv
<1>1. net' \in SUBSET UsersShown!Request
  BY DEF UsersTyped
<1>2. \A u \in Users : acct[u].ver \in Nat
  BY AccountFacts DEF UsersTyped
<1>3. CallsAreBehind'
  <2> SUFFICES ASSUME NEW r \in net' PROVE CallIsBehind(r)'
    BY DEF CallsAreBehind
  <2>1. CASE r \in net
    BY <2>1 DEF CallsAreBehind, CallIsBehind
  <2>2. CASE r = c
    BY <1>2, <2>2 DEF CallIsBehind
  <2> QED BY <2>1, <2>2
<1>4. RoomForChanges'
  <2>1. Owing' \in SUBSET (Owing \cup {c})
    BY DEF Owing
  <2>2. IsFiniteSet(Owing \cup {c}) /\ Cardinality(Owing) \in Nat
        /\ Cardinality(Owing \cup {c}) <= Cardinality(Owing) + 1
    <3>1. IsFiniteSet(Owing)
      BY DEF RoomForChanges
    <3>2. Cardinality(Owing) \in Nat
      BY <3>1, FS_CardinalityType
    <3>3. /\ IsFiniteSet(Owing \cup {c})
          /\ Cardinality(Owing \cup {c})
               = IF c \in Owing THEN Cardinality(Owing) ELSE Cardinality(Owing) + 1
      BY <3>1, FS_AddElement, Zenon
    <3> QED BY <3>2, <3>3
  <2>3. IsFiniteSet(Owing') /\ Cardinality(Owing') <= Cardinality(Owing \cup {c})
    BY <2>1, <2>2, FS_Subset
  <2>4. Cardinality(Owing \cup {c}) \in Nat /\ Cardinality(Owing') \in Nat
    BY <2>2, <2>3, FS_CardinalityType
  <2>5. sends \in Nat /\ others \in Nat
    BY DEF UsersTyped
  <2> QED BY <1>2, <2>2, <2>3, <2>4, <2>5 DEF RoomForChanges
<1> QED BY <1>1, <1>3, <1>4

\* The proxy answers, or the network loses, a call.
LEMMA CallAnswered ==
  ASSUME UsersInv, NEW r \in net, NEW answer \in UsersShown!Request,
         net' = (net \ {r}) \cup {answer},
         answer.reply # "none", CallIsBehind(answer)',
         answer.reply = "read" => r \in Owing /\ acct' = acct,
         acct' \in [Users -> UsersShown!Account], \A u \in Users : acct'[u].ver >= acct[u].ver,
         \A u \in Users : acct'[u].ver = acct[u].ver
                          \/ (r \in Owing /\ acct'[u].ver = acct[u].ver + 1),
         UNCHANGED <<sends, others>>
  PROVE  net' \in SUBSET UsersShown!Request /\ CallsAreBehind' /\ RoomForChanges'
<1> USE DEF UsersInv
<1>1. net' \in SUBSET UsersShown!Request
  BY DEF UsersTyped
<1>2. \A u \in Users : acct[u].ver \in Nat /\ acct'[u].ver \in Nat
  BY AccountFacts DEF UsersTyped
<1>3. CallsAreBehind'
  <2> SUFFICES ASSUME NEW x \in net' PROVE CallIsBehind(x)'
    BY DEF CallsAreBehind
  <2>1. CASE x \in net
    <3>1. CallIsBehind(x) /\ x \in UsersShown!Request
      BY <2>1 DEF CallsAreBehind, UsersTyped
    <3>2. x.ver \in Nat /\ \A u \in Users : x.list[u].ver \in Nat
      <4>1. x.ver \in UsersShown!Versions /\ x.list \in [Users -> UsersShown!Row]
        BY <3>1 DEF UsersShown!Request
      <4> QED BY <4>1, AccountFacts, RowFacts
    <3> QED BY <1>2, <3>1, <3>2 DEF CallIsBehind
  <2>2. CASE x = answer
    BY <2>2
  <2> QED BY <2>1, <2>2
<1>4. RoomForChanges'
  <2>1. /\ IsFiniteSet(Owing \ {r}) /\ Cardinality(Owing) \in Nat
        /\ Cardinality(Owing \ {r}) = IF r \in Owing THEN Cardinality(Owing) - 1
                                                     ELSE Cardinality(Owing)
    BY FS_RemoveElement, FS_CardinalityType DEF RoomForChanges
  <2>2. sends \in Nat /\ others \in Nat
    BY DEF UsersTyped
  <2>3. CASE answer.reply # "read"
    <3>1. Owing' \in SUBSET (Owing \ {r})
      BY <2>3 DEF Owing
    <3>2. IsFiniteSet(Owing') /\ Cardinality(Owing') <= Cardinality(Owing \ {r})
      BY <2>1, <3>1, FS_Subset
    <3>3. Cardinality(Owing \ {r}) \in Nat /\ Cardinality(Owing') \in Nat
      BY <2>1, <3>2, FS_CardinalityType
    <3> QED BY <1>2, <2>1, <2>2, <3>2, <3>3 DEF RoomForChanges
  <2>4. CASE answer.reply = "read"
    <3> DEFINE Rest == Owing \ {r}
    <3>1. Owing' \in SUBSET (Rest \cup {answer})
      BY DEF Owing
    <3>2. IsFiniteSet(Rest) /\ Cardinality(Rest) = Cardinality(Owing) - 1
      BY <2>1, <2>4
    <3> HIDE DEF Rest
    <3>3. /\ IsFiniteSet(Rest \cup {answer})
          /\ Cardinality(Rest \cup {answer})
               = IF answer \in Rest THEN Cardinality(Rest) ELSE Cardinality(Rest) + 1
      BY <3>2, FS_AddElement, Zenon
    <3>4. IsFiniteSet(Owing') /\ Cardinality(Owing') <= Cardinality(Rest \cup {answer})
      BY <3>1, <3>3, FS_Subset
    <3>5. Cardinality(Rest \cup {answer}) \in Nat /\ Cardinality(Owing') \in Nat
      BY <3>3, <3>4, FS_CardinalityType
    <3>6. Cardinality(Owing') <= Cardinality(Owing)
      BY <2>1, <3>2, <3>3, <3>4, <3>5
    <3> QED BY <1>2, <2>1, <2>2, <2>4, <3>4, <3>5, <3>6 DEF RoomForChanges
  <2> QED BY <2>3, <2>4
<1> QED BY <1>1, <1>3, <1>4

-----------------------------------------------------------------------------
(* The steps of the users page.                                            *)

LEMMA ClosedForm ==
  /\ UsersShown!Closed \in UsersShown!Form
  /\ UsersShown!Closed.kind = "none" /\ UsersShown!Closed.touched = FALSE
BY RowFacts DEF UsersShown!Closed, UsersShown!Form

LEMMA RoundedIsNat ==
  ASSUME NEW storage \in Nat
  PROVE  UsersShown!RoundGB(storage) \in Nat
BY DEF UsersShown!RoundGB

\* The administrator opens a form: it is for an account, and shows its row.
LEMMA OpeningKeeps ==
  ASSUME UsersInv, NEW u \in Users,
         UsersShown!OpenCreate(u) \/ UsersShown!OpenLimits(u) \/ UsersShown!OpenReset(u)
  PROVE  UsersInv'
<1> USE DEF UsersInv
<1>1. UNCHANGED <<acct, configs, rows, loading, net, unseen, sends, others, losses, edits>>
  BY DEF UsersShown!OpenCreate, UsersShown!OpenLimits, UsersShown!OpenReset, UsersShown!bounds
<1>2. rows[u] \in UsersShown!Row /\ rows[u].rate \in Nat /\ rows[u].storage \in Nat
  BY RowFacts DEF UsersTyped
<1>3. /\ UsersShown!Limits(rows[u]).rate \in Nat /\ UsersShown!Limits(rows[u]).gb \in Nat
      /\ rows[u].known => UsersShown!Limits(rows[u]).rate = rows[u].rate
      /\ UsersShown!Limits(rows[u]).gb = UsersShown!RoundGB(rows[u].storage)
  BY <1>2, RoundedIsNat DEF UsersShown!Limits
<1>4. form' \in UsersShown!Form /\ form'.user = u
  <2> USE RowFacts DEF UsersShown!Closed, UsersShown!Form, UsersShown!Kinds
  <2>1. CASE UsersShown!OpenCreate(u)
    <3>1. form' = [kind |-> "create", user |-> u, from |-> UsersShown!NoRow, rate |-> 60,
                   gb |-> 10, busy |-> FALSE, touched |-> FALSE]
      BY <2>1 DEF UsersShown!OpenCreate
    <3>2. 60 \in Nat /\ 10 \in Nat
      OBVIOUS
    <3> QED BY <3>1, <3>2
  <2>2. CASE UsersShown!OpenLimits(u)
    BY <1>2, <1>3, <2>2 DEF UsersShown!OpenLimits
  <2>3. CASE UsersShown!OpenReset(u)
    BY <2>3 DEF UsersShown!OpenReset
  <2> QED BY <2>1, <2>2, <2>3
<1>5. form'.kind = "limits" /\ form'.from.known =>
        form'.rate = form'.from.rate /\ form'.gb = UsersShown!RoundGB(form'.from.storage)
  <2>1. CASE UsersShown!OpenLimits(u)
    <3>1. /\ form'.from = rows[u] /\ form'.rate = UsersShown!Limits(rows[u]).rate
          /\ form'.gb = UsersShown!Limits(rows[u]).gb
      BY <2>1 DEF UsersShown!OpenLimits, UsersShown!Closed
    <3> QED BY <1>3, <3>1
  <2>2. CASE UsersShown!OpenCreate(u) \/ UsersShown!OpenReset(u)
    <3>1. form'.kind # "limits"
      BY <2>2 DEF UsersShown!OpenCreate, UsersShown!OpenReset, UsersShown!Closed
    <3> QED BY <3>1
  <2> QED BY <2>1, <2>2
<1>6. UsersTyped' /\ FormIsFor' /\ UntouchedIsShown'
  BY <1>1, <1>4, <1>5 DEF UsersTyped, FormIsFor, UntouchedIsShown
<1> QED BY <1>1, <1>6 DEF RowsAreBehind, CallsAreBehind, CallIsBehind, RoomForChanges, Owing

\* An edit gives a quota a value of its field, and the form is no longer untouched.
LEMMA EditingKeeps ==
  ASSUME UsersInv, UsersShown!EditQuota \/ UsersShown!EditStorage
  PROVE  UsersInv'
<1> USE DEF UsersInv
<1>1. /\ UNCHANGED <<acct, configs, rows, loading, net, unseen, sends, others, losses>>
      /\ edits' = edits + 1 /\ edits < MaxEdits
  BY DEF UsersShown!EditQuota, UsersShown!EditStorage
<1>2. ASSUME NEW old \in Nat,
             NEW value \in {UsersShown!Unlimited(old), UsersShown!Custom(old)}
                           \cup {UsersShown!Typed(old, n) : n \in -1 .. 1}
      PROVE  value \in Nat
  BY DEF UsersShown!Unlimited, UsersShown!Custom, UsersShown!Typed, UsersShown!Max2
<1>3. form.rate \in Nat /\ form.gb \in Nat
  BY DEF UsersTyped, UsersShown!Form
<1>4. \E value \in Nat : form' \in {[form EXCEPT !.rate = value, !.touched = TRUE],
                                    [form EXCEPT !.gb = value, !.touched = TRUE]}
  BY <1>2, <1>3 DEF UsersShown!EditQuota, UsersShown!EditStorage
<1>5. form' \in UsersShown!Form /\ form'.kind = form.kind /\ form'.user = form.user /\ form'.touched
  BY <1>4 DEF UsersTyped, UsersShown!Form
<1>6. edits' \in 0 .. MaxEdits
  BY <1>1 DEF UsersTyped
<1>7. UsersTyped' /\ FormIsFor' /\ UntouchedIsShown'
  BY <1>1, <1>5, <1>6 DEF UsersTyped, FormIsFor, UntouchedIsShown
<1> QED BY <1>1, <1>7 DEF RowsAreBehind, CallsAreBehind, CallIsBehind, RoomForChanges, Owing

LEMMA ReadingKeeps ==
  ASSUME UsersInv, UsersShown!Refresh \/ UsersShown!CloseForm
  PROVE  UsersInv'
<1> USE DEF UsersInv
<1>1. /\ UNCHANGED <<acct, configs, rows, unseen, sends, others, losses, edits>>
      /\ loading' \in BOOLEAN
      /\ form' = form \/ form' = UsersShown!Closed
  BY DEF UsersShown!Refresh, UsersShown!CloseForm, UsersShown!bounds, UsersTyped
<1>2. net' \in SUBSET UsersShown!Request /\ CallsAreBehind' /\ RoomForChanges'
  <2>1. CASE UsersShown!Refresh
    BY <1>1, <2>1, CallsDropped DEF UsersShown!Refresh
  <2>2. CASE UsersShown!CloseForm
    BY <1>1, <2>2, CallsUnmounted DEF UsersShown!CloseForm
  <2> QED BY <2>1, <2>2
<1>3. UsersTyped' /\ FormIsFor' /\ UntouchedIsShown'
  BY <1>1, <1>2, ClosedForm DEF UsersTyped, FormIsFor, UntouchedIsShown
<1> QED BY <1>1, <1>2, <1>3 DEF RowsAreBehind

LEMMA SendingKeeps ==
  ASSUME UsersInv, UsersShown!SubmitForm \/ \E u \in Users : UsersShown!ToggleStatus(u)
  PROVE  UsersInv'
<1> USE DEF UsersInv
<1>1. /\ UNCHANGED <<acct, configs, rows, loading, unseen, others, losses, edits>>
      /\ sends' = sends + 1 /\ sends < MaxSends
      /\ form' = form \/ form' = [form EXCEPT !.busy = TRUE]
  BY DEF UsersShown!SubmitForm, UsersShown!ToggleStatus
<1>2. \E c \in UsersShown!Request :
        /\ c.kind # "load" /\ c.user \in Users /\ c.ver = 0
        /\ \A v \in Users : c.list[v].ver = 0
        /\ net' = net \cup {c}
  <2>1. CASE UsersShown!SubmitForm
    <3>1. PICK f : f = form
      OBVIOUS
    <3>2. f \in UsersShown!Form /\ f.kind # "none" /\ f.user \in Users
          /\ net' = net \cup {UsersShown!SaveCall(f)}
      BY <2>1, <3>1 DEF UsersShown!SubmitForm, UsersTyped, FormIsFor
    <3> QED BY <3>2, SaveRequest
  <2>2. CASE \E u \in Users : UsersShown!ToggleStatus(u)
    <3>1. PICK u \in Users : UsersShown!ToggleStatus(u)
      BY <2>2
    <3>2. PICK row : row = rows[u]
      OBVIOUS
    <3>3. row \in UsersShown!Row /\ net' = net \cup {UsersShown!ToggleCall(u, row)}
      BY <3>1, <3>2 DEF UsersShown!ToggleStatus, UsersTyped
    <3> QED BY <3>3, ToggleRequest
  <2> QED BY <1>1, <2>1, <2>2
<1>3. net' \in SUBSET UsersShown!Request /\ CallsAreBehind' /\ RoomForChanges'
  BY <1>1, <1>2, CallSent
<1>4. /\ form' \in UsersShown!Form /\ form'.kind = form.kind /\ form'.user = form.user
      /\ form'.touched = form.touched /\ form'.from = form.from
      /\ form'.rate = form.rate /\ form'.gb = form.gb
  BY <1>1 DEF UsersTyped, UsersShown!Form
<1>5. sends' \in 0 .. MaxSends
  BY <1>1 DEF UsersTyped
<1>6. UsersTyped' /\ FormIsFor' /\ UntouchedIsShown'
  BY <1>1, <1>3, <1>4, <1>5 DEF UsersTyped, FormIsFor, UntouchedIsShown
<1> QED BY <1>1, <1>3, <1>6 DEF RowsAreBehind


\* The bounds leave a version for a change that is still to be made.
LEMMA SpaceForChange ==
  ASSUME UsersInv, NEW u \in Users, Owing # {} \/ others < MaxOthers
  PROVE  acct[u].ver \in Nat /\ acct[u].ver + 1 \in UsersShown!Versions
<1> USE DEF UsersInv
<1>1. acct[u].ver \in Nat /\ sends \in 0 .. MaxSends /\ others \in 0 .. MaxOthers
  BY AccountFacts DEF UsersTyped
<1>2. IsFiniteSet(Owing) /\ acct[u].ver + Cardinality(Owing) <= 1 + sends + others
  BY DEF RoomForChanges
<1>3. Cardinality(Owing) \in Nat
  BY <1>2, FS_CardinalityType
<1>4. Owing # {} => Cardinality(Owing) # 0
  BY <1>2, FS_EmptySet
<1> QED BY <1>1, <1>2, <1>3, <1>4 DEF UsersShown!Versions

\* A row written gives an account, one version on.
LEMMA WrittenFacts ==
  ASSUME UsersInv, NEW u \in Users, NEW d \in BOOLEAN, Owing # {} \/ others < MaxOthers,
         acct' = UsersShown!Written(u, d)
  PROVE  /\ acct' \in [Users -> UsersShown!Account]
         /\ acct'[u].ver = acct[u].ver + 1 /\ acct'[u].ver \in UsersShown!Versions
         /\ \A v \in Users : v # u => acct'[v] = acct[v]
<1>1. acct[u].ver + 1 \in UsersShown!Versions
  BY SpaceForChange
<1>2. acct \in [Users -> UsersShown!Account]
  BY DEF UsersInv, UsersTyped
<1>3. PICK a : a = acct[u]
  OBVIOUS
<1>4. a \in UsersShown!Account /\ a.ver + 1 \in UsersShown!Versions
  BY <1>1, <1>2, <1>3
<1>5. PICK b : b = [ver |-> a.ver + 1, disabled |-> d, listed |-> a.listed]
  OBVIOUS
<1>6. b \in UsersShown!Account /\ b.ver = a.ver + 1
  BY <1>4, <1>5 DEF UsersShown!Account
<1>7. acct' = [acct EXCEPT ![u] = b]
  BY <1>3, <1>5 DEF UsersShown!Written
<1>8. /\ acct' \in [Users -> UsersShown!Account] /\ acct'[u] = b
      /\ \A v \in Users : v # u => acct'[v] = acct[v]
  BY <1>2, <1>6, <1>7
<1>9. b.ver = acct[u].ver + 1 /\ b.ver \in UsersShown!Versions
  BY <1>3, <1>4, <1>6
<1> QED BY <1>8, <1>9

\* Accounts only get newer: what the page has of them stays behind.
LEMMA RowsStayBehind ==
  ASSUME UsersInv, UNCHANGED <<rows, unseen>>, acct' \in [Users -> UsersShown!Account],
         \A u \in Users : acct'[u].ver >= acct[u].ver
  PROVE  RowsAreBehind'
<1>1. ASSUME NEW u \in Users
      PROVE  /\ acct[u].ver \in Nat /\ acct'[u].ver \in Nat /\ rows[u].ver \in Nat
             /\ unseen[u] \in Nat
  BY AccountFacts, RowFacts DEF UsersInv, UsersTyped, UsersShown!Versions
<1> QED BY <1>1 DEF UsersInv, RowsAreBehind

\* What an answer to r may be, and what may have become of the accounts.
AnswerFits(r, answer) ==
  /\ net' = (net \ {r}) \cup {answer}
  /\ answer.reply # "none"
  /\ answer.reply = "read" => r \in Owing /\ acct' = acct
  /\ answer.reply \in {"inserted", "read"} => answer.kind # "load"
  /\ \A u \in Users : answer.list[u].ver <= acct'[u].ver
  /\ answer.kind # "load" => answer.user \in Users /\ answer.ver <= acct'[answer.user].ver
  /\ acct' \in [Users -> UsersShown!Account]
  /\ configs' \in [Users -> SUBSET UsersShown!Config]
  /\ \A u \in Users : /\ acct'[u].ver >= acct[u].ver
                      /\ \/ acct'[u].ver = acct[u].ver
                         \/ r \in Owing /\ acct'[u].ver = acct[u].ver + 1

\* A call goes on, and is about the same account and the same list.
Continues(r, answer) ==
  /\ answer \in UsersShown!Request
  /\ answer.kind = r.kind /\ answer.user = r.user /\ answer.list = r.list
  /\ answer.reply # "none"

\* A step of a call that leaves the rows of the accounts alone.
LEMMA RowsKeptFits ==
  ASSUME UsersInv, NEW r \in net, NEW answer, Continues(r, answer),
         UsersShown!Answered(r, answer), answer.ver = r.ver,
         answer.reply = "read" => r \in Owing, answer.reply # "inserted",
         acct' = acct, configs' \in [Users -> SUBSET UsersShown!Config]
  PROVE  AnswerFits(r, answer)
<1>1. /\ CallIsBehind(r) /\ acct \in [Users -> UsersShown!Account]
      /\ \A u \in Users : acct[u].ver \in Nat
  BY AccountFacts DEF UsersInv, UsersTyped, CallsAreBehind
<1>2. answer.reply = "read" => r.kind # "load"
  BY DEF Owing
<1> QED BY <1>1, <1>2 DEF AnswerFits, Continues, CallIsBehind, UsersShown!Answered

\* A step that makes a row newer.
LEMMA RowWrittenFits ==
  ASSUME UsersInv, NEW r \in Owing, NEW answer, Continues(r, answer),
         UsersShown!Answered(r, answer), answer.ver \in {r.ver, acct'[r.user].ver},
         answer.reply # "read",
         acct' \in [Users -> UsersShown!Account], acct'[r.user].ver = acct[r.user].ver + 1,
         \A u \in Users : u # r.user => acct'[u] = acct[u],
         configs' \in [Users -> SUBSET UsersShown!Config]
  PROVE  AnswerFits(r, answer)
<1>1. r \in net /\ r.kind # "load"
  BY DEF Owing
<1>2. /\ CallIsBehind(r) /\ r.user \in Users /\ r.ver <= acct[r.user].ver
      /\ r \in UsersShown!Request
  BY <1>1 DEF UsersInv, UsersTyped, CallsAreBehind, CallIsBehind
<1>3. \A u \in Users : acct[u].ver \in Nat /\ acct'[u].ver \in Nat
  BY AccountFacts DEF UsersInv, UsersTyped
<1>4. \A u \in Users : acct'[u].ver = acct[u].ver \/ acct'[u].ver = acct[u].ver + 1
  OBVIOUS
<1>5. r.ver \in Nat /\ \A u \in Users : r.list[u].ver \in Nat
  <2>1. r.ver \in UsersShown!Versions /\ r.list \in [Users -> UsersShown!Row]
    BY <1>2 DEF UsersShown!Request
  <2> QED BY <2>1, AccountFacts, RowFacts
<1>6. \A u \in Users : answer.list[u].ver <= acct'[u].ver
  BY <1>2, <1>3, <1>4, <1>5 DEF CallIsBehind, Continues
<1>7. answer.ver <= acct'[r.user].ver
  BY <1>2, <1>3, <1>5
<1> QED BY <1>1, <1>2, <1>3, <1>4, <1>6, <1>7 DEF AnswerFits, Continues, UsersShown!Answered

\* The two halves of a load: the rows, and then what Redis has of each.
LEMMA LoadServedFits ==
  ASSUME UsersInv, NEW r \in net, UsersShown!ServeLoad(r)
  PROVE  \E answer \in UsersShown!Request : AnswerFits(r, answer)
<1> USE DEF UsersInv
<1>1. /\ r \in UsersShown!Request /\ CallIsBehind(r)
      /\ acct \in [Users -> UsersShown!Account] /\ \A u \in Users : acct[u].ver \in Nat
      /\ configs \in [Users -> SUBSET UsersShown!Config]
      /\ acct' = acct /\ configs' = configs
  BY AccountFacts DEF UsersTyped, CallsAreBehind, UsersShown!ServeLoad,
     UsersShown!ReadRows, UsersShown!ReadConfigs
<1>2. CASE UsersShown!ReadRows(r)
  <2>1. PICK list : list = [u \in Users |-> UsersShown!Listing(acct[u])]
    OBVIOUS
  <2>2. ASSUME NEW a \in UsersShown!Account
        PROVE  UsersShown!Listing(a) \in UsersShown!Row /\ UsersShown!Listing(a).ver \in {0, a.ver}
    BY AccountFacts, RowFacts DEF UsersShown!Listing, UsersShown!NoRow, UsersShown!Row,
       UsersShown!Account
  <2>3. list \in [Users -> UsersShown!Row] /\ \A u \in Users : list[u].ver <= acct[u].ver
    BY <1>1, <2>1, <2>2
  <2>4. PICK answer : answer = [r EXCEPT !.reply = "rows", !.list = list]
    OBVIOUS
  <2>5. answer \in UsersShown!Request /\ answer.reply = "rows" /\ answer.list = list
        /\ answer.kind = "load"
    BY <1>1, <1>2, <2>3, <2>4 DEF UsersShown!Request, UsersShown!ReadRows
  <2>6. net' = (net \ {r}) \cup {answer}
    BY <1>2, <2>1, <2>4 DEF UsersShown!ReadRows, UsersShown!Answered
  <2> QED BY <1>1, <2>3, <2>5, <2>6 DEF AnswerFits
<1>3. CASE UsersShown!ReadConfigs(r)
  <2>1. PICK list \in [Users -> UNION {UsersShown!Configured(u, r.list[u]) : u \in Users}] :
          /\ \A u \in Users : list[u] \in UsersShown!Configured(u, r.list[u])
          /\ UsersShown!Answered(r, [r EXCEPT !.reply = "ok", !.list = list])
    BY <1>3 DEF UsersShown!ReadConfigs
  <2>2. ASSUME NEW u \in Users, NEW row \in UsersShown!Row,
               NEW shown \in UsersShown!Configured(u, row)
        PROVE  shown \in UsersShown!Row /\ shown.ver = row.ver
    <3>1. CASE shown = row
      BY <3>1
    <3>2. CASE shown # row
      <4>1. PICK c \in configs[u] :
              shown = [row EXCEPT !.known = TRUE, !.rate = c.rate, !.storage = c.storage]
        BY <3>2 DEF UsersShown!Configured
      <4>2. c.rate \in Nat /\ c.storage \in Nat
        BY <1>1, <4>1 DEF UsersShown!Config
      <4> QED BY <4>1, <4>2 DEF UsersShown!Row
    <3> QED BY <3>1, <3>2
  <2>3. \A u \in Users : r.list[u] \in UsersShown!Row /\ r.list[u].ver <= acct[u].ver
    BY <1>1 DEF UsersShown!Request, CallIsBehind
  <2>4. \A u \in Users : list[u] \in UsersShown!Row /\ list[u].ver <= acct[u].ver
    BY <2>1, <2>2, <2>3
  <2>5. list \in [Users -> UsersShown!Row]
    BY <2>1, <2>4
  <2>6. PICK answer : answer = [r EXCEPT !.reply = "ok", !.list = list]
    OBVIOUS
  <2>7. answer \in UsersShown!Request /\ answer.reply = "ok" /\ answer.list = list
        /\ answer.kind = r.kind /\ answer.user = r.user /\ answer.ver = r.ver
    BY <1>1, <2>5, <2>6 DEF UsersShown!Request
  <2>8. net' = (net \ {r}) \cup {answer}
    BY <2>1, <2>6 DEF UsersShown!Answered
  <2> QED BY <1>1, <2>4, <2>7, <2>8 DEF AnswerFits, CallIsBehind
<1> QED BY <1>2, <1>3 DEF UsersShown!ServeLoad

LEMMA ChangeServedFits ==
  ASSUME UsersInv, NEW r \in net, UsersShown!ServeChange(r)
  PROVE  \E answer \in UsersShown!Request : AnswerFits(r, answer)
<1> USE DEF UsersInv
<1>1. /\ r \in UsersShown!Request /\ CallIsBehind(r)
      /\ acct \in [Users -> UsersShown!Account] /\ \A u \in Users : acct[u].ver \in Nat
      /\ configs \in [Users -> SUBSET UsersShown!Config]
  BY AccountFacts DEF UsersTyped, CallsAreBehind
<1>2. r.kind # "load" /\ r.user \in Users
  BY <1>1 DEF UsersShown!ServeChange, UsersShown!InsertUser, UsersShown!ConfigureUser,
     UsersShown!SaveConfig, UsersShown!SetStatus, UsersShown!ReadForReset, UsersShown!WriteReset,
     UsersShown!Refuse, CallIsBehind
<1>3. /\ r.disabled \in BOOLEAN /\ UsersShown!Sent(r) \in UsersShown!Config
      /\ [configs EXCEPT ![r.user] = @ \cup {UsersShown!Sent(r)}] \in [Users -> SUBSET UsersShown!Config]
  <2>1. r.disabled \in BOOLEAN /\ UsersShown!Sent(r) \in UsersShown!Config
    BY <1>1 DEF UsersShown!Request, UsersShown!Sent, UsersShown!Config
  <2> QED BY <1>1, <1>2, <2>1
<1>4. ASSUME NEW reply \in {"ok", "refused"},
             UsersShown!Answered(r, [r EXCEPT !.reply = reply]),
             acct' = acct, configs' \in [Users -> SUBSET UsersShown!Config]
      PROVE  \E answer \in UsersShown!Request : AnswerFits(r, answer)
  <2>1. PICK answer : answer = [r EXCEPT !.reply = reply]
    OBVIOUS
  <2>2. Continues(r, answer) /\ answer.ver = r.ver /\ answer.reply = reply
    BY <1>1, <2>1 DEF Continues, UsersShown!Request
  <2> QED BY <1>4, <2>1, <2>2, RowsKeptFits DEF Continues
<1>5. CASE UsersShown!InsertUser(r)
  <2>1. PICK listed \in BOOLEAN :
          acct' = [acct EXCEPT ![r.user] = [ver |-> 1, disabled |-> FALSE, listed |-> listed]]
    BY <1>5 DEF UsersShown!InsertUser
  <2>2. r \in Owing /\ acct[r.user].ver = 0
    BY <1>5 DEF UsersShown!InsertUser, Owing
  <2>3. 1 \in UsersShown!Versions
    BY <1>2, <2>2, SpaceForChange
  <2>4. [ver |-> 1, disabled |-> FALSE, listed |-> listed] \in UsersShown!Account
    BY <2>3 DEF UsersShown!Account
  <2>5. /\ acct' \in [Users -> UsersShown!Account] /\ acct'[r.user].ver = 1
        /\ \A u \in Users : u # r.user => acct'[u] = acct[u]
    BY <1>1, <1>2, <2>1, <2>4
  <2>6. configs' \in [Users -> SUBSET UsersShown!Config]
    <3>1. UsersShown!DefaultConfig \in UsersShown!Config
      BY DEF UsersShown!DefaultConfig, UsersShown!Config
    <3> QED BY <1>1, <1>5, <3>1 DEF UsersShown!InsertUser
  <2>7. PICK answer : answer = [r EXCEPT !.reply = "inserted", !.ver = 1]
    OBVIOUS
  <2>8. Continues(r, answer) /\ answer.ver = 1 /\ answer.reply = "inserted"
    BY <1>1, <2>3, <2>7 DEF Continues, UsersShown!Request
  <2>9. UsersShown!Answered(r, answer)
    BY <1>5, <2>7 DEF UsersShown!InsertUser
  <2> QED BY <2>2, <2>5, <2>6, <2>8, <2>9, RowWrittenFits DEF Continues
<1>6. CASE UsersShown!SetStatus(r)
  <2>1. r \in Owing /\ acct' = UsersShown!Written(r.user, r.disabled) /\ configs' = configs
    BY <1>6 DEF UsersShown!SetStatus, Owing
  <2>2. /\ acct' \in [Users -> UsersShown!Account]
        /\ acct'[r.user].ver = acct[r.user].ver + 1 /\ acct'[r.user].ver \in UsersShown!Versions
        /\ \A u \in Users : u # r.user => acct'[u] = acct[u]
    BY <1>2, <1>3, <2>1, WrittenFacts
  <2>3. PICK ver : ver = acct[r.user].ver + 1
    OBVIOUS
  <2>4. PICK answer : answer = [r EXCEPT !.reply = "ok", !.ver = ver]
    OBVIOUS
  <2>5. Continues(r, answer) /\ answer.ver = ver /\ answer.reply = "ok"
    BY <1>1, <2>2, <2>3, <2>4 DEF Continues, UsersShown!Request
  <2>6. UsersShown!Answered(r, answer)
    BY <1>6, <2>3, <2>4 DEF UsersShown!SetStatus
  <2> QED BY <1>1, <2>1, <2>2, <2>3, <2>5, <2>6, RowWrittenFits DEF Continues
<1>7. CASE UsersShown!WriteReset(r)
  <2>1. r \in Owing /\ acct' = UsersShown!Written(r.user, r.disabled) /\ configs' = configs
    BY <1>2, <1>7 DEF UsersShown!WriteReset, Owing
  <2>2. /\ acct' \in [Users -> UsersShown!Account]
        /\ acct'[r.user].ver = acct[r.user].ver + 1
        /\ \A u \in Users : u # r.user => acct'[u] = acct[u]
    BY <1>2, <1>3, <2>1, WrittenFacts
  <2>3. PICK answer : answer = [r EXCEPT !.reply = "ok"]
    OBVIOUS
  <2>4. Continues(r, answer) /\ answer.ver = r.ver /\ answer.reply = "ok"
    BY <1>1, <2>3 DEF Continues, UsersShown!Request
  <2>5. UsersShown!Answered(r, answer)
    BY <1>7, <2>3 DEF UsersShown!WriteReset
  <2> QED BY <1>1, <2>1, <2>2, <2>4, <2>5, RowWrittenFits DEF Continues
<1>8. CASE UsersShown!ReadForReset(r)
  <2>1. PICK d : d = acct[r.user].disabled
    OBVIOUS
  <2>2. d \in BOOLEAN /\ r \in Owing /\ acct' = acct /\ configs' = configs
    BY <1>1, <1>2, <1>8, <2>1, AccountFacts DEF UsersShown!ReadForReset, Owing
  <2>3. PICK answer : answer = [r EXCEPT !.reply = "read", !.disabled = d]
    OBVIOUS
  <2>4. Continues(r, answer) /\ answer.ver = r.ver /\ answer.reply = "read"
    BY <1>1, <2>2, <2>3 DEF Continues, UsersShown!Request
  <2>5. UsersShown!Answered(r, answer)
    BY <1>8, <2>1, <2>3 DEF UsersShown!ReadForReset
  <2> QED BY <1>1, <2>2, <2>4, <2>5, RowsKeptFits DEF Continues
<1>9. CASE UsersShown!ConfigureUser(r) \/ UsersShown!SaveConfig(r) \/ UsersShown!Refuse(r)
  <2>1. /\ acct' = acct
        /\ configs' \in {configs, [configs EXCEPT ![r.user] = @ \cup {UsersShown!Sent(r)}]}
    BY <1>9 DEF UsersShown!ConfigureUser, UsersShown!SaveConfig, UsersShown!Refuse
  <2>2. \E reply \in {"ok", "refused"} : UsersShown!Answered(r, [r EXCEPT !.reply = reply])
    BY <1>9 DEF UsersShown!ConfigureUser, UsersShown!SaveConfig, UsersShown!Refuse
  <2> QED BY <1>1, <1>3, <1>4, <2>1, <2>2
<1> QED BY <1>5, <1>6, <1>7, <1>8, <1>9 DEF UsersShown!ServeChange

LEMMA LosingFits ==
  ASSUME UsersInv, NEW r \in net, UsersShown!Lose(r)
  PROVE  \E answer \in UsersShown!Request : AnswerFits(r, answer)
<1>1. r \in UsersShown!Request /\ configs' \in [Users -> SUBSET UsersShown!Config] /\ acct' = acct
  BY DEF UsersInv, UsersTyped, UsersShown!Lose
<1>2. PICK reply \in {"lost", "refused"} : UsersShown!Answered(r, [r EXCEPT !.reply = reply])
  BY DEF UsersShown!Lose
<1>3. PICK answer : answer = [r EXCEPT !.reply = reply]
  OBVIOUS
<1>4. Continues(r, answer) /\ answer.ver = r.ver /\ answer.reply = reply
  BY <1>1, <1>3 DEF Continues, UsersShown!Request
<1> QED BY <1>1, <1>2, <1>3, <1>4, RowsKeptFits DEF Continues

LEMMA ServingKeeps ==
  ASSUME UsersInv, NEW r \in net, UsersShown!Serve(r) \/ UsersShown!Lose(r)
  PROVE  UsersInv'
<1> USE DEF UsersInv
<1>1. /\ UNCHANGED <<rows, loading, form, unseen, sends, others, edits>>
      /\ losses' \in 0 .. MaxLosses
  <2>1. losses \in 0 .. MaxLosses
    BY DEF UsersTyped
  <2>2. CASE UsersShown!Serve(r)
    BY <2>1, <2>2 DEF UsersShown!Serve, UsersShown!ServeLoad, UsersShown!ServeChange,
       UsersShown!ReadRows, UsersShown!ReadConfigs, UsersShown!InsertUser,
       UsersShown!ConfigureUser, UsersShown!SaveConfig, UsersShown!SetStatus,
       UsersShown!ReadForReset, UsersShown!WriteReset, UsersShown!Refuse, UsersShown!bounds
  <2>3. CASE UsersShown!Lose(r)
    <3>1. losses' = losses + 1 /\ losses < MaxLosses
          /\ UNCHANGED <<rows, loading, form, unseen, sends, others, edits>>
      BY <2>3 DEF UsersShown!Lose
    <3> QED BY <2>1, <3>1
  <2> QED BY <2>2, <2>3
<1>2. PICK answer \in UsersShown!Request : AnswerFits(r, answer)
  BY LoadServedFits, ChangeServedFits, LosingFits DEF UsersShown!Serve
<1>3. /\ net' = (net \ {r}) \cup {answer} /\ answer.reply # "none" /\ CallIsBehind(answer)'
      /\ answer.reply = "read" => r \in Owing /\ acct' = acct
      /\ configs' \in [Users -> SUBSET UsersShown!Config]
      /\ acct' \in [Users -> UsersShown!Account] /\ \A u \in Users : acct'[u].ver >= acct[u].ver
  BY <1>2 DEF AnswerFits, CallIsBehind
<1>4. net' \in SUBSET UsersShown!Request /\ CallsAreBehind' /\ RoomForChanges'
  <2>1. \A u \in Users : acct'[u].ver = acct[u].ver
                         \/ (r \in Owing /\ acct'[u].ver = acct[u].ver + 1)
    BY <1>2 DEF AnswerFits
  <2> QED BY <1>1, <1>3, <2>1, CallAnswered
<1>5. UsersTyped' /\ FormIsFor' /\ UntouchedIsShown'
  BY <1>1, <1>3, <1>4 DEF UsersTyped, FormIsFor, UntouchedIsShown
<1>6. RowsAreBehind'
  BY <1>1, <1>3, RowsStayBehind
<1> QED BY <1>4, <1>5, <1>6

LEMMA OtherAdminKeeps ==
  ASSUME UsersInv, NEW u \in Users, UsersShown!OtherAdmin(u)
  PROVE  UsersInv'
<1> USE DEF UsersInv
<1>1. /\ UNCHANGED <<rows, loading, form, net, unseen, sends, losses, edits>>
      /\ others < MaxOthers /\ others' = others + 1
  BY DEF UsersShown!OtherAdmin
<1>2. PICK d \in BOOLEAN, gb \in {0, 1} :
        \/ acct' = UsersShown!Written(u, d) /\ configs' = configs
        \/ /\ acct' = acct
           /\ configs' = [configs EXCEPT ![u] =
                           @ \cup {[rate |-> 60, storage |-> UsersShown!SavedStorage(gb)]}]
  BY DEF UsersShown!OtherAdmin
<1>3. [rate |-> 60, storage |-> UsersShown!SavedStorage(gb)] \in UsersShown!Config
  BY DEF UsersShown!SavedStorage, UsersShown!Config
<1>4. configs' \in [Users -> SUBSET UsersShown!Config]
  BY <1>2, <1>3 DEF UsersTyped
<1>5. \A v \in Users : acct[v].ver \in Nat
  BY AccountFacts DEF UsersTyped
<1>6. acct \in [Users -> UsersShown!Account]
  BY DEF UsersTyped
<1>7. acct' \in [Users -> UsersShown!Account]
      /\ \A v \in Users : acct'[v].ver = acct[v].ver \/ acct'[v].ver = acct[v].ver + 1
  <2>1. CASE acct' = UsersShown!Written(u, d)
    BY <1>1, <2>1, WrittenFacts
  <2>2. CASE acct' = acct
    BY <1>6, <2>2
  <2> QED BY <1>2, <2>1, <2>2
<1>8. UsersTyped' /\ FormIsFor' /\ UntouchedIsShown'
  BY <1>1, <1>4, <1>7 DEF UsersTyped, FormIsFor, UntouchedIsShown
<1>9. RowsAreBehind'
  BY <1>1, <1>5, <1>7, RowsStayBehind
<1>10. CallsAreBehind'
  <2> SUFFICES ASSUME NEW x \in net PROVE CallIsBehind(x)'
    BY <1>1 DEF CallsAreBehind
  <2>1. CallIsBehind(x) /\ x \in UsersShown!Request
    BY DEF CallsAreBehind, UsersTyped
  <2>2. x.ver \in Nat /\ \A v \in Users : x.list[v].ver \in Nat
    <3>1. x.ver \in UsersShown!Versions /\ x.list \in [Users -> UsersShown!Row]
      BY <2>1 DEF UsersShown!Request
    <3> QED BY <3>1, AccountFacts, RowFacts
  <2> QED BY <1>5, <1>7, <2>1, <2>2 DEF CallIsBehind
<1>11. RoomForChanges'
  <2>1. Owing' = Owing
    BY <1>1 DEF Owing
  <2>2. IsFiniteSet(Owing) /\ Cardinality(Owing) \in Nat
    BY FS_CardinalityType DEF RoomForChanges
  <2>3. sends \in Nat /\ others \in Nat
    BY DEF UsersTyped
  <2> QED BY <1>1, <1>5, <1>7, <2>1, <2>2, <2>3 DEF RoomForChanges
<1> QED BY <1>8, <1>9, <1>10, <1>11

\* A version reported as done is one the account has had.
LEMMA ReportIsBehind ==
  ASSUME UsersInv, NEW r \in net, r.kind # "load", UNCHANGED <<acct, rows>>,
         unseen' = [unseen EXCEPT ![r.user] = UsersShown!Max2(@, r.ver)] \/ unseen' = unseen
  PROVE  unseen' \in [Users -> UsersShown!Versions] /\ RowsAreBehind'
<1> USE DEF UsersInv
<1>1. r.ver \in UsersShown!Versions /\ r.user \in Users /\ r.ver <= acct[r.user].ver
  BY DEF UsersTyped, CallsAreBehind, CallIsBehind, UsersShown!Request
<1>2. unseen \in [Users -> UsersShown!Versions]
  BY DEF UsersTyped
<1>3. UsersShown!Max2(unseen[r.user], r.ver) \in {unseen[r.user], r.ver}
  BY DEF UsersShown!Max2
<1>4. unseen' \in [Users -> UsersShown!Versions]
  BY <1>1, <1>2, <1>3
<1>5. \A u \in Users : unseen'[u] = unseen[u] \/ (u = r.user /\ unseen'[u] = r.ver)
  BY <1>1, <1>2, <1>3
<1> QED BY <1>1, <1>4, <1>5 DEF RowsAreBehind

LEMMA LoadArrives ==
  ASSUME UsersInv, NEW r \in net, UsersShown!DeliverLoad(r)
  PROVE  UsersInv'
<1> USE DEF UsersInv
<1>1. /\ UNCHANGED <<acct, configs, form, sends, others, losses, edits>>
      /\ net' = net \ {r} /\ loading' \in BOOLEAN /\ rows' \in {rows, r.list}
      /\ unseen' = [u \in Users |-> IF rows'[u].ver >= unseen[u] THEN 0 ELSE unseen[u]]
  BY DEF UsersShown!DeliverLoad, UsersShown!bounds, UsersTyped
<1>2. r \in UsersShown!Request /\ CallIsBehind(r)
  BY DEF UsersTyped, CallsAreBehind
<1>3. net' \in SUBSET UsersShown!Request /\ CallsAreBehind' /\ RoomForChanges'
  BY <1>1, CallsDropped
<1>4. rows' \in [Users -> UsersShown!Row]
  BY <1>1, <1>2 DEF UsersTyped, UsersShown!Request
<1>5. unseen' \in [Users -> UsersShown!Versions]
  BY <1>1, AccountFacts DEF UsersTyped
<1>6. UsersTyped' /\ FormIsFor' /\ UntouchedIsShown'
  BY <1>1, <1>3, <1>4, <1>5 DEF UsersTyped, FormIsFor, UntouchedIsShown
<1>7. RowsAreBehind'
  <2>1. \A u \in Users : acct[u].ver \in Nat
    BY AccountFacts DEF UsersTyped
  <2>2. \A u \in Users : rows'[u].ver <= acct[u].ver
    BY <1>1, <1>2 DEF RowsAreBehind, CallIsBehind
  <2>3. \A u \in Users : unseen'[u] <= acct[u].ver
    BY <1>1, <2>1 DEF RowsAreBehind
  <2> QED BY <1>1, <2>2, <2>3 DEF RowsAreBehind
<1> QED BY <1>3, <1>6, <1>7

LEMMA FormAnswerArrives ==
  ASSUME UsersInv, NEW r \in net, UsersShown!DeliverFormAnswer(r)
  PROVE  UsersInv'
<1> USE DEF UsersInv
<1>1. /\ UNCHANGED <<acct, configs, rows, sends, others, losses, edits>>
      /\ r.kind \in UsersShown!Kinds /\ r.kind # "load"
  BY DEF UsersShown!DeliverFormAnswer, UsersShown!bounds, UsersShown!Kinds
<1>2. loading' \in BOOLEAN
  BY DEF UsersShown!DeliverFormAnswer, UsersTyped
<1>3. net' \in SUBSET (UsersShown!Unmounted(net \ {r}) \cup {UsersShown!Load})
      \/ net' \in SUBSET (net \cup {UsersShown!Load})
  BY DEF UsersShown!DeliverFormAnswer, UsersShown!Reload
<1>4. net' \in SUBSET UsersShown!Request /\ CallsAreBehind' /\ RoomForChanges'
  BY <1>1, <1>3, CallsDropped, CallsUnmounted
<1>5. unseen' = [unseen EXCEPT ![r.user] = UsersShown!Max2(@, r.ver)] \/ unseen' = unseen
  <2>1. unseen = [unseen EXCEPT ![r.user] = @]
    BY DEF UsersTyped
  <2> QED BY <2>1 DEF UsersShown!DeliverFormAnswer
<1>6. unseen' \in [Users -> UsersShown!Versions] /\ RowsAreBehind'
  BY <1>1, <1>5, ReportIsBehind
<1>7. form' \in {form, UsersShown!Closed, [form EXCEPT !.busy = FALSE]}
  BY DEF UsersShown!DeliverFormAnswer, UsersShown!AfterFailure
<1>8. form' \in UsersShown!Form /\ FormIsFor' /\ UntouchedIsShown'
  <2>1. CASE form' = UsersShown!Closed
    BY <2>1, ClosedForm DEF FormIsFor, UntouchedIsShown
  <2>2. CASE form' = form \/ form' = [form EXCEPT !.busy = FALSE]
    <3>1. /\ form' \in UsersShown!Form /\ form'.kind = form.kind /\ form'.user = form.user
          /\ form'.touched = form.touched /\ form'.from = form.from
          /\ form'.rate = form.rate /\ form'.gb = form.gb
      BY <2>2 DEF UsersTyped, UsersShown!Form
    <3> QED BY <3>1 DEF FormIsFor, UntouchedIsShown
  <2> QED BY <1>7, <2>1, <2>2
<1>9. UsersTyped'
  BY <1>1, <1>2, <1>4, <1>6, <1>8 DEF UsersTyped
<1> QED BY <1>4, <1>6, <1>8, <1>9

LEMMA ToggleAnswerArrives ==
  ASSUME UsersInv, NEW r \in net, UsersShown!DeliverToggle(r)
  PROVE  UsersInv'
<1> USE DEF UsersInv
<1>1. UNCHANGED <<acct, configs, rows, form, sends, others, losses, edits>> /\ r.kind # "load"
  BY DEF UsersShown!DeliverToggle, UsersShown!bounds
<1>2. loading' \in BOOLEAN
  BY DEF UsersShown!DeliverToggle, UsersTyped
<1>3. net' \in SUBSET (net \cup {UsersShown!Load})
  BY DEF UsersShown!DeliverToggle, UsersShown!Reload
<1>4. net' \in SUBSET UsersShown!Request /\ CallsAreBehind' /\ RoomForChanges'
  BY <1>1, <1>3, CallsDropped
<1>5. unseen' \in [Users -> UsersShown!Versions] /\ RowsAreBehind'
  BY <1>1, ReportIsBehind DEF UsersShown!DeliverToggle
<1>6. UsersTyped' /\ FormIsFor' /\ UntouchedIsShown'
  BY <1>1, <1>2, <1>4, <1>5 DEF UsersTyped, FormIsFor, UntouchedIsShown
<1> QED BY <1>4, <1>5, <1>6

LEMMA UsersStep ==
  ASSUME UsersInv, UsersShown!Next
  PROVE  UsersInv'
<1>1. CASE \E u \in Users : UsersShown!OpenCreate(u) \/ UsersShown!OpenLimits(u) \/ UsersShown!OpenReset(u)
  BY <1>1, OpeningKeeps
<1>2. CASE UsersShown!EditQuota \/ UsersShown!EditStorage
  BY <1>2, EditingKeeps
<1>3. CASE UsersShown!Refresh \/ UsersShown!CloseForm
  BY <1>3, ReadingKeeps
<1>4. CASE UsersShown!SubmitForm \/ \E u \in Users : UsersShown!ToggleStatus(u)
  BY <1>4, SendingKeeps
<1>5. CASE \E u \in Users : UsersShown!OtherAdmin(u)
  BY <1>5, OtherAdminKeeps
<1>6. CASE \E r \in net : UsersShown!Serve(r) \/ UsersShown!Lose(r)
  BY <1>6, ServingKeeps
<1>7. CASE \E r \in net : UsersShown!Deliver(r)
  BY <1>7, LoadArrives, FormAnswerArrives, ToggleAnswerArrives DEF UsersShown!Deliver, UsersShown!DeliverAnswer
<1> QED BY <1>1, <1>2, <1>3, <1>4, <1>5, <1>6, <1>7 DEF UsersShown!Next

LEMMA UsersStart ==
  ASSUME UsersShown!Init
  PROVE  UsersInv
<1>1. acct \in [Users -> UsersShown!Account] /\ \A u \in Users : acct[u].ver \in {0, 1}
  <2>1. acct \in [Users -> [ver : {0, 1}, disabled : {FALSE}, listed : BOOLEAN]]
    BY DEF UsersShown!Init
  <2>2. {0, 1} \subseteq UsersShown!Versions
    BY DEF UsersShown!Versions
  <2>3. [ver : {0, 1}, disabled : {FALSE}, listed : BOOLEAN] \subseteq UsersShown!Account
    BY <2>2 DEF UsersShown!Account
  <2> QED BY <2>1, <2>3
<1>c. configs \in [Users -> SUBSET UsersShown!Config]
  <2>1. configs \in [Users -> SUBSET [rate : {0, 60}, storage : InitialStorage \cup {0}]]
    BY DEF UsersShown!Init
  <2>2. [rate : {0, 60}, storage : InitialStorage \cup {0}] \subseteq UsersShown!Config
    <3>1. {0, 60} \subseteq Nat /\ InitialStorage \cup {0} \subseteq Nat
      OBVIOUS
    <3> QED BY <3>1, Zenon DEF UsersShown!Config
  <2> QED BY <2>1, <2>2
<1>2. /\ rows = [u \in Users |-> UsersShown!NoRow] /\ loading = TRUE
      /\ form = UsersShown!Closed /\ net = {UsersShown!Load} /\ unseen = [u \in Users |-> 0]
      /\ sends = 0 /\ others = 0 /\ losses = 0 /\ edits = 0
  BY DEF UsersShown!Init
<1>3. UsersTyped
  <2>1. 0 \in 0 .. MaxSends /\ 0 \in 0 .. MaxOthers /\ 0 \in 0 .. MaxLosses /\ 0 \in 0 .. MaxEdits
    OBVIOUS
  <2> QED BY <1>1, <1>2, <1>c, <2>1, AccountFacts, RowFacts, LoadCall, ClosedForm DEF UsersTyped
<1>4. RowsAreBehind /\ CallsAreBehind
  BY <1>1, <1>2, AccountFacts, RowFacts, LoadCall DEF RowsAreBehind, CallsAreBehind, CallIsBehind
<1>5. RoomForChanges
  <2>1. Owing = {}
    BY <1>2, LoadCall DEF Owing
  <2>2. IsFiniteSet(Owing) /\ Cardinality(Owing) = 0
    BY <2>1, FS_EmptySet
  <2> QED BY <1>1, <1>2, <2>2 DEF RoomForChanges
<1>6. FormIsFor /\ UntouchedIsShown
  BY <1>2, ClosedForm DEF FormIsFor, UntouchedIsShown
<1> QED BY <1>3, <1>4, <1>5, <1>6 DEF UsersInv

\* On the users page, whatever order the calls are answered in: the table, the
\* changes reported as done and the answers on their way are never newer than
\* the account, and an untouched limits form shows the row it was opened on
\* (AdminUsersListPage and its modals in main.tsx).
THEOREM UsersInvariance == Spec => [](view = "users" => UsersInv)
<1>1. Init => (view = "users" => UsersInv)
  BY UsersStart DEF Init
<1>2. (view = "users" => UsersInv) /\ [Next]_vars => (view = "users" => UsersInv)'
  <2> SUFFICES ASSUME view = "users" => UsersInv, [Next]_vars, view' = "users"
               PROVE  UsersInv'
    OBVIOUS
  <2>1. CASE UNCHANGED vars
    BY <2>1 DEF vars, common, ofForms, ofUsers, UsersInv, UsersTyped, RowsAreBehind,
                CallsAreBehind, CallIsBehind, RoomForChanges, Owing, FormIsFor, UntouchedIsShown
  <2>2. CASE OnUsers /\ UsersShown!Next
    BY <2>2, UsersStep DEF OnUsers
  <2> QED BY <2>1, <2>2 DEF Next, OnPortal, OnWorkers
<1> QED BY <1>1, <1>2, PTL DEF Spec

\* Saving the limits form of an account as it was opened keeps both quotas of
\* the row, zero included, when the row came with them and the storage quota is a whole number of GiB: nothing on
\* the way from the row through Math.round and back loses it.
THEOREM UntouchedSaves == Spec => []UntouchedSaveIsNeutral
<1>1. (view = "users" => UsersInv) => UntouchedSaveIsNeutral
  <2> SUFFICES ASSUME UsersInv, form.kind = "limits", ~form.touched, form.from.known,
                      form.from.storage % 4 = 0
               PROVE  /\ UsersShown!SaveCall(form).rate = form.from.rate
                      /\ UsersShown!SaveCall(form).storage = form.from.storage
    BY DEF UntouchedSaveIsNeutral
  <2>1. form.rate = form.from.rate /\ form.gb = UsersShown!RoundGB(form.from.storage)
    BY DEF UsersInv, UntouchedIsShown
  <2>2. form.from.storage \in Nat
    BY RowFacts DEF UsersInv, UsersTyped, UsersShown!Form
  <2>3. ASSUME NEW s \in Nat, s % 4 = 0
        PROVE  UsersShown!SavedStorage(UsersShown!RoundGB(s)) = s
    BY <2>3 DEF UsersShown!SavedStorage, UsersShown!RoundGB
  <2> QED BY <2>1, <2>2, <2>3 DEF UsersShown!SaveCall, UsersShown!Call
<1> QED BY <1>1, UsersInvariance, PTL

-----------------------------------------------------------------------------
(* The developer portal                                                    *)

\* Calls that may still change a key, and answers with the secret of a new one.
MayChange(r) == r.kind \in {"create", "edit", "revoke"} /\ r.reply \in {"none", "checked"}
Changing == {r \in net : MayChange(r)}
HasSecret(r) == r.kind = "create" /\ r.reply = "ok"

PortalTyped ==
  /\ key \in [Portal!Keys -> Portal!ApiKey] /\ rows \in [Portal!Keys -> Portal!ApiKey]
  /\ rate \in AccountRates /\ config \in AccountRates \cup {0}
  /\ loading \in BOOLEAN /\ form \in Portal!Form
  /\ unseen \in [Portal!Keys -> 0 .. 1 + MaxSends]
  /\ net \in SUBSET Portal!Request
  /\ sends \in 0 .. MaxSends /\ others \in 0 .. MaxOthers
  /\ losses \in 0 .. MaxLosses /\ reloads \in 0 .. MaxReloads

\* What the page shows, has shown as done or is about to be told is no newer
\* than the key.
KeysAreBehind ==
  \A k \in Portal!Keys : unseen[k] <= key[k].ver /\ rows[k].ver <= key[k].ver
KeyCallFits(r) ==
  /\ \A k \in Portal!Keys : r.list[k].ver <= key[k].ver
  /\ r.key \in Portal!Keys => r.ver <= key[r.key].ver
  /\ r.kind \in {"edit", "revoke"} => r.key \in Portal!Keys
  /\ r.kind = "load" => r.limit \in AccountRates \cup {0}
KeyCallsFit == \A r \in net : KeyCallFits(r)
EditIsForKey == form.kind = "edit" => form.key \in Portal!Keys

RoomForKeys ==
  /\ IsFiniteSet(Changing)
  /\ \A k \in Portal!Keys : key[k].ver + Cardinality(Changing) <= 1 + sends

\* A secret on its way has not been on the screen and is on its way once.
SecretsUnread ==
  /\ \A r \in net : HasSecret(r) =>
       r.key \in Portal!Keys /\ key[r.key].ver > 0 /\ r.key \notin revealed
  /\ \A r, q \in net : HasSecret(r) /\ HasSecret(q) /\ r.key = q.key => r = q
SecretsRevealed ==
  /\ banner \in {0} \cup revealed
  /\ revealed \subseteq {k \in Portal!Keys : key[k].ver > 0}

PortalInv ==
  /\ PortalTyped /\ KeysAreBehind /\ KeyCallsFit /\ EditIsForKey /\ RoomForKeys
  /\ SecretsUnread /\ SecretsRevealed

LEMMA PortalTypedByInv ==
  ASSUME PortalInv
  PROVE  Portal!TypeOK
BY DEF PortalInv, PortalTyped, KeysAreBehind, SecretsRevealed, Portal!TypeOK

LEMMA KeyFacts ==
  /\ Portal!NoKey \in Portal!ApiKey /\ Portal!NoKey.ver = 0
  /\ Portal!NoKeys \in [Portal!Keys -> Portal!ApiKey]
  /\ \A k \in Portal!Keys : Portal!NoKeys[k].ver = 0
  /\ \A a \in Portal!ApiKey : a.ver \in Nat /\ a.rpm \in Nat
  /\ 0 \notin Portal!Keys /\ Portal!Keys \subseteq 0 .. MaxKeys
<1>1. 0 \in 0 .. 1 + MaxSends
  OBVIOUS
<1> QED BY <1>1 DEF Portal!NoKey, Portal!NoKeys, Portal!ApiKey, Portal!Keys

LEMMA KeyCall ==
  ASSUME NEW kind \in Portal!Forms \cup {"load", "revoke"}, NEW k \in 0 .. MaxKeys, NEW rpm \in Nat
  PROVE  LET c == Portal!Call(kind, k, rpm)
         IN  /\ c \in Portal!Request /\ c.kind = kind /\ c.key = k /\ c.ver = 0
             /\ c.reply = "none" /\ c.limit = 0 /\ \A j \in Portal!Keys : c.list[j].ver = 0
<1>1. 0 \in 0 .. 1 + MaxSends
  OBVIOUS
<1> QED BY <1>1, KeyFacts DEF Portal!Call, Portal!Request

LEMMA KeysLoad ==
  /\ Portal!Load \in Portal!Request /\ Portal!Load.kind = "load" /\ Portal!Load.key = 0
  /\ Portal!Load.ver = 0 /\ Portal!Load.limit = 0 /\ \A j \in Portal!Keys : Portal!Load.list[j].ver = 0
BY KeyCall DEF Portal!Load

\* Calls are dropped or lose the page or the modal that sent them, and the keys
\* are read again; f is what becomes of the calls S that stay.
LEMMA KeyCallsKept ==
  ASSUME PortalInv, NEW S \in SUBSET net, NEW f \in [S -> Portal!Request],
         \A r \in S : /\ f[r].kind = r.kind /\ f[r].key = r.key /\ f[r].reply = r.reply
                      /\ f[r].ver = r.ver /\ f[r].list = r.list /\ f[r].limit = r.limit,
         net' \in SUBSET ({f[r] : r \in S} \cup {Portal!Load}), UNCHANGED <<key, sends>>,
         \A r \in S : HasSecret(r) => r.key \notin revealed'
  PROVE  net' \in SUBSET Portal!Request /\ KeyCallsFit' /\ RoomForKeys' /\ SecretsUnread'
<1> USE DEF PortalInv
<1>1. net' \in SUBSET Portal!Request
  BY KeysLoad
<1>2. \A k \in Portal!Keys : key[k].ver \in Nat
  BY KeyFacts DEF PortalTyped
<1>3. KeyCallsFit'
  <2> SUFFICES ASSUME NEW x \in net' PROVE KeyCallFits(x)'
    BY DEF KeyCallsFit
  <2>1. CASE \E r \in S : x = f[r]
    BY <2>1 DEF KeyCallsFit, KeyCallFits
  <2>2. CASE x = Portal!Load
    BY <1>2, <2>2, KeysLoad, KeyFacts DEF KeyCallFits
  <2> QED BY <2>1, <2>2
<1>4. SecretsUnread'
  <2>1. \A x \in net' : HasSecret(x) => \E r \in S : HasSecret(r) /\ x = f[r] /\ x.key = r.key
    BY KeysLoad DEF HasSecret
  <2> QED BY <2>1 DEF SecretsUnread
<1>5. RoomForKeys'
  <2> DEFINE Old == {r \in S : f[r] \in Changing'}
             g == [r \in Old |-> f[r]]
  <2>1. Old \in SUBSET Changing
    BY DEF Changing, MayChange
  <2>2. \A x \in Changing' : \E r \in Old : x = f[r]
    BY KeysLoad DEF Changing, MayChange
  <2>3. g \in Surjection(Old, Changing')
    BY <2>2 DEF Surjection
  <2>4. IsFiniteSet(Old) /\ Cardinality(Old) <= Cardinality(Changing)
    BY <2>1, FS_Subset DEF RoomForKeys
  <2> HIDE DEF g, Old
  <2>5. IsFiniteSet(Changing') /\ Cardinality(Changing') <= Cardinality(Old)
    BY <2>3, <2>4, FS_Surjection
  <2>6. Cardinality(Changing) \in Nat /\ Cardinality(Old) \in Nat /\ Cardinality(Changing') \in Nat
    BY <2>4, <2>5, FS_CardinalityType DEF RoomForKeys
  <2>7. sends \in Nat
    BY DEF PortalTyped
  <2> QED BY <1>2, <2>4, <2>5, <2>6, <2>7 DEF RoomForKeys
<1> QED BY <1>1, <1>3, <1>4, <1>5

LEMMA KeyCallsDropped ==
  ASSUME PortalInv, net' \in SUBSET (net \cup {Portal!Load}), UNCHANGED <<key, sends>>,
         \A r \in net' : HasSecret(r) => r.key \notin revealed'
  PROVE  net' \in SUBSET Portal!Request /\ KeyCallsFit' /\ RoomForKeys' /\ SecretsUnread'
<1> DEFINE S == net \cap net'
           f == [r \in S |-> r]
<1>1. f \in [S -> Portal!Request]
  BY DEF PortalInv, PortalTyped
<1>2. \A r \in S : f[r] = r
  OBVIOUS
<1>3. net' \in SUBSET ({f[r] : r \in S} \cup {Portal!Load})
  BY <1>2
<1>4. S \in SUBSET net /\ \A r \in S : HasSecret(r) => r.key \notin revealed'
  OBVIOUS
<1> HIDE DEF f, S
<1> QED BY <1>1, <1>2, <1>3, <1>4, KeyCallsKept

LEMMA KeyCallsUnmounted ==
  ASSUME PortalInv, NEW S \in SUBSET net, UNCHANGED <<key, sends>>,
         net' \in SUBSET (Portal!Unmounted(S) \cup {Portal!Load}),
         \A r \in S : HasSecret(r) => r.key \notin revealed'
  PROVE  net' \in SUBSET Portal!Request /\ KeyCallsFit' /\ RoomForKeys' /\ SecretsUnread'
<1> DEFINE After(r) == IF r.kind \in Portal!Forms THEN [r EXCEPT !.mounted = FALSE] ELSE r
           f == [r \in S |-> After(r)]
<1>1. ASSUME NEW r \in S
      PROVE  /\ After(r) \in Portal!Request /\ After(r).kind = r.kind /\ After(r).key = r.key
             /\ After(r).reply = r.reply /\ After(r).ver = r.ver /\ After(r).list = r.list
             /\ After(r).limit = r.limit
  <2>1. r \in Portal!Request
    BY DEF PortalInv, PortalTyped
  <2>2. CASE r.kind \in Portal!Forms
    BY <2>1, <2>2 DEF Portal!Request
  <2> QED BY <2>1, <2>2
<1>2. \A x \in net' : x = Portal!Load \/ \E r \in S : x = After(r)
  BY DEF Portal!Unmounted
<1> HIDE DEF After
<1>3. f \in [S -> Portal!Request] /\ \A r \in S : f[r] = After(r)
  BY <1>1
<1>4. net' \in SUBSET ({f[r] : r \in S} \cup {Portal!Load})
  BY <1>2, <1>3
<1> HIDE DEF f
<1> QED BY <1>1, <1>3, <1>4, KeyCallsKept

LEMMA KeyCallSent ==
  ASSUME PortalInv, NEW kind \in Portal!Forms \cup {"revoke"}, NEW k \in 0 .. MaxKeys,
         NEW rpm \in Nat, kind \in {"edit", "revoke"} => k \in Portal!Keys,
         net' = net \cup {Portal!Call(kind, k, rpm)}, sends' = sends + 1, UNCHANGED <<key, revealed>>
  PROVE  net' \in SUBSET Portal!Request /\ KeyCallsFit' /\ RoomForKeys' /\ SecretsUnread'
<1> USE DEF PortalInv
<1>1. PICK c : c = Portal!Call(kind, k, rpm)
  OBVIOUS
<1>2. /\ c \in Portal!Request /\ c.kind = kind /\ c.key = k /\ c.ver = 0 /\ c.kind # "load"
      /\ c.reply = "none" /\ c.limit = 0 /\ \A j \in Portal!Keys : c.list[j].ver = 0
  BY <1>1, KeyCall DEF Portal!Forms
<1>3. net' \in SUBSET Portal!Request
  BY <1>1, <1>2 DEF PortalTyped
<1>4. \A j \in Portal!Keys : key[j].ver \in Nat
  BY KeyFacts DEF PortalTyped
<1>5. KeyCallsFit'
  <2> SUFFICES ASSUME NEW r \in net' PROVE KeyCallFits(r)'
    BY DEF KeyCallsFit
  <2>1. CASE r \in net
    BY <2>1 DEF KeyCallsFit, KeyCallFits
  <2>2. CASE r = c
    BY <1>2, <1>4, <2>2 DEF KeyCallFits
  <2> QED BY <1>1, <2>1, <2>2
<1>6. SecretsUnread'
  <2>1. ~HasSecret(c) /\ net' = net \cup {c}
    BY <1>1, <1>2 DEF HasSecret
  <2> QED BY <2>1 DEF SecretsUnread
<1>7. RoomForKeys'
  <2>1. Changing' \in SUBSET (Changing \cup {c})
    BY <1>1 DEF Changing, MayChange
  <2>2. IsFiniteSet(Changing \cup {c}) /\ Cardinality(Changing) \in Nat
        /\ Cardinality(Changing \cup {c}) <= Cardinality(Changing) + 1
    <3>1. IsFiniteSet(Changing)
      BY DEF RoomForKeys
    <3>2. Cardinality(Changing) \in Nat
      BY <3>1, FS_CardinalityType
    <3>3. /\ IsFiniteSet(Changing \cup {c})
          /\ Cardinality(Changing \cup {c})
               = IF c \in Changing THEN Cardinality(Changing) ELSE Cardinality(Changing) + 1
      BY <3>1, FS_AddElement, Zenon
    <3> QED BY <3>2, <3>3
  <2>3. IsFiniteSet(Changing') /\ Cardinality(Changing') <= Cardinality(Changing \cup {c})
    BY <2>1, <2>2, FS_Subset
  <2>4. Cardinality(Changing \cup {c}) \in Nat /\ Cardinality(Changing') \in Nat
    BY <2>2, <2>3, FS_CardinalityType
  <2>5. sends \in Nat
    BY DEF PortalTyped
  <2> QED BY <1>4, <2>2, <2>3, <2>4, <2>5 DEF RoomForKeys
<1> QED BY <1>3, <1>5, <1>6, <1>7

\* What an answer to r may be, and what may have become of the keys: only a
\* call that may change one does, once, and only a key made by it has a secret.
KeyAnswerFits(r, answer) ==
  /\ net' = (net \ {r}) \cup {answer}
  /\ key' \in [Portal!Keys -> Portal!ApiKey]
  /\ \A k \in Portal!Keys :
       \/ key'[k].ver = key[k].ver
       \/ r \in Changing /\ ~MayChange(answer) /\ key'[k].ver = key[k].ver + 1
  /\ MayChange(answer) => r \in Changing
  /\ \A k \in Portal!Keys : answer.list[k].ver <= key'[k].ver
  /\ answer.key \in Portal!Keys => answer.ver <= key'[answer.key].ver
  /\ answer.kind \in {"edit", "revoke"} => answer.key \in Portal!Keys
  /\ answer.kind = "load" => answer.limit \in AccountRates \cup {0}
  /\ HasSecret(answer) => /\ answer.key \in Portal!Keys
                          /\ key[answer.key].ver = 0 /\ key'[answer.key].ver > 0

LEMMA KeyCallAnswered ==
  ASSUME PortalInv, NEW r \in net, NEW answer \in Portal!Request, KeyAnswerFits(r, answer),
         UNCHANGED <<sends, revealed>>
  PROVE  /\ net' \in SUBSET Portal!Request /\ KeyCallsFit' /\ RoomForKeys' /\ SecretsUnread'
         /\ \A k \in Portal!Keys : key[k].ver \in Nat /\ key'[k].ver \in Nat
                                   /\ key'[k].ver >= key[k].ver
<1> USE DEF PortalInv
<1>1. net' \in SUBSET Portal!Request
  BY DEF PortalTyped, KeyAnswerFits
<1>2. \A k \in Portal!Keys : key[k].ver \in Nat /\ key'[k].ver \in Nat /\ key'[k].ver >= key[k].ver
  <2>1. ASSUME NEW k \in Portal!Keys
        PROVE  key[k] \in Portal!ApiKey /\ key'[k] \in Portal!ApiKey
    BY DEF PortalTyped, KeyAnswerFits
  <2>2. ASSUME NEW k \in Portal!Keys
        PROVE  key[k].ver \in Nat /\ key'[k].ver \in Nat
    BY <2>1, KeyFacts
  <2>3. ASSUME NEW k \in Portal!Keys
        PROVE  key'[k].ver = key[k].ver \/ key'[k].ver = key[k].ver + 1
    BY DEF KeyAnswerFits
  <2> QED BY <2>2, <2>3
<1>3. KeyCallsFit'
  <2> SUFFICES ASSUME NEW x \in net' PROVE KeyCallFits(x)'
    BY DEF KeyCallsFit
  <2>1. CASE x \in net
    <3>1. KeyCallFits(x) /\ x \in Portal!Request
      BY <2>1 DEF KeyCallsFit, PortalTyped
    <3>2. x.ver \in Nat /\ \A k \in Portal!Keys : x.list[k].ver \in Nat
      BY <3>1, KeyFacts DEF Portal!Request
    <3> QED BY <1>2, <3>1, <3>2 DEF KeyCallFits
  <2>2. CASE x = answer
    BY <2>2 DEF KeyAnswerFits, KeyCallFits
  <2> QED BY <2>1, <2>2 DEF KeyAnswerFits
<1>4. SecretsUnread'
  <2>1. ASSUME NEW x \in net', HasSecret(x)
        PROVE  x.key \in Portal!Keys /\ key'[x.key].ver > 0 /\ x.key \notin revealed
    <3>1. CASE x \in net
      BY <1>2, <2>1, <3>1 DEF SecretsUnread
    <3>2. CASE x = answer
      BY <2>1, <3>2, <1>2 DEF KeyAnswerFits, SecretsRevealed
    <3> QED BY <3>1, <3>2 DEF KeyAnswerFits
  <2>2. ASSUME NEW x \in net, HasSecret(x), HasSecret(answer)
        PROVE  x.key # answer.key
    BY <1>2, <2>2 DEF SecretsUnread, KeyAnswerFits
  <2>3. ASSUME NEW x \in net', NEW y \in net', HasSecret(x), HasSecret(y), x.key = y.key
        PROVE  x = y
    BY <2>2, <2>3 DEF SecretsUnread, KeyAnswerFits
  <2> QED BY <2>1, <2>3 DEF SecretsUnread
<1>5. RoomForKeys'
  <2>1. /\ IsFiniteSet(Changing \ {r}) /\ Cardinality(Changing) \in Nat
        /\ Cardinality(Changing \ {r}) = IF r \in Changing THEN Cardinality(Changing) - 1
                                                           ELSE Cardinality(Changing)
    BY FS_RemoveElement, FS_CardinalityType DEF RoomForKeys
  <2>2. /\ IsFiniteSet((Changing \ {r}) \cup {answer}) /\ Cardinality(Changing \ {r}) \in Nat
        /\ Cardinality((Changing \ {r}) \cup {answer}) <= Cardinality(Changing \ {r}) + 1
    <3>1. Cardinality(Changing \ {r}) \in Nat
      BY <2>1, FS_CardinalityType
    <3>2. /\ IsFiniteSet((Changing \ {r}) \cup {answer})
          /\ Cardinality((Changing \ {r}) \cup {answer})
               = IF answer \in Changing \ {r} THEN Cardinality(Changing \ {r})
                                              ELSE Cardinality(Changing \ {r}) + 1
      BY <2>1, FS_AddElement, Zenon
    <3> QED BY <3>1, <3>2
  <2>3. sends \in Nat
    BY DEF PortalTyped
  <2>4. CASE MayChange(answer)
    <3>1. r \in Changing /\ \A k \in Portal!Keys : key'[k].ver = key[k].ver
      BY <2>4 DEF KeyAnswerFits
    <3>2. Changing' \in SUBSET ((Changing \ {r}) \cup {answer})
      BY DEF Changing, MayChange, KeyAnswerFits
    <3>3. IsFiniteSet(Changing') /\ Cardinality(Changing') <= Cardinality((Changing \ {r}) \cup {answer})
      BY <2>2, <3>2, FS_Subset
    <3>4. Cardinality((Changing \ {r}) \cup {answer}) \in Nat /\ Cardinality(Changing') \in Nat
      BY <2>2, <3>3, FS_CardinalityType
    <3> QED BY <1>2, <2>1, <2>2, <2>3, <3>1, <3>3, <3>4 DEF RoomForKeys
  <2>5. CASE ~MayChange(answer)
    <3>1. Changing' \in SUBSET (Changing \ {r})
      BY <2>5 DEF Changing, MayChange, KeyAnswerFits
    <3>2. IsFiniteSet(Changing') /\ Cardinality(Changing') <= Cardinality(Changing \ {r})
      BY <2>1, <3>1, FS_Subset
    <3>3. Cardinality(Changing') \in Nat
      BY <3>2, FS_CardinalityType
    <3>4. \A k \in Portal!Keys : key'[k].ver = key[k].ver
                                 \/ (r \in Changing /\ key'[k].ver = key[k].ver + 1)
      BY DEF KeyAnswerFits
    <3> QED BY <1>2, <2>1, <2>2, <2>3, <3>2, <3>3, <3>4 DEF RoomForKeys
  <2> QED BY <2>4, <2>5
<1> QED BY <1>1, <1>2, <1>3, <1>4, <1>5

LEMMA KeyServingFits ==
  ASSUME PortalInv, NEW r \in net, Portal!Serve(r) \/ Portal!Lose(r)
  PROVE  \E answer \in Portal!Request : KeyAnswerFits(r, answer)
<1> USE DEF PortalInv
<1>1. /\ r \in Portal!Request /\ KeyCallFits(r)
      /\ key \in [Portal!Keys -> Portal!ApiKey] /\ \A k \in Portal!Keys : key[k].ver \in Nat
      /\ rate \in AccountRates /\ rate \in Nat
  BY KeyFacts DEF PortalTyped, KeyCallsFit
<1>2. \A k \in Portal!Keys : r.list[k].ver \in Nat
  BY <1>1, KeyFacts DEF Portal!Request
<1>3. ASSUME NEW answer \in Portal!Request, key' = key, net' = (net \ {r}) \cup {answer},
             answer.kind = r.kind, answer.key = r.key, answer.ver = r.ver,
             answer.list \in {r.list, key}, answer.limit \in {r.limit, rate} \/ r.kind # "load",
             ~HasSecret(answer), MayChange(answer) => MayChange(r)
      PROVE  KeyAnswerFits(r, answer)
  <2>1. \A k \in Portal!Keys : answer.list[k].ver <= key[k].ver
    BY <1>1, <1>3 DEF KeyCallFits
  <2> QED BY <1>1, <1>3, <2>1 DEF KeyAnswerFits, KeyCallFits, Changing
<1>4. ASSUME NEW reply \in {"refused", "lost"}, key' = key,
             Portal!Answered(r, [r EXCEPT !.reply = reply])
      PROVE  \E answer \in Portal!Request : KeyAnswerFits(r, answer)
  <2>1. PICK answer : answer = [r EXCEPT !.reply = reply]
    OBVIOUS
  <2>2. /\ answer \in Portal!Request /\ answer.reply = reply /\ answer.list = r.list
        /\ answer.kind = r.kind /\ answer.key = r.key /\ answer.ver = r.ver /\ answer.limit = r.limit
    BY <1>1, <2>1 DEF Portal!Request
  <2>3. net' = (net \ {r}) \cup {answer}
    BY <1>4, <2>1 DEF Portal!Answered
  <2> QED BY <1>3, <1>4, <2>2, <2>3 DEF HasSecret, MayChange
<1>5. CASE Portal!ServeLoad(r)
  <2>1. \E reply \in {"keys", "config", "ok"} :
          \E answer \in {[r EXCEPT !.list = key, !.reply = reply],
                         [r EXCEPT !.limit = rate, !.reply = reply]} :
            key' = key /\ net' = (net \ {r}) \cup {answer}
    BY <1>5 DEF Portal!ServeLoad, Portal!Answered, Portal!store
  <2>2. PICK reply \in {"keys", "config", "ok"} :
          \E answer \in {[r EXCEPT !.list = key, !.reply = reply],
                         [r EXCEPT !.limit = rate, !.reply = reply]} :
            key' = key /\ net' = (net \ {r}) \cup {answer}
    BY <2>1
  <2>3. PICK answer \in {[r EXCEPT !.list = key, !.reply = reply],
                         [r EXCEPT !.limit = rate, !.reply = reply]} :
          key' = key /\ net' = (net \ {r}) \cup {answer}
    BY <2>2
  <2>4. r.kind = "load"
    BY <1>5 DEF Portal!ServeLoad
  <2>5. /\ answer \in Portal!Request /\ answer.list \in {r.list, key} /\ answer.kind = "load"
        /\ answer.key = r.key /\ answer.ver = r.ver /\ answer.limit \in {r.limit, rate}
    <3>1. CASE answer = [r EXCEPT !.list = key, !.reply = reply]
      BY <1>1, <2>2, <2>4, <3>1 DEF Portal!Request
    <3>2. CASE answer = [r EXCEPT !.limit = rate, !.reply = reply]
      BY <1>1, <2>2, <2>4, <3>2 DEF Portal!Request
    <3> QED BY <2>3, <3>1, <3>2
  <2> QED BY <1>3, <2>3, <2>4, <2>5 DEF HasSecret, MayChange
<1>6. CASE Portal!CheckCreate(r)
  <2>1. r.kind = "create" /\ r.reply = "none" /\ r.rpm \in Nat
    BY <1>1, <1>6 DEF Portal!CheckCreate, Portal!Request
  <2>2. PICK rpm : rpm = Portal!Clamped(r.rpm)
    OBVIOUS
  <2>3. rpm \in Nat
    BY <1>1, <2>1, <2>2 DEF Portal!Clamped
  <2>4. PICK answer : answer = [r EXCEPT !.reply = "checked", !.limit = r.rpm, !.rpm = rpm]
    OBVIOUS
  <2>5. /\ answer \in Portal!Request /\ answer.list = r.list /\ answer.kind = "create"
        /\ answer.key = r.key /\ answer.ver = r.ver /\ answer.reply = "checked"
    BY <1>1, <2>1, <2>3, <2>4 DEF Portal!Request
  <2>6. key' = key /\ net' = (net \ {r}) \cup {answer}
    BY <1>6, <2>2, <2>4 DEF Portal!CheckCreate, Portal!Answered, Portal!store
  <2> QED BY <1>3, <2>1, <2>5, <2>6 DEF HasSecret, MayChange
<1>7. CASE Portal!InsertKey(r)
  <2>1. r.kind = "create" /\ r \in Changing /\ r.rpm \in Nat
    BY <1>1, <1>7 DEF Portal!InsertKey, Portal!Request, Changing, MayChange
  <2>2. CASE UNCHANGED key /\ Portal!Answered(r, [r EXCEPT !.reply = "refused"])
    BY <1>4, <2>2
  <2>3. ASSUME NEW k \in Portal!Keys, key[k].ver = 0,
               key' = [key EXCEPT ![k] = [ver |-> 1, rpm |-> Portal!Stored(r.rpm), revoked |-> FALSE]],
               Portal!Answered(r, [r EXCEPT !.reply = "ok", !.key = k, !.ver = 1])
        PROVE  \E answer \in Portal!Request : KeyAnswerFits(r, answer)
    <3>1. PICK new : new = [ver |-> 1, rpm |-> Portal!Stored(r.rpm), revoked |-> FALSE]
      OBVIOUS
    <3>2. Portal!Stored(r.rpm) \in Nat /\ 1 \in 0 .. 1 + MaxSends
      BY <2>1 DEF Portal!Stored
    <3>3. new \in Portal!ApiKey /\ new.ver = 1
      BY <3>1, <3>2 DEF Portal!ApiKey
    <3>4. /\ key' \in [Portal!Keys -> Portal!ApiKey] /\ key'[k].ver = 1
          /\ \A j \in Portal!Keys : j # k => key'[j] = key[j]
      BY <1>1, <2>3, <3>1, <3>3
    <3>5. PICK answer : answer = [r EXCEPT !.reply = "ok", !.key = k, !.ver = 1]
      OBVIOUS
    <3>6. /\ answer \in Portal!Request /\ answer.list = r.list /\ answer.kind = "create"
          /\ answer.key = k /\ answer.ver = 1 /\ answer.reply = "ok"
      BY <1>1, <2>1, <3>2, <3>5, KeyFacts DEF Portal!Request
    <3>7. net' = (net \ {r}) \cup {answer}
      BY <2>3, <3>5 DEF Portal!Answered
    <3>8. \A j \in Portal!Keys : r.list[j].ver <= key'[j].ver
      BY <1>1, <1>2, <2>3, <3>4 DEF KeyCallFits
    <3>9. \A j \in Portal!Keys : key'[j].ver = key[j].ver \/ key'[j].ver = key[j].ver + 1
      BY <2>3, <3>4
    <3> QED BY <2>1, <2>3, <3>4, <3>6, <3>7, <3>8, <3>9 DEF KeyAnswerFits, MayChange
  <2> QED BY <1>7, <2>2, <2>3 DEF Portal!InsertKey
<1>8. CASE Portal!ServeChange(r)
  <2>1. /\ r.kind \in {"edit", "revoke"} /\ r \in Changing /\ r.rpm \in Nat /\ r.key \in Portal!Keys
    BY <1>1, <1>8 DEF Portal!ServeChange, Portal!Request, Changing, MayChange, KeyCallFits
  <2>2. CASE UNCHANGED key /\ Portal!Answered(r, [r EXCEPT !.reply = "refused"])
    BY <1>4, <2>2
  <2>3. ASSUME NEW new \in Portal!Changed(r, key[r.key]), key' = [key EXCEPT ![r.key] = new],
               Portal!Answered(r, [r EXCEPT !.reply = "ok", !.ver = new.ver])
        PROVE  \E answer \in Portal!Request : KeyAnswerFits(r, answer)
    <3>1. PICK old : old = key[r.key]
      OBVIOUS
    <3>2. old \in Portal!ApiKey /\ old.ver \in Nat
      BY <1>1, <2>1, <3>1
    <3>3. old.ver + 1 \in 0 .. 1 + MaxSends
      <4>1. IsFiniteSet(Changing) /\ old.ver + Cardinality(Changing) <= 1 + sends
        BY <2>1, <3>1 DEF RoomForKeys
      <4>2. Cardinality(Changing) \in Nat /\ Cardinality(Changing) # 0
        BY <2>1, <4>1, FS_CardinalityType, FS_EmptySet
      <4>3. sends \in 0 .. MaxSends
        BY DEF PortalTyped
      <4> QED BY <3>2, <4>1, <4>2, <4>3
    <3>4. new \in Portal!ApiKey /\ new.ver = old.ver + 1
      <4>1. new \in {[old EXCEPT !.ver = @ + 1, !.rpm = r.rpm], [old EXCEPT !.ver = @ + 1, !.revoked = TRUE]}
        BY <2>1, <2>3, <3>1 DEF Portal!Changed
      <4> QED BY <2>1, <3>2, <3>3, <4>1 DEF Portal!ApiKey
    <3>5. /\ key' \in [Portal!Keys -> Portal!ApiKey] /\ key'[r.key] = new
          /\ \A j \in Portal!Keys : j # r.key => key'[j] = key[j]
      BY <1>1, <2>1, <2>3, <3>4
    <3>6. PICK answer : answer = [r EXCEPT !.reply = "ok", !.ver = new.ver]
      OBVIOUS
    <3>7. new.ver \in 0 .. 1 + MaxSends
      BY <3>3, <3>4
    <3>8. /\ answer \in Portal!Request /\ answer.list = r.list /\ answer.kind = r.kind
          /\ answer.key = r.key /\ answer.ver = new.ver /\ answer.reply = "ok"
      BY <1>1, <3>6, <3>7 DEF Portal!Request
    <3>9. net' = (net \ {r}) \cup {answer}
      BY <2>3, <3>6 DEF Portal!Answered
    <3>10. \A j \in Portal!Keys : key'[j].ver = key[j].ver \/ key'[j].ver = key[j].ver + 1
      BY <3>1, <3>4, <3>5
    <3>11. \A j \in Portal!Keys : r.list[j].ver <= key'[j].ver
      BY <1>1, <1>2, <3>10 DEF KeyCallFits
    <3> QED BY <2>1, <3>5, <3>7, <3>8, <3>9, <3>10, <3>11 DEF KeyAnswerFits, MayChange, HasSecret
  <2> QED BY <1>8, <2>2, <2>3 DEF Portal!ServeChange
<1>9. CASE Portal!ServeOther(r)
  <2>1. key' = key
    BY <1>9 DEF Portal!ServeOther, Portal!store
  <2>2. CASE Portal!Answered(r, [r EXCEPT !.reply = "refused"])
    BY <1>4, <2>1, <2>2
  <2>3. CASE r.kind = "password" /\ Portal!Answered(r, [r EXCEPT !.reply = "ok"])
    <3>1. PICK answer : answer = [r EXCEPT !.reply = "ok"]
      OBVIOUS
    <3>2. /\ answer \in Portal!Request /\ answer.list = r.list /\ answer.kind = "password"
          /\ answer.key = r.key /\ answer.ver = r.ver /\ answer.limit = r.limit
      BY <1>1, <2>3, <3>1 DEF Portal!Request
    <3>3. net' = (net \ {r}) \cup {answer}
      BY <2>3, <3>1 DEF Portal!Answered
    <3> QED BY <1>3, <2>1, <2>3, <3>2, <3>3 DEF HasSecret, MayChange
  <2> QED BY <1>9, <2>2, <2>3 DEF Portal!ServeOther
<1>10. CASE Portal!Lose(r)
  BY <1>4, <1>10 DEF Portal!Lose, Portal!store
<1> QED BY <1>5, <1>6, <1>7, <1>8, <1>9, <1>10 DEF Portal!Serve

-----------------------------------------------------------------------------
(* The steps of the developer portal.                                      *)

LEMMA ClosedKeyForm == Portal!Closed \in Portal!Form /\ Portal!Closed.kind = "none"
BY DEF Portal!Closed, Portal!Form

LEMMA KeyServingKeeps ==
  ASSUME PortalInv, NEW r \in net, Portal!Serve(r) \/ Portal!Lose(r)
  PROVE  PortalInv'
<1> USE DEF PortalInv
<1>1. /\ UNCHANGED <<rate, rows, config, loading, form, banner, revealed, unseen, sends,
                     others, reloads>>
      /\ losses' \in 0 .. MaxLosses
  <2>1. losses \in 0 .. MaxLosses
    BY DEF PortalTyped
  <2>2. CASE Portal!Serve(r)
    BY <2>1, <2>2 DEF Portal!Serve, Portal!ServeLoad, Portal!CheckCreate, Portal!InsertKey,
                      Portal!ServeChange, Portal!ServeOther, Portal!bounds, Portal!store
  <2>3. CASE Portal!Lose(r)
    <3>1. losses' = losses + 1 /\ losses < MaxLosses
          /\ UNCHANGED <<rate, rows, config, loading, form, banner, revealed, unseen, sends,
                         others, reloads>>
      BY <2>3 DEF Portal!Lose, Portal!store
    <3> QED BY <2>1, <3>1
  <2> QED BY <2>2, <2>3
<1>2. PICK answer \in Portal!Request : KeyAnswerFits(r, answer)
  BY KeyServingFits
<1>3. /\ net' \in SUBSET Portal!Request /\ KeyCallsFit' /\ RoomForKeys' /\ SecretsUnread'
      /\ \A k \in Portal!Keys : key[k].ver \in Nat /\ key'[k].ver \in Nat
                                /\ key'[k].ver >= key[k].ver
  BY <1>1, <1>2, KeyCallAnswered
<1>4. key' \in [Portal!Keys -> Portal!ApiKey]
  BY <1>2 DEF KeyAnswerFits
<1>5. PortalTyped' /\ EditIsForKey'
  BY <1>1, <1>3, <1>4 DEF PortalTyped, EditIsForKey
<1>6. KeysAreBehind'
  <2>1. \A k \in Portal!Keys : unseen[k] \in Nat /\ rows[k].ver \in Nat
    BY KeyFacts DEF PortalTyped
  <2> QED BY <1>1, <1>3, <2>1 DEF KeysAreBehind
<1>7. SecretsRevealed'
  BY <1>1, <1>3 DEF SecretsRevealed
<1> QED BY <1>3, <1>5, <1>6, <1>7

\* The steps of the user that send nothing.
LEMMA KeyFormsKeep ==
  ASSUME PortalInv, \/ Portal!OpenForm \/ Portal!EditRpm \/ Portal!CloseBanner
                    \/ Portal!SetAccountRate
  PROVE  PortalInv'
<1> USE DEF PortalInv
<1>1. /\ UNCHANGED <<key, rows, config, loading, revealed, unseen, net, sends, losses, reloads>>
      /\ banner' \in {banner, 0}
  BY DEF Portal!OpenForm, Portal!EditRpm, Portal!CloseBanner, Portal!SetAccountRate,
         Portal!store, Portal!bounds
<1>2. rate' \in AccountRates /\ others' \in 0 .. MaxOthers
  <2>1. rate \in AccountRates /\ others \in 0 .. MaxOthers
    BY DEF PortalTyped
  <2>2. CASE Portal!SetAccountRate
    <3>1. rate' \in AccountRates /\ others' = others + 1 /\ others < MaxOthers
      BY <2>2 DEF Portal!SetAccountRate
    <3> QED BY <2>1, <3>1
  <2>3. CASE Portal!OpenForm \/ Portal!EditRpm \/ Portal!CloseBanner
    BY <2>1, <2>3 DEF Portal!OpenForm, Portal!EditRpm, Portal!CloseBanner, Portal!store, Portal!bounds
  <2> QED BY <2>2, <2>3
<1>3. form' \in Portal!Form /\ EditIsForKey'
  <2>1. CASE Portal!OpenForm
    <3>1. 0 \in 0 .. MaxKeys /\ 0 \in Nat
      OBVIOUS
    <3>2. CASE form' = [Portal!Closed EXCEPT !.kind = "create", !.rpm = Portal!DefaultRpm]
      <4>1. Portal!DefaultRpm \in Nat
        BY DEF Portal!DefaultRpm, PortalTyped
      <4> QED BY <3>1, <3>2, <4>1 DEF Portal!Closed, Portal!Form, Portal!Forms, EditIsForKey
    <3>3. CASE form' = [Portal!Closed EXCEPT !.kind = "password"]
      BY <3>1, <3>3 DEF Portal!Closed, Portal!Form, Portal!Forms, EditIsForKey
    <3>4. CASE \E k \in Portal!Keys :
                 form' = [Portal!Closed EXCEPT !.kind = "edit", !.key = k, !.rpm = rows[k].rpm]
      <4>1. PICK k \in Portal!Keys :
              form' = [Portal!Closed EXCEPT !.kind = "edit", !.key = k, !.rpm = rows[k].rpm]
        BY <3>4
      <4>2. rows[k].rpm \in Nat /\ k \in 0 .. MaxKeys
        BY KeyFacts DEF PortalTyped
      <4> QED BY <3>1, <4>1, <4>2 DEF Portal!Closed, Portal!Form, Portal!Forms, EditIsForKey
    <3> QED BY <2>1, <3>2, <3>3, <3>4 DEF Portal!OpenForm
  <2>2. CASE Portal!EditRpm
    <3>1. \E rpm \in Portal!Selectable(form.rpm) : form' = [form EXCEPT !.rpm = rpm]
      BY <2>2 DEF Portal!EditRpm
    <3>2. \A rpm \in Portal!Selectable(form.rpm) : rpm \in Nat
      BY DEF Portal!Selectable
    <3>3. PICK rpm \in Nat : form' = [form EXCEPT !.rpm = rpm]
      BY <3>1, <3>2
    <3> QED BY <3>3 DEF PortalTyped, Portal!Form, EditIsForKey
  <2>3. CASE Portal!CloseBanner \/ Portal!SetAccountRate
    BY <2>3 DEF Portal!CloseBanner, Portal!SetAccountRate, PortalTyped, EditIsForKey
  <2> QED BY <2>1, <2>2, <2>3
<1>4. PortalTyped'
  BY <1>1, <1>2, <1>3 DEF PortalTyped
<1>5. KeysAreBehind' /\ KeyCallsFit' /\ RoomForKeys' /\ SecretsUnread'
  BY <1>1 DEF KeysAreBehind, KeyCallsFit, KeyCallFits, RoomForKeys, Changing, SecretsUnread
<1>6. SecretsRevealed'
  BY <1>1 DEF SecretsRevealed
<1> QED BY <1>3, <1>4, <1>5, <1>6

LEMMA KeyReadingKeeps ==
  ASSUME PortalInv, Portal!Refresh \/ Portal!CloseForm
  PROVE  PortalInv'
<1> USE DEF PortalInv
<1>1. /\ UNCHANGED <<key, rate, rows, config, banner, revealed, unseen, sends, others, losses,
                     reloads>>
      /\ loading' \in BOOLEAN /\ form' \in {form, Portal!Closed}
  BY DEF Portal!Refresh, Portal!CloseForm, Portal!store, Portal!bounds, PortalTyped
<1>2. \A r \in net : HasSecret(r) => r.key \notin revealed'
  BY <1>1 DEF SecretsUnread
<1>3. net' \in SUBSET Portal!Request /\ KeyCallsFit' /\ RoomForKeys' /\ SecretsUnread'
  <2>1. CASE Portal!Refresh
    <3>1. net' \in SUBSET (net \cup {Portal!Load})
      BY <2>1 DEF Portal!Refresh
    <3>2. \A r \in net' : HasSecret(r) => r.key \notin revealed'
      BY <1>2, <3>1, KeysLoad DEF HasSecret
    <3> QED BY <1>1, <3>1, <3>2, KeyCallsDropped
  <2>2. CASE Portal!CloseForm
    BY <1>1, <1>2, <2>2, KeyCallsUnmounted DEF Portal!CloseForm
  <2> QED BY <2>1, <2>2
<1>4. PortalTyped' /\ EditIsForKey'
  BY <1>1, <1>3, ClosedKeyForm DEF PortalTyped, EditIsForKey
<1> QED BY <1>1, <1>3, <1>4 DEF KeysAreBehind, SecretsRevealed

LEMMA KeySendingKeeps ==
  ASSUME PortalInv, Portal!SubmitForm \/ \E k \in Portal!Keys : Portal!ClickRevoke(k)
  PROVE  PortalInv'
<1> USE DEF PortalInv
<1>1. /\ UNCHANGED <<key, rate, rows, config, loading, banner, revealed, unseen, others, losses,
                     reloads>>
      /\ sends' = sends + 1 /\ sends < MaxSends /\ form' \in {form, [form EXCEPT !.busy = TRUE]}
  BY DEF Portal!SubmitForm, Portal!ClickRevoke, Portal!store
<1>2. net' \in SUBSET Portal!Request /\ KeyCallsFit' /\ RoomForKeys' /\ SecretsUnread'
  <2>1. CASE Portal!SubmitForm
    <3>1. PICK f : f = form
      OBVIOUS
    <3>2. f.kind \in Portal!Forms /\ f.key \in 0 .. MaxKeys /\ f.rpm \in Nat
          /\ (f.kind = "edit" => f.key \in Portal!Keys)
          /\ net' = net \cup {Portal!Call(f.kind, f.key, f.rpm)}
      BY <2>1, <3>1 DEF Portal!SubmitForm, PortalTyped, Portal!Form, EditIsForKey
    <3>3. f.kind # "revoke"
      BY <3>2 DEF Portal!Forms
    <3> QED BY <1>1, <3>2, <3>3, KeyCallSent
  <2>2. CASE \E k \in Portal!Keys : Portal!ClickRevoke(k)
    <3>1. PICK k \in Portal!Keys : Portal!ClickRevoke(k)
      BY <2>2
    <3>2. net' = net \cup {Portal!Call("revoke", k, 0)} /\ k \in 0 .. MaxKeys
      BY <3>1, KeyFacts DEF Portal!ClickRevoke
    <3> QED BY <1>1, <3>2, KeyCallSent
  <2> QED BY <2>1, <2>2
<1>3. form' \in Portal!Form /\ form'.kind = form.kind /\ form'.key = form.key
  BY <1>1 DEF PortalTyped, Portal!Form
<1>4. sends' \in 0 .. MaxSends
  BY <1>1 DEF PortalTyped
<1>5. PortalTyped' /\ EditIsForKey'
  BY <1>1, <1>2, <1>3, <1>4 DEF PortalTyped, EditIsForKey
<1> QED BY <1>1, <1>2, <1>5 DEF KeysAreBehind, SecretsRevealed

LEMMA ReloadKeeps ==
  ASSUME PortalInv, Portal!ReloadPage
  PROVE  PortalInv'
<1> USE DEF PortalInv
<1>1. /\ UNCHANGED <<key, rate, revealed, sends, others, losses>>
      /\ rows' = Portal!NoKeys /\ config' = 0 /\ loading' = TRUE /\ form' = Portal!Closed
      /\ banner' = 0 /\ unseen' = [k \in Portal!Keys |-> 0]
      /\ reloads' = reloads + 1 /\ reloads < MaxReloads
  BY DEF Portal!ReloadPage, Portal!store
<1>2. net' \in SUBSET Portal!Request /\ KeyCallsFit' /\ RoomForKeys' /\ SecretsUnread'
  <2> DEFINE S == {q \in net : q.kind # "load"}
             After(r) == [r EXCEPT !.page = FALSE, !.mounted = FALSE]
             f == [r \in S |-> After(r)]
  <2>1. ASSUME NEW r \in S
        PROVE  /\ After(r) \in Portal!Request /\ After(r).kind = r.kind /\ After(r).key = r.key
               /\ After(r).reply = r.reply /\ After(r).ver = r.ver /\ After(r).list = r.list
               /\ After(r).limit = r.limit
    <3>1. r \in Portal!Request
      BY DEF PortalTyped
    <3> QED BY <3>1 DEF Portal!Request
  <2>2. net' = {After(r) : r \in S} \cup {Portal!Load}
    BY DEF Portal!ReloadPage
  <2>3. S \in SUBSET net /\ \A r \in S : HasSecret(r) => r.key \notin revealed'
    BY <1>1 DEF SecretsUnread
  <2> HIDE DEF After, S
  <2>4. f \in [S -> Portal!Request] /\ \A r \in S : f[r] = After(r)
    BY <2>1
  <2>5. net' \in SUBSET ({f[r] : r \in S} \cup {Portal!Load})
    BY <2>2, <2>4
  <2> HIDE DEF f
  <2> QED BY <1>1, <2>1, <2>3, <2>4, <2>5, KeyCallsKept
<1>3. reloads' \in 0 .. MaxReloads /\ 0 \in 0 .. 1 + MaxSends
  BY <1>1 DEF PortalTyped
<1>4. PortalTyped' /\ EditIsForKey'
  BY <1>1, <1>2, <1>3, KeyFacts, ClosedKeyForm DEF PortalTyped, EditIsForKey
<1>5. KeysAreBehind'
  BY <1>1, KeyFacts DEF PortalTyped, KeysAreBehind
<1>6. SecretsRevealed'
  BY <1>1 DEF SecretsRevealed
<1> QED BY <1>2, <1>4, <1>5, <1>6

LEMMA KeysArrive ==
  ASSUME PortalInv, NEW r \in net, Portal!DeliverLoad(r) \/ Portal!DeliverNowhere(r)
  PROVE  PortalInv'
<1> USE DEF PortalInv
<1>1. /\ UNCHANGED <<key, rate, form, banner, revealed, sends, others, losses, reloads>>
      /\ net' = net \ {r}
      /\ \/ UNCHANGED <<rows, config, loading, unseen>>
         \/ /\ r.kind = "load" /\ rows' = r.list /\ config' = r.limit /\ loading' = FALSE
            /\ unseen' = [k \in Portal!Keys |-> IF r.list[k].ver >= unseen[k] THEN 0 ELSE unseen[k]]
  BY DEF Portal!DeliverLoad, Portal!DeliverNowhere, Portal!bounds, Portal!store
<1>2. r \in Portal!Request /\ KeyCallFits(r)
  BY DEF PortalTyped, KeyCallsFit
<1>3. net' \in SUBSET Portal!Request /\ KeyCallsFit' /\ RoomForKeys' /\ SecretsUnread'
  <2>1. \A q \in net' : HasSecret(q) => q.key \notin revealed'
    BY <1>1 DEF SecretsUnread
  <2> QED BY <1>1, <2>1, KeyCallsDropped
<1>4. CASE UNCHANGED <<rows, config, loading, unseen>>
  BY <1>1, <1>3, <1>4 DEF PortalTyped, EditIsForKey, KeysAreBehind, SecretsRevealed
<1>5. CASE /\ r.kind = "load" /\ rows' = r.list /\ config' = r.limit /\ loading' = FALSE
           /\ unseen' = [k \in Portal!Keys |-> IF r.list[k].ver >= unseen[k] THEN 0 ELSE unseen[k]]
  <2>1. rows' \in [Portal!Keys -> Portal!ApiKey] /\ config' \in AccountRates \cup {0}
    BY <1>2, <1>5 DEF Portal!Request, KeyCallFits
  <2>2. unseen' \in [Portal!Keys -> 0 .. 1 + MaxSends]
    <3>1. 0 \in 0 .. 1 + MaxSends
      OBVIOUS
    <3> QED BY <1>5, <3>1 DEF PortalTyped
  <2>3. PortalTyped' /\ EditIsForKey'
    BY <1>1, <1>3, <1>5, <2>1, <2>2 DEF PortalTyped, EditIsForKey
  <2>4. KeysAreBehind'
    <3>1. \A k \in Portal!Keys : key[k].ver \in Nat
      BY KeyFacts DEF PortalTyped
    <3> QED BY <1>1, <1>2, <1>5, <3>1 DEF KeysAreBehind, KeyCallFits
  <2> QED BY <1>1, <1>3, <2>3, <2>4 DEF SecretsRevealed
<1> QED BY <1>1, <1>4, <1>5

\* A reported version of a key is one the key has had.
LEMMA KeyReportIsBehind ==
  ASSUME PortalInv, NEW r \in net, UNCHANGED <<key, rows>>,
         unseen' \in [Portal!Keys -> 0 .. 1 + MaxSends],
         \A k \in Portal!Keys : unseen'[k] = unseen[k] \/ (k = r.key /\ unseen'[k] = r.ver)
  PROVE  KeysAreBehind'
BY DEF PortalInv, KeysAreBehind, KeyCallsFit, KeyCallFits

LEMMA KeyFormAnswerArrives ==
  ASSUME PortalInv, NEW r \in net, Portal!DeliverFormAnswer(r)
  PROVE  /\ PortalInv'
         /\ \A k \in Portal!Keys : banner' = k /\ banner # k => k \notin revealed
<1> USE DEF PortalInv
<1>1. /\ UNCHANGED <<key, rate, rows, config, sends, others, losses, reloads>>
      /\ loading' \in BOOLEAN
  BY DEF Portal!DeliverFormAnswer, Portal!bounds, Portal!store, PortalTyped
<1>2. r \in Portal!Request
  BY DEF PortalTyped
<1>3. \/ banner' = banner /\ revealed' = revealed
      \/ HasSecret(r) /\ banner' = r.key /\ revealed' = revealed \cup {r.key}
  <2>1. CASE r.reply = "ok" /\ r.kind = "create"
    <3>1. banner' = r.key /\ revealed' = revealed \cup ({banner'} \ {0})
      BY <2>1 DEF Portal!DeliverFormAnswer, Portal!NewBanner
    <3>2. HasSecret(r) /\ r.key # 0
      BY <2>1, KeyFacts DEF HasSecret, SecretsUnread
    <3> QED BY <3>1, <3>2
  <2>2. CASE r.reply = "ok" /\ r.kind # "create"
    <3>1. banner' = banner /\ revealed' = revealed \cup ({banner} \ {0})
      BY <2>2 DEF Portal!DeliverFormAnswer, Portal!NewBanner
    <3> QED BY <3>1 DEF SecretsRevealed
  <2>3. CASE r.reply # "ok"
    BY <2>3 DEF Portal!DeliverFormAnswer
  <2> QED BY <2>1, <2>2, <2>3
<1>4. HasSecret(r) => r.key \in Portal!Keys /\ key[r.key].ver > 0 /\ r.key \notin revealed
  BY DEF SecretsUnread
<1>5. \A q \in net \ {r} : HasSecret(q) => q.key \notin revealed'
  BY <1>3 DEF SecretsUnread
<1>6. \/ net' \in SUBSET (Portal!Unmounted(net \ {r}) \cup {Portal!Load})
      \/ net' \in SUBSET ((net \ {r}) \cup {Portal!Load})
  BY DEF Portal!DeliverFormAnswer, Portal!Again
<1>7. net' \in SUBSET Portal!Request /\ KeyCallsFit' /\ RoomForKeys' /\ SecretsUnread'
  <2>1. CASE net' \in SUBSET (Portal!Unmounted(net \ {r}) \cup {Portal!Load})
    BY <1>1, <1>5, <2>1, KeyCallsUnmounted
  <2>2. CASE net' \in SUBSET ((net \ {r}) \cup {Portal!Load})
    <3>1. \A q \in net' : HasSecret(q) => q.key \notin revealed'
      BY <1>5, <2>2, KeysLoad DEF HasSecret
    <3> QED BY <1>1, <2>2, <3>1, KeyCallsDropped
  <2> QED BY <1>6, <2>1, <2>2
<1>8. /\ unseen' \in [Portal!Keys -> 0 .. 1 + MaxSends]
      /\ \A k \in Portal!Keys : unseen'[k] = unseen[k] \/ (k = r.key /\ unseen'[k] = r.ver)
  <2>1. r.ver \in 0 .. 1 + MaxSends
    BY <1>2 DEF Portal!Request
  <2>2. CASE unseen' = unseen
    BY <2>2 DEF PortalTyped
  <2>3. CASE unseen' = [k \in Portal!Keys |-> IF k = r.key /\ r.ver > unseen[k] THEN r.ver
                                              ELSE unseen[k]]
    BY <2>1, <2>3 DEF PortalTyped
  <2> QED BY <2>2, <2>3 DEF Portal!DeliverFormAnswer
<1>9. KeysAreBehind'
  BY <1>1, <1>8, KeyReportIsBehind
<1>10. form' \in Portal!Form /\ EditIsForKey'
  <2>1. form' \in {form, Portal!Closed, [form EXCEPT !.busy = FALSE]}
    BY DEF Portal!DeliverFormAnswer, Portal!AfterFailure
  <2> QED BY <2>1, ClosedKeyForm DEF PortalTyped, Portal!Form, EditIsForKey
<1>11. PortalTyped'
  BY <1>1, <1>7, <1>8, <1>10 DEF PortalTyped
<1>12. SecretsRevealed'
  BY <1>1, <1>3, <1>4 DEF SecretsRevealed
<1>13. \A k \in Portal!Keys : banner' = k /\ banner # k => k \notin revealed
  BY <1>3, <1>4
<1> QED BY <1>7, <1>9, <1>10, <1>11, <1>12, <1>13

LEMMA RevokeAnswerArrives ==
  ASSUME PortalInv, NEW r \in net, Portal!DeliverRevoke(r)
  PROVE  PortalInv'
<1> USE DEF PortalInv
<1>1. /\ UNCHANGED <<key, rate, rows, config, form, banner, revealed, sends, others, losses, reloads>>
      /\ loading' \in BOOLEAN
  BY DEF Portal!DeliverRevoke, Portal!bounds, Portal!store, PortalTyped
<1>2. r.ver \in 0 .. 1 + MaxSends /\ r.key \in Portal!Keys
  BY DEF PortalTyped, Portal!Request, KeyCallsFit, KeyCallFits, Portal!DeliverRevoke
<1>3. net' \in SUBSET (net \cup {Portal!Load})
  BY DEF Portal!DeliverRevoke, Portal!Again
<1>4. net' \in SUBSET Portal!Request /\ KeyCallsFit' /\ RoomForKeys' /\ SecretsUnread'
  <2>1. \A q \in net' : HasSecret(q) => q.key \notin revealed'
    BY <1>1, <1>3, KeysLoad DEF HasSecret, SecretsUnread
  <2> QED BY <1>1, <1>3, <2>1, KeyCallsDropped
<1>5. /\ unseen' \in [Portal!Keys -> 0 .. 1 + MaxSends]
      /\ \A k \in Portal!Keys : unseen'[k] = unseen[k] \/ (k = r.key /\ unseen'[k] = r.ver)
  <2>1. unseen' = unseen \/ unseen' = [unseen EXCEPT ![r.key] = r.ver]
    BY DEF Portal!DeliverRevoke
  <2> QED BY <1>2, <2>1 DEF PortalTyped
<1>6. KeysAreBehind'
  BY <1>1, <1>5, KeyReportIsBehind
<1>7. PortalTyped' /\ EditIsForKey'
  BY <1>1, <1>4, <1>5 DEF PortalTyped, EditIsForKey
<1> QED BY <1>1, <1>4, <1>6, <1>7 DEF SecretsRevealed

LEMMA PortalStep ==
  ASSUME PortalInv, Portal!Next
  PROVE  /\ PortalInv'
         /\ \A k \in Portal!Keys : banner' = k /\ banner # k => k \notin revealed
<1>1. CASE \E r \in net : Portal!DeliverFormAnswer(r)
  BY <1>1, KeyFormAnswerArrives
<1>2. CASE Portal!OpenForm \/ Portal!EditRpm \/ Portal!CloseBanner \/ Portal!SetAccountRate
  <2>1. banner' \in {banner, 0}
    BY <1>2 DEF Portal!OpenForm, Portal!EditRpm, Portal!CloseBanner, Portal!SetAccountRate
  <2> QED BY <1>2, <2>1, KeyFormsKeep, KeyFacts
<1>3. CASE \/ Portal!Refresh \/ Portal!CloseForm \/ Portal!SubmitForm \/ Portal!ReloadPage
           \/ \E k \in Portal!Keys : Portal!ClickRevoke(k)
  <2>1. banner' \in {banner, 0}
    BY <1>3 DEF Portal!Refresh, Portal!CloseForm, Portal!SubmitForm, Portal!ReloadPage,
                Portal!ClickRevoke
  <2> QED BY <1>3, <2>1, KeyReadingKeeps, KeySendingKeeps, ReloadKeeps, KeyFacts
<1>4. CASE \E r \in net : Portal!Serve(r) \/ Portal!Lose(r)
  <2>1. banner' = banner
    BY <1>4 DEF Portal!Serve, Portal!ServeLoad, Portal!CheckCreate, Portal!InsertKey,
                Portal!ServeChange, Portal!ServeOther, Portal!Lose
  <2> QED BY <1>4, <2>1, KeyServingKeeps
<1>5. CASE \E r \in net : Portal!DeliverNowhere(r) \/ Portal!DeliverLoad(r) \/ Portal!DeliverRevoke(r)
  <2>1. banner' = banner
    BY <1>5 DEF Portal!DeliverNowhere, Portal!DeliverLoad, Portal!DeliverRevoke
  <2> QED BY <1>5, <2>1, KeysArrive, RevokeAnswerArrives
<1> QED BY <1>1, <1>2, <1>3, <1>4, <1>5 DEF Portal!Next, Portal!Deliver

LEMMA PortalStart ==
  ASSUME Portal!Init
  PROVE  PortalInv
<1>1. /\ key = Portal!NoKeys /\ rate \in AccountRates /\ config = 0 /\ rows = Portal!NoKeys
      /\ loading = TRUE /\ form = Portal!Closed /\ banner = 0 /\ revealed = {}
      /\ unseen = [k \in Portal!Keys |-> 0] /\ net = {Portal!Load}
      /\ sends = 0 /\ others = 0 /\ losses = 0 /\ reloads = 0
  BY DEF Portal!Init
<1>2. PortalTyped
  <2>1. 0 \in 0 .. MaxSends /\ 0 \in 0 .. MaxOthers /\ 0 \in 0 .. MaxLosses
        /\ 0 \in 0 .. MaxReloads /\ 0 \in 0 .. 1 + MaxSends
    OBVIOUS
  <2> QED BY <1>1, <2>1, KeyFacts, KeysLoad, ClosedKeyForm DEF PortalTyped
<1>3. KeysAreBehind /\ EditIsForKey
  BY <1>1, KeyFacts, ClosedKeyForm DEF KeysAreBehind, EditIsForKey
<1>4. KeyCallsFit
  BY <1>1, KeyFacts, KeysLoad DEF KeyCallsFit, KeyCallFits
<1>5. RoomForKeys
  <2>1. Changing = {}
    BY <1>1, KeysLoad DEF Changing, MayChange
  <2>2. IsFiniteSet(Changing) /\ Cardinality(Changing) = 0
    BY <2>1, FS_EmptySet
  <2> QED BY <1>1, <2>2, KeyFacts DEF RoomForKeys
<1>6. SecretsUnread /\ SecretsRevealed
  BY <1>1, KeysLoad DEF SecretsUnread, SecretsRevealed, HasSecret
<1> QED BY <1>2, <1>3, <1>4, <1>5, <1>6 DEF PortalInv

\* On the developer portal: nothing shown or on its way is newer than its key,
\* and the secret of a new key is in one answer at most, which nobody has seen
\* (UserSelfPortal in main.tsx, GenerateKey).
THEOREM PortalInvariance == Spec => [](view = "portal" => PortalInv)
<1>1. Init => (view = "portal" => PortalInv)
  BY PortalStart DEF Init
<1>2. (view = "portal" => PortalInv) /\ [Next]_vars => (view = "portal" => PortalInv)'
  <2> SUFFICES ASSUME view = "portal" => PortalInv, [Next]_vars, view' = "portal"
               PROVE  PortalInv'
    OBVIOUS
  <2>1. CASE UNCHANGED vars
    BY <2>1 DEF vars, common, ofForms, ofPortal, PortalInv, PortalTyped, KeysAreBehind,
                KeyCallsFit, KeyCallFits, EditIsForKey, RoomForKeys, Changing,
                SecretsUnread, SecretsRevealed
  <2>2. CASE OnPortal /\ Portal!Next
    BY <2>2, PortalStep DEF OnPortal
  <2> QED BY <2>1, <2>2 DEF Next, OnUsers, OnWorkers
<1> QED BY <1>1, <1>2, PTL DEF Spec

\* A secret that has left the screen never comes back, however many keys are
\* created, whichever answers arrive first and whatever is closed meanwhile
\* ("you won't be able to view it again", KeyGeneratedBanner).
THEOREM SecretsShownOnce == Spec => SecretShownOnce
<1> DEFINE Step == view = "portal" =>
                     \A k \in 1 .. MaxKeys : banner' = k /\ banner # k => k \notin revealed
<1>1. (view = "portal" => PortalInv) /\ [Next]_vars => [Step]_vars
  <2> SUFFICES ASSUME view = "portal", PortalInv, Next
               PROVE  \A k \in 1 .. MaxKeys : banner' = k /\ banner # k => k \notin revealed
    OBVIOUS
  <2>1. Portal!Next
    BY DEF Next, OnUsers, OnPortal, OnWorkers
  <2> QED BY <2>1, PortalStep DEF Portal!Keys
<1> QED BY <1>1, PortalInvariance, PTL DEF Spec, SecretShownOnce

-----------------------------------------------------------------------------
\* Every page keeps its variables within their types, whatever its calls do.
THEOREM TypeCorrect == Spec => []TypeOK
<1> DEFINE OnAPage == view \in {"users", "portal", "workers"}
<1>1. Spec => []OnAPage
  <2>1. Init => OnAPage
    BY DEF Init
  <2>2. OnAPage /\ [Next]_vars => OnAPage'
    BY DEF Next, OnUsers, OnPortal, OnWorkers, vars, common
  <2> QED BY <2>1, <2>2, PTL DEF Spec
<1>2. /\ OnAPage /\ (view = "users" => UsersInv) /\ (view = "portal" => PortalInv)
      /\ (view = "workers" => WorkersInv)
      => TypeOK
  BY UsersTypedByInv, PortalTypedByInv, TypedByInv DEF TypeOK
<1> QED BY <1>1, <1>2, UsersInvariance, PortalInvariance, WorkersInvariance, PTL

=============================================================================
