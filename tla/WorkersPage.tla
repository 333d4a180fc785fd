---------------------------- MODULE WorkersPage ----------------------------
(***************************************************************************)
(* One visit of an administrator to proxy/admin-ui/src/WorkersPage.tsx:    *)
(* the poll loop, the controls and the enrollment dialog, against what the *)
(* proxy stores of every Mac (WorkerControl has the proxy's side in full). *)
(* Other administrators control the Macs too; whether a Mac is connected   *)
(* and how busy it is only fills cells of the table and is left out.       *)
(*                                                                         *)
(* Every run of the poll effect has a generation; refreshing disposes of   *)
(* the old run and starts the next.                                        *)
(***************************************************************************)
EXTENDS Integers

CONSTANTS
  Nodes,       \* registered Macs
  Nobody,      \* pending = ""
  AuthMode,    \* "shared" or "enrollment"
  MaxRuns,     \* runs of the poll effect (bound)
  MaxCalls,    \* controls and enrollments the page sends (bound)
  MaxOthers,   \* changes by others (bound)
  MaxLosses    \* calls and answers that get lost, refused polls (bound)

VARIABLES
  node,      \* what the proxy knows of each Mac
  nodes,     \* the page's copy; a Mac with version 0 is not in it
  authMode, loading, error, pending,
  code,      \* an enrollment code is on the screen
  run,       \* generation of the poll effect, `refresh`
  timer,     \* the current run waits for its timer
  polls,     \* polls in flight, those of disposed runs included
  call,      \* the control or enrollment in flight
  unseen,    \* version reported as controlled and not yet shown, or 0
  calls, others, losses

server == <<node>>
page == <<nodes, authMode, loading, error, pending, code, run, timer>>
bounds == <<calls, others, losses>>
vars == <<server, page, polls, call, unseen, bounds>>

Versions == 0 .. 1 + MaxCalls + MaxOthers
Node == [ver : Versions, revoked : BOOLEAN, paused : BOOLEAN]
Unknown == [ver |-> 0, revoked |-> FALSE, paused |-> FALSE]

Actions == {"pause", "resume", "drain", "revoke", "activate"}
Replies == {"none", "ok", "failed"}     \* refused or lost: both throw
Poll == [gen : 1 .. MaxRuns, reply : Replies, list : [Nodes -> Node]]
CallRec == [kind : Actions \cup {"enroll"}, node : Nodes \cup {Nobody},
            reply : Replies, ver : Versions]
NoCall == [kind |-> "none", node |-> Nobody, reply |-> "none", ver |-> 0]

TypeOK ==
  /\ node \in [Nodes -> Node] /\ nodes \in [Nodes -> Node]
  /\ authMode \in {"shared", AuthMode}
  /\ {loading, error, code, timer} \subseteq BOOLEAN
  /\ pending \in Nodes \cup {Nobody, "enrollment"}
  /\ run \in 1 .. MaxRuns
  /\ polls \subseteq Poll
  /\ call \in CallRec \cup {NoCall}
  /\ unseen \in [Nodes -> Versions]
  /\ calls \in 0 .. MaxCalls /\ others \in 0 .. MaxOthers /\ losses \in 0 .. MaxLosses
  \* one poll of the current run at a time, its timer runs between polls
  /\ timer => \A p \in polls : p.gen # run
  /\ ~timer => \E p \in polls : p.gen = run /\ \A q \in polls : q.gen = run => q = p
  \* the buttons are disabled for as long as a call is under way
  /\ (pending = Nobody) <=> (call = NoCall)

-----------------------------------------------------------------------------
(* What the page shows *)

\* The buttons of a row.
Offered(n) ==
  IF n.revoked THEN {"activate"}
  ELSE {IF n.paused THEN "resume" ELSE "pause", "drain", "revoke"}

NewPoll(gen) == [gen |-> gen, reply |-> "none",
                 list |-> [n \in Nodes |-> Unknown]]

Init ==
  /\ node \in [Nodes -> {n \in Node : n.ver = 1}]
  /\ nodes = [n \in Nodes |-> Unknown]
  /\ authMode = "shared" /\ loading = TRUE /\ error = FALSE
  /\ pending = Nobody /\ code = FALSE
  /\ run = 1 /\ timer = FALSE
  /\ polls = {NewPoll(1)}
  /\ call = NoCall
  /\ unseen = [n \in Nodes |-> 0]
  /\ calls = 0 /\ others = 0 /\ losses = 0

-----------------------------------------------------------------------------
(* The administrator *)

\* setRefresh: the effect is disposed of and runs again.  Faulty variant: its
\* cleanup does not clear the timer.
KeepsTimer(inFlight) ==
  /\ run' = run + 1
  /\ timer' = timer
  /\ polls' = inFlight \cup {NewPoll(run + 1)}
NextRun(inFlight) ==
  /\ run' = run + 1
  /\ timer' = FALSE
  /\ polls' = inFlight \cup {NewPoll(run + 1)}

ClickRefresh ==
  /\ run < MaxRuns - (MaxCalls - calls) - (IF call = NoCall THEN 0 ELSE 1)
  /\ ~code
  /\ NextRun(polls)
  /\ UNCHANGED <<server, nodes, authMode, loading, error, pending, code, call,
                 unseen, bounds>>

Send(c, who) ==
  /\ calls < MaxCalls /\ calls' = calls + 1
  /\ pending' = who /\ error' = FALSE
  /\ call' = c
  /\ UNCHANGED <<server, nodes, authMode, loading, code, run, timer, polls, unseen,
                 others, losses>>

ClickControl(n, action) ==
  /\ ~code /\ ~loading /\ nodes[n].ver > 0 /\ pending = Nobody
  /\ action \in Offered(nodes[n])
  /\ Send([NoCall EXCEPT !.kind = action, !.node = n], n)

ClickEnroll ==
  /\ ~code /\ authMode = "enrollment" /\ pending = Nobody /\ ~loading
  /\ Send([NoCall EXCEPT !.kind = "enroll"], "enrollment")

CloseCode ==
  /\ code
  /\ code' = FALSE
  /\ UNCHANGED <<server, nodes, authMode, loading, error, pending, run, timer,
                 polls, call, unseen, bounds>>

-----------------------------------------------------------------------------
(* The proxy, the Macs, the network *)

\* WorkerHub.Control on the stored row: controls other than revoke and
\* activate need a Mac that is not revoked.
Controlled(n, action) ==
  CASE action = "revoke" ->
         {[n EXCEPT !.ver = @ + 1, !.revoked = TRUE, !.paused = TRUE]}
    [] action = "activate" -> {[n EXCEPT !.ver = @ + 1, !.revoked = FALSE, !.paused = FALSE]}
    [] action \in {"pause", "drain"} /\ ~n.revoked -> {[n EXCEPT !.ver = @ + 1, !.paused = TRUE]}
    [] action = "resume" /\ ~n.revoked -> {[n EXCEPT !.ver = @ + 1, !.paused = FALSE]}
    [] OTHER -> {}

ServePoll(p) ==
  /\ p \in polls /\ p.reply = "none"
  /\ polls' = (polls \ {p}) \cup {[p EXCEPT !.reply = "ok", !.list = node]}
  /\ UNCHANGED <<server, page, call, unseen, bounds>>

ServeCall ==
  /\ call # NoCall /\ call.reply = "none"
  /\ \/ /\ call.kind \in Actions
        /\ \E new \in Controlled(node[call.node], call.kind) :
             /\ node' = [node EXCEPT ![call.node] = new]
             /\ call' = [call EXCEPT !.reply = "ok", !.ver = new.ver]
     \/ /\ call.kind = "enroll"
        /\ call' = [call EXCEPT !.reply = "ok"]
        /\ UNCHANGED node
     \/ call' = [call EXCEPT !.reply = "failed"] /\ UNCHANGED node
  /\ UNCHANGED <<page, polls, unseen, bounds>>

\* Another administrator.
Elsewhere(n) ==
  /\ others < MaxOthers /\ others' = others + 1
  /\ \E action \in Actions : \E new \in Controlled(node[n], action) :
       node' = [node EXCEPT ![n] = new]
  /\ UNCHANGED <<page, polls, call, unseen, calls, losses>>

Lose ==
  /\ losses < MaxLosses /\ losses' = losses + 1
  /\ \/ \E p \in polls :
          /\ p.reply # "failed"
          /\ polls' = (polls \ {p}) \cup {[p EXCEPT !.reply = "failed"]}
          /\ UNCHANGED call
     \/ /\ call # NoCall /\ call.reply # "failed"
        /\ call' = [call EXCEPT !.reply = "failed"]
        /\ UNCHANGED polls
  /\ UNCHANGED <<server, page, unseen, calls, others>>

-----------------------------------------------------------------------------
(* Answers arriving in the page *)

\* Faulty variant: a run that does not look whether it was disposed of.
NeverDisposed(p) == FALSE
Disposed(p) == p.gen # run

\* poll(): the list, or an error; and in any case the timer for the next one.
DeliverPoll(p) ==
  /\ p \in polls /\ p.reply # "none"
  /\ polls' = polls \ {p}
  /\ IF Disposed(p) THEN UNCHANGED <<page, unseen>>
     ELSE /\ IF p.reply = "ok"
             THEN /\ authMode' = AuthMode /\ nodes' = p.list /\ error' = FALSE
                  /\ unseen' = [n \in Nodes |-> IF p.list[n].ver >= unseen[n] THEN 0
                                                ELSE unseen[n]]
             ELSE error' = TRUE /\ UNCHANGED <<authMode, nodes, unseen>>
          /\ loading' = FALSE
          /\ timer' = TRUE
          /\ UNCHANGED <<pending, code, run>>
  /\ UNCHANGED <<server, call, bounds>>

TimerFires ==
  /\ timer
  /\ timer' = FALSE
  /\ polls' = polls \cup {NewPoll(run)}
  /\ UNCHANGED <<server, nodes, authMode, loading, error, pending, code, run, call,
                 unseen, bounds>>

\* The `finally` of control() and enroll().  Faulty variant: only after success.
ReleasedOnSuccess(c) == IF c.reply = "ok" THEN Nobody ELSE pending
Released(c) == Nobody

DeliverControl ==
  /\ call.kind \in Actions /\ call.reply # "none"
  /\ call' = NoCall
  /\ pending' = Released(call)
  /\ IF call.reply = "ok"
     THEN /\ NextRun(polls)
          /\ unseen' = [unseen EXCEPT ![call.node] = IF call.ver > @ THEN call.ver ELSE @]
          /\ UNCHANGED error
     ELSE error' = TRUE /\ UNCHANGED <<run, timer, polls, unseen>>
  /\ UNCHANGED <<server, nodes, authMode, loading, code, bounds>>

DeliverEnroll ==
  /\ call.kind = "enroll" /\ call.reply # "none"
  /\ call' = NoCall
  /\ pending' = Released(call)
  /\ IF call.reply = "ok" THEN code' = TRUE /\ UNCHANGED error
     ELSE error' = TRUE /\ UNCHANGED code
  /\ UNCHANGED <<server, nodes, authMode, loading, run, timer, polls, unseen, bounds>>

-----------------------------------------------------------------------------
Next ==
  \/ ClickRefresh \/ ClickEnroll \/ CloseCode
  \/ \E n \in Nodes : Elsewhere(n) \/ (\E action \in Actions : ClickControl(n, action))
  \/ \E p \in polls : ServePoll(p) \/ DeliverPoll(p)
  \/ ServeCall \/ DeliverControl \/ DeliverEnroll \/ TimerFires \/ Lose

\* The proxy answers the polls of every run, the browser delivers the answers.
ServeRun(gen) == \E p \in polls : p.gen = gen /\ ServePoll(p)
DeliverRun(gen) == \E p \in polls : p.gen = gen /\ DeliverPoll(p)
=============================================================================
