------------------------- MODULE WorkersPageProofs -------------------------
(***************************************************************************)
(* Proofs about the workers page of ConsolePages, for any number of Macs,  *)
(* polls in flight and runs of the poll effect.                            *)
(***************************************************************************)
EXTENDS ConsolePages, TLAPS

USE NamesAssumption, ValuesAssumption, BoundsAssumption, RunsAssumption

\* A poll of the current run is in flight or its timer is running, never both;
\* the other polls are of earlier runs.
OnePoll ==
  /\ \A p \in polls : p.gen <= run
  /\ timer => \A p \in polls : p.gen # run
  /\ ~timer => \E p \in polls : p.gen = run /\ \A q \in polls : q.gen = run => q = p

\* Versions of a Mac: the table's, that of an answer to the current run, the proxy's.
TableIsBehind ==
  \A n \in Nodes :
    /\ nodes[n].ver <= node[n].ver
    /\ \A p \in polls : p.reply = "ok" /\ p.gen = run =>
         nodes[n].ver <= p.list[n].ver /\ p.list[n].ver <= node[n].ver

\* What the bounds leave room for.
Sent == IF call # Workers!NoCall THEN 1 ELSE 0
Owed == IF call # Workers!NoCall /\ call.reply = "none" THEN 1 ELSE 0

CallFits ==
  /\ (pending = Nobody) <=> (call = Workers!NoCall)
  /\ call.kind \in Workers!Actions => call.node \in Nodes

RoomLeft ==
  /\ run + (MaxCalls - calls) + Sent <= MaxRuns
  /\ \A n \in Nodes : node[n].ver + Owed <= 1 + calls + others

WorkersTyped ==
  /\ node \in [Nodes -> Workers!Node] /\ nodes \in [Nodes -> Workers!Node]
  /\ authMode \in {"shared", AuthMode}
  /\ loading \in BOOLEAN /\ error \in BOOLEAN /\ code \in BOOLEAN /\ timer \in BOOLEAN
  /\ pending \in Nodes \cup {Nobody, "enrollment"}
  /\ run \in 1 .. MaxRuns
  /\ polls \in SUBSET Workers!Poll
  /\ call \in Workers!CallRec \cup {Workers!NoCall}
  /\ unseen \in [Nodes -> Workers!Versions]
  /\ calls \in 0 .. MaxCalls /\ others \in 0 .. MaxOthers /\ losses \in 0 .. MaxLosses

WorkersInv == WorkersTyped /\ OnePoll /\ TableIsBehind /\ CallFits /\ RoomLeft

LEMMA TypedByInv ==
  ASSUME WorkersInv
  PROVE  Workers!TypeOK
BY DEF WorkersInv, WorkersTyped, OnePoll, CallFits, Workers!TypeOK

LEMMA NextRunPolls ==
  ASSUME WorkersInv, NEW inFlight \in SUBSET polls, run + 1 \in 1 .. MaxRuns,
         Workers!NextRun(inFlight), node' = node, nodes' = nodes
  PROVE  /\ run' \in 1 .. MaxRuns /\ timer' \in BOOLEAN /\ polls' \in SUBSET Workers!Poll
         /\ OnePoll' /\ TableIsBehind'
<1> DEFINE fresh == Workers!NewPoll(run + 1)
<1>1. fresh \in Workers!Poll /\ fresh.gen = run + 1 /\ fresh.reply = "none"
  <2>1. Workers!Unknown \in Workers!Node
    BY DEF Workers!Unknown, Workers!Node, Workers!Versions
  <2> QED BY <2>1 DEF Workers!NewPoll, Workers!Poll, Workers!Replies
<1>2. run' = run + 1 /\ timer' = FALSE /\ polls' = inFlight \cup {fresh}
  BY DEF Workers!NextRun
<1> HIDE DEF fresh
<1>3. \A p \in inFlight : p.gen <= run /\ p.gen \in Int /\ p \in Workers!Poll
  BY DEF WorkersInv, WorkersTyped, OnePoll, Workers!Poll
<1>4. run \in Int
  BY DEF WorkersInv, WorkersTyped
<1>5. OnePoll'
  <2>1. \A p \in polls' : p.gen <= run'
    BY <1>1, <1>2, <1>3, <1>4
  <2>2. \A q \in polls' : q.gen = run' => q = fresh
    BY <1>1, <1>2, <1>3, <1>4
  <2> QED BY <1>1, <1>2, <2>1, <2>2 DEF OnePoll
<1>6. TableIsBehind'
  BY <1>1, <1>2, <1>3, <1>4 DEF WorkersInv, TableIsBehind
<1> QED BY <1>1, <1>2, <1>3, <1>5, <1>6

-----------------------------------------------------------------------------
(* One lemma per step of the page.                                         *)

\* What the steps between polls leave alone.
LEMMA PollsUntouched ==
  ASSUME WorkersInv, UNCHANGED <<nodes, run, timer, polls>>,
         node' \in [Nodes -> Workers!Node],
         \A n \in Nodes : node[n].ver <= node'[n].ver
  PROVE  OnePoll' /\ TableIsBehind'
<1>1. OnePoll'
  BY DEF WorkersInv, OnePoll
<1>2. ASSUME NEW n \in Nodes
      PROVE  /\ nodes[n].ver \in Int /\ node[n].ver \in Int /\ node'[n].ver \in Int
             /\ \A p \in polls : p.list[n].ver \in Int
  BY DEF WorkersInv, WorkersTyped, Workers!Node, Workers!Versions, Workers!Poll
<1>3. TableIsBehind'
  BY <1>2 DEF WorkersInv, TableIsBehind
<1> QED BY <1>1, <1>3

LEMMA RefreshKeeps ==
  ASSUME WorkersInv, Workers!ClickRefresh
  PROVE  WorkersInv'
<1> USE DEF WorkersInv, Workers!server, Workers!bounds
<1>1. /\ UNCHANGED <<node, nodes, authMode, loading, error, pending, code, call, unseen,
                     calls, others, losses>>
      /\ Workers!NextRun(polls)
  BY DEF Workers!ClickRefresh
<1>2. run + 1 + (MaxCalls - calls) + Sent <= MaxRuns /\ run + 1 \in 1 .. MaxRuns
  BY DEF Workers!ClickRefresh, Sent, WorkersTyped
<1>3. /\ run' \in 1 .. MaxRuns /\ timer' \in BOOLEAN /\ polls' \in SUBSET Workers!Poll
      /\ OnePoll' /\ TableIsBehind' /\ run' = run + 1
  BY <1>1, <1>2, NextRunPolls DEF Workers!NextRun
<1>4. WorkersTyped'
  BY <1>1, <1>3 DEF WorkersTyped
<1>5. CallFits' /\ RoomLeft'
  BY <1>1, <1>2, <1>3 DEF CallFits, RoomLeft, Sent, Owed
<1> QED BY <1>3, <1>4, <1>5

LEMMA SendKeeps ==
  ASSUME WorkersInv, NEW c \in Workers!CallRec, NEW who \in Nodes \cup {"enrollment"},
         c.kind \in Workers!Actions => c.node \in Nodes, c # Workers!NoCall,
         pending = Nobody, Workers!Send(c, who)
  PROVE  WorkersInv'
<1> USE DEF WorkersInv, Workers!server, Workers!bounds
<1>1. /\ UNCHANGED <<node, nodes, authMode, loading, code, run, timer, polls, unseen, others, losses>>
      /\ calls' = calls + 1 /\ calls < MaxCalls
      /\ pending' = who /\ error' = FALSE /\ call' = c
  BY DEF Workers!Send
<1>2. WorkersTyped'
  <2>1. calls' \in 0 .. MaxCalls
    BY <1>1 DEF WorkersTyped
  <2>2. FALSE \in BOOLEAN /\ who \in Nodes \cup {Nobody, "enrollment"}
    OBVIOUS
  <2> QED BY <1>1, <2>1, <2>2 DEF WorkersTyped
<1>3. OnePoll' /\ TableIsBehind'
  <2>1. \A n \in Nodes : node[n].ver \in Int
    BY DEF WorkersTyped, Workers!Node, Workers!Versions
  <2> QED BY <1>1, <2>1, PollsUntouched DEF WorkersTyped
<1>4. CallFits'
  BY <1>1 DEF CallFits
<1>5. RoomLeft'
  <2>1. call = Workers!NoCall
    BY DEF CallFits
  <2>2. \A n \in Nodes : node[n].ver \in Int
    BY DEF WorkersTyped, Workers!Node, Workers!Versions
  <2> QED BY <1>1, <2>1, <2>2 DEF RoomLeft, Sent, Owed, WorkersTyped
<1> QED BY <1>2, <1>3, <1>4, <1>5

LEMMA ClicksKeep ==
  ASSUME WorkersInv,
         \/ Workers!ClickEnroll \/ Workers!CloseCode
         \/ \E n \in Nodes, action \in Workers!Actions : Workers!ClickControl(n, action)
  PROVE  WorkersInv'
<1>1. CASE Workers!ClickEnroll
  <2> DEFINE c == [Workers!NoCall EXCEPT !.kind = "enroll"]
  <2>1. c \in Workers!CallRec /\ c.kind = "enroll"
    BY DEF Workers!NoCall, Workers!CallRec, Workers!Replies, Workers!Versions
  <2>2. c # Workers!NoCall /\ ~(c.kind \in Workers!Actions)
    BY <2>1 DEF Workers!NoCall, Workers!Actions
  <2>3. pending = Nobody /\ Workers!Send(c, "enrollment")
    BY <1>1 DEF Workers!ClickEnroll
  <2> HIDE DEF c
  <2> QED BY <2>1, <2>2, <2>3, SendKeeps
<1>2. ASSUME NEW n \in Nodes, NEW action \in Workers!Actions, Workers!ClickControl(n, action)
      PROVE  WorkersInv'
  <2> DEFINE c == [Workers!NoCall EXCEPT !.kind = action, !.node = n]
  <2>0. 0 \in Workers!Versions /\ "none" \in Workers!Replies
    BY DEF Workers!Versions, Workers!Replies
  <2>1. c \in Workers!CallRec /\ c.kind = action /\ c.node = n
    BY <2>0 DEF Workers!NoCall, Workers!CallRec
  <2>2. c # Workers!NoCall
    BY <2>1 DEF Workers!NoCall, Workers!Actions
  <2>3. pending = Nobody /\ Workers!Send(c, n)
    BY <1>2 DEF Workers!ClickControl
  <2> HIDE DEF c
  <2> QED BY <2>1, <2>2, <2>3, SendKeeps
<1>3. CASE Workers!CloseCode
  <2>1. /\ UNCHANGED <<node, nodes, authMode, loading, error, pending, run, timer, polls, call,
                       unseen, calls, others, losses>>
        /\ code' = FALSE
    BY <1>3 DEF Workers!CloseCode, Workers!server, Workers!bounds
  <2> QED BY <2>1 DEF WorkersInv, WorkersTyped, OnePoll, TableIsBehind, CallFits, RoomLeft, Sent, Owed
<1> QED BY <1>1, <1>2, <1>3

\* What another administrator or the page's own control makes of a Mac.
LEMMA ControlledNode ==
  ASSUME NEW n \in Workers!Node, NEW action, NEW new \in Workers!Controlled(n, action),
         n.ver + 1 \in Workers!Versions
  PROVE  new \in Workers!Node /\ new.ver = n.ver + 1
BY DEF Workers!Node, Workers!Controlled

LEMMA ServersKeep ==
  ASSUME WorkersInv,
         \/ \E n \in Nodes : Workers!Elsewhere(n)
         \/ Workers!ServeCall
  PROVE  WorkersInv'
<1> USE DEF WorkersInv
<1>1. \A n \in Nodes : node[n] \in Workers!Node /\ node[n].ver \in Nat
  BY DEF WorkersTyped, Workers!Node, Workers!Versions
<1>2. ASSUME NEW n \in Nodes, NEW new \in Workers!Node, new.ver = node[n].ver + 1,
             node' = [node EXCEPT ![n] = new],
             UNCHANGED <<nodes, run, timer, polls>>
      PROVE  node' \in [Nodes -> Workers!Node] /\ OnePoll' /\ TableIsBehind'
  <2>1. node' \in [Nodes -> Workers!Node] /\ \A m \in Nodes : node[m].ver <= node'[m].ver
    BY <1>1, <1>2 DEF WorkersTyped
  <2> QED BY <1>2, <2>1, PollsUntouched
<1>3. ASSUME NEW n \in Nodes, Workers!Elsewhere(n)
      PROVE  WorkersInv'
  <2>1. PICK action, new : new \in Workers!Controlled(node[n], action) /\ node' = [node EXCEPT ![n] = new]
    BY <1>3 DEF Workers!Elsewhere
  <2>2. /\ UNCHANGED <<nodes, authMode, loading, error, pending, code, run, timer, polls, call,
                       unseen, calls, losses>>
        /\ others < MaxOthers /\ others' = others + 1
    BY <1>3 DEF Workers!Elsewhere, Workers!page
  <2>3. node[n].ver + 1 \in Workers!Versions
    BY <1>1, <2>2 DEF RoomLeft, Owed, Workers!Versions, WorkersTyped
  <2>4. new \in Workers!Node /\ new.ver = node[n].ver + 1
    BY <1>1, <2>1, <2>3, ControlledNode
  <2>5. node' \in [Nodes -> Workers!Node] /\ OnePoll' /\ TableIsBehind'
    BY <1>2, <2>1, <2>2, <2>4
  <2>6. others' \in 0 .. MaxOthers
    BY <2>2 DEF WorkersTyped
  <2>7. WorkersTyped' /\ CallFits'
    BY <2>2, <2>5, <2>6 DEF WorkersTyped, CallFits
  <2>8. RoomLeft'
    <3>1. \A m \in Nodes : node'[m].ver <= node[m].ver + 1 /\ node'[m].ver \in Nat
      BY <1>1, <2>1, <2>4 DEF WorkersTyped
    <3> QED BY <1>1, <2>2, <3>1 DEF RoomLeft, Sent, Owed, WorkersTyped
  <2> QED BY <2>5, <2>7, <2>8
<1>4. ASSUME Workers!ServeCall
      PROVE  WorkersInv'
  <2>1. /\ UNCHANGED <<nodes, authMode, loading, error, pending, code, run, timer, polls,
                       unseen, calls, others, losses>>
        /\ call # Workers!NoCall /\ call \in Workers!CallRec /\ call.reply = "none"
    BY <1>4 DEF Workers!ServeCall, Workers!page, Workers!bounds, WorkersTyped
  <2>2. ASSUME NEW c \in Workers!CallRec, call' = c, c.reply # "none",
               c.kind = call.kind, c.node = call.node,
               node' \in [Nodes -> Workers!Node], OnePoll', TableIsBehind',
               \A m \in Nodes : node'[m].ver <= node[m].ver + 1
        PROVE  WorkersInv'
    <3>1. c # Workers!NoCall
      BY <2>2 DEF Workers!NoCall
    <3>2. WorkersTyped' /\ CallFits'
      BY <2>1, <2>2, <3>1 DEF WorkersTyped, CallFits
    <3>3. RoomLeft'
      <4>1. \A m \in Nodes : node'[m].ver \in Nat
        BY <2>2 DEF Workers!Node, Workers!Versions
      <4> QED BY <1>1, <2>1, <2>2, <3>1, <4>1 DEF RoomLeft, Sent, Owed, WorkersTyped
    <3> QED BY <2>2, <3>2, <3>3
  <2>3. ASSUME call.kind \in Workers!Actions,
               NEW new \in Workers!Controlled(node[call.node], call.kind),
               node' = [node EXCEPT ![call.node] = new],
               call' = [call EXCEPT !.reply = "ok", !.ver = new.ver]
        PROVE  WorkersInv'
    <3>1. PICK n \in Nodes : n = call.node
      BY <2>3 DEF CallFits
    <3>2. node[n].ver + 1 \in Workers!Versions
      BY <1>1, <2>1 DEF RoomLeft, Owed, Workers!Versions, WorkersTyped
    <3>3. new \in Workers!Node /\ new.ver = node[n].ver + 1
      BY <1>1, <2>3, <3>1, <3>2, ControlledNode
    <3>4. node' \in [Nodes -> Workers!Node] /\ OnePoll' /\ TableIsBehind'
      BY <1>2, <2>1, <2>3, <3>1, <3>3
    <3>5. \A m \in Nodes : node'[m].ver <= node[m].ver + 1
      BY <1>1, <2>3, <3>1, <3>3 DEF WorkersTyped
    <3> DEFINE c == [call EXCEPT !.reply = "ok", !.ver = new.ver]
    <3>6. c \in Workers!CallRec /\ c.reply = "ok" /\ c.kind = call.kind /\ c.node = call.node
      <4>1. new.ver \in Workers!Versions /\ "ok" \in Workers!Replies
        BY <3>3 DEF Workers!Node, Workers!Replies
      <4> QED BY <2>1, <4>1 DEF Workers!CallRec
    <3>7. call' = c
      BY <2>3
    <3> HIDE DEF c
    <3> QED BY <2>2, <3>4, <3>5, <3>6, <3>7
  <2>4. ASSUME NEW reply \in {"ok", "failed"}, call' = [call EXCEPT !.reply = reply], node' = node
        PROVE  WorkersInv'
    <3> DEFINE c == [call EXCEPT !.reply = reply]
    <3>1. c \in Workers!CallRec /\ c.reply = reply /\ c.kind = call.kind /\ c.node = call.node
      BY <2>1 DEF Workers!CallRec, Workers!Replies
    <3>2. call' = c
      BY <2>4
    <3> HIDE DEF c
    <3>3. \A m \in Nodes : node'[m].ver <= node[m].ver + 1 /\ node[m].ver <= node'[m].ver
      BY <1>1, <2>4
    <3>4. OnePoll' /\ TableIsBehind'
      BY <2>1, <2>4, <3>3, PollsUntouched DEF WorkersTyped
    <3> QED BY <2>2, <2>4, <3>1, <3>2, <3>3, <3>4 DEF WorkersTyped
  <2> QED BY <1>4, <2>3, <2>4 DEF Workers!ServeCall
<1> QED BY <1>3, <1>4

\* A poll is answered, by the proxy or by an error.
LEMMA PollAnswered ==
  ASSUME WorkersInv, NEW p \in polls, NEW q \in Workers!Poll, q.gen = p.gen,
         q.reply = "ok" => q.list = node,
         polls' = (polls \ {p}) \cup {q},
         UNCHANGED <<node, nodes, authMode, loading, error, pending, code, run, timer, call,
                     unseen, calls, others>>,
         losses' \in 0 .. MaxLosses
  PROVE  WorkersInv'
<1> USE DEF WorkersInv
<1>1. WorkersTyped' /\ CallFits' /\ RoomLeft'
  BY DEF WorkersTyped, CallFits, RoomLeft, Sent, Owed
<1>2. OnePoll'
  BY DEF OnePoll
<1>3. TableIsBehind'
  <2>1. \A n \in Nodes : node[n].ver \in Int
    BY DEF WorkersTyped, Workers!Node, Workers!Versions
  <2> QED BY <2>1 DEF TableIsBehind
<1> QED BY <1>1, <1>2, <1>3

LEMMA NetworkKeeps ==
  ASSUME WorkersInv, Workers!Lose \/ \E p \in polls : Workers!ServePoll(p)
  PROVE  WorkersInv'
<1> USE DEF WorkersInv
<1>1. ASSUME NEW p \in polls, Workers!ServePoll(p)
      PROVE  WorkersInv'
  <2> DEFINE read(list) == [p EXCEPT !.reply = "ok", !.list = list]
  <2>1. PICK now : now = node
    OBVIOUS
  <2>2. read(now) \in Workers!Poll /\ read(now).gen = p.gen /\ read(now).list = now
    BY <2>1 DEF WorkersTyped, Workers!Poll, Workers!Replies
  <2>3. /\ polls' = (polls \ {p}) \cup {read(now)}
        /\ UNCHANGED <<node, nodes, authMode, loading, error, pending, code, run, timer, call,
                       unseen, calls, others, losses>>
    BY <1>1, <2>1 DEF Workers!ServePoll, Workers!server, Workers!page, Workers!bounds
  <2> HIDE DEF read
  <2>4. losses' \in 0 .. MaxLosses
    BY <2>3 DEF WorkersTyped
  <2> QED BY <2>1, <2>2, <2>3, <2>4, PollAnswered
<1>2. CASE Workers!Lose
  <2>1. /\ UNCHANGED <<node, nodes, authMode, loading, error, pending, code, run, timer,
                       unseen, calls, others>>
        /\ losses' \in 0 .. MaxLosses
    BY <1>2 DEF Workers!Lose, Workers!server, Workers!page, WorkersTyped
  <2>2. ASSUME NEW p \in polls, polls' = (polls \ {p}) \cup {[p EXCEPT !.reply = "failed"]},
               UNCHANGED call
        PROVE  WorkersInv'
    <3> DEFINE q == [p EXCEPT !.reply = "failed"]
    <3>1. q \in Workers!Poll /\ q.gen = p.gen /\ q.reply = "failed"
      BY DEF WorkersTyped, Workers!Poll, Workers!Replies
    <3>2. polls' = (polls \ {p}) \cup {q}
      BY <2>2
    <3> HIDE DEF q
    <3> QED BY <2>1, <2>2, <3>1, <3>2, PollAnswered
  <2>3. ASSUME call # Workers!NoCall, call' = [call EXCEPT !.reply = "failed"], UNCHANGED polls
        PROVE  WorkersInv'
    <3>1. /\ call' \in Workers!CallRec /\ call'.kind = call.kind /\ call'.node = call.node
          /\ call'.reply = "failed" /\ call' # Workers!NoCall
      BY <2>3 DEF WorkersTyped, Workers!CallRec, Workers!Replies, Workers!NoCall
    <3>2. WorkersTyped' /\ CallFits'
      BY <2>1, <2>3, <3>1 DEF WorkersTyped, CallFits
    <3>3. OnePoll' /\ TableIsBehind'
      <4>1. \A n \in Nodes : node[n].ver \in Int
        BY DEF WorkersTyped, Workers!Node, Workers!Versions
      <4> QED BY <2>1, <2>3, <4>1, PollsUntouched DEF WorkersTyped
    <3>4. RoomLeft'
      <4>1. \A n \in Nodes : node[n].ver \in Int
        BY DEF WorkersTyped, Workers!Node, Workers!Versions
      <4> QED BY <2>1, <2>3, <3>1, <4>1 DEF RoomLeft, Sent, Owed, WorkersTyped
    <3> QED BY <3>2, <3>3, <3>4
  <2> QED BY <1>2, <2>2, <2>3 DEF Workers!Lose
<1> QED BY <1>1, <1>2

\* A poll of a disposed run changes nothing; that of the current run is the
\* only one, so that the timer may start.
LEMMA PollDelivered ==
  ASSUME WorkersInv, NEW p \in polls, Workers!DeliverPoll(p)
  PROVE  WorkersInv' /\ \A n \in Nodes : nodes'[n].ver >= nodes[n].ver
<1> USE DEF WorkersInv
<1>1. /\ UNCHANGED <<node, pending, code, run, call, calls, others, losses>>
      /\ polls' = polls \ {p} /\ p.reply # "none"
  BY DEF Workers!DeliverPoll, Workers!server, Workers!page, Workers!bounds, Workers!Disposed
<1>2. CallFits' /\ RoomLeft'
  BY <1>1 DEF CallFits, RoomLeft, Sent, Owed
<1>3. ASSUME NEW n \in Nodes
      PROVE  /\ nodes[n].ver \in Nat /\ node[n].ver \in Nat
             /\ p.list[n] \in Workers!Node /\ p.list[n].ver \in Workers!Versions
  BY DEF WorkersTyped, Workers!Node, Workers!Versions, Workers!Poll
<1>4. CASE p.gen # run
  <2>1. UNCHANGED <<nodes, authMode, loading, error, timer, unseen>>
    BY <1>4 DEF Workers!DeliverPoll, Workers!page, Workers!Disposed
  <2>2. OnePoll'
    BY <1>1, <1>4, <2>1 DEF OnePoll
  <2>3. TableIsBehind'
    BY <1>1, <2>1 DEF TableIsBehind
  <2> QED BY <1>1, <1>2, <1>3, <2>1, <2>2, <2>3 DEF WorkersTyped
<1>5. CASE p.gen = run
  <2>1. /\ loading' = FALSE /\ timer' = TRUE
        /\ \/ /\ p.reply = "ok" /\ authMode' = AuthMode /\ nodes' = p.list /\ error' = FALSE
              /\ unseen' = [n \in Nodes |-> IF p.list[n].ver >= unseen[n] THEN 0 ELSE unseen[n]]
           \/ error' = TRUE /\ UNCHANGED <<authMode, nodes, unseen>>
    BY <1>5 DEF Workers!DeliverPoll, Workers!Disposed
  <2>2. \A q \in polls' : q.gen # run
    BY <1>1, <1>5 DEF OnePoll, WorkersTyped
  <2>3. OnePoll'
    BY <1>1, <2>1, <2>2 DEF OnePoll
  <2>4. \A n \in Nodes : nodes'[n].ver <= node[n].ver /\ nodes'[n].ver >= nodes[n].ver
    BY <1>3, <1>5, <2>1 DEF TableIsBehind
  <2>5. TableIsBehind'
    BY <1>1, <2>2, <2>4 DEF TableIsBehind
  <2>6. nodes' \in [Nodes -> Workers!Node] /\ unseen' \in [Nodes -> Workers!Versions]
    <3>1. p.list \in [Nodes -> Workers!Node] /\ 0 \in Workers!Versions
      BY DEF WorkersTyped, Workers!Poll, Workers!Versions
    <3> QED BY <2>1, <3>1 DEF WorkersTyped
  <2>7. WorkersTyped'
    <3>1. authMode' \in {"shared", AuthMode} /\ loading' \in BOOLEAN
          /\ error' \in BOOLEAN /\ timer' \in BOOLEAN
      BY <2>1 DEF WorkersTyped
    <3> QED BY <1>1, <2>6, <3>1 DEF WorkersTyped
  <2> QED BY <1>2, <2>3, <2>4, <2>5, <2>7
<1> QED BY <1>4, <1>5

LEMMA TimerKeeps ==
  ASSUME WorkersInv, Workers!TimerFires
  PROVE  WorkersInv'
<1> USE DEF WorkersInv
<1>1. PICK fresh : fresh = Workers!NewPoll(run)
  OBVIOUS
<1>2. fresh \in Workers!Poll /\ fresh.gen = run /\ fresh.reply = "none"
  <2>1. Workers!Unknown \in Workers!Node
    BY DEF Workers!Unknown, Workers!Node, Workers!Versions
  <2> QED BY <1>1, <2>1 DEF Workers!NewPoll, Workers!Poll, Workers!Replies, WorkersTyped
<1>3. /\ UNCHANGED <<node, nodes, authMode, loading, error, pending, code, run, call, unseen,
                     calls, others, losses>>
      /\ timer /\ timer' = FALSE /\ polls' = polls \cup {fresh}
  BY <1>1 DEF Workers!TimerFires, Workers!server, Workers!bounds
<1>4. WorkersTyped' /\ CallFits' /\ RoomLeft'
  BY <1>2, <1>3 DEF WorkersTyped, CallFits, RoomLeft, Sent, Owed
<1>5. OnePoll'
  <2>1. run \in Int
    BY DEF WorkersTyped
  <2> QED BY <1>2, <1>3, <2>1 DEF OnePoll
<1>6. TableIsBehind'
  BY <1>2, <1>3 DEF TableIsBehind
<1> QED BY <1>4, <1>5, <1>6

LEMMA AnswersKeep ==
  ASSUME WorkersInv, Workers!DeliverControl \/ Workers!DeliverEnroll
  PROVE  WorkersInv'
<1> USE DEF WorkersInv
<1>1. /\ UNCHANGED <<node, nodes, authMode, loading, calls, others, losses>>
      /\ call \in Workers!CallRec /\ call # Workers!NoCall /\ call.reply # "none"
      /\ call' = Workers!NoCall /\ pending' = Nobody /\ error' \in BOOLEAN
  <2>1. /\ UNCHANGED <<node, nodes, authMode, loading, calls, others, losses>>
        /\ call' = Workers!NoCall /\ pending' = Nobody /\ error' \in BOOLEAN
        /\ call.kind # "none" /\ call.reply # "none"
    BY DEF Workers!DeliverControl, Workers!DeliverEnroll, Workers!Released, Workers!server,
           Workers!bounds, WorkersTyped, Workers!Actions
  <2> QED BY <2>1 DEF WorkersTyped, Workers!NoCall
<1>2. CallFits'
  BY <1>1 DEF CallFits, Workers!NoCall, Workers!Actions
<1>3. \A n \in Nodes : node'[n].ver + Owed' <= 1 + calls' + others'
  <2>1. \A n \in Nodes : node[n].ver \in Int
    BY DEF WorkersTyped, Workers!Node, Workers!Versions
  <2> QED BY <1>1, <2>1 DEF RoomLeft, Owed
<1>4. CASE Workers!DeliverControl /\ call.reply = "ok"
  <2>1. /\ Workers!NextRun(polls) /\ UNCHANGED code
        /\ unseen' = [unseen EXCEPT ![call.node] = IF call.ver > @ THEN call.ver ELSE @]
    BY <1>4 DEF Workers!DeliverControl
  <2>2. run + 1 + (MaxCalls - calls) <= MaxRuns /\ run + 1 \in 1 .. MaxRuns
    BY <1>1 DEF RoomLeft, Sent, WorkersTyped
  <2>3. /\ run' \in 1 .. MaxRuns /\ timer' \in BOOLEAN /\ polls' \in SUBSET Workers!Poll
        /\ OnePoll' /\ TableIsBehind' /\ run' = run + 1
    BY <1>1, <2>1, <2>2, NextRunPolls DEF Workers!NextRun
  <2>4. unseen' \in [Nodes -> Workers!Versions]
    BY <1>1, <2>1 DEF WorkersTyped, Workers!CallRec
  <2>5. WorkersTyped'
    BY <1>1, <2>1, <2>3, <2>4 DEF WorkersTyped
  <2>6. RoomLeft'
    <3>1. Sent' = 0
      BY <1>1 DEF Sent, Workers!NoCall
    <3> QED BY <1>1, <1>3, <2>2, <2>3, <3>1 DEF RoomLeft, WorkersTyped
  <2> QED BY <1>2, <2>3, <2>5, <2>6
<1>5. CASE ~(Workers!DeliverControl /\ call.reply = "ok")
  <2>1. UNCHANGED <<run, timer, polls, unseen>> /\ code' \in BOOLEAN
    BY <1>5 DEF Workers!DeliverControl, Workers!DeliverEnroll, WorkersTyped
  <2>2. WorkersTyped'
    BY <1>1, <2>1 DEF WorkersTyped
  <2>3. OnePoll' /\ TableIsBehind'
    <3>1. \A n \in Nodes : node[n].ver \in Int
      BY DEF WorkersTyped, Workers!Node, Workers!Versions
    <3> QED BY <1>1, <2>1, <3>1, PollsUntouched DEF WorkersTyped
  <2>4. RoomLeft'
    <3>1. Sent' = 0 /\ Sent = 1
      BY <1>1 DEF Sent, Workers!NoCall
    <3> QED BY <1>1, <1>3, <2>1, <3>1 DEF RoomLeft, WorkersTyped
  <2> QED BY <1>2, <2>2, <2>3, <2>4
<1> QED BY <1>4, <1>5

-----------------------------------------------------------------------------
(* The page as a whole.                                                    *)

LEMMA WorkersStep ==
  ASSUME WorkersInv, Workers!Next
  PROVE  WorkersInv' /\ \A n \in Nodes : nodes'[n].ver >= nodes[n].ver
<1>1. ASSUME UNCHANGED nodes
      PROVE  \A n \in Nodes : nodes'[n].ver >= nodes[n].ver
  BY <1>1 DEF WorkersInv, WorkersTyped, Workers!Node, Workers!Versions
<1>2. CASE \E p \in polls : Workers!DeliverPoll(p)
  BY <1>2, PollDelivered
<1>3. CASE \/ Workers!ClickRefresh \/ Workers!ClickEnroll \/ Workers!CloseCode
           \/ \E n \in Nodes, action \in Workers!Actions : Workers!ClickControl(n, action)
  <2>1. UNCHANGED nodes
    BY <1>3 DEF Workers!ClickRefresh, Workers!ClickEnroll, Workers!CloseCode,
                Workers!ClickControl, Workers!Send
  <2> QED BY <1>1, <1>3, <2>1, RefreshKeeps, ClicksKeep
<1>4. CASE \/ Workers!ServeCall \/ Workers!Lose \/ \E n \in Nodes : Workers!Elsewhere(n)
           \/ \E p \in polls : Workers!ServePoll(p)
  <2>1. UNCHANGED nodes
    BY <1>4 DEF Workers!ServeCall, Workers!Lose, Workers!Elsewhere, Workers!ServePoll, Workers!page
  <2> QED BY <1>1, <1>4, <2>1, ServersKeep, NetworkKeeps
<1>5. CASE Workers!TimerFires \/ Workers!DeliverControl \/ Workers!DeliverEnroll
  <2>1. UNCHANGED nodes
    BY <1>5 DEF Workers!TimerFires, Workers!DeliverControl, Workers!DeliverEnroll
  <2> QED BY <1>1, <1>5, <2>1, TimerKeeps, AnswersKeep
<1> QED BY <1>2, <1>3, <1>4, <1>5 DEF Workers!Next

LEMMA WorkersStart ==
  ASSUME Workers!Init
  PROVE  WorkersInv
<1>1. Workers!Unknown \in Workers!Node /\ Workers!Unknown.ver = 0
  BY DEF Workers!Unknown, Workers!Node, Workers!Versions
<1>2. /\ Workers!NewPoll(1) \in Workers!Poll /\ Workers!NewPoll(1).gen = 1
      /\ Workers!NewPoll(1).reply = "none"
  BY <1>1 DEF Workers!NewPoll, Workers!Poll, Workers!Replies
<1>3. WorkersTyped
  <2>1. node \in [Nodes -> Workers!Node] /\ nodes \in [Nodes -> Workers!Node]
        /\ unseen \in [Nodes -> Workers!Versions]
    BY <1>1 DEF Workers!Init, Workers!Versions
  <2>2. 0 \in 0 .. MaxCalls /\ 0 \in 0 .. MaxOthers /\ 0 \in 0 .. MaxLosses /\ 1 \in 1 .. MaxRuns
    OBVIOUS
  <2> QED BY <1>2, <2>1, <2>2 DEF WorkersTyped, Workers!Init
<1>4. OnePoll
  BY <1>2 DEF OnePoll, Workers!Init
<1>5. \A n \in Nodes : node[n].ver = 1 /\ nodes[n].ver = 0
  BY <1>1 DEF Workers!Init
<1>6. TableIsBehind
  BY <1>2, <1>5 DEF TableIsBehind, Workers!Init
<1>7. CallFits
  BY DEF CallFits, Workers!Init, Workers!NoCall, Workers!Actions
<1>8. RoomLeft
  <2>1. run = 1 /\ calls = 0 /\ others = 0 /\ Sent = 0 /\ Owed = 0
    BY DEF Sent, Owed, Workers!Init
  <2>2. MaxCalls \in Nat /\ MaxRuns \in Nat
    OBVIOUS
  <2> QED BY <1>5, <2>1, <2>2 DEF RoomLeft
<1> QED BY <1>3, <1>4, <1>6, <1>7, <1>8 DEF WorkersInv

\* On the workers page: one poll of the current run at a time, a table that is
\* never newer than the Macs it shows, and a pending button exactly while its
\* call is in flight (WorkersPage.tsx).
THEOREM WorkersInvariance == Spec => [](view = "workers" => WorkersInv)
<1>1. Init => (view = "workers" => WorkersInv)
  BY WorkersStart DEF Init
<1>2. (view = "workers" => WorkersInv) /\ [Next]_vars => (view = "workers" => WorkersInv)'
  <2> SUFFICES ASSUME view = "workers" => WorkersInv, [Next]_vars, view' = "workers"
               PROVE  WorkersInv'
    OBVIOUS
  <2>1. CASE UNCHANGED vars
    BY <2>1 DEF vars, common, ofWorkers, WorkersInv, WorkersTyped, OnePoll, TableIsBehind,
                CallFits, RoomLeft, Sent, Owed
  <2>2. CASE OnWorkers /\ Workers!Next
    BY <2>2, WorkersStep DEF OnWorkers
  <2> QED BY <2>1, <2>2 DEF Next, OnUsers, OnPortal
<1> QED BY <1>1, <1>2, PTL DEF Spec

\* The workers table never goes back to an older version of a Mac: a poll of a
\* disposed run, however late it is answered, is dropped, and the one poll of
\* the current run was served after everything the table shows (poll() and the
\* cleanup of its effect in WorkersPage.tsx).
THEOREM TableMovesForward == Spec => TableNeverGoesBack
<1> DEFINE Step == view = "workers" => \A n \in Nodes : nodes'[n].ver >= nodes[n].ver
<1>1. (view = "workers" => WorkersInv) /\ [Next]_vars => [Step]_vars
  <2> SUFFICES ASSUME view = "workers", WorkersInv, Next
               PROVE  \A n \in Nodes : nodes'[n].ver >= nodes[n].ver
    OBVIOUS
  <2>1. Workers!Next
    BY DEF Next, OnUsers, OnPortal
  <2> QED BY <2>1, WorkersStep
<1> QED BY <1>1, WorkersInvariance, PTL DEF Spec, TableNeverGoesBack
=============================================================================
