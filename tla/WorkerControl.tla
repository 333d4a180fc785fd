--------------------------- MODULE WorkerControl ---------------------------
(***************************************************************************)
(* Pause, resume, drain, revoke, activate and re-enrollment of one Mac:    *)
(* WorkerHub.Control, ServeSocket and Reenrolled (internal/native/         *)
(* workers.go) with the worker's row in PostgreSQL, several administrators *)
(* at a time, a Mac that reconnects, a connection that breaks and a proxy  *)
(* that restarts.                                                          *)
(*                                                                         *)
(* Every connection k has a handler (ServeSocket) that stops between its   *)
(* database calls, its critical sections under h.mu and its writes; so     *)
(* does every call of Control.  Messages of one connection arrive in the   *)
(* order in which they are written.                                        *)
(***************************************************************************)
EXTENDS Integers, Sequences

CONSTANTS
  Conns,        \* connections the Mac ever opens, 1 .. n
  Calls,        \* calls of Control and Enroll
  Actions,      \* what they ask for
  MaxRestarts   \* restarts of the proxy (bound)

ASSUME ConnsAssumption == Conns \subseteq Nat \ {0}
ASSUME ActionsAssumption ==
  Actions \subseteq {"pause", "resume", "drain", "revoke", "activate", "enroll"}
ASSUME BoundsAssumption == MaxRestarts \in Nat

VARIABLES
  row,        \* the Mac's row of native_workers
  current,    \* h.sessions[node]: the connection of the session, 0 for none
  session,    \* the session object of each connection
  handler,    \* where the handler of each connection is
  found,      \* what DesiredControl read for it; later the action to send
  wire,       \* control messages on their way to the Mac
  dialled,    \* the connection the Mac uses, 0 while it is offline
  stopped,    \* the Mac's operator limit is 0
  gaveUp,     \* the Mac's connector was refused and dials no more
  call,       \* the administrators' calls
  applied,    \* the last action applied to a session since the proxy started
  restarts

mac == <<dialled, stopped, gaveUp>>
vars == <<row, current, session, handler, found, wire, mac, call, applied, restarts>>

Intents == {"pause", "resume", "drain"}
Session == [paused : BOOLEAN, action : Intents \cup {"revoke"}, connected : BOOLEAN,
            revoked : BOOLEAN, greeted : BOOLEAN]
Fresh(action) == [paused |-> action # "resume", action |-> action, connected |-> TRUE,
                  revoked |-> FALSE, greeted |-> FALSE]

Stages == {"unused", "read", "register", "hello", "admit", "recall", "send", "open", "closed"}
Call == [stage : {"store", "hub", "write", "done"}, action : Actions,
         to : {0} \cup Conns]

TypeOK ==
  /\ row \in [revoked : BOOLEAN, desired : Intents]
  /\ current \in {0} \cup Conns
  /\ session \in [Conns -> Session]
  /\ handler \in [Conns -> Stages]
  /\ found \in [Conns -> Intents]
  /\ \A k \in Conns : wire[k] \in Seq(Intents)
  /\ dialled \in {0} \cup Conns /\ stopped \in BOOLEAN /\ gaveUp \in BOOLEAN
  /\ call \in [Calls -> Call]
  /\ applied \in Actions \cup {"none"}
  /\ restarts \in 0 .. MaxRestarts

Init ==
  /\ row = [revoked |-> FALSE, desired |-> "resume"]
  /\ current = 0
  /\ session = [k \in Conns |-> [Fresh("resume") EXCEPT !.connected = FALSE]]
  /\ handler = [k \in Conns |-> "unused"]
  /\ found = [k \in Conns |-> "resume"]
  /\ wire = [k \in Conns |-> <<>>]
  /\ dialled = 0 /\ stopped = FALSE /\ gaveUp = FALSE
  /\ \E action \in [Calls -> Actions] :
       call = [c \in Calls |-> [stage |-> "store", action |-> action[c], to |-> 0]]
  /\ applied = "none"
  /\ restarts = 0

\* What Reserve asks of a session, the capacity its Mac reports apart.
Eligible ==
  /\ current # 0
  /\ LET s == session[current] IN
       s.connected /\ ~s.paused /\ ~s.revoked /\ s.greeted

-----------------------------------------------------------------------------
(* ServeSocket *)

At(k, stage) == handler[k] = stage
Goes(k, stage) == handler' = [handler EXCEPT ![k] = stage]

\* The deferred end of the handler.
Ends(k) ==
  /\ Goes(k, "closed")
  /\ session' = IF current = k THEN [session EXCEPT ![k].connected = FALSE] ELSE session

\* Authenticate: the row is not revoked.
Connect(k) ==
  /\ At(k, "unused") /\ \A j \in Conns : j < k => ~At(j, "unused")
  /\ dialled = 0 /\ ~gaveUp /\ ~row.revoked
  /\ dialled' = k
  /\ Goes(k, "read")
  /\ UNCHANGED <<row, current, session, found, wire, stopped, gaveUp, call, applied,
                 restarts>>

ReadDesired(k) ==
  /\ At(k, "read")
  /\ found' = [found EXCEPT ![k] = row.desired]
  /\ Goes(k, IF row.revoked THEN "closed" ELSE "register")
  /\ UNCHANGED <<row, current, session, wire, mac, call, applied, restarts>>

\* A reconnecting Mac keeps what the hub had last applied to it.
\* Faulty variant: it starts from what was read before.
FromRow(k) == Fresh(found[k])
Inherited(k) ==
  IF current = 0 THEN Fresh(found[k])
  ELSE [Fresh(found[k]) EXCEPT !.paused = session[current].paused,
                               !.action = session[current].action]

\* The old connection is closed; its handler finds out when it reads.
Register(k) ==
  /\ At(k, "register")
  /\ session' = [session EXCEPT ![k] = Inherited(k)]
  /\ current' = k
  /\ Goes(k, "hello")
  /\ UNCHANGED <<row, found, wire, mac, call, applied, restarts>>

\* The Mac's hello arrives: its credential is checked again.
\* Faulty variant: the check at the door is taken to be enough.
CheckedAtDoor == TRUE
Authorized == ~row.revoked

Hello(k) ==
  /\ At(k, "hello") /\ dialled = k
  /\ IF Authorized THEN Goes(k, "admit") /\ UNCHANGED session ELSE Ends(k)
  /\ UNCHANGED <<row, current, found, wire, mac, call, applied, restarts>>

Admit(k) ==
  /\ At(k, "admit")
  /\ IF current = k
     THEN /\ session' = [session EXCEPT ![k].greeted = TRUE]
          /\ Goes(k, "recall")
     ELSE Ends(k)
  /\ UNCHANGED <<row, current, found, wire, mac, call, applied, restarts>>

\* After the welcome: a paused Mac is told so, a resumed one nothing.
Recall(k) ==
  /\ At(k, "recall")
  /\ IF session[k].paused
     THEN /\ found' = [found EXCEPT ![k] = IF session[k].action = "drain" THEN "drain"
                                           ELSE "pause"]
          /\ Goes(k, "send")
     ELSE Goes(k, "open") /\ UNCHANGED found
  /\ UNCHANGED <<row, current, session, wire, mac, call, applied, restarts>>

SendControl(k) ==
  /\ At(k, "send")
  /\ wire' = [wire EXCEPT ![k] = Append(@, found[k])]
  /\ Goes(k, "open")
  /\ UNCHANGED <<row, current, session, found, mac, call, applied, restarts>>

\* The connection is broken, replaced or closed by the hub.
Disconnected(k) ==
  /\ handler[k] \in Stages \ {"unused", "closed"}
  /\ dialled # k
  /\ Ends(k)
  /\ UNCHANGED <<row, current, found, wire, mac, call, applied, restarts>>

-----------------------------------------------------------------------------
(* The Mac *)

\* NativeWorkerState outlives the connection, and with it the operator limit.
ReceiveControl(k) ==
  /\ dialled = k /\ wire[k] # <<>>
  /\ stopped' = (Head(wire[k]) # "resume")
  /\ wire' = [wire EXCEPT ![k] = Tail(@)]
  /\ UNCHANGED <<row, current, session, handler, found, dialled, gaveUp, call, applied,
                 restarts>>

\* The Mac loses its connection; what was under way is lost.  It sees so at
\* once when the proxy closed it (closed handler, replaced or revoked session).
LoseConnection ==
  /\ dialled # 0
  /\ dialled' = 0
  /\ wire' = [wire EXCEPT ![dialled] = <<>>]
  /\ UNCHANGED <<row, current, session, handler, found, stopped, gaveUp, call, applied,
                 restarts>>

\* Authenticate answers 401 to a revoked Mac: the connector stops for good, and
\* the controller takes its operator limit away.
Refused ==
  /\ dialled = 0 /\ ~gaveUp /\ row.revoked
  /\ gaveUp' = TRUE /\ stopped' = TRUE
  /\ UNCHANGED <<row, current, session, handler, found, wire, dialled, call, applied,
                 restarts>>

\* Somebody at the Mac starts the worker again, with a new NativeWorkerState.
StartAgain ==
  /\ gaveUp
  /\ gaveUp' = FALSE /\ stopped' = FALSE
  /\ UNCHANGED <<row, current, session, handler, found, wire, dialled, call, applied,
                 restarts>>

-----------------------------------------------------------------------------
(* Control and Enroll *)

CallAt(c, stage) == call[c].stage = stage
Step(c, stage, to) == call' = [call EXCEPT ![c].stage = stage, ![c].to = to]

\* Faulty variant: an activation is stored as the action it is.
StoredRaw(action) ==
  IF action = "revoke" THEN [row EXCEPT !.revoked = TRUE]
  ELSE [revoked |-> row.revoked /\ action \in Intents, desired |-> action]
Stored(action) ==
  CASE action = "revoke"             -> [row EXCEPT !.revoked = TRUE]
    [] action \in {"activate", "enroll"} -> [revoked |-> FALSE, desired |-> "resume"]
    [] OTHER                         -> [row EXCEPT !.desired = action]

\* SetDesiredControl refuses a revoked Mac.
Store(c) ==
  LET action == call[c].action IN
  /\ CallAt(c, "store")
  /\ IF action \in Intents /\ row.revoked
     THEN Step(c, "done", 0) /\ UNCHANGED row
     ELSE Step(c, "hub", 0) /\ row' = Stored(action)
  /\ UNCHANGED <<current, session, handler, found, wire, mac, applied, restarts>>

Applied(s, action) ==
  CASE action = "revoke"   -> [s EXCEPT !.paused = TRUE, !.action = "revoke",
                                        !.revoked = TRUE, !.connected = FALSE]
    [] action = "activate" -> [s EXCEPT !.paused = FALSE, !.action = "resume",
                                        !.revoked = FALSE]
    [] action = "enroll"   -> [s EXCEPT !.paused = FALSE, !.revoked = FALSE,
                                        !.connected = FALSE]
    [] OTHER               -> [s EXCEPT !.paused = (action # "resume"), !.action = action]

\* The critical section; revoke and enroll then close the connection.
Apply(c) ==
  LET action == call[c].action IN
  /\ CallAt(c, "hub")
  /\ IF current = 0
     THEN Step(c, "done", 0) /\ UNCHANGED <<session, applied, wire, dialled>>
     ELSE /\ session' = [session EXCEPT ![current] = Applied(@, action)]
          /\ applied' = action
          /\ Step(c, IF action \in Intents THEN "write" ELSE "done", current)
          /\ IF action \in {"revoke", "enroll"} /\ dialled = current
             THEN dialled' = 0 /\ wire' = [wire EXCEPT ![current] = <<>>]
             ELSE UNCHANGED <<dialled, wire>>
  /\ UNCHANGED <<row, current, handler, found, stopped, gaveUp, restarts>>

\* A write to a connection that is gone fails, and so does the request.
Write(c) ==
  LET k == call[c].to IN
  /\ CallAt(c, "write")
  /\ Step(c, "done", k)
  /\ wire' = IF dialled = k THEN [wire EXCEPT ![k] = Append(@, call[c].action)] ELSE wire
  /\ UNCHANGED <<row, current, session, handler, found, mac, applied, restarts>>

\* Sessions, handlers and calls are gone; the row and the Mac are not.
Restart ==
  /\ restarts < MaxRestarts /\ restarts' = restarts + 1
  /\ current' = 0
  /\ handler' = [k \in Conns |-> IF At(k, "unused") THEN "unused" ELSE "closed"]
  /\ call' = [c \in Calls |-> IF CallAt(c, "store") THEN call[c]
                              ELSE [call[c] EXCEPT !.stage = "done"]]
  /\ wire' = [k \in Conns |-> <<>>]
  /\ dialled' = 0
  /\ applied' = "none"
  /\ UNCHANGED <<row, session, found, stopped, gaveUp>>

-----------------------------------------------------------------------------
Next ==
  \/ \E k \in Conns : \/ Connect(k) \/ ReadDesired(k) \/ Register(k) \/ Hello(k)
                      \/ Admit(k) \/ Recall(k) \/ SendControl(k)
                      \/ Disconnected(k) \/ ReceiveControl(k)
  \/ \E c \in Calls : Store(c) \/ Apply(c) \/ Write(c)
  \/ LoseConnection \/ Refused \/ StartAgain \/ Restart

Spec == Init /\ [][Next]_vars

-----------------------------------------------------------------------------
(* Properties *)

Running(c, actions) == call[c].action \in actions /\ call[c].stage \in {"hub", "write"}

\* Once a Mac's row is revoked and the revoking call has applied it, the Mac
\* gets no work, whatever connections were under way at the time: a connection
\* that registers too late for the call is turned away at its hello.
RevokedGetsNoWork ==
  row.revoked /\ (\A c \in Calls : ~Running(c, {"revoke"})) => ~Eligible

\* A pause or drain that reached a session holds through every reconnection,
\* also those that had read an older intent before: the next session takes over
\* what was applied to the one it replaces.
AppliedPauseHolds == applied \in {"pause", "drain"} => ~Eligible

\* What the documents say and the code breaks: nothing is under way in the
\* proxy, the stored intent is a pause, and a Mac that runs jobs gets work.
StoredPauseHolds ==
  /\ \A c \in Calls : ~Running(c, Actions)
  /\ row.desired # "resume"
  => ~Eligible \/ stopped
=============================================================================
