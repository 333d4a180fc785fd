--------------------------- MODULE LocalDevProofs ---------------------------
(***************************************************************************)
(* Proofs about LocalDev, for every set of children.                       *)
(***************************************************************************)
EXTENDS LocalDev, TLAPS

\* The launcher starts knowing nothing, and nothing has gone wrong unseen.
LEMMA InitInv == Init => LauncherInv
  BY DEF Init, LauncherInv, TypeOK, Statuses

\* What a child does to itself concerns the launcher only once it has seen it.
LEMMA ChildrenKeepInv ==
  ASSUME LauncherInv, \E c \in Children : Listens(c) \/ Stops(c) \/ Obeys(c)
  PROVE  LauncherInv'
<1>1. ASSUME NEW c \in Children, Listens(c) PROVE LauncherInv'
  BY <1>1 DEF LauncherInv, TypeOK, Listens
<1>2. ASSUME NEW c \in Children, Stops(c) PROVE LauncherInv'
  <2>1. PICK how \in {"ok", "code", "signal"} : Alive(c) /\ Ends(c, how)
    BY <1>2 DEF Stops
  <2>2. ~seen[c]
    BY <2>1 DEF LauncherInv, Alive
  <2>3. TypeOK'
    BY <2>1 DEF LauncherInv, TypeOK, Ends, Statuses
  <2> QED
    BY <2>1, <2>2, <2>3 DEF LauncherInv, TypeOK, Ends
<1> QED
  BY <1>1, <1>2 DEF Obeys

\* Passing a signal on leaves `told` a set of signals for every child.
LEMMA ShutdownTyped ==
  ASSUME TypeOK, NEW signal \in Signals, Shutdown(signal)
  PROVE  shuttingDown' = TRUE /\ told' \in [Children -> SUBSET Signals]
BY DEF TypeOK, Shutdown

\* The handlers of one child: the launcher goes when it has seen the last.
LEMMA HandlersKeepInv ==
  ASSUME LauncherInv, NEW c \in Children, OnError(c) \/ OnExit(c)
  PROVE  LauncherInv'
<1>1. CASE OnError(c)
  <2>1. TypeOK'
    <3>1. TypeOK /\ "SIGTERM" \in Signals /\ Shutdown("SIGTERM")
      BY <1>1 DEF LauncherInv, OnError, Signals
    <3>2. shuttingDown' = TRUE /\ told' \in [Children -> SUBSET Signals]
      BY <3>1, ShutdownTyped
    <3> QED
      BY <1>1, <3>1, <3>2 DEF TypeOK, OnError
  <2>2. proc[c] = "dead"
    BY <1>1 DEF LauncherInv, TypeOK, OnError
  <2> QED
    BY <1>1, <2>1, <2>2 DEF LauncherInv, TypeOK, OnError, Shutdown
<1>2. CASE OnExit(c)
  <2>1. TypeOK'
    <3>1. TypeOK /\ "SIGTERM" \in Signals
      BY DEF LauncherInv, Signals
    <3>2. shuttingDown' \in BOOLEAN /\ told' \in [Children -> SUBSET Signals]
      BY <1>2, <3>1, ShutdownTyped DEF OnExit, TypeOK
    <3> QED
      BY <1>2, <3>1, <3>2 DEF TypeOK, OnExit, CodeOrOne
  <2>2. launcher' = "gone" => \A k \in Children : seen'[k]
    BY <1>2 DEF OnExit, EveryEnded
  <2>3. CASE ~shuttingDown /\ status[c] # "ok"
    BY <1>2, <2>1, <2>2, <2>3 DEF LauncherInv, TypeOK, OnExit, Shutdown, CodeOrOne
  <2>4. CASE ~(~shuttingDown /\ status[c] # "ok")
    BY <1>2, <2>1, <2>2, <2>4 DEF LauncherInv, TypeOK, OnExit
  <2> QED
    BY <2>3, <2>4
<1> QED
  BY <1>1, <1>2

\* The launcher's end and its signals.
LEMMA LauncherKeepsInv ==
  ASSUME LauncherInv,
         RunsOut \/ \E signal \in Signals : Interrupt(signal) \/ OnSignal(signal)
  PROVE  LauncherInv'
<1>1. CASE RunsOut
  BY <1>1 DEF LauncherInv, TypeOK, RunsOut
<1>2. ASSUME NEW signal \in Signals, Interrupt(signal) PROVE LauncherInv'
  <2>1. told' \in [Children -> SUBSET Signals]
    BY <1>2 DEF LauncherInv, TypeOK, Interrupt
  <2> QED
    BY <1>2, <2>1 DEF LauncherInv, TypeOK, Interrupt
<1>3. ASSUME NEW signal \in Signals, OnSignal(signal) PROVE LauncherInv'
  <2>1. (IF signal = "terminal" THEN "SIGINT" ELSE signal) \in Signals
    BY DEF Signals
  <2>2. shuttingDown' = TRUE /\ told' \in [Children -> SUBSET Signals]
    BY <1>3, <2>1, ShutdownTyped DEF OnSignal, LauncherInv
  <2>3. TypeOK' /\ asked # {} /\ asked' = asked
    BY <1>3, <2>2 DEF LauncherInv, TypeOK, OnSignal
  <2> QED
    BY <1>3, <2>3 DEF LauncherInv, OnSignal
<1> QED
  BY <1>1, <1>2, <1>3

\* The invariant holds in every behaviour.
THEOREM LauncherInvariant == Spec => []LauncherInv
<1>1. LauncherInv /\ [Next]_vars => LauncherInv'
  <2> SUFFICES ASSUME LauncherInv, [Next]_vars PROVE LauncherInv'
    OBVIOUS
  <2>1. CASE Next
    BY <2>1, ChildrenKeepInv, HandlersKeepInv, LauncherKeepsInv DEF Next
  <2>2. CASE UNCHANGED vars
    BY <2>2 DEF vars, LauncherInv, TypeOK
  <2> QED
    BY <2>1, <2>2
<1> QED
  BY InitInv, <1>1, PTL DEF Spec

\* No direct child is alive once the launcher has gone (start.js, the `every`
\* of the exit handler), whatever fails and whenever signals arrive.
THEOREM NeverLeavesAChild == Spec => []NoneLeftBehind
<1>1. LauncherInv => NoneLeftBehind
  BY DEF LauncherInv, NoneLeftBehind, Alive
<1> QED
  BY LauncherInvariant, <1>1, PTL

\* An unasked end with exit code 0 means that every child ended with 0.
THEOREM ReportsFailures == Spec => []FailureIsReported
<1>1. ASSUME LauncherInv, launcher = "gone", exitCode = 0, asked = {}, NEW c \in Children
      PROVE  status[c] = "ok"
  <2>1. exitCode # 1
    BY <1>1
  <2>2. ~shuttingDown
    BY <1>1, <2>1, Zenon DEF LauncherInv
  <2> QED
    BY <1>1, <2>2, Zenon DEF LauncherInv
<1>2. LauncherInv => FailureIsReported
  BY <1>1 DEF FailureIsReported
<1> QED
  BY LauncherInvariant, <1>2, PTL
=============================================================================
