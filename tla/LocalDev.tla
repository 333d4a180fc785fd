------------------------------ MODULE LocalDev ------------------------------
(***************************************************************************)
(* The launcher of the local development services, local-dev/start.js, and *)
(* the S3 server it starts, local-dev/s3/serve.js: two processes that come *)
(* up, fail and stop in any order, and a launcher that sees it all as      *)
(* events.  A process is a direct child, npm or go: what it starts below   *)
(* it is its own to stop.  `go run` catches SIGINT and does not pass it    *)
(* on, in the expectation that the terminal has sent it to every process   *)
(* of its group.                                                           *)
(*                                                                         *)
(* Node sets exitCode or signalCode of a child in the same turn in which   *)
(* it emits `exit`, or `error` for a child that could not be started; a    *)
(* handler runs to its end before the next one.                            *)
(***************************************************************************)
EXTENDS Integers

CONSTANTS
  Children,    \* the processes `children` holds
  GoRun        \* those started by `go run`

ASSUME GoRunAssumption == GoRun \subseteq Children

VARIABLES
  proc,          \* what the operating system says of each child
  status,        \* how it ended
  seen,          \* exitCode or signalCode is set: the launcher knows
  told,          \* the stop signals sent to it
  shuttingDown,
  exitCode,      \* process.exitCode of the launcher; 0 when unset
  asked,         \* the stop signals sent to the launcher
  heard,         \* those its handlers have run for
  launcher

vars == <<proc, status, seen, told, shuttingDown, exitCode, asked, heard, launcher>>

\* "terminal" is the SIGINT of a Ctrl-C, which the whole process group gets;
\* "SIGINT" is one that a single process is sent.
Signals == {"SIGINT", "SIGTERM", "terminal"}

\* "code" stands for every exit code but 0.
Statuses == {"none", "ok", "code", "signal", "unstartable"}

TypeOK ==
  /\ proc \in [Children -> {"starting", "running", "dead"}]
  /\ status \in [Children -> Statuses]
  /\ seen \in [Children -> BOOLEAN]
  /\ told \in [Children -> SUBSET Signals]
  /\ shuttingDown \in BOOLEAN
  /\ exitCode \in {0, 1}
  /\ asked \subseteq Signals /\ heard \subseteq asked
  /\ launcher \in {"up", "gone"}

Alive(c) == proc[c] # "dead"

\* spawn() starts a child, or fails at once and reports it later.
Init ==
  /\ \E failed \in SUBSET Children :
       /\ proc = [c \in Children |-> IF c \in failed THEN "dead" ELSE "starting"]
       /\ status = [c \in Children |-> IF c \in failed THEN "unstartable" ELSE "none"]
  /\ seen = [c \in Children |-> FALSE]
  /\ told = [c \in Children |-> {}]
  /\ shuttingDown = FALSE /\ exitCode = 0
  /\ asked = {} /\ heard = {}
  /\ launcher = "up"

-----------------------------------------------------------------------------
(* The children *)

Ends(c, how) ==
  /\ proc' = [proc EXCEPT ![c] = "dead"]
  /\ status' = [status EXCEPT ![c] = how]
  /\ UNCHANGED <<seen, told, shuttingDown, exitCode, asked, heard, launcher>>

\* The server is up and its buckets exist.
Listens(c) ==
  /\ proc[c] = "starting"
  /\ proc' = [proc EXCEPT ![c] = "running"]
  /\ UNCHANGED <<status, seen, told, shuttingDown, exitCode, asked, heard, launcher>>

\* A child ends by itself, or is killed by somebody else: npm with the code of
\* serve.js, for instance, when server.run() is rejected.
Stops(c) ==
  /\ Alive(c)
  /\ \E how \in {"ok", "code", "signal"} : Ends(c, how)

\* serve.js exits with 0 on either signal, and npm ends after it in its own way;
\* a `go run` that has been told to stop may end, and may take no notice.
Obeys(c) ==
  /\ told[c] # {}
  /\ Stops(c)

\* What makes a child stop.  For one started by `go run` it is SIGTERM, which
\* go does not catch, or Ctrl-C, which ends the program under it too.
Stopping(c) == IF c \in GoRun THEN told[c] \ {"SIGINT"} # {} ELSE told[c] # {}

-----------------------------------------------------------------------------
(* The launcher *)

\* shutdown(signal): once, to every child that has not ended.
\* Faulty variant: only the children that have started.
TellsRunning(c) == proc[c] = "running"
Tells(c) == ~seen[c]

Shutdown(signal) ==
  /\ shuttingDown' = TRUE
  /\ told' = IF shuttingDown THEN told
             ELSE [c \in Children |-> told[c] \cup {s \in {signal} : Tells(c)}]

\* The handlers of `error` and of `exit`.  Faulty variants: the code of a child
\* that died of a signal is null, and taken as it is; `some` instead of `every`.
CodeOrNull(c) == IF status[c] = "code" THEN 1 ELSE 0
CodeOrOne(c) == 1
SomeEnded == \E c \in Children : seen'[c]
EveryEnded == \A c \in Children : seen'[c]

OnError(c) ==
  /\ launcher = "up" /\ status[c] = "unstartable" /\ ~seen[c]
  /\ seen' = [seen EXCEPT ![c] = TRUE]
  /\ Shutdown("SIGTERM")
  /\ exitCode' = 1
  /\ UNCHANGED <<proc, status, asked, heard, launcher>>

OnExit(c) ==
  /\ launcher = "up" /\ proc[c] = "dead" /\ status[c] # "unstartable" /\ ~seen[c]
  /\ seen' = [seen EXCEPT ![c] = TRUE]
  /\ IF ~shuttingDown /\ status[c] # "ok"
     THEN Shutdown("SIGTERM") /\ exitCode' = CodeOrOne(c)
     ELSE UNCHANGED <<shuttingDown, told, exitCode>>
  /\ launcher' = IF EveryEnded THEN "gone" ELSE "up"
  /\ UNCHANGED <<proc, status, asked, heard>>

\* Nothing is left to wait for: the last event was an `error`.
RunsOut ==
  /\ launcher = "up" /\ \A c \in Children : seen[c]
  /\ launcher' = "gone"
  /\ UNCHANGED <<proc, status, seen, told, shuttingDown, exitCode, asked, heard>>

\* Somebody wants the launcher to stop; from the terminal the children get the
\* signal as well.  A signal sent twice does what it did the first time.
Interrupt(signal) ==
  /\ launcher = "up" /\ signal \notin asked
  /\ asked' = asked \cup {signal}
  /\ told' = [c \in Children |-> told[c] \cup ({signal} \cap {"terminal"})]
  /\ UNCHANGED <<proc, status, seen, shuttingDown, exitCode, heard, launcher>>

\* The handlers of SIGINT and SIGTERM pass the signal on, to one process each.
OnSignal(signal) ==
  /\ launcher = "up" /\ signal \in asked \ heard
  /\ heard' = heard \cup {signal}
  /\ Shutdown(IF signal = "terminal" THEN "SIGINT" ELSE signal)
  /\ UNCHANGED <<proc, status, seen, exitCode, asked, launcher>>

-----------------------------------------------------------------------------
Next ==
  \/ \E c \in Children : \/ Listens(c) \/ Stops(c) \/ Obeys(c)
                         \/ OnError(c) \/ OnExit(c)
  \/ \E signal \in Signals : Interrupt(signal) \/ OnSignal(signal)
  \/ RunsOut

Spec == Init /\ [][Next]_vars

\* Node's event loop runs the handlers, and a child stops when it was told to in
\* a way it heeds.
Fairness ==
  /\ \A c \in Children : WF_vars(OnError(c)) /\ WF_vars(OnExit(c))
                        /\ WF_vars(Stopping(c) /\ Obeys(c))
  /\ \A signal \in Signals : WF_vars(OnSignal(signal))
  /\ WF_vars(RunsOut)
FairSpec == Spec /\ Fairness

-----------------------------------------------------------------------------
(* Properties *)

\* "... so neither child process is left behind" (start.js:2).
NoneLeftBehind == launcher = "gone" => \A c \in Children : ~Alive(c)

\* Unless somebody asked for the stop, the launcher ends with 0 only when every
\* service ended with 0: no failure, whatever its kind and order, is lost.
FailureIsReported ==
  launcher = "gone" /\ exitCode = 0 /\ asked = {} =>
    \A c \in Children : status[c] = "ok"

\* A program under `go run` has got nothing but the SIGINT the launcher passed on:
\* it runs on, and the launcher, whose shutdown() works once, waits for it.
Unheeded == \E c \in GoRun : Alive(c) /\ told[c] = {"SIGINT"}

\* A Ctrl-C in the terminal ends the launcher and all the services, whatever was
\* sent before it.  So does a signal to the launcher alone, unless that leaves a
\* child with a SIGINT it does not heed.
SignalStopsAll ==
  /\ "terminal" \in asked ~> launcher = "gone"
  /\ asked # {} ~> (launcher = "gone" \/ Unheeded)

\* So does the failure of one of the services, for which the launcher sends
\* SIGTERM unless it is already passing on something else.
FailureStopsAll ==
  \A c \in Children :
    status[c] \in {"code", "signal", "unstartable"}
      ~> (launcher = "gone" \/ Unheeded)

-----------------------------------------------------------------------------
(* The inductive invariant of the proofs: what a launcher that goes knows. *)

LauncherInv ==
  /\ TypeOK
  /\ \A c \in Children : seen[c] => proc[c] = "dead"
  /\ \A c \in Children : proc[c] = "dead" <=> status[c] # "none"
  /\ launcher = "gone" => \A c \in Children : seen[c]
  /\ asked = {} => /\ shuttingDown => exitCode = 1
                   /\ ~shuttingDown => \A c \in Children : seen[c] => status[c] = "ok"
=============================================================================
