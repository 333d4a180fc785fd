------------------------ MODULE WorkerControlProofs ------------------------
(***************************************************************************)
(* Proofs about WorkerControl for any number of connections, of calls and  *)
(* of restarts, and for every set of control actions.                      *)
(***************************************************************************)
EXTENDS WorkerControl, TLAPS

\* Only intents are written to a Mac, and to a connection that had a session.
WritesIntents ==
  \A c \in Calls : call[c].stage = "write" => call[c].action \in Intents

TypeInv == TypeOK /\ wire \in [Conns -> Seq(Intents)] /\ WritesIntents

\* Nobody is still about to apply a revocation.
NoRevokeRunning == \A c \in Calls : ~Running(c, {"revoke"})

\* While the row is revoked, the session is over, or so young that its hello
\* has not been checked: an admission the hub still owes it would be too late.
RevokedIsOver ==
  row.revoked /\ NoRevokeRunning /\ current # 0 =>
    \/ ~session[current].connected
    \/ ~session[current].greeted /\ handler[current] # "admit"

\* What was applied last is what the present session says.
AppliedIsPaused == applied \in {"pause", "drain"} => current # 0 /\ session[current].paused

Inv == TypeInv /\ RevokedIsOver /\ AppliedIsPaused

-----------------------------------------------------------------------------
(* Types.                                                                  *)

LEMMA InheritedTyped ==
  ASSUME TypeInv, NEW k \in Conns
  PROVE  Inherited(k) \in Session /\ Inherited(k).greeted = FALSE
         /\ (current # 0 => Inherited(k).paused = session[current].paused)
<1>1. Fresh(found[k]) \in Session /\ Fresh(found[k]).greeted = FALSE
  BY DEF TypeInv, TypeOK, Fresh, Session, Intents
<1>2. ASSUME current # 0
      PROVE  session[current] \in Session
  BY <1>2 DEF TypeInv, TypeOK
<1> HIDE DEF Fresh
<1> QED BY <1>1, <1>2 DEF Inherited, Session

LEMMA AppliedTyped ==
  ASSUME NEW s \in Session, NEW action \in Actions
  PROVE  /\ Applied(s, action) \in Session
         /\ Applied(s, action).connected => s.connected
         /\ Applied(s, action).greeted = s.greeted
         /\ action = "revoke" => ~Applied(s, action).connected
         /\ action \in {"pause", "drain"} => Applied(s, action).paused
BY ActionsAssumption DEF Applied, Session, Intents

LEMMA GreetedTyped ==
  ASSUME NEW s \in Session
  PROVE  [s EXCEPT !.greeted = TRUE] \in Session
BY DEF Session

LEMMA EndsTyped ==
  ASSUME TypeInv, NEW k \in Conns, Ends(k)
  PROVE  session' \in [Conns -> Session] /\ handler' \in [Conns -> Stages]
BY DEF Ends, Goes, TypeInv, TypeOK, Session, Stages

LEMMA WireTyped ==
  ASSUME wire \in [Conns -> Seq(Intents)], NEW k, NEW i \in Intents
  PROVE  /\ [j \in Conns |-> <<>>] \in [Conns -> Seq(Intents)]
         /\ [wire EXCEPT ![k] = <<>>] \in [Conns -> Seq(Intents)]
         /\ [wire EXCEPT ![k] = Append(@, i)] \in [Conns -> Seq(Intents)]
<1>1. <<>> \in Seq(Intents) /\ \A s \in Seq(Intents) : Append(s, i) \in Seq(Intents)
  OBVIOUS
<1> HIDE DEF Intents
<1>2. \A s \in Seq(Intents) : [wire EXCEPT ![k] = s] \in [Conns -> Seq(Intents)]
  OBVIOUS
<1>3. [wire EXCEPT ![k] = Append(@, i)] \in [Conns -> Seq(Intents)]
  <2>1. CASE k \in Conns
    BY <1>1, <1>2, <2>1
  <2>2. CASE k \notin Conns
    BY <2>2
  <2> QED BY <2>1, <2>2
<1> QED BY <1>1, <1>2, <1>3

LEMMA HandlerTyped ==
  ASSUME TypeInv, NEW k \in Conns,
         \/ Connect(k) \/ ReadDesired(k) \/ Register(k) \/ Hello(k) \/ Admit(k)
         \/ Recall(k) \/ SendControl(k) \/ Disconnected(k) \/ ReceiveControl(k)
  PROVE  TypeInv'
<1> USE DEF TypeInv, TypeOK, WritesIntents, mac
<1>1. CASE Connect(k)
  BY <1>1 DEF Connect, Goes, Stages
<1>2. CASE ReadDesired(k)
  BY <1>2 DEF ReadDesired, Goes, Stages
<1>3. CASE Register(k)
  BY <1>3, InheritedTyped DEF Register, Goes, Stages
<1>4. CASE Hello(k)
  BY <1>4, EndsTyped DEF Hello, Goes, Stages
<1>5. CASE Admit(k)
  <2>1. CASE current = k
    <3> DEFINE s == [session[k] EXCEPT !.greeted = TRUE]
    <3>1. s \in Session
      BY GreetedTyped
    <3>2. session' = [session EXCEPT ![k] = s]
      BY <1>5, <2>1 DEF Admit
    <3> HIDE DEF s
    <3> QED BY <1>5, <2>1, <3>1, <3>2 DEF Admit, Goes, Stages
  <2>2. CASE current # k
    BY <1>5, <2>2, EndsTyped DEF Admit
  <2> QED BY <2>1, <2>2
<1>6. CASE Recall(k)
  BY <1>6 DEF Recall, Goes, Stages, Intents
<1>7. CASE SendControl(k)
  BY <1>7 DEF SendControl, Goes, Stages
<1>8. CASE Disconnected(k)
  BY <1>8, EndsTyped DEF Disconnected
<1>9. CASE ReceiveControl(k)
  BY <1>9 DEF ReceiveControl
<1> QED BY <1>1, <1>2, <1>3, <1>4, <1>5, <1>6, <1>7, <1>8, <1>9

LEMMA CallTyped ==
  ASSUME TypeInv, NEW c \in Calls, Store(c) \/ Apply(c) \/ Write(c)
  PROVE  TypeInv'
<1> USE DEF TypeInv, TypeOK, WritesIntents, mac
<1>1. call[c].action \in Actions /\ call[c].to \in {0} \cup Conns
  BY DEF Call
<1>2. ASSUME NEW stage \in {"hub", "write", "done"}, NEW to \in {0} \cup Conns,
             Step(c, stage, to), stage = "write" => call[c].action \in Intents
      PROVE  call' \in [Calls -> Call] /\ WritesIntents'
  BY <1>2 DEF Step, Call
<1>3. CASE Store(c)
  <2>1. Stored(call[c].action) \in [revoked : BOOLEAN, desired : Intents]
    BY <1>1, ActionsAssumption DEF Stored, Intents
  <2> QED BY <1>2, <1>3, <2>1 DEF Store
<1>4. CASE Apply(c)
  <2>1. CASE current = 0
    BY <1>2, <1>4, <2>1 DEF Apply
  <2>2. CASE current # 0
    <3>1. session' = [session EXCEPT ![current] = Applied(session[current], call[c].action)]
      BY <1>4, <2>2 DEF Apply
    <3>2. session' \in [Conns -> Session]
      BY <1>1, <2>2, <3>1, AppliedTyped
    <3>3. call' \in [Calls -> Call] /\ WritesIntents'
      BY <1>2, <1>4, <2>2 DEF Apply
    <3>4. dialled' \in {0} \cup Conns /\ wire' \in [Conns -> Seq(Intents)]
      BY <1>4, <2>2, WireTyped DEF Apply, Intents
    <3> QED BY <1>1, <1>4, <2>2, <3>2, <3>3, <3>4 DEF Apply
  <2> QED BY <2>1, <2>2
<1>5. CASE Write(c)
  <2>1. wire' \in [Conns -> Seq(Intents)]
    BY <1>5, WireTyped DEF Write, CallAt
  <2> QED BY <1>1, <1>2, <1>5, <2>1 DEF Write
<1> QED BY <1>3, <1>4, <1>5

LEMMA TypesKept ==
  ASSUME TypeInv, [Next]_vars
  PROVE  TypeInv'
<1> USE DEF TypeInv, TypeOK, WritesIntents, mac
<1>1. CASE LoseConnection \/ Refused \/ StartAgain
  BY <1>1, WireTyped DEF LoseConnection, Refused, StartAgain, Intents
<1>2. CASE Restart
  <2>1. call' \in [Calls -> Call] /\ WritesIntents'
    BY <1>2 DEF Restart, Call, CallAt
  <2>2. handler' \in [Conns -> Stages]
    BY <1>2 DEF Restart, Stages
  <2> QED BY <1>2, <2>1, <2>2, BoundsAssumption DEF Restart
<1>3. CASE UNCHANGED vars
  BY <1>3 DEF vars
<1> QED BY <1>1, <1>2, <1>3, HandlerTyped, CallTyped DEF Next

-----------------------------------------------------------------------------
(* Revocation.                                                             *)

\* A step that leaves the calls and the row alone, and the present session
\* what it is or closed, keeps a revoked Mac out.
LEMMA ClosingKeepsOver ==
  ASSUME RevokedIsOver, UNCHANGED <<row, call, current>>,
         current # 0 =>
           \/ ~session'[current].connected
           \/ /\ session'[current] = session[current]
              /\ handler'[current] = handler[current] \/ handler'[current] # "admit"
  PROVE  RevokedIsOver'
BY DEF RevokedIsOver, NoRevokeRunning, Running

LEMMA EndsCloses ==
  ASSUME TypeInv, NEW k \in Conns, Ends(k), current # 0
  PROVE  \/ ~session'[current].connected
         \/ /\ session'[current] = session[current]
            /\ handler'[current] = handler[current] \/ handler'[current] # "admit"
BY DEF Ends, Goes, TypeInv, TypeOK, Session

LEMMA HandlerKeepsOver ==
  ASSUME TypeInv, RevokedIsOver, NEW k \in Conns,
         \/ Connect(k) \/ ReadDesired(k) \/ Register(k) \/ Hello(k) \/ Admit(k)
         \/ Recall(k) \/ SendControl(k) \/ Disconnected(k) \/ ReceiveControl(k)
  PROVE  RevokedIsOver'
<1> USE DEF TypeInv, TypeOK
<1>1. CASE Connect(k) \/ ReadDesired(k) \/ Recall(k) \/ SendControl(k) \/ ReceiveControl(k)
  <2>1. handler' = handler \/ \E stage \in Stages \ {"admit"} : Goes(k, stage)
    BY <1>1 DEF Connect, ReadDesired, Recall, SendControl, ReceiveControl, Stages
  <2>2. UNCHANGED <<row, call, current, session>>
    BY <1>1 DEF Connect, ReadDesired, Recall, SendControl, ReceiveControl
  <2> QED BY <2>1, <2>2, ClosingKeepsOver DEF Goes
<1>2. CASE Register(k)
  <2>1. current' = k /\ session'[k].greeted = FALSE /\ handler'[k] = "hello"
    BY <1>2, InheritedTyped DEF Register, Goes
  <2> QED BY <2>1 DEF RevokedIsOver
<1>3. CASE Hello(k)
  <2>1. CASE Authorized
    BY <1>3, <2>1 DEF Hello, Authorized, RevokedIsOver
  <2>2. CASE ~Authorized
    BY <1>3, <2>2, EndsCloses, ClosingKeepsOver DEF Hello
  <2> QED BY <2>1, <2>2
<1>4. CASE Admit(k)
  <2>1. CASE current = k
    <3>1. session'[k].connected = session[k].connected /\ handler[k] = "admit"
      BY <1>4, <2>1 DEF Admit, At, Session
    <3> QED BY <1>4, <2>1, <3>1 DEF Admit, RevokedIsOver, NoRevokeRunning, Running
  <2>2. CASE current # k
    BY <1>4, <2>2, EndsCloses, ClosingKeepsOver DEF Admit
  <2> QED BY <2>1, <2>2
<1>5. CASE Disconnected(k)
  BY <1>5, EndsCloses, ClosingKeepsOver DEF Disconnected
<1> QED BY <1>1, <1>2, <1>3, <1>4, <1>5

LEMMA CallKeepsOver ==
  ASSUME TypeInv, RevokedIsOver, NEW c \in Calls, Store(c) \/ Apply(c) \/ Write(c)
  PROVE  RevokedIsOver'
<1> USE DEF TypeInv, TypeOK
<1>0. call[c].action \in Actions
  BY DEF Call
<1>1. ASSUME NEW stage, NEW to, Step(c, stage, to),
             call[c].action # "revoke" \/ call[c].stage \notin {"hub", "write"}, NoRevokeRunning'
      PROVE  NoRevokeRunning
  BY <1>1 DEF NoRevokeRunning, Running, Step, Call
<1>2. CASE Store(c)
  <2>1. CASE call[c].action = "revoke"
    <3>1. Step(c, "hub", 0)
      BY <1>2, <2>1 DEF Store, Intents
    <3>2. ~NoRevokeRunning'
      BY <2>1, <3>1 DEF NoRevokeRunning, Running, Step, Call
    <3> QED BY <3>2 DEF RevokedIsOver
  <2>2. CASE call[c].action # "revoke"
    <3>1. row'.revoked => row.revoked
      BY <1>0, <1>2, <2>2, ActionsAssumption DEF Store, Stored, Intents
    <3>2. NoRevokeRunning' => NoRevokeRunning
      BY <1>1, <1>2, <2>2 DEF Store
    <3> QED BY <1>2, <3>1, <3>2 DEF Store, RevokedIsOver
  <2> QED BY <2>1, <2>2
<1>3. CASE Apply(c)
  <2>1. CASE current = 0
    BY <1>3, <2>1 DEF Apply, RevokedIsOver
  <2>2. CASE current # 0
    <3>1. session'[current] = Applied(session[current], call[c].action)
          /\ session[current] \in Session
      BY <1>3, <2>2 DEF Apply
    <3>2. CASE call[c].action = "revoke"
      BY <1>0, <1>3, <3>1, <3>2, AppliedTyped DEF Apply, RevokedIsOver
    <3>3. CASE call[c].action # "revoke"
      <4>1. NoRevokeRunning' => NoRevokeRunning
        BY <1>1, <1>3, <2>2, <3>3 DEF Apply
      <4> QED BY <1>0, <1>3, <3>1, <4>1, AppliedTyped DEF Apply, RevokedIsOver
    <3> QED BY <3>2, <3>3
  <2> QED BY <2>1, <2>2
<1>4. CASE Write(c)
  <2>1. call[c].action # "revoke"
    BY <1>4 DEF Write, CallAt, WritesIntents, Intents
  <2>2. NoRevokeRunning' => NoRevokeRunning
    BY <1>1, <1>4, <2>1 DEF Write
  <2> QED BY <1>4, <2>2 DEF Write, RevokedIsOver
<1> QED BY <1>2, <1>3, <1>4

LEMMA RevokedIsOverKept ==
  ASSUME TypeInv, RevokedIsOver, [Next]_vars
  PROVE  RevokedIsOver'
<1>1. CASE LoseConnection \/ Refused \/ StartAgain \/ UNCHANGED vars
  BY <1>1, ClosingKeepsOver DEF LoseConnection, Refused, StartAgain, vars
<1>2. CASE Restart
  BY <1>2 DEF Restart, RevokedIsOver
<1> QED BY <1>1, <1>2, HandlerKeepsOver, CallKeepsOver DEF Next

-----------------------------------------------------------------------------
(* Pausing.                                                                *)

LEMMA AppliedIsPausedKept ==
  ASSUME TypeInv, AppliedIsPaused, [Next]_vars
  PROVE  AppliedIsPaused'
<1> USE DEF TypeInv, TypeOK
<1>1. ASSUME UNCHANGED <<applied, current>>,
             current # 0 => session'[current].paused = session[current].paused
      PROVE  AppliedIsPaused'
  BY <1>1 DEF AppliedIsPaused
<1>2. ASSUME NEW k \in Conns, Ends(k), current # 0
      PROVE  session'[current].paused = session[current].paused
  BY <1>2 DEF Ends, Session
<1>3. ASSUME NEW k \in Conns, Register(k)
      PROVE  AppliedIsPaused'
  <2>1. current' = k /\ session'[k] = Inherited(k) /\ applied' = applied /\ k # 0
    BY <1>3, ConnsAssumption DEF Register
  <2> QED BY <2>1, InheritedTyped DEF AppliedIsPaused
<1>4. ASSUME NEW k \in Conns, Admit(k)
      PROVE  AppliedIsPaused'
  BY <1>1, <1>2, <1>4 DEF Admit, Session
<1>5. ASSUME NEW k \in Conns, Hello(k) \/ Disconnected(k)
      PROVE  AppliedIsPaused'
  BY <1>1, <1>2, <1>5 DEF Hello, Disconnected
<1>6. ASSUME NEW c \in Calls, Apply(c)
      PROVE  AppliedIsPaused'
  <2>1. CASE current = 0
    BY <1>1, <1>6, <2>1 DEF Apply
  <2>2. CASE current # 0
    <3>1. session'[current] = Applied(session[current], call[c].action)
          /\ current' = current /\ applied' = call[c].action
          /\ session[current] \in Session /\ call[c].action \in Actions
      BY <1>6, <2>2 DEF Apply, Call
    <3> QED BY <2>2, <3>1, AppliedTyped DEF AppliedIsPaused
  <2> QED BY <2>1, <2>2
<1>7. CASE Restart
  BY <1>7 DEF Restart, AppliedIsPaused
<1>8. ASSUME NEW k \in Conns,
             Connect(k) \/ ReadDesired(k) \/ Recall(k) \/ SendControl(k) \/ ReceiveControl(k)
      PROVE  AppliedIsPaused'
  BY <1>1, <1>8 DEF Connect, ReadDesired, Recall, SendControl, ReceiveControl
<1>9. ASSUME \/ \E c \in Calls : Store(c) \/ Write(c)
             \/ LoseConnection \/ Refused \/ StartAgain \/ UNCHANGED vars
      PROVE  AppliedIsPaused'
  BY <1>1, <1>9 DEF Store, Write, LoseConnection, Refused, StartAgain, vars
<1> QED BY <1>3, <1>4, <1>5, <1>6, <1>7, <1>8, <1>9 DEF Next

-----------------------------------------------------------------------------
(* The theorems.                                                           *)

LEMMA InitInv == ASSUME Init PROVE Inv
<1>1. [Fresh("resume") EXCEPT !.connected = FALSE] \in Session
  BY DEF Fresh, Session, Intents
<1>2. call \in [Calls -> Call] /\ \A c \in Calls : call[c].stage = "store"
  BY DEF Init, Call
<1>3. wire \in [Conns -> Seq(Intents)]
  <2>1. <<>> \in Seq(Intents)
    OBVIOUS
  <2> QED BY <2>1 DEF Init
<1>4. session \in [Conns -> Session] /\ handler \in [Conns -> Stages]
      /\ found \in [Conns -> Intents] /\ row \in [revoked : BOOLEAN, desired : Intents]
  BY <1>1 DEF Init, Intents, Stages
<1>5. TypeInv
  <2>1. WritesIntents
    BY <1>2 DEF WritesIntents
  <2>2. \A k \in Conns : wire[k] \in Seq(Intents)
    BY <1>3
  <2>3. /\ current \in {0} \cup Conns /\ dialled \in {0} \cup Conns
        /\ stopped \in BOOLEAN /\ gaveUp \in BOOLEAN
        /\ applied \in Actions \cup {"none"} /\ restarts \in 0 .. MaxRestarts
    <3>1. current = 0 /\ dialled = 0 /\ stopped = FALSE /\ gaveUp = FALSE
          /\ applied = "none" /\ restarts = 0
      BY DEF Init
    <3>2. stopped \in BOOLEAN /\ gaveUp \in BOOLEAN
      BY <3>1
    <3>3. 0 \in 0 .. MaxRestarts
      BY BoundsAssumption
    <3> QED BY <3>1, <3>2, <3>3
  <2> QED BY <1>2, <1>3, <1>4, <2>1, <2>2, <2>3 DEF TypeInv, TypeOK
<1> QED BY <1>5 DEF Init, Inv, RevokedIsOver, AppliedIsPaused

\* Whatever ServeSocket and Control interleave between their critical sections,
\* a revoked row's session is over or unchecked, and the present session has
\* the pause that was applied last.
THEOREM Invariance == Spec => []Inv
<1>1. Init => Inv
  BY InitInv
<1>2. Inv /\ [Next]_vars => Inv'
  BY TypesKept, RevokedIsOverKept, AppliedIsPausedKept DEF Inv
<1> QED BY <1>1, <1>2, PTL DEF Spec

\* Row, sessions, handlers, calls and the wire keep their types.
THEOREM TypeCorrect == Spec => []TypeOK
<1>1. Inv => TypeOK
  BY DEF Inv, TypeInv
<1> QED BY <1>1, Invariance, PTL

\* However many connections are under way when a Mac is revoked, and whatever
\* other administrators ask for in between, a Mac whose row is revoked gets no
\* work once the revoking call is through its critical section.
THEOREM RevokedMacGetsNoWork == Spec => []RevokedGetsNoWork
<1>1. Inv => RevokedGetsNoWork
  BY DEF Inv, RevokedIsOver, NoRevokeRunning, RevokedGetsNoWork, Eligible
<1> QED BY <1>1, Invariance, PTL

\* A pause or drain that reached a session outlives every reconnection until
\* another control is applied or the proxy restarts.
THEOREM AppliedPauseIsKept == Spec => []AppliedPauseHolds
<1>1. Inv => AppliedPauseHolds
  BY DEF Inv, AppliedIsPaused, AppliedPauseHolds, Eligible
<1> QED BY <1>1, Invariance, PTL
=============================================================================
