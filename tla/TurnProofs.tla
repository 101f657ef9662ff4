----------------------------- MODULE TurnProofs -----------------------------
(***************************************************************************)
(* Proofs about TurnProtocol, for any number of threads and turns: the     *)
(* type invariant, the inductive invariant TurnInv and what follows from   *)
(* it, and that the turns implement TurnService.                           *)
(***************************************************************************)
EXTENDS TurnProtocol, TLAPS

USE DEF PC, Streaming, Flagged, Holding

-----------------------------------------------------------------------------
(* Type correctness *)

\* The steps of a stream keep the types.
LEMMA StreamType ==
    ASSUME TypeOK, TurnInv, NEW t \in Thread,
           \/ StartStream(t) \/ Acquire(t) \/ AcquireTimeout(t) \/ Stage(t)
           \/ SetFlag(t) \/ Prompt(t) \/ Expire(t) \/ Poll(t) \/ Observe(t)
           \/ SliceOver(t) \/ Read(t) \/ Screen(t) \/ Clear(t) \/ Release(t)
    PROVE  TypeOK'
  <1> USE DEF TypeOK, Goto, Outcome, threadVars, claudeVars, serverVars
  <1>0. pc[t] \in Streaming \cup {"acquire"} => turn[t] \in Uuid
    BY DEF TurnInv, TurnsOwned
  <1>1. CASE StartStream(t)
    BY <1>1 DEF StartStream
  <1>2. CASE Acquire(t)
    BY <1>2 DEF Acquire
  <1>3. CASE AcquireTimeout(t)
    BY <1>3 DEF AcquireTimeout
  <1>4. CASE Stage(t)
    BY <1>0, <1>4 DEF Stage, Swept, Reason
  <1>5. CASE SetFlag(t)
    BY <1>5 DEF SetFlag, Reason
  <1>6. CASE Prompt(t)
    BY <1>0, <1>6 DEF Prompt, Submitted, Reason, ClaudeState
  <1>7. CASE Expire(t)
    BY <1>7 DEF Expire
  <1>8. CASE Poll(t)
    BY <1>8 DEF Poll, Reason
  <1>9. CASE Observe(t)
    BY <1>0, <1>9 DEF Observe
  <1>10. CASE SliceOver(t)
    BY <1>10 DEF SliceOver
  <1>11. CASE Read(t)
    BY <1>0, <1>11 DEF Read, Reason
  <1>12. CASE Screen(t)
    BY <1>12 DEF Screen, HandleVerdict, Reason
  <1>13. CASE Clear(t)
    BY <1>13 DEF Clear
  <1>14. CASE Release(t)
    BY <1>0, <1>14 DEF Release, TurnInv, OutcomeIsFounded
  <1> QED
    BY <1>1, <1>2, <1>3, <1>4, <1>5, <1>6, <1>7, <1>8, <1>9, <1>10, <1>11,
       <1>12, <1>13, <1>14

\* So do send-key and the environment.
LEMMA OtherType ==
    ASSUME TypeOK,
           \/ \E t \in Thread : \/ StartKey(t) \/ KeyAcquire(t) \/ KeyType(t)
                                \/ KeyRelease(t)
           \/ ClaudeTurns \/ ClaudeWrites \/ ServerExits \/ TornDown
           \/ BridgeRestarts \/ UNCHANGED vars
    PROVE  TypeOK'
  <1> USE DEF TypeOK, Goto, threadVars, claudeVars, serverVars
  <1>1. ASSUME NEW t \in Thread, StartKey(t)
        PROVE  TypeOK'
    BY <1>1 DEF StartKey
  <1>2. ASSUME NEW t \in Thread, KeyAcquire(t)
        PROVE  TypeOK'
    BY <1>2 DEF KeyAcquire
  <1>3. ASSUME NEW t \in Thread, KeyType(t)
        PROVE  TypeOK'
    BY <1>3 DEF KeyType, ClaudeState
  <1>4. ASSUME NEW t \in Thread, KeyRelease(t)
        PROVE  TypeOK'
    BY <1>4 DEF KeyRelease
  <1>5. CASE ClaudeTurns
    BY <1>5 DEF ClaudeTurns, ClaudeState
  <1>6. CASE ClaudeWrites
    BY <1>6 DEF ClaudeWrites, Envelope
  <1>7. CASE ServerExits
    BY <1>7 DEF ServerExits
  <1>8. CASE TornDown
    BY <1>8 DEF TornDown, Swept
  <1>9. CASE UNCHANGED vars
    BY <1>9 DEF vars
  <1>10. CASE BridgeRestarts
    <2>1. result' \in [Uuid -> Reason \cup Cut \cup {"none", "refused"}]
      BY <1>10 DEF BridgeRestarts, Cut
    <2> QED BY <1>10, <2>1 DEF BridgeRestarts
  <1> QED BY <1>1, <1>2, <1>3, <1>4, <1>5, <1>6, <1>7, <1>8, <1>9, <1>10

\* Every step is one of these.
LEMMA NextType == TypeOK /\ TurnInv /\ [Next]_vars => TypeOK'
  <1> SUFFICES ASSUME TypeOK, TurnInv, [Next]_vars
               PROVE  TypeOK'
    OBVIOUS
  <1>1. CASE Rest
    BY <1>1, OtherType DEF Rest
  <1> QED BY <1>1, StreamType, OtherType DEF Next, Step

-----------------------------------------------------------------------------
(* The inductive invariant *)

\* A stream that holds the lock, or waits for it, has a turn of its own.
LEMMA OwnTurn ==
    ASSUME TypeOK, TurnsOwned, NEW t \in Thread,
           pc[t] \in Streaming \cup {"acquire"}
    PROVE  /\ turn[t] \in Uuid
           /\ result[turn[t]] = "none"
           /\ \A s \in Thread \ {t} : turn[s] # turn[t]
  BY DEF TypeOK, TurnsOwned

\* Of two threads only one holds the lock.
LEMMA OnlyHolder ==
    ASSUME LockIsHeld, NEW t \in Thread, pc[t] \in Holding
    PROVE  \A s \in Thread \ {t} : pc[s] \notin Holding
  BY DEF LockIsHeld

\* What the outcome of a turn of t rests on.
Founded(t) ==
    /\ out[t] \in Reason
    /\ out[t] = "idle" => /\ latest = turn[t]
                          /\ turn[t] \in delivered
                          /\ torn \/ ReadBack(env[turn[t]], turn[t]) = "ok"

\* The step is one of thread t.
OthersKept(t) ==
    \A s \in Thread \ {t} : pc'[s] = pc[s] /\ out'[s] = out[s]

\* A step of t that leaves the turns and the files alone.
LEMMA QuietFrame ==
    ASSUME TypeOK, TurnInv, LockIsHeld', NEW t \in Thread, OthersKept(t),
           UNCHANGED <<turn, flag, env, doc, torn, delivered, latest, result>>,
           pc'[t] \in Streaming \cup {"acquire"} =>
               pc[t] \in Streaming \cup {"acquire"},
           pc'[t] \in Flagged => pc[t] \in Flagged,
           pc'[t] = "clear" => pc[t] \in Flagged \cup {"clear"},
           pc'[t] # "set_flag", alive' => alive,
           pc'[t] \in {"clear", "release"} => Founded(t)'
    PROVE  TurnInv'
  <1> USE DEF TurnInv, OthersKept
  <1>1. TurnsOwned'
    BY DEF TurnsOwned
  <1>2. FlagNamesRunningTurn'
    BY DEF FlagNamesRunningTurn
  <1>3. RunningTurnIsLatest'
    BY DEF RunningTurnIsLatest
  <1>4. OutcomeIsFounded'
    <2> SUFFICES ASSUME NEW s \in Thread, pc'[s] \in {"clear", "release"}
                 PROVE  Founded(s)'
      BY DEF OutcomeIsFounded, Founded
    <2>1. CASE s = t
      BY <2>1
    <2>2. CASE s # t
      BY <2>2 DEF OutcomeIsFounded, Founded
    <2> QED BY <2>1, <2>2
  <1>5. AcceptedIsDelivered' /\ DoneIsFetchable'
    BY DEF AcceptedIsDelivered, DoneIsFetchable
  <1> QED BY <1>1, <1>2, <1>3, <1>4, <1>5

\* A thread that is not among the holders takes the free lock, gives it back, or
\* leaves it alone; one that is there stays or gives it back.
LEMMA LockKept ==
    ASSUME TypeOK, LockIsHeld, NEW t \in Thread,
           \A s \in Thread \ {t} : pc'[s] = pc[s],
           \/ lock' = lock /\ (pc'[t] \in Holding => pc[t] \in Holding)
           \/ lock = None /\ lock' = t
           \/ lock' = None /\ pc[t] \in Holding /\ pc'[t] \notin Holding
    PROVE  LockIsHeld'
  BY NoneAssumption DEF LockIsHeld

\* A stream begins, is refused, or takes the lock.
LEMMA AdmissionStep ==
    ASSUME TypeOK, TypeOK', TurnInv, NEW t \in Thread,
           StartStream(t) \/ Acquire(t) \/ AcquireTimeout(t)
    PROVE  TurnInv'
  <1> USE DEF TypeOK, TurnInv, Goto, threadVars, claudeVars, serverVars
  <1>1. CASE StartStream(t)
    <2> USE <1>1 DEF StartStream
    <2>1. LockIsHeld'
      BY LockKept
    <2>2. TurnsOwned'
      <3>1. PICK u \in Uuid : /\ result[u] = "none"
                              /\ \A s \in Thread : turn[s] # u
                              /\ turn' = [turn EXCEPT ![t] = u]
        OBVIOUS
      <3>2. /\ turn'[t] = u /\ u # None
            /\ \A s \in Thread \ {t} : turn'[s] = turn[s] /\ pc'[s] = pc[s]
        BY <3>1, NoneAssumption
      <3> QED BY <3>1, <3>2 DEF TurnsOwned
    <2>3. FlagNamesRunningTurn' /\ RunningTurnIsLatest'
      BY DEF FlagNamesRunningTurn, RunningTurnIsLatest
    <2>4. OutcomeIsFounded'
      BY DEF OutcomeIsFounded
    <2>5. AcceptedIsDelivered' /\ DoneIsFetchable'
      BY DEF AcceptedIsDelivered, DoneIsFetchable
    <2> QED BY <2>1, <2>2, <2>3, <2>4, <2>5
  <1>2. CASE Acquire(t)
    <2> USE <1>2 DEF Acquire
    <2>1. LockIsHeld'
      BY LockKept
    <2> QED BY <2>1, QuietFrame DEF OthersKept
  <1>3. CASE AcquireTimeout(t)
    <2> USE <1>3 DEF AcquireTimeout
    <2>0. turn[t] \in Uuid /\ result[turn[t]] = "none"
      BY OwnTurn
    <2>1. LockIsHeld'
      BY LockKept
    <2>2. TurnsOwned'
      BY <2>0, NoneAssumption DEF TurnsOwned
    <2>3. FlagNamesRunningTurn' /\ RunningTurnIsLatest'
      BY DEF FlagNamesRunningTurn, RunningTurnIsLatest
    <2>4. OutcomeIsFounded'
      BY DEF OutcomeIsFounded
    <2>5. AcceptedIsDelivered' /\ DoneIsFetchable'
      BY <2>0 DEF AcceptedIsDelivered, DoneIsFetchable
    <2> QED BY <2>1, <2>2, <2>3, <2>4, <2>5
  <1> QED BY <1>1, <1>2, <1>3

\* stage_turn: the sweep concerns no other turn, because no other runs.
LEMMA StagingStep ==
    ASSUME TypeOK, TypeOK', TurnInv, NEW t \in Thread,
           Stage(t) \/ SetFlag(t)
    PROVE  TurnInv'
  <1> USE DEF TypeOK, TurnInv, Goto, Outcome, threadVars, claudeVars,
              serverVars
  <1>0. /\ turn[t] \in Uuid /\ result[turn[t]] = "none"
        /\ \A s \in Thread \ {t} : pc[s] \notin Holding
    BY OwnTurn, OnlyHolder DEF Stage, SetFlag
  <1>1. LockIsHeld'
    BY LockKept DEF Stage, SetFlag
  <1>2. CASE Stage(t)
    <2> USE <1>2 DEF Stage
    <2>2. TurnsOwned'
      BY DEF TurnsOwned
    <2>3. FlagNamesRunningTurn' /\ RunningTurnIsLatest'
      BY <1>0 DEF FlagNamesRunningTurn, RunningTurnIsLatest
    <2>4. OutcomeIsFounded'
      BY <1>0 DEF OutcomeIsFounded, Reason
    <2>5. AcceptedIsDelivered'
      BY DEF AcceptedIsDelivered, Swept, ReadBack
    <2>6. DoneIsFetchable'
      BY <1>0 DEF DoneIsFetchable
    <2> QED BY <1>1, <2>2, <2>3, <2>4, <2>5, <2>6
  <1>3. CASE SetFlag(t)
    <2> USE <1>3 DEF SetFlag
    <2>2. TurnsOwned'
      BY DEF TurnsOwned
    <2>3. FlagNamesRunningTurn' /\ RunningTurnIsLatest'
      BY <1>0 DEF FlagNamesRunningTurn, RunningTurnIsLatest
    <2>4. OutcomeIsFounded'
      BY <1>0 DEF OutcomeIsFounded, Reason
    <2>5. AcceptedIsDelivered' /\ DoneIsFetchable'
      BY DEF AcceptedIsDelivered, DoneIsFetchable
    <2> QED BY <1>1, <2>2, <2>3, <2>4, <2>5
  <1> QED BY <1>2, <1>3

\* The prompt and the loop of _await_completion: only the read-back makes a turn
\* end "idle".
LEMMA AwaitStep ==
    ASSUME TypeOK, TypeOK', TurnInv, NEW t \in Thread,
           \/ Prompt(t) \/ Expire(t) \/ Poll(t) \/ Observe(t) \/ SliceOver(t)
           \/ Read(t) \/ Screen(t)
    PROVE  TurnInv'
  <1> USE DEF TypeOK, Goto, Outcome, threadVars, claudeVars, serverVars
  <1>1. /\ OthersKept(t)
        /\ UNCHANGED <<turn, flag, lock, env, doc, alive, torn, delivered,
                       latest, result>>
        /\ pc[t] \in Flagged
        /\ pc'[t] \in Flagged \cup {"clear"}
    BY DEF OthersKept, Prompt, Expire, Poll, Observe, SliceOver, Read, Screen,
           HandleVerdict
  <1>2. LockIsHeld'
    BY <1>1, LockKept DEF OthersKept, TurnInv
  <1>3. ASSUME pc'[t] = "clear", ~Read(t)
        PROVE  out'[t] \in Reason \ {"idle"}
    BY <1>3 DEF Prompt, Expire, Poll, Observe, SliceOver, Screen,
                HandleVerdict, Reason
  <1>4. ASSUME pc'[t] = "clear", Read(t)
        PROVE  Founded(t)'
    <2>1. turn[t] \in Uuid /\ latest = turn[t]
      BY <1>1, OwnTurn DEF TurnInv, RunningTurnIsLatest
    <2>2. CASE out'[t] = "idle"
      <3>1. ReadBack(env[turn[t]], turn[t]) = "ok"
        BY <1>4, <2>2 DEF Read
      <3>2. turn[t] \in delivered
        BY <2>1, <3>1 DEF TurnInv, AcceptedIsDelivered
      <3> QED BY <1>1, <2>1, <2>2, <3>1, <3>2 DEF Founded, Reason
    <2>3. CASE out'[t] # "idle"
      BY <1>4, <2>3 DEF Read, Founded, Reason
    <2> QED BY <2>2, <2>3
  <1>5. pc'[t] \in {"clear", "release"} => Founded(t)'
    BY <1>1, <1>3, <1>4 DEF Founded
  <1> QED BY <1>1, <1>2, <1>5, QuietFrame

\* The finally clauses: the flag goes, the client is told, the lock is released.
LEMMA ClosingStep ==
    ASSUME TypeOK, TypeOK', TurnInv, NEW t \in Thread,
           Clear(t) \/ Release(t)
    PROVE  TurnInv'
  <1> USE DEF TypeOK, TurnInv, Goto, Reason, Cut, threadVars, claudeVars,
              serverVars
  <1>0. /\ turn[t] \in Uuid /\ result[turn[t]] = "none"
        /\ \A s \in Thread \ {t} : /\ pc[s] \notin Holding
                                   /\ turn[s] # turn[t]
    BY OwnTurn, OnlyHolder DEF Clear, Release
  <1>1. LockIsHeld'
    BY LockKept DEF Clear, Release
  <1>2. CASE Clear(t)
    <2> USE <1>2 DEF Clear
    <2>1. TurnsOwned'
      BY DEF TurnsOwned
    <2>2. RunningTurnIsLatest'
      BY <1>0 DEF RunningTurnIsLatest
    <2>5. FlagNamesRunningTurn'
      <3>1. result[latest] # "interrupted"
        BY <1>0 DEF RunningTurnIsLatest
      <3>2. \A s \in Thread : pc'[s] \notin Flagged
        BY <1>0
      <3> QED BY <3>1, <3>2 DEF FlagNamesRunningTurn
    <2>3. OutcomeIsFounded'
      BY <1>0 DEF OutcomeIsFounded
    <2>4. AcceptedIsDelivered' /\ DoneIsFetchable'
      BY DEF AcceptedIsDelivered, DoneIsFetchable
    <2> QED BY <1>1, <2>1, <2>2, <2>3, <2>4, <2>5
  <1>3. CASE Release(t)
    <2> USE <1>3 DEF Release
    <2>1. TurnsOwned'
      BY <1>0, NoneAssumption DEF TurnsOwned
    <2>2. RunningTurnIsLatest'
      BY <1>0 DEF RunningTurnIsLatest
    <2>6. FlagNamesRunningTurn'
      <3>1. out[t] # "interrupted"
        BY DEF OutcomeIsFounded
      <3>2. \A s \in Thread : pc'[s] \notin Flagged
        BY <1>0
      <3>3. \A u \in Uuid : result'[u] = "interrupted" => result[u] = "interrupted"
        BY <1>0, <3>1
      <3> QED BY <3>2, <3>3 DEF FlagNamesRunningTurn
    <2>3. OutcomeIsFounded'
      BY <1>0 DEF OutcomeIsFounded
    <2>4. AcceptedIsDelivered'
      BY DEF AcceptedIsDelivered
    <2>5. DoneIsFetchable'
      BY <1>0 DEF DoneIsFetchable, OutcomeIsFounded
    <2> QED BY <1>1, <2>1, <2>2, <2>3, <2>4, <2>5, <2>6
  <1> QED BY <1>2, <1>3

\* send-key changes nothing that a turn rests on.
LEMMA BesideStep ==
    ASSUME TypeOK, TypeOK', TurnInv, NEW t \in Thread,
           \/ StartKey(t) \/ KeyAcquire(t) \/ KeyType(t) \/ KeyRelease(t)
    PROVE  TurnInv'
  <1> USE DEF TypeOK, Goto, threadVars, claudeVars, serverVars
  <1>1. /\ OthersKept(t)
        /\ UNCHANGED <<turn, flag, env, doc, alive, torn, delivered, latest,
                       result, out>>
        /\ \/ pc'[t] \in {"idle", "key_acquire", "key_type", "key_release"}
           \/ UNCHANGED <<pc, lock>>
    BY DEF OthersKept, StartKey, KeyAcquire, KeyType, KeyRelease
  <1>2. LockIsHeld'
    <2>1. \/ lock' = lock /\ (pc'[t] \in Holding => pc[t] \in Holding)
          \/ lock = None /\ lock' = t
          \/ lock' = None /\ pc[t] \in Holding /\ pc'[t] \notin Holding
      BY DEF StartKey, KeyAcquire, KeyType, KeyRelease
    <2> QED BY <1>1, <2>1, LockKept DEF OthersKept, TurnInv
  <1>3. CASE pc'[t] \in {"idle", "key_acquire", "key_type", "key_release"}
    BY <1>1, <1>2, <1>3, QuietFrame
  <1>4. CASE UNCHANGED <<pc, lock>>
    BY <1>1, <1>4
       DEF TurnInv, LockIsHeld, TurnsOwned, FlagNamesRunningTurn,
           RunningTurnIsLatest, OutcomeIsFounded, AcceptedIsDelivered,
           DoneIsFetchable
  <1> QED BY <1>1, <1>3, <1>4

\* What claude writes is never held against a whole envelope; a delete leaves no
\* envelope at all.
LEMMA EnvironmentStep ==
    ASSUME TypeOK, TypeOK', TurnInv,
           \/ ClaudeTurns \/ ClaudeWrites \/ ServerExits \/ TornDown
           \/ UNCHANGED vars
    PROVE  TurnInv'
  <1> USE DEF TypeOK, TurnInv, threadVars, claudeVars, serverVars
  <1>1. CASE ClaudeTurns \/ ServerExits \/ UNCHANGED vars
    BY <1>1
       DEF ClaudeTurns, ServerExits, vars, LockIsHeld, TurnsOwned,
           FlagNamesRunningTurn, RunningTurnIsLatest, OutcomeIsFounded,
           AcceptedIsDelivered, DoneIsFetchable
  <1>2. ASSUME UNCHANGED <<pc, turn, lock, out, latest, result>>,
               alive' => alive /\ flag' = flag
        PROVE  LockIsHeld' /\ TurnsOwned' /\ FlagNamesRunningTurn'
    BY <1>2 DEF LockIsHeld, TurnsOwned, FlagNamesRunningTurn
  <1>3. CASE ClaudeWrites
    <2> USE <1>3 DEF ClaudeWrites
    <2>1. PICK u, gen \in prompted, whole \in BOOLEAN :
                /\ env[u] # None => ~env[u].whole
                /\ env' = [env EXCEPT ![u] = [gen |-> gen, whole |-> whole]]
                /\ delivered' = IF whole /\ gen = u THEN delivered \cup {u}
                                ELSE delivered
      OBVIOUS
    <2>2. \A v \in Uuid : ReadBack(env[v], v) = "ok" =>
                             ReadBack(env'[v], v) = "ok"
      BY <2>1 DEF ReadBack
    <2>3. RunningTurnIsLatest'
      BY DEF RunningTurnIsLatest
    <2>4. OutcomeIsFounded'
      <3> SUFFICES ASSUME NEW t \in Thread, pc[t] \in {"clear", "release"}
                   PROVE  Founded(t)'
        BY DEF OutcomeIsFounded, Founded
      <3>1. turn[t] \in Uuid
        BY OwnTurn
      <3>2. Founded(t)
        BY DEF OutcomeIsFounded, Founded
      <3>3. delivered \subseteq delivered'
        BY <2>1
      <3> QED BY <2>2, <3>1, <3>2, <3>3 DEF Founded
    <2>5. AcceptedIsDelivered'
      <3> SUFFICES ASSUME NEW v \in Uuid, ReadBack(env'[v], v) = "ok"
                   PROVE  v \in delivered'
        BY DEF AcceptedIsDelivered
      <3>1. CASE v = u
        <4>1. env'[v] = [gen |-> gen, whole |-> whole]
          BY <2>1, <3>1
        <4>2. whole /\ gen = u
          BY <3>1, <4>1, NoneAssumption DEF ReadBack
        <4> QED BY <2>1, <3>1, <4>2
      <3>2. CASE v # u
        BY <2>1, <3>2 DEF AcceptedIsDelivered
      <3> QED BY <3>1, <3>2
    <2>6. DoneIsFetchable'
      BY <2>2 DEF DoneIsFetchable
    <2> QED BY <1>2, <2>3, <2>4, <2>5, <2>6
  <1>4. CASE TornDown
    <2> USE <1>4 DEF TornDown
    <2>1. RunningTurnIsLatest' /\ OutcomeIsFounded' /\ DoneIsFetchable'
      BY DEF RunningTurnIsLatest, OutcomeIsFounded, DoneIsFetchable
    <2>2. AcceptedIsDelivered'
      BY DEF AcceptedIsDelivered, Swept, ReadBack
    <2> QED BY <1>2, <2>1, <2>2
  <1> QED BY <1>1, <1>3, <1>4

\* A bridge that dies leaves no thread; the turn it was running is cut off, and a
\* flagged one was the latest and named by the flag.
LEMMA RestartStep ==
    ASSUME TypeOK, TurnInv, BridgeRestarts
    PROVE  TurnInv'
  <1> USE DEF TypeOK, TurnInv, BridgeRestarts
  <1>1. \A t \in Thread : pc'[t] = "idle" /\ turn'[t] = None
    OBVIOUS
  <1>2. LockIsHeld' /\ TurnsOwned' /\ RunningTurnIsLatest' /\ OutcomeIsFounded'
    BY <1>1 DEF LockIsHeld, TurnsOwned, RunningTurnIsLatest, OutcomeIsFounded
  <1>3. FlagNamesRunningTurn'
    <2> SUFFICES ASSUME latest # None, result'[latest] = "interrupted"
                 PROVE  flag = latest
      BY <1>1 DEF FlagNamesRunningTurn
    <2>1. CASE \E t \in Thread : pc[t] \in Flagged /\ turn[t] = latest
      BY <2>1 DEF FlagNamesRunningTurn
    <2>2. CASE ~ \E t \in Thread : pc[t] \in Flagged /\ turn[t] = latest
      <3>1. result[latest] = "interrupted"
        BY <2>2
      <3> QED BY <3>1 DEF FlagNamesRunningTurn
    <2> QED BY <2>1, <2>2
  <1>4. AcceptedIsDelivered' /\ DoneIsFetchable'
    <2>1. \A u \in Uuid : result'[u] = "idle" => result[u] = "idle"
      OBVIOUS
    <2>2. UNCHANGED <<env, torn, latest, delivered>>
      BY DEF serverVars, claudeVars
    <2> QED BY <2>1, <2>2 DEF AcceptedIsDelivered, DoneIsFetchable
  <1> QED BY <1>2, <1>3, <1>4

\* Every step is one of these.
LEMMA NextTurn == TypeOK /\ TypeOK' /\ TurnInv /\ [Next]_vars => TurnInv'
  <1> SUFFICES ASSUME TypeOK, TypeOK', TurnInv, [Next]_vars
               PROVE  TurnInv'
    OBVIOUS
  <1>1. CASE Rest
    BY <1>1, EnvironmentStep DEF Rest
  <1> QED
    BY <1>1, AdmissionStep, StagingStep, AwaitStep, ClosingStep, BesideStep,
       EnvironmentStep, RestartStep
       DEF Next, Step

-----------------------------------------------------------------------------
(* The theorems *)

\* Every reachable state is well typed and satisfies the inductive invariant:
\* what a client is told of a turn is true of that turn's files.
THEOREM TurnInvariant == Spec => [](TypeOK /\ TurnInv)
  <1>1. Init => TypeOK
    <2> SUFFICES ASSUME Init
                 PROVE  TypeOK
      OBVIOUS
    <2>1. /\ pc \in [Thread -> PC]
          /\ turn \in [Thread -> Uuid \cup {None}]
          /\ seen \in [Thread -> Envelope \cup {None}]
          /\ out \in [Thread -> Reason \cup {None}]
      BY DEF Init
    <2>2. /\ doubt \in [Thread -> BOOLEAN]
          /\ late \in [Thread -> BOOLEAN]
          /\ alive \in BOOLEAN /\ torn \in BOOLEAN
      BY DEF Init
    <2>3. /\ lock \in Thread \cup {None}
          /\ flag \in Uuid \cup {None}
          /\ latest \in Uuid \cup {None}
          /\ env \in [Uuid -> Envelope \cup {None}]
          /\ result \in [Uuid -> Reason \cup Cut \cup {"none", "refused"}]
      BY DEF Init
    <2>4. /\ doc \subseteq Uuid /\ prompted \subseteq Uuid
          /\ delivered \subseteq Uuid /\ claude \in ClaudeState
      BY DEF Init, ClaudeState
    <2> QED BY <2>1, <2>2, <2>3, <2>4 DEF TypeOK
  <1>2. Init => TurnInv
    BY NoneAssumption
       DEF Init, TurnInv, LockIsHeld, TurnsOwned, FlagNamesRunningTurn,
           RunningTurnIsLatest, OutcomeIsFounded, AcceptedIsDelivered,
           DoneIsFetchable, ReadBack
  <1> QED BY <1>1, <1>2, NextType, NextTurn, PTL DEF Spec

\* Every reachable state is well typed.
THEOREM TypeCorrect == Spec => []TypeOK
  BY TurnInvariant, PTL

\* While its server lives, @wcb_turn names the running turn from its set_option to
\* its finally clause, and an interrupted one until the next is staged.
THEOREM FlagIsRight == Spec => []FlagNamesRunningTurn
  <1>1. TurnInv => FlagNamesRunningTurn
    BY DEF TurnInv
  <1> QED BY <1>1, TurnInvariant, PTL

\* No sweep removes the document of a running turn.
THEOREM DocumentStays == Spec => []RunningTurnIsStaged
  <1>1. TurnInv => RunningTurnIsStaged
    BY DEF TurnInv, RunningTurnIsLatest, RunningTurnIsStaged
  <1> QED BY <1>1, TurnInvariant, PTL

\* A client that was told "idle" can fetch its envelope until the next turn.
THEOREM EnvelopeStays == Spec => []DoneIsFetchable
  <1>1. TurnInv => DoneIsFetchable
    BY DEF TurnInv
  <1> QED BY <1>1, TurnInvariant, PTL

-----------------------------------------------------------------------------
(* The turns implement TurnService *)

\* The turn that runs, as the refinement maps it.
Current == IF lock # None /\ pc[lock] \in Streaming THEN turn[lock] ELSE None

\* A step of t that takes no part in a stream's beginning or end is a stutter.
LEMMA StutterFrame ==
    ASSUME UNCHANGED <<Current, delivered, result>>
    PROVE  UNCHANGED Service!vars
  BY DEF Current, Service!vars

\* The steps of a stream: one begins a turn, one refuses it, one ends it.
LEMMA StreamRefines ==
    ASSUME TypeOK, TurnInv, NEW t \in Thread,
           \/ StartStream(t) \/ Acquire(t) \/ AcquireTimeout(t) \/ Stage(t)
           \/ SetFlag(t) \/ Prompt(t) \/ Expire(t) \/ Poll(t) \/ Observe(t)
           \/ SliceOver(t) \/ Read(t) \/ Screen(t) \/ Clear(t) \/ Release(t)
    PROVE  [Service!Next]_(Service!vars)
  <1> USE DEF TypeOK, Goto, Outcome, threadVars, claudeVars, serverVars
  <1>1. CASE Acquire(t)
    <2>1. turn[t] \in Uuid /\ result[turn[t]] = "none"
      BY <1>1, OwnTurn DEF Acquire, TurnInv
    <2>2. Current = None /\ Current' = turn[t]
      BY <1>1, NoneAssumption DEF Acquire, Current
    <2>3. Service!Begin(turn[t])
      BY <1>1, <2>1, <2>2 DEF Acquire, Current, Service!Begin
    <2> QED BY <2>1, <2>3 DEF Service!Next
  <1>2. CASE AcquireTimeout(t)
    <2>1. /\ turn[t] \in Uuid /\ result[turn[t]] = "none"
          /\ \A s \in Thread \ {t} : turn[s] # turn[t]
      BY <1>2, OwnTurn DEF AcquireTimeout, TurnInv
    <2>2. Current # turn[t] /\ Current' = Current
      BY <1>2, <2>1, NoneAssumption DEF AcquireTimeout, Current
    <2>3. Service!Refuse(turn[t])
      BY <1>2, <2>1, <2>2 DEF AcquireTimeout, Current, Service!Refuse
    <2> QED BY <2>1, <2>3 DEF Service!Next
  <1>3. CASE Release(t)
    <2>1. turn[t] \in Uuid /\ lock = t
      BY <1>3, OwnTurn DEF Release, TurnInv, LockIsHeld
    <2>2. Current = turn[t] /\ Current' = None
      BY <1>3, <2>1, NoneAssumption DEF Release, Current
    <2>3. out[t] \in Reason /\ (out[t] = "idle" => turn[t] \in delivered)
      BY <1>3 DEF Release, TurnInv, OutcomeIsFounded
    <2>4. Service!End(turn[t], out[t])
      BY <1>3, <2>1, <2>2, <2>3 DEF Release, Current, Service!End
    <2> QED BY <2>1, <2>3, <2>4 DEF Service!Next
  <1>4. CASE StartStream(t)
    <2>1. Current' = Current
      BY <1>4, NoneAssumption DEF StartStream, Current, TurnInv, LockIsHeld
    <2> QED BY <1>4, <2>1, StutterFrame DEF StartStream
  <1>5. CASE \/ Stage(t) \/ SetFlag(t) \/ Prompt(t) \/ Expire(t) \/ Poll(t)
             \/ Observe(t) \/ SliceOver(t) \/ Read(t) \/ Screen(t) \/ Clear(t)
    <2>1. /\ pc[t] \in Streaming /\ pc'[t] \in Streaming
          /\ \A s \in Thread \ {t} : pc'[s] = pc[s]
          /\ UNCHANGED <<turn, lock, delivered, result>>
      BY <1>5 DEF Stage, SetFlag, Prompt, Expire, Poll, Observe, SliceOver,
                  Read, Screen, HandleVerdict, Clear
    <2>2. Current' = Current
      BY <2>1 DEF Current
    <2> QED BY <2>1, <2>2, StutterFrame
  <1> QED BY <1>1, <1>2, <1>3, <1>4, <1>5

\* send-key and the environment: claude may deliver, nothing else shows.
LEMMA OtherRefines ==
    ASSUME TypeOK, TurnInv,
           \/ \E t \in Thread : \/ StartKey(t) \/ KeyAcquire(t) \/ KeyType(t)
                                \/ KeyRelease(t)
           \/ ClaudeTurns \/ ClaudeWrites \/ ServerExits \/ TornDown
           \/ BridgeRestarts \/ UNCHANGED vars
    PROVE  [Service!Next]_(Service!vars)
  <1> USE DEF TypeOK, Goto, threadVars, claudeVars, serverVars
  <1>1. ASSUME NEW t \in Thread,
               \/ StartKey(t) \/ KeyAcquire(t) \/ KeyType(t) \/ KeyRelease(t)
        PROVE  UNCHANGED Service!vars
    <2>1. /\ pc[t] \notin Streaming /\ pc'[t] \notin Streaming
          /\ \A s \in Thread \ {t} : pc'[s] = pc[s]
          /\ UNCHANGED <<turn, delivered, result>>
          /\ \/ lock' = lock
             \/ lock = None /\ lock' = t
             \/ lock' = None /\ pc[t] \in Holding
      BY <1>1 DEF StartKey, KeyAcquire, KeyType, KeyRelease
    <2>2. Current' = Current
      BY <2>1, NoneAssumption DEF Current, TurnInv, LockIsHeld
    <2> QED BY <2>1, <2>2, StutterFrame
  <1>2. CASE ClaudeWrites
    <2>1. Current' = Current /\ result' = result
      BY <1>2 DEF ClaudeWrites, Current
    <2>2. \/ delivered' = delivered
          \/ \E u \in Uuid : delivered' = delivered \cup {u}
      BY <1>2 DEF ClaudeWrites
    <2>3. CASE delivered' = delivered
      BY <2>1, <2>3, StutterFrame
    <2>4. ASSUME NEW u \in Uuid, delivered' = delivered \cup {u}
          PROVE  Service!Next
      BY <2>1, <2>4 DEF Current, Service!Next, Service!Deliver
    <2> QED BY <2>2, <2>3, <2>4
  <1>3. CASE ClaudeTurns \/ ServerExits \/ TornDown \/ UNCHANGED vars
    <2>1. UNCHANGED <<Current, delivered, result>>
      BY <1>3 DEF ClaudeTurns, ServerExits, TornDown, vars, Current
    <2> QED BY <2>1, StutterFrame
  <1>4. CASE BridgeRestarts
    <2>1. Current' = None /\ delivered' = delivered
      BY <1>4 DEF BridgeRestarts, Current
    <2>2. CASE \E t \in Thread : pc[t] \in Streaming
      <3>1. PICK t \in Thread : pc[t] \in Streaming
        BY <2>2
      <3>2. /\ lock = t /\ turn[t] \in Uuid /\ Current = turn[t]
            /\ \A s \in Thread \ {t} : pc[s] \notin Streaming
        BY <3>1, OwnTurn, NoneAssumption DEF TurnInv, LockIsHeld, Current
      <3>3. PICK how \in Cut : result' = [result EXCEPT ![turn[t]] = how]
        <4>1. /\ \A u \in Uuid \ {turn[t]} : result'[u] = result[u]
              /\ result'[turn[t]] \in Cut
          BY <1>4, <3>1, <3>2 DEF BridgeRestarts, Cut
        <4>2. result' = [u \in Uuid |-> result'[u]]
          BY <1>4 DEF BridgeRestarts
        <4>3. result' = [result EXCEPT ![turn[t]] = result'[turn[t]]]
          BY <4>1, <4>2
        <4> QED BY <4>1, <4>3
      <3>4. Service!CutOff(turn[t], how)
        BY <2>1, <3>2, <3>3 DEF Current, Service!CutOff
      <3> QED BY <3>2, <3>4 DEF Service!Next
    <2>3. CASE \A t \in Thread : pc[t] \notin Streaming
      <3>1. Current = None
        BY <2>3, NoneAssumption DEF Current
      <3>2. result' = result
        BY <1>4, <2>3 DEF BridgeRestarts
      <3> QED BY <2>1, <3>1, <3>2, StutterFrame
    <2> QED BY <2>2, <2>3
  <1> QED BY <1>1, <1>2, <1>3, <1>4

\* The handler, its files and its screens implement the service: one turn at a
\* time, each ends once, and "idle" is only said of a turn claude delivered for.
THEOREM Refinement == Spec => ImplementsService
  <1>1. Init => Service!Init
    BY NoneAssumption DEF Init, Service!Init
  <1>2. TypeOK /\ TurnInv /\ [Next]_vars => [Service!Next]_(Service!vars)
    <2> SUFFICES ASSUME TypeOK, TurnInv, [Next]_vars
                 PROVE  [Service!Next]_(Service!vars)
      OBVIOUS
    <2>1. CASE Rest
      BY <2>1, OtherRefines DEF Rest
    <2> QED BY <2>1, StreamRefines, OtherRefines DEF Next, Step
  <1> QED
    BY <1>1, <1>2, TurnInvariant, PTL DEF Spec, ImplementsService, Service!Spec
=============================================================================
