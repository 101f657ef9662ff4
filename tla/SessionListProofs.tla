-------------------------- MODULE SessionListProofs --------------------------
(***************************************************************************)
(* Proofs about SessionList, for any number of listers, sids, objects and  *)
(* restarts: the type invariant, the inductive invariant ListInv, and what *)
(* a list may show.                                                        *)
(***************************************************************************)
EXTENDS SessionList, TLAPS

USE DEF InHand, Working, Pending

-----------------------------------------------------------------------------
(* Type correctness *)

\* What the steps assign to an object keeps obj typed.
LEMMA FieldTypes ==
    ASSUME TypeOK, NEW o \in Obj
    PROVE  /\ \A s \in Sid, maker \in {"create", "hydrate"} :
                 [obj EXCEPT ![o] = NewSession(s, maker)] \in [Obj -> Session]
           /\ \A m \in SUBSET {"create", "hydrate"} :
                 /\ [obj EXCEPT ![o].makers = m] \in [Obj -> Session]
                 /\ [obj EXCEPT ![o].status = "READY", ![o].makers = m]
                       \in [Obj -> Session]
           /\ \A x \in {"free", "held", "staged", "cleared"} :
                 [obj EXCEPT ![o].lock = x] \in [Obj -> Session]
  <1>1. obj \in [Obj -> Session]
    BY DEF TypeOK
  <1>2. \A s \in Sid, maker \in {"create", "hydrate"} :
           NewSession(s, maker) \in Session
    BY DEF NewSession, Session
  <1>3. \A s \in Sid, maker \in {"create", "hydrate"} :
           [obj EXCEPT ![o] = NewSession(s, maker)] \in [Obj -> Session]
    BY <1>1, <1>2
  <1>4. ASSUME NEW m \in SUBSET {"create", "hydrate"}
        PROVE  /\ [obj EXCEPT ![o].makers = m] \in [Obj -> Session]
               /\ [obj EXCEPT ![o].status = "READY", ![o].makers = m]
                     \in [Obj -> Session]
    <2>1. /\ [obj[o] EXCEPT !.makers = m] \in Session
          /\ [obj[o] EXCEPT !.status = "READY", !.makers = m] \in Session
      BY <1>1 DEF Session
    <2> QED BY <1>1, <2>1
  <1>5. ASSUME NEW x \in {"free", "held", "staged", "cleared"}
        PROVE  [obj EXCEPT ![o].lock = x] \in [Obj -> Session]
    <2>1. [obj[o] EXCEPT !.lock = x] \in Session
      BY <1>1 DEF Session
    <2> QED BY <1>1, <2>1
  <1> QED BY <1>3, <1>4, <1>5

\* What remains of the makers of an object is a set of makers.
LEMMA MakersType ==
    ASSUME TypeOK, NEW o \in Obj
    PROVE  /\ obj[o].makers \cup {"hydrate"} \in SUBSET {"create", "hydrate"}
           /\ obj[o].makers \ {"hydrate"} \in SUBSET {"create", "hydrate"}
           /\ obj[o].makers \ {"create"} \in SUBSET {"create", "hydrate"}
  BY DEF TypeOK, Session

LEMMA WithoutType ==
    ASSUME TypeOK, NEW o \in Obj
    PROVE  Without(o) \in [Sid -> Obj \cup {None}]
  BY DEF TypeOK, Without

\* What Complete assigns.
LEMMA CompleteForms ==
    ASSUME TypeOK, NEW o \in Obj, Complete(o)
    PROVE  /\ \E m \in SUBSET {"create", "hydrate"} :
                 \/ obj' = [obj EXCEPT ![o].makers = m]
                 \/ obj' = [obj EXCEPT ![o].status = "READY", ![o].makers = m]
           /\ sessions' = sessions \/ sessions' = Without(o)
           /\ UNCHANGED <<server, flagged, deleted, restarts, cache, listerVars>>
  <1>1. \/ obj' = [obj EXCEPT ![o].status = "READY",
                             ![o].makers = obj[o].makers \ {"create"}]
        \/ obj' = [obj EXCEPT ![o].status = "READY",
                             ![o].makers = obj[o].makers \ {"hydrate"}]
        \/ obj' = [obj EXCEPT ![o].makers = obj[o].makers \ {"hydrate"}]
    BY DEF Complete, TypeOK, Session
  <1>2. /\ sessions' = sessions \/ sessions' = Without(o)
        /\ UNCHANGED <<server, flagged, deleted, restarts, cache, listerVars>>
    BY DEF Complete
  <1> QED BY <1>1, <1>2, MakersType

\* What Claim assigns.
LEMMA ClaimForm ==
    ASSUME TypeOK, NEW o \in Obj, Claim(o)
    PROVE  /\ \E m \in SUBSET {"create", "hydrate"} :
                 obj' = [obj EXCEPT ![o].makers = m]
           /\ UNCHANGED <<sessions, server, flagged, deleted, restarts, cache,
                          listerVars>>
  <1>1. obj' = [obj EXCEPT ![o].makers = obj[o].makers \cup {"hydrate"}]
    BY DEF Claim, TypeOK, Session
  <1> QED BY <1>1, MakersType DEF Claim

\* What the steps of a turn assign.
LEMMA TurnForm ==
    ASSUME TypeOK, NEW o \in Obj, obj[o].sid # None, Turn(o)
    PROVE  /\ \E x \in {"free", "held", "staged", "cleared"} :
                 obj' = [obj EXCEPT ![o].lock = x]
           /\ obj[o].lock # "free" \/ (obj[o].status = "READY" /\ obj[o].cap)
           /\ \A s \in flagged' :
                 s \in flagged \/ (s = obj[o].sid /\ Alive(s))
           /\ UNCHANGED <<sessions, server, deleted, restarts, cache, listerVars>>
  BY DEF Turn, TurnLocks, TurnStages, TurnClears, TurnReleases

\* What moves the registry keeps the types.
LEMMA RegistryType ==
    ASSUME TypeOK, Watch,
           \/ \E s \in Sid : Insert(s) \/ ServerExits(s)
           \/ \E o \in Obj : obj[o].sid # None /\ (\/ Claim(o) \/ Complete(o)
                                                   \/ Turn(o) \/ Forget(o))
           \/ Restart \/ CacheAges \/ Rest
    PROVE  TypeOK'
  <1> USE DEF TypeOK, registryVars, listerVars
  <1>0. held' \in [Lister -> SUBSET (Sid \X Reason)]
    BY DEF Watch
  <1>1. ASSUME NEW s \in Sid, Insert(s)
        PROVE  TypeOK'
    <2>1. PICK o \in Obj, maker \in {"create", "hydrate"} :
             /\ sessions' = [sessions EXCEPT ![s] = o]
             /\ obj' = [obj EXCEPT ![o] = NewSession(s, maker)]
      BY <1>1 DEF Insert, FreeObj
    <2>2. obj' \in [Obj -> Session]
      <3> HIDE DEF TypeOK
      <3> QED BY <2>1, FieldTypes
    <2>3. sessions' \in [Sid -> Obj \cup {None}]
      BY <2>1
    <2>4. server' \in [Sid -> {"unminted", "alive", "gone"}]
      BY <1>1 DEF Insert
    <2> QED BY <1>0, <1>1, <2>2, <2>3, <2>4 DEF Insert
  <1>2. ASSUME NEW o \in Obj, obj[o].sid # None, Complete(o) \/ Claim(o)
        PROVE  TypeOK'
    <2>1. PICK m \in SUBSET {"create", "hydrate"} :
             \/ obj' = [obj EXCEPT ![o].makers = m]
             \/ obj' = [obj EXCEPT ![o].status = "READY", ![o].makers = m]
      <3> HIDE DEF TypeOK
      <3> QED BY <1>2, CompleteForms, ClaimForm
    <2>2. obj' \in [Obj -> Session]
      <3> HIDE DEF TypeOK
      <3>1. /\ [obj EXCEPT ![o].makers = m] \in [Obj -> Session]
            /\ [obj EXCEPT ![o].status = "READY", ![o].makers = m]
                  \in [Obj -> Session]
        BY FieldTypes, Zenon
      <3> QED BY <2>1, <3>1, Zenon
    <2>3. /\ sessions' = sessions \/ sessions' = Without(o)
          /\ UNCHANGED <<server, flagged, deleted, restarts, cache, listerVars>>
      <3> HIDE DEF TypeOK, listerVars
      <3> QED BY <1>2, CompleteForms, ClaimForm
    <2>4. sessions' \in [Sid -> Obj \cup {None}]
      BY <2>3, WithoutType
    <2> QED BY <1>0, <2>2, <2>3, <2>4
  <1>3. ASSUME NEW s \in Sid, ServerExits(s)
        PROVE  TypeOK'
    BY <1>0, <1>3 DEF ServerExits
  <1>4. ASSUME NEW o \in Obj, obj[o].sid # None, Forget(o)
        PROVE  TypeOK'
    <2>1. obj[o].sid \in Sid
      BY <1>4 DEF Session
    <2>2. sessions' \in [Sid -> Obj \cup {None}]
      BY <1>4, WithoutType DEF Forget
    <2> QED BY <1>0, <1>4, <2>1, <2>2 DEF Forget
  <1>5. ASSUME NEW o \in Obj, obj[o].sid # None, Turn(o)
        PROVE  TypeOK'
    <2>1. obj[o].sid \in Sid
      BY <1>5 DEF Session
    <2>2. obj' \in [Obj -> Session]
      <3> HIDE DEF TypeOK
      <3>1. PICK x \in {"free", "held", "staged", "cleared"} :
               obj' = [obj EXCEPT ![o].lock = x]
        BY <1>5, TurnForm
      <3> QED BY <3>1, FieldTypes
    <2>3. flagged' \subseteq Sid
      BY <1>5, <2>1, TurnForm
    <2>4. UNCHANGED <<sessions, server, deleted, restarts, cache, listerVars>>
      BY <1>5, TurnForm
    <2> QED BY <1>0, <2>2, <2>3, <2>4
  <1>6. CASE Restart
    <2>1. NoRows \in [Sid -> Row \cup {None}] /\ Unused \in Session
      BY DEF NoRows, Unused, Session
    <2>2. restarts' \in 0..MaxRestarts
      BY <1>6, ListBoundAssumption DEF Restart
    <2> QED BY <1>0, <1>6, <2>1, <2>2 DEF Restart
  <1>7. CASE CacheAges \/ Rest
    BY <1>0, <1>7 DEF CacheAges, Rest
  <1> QED BY <1>1, <1>2, <1>3, <1>4, <1>5, <1>6, <1>7

\* So does adding a row.
LEMMA RowType ==
    ASSUME TypeOK, NEW l \in Lister, current[l] \in Obj,
           obj[current[l]].sid # None,
           NEW state \in {"busy", "reconstructing", "idle"}, AddRow(l, state)
    PROVE  /\ rows' \in [Lister -> [Sid -> Row \cup {None}]]
           /\ current' \in [Lister -> Obj \cup {None}]
           /\ alive' \in [Lister -> BOOLEAN]
           /\ pc' = [pc EXCEPT ![l] = "rows"]
  <1>1. obj[current[l]].sid \in Sid
    BY DEF TypeOK, Session
  <1>2. [state |-> state, alive |-> alive[l]] \in Row
    BY DEF TypeOK, Row
  <1> QED BY <1>1, <1>2 DEF AddRow, Goto, TypeOK

\* And so do the steps of a list.
LEMMA ListerType ==
    ASSUME TypeOK, Watch, NEW l \in Lister, CopyIsKept(l),
           ListStart(l) \/ Step(l)
    PROVE  TypeOK'
  <1> USE DEF TypeOK, registryVars
  <1>0. held' \in [Lister -> SUBSET (Sid \X Reason)]
    BY DEF Watch
  <1>1. pc[l] \in InHand => current[l] \in Obj /\ obj[current[l]].sid # None
    BY DEF CopyIsKept
  <1>2. CASE ListStart(l)
    BY <1>0, <1>2 DEF ListStart, Goto, Registered
  <1>3. CASE RowProbe(l)
    <2>1. PICK o \in todo[l], a \in BOOLEAN :
             /\ current' = [current EXCEPT ![l] = o]
             /\ alive' = [alive EXCEPT ![l] = a]
      BY <1>3 DEF RowProbe, Probe, Alive
    <2>2. current' \in [Lister -> Obj \cup {None}]
      BY <2>1
    <2> QED BY <1>0, <1>3, <2>1, <2>2 DEF RowProbe, Goto
  <1>4. CASE RowLock(l)
    BY <1>0, <1>1, <1>4, RowType DEF RowLock, Goto
  <1>9. CASE RowRelock(l)
    BY <1>0, <1>1, <1>9, RowType DEF RowRelock, Goto
  <1>5. CASE RowFlag(l)
    BY <1>0, <1>1, <1>5, RowType DEF RowFlag, FailAtRow, Goto
  <1>6. CASE RowScreen(l)
    BY <1>0, <1>1, <1>6, RowType DEF RowScreen, FailAtRow, Goto, Alive
  <1>7. CASE ListEnd(l)
    BY <1>0, <1>7 DEF ListEnd, Stored, Goto
  <1>8. CASE ListDone(l)
    BY <1>0, <1>8 DEF ListDone, NoRows, Goto
  <1> QED
    BY <1>2, <1>3, <1>4, <1>5, <1>6, <1>7, <1>8, <1>9 DEF Step, ComputeRow

\* Every step is one of these.
LEMMA NextType == TypeOK /\ ListInv /\ [Next]_vars => TypeOK'
  <1> SUFFICES ASSUME TypeOK, ListInv, [Next]_vars
               PROVE  TypeOK'
    OBVIOUS
  <1>1. CASE UNCHANGED vars
    <2>1. held' = held \/ held' \in [Lister -> SUBSET (Sid \X Reason)]
      BY <1>1 DEF vars
    <2> QED BY <1>1, <2>1 DEF vars, TypeOK, registryVars, listerVars
  <1>2. CASE Next
    BY <1>2, RegistryType, ListerType DEF Next, ListInv
  <1> QED BY <1>1, <1>2

-----------------------------------------------------------------------------
(* What moves the registry *)

RegistryMoves ==
    \/ \E s \in Sid : Insert(s) \/ ServerExits(s)
    \/ \E o \in Obj : obj[o].sid # None /\ (\/ Claim(o) \/ Complete(o)
                                            \/ Turn(o) \/ Forget(o))
    \/ CacheAges \/ Rest

\* What a list relies on while it computes: an object keeps its sid and its cap
\* and stays READY, no step replaces the entry of a session by another, and
\* deleted sids stay deleted.
ObjectPersists(o) ==
    /\ obj[o].sid # None => obj'[o].sid = obj[o].sid /\ obj'[o].cap = obj[o].cap
    /\ obj[o].status = "READY" => obj'[o].status = "READY"

Persists ==
    /\ \A o \in Obj : ObjectPersists(o)
    /\ \A s \in Sid : \/ sessions'[s] = sessions[s]
                      \/ sessions'[s] = None \/ sessions[s] = None
    /\ deleted \subseteq deleted'

\* What a step of object o leaves of all objects.
Touches(o) ==
    /\ \A p \in Obj : obj'[p].sid = obj[p].sid /\ obj'[p].cap = obj[p].cap
    /\ \A p \in Obj \ {o} : obj'[p] = obj[p]
    /\ obj[o].status = "READY" => obj'[o].status = "READY"

LEMMA StepsTouch ==
    ASSUME TypeOK, NEW o \in Obj, obj[o].sid # None,
           Claim(o) \/ Complete(o) \/ Turn(o) \/ Forget(o)
    PROVE  /\ Touches(o)
           /\ \A s \in Sid : sessions'[s] = sessions[s] \/ sessions'[s] = None
           /\ server' = server /\ deleted \subseteq deleted'
           /\ UNCHANGED listerVars
  <1>0. obj \in [Obj -> Session] /\ sessions \in [Sid -> Obj \cup {None}]
    BY DEF TypeOK
  <1>1. CASE Claim(o)
    <2>1. PICK m \in SUBSET {"create", "hydrate"} :
             obj' = [obj EXCEPT ![o].makers = m]
      BY <1>1, ClaimForm
    <2>2. Touches(o)
      BY <1>0, <2>1 DEF Touches, Session
    <2> QED BY <1>1, <2>2, ClaimForm
  <1>2. CASE Complete(o)
    <2>1. PICK m \in SUBSET {"create", "hydrate"} :
             \/ obj' = [obj EXCEPT ![o].makers = m]
             \/ obj' = [obj EXCEPT ![o].status = "READY", ![o].makers = m]
      BY <1>2, CompleteForms
    <2>2. Touches(o)
      <3>1. CASE obj' = [obj EXCEPT ![o].makers = m]
        BY <1>0, <3>1 DEF Touches, Session
      <3>2. CASE obj' = [obj EXCEPT ![o].status = "READY", ![o].makers = m]
        <4>1. /\ obj'[o].sid = obj[o].sid /\ obj'[o].cap = obj[o].cap
              /\ obj'[o].status = "READY"
          BY <1>0, <3>2 DEF Session
        <4>2. \A p \in Obj \ {o} : obj'[p] = obj[p]
          BY <1>0, <3>2
        <4> QED BY <4>1, <4>2 DEF Touches
      <3> QED BY <2>1, <3>1, <3>2
    <2>3. /\ sessions' = sessions \/ sessions' = Without(o)
          /\ UNCHANGED <<server, deleted, listerVars>>
      BY <1>2, CompleteForms
    <2>4. \A s \in Sid : sessions'[s] = sessions[s] \/ sessions'[s] = None
      BY <1>0, <2>3 DEF Without
    <2> QED BY <2>2, <2>3, <2>4
  <1>3. CASE Turn(o)
    <2>1. PICK x \in {"free", "held", "staged", "cleared"} :
             obj' = [obj EXCEPT ![o].lock = x]
      BY <1>3, TurnForm
    <2>2. Touches(o)
      BY <1>0, <2>1 DEF Touches, Session
    <2> QED BY <1>3, <2>2, TurnForm
  <1>4. CASE Forget(o)
    BY <1>0, <1>4 DEF Forget, Without, Touches
  <1> QED BY <1>1, <1>2, <1>3, <1>4

LEMMA RegistryPersists ==
    ASSUME TypeOK, RegistryAgrees, RegistryMoves
    PROVE  Persists /\ UNCHANGED listerVars
  <1> USE DEF Persists, ObjectPersists
  <1>1. ASSUME NEW s \in Sid, Insert(s)
        PROVE  Persists /\ UNCHANGED listerVars
    <2>1. PICK o \in Obj, maker \in {"create", "hydrate"} :
             /\ sessions' = [sessions EXCEPT ![s] = o]
             /\ obj' = [obj EXCEPT ![o] = NewSession(s, maker)]
             /\ obj[o].sid = None
      BY <1>1 DEF Insert, FreeObj
    <2>2. obj[o].status # "READY"
      BY <2>1 DEF RegistryAgrees
    <2>3. \A p \in Obj \ {o} : obj'[p] = obj[p]
      BY <2>1 DEF TypeOK
    <2>4. \A t \in Sid : sessions'[t] = sessions[t] \/ sessions[t] = None
      BY <1>1, <2>1 DEF Insert, TypeOK
    <2> QED BY <1>1, <2>1, <2>2, <2>3, <2>4 DEF Insert
  <1>2. ASSUME NEW o \in Obj, obj[o].sid # None,
               Claim(o) \/ Complete(o) \/ Turn(o) \/ Forget(o)
        PROVE  Persists /\ UNCHANGED listerVars
    BY <1>2, StepsTouch DEF Touches
  <1>3. ASSUME NEW s \in Sid, ServerExits(s)
        PROVE  Persists /\ UNCHANGED listerVars
    BY <1>3 DEF ServerExits
  <1>4. CASE CacheAges \/ Rest
    BY <1>4 DEF CacheAges, Rest, registryVars
  <1> QED BY <1>1, <1>2, <1>3, <1>4 DEF RegistryMoves

\* What was busy for a reason before a step, and is after it, is the same object.
LEMMA BusyPersists ==
    ASSUME Persists, NEW s \in Sid, NEW r \in Reason, Busy(s, r), Busy(s, r)'
    PROVE  sessions'[s] = sessions[s]
  BY DEF Persists, Busy

\* What the history of a list that goes on says.
LEMMA WatchHolds ==
    ASSUME Watch, NEW l \in Lister, pc'[l] # "idle", NEW s \in Sid,
           NEW r \in Reason, <<s, r>> \in held'[l]
    PROVE  Busy(s, r)' /\ (pc[l] = "idle" \/ <<s, r>> \in held[l])
  <1>1. held'[l] = {h \in Sid \X Reason :
                       /\ Busy(h[1], h[2])'
                       /\ pc[l] = "idle" \/ h \in held[l]}
    BY DEF Watch
  <1>2. /\ Busy(<<s, r>>[1], <<s, r>>[2])'
        /\ pc[l] = "idle" \/ <<s, r>> \in held[l]
    BY <1>1
  <1> QED BY <1>2

\* A list that is being computed keeps its part of the invariant.
LEMMA ListerKept ==
    ASSUME TypeOK, Persists, Watch, UNCHANGED listerVars,
           NEW l \in Lister, CopyIsKept(l), BeganWithoutDeleted(l), HeldIsBusy(l)
    PROVE  CopyIsKept(l)' /\ BeganWithoutDeleted(l)' /\ HeldIsBusy(l)'
  <1> USE DEF TypeOK, listerVars
  <1>1. Pending(l)' = Pending(l) /\ Pending(l) \subseteq Obj
    BY DEF CopyIsKept
  <1>2. \A o \in Pending(l) : /\ obj[o].sid # None
                              /\ obj'[o].sid = obj[o].sid
                              /\ obj'[o].cap = obj[o].cap
    BY <1>1 DEF CopyIsKept, Persists, ObjectPersists
  <1>3. pc[l] \in InHand => current[l] \in Pending(l)
    OBVIOUS
  <1>4. CopyIsKept(l)'
    <2>1. pc[l] \in {"relock", "flag", "screen"} =>
             obj'[current[l]].status = "READY"
      BY <1>1, <1>3 DEF CopyIsKept, Persists, ObjectPersists
    <2>2. \A o \in Pending(l) : obj'[o].sid # None /\ rows[l][obj'[o].sid] = None
      BY <1>2 DEF CopyIsKept
    <2>3. \A o, p \in Pending(l) : obj'[o].sid = obj'[p].sid => o = p
      BY <1>2 DEF CopyIsKept
    <2> QED BY <1>1, <2>1, <2>2, <2>3 DEF CopyIsKept
  <1>5. BeganWithoutDeleted(l)'
    BY <1>1, <1>2 DEF BeganWithoutDeleted, Persists, Shown
  <1>6. HeldIsBusy(l)'
    <2> SUFFICES ASSUME pc[l] # "idle", NEW s \in Sid, NEW r \in Reason,
                        <<s, r>> \in held'[l]
                 PROVE  /\ Busy(s, r)'
                        /\ \/ sessions'[s] \in todo[l]
                           \/ /\ current[l] = sessions'[s]
                              /\ \/ pc[l] \in {"lock", "failed"}
                                 \/ pc[l] \in {"relock", "flag"} /\ r = "flag"
                           \/ rows[l][s] # None /\ rows[l][s].state = "busy"
      BY DEF HeldIsBusy
    <2>1. Busy(s, r)' /\ <<s, r>> \in held[l]
      BY WatchHolds
    <2>2. Busy(s, r)
      BY <2>1 DEF HeldIsBusy
    <2>3. sessions'[s] = sessions[s]
      BY <2>1, <2>2, BusyPersists
    <2> QED BY <2>1, <2>3 DEF HeldIsBusy
  <1> QED BY <1>4, <1>5, <1>6

\* A step of an object that has its session agrees with the rest.
LEMMA AgreesKept ==
    ASSUME TypeOK, RegistryAgrees, NEW o \in Obj, obj[o].sid # None, Touches(o),
           obj'[o].lock # "free" => obj'[o].status = "READY" /\ obj[o].cap,
           \A s \in Sid : sessions'[s] = sessions[s] \/ sessions'[s] = None,
           server' = server, \A s \in flagged' : Alive(s)
    PROVE  RegistryAgrees'
  <1> USE DEF TypeOK, Session, RegistryAgrees, Touches
  <1>1. \A s \in Sid : sessions'[s] # None => obj'[sessions'[s]].sid = s
    OBVIOUS
  <1>2. ASSUME NEW p \in Obj
        PROVE  /\ obj'[p].sid # None => server'[obj'[p].sid] # "unminted"
               /\ obj'[p].status = "READY" \/ obj'[p].cap => obj'[p].sid # None
               /\ obj'[p].lock # "free" => obj'[p].status = "READY" /\ obj'[p].cap
    <2>1. CASE p = o
      BY <2>1
    <2>2. CASE p # o
      BY <2>2
    <2> QED BY <2>1, <2>2
  <1>3. \A p, q \in Obj :
           obj'[p].cap /\ obj'[q].cap /\ obj'[p].sid = obj'[q].sid => p = q
    OBVIOUS
  <1>4. \A s \in flagged' : server'[s] = "alive"
    BY DEF Alive
  <1> QED BY <1>1, <1>2, <1>3, <1>4 DEF Alive

\* The registry itself keeps its part.
LEMMA RegistryKept ==
    ASSUME TypeOK, RegistryAgrees, DeletedIsGone, GhostStraddlesDelete,
           RegistryMoves
    PROVE  RegistryAgrees' /\ DeletedIsGone' /\ GhostStraddlesDelete'
  <1> USE ListNoneAssumption DEF TypeOK, Session
  <1>1. ASSUME NEW s \in Sid, Insert(s)
        PROVE  RegistryAgrees' /\ DeletedIsGone' /\ GhostStraddlesDelete'
    <2> DEFINE maker == IF server[s] = "unminted" THEN "create" ELSE "hydrate"
    <2>1. PICK o \in Obj : /\ sessions' = [sessions EXCEPT ![s] = o]
                           /\ obj' = [obj EXCEPT ![o] = NewSession(s, maker)]
                           /\ obj[o].sid = None
      BY <1>1 DEF Insert, FreeObj
    <2>2. /\ obj'[o].sid = s /\ obj'[o].status = "RECONSTRUCTING"
          /\ obj'[o].lock = "free"
          /\ obj'[o].cap <=> server[s] = "unminted"
          /\ \A p \in Obj \ {o} : obj'[p] = obj[p]
      BY <2>1 DEF NewSession
    <2>3. /\ \A t \in Sid : server'[t] = IF t = s /\ server[t] = "unminted"
                                         THEN "alive" ELSE server[t]
          /\ UNCHANGED <<deleted, cache, flagged>>
      BY <1>1 DEF Insert
    <2>4. \A t \in Sid : sessions'[t] = IF t = s THEN o ELSE sessions[t]
      BY <2>1
    <2>5. \A t \in Sid : sessions[t] # o
      BY <2>1 DEF RegistryAgrees
    <2>6. obj'[o].cap => \A p \in Obj : obj[p].sid # s
      BY <2>2 DEF RegistryAgrees
    <2>7. RegistryAgrees'
      <3>1. \A t \in Sid : sessions'[t] # None => obj'[sessions'[t]].sid = t
        BY <2>2, <2>4, <2>5 DEF RegistryAgrees
      <3>2. server'[s] # "unminted"
        BY <2>3
      <3>3. ASSUME NEW p \in Obj
            PROVE  /\ obj'[p].sid # None => server'[obj'[p].sid] # "unminted"
                   /\ obj'[p].status = "READY" \/ obj'[p].cap =>
                         obj'[p].sid # None
                   /\ obj'[p].lock # "free" =>
                         obj'[p].status = "READY" /\ obj'[p].cap
        <4>1. CASE p = o
          BY <2>2, <3>2, <4>1
        <4>2. CASE p # o
          <5>1. obj'[p] = obj[p]
            BY <2>2, <4>2
          <5>2. obj[p].sid # None => obj[p].sid \in Sid
            OBVIOUS
          <5> QED BY <2>3, <5>1, <5>2 DEF RegistryAgrees
        <4> QED BY <4>1, <4>2
      <3>4. ASSUME NEW p \in Obj, NEW q \in Obj,
                   obj'[p].cap, obj'[q].cap, obj'[p].sid = obj'[q].sid
            PROVE  p = q
        <4>1. CASE p # o /\ q # o
          BY <2>2, <3>4, <4>1 DEF RegistryAgrees
        <4>2. CASE p = o \/ q = o
          BY <2>2, <2>6, <3>4, <4>2
        <4> QED BY <4>1, <4>2
      <3>5. \A t \in flagged' : server'[t] = "alive"
        BY <2>3 DEF RegistryAgrees, Alive
      <3> QED BY <3>1, <3>3, <3>4, <3>5 DEF RegistryAgrees, Alive
    <2>8. DeletedIsGone'
      BY <2>2, <2>3, <2>4, <2>5 DEF DeletedIsGone
    <2>9. GhostStraddlesDelete'
      BY <2>3 DEF GhostStraddlesDelete, Shown
    <2> QED BY <2>7, <2>8, <2>9
  <1>2. ASSUME NEW o \in Obj, obj[o].sid # None, Claim(o) \/ Complete(o)
        PROVE  RegistryAgrees' /\ DeletedIsGone' /\ GhostStraddlesDelete'
    <2>1. /\ Touches(o) /\ server' = server
          /\ \A s \in Sid : sessions'[s] = sessions[s] \/ sessions'[s] = None
      BY <1>2, StepsTouch
    <2>2. obj'[o].lock = obj[o].lock /\ UNCHANGED <<flagged, deleted, cache>>
      <3>1. PICK m \in SUBSET {"create", "hydrate"} :
               \/ obj' = [obj EXCEPT ![o].makers = m]
               \/ obj' = [obj EXCEPT ![o].status = "READY", ![o].makers = m]
        <4> HIDE DEF TypeOK, Session
        <4> QED BY <1>2, CompleteForms, ClaimForm
      <3>2. obj'[o].lock = obj[o].lock
        BY <3>1
      <3> HIDE DEF TypeOK, Session
      <3> QED BY <1>2, <3>2, ClaimForm, CompleteForms
    <2>3. RegistryAgrees'
      BY <1>2, <2>1, <2>2, AgreesKept DEF RegistryAgrees, Touches
    <2>4. DeletedIsGone'
      BY <2>1, <2>2 DEF DeletedIsGone, Touches
    <2> QED BY <2>2, <2>3, <2>4 DEF GhostStraddlesDelete, Shown
  <1>3. ASSUME NEW s \in Sid, ServerExits(s)
        PROVE  RegistryAgrees' /\ DeletedIsGone' /\ GhostStraddlesDelete'
    <2>1. /\ \A t \in Sid : server'[t] = IF t = s THEN "gone" ELSE server[t]
          /\ flagged' = flagged \ {s} /\ server[s] = "alive"
          /\ UNCHANGED <<sessions, obj, deleted, cache>>
      BY <1>3 DEF ServerExits, Alive
    <2>2. \A p \in Obj : obj[p].sid # None => obj[p].sid \in Sid
      OBVIOUS
    <2>3. RegistryAgrees'
      BY <2>1, <2>2 DEF RegistryAgrees, Alive
    <2> QED BY <2>1, <2>3 DEF DeletedIsGone, GhostStraddlesDelete, Shown
  <1>4. ASSUME NEW o \in Obj, obj[o].sid # None, Forget(o)
        PROVE  RegistryAgrees' /\ DeletedIsGone' /\ GhostStraddlesDelete'
    <2> DEFINE s == obj[o].sid
    <2>1. /\ Touches(o) /\ server' = server /\ obj' = obj
          /\ flagged' = flagged /\ cache' = None
          /\ s \in Sid /\ obj[o].cap /\ server[s] = "gone"
          /\ deleted' = deleted \cup {s} /\ sessions' = Without(o)
          /\ \A t \in Sid : sessions'[t] = sessions[t] \/ sessions'[t] = None
      BY <1>4, StepsTouch DEF Forget
    <2>2. RegistryAgrees'
      BY <1>4, <2>1, AgreesKept DEF RegistryAgrees
    <2>3. sessions'[s] # o
      BY <2>1 DEF Without
    <2>4. sessions'[s] # None => ~obj'[sessions'[s]].cap
      BY <2>1, <2>2, <2>3 DEF RegistryAgrees
    <2>5. DeletedIsGone'
      BY <2>1, <2>4 DEF DeletedIsGone
    <2> QED BY <2>1, <2>2, <2>5 DEF GhostStraddlesDelete
  <1>5. ASSUME NEW o \in Obj, obj[o].sid # None, Turn(o)
        PROVE  RegistryAgrees' /\ DeletedIsGone' /\ GhostStraddlesDelete'
    <2>1. /\ Touches(o) /\ server' = server
          /\ \A s \in Sid : sessions'[s] = sessions[s] \/ sessions'[s] = None
      BY <1>5, StepsTouch
    <2>2. /\ UNCHANGED <<sessions, deleted, cache>>
          /\ obj'[o].status = obj[o].status
          /\ obj[o].status = "READY" /\ obj[o].cap
          /\ \A s \in flagged' : Alive(s)
      <3>1. PICK x \in {"free", "held", "staged", "cleared"} :
               obj' = [obj EXCEPT ![o].lock = x]
        <4> HIDE DEF TypeOK, Session
        <4> QED BY <1>5, TurnForm
      <3>2. obj'[o].status = obj[o].status
        BY <3>1
      <3>3. obj[o].status = "READY" /\ obj[o].cap
        <4>1. obj[o].lock # "free" \/ (obj[o].status = "READY" /\ obj[o].cap)
          <5> HIDE DEF TypeOK, Session
          <5> QED BY <1>5, TurnForm
        <4> QED BY <4>1 DEF RegistryAgrees
      <3>4. /\ UNCHANGED <<sessions, deleted, cache>>
            /\ \A s \in flagged' :
                  s \in flagged \/ (s = obj[o].sid /\ Alive(s))
        <4> HIDE DEF TypeOK, Session
        <4> QED BY <1>5, TurnForm
      <3> QED BY <3>2, <3>3, <3>4 DEF RegistryAgrees
    <2>3. RegistryAgrees'
      BY <1>5, <2>1, <2>2, AgreesKept
    <2>4. DeletedIsGone'
      BY <2>1, <2>2 DEF DeletedIsGone, Touches
    <2> QED BY <2>2, <2>3, <2>4 DEF GhostStraddlesDelete, Shown
  <1>6. CASE CacheAges \/ Rest
    BY <1>6 DEF CacheAges, Rest, registryVars, RegistryAgrees, Alive,
                DeletedIsGone, GhostStraddlesDelete, Shown
  <1> QED BY <1>1, <1>2, <1>3, <1>4, <1>5, <1>6 DEF RegistryMoves

-----------------------------------------------------------------------------
(* The steps of a list *)

\* What the invariant says of lister l.
ListerInv(l) == CopyIsKept(l) /\ BeganWithoutDeleted(l) /\ HeldIsBusy(l)

\* The variables of lister m.
Still(m) == /\ pc'[m] = pc[m] /\ todo'[m] = todo[m] /\ current'[m] = current[m]
            /\ alive'[m] = alive[m] /\ rows'[m] = rows[m]
            /\ began'[m] = began[m]

\* A step that leaves the registry alone leaves the reasons to be busy.
LEMMA BusySame ==
    ASSUME UNCHANGED registryVars, NEW s, NEW r
    PROVE  Busy(s, r)' <=> Busy(s, r)
  BY DEF registryVars, Busy

\* A list does not disturb another.
LEMMA OtherKept ==
    ASSUME TypeOK, UNCHANGED registryVars, Watch, NEW m \in Lister, Still(m),
           ListerInv(m)
    PROVE  ListerInv(m)'
  <1> USE DEF TypeOK, registryVars, Still, ListerInv
  <1>1. Pending(m)' = Pending(m)
    OBVIOUS
  <1>2. CopyIsKept(m)'
    BY <1>1 DEF CopyIsKept
  <1>3. BeganWithoutDeleted(m)'
    BY <1>1 DEF BeganWithoutDeleted, Shown
  <1>4. HeldIsBusy(m)'
    BY WatchHolds, BusySame DEF HeldIsBusy
  <1> QED BY <1>2, <1>3, <1>4

\* A copy of the dict holds one object per sid, and nothing that was deleted.
LEMMA StartKept ==
    ASSUME TypeOK, RegistryAgrees, DeletedIsGone, Watch, NEW l \in Lister,
           ListerInv(l), ListStart(l)
    PROVE  ListerInv(l)'
  <1> USE ListNoneAssumption DEF TypeOK, registryVars, ListerInv
  <1>1. /\ pc[l] = "idle" /\ pc'[l] = "rows" /\ rows[l] = NoRows
        /\ todo'[l] = {sessions[s] : s \in Registered}
        /\ began'[l] = deleted
        /\ UNCHANGED <<registryVars, rows, current, alive>>
    BY DEF ListStart, Goto, CopyIsKept
  <1>2. Pending(l)' = {sessions[s] : s \in Registered}
    BY <1>1
  <1>3. \A o \in Pending(l)' : \E s \in Sid : /\ o = sessions[s] /\ o # None
                                              /\ obj[o].sid = s
    BY <1>2 DEF Registered, RegistryAgrees
  <1>4. \A s \in Sid : rows'[l][s] = None
    BY <1>1 DEF NoRows
  <1>5. CopyIsKept(l)'
    <2>1. ASSUME NEW o \in Pending(l)'
          PROVE  obj'[o].sid # None /\ rows'[l][obj'[o].sid] = None
      <3>1. PICK s \in Sid : o # None /\ obj[o].sid = s
        BY <1>3
      <3> QED BY <1>1, <1>4, <3>1
    <2>2. \A o, p \in Pending(l)' : obj'[o].sid = obj'[p].sid => o = p
      BY <1>1, <1>3
    <2> QED BY <1>1, <2>1, <2>2 DEF CopyIsKept
  <1>6. BeganWithoutDeleted(l)'
    <2>1. ASSUME NEW o \in Pending(l)', obj'[o].sid \in began'[l]
          PROVE  ~obj'[o].cap
      <3>1. PICK s \in Sid : o = sessions[s] /\ o # None /\ obj[o].sid = s
        BY <1>3
      <3> QED BY <1>1, <2>1, <3>1 DEF DeletedIsGone
    <2> QED BY <1>1, <1>4, <2>1 DEF BeganWithoutDeleted, Shown
  <1>7. HeldIsBusy(l)'
    <2>1. \A s \in Sid, r \in Reason : <<s, r>> \in held'[l] => Busy(s, r)'
      BY <1>1, WatchHolds
    <2>2. \A s \in Sid, r \in Reason : Busy(s, r)' => sessions'[s] \in todo'[l]
      BY <1>1 DEF Busy, Registered
    <2> QED BY <2>1, <2>2 DEF HeldIsBusy
  <1> QED BY <1>5, <1>6, <1>7

\* has-session: the object goes from the copy into the lister's hands.
LEMMA ProbeKept ==
    ASSUME TypeOK, Watch, NEW l \in Lister, ListerInv(l), RowProbe(l)
    PROVE  ListerInv(l)'
  <1> USE DEF TypeOK, registryVars, ListerInv
  <1>1. PICK o \in todo[l] : todo'[l] = todo[l] \ {o} /\ current'[l] = o
    BY DEF RowProbe
  <1>2. /\ pc[l] = "rows" /\ pc'[l] = "lock"
        /\ UNCHANGED <<registryVars, rows, began>>
    BY DEF RowProbe, Goto
  <1>3. Pending(l)' = Pending(l) /\ Pending(l) = todo[l]
    BY <1>1, <1>2
  <1>4. CopyIsKept(l)'
    BY <1>1, <1>2, <1>3 DEF CopyIsKept
  <1>5. BeganWithoutDeleted(l)'
    BY <1>2, <1>3 DEF BeganWithoutDeleted, Shown
  <1>6. HeldIsBusy(l)'
    <2>1. \A s \in Sid, r \in Reason : <<s, r>> \in held'[l] =>
             Busy(s, r)' /\ <<s, r>> \in held[l]
      BY <1>2, WatchHolds
    <2> QED BY <1>1, <1>2, <2>1 DEF HeldIsBusy
  <1> QED BY <1>4, <1>5, <1>6

\* A row that is added is that of the object in hand, and true of it.
LEMMA AddRowKept ==
    ASSUME TypeOK, Watch, NEW l \in Lister, ListerInv(l), RegistryAgrees,
           DeletedIsGone, UNCHANGED <<registryVars, todo, began>>,
           pc[l] \in {"lock", "relock", "flag", "screen"},
           NEW state \in {"busy", "reconstructing", "idle"}, AddRow(l, state),
           state # "reconstructing" =>
               obj[current[l]].cap \/ Alive(obj[current[l]].sid),
           state # "busy" => \/ pc[l] = "screen"
                             \/ obj[current[l]].status = "RECONSTRUCTING"
    PROVE  ListerInv(l)'
  <1> DEFINE o == current[l]
             s == obj[o].sid
             row == [state |-> state, alive |-> alive[l]]
  <1> USE ListNoneAssumption DEF TypeOK, registryVars, ListerInv
  <1>1. /\ o \in Obj /\ o \notin todo[l] /\ s \in Sid /\ rows[l][s] = None
        /\ \A p \in todo[l] : obj[p].sid # s
        /\ o \in Pending(l)
    BY DEF CopyIsKept, Session
  <1>2. /\ pc'[l] = "rows"
        /\ rows'[l] = [rows[l] EXCEPT ![s] = row]
        /\ UNCHANGED <<registryVars, todo, began>>
    BY DEF AddRow, Goto
  <1>3. Pending(l)' = todo[l]
    BY <1>2
  <1>4. /\ rows'[l][s] = row
        /\ \A t \in Sid \ {s} : rows'[l][t] = rows[l][t]
    BY <1>1, <1>2
  <1>5. row # None
    BY RowNoneAssumption DEF Row
  <1>6. CopyIsKept(l)'
    <2>1. \A p \in todo[l] : obj[p].sid \in Sid \ {s}
      BY <1>1 DEF CopyIsKept, Session
    <2> QED BY <1>2, <1>3, <1>4, <2>1 DEF CopyIsKept
  <1>7. BeganWithoutDeleted(l)'
    <2>1. s \in began[l] => state = "reconstructing"
      <3>1. s \in began[l] => ~obj[o].cap /\ s \in deleted
        BY <1>1 DEF BeganWithoutDeleted
      <3>2. s \in began[l] => ~Alive(s)
        BY <3>1 DEF DeletedIsGone, Alive
      <3> QED BY <3>1, <3>2
    <2> QED BY <1>2, <1>3, <1>4, <2>1 DEF BeganWithoutDeleted, Shown
  <1>8. HeldIsBusy(l)'
    <2> SUFFICES ASSUME NEW t \in Sid, NEW r \in Reason, <<t, r>> \in held'[l]
                 PROVE  /\ Busy(t, r)'
                        /\ \/ sessions'[t] \in todo'[l]
                           \/ rows'[l][t] # None /\ rows'[l][t].state = "busy"
      BY <1>2 DEF HeldIsBusy
    <2>1. Busy(t, r)' /\ Busy(t, r) /\ <<t, r>> \in held[l]
      BY <1>2, WatchHolds DEF HeldIsBusy
    <2>2. obj[sessions[t]].sid = t /\ obj[sessions[t]].status = "READY"
      BY <2>1 DEF RegistryAgrees, Busy
    <2>3. CASE t = s
      <3>1. pc[l] # "screen" /\ o = sessions[s]
        BY <1>1, <2>1, <2>2, <2>3 DEF HeldIsBusy
      <3>2. state = "busy"
        BY <2>2, <2>3, <3>1
      <3> QED BY <1>4, <1>5, <2>1, <2>3, <3>2
    <2>4. CASE t # s
      <3>1. o # sessions[t]
        BY <2>2, <2>4
      <3>2. \/ sessions[t] \in todo[l]
            \/ rows[l][t] # None /\ rows[l][t].state = "busy"
        BY <2>1, <3>1 DEF HeldIsBusy
      <3> QED BY <1>2, <1>4, <2>1, <2>4, <3>2
    <2> QED BY <2>3, <2>4
  <1> QED BY <1>6, <1>7, <1>8

\* What the loop body and is_busy find out, step by step: a row, another question,
\* or the end of the list.
RowAdded(l) ==
    \E state \in {"busy", "reconstructing", "idle"} :
        /\ AddRow(l, state)
        /\ state # "reconstructing" =>
               obj[current[l]].cap \/ Alive(obj[current[l]].sid)
        /\ state # "busy" => \/ pc[l] = "screen"
                             \/ obj[current[l]].status = "RECONSTRUCTING"

RowGoesOn(l) ==
    /\ UNCHANGED <<current, rows>>
    /\ obj[current[l]].status = "READY"
    /\ \/ pc[l] = "lock" /\ pc'[l] = "relock" /\ obj[current[l]].lock = "free"
       \/ pc[l] = "relock" /\ pc'[l] = "flag"
       \/ /\ pc[l] = "flag" /\ pc'[l] = "screen"
          /\ obj[current[l]].sid \notin flagged
       \/ pc[l] \in {"flag", "screen"} /\ pc'[l] = "failed"

LEMMA RowOutcome ==
    ASSUME TypeOK, NEW l \in Lister, CopyIsKept(l), RegistryAgrees,
           RowLock(l) \/ RowRelock(l) \/ RowFlag(l) \/ RowScreen(l)
    PROVE  /\ pc[l] \in {"lock", "relock", "flag", "screen"}
           /\ UNCHANGED <<registryVars, todo, began>>
           /\ RowAdded(l) \/ RowGoesOn(l)
  <1> DEFINE o == current[l]
  <1> USE DEF TypeOK
  <1>1. /\ pc[l] \in {"lock", "relock", "flag", "screen"}
        /\ UNCHANGED <<registryVars, todo, began>>
    BY DEF RowLock, RowRelock, RowFlag, RowScreen
  <1>2. o \in Obj /\ obj[o].sid \in Sid
    BY <1>1 DEF CopyIsKept, Session
  <1>3. obj[o].lock # "free" => obj[o].status = "READY" /\ obj[o].cap
    BY <1>2 DEF RegistryAgrees
  <1>4. obj[o].sid \in flagged => Alive(obj[o].sid)
    BY DEF RegistryAgrees
  <1>5. pc[l] # "lock" => obj[o].status = "READY"
    BY <1>1 DEF CopyIsKept
  <1>6. CASE RowLock(l)
    BY <1>2, <1>3, <1>6 DEF RowLock, RowAdded, RowGoesOn, Goto
  <1>7. CASE RowRelock(l)
    BY <1>2, <1>3, <1>5, <1>7 DEF RowRelock, RowAdded, RowGoesOn, Goto
  <1>8. CASE RowFlag(l)
    BY <1>2, <1>4, <1>5, <1>8 DEF RowFlag, FailAtRow, RowAdded, RowGoesOn, Goto
  <1>9. CASE RowScreen(l)
    BY <1>2, <1>5, <1>9 DEF RowScreen, FailAtRow, RowAdded, RowGoesOn, Goto
  <1> QED BY <1>1, <1>6, <1>7, <1>8, <1>9

LEMMA RowKept ==
    ASSUME TypeOK, Watch, NEW l \in Lister, ListerInv(l), RegistryAgrees,
           DeletedIsGone,
           RowLock(l) \/ RowRelock(l) \/ RowFlag(l) \/ RowScreen(l)
    PROVE  ListerInv(l)'
  <1> DEFINE o == current[l]
  <1>1. /\ pc[l] \in {"lock", "relock", "flag", "screen"}
        /\ UNCHANGED <<registryVars, todo, began>>
        /\ RowAdded(l) \/ RowGoesOn(l)
    BY RowOutcome DEF ListerInv
  <1>2. CASE RowAdded(l)
    BY <1>1, <1>2, AddRowKept DEF RowAdded
  <1>3. CASE RowGoesOn(l)
    <2> USE DEF TypeOK, registryVars, ListerInv, RowGoesOn
    <2>1. Pending(l)' = Pending(l)
      BY <1>1, <1>3
    <2>2. CopyIsKept(l)'
      BY <1>1, <1>3, <2>1 DEF CopyIsKept
    <2>3. BeganWithoutDeleted(l)'
      BY <1>1, <1>3, <2>1 DEF BeganWithoutDeleted, Shown
    <2>4. HeldIsBusy(l)'
      <3> SUFFICES ASSUME NEW s \in Sid, NEW r \in Reason, <<s, r>> \in held'[l]
                   PROVE  /\ Busy(s, r)'
                          /\ \/ sessions[s] \in todo[l]
                             \/ /\ o = sessions[s]
                                /\ \/ pc'[l] \in {"lock", "failed"}
                                   \/ pc'[l] \in {"relock", "flag"} /\ r = "flag"
                             \/ rows[l][s] # None /\ rows[l][s].state = "busy"
        BY <1>1, <1>3 DEF HeldIsBusy
      <3>1. Busy(s, r)' /\ Busy(s, r) /\ <<s, r>> \in held[l]
        BY <1>1, <1>3, WatchHolds DEF HeldIsBusy
      <3>2. o = sessions[s] /\ r = "lock" => obj[o].lock # "free"
        BY <3>1 DEF Busy
      <3>3. o = sessions[s] /\ r = "flag" => obj[o].sid \in flagged
        BY <3>1 DEF Busy, RegistryAgrees
      <3>4. r \in {"lock", "flag"}
        BY DEF Reason
      <3> QED BY <1>1, <1>3, <3>1, <3>2, <3>3, <3>4 DEF HeldIsBusy
    <2> QED BY <2>2, <2>3, <2>4
  <1> QED BY <1>1, <1>2, <1>3

\* The end of a list, and of its response.
LEMMA EndKept ==
    ASSUME TypeOK, Watch, NEW l \in Lister, ListerInv(l),
           ListEnd(l) \/ ListDone(l)
    PROVE  ListerInv(l)'
  <1> USE DEF TypeOK, registryVars, ListerInv
  <1>1. CASE ListEnd(l)
    <2>1. /\ pc[l] = "rows" /\ pc'[l] = "answered" /\ todo[l] = {}
          /\ UNCHANGED <<registryVars, todo, current, rows, began>>
      BY <1>1 DEF ListEnd, Goto
    <2>2. CopyIsKept(l)' /\ BeganWithoutDeleted(l)'
      BY <2>1 DEF CopyIsKept, BeganWithoutDeleted, Shown
    <2>3. \A s \in Sid, r \in Reason : <<s, r>> \in held'[l] =>
             Busy(s, r)' /\ <<s, r>> \in held[l]
      BY <2>1, WatchHolds
    <2>4. HeldIsBusy(l)'
      BY <2>1, <2>3 DEF HeldIsBusy
    <2> QED BY <2>2, <2>4
  <1>2. CASE ListDone(l)
    <2>1. /\ pc'[l] = "idle" /\ todo'[l] = {} /\ rows'[l] = NoRows
          /\ began'[l] = {}
      BY <1>2 DEF ListDone, Goto
    <2>2. Pending(l)' = {} /\ \A s \in Sid : rows'[l][s] = None
      BY <2>1 DEF NoRows
    <2> QED BY <2>1, <2>2 DEF CopyIsKept, BeganWithoutDeleted, Shown, HeldIsBusy
  <1> QED BY <1>1, <1>2

\* Together: a step of lister l.
LEMMA ListStepKept ==
    ASSUME TypeOK, ListInv, Watch, NEW l \in Lister, ListStart(l) \/ Step(l)
    PROVE  ListInv'
  <1> USE DEF ListInv, ListerInv
  <1>1. UNCHANGED registryVars
    BY DEF ListStart, Step, ComputeRow, RowProbe, RowLock, RowRelock, RowFlag, RowScreen,
           ListEnd, ListDone
  <1>2. RegistryAgrees' /\ DeletedIsGone'
    BY <1>1 DEF registryVars, RegistryAgrees, DeletedIsGone, Alive
  <1>3. GhostStraddlesDelete'
    <2>1. CASE ListEnd(l)
      BY <2>1 DEF ListEnd, registryVars, GhostStraddlesDelete,
                  BeganWithoutDeleted, Shown
    <2>2. CASE ~ListEnd(l)
      <3>1. UNCHANGED <<cache, deleted>>
        BY <2>2 DEF ListStart, Step, ComputeRow, RowProbe, RowLock, RowRelock, RowFlag,
                    RowScreen, ListDone, registryVars
      <3> QED BY <3>1 DEF GhostStraddlesDelete, Shown
    <2> QED BY <2>1, <2>2
  <1>4. ListerInv(l)'
    BY StartKept, ProbeKept, RowKept, EndKept DEF Step, ComputeRow
  <1>5. ASSUME NEW m \in Lister \ {l}
        PROVE  ListerInv(m)'
    <2>1. Still(m)
      BY DEF TypeOK, Still, ListStart, Step, ComputeRow, RowProbe, RowLock,
             RowRelock, RowFlag, RowScreen, ListEnd, ListDone, AddRow, FailAtRow, Goto
    <2> QED BY <1>1, <2>1, OtherKept
  <1> QED BY <1>2, <1>3, <1>4, <1>5

-----------------------------------------------------------------------------
\* A restart forgets every list, and every object.
LEMMA RestartKept == TypeOK /\ ListInv /\ Restart => ListInv'
  <1> SUFFICES ASSUME TypeOK, ListInv, Restart
               PROVE  ListInv'
    OBVIOUS
  <1> USE DEF Restart, TypeOK, ListInv
  <1>1. /\ \A s \in Sid : sessions'[s] = None
        /\ \A o \in Obj : obj'[o] = Unused
        /\ cache' = None
        /\ UNCHANGED <<server, deleted>>
    OBVIOUS
  <1>2. RegistryAgrees' /\ DeletedIsGone' /\ GhostStraddlesDelete'
    <2>1. \A s \in flagged' : Alive(s)'
      BY DEF RegistryAgrees, Alive
    <2> QED
      BY <1>1, <2>1
         DEF RegistryAgrees, DeletedIsGone, GhostStraddlesDelete, Unused
  <1>3. ASSUME NEW l \in Lister
        PROVE  ListerInv(l)'
    <2>1. /\ pc'[l] = "idle" /\ todo'[l] = {} /\ rows'[l] = NoRows
          /\ began'[l] = {}
      OBVIOUS
    <2>2. Pending(l)' = {} /\ \A s \in Sid : rows'[l][s] = None
      BY <2>1 DEF NoRows
    <2> QED BY <2>1, <2>2 DEF ListerInv, CopyIsKept, BeganWithoutDeleted,
                              Shown, HeldIsBusy
  <1> QED BY <1>2, <1>3 DEF ListerInv

LEMMA NextList == TypeOK /\ TypeOK' /\ ListInv /\ [Next]_vars => ListInv'
  <1> SUFFICES ASSUME TypeOK, TypeOK', ListInv, [Next]_vars
               PROVE  ListInv'
    OBVIOUS
  <1> USE DEF ListInv
  <1>1. CASE UNCHANGED vars
    BY <1>1 DEF vars, registryVars, listerVars, RegistryAgrees, DeletedIsGone,
                GhostStraddlesDelete, CopyIsKept, BeganWithoutDeleted,
                HeldIsBusy, Busy, Alive, Shown
  <1>2. CASE RegistryMoves /\ Watch
    <2>1. Persists /\ RegistryAgrees' /\ DeletedIsGone' /\ GhostStraddlesDelete'
      BY <1>2, RegistryPersists, RegistryKept
    <2>2. UNCHANGED listerVars
      BY <1>2, RegistryPersists
    <2> QED BY <1>2, <2>1, <2>2, ListerKept
  <1>3. CASE Restart
    BY <1>3, RestartKept
  <1>4. CASE Watch /\ \E l \in Lister : ListStart(l) \/ Step(l)
    BY <1>4, ListStepKept
  <1> QED BY <1>1, <1>2, <1>3, <1>4 DEF Next, RegistryMoves

-----------------------------------------------------------------------------
(* The theorems *)

\* The inductive invariant: whatever creates, lookups, turns, deletes and
\* restarts do to the registry while a list is computed, the rows that it has
\* and those that it will add are no older than its copy of the dict.
THEOREM ListInvariant == Spec => [](TypeOK /\ ListInv)
  <1>1. Init => TypeOK
    <2>1. Unused \in Session
      BY DEF Unused, Session
    <2>2. NoRows \in [Sid -> Row \cup {None}]
      BY DEF NoRows
    <2> QED BY <2>1, <2>2, ListBoundAssumption DEF Init, TypeOK
  <1>2. Init => ListInv
    <2> SUFFICES ASSUME Init
                 PROVE  ListInv
      OBVIOUS
    <2>1. RegistryAgrees /\ DeletedIsGone /\ GhostStraddlesDelete
      BY DEF Init, RegistryAgrees, DeletedIsGone, GhostStraddlesDelete, Unused
    <2>2. ASSUME NEW l \in Lister
          PROVE  /\ CopyIsKept(l) /\ BeganWithoutDeleted(l)
                 /\ HeldIsBusy(l)
      <3>1. /\ pc[l] = "idle" /\ todo[l] = {} /\ rows[l] = NoRows
            /\ began[l] = {}
        BY DEF Init
      <3>2. Pending(l) = {} /\ \A s \in Sid : rows[l][s] = None
        BY <3>1 DEF NoRows
      <3> QED BY <3>1, <3>2 DEF CopyIsKept, BeganWithoutDeleted, Shown,
                                HeldIsBusy
    <2> QED BY <2>1, <2>2 DEF ListInv
  <1>3. TypeOK /\ ListInv /\ [Next]_vars => (TypeOK /\ ListInv)'
    BY NextType, NextList
  <1> QED BY <1>1, <1>2, <1>3, PTL DEF Spec

\* SessionList.TypeOK: a row that list_sessions has computed has the states that
\* the lock, the flag and the screen can give it, whatever moves the registry.
THEOREM ListTypes == Spec => []TypeOK
  BY ListInvariant, PTL

\* A session that delete has removed is cached by list_sessions only if the list
\* was being computed while delete removed it.
THEOREM GhostsStraddle == Spec => []GhostStraddlesDelete
  <1>1. ListInv => GhostStraddlesDelete
    BY DEF ListInv
  <1> QED BY <1>1, ListInvariant, PTL

\* is_busy: a session whose lock is held, or whose flag is set, all the while that
\* a list is computed is listed busy.
THEOREM BusyIsListed == Spec => []BusyThroughoutIsListed
  <1>1. TypeOK /\ ListInv => BusyThroughoutIsListed
    <2> SUFFICES ASSUME TypeOK, ListInv, NEW l \in Lister, pc[l] = "answered",
                        NEW h \in held[l]
                 PROVE  /\ rows[l][h[1]] # None
                        /\ rows[l][h[1]].state = "busy"
      BY DEF BusyThroughoutIsListed
    <2>1. PICK s \in Sid, r \in Reason : h = <<s, r>>
      BY DEF TypeOK
    <2>2. rows[l][s] # None /\ rows[l][s].state = "busy"
      BY <2>1 DEF ListInv, HeldIsBusy, CopyIsKept
    <2> QED BY <2>1, <2>2
  <1> QED BY <1>1, ListInvariant, PTL
=============================================================================
