------------------------ MODULE SessionRegistryProofs ------------------------
(***************************************************************************)
(* Proofs about SessionRegistry, for any number of threads, sids, objects, *)
(* restarts: the type invariant, the inductive invariant                   *)
(* RegistryInv, and TurnExclusion.                                         *)
(***************************************************************************)
EXTENDS SessionRegistry, TLAPS

-----------------------------------------------------------------------------
(* The objects *)

\* A new object is a Session, and so is an object with one field assigned.
LEMMA SessionUpdates ==
    /\ Unused \in Session
    /\ \A s \in Sid, cap, claimed \in BOOLEAN :
          NewSession(s, cap, claimed) \in Session
    /\ \A f \in Session, t \in Thread \cup {None} :
          /\ [f EXCEPT !.status = "READY"] \in Session
          /\ [f EXCEPT !.ready = TRUE] \in Session
          /\ [f EXCEPT !.claimed = TRUE] \in Session
          /\ [f EXCEPT !.lock = t] \in Session
  <1>2. Unused \in Session
    BY DEF Unused, NewSession, Session
  <1>3. ASSUME NEW s \in Sid, NEW cap \in BOOLEAN, NEW claimed \in BOOLEAN
        PROVE  NewSession(s, cap, claimed) \in Session
    BY DEF NewSession, Session
  <1>4. ASSUME NEW f \in Session, NEW t \in Thread \cup {None}
        PROVE  /\ [f EXCEPT !.status = "READY"] \in Session
               /\ [f EXCEPT !.ready = TRUE] \in Session
               /\ [f EXCEPT !.claimed = TRUE] \in Session
               /\ [f EXCEPT !.lock = t] \in Session
    BY DEF Session
  <1> QED BY <1>2, <1>3, <1>4

\* Assigning one field of one object, or making a new one, keeps obj typed.
LEMMA FieldTypes ==
    ASSUME TypeOK, NEW o \in Obj
    PROVE  /\ [obj EXCEPT ![o].status = "READY"] \in [Obj -> Session]
           /\ [obj EXCEPT ![o].ready = TRUE] \in [Obj -> Session]
           /\ [obj EXCEPT ![o].claimed = TRUE] \in [Obj -> Session]
           /\ \A t \in Thread \cup {None} :
                 [obj EXCEPT ![o].lock = t] \in [Obj -> Session]
           /\ \A s \in Sid, cap, claimed \in BOOLEAN :
                 [obj EXCEPT ![o] = NewSession(s, cap, claimed)]
                     \in [Obj -> Session]
  <1>1. obj \in [Obj -> Session] /\ obj[o] \in Session
    BY DEF TypeOK
  <1>2. /\ [obj EXCEPT ![o].status = "READY"] \in [Obj -> Session]
        /\ [obj EXCEPT ![o].ready = TRUE] \in [Obj -> Session]
        /\ [obj EXCEPT ![o].claimed = TRUE] \in [Obj -> Session]
    BY <1>1 DEF Session
  <1>3. \A t \in Thread \cup {None} :
           [obj EXCEPT ![o].lock = t] \in [Obj -> Session]
    BY <1>1 DEF Session
  <1>5. \A s \in Sid, cap, claimed \in BOOLEAN :
           [obj EXCEPT ![o] = NewSession(s, cap, claimed)] \in [Obj -> Session]
    BY <1>1, SessionUpdates
  <1> QED BY <1>2, <1>3, <1>5

\* A thread past the start of its request has a sid, and past the lookup an
\* object.
LEMMA NamedType ==
    ASSUME TypeOK, RequestsNamed, NEW t \in Thread
    PROVE  /\ pc[t] \in PC \ NoWork => req[t].sid \in Sid
           /\ pc[t] \in HoldsObject =>
                 ref[t] \in Obj /\ obj[ref[t]] \in Session
  BY NoneAssumption DEF TypeOK, RequestsNamed, HoldsObject

\* Answering a request keeps the types of all it assigns.
LEMMA FinishType ==
    ASSUME TypeOK, NEW t \in Thread, NEW fields \in [Obj -> Session], NEW dict,
           FinishWith(t, fields, dict)
    PROVE  /\ pc' \in [Thread -> PC]
           /\ req' \in [Thread -> Request]
           /\ ref' \in [Thread -> Obj \cup {None}]
           /\ obj' \in [Obj -> Session]
  <1>1. obj' \in [Obj -> Session]
    BY SessionUpdates DEF FinishWith
  <1>2. NoRequest \in Request
    BY DEF NoRequest, Request
  <1>3. "idle" \in PC
    BY DEF PC
  <1> QED
    BY <1>1, <1>2, <1>3 DEF FinishWith, TypeOK

\* So does taking hold of an object.
LEMMA HoldType ==
    ASSUME TypeOK, NEW t \in Thread, NEW o \in Obj,
           NEW fields \in [Obj -> Session], HoldInstead(t, o, fields)
    PROVE  /\ ref' \in [Thread -> Obj \cup {None}]
           /\ obj' \in [Obj -> Session]
  BY SessionUpdates DEF HoldInstead, TypeOK

-----------------------------------------------------------------------------
(* Type correctness, action by action *)

USE DEF PC, Creating, Publishing, Hydrating, TearingDown, NoWork, HoldsObject

\* The steps of create keep the types.
LEMMA CreateType ==
    ASSUME TypeOK, RequestsNamed, NEW t \in Thread,
           Create(t)
    PROVE  TypeOK'
  <1>1. CASE CreateCheck(t)
    <2>1. CASE OverCap
      BY <1>1, <2>1, FinishType DEF CreateCheck, Finish, TypeOK
    <2>2. CASE ~OverCap
      <3>1. PICK s \in Sid : /\ server' = [server EXCEPT ![s] = "none"]
                            /\ dir' = dir \cup {s}
                            /\ req' = [req EXCEPT ![t].sid = s]
        BY <1>1, <2>2 DEF CreateCheck
      <3>2. req' \in [Thread -> Request]
        BY <3>1 DEF TypeOK, Request
      <3>3. pc' \in [Thread -> PC]
        BY <1>1, <2>2 DEF CreateCheck, Goto, TypeOK
      <3>4. server' \in [Sid -> ServerState]
        BY <3>1 DEF TypeOK, ServerState
      <3> QED BY <1>1, <2>2, <3>1, <3>2, <3>3, <3>4 DEF CreateCheck, TypeOK
    <2> QED BY <2>1, <2>2
  <1>2. CASE CreateLaunch(t)
    <2>1. obj \in [Obj -> Session]
      BY DEF TypeOK
    <2>2. CASE \E dict : FinishWith(t, obj, dict)
      BY <1>2, <2>1, <2>2, FinishType, NamedType
         DEF TypeOK, CreateLaunch, ServerState
    <2>3. CASE \E l \in PC : Goto(t, l) /\ UNCHANGED <<obj, req, ref>>
      BY <1>2, <2>3, NamedType DEF TypeOK, CreateLaunch, ServerState, Goto
    <2> QED
      BY <1>2, <2>2, <2>3 DEF CreateLaunch, Finish
  <1>3. CASE CreateArm(t)
    <2>1. obj \in [Obj -> Session]
      BY DEF TypeOK
    <2>2. CASE \E dict : FinishWith(t, obj, dict)
      BY <1>3, <2>1, <2>2, FinishType, NamedType
         DEF TypeOK, CreateArm, KillServer, Leave, ServerState
    <2>3. CASE \E l \in PC : Goto(t, l) /\ UNCHANGED <<obj, req, ref>>
      BY <1>3, <2>3, NamedType
         DEF TypeOK, CreateArm, KillServer, Leave, ServerState, Goto
    <2> QED
      BY <1>3, <2>2, <2>3 DEF CreateArm, Finish
  <1>4. CASE CreateAwaitReady(t)
    <2>1. obj \in [Obj -> Session]
      BY DEF TypeOK
    <2>2. CASE \E dict : FinishWith(t, obj, dict)
      BY <1>4, <2>1, <2>2, FinishType, NamedType
         DEF TypeOK, CreateAwaitReady, KillServer, Leave, ServerState
    <2>3. CASE \E l \in PC : Goto(t, l) /\ UNCHANGED <<obj, req, ref>>
      BY <1>4, <2>3, NamedType
         DEF TypeOK, CreateAwaitReady, KillServer, Leave, ServerState, Goto
    <2> QED
      BY <1>4, <2>2, <2>3 DEF CreateAwaitReady, Finish
  <1>5. CASE CreatePublish(t)
    <2>1. req[t].sid \in Sid
      BY <1>5, NamedType DEF CreatePublish, TypeOK
    <2>2. PICK o \in Obj :
             /\ obj' = [obj EXCEPT ![o] = NewSession(req[t].sid, TRUE, FALSE)]
             /\ sessions' = [sessions EXCEPT ![req[t].sid] = o]
             /\ ref' = [ref EXCEPT ![t] = o]
      BY <1>5 DEF CreatePublish, FreeObj, Unreferenced
    <2>3. obj' \in [Obj -> Session]
      BY <2>1, <2>2, FieldTypes
    <2> QED BY <1>5, <2>1, <2>2, <2>3 DEF CreatePublish, Goto, TypeOK
  <1>6. CASE CreateStatus(t)
    <2>1. ref[t] \in Obj
      BY <1>6, NamedType DEF CreateStatus
    <2>2. obj' \in [Obj -> Session]
      BY <1>6, <2>1, FieldTypes DEF CreateStatus, TypeOK
    <2> QED
      BY <1>6, <2>2 DEF TypeOK, CreateStatus, Goto
  <1>7. CASE CreateReturn(t)
    <2>1. [obj EXCEPT ![ref[t]].ready = TRUE] \in [Obj -> Session]
      BY <1>7, FieldTypes, NamedType DEF CreateReturn
    <2> QED
      BY <1>7, <2>1, FinishType, NamedType DEF TypeOK, CreateReturn, Finish
  <1> QED
    BY <1>1, <1>2, <1>3, <1>4, <1>5, <1>6, <1>7 DEF Create

\* The steps of _authz_session and get_or_reconstruct keep the types.
LEMMA AuthoriseType ==
    ASSUME TypeOK, RequestsNamed, NEW t \in Thread,
           Authorise(t)
    PROVE  TypeOK'
  <1>1. CASE Peek(t)
    BY <1>1, NamedType DEF TypeOK, Peek, Goto
  <1>2. CASE PeekStatus(t)
    BY <1>2, NamedType DEF TypeOK, PeekStatus, Goto
  <1>3. CASE GetOrReconstruct(t)
    <2>1. req[t].sid \in Sid
      BY <1>3, NamedType DEF TypeOK, GetOrReconstruct
    <2>2. /\ sessions' \in [Sid -> Obj \cup {None}]
          /\ ref' \in [Thread -> Obj \cup {None}]
          /\ obj' \in [Obj -> Session]
      <3>1. CASE sessions[req[t].sid] = None
        <4>1. PICK p \in Obj :
                 /\ sessions' = [sessions EXCEPT ![req[t].sid] = p]
                 /\ HoldInstead(t, p,
                      [obj EXCEPT ![p] = NewSession(req[t].sid, FALSE, TRUE)])
          BY <1>3, <3>1 DEF GetOrReconstruct, FreeObj, Unreferenced
        <4>2. [obj EXCEPT ![p] = NewSession(req[t].sid, FALSE, TRUE)]
                 \in [Obj -> Session]
          BY <2>1, FieldTypes
        <4> QED BY <2>1, <4>1, <4>2, HoldType DEF TypeOK
      <3>2. CASE sessions[req[t].sid] # None
        <4> DEFINE o == sessions[req[t].sid]
        <4>1. o \in Obj
          BY <2>1, <3>2 DEF TypeOK
        <4>2. [obj EXCEPT ![o].claimed = TRUE] \in [Obj -> Session]
          BY <4>1, FieldTypes
        <4>3. PICK f \in [Obj -> Session] :
                 sessions' = sessions /\ HoldInstead(t, o, f)
          BY <1>3, <3>2, <4>2 DEF GetOrReconstruct, TypeOK
        <4> QED BY <4>1, <4>3, HoldType DEF TypeOK
      <3> QED BY <3>1, <3>2
    <2>3. pc' \in [Thread -> PC]
      BY <1>3 DEF GetOrReconstruct, Goto, TypeOK
    <2> QED BY <1>3, <2>2, <2>3 DEF GetOrReconstruct, TypeOK
  <1>4. CASE WinnerReads(t)
    BY <1>4, NamedType
       DEF TypeOK, WinnerReads, Goto
  <1>5. CASE Hydrate(t)
    <2>1. ref[t] \in Obj /\ obj[ref[t]] \in Session
      BY <1>5, NamedType DEF Hydrate
    <2>2. Hydrated(obj[ref[t]]) \in Session
      BY <2>1 DEF Hydrated, Session
    <2>3. obj' = obj \/ obj' = [obj EXCEPT ![ref[t]] = Hydrated(obj[ref[t]])]
      BY <1>5 DEF Hydrate
    <2>4. obj' \in [Obj -> Session]
      BY <2>1, <2>2, <2>3 DEF TypeOK
    <2> QED
      BY <1>5, <2>4 DEF TypeOK, Hydrate, Goto
  <1>6. CASE HydrateForget(t)
    BY <1>6, NamedType
       DEF TypeOK, HydrateForget, Goto, Forgotten, Leave, ServerState
  <1>7. CASE SetReady(t)
    <2>1. [obj EXCEPT ![ref[t]].ready = TRUE] \in [Obj -> Session]
      BY <1>7, FieldTypes, NamedType DEF SetReady
    <2>2. CASE FinishWith(t, [obj EXCEPT ![ref[t]].ready = TRUE], sessions)
      BY <1>7, <2>1, <2>2, FinishType DEF SetReady, TypeOK
    <2>3. CASE ~FinishWith(t, [obj EXCEPT ![ref[t]].ready = TRUE], sessions)
      BY <1>7, <2>1, <2>3 DEF SetReady, Finish, Goto, TypeOK
    <2> QED BY <2>2, <2>3
  <1>8. CASE LoserReads(t)
    BY <1>8, NamedType DEF TypeOK, LoserReads, Goto
  <1>9. CASE Woken(t)
    BY <1>9, NamedType DEF TypeOK, Woken, Goto
  <1>10. CASE Recheck(t)
    <2>1. obj \in [Obj -> Session]
      BY DEF TypeOK
    <2>2. CASE \E dict : FinishWith(t, obj, dict)
      BY <1>10, <2>1, <2>2, FinishType, NamedType DEF TypeOK, Recheck
    <2>3. CASE \E l \in PC : Goto(t, l) /\ UNCHANGED <<obj, req, ref>>
      BY <1>10, <2>3, NamedType DEF TypeOK, Recheck, Goto
    <2> QED
      BY <1>10, <2>2, <2>3 DEF Recheck, Finish
  <1>11. CASE CheckCap(t)
    <2>1. obj \in [Obj -> Session]
      BY DEF TypeOK
    <2>2. CASE \E dict : FinishWith(t, obj, dict)
      BY <1>11, <2>1, <2>2, FinishType, NamedType DEF TypeOK, CheckCap
    <2>3. CASE \E l \in PC : Goto(t, l) /\ UNCHANGED <<obj, req, ref>>
      BY <1>11, <2>3, NamedType DEF TypeOK, CheckCap, Goto
    <2> QED
      BY <1>11, <2>2, <2>3 DEF CheckCap, Finish
  <1> QED
    BY <1>1, <1>2, <1>3, <1>4, <1>5, <1>6, <1>7, <1>8, <1>9, <1>10, <1>11
       DEF Authorise

\* The steps of the turn lock keep the types.
LEMMA TurnType ==
    ASSUME TypeOK, RequestsNamed, NEW t \in Thread,
           Turn(t)
    PROVE  TypeOK'
  <1>1. CASE Acquire(t)
    <2>1. ref[t] \in Obj
      BY <1>1, NamedType DEF Acquire
    <2>2. obj' \in [Obj -> Session]
      BY <1>1, <2>1, FieldTypes DEF Acquire, TypeOK
    <2> QED
      BY <1>1, <2>2 DEF TypeOK, Acquire, Goto
  <1>2. CASE AcquireTimeout(t)
    <2>1. obj \in [Obj -> Session]
      BY DEF TypeOK
    <2>2. CASE \E dict : FinishWith(t, obj, dict)
      BY <1>2, <2>1, <2>2, FinishType, NamedType DEF TypeOK, AcquireTimeout
    <2>3. CASE \E l \in PC : Goto(t, l) /\ UNCHANGED <<obj, req, ref>>
      BY <1>2, <2>3, NamedType DEF TypeOK, AcquireTimeout, Goto
    <2> QED
      BY <1>2, <2>2, <2>3 DEF AcquireTimeout, Finish
  <1>3. CASE Release(t)
    <2>1. [obj EXCEPT ![ref[t]].lock = None] \in [Obj -> Session]
      BY <1>3, FieldTypes, NamedType DEF Release
    <2> QED
      BY <1>3, <2>1, FinishType, NamedType DEF TypeOK, Release, Finish
  <1> QED
    BY <1>1, <1>2, <1>3 DEF Turn

\* The steps of delete keep the types.
LEMMA DeleteType ==
    ASSUME TypeOK, RequestsNamed, NEW t \in Thread,
           Delete(t)
    PROVE  TypeOK'
  <1>1. CASE DeleteLookup(t)
    <2>1. obj \in [Obj -> Session] /\ req[t].sid \in Sid
      BY <1>1, NamedType DEF TypeOK, DeleteLookup
    <2>2. CASE FinishWith(t, obj, sessions)
      BY <1>1, <2>1, <2>2, FinishType DEF DeleteLookup, TypeOK
    <2>3. CASE ~FinishWith(t, obj, sessions)
      <3>1. /\ sessions[req[t].sid] \in Obj
            /\ HoldInstead(t, sessions[req[t].sid], obj)
        BY <1>1, <2>1, <2>3 DEF DeleteLookup, Finish, TypeOK
      <3> QED
        BY <1>1, <2>1, <2>3, <3>1, HoldType
           DEF DeleteLookup, Finish, Goto, TypeOK
    <2> QED BY <2>2, <2>3
  <1>2. CASE DeleteCheck(t)
    <2>1. obj \in [Obj -> Session]
      BY DEF TypeOK
    <2>2. CASE \E dict : FinishWith(t, obj, dict)
      BY <1>2, <2>1, <2>2, FinishType, NamedType DEF TypeOK, DeleteCheck
    <2>3. CASE \E l \in PC : Goto(t, l) /\ UNCHANGED <<obj, req, ref>>
      BY <1>2, <2>3, NamedType DEF TypeOK, DeleteCheck, Goto
    <2> QED
      BY <1>2, <2>2, <2>3 DEF DeleteCheck, Finish
  <1>3. CASE DeleteKill(t)
    BY <1>3, NamedType
       DEF TypeOK, DeleteKill, Goto, ServerState
  <1>4. CASE DeleteRm(t)
    BY <1>4, NamedType DEF TypeOK, DeleteRm, Goto
  <1>5. CASE DeleteForget(t)
    <2>1. obj \in [Obj -> Session]
      BY DEF TypeOK
    <2>2. CASE \E dict : FinishWith(t, obj, dict)
      BY <1>5, <2>1, <2>2, FinishType, NamedType
         DEF TypeOK, DeleteForget, Forgotten
    <2>3. CASE \E l \in PC : Goto(t, l) /\ UNCHANGED <<obj, req, ref>>
      BY <1>5, <2>3, NamedType DEF TypeOK, DeleteForget, Forgotten, Goto
    <2> QED
      BY <1>5, <2>2, <2>3 DEF DeleteForget, Finish
  <1> QED
    BY <1>1, <1>2, <1>3, <1>4, <1>5 DEF Delete

\* The arrival of work and READY_TIMEOUT keep the types.
LEMMA BeginType ==
    ASSUME TypeOK, RequestsNamed, NEW t \in Thread,
           StartRequest(t) \/ WaitTimeout(t)
    PROVE  TypeOK'
  <1>1. CASE StartRequest(t)
    <2>1. \A s \in Sid, op \in AllOps : [op |-> op, sid |-> s] \in Request
      BY DEF Request
    <2>2. [NoRequest EXCEPT !.op = "create"] \in Request
      BY DEF NoRequest, Request, AllOps
    <2>3. \E r \in Request : req' = [req EXCEPT ![t] = r]
      BY <1>1, <2>1, <2>2 DEF StartRequest, TypeOK, AllOps
    <2>4. pc' \in [Thread -> PC]
      BY <1>1 DEF StartRequest, Goto, TypeOK
    <2> QED
      BY <1>1, <2>3, <2>4 DEF TypeOK, StartRequest
  <1>3. CASE WaitTimeout(t)
    BY <1>3, NamedType
       DEF TypeOK, WaitTimeout, Goto
  <1> QED
    BY <1>1, <1>3

-----------------------------------------------------------------------------
(* What the steps that neither mint a sid nor publish a cap have in common *)

\* The step is t's own: the other threads stay where they are.
OthersKept(t) ==
    \A u \in Thread \ {t} :
        pc'[u] = pc[u] /\ req'[u] = req[u] /\ ref'[u] = ref[u]

\* In fields f, object o keeps its identity, its cap and another thread's lock.
Kept(t, o, f) ==
    /\ f.sid = obj[o].sid
    /\ f.cap = obj[o].cap
    /\ obj[o].lock \in Thread \ {t} => f.lock = obj[o].lock

KeepsAll(t, fields) == \A o \in Obj : Kept(t, o, fields[o])

\* What RegistryInv says of thread t alone, after its step.
OwnInv(t) ==
    /\ pc'[t] \notin NoWork => req'[t].sid \in Sid
    /\ pc'[t] \in NoWork => ref'[t] = None
    /\ pc'[t] \in HoldsObject => ref'[t] # None
    /\ ref'[t] # None => obj'[ref'[t]].sid = req'[t].sid
    /\ pc'[t] \in {"acquire", "turn"} => obj'[ref'[t]].cap
    /\ pc'[t] = "turn" => obj'[ref'[t]].lock = t
    /\ pc'[t] \in Creating => pc[t] \in Creating /\ req'[t].sid = req[t].sid

\* A step of t that keeps every other thread, and every object another thread
\* refers to, preserves the invariant if it leaves t and the dict in order.
LEMMA Frame ==
    ASSUME TypeOK, TypeOK', RegistryInv, NEW t \in Thread,
           OthersKept(t), OwnInv(t),
           known' = known,
           \A s \in Sid : server'[s] = "unminted" => server[s] = "unminted",
           \A s \in Sid : sessions'[s] # None => obj'[sessions'[s]].sid = s,
           \A o \in Obj : \/ Kept(t, o, obj'[o])
                          \/ /\ ~obj'[o].cap
                             /\ \A u \in Thread \ {t} : ref[u] # o
    PROVE  RegistryInv'
  <1>1. RequestsNamed'
    BY DEF RegistryInv, RequestsNamed, OthersKept, OwnInv
  <1>2. ASSUME NEW u \in Thread \ {t}, ref[u] # None
        PROVE  ref[u] \in Obj /\ Kept(t, ref[u], obj'[ref[u]])
    BY <1>2 DEF TypeOK
  <1>3. ReferencesMatch'
    <2>1. ASSUME NEW u \in Thread, u # t, ref'[u] # None
          PROVE  obj'[ref'[u]].sid = req'[u].sid
      BY <1>2, <2>1 DEF RegistryInv, ReferencesMatch, OthersKept, Kept
    <2> QED BY <2>1 DEF ReferencesMatch, OwnInv
  <1>4. TurnsGuarded'
    <2>1. ASSUME NEW u \in Thread, u # t
          PROVE  /\ pc'[u] \in {"acquire", "turn"} => obj'[ref'[u]].cap
                 /\ pc'[u] = "turn" => obj'[ref'[u]].lock = u
      <3>1. pc[u] \in {"acquire", "turn"} => ref[u] # None
        BY DEF RegistryInv, RequestsNamed, HoldsObject, PC, NoWork, Creating
      <3> QED
        BY <1>2, <2>1, <3>1 DEF RegistryInv, TurnsGuarded, OthersKept, Kept
    <2> QED BY <2>1 DEF TurnsGuarded, OwnInv
  <1>5. CapUnique'
    BY DEF RegistryInv, CapUnique, Kept
  <1>6. CreatesFresh'
    <2>1. \A u \in Thread : pc'[u] \in Creating =>
             pc[u] \in Creating /\ req'[u].sid = req[u].sid
      BY DEF OthersKept, OwnInv
    <2>2. \A o \in Obj : obj'[o].cap => obj'[o].sid \in known'
      BY DEF RegistryInv, CreatesFresh, Kept
    <2>3. \A s \in known' : server'[s] # "unminted"
      BY DEF RegistryInv, CreatesFresh, TypeOK
    <2>4. \A u \in Thread : pc'[u] \in Creating =>
             /\ req'[u].sid \notin known'
             /\ server'[req'[u].sid] # "unminted"
      <3>1. ASSUME NEW u \in Thread, pc'[u] \in Creating
            PROVE  /\ req'[u].sid \notin known'
                   /\ server'[req'[u].sid] # "unminted"
        <4>1. pc[u] \in Creating /\ req'[u].sid = req[u].sid
          BY <2>1, <3>1
        <4>2. req[u].sid \in Sid
          BY <4>1 DEF RegistryInv, RequestsNamed, Creating, NoWork
        <4> QED BY <4>1, <4>2 DEF RegistryInv, CreatesFresh
      <3> QED BY <3>1
    <2>5. \A u, v \in Thread :
             pc'[u] \in Creating /\ pc'[v] \in Creating
             /\ req'[u].sid = req'[v].sid => u = v
      BY <2>1 DEF RegistryInv, CreatesFresh
    <2> QED BY <2>2, <2>3, <2>4, <2>5 DEF CreatesFresh
  <1> QED
    BY <1>1, <1>3, <1>4, <1>5, <1>6 DEF RegistryInv

\* Such a step when t answers its request, and its object may be reclaimed.
LEMMA FinishFrame ==
    ASSUME TypeOK, TypeOK', RegistryInv, NEW t \in Thread,
           NEW fields, NEW dict,
           FinishWith(t, fields, dict), sessions' = dict,
           KeepsAll(t, fields),
           \A s \in Sid : dict[s] \in {sessions[s], None},
           known' = known,
           \A s \in Sid : server'[s] = "unminted" => server[s] = "unminted"
    PROVE  RegistryInv'
  <1>1. OthersKept(t)
    BY DEF OthersKept, FinishWith, TypeOK
  <1>2. /\ pc'[t] = "idle"
        /\ ref'[t] = None
    BY DEF FinishWith, TypeOK
  <1>3. OwnInv(t)
    BY <1>2 DEF OwnInv, NoWork, HoldsObject, Creating
  <1>4. ASSUME NEW o \in Obj
        PROVE  \/ Kept(t, o, obj'[o])
               \/ /\ ~obj'[o].cap
                  /\ \A u \in Thread \ {t} : ref[u] # o
                  /\ \A s \in Sid : dict[s] # o
    BY DEF FinishWith, Shared, KeepsAll, Unused, NewSession
  <1>5. ASSUME NEW s \in Sid, sessions'[s] # None
        PROVE  obj'[sessions'[s]].sid = s
    BY <1>4, <1>5 DEF TypeOK, Kept, RegistryInv, ReferencesMatch
  <1> QED BY <1>1, <1>3, <1>4, <1>5, Frame

\* Such a step when t only goes to another label.
LEMMA MoveFrame ==
    ASSUME TypeOK, TypeOK', RegistryInv, NEW t \in Thread,
           NEW l \in PC \ (NoWork \cup Creating), Goto(t, l),
           req' = req, ref' = ref,
           pc[t] \notin NoWork,
           l \in HoldsObject => pc[t] \in HoldsObject,
           l \in {"acquire", "turn"} => obj[ref[t]].cap,
           l = "turn" => obj'[ref[t]].lock = t,
           KeepsAll(t, obj'),
           \A s \in Sid : sessions'[s] \in {sessions[s], None},
           known' = known,
           \A s \in Sid : server'[s] = "unminted" => server[s] = "unminted"
    PROVE  RegistryInv'
  <1>1. OthersKept(t)
    BY DEF OthersKept, Goto, TypeOK
  <1>2. pc'[t] = l
    BY DEF Goto, TypeOK
  <1>3. ref[t] # None => ref[t] \in Obj
    BY DEF TypeOK
  <1>4. OwnInv(t)
    BY <1>2, <1>3 DEF OwnInv, KeepsAll, Kept, RegistryInv, RequestsNamed,
       ReferencesMatch, HoldsObject, NoWork, PC
  <1>5. ASSUME NEW s \in Sid, sessions'[s] # None
        PROVE  obj'[sessions'[s]].sid = s
    BY <1>5 DEF TypeOK, KeepsAll, Kept, RegistryInv, ReferencesMatch
  <1> QED BY <1>1, <1>4, <1>5, Frame DEF KeepsAll

\* Such a step when t takes hold of the object it found in the dict.
LEMMA HoldFrame ==
    ASSUME TypeOK, TypeOK', RegistryInv, NEW t \in Thread,
           NEW l \in HoldsObject \ {"acquire", "turn"}, Goto(t, l), req' = req,
           NEW o \in Obj, NEW fields, HoldInstead(t, o, fields),
           sessions' = sessions,
           sessions[req[t].sid] = o,
           pc[t] \notin NoWork,
           KeepsAll(t, fields),
           known' = known, server' = server
    PROVE  RegistryInv'
  <1>1. OthersKept(t)
    BY DEF OthersKept, Goto, HoldInstead, TypeOK
  <1>2. /\ pc'[t] = l
        /\ ref'[t] = o
        /\ req[t].sid \in Sid
        /\ o # None
    BY NoneAssumption
       DEF Goto, HoldInstead, TypeOK, RegistryInv, RequestsNamed
  <1>3. ASSUME NEW p \in Obj
        PROVE  \/ Kept(t, p, obj'[p])
               \/ /\ ~obj'[p].cap
                  /\ p # o
                  /\ \A u \in Thread \ {t} : ref[u] # p
                  /\ \A s \in Sid : sessions[s] # p
    BY DEF HoldInstead, Shared, KeepsAll, Unused, NewSession
  <1>4. OwnInv(t)
    <2>1. l \notin NoWork \cup Creating
      BY DEF HoldsObject
    <2>2. obj'[o].sid = req[t].sid
      BY <1>2, <1>3 DEF Kept, RegistryInv, ReferencesMatch
    <2> QED BY <1>2, <2>1, <2>2 DEF OwnInv
  <1>5. ASSUME NEW s \in Sid, sessions'[s] # None
        PROVE  obj'[sessions'[s]].sid = s
    BY <1>3, <1>5 DEF TypeOK, Kept, RegistryInv, ReferencesMatch
  <1> QED BY <1>1, <1>3, <1>4, <1>5, Frame

-----------------------------------------------------------------------------
(* The registry's invariant, action by action *)

\* The steps of create keep the registry's invariant.
LEMMA CreateInv ==
    ASSUME TypeOK, TypeOK', RegistryInv, NEW t \in Thread,
           Create(t)
    PROVE  RegistryInv'
  <1>1. CASE CreateCheck(t)
    <2>1. CASE OverCap
      <3>1. KeepsAll(t, obj)
        BY DEF KeepsAll, Kept
      <3> QED BY <1>1, <2>1, <3>1, FinishFrame DEF CreateCheck, Finish, TypeOK
    <2>2. CASE ~OverCap
      <3>1. PICK s \in Sid : /\ server[s] = "unminted"
                            /\ server' = [server EXCEPT ![s] = "none"]
                            /\ req' = [req EXCEPT ![t].sid = s]
        BY <1>1, <2>2 DEF CreateCheck
      <3>2. /\ pc[t] = "create_check"
            /\ pc' = [pc EXCEPT ![t] = "create_launch"]
            /\ UNCHANGED <<sessions, obj, ref, known>>
        BY <1>1, <2>2 DEF CreateCheck, Goto
      <3>3. /\ ref[t] = None
            /\ pc'[t] = "create_launch"
            /\ req'[t].sid = s
        BY <3>1, <3>2 DEF RegistryInv, RequestsNamed, TypeOK, Request
      <3>4. OthersKept(t)
        BY <3>1, <3>2 DEF OthersKept, TypeOK
      <3>5. RequestsNamed'
        BY <3>3, <3>4 DEF RegistryInv, RequestsNamed, OthersKept
      <3>6. ReferencesMatch' /\ CapUnique'
        BY <3>2, <3>3, <3>4
           DEF RegistryInv, ReferencesMatch, CapUnique, OthersKept
      <3>7. TurnsGuarded'
        BY <3>2, <3>3, <3>4 DEF RegistryInv, TurnsGuarded, OthersKept
      <3>8. CreatesFresh'
        <4>1. ASSUME NEW u \in Thread \ {t}, pc'[u] \in Creating
              PROVE  /\ pc[u] \in Creating
                     /\ req'[u].sid = req[u].sid
                     /\ req[u].sid \in Sid \ {s}
          BY <3>1, <3>4, <4>1
             DEF OthersKept, RegistryInv, CreatesFresh, RequestsNamed
        <4>2. s \notin known
          BY <3>1 DEF RegistryInv, CreatesFresh
        <4>3. \A x \in Sid : x # s => server'[x] = server[x]
          BY <3>1 DEF TypeOK
        <4>4. server'[s] = "none"
          BY <3>1 DEF TypeOK
        <4>5. \A x \in known' : server'[x] # "unminted"
          BY <3>2, <4>2, <4>3 DEF RegistryInv, CreatesFresh, TypeOK
        <4>6. \A u \in Thread : pc'[u] \in Creating => 
                 req'[u].sid \notin known' /\ server'[req'[u].sid] # "unminted"
          BY <3>2, <3>3, <4>1, <4>2, <4>3, <4>4 DEF RegistryInv, CreatesFresh
        <4>7. \A u, v \in Thread : pc'[u] \in Creating /\ pc'[v] \in Creating
                /\ req'[u].sid = req'[v].sid => u = v
          BY <3>3, <4>1 DEF RegistryInv, CreatesFresh
        <4> QED BY <3>2, <4>5, <4>6, <4>7 DEF RegistryInv, CreatesFresh
      <3> QED BY <3>5, <3>6, <3>7, <3>8 DEF RegistryInv
    <2> QED BY <2>1, <2>2
  <1>2. CASE CreateLaunch(t)
    <2>1. KeepsAll(t, obj)
      BY DEF KeepsAll, Kept
    <2>2. \A x \in Sid : server'[x] = "unminted" => server[x] = "unminted"
      BY <1>2 DEF CreateLaunch, ServerState, TypeOK
    <2>3. CASE FinishWith(t, obj, sessions)
      BY <1>2, <2>1, <2>2, <2>3, FinishFrame DEF CreateLaunch, TypeOK
    <2>4. CASE \E l \in Creating : Goto(t, l) /\ UNCHANGED <<obj, req, ref>>
      <3>1. OthersKept(t)
        BY <2>4 DEF OthersKept, Goto, TypeOK
      <3>2. OwnInv(t)
        BY <1>2, <2>4, NoneAssumption
           DEF OwnInv, Goto, TypeOK, CreateLaunch, RegistryInv, RequestsNamed,
               ReferencesMatch
      <3> QED
        BY <1>2, <2>1, <2>2, <2>4, <3>1, <3>2, Frame
           DEF CreateLaunch, KeepsAll, RegistryInv, ReferencesMatch
    <2> QED BY <1>2, <2>3, <2>4 DEF CreateLaunch, Finish
  <1>3. CASE CreateArm(t)
    <2>1. KeepsAll(t, obj)
      BY DEF KeepsAll, Kept
    <2>2. \A x \in Sid : server'[x] = "unminted" => server[x] = "unminted"
      BY <1>3 DEF CreateArm, KillServer, Leave, ServerState, TypeOK
    <2>3. CASE FinishWith(t, obj, sessions)
      BY <1>3, <2>1, <2>2, <2>3, FinishFrame DEF CreateArm, TypeOK
    <2>4. CASE \E l \in Creating : Goto(t, l) /\ UNCHANGED <<obj, req, ref>>
      <3>1. OthersKept(t)
        BY <2>4 DEF OthersKept, Goto, TypeOK
      <3>2. OwnInv(t)
        BY <1>3, <2>4, NoneAssumption
           DEF OwnInv, Goto, TypeOK, CreateArm, RegistryInv, RequestsNamed,
               ReferencesMatch
      <3> QED
        BY <1>3, <2>1, <2>2, <2>4, <3>1, <3>2, Frame
           DEF CreateArm, KeepsAll, RegistryInv, ReferencesMatch
    <2> QED BY <1>3, <2>3, <2>4 DEF CreateArm, Finish
  <1>4. CASE CreateAwaitReady(t)
    <2>1. KeepsAll(t, obj)
      BY DEF KeepsAll, Kept
    <2>2. \A x \in Sid : server'[x] = "unminted" => server[x] = "unminted"
      BY <1>4 DEF CreateAwaitReady, KillServer, Leave, ServerState, TypeOK
    <2>3. CASE FinishWith(t, obj, sessions)
      BY <1>4, <2>1, <2>2, <2>3, FinishFrame DEF CreateAwaitReady, TypeOK
    <2>4. CASE \E l \in Creating : Goto(t, l) /\ UNCHANGED <<obj, req, ref>>
      <3>1. OthersKept(t)
        BY <2>4 DEF OthersKept, Goto, TypeOK
      <3>2. OwnInv(t)
        BY <1>4, <2>4, NoneAssumption
           DEF OwnInv, Goto, TypeOK, CreateAwaitReady, RegistryInv,
               RequestsNamed, ReferencesMatch
      <3> QED
        BY <1>4, <2>1, <2>2, <2>4, <3>1, <3>2, Frame
           DEF CreateAwaitReady, KeepsAll, RegistryInv, ReferencesMatch
    <2> QED BY <1>4, <2>3, <2>4 DEF CreateAwaitReady, Finish
  <1>5. CASE CreatePublish(t)
    <2> DEFINE s == req[t].sid
    <2>1. s \in Sid /\ pc[t] = "create_publish" /\ s \notin known
      BY <1>5, NamedType DEF CreatePublish, RegistryInv, CreatesFresh
    <2>2. PICK o \in FreeObj :
             /\ obj' = [obj EXCEPT ![o] = NewSession(s, TRUE, FALSE)]
             /\ sessions' = [sessions EXCEPT ![s] = o]
             /\ ref' = [ref EXCEPT ![t] = o]
      BY <1>5 DEF CreatePublish
    <2>3. /\ o \in Obj /\ o # None
          /\ \A u \in Thread : ref[u] # o
          /\ \A x \in Sid : sessions[x] # o
      BY NoneAssumption DEF FreeObj, Unreferenced
    <2>4. /\ OthersKept(t)
          /\ pc'[t] = "create_status" /\ ref'[t] = o /\ req' = req
      BY <1>5, <2>2 DEF OthersKept, CreatePublish, Goto, TypeOK
    <2>5. /\ obj'[o].sid = s
          /\ obj'[o].cap
          /\ \A p \in Obj : p # o => obj'[p] = obj[p]
      BY <2>2, <2>3 DEF NewSession, TypeOK
    <2> HIDE DEF s
    <2>6. RequestsNamed'
      BY <2>1, <2>3, <2>4 DEF RegistryInv, RequestsNamed, OthersKept, s
    <2>7. ReferencesMatch'
      <3>1. \A x \in Sid : sessions'[x] # None => obj'[sessions'[x]].sid = x
        BY <2>1, <2>2, <2>3, <2>5 DEF RegistryInv, ReferencesMatch, TypeOK
      <3>2. \A u \in Thread : ref'[u] # None => obj'[ref'[u]].sid = req'[u].sid
        BY <2>3, <2>4, <2>5
           DEF RegistryInv, ReferencesMatch, TypeOK, OthersKept, s
      <3> QED BY <3>1, <3>2 DEF ReferencesMatch
    <2>8. TurnsGuarded'
      <3>1. ASSUME NEW u \in Thread \ {t}, pc[u] \in {"acquire", "turn"}
            PROVE  obj'[ref[u]] = obj[ref[u]]
        BY <2>3, <2>5, <3>1, NamedType DEF RegistryInv
      <3> QED BY <2>4, <3>1 DEF RegistryInv, TurnsGuarded, OthersKept
    <2>9. CapUnique'
      BY <2>1, <2>5 DEF RegistryInv, CapUnique, CreatesFresh
    <2>10. CreatesFresh'
      <3>1. known' = known \cup {s} /\ server' = server
        BY <1>5 DEF CreatePublish, s
      <3>2. \A u \in Thread : pc'[u] \in Creating =>
               u # t /\ pc[u] \in Creating /\ req[u].sid # s
        BY <2>1, <2>4 DEF OthersKept, RegistryInv, CreatesFresh, s
      <3>3. server[s] # "unminted"
        BY <2>1 DEF RegistryInv, CreatesFresh, s
      <3> QED BY <2>4, <2>5, <3>1, <3>2, <3>3 DEF RegistryInv, CreatesFresh
    <2> QED BY <2>6, <2>7, <2>8, <2>9, <2>10 DEF RegistryInv
  <1>6. CASE CreateStatus(t)
    <2>1. KeepsAll(t, obj')
      BY <1>6, NamedType
         DEF KeepsAll, Kept, CreateStatus, TypeOK, Session, RegistryInv
    <2>2. \A s \in Sid : sessions'[s] \in {sessions[s], None}
      BY <1>6 DEF CreateStatus, TypeOK
    <2>3. \A s \in Sid : server'[s] = "unminted" => server[s] = "unminted"
      BY <1>6 DEF CreateStatus, TypeOK
    <2> QED
      BY <1>6, <2>1, <2>2, <2>3, MoveFrame, NamedType
         DEF CreateStatus, TypeOK, RegistryInv, TurnsGuarded
  <1>7. CASE CreateReturn(t)
    <2>1. ref[t] \in Obj
      BY <1>7, NamedType DEF CreateReturn, RegistryInv
    <2>2. KeepsAll(t, [obj EXCEPT ![ref[t]].ready = TRUE])
      BY <1>7, <2>1
         DEF KeepsAll, Kept, TypeOK, Session, CreateReturn, RegistryInv,
             TurnsGuarded
    <2> QED BY <1>7, <2>2, FinishFrame DEF CreateReturn, Finish, TypeOK
  <1> QED
    BY <1>1, <1>2, <1>3, <1>4, <1>5, <1>6, <1>7 DEF Create

\* The steps of _authz_session and get_or_reconstruct keep the registry's
\* invariant.
LEMMA AuthoriseInv ==
    ASSUME TypeOK, TypeOK', RegistryInv, NEW t \in Thread,
           Authorise(t)
    PROVE  RegistryInv'
  <1>1. CASE Peek(t)
    <2>1. KeepsAll(t, obj)
      BY DEF KeepsAll, Kept
    <2>2. CASE sessions[req[t].sid] = None
      BY <1>1, <2>1, <2>2, MoveFrame DEF Peek, TypeOK
    <2>3. CASE sessions[req[t].sid] # None
      <3>1. OthersKept(t)
        BY <1>1, <2>3 DEF Peek, OthersKept, Goto, TypeOK
      <3>2. /\ pc'[t] = "peek_status" /\ ref'[t] = sessions[req[t].sid]
            /\ req[t].sid \in Sid
        BY <1>1, <2>3, NamedType DEF Peek, Goto, TypeOK, RegistryInv
      <3>3. OwnInv(t)
        BY <1>1, <2>3, <3>2 DEF Peek, OwnInv, RegistryInv, ReferencesMatch
      <3> QED
        BY <1>1, <2>1, <3>1, <3>3, Frame
           DEF Peek, KeepsAll, RegistryInv, ReferencesMatch
    <2> QED BY <2>2, <2>3
  <1>2. CASE PeekStatus(t)
    <2>1. KeepsAll(t, obj')
      BY <1>2, NamedType
         DEF KeepsAll, Kept, PeekStatus, TypeOK, Session, RegistryInv
    <2>2. \A s \in Sid : sessions'[s] \in {sessions[s], None}
      BY <1>2 DEF PeekStatus, TypeOK
    <2>3. \A s \in Sid : server'[s] = "unminted" => server[s] = "unminted"
      BY <1>2 DEF PeekStatus, TypeOK
    <2> QED
      BY <1>2, <2>1, <2>2, <2>3, MoveFrame, NamedType
         DEF PeekStatus, TypeOK, RegistryInv, TurnsGuarded
  <1>3. CASE GetOrReconstruct(t)
    <2> DEFINE s == req[t].sid
               o == sessions[s]
    <2>1. s \in Sid /\ pc[t] = "get"
      BY <1>3, NamedType DEF GetOrReconstruct, RegistryInv
    <2>2. CASE o = None
      <3>1. PICK p \in FreeObj :
               /\ sessions' = [sessions EXCEPT ![s] = p]
               /\ HoldInstead(t, p,
                    [obj EXCEPT ![p] = NewSession(s, FALSE, TRUE)])
               /\ Goto(t, "claimed")
               /\ UNCHANGED <<req, server, dir, known, issued, deleted,
                              restarts>>
        BY <1>3, <2>2 DEF GetOrReconstruct
      <3>2. p \in Obj /\ p # None
        BY <3>1, NoneAssumption DEF FreeObj, Unreferenced
      <3>3. OthersKept(t)
        BY <3>1 DEF OthersKept, Goto, HoldInstead, TypeOK
      <3>4. obj'[p].sid = s /\ ~obj'[p].cap
        BY <3>1, <3>2 DEF HoldInstead, NewSession, TypeOK
      <3>5. ASSUME NEW q \in Obj, q # p
            PROVE  \/ obj'[q] = obj[q]
                   \/ /\ ~obj'[q].cap
                      /\ \A u \in Thread \ {t} : ref[u] # q
                      /\ \A x \in Sid : sessions[x] # q
        BY <3>1, <3>5 DEF HoldInstead, Shared, TypeOK, Unused, NewSession
      <3>6. OwnInv(t)
        <4>1. pc'[t] = "claimed" /\ ref'[t] = p /\ req'[t].sid = s
          BY <3>1 DEF Goto, HoldInstead, TypeOK
        <4> QED BY <2>1, <3>2, <3>4, <4>1 DEF OwnInv
      <3>7. ASSUME NEW x \in Sid, sessions'[x] # None
            PROVE  obj'[sessions'[x]].sid = x
        <4>1. CASE x = s
          BY <2>1, <3>1, <3>4, <4>1 DEF TypeOK
        <4>2. CASE x # s
          <5>1. /\ sessions'[x] = sessions[x]
                /\ sessions[x] # p /\ sessions[x] \in Obj
            BY <3>1, <3>7, <4>2 DEF TypeOK, FreeObj, Unreferenced
          <5> QED BY <3>5, <3>7, <5>1 DEF RegistryInv, ReferencesMatch
        <4> QED BY <4>1, <4>2
      <3>8. ASSUME NEW q \in Obj
            PROVE  \/ Kept(t, q, obj'[q])
                   \/ /\ ~obj'[q].cap
                      /\ \A u \in Thread \ {t} : ref[u] # q
        BY <3>1, <3>4, <3>5 DEF Kept, FreeObj, Unreferenced
      <3> QED BY <3>1, <3>3, <3>6, <3>7, <3>8, Frame
    <2>3. CASE o # None
      <3>1. o \in Obj
        BY <2>1, <2>3 DEF TypeOK
      <3>2. KeepsAll(t, obj) /\ KeepsAll(t, [obj EXCEPT ![o].claimed = TRUE])
        BY <3>1 DEF KeepsAll, Kept, TypeOK, Session
      <3>3. /\ \/ /\ Goto(t, "claimed")
                  /\ HoldInstead(t, o, [obj EXCEPT ![o].claimed = TRUE])
               \/ Goto(t, "loser") /\ HoldInstead(t, o, obj)
            /\ UNCHANGED <<sessions, req, server, dir, known, issued,
                           deleted, restarts>>
        BY <1>3, <2>3 DEF GetOrReconstruct
      <3> HIDE DEF o
      <3> QED BY <2>1, <3>1, <3>2, <3>3, HoldFrame DEF o
    <2> QED BY <2>2, <2>3
  <1>4. CASE WinnerReads(t)
    <2>1. KeepsAll(t, obj')
      BY <1>4, NamedType
         DEF KeepsAll, Kept, WinnerReads, TypeOK, Session, RegistryInv
    <2>2. \A s \in Sid : sessions'[s] \in {sessions[s], None}
      BY <1>4 DEF WinnerReads, TypeOK
    <2>3. \A s \in Sid : server'[s] = "unminted" => server[s] = "unminted"
      BY <1>4 DEF WinnerReads, TypeOK
    <2> QED
      BY <1>4, <2>1, <2>2, <2>3, MoveFrame, NamedType
         DEF WinnerReads, TypeOK, RegistryInv, TurnsGuarded
  <1>5. CASE Hydrate(t)
    <2>1. KeepsAll(t, obj')
      BY <1>5, NamedType
         DEF KeepsAll, Kept, Hydrate, TypeOK, Session, RegistryInv, Hydrated
    <2>2. \A s \in Sid : sessions'[s] \in {sessions[s], None}
      BY <1>5 DEF Hydrate, TypeOK, Hydrated
    <2>3. \A s \in Sid : server'[s] = "unminted" => server[s] = "unminted"
      BY <1>5 DEF Hydrate, TypeOK, Hydrated
    <2> QED
      BY <1>5, <2>1, <2>2, <2>3, MoveFrame, NamedType
         DEF Hydrate, TypeOK, RegistryInv, TurnsGuarded
  <1>6. CASE HydrateForget(t)
    <2>1. KeepsAll(t, obj')
      BY <1>6, NamedType
         DEF KeepsAll, Kept, HydrateForget, TypeOK, Session, RegistryInv,
             Forgotten
    <2>2. \A s \in Sid : sessions'[s] \in {sessions[s], None}
      BY <1>6 DEF HydrateForget, TypeOK, Forgotten, Leave
    <2>3. \A s \in Sid : server'[s] = "unminted" => server[s] = "unminted"
      BY <1>6 DEF HydrateForget, TypeOK, Forgotten, Leave
    <2> QED
      BY <1>6, <2>1, <2>2, <2>3, MoveFrame, NamedType
         DEF HydrateForget, TypeOK, RegistryInv, TurnsGuarded
  <1>7. CASE SetReady(t)
    <2> DEFINE woken == [obj EXCEPT ![ref[t]].ready = TRUE]
    <2>1. ref[t] \in Obj
      BY <1>7, NamedType DEF SetReady, RegistryInv
    <2>2. KeepsAll(t, woken)
      BY <2>1 DEF KeepsAll, Kept, TypeOK, Session
    <2>3. CASE FinishWith(t, woken, sessions)
      BY <1>7, <2>2, <2>3, FinishFrame DEF SetReady, TypeOK
    <2>4. CASE /\ pc[t] = "set_ready" /\ Goto(t, "check_cap")
               /\ obj' = woken /\ UNCHANGED <<req, ref>>
      BY <1>7, <2>2, <2>4, MoveFrame DEF SetReady, TypeOK
    <2> QED BY <1>7, <2>3, <2>4 DEF SetReady, Finish
  <1>8. CASE LoserReads(t)
    <2>1. KeepsAll(t, obj')
      BY <1>8, NamedType
         DEF KeepsAll, Kept, LoserReads, TypeOK, Session, RegistryInv
    <2>2. \A s \in Sid : sessions'[s] \in {sessions[s], None}
      BY <1>8 DEF LoserReads, TypeOK
    <2>3. \A s \in Sid : server'[s] = "unminted" => server[s] = "unminted"
      BY <1>8 DEF LoserReads, TypeOK
    <2> QED
      BY <1>8, <2>1, <2>2, <2>3, MoveFrame, NamedType
         DEF LoserReads, TypeOK, RegistryInv, TurnsGuarded
  <1>9. CASE Woken(t)
    <2>1. KeepsAll(t, obj')
      BY <1>9, NamedType
         DEF KeepsAll, Kept, Woken, TypeOK, Session, RegistryInv
    <2>2. \A s \in Sid : sessions'[s] \in {sessions[s], None}
      BY <1>9 DEF Woken, TypeOK
    <2>3. \A s \in Sid : server'[s] = "unminted" => server[s] = "unminted"
      BY <1>9 DEF Woken, TypeOK
    <2> QED
      BY <1>9, <2>1, <2>2, <2>3, MoveFrame, NamedType
         DEF Woken, TypeOK, RegistryInv, TurnsGuarded
  <1>10. CASE Recheck(t)
    <2>1. KeepsAll(t, obj)
      BY DEF KeepsAll, Kept
    <2>2. CASE FinishWith(t, obj, sessions)
      BY <1>10, <2>1, <2>2, FinishFrame DEF Recheck, TypeOK
    <2>3. CASE ~FinishWith(t, obj, sessions)
      BY <1>10, <2>1, <2>3, MoveFrame DEF Recheck, Finish, TypeOK
    <2> QED BY <2>2, <2>3
  <1>11. CASE CheckCap(t)
    <2>1. KeepsAll(t, obj)
      BY DEF KeepsAll, Kept
    <2>2. CASE FinishWith(t, obj, sessions)
      BY <1>11, <2>1, <2>2, FinishFrame DEF CheckCap, TypeOK
    <2>3. CASE ~FinishWith(t, obj, sessions)
      BY <1>11, <2>1, <2>3, MoveFrame DEF CheckCap, Finish, CapMatches, TypeOK
    <2> QED BY <2>2, <2>3
  <1> QED
    BY <1>1, <1>2, <1>3, <1>4, <1>5, <1>6, <1>7, <1>8, <1>9, <1>10, <1>11
       DEF Authorise

\* The steps of the turn lock keep the registry's invariant.
LEMMA TurnInv ==
    ASSUME TypeOK, TypeOK', RegistryInv, NEW t \in Thread,
           Turn(t)
    PROVE  RegistryInv'
  <1>1. CASE Acquire(t)
    <2>1. ref[t] \in Obj
      BY <1>1, NamedType DEF Acquire, RegistryInv
    <2>2. KeepsAll(t, obj')
      BY <1>1, <2>1, NoneAssumption
         DEF KeepsAll, Kept, Acquire, TypeOK, Session
    <2>3. obj'[ref[t]].lock = t
      BY <1>1, <2>1 DEF Acquire, TypeOK, Session
    <2> QED
      BY <1>1, <2>1, <2>2, <2>3, MoveFrame
         DEF Acquire, TypeOK, RegistryInv, TurnsGuarded
  <1>2. CASE AcquireTimeout(t)
    <2>1. KeepsAll(t, obj)
      BY DEF KeepsAll, Kept
    <2>2. CASE FinishWith(t, obj, sessions)
      BY <1>2, <2>1, <2>2, FinishFrame DEF AcquireTimeout, TypeOK
    <2>3. CASE ~FinishWith(t, obj, sessions)
      BY <1>2, <2>1, <2>3, MoveFrame DEF AcquireTimeout, Finish, TypeOK
    <2> QED BY <2>2, <2>3
  <1>3. CASE Release(t)
    <2>1. ref[t] \in Obj
      BY <1>3, NamedType DEF Release, RegistryInv
    <2>2. KeepsAll(t, [obj EXCEPT ![ref[t]].lock = None])
      BY <1>3, <2>1
         DEF KeepsAll, Kept, TypeOK, Session, Release, RegistryInv,
             TurnsGuarded
    <2> QED BY <1>3, <2>2, FinishFrame DEF Release, Finish, TypeOK
  <1> QED
    BY <1>1, <1>2, <1>3 DEF Turn

\* The steps of delete keep the registry's invariant.
LEMMA DeleteInv ==
    ASSUME TypeOK, TypeOK', RegistryInv, NEW t \in Thread,
           Delete(t)
    PROVE  RegistryInv'
  <1>1. CASE DeleteLookup(t)
    <2>1. KeepsAll(t, obj)
      BY DEF KeepsAll, Kept
    <2>2. req[t].sid \in Sid
      BY <1>1, NamedType DEF DeleteLookup, RegistryInv
    <2>3. CASE FinishWith(t, obj, sessions)
      BY <1>1, <2>1, <2>3, FinishFrame DEF DeleteLookup, TypeOK
    <2>4. CASE /\ HoldInstead(t, sessions[req[t].sid], obj)
               /\ Goto(t, "delete_check")
               /\ req' = req /\ sessions[req[t].sid] # None
      BY <1>1, <2>1, <2>2, <2>4, HoldFrame DEF DeleteLookup, TypeOK
    <2> QED BY <1>1, <2>3, <2>4 DEF DeleteLookup, Finish
  <1>2. CASE DeleteCheck(t)
    <2>1. KeepsAll(t, obj)
      BY DEF KeepsAll, Kept
    <2>2. CASE FinishWith(t, obj, sessions)
      BY <1>2, <2>1, <2>2, FinishFrame DEF DeleteCheck, TypeOK
    <2>3. CASE ~FinishWith(t, obj, sessions)
      BY <1>2, <2>1, <2>3, MoveFrame DEF DeleteCheck, Finish, TypeOK
    <2> QED BY <2>2, <2>3
  <1>3. CASE DeleteKill(t)
    <2>1. KeepsAll(t, obj')
      BY <1>3, NamedType
         DEF KeepsAll, Kept, DeleteKill, TypeOK, Session, RegistryInv,
             ServerState
    <2>2. \A s \in Sid : sessions'[s] \in {sessions[s], None}
      BY <1>3 DEF DeleteKill, TypeOK, ServerState
    <2>3. \A s \in Sid : server'[s] = "unminted" => server[s] = "unminted"
      BY <1>3 DEF DeleteKill, TypeOK, ServerState
    <2> QED
      BY <1>3, <2>1, <2>2, <2>3, MoveFrame, NamedType
         DEF DeleteKill, TypeOK, RegistryInv, TurnsGuarded
  <1>4. CASE DeleteRm(t)
    <2>1. KeepsAll(t, obj')
      BY <1>4, NamedType
         DEF KeepsAll, Kept, DeleteRm, TypeOK, Session, RegistryInv
    <2>2. \A s \in Sid : sessions'[s] \in {sessions[s], None}
      BY <1>4 DEF DeleteRm, TypeOK
    <2>3. \A s \in Sid : server'[s] = "unminted" => server[s] = "unminted"
      BY <1>4 DEF DeleteRm, TypeOK
    <2> QED
      BY <1>4, <2>1, <2>2, <2>3, MoveFrame, NamedType
         DEF DeleteRm, TypeOK, RegistryInv, TurnsGuarded
  <1>5. CASE DeleteForget(t)
    <2>1. KeepsAll(t, obj)
      BY DEF KeepsAll, Kept
    <2>2. FinishWith(t, obj, sessions')
      BY <1>5 DEF DeleteForget
    <2>3. \A s \in Sid : sessions'[s] \in {sessions[s], None}
      BY <1>5 DEF DeleteForget, Forgotten, TypeOK
    <2> QED BY <1>5, <2>1, <2>2, <2>3, FinishFrame DEF DeleteForget
  <1> QED
    BY <1>1, <1>2, <1>3, <1>4, <1>5 DEF Delete

\* The arrival of work and READY_TIMEOUT keep the registry's invariant.
LEMMA BeginInv ==
    ASSUME TypeOK, TypeOK', RegistryInv, NEW t \in Thread,
           StartRequest(t) \/ WaitTimeout(t)
    PROVE  RegistryInv'
  <1>1. CASE StartRequest(t)
    <2>1. pc[t] \in NoWork /\ ref[t] = None
      BY <1>1 DEF StartRequest, RegistryInv, RequestsNamed
    <2>2. /\ pc'[t] \in {"create_check", "peek"}
          /\ pc'[t] = "peek" => req'[t].sid \in Sid
      BY <1>1 DEF StartRequest, Goto, TypeOK
    <2>3. OwnInv(t)
      BY <1>1, <2>1, <2>2 DEF StartRequest, OwnInv
    <2>4. OthersKept(t)
      BY <1>1 DEF StartRequest, OthersKept, Goto, TypeOK
    <2> QED
      BY <1>1, <2>3, <2>4, Frame
         DEF StartRequest, Kept, RegistryInv, ReferencesMatch
  <1>3. CASE WaitTimeout(t)
    <2>1. KeepsAll(t, obj')
      BY <1>3, NamedType
         DEF KeepsAll, Kept, WaitTimeout, TypeOK, Session, RegistryInv
    <2>2. \A s \in Sid : sessions'[s] \in {sessions[s], None}
      BY <1>3 DEF WaitTimeout, TypeOK
    <2>3. \A s \in Sid : server'[s] = "unminted" => server[s] = "unminted"
      BY <1>3 DEF WaitTimeout, TypeOK
    <2> QED
      BY <1>3, <2>1, <2>2, <2>3, MoveFrame, NamedType
         DEF WaitTimeout, TypeOK, RegistryInv, TurnsGuarded
  <1> QED
    BY <1>1, <1>3

-----------------------------------------------------------------------------
(* The initial states, the environment and the conclusion *)

\* The initial states satisfy the invariant.
LEMMA InitInv == Init => TypeOK /\ RegistryInv
  <1> SUFFICES ASSUME Init PROVE TypeOK /\ RegistryInv
    OBVIOUS
  <1>1. TypeOK
    BY SessionUpdates, BoundsAssumption
       DEF Init, TypeOK, Request, NoRequest, ServerState
  <1>2. RegistryInv
    BY NoneAssumption
       DEF Init, RegistryInv, RequestsNamed, ReferencesMatch, TurnsGuarded,
           CapUnique, CreatesFresh, Unused, NewSession
  <1> QED BY <1>1, <1>2

\* An exiting tmux server, a restart of the bridge and stuttering preserve it.
LEMMA EnvironmentInv ==
    ASSUME TypeOK, RegistryInv,
           (\E s \in Sid : ServerExits(s)) \/ Restart \/ UNCHANGED vars
    PROVE  TypeOK' /\ RegistryInv'
  <1>1. CASE \E s \in Sid : ServerExits(s)
    <2>1. PICK s \in Sid : ServerExits(s)
      BY <1>1
    <2>2. TypeOK'
      BY <2>1 DEF ServerExits, TypeOK, ServerState
    <2>3. \A x \in Sid : server'[x] = "unminted" => server[x] = "unminted"
      BY <2>1 DEF ServerExits, TypeOK
    <2>4. RegistryInv'
      BY <2>1, <2>3, NamedType
         DEF ServerExits, RegistryInv, RequestsNamed, ReferencesMatch,
             TurnsGuarded, CapUnique, CreatesFresh, TypeOK
    <2> QED BY <2>2, <2>4
  <1>2. CASE Restart
    <2>1. server' \in [Sid -> ServerState]
      BY <1>2 DEF Restart, TypeOK, ServerState
    <2>2. TypeOK'
      BY <1>2, <2>1, SessionUpdates, BoundsAssumption
         DEF Restart, TypeOK, Request, NoRequest
    <2>3. \A x \in Sid : server'[x] = "unminted" => server[x] = "unminted"
      BY <1>2 DEF Restart, TypeOK
    <2>4. CreatesFresh'
      <3>1. /\ \A o \in Obj : ~obj'[o].cap
            /\ \A t \in Thread : pc'[t] \notin Creating
            /\ known' = known
        BY <1>2 DEF Restart, Unused, NewSession
      <3> QED BY <2>3, <3>1 DEF RegistryInv, CreatesFresh, TypeOK
    <2>5. RequestsNamed' /\ ReferencesMatch' /\ TurnsGuarded' /\ CapUnique'
      BY <1>2 DEF Restart, RequestsNamed, ReferencesMatch, TurnsGuarded,
                  CapUnique, Unused, NewSession
    <2>6. RegistryInv'
      BY <2>4, <2>5 DEF RegistryInv
    <2> QED BY <2>2, <2>6
  <1>3. CASE UNCHANGED vars
    BY <1>3
       DEF vars, TypeOK, RegistryInv, RequestsNamed, ReferencesMatch,
           TurnsGuarded, CapUnique, CreatesFresh
  <1> QED BY <1>1, <1>2, <1>3

\* Two turns of one session would hold the one lock of the one object that has
\* its cap.
LEMMA RegistryInvExcludes == TypeOK /\ RegistryInv => TurnExclusion
  <1> SUFFICES ASSUME TypeOK, RegistryInv, NEW t \in Thread, NEW u \in Thread,
                      pc[t] = "turn", pc[u] = "turn", req[t].sid = req[u].sid
               PROVE  t = u
    BY DEF TurnExclusion
  <1>1. ref[t] \in Obj /\ ref[u] \in Obj
    BY NamedType DEF RegistryInv
  <1>2. ref[t] = ref[u]
    BY <1>1, NoneAssumption
       DEF RegistryInv, TurnsGuarded, ReferencesMatch, CapUnique
  <1> QED BY <1>1, <1>2 DEF RegistryInv, TurnsGuarded

-----------------------------------------------------------------------------
(* The theorems *)

\* Every step of Next, and stuttering, preserves the invariant.
LEMMA NextInv ==
    TypeOK /\ RegistryInv /\ [Next]_vars => TypeOK' /\ RegistryInv'
  <1> SUFFICES ASSUME TypeOK, RegistryInv, [Next]_vars
               PROVE  TypeOK' /\ RegistryInv'
    OBVIOUS
  <1>1. RequestsNamed
    BY DEF RegistryInv
  <1>2. ASSUME NEW t \in Thread, Step(t)
        PROVE  TypeOK' /\ RegistryInv'
    <2>1. CASE Create(t)
      BY <1>1, <2>1, CreateType, CreateInv
    <2>2. CASE Authorise(t)
      BY <1>1, <2>2, AuthoriseType, AuthoriseInv
    <2>3. CASE Turn(t)
      BY <1>1, <2>3, TurnType, TurnInv
    <2>4. CASE Delete(t)
      BY <1>1, <2>4, DeleteType, DeleteInv
    <2> QED BY <1>2, <2>1, <2>2, <2>3, <2>4 DEF Step
  <1>3. ASSUME NEW t \in Thread,
               StartRequest(t) \/ WaitTimeout(t)
        PROVE  TypeOK' /\ RegistryInv'
    BY <1>1, <1>3, BeginType, BeginInv
  <1>4. ASSUME (\E s \in Sid : ServerExits(s)) \/ Restart \/ UNCHANGED vars
        PROVE  TypeOK' /\ RegistryInv'
    BY <1>4, EnvironmentInv
  <1>5. AwaitConnection => UNCHANGED vars
    BY DEF AwaitConnection
  <1> QED BY <1>2, <1>3, <1>4, <1>5 DEF Next

\* The types are those of TypeOK in every reachable state, for any number of
\* threads, sids, objects and restarts.
THEOREM TypeCorrect == Spec => []TypeOK
  <1>1. TypeOK /\ RegistryInv /\ [Next]_vars => TypeOK' /\ RegistryInv'
    BY NextInv
  <1> QED BY <1>1, InitInv, PTL DEF Spec

\* A request only ever holds an object of the session it names, a turn only an
\* object with the session's cap and under that object's lock, no two objects
\* ever hold the cap of one session, and create only works on fresh sids.
THEOREM RegistryInvariant == Spec => []RegistryInv
  <1>1. TypeOK /\ RegistryInv /\ [Next]_vars => TypeOK' /\ RegistryInv'
    BY NextInv
  <1> QED BY <1>1, InitInv, PTL DEF Spec

\* No two requests ever run a turn on one session, whatever creates, deletes,
\* reconstructions and restarts happen around them.
THEOREM MutualExclusion == Spec => []TurnExclusion
  <1> QED BY TypeCorrect, RegistryInvariant, RegistryInvExcludes, PTL

=============================================================================
