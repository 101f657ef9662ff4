---------------------------- MODULE HydrationProofs ----------------------------
(***************************************************************************)
(* Proofs about the election and the wake-up of get_or_reconstruct, for    *)
(* any number of threads, sids, objects and restarts: the inductive        *)
(* invariant HydrationInv of SessionRegistry, OneHydrator, WaiterHasWaker. *)
(***************************************************************************)
EXTENDS SessionRegistryProofs

USE DEF PC, Creating, Publishing, Hydrating, TearingDown, NoWork, HoldsObject,
        Winning, Waking

-----------------------------------------------------------------------------
(* What the steps of one thread do to the claims, events and statuses *)

SettingNext == {"create_set", "set_ready"}

\* Object o keeps what HydrationInv looks at, but for an event that is set.
Steady(o, f) ==
    /\ f.claimed = obj[o].claimed
    /\ f.status = obj[o].status
    /\ f.ready \in {obj[o].ready, TRUE}

\* Object o is reclaimed: only t may have referred to it.
Reclaimed(t, o, f) ==
    /\ ~f.claimed /\ f.status = "RECONSTRUCTING"
    /\ \A u \in Thread \ {t} : ref[u] # o

\* The step makes t's object READY, and t is to set its event next.
Promoted(t, o, f) ==
    /\ f.claimed = obj[o].claimed
    /\ f.ready = obj[o].ready
    /\ ref'[t] = o /\ pc'[t] \in SettingNext

\* After a step of t that leaves Waking, or t's object, no claim on the object
\* and no READY is left open by t.
Settled(t) ==
    LET o == ref[t] IN
    \/ obj'[o].ready
    \/ ~obj'[o].claimed /\ obj'[o].status # "READY"

\* A step of t that wins nothing, and does not leave its object unsettled.
LEMMA HydrationFrame ==
    ASSUME TypeOK, TypeOK', RequestsNamed, HydrationInv, NEW t \in Thread,
           OthersKept(t),
           \A o \in Obj : \/ Steady(o, obj'[o])
                          \/ Reclaimed(t, o, obj'[o])
                          \/ Promoted(t, o, obj'[o]),
           pc'[t] \in Winning =>
               /\ pc[t] \in Winning
               /\ ref'[t] = ref[t]
               /\ obj'[ref[t]].claimed = obj[ref[t]].claimed,
           pc[t] \in Waking =>
               Settled(t) \/ (pc'[t] \in Waking /\ ref'[t] = ref[t]),
           pc[t] \in SettingNext => Settled(t)
    PROVE  HydrationInv'
  <1>1. ASSUME NEW u \in Thread \ {t}, pc[u] \in Winning
        PROVE  /\ ref[u] \in Obj
               /\ obj'[ref[u]].claimed
    <2>1. ref[u] \in Obj
      BY <1>1, NamedType
    <2> QED
      BY <1>1, <2>1
         DEF HydrationInv, ClaimsHeld, Steady, Reclaimed, Promoted
  <1>2. ClaimsHeld'
    BY <1>1 DEF HydrationInv, ClaimsHeld, OthersKept
  <1>3. ClaimsWaken'
    <2> SUFFICES ASSUME NEW o \in Obj, obj'[o].claimed, ~obj'[o].ready
                 PROVE  Wakers(o)' # {}
      BY DEF ClaimsWaken
    <2>1. obj[o].claimed /\ ~obj[o].ready
      BY DEF Steady, Reclaimed, Promoted
    <2>2. PICK u \in Thread : ref[u] = o /\ pc[u] \in Waking
      BY <2>1 DEF HydrationInv, ClaimsWaken, Wakers
    <2>3. ref'[u] = o /\ pc'[u] \in Waking
      BY <2>2 DEF OthersKept, Settled
    <2> QED BY <2>3 DEF Wakers
  <1>4. ReadyIsNext'
    <2> SUFFICES ASSUME NEW o \in Obj, obj'[o].status = "READY", ~obj'[o].ready
                 PROVE  \E u \in Thread : ref'[u] = o /\ pc'[u] \in SettingNext
      BY DEF ReadyIsNext, SettingNext
    <2>1. CASE Promoted(t, o, obj'[o])
      BY <2>1 DEF Promoted
    <2>2. CASE Steady(o, obj'[o])
      <3>1. PICK u \in Thread : ref[u] = o /\ pc[u] \in SettingNext
        BY <2>2 DEF HydrationInv, ReadyIsNext, SettingNext, Steady
      <3>2. u # t
        BY <3>1 DEF Settled
      <3> QED BY <3>1, <3>2 DEF OthersKept
    <2> QED BY <2>1, <2>2 DEF Reclaimed
  <1> QED BY <1>2, <1>3, <1>4 DEF HydrationInv

\* Is pc outside of what the invariant looks at, before and after the step?
Calm(t) == pc[t] \notin Waking /\ pc'[t] \notin Waking

AllSteady(fields) == \A o \in Obj : Steady(o, fields[o])

\* A calm step keeps the invariant when it keeps the objects steady, ...
LEMMA CalmFrame ==
    ASSUME TypeOK, TypeOK', RequestsNamed, HydrationInv, NEW t \in Thread,
           OthersKept(t), Calm(t),
           \A o \in Obj : Steady(o, obj'[o]) \/ Reclaimed(t, o, obj'[o])
    PROVE  HydrationInv'
  BY HydrationFrame DEF Calm, Publishing, Hydrating, SettingNext

\* ... when it only goes to another label, ...
LEMMA CalmMove ==
    ASSUME TypeOK, TypeOK', RequestsNamed, HydrationInv, NEW t \in Thread,
           NEW l \in PC \ Waking, Goto(t, l), pc[t] \notin Waking,
           \A u \in Thread \ {t} : req'[u] = req[u],
           \A u \in Thread \ {t} : ref'[u] = ref[u],
           AllSteady(obj')
    PROVE  HydrationInv'
  <1>1. OthersKept(t) /\ Calm(t)
    BY DEF OthersKept, Calm, Goto, TypeOK
  <1> QED BY <1>1, CalmFrame DEF AllSteady

\* What a request that ends does to the threads and the objects.
LEMMA FinishEffect ==
    ASSUME TypeOK, NEW t \in Thread, NEW fields, NEW dict,
           FinishWith(t, fields, dict), AllSteady(fields)
    PROVE  /\ OthersKept(t)
           /\ pc'[t] = "idle" /\ ref'[t] = None
           /\ \A o \in Obj : Steady(o, obj'[o]) \/ Reclaimed(t, o, obj'[o])
  <1>1. OthersKept(t) /\ pc'[t] = "idle" /\ ref'[t] = None
    BY DEF OthersKept, FinishWith, TypeOK
  <1>2. ASSUME NEW o \in Obj
        PROVE  Steady(o, obj'[o]) \/ Reclaimed(t, o, obj'[o])
    <2>1. CASE o = ref[t] /\ ~Shared(t, o, dict)
      BY <2>1 DEF FinishWith, Shared, Reclaimed, Unused, NewSession
    <2>2. CASE ~(o = ref[t] /\ ~Shared(t, o, dict))
      BY <2>2 DEF FinishWith, AllSteady
    <2> QED BY <2>1, <2>2
  <1> QED BY <1>1, <1>2

\* ... and when it answers the request.
LEMMA CalmFinish ==
    ASSUME TypeOK, TypeOK', RequestsNamed, HydrationInv, NEW t \in Thread,
           NEW fields, NEW dict, FinishWith(t, fields, dict),
           pc[t] \notin Waking, AllSteady(fields)
    PROVE  HydrationInv'
  <1>1. Calm(t)
    BY FinishEffect DEF Calm, Publishing, Hydrating
  <1> QED BY <1>1, FinishEffect, CalmFrame

\* Taking hold of an object, likewise.
LEMMA HoldEffect ==
    ASSUME TypeOK, NEW t \in Thread, NEW l, Goto(t, l), req' = req,
           NEW o \in Obj, NEW fields, HoldInstead(t, o, fields)
    PROVE  /\ OthersKept(t)
           /\ pc'[t] = l /\ ref'[t] = o
           /\ obj'[o] = fields[o]
           /\ \A p \in Obj : obj'[p] = fields[p] \/ Reclaimed(t, p, obj'[p])
  <1>1. OthersKept(t) /\ pc'[t] = l /\ ref'[t] = o
    BY DEF OthersKept, Goto, HoldInstead, TypeOK
  <1>2. obj'[o] = fields[o]
    BY DEF HoldInstead
  <1>3. ASSUME NEW p \in Obj
        PROVE  obj'[p] = fields[p] \/ Reclaimed(t, p, obj'[p])
    BY DEF HoldInstead, Shared, Reclaimed, Unused, NewSession
  <1> QED BY <1>1, <1>2, <1>3

\* Locks and events do not count.
LEMMA SteadyUpdates ==
    ASSUME TypeOK
    PROVE  /\ AllSteady(obj)
           /\ \A o \in Obj : \A x : AllSteady([obj EXCEPT ![o].lock = x])
           /\ \A o \in Obj : AllSteady([obj EXCEPT ![o].ready = TRUE])
  <1>1. obj \in [Obj -> Session]
    BY DEF TypeOK
  <1>2. AllSteady(obj)
    BY DEF AllSteady, Steady
  <1>3. ASSUME NEW o \in Obj, NEW x
        PROVE  AllSteady([obj EXCEPT ![o].lock = x])
    BY <1>1 DEF AllSteady, Steady, Session
  <1>4. ASSUME NEW o \in Obj
        PROVE  AllSteady([obj EXCEPT ![o].ready = TRUE])
    BY <1>1 DEF AllSteady, Steady, Session
  <1> QED BY <1>2, <1>3, <1>4

-----------------------------------------------------------------------------
(* The invariant, action by action *)

\* The steps of create: all but the last three are calm.
LEMMA CreateHydration ==
    ASSUME TypeOK, TypeOK', RegistryInv, HydrationInv, NEW t \in Thread,
           Create(t)
    PROVE  HydrationInv'
  <1>0. RequestsNamed /\ AllSteady(obj)
    BY SteadyUpdates DEF RegistryInv
  <1>1. CASE CreateCheck(t)
    <2>1. CASE FinishWith(t, obj, sessions)
      BY <1>0, <1>1, <2>1, CalmFinish DEF CreateCheck
    <2>2. CASE /\ Goto(t, "create_launch") /\ obj' = obj /\ ref' = ref
               /\ \E s \in Sid : req' = [req EXCEPT ![t].sid = s]
      BY <1>0, <1>1, <2>2, CalmMove DEF CreateCheck, TypeOK
    <2> QED BY <1>1, <2>1, <2>2 DEF CreateCheck, Finish
  <1>2. CASE CreateLaunch(t)
    <2>1. CASE FinishWith(t, obj, sessions)
      BY <1>0, <1>2, <2>1, CalmFinish DEF CreateLaunch
    <2>2. CASE ~FinishWith(t, obj, sessions)
      BY <1>0, <1>2, <2>2, CalmMove DEF CreateLaunch, Finish
    <2> QED BY <2>1, <2>2
  <1>3. CASE CreateArm(t)
    <2>1. CASE FinishWith(t, obj, sessions)
      BY <1>0, <1>3, <2>1, CalmFinish DEF CreateArm
    <2>2. CASE ~FinishWith(t, obj, sessions)
      BY <1>0, <1>3, <2>2, CalmMove DEF CreateArm, Finish
    <2> QED BY <2>1, <2>2
  <1>4. CASE CreateAwaitReady(t)
    <2>1. CASE FinishWith(t, obj, sessions)
      BY <1>0, <1>4, <2>1, CalmFinish DEF CreateAwaitReady
    <2>2. CASE ~FinishWith(t, obj, sessions)
      BY <1>0, <1>4, <2>2, CalmMove DEF CreateAwaitReady, Finish
    <2> QED BY <2>1, <2>2
  <1>5. CASE CreatePublish(t)
    <2>1. PICK o \in FreeObj :
             /\ obj' = [obj EXCEPT ![o] = NewSession(req[t].sid, TRUE, FALSE)]
             /\ ref' = [ref EXCEPT ![t] = o]
      BY <1>5 DEF CreatePublish
    <2>2. o \in Obj /\ \A u \in Thread : ref[u] # o
      BY DEF FreeObj, Unreferenced
    <2>3. /\ OthersKept(t)
          /\ pc[t] = "create_publish" /\ pc'[t] = "create_status"
      BY <1>5, <2>1 DEF OthersKept, CreatePublish, Goto, TypeOK
    <2>4. \A p \in Obj : Steady(p, obj'[p]) \/ Reclaimed(t, p, obj'[p])
      BY <2>1, <2>2 DEF TypeOK, Steady, Reclaimed, NewSession
    <2> QED BY <1>0, <2>3, <2>4, HydrationFrame DEF SettingNext
  <1>6. CASE CreateStatus(t)
    <2>1. ref[t] \in Obj
      BY <1>0, <1>6, NamedType DEF CreateStatus
    <2>2. /\ OthersKept(t) /\ ref'[t] = ref[t]
          /\ pc[t] = "create_status" /\ pc'[t] = "create_set"
      BY <1>6 DEF OthersKept, CreateStatus, Goto, TypeOK
    <2>3. /\ \A o \in Obj : o # ref[t] => obj'[o] = obj[o]
          /\ obj'[ref[t]].claimed = obj[ref[t]].claimed
          /\ obj'[ref[t]].ready = obj[ref[t]].ready
      BY <1>6, <2>1 DEF CreateStatus, TypeOK, Session
    <2>4. \A o \in Obj : Steady(o, obj'[o]) \/ Promoted(t, o, obj'[o])
      BY <2>2, <2>3 DEF Steady, Promoted, SettingNext
    <2> QED BY <1>0, <2>2, <2>4, HydrationFrame DEF SettingNext
  <1>7. CASE CreateReturn(t)
    <2> DEFINE set == [obj EXCEPT ![ref[t]].ready = TRUE]
    <2>1. ref[t] \in Obj
      BY <1>0, <1>7, NamedType DEF CreateReturn
    <2>2. FinishWith(t, set, sessions) /\ AllSteady(set)
      BY <1>7, <2>1, SteadyUpdates DEF CreateReturn, Finish
    <2>3. Settled(t)
      BY <2>1, <2>2 DEF FinishWith, Settled, Unused, NewSession, TypeOK, Session
    <2>4. pc[t] = "create_set"
      BY <1>7 DEF CreateReturn
    <2> HIDE DEF set
    <2> QED BY <1>0, <2>2, <2>3, <2>4, FinishEffect, HydrationFrame
  <1> QED
    BY <1>1, <1>2, <1>3, <1>4, <1>5, <1>6, <1>7 DEF Create

\* A claim: t wins an object that nobody had claimed, or a new one.
LEMMA ClaimFrame ==
    ASSUME TypeOK, TypeOK', RequestsNamed, HydrationInv, NEW t \in Thread,
           NEW o \in Obj,
           OthersKept(t), pc[t] \notin Waking,
           pc'[t] = "claimed", ref'[t] = o,
           obj'[o].claimed, obj'[o].status = "RECONSTRUCTING",
           \A u \in Thread \ {t} : ref[u] = o => ~obj[o].claimed,
           \A p \in Obj \ {o} : Steady(p, obj'[p]) \/ Reclaimed(t, p, obj'[p])
    PROVE  HydrationInv'
  <1>1. ASSUME NEW u \in Thread \ {t}, pc[u] \in Winning
        PROVE  /\ ref[u] \in Obj \ {o}
               /\ obj'[ref[u]].claimed
    <2>1. ref[u] \in Obj /\ obj[ref[u]].claimed
      BY <1>1, NamedType DEF HydrationInv, ClaimsHeld
    <2> QED BY <2>1 DEF Steady, Reclaimed
  <1>2. ClaimsHeld'
    BY <1>1 DEF HydrationInv, ClaimsHeld, OthersKept
  <1>3. ClaimsWaken'
    <2> SUFFICES ASSUME NEW p \in Obj, obj'[p].claimed, ~obj'[p].ready
                 PROVE  \E u \in Thread : ref'[u] = p /\ pc'[u] \in Waking
      BY DEF ClaimsWaken, Wakers
    <2>1. CASE p = o
      BY <2>1
    <2>2. CASE p # o
      <3>1. obj[p].claimed /\ ~obj[p].ready
        BY <2>2 DEF Steady, Reclaimed
      <3>2. PICK u \in Thread : ref[u] = p /\ pc[u] \in Waking
        BY <3>1 DEF HydrationInv, ClaimsWaken, Wakers
      <3> QED BY <3>2 DEF OthersKept
    <2> QED BY <2>1, <2>2
  <1>4. ReadyIsNext'
    <2> SUFFICES ASSUME NEW p \in Obj, obj'[p].status = "READY", ~obj'[p].ready
                 PROVE  \E u \in Thread : ref'[u] = p /\ pc'[u] \in SettingNext
      BY DEF ReadyIsNext, SettingNext
    <2>1. p # o /\ obj[p].status = "READY" /\ ~obj[p].ready
      BY DEF Steady, Reclaimed
    <2>2. PICK u \in Thread : ref[u] = p /\ pc[u] \in SettingNext
      BY <2>1 DEF HydrationInv, ReadyIsNext, SettingNext
    <2> QED BY <2>2 DEF OthersKept, SettingNext
  <1> QED BY <1>2, <1>3, <1>4 DEF HydrationInv

\* The steps of _authz_session and get_or_reconstruct.
LEMMA AuthoriseHydration ==
    ASSUME TypeOK, TypeOK', RegistryInv, HydrationInv, NEW t \in Thread,
           Authorise(t)
    PROVE  HydrationInv'
  <1>0. RequestsNamed /\ AllSteady(obj)
    BY SteadyUpdates DEF RegistryInv
  <1>1. CASE Peek(t)
    BY <1>0, <1>1, CalmMove DEF Peek, TypeOK
  <1>2. CASE PeekStatus(t)
    BY <1>0, <1>2, CalmMove DEF PeekStatus
  <1>3. CASE GetOrReconstruct(t)
    <2> DEFINE s == req[t].sid
               o == sessions[s]
    <2>1. s \in Sid /\ pc[t] = "get" /\ req' = req
      BY <1>0, <1>3, NamedType DEF GetOrReconstruct
    <2>2. CASE o = None
      <3>1. PICK p \in FreeObj :
               /\ HoldInstead(t, p,
                    [obj EXCEPT ![p] = NewSession(s, FALSE, TRUE)])
               /\ Goto(t, "claimed")
        BY <1>3, <2>2 DEF GetOrReconstruct
      <3> DEFINE f == [obj EXCEPT ![p] = NewSession(s, FALSE, TRUE)]
      <3>2. p \in Obj /\ \A u \in Thread : ref[u] # p
        BY DEF FreeObj, Unreferenced
      <3>3. /\ f[p].claimed /\ f[p].status = "RECONSTRUCTING"
            /\ \A q \in Obj \ {p} : f[q] = obj[q]
        BY <3>2 DEF TypeOK, NewSession
      <3>4. HoldInstead(t, p, f)
        BY <3>1
      <3> HIDE DEF f
      <3>5. /\ OthersKept(t)
            /\ pc'[t] = "claimed" /\ ref'[t] = p
            /\ obj'[p] = f[p]
            /\ \A q \in Obj : obj'[q] = f[q] \/ Reclaimed(t, q, obj'[q])
        BY <2>1, <3>1, <3>2, <3>4, HoldEffect
      <3>6. \A q \in Obj \ {p} : Steady(q, obj'[q]) \/ Reclaimed(t, q, obj'[q])
        BY <3>3, <3>5 DEF Steady
      <3> QED BY <1>0, <2>1, <3>2, <3>3, <3>5, <3>6, ClaimFrame
    <2>3. CASE o # None /\ Claimable(o)
      <3> DEFINE f == [obj EXCEPT ![o].claimed = TRUE]
      <3>1. o \in Obj
        BY <2>1, <2>3 DEF TypeOK
      <3>2. HoldInstead(t, o, f) /\ Goto(t, "claimed")
        BY <1>3, <2>3 DEF GetOrReconstruct
      <3>3. /\ f[o].claimed /\ f[o].status = "RECONSTRUCTING"
            /\ \A q \in Obj \ {o} : f[q] = obj[q]
        BY <2>3, <3>1 DEF TypeOK, Session, Claimable
      <3> HIDE DEF f
      <3>4. /\ OthersKept(t)
            /\ pc'[t] = "claimed" /\ ref'[t] = o
            /\ obj'[o] = f[o]
            /\ \A q \in Obj : obj'[q] = f[q] \/ Reclaimed(t, q, obj'[q])
        BY <2>1, <3>1, <3>2, HoldEffect
      <3>5. \A q \in Obj \ {o} : Steady(q, obj'[q]) \/ Reclaimed(t, q, obj'[q])
        BY <3>3, <3>4 DEF Steady
      <3> QED BY <1>0, <2>1, <2>3, <3>1, <3>3, <3>4, <3>5, ClaimFrame
                 DEF Claimable
    <2>4. CASE o # None /\ ~Claimable(o)
      <3>1. o \in Obj /\ HoldInstead(t, o, obj) /\ Goto(t, "loser")
        BY <1>3, <2>1, <2>4 DEF GetOrReconstruct, TypeOK
      <3>2. /\ OthersKept(t) /\ Calm(t)
            /\ \A q \in Obj : obj'[q] = obj[q] \/ Reclaimed(t, q, obj'[q])
        BY <2>1, <3>1, HoldEffect DEF Calm
      <3> QED BY <1>0, <3>2, CalmFrame DEF Steady
    <2> QED BY <2>2, <2>3, <2>4
  <1>4. CASE WinnerReads(t)
    <2>1. /\ OthersKept(t) /\ ref' = ref /\ obj' = obj
          /\ pc[t] = "claimed"
      BY <1>4 DEF WinnerReads, OthersKept, Goto, TypeOK
    <2>2. CASE obj[ref[t]].status = "RECONSTRUCTING"
      <3>1. pc'[t] = "hydrate"
        BY <1>4, <2>2 DEF WinnerReads, Goto, TypeOK
      <3> QED BY <1>0, <2>1, <3>1, HydrationFrame DEF AllSteady, SettingNext
    <2>3. CASE obj[ref[t]].status # "RECONSTRUCTING"
      <3>1. ref[t] \in Obj /\ obj[ref[t]].status = "READY"
        BY <1>0, <2>1, <2>3, NamedType DEF Session
      <3>2. pc'[t] = "check_cap"
        BY <1>4, <2>3 DEF WinnerReads, Goto, TypeOK
      <3>3. \A u \in Thread : pc'[u] \in Winning =>
               u # t /\ pc[u] \in Winning
        BY <2>1, <3>2 DEF OthersKept
      <3>4. ClaimsHeld'
        BY <2>1, <3>3 DEF HydrationInv, ClaimsHeld
      <3>5. \A p \in Obj : obj[p].status = "READY" /\ ~obj[p].ready =>
               \E u \in Thread \ {t} : ref[u] = p /\ pc[u] \in SettingNext
        BY <2>1 DEF HydrationInv, ReadyIsNext, SettingNext
      <3>6. ReadyIsNext'
        BY <2>1, <3>5 DEF ReadyIsNext, SettingNext, OthersKept
      <3>7. ClaimsWaken'
        <4> SUFFICES ASSUME NEW p \in Obj, obj[p].claimed, ~obj[p].ready
                     PROVE  \E u \in Thread \ {t} :
                               ref[u] = p /\ pc[u] \in Waking
          BY <2>1 DEF ClaimsWaken, Wakers, OthersKept
        <4>1. CASE p = ref[t]
          BY <3>1, <3>5, <4>1 DEF SettingNext
        <4>2. CASE p # ref[t]
          BY <4>2 DEF HydrationInv, ClaimsWaken, Wakers
        <4> QED BY <4>1, <4>2
      <3> QED BY <3>4, <3>6, <3>7 DEF HydrationInv
    <2> QED BY <2>2, <2>3
  <1>5. CASE Hydrate(t)
    <2>1. ref[t] \in Obj /\ pc[t] = "hydrate"
      BY <1>0, <1>5, NamedType DEF Hydrate
    <2>2. OthersKept(t) /\ ref' = ref
      BY <1>5 DEF OthersKept, Hydrate, Goto, TypeOK
    <2>3. CASE pc'[t] = "set_ready"
      <3>1. obj' = [obj EXCEPT ![ref[t]] = Hydrated(@)]
        BY <1>5, <2>3 DEF Hydrate, Goto, TypeOK
      <3>2. /\ \A o \in Obj : o # ref[t] => obj'[o] = obj[o]
            /\ obj'[ref[t]].claimed = obj[ref[t]].claimed
            /\ obj'[ref[t]].ready = obj[ref[t]].ready
        BY <2>1, <3>1 DEF TypeOK, Session, Hydrated
      <3>3. \A o \in Obj : Steady(o, obj'[o]) \/ Promoted(t, o, obj'[o])
        BY <2>2, <2>3, <3>2 DEF Steady, Promoted, SettingNext
      <3> QED
        BY <1>0, <2>1, <2>2, <2>3, <3>2, <3>3, HydrationFrame DEF SettingNext
    <2>4. CASE pc'[t] # "set_ready"
      <3>1. pc'[t] = "forget" /\ obj' = obj
        BY <1>5, <2>4 DEF Hydrate, Goto, TypeOK
      <3> QED
        BY <1>0, <2>1, <2>2, <3>1, HydrationFrame DEF AllSteady, SettingNext
    <2> QED BY <2>3, <2>4
  <1>6. CASE HydrateForget(t)
    <2>1. /\ OthersKept(t) /\ ref' = ref /\ obj' = obj
          /\ pc[t] = "forget" /\ pc'[t] = "set_ready_raise"
      BY <1>6 DEF OthersKept, HydrateForget, Goto, TypeOK
    <2> QED BY <1>0, <2>1, HydrationFrame DEF AllSteady, SettingNext
  <1>7. CASE SetReady(t)
    <2> DEFINE woken == [obj EXCEPT ![ref[t]].ready = TRUE]
    <2>1. ref[t] \in Obj
      BY <1>0, <1>7, NamedType DEF SetReady
    <2>2. AllSteady(woken) /\ woken[ref[t]].ready
      BY <2>1, SteadyUpdates DEF TypeOK, Session
    <2>3. CASE FinishWith(t, woken, sessions)
      <3>1. Settled(t)
        BY <2>1, <2>2, <2>3 DEF FinishWith, Settled, Unused, NewSession
      <3> HIDE DEF woken
      <3> QED BY <1>0, <2>2, <2>3, <3>1, FinishEffect, HydrationFrame
    <2>4. CASE Goto(t, "check_cap") /\ obj' = woken /\ UNCHANGED <<req, ref>>
      <3>1. OthersKept(t) /\ pc'[t] = "check_cap"
        BY <2>4 DEF OthersKept, Goto, TypeOK
      <3> HIDE DEF woken
      <3> QED
        BY <1>0, <2>2, <2>4, <3>1, HydrationFrame DEF AllSteady, Settled
    <2> QED BY <1>7, <2>3, <2>4 DEF SetReady, Finish
  <1>8. CASE LoserReads(t)
    BY <1>0, <1>8, CalmMove DEF LoserReads
  <1>9. CASE Woken(t)
    BY <1>0, <1>9, CalmMove DEF Woken
  <1>10. CASE Recheck(t)
    <2>1. CASE FinishWith(t, obj, sessions)
      BY <1>0, <1>10, <2>1, CalmFinish DEF Recheck
    <2>2. CASE ~FinishWith(t, obj, sessions)
      BY <1>0, <1>10, <2>2, CalmMove DEF Recheck, Finish
    <2> QED BY <2>1, <2>2
  <1>11. CASE CheckCap(t)
    <2>1. CASE FinishWith(t, obj, sessions)
      BY <1>0, <1>11, <2>1, CalmFinish DEF CheckCap
    <2>2. CASE ~FinishWith(t, obj, sessions)
      BY <1>0, <1>11, <2>2, CalmMove DEF CheckCap, Finish
    <2> QED BY <2>1, <2>2
  <1> QED
    BY <1>1, <1>2, <1>3, <1>4, <1>5, <1>6, <1>7, <1>8, <1>9, <1>10, <1>11
       DEF Authorise

\* The steps of the turn lock are calm.
LEMMA TurnHydration ==
    ASSUME TypeOK, TypeOK', RegistryInv, HydrationInv, NEW t \in Thread,
           Turn(t)
    PROVE  HydrationInv'
  <1>0. RequestsNamed /\ AllSteady(obj)
    BY SteadyUpdates DEF RegistryInv
  <1>1. CASE Acquire(t)
    <2>1. ref[t] \in Obj
      BY <1>0, <1>1, NamedType DEF Acquire
    <2>2. AllSteady(obj')
      BY <1>1, <2>1, SteadyUpdates DEF Acquire
    <2> QED BY <1>0, <1>1, <2>2, CalmMove DEF Acquire
  <1>2. CASE AcquireTimeout(t)
    <2>1. CASE FinishWith(t, obj, sessions)
      BY <1>0, <1>2, <2>1, CalmFinish DEF AcquireTimeout
    <2>2. CASE ~FinishWith(t, obj, sessions)
      BY <1>0, <1>2, <2>2, CalmMove DEF AcquireTimeout, Finish
    <2> QED BY <2>1, <2>2
  <1>3. CASE Release(t)
    <2>1. ref[t] \in Obj
      BY <1>0, <1>3, NamedType DEF Release
    <2> QED BY <1>0, <1>3, <2>1, SteadyUpdates, CalmFinish DEF Release, Finish
  <1> QED
    BY <1>1, <1>2, <1>3 DEF Turn

\* The steps of delete are calm.
LEMMA DeleteHydration ==
    ASSUME TypeOK, TypeOK', RegistryInv, HydrationInv, NEW t \in Thread,
           Delete(t)
    PROVE  HydrationInv'
  <1>0. RequestsNamed /\ AllSteady(obj)
    BY SteadyUpdates DEF RegistryInv
  <1>1. CASE DeleteLookup(t)
    <2> DEFINE o == sessions[req[t].sid]
    <2>1. CASE FinishWith(t, obj, sessions)
      BY <1>0, <1>1, <2>1, CalmFinish DEF DeleteLookup
    <2>2. CASE ~FinishWith(t, obj, sessions)
      <3>1. /\ o \in Obj /\ HoldInstead(t, o, obj)
            /\ Goto(t, "delete_check") /\ req' = req
            /\ pc[t] = "delete_lookup"
        BY <1>0, <1>1, <2>2, NamedType DEF DeleteLookup, Finish, TypeOK
      <3> HIDE DEF o
      <3>2. /\ OthersKept(t) /\ Calm(t)
            /\ \A q \in Obj : obj'[q] = obj[q] \/ Reclaimed(t, q, obj'[q])
        BY <3>1, HoldEffect DEF Calm
      <3> QED BY <1>0, <3>2, CalmFrame DEF Steady
    <2> QED BY <2>1, <2>2
  <1>2. CASE DeleteCheck(t)
    <2>1. CASE FinishWith(t, obj, sessions)
      BY <1>0, <1>2, <2>1, CalmFinish DEF DeleteCheck
    <2>2. CASE ~FinishWith(t, obj, sessions)
      BY <1>0, <1>2, <2>2, CalmMove DEF DeleteCheck, Finish
    <2> QED BY <2>1, <2>2
  <1>3. CASE DeleteKill(t)
    BY <1>0, <1>3, CalmMove DEF DeleteKill
  <1>4. CASE DeleteRm(t)
    BY <1>0, <1>4, CalmMove DEF DeleteRm
  <1>5. CASE DeleteForget(t)
    BY <1>0, <1>5, CalmFinish DEF DeleteForget
  <1> QED
    BY <1>1, <1>2, <1>3, <1>4, <1>5 DEF Delete

\* So are the arrival of work and READY_TIMEOUT.
LEMMA BeginHydration ==
    ASSUME TypeOK, TypeOK', RegistryInv, HydrationInv, NEW t \in Thread,
           StartRequest(t) \/ WaitTimeout(t)
    PROVE  HydrationInv'
  <1>0. RequestsNamed /\ AllSteady(obj)
    BY SteadyUpdates DEF RegistryInv
  <1>1. CASE StartRequest(t)
    <2>1. \E l \in PC \ Waking : Goto(t, l)
      BY <1>1 DEF StartRequest
    <2> QED BY <1>0, <1>1, <2>1, CalmMove DEF StartRequest, TypeOK
  <1>2. CASE WaitTimeout(t)
    BY <1>0, <1>2, CalmMove DEF WaitTimeout
  <1> QED BY <1>1, <1>2

-----------------------------------------------------------------------------
(* The theorems *)

\* The initial states, and a restart, have no claims.
LEMMA NoClaims ==
    ASSUME \A o \in Obj : obj[o] = Unused, \A t \in Thread : pc[t] = "idle"
    PROVE  HydrationInv
  BY DEF HydrationInv, ClaimsHeld, ClaimsWaken, ReadyIsNext, Unused, NewSession

\* Every step of Next, and stuttering, preserves the invariant.
LEMMA NextHydration ==
    TypeOK /\ TypeOK' /\ RegistryInv /\ HydrationInv /\ [Next]_vars
    => HydrationInv'
  <1> SUFFICES ASSUME TypeOK, TypeOK', RegistryInv, HydrationInv, [Next]_vars
               PROVE  HydrationInv'
    OBVIOUS
  <1>1. ASSUME NEW t \in Thread, Step(t)
        PROVE  HydrationInv'
    BY <1>1, CreateHydration, AuthoriseHydration, TurnHydration,
       DeleteHydration DEF Step
  <1>2. ASSUME NEW t \in Thread,
               StartRequest(t) \/ WaitTimeout(t)
        PROVE  HydrationInv'
    BY <1>2, BeginHydration
  <1>3. ASSUME \E s \in Sid : ServerExits(s)
        PROVE  HydrationInv'
    BY <1>3 DEF ServerExits, HydrationInv, ClaimsHeld, ClaimsWaken, ReadyIsNext,
       Wakers
  <1>4. CASE Restart
    <2>1. (\A o \in Obj : obj'[o] = Unused) /\ \A t \in Thread : pc'[t] = "idle"
      BY <1>4 DEF Restart
    <2> QED BY <2>1 DEF HydrationInv, ClaimsHeld, ClaimsWaken, ReadyIsNext,
               Unused, NewSession
  <1>5. CASE UNCHANGED vars
    BY <1>5 DEF vars, HydrationInv, ClaimsHeld, ClaimsWaken, ReadyIsNext, Wakers
  <1> QED BY <1>1, <1>2, <1>3, <1>4, <1>5 DEF Next, AwaitConnection

\* Whoever hydrates an object has claimed it and has no rival, and every claim
\* has a thread that will set the event: in every reachable state, for any
\* number of threads, sids, objects and restarts.
THEOREM HydrationInvariant == Spec => []HydrationInv
  <1>1. Init => HydrationInv
    BY NoClaims DEF Init
  <1>2. TypeOK /\ TypeOK' /\ RegistryInv /\ HydrationInv /\ [Next]_vars
        => HydrationInv'
    BY NextHydration
  <1> QED BY <1>1, <1>2, TypeCorrect, RegistryInvariant, PTL DEF Spec

\* get_or_reconstruct elects one winner: no two requests ever hydrate one
\* object.
THEOREM OneWinner == Spec => []OneHydrator
  <1>1. HydrationInv => OneHydrator
    BY DEF HydrationInv, ClaimsHeld, OneHydrator
  <1> QED BY <1>1, HydrationInvariant, PTL

\* No wake-up is lost: an object that a request waits on, or that the dict would
\* make one wait on, has its event set or a thread that will set it.
THEOREM NoLostWakeup == Spec => []WaiterHasWaker
  <1>1. HydrationInv => WaiterHasWaker
    BY DEF HydrationInv, ClaimsWaken, WaiterHasWaker
  <1> QED BY <1>1, HydrationInvariant, PTL
=============================================================================
