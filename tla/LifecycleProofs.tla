---------------------------- MODULE LifecycleProofs ----------------------------
(***************************************************************************)
(* Proofs about the life of a session in SessionRegistry, for any number   *)
(* of threads, sids, objects and restarts: the inductive invariant         *)
(* LifecycleInv, and from it what create and delete promise:               *)
(* OvershootBounded, DeleteIsFinal and NoStraySession.                     *)
(***************************************************************************)
EXTENDS SessionRegistryProofs, FiniteSetTheorems

\* The states of a server that tmux reaches: Alive(s) == server[s] \in Runs.
Runs == {"alive", "left"}

USE DEF PC, Creating, Publishing, Hydrating, TearingDown, NoWork, HoldsObject,
        Runs

-----------------------------------------------------------------------------
(* What a step of one thread may do *)

\* Object o keeps its session, its cap and its status.
SameObj(o, f) ==
    f.sid = obj[o].sid /\ f.cap = obj[o].cap /\ f.status = obj[o].status

AllSame(fields) == \A o \in Obj : SameObj(o, fields[o])

\* An entry of the dict stays, or t takes out its own object (a failed hydrate
\* knowing that it leaves the server behind), or it puts a placeholder where
\* there was nothing, or create publishes its session.
DictEffect(t) ==
    /\ \A s \in Sid :
          \/ sessions'[s] = sessions[s]
          \/ /\ s = req[t].sid
             /\ \/ /\ pc[t] \in {"forget", "delete_forget"}
                   /\ sessions'[s] = None
                   /\ pc[t] = "forget" => server'[s] # "alive"
                \/ /\ pc[t] = "get"
                   /\ sessions[s] = None
                   /\ ~obj'[sessions'[s]].cap
                   /\ obj'[sessions'[s]].status = "RECONSTRUCTING"
                \/ pc[t] = "create_publish"
    /\ pc[t] = "delete_forget" => sessions'[req[t].sid] # ref[t]

\* An object that another thread refers to keeps its cap; only create gives an
\* object a cap, and only create and a hydrate of a live server make one READY.
ObjEffect(t) ==
    \A o \in Obj :
        /\ (\E u \in Thread \ {t} : ref[u] = o) => obj'[o].cap = obj[o].cap
        /\ obj'[o].cap =>
              \/ obj[o].cap /\ obj'[o].sid = obj[o].sid
              \/ /\ pc[t] = "create_publish"
                 /\ obj'[o].sid = req[t].sid /\ o = sessions'[req[t].sid]
        /\ obj'[o].status = "READY" =>
              \/ obj[o].status = "READY"
              \/ o = ref[t] /\ pc[t] = "create_status"
              \/ o = ref[t] /\ pc[t] = "hydrate" /\ Alive(req[t].sid)

\* Only create starts a server, and none that was left behind comes back.
ServerEffect(t) ==
    \A s \in Sid :
        \/ pc[t] = "create_launch" /\ s = req[t].sid
        \/ /\ server'[s] \in Runs => server[s] \in Runs
           /\ server'[s] = "alive" => server[s] = "alive"

\* Sids are published, issued and deleted by the last steps of their requests.
SetsEffect(t) ==
    /\ known' = known \cup (IF pc[t] = "create_publish" THEN {req[t].sid} ELSE {})
    /\ issued' = issued \cup (IF pc[t] = "create_set" THEN {req[t].sid} ELSE {})
    /\ deleted' = deleted \cup
                     (IF pc[t] = "delete_forget" THEN {req[t].sid} ELSE {})
    /\ restarts' = restarts

\* A create that stops short of publishing leaves no server but for a cause.
CreateEffect(t) ==
    pc[t] \in Creating =>
        \/ pc'[t] \in Creating /\ req'[t].sid = req[t].sid
        \/ server'[req[t].sid] # "alive"
        \/ sessions'[req[t].sid] # None

\* What LifecycleInv says of thread t alone, after its step.
OwnLife(t) ==
    /\ pc'[t] \notin NoWork \cup Creating => req'[t].sid \in known'
    /\ pc'[t] \in Removing => server'[req'[t].sid] \notin Runs
    /\ pc'[t] \in Creating =>
          pc[t] \in Creating \/ (pc[t] = "create_check" /\ ~OverCap)
    /\ pc[t] = "create_publish" => pc'[t] \notin Creating
    /\ pc'[t] \in Publishing => /\ pc[t] \in {"create_publish", "create_status"}
                                /\ req'[t].sid = req[t].sid
                                /\ obj'[ref'[t]].cap
    /\ req'[t].op \in {"turn", "delete"} => req'[t].sid \in issued'
    /\ pc'[t] = "create_check" => req'[t].op = "create"
    /\ pc'[t] \in Deleting => req'[t].op = "delete"
    /\ pc'[t] \in Deleting \cap TearingDown => obj'[ref'[t]].cap

Effect(t) ==
    /\ OthersKept(t) /\ DictEffect(t) /\ ObjEffect(t) /\ ServerEffect(t)
    /\ SetsEffect(t) /\ CreateEffect(t) /\ OwnLife(t)

-----------------------------------------------------------------------------
(* Such a step preserves the invariant, one conjunct after the other *)

\* Create works on a sid that nobody knows, so it starts no server of a sid that
\* is known.
LEMMA KnownStaysGone ==
    ASSUME RegistryInv, NEW t \in Thread, ServerEffect(t),
           NEW s \in known, s \in Sid, ~Alive(s)
    PROVE  server'[s] \notin Runs
  BY DEF ServerEffect, Alive, RegistryInv, CreatesFresh

\* Published sids and gone servers.
LEMMA ControlFrame ==
    ASSUME TypeOK, RegistryInv, LifecycleInv, NEW t \in Thread, Effect(t)
    PROVE  WorkIsKnown' /\ GoneStaysGone'
  <1>1. known \subseteq known' /\ OthersKept(t) /\ OwnLife(t)
    BY DEF Effect, SetsEffect
  <1>3. WorkIsKnown'
    <2>1. ASSUME NEW s \in Sid, sessions'[s] # None
          PROVE  s \in known'
      <3>1. CASE sessions'[s] = sessions[s]
        BY <1>1, <2>1, <3>1 DEF LifecycleInv, WorkIsKnown
      <3>2. CASE s = req[t].sid /\ pc[t] = "get"
        BY <1>1, <3>2 DEF LifecycleInv, WorkIsKnown
      <3>3. CASE s = req[t].sid /\ pc[t] = "create_publish"
        BY <3>3 DEF Effect, SetsEffect
      <3> QED BY <2>1, <3>1, <3>2, <3>3 DEF Effect, DictEffect
    <2>2. ASSUME NEW u \in Thread, pc'[u] \notin NoWork \cup Creating
          PROVE  req'[u].sid \in known'
      BY <1>1, <2>2 DEF LifecycleInv, WorkIsKnown, OthersKept, OwnLife
    <2> QED BY <2>1, <2>2 DEF WorkIsKnown
  <1>4. GoneStaysGone'
    <2> SUFFICES ASSUME NEW u \in Thread, pc'[u] \in Removing
                 PROVE  server'[req'[u].sid] \notin Runs
      BY DEF GoneStaysGone, Alive
    <2>1. CASE u = t
      BY <1>1, <2>1 DEF OwnLife
    <2>2. CASE u # t
      <3>1. pc[u] \in Removing /\ req'[u] = req[u]
        BY <1>1, <2>2 DEF OthersKept
      <3>2. pc[u] \notin NoWork \cup Creating
        BY <3>1 DEF Removing
      <3>3. /\ req[u].sid \in known
            /\ ~Alive(req[u].sid)
            /\ req[u].sid \in Sid
        BY <3>1, <3>2, NamedType
           DEF LifecycleInv, WorkIsKnown, GoneStaysGone, RegistryInv,
               RequestsNamed
      <3> QED BY <3>1, <3>3, KnownStaysGone DEF Effect
    <2> QED BY <2>1, <2>2
  <1> QED BY <1>3, <1>4

\* Caps and who holds them.
LEMMA CapFrame ==
    ASSUME TypeOK, RegistryInv, LifecycleInv, NEW t \in Thread, Effect(t)
    PROVE  CapIssuedLast' /\ DeleteIsAuthorised'
  <1>1. OthersKept(t) /\ OwnLife(t) /\ SetsEffect(t)
    BY DEF Effect
  <1>2. ASSUME NEW u \in Thread \ {t}, ref[u] # None
        PROVE  obj'[ref'[u]].cap = obj[ref[u]].cap
    BY <1>1, <1>2 DEF Effect, ObjEffect, OthersKept, TypeOK
  <1>3. ASSUME NEW u \in Thread, pc[u] \in Publishing
        PROVE  /\ req[u].sid \in known /\ req[u].sid \notin issued
               /\ ref[u] # None
    BY <1>3
       DEF LifecycleInv, WorkIsKnown, CapIssuedLast, RegistryInv, RequestsNamed
  <1>4. pc[t] = "create_publish" => req[t].sid \notin known
    BY DEF RegistryInv, CreatesFresh
  <1>5. issued' \subseteq known'
    BY <1>1, <1>3 DEF SetsEffect, LifecycleInv, CapIssuedLast
  <1>6. ASSUME NEW u \in Thread, pc'[u] \in Publishing
        PROVE  obj'[ref'[u]].cap /\ req'[u].sid \notin issued'
    <2>1. CASE u = t
      BY <1>1, <1>3, <1>4, <1>6, <2>1
         DEF OwnLife, SetsEffect, LifecycleInv, CapIssuedLast
    <2>2. CASE u # t
      <3>1. pc[u] \in Publishing /\ req'[u] = req[u]
        BY <1>1, <1>6, <2>2 DEF OthersKept
      <3>2. pc[t] = "create_set" => req[t].sid # req[u].sid
        BY <2>2, <3>1 DEF LifecycleInv, CapIssuedLast
      <3>3. obj[ref[u]].cap
        BY <3>1 DEF LifecycleInv, CapIssuedLast
      <3> QED BY <1>1, <1>2, <1>3, <2>2, <3>1, <3>2, <3>3 DEF SetsEffect
    <2> QED BY <2>1, <2>2
  <1>7. ASSUME NEW u \in Thread, NEW v \in Thread,
               pc'[u] \in Publishing, pc'[v] \in Publishing,
               req'[u].sid = req'[v].sid
        PROVE  u = v
    <2>1. ASSUME NEW w \in Thread, pc'[w] \in Publishing
          PROVE  /\ req'[w].sid = req[w].sid
                 /\ \/ pc[w] \in Publishing
                    \/ w = t /\ pc[w] = "create_publish"
      BY <1>1, <2>1 DEF OthersKept, OwnLife
    <2> QED
      BY <1>3, <1>4, <1>7, <2>1 DEF LifecycleInv, CapIssuedLast
  <1>8. ASSUME NEW u \in Thread
        PROVE  /\ req'[u].op \in {"turn", "delete"} => req'[u].sid \in issued'
               /\ pc'[u] = "create_check" => req'[u].op = "create"
               /\ pc'[u] \in Deleting => req'[u].op = "delete"
               /\ pc'[u] \in Deleting \cap TearingDown => obj'[ref'[u]].cap
    <2>1. CASE u = t
      BY <1>1, <2>1 DEF OwnLife
    <2>2. CASE u # t
      <3>1. pc'[u] = pc[u] /\ req'[u] = req[u]
        BY <1>1, <2>2 DEF OthersKept
      <3>2. pc[u] \in Deleting \cap TearingDown => ref[u] # None
        BY DEF Deleting, RegistryInv, RequestsNamed
      <3> QED
        BY <1>1, <1>2, <2>2, <3>1, <3>2
           DEF LifecycleInv, DeleteIsAuthorised, SetsEffect
    <2> QED BY <2>1, <2>2
  <1>9. CapIssuedLast'
    BY <1>5, <1>6, <1>7 DEF CapIssuedLast
  <1> QED BY <1>8, <1>9 DEF DeleteIsAuthorised

\* One element more adds at most one to the cardinality.
LEMMA OneMore ==
    ASSUME NEW S, NEW x, IsFiniteSet(S)
    PROVE  /\ IsFiniteSet(S \cup {x})
           /\ Cardinality(S \cup {x}) <= Cardinality(S) + 1
  <1>1. Cardinality(S) \in Nat
    BY FS_CardinalityType
  <1>2. /\ IsFiniteSet(S \cup {x})
        /\ Cardinality(S \cup {x}) =
              IF x \in S THEN Cardinality(S) ELSE Cardinality(S) + 1
    BY FS_AddElement
  <1> QED BY <1>1, <1>2

\* The places: a check takes one only if the dict leaves room, and a publication
\* turns a create's place into an entry.
LEMMA PlacesFrame ==
    ASSUME TypeOK, TypeOK', RegistryInv, LifecycleInv, NEW t \in Thread,
           RegistryInv', Effect(t)
    PROVE  PlacesCounted'
  <1> DEFINE Creators == {u \in Thread : pc[u] \in Creating}
             Max == MaxSessions - 1 + Cardinality(Thread)
  <1>1. /\ IsFiniteSet(Thread) /\ IsFiniteSet(Sid)
        /\ Owned \subseteq Sid /\ Owned' \subseteq Sid
        /\ Owned \subseteq Registered /\ Registered \subseteq Sid
        /\ Creators \subseteq Thread /\ Creators' \subseteq Thread
    BY FinitenessAssumption DEF Owned, Registered
  <1>2. /\ IsFiniteSet(Owned) /\ IsFiniteSet(Owned') /\ IsFiniteSet(Registered)
        /\ IsFiniteSet(Creators) /\ IsFiniteSet(Creators')
        /\ Cardinality(Owned) \in Nat /\ Cardinality(Owned') \in Nat
        /\ Cardinality(Creators) \in Nat /\ Cardinality(Creators') \in Nat
        /\ Cardinality(Thread) \in Nat /\ Cardinality(Registered) \in Nat
        /\ Cardinality(Owned) <= Cardinality(Registered)
        /\ Cardinality(Creators') <= Cardinality(Thread)
    BY <1>1, FS_Subset, FS_CardinalityType
  <1>3. Cardinality(Owned) + Cardinality(Creators) <= Max
    BY DEF LifecycleInv, PlacesCounted
  <1>4. MaxSessions \in Nat
    BY BoundsAssumption
  <1>5. OthersKept(t) /\ OwnLife(t) /\ DictEffect(t) /\ ObjEffect(t)
    BY DEF Effect
  <1>6. ASSUME NEW s \in Owned', s \notin Owned
        PROVE  pc[t] = "create_publish" /\ s = req[t].sid
    <2>1. s \in Sid /\ sessions'[s] \in Obj /\ obj'[sessions'[s]].cap
      BY DEF Owned, Registered, TypeOK
    <2>2. CASE sessions'[s] = sessions[s]
      <3>1. ~obj[sessions[s]].cap
        BY <1>6, <2>1, <2>2, NoneAssumption DEF Owned, Registered
      <3>2. obj'[sessions'[s]].sid = req[t].sid /\ pc[t] = "create_publish"
        BY <1>5, <2>1, <2>2, <3>1 DEF ObjEffect
      <3>3. obj'[sessions'[s]].sid = s
        BY <2>1, NoneAssumption DEF RegistryInv, ReferencesMatch
      <3> QED BY <3>2, <3>3
    <2>3. CASE sessions'[s] # sessions[s]
      BY <1>5, <2>1, <2>3, NoneAssumption DEF DictEffect
    <2> QED BY <2>2, <2>3
  <1>7. CASE pc[t] = "create_check"
    <2>1. Owned' \subseteq Owned
      BY <1>6, <1>7
    <2>2. Cardinality(Owned') <= Cardinality(Owned)
      BY <1>2, <2>1, FS_Subset
    <2>3. CASE pc'[t] \in Creating
      <3>1. ~(Cardinality(Registered) >= MaxSessions)
        BY <1>5, <1>7, <2>3 DEF OwnLife, OverCap
      <3>2. Cardinality(Owned') + Cardinality(Creators') <= Max
        BY <1>2, <1>4, <2>2, <3>1
      <3> QED BY <3>2 DEF PlacesCounted
    <2>4. CASE pc'[t] \notin Creating
      <3>1. Creators' \subseteq Creators
        BY <1>5, <2>4 DEF OthersKept
      <3>2. Cardinality(Creators') <= Cardinality(Creators)
        BY <1>2, <3>1, FS_Subset
      <3>3. Cardinality(Owned') + Cardinality(Creators') <= Max
        BY <1>2, <1>3, <1>4, <2>2, <3>2
      <3> QED BY <3>3 DEF PlacesCounted
    <2> QED BY <2>3, <2>4
  <1>8. CASE pc[t] = "create_publish"
    <2>1. t \in Creators
      BY <1>8
    <2>2. Creators' \subseteq Creators \ {t}
      BY <1>5, <1>8 DEF OthersKept, OwnLife
    <2>3. /\ IsFiniteSet(Creators \ {t})
          /\ Cardinality(Creators \ {t}) = Cardinality(Creators) - 1
      BY <1>2, <2>1, FS_RemoveElement
    <2>4. Cardinality(Creators') <= Cardinality(Creators) - 1
      BY <2>2, <2>3, FS_Subset
    <2>5. Owned' \subseteq Owned \cup {req[t].sid}
      BY <1>6
    <2>6. /\ IsFiniteSet(Owned \cup {req[t].sid})
          /\ Cardinality(Owned \cup {req[t].sid}) <= Cardinality(Owned) + 1
      BY <1>2, OneMore
    <2>7. Cardinality(Owned') <= Cardinality(Owned \cup {req[t].sid})
      BY <2>5, <2>6, FS_Subset
    <2>8. Cardinality(Owned \cup {req[t].sid}) \in Nat
      BY <2>6, FS_CardinalityType
    <2>9. Cardinality(Owned') + Cardinality(Creators') <= Max
      BY <1>2, <1>3, <1>4, <2>4, <2>6, <2>7, <2>8
    <2> QED BY <2>9 DEF PlacesCounted
  <1>9. CASE pc[t] \notin {"create_check", "create_publish"}
    <2>1. Owned' \subseteq Owned
      BY <1>6, <1>9
    <2>2. Creators' \subseteq Creators
      BY <1>5, <1>9 DEF OthersKept, OwnLife
    <2>3. /\ Cardinality(Owned') <= Cardinality(Owned)
          /\ Cardinality(Creators') <= Cardinality(Creators)
      BY <1>2, <2>1, <2>2, FS_Subset
    <2>4. Cardinality(Owned') + Cardinality(Creators') <= Max
      BY <1>2, <1>3, <1>4, <2>3
    <2> QED BY <2>4 DEF PlacesCounted
  <1> QED BY <1>7, <1>8, <1>9

\* An entry is only taken out of the dict when no live server depends on it:
\* without faults, when the server of its session is gone.
LEMMA RemovedIsGone ==
    ASSUME TypeOK, RegistryInv, LifecycleInv, NEW t \in Thread,
           Effect(t), NEW s \in Sid, sessions[s] # None, sessions'[s] # sessions[s],
           s \in known
    PROVE  /\ sessions'[s] = None /\ s = req[t].sid
           /\ server'[s] # "alive"
           /\ ~Faults => ~Alive(s) /\ server'[s] \notin Runs
  <1>1. s = req[t].sid /\ pc[t] # "create_publish"
    BY DEF Effect, DictEffect, RegistryInv, CreatesFresh
  <1>2. /\ pc[t] \in {"forget", "delete_forget"}
        /\ sessions'[s] = None
        /\ pc[t] = "forget" => server'[s] # "alive"
    BY <1>1 DEF Effect, DictEffect
  <1>3. pc[t] = "delete_forget" \/ ~Faults => ~Alive(s)
    BY <1>1, <1>2 DEF LifecycleInv, GoneStaysGone, Removing
  <1>4. ~Alive(s) => server'[s] \notin Runs
    BY KnownStaysGone DEF Effect
  <1> QED BY <1>1, <1>2, <1>3, <1>4

\* Without faults: what happens to an entry whose session's server is gone and
\* whose object is not READY, or to no entry: it never becomes READY.
LEMMA NeverReadyAgain ==
    ASSUME TypeOK, RegistryInv, LifecycleInv, NEW t \in Thread,
           Effect(t), NEW s \in Sid, s \in known, ~Alive(s),
           sessions[s] # None => obj[sessions[s]].status # "READY",
           pc[t] = "create_status" => ref[t] # sessions[s],
           sessions'[s] # None
    PROVE  obj'[sessions'[s]].status # "READY"
  <1>1. pc[t] = "create_publish" => req[t].sid # s
    BY DEF RegistryInv, CreatesFresh
  <1>2. CASE sessions'[s] = sessions[s]
    <2>1. /\ sessions[s] \in Obj
          /\ obj[sessions[s]].status # "READY"
          /\ obj[sessions[s]].sid = s
      BY <1>2 DEF TypeOK, RegistryInv, ReferencesMatch
    <2>2. ref[t] = sessions[s] => req[t].sid = s
      BY <2>1, NoneAssumption DEF RegistryInv, ReferencesMatch
    <2> QED BY <1>2, <2>1, <2>2 DEF Effect, ObjEffect
  <1>3. CASE obj'[sessions'[s]].status = "RECONSTRUCTING"
    BY <1>3
  <1> QED BY <1>1, <1>2, <1>3 DEF Effect, DictEffect

\* Without faults: caps and deletions.
LEMMA FaultlessFrame ==
    ASSUME ~Faults, TypeOK, TypeOK', RegistryInv, LifecycleInv, NEW t \in Thread,
           Effect(t)
    PROVE  CapLeavesLast' /\ DeletedIsGone' /\ DeleteIsFinal'
  <1>1. OthersKept(t) /\ OwnLife(t) /\ SetsEffect(t) /\ ObjEffect(t)
    BY DEF Effect
  <1>2. /\ CapLeavesLast /\ DeletedIsGone /\ DeleteIsFinal
        /\ issued \subseteq known
    BY DEF LifecycleInv, CapIssuedLast
  <1>3. pc[t] \in {"create_publish", "create_launch"} => req[t].sid \notin known
    BY DEF RegistryInv, CreatesFresh
  <1>4. CapLeavesLast'
    <2> SUFFICES ASSUME NEW o \in Obj, obj'[o].cap, sessions'[obj'[o].sid] # o
                 PROVE  LET s == obj'[o].sid IN
                        /\ server'[s] \notin Runs
                        /\ sessions'[s] # None =>
                              obj'[sessions'[s]].status # "READY"
      BY DEF CapLeavesLast, Alive
    <2> DEFINE s == obj'[o].sid
    <2>1. obj[o].cap /\ s = obj[o].sid
      BY <1>1 DEF ObjEffect
    <2>2. s \in known /\ s \in Sid
      BY <2>1 DEF RegistryInv, CreatesFresh, TypeOK
    <2>3. CASE sessions[s] = o
      <3>1. sessions'[s] = None /\ server'[s] \notin Runs
        BY <2>2, <2>3, RemovedIsGone, NoneAssumption
      <3> QED BY <3>1
    <2>4. CASE sessions[s] # o
      <3>1. /\ ~Alive(s)
            /\ sessions[s] # None => obj[sessions[s]].status # "READY"
        BY <1>2, <2>1, <2>4 DEF CapLeavesLast
      <3>2. pc[t] = "create_status" => ref[t] # sessions[s]
        <4>1. SUFFICES ASSUME pc[t] = "create_status", ref[t] = sessions[s]
                       PROVE  FALSE
          OBVIOUS
        <4>2. ref[t] \in Obj /\ obj[ref[t]].cap
          BY <4>1, NamedType DEF RegistryInv, LifecycleInv, CapIssuedLast
        <4>3. obj[ref[t]].sid = s
          BY <2>2, <4>1, <4>2, NoneAssumption DEF RegistryInv, ReferencesMatch
        <4> QED
          BY <2>1, <2>4, <4>1, <4>2, <4>3 DEF RegistryInv, CapUnique
      <3>3. server'[s] \notin Runs
        BY <2>2, <3>1, KnownStaysGone DEF Effect
      <3> QED BY <2>2, <3>1, <3>2, <3>3, NeverReadyAgain
    <2> QED BY <2>3, <2>4
  <1>5. ASSUME NEW s \in deleted
        PROVE  s \in issued /\ s \in known /\ ~Alive(s) /\ s \in Sid
    BY <1>2 DEF DeletedIsGone, TypeOK
  <1>6. pc[t] = "delete_forget" =>
           /\ req[t].sid \in issued /\ req[t].sid \in Sid
           /\ ~Alive(req[t].sid)
           /\ ref[t] \in Obj /\ obj[ref[t]].cap /\ obj[ref[t]].sid = req[t].sid
    <2> SUFFICES ASSUME pc[t] = "delete_forget"
                 PROVE  /\ req[t].sid \in issued /\ req[t].sid \in Sid
                        /\ ~Alive(req[t].sid)
                        /\ ref[t] \in Obj /\ obj[ref[t]].cap
                        /\ obj[ref[t]].sid = req[t].sid
      OBVIOUS
    <2>1. req[t].sid \in Sid /\ ref[t] \in Obj
      BY NamedType DEF RegistryInv
    <2>2. obj[ref[t]].sid = req[t].sid
      BY <2>1, NoneAssumption DEF RegistryInv, ReferencesMatch
    <2>3. req[t].sid \in issued /\ obj[ref[t]].cap
      BY DEF LifecycleInv, DeleteIsAuthorised, Deleting
    <2>4. ~Alive(req[t].sid)
      BY DEF LifecycleInv, GoneStaysGone, Removing
    <2> QED BY <2>1, <2>2, <2>3, <2>4
  <1>7. DeletedIsGone'
    <2> SUFFICES ASSUME NEW s \in deleted'
                 PROVE  s \in issued' /\ server'[s] \notin Runs
      BY DEF DeletedIsGone, Alive
    <2>1. s \in issued /\ s \in known /\ ~Alive(s) /\ s \in Sid
      BY <1>1, <1>2, <1>5, <1>6 DEF SetsEffect
    <2>2. server'[s] \notin Runs
      BY <2>1, KnownStaysGone DEF Effect
    <2> QED BY <1>1, <2>1, <2>2 DEF SetsEffect
  <1>8. DeleteIsFinal'
    <2> SUFFICES ASSUME NEW s \in deleted', sessions'[s] # None
                 PROVE  obj'[sessions'[s]].status # "READY"
      BY DEF DeleteIsFinal
    <2>1. s \in issued /\ s \in known /\ ~Alive(s) /\ s \in Sid
      BY <1>1, <1>2, <1>5, <1>6 DEF SetsEffect
    <2>2. sessions[s] # None => obj[sessions[s]].status # "READY"
      <3>1. CASE s \in deleted
        BY <1>2, <3>1 DEF DeleteIsFinal
      <3>2. CASE pc[t] = "delete_forget" /\ s = req[t].sid
        <4>1. sessions'[s] # ref[t]
          BY <3>2 DEF Effect, DictEffect
        <4>2. sessions[s] # None => sessions'[s] = sessions[s]
          BY <2>1, RemovedIsGone
        <4> QED BY <1>2, <1>6, <3>2, <4>1, <4>2 DEF CapLeavesLast
      <3> QED BY <1>1, <3>1, <3>2 DEF SetsEffect
    <2>3. pc[t] = "create_status" => ref[t] # sessions[s]
      <3> SUFFICES ASSUME pc[t] = "create_status", ref[t] = sessions[s]
                   PROVE  FALSE
        OBVIOUS
      <3>1. ref[t] # None /\ req[t].sid \notin issued
        BY DEF RegistryInv, RequestsNamed, LifecycleInv, CapIssuedLast
      <3>2. req[t].sid = s
        BY <2>1, <3>1 DEF RegistryInv, ReferencesMatch
      <3> QED BY <2>1, <3>1, <3>2
    <2> QED BY <2>1, <2>2, <2>3, NeverReadyAgain
  <1> QED BY <1>4, <1>7, <1>8

\* Servers and who is responsible for them.
LEMMA StrayFrame ==
    ASSUME TypeOK, RegistryInv, LifecycleInv, NEW t \in Thread, Effect(t)
    PROVE  NoStraySession'
  <1> SUFFICES ASSUME NEW s \in Sid, server'[s] = "alive"
               PROVE  \/ sessions'[s] # None
                      \/ \E u \in Thread :
                            req'[u].sid = s /\ pc'[u] \in Creating
    BY DEF NoStraySession
  <1>1. \/ server[s] = "alive"
        \/ pc[t] = "create_launch" /\ s = req[t].sid
    BY DEF Effect, ServerEffect
  <1>2. \/ sessions[s] # None
        \/ \E u \in Thread : req[u].sid = s /\ pc[u] \in Creating
    BY <1>1 DEF LifecycleInv, NoStraySession
  <1>3. CASE sessions[s] # None
    BY <1>3, RemovedIsGone DEF LifecycleInv, WorkIsKnown
  <1>4. ASSUME NEW u \in Thread, req[u].sid = s, pc[u] \in Creating
        PROVE  \/ sessions'[s] # None
               \/ req'[u].sid = s /\ pc'[u] \in Creating
    <2>1. CASE u = t
      BY <1>4, <2>1 DEF Effect, CreateEffect
    <2>2. CASE u # t
      BY <1>4, <2>2 DEF Effect, OthersKept
    <2> QED BY <2>1, <2>2
  <1> QED BY <1>2, <1>3, <1>4

\* So it preserves all of it.
LEMMA LifecycleFrame ==
    ASSUME TypeOK, TypeOK', RegistryInv, RegistryInv', LifecycleInv,
           NEW t \in Thread, Effect(t)
    PROVE  LifecycleInv'
  BY ControlFrame, CapFrame, PlacesFrame, StrayFrame, FaultlessFrame
     DEF LifecycleInv

-----------------------------------------------------------------------------
(* The effect of the steps, by their form *)

\* Assigning a lock, an event or a claim keeps the rest.
LEMMA SameUpdates ==
    ASSUME TypeOK
    PROVE  /\ AllSame(obj)
           /\ \A o \in Obj : \A x :
                 /\ AllSame([obj EXCEPT ![o].lock = x])
                 /\ AllSame([obj EXCEPT ![o].ready = x])
                 /\ AllSame([obj EXCEPT ![o].claimed = x])
  <1>1. obj \in [Obj -> Session]
    BY DEF TypeOK
  <1>2. AllSame(obj)
    BY DEF AllSame, SameObj
  <1>3. ASSUME NEW o \in Obj, NEW x
        PROVE  /\ AllSame([obj EXCEPT ![o].lock = x])
               /\ AllSame([obj EXCEPT ![o].ready = x])
               /\ AllSame([obj EXCEPT ![o].claimed = x])
    BY <1>1 DEF AllSame, SameObj, Session
  <1> QED BY <1>2, <1>3

\* The dict as it was.
LEMMA DictSame ==
    ASSUME NEW t \in Thread, sessions' = sessions, pc[t] # "delete_forget"
    PROVE  DictEffect(t)
  BY DEF DictEffect

\* The objects as they were, but for one that only t can have referred to.
LEMMA ObjSame ==
    ASSUME NEW t \in Thread,
           \A o \in Obj : \/ SameObj(o, obj'[o])
                          \/ /\ \A u \in Thread \ {t} : ref[u] # o
                             /\ ~obj'[o].cap
                             /\ obj'[o].status = "RECONSTRUCTING"
    PROVE  ObjEffect(t)
  BY DEF ObjEffect, SameObj

\* Nothing published, issued or deleted.
LEMMA SetsSame ==
    ASSUME NEW t \in Thread,
           pc[t] \notin {"create_publish", "create_set", "delete_forget"},
           UNCHANGED <<known, issued, deleted, restarts>>
    PROVE  SetsEffect(t)
  BY DEF SetsEffect

\* The request is answered.
LEMMA FinishEffect ==
    ASSUME TypeOK, NEW t \in Thread, NEW fields,
           FinishWith(t, fields, sessions'), AllSame(fields),
           DictEffect(t), ServerEffect(t), SetsEffect(t),
           pc[t] \in Creating => server'[req[t].sid] # "alive"
    PROVE  Effect(t)
  <1>1. /\ OthersKept(t)
        /\ pc'[t] = "idle" /\ req'[t] = NoRequest
    BY DEF OthersKept, FinishWith, TypeOK
  <1>2. ObjEffect(t)
    <2>1. ASSUME NEW o \in Obj
          PROVE  \/ SameObj(o, obj'[o])
                 \/ /\ \A u \in Thread \ {t} : ref[u] # o
                    /\ ~obj'[o].cap
                    /\ obj'[o].status = "RECONSTRUCTING"
      BY DEF FinishWith, AllSame, Shared, Unused, NewSession
    <2> QED BY <2>1, ObjSame
  <1>3. OwnLife(t)
    BY <1>1
       DEF OwnLife, NoRequest, Removing, Deleting
  <1>4. CreateEffect(t)
    BY DEF CreateEffect
  <1> QED BY <1>1, <1>2, <1>3, <1>4 DEF Effect

\* The request goes on, past create.
LEMMA OwnMove ==
    ASSUME LifecycleInv, NEW t \in Thread,
           pc'[t] \in PC \ (NoWork \cup Creating),
           pc[t] \notin NoWork \cup Creating,
           req'[t] = req[t],
           SetsEffect(t),
           pc'[t] \in Removing => server'[req[t].sid] \notin Runs,
           pc'[t] \in Publishing =>
               pc[t] = "create_status" /\ obj'[ref'[t]].cap,
           pc'[t] \in Deleting => req[t].op = "delete",
           pc'[t] \in Deleting \cap TearingDown => obj'[ref'[t]].cap
    PROVE  OwnLife(t) /\ CreateEffect(t)
  <1>2. req[t].sid \in known' /\ issued \subseteq issued'
    BY DEF LifecycleInv, WorkIsKnown, SetsEffect
  <1>3. req[t].op \in {"turn", "delete"} => req[t].sid \in issued
    BY DEF LifecycleInv, DeleteIsAuthorised
  <1>4. CreateEffect(t)
    BY DEF CreateEffect
  <1> QED BY <1>2, <1>3, <1>4 DEF OwnLife

\* A step that only goes to another label, of lookup and turn.
Plain == PC \ (NoWork \cup Creating \cup Publishing \cup Removing \cup Deleting
               \cup {"forget"})

LEMMA MoveEffect ==
    ASSUME TypeOK, LifecycleInv, NEW t \in Thread, NEW l \in Plain, Goto(t, l),
           pc[t] \in Plain, req' = req,
           \A u \in Thread \ {t} : ref'[u] = ref[u],
           DictEffect(t), ObjEffect(t), server' = server,
           UNCHANGED <<known, issued, deleted, restarts>>
    PROVE  Effect(t)
  <1>1. OthersKept(t) /\ pc'[t] = l
    BY DEF OthersKept, Goto, TypeOK
  <1>2. SetsEffect(t)
    BY SetsSame DEF Plain, Removing, Deleting
  <1>3. ServerEffect(t)
    BY DEF ServerEffect
  <1>4. OwnLife(t) /\ CreateEffect(t)
    BY <1>1, <1>2, OwnMove DEF Plain
  <1> QED BY <1>1, <1>2, <1>3, <1>4 DEF Effect

\* Taking hold of an object, in fields that keep what counts of all objects but
\* perhaps that one.
LEMMA HoldObjects ==
    ASSUME NEW t \in Thread, NEW o \in Obj, NEW fields,
           HoldInstead(t, o, fields),
           \A p \in Obj : \/ SameObj(p, fields[p])
                          \/ /\ \A u \in Thread \ {t} : ref[u] # p
                             /\ ~fields[p].cap
                             /\ fields[p].status = "RECONSTRUCTING"
    PROVE  ObjEffect(t)
  <1>1. ASSUME NEW p \in Obj
        PROVE  \/ obj'[p] = fields[p]
               \/ /\ \A u \in Thread \ {t} : ref[u] # p
                  /\ ~obj'[p].cap
                  /\ obj'[p].status = "RECONSTRUCTING"
    BY DEF HoldInstead, Shared, Unused, NewSession
  <1>2. ASSUME NEW p \in Obj
        PROVE  \/ SameObj(p, obj'[p])
               \/ /\ \A u \in Thread \ {t} : ref[u] # p
                  /\ ~obj'[p].cap
                  /\ obj'[p].status = "RECONSTRUCTING"
    BY <1>1
  <1> QED BY <1>2, ObjSame

\* Create goes on, with its sid.
LEMMA CreateMove ==
    ASSUME TypeOK, LifecycleInv, NEW t \in Thread, NEW l \in Creating,
           Goto(t, l), pc[t] \in Creating \ {"create_publish"},
           UNCHANGED <<sessions, obj, req, ref, known, issued, deleted, restarts>>,
           ServerEffect(t)
    PROVE  Effect(t)
  <1>1. OthersKept(t) /\ pc'[t] = l
    BY DEF OthersKept, Goto, TypeOK
  <1>2. DictEffect(t) /\ ObjEffect(t) /\ SetsEffect(t)
    BY DictSame, ObjSame, SetsSame DEF SameObj
  <1>3. OwnLife(t)
    BY <1>1
       DEF OwnLife, LifecycleInv, DeleteIsAuthorised,
           Removing, Deleting
  <1>4. CreateEffect(t)
    BY <1>1 DEF CreateEffect
  <1> QED BY <1>1, <1>2, <1>3, <1>4 DEF Effect

\* Create ends: nothing is published and no server is left but for a cause.
LEMMA CreateFinish ==
    ASSUME TypeOK, NEW t \in Thread, FinishWith(t, obj, sessions),
           pc[t] \in {"create_check"} \cup (Creating \ {"create_publish"}),
           UNCHANGED <<sessions, known, issued, deleted, restarts>>,
           ServerEffect(t),
           pc[t] \in Creating => server'[req[t].sid] # "alive"
    PROVE  Effect(t)
  BY DictSame, SetsSame, SameUpdates, FinishEffect

-----------------------------------------------------------------------------
(* The effect, action by action *)

\* The steps of create.
LEMMA CreateLife ==
    ASSUME TypeOK, TypeOK', RegistryInv, LifecycleInv, NEW t \in Thread,
           Create(t)
    PROVE  Effect(t)
  <1>0. pc[t] \in Creating => req[t].sid \in Sid
    BY NamedType DEF RegistryInv
  <1>1. CASE CreateCheck(t)
    <2>1. pc[t] = "create_check" /\ UNCHANGED <<known, issued, deleted, restarts>>
      BY <1>1 DEF CreateCheck
    <2>2. CASE FinishWith(t, obj, sessions) /\ server' = server
      BY <1>1, <2>1, <2>2, CreateFinish DEF CreateCheck, ServerEffect
    <2>3. CASE ~OverCap
      <3>1. PICK s \in Sid : /\ server' = [server EXCEPT ![s] = "none"]
                            /\ req' = [req EXCEPT ![t].sid = s]
        BY <1>1, <2>3 DEF CreateCheck
      <3>2. /\ pc' = [pc EXCEPT ![t] = "create_launch"]
            /\ UNCHANGED <<sessions, obj, ref>>
        BY <1>1, <2>3 DEF CreateCheck, Goto
      <3>3. /\ pc'[t] = "create_launch"
            /\ req'[t].op = req[t].op
            /\ OthersKept(t)
        BY <3>1, <3>2 DEF OthersKept, TypeOK, Request
      <3>4. ServerEffect(t)
        BY <3>1 DEF ServerEffect, TypeOK
      <3>5. DictEffect(t) /\ ObjEffect(t) /\ SetsEffect(t)
        BY <2>1, <3>2, DictSame, ObjSame, SetsSame DEF SameObj
      <3>6. req[t].op = "create"
        BY <2>1 DEF LifecycleInv, DeleteIsAuthorised
      <3>7. OwnLife(t) /\ CreateEffect(t)
        BY <2>1, <2>3, <3>3, <3>6
           DEF OwnLife, CreateEffect, Removing, Deleting
      <3> QED BY <3>3, <3>4, <3>5, <3>7 DEF Effect
    <2> QED BY <1>1, <2>2, <2>3 DEF CreateCheck, Finish
  <1>2. CASE CreateLaunch(t)
    <2>1. /\ pc[t] = "create_launch"
          /\ UNCHANGED <<sessions, known, issued, deleted, restarts>>
          /\ ServerEffect(t)
      BY <1>0, <1>2 DEF CreateLaunch, ServerEffect, TypeOK
    <2>2. CASE FinishWith(t, obj, sessions) /\ server'[req[t].sid] # "alive"
      BY <2>1, <2>2, CreateFinish
    <2>3. CASE Goto(t, "create_arm") /\ UNCHANGED <<obj, req, ref>>
      BY <2>1, <2>3, CreateMove
    <2>4. \/ Goto(t, "create_arm") /\ UNCHANGED <<obj, req, ref>>
          \/ /\ FinishWith(t, obj, sessions)
             /\ server'[req[t].sid] # "alive"
      BY <1>0, <1>2 DEF CreateLaunch, Finish, TypeOK
    <2> QED BY <2>2, <2>3, <2>4
  <1>3. CASE CreateArm(t)
    <2>1. /\ pc[t] = "create_arm"
          /\ UNCHANGED <<sessions, known, issued, deleted, restarts>>
          /\ ServerEffect(t)
      BY <1>0, <1>3 DEF CreateArm, KillServer, Leave, Alive, ServerEffect, TypeOK
    <2>2. CASE FinishWith(t, obj, sessions)
               /\ server'[req[t].sid] # "alive"
      BY <2>1, <2>2, CreateFinish
    <2>3. CASE Goto(t, "create_await") /\ UNCHANGED <<obj, req, ref>>
      BY <2>1, <2>3, CreateMove
    <2>4. \/ Goto(t, "create_await") /\ UNCHANGED <<obj, req, ref>>
          \/ /\ FinishWith(t, obj, sessions)
             /\ server'[req[t].sid] # "alive"
      BY <1>0, <1>3 DEF CreateArm, KillServer, Leave, Alive, Finish, TypeOK
    <2> QED BY <2>2, <2>3, <2>4
  <1>4. CASE CreateAwaitReady(t)
    <2>1. /\ pc[t] = "create_await"
          /\ UNCHANGED <<sessions, known, issued, deleted, restarts>>
          /\ ServerEffect(t)
      BY <1>0, <1>4 DEF CreateAwaitReady, KillServer, Leave, Alive, ServerEffect,
             TypeOK
    <2>2. CASE FinishWith(t, obj, sessions)
               /\ server'[req[t].sid] # "alive"
      BY <2>1, <2>2, CreateFinish
    <2>3. CASE Goto(t, "create_publish") /\ UNCHANGED <<obj, req, ref>>
      BY <2>1, <2>3, CreateMove
    <2>4. \/ Goto(t, "create_publish") /\ UNCHANGED <<obj, req, ref>>
          \/ /\ FinishWith(t, obj, sessions)
             /\ server'[req[t].sid] # "alive"
      BY <1>0, <1>4 DEF CreateAwaitReady, KillServer, Leave, Alive, Finish, TypeOK
    <2> QED BY <2>2, <2>3, <2>4
  <1>5. CASE CreatePublish(t)
    <2> DEFINE s == req[t].sid
    <2>1. PICK o \in FreeObj :
             /\ obj' = [obj EXCEPT ![o] = NewSession(s, TRUE, FALSE)]
             /\ sessions' = [sessions EXCEPT ![s] = o]
             /\ ref' = [ref EXCEPT ![t] = o]
      BY <1>5 DEF CreatePublish
    <2>2. /\ o \in Obj /\ \A u \in Thread : ref[u] # o
          /\ s \in Sid
      BY <1>0, <1>5 DEF FreeObj, Unreferenced, CreatePublish
    <2>3. /\ pc[t] = "create_publish" /\ pc'[t] = "create_status"
          /\ req' = req /\ ref'[t] = o
          /\ OthersKept(t) /\ ServerEffect(t) /\ SetsEffect(t)
      BY <1>5, <2>1
         DEF CreatePublish, Goto, OthersKept, ServerEffect, SetsEffect, TypeOK
    <2>4. /\ \A p \in Obj : p # o => obj'[p] = obj[p]
          /\ obj'[o] = NewSession(s, TRUE, FALSE)
          /\ sessions'[s] = o
          /\ \A x \in Sid : x # s => sessions'[x] = sessions[x]
      BY <2>1, <2>2 DEF TypeOK
    <2>5. obj'[o].cap /\ obj'[o].sid = s /\ obj'[o].status # "READY"
      BY <2>4 DEF NewSession
    <2>6. DictEffect(t)
      BY <2>3, <2>4 DEF DictEffect
    <2>7. ObjEffect(t)
      BY <2>2, <2>3, <2>4, <2>5 DEF ObjEffect
    <2>8. CreateEffect(t)
      BY <2>2, <2>4, NoneAssumption DEF CreateEffect
    <2>9. req[t].op \in {"turn", "delete"} => s \in issued
      BY <2>3 DEF LifecycleInv, DeleteIsAuthorised
    <2>10. OwnLife(t)
      BY <2>3, <2>5, <2>9
         DEF OwnLife, SetsEffect, Removing, Deleting
    <2> QED BY <2>3, <2>6, <2>7, <2>8, <2>10 DEF Effect
  <1>6. CASE CreateStatus(t)
    <2>1. ref[t] \in Obj
      BY <1>6, NamedType DEF CreateStatus, RegistryInv
    <2>2. /\ pc[t] = "create_status" /\ pc'[t] = "create_set"
          /\ req' = req /\ ref' = ref /\ sessions' = sessions
          /\ OthersKept(t) /\ ServerEffect(t)
      BY <1>6 DEF CreateStatus, Goto, OthersKept, ServerEffect, TypeOK
    <2>3. SetsEffect(t) /\ DictEffect(t)
      BY <1>6, <2>2, SetsSame, DictSame DEF CreateStatus
    <2>4. \A o \in Obj : /\ obj'[o].cap = obj[o].cap
                         /\ obj'[o].sid = obj[o].sid
                         /\ o # ref[t] => obj'[o] = obj[o]
      BY <1>6, <2>1 DEF CreateStatus, TypeOK, Session
    <2>5. ObjEffect(t)
      BY <2>2, <2>4 DEF ObjEffect
    <2>6. obj[ref[t]].cap
      BY <2>2 DEF LifecycleInv, CapIssuedLast
    <2>7. OwnLife(t) /\ CreateEffect(t)
      BY <2>1, <2>2, <2>3, <2>4, <2>6, OwnMove
         DEF Removing, Deleting
    <2> QED BY <2>2, <2>3, <2>5, <2>7 DEF Effect
  <1>7. CASE CreateReturn(t)
    <2>1. ref[t] \in Obj
      BY <1>7, NamedType DEF CreateReturn, RegistryInv
    <2>2. /\ FinishWith(t, [obj EXCEPT ![ref[t]].ready = TRUE], sessions')
          /\ pc[t] = "create_set" /\ sessions' = sessions
          /\ SetsEffect(t) /\ ServerEffect(t)
      BY <1>7 DEF CreateReturn, Finish, SetsEffect, ServerEffect
    <2>3. DictEffect(t)
      BY <2>2, DictSame
    <2> QED BY <2>1, <2>2, <2>3, SameUpdates, FinishEffect
  <1> QED
    BY <1>1, <1>2, <1>3, <1>4, <1>5, <1>6, <1>7 DEF Create

\* The steps of _authz_session and get_or_reconstruct.
LEMMA AuthoriseLife ==
    ASSUME TypeOK, TypeOK', RegistryInv, LifecycleInv, NEW t \in Thread,
           Authorise(t)
    PROVE  Effect(t)
  <1> USE DEF Plain, Removing, Deleting
  <1>0. /\ AllSame(obj)
        /\ obj' = obj => ObjEffect(t)
        /\ sessions' = sessions /\ pc[t] # "delete_forget" => DictEffect(t)
    BY SameUpdates, ObjSame, DictSame DEF AllSame
  <1>1. CASE Peek(t)
    BY <1>0, <1>1, MoveEffect DEF Peek, TypeOK
  <1>2. CASE PeekStatus(t)
    BY <1>0, <1>2, MoveEffect DEF PeekStatus
  <1>3. CASE GetOrReconstruct(t)
    <2> DEFINE s == req[t].sid
               o == sessions[s]
    <2>1. /\ s \in Sid /\ pc[t] = "get" /\ req' = req /\ server' = server
          /\ UNCHANGED <<known, issued, deleted, restarts>>
      BY <1>3, NamedType DEF GetOrReconstruct, RegistryInv
    <2>2. CASE o = None
      <3>1. PICK p \in FreeObj :
               /\ sessions' = [sessions EXCEPT ![s] = p]
               /\ HoldInstead(t, p,
                    [obj EXCEPT ![p] = NewSession(s, FALSE, TRUE)])
               /\ Goto(t, "claimed")
        BY <1>3, <2>2 DEF GetOrReconstruct
      <3> DEFINE f == [obj EXCEPT ![p] = NewSession(s, FALSE, TRUE)]
      <3>2. p \in Obj /\ \A u \in Thread : ref[u] # p
        BY DEF FreeObj, Unreferenced
      <3>3. /\ ~f[p].cap /\ f[p].status = "RECONSTRUCTING"
            /\ \A q \in Obj \ {p} : f[q] = obj[q]
        BY <3>2 DEF TypeOK, NewSession
      <3>4. HoldInstead(t, p, f)
        BY <3>1
      <3>5. obj'[p] = f[p]
        BY <3>2, <3>4 DEF HoldInstead
      <3> HIDE DEF f
      <3>6. ObjEffect(t)
        BY <3>2, <3>3, <3>4, HoldObjects DEF SameObj
      <3>7. DictEffect(t)
        BY <2>1, <2>2, <3>1, <3>3, <3>5 DEF DictEffect, TypeOK
      <3>8. \A u \in Thread \ {t} : ref'[u] = ref[u]
        BY <3>4 DEF HoldInstead, TypeOK
      <3> QED BY <2>1, <3>1, <3>6, <3>7, <3>8, MoveEffect
    <2>3. CASE o # None
      <3>1. o \in Obj
        BY <2>1, <2>3 DEF TypeOK
      <3>2. PICK f : HoldInstead(t, o, f) /\ AllSame(f)
        BY <1>0, <1>3, <2>3, <3>1, SameUpdates DEF GetOrReconstruct
      <3>3. ObjEffect(t)
        BY <3>1, <3>2, HoldObjects DEF AllSame
      <3>4. \A u \in Thread \ {t} : ref'[u] = ref[u]
        BY <3>2 DEF HoldInstead, TypeOK
      <3>5. /\ sessions' = sessions
            /\ Goto(t, "claimed") \/ Goto(t, "loser")
        BY <1>3, <2>3 DEF GetOrReconstruct
      <3> QED BY <1>0, <2>1, <3>3, <3>4, <3>5, MoveEffect
    <2> QED BY <2>2, <2>3
  <1>4. CASE WinnerReads(t)
    BY <1>0, <1>4, MoveEffect DEF WinnerReads
  <1>5. CASE Hydrate(t)
    <2>1. ref[t] \in Obj /\ req[t].sid \in Sid
      BY <1>5, NamedType DEF Hydrate, RegistryInv
    <2>2. /\ pc[t] = "hydrate" /\ req' = req /\ server' = server
          /\ sessions' = sessions /\ ref' = ref
          /\ UNCHANGED <<known, issued, deleted, restarts>>
      BY <1>5 DEF Hydrate
    <2>3. CASE /\ Alive(req[t].sid) /\ Goto(t, "set_ready")
               /\ obj' = [obj EXCEPT ![ref[t]] = Hydrated(@)]
      <3>1. \A o \in Obj : /\ obj'[o].cap = obj[o].cap
                           /\ obj'[o].sid = obj[o].sid
                           /\ o # ref[t] => obj'[o] = obj[o]
        BY <2>1, <2>3 DEF Hydrated, TypeOK, Session
      <3>2. ObjEffect(t)
        BY <2>2, <2>3, <3>1 DEF ObjEffect
      <3> QED BY <1>0, <2>2, <2>3, <3>2, MoveEffect
    <2>4. CASE /\ Faults \/ ~Alive(req[t].sid)
               /\ Goto(t, "forget") /\ obj' = obj
      <3>1. OthersKept(t) /\ pc'[t] = "forget" /\ req'[t] = req[t]
        BY <2>2, <2>4 DEF OthersKept, Goto, TypeOK
      <3>2. DictEffect(t) /\ ObjEffect(t) /\ SetsEffect(t) /\ ServerEffect(t)
        BY <1>0, <2>2, <2>4, SetsSame DEF ServerEffect
      <3>3. OwnLife(t) /\ CreateEffect(t)
        BY <2>2, <2>4, <3>1, <3>2, OwnMove DEF Alive
      <3> QED BY <3>1, <3>2, <3>3 DEF Effect
    <2> QED BY <1>5, <2>3, <2>4 DEF Hydrate
  <1>6. CASE HydrateForget(t)
    <2>1. req[t].sid \in Sid /\ pc[t] = "forget"
      BY <1>6, NamedType DEF HydrateForget, RegistryInv
    <2>2. /\ OthersKept(t) /\ pc'[t] = "set_ready_raise" /\ req'[t] = req[t]
          /\ ObjEffect(t) /\ SetsEffect(t)
      BY <1>0, <1>6, <2>1, SetsSame DEF HydrateForget, OthersKept, Goto, TypeOK
    <2>3. ServerEffect(t)
      BY <1>6, <2>1 DEF HydrateForget, Leave, Alive, ServerEffect, TypeOK
    <2>4. sessions[req[t].sid] = ref[t] => server'[req[t].sid] # "alive"
      BY <1>6, <2>1 DEF HydrateForget, Leave, Alive, TypeOK
    <2>5. DictEffect(t)
      BY <1>6, <2>1, <2>4 DEF HydrateForget, Forgotten, DictEffect, TypeOK
    <2>6. OwnLife(t) /\ CreateEffect(t)
      BY <2>1, <2>2, OwnMove
    <2> QED BY <2>2, <2>3, <2>5, <2>6 DEF Effect
  <1>7. CASE SetReady(t)
    <2> DEFINE woken == [obj EXCEPT ![ref[t]].ready = TRUE]
    <2>1. /\ ref[t] \in Obj
          /\ pc[t] \in {"set_ready", "set_ready_raise"}
          /\ sessions' = sessions /\ server' = server
          /\ UNCHANGED <<known, issued, deleted, restarts>>
      BY <1>7, NamedType DEF SetReady, RegistryInv
    <2>2. AllSame(woken)
      BY <2>1, SameUpdates
    <2>3. DictEffect(t) /\ SetsEffect(t) /\ ServerEffect(t)
      BY <2>1, DictSame, SetsSame DEF ServerEffect
    <2> HIDE DEF woken
    <2>4. CASE FinishWith(t, woken, sessions)
      BY <2>1, <2>2, <2>3, <2>4, FinishEffect
    <2>5. CASE obj' = woken /\ Goto(t, "check_cap") /\ UNCHANGED <<req, ref>>
      BY <2>1, <2>2, <2>3, <2>5, ObjSame, MoveEffect DEF AllSame
    <2> QED BY <1>7, <2>4, <2>5 DEF SetReady, Finish, woken
  <1>8. CASE LoserReads(t)
    BY <1>0, <1>8, MoveEffect DEF LoserReads
  <1>9. CASE Woken(t)
    BY <1>0, <1>9, MoveEffect DEF Woken
  <1>10. CASE Recheck(t)
    <2>1. DictEffect(t) /\ SetsEffect(t) /\ ServerEffect(t)
      BY <1>10, DictSame, SetsSame DEF Recheck, ServerEffect
    <2>2. CASE FinishWith(t, obj, sessions)
      BY <1>0, <1>10, <2>1, <2>2, FinishEffect DEF Recheck
    <2>3. CASE Goto(t, "check_cap") /\ UNCHANGED <<obj, req, ref>>
      BY <1>0, <1>10, <2>1, <2>3, MoveEffect DEF Recheck
    <2> QED BY <1>10, <2>2, <2>3 DEF Recheck, Finish
  <1>11. CASE CheckCap(t)
    <2>1. /\ DictEffect(t) /\ SetsEffect(t) /\ ServerEffect(t)
          /\ pc[t] = "check_cap"
      BY <1>11, DictSame, SetsSame DEF CheckCap, ServerEffect
    <2>2. CASE FinishWith(t, obj, sessions)
      BY <1>0, <1>11, <2>1, <2>2, FinishEffect DEF CheckCap
    <2>3. CASE Goto(t, "acquire") /\ UNCHANGED <<obj, req, ref>>
      BY <1>0, <1>11, <2>1, <2>3, MoveEffect DEF CheckCap
    <2>4. CASE /\ req[t].op = "delete"
               /\ Goto(t, "delete_lookup") /\ UNCHANGED <<obj, req, ref>>
      <3>1. OthersKept(t) /\ pc'[t] = "delete_lookup" /\ req'[t] = req[t]
        BY <2>4 DEF OthersKept, Goto, TypeOK
      <3>2. OwnLife(t) /\ CreateEffect(t)
        BY <2>1, <2>4, <3>1, OwnMove
      <3> QED BY <1>0, <2>1, <2>4, <3>1, <3>2 DEF Effect
    <2> QED BY <1>11, <2>2, <2>3, <2>4 DEF CheckCap, Finish
  <1> QED
    BY <1>1, <1>2, <1>3, <1>4, <1>5, <1>6, <1>7, <1>8, <1>9, <1>10, <1>11
       DEF Authorise

\* The steps of the turn lock.
LEMMA TurnLife ==
    ASSUME TypeOK, TypeOK', RegistryInv, LifecycleInv, NEW t \in Thread,
           Turn(t)
    PROVE  Effect(t)
  <1>1. /\ ref[t] \in Obj
        /\ pc[t] \in {"acquire", "turn"}
        /\ sessions' = sessions /\ server' = server
        /\ UNCHANGED <<known, issued, deleted, restarts>>
    BY NamedType DEF Turn, Acquire, AcquireTimeout, Release, RegistryInv
  <1>2. DictEffect(t) /\ SetsEffect(t) /\ ServerEffect(t)
    BY <1>1, DictSame, SetsSame DEF ServerEffect
  <1>3. CASE Acquire(t)
    <2>1. AllSame(obj')
      BY <1>1, <1>3, SameUpdates DEF Acquire
    <2> QED
      BY <1>1, <1>2, <1>3, <2>1, ObjSame, MoveEffect
         DEF Acquire, AllSame, Plain, Removing, Deleting
  <1>4. CASE AcquireTimeout(t)
    BY <1>1, <1>2, <1>4, SameUpdates, FinishEffect DEF AcquireTimeout, Finish
  <1>5. CASE Release(t)
    BY <1>1, <1>2, <1>5, SameUpdates, FinishEffect DEF Release, Finish
  <1> QED BY <1>3, <1>4, <1>5 DEF Turn

\* The steps of delete.
LEMMA DeleteLife ==
    ASSUME TypeOK, TypeOK', RegistryInv, LifecycleInv, NEW t \in Thread,
           Delete(t)
    PROVE  Effect(t)
  <1> USE DEF Removing, Deleting
  <1>0. /\ AllSame(obj)
        /\ obj' = obj => ObjEffect(t)
        /\ sessions' = sessions /\ pc[t] # "delete_forget" => DictEffect(t)
        /\ server' = server => ServerEffect(t)
        /\ pc[t] \in Deleting => req[t].op = "delete"
    BY SameUpdates, ObjSame, DictSame
       DEF AllSame, ServerEffect, LifecycleInv, DeleteIsAuthorised
  <1>1. CASE DeleteLookup(t)
    <2> DEFINE o == sessions[req[t].sid]
    <2>1. /\ req[t].sid \in Sid /\ pc[t] = "delete_lookup"
          /\ sessions' = sessions /\ server' = server
          /\ UNCHANGED <<known, issued, deleted, restarts>>
      BY <1>1, NamedType DEF DeleteLookup, RegistryInv
    <2>2. DictEffect(t) /\ SetsEffect(t) /\ ServerEffect(t)
      BY <1>0, <2>1, SetsSame
    <2>3. CASE FinishWith(t, obj, sessions)
      BY <1>0, <2>1, <2>2, <2>3, FinishEffect
    <2>4. CASE /\ HoldInstead(t, o, obj) /\ o # None
               /\ Goto(t, "delete_check") /\ req' = req
      <3>1. o \in Obj
        BY <2>1, <2>4 DEF TypeOK
      <3>2. ObjEffect(t)
        BY <1>0, <2>4, <3>1, HoldObjects DEF AllSame
      <3>3. OthersKept(t) /\ pc'[t] = "delete_check"
        BY <2>4 DEF OthersKept, HoldInstead, Goto, TypeOK
      <3>4. OwnLife(t) /\ CreateEffect(t)
        BY <1>0, <2>1, <2>2, <2>4, <3>3, OwnMove
      <3> QED BY <2>2, <3>2, <3>3, <3>4 DEF Effect
    <2> QED BY <1>1, <2>3, <2>4 DEF DeleteLookup, Finish
  <1>2. CASE DeleteCheck(t)
    <2>1. /\ pc[t] = "delete_check"
          /\ DictEffect(t) /\ SetsEffect(t) /\ ServerEffect(t)
      BY <1>0, <1>2, SetsSame DEF DeleteCheck
    <2>2. CASE FinishWith(t, obj, sessions')
      BY <1>0, <2>1, <2>2, FinishEffect
    <2>3. CASE /\ obj[ref[t]].cap
               /\ Goto(t, "delete_kill") /\ UNCHANGED <<obj, req, ref>>
      <3>1. OthersKept(t) /\ pc'[t] = "delete_kill"
        BY <2>3 DEF OthersKept, Goto, TypeOK
      <3>2. OwnLife(t) /\ CreateEffect(t)
        BY <1>0, <2>1, <2>3, <3>1, OwnMove
      <3> QED BY <1>0, <2>1, <2>3, <3>1, <3>2 DEF Effect
    <2> QED BY <1>2, <2>2, <2>3 DEF DeleteCheck, Finish, CapMatches
  <1>3. CASE DeleteKill(t)
    <2>1. req[t].sid \in Sid
      BY <1>3, NamedType DEF DeleteKill, RegistryInv
    <2>2. /\ pc[t] = "delete_kill" /\ pc'[t] = "delete_rm"
          /\ OthersKept(t) /\ UNCHANGED <<sessions, obj, req, ref>>
          /\ SetsEffect(t)
      BY <1>3, SetsSame DEF DeleteKill, Goto, OthersKept, TypeOK
    <2>3. ServerEffect(t) /\ server'[req[t].sid] \notin Runs
      <3>1. PICK end \in {"dead", "orphan"} :
               server' = [server EXCEPT ![req[t].sid] =
                             IF Alive(req[t].sid) THEN end ELSE @]
        BY <1>3 DEF DeleteKill
      <3> QED BY <2>1, <3>1 DEF Alive, ServerEffect, TypeOK
    <2>4. obj[ref[t]].cap
      BY <2>2 DEF LifecycleInv, DeleteIsAuthorised
    <2>5. OwnLife(t) /\ CreateEffect(t)
      BY <1>0, <2>2, <2>3, <2>4, OwnMove
    <2> QED BY <1>0, <2>2, <2>3, <2>5 DEF Effect
  <1>4. CASE DeleteRm(t)
    <2>1. /\ pc[t] = "delete_rm" /\ pc'[t] = "delete_forget"
          /\ OthersKept(t) /\ UNCHANGED <<sessions, obj, req, ref, server>>
          /\ SetsEffect(t)
      BY <1>4, SetsSame DEF DeleteRm, Goto, OthersKept, TypeOK
    <2>2. /\ obj[ref[t]].cap
          /\ server[req[t].sid] \notin Runs
      BY <2>1 DEF LifecycleInv, DeleteIsAuthorised, GoneStaysGone, Alive
    <2>3. OwnLife(t) /\ CreateEffect(t)
      BY <1>0, <2>1, <2>2, OwnMove
    <2> QED BY <1>0, <2>1, <2>3 DEF Effect
  <1>5. CASE DeleteForget(t)
    <2>1. req[t].sid \in Sid /\ ref[t] \in Obj
      BY <1>5, NamedType DEF DeleteForget, RegistryInv
    <2>2. /\ pc[t] = "delete_forget" /\ FinishWith(t, obj, sessions')
          /\ SetsEffect(t) /\ ServerEffect(t)
      BY <1>0, <1>5 DEF DeleteForget, SetsEffect
    <2>3. DictEffect(t)
      BY <1>5, <2>1, <2>2, NoneAssumption
         DEF DeleteForget, Forgotten, DictEffect, TypeOK
    <2> QED BY <1>0, <2>2, <2>3, FinishEffect
  <1> QED BY <1>1, <1>2, <1>3, <1>4, <1>5 DEF Delete

\* The arrival of work and READY_TIMEOUT.
LEMMA BeginLife ==
    ASSUME TypeOK, TypeOK', RegistryInv, LifecycleInv, NEW t \in Thread,
           StartRequest(t) \/ WaitTimeout(t)
    PROVE  Effect(t)
  <1> USE DEF Removing, Deleting
  <1>1. /\ pc[t] \in {"idle", "wait"} /\ obj' = obj
        /\ UNCHANGED <<sessions, server, known, issued, deleted, restarts>>
    BY DEF StartRequest, WaitTimeout
  <1>2. /\ DictEffect(t) /\ ObjEffect(t) /\ SetsEffect(t) /\ ServerEffect(t)
        /\ CreateEffect(t)
    BY <1>1, DictSame, ObjSame, SetsSame DEF SameObj, ServerEffect, CreateEffect
  <1>3. CASE StartRequest(t)
    <2>1. OthersKept(t)
      BY <1>3 DEF StartRequest, OthersKept, Goto, TypeOK
    <2>3. CASE pc'[t] = "create_check" /\ req'[t].op = "create"
      BY <1>1, <1>2, <2>1, <2>3 DEF OwnLife, Effect
    <2>4. CASE /\ pc'[t] = "peek" /\ req'[t].sid \in known
               /\ req'[t].op # "read" => req'[t].sid \in issued
      BY <1>1, <1>2, <2>1, <2>4 DEF OwnLife, Effect
    <2>5. \/ pc'[t] = "create_check" /\ req'[t].op = "create"
          \/ /\ pc'[t] = "peek" /\ req'[t].sid \in known
             /\ req'[t].op # "read" => req'[t].sid \in issued
      BY <1>3 DEF StartRequest, Goto, TypeOK, NoRequest
    <2> QED BY <2>3, <2>4, <2>5
  <1>4. CASE WaitTimeout(t)
    BY <1>2, <1>4, MoveEffect DEF WaitTimeout, Plain
  <1> QED BY <1>3, <1>4

-----------------------------------------------------------------------------
(* The initial states, the environment and the conclusion *)

\* When no thread works and the dict is empty, only the history counts.
Idle ==
    /\ \A s \in Sid : sessions[s] = None
    /\ \A o \in Obj : ~obj[o].cap
    /\ \A t \in Thread : pc[t] = "idle" /\ req[t] = NoRequest
    /\ deleted \subseteq Sid /\ issued \subseteq known

IdleHolds ==
    /\ WorkIsKnown /\ GoneStaysGone /\ PlacesCounted
    /\ CapIssuedLast /\ DeleteIsAuthorised /\ CapLeavesLast /\ DeleteIsFinal

LEMMA IdleLife == Idle => IdleHolds
  <1> SUFFICES ASSUME Idle PROVE IdleHolds
    OBVIOUS
  <1> USE DEF Idle
  <1>1. GoneStaysGone /\ WorkIsKnown
    BY DEF GoneStaysGone, WorkIsKnown, Removing
  <1>2. PlacesCounted
    <2>1. Owned = {} /\ {t \in Thread : pc[t] \in Creating} = {}
      BY DEF Owned, Registered
    <2>2. Cardinality({}) = 0 /\ Cardinality(Thread) \in Nat
      BY FinitenessAssumption, FS_EmptySet, FS_CardinalityType
    <2> QED BY <2>1, <2>2, BoundsAssumption DEF PlacesCounted
  <1>3. CapIssuedLast /\ DeleteIsAuthorised
    BY DEF CapIssuedLast, DeleteIsAuthorised, NoRequest, Deleting
  <1>4. CapLeavesLast /\ DeleteIsFinal
    BY DEF CapLeavesLast, DeleteIsFinal
  <1> QED BY <1>1, <1>2, <1>3, <1>4 DEF IdleHolds

\* The initial states satisfy the invariant.
LEMMA InitLife == Init => LifecycleInv
  <1> SUFFICES ASSUME Init PROVE LifecycleInv
    OBVIOUS
  <1>1. IdleHolds
    BY IdleLife DEF Idle, Init, Unused, NewSession
  <1>2. DeletedIsGone /\ NoStraySession
    BY DEF Init, DeletedIsGone, NoStraySession
  <1> QED BY <1>1, <1>2 DEF IdleHolds, LifecycleInv

\* An exiting tmux server, a restart of the bridge and stuttering preserve it.
LEMMA EnvironmentLife ==
    ASSUME TypeOK, LifecycleInv,
           (\E s \in Sid : ServerExits(s)) \/ Restart \/ UNCHANGED vars
    PROVE  LifecycleInv'
  <1>1. CASE Restart
    <2>1. Idle'
      BY <1>1
         DEF Restart, Idle, Unused, NewSession, LifecycleInv, CapIssuedLast,
             TypeOK
    <2>2. IdleHolds'
      BY <2>1, IdleLife, PTL
    <2>3. ~Faults => DeletedIsGone'
      BY <1>1 DEF Restart, LifecycleInv, DeletedIsGone, TypeOK, Alive
    <2>4. NoStraySession'
      BY <1>1 DEF Restart, NoStraySession, TypeOK, Alive
    <2> QED BY <2>2, <2>3, <2>4 DEF IdleHolds, LifecycleInv
  <1>2. CASE \E s \in Sid : ServerExits(s)
    <2>1. /\ UNCHANGED <<sessions, obj, pc, req, ref, known, issued, deleted,
                         restarts>>
          /\ \A s \in Sid : server'[s] = "alive" => server[s] = "alive"
      BY <1>2 DEF ServerExits, TypeOK
    <2>2. \A s : Alive(s)' => Alive(s)
      BY <1>2 DEF ServerExits, Alive, TypeOK
    <2> QED
      BY <2>1, <2>2
         DEF LifecycleInv, WorkIsKnown, GoneStaysGone, PlacesCounted,
             Owned, Registered, CapIssuedLast, DeleteIsAuthorised, CapLeavesLast,
             DeletedIsGone, DeleteIsFinal, NoStraySession
  <1>3. CASE UNCHANGED vars
    BY <1>3
       DEF vars, LifecycleInv, WorkIsKnown, GoneStaysGone,
           PlacesCounted, Owned, Registered, CapIssuedLast, DeleteIsAuthorised,
           CapLeavesLast, DeletedIsGone, DeleteIsFinal, NoStraySession, Alive
  <1> QED BY <1>1, <1>2, <1>3

\* Every step of Next, and stuttering, preserves the invariant.
LEMMA NextLife ==
    TypeOK /\ RegistryInv /\ LifecycleInv /\ [Next]_vars => LifecycleInv'
  <1> SUFFICES ASSUME TypeOK, RegistryInv, LifecycleInv, [Next]_vars
               PROVE  LifecycleInv'
    OBVIOUS
  <1>1. TypeOK' /\ RegistryInv'
    BY NextInv
  <1>2. ASSUME NEW t \in Thread,
               Step(t) \/ StartRequest(t) \/ WaitTimeout(t)
        PROVE  Effect(t)
    BY <1>1, <1>2, CreateLife, AuthoriseLife, TurnLife, DeleteLife, BeginLife
       DEF Step
  <1>3. CASE \E t \in Thread :
                Step(t) \/ StartRequest(t) \/ WaitTimeout(t)
    BY <1>1, <1>2, <1>3, LifecycleFrame
  <1>4. CASE (\E s \in Sid : ServerExits(s)) \/ Restart \/ UNCHANGED vars
    BY <1>4, EnvironmentLife
  <1>5. AwaitConnection => UNCHANGED vars
    BY DEF AwaitConnection
  <1> QED BY <1>3, <1>4, <1>5 DEF Next

\* What the invariant says of the number of sessions.
LEMMA PlacesBound == LifecycleInv => OvershootBounded
  <1> SUFFICES ASSUME LifecycleInv PROVE OvershootBounded
    OBVIOUS
  <1> DEFINE Creators == {t \in Thread : pc[t] \in Creating}
  <1>1. IsFiniteSet(Thread) /\ IsFiniteSet(Sid)
    BY FinitenessAssumption
  <1>2. Owned \subseteq Sid /\ Creators \subseteq Thread
    BY DEF Owned, Registered
  <1>3. IsFiniteSet(Owned) /\ IsFiniteSet(Creators)
    BY <1>1, <1>2, FS_Subset
  <1>4. /\ Cardinality(Owned) \in Nat /\ Cardinality(Creators) \in Nat
        /\ Cardinality(Thread) \in Nat
    BY <1>1, <1>3, FS_CardinalityType
  <1>5. Cardinality(Owned) + Cardinality(Creators)
           <= MaxSessions - 1 + Cardinality(Thread)
    BY DEF LifecycleInv, PlacesCounted
  <1>6. Cardinality(Owned) <= MaxSessions - 1 + Cardinality(Thread)
    BY <1>4, <1>5, BoundsAssumption
  <1> QED BY <1>6 DEF OvershootBounded, Owned

-----------------------------------------------------------------------------
(* The theorems *)

\* What create, delete and a hydrate found out about a session still holds when
\* they act on it, however the threads and restarts interleave: a place that
\* create took is counted until its session is published, a cap is issued last,
\* an entry leaves the dict only after its server, or with the server given up
\* for a named cause, and (without tmux faults) a server seen gone stays gone.
THEOREM LifecycleInvariant == Spec => []LifecycleInv
  <1>1. TypeOK /\ RegistryInv /\ LifecycleInv /\ [Next]_vars => LifecycleInv'
    BY NextLife
  <1>2. Spec => []TypeOK /\ []RegistryInv
    BY TypeCorrect, RegistryInvariant
  <1>3. Spec => Init /\ [][Next]_vars
    BY DEF Spec
  <1> QED BY <1>1, <1>2, <1>3, InitLife, PTL

\* Concurrent creates exceed MAX_SESSIONS by at most the number of clients less
\* one, although the check and the insertion are two critical sections.
THEOREM OvershootHolds == Spec => []OvershootBounded
  <1> QED BY LifecycleInvariant, PlacesBound, PTL

\* Without tmux faults, a session that /session/delete reported as
\* deleted is never served again, by no request that raced with it and in no
\* later life of the bridge.
THEOREM DeletedNeverServed ==
    ASSUME ~Faults
    PROVE  Spec => []DeleteIsFinal
  <1>1. LifecycleInv => DeleteIsFinal
    BY DEF LifecycleInv
  <1> QED BY <1>1, LifecycleInvariant, PTL

\* Every live tmux server belongs to a registered session or to the create that
\* started it, but for those left by a cause that ServerState names: with tmux
\* faults and restarts, for any number of threads and sids.
THEOREM NoneLeftRunning == Spec => []NoStraySession
  <1>1. LifecycleInv => NoStraySession
    BY DEF LifecycleInv
  <1> QED BY <1>1, LifecycleInvariant, PTL

=============================================================================
