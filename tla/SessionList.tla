----------------------------- MODULE SessionList -----------------------------
(***************************************************************************)
(* GET /session/list (session_registry.list_sessions) and its brief cache, *)
(* beside what moves the registry meanwhile.                               *)
(*                                                                         *)
(* A list is computed without any lock after the copy of the dict, one row *)
(* and several tmux calls after the other, and stored when it is complete; *)
(* a delete clears the cache, also while a list is being computed.  The    *)
(* other requests are here only as what they do to the things a list reads *)
(* (SessionRegistry and TurnProtocol have them in full): objects are never *)
(* reused here, so that a row may be about one that left the dict.         *)
(***************************************************************************)
EXTENDS Naturals, FiniteSets

CONSTANTS
    Lister,      \* request threads that serve /session/list
    Sid,         \* session ids
    Obj,         \* identities of _Session objects; bounds the allocations
    None,        \* Python's None
    Faults,      \* TRUE iff a tmux call may fail for a transient reason
    MaxRestarts  \* bound on the number of bridge restarts

ASSUME ListNoneAssumption == None \notin Sid \cup Obj
ASSUME ListFaultsAssumption == Faults \in BOOLEAN
ASSUME ListBoundAssumption == MaxRestarts \in Nat

VARIABLES
    sessions,  \* _Registry._sessions: sid -> object, None when absent
    obj,       \* the fields of each _Session object that a list reads
    server,    \* per sid: "unminted", "alive" or "gone"
    flagged,   \* the sids whose tmux option @wcb_turn is set
    cache,     \* _list_cache; None when cleared or as old as LIST_CACHE_TTL
    pc,        \* where each lister is
    todo,      \* the objects of the lister's copy of the dict without a row
    current,   \* the object whose row the lister is working on
    alive,     \* what has-session said of it
    rows,      \* the rows so far
    deleted,   \* the sids for which /session/delete has returned
    restarts,  \* bridge restarts so far
    began,     \* what was deleted when the lister copied the dict
    held       \* which sids were busy ever since, for one and the same reason

listerVars == <<pc, todo, current, alive, rows, began>>
registryVars == <<sessions, obj, server, flagged, deleted, restarts>>
vars == <<registryVars, cache, listerVars, held>>

-----------------------------------------------------------------------------
Row == [state : {"busy", "reconstructing", "idle"}, alive : BOOLEAN]

ASSUME RowNoneAssumption == None \notin Row

\* The rows of a list, per sid; None for a sid without one.
NoRows == [s \in Sid |-> None]

\* A stored list, with the sids whose delete its computation straddled.
Stored == [rows : [Sid -> Row \cup {None}], straddled : SUBSET Sid]

\* Who still works on an object that entered the dict: create, which is about to
\* make it READY, or the winner of a lookup, which hydrates it.  The lock of an
\* object, and how far the stream that holds it is: before its try, in it, with
\* @wcb_turn set if that worked, or past the clearing of @wcb_turn.
Session == [sid : Sid \cup {None}, status : {"RECONSTRUCTING", "READY"},
            cap : BOOLEAN, makers : SUBSET {"create", "hydrate"},
            lock : {"free", "held", "staged", "cleared"}]

NewSession(s, maker) ==
    [sid |-> s, status |-> "RECONSTRUCTING", cap |-> (maker = "create"),
     makers |-> {maker}, lock |-> "free"]

Unused == [sid |-> None, status |-> "RECONSTRUCTING", cap |-> FALSE,
           makers |-> {}, lock |-> "free"]

Init ==
    /\ sessions = [s \in Sid |-> None]
    /\ obj = [o \in Obj |-> Unused]
    /\ server = [s \in Sid |-> "unminted"]
    /\ flagged = {}
    /\ cache = None
    /\ pc = [l \in Lister |-> "idle"]
    /\ todo = [l \in Lister |-> {}]
    /\ current = [l \in Lister |-> None]
    /\ alive = [l \in Lister |-> FALSE]
    /\ rows = [l \in Lister |-> NoRows]
    /\ deleted = {}
    /\ restarts = 0
    /\ began = [l \in Lister |-> {}]
    /\ held = [l \in Lister |-> {}]

Registered == {s \in Sid : sessions[s] # None}
FreeObj == {o \in Obj : obj[o].sid = None}
Alive(s) == server[s] = "alive"

\* Is the session that the dict has for s busy by its lock, or by the durable
\* flag?
Busy(s, reason) ==
    /\ sessions[s] # None /\ obj[sessions[s]].status = "READY"
    /\ \/ reason = "lock" /\ obj[sessions[s]].lock # "free"
       \/ reason = "flag" /\ s \in flagged

Reason == {"lock", "flag"}

-----------------------------------------------------------------------------
(* What moves the registry *)

\* An object enters the dict: of a create, whose server runs, or the placeholder
\* of a request that names a session that the dict does not have.
Insert(s) ==
    /\ sessions[s] = None
    /\ \E o \in FreeObj :
          /\ o = CHOOSE p \in FreeObj : TRUE
          /\ sessions' = [sessions EXCEPT ![s] = o]
          /\ obj' = [obj EXCEPT ![o] = NewSession(s,
                        IF server[s] = "unminted" THEN "create" ELSE "hydrate")]
    /\ server' = [server EXCEPT ![s] = IF @ = "unminted" THEN "alive" ELSE @]
    /\ UNCHANGED <<flagged, deleted, restarts, cache, listerVars>>

\* A lookup takes it upon itself to hydrate the object that create published.
Claim(o) ==
    /\ sessions[obj[o].sid] = o
    /\ obj[o].status = "RECONSTRUCTING" /\ "hydrate" \notin obj[o].makers
    /\ obj' = [obj EXCEPT ![o].makers = @ \cup {"hydrate"}]
    /\ UNCHANGED <<sessions, server, flagged, deleted, restarts, cache,
                   listerVars>>

\* The dict without o, if that is what it has for its session.
Without(o) ==
    IF sessions[obj[o].sid] = o
    THEN [sessions EXCEPT ![obj[o].sid] = None] ELSE sessions

\* create makes its object READY.  A hydrate does, or it fails and removes the
\* entry, even if create has made the object READY meanwhile; a winner that finds
\* it READY does not begin.  None of them looks at the cache.
Complete(o) ==
    /\ \/ /\ "create" \in obj[o].makers
          /\ obj' = [obj EXCEPT ![o].status = "READY",
                                ![o].makers = @ \ {"create"}]
          /\ UNCHANGED sessions
       \/ /\ "hydrate" \in obj[o].makers
          /\ Alive(obj[o].sid) \/ obj[o].status = "READY"
          /\ obj' = [obj EXCEPT ![o].status = "READY",
                                ![o].makers = @ \ {"hydrate"}]
          /\ UNCHANGED sessions
       \/ /\ "hydrate" \in obj[o].makers
          /\ Faults \/ ~Alive(obj[o].sid)
          /\ obj' = [obj EXCEPT ![o].makers = @ \ {"hydrate"}]
          /\ sessions' = Without(o)
    /\ UNCHANGED <<server, flagged, deleted, restarts, cache, listerVars>>

\* A request with the cap takes the lock of an object that it looked up, even if
\* the object has left the dict since.
TurnLocks(o) ==
    /\ obj[o].status = "READY" /\ obj[o].cap /\ obj[o].lock = "free"
    /\ obj' = [obj EXCEPT ![o].lock = "held"]
    /\ UNCHANGED <<sessions, server, flagged, deleted, restarts, cache,
                   listerVars>>

\* A stream stages its turn, and sets @wcb_turn unless something raises first.
TurnStages(o) ==
    /\ obj[o].lock = "held"
    /\ obj' = [obj EXCEPT ![o].lock = "staged"]
    /\ \/ Alive(obj[o].sid) /\ flagged' = flagged \cup {obj[o].sid}
       \/ UNCHANGED flagged
    /\ UNCHANGED <<sessions, server, deleted, restarts, cache, listerVars>>

\* Its finally clause clears @wcb_turn, unless that call fails.
TurnClears(o) ==
    /\ obj[o].lock = "staged"
    /\ obj' = [obj EXCEPT ![o].lock = "cleared"]
    /\ \/ flagged' = flagged \ {obj[o].sid}
       \/ Faults /\ UNCHANGED flagged
    /\ UNCHANGED <<sessions, server, deleted, restarts, cache, listerVars>>

\* Later, when the last event is written, the lock is released; send-key, replay
\* and a stream whose headers could not be sent release it without all that.
TurnReleases(o) ==
    /\ obj[o].lock \in {"held", "cleared"}
    /\ obj' = [obj EXCEPT ![o].lock = "free"]
    /\ UNCHANGED <<sessions, server, flagged, deleted, restarts, cache,
                   listerVars>>

\* The tmux server of s goes: its shell exits, or delete kills it,
\* which leaves the object in the dict until Forget.  Its options go too.
ServerExits(s) ==
    /\ Alive(s)
    /\ server' = [server EXCEPT ![s] = "gone"]
    /\ flagged' = flagged \ {s}
    /\ UNCHANGED <<sessions, obj, deleted, restarts, cache, listerVars>>

\* Mutant: the cache is left as it is.
ForgetKeepsCache(o) ==
    /\ obj[o].status = "READY" /\ obj[o].cap
    /\ server[obj[o].sid] = "gone"
    /\ sessions' = Without(o)
    /\ deleted' = deleted \cup {obj[o].sid}
    /\ UNCHANGED <<obj, server, flagged, restarts, cache, listerVars>>

\* A delete of o ends: the entry goes if it still is o, the cache is cleared, and
\* delete answers.  (A kill-server that times out leaves an unreachable server,
\* which is "gone" for every tmux call.)
Forget(o) ==
    /\ obj[o].status = "READY" /\ obj[o].cap
    /\ server[obj[o].sid] = "gone"
    /\ sessions' = Without(o)
    /\ deleted' = deleted \cup {obj[o].sid}
    /\ cache' = None
    /\ UNCHANGED <<obj, server, flagged, restarts, listerVars>>

\* The bridge stops, at any point, and starts again: dict and cache are empty,
\* servers and flags are as they were.
Restart ==
    /\ restarts < MaxRestarts
    /\ restarts' = restarts + 1
    /\ sessions' = [s \in Sid |-> None]
    /\ obj' = [o \in Obj |-> Unused]
    /\ cache' = None
    /\ pc' = [l \in Lister |-> "idle"]
    /\ todo' = [l \in Lister |-> {}]
    /\ current' = [l \in Lister |-> None]
    /\ alive' = [l \in Lister |-> FALSE]
    /\ rows' = [l \in Lister |-> NoRows]
    /\ began' = [l \in Lister |-> {}]
    /\ UNCHANGED <<server, flagged, deleted>>

\* Mutant: the age is never found to reach LIST_CACHE_TTL.
CacheStays == cache # None /\ UNCHANGED <<registryVars, cache, listerVars>>

\* LIST_CACHE_TTL elapses.
CacheAges ==
    /\ cache # None
    /\ cache' = None
    /\ UNCHANGED <<registryVars, listerVars>>

-----------------------------------------------------------------------------
(* list_sessions *)

Goto(l, label) == pc' = [pc EXCEPT ![l] = label]

\* A list that the cache does not serve copies the dict, under the lock.
ListStart(l) ==
    /\ pc[l] = "idle"
    /\ cache = None
    /\ todo' = [todo EXCEPT ![l] = {sessions[s] : s \in Registered}]
    /\ began' = [began EXCEPT ![l] = deleted]
    /\ Goto(l, "rows")
    /\ UNCHANGED <<registryVars, cache, current, alive, rows>>

\* What has-session may make of an object: any exception counts as "not alive".
Probe(o) == {Alive(obj[o].sid)} \cup IF Faults THEN {FALSE} ELSE {}

RowProbe(l) ==
    /\ pc[l] = "rows"
    /\ \E o \in todo[l] :
          /\ todo' = [todo EXCEPT ![l] = @ \ {o}]
          /\ current' = [current EXCEPT ![l] = o]
          /\ \E a \in Probe(o) : alive' = [alive EXCEPT ![l] = a]
    /\ Goto(l, "lock")
    /\ UNCHANGED <<registryVars, cache, rows, began>>

\* The row of the current object is complete.
AddRow(l, state) ==
    /\ rows' = [rows EXCEPT ![l][obj[current[l]].sid] =
                   [state |-> state, alive |-> alive[l]]]
    /\ current' = [current EXCEPT ![l] = None]
    /\ alive' = [alive EXCEPT ![l] = FALSE]
    /\ Goto(l, "rows")

\* A tmux call of a row raises, and with it the list: 502.
FailAtRow(l) ==
    /\ Goto(l, "failed")
    /\ UNCHANGED <<current, alive, rows>>

\* Mutant: the status is listed as it is.
RowLockRaw(l) ==
    /\ pc[l] = "lock"
    /\ \/ obj[current[l]].lock # "free" /\ AddRow(l, "busy")
       \/ obj[current[l]].lock = "free" /\ AddRow(l, obj[current[l]].status)
    /\ UNCHANGED <<registryVars, cache, todo, began>>

\* The turn lock, then the status, decide without tmux.
RowLock(l) ==
    LET o == obj[current[l]] IN
    /\ pc[l] = "lock"
    /\ \/ o.lock # "free" /\ AddRow(l, "busy")
       \/ /\ o.lock = "free" /\ o.status = "RECONSTRUCTING"
          /\ AddRow(l, "reconstructing")
       \/ /\ o.lock = "free" /\ o.status = "READY"
          /\ Goto(l, "relock")
          /\ UNCHANGED <<current, alive, rows>>
    /\ UNCHANGED <<registryVars, cache, todo, began>>

\* is_busy asks for the lock once more ...
RowRelock(l) ==
    LET o == obj[current[l]] IN
    /\ pc[l] = "relock"
    /\ \/ o.lock # "free" /\ AddRow(l, "busy")
       \/ /\ o.lock = "free"
          /\ Goto(l, "flag")
          /\ UNCHANGED <<current, alive, rows>>
    /\ UNCHANGED <<registryVars, cache, todo, began>>

\* Mutant: the durable flag is not asked for.
RowFlagIgnored(l) ==
    /\ pc[l] = "flag"
    /\ Goto(l, "screen")
    /\ UNCHANGED <<registryVars, cache, todo, began, current, alive, rows>>

\* ... then, with a tmux call, for @wcb_turn, which a gone server and an unset
\* option both leave None.  (So does a tmux that cannot be run, but then the
\* screen cannot be had either.)
RowFlag(l) ==
    LET set == obj[current[l]].sid \in flagged IN
    /\ pc[l] = "flag"
    /\ \/ set /\ AddRow(l, "busy")
       \/ ~set /\ Goto(l, "screen") /\ UNCHANGED <<current, alive, rows>>
       \/ Faults /\ FailAtRow(l)
    /\ UNCHANGED <<registryVars, cache, todo, began>>

\* Mutant: a pane that cannot be captured is idle.
RowScreenForgives(l) ==
    /\ pc[l] = "screen"
    /\ AddRow(l, "idle")
    /\ UNCHANGED <<registryVars, cache, todo, began>>

\* is_busy ends with the screen, whatever it shows; a capture of a server that
\* is gone raises.
RowScreen(l) ==
    LET live == Alive(obj[current[l]].sid) IN
    /\ pc[l] = "screen"
    /\ \/ live /\ \E state \in {"busy", "idle"} : AddRow(l, state)
       \/ (Faults \/ ~live) /\ FailAtRow(l)
    /\ UNCHANGED <<registryVars, cache, todo, began>>

\* The rows are stored, dated now, and answered.
ListEnd(l) ==
    /\ pc[l] = "rows" /\ todo[l] = {}
    /\ cache' = [rows |-> rows[l], straddled |-> deleted \ began[l]]
    /\ Goto(l, "answered")
    /\ UNCHANGED <<registryVars, todo, current, alive, rows, began>>

\* The response is out.
ListDone(l) ==
    /\ pc[l] \in {"answered", "failed"}
    /\ Goto(l, "idle")
    /\ todo' = [todo EXCEPT ![l] = {}]
    /\ current' = [current EXCEPT ![l] = None]
    /\ alive' = [alive EXCEPT ![l] = FALSE]
    /\ rows' = [rows EXCEPT ![l] = NoRows]
    /\ began' = [began EXCEPT ![l] = {}]
    /\ UNCHANGED <<registryVars, cache>>

\* A list that the cache serves changes nothing; neither does waiting.
Rest == /\ \A l \in Lister : pc[l] = "idle"
        /\ UNCHANGED <<registryVars, cache, listerVars>>

-----------------------------------------------------------------------------
ComputeRow(l) ==
    RowProbe(l) \/ RowLock(l) \/ RowRelock(l) \/ RowFlag(l) \/ RowScreen(l)

\* What a lister that has begun does next.
Step(l) == ComputeRow(l) \/ ListEnd(l) \/ ListDone(l)

\* History: which sids have been busy since the copy, by which reason all along.
Watch ==
    held' = [l \in Lister |->
                IF pc'[l] = "idle" THEN {}
                ELSE {h \in Sid \X Reason :
                         /\ Busy(h[1], h[2])'
                         /\ pc[l] = "idle" \/ h \in held[l]}]

Turn(o) == TurnLocks(o) \/ TurnStages(o) \/ TurnClears(o) \/ TurnReleases(o)

Next ==
    /\ \/ \E s \in Sid : Insert(s) \/ ServerExits(s)
       \/ \E o \in Obj : obj[o].sid # None /\ (\/ Claim(o) \/ Complete(o)
                                               \/ Turn(o) \/ Forget(o))
       \/ \E l \in Lister : ListStart(l) \/ Step(l)
       \/ Restart \/ CacheAges \/ Rest
    /\ Watch

Spec == Init /\ [][Next]_vars

\* A request is scheduled, each of its tmux calls returns or times out, and time
\* passes.  Nothing is assumed of anything else.
FairSpec ==
    /\ Spec
    /\ \A l \in Lister : WF_vars(Step(l) /\ Watch)
    /\ WF_vars(CacheAges /\ Watch)

-----------------------------------------------------------------------------
(* Properties *)

TypeOK ==
    /\ sessions \in [Sid -> Obj \cup {None}]
    /\ obj \in [Obj -> Session]
    /\ server \in [Sid -> {"unminted", "alive", "gone"}]
    /\ flagged \subseteq Sid
    /\ cache \in Stored \cup {None}
    /\ pc \in [Lister -> {"idle", "rows", "lock", "relock", "flag", "screen",
                          "answered", "failed"}]
    /\ todo \in [Lister -> SUBSET Obj]
    /\ current \in [Lister -> Obj \cup {None}]
    /\ alive \in [Lister -> BOOLEAN]
    /\ rows \in [Lister -> [Sid -> Row \cup {None}]]
    /\ deleted \subseteq Sid
    /\ restarts \in 0..MaxRestarts
    /\ began \in [Lister -> SUBSET Sid]
    /\ held \in [Lister -> SUBSET (Sid \X Reason)]

\* The sids that rows r show as sessions, not as placeholders of a lookup.
Shown(r) == {s \in Sid : r[s] # None /\ r[s].state # "reconstructing"}

\* A cached list shows a deleted session only if its computation straddled the
\* delete: it had copied the dict before, and was stored after the delete
\* cleared the cache.  No list that was complete before the delete, and none
\* that began after it, does.
GhostStraddlesDelete ==
    cache # None => Shown(cache.rows) \cap deleted \subseteq cache.straddled

\* A session with a turn in progress, or with one that a restart cut off, is
\* never listed idle: if its lock was held, or its flag was set, at every moment
\* of the computation, its row says so.  (Not so for one that is busy by its flag
\* first and by its lock then: is_busy may look for each when only the other is
\* there.)
BusyThroughoutIsListed ==
    \A l \in Lister : pc[l] = "answered" =>
        \A h \in held[l] : rows[l][h[1]] # None /\ rows[l][h[1]].state = "busy"

\* What list_sessions says with `alive = False`, and its test of a dead session
\* expects: a session that has-session did not find is listed as such, and is not
\* what the whole list fails over.
GoneSessionIsListed == \A l \in Lister : pc[l] = "failed" => alive[l]

\* The inductive invariant behind the first two.  The objects of the dict, and
\* those that a list works on, are of sids that were minted; only a READY object
\* with the cap is locked, a session has one such, and a flag needs a server (a).
\* A sid that was deleted stays gone, and comes back without a cap (b).
RegistryAgrees ==                                                       \* (a)
    /\ \A s \in Sid : sessions[s] # None => obj[sessions[s]].sid = s
    /\ \A o \in Obj :
          /\ obj[o].sid # None => server[obj[o].sid] # "unminted"
          /\ obj[o].status = "READY" \/ obj[o].cap => obj[o].sid # None
          /\ obj[o].lock # "free" => obj[o].status = "READY" /\ obj[o].cap
    /\ \A o, p \in Obj :
          obj[o].cap /\ obj[p].cap /\ obj[o].sid = obj[p].sid => o = p
    /\ \A s \in flagged : Alive(s)

DeletedIsGone ==                                                        \* (b)
    \A s \in deleted :
        server[s] = "gone" /\ (sessions[s] # None => ~obj[sessions[s]].cap)

\* What lister l still has to list, and has in hand: an object per sid, and none
\* of a sid that has its row (c).  What was deleted before l began is not there,
\* except as an object without the cap (d).
InHand == {"lock", "relock", "flag", "screen", "failed"}
Working(l) == IF pc[l] \in InHand THEN {current[l]} ELSE {}
Pending(l) == todo[l] \cup Working(l)

CopyIsKept(l) ==                                                        \* (c)
    /\ pc[l] \in InHand => current[l] \in Obj \ todo[l]
    /\ pc[l] \in {"relock", "flag", "screen"} =>
          obj[current[l]].status = "READY"
    /\ pc[l] = "idle" => rows[l] = NoRows
    /\ pc[l] = "answered" => todo[l] = {}
    /\ \A o \in Pending(l) : obj[o].sid # None /\ rows[l][obj[o].sid] = None
    /\ \A o, p \in Pending(l) : obj[o].sid = obj[p].sid => o = p

BeganWithoutDeleted(l) ==                                               \* (d)
    /\ began[l] \subseteq deleted
    /\ Shown(rows[l]) \cap began[l] = {}
    /\ \A o \in Pending(l) : obj[o].sid \in began[l] => ~obj[o].cap

\* A session that has been busy throughout is yet to be listed, or was listed
\* busy (e).
HeldIsBusy(l) ==                                                        \* (e)
    pc[l] # "idle" => \A s \in Sid, reason \in Reason :
        <<s, reason>> \in held[l] =>
            /\ Busy(s, reason)
            /\ \/ sessions[s] \in todo[l]
               \/ /\ current[l] = sessions[s]
                  /\ \/ pc[l] \in {"lock", "failed"}
                     \/ pc[l] \in {"relock", "flag"} /\ reason = "flag"
               \/ rows[l][s] # None /\ rows[l][s].state = "busy"

\* Its conjunction: whatever moves the registry while a list is computed, the
\* rows that it has and those that it will add are no older than its copy of the
\* dict.
ListInv ==
    /\ RegistryAgrees /\ DeletedIsGone /\ GhostStraddlesDelete
    /\ \A l \in Lister : /\ CopyIsKept(l) /\ BeganWithoutDeleted(l)
                         /\ HeldIsBusy(l)

\* Would a list that begins now show s as a session, out of the cache?
Served(s) == cache # None /\ s \in Shown(cache.rows)

\* A deleted session vanishes: a stale list that was stored after the delete is
\* served for one LIST_CACHE_TTL, and then none ever is again.
DeletedVanishes == \A s \in Sid : s \in deleted ~> []~Served(s)
=============================================================================
