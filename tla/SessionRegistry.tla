--------------------------- MODULE SessionRegistry ---------------------------
(***************************************************************************)
(* The session registry of the bridge (src/session_registry.py, _Registry) *)
(* driven by the request threads of the HTTP server                        *)
(* (src/session_endpoints.py).  Its reap() is not here: nothing calls it.  *)
(*                                                                         *)
(* The registry maps a session id to a _Session object.  The structural    *)
(* lock `_lock` only covers single dict operations, so each of those is    *)
(* one action; everything between two of them (tmux calls, status writes,  *)
(* Event.set, the turn lock) is interleaved with every other thread.       *)
(* Objects have an identity of their own: a request may hold an object     *)
(* that the dict no longer maps to, and the code's `is s` tests depend on  *)
(* that.  What a turn does while it holds the lock is in TurnProtocol.     *)
(***************************************************************************)
EXTENDS Integers, FiniteSets

CONSTANTS
    Thread,        \* request threads of the HTTP server
    Sid,           \* session ids that mint_session_id may return
    Obj,           \* identities of _Session objects: with |Sid| + |Thread| of
                   \* them an allocation always finds one
    None,          \* Python's None
    Ops,           \* the request kinds the clients of this instance use
    Faults,        \* TRUE iff a tmux call may fail: for a transient reason, or
                   \* because the tmux binary or the socket cannot be found
    MaxSessions,   \* MAX_SESSIONS
    MaxRestarts    \* bound on the number of bridge restarts

AllOps == {"create", "turn", "read", "delete"}

ASSUME NoneAssumption == None \notin Thread \cup Sid \cup Obj
ASSUME OpsAssumption == Ops \subseteq AllOps
ASSUME FaultsAssumption == Faults \in BOOLEAN
ASSUME BoundsAssumption ==
    /\ MaxSessions \in Nat \ {0}
    /\ MaxRestarts \in Nat
ASSUME FinitenessAssumption == IsFiniteSet(Thread) /\ IsFiniteSet(Sid)

VARIABLES
    sessions,  \* _Registry._sessions: sid -> object, None when absent
    obj,       \* the fields of each _Session object
    pc,        \* where each thread is
    req,       \* the request each thread serves: operation and sid
    ref,       \* the _Session each thread holds in its local variable
    server,    \* per sid, the tmux server on socket wcb_<sid>
    dir,       \* the sids whose rendezvous directory exists
    known,     \* the sids clients may name: published by /session/list or create
    issued,    \* the sids whose cap a client holds
    deleted,   \* the sids for which /session/delete returned ok
    restarts   \* bridge restarts so far

vars == <<sessions, obj, pc, req, ref, server, dir, known, issued, deleted,
          restarts>>

-----------------------------------------------------------------------------
(* State *)

\* _Session.__init__; `cap` is TRUE when the object holds the session's cap.
NewSession(s, cap, claimed) ==
    [sid |-> s, cap |-> cap, status |-> "RECONSTRUCTING", ready |-> FALSE,
     claimed |-> claimed, lock |-> None]

\* An object that nothing refers to; Python has reclaimed it.
Unused == NewSession(None, FALSE, FALSE)

Session == [sid : Sid \cup {None}, cap : BOOLEAN,
            status : {"RECONSTRUCTING", "READY"}, ready : BOOLEAN,
            claimed : BOOLEAN, lock : Thread \cup {None}]

\* The tmux server of a sid.  "left" is a server that runs, and that something
\* which the code does not undo has left running: an exception in create before
\* its try, a kill-server or a hydrate that failed, or the end of the bridge.
\* "orphan" is one whose kill failed and whose socket was unlinked all the same,
\* so that no tmux call reaches it any more.
ServerState == {"unminted", "none", "alive", "left", "dead", "orphan"}

Creating == {"create_launch", "create_arm", "create_await", "create_publish"}
Publishing == {"create_status", "create_set"}
Hydrating == {"hydrate", "forget", "set_ready", "set_ready_raise"}
TearingDown == {"delete_kill", "delete_rm", "delete_forget"}
PC == Creating \cup Publishing \cup Hydrating \cup TearingDown \cup
      {"idle", "create_check", "peek", "peek_status", "get", "claimed",
       "loser", "wait", "recheck", "check_cap", "acquire", "turn",
       "delete_lookup", "delete_check"}

NoRequest == [op |-> "none", sid |-> None]
Request == [op : AllOps \cup {"none"}, sid : Sid \cup {None}]

Init ==
    /\ sessions = [s \in Sid |-> None]
    /\ obj = [o \in Obj |-> Unused]
    /\ pc = [t \in Thread |-> "idle"]
    /\ req = [t \in Thread |-> NoRequest]
    /\ ref = [t \in Thread |-> None]
    /\ server = [s \in Sid |-> "unminted"]
    /\ dir = {}
    /\ known = {}
    /\ issued = {}
    /\ deleted = {}
    /\ restarts = 0

\* The number of entries of the dict.
Registered == {s \in Sid : sessions[s] # None}

\* Objects that neither the dict nor a thread refers to.
Unreferenced == {o \in Obj : /\ \A s \in Sid : sessions[s] # o
                             /\ \A t \in Thread : ref[t] # o}

\* The object that an allocation gets, as a set: an identity is only ever
\* compared with others, so it does not matter which one it is.
FreeObj == {o \in Unreferenced : o = CHOOSE p \in Unreferenced : TRUE}

\* Is o still referred to, by the dict or a thread, without t's own reference?
Shared(t, o, dict) == \/ \E s \in Sid : dict[s] = o
                      \/ \E u \in Thread \ {t} : ref[u] = o

\* The request is answered (normally or by an exception that the dispatcher
\* maps to a status): the thread forgets it, and its object is reclaimed
\* unless something else refers to it.  `fields` and `dict` are the objects'
\* fields and the dict after the step.
FinishWith(t, fields, dict) ==
    /\ pc' = [pc EXCEPT ![t] = "idle"]
    /\ req' = [req EXCEPT ![t] = NoRequest]
    /\ ref' = [ref EXCEPT ![t] = None]
    /\ obj' = [o \in Obj |-> IF o = ref[t] /\ ~Shared(t, o, dict) THEN Unused
                             ELSE fields[o]]

Finish(t, fields) == FinishWith(t, fields, sessions)

Goto(t, label) == pc' = [pc EXCEPT ![t] = label]

\* tmux reaches the server.  Then has-session says so, unless it fails; an answer
\* "gone" that is wrong, because there is no tmux binary or the socket was lost,
\* is a failure like any other to each of its callers here.
Alive(s) == server[s] \in {"alive", "left"}

\* The server of s runs on although the code is done with it.
Leave(s) == server' = [server EXCEPT ![s] = IF Alive(s) THEN "left" ELSE @]

\* kill-server: its exceptions are swallowed by every caller.
KillServer(s) ==
    \/ server' = [server EXCEPT ![s] = IF Alive(s) THEN "dead" ELSE @]
    \/ Faults /\ Leave(s)

-----------------------------------------------------------------------------
(* Requests *)

\* Bound: only |Sid| sessions are ever created.
SidLeft == Cardinality({u \in Thread : pc[u] = "create_check"}) <
               Cardinality({s \in Sid : server[s] = "unminted"})

\* A client posts /session/create, or names a session it knows of.  "turn" and
\* "delete" come with the session's cap.  "read" stands for the requests that
\* change nothing once they are past the lookup: capture, get-envelope,
\* interrupt, and every request whose cap is wrong (which the client of a sid it
\* only saw in /session/list has to send).
StartRequest(t) ==
    /\ pc[t] = "idle"
    /\ \/ /\ "create" \in Ops /\ SidLeft
          /\ req' = [req EXCEPT ![t] = [NoRequest EXCEPT !.op = "create"]]
          /\ Goto(t, "create_check")
       \/ \E op \in Ops \cap {"turn", "read", "delete"}, s \in known :
             /\ op # "read" => s \in issued
             /\ req' = [req EXCEPT ![t] = [op |-> op, sid |-> s]]
             /\ Goto(t, "peek")
    /\ UNCHANGED <<sessions, obj, ref, server, dir, known, issued, deleted,
                   restarts>>

(* create *)

\* Mutant: an off-by-one in the comparison.
OverCapByOne == Cardinality(Registered) > MaxSessions

\* len(self._sessions) >= MAX_SESSIONS.
OverCap == Cardinality(Registered) >= MaxSessions

\* The count is compared with MAX_SESSIONS under the lock; the entry is only
\* added in CreatePublish.  A fresh sid is minted and its directory made.
CreateCheck(t) ==
    /\ pc[t] = "create_check"
    /\ \/ /\ OverCap                                     \* 429
          /\ Finish(t, obj)
          /\ UNCHANGED <<server, dir>>
       \/ /\ ~OverCap
          /\ \E s \in Sid :
                /\ server[s] = "unminted"
                /\ server' = [server EXCEPT ![s] = "none"]
                /\ dir' = dir \cup {s}
                /\ req' = [req EXCEPT ![t].sid = s]
          /\ Goto(t, "create_launch")
          /\ UNCHANGED <<obj, ref>>
    /\ UNCHANGED <<sessions, known, issued, deleted, restarts>>

\* new-session, then the pane_id read that is part of it: either may fail.
CreateLaunch(t) ==
    LET s == req[t].sid IN
    /\ pc[t] = "create_launch"
    /\ \/ /\ server' = [server EXCEPT ![s] = "alive"]
          /\ Goto(t, "create_arm")
          /\ UNCHANGED <<obj, req, ref>>
       \/ /\ Faults
          /\ \E end \in {"none", "left"} :
                server' = [server EXCEPT ![s] = end]
          /\ Finish(t, obj)
    /\ UNCHANGED <<sessions, dir, known, issued, deleted, restarts>>

\* alternate_on, pipe_pane_on and the two set_option calls.  An alternate
\* screen tears the server down.  What raises just propagates: a tmux call, or
\* the open of the log, for which no tmux fault is needed.
CreateArm(t) ==
    LET s == req[t].sid IN
    /\ pc[t] = "create_arm"
    /\ \/ /\ Alive(s)
          /\ Goto(t, "create_await")
          /\ UNCHANGED <<obj, req, ref, server>>
       \/ /\ Alive(s)
          /\ KillServer(s)
          /\ Finish(t, obj)
       \/ Leave(s) /\ Finish(t, obj)
    /\ UNCHANGED <<sessions, dir, known, issued, deleted, restarts>>

\* Mutant: a session that did not become ready is left running.
CreateAwaitReadyKeeps(t) ==
    /\ pc[t] = "create_await"
    /\ \/ /\ Alive(req[t].sid)
          /\ Goto(t, "create_publish")
          /\ UNCHANGED <<obj, req, ref>>
       \/ Finish(t, obj)
    /\ UNCHANGED <<sessions, server, dir, known, issued, deleted, restarts>>

\* _await_ready returns, or it raises (deadline, tmux error) and the server is
\* killed before the exception propagates.
CreateAwaitReady(t) ==
    LET s == req[t].sid IN
    /\ pc[t] = "create_await"
    /\ \/ /\ Alive(s)
          /\ Goto(t, "create_publish")
          /\ UNCHANGED <<obj, req, ref, server>>
       \/ /\ KillServer(s)
          /\ Finish(t, obj)
    /\ UNCHANGED <<sessions, dir, known, issued, deleted, restarts>>

\* The object enters the dict: RECONSTRUCTING, not claimed, and visible to
\* /session/list from now on.
CreatePublish(t) ==
    LET s == req[t].sid IN
    /\ pc[t] = "create_publish"
    /\ \E o \in FreeObj :
          /\ obj' = [obj EXCEPT ![o] = NewSession(s, TRUE, FALSE)]
          /\ sessions' = [sessions EXCEPT ![s] = o]
          /\ ref' = [ref EXCEPT ![t] = o]
    /\ known' = known \cup {s}
    /\ Goto(t, "create_status")
    /\ UNCHANGED <<req, server, dir, issued, deleted, restarts>>

CreateStatus(t) ==
    /\ pc[t] = "create_status"
    /\ obj' = [obj EXCEPT ![ref[t]].status = "READY"]
    /\ Goto(t, "create_set")
    /\ UNCHANGED <<sessions, req, ref, server, dir, known, issued, deleted,
                   restarts>>

\* s.ready.set(), and the response carries the cap to the client.
CreateReturn(t) ==
    /\ pc[t] = "create_set"
    /\ issued' = issued \cup {req[t].sid}
    /\ Finish(t, [obj EXCEPT ![ref[t]].ready = TRUE])
    /\ UNCHANGED <<sessions, server, dir, known, deleted, restarts>>

-----------------------------------------------------------------------------
(* _authz_session and get_or_reconstruct *)

\* REGISTRY.peek: a read under the lock, no tmux work.
Peek(t) ==
    /\ pc[t] = "peek"
    /\ IF sessions[req[t].sid] = None
       THEN Goto(t, "get") /\ UNCHANGED ref
       ELSE /\ ref' = [ref EXCEPT ![t] = sessions[req[t].sid]]
            /\ Goto(t, "peek_status")
    /\ UNCHANGED <<sessions, obj, req, server, dir, known, issued, deleted,
                   restarts>>

\* A READY object goes straight to the cap check; otherwise the lookup is made
\* again by get_or_reconstruct.
PeekStatus(t) ==
    /\ pc[t] = "peek_status"
    /\ IF obj[ref[t]].status = "READY"
       THEN Goto(t, "check_cap")
       ELSE Goto(t, "get")
    /\ UNCHANGED <<sessions, obj, req, ref, server, dir, known, issued,
                   deleted, restarts>>

\* Thread t now holds o instead of what it held, which may become garbage.
HoldInstead(t, o, fields) ==
    /\ ref' = [ref EXCEPT ![t] = o]
    /\ obj' = [p \in Obj |-> IF p = ref[t] /\ p # o /\ ~Shared(t, p, sessions)
                             THEN Unused ELSE fields[p]]

\* Mutant: the claim is forgotten, the status alone decides.
ClaimableUnclaimed(o) == obj[o].status = "RECONSTRUCTING"

\* May a thread that finds o in the dict take its reconstruction upon itself?
Claimable(o) == obj[o].status = "RECONSTRUCTING" /\ ~obj[o].claimed

\* The critical section of get_or_reconstruct: insert a claimed placeholder
\* (without a cap), claim an unclaimed object, or lose.  The cap on the number
\* of sessions is not looked at.
GetOrReconstruct(t) ==
    LET s == req[t].sid
        o == sessions[s]
    IN
    /\ pc[t] = "get"
    /\ \/ /\ o = None
          /\ \E p \in FreeObj :
                /\ sessions' = [sessions EXCEPT ![s] = p]
                /\ HoldInstead(t, p,
                       [obj EXCEPT ![p] = NewSession(s, FALSE, TRUE)])
          /\ Goto(t, "claimed")
       \/ /\ o # None
          /\ Claimable(o)
          /\ HoldInstead(t, o, [obj EXCEPT ![o].claimed = TRUE])
          /\ Goto(t, "claimed")
          /\ UNCHANGED sessions
       \/ /\ o # None
          /\ ~Claimable(o)
          /\ HoldInstead(t, o, obj)
          /\ Goto(t, "loser")
          /\ UNCHANGED sessions
    /\ UNCHANGED <<req, server, dir, known, issued, deleted, restarts>>

\* The winner re-reads the status outside the lock: create may have finished.
WinnerReads(t) ==
    /\ pc[t] = "claimed"
    /\ IF obj[ref[t]].status = "RECONSTRUCTING"
       THEN Goto(t, "hydrate")
       ELSE Goto(t, "check_cap")
    /\ UNCHANGED <<sessions, obj, req, ref, server, dir, known, issued,
                   deleted, restarts>>

\* Mutant: a status that no reader of the object knows.
HydratedWrongStatus(fields) == [fields EXCEPT !.status = "HYDRATED"]

\* Mutant: the cap is read back from the cap file, and nothing else changes.
HydratedWithCap(fields) == [fields EXCEPT !.status = "READY", !.cap = TRUE]

\* The fields that _hydrate and the line after it leave in the object: the cap
\* file is not read back.
Hydrated(fields) == [fields EXCEPT !.status = "READY"]

\* _hydrate rebuilds the object from tmux facts.  It raises when has-session
\* says the session is gone, and when any of its tmux calls fails.
Hydrate(t) ==
    /\ pc[t] = "hydrate"
    /\ \/ /\ Alive(req[t].sid)
          /\ obj' = [obj EXCEPT ![ref[t]] = Hydrated(@)]
          /\ Goto(t, "set_ready")
       \/ /\ Faults \/ ~Alive(req[t].sid)
          /\ Goto(t, "forget")
          /\ UNCHANGED obj
    /\ UNCHANGED <<sessions, req, ref, server, dir, known, issued, deleted,
                   restarts>>

\* `if self._sessions.get(sid) is s: del self._sessions[sid]`.
Forgotten(s, o) ==
    IF sessions[s] = o THEN [sessions EXCEPT ![s] = None] ELSE sessions

\* A failed hydrate removes the entry it was rebuilding.
HydrateForget(t) ==
    LET s == req[t].sid IN
    /\ pc[t] = "forget"
    /\ sessions' = Forgotten(s, ref[t])
    /\ IF sessions[s] = ref[t] THEN Leave(s) ELSE UNCHANGED server
    /\ Goto(t, "set_ready_raise")
    /\ UNCHANGED <<obj, req, ref, dir, known, issued, deleted, restarts>>

\* Mutant: the event is set on success only.
SetReadyOnSuccess(t) ==
    /\ \/ /\ pc[t] = "set_ready"
          /\ obj' = [obj EXCEPT ![ref[t]].ready = TRUE]
          /\ Goto(t, "check_cap")
          /\ UNCHANGED <<req, ref>>
       \/ pc[t] = "set_ready_raise" /\ Finish(t, obj)
    /\ UNCHANGED <<sessions, server, dir, known, issued, deleted, restarts>>

\* The finally clause: the waiters are woken on both paths, and a failure then
\* propagates.
SetReady(t) ==
    LET woken == [obj EXCEPT ![ref[t]].ready = TRUE] IN
    /\ \/ /\ pc[t] = "set_ready"
          /\ obj' = woken
          /\ Goto(t, "check_cap")
          /\ UNCHANGED <<req, ref>>
       \/ /\ pc[t] = "set_ready_raise"
          /\ Finish(t, woken)
    /\ UNCHANGED <<sessions, server, dir, known, issued, deleted, restarts>>

LoserReads(t) ==
    /\ pc[t] = "loser"
    /\ IF obj[ref[t]].status = "READY"
       THEN Goto(t, "check_cap")
       ELSE Goto(t, "wait")
    /\ UNCHANGED <<sessions, obj, req, ref, server, dir, known, issued,
                   deleted, restarts>>

\* s.ready.wait: woken by the event ...
Woken(t) ==
    /\ pc[t] = "wait"
    /\ obj[ref[t]].ready
    /\ Goto(t, "recheck")
    /\ UNCHANGED <<sessions, obj, req, ref, server, dir, known, issued,
                   deleted, restarts>>

\* ... or by READY_TIMEOUT.
WaitTimeout(t) ==
    /\ pc[t] = "wait"
    /\ Goto(t, "recheck")
    /\ UNCHANGED <<sessions, obj, req, ref, server, dir, known, issued,
                   deleted, restarts>>

\* The loser shares the winner's object, or answers 404.
Recheck(t) ==
    /\ pc[t] = "recheck"
    /\ \/ /\ sessions[req[t].sid] = ref[t] /\ obj[ref[t]].status = "READY"
          /\ Goto(t, "check_cap")
          /\ UNCHANGED <<obj, req, ref>>
       \/ /\ sessions[req[t].sid] # ref[t] \/ obj[ref[t]].status # "READY"
          /\ Finish(t, obj)
    /\ UNCHANGED <<sessions, server, dir, known, issued, deleted, restarts>>

\* hmac.compare_digest on the object's cap; an object without one refuses
\* every caller.
CapMatches(t) == obj[ref[t]].cap /\ req[t].op \in {"turn", "delete"}

CheckCap(t) ==
    /\ pc[t] = "check_cap"
    /\ \/ /\ CapMatches(t) /\ req[t].op = "turn"
          /\ Goto(t, "acquire")
          /\ UNCHANGED <<obj, req, ref>>
       \/ /\ CapMatches(t) /\ req[t].op = "delete"
          /\ Goto(t, "delete_lookup")
          /\ UNCHANGED <<obj, req, ref>>
       \/ /\ ~CapMatches(t)                            \* 403, or served
          /\ Finish(t, obj)
    /\ UNCHANGED <<sessions, server, dir, known, issued, deleted, restarts>>

-----------------------------------------------------------------------------
(* Requests under the turn lock: stream, send-key, replay *)

\* turn_lock.acquire(timeout=2.0).
Acquire(t) ==
    /\ pc[t] = "acquire"
    /\ obj[ref[t]].lock = None
    /\ obj' = [obj EXCEPT ![ref[t]].lock = t]
    /\ Goto(t, "turn")
    /\ UNCHANGED <<sessions, req, ref, server, dir, known, issued, deleted,
                   restarts>>

\* The bounded acquire expired: 409.
AcquireTimeout(t) ==
    /\ pc[t] = "acquire"
    /\ obj[ref[t]].lock # None
    /\ Finish(t, obj)
    /\ UNCHANGED <<sessions, server, dir, known, issued, deleted, restarts>>

\* The turn is over, in whatever way: the finally clause releases the lock.
Release(t) ==
    /\ pc[t] = "turn"
    /\ Finish(t, [obj EXCEPT ![ref[t]].lock = None])
    /\ UNCHANGED <<sessions, server, dir, known, issued, deleted, restarts>>

-----------------------------------------------------------------------------
(* delete *)

\* delete looks the sid up again: it may find another object than the one the
\* request was authorised on.
DeleteLookup(t) ==
    LET o == sessions[req[t].sid] IN
    /\ pc[t] = "delete_lookup"
    /\ \/ /\ o = None                                    \* 404
          /\ Finish(t, obj)
       \/ /\ o # None
          /\ HoldInstead(t, o, obj)
          /\ Goto(t, "delete_check")
          /\ UNCHANGED req
    /\ UNCHANGED <<sessions, server, dir, known, issued, deleted, restarts>>

\* Mutant: the entry leaves the dict before the server is killed.
DeleteCheckForgets(t) ==
    LET refused == ~CapMatches(t) \/ obj[ref[t]].lock # None IN
    /\ pc[t] = "delete_check"
    /\ IF refused THEN Finish(t, obj) /\ UNCHANGED sessions
       ELSE /\ sessions' = Forgotten(req[t].sid, ref[t])
            /\ Goto(t, "delete_kill") /\ UNCHANGED <<obj, req, ref>>
    /\ UNCHANGED <<server, dir, known, issued, deleted, restarts>>

\* 403 without the cap, 409 while the turn lock is held.  locked() only reads
\* the lock: nothing keeps a turn from taking it afterwards.
DeleteCheck(t) ==
    LET refused == ~CapMatches(t) \/ obj[ref[t]].lock # None IN
    /\ pc[t] = "delete_check"
    /\ IF refused THEN Finish(t, obj)
       ELSE Goto(t, "delete_kill") /\ UNCHANGED <<obj, req, ref>>
    /\ UNCHANGED <<sessions, server, dir, known, issued, deleted, restarts>>

\* Mutant: the directory and the entry go, the server is left running.
DeleteKillSkipped(t) ==
    /\ pc[t] = "delete_kill"
    /\ Goto(t, "delete_rm")
    /\ UNCHANGED <<sessions, obj, req, ref, server, dir, known, issued, deleted,
                   restarts>>

\* kill-server, then the socket is unlinked whether or not the server went.
DeleteKill(t) ==
    LET s == req[t].sid IN
    /\ pc[t] = "delete_kill"
    /\ \E end \in {"dead"} \cup IF Faults THEN {"orphan"} ELSE {} :
          server' = [server EXCEPT ![s] = IF Alive(s) THEN end ELSE @]
    /\ Goto(t, "delete_rm")
    /\ UNCHANGED <<sessions, obj, req, ref, dir, known, issued, deleted,
                   restarts>>

\* Confined rmtree of the rendezvous directory.
DeleteRm(t) ==
    /\ pc[t] = "delete_rm"
    /\ dir' = dir \ {req[t].sid}
    /\ Goto(t, "delete_forget")
    /\ UNCHANGED <<sessions, obj, req, ref, server, known, issued, deleted,
                   restarts>>

DeleteForget(t) ==
    LET dict == Forgotten(req[t].sid, ref[t]) IN
    /\ pc[t] = "delete_forget"
    /\ sessions' = dict
    /\ deleted' = deleted \cup {req[t].sid}
    /\ FinishWith(t, obj, dict)
    /\ UNCHANGED <<server, dir, known, issued, restarts>>

-----------------------------------------------------------------------------
(* The environment *)

\* The shell of the session exits, and its tmux server with it.
ServerExits(s) ==
    /\ Alive(s)
    /\ server' = [server EXCEPT ![s] = "dead"]
    /\ UNCHANGED <<sessions, obj, pc, req, ref, dir, known, issued, deleted,
                   restarts>>

\* The bridge process stops, at any point, and starts again with an empty
\* registry; the tmux servers and the directories survive it.
Restart ==
    /\ restarts < MaxRestarts
    /\ restarts' = restarts + 1
    /\ sessions' = [s \in Sid |-> None]
    /\ obj' = [o \in Obj |-> Unused]
    /\ pc' = [t \in Thread |-> "idle"]
    /\ req' = [t \in Thread |-> NoRequest]
    /\ ref' = [t \in Thread |-> None]
    /\ server' = [s \in Sid |-> IF Alive(s) THEN "left" ELSE server[s]]
    /\ UNCHANGED <<dir, known, issued, deleted>>

\* The server waits for a connection.  (So that TLC reports a deadlock exactly
\* when a thread that has work cannot go on.)
AwaitConnection ==
    /\ \A t \in Thread : pc[t] = "idle"
    /\ UNCHANGED vars

-----------------------------------------------------------------------------
Create(t) ==
    \/ CreateCheck(t) \/ CreateLaunch(t) \/ CreateArm(t) \/ CreateAwaitReady(t)
    \/ CreatePublish(t) \/ CreateStatus(t) \/ CreateReturn(t)

Authorise(t) ==
    \/ Peek(t) \/ PeekStatus(t) \/ GetOrReconstruct(t) \/ WinnerReads(t)
    \/ Hydrate(t) \/ HydrateForget(t) \/ SetReady(t)
    \/ LoserReads(t) \/ Woken(t) \/ Recheck(t) \/ CheckCap(t)

Turn(t) == Acquire(t) \/ AcquireTimeout(t) \/ Release(t)

Delete(t) ==
    \/ DeleteLookup(t) \/ DeleteCheck(t) \/ DeleteKill(t) \/ DeleteRm(t)
    \/ DeleteForget(t)

\* The steps a thread takes on its own once it has work.
Step(t) == Create(t) \/ Authorise(t) \/ Turn(t) \/ Delete(t)

Next ==
    \/ \E t \in Thread : StartRequest(t) \/ WaitTimeout(t) \/ Step(t)
    \/ \E s \in Sid : ServerExits(s)
    \/ Restart
    \/ AwaitConnection

Spec == Init /\ [][Next]_vars

\* A thread that has work is scheduled: its tmux calls return or time out
\* (tmux_session._run, 10 s) and its turn has a deadline.  Nothing is assumed
\* of clients, of READY_TIMEOUT or of the environment.
FairSpec == Spec /\ \A t \in Thread : WF_vars(Step(t))

-----------------------------------------------------------------------------
(* Properties *)

TypeOK ==
    /\ sessions \in [Sid -> Obj \cup {None}]
    /\ obj \in [Obj -> Session]
    /\ pc \in [Thread -> PC]
    /\ req \in [Thread -> Request]
    /\ ref \in [Thread -> Obj \cup {None}]
    /\ server \in [Sid -> ServerState]
    /\ dir \subseteq Sid
    /\ known \subseteq Sid
    /\ issued \subseteq Sid
    /\ deleted \subseteq Sid
    /\ restarts \in 0..MaxRestarts

\* At most one request types into a session's pane at a time, whatever the
\* dict went through meanwhile (delete, failed hydrate, restart): two turns
\* never hold turn locks of the same sid, not even of two different objects.
TurnExclusion ==
    \A t, u \in Thread :
        pc[t] = "turn" /\ pc[u] = "turn" /\ req[t].sid = req[u].sid => t = u

\* The inductive invariant behind TurnExclusion.  A turn runs only on an object
\* that holds the cap (a), whose lock the thread holds (b), of the session the
\* request named (c); and at most one object of a session ever holds its cap
\* (d), because only create makes one, for a sid that nobody knows yet (e).
NoWork == {"idle", "create_check"}

HoldsObject == PC \ (NoWork \cup Creating \cup {"peek", "get", "delete_lookup"})

RequestsNamed ==
    \A t \in Thread : /\ pc[t] \notin NoWork => req[t].sid \in Sid
                      /\ pc[t] \in NoWork => ref[t] = None
                      /\ pc[t] \in HoldsObject => ref[t] # None

ReferencesMatch ==                                                  \* (c)
    /\ \A s \in Sid : sessions[s] # None => obj[sessions[s]].sid = s
    /\ \A t \in Thread : ref[t] # None => obj[ref[t]].sid = req[t].sid

TurnsGuarded ==                                                     \* (a), (b)
    \A t \in Thread : /\ pc[t] \in {"acquire", "turn"} => obj[ref[t]].cap
                      /\ pc[t] = "turn" => obj[ref[t]].lock = t

CapUnique ==                                                        \* (d)
    \A o, p \in Obj :
        obj[o].cap /\ obj[p].cap /\ obj[o].sid = obj[p].sid => o = p

CreatesFresh ==                                                     \* (e)
    /\ \A o \in Obj : obj[o].cap => obj[o].sid \in known
    /\ \A s \in known : server[s] # "unminted"
    /\ \A t \in Thread : pc[t] \in Creating =>
          /\ req[t].sid \notin known
          /\ server[req[t].sid] # "unminted"
    /\ \A t, u \in Thread :
          pc[t] \in Creating /\ pc[u] \in Creating /\ req[t].sid = req[u].sid
          => t = u

\* Its conjunction: every reachable registry keeps all of these facts, across
\* create, reconstruct, delete and restart.
RegistryInv ==
    /\ RequestsNamed /\ ReferencesMatch /\ TurnsGuarded /\ CapUnique
    /\ CreatesFresh

\* get_or_reconstruct elects one winner: no two threads hydrate one object.
OneHydrator ==
    \A t, u \in Thread :
        /\ pc[t] \in Hydrating /\ pc[u] \in Hydrating
        /\ ref[t] = ref[u]
        => t = u

Winning == Hydrating \cup {"claimed"}
Waking == Winning \cup Publishing

\* Threads that will call ready.set on o.
Wakers(o) == {t \in Thread : ref[t] = o /\ pc[t] \in Waking}

\* No lost wake-up: while an object that a request waits on, or that the dict
\* would hand to the next request as a loser, has its event clear, some thread
\* is still going to set it, so that READY_TIMEOUT never has to.
WaiterHasWaker ==
    \A o \in Obj :
        /\ obj[o].claimed /\ ~obj[o].ready
        /\ \/ \E s \in Sid : sessions[s] = o
           \/ \E t \in Thread : ref[t] = o /\ pc[t] \in {"loser", "wait"}
        => Wakers(o) # {}

\* The inductive invariant behind both.  The winner of an object has claimed it
\* (a) and has no rival (b); a claim is open only while somebody will set the
\* event (c); and an object that is READY before its event is set is held by a
\* thread that sets it next (d), so that a winner who finds it READY may go on.
ClaimsHeld ==                                                       \* (a), (b)
    /\ \A t \in Thread : pc[t] \in Winning => obj[ref[t]].claimed
    /\ \A t, u \in Thread :
          pc[t] \in Winning /\ pc[u] \in Winning /\ ref[t] = ref[u] => t = u

ClaimsWaken ==                                                      \* (c)
    \A o \in Obj : obj[o].claimed /\ ~obj[o].ready => Wakers(o) # {}

ReadyIsNext ==                                                      \* (d)
    \A o \in Obj : obj[o].status = "READY" /\ ~obj[o].ready =>
        \E t \in Thread : ref[t] = o /\ pc[t] \in {"create_set", "set_ready"}

\* Its conjunction: no claim is shared, and none is abandoned.
HydrationInv == ClaimsHeld /\ ClaimsWaken /\ ReadyIsNext

\* A deleted session stays deleted: once /session/delete has answered ok, the
\* dict holds no READY object for the sid.  (A request that had looked it up
\* before still has the object.  Only without tmux faults: a hydrate that fails
\* on one lets a second object in while delete works on the first.)
DeleteIsFinal ==
    \A s \in deleted :
        sessions[s] # None => obj[sessions[s]].status # "READY"

\* No server runs that nobody is responsible for, but those left for a named
\* cause (ServerState): neither the failures of create from its try on nor a
\* delete leave a claude running that is not registered, whatever the lookups of
\* other requests put into the dict or took out of it meanwhile.
NoStraySession ==
    \A s \in Sid : server[s] = "alive" =>
        \/ sessions[s] # None
        \/ \E t \in Thread : req[t].sid = s /\ pc[t] \in Creating

\* How far the check-then-insert of create may miss the cap on sessions that the
\* server announces with 429: every client but one can be past the check when
\* the last free place goes.  (Re-adopted sessions, which create does not make,
\* come on top.)
OvershootBounded ==
    Cardinality({s \in Registered : obj[sessions[s]].cap})
        <= MaxSessions - 1 + Cardinality(Thread)

\* The inductive invariant behind these three.  Apart from create, requests are
\* only ever about published sids.
WorkIsKnown ==
    /\ \A s \in Sid : sessions[s] # None => s \in known
    /\ \A t \in Thread : pc[t] \notin NoWork \cup Creating => req[t].sid \in known

\* A delete that is about to take an entry out of the dict has ended the server,
\* or has made an orphan of it; as only create starts servers, for sids nobody
\* knows, that stays so.  Without faults so does the server that a hydrate saw gone.
Removing == {"delete_rm", "delete_forget"} \cup
            IF Faults THEN {} ELSE {"forget"}

GoneStaysGone == \A t \in Thread : pc[t] \in Removing => ~Alive(req[t].sid)

\* A create that is past the check has its place counted with the sessions that
\* creates have published.
Owned == {s \in Registered : obj[sessions[s]].cap}

PlacesCounted ==
    Cardinality(Owned) + Cardinality({t \in Thread : pc[t] \in Creating})
        <= MaxSessions - 1 + Cardinality(Thread)

\* The cap of a session goes to the client last of all, when the one create that
\* published it returns.
CapIssuedLast ==
    /\ issued \subseteq known
    /\ \A t \in Thread : pc[t] \in Publishing =>
          obj[ref[t]].cap /\ req[t].sid \notin issued
    /\ \A t, u \in Thread :
          pc[t] \in Publishing /\ pc[u] \in Publishing /\ req[t].sid = req[u].sid
          => t = u

\* Who turns or deletes was issued the cap, and tears down an object that holds
\* it.
Deleting == {"delete_lookup", "delete_check", "delete_kill", "delete_rm",
             "delete_forget"}

DeleteIsAuthorised ==
    \A t \in Thread :
        /\ req[t].op \in {"turn", "delete"} => req[t].sid \in issued
        /\ pc[t] = "create_check" => req[t].op = "create"
        /\ pc[t] \in Deleting => req[t].op = "delete"
        /\ pc[t] \in Deleting \cap TearingDown => obj[ref[t]].cap

\* Without faults: once the object with a session's cap is out of the dict, its
\* server is gone for good, and an object that took its place is never READY.
CapLeavesLast ==
    \A o \in Obj :
        LET s == obj[o].sid IN
        obj[o].cap /\ sessions[s] # o =>
            ~Alive(s) /\ (sessions[s] # None => obj[sessions[s]].status # "READY")

DeletedIsGone == \A s \in deleted : s \in issued /\ ~Alive(s)

\* Its conjunction: what create and delete know of a session when they act on it
\* still holds, whatever the other threads did since.
LifecycleInv ==
    /\ WorkIsKnown /\ GoneStaysGone /\ PlacesCounted
    /\ CapIssuedLast /\ DeleteIsAuthorised /\ NoStraySession
    /\ ~Faults => CapLeavesLast /\ DeletedIsGone /\ DeleteIsFinal

\* A delete never tears a session down under a running turn.
TeardownExcludesTurn ==
    \A t, u \in Thread :
        pc[t] \in TearingDown /\ pc[u] = "turn" => req[t].sid # req[u].sid

\* A session that the dict serves accepts its cap: re-adopted sessions too.
ServedSessionHasCap ==
    \A s \in Sid : sessions[s] # None /\ obj[sessions[s]].status = "READY"
                   => obj[sessions[s]].cap

\* A request that waits for a winner is woken, without READY_TIMEOUT.
WaiterIsWoken == \A t \in Thread : pc[t] = "wait" ~> pc[t] # "wait"
=============================================================================
