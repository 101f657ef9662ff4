---------------------------- MODULE TurnProtocol ----------------------------
(***************************************************************************)
(* One edit turn after another on one READY session: the stream handler    *)
(* (session_endpoints._do_stream), the held-lock turn                      *)
(* (session_registry._run_turn_locked, stage_turn, await_envelope,         *)
(* _await_completion), the read-back (paths.read_envelope_bytes), and      *)
(* send-key and get-envelope beside them; what a turn reads off the screen *)
(* is Classifier's.  claude and tmux are the environment: claude keeps the *)
(* prompts typed into its composer, may answer late, wrongly, in part or   *)
(* never, may ask, may exit.  Of a delete that overlaps a turn there is    *)
(* what it does to the turn (TornDown), and of a restart of the bridge,    *)
(* what it leaves of a turn (BridgeRestarts); SessionRegistry has the rest. *)
(*                                                                         *)
(* A path env.<uuid>.json cannot exist before the prompt that names it is  *)
(* typed, so the freshness test `mtime > send_time` of await_envelope      *)
(* holds of every file it sees (a wall clock that is set back is not       *)
(* modelled), and envelopes carry no time.                                 *)
(***************************************************************************)
EXTENDS Classifier

CONSTANTS
    Thread,   \* request threads
    Uuid,     \* turn uuids that mint_turn_uuid may return; bounds the turns
    None,     \* Python's None, an absent file, an unset option
    Faults    \* TRUE iff a tmux call may fail for a transient reason

ASSUME FaultsAssumption == Faults \in BOOLEAN

VARIABLES
    pc,        \* where each thread is
    turn,      \* the uuid each stream minted
    seen,      \* the size+mtime signature await_envelope last saw, per thread
    doubt,     \* is dead_since set, per thread
    late,      \* has the turn's deadline passed, per thread
    out,       \* the outcome of the turn, per thread
    lock,      \* sess.turn_lock: the thread that holds it
    flag,      \* the tmux option @wcb_turn
    env,       \* env.<uuid>.json
    doc,       \* the uuids whose doc.<uuid>.html is staged
    alive,     \* does the session's tmux server run
    torn,      \* has a delete removed the session's directory
    claude,    \* what claude shows: see ClaudeState
    prompted,  \* the turns whose prompts claude has got
    delivered, \* turns whose right and whole envelope claude has written
    latest,    \* the turn staged last
    result     \* what each turn's client was told

threadVars == <<turn, seen, doubt, late, out>>
claudeVars == <<claude, prompted, delivered>>
serverVars == <<alive, torn>>
vars == <<pc, turn, seen, doubt, late, out, lock, flag, env, doc, alive,
          torn, claude, prompted, delivered, latest, result>>

-----------------------------------------------------------------------------
\* An envelope file: the uuid it echoes, and whether its JSON is complete.  A
\* file whose turn_uuid and gen disagree, or whose shape or mode the read-back
\* refuses, is one that echoes another uuid.
Envelope == [gen : Uuid, whole : BOOLEAN]

Reason == {"idle", "idle_no_envelope", "envelope_rejected", "awaiting_input",
           "client_gone", "dead", "error"}

\* What becomes of a turn whose bridge dies: "interrupted" when it was flagged,
\* "lost" otherwise.
Cut == {"interrupted", "lost"}

ASSUME NoneAssumption == None \notin Thread \cup Uuid \cup Reason

\* The states of a stream that has the turn lock and may have set @wcb_turn,
\* from the set_option on; and those of one that holds the lock at all.
Flagged == {"prompt", "poll", "await", "read", "screen"}
Streaming == Flagged \cup {"stage", "set_flag", "clear", "release"}
PC == Streaming \cup {"idle", "acquire", "key_acquire", "key_type",
                      "key_release"}

Init ==
    /\ pc = [t \in Thread |-> "idle"]
    /\ turn = [t \in Thread |-> None]
    /\ seen = [t \in Thread |-> None]
    /\ doubt = [t \in Thread |-> FALSE]
    /\ late = [t \in Thread |-> FALSE]
    /\ out = [t \in Thread |-> None]
    /\ lock = None
    /\ flag = None
    /\ env = [u \in Uuid |-> None]
    /\ doc = {}
    /\ alive = TRUE
    /\ torn = FALSE
    /\ claude = "idle"
    /\ prompted = {}
    /\ delivered = {}
    /\ latest = None
    /\ result = [u \in Uuid |-> "none"]

Goto(t, label) == pc' = [pc EXCEPT ![t] = label]

\* A tmux call of the turn raises: the server is or a transient fault.
TmuxRaises == ~alive \/ Faults

\* Mutant: the finally clauses are skipped.
OutcomeReturns(t, reason) ==
    /\ out' = [out EXCEPT ![t] = reason]
    /\ Goto(t, "returned")

\* The turn has an outcome; the finally clauses follow.
Outcome(t, reason) ==
    /\ out' = [out EXCEPT ![t] = reason]
    /\ Goto(t, "clear")

\* Mutant: the echoed uuid is not compared.
ReadBackAnyGen(e, u) ==
    CASE e = None -> "not_written"
      [] e # None /\ ~e.whole -> "incomplete"
      [] OTHER -> "ok"

\* read_envelope_bytes on what is at the path.
ReadBack(e, u) ==
    CASE e = None -> "not_written"
      [] e # None /\ ~e.whole -> "incomplete"
      [] e # None /\ e.whole /\ e.gen # u -> "rejected"
      [] OTHER -> "ok"

\* _sweep_stale: no envelope of any turn stays in the directory (nor does any
\* document).
Swept == [u \in Uuid |-> None]

-----------------------------------------------------------------------------
(* The stream handler *)

\* A stream request mints its uuid.
StartStream(t) ==
    /\ pc[t] = "idle"
    /\ \E u \in Uuid :
          /\ result[u] = "none" /\ \A s \in Thread : turn[s] # u
          /\ turn' = [turn EXCEPT ![t] = u]
    /\ Goto(t, "acquire")
    /\ UNCHANGED <<seen, doubt, late, out, lock, flag, env, doc, serverVars,
                   claudeVars, latest, result>>

\* Mutant: the result of the bounded acquire is not looked at.
AcquireUnchecked(t) ==
    /\ pc[t] = "acquire"
    /\ lock' = t
    /\ Goto(t, "stage")
    /\ UNCHANGED <<threadVars, flag, env, doc, serverVars, claudeVars,
                   latest, result>>

\* turn_lock.acquire(timeout=2.0) ...
Acquire(t) ==
    /\ pc[t] = "acquire"
    /\ lock = None
    /\ lock' = t
    /\ Goto(t, "stage")
    /\ UNCHANGED <<threadVars, flag, env, doc, serverVars, claudeVars,
                   latest, result>>

\* ... or 409.
AcquireTimeout(t) ==
    /\ pc[t] = "acquire"
    /\ lock # None
    /\ result' = [result EXCEPT ![turn[t]] = "refused"]
    /\ turn' = [turn EXCEPT ![t] = None]
    /\ Goto(t, "idle")
    /\ UNCHANGED <<seen, doubt, late, out, lock, flag, env, doc,
                   serverVars, claudeVars, latest>>

\* The 200 is written (which may fail if the client has left), then stage_turn:
\* every envelope and document in the directory is swept and this turn's
\* document is put, which fails on a full disk and in a directory that a delete
\* has removed.
Stage(t) ==
    /\ pc[t] = "stage"
    /\ \/ /\ out' = [out EXCEPT ![t] = "error"]
          /\ Goto(t, "release")
          /\ UNCHANGED <<env, doc, latest>>
       \/ /\ env' = Swept
          /\ latest' = turn[t]
          /\ \/ /\ ~torn
                /\ doc' = {turn[t]}
                /\ Goto(t, "set_flag")
                /\ UNCHANGED out
             \/ /\ doc' = {}
                /\ Outcome(t, "error")
    /\ UNCHANGED <<turn, seen, doubt, late, lock, flag, serverVars,
                   claudeVars, result>>

\* Mutant: a set_option that fails does not end the turn.
SetFlagBestEffort(t) ==
    /\ pc[t] = "set_flag"
    /\ \/ alive /\ flag' = turn[t]
       \/ TmuxRaises /\ UNCHANGED flag
    /\ Goto(t, "prompt")
    /\ UNCHANGED <<threadVars, lock, env, doc, serverVars, claudeVars,
                   latest, result>>

\* The last step of stage_turn makes the turn durable in @wcb_turn.
SetFlag(t) ==
    /\ pc[t] = "set_flag"
    /\ \/ /\ alive
          /\ flag' = turn[t]
          /\ Goto(t, "prompt")
          /\ UNCHANGED out
       \/ /\ TmuxRaises
          /\ Outcome(t, "error")
          /\ flag' \in IF alive THEN {flag, turn[t]} ELSE {flag}
    /\ UNCHANGED <<turn, seen, doubt, late, lock, env, doc, serverVars,
                   claudeVars, latest, result>>

\* claude gets a prompt at its composer, at once or when it has finished what it
\* works on.  At a question the prompt's keys are lost or answer the question;
\* at a shell they are lost.
Submitted(u) ==
    \/ /\ claude \in {"idle", "working"}
       /\ prompted' = prompted \cup {u}
       /\ UNCHANGED claude
    \/ /\ claude \in {"trust", "menu"}
       /\ claude' \in {claude, "working"}
       /\ prompted' \in {prompted, prompted \cup {u}}
    \/ /\ claude = "exited"
       /\ UNCHANGED <<claude, prompted>>

\* An empty instruction ends the turn at once; otherwise send_prompt types the
\* prompt.  It may fail before the Enter that submits it, or on that Enter,
\* which tmux may have passed on although the call timed out.
Prompt(t) ==
    /\ pc[t] = "prompt"
    /\ \/ /\ Outcome(t, "idle_no_envelope")
          /\ UNCHANGED <<claude, prompted>>
       \/ /\ alive
          /\ Submitted(turn[t])
          /\ \/ Goto(t, "poll") /\ UNCHANGED out
             \/ Faults /\ Outcome(t, "error")
       \/ /\ TmuxRaises
          /\ Outcome(t, "error")
          /\ UNCHANGED <<claude, prompted>>
    /\ UNCHANGED <<turn, seen, doubt, late, lock, flag, env, doc,
                   serverVars, delivered, latest, result>>

\* The turn's timeout elapses.
Expire(t) ==
    /\ pc[t] \in {"poll", "await", "read", "screen"} /\ ~late[t]
    /\ late' = [late EXCEPT ![t] = TRUE]
    /\ UNCHANGED <<pc, turn, seen, doubt, out, lock, flag, env, doc,
                   serverVars, claudeVars, latest, result>>

\* The head of the loop of _await_completion: the deadline is looked at here
\* only, so every slice is followed by a screen read.
Poll(t) ==
    /\ pc[t] = "poll"
    /\ IF late[t]
       THEN Outcome(t, "idle_no_envelope") /\ UNCHANGED seen
       ELSE /\ seen' = [seen EXCEPT ![t] = None]
            /\ Goto(t, "await")
            /\ UNCHANGED out
    /\ UNCHANGED <<turn, doubt, late, lock, flag, env, doc, serverVars,
                   claudeVars, latest, result>>

\* await_envelope: lstat.  A signature that differs from the last one is
\* remembered; one that has not changed for stable_ms is read.
Observe(t) ==
    LET e == env[turn[t]] IN
    /\ pc[t] = "await"
    /\ \/ /\ e # seen[t]
          /\ seen' = [seen EXCEPT ![t] = e]
          /\ UNCHANGED pc
       \/ /\ e # None /\ e = seen[t]
          /\ Goto(t, "read")
          /\ UNCHANGED seen
    /\ UNCHANGED <<turn, doubt, late, out, lock, flag, env, doc,
                   serverVars, claudeVars, latest, result>>

\* The slice, or the turn's deadline, is over first: EnvelopeNotWritten.
SliceOver(t) ==
    /\ pc[t] = "await"
    /\ Goto(t, "screen")
    /\ UNCHANGED <<threadVars, lock, flag, env, doc, serverVars,
                   claudeVars, latest, result>>

\* Mutant: an incomplete envelope is read again without a look at the clock.
ReadRetries(t) ==
    LET answer == ReadBack(env[turn[t]], turn[t]) IN
    /\ pc[t] = "read"
    /\ \/ answer = "ok" /\ Outcome(t, "idle")
       \/ answer = "rejected" /\ Outcome(t, "envelope_rejected")
       \/ /\ answer \in {"incomplete", "not_written"}
          /\ Goto(t, "await")
          /\ UNCHANGED out
    /\ UNCHANGED <<turn, seen, doubt, late, lock, flag, env, doc,
                   serverVars, claudeVars, latest, result>>

\* The read-back.  Accepted and rejected envelopes are final; an incomplete one
\* keeps the loop going, unless it ends inside a multi-byte character: the
\* UnicodeDecodeError is no EnvelopeIncomplete and ends the turn.
Read(t) ==
    LET answer == ReadBack(env[turn[t]], turn[t]) IN
    /\ pc[t] = "read"
    /\ \/ /\ answer = "ok"
          /\ Outcome(t, "idle")
       \/ /\ answer = "rejected"
          /\ Outcome(t, "envelope_rejected")
       \/ /\ answer \in {"incomplete", "not_written"}
          /\ Goto(t, "screen")
          /\ UNCHANGED out
       \/ /\ answer = "incomplete"
          /\ Outcome(t, "error")
    /\ UNCHANGED <<turn, seen, doubt, late, lock, flag, env, doc,
                   serverVars, claudeVars, latest, result>>

\* What a turn makes of the classifier's verdict.  A client that has left shows
\* when an event cannot be written, or a little later.  "dead" is a candidate until
\* has-session or pane_dead have contradicted the capture, and again later; a
\* shell prompt of a live server that tmux confirms is waited on.
HandleVerdict(t, verdict) ==
    \/ /\ verdict \in {"thinking", "streaming"}
       /\ Outcome(t, "client_gone")
       /\ UNCHANGED doubt
    \/ /\ verdict = "awaiting_input"
       /\ Outcome(t, "awaiting_input")
       /\ UNCHANGED doubt
    \/ /\ verdict = "dead" /\ Faults /\ doubt[t]
       /\ Outcome(t, "dead")
       /\ UNCHANGED doubt
    \/ /\ verdict # "awaiting_input"
       /\ \E d \in BOOLEAN :
             /\ d => verdict = "dead" /\ Faults
             /\ doubt' = [doubt EXCEPT ![t] = d]
       /\ Goto(t, "poll")
       /\ UNCHANGED out

\* The screen read: only for the client's events, a question, or a dead pane.  A
\* capture that raises ends the turn.
Screen(t) ==
    /\ pc[t] = "screen"
    /\ \/ /\ TmuxRaises
          /\ Outcome(t, "error")
          /\ UNCHANGED doubt
       \/ alive /\ \E verdict \in Verdicts[claude] : HandleVerdict(t, verdict)
    /\ UNCHANGED <<turn, seen, late, lock, flag, env, doc, serverVars,
                   claudeVars, latest, result>>

\* Mutant: the turn tidies its envelope away when it ends.
ClearUnlinks(t) ==
    /\ pc[t] = "clear"
    /\ flag' = None
    /\ env' = [env EXCEPT ![turn[t]] = None]
    /\ Goto(t, "release")
    /\ UNCHANGED <<threadVars, lock, doc, serverVars, claudeVars, latest,
                   result>>

\* The finally clause of the turn: the flag is cleared, unless that call fails
\* too; its exception is swallowed.
Clear(t) ==
    /\ pc[t] = "clear"
    /\ \/ alive /\ flag' = None
       \/ TmuxRaises /\ UNCHANGED flag
    /\ Goto(t, "release")
    /\ UNCHANGED <<threadVars, lock, env, doc, serverVars, claudeVars,
                   latest, result>>

\* The `done` event is written and the finally clause of the handler releases
\* the lock.
Release(t) ==
    /\ pc[t] = "release"
    /\ result' = [result EXCEPT ![turn[t]] = out[t]]
    /\ lock' = None
    /\ turn' = [turn EXCEPT ![t] = None]
    /\ seen' = [seen EXCEPT ![t] = None]
    /\ doubt' = [doubt EXCEPT ![t] = FALSE]
    /\ late' = [late EXCEPT ![t] = FALSE]
    /\ out' = [out EXCEPT ![t] = None]
    /\ Goto(t, "idle")
    /\ UNCHANGED <<flag, env, doc, serverVars, claudeVars, latest>>

-----------------------------------------------------------------------------
(* The requests beside a stream *)

\* send-key types under the turn lock, or answers 409.  (replay holds the lock in
\* the same way, while it reads the log.)
StartKey(t) ==
    /\ pc[t] = "idle"
    /\ Goto(t, "key_acquire")
    /\ UNCHANGED <<threadVars, lock, flag, env, doc, serverVars,
                   claudeVars, latest, result>>

KeyAcquire(t) ==
    /\ pc[t] = "key_acquire"
    /\ \/ /\ lock = None
          /\ lock' = t
          /\ Goto(t, "key_type")
       \/ /\ lock # None
          /\ Goto(t, "idle")
          /\ UNCHANGED lock
    /\ UNCHANGED <<threadVars, flag, env, doc, serverVars, claudeVars,
                   latest, result>>

\* Mutant: a failure is answered without a finally clause.
KeyTypeUnguarded(t) ==
    /\ pc[t] = "key_type"
    /\ UNCHANGED claude
    /\ \/ alive /\ Goto(t, "key_release")
       \/ TmuxRaises /\ Goto(t, "idle")
    /\ UNCHANGED <<threadVars, lock, flag, env, doc, serverVars,
                   prompted, delivered, latest, result>>

\* The keys answer a question, or change nothing; typing may fail.
KeyType(t) ==
    /\ pc[t] = "key_type"
    /\ \/ /\ alive /\ claude \in {"trust", "menu"}
          /\ claude' = "working"
       \/ UNCHANGED claude
    /\ Goto(t, "key_release")
    /\ UNCHANGED <<threadVars, lock, flag, env, doc, serverVars,
                   prompted, delivered, latest, result>>

KeyRelease(t) ==
    /\ pc[t] = "key_release"
    /\ lock' = None
    /\ Goto(t, "idle")
    /\ UNCHANGED <<threadVars, flag, env, doc, serverVars, claudeVars,
                   latest, result>>

-----------------------------------------------------------------------------
(* The environment *)

\* claude works on what it was told, comes to an end of it whether or not it
\* wrote an envelope, asks something, or exits to the shell.
ClaudeTurns ==
    /\ alive
    /\ \/ claude = "idle" /\ prompted # {} /\ claude' = "working"
       \/ claude = "working" /\ claude' \in {"idle", "trust", "menu"}
       \/ claude # "exited" /\ claude' = "exited"
    /\ UNCHANGED <<pc, threadVars, lock, flag, env, doc, serverVars,
                   prompted, delivered, latest, result>>

\* A working claude writes an envelope to a path that some prompt named, of the
\* turn in progress or of one that is long over.  It may echo the uuid of
\* another prompt, and it may write the final path directly, in two parts.  It
\* does not touch an envelope that is whole, nor make a directory again that a
\* delete has removed.
ClaudeWrites ==
    /\ alive /\ ~torn /\ claude = "working"
    /\ \E u, gen \in prompted, whole \in BOOLEAN :
          /\ env[u] # None => /\ ~env[u].whole
                              /\ whole /\ gen = env[u].gen
          /\ env' = [env EXCEPT ![u] = [gen |-> gen, whole |-> whole]]
          /\ delivered' = IF whole /\ gen = u THEN delivered \cup {u}
                          ELSE delivered
    /\ UNCHANGED <<pc, threadVars, lock, flag, doc, serverVars, claude,
                   prompted, latest, result>>

\* The tmux server goes: the shell exits, or is killed.  Its options go with it.
ServerExits ==
    /\ alive
    /\ alive' = FALSE
    /\ flag' = None
    /\ UNCHANGED <<pc, threadVars, lock, env, doc, torn, claudeVars,
                   latest, result>>

\* A delete that found the turn lock free some time ago kills the server, unless
\* that fails, and removes the session's directory, whatever runs by now.
TornDown ==
    /\ ~torn
    /\ \/ alive' = FALSE /\ flag' = None
       \/ Faults /\ UNCHANGED <<alive, flag>>
    /\ torn' = TRUE
    /\ env' = Swept
    /\ doc' = {}
    /\ UNCHANGED <<pc, threadVars, lock, claudeVars, latest, result>>

\* The bridge dies with its threads, lock and outcomes, and the next one finds
\* the session again: hydrating needs the server and the directory, and changes
\* neither the files nor the flag.  (A session that it does not find takes no
\* more streams.)
BridgeRestarts ==
    /\ alive /\ ~torn
    /\ pc' = [t \in Thread |-> "idle"]
    /\ turn' = [t \in Thread |-> None]
    /\ seen' = [t \in Thread |-> None]
    /\ doubt' = [t \in Thread |-> FALSE]
    /\ late' = [t \in Thread |-> FALSE]
    /\ out' = [t \in Thread |-> None]
    /\ lock' = None
    /\ result' = [u \in Uuid |->
           IF \E t \in Thread : pc[t] \in Streaming /\ turn[t] = u
           THEN IF \E t \in Thread : pc[t] \in Flagged /\ turn[t] = u
                THEN "interrupted" ELSE "lost"
           ELSE result[u]]
    /\ UNCHANGED <<flag, env, doc, serverVars, claudeVars, latest>>

\* Nothing is asked of the server and nothing happens in the session.
Rest ==
    /\ \A t \in Thread : pc[t] = "idle"
    /\ UNCHANGED vars

-----------------------------------------------------------------------------
Step(t) ==
    \/ Acquire(t) \/ AcquireTimeout(t) \/ Stage(t) \/ SetFlag(t) \/ Prompt(t)
    \/ Poll(t) \/ Observe(t) \/ SliceOver(t) \/ Read(t) \/ Screen(t)
    \/ Clear(t) \/ Release(t)
    \/ KeyAcquire(t) \/ KeyType(t) \/ KeyRelease(t)

Next ==
    \/ \E t \in Thread : StartStream(t) \/ StartKey(t) \/ Step(t) \/ Expire(t)
    \/ ClaudeTurns \/ ClaudeWrites \/ ServerExits \/ TornDown
    \/ BridgeRestarts \/ Rest

Spec == Init /\ [][Next]_vars

\* Threads are scheduled, every tmux call returns or times out, and time
\* passes.  An await slice lasts 0.4 s, so it cannot go on for ever: SliceOver
\* needs no fairness of its own, because the files that Observe can see differ
\* only finitely often.  Nothing is assumed of claude or of the clients.
FairSpec == Spec /\ \A t \in Thread : WF_vars(Step(t)) /\ WF_vars(Expire(t))

-----------------------------------------------------------------------------
(* Properties *)

TypeOK ==
    /\ pc \in [Thread -> PC]
    /\ turn \in [Thread -> Uuid \cup {None}]
    /\ seen \in [Thread -> Envelope \cup {None}]
    /\ doubt \in [Thread -> BOOLEAN]
    /\ late \in [Thread -> BOOLEAN]
    /\ out \in [Thread -> Reason \cup {None}]
    /\ lock \in Thread \cup {None}
    /\ flag \in Uuid \cup {None}
    /\ env \in [Uuid -> Envelope \cup {None}]
    /\ doc \subseteq Uuid
    /\ alive \in BOOLEAN
    /\ torn \in BOOLEAN
    /\ claude \in ClaudeState
    /\ prompted \subseteq Uuid
    /\ delivered \subseteq Uuid
    /\ latest \in Uuid \cup {None}
    /\ result \in [Uuid -> Reason \cup Cut \cup {"none", "refused"}]

\* As long as the server lives, @wcb_turn names the running turn from its
\* set_option to its finally clause; and a turn that died there with its bridge
\* keeps naming itself until the next turn is staged, so that a restarted bridge
\* takes the session for busy: no set or clear of another turn, late or failed,
\* takes the flag away.
FlagNamesRunningTurn ==
    alive => /\ \A t \in Thread : pc[t] \in Flagged => flag = turn[t]
             /\ latest # None /\ result[latest] = "interrupted" => flag = latest

\* While a turn may still be answered, the document its prompt points to is
\* staged: no sweep of another turn removes it under claude.  (A delete does.)
RunningTurnIsStaged ==
    \A t \in Thread : pc[t] \in Flagged /\ ~torn => turn[t] \in doc

\* A client that was told "idle" can fetch its envelope, right and whole, until
\* the next turn is staged, whatever claude and the other turns do.
\* (get-envelope takes no lock; it answers 200 exactly when ReadBack is "ok".)
DoneIsFetchable ==
    latest # None /\ result[latest] = "idle" /\ ~torn
        => ReadBack(env[latest], latest) = "ok"

\* The inductive invariant behind these three and the refinement.  Who streams or
\* types holds the lock (a); a turn belongs to one stream, and nobody has been
\* told how it ended (b); a running turn is the one staged last (c); a turn ends
\* "idle" only over an envelope that can be fetched and that claude delivered (d);
\* and whatever the read-back would accept, claude has delivered (e).
Holding == Streaming \cup {"key_type", "key_release"}

LockIsHeld == \A t \in Thread : pc[t] \in Holding => lock = t           \* (a)

TurnsOwned ==                                                           \* (b)
    \A t \in Thread :
        /\ pc[t] \in Streaming \cup {"acquire"} => turn[t] # None
        /\ turn[t] # None => /\ result[turn[t]] = "none"
                             /\ \A s \in Thread \ {t} : turn[s] # turn[t]

RunningTurnIsLatest ==                                                  \* (c)
    \A t \in Thread :
        /\ pc[t] \in Flagged \cup {"set_flag", "clear"} => latest = turn[t]
        /\ pc[t] \in Flagged \cup {"set_flag"} => torn \/ turn[t] \in doc

OutcomeIsFounded ==                                                     \* (d)
    \A t \in Thread : pc[t] \in {"clear", "release"} =>
        /\ out[t] \in Reason
        /\ out[t] = "idle" =>
              /\ latest = turn[t]
              /\ turn[t] \in delivered
              /\ torn \/ ReadBack(env[turn[t]], turn[t]) = "ok"

AcceptedIsDelivered ==                                                  \* (e)
    \A u \in Uuid : ReadBack(env[u], u) = "ok" => u \in delivered

\* Its conjunction: what a client is told of a turn is true of the files of that
\* turn, and of no other.
TurnInv ==
    /\ LockIsHeld /\ TurnsOwned /\ FlagNamesRunningTurn
    /\ RunningTurnIsLatest /\ OutcomeIsFounded /\ AcceptedIsDelivered
    /\ DoneIsFetchable

\* The turns of the session, as its clients see them.
Service == INSTANCE TurnService WITH
    current <- IF lock # None /\ pc[lock] \in Streaming THEN turn[lock] ELSE None

\* One turn at a time, each ends once, and "idle" is only said of a turn for
\* which claude delivered.
ImplementsService == Service!Spec

\* A turn reports dead only when claude may be: never while it works or waits at
\* its composer, however often tmux fails and whatever stands above claude's
\* frame.  (A last line below the frame that ends in a sigil is taken for a shell
\* prompt; with two failed queries, such a turn is called dead.)
DeadIsNotAtWork ==
    [][\A t \in Thread : pc[t] = "screen" /\ out'[t] = "dead" =>
          claude \in {"exited", "menu"} \/ SigilBelow]_vars

\* A trust question that is on the screen when it is read ends the turn, so that
\* its client can answer it, whatever else the screen shows.
QuestionIsReported ==
    [][\A t \in Thread :
         pc[t] = "screen" /\ pc'[t] = "poll" => claude # "trust"]_vars

\* Every stream comes to an end, although claude may never answer, may exit,
\* or may leave an envelope that never parses, and a delete may take its
\* directory away.
StreamEnds == \A t \in Thread : pc[t] = "acquire" ~> pc[t] = "idle"

\* The turn lock always comes free again: no way through stream or send-key, with
\* clients that leave, tmux calls that raise and a session that is torn down,
\* forgets the release, which would leave the session at 409 for good.
LockComesFree == \A t \in Thread : lock = t ~> lock # t

\* A turn that finds the tmux server gone ends with reason "dead".
GoneServerEndsDead ==
    [][\A t \in Thread :
         pc[t] = "screen" /\ ~alive /\ pc'[t] = "clear" => out'[t] = "dead"]_vars
=============================================================================
