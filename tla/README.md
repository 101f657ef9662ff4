# Verification of web2cli

web2cli is a local HTTP bridge: browser pages post shell commands (`/run`,
`/stream`) or hold long-lived sessions with an interactive `claude` that runs in
a tmux server of its own (`/session/*`); a tray application starts and stops the
bridge. This directory holds TLA+ models of these parts, TLC configurations that
check them on small instances, and TLAPS proofs of every invariant and action
property that the passing runs check.

    tlc -config registry_core.cfg MCSessionRegistry.tla   # one run
    tlapm SessionRegistryProofs.tla                       # the proofs: the turn lock
    tlapm HydrationProofs.tla                             # ... hydration
    tlapm LifecycleProofs.tla                             # ... create and delete
    tlapm SessionListProofs.tla                           # ... the session list
    tlapm TurnProofs.tla                                  # ... the turns of a session
    tlapm ScreenProofs.tla                                # ... what a turn reads off the screen
    tlapm CommandProofs.tla                               # ... a command's output
    tlapm TrayProofs.tla                                  # ... the tray application

## 1. Inventory

| Component | State | Operations | Hard behaviours | What makes it correct |
|---|---|---|---|---|
| **Session registry** (`session_registry.py`, `_Registry`) | dict sid -> `_Session` under a structural lock; per object: status, `ready` event, hydration claim, `turn_lock`, cap; a 1 s list cache; on disk: session directories | `create`, `peek`, `get_or_reconstruct`, `delete`, `list_sessions`; `reap`/`_evict`, which only tests call | all tmux work happens outside the lock, so every operation is several atomic steps; creates overlap; lookups race deletes; bridge restarts empty the dict but not tmux | one turn per session; one hydrator; no lost wake-up; deletes stay deleted, in the list too; the cap on sessions; no stray tmux server; a busy session is listed busy |
| **Turn protocol** (`session_registry.py`, `_run_turn_locked`, `stage_turn`, `await_envelope`, `_await_completion`) | the turn lock, `@wcb_turn`, `doc.<uuid>.html`, `env.<uuid>.json` | one held-lock turn; read-back | claude answers late, wrongly, in part or never; tmux calls fail; deadline | a turn ends once, and `idle` only with the right envelope |
| **Session endpoints** (`session_endpoints.py`) | none of their own | gates, routing, `_authz_session`, stream, send-key, replay, capture, get-envelope, interrupt, delete | handlers hold an object across several registry operations | the lock is released on every path |
| **Rendezvous paths** (`paths.py`) | files | put a document, read an envelope back | partial files, late files | only a whole envelope that echoes the turn's uuid is accepted |
| **tmux client** (`tmux_session.py`) | a tmux server per session | launch, options, capture, keys, kill | each call may time out (10 s) or fail without saying whether it took effect | transient is not gone |
| **Screen classifier** (`fsm.py`) | none | `classify` | ambiguous screens: leftovers of an exited claude, quoted text, advisories below the footer | a working claude is not dead, a question is seen, never completion from an idle-looking screen |
| **Command server** (`server.py`) | a subprocess, two readers, a stdin pump and a queue per request | `/run`, `/stream` | timeouts, client disconnects, killing process trees | every child is killed or reaped; output order |
| **Configuration** (`bridge_common.py`) | config file, active token (an environment variable) | load, write, resolve | crashes and full disks during a write; precedence of environment, file and default | the token checked is the token shown; no crash loses the settings |
| **Tray applications** (`bridge_app.py`, `bridge_app_win.py`) | a listener, menu state | launch, start, stop, change port, generate or clear the token, quit | saves that raise; ports that are taken; crash; quit and change of token while requests run | the menu tells the truth; no tmux server left behind |

Interaction: an HTTP request thread passes the gates, resolves its session with
`_authz_session` (a `peek`, else `get_or_reconstruct`), and works on the
`_Session` object it then holds, under `turn_lock` if it types into the pane.
The object may have left the dict meanwhile. The bridge and claude communicate
through the pane (prompts) and through files (documents, envelopes). The tray
application and the request threads share the token's environment variable;
quitting kills every `wcb_*` server, whatever the requests do meanwhile.

`PROJECT.json` lists the hazards at their lines.

## 2. The modules

### SessionRegistry

The dict (`sessions`), the objects (`obj`, with identities of their own, because
`delete`, a failed hydrate and the loser's re-check compare with `is`), and one program
counter per thread. Each critical section of `_lock` is one action, and so is
each tmux call, each field write that another thread reads, and each lock
operation.

| Code | Actions |
|---|---|
| `create` | `CreateCheck` (count, mint, directory), `CreateLaunch`, `CreateArm`, `CreateAwaitReady`, `CreatePublish`, `CreateStatus`, `CreateReturn` |
| `_authz_session`, `get_or_reconstruct`, `_hydrate` | `Peek`, `PeekStatus`, `GetOrReconstruct`, `WinnerReads`, `Hydrate`, `HydrateForget`, `SetReady`, `LoserReads`, `Woken`, `WaitTimeout`, `Recheck`, `CheckCap` |
| stream, send-key, replay | `Acquire`, `AcquireTimeout`, `Release` |
| `delete` | `DeleteLookup`, `DeleteCheck`, `DeleteKill`, `DeleteRm`, `DeleteForget` |
| environment | `StartRequest`, `ServerExits`, `Restart`, `AwaitConnection` |

Abstractions:
- A request whose cap is wrong, and capture, get-envelope and interrupt, change
  nothing after the lookup: they are the operation "read".
- An object that neither the dict nor a thread refers to is reset to `Unused`
  and its identity reused, as Python does with its memory. |Sid| + |Thread|
  identities suffice for an allocation never to block. Which of the unreferenced
  ones an allocation takes is fixed (`FreeObj`): identities are only compared.
- `server[s]` is what tmux knows of a session. "left" is a server that runs and
  that something which the code does not undo has left running: an exception in
  `create` between `new-session` and its `try` (478-505; the `os.open` of
  `pipe_pane_on` needs no tmux fault for it), a `kill-server` or a hydrate that
  failed, or the end of the bridge. "orphan" is one whose kill failed while its
  socket was unlinked all the same: nothing reaches it any more.
- While `Faults` holds any tmux call may fail. That includes a `has-session` that
  answers "gone" of a live server, because the tmux binary or the socket file
  cannot be found: `create` and `_hydrate` do the same on it as on an error.
- The reaper is left out: see section 6.
- A sid is never minted twice (`secrets.token_hex`), and a directory always
  confines under the base.
- Only the server thread and the request threads live in the model: `Restart`
  ends all of them at any point.

### TurnService and TurnProtocol

`TurnService` is what a client of `/session/stream` is promised: one turn at a
time, each is refused or ends once, and one that ends with reason "idle" does so
because claude delivered an envelope for that very turn. `TurnProtocol` is one
session's handler in detail, and implements it (`ImplementsService`, with
`current` mapped to the turn of the lock's holder).

| Code | Actions |
|---|---|
| `_do_stream` | `StartStream`, `Acquire`, `AcquireTimeout`, `Release` |
| `stage_turn` | `Stage`, `SetFlag` |
| `_run_turn_locked` | `Prompt`, `Clear` |
| `_await_completion`, `await_envelope` | `Poll`, `Observe`, `SliceOver`, `Read`, `Screen` |
| `_do_send_key` | `StartKey`, `KeyAcquire`, `KeyType`, `KeyRelease` |
| environment | `Expire`, `ClaudeTurns`, `ClaudeWrites`, `ServerExits`, `TornDown`, `BridgeRestarts`, `Rest` |

Abstractions:
- An envelope is the uuid it echoes and whether its JSON is complete. One that
  the read-back refuses for any other reason (mode, shape, link) counts as one
  that echoes another uuid. One that is cut inside a multi-byte character
  raises `UnicodeDecodeError` (`paths.py`, 271-274), which nothing treats as
  "incomplete": `Read` may end the turn with `error` where it may poll on.
- `flag` is `@wcb_turn`, an option of the tmux server, and goes with it
  (`ServerExits`, `TornDown`).
- `BridgeRestarts` ends the threads and the lock at any point, and leaves files,
  server and flag. What becomes of the turn is recorded in `result` as
  "interrupted" if it was flagged and "lost" otherwise (`Cut`); for TurnService
  the connection broke off without an answer (`CutOff`).
- `env.<uuid>.json` cannot exist before the prompt that names it, so the
  freshness test on its mtime is true of every file it sees; clocks are left out,
  and so is a wall clock that is set back.
- `claude` is a small state machine: it takes prompts at its composer, answers
  any prompt it has got at any later time, asks questions that the classifier
  may or may not recognise, and may exit. It does not touch an envelope that is
  whole.
- `Screen` draws a screen that claude's state allows and acts on what `classify`
  says of it. Because neither depends on the other state of a turn but for the
  timer of the last read, `Verdicts` lists the possible answers once.
- A client that has left shows only when something cannot be written to it: the 200
  (`Stage`) or an event, by `on_event` returning False (`HandleVerdict`). Either may
  happen at any time, so leaving is no action of its own. That a write returns is
  assumed: a turn writes a short line when its state changes and else one
  every 10 s, which the buffer of the socket takes although the client may not read.
- `Observe` and `Read` see the file as it is at that moment; a delete (`TornDown`)
  may remove the directory, and kill the server, at any point of a turn, which is
  what SessionRegistry's finding on `delete` says it may do.

Still one lock: SessionRegistry shows that two turns of a session never hold two
different objects' locks, which is why TurnProtocol may have a single one.

### CommandExec

One `/run` or `/stream` request: the handler, the reader threads and the stdin
thread of `/stream`, the shell, and one process that the shell may leave in the
background of its group. `sent` records the events of a stream, or the fields of
the response to `/run`, as numbered chunks and one exit event.

| Code | Actions |
|---|---|
| `_handle_run` | `Launch`, `RunEncodes`, `RunReads`, `RunCompletes`, `RunTimesOut`, `RunTimesOutInWait`, `RunFails`, `RunFinally` |
| `_handle_stream` | `Launch`, `StreamFails`, `StartWorkers`, `ReapLate`, `Reap`, `Gone` |
| `_reader`, `_pump_output`, `_drain_remaining` | `Reader`, `PumpHead`, `GetEmpty`, `GetEnd`, `GetChunk`, `Drain` |
| `_kill_tree` | `KillTree`, part of the step that calls it |
| stdin thread, `communicate` | `StdinWritten` |
| environment | `Writes`, `Closes`, `Backgrounds`, `ShellExits`, `HelperExits`, `Stalls`, `Disconnects`, `Expire`, `Rest` |

Abstractions:
- POSIX only. SIGKILL takes effect at once, on every process of the group, and a
  killed process keeps no pipe open. The processes of a command stay in the group.
- A chunk is its number; its bytes and their decoding are left out.
- `communicate` of `/run` is the standard library's: it reads both pipes while it
  writes stdin, and completes when both have ended and the shell has.
- A stdin is given or not; a request without one has nothing to write and counts as
  one whose stdin is written.
- The bounded waits (`_STREAM_POLL`, `_REAP_TIMEOUT`, the budget of the drain) may
  be over at any time; the timeout of the request may come at any time.
- A client reads, has stalled (it is there and reads no more), or is gone. No
  socket of the server has a timeout: a write to a stalled client may return, or
  never does (`MayBlock`); one to a client that has gone may still succeed
  (buffers), or fail.
- When a timeout comes while `/run` waits for a shell that has closed both pipes,
  `TimeoutExpired` carries no output (`RunTimesOutInWait`): the response has none,
  although the comment at `server.py:214-215` means to keep what was read. No
  property states that comment; `OutputFaithful` promises all output only with an
  exit code.

### Classifier

`fsm.py` as operators over screens, used by TurnProtocol at every screen read. A
screen is the sequence of its non-blank lines, a line the set of the marks that
the regular expressions look for in it (a rule, the composer's arrow, the idle
and the working footer, the trust question, the assistant's bullet, a shell
prompt's sigil) and of the spinner's elapsed times.

| Code | Operators |
|---|---|
| `footer_of`, `_composer_present`, `_spinner_timer` | `FooterOf`, `ComposerPresent`, `SpinnerTimer` |
| `classify` | `Working`, `WorkingState`, `Classify` |
| the TUI (environment, after `tests/fixtures`) | `Scroll`, `Frame`, `Below`, `Drawn`, `Screens` |

`Drawn` has the hard screens of the fixtures: an advisory below the footer, a
menu whose selected line is above the last six, an exited claude whose last frame
is still there above the shell's prompt, with or without a sigil; and `Scroll`
puts one line above them that quotes any one of the marks. `fsm.py:69` and `:102`
take any last line that ends in `%`, `$` or `#` for a shell prompt, so an advisory
below the footer that ends so hides a working claude. `SigilBelow` adds such
screens: `DeadIsNotAtWork` only holds without them and says so; `turn_live` and
`turn_dead` have them.

### SessionList

`list_sessions` takes a copy of the dict under the lock and computes one row
after the other without it, with up to three tmux calls for each; the result is
cached for `LIST_CACHE_TTL`. `delete` clears the cache, also while a list is
being computed that will be stored after that.

| Code | Actions |
|---|---|
| `list_sessions` | `ListStart`, `RowProbe`, `RowLock`, `ListEnd`, `ListDone` |
| `is_busy` | `RowRelock` (314), `RowFlag` (316, a tmux call), `RowScreen` (a tmux call); `FailAtRow` when one raises |
| the cache | `CacheAges`, `ListEnd`, `Forget` |
| create, lookups | `Insert`, `Claim`, `Complete` |
| a turn | `TurnLocks`, `TurnStages` (sets `@wcb_turn`), `TurnClears`, `TurnReleases` |
| delete, and the rest | `ServerExits`, `Forget`, `Restart` |

The last three rows have the operations of SessionRegistry and TurnProtocol as far
as a list can tell. A turn clears the flag before the handler releases the lock,
with the `done` event in between, and a turn may lock, end and release between any
two steps of a list. Objects are never reused here, because a row may be about one
that left the dict. `straddled` and `held` are history variables: which deletes a
list ran through, and which sessions were busy all the time it took, by their lock
all along or by their flag all along.

That distinction is the code's: `is_busy` looks at the lock first and at the flag
later, so a session whose stale flag is set when the lock is looked at, and whose
lock is held by a short turn that has cleared the flag when the flag is looked at,
is listed idle although it was busy throughout. `BusyThroughoutIsListed` does not
claim otherwise.

With faults a delete that removes the entry "if it is still `s`" may answer while
another object of the sid is READY: a failed hydrate of the same sid had removed
the first. Such an object has no cap and no server. A list that comes to it fails
as a whole, so `GhostStraddlesDelete` and `DeletedVanishes` hold with faults all
the same; `DeletedIsGone` says no more than that its object is without the cap.

### TrayApp

The menu thread of `bridge_app.py` (that of `bridge_app_win.py` has the same
operations) with `bridge_common.py`, the listener it starts and stops, and
request threads as far as the token, the tmux servers and the end of the process
reach into them.
Each write of the token's environment variable, each step of a save and each
socket that quit kills is an action.

| Code | Actions |
|---|---|
| `__init__`, `load_config`, `resolve_token`, `resolve_port` | `Launch` |
| `start`, `stop` | `Start`, `Stop`, `Close` |
| `change_port`, `generate_token`, `clear_token` | `ChangePort`, `GenerateToken`, `ClearToken`, then `SaveTmp`, `SaveReplace` or `SaveRaises`, then `Activate` or `Close` and `Start` |
| `quit`, `kill_all_wcb` | `Quit`, `Close`, `ListSockets`, `Kill`, `Exit` |
| `_authorized`, `_session_authorized` | `Accept`, `Gate`, `Respond` |
| create, delete, and whatever else is answered | `LaunchServer`, `DeleteServer`, `AnswerOnly` |
| environment | `Crash`, `Rest` |

Abstractions: the token and the port are all there is of a configuration; dialogs,
clipboard and labels are left out; `os.replace` is atomic; a create is its gate
and its `new-session`, a delete its `kill-server` with what it unlinks. `hidden`
has the servers whose socket file a delete unlinked although its kill failed:
`kill_all_wcb` lists files, so `ListSockets` does not see them; it may also fail to
list anything, and then nothing is killed. `owned` are the sids in the dict of this
life, the only ones that a delete can name. `Env` has the launch environments:
`bridge_core` takes the one without either variable, and the one with both. `due`, `before`, `unsaved`, `lagging`, `caught` and
`excused` are history variables: what the menu showed while a request was on its
way, what was saved before a change, and which servers a quit could not see.

### Proof modules and MC modules

The theorems (section 5) are in modules of their own: `SessionRegistryProofs`, and
on top of it `HydrationProofs` and `LifecycleProofs`, for SessionRegistry;
`TurnProofs` for TurnProtocol and its refinement of TurnService, and on top of it
`ScreenProofs` for Classifier and what a turn makes of its answers;
`SessionListProofs`, `CommandProofs` and `TrayProofs`. `MCSessionRegistry` and
`MCTurnProtocol` only add the symmetry sets for TLC, `MCTrayApp` the two launch
environments of its run.

## 3. Runs

| Run | Properties | Instance | Shows |
|---|---|---|---|
| `registry_core` | `TypeOK`, `TurnExclusion`, `RegistryInv`, `OneHydrator`, `WaiterHasWaker`, `HydrationInv`, `NoStraySession`, `WaiterIsWoken` | 2 clients, 1 sid, 3 objects, faults, 1 restart, fairness; 68 000 states | turns exclude each other whatever happens to the dict; an object has one hydrator; a waiter always has a thread that will wake it, and is woken; every server that runs unregistered was left so by a step that the model names |
| `registry_delete` | `DeleteIsFinal`, `OvershootBounded`, `LifecycleInv` | 2 clients that create and delete, 3 sids, 5 objects, `MaxSessions` 1, no tmux faults, 1 restart; 337 000 states | deletes stay deleted in the dict; the cap is missed by at most the other creates in flight |
| `turn_core` | `TypeOK`, `FlagNamesRunningTurn`, `RunningTurnIsStaged`, `DoneIsFetchable`, `TurnInv`, `ImplementsService`, `DeadIsNotAtWork`, `QuestionIsReported` | 2 threads, 2 turns, faults, a delete and restarts at any point, no sigil below the footer; 1 090 000 states | turns are answered by their own envelopes and leave no trace in each other; a turn that its bridge's end cut off keeps the session flagged; a working claude is not reported dead, and its question is not waited on |
| `turn_live` | `StreamEnds`, `LockComesFree` | 2 threads, 1 turn, faults, restarts, any screen, fairness; 34 000 states | every stream ends, and every way through stream and send-key releases the lock |
| `command_core` | `TypeOK`, `OutputFaithful`, `NoShellLeft`, `CommandInv`, `RequestEnds` | `/run` and `/stream`, 2 chunks per stream, fairness; 594 000 states | output complete and in order, no shell left running; a timed request ends unless its client is there and reads no more |
| `list_core` | `TypeOK`, `GhostStraddlesDelete`, `BusyThroughoutIsListed`, `ListInv`, `DeletedVanishes` | 2 listers, 1 sid, 2 objects, faults, 1 restart, fairness; 564 000 states | a deleted session is only shown by a list that ran through its delete, and soon by none; a session busy throughout is listed busy |
| `bridge_core` | `TypeOK`, `StatusIsTrue`, `JudgedByShownToken`, `SettingsSurvive`, `QuitLeavesOnlyExcused`, `TrayInv` | 1 request thread, 2 tokens, 2 ports, 1 sid, 2 launches, with and without the environment variables; 1 960 000 states | the menu is true, requests are judged by a token it showed, no crash loses the settings, a quit leaves only servers that are excused by name |

Runs that show a disagreement between the code and what the repository says of
it (the findings of `PROJECT.json` quote the lines):

| Run | Property | What the code does |
|---|---|---|
| `registry_teardown` | `TeardownExcludesTurn` | delete tears down under a turn that has just started |
| `registry_adopted` | `ServedSessionHasCap` | a re-adopted session has no cap and refuses everyone |
| `turn_dead` | `GoneServerEndsDead` | a gone server ends a turn with `error`, never `dead` |
| `command_survivor` | `TimeoutKillsGroup` | what a shell left in the background survives the timeout when the shell itself has exited |
| `list_gone` | `GoneSessionIsListed` | a READY session whose server is gone fails the whole list, and is not listed with `alive` false |

Further statements of the repository that the models contradict, without a run of
their own because a checked property says what is left of them:
- CHANGELOG.md, "Max 8 concurrent sessions": `create` compares the number of
  sessions with `MAX_SESSIONS` and inserts its own seconds later.
  `OvershootBounded` says by how much creates may miss it; sessions re-adopted
  after a restart are not counted against it at all.
- `bridge_app.py:199-200`, "so a quit never leaves orphaned tmux servers": quit
  lists socket files, and a delete whose `kill-server` failed has unlinked the file
  of a server that runs on. `QuitLeavesOnlyExcused` excuses it by name (`hidden`),
  beside those that quit failed to kill or to list, and those that a create in
  flight launched later.
- `server.py:214-215`: see `RunTimesOutInWait` in section 2.

`NoShellLeft` has one exception, a `/run` whose stdin cannot be encoded: the
encoding comes after `Popen` and before the `try`, and the shell is left running.

`create` publishes its object before it is READY and without claiming it. A
lookup of that sid, which `/session/list` already shows, may fail to hydrate it
and remove it, and create then answers 200 for a session that the dict no longer
has: the model has that behaviour, and no document speaks of it. It hangs
together with the finding on `registry_adopted`. If `_hydrate` restored the cap
and nothing else changed, a session removed in this way would come back as a
second object with the same cap and another lock, and `TurnExclusion` would
fail: that is the mutant `HydratedWithCap`. The mutual exclusion of turns rests,
today, on re-adopted sessions being unusable.

More properties name what the code does not promise:
- `is_busy` makes its tmux calls outside any `try`: one READY session whose server
  is gone makes the whole list a 502 (`list_gone`).
- A list that ran through a delete is stored after the delete cleared the cache:
  `GhostStraddlesDelete` allows it, `DeletedVanishes` bounds it.
- `DeleteIsFinal` is about the dict. A request that had looked the object up before
  still has it, passes its cap check, and may be served by a session that is gone
  (a turn on it ends with an error: `TornDown`). It needs that tmux does not fail: a
  hydrate that fails on one removes an entry without its server.
- `create` leaves a server behind when something raises between `new-session` and
  its `try` ("left" in SessionRegistry). `NoStraySession` excuses it by that name.
- A save that raises leaves the menu with a token or a port that is neither saved
  nor in force; `StatusIsTrue`, `JudgedByShownToken` and `SettingsSurvive` except
  it by name.

### Bounds

- *Threads.* A race in the registry is between the thread that acts and one that
  undoes what it saw: a lookup, a failing hydrator, a delete, with a restart and an
  exiting server beside them. The runs have two threads. What more could do is
  covered by the proofs, which hold for any number of threads, listers and
  requests; only liveness rests on the small instances alone.
- *Sids.* Operations of different sids share only the number of entries, so one
  sid suffices, except for the cap (three: two for an overshoot, and one for a
  place that a delete has freed). `SidLeft` bounds the creates by |Sid|. A list
  treats its rows one by one and fails as a whole; one sid, with two objects in
  turn (the one that a delete or a failed hydrate removes and its successor, or one
  on each side of a restart), has every row that can fail. `list_gone` has two.
- *Operations.* `registry_core` has all of them. `registry_delete` has creates and deletes: a delete begins with the lookup
  of a read, hydration included, and a read does no more to the dict than that.
- *Restarts.* `MaxRestarts` is 1: a restart empties all state that a second one
  would, and the states after it (live servers, caps in clients' hands, an empty
  dict) are the ones a second one would leave.
- *MaxSessions* is 1 where the cap is the question, and out of reach elsewhere.
- *Turns.* Two uuids: a late envelope needs one earlier turn. With one for
  liveness, two threads still meet: one streams, the other sends keys.
- *Chunks.* Two per stream and two streams: chunks can be reordered, lost or
  repeated in a stream and between the loops of the pump and of the drain.
- *Screens.* Every state of claude with every line of `Scroll` above it; the
  classifier looks at the last rule, the last six lines and the presence of marks
  only, so one quoted line is as good as several of that mark.
- *Tray application.* Two launches: a change that was cut off shows in the next
  one. One request thread: threads meet only through the token and the servers,
  which the menu thread changes. Two tokens and two ports: the old and the new.
  One sid, which each launch may use again: quit kills its sockets one by one, and
  its server may be one that it lists, one it cannot see, or one that comes later;
  that these may stand beside each other is covered by the proof. Two environments:
  a variable that is set wins over the file, so each setting is once from the
  environment and once from the file.
- Symmetry of clients, sids and objects (threads and uuids) is used only in runs
  without liveness.

### Fairness

Weak fairness of `Step(t)` for each thread: a request thread that has work is
scheduled by the operating system; each of its tmux calls returns or times out
(`TmuxClient._run`, 10 s), its acquire is bounded (2 s), its turn has a deadline,
and the few lines that it writes fit into its socket's buffer. `turn_live` adds
that the deadline comes (`Expire`). Nothing is assumed of clients, of claude, of
servers that exit, of restarts, or of `READY_TIMEOUT`: `WaitTimeout` is not part of
`Step`, so `WaiterIsWoken` says that the event wakes a waiter, not its timeout.

`command_core` assumes that the handler is scheduled where it cannot block on its
client (`Handler /\ ~MayBlock`): its waits for the shell and its queue have bounds,
but output of any size goes through `wfile.write`, which has none. It assumes that a
reader with data or an end returns from its read, and that a timeout elapses.
Nothing is assumed of the shell, of its background process, of the stdin thread or
of the client; `RequestEnds` makes an exception of a client that stalls for good.

`list_core` assumes that a lister is scheduled, each of its tmux calls returns or
times out, and that time passes (`CacheAges`); nothing of the requests beside it.

Deadlock is checked in every run: `AwaitConnection` and `Rest` stutter only when
no thread has work (in CommandExec: when the request is over; in TrayApp: when
the application is down or waits for its user).

## 4. Mutants

Every property of a passing run has a mutant: a definition with a plausible bug
(`...Unclaimed`, `...OnSuccess`, `...Forgets`), written just before the
definition it changes, under which the property fails. They are not part of the
specification.

## 5. What is proved

Every invariant and every action property of the passing runs is a theorem about
all values of the constants: any sets of threads, listers, turns, sids, objects,
tokens and ports, with and without tmux faults, any number of restarts, launches
and chunks, any cap on sessions. The proofs
assume the named assumptions of the modules and nothing else:
- `None` is a value of its own (`NoneAssumption`, `ListNoneAssumption`,
  `RowNoneAssumption`, `TrayNoneAssumption`, `TrayConfigAssumption`): Python's None
  is no sid, object, thread, reason, row, token, port or configuration;
- bounds are natural numbers, `MAX_SESSIONS` a positive one, as the source has it
  (`BoundsAssumption`, `ListBoundAssumption`, `MaxChunksAssumption`,
  `TrayBoundAssumption`);
- the default port is a port, and each launch environment has a token and a port
  or lacks them (`TrayPortAssumption`, `TrayEnvAssumption`);
- there are finitely many threads and sids (`FinitenessAssumption`), which
  `OvershootBounded` needs to count.

What the operating system, tmux and claude do is in the environment of the models,
and so holds with the limits that section 2 names. Every module is proved in the
same way: the property is seldom inductive, so the component's module defines an
inductive invariant (`RegistryInv`, `HydrationInv`, `LifecycleInv`, `ListInv`,
`TurnInv`, `CommandInv`, `TrayInv`), which a run checks and of which the property is
a part or a consequence; a lemma per group of actions shows that they preserve it.
(`registry_delete` checks `LifecycleInv` without faults, where all of its parts
apply; with faults `registry_core` checks its `NoStraySession`. The theorem covers
both.)

### Turns, claims and waiters

`SessionRegistryProofs` proves

- `TypeCorrect`: `Spec => []TypeOK`.
- `RegistryInvariant`: `Spec => []RegistryInv`, the inductive invariant.
- `MutualExclusion`: `Spec => []TurnExclusion`;

and `HydrationProofs`, on top of it,

- `HydrationInvariant`: `Spec => []HydrationInv`, a second inductive invariant.
- `OneWinner`: `Spec => []OneHydrator`.
- `NoLostWakeup`: `Spec => []WaiterHasWaker`.

`TurnExclusion` speaks of two threads in a turn of one sid, and says nothing of
the objects they hold; it is not inductive. `RegistryInv` adds
- `RequestsNamed`, `ReferencesMatch`: what a thread holds is an object of the sid
  its request names, and so is what the dict maps a sid to;
- `TurnsGuarded`: a turn's object holds the cap, and its lock is the thread's;
- `CapUnique`: at most one object of a sid holds its cap;
- `CreatesFresh`: create, the only source of caps, works on a sid that nobody
  knows and that no other create has.

Two threads in turns of one sid then hold objects with that sid's cap, hence the
same object, whose lock names both: they are one thread. The proof that each
step preserves the invariant rests on a few lemmas about the ways in which
actions change the objects: `Frame` (a step that moves no reference and leaves
caps and sids alone keeps everything but the part it touches), `FinishFrame` (a
thread that finishes drops its reference, and a reset object was referred to by
no one else), `MoveFrame`, `HoldFrame`. One lemma per group of actions follows
the groups of `Next`.

`OneHydrator` and `WaiterHasWaker` are about the protocol of claim, status and
event of an object, and not inductive either: an object that nobody waits on may
still have an open claim, and a thread that has just won must know that no one
else will. `HydrationInv` says
- `ClaimsHeld`: a winner's object is claimed, and no other winner has it;
- `ClaimsWaken`: a claimed object whose event is not set is the object of a thread
  that will set it, a hydrator or its create;
- `ReadyIsNext`: an object that is READY without its event set is held by a
  thread whose next step sets it, so that a winner that finds it READY and goes
  on leaves nobody waiting.

It needs of `RegistryInv` only that a thread's object belongs to its request
(`RequestsNamed`), so that a finished thread's object, when it is reset, was
nobody else's. The proof first reduces an action to what it does to claims,
statuses and events (`Steady`, `Reclaimed`, `Promoted`), in three lemmas:
`HydrationFrame` (a step that wins nothing), `CalmFrame` (a thread outside the
protocol), `ClaimFrame` (a step that wins). One lemma per group of actions
applies them.

### Create and delete

`LifecycleProofs`, on top of `SessionRegistryProofs`, proves
- `LifecycleInvariant`: `Spec => []LifecycleInv`;
- `OvershootHolds`: `Spec => []OvershootBounded`;
- `NoneLeftRunning`: `Spec => []NoStraySession`, with faults and without;
- `DeletedNeverServed`: `DeleteIsFinal` is an invariant of `Spec` if `~Faults`. With
  tmux faults it is false, as its comment says; a restart does not break it.

All are about what a thread found out and acts on later, without a lock in between.
The argument: only `create` starts servers, and only for a sid that nobody else
knows (`CreatesFresh` of `RegistryInv`, `WorkIsKnown`), so that a server which a
delete ended, or made unreachable, stays so (`GoneStaysGone`), and an entry that the
delete then removes is not that of a running server. A failed hydrate removes its
entry too, and is a cause that `ServerState` names; so is an exception in `create`
before its `try`. From the `try` on, `create` kills what it does not publish, and
between two of its steps it is itself who answers for the server: `NoStraySession`.

A create that is past the check has its place counted with the sessions that creates
have published, and no two creates publish one sid (`PlacesCounted`, `CapIssuedLast`);
`MaxSessions - 1 + |Thread|` bounds the sum because the check admits a thread only
below `MaxSessions`, when at most the other threads are past it (`PlacesBound`).
Without faults, a thread that takes an entry out of the dict saw the server gone or
killed it, so the object with the cap leaves last (`CapLeavesLast`), and what comes
after it, a placeholder of a lookup, cannot become READY; a client can only delete
with the cap (`DeleteIsAuthorised`), so that `DeletedIsGone`.

The proof reduces each action to an `Effect` of its thread on the dict, the
objects, the servers, the sets of sids and the creates; `ControlFrame`, `CapFrame`,
`PlacesFrame`, `StrayFrame` and `FaultlessFrame`, one for each part of the invariant,
show that an effect preserves it, and `LifecycleFrame` combines them.

### The session list

`SessionListProofs` proves `ListInvariant` (`ListInv`), `ListTypes`, and from them
`GhostsStraddle` and `BusyIsListed`, that is `GhostStraddlesDelete` and
`BusyThroughoutIsListed`, all with tmux faults. A list is a copy of the dict that
ages while it is worked off. `ListInv` says how far it may be behind: its objects are
of different sids without a row (`CopyIsKept`); what was deleted before it began is
in it as an object without the cap only (`BeganWithoutDeleted`, with `RegistryAgrees`
and `DeletedIsGone` for the dict itself), and such an object cannot get a row as a
session, because its capture fails; and a session busy throughout for one reason is
yet to be listed, is in hand at a point where that reason is still to be looked at,
or was listed busy (`HeldIsBusy`). The last needs that a session has one object with
the cap, that only such a one is locked, and that a flag needs a server. The steps of
the registry and those of other lists are treated once, as what they may do to the
objects a list holds (`RegistryPersists`, `RegistryKept`).

### The turns of a session

`TurnProofs` proves
- `TurnInvariant`: `Spec => [](TypeOK /\ TurnInv)`;
- `TypeCorrect`, `FlagIsRight`, `DocumentStays`, `EnvelopeStays`: `TypeOK`,
  `FlagNamesRunningTurn`, `RunningTurnIsStaged` and `DoneIsFetchable`, invariants of
  `Spec`;
- `Refinement`: `Spec => ImplementsService`.

None of the parts of `TurnInv` is inductive alone. While the server that holds it
lives, the durable flag names the turn of whoever holds the session's lock, or the
latest turn if a restart cut it off (`FlagNamesRunningTurn`), which is stable because
only the holder is past the admission (`LockIsHeld`), no two threads have one turn
(`TurnsOwned`), and who sets or clears the flag has the latest turn. That the holder's turn is the latest one and its
document staged (`RunningTurnIsLatest`) is what makes an "idle" well-founded: the
envelope it read is that of its own turn and was delivered (`OutcomeIsFounded`),
since an envelope that is accepted at all was delivered for its turn
(`AcceptedIsDelivered`). `DoneIsFetchable` then says that the answer a client is
told of can be read back. The refinement maps `current` to the turn of the
lock's holder; a step of a stream is a begin, an end or a stutter of TurnService
(`StreamRefines`), and any other step leaves holder and outcomes alone
(`OtherRefines`).

### The screen

`ScreenProofs` proves two theorems about the classifier alone:
- `WorkIsNeverDead`: a screen that ends in what claude draws while it works or waits
  at its composer is not taken for dead;
- `QuestionIsSeen`: one that ends in the trust question is reported as such;

each for every sequence of lines above it, where the runs put at most one line
(`Scroll`). They need that the part at the bottom holds a composer in its last six
lines and no sigil in its last one (`WorkHasComposer`), and that putting lines above
a screen changes neither (`ComposerBelow`, `ShownBelow`). With them, `NeverDeadAtWork`
and `QuestionEndsTurn` prove `DeadIsNotAtWork` and `QuestionIsReported` as properties
of every step, for any number of threads; an outcome is only set by the step that
ends a turn (`OutcomeComesLast`), so that a turn that is about to read the screen
has no earlier "dead".

### A command

`CommandProofs` proves, for output of any length, `CommandInvariant` (`CommandInv`),
`CommandTypes`, `OutputIsFaithful` and `NoShellIsLeft`. `OutputFaithful` speaks of
what was sent, and is the end of a chain that starts at the pipes. In `CommandInv`,
what was read is in the queue or sent (`NothingLost`), older before newer, and a
stream's end is the last of it in the queue (`LineInOrder`); a reader that has ended
has read everything (`ReadersReadAll`); the count of open streams is that of the
ends yet to come (`OpenCounts`), so that the loop of `_pump_output` is left, and an
exit code sent, only when nothing can follow (`ExitIsFinal`). `ShellIsKept` and
`Phases` say where the handler is, and what runs there. The queue and the record of
what was sent are sequences: the lemmas about them (`HasAppended`, `HasDropped`,
`SentGrows`, `QueueGrows`, `QueueShrinks`) rest on the library's SequenceTheorems,
and the handler's and readers' steps are first reduced to what they do to the two
(`LineSteps`).

### The tray application

`TrayProofs` proves `TrayInvariant` (`TrayInv`), `TrayTypes`, `StatusHolds`,
`GatesAreFair`, `QuitLeavesNone` (the properties `StatusIsTrue`, `JudgedByShownToken`
and `QuitLeavesOnlyExcused`), and the action property `SettingsSurvive`
(`SettingsAreKept`). Where the menu thread is goes with its operation (`Stages`), the
listener is on the port the menu shows unless a change of port is on its way
(`ServesShownPort`); the token in force is one that the menu shows
(`ActiveIsShown`) and the judgement of a request covers every token shown while it
waits (`GateIsWatched`); while a quit kills, servers are those it has yet to kill,
those it may leave, and those whose socket file is gone (`KillCovers`). A file is
gone only of a server that no delete can name again (`TypeOK` has it), because a
delete takes the sid out of the dict with it. `FileIsKept` relates the file, the
memory of the application and the menu at each point of a save, so that whatever a
crash leaves, the next launch reads a setting that was shown.

### Only model-checked

All liveness: `WaiterIsWoken`, `StreamEnds`, `LockComesFree`, `RequestEnds` and
`DeletedVanishes`. Fairness and ENABLED are out of the prover's reach.

## 6. Not modelled

- The origin and body gates of `do_POST` and of `_dispatch_session`: functions of
  one request that keep no state. (A cap with non-ASCII characters makes the
  comparison raise, and is answered with 400, not 403; nothing changes state.)
- The contents of the log and of replay: the offset base of a session is set to
  0 and never changed, so that replay is a function of one read of the file.
- Path confinement and file modes (`paths.py`): strings and permissions. Clocks:
  the freshness test compares a file's mtime with the wall clock, and a clock
  that is set back could refuse a fresh envelope.
- The regular expressions of `fsm.py`, abstracted to marks. That the words of the
  trust question, quoted anywhere on the screen, end a turn as awaiting_input is
  in the model and forbidden by no document.
- `interrupt`, which compares process groups of the pane with the shell's pid: it
  depends on the job control of a shell that is not in the repository.
- The Windows side of `server.py` (`taskkill`, the second `communicate`), and that
  the first start of `bridge_app_win.py` runs on pystray's setup thread: which of
  two overlapping starts binds first is up to pystray and the socket options.
- `ensure_user_path`, which runs once before anything else.
- `reap` and `_evict` (`session_registry.py:891-956`). Nothing in the program calls
  them, only their tests do, so their interleavings with requests are no behaviour
  of the program. (If something did call them: two passes in which `has_session`
  answers "gone" evict a session, and that answer is also what a missing tmux binary
  or a lost socket file gives of a live server, `tmux_session.py:60-62` and `:95-97`.)
- A failed create leaves the session's directory and cap file behind. The model
  has it (`dir`), and no property: no document promises their removal.
- Installers, packaging, examples: no state at run time.

The modules are composed by what they assume of each other, each shown where it is
modelled: one lock per session (`TurnExclusion`, for TurnProtocol), a delete that
may strike in mid-turn (`TeardownExcludesTurn`, for `TornDown`), a durable flag
that is set from the staging of a turn to its clearing as long as the server lives
(`FlagNamesRunningTurn`, for SessionList's `TurnStages` and `TurnClears`), servers
whose socket is unlinked while they run on (SessionRegistry's "orphan", for TrayApp's
`hidden`), creates beside a quit (`LaunchServer`). One product of registry and turns
is beyond TLC at bounds at which their races happen.

## 7. Plan

Done, in this order: `SessionRegistry` with its runs (the core), `TurnService`
and `TurnProtocol` with its refinement, `SessionRegistryProofs`, `CommandExec`,
`Classifier` in TurnProtocol, `SessionList`, `TrayApp`, `HydrationProofs`,
`TurnProofs`, `SessionListProofs`, `CommandProofs`, `TrayProofs`, `LifecycleProofs`,
`ScreenProofs`.

Next theorems:
1. The safety half of `StreamEnds`: that a turn whose deadline has passed goes
   through the loop at most once more (a variant that decreases, as an action
   property).
2. `LaunchServer` beside a quit and a `create` of SessionRegistry start servers under
   the same conditions: that TrayApp's request threads are an abstraction of it.

Next module: `Gates`, the origin, token, body and cap checks of the endpoints as
a function of the request: which failure answers first, and that changing a later
field passes no earlier gate.
