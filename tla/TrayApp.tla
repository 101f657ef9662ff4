------------------------------- MODULE TrayApp -------------------------------
(***************************************************************************)
(* The tray application (src/bridge_app.py; src/bridge_app_win.py has the  *)
(* same operations) with its settings (src/bridge_common.py), the listener *)
(* it starts and stops, and the request threads of that listener as far as *)
(* the settings and the application's end reach into them: the token gates *)
(* of server.py and session_endpoints.py, and creates and deletes that     *)
(* launch a tmux server, or fail to kill one, while the application quits. *)
(*                                                                         *)
(* Menu callbacks run one after the other on one thread; the environment   *)
(* variable that holds the token is the only thing they share with the     *)
(* request threads.  (On Windows the first start runs on a thread of its   *)
(* own, beside the menu; that is not modelled.)                            *)
(***************************************************************************)
EXTENDS Naturals, FiniteSets

CONSTANTS
    Client,       \* request threads
    Token,        \* bearer tokens: those that Generate may mint, and the
                  \* one in the launch environment
    Port,         \* ports that are valid and that the user may choose
    Sid,          \* session ids; bounds the sessions created
    None,         \* Python's None, an unset variable, an absent key
    DefaultPort,  \* DEFAULT_PORT
    Env,          \* what WEB_CLI_BRIDGE_TOKEN and WEB_CLI_BRIDGE_PORT may be
                  \* at launch
    MaxLaunches   \* bound on the launches of the application

ASSUME TrayNoneAssumption == None \notin Client \cup Token \cup Port \cup Sid
ASSUME TrayPortAssumption == DefaultPort \in Port
ASSUME TrayEnvAssumption ==
    Env \subseteq [token : Token \cup {None}, port : Port \cup {None}]
ASSUME TrayBoundAssumption == MaxLaunches \in Nat

VARIABLES
    env,        \* the environment that each launch starts from
    up,         \* does the application run?
    launches,   \* its launches so far
    ui,         \* where the menu thread is
    task,       \* the menu operation it is in
    token,      \* self.token, which the menu shows and copies
    port,       \* self.port, which the menu shows
    cfg,        \* self.cfg
    file,       \* config.json: its settings, None when it does not parse
    active,     \* os.environ[WEB_CLI_BRIDGE_TOKEN], which the gates read
    httpd,      \* the port self.httpd was made for, None without one
    listening,  \* the port on which connections are accepted, None if closed
    doomed,     \* the sockets kill_all_wcb has yet to kill
    pc,         \* where each request thread is
    req,        \* the request it serves
    servers,    \* the wcb_* tmux servers that run
    hidden,     \* those whose socket file delete unlinked, and that run on
    owned,      \* the sids in the dict of this life, with a cap
    issued,     \* the tokens that some user has been given
    before,     \* token and port as last saved when their change began
    unsaved,    \* the settings whose last change could not be saved
    lagging,    \* those that it did not put into force either
    due,        \* how the gate may judge a request, by the tokens shown meanwhile
    caught,     \* the requests in flight when quit listed the sockets
    excused,    \* servers that a quit may leave: see LaunchServer, Kill, List
    ended       \* how the last life of the application ended

uiVars == <<ui, task, token, port, cfg, file, active, httpd, listening, doomed>>
serverVars == <<servers, hidden, owned>>
requestVars == <<pc, req, serverVars>>
historyVars == <<issued, before, unsaved, lagging, caught, excused, ended>>
vars == <<env, up, launches, uiVars, requestVars, historyVars, due>>

-----------------------------------------------------------------------------
Config == [token : Token \cup {None}, port : Port \cup {None}]

ASSUME TrayConfigAssumption == None \notin Config

EmptyConfig == [token |-> None, port |-> None]

\* A run: let in without a token when none is set; a session's request: not.
Request == [kind : {"run", "session", "none"}, cred : Token \cup {None}]

NoRequest == [kind |-> "none", cred |-> None]

\* load_config: no file and a file that does not parse are an empty config.
Loaded(f) == IF f = None THEN EmptyConfig ELSE f

\* Mutant: no default for the port.
ResolvePortNoDefault(c) == IF env.port # None THEN env.port ELSE c.port

\* resolve_token and resolve_port: environment, then config, then default.
ResolveToken(c) == IF env.token # None THEN env.token ELSE c.token

ResolvePort(c) == IF env.port # None THEN env.port
                  ELSE IF c.port # None THEN c.port ELSE DefaultPort

Init ==
    /\ env \in Env
    /\ up = FALSE
    /\ launches = 0
    /\ ui = "rest"
    /\ task = "none"
    /\ file \in {EmptyConfig, None}
    /\ token = None
    /\ port = DefaultPort
    /\ cfg = EmptyConfig
    /\ active = None
    /\ httpd = None
    /\ listening = None
    /\ doomed = {}
    /\ pc = [r \in Client |-> "idle"]
    /\ req = [r \in Client |-> NoRequest]
    /\ servers = {}
    /\ hidden = {}
    /\ owned = {}
    /\ issued = IF env.token = None THEN {} ELSE {env.token}
    /\ before = [token |-> None, port |-> DefaultPort]
    /\ unsaved = {}
    /\ lagging = {}
    /\ due = [r \in Client |-> {}]
    /\ caught = {}
    /\ excused = {}
    /\ ended = "none"

-----------------------------------------------------------------------------
(* The life of the process *)

\* BridgeApp.__init__, then app.start before the menu runs.
Launch ==
    /\ ~up /\ launches < MaxLaunches
    /\ up' = TRUE
    /\ launches' = launches + 1
    /\ cfg' = Loaded(file)
    /\ token' = ResolveToken(cfg')
    /\ port' = ResolvePort(cfg')
    /\ active' = token'
    /\ httpd' = None
    /\ ui' = "start"
    /\ task' = "none"
    /\ before' = [token |-> token', port |-> port']
    /\ unsaved' = {}
    /\ lagging' = {}
    /\ caught' = {}
    /\ excused' = {}
    /\ ended' = "none"
    /\ UNCHANGED <<env, file, listening, doomed, requestVars, issued>>

\* The process ends: its listener and its request threads (they are daemon
\* threads) go with it, the tmux servers do not.
Ends(how) ==
    /\ up' = FALSE
    /\ ended' = how
    /\ ui' = "rest"
    /\ cfg' = EmptyConfig
    /\ active' = None
    /\ httpd' = None
    /\ listening' = None
    /\ doomed' = {}
    /\ pc' = [r \in Client |-> "idle"]
    /\ req' = [r \in Client |-> NoRequest]
    /\ owned' = {}
    /\ lagging' = {}
    /\ caught' = {}

\* The process is killed at any point.
Crash ==
    /\ up
    /\ Ends("crash")
    /\ UNCHANGED <<env, launches, task, token, port, file, servers, hidden,
                   issued, before, unsaved, excused>>

-----------------------------------------------------------------------------
(* The menu *)

AtRest == up /\ ui = "rest"

\* start: a running server is left alone; a port that is taken is reported.
Start ==
    /\ up
    /\ \/ ui = "rest" /\ httpd = None
       \/ ui = "start"
    /\ \/ httpd' = port /\ listening' = port
       \/ httpd' = None /\ UNCHANGED listening
    /\ lagging' = lagging \ {"port"}
    /\ ui' = "rest"
    /\ task' = "none"
    /\ UNCHANGED <<env, up, launches, token, port, cfg, file, active, doomed,
                   requestVars, issued, before, unsaved, caught, excused,
                   ended>>

\* Mutant: the listener is shut down but kept.
CloseKeepsListener ==
    /\ up /\ ui = "stop"
    /\ httpd' = None
    /\ ui' = CASE task = "port" -> "start"
               [] task = "quit" -> "list"
               [] task = "none" -> "rest"
    /\ UNCHANGED <<env, up, launches, task, token, port, cfg, file, active,
                   listening, doomed, requestVars, historyVars>>

\* stop: shutdown and server_close.  Requests in flight go on.
Close ==
    /\ up /\ ui = "stop"
    /\ httpd' = None
    /\ listening' = None
    /\ ui' = CASE task = "port" -> "start"
               [] task = "quit" -> "list"
               [] task = "none" -> "rest"
    /\ UNCHANGED <<env, up, launches, task, token, port, cfg, file, active,
                   doomed, requestVars, historyVars>>

Stop ==
    /\ AtRest /\ httpd # None
    /\ ui' = "stop"
    /\ UNCHANGED <<env, up, launches, task, token, port, cfg, file, active,
                   httpd, listening, doomed, requestVars, historyVars>>

\* Mutant: the new port is not entered in cfg before the save.
ChangePortOfMenu ==
    /\ AtRest
    /\ \E p \in Port \ {port} : port' = p
    /\ before' = [before EXCEPT !.port =
                              IF "port" \in unsaved THEN @ ELSE port]
    /\ task' = "port"
    /\ ui' = "tmp"
    /\ UNCHANGED <<env, up, launches, token, cfg, file, active, httpd,
                   listening, doomed, requestVars, issued, unsaved, lagging,
                   caught, excused, ended>>

\* The first lines of change_port, generate_token and clear_token: attribute and
\* cfg change, then the save begins.  (Dialogs that are cancelled, text that is
\* no valid port and a port that does not change return before that.)
ChangePort ==
    /\ AtRest
    /\ \E p \in Port \ {port} : port' = p /\ cfg' = [cfg EXCEPT !.port = p]
    /\ before' = [before EXCEPT !.port =
                              IF "port" \in unsaved THEN @ ELSE port]
    /\ task' = "port"
    /\ ui' = "tmp"
    /\ UNCHANGED <<env, up, launches, token, file, active, httpd, listening,
                   doomed, requestVars, issued, unsaved, lagging, caught,
                   excused, ended>>

ChangeToken(new) ==
    /\ AtRest
    /\ token' = new
    /\ cfg' = [cfg EXCEPT !.token = new]
    /\ before' = [before EXCEPT !.token =
                              IF "token" \in unsaved THEN @ ELSE token]
    /\ task' = "token"
    /\ ui' = "tmp"
    /\ UNCHANGED <<env, up, launches, port, file, active, httpd, listening,
                   doomed, requestVars, unsaved, lagging, caught, excused,
                   ended>>

\* secrets.token_urlsafe: a token that nobody has.
GenerateToken ==
    \E new \in Token \ issued :
        /\ new = CHOOSE t \in Token \ issued : TRUE
        /\ ChangeToken(new)
        /\ issued' = issued \cup {new}

ClearToken == token # None /\ ChangeToken(None) /\ UNCHANGED issued

\* save_config raises: the callback ends there, and the change stays in the
\* attributes only.
SaveRaises ==
    /\ up /\ ui \in {"tmp", "replace"}
    /\ unsaved' = unsaved \cup {task}
    /\ lagging' = lagging \cup {task}
    /\ ui' = "rest"
    /\ task' = "none"
    /\ UNCHANGED <<env, up, launches, token, port, cfg, file, active, httpd,
                   listening, doomed, requestVars, issued, before, caught,
                   excused, ended>>

\* Mutant: config.json is written in place.
SaveTmpInPlace ==
    /\ up /\ ui = "tmp"
    /\ file' = None
    /\ ui' = "replace"
    /\ UNCHANGED <<env, up, launches, task, token, port, cfg, active, httpd,
                   listening, doomed, requestVars, historyVars>>

\* write_config_text: the config goes to config.json.tmp ...
SaveTmp ==
    /\ up /\ ui = "tmp"
    /\ ui' = "replace"
    /\ UNCHANGED <<env, up, launches, task, token, port, cfg, file, active,
                   httpd, listening, doomed, requestVars, historyVars>>

\* ... which then replaces config.json.  A new port restarts a running server;
\* a new token still has to be put into force.
SaveReplace ==
    /\ up /\ ui = "replace"
    /\ file' = cfg
    /\ unsaved' = {}
    /\ before' = [before EXCEPT !.port = port]
    /\ IF task = "token" THEN ui' = "activate" /\ UNCHANGED task
       ELSE IF httpd # None THEN ui' = "stop" /\ UNCHANGED task
       ELSE ui' = "rest" /\ task' = "none"
    /\ UNCHANGED <<env, up, launches, token, port, cfg, active, httpd,
                   listening, doomed, requestVars, issued, lagging, caught,
                   excused, ended>>

\* Mutant: an empty token leaves the variable as it is.
ActivateOnlySets ==
    /\ up /\ ui = "activate"
    /\ active' = IF token # None THEN token ELSE active
    /\ lagging' = lagging \ {"token"}
    /\ before' = [before EXCEPT !.token = token]
    /\ ui' = "rest" /\ task' = "none"
    /\ UNCHANGED <<env, up, launches, token, port, cfg, file, httpd, listening,
                   doomed, requestVars, issued, unsaved, caught, excused,
                   ended>>

\* set_active_token.
Activate ==
    /\ up /\ ui = "activate"
    /\ active' = token
    /\ lagging' = lagging \ {"token"}
    /\ before' = [before EXCEPT !.token = token]
    /\ ui' = "rest"
    /\ task' = "none"
    /\ UNCHANGED <<env, up, launches, token, port, cfg, file, httpd, listening,
                   doomed, requestVars, issued, unsaved, caught, excused,
                   ended>>

-----------------------------------------------------------------------------
(* quit *)

\* Mutant: the servers are killed while the listener still runs.
QuitKillsFirst ==
    /\ AtRest
    /\ task' = "quit" /\ ui' = "list"
    /\ UNCHANGED <<env, up, launches, token, port, cfg, file, active, httpd,
                   listening, doomed, requestVars, historyVars>>

\* quit stops the server first, if one runs.
Quit ==
    /\ AtRest
    /\ task' = "quit"
    /\ ui' = IF httpd # None THEN "stop" ELSE "list"
    /\ UNCHANGED <<env, up, launches, token, port, cfg, file, active, httpd,
                   listening, doomed, requestVars, historyVars>>

InFlight == {r \in Client : pc[r] \in {"gate", "handle"}}

\* kill_all_wcb lists the socket directory: the wcb_* servers of any life that
\* have their socket file; or it cannot, and kills none ...
ListSockets ==
    /\ up /\ ui = "list"
    /\ \/ doomed' = servers \ hidden /\ UNCHANGED excused
       \/ doomed' = {} /\ excused' = excused \cup servers
    /\ caught' = InFlight
    /\ ui' = "kill"
    /\ UNCHANGED <<env, up, launches, task, token, port, cfg, file, active,
                   httpd, listening, requestVars, issued, before, unsaved,
                   lagging, ended>>

\* ... and kills each, or gives up on it after 5 s.  One whose socket file is
\* gone by now is out of reach.
Kill ==
    /\ up /\ ui = "kill"
    /\ \E s \in doomed :
          /\ doomed' = doomed \ {s}
          /\ \/ s \notin hidden /\ servers' = servers \ {s} /\ UNCHANGED excused
             \/ s \in hidden /\ UNCHANGED <<servers, excused>>
             \/ excused' = excused \cup {s} /\ UNCHANGED servers
    /\ UNCHANGED <<env, up, launches, ui, task, token, port, cfg, file, active,
                   httpd, listening, pc, req, hidden, owned, issued, before,
                   unsaved, lagging, caught, ended>>

\* rumps.quit_application, icon.stop.
Exit ==
    /\ up /\ ui = "kill" /\ doomed = {}
    /\ Ends("quit")
    /\ task' = "none"
    /\ UNCHANGED <<env, launches, token, port, file, servers, hidden, issued,
                   before, unsaved, excused>>

-----------------------------------------------------------------------------
(* The request threads *)

\* A connection is accepted and its thread started.
Accept(r) ==
    /\ listening # None /\ pc[r] = "idle"
    /\ \E kind \in {"run", "session"}, cred \in issued \cup {None} :
          req' = [req EXCEPT ![r] = [kind |-> kind, cred |-> cred]]
    /\ pc' = [pc EXCEPT ![r] = "gate"]
    /\ UNCHANGED <<env, up, launches, uiVars, serverVars, historyVars>>

\* _authorized of /run and /stream, and _session_authorized: with the token t in
\* force, does a request with bearer token cred pass?
Allowed(kind, cred, t) ==
    IF t = None THEN kind = "run" ELSE cred = t

\* do_POST and _dispatch_session: 401, or the handler.  (Accept leaves out the
\* /session requests from an origin that is not on the list, which come no
\* further than to their 403.)
Gate(r) ==
    LET q == req[r] IN
    /\ pc[r] = "gate"
    /\ pc' = [pc EXCEPT ![r] =
                 IF ~Allowed(q.kind, q.cred, active) THEN "refused"
                 ELSE IF q.kind = "run" THEN "served" ELSE "handle"]
    /\ UNCHANGED <<env, up, launches, uiVars, req, serverVars, historyVars>>

\* A create launches a tmux server under a sid of its own, and enters it in the
\* dict.  (That it may fail before is the same here as that no delete comes.)
\* One that is launched after quit listed the sockets is not killed.
LaunchServer(r) ==
    /\ pc[r] = "handle"
    /\ \E s \in Sid \ (servers \cup doomed) :
          /\ servers' = servers \cup {s}
          /\ owned' = owned \cup {s}
          /\ excused' = IF r \in caught THEN excused \cup {s} ELSE excused
    /\ pc' = [pc EXCEPT ![r] = "served"]
    /\ UNCHANGED <<env, up, launches, uiVars, req, hidden, issued, before,
                   unsaved, lagging, caught, ended>>

\* A delete forgets a session of this life.  Its kill-server may fail; the socket
\* file is unlinked all the same.
DeleteServer(r) ==
    /\ pc[r] = "handle"
    /\ \E s \in owned :
          /\ owned' = owned \ {s}
          /\ \/ servers' = servers \ {s} /\ UNCHANGED hidden
             \/ hidden' = hidden \cup ({s} \cap servers) /\ UNCHANGED servers
    /\ pc' = [pc EXCEPT ![r] = "served"]
    /\ UNCHANGED <<env, up, launches, uiVars, req, historyVars>>

\* Any other request of a session, and a create or delete that is turned down.
AnswerOnly(r) ==
    /\ pc[r] = "handle"
    /\ pc' = [pc EXCEPT ![r] = "served"]
    /\ UNCHANGED <<env, up, launches, uiVars, req, serverVars, historyVars>>

\* The response is out.
Respond(r) ==
    /\ pc[r] \in {"refused", "served"}
    /\ pc' = [pc EXCEPT ![r] = "idle"]
    /\ req' = [req EXCEPT ![r] = NoRequest]
    /\ caught' = caught \ {r}
    /\ UNCHANGED <<env, up, launches, uiVars, serverVars, issued, before,
                   unsaved, lagging, excused, ended>>

\* The application is not running, or waits for its user.
Rest ==
    /\ ~up \/ AtRest
    /\ UNCHANGED <<env, up, launches, uiVars, requestVars, historyVars>>

-----------------------------------------------------------------------------
\* The tokens that the menu may be said to show: two during a change, any while
\* one that could not be saved is shown.
Showing == {token} \cup (IF task = "token" THEN {before.token} ELSE {})
                   \cup (IF "token" \in lagging THEN Token \cup {None} ELSE {})

\* History: how each request would be judged by the tokens shown from the moment
\* it was accepted until it was past its gate.
Watch ==
    due' = [r \in Client |->
                CASE pc'[r] = "idle" -> {}
                  [] pc'[r] # "idle" /\ pc[r] \in {"idle", "gate"} ->
                        due[r] \cup {Allowed(req'[r].kind, req'[r].cred, t) :
                                        t \in Showing'}
                  [] OTHER -> due[r]]

Next ==
    /\ \/ Launch \/ Crash
       \/ Start \/ Stop \/ ChangePort \/ GenerateToken \/ ClearToken \/ Quit
       \/ Close \/ SaveRaises \/ SaveTmp \/ SaveReplace \/ Activate
       \/ ListSockets \/ Kill \/ Exit
       \/ \E r \in Client : \/ Accept(r) \/ Gate(r) \/ LaunchServer(r)
                            \/ DeleteServer(r) \/ AnswerOnly(r) \/ Respond(r)
       \/ Rest
    /\ Watch

Spec == Init /\ [][Next]_vars

-----------------------------------------------------------------------------
(* Properties *)

TypeOK ==
    /\ env \in Env
    /\ up \in BOOLEAN
    /\ launches \in 0..MaxLaunches
    /\ ui \in {"rest", "start", "stop", "tmp", "replace", "activate", "list",
               "kill"}
    /\ task \in {"none", "token", "port", "quit"}
    /\ token \in Token \cup {None}
    /\ port \in Port
    /\ cfg \in Config
    /\ file \in Config \cup {None}
    /\ active \in Token \cup {None}
    /\ httpd \in Port \cup {None}
    /\ listening \in Port \cup {None}
    /\ doomed \subseteq Sid
    /\ pc \in [Client -> {"idle", "gate", "handle", "refused", "served"}]
    /\ req \in [Client -> Request]
    /\ servers \subseteq Sid /\ owned \subseteq Sid
    /\ hidden \subseteq servers \ owned
    /\ issued \subseteq Token
    /\ before \in [token : Token \cup {None}, port : Port]
    /\ unsaved \subseteq {"token", "port"}
    /\ lagging \subseteq {"token", "port"}
    /\ due \in [Client -> SUBSET BOOLEAN]
    /\ caught \subseteq Client
    /\ excused \subseteq Sid
    /\ ended \in {"none", "crash", "quit"}

\* At rest the menu tells the truth, but for a change that could not be saved:
\* the port in the status line is the one that is served, and "stopped" means
\* that nothing listens.
StatusIsTrue ==
    AtRest => /\ httpd = None <=> listening = None
              /\ httpd # None /\ "port" \notin lagging => listening = port

\* A request is judged by a token that the menu showed while it was on its way:
\* once Clear or Generate has returned, no request passes, or fails, by the
\* token of before.  (Again but for a token that could not be saved.)
JudgedByShownToken ==
    \A r \in Client :
        /\ pc[r] \in {"handle", "served"} => TRUE \in due[r]
        /\ pc[r] = "refused" => FALSE \in due[r]

\* No crash, at whatever point of a change, loses the settings: the next launch
\* has the token and the port that were shown last or, if their change was cut
\* off or could not be saved, those of before it.  The environment goes first.
Unfinished(setting) == task = setting \/ setting \in unsaved

SettingsSurvive ==
    [][Launch /\ launches > 0 =>
         /\ token' \in IF env.token # None THEN {env.token}
                      ELSE {token} \cup
                           IF Unfinished("token") THEN {before.token} ELSE {}
         /\ port' \in IF env.port # None THEN {env.port}
                     ELSE {port} \cup
                          IF Unfinished("port") THEN {before.port} ELSE {}]_vars

\* Quitting leaves no claude behind, of this life or an earlier one, except one
\* that a delete failed to kill before it unlinked the socket file, one that quit
\* itself failed to kill, one that a create, in flight when quit listed the
\* sockets, launched after that, and all of them when quit could not list them.
QuitLeavesOnlyExcused ==
    ~up /\ ended = "quit" => servers \subseteq excused \cup hidden

\* The inductive invariant behind these.  Where the menu thread is goes with the
\* operation it is in, and nothing of the process outlives it (a); the listener
\* is the server that the menu has, on the port it shows but for a change of port
\* (b).
Stages ==                                                               \* (a)
    IF up
    THEN /\ ui = "rest" => task = "none"
         /\ ui = "start" => task \in {"none", "port"} /\ httpd = None
         /\ ui = "stop" => task \in {"none", "port", "quit"}
         /\ ui \in {"tmp", "replace"} => task \in {"token", "port"}
         /\ ui = "activate" => task = "token" /\ unsaved = {}
         /\ ui \in {"list", "kill"} => task = "quit" /\ httpd = None
    ELSE /\ ui = "rest" /\ httpd = None
         /\ \A r \in Client : pc[r] = "idle"

ServesShownPort ==                                                      \* (b)
    /\ httpd = listening
    /\ httpd # None /\ task # "port" /\ "port" \notin lagging => httpd = port

\* The token in force is one that the menu shows, and the judgement of a request
\* that waits at its gate covers all of these (c).
ActiveIsShown ==                                                        \* (c)
    up => /\ active \in Showing
          /\ "token" \in unsaved => "token" \in lagging

GateIsWatched ==
    \A r \in Client : pc[r] = "gate" =>
        \A t \in Showing : Allowed(req[r].kind, req[r].cred, t) \in due[r]

\* While a quit kills, a request in flight was so when it listed the sockets, and
\* the servers are those it has yet to kill and those it may leave (d).
KillCovers ==                                                           \* (d)
    ui = "kill" => /\ InFlight \subseteq caught
                   /\ servers \subseteq doomed \cup excused \cup hidden

\* cfg has what the menu shows.  The file has what was shown before a change
\* that is on its way or could not be saved, and what is shown otherwise (e).
\* After a crash in the middle of a change it has either.
Has(c, setting) ==
    IF setting = "token" THEN c.token
    ELSE IF c.port # None THEN c.port ELSE DefaultPort

Shown(setting) == IF setting = "token" THEN token ELSE port
Before(setting) == IF setting = "token" THEN before.token ELSE before.port
FromEnv(setting) == IF setting = "token" THEN env.token # None
                                         ELSE env.port # None

Unwritten(setting) ==
    setting \in unsaved \/ (task = setting /\ ui \in {"tmp", "replace"})

FileIsKept ==                                                           \* (e)
    \A setting \in {"token", "port"} : ~FromEnv(setting) =>
        IF up
        THEN /\ Has(cfg, setting) = Shown(setting)
             /\ Has(Loaded(file), setting) =
                    IF Unwritten(setting) THEN Before(setting)
                                          ELSE Shown(setting)
        ELSE \/ Has(Loaded(file), setting) = Shown(setting)
             \/ Unfinished(setting) /\ Has(Loaded(file), setting) = Before(setting)

TrayInv ==
    /\ Stages /\ ServesShownPort /\ ActiveIsShown /\ GateIsWatched
    /\ JudgedByShownToken /\ KillCovers /\ FileIsKept /\ QuitLeavesOnlyExcused
=============================================================================
