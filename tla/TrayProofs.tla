------------------------------ MODULE TrayProofs ------------------------------
(***************************************************************************)
(* Proofs about TrayApp, for any sets of requests, tokens, ports and       *)
(* sessions and any number of launches: the type invariant, the inductive  *)
(* invariant TrayInv, and from it what the menu, the gates, a crash and a  *)
(* quit promise.                                                           *)
(***************************************************************************)
EXTENDS TrayApp, TLAPS

-----------------------------------------------------------------------------
(* Type correctness *)

Kinds == {"idle", "gate", "handle", "refused", "served"}

\* What the history of the gates may hold.
LEMMA AllowedIsBoolean ==
    ASSUME NEW kind, NEW cred, NEW t
    PROVE  Allowed(kind, cred, t) \in BOOLEAN
  BY DEF Allowed

LEMMA Watched ==
    ASSUME Watch, NEW r \in Client
    PROVE  /\ pc'[r] = "idle" => due'[r] = {}
           /\ pc'[r] # "idle" /\ pc[r] \in {"idle", "gate"} =>
                 due'[r] = due[r] \cup
                     {Allowed(req'[r].kind, req'[r].cred, t) : t \in Showing'}
           /\ pc'[r] # "idle" /\ pc[r] \notin {"idle", "gate"} =>
                 due'[r] = due[r]
  BY DEF Watch

LEMMA DueType ==
    ASSUME TypeOK, Watch
    PROVE  due' \in [Client -> SUBSET BOOLEAN]
  <1>1. ASSUME NEW r \in Client
        PROVE  due'[r] \subseteq BOOLEAN
    <2> DEFINE new == {Allowed(req'[r].kind, req'[r].cred, t) : t \in Showing'}
    <2>1. new \subseteq BOOLEAN
      BY AllowedIsBoolean
    <2>2. due[r] \subseteq BOOLEAN
      BY DEF TypeOK
    <2>3. \/ due'[r] = {} \/ due'[r] = due[r] \cup new \/ due'[r] = due[r]
      BY Watched
    <2> HIDE DEF new
    <2> QED BY <2>1, <2>2, <2>3
  <1>2. due' = [r \in Client |-> due'[r]]
    BY DEF Watch
  <1> QED BY <1>1, <1>2

\* The steps of the menu and of the process, and those of the requests.
MenuStep ==
    \/ Start \/ Stop \/ ChangePort \/ GenerateToken \/ ClearToken \/ Quit
    \/ Close \/ SaveRaises \/ SaveTmp \/ SaveReplace \/ Activate
    \/ ListSockets \/ Kill

RequestStep(r) == \/ Accept(r) \/ Gate(r) \/ LaunchServer(r)
                  \/ DeleteServer(r) \/ AnswerOnly(r) \/ Respond(r)

LEMMA StepsAre ==
    Next => /\ Watch
            /\ \/ Launch \/ Crash \/ Exit \/ MenuStep \/ Rest
               \/ \E r \in Client : RequestStep(r)
  BY DEF Next, MenuStep, RequestStep

LEMMA ConfigHas ==
    ASSUME TypeOK
    PROVE  /\ Loaded(file) \in Config /\ EmptyConfig \in Config
           /\ NoRequest \in Request
           /\ ResolveToken(Loaded(file)) \in Token \cup {None}
           /\ ResolvePort(Loaded(file)) \in Port
  <1>1. Loaded(file) \in Config /\ EmptyConfig \in Config
    BY DEF TypeOK, Loaded, Config, EmptyConfig
  <1>2. NoRequest \in Request
    BY DEF NoRequest, Request
  <1>3. env.token \in Token \cup {None} /\ env.port \in Port \cup {None}
    BY TrayEnvAssumption DEF TypeOK
  <1>4. Loaded(file).token \in Token \cup {None}
        /\ Loaded(file).port \in Port \cup {None}
    BY <1>1 DEF Config
  <1>5. ResolveToken(Loaded(file)) \in Token \cup {None}
    BY <1>3, <1>4 DEF ResolveToken
  <1>6. ResolvePort(Loaded(file)) \in Port
    BY <1>3, <1>4, TrayPortAssumption DEF ResolvePort
  <1> QED BY <1>1, <1>2, <1>5, <1>6

LEMMA ProcessType ==
    ASSUME TypeOK, Watch, Launch \/ Crash \/ Exit
    PROVE  TypeOK'
  <1> USE DEF TypeOK
  <1>0. due' \in [Client -> SUBSET BOOLEAN]
    BY DueType
  <1>1. CASE Launch
    <2>1. /\ cfg' \in Config /\ token' \in Token \cup {None} /\ port' \in Port
          /\ active' \in Token \cup {None}
          /\ before' \in [token : Token \cup {None}, port : Port]
      BY <1>1, ConfigHas DEF Launch
    <2>2. up' \in BOOLEAN
      BY <1>1 DEF Launch
    <2>3. launches' \in 0..MaxLaunches
      BY <1>1, TrayBoundAssumption DEF Launch
    <2>4. /\ httpd' = None /\ ui' = "start" /\ task' = "none"
          /\ unsaved' = {} /\ lagging' = {} /\ caught' = {} /\ excused' = {}
          /\ ended' = "none"
          /\ UNCHANGED <<env, file, listening, doomed, requestVars, issued>>
      BY <1>1 DEF Launch
    <2> QED BY <1>0, <2>1, <2>2, <2>3, <2>4 DEF requestVars, serverVars
  <1>2. CASE Crash \/ Exit
    <2>1. /\ cfg' \in Config
          /\ req' \in [Client -> Request]
          /\ pc' \in [Client -> {"idle", "gate", "handle", "refused", "served"}]
      BY <1>2, ConfigHas DEF Crash, Exit, Ends
    <2>2. up' \in BOOLEAN
      BY <1>2 DEF Crash, Exit, Ends
    <2>3. /\ ended' \in {"crash", "quit"} /\ ui' = "rest" /\ active' = None
          /\ httpd' = None /\ listening' = None /\ doomed' = {}
          /\ lagging' = {} /\ caught' = {}
          /\ task' = task \/ task' = "none"
          /\ owned' = {}
          /\ UNCHANGED <<env, launches, token, port, file, servers, hidden,
                         issued, before, unsaved, excused>>
      BY <1>2 DEF Crash, Exit, Ends
    <2> QED BY <1>0, <2>1, <2>2, <2>3
  <1> QED BY <1>1, <1>2

LEMMA MenuType ==
    ASSUME TypeOK, Stages, Watch, MenuStep
    PROVE  TypeOK'
  <1> USE DEF TypeOK, uiVars, requestVars, serverVars, historyVars
  <1>0. due' \in [Client -> SUBSET BOOLEAN]
    BY DueType
  <1>1. CASE Start
    BY <1>0, <1>1 DEF Start
  <1>2. CASE Stop \/ Quit
    BY <1>0, <1>2 DEF Stop, Quit
  <1>3. CASE Close
    BY <1>0, <1>3 DEF Close, Stages
  <1>4. CASE ChangePort
    <2>1. /\ port' \in Port /\ cfg' \in Config
          /\ before' \in [token : Token \cup {None}, port : Port]
      BY <1>4 DEF ChangePort, Config
    <2> QED BY <1>0, <1>4, <2>1 DEF ChangePort
  <1>5. ASSUME NEW new \in Token \cup {None}, ChangeToken(new),
               issued' \subseteq Token
        PROVE  TypeOK'
    <2>1. /\ token' \in Token \cup {None} /\ cfg' \in Config
          /\ before' \in [token : Token \cup {None}, port : Port]
      BY <1>5 DEF ChangeToken, Config
    <2> QED BY <1>0, <1>5, <2>1 DEF ChangeToken
  <1>6. CASE GenerateToken
    BY <1>5, <1>6 DEF GenerateToken
  <1>7. CASE ClearToken
    BY <1>5, <1>7 DEF ClearToken
  <1>8. CASE SaveRaises
    BY <1>0, <1>8 DEF SaveRaises, Stages
  <1>9. CASE SaveTmp
    BY <1>0, <1>9 DEF SaveTmp
  <1>10. CASE SaveReplace
    <2>1. before' \in [token : Token \cup {None}, port : Port]
      BY <1>10 DEF SaveReplace
    <2> QED BY <1>0, <1>10, <2>1 DEF SaveReplace
  <1>11. CASE Activate
    <2>1. before' \in [token : Token \cup {None}, port : Port]
      BY <1>11 DEF Activate
    <2> QED BY <1>0, <1>11, <2>1 DEF Activate
  <1>12. CASE ListSockets
    BY <1>0, <1>12 DEF ListSockets, InFlight
  <1>13. CASE Kill
    BY <1>0, <1>13 DEF Kill
  <1> QED BY <1>1, <1>2, <1>3, <1>4, <1>6, <1>7, <1>8, <1>9, <1>10, <1>11,
             <1>12, <1>13 DEF MenuStep

LEMMA RequestType ==
    ASSUME TypeOK, Watch, NEW r \in Client, RequestStep(r)
    PROVE  TypeOK'
  <1> USE DEF TypeOK, uiVars, historyVars
  <1>0. due' \in [Client -> SUBSET BOOLEAN]
    BY DueType
  <1>1. CASE Accept(r)
    <2>1. req' \in [Client -> Request]
      BY <1>1 DEF Accept, Request
    <2> QED BY <1>0, <1>1, <2>1 DEF Accept, serverVars
  <1>2. CASE Gate(r)
    BY <1>0, <1>2 DEF Gate, serverVars
  <1>3. CASE LaunchServer(r)
    BY <1>0, <1>3 DEF LaunchServer
  <1>4. CASE DeleteServer(r)
    BY <1>0, <1>4 DEF DeleteServer
  <1>5. CASE AnswerOnly(r)
    BY <1>0, <1>5 DEF AnswerOnly, serverVars
  <1>6. CASE Respond(r)
    <2>1. req' \in [Client -> Request]
      BY <1>6, ConfigHas DEF Respond
    <2> QED BY <1>0, <1>6, <2>1 DEF Respond, serverVars
  <1> QED BY <1>1, <1>2, <1>3, <1>4, <1>5, <1>6 DEF RequestStep

LEMMA NextType == TypeOK /\ Stages /\ [Next]_vars => TypeOK'
  <1>1. ASSUME TypeOK, Stages, Watch, Rest
        PROVE  TypeOK'
    BY <1>1, DueType DEF TypeOK, Rest, uiVars, requestVars, serverVars, historyVars
  <1>2. TypeOK /\ Stages /\ Next => TypeOK'
    BY <1>1, StepsAre, ProcessType, MenuType, RequestType
  <1>3. TypeOK /\ UNCHANGED vars => TypeOK'
    BY DEF TypeOK, vars, uiVars, requestVars, serverVars, historyVars
  <1> QED BY <1>2, <1>3

-----------------------------------------------------------------------------
(* The menu thread and the listener *)

\* The actions of a request thread leave the menu thread's variables alone, and
\* those of the menu thread leave the requests alone.
LEMMA RequestsLeaveMenu ==
    ASSUME Rest \/ \E r \in Client : RequestStep(r)
    PROVE  UNCHANGED <<env, up, launches, uiVars, issued, before, unsaved,
                       lagging, ended>>
  BY DEF Rest, RequestStep, Accept, Gate, LaunchServer, DeleteServer,
                  AnswerOnly, Respond, historyVars

LEMMA MenuLeavesRequests ==
    ASSUME MenuStep
    PROVE  UNCHANGED <<env, up, launches, pc, req, ended>> /\ up
  BY DEF MenuStep, Start, Stop, ChangePort, GenerateToken, ClearToken,
         ChangeToken, Quit, Close, SaveRaises, SaveTmp, SaveReplace, Activate,
         ListSockets, Kill, AtRest, requestVars, serverVars, historyVars

LEMMA StagesKept ==
    ASSUME TypeOK, Stages, ServesShownPort, Next
    PROVE  Stages'
  <1>1. CASE Launch \/ Crash \/ Exit
    BY <1>1 DEF Launch, Crash, Exit, Ends, Stages
  <1>2. CASE MenuStep
    <2> USE DEF uiVars, historyVars
    <2>1. CASE Start \/ Stop \/ Quit \/ Close
      BY <2>1 DEF Start, Stop, Quit, Close, AtRest, Stages, TypeOK
    <2>2. CASE ChangePort \/ GenerateToken \/ ClearToken
      BY <2>2 DEF ChangePort, GenerateToken, ClearToken, ChangeToken, AtRest,
                  Stages
    <2>3. CASE SaveRaises \/ SaveTmp \/ SaveReplace \/ Activate
      BY <2>3 DEF SaveRaises, SaveTmp, SaveReplace, Activate, Stages
    <2>4. CASE ListSockets \/ Kill
      BY <2>4 DEF ListSockets, Kill, Stages
    <2> QED BY <1>2, <2>1, <2>2, <2>3, <2>4 DEF MenuStep
  <1>3. CASE Rest
    BY <1>3 DEF Rest, Stages, uiVars, requestVars, serverVars, historyVars
  <1>4. ASSUME NEW r \in Client, RequestStep(r)
        PROVE  Stages'
    <2>1. up
      BY <1>4 DEF RequestStep, Accept, Gate, LaunchServer, DeleteServer,
                  AnswerOnly, Respond, Stages,
                  ServesShownPort
    <2>2. UNCHANGED <<up, ui, task, httpd, unsaved>>
      BY <1>4, RequestsLeaveMenu DEF uiVars
    <2> QED BY <2>1, <2>2 DEF Stages
  <1> QED BY <1>1, <1>2, <1>3, <1>4, StepsAre

LEMMA ServesKept ==
    ASSUME TypeOK, Stages, ServesShownPort, Next
    PROVE  ServesShownPort'
  <1>1. CASE Launch \/ Crash \/ Exit
    BY <1>1 DEF Launch, Crash, Exit, Ends, ServesShownPort, Stages
  <1>2. CASE MenuStep
    <2> USE DEF uiVars, historyVars, ServesShownPort
    <2>1. CASE Start \/ Stop \/ Quit \/ Close
      BY <2>1 DEF Start, Stop, Quit, Close, AtRest, Stages
    <2>2. CASE ChangePort \/ GenerateToken \/ ClearToken
      BY <2>2 DEF ChangePort, GenerateToken, ClearToken, ChangeToken, AtRest,
                  Stages
    <2>3. CASE SaveRaises \/ SaveTmp \/ SaveReplace \/ Activate
      BY <2>3 DEF SaveRaises, SaveTmp, SaveReplace, Activate, Stages
    <2>4. CASE ListSockets \/ Kill
      BY <2>4 DEF ListSockets, Kill
    <2> QED BY <1>2, <2>1, <2>2, <2>3, <2>4 DEF MenuStep
  <1>3. CASE Rest \/ \E r \in Client : RequestStep(r)
    BY <1>3, RequestsLeaveMenu DEF ServesShownPort, uiVars
  <1> QED BY <1>1, <1>2, <1>3, StepsAre

-----------------------------------------------------------------------------
(* The token in force *)

LEMMA ActiveKept ==
    ASSUME TypeOK, Stages, ActiveIsShown, Next
    PROVE  ActiveIsShown'
  <1> USE DEF ActiveIsShown, Showing
  <1>1. CASE Launch \/ Crash \/ Exit
    BY <1>1 DEF Launch, Crash, Exit, Ends
  <1>2. CASE MenuStep
    <2> USE DEF uiVars, historyVars, TypeOK
    <2>1. CASE Start \/ Stop \/ Quit \/ Close
      BY <2>1 DEF Start, Stop, Quit, Close, AtRest, Stages
    <2>2. CASE ChangePort
      BY <2>2 DEF ChangePort, AtRest, Stages
    <2>3. ASSUME NEW new \in Token \cup {None}, ChangeToken(new)
          PROVE  ActiveIsShown'
      <3>1. task = "none" /\ task' = "token" /\ lagging' = lagging
            /\ active' = active /\ unsaved' = unsaved /\ up
        BY <2>3 DEF ChangeToken, AtRest, Stages
      <3>2. CASE "token" \in lagging
        BY <3>1, <3>2
      <3>3. CASE "token" \notin lagging
        <4>1. active = token /\ "token" \notin unsaved
          BY <3>1, <3>3
        <4>2. before'.token = token
          BY <2>3, <4>1 DEF ChangeToken
        <4> QED BY <3>1, <3>3, <4>1, <4>2
      <3> QED BY <3>2, <3>3
    <2>4. CASE GenerateToken \/ ClearToken
      BY <2>3, <2>4 DEF GenerateToken, ClearToken
    <2>5. CASE SaveRaises \/ SaveTmp \/ SaveReplace
      <3>1. CASE SaveRaises
        BY <3>1 DEF SaveRaises, Stages
      <3>2. CASE SaveTmp
        BY <3>2 DEF SaveTmp, Stages
      <3>3. CASE SaveReplace
        BY <3>3 DEF SaveReplace, Stages
      <3> QED BY <2>5, <3>1, <3>2, <3>3
    <2>6. CASE Activate
      BY <2>6 DEF Activate, Stages
    <2>7. CASE ListSockets \/ Kill
      BY <2>7 DEF ListSockets, Kill
    <2> QED BY <1>2, <2>1, <2>2, <2>4, <2>5, <2>6, <2>7 DEF MenuStep
  <1>3. CASE Rest \/ \E r \in Client : RequestStep(r)
    BY <1>3, RequestsLeaveMenu DEF uiVars
  <1> QED BY <1>1, <1>2, <1>3, StepsAre

\* A step takes a request to its gate, or past it as the token in force says, or
\* leaves it on its side of the gate; or the process ends.
LEMMA GateSteps ==
    ASSUME TypeOK, Next, NEW r \in Client
    PROVE  \/ pc'[r] = "idle"
           \/ pc'[r] = "gate" /\ pc[r] \in {"idle", "gate"}
           \/ /\ pc[r] = "gate" /\ UNCHANGED <<req, active>>
              /\ pc'[r] \in {"refused", "served", "handle"}
              /\ pc'[r] = "refused" <=> ~Allowed(req[r].kind, req[r].cred, active)
           \/ /\ pc[r] = pc'[r] /\ pc[r] \notin {"idle", "gate"}
           \/ pc[r] = "handle" /\ pc'[r] = "served"
  <1>1. CASE Launch \/ MenuStep \/ Rest
    BY <1>1, MenuLeavesRequests DEF Launch, Rest, requestVars, serverVars, TypeOK
  <1>2. CASE Crash \/ Exit
    BY <1>2 DEF Crash, Exit, Ends
  <1>3. ASSUME NEW c \in Client, RequestStep(c)
        PROVE  \/ pc'[r] = "idle"
               \/ pc'[r] = "gate" /\ pc[r] \in {"idle", "gate"}
               \/ /\ pc[r] = "gate" /\ UNCHANGED <<req, active>>
                  /\ pc'[r] \in {"refused", "served", "handle"}
                  /\ pc'[r] = "refused" <=>
                        ~Allowed(req[r].kind, req[r].cred, active)
               \/ /\ pc[r] = pc'[r] /\ pc[r] \notin {"idle", "gate"}
               \/ pc[r] = "handle" /\ pc'[r] = "served"
    <2>1. CASE c = r /\ Gate(r)
      BY <2>1 DEF Gate, TypeOK, uiVars
    <2>2. CASE c = r /\ ~Gate(r)
      BY <1>3, <2>2 DEF RequestStep, Accept, LaunchServer, DeleteServer,
                        AnswerOnly, Respond, TypeOK
    <2>3. CASE c # r
      BY <1>3, <2>3 DEF RequestStep, Accept, Gate, LaunchServer, DeleteServer,
                  AnswerOnly, Respond, TypeOK
    <2> QED BY <1>3, <2>1, <2>2, <2>3 DEF RequestStep
  <1> QED BY <1>1, <1>2, <1>3, StepsAre

LEMMA Judgement ==
    ASSUME NEW b \in BOOLEAN, NEW S, b \in S
    PROVE  (b => TRUE \in S) /\ (~b => FALSE \in S)
  OBVIOUS

LEMMA GateKept ==
    ASSUME TypeOK, Stages, ActiveIsShown, GateIsWatched, JudgedByShownToken, Next
    PROVE  GateIsWatched' /\ JudgedByShownToken'
  <1>0. Watch
    BY StepsAre
  <1>1. ASSUME NEW r \in Client, pc'[r] = "gate", NEW t \in Showing'
        PROVE  Allowed(req'[r].kind, req'[r].cred, t) \in due'[r]
    <2>1. pc[r] \in {"idle", "gate"}
      BY <1>1, GateSteps
    <2>2. due'[r] = due[r] \cup
              {Allowed(req'[r].kind, req'[r].cred, x) : x \in Showing'}
      BY <1>0, <1>1, <2>1, Watched
    <2> QED BY <1>1, <2>2
  <1>2. ASSUME NEW r \in Client
        PROVE  /\ pc'[r] \in {"handle", "served"} => TRUE \in due'[r]
               /\ pc'[r] = "refused" => FALSE \in due'[r]
    <2>1. CASE pc'[r] \in {"idle", "gate"}
      BY <2>1
    <2>2. CASE /\ pc[r] = "gate" /\ UNCHANGED <<req, active>>
               /\ pc'[r] \in {"refused", "served", "handle"}
               /\ pc'[r] = "refused" <=>
                     ~Allowed(req[r].kind, req[r].cred, active)
      <3> DEFINE b == Allowed(req[r].kind, req[r].cred, active)
      <3>1. up
        BY <2>2 DEF Stages
      <3>2. b \in due[r]
        BY <2>2, <3>1 DEF ActiveIsShown, GateIsWatched
      <3>3. due[r] \subseteq due'[r]
        BY <1>0, <2>2, Watched
      <3>4. b \in BOOLEAN
        BY AllowedIsBoolean
      <3>5. pc'[r] = "refused" <=> ~b
        BY <2>2
      <3> HIDE DEF b
      <3>6. (b => TRUE \in due[r]) /\ (~b => FALSE \in due[r])
        BY <3>2, <3>4, Judgement
      <3> QED BY <3>3, <3>5, <3>6
    <2>3. CASE \/ /\ pc[r] = pc'[r] /\ pc[r] \notin {"idle", "gate"}
               \/ pc[r] = "handle" /\ pc'[r] = "served"
      <3>1. due'[r] = due[r]
        BY <1>0, <2>3, Watched
      <3> QED BY <2>3, <3>1 DEF JudgedByShownToken
    <2> QED BY <2>1, <2>2, <2>3, GateSteps
  <1> QED BY <1>1, <1>2 DEF GateIsWatched, JudgedByShownToken

-----------------------------------------------------------------------------
(* Quitting *)

LEMMA KillKept ==
    ASSUME TypeOK, Stages, ServesShownPort, KillCovers, Next
    PROVE  KillCovers'
  <1> USE DEF KillCovers, InFlight
  <1>1. CASE Launch \/ Crash \/ Exit
    BY <1>1 DEF Launch, Crash, Exit, Ends
  <1>2. CASE MenuStep
    <2> USE DEF uiVars, historyVars, requestVars, serverVars
    <2>1. CASE Start \/ Stop \/ Quit \/ Close \/ ChangePort \/ GenerateToken
               \/ ClearToken \/ SaveRaises \/ SaveTmp \/ SaveReplace \/ Activate
      <3>1. ui' # "kill"
        BY <2>1 DEF Start, Stop, Quit, Close, ChangePort, GenerateToken,
                    ClearToken, ChangeToken, SaveRaises, SaveTmp, SaveReplace,
                    Activate, Stages
      <3> QED BY <3>1
    <2>2. CASE ListSockets
      BY <2>2 DEF ListSockets
    <2>3. CASE Kill
      BY <2>3 DEF Kill
    <2> QED BY <1>2, <2>1, <2>2, <2>3 DEF MenuStep
  <1>3. CASE Rest
    BY <1>3 DEF Rest, uiVars, requestVars, serverVars, historyVars
  <1>4. ASSUME NEW r \in Client, RequestStep(r), ui' = "kill"
        PROVE  /\ InFlight' \subseteq caught'
               /\ servers' \subseteq doomed' \cup excused' \cup hidden'
    <2>0. ui = "kill" /\ doomed' = doomed /\ listening = None
      <3>1. ui = "kill" /\ doomed' = doomed
        BY <1>4, RequestsLeaveMenu DEF uiVars
      <3> QED BY <3>1 DEF Stages, ServesShownPort
    <2>1. CASE Gate(r)
      BY <2>0, <2>1 DEF Gate, historyVars, serverVars, TypeOK
    <2>2. CASE LaunchServer(r) \/ DeleteServer(r) \/ AnswerOnly(r)
      BY <2>0, <2>2 DEF LaunchServer, DeleteServer, AnswerOnly, historyVars,
                        serverVars, TypeOK
    <2>3. CASE Respond(r)
      BY <2>0, <2>3 DEF Respond, serverVars, TypeOK
    <2>4. ~Accept(r)
      BY <2>0 DEF Accept
    <2> QED BY <1>4, <2>1, <2>2, <2>3, <2>4 DEF RequestStep
  <1> QED BY <1>1, <1>2, <1>3, <1>4, StepsAre

LEMMA QuitKept ==
    ASSUME TypeOK, Stages, ServesShownPort, KillCovers, QuitLeavesOnlyExcused,
           Next
    PROVE  QuitLeavesOnlyExcused'
  <1> USE DEF QuitLeavesOnlyExcused
  <1>1. CASE Launch \/ Crash
    BY <1>1 DEF Launch, Crash, Ends
  <1>2. CASE Exit
    BY <1>2 DEF Exit, KillCovers
  <1>3. CASE MenuStep
    BY <1>3, MenuLeavesRequests
  <1>4. CASE Rest
    BY <1>4 DEF Rest, requestVars, serverVars, historyVars
  <1>5. ASSUME NEW r \in Client, RequestStep(r)
        PROVE  up'
    <2>1. up
      BY <1>5 DEF RequestStep, Accept, Gate, LaunchServer, DeleteServer,
                  AnswerOnly, Respond, Stages,
                  ServesShownPort
    <2> QED BY <1>5, <2>1, RequestsLeaveMenu
  <1> QED BY <1>1, <1>2, <1>3, <1>4, <1>5, StepsAre

-----------------------------------------------------------------------------
(* The settings *)

\* What the next launch shows is what the file has, where the environment does
\* not go first.
LEMMA ResolvedHas ==
    /\ ~FromEnv("token") => ResolveToken(Loaded(file)) = Has(Loaded(file), "token")
    /\ ~FromEnv("port") => ResolvePort(Loaded(file)) = Has(Loaded(file), "port")
  BY DEF FromEnv, Has, ResolveToken, ResolvePort

\* A step that leaves the settings and where they stand alone.
LEMMA FileFrame ==
    ASSUME FileIsKept,
           UNCHANGED <<env, up, token, port, cfg, file, before, unsaved>>,
           \A setting \in {"token", "port"} : Unwritten(setting)' <=> Unwritten(setting),
           up
    PROVE  FileIsKept'
  BY DEF FileIsKept, FromEnv, Has, Shown, Before, Loaded

LEMMA FileKept ==
    ASSUME TypeOK, Stages, FileIsKept, Next
    PROVE  FileIsKept'
  <1> USE DEF TypeOK
  <1>1. CASE Launch
    <2>1. /\ up' /\ cfg' = Loaded(file) /\ file' = file /\ env' = env
          /\ token' = ResolveToken(Loaded(file))
          /\ port' = ResolvePort(Loaded(file))
          /\ unsaved' = {} /\ task' = "none"
      BY <1>1 DEF Launch, ResolveToken, ResolvePort
    <2>2. ASSUME NEW setting \in {"token", "port"}, ~FromEnv(setting)
          PROVE  Shown(setting)' = Has(Loaded(file), setting)
      BY <2>1, <2>2, ResolvedHas DEF Shown
    <2>3. \A setting \in {"token", "port"} : ~Unwritten(setting)'
      BY <2>1 DEF Unwritten
    <2> QED BY <2>1, <2>2, <2>3 DEF FileIsKept, FromEnv, Has, Loaded
  <1>2. CASE Crash
    <2>1. /\ ~up' /\ up
          /\ UNCHANGED <<env, task, token, port, file, before, unsaved>>
      BY <1>2 DEF Crash, Ends
    <2> QED BY <2>1 DEF FileIsKept, FromEnv, Has, Shown, Before, Loaded,
                        Unwritten, Unfinished
  <1>3. CASE Exit
    <2>1. /\ ~up' /\ up /\ ui = "kill"
          /\ UNCHANGED <<env, token, port, file, before, unsaved>>
      BY <1>3 DEF Exit, Ends
    <2> QED BY <2>1 DEF FileIsKept, FromEnv, Has, Shown, Before, Loaded,
                        Unwritten, Unfinished
  <1>4. CASE MenuStep
    <2>0. env' = env /\ up /\ up'
      BY <1>4, MenuLeavesRequests
    <2>1. CASE Start \/ Stop \/ Quit \/ Close \/ SaveTmp \/ ListSockets \/ Kill
      <3>1. UNCHANGED <<token, port, cfg, file, before, unsaved>>
        BY <2>1 DEF Start, Stop, Quit, Close, SaveTmp, ListSockets, Kill,
                    historyVars
      <3>2. \A setting \in {"token", "port"} :
               Unwritten(setting)' <=> Unwritten(setting)
        BY <2>1 DEF Start, Stop, Quit, Close, SaveTmp, ListSockets, Kill,
                    historyVars, Unwritten, AtRest, Stages
      <3> QED BY <2>0, <3>1, <3>2, FileFrame
    <2>2. CASE ChangePort
      <3>1. PICK p \in Port : port' = p /\ cfg' = [cfg EXCEPT !.port = p]
        BY <2>2 DEF ChangePort
      <3>2. p # None
        BY TrayNoneAssumption
      <3>3. /\ before' = [before EXCEPT !.port =
                                    IF "port" \in unsaved THEN @ ELSE port]
            /\ task' = "port" /\ ui' = "tmp" /\ task = "none" /\ ui = "rest"
            /\ UNCHANGED <<token, file, unsaved>>
        BY <2>2 DEF ChangePort, AtRest, Stages
      <3>4. /\ cfg'.port = p /\ cfg'.token = cfg.token
            /\ before'.token = before.token
            /\ before'.port = IF "port" \in unsaved THEN before.port ELSE port
        BY <3>1, <3>3 DEF Config
      <3> QED BY <2>0, <3>1, <3>2, <3>3, <3>4
                 DEF FileIsKept, FromEnv, Has, Shown, Before, Loaded, Unwritten
    <2>3. ASSUME NEW new \in Token \cup {None}, ChangeToken(new)
          PROVE  FileIsKept'
      <3>1. /\ token' = new /\ cfg' = [cfg EXCEPT !.token = new]
            /\ before' = [before EXCEPT !.token =
                                    IF "token" \in unsaved THEN @ ELSE token]
            /\ task' = "token" /\ ui' = "tmp" /\ task = "none" /\ ui = "rest"
            /\ UNCHANGED <<port, file, unsaved>>
        BY <2>3 DEF ChangeToken, AtRest, Stages
      <3>2. /\ cfg'.token = new /\ cfg'.port = cfg.port
            /\ before'.port = before.port
            /\ before'.token = IF "token" \in unsaved THEN before.token ELSE token
        BY <3>1 DEF Config
      <3> QED BY <2>0, <3>1, <3>2
                 DEF FileIsKept, FromEnv, Has, Shown, Before, Loaded, Unwritten
    <2>4. CASE GenerateToken \/ ClearToken
      BY <2>3, <2>4 DEF GenerateToken, ClearToken
    <2>5. CASE SaveRaises
      <3>1. /\ UNCHANGED <<token, port, cfg, file, before>>
            /\ unsaved' = unsaved \cup {task} /\ ui' = "rest" /\ task' = "none"
            /\ ui \in {"tmp", "replace"}
        BY <2>5 DEF SaveRaises
      <3>2. \A setting \in {"token", "port"} :
               Unwritten(setting)' <=> Unwritten(setting)
        BY <3>1 DEF Unwritten
      <3> QED BY <2>0, <3>1, <3>2
                 DEF FileIsKept, FromEnv, Has, Shown, Before, Loaded
    <2>6. CASE SaveReplace
      <3>1. /\ UNCHANGED <<token, port, cfg>> /\ file' = cfg /\ unsaved' = {}
            /\ ui' \in {"activate", "stop", "rest"}
        BY <2>6 DEF SaveReplace
      <3>2. \A setting \in {"token", "port"} : ~Unwritten(setting)'
        BY <3>1 DEF Unwritten
      <3>3. Loaded(file)' = cfg
        BY <3>1, TrayConfigAssumption DEF Loaded
      <3> QED BY <2>0, <3>1, <3>2, <3>3
                 DEF FileIsKept, FromEnv, Has, Shown
    <2>7. CASE Activate
      <3>1. /\ UNCHANGED <<token, port, cfg, file, unsaved>> /\ unsaved = {}
            /\ ui = "activate" /\ ui' = "rest"
        BY <2>7 DEF Activate, Stages
      <3>2. \A setting \in {"token", "port"} :
               ~Unwritten(setting) /\ ~Unwritten(setting)'
        BY <3>1 DEF Unwritten
      <3> QED BY <2>0, <3>1, <3>2
                 DEF FileIsKept, FromEnv, Has, Shown, Loaded
    <2> QED BY <1>4, <2>1, <2>2, <2>4, <2>5, <2>6, <2>7 DEF MenuStep
  <1>5. CASE Rest \/ \E r \in Client : RequestStep(r)
    BY <1>5, RequestsLeaveMenu
       DEF uiVars, FileIsKept, FromEnv, Has, Shown, Before, Loaded, Unwritten,
           Unfinished
  <1> QED BY <1>1, <1>2, <1>3, <1>4, <1>5, StepsAre

-----------------------------------------------------------------------------
(* The theorems *)

LEMMA InitTray == Init => TypeOK /\ TrayInv
  <1> SUFFICES ASSUME Init
               PROVE  TypeOK /\ TrayInv
    OBVIOUS
  <1> USE DEF Init
  <1>1. TypeOK
    <2>1. EmptyConfig \in Config /\ NoRequest \in Request
      BY DEF EmptyConfig, Config, NoRequest, Request
    <2>2. /\ before \in [token : Token \cup {None}, port : Port]
          /\ issued \subseteq Token
          /\ env \in Env
      BY TrayPortAssumption, TrayEnvAssumption
    <2>3. /\ pc \in [Client -> {"idle", "gate", "handle", "refused", "served"}]
          /\ req \in [Client -> Request]
          /\ due \in [Client -> SUBSET BOOLEAN]
      BY <2>1
    <2>4. up \in BOOLEAN
      OBVIOUS
    <2>5. launches \in 0..MaxLaunches
      BY TrayBoundAssumption
    <2> QED BY <2>1, <2>2, <2>3, <2>4, <2>5, TrayPortAssumption DEF TypeOK
  <1>2. /\ ~up /\ ui = "rest" /\ httpd = None /\ listening = None
        /\ token = None /\ port = DefaultPort /\ Loaded(file) = EmptyConfig
        /\ \A r \in Client : pc[r] = "idle"
        /\ ended = "none"
    BY DEF Loaded
  <1>3. Stages /\ ServesShownPort /\ ActiveIsShown /\ GateIsWatched
        /\ JudgedByShownToken /\ KillCovers /\ QuitLeavesOnlyExcused
    BY <1>2 DEF Stages, ServesShownPort, ActiveIsShown, GateIsWatched,
                JudgedByShownToken, KillCovers, QuitLeavesOnlyExcused
  <1>4. FileIsKept
    BY <1>2 DEF FileIsKept, Has, Shown, EmptyConfig
  <1> QED BY <1>1, <1>3, <1>4 DEF TrayInv

LEMMA NextTray == TypeOK /\ TrayInv /\ [Next]_vars => TrayInv'
  <1>1. TypeOK /\ TrayInv /\ Next => TrayInv'
    BY StagesKept, ServesKept, ActiveKept, GateKept, KillKept, QuitKept,
       FileKept DEF TrayInv
  <1>2. ASSUME TrayInv, UNCHANGED vars
        PROVE  TrayInv'
    <2> USE <1>2 DEF vars, uiVars, requestVars, serverVars, historyVars, TrayInv
    <2>1. Stages' /\ ServesShownPort' /\ KillCovers' /\ QuitLeavesOnlyExcused'
      BY DEF Stages, ServesShownPort, KillCovers, InFlight,
             QuitLeavesOnlyExcused
    <2>2. Showing' = Showing
      BY DEF Showing
    <2>3. ActiveIsShown' /\ GateIsWatched' /\ JudgedByShownToken'
      BY <2>2 DEF ActiveIsShown, GateIsWatched, JudgedByShownToken
    <2>4. FileIsKept'
      BY DEF FileIsKept, FromEnv, Has, Shown, Before, Loaded, Unwritten,
             Unfinished
    <2> QED BY <2>1, <2>3, <2>4
  <1> QED BY <1>1, <1>2

\* The inductive invariant of the tray application: menu, listener, settings,
\* gates and quit agree at every point of every operation (BridgeApp's callbacks
\* beside the request threads), through crashes and relaunches.
THEOREM TrayInvariant == Spec => [](TypeOK /\ TrayInv)
  <1>1. TypeOK /\ TrayInv /\ [Next]_vars => (TypeOK /\ TrayInv)'
    BY NextType, NextTray DEF TrayInv
  <1> QED BY <1>1, InitTray, PTL DEF Spec

\* TrayApp.TypeOK: among the rest, a server without a socket file does run.
THEOREM TrayTypes == Spec => []TypeOK
  <1> QED BY TrayInvariant, PTL

\* At rest the status line of the menu tells the truth (start, stop and
\* change_port), but for a port that could not be saved.
THEOREM StatusHolds == Spec => []StatusIsTrue
  <1>1. TrayInv => StatusIsTrue
    BY DEF TrayInv, Stages, ServesShownPort, StatusIsTrue, AtRest
  <1> QED BY <1>1, TrayInvariant, PTL

\* A request passes _authorized or _session_authorized, or is refused, by a
\* token that the menu showed while it was on its way.
THEOREM GatesAreFair == Spec => []JudgedByShownToken
  <1>1. TrayInv => JudgedByShownToken
    BY DEF TrayInv
  <1> QED BY <1>1, TrayInvariant, PTL

\* quit with kill_all_wcb leaves no tmux server but one that delete or quit failed
\* to kill, one that a create in flight launched after the sockets were listed,
\* and those that quit could not list.
THEOREM QuitLeavesNone == Spec => []QuitLeavesOnlyExcused
  <1>1. TrayInv => QuitLeavesOnlyExcused
    BY DEF TrayInv
  <1> QED BY <1>1, TrayInvariant, PTL

\* No crash, at whatever point of change_port, generate_token or clear_token,
\* loses what write_config_text had saved before, or the change itself once it
\* was saved.
THEOREM SettingsAreKept == Spec => SettingsSurvive
  <1>1. ASSUME TypeOK, TrayInv, Launch
        PROVE  /\ token' \in IF env.token # None THEN {env.token}
                             ELSE {token} \cup
                                  IF Unfinished("token") THEN {before.token} ELSE {}
               /\ port' \in IF env.port # None THEN {env.port}
                            ELSE {port} \cup
                                 IF Unfinished("port") THEN {before.port} ELSE {}
    <2>1. /\ ~up /\ token' = ResolveToken(Loaded(file))
          /\ port' = ResolvePort(Loaded(file))
      BY <1>1 DEF Launch, ResolveToken, ResolvePort
    <2>2. ASSUME NEW setting \in {"token", "port"}, ~FromEnv(setting)
          PROVE  \/ Has(Loaded(file), setting) = Shown(setting)
                 \/ /\ Unfinished(setting)
                    /\ Has(Loaded(file), setting) = Before(setting)
      BY <1>1, <2>1, <2>2 DEF TrayInv, FileIsKept
    <2>3. ~FromEnv("token") => \/ token' = token
                               \/ Unfinished("token") /\ token' = before.token
      BY <2>1, <2>2, ResolvedHas DEF Shown, Before
    <2>4. ~FromEnv("port") => \/ port' = port
                              \/ Unfinished("port") /\ port' = before.port
      BY <2>1, <2>2, ResolvedHas DEF Shown, Before
    <2>5. /\ FromEnv("token") => token' = env.token
          /\ FromEnv("port") => port' = env.port
      BY <2>1 DEF FromEnv, ResolveToken, ResolvePort
    <2> QED BY <2>3, <2>4, <2>5 DEF FromEnv
  <1>2. TypeOK /\ TrayInv =>
            [Launch /\ launches > 0 =>
               /\ token' \in IF env.token # None THEN {env.token}
                            ELSE {token} \cup
                                 IF Unfinished("token") THEN {before.token} ELSE {}
               /\ port' \in IF env.port # None THEN {env.port}
                           ELSE {port} \cup
                                IF Unfinished("port") THEN {before.port} ELSE {}]_vars
    BY <1>1
  <1> QED BY <1>2, TrayInvariant, PTL DEF SettingsSurvive
=============================================================================
