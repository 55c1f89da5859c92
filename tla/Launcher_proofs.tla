--------------------------- MODULE Launcher_proofs ---------------------------
(***************************************************************************)
(* Proofs about Launcher: nothing is left behind, the engine is never      *)
(* stopped under a window, "ready" is about the engine that was started.   *)
(***************************************************************************)
EXTENDS Launcher, TLAPS

\* The places up to the return of wait_until_ready().
StartPlaces == {"validate", "check", "spawn", "wait", "probe", "whisper"}

\* Which return goes with which place, in which mode.
Routing ==
    /\ mode = "standalone" <=> at = "absent"
    /\ at \in StartPlaces => then \in {"open", "watch", "report"}
    /\ at = "validate" => then # "watch"
    /\ at \in {"stop", "join"} => then \in {"again", "exit", "shutdown"}
    /\ at \in {"open", "grace", "watch", "gaveup", "shutdown"} \/ then = "shutdown" => mode = "launcher"
    /\ mode = "diagnostics" => then \in {"report", "exit"}
    /\ mode = "launcher" => then # "report"

\* Where the launcher is while there is a window.
WindowPlaces ==
    DesktopRuns => \/ mode = "standalone"
                   \/ at \in {"grace", "watch", "gaveup", "shutdown"}
                   \/ at \in StartPlaces /\ then = "watch"
                   \/ at = "exited" /\ Stubborn

\* No start() over a living engine, no end while one lives.
EnginePlaces ==
    /\ lost = 0 /\ desktop # "stray"
    /\ at \in {"validate", "check", "spawn", "exited"} => ~IsAlive
    /\ mode = "standalone" /\ desktop \in {"closed", "reopen"} => ~IsAlive

\* Who can have answered the health checks so far.
Answers ==
    /\ at \in {"validate", "check", "spawn"} => ~IsAlive
    /\ port = "ours" => engine \in {"serving", "leaving"}
    /\ at \in {"spawn", "wait", "probe"} => port \notin Others
    /\ at \in {"wait", "probe"} => state = "starting" /\ answered \subseteq {"ours"}
    /\ at = "whisper" => answered = {"ours"}
    /\ ReadyIsOurs

Types ==
    /\ TypeOK
    /\ at \in {"wait", "probe"} => checks < Attempts

Inv == Types /\ Routing /\ WindowPlaces

-----------------------------------------------------------------------------
(* Types and routing, which need no assumption on the switches.             *)

LEMMA InitInv == Init => Inv
  <1> SUFFICES ASSUME Init PROVE Inv
    OBVIOUS
  <1>1. Types
    BY LauncherAssumption DEF Init, Types, TypeOK, Mode, Others, Places, Returns, Alive
  <1>2. Routing /\ WindowPlaces
    BY LauncherAssumption DEF Init, Routing, WindowPlaces, StartPlaces, DesktopRuns, Mode
  <1> QED
    BY <1>1, <1>2 DEF Inv

LEMMA StepTypes == Inv /\ [Next]_vars => Types'
  <1> SUFFICES ASSUME Inv, [Next]_vars PROVE Types'
    OBVIOUS
  <1> USE LauncherAssumption DEF Inv, Types, TypeOK, Mode, Others, Places, Returns, Alive
  <1> USE DEF Goto, Call, waiting, control
  <1>1. CASE Validate BY <1>1 DEF Validate
  <1>2. CASE PortCheck BY <1>2 DEF PortCheck, StartFails
  <1>3. CASE Spawn BY <1>3 DEF Spawn
  <1>4. CASE SpawnFails BY <1>4 DEF SpawnFails
  <1>5. CASE WaitLoop
    <2>1. CASE NotReady BY <1>5, <2>1 DEF WaitLoop, NotReady
    <2>2. CASE ~NotReady
      <3>1. /\ polls < MaxPolls /\ polls' = polls + 1
            /\ at' = "probe" /\ at = "wait"
            /\ UNCHANGED <<then, state, checks, answered, mode, restarts, engine, lost,
                           port, desktop, counts>>
        BY <1>5, <2>2 DEF WaitLoop
      <3>2. polls' \in 0 .. MaxPolls
        BY <3>1
      <3> QED
        BY <3>1, <3>2
    <2> QED BY <2>1, <2>2
  <1>6. CASE Probe
    <2>1. checks' \in 0 .. Attempts /\ (at' = "wait" => checks' < Attempts)
      BY <1>6 DEF Probe
    <2>2. /\ answered' \subseteq {"ours", "engine"}
          /\ at' \in {"wait", "whisper"} /\ state' \in {state, "ready"}
          /\ UNCHANGED <<then, mode, polls, restarts, engine, lost, port, desktop, counts>>
      BY <1>6 DEF Probe
    <2> QED
      BY <2>1, <2>2
  <1>7. CASE WhisperGrace BY <1>7 DEF WhisperGrace, Routing, StartPlaces
  <1>8. CASE OpenDesktop BY <1>8 DEF OpenDesktop
  <1>9. CASE Grace BY <1>9 DEF Grace
  <1>10. CASE WatchDesktop BY <1>10 DEF WatchDesktop
  <1>11. CASE WatchEngine BY <1>11 DEF WatchEngine
  <1>12. CASE Report BY <1>12 DEF Report
  <1>13. CASE Stop BY <1>13 DEF Stop, AfterStop
  <1>14. CASE Join BY <1>14 DEF Join, KillRaises, AfterStop, Released
  <1>15. CASE Shutdown BY <1>15 DEF Shutdown
  <1>16. CASE Signal BY <1>16 DEF Signal, Count
  <1>17. CASE ShellStep
    <2>1. CASE ShellSetup BY <2>1 DEF ShellSetup
    <2>2. CASE CloseRequested BY <2>2 DEF CloseRequested, KillEngine, Released
    <2>3. CASE ExitRequested BY <2>3 DEF ExitRequested, KillEngine, Released
    <2>4. CASE RestartApp BY <2>4 DEF RestartApp, Count
    <2> QED BY <1>17, <2>1, <2>2, <2>3, <2>4 DEF ShellStep
  <1>18. CASE WorldStep
    <2>1. CASE Bind BY <2>1 DEF Bind
    <2>2. CASE EngineCrash BY <2>2 DEF EngineCrash, Count, Released
    <2>3. CASE EngineLeaves BY <2>3 DEF EngineLeaves, Released
    <2>4. CASE Intrude BY <2>4 DEF Intrude, Count
    <2>5. CASE Withdraw BY <2>5 DEF Withdraw
    <2> QED BY <1>18, <2>1, <2>2, <2>3, <2>4, <2>5 DEF WorldStep
  <1>19. CASE UNCHANGED vars BY <1>19 DEF vars
  <1> QED
    BY <1>1, <1>2, <1>3, <1>4, <1>5, <1>6, <1>7, <1>8, <1>9, <1>10, <1>11, <1>12,
       <1>13, <1>14, <1>15, <1>16, <1>17, <1>18, <1>19 DEF Next, LauncherStep

LEMMA StepRouting == Inv /\ [Next]_vars => Routing' /\ WindowPlaces'
  <1> SUFFICES ASSUME Inv, [Next]_vars PROVE Routing' /\ WindowPlaces'
    OBVIOUS
  <1> USE DEF Inv, Types, TypeOK, Mode, Places, Returns, Routing, WindowPlaces,
              StartPlaces, DesktopRuns, Goto, Call, waiting, control
  <1>1. CASE Validate
    <2>1. at = "validate" /\ at' \in {"check", "exited"} /\ UNCHANGED <<then, mode, desktop>>
      BY <1>1 DEF Validate
    <2> QED BY <2>1
  <1>2. CASE PortCheck BY <1>2 DEF PortCheck, StartFails
  <1>3. CASE Spawn
    <2>1. at = "spawn" /\ at' = "wait" /\ UNCHANGED <<then, mode, desktop>>
      BY <1>3 DEF Spawn
    <2> QED BY <2>1
  <1>4. CASE SpawnFails BY <1>4 DEF SpawnFails
  <1>5. CASE WaitLoop BY <1>5 DEF WaitLoop, NotReady
  <1>6. CASE Probe BY <1>6 DEF Probe
  <1>7. CASE WhisperGrace BY <1>7 DEF WhisperGrace
  <1>8. CASE OpenDesktop BY <1>8 DEF OpenDesktop
  <1>9. CASE Grace BY <1>9 DEF Grace
  <1>10. CASE WatchDesktop BY <1>10 DEF WatchDesktop
  <1>11. CASE WatchEngine BY <1>11 DEF WatchEngine
  <1>12. CASE Report BY <1>12 DEF Report
  <1>13. CASE Stop BY <1>13 DEF Stop, AfterStop
  <1>14. CASE Join BY <1>14 DEF Join, KillRaises, AfterStop
  <1>15. CASE Shutdown
    <2>1. /\ at = "shutdown" /\ at' \in {"shutdown", "exited", "stop"} /\ UNCHANGED mode
          /\ at' = "stop" => then' = "shutdown"
          /\ then' \in {then, "shutdown"}
      BY <1>15 DEF Shutdown
    <2>2. \/ desktop' \notin {"running", "closing"}
          \/ at' = "shutdown" \/ (at' = "exited" /\ Stubborn)
      BY <1>15 DEF Shutdown
    <2>3. mode = "launcher" /\ mode' = "launcher"
      BY <2>1
    <2> QED BY <2>1, <2>2, <2>3
  <1>16. CASE Signal
    <2>1. /\ \/ mode = "launcher" /\ at' = "shutdown"
             \/ mode = "diagnostics" /\ at' = "exited"
          /\ UNCHANGED <<then, mode, desktop>>
      <3>1. mode \in {"launcher", "diagnostics"}
        BY <1>16 DEF Signal
      <3>2. at' = IF mode = "launcher" THEN "shutdown" ELSE "exited"
        BY <1>16 DEF Signal
      <3>3. UNCHANGED <<then, mode, desktop>>
        BY <1>16 DEF Signal
      <3> QED
        BY <3>1, <3>2, <3>3
    <2> QED BY <2>1
  <1>17. CASE ShellStep
    BY <1>17 DEF ShellStep, ShellSetup, CloseRequested, ExitRequested, RestartApp
  <1>18. CASE WorldStep
    BY <1>18 DEF WorldStep, Bind, EngineCrash, EngineLeaves, Intrude, Withdraw
  <1>19. CASE UNCHANGED vars BY <1>19 DEF vars
  <1> QED
    BY <1>1, <1>2, <1>3, <1>4, <1>5, <1>6, <1>7, <1>8, <1>9, <1>10, <1>11, <1>12,
       <1>13, <1>14, <1>15, <1>16, <1>17, <1>18, <1>19 DEF Next, LauncherStep

LEMMA Invariance == Spec => []Inv
  <1>1. Inv /\ [Next]_vars => Inv'
    BY StepTypes, StepRouting DEF Inv
  <1> QED
    BY InitInv, <1>1, PTL DEF Spec

\* All variables have their types: no more than MAX_ENGINE_RESTARTS restarts.
THEOREM TypeCorrect == Spec => []TypeOK
  <1>1. Inv => TypeOK
    BY DEF Inv, Types
  <1> QED
    BY Invariance, <1>1, PTL

\* Whatever happens, no engine is asked to stop under a window.
THEOREM WindowBeforeEngine == Spec => []DesktopGoneFirst
  <1>1. Inv => DesktopGoneFirst
    BY DEF Inv, Routing, WindowPlaces, DesktopGoneFirst, StartPlaces
  <1> QED
    BY Invariance, <1>1, PTL

-----------------------------------------------------------------------------
(* What depends on the switches.                                            *)

\* Signals and restart_app() only come where somebody knows the engine.
LEMMA StepEngine ==
    ASSUME ~UnhandledSignals, ~ShellRestarts, ~Stubborn
    PROVE  Inv /\ EnginePlaces /\ [Next]_vars => EnginePlaces'
  <1> SUFFICES ASSUME Inv, EnginePlaces, [Next]_vars PROVE EnginePlaces'
    OBVIOUS
  <1> USE DEF EnginePlaces, IsAlive, Alive, Goto, Call, waiting, control
  <1>0. mode = "standalone" <=> at = "absent"
    BY DEF Inv, Routing
  <1>1. CASE Validate
    <2>1. at = "validate" /\ UNCHANGED <<engine, lost, desktop, mode>>
      BY <1>1 DEF Validate
    <2> QED BY <2>1
  <1>2. CASE PortCheck
    <2>1. at = "check" /\ UNCHANGED <<engine, lost, desktop, mode>>
      BY <1>2 DEF PortCheck
    <2> QED BY <2>1
  <1>3. CASE Spawn
    <2>1. at = "spawn" /\ at' = "wait" /\ lost' = lost
      BY <1>3 DEF Spawn, Inv, Types, TypeOK
    <2>2. UNCHANGED <<desktop, mode>>
      BY <1>3 DEF Spawn
    <2> QED BY <1>0, <2>1, <2>2
  <1>4. CASE SpawnFails
    <2>1. at = "spawn" /\ UNCHANGED <<engine, lost, desktop, mode>>
      BY <1>4 DEF SpawnFails
    <2> QED BY <2>1
  <1>5. CASE WaitLoop BY <1>5 DEF WaitLoop, NotReady
  <1>6. CASE Probe BY <1>6 DEF Probe
  <1>7. CASE WhisperGrace
    <2>1. at = "whisper" /\ at' = then /\ then \in {"open", "watch", "report"}
      BY <1>7 DEF WhisperGrace, Inv, Routing, StartPlaces
    <2> QED BY <1>7, <2>1 DEF WhisperGrace
  <1>8. CASE OpenDesktop BY <1>0, <1>8 DEF OpenDesktop
  <1>9. CASE Grace BY <1>9 DEF Grace
  <1>10. CASE WatchDesktop BY <1>10 DEF WatchDesktop
  <1>11. CASE WatchEngine BY <1>11 DEF WatchEngine
  <1>12. CASE Report BY <1>12 DEF Report
  <1>13. CASE Stop BY <1>0, <1>13 DEF Stop, AfterStop
  <1>14. CASE Join
    <2>1. /\ engine' = "dead" /\ at' \in {"check", "exited"} /\ UNCHANGED <<lost, desktop, mode>>
      BY <1>14 DEF Join, AfterStop
    <2> QED BY <2>1
  <1>15. CASE Shutdown
    <2>1. /\ at' = "stop" \/ (at' = "exited" /\ ~IsAlive)
          /\ desktop' \in {desktop, "closed"} /\ UNCHANGED <<engine, lost, mode>>
      BY <1>15 DEF Shutdown
    <2>2. mode # "standalone"
      BY <1>0, <1>15 DEF Shutdown
    <2> QED BY <2>1, <2>2
  <1>16. CASE Signal
    <2>1. /\ at' = "shutdown" /\ lost' = lost /\ UNCHANGED <<engine, desktop, mode>>
      BY <1>16 DEF Signal, Inv, Types, TypeOK, Mode
    <2> QED BY <2>1
  <1>17. CASE ShellSetup BY <1>0, <1>17 DEF ShellSetup
  <1>18. CASE CloseRequested BY <1>0, <1>18 DEF CloseRequested, KillEngine
  <1>19. CASE ExitRequested BY <1>0, <1>19 DEF ExitRequested, KillEngine
  <1>20. CASE RestartApp BY <1>20 DEF RestartApp
  <1>21. CASE Bind BY <1>21 DEF Bind
  <1>22. CASE EngineCrash BY <1>22 DEF EngineCrash
  <1>23. CASE EngineLeaves BY <1>23 DEF EngineLeaves
  <1>24. CASE Intrude BY <1>24 DEF Intrude
  <1>25. CASE Withdraw BY <1>25 DEF Withdraw
  <1>26. CASE UNCHANGED vars BY <1>26 DEF vars
  <1> QED
    BY <1>1, <1>2, <1>3, <1>4, <1>5, <1>6, <1>7, <1>8, <1>9, <1>10, <1>11, <1>12,
       <1>13, <1>14, <1>15, <1>16, <1>17, <1>18, <1>19, <1>20, <1>21, <1>22,
       <1>23, <1>24, <1>25, <1>26 DEF Next, LauncherStep, ShellStep, WorldStep

\* The launcher, and a shell on its own, leave no process behind.
THEOREM LeavesNothingBehind ==
    ASSUME ~UnhandledSignals, ~ShellRestarts, ~Stubborn
    PROVE  Spec => []NothingLeftBehind
  <1>1. Init => EnginePlaces
    BY DEF Init, EnginePlaces, IsAlive, Alive
  <1>2. Inv /\ EnginePlaces => NothingLeftBehind
    BY DEF EnginePlaces, NothingLeftBehind, Inv, Routing, WindowPlaces, StartPlaces
  <1> QED
    BY Invariance, <1>1, <1>2, StepEngine, PTL DEF Spec

\* No other engine takes the port between the look at it and the third answer.
LEMMA StepAnswers ==
    ASSUME ~LateIntruder
    PROVE  Inv /\ Answers /\ [Next]_vars => Answers'
  <1> SUFFICES ASSUME Inv, Answers, [Next]_vars PROVE Answers'
    OBVIOUS
  <1> USE DEF Answers, ReadyIsOurs, IsAlive, Alive, Others, Goto, Call, waiting, control
  <1>0. port \in {"free", "ours", "engine", "other"}
    BY DEF Inv, Types, TypeOK
  <1>1. CASE Validate
    <2>1. /\ at = "validate" /\ at' \in {"check", "exited"}
          /\ UNCHANGED <<engine, port, state, answered>>
      BY <1>1 DEF Validate
    <2> QED BY <2>1
  <1>2. CASE PortCheck
    <2>1. at' = "spawn" => port = "free"
      BY <1>2 DEF PortCheck, StartFails, Inv, Routing, StartPlaces
    <2>2. /\ at = "check" /\ at' \in {"spawn", "shutdown", "watch", "exited"}
          /\ UNCHANGED <<engine, port, state, answered>>
      BY <1>2 DEF PortCheck, StartFails
    <2> QED BY <2>1, <2>2
  <1>3. CASE Spawn
    <2>1. /\ at = "spawn" /\ at' = "wait" /\ engine' = "importing"
          /\ state' = "starting" /\ answered' = {} /\ port' = port
      BY <1>3 DEF Spawn
    <2> QED BY <1>0, <2>1
  <1>4. CASE SpawnFails
    <2>1. at' \in {"shutdown", "exited"} /\ UNCHANGED <<engine, port, state, answered>>
      BY <1>4 DEF SpawnFails
    <2> QED BY <2>1
  <1>5. CASE WaitLoop
    <2>1. /\ at = "wait" /\ UNCHANGED <<engine, port, answered>>
          /\ \/ state' = "failed" /\ at' \in {"watch", "stop"}
             \/ state' = state /\ at' = "probe"
      BY <1>5 DEF WaitLoop, NotReady
    <2> QED BY <2>1
  <1>6. CASE Probe
    <2>1. at = "probe" /\ UNCHANGED <<engine, port>>
      BY <1>6 DEF Probe
    <2>2. port \notin Others /\ state = "starting" /\ answered \subseteq {"ours"}
      BY <2>1
    <2>3. \/ /\ port = "ours" /\ answered' = answered \cup {port}
             /\ \/ state' = "ready" /\ at' = "whisper"
                \/ state' = state /\ at' = "wait"
          \/ answered' = {} /\ at' = "wait" /\ state' = state
      BY <1>6, <2>2 DEF Probe
    <2> QED BY <2>1, <2>2, <2>3
  <1>7. CASE WhisperGrace
    <2>1. /\ at = "whisper" /\ at' \in {"open", "watch", "report"}
          /\ UNCHANGED <<engine, port, answered>>
      BY <1>7 DEF WhisperGrace, Inv, Routing, StartPlaces
    <2>2. answered' = {"ours"}
      BY <2>1
    <2> QED BY <2>1, <2>2
  <1>8. CASE OpenDesktop BY <1>8 DEF OpenDesktop
  <1>9. CASE Grace BY <1>9 DEF Grace
  <1>10. CASE WatchDesktop BY <1>10 DEF WatchDesktop
  <1>11. CASE WatchEngine BY <1>11 DEF WatchEngine
  <1>12. CASE Report BY <1>12 DEF Report
  <1>13. CASE Stop
    <2>1. CASE IsAlive
      <3>1. /\ at' = "join" /\ state' = "stopping" /\ engine' \in {"leaving", engine}
            /\ UNCHANGED <<answered, port>>
        BY <1>13, <2>1 DEF Stop
      <3> QED BY <3>1
    <2>2. CASE ~IsAlive
      <3>1. /\ at' \in {"check", "exited"} /\ state' = "stopped"
            /\ UNCHANGED <<answered, port, engine>>
        BY <1>13, <2>2 DEF Stop, AfterStop
      <3> QED BY <2>2, <3>1
    <2> QED BY <2>1, <2>2
  <1>14. CASE Join
    <2>1. \/ /\ at' \in {"check", "exited"} /\ state' = "stopped" /\ engine' = "dead"
             /\ port' # "ours"
          \/ /\ at' \in {"shutdown", "exited"} /\ engine' = "leaving"
             /\ UNCHANGED <<port, state, answered>>
      BY <1>14 DEF Join, KillRaises, AfterStop, Released
    <2> QED BY <2>1
  <1>15. CASE Shutdown BY <1>15 DEF Shutdown
  <1>16. CASE Signal
    <2>1. at' \in {"shutdown", "exited"} /\ UNCHANGED <<engine, port, state, answered>>
      BY <1>16 DEF Signal
    <2> QED BY <2>1
  <1>17. CASE ShellSetup BY <1>17 DEF ShellSetup, Inv, Routing
  <1>18. CASE CloseRequested BY <1>0, <1>18 DEF CloseRequested, KillEngine, Released
  <1>19. CASE ExitRequested BY <1>0, <1>19 DEF ExitRequested, KillEngine, Released
  <1>20. CASE RestartApp BY <1>20 DEF RestartApp
  <1>21. CASE Bind BY <1>21 DEF Bind
  <1>22. CASE EngineCrash BY <1>0, <1>22 DEF EngineCrash, Released
  <1>23. CASE EngineLeaves BY <1>0, <1>23 DEF EngineLeaves, Released
  <1>24. CASE Intrude BY <1>24 DEF Intrude, Starting
  <1>25. CASE Withdraw BY <1>25 DEF Withdraw
  <1>26. CASE UNCHANGED vars BY <1>26 DEF vars
  <1> QED
    BY <1>1, <1>2, <1>3, <1>4, <1>5, <1>6, <1>7, <1>8, <1>9, <1>10, <1>11, <1>12,
       <1>13, <1>14, <1>15, <1>16, <1>17, <1>18, <1>19, <1>20, <1>21, <1>22,
       <1>23, <1>24, <1>25, <1>26 DEF Next, LauncherStep, ShellStep, WorldStep

\* "Ready" is about the engine that was started, as long as no other engine
\* takes the port while it starts.
THEOREM ReadyMeansOurs ==
    ASSUME ~LateIntruder
    PROVE  Spec => []ReadyIsOurs
  <1>1. Init => Answers
    BY DEF Init, Answers, ReadyIsOurs, Others, IsAlive, Alive
  <1>2. Answers => ReadyIsOurs
    BY DEF Answers
  <1> QED
    BY Invariance, <1>1, <1>2, StepAnswers, PTL DEF Spec
=============================================================================
