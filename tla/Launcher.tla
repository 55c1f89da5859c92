------------------------------ MODULE Launcher ------------------------------
(***************************************************************************)
(* run_meetnote.py, which starts the engine, waits until it answers, opens *)
(* the desktop application, watches both and stops what is left; and the   *)
(* desktop shell (desktop/src-tauri/src/lib.rs), which owns the engine     *)
(* itself when it was started without the launcher.                        *)
(*                                                                         *)
(* The engine, the desktop application and other programs on the engine's  *)
(* port run on their own.  A step of the launcher is one look at them or   *)
(* one change to them.                                                     *)
(***************************************************************************)
EXTENDS Naturals

CONSTANTS
    Modes,             \* how the program may be started, see Mode
    Attempts,          \* HEALTH_CHECK_VALIDATION_ATTEMPTS
    MaxEngineRestarts, \* MAX_ENGINE_RESTARTS
    MaxPolls,          \* health polls that fit into READY_TIMEOUT_SECONDS
    UnhandledSignals,  \* TRUE: signals arrive where no handler knows the engine
    LateIntruder,      \* TRUE: a program may take the port while we start
    ShellRestarts,     \* TRUE: restart_app may be called without a launcher
    Stubborn,          \* TRUE: a process may outlive kill(), the application npm (--dev)
    MaxCrashes,        \* bound on engines that die on their own
    MaxReopens,        \* bound on restarts that the desktop asks for
    MaxSignals,        \* bound on SIGINT and SIGTERM
    MaxIntruders       \* bound on other programs that take the port

Mode == {"launcher", "diagnostics", "standalone"}

ASSUME LauncherAssumption ==
    /\ Modes \subseteq Mode
    /\ Attempts \in Nat \ {0} /\ MaxEngineRestarts \in Nat /\ MaxPolls \in Nat
    /\ UnhandledSignals \in BOOLEAN /\ LateIntruder \in BOOLEAN
    /\ ShellRestarts \in BOOLEAN /\ Stubborn \in BOOLEAN
    /\ MaxCrashes \in Nat /\ MaxReopens \in Nat /\ MaxSignals \in Nat
    /\ MaxIntruders \in Nat

VARIABLES
    mode,       \* what was started
    at,         \* the launcher's place
    then,       \* where a wait for readiness or a stop in progress returns to
    state,      \* EngineManager.state
    checks,     \* consecutive valid health checks
    answered,   \* who gave them
    polls,      \* polls since start()
    restarts,   \* restart_count
    engine,     \* the process that the handle (self.process, EngineHandle) refers to
    lost,       \* the number of engines started that no handle refers to
    port,       \* who listens on ENGINE_PORT
    desktop,    \* the desktop application
    counts      \* crashes, reopens, signals and intruders so far

waiting == <<state, checks, answered, polls>>
control == <<at, then>>
vars == <<mode, control, waiting, restarts, engine, lost, port, desktop, counts>>

Places == {"validate", "check", "spawn", "wait", "probe", "whisper", "open", "grace", "watch",
           "gaveup", "report", "stop", "join", "shutdown", "exited", "absent"}
Returns == {"open", "watch", "report", "again", "exit", "shutdown"}
Others == {"engine", "other"}  \* another MeetNote engine, another program
Alive == {"importing", "serving", "leaving"}

TypeOK ==
    /\ mode \in Mode /\ at \in Places /\ then \in Returns
    /\ state \in {"starting", "ready", "degraded", "failed", "stopping", "stopped"}
    /\ checks \in 0 .. Attempts /\ answered \subseteq {"ours", "engine"}
    /\ polls \in 0 .. MaxPolls
    /\ restarts \in 0 .. MaxEngineRestarts
    /\ engine \in Alive \cup {"none", "dead"}
    /\ lost \in Nat
    /\ port \in Others \cup {"free", "ours"}
    /\ desktop \in {"none", "running", "closing", "closed", "stray", "reopen"}
    /\ counts \in [{"crashes", "reopens", "signals", "intruders"} -> Nat]

Init ==
    /\ mode \in Modes
    /\ at = IF mode = "standalone" THEN "absent" ELSE "validate"
    /\ then = IF mode = "diagnostics" THEN "report" ELSE "open"
    /\ state = "stopped" /\ checks = 0 /\ answered = {} /\ polls = 0
    /\ restarts = 0
    /\ engine = "none" /\ lost = 0 /\ desktop = "none"
    /\ port \in Others \cup {"free"}
    /\ counts = [c \in {"crashes", "reopens", "signals", "intruders"} |-> 0]

Count(c, max) == counts[c] < max /\ counts' = [counts EXCEPT ![c] = @ + 1]

\* is_alive()
IsAlive == engine \in Alive

\* The process of the desktop application; a window that closes still has one.
DesktopRuns == desktop \in {"running", "closing"}

\* The port without our engine.
Released == IF port = "ours" THEN "free" ELSE port

Goto(place) == at' = place /\ UNCHANGED then
Call(place, return) == at' = place /\ then' = return

-----------------------------------------------------------------------------
(* Before the engine: validate_environment() and choose_desktop_mode()      *)

\* validate_environment(): what the engine needs, and a desktop application
\* that is built or can be run by npm; the diagnostics need none.
ReportOk(required, built, npm) == required /\ (mode = "launcher" => built \/ npm)

\* choose_desktop_mode(): --dev is taken without a look for npm, everything else
\* needs the built application.
Choosable(built, asked) == mode = "launcher" => built \/ asked = "dev"

\* Without both, nothing is started.
Validate ==
    /\ at = "validate"
    /\ \E required, built, npm \in BOOLEAN, asked \in {"auto", "dev", "prod"} :
         Goto(IF ReportOk(required, built, npm) /\ Choosable(built, asked)
              THEN "check" ELSE "exited")
    /\ UNCHANGED <<mode, waiting, restarts, engine, lost, port, desktop, counts>>

-----------------------------------------------------------------------------
(* EngineManager.start() and wait_until_ready()                             *)

\* EngineStartError ends main() through shutdown(), a restart attempt without
\* further ado, and the diagnostics.
StartFails ==
    Goto(CASE then = "open" -> "shutdown" [] then = "watch" -> "watch"
           [] OTHER -> "exited")

\* Mutant: start() does not look at the port.
PortCheck_Skipped ==
    /\ at = "check"
    /\ Goto("spawn")
    /\ UNCHANGED <<mode, waiting, restarts, engine, lost, port, desktop, counts>>

\* _port_already_in_use(): whoever listens is left alone.
PortCheck ==
    /\ at = "check"
    /\ IF port # "free" THEN StartFails ELSE Goto("spawn")
    /\ UNCHANGED <<mode, waiting, restarts, engine, lost, port, desktop, counts>>

\* Popen; the new handle replaces the old one, whatever became of that engine.
Spawn ==
    /\ at = "spawn"
    /\ engine' = "importing"
    /\ lost' = lost + (IF IsAlive THEN 1 ELSE 0)
    /\ state' = "starting" /\ checks' = 0 /\ answered' = {} /\ polls' = 0
    /\ Goto("wait")
    /\ UNCHANGED <<mode, restarts, port, desktop, counts>>

\* Popen raises OSError: main() shuts down, also in a restart attempt.
SpawnFails ==
    /\ at = "spawn"
    /\ Goto(IF mode = "launcher" THEN "shutdown" ELSE "exited")
    /\ UNCHANGED <<mode, waiting, restarts, engine, lost, port, desktop, counts>>

\* wait_until_ready() returned False: main() and the diagnostics stop the
\* engine and return 1, a restart attempt goes back to restarts.
NotReady ==
    /\ state' = "failed"
    /\ IF then = "watch" THEN Goto("watch") ELSE Call("stop", "exit")
    /\ UNCHANGED <<checks, answered, polls>>

\* The head of the loop: the deadline, then the process.
WaitLoop ==
    /\ at = "wait"
    /\ \/ NotReady
       \/ /\ polls < MaxPolls /\ IsAlive
          /\ polls' = polls + 1
          /\ Goto("probe")
          /\ UNCHANGED <<state, checks, answered>>
    /\ UNCHANGED <<mode, restarts, engine, lost, port, desktop, counts>>

\* _try_fetch_health() and _verify_port_ready(): any MeetNote engine on the
\* port passes; ours may be too slow to.
Probe ==
    /\ at = "probe"
    /\ \/ /\ port \in {"ours", "engine"}
          /\ checks' = checks + 1 /\ answered' = answered \cup {port}
          /\ IF checks + 1 >= Attempts
             THEN state' = "ready" /\ Goto("whisper")
             ELSE Goto("wait") /\ UNCHANGED state
       \/ /\ checks' = 0 /\ answered' = {}
          /\ Goto("wait")
          /\ UNCHANGED state
    /\ UNCHANGED <<mode, restarts, polls, engine, lost, port, desktop, counts>>

\* _wait_briefly_for_whisper() and the return to the caller.
WhisperGrace ==
    /\ at = "whisper"
    /\ \/ UNCHANGED state
       \/ port \in {"ours", "engine"} /\ state' = "degraded"
    /\ Goto(then)
    /\ UNCHANGED <<mode, checks, answered, polls, restarts, engine, lost, port, desktop, counts>>

-----------------------------------------------------------------------------
(* The lifecycle loop of main(), and run_diagnostics()                      *)

\* start_desktop(), which may raise.
OpenDesktop ==
    /\ at = "open"
    /\ \/ desktop' = "running" /\ Goto("grace")
       \/ UNCHANGED desktop /\ Goto("shutdown")
    /\ UNCHANGED <<mode, waiting, restarts, engine, lost, port, counts>>

\* The desktop is looked at after a second: gone by then, it counts as failed.
Grace ==
    /\ at = "grace"
    /\ IF ~DesktopRuns THEN Call("stop", "exit") ELSE Goto("watch")
    /\ UNCHANGED <<mode, waiting, restarts, engine, lost, port, desktop, counts>>

\* Mutant: "if restarts_exhausted: continue" comes before the desktop's turn.
WatchDesktop_AfterExhausted ==
    /\ at = "watch" /\ ~DesktopRuns
    /\ Call("stop", IF desktop = "reopen" THEN "again" ELSE "exit")
    /\ UNCHANGED <<mode, waiting, restarts, engine, lost, port, desktop, counts>>

\* One round of the loop in which something happened: the desktop first, also
\* when the restarts are exhausted.
WatchDesktop ==
    /\ at \in {"watch", "gaveup"} /\ ~DesktopRuns
    /\ Call("stop", IF desktop = "reopen" THEN "again" ELSE "exit")
    /\ UNCHANGED <<mode, waiting, restarts, engine, lost, port, desktop, counts>>

\* Mutant: an engine that never got ready is not restarted.
WatchEngine_OnlyOnceReady ==
    /\ at = "watch" /\ DesktopRuns /\ ~IsAlive /\ state # "failed"
    /\ IF restarts >= MaxEngineRestarts
       THEN Goto("gaveup") /\ UNCHANGED restarts
       ELSE Call("check", "watch") /\ restarts' = restarts + 1
    /\ UNCHANGED <<mode, waiting, engine, lost, port, desktop, counts>>

\* The engine died: another attempt, or none any more (restarts_exhausted).
WatchEngine ==
    /\ at = "watch" /\ DesktopRuns /\ ~IsAlive
    /\ IF restarts >= MaxEngineRestarts
       THEN Goto("gaveup") /\ UNCHANGED restarts
       ELSE Call("check", "watch") /\ restarts' = restarts + 1
    /\ UNCHANGED <<mode, waiting, engine, lost, port, desktop, counts>>

\* The report, after which the diagnostics stop the engine.
Report ==
    /\ at = "report"
    /\ Call("stop", "exit")
    /\ UNCHANGED <<mode, waiting, restarts, engine, lost, port, desktop, counts>>

\* What follows engine.stop(): the return of main(), or a fresh application.
AfterStop ==
    IF then = "again"
    THEN Call("check", "open") /\ restarts' = 0
    ELSE Goto("exited") /\ UNCHANGED restarts

\* EngineManager.stop(): ask the engine to leave ...
Stop ==
    /\ at = "stop"
    /\ IF IsAlive
       THEN /\ state' = "stopping"
            /\ engine' \in {"leaving", engine}  \* sending the signal may fail
            /\ Goto("join")
            /\ UNCHANGED restarts
       ELSE state' = "stopped" /\ AfterStop /\ UNCHANGED engine
    /\ UNCHANGED <<mode, checks, answered, polls, lost, port, desktop, counts>>

\* wait() after kill() raises TimeoutExpired: main() shuts down, maybe once more
\* where a signal had it shut down already; or that is the end of it.
KillRaises(place) ==
    /\ IF mode = "launcher" THEN place = "exited" => then = "shutdown" ELSE place = "exited"
    /\ Goto(place)

\* Mutant: an engine that does not leave in time is not killed.
Join_NoKill ==
    /\ at = "join"
    /\ state' = "stopped"
    /\ AfterStop
    /\ UNCHANGED <<mode, checks, answered, polls, engine, lost, port, desktop, counts>>

\* ... and wait for it; after GRACEFUL_SHUTDOWN_TIMEOUT_SECONDS, kill it.
Join ==
    /\ at = "join"
    /\ \E kill \in {"returns", "raises"}, place \in {"shutdown", "exited"} :
         IF Stubborn /\ kill = "raises"
         THEN engine' = "leaving" /\ KillRaises(place) /\ UNCHANGED <<port, state, restarts>>
         ELSE engine' = "dead" /\ port' = Released /\ state' = "stopped" /\ AfterStop
    /\ UNCHANGED <<mode, checks, answered, polls, lost, desktop, counts>>

\* Mutant: shutdown() stops the engine only.
Shutdown_EngineOnly ==
    /\ at = "shutdown"
    /\ Call("stop", "shutdown")
    /\ UNCHANGED <<mode, waiting, restarts, engine, lost, port, desktop, counts>>

\* shutdown(): the desktop, then the engine if there is still one.  An application
\* that outlives stop_desktop() keeps the engine.
Shutdown ==
    /\ at = "shutdown"
    /\ \E kill \in {"returns", "raises"}, place \in {"shutdown", "exited"},
          gone \in {"closed", "stray"} :
         IF DesktopRuns /\ Stubborn /\ kill = "raises"
         THEN UNCHANGED desktop /\ Call(place, "shutdown")
         ELSE /\ desktop' = IF ~DesktopRuns THEN desktop ELSE IF Stubborn THEN gone ELSE "closed"
              /\ IF IsAlive THEN Call("stop", "shutdown") ELSE Goto("exited")
    /\ UNCHANGED <<mode, waiting, restarts, engine, lost, port, counts>>

\* handle_signal(), wherever the launcher is.  An engine whose Popen has not
\* returned yet is not known to shutdown(), and the diagnostics install no
\* handler: they just end.
Signal ==
    /\ mode # "standalone" /\ at \notin {"validate", "exited"}
    /\ mode = "diagnostics" => UnhandledSignals
    /\ Count("signals", MaxSignals)
    /\ \E missed \in {0, 1} :
         /\ missed = 1 => at = "spawn" /\ UnhandledSignals
         /\ lost' = lost + missed
    /\ Goto(IF mode = "launcher" THEN "shutdown" ELSE "exited")
    /\ UNCHANGED <<mode, waiting, restarts, engine, port, desktop>>

LauncherStep ==
    \/ Validate \/ PortCheck \/ Spawn \/ SpawnFails \/ WaitLoop \/ Probe \/ WhisperGrace
    \/ OpenDesktop \/ Grace \/ WatchDesktop \/ WatchEngine \/ Report
    \/ Stop \/ Join \/ Shutdown

-----------------------------------------------------------------------------
(* The desktop shell: spawn_engine, kill_engine, restart_app                *)

\* setup(): no look at the port, and none at whether the engine could start.
ShellSetup ==
    /\ mode = "standalone" /\ desktop = "none" /\ engine = "none"
    /\ desktop' = "running"
    /\ engine' \in {"importing", "none"}
    /\ UNCHANGED <<mode, control, waiting, restarts, lost, port, counts>>

\* kill_engine(), a no-op under the launcher, whose engine is not in the handle.
KillEngine ==
    IF mode = "standalone" /\ IsAlive
    THEN engine' = "dead" /\ port' = Released
    ELSE UNCHANGED <<engine, port>>

\* CloseRequested kills the engine before the window is gone.
CloseRequested ==
    /\ desktop = "running"
    /\ desktop' = "closing"
    /\ KillEngine
    /\ UNCHANGED <<mode, control, waiting, restarts, lost, counts>>

\* ExitRequested, after a close request or without one.
ExitRequested ==
    /\ desktop \in {"running", "closing"}
    /\ desktop' = "closed"
    /\ KillEngine
    /\ UNCHANGED <<mode, control, waiting, restarts, lost, counts>>

\* restart_app(): process::exit(42) runs neither handler.
RestartApp ==
    /\ desktop = "running"
    /\ mode = "standalone" => ShellRestarts
    /\ Count("reopens", MaxReopens)
    /\ desktop' = "reopen"
    /\ UNCHANGED <<mode, control, waiting, restarts, engine, lost, port>>

ShellStep == ShellSetup \/ CloseRequested \/ ExitRequested \/ RestartApp

-----------------------------------------------------------------------------
(* The engine process and the others on its port                            *)

\* uvicorn binds after the imports and the startup of the application; if it
\* cannot, it exits.
Bind ==
    /\ engine = "importing"
    /\ IF port = "free" THEN engine' = "serving" /\ port' = "ours"
                        ELSE engine' = "dead" /\ UNCHANGED port
    /\ UNCHANGED <<mode, control, waiting, restarts, lost, desktop, counts>>

EngineCrash ==
    /\ engine \in {"importing", "serving"}
    /\ Count("crashes", MaxCrashes)
    /\ engine' = "dead" /\ port' = Released
    /\ UNCHANGED <<mode, control, waiting, restarts, lost, desktop>>

\* A graceful exit.
EngineLeaves ==
    /\ engine = "leaving"
    /\ engine' = "dead" /\ port' = Released
    /\ UNCHANGED <<mode, control, waiting, restarts, lost, desktop, counts>>

Starting == at \in {"spawn", "wait", "probe"}

Intrude ==
    /\ port = "free" /\ (Starting => LateIntruder)
    /\ Count("intruders", MaxIntruders)
    /\ port' \in Others
    /\ UNCHANGED <<mode, control, waiting, restarts, engine, lost, desktop>>

Withdraw ==
    /\ port \in Others
    /\ port' = "free"
    /\ UNCHANGED <<mode, control, waiting, restarts, engine, lost, desktop, counts>>

WorldStep == Bind \/ EngineCrash \/ EngineLeaves \/ Intrude \/ Withdraw

Next == LauncherStep \/ Signal \/ ShellStep \/ WorldStep

Spec == Init /\ [][Next]_vars

\* The launcher is scheduled; its sleeps, polls and joins have timeouts.
FairSpec == Spec /\ WF_vars(LauncherStep)

-----------------------------------------------------------------------------
(* Properties                                                               *)

\* When the launcher, or a shell that runs on its own, is gone, so is every
\* engine and every application it started ("never leave an orphaned process
\* holding the microphone open", lib.rs:11).
NothingLeftBehind ==
    /\ lost = 0
    /\ at = "exited" => ~IsAlive /\ ~DesktopRuns /\ desktop # "stray"
    /\ mode = "standalone" /\ desktop \in {"closed", "reopen"} => ~IsAlive

\* An engine is asked to stop only when no window depends on it any more,
\* whatever signals, crashes and failed restarts came before.
DesktopGoneFirst ==
    at \in {"stop", "join"} => ~DesktopRuns

\* Whoever answered the checks that made the launcher report "ready" was the
\* engine that it had started.
ReadyIsOurs ==
    state \in {"ready", "degraded"} => answered = {"ours"}

\* A desktop that closes ends the launcher, also when it closes during a
\* restart of the engine, and so does a signal.
ClosingEnds ==
    mode = "launcher" /\ desktop = "closed" ~> at = "exited"

\* An engine that dies under a running application is replaced, given up after
\* MAX_ENGINE_RESTARTS, or there is nothing left to replace it for.
DeathIsAnswered ==
    mode = "launcher" /\ DesktopRuns /\ engine = "dead"
        ~> engine # "dead" \/ at = "gaveup" \/ ~DesktopRuns
=============================================================================
