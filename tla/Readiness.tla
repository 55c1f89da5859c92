------------------------------ MODULE Readiness ------------------------------
(***************************************************************************)
(* What an engine process knows of its own readiness: the transcription    *)
(* mode chosen at boot (hardware/), the Whisper model that the background  *)
(* thread or a request loads (main.py, whisper_engine.py), and the health  *)
(* of the two audio devices, which one monitor thread probes while no      *)
(* meeting records (audio/health.py); and what reads it: GET /health, POST *)
(* /config, POST /meeting/start and resume-after-restart.                  *)
(*                                                                         *)
(* One request is enough: session_lock lets one start load at a time.      *)
(***************************************************************************)
EXTENDS Naturals

CONSTANTS
    Preferences,  \* the values of hardware_mode that are saved
    StorageFails, \* TRUE: start_recording() may fail after the capture began
    MaxFlips,     \* bound on devices that are plugged in, or out
    MaxStarts,    \* bound on the requests for a session
    MaxRestarts   \* bound on restarts of the engine

ASSUME ReadinessAssumption ==
    /\ Preferences \subseteq {"automatic", "gpu", "cpu"}
    /\ StorageFails \in BOOLEAN
    /\ MaxFlips \in Nat /\ MaxStarts \in Nat /\ MaxRestarts \in Nat

Devices == {"microphone", "system_audio"}
Loaders == {"background", "request"}
FailureThreshold == 2

VARIABLES
    saved,       \* hardware_mode in config.json
    preference,  \* active_hardware_preference, read at boot
    decision,    \* mode_decision.device
    transcriber, \* the device of the loaded model, or "none"
    loading,     \* whisper_loading
    loadError,   \* whisper_load_error
    at,          \* the place of each caller of _load_whisper_in_background()
    kind,        \* the request is a "start" or a "resume"
    session,     \* active_session: its state, or "none"
    orphan,      \* a capture without a session holds the devices
    works,       \* the devices that are there
    ok, streak, probed, \* _DeviceHealth of each device
    last, before, \* history: the result of its last probe, and of the one before
    monitor,     \* the place of the monitor's thread
    poll,        \* GET /health took the branch of the live recorder ("live") ...
    counts       \* flips, starts and restarts so far

model == <<preference, decision, transcriber, loading, loadError>>
request == <<at, kind>>
audio == <<ok, streak, probed, last, before, monitor>>
vars == <<saved, model, request, session, orphan, works, audio, poll, counts>>

TypeOK ==
    /\ saved \in Preferences /\ preference \in Preferences
    /\ decision \in {"cuda", "cpu", "error"}
    /\ transcriber \in {"none", "cuda", "cpu"}
    /\ loading \in BOOLEAN /\ loadError \in {"none", "refused", "failed"}
    /\ at \in [Loaders -> {"idle", "enter", "loading", "check", "open", "capture"}]
    /\ kind \in {"start", "resume"}
    /\ session \in {"none", "recording", "pausing", "paused", "resuming", "finalizing", "finished"}
    /\ orphan \in BOOLEAN
    /\ works \subseteq Devices
    /\ ok \in [Devices -> BOOLEAN] /\ probed \in [Devices -> BOOLEAN]
    /\ streak \in [Devices -> Nat]
    /\ last \in [Devices -> {"none", "good", "bad"}]
    /\ before \in [Devices -> {"none", "good", "bad"}]
    /\ monitor \in Devices \cup {"boot", "wake", "gone"}
    /\ poll \in {"idle", "live", "crashed"}
    /\ counts \in [{"flips", "starts", "restarts"} -> Nat]

Count(c, max) == counts[c] < max /\ counts' = [counts EXCEPT ![c] = @ + 1]

-----------------------------------------------------------------------------
(* Boot: lifespan()                                                         *)

\* Mutant: a usable GPU is taken whatever the preference.
Decide_GpuFirst(wanted, usable) ==
    IF usable THEN "cuda" ELSE IF wanted = "gpu" THEN "error" ELSE "cpu"

\* detect_hardware() does not look at CUDA for "cpu"; select_transcription_mode()
\* refuses "gpu" without it.  The last GPU rule and the last CPU rule match all.
Decide(wanted, usable) ==
    IF wanted # "cpu" /\ usable THEN "cuda" ELSE IF wanted = "gpu" THEN "error" ELSE "cpu"

\* The background thread is started unless the mode was refused.
FirstPlaces(mode) ==
    [l \in Loaders |-> IF l = "background" /\ mode # "error" THEN "enter" ELSE "idle"]

FirstError(mode) == IF mode = "error" THEN "refused" ELSE "none"

ForAll(value) == [d \in Devices |-> value]

Init ==
    /\ saved \in Preferences /\ preference = saved
    /\ \E usable \in BOOLEAN : decision = Decide(saved, usable)
    /\ transcriber = "none" /\ loading = (decision # "error") /\ loadError = FirstError(decision)
    /\ at = FirstPlaces(decision) /\ kind = "start" /\ session = "none" /\ orphan = FALSE
    /\ works \in SUBSET Devices
    /\ ok = ForAll(TRUE) /\ streak = ForAll(0) /\ probed = ForAll(FALSE)
    /\ last = ForAll("none") /\ before = ForAll("none")
    /\ monitor = "boot" /\ poll = "idle"
    /\ counts = [c \in {"flips", "starts", "restarts"} |-> 0]

\* The process ends, at any moment, and another one is started.
Restart ==
    /\ Count("restarts", MaxRestarts)
    /\ preference' = saved
    /\ \E usable \in BOOLEAN : decision' = Decide(saved, usable)
    /\ transcriber' = "none" /\ loading' = (decision' # "error") /\ loadError' = FirstError(decision')
    /\ at' = FirstPlaces(decision') /\ kind' = "start" /\ session' = "none" /\ orphan' = FALSE
    /\ ok' = ForAll(TRUE) /\ streak' = ForAll(0) /\ probed' = ForAll(FALSE)
    /\ last' = ForAll("none") /\ before' = ForAll("none") /\ monitor' = "boot" /\ poll' = "idle"
    /\ UNCHANGED <<saved, works>>

-----------------------------------------------------------------------------
(* The model: _load_whisper_in_background() and WhisperTranscriber.load()   *)

Locked == \E l \in Loaders : at[l] = "loading"

After(l) == IF l = "request" THEN "check" ELSE "idle"

\* Mutant: whoever gets the lock loads.
Enter_Always(l) ==
    /\ at[l] = "enter" /\ ~Locked
    /\ IF decision = "error"
       THEN loading' = FALSE /\ at' = [at EXCEPT ![l] = After(l)]
       ELSE at' = [at EXCEPT ![l] = "loading"] /\ UNCHANGED loading
    /\ UNCHANGED <<saved, preference, decision, transcriber, loadError, kind, session, orphan,
                   works, audio, poll, counts>>

\* whisper_load_lock is free: load, unless that is done or hopeless.
Enter(l) ==
    /\ at[l] = "enter" /\ ~Locked
    /\ IF transcriber # "none" \/ decision = "error"
       THEN loading' = FALSE /\ at' = [at EXCEPT ![l] = After(l)]
       ELSE at' = [at EXCEPT ![l] = "loading"] /\ UNCHANGED loading
    /\ UNCHANGED <<saved, preference, decision, transcriber, loadError, kind, session, orphan,
                   works, audio, poll, counts>>

\* Mutant: whisper_loading is reset after a success only.
Load_NoFinally(l) ==
    /\ at[l] = "loading"
    /\ \/ /\ transcriber' \in {decision, "cpu"} /\ loading' = FALSE
          /\ UNCHANGED loadError
       \/ loadError' = "failed" /\ UNCHANGED <<transcriber, loading>>
    /\ at' = [at EXCEPT ![l] = After(l)]
    /\ UNCHANGED <<saved, preference, decision, kind, session, orphan, works, audio, poll, counts>>

\* load(): what was decided, or the CPU if the GPU fails, or nothing.
Load(l) ==
    /\ at[l] = "loading"
    /\ \/ transcriber' \in {decision, "cpu"} /\ UNCHANGED loadError
       \/ loadError' = "failed" /\ UNCHANGED transcriber
    /\ loading' = FALSE
    /\ at' = [at EXCEPT ![l] = After(l)]
    /\ UNCHANGED <<saved, preference, decision, kind, session, orphan, works, audio, poll, counts>>

LoadStep(l) == Enter(l) \/ Load(l)

-----------------------------------------------------------------------------
(* The devices: AudioHealthMonitor                                          *)

\* A capture holds the devices a little before the session records and a
\* little after it paused or ended.
Held ==
    \/ session \in {"recording", "pausing", "resuming", "finalizing"}
    \/ at["request"] = "capture" \/ orphan

Results(d) ==
    IF d \notin works THEN {"bad"} ELSE IF Held THEN {"good", "bad"} ELSE {"good"}

\* Beyond the threshold only the time between two probes depends on the streak.
Longer(n) == IF n < FailureThreshold THEN n + 1 ELSE n

\* Mutant: the first probe is given the benefit of the doubt as well.
Record_FirstForgiven(d, result) ==
    /\ streak' = [streak EXCEPT ![d] = IF result = "good" THEN 0 ELSE Longer(@)]
    /\ ok' = [ok EXCEPT ![d] = result = "good" \/ (@ /\ streak'[d] < FailureThreshold)]
    /\ probed' = [probed EXCEPT ![d] = TRUE]

\* record_success() and record_failure().
Record(d, result) ==
    /\ streak' = [streak EXCEPT ![d] = IF result = "good" THEN 0 ELSE Longer(@)]
    /\ ok' = [ok EXCEPT ![d] = \/ result = "good"
                               \/ @ /\ probed[d] /\ streak'[d] < FailureThreshold]
    /\ probed' = [probed EXCEPT ![d] = TRUE]

\* Half of _probe_cycle(): the microphone first.
Probe(d) ==
    /\ monitor = d
    /\ \E result \in Results(d) :
         /\ Record(d, result)
         /\ last' = [last EXCEPT ![d] = result] /\ before' = [before EXCEPT ![d] = last[d]]
    /\ monitor' = IF d = "microphone" THEN "system_audio" ELSE "wake"
    /\ UNCHANGED <<saved, model, request, session, orphan, works, poll, counts>>

\* The thread starts; without the soundcard library it reports that and ends.
MonitorStarts ==
    /\ monitor = "boot"
    /\ \/ monitor' = "wake" /\ UNCHANGED <<ok, streak, probed, last, before>>
       \/ /\ monitor' = "gone"
          /\ ok' = ForAll(FALSE) /\ probed' = ForAll(TRUE)
          /\ streak' = ForAll(1) /\ last' = ForAll("bad") /\ UNCHANGED before
    /\ UNCHANGED <<saved, model, request, session, orphan, works, poll, counts>>

\* Mutant: the monitor waits for the end of the session, paused or not.
Wake_NoSession ==
    /\ monitor = "wake" /\ session = "none"
    /\ monitor' = "microphone"
    /\ UNCHANGED <<saved, model, request, session, orphan, works, ok, streak, probed, last, before,
                   poll, counts>>

\* _is_actively_recording() is asked before each cycle, and not during it.
Wake ==
    /\ monitor = "wake" /\ session # "recording"
    /\ monitor' = "microphone"
    /\ UNCHANGED <<saved, model, request, session, orphan, works, ok, streak, probed, last, before,
                   poll, counts>>

MonitorStep == MonitorStarts \/ Wake \/ \E d \in Devices : Probe(d)

-----------------------------------------------------------------------------
(* The requests                                                             *)

\* POST /config with a hardware mode: 409 while there is a session.
PatchConfig ==
    /\ session = "none"
    /\ saved' \in Preferences \ {saved}
    /\ UNCHANGED <<model, request, session, orphan, works, audio, poll, counts>>

\* session_lock is taken and the slot is free.  resume-after-restart loads only
\* what is missing and possible, start calls the loader in any case.
Ask(k) ==
    /\ at["request"] = "idle" /\ session = "none"
    /\ Count("starts", MaxStarts)
    /\ kind' = k
    /\ at' = [at EXCEPT !["request"] =
         IF k = "resume" /\ (transcriber # "none" \/ decision = "error") THEN "check" ELSE "enter"]
    /\ UNCHANGED <<saved, model, session, orphan, works, audio, poll>>

\* 503 without a model, and for a start without any device.
Check ==
    /\ at["request"] = "check"
    /\ at' = [at EXCEPT !["request"] =
         IF \/ transcriber = "none"
            \/ kind = "start" /\ \A d \in Devices : ~ok[d]
         THEN "idle" ELSE "open"]
    /\ UNCHANGED <<saved, model, kind, session, orphan, works, audio, poll, counts>>

\* start_recording(): the capture is started before the session is registered.
Open ==
    /\ at["request"] = "open"
    /\ at' = [at EXCEPT !["request"] = "capture"]
    /\ UNCHANGED <<saved, model, kind, session, orphan, works, audio, poll, counts>>

\* The status is saved, the session registered; or it fails, and nobody stops
\* the capture.
Register ==
    /\ at["request"] = "capture"
    /\ \/ session' = "recording" /\ UNCHANGED orphan
       \/ StorageFails /\ orphan' = TRUE /\ UNCHANGED session
    /\ at' = [at EXCEPT !["request"] = "idle"]
    /\ UNCHANGED <<saved, model, kind, works, audio, poll, counts>>

RequestStep == Check \/ Open \/ Register

\* pause(), resume() and stop(), whose state changes around the capture, and the
\* end of the notes task, which frees the slot.
SessionMoves(to) ==
    /\ \/ session = "recording" /\ to \in {"pausing", "finalizing"}
       \/ session = "pausing" /\ to = "paused"
       \/ session = "paused" /\ to \in {"resuming", "finished"}
       \/ session = "resuming" /\ to = "recording"
       \/ session = "finalizing" /\ to = "finished"
       \/ session = "finished" /\ to = "none"
    /\ session' = to
    /\ UNCHANGED <<saved, model, request, orphan, works, audio, poll, counts>>

\* GET /health: _current_device_probe() looks at the session ...
Poll ==
    /\ poll = "idle" /\ session = "recording"
    /\ poll' = "live"
    /\ UNCHANGED <<saved, model, request, session, orphan, works, audio, counts>>

\* ... and reads active_session again for its device_status().
PollAnswers ==
    /\ poll = "live"
    /\ poll' = IF session = "none" THEN "crashed" ELSE "idle"
    /\ UNCHANGED <<saved, model, request, session, orphan, works, audio, counts>>

\* A device is plugged in, or out.
Flip(d) ==
    /\ Count("flips", MaxFlips)
    /\ works' = IF d \in works THEN works \ {d} ELSE works \cup {d}
    /\ UNCHANGED <<saved, model, request, session, orphan, audio, poll>>

Next ==
    \/ Restart
    \/ \E l \in Loaders : LoadStep(l)
    \/ MonitorStep
    \/ PatchConfig
    \/ \E k \in {"start", "resume"} : Ask(k)
    \/ RequestStep
    \/ \E to \in {"none", "recording", "pausing", "paused", "resuming", "finalizing", "finished"} :
         SessionMoves(to)
    \/ Poll \/ PollAnswers
    \/ \E d \in Devices : Flip(d)

Spec == Init /\ [][Next]_vars

\* Threads are scheduled, a load and a probe end.
FairSpec ==
    /\ Spec /\ WF_vars(MonitorStep) /\ WF_vars(RequestStep)
    /\ \A l \in Loaders : WF_vars(LoadStep(l))

-----------------------------------------------------------------------------
(* Properties                                                               *)

\* Two consecutive failures, or a failure at first sight, and nothing less turns
\* a device's light off; any success turns it on again (_DeviceHealth's
\* docstring), through pauses, starts and restarts.
HealthFollowsProbes ==
    \A d \in Devices :
        ok[d] <=> last[d] \in {"none", "good"} \/ before[d] = "good"

\* The preference "cpu" keeps the model off the GPU until a restart after the
\* preference was changed, whoever loads it and whatever was saved meanwhile
\* (README.md:70).
CpuMeansCpu ==
    preference = "cpu" => transcriber # "cuda"

\* A process loads one model: the loader that waited for the lock, or a later
\* request, never puts another in its place under a meeting that uses it.
ModelKept ==
    [][transcriber # "none" /\ counts'["restarts"] = counts["restarts"] => transcriber' = transcriber]_vars

\* "Preparing transcription..." is not for ever, however the load ends.
LoadingEnds ==
    loading ~> ~loading

\* A device that works while nothing holds it is found again, also while the
\* meeting is paused; unless the monitor ended for want of its library.
RecoveryIsSeen ==
    \A d \in Devices :
        <>[](d \in works /\ ~Held) => []<>(ok[d] \/ monitor = "gone")

\* README.md:69: "NVIDIA GPU: requires a usable GPU; does not silently fall back
\* to CPU".  load() falls back whatever was preferred, and /health goes on
\* showing the mode that was decided.
GpuMeansGpu ==
    preference = "gpu" => transcriber # "cpu"

\* An error that /health reports is not that of an earlier attempt.
ErrorIsCurrent ==
    transcriber # "none" => loadError = "none"

\* A device that works (and has all along: MaxFlips = 0) is not reported as
\* unavailable because the probes met our own capture.
AlarmIsReal ==
    \A d \in works : ok[d] \/ monitor = "gone"

\* health.py:138: 'a truthful "not yet confirmed working", never a "false green"'.
\* The check of a start passes on the word of a probe.
NoFalseGreen ==
    at["request"] = "open" /\ kind = "start" => \E d \in Devices : last[d] # "none"

\* GET /health is answered.
HealthAnswers ==
    poll # "crashed"

\* The devices are held by a session that one can stop.
CaptureHasSession ==
    ~orphan
=============================================================================
