-------------------------- MODULE Readiness_proofs --------------------------
(***************************************************************************)
(* Proofs about Readiness, for every set of preferences and every number   *)
(* of requests, device changes and restarts.                               *)
(***************************************************************************)
EXTENDS Readiness, TLAPS

\* The streak and the first-probe flag are what the last results say.
Streaks ==
    \A d \in Devices :
        /\ probed[d] <=> last[d] # "none"
        /\ streak[d] = 0 <=> last[d] \in {"none", "good"}
        /\ streak[d] = 1 /\ ok[d] => before[d] = "good"
        /\ monitor = "boot" => last[d] = "none" /\ before[d] = "none"

HealthInv == TypeOK /\ Streaks /\ HealthFollowsProbes

\* What may still be loaded is what was decided or the CPU; one thread loads, and
\* only what is not there.
ModelInv ==
    /\ CpuMeansCpu /\ (preference = "cpu" => decision # "cuda")
    /\ \A l \in Loaders : at[l] = "loading" => transcriber = "none" /\ decision # "error"
    /\ \A l, k \in Loaders : at[l] = "loading" /\ at[k] = "loading" => l = k

IInv == HealthInv /\ ModelInv

-----------------------------------------------------------------------------

LEMMA InitInv == Init => IInv
<1> SUFFICES ASSUME Init PROVE IInv
  OBVIOUS
<1> USE ReadinessAssumption DEF Init, FirstPlaces, FirstError, ForAll, Devices, Loaders
<1>1. TypeOK
  BY DEF TypeOK, Decide
<1>2. Streaks /\ HealthFollowsProbes
  BY DEF Streaks, HealthFollowsProbes
<1>3. ModelInv
  BY DEF ModelInv, CpuMeansCpu, Decide
<1> QED
  BY <1>1, <1>2, <1>3 DEF IInv, HealthInv

LEMMA StepRestart == IInv /\ Restart => IInv'
<1> SUFFICES ASSUME IInv, Restart PROVE IInv'
  OBVIOUS
<1> USE ReadinessAssumption DEF IInv, HealthInv, Restart, FirstPlaces, FirstError, ForAll, Devices, Loaders
<1>0. decision' \in {"cuda", "cpu", "error"}
  BY DEF Decide
<1>1. TypeOK'
  <2>1. /\ at' \in [Loaders -> {"idle", "enter"}] /\ ok' \in [Devices -> BOOLEAN]
        /\ probed' \in [Devices -> BOOLEAN] /\ streak' \in [Devices -> Nat]
        /\ last' \in [Devices -> {"none"}] /\ before' \in [Devices -> {"none"}]
    OBVIOUS
  <2>2. counts' \in [{"flips", "starts", "restarts"} -> Nat]
    BY DEF TypeOK, Count
  <2>3. /\ saved' \in Preferences /\ preference' \in Preferences /\ works' \subseteq Devices
        /\ transcriber' = "none" /\ loading' \in BOOLEAN /\ loadError' \in {"refused", "none"}
        /\ kind' = "start" /\ session' = "none" /\ orphan' = FALSE
        /\ monitor' = "boot" /\ poll' = "idle"
    BY DEF TypeOK
  <2> QED
    BY <1>0, <2>1, <2>2, <2>3 DEF TypeOK
<1>2. Streaks' /\ HealthFollowsProbes'
  BY DEF Streaks, HealthFollowsProbes
<1>3. ModelInv'
  BY DEF ModelInv, CpuMeansCpu, Decide
<1> QED
  BY <1>1, <1>2, <1>3

\* The probes: nothing of the model changes.
LEMMA StepMonitor == IInv /\ MonitorStep => IInv'
<1> SUFFICES ASSUME IInv, MonitorStep PROVE IInv'
  OBVIOUS
<1>1. UNCHANGED <<saved, model, request, session, orphan, works, poll, counts>>
  BY DEF MonitorStep, MonitorStarts, Wake, Probe
<1>0. /\ saved' = saved /\ preference' = preference /\ decision' = decision
      /\ transcriber' = transcriber /\ loading' = loading /\ loadError' = loadError
      /\ at' = at /\ kind' = kind /\ session' = session /\ orphan' = orphan
      /\ works' = works /\ poll' = poll /\ counts' = counts
  BY <1>1 DEF model, request
<1>2. ModelInv'
  BY <1>0 DEF IInv, ModelInv, CpuMeansCpu, model, request
<1>3. ASSUME NEW d \in Devices, Probe(d) PROVE HealthInv'
  <2>1. PICK result \in {"good", "bad"} :
          /\ Record(d, result)
          /\ last' = [last EXCEPT ![d] = result] /\ before' = [before EXCEPT ![d] = last[d]]
    BY <1>3 DEF Probe, Results
  <2>2. monitor' \in {"system_audio", "wake"}
    BY <1>3 DEF Probe
  <2>3. TypeOK'
    BY <1>0, <2>1, <2>2 DEF IInv, HealthInv, TypeOK, Record, Longer, FailureThreshold, Devices
  <2>4. ASSUME NEW e \in Devices
        PROVE  /\ probed'[e] <=> last'[e] # "none"
               /\ streak'[e] = 0 <=> last'[e] \in {"none", "good"}
               /\ streak'[e] = 1 /\ ok'[e] => before'[e] = "good"
               /\ monitor' # "boot"
               /\ ok'[e] <=> last'[e] \in {"none", "good"} \/ before'[e] = "good"
    <3>1. CASE e # d
      BY <3>1, <2>1, <2>2 DEF IInv, HealthInv, TypeOK, Streaks, HealthFollowsProbes, Record
    <3>2. CASE e = d
      BY <3>2, <2>1, <2>2 DEF IInv, HealthInv, TypeOK, Streaks, HealthFollowsProbes, Record,
         Longer, FailureThreshold
    <3> QED
      BY <3>1, <3>2
  <2> QED
    BY <2>3, <2>4, <2>2 DEF HealthInv, Streaks, HealthFollowsProbes
<1>4. CASE MonitorStarts
  <2>0. /\ ok' \in [Devices -> BOOLEAN] /\ probed' \in [Devices -> BOOLEAN]
        /\ streak' \in [Devices -> Nat] /\ last' \in [Devices -> {"none", "good", "bad"}]
        /\ before' = before /\ monitor' \in {"wake", "gone"}
    <3>1. CASE UNCHANGED <<ok, streak, probed, last, before>> /\ monitor' = "wake"
      BY <3>1 DEF IInv, HealthInv, TypeOK
    <3>2. CASE /\ monitor' = "gone" /\ before' = before
               /\ ok' = ForAll(FALSE) /\ probed' = ForAll(TRUE)
               /\ streak' = ForAll(1) /\ last' = ForAll("bad")
      BY <3>2 DEF ForAll
    <3> QED
      BY <3>1, <3>2, <1>4 DEF MonitorStarts
  <2>1. TypeOK'
    BY <1>0, <2>0 DEF IInv, HealthInv, TypeOK, Devices
  <2>2. Streaks' /\ HealthFollowsProbes'
    BY <1>4 DEF MonitorStarts, ForAll, IInv, HealthInv, TypeOK, Streaks, HealthFollowsProbes
  <2> QED
    BY <1>2, <2>1, <2>2 DEF HealthInv, IInv
<1>5. CASE Wake
  <2>1. /\ ok' = ok /\ streak' = streak /\ probed' = probed /\ last' = last /\ before' = before
        /\ monitor' = "microphone"
    BY <1>5 DEF Wake
  <2>2. TypeOK'
    BY <1>0, <2>1 DEF IInv, HealthInv, TypeOK, Devices
  <2>3. Streaks' /\ HealthFollowsProbes'
    BY <2>1 DEF IInv, HealthInv, Streaks, HealthFollowsProbes
  <2> QED
    BY <1>2, <2>2, <2>3 DEF HealthInv, IInv
<1> QED
  BY <1>2, <1>3, <1>4, <1>5 DEF MonitorStep, IInv

\* Everything else leaves the probes alone.
Others ==
    \/ \E l \in Loaders : LoadStep(l)
    \/ PatchConfig \/ (\E k \in {"start", "resume"} : Ask(k)) \/ RequestStep
    \/ \E to \in {"none", "recording", "pausing", "paused", "resuming", "finalizing", "finished"} :
         SessionMoves(to)
    \/ Poll \/ PollAnswers
    \/ \E d \in Devices : Flip(d)

LEMMA OthersTypes == IInv /\ Others => TypeOK'
<1> USE ReadinessAssumption DEF TypeOK, Loaders, audio, model, request
<1> SUFFICES ASSUME TypeOK, ModelInv, Others PROVE TypeOK'
  BY DEF IInv, HealthInv
<1>1. ASSUME NEW l \in Loaders, Enter(l) PROVE TypeOK'
  <2>1. /\ loading' \in BOOLEAN
        /\ at' = [at EXCEPT ![l] = "loading"] \/ at' = [at EXCEPT ![l] = After(l)]
    BY <1>1 DEF Enter
  <2>2. at' \in [Loaders -> {"idle", "enter", "loading", "check", "open", "capture"}]
    BY <2>1 DEF After
  <2> QED
    BY <1>1, <2>1, <2>2 DEF Enter
<1>2. ASSUME NEW l \in Loaders, Load(l) PROVE TypeOK'
  <2>1. transcriber' \in {"none", "cuda", "cpu"} /\ loadError' \in {"none", "refused", "failed"}
    BY <1>2 DEF Load, ModelInv
  <2>2. at' \in [Loaders -> {"idle", "enter", "loading", "check", "open", "capture"}]
    BY <1>2 DEF Load, After
  <2> QED
    BY <1>2, <2>1, <2>2 DEF Load
<1>3. CASE PatchConfig
  BY <1>3 DEF PatchConfig
<1>4. ASSUME NEW k \in {"start", "resume"}, Ask(k) PROVE TypeOK'
  BY <1>4 DEF Ask, Count
<1>5. CASE RequestStep
  <2>1. at' \in [Loaders -> {"idle", "enter", "loading", "check", "open", "capture"}]
    BY <1>5 DEF RequestStep, Check, Open, Register
  <2>2. session' \in {session, "recording"} /\ orphan' \in BOOLEAN
    BY <1>5 DEF RequestStep, Check, Open, Register
  <2>3. UNCHANGED <<saved, model, kind, works, audio, poll, counts>>
    BY <1>5 DEF RequestStep, Check, Open, Register
  <2> QED
    BY <2>1, <2>2, <2>3
<1>6. ASSUME NEW to \in {"none", "recording", "pausing", "paused", "resuming", "finalizing", "finished"},
             SessionMoves(to)
      PROVE TypeOK'
  BY <1>6 DEF SessionMoves
<1>7. CASE Poll \/ PollAnswers
  BY <1>7 DEF Poll, PollAnswers
<1>8. ASSUME NEW d \in Devices, Flip(d) PROVE TypeOK'
  BY <1>8 DEF Flip, Count
<1> QED
  BY <1>1, <1>2, <1>3, <1>4, <1>5, <1>6, <1>7, <1>8 DEF Others, LoadStep

LEMMA OthersModel == IInv /\ Others => ModelInv'
<1> USE DEF IInv, HealthInv, ModelInv, CpuMeansCpu, TypeOK, model, request
<1> SUFFICES ASSUME IInv, Others PROVE ModelInv'
  OBVIOUS
<1>1. ASSUME NEW l \in Loaders, Enter(l) PROVE ModelInv'
  BY <1>1 DEF Enter, After, Locked
<1>2. ASSUME NEW l \in Loaders, Load(l) PROVE ModelInv'
  <2>1. /\ decision' = decision /\ preference' = preference
        /\ transcriber' \in {transcriber, decision, "cpu"}
        /\ at' = [at EXCEPT ![l] = After(l)]
    BY <1>2 DEF Load
  <2>2. \A k \in Loaders : at'[k] # "loading"
    BY <1>2, <2>1 DEF Load, After
  <2> QED
    BY <2>1, <2>2
<1>3. CASE \/ PatchConfig \/ RequestStep \/ Poll \/ PollAnswers
           \/ \E k \in {"start", "resume"} : Ask(k)
           \/ \E to \in {"none", "recording", "pausing", "paused", "resuming", "finalizing", "finished"} :
                SessionMoves(to)
           \/ \E d \in Devices : Flip(d)
  <2>1. /\ decision' = decision /\ preference' = preference /\ transcriber' = transcriber
    BY <1>3 DEF PatchConfig, RequestStep, Check, Open, Register, Poll, PollAnswers, Ask, SessionMoves, Flip
  <2>2. \A k \in Loaders : at'[k] = "loading" => at[k] = "loading"
    BY <1>3 DEF PatchConfig, RequestStep, Check, Open, Register, Poll, PollAnswers, Ask, SessionMoves, Flip
  <2> QED
    BY <2>1, <2>2
<1> QED
  BY <1>1, <1>2, <1>3 DEF Others, LoadStep

LEMMA StepOthers == IInv /\ Others => IInv'
<1> SUFFICES ASSUME IInv, Others PROVE IInv'
  OBVIOUS
<1>1. UNCHANGED audio
  BY DEF Others, LoadStep, Enter, Load, PatchConfig, Ask, RequestStep, Check, Open, Register,
     SessionMoves, Poll, PollAnswers, Flip
<1>2. Streaks' /\ HealthFollowsProbes'
  BY <1>1 DEF audio, IInv, HealthInv, Streaks, HealthFollowsProbes
<1> QED
  BY <1>2, OthersTypes, OthersModel DEF IInv, HealthInv

LEMMA Invariance == IInv /\ [Next]_vars => IInv'
<1> SUFFICES ASSUME IInv, [Next]_vars PROVE IInv'
  OBVIOUS
<1>1. CASE UNCHANGED vars
  BY <1>1 DEF vars, model, request, audio, IInv, HealthInv, TypeOK, Streaks, HealthFollowsProbes,
     ModelInv, CpuMeansCpu
<1> QED
  BY <1>1, StepRestart, StepMonitor, StepOthers DEF Next, Others

-----------------------------------------------------------------------------

\* The states are well formed.
THEOREM TypeCorrect == Spec => []TypeOK
<1>1. IInv => TypeOK
  BY DEF IInv, HealthInv
<1> QED
  BY <1>1, InitInv, Invariance, PTL DEF Spec

\* However probes, starts, pauses and restarts interleave, a device is reported
\* as unavailable after two failures in a row or a failed first probe, and only
\* then.
THEOREM HealthIsHonest == Spec => []HealthFollowsProbes
<1>1. IInv => HealthFollowsProbes
  BY DEF IInv, HealthInv
<1> QED
  BY <1>1, InitInv, Invariance, PTL DEF Spec

\* "cpu" keeps the model off the GPU.
THEOREM CpuOnly == Spec => []CpuMeansCpu
<1>1. IInv => CpuMeansCpu
  BY DEF IInv, ModelInv
<1> QED
  BY <1>1, InitInv, Invariance, PTL DEF Spec

\* One process, one model.
THEOREM OneModel == Spec => ModelKept
<1>1. ASSUME IInv, [Next]_vars
      PROVE  [transcriber # "none" /\ counts'["restarts"] = counts["restarts"]
              => transcriber' = transcriber]_vars
  <2>1. CASE Restart
    BY <1>1, <2>1 DEF Restart, Count, IInv, HealthInv, TypeOK
  <2>2. CASE MonitorStep
    BY <2>2 DEF MonitorStep, MonitorStarts, Wake, Probe, model
  <2>3. CASE Others
    BY <1>1, <2>3 DEF Others, LoadStep, Enter, Load, PatchConfig, Ask, RequestStep, Check, Open,
       Register, SessionMoves, Poll, PollAnswers, Flip, model, IInv, ModelInv
  <2>4. CASE UNCHANGED vars
    BY <2>4
  <2> QED
    BY <1>1, <2>1, <2>2, <2>3, <2>4 DEF Next, Others
<1> QED
  BY <1>1, InitInv, Invariance, PTL DEF Spec, ModelKept
=============================================================================
