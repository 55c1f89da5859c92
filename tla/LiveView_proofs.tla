-------------------------- MODULE LiveView_proofs ---------------------------
(***************************************************************************)
(* Proofs about LiveView, for every number of clicks, attempts, faults and *)
(* reloads: what a click starts, and what the window shows.                *)
(***************************************************************************)
EXTENDS LiveView, SequenceTheorems, TLAPS

Counters ==
    /\ created \in Nat /\ counts \in [{"starts", "clicks", "faults", "reloads"} -> Nat]
    /\ counts["starts"] <= MaxMeetings

\* A click on Start that has started a meeting finds it in the slot for as long
\* as it is being sent again: nobody stops a meeting before its start is answered.
Served ==
    call = "start" /\ created = counts["starts"] => meeting # 0 /\ phase = "recording"

IInv == Counters /\ OneMeetingPerClick /\ Served

-----------------------------------------------------------------------------

\* The page's side of a mark, and the engine's.
LEMMA MarksOnly ==
    ASSUME ClickMark \/ MarkFails \/ ApplyMark
    PROVE  UNCHANGED <<meeting, phase, created, stored, marked, call, leg, answer, attempt, socket,
                       wire, shown, state, chunks, page, missed>>
  BY DEF ClickMark, MarkFails, ApplyMark, engine, request, store

LEMMA MarkHandled ==
    ASSUME HandleMark
    PROVE  /\ UNCHANGED <<meeting, phase, created, stored, call, leg, answer, attempt, socket,
                          shown, state, chunks, markers, page, counts>>
           /\ \/ meeting # 0 /\ Emit(<<Event("marker_added", meeting)>>)
              \/ UNCHANGED <<wire, missed>>
  BY DEF HandleMark, request, store

LEMMA InitInv == Init => IInv
  BY LiveViewAssumption DEF Init, IInv, Counters, OneMeetingPerClick, Served

\* The handlers: only a start that finds the slot free counts one more meeting.
LEMMA StepHandle == IInv /\ Handle => IInv'
<1> USE DEF IInv, Counters, OneMeetingPerClick, Served, Arrives, Answers
<1> SUFFICES ASSUME IInv, Handle PROVE IInv'
  OBVIOUS
<1>1. CASE HandleStart
  <2>1. CASE meeting = 0
    BY <1>1, <2>1 DEF HandleStart
  <2>2. CASE meeting # 0
    BY <1>1, <2>2 DEF HandleStart
  <2> QED
    BY <2>1, <2>2
<1>2. CASE HandleMark
  BY <1>2, MarkHandled
<1>3. CASE ~HandleStart /\ ~HandleMark
  <2>1. created' = created /\ counts' = counts /\ call' = call /\ call # "start"
    BY <1>3 DEF Handle, HandleStop, HandleCurrent, HandleDetail, HandleMove, engine
  <2> QED
    BY <2>1
<1> QED
  BY <1>1, <1>2, <1>3

LEMMA StepPage == IInv /\ ((\E op \in Buttons : Click(op)) \/ Fails \/ Apply \/ Reload) => IInv'
<1> USE DEF IInv, Counters, OneMeetingPerClick, Served, engine
<1>1. ASSUME IInv, NEW op \in Buttons, Click(op) PROVE IInv'
  BY <1>1, LiveViewAssumption DEF Click
<1>2. ASSUME IInv, Fails PROVE IInv'
  BY <1>2 DEF Fails, Count
<1>3. ASSUME IInv, Apply PROVE IInv'
  <2>1. CASE ApplyMark
    BY <1>3, <2>1, MarksOnly DEF ApplyMark
  <2>2. CASE ~ApplyMark
    <3>1. call' # "start" /\ created' = created /\ counts' = counts
      BY <1>3, <2>2 DEF Apply, ApplyStart, ApplyState, ApplyCurrent, ApplyDetail, Done
    <3> QED
      BY <1>3, <3>1
  <2> QED
    BY <2>1, <2>2
<1>4. ASSUME IInv, Reload PROVE IInv'
  BY <1>4 DEF Reload, Count
<1> QED
  BY <1>1, <1>2, <1>3, <1>4

LEMMA Invariance == IInv /\ [Next]_vars => IInv'
<1> USE DEF IInv, Counters, OneMeetingPerClick, Served, engine, request
<1> SUFFICES ASSUME IInv, [Next]_vars PROVE IInv'
  OBVIOUS
<1>1. CASE Chunk
  BY <1>1 DEF Chunk
<1>2. CASE NotesDone
  BY <1>2 DEF NotesDone
<1>3. CASE Drops
  BY <1>3 DEF Drops, Count
<1>4. CASE Opens \/ Deliver \/ UNCHANGED vars
  BY <1>4 DEF Opens, Deliver, vars
<1>5. CASE ClickMark \/ MarkFails
  BY <1>5, MarksOnly DEF ClickMark, MarkFails, Count
<1> QED
  BY <1>1, <1>2, <1>3, <1>4, <1>5, StepHandle, StepPage DEF Next

\* However often requestWithRetry() sends it, a click starts one meeting at most.
THEOREM OneMeeting == Spec => []OneMeetingPerClick
<1>1. IInv => OneMeetingPerClick
  BY DEF IInv
<1> QED
  BY <1>1, InitInv, Invariance, PTL DEF Spec

-----------------------------------------------------------------------------
(* What the window shows.                                                   *)

Events ==
    {Event("state_changed", p) : p \in Phases}
    \cup {Event("transcript_chunk", c) : c \in Meetings \X (1 .. MaxChunks)}
    \cup {Event("marker_added", m) : m \in Meetings}

Answer == [ok : BOOLEAN, meeting : 0 .. MaxMeetings, state : Phases,
           chunks : SUBSET (Meetings \X (1 .. MaxChunks)), markers : Nat]

Types ==
    /\ TypeOK
    /\ wire \in Seq(Events) /\ answer \in Answer
    /\ call # "none" => attempt < MaxAttempts

\* Meetings are numbered as they are created; none of them is created again.
Numbered ==
    /\ shown <= created /\ answer.meeting <= created
    /\ meeting # 0 <=> phase \in {"recording", "paused", "generating_notes"}
    /\ phase # "finalizing"
    /\ \A m \in Meetings : m > created => stored[m] = 0

\* The chunks on disk of meeting m.
OnDisk(m) == {<<m, i>> : i \in 1 .. stored[m]}

\* A chunk that is on its way to the window.
Coming(w, c) == \E i \in 1 .. Len(w) : w[i] = Event("transcript_chunk", c)

\* Once the events of w have been handled, a page that shows s will show p.
Settles(w, s, p) ==
    /\ (\A j \in 1 .. Len(w) : w[j].type # "state_changed") => s = p
    /\ \A i \in 1 .. Len(w) :
         w[i].type = "state_changed" /\ (\A j \in i + 1 .. Len(w) : w[j].type # "state_changed")
         => w[i].value = p

\* Until its answer is applied, a start sees no chunk but those of a recording
\* that will refuse it.
Starting ==
    call = "start" =>
        /\ \A c \in Meetings \X (1 .. MaxChunks) : Coming(wire, c) => phase = "recording" /\ stored[meeting] # 0
        /\ leg = "answer" /\ answer.ok =>
             /\ meeting = answer.meeting /\ phase = "recording" /\ stored[meeting] = 0
             /\ Settles(wire, "recording", "recording")

\* A window that reads what there is has no socket yet.
Reading ==
    call \in {"current", "detail"} =>
        /\ socket = "off" /\ shown = 0
        /\ call = "detail" \/ (leg = "answer" /\ answer.ok) =>
             answer.meeting # 0 /\ (meeting = answer.meeting => answer.state = phase)
        /\ call = "detail" /\ leg = "answer" /\ meeting = answer.meeting /\ ~missed =>
             answer.chunks = OnDisk(meeting)

Commanding ==
    call \in {"pause", "resume", "stop"} /\ leg = "answer" /\ answer.ok =>
        (phase \in {"recording", "paused"} => answer.state = phase)

\* What the window shows or will show of the meeting that is recorded.
Followed ==
    /\ chunks \subseteq OnDisk(meeting)
    /\ \A c \in Meetings \X (1 .. MaxChunks) : Coming(wire, c) => c \in OnDisk(meeting)
    /\ \A c \in OnDisk(meeting) : c \in chunks \/ Coming(wire, c)
    /\ phase \in {"recording", "paused"} => Settles(wire, state, phase)

View == meeting # 0 /\ shown = meeting /\ ~missed => Followed

\* These hold also where events are slow.
Base == Types /\ Numbered /\ Reading

VInv == Base /\ Starting /\ Commanding /\ View

-----------------------------------------------------------------------------
(* Lemmas about the events on the wire.                                     *)

LEMMA EventTypes ==
    /\ \A p \in Phases : Event("state_changed", p) \in Events
    /\ \A c \in Meetings \X (1 .. MaxChunks) : Event("transcript_chunk", c) \in Events
    /\ \A m \in Meetings : Event("marker_added", m) \in Events
    /\ \A e \in Events :
         \/ e.type = "state_changed" /\ e.value \in Phases
         \/ e.type = "transcript_chunk" /\ e.value \in Meetings \X (1 .. MaxChunks)
         \/ e.type = "marker_added" /\ e.value \in Meetings
    /\ \A e \in Events : e.type = "transcript_chunk" => e = Event("transcript_chunk", e.value)
  <1>1. /\ \A p \in Phases : Event("state_changed", p) \in Events
        /\ \A c \in Meetings \X (1 .. MaxChunks) : Event("transcript_chunk", c) \in Events
        /\ \A m \in Meetings : Event("marker_added", m) \in Events
    BY DEF Events
  <1>2. ASSUME NEW e \in Events
        PROVE  \/ \E p \in Phases : e = Event("state_changed", p)
               \/ \E c \in Meetings \X (1 .. MaxChunks) : e = Event("transcript_chunk", c)
               \/ \E m \in Meetings : e = Event("marker_added", m)
    BY DEF Events
  <1> QED
    BY <1>1, <1>2 DEF Event

\* One more event at the end.
LEMMA Sent ==
    ASSUME NEW w \in Seq(Events), NEW e \in Events
    PROVE  /\ w \o <<e>> \in Seq(Events)
           /\ \A c : Coming(w \o <<e>>, c) <=> Coming(w, c) \/ e = Event("transcript_chunk", c)
           /\ \A s, p : e.type # "state_changed" /\ Settles(w, s, p) => Settles(w \o <<e>>, s, p)
           /\ \A s, p : e = Event("state_changed", p) => Settles(w \o <<e>>, s, p)
  <1> DEFINE v == w \o <<e>>
  <1>1. /\ v \in Seq(Events) /\ Len(v) = Len(w) + 1 /\ v[Len(v)] = e
        /\ \A i \in 1 .. Len(w) : v[i] = w[i]
    OBVIOUS
  <1>2. 1 .. Len(v) = (1 .. Len(w)) \cup {Len(v)} /\ Len(w) \in Nat
    BY <1>1
  <1> HIDE DEF v
  <1>3. \A c : Coming(v, c) <=> Coming(w, c) \/ e = Event("transcript_chunk", c)
    BY <1>1, <1>2 DEF Coming
  <1>4. ASSUME NEW s, NEW p, e.type # "state_changed", Settles(w, s, p) PROVE Settles(v, s, p)
    <2>1. (\A j \in 1 .. Len(v) : v[j].type # "state_changed") => s = p
      BY <1>1, <1>2, <1>4 DEF Settles
    <2>2. ASSUME NEW i \in 1 .. Len(v), v[i].type = "state_changed",
                 \A j \in i + 1 .. Len(v) : v[j].type # "state_changed"
          PROVE  v[i].value = p
      <3>1. i \in 1 .. Len(w) /\ v[i] = w[i]
        BY <1>1, <1>2, <1>4, <2>2
      <3>2. \A j \in i + 1 .. Len(w) : w[j].type # "state_changed"
        BY <1>1, <1>2, <2>2, <3>1
      <3> QED
        BY <1>4, <2>2, <3>1, <3>2 DEF Settles
    <2> QED
      BY <2>1, <2>2 DEF Settles
  <1>5. ASSUME NEW s, NEW p, e = Event("state_changed", p) PROVE Settles(v, s, p)
    <2>1. v[Len(v)].type = "state_changed" /\ v[Len(v)].value = p /\ Len(v) \in 1 .. Len(v)
      BY <1>1, <1>2, <1>5 DEF Event
    <2>2. ASSUME NEW i \in 1 .. Len(v), \A j \in i + 1 .. Len(v) : v[j].type # "state_changed"
          PROVE  i = Len(v)
      BY <1>1, <1>2, <2>1, <2>2
    <2> QED
      BY <2>1, <2>2 DEF Settles
  <1> QED
    BY <1>1, <1>3, <1>4, <1>5 DEF v

\* The first event is handled.
LEMMA Handled ==
    ASSUME NEW w \in Seq(Events), w # <<>>
    PROVE  /\ Tail(w) \in Seq(Events) /\ Head(w) \in Events
           /\ \A c : Coming(w, c) <=> Coming(Tail(w), c) \/ Head(w) = Event("transcript_chunk", c)
           /\ \A s, p : Settles(w, s, p) =>
                Settles(Tail(w), IF Head(w).type = "state_changed" THEN Head(w).value ELSE s, p)
           /\ \A p : Settles(w, p, p) => Settles(Tail(w), p, p)
  <1> DEFINE v == Tail(w)
  <1>1. /\ v \in Seq(Events) /\ Head(w) \in Events /\ Head(w) = w[1] /\ Len(w) \in Nat /\ Len(w) > 0
        /\ Len(v) = Len(w) - 1 /\ \A i \in 1 .. Len(v) : v[i] = w[i + 1]
    OBVIOUS
  <1> HIDE DEF v
  <1>2. \A i \in 2 .. Len(w) : i - 1 \in 1 .. Len(v) /\ w[i] = v[i - 1]
    BY <1>1
  <1>3. \A c : Coming(w, c) <=> Coming(v, c) \/ Head(w) = Event("transcript_chunk", c)
    <2>1. ASSUME NEW c, Coming(w, c) PROVE Coming(v, c) \/ Head(w) = Event("transcript_chunk", c)
      <3>1. PICK i \in 1 .. Len(w) : w[i] = Event("transcript_chunk", c)
        BY <2>1 DEF Coming
      <3>2. CASE i = 1
        BY <1>1, <3>1, <3>2
      <3>3. CASE i # 1
        BY <1>1, <1>2, <3>1, <3>3 DEF Coming
      <3> QED
        BY <3>2, <3>3
    <2>2. ASSUME NEW c, Coming(v, c) PROVE Coming(w, c)
      <3>1. PICK i \in 1 .. Len(v) : v[i] = Event("transcript_chunk", c)
        BY <2>2 DEF Coming
      <3>2. i + 1 \in 1 .. Len(w) /\ w[i + 1] = Event("transcript_chunk", c)
        BY <1>1, <3>1
      <3> QED
        BY <3>2 DEF Coming
    <2>3. ASSUME NEW c, Head(w) = Event("transcript_chunk", c) PROVE Coming(w, c)
      BY <1>1, <2>3 DEF Coming
    <2> QED
      BY <2>1, <2>2, <2>3
  <1>4. ASSUME NEW s, NEW p, Settles(w, s, p)
        PROVE  /\ \A i \in 1 .. Len(v) :
                    v[i].type = "state_changed" /\ (\A j \in i + 1 .. Len(v) : v[j].type # "state_changed")
                    => v[i].value = p
               /\ (\A j \in 1 .. Len(v) : v[j].type # "state_changed") =>
                    (IF Head(w).type = "state_changed" THEN Head(w).value ELSE s) = p
    <2>1. ASSUME NEW i \in 1 .. Len(v), v[i].type = "state_changed",
                 \A j \in i + 1 .. Len(v) : v[j].type # "state_changed"
          PROVE  v[i].value = p
      <3>1. i + 1 \in 1 .. Len(w) /\ w[i + 1] = v[i]
        BY <1>1
      <3>2. \A j \in (i + 1) + 1 .. Len(w) : w[j].type # "state_changed"
        <4>1. ASSUME NEW j \in (i + 1) + 1 .. Len(w) PROVE j - 1 \in i + 1 .. Len(v) /\ w[j] = v[j - 1]
          BY <1>1, <1>2
        <4> QED
          BY <2>1, <4>1
      <3> QED
        BY <1>4, <2>1, <3>1, <3>2 DEF Settles
    <2>2. ASSUME \A j \in 1 .. Len(v) : v[j].type # "state_changed"
          PROVE  (IF Head(w).type = "state_changed" THEN Head(w).value ELSE s) = p
      <3>1. \A j \in 1 + 1 .. Len(w) : w[j].type # "state_changed"
        BY <1>2, <2>2
      <3>2. CASE Head(w).type = "state_changed"
        BY <1>1, <1>4, <3>1, <3>2 DEF Settles
      <3>3. CASE Head(w).type # "state_changed"
        <4>1. \A j \in 1 .. Len(w) : w[j].type # "state_changed"
          BY <1>1, <3>1, <3>3
        <4> QED
          BY <1>4, <3>3, <4>1 DEF Settles
      <3> QED
        BY <3>2, <3>3
    <2> QED
      BY <2>1, <2>2
  <1>5. \A s, p : Settles(w, s, p) =>
          Settles(v, IF Head(w).type = "state_changed" THEN Head(w).value ELSE s, p)
    BY <1>4 DEF Settles
  <1>6. \A p : Settles(w, p, p) => Settles(v, p, p)
    BY <1>4 DEF Settles
  <1> QED
    BY <1>1, <1>3, <1>5, <1>6 DEF v

LEMMA NothingSent ==
    /\ <<>> \in Seq(Events)
    /\ \A c : ~Coming(<<>>, c)
    /\ \A s, p : Settles(<<>>, s, p) <=> s = p
  BY DEF Coming, Settles

\* WSHub.broadcast() of one event.
LEMMA Emitted ==
    ASSUME Types, NEW e \in Events, Emit(<<e>>)
    PROVE  /\ wire' \in Seq(Events) /\ missed' \in BOOLEAN
           /\ socket # "open" => wire' = <<>>
           /\ \A c : Coming(wire', c) => Coming(wire, c) \/ e = Event("transcript_chunk", c)
           /\ ~missed' => ~missed /\ wire' = wire \o <<e>>
           /\ wire' \in {wire, wire \o <<e>>}
  <1>1. CASE socket = "open"
    BY <1>1, Sent DEF Emit, Types, TypeOK
  <1>2. CASE socket # "open"
    BY <1>2, NothingSent DEF Emit, Types, TypeOK
  <1> QED
    BY <1>1, <1>2

\* What stop_meeting() sends: two states, and maybe a last chunk between them.
LEMMA Appended ==
    ASSUME NEW w \in Seq(Events), NEW f \in Events, NEW g \in Events, NEW e, NEW q,
           q = <<>> \/ (q = <<e>> /\ e \in Events)
    PROVE  /\ w \o (<<f>> \o q \o <<g>>) \in Seq(Events)
           /\ \A c : Coming(w \o (<<f>> \o q \o <<g>>), c) <=>
                \/ Coming(w, c)
                \/ Event("transcript_chunk", c) \in {f, g}
                \/ q # <<>> /\ Event("transcript_chunk", c) = e
  <1>1. CASE q = <<>>
    <2>1. w \o (<<f>> \o q \o <<g>>) = (w \o <<f>>) \o <<g>> /\ w \o <<f>> \in Seq(Events)
      BY <1>1
    <2> QED
      BY <1>1, <2>1, Sent
  <1>2. CASE q = <<e>> /\ e \in Events
    <2>1. w \o (<<f>> \o q \o <<g>>) = ((w \o <<f>>) \o <<e>>) \o <<g>>
      BY <1>2
    <2>2. w \o <<f>> \in Seq(Events) /\ (w \o <<f>>) \o <<e>> \in Seq(Events) /\ q # <<>>
      BY <1>2
    <2> QED
      BY <1>2, <2>1, <2>2, Sent
  <1> QED
    BY <1>1, <1>2

LEMMA StopSends ==
    ASSUME Types, NEW last \in {stored[meeting], stored[meeting] + 1}, stored[meeting] \in Nat,
           last # stored[meeting] => <<meeting, last>> \in Meetings \X (1 .. MaxChunks),
           Emit(<<Event("state_changed", "finalizing")>>
                \o [i \in 1 .. last - stored[meeting] |-> Event("transcript_chunk", <<meeting, last>>)]
                \o <<Event("state_changed", "generating_notes")>>)
    PROVE  /\ wire' \in Seq(Events) /\ missed' \in BOOLEAN
           /\ socket # "open" => wire' = <<>>
           /\ ~missed' =>
                /\ ~missed
                /\ \A c : Coming(wire', c) <=>
                     Coming(wire, c) \/ (last # stored[meeting] /\ c = <<meeting, last>>)
  <1> DEFINE f == Event("state_changed", "finalizing")
             g == Event("state_changed", "generating_notes")
             e == Event("transcript_chunk", <<meeting, last>>)
             n == last - stored[meeting]
             q == [i \in 1 .. n |-> e]
  <1>1. /\ f \in Events /\ g \in Events
        /\ last # stored[meeting] => e \in Events
        /\ n \in {0, 1} /\ (n = 1 <=> last # stored[meeting])
    BY EventTypes DEF Phases
  <1>2. \A c : /\ Event("transcript_chunk", c) \notin {f, g}
               /\ Event("transcript_chunk", c) = e <=> c = <<meeting, last>>
    BY DEF Event
  <1>3. Emit(<<f>> \o q \o <<g>>)
    OBVIOUS
  <1> HIDE DEF f, g, e, n
  <1>4. /\ q \in Seq({e}) /\ Len(q) = n
        /\ \A i \in 1 .. n : q[i] = e
    BY <1>1
  <1>5. (n = 0 /\ q = <<>>) \/ (n = 1 /\ q = <<e>>)
    BY <1>1, <1>4, EmptySeq, SeqEqual
  <1> HIDE DEF q
  <1>6. /\ wire \o (<<f>> \o q \o <<g>>) \in Seq(Events)
        /\ \A c : Coming(wire \o (<<f>> \o q \o <<g>>), c) <=>
             Coming(wire, c) \/ (last # stored[meeting] /\ c = <<meeting, last>>)
    BY <1>1, <1>2, <1>5, Appended DEF Types
  <1>7. CASE socket = "open"
    BY <1>3, <1>6, <1>7 DEF Emit, Types, TypeOK
  <1>8. CASE socket # "open"
    BY <1>3, <1>8 DEF Emit, Types, TypeOK
  <1> QED
    BY <1>7, <1>8

-----------------------------------------------------------------------------
(* Types and numbers.                                                       *)

LEMMA InitView == Init => VInv
  <1> SUFFICES ASSUME Init PROVE VInv
    OBVIOUS
  <1>1. Types
    <2>1. NoAnswer \in Answer
      BY LiveViewAssumption DEF NoAnswer, Answer, Phases
    <2>2. TypeOK
      <3>1. /\ stored \in [Meetings -> 0 .. MaxChunks] /\ marked \in [Meetings -> Nat]
            /\ counts \in [{"starts", "clicks", "faults", "reloads"} -> Nat]
        BY LiveViewAssumption DEF Init
      <3>2. /\ meeting \in 0 .. created /\ created \in 0 .. MaxMeetings
            /\ attempt \in 0 .. MaxAttempts /\ shown \in 0 .. MaxMeetings
        BY LiveViewAssumption DEF Init
      <3> QED
        BY <3>1, <3>2 DEF Init, TypeOK, Phases, Calls
    <2> QED
      BY <2>1, <2>2, NothingSent DEF Init, Types
  <1>2. Numbered
    BY DEF Init, Numbered, NoAnswer
  <1>3. Starting /\ Reading /\ Commanding /\ View
    BY DEF Init, Starting, Reading, Commanding, View
  <1> QED
    BY <1>1, <1>2, <1>3 DEF VInv, Base

\* The handler of a request whose answer is on its way.
LEMMA AnswersTypes ==
    ASSUME Types, NEW ok \in BOOLEAN, NEW value \in Phases, Answers(ok, value),
           meeting' \in 0 .. MaxMeetings
    PROVE  /\ answer' \in Answer /\ leg' = "answer" /\ call' = call /\ attempt' = attempt
           /\ answer'.ok = ok /\ answer'.state = value /\ answer'.meeting = meeting'
           /\ UNCHANGED <<asked, acked, socket, shown, state, chunks, markers, page, counts>>
  BY DEF Types, Answers, Answer, NoAnswer, marks, store

LEMMA HandleTypes ==
    ASSUME Base, IInv, IInv', Handle
    PROVE  Types'
  <1> USE LiveViewAssumption DEF Base
  <1>0. /\ created \in Nat /\ created' \in Nat /\ created' <= MaxMeetings
        /\ meeting # 0 => meeting \in Meetings
        /\ meeting \in 0 .. MaxMeetings
    BY DEF IInv, OneMeetingPerClick, Counters, Types, TypeOK, Meetings
  <1>1. CASE HandleStart
    <2> USE <1>1 DEF HandleStart, Arrives
    <2>1. CASE meeting = 0
      <3>1. /\ created' = created + 1 /\ meeting' = created' /\ phase' = "recording"
            /\ Emit(<<Event("state_changed", "recording")>>) /\ Answers(TRUE, "recording")
            /\ UNCHANGED <<stored, marked>>
        BY <2>1
      <3>2. Event("state_changed", "recording") \in Events /\ "recording" \in Phases
        BY EventTypes DEF Phases
      <3>3. wire' \in Seq(Events) /\ missed' \in BOOLEAN /\ (socket # "open" => wire' = <<>>)
        BY <3>1, <3>2, Emitted
      <3>4. /\ answer' \in Answer /\ leg' = "answer" /\ call' = call /\ attempt' = attempt
            /\ UNCHANGED <<asked, acked, socket, shown, state, chunks, markers, page, counts>>
        <4>1. meeting' \in 0 .. MaxMeetings
          BY <1>0, <3>1
        <4> HIDE DEF HandleStart
        <4> QED
          BY <3>1, <3>2, <4>1, AnswersTypes
      <3> HIDE DEF HandleStart
      <3> QED
        BY <1>0, <3>1, <3>2, <3>3, <3>4 DEF Types, TypeOK
    <2>2. CASE meeting # 0
      BY <1>0, <2>2, AnswersTypes DEF Types, TypeOK
    <2> QED
      BY <2>1, <2>2
  <1>2. ASSUME NEW op, NEW from, NEW to \in Phases, HandleMove(op, from, to) PROVE Types'
    <2> USE <1>2 DEF HandleMove, Arrives
    <2>1. CASE meeting # 0 /\ phase = from
      <3>1. Event("state_changed", to) \in Events
        BY EventTypes
      <3> QED
        BY <1>0, <2>1, <3>1, Emitted, AnswersTypes DEF Types, TypeOK
    <2>2. CASE ~(meeting # 0 /\ phase = from)
      BY <1>0, <2>2, AnswersTypes DEF Types, TypeOK
    <2> QED
      BY <2>1, <2>2
  <1>3. CASE HandleStop
    <2> USE <1>3 DEF HandleStop, Arrives
    <2>1. CASE meeting # 0 /\ phase \in {"recording", "paused"}
      <3> DEFINE f == Event("state_changed", "finalizing")
                 g == Event("state_changed", "generating_notes")
      <3>1. PICK last \in {stored[meeting], stored[meeting] + 1} \cap 0 .. MaxChunks :
              /\ phase' = "generating_notes" /\ stored' = [stored EXCEPT ![meeting] = last]
              /\ Emit(<<f>> \o [i \in 1 .. last - stored[meeting] |->
                                  Event("transcript_chunk", <<meeting, last>>)] \o <<g>>)
              /\ Answers(TRUE, "finalizing")
        BY <2>1
      <3>2. stored[meeting] \in Nat
        BY <1>0, <2>1 DEF Types, TypeOK
      <3>3. last # stored[meeting] => <<meeting, last>> \in Meetings \X (1 .. MaxChunks)
        BY <1>0, <2>1, <3>1, <3>2
      <3>5. wire' \in Seq(Events) /\ (socket # "open" => wire' = <<>>) /\ missed' \in BOOLEAN
        BY <3>1, <3>2, <3>3, StopSends
      <3>6. "finalizing" \in Phases /\ "generating_notes" \in Phases
        BY DEF Phases
      <3>7. meeting' = meeting /\ created' = created /\ marked' = marked
        OBVIOUS
      <3>8. stored' \in [Meetings -> 0 .. MaxChunks]
        BY <3>1 DEF Types, TypeOK
      <3> QED
        BY <1>0, <3>1, <3>5, <3>6, <3>7, <3>8, AnswersTypes DEF Types, TypeOK
    <2>2. CASE ~(meeting # 0 /\ phase \in {"recording", "paused"})
      BY <1>0, <2>2, AnswersTypes DEF Types, TypeOK
    <2> QED
      BY <2>1, <2>2
  <1>4. CASE HandleMark
    <2>1. UNCHANGED <<meeting, phase, created, stored, call, leg, answer, attempt, socket,
                      shown, state, chunks, markers, page, counts>>
      BY <1>4, MarkHandled
    <2>2. asked' \in Nat /\ acked' \in Nat
      BY <1>4 DEF HandleMark, Types, TypeOK
    <2>3. marked' \in [Meetings -> Nat]
      <3>1. \/ marked' = marked
            \/ meeting # 0 /\ marked' = [marked EXCEPT ![meeting] = marked[meeting] + 1]
        BY <1>4 DEF HandleMark
      <3> QED
        BY <1>0, <3>1 DEF Types, TypeOK
    <2>4. wire' \in Seq(Events) /\ missed' \in BOOLEAN /\ (socket # "open" => wire' = <<>>)
      <3>1. meeting # 0 => Event("marker_added", meeting) \in Events
        BY <1>0, EventTypes
      <3>2. Types
        OBVIOUS
      <3>3. CASE meeting # 0 /\ Emit(<<Event("marker_added", meeting)>>)
        BY <3>1, <3>2, <3>3, Emitted
      <3>4. CASE UNCHANGED <<wire, missed>>
        BY <3>4 DEF Types, TypeOK
      <3> QED
        BY <1>4, <3>3, <3>4, MarkHandled
    <2> QED
      BY <2>1, <2>2, <2>3, <2>4 DEF Types, TypeOK
  <1>5. CASE HandleCurrent
    BY <1>0, <1>5, AnswersTypes DEF HandleCurrent, engine, Types, TypeOK
  <1>6. CASE HandleDetail
    <2>1. answer.meeting \in Meetings
      BY <1>6 DEF HandleDetail, Arrives, Reading, Types, Answer, Meetings
    <2>2. stored[answer.meeting] \in 0 .. MaxChunks /\ marked[answer.meeting] \in Nat
      BY <2>1 DEF Types, TypeOK
    <2>3. {<<answer.meeting, i>> : i \in 1 .. stored[answer.meeting]} \subseteq Meetings \X (1 .. MaxChunks)
      BY <2>1, <2>2
    <2> DEFINE read == {<<answer.meeting, i>> : i \in 1 .. stored[answer.meeting]}
               count == marked[answer.meeting]
    <2>4. answer' = [answer EXCEPT !.chunks = read, !.markers = count]
      BY <1>6 DEF HandleDetail
    <2>5. read \in SUBSET (Meetings \X (1 .. MaxChunks)) /\ count \in Nat
      BY <2>2, <2>3
    <2> HIDE DEF read, count
    <2>6. answer' \in Answer
      BY <2>4, <2>5 DEF Types, Answer
    <2> QED
      BY <1>6, <2>6 DEF HandleDetail, engine, marks, store, Types, TypeOK
  <1> QED
    BY <1>1, <1>2, <1>3, <1>4, <1>5, <1>6 DEF Handle, Phases

LEMMA TypesStep ==
    ASSUME Base, IInv, IInv', [Next]_vars
    PROVE  Types'
  <1> USE LiveViewAssumption DEF Base
  <1>0. /\ created \in Nat /\ created <= MaxMeetings
        /\ meeting # 0 => meeting \in Meetings
    BY DEF IInv, OneMeetingPerClick, Counters, Types, TypeOK, Meetings
  <1>1. CASE Chunk
    <2> USE <1>1 DEF Chunk
    <2>1. meeting \in Meetings /\ stored[meeting] \in 0 .. MaxChunks
      BY <1>0 DEF Numbered, Types, TypeOK
    <2>2. stored' = [stored EXCEPT ![meeting] = stored[meeting] + 1] /\ stored[meeting] + 1 \in 1 .. MaxChunks
      BY <2>1
    <2>3. stored'[meeting] = stored[meeting] + 1 /\ stored' \in [Meetings -> 0 .. MaxChunks]
      BY <2>1, <2>2 DEF Types, TypeOK
    <2>4. Event("transcript_chunk", <<meeting, stored'[meeting]>>) \in Events
      BY <2>1, <2>2, <2>3, EventTypes
    <2>5. wire' \in Seq(Events) /\ missed' \in BOOLEAN /\ (socket # "open" => wire' = <<>>)
      BY <2>4, Emitted
    <2> HIDE DEF Chunk
    <2>6. UNCHANGED <<meeting, phase, created, marked, request, marks, socket, store, counts>>
      BY DEF Chunk
    <2> QED
      BY <2>3, <2>5, <2>6 DEF Types, TypeOK, request, marks, store
  <1>2. CASE NotesDone
    <2>1. Event("state_changed", "completed") \in Events /\ "completed" \in Phases
      BY EventTypes DEF Phases
    <2>2. wire' \in Seq(Events) /\ missed' \in BOOLEAN /\ (socket # "open" => wire' = <<>>)
      BY <1>2, <2>1, Emitted DEF NotesDone
    <2> QED
      BY <1>0, <1>2, <2>1, <2>2 DEF NotesDone, Types, TypeOK, request, marks, store
  <1>3. ASSUME NEW op \in Buttons, Click(op) PROVE Types'
    <2>1. NoAnswer \in Answer /\ op \in Calls /\ counts' \in [{"starts", "clicks", "faults", "reloads"} -> Nat]
      BY <1>3 DEF NoAnswer, Answer, Phases, Calls, Counters, IInv
    <2> QED
      BY <1>3, <2>1 DEF Click, Types, TypeOK, engine, marks, store
  <1>4. CASE Fails
    <2>1. counts' \in [{"starts", "clicks", "faults", "reloads"} -> Nat]
      BY DEF Counters, IInv
    <2> QED
      BY <1>4, <2>1 DEF Fails, Types, TypeOK, engine, marks, store
  <1>5. CASE Apply
    <2>1. /\ \/ call' \in {"none", "detail"} /\ leg' = "request" /\ attempt' = 0
             \/ UNCHANGED request
          /\ socket' \in {socket, IF socket = "off" THEN "opening" ELSE socket}
          /\ missed' \in {missed, FALSE}
          /\ UNCHANGED <<engine, answer, wire, counts>>
      <3>1. CASE ApplyMark
        BY <3>1 DEF ApplyMark, request
      <3> QED
        BY <1>5, <3>1 DEF Apply, ApplyStart, ApplyState, ApplyCurrent, ApplyDetail, Done, Subscribed, store
    <2>2. /\ shown' \in 0 .. MaxMeetings /\ state' \in Phases
          /\ chunks' \subseteq Meetings \X (1 .. MaxChunks) /\ markers' \in Nat
          /\ page' \in {"home", "meeting"} /\ asked' \in Nat /\ acked' \in Nat
      <3> USE DEF Types, TypeOK, Answer
      <3>1. CASE ApplyStart
        BY <3>1 DEF ApplyStart, marks, store, Phases
      <3>2. CASE ApplyState
        BY <3>2 DEF ApplyState, marks
      <3>3. CASE ApplyMark
        BY <3>3 DEF ApplyMark
      <3>4. CASE ApplyCurrent
        BY <3>4 DEF ApplyCurrent, marks, store
      <3>5. CASE ApplyDetail
        BY <3>5 DEF ApplyDetail, marks
      <3> QED
        BY <1>5, <3>1, <3>2, <3>3, <3>4, <3>5 DEF Apply
    <2>3. /\ missed' \in BOOLEAN /\ socket' \in {"off", "opening", "open", "waiting"}
          /\ socket' # "open" => wire' = <<>>
      BY <2>1 DEF Types, TypeOK
    <2> HIDE DEF Base
    <2>4. Types
      BY DEF Base
    <2>5. call' \in Calls \cup {"none"} /\ attempt' \in 0 .. MaxAttempts /\ (call' # "none" => attempt' < MaxAttempts)
      BY <2>1, <2>4 DEF Calls, Types, TypeOK, request
    <2>6. leg' \in {"request", "answer"}
      BY <2>1, <2>4 DEF Types, TypeOK, request
    <2> QED
      BY <2>1, <2>2, <2>3, <2>4, <2>5, <2>6 DEF Types, TypeOK, engine
  <1>6. CASE Opens
    BY <1>6 DEF Opens, Types, TypeOK, engine, request, marks, store
  <1>7. CASE Drops
    <2>1. counts' \in [{"starts", "clicks", "faults", "reloads"} -> Nat]
      BY DEF Counters, IInv
    <2> QED
      BY <1>7, <2>1, NothingSent DEF Drops, Types, TypeOK, engine, request, marks, store
  <1>8. CASE Deliver
    <2> USE <1>8 DEF Deliver, Types, TypeOK
    <2>1. wire' \in Seq(Events) /\ Head(wire) \in Events /\ socket = "open" /\ socket' = socket
      BY Handled
    <2>2. state' \in Phases /\ markers' \in Nat
      BY <2>1, EventTypes
    <2>3. chunks' \subseteq Meetings \X (1 .. MaxChunks)
      BY <2>1, EventTypes
    <2> QED
      BY <2>1, <2>2, <2>3 DEF engine, request, marks
  <1>9. CASE Reload
    <2>1. NoAnswer \in Answer /\ "current" \in Calls /\ "idle" \in Phases
          /\ counts' \in [{"starts", "clicks", "faults", "reloads"} -> Nat]
      BY DEF NoAnswer, Answer, Phases, Calls, Counters, IInv
    <2> QED
      BY <1>9, <2>1, NothingSent DEF Reload, Types, TypeOK, engine
  <1>10. CASE UNCHANGED vars
    BY <1>10 DEF vars, engine, request, marks, store, Types, TypeOK
  <1>11. CASE ClickMark \/ MarkFails
    <2>1. asked' \in Nat /\ acked' \in Nat /\ markers' = markers
      BY <1>11 DEF ClickMark, MarkFails, store, Types, TypeOK
    <2>2. counts' \in [{"starts", "clicks", "faults", "reloads"} -> Nat]
      BY DEF Counters, IInv
    <2> QED
      BY <1>11, <2>1, <2>2, MarksOnly DEF Types, TypeOK
  <1> QED
    BY <1>1, <1>2, <1>3, <1>4, <1>5, <1>6, <1>7, <1>8, <1>9, <1>10, <1>11, HandleTypes DEF Next

\* What a handler may do to the numbers of the meetings.
LEMMA HandleNumbers ==
    ASSUME Handle
    PROVE  \/ /\ HandleStart /\ meeting = 0 /\ created' = created + 1 /\ meeting' = created'
              /\ phase' = "recording" /\ stored' = stored
           \/ meeting' = meeting /\ created' = created
  BY DEF Handle, HandleStart, HandleStop, HandleMark, HandleCurrent, HandleDetail, HandleMove, engine

LEMMA NumberedStep ==
    ASSUME Base, Types', IInv, [Next]_vars
    PROVE  Numbered'
  <1> USE DEF Base, Numbered
  <1>0. created \in Nat /\ shown \in Nat /\ answer.meeting \in Nat /\ meeting \in Nat /\ meeting <= created
    BY LiveViewAssumption DEF Types, TypeOK, Answer
  <1>1. CASE Handle
    <2>1. CASE HandleStart
      <3>1. \A m \in Meetings : m \in Nat
        BY DEF Meetings
      <3>2. /\ stored' = stored /\ shown' = shown /\ answer'.meeting = meeting'
            /\ \/ meeting' = created + 1 /\ created' = created + 1 /\ phase' = "recording"
               \/ UNCHANGED <<meeting, created, phase>>
        BY <2>1 DEF HandleStart, Answers, NoAnswer, store
      <3> QED
        BY <1>0, <3>1, <3>2
    <2>2. ASSUME NEW op, NEW from, NEW to \in {"paused", "recording"}, from \in {"paused", "recording"},
                 HandleMove(op, from, to)
          PROVE  Numbered'
      BY <1>0, <2>2 DEF HandleMove, Answers, NoAnswer, store
    <2>3. CASE HandleStop
      <3>1. /\ UNCHANGED <<meeting, created, shown>> /\ answer'.meeting = meeting
            /\ phase' = phase \/ (meeting # 0 /\ phase' = "generating_notes")
        BY <2>3 DEF HandleStop, Answers, NoAnswer, store
      <3>2. \A m \in Meetings : m > created => stored'[m] = stored[m]
        <4>1. stored' = stored \/ \E last : stored' = [stored EXCEPT ![meeting] = last]
          BY <2>3 DEF HandleStop
        <4>2. \A m \in Meetings : m > created => m # meeting
          BY <1>0
        <4> QED
          BY <4>1, <4>2 DEF Types, TypeOK
      <3> QED
        BY <1>0, <3>1, <3>2
    <2>4. CASE HandleMark
      BY <1>0, <2>4, MarkHandled
    <2>5. CASE HandleCurrent \/ HandleDetail
      BY <1>0, <2>5 DEF HandleCurrent, HandleDetail, Answers, NoAnswer, store, engine, Types, Answer
    <2> QED
      BY <1>1, <2>1, <2>2, <2>3, <2>4, <2>5 DEF Handle
  <1>2. CASE Chunk
    <2>1. \A m \in Meetings : m > created => stored'[m] = stored[m]
      BY <1>0, <1>2 DEF Chunk, Types, TypeOK
    <2> QED
      BY <1>0, <1>2, <2>1 DEF Chunk, request, store
  <1>3. CASE NotesDone
    BY <1>0, <1>3 DEF NotesDone, request, store
  <1>4. ASSUME NEW op \in Buttons, Click(op) PROVE Numbered'
    BY <1>0, <1>4 DEF Click, NoAnswer, engine, store
  <1>5. CASE Apply
    <2>1. shown' \in {shown, answer.meeting} /\ UNCHANGED <<engine, answer>>
      BY <1>5, MarksOnly DEF Apply, ApplyStart, ApplyState, ApplyCurrent, ApplyDetail, engine, store
    <2> QED
      BY <1>0, <2>1 DEF engine
  <1>6. CASE Reload
    BY <1>0, <1>6 DEF Reload, NoAnswer, engine
  <1>7. CASE Fails \/ Opens \/ Drops \/ Deliver \/ UNCHANGED vars
    BY <1>0, <1>7 DEF Fails, Opens, Drops, Deliver, vars, engine, request, store
  <1>8. CASE ClickMark \/ MarkFails
    BY <1>0, <1>8, MarksOnly
  <1> QED
    BY <1>1, <1>2, <1>3, <1>4, <1>5, <1>6, <1>7, <1>8 DEF Next

-----------------------------------------------------------------------------
(* Answers.                                                                 *)

LEMMA CommandingStep ==
    ASSUME VInv, [Next]_vars
    PROVE  Commanding'
  <1> USE DEF VInv, Base, Commanding
  <1>1. CASE Handle
    <2>1. CASE HandleStart \/ HandleCurrent \/ HandleDetail
      BY <2>1 DEF HandleStart, HandleCurrent, HandleDetail, Arrives, Answers
    <2>2. ASSUME NEW op, NEW from, NEW to, HandleMove(op, from, to) PROVE Commanding'
      BY <2>2 DEF HandleMove, Answers, NoAnswer
    <2>3. CASE HandleStop
      BY <2>3 DEF HandleStop, Answers, NoAnswer
    <2>4. CASE HandleMark
      BY <2>4, MarkHandled
    <2> QED
      BY <1>1, <2>1, <2>2, <2>3, <2>4 DEF Handle
  <1>2. CASE Chunk \/ NotesDone
    BY <1>2 DEF Chunk, NotesDone, request
  <1>3. ASSUME NEW op \in Buttons, Click(op) PROVE Commanding'
    BY <1>3 DEF Click
  <1>4. CASE Fails \/ (Apply /\ ~ApplyMark) \/ Reload
    BY <1>4 DEF Fails, Reload, Apply, ApplyStart, ApplyState, ApplyCurrent, ApplyDetail, Done
  <1>5. CASE Opens \/ Drops \/ Deliver \/ UNCHANGED vars
    BY <1>5 DEF Opens, Drops, Deliver, vars, engine, request
  <1>6. CASE ClickMark \/ MarkFails \/ ApplyMark
    BY <1>6, MarksOnly
  <1> QED
    BY <1>1, <1>2, <1>3, <1>4, <1>5, <1>6 DEF Next

LEMMA ReadingStep ==
    ASSUME Base, [Next]_vars
    PROVE  Reading'
  <1> USE DEF Base, Reading
  <1>1. CASE Handle
    <2>1. CASE HandleStart \/ HandleStop
      BY <2>1 DEF HandleStart, HandleStop, Arrives, Answers
    <2>2. ASSUME NEW op \in {"pause", "resume"}, NEW from, NEW to, HandleMove(op, from, to) PROVE Reading'
      BY <2>2 DEF HandleMove, Arrives, Answers
    <2>3. CASE HandleCurrent
      BY <2>3 DEF HandleCurrent, Arrives, Answers, NoAnswer, engine, store
    <2>4. CASE HandleDetail
      <3>1. /\ call = "detail" /\ UNCHANGED <<meeting, phase, stored, call, socket, shown>>
            /\ answer'.chunks = OnDisk(answer.meeting) /\ answer'.meeting = answer.meeting
            /\ answer'.state = answer.state
        BY <2>4 DEF HandleDetail, Arrives, engine, store, OnDisk, Types, Answer
      <3> QED
        BY <3>1 DEF OnDisk
    <2>5. CASE HandleMark
      BY <2>5, MarkHandled DEF Emit, OnDisk
    <2> QED
      BY <1>1, <2>1, <2>2, <2>3, <2>4, <2>5 DEF Handle
  <1>2. CASE Chunk
    BY <1>2 DEF Chunk, Emit, request, store
  <1>3. CASE NotesDone
    BY <1>3 DEF NotesDone, request, store
  <1>4. ASSUME NEW op \in Buttons, Click(op) PROVE Reading'
    BY <1>4 DEF Click, Buttons
  <1>5. CASE Fails
    BY <1>5 DEF Fails, engine, store
  <1>6. CASE Apply /\ ~ApplyMark
    BY <1>6 DEF Apply, ApplyStart, ApplyState, ApplyCurrent, ApplyDetail, Applies, Done,
       engine, store
  <1>7. CASE Opens \/ Drops
    BY <1>7 DEF Opens, Drops, request
  <1>8. CASE Deliver
    BY <1>8 DEF Deliver, request, Types, TypeOK
  <1>9. CASE Reload
    BY <1>9 DEF Reload
  <1>10. CASE UNCHANGED vars
    BY <1>10 DEF vars, engine, request, store, OnDisk
  <1>11. CASE ClickMark \/ MarkFails \/ ApplyMark
    BY <1>11, MarksOnly DEF OnDisk
  <1> QED
    BY <1>1, <1>2, <1>3, <1>4, <1>5, <1>6, <1>7, <1>8, <1>9, <1>10, <1>11 DEF Next

LEMMA Recorded ==
    ASSUME Types, Numbered, meeting # 0
    PROVE  /\ meeting \in Meetings /\ meeting <= created /\ created \in Nat
           /\ stored \in [Meetings -> 0 .. MaxChunks] /\ stored[meeting] \in 0 .. MaxChunks
  <1>1. meeting \in 0 .. created /\ created \in 0 .. MaxMeetings /\ MaxMeetings \in Nat
    BY LiveViewAssumption DEF Types, TypeOK
  <1>2. meeting \in Meetings
    BY <1>1 DEF Meetings
  <1> QED
    BY <1>1, <1>2 DEF Types, TypeOK

\* Here it matters that the events of the meeting before are handled before the
\* next one is started.
LEMMA StartingStep ==
    ASSUME SlowEvents = FALSE, VInv, IInv', Types', [Next]_vars
    PROVE  Starting'
  <1> DEFINE Carried == Meetings \X (1 .. MaxChunks)
  <1>1. CASE Handle
    <2>1. CASE HandleStart
      <3>1. CASE meeting = 0
        <4>1. /\ created' = created + 1 /\ meeting' = created' /\ phase' = "recording"
              /\ Emit(<<Event("state_changed", "recording")>>) /\ Answers(TRUE, "recording")
              /\ stored' = stored
          BY <2>1, <3>1 DEF HandleStart
        <4>2. \A c \in Carried : ~Coming(wire, c)
          BY <2>1, <3>1 DEF HandleStart, Arrives, VInv, Base, Starting, Numbered
        <4>3. Event("state_changed", "recording") \in Events
          BY EventTypes DEF Phases
        <4>4. \A c \in Carried : ~Coming(wire', c)
          BY <4>1, <4>2, <4>3, Emitted DEF VInv, Base, Event
        <4>5. stored'[meeting'] = 0 /\ answer'.meeting = meeting'
          <5>1. created + 1 \in Meetings /\ created + 1 > created
            BY <4>1, LiveViewAssumption DEF VInv, Base, Types, TypeOK, Meetings
          <5> QED
            BY <4>1, <5>1 DEF VInv, Base, Numbered, Answers, NoAnswer
        <4>6. Settles(wire', "recording", "recording")
          <5>1. CASE socket = "open"
            <6>1. wire \in Seq(Events) /\ wire' = wire \o <<Event("state_changed", "recording")>>
              BY <4>1, <5>1 DEF Emit, VInv, Base, Types
            <6> QED
              BY <4>3, <6>1, Sent
          <5>2. CASE socket # "open"
            BY <4>1, <4>3, <5>2, Emitted, NothingSent DEF VInv, Base
          <5> QED
            BY <5>1, <5>2
        <4> QED
          BY <4>1, <4>4, <4>5, <4>6 DEF Starting
      <3>2. CASE meeting # 0
        BY <2>1, <3>2 DEF HandleStart, Arrives, Answers, NoAnswer, VInv, Base, Starting
      <3> QED
        BY <3>1, <3>2
    <2>2. CASE HandleMark /\ call = "start"
      <3> DEFINE e == Event("marker_added", meeting)
      <3>1. UNCHANGED <<meeting, phase, stored, call, leg, answer, socket>>
        BY <2>2, MarkHandled
      <3>2. CASE meeting # 0 /\ Emit(<<e>>)
        <4>1. e \in Events /\ e.type # "state_changed" /\ \A c : e # Event("transcript_chunk", c)
          BY <3>2, Recorded, EventTypes DEF VInv, Base, Event
        <4>2. wire \in Seq(Events) /\ wire' \in {wire, wire \o <<e>>}
              /\ \A c \in Carried : Coming(wire', c) => Coming(wire, c)
          BY <3>2, <4>1, Emitted DEF VInv, Base, Types
        <4> HIDE DEF e
        <4>3. Settles(wire, "recording", "recording") => Settles(wire', "recording", "recording")
          <5>1. Settles(wire, "recording", "recording") => Settles(wire \o <<e>>, "recording", "recording")
            BY <4>1, <4>2, Sent
          <5> QED
            BY <4>2, <5>1
        <4> QED
          BY <3>1, <4>2, <4>3 DEF VInv, Starting
      <3>3. CASE UNCHANGED <<wire, missed>>
        BY <3>1, <3>3 DEF VInv, Starting
      <3> QED
        BY <2>2, <3>2, <3>3, MarkHandled
    <2>3. CASE HandleMark /\ call # "start"
      BY <2>3, MarkHandled DEF Starting
    <2>4. CASE ~HandleStart /\ ~HandleMark
      BY <1>1, <2>4 DEF Handle, HandleStop, HandleCurrent, HandleDetail, HandleMove,
         Arrives, Answers, Starting
    <2> QED
      BY <2>1, <2>2, <2>3, <2>4
  <1>2. CASE Chunk
    <2>1. CASE call = "start"
      <3>1. /\ phase = "recording" /\ phase' = phase /\ meeting' = meeting /\ leg' = leg
            /\ answer' = answer /\ stored[meeting] # 0
        BY <1>2, <2>1 DEF Chunk, request
      <3>2. meeting \in Meetings /\ stored[meeting] \in Nat
        BY <3>1, Recorded DEF VInv, Base, Numbered
      <3>3. stored'[meeting'] # 0
        <4>1. stored' = [stored EXCEPT ![meeting] = stored[meeting] + 1]
          BY <1>2 DEF Chunk
        <4>2. stored \in [Meetings -> 0 .. MaxChunks]
          BY DEF VInv, Base, Types, TypeOK
        <4> QED
          BY <3>1, <3>2, <4>1, <4>2
      <3> QED
        BY <2>1, <3>1, <3>3 DEF VInv, Base, Starting
    <2>2. CASE call # "start"
      BY <1>2, <2>2 DEF Chunk, request, Starting
    <2> QED
      BY <2>1, <2>2
  <1>3. CASE NotesDone
    <2>1. Event("state_changed", "completed") \in Events
      BY EventTypes DEF Phases
    <2>2. call' = call /\ leg' = leg /\ answer' = answer /\ phase = "generating_notes"
      BY <1>3 DEF NotesDone, request
    <2>3. call = "start" => \A c \in Carried : ~Coming(wire, c)
      BY <2>2 DEF VInv, Base, Starting
    <2>4. call = "start" => \A c \in Carried : ~Coming(wire', c)
      BY <1>3, <2>1, <2>3, Emitted DEF NotesDone, VInv, Base, Event
    <2> QED
      BY <2>2, <2>4 DEF VInv, Base, Starting
  <1>4. ASSUME NEW op \in Buttons, Click(op) PROVE Starting'
    <2>1. call' = "start" => wire' = <<>> /\ leg' = "request"
      BY <1>4 DEF Click, Offered
    <2> QED
      BY <2>1, NothingSent DEF Starting
  <1>5. CASE Fails
    BY <1>5 DEF Fails, engine, store, VInv, Base, Starting
  <1>6. CASE (Apply /\ ~ApplyMark) \/ Reload
    BY <1>6 DEF Apply, ApplyStart, ApplyState, ApplyCurrent, ApplyDetail, Done, Reload, Starting
  <1>7. CASE Opens \/ UNCHANGED vars
    BY <1>7 DEF Opens, vars, engine, request, VInv, Base, Starting
  <1>8. CASE Drops
    BY <1>8, NothingSent DEF Drops, engine, request, VInv, Base, Starting
  <1>9. CASE Deliver
    BY <1>9, Handled DEF Deliver, engine, request, VInv, Base, Types, Starting
  <1>10. CASE ClickMark \/ MarkFails \/ ApplyMark
    BY <1>10, MarksOnly DEF VInv, Starting
  <1> QED
    BY <1>1, <1>2, <1>3, <1>4, <1>5, <1>6, <1>7, <1>8, <1>9, <1>10 DEF Next

\* The events of a handler, of the worker or of the notes task reach a window
\* that follows the meeting.
LEMMA EngineView ==
    ASSUME VInv, Types', [Next]_vars, Chunk \/ NotesDone \/ Handle
    PROVE  View'
  <1> USE DEF VInv, Base
  <1> SUFFICES ASSUME meeting' # 0, shown' = meeting', ~missed'
               PROVE  Followed'
    BY DEF View
  <1> DEFINE Carried == Meetings \X (1 .. MaxChunks)
  <1>1. CASE Chunk
    <2> DEFINE c0 == <<meeting, stored[meeting] + 1>>
               e == Event("transcript_chunk", c0)
    <2>1. /\ meeting' = meeting /\ shown' = shown /\ phase' = phase /\ state' = state /\ chunks' = chunks
          /\ stored[meeting] < MaxChunks /\ phase = "recording"
          /\ stored' = [stored EXCEPT ![meeting] = stored[meeting] + 1]
          /\ Emit(<<Event("transcript_chunk", <<meeting, stored'[meeting]>>)>>)
      BY <1>1 DEF Chunk, store
    <2>2. meeting \in Meetings /\ stored \in [Meetings -> 0 .. MaxChunks] /\ stored[meeting] \in Nat
      BY <2>1, Recorded DEF Numbered
    <2>3. stored'[meeting] = stored[meeting] + 1 /\ c0 \in Carried
      BY <2>1, <2>2, LiveViewAssumption
    <2>4. e \in Events /\ Emit(<<e>>) /\ e.type # "state_changed"
      BY <2>1, <2>3, EventTypes DEF Event
    <2>5. \A c : e = Event("transcript_chunk", c) <=> c = c0
      BY DEF Event
    <2>6. OnDisk(meeting)' = OnDisk(meeting) \cup {c0}
      BY <2>1, <2>2, <2>3 DEF OnDisk
    <2> HIDE DEF c0, e
    <2>7. ~missed /\ wire' = wire \o <<e>>
      BY <2>4, Emitted
    <2>8. Followed
      BY <2>1, <2>7 DEF View
    <2>9. \A c : Coming(wire', c) <=> Coming(wire, c) \/ c = c0
      BY <2>4, <2>5, <2>7, Sent DEF Types
    <2>10. Settles(wire', state, phase)
      BY <2>1, <2>4, <2>7, <2>8, Sent DEF Types, Followed
    <2> QED
      BY <2>1, <2>6, <2>8, <2>9, <2>10 DEF Followed
  <1>2. CASE NotesDone
    BY <1>2 DEF NotesDone
  <1>3. CASE HandleStart
    <2>1. meeting' = meeting
      <3>1. created \in Nat /\ shown \in Nat /\ shown <= created
        BY LiveViewAssumption DEF Numbered, Types, TypeOK
      <3>2. shown' = shown
        BY <1>3 DEF HandleStart, Answers, store
      <3>3. ASSUME meeting = 0
            PROVE  FALSE
        <4>1. meeting' = created + 1
          BY <1>3, <3>3 DEF HandleStart
        <4> QED
          BY <4>1, <3>1, <3>2
      <3> QED
        BY <1>3, <3>3 DEF HandleStart
    <2>2. UNCHANGED <<meeting, phase, stored, wire, missed, store>>
      BY <1>3, <2>1, LiveViewAssumption DEF HandleStart, Answers, Types, TypeOK
    <2> QED
      BY <2>2 DEF View, Followed, OnDisk, store
  <1>4. ASSUME NEW op, NEW from, NEW to \in {"paused", "recording"}, HandleMove(op, from, to)
        PROVE  Followed'
    <2>1. CASE meeting # 0 /\ phase = from
      <3> DEFINE e == Event("state_changed", to)
      <3>1. /\ phase' = to /\ Emit(<<e>>) /\ UNCHANGED <<meeting, stored, store>>
        BY <1>4, <2>1 DEF HandleMove, Answers
      <3>2. e \in Events /\ \A c : e # Event("transcript_chunk", c)
        BY EventTypes DEF Event, Phases
      <3>3. ~missed /\ wire' = wire \o <<e>>
        BY <3>1, <3>2, Emitted
      <3>4. Followed
        BY <3>1, <3>3 DEF View, store
      <3>5. \A c : Coming(wire', c) <=> Coming(wire, c)
        BY <3>2, <3>3, Sent DEF Types
      <3>6. Settles(wire', state, to)
        BY <3>2, <3>3, Sent DEF Types
      <3> QED
        BY <3>1, <3>4, <3>5, <3>6 DEF Followed, OnDisk, store
    <2>2. CASE ~(meeting # 0 /\ phase = from)
      BY <1>4, <2>2 DEF HandleMove, Answers, store, View, Followed, OnDisk
    <2> QED
      BY <2>1, <2>2
  <1>5. CASE HandleStop
    <2>1. CASE meeting # 0 /\ phase \in {"recording", "paused"}
      <3> DEFINE f == Event("state_changed", "finalizing")
                 g == Event("state_changed", "generating_notes")
      <3>1. PICK last \in {stored[meeting], stored[meeting] + 1} \cap 0 .. MaxChunks :
              /\ phase' = "generating_notes" /\ stored' = [stored EXCEPT ![meeting] = last]
              /\ Emit(<<f>> \o [i \in 1 .. last - stored[meeting] |->
                                  Event("transcript_chunk", <<meeting, last>>)] \o <<g>>)
              /\ Answers(TRUE, "finalizing")
        BY <1>5, <2>1 DEF HandleStop
      <3>2. meeting \in Meetings /\ stored \in [Meetings -> 0 .. MaxChunks] /\ stored[meeting] \in Nat
        BY <2>1, Recorded
      <3>3. last # stored[meeting] => <<meeting, last>> \in Carried
        BY <3>1, <3>2
      <3>4. /\ ~missed
            /\ \A c : Coming(wire', c) <=>
                 Coming(wire, c) \/ (last # stored[meeting] /\ c = <<meeting, last>>)
        BY <3>1, <3>2, <3>3, StopSends
      <3>5. UNCHANGED <<meeting, shown, chunks>>
        BY <1>5, <3>1 DEF HandleStop, Answers, store
      <3>6. Followed
        BY <2>1, <3>4, <3>5 DEF View
      <3>7. OnDisk(meeting)' = OnDisk(meeting) \cup (IF last = stored[meeting] THEN {} ELSE {<<meeting, last>>})
        BY <3>1, <3>2, <3>5 DEF OnDisk
      <3> QED
        BY <3>1, <3>4, <3>5, <3>6, <3>7 DEF Followed
    <2>2. CASE ~(meeting # 0 /\ phase \in {"recording", "paused"})
      BY <1>5, <2>2 DEF HandleStop, Answers, store, View, Followed, OnDisk
    <2> QED
      BY <2>1, <2>2
  <1>6. CASE HandleMark
    <2> DEFINE e == Event("marker_added", meeting)
    <2>1. UNCHANGED <<meeting, phase, stored, shown, state, chunks>>
      BY <1>6, MarkHandled
    <2>2. CASE Emit(<<e>>)
      <3>1. e \in Events /\ e.type # "state_changed" /\ \A c : e # Event("transcript_chunk", c)
        BY <2>1, Recorded, EventTypes DEF Event
      <3>2. ~missed /\ wire' = wire \o <<e>>
        BY <2>2, <3>1, Emitted
      <3> HIDE DEF e
      <3>3. Followed
        BY <2>1, <3>2 DEF View
      <3>4. \A c : Coming(wire', c) <=> Coming(wire, c)
        BY <3>1, <3>2, Sent DEF Types
      <3>5. \A s, p : Settles(wire, s, p) => Settles(wire', s, p)
        BY <3>1, <3>2, Sent DEF Types
      <3> QED
        BY <2>1, <3>3, <3>4, <3>5 DEF Followed, OnDisk
    <2>3. CASE UNCHANGED <<wire, missed>>
      BY <2>1, <2>3 DEF View, Followed, OnDisk
    <2> QED
      BY <1>6, <2>2, <2>3, MarkHandled
  <1>7. CASE HandleCurrent
    BY <1>7 DEF HandleCurrent, Answers, engine, store, View, Followed, OnDisk
  <1>8. CASE HandleDetail
    BY <1>8 DEF HandleDetail, Arrives, engine, store, Reading, Numbered
  <1> QED
    BY <1>1, <1>2, <1>3, <1>4, <1>5, <1>6, <1>7, <1>8 DEF Handle

\* An answer is applied.
LEMMA AnswerView ==
    ASSUME VInv, Apply
    PROVE  View'
  <1> USE DEF VInv, Base
  <1> SUFFICES ASSUME meeting' # 0, shown' = meeting', ~missed'
               PROVE  Followed'
    BY DEF View
  <1> DEFINE Carried == Meetings \X (1 .. MaxChunks)
  <1>1. UNCHANGED <<meeting, phase, stored, wire>>
    BY MarksOnly DEF Apply, ApplyStart, ApplyState, ApplyCurrent, ApplyDetail, engine
  <1>2. OnDisk(meeting)' = OnDisk(meeting)
    BY <1>1 DEF OnDisk
  <1>3. CASE ApplyStart /\ answer.ok
    <2>1. /\ meeting' = answer.meeting /\ phase = "recording" /\ stored[meeting] = 0
          /\ Settles(wire, "recording", "recording")
          /\ \A c \in Carried : ~Coming(wire, c)
          /\ chunks' = {} /\ state' = "recording"
      BY <1>1, <1>3 DEF ApplyStart, Applies, Starting
    <2>2. OnDisk(meeting) = {}
      BY <2>1 DEF OnDisk
    <2> QED
      BY <1>1, <1>2, <2>1, <2>2 DEF Followed
  <1>4. CASE ApplyStart /\ ~answer.ok
    BY <1>1, <1>2, <1>4 DEF ApplyStart, store, View, Followed
  <1>5. CASE ApplyState
    <2>1. /\ UNCHANGED <<shown, chunks, missed>>
          /\ state' = state \/ (phase \in {"recording", "paused"} => state' = phase)
      BY <1>5 DEF ApplyState, Commanding
    <2>2. Followed
      BY <1>1, <2>1 DEF View
    <2>3. \A s, p : Settles(wire, s, p) => Settles(wire, p, p)
      BY DEF Settles
    <2> QED
      BY <1>1, <1>2, <2>1, <2>2, <2>3 DEF Followed
  <1>6. CASE ApplyMark \/ ApplyCurrent
    BY <1>1, <1>2, <1>6, MarksOnly DEF ApplyCurrent, store, View, Followed
  <1>7. CASE ApplyDetail
    <2>1. /\ call = "detail" /\ leg = "answer" /\ missed' = missed /\ shown' = answer.meeting
          /\ chunks' = answer.chunks /\ state' = answer.state
      BY <1>7 DEF ApplyDetail, Applies
    <2>2. /\ answer.chunks = OnDisk(meeting) /\ answer.state = phase /\ wire = <<>>
      BY <1>1, <2>1 DEF Reading, Types, TypeOK
    <2> QED
      BY <1>1, <1>2, <2>1, <2>2, NothingSent DEF Followed
  <1> QED
    BY <1>3, <1>4, <1>5, <1>6, <1>7 DEF Apply

\* The first event is handled: a chunk takes the place of itself.
LEMMA DeliverView ==
    ASSUME VInv, Deliver
    PROVE  View'
  <1> USE DEF VInv, Base
  <1> SUFFICES ASSUME meeting' # 0, shown' = meeting', ~missed'
               PROVE  Followed'
    BY DEF View
  <1> DEFINE Carried == Meetings \X (1 .. MaxChunks)
             event == Head(wire)
  <1>1. /\ UNCHANGED <<meeting, phase, stored, shown, missed>>
        /\ wire # <<>> /\ wire' = Tail(wire)
        /\ state' = IF event.type = "state_changed" THEN event.value ELSE state
        /\ chunks' = IF event.type = "transcript_chunk"
                     THEN {c \in chunks : c[2] # event.value[2]} \cup {event.value} ELSE chunks
    BY DEF Deliver, engine
  <1>2. Followed /\ OnDisk(meeting)' = OnDisk(meeting)
    BY <1>1 DEF View, OnDisk
  <1>3. event \in Events /\ \A c : Coming(wire, c) <=> Coming(wire', c) \/ event = Event("transcript_chunk", c)
    BY <1>1, Handled DEF Types
  <1>4. \A p : Settles(wire, state, p) => Settles(wire', state', p)
    BY <1>1, Handled DEF Types
  <1> HIDE DEF event
  <1>5. CASE event.type = "transcript_chunk"
    <2>1. event = Event("transcript_chunk", event.value) /\ event.value \in Carried
      BY <1>3, <1>5, EventTypes
    <2>2. event.value \in OnDisk(meeting)
      BY <1>2, <1>3, <2>1 DEF Followed
    <2>3. \A c \in OnDisk(meeting) : c[2] = event.value[2] => c = event.value
      BY <2>2 DEF OnDisk
    <2>4. chunks' = chunks \cup {event.value}
      BY <1>1, <1>2, <1>5, <2>3 DEF Followed
    <2>5. \A c : event = Event("transcript_chunk", c) => c = event.value
      BY DEF Event
    <2> QED
      BY <1>1, <1>2, <1>3, <1>4, <2>2, <2>4, <2>5 DEF Followed
  <1>6. CASE event.type # "transcript_chunk"
    <2>1. \A c : event # Event("transcript_chunk", c)
      BY <1>6 DEF Event
    <2> QED
      BY <1>1, <1>2, <1>3, <1>4, <1>6, <2>1 DEF Followed
  <1> QED
    BY <1>5, <1>6

LEMMA ViewStep ==
    ASSUME VInv, Types', [Next]_vars
    PROVE  View'
  <1> USE DEF VInv, Base
  <1>1. CASE Chunk \/ NotesDone \/ Handle
    BY <1>1, EngineView
  <1>2. CASE Apply \/ Deliver
    BY <1>2, AnswerView, DeliverView
  <1>3. ASSUME NEW op \in Buttons, Click(op) PROVE View'
    BY <1>3 DEF Click, engine, store, View, Followed, OnDisk
  <1>4. CASE Fails \/ Opens \/ UNCHANGED vars
    BY <1>4 DEF Fails, Opens, vars, engine, store, View, Followed, OnDisk
  <1>5. CASE Drops
    <2>1. /\ UNCHANGED <<meeting, phase, stored, store>> /\ wire' = <<>>
          /\ ~missed' => ~missed /\ wire = <<>>
      BY <1>5 DEF Drops, engine
    <2> QED
      BY <2>1 DEF store, View, Followed, OnDisk
  <1>6. CASE Reload
    BY <1>6 DEF Reload, View
  <1>7. CASE ClickMark \/ MarkFails
    BY <1>7, MarksOnly DEF View, Followed, OnDisk
  <1> QED
    BY <1>1, <1>2, <1>3, <1>4, <1>5, <1>6, <1>7 DEF Next

LEMMA ViewInvariance ==
    ASSUME SlowEvents = FALSE, VInv, IInv, [Next]_vars
    PROVE  VInv' /\ IInv'
  <1>1. IInv'
    BY Invariance
  <1>2. Types'
    BY <1>1, TypesStep DEF VInv
  <1>3. Numbered' /\ Starting' /\ Reading' /\ Commanding' /\ View'
    BY <1>1, <1>2, NumberedStep, StartingStep, ReadingStep, CommandingStep, ViewStep DEF VInv, Base
  <1> QED
    BY <1>1, <1>2, <1>3 DEF VInv, Base

-----------------------------------------------------------------------------
(* Theorems.  What the window shows is proved for an engine that answers    *)
(* and emits within the second that it takes to start another meeting.      *)

\* Every variable keeps its type, however slow the events are.  It takes what
\* travels (Types), that the meetings are numbered, and what a window reads.
THEOREM TypeCorrect == Spec => []TypeOK
<1>1. Init => Base
  BY InitView DEF VInv
<1>2. Base => TypeOK
  BY DEF Base, Types
<1>3. ASSUME Base, IInv, [Next]_vars PROVE Base' /\ IInv'
  <2>1. IInv'
    BY <1>3, Invariance
  <2>2. Types'
    BY <1>3, <2>1, TypesStep
  <2>3. Numbered' /\ Reading'
    BY <1>3, <2>2, NumberedStep, ReadingStep
  <2> QED
    BY <2>1, <2>2, <2>3 DEF Base
<1>4. Base /\ IInv /\ [Next]_vars => Base' /\ IInv'
  BY <1>3
<1> QED
  BY <1>1, <1>2, <1>4, InitInv, PTL DEF Spec

\* Nothing is under way to the window: then the wire is empty.
LEMMA QuietView ==
    ASSUME VInv, Quiet, ~missed
    PROVE  chunks = OnDisk(meeting) /\ (phase \in {"recording", "paused"} => state = phase)
  <1>1. Followed /\ wire = <<>>
    BY DEF VInv, Base, View, Quiet
  <1>2. meeting \in Meetings /\ stored[meeting] \in 0 .. MaxChunks
    BY Recorded DEF VInv, Base, Quiet
  <1>3. OnDisk(meeting) \subseteq Meetings \X (1 .. MaxChunks)
    BY <1>2, LiveViewAssumption DEF OnDisk
  <1> QED
    BY <1>1, <1>3, NothingSent DEF Followed

\* However the answers, the events, the reloads and the lost sockets came: where
\* no event was lost, the window shows the chunks on disk and no other.
THEOREM ChunksAreShown ==
    ASSUME SlowEvents = FALSE
    PROVE  Spec => []ChunksShown
<1>1. VInv => ChunksShown
  BY QuietView DEF ChunksShown, OnDisk
<1>2. VInv /\ IInv /\ [Next]_vars => VInv' /\ IInv'
  BY ViewInvariance
<1> QED
  BY <1>1, <1>2, InitInv, InitView, PTL DEF Spec

\* ... and offers Pause or Resume as the engine would take it.
THEOREM StateIsShown ==
    ASSUME SlowEvents = FALSE
    PROVE  Spec => []StateShown
<1>1. VInv => StateShown
  BY QuietView DEF StateShown
<1>2. VInv /\ IInv /\ [Next]_vars => VInv' /\ IInv'
  BY ViewInvariance
<1> QED
  BY <1>1, <1>2, InitInv, InitView, PTL DEF Spec
=============================================================================
