--------------------------- MODULE AINotes_proofs ---------------------------
(***************************************************************************)
(* The notes of a meeting: what the passes of NotesPipeline establish, one *)
(* after the other, for any templates, analyses, answers, failures and     *)
(* crashes, and what AIRouter promises to the passes that call it, for     *)
(* every set of keys and any number of refreshers, rechecks and requests.  *)
(***************************************************************************)
EXTENDS NotesPipeline, AIRouter, TLAPS

-----------------------------------------------------------------------------
(* NotesPipeline: the report of a meeting says what its files hold.         *)
(* What a job relies on is its own: this part holds for jobs that overlap.  *)

\* The checks have seen the draft, and its issues are what they said.
Checked(j) ==
    /\ draft[j].text \in Text /\ draft[j].by \in Providers
    /\ draft[j].issues = RunChecks(draft[j].text, wanted[j], facts[j])

\* A draft with a hard flaw went through the second pass.
Revised(j) == HasHardIssues(draft[j].issues) => draft[j].passes = 2

\* What the job is going to report is its draft.
Reported(j) ==
    result[j] = [status |-> "completed", by |-> draft[j].by, warnings |-> draft[j].issues]

Stage(j) ==
    /\ place[j] \in {"head", "analysis", "notes"} => draft[j].passes = 0
    /\ place[j] = "head" => result[j].status = "failed"
    /\ place[j] = "rewrite" => draft[j].passes = 1
    /\ place[j] \in {"rewrite", "md", "txt"} => Checked(j)
    /\ place[j] \in {"md", "txt"} => Revised(j)
    /\ place[j] = "result" => result[j].status # "not_started"
    /\ place[j] = "result" /\ result[j].status = "completed" =>
         Checked(j) /\ Revised(j) /\ Reported(j)

\* A run that is over, or is about to be, has left its report, unless it was
\* cut off where nothing catches what it raises.
Settled ==
    /\ (status = "completed" \/ \E j \in Jobs : place[j] = "complete") =>
         report.status # "not_started"
    /\ Rested /\ cut \in Passes \cup {"no"} => status = "completed"

JInv ==
    /\ TypeOK
    /\ \A j \in Jobs : Stage(j)
    /\ FlawsWereRewritten
    /\ Settled

-----------------------------------------------------------------------------
(* The files and the status are shared: this part needs one job at a time.  *)

Alone == \A j, k \in Jobs : place[j] # "idle" /\ place[k] # "idle" => j = k

\* The two files follow the draft, and the status tells of a job at work.
Delivered(j) ==
    /\ place[j] \in Passes \cup {"head"} => status = "generating_notes"
    /\ place[j] = "txt" => md = draft[j].text
    /\ place[j] = "result" /\ result[j].status = "completed" =>
         md = draft[j].text /\ txt = draft[j].text

\* NotesMatchReport, one step before the status says so.
Matches ==
    (status = "completed" \/ \E j \in Jobs : place[j] = "complete") /\ report.status = "completed" =>
        /\ md \in Text /\ txt = md
        /\ report.by # "none"
        /\ report.warnings = RunChecks(md, basis.wanted, basis.facts)

IInv ==
    /\ JInv
    /\ Alone
    /\ \A j \in Jobs : Delivered(j)
    /\ Matches
-----------------------------------------------------------------------------
(* Lemmas                                                                   *)

LEMMA InitIInv == Init => IInv
  <1> SUFFICES ASSUME Init PROVE IInv
    OBVIOUS
  <1>1. TypeOK
    <2>1. Failure("not_started") \in Report /\ NoDraft \in Draft
      BY DEF Failure, Report, NotesStatus, Draft, NoDraft
    <2>2. basis \in [wanted : SUBSET Sections, facts : Found, passes : 0 .. 2]
      BY DEF Init, Found
    <2>3. counts \in [{"runs", "edits", "crashes"} -> Nat]
      BY DEF Init
    <2>4. /\ draft \in [Jobs -> Draft] /\ result \in [Jobs -> Report] /\ report \in Report
          /\ facts \in [Jobs -> Found] /\ wanted \in [Jobs -> SUBSET Sections]
      BY <2>1 DEF Init, Found
    <2> QED
      BY <2>2, <2>3, <2>4 DEF Init, TypeOK
  <1>2. /\ \A j \in Jobs : Stage(j) /\ Delivered(j)
        /\ FlawsWereRewritten /\ Settled /\ Alone /\ Matches
    BY DEF Init, Failure, Stage, Delivered, Passes, FlawsWereRewritten, Settled, Rested,
           Alone, Matches
  <1> QED
    BY <1>1, <1>2 DEF IInv, JInv

\* What the checks return, for a text of any kind.
LEMMA RunChecksType ==
    ASSUME NEW text \in Text, NEW sections, NEW found
    PROVE  RunChecks(text, sections, found) \in SUBSET Codes
  BY DEF RunChecks, Text, Codes

\* A draft that was written is checked, and a reader can tell it from none.
LEMMA WriteType ==
    ASSUME TypeOK, NEW j \in Jobs, draft[j].passes \in 0 .. 1,
           NEW text \in Text, NEW by \in Providers, Write(j, text, by)
    PROVE  LET new == [text |-> text, by |-> by, passes |-> draft[j].passes + 1,
                       issues |-> RunChecks(text, wanted[j], facts[j])]
           IN  draft' = [draft EXCEPT ![j] = new] /\ new \in Draft
  <1>1. RunChecks(text, wanted[j], facts[j]) \in SUBSET Codes
    BY RunChecksType
  <1>2. draft[j].passes + 1 \in 0 .. 2
    OBVIOUS
  <1> QED
    BY <1>1, <1>2 DEF Write, Draft

LEMMA FailType ==
    ASSUME TypeOK, NEW s \in {"pending", "failed"}
    PROVE  Failure(s) \in Report /\ Failure(s).status = s
  BY DEF Failure, Report, NotesStatus
\* A step of job j that leaves the meeting and the other jobs alone, on its way
\* to a report: the invariant is a matter of that job's own stage.
LEMMA Underway ==
    ASSUME JInv, NEW j \in Jobs, place[j] # "idle", NEW p \in Running \ {"complete"},
           place' = [place EXCEPT ![j] = p],
           \A k \in Jobs \ {j} : /\ wanted'[k] = wanted[k] /\ facts'[k] = facts[k]
                                 /\ draft'[k] = draft[k] /\ result'[k] = result[k],
           UNCHANGED <<meeting, history, counts>>,
           TypeOK', Stage(j)'
    PROVE  JInv'
  <1>1. place'[j] = p /\ p # "idle" /\ \A k \in Jobs \ {j} : place'[k] = place[k]
    BY DEF JInv, TypeOK, Running, Passes
  <1>2. \A k \in Jobs : Stage(k)'
    BY <1>1 DEF JInv, Stage, Checked, Revised, Reported
  <1>3. FlawsWereRewritten' /\ Settled'
    BY <1>1 DEF JInv, FlawsWereRewritten, Settled, Rested, meeting, history
  <1> QED
    BY <1>2, <1>3 DEF JInv

\* An exception that nothing catches ends the job where it is.
LEMMA EscapeJInv ==
    ASSUME JInv, NEW j \in Jobs, place[j] \in {"head", "result", "complete"}, Escape(j),
           status' \in {status, "completed"},
           status' = "completed" => status = "completed" \/ place[j] = "complete",
           UNCHANGED <<transcript, template, report, files, wanted, facts, draft, result,
                       basis, counts>>
    PROVE  JInv'
  <1>1. /\ place' = [place EXCEPT ![j] = "idle"] /\ cut' = place[j]
        /\ cut' \notin Passes \cup {"no"}
    BY DEF Escape, Goto, Passes
  <1>2. TypeOK'
    BY <1>1 DEF JInv, TypeOK, Running, files
  <1>3. \A k \in Jobs : Stage(k)'
    BY <1>1 DEF JInv, TypeOK, Stage, Checked, Revised, Reported
  <1>4. FlawsWereRewritten'
    BY DEF JInv, FlawsWereRewritten
  <1>5. Settled'
    <2>1. \A k \in Jobs : place'[k] = "complete" => place[k] = "complete"
      BY <1>1 DEF JInv, TypeOK
    <2> QED
      BY <1>1, <2>1 DEF JInv, Settled
  <1> QED
    BY <1>2, <1>3, <1>4, <1>5 DEF JInv

LEMMA StartJInv ==
    ASSUME JInv, NEW j \in Jobs, Start(j)
    PROVE  JInv'
  <1>1. /\ place[j] = "idle"
        /\ wanted' = [wanted EXCEPT ![j] = {}] /\ facts' = [facts EXCEPT ![j] = {}]
        /\ draft' = [draft EXCEPT ![j] = NoDraft]
        /\ result' = [result EXCEPT ![j] = Failure("failed")]
        /\ counts' = [counts EXCEPT !["runs"] = @ + 1]
        /\ UNCHANGED <<transcript, template, report, files, basis>>
    BY DEF Start, Count
  <1>2. PICK p \in {"head", "idle"} :
          /\ place' = [place EXCEPT ![j] = p]
          /\ p = "head" => status' = "generating_notes" /\ cut' = "no"
          /\ p = "idle" => status' = status /\ cut' = "idle"
    BY DEF Start, Escape, Goto
  <1>3. /\ Failure("failed") \in Report /\ Failure("failed").status = "failed"
        /\ NoDraft \in Draft /\ NoDraft.passes = 0
    BY FailType DEF JInv, Draft, NoDraft
  <1>4. TypeOK'
    <2>1. /\ wanted' \in [Jobs -> SUBSET Sections] /\ facts' \in [Jobs -> Found]
          /\ draft' \in [Jobs -> Draft] /\ result' \in [Jobs -> Report]
      BY <1>1, <1>3 DEF JInv, TypeOK, Found
    <2>2. /\ place' \in [Jobs -> Running \cup {"idle"}]
          /\ counts' \in [{"runs", "edits", "crashes"} -> Nat]
          /\ status' \in {"generating_notes", "completed"}
          /\ cut' \in Running \cup {"no", "crash", "idle"}
      BY <1>1, <1>2 DEF JInv, TypeOK, Running
    <2> QED
      BY <1>1, <2>1, <2>2 DEF JInv, TypeOK, files
  <1>5. \A k \in Jobs : Stage(k)'
    BY <1>1, <1>2, <1>3 DEF JInv, TypeOK, Stage, Checked, Revised, Reported
  <1>6. FlawsWereRewritten'
    BY <1>1 DEF JInv, FlawsWereRewritten
  <1>7. Settled'
    <2>1. place'[j] = p /\ \A k \in Jobs : place'[k] = "complete" => place[k] = "complete"
      BY <1>2 DEF JInv, TypeOK
    <2>2. CASE p = "head"
      BY <1>1, <1>2, <2>1, <2>2 DEF JInv, Settled, Rested
    <2>3. CASE p = "idle"
      BY <1>1, <1>2, <2>1, <2>3 DEF JInv, Settled, Passes
    <2> QED
      BY <2>2, <2>3
  <1> QED
    BY <1>4, <1>5, <1>6, <1>7 DEF JInv

LEMMA HeadJInv ==
    ASSUME JInv, NEW j \in Jobs, Head(j)
    PROVE  JInv'
  <1>1. /\ place[j] = "head" /\ draft[j].passes = 0 /\ result[j].status = "failed"
        /\ UNCHANGED <<transcript, template, meeting, files, facts, draft, result, basis, counts>>
    BY DEF Head, JInv, Stage
  <1>2. ASSUME NEW p \in {"result", "analysis"}, place' = [place EXCEPT ![j] = p],
               wanted' = [wanted EXCEPT ![j] = template], cut' = cut
        PROVE  JInv'
    <2>1. TypeOK'
      BY <1>1, <1>2 DEF JInv, TypeOK, Running, Passes, meeting, files
    <2>2. Stage(j)'
      BY <1>1, <1>2 DEF JInv, TypeOK, Stage
    <2> QED
      BY <1>1, <1>2, <2>1, <2>2, Underway DEF Running, Passes, Passes, JInv, TypeOK, history
  <1>3. ASSUME Escape(j), wanted' = wanted PROVE JInv'
    BY <1>1, <1>3, EscapeJInv DEF meeting
  <1> QED
    BY <1>2, <1>3 DEF Head, Goto

LEMMA AnalyseJInv ==
    ASSUME JInv, NEW j \in Jobs, Analyse(j)
    PROVE  JInv'
  <1>1. /\ place[j] = "analysis" /\ draft[j].passes = 0
        /\ UNCHANGED <<transcript, template, meeting, files, wanted, draft, history, counts>>
    BY DEF Analyse, JInv, Stage
  <1>2. ASSUME NEW s \in {"pending", "failed"}, Fail(j, s), facts' = facts PROVE JInv'
    <2>1. Failure(s) \in Report /\ Failure(s).status = s
      BY FailType DEF JInv
    <2>2. TypeOK' /\ Stage(j)'
      BY <1>1, <1>2, <2>1
      DEF Fail, Goto, JInv, TypeOK, Running, Passes, Stage, meeting, files, history
    <2> QED
      BY <1>1, <1>2, <2>2, Underway DEF Fail, Goto, Running, Passes, JInv, TypeOK
  <1>3. ASSUME NEW found \in Found, facts' = [facts EXCEPT ![j] = found],
               Goto(j, "notes"), result' = result
        PROVE  JInv'
    <2>1. TypeOK' /\ Stage(j)'
      BY <1>1, <1>3 DEF Goto, JInv, TypeOK, Running, Passes, Stage, meeting, files, history
    <2> QED
      BY <1>1, <1>3, <2>1, Underway DEF Goto, Running, Passes, JInv, TypeOK
  <1> QED
    BY <1>2, <1>3 DEF Analyse, PassFails

LEMMA WriteNotesJInv ==
    ASSUME JInv, NEW j \in Jobs, WriteNotes(j)
    PROVE  JInv'
  <1>1. /\ place[j] = "notes" /\ draft[j].passes = 0
        /\ UNCHANGED <<transcript, template, meeting, files, wanted, facts, history, counts>>
    BY DEF WriteNotes, JInv, Stage
  <1>2. \A s \in {"pending", "failed"} : Failure(s) \in Report /\ Failure(s).status = s
    BY FailType DEF JInv
  <1>3. ASSUME NEW s \in {"pending", "failed"}, Fail(j, s), draft' = draft PROVE JInv'
    <2>1. TypeOK' /\ Stage(j)'
      BY <1>1, <1>2, <1>3
      DEF Fail, Goto, JInv, TypeOK, Running, Passes, Stage, meeting, files, history
    <2> QED
      BY <1>1, <1>3, <2>1, Underway DEF Fail, Goto, Running, Passes, JInv, TypeOK
  <1>4. ASSUME NEW text \in Text, NEW by \in Providers, Write(j, text, by),
               IF facts[j] = NotADict THEN Fail(j, "failed")
               ELSE /\ Goto(j, IF HasHardIssues(draft'[j].issues) THEN "rewrite" ELSE "md")
                    /\ UNCHANGED result
        PROVE  JInv'
    <2> DEFINE new == [text |-> text, by |-> by, passes |-> draft[j].passes + 1,
                       issues |-> RunChecks(text, wanted[j], facts[j])]
    <2>1. draft' = [draft EXCEPT ![j] = new] /\ new \in Draft
      BY <1>1, <1>4, WriteType DEF JInv
    <2>2. /\ new.text = text /\ new.by = by /\ new.passes = 1
          /\ new.issues = RunChecks(text, wanted[j], facts[j])
      BY <1>1
    <2> HIDE DEF new
    <2>3. Checked(j)'
      BY <1>1, <2>1, <2>2 DEF Checked, JInv, TypeOK
    <2>4. CASE facts[j] = NotADict
      <3>1. Fail(j, "failed")
        BY <1>4, <2>4
      <3>2. TypeOK' /\ Stage(j)'
        BY <1>1, <1>2, <2>1, <3>1
        DEF Fail, Goto, JInv, TypeOK, Running, Passes, Stage, meeting, files, history
      <3> QED
        BY <1>1, <2>1, <3>1, <3>2, Underway DEF Fail, Goto, Running, Passes, JInv, TypeOK
    <2>5. CASE facts[j] # NotADict
      <3> DEFINE p == IF HasHardIssues(draft'[j].issues) THEN "rewrite" ELSE "md"
      <3>1. place' = [place EXCEPT ![j] = p] /\ result' = result
        BY <1>4, <2>5 DEF Goto
      <3>2. /\ p \in {"rewrite", "md"}
            /\ p = "md" => ~HasHardIssues(draft'[j].issues)
        OBVIOUS
      <3> HIDE DEF p
      <3>3. TypeOK'
        BY <1>1, <2>1, <3>1, <3>2 DEF JInv, TypeOK, Running, Passes, meeting, files, history
      <3>4. Stage(j)'
        BY <1>1, <2>1, <2>2, <2>3, <3>1, <3>2 DEF Stage, Revised, JInv, TypeOK
      <3> QED
        BY <1>1, <2>1, <3>1, <3>2, <3>3, <3>4, Underway DEF Running, Passes, JInv, TypeOK
    <2> QED
      BY <2>4, <2>5
  <1> QED
    BY <1>3, <1>4 DEF WriteNotes, PassFails

LEMMA RewriteJInv ==
    ASSUME JInv, NEW j \in Jobs, Rewrite(j)
    PROVE  JInv'
  <1>0. /\ place[j] = "rewrite" /\ draft[j].passes = 1 /\ Checked(j)
        /\ UNCHANGED <<transcript, template, meeting, files, wanted, facts, history, counts>>
    BY DEF Rewrite, JInv, Stage
  <1>a. ASSUME Fail(j, "failed"), draft' = draft PROVE JInv'
    <2>1. Failure("failed") \in Report /\ Failure("failed").status = "failed"
      BY FailType DEF JInv
    <2>2. TypeOK' /\ Stage(j)'
      BY <1>0, <1>a, <2>1
      DEF Fail, Goto, JInv, TypeOK, Running, Passes, Stage, meeting, files, history
    <2> QED
      BY <1>0, <1>a, <2>2, Underway DEF Fail, Goto, Running, Passes, JInv, TypeOK
  <1>b. SUFFICES ASSUME Goto(j, "md"), result' = result,
                        \/ \E text \in Text, by \in Providers : Write(j, text, by)
                        \/ draft' = [draft EXCEPT ![j].passes = 2]
                 PROVE  JInv'
    BY <1>a DEF Rewrite
  <1>1. /\ place[j] = "rewrite" /\ draft[j].passes = 1 /\ Checked(j)
        /\ place' = [place EXCEPT ![j] = "md"]
        /\ UNCHANGED <<transcript, template, meeting, files, wanted, facts, result, history, counts>>
    BY <1>0, <1>b DEF Goto
  <1>2. PICK new \in Draft :
          /\ draft' = [draft EXCEPT ![j] = new] /\ new.passes = 2
          /\ new.text \in Text /\ new.by \in Providers
          /\ new.issues = RunChecks(new.text, wanted[j], facts[j])
    <2>1. ASSUME NEW text \in Text, NEW by \in Providers, Write(j, text, by)
          PROVE  \E new \in Draft :
                   /\ draft' = [draft EXCEPT ![j] = new] /\ new.passes = 2
                   /\ new.text \in Text /\ new.by \in Providers
                   /\ new.issues = RunChecks(new.text, wanted[j], facts[j])
      <3> DEFINE new == [text |-> text, by |-> by, passes |-> draft[j].passes + 1,
                         issues |-> RunChecks(text, wanted[j], facts[j])]
      <3>1. draft' = [draft EXCEPT ![j] = new] /\ new \in Draft
        BY <1>1, <2>1, WriteType DEF JInv
      <3>2. /\ new.text = text /\ new.by = by /\ new.passes = 2
            /\ new.issues = RunChecks(new.text, wanted[j], facts[j])
        BY <1>1
      <3> HIDE DEF new
      <3> QED
        BY <3>1, <3>2
    <2>2. ASSUME draft' = [draft EXCEPT ![j].passes = 2]
          PROVE  \E new \in Draft :
                   /\ draft' = [draft EXCEPT ![j] = new] /\ new.passes = 2
                   /\ new.text \in Text /\ new.by \in Providers
                   /\ new.issues = RunChecks(new.text, wanted[j], facts[j])
      <3>1. draft \in [Jobs -> Draft] /\ draft[j] \in Draft
        BY DEF JInv, TypeOK
      <3> DEFINE new == [draft[j] EXCEPT !.passes = 2]
      <3>2. new \in Draft /\ draft' = [draft EXCEPT ![j] = new]
        BY <2>2, <3>1 DEF Draft
      <3>3. /\ new.passes = 2 /\ new.text = draft[j].text /\ new.by = draft[j].by
            /\ new.issues = draft[j].issues
        BY <3>1 DEF Draft
      <3> HIDE DEF new
      <3> QED
        BY <1>1, <3>2, <3>3 DEF Checked
    <2> QED
      BY <1>b, <2>1, <2>2
  <1>3. TypeOK'
    BY <1>1, <1>2 DEF JInv, TypeOK, Running, Passes, meeting, files, history
  <1>4. Stage(j)'
    BY <1>1, <1>2 DEF Stage, Checked, Revised, JInv, TypeOK
  <1> QED
    BY <1>1, <1>2, <1>3, <1>4, Underway DEF Running, Passes, JInv, TypeOK

LEMMA WriteFileJInv ==
    ASSUME JInv, NEW j \in Jobs, WriteMarkdown(j) \/ WriteTxt(j)
    PROVE  JInv'
  <1>1. /\ place[j] \in {"md", "txt"} /\ Checked(j) /\ Revised(j)
        /\ UNCHANGED <<transcript, template, meeting, wanted, facts, draft, history, counts>>
    BY DEF WriteMarkdown, WriteTxt, JInv, Stage
  <1>2. /\ md' \in Text \cup {NoText, Torn} /\ txt' \in Text \cup {NoText, Torn}
    BY <1>1 DEF WriteMarkdown, WriteTxt, Checked, JInv, TypeOK
  <1>3. ASSUME NEW p \in {"txt", "result"}, NEW r \in Report,
               place' = [place EXCEPT ![j] = p], result' = [result EXCEPT ![j] = r],
               p = "result" => r.status # "not_started",
               p = "result" /\ r.status = "completed" =>
                 r = [status |-> "completed", by |-> draft[j].by, warnings |-> draft[j].issues]
        PROVE  JInv'
    <2>1. TypeOK'
      BY <1>1, <1>2, <1>3 DEF JInv, TypeOK, Running, Passes, meeting, history
    <2>2. Stage(j)'
      BY <1>1, <1>3 DEF Stage, Checked, Revised, Reported, JInv, TypeOK
    <2> QED
      BY <1>1, <1>3, <2>1, <2>2, Underway DEF Running, Passes, JInv, TypeOK
  <1>4. ASSUME Goto(j, "txt"), result' = result PROVE JInv'
    <2>1. result' = [result EXCEPT ![j] = result[j]] /\ result[j] \in Report
      BY <1>4 DEF JInv, TypeOK
    <2> QED
      BY <1>3, <1>4, <2>1 DEF Goto
  <1>5. ASSUME Fail(j, "failed") PROVE JInv'
    <2>1. Failure("failed") \in Report /\ Failure("failed").status = "failed"
      BY FailType DEF JInv
    <2> QED
      BY <1>3, <1>5, <2>1 DEF Fail, Goto
  <1>6. ASSUME Goto(j, "result"),
               result' = [result EXCEPT ![j] =
                 [status |-> "completed", by |-> draft[j].by, warnings |-> draft[j].issues]]
        PROVE  JInv'
    <2> DEFINE r == [status |-> "completed", by |-> draft[j].by, warnings |-> draft[j].issues]
    <2>1. draft[j].by \in Providers /\ draft[j].issues \in SUBSET Codes
      BY <1>1, RunChecksType DEF Checked
    <2>2. r \in Report /\ r.status = "completed"
      BY <2>1 DEF Report, NotesStatus
    <2> QED
      BY <1>3, <1>6, <2>2 DEF Goto
  <1> QED
    BY <1>4, <1>5, <1>6 DEF WriteMarkdown, WriteTxt

\* The writes of a report that raise: the report of success is given up for a
\* failure, or the job ends.
LEMMA WriteRaisesJInv ==
    ASSUME JInv, NEW j \in Jobs, place[j] \in {"result", "complete"}, WriteRaises(j),
           status' \in {status, "completed"},
           status' = "completed" => status = "completed" \/ place[j] = "complete",
           UNCHANGED <<transcript, template, report, files, wanted, facts, draft, basis, counts>>
    PROVE  JInv'
  <1>1. CASE result[j].status = "completed"
    <2>1. /\ place' = [place EXCEPT ![j] = "result"] /\ cut' = cut
          /\ result' = [result EXCEPT ![j] = Failure("failed")]
      BY <1>1 DEF WriteRaises, Fail, Goto
    <2>2. Failure("failed") \in Report /\ Failure("failed").status = "failed"
      BY FailType DEF JInv
    <2>3. TypeOK'
      BY <2>1, <2>2 DEF JInv, TypeOK, Running, files
    <2>4. \A k \in Jobs : Stage(k)'
      BY <2>1, <2>2 DEF JInv, TypeOK, Stage, Checked, Revised, Reported
    <2>5. FlawsWereRewritten'
      BY DEF JInv, FlawsWereRewritten
    <2>6. Settled'
      <3>1. place'[j] = "result" /\ \A k \in Jobs : place'[k] = "complete" => place[k] = "complete"
        BY <2>1 DEF JInv, TypeOK
      <3> QED
        BY <3>1 DEF JInv, Settled, Rested
    <2> QED
      BY <2>3, <2>4, <2>5, <2>6 DEF JInv
  <1>2. CASE result[j].status # "completed"
    BY <1>2, EscapeJInv DEF WriteRaises
  <1> QED
    BY <1>1, <1>2

LEMMA SetResultJInv ==
    ASSUME JInv, NEW j \in Jobs, SetResult(j)
    PROVE  JInv'
  <1>0. place[j] = "result" /\ UNCHANGED <<transcript, template, status, files, wanted, facts, draft, counts>>
    BY DEF SetResult
  <1>a. ASSUME WriteRaises(j), UNCHANGED <<report, basis>> PROVE JInv'
    BY <1>0, <1>a, WriteRaisesJInv
  <1>b. SUFFICES ASSUME report' = result[j], Goto(j, "complete"),
                        basis' = [wanted |-> wanted[j], facts |-> facts[j], passes |-> draft[j].passes],
                        UNCHANGED <<result, cut>>
                 PROVE  JInv'
    BY <1>a DEF SetResult
  <1>1. /\ place[j] = "result" /\ report' = result[j] /\ Stage(j)
        /\ basis' = [wanted |-> wanted[j], facts |-> facts[j], passes |-> draft[j].passes]
        /\ place' = [place EXCEPT ![j] = "complete"]
        /\ UNCHANGED <<transcript, template, status, files, wanted, facts, draft, result, cut, counts>>
    BY <1>0, <1>b DEF Goto, JInv
  <1>2. TypeOK'
    <2>1. draft[j].passes \in 0 .. 2
      BY DEF JInv, TypeOK, Draft
    <2>2. basis' \in [wanted : SUBSET Sections, facts : Found, passes : 0 .. 2]
      BY <1>1, <2>1 DEF JInv, TypeOK
    <2> QED
      BY <1>1, <2>2 DEF JInv, TypeOK, Running, files
  <1>3. \A k \in Jobs : Stage(k)'
    BY <1>1 DEF JInv, TypeOK, Stage, Checked, Revised, Reported
  <1>4. FlawsWereRewritten'
    BY <1>1 DEF Stage, Revised, Reported, HasHardIssues, FlawsWereRewritten
  <1>5. Settled'
    BY <1>1 DEF Settled, Rested, Stage, JInv, TypeOK
  <1> QED
    BY <1>2, <1>3, <1>4, <1>5 DEF JInv

LEMMA CompleteJInv ==
    ASSUME JInv, NEW j \in Jobs, Complete(j)
    PROVE  JInv'
  <1>0. /\ place[j] = "complete"
        /\ UNCHANGED <<transcript, template, report, files, wanted, facts, draft, basis, counts>>
    BY DEF Complete
  <1>a. ASSUME WriteRaises(j), status' \in {status, "completed"} PROVE JInv'
    BY <1>0, <1>a, WriteRaisesJInv
  <1>b. SUFFICES ASSUME status' = "completed", Goto(j, "idle"), UNCHANGED <<result, cut>>
                 PROVE  JInv'
    BY <1>a DEF Complete
  <1>1. TypeOK'
    BY <1>0, <1>b DEF JInv, TypeOK, Goto, files
  <1>2. \A k \in Jobs : Stage(k)'
    BY <1>0, <1>b DEF JInv, TypeOK, Goto, Stage, Checked, Revised, Reported
  <1>3. FlawsWereRewritten' /\ Settled'
    BY <1>0, <1>b DEF JInv, TypeOK, Goto, FlawsWereRewritten, Settled
  <1> QED
    BY <1>1, <1>2, <1>3 DEF JInv

\* Nobody at work: an edit changes what the next run will read, a crash may
\* leave a file that was being written cut short.
LEMMA SystemJInv ==
    ASSUME JInv, EditTemplate \/ Crash \/ UNCHANGED vars
    PROVE  JInv'
  <1>1. CASE EditTemplate
    <2>1. TypeOK'
      BY <1>1 DEF EditTemplate, Count, JInv, TypeOK, meeting, files, job, history
    <2>2. (\A k \in Jobs : Stage(k)') /\ FlawsWereRewritten' /\ Settled'
      BY <1>1 DEF EditTemplate, Count, JInv, TypeOK, Stage, Checked, Revised, Reported,
                  FlawsWereRewritten, Settled, Rested, meeting, job, history
    <2> QED
      BY <2>1, <2>2 DEF JInv
  <1>2. CASE Crash
    <2>1. /\ md' \in {md, Torn} /\ txt' \in {txt, Torn}
          /\ place' = [j \in Jobs |-> "idle"] /\ cut' = "crash"
          /\ counts' = [counts EXCEPT !["crashes"] = @ + 1]
          /\ UNCHANGED <<transcript, template, meeting, wanted, facts, draft, result, basis>>
      BY <1>2 DEF Crash, Count
    <2>2. TypeOK'
      BY <2>1 DEF JInv, TypeOK, meeting
    <2>3. (\A k \in Jobs : Stage(k)') /\ FlawsWereRewritten' /\ Settled'
      BY <2>1 DEF JInv, Stage, FlawsWereRewritten, Settled, Passes, meeting
    <2> QED
      BY <2>2, <2>3 DEF JInv
  <1>3. CASE UNCHANGED vars
    BY <1>3 DEF vars, meeting, files, job, history, JInv, TypeOK, Stage, Checked, Revised,
                Reported, FlawsWereRewritten, Settled, Rested
  <1> QED
    BY <1>1, <1>2, <1>3

LEMMA NextJInv == JInv /\ [Next]_vars => JInv'
  BY StartJInv, HeadJInv, AnalyseJInv, WriteNotesJInv, RewriteJInv, WriteFileJInv, SetResultJInv,
     CompleteJInv, SystemJInv DEF Next, JobStep

\* A step of the only job at work, before its report.
LEMMA UnderwayIInv ==
    ASSUME IInv, JInv', NEW j \in Jobs, place[j] \in Passes \cup {"head"},
           NEW p \in Passes \cup {"result"},
           place' = [place EXCEPT ![j] = p], status' = status, Delivered(j)'
    PROVE  IInv'
  <1>1. /\ place'[j] = p /\ \A k \in Jobs \ {j} : place[k] = "idle" /\ place'[k] = "idle"
        /\ status = "generating_notes"
    BY DEF IInv, JInv, TypeOK, Alone, Delivered, Passes
  <1>2. Alone' /\ Matches' /\ \A k \in Jobs : Delivered(k)'
    BY <1>1 DEF Alone, Matches, Delivered, Passes
  <1> QED
    BY <1>2 DEF IInv

\* A job that ends, or gives up its report of success, leaves the files alone.
LEMMA LeavesIInv ==
    ASSUME IInv, JInv', NEW j \in Jobs, place[j] # "idle",
           NEW p \in {"idle", "result"}, place' = [place EXCEPT ![j] = p],
           p = "result" => result'[j].status # "completed",
           status' \in {status, "completed"},
           status' = "completed" => status = "completed" \/ place[j] = "complete",
           UNCHANGED <<report, files, basis>>
    PROVE  IInv'
  <1>1. place'[j] = p /\ \A k \in Jobs \ {j} : place[k] = "idle" /\ place'[k] = "idle"
    BY DEF IInv, JInv, TypeOK, Alone
  <1>2. Alone' /\ \A k \in Jobs : Delivered(k)'
    BY <1>1 DEF Alone, Delivered, Passes
  <1>3. Matches'
    BY <1>1 DEF IInv, Matches, files
  <1> QED
    BY <1>2, <1>3 DEF IInv

LEMMA JobIInv ==
    ASSUME IInv, JInv', NEW j \in Jobs, JobStep(j)
    PROVE  IInv'
  <1>0. CASE Head(j)
    <2>1. /\ place[j] = "head" /\ UNCHANGED <<status, report, files, draft, result, basis>>
          /\ result[j].status = "failed"
      BY <1>0 DEF Head, meeting, IInv, JInv, Stage
    <2>2. ASSUME NEW p \in {"result", "analysis"}, place' = [place EXCEPT ![j] = p]
          PROVE  IInv'
      <3>1. Delivered(j)'
        BY <2>1, <2>2 DEF IInv, JInv, TypeOK, Delivered
      <3> QED
        BY <2>1, <2>2, <3>1, UnderwayIInv DEF Passes
    <2>3. ASSUME Escape(j) PROVE IInv'
      BY <2>1, <2>3, LeavesIInv DEF Escape, Goto
    <2> QED
      BY <1>0, <2>2, <2>3 DEF Head, Goto
  <1>1. CASE Analyse(j)
    <2>1. PICK p \in {"result", "notes"} :
            /\ place' = [place EXCEPT ![j] = p] /\ status' = status /\ place[j] = "analysis"
            /\ p = "result" => \E s \in {"pending", "failed"} :
                                  result' = [result EXCEPT ![j] = Failure(s)]
      BY <1>1 DEF Analyse, PassFails, Fail, Goto, meeting
    <2>2. Delivered(j)'
      BY <2>1, FailType DEF IInv, JInv, TypeOK, Delivered, Passes
    <2> QED
      BY <2>1, <2>2, UnderwayIInv DEF Passes
  <1>2. CASE WriteNotes(j)
    <2>1. PICK p \in {"result", "rewrite", "md"} :
            /\ place' = [place EXCEPT ![j] = p] /\ status' = status /\ place[j] = "notes"
            /\ p = "result" => \E s \in {"pending", "failed"} :
                                  result' = [result EXCEPT ![j] = Failure(s)]
      BY <1>2 DEF WriteNotes, PassFails, Fail, Goto, meeting
    <2>2. Delivered(j)'
      BY <2>1, FailType DEF IInv, JInv, TypeOK, Delivered, Passes
    <2> QED
      BY <2>1, <2>2, UnderwayIInv DEF Passes
  <1>3. CASE Rewrite(j)
    <2>1. PICK p \in {"md", "result"} :
            /\ place' = [place EXCEPT ![j] = p] /\ status' = status /\ place[j] = "rewrite"
            /\ p = "result" => result' = [result EXCEPT ![j] = Failure("failed")]
      BY <1>3 DEF Rewrite, Fail, Goto, meeting
    <2>2. Delivered(j)'
      BY <2>1, FailType DEF IInv, JInv, TypeOK, Delivered, Passes
    <2> QED
      BY <2>1, <2>2, UnderwayIInv DEF Passes
  <1>4. CASE WriteMarkdown(j)
    <2>1. /\ place[j] = "md" /\ status' = status /\ draft' = draft
          /\ \/ md' = draft[j].text /\ place' = [place EXCEPT ![j] = "txt"]
             \/ /\ place' = [place EXCEPT ![j] = "result"]
                /\ result' = [result EXCEPT ![j] = Failure("failed")]
      BY <1>4 DEF WriteMarkdown, Fail, Goto, meeting
    <2>2. Delivered(j)'
      BY <2>1, FailType DEF IInv, JInv, TypeOK, Delivered, Passes
    <2> QED
      BY <2>1, <2>2, UnderwayIInv DEF Passes
  <1>5. CASE WriteTxt(j)
    <2>1. /\ place[j] = "txt" /\ status' = status /\ draft' = draft /\ md' = md
          /\ place' = [place EXCEPT ![j] = "result"]
          /\ \/ txt' = draft[j].text
             \/ result' = [result EXCEPT ![j] = Failure("failed")]
      BY <1>5 DEF WriteTxt, Fail, Goto, meeting
    <2>2. Delivered(j)'
      BY <2>1, FailType DEF IInv, JInv, TypeOK, Delivered, Passes
    <2> QED
      BY <2>1, <2>2, UnderwayIInv DEF Passes
  <1>r. ASSUME WriteRaises(j), place[j] # "idle",
               status' \in {status, "completed"},
               status' = "completed" => status = "completed" \/ place[j] = "complete",
               UNCHANGED <<report, files, basis>>
        PROVE  IInv'
    <2>1. CASE result[j].status = "completed"
      <3>1. place' = [place EXCEPT ![j] = "result"] /\ result' = [result EXCEPT ![j] = Failure("failed")]
        BY <1>r, <2>1 DEF WriteRaises, Fail, Goto
      <3>2. result'[j].status # "completed"
        BY <3>1, FailType DEF IInv, JInv, TypeOK
      <3> QED
        BY <1>r, <3>1, <3>2, LeavesIInv
    <2>2. CASE result[j].status # "completed"
      BY <1>r, <2>2, LeavesIInv DEF WriteRaises, Escape, Goto
    <2> QED
      BY <2>1, <2>2
  <1>6. CASE SetResult(j)
    <2>0. CASE WriteRaises(j) /\ UNCHANGED <<report, basis>>
      BY <1>6, <1>r, <2>0 DEF SetResult
    <2>a. SUFFICES ASSUME report' = result[j], Goto(j, "complete"),
                          basis' = [wanted |-> wanted[j], facts |-> facts[j], passes |-> draft[j].passes],
                          UNCHANGED <<result, cut>>
                   PROVE  IInv'
      BY <1>6, <2>0 DEF SetResult
    <2>1. /\ place[j] = "result" /\ report' = result[j]
          /\ basis' = [wanted |-> wanted[j], facts |-> facts[j], passes |-> draft[j].passes]
          /\ place' = [place EXCEPT ![j] = "complete"]
          /\ UNCHANGED <<status, md, txt, draft, result>>
      BY <1>6, <2>a DEF SetResult, Goto, files
    <2>2. Alone' /\ \A k \in Jobs : Delivered(k)'
      BY <2>1 DEF IInv, JInv, TypeOK, Alone, Delivered, Passes
    <2>3. ASSUME result[j].status = "completed" PROVE Matches'
      <3>1. Checked(j) /\ Reported(j) /\ md = draft[j].text /\ txt = draft[j].text
        BY <2>1, <2>3 DEF IInv, JInv, Stage, Delivered
      <3>2. /\ result[j].by = draft[j].by /\ result[j].warnings = draft[j].issues
            /\ draft[j].by # "none"
        BY <3>1, NotesAssumption DEF Reported, Checked
      <3> QED
        BY <2>1, <3>1, <3>2 DEF Matches, Checked
    <2>4. result[j].status # "completed" => Matches'
      BY <2>1 DEF Matches
    <2> QED
      BY <2>2, <2>3, <2>4 DEF IInv
  <1>7. CASE Complete(j)
    <2>1. place[j] = "complete" /\ UNCHANGED <<report, files, basis>>
      BY <1>7 DEF Complete
    <2>2. CASE status' = "completed" /\ Goto(j, "idle")
      BY <2>1, <2>2, LeavesIInv DEF Goto
    <2>3. CASE status' \in {status, "completed"} /\ WriteRaises(j)
      BY <1>r, <2>1, <2>3
    <2> QED
      BY <1>7, <2>2, <2>3 DEF Complete
  <1> QED
    BY <1>0, <1>1, <1>2, <1>3, <1>4, <1>5, <1>6, <1>7 DEF JobStep

LEMMA OtherIInv ==
    ASSUME Overlap = FALSE, IInv, JInv',
           (\E j \in Jobs : Start(j)) \/ EditTemplate \/ Crash \/ UNCHANGED vars
    PROVE  IInv'
  <1>1. ASSUME NEW j \in Jobs, Start(j) PROVE IInv'
    <2>1. /\ \A k \in Jobs : place[k] = "idle"
          /\ UNCHANGED <<report, files, basis>>
      BY <1>1 DEF Start
    <2>2. CASE status' = "generating_notes" /\ Goto(j, "head")
      <3>1. place' = [place EXCEPT ![j] = "head"]
        BY <2>2 DEF Goto
      <3>2. Alone' /\ Matches' /\ \A k \in Jobs : Delivered(k)'
        BY <2>1, <2>2, <3>1 DEF IInv, JInv, TypeOK, Alone, Matches, Delivered, Passes
      <3> QED
        BY <3>2 DEF IInv
    <2>3. CASE UNCHANGED status /\ Escape(j)
      <3>1. \A k \in Jobs : place'[k] = "idle"
        BY <2>1, <2>3 DEF Escape, Goto, IInv, JInv, TypeOK
      <3>2. Alone' /\ Matches' /\ \A k \in Jobs : Delivered(k)'
        BY <2>1, <2>3, <3>1 DEF IInv, Alone, Matches, Delivered, Passes, files
      <3> QED
        BY <3>2 DEF IInv
    <2> QED
      BY <1>1, <2>2, <2>3 DEF Start
  <1>2. CASE EditTemplate
    BY <1>2 DEF EditTemplate, meeting, files, job, history, IInv, Alone, Delivered, Matches
  <1>3. CASE Crash
    <2>1. UNCHANGED <<status, report, basis>> /\ \A k \in Jobs : place'[k] = "idle"
      BY <1>3 DEF Crash, meeting
    <2>2. Alone' /\ \A k \in Jobs : Delivered(k)'
      BY <2>1 DEF Alone, Delivered, Passes
    <2>3. ASSUME status = "completed" PROVE UNCHANGED files
      <3>1. \A k \in Jobs : place[k] \notin {"md", "txt"}
        BY <2>3 DEF IInv, Delivered, Passes
      <3> QED
        BY <1>3, <3>1 DEF Crash, files
    <2>4. Matches'
      BY <2>1, <2>3 DEF IInv, Matches, files
    <2> QED
      BY <2>2, <2>4 DEF IInv
  <1>4. CASE UNCHANGED vars
    BY <1>4 DEF vars, meeting, files, job, history, IInv, Alone, Delivered, Matches
  <1> QED
    BY <1>1, <1>2, <1>3, <1>4

LEMMA NextIInv ==
    ASSUME Overlap = FALSE
    PROVE  IInv /\ [Next]_vars => IInv'
  <1> SUFFICES ASSUME IInv, [Next]_vars PROVE IInv'
    OBVIOUS
  <1>1. JInv'
    BY NextJInv DEF IInv
  <1> QED
    BY <1>1, JobIInv, OtherIInv DEF Next

-----------------------------------------------------------------------------
(* Theorems                                                                 *)

\* Types and stages, for any number of jobs, whether they overlap or not.
THEOREM Invariance == Spec => []JInv
  <1>1. Init => JInv
    BY InitIInv DEF IInv
  <1> QED
    BY <1>1, NextJInv, PTL DEF Spec

\* Types, for any sections, entities, providers and jobs.
THEOREM TypeCorrect == Spec => []TypeOK
  <1>1. JInv => TypeOK
    BY DEF JInv
  <1> QED
    BY Invariance, <1>1, PTL

\* "Whatever still fails" (checks.py:7) failed twice: a report with a hard flaw
\* comes out of the rewrite pass, even with two jobs at once.
THEOREM FlawsAreRewritten == Spec => []FlawsWereRewritten
  <1>1. JInv => FlawsWereRewritten
    BY DEF JInv
  <1> QED
    BY Invariance, <1>1, PTL

\* What any of the passes, the checks and the two files raise is caught
\* (ai_pipeline.py:52-97): unless a crash, the head of the run or the write of
\* a report cut the last run off, it left a report and the status "completed".
\* Any number of jobs, overlapping or not; what the head and the writes raise
\* is in the model and does leave a meeting without a report (NotesSettle).
THEOREM NobodyStranded == Spec => []NotStranded
  <1>1. JInv => NotStranded
    BY DEF JInv, Settled, Rested, NotStranded, Settles
  <1> QED
    BY Invariance, <1>1, PTL

\* With one job at a time the report is about the files: both whole, both the
\* draft that the checks saw, whatever earlier runs left of them.
THEOREM ReportIsTrue == ASSUME Overlap = FALSE PROVE Spec => []NotesMatchReport
  <1>1. IInv => NotesMatchReport
    BY DEF IInv, Matches, NotesMatchReport
  <1> QED
    BY InitIInv, NextIInv, <1>1, PTL DEF Spec

-----------------------------------------------------------------------------
(* AIRouter: whom complete() asks, and whom it gives up.                    *)

\* complete() has chosen before it calls, and only what has a key.
Chosen ==
    /\ at = "gemini" => active = {}
    /\ at = "groq" => active \subseteq {"gemini"}
    /\ at = "call" => active # {}
    /\ active \subseteq configured

RouterTypes == RouterTypeOK /\ Chosen

\* One refresh at a time, and what it has seen is so or known to have changed.
OneRefresh ==
    \A r, s \in Refreshers : refresh[r] # "idle" /\ refresh[s] # "idle" => r = s

Refreshed ==
    \A r \in Refreshers : refresh[r] \in {"probe", "store"} =>
        /\ known[on[r]] = "checking"
        /\ r \in outdated => on[r] \notin confirmed
        /\ refresh[r] = "store" /\ r \notin outdated => verdict[r] \in Verdicts(on[r], health[on[r]])

\* A trusted provider stays usable and is not given up.
Usable ==
    /\ \A p \in steady : health[p] = "up"
    /\ \A p \in trusted :
         /\ known[p] \in {"unknown", "configured", "checking"}
         /\ \A r \in Refreshers : refresh[r] = "store" /\ on[r] = p => verdict[r] = "configured"

Kept ==
    \A p \in trusted :
        /\ at = "groq" /\ p = "gemini" => p \in active
        /\ at = "call" => p \in active
        /\ at # "failed"

RefreshInv == OneRefresh /\ Refreshed /\ CheckSticks
RouterInv == RouterTypes /\ RefreshInv /\ Usable /\ Kept

-----------------------------------------------------------------------------

LEMMA InitRouter ==
  RouterInit => RouterInv
  BY RouterAssumption DEF RouterInit, RouterInv, RouterTypes, RouterTypeOK, Chosen,
     RefreshInv, OneRefresh,
     Refreshed, CheckSticks, Usable, Kept, TextProviders, Health,
     Statuses

\* The types, and the order of the providers, need nothing else.
LEMMA StepRouter ==
  RouterTypes /\ [RouterNext]_routerVars => RouterTypes'
<1> USE RouterAssumption DEF RouterTypes
<1> SUFFICES ASSUME RouterTypes, [RouterNext]_routerVars PROVE RouterTypes'
  OBVIOUS
<1>1. ASSUME NEW r \in Refreshers, Recheck(r) PROVE RouterTypes'
  BY <1>1 DEF Recheck, Tally, RouterTypeOK, Chosen, request, TextProviders
<1>2. ASSUME NEW r \in Refreshers, Mark(r) PROVE RouterTypes'
  BY <1>2 DEF Mark, RouterTypeOK, Chosen, request, Statuses
<1>3. ASSUME NEW r \in Refreshers, Probe(r) PROVE RouterTypes'
  BY <1>3 DEF Probe, Verdicts, RouterTypeOK, Chosen, request,
     Statuses, Health, TextProviders
<1>4. ASSUME NEW r \in Refreshers, Store(r) PROVE RouterTypes'
  BY <1>4 DEF Store, RouterTypeOK, Chosen, request, TextProviders
<1>5. CASE Request
  <2>1. steady' \subseteq configured' /\ trusted' \subseteq steady'
    BY <1>5 DEF Request
  <2> QED
    BY <1>5, <2>1 DEF Request, Tally, RouterTypeOK, Chosen,
       beliefs, refreshing, TextProviders
<1>6. ASSUME NEW p \in TextProviders, LookAt(p) PROVE RouterTypes'
  BY <1>6 DEF LookAt, IsUsable, RouterTypeOK, Chosen, beliefs, refreshing, TextProviders
<1>7. CASE Call
  <2>1. /\ active' \in {active, active \ {First}} /\ at' \in {"call", "served", "failed", "raised"}
        /\ at' = "call" => active' # {}
        /\ attempt' \in 0 .. MaxRetries
    BY <1>7 DEF Call, RouterTypeOK, Chosen
  <2>2. UNCHANGED <<configured, health, beliefs, steady, trusted, tallies>>
    BY <1>7 DEF Call
  <2> QED
    BY <2>1, <2>2 DEF RouterTypeOK, Chosen, beliefs, refreshing
<1>8. ASSUME NEW p \in TextProviders, ServiceChanges(p) PROVE RouterTypes'
  BY <1>8 DEF ServiceChanges, Tally, RouterTypeOK, Chosen
<1>9. CASE UNCHANGED routerVars
  BY <1>9 DEF routerVars, beliefs, refreshing, request, RouterTypeOK, Chosen
<1> QED
  BY <1>1, <1>2, <1>3, <1>4, <1>5, <1>6, <1>7, <1>8, <1>9 DEF RouterNext,
     RefreshStep, RequestStep

\* A verdict that is stored is the service's, or its provider is not confirmed.
LEMMA StepRefresh ==
  ASSUME ~OverlapRefresh
  PROVE  RouterTypes /\ RefreshInv /\ [RouterNext]_routerVars => RefreshInv'
<1> SUFFICES ASSUME RouterTypes, RefreshInv, [RouterNext]_routerVars PROVE RefreshInv'
  OBVIOUS
<1> USE RouterAssumption DEF RouterTypes, RefreshInv, RouterTypeOK
<1>1. ASSUME NEW r \in Refreshers, Recheck(r) PROVE RefreshInv'
  BY <1>1 DEF Recheck, OneRefresh, Refreshed, CheckSticks, Verdicts
<1>2. ASSUME NEW r \in Refreshers, Mark(r) PROVE RefreshInv'
  BY <1>2 DEF Mark, OneRefresh, Refreshed, CheckSticks, Verdicts
<1>3. ASSUME NEW r \in Refreshers, Probe(r) PROVE RefreshInv'
  <2>1. PICK v \in Verdicts(on[r], health[on[r]]) :
          verdict' = [verdict EXCEPT ![r] = v]
    BY <1>3 DEF Probe
  <2>2. \A p, h : Verdicts(p, h)' = Verdicts(p, h)
    BY <1>3 DEF Probe, Verdicts
  <2> QED
    BY <1>3, <2>1, <2>2 DEF Probe, OneRefresh, Refreshed, CheckSticks
<1>4. ASSUME NEW r \in Refreshers, Store(r) PROVE RefreshInv'
  <2>1. \A p, h : Verdicts(p, h)' = Verdicts(p, h)
    BY <1>4 DEF Store, Verdicts
  <2>2. \A s \in Refreshers : s # r => refresh[s] = "idle" /\ refresh'[s] = "idle"
    BY <1>4 DEF Store, OneRefresh
  <2>3. refresh'[r] \in {"idle", "mark"}
    BY <1>4 DEF Store
  <2>4. OneRefresh' /\ Refreshed'
    BY <2>2, <2>3 DEF OneRefresh, Refreshed
  <2>5. CheckSticks'
    BY <1>4, <2>1 DEF Store, Refreshed, CheckSticks
  <2> QED
    BY <2>4, <2>5
<1>5. ASSUME NEW p \in TextProviders, ServiceChanges(p) PROVE RefreshInv'
  <2>1. UNCHANGED <<refresh, on, verdict>> /\ outdated' = outdated \cup {s \in Refreshers : on[s] = p}
    BY <1>5 DEF ServiceChanges
  <2>2. \A q, h : Verdicts(q, h)' = Verdicts(q, h)
    BY <1>5 DEF ServiceChanges, Verdicts
  <2>3. confirmed' = confirmed \ {p} /\ known' = known
        /\ \A q \in TextProviders : q # p => health'[q] = health[q]
    BY <1>5 DEF ServiceChanges
  <2>4. OneRefresh'
    BY <2>1 DEF OneRefresh
  <2>5. Refreshed'
    BY <2>1, <2>2, <2>3 DEF Refreshed
  <2>6. CheckSticks'
    BY <2>2, <2>3 DEF CheckSticks
  <2> QED
    BY <2>4, <2>5, <2>6
<1>6. CASE Request \/ RequestStep \/ UNCHANGED routerVars
  <2>1. UNCHANGED <<configured, health, beliefs, refreshing>>
    BY <1>6 DEF Request, RequestStep, LookAt, Call, routerVars, beliefs, refreshing
  <2>2. \A q, h : Verdicts(q, h)' = Verdicts(q, h)
    BY <2>1 DEF Verdicts
  <2> QED
    BY <2>1, <2>2 DEF beliefs, refreshing, OneRefresh, Refreshed, CheckSticks
<1> QED
  BY <1>1, <1>2, <1>3, <1>4, <1>5, <1>6 DEF RouterNext, RefreshStep

\* Nothing that happens during a request makes a trusted provider unusable.
LEMMA StepUsable ==
  ASSUME ~OverlapRefresh
  PROVE  RouterTypes /\ RefreshInv /\ Usable /\ [RouterNext]_routerVars => Usable'
<1> SUFFICES ASSUME RouterTypes, RefreshInv, Usable, [RouterNext]_routerVars PROVE Usable'
  OBVIOUS
<1> USE RouterAssumption DEF RouterTypes, RefreshInv, RouterTypeOK, Usable
<1>0. \A p \in configured : Verdicts(p, "up") = {"configured"}
  BY DEF Verdicts, Statuses
<1>1. ASSUME NEW r \in Refreshers, Recheck(r) PROVE Usable'
  BY <1>1 DEF Recheck, request
<1>2. ASSUME NEW r \in Refreshers, Mark(r) PROVE Usable'
  BY <1>2 DEF Mark, request
<1>3. ASSUME NEW r \in Refreshers, Probe(r) PROVE Usable'
  <2>1. on[r] \in trusted => Verdicts(on[r], health[on[r]]) = {"configured"}
    BY <1>0
  <2> QED
    BY <1>3, <2>1 DEF Probe, request
<1>4. ASSUME NEW r \in Refreshers, Store(r) PROVE Usable'
  BY <1>4 DEF Store, request
<1>5. CASE Request
  <2>1. UNCHANGED <<configured, health, beliefs, refreshing>>
        /\ steady' = {p \in configured : health[p] = "up"}
        /\ trusted' = {p \in configured : health[p] = "up" /\ (p \in confirmed \/ known[p] = "unknown")}
    BY <1>5 DEF Request, beliefs, refreshing
  <2>2. \A p \in trusted' : known[p] \in {"unknown", "configured", "checking"}
    BY <1>0, <2>1 DEF CheckSticks
  <2>3. ASSUME NEW p \in trusted', NEW r \in Refreshers,
               refresh[r] = "store", on[r] = p
        PROVE  verdict[r] = "configured"
    BY <1>0, <2>1, <2>3 DEF Refreshed
  <2> QED
    BY <2>1, <2>2, <2>3 DEF beliefs, refreshing
<1>6. CASE RequestStep \/ UNCHANGED routerVars
  <2>1. UNCHANGED <<health, known, refreshing, steady, trusted>>
    BY <1>6 DEF RequestStep, LookAt, Call, routerVars, beliefs, refreshing, request
  <2> QED
    BY <2>1 DEF refreshing
<1>7. ASSUME NEW p \in TextProviders, ServiceChanges(p) PROVE Usable'
  BY <1>7 DEF ServiceChanges
<1> QED
  BY <1>1, <1>2, <1>3, <1>4, <1>5, <1>6, <1>7 DEF RouterNext, RefreshStep

\* ... and complete() takes it off its list only with a text.
LEMMA StepKept ==
  RouterTypes /\ Usable /\ Kept /\ [RouterNext]_routerVars => Kept'
<1> SUFFICES ASSUME RouterTypes, Usable, Kept, [RouterNext]_routerVars PROVE Kept'
  OBVIOUS
<1> USE DEF RouterTypes, RouterTypeOK, Kept
<1>1. CASE Request
  BY <1>1 DEF Request
<1>2. ASSUME NEW p \in TextProviders, LookAt(p) PROVE Kept'
  <2>1. UNCHANGED trusted /\ \A q \in trusted : IsUsable(q)
    BY <1>2 DEF LookAt, Usable, IsUsable
  <2> QED
    BY <1>2, <2>1 DEF LookAt, TextProviders
<1>3. CASE Call
  <2>1. First \in trusted => Outcomes(health[First]) = {"text"}
    BY DEF Usable, Outcomes
  <2>2. UNCHANGED trusted
        /\ \/ at' \in {"served", "raised"}
           \/ at' = "call" /\ active' = active
           \/ /\ First \notin trusted /\ active' = active \ {First}
              /\ at' = (IF active' = {} THEN "failed" ELSE "call")
    BY <1>3, <2>1 DEF Call
  <2> QED
    BY <1>3, <2>2 DEF Call
<1>4. CASE UNCHANGED <<at, active>> /\ trusted' \subseteq trusted
  BY <1>4
<1>5. ASSUME NEW r \in Refreshers, Recheck(r) \/ RefreshStep(r) PROVE Kept'
  BY <1>4, <1>5 DEF Recheck, RefreshStep, Mark, Probe, Store, request
<1>6. ASSUME NEW p \in TextProviders, ServiceChanges(p) PROVE Kept'
  BY <1>4, <1>6 DEF ServiceChanges
<1>7. CASE UNCHANGED routerVars
  BY <1>4, <1>7 DEF routerVars, request
<1> QED
  BY <1>1, <1>2, <1>3, <1>5, <1>6, <1>7 DEF RouterNext, RequestStep

LEMMA RouterInvariance ==
  ASSUME ~OverlapRefresh
  PROVE  RouterSpec => []RouterInv
<1>1. RouterInit => RouterInv
  BY InitRouter
<1>2. RouterInv /\ [RouterNext]_routerVars => RouterInv'
  BY StepRouter, StepRefresh, StepUsable, StepKept DEF RouterInv
<1> QED
  BY <1>1, <1>2, PTL DEF RouterSpec

-----------------------------------------------------------------------------

\* What the variables of the router range over, with overlapping refreshes too.
THEOREM RouterTypeCorrect ==
  RouterSpec => []RouterTypeOK
<1>1. RouterInit => RouterTypes
  BY InitRouter DEF RouterInv
<1>2. RouterTypes => RouterTypeOK
  BY DEF RouterTypes
<1>3. RouterTypes /\ [RouterNext]_routerVars => RouterTypes'
  BY StepRouter
<1> QED
  BY <1>1, <1>2, <1>3, PTL DEF RouterSpec

\* complete() calls no provider without a key.
THEOREM OnlyWithKeys ==
  RouterSpec => []CallsHaveKeys
<1>1. RouterInit => RouterTypes
  BY InitRouter DEF RouterInv
<1>2. RouterTypes => CallsHaveKeys
  BY DEF RouterTypes, Chosen, CallsHaveKeys
<1>3. RouterTypes /\ [RouterNext]_routerVars => RouterTypes'
  BY StepRouter
<1> QED
  BY <1>1, <1>2, <1>3, PTL DEF RouterSpec

\* Without overlapping refreshes, a provider's status is what its service is
\* from the first check after its last change.
THEOREM ChecksStick ==
  ASSUME ~OverlapRefresh
  PROVE  RouterSpec => []CheckSticks
<1>1. RouterInv => CheckSticks
  BY DEF RouterInv, RefreshInv
<1>2. RouterSpec => []RouterInv
  BY RouterInvariance
<1> QED
  BY <1>1, <1>2, PTL

\* ... and no request fails while a provider that was checked works.
THEOREM NoneWorkingRefused ==
  ASSUME ~OverlapRefresh
  PROVE  RouterSpec => []ServedIfChecked
<1>1. RouterInv => ServedIfChecked
  BY DEF RouterInv, Kept, ServedIfChecked
<1>2. RouterSpec => []RouterInv
  BY RouterInvariance
<1> QED
  BY <1>1, <1>2, PTL
=============================================================================
