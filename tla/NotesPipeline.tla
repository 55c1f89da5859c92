---------------------------- MODULE NotesPipeline ----------------------------
(***************************************************************************)
(* From a recorded meeting to its notes: engine/ai_pipeline.py, the passes *)
(* of intelligence/analysis/service.py, the checks of                      *)
(* intelligence/validation/checks.py, the template the notes have to       *)
(* follow and the two files of export/.  One meeting; its pipeline runs    *)
(* when the meeting stops and again at every "Retry Analysis".             *)
(*                                                                         *)
(* What a provider answers is any text; AIRouter says whether one answers. *)
(* A text is what the checks see of it: the headings it has, the names and *)
(* dates it keeps, and the flaws of its wording.                           *)
(***************************************************************************)
EXTENDS Naturals

CONSTANTS
    Jobs,        \* the threads that may run run_ai_pipeline() for the meeting
    Providers,   \* the providers that may answer
    Sections,    \* the headings that a template may ask for
    Entities,    \* owners and deadlines that the analysis may find
    Overlap,     \* TRUE: a job may start while another one runs
    MaxRuns,     \* bound on runs of the pipeline
    MaxEdits,    \* bound on templates saved and deleted
    MaxCrashes   \* bound on crashes

ASSUME NotesAssumption ==
    /\ "array" \notin Entities /\ "none" \notin Providers
    /\ Overlap \in BOOLEAN
    /\ MaxRuns \in Nat /\ MaxEdits \in Nat /\ MaxCrashes \in Nat

VARIABLES
    transcript,  \* transcript.txt: "text" or "empty"
    template,    \* the sections of the template that the meeting's template_id finds
    status,      \* the meeting's status
    report,      \* notes_status, ai_provider_used and validation_warnings
    md, txt,     \* notes.md and notes.txt
    place,       \* where each job is ...
    wanted,      \* ... the sections it was started with ...
    facts,       \* ... its analysis ...
    draft,       \* ... its notes, who wrote them and their issues ...
    result,      \* ... and what it is going to report
    basis,       \* history: sections, analysis and number of passes behind the report
    cut,         \* history: what has cut the last run off, if anything
    counts       \* runs, edits and crashes so far

meeting == <<status, report>>
files == <<md, txt>>
job == <<place, wanted, facts, draft, result>>
history == <<basis, cut>>
vars == <<transcript, template, meeting, files, job, history, counts>>

\* emoji stands for the hard flaws of wording (em_dash, filler_phrase), verbose
\* for the soft ones (action_items_missing).
Flaws == {"emoji", "verbose"}
Codes == Flaws \cup {"missing_sections", "entities_dropped"}

Text == [has : SUBSET Sections, keeps : SUBSET Entities, flaws : SUBSET Flaws]
NoText == [has |-> {}, keeps |-> {}, flaws |-> {"absent"}]
Torn == [has |-> {}, keeps |-> {}, flaws |-> {"torn"}]  \* its writing was cut short
NotADict == {"array"}  \* JSON, but not an object

NotesStatus == {"not_started", "pending", "failed", "completed"}
Report == [status : NotesStatus, by : Providers \cup {"none"}, warnings : SUBSET Codes]
Failure(s) == [status |-> s, by |-> "none", warnings |-> {}]  \* its reason is left out

\* The places of a job: the head of run_ai_pipeline(), the passes and files of
\* its "try", the writes that report them or a failure.
Passes == {"analysis", "notes", "rewrite", "md", "txt"}
Running == {"head", "result", "complete"} \cup Passes

Found == {NotADict} \cup SUBSET Entities
Draft == [text : Text \cup {NoText}, by : Providers \cup {"none"},
          issues : SUBSET Codes, passes : 0 .. 2]

TypeOK ==
    /\ transcript \in {"text", "empty"} /\ template \in SUBSET Sections
    /\ status \in {"generating_notes", "completed"}
    /\ report \in Report
    /\ md \in Text \cup {NoText, Torn} /\ txt \in Text \cup {NoText, Torn}
    /\ place \in [Jobs -> Running \cup {"idle"}]
    /\ wanted \in [Jobs -> SUBSET Sections]
    /\ facts \in [Jobs -> Found]
    /\ draft \in [Jobs -> Draft]
    /\ result \in [Jobs -> Report]
    /\ basis \in [wanted : SUBSET Sections, facts : Found, passes : 0 .. 2]
    /\ cut \in Running \cup {"no", "crash", "idle"}
    /\ counts \in [{"runs", "edits", "crashes"} -> Nat]

NoDraft == [text |-> NoText, by |-> "none", issues |-> {}, passes |-> 0]

Init ==
    /\ transcript \in {"text", "empty"} /\ template \in SUBSET Sections
    /\ status = "generating_notes" /\ report = Failure("not_started")
    /\ md = NoText /\ txt = NoText
    /\ place = [j \in Jobs |-> "idle"] /\ wanted = [j \in Jobs |-> {}]
    /\ facts = [j \in Jobs |-> {}] /\ draft = [j \in Jobs |-> NoDraft]
    /\ result = [j \in Jobs |-> Failure("not_started")]
    /\ basis = [wanted |-> {}, facts |-> {}, passes |-> 0] /\ cut = "no"
    /\ counts = [c \in {"runs", "edits", "crashes"} |-> 0]

Count(c, max) == counts[c] < max /\ counts' = [counts EXCEPT ![c] = @ + 1]

Goto(j, p) == place' = [place EXCEPT ![j] = p]

-----------------------------------------------------------------------------
(* checks.py                                                                *)

\* run_checks()
RunChecks(text, sections, found) ==
    text.flaws
      \cup (IF sections \subseteq text.has THEN {} ELSE {"missing_sections"})
      \cup (IF found \subseteq text.keeps THEN {} ELSE {"entities_dropped"})

\* Mutant: all(...) for any(...).
HasHardIssues_All(issues) == issues # {} /\ "verbose" \notin issues

\* has_hard_issues()
HasHardIssues(issues) == issues \ {"verbose"} # {}

-----------------------------------------------------------------------------
(* run_ai_pipeline()                                                        *)

\* An exception that nothing in run_ai_pipeline() catches ends the job.
Escape(j) == Goto(j, "idle") /\ cut' = place[j]

\* A job starts and marks the meeting as being worked on, unless the row, the
\* metadata or the write of the status raises.
Start(j) ==
    /\ place[j] = "idle"
    /\ Overlap \/ \A k \in Jobs : place[k] = "idle"
    /\ Count("runs", MaxRuns)
    /\ \/ status' = "generating_notes" /\ Goto(j, "head") /\ cut' = "no"
       \/ UNCHANGED status /\ Escape(j)
    /\ wanted' = [wanted EXCEPT ![j] = {}]
    /\ facts' = [facts EXCEPT ![j] = {}] /\ draft' = [draft EXCEPT ![j] = NoDraft]
    /\ result' = [result EXCEPT ![j] = Failure("failed")]
    /\ UNCHANGED <<transcript, template, report, files, basis>>

\* The index row, the template and the transcript, each of which may raise.
Head(j) ==
    /\ place[j] = "head"
    /\ \/ /\ wanted' = [wanted EXCEPT ![j] = template]
          /\ Goto(j, IF transcript = "empty" THEN "result" ELSE "analysis")
          /\ UNCHANGED cut
       \/ Escape(j) /\ UNCHANGED wanted
    /\ UNCHANGED <<transcript, template, meeting, files, facts, draft, result, basis, counts>>

\* NotesGenerationFailed, and the final "except Exception".
Fail(j, s) ==
    /\ Goto(j, "result")
    /\ result' = [result EXCEPT ![j] = Failure(s)]

\* A write of the report or of the status has raised: the "try" around a
\* report of success has a handler, the handlers and the head have none.
WriteRaises(j) ==
    IF result[j].status = "completed"
    THEN Fail(j, "failed") /\ UNCHANGED cut
    ELSE Escape(j) /\ UNCHANGED result

\* A pass that gets no text: every provider failed (or the text is no JSON), or
\* something else was raised.
PassFails(j) == \E s \in {"pending", "failed"} : Fail(j, s)

\* The analysis pass: no text, no dict, or what was found.
Analyse(j) ==
    /\ place[j] = "analysis"
    /\ \/ PassFails(j) /\ UNCHANGED facts
       \/ /\ \E found \in Found : facts' = [facts EXCEPT ![j] = found]
          /\ Goto(j, "notes")
          /\ UNCHANGED result
    /\ UNCHANGED <<transcript, template, meeting, files, wanted, draft, history, counts>>

\* A text and its issues; an analysis that is no dict has no checks.
Write(j, text, by) ==
    draft' = [draft EXCEPT ![j] = [text |-> text, by |-> by, passes |-> @.passes + 1,
                                   issues |-> RunChecks(text, wanted[j], facts[j])]]

\* Mutant: an analysis that is no dict ends the thread.
WriteNotes_Unhandled(j) ==
    /\ place[j] = "notes"
    /\ \/ PassFails(j) /\ UNCHANGED <<draft, cut>>
       \/ \E text \in Text, by \in Providers :
            /\ Write(j, text, by)
            /\ IF facts[j] = NotADict THEN Escape(j) /\ UNCHANGED result
               ELSE /\ Goto(j, IF HasHardIssues(draft'[j].issues) THEN "rewrite" ELSE "md")
                    /\ UNCHANGED <<result, cut>>
    /\ UNCHANGED <<transcript, template, meeting, files, wanted, facts, basis, counts>>

\* The notes pass and its checks, which raise if the analysis is no dict.
WriteNotes(j) ==
    /\ place[j] = "notes"
    /\ \/ PassFails(j) /\ UNCHANGED draft
       \/ \E text \in Text, by \in Providers :
            /\ Write(j, text, by)
            /\ IF facts[j] = NotADict THEN Fail(j, "failed")
               ELSE /\ Goto(j, IF HasHardIssues(draft'[j].issues) THEN "rewrite" ELSE "md")
                    /\ UNCHANGED result
    /\ UNCHANGED <<transcript, template, meeting, files, wanted, facts, history, counts>>

\* Mutant: the issues of the first draft are reported for the second.
Rewrite_StaleIssues(j) ==
    /\ place[j] = "rewrite"
    /\ \E text \in Text, by \in Providers :
         draft' = [draft EXCEPT ![j].text = text, ![j].by = by, ![j].passes = 2]
    /\ Goto(j, "md")
    /\ UNCHANGED <<transcript, template, meeting, files, wanted, facts, result, history, counts>>

\* The rewrite pass; if every provider fails the draft is kept.
Rewrite(j) ==
    /\ place[j] = "rewrite"
    /\ \/ /\ \/ \E text \in Text, by \in Providers : Write(j, text, by)
             \/ draft' = [draft EXCEPT ![j].passes = 2]
          /\ Goto(j, "md") /\ UNCHANGED result
       \/ Fail(j, "failed") /\ UNCHANGED draft
    /\ UNCHANGED <<transcript, template, meeting, files, wanted, facts, history, counts>>

\* write_markdown(); a write that fails may have emptied the file.
WriteMarkdown(j) ==
    /\ place[j] = "md"
    /\ \/ md' = draft[j].text /\ Goto(j, "txt") /\ UNCHANGED result
       \/ md' \in {md, Torn} /\ Fail(j, "failed")
    /\ UNCHANGED <<transcript, template, meeting, txt, wanted, facts, draft, history, counts>>

\* write_notes_txt(): the same text without the marks of its headings.
WriteTxt(j) ==
    /\ place[j] = "txt"
    /\ \/ /\ txt' = draft[j].text
          /\ Goto(j, "result")
          /\ result' = [result EXCEPT ![j] =
                          [status |-> "completed", by |-> draft[j].by, warnings |-> draft[j].issues]]
       \/ txt' \in {txt, Torn} /\ Fail(j, "failed")
    /\ UNCHANGED <<transcript, template, meeting, md, wanted, facts, draft, history, counts>>

\* set_notes_result()
SetResult(j) ==
    /\ place[j] = "result"
    /\ \/ /\ report' = result[j]
          /\ basis' = [wanted |-> wanted[j], facts |-> facts[j], passes |-> draft[j].passes]
          /\ Goto(j, "complete")
          /\ UNCHANGED <<result, cut>>
       \/ WriteRaises(j) /\ UNCHANGED <<report, basis>>
    /\ UNCHANGED <<transcript, template, status, files, wanted, facts, draft, counts>>

\* set_status("completed"), the index row and the event; either write may raise.
Complete(j) ==
    /\ place[j] = "complete"
    /\ \/ status' = "completed" /\ Goto(j, "idle") /\ UNCHANGED <<result, cut>>
       \/ status' \in {status, "completed"} /\ WriteRaises(j)
    /\ UNCHANGED <<transcript, template, report, files, wanted, facts, draft, basis, counts>>

-----------------------------------------------------------------------------
(* Around it                                                                *)

\* save_template() and delete_template(), after which get_template() falls back
\* to the built-in of the same id or to "standard".
EditTemplate ==
    /\ Count("edits", MaxEdits)
    /\ template' \in SUBSET Sections \ {template}
    /\ UNCHANGED <<transcript, meeting, files, job, history>>

\* The engine dies; a file that was being written may be cut short.
Crash ==
    /\ \E j \in Jobs : place[j] # "idle"
    /\ Count("crashes", MaxCrashes)
    /\ md' \in {md} \cup {Torn : j \in {k \in Jobs : place[k] = "md"}}
    /\ txt' \in {txt} \cup {Torn : j \in {k \in Jobs : place[k] = "txt"}}
    /\ place' = [j \in Jobs |-> "idle"]
    /\ cut' = "crash"
    /\ UNCHANGED <<transcript, template, meeting, wanted, facts, draft, result, basis>>

JobStep(j) ==
    \/ Head(j) \/ Analyse(j) \/ WriteNotes(j) \/ Rewrite(j)
    \/ WriteMarkdown(j) \/ WriteTxt(j) \/ SetResult(j) \/ Complete(j)

Next ==
    \/ \E j \in Jobs : Start(j) \/ JobStep(j)
    \/ EditTemplate \/ Crash

Spec == Init /\ [][Next]_vars

-----------------------------------------------------------------------------
(* Properties                                                               *)

\* The notes of a meeting reported as done are whole, the same in both files,
\* and their warnings are what the checks say of them for the template and the
\* analysis they were made with, whatever failed or crashed in earlier runs
\* ("whatever still fails after that is reported to the user, never silently
\* swallowed", checks.py:7).
NotesMatchReport ==
    status = "completed" /\ report.status = "completed" =>
        /\ md \in Text /\ txt = md
        /\ report.by # "none"
        /\ report.warnings = RunChecks(md, basis.wanted, basis.facts)

\* Notes with a hard flaw are kept only after the rewrite pass was tried.
FlawsWereRewritten ==
    report.status = "completed" /\ report.warnings \ {"verbose"} # {} => basis.passes = 2

Rested == counts["runs"] > 0 /\ \A j \in Jobs : place[j] = "idle"
Settles == status = "completed" /\ report.status # "not_started"

\* Whatever the passes, the checks or the two files raise, the run goes on to
\* leave a report and the status "completed": only a crash, the statements in
\* front of the "try" and the writes that report a failure can cut it off.
NotStranded == Rested /\ cut \in Passes \cup {"no"} => Settles

\* What the final handler is for: "Anything else [...] must still leave the
\* meeting in a well-defined, retryable state" (ai_pipeline.py:85-87), so that
\* the desktop never waits for notes for ever.  The head and the handlers' own
\* writes are not covered.
NotesSettle == Rested /\ cut # "crash" => Settles
=============================================================================
