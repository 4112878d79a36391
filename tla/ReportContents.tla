--------------------------- MODULE ReportContents ---------------------------
(***************************************************************************)
(* What the reports of a run say (adapters/driven/reporting): the terminal *)
(* report, the JUnit file, the JSON artifact, and the HTML page, made of   *)
(* the run or later of the artifact by `dryfire report`; as operators on   *)
(* what the Scheduler published.  Tokens, costs, durations and the text of *)
(* the turns are left out.                                                 *)
(***************************************************************************)
EXTENDS RunOutcome

(* A termination that is shown is told from the absence of one.            *)
ASSUME RemarkAssumption == None \notin Terminations

Repeated(c) == Repeat[c] > 1

(* pass_rate as the reports show it, k of N; absent unless repeated.       *)
Rate(c) == IF Repeated(c) THEN <<Cardinality(Passing(slots, c)), Repeat[c]>> ELSE <<>>

Mark(passed) == IF passed THEN "pass" ELSE "fail"

(* _repeat_glyph: repetitions that disagree are neither a pass nor a fail. *)
Glyph(c) ==
  IF Repeated(c) /\ Rate(c)[1] \notin {0, Repeat[c]} THEN "flaky"
                                                     ELSE Mark(results[c].passed)

(* The failed assertions a CaseResult carries; a case that raised has none.*)
ShowsFailedAssertion(r) == r.shown.term # "none" /\ r.shown.asserts # "passed"

(* _case_line, and the failure blocks that _suite_block puts under it: a   *)
(* case without a trace shows its error and nothing else.                  *)
CaseLine(c) ==
  LET r == results[c] IN
    [glyph  |-> Glyph(c),
     rate   |-> IF r.shown.term = "none" THEN <<>> ELSE Rate(c),
     remark |-> IF r.shown.term = "end_turn" THEN None ELSE r.shown.term,
     block  |-> ~r.passed /\ ShowsFailedAssertion(r)]

(* _summary_line, the same numbers as at the head of the HTML page.        *)
Summary ==
  LET passed == {c \in Listed : results[c].passed} IN
    [cases |-> Cardinality(Listed), passed |-> Cardinality(passed),
     failed |-> Cardinality(Listed) - Cardinality(passed)]

(* Faulty: asks the listed cases only whether they have a result.          *)
RenderReportOfListed ==
  IF Listed = {} THEN [says |-> "no cases matched"]
  ELSE [says |-> "report", partial |-> \E c \in Listed : results[c] = None,
        summary |-> Summary, lines |-> [c \in Listed |-> CaseLine(c)]]

(* render_report, the terminal report.                                     *)
RenderReport ==
  IF Listed = {} THEN [says |-> "no cases matched"]
  ELSE [says |-> "report", partial |-> ~Complete, summary |-> Summary,
        lines |-> [c \in Listed |-> CaseLine(c)]]

(* render_junit: the counters of a suite, added up over the suites.        *)
CountSuite(acc, cases) ==
  LET Of(kind) == Cardinality({i \in DOMAIN cases : Classify(cases[i]) = kind}) IN
    [tests |-> acc.tests + Len(cases), failures |-> acc.failures + Of("failure"),
     errors |-> acc.errors + Of("error")]

RenderJUnit == FoldLeft(CountSuite, [tests |-> 0, failures |-> 0, errors |-> 0], Group)

(* _case_html of a CaseResult with the given repetitions.                  *)
CaseHtml(r, rate) ==
  [glyph |-> Mark(r.passed), open |-> ~r.passed, rate |-> rate,
   error |-> r.shown.term = "none", bad |-> ShowsFailedAssertion(r),
   termination |-> r.shown.term]

RenderHtml ==
  [partial |-> ~Complete, summary |-> Summary,
   cases |-> [c \in Listed |-> CaseHtml(results[c], Rate(c))]]

(* build_document: the artifact has all there is to a case.                *)
CaseDict(c) ==
  [passed |-> results[c].passed, error |-> results[c].shown.term = "none",
   shown |-> results[c].shown, repetitions |-> Rate(c)]

Document == [complete |-> Complete, cases |-> [c \in Listed |-> CaseDict(c)]]

(* _case_from: the repetitions are not read back.                          *)
CaseFrom(d) == [passed |-> d.passed, shown |-> d.shown]

(* `dryfire report`: the page is rendered anew from the artifact.          *)
RenderLater(doc) ==
  [partial |-> ~doc.complete,
   cases |-> [c \in DOMAIN doc.cases |-> CaseHtml(CaseFrom(doc.cases[c]), <<>>)]]

-----------------------------------------------------------------------------

(* A line that says nothing but that the case passed.                      *)
Clean(line) ==
  /\ line.glyph = "pass" /\ line.remark = None
  /\ line.rate = <<>> \/ line.rate[1] = line.rate[2]

(* The reports are written from one run by four pieces of code that look   *)
(* at different fields of a result, of which only one repetition is shown. *)
(* They agree: a failed case is red in each and each says why; what JUnit  *)
(* does not count as passed is no clean line in the terminal; a page made  *)
(* later from the artifact differs only in the rates it has lost.          *)
ReportsAgree ==
  returned /\ Listed # {} =>
    /\ \A c \in Listed :
         LET line == RenderReport.lines[c]
             html == RenderHtml.cases[c]
         IN  /\ ~results[c].passed =>
                  /\ line.glyph # "pass" /\ (line.block \/ line.remark # None)
                  /\ html.glyph = "fail" /\ (html.bad \/ html.error)
                  /\ Classify(c) # "pass"
             /\ Classify(c) = "failure" => line.block
             /\ Classify(c) # "pass" => ~Clean(line)
             /\ RenderLater(Document).cases[c] = [html EXCEPT !.rate = <<>>]
    /\ ExitCode # 0 =>
         \E c \in Listed : ~Clean(RenderReport.lines[c]) /\ Classify(c) # "pass"
    /\ RenderReport.summary.cases = RenderJUnit.tests
    /\ RenderReport.summary.failed <= RenderJUnit.failures + RenderJUnit.errors

(* A partial run is never presented as a full one (scheduler.py, the       *)
(* docstrings of RunResult and run_suites).  When a planned case has no    *)
(* result the terminal, the page and a page made later from the artifact   *)
(* say so; JUnit has no way to, so it counts a failure, as does the exit   *)
(* code: a stopped run is never green.  A full run is not called partial.  *)
(* (A run of no cases is neither: its report says "no cases matched".)     *)
PartialRunIsNeverGreen ==
  returned /\ Cases # {} /\ Escapes = {} /\ Concurrency > 0 =>
    LET partial == \E c \in Cases : results[c] = None IN
      /\ RenderReport.says = "report"
      /\ RenderReport.partial = partial
      /\ RenderHtml.partial = partial
      /\ RenderLater(Document).partial = partial
      /\ partial => /\ RenderJUnit.failures + RenderJUnit.errors > 0
                    /\ RenderReport.summary.failed > 0
                    /\ ExitCode # 0

=============================================================================
