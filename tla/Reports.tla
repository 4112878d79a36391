------------------------------ MODULE Reports ------------------------------
(***************************************************************************)
(* How `dryfire run` reports once the pool has returned (composition.py,   *)
(* _report and the end of run): a report on stdout, then the JSON artifact *)
(* and the JUnit file, each rendered in memory, written beside its target  *)
(* and renamed over it, then the exit code.  Any of these steps may raise, *)
(* and the process may be killed between two of them.                      *)
(***************************************************************************)
EXTENDS ReportContents

CONSTANT Targets  \* the file sinks asked for: a subset of {"json", "junit"}

ASSUME ReportsAssumption == Targets \subseteq {"json", "junit"}

VARIABLES
  files,    \* what is at the path of a sink: what was there "before" the
            \* command, if anything, or "partial" or "whole" text of this run
  temps,    \* the temporary file of a sink: "none", "partial" or "whole"
  printed,  \* the report is on stdout
  exit      \* the exit code, or None while the command runs

sinks == <<files, temps, printed, exit>>

Killed == 137  \* what a shell makes of SIGKILL

ReportsInit ==
  /\ Init
  /\ files = [t \in Targets |-> "before"]
  /\ temps = [t \in Targets |-> "none"]
  /\ printed = FALSE
  /\ exit = None

-----------------------------------------------------------------------------
(* Writing the reports.                                                    *)

Reporting == returned /\ exit = None

(* The sinks come in this order.                                           *)
Turn(t) ==
  /\ Reporting /\ printed
  /\ t = "junit" /\ "json" \in Targets => files["json"] = "whole"
  /\ files[t] # "whole"

WriteOut ==
  /\ Reporting /\ ~printed
  /\ printed' = TRUE
  /\ UNCHANGED <<files, temps, exit>>

(* Faulty: opens the target itself.                                        *)
BeginFileInPlace(t) ==
  /\ Turn(t) /\ temps[t] = "none"
  /\ temps' = [temps EXCEPT ![t] = "partial"]
  /\ files' = [files EXCEPT ![t] = "partial"]
  /\ UNCHANGED <<printed, exit>>

(* The temporary file is open and part of the text is in it.               *)
BeginFile(t) ==
  /\ Turn(t) /\ temps[t] = "none"
  /\ temps' = [temps EXCEPT ![t] = "partial"]
  /\ UNCHANGED <<files, printed, exit>>

FillFile(t) ==
  /\ Turn(t) /\ temps[t] = "partial"
  /\ temps' = [temps EXCEPT ![t] = "whole"]
  /\ UNCHANGED <<files, printed, exit>>

(* os.replace.                                                             *)
ReplaceFile(t) ==
  /\ Turn(t) /\ temps[t] = "whole"
  /\ files' = [files EXCEPT ![t] = temps[t]]
  /\ temps' = [temps EXCEPT ![t] = "none"]
  /\ UNCHANGED <<printed, exit>>

(* Rendering, opening, writing or renaming raises: the temporary file is   *)
(* removed, if that works, and run ends as an internal error.              *)
SinkFails(t) ==
  /\ Turn(t)
  /\ exit' = 2
  /\ \/ temps' = [temps EXCEPT ![t] = "none"]
     \/ UNCHANGED temps
  /\ UNCHANGED <<files, printed>>

WriteOutFails ==
  /\ Reporting /\ ~printed
  /\ exit' = 2
  /\ UNCHANGED <<files, temps, printed>>

Kill ==
  /\ Reporting
  /\ exit' = Killed
  /\ UNCHANGED <<files, temps, printed>>

(* run returns _exit_code once every report is out.                        *)
Exit ==
  /\ Reporting /\ printed
  /\ \A t \in Targets : files[t] = "whole"
  /\ exit' = ExitCode
  /\ UNCHANGED <<files, temps, printed>>

Report ==
  \/ WriteOut \/ WriteOutFails
  \/ \E t \in Targets : BeginFile(t) \/ FillFile(t) \/ ReplaceFile(t) \/ SinkFails(t)
  \/ Exit

ReportsNext ==
  \/ Next /\ UNCHANGED sinks
  \/ (Report \/ Kill) /\ UNCHANGED vars

(* The pool is as fair as before, and reporting goes on until it ends.     *)
ReportsSpec ==
  /\ ReportsInit
  /\ [][ReportsNext]_<<vars, sinks>>
  /\ WF_vars(Return) /\ \A w \in Workers : WF_vars(Worker(w))
  /\ WF_sinks(Report)

-----------------------------------------------------------------------------

(* A command that ends with the exit code of its run has left every report *)
(* that was asked for, whole, and no temporary file; and whatever raises   *)
(* or kills it, a report file is the former one or the whole new one, and  *)
(* a new JUnit file does not stand beside a former artifact.               *)
ExitCodeMeansReported ==
  /\ exit \notin {None, 2, Killed} =>
       /\ exit = ExitCode /\ printed
       /\ \A t \in Targets : files[t] = "whole" /\ temps[t] = "none"
  /\ \A t \in Targets : files[t] \in {"before", "whole"}
  /\ Targets = {"json", "junit"} /\ files["junit"] = "whole" => files["json"] = "whole"

============================================================================
