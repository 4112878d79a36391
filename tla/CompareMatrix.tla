--------------------------- MODULE CompareMatrix ---------------------------
(***************************************************************************)
(* The matrix `dryfire compare` shows of its columns: in the terminal      *)
(* (reporting/compare_terminal.py), which has room for MaxCols of them,    *)
(* and as an HTML page (html_sink.py, render_compare_html).  Rows are the  *)
(* cases of the first column that ran; a cell is looked up by the name of  *)
(* the case, which cases of different suites may share.                    *)
(***************************************************************************)
EXTENDS RunCommand

CONSTANTS
  CaseName,  \* CaseName[c]: the name of case c, unique within its suite only
  MaxCols    \* _MAX_COLS

ASSUME CompareMatrixAssumption ==
  /\ DOMAIN CaseName = Cases
  /\ MaxCols \in Nat \ {0}
  /\ None \notin Nat \X Nat

-----------------------------------------------------------------------------

(* A column that could not be wired has no run.                            *)
FailedColumn(col) == col.code = 3 /\ col.ran = {}

(* _row_labels, _compare_rows: as cases.                                   *)
Rows ==
  LET ran == {i \in DOMAIN columns : ~FailedColumn(columns[i])} IN
    IF ran = {} THEN {} ELSE columns[Min(ran)].ran

(* Faulty: what is absent did not pass.                                    *)
VerdictOrFail(col, name) ==
  LET named == {c \in col.ran : CaseName[c] = name} IN
    IF named # {} /\ Min(named) \in col.passed THEN "pass" ELSE "fail"

(* _verdict: of the first case of that name.                               *)
Verdict(col, name) ==
  LET named == {c \in col.ran : CaseName[c] = name} IN
    IF named = {} THEN "none"
    ELSE IF Min(named) \in col.passed THEN "pass" ELSE "fail"

(* A row is marked when the columns that have a verdict disagree.          *)
Row(cols, c) ==
  LET cells == [i \in DOMAIN cols |-> Verdict(cols[i], CaseName[c])] IN
    [cells |-> cells, marked |-> {"pass", "fail"} \subseteq {cells[i] : i \in DOMAIN cols}]

(* column_metrics and _rate: passed out of run, exactly; what is shown is  *)
(* this as a whole percentage, and 0 % for a column without cases.  A      *)
(* column that failed has no metrics.                                      *)
Rate(col) ==
  IF FailedColumn(col) THEN None ELSE <<Cardinality(col.passed), Cardinality(col.ran)>>

Matrix(cols) ==
  [rows    |-> [c \in Rows |-> Row(cols, c)],
   rates   |-> [i \in DOMAIN cols |-> Rate(cols[i])],
   dropped |-> Len(columns) - Len(cols)]

(* render_compare_html.                                                    *)
Page == Matrix(columns)

(* render_compare.                                                         *)
Terminal == Matrix(SubSeq(columns, 1, Min({MaxCols, Len(columns)})))

-----------------------------------------------------------------------------

Unique(c) == \A d \in Cases \ {c} : CaseName[d] # CaseName[c]

(* The two matrices are looked up again by name from columns of which some *)
(* failed, and show what the columns found ("the disagreement is obvious", *)
(* compare_terminal.py): a case that passed under one label and failed     *)
(* under another has its row marked and no other has, unless another case  *)
(* has its name; the terminal misses one only where it says that columns   *)
(* are dropped; exit code 1 is a failed cell or, for twins, a pass rate    *)
(* below all, and exit code 0 a page without either (the rate as it is     *)
(* before rounding).                                                       *)
MatrixShowsDisagreement ==
  cmd.kind = "compare" /\ phase = "ended" /\ columns # <<>> =>
    /\ \A c \in Rows : Unique(c) =>
         LET disagreed ==
               /\ \E i \in DOMAIN columns : c \in columns[i].passed
               /\ \E i \in DOMAIN columns : c \in columns[i].ran \ columns[i].passed
         IN  /\ Page.rows[c].marked = disagreed
             /\ Terminal.rows[c].marked => disagreed
             /\ disagreed => Terminal.rows[c].marked \/ Terminal.dropped > 0
    /\ LET failing == \E c \in Rows, i \in DOMAIN columns :
                         Page.rows[c].cells[i] = "fail"
           below == \E i \in DOMAIN columns :
                       Page.rates[i] = None \/ Page.rates[i][1] # Page.rates[i][2]
           hidden == \E i \in DOMAIN columns : \E c \in columns[i].ran \ columns[i].passed,
                        d \in columns[i].passed : d < c /\ CaseName[d] = CaseName[c]
       IN  /\ exit = 1 => below /\ (failing \/ hidden)
           /\ exit = 0 => ~failing /\ ~below

============================================================================
