------------------------------ MODULE Planning ------------------------------
(***************************************************************************)
(* From loaded suites to the cases of a run: which files the arguments or  *)
(* dryfire.yaml name (_glob_cli_paths and glob_suites), which of their     *)
(* cases --tag and --filter leave (_plan), and what each setting of such a *)
(* case is (config.py, resolve).  One setting stands for all; a setting    *)
(* that a place cannot give, as `provider` in a case, is absent there.     *)
(***************************************************************************)
EXTENDS SpecLoading, SequencesExt

CONSTANTS
  CasesOf,      \* CasesOf[f]: the cases of file f, in order: [name, says],
                \* the setting in the case, or None
  TagsOf,       \* TagsOf[f]: the tags of its suite
  SuiteSays,    \* SuiteSays[f]: the setting in the suite
  ProjectSays,  \* the setting in `defaults:` of dryfire.yaml
  Builtin,      \* the built-in value
  Scriptless,   \* <<f, n>>: the nth case of file f is for `fake` and has no
                \* script
  Requests      \* the commands: [patterns, onCli, tags, filter, override]
                \* where a pattern is told by the files that it matches, and a
                \* filter by the names that contain it (None: no filter)

ASSUME PlanningAssumption ==
  /\ Builtin # None
  /\ \A req \in Requests : req.patterns \in Seq(SUBSET Files)
  /\ \A f \in Files : CasesOf[f] \in Seq(ToSet(CasesOf[f]))

VARIABLES
  request,  \* the command, or None
  plan      \* the planned suites, a sequence of sequences of
            \* [file, at, value]: the case at which place of which file

PlanningInit ==
  /\ Init
  /\ request = None
  /\ plan = <<>>

-----------------------------------------------------------------------------

(* A set of pairs of numbers in their order.                               *)
Before(p, q) == p[1] < q[1] \/ (p[1] = q[1] /\ p[2] < q[2])

InOrder(S) ==
  [k \in 1 .. Cardinality(S) |->
     CHOOSE p \in S : Cardinality({q \in S : Before(q, p)}) = k - 1]

(* The files that are loaded, each as <<i, f>>: by path, and those of      *)
(* dryfire.yaml pattern by pattern.  One that is named on the command line *)
(* is taken once; one that two patterns of dryfire.yaml match, twice.      *)
SuitePaths(req) ==
  IF req.onCli THEN {1} \X UNION ToSet(req.patterns)
  ELSE UNION {{i} \X req.patterns[i] : i \in DOMAIN req.patterns}

(* Faulty: a chain of `or`, to which 0 is nothing said.                    *)
PickTrue(values) == values[Min({k \in DOMAIN values : values[k] \notin {None, 0}})]

(* _pick: the first that is not None.                                      *)
Pick(values) == values[Min({k \in DOMAIN values : values[k] # None})]

Resolve(req, f, n) ==
  Pick(<<req.override, CasesOf[f][n].says, SuiteSays[f], ProjectSays, Builtin>>)

Filtered(req, f) ==
  {n \in DOMAIN CasesOf[f] : req.filter = None \/ CasesOf[f][n].name \in req.filter}

PlanSuite(req, f) ==
  IF req.tags # {} /\ req.tags \cap TagsOf[f] = {} THEN <<>>
  ELSE LET cases == InOrder({f} \X Filtered(req, f))
       IN  [k \in DOMAIN cases |->
              [file |-> f, at |-> cases[k][2], value |-> Resolve(req, f, cases[k][2])]]

(* _plan: a suite without a selected case is dropped.                      *)
PlanOf(req) ==
  LET suites == InOrder({p \in SuitePaths(req) : PlanSuite(req, p[2]) # <<>>})
  IN  [i \in DOMAIN suites |-> PlanSuite(req, suites[i][2])]

CasesIn(suites) == {<<p.file, p.at>> : p \in UNION {ToSet(s) : s \in ToSet(suites)}}

(* _load finds no file, or _fake_gateway_for no script (ConfigError).      *)
Refuses(req) ==
  \/ req.onCli /\ SuitePaths(req) = {}
  \/ CasesIn(PlanOf(req)) \cap Scriptless # {}

(* Suites that load together load in any choice of them.                   *)
Plan ==
  /\ phase = "accepted"
  /\ \E req \in Requests :
       /\ request' = req
       /\ IF Refuses(req) THEN phase' = "refused" /\ plan' = <<>>
                          ELSE phase' = "planned" /\ plan' = PlanOf(req)
  /\ UNCHANGED <<docs, target, env, short, shown, excused>>

PlanningSpec ==
  /\ PlanningInit
  /\ [][(Next /\ UNCHANGED <<request, plan>>) \/ Plan]_<<vars, request, plan>>

-----------------------------------------------------------------------------

(* The values of the setting from the nearest place to the farthest.       *)
SaidOf(f, n) ==
  <<request.override, CasesOf[f][n].says, SuiteSays[f], ProjectSays, Builtin>>

(* The cases that the arguments, the tags and the filter leave.            *)
Chosen ==
  UNION {{f} \X {n \in DOMAIN CasesOf[f] :
                   request.filter = None \/ CasesOf[f][n].name \in request.filter} :
         f \in {g \in Files :
                  /\ \E i \in DOMAIN request.patterns : g \in request.patterns[i]
                  /\ request.tags = {} \/ request.tags \cap TagsOf[g] # {}}}

(* A run is of what was written and asked for: every chosen case is        *)
(* planned, no other, in the order of the files and of the cases in them,  *)
(* once however many arguments name its file; with the value of a setting  *)
(* that was said nearest to it, 0 included ("CLI override > case > suite > *)
(* project > built-in", config.py); no suite without a case; and it is     *)
(* refused only for a chosen case or because the arguments name no file.   *)
PlansAsWritten ==
  /\ phase = "planned" =>
       /\ CasesIn(plan) = Chosen
       /\ Chosen \cap Scriptless = {}
       /\ \A i \in DOMAIN plan :
            /\ plan[i] # <<>>
            /\ \A k, l \in DOMAIN plan[i] : k < l =>
                 plan[i][k].file = plan[i][l].file /\ plan[i][k].at < plan[i][l].at
            /\ \A k \in DOMAIN plan[i] :
                 LET said == SaidOf(plan[i][k].file, plan[i][k].at) IN
                   \E j \in DOMAIN said :
                     /\ said[j] = plan[i][k].value /\ said[j] # None
                     /\ \A m \in 1 .. j - 1 : said[m] = None
       /\ request.onCli =>
            \A i, j \in DOMAIN plan : i < j =>
              \A k \in DOMAIN plan[i], l \in DOMAIN plan[j] : plan[i][k].file < plan[j][l].file
  /\ phase = "refused" =>
       Chosen \cap Scriptless # {} \/ UNION ToSet(request.patterns) = {}

============================================================================
