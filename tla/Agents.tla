------------------------------- MODULE Agents -------------------------------
(***************************************************************************)
(* What the planner and the generator do to the disk in one trio run       *)
(* (agents/planner.py, agents/generator.py, agents/executors.py, with      *)
(* base.py, isolation.py and the git diff of evaluator.py), with both of   *)
(* their backends: a model that answers with text, and the copilot command *)
(* that edits files itself.                                                *)
(*                                                                         *)
(* A copilot that runs out of time is killed, its children are not: they   *)
(* may write to the generator's tree for as long as they like, whoever is  *)
(* reading it.  Verdicts, suites and interruptions are in other modules.   *)
(***************************************************************************)
EXTENDS Integers

CONSTANTS
    Files,       \* files an answer or an edit may touch; git ignores none
    Skipped,     \* those of them below one of _SKIP_DIRS
    OutputFile,  \* generated_output.txt
    MaxRuns,     \* config.max_iterations
    Evaluators   \* len(config.evaluator_models)

ASSUME FilesAssumption   == Skipped \subseteq Files /\ OutputFile \notin Files
ASSUME MaxRunsAssumption == MaxRuns \in Nat \ {0}
ASSUME EvaluatorsAssumption == Evaluators \in Nat \ {0}

VARIABLES
    backend,   \* "copilot" when model_id starts with copilot/
    host,      \* what is installed and configured there
    repo,      \* .git of the generator's tree
    pc, run,
    spec,      \* planner/spec.md
    status,    \* planner.status and generator.status
    tree,      \* path -> the call that last wrote or removed it
    index,     \* the same of git's index
    head,      \* and of HEAD
    answer,    \* the paths the generator's answer has blocks for
    blocks,    \* those not written yet
    tmp,       \* a .tmp file is left in the tree
    killed,    \* the calls that timed out; 0 stands for those before the loop
    failed,    \* the runs whose copilot had another exit code than 0
    grades,    \* evaluators that graded this run
    graded,    \* the trees their suites saw
    diff,      \* the files the last one's git diff named
    archived   \* run_dir/artifacts

given   == <<backend, host>>
calls   == <<killed, failed>>
git     == <<repo, index, head>>
reading == <<grades, graded, diff, archived>>
writing == <<answer, blocks, tmp>>
vars    == <<given, calls, pc, run, spec, status, tree, git, writing, reading>>

Paths == Files \cup {OutputFile}

\* A path's last writer: a generator run, a call before the loop (0), or the
\* benchmark; nobody when there has never been such a file.
Nobody    == -2
Benchmark == -1
Tree      == [Paths -> Nobody..MaxRuns]
Empty     == [f \in Paths |-> Nobody]

\* An ExecutionResult: success, exit code other than 0, or exit code 124.
Outcomes == {"ok", "failed", "timeout"}

Killed(c, o) == IF o = "timeout" THEN killed \cup {c} ELSE killed

\* _git_repo_root: a benchmark that is the root of a repository gets a
\* worktree (plain), any other a copy without .git (none); git init configures
\* an identity, in a repository it finds it relies on the host's.
Repos == {"none", "plain", "configured"}

CanCommit(r) == host.git /\ (r = "configured" \/ host.identity)

Init ==
    /\ backend \in {"copilot", "text"}
    /\ host \in [git : BOOLEAN, identity : BOOLEAN, provider : BOOLEAN]
    /\ repo \in {"none", "plain"} /\ (repo = "plain" => host.git)
    /\ pc = "plan" /\ run = 1
    /\ spec = "absent"
    /\ status = [planner |-> "running", generator |-> "none"]
    /\ tree \in [Paths -> {Nobody, Benchmark}] /\ tree[OutputFile] = Nobody
    /\ index = (IF repo = "plain" THEN tree ELSE Empty) /\ head = index
    /\ answer = {} /\ blocks = {} /\ tmp = FALSE
    /\ killed = {} /\ failed = {}
    /\ grades = 0 /\ graded = {} /\ diff = {} /\ archived = Empty

-----------------------------------------------------------------------------
(* Planner *)

\* The result's success is not looked at: the spec is what copilot left in the
\* file, or its standard output, which may be empty or end anywhere.
PlanByCopilot ==
    /\ pc = "plan" /\ backend = "copilot" /\ host.provider
    /\ spec' = "written"
    /\ \E o \in Outcomes : killed' = Killed(0, o)
    /\ status' = [status EXCEPT !.planner = "done"]
    /\ pc' = "negotiate"
    /\ UNCHANGED <<given, failed, run, tree, git, writing, reading>>

\* The spec is the provider's answer, a truncated one included, or without
\* LiteLLM the stub of BaseAgent.
PlanByModel ==
    /\ pc = "plan" /\ backend = "text"
    /\ spec' = "written"
    /\ status' = [status EXCEPT !.planner = "done"]
    /\ pc' = "negotiate"
    /\ UNCHANGED <<given, calls, run, tree, git, writing, reading>>

\* No copilot, a provider's error, an answer with no text, a failing write.
PlannerRaises ==
    /\ pc = "plan"
    /\ status' = [status EXCEPT !.planner = "error"]
    /\ pc' = "raised"
    /\ UNCHANGED <<given, calls, run, spec, tree, git, writing, reading>>

\* What a copilot may do to the tree in call n.
Edits(n) == {t \in Tree : /\ t[OutputFile] = tree[OutputFile]
                          /\ \A f \in Files : t[f] \in {tree[f], n}}

\* The generator's side of the negotiation has the same backend, the same tree
\* and the permission to write to it; nothing is committed.  An answer that is
\* no contract raises (ContractNegotiation).
Negotiate ==
    /\ pc = "negotiate"
    /\ IF backend = "copilot"
       THEN /\ tree' \in Edits(0)
            /\ \E o \in Outcomes : killed' = Killed(0, o)
       ELSE UNCHANGED <<tree, killed>>
    /\ pc' \in {"generate", "raised"}
    /\ UNCHANGED <<given, failed, run, spec, status, git, writing, reading>>

-----------------------------------------------------------------------------
(* Generator *)

StartGenerator ==
    /\ pc = "generate"
    /\ status' = [status EXCEPT !.generator = "running"]
    /\ pc' = "call"
    /\ UNCHANGED <<given, calls, run, spec, tree, git, writing, reading>>

\* Comparing the two snapshots of modification times; a call that times out
\* reports no file.
DetectChanges(t, o) ==
    o # "timeout" /\ \E f \in Files \ Skipped : t[f] # tree[f]

\* copilot -p: it edits files and may commit them itself, in a repository it
\* finds or makes.
RunCopilot ==
    /\ pc = "call" /\ backend = "copilot" /\ host.provider
    /\ \E t \in Edits(run), o \in Outcomes :
          /\ tree' = t
          /\ killed' = Killed(run, o)
          /\ failed' = IF o = "failed" THEN failed \cup {run} ELSE failed
          /\ \/ UNCHANGED git
             \/ /\ host.git /\ host.identity
                /\ repo' = IF repo = "none" THEN "plain" ELSE repo
                /\ index' = t /\ head' = t
          /\ pc' = IF o = "ok" /\ DetectChanges(t, o) THEN "commit"
                   ELSE "return"
    /\ UNCHANGED <<given, run, spec, status, writing, reading>>

\* _parse_fenced_blocks: the closed blocks that name a path (a truncated answer
\* has lost its last one); when there are none, as in the stub's answer, the
\* whole text goes to generated_output.txt.
ParseFencedBlocks ==
    {{OutputFile}} \cup (IF host.provider THEN SUBSET Files \ {{}} ELSE {})

ModelAnswers ==
    /\ pc = "call" /\ backend = "text"
    /\ answer' \in ParseFencedBlocks
    /\ blocks' = answer'
    /\ pc' = "write"
    /\ UNCHANGED <<given, calls, run, spec, status, tree, git, tmp, reading>>

\* (Definitions named X_HowItBreaks are X with a plausible bug, for the
\* mutants.)
WriteBlock_KeepsBlock ==
    /\ pc = "write"
    /\ IF blocks = {} THEN pc' = "commit" /\ UNCHANGED tree
       ELSE /\ \E f \in blocks : tree' = [tree EXCEPT ![f] = run]
            /\ UNCHANGED pc
    /\ UNCHANGED <<given, calls, run, spec, status, git, writing, reading>>

WriteBlock ==
    /\ pc = "write"
    /\ \E f \in blocks :
          /\ tree' = [tree EXCEPT ![f] = run]
          /\ blocks' = blocks \ {f}
          /\ pc' = IF blocks = {f} THEN "commit" ELSE "write"
    /\ UNCHANGED <<given, calls, run, spec, status, git, answer, tmp, reading>>

\* git init when there is no .git, git add -A, git commit.  The commit's exit
\* code is ignored; without git there is none.
GitCommit_TrackedOnly ==
    /\ pc = "commit"
    /\ repo' = IF host.git /\ repo = "none" THEN "configured" ELSE repo
    /\ index' = [f \in Paths |-> IF host.git /\ index[f] # Nobody
                                 THEN tree[f] ELSE index[f]]
    /\ head' = IF CanCommit(repo') THEN index' ELSE head
    /\ pc' = "return"
    /\ UNCHANGED <<given, calls, run, spec, status, tree, writing, reading>>

GitCommit ==
    /\ pc = "commit"
    /\ repo' = IF host.git /\ repo = "none" THEN "configured" ELSE repo
    /\ index' = IF host.git THEN tree ELSE index
    /\ head' = IF CanCommit(repo') THEN tree ELSE head
    /\ pc' = "return"
    /\ UNCHANGED <<given, calls, run, spec, status, tree, writing, reading>>

\* A call that timed out or failed is "done" as well.
GeneratorReturns ==
    /\ pc = "return"
    /\ status' = [status EXCEPT !.generator = "done"]
    /\ pc' = "grade"
    /\ UNCHANGED <<given, calls, run, spec, tree, git, writing, reading>>

\* No copilot or a provider's error; a block that cannot be written, after some
\* that could; git init or git add with another exit code than 0.
GeneratorRaises_IsLogged ==
    /\ \/ pc = "call" /\ UNCHANGED tmp
       \/ pc = "write" /\ tmp' \in BOOLEAN
       \/ pc = "commit" /\ host.git /\ UNCHANGED tmp
    /\ status' = [status EXCEPT !.generator = "error"]
    /\ pc' = "return"
    /\ UNCHANGED <<given, calls, run, spec, tree, git, answer, blocks,
                   reading>>

GeneratorRaises ==
    /\ \/ pc = "call" /\ UNCHANGED tmp
       \/ pc = "write" /\ tmp' \in BOOLEAN
       \/ pc = "commit" /\ host.git /\ UNCHANGED tmp
    /\ status' = [status EXCEPT !.generator = "error"]
    /\ pc' = "raised"
    /\ UNCHANGED <<given, calls, run, spec, tree, git, answer, blocks,
                   reading>>

\* The children of a copilot that was killed go on writing.
OrphanWrites ==
    /\ pc \notin {"end", "raised"}
    /\ \E n \in killed, f \in Files : tree' = [tree EXCEPT ![f] = n]
    /\ UNCHANGED <<given, calls, pc, run, spec, status, git, writing, reading>>

-----------------------------------------------------------------------------
(* Evaluator and orchestrator, as far as they read the tree *)

RunSuites ==
    /\ pc = "grade"
    /\ grades' = grades + 1
    /\ graded' = graded \cup {tree}
    /\ pc' = "diff"
    /\ UNCHANGED <<given, calls, run, spec, status, tree, git, writing,
                   diff, archived>>

\* git diff --stat: tracked files that differ from the index.  A tree without
\* .git is part of some other repository or of none, where the command names
\* no file of the tree; nor is any named when it takes over 10 seconds.  Then the
\* next of the evaluator models grades.
GetGitDiff ==
    /\ pc = "diff"
    /\ diff' \in {{}, {f \in Files : /\ repo # "none" /\ host.git
                                     /\ index[f] # Nobody
                                     /\ tree[f] # index[f]}}
    /\ pc' = IF grades < Evaluators THEN "grade" ELSE "verdict"
    /\ UNCHANGED <<given, calls, run, spec, status, tree, git, writing,
                   grades, graded, archived>>

\* answer, graded and diff were about the iteration before.
NextIteration_NoLimit ==
    /\ pc = "verdict"
    /\ run' = run + 1
    /\ pc' = "generate"
    /\ answer' = {} /\ grades' = 0 /\ graded' = {} /\ diff' = {}
    /\ UNCHANGED <<given, calls, spec, status, tree, git, blocks, tmp,
                   archived>>

NextIteration ==
    /\ pc = "verdict" /\ run < MaxRuns
    /\ run' = run + 1
    /\ pc' = "generate"
    /\ answer' = {} /\ grades' = 0 /\ graded' = {} /\ diff' = {}
    /\ UNCHANGED <<given, calls, spec, status, tree, git, blocks, tmp,
                   archived>>

\* After a PASS or the last iteration.
SaveArtifactSnapshot_OfHead ==
    /\ pc = "verdict"
    /\ archived' = head
    /\ pc' = "end"
    /\ UNCHANGED <<given, calls, run, spec, status, tree, git, writing,
                   grades, graded, diff>>

SaveArtifactSnapshot ==
    /\ pc = "verdict"
    /\ archived' = tree
    /\ pc' = "end"
    /\ UNCHANGED <<given, calls, run, spec, status, tree, git, writing,
                   grades, graded, diff>>

Step ==
    \/ PlanByCopilot \/ PlanByModel \/ Negotiate
    \/ StartGenerator \/ RunCopilot \/ ModelAnswers \/ WriteBlock
    \/ GitCommit \/ GeneratorReturns
    \/ RunSuites \/ GetGitDiff \/ NextIteration \/ SaveArtifactSnapshot

Raise == PlannerRaises \/ GeneratorRaises

Ended == pc \in {"end", "raised"} /\ UNCHANGED vars

Next == Step \/ Raise \/ OrphanWrites \/ Ended

\* Every call the run waits for has a timeout or is a local command (copilot
\* 600 s, the models 120 s and 180 s, git diff 10 s), so some step follows; an
\* exception must only follow where nothing else can, for want of copilot.
Spec ==
    /\ Init /\ [][Next]_vars
    /\ WF_vars(Step)
    /\ WF_vars(backend = "copilot" /\ ~host.provider /\ Raise)

-----------------------------------------------------------------------------
(* Properties *)

\* Type invariant.
TypeOK ==
    /\ backend \in {"copilot", "text"} /\ repo \in Repos
    /\ host \in [git : BOOLEAN, identity : BOOLEAN, provider : BOOLEAN]
    /\ pc \in {"plan", "negotiate", "generate", "call", "write", "commit",
               "return", "grade", "diff", "verdict", "end", "raised"}
    /\ run \in 1..MaxRuns
    /\ spec \in {"absent", "written"}
    /\ status \in [{"planner", "generator"} ->
                       {"none", "running", "done", "error"}]
    /\ tree \in Tree /\ index \in Tree /\ head \in Tree
    /\ answer \subseteq Paths /\ blocks \subseteq answer /\ tmp \in BOOLEAN
    /\ killed \subseteq 0..MaxRuns /\ failed \subseteq 1..MaxRuns
    /\ grades \in 0..Evaluators /\ graded \subseteq Tree
    /\ diff \subseteq Files /\ archived \in Tree

\* Hand-over: a generator is started on a spec that is on disk; and what is
\* graded in text mode holds every block of this iteration's answer, by an
\* agent that said "done", and no temporary file: an answer that could be
\* written only in part never reaches the evaluator (planner.py:93,
\* generator.py:211-230).
HandoffIsWhole ==
    /\ pc = "generate" => spec # "absent"
    /\ pc = "grade" =>
          /\ status = [planner |-> "done", generator |-> "done"]
          /\ ~tmp
          /\ \A f \in answer : tree[f] = run

\* Where git can commit, a file that an earlier or this run wrote is missing
\* from HEAD when it is graded only if that run failed or timed out
\* (generator.py:112 and executors.py:116: such runs report no change or no
\* success and are never committed), or if it lies in a skipped directory.
SuccessIsCommitted ==
    pc = "grade" /\ CanCommit(repo) =>
        \A f \in Paths \ Skipped :
           tree[f] \in 1..MaxRuns /\ head[f] # tree[f] =>
              tree[f] \in killed \cup failed

\* The archived code is the code that every evaluator graded, file by file, except
\* where a copilot that had timed out went on writing (orchestrator.py:324, 368 and
\* 393, executors.py:115).
GradedIsArchived ==
    pc = "end" =>
        /\ graded # {}
        /\ \A t \in graded, f \in Paths : archived[f] \in {t[f]} \cup killed

\* Whatever the backends do, the run comes to its end.
RunEnds == <>(pc \in {"end", "raised"})

(***************************************************************************)
(* What a document says (it does not hold).                                *)
(***************************************************************************)

\* "Evaluator grades the git diff": whenever the generator's work could be
\* committed, the diff put into the prompt names every file of the graded
\* tree that this run wrote (docs/designs/v1-cli-benchmark-harness.md:146,
\* evaluator.py:339).
DiffShowsTheCode ==
    pc = "verdict" /\ CanCommit(repo) /\ run \notin killed \cup failed =>
        \A t \in graded : {f \in Files : t[f] = run} \subseteq diff

-----------------------------------------------------------------------------
(* The inductive invariant behind the safety properties                    *)

\* A text answer is written block by block, and nobody but the generator
\* writes then; a copilot gives no answer.
HandoffInv ==
    /\ pc \notin {"plan", "raised"} => spec = "written" /\ status.planner = "done"
    /\ tmp => pc = "raised"
    /\ blocks # {} => pc \in {"write", "raised"}
    /\ backend = "text" => killed = {}
    /\ backend = "copilot" => answer = {}
    /\ pc = "write" => backend = "text" /\ \A f \in answer \ blocks : tree[f] = run
    /\ pc \in {"commit", "return", "grade", "diff"} =>
          \A f \in answer : tree[f] = run
    /\ pc \in {"grade", "diff"} => status.generator = "done"

\* Whose work may be missing from HEAD: the current run's, until it is
\* committed, and that of runs that did not succeed.
Uncommitted(f) == tree[f] \in 1..MaxRuns /\ head[f] # tree[f]

CommitInv ==
    pc # "raised" /\ CanCommit(repo) =>
        \A f \in Paths \ Skipped : Uncommitted(f) =>
           \/ tree[f] \in killed \cup failed
           \/ pc \in {"write", "commit"} /\ tree[f] = run

GradedInv ==
    /\ pc \in {"grade", "diff", "verdict"} =>
          \A t \in graded, f \in Paths : tree[f] \in {t[f]} \cup killed
    /\ pc \in {"diff", "verdict"} => graded # {}
    /\ pc \notin {"grade", "diff", "verdict", "end"} => graded = {} /\ grades = 0
    /\ pc = "grade" => grades < Evaluators

IInv ==
    /\ TypeOK /\ HandoffInv /\ CommitInv /\ GradedInv
    /\ HandoffIsWhole /\ SuccessIsCommitted /\ GradedIsArchived
=============================================================================
