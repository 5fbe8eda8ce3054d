--------------------------- MODULE VirtualCompiler ---------------------------
(***************************************************************************)
(* The virtual compiler: compiler/virtual_compiler/environment.py with its *)
(* oracle, the search strategies of search.py, the agents of agents.py,    *)
(* the campaign, the benchmark of the strategies and the command line.     *)
(*                                                                         *)
(* An environment holds branches: configurations of one program, some of   *)
(* them measured by the oracle, which builds and runs a configuration and  *)
(* may do so budget times.  Strategies make branches by interventions,     *)
(* rank them by a surrogate and spend the budget on the best ranked.       *)
(*                                                                         *)
(* Choices: what the surrogate predicts (any ranking), what the oracle     *)
(* measures, what fails.  Session files are saved and loaded by library    *)
(* use of the environment, which the command line does not do.             *)
(***************************************************************************)
EXTENDS Integers, FiniteSets, Sequences, Functions

CONSTANTS
  SearchSpace,    \* the interventions the strategies try
  PresetFlags,    \* FLAG_ACTIONS: the flags of every preset
  Budgets,        \* the oracle budgets an environment may be given
  TopK,           \* how many branches a strategy validates
  Rounds,         \* of the swarm and of the campaign
  Fanout,         \* interventions the campaign's proposer keeps
  BenchArms,      \* the strategies of the benchmark, in order
  MaxRuntime,     \* bound on measured run times
  MaxDepth,       \* bound on the random virtual steps of the tree search
  MaxCalls,       \* bound on the calls of a library session
  MaxSessions,    \* bound on the sessions
  MaxTrouble      \* bound on what goes wrong outside the compiler

Action == [kind : {"flags", "policy", "tune+", "tune-", "source"}, arg : STRING]
NoAction == [kind |-> "init", arg |-> ""]

ASSUME SearchAssumption ==
  SearchSpace \subseteq Action /\ SearchSpace # {} /\ IsFiniteSet(SearchSpace)
ASSUME BudgetsAssumption == Budgets \subseteq Nat
ASSUME BoundsAssumption ==
  /\ {TopK, Rounds, Fanout, MaxRuntime, MaxDepth, MaxCalls, MaxSessions, MaxTrouble} \subseteq Nat
  /\ Rounds >= 1   \* with none the swarm and the campaign do nothing

-----------------------------------------------------------------------------
(* Configurations and interventions.  A flag is <<"-O", level>>,           *)
(* <<"-f", pass>> or <<"-fno-", pass>>; the order of the flags of a        *)
(* configuration, and the text of its source, are left out.                *)

InitialConfig == [flags |-> {<<"-O", "2">>}, policy |-> {}, source |-> {}]

Negated(f) == IF f[1] = "-f" THEN <<"-fno-", f[2]>> ELSE <<"-f", f[2]>>

\* A tune flag replaces itself and its negation.
Tune(flags, f) == (flags \ {f, Negated(f)}) \cup {f}

\* check_flags: the error that vetoes a validation of the campaign.
Contradictory(config) == \E f \in config.flags : f[1] = "-f" /\ Negated(f) \in config.flags

\* A transform that finds its site taken raises ValueError: no branch is made.
\* Only the unrolling pragma may be repeated.
Applicable(config, a) ==
  a.kind = "source" /\ a.arg # "unroll" => a.arg \notin config.source

\* The intervention of perturb; a policy "none" clears the policy.
Apply(config, a) ==
  [flags  |-> IF a.kind = "flags" THEN PresetFlags[a.arg]
              ELSE IF a.kind = "tune+" THEN Tune(config.flags, <<"-f", a.arg>>)
              ELSE IF a.kind = "tune-" THEN Tune(config.flags, <<"-fno-", a.arg>>)
              ELSE config.flags,
   policy |-> IF a.kind # "policy" THEN config.policy
              ELSE IF a.arg = "none" THEN {} ELSE config.policy \cup {a.arg},
   source |-> IF a.kind = "source" THEN config.source \cup {a.arg} ELSE config.source]

\* Oracle.measure builds the source with the flags: the policy is not passed on.
Built(config) == [flags |-> config.flags, source |-> config.source]

-----------------------------------------------------------------------------
(* Branches.  A fact is what the oracle said; run time 0 stands for None.  *)

Unmeasured == [known |-> FALSE, ok |-> FALSE, rt |-> 0]
Fact(ok, rt) == [known |-> TRUE, ok |-> ok, rt |-> rt]
Results == {Fact(TRUE, rt) : rt \in 0 .. MaxRuntime} \cup {Fact(FALSE, 0)}
Lost == [known |-> FALSE, ok |-> FALSE, rt |-> 1]   \* the measurement raised

\* A name is what was asked for, and a number that makes it unique.
Name(by, a, no) == [by |-> by, act |-> a, no |-> no]
Root == Name("root", NoAction, 1)
Nowhere == Name("nowhere", NoAction, 0)

NewBranch(config, parent) ==
  [config |-> config, parent |-> parent, fact |-> Unmeasured, bin |-> FALSE, equiv |-> "unknown"]

VARIABLES
  branches,    \* of the environment, by name
  current,     \* the active branch
  budget,      \* oracle.budget
  used,        \* oracle.used
  experience,  \* what the surrogate has seen: what was built, and the fact
  views,       \* what the oracle has measured in this session: likewise
  saved,       \* the session file
  at,          \* where the session stands
  cmd,         \* what it was started for
  job,         \* the strategy at work
  reports,     \* the arms of the benchmark so far
  code,        \* what the command line returned
  sessions, calls, trouble   \* how much of the bounds is used up

envVars  == <<branches, current, budget, used, experience, views>>
taskVars == <<at, cmd, job, reports, code, sessions>>
vars == <<envVars, saved, taskVars, calls, trouble>>

NoJob == [arm |-> "none", round |-> 0, base |-> Root, kids |-> {}, made |-> {},
          todo |-> <<>>, done |-> {}, best |-> Root, rt |-> 0, spent |-> 0]
NoFile == [branches |-> <<>>, current |-> Nowhere, budget |-> 0, used |-> 0]

Init ==
  /\ branches = [n \in {Root} |-> NewBranch(InitialConfig, Nowhere)]
  /\ current = Root /\ budget \in Budgets /\ used = 0
  /\ experience = {} /\ views = {}
  /\ saved = NoFile
  /\ at = "idle" /\ cmd = "none" /\ job = NoJob /\ reports = <<>> /\ code = 0
  /\ sessions = 0 /\ calls = 0 /\ trouble = 0

Facts(n) == branches[n].fact
Left == used < budget

\* _unique_name: the name asked for with the least free number.
UniqueName(by, a) ==
  CHOOSE n \in {Name(by, a, k) : k \in 1 .. Cardinality(DOMAIN branches) + 1} :
    /\ n \notin DOMAIN branches
    /\ \A k \in 1 .. n.no - 1 : Name(by, a, k) \in DOMAIN branches

\* perturb: a child has no facts of its own.  Faulty variant: its parent's.
ChildWithFacts(base, a) ==
  [branches[base] EXCEPT !.config = Apply(@, a), !.parent = base]
Child(base, a) == NewBranch(Apply(branches[base].config, a), base)

\* The branches a set of interventions makes from one.
Expandable(base, acts) == {a \in acts : Applicable(branches[base].config, a)}
Names(by, base, acts) == {UniqueName(by, a) : a \in Expandable(base, acts)}
Expanded(by, base, acts) ==
  [n \in DOMAIN branches \cup Names(by, base, acts) |->
     IF n \in DOMAIN branches THEN branches[n] ELSE Child(base, n.act)]

\* branch: "same code+config == same truth", but not the binary that was kept.
Copy(base) == [branches[base] EXCEPT !.parent = base, !.bin = FALSE, !.equiv = "unknown"]

Costs(bad) ==
  /\ trouble' = IF bad THEN trouble + 1 ELSE trouble
  /\ trouble' <= MaxTrouble

\* validate: one view of the oracle.  What raises after the view was charged
\* (a file that cannot be written, say) leaves no facts.
Learned(n, m) == experience \cup {<<Built(branches[n].config), m>>}

Measure(n, m) ==
  /\ Left /\ used' = used + 1
  /\ IF m = Lost
     THEN UNCHANGED <<branches, experience, views>>
     ELSE /\ branches' = [branches EXCEPT ![n].fact = m, ![n].bin = m.ok]
          /\ experience' = Learned(n, m)
          /\ views' = views \cup {<<Built(branches[n].config), m>>}
  /\ Costs(m \in {Lost, Fact(TRUE, 0)})
  /\ UNCHANGED <<current, budget>>
-----------------------------------------------------------------------------
(* Sessions.  A command makes an environment, measures the root and works. *)

Strategies == {"stock", "random", "surrogate", "beam", "mcts", "swarm"}
Commands == Strategies \cup {"campaign", "benchmark", "library"}

\* _make_env, and run_killer_benchmark for every arm.
FreshEnv ==
  /\ branches' = [n \in {Root} |-> NewBranch(InitialConfig, Nowhere)]
  /\ current' = Root /\ used' = 0 /\ experience' = {} /\ views' = {}

\* After a session that saved its environment only one that may load it is of interest.
Start(c, b) ==
  /\ at = "idle" /\ sessions < MaxSessions
  /\ sessions > 0 => saved # NoFile /\ c = "library"
  /\ cmd' = c /\ budget' = b /\ FreshEnv
  /\ at' = IF c = "library" THEN "library" ELSE "root"
  /\ job' = NoJob /\ reports' = <<>> /\ code' = 0
  /\ sessions' = sessions + 1
  /\ UNCHANGED <<saved, calls, trouble>>

\* The root is measured first; if that raises only the campaign gives up.
NoRoot ==
  IF cmd = "campaign" THEN at' = "idle" /\ code' = 1 ELSE at' = "start" /\ UNCHANGED code

ValidateRoot(m) ==
  /\ at = "root" /\ Measure(Root, m)
  /\ IF m = Lost THEN NoRoot ELSE at' = "start" /\ UNCHANGED code
  /\ job' = [NoJob EXCEPT !.spent = used']
  /\ UNCHANGED <<saved, cmd, reports, sessions, calls>>

RefuseRoot ==
  /\ at = "root" /\ ~Left /\ NoRoot
  /\ UNCHANGED <<envVars, saved, cmd, job, reports, sessions, calls, trouble>>

Arm == IF cmd = "benchmark" THEN BenchArms[Len(reports) + 1] ELSE cmd

-----------------------------------------------------------------------------
(* One round of a strategy: expand, rank, validate, conclude.              *)

\* The interventions a round tries.  The proposer makes, ranks and deletes a
\* branch for every one of its own; the swarm does not use what it proposes.
Tried ==
  {acts \in SUBSET SearchSpace :
     \/ Arm = "stock" /\ acts = {}
     \/ Arm = "random" /\ Cardinality(acts) = TopK
     \/ /\ Arm = "campaign" /\ Cardinality(acts) <= Fanout
        /\ \A a \in acts : a.kind \notin {"tune+", "tune-"}
     \/ Arm \notin {"stock", "random", "campaign"} /\ acts = SearchSpace}

Expand(acts) ==
  /\ branches' = Expanded(Arm, current, acts)
  /\ job' = LET kids == Names(Arm, current, acts)
            IN  [job EXCEPT !.arm = Arm, !.round = @ + 1, !.base = current,
                            !.kids = kids, !.made = kids, !.done = {},
                            !.best = current, !.rt = Facts(current).rt]
  /\ at' = "rank"
  /\ UNCHANGED <<current, budget, used, experience, views, saved, cmd, reports, code,
                 sessions, calls, trouble>>

\* A random virtual step of the tree search from a branch it made.
Think(n, a) ==
  /\ at = "rank" /\ job.arm = "mcts"
  /\ n \in job.made /\ Cardinality(job.made) < Cardinality(job.kids) + MaxDepth
  /\ Applicable(branches[n].config, a)
  /\ LET leaf == UniqueName("step", a)
     IN  /\ branches' = [m \in DOMAIN branches \cup {leaf} |->
                           IF m = leaf THEN Child(n, a) ELSE branches[m]]
         /\ job' = [job EXCEPT !.made = @ \cup {leaf}]
  /\ UNCHANGED <<current, budget, used, experience, views, saved, at, cmd, reports, code,
                 sessions, calls, trouble>>

Orders(S, n) == {s \in [1 .. n -> S] : IsInjective(s)}
Fewest(n) == IF Cardinality(job.kids) < n THEN Cardinality(job.kids) ELSE n

\* How many branches are to be validated at most.
Lengths == IF job.arm = "campaign" THEN 0 .. Fewest(2 * TopK)
           ELSE {Fewest(IF job.arm = "surrogate" THEN 1 ELSE TopK)}

\* What the surrogate's ranking, the acquisition rule, chance, or the critic's
\* flags leave to be validated, and in which order.
Shortlists == IF job.arm = "stock" THEN {<<current>>}
              ELSE UNION {Orders(job.kids, n) : n \in Lengths}

Rank(s) ==
  /\ s \in Shortlists
  /\ job' = [job EXCEPT !.todo = s] /\ at' = "validate"
  /\ UNCHANGED <<envVars, saved, cmd, reports, code, sessions, calls, trouble>>

\* Is a measurement better than the best?  Faulty variant: any that built is.
AnyBuilt(m, rt) == m.ok
Better(m, rt) == m.ok /\ m.rt > 0 /\ (rt = 0 \/ m.rt < rt)

Enough == job.arm = "campaign" /\ Cardinality(job.done) >= TopK
Vetoed(n) == job.arm = "campaign" /\ Contradictory(branches[n].config)

ValidateNext(m) ==
  /\ at = "validate" /\ job.todo # <<>> /\ ~Enough
  /\ LET n == Head(job.todo)
     IN  /\ ~Vetoed(n) /\ Measure(n, m)
         /\ job' = [job EXCEPT !.todo = Tail(@),
                      !.done = IF m = Lost THEN @ ELSE @ \cup {n},
                      !.best = IF Better(m, job.rt) THEN n ELSE @,
                      !.rt   = IF Better(m, job.rt) THEN m.rt ELSE @]
  /\ UNCHANGED <<saved, at, cmd, reports, code, sessions, calls>>

\* The budget is used up, or the constraints veto the branch.
PassOver ==
  /\ at = "validate" /\ job.todo # <<>> /\ ~Enough
  /\ ~Left \/ Vetoed(Head(job.todo))
  /\ job' = [job EXCEPT !.todo = Tail(@)]
  /\ UNCHANGED <<envVars, saved, at, cmd, reports, code, sessions, calls, trouble>>

Ranked == at = "validate" /\ (job.todo = <<>> \/ Enough)

\* The virtual screen, and the random search.
EndScreen ==
  /\ Ranked /\ job.arm \in {"stock", "random", "surrogate", "beam"}
  /\ current' = IF job.arm = "stock" THEN current ELSE job.best
  /\ at' = "done"
  /\ UNCHANGED <<branches, budget, used, experience, views, saved, cmd, job, reports, code,
                 sessions, calls, trouble>>

\* What the tree search deletes.  Faulty variant: not only what it made.
PrunedAll == {n \in DOMAIN branches \ job.done : n # job.best /\ ~Facts(n).known}
Pruned == {n \in job.made \ job.done : n # job.best /\ ~Facts(n).known}

EndTree ==
  /\ Ranked /\ job.arm = "mcts"
  /\ current' = job.best
  /\ branches' = [n \in DOMAIN branches \ Pruned |-> branches[n]]
  /\ at' = "done"
  /\ UNCHANGED <<budget, used, experience, views, saved, cmd, job, reports, code,
                 sessions, calls, trouble>>

\* The next round starts, or the strategy is done.
NextRound == at' = IF job.round < Rounds THEN "start" ELSE "done"

EndScreenOfSwarm ==
  /\ Ranked /\ job.arm = "swarm"
  /\ current' = job.best /\ at' = "refute"
  /\ UNCHANGED <<branches, budget, used, experience, views, saved, cmd, job, reports, code,
                 sessions, calls, trouble>>

\* compare: two branches with run times are compared by them, others by the
\* surrogate, which may prefer either.
Timed(n) == Facts(n).known /\ Facts(n).rt > 0
Refutable ==
  LET others == DOMAIN branches \ {current}
  IN  IF \E n \in others : Timed(n) /\ Timed(current) /\ Facts(n).rt <= Facts(current).rt
      THEN {TRUE}
      ELSE IF \E n \in others : ~(Timed(n) /\ Timed(current)) THEN BOOLEAN ELSE {FALSE}

\* The adversary names a branch that may beat the current one, or the swarm ends.
Refute(found) ==
  /\ at = "refute" /\ found \in Refutable
  /\ at' = IF found THEN "advise" ELSE "done"
  /\ UNCHANGED <<envVars, saved, cmd, job, reports, code, sessions, calls, trouble>>

\* The validator measures the branch most worth it.
Unvalidated == {n \in DOMAIN branches : ~Facts(n).known}

Advise(n, m) ==
  /\ at = "advise" /\ n \in Unvalidated
  /\ Measure(n, m) /\ NextRound
  /\ UNCHANGED <<saved, cmd, job, reports, code, sessions, calls>>

NoAdvice ==
  /\ at = "advise" /\ (Unvalidated = {} \/ ~Left) /\ NextRound
  /\ UNCHANGED <<envVars, saved, cmd, job, reports, code, sessions, calls, trouble>>

\* The fastest of this round's validated branches that built becomes the
\* incumbent: one without a run time counts as infinitely slow, and the
\* incumbent itself is not compared.
Slower(n, m) == Facts(m).rt > 0 /\ (Facts(n).rt = 0 \/ Facts(m).rt < Facts(n).rt)
Incumbents ==
  LET built == {n \in job.done : Facts(n).ok}
  IN  IF built = {} THEN {current} ELSE {n \in built : \A m \in built : ~Slower(n, m)}

EndCampaignRound(n) ==
  /\ Ranked /\ job.arm = "campaign" /\ n \in Incumbents
  /\ current' = n
  /\ at' = IF Left /\ job.round < Rounds THEN "start" ELSE "done"
  /\ UNCHANGED <<branches, budget, used, experience, views, saved, cmd, job, reports, code,
                 sessions, calls, trouble>>

\* SearchResult: the best branch and its run time.
Best == IF job.arm \in {"stock", "swarm", "campaign"}
        THEN [branch |-> current, rt |-> Facts(current).rt]
        ELSE [branch |-> job.best, rt |-> job.rt]

Return ==
  /\ at = "done" /\ cmd # "benchmark" /\ at' = "idle"
  /\ UNCHANGED <<envVars, saved, cmd, job, reports, code, sessions, calls, trouble>>

\* ArmReport; the next arm gets an environment of its own.
Report ==
  /\ at = "done" /\ cmd = "benchmark"
  /\ reports' = Append(reports, [arm |-> job.arm, rt |-> Best.rt, spent |-> used - job.spent])
  /\ IF Len(reports) + 1 < Len(BenchArms)
     THEN FreshEnv /\ at' = "root" /\ UNCHANGED budget
     ELSE at' = "idle" /\ UNCHANGED envVars
  /\ job' = NoJob
  /\ UNCHANGED <<saved, cmd, code, sessions, calls, trouble>>

-----------------------------------------------------------------------------
(* The environment used as a library.                                      *)

Call == at = "library" /\ calls < MaxCalls /\ calls' = calls + 1
Between == UNCHANGED <<at, cmd, job, reports, code, sessions>>

Perturb(n, a) ==
  /\ Call /\ n \in DOMAIN branches /\ a \in Expandable(n, {a})
  /\ branches' = Expanded("perturb", n, {a})
  /\ current' = UniqueName("perturb", a)
  /\ Between /\ UNCHANGED <<budget, used, experience, views, saved, trouble>>

Branch(n) ==
  /\ Call /\ n \in DOMAIN branches
  /\ LET new == UniqueName("branch", NoAction)
     IN  /\ branches' = [m \in DOMAIN branches \cup {new} |->
                           IF m = new THEN Copy(n) ELSE branches[m]]
         /\ current' = new
  /\ Between /\ UNCHANGED <<budget, used, experience, views, saved, trouble>>

Validate(n, m) ==
  /\ Call /\ n \in DOMAIN branches /\ Measure(n, m)
  /\ Between /\ UNCHANGED saved

\* lineage: the names from the root to a branch.
Lineage ==
  LET path[n \in DOMAIN branches] ==
        IF branches[n].parent = Nowhere THEN <<n>> ELSE Append(path[branches[n].parent], n)
  IN  path

\* diff_gate: the candidate is compared with its nearest ancestor that has a
\* binary; without one, or without its own, nothing is decided.
Reference(n) ==
  LET kept == {k \in 1 .. Len(Lineage[n]) - 1 :
                 Facts(Lineage[n][k]).known /\ branches[Lineage[n][k]].bin}
  IN  IF kept = {} THEN Nowhere
      ELSE Lineage[n][CHOOSE k \in kept : \A j \in kept : j <= k]

DiffGate(n, verdict) ==
  /\ Call /\ n \in DOMAIN branches
  /\ Reference(n) # Nowhere /\ branches[n].bin
  /\ branches' = [branches EXCEPT ![n].equiv = verdict]
  /\ Between /\ UNCHANGED <<current, budget, used, experience, views, saved, trouble>>

Save ==
  /\ Call
  /\ saved' = [branches |-> branches, current |-> current, budget |-> budget, used |-> used]
  /\ Between /\ UNCHANGED <<envVars, trouble>>

\* load makes an environment of what was saved; the surrogate is taught the facts again.
Taught(file) ==
  {<<Built(file.branches[n].config), file.branches[n].fact>> :
     n \in {m \in DOMAIN file.branches : file.branches[m].fact.known}}

Load ==
  /\ Call /\ saved # NoFile
  /\ branches' = saved.branches /\ current' = saved.current
  /\ budget' = saved.budget /\ used' = saved.used
  /\ experience' = Taught(saved) /\ views' = Taught(saved)
  /\ Between /\ UNCHANGED <<saved, trouble>>

Leave == at = "library" /\ at' = "idle" /\ UNCHANGED <<envVars, saved, cmd, job, reports, code, sessions, calls, trouble>>

-----------------------------------------------------------------------------
Outcomes == Results \cup {Lost}
Verdicts == {"same", "differs"}

Work ==
  \/ \E m \in Outcomes : ValidateRoot(m) \/ ValidateNext(m)
  \/ RefuseRoot \/ PassOver
  \/ at = "start" /\ \E acts \in Tried : Expand(acts)
  \/ \E n \in DOMAIN branches, a \in SearchSpace : Think(n, a)
  \/ at = "rank" /\ \E s \in Shortlists : Rank(s)
  \/ EndScreen \/ EndTree \/ EndScreenOfSwarm \/ \E found \in BOOLEAN : Refute(found)
  \/ \E n \in DOMAIN branches, m \in Outcomes : Advise(n, m)
  \/ NoAdvice \/ \E n \in DOMAIN branches : EndCampaignRound(n)
  \/ Return \/ Report

Use ==
  \/ \E n \in DOMAIN branches :
       \/ \E a \in SearchSpace : Perturb(n, a)
       \/ Branch(n) \/ \E m \in Outcomes : Validate(n, m)
       \/ \E verdict \in Verdicts : DiffGate(n, verdict)
  \/ Save \/ Load \/ Leave

CompilerNext == (\E c \in Commands, b \in Budgets : Start(c, b)) \/ Work \/ Use

Spec == Init /\ [][CompilerNext]_vars

-----------------------------------------------------------------------------
(* Properties.                                                             *)

CompilerTypeOK ==
  /\ \A n \in DOMAIN branches :
       /\ branches[n].fact \in Results \cup {Unmeasured}
       /\ branches[n].bin \in BOOLEAN /\ branches[n].equiv \in Verdicts \cup {"unknown"}
       /\ branches[n].config.policy \subseteq {a.arg : a \in SearchSpace}
  /\ budget \in Nat /\ used \in 0 .. budget
  /\ at \in {"idle", "root", "start", "rank", "validate", "refute", "advise", "done", "library"}
  /\ cmd \in Commands \cup {"none"} /\ code \in 0 .. 1 /\ trouble \in 0 .. MaxTrouble
  /\ job.round \in 0 .. Rounds /\ job.rt \in 0 .. MaxRuntime

\* "The oracle feeds the surrogate, never the reverse" (oracle.py:11): what a branch
\* says of itself the oracle measured for what is built from it, in this session or the
\* one that was saved; the surrogate knows it, and knows nothing the oracle did
\* not measure; and every measurement was paid for.
FactsAreMeasured ==
  /\ \A n \in DOMAIN branches : Facts(n).known =>
       <<Built(branches[n].config), Facts(n)>> \in experience
  /\ experience \subseteq views
  /\ Cardinality(views) <= used

\* Deleting what was only proposed, pruning a tree, saving and loading never cut a
\* branch off from the root or leave the environment on a branch that is gone.
LineageIntact ==
  /\ {Root, current} \subseteq DOMAIN branches
  /\ \A n \in DOMAIN branches :
       /\ n = Root <=> branches[n].parent = Nowhere
       /\ n # Root => branches[n].parent \in DOMAIN branches

\* The best branch a strategy reports is still there, has the run time that is
\* reported, and no branch it measured, nor the one it began at, is faster.
BestIsFastest ==
  at = "done" /\ job.arm \in {"stock", "random", "surrogate", "beam", "mcts"} =>
    /\ Best.branch = current /\ Best.rt = Facts(current).rt
    /\ \A n \in job.done \cup {job.base} : Facts(n).rt > 0 => Best.rt \in 1 .. Facts(n).rt
=============================================================================
