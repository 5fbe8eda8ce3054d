-------------------------- MODULE RepairLoopProofs --------------------------
(***************************************************************************)
(* Proofs about RepairLoop, for every set of texts, gates, command lines   *)
(* and attempts: what the source file may hold, what a run that fails or   *)
(* is killed leaves, and that the loop implements SourceUpdate.            *)
(***************************************************************************)
EXTENDS RepairLoop, TLAPS

\* The texts the owner of the file may find without losing work.
Owner == {Original} \cup Edits

\* Steps of the final verification, with the promoted revision in the file.
Verifying == {"compile", "analyze", "test", "benchmark", "commit", "revert"}

\* A candidate has passed the gates that lie behind it.
Gating ==
  target = "candidate" =>
    /\ pc = "fresh" => candidate \in Revisions \cup {Original}
    /\ pc \in {"stage", "list", "compile", "analyze", "test", "benchmark", "check"}
         => candidate \in Revisions
    /\ pc \in {"analyze", "test", "benchmark", "check"}
         => "compile" \in Good[candidate] /\ binary = candidate
    /\ pc \in {"test", "benchmark", "check"}
         => GatesOf(config) \cap {"analysis"} \subseteq Good[candidate]
    /\ pc \in {"benchmark", "check"}
         => GatesOf(config) \cap {"test", "output"} \subseteq Good[candidate]
    /\ pc = "check" => candidate \in Gated

\* Only a gated candidate gets to the promotion.
Promotion ==
  /\ target = "final" =>
       /\ candidate \in Gated
       /\ pc \notin {"start", "prepare", "propose", "fresh", "stage", "list", "check"}
  /\ target # "final" =>
       pc \notin {"backup", "copy", "replace", "mark", "commit", "revert"}
  /\ target = "candidate" => pc \notin {"start", "prepare", "publish"}
  /\ target = "baseline" =>
       pc \notin {"fresh", "stage", "list", "analyze", "test", "benchmark", "check"}
  /\ Original \in seen

\* Until then the file is the owner's, and afterwards the copy is.
Backup ==
  /\ target # "final" \/ pc \in {"backup", "copy", "replace"} => source \in Owner
  /\ pc \in {"copy", "replace", "mark"} => backup \in Owner
  /\ target = "final" /\ pc \in Verifying => backup \in Owner
  /\ target = "final" /\ pc \in Verifying \cup {"mark", "replace"} => backupPath
  /\ backup \in Owner \cup {NoFile}
  /\ source \in Owner \cup Gated

\* _promoted says whether the promotion still has to be undone.
Marked ==
  /\ promoted => target = "final" /\ pc \in Verifying \cup {"exit", "cleanup", "done", "crashed"}
  /\ target = "final" /\ pc \in Verifying => promoted
  /\ Accepted => target = "final" /\ pc \in {"publish", "exit", "cleanup", "done", "crashed"}
  /\ Accepted => ~promoted
  /\ result = "accepted" => pc \in {"publish", "crashed"}
  /\ pc = "publish" /\ target = "final" => Accepted
  /\ pc \in {"exit", "cleanup", "done"} => result # "none"
  /\ result \in {"none", "noop", "accepted"} \/ pc \in {"exit", "cleanup", "done", "crashed"}
  /\ result = "noop" =>
       target = "baseline" /\ pc \in {"publish", "exit", "cleanup", "done", "crashed"}
  /\ pc = "publish" /\ target = "baseline" => result = "noop"

\* What leaving the with statement does with a promotion it knows of and can undo.
Undone == ~Stranded =>
  /\ pc = "exit" /\ ~Accepted => IF promoted THEN backup \in Owner ELSE source \in Owner
  /\ pc \in {"cleanup", "done"} /\ ~Accepted => source \in Owner
  /\ pc = "crashed" /\ ~Accepted => source \in Owner \/ backup \in Owner

\* Where the original and the candidate are, as long as nobody writes the file
\* once the source check has passed.
NoRace ==
  target = "final" /\ "late edit" \notin mishaps =>
    /\ pc \in {"backup", "copy", "replace"} => source = Original
    /\ pc \in {"copy", "replace"} => backup = Original
    /\ pc \in Verifying \cup {"mark"} => source = candidate /\ backup = Original
    /\ promoted => source = candidate /\ backup = Original

Inv == TypeOK /\ Gating /\ Promotion /\ Backup /\ Marked

-----------------------------------------------------------------------------
(* What the steps that ask for a verdict do.                               *)

LEMMA Verdict ==
  ASSUME NEW g, NEW t, TRUE \in Verdicts(g, t)
  PROVE  g \in Good[t]
  BY DEF Verdicts

LEMMA VerdictsBoolean ==
  ASSUME NEW g, NEW t, NEW v \in Verdicts(g, t)
  PROVE  v \in BOOLEAN
  BY DEF Verdicts

LEMMA CompileFacts ==
  ASSUME Compile
  PROVE  /\ pc = "compile" /\ built' \in BOOLEAN
         /\ UNCHANGED <<config, target, attempt, seen, candidate, disk, patcher,
                        result, mishaps>>
         /\ \/ /\ target = "baseline" /\ pc' = "prepare"
               /\ binary' = binary \/ binary' = Subject
            \/ /\ target # "baseline" /\ pc' = "analyze" /\ binary' = Subject
               /\ "compile" \in Good[Subject]
            \/ /\ target # "baseline" /\ Rejected /\ binary' = binary
<1>1. PICK ok \in Verdicts("compile", Subject) :
        /\ built' = ok
        /\ binary' = IF ok THEN Subject ELSE binary
        /\ CASE target = "baseline"        -> pc' = "prepare"
             [] target # "baseline" /\ ok  -> pc' = "analyze"
             [] OTHER                      -> Rejected
  BY DEF Compile
<1>2. ok \in BOOLEAN
  BY VerdictsBoolean
<1>3. ok => "compile" \in Good[Subject]
  BY <1>2, Verdict
<1> QED
  BY <1>1, <1>2, <1>3 DEF Compile

LEMMA PrepareFacts ==
  ASSUME TypeOK, PrepareBaseline
  PROVE  /\ pc = "prepare"
         /\ UNCHANGED <<loop, disk, patcher, mishaps>>
         /\ \/ pc' = "exit" /\ result' = "error"
            \/ pc' = "publish" /\ result' = "noop"
            \/ pc' = "propose" /\ result' = result
<1>1. PICK ran \in Verdicts("test", binary), clean \in Verdicts("analysis", source),
           usable \in BOOLEAN :
        LET b == BaselineIs(ran, clean, usable)
        IN  CASE b = "error"  -> End("error")
              [] b = "noop"   -> pc' = "publish" /\ result' = "noop"
              [] b = "repair" -> pc' = "propose" /\ UNCHANGED result
  BY DEF PrepareBaseline
<1>2. BaselineIs(ran, clean, usable) \in {"error", "noop", "repair"}
  BY TypeOK, RunAssumption DEF BaselineIs, TypeOK, Config, Modes
<1> QED
  BY <1>1, <1>2 DEF PrepareBaseline, End

LEMMA GateFacts ==
  ASSUME NEW at, NEW G, NEW STATE text, NEW STATE next, Gate(at, G, text, next)
  PROVE  /\ pc = at
         /\ UNCHANGED <<loop, disk, patcher, result, mishaps>>
         /\ \/ pc' = next /\ GatesOf(config) \cap G \subseteq Good[text]
            \/ Rejected
<1>1. PICK ok \in [G \cap GatesOf(config) -> BOOLEAN] :
        /\ \A g \in DOMAIN ok : ok[g] \in Verdicts(g, text)
        /\ IF \A g \in DOMAIN ok : ok[g] THEN pc' = next ELSE Rejected
  BY DEF Gate
<1>2. CASE \A g \in DOMAIN ok : ok[g]
  <2>1. \A g \in G \cap GatesOf(config) : ok[g] = TRUE
    BY <1>2
  <2>2. \A g \in G \cap GatesOf(config) : g \in Good[text]
    BY <1>1, <2>1, Verdict
  <2> QED
    BY <1>1, <1>2, <2>2 DEF Gate
<1> QED
  BY <1>1, <1>2 DEF Gate
-----------------------------------------------------------------------------
(* The invariant is inductive, whatever faults happen.                     *)

LEMMA AnalyzeFacts ==
  ASSUME Analyze
  PROVE  /\ pc = "analyze" /\ UNCHANGED <<loop, disk, patcher, result, mishaps>>
         /\ \/ pc' = "test" /\ GatesOf(config) \cap {"analysis"} \subseteq Good[Subject]
            \/ Rejected
  BY GateFacts DEF Analyze

LEMMA TestFacts ==
  ASSUME Test
  PROVE  /\ pc = "test" /\ UNCHANGED <<loop, disk, patcher, result, mishaps>>
         /\ \/ /\ pc' = "benchmark"
               /\ GatesOf(config) \cap {"test", "output"} \subseteq Good[binary]
            \/ Rejected
  BY GateFacts DEF Test, Tested

LEMMA BenchmarkFacts ==
  ASSUME Benchmark
  PROVE  /\ pc = "benchmark" /\ UNCHANGED <<loop, disk, patcher, result, mishaps>>
         /\ \/ /\ pc' = IF target = "final" THEN "commit" ELSE "check"
               /\ GatesOf(config) \cap {"speed"} \subseteq Good[binary]
            \/ Rejected
  BY GateFacts DEF Benchmark

USE DEF Accepted, Verifying, Owner, vars, loop, disk, patcher, End

\* What the candidate and the copy are when they are written to disk.
LEMMA Holding ==
  ASSUME Inv
  PROVE  /\ TypeOK
         /\ pc = "fresh" => candidate \in Revisions \cup {Original}
         /\ pc \in {"stage", "list", "mark"} => candidate \in Revisions
         /\ pc = "replace" => candidate \in Revisions /\ backup \in Owner
         /\ pc = "revert" => backup \in Owner
  BY DEF Inv, TypeOK, Gating, Promotion, Backup, Gated

LEMMA TypeStep ==
  ASSUME Inv, [Next]_vars
  PROVE  TypeOK'
<1> USE Holding, TextsAssumption, RunAssumption DEF TypeOK, Texts, Steps, Results
<1>1. CASE Start
  BY <1>1 DEF Start
<1>2. CASE Compile
  BY <1>2, CompileFacts DEF Rejected, Subject
<1>3. CASE PrepareBaseline
  BY <1>3, PrepareFacts DEF Rejected, Subject
<1>4. ASSUME NEW c \in Revisions \cup {Original}, Propose(c) PROVE TypeOK'
  BY <1>4 DEF Propose, AttemptsLeft
<1>5. CASE RejectDuplicate
  BY <1>5 DEF RejectDuplicate, CountedDuplicates
<1>6. CASE AcceptNew
  BY <1>6 DEF AcceptNew
<1>7. CASE NoCandidate
  BY <1>7 DEF NoCandidate, AttemptsLeft
<1>8. CASE Exhausted
  BY <1>8 DEF Exhausted, AttemptsLeft
<1>9. CASE Stage
  BY <1>9 DEF Stage
<1>10. CASE ListStaged
  BY <1>10 DEF ListStaged
<1>11. CASE Analyze
  BY <1>11, AnalyzeFacts DEF Rejected, Subject
<1>12. CASE Test
  BY <1>12, TestFacts DEF Rejected, Subject
<1>13. CASE Benchmark
  BY <1>13, BenchmarkFacts DEF Rejected, Subject
<1>14. CASE CheckSource
  BY <1>14 DEF CheckSource, SourceUnchanged, FirstOfPromote
<1>15. CASE CopySource
  BY <1>15 DEF CopySource
<1>16. CASE RegisterCopy
  BY <1>16 DEF RegisterCopy
<1>17. CASE Replace
  BY <1>17 DEF Replace
<1>18. CASE MarkPromoted
  BY <1>18 DEF MarkPromoted
<1>19. CASE Revert
  BY <1>19 DEF Revert, PutBack
<1>20. CASE Commit
  BY <1>20 DEF Commit, Cleanup, StagedLeft
<1>21. CASE Publish
  BY <1>21 DEF Publish
<1>22. CASE Exit
  <2>1. source' \in Texts /\ backup' \in Texts \cup {NoFile}
    BY <1>22 DEF Exit, PutBack, Uncommitted
  <2>2. staged' \subseteq Revisions /\ listed' \subseteq Revisions /\ promoted' \in BOOLEAN
    BY <1>22 DEF Exit, PutBack, Uncommitted
  <2>3. published' \in Texts \cup {NoFile} /\ UNCHANGED <<loop, backupPath, result, mishaps>>
    BY <1>22 DEF Exit, PutBack, Uncommitted
  <2>4. pc' \in Steps
    BY <1>22 DEF Exit
  <2> QED
    BY <2>1, <2>2, <2>3, <2>4
<1>23. CASE ExitCleanup
  <2>1. source' \in Texts /\ backup' \in Texts \cup {NoFile}
    BY <1>23 DEF ExitCleanup, Cleanup, StagedLeft
  <2>2. staged' \subseteq Revisions /\ listed' \subseteq Revisions /\ promoted' \in BOOLEAN
    BY <1>23 DEF ExitCleanup, Cleanup, StagedLeft
  <2>3. published' \in Texts \cup {NoFile} /\ UNCHANGED <<loop, backupPath, result, mishaps>>
    BY <1>23 DEF ExitCleanup, Cleanup, StagedLeft
  <2>4. pc' \in Steps
    BY <1>23 DEF ExitCleanup
  <2> QED
    BY <2>1, <2>2, <2>3, <2>4
<1>24. CASE Raise
  BY <1>24 DEF Raise, Aborted
<1>25. CASE StageFails
  BY <1>25 DEF StageFails
<1>26. CASE CopyFails
  <2>1. mishaps' \subseteq Mishaps
    BY <1>26 DEF CopyFails, Mishaps
  <2> QED
    BY <1>26, <2>1 DEF CopyFails
<1>27. CASE ReplaceFails
  BY <1>27 DEF ReplaceFails, PutBack
<1>28. CASE RevertFails
  <2>1. mishaps' \subseteq Mishaps
    BY <1>28 DEF RevertFails, UndoLost, Uncommitted, Mishaps
  <2>2. pc' \in Steps /\ result' \in Results
    BY <1>28 DEF RevertFails, UndoLost, Uncommitted
  <2>3. UNCHANGED <<loop, disk, patcher>>
    BY <1>28 DEF RevertFails
  <2> QED
    BY <2>1, <2>2, <2>3
<1>29. CASE CleanupFails
  <2>1. mishaps' \subseteq Mishaps
    BY <1>29 DEF CleanupFails, StagedLeft, Mishaps
  <2> QED
    BY <1>29, <2>1 DEF CleanupFails, StagedLeft
<1>30. CASE Interrupt
  <2>1. mishaps' \subseteq Mishaps
    BY <1>30 DEF Interrupt, HalfDone, Mishaps
  <2> QED
    BY <1>30, <2>1 DEF Interrupt, HalfDone
<1>31. CASE InterruptExit
  <2>1. mishaps' \subseteq Mishaps
    BY <1>31 DEF InterruptExit, UndoLost, Uncommitted, Mishaps
  <2>2. pc' \in Steps /\ result' \in Results
    BY <1>31 DEF InterruptExit, UndoLost, Uncommitted
  <2>3. UNCHANGED <<loop, disk, patcher>>
    BY <1>31 DEF InterruptExit
  <2> QED
    BY <2>1, <2>2, <2>3
<1>32. CASE Crash
  BY <1>32 DEF Crash
<1>33. ASSUME NEW e \in Edits, ExternalEdit(e) PROVE TypeOK'
  <2>1. mishaps' \subseteq Mishaps
    BY <1>33 DEF ExternalEdit, Mishaps
  <2>2. source' \in Texts
    BY <1>33 DEF ExternalEdit
  <2>3. UNCHANGED <<loop, pc, backup, staged, published, patcher, result>>
    BY <1>33 DEF ExternalEdit
  <2> QED
    BY <2>1, <2>2, <2>3
<1>34. CASE UNCHANGED vars
  BY <1>34
<1> QED
  BY <1>1, <1>2, <1>3, <1>4, <1>5, <1>6, <1>7, <1>8, <1>9, <1>10, <1>11, <1>12,
     <1>13, <1>14, <1>15, <1>16, <1>17, <1>18, <1>19, <1>20, <1>21, <1>22, <1>23,
     <1>24, <1>25, <1>26, <1>27, <1>28, <1>29, <1>30, <1>31, <1>32, <1>33, <1>34
  DEF Next, Run, Environment

LEMMA GatingStep ==
  ASSUME Inv, [Next]_vars
  PROVE  Gating'
<1> USE TextsAssumption, RunAssumption
  DEF Inv, TypeOK, Gating, Gated, GatesOf, Promotion
<1>1. CASE Start
  BY <1>1 DEF Start
<1>2. CASE Compile
  BY <1>2, CompileFacts DEF Rejected, Subject
<1>3. CASE PrepareBaseline
  BY <1>3, PrepareFacts DEF Rejected, Subject
<1>4. ASSUME NEW c \in Revisions \cup {Original}, Propose(c) PROVE Gating'
  BY <1>4 DEF Propose, AttemptsLeft
<1>5. CASE RejectDuplicate
  BY <1>5 DEF RejectDuplicate, CountedDuplicates
<1>6. CASE AcceptNew
  BY <1>6 DEF AcceptNew
<1>7. CASE NoCandidate
  BY <1>7 DEF NoCandidate, AttemptsLeft
<1>8. CASE Exhausted
  BY <1>8 DEF Exhausted, AttemptsLeft
<1>9. CASE Stage
  BY <1>9 DEF Stage
<1>10. CASE ListStaged
  BY <1>10 DEF ListStaged
<1>11. CASE Analyze
  BY <1>11, AnalyzeFacts DEF Rejected, Subject
<1>12. CASE Test
  BY <1>12, TestFacts DEF Rejected, Subject
<1>13. CASE Benchmark
  BY <1>13, BenchmarkFacts DEF Rejected, Subject
<1>14. CASE CheckSource
  BY <1>14 DEF CheckSource, SourceUnchanged, FirstOfPromote
<1>15. CASE CopySource
  BY <1>15 DEF CopySource
<1>16. CASE RegisterCopy
  BY <1>16 DEF RegisterCopy
<1>17. CASE Replace
  BY <1>17 DEF Replace
<1>18. CASE MarkPromoted
  BY <1>18 DEF MarkPromoted
<1>19. CASE Revert
  BY <1>19 DEF Revert, PutBack
<1>20. CASE Commit
  BY <1>20 DEF Commit, Cleanup, StagedLeft
<1>21. CASE Publish
  BY <1>21 DEF Publish
<1>22. CASE Exit
  BY <1>22 DEF Exit, PutBack, Uncommitted
<1>23. CASE ExitCleanup
  BY <1>23 DEF ExitCleanup, Cleanup, StagedLeft
<1>24. CASE Raise
  BY <1>24 DEF Raise, Aborted
<1>25. CASE StageFails
  BY <1>25 DEF StageFails
<1>26. CASE CopyFails
  BY <1>26 DEF CopyFails
<1>27. CASE ReplaceFails
  BY <1>27 DEF ReplaceFails, PutBack
<1>28. CASE RevertFails
  BY <1>28 DEF RevertFails, UndoLost, Uncommitted
<1>29. CASE CleanupFails
  BY <1>29 DEF CleanupFails, StagedLeft
<1>30. CASE Interrupt
  BY <1>30 DEF Interrupt, HalfDone
<1>31. CASE InterruptExit
  BY <1>31 DEF InterruptExit, UndoLost, Uncommitted
<1>32. CASE Crash
  BY <1>32 DEF Crash
<1>33. ASSUME NEW e \in Edits, ExternalEdit(e) PROVE Gating'
  BY <1>33 DEF ExternalEdit
<1>34. CASE UNCHANGED vars
  BY <1>34
<1> QED
  BY <1>1, <1>2, <1>3, <1>4, <1>5, <1>6, <1>7, <1>8, <1>9, <1>10, <1>11, <1>12,
     <1>13, <1>14, <1>15, <1>16, <1>17, <1>18, <1>19, <1>20, <1>21, <1>22, <1>23,
     <1>24, <1>25, <1>26, <1>27, <1>28, <1>29, <1>30, <1>31, <1>32, <1>33, <1>34
  DEF Next, Run, Environment

LEMMA PromotionStep ==
  ASSUME Inv, [Next]_vars
  PROVE  Promotion'
<1> USE TextsAssumption, RunAssumption DEF Inv, TypeOK, Gating, Promotion, Gated
<1>1. CASE Start
  BY <1>1 DEF Start
<1>2. CASE Compile
  BY <1>2, CompileFacts DEF Rejected, Subject
<1>3. CASE PrepareBaseline
  BY <1>3, PrepareFacts DEF Rejected, Subject
<1>4. ASSUME NEW c \in Revisions \cup {Original}, Propose(c) PROVE Promotion'
  BY <1>4 DEF Propose, AttemptsLeft
<1>5. CASE RejectDuplicate
  BY <1>5 DEF RejectDuplicate, CountedDuplicates
<1>6. CASE AcceptNew
  BY <1>6 DEF AcceptNew
<1>7. CASE NoCandidate
  BY <1>7 DEF NoCandidate, AttemptsLeft
<1>8. CASE Exhausted
  BY <1>8 DEF Exhausted, AttemptsLeft
<1>9. CASE Stage
  BY <1>9 DEF Stage
<1>10. CASE ListStaged
  BY <1>10 DEF ListStaged
<1>11. CASE Analyze
  BY <1>11, AnalyzeFacts DEF Rejected, Subject
<1>12. CASE Test
  BY <1>12, TestFacts DEF Rejected, Subject
<1>13. CASE Benchmark
  BY <1>13, BenchmarkFacts DEF Rejected, Subject
<1>14. CASE CheckSource
  BY <1>14 DEF CheckSource, SourceUnchanged, FirstOfPromote
<1>15. CASE CopySource
  BY <1>15 DEF CopySource
<1>16. CASE RegisterCopy
  BY <1>16 DEF RegisterCopy
<1>17. CASE Replace
  BY <1>17 DEF Replace
<1>18. CASE MarkPromoted
  BY <1>18 DEF MarkPromoted
<1>19. CASE Revert
  BY <1>19 DEF Revert, PutBack
<1>20. CASE Commit
  BY <1>20 DEF Commit, Cleanup, StagedLeft
<1>21. CASE Publish
  BY <1>21 DEF Publish
<1>22. CASE Exit
  BY <1>22 DEF Exit, PutBack, Uncommitted
<1>23. CASE ExitCleanup
  BY <1>23 DEF ExitCleanup, Cleanup, StagedLeft
<1>24. CASE Raise
  BY <1>24 DEF Raise, Aborted
<1>25. CASE StageFails
  BY <1>25 DEF StageFails
<1>26. CASE CopyFails
  BY <1>26 DEF CopyFails
<1>27. CASE ReplaceFails
  BY <1>27 DEF ReplaceFails, PutBack
<1>28. CASE RevertFails
  BY <1>28 DEF RevertFails, UndoLost, Uncommitted
<1>29. CASE CleanupFails
  BY <1>29 DEF CleanupFails, StagedLeft
<1>30. CASE Interrupt
  BY <1>30 DEF Interrupt, HalfDone
<1>31. CASE InterruptExit
  BY <1>31 DEF InterruptExit, UndoLost, Uncommitted
<1>32. CASE Crash
  BY <1>32 DEF Crash
<1>33. ASSUME NEW e \in Edits, ExternalEdit(e) PROVE Promotion'
  BY <1>33 DEF ExternalEdit
<1>34. CASE UNCHANGED vars
  BY <1>34
<1> QED
  BY <1>1, <1>2, <1>3, <1>4, <1>5, <1>6, <1>7, <1>8, <1>9, <1>10, <1>11, <1>12,
     <1>13, <1>14, <1>15, <1>16, <1>17, <1>18, <1>19, <1>20, <1>21, <1>22, <1>23,
     <1>24, <1>25, <1>26, <1>27, <1>28, <1>29, <1>30, <1>31, <1>32, <1>33, <1>34
  DEF Next, Run, Environment

LEMMA BackupStep ==
  ASSUME Inv, [Next]_vars
  PROVE  Backup'
<1> USE TextsAssumption, RunAssumption DEF Inv, TypeOK, Promotion, Backup, Gated
<1>1. CASE Start
  BY <1>1 DEF Start
<1>2. CASE Compile
  BY <1>2, CompileFacts DEF Rejected, Subject
<1>3. CASE PrepareBaseline
  BY <1>3, PrepareFacts DEF Rejected, Subject
<1>4. ASSUME NEW c \in Revisions \cup {Original}, Propose(c) PROVE Backup'
  BY <1>4 DEF Propose, AttemptsLeft
<1>5. CASE RejectDuplicate
  BY <1>5 DEF RejectDuplicate, CountedDuplicates
<1>6. CASE AcceptNew
  BY <1>6 DEF AcceptNew
<1>7. CASE NoCandidate
  BY <1>7 DEF NoCandidate, AttemptsLeft
<1>8. CASE Exhausted
  BY <1>8 DEF Exhausted, AttemptsLeft
<1>9. CASE Stage
  BY <1>9 DEF Stage
<1>10. CASE ListStaged
  BY <1>10 DEF ListStaged
<1>11. CASE Analyze
  BY <1>11, AnalyzeFacts DEF Rejected, Subject
<1>12. CASE Test
  BY <1>12, TestFacts DEF Rejected, Subject
<1>13. CASE Benchmark
  BY <1>13, BenchmarkFacts DEF Rejected, Subject
<1>14. CASE CheckSource
  BY <1>14 DEF CheckSource, SourceUnchanged, FirstOfPromote
<1>15. CASE CopySource
  BY <1>15 DEF CopySource
<1>16. CASE RegisterCopy
  BY <1>16 DEF RegisterCopy
<1>17. CASE Replace
  BY <1>17 DEF Replace
<1>18. CASE MarkPromoted
  BY <1>18 DEF MarkPromoted
<1>19. CASE Revert
  BY <1>19 DEF Revert, PutBack
<1>20. CASE Commit
  BY <1>20 DEF Commit, Cleanup, StagedLeft
<1>21. CASE Publish
  BY <1>21 DEF Publish
<1>22. CASE Exit
  BY <1>22 DEF Exit, PutBack, Uncommitted
<1>23. CASE ExitCleanup
  BY <1>23 DEF ExitCleanup, Cleanup, StagedLeft
<1>24. CASE Raise
  BY <1>24 DEF Raise, Aborted
<1>25. CASE StageFails
  BY <1>25 DEF StageFails
<1>26. CASE CopyFails
  BY <1>26 DEF CopyFails
<1>27. CASE ReplaceFails
  BY <1>27 DEF ReplaceFails, PutBack
<1>28. CASE RevertFails
  BY <1>28 DEF RevertFails, UndoLost, Uncommitted
<1>29. CASE CleanupFails
  BY <1>29 DEF CleanupFails, StagedLeft
<1>30. CASE Interrupt
  BY <1>30 DEF Interrupt, HalfDone
<1>31. CASE InterruptExit
  BY <1>31 DEF InterruptExit, UndoLost, Uncommitted
<1>32. CASE Crash
  BY <1>32 DEF Crash
<1>33. ASSUME NEW e \in Edits, ExternalEdit(e) PROVE Backup'
  BY <1>33 DEF ExternalEdit
<1>34. CASE UNCHANGED vars
  BY <1>34
<1> QED
  BY <1>1, <1>2, <1>3, <1>4, <1>5, <1>6, <1>7, <1>8, <1>9, <1>10, <1>11, <1>12,
     <1>13, <1>14, <1>15, <1>16, <1>17, <1>18, <1>19, <1>20, <1>21, <1>22, <1>23,
     <1>24, <1>25, <1>26, <1>27, <1>28, <1>29, <1>30, <1>31, <1>32, <1>33, <1>34
  DEF Next, Run, Environment

LEMMA MarkedStep ==
  ASSUME Inv, [Next]_vars
  PROVE  Marked'
<1> USE TextsAssumption, RunAssumption DEF Inv, TypeOK, Promotion, Backup, Marked, Texts
<1>1. CASE Start
  BY <1>1 DEF Start
<1>2. CASE Compile
  BY <1>2, CompileFacts DEF Rejected, Subject
<1>3. CASE PrepareBaseline
  BY <1>3, PrepareFacts DEF Rejected, Subject
<1>4. ASSUME NEW c \in Revisions \cup {Original}, Propose(c) PROVE Marked'
  BY <1>4 DEF Propose, AttemptsLeft
<1>5. CASE RejectDuplicate
  BY <1>5 DEF RejectDuplicate, CountedDuplicates
<1>6. CASE AcceptNew
  BY <1>6 DEF AcceptNew
<1>7. CASE NoCandidate
  BY <1>7 DEF NoCandidate, AttemptsLeft
<1>8. CASE Exhausted
  BY <1>8 DEF Exhausted, AttemptsLeft
<1>9. CASE Stage
  BY <1>9 DEF Stage
<1>10. CASE ListStaged
  BY <1>10 DEF ListStaged
<1>11. CASE Analyze
  BY <1>11, AnalyzeFacts DEF Rejected, Subject
<1>12. CASE Test
  BY <1>12, TestFacts DEF Rejected, Subject
<1>13. CASE Benchmark
  BY <1>13, BenchmarkFacts DEF Rejected, Subject
<1>14. CASE CheckSource
  BY <1>14 DEF CheckSource, SourceUnchanged, FirstOfPromote
<1>15. CASE CopySource
  BY <1>15 DEF CopySource
<1>16. CASE RegisterCopy
  BY <1>16 DEF RegisterCopy
<1>17. CASE Replace
  BY <1>17 DEF Replace
<1>18. CASE MarkPromoted
  BY <1>18 DEF MarkPromoted
<1>19. CASE Revert
  BY <1>19 DEF Revert, PutBack
<1>20. CASE Commit
  BY <1>20 DEF Commit, Cleanup, StagedLeft
<1>21. CASE Publish
  BY <1>21 DEF Publish
<1>22. CASE Exit
  BY <1>22 DEF Exit, PutBack, Uncommitted
<1>23. CASE ExitCleanup
  BY <1>23 DEF ExitCleanup, Cleanup, StagedLeft
<1>24. CASE Raise
  BY <1>24 DEF Raise, Aborted
<1>25. CASE StageFails
  BY <1>25 DEF StageFails
<1>26. CASE CopyFails
  BY <1>26 DEF CopyFails
<1>27. CASE ReplaceFails
  BY <1>27 DEF ReplaceFails, PutBack
<1>28. CASE RevertFails
  BY <1>28 DEF RevertFails, UndoLost, Uncommitted
<1>29. CASE CleanupFails
  BY <1>29 DEF CleanupFails, StagedLeft
<1>30. CASE Interrupt
  BY <1>30 DEF Interrupt, HalfDone
<1>31. CASE InterruptExit
  BY <1>31 DEF InterruptExit, UndoLost, Uncommitted
<1>32. CASE Crash
  BY <1>32 DEF Crash
<1>33. ASSUME NEW e \in Edits, ExternalEdit(e) PROVE Marked'
  BY <1>33 DEF ExternalEdit
<1>34. CASE UNCHANGED vars
  BY <1>34
<1> QED
  BY <1>1, <1>2, <1>3, <1>4, <1>5, <1>6, <1>7, <1>8, <1>9, <1>10, <1>11, <1>12,
     <1>13, <1>14, <1>15, <1>16, <1>17, <1>18, <1>19, <1>20, <1>21, <1>22, <1>23,
     <1>24, <1>25, <1>26, <1>27, <1>28, <1>29, <1>30, <1>31, <1>32, <1>33, <1>34
  DEF Next, Run, Environment

LEMMA InvStep ==
  ASSUME Inv, [Next]_vars
  PROVE  Inv'
BY TypeStep, GatingStep, PromotionStep, BackupStep, MarkedStep DEF Inv

LEMMA InitInv ==
  ASSUME Init
  PROVE  Inv
<1>1. TypeOK
  <2>1. attempt \in 0 .. MaxAttempts
    BY RunAssumption DEF Init
  <2>2. config \in Configs /\ pc \in Steps /\ target \in {"baseline", "candidate", "final"}
    BY DEF Init, Steps
  <2>3. built \in BOOLEAN /\ backupPath \in BOOLEAN /\ promoted \in BOOLEAN
    BY DEF Init
  <2>4. source \in Texts /\ seen \subseteq Texts /\ staged \subseteq Revisions
    BY DEF Init, Texts
  <2>7. listed \subseteq Revisions /\ mishaps \subseteq Mishaps
    BY DEF Init
  <2>5. NoFile \in {candidate} /\ NoFile = binary /\ NoFile = backup /\ NoFile = published
    BY DEF Init
  <2>6. result \in Results
    BY DEF Init, Results
  <2> QED
    BY <2>1, <2>2, <2>3, <2>4, <2>5, <2>6, <2>7 DEF TypeOK
<1>2. Gating /\ Promotion
  BY DEF Init, Gating, Promotion
<1>3. Backup /\ Marked
  BY DEF Init, Backup, Marked
<1> QED
  BY <1>1, <1>2, <1>3 DEF Inv

-----------------------------------------------------------------------------
(* What holds under every fault and every editor.                          *)

LEMMA Invariance == Spec => []Inv
BY InitInv, InvStep, PTL DEF Spec

\* Every variable of the loop and of the disk keeps its type.
THEOREM TypeCorrect == Spec => []TypeOK
<1>1. Inv => TypeOK
  BY DEF Inv
<1> QED
  BY <1>1, Invariance, PTL

\* "Source updated only after every configured gate passed": whatever fails,
\* whoever writes the file, and however the run ends, no revision that lacks a
\* gate is ever in the source file.
THEOREM NothingUngated == Spec => []OnlyGatedInstalled
<1>1. Inv => OnlyGatedInstalled
  BY DEF Inv, Backup, OnlyGatedInstalled
<1> QED
  BY <1>1, Invariance, PTL

-----------------------------------------------------------------------------
(* The binary, and what is left beside the source: under every fault, too.  *)

\* The binary that is under the final verification is the one that was gated,
\* and once that is over it has passed everything that reads a binary.
Verified(text) == {"compile"} \cup (GatesOf(config) \ {"analysis"}) \subseteq Good[text]

BinaryInv ==
  /\ target = "final" /\ pc \in {"analyze", "test", "benchmark"} => "compile" \in Good[binary]
  /\ target = "final" /\ pc = "benchmark"
       => GatesOf(config) \cap {"test", "output"} \subseteq Good[binary]
  /\ target = "final" /\ pc = "commit" => Verified(binary)
  /\ Accepted => Verified(binary)
  /\ pc \notin {"exit", "cleanup", "done", "crashed"} => published = NoFile
  /\ result = "success" /\ published # NoFile => Verified(published)

\* Nothing is made before the run begins, what is made is listed, and the last
\* step of a run deletes what is listed.
TidyInv ==
  /\ pc = "start" => staged = {} /\ backup = NoFile
  /\ pc = "mark" => candidate \notin staged
  /\ pc # "crashed" /\ "unnamed" \notin mishaps =>
       /\ staged \subseteq listed \cup (IF pc = "list" THEN {candidate} ELSE {})
       /\ pc # "copy" => (backup = NoFile \/ backupPath)
  /\ NothingLeftBehind

LEMMA BinaryStep ==
  ASSUME Inv, BinaryInv, [Next]_vars
  PROVE  BinaryInv'
<1> USE TextsAssumption, RunAssumption DEF Inv, TypeOK, Results, Steps, Promotion, Marked, BinaryInv, Verified, GatesOf
<1>1. CASE Start
  BY <1>1 DEF Start
<1>2. CASE Compile
  BY <1>2, CompileFacts DEF Rejected, Subject
<1>3. CASE PrepareBaseline
  BY <1>3, PrepareFacts DEF Rejected, Subject
<1>4. ASSUME NEW c \in Revisions \cup {Original}, Propose(c) PROVE BinaryInv'
  BY <1>4 DEF Propose, AttemptsLeft
<1>5. CASE RejectDuplicate
  BY <1>5 DEF RejectDuplicate, CountedDuplicates
<1>6. CASE AcceptNew
  BY <1>6 DEF AcceptNew
<1>7. CASE NoCandidate
  BY <1>7 DEF NoCandidate, AttemptsLeft
<1>8. CASE Exhausted
  BY <1>8 DEF Exhausted, AttemptsLeft
<1>9. CASE Stage
  BY <1>9 DEF Stage
<1>10. CASE ListStaged
  BY <1>10 DEF ListStaged
<1>11. CASE Analyze
  BY <1>11, AnalyzeFacts DEF Rejected, Subject
<1>12. CASE Test
  BY <1>12, TestFacts DEF Rejected, Subject
<1>13. CASE Benchmark
  BY <1>13, BenchmarkFacts DEF Rejected, Subject
<1>14. CASE CheckSource
  BY <1>14 DEF CheckSource, SourceUnchanged, FirstOfPromote
<1>15. CASE CopySource
  BY <1>15 DEF CopySource
<1>16. CASE RegisterCopy
  BY <1>16 DEF RegisterCopy
<1>17. CASE Replace
  BY <1>17 DEF Replace
<1>18. CASE MarkPromoted
  BY <1>18 DEF MarkPromoted
<1>19. CASE Revert
  BY <1>19 DEF Revert, PutBack
<1>20. CASE Commit
  BY <1>20 DEF Commit, Cleanup, StagedLeft
<1>21. CASE Publish
  BY <1>21 DEF Publish
<1>22. CASE Exit
  BY <1>22 DEF Exit, PutBack, Uncommitted
<1>23. CASE ExitCleanup
  BY <1>23 DEF ExitCleanup, Cleanup, StagedLeft
<1>24. CASE Raise
  BY <1>24 DEF Raise, Aborted
<1>25. CASE StageFails
  BY <1>25 DEF StageFails
<1>26. CASE CopyFails
  BY <1>26 DEF CopyFails
<1>27. CASE ReplaceFails
  BY <1>27 DEF ReplaceFails, PutBack
<1>28. CASE RevertFails
  BY <1>28 DEF RevertFails, UndoLost, Uncommitted
<1>29. CASE CleanupFails
  BY <1>29 DEF CleanupFails, StagedLeft
<1>30. CASE Interrupt
  BY <1>30 DEF Interrupt, HalfDone
<1>31. CASE InterruptExit
  BY <1>31 DEF InterruptExit, UndoLost, Uncommitted
<1>32. CASE Crash
  BY <1>32 DEF Crash
<1>33. ASSUME NEW e \in Edits, ExternalEdit(e) PROVE BinaryInv'
  BY <1>33 DEF ExternalEdit
<1>34. CASE UNCHANGED vars
  BY <1>34
<1> QED
  BY <1>1, <1>2, <1>3, <1>4, <1>5, <1>6, <1>7, <1>8, <1>9, <1>10, <1>11, <1>12,
     <1>13, <1>14, <1>15, <1>16, <1>17, <1>18, <1>19, <1>20, <1>21, <1>22, <1>23,
     <1>24, <1>25, <1>26, <1>27, <1>28, <1>29, <1>30, <1>31, <1>32, <1>33, <1>34
  DEF Next, Run, Environment

LEMMA TidyStep ==
  ASSUME Inv, TidyInv, [Next]_vars
  PROVE  TidyInv'
<1> USE TextsAssumption, RunAssumption DEF Inv, TypeOK, Backup, TidyInv, NothingLeftBehind
<1>1. CASE Start
  BY <1>1 DEF Start
<1>2. CASE Compile
  BY <1>2, CompileFacts DEF Rejected, Subject
<1>3. CASE PrepareBaseline
  BY <1>3, PrepareFacts DEF Rejected, Subject
<1>4. ASSUME NEW c \in Revisions \cup {Original}, Propose(c) PROVE TidyInv'
  BY <1>4 DEF Propose, AttemptsLeft
<1>5. CASE RejectDuplicate
  BY <1>5 DEF RejectDuplicate, CountedDuplicates
<1>6. CASE AcceptNew
  BY <1>6 DEF AcceptNew
<1>7. CASE NoCandidate
  BY <1>7 DEF NoCandidate, AttemptsLeft
<1>8. CASE Exhausted
  BY <1>8 DEF Exhausted, AttemptsLeft
<1>9. CASE Stage
  BY <1>9 DEF Stage
<1>10. CASE ListStaged
  BY <1>10 DEF ListStaged
<1>11. CASE Analyze
  BY <1>11, AnalyzeFacts DEF Rejected, Subject
<1>12. CASE Test
  BY <1>12, TestFacts DEF Rejected, Subject
<1>13. CASE Benchmark
  BY <1>13, BenchmarkFacts DEF Rejected, Subject
<1>14. CASE CheckSource
  BY <1>14 DEF CheckSource, SourceUnchanged, FirstOfPromote
<1>15. CASE CopySource
  BY <1>15 DEF CopySource
<1>16. CASE RegisterCopy
  BY <1>16 DEF RegisterCopy
<1>17. CASE Replace
  BY <1>17 DEF Replace
<1>18. CASE MarkPromoted
  BY <1>18 DEF MarkPromoted
<1>19. CASE Revert
  BY <1>19 DEF Revert, PutBack
<1>20. CASE Commit
  BY <1>20 DEF Commit, Cleanup, StagedLeft
<1>21. CASE Publish
  BY <1>21 DEF Publish
<1>22. CASE Exit
  BY <1>22 DEF Exit, PutBack, Uncommitted
<1>23. CASE ExitCleanup
  BY <1>23 DEF ExitCleanup, Cleanup, StagedLeft
<1>24. CASE Raise
  BY <1>24 DEF Raise, Aborted
<1>25. CASE StageFails
  BY <1>25 DEF StageFails
<1>26. CASE CopyFails
  BY <1>26 DEF CopyFails
<1>27. CASE ReplaceFails
  BY <1>27 DEF ReplaceFails, PutBack
<1>28. CASE RevertFails
  BY <1>28 DEF RevertFails, UndoLost, Uncommitted
<1>29. CASE CleanupFails
  BY <1>29 DEF CleanupFails, StagedLeft
<1>30. CASE Interrupt
  BY <1>30 DEF Interrupt, HalfDone
<1>31. CASE InterruptExit
  BY <1>31 DEF InterruptExit, UndoLost, Uncommitted
<1>32. CASE Crash
  BY <1>32 DEF Crash
<1>33. ASSUME NEW e \in Edits, ExternalEdit(e) PROVE TidyInv'
  BY <1>33 DEF ExternalEdit
<1>34. CASE UNCHANGED vars
  BY <1>34
<1> QED
  BY <1>1, <1>2, <1>3, <1>4, <1>5, <1>6, <1>7, <1>8, <1>9, <1>10, <1>11, <1>12,
     <1>13, <1>14, <1>15, <1>16, <1>17, <1>18, <1>19, <1>20, <1>21, <1>22, <1>23,
     <1>24, <1>25, <1>26, <1>27, <1>28, <1>29, <1>30, <1>31, <1>32, <1>33, <1>34
  DEF Next, Run, Environment

LEMMA OutcomeInvariance == Spec => [](Inv /\ BinaryInv /\ TidyInv)
<1>1. Init => BinaryInv /\ TidyInv
  BY DEF Init, BinaryInv, TidyInv, NothingLeftBehind
<1>2. Inv /\ BinaryInv /\ TidyInv /\ [Next]_vars => (BinaryInv /\ TidyInv)'
  BY BinaryStep, TidyStep
<1> QED
  BY <1>1, <1>2, Invariance, PTL DEF Spec

\* A published binary of an accepted revision passed the compiler, the tests and
\* the benchmark as it is, whatever an editor did to the file between the two
\* verifications: what is published is what the final gates ran.
THEOREM PublishedIsVerified == Spec => []AcceptedBinaryVerified
<1>1. BinaryInv => AcceptedBinaryVerified
  BY DEF BinaryInv, Verified, AcceptedBinaryVerified
<1> QED
  BY <1>1, OutcomeInvariance, PTL

\* However a run ends that is not killed, in success, failure, an exception or
\* Ctrl-C at any step, no candidate and no rollback copy is left beside the
\* source, unless it was cut short before it could note the name of a file it
\* had made, or while it was cleaning up.
THEOREM RunsAreTidy == Spec => []NothingLeftBehind
<1>1. TidyInv => NothingLeftBehind
  BY DEF TidyInv
<1> QED
  BY <1>1, OutcomeInvariance, PTL

-----------------------------------------------------------------------------
(* Leaving the with statement with a promotion it knows of and can undo.   *)

LEMMA UndoneStep ==
  ASSUME Inv, Undone, [Next]_vars
  PROVE  Undone'
<1> USE TextsAssumption, RunAssumption
  DEF Inv, TypeOK, Promotion, Backup, Marked, Undone, Stranded, Gated, Texts, Steps
<1>1. CASE Start
  BY <1>1 DEF Start
<1>2. CASE Compile
  <2>1. pc \in {"compile"} /\ pc' \notin {"exit", "cleanup", "done", "crashed"}
    BY <1>2, CompileFacts DEF Rejected
  <2> QED
    BY <2>1
<1>3. CASE PrepareBaseline
  <2>1. ~promoted /\ source \in Owner
    BY <1>3, PrepareFacts
  <2>2. pc' \in {"exit", "publish", "propose"} /\ promoted' = promoted /\ source' = source
    BY <1>3, PrepareFacts
  <2> QED
    BY <2>1, <2>2
<1>4. ASSUME NEW c \in Revisions \cup {Original}, Propose(c) PROVE Undone'
  BY <1>4 DEF Propose, AttemptsLeft
<1>5. CASE RejectDuplicate
  BY <1>5 DEF RejectDuplicate, CountedDuplicates
<1>6. CASE AcceptNew
  BY <1>6 DEF AcceptNew
<1>7. CASE NoCandidate
  BY <1>7 DEF NoCandidate, AttemptsLeft
<1>8. CASE Exhausted
  BY <1>8 DEF Exhausted, AttemptsLeft
<1>9. CASE Stage
  BY <1>9 DEF Stage
<1>10. CASE ListStaged
  BY <1>10 DEF ListStaged
<1>11. CASE Analyze
  BY <1>11, AnalyzeFacts DEF Rejected, Subject
<1>12. CASE Test
  BY <1>12, TestFacts DEF Rejected, Subject
<1>13. CASE Benchmark
  BY <1>13, BenchmarkFacts DEF Rejected, Subject
<1>14. CASE CheckSource
  BY <1>14 DEF CheckSource, SourceUnchanged, FirstOfPromote
<1>15. CASE CopySource
  BY <1>15 DEF CopySource
<1>16. CASE RegisterCopy
  BY <1>16 DEF RegisterCopy
<1>17. CASE Replace
  BY <1>17 DEF Replace
<1>18. CASE MarkPromoted
  BY <1>18 DEF MarkPromoted
<1>19. CASE Revert
  BY <1>19 DEF Revert, PutBack
<1>20. CASE Commit
  BY <1>20 DEF Commit, Cleanup, StagedLeft
<1>21. CASE Publish
  BY <1>21 DEF Publish
<1>22. CASE Exit
  BY <1>22 DEF Exit, PutBack, Uncommitted
<1>23. CASE ExitCleanup
  BY <1>23 DEF ExitCleanup, Cleanup, StagedLeft
<1>24. CASE Raise
  BY <1>24 DEF Raise, Aborted
<1>25. CASE StageFails
  BY <1>25 DEF StageFails
<1>26. CASE CopyFails
  BY <1>26 DEF CopyFails
<1>27. CASE ReplaceFails
  BY <1>27 DEF ReplaceFails, PutBack
<1>28. CASE RevertFails
  BY <1>28 DEF RevertFails, UndoLost, Uncommitted
<1>29. CASE CleanupFails
  BY <1>29 DEF CleanupFails, StagedLeft
<1>30. CASE Interrupt
  BY <1>30 DEF Interrupt, HalfDone
<1>31. CASE InterruptExit
  BY <1>31 DEF InterruptExit, UndoLost, Uncommitted
<1>32. CASE Crash
  BY <1>32 DEF Crash
<1>33. ASSUME NEW e \in Edits, ExternalEdit(e) PROVE Undone'
  BY <1>33 DEF ExternalEdit
<1>34. CASE UNCHANGED vars
  BY <1>34
<1> QED
  BY <1>1, <1>2, <1>3, <1>4, <1>5, <1>6, <1>7, <1>8, <1>9, <1>10, <1>11, <1>12,
     <1>13, <1>14, <1>15, <1>16, <1>17, <1>18, <1>19, <1>20, <1>21, <1>22, <1>23,
     <1>24, <1>25, <1>26, <1>27, <1>28, <1>29, <1>30, <1>31, <1>32, <1>33, <1>34
  DEF Next, Run, Environment

LEMMA UndoneInvariance == Spec => [](Inv /\ Undone)
<1>1. Init => Undone
  BY DEF Init, Undone
<1>2. Inv /\ Undone /\ [Next]_vars => Undone'
  BY UndoneStep
<1> QED
  BY <1>1, <1>2, Invariance, PTL DEF Spec

\* A run that is killed at any point leaves the owner's text in the source file
\* or in the rollback copy, an editor racing with it or not, as long as the way
\* out knew of the promotion and could undo it.
THEOREM Recoverable == Spec => []OriginalRecoverable
<1>1. Inv /\ Undone => OriginalRecoverable
  BY DEF Inv, TypeOK, Steps, Promotion, Backup, Marked, Undone, OriginalRecoverable
<1> QED
  BY <1>1, UndoneInvariance, PTL

\* A run that ends without accepting a revision leaves none in the file, with
\* the same proviso: exceptions and Ctrl-C at every other step are undone.
THEOREM FailureRestores == Spec => []FailureLeavesSource
<1>1. Inv /\ Undone => FailureLeavesSource
  BY DEF Inv, TypeOK, Results, Marked, Undone, FailureLeavesSource
<1> QED
  BY <1>1, UndoneInvariance, PTL

-----------------------------------------------------------------------------
(* The loop implements SourceUpdate until it is disturbed.                 *)

LEMMA NoRaceStep ==
  ASSUME Inv, NoRace, [Next]_vars
  PROVE  NoRace'
<1> USE TextsAssumption, RunAssumption
  DEF Inv, TypeOK, Promotion, Backup, Marked, NoRace, Gated
<1>1. CASE Start
  BY <1>1 DEF Start
<1>2. CASE Compile
  BY <1>2, CompileFacts DEF Rejected, Subject
<1>3. CASE PrepareBaseline
  BY <1>3, PrepareFacts DEF Rejected, Subject
<1>4. ASSUME NEW c \in Revisions \cup {Original}, Propose(c) PROVE NoRace'
  BY <1>4 DEF Propose, AttemptsLeft
<1>5. CASE RejectDuplicate
  BY <1>5 DEF RejectDuplicate, CountedDuplicates
<1>6. CASE AcceptNew
  BY <1>6 DEF AcceptNew
<1>7. CASE NoCandidate
  BY <1>7 DEF NoCandidate, AttemptsLeft
<1>8. CASE Exhausted
  BY <1>8 DEF Exhausted, AttemptsLeft
<1>9. CASE Stage
  BY <1>9 DEF Stage
<1>10. CASE ListStaged
  BY <1>10 DEF ListStaged
<1>11. CASE Analyze
  BY <1>11, AnalyzeFacts DEF Rejected, Subject
<1>12. CASE Test
  BY <1>12, TestFacts DEF Rejected, Subject
<1>13. CASE Benchmark
  BY <1>13, BenchmarkFacts DEF Rejected, Subject
<1>14. CASE CheckSource
  BY <1>14 DEF CheckSource, SourceUnchanged, FirstOfPromote
<1>15. CASE CopySource
  BY <1>15 DEF CopySource
<1>16. CASE RegisterCopy
  BY <1>16 DEF RegisterCopy
<1>17. CASE Replace
  BY <1>17 DEF Replace
<1>18. CASE MarkPromoted
  BY <1>18 DEF MarkPromoted
<1>19. CASE Revert
  BY <1>19 DEF Revert, PutBack
<1>20. CASE Commit
  BY <1>20 DEF Commit, Cleanup, StagedLeft
<1>21. CASE Publish
  BY <1>21 DEF Publish
<1>22. CASE Exit
  BY <1>22 DEF Exit, PutBack, Uncommitted
<1>23. CASE ExitCleanup
  BY <1>23 DEF ExitCleanup, Cleanup, StagedLeft
<1>24. CASE Raise
  BY <1>24 DEF Raise, Aborted
<1>25. CASE StageFails
  BY <1>25 DEF StageFails
<1>26. CASE CopyFails
  BY <1>26 DEF CopyFails
<1>27. CASE ReplaceFails
  BY <1>27 DEF ReplaceFails, PutBack
<1>28. CASE RevertFails
  BY <1>28 DEF RevertFails, UndoLost, Uncommitted
<1>29. CASE CleanupFails
  BY <1>29 DEF CleanupFails, StagedLeft
<1>30. CASE Interrupt
  BY <1>30 DEF Interrupt, HalfDone
<1>31. CASE InterruptExit
  BY <1>31 DEF InterruptExit, UndoLost, Uncommitted
<1>32. CASE Crash
  BY <1>32 DEF Crash
<1>33. ASSUME NEW e \in Edits, ExternalEdit(e) PROVE NoRace'
  BY <1>33 DEF ExternalEdit
<1>34. CASE UNCHANGED vars
  BY <1>34
<1> QED
  BY <1>1, <1>2, <1>3, <1>4, <1>5, <1>6, <1>7, <1>8, <1>9, <1>10, <1>11, <1>12,
     <1>13, <1>14, <1>15, <1>16, <1>17, <1>18, <1>19, <1>20, <1>21, <1>22, <1>23,
     <1>24, <1>25, <1>26, <1>27, <1>28, <1>29, <1>30, <1>31, <1>32, <1>33, <1>34
  DEF Next, Run, Environment

LEMMA UpdateStep ==
  ASSUME Inv, Undone, NoRace, [Next]_vars
  PROVE  [Update!Next]_(Update!vars)
<1> USE TextsAssumption, RunAssumption
  DEF Inv, TypeOK, Results, Gating, Promotion, Backup, Marked, Undone, NoRace,
      Gated, Texts, Steps, RunVerdict, Stranded, Disturbed, Update!vars,
      Update!Next, Update!Disturbed, Update!Install, Update!TakeBack, Update!Accept, Update!Leave,
      Update!Crash, Update!Edit
<1>1. CASE Start
  BY <1>1 DEF Start
<1>2. CASE Compile
  BY <1>2, CompileFacts DEF Rejected, Subject
<1>3. CASE PrepareBaseline
  BY <1>3, PrepareFacts DEF Rejected, Subject
<1>4. ASSUME NEW c \in Revisions \cup {Original}, Propose(c) PROVE [Update!Next]_(Update!vars)
  BY <1>4 DEF Propose, AttemptsLeft
<1>5. CASE RejectDuplicate
  BY <1>5 DEF RejectDuplicate, CountedDuplicates
<1>6. CASE AcceptNew
  BY <1>6 DEF AcceptNew
<1>7. CASE NoCandidate
  BY <1>7 DEF NoCandidate, AttemptsLeft
<1>8. CASE Exhausted
  BY <1>8 DEF Exhausted, AttemptsLeft
<1>9. CASE Stage
  BY <1>9 DEF Stage
<1>10. CASE ListStaged
  BY <1>10 DEF ListStaged
<1>11. CASE Analyze
  BY <1>11, AnalyzeFacts DEF Rejected, Subject
<1>12. CASE Test
  BY <1>12, TestFacts DEF Rejected, Subject
<1>13. CASE Benchmark
  BY <1>13, BenchmarkFacts DEF Rejected, Subject
<1>14. CASE CheckSource
  BY <1>14 DEF CheckSource, SourceUnchanged, FirstOfPromote
<1>15. CASE CopySource
  BY <1>15 DEF CopySource
<1>16. CASE RegisterCopy
  BY <1>16 DEF RegisterCopy
<1>17. CASE Replace
  BY <1>17 DEF Replace
<1>18. CASE MarkPromoted
  BY <1>18 DEF MarkPromoted
<1>19. CASE Revert
  BY <1>19 DEF Revert, PutBack
<1>20. CASE Commit
  BY <1>20 DEF Commit, Cleanup, StagedLeft
<1>21. CASE Publish
  BY <1>21 DEF Publish
<1>22. CASE Exit
  BY <1>22 DEF Exit, PutBack, Uncommitted
<1>23. CASE ExitCleanup
  BY <1>23 DEF ExitCleanup, Cleanup, StagedLeft
<1>24. CASE Raise
  BY <1>24 DEF Raise, Aborted
<1>25. CASE StageFails
  BY <1>25 DEF StageFails
<1>26. CASE CopyFails
  BY <1>26 DEF CopyFails
<1>27. CASE ReplaceFails
  BY <1>27 DEF ReplaceFails, PutBack
<1>28. CASE RevertFails
  BY <1>28 DEF RevertFails, UndoLost, Uncommitted
<1>29. CASE CleanupFails
  BY <1>29 DEF CleanupFails, StagedLeft
<1>30. CASE Interrupt
  BY <1>30 DEF Interrupt, HalfDone
<1>31. CASE InterruptExit
  BY <1>31 DEF InterruptExit, UndoLost, Uncommitted
<1>32. CASE Crash
  BY <1>32 DEF Crash
<1>33. ASSUME NEW e \in Edits, ExternalEdit(e) PROVE [Update!Next]_(Update!vars)
  BY <1>33 DEF ExternalEdit
<1>34. CASE UNCHANGED vars
  BY <1>34
<1> QED
  BY <1>1, <1>2, <1>3, <1>4, <1>5, <1>6, <1>7, <1>8, <1>9, <1>10, <1>11, <1>12,
     <1>13, <1>14, <1>15, <1>16, <1>17, <1>18, <1>19, <1>20, <1>21, <1>22, <1>23,
     <1>24, <1>25, <1>26, <1>27, <1>28, <1>29, <1>30, <1>31, <1>32, <1>33, <1>34
  DEF Next, Run, Environment

LEMMA NoRaceInvariance == Spec => [](Inv /\ NoRace)
<1>1. Init => NoRace
  BY DEF Init, NoRace
<1>2. Inv /\ NoRace /\ [Next]_vars => NoRace'
  BY NoRaceStep
<1> QED
  BY <1>1, <1>2, Invariance, PTL DEF Spec

\* "The original source was restored": from the outside, a run is one atomic
\* replacement of the file by a gated revision, which is taken back in one step
\* unless it is accepted; until an editor writes the file during the promotion
\* or the promotion is stranded.
THEOREM Implementation == Spec => ImplementsSourceUpdate
<1>1. Init => Update!Init
  BY DEF Init, Update!Init, RunVerdict, Disturbed, Stranded
<1>2. Inv /\ Undone /\ NoRace /\ [Next]_vars => [Update!Next]_(Update!vars)
  BY UpdateStep
<1> QED
  BY <1>1, <1>2, UndoneInvariance, NoRaceInvariance, PTL
  DEF Spec, ImplementsSourceUpdate, Update!Spec

=============================================================================
