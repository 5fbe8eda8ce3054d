----------------------------- MODULE RepairLoop -----------------------------
(***************************************************************************)
(* RepairLoop.run of compiler/self_compiler/modes.py and the PatchManager  *)
(* of patch.py it works through: compile the baseline, then up to          *)
(* MaxAttempts times stage a candidate beside the source, compile it, put  *)
(* it through the gates of the mode; promote the first that passes,        *)
(* recompile and gate the real source again, and commit or revert.         *)
(*                                                                         *)
(* A text is a member of a small set that knows which gates it passes.  A  *)
(* gate may also fail a good text (a timeout, a noisy measurement).  Which *)
(* candidate a fix-it or the model proposes is open.  The environment: an  *)
(* editor that writes the file at any time, exceptions, Ctrl-C at any step *)
(* (also on the way out), kill -9.  "mishaps" remembers the few of them    *)
(* that strike where the code cannot make them good; the properties say    *)
(* what holds of a run as long as none of the ones they name has happened. *)
(***************************************************************************)
EXTENDS Naturals, FiniteSets

CONSTANTS
  Original,      \* the text of the source file when the run starts
  Revisions,     \* texts the fix-its and the model may propose
  Edits,         \* texts an editor may write into the source file
  Good,          \* the gates each text passes
  Configs,       \* command lines: [mode, test, debugger, output]
  MaxAttempts,   \* --max-attempts
  Faults,        \* which faults happen: "exception", "interrupt", "revert", "crash"
  NoFile         \* no such file, or no text yet

Gates == {"compile", "analysis", "test", "output", "speed"}
Modes == {"repair", "secure", "self-correct", "optimize"}
Config == [mode : Modes, test : BOOLEAN, debugger : BOOLEAN, output : BOOLEAN]
Texts == {Original} \cup Revisions \cup Edits

\* A revision and an edit are told apart by what wrote them.
ASSUME TextsAssumption ==
  /\ Original \notin Revisions \cup Edits
  /\ Revisions \cap Edits = {}
  /\ NoFile \notin Texts
  /\ Good \in [Texts -> SUBSET Gates]
ASSUME RunAssumption ==
  /\ Configs \subseteq Config
  /\ MaxAttempts \in Nat
  /\ Faults \subseteq {"exception", "interrupt", "revert", "crash"}

VARIABLES
  config,       \* the command line
  pc,           \* the step run() is at
  target,       \* what is being compiled and gated: baseline, candidate or final
  attempt,      \* attempts made
  seen,         \* texts already proposed, and the original
  candidate,    \* the candidate of this attempt
  built,        \* the last compilation succeeded
  binary,       \* the text the last good binary was compiled from
  source,       \* disk: the source file
  backup,       \* disk: the rollback copy
  staged,       \* disk: candidate files beside the source
  listed,       \* PatchManager._staged: the candidates it knows of
  backupPath,   \* PatchManager.backup_path is set
  promoted,     \* PatchManager._promoted
  published,    \* disk: the text the binary at --output was compiled from
  result,       \* how the run ends
  mishaps       \* what happened that the run cannot make good

disk == <<source, backup, staged, published>>
loop == <<config, target, attempt, seen, candidate, built, binary>>
patcher == <<listed, backupPath, promoted>>
vars == <<loop, pc, disk, patcher, result, mishaps>>

Steps == {"start", "compile", "prepare", "propose", "fresh", "stage", "list", "analyze",
          "test", "benchmark", "check", "backup", "copy", "replace", "mark", "commit",
          "revert", "publish", "exit", "cleanup", "done", "crashed"}

\* "accepted": committed, not yet published; "unpublished": it never will be.
Results == {"none", "noop", "accepted", "success", "unpublished", "config-error",
            "refused", "rolled-back", "exhausted", "error", "raised", "interrupted"}

\* "late edit": the editor saved the file after the source check had passed.
\* "unnamed": a temporary file was made and the step that notes its name never ran.
\* "unmarked": Ctrl-C between the rename and _promoted = True.
\* "not undone": the rename back failed, or Ctrl-C came first, on the way out.
\* "uncleaned": cleanup itself was cut short.
Mishaps == {"late edit", "unnamed", "unmarked", "not undone", "uncleaned"}

TypeOK ==
  /\ config \in Configs
  /\ pc \in Steps
  /\ target \in {"baseline", "candidate", "final"}
  /\ attempt \in 0 .. MaxAttempts
  /\ seen \subseteq Texts
  /\ candidate \in Revisions \cup {Original, NoFile}
  /\ built \in BOOLEAN
  /\ binary \in Texts \cup {NoFile}
  /\ source \in Texts
  /\ backup \in Texts \cup {NoFile}
  /\ staged \subseteq Revisions
  /\ listed \subseteq Revisions
  /\ backupPath \in BOOLEAN
  /\ promoted \in BOOLEAN
  /\ published \in Texts \cup {NoFile}
  /\ result \in Results
  /\ mishaps \subseteq Mishaps

Init ==
  /\ config \in Configs
  /\ pc = "start" /\ target = "baseline" /\ attempt = 0
  /\ seen = {Original} /\ candidate = NoFile
  /\ built = FALSE /\ binary = NoFile
  /\ source = Original /\ backup = NoFile /\ staged = {}
  /\ backupPath = FALSE /\ promoted = FALSE
  /\ published = NoFile /\ result = "none"
  /\ listed = {} /\ mishaps = {}

-----------------------------------------------------------------------------
(* Gates.                                                                  *)

\* The verdicts gate g may give on text t.
Verdicts(g, t) == IF t # NoFile /\ g \in Good[t] THEN BOOLEAN ELSE {FALSE}

\* _configuration_error: what each mode needs.
ConfigError ==
  \/ MaxAttempts < 1
  \/ config.mode = "self-correct" /\ ~config.test /\ ~config.debugger
  \/ config.mode = "secure" /\ ~config.test

\* The gates a candidate goes through, besides compilation.
GatesOf(c) ==
  (IF c.mode = "secure" THEN {"analysis"} ELSE {})
    \cup (IF c.test THEN {"test"} ELSE {})
    \cup (IF c.test /\ c.mode \in {"secure", "optimize"} THEN {"output"} ELSE {})
    \cup (IF c.mode = "optimize" THEN {"speed"} ELSE {})

\* The file being compiled and analyzed.
Subject == IF target = "candidate" THEN candidate ELSE source

End(r) == pc' = "exit" /\ result' = r

Start ==
  /\ pc = "start"
  /\ IF ConfigError THEN pc' = "done" /\ result' = "config-error"
                    ELSE pc' = "compile" /\ UNCHANGED result
  /\ UNCHANGED <<loop, disk, patcher, mishaps>>

\* A candidate that fails goes back to the loop, a promoted one is reverted.
Rejected == pc' = (IF target = "final" THEN "revert" ELSE "propose")

Compile ==
  /\ pc = "compile"
  /\ \E ok \in Verdicts("compile", Subject) :
       /\ built' = ok
       /\ binary' = IF ok THEN Subject ELSE binary
       /\ CASE target = "baseline"        -> pc' = "prepare"
            [] target # "baseline" /\ ok  -> pc' = "analyze"
            [] OTHER                      -> Rejected
  /\ UNCHANGED <<config, target, attempt, seen, candidate, disk, patcher,
                 result, mishaps>>

\* _prepare_baseline: what the baseline turns out to be.  "error" ends the run,
\* "noop" leaves nothing to repair, "repair" gives evidence to repair by.  A
\* tool is usable if an analyzer is installed, or the benchmark is valid.
BaselineIs(ran, clean, usable) ==
  CASE ~built -> IF config.mode = "repair" THEN "repair" ELSE "error"
    [] built /\ config.mode = "repair" -> "noop"
    [] built /\ config.mode = "secure" ->
         IF ~ran \/ ~usable THEN "error" ELSE IF clean THEN "noop" ELSE "repair"
    [] built /\ config.mode = "self-correct" -> IF ran THEN "noop" ELSE "repair"
    [] built /\ config.mode = "optimize" ->
         IF (config.test => ran) /\ usable THEN "repair" ELSE "error"

PrepareBaseline ==
  /\ pc = "prepare"
  /\ \E ran \in Verdicts("test", binary), clean \in Verdicts("analysis", source),
        usable \in BOOLEAN :
       LET b == BaselineIs(ran, clean, usable)
       IN  CASE b = "error"  -> End("error")
             [] b = "noop"   -> pc' = "publish" /\ result' = "noop"
             [] b = "repair" -> pc' = "propose" /\ UNCHANGED result
  /\ UNCHANGED <<loop, disk, patcher, mishaps>>

-----------------------------------------------------------------------------
(* The attempt loop.                                                       *)

\* Faulty variant: one attempt too many.
OneMoreAttempt == attempt <= MaxAttempts
AttemptsLeft == attempt < MaxAttempts

\* Faulty variant: a duplicate is free, so that the next attempt has its number.
FreeDuplicates == attempt - 1
CountedDuplicates == attempt

\* A fix-it or the model proposes a text.
Propose(c) ==
  /\ pc = "propose"
  /\ AttemptsLeft
  /\ attempt' = attempt + 1
  /\ candidate' = c
  /\ target' = "candidate"
  /\ pc' = "fresh"
  /\ UNCHANGED <<config, seen, built, binary, disk, patcher, result, mishaps>>

\* A text proposed before uses up the attempt.
RejectDuplicate ==
  /\ pc = "fresh"
  /\ candidate \in seen
  /\ attempt' = CountedDuplicates
  /\ pc' = "propose"
  /\ UNCHANGED <<config, target, seen, candidate, built, binary, disk, patcher,
                 result, mishaps>>

AcceptNew ==
  /\ pc = "fresh"
  /\ candidate \notin seen
  /\ seen' = seen \cup {candidate}
  /\ pc' = "stage"
  /\ UNCHANGED <<config, target, attempt, candidate, built, binary, disk, patcher,
                 result, mishaps>>

\* No fix-it applies and the model has nothing usable to say.
NoCandidate ==
  /\ pc = "propose"
  /\ AttemptsLeft
  /\ attempt' = attempt + 1
  /\ End("error")
  /\ UNCHANGED <<config, target, seen, candidate, built, binary, disk,
                 patcher, mishaps>>

Exhausted ==
  /\ pc = "propose"
  /\ ~AttemptsLeft
  /\ End("exhausted")
  /\ UNCHANGED <<loop, disk, patcher, mishaps>>

\* PatchManager.stage: a file of its own for each candidate, which the manager
\* lists once it is written.
Stage ==
  /\ pc = "stage"
  /\ staged' = staged \cup {candidate}
  /\ pc' = "list"
  /\ UNCHANGED <<loop, source, backup, published, patcher, result, mishaps>>

ListStaged ==
  /\ pc = "list"
  /\ listed' = listed \cup {candidate}
  /\ pc' = "compile"
  /\ UNCHANGED <<loop, disk, backupPath, promoted, result, mishaps>>

\* Writing the file, or its mode, fails: it is deleted again.
StageFails ==
  /\ pc = "list"
  /\ "exception" \in Faults
  /\ staged' = staged \ {candidate}
  /\ End("raised")
  /\ UNCHANGED <<loop, source, backup, published, patcher, mishaps>>

\* _validate_candidate, one gate after the other; a gate the configuration
\* does not ask for lets everything pass.  The analyzer reads the file, the
\* test and the benchmark run the binary.
Gate(at, gates, text, next) ==
  /\ pc = at
  /\ \E ok \in [gates \cap GatesOf(config) -> BOOLEAN] :
       /\ \A g \in DOMAIN ok : ok[g] \in Verdicts(g, text)
       /\ IF \A g \in DOMAIN ok : ok[g] THEN pc' = next ELSE Rejected
  /\ UNCHANGED <<loop, disk, patcher, result, mishaps>>

Analyze == Gate("analyze", {"analysis"}, Subject, "test")

\* Faulty variants: a promoted revision is not tested again, and the exit code
\* of the test is ignored.
TestOnce == IF target = "final" THEN {} ELSE {"test", "output"}
OutputOnly == {"output"}
Tested == {"test", "output"}

Test == Gate("test", Tested, binary, "benchmark")

Benchmark ==
  Gate("benchmark", {"speed"}, binary,
       IF target = "final" THEN "commit" ELSE "check")

-----------------------------------------------------------------------------
(* Promotion, and the second verification at the real path.                *)

\* Faulty variant: the source is not compared with the text read at the start.
Unchecked == TRUE
SourceUnchanged == source = Original

\* What promote does first.  Faulty variant: it makes no copy.
NoBackup == "replace"
FirstOfPromote == "backup"

CheckSource ==
  /\ pc = "check"
  /\ IF SourceUnchanged
       THEN pc' = FirstOfPromote /\ target' = "final" /\ UNCHANGED result
       ELSE End("refused") /\ UNCHANGED target
  /\ UNCHANGED <<config, attempt, seen, candidate, built, binary, disk,
                 patcher, mishaps>>

\* PatchManager.backup: copy the source, then remember where the copy is.
CopySource ==
  /\ pc = "backup"
  /\ backup' = source
  /\ pc' = "copy"
  /\ UNCHANGED <<loop, source, staged, published, patcher, result, mishaps>>

RegisterCopy ==
  /\ pc = "copy"
  /\ backupPath' = TRUE
  /\ pc' = "replace"
  /\ UNCHANGED <<loop, disk, listed, promoted, result, mishaps>>

\* The copy fails: the file made for it stays, whatever it holds.
CopyFails ==
  /\ pc = "copy"
  /\ "exception" \in Faults
  /\ End("raised")
  /\ mishaps' = mishaps \cup {"unnamed"}
  /\ UNCHANGED <<loop, disk, patcher>>

\* PatchManager.promote: rename the candidate over the source, and only then
\* take it off the list and note that it was promoted.
Replace ==
  /\ pc = "replace"
  /\ source' = candidate
  /\ staged' = staged \ {candidate}
  /\ pc' = "mark"
  /\ UNCHANGED <<loop, backup, published, patcher, result, mishaps>>

MarkPromoted ==
  /\ pc = "mark"
  /\ listed' = listed \ {candidate}
  /\ promoted' = TRUE
  /\ pc' = "compile"
  /\ UNCHANGED <<loop, disk, backupPath, result, mishaps>>

\* PatchManager.revert.
PutBack ==
  /\ source' = backup
  /\ backup' = NoFile
  /\ promoted' = FALSE
  /\ UNCHANGED <<staged, published>>

\* The rename fails: promote puts the copy back, if it can, and passes the error on.
ReplaceFails ==
  /\ pc = "replace"
  /\ "exception" \in Faults
  /\ \/ PutBack
     \/ "revert" \in Faults /\ UNCHANGED <<disk, promoted>>
  /\ End("raised")
  /\ UNCHANGED <<loop, listed, backupPath, mishaps>>

\* The recompilation or a gate failed at the real path.
Revert ==
  /\ pc = "revert"
  /\ PutBack
  /\ End("rolled-back")
  /\ UNCHANGED <<loop, listed, backupPath, mishaps>>

\* What PatchManager.cleanup leaves: it deletes the candidates it knows of, and
\* the rollback copy.  Faulty variant: it forgets the candidates.
KeptCandidates == staged
StagedLeft == staged \ listed

Cleanup ==
  /\ staged' = StagedLeft
  /\ listed' = {}
  /\ backup' = IF backupPath THEN NoFile ELSE backup
  /\ promoted' = FALSE
  /\ UNCHANGED <<source, published>>

Commit ==
  /\ pc = "commit"
  /\ Cleanup
  /\ pc' = "publish" /\ result' = "accepted"
  /\ UNCHANGED <<loop, backupPath, mishaps>>

\* _publish_binary: a rename over the binary at --output.
Publish ==
  /\ pc = "publish"
  /\ published' = IF config.output THEN binary ELSE published
  /\ End(IF result = "noop" THEN "noop" ELSE "success")
  /\ UNCHANGED <<loop, source, backup, staged, patcher, mishaps>>

-----------------------------------------------------------------------------
(* PatchManager.__exit__, on every way out of the with statement: a        *)
(* promotion that was not committed is reverted, then everything is cleaned *)
(* up.                                                                     *)

\* Faulty variant: cleanup only.
NeverUndone == FALSE
Uncommitted == promoted /\ backup # NoFile
UndoLost == IF Uncommitted THEN {"not undone"} ELSE {}

Exit ==
  /\ pc = "exit"
  /\ IF Uncommitted THEN PutBack ELSE UNCHANGED <<disk, promoted>>
  /\ pc' = "cleanup"
  /\ UNCHANGED <<loop, listed, backupPath, result, mishaps>>

ExitCleanup ==
  /\ pc = "cleanup"
  /\ Cleanup
  /\ pc' = "done"
  /\ UNCHANGED <<loop, backupPath, result, mishaps>>

-----------------------------------------------------------------------------
(* The environment.                                                        *)

Accepted == result \in {"accepted", "success", "unpublished"}

Aborted == IF result \in {"none", "noop"} THEN "raised" ELSE "unpublished"

\* A missing compiler, a full disk, an unwritable journal or output path.
Raise ==
  /\ "exception" \in Faults
  /\ pc \in {"compile", "prepare", "propose", "fresh", "stage", "analyze", "test",
             "benchmark", "check", "backup", "commit", "publish"}
  /\ End(Aborted)
  /\ UNCHANGED <<loop, disk, patcher, mishaps>>

\* Ctrl-C between any two steps inside the with statement; "except Exception"
\* does not see it.  What it may leave half done.
HalfDone ==
  CASE pc \in {"list", "copy"}      -> {"unnamed"}
    [] pc = "mark"                  -> {"unmarked"}
    [] pc \notin {"list", "copy", "mark"} -> {}

Interrupt ==
  /\ "interrupt" \in Faults
  /\ pc \notin {"start", "exit", "cleanup", "done", "crashed"}
  /\ End(IF result \in {"none", "noop"} THEN "interrupted" ELSE "unpublished")
  /\ mishaps' = mishaps \cup HalfDone
  /\ UNCHANGED <<loop, disk, patcher>>

\* Ctrl-C in __exit__ before the rename back: inside its try statement, so that
\* cleanup follows, or just before it.
InterruptExit ==
  /\ "interrupt" \in Faults
  /\ pc = "exit"
  /\ \/ pc' = "cleanup" /\ mishaps' = mishaps \cup UndoLost
     \/ pc' = "done" /\ mishaps' = mishaps \cup UndoLost \cup {"uncleaned"}
  /\ result' = IF Accepted THEN result ELSE "interrupted"
  /\ UNCHANGED <<loop, disk, patcher>>

\* Ctrl-C in cleanup, or a file that cannot be deleted: the rest stays.
CleanupFails ==
  /\ Faults \cap {"exception", "interrupt"} # {}
  /\ pc = "cleanup"
  /\ \E kept \in SUBSET (staged \cap listed) : staged' = StagedLeft \cup kept
  /\ pc' = "done"
  /\ result' = IF Accepted THEN result ELSE "raised"
  /\ mishaps' = mishaps \cup {"uncleaned"}
  /\ UNCHANGED <<loop, source, backup, published, patcher>>

\* The rename back fails, in the loop, where __exit__ tries it again, or on the
\* way out, where "finally" cleans up.
RevertFails ==
  /\ "revert" \in Faults
  /\ \/ pc = "revert" /\ pc' = "exit" /\ UNCHANGED mishaps
     \/ pc = "exit" /\ Uncommitted /\ pc' = "cleanup" /\ mishaps' = mishaps \cup UndoLost
  /\ result' = "raised"
  /\ UNCHANGED <<loop, disk, patcher>>

\* kill -9, or the machine stops: the files stay as they are.
Crash ==
  /\ "crash" \in Faults
  /\ pc \notin {"done", "crashed"}
  /\ pc' = "crashed"
  /\ UNCHANGED <<loop, disk, patcher, result, mishaps>>

\* Somebody saves the file in an editor while the run works.
ExternalEdit(e) ==
  /\ pc \notin {"start", "done", "crashed"}
  /\ source' = e
  /\ mishaps' = mishaps \cup (IF target = "final" THEN {"late edit"} ELSE {})
  /\ UNCHANGED <<loop, pc, backup, staged, published, patcher, result>>

Environment ==
  \/ Raise \/ StageFails \/ CopyFails \/ ReplaceFails \/ RevertFails \/ CleanupFails
  \/ Interrupt \/ InterruptExit \/ Crash
  \/ \E e \in Edits : ExternalEdit(e)

Run ==
  \/ Start \/ Compile \/ PrepareBaseline
  \/ \E c \in Revisions \cup {Original} : Propose(c)
  \/ RejectDuplicate \/ AcceptNew
  \/ NoCandidate \/ Exhausted \/ Stage \/ ListStaged \/ Analyze \/ Test \/ Benchmark
  \/ CheckSource \/ CopySource \/ RegisterCopy \/ Replace \/ MarkPromoted
  \/ Revert \/ Commit \/ Publish \/ Exit \/ ExitCleanup

Next == Run \/ Environment

Spec == Init /\ [][Next]_vars

\* run() is sequential code and every tool it waits for has a timeout; the
\* editor and the faults owe nothing.
FairSpec == Spec /\ WF_vars(Run)

-----------------------------------------------------------------------------
(* Properties.                                                             *)

\* The revisions that pass what the command line asks for.
Gated == {c \in Revisions : {"compile"} \cup GatesOf(config) \subseteq Good[c]}

\* What the run has decided, as its caller and its log will see it.
RunVerdict ==
  CASE Accepted -> "accepted"
    [] pc = "crashed" /\ ~Accepted -> "crashed"
    [] pc = "done" /\ ~Accepted -> "unchanged"
    [] OTHER -> "open"

\* What leaves a promotion that nobody accepted in the file, and what lets the
\* promotion meet an editor.
Stranded == mishaps \cap {"unmarked", "not undone"} # {}
Disturbed == Stranded \/ "late edit" \in mishaps

Update == INSTANCE SourceUpdate WITH gated <- Gated, verdict <- RunVerdict,
                                     disturbed <- Disturbed

\* "Source updated only after every configured gate passed", "the original
\* source was restored": whatever tool fails, key is pressed or process dies,
\* the file changes as SourceUpdate says, until an editor writes it during the
\* promotion, or the rename is not marked or not undone.
ImplementsSourceUpdate == Update!Spec

\* The file only ever holds the original, an editor's text, or a revision that
\* passes every gate, also while an editor races with the promotion.
OnlyGatedInstalled == source \in {Original} \cup Edits \cup Gated

\* Until a revision is accepted, the text of the file's owner is on disk, in the
\* source file or in the rollback copy: a run that is killed at any point
\* leaves something to recover from, unless the way out has deleted the copy of
\* a promotion that it did not know of or could not undo.
OriginalRecoverable ==
  \/ Accepted \/ Stranded
  \/ {source, backup} \cap ({Original} \cup Edits) # {}

\* A run that does not accept a revision leaves none in the file, wherever an
\* exception or Ctrl-C strikes but in the two places "Stranded" names.
FailureLeavesSource ==
  pc = "done" /\ ~Accepted /\ ~Stranded => source \in {Original} \cup Edits

\* "The source changed outside GCC-AI Repair during the run; refusing to
\* overwrite it": the program never replaces what an editor wrote.
EditsSurvive == [][(source \in Edits) => (source' \in Edits)]_vars

\* A published binary of an accepted revision was tested and measured as it
\* is, even when an editor changed the file between its two verifications.
AcceptedBinaryVerified ==
  result = "success" /\ published # NoFile
    => {"compile"} \cup (GatesOf(config) \ {"analysis"}) \subseteq Good[published]

\* When the run is over no candidate and no rollback copy is left beside the
\* source, unless it was cut short between making a file and noting its name,
\* or in the cleanup.
NothingLeftBehind ==
  pc = "done" /\ mishaps \cap {"unnamed", "uncleaned"} = {}
    => staged = {} /\ backup = NoFile

\* Every run ends: attempts are bounded and duplicates count.
Returns == <>(pc \in {"done", "crashed"})
=============================================================================
