--------------------------- MODULE GeneratorSession ---------------------------
(***************************************************************************)
(* One session of the generator: DeepSeekAgent.revise                      *)
(* (repair/deepseek_agent.py) working through RepairToolExecutor           *)
(* (repair/execution_tools.py) on a staging copy of the parent's tree, as  *)
(* RepairPlayer.revise_working_patch (reach_avoid/repair_player.py) runs   *)
(* it and hands its result to the controller.                              *)
(*                                                                         *)
(* A tree is what it differs in from the clean snapshot.  What the model   *)
(* answers, what an edit makes of a tree and what a check shows are free   *)
(* choices; prompts are left out.                                          *)
(***************************************************************************)
EXTENDS Integers, FiniteSets

CONSTANTS
  Trees,          \* trees the edits lead to, Clean among them
  Clean,          \* the clean snapshot: an empty cumulative diff
  Edits,          \* texts of patches the model may send
  Rejectable,     \* trees an earlier trial may have been rejected with
  Checks,         \* locked, preservation and active checks of the objective
  MaxTurns,       \* turns of an initial or revision session
  RecoveryTurns,  \* root_recovery_max_turns
  ForceWindow,    \* last turns in which an edit is forced (4)
  RepeatLimit,    \* repetitions of a tool call that force an edit (3)
  DuplicateLimit, \* repetitions of a rejected patch that end the session (2)
  NoOpLimit       \* patches without effect that end it (3)

ASSUME SessionBounds ==
  /\ Clean \in Trees /\ Rejectable \subseteq Trees \ {Clean}
  /\ {MaxTurns, RecoveryTurns, ForceWindow, RepeatLimit, DuplicateLimit, NoOpLimit}
       \subseteq Nat \ {0}

Statuses == {"PASS", "FAIL", "UNKNOWN", "BLOCKED"}
NotRun == [status |-> "NOT_RUN", tree |-> Clean]
Diagnostics == {"read_file", "search"}   \* search: every other reading tool
Tools == Diagnostics \cup {"apply_patch", "run_check", "finish_revision"}

VARIABLES
  pc, parent, tree,
  initial,           \* an initial patch is asked for, not a repair
  required,          \* the checks an edit is validated with
  rejected,          \* state.rejected_patch_hashes
  results,           \* check -> its last result, with the tree it ran on
  finished,
  turn, turn_limit, recovery_used,
  rejected_patches,  \* texts refused in this session
  duplicates, no_ops,
  repeated,          \* the last tool call and how often it came in a row
  force_patch, sources,
  offered,           \* the tools of this turn
  late,              \* the deadline has passed
  spent,             \* the parts of the case budget that are used up
  result             \* what the controller gets

inputs == <<parent, initial, required, rejected>>
limits == <<turn, turn_limit, recovery_used>>
memory == <<rejected_patches, duplicates, no_ops, repeated, force_patch, sources>>
clock == <<late, spent>>
vars == <<pc, inputs, tree, results, finished, limits, memory, offered, clock, result>>

NoResult == [error |-> "NONE", tree |-> Clean, edited |-> FALSE, recorded |-> "NONE"]

-----------------------------------------------------------------------------
Committable == tree # parent /\ tree # Clean

Pending == {c \in required : results[c].status = "NOT_RUN"}

WithStatus(set) == {c \in required : results[c].status \in set}

Ready == Pending = {} /\ WithStatus({"UNKNOWN", "BLOCKED"}) = {}

\* finish_revision is offered for a validated edit that was not rejected before.
FinishAllowed == Committable /\ Ready /\ tree \notin rejected

\* An edit is forced after repetitions and when the turns run out.
ForcePatch(t) ==
  LET left == turn_limit - t + 1
  IN ~Committable /\ (force_patch \/ left = 1 \/ (left <= ForceWindow /\ sources))

Execute(c) ==
  \E status \in Statuses : results' = [results EXCEPT ![c] = [status |-> status, tree |-> tree]]

\* An exception ends the session and discards the staging tree; the attempt is
\* not recorded.
Raise(kind) ==
  /\ pc' = "done"
  /\ result' = [error |-> kind, tree |-> Clean, edited |-> FALSE, recorded |-> "NONE"]

\* RepairPlayer keeps the staging tree of an edit without an error, and records
\* every attempt that returns.
Return(error) ==
  /\ pc' = "done"
  /\ LET edited == error = "NONE" /\ tree # parent
     IN result' = [error |-> error, tree |-> IF edited THEN tree ELSE Clean, edited |-> edited,
                   recorded |-> IF error # "NONE" THEN "GENERATOR_ERROR"
                                ELSE IF edited THEN "PENDING_TRANSITION" ELSE "NO_NEW_DIFF"]

-----------------------------------------------------------------------------
\* An edit is validated with the locked and preservation checks and the active
\* one; an initial patch with none.
ChecksOf(isInitial, locked, preservation, active) ==
  IF isInitial THEN {} ELSE locked \cup preservation \cup active

\* The diff of the parent counts as a patch that was refused.
Init ==
  /\ pc = "loop"
  /\ parent \in Trees /\ tree = parent
  /\ initial \in IF parent = Clean THEN BOOLEAN ELSE {FALSE}
  /\ \E locked, preservation \in SUBSET Checks, active \in {{}} \cup {{c} : c \in Checks} :
       required = ChecksOf(initial, locked, preservation, active)
  /\ rejected \in SUBSET (Rejectable \ {parent})
  /\ results = [c \in Checks |-> NotRun]
  /\ finished = FALSE
  /\ turn = 0 /\ turn_limit = MaxTurns /\ recovery_used = FALSE
  /\ rejected_patches \in IF parent = Clean THEN {{}} ELSE {{e} : e \in Edits}
  /\ duplicates = 0 /\ no_ops = 0
  /\ repeated = [call |-> "none", times |-> 0]
  /\ force_patch = FALSE /\ sources = FALSE
  /\ offered = {}
  /\ late = FALSE /\ spent = {}
  /\ result = NoResult

\* The deadline of the session passes; a budget of the case runs out.
Tick ==
  /\ pc # "done" /\ ~late
  /\ late' = TRUE
  /\ UNCHANGED <<pc, inputs, tree, results, finished, limits, memory, offered, spent,
                 result>>

Spend(part) ==
  /\ pc # "done" /\ part \notin spent
  /\ spent' = spent \cup {part}
  /\ UNCHANGED <<pc, inputs, tree, results, finished, limits, memory, offered, late,
                 result>>

Running == pc = "loop" /\ turn < turn_limit /\ ~late

\* Between turns the pending checks of an edit are executed, one at a time.
\* Nothing catches an exhausted budget here.
ValidateEdit ==
  /\ Running /\ Committable
  /\ \E c \in Pending :
       IF "execution" \in spent
         THEN Raise("CaseBudgetExhausted") /\ UNCHANGED results
       ELSE Execute(c) /\ UNCHANGED <<pc, result>>
  /\ UNCHANGED <<inputs, tree, finished, limits, memory, offered, clock>>

\* The next turn and the tools it offers.
BeginTurn ==
  /\ Running /\ ~(Committable /\ Pending # {})
  /\ turn' = turn + 1
  /\ offered' = IF ForcePatch(turn + 1) THEN {"apply_patch"}
                ELSE IF FinishAllowed THEN Tools ELSE Tools \ {"finish_revision"}
  /\ pc' = "model"
  /\ UNCHANGED <<inputs, tree, results, finished, turn_limit, recovery_used, memory,
                 clock, result>>

LeaveLoop ==
  /\ pc = "loop" /\ ~Running
  /\ pc' = "drain"
  /\ UNCHANGED <<inputs, tree, results, finished, limits, memory, offered, clock, result>>

-----------------------------------------------------------------------------
(* Answers of the model.                                                     *)

Asked == pc = "model"

\* Two bugs to compare with: a recovery begins the turns again, and every
\* recovery adds turns.
RecoverFromStart(extended) ==
  /\ recovery_used' = TRUE
  /\ turn' = 0
  /\ turn_limit' = IF RecoveryTurns > turn_limit THEN RecoveryTurns ELSE turn_limit
  /\ late' = IF extended THEN FALSE ELSE late

\* A recovery raises the turn limit once, and may put off the deadline.
Recover(extended) ==
  /\ recovery_used' = TRUE
  /\ turn_limit' = IF RecoveryTurns > turn_limit THEN RecoveryTurns ELSE turn_limit
  /\ late' = IF extended THEN FALSE ELSE late
  /\ UNCHANGED turn

\* The provider fails: once it is tried again, then the session is an error.
RequestFails ==
  /\ Asked /\ "model" \notin spent
  /\ IF recovery_used
       THEN Return("TRANSPORT") /\ UNCHANGED <<limits, late>>
     ELSE Recover(TRUE) /\ pc' = "loop" /\ UNCHANGED result
  /\ UNCHANGED <<inputs, tree, results, finished, memory, offered, spent>>

\* An exhausted budget, or an answer without choices, is no error the session
\* knows.
RequestRaises ==
  /\ Asked
  /\ Raise(IF "model" \in spent THEN "CaseBudgetExhausted" ELSE "IndexError")
  /\ UNCHANGED <<inputs, tree, results, finished, limits, memory, offered, clock>>

Answers == Asked /\ "model" \notin spent

Truncated ==
  /\ Answers
  /\ Recover(TRUE)
  /\ force_patch' = FALSE
  /\ pc' = "loop"
  /\ UNCHANGED <<inputs, tree, results, finished, rejected_patches, duplicates, no_ops,
                 repeated, sources, offered, spent, result>>

\* Prose without a diff: the first time the model is reminded of the tools.
Prose ==
  /\ Answers
  /\ IF recovery_used THEN UNCHANGED <<limits, late>>
     ELSE Recover(FALSE)
  /\ force_patch' = FALSE
  /\ pc' = "loop"
  /\ UNCHANGED <<inputs, tree, results, finished, rejected_patches, duplicates, no_ops,
                 repeated, sources, offered, spent, result>>

\* What an edit leads to: a new tree, no change, or it does not apply.  In the
\* last two cases apply_patch puts its backup back.
Applied == {t \in Trees : t # tree}

\* A bug to compare with: results of the tree before the edit are kept.
EditKeepingResults(t) == tree' = t /\ UNCHANGED results

\* apply_patch forgets what was validated on the tree it changed.
Edit(t) == tree' = t /\ results' = [c \in Checks |-> NotRun]

\* Prose with a diff is applied and finished in one go.  finish_revision
\* refuses as long as there are checks to run, and the model is then told that
\* the tree was restored.
ProseDiff(e) ==
  /\ Answers
  /\ force_patch' = FALSE
  /\ \/ \E t \in Applied :
          /\ Edit(t)
          /\ IF t # parent /\ t # Clean /\ required = {}
               THEN /\ finished' = TRUE /\ pc' = "drain"
                    /\ UNCHANGED <<rejected_patches>>
             ELSE /\ rejected_patches' = rejected_patches \cup {e}
                  /\ pc' = "loop"
                  /\ UNCHANGED finished
     \/ /\ rejected_patches' = rejected_patches \cup {e}
        /\ pc' = "loop"
        /\ UNCHANGED <<tree, results, finished>>
  /\ UNCHANGED <<inputs, limits, duplicates, no_ops, repeated, sources, offered, clock, result>>

-----------------------------------------------------------------------------
(* Tool calls: the first call of an answer is executed, the others deferred. *)

\* The same call again; a diagnostic one repeated often forces an edit.
Repeat(call) ==
  LET times == IF repeated.call = call THEN repeated.times + 1 ELSE 1
  IN repeated' = [call |-> call, times |-> IF times > RepeatLimit THEN RepeatLimit ELSE times]

RepeatedOften(call) == repeated.call = call /\ repeated.times + 1 >= RepeatLimit

\* A call that is refused or fails is answered with its error.
CallFails(tool) ==
  /\ Answers /\ tool # "apply_patch"
  /\ tool \notin offered \/ tool \in {"read_file", "search", "run_check"}
  /\ Repeat(tool)
  /\ force_patch' = (tool # "finish_revision" /\ RepeatedOften(tool))
  /\ pc' = "loop"
  /\ UNCHANGED <<inputs, tree, results, finished, limits, rejected_patches, duplicates,
                 no_ops, sources, offered, clock, result>>

\* Reading a source interval; one that is covered by an interval read before
\* forces an edit.
ReadFile ==
  /\ Answers /\ "read_file" \in offered
  /\ Repeat("read_file")
  /\ sources' = TRUE
  /\ \E redundant \in BOOLEAN : force_patch' = (redundant \/ RepeatedOften("read_file"))
  /\ pc' = "loop"
  /\ UNCHANGED <<inputs, tree, results, finished, limits, rejected_patches, duplicates,
                 no_ops, offered, clock, result>>

\* Searching symbols, and inspecting traces, callers and diffs.
Search ==
  /\ Answers /\ "search" \in offered
  /\ Repeat("search")
  /\ force_patch' = RepeatedOften("search")
  /\ pc' = "loop"
  /\ UNCHANGED <<inputs, tree, results, finished, limits, rejected_patches, duplicates,
                 no_ops, sources, offered, clock, result>>

\* run_allowed_public_check: an exhausted execution budget is a RuntimeError
\* and ends up with the failing calls.
RunCheck(c) ==
  /\ Answers /\ "run_check" \in offered /\ "execution" \notin spent
  /\ Repeat("run_check")
  /\ force_patch' = RepeatedOften("run_check")
  /\ Execute(c)
  /\ pc' = "loop"
  /\ UNCHANGED <<inputs, tree, finished, limits, rejected_patches, duplicates, no_ops,
                 sources, offered, clock, result>>

ApplyPatch(e) ==
  /\ Answers /\ e \notin rejected_patches
  /\ \E t \in Applied : Edit(t)
  /\ Repeat("apply_patch") /\ force_patch' = FALSE
  /\ pc' = "loop"
  /\ UNCHANGED <<inputs, finished, limits, rejected_patches, duplicates, no_ops, sources,
                 offered, clock, result>>

\* A patch that does not apply, or changes nothing, is remembered; the third
\* one without effect ends the session.
PatchFails(e, no_op) ==
  /\ Answers /\ e \notin rejected_patches
  /\ rejected_patches' = rejected_patches \cup {e}
  /\ no_ops' = IF no_op THEN no_ops + 1 ELSE no_ops
  /\ Repeat("apply_patch") /\ force_patch' = FALSE
  /\ IF no_ops' >= NoOpLimit THEN Return("REPEATED_NOOP_PATCH")
     ELSE pc' = "loop" /\ UNCHANGED result
  /\ UNCHANGED <<inputs, tree, results, finished, limits, duplicates, sources, offered, clock>>

PatchRepeated(e) ==
  /\ Answers /\ e \in rejected_patches
  /\ duplicates' = duplicates + 1
  /\ Repeat("apply_patch") /\ force_patch' = FALSE
  /\ IF duplicates' >= DuplicateLimit THEN Return("REPEATED_REJECTED_PATCH")
     ELSE pc' = "loop" /\ UNCHANGED result
  /\ UNCHANGED <<inputs, tree, results, finished, limits, rejected_patches, no_ops, sources,
                 offered, clock>>

\* finish_revision: also refused for an edit that does not rebuild the tree.
FinishRevision ==
  /\ Answers /\ "finish_revision" \in offered
  /\ Repeat("finish_revision") /\ force_patch' = FALSE
  /\ \/ /\ Committable /\ Pending = {}
        /\ finished' = TRUE /\ pc' = "drain"
     \/ finished' = FALSE /\ pc' = "loop"
  /\ UNCHANGED <<inputs, tree, results, limits, rejected_patches, duplicates, no_ops, sources,
                 offered, clock, result>>

-----------------------------------------------------------------------------
(* The end of a session.                                                     *)

MustDrain == Committable /\ Pending # {}

\* What is still pending for the last edit is executed without a turn.
Drain ==
  /\ pc = "drain" /\ MustDrain
  /\ \E c \in Pending :
       IF "execution" \in spent
         THEN Raise("CaseBudgetExhausted") /\ UNCHANGED results
       ELSE Execute(c) /\ UNCHANGED <<pc, result>>
  /\ UNCHANGED <<inputs, tree, finished, limits, memory, offered, clock>>

RetainedUnknown == Committable /\ tree \notin rejected

\* An edit is retained if it was observed to the end and not rejected before.
Retained ==
  Committable /\ tree \notin rejected /\ Pending = {} /\ WithStatus({"UNKNOWN"}) = {}

Conclude ==
  /\ pc = "drain" /\ ~MustDrain
  /\ Return(IF finished \/ Retained THEN "NONE" ELSE "TURN_LIMIT")
  /\ UNCHANGED <<inputs, tree, results, finished, limits, memory, offered, clock>>

Done == pc = "done" /\ UNCHANGED vars

Session ==
  \/ ValidateEdit \/ BeginTurn \/ LeaveLoop
  \/ RequestFails \/ RequestRaises \/ Truncated \/ Prose
  \/ \E e \in Edits :
       \/ ProseDiff(e) \/ ApplyPatch(e) \/ PatchRepeated(e)
       \/ \E no_op \in BOOLEAN : PatchFails(e, no_op)
  \/ ReadFile \/ Search
  \/ \E tool \in Tools : CallFails(tool)
  \/ \E c \in required : RunCheck(c)
  \/ FinishRevision \/ Drain \/ Conclude

Next ==
  \/ Session \/ Tick
  \/ \E part \in {"model", "execution"} : Spend(part)
  \/ Done

Spec == Init /\ [][Next]_vars

\* Requests and executions have timeouts, so the session keeps running.
FairSpec == Spec /\ WF_vars(Session)

-----------------------------------------------------------------------------
(* Properties.                                                               *)

\* Type invariant of the session.
TypeOK ==
  /\ pc \in {"loop", "model", "drain", "done"}
  /\ {parent, tree} \subseteq Trees /\ initial \in BOOLEAN /\ required \subseteq Checks
  /\ results \in [Checks -> [status : Statuses \cup {"NOT_RUN"}, tree : Trees]]
  /\ turn \in 0..turn_limit
  /\ turn_limit \in {MaxTurns, RecoveryTurns}
  /\ rejected_patches \subseteq Edits
  /\ duplicates \in 0..DuplicateLimit /\ no_ops \in 0..NoOpLimit
  /\ repeated.times \in 0..RepeatLimit
  /\ offered \subseteq Tools /\ spent \subseteq {"model", "execution"}

\* Validation always speaks of the tree as it is now, through every edit,
\* failed edit and prose diff (execution_tools.py:255).
ResultsAreOfThisTree ==
  \A c \in Checks : results[c].status # "NOT_RUN" => results[c].tree = tree

\* The controller gets an edit only with every required check executed on
\* that very tree and none inconclusive, however the session ended
\* (deepseek_agent.py:911).
HandedOverValidated ==
  result.edited =>
    /\ result.tree # Clean
    /\ \A c \in required :
         results[c].tree = result.tree /\ results[c].status \notin {"NOT_RUN", "UNKNOWN"}

\* A tree that was rejected before is handed over again only as a diff in
\* prose, and only when the objective has no check to run (deepseek_agent.py:915).
RejectedNotHandedOver ==
  result.edited /\ result.tree \in rejected => finished /\ required = {}

\* An edit that could be judged is not lost when the turns or the time run out
\* in the very turn that made it (deepseek_agent.py:895): without a raised
\* error, a session that made an observed edit hands it over.
LastEditIsKept ==
  pc = "done" /\ result.error = "TURN_LIMIT" =>
    \/ ~Committable \/ tree \in rejected
    \/ Pending = {} /\ WithStatus({"UNKNOWN"}) # {}

\* A session ends by itself, even if its deadline never passes: truncated
\* answers, failures and validation cannot keep it going (deepseek_agent.py:491).
SessionEnds == <>(pc = "done")

\* What the controller is handed is a new tree, validated as it stands, and it
\* is handed whatever could be judged.
HandoverIsSound ==
  TypeOK /\ HandedOverValidated /\ RejectedNotHandedOver /\ LastEditIsKept
=============================================================================
