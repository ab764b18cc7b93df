------------------------------ MODULE Renewals ------------------------------
(***************************************************************************)
(* Claim renewals from the native stream: the backend's reader sees a      *)
(* worker's writes complete (internal/harness/claude_renewal.go, codex.go),*)
(* puts their paths into a bounded mailbox (renewal.go), and the           *)
(* controller renews the claims that cover them off the reader             *)
(* (controller.go, renewLoop and observe).                                 *)
(*                                                                         *)
(* A frame is read when it is sent: the stream keeps its order.  The       *)
(* controller's lock is held from the take of a batch to its receipt, the  *)
(* mailbox's for one operation.  Of the clock only this is kept: a path    *)
(* was renewed within the interval or it was not.                          *)
(***************************************************************************)
EXTENDS Naturals, FiniteSets

CONSTANTS
  Harness,         \* the harnesses a launch may run
  Use,             \* tool_use ids, and file changes, each used once
  Path,
  MaxPending,      \* renewMaxPending
  BatchMax,        \* renewBatchMax
  CorrelationMax,  \* correlationMax
  MaxTurns         \* bounds the turns

VARIABLES
  harness,    \* the harness of this launch
  turn,       \* [no, active]: the input the backend has captured
  sighted,    \* what each use was said to be in the active turn: tool and path
  done,       \* the uses whose own result is in
  fileTools,  \* the correlations: uses that await their result
  pending,    \* the mailbox
  gap,        \* whether coverage was lost, and whether that is journalled
  wake,       \* the mailbox's signal
  timer,      \* whether the loop's timer is set
  renewedAt,  \* a path's last renewal: never, within the interval, or before
  ctl,        \* who holds the controller, for what, with which batch
  events,     \* boundaries the controller has yet to observe
  ended,      \* whether the end of the session is recorded
  wrote,      \* ghost: the paths written
  owed,       \* ghost: those neither renewed since nor in the batch under way
  misnamed    \* ghost: the paths of file tools named late, under the id of
              \* another tool

vars == <<harness, turn, sighted, done, fileTools, pending, gap, wake, timer, renewedAt, ctl, events, ended,
          wrote, owed, misnamed>>

reader == <<turn, sighted, done, fileTools>>
mailbox == <<pending, gap, wake>>

(* Of the uses that name a path those of Write and Edit are read; of any   *)
(* other, here a shell command, only that it is another.                   *)
Tool == {"Write", "Edit", "Bash"}
Named == {x \in [tool : Tool, path : Path] : x.tool = "Bash" => x.path = CHOOSE p \in Path : TRUE}
Free == [by |-> "none", batch |-> {}, event |-> "none", rest |-> {}]
NoUse == [tool |-> "none", path |-> "none"]

Init ==
  /\ harness \in Harness
  /\ turn = [no |-> 0, active |-> FALSE] /\ sighted = [u \in Use |-> {}] /\ done = {}
  /\ fileTools = [u \in Use |-> NoUse]
  /\ pending = {} /\ gap = [lost |-> FALSE, reported |-> TRUE] /\ wake = FALSE /\ timer = FALSE
  /\ renewedAt = [p \in Path |-> "never"] /\ ctl = Free /\ events = {} /\ ended = FALSE /\ wrote = {}
  /\ owed = {} /\ misnamed = {}

-----------------------------------------------------------------------------
(* The mailbox.                                                            *)
Lost(g) == [lost |-> TRUE, reported |-> FALSE]

(* Mutant: what does not fit is dropped. *)
OnlyDrops(g, dropped) == g

Overflows(g, dropped) == IF dropped THEN Lost(g) ELSE g

(* Paths already pending cost nothing; what does not fit is lost coverage. *)
Offer(paths, lost) ==
  LET new == paths \ pending IN
  \E kept \in SUBSET new :
    /\ Cardinality(pending \cup kept) <= MaxPending
    /\ kept = new \/ Cardinality(pending \cup kept) = MaxPending
    /\ pending' = pending \cup kept
    /\ LET g == Overflows(gap, kept # new) IN gap' = IF lost THEN Lost(g) ELSE g
    /\ wake' = (wake \/ lost \/ paths # {})

Unknown == pending' = pending /\ gap' = Lost(gap) /\ wake' = TRUE

-----------------------------------------------------------------------------
(* Claude: the reader.                                                     *)
IsFile(x) == x.tool \in {"Write", "Edit"}
Correlated == {u \in Use : fileTools[u] # NoUse}

(* Mutant: another tool under the same id is none of its business. *)
FilesOnly(u, x) == IsFile(x) /\ fileTools[u] \notin {NoUse, x}

(* Two sightings of one id must agree. *)
Disagrees(u, x) == fileTools[u] \notin {NoUse, x}

RecordFileTool(u, x) ==
  IF Disagrees(u, x) THEN fileTools' = [fileTools EXCEPT ![u] = NoUse] /\ Unknown
  ELSE IF ~IsFile(x) \/ fileTools[u] = x THEN UNCHANGED <<fileTools, mailbox>>
  ELSE IF Cardinality(Correlated) >= CorrelationMax THEN UNCHANGED fileTools /\ Unknown
  ELSE fileTools' = [fileTools EXCEPT ![u] = x] /\ UNCHANGED mailbox

(* The assistant's tool_use, then perhaps its can_use_tool request, of the *)
(* main thread in the active turn.  Anything else records nothing.         *)
Sight(u, x) ==
  /\ harness = "claude" /\ turn.active /\ u \notin done
  /\ x \notin sighted[u] /\ Cardinality(sighted[u]) < 2
  /\ sighted' = [sighted EXCEPT ![u] = @ \cup {x}]
  /\ RecordFileTool(u, x)
  /\ misnamed' = IF IsFile(x) /\ \E y \in sighted[u] : ~IsFile(y) THEN misnamed \cup {x.path} ELSE misnamed
  /\ UNCHANGED <<harness, turn, done, timer, renewedAt, ctl, events, ended, wrote, owed>>

(* What native sends that names a use: its own result, whether it ran or   *)
(* not, which may have lost its provenance, or a subagent's.  Meta may say *)
(* a use was not executed, was accepted, or something unmeasured; it may   *)
(* contradict the frame's own sign that the use completed, and it never    *)
(* alone says of a use that ran that it did not.                           *)
Completed(f) == f.err = "false" \/ (f.err = "omitted" /\ f.witness)

Frame(x, ran) ==
  {f \in [err : {"true", "false", "omitted"}, witness : BOOLEAN,
          meta : {"none", "accept", "unexecuted", "odd"}, parent : {"main", "absent", "subagent"}] :
     \/ f.parent = "subagent" /\ ~ran
     \/ /\ f.parent # "subagent"
        /\ IF ran THEN f.err # "true" ELSE f.err # "false"
        /\ f.witness => ran /\ x.tool = "Write"
        /\ ran /\ f.meta = "unexecuted" => Completed(f)}

(* Mutant: a use that is said not to have run did not. *)
AsTold(f) == IF f.meta = "unexecuted" THEN "unexecuted" ELSE IF f.meta = "odd" THEN "unknown" ELSE "proceed"

(* A signal of completion contradicts it. *)
Verdict(f) ==
  CASE f.meta \in {"none", "accept"} -> "proceed"
    [] f.meta = "unexecuted" /\ ~Completed(f) -> "unexecuted"
    [] OTHER -> "unknown"

(* Mutant: a result that carries no error is a success. *)
NotAnError(f) == f.err # "true"

Established(f) == Completed(f)

(* A use that ran owes its path: its harness knows that it wrote it. *)
Writes(paths) == wrote' = wrote \cup paths /\ owed' = owed \cup paths
Owes(x, ran) == IF ran /\ IsFile(x) THEN {x.path} ELSE {}

(* What the reader makes of the result of a use it knows: only one of its  *)
(* main thread consumes the correlation.                                   *)
Reading(f) ==
  LET verdict == Verdict(f)
      provenance == f.parent = "main"
  IN [provenance |-> provenance,
      renews |-> provenance /\ verdict = "proceed" /\ Established(f),
      missed |-> \/ f.parent = "absent"
                 \/ provenance /\ verdict = "unknown"
                 \/ provenance /\ verdict = "proceed" /\ f.err = "omitted" /\ ~Established(f)]

ToolResult(u) ==
  /\ harness = "claude" /\ turn.active /\ u \notin done
  /\ \E x \in sighted[u], ran \in BOOLEAN : \E r \in {Reading(f) : f \in Frame(x, ran)} :
       LET known == fileTools[u] # NoUse IN
       /\ Writes(Owes(x, ran))
       /\ fileTools' = IF known /\ r.provenance THEN [fileTools EXCEPT ![u] = NoUse] ELSE fileTools
       /\ Offer(IF known /\ r.renews THEN {fileTools[u].path} ELSE {}, known /\ r.missed)
       /\ done' = IF r.provenance THEN done \cup {u} ELSE done
  /\ UNCHANGED <<harness, turn, sighted, timer, renewedAt, ctl, events, ended, misnamed>>

(* A frame that cannot be read is lost coverage while a use awaits its     *)
(* result.                                                                 *)
Unreadable(u) ==
  /\ harness = "claude" /\ turn.active /\ u \notin done
  /\ \E x \in sighted[u], ran \in BOOLEAN : Writes(Owes(x, ran))
  /\ IF Correlated # {} THEN Unknown ELSE UNCHANGED mailbox
  /\ UNCHANGED <<harness, turn, sighted, done, fileTools, timer, renewedAt, ctl, events, ended, misnamed>>

-----------------------------------------------------------------------------
(* Codex: a completed file change names all its paths or cannot be         *)
(* attributed.  One of another turn than the active one of our own is not  *)
(* looked at.                                                              *)
FileChange(u, paths) ==
  /\ harness = "codex" /\ u \notin done
  /\ \E status \in {"completed", "declined", "odd"}, readable \in BOOLEAN, own \in {turn.active, FALSE} :
       /\ Writes(IF own /\ status = "completed" THEN paths ELSE {})
       /\ Offer(IF own /\ status = "completed" /\ readable THEN paths ELSE {},
                own /\ (status = "odd" \/ (status = "completed" /\ ~readable)))
  /\ done' = done \cup {u}
  /\ UNCHANGED <<harness, turn, sighted, fileTools, timer, renewedAt, ctl, events, ended, misnamed>>

BeginTurn ==
  /\ ~turn.active /\ turn.no < MaxTurns /\ events = {} /\ ~ended
  /\ turn' = [no |-> turn.no + 1, active |-> TRUE]
  /\ UNCHANGED <<harness, sighted, done, fileTools, mailbox, timer, renewedAt, ctl, events, ended, wrote, owed, misnamed>>

(* The turn's result, after which no use of it has one; the last may end   *)
(* the session.                                                            *)
EndTurn ==
  /\ turn.active
  /\ turn' = [turn EXCEPT !.active = FALSE]
  /\ sighted' = [u \in Use |-> {}] /\ done' = done \cup {u \in Use : sighted[u] # {}}
  /\ fileTools' = [u \in Use |-> NoUse]
  /\ \E e \in {{"idle"}, {"idle", "ended"}} : events' = events \cup e
  /\ UNCHANGED <<harness, mailbox, timer, renewedAt, ctl, ended, wrote, owed, misnamed>>

-----------------------------------------------------------------------------
(* The controller.                                                         *)
IsDue(p) == renewedAt[p] # "within"

(* One batch is taken; what was lost is journalled with it.  Of the rest,  *)
(* the paths renewed before have a deadline.                               *)
Take(by, event) ==
  \E batch \in SUBSET {p \in pending : IsDue(p)} :
    /\ Cardinality(batch) <= BatchMax
    /\ Cardinality(batch) = BatchMax \/ batch = {p \in pending : IsDue(p)}
    /\ pending' = pending \ batch
    /\ gap' = [gap EXCEPT !.reported = TRUE]
    /\ ctl' = [by |-> by, batch |-> batch, event |-> event,
               rest |-> {p \in pending \ batch : renewedAt[p] # "never"}]
    /\ owed' = owed \ batch

(* The loop wakes by the signal or by its timer, which may be early. *)
LoopTakes ==
  /\ ctl = Free /\ (wake \/ timer)
  /\ \/ wake /\ wake' = FALSE /\ UNCHANGED timer
     \/ timer /\ timer' = FALSE /\ UNCHANGED wake
  /\ Take("loop", "none")
  /\ UNCHANGED <<harness, reader, renewedAt, events, ended, wrote, misnamed>>

(* A boundary first applies what is due. *)
BoundaryTakes(e) ==
  /\ ctl = Free /\ e \in events /\ (e = "ended" => "idle" \notin events)
  /\ Take("boundary", e)
  /\ events' = events \ {e}
  /\ UNCHANGED <<harness, reader, wake, timer, renewedAt, ended, wrote, misnamed>>

(* Mutant: what is left of a full batch waits for the next write. *)
NotResignalled(full) == FALSE

Resignals(full) == full

(* The ledger renews, refuses an incarnation that has ended, or the call   *)
(* is not confirmed and may have been done or not.                         *)
Confirm ==
  /\ ctl.by # "none"
  /\ \E out \in IF ctl.batch = {} \/ ended THEN {"refused"} ELSE {"renewed", "unknown"} :
       /\ renewedAt' = [p \in Path |->
                          IF out = "renewed" /\ p \in ctl.batch THEN "within" ELSE renewedAt[p]]
       /\ owed' = IF out = "renewed" THEN owed ELSE owed \cup (ctl.batch \cap wrote)
       /\ gap' = IF ctl.batch # {} /\ out # "renewed" THEN [lost |-> TRUE, reported |-> TRUE] ELSE gap
       /\ wake' = (wake \/ Resignals(Cardinality(ctl.batch) = BatchMax))
       /\ timer' = IF ctl.by = "loop" THEN ctl.rest # {} ELSE timer
  /\ ended' = (ended \/ ctl.event = "ended")
  /\ ctl' = Free
  /\ UNCHANGED <<harness, reader, pending, events, wrote, misnamed>>

(* The interval of a path is over. *)
FallsDue(p) ==
  /\ renewedAt[p] = "within" /\ renewedAt' = [renewedAt EXCEPT ![p] = "before"]
  /\ UNCHANGED <<harness, reader, mailbox, timer, ctl, events, ended, wrote, owed, misnamed>>

Next ==
  \/ \E u \in Use, x \in Named : Sight(u, x)
  \/ \E u \in Use : ToolResult(u) \/ Unreadable(u)
  \/ \E u \in Use : \E paths \in (SUBSET Path) \ {{}} : FileChange(u, paths)
  \/ BeginTurn \/ EndTurn
  \/ LoopTakes \/ \E e \in events : BoundaryTakes(e)
  \/ Confirm
  \/ \E p \in Path : FallsDue(p)

(* The loop runs, its ledger calls are bounded, and time passes. *)
Spec ==
  /\ Init /\ [][Next]_vars
  /\ WF_vars(LoopTakes) /\ WF_vars(Confirm) /\ \A p \in Path : WF_vars(FallsDue(p))
  /\ SF_vars(\E e \in events : BoundaryTakes(e))

-----------------------------------------------------------------------------
(* toolResults, codexFileChangePaths: a path is up for renewal only when a *)
(* write of it has completed, or native named a file tool for it under an  *)
(* id that had named another tool; unless a use could not be correlated,   *)
(* and then coverage is on record as lost.                                 *)
OnlyWritesRenew == pending \cup ctl.batch \subseteq wrote \cup misnamed \/ gap.lost

(* No completed write of the worker is skipped in silence: it waits for a  *)
(* renewal, or is part of the one under way, or the coverage is on record  *)
(* as lost.                                                                *)
NoSilentSkip == owed \subseteq pending \/ gap.lost

(* A renewal is behind every write and a write behind every renewal, or    *)
(* coverage is on record as lost.                                          *)
RenewalsAreTrue == OnlyWritesRenew /\ NoSilentSkip

SomethingLeft == pending # {} \/ ~gap.reported

(* renewLoop: what is in the mailbox is taken out, and what was lost is    *)
(* journalled, with no further write to wake the loop.                     *)
PendingIsApplied == SomethingLeft ~> ~SomethingLeft

-----------------------------------------------------------------------------
(* What the code says of itself and does not keep: no run checks them, and *)
(* the README tells what breaks each.                                      *)

(* recordFileToolLocked: of sightings that disagree neither is correlated. *)
OnlyTheWrittenRenew == pending \cup ctl.batch \subseteq wrote \/ gap.lost

(* observe: "A boundary applies every renewal already due first, so a      *)
(* write the turn completed is renewed before its idle (or end) is         *)
(* recorded, and before an end makes the incarnation refuse it."           *)
BoundaryAppliesAllDue ==
  ctl.by = "boundary" => \A p \in pending : ~IsDue(p)
=============================================================================
