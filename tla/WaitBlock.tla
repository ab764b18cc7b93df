----------------------------- MODULE WaitBlock -----------------------------
(***************************************************************************)
(* wait --block (internal/cli/waitblock.go): a process that polls the      *)
(* ledger until its own declaration has a verdict.  It holds nothing       *)
(* between its reads, so a poll is several steps and anything may happen   *)
(* between two of them.                                                    *)
(***************************************************************************)
EXTENDS Waits

VARIABLE block  \* the process of each session: where it is, and what it waits on

(* `gone` is kept for the properties: between a settle and the read that   *)
(* follows it, the registrations that had ended when the poll settled.     *)

blockVars == <<sessions, claims, minted, now, waits, sent, block>>

Polling == {"asleep", "reading", "settling", "rereading"}
Exited == {"landed", "expired", "cleared", "ended"}

BlockInit ==
  /\ WaitInit
  /\ block = [s \in Waiter |-> [at |-> "none", decl |-> 0, inc |-> 0, time |-> 0, gone |-> {}]]

Goto(s, at) == block' = [block EXCEPT ![s].at = at, ![s].gone = {}]

-----------------------------------------------------------------------------
(* The process declares, then sleeps before its first read.  A timer never *)
(* lands, so --block refuses it.                                           *)
DeclareAndBlock(s, i, slugs, until) ==
  /\ slugs # {}
  /\ block[s].at \notin Polling
  /\ DeclareWait(s, i, slugs, until)
  /\ block' = [block EXCEPT ![s] =
       [at |-> "asleep", decl |-> waits'[s].decl, inc |-> i, time |-> now, gone |-> {}]]

(* Mutant: the clock is read once, before the loop. *)
ReadSessionByOldClock(s) ==
  /\ block[s].at = "asleep"
  /\ Goto(s, IF IsCaller(s, block[s].inc) THEN "reading" ELSE "ended")
  /\ UNCHANGED waitVars

(* The clock and the session are read first. *)
ReadSession(s) ==
  /\ block[s].at = "asleep"
  /\ block' = [block EXCEPT ![s].time = now,
                            ![s].at = IF IsCaller(s, block[s].inc) THEN "reading" ELSE "ended"]
  /\ UNCHANGED waitVars

Replaced(s) == waits[s].decl # block[s].decl \/ waits[s].inc # block[s].inc

PendingOnEnded(s) ==
  \E c \in Pending(claims, s, waits[s]) : Ended(claims[c].owner)

(* The verdict by the clock of the poll's start. *)
VerdictAt(s) ==
  IF Landed(claims, s, waits[s]) THEN "landed"
  ELSE IF block[s].time >= waits[s].deadline THEN "expired"
  ELSE "asleep"

(* Mutant: a wait that was withdrawn reads as one that ended. *)
JudgeWithoutCleared(s) ==
  IF IsOpen(waits[s])
  THEN Goto(s, VerdictAt(s)) /\ UNCHANGED sent
  ELSE /\ Goto(s, IF waits[s].reason \in {"landed", "expired"} THEN waits[s].reason ELSE "ended")
       /\ UNCHANGED sent

(* An open row is judged, and closed once the verdict was written; a row   *)
(* already closed says why.                                                *)
Judge(s) ==
  IF IsOpen(waits[s])
  THEN /\ Goto(s, VerdictAt(s))
       /\ IF VerdictAt(s) = "asleep" THEN UNCHANGED sent ELSE Send(s, VerdictAt(s))
  ELSE Goto(s, waits[s].reason) /\ UNCHANGED sent

(* Mutant: a holder's bye is left for somebody else to settle. *)
ReadWaitUnsettled(s) ==
  /\ block[s].at = "reading"
  /\ IF Replaced(s) THEN Goto(s, "cleared") /\ UNCHANGED sent ELSE Judge(s)
  /\ UNCHANGED <<ledger, waits>>

(* Then the wait, in one read.  A claim still waited for whose holder said *)
(* bye is settled before it is judged.                                     *)
ReadWait(s) ==
  /\ block[s].at = "reading"
  /\ IF Replaced(s)
     THEN Goto(s, "cleared") /\ UNCHANGED sent
     ELSE IF IsOpen(waits[s]) /\ PendingOnEnded(s)
     THEN Goto(s, "settling") /\ UNCHANGED sent
     ELSE Judge(s)
  /\ UNCHANGED <<ledger, waits>>

EndedRegistrations == {<<x, sessions[x].inc>> : x \in {y \in Session : Ended(y)}}

Settle(s) ==
  /\ block[s].at = "settling"
  /\ SettleEnded
  /\ block' = [block EXCEPT ![s].at = "rereading", ![s].gone = EndedRegistrations]
  /\ UNCHANGED sent

(* Mutant: what is read again is taken for the wait read before. *)
RereadAnyWait(s) ==
  /\ block[s].at = "rereading"
  /\ Judge(s)
  /\ UNCHANGED <<ledger, waits>>

(* A wait replaced meanwhile is left to the next poll. *)
RereadWait(s) ==
  /\ block[s].at = "rereading"
  /\ IF waits[s].decl # block[s].decl THEN Goto(s, "asleep") /\ UNCHANGED sent ELSE Judge(s)
  /\ UNCHANGED <<ledger, waits>>

BlockStep(s) == ReadSession(s) \/ ReadWait(s) \/ Settle(s) \/ RereadWait(s)

BlockNext ==
  \/ WaitNext /\ UNCHANGED block
  \/ \E s \in Waiter :
       \/ \E i \in Incarnation, slugs \in SUBSET Slug, until \in Until :
            DeclareAndBlock(s, i, slugs, until)
       \/ BlockStep(s)

(* A blocked process keeps polling: its loop sleeps waitBlockPoll and      *)
(* reads again, and stops nowhere else.  Nobody else is assumed to act,    *)
(* and the clock need not advance.                                         *)
BlockSpec ==
  BlockInit /\ [][BlockNext]_blockVars /\ \A s \in Waiter : WF_blockVars(BlockStep(s))

-----------------------------------------------------------------------------
(* Exit 5 means what it says: the session ended, or registered again, so   *)
(* the wait it declared is not coming back.                                *)
EndedMeansGone ==
  \A s \in Waiter : block[s].at = "ended" => ~IsCaller(s, block[s].inc)

(* Exit 3 is about the declaration the process made: its own deadline has  *)
(* passed, whatever was declared and settled between the reads.            *)
ExpiredIsItsOwn ==
  \A s \in Waiter :
    block[s].at \in Polling /\ block'[s].at = "expired" =>
      waits[s].decl = block[s].decl /\ now >= waits[s].deadline

(* "So the verdict is of the settled ledger" (blockOn's comment): who is    *)
(* still waited for when the process gives up had not said bye when its    *)
(* poll looked, or settled.  A bye between the settle and the next read is *)
(* not seen, so that what the process says may be of one just gone.        *)
HeldSinceThePoll(s, c) ==
  \/ ~Ended(claims[c].owner)
  \/ /\ block[s].at = "rereading"
     /\ <<claims[c].owner, claims[c].inc>> \notin block[s].gone

ExpiredOnlyOnTheHeld ==
  \A s \in Waiter :
    block[s].at \in Polling /\ block'[s].at = "expired" /\ IsOpen(waits[s]) =>
      \E c \in Pending(claims, s, waits[s]) : HeldSinceThePoll(s, c)

(* A wait runs out only past its deadline, and only on those who hold what *)
(* it waits for: as the check settles it, or as the poll did.              *)
ExpiresJustly ==
  [][/\ ExpiredOnlyPastDeadline'
     /\ ExpiredOnlyOnTheHeld
     /\ UNCHANGED block => ExpiredOnlyOnTheLiving]_blockVars

(* The exit codes of a blocked process mean what they say.                 *)
ExitsAreTrue == [][ExpiredIsItsOwn /\ EndedMeansGone']_blockVars

OutOfBlock(s) == block[s].at \notin Polling

PastDeadline(s) ==
  block[s].at \in Polling /\ waits[s].decl = block[s].decl /\ now >= waits[s].deadline

(* A blocked process ends once its deadline has passed. *)
BlockEnds == \A s \in Waiter : PastDeadline(s) ~> OutOfBlock(s)

HolderGone(s) ==
  block[s].at \in Polling /\ ~Replaced(s) /\ IsOpen(waits[s]) /\ PendingOnEnded(s)

HeldAnew(s) == \E c \in waits[s].targets \cap OpenIn(claims) : ~Ended(claims[c].owner)

(* A holder's bye wakes the block, with nobody else running a verb and no  *)
(* time passing: the failure D-095 settles.                                *)
ByeUnblocks == \A s \in Waiter : HolderGone(s) ~> OutOfBlock(s) \/ HeldAnew(s)

(* A block comes to an end: by its deadline, or by the bye it waits for.   *)
BlockComesOut == BlockEnds /\ ByeUnblocks
=============================================================================
