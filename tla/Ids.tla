-------------------------------- MODULE Ids --------------------------------
(***************************************************************************)
(* The identifier register of internal/store/ids.go: per space a ceiling,  *)
(* and the blocks handed out above it.  seed and take are transactions of  *)
(* their own.  status is two reads with anything in between.               *)
(*                                                                         *)
(* Ids are int64: MaxId stands for math.MaxInt64, and sums wrap around it. *)
(* Nothing deletes a space or a block: sessions that end and sweeps leave  *)
(* both alone, so neither appears here.                                    *)
(***************************************************************************)
EXTENDS Integers

CONSTANTS
  Space,      \* the names of the number lines
  Taker,      \* the sessions that take ids
  Reader,     \* the callers of status
  MaxId,      \* the largest integer of the machine
  Unseeded    \* the ceiling of a space with no row

ASSUME MaxIdAssumption == MaxId \in Nat \ {0}
ASSUME UnseededAssumption == Unseeded \notin Int

VARIABLES
  ceiling,  \* of each space, or Unseeded
  blocks,   \* the blocks handed out of each space
  status    \* where each caller of status has got to, and its answer

idsVars == <<ceiling, blocks, status>>

Id == 0 .. MaxId
Block == [lo : Id, hi : Id, who : Taker]
NoAnswer == [at |-> "none"]

Verdicts == {"reserved", "above ceiling", "below ceiling, unreserved"}

(* a + b as the machine computes it. *)
Plus(a, b) == IF a + b > MaxId THEN a + b - 2 * (MaxId + 1) ELSE a + b

Holding(sp, n) == {b \in blocks[sp] : b.lo <= n /\ n <= b.hi}

IdsInit ==
  /\ ceiling = [sp \in Space |-> Unseeded]
  /\ blocks = [sp \in Space |-> {}]
  /\ status = [r \in Reader |-> NoAnswer]

-----------------------------------------------------------------------------
(* Mutant: a ceiling may be lowered again. *)
SeedAnywhere(sp, n) ==
  /\ n >= 0
  /\ ceiling' = [ceiling EXCEPT ![sp] = n]
  /\ UNCHANGED <<blocks, status>>

(* ids seed: creates the space, or raises its ceiling. *)
IDSeed(sp, n) ==
  /\ n >= 0
  /\ ceiling[sp] # Unseeded => ceiling[sp] <= n
  /\ ceiling' = [ceiling EXCEPT ![sp] = n]
  /\ UNCHANGED <<blocks, status>>

(* Mutant: the block may run past the largest integer. *)
TakePastTheEnd(sp, count, who) ==
  /\ count > 0
  /\ ceiling[sp] # Unseeded
  /\ blocks' = [blocks EXCEPT ![sp] = @ \cup
       {[lo |-> Plus(ceiling[sp], 1), hi |-> Plus(ceiling[sp], count), who |-> who]}]
  /\ ceiling' = [ceiling EXCEPT ![sp] = Plus(@, count)]
  /\ UNCHANGED status

(* ids take: the next block above the ceiling, and the ceiling moves. *)
IDTake(sp, count, who) ==
  /\ count > 0
  /\ ceiling[sp] # Unseeded
  /\ ~(ceiling[sp] > MaxId - count)
  /\ blocks' = [blocks EXCEPT ![sp] = @ \cup
       {[lo |-> Plus(ceiling[sp], 1), hi |-> Plus(ceiling[sp], count), who |-> who]}]
  /\ ceiling' = [ceiling EXCEPT ![sp] = Plus(@, count)]
  /\ UNCHANGED status

(* ids status reads the ceiling ... *)
StatusCeiling(r, sp, n) ==
  /\ ceiling[sp] # Unseeded
  /\ status' = [status EXCEPT ![r] =
       [at |-> "ceiling read", space |-> sp, id |-> n, ceiling |-> ceiling[sp]]]
  /\ UNCHANGED <<ceiling, blocks>>

(* Mutant: the first id above the ceiling counts as below it. *)
VerdictOffByOne(sp, n, read) ==
  IF Holding(sp, n) # {} THEN "reserved"
  ELSE IF n > read + 1 THEN "above ceiling"
  ELSE "below ceiling, unreserved"

StatusVerdict(sp, n, read) ==
  IF Holding(sp, n) # {} THEN "reserved"
  ELSE IF n > read THEN "above ceiling"
  ELSE "below ceiling, unreserved"

(* ... and then the block, and answers by both. *)
StatusBlock(r) ==
  LET q == status[r]
  IN /\ q.at = "ceiling read"
     /\ status' = [status EXCEPT ![r] =
          [at |-> "answered", space |-> q.space, id |-> q.id,
           verdict |-> StatusVerdict(q.space, q.id, q.ceiling)]]
     /\ UNCHANGED <<ceiling, blocks>>

IdsNext ==
  \E sp \in Space, n \in Id :
    \/ IDSeed(sp, n)
    \/ \E who \in Taker : IDTake(sp, n, who)
    \/ \E r \in Reader : StatusCeiling(r, sp, n) \/ StatusBlock(r)

IdsSpec == IdsInit /\ [][IdsNext]_idsVars

-----------------------------------------------------------------------------
(* Every block lies on the number line, at or below the ceiling of its     *)
(* space: no sum wrapped.                                                  *)
IdsTypeOK ==
  /\ ceiling \in [Space -> Id \cup {Unseeded}]
  /\ blocks \in [Space -> SUBSET Block]

(* An id is in one block at most: none is ever reissued, whatever was      *)
(* seeded in between.                                                      *)
NoIdTwice ==
  \A sp \in Space : \A b, c \in blocks[sp] : b # c => b.hi < c.lo \/ c.hi < b.lo

(* An id that was answered as below the ceiling and in no block is not     *)
(* handed out afterwards, though the two reads behind the answer saw       *)
(* different states of the register.                                       *)
BelowStaysUnavailable ==
  \A r \in Reader :
    status[r].at = "answered" /\ status[r].verdict = "below ceiling, unreserved" =>
      Holding(status[r].space, status[r].id) = {}

(* An id is handed out once, within the integers, or never if it was       *)
(* reported as skipped.                                                    *)
IdsAreFinal == IdsTypeOK /\ NoIdTwice /\ BelowStaysUnavailable

(* The ids handed out, and to whom. *)
Issued ==
  UNION {UNION {{<<sp, n, b.who>> : n \in b.lo .. b.hi} : b \in blocks[sp]} : sp \in Space}

Issuing == INSTANCE IdRegister WITH issued <- Issued

(* The register keeps its promise (IdRegister). *)
Promise == Issuing!Spec
=============================================================================
