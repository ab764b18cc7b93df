---------------------------- MODULE MCWaitBlock ----------------------------
(* A behaviour is of one part: the register alone, one waiter and the one  *)
(* claim of one holder, with registrations that follow each other and      *)
(* marks and closes that arrive late; the process that blocks on that      *)
(* register; or that process and the claims of two holders, who claim,     *)
(* release and say bye while it polls.                                     *)
EXTENDS WaitBlock, TLC

CONSTANTS
  Other,     \* the second holder, of the third part only,
  OtherId    \* and its claim

VARIABLE part

MCSlug == {"item", "other"}
Dir == <<"dir">>
OtherDir == <<"other">>
MCPath == {Dir, OtherDir}
MCRequest ==
  {[slug |-> "item", scopes |-> {Dir}, shared |-> FALSE, basedOn |-> NoSlug],
   [slug |-> "other", scopes |-> {OtherDir}, shared |-> FALSE, basedOn |-> NoSlug]}

-----------------------------------------------------------------------------
partVars == <<part, blockVars>>

PartInit == part \in {"register", "block", "holders"} /\ BlockInit

(* Bound of the first two parts: one holder and its claim. *)
OneHolder ==
  /\ sessions'[Other].inc = 0 /\ OtherId \notin minted'
  /\ \A c \in DOMAIN claims' : claims'[c].slug = "item"

RegisterNext == part = "register" /\ WaitNext /\ OneHolder /\ UNCHANGED <<part, block>>

(* Bounds of the parts that block: one registration of each session, and   *)
(* one close or mark on its way but for what the process itself sends.     *)
OneEach ==
  /\ \A s \in Session : sessions'[s].inc <= 1
  /\ sent' \subseteq sent \/ sent = {} \/ \E s \in Waiter : block'[s] # block[s]

BlockedNext == part = "block" /\ BlockNext /\ OneHolder /\ OneEach /\ UNCHANGED part

(* Bounds of the part of two holders: each claims once, nobody is heard    *)
(* again, no claim is handed on, and the waiter makes one declaration and  *)
(* runs no check beside it.                                                *)
TwoHolders ==
  /\ \A s \in Waiter : waits'[s].decl <= 1
  /\ sent' \subseteq sent \/ \E s \in Waiter : block'[s] # block[s]
  /\ \A s \in Session : sessions'[s].seen = 0
  /\ \A c \in DOMAIN claims' :
       /\ claims'[c].owner \notin Waiter
       /\ claims'[c].owner = Other <=> c = OtherId
       /\ claims'[c].slug = IF c = OtherId THEN "other" ELSE "item"

HoldersNext == part = "holders" /\ BlockNext /\ TwoHolders /\ OneEach /\ UNCHANGED part

PartNext == RegisterNext \/ BlockedNext \/ HoldersNext

(* As in WaitBlock: a blocked process keeps polling. *)
PartSpec ==
  PartInit /\ [][PartNext]_partVars /\ \A s \in Waiter : WF_blockVars(BlockStep(s))
=============================================================================
