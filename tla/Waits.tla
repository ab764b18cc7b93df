------------------------------- MODULE Waits -------------------------------
(***************************************************************************)
(* The wait register of internal/store/wait.go over the ledger: a session  *)
(* declares that it waits on claims of others; LANDED and EXPIRED are      *)
(* computed from the clock and the claims whenever they are read, and what *)
(* a read found is acted on later, once it has been written out: a check   *)
(* closes the wait it evaluated, a beat marks the one it announced.        *)
(*                                                                         *)
(* A declaration's random token is the count of its session's              *)
(* declarations.  The note, the ready commit and the count of checks are   *)
(* left out: no guard reads them.                                          *)
(***************************************************************************)
EXTENDS Ledger

CONSTANTS
  Waiter,         \* the sessions that may declare a wait
  Until,          \* how long a wait may be declared for
  MaxDeclared,    \* bound: the declarations of one session
  MaxSent         \* bound: the closes and marks on their way at one time

ASSUME WaiterAssumption == Waiter \subseteq Session
ASSUME UntilAssumption == Until \subseteq Nat \ {0}
ASSUME WaitBoundAssumption == MaxDeclared \in Nat /\ MaxSent \in Nat

VARIABLES
  waits,  \* the wait row of each session; decl 0 is no row
  sent    \* the closes and marks that follow a verdict already written

ledger == <<sessions, claims, minted, now>>
waitVars == <<sessions, claims, minted, now, waits, sent>>

(* Why a row was closed; "" while it is open. *)
Reason == {"", "landed", "expired", "cleared", "ended"}

WaitRow ==
  [decl: Nat, inc: Nat, deadline: Nat, targets: SUBSET ClaimId,
   told: BOOLEAN, reason: Reason]

Sent == [to: Waiter, decl: Nat, does: {"landed", "expired", "tell"}]

WaitTypeOK ==
  /\ TypeOK
  /\ waits \in [Waiter -> WaitRow]
  /\ sent \subseteq Sent

-----------------------------------------------------------------------------
IsOpen(w) == w.decl > 0 /\ w.reason = ""

(* A target still waited for: open, and not handed to the waiter under the *)
(* incarnation that declared the wait.                                     *)
Pending(cl, s, w) ==
  {c \in w.targets \cap OpenIn(cl) : ~(cl[c].owner = s /\ cl[c].inc = w.inc)}

(* A wait on no claim is a timer, and never lands. *)
Landed(cl, s, w) == w.targets # {} /\ Pending(cl, s, w) = {}

(* LANDED wins over EXPIRED. *)
Verdict(cl, s, w) ==
  IF Landed(cl, s, w) THEN "landed"
  ELSE IF now >= w.deadline THEN "expired"
  ELSE "pending"

(* The open wait of the session as it is registered now. *)
OpenWaitOf(s, w) == IsOpen(w) /\ IsCaller(s, w.inc)

(* Mutant: only the wait of a session that has ended is closed. *)
ClearWaitsOfTheGone(ss) ==
  waits' = [s \in Waiter |->
    IF IsOpen(waits[s]) /\ ss[s].ended
    THEN [waits[s] EXCEPT !.reason = "ended"] ELSE waits[s]]

(* cleanupEnded, for the waits: an open wait goes with the incarnation     *)
(* that declared it.  `ss` is the sessions table as the transaction sees   *)
(* it; hello has already replaced the incarnation.                         *)
ClearEndedWaits(ss) ==
  waits' = [s \in Waiter |->
    IF IsOpen(waits[s]) /\ (ss[s].ended \/ ss[s].inc # waits[s].inc)
    THEN [waits[s] EXCEPT !.reason = "ended"] ELSE waits[s]]

WaitInit ==
  /\ Init
  /\ waits = [s \in Waiter |-> [decl |-> 0, inc |-> 0, deadline |-> 0,
                targets |-> {}, told |-> FALSE, reason |-> ""]]
  /\ sent = {}

-----------------------------------------------------------------------------
(* wait [--on slug]...: all the claims resolve, or nothing is written; it  *)
(* replaces whatever the session had declared.                             *)
DeclareWait(s, i, slugs, until) ==
  /\ IsCaller(s, i)
  /\ waits[s].decl < MaxDeclared
  /\ \A slug \in slugs :
       /\ NamedIn(claims, slug) # {}
       /\ \A c \in NamedIn(claims, slug) : claims[c].owner # s /\ ~Ended(claims[c].owner)
  /\ waits' = [waits EXCEPT ![s] =
       [decl |-> @.decl + 1, inc |-> i, deadline |-> now + until,
        targets |-> UNION {NamedIn(claims, slug) : slug \in slugs},
        told |-> FALSE, reason |-> ""]]
  /\ UNCHANGED <<ledger, sent>>

(* wait clear. *)
ClearWait(s, i) ==
  /\ IsCaller(s, i)
  /\ IsOpen(waits[s]) /\ waits[s].inc = i
  /\ waits' = [waits EXCEPT ![s].reason = "cleared"]
  /\ UNCHANGED <<ledger, sent>>

(* The housekeeping of a check, in its own transaction. *)
SettleEnded ==
  /\ claims' = OrphanEnded(claims)
  /\ ClearEndedWaits(sessions)
  /\ UNCHANGED <<sessions, minted, now>>

Send(s, does) ==
  sent' = sent \cup {[to |-> s, decl |-> waits[s].decl, does |-> does]}

(* Mutant: a check reads without the housekeeping first. *)
WaitCheckUnsettled(s, i) ==
  /\ IsCaller(s, i)
  /\ Cardinality(sent) < MaxSent
  /\ OpenWaitOf(s, waits[s])
  /\ Verdict(claims, s, waits[s]) # "pending"
  /\ Send(s, Verdict(claims, s, waits[s]))
  /\ UNCHANGED <<ledger, waits>>

(* Mutant: a check closes the wait whatever it found. *)
WaitCheckAlwaysCloses(s, i) ==
  /\ IsCaller(s, i)
  /\ Cardinality(sent) < MaxSent
  /\ SettleEnded
  /\ OpenWaitOf(s, waits[s])
  /\ Send(s, Verdict(OrphanEnded(claims), s, waits[s]))

(* wait check: the verdict is of the settled ledger.  It closes nothing;   *)
(* the close is sent once the verdict has been written.                    *)
WaitCheck(s, i) ==
  LET verdict == Verdict(OrphanEnded(claims), s, waits[s])
  IN /\ IsCaller(s, i)
     /\ Cardinality(sent) < MaxSent
     /\ SettleEnded
     /\ IF OpenWaitOf(s, waits[s]) /\ verdict # "pending"
        THEN Send(s, verdict)
        ELSE UNCHANGED sent

(* Mutant: a close touches whatever the session has declared. *)
CloseWaitOfSession(m) ==
  /\ m \in sent /\ m.does \in {"landed", "expired"}
  /\ sent' = sent \ {m}
  /\ waits' = IF IsOpen(waits[m.to])
              THEN [waits EXCEPT ![m.to].reason = m.does] ELSE waits
  /\ UNCHANGED ledger

(* A close that arrives after a new declaration, or after another close,   *)
(* touches nothing.                                                        *)
CloseWait(m) ==
  /\ m \in sent /\ m.does \in {"landed", "expired"}
  /\ sent' = sent \ {m}
  /\ waits' = IF IsOpen(waits[m.to]) /\ waits[m.to].decl = m.decl
              THEN [waits EXCEPT ![m.to].reason = m.does] ELSE waits
  /\ UNCHANGED ledger

(* A beat announces a landing it has not announced before. *)
WaitNotice(s) ==
  /\ Cardinality(sent) < MaxSent
  /\ OpenWaitOf(s, waits[s])
  /\ ~waits[s].told
  /\ Landed(claims, s, waits[s])
  /\ Send(s, "tell")
  /\ UNCHANGED <<ledger, waits>>

(* Mutant: the mark is keyed to the session. *)
MarkSessionTold(m) ==
  /\ m \in sent /\ m.does = "tell"
  /\ sent' = sent \ {m}
  /\ waits' = IF IsOpen(waits[m.to]) THEN [waits EXCEPT ![m.to].told = TRUE] ELSE waits
  /\ UNCHANGED ledger

MarkWaitTold(m) ==
  /\ m \in sent /\ m.does = "tell"
  /\ sent' = sent \ {m}
  /\ waits' = IF IsOpen(waits[m.to]) /\ waits[m.to].decl = m.decl
              THEN [waits EXCEPT ![m.to].told = TRUE] ELSE waits
  /\ UNCHANGED ledger

(* The process died, or its output could not be written: nothing is closed *)
(* or marked.                                                              *)
Lost(m) == m \in sent /\ sent' = sent \ {m} /\ UNCHANGED <<ledger, waits>>

-----------------------------------------------------------------------------
(* The verbs of the ledger that tidy up after ended sessions tidy up their *)
(* waits too.                                                              *)
TidyingStep ==
  /\ \/ \E s \in Session : Arrive(s)
     \/ \E s \in Session, i \in Incarnation : ClaimStep(s, i)
     \/ \E force \in BOOLEAN : Sweep(force)
  /\ ClearEndedWaits(sessions')
  /\ UNCHANGED sent

OtherStep ==
  /\ \/ Tick
     \/ \E s \in Session : Proceed(s)
     \/ \E s \in Session, i \in Incarnation : HolderStep(s, i)
  /\ UNCHANGED <<waits, sent>>

WaitStep(s) ==
  \/ \E i \in Incarnation :
       \/ \E slugs \in SUBSET Slug, until \in Until : DeclareWait(s, i, slugs, until)
       \/ ClearWait(s, i)
       \/ WaitCheck(s, i)
  \/ WaitNotice(s)

WaitNext ==
  \/ TidyingStep
  \/ OtherStep
  \/ \E s \in Waiter : WaitStep(s)
  \/ SettleEnded /\ UNCHANGED sent
  \/ \E m \in sent : CloseWait(m) \/ MarkWaitTold(m) \/ Lost(m)

WaitSpec == WaitInit /\ [][WaitNext]_waitVars

-----------------------------------------------------------------------------
(* No registration inherits its predecessor's wait: an open wait was       *)
(* declared by the session as it is registered now.                        *)
WaitsAreCurrent ==
  \A s \in Waiter : IsOpen(waits[s]) => waits[s].inc = sessions[s].inc

(* However late a close arrives, and whatever was declared meanwhile, a    *)
(* wait is closed as expired only when its own deadline has passed.        *)
ExpiredOnlyPastDeadline ==
  \A s \in Waiter : waits[s].reason = "expired" => now >= waits[s].deadline

(* A landing belongs to the declaration that landed: a notice about one    *)
(* wait never silences the wait that replaced it, which shows when the     *)
(* replacement is a timer, which never lands.                              *)
TimersNeverLand ==
  \A s \in Waiter :
    waits[s].told \/ waits[s].reason = "landed" => waits[s].targets # {}

(* A check tells a waiter to give up only while someone it waits for is    *)
(* still registered: its verdict is of the ledger it settled in the same   *)
(* transaction, in which a holder's bye lands the wait.                    *)
ExpiredOnlyOnTheLiving ==
  \A m \in sent' \ sent :
    m.does = "expired" =>
      \/ waits[m.to].targets = {}
      \/ \E c \in waits[m.to].targets \cap OpenIn(claims) : ~Ended(claims[c].owner)

(* No notice and no close is taken for one of another wait or another      *)
(* registration.                                                           *)
WaitsAreOwn == WaitTypeOK /\ WaitsAreCurrent /\ TimersNeverLand

(* "The verdict cannot un-happen in between": what a check said landed has *)
(* still landed when the check closes it (WaitCheck's comment in wait.go). *)
VerdictStands ==
  [][\A s \in Waiter :
       waits[s].reason = "" /\ waits'[s].reason = "landed" =>
         Landed(claims, s, waits[s])]_waitVars
=============================================================================
