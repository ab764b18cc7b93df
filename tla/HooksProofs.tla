----------------------------- MODULE HooksProofs -----------------------------
(***************************************************************************)
(* Proofs about what a hook makes out before a tool runs: the brake, the   *)
(* ledgers a tool call answers to, the repository it is in, and where its  *)
(* path leads. The four parts of MCHooks share no step, so each has an     *)
(* inductive invariant of its own.                                         *)
(***************************************************************************)
EXTENDS MCHooks, Integers, Sequences, FiniteSets, WellFoundedInduction, TLAPS

-----------------------------------------------------------------------------
(* The brake.                                                              *)

(* Who a command resolved to.                                              *)
Resolved == \A o \in Operator : op[o].verb # "none" => op[o].id \in Session \cup {"all"}

(* Every pause still meant has a row under the id it was resolved to, and  *)
(* a hook counts on the rows of its own id and of everybody.               *)
Kept ==
  /\ braked \subseteq controls
  /\ \A s \in Session :
       /\ gate[s].since \subseteq braked \cap {s, "all"}
       /\ gate[s].step = "passed" => gate[s].since = {}

BrakeParts == brake!TypeOK /\ Resolved /\ Kept

LEMMA IdNamesItself ==
  ASSUME brake!TypeOK, NEW s \in Session, s \in brake!Registered, brake!Unmistakable(s)
  PROVE  brake!ResolveTarget(s) = {s}
<1>1. s # "all"
  BY DEF brake!Unmistakable, brake!All
<1>2. brake!Bearers(s, "id") = {s}
  BY DEF brake!Bearers
<1>3. brake!Forms[1] = "id" /\ brake!Forms = <<"id", "label", "short", "slug">>
  BY DEF brake!Forms
<1>4. {j \in 1..4 : \A e \in 1..(j - 1) : brake!Bearers(s, brake!Forms[e]) = {}} = {1}
  <2>1. \A j \in 1..4 : j # 1 => 1 \in 1..(j - 1)
    OBVIOUS
  <2>2. 1..(1 - 1) = {}
    OBVIOUS
  <2>3. brake!Bearers(s, brake!Forms[1]) # {}
    BY <1>2, <1>3
  <2> QED BY <2>1, <2>2, <2>3
<1>5. brake!Named(s) = brake!Bearers(s, brake!Forms[1])
  BY <1>4 DEF brake!Named
<1> QED BY <1>1, <1>2, <1>3, <1>5 DEF brake!ResolveTarget, brake!All

(* Whatever a name resolves to is a session, or everybody for the word.    *)
LEMMA NamesResolve ==
  ASSUME brake!TypeOK, NEW raw \in brake!Name, NEW t \in brake!ResolveTarget(raw)
  PROVE  /\ t \in Session \cup {"all"}
         /\ t # "all" => t \in brake!Registered
<1>1. CASE raw = "all"
  BY <1>1 DEF brake!ResolveTarget, brake!All
<1>2. CASE raw # "all"
  <2>1. t \in brake!Named(raw) /\ brake!Named(raw) = {t}
    BY <1>2 DEF brake!ResolveTarget, brake!All
  <2>2. PICK i \in 1..4 : t \in brake!Bearers(raw, brake!Forms[i])
    BY <2>1 DEF brake!Named
  <2>3. brake!Forms[i] \in {"id", "label", "short", "slug"}
    BY DEF brake!Forms
  <2>4. PICK form \in {"id", "label", "short", "slug"} : t \in brake!Bearers(raw, form)
    BY <2>2, <2>3
  <2>5. t \in brake!Registered
    BY <2>4 DEF brake!Bearers
  <2>6. t \in Session
    BY <2>5 DEF brake!Registered
  <2> QED BY <2>5, <2>6
<1> QED BY <1>1, <1>2

LEMMA BrakeBegins ==
  ASSUME brake!Init
  PROVE  BrakeParts
<1>1. \A o \in Operator : op[o].verb = "none"
  BY DEF brake!Init, brake!Idle
<1>2. brake!TypeOK
  BY NamesGiven DEF brake!Init, brake!TypeOK, brake!Idle, brake!Resting, brake!NamesAssumption
<1>3. Kept
  BY DEF brake!Init, brake!Resting, Kept
<1> QED BY <1>1, <1>2, <1>3 DEF BrakeParts, Resolved

(* Nothing is stranded: an id that is nobody's label is resolved to        *)
(* itself, and its resume clears the id, its label and, by the word,       *)
(* everybody's row.                                                        *)
LEMMA NothingIsStranded ==
  ASSUME brake!TypeOK
  PROVE  brake!NothingStranded
<1> SUFFICES ASSUME NEW s \in brake!Registered, brake!Unmistakable(s),
                    NEW t \in controls \cap ({"all"} \cup Session \cup Label),
                    t \in {s, label[s], "all"}
             PROVE  \E raw \in brake!Name : \E r \in brake!ResolveTarget(raw) :
                      t \in brake!Clears([raw |-> raw, id |-> r,
                                          label |-> IF r = brake!All THEN "none" ELSE label[r]])
  BY DEF brake!NothingStranded, brake!All
<1>1. s \in Session /\ s \in brake!Name /\ "all" \in brake!Name
  BY DEF brake!Registered, brake!Name, brake!All
<1>2. CASE t = "all"
  <2>1. "all" \in brake!ResolveTarget("all")
    BY DEF brake!ResolveTarget, brake!All
  <2>2. \A l : "all" \in brake!Clears([raw |-> "all", id |-> "all", label |-> l])
    BY DEF brake!Clears
  <2> QED BY <1>1, <1>2, <2>1, <2>2
<1>3. CASE t \in {s, label[s]}
  <2>1. s \in brake!ResolveTarget(s)
    BY <1>1, IdNamesItself
  <2>2. s # brake!All
    BY DEF brake!Unmistakable
  <2>3. t \in brake!Clears([raw |-> s, id |-> s, label |-> label[s]])
    BY <1>3 DEF brake!Clears
  <2> QED BY <1>1, <2>1, <2>2, <2>3
<1> QED BY <1>2, <1>3

LEMMA BrakeGoesOn ==
  ASSUME BrakeParts, brake!Next
  PROVE  BrakeParts'
<1> USE DEF BrakeParts
<1>1. ASSUME NEW o \in Operator, NEW raw \in brake!Name, NEW verb \in {"pause", "resume"},
             brake!Resolves(o, verb, raw)
      PROVE  BrakeParts'
  <2>1. PICK t \in brake!ResolveTarget(raw) : op' = [op EXCEPT ![o] = brake!Target(verb, raw, t)]
    BY <1>1 DEF brake!Resolves
  <2>2. t \in Session \cup {"all"}
    BY NamesResolve
  <2>3. t # "all" => label[t] \in Label \cup {"none"}
    BY <2>2 DEF brake!TypeOK
  <2>4. PICK l : l \in Label \cup {"none"} /\ brake!Target(verb, raw, t) = [verb |-> verb, raw |-> raw, id |-> t, label |-> l]
    BY <2>3 DEF brake!Target, brake!All
  <2>5. op' = [op EXCEPT ![o] = [verb |-> verb, raw |-> raw, id |-> t, label |-> l]]
    BY <2>1, <2>4
  <2>6. brake!TypeOK'
    BY <1>1, <2>2, <2>4, <2>5 DEF brake!Resolves, brake!TypeOK, brake!All
  <2>7. Resolved'
    BY <2>2, <2>5 DEF Resolved, brake!TypeOK
  <2>8. Kept'
    BY <1>1 DEF brake!Resolves, Kept
  <2> QED BY <2>6, <2>7, <2>8
<1>2. ASSUME NEW o \in Operator, brake!Pause(o)
      PROVE  BrakeParts'
  <2>1. op[o].verb # "none" /\ op[o].id \in Session \cup {"all"}
    BY <1>2 DEF brake!Pause, Resolved
  <2>2. controls' = controls \cup {op[o].id} /\ braked' = braked \cup {op[o].id}
    BY <1>2 DEF brake!Pause, brake!StoredTarget
  <2>3. brake!TypeOK'
    BY <1>2, <2>1, <2>2 DEF brake!Pause, brake!TypeOK, brake!Idle, brake!Name, brake!All
  <2>4. Resolved'
    BY <1>2 DEF brake!Pause, Resolved, brake!Idle, brake!TypeOK
  <2>5. Kept'
    BY <1>2, <2>2 DEF brake!Pause, Kept
  <2> QED BY <2>3, <2>4, <2>5
<1>3. ASSUME NEW o \in Operator, brake!Resume(o)
      PROVE  BrakeParts'
  <2>1. PICK lifted : lifted = brake!Lifted(op[o])
    OBVIOUS
  <2>2. op[o].id \in Session \cup {"all"}
    BY <1>3 DEF brake!Resume, Resolved
  <2>3. (Session \cup {"all"}) \cap brake!Clears(op[o]) \subseteq lifted
    BY <2>1 DEF brake!Lifted, brake!Clears, brake!All
  <2>4. (controls \cap (Session \cup {"all"})) \ lifted \subseteq controls' /\ controls' \subseteq controls
    BY <1>3, <2>3 DEF brake!Resume
  <2>5. braked' = braked \ lifted
    BY <1>3, <2>1 DEF brake!Resume
  <2>6. \A s \in Session :
           gate'[s] = [step |-> gate[s].step, label |-> gate[s].label, since |-> gate[s].since \ lifted]
    BY <1>3, <2>1 DEF brake!Resume, brake!TypeOK
  <2>7. brake!TypeOK'
    <3>1. gate' = [s \in Session |-> [step |-> gate[s].step, label |-> gate[s].label, since |-> gate[s].since \ lifted]]
      <4>1. gate' = [s \in Session |-> gate'[s]]
        BY <1>3 DEF brake!Resume
      <4> QED BY <4>1, <2>6
    <3>2. \A s \in Session : gate[s].since \ lifted \subseteq Session \cup {"all"}
      BY DEF brake!TypeOK, brake!All
    <3>3. op' \in [Operator -> [verb : {"none", "pause", "resume"}, raw : brake!Name \cup {"none"},
                               id : Session \cup {"all", "none"}, label : Label \cup {"none"}]]
      BY <1>3 DEF brake!Resume, brake!TypeOK, brake!Idle, brake!All
    <3>4. gate' \in [Session -> [step : {"idle", "label", "brake", "passed"}, label : Label \cup {"none"},
                                since : SUBSET (Session \cup {"all"})]]
      <4>1. \A s \in Session :
              [step |-> gate[s].step, label |-> gate[s].label, since |-> gate[s].since \ lifted]
                \in [step : {"idle", "label", "brake", "passed"}, label : Label \cup {"none"},
                     since : SUBSET (Session \cup {"all"})]
        BY <3>2 DEF brake!TypeOK
      <4> QED BY <3>1, <4>1
    <3>5. UNCHANGED <<label, owner>> /\ controls' \subseteq controls
      BY <1>3, <2>4 DEF brake!Resume
    <3> QED BY <2>5, <3>3, <3>4, <3>5 DEF brake!TypeOK, brake!All
  <2>8. Resolved'
    BY <1>3 DEF brake!Resume, Resolved, brake!Idle, brake!TypeOK
  <2>9. Kept'
    <3>1. braked \subseteq controls \cap (Session \cup {"all"})
      BY DEF Kept, brake!TypeOK, brake!All
    <3>2. braked' \subseteq controls'
      BY <2>4, <2>5, <3>1
    <3>3. \A s \in Session : gate'[s].step = gate[s].step /\ gate'[s].since = gate[s].since \ lifted
      <4> TAKE s \in Session
      <4>1. gate'[s] = [step |-> gate[s].step, label |-> gate[s].label, since |-> gate[s].since \ lifted]
        BY <2>6
      <4> QED BY <4>1
    <3>4. \A s \in Session : gate[s].since \subseteq braked \cap {s, "all"} /\ (gate[s].step = "passed" => gate[s].since = {})
      BY DEF Kept
    <3>5. \A s \in Session : gate'[s].since \subseteq braked' \cap {s, "all"} /\ (gate'[s].step = "passed" => gate'[s].since = {})
      BY <2>5, <3>3, <3>4
    <3> QED BY <3>2, <3>5 DEF Kept
  <2> QED BY <2>7, <2>8, <2>9
<1>4. ASSUME NEW s \in Session, brake!GateBegins(s) \/ brake!SessionLabel(s) \/ brake!GateReads(s) \/ brake!GateEnds(s)
      PROVE  BrakeParts'
  <2>1. UNCHANGED <<label, owner, controls, op, braked>>
    BY <1>4 DEF brake!GateBegins, brake!SessionLabel, brake!GateReads, brake!GateEnds
  <2>2. PICK g \in [step : {"idle", "label", "brake", "passed"}, label : Label \cup {"none"},
                    since : SUBSET (Session \cup {"all"})] :
          /\ gate' = [gate EXCEPT ![s] = g]
          /\ g.since \subseteq braked \cap {s, "all"}
          /\ g.step = "passed" => g.since = {}
    <3>1. CASE brake!GateBegins(s)
      <4> DEFINE g == [step |-> "label", label |-> "none", since |-> braked \cap {s, "all"}]
      <4>1. gate' = [gate EXCEPT ![s] = g]
        BY <3>1 DEF brake!GateBegins, brake!All
      <4>2. g \in [step : {"idle", "label", "brake", "passed"}, label : Label \cup {"none"},
                  since : SUBSET (Session \cup {"all"})]
        BY DEF brake!TypeOK, brake!All
      <4>3. g.since \subseteq braked \cap {s, "all"} /\ g.step # "passed"
        OBVIOUS
      <4> HIDE DEF g
      <4> QED BY <4>1, <4>2, <4>3
    <3>2. CASE brake!SessionLabel(s)
      <4> DEFINE g == [step |-> "brake", label |-> label[s], since |-> gate[s].since]
      <4>3. gate' = [gate EXCEPT ![s] = g]
        <5>1. gate' = [gate EXCEPT ![s] = [step |-> "brake", label |-> label[s], since |-> gate[s].since]]
          BY <3>2 DEF brake!SessionLabel
        <5> QED BY <5>1
      <4>4. g \in [step : {"idle", "label", "brake", "passed"}, label : Label \cup {"none"},
                  since : SUBSET (Session \cup {"all"})]
        BY DEF brake!TypeOK, brake!All
      <4>5. g.since \subseteq braked \cap {s, "all"} /\ g.step # "passed"
        BY DEF Kept
      <4> HIDE DEF g
      <4> QED BY <4>3, <4>4, <4>5
    <3>3. CASE brake!GateReads(s)
      <4>1. CASE brake!PausedFor(s, gate[s].label)
        <5>1. gate' = [gate EXCEPT ![s] = [step |-> "idle", label |-> "none", since |-> {}]]
          BY <3>3, <4>1 DEF brake!GateReads, brake!TypeOK, brake!Resting
        <5> DEFINE g == [step |-> "idle", label |-> "none", since |-> {}]
        <5>2. gate' = [gate EXCEPT ![s] = g]
          BY <5>1
        <5>3. g \in [step : {"idle", "label", "brake", "passed"}, label : Label \cup {"none"},
                    since : SUBSET (Session \cup {"all"})]
          OBVIOUS
        <5>4. g.since = {}
          OBVIOUS
        <5> HIDE DEF g
        <5> QED BY <5>2, <5>3, <5>4
      <4>2. CASE ~ brake!PausedFor(s, gate[s].label)
        <5>1. gate' = [gate EXCEPT ![s] = [step |-> "passed", label |-> gate[s].label, since |-> gate[s].since]]
          BY <3>3, <4>2 DEF brake!GateReads, brake!TypeOK
        <5>2. gate[s].since = {}
          BY <4>2 DEF brake!PausedFor, Kept, brake!All
        <5> DEFINE g == [step |-> "passed", label |-> gate[s].label, since |-> gate[s].since]
        <5>3. gate' = [gate EXCEPT ![s] = g]
          BY <5>1
        <5>4. g \in [step : {"idle", "label", "brake", "passed"}, label : Label \cup {"none"},
                    since : SUBSET (Session \cup {"all"})]
          BY <5>2 DEF brake!TypeOK
        <5>5. g.since = {}
          BY <5>2
        <5> HIDE DEF g
        <5> QED BY <5>3, <5>4, <5>5
      <4> QED BY <4>1, <4>2
    <3>4. CASE brake!GateEnds(s)
      <4> DEFINE g == [step |-> "idle", label |-> "none", since |-> {}]
      <4>1. gate' = [gate EXCEPT ![s] = g]
        BY <3>4 DEF brake!GateEnds, brake!Resting
      <4>2. g \in [step : {"idle", "label", "brake", "passed"}, label : Label \cup {"none"},
                  since : SUBSET (Session \cup {"all"})]
        OBVIOUS
      <4>3. g.since = {}
        OBVIOUS
      <4> HIDE DEF g
      <4> QED BY <4>1, <4>2, <4>3
    <3> QED BY <1>4, <3>1, <3>2, <3>3, <3>4
  <2>3. brake!TypeOK'
    BY <2>1, <2>2 DEF brake!TypeOK, brake!All
  <2>4. Resolved'
    BY <2>1 DEF Resolved
  <2>5. Kept'
    BY <2>1, <2>2 DEF Kept, brake!TypeOK
  <2> QED BY <2>3, <2>4, <2>5
<1>5. ASSUME NEW s \in Session, NEW l \in Label, brake!Hello(s, l)
      PROVE  BrakeParts'
  BY <1>5 DEF brake!Hello, brake!TypeOK, Resolved, Kept
<1>6. ASSUME NEW s \in Session, NEW k \in Slug, brake!Claim(s, k)
      PROVE  BrakeParts'
  BY <1>6 DEF brake!Claim, brake!TypeOK, Resolved, Kept
<1>7. ASSUME NEW k \in Slug, brake!Release(k)
      PROVE  BrakeParts'
  BY <1>7 DEF brake!Release, brake!TypeOK, Resolved, Kept
<1> QED BY <1>1, <1>2, <1>3, <1>4, <1>5, <1>6, <1>7 DEF brake!Next

BrakeInv == part = "brake" => BrakeParts

(* Pause, Resume and PausedFor: the inductive invariant of the brake.      *)
THEOREM BrakeInvariant == Spec => []BrakeInv
<1>1. Init => BrakeInv
  BY BrakeBegins DEF Init, BrakeInv
<1>2. BrakeInv /\ [Next]_vars => BrakeInv'
  <2> SUFFICES ASSUME BrakeInv, [Next]_vars, part' = "brake"
               PROVE  BrakeParts'
    BY DEF BrakeInv
  <2>1. CASE BrakeNext
    BY <2>1, BrakeGoesOn DEF BrakeNext, BrakeInv
  <2>2. CASE UNCHANGED vars
    BY <2>2 DEF vars, onlyBrake, BrakeInv, BrakeParts, brake!TypeOK, Resolved, Kept
  <2>3. ~ (GateNext \/ SpellingsNext \/ DiscoveryNext)
    BY DEF GateNext, SpellingsNext, DiscoveryNext
  <2> QED BY <2>1, <2>2, <2>3 DEF Next
<1> QED BY <1>1, <1>2, PTL DEF Spec

(* PausedFor, ResolveTarget: a hook that passes read every pause that was  *)
(* acknowledged before it, and what stops a session some name lifts.       *)
THEOREM PausesStayKept == Spec => []PausesAreKept
<1>1. BrakeInv => PausesAreKept
  BY NothingIsStranded DEF BrakeInv, BrakeParts, Kept, PausesAreKept, brake!PausesAreKept, brake!BrakeHolds
<1> QED BY <1>1, BrakeInvariant, PTL


-----------------------------------------------------------------------------
(* The gate. What it has found out of a ledger is compared with what has   *)
(* held ever since the call began, so what others do meanwhile can only    *)
(* make it truer.                                                          *)
World ==
  /\ ledger \in [Repo -> {"none", "broken", "rootless", "open"}]
  /\ held \in [Repo -> SUBSET Place] /\ paused \subseteq Repo /\ slot \subseteq Repo
  /\ \A r \in Repo : ledger[r] # "open" => held[r] = {} /\ r \notin paused /\ r \notin slot

CallShape ==
  /\ call.kind \in {"unreadable", "read", "other", "path", "patch", "stack"}
  /\ call.places \subseteq Place /\ call.home \in Repo \cup {NoRepo}
  /\ call.err \in BOOLEAN /\ call.ambiguous \in BOOLEAN
  /\ call.kind = "path" => call.places # {}
  /\ call.kind = "other" => call.places = {}

(* What has stood all along stands now, in a ledger that has governed all  *)
(* along; and what governs now has governed at some time.                  *)
Standing ==
  /\ since.governed \subseteq Repo /\ since.held \subseteq Repo \X Place
  /\ \A r \in since.governed : ledger[r] # "none"
  /\ \A r \in Repo, c \in Place : <<r, c>> \in since.held => r \in since.governed /\ c \in held[r]
  /\ \A r \in since.paused : r \in since.governed /\ r \in paused
  /\ \A r \in since.broken : r \in since.governed /\ ledger[r] = "broken"
  /\ \A r \in since.slotless : r \in since.governed /\ r \notin slot
  /\ \A r \in Repo : ledger[r] # "none" => r \in ever

(* What the call remembers of its home, and of the targets' repositories.  *)
Memo ==
  /\ repos \in [Repo -> [state : {"unopened", "none", "broken", "rootless", "open"}, paused : BOOLEAN]]
  /\ \A r \in Repo :
       /\ repos[r].state = "unopened" => ~repos[r].paused
       /\ repos[r].state = "none" => r \notin since.governed
       /\ repos[r].state \in {"broken", "rootless", "open"} => r \in ever
       /\ repos[r].state \in {"none", "rootless", "open"} => r \notin since.broken
       /\ repos[r].state # "unopened" /\ ~repos[r].paused => r \notin since.paused
  /\ home \in {"unopened", "none", "broken", "rootless", "open"}
  /\ home = "none" => call.home \notin since.governed
  /\ home \in {"broken", "rootless", "open"} => call.home \in Repo /\ call.home \in ever
  /\ home \in {"none", "rootless", "open"} => call.home \notin since.broken

Placing == {"targets", "place"} \cup Place
Late == {"stack", "slots"} \cup Placing
Begun == {"jurisdiction", "governed", "brake"} \cup Late

Fresh ==
  /\ pc \in gatehook!Steps \cup Place
  /\ pc \in {"decode", "home"} => \A r \in Repo : repos[r].state = "unopened"
  /\ pc \in {"home"} \cup Begun => call.kind \notin {"unreadable", "read"}

HomeKnown ==
  /\ pc \in Begun => home \in {"none", "rootless", "open"}
  /\ pc = "brake" => gatehook!HomeOpen
  /\ pc = "governed" => ~gatehook!HomeOpen
  /\ pc \in Late => call.home \notin since.paused

Admitted ==
  /\ pc \in {"brake"} \cup Late => ~call.ambiguous
  /\ pc \in Late => call.kind # "patch"
  /\ pc = "slots" => call.kind = "stack"
  /\ pc \in Placing => call.kind \in {"path", "other"}
  /\ pc = "targets" /\ call.err => call.places \subseteq todo
  /\ pc \in {"place"} \cup Place => ~call.err

Clear(c) ==
  \A r \in gatehook!Asked(c) : <<r, c>> \notin since.held /\ r \notin since.paused /\ r \notin since.broken

(* Of every place that is no longer to be asked about, something is known. *)
Answered ==
  /\ pc \in {"governed", "slots"} \cup Placing => todo \subseteq call.places
  /\ pc = "governed" => \A c \in call.places \ todo : Nearest[c] \notin since.governed
  /\ pc = "slots" =>
       call.home \notin since.slotless /\ \A c \in call.places \ todo : Nearest[c] \notin since.slotless
  /\ pc \in Placing => \A c \in call.places \ todo : Clear(c)

(* A place in a repository nested in the home one has passed the home's.   *)
Nesting ==
  pc \in Place =>
    /\ pc \in todo
    /\ gatehook!AtHome(pc) => <<call.home, pc>> \notin since.held /\ Nearest[pc] # call.home

GateParts ==
  /\ World /\ CallShape /\ Standing /\ Memo
  /\ Fresh /\ HomeKnown /\ Admitted /\ Answered /\ Nesting
  /\ gatehook!VerdictIsALedgers

(* openGateRepo: an answer remembered, or one just read.                   *)
LEMMA OpenedTells ==
  ASSUME World, Standing, Memo, NEW r \in Repo
  PROVE  LET a == gatehook!Opened(r)
         IN  /\ a \in [state : {"none", "broken", "rootless", "open"}, paused : BOOLEAN]
             /\ a.state = "none" => r \notin since.governed
             /\ a.state # "none" => r \in ever
             /\ a.state # "broken" => r \notin since.broken
             /\ ~a.paused => r \notin since.paused
             /\ repos[r].state # "unopened" => a = repos[r]
<1>1. r # NoRepo
  BY Geometry DEF gatehook!GeometryAssumption
<1>2. CASE repos[r].state = "unopened"
  <2>1. repos[r] = [state |-> "unopened", paused |-> FALSE]
    BY <1>2 DEF Memo
  <2>2. gatehook!Opened(r) = [state |-> ledger[r], paused |-> r \in paused]
    BY <1>1, <2>1 DEF gatehook!Opened, gatehook!Unopened, gatehook!PausedFor
  <2>3. ledger[r] \in {"none", "broken", "rootless", "open"} /\ (r \in paused) \in BOOLEAN
    BY DEF World
  <2>4. gatehook!Opened(r) \in [state : {"none", "broken", "rootless", "open"}, paused : BOOLEAN]
    BY <2>2, <2>3
  <2>5. gatehook!Opened(r).state = ledger[r] /\ (~gatehook!Opened(r).paused => r \notin paused)
    <3>1. CASE r \in paused
      <4>1. gatehook!Opened(r) = [state |-> ledger[r], paused |-> TRUE]
        BY <1>1, <2>1, <3>1 DEF gatehook!Opened, gatehook!Unopened, gatehook!PausedFor
      <4> QED BY <4>1
    <3>2. CASE r \notin paused
      BY <2>2, <3>2
    <3> QED BY <3>1, <3>2
  <2>6. /\ ledger[r] = "none" => r \notin since.governed
        /\ ledger[r] # "none" => r \in ever
        /\ ledger[r] # "broken" => r \notin since.broken
        /\ r \notin paused => r \notin since.paused
    BY DEF Standing
  <2> QED BY <1>2, <2>4, <2>5, <2>6
<1>3. CASE repos[r].state # "unopened"
  <2>1. gatehook!Opened(r) = repos[r]
    BY <1>1, <1>3 DEF gatehook!Opened, gatehook!Unopened
  <2>2. repos[r] \in [state : {"unopened", "none", "broken", "rootless", "open"}, paused : BOOLEAN]
    BY DEF Memo
  <2>3. repos[r].state \in {"none", "broken", "rootless", "open"}
    BY <1>3, <2>2
  <2> QED BY <1>3, <2>1, <2>2, <2>3 DEF Memo
<1> QED BY <1>2, <1>3

LEMMA RememberedTells ==
  ASSUME World, Standing, Memo, NEW r \in Repo \cup {NoRepo}, gatehook!Remember(r),
         UNCHANGED <<call, home, since, ever>>
  PROVE  /\ Memo'
         /\ \A q \in Repo : repos[q].state # "unopened" => repos'[q] = repos[q]
<1>1. CASE r = NoRepo
  BY <1>1 DEF gatehook!Remember, Memo
<1>2. CASE r # NoRepo
  <2>1. PICK a : a = gatehook!Opened(r)
    OBVIOUS
  <2>2. repos' = [repos EXCEPT ![r] = a]
    BY <1>2, <2>1 DEF gatehook!Remember
  <2>3. /\ a \in [state : {"none", "broken", "rootless", "open"}, paused : BOOLEAN]
        /\ a.state = "none" => r \notin since.governed
        /\ a.state # "none" => r \in ever
        /\ a.state # "broken" => r \notin since.broken
        /\ ~a.paused => r \notin since.paused
        /\ repos[r].state # "unopened" => a = repos[r]
    BY <1>2, <2>1, OpenedTells
  <2>4. a.state \in {"none", "broken", "rootless", "open"} /\ a.paused \in BOOLEAN
    BY <2>3
  <2>5. a \in [state : {"unopened", "none", "broken", "rootless", "open"}, paused : BOOLEAN]
    BY <2>3
  <2>6. \A q \in Repo : repos'[q] = IF q = r THEN a ELSE repos[q]
    BY <2>2 DEF Memo
  <2>7. repos' \in [Repo -> [state : {"unopened", "none", "broken", "rootless", "open"}, paused : BOOLEAN]]
    BY <2>2, <2>5 DEF Memo
  <2>8. \A q \in Repo :
          /\ repos'[q].state = "unopened" => ~repos'[q].paused
          /\ repos'[q].state = "none" => q \notin since.governed
          /\ repos'[q].state \in {"broken", "rootless", "open"} => q \in ever
          /\ repos'[q].state \in {"none", "rootless", "open"} => q \notin since.broken
          /\ repos'[q].state # "unopened" /\ ~repos'[q].paused => q \notin since.paused
    <3> TAKE q \in Repo
    <3>1. CASE q = r
      <4>1. repos'[q] = a
        BY <2>6, <3>1
      <4> QED BY <2>3, <2>4, <3>1, <4>1
    <3>2. CASE q # r
      <4>1. repos'[q] = repos[q]
        BY <2>6, <3>2
      <4> QED BY <4>1 DEF Memo
    <3> QED BY <3>1, <3>2
  <2>9. Memo'
    BY <2>7, <2>8 DEF Memo
  <2>10. \A q \in Repo : repos[q].state # "unopened" => repos'[q] = repos[q]
    BY <2>3, <2>6
  <2> QED BY <2>9, <2>10
<1> QED BY <1>1, <1>2

(* Every step of the gate leaves the world, and what is known of it, alone. *)
LEMMA GateOnlyReads ==
  ASSUME World, CallShape, Standing, NEW step, gatehook!Go(step)
  PROVE  World' /\ CallShape' /\ Standing'
BY DEF World, CallShape, Standing, gatehook!Go

LEMMA GateKeeps ==
  ASSUME Memo, gatehook!Keep, UNCHANGED <<call, home, since, ever>>
  PROVE  Memo' /\ (gatehook!HomeOpen <=> gatehook!HomeOpen') /\ todo' = todo
<1>1. repos' = repos /\ todo' = todo /\ home' = home
  BY DEF gatehook!Keep
<1>2. Memo'
  BY <1>1 DEF Memo
<1>3. gatehook!HomeOpen <=> gatehook!HomeOpen'
  BY <1>1 DEF gatehook!HomeOpen
<1> QED BY <1>1, <1>2, <1>3

(* The answers that were true of the ledgers stay so, whatever the step.   *)
LEMMA StepsApart ==
  /\ "decode" \notin Place /\ "home" \notin Place /\ "jurisdiction" \notin Place /\ "governed" \notin Place
  /\ "brake" \notin Place /\ "stack" \notin Place /\ "slots" \notin Place /\ "targets" \notin Place
  /\ "place" \notin Place /\ "passed" \notin Place /\ "denied" \notin Place
BY Geometry DEF gatehook!GeometryAssumption, gatehook!Steps

LEMMA GateBegins ==
  ASSUME gatehook!Init
  PROVE  GateParts
<1>1. World
  <2>1. \A r \in Repo : ledger[r] # "open" => held[r] = {} /\ r \notin paused \cup slot
    BY DEF gatehook!Init, gatehook!Consistent
  <2> QED BY <2>1 DEF gatehook!Init, World
<1>2. CallShape
  BY DEF gatehook!Init, gatehook!Call, CallShape
<1>3. since = gatehook!Facts /\ ever = gatehook!Governed
  BY DEF gatehook!Init
<1>4. Standing
  <2>1. /\ since.held = {p \in Repo \X Place : p[2] \in held[p[1]]}
        /\ since.paused = paused
        /\ since.governed = gatehook!Governed
        /\ since.broken = {r \in Repo : ledger[r] = "broken"}
        /\ since.slotless = gatehook!Governed \ slot
    BY <1>3 DEF gatehook!Facts
  <2>2. gatehook!Governed = {r \in Repo : ledger[r] # "none"}
    BY DEF gatehook!Governed
  <2>3. since.governed \subseteq Repo /\ since.held \subseteq Repo \X Place
    BY <2>1, <2>2
  <2>4. \A r \in Repo, c \in Place : <<r, c>> \in since.held => r \in since.governed /\ c \in held[r]
    BY <1>1, <2>1, <2>2 DEF World
  <2>5. \A r \in since.paused : r \in since.governed /\ r \in paused
    BY <1>1, <2>1, <2>2 DEF World
  <2>6. /\ \A r \in since.broken : r \in since.governed /\ ledger[r] = "broken"
        /\ \A r \in since.slotless : r \in since.governed /\ r \notin slot
        /\ \A r \in since.governed : ledger[r] # "none"
        /\ \A r \in Repo : ledger[r] # "none" => r \in ever
    BY <1>3, <2>1, <2>2
  <2> QED BY <2>3, <2>4, <2>5, <2>6 DEF Standing
<1>5. Memo
  <2>1. repos = [r \in Repo |-> [state |-> "unopened", paused |-> FALSE]]
    BY DEF gatehook!Init, gatehook!Unopened
  <2>2. home = "unopened"
    BY DEF gatehook!Init
  <2> QED BY <2>1, <2>2 DEF Memo
<1>6. pc = "decode" /\ \A r \in Repo : repos[r].state = "unopened"
  BY DEF gatehook!Init, gatehook!Unopened
<1>7. Fresh /\ HomeKnown /\ Admitted /\ Answered /\ Nesting
  BY <1>6, StepsApart
     DEF Fresh, HomeKnown, Admitted, Answered, Nesting, Begun, Late, Placing, gatehook!Steps
<1>8. gatehook!VerdictIsALedgers
  BY <1>6 DEF gatehook!VerdictIsALedgers, gatehook!ReservationsHold, gatehook!OffIsOff, gatehook!Passed
<1> QED BY <1>1, <1>2, <1>4, <1>5, <1>7, <1>8 DEF GateParts

LEMMA DecodeKeeps ==
  ASSUME GateParts, gatehook!Decode
  PROVE  GateParts'
<1> USE DEF GateParts
<1>1. PICK step : gatehook!Go(step) /\ step \in {"denied", "passed", "home"}
                  /\ (step = "home" => call.kind \notin {"unreadable", "read"})
                  /\ (step = "passed" => call.kind = "read") /\ (step = "denied" => call.kind = "unreadable")
  <2>1. CASE call.kind = "unreadable"
    BY <2>1 DEF gatehook!Decode, gatehook!Malformed
  <2>2. CASE call.kind = "read"
    BY <2>2 DEF gatehook!Decode, gatehook!Malformed
  <2>3. CASE call.kind \notin {"unreadable", "read"}
    BY <2>3 DEF gatehook!Decode, gatehook!Malformed
  <2> QED BY <2>1, <2>2, <2>3
<1>2. pc' = step /\ pc = "decode" /\ UNCHANGED <<call, home, since, ever>>
  BY <1>1 DEF gatehook!Go, gatehook!Decode
<1>3. World' /\ CallShape' /\ Standing'
  BY <1>1, GateOnlyReads
<1>4. gatehook!Keep
  BY DEF gatehook!Decode
<1>5. Memo'
  BY <1>2, <1>4, GateKeeps
<1>6. Fresh'
  BY <1>1, <1>2, <1>4, StepsApart DEF Fresh, Begun, Late, Placing, gatehook!Steps, gatehook!Keep
<1>7. HomeKnown' /\ Admitted' /\ Answered' /\ Nesting'
  BY <1>1, <1>2, StepsApart DEF HomeKnown, Admitted, Answered, Nesting, Begun, Late, Placing
<1>8. gatehook!VerdictIsALedgers'
  BY <1>1, <1>2 DEF gatehook!VerdictIsALedgers, gatehook!ReservationsHold, gatehook!OffIsOff, gatehook!Passed
<1> QED BY <1>3, <1>5, <1>6, <1>7, <1>8

LEMMA OpenHomeKeeps ==
  ASSUME GateParts, gatehook!OpenHome
  PROVE  GateParts'
<1> USE DEF GateParts
<1> DEFINE h == call.home
<1>1. /\ pc = "home" /\ UNCHANGED <<ledger, held, paused, slot, call, repos, since, ever>>
      /\ home' = IF h = NoRepo THEN "none" ELSE ledger[h]
  BY DEF gatehook!OpenHome, gatehook!Keep
<1>2. /\ pc' \in {"denied", "jurisdiction", "stack", "brake"}
      /\ (pc' = "denied" => home' = "broken")
      /\ (pc' # "denied" => home' # "broken")
      /\ (pc' = "stack" => home' = "none" /\ ~call.ambiguous /\ call.kind # "patch")
      /\ (pc' = "brake" => home' # "none" /\ ~call.ambiguous)
  <2>1. CASE home' = "broken"
    BY <2>1 DEF gatehook!OpenHome
  <2>2. CASE home' # "broken" /\ (call.ambiguous \/ (home' = "none" /\ call.kind = "patch"))
    BY <2>2 DEF gatehook!OpenHome
  <2>3. CASE home' = "none" /\ ~call.ambiguous /\ call.kind # "patch"
    BY <2>3 DEF gatehook!OpenHome
  <2>4. CASE home' \notin {"broken", "none"} /\ ~call.ambiguous
    BY <2>4 DEF gatehook!OpenHome
  <2> QED BY <2>1, <2>2, <2>3, <2>4
<1>3. World' /\ CallShape' /\ Standing'
  BY <1>1 DEF World, CallShape, Standing
<1>4. h \in Repo \cup {NoRepo} /\ NoRepo \notin Repo /\ call.kind \notin {"unreadable", "read"}
  BY <1>1, Geometry DEF CallShape, Fresh, gatehook!GeometryAssumption
<1>5. /\ home' \in {"none", "broken", "rootless", "open"}
      /\ home' = "none" => h \notin since.governed
      /\ home' # "none" => h \in Repo /\ h \in ever
      /\ home' # "broken" => h \notin since.broken
  <2>1. CASE h = NoRepo
    BY <1>1, <1>4, <2>1 DEF Standing
  <2>2. CASE h # NoRepo
    <3>1. h \in Repo /\ home' = ledger[h]
      BY <1>1, <1>4, <2>2
    <3> QED BY <3>1 DEF World, Standing
  <2> QED BY <2>1, <2>2
<1>6. Memo'
  BY <1>1, <1>5 DEF Memo
<1>7. Fresh'
  BY <1>1, <1>2, <1>4, StepsApart DEF Fresh, gatehook!Steps
<1>8. HomeKnown'
  <2>1. pc' = "brake" => gatehook!HomeOpen'
    BY <1>2, <1>5 DEF gatehook!HomeOpen
  <2>2. pc' = "stack" => h \notin since.paused
    BY <1>2, <1>5 DEF Standing
  <2> QED BY <1>1, <1>2, <1>5, <2>1, <2>2, StepsApart DEF HomeKnown, Begun, Late, Placing
<1>9. Admitted' /\ Answered' /\ Nesting'
  BY <1>1, <1>2, StepsApart DEF Admitted, Answered, Nesting, Late, Placing
<1>10. gatehook!VerdictIsALedgers'
  <2>1. pc' = "denied" => h \in ever
    BY <1>2, <1>5
  <2> QED BY <1>1, <1>2, <2>1
      DEF gatehook!VerdictIsALedgers, gatehook!ReservationsHold, gatehook!OffIsOff, gatehook!Passed
<1> QED BY <1>3, <1>6, <1>7, <1>8, <1>9, <1>10

LEMMA JurisdictionKeeps ==
  ASSUME GateParts, gatehook!Jurisdiction
  PROVE  GateParts'
<1> USE DEF GateParts
<1>1. pc = "jurisdiction" /\ repos' = repos /\ UNCHANGED <<call, home, since, ever>>
  BY DEF gatehook!Jurisdiction, gatehook!Keep, gatehook!Go
<1>2. PICK step : gatehook!Go(step) /\ step \in {"denied", "governed"}
                  /\ (step = "denied" => gatehook!HomeOpen)
                  /\ (step = "governed" => ~gatehook!HomeOpen /\ todo' = call.places)
  BY DEF gatehook!Jurisdiction
<1>3. World' /\ CallShape' /\ Standing'
  BY <1>2, GateOnlyReads
<1>4. pc' = step
  BY <1>2 DEF gatehook!Go
<1>5. Memo'
  BY <1>1 DEF Memo
<1>6. gatehook!HomeOpen <=> gatehook!HomeOpen'
  BY <1>1 DEF gatehook!HomeOpen
<1>7. Fresh'
  BY <1>1, <1>2, <1>4, StepsApart DEF Fresh, gatehook!Steps, Begun
<1>8. HomeKnown'
  BY <1>1, <1>2, <1>4, <1>6, StepsApart DEF HomeKnown, Begun, Late, Placing
<1>9. Admitted' /\ Answered' /\ Nesting'
  BY <1>1, <1>2, <1>4, StepsApart DEF Admitted, Answered, Nesting, Late, Placing
<1>10. gatehook!VerdictIsALedgers'
  <2>1. step = "denied" => call.home \in ever
    BY <1>2 DEF gatehook!HomeOpen, CallShape, Memo
  <2> QED BY <1>1, <1>2, <1>4, <2>1
      DEF gatehook!VerdictIsALedgers, gatehook!ReservationsHold, gatehook!OffIsOff, gatehook!Passed
<1> QED BY <1>3, <1>5, <1>7, <1>8, <1>9, <1>10

(* governedAny: a ledger is asked about, and is off, or the call is refused. *)
LEMMA AskingKeepsHome ==
  ASSUME World, CallShape, Standing, Memo, HomeKnown, pc \in Begun, NEW r \in Repo \cup {NoRepo},
         gatehook!Remember(r), UNCHANGED <<call, home, since, ever>>
  PROVE  /\ Memo'
         /\ gatehook!HomeOpen <=> gatehook!HomeOpen'
         /\ home' = home
<1>1. Memo' /\ home' = home
  BY RememberedTells
<1> QED BY <1>1 DEF gatehook!HomeOpen

(* An answer of a place's nearest repository, or none where there is none. *)
LEMMA NearestTells ==
  ASSUME World, Standing, Memo, NEW c \in Place
  PROVE  /\ Nearest[c] \in Repo \cup {NoRepo}
         /\ gatehook!Opened(Nearest[c]).state = "none" => Nearest[c] \notin since.governed
         /\ gatehook!Opened(Nearest[c]).state # "none" => Nearest[c] \in Repo /\ Nearest[c] \in ever
<1>1. Nearest[c] \in Repo \cup {NoRepo} /\ NoRepo \notin Repo
  BY Geometry DEF gatehook!GeometryAssumption
<1>2. CASE Nearest[c] = NoRepo
  <2>1. gatehook!Opened(Nearest[c]) = [state |-> "none", paused |-> FALSE]
    BY <1>2 DEF gatehook!Opened
  <2>2. gatehook!Opened(Nearest[c]).state = "none"
    BY <2>1
  <2> QED BY <1>1, <1>2, <2>2 DEF Standing
<1>3. CASE Nearest[c] # NoRepo
  BY <1>1, <1>3, OpenedTells
<1> QED BY <1>2, <1>3

LEMMA GovernedAnyKeeps ==
  ASSUME GateParts, gatehook!GovernedAny
  PROVE  GateParts'
<1> USE DEF GateParts
<1>1. PICK step : gatehook!Go(step) /\ step \in {"denied", "governed", "passed"}
  BY DEF gatehook!GovernedAny
<1>2. World' /\ CallShape' /\ Standing'
  BY <1>1, GateOnlyReads
<1>3. pc = "governed" /\ pc \in Begun /\ UNCHANGED <<call, home, since, ever>>
  BY <1>1 DEF gatehook!GovernedAny, gatehook!Go, Begun
<1>4. ~gatehook!HomeOpen /\ todo \subseteq call.places
      /\ \A c \in call.places \ todo : Nearest[c] \notin since.governed
  BY <1>3 DEF HomeKnown, Answered
<1>5. call.kind \notin {"unreadable", "read"}
  BY <1>3 DEF Fresh
<1>6. CASE todo = {}
  <2>1. gatehook!Keep /\ gatehook!Go("passed")
    BY <1>6 DEF gatehook!GovernedAny
  <2>2. pc' = "passed" /\ repos' = repos /\ todo' = todo
    BY <2>1 DEF gatehook!Go, gatehook!Keep
  <2>3. Memo'
    BY <1>3, <2>1, GateKeeps
  <2>4. Fresh' /\ HomeKnown' /\ Admitted' /\ Answered' /\ Nesting'
    BY <1>3, <2>2, StepsApart
       DEF Fresh, HomeKnown, Admitted, Answered, Nesting, Begun, Late, Placing, gatehook!Steps
  <2>5. call.home \notin since.governed
    <3>1. home = "none"
      BY <1>3, <1>4 DEF HomeKnown, gatehook!HomeOpen
    <3> QED BY <3>1 DEF Memo
  <2>6. \A r : r \notin since.governed =>
          /\ r \notin since.paused \cup since.broken /\ r \notin since.slotless
          /\ \A c : <<r, c>> \notin since.held
    BY DEF Standing
  <2>7. \A r \in {call.home} \cup {Nearest[c] : c \in call.places} : r \notin since.governed
    BY <1>4, <1>6, <2>5
  <2>8. \A c \in call.places : \A r \in gatehook!Asked(c) : r \notin since.governed
    BY <1>4, <1>6, <2>5 DEF gatehook!Asked
  <2>9. gatehook!ReservationsHold
    BY <2>5, <2>6, <2>7, <2>8 DEF gatehook!ReservationsHold
  <2>10. gatehook!VerdictIsALedgers'
    <3>1. pc' = "passed" => gatehook!ReservationsHold'
      <4>1. /\ call.home \notin since.paused \cup since.broken
            /\ \A c \in call.places : \A r \in gatehook!Asked(c) :
                 <<r, c>> \notin since.held /\ r \notin since.paused \cup since.broken /\ r \notin since.governed
            /\ \A r \in {call.home} \cup {Nearest[c] : c \in call.places} :
                 r \notin since.governed /\ r \notin since.slotless
        BY <2>5, <2>6, <2>7, <2>8
      <4>2. /\ call'.home \notin since'.paused \cup since'.broken
            /\ \A c \in call'.places : \A r \in gatehook!Asked(c)' :
                 <<r, c>> \notin since'.held /\ r \notin since'.paused \cup since'.broken /\ r \notin since'.governed
            /\ \A r \in {call'.home} \cup {Nearest[c] : c \in call'.places} :
                 r \notin since'.governed /\ r \notin since'.slotless
        BY <1>3, <4>1 DEF gatehook!Asked
      <4> QED BY <4>2 DEF gatehook!ReservationsHold
    <3> QED BY <2>2, <3>1 DEF gatehook!VerdictIsALedgers, gatehook!OffIsOff
  <2> QED BY <1>2, <2>3, <2>4, <2>10
<1>7. CASE todo # {}
  <2>1. PICK c \in todo :
          /\ gatehook!Remember(Nearest[c]) /\ todo' = todo \ {c}
          /\ gatehook!Go(IF gatehook!Opened(Nearest[c]).state = "none" THEN "governed" ELSE "denied")
    BY <1>7 DEF gatehook!GovernedAny
  <2>2. c \in call.places /\ c \in Place
    BY <1>4 DEF CallShape
  <2>3. /\ Nearest[c] \in Repo \cup {NoRepo}
        /\ gatehook!Opened(Nearest[c]).state = "none" => Nearest[c] \notin since.governed
        /\ gatehook!Opened(Nearest[c]).state # "none" => Nearest[c] \in Repo /\ Nearest[c] \in ever
    BY <2>2, NearestTells
  <2>4. /\ pc' \in {"governed", "denied"}
        /\ pc' = "governed" => Nearest[c] \notin since.governed
        /\ pc' = "denied" => Nearest[c] \in ever
    BY <2>1, <2>3 DEF gatehook!Go
  <2>5. /\ Memo'
        /\ gatehook!HomeOpen <=> gatehook!HomeOpen'
        /\ home' = home
    BY <1>3, <2>1, <2>3, AskingKeepsHome
  <2>6. Fresh'
    BY <1>3, <1>5, <2>4, StepsApart DEF Fresh, gatehook!Steps, Begun
  <2>7. HomeKnown'
    BY <1>3, <1>4, <2>4, <2>5, StepsApart DEF HomeKnown, Late, Placing
  <2>8. Admitted' /\ Nesting'
    BY <1>3, <2>4, StepsApart DEF Admitted, Nesting, Late, Placing
  <2>9. Answered'
    BY <1>3, <1>4, <2>1, <2>4, StepsApart DEF Answered, Placing
  <2>10. gatehook!VerdictIsALedgers'
    <3>1. pc' = "denied" => \E r \in {call'.home} \cup {Nearest[d] : d \in call'.places} : r \in ever'
      BY <1>3, <2>2, <2>4
    <3> QED BY <2>4, <3>1
        DEF gatehook!VerdictIsALedgers, gatehook!ReservationsHold, gatehook!OffIsOff, gatehook!Passed
  <2> QED BY <1>2, <2>5, <2>6, <2>7, <2>8, <2>9, <2>10
<1> QED BY <1>6, <1>7

(* A call that goes through the brake of its home.                         *)
LEMMA BrakeKeeps ==
  ASSUME GateParts, gatehook!Brake
  PROVE  GateParts'
<1> USE DEF GateParts
<1>1. PICK step : gatehook!Go(step) /\ step \in {"denied", "stack"}
                  /\ (step = "stack" => call.kind # "patch"
                                        /\ (call.home # NoRepo => ~gatehook!PausedFor(call.home)))
  BY DEF gatehook!Brake
<1>2. World' /\ CallShape' /\ Standing'
  BY <1>1, GateOnlyReads
<1>3. pc = "brake" /\ pc \in Begun /\ pc' = step /\ UNCHANGED <<call, home, since, ever>>
  BY <1>1 DEF gatehook!Brake, gatehook!Go, Begun
<1>4. gatehook!Keep
  BY DEF gatehook!Brake
<1>5. Memo' /\ (gatehook!HomeOpen <=> gatehook!HomeOpen') /\ todo' = todo
  BY <1>3, <1>4, GateKeeps
<1>6. repos' = repos
  BY <1>4 DEF gatehook!Keep
<1>7. call.home # NoRepo /\ call.home \in Repo /\ home \in {"open", "rootless"}
  BY <1>3, Geometry DEF HomeKnown, gatehook!HomeOpen, Memo, gatehook!GeometryAssumption
<1>8. Fresh'
  BY <1>1, <1>3, StepsApart DEF Fresh, gatehook!Steps
<1>9. HomeKnown'
  <2>1. step = "stack" => call.home \notin since.paused
    BY <1>1, <1>7 DEF gatehook!PausedFor, Standing
  <2> QED BY <1>1, <1>3, <1>6, <1>7, <2>1, StepsApart DEF HomeKnown, Begun, Late, Placing
<1>10. Admitted' /\ Answered' /\ Nesting'
  BY <1>1, <1>3, StepsApart DEF Admitted, Answered, Nesting, Late, Placing
<1>11. gatehook!VerdictIsALedgers'
  <2>1. call.home \in ever
    BY <1>7 DEF Memo
  <2> QED BY <1>1, <1>3, <2>1
      DEF gatehook!VerdictIsALedgers, gatehook!ReservationsHold, gatehook!OffIsOff, gatehook!Passed
<1> QED BY <1>2, <1>5, <1>8, <1>9, <1>10, <1>11

(* gateGHStack: the home's slot first, then that of each directory's.      *)
LEMMA GhStackKeeps ==
  ASSUME GateParts, gatehook!GhStack
  PROVE  GateParts'
<1> USE DEF GateParts
<1>1. PICK step : gatehook!Go(step) /\ step \in {"denied", "targets", "slots"}
                  /\ (step = "denied" => gatehook!HomeOpen)
                  /\ (step = "targets" => call.kind # "stack" /\ todo' = call.places)
                  /\ (step = "slots" => call.kind = "stack" /\ (gatehook!HomeOpen => call.home \in slot)
                        /\ todo' = {c \in call.places : Nearest[c] # call.home \/ ~gatehook!HomeOpen})
  <2>1. CASE call.kind # "stack"
    <3>1. gatehook!Go("targets") /\ todo' = call.places
      BY <2>1 DEF gatehook!GhStack
    <3> QED BY <2>1, <3>1
  <2>2. CASE call.kind = "stack" /\ gatehook!HomeOpen
             /\ (call.err \/ home = "rootless" \/ ~gatehook!SlotHeld(call.home))
    <3>1. gatehook!Go("denied")
      BY <2>2 DEF gatehook!GhStack
    <3> QED BY <2>2, <3>1
  <2>3. CASE call.kind = "stack"
             /\ ~ (gatehook!HomeOpen
                   /\ (call.err \/ home = "rootless" \/ ~gatehook!SlotHeld(call.home)))
    <3>1. gatehook!Go("slots") /\ todo' = {c \in call.places : Nearest[c] # call.home \/ ~gatehook!HomeOpen}
      BY <2>3 DEF gatehook!GhStack
    <3>2. gatehook!HomeOpen => call.home \in slot
      BY <2>3 DEF gatehook!SlotHeld
    <3> QED BY <2>3, <3>1, <3>2
  <2> QED BY <2>1, <2>2, <2>3
<1>2. World' /\ CallShape' /\ Standing'
  BY <1>1, GateOnlyReads
<1>3. pc = "stack" /\ pc' = step /\ repos' = repos /\ UNCHANGED <<call, home, since, ever>>
  BY <1>1 DEF gatehook!GhStack, gatehook!Go, gatehook!Keep
<1>4. pc \in Begun /\ pc \in Late
  BY <1>3 DEF Begun, Late
<1>5. Memo'
  BY <1>3 DEF Memo
<1>6. Fresh'
  BY <1>1, <1>3, <1>4, StepsApart DEF Fresh, gatehook!Steps
<1>7. HomeKnown'
  BY <1>1, <1>3, <1>4, StepsApart DEF HomeKnown, Begun, Late
<1>8. Admitted' /\ Nesting'
  <2>1. call.kind \notin {"unreadable", "read", "patch"} /\ ~call.ambiguous
    BY <1>4 DEF Fresh, Admitted
  <2>2. call.kind # "stack" => call.kind \in {"path", "other"}
    BY <2>1 DEF CallShape
  <2> QED BY <1>1, <1>3, <2>1, <2>2, StepsApart DEF Admitted, Nesting, Late, Placing
<1>9. Answered'
  <2>1. step = "slots" => call.home \notin since.slotless
    <3>1. NoRepo \notin since.slotless
      BY Geometry DEF Standing, gatehook!GeometryAssumption
    <3>2. ~gatehook!HomeOpen /\ call.home # NoRepo => call.home \notin since.slotless
      BY <1>4 DEF HomeKnown, gatehook!HomeOpen, Standing, Memo, CallShape
    <3> QED BY <1>1, <3>1, <3>2 DEF Standing
  <2>2. step = "slots" => todo' \subseteq call.places
                          /\ \A c \in call.places \ todo' : Nearest[c] \notin since.slotless
    BY <1>1, <2>1
  <2>3. step = "targets" => todo' = call.places
    BY <1>1
  <2> QED BY <1>1, <1>3, <2>1, <2>2, <2>3, StepsApart DEF Answered, Placing
<1>10. gatehook!VerdictIsALedgers'
  <2>1. step = "denied" => call.home \in ever
    BY <1>1 DEF gatehook!HomeOpen, CallShape, Memo
  <2> QED BY <1>1, <1>3, <2>1
      DEF gatehook!VerdictIsALedgers, gatehook!ReservationsHold, gatehook!OffIsOff, gatehook!Passed
<1> QED BY <1>2, <1>5, <1>6, <1>7, <1>8, <1>9, <1>10

(* The home of a call that is under way has neither broken nor paused all  *)
(* along.                                                                  *)
LEMMA HomeIsFree ==
  ASSUME World, CallShape, Standing, Memo, HomeKnown, pc \in Late
  PROVE  /\ call.home \notin since.paused /\ call.home \notin since.broken
         /\ ~gatehook!HomeOpen => call.home \notin since.governed
<1>1. home \in {"none", "rootless", "open"}
  BY DEF HomeKnown, Begun
<1> QED BY <1>1 DEF HomeKnown, Memo, gatehook!HomeOpen

LEMMA SlotsKeeps ==
  ASSUME GateParts, gatehook!Slots
  PROVE  GateParts'
<1> USE DEF GateParts
<1>1. PICK step : gatehook!Go(step) /\ step \in {"denied", "slots", "passed"}
  BY DEF gatehook!Slots
<1>2. World' /\ CallShape' /\ Standing'
  BY <1>1, GateOnlyReads
<1>3. pc = "slots" /\ UNCHANGED <<call, home, since, ever>>
  BY <1>1 DEF gatehook!Slots, gatehook!Go
<1>4. pc \in Begun /\ pc \in Late
  BY <1>3 DEF Begun, Late
<1>5. /\ call.kind = "stack" /\ ~call.ambiguous /\ todo \subseteq call.places
      /\ call.home \notin since.slotless /\ \A c \in call.places \ todo : Nearest[c] \notin since.slotless
  BY <1>3, <1>4 DEF Admitted, Answered
<1>6. CASE todo = {}
  <2>1. gatehook!Keep /\ gatehook!Go("passed")
    BY <1>6 DEF gatehook!Slots
  <2>2. pc' = "passed" /\ repos' = repos /\ todo' = todo
    BY <2>1 DEF gatehook!Go, gatehook!Keep
  <2>3. Memo'
    BY <1>3, <2>1, GateKeeps
  <2>4. Fresh' /\ HomeKnown' /\ Admitted' /\ Answered' /\ Nesting'
    BY <1>3, <2>2, StepsApart
       DEF Fresh, HomeKnown, Admitted, Answered, Nesting, Begun, Late, Placing, gatehook!Steps
  <2>5. call.home \notin since.paused /\ call.home \notin since.broken
    BY <1>4, HomeIsFree
  <2>6. \A r \in {call.home} \cup {Nearest[c] : c \in call.places} : r \notin since.slotless
    BY <1>5, <1>6
  <2>7. gatehook!ReservationsHold'
    BY <1>3, <1>5, <2>5, <2>6 DEF gatehook!ReservationsHold
  <2>8. gatehook!VerdictIsALedgers'
    BY <2>2, <2>7 DEF gatehook!VerdictIsALedgers, gatehook!OffIsOff
  <2> QED BY <1>2, <2>3, <2>4, <2>8
<1>7. CASE todo # {}
  <2>1. PICK c \in todo :
          /\ gatehook!Remember(Nearest[c]) /\ todo' = todo \ {c}
          /\ gatehook!Go(IF gatehook!Opened(Nearest[c]).state = "none"
                            \/ (gatehook!Opened(Nearest[c]).state = "open" /\ ~gatehook!Opened(Nearest[c]).paused
                                /\ ~call.err /\ gatehook!SlotHeld(Nearest[c]))
                         THEN "slots" ELSE "denied")
    BY <1>7 DEF gatehook!Slots
  <2>2. c \in call.places /\ c \in Place
    BY <1>5 DEF CallShape
  <2>3. /\ Nearest[c] \in Repo \cup {NoRepo}
        /\ gatehook!Opened(Nearest[c]).state = "none" => Nearest[c] \notin since.governed
        /\ gatehook!Opened(Nearest[c]).state # "none" => Nearest[c] \in Repo /\ Nearest[c] \in ever
    BY <2>2, NearestTells
  <2>4. /\ pc' \in {"slots", "denied"}
        /\ pc' = "slots" => Nearest[c] \notin since.slotless
        /\ pc' = "denied" => Nearest[c] \in ever
    <3>1. gatehook!SlotHeld(Nearest[c]) => Nearest[c] \notin since.slotless
      BY DEF gatehook!SlotHeld, Standing
    <3>2. Nearest[c] \notin since.governed => Nearest[c] \notin since.slotless
      BY DEF Standing
    <3> QED BY <2>1, <2>3, <3>1, <3>2 DEF gatehook!Go
  <2>5. /\ Memo'
        /\ gatehook!HomeOpen <=> gatehook!HomeOpen'
        /\ home' = home
    BY <1>3, <1>4, <2>1, <2>3, AskingKeepsHome
  <2>6. Fresh'
    BY <1>3, <1>4, <2>4, StepsApart DEF Fresh, gatehook!Steps
  <2>7. HomeKnown'
    <3>1. call.home \notin since.paused
      BY <1>4 DEF HomeKnown
    <3> QED BY <1>3, <2>4, <2>5, <3>1, StepsApart DEF HomeKnown, Begun, Late, Placing
  <2>8. Admitted' /\ Nesting'
    BY <1>3, <1>5, <2>4, StepsApart DEF Admitted, Nesting, Late, Placing
  <2>9. Answered'
    BY <1>3, <1>5, <2>1, <2>4, StepsApart DEF Answered, Placing
  <2>10. gatehook!VerdictIsALedgers'
    <3>1. pc' = "denied" => \E r \in {call'.home} \cup {Nearest[d] : d \in call'.places} : r \in ever'
      BY <1>3, <2>2, <2>4
    <3> QED BY <2>4, <3>1
        DEF gatehook!VerdictIsALedgers, gatehook!ReservationsHold, gatehook!OffIsOff, gatehook!Passed
  <2> QED BY <1>2, <2>5, <2>6, <2>7, <2>8, <2>9, <2>10
<1> QED BY <1>6, <1>7

LEMMA TargetsKeeps ==
  ASSUME GateParts, gatehook!Targets
  PROVE  GateParts'
<1> USE DEF GateParts
<1>1. PICK step : gatehook!Keep /\ gatehook!Go(step) /\ step \in {"passed", "denied", "governed", "place"}
                  /\ (step = "passed" => todo = {})
                  /\ (step # "passed" => todo # {})
                  /\ (step = "denied" => gatehook!HomeOpen)
                  /\ (step = "governed" => ~gatehook!HomeOpen /\ call.err)
                  /\ (step = "place" => ~call.err)
  <2>0. call.err \in BOOLEAN
    BY DEF CallShape
  <2>1. CASE todo = {}
    <3>1. gatehook!Keep /\ gatehook!Go("passed")
      BY <2>1 DEF gatehook!Targets
    <3> QED BY <2>1, <3>1
  <2>2. CASE todo # {} /\ gatehook!HomeOpen /\ (call.err \/ home = "rootless")
    <3>1. gatehook!Keep /\ gatehook!Go("denied")
      BY <2>2 DEF gatehook!Targets
    <3> QED BY <2>2, <3>1
  <2>3. CASE todo # {} /\ ~gatehook!HomeOpen /\ call.err
    <3>1. gatehook!Keep /\ gatehook!Go("governed")
      BY <2>3 DEF gatehook!Targets
    <3> QED BY <2>3, <3>1
  <2>4. CASE todo # {} /\ ~ (gatehook!HomeOpen /\ (call.err \/ home = "rootless"))
             /\ ~ (~gatehook!HomeOpen /\ call.err)
    <3>1. gatehook!Keep /\ gatehook!Go("place")
      BY <2>4 DEF gatehook!Targets
    <3> QED BY <2>4, <3>1
  <2> QED BY <2>0, <2>1, <2>2, <2>3, <2>4
<1>2. World' /\ CallShape' /\ Standing'
  BY <1>1, GateOnlyReads
<1>3. pc = "targets" /\ pc' = step /\ repos' = repos /\ todo' = todo /\ UNCHANGED <<call, home, since, ever>>
  BY <1>1 DEF gatehook!Targets, gatehook!Go, gatehook!Keep
<1>4. pc \in Begun /\ pc \in Late /\ pc \in Placing
  BY <1>3 DEF Begun, Late, Placing
<1>5. Memo' /\ (gatehook!HomeOpen <=> gatehook!HomeOpen')
  BY <1>1, <1>3, GateKeeps
<1>6. /\ call.kind \in {"path", "other"} /\ ~call.ambiguous /\ todo \subseteq call.places
      /\ \A c \in call.places \ todo : Clear(c)
  BY <1>4 DEF Admitted, Answered
<1>7. Fresh'
  BY <1>1, <1>3, <1>4, StepsApart DEF Fresh, gatehook!Steps
<1>8. HomeKnown'
  BY <1>1, <1>3, <1>4, <1>5, StepsApart DEF HomeKnown, Begun, Late, Placing
<1>9. Admitted' /\ Nesting'
  BY <1>1, <1>3, <1>6, StepsApart DEF Admitted, Nesting, Late, Placing
<1>10. Answered'
  <2>1. step = "governed" => call.places \subseteq todo
    BY <1>1, <1>3 DEF Admitted
  <2>2. \A c : Clear(c) <=> Clear(c)'
    BY <1>3 DEF Clear, gatehook!Asked
  <2> QED BY <1>1, <1>3, <1>6, <2>1, <2>2, StepsApart DEF Answered, Placing
<1>11. gatehook!VerdictIsALedgers'
  <2>1. step = "denied" => call.home \in ever
    BY <1>1 DEF gatehook!HomeOpen, CallShape, Memo
  <2>2. step = "passed" => gatehook!ReservationsHold'
    <3>1. call.home \notin since.paused /\ call.home \notin since.broken
      BY <1>4, HomeIsFree
    <3>2. ASSUME step = "passed", call.kind = "path" PROVE ~call.err
      BY <1>1, <1>3, <3>2 DEF Admitted, CallShape
    <3>3. step = "passed" => \A c \in call.places : Clear(c)
      BY <1>1, <1>6
    <3>4. \A c \in Place : gatehook!Asked(c)' = gatehook!Asked(c)
      BY <1>3 DEF gatehook!Asked
    <3>5. call.places \subseteq Place
      BY DEF CallShape
    <3> QED BY <1>3, <1>6, <3>1, <3>2, <3>3, <3>4, <3>5 DEF gatehook!ReservationsHold, Clear
  <2> QED BY <1>1, <1>3, <2>1, <2>2 DEF gatehook!VerdictIsALedgers, gatehook!OffIsOff, gatehook!ReservationsHold, gatehook!Passed
<1> QED BY <1>2, <1>5, <1>7, <1>8, <1>9, <1>10, <1>11

(* gateTarget: a place in the home repository that its ledger lets through *)
(* and that no nested repository has is done with; for every other place   *)
(* the nearest repository is opened.                                       *)
LEMMA GateTargetKeeps ==
  ASSUME GateParts, gatehook!GateTarget
  PROVE  GateParts'
<1> USE DEF GateParts
<1>1. PICK c \in todo :
        IF gatehook!AtHome(c) /\ (gatehook!DenyIfHeld(call.home, c) \/ ~gatehook!Nested(c))
        THEN /\ todo' = todo \ {c} /\ repos' = repos
             /\ gatehook!Go(IF gatehook!DenyIfHeld(call.home, c) THEN "denied" ELSE "targets")
        ELSE /\ gatehook!Remember(Nearest[c]) /\ todo' = todo /\ gatehook!Go(c)
  BY DEF gatehook!GateTarget
<1>2. pc = "place" /\ pc \in Begun /\ pc \in Late /\ pc \in Placing
  BY DEF gatehook!GateTarget, Begun, Late, Placing
<1>3. /\ call.kind \in {"path", "other"} /\ call.kind \notin {"unreadable", "read"} /\ ~call.ambiguous /\ ~call.err
      /\ todo \subseteq call.places /\ \A d \in call.places \ todo : Clear(d)
  BY <1>2 DEF Admitted, Answered
<1>4. c \in call.places /\ c \in Place
  BY <1>3 DEF CallShape
<1>5. UNCHANGED <<call, home, since, ever>> /\ World' /\ CallShape' /\ Standing'
  <2>1. PICK step : gatehook!Go(step)
    BY <1>1
  <2> QED BY <2>1, GateOnlyReads DEF gatehook!Go
<1>6. \A d : Clear(d) <=> Clear(d)'
  BY <1>5 DEF Clear, gatehook!Asked
<1>7. call.home \notin since.paused /\ call.home \notin since.broken
  BY <1>2, HomeIsFree
<1>8. /\ Nearest[c] \in Repo \cup {NoRepo}
      /\ gatehook!Opened(Nearest[c]).state = "none" => Nearest[c] \notin since.governed
      /\ gatehook!Opened(Nearest[c]).state # "none" => Nearest[c] \in Repo /\ Nearest[c] \in ever
  BY <1>4, NearestTells
<1>9. gatehook!HomeOpen => call.home # NoRepo /\ call.home \in Repo /\ call.home \in ever
  BY Geometry DEF gatehook!HomeOpen, Memo, gatehook!GeometryAssumption
<1>10. CASE gatehook!AtHome(c) /\ gatehook!DenyIfHeld(call.home, c)
  <2>1. pc' = "denied" /\ repos' = repos
    BY <1>1, <1>10 DEF gatehook!Go
  <2>2. Memo'
    BY <1>5, <2>1 DEF Memo
  <2>3. Fresh' /\ HomeKnown' /\ Admitted' /\ Answered' /\ Nesting'
    BY <2>1, StepsApart
       DEF Fresh, HomeKnown, Admitted, Answered, Nesting, Begun, Late, Placing, gatehook!Steps
  <2>4. call.home \in ever
    BY <1>9, <1>10 DEF gatehook!AtHome
  <2>5. gatehook!VerdictIsALedgers'
    BY <1>5, <2>1, <2>4
       DEF gatehook!VerdictIsALedgers, gatehook!ReservationsHold, gatehook!OffIsOff, gatehook!Passed
  <2> QED BY <1>5, <2>2, <2>3, <2>5
<1>11. CASE gatehook!AtHome(c) /\ ~gatehook!DenyIfHeld(call.home, c) /\ ~gatehook!Nested(c)
  <2>1. pc' = "targets" /\ repos' = repos /\ todo' = todo \ {c}
    BY <1>1, <1>11 DEF gatehook!Go
  <2>2. gatehook!HomeOpen /\ c \in Inside[call.home] /\ c \notin held[call.home]
    BY <1>11 DEF gatehook!AtHome, gatehook!PlaceInRepo, gatehook!DenyIfHeld
  <2>3. call.home \in Repo /\ call.home # NoRepo
    BY <1>9, <2>2
  <2>4. Nearest[c] \in {NoRepo, call.home}
    <3>1. Nearest[c] # NoRepo => Inside[Nearest[c]] \subseteq Inside[call.home]
      BY <2>2, <2>3, Geometry DEF gatehook!GeometryAssumption
    <3> QED BY <1>11, <3>1 DEF gatehook!Nested
  <2>5. \A r \in gatehook!Asked(c) : r \in {NoRepo, call.home}
    BY <2>4 DEF gatehook!Asked
  <2>6. Clear(c)
    <3>1. <<call.home, c>> \notin since.held
      BY <1>4, <2>2, <2>3 DEF Standing
    <3>2. <<NoRepo, c>> \notin since.held /\ NoRepo \notin since.paused /\ NoRepo \notin since.broken
      BY Geometry DEF Standing, gatehook!GeometryAssumption
    <3> QED BY <1>7, <2>5, <3>1, <3>2 DEF Clear
  <2>7. Memo'
    BY <1>5, <2>1 DEF Memo
  <2>8. Fresh'
    BY <1>3, <1>5, <2>1, StepsApart DEF Fresh, gatehook!Steps
  <2>9. HomeKnown'
    BY <1>2, <1>5, <2>1, StepsApart DEF HomeKnown, Begun, Late, Placing
  <2>10. Admitted' /\ Nesting'
    BY <1>3, <1>5, <2>1, StepsApart DEF Admitted, Nesting, Late, Placing
  <2>11. Answered'
    <3>1. \A d \in call.places \ todo' : Clear(d)'
      BY <1>3, <1>6, <2>1, <2>6
    <3> QED BY <1>3, <1>5, <2>1, <3>1, StepsApart DEF Answered, Placing
  <2>12. gatehook!VerdictIsALedgers'
    BY <2>1 DEF gatehook!VerdictIsALedgers, gatehook!ReservationsHold, gatehook!OffIsOff, gatehook!Passed
  <2> QED BY <1>5, <2>7, <2>8, <2>9, <2>10, <2>11, <2>12
<1>12. CASE ~ (gatehook!AtHome(c) /\ (gatehook!DenyIfHeld(call.home, c) \/ ~gatehook!Nested(c)))
  <2>1. pc' = c /\ todo' = todo /\ gatehook!Remember(Nearest[c])
    BY <1>1, <1>12 DEF gatehook!Go
  <2>2. /\ Memo'
        /\ gatehook!HomeOpen <=> gatehook!HomeOpen'
        /\ home' = home
    BY <1>2, <1>5, <1>8, <2>1, AskingKeepsHome
  <2>3. pc' \in Place /\ pc' \in Placing /\ pc' \in Late /\ pc' \in Begun
    BY <1>4, <2>1 DEF Placing, Late, Begun
  <2>4. Fresh'
    BY <1>3, <1>5, <2>3, StepsApart DEF Fresh
  <2>5. HomeKnown'
    <3>1. home \in {"none", "rootless", "open"}
      BY <1>2 DEF HomeKnown
    <3>2. pc' \notin {"brake", "governed"}
      BY <1>4, <2>1, StepsApart
    <3> QED BY <1>5, <1>7, <2>2, <3>1, <3>2 DEF HomeKnown
  <2>6. Admitted'
    BY <1>3, <1>5, <2>3, StepsApart DEF Admitted
  <2>7. Answered'
    BY <1>3, <1>5, <1>6, <2>1, <2>3, StepsApart DEF Answered
  <2>8. Nesting'
    <3>1. gatehook!AtHome(c)' => gatehook!AtHome(c)
      BY <1>5, <2>2 DEF gatehook!AtHome, gatehook!PlaceInRepo
    <3>2. gatehook!AtHome(c) => <<call.home, c>> \notin since.held /\ Nearest[c] # call.home
      <4>1. gatehook!AtHome(c) => c \notin held[call.home] /\ Nearest[c] # call.home
        BY <1>12 DEF gatehook!DenyIfHeld, gatehook!Nested
      <4>2. gatehook!AtHome(c) => call.home \in Repo
        BY <1>9 DEF gatehook!AtHome
      <4> QED BY <1>4, <4>1, <4>2 DEF Standing
    <3>3. gatehook!AtHome(pc)' => gatehook!AtHome(c)'
      BY <2>1 DEF gatehook!AtHome, gatehook!HomeOpen, gatehook!PlaceInRepo
    <3> QED BY <1>5, <2>1, <3>1, <3>2, <3>3 DEF Nesting
  <2>9. gatehook!VerdictIsALedgers'
    BY <2>3, StepsApart DEF gatehook!VerdictIsALedgers, gatehook!ReservationsHold, gatehook!OffIsOff, gatehook!Passed
  <2> QED BY <1>5, <2>2, <2>4, <2>5, <2>6, <2>7, <2>8, <2>9
<1> QED BY <1>10, <1>11, <1>12

(* gateForeignRepo: the nearest repository's brake and claims.             *)
LEMMA GateForeignRepoKeeps ==
  ASSUME GateParts, gatehook!GateForeignRepo
  PROVE  GateParts'
<1> USE DEF GateParts
<1>1. PICK c : c = pc
  OBVIOUS
<1>2. c \in Place /\ todo' = todo \ {c} /\ repos' = repos
      /\ gatehook!Go(IF gatehook!Opened(Nearest[c]).state = "none"
                        \/ (gatehook!Opened(Nearest[c]).state = "open" /\ ~gatehook!Opened(Nearest[c]).paused
                            /\ ~gatehook!DenyIfHeld(Nearest[c], c))
                     THEN "targets" ELSE "denied")
  BY <1>1 DEF gatehook!GateForeignRepo
<1>3. UNCHANGED <<call, home, since, ever>> /\ World' /\ CallShape' /\ Standing'
  <2>1. PICK step : gatehook!Go(step)
    BY <1>2
  <2> QED BY <2>1, GateOnlyReads DEF gatehook!Go
<1>4. pc \in Begun /\ pc \in Late /\ pc \in Placing
  BY <1>1, <1>2 DEF Begun, Late, Placing
<1>5. /\ call.kind \in {"path", "other"} /\ call.kind \notin {"unreadable", "read"} /\ ~call.ambiguous /\ ~call.err
      /\ todo \subseteq call.places /\ \A d \in call.places \ todo : Clear(d)
  BY <1>1, <1>2, <1>4 DEF Admitted, Answered
<1>6. c \in todo /\ c \in call.places
      /\ (gatehook!AtHome(c) => <<call.home, c>> \notin since.held /\ Nearest[c] # call.home)
  BY <1>1, <1>2, <1>5 DEF Nesting
<1>7. \A d : Clear(d) <=> Clear(d)'
  BY <1>3 DEF Clear, gatehook!Asked
<1>8. /\ call.home \notin since.paused /\ call.home \notin since.broken
      /\ ~gatehook!HomeOpen => call.home \notin since.governed
  BY <1>4, HomeIsFree
<1>9. /\ Nearest[c] \in Repo \cup {NoRepo}
      /\ gatehook!Opened(Nearest[c]).state = "none" => Nearest[c] \notin since.governed
      /\ gatehook!Opened(Nearest[c]).state # "none" => Nearest[c] \in Repo /\ Nearest[c] \in ever
  BY <1>2, NearestTells
<1>10. /\ pc' \in {"targets", "denied"}
       /\ pc' = "denied" => Nearest[c] \in ever
       /\ pc' = "targets" =>
            \/ Nearest[c] \notin since.governed
            \/ /\ gatehook!Opened(Nearest[c]).state = "open" /\ ~gatehook!Opened(Nearest[c]).paused
               /\ Nearest[c] \in Repo /\ c \notin held[Nearest[c]]
  BY <1>2, <1>9 DEF gatehook!Go, gatehook!DenyIfHeld
<1>11. Memo'
  BY <1>2, <1>3 DEF Memo
<1>12. Fresh'
  BY <1>3, <1>5, <1>10, StepsApart DEF Fresh, gatehook!Steps
<1>13. HomeKnown'
  BY <1>2, <1>3, <1>4, <1>10, StepsApart DEF HomeKnown, Begun, Late, Placing
<1>14. Admitted' /\ Nesting'
  BY <1>3, <1>5, <1>10, StepsApart DEF Admitted, Nesting, Late, Placing
<1>15. Answered'
  <2>1. ASSUME pc' = "targets" PROVE Clear(c)
    <3>1. <<Nearest[c], c>> \notin since.held /\ Nearest[c] \notin since.paused /\ Nearest[c] \notin since.broken
      <4>1. CASE Nearest[c] \notin since.governed
        BY <1>2, <1>9, <4>1, Geometry DEF Standing, gatehook!GeometryAssumption
      <4>2. CASE Nearest[c] \in since.governed
        <5>1. /\ gatehook!Opened(Nearest[c]).state = "open" /\ ~gatehook!Opened(Nearest[c]).paused
              /\ Nearest[c] \in Repo /\ c \notin held[Nearest[c]]
          BY <1>10, <2>1, <4>2
        <5>2. <<Nearest[c], c>> \notin since.held
          BY <1>2, <5>1 DEF Standing
        <5>3. Nearest[c] # call.home => Nearest[c] \notin since.paused
          BY <5>1, OpenedTells
        <5>4. Nearest[c] \notin since.broken
          BY <5>1, OpenedTells
        <5> QED BY <1>8, <5>2, <5>3, <5>4
      <4> QED BY <4>1, <4>2
    <3>2. ASSUME call.home # NoRepo, c \in Inside[call.home]
          PROVE  <<call.home, c>> \notin since.held
      <4>1. CASE gatehook!HomeOpen
        BY <1>6, <3>2, <4>1 DEF gatehook!AtHome, gatehook!PlaceInRepo
      <4>2. CASE ~gatehook!HomeOpen
        BY <1>2, <1>8, <3>2, <4>2 DEF Standing, CallShape
      <4> QED BY <4>1, <4>2
    <3>3. \A r \in gatehook!Asked(c) : r = Nearest[c] \/ (r = call.home /\ call.home # NoRepo /\ c \in Inside[call.home])
      BY DEF gatehook!Asked
    <3> QED BY <1>8, <3>1, <3>2, <3>3 DEF Clear
  <2>2. pc' = "targets" => \A d \in call.places \ todo' : Clear(d)'
    BY <1>2, <1>5, <1>7, <2>1
  <2> QED BY <1>2, <1>3, <1>5, <1>10, <2>2, StepsApart DEF Answered, Placing
<1>16. gatehook!VerdictIsALedgers'
  <2>1. pc' = "denied" => \E r \in {call'.home} \cup {Nearest[d] : d \in call'.places} : r \in ever'
    BY <1>3, <1>6, <1>10
  <2> QED BY <1>10, <2>1
      DEF gatehook!VerdictIsALedgers, gatehook!ReservationsHold, gatehook!OffIsOff, gatehook!Passed
<1> QED BY <1>3, <1>11, <1>12, <1>13, <1>14, <1>15, <1>16

(* Meanwhile: what has stood all along becomes less, what governed at some *)
(* time becomes more, and nothing that the call knows says otherwise.      *)
LEMMA TurnKeeps ==
  ASSUME GateParts, NEW l \in [Repo -> {"none", "broken", "rootless", "open"}], NEW h \in [Repo -> SUBSET Place],
         NEW p \in SUBSET Repo, NEW s \in SUBSET Repo, gatehook!Turn(l, h, p, s)
  PROVE  GateParts'
<1> USE DEF GateParts
<1>1. /\ ledger' = l /\ held' = h /\ paused' = p /\ slot' = s /\ gatehook!Consistent(l, h, p, s)
      /\ UNCHANGED <<call, pc, todo, home, repos>> /\ pc \notin {"passed", "denied"}
  BY DEF gatehook!Turn
<1>2. World'
  BY <1>1 DEF World, gatehook!Consistent
<1>3. CallShape'
  BY <1>1 DEF CallShape
<1>4. /\ since'.held = since.held \cap {q \in Repo \X Place : q[2] \in h[q[1]]}
      /\ since'.paused = since.paused \cap p
      /\ since'.governed = since.governed \cap {r \in Repo : l[r] # "none"}
      /\ since'.broken = since.broken \cap {r \in Repo : l[r] = "broken"}
      /\ since'.slotless = since.slotless \cap ({r \in Repo : l[r] # "none"} \ s)
      /\ ever' = ever \cup {r \in Repo : l[r] # "none"}
  <2>1. /\ gatehook!Facts'.held = {q \in Repo \X Place : q[2] \in h[q[1]]}
        /\ gatehook!Facts'.governed = {r \in Repo : l[r] # "none"}
        /\ gatehook!Facts'.broken = {r \in Repo : l[r] = "broken"}
        /\ gatehook!Facts'.slotless = {r \in Repo : l[r] # "none"} \ s
    BY <1>1 DEF gatehook!Facts, gatehook!Governed
  <2> QED BY <2>1 DEF gatehook!Turn
<1>5. /\ since'.held \subseteq since.held /\ since'.paused \subseteq since.paused
      /\ since'.governed \subseteq since.governed /\ since'.broken \subseteq since.broken
      /\ since'.slotless \subseteq since.slotless /\ ever \subseteq ever'
  BY <1>4
<1>6. Standing'
  <2>1. since'.governed \subseteq Repo /\ since'.held \subseteq Repo \X Place
    BY <1>5 DEF Standing
  <2>2. \A r \in Repo : l[r] # "open" => h[r] = {} /\ r \notin p /\ r \notin s
    BY <1>1 DEF gatehook!Consistent
  <2>3. \A r \in Repo, c \in Place : <<r, c>> \in since'.held => r \in since'.governed /\ c \in h[r]
    <3> SUFFICES ASSUME NEW r \in Repo, NEW c \in Place, <<r, c>> \in since'.held
                 PROVE  r \in since'.governed /\ c \in h[r]
      OBVIOUS
    <3>1. <<r, c>> \in since.held /\ c \in h[r]
      BY <1>4
    <3>2. r \in since.governed
      BY <3>1 DEF Standing
    <3>3. l[r] = "open"
      BY <2>2, <3>1
    <3> QED BY <1>4, <3>1, <3>2, <3>3
  <2>4. \A r \in since'.paused : r \in since'.governed /\ r \in p
    BY <1>4, <2>2 DEF Standing
  <2>5. \A r \in since'.broken : r \in since'.governed /\ l[r] = "broken"
    BY <1>4 DEF Standing
  <2>6. \A r \in since'.slotless : r \in since'.governed /\ r \notin s
    BY <1>4 DEF Standing
  <2>7. (\A r \in since'.governed : l[r] # "none") /\ \A r \in Repo : l[r] # "none" => r \in ever'
    BY <1>4
  <2> QED BY <1>1, <2>1, <2>3, <2>4, <2>5, <2>6, <2>7 DEF Standing
<1>7. Memo'
  BY <1>1, <1>5 DEF Memo
<1>8. gatehook!HomeOpen <=> gatehook!HomeOpen'
  BY <1>1 DEF gatehook!HomeOpen
<1>9. Fresh'
  BY <1>1 DEF Fresh
<1>10. HomeKnown'
  BY <1>1, <1>5, <1>8 DEF HomeKnown
<1>11. Admitted'
  BY <1>1 DEF Admitted
<1>12. \A c : Clear(c) => Clear(c)'
  BY <1>1, <1>5 DEF Clear, gatehook!Asked
<1>13. Answered'
  BY <1>1, <1>5, <1>12 DEF Answered
<1>14. Nesting'
  <2>1. gatehook!AtHome(pc)' => gatehook!AtHome(pc)
    BY <1>1, <1>8 DEF gatehook!AtHome, gatehook!PlaceInRepo
  <2> QED BY <1>1, <1>5, <2>1 DEF Nesting
<1>15. gatehook!VerdictIsALedgers'
  BY <1>1 DEF gatehook!VerdictIsALedgers, gatehook!ReservationsHold, gatehook!OffIsOff, gatehook!Passed
<1> QED BY <1>2, <1>3, <1>6, <1>7, <1>9, <1>10, <1>11, <1>13, <1>14, <1>15

LEMMA OthersKeep ==
  ASSUME GateParts, NEW r \in Repo,
         \/ gatehook!Pauses(r)
         \/ \E c \in Place : gatehook!Claims(r, c)
         \/ \E state \in {"none", "broken", "rootless", "open"} : gatehook!LedgerBecomes(r, state)
  PROVE  GateParts'
<1>1. /\ ledger \in [Repo -> {"none", "broken", "rootless", "open"}] /\ held \in [Repo -> SUBSET Place]
      /\ paused \in SUBSET Repo /\ slot \in SUBSET Repo
  BY DEF GateParts, World
<1>2. CASE gatehook!Pauses(r)
  <2>1. PICK p \in SUBSET Repo : gatehook!Turn(ledger, held, p, slot)
    <3>1. (IF r \in paused THEN paused \ {r} ELSE paused \cup {r}) \in SUBSET Repo
      BY <1>1
    <3> QED BY <1>2, <3>1 DEF gatehook!Pauses
  <2> QED BY <1>1, <2>1, TurnKeeps
<1>3. CASE \E c \in Place : gatehook!Claims(r, c)
  <2>1. PICK c \in Place : gatehook!Claims(r, c)
    BY <1>3
  <2>2. [held EXCEPT ![r] = IF c \in held[r] THEN held[r] \ {c} ELSE held[r] \cup {c}] \in [Repo -> SUBSET Place]
    BY <1>1
  <2>3. PICK h \in [Repo -> SUBSET Place] : gatehook!Turn(ledger, h, paused, slot)
    BY <2>1, <2>2 DEF gatehook!Claims
  <2> QED BY <1>1, <2>3, TurnKeeps
<1>4. CASE \E state \in {"none", "broken", "rootless", "open"} : gatehook!LedgerBecomes(r, state)
  <2>1. PICK state \in {"none", "broken", "rootless", "open"} : gatehook!LedgerBecomes(r, state)
    BY <1>4
  <2>2. /\ [ledger EXCEPT ![r] = state] \in [Repo -> {"none", "broken", "rootless", "open"}]
        /\ [held EXCEPT ![r] = {}] \in [Repo -> SUBSET Place]
        /\ paused \ {r} \in SUBSET Repo /\ slot \ {r} \in SUBSET Repo
    BY <1>1
  <2>3. gatehook!Turn([ledger EXCEPT ![r] = state], [held EXCEPT ![r] = {}], paused \ {r}, slot \ {r})
    BY <2>1 DEF gatehook!LedgerBecomes
  <2> QED BY <2>2, <2>3, TurnKeeps
<1> QED BY <1>2, <1>3, <1>4

GateInv == part = "gate" => GateParts

(* cmdGate: the inductive invariant of the hook that asks the ledgers.     *)
THEOREM GateInvariant == Spec => []GateInv
<1>1. Init => GateInv
  BY GateBegins DEF Init, GateInv
<1>2. GateInv /\ [Next]_vars => GateInv'
  <2> SUFFICES ASSUME GateInv, [Next]_vars, part' = "gate"
               PROVE  GateParts'
    BY DEF GateInv
  <2>1. CASE GateNext
    <3>1. GateParts /\ gatehook!Next
      BY <2>1 DEF GateNext, GateInv
    <3> QED BY <3>1, DecodeKeeps, OpenHomeKeeps, JurisdictionKeeps, GovernedAnyKeeps, BrakeKeeps, GhStackKeeps,
               SlotsKeeps, TargetsKeeps, GateTargetKeeps, GateForeignRepoKeeps, OthersKeep DEF gatehook!Next
  <2>2. CASE UNCHANGED vars
    <3>1. GateParts
      BY <2>2 DEF vars, GateInv
    <3>2. UNCHANGED <<ledger, held, paused, slot, call, pc, todo, home, repos, since, ever>>
      BY <2>2 DEF vars, onlyGate
    <3>3. World' /\ CallShape' /\ Standing' /\ Memo'
      BY <3>1, <3>2 DEF GateParts, World, CallShape, Standing, Memo
    <3>4. gatehook!HomeOpen <=> gatehook!HomeOpen'
      BY <3>2 DEF gatehook!HomeOpen
    <3>5. \A c : Clear(c) => Clear(c)'
      BY <3>2 DEF Clear, gatehook!Asked
    <3>6. Fresh' /\ HomeKnown' /\ Admitted' /\ Answered'
      BY <3>1, <3>2, <3>4, <3>5 DEF GateParts, Fresh, HomeKnown, Admitted, Answered
    <3>7. Nesting'
      BY <3>1, <3>2 DEF GateParts, Nesting, gatehook!AtHome, gatehook!PlaceInRepo, gatehook!HomeOpen
    <3>8. gatehook!VerdictIsALedgers'
      BY <3>1, <3>2 DEF GateParts, gatehook!VerdictIsALedgers, gatehook!ReservationsHold, gatehook!OffIsOff,
                        gatehook!Passed, gatehook!Asked
    <3> QED BY <3>3, <3>6, <3>7, <3>8 DEF GateParts
  <2>3. ~ (BrakeNext \/ SpellingsNext \/ DiscoveryNext)
    BY DEF BrakeNext, SpellingsNext, DiscoveryNext
  <2> QED BY <2>1, <2>2, <2>3 DEF Next
<1> QED BY <1>1, <1>2, PTL DEF Spec

(* cmdGate: a call that passes was refused by no ledger it answers to all  *)
(* along, and one that is refused was refused where a ledger governs.      *)
THEOREM VerdictsAreALedgers == Spec => []VerdictIsALedgers
<1>1. GateInv => VerdictIsALedgers
  BY DEF GateInv, GateParts, VerdictIsALedgers
<1> QED BY <1>1, GateInvariant, PTL

-----------------------------------------------------------------------------
(* Discovery. The directories are a chain of any depth; what governs one   *)
(* of them is read off the greatest of a set of its ancestors.             *)
LEMMA LeastOf == ASSUME NEW T \in SUBSET Nat, T # {} PROVE \E x \in T : \A y \in T : x <= y
<1> DEFINE R == {p \in Nat \X Nat : p[1] < p[2]}
<1>1. IsWellFoundedOn(R, Nat)
  BY NatLessThanWellFounded DEF OpToRel
<1>2. \E x \in T : \A y \in T : ~ (<<y, x>> \in R)
  <2> HIDE DEF R
  <2> QED BY <1>1, WFMin
<1>3. PICK x \in T : \A y \in T : ~ (<<y, x>> \in R)
  BY <1>2
<1>4. \A y \in T : <<y, x>> \in Nat \X Nat /\ <<y, x>>[1] = y /\ <<y, x>>[2] = x
  OBVIOUS
<1>5. \A y \in T : ~ (y < x)
  BY <1>3, <1>4
<1> QED BY <1>5

LEMMA MaxIsOne ==
  ASSUME NEW n \in Nat, NEW S \in SUBSET (0..n), S # {}
  PROVE  discovery!MaxOf(S) \in S /\ \A j \in S : j <= discovery!MaxOf(S)
<1> DEFINE U == {n - x : x \in S}
<1>1. \A x \in S : n - x \in Nat /\ n - x \in U
  OBVIOUS
<1>2. U \in SUBSET Nat /\ U # {}
  <2>1. \A u \in U : u \in Nat
    BY <1>1
  <2> QED BY <1>1, <2>1
<1>3. PICK u \in U : \A y \in U : u <= y
  BY <1>2, LeastOf
<1>4. PICK x \in S : u = n - x
  OBVIOUS
<1>5. \A y \in S : n - x <= n - y
  BY <1>1, <1>3, <1>4
<1>6. \E i \in S : \A j \in S : j <= i
  BY <1>5
<1> QED BY <1>6 DEF discovery!MaxOf

LEMMA MaxIsIt ==
  ASSUME NEW S \in SUBSET Int, NEW m \in S, \A j \in S : j <= m
  PROVE  discovery!MaxOf(S) = m
<1>1. \A i \in S : (\A j \in S : j <= i) => i = m
  OBVIOUS
<1> QED BY <1>1 DEF discovery!MaxOf

Shape(d) == d \in [discovery!Chain -> discovery!Directory] /\ discovery!Consistent(d)

LEMMA DepthIsNat == Depth \in Nat /\ discovery!Chain = 0..Depth /\ Depth \in discovery!Chain /\ 0 \in discovery!Chain
BY DepthGiven DEF discovery!DepthAssumption, discovery!Chain

LEMMA ExistingIs ==
  ASSUME NEW d, Shape(d), NEW i \in discovery!Chain
  PROVE  /\ discovery!Existing(d, i) \in 0..i /\ d[discovery!Existing(d, i)].exists
         /\ \A j \in 0..i : d[j].exists => j <= discovery!Existing(d, i)
<1> DEFINE S == {j \in 0..i : d[j].exists}
<1>1. i \in Nat
  BY DepthIsNat
<1>2. S \in SUBSET (0..i) /\ S # {}
  BY <1>1 DEF Shape, discovery!Consistent
<1>3. discovery!MaxOf(S) \in S /\ \A j \in S : j <= discovery!MaxOf(S)
  <2> HIDE DEF S
  <2> QED BY <1>1, <1>2, MaxIsOne
<1> QED BY <1>3 DEF discovery!Existing

LEMMA EntriesAre ==
  ASSUME NEW d, Shape(d), NEW i \in discovery!Chain
  PROVE  /\ discovery!Entries(d, i) \subseteq 0..i /\ 0..i \subseteq discovery!Chain
         /\ discovery!Entries(d, i) # {} =>
              discovery!MaxOf(discovery!Entries(d, i)) \in discovery!Entries(d, i)
         /\ \A j \in discovery!Entries(d, i) : d[j].git # "none"
<1>1. i \in Nat /\ 0..i \subseteq discovery!Chain /\ discovery!Existing(d, i) \in 0..i
  BY DepthIsNat, ExistingIs
<1>2. discovery!Entries(d, i) \in SUBSET (0..i)
  BY <1>1 DEF discovery!Entries
<1>3. discovery!Entries(d, i) # {} =>
        discovery!MaxOf(discovery!Entries(d, i)) \in discovery!Entries(d, i)
  BY <1>1, <1>2, MaxIsOne
<1> QED BY <1>1, <1>2, <1>3 DEF discovery!Entries

(* A directory that does not exist is governed by its deepest ancestor.    *)
LEMMA GovernsAs ==
  ASSUME NEW d, Shape(d), NEW i \in discovery!Chain, NEW k \in discovery!Chain,
         discovery!Existing(d, i) = discovery!Existing(d, k)
  PROVE  discovery!Governs(d, i) = discovery!Governs(d, k)
BY DEF discovery!Governs, discovery!Entries

(* Two chains that agree as far as a directory that both have.             *)
LEMMA EntriesBelow ==
  ASSUME NEW d, Shape(d), NEW e, Shape(e), NEW i \in discovery!Chain, \A j \in 0..i : d[j] = e[j]
  PROVE  discovery!Entries(d, i) = discovery!Entries(e, i)
<1>1. {j \in 0..i : d[j].exists} = {j \in 0..i : e[j].exists}
  OBVIOUS
<1>2. discovery!Existing(d, i) = discovery!Existing(e, i)
  BY <1>1 DEF discovery!Existing
<1>3. discovery!Existing(d, i) \in 0..i
  BY ExistingIs
<1> QED BY <1>2, <1>3, DepthIsNat DEF discovery!Entries

LEMMA DeepestOfItself ==
  ASSUME NEW d, Shape(d), NEW i \in discovery!Chain
  PROVE  /\ discovery!Existing(d, i) \in discovery!Chain
         /\ discovery!Existing(d, discovery!Existing(d, i)) = discovery!Existing(d, i)
<1>1. PICK m : m = discovery!Existing(d, i)
  OBVIOUS
<1>2. m \in 0..i /\ d[m].exists /\ i \in Nat
  BY <1>1, ExistingIs, DepthIsNat
<1>3. m \in discovery!Chain /\ m \in Nat
  BY <1>2, DepthIsNat
<1>4. m \in {j \in 0..m : d[j].exists} /\ {j \in 0..m : d[j].exists} \in SUBSET Int
      /\ \A j \in {k \in 0..m : d[k].exists} : j <= m
  BY <1>2, <1>3
<1>5. discovery!MaxOf({j \in 0..m : d[j].exists}) = m
  <2> DEFINE S == {j \in 0..m : d[j].exists}
  <2>1. S \in SUBSET Int /\ m \in S /\ \A j \in S : j <= m
    BY <1>4
  <2> HIDE DEF S
  <2>2. discovery!MaxOf(S) = m
    BY <2>1, MaxIsIt
  <2> QED BY <2>2 DEF S
<1> QED BY <1>1, <1>3, <1>5 DEF discovery!Existing

Chained ==
  /\ Shape(dir) /\ away \in {"none"} \cup Redirects
  /\ asked \in discovery!Chain /\ from \in discovery!Chain \cup {-1}
  /\ rest \in {0, 1, 2} /\ result \in {"none", "found", "off", "broken"}
  /\ blind \in BOOLEAN /\ lost \in BOOLEAN

(* The rounds of resolveRepo: of the cwd, of the ancestor it was          *)
(* discovered from when it had vanished, and of a cwd that came back.      *)
Rounds ==
  /\ rest = 1 => asked = from
  /\ rest # 1 => asked = Depth
  /\ rest # 0 => from \in discovery!Chain
  /\ pc = "reread" => rest = 1

(* What governs the directory asked about governs, or did, the cwd; and    *)
(* what was found is one of the chain, or where GIT_DIR leads.             *)
Witnessed ==
  /\ discovery!Governs(dir, Depth) \in seen /\ discovery!Governs(dir, asked) \in seen
  /\ found \in discovery!Chain => dir[found].ledger \in seen

IsFound == found \in discovery!Chain \/ (found = -2 /\ away # "none")

Reasons ==
  /\ pc = "absent" => discovery!Entries(dir, asked) # {} \/ lost
  /\ result = "broken" => ~gitThere \/ blind \/ (lost /\ away = "none") \/ \E x \in seen : x # "absent"
  /\ result = "off" => "absent" \in seen \/ blind
  /\ result = "found" => IsFound
  /\ pc \in {"discovered", "reread"} => result # "none"
  /\ pc = "open" => IsFound

DiscoveryParts == Chained /\ Rounds /\ Witnessed /\ Reasons /\ discovery!VerdictIsProven

Clearly(i) == away = "none" /\ \A j \in 0..i : dir[j].search

LEMMA AllIsVisible ==
  ASSUME Shape(dir), NEW i \in discovery!Chain, Clearly(i)
  PROVE  discovery!VisibleEntries(i) = discovery!Entries(dir, i)
<1>1. \A j \in discovery!Entries(dir, i) : \A k \in 0..j : k \in 0..i
  BY EntriesAre, DepthIsNat
<1> QED BY <1>1 DEF discovery!VisibleEntries, Clearly

(* What the entries at or above a directory say of what governs it.        *)
LEMMA EntriesTell ==
  ASSUME Shape(dir), NEW i \in discovery!Chain, away = "none"
  PROVE  /\ discovery!Entries(dir, i) = {} => discovery!Governs(dir, i) = "absent"
         /\ discovery!Entries(dir, i) # {} =>
              LET m == discovery!MaxOf(discovery!Entries(dir, i))
              IN  /\ m \in discovery!Chain /\ dir[m] \in discovery!Directory
                  /\ discovery!Governs(dir, i) = IF dir[m].git = "unparsable" THEN "unreadable" ELSE dir[m].ledger
<1>1. CASE discovery!Entries(dir, i) = {}
  BY <1>1 DEF discovery!Governs, discovery!None
<1>2. CASE discovery!Entries(dir, i) # {}
  <2>1. PICK m : m = discovery!MaxOf(discovery!Entries(dir, i))
    OBVIOUS
  <2>2. m \in discovery!Chain
    BY <1>2, <2>1, EntriesAre
  <2>3. dir[m] \in discovery!Directory
    BY <2>2 DEF Shape
  <2>4. discovery!Governs(dir, i) = IF dir[m].git = "unparsable" THEN "unreadable" ELSE dir[m].ledger
    BY <1>2, <2>1 DEF discovery!Governs, discovery!None
  <2> QED BY <1>2, <2>1, <2>2, <2>3, <2>4
<1> QED BY <1>1, <1>2

(* git: what its answer says of what governs the directory.                *)
LEMMA GitTells ==
  ASSUME Chained, NEW i \in discovery!Chain, NEW answer \in discovery!Git(i)
  PROVE  /\ answer = "nogit" => ~gitThere
         /\ answer = "notarepo" => discovery!Governs(dir, i) = "absent"
         /\ answer = "repo" => /\ discovery!MaxOf(discovery!Entries(dir, i)) \in discovery!Chain
                               /\ discovery!Governs(dir, i) = dir[discovery!MaxOf(discovery!Entries(dir, i))].ledger
         /\ answer = "away" => away # "none"
<1> DEFINE m == discovery!MaxOf(discovery!Entries(dir, i))
<1>1. CASE answer \in {"killed" : x \in {1} \cap {IF gitThere THEN 1 ELSE 0}}
  BY <1>1
<1>2. CASE answer \notin {"killed" : x \in {1} \cap {IF gitThere THEN 1 ELSE 0}}
  <2>1. CASE ~gitThere
    BY <1>2, <2>1 DEF discovery!Git
  <2>2. CASE gitThere /\ ~discovery!Enters(i)
    BY <1>2, <2>2 DEF discovery!Git
  <2>3. CASE gitThere /\ discovery!Enters(i) /\ away # "none"
    BY <1>2, <2>3 DEF discovery!Git, discovery!None
  <2>4. CASE gitThere /\ discovery!Enters(i) /\ away = "none" /\ discovery!Entries(dir, i) = {}
    <3>1. answer = "notarepo"
      BY <1>2, <2>4 DEF discovery!Git, discovery!None
    <3> QED BY <2>4, <3>1, EntriesTell DEF Chained
  <2>5. CASE gitThere /\ discovery!Enters(i) /\ away = "none" /\ discovery!Entries(dir, i) # {}
    <3>1. /\ m \in discovery!Chain /\ dir[m] \in discovery!Directory
          /\ discovery!Governs(dir, i) = IF dir[m].git = "unparsable" THEN "unreadable" ELSE dir[m].ledger
      BY <2>5, EntriesTell DEF Chained
    <3>2. CASE dir[m].git = "repo"
      <4>1. answer = "repo"
        BY <1>2, <2>5, <3>2 DEF discovery!Git, discovery!None
      <4> QED BY <3>1, <3>2, <4>1
    <3>3. CASE dir[m].git = "stale"
      <4>1. answer = "notarepo"
        BY <1>2, <2>5, <3>3 DEF discovery!Git, discovery!None
      <4>2. dir[m].ledger = "absent"
        BY <3>1, <3>3 DEF discovery!Directory
      <4> QED BY <3>1, <3>3, <4>1, <4>2
    <3>4. CASE dir[m].git \notin {"repo", "stale"}
      <4>1. answer = "fails"
        BY <1>2, <2>5, <3>4 DEF discovery!Git, discovery!None
      <4> QED BY <4>1
    <3> QED BY <3>2, <3>3, <3>4
  <2> QED BY <2>1, <2>2, <2>3, <2>4, <2>5
<1> QED BY <1>1, <1>2

LEMMA DiscoveryBegins ==
  ASSUME discovery!Init
  PROVE  DiscoveryParts
<1>1. Chained
  BY DepthIsNat DEF discovery!Init, Chained, Shape, discovery!None, discovery!Nobody
<1>2. Rounds
  BY DEF discovery!Init, Rounds, discovery!Nobody
<1>3. Witnessed
  <2>1. found = -1 /\ asked = Depth /\ -1 \notin discovery!Chain
    BY DepthIsNat DEF discovery!Init, discovery!Nobody
  <2> QED BY <2>1 DEF discovery!Init, Witnessed
<1>4. Reasons
  BY DEF discovery!Init, Reasons, discovery!None
<1>5. discovery!VerdictIsProven
  BY DEF discovery!Init, discovery!VerdictIsProven, discovery!OffIsProven, discovery!BrokenIsReal
<1> QED BY <1>1, <1>2, <1>3, <1>4, <1>5 DEF DiscoveryParts

(* What git found is what governs the directory asked about, or where      *)
(* GIT_DIR leads.                                                          *)
LEMMA FindsIs ==
  ASSUME Chained, NEW answer \in discovery!Git(asked) \cap {"repo", "away"}
  PROVE  \/ /\ discovery!Finds(asked, answer) \in discovery!Chain
            /\ dir[discovery!Finds(asked, answer)].ledger = discovery!Governs(dir, asked)
         \/ discovery!Finds(asked, answer) = -2 /\ away # "none"
<1>1. CASE answer = "repo"
  <2>1. discovery!Finds(asked, answer) = discovery!MaxOf(discovery!Entries(dir, asked))
    BY <1>1 DEF discovery!Finds
  <2> QED BY <1>1, <2>1, GitTells DEF Chained
<1>2. CASE answer = "away"
  <2>1. discovery!Finds(asked, answer) = -2
    BY <1>2 DEF discovery!Finds, discovery!Outside
  <2> QED BY <1>2, <2>1, GitTells DEF Chained
<1> QED BY <1>1, <1>2

LEMMA CombinedKeeps ==
  ASSUME DiscoveryParts, discovery!CombinedRevParse
  PROVE  DiscoveryParts'
<1> USE DEF DiscoveryParts
<1>1. UNCHANGED <<dir, away, gitThere, changes, seen, blind, lost, asked, from, rest>> /\ pc = "combined"
  BY DEF discovery!CombinedRevParse, discovery!Step, discovery!ghosts
<1>2. \/ pc' = "common" /\ UNCHANGED <<result, found>>
      \/ /\ pc' = "discovered" /\ result' = "found"
         /\ \/ found' \in discovery!Chain /\ dir[found'].ledger = discovery!Governs(dir, asked)
            \/ found' = -2 /\ away # "none"
  <2>1. CASE \E answer \in discovery!Git(asked) \cap {"repo", "away"} :
               result' = "found" /\ found' = discovery!Finds(asked, answer) /\ discovery!Step("discovered")
    <3>1. PICK answer \in discovery!Git(asked) \cap {"repo", "away"} :
                 result' = "found" /\ found' = discovery!Finds(asked, answer) /\ discovery!Step("discovered")
      BY <2>1
    <3> QED BY <3>1, FindsIs DEF discovery!Step
  <2>2. CASE UNCHANGED <<result, found>> /\ discovery!Step("common")
    BY <2>2 DEF discovery!Step
  <2> QED BY <2>1, <2>2 DEF discovery!CombinedRevParse
<1>3. -2 \notin discovery!Chain
  BY DepthIsNat
<1>4. Chained'
  BY <1>1, <1>2 DEF Chained, Shape
<1>5. Rounds'
  BY <1>1, <1>2 DEF Rounds
<1>6. Witnessed'
  BY <1>1, <1>2, <1>3 DEF Witnessed, discovery!Governs
<1>7. Reasons'
  BY <1>1, <1>2 DEF Reasons, IsFound
<1>8. discovery!VerdictIsProven'
  BY <1>2 DEF discovery!VerdictIsProven, discovery!OffIsProven, discovery!BrokenIsReal
<1> QED BY <1>4, <1>5, <1>6, <1>7, <1>8

LEMMA CommonDirKeeps ==
  ASSUME DiscoveryParts, discovery!CommonDirRevParse
  PROVE  DiscoveryParts'
<1> USE DEF DiscoveryParts
<1>1. PICK answer \in discovery!Git(asked) :
       CASE answer \in {"repo", "away"} ->
              result' = "found" /\ found' = discovery!Finds(asked, answer) /\ discovery!Step("discovered")
         [] answer = "nogit" -> result' = "broken" /\ UNCHANGED found /\ discovery!Step("discovered")
         [] answer = "notarepo" -> result' = "off" /\ UNCHANGED found /\ discovery!Step("discovered")
         [] OTHER -> UNCHANGED <<result, found>> /\ discovery!Step("ancestors")
  BY DEF discovery!CommonDirRevParse
<1>2. \/ pc' = "ancestors" /\ UNCHANGED <<result, found>>
      \/ /\ pc' = "discovered" /\ found' = found
         /\ \/ result' = "broken" /\ ~gitThere
            \/ result' = "off" /\ discovery!Governs(dir, asked) = "absent"
      \/ /\ pc' = "discovered" /\ result' = "found"
         /\ \/ found' \in discovery!Chain /\ dir[found'].ledger = discovery!Governs(dir, asked)
            \/ found' = -2 /\ away # "none"
  <2>1. CASE answer \in {"repo", "away"}
    BY <1>1, <2>1, FindsIs DEF discovery!Step
  <2>2. CASE answer = "nogit"
    BY <1>1, <2>2, GitTells DEF discovery!Step, Chained
  <2>3. CASE answer = "notarepo"
    BY <1>1, <2>3, GitTells DEF discovery!Step, Chained
  <2>4. CASE answer \notin {"repo", "away", "nogit", "notarepo"}
    BY <1>1, <2>4 DEF discovery!Step
  <2> QED BY <2>1, <2>2, <2>3, <2>4
<1>3. UNCHANGED <<dir, away, gitThere, changes, seen, blind, lost, asked, from, rest>> /\ pc = "common"
  <2>1. PICK p : discovery!Step(p)
    BY <1>1
  <2> QED BY <2>1 DEF discovery!CommonDirRevParse, discovery!Step, discovery!ghosts
<1>4. -2 \notin discovery!Chain
  BY DepthIsNat
<1>5. Chained'
  BY <1>2, <1>3 DEF Chained, Shape
<1>6. Rounds'
  BY <1>2, <1>3 DEF Rounds
<1>7. Witnessed'
  BY <1>2, <1>3, <1>4 DEF Witnessed, discovery!Governs
<1>8. Reasons'
  BY <1>2, <1>3 DEF Reasons, IsFound, Witnessed
<1>9. discovery!VerdictIsProven'
  BY <1>2 DEF discovery!VerdictIsProven, discovery!OffIsProven, discovery!BrokenIsReal
<1> QED BY <1>5, <1>6, <1>7, <1>8, <1>9

(* A look for entries without git: blind, or at all there are.             *)
LEMMA LookTells ==
  ASSUME Chained, NEW p, discovery!Looks(p)
  PROVE  /\ UNCHANGED <<dir, away, gitThere, changes, seen, lost>> /\ pc' = p
         /\ blind' \in BOOLEAN /\ (blind => blind')
         /\ ~blind' => Clearly(asked)
<1>1. (\E j \in 0..asked : ~dir[j].search) \/ \A j \in 0..asked : dir[j].search
  OBVIOUS
<1> QED BY <1>1 DEF discovery!Looks, discovery!None, Clearly

LEMMA AncestorsKeeps ==
  ASSUME DiscoveryParts, discovery!HasGitAncestor
  PROVE  DiscoveryParts'
<1> USE DEF DiscoveryParts
<1>1. PICK p \in {"discovered", "absent"} :
        /\ discovery!Looks(p)
        /\ p = "discovered" => result' = "off" /\ discovery!VisibleEntries(asked) = {}
        /\ p = "absent" => result' = result /\ discovery!VisibleEntries(asked) # {}
  BY DEF discovery!HasGitAncestor
<1>2. /\ UNCHANGED <<dir, away, gitThere, changes, seen, lost>> /\ pc' = p
      /\ blind' \in BOOLEAN /\ (blind => blind')
      /\ ~blind' => Clearly(asked)
  BY <1>1, LookTells
<1>3. UNCHANGED <<asked, from, rest, found>> /\ pc = "ancestors" /\ asked \in discovery!Chain
  BY DEF discovery!HasGitAncestor, Chained
<1>4. p = "discovered" => "absent" \in seen \/ blind'
  <2> SUFFICES ASSUME p = "discovered", ~blind'
               PROVE  "absent" \in seen
    OBVIOUS
  <2>1. discovery!Entries(dir, asked) = {} /\ away = "none"
    BY <1>1, <1>2, <1>3, AllIsVisible DEF Chained, Clearly
  <2>2. discovery!Governs(dir, asked) = "absent"
    BY <1>3, <2>1, EntriesTell DEF Chained
  <2> QED BY <2>2 DEF Witnessed
<1>5. p = "absent" => discovery!Entries(dir, asked) # {}
  BY <1>1 DEF discovery!VisibleEntries
<1>6. Chained'
  BY <1>1, <1>2, <1>3 DEF Chained, Shape
<1>7. Rounds'
  BY <1>1, <1>2, <1>3 DEF Rounds
<1>8. Witnessed'
  BY <1>2, <1>3 DEF Witnessed, discovery!Governs
<1>9. Reasons'
  BY <1>1, <1>2, <1>3, <1>4, <1>5 DEF Reasons, IsFound
<1>10. discovery!VerdictIsProven'
  BY <1>2 DEF discovery!VerdictIsProven, discovery!OffIsProven, discovery!BrokenIsReal
<1> QED BY <1>6, <1>7, <1>8, <1>9, <1>10

LEMMA AbsentKeeps ==
  ASSUME DiscoveryParts, discovery!LedgerProvablyAbsent
  PROVE  DiscoveryParts'
<1> USE DEF DiscoveryParts
<1>1. /\ pc = "absent" /\ UNCHANGED <<asked, from, rest, found>> /\ asked \in discovery!Chain
      /\ result' = IF discovery!Proven(asked) THEN "off" ELSE "broken"
      /\ discovery!Looks("discovered")
  BY DEF discovery!LedgerProvablyAbsent, Chained
<1>2. /\ UNCHANGED <<dir, away, gitThere, changes, seen, lost>> /\ pc' = "discovered"
      /\ blind' \in BOOLEAN /\ (blind => blind')
      /\ ~blind' => Clearly(asked)
  BY <1>1, LookTells
<1> DEFINE m == discovery!MaxOf(discovery!Entries(dir, asked))
<1>3. ASSUME ~blind', discovery!Entries(dir, asked) # {}
      PROVE  /\ discovery!Proven(asked) <=> dir[m].git # "unparsable" /\ dir[m].ledger = "absent"
             /\ (IF dir[m].git = "unparsable" THEN "unreadable" ELSE dir[m].ledger) \in seen
             /\ away = "none"
  <2>1. discovery!VisibleEntries(asked) = discovery!Entries(dir, asked) /\ away = "none"
    BY <1>1, <1>2, <1>3, AllIsVisible DEF Chained, Clearly
  <2>2. discovery!Governs(dir, asked) = IF dir[m].git = "unparsable" THEN "unreadable" ELSE dir[m].ledger
    BY <1>1, <1>3, <2>1, EntriesTell DEF Chained
  <2>3. discovery!Proven(asked) <=> dir[m].git # "unparsable" /\ dir[m].ledger = "absent"
    BY <1>3, <2>1 DEF discovery!Proven, discovery!CommonDirOf, discovery!None
  <2> QED BY <2>1, <2>2, <2>3 DEF Witnessed
<1>4. ASSUME ~blind', discovery!Entries(dir, asked) = {}
      PROVE  lost /\ ~discovery!Proven(asked) /\ away = "none"
  <2>1. discovery!VisibleEntries(asked) = {} /\ away = "none"
    BY <1>1, <1>2, <1>4, AllIsVisible DEF Chained, Clearly
  <2> QED BY <1>1, <1>4, <2>1 DEF Reasons, discovery!Proven
<1>5. result' = "off" => "absent" \in seen \/ blind'
  BY <1>1, <1>3, <1>4
<1>6. result' = "broken" => blind' \/ (lost /\ away = "none") \/ \E x \in seen : x # "absent"
  BY <1>1, <1>3, <1>4
<1>7. result' \in {"off", "broken"}
  BY <1>1
<1>8. Chained'
  BY <1>1, <1>2, <1>7 DEF Chained, Shape
<1>9. Rounds'
  BY <1>1, <1>2 DEF Rounds
<1>10. Witnessed'
  BY <1>1, <1>2 DEF Witnessed, discovery!Governs
<1>11. Reasons'
  BY <1>2, <1>5, <1>6, <1>7 DEF Reasons
<1>12. discovery!VerdictIsProven'
  BY <1>2 DEF discovery!VerdictIsProven, discovery!OffIsProven, discovery!BrokenIsReal
<1> QED BY <1>8, <1>9, <1>10, <1>11, <1>12

(* An answer is given: what it rests on is why it is true.                 *)
LEMMA AnswerStands ==
  ASSUME DiscoveryParts, result \in {"off", "broken"}, rest = 0 => away # "none" \/ ~discovery!Vanished,
         UNCHANGED <<dir, away, gitThere, changes, seen, blind, lost, asked, from, rest, found, result>>,
         pc' = result
  PROVE  DiscoveryParts'
<1> USE DEF DiscoveryParts
<1>1. Chained'
  BY DEF Chained, Shape
<1>2. Rounds'
  BY DEF Rounds
<1>3. Witnessed'
  BY DEF Witnessed, discovery!Governs
<1>4. Reasons'
  BY DEF Reasons, IsFound
<1>5. result = "off" => "absent" \in seen \/ blind
  BY DEF Reasons
<1>6. result = "broken" =>
        \/ ~gitThere \/ (\E x \in seen : x # "absent") \/ blind
        \/ lost /\ (from = -1 => ~discovery!Vanished)
  <2>1. rest # 0 => from # -1
    BY DepthIsNat DEF Rounds
  <2> QED BY <2>1 DEF Reasons, Chained
<1>7. discovery!Vanished' <=> discovery!Vanished
  BY DEF discovery!Vanished
<1>8. discovery!VerdictIsProven'
  BY <1>5, <1>6, <1>7 DEF discovery!VerdictIsProven, discovery!OffIsProven, discovery!BrokenIsReal, discovery!Nobody
<1> QED BY <1>1, <1>2, <1>3, <1>4, <1>8

LEMMA OpeningStands ==
  ASSUME DiscoveryParts, result = "found",
         UNCHANGED <<dir, away, gitThere, changes, seen, blind, lost, asked, from, rest, found, result>>,
         pc' = "open"
  PROVE  DiscoveryParts'
<1> USE DEF DiscoveryParts
<1>1. Chained' /\ Rounds'
  BY DEF Chained, Shape, Rounds
<1>2. Witnessed'
  BY DEF Witnessed, discovery!Governs
<1>3. Reasons'
  BY DEF Reasons, IsFound
<1>4. discovery!VerdictIsProven'
  BY DEF discovery!VerdictIsProven, discovery!OffIsProven, discovery!BrokenIsReal
<1> QED BY <1>1, <1>2, <1>3, <1>4

(* Another round begins, of the cwd or of what governs it in its stead.    *)
LEMMA RoundBegins ==
  ASSUME DiscoveryParts, NEW i \in discovery!Chain, discovery!Discovers(i), found' = found,
         discovery!Governs(dir, i) = discovery!Governs(dir, Depth),
         from' \in discovery!Chain, rest' \in {1, 2}, rest' = 1 => from' = i, rest' = 2 => i = Depth
  PROVE  DiscoveryParts'
<1> USE DEF DiscoveryParts
<1>1. /\ pc' = "combined" /\ asked' = i /\ result' = "none" /\ blind' = FALSE /\ lost' = FALSE
      /\ UNCHANGED <<dir, away, gitThere, changes, seen>>
  BY DEF discovery!Discovers, discovery!None
<1>2. Chained'
  BY <1>1 DEF Chained, Shape
<1>3. Rounds'
  BY <1>1 DEF Rounds
<1>4. Witnessed'
  BY <1>1 DEF Witnessed, discovery!Governs
<1>5. Reasons'
  BY <1>1 DEF Reasons
<1>6. discovery!VerdictIsProven'
  BY <1>1 DEF discovery!VerdictIsProven, discovery!OffIsProven, discovery!BrokenIsReal
<1> QED BY <1>2, <1>3, <1>4, <1>5, <1>6

LEMMA DiscoveredCwdKeeps ==
  ASSUME DiscoveryParts, discovery!DiscoveredCwd
  PROVE  DiscoveryParts'
<1> USE DEF DiscoveryParts
<1>1. pc = "discovered" /\ rest = 0 /\ found' = found /\ result \in {"found", "off", "broken"}
  BY DEF discovery!DiscoveredCwd, Reasons, Chained
<1>2. CASE /\ from' = discovery!Existing(dir, Depth) /\ rest' = 1
           /\ discovery!Discovers(discovery!Existing(dir, Depth))
  <2>1. PICK i : i = discovery!Existing(dir, Depth)
    OBVIOUS
  <2>2. i \in discovery!Chain /\ discovery!Existing(dir, i) = discovery!Existing(dir, Depth)
    BY <2>1, DeepestOfItself, DepthIsNat DEF Chained
  <2>3. discovery!Governs(dir, i) = discovery!Governs(dir, Depth)
    BY <2>2, GovernsAs, DepthIsNat DEF Chained
  <2> QED BY <1>1, <1>2, <2>1, <2>2, <2>3, RoundBegins
<1>3. CASE /\ result = "found" \/ ~discovery!Vanished \/ discovery!GitDiscoveryEnv
           /\ discovery!Step(IF result = "found" THEN "open" ELSE result) /\ UNCHANGED <<asked, from, rest, result>>
  <2>1. UNCHANGED <<dir, away, gitThere, changes, seen, blind, lost, asked, from, rest, found, result>>
    BY <1>1, <1>3 DEF discovery!Step, discovery!ghosts
  <2>2. CASE result = "found"
    <3>1. pc' = "open"
      BY <1>3, <2>2 DEF discovery!Step
    <3> QED BY <2>1, <2>2, <3>1, OpeningStands
  <2>3. CASE result # "found"
    <3>1. pc' = result /\ (away # "none" \/ ~discovery!Vanished)
      BY <1>3, <2>3 DEF discovery!Step, discovery!GitDiscoveryEnv, discovery!None
    <3> QED BY <1>1, <2>1, <2>3, <3>1, AnswerStands
  <2> QED BY <2>2, <2>3
<1> QED BY <1>2, <1>3 DEF discovery!DiscoveredCwd

LEMMA RereadCwdKeeps ==
  ASSUME DiscoveryParts, discovery!RereadCwd
  PROVE  DiscoveryParts'
<1> USE DEF DiscoveryParts
<1>1. pc = "discovered" /\ rest = 1 /\ from' = from /\ found' = found /\ from \in discovery!Chain
  BY DEF discovery!RereadCwd, Rounds
<1>2. CASE discovery!Vanished
  <2>1. pc' = "reread" /\ UNCHANGED <<asked, rest, result, dir, away, gitThere, changes, seen, blind, lost>>
    BY <1>2 DEF discovery!RereadCwd, discovery!Step, discovery!ghosts
  <2>2. Chained' /\ Rounds'
    BY <1>1, <2>1 DEF Chained, Shape, Rounds
  <2>3. Witnessed'
    BY <1>1, <2>1 DEF Witnessed, discovery!Governs
  <2>4. Reasons'
    BY <1>1, <2>1 DEF Reasons, IsFound
  <2>5. discovery!VerdictIsProven'
    BY <2>1 DEF discovery!VerdictIsProven, discovery!OffIsProven, discovery!BrokenIsReal
  <2> QED BY <2>2, <2>3, <2>4, <2>5
<1>3. CASE ~discovery!Vanished
  <2>1. rest' = 2 /\ discovery!Discovers(Depth)
    BY <1>3 DEF discovery!RereadCwd
  <2> QED BY <1>1, <2>1, DepthIsNat, RoundBegins
<1> QED BY <1>2, <1>3

(* The answer of the last round, whichever it was.                         *)
LEMMA LastRoundKeeps ==
  ASSUME DiscoveryParts, discovery!RereadAncestor \/ discovery!DiscoveredAgain
  PROVE  DiscoveryParts'
<1> USE DEF DiscoveryParts
<1>1. UNCHANGED <<dir, away, gitThere, changes, seen, blind, lost, asked, from, rest, found, result>>
  BY DEF discovery!RereadAncestor, discovery!DiscoveredAgain, discovery!Step, discovery!ghosts
<1>2. rest # 0 /\ from \in discovery!Chain /\ result \in {"found", "off", "broken"}
  BY DEF discovery!RereadAncestor, discovery!DiscoveredAgain, Rounds, Reasons, Chained
<1>3. \/ pc' = "broken" /\ ~dir[from].exists
      \/ pc' = "open" /\ result = "found"
      \/ pc' = result /\ result # "found"
  <2>1. CASE discovery!RereadAncestor
    <3>1. CASE ~dir[from].exists
      BY <2>1, <3>1 DEF discovery!RereadAncestor, discovery!Step
    <3>2. CASE dir[from].exists /\ result = "found"
      BY <2>1, <3>2 DEF discovery!RereadAncestor, discovery!Step
    <3>3. CASE dir[from].exists /\ result # "found"
      BY <2>1, <3>3 DEF discovery!RereadAncestor, discovery!Step
    <3> QED BY <3>1, <3>2, <3>3
  <2>2. CASE discovery!DiscoveredAgain
    BY <2>2 DEF discovery!DiscoveredAgain, discovery!Step
  <2> QED BY <2>1, <2>2
<1>4. CASE pc' = "broken" /\ ~dir[from].exists
  <2>1. Chained' /\ Rounds'
    BY <1>1, <1>4 DEF Chained, Shape, Rounds
  <2>2. Witnessed'
    BY <1>1 DEF Witnessed, discovery!Governs
  <2>3. Reasons'
    BY <1>1, <1>4 DEF Reasons, IsFound
  <2>4. discovery!VerdictIsProven'
    BY <1>1, <1>2, <1>4, DepthIsNat
       DEF discovery!VerdictIsProven, discovery!OffIsProven, discovery!BrokenIsReal, discovery!Nobody
  <2> QED BY <2>1, <2>2, <2>3, <2>4
<1>5. CASE pc' = "open" /\ result = "found"
  BY <1>1, <1>5, OpeningStands
<1>6. CASE pc' = result /\ result # "found"
  BY <1>1, <1>2, <1>6, AnswerStands
<1> QED BY <1>3, <1>4, <1>5, <1>6

LEMMA OpenKeeps ==
  ASSUME DiscoveryParts, discovery!OpenLedgerAt
  PROVE  DiscoveryParts'
<1> USE DEF DiscoveryParts
<1>1. /\ UNCHANGED <<dir, away, gitThere, changes, seen, blind, lost, asked, from, rest, found, result>>
      /\ pc = "open" /\ IsFound
  BY DEF discovery!OpenLedgerAt, discovery!Step, discovery!ghosts, Reasons
<1>2. PICK ledger_ : ledger_ = IF found = -2 THEN away ELSE dir[found].ledger
  OBVIOUS
<1>3. ledger_ \in seen
  <2>1. -2 \notin discovery!Chain
    BY DepthIsNat
  <2>2. away # "none" => discovery!Governs(dir, Depth) = away
    BY DEF discovery!Governs, discovery!None
  <2> QED BY <1>1, <1>2, <2>1, <2>2 DEF IsFound, Witnessed
<1>4. /\ pc' \in {"off", "ready", "broken"}
      /\ pc' = "off" => ledger_ = "absent"
      /\ pc' = "broken" => ledger_ # "absent"
  <2>1. discovery!Step(CASE ledger_ = "absent" -> "off" [] ledger_ = "present" -> "ready" [] OTHER -> "broken")
    BY <1>2 DEF discovery!OpenLedgerAt, discovery!Outside
  <2>2. CASE ledger_ = "absent"
    BY <2>1, <2>2 DEF discovery!Step
  <2>3. CASE ledger_ = "present"
    BY <2>1, <2>3 DEF discovery!Step
  <2>4. CASE ledger_ \notin {"absent", "present"}
    BY <2>1, <2>4 DEF discovery!Step
  <2> QED BY <2>2, <2>3, <2>4
<1>5. Chained' /\ Rounds'
  BY <1>1, <1>4 DEF Chained, Shape, Rounds
<1>6. Witnessed'
  BY <1>1 DEF Witnessed, discovery!Governs
<1>7. Reasons'
  BY <1>1, <1>4 DEF Reasons, IsFound
<1>8. discovery!VerdictIsProven'
  BY <1>1, <1>3, <1>4 DEF discovery!VerdictIsProven, discovery!OffIsProven, discovery!BrokenIsReal
<1> QED BY <1>5, <1>6, <1>7, <1>8

(* One directory changes. An entry at or above the directory asked about   *)
(* is there still, or was lost.                                            *)
LEMMA ChangeKeeps ==
  ASSUME DiscoveryParts, NEW d, d \in [discovery!Chain -> discovery!Directory], discovery!Changes(d),
         lost' \in BOOLEAN, lost => lost',
         pc = "absent" /\ discovery!Entries(dir, asked) # {} => discovery!Entries(d, asked) # {} \/ lost'
  PROVE  DiscoveryParts'
<1> USE DEF DiscoveryParts
<1>1. /\ dir' = d /\ pc \notin {"off", "broken", "ready"}
      /\ UNCHANGED <<away, gitThere, pc, asked, from, rest, found, result, blind>>
  BY DEF discovery!Changes
<1>2. /\ seen \subseteq seen' /\ discovery!Governs(d, Depth) \in seen' /\ discovery!Governs(d, asked) \in seen'
      /\ found \in discovery!Chain => d[found].ledger \in seen'
  BY DEF discovery!Changes
<1>3. Chained'
  BY <1>1 DEF Chained, Shape, discovery!Changes
<1>4. Rounds'
  BY <1>1 DEF Rounds
<1>5. Witnessed'
  BY <1>1, <1>2 DEF Witnessed, discovery!Governs
<1>6. Reasons'
  BY <1>1, <1>2 DEF Reasons, IsFound
<1>7. discovery!VerdictIsProven'
  BY <1>1 DEF discovery!VerdictIsProven, discovery!OffIsProven, discovery!BrokenIsReal
<1> QED BY <1>3, <1>4, <1>5, <1>6, <1>7

LEMMA RemovedKeeps ==
  ASSUME DiscoveryParts, NEW i \in discovery!Chain \ {0}, discovery!Removed(i)
  PROVE  DiscoveryParts'
<1> USE DEF DiscoveryParts
<1>1. PICK d : d = [j \in discovery!Chain |-> IF j >= i THEN discovery!Gone ELSE dir[j]]
  OBVIOUS
<1>2. discovery!Changes(d) /\ lost' = (lost \/ (pc = "absent" /\ i <= asked))
  BY <1>1 DEF discovery!Removed
<1>3. discovery!Gone \in discovery!Directory
  BY DEF discovery!Gone, discovery!Directory, discovery!Kinds, discovery!Ledgers
<1>4. d \in [discovery!Chain -> discovery!Directory]
  BY <1>1, <1>3 DEF Chained, Shape
<1>5. Shape(d) /\ Shape(dir) /\ asked \in discovery!Chain
  BY <1>2, <1>4 DEF discovery!Changes, Shape, Chained
<1>6. lost' \in BOOLEAN /\ (lost => lost')
  BY <1>2 DEF Chained
<1>7. pc = "absent" /\ discovery!Entries(dir, asked) # {} => discovery!Entries(d, asked) # {} \/ lost'
  <2>1. CASE i <= asked
    BY <1>2, <2>1
  <2>2. CASE ~ (i <= asked)
    <3>1. \A j \in 0..asked : d[j] = dir[j]
      BY <1>1, <1>5, <2>2, DepthIsNat
    <3> QED BY <1>5, <3>1, EntriesBelow
  <2> QED BY <2>1, <2>2
<1> QED BY <1>2, <1>4, <1>6, <1>7, ChangeKeeps

LEMMA BecomesKeeps ==
  ASSUME DiscoveryParts, NEW i \in discovery!Chain, NEW new \in discovery!Directory, new.exists,
         discovery!Becomes(i, new)
  PROVE  DiscoveryParts'
<1> USE DEF DiscoveryParts
<1>1. PICK d : d = [dir EXCEPT ![i] = new]
  OBVIOUS
<1>2. (dir[i].git = "none" \/ dir[i].git = new.git) /\ discovery!Changes(d) /\ lost' = lost
  BY <1>1 DEF discovery!Becomes
<1>3. d \in [discovery!Chain -> discovery!Directory] /\ lost \in BOOLEAN
  BY <1>1 DEF Chained, Shape
<1>4. Shape(d) /\ Shape(dir)
  BY <1>2, <1>3 DEF discovery!Changes, Shape, Chained
<1>5. d[i] = new /\ \A j \in discovery!Chain : j # i => d[j] = dir[j]
  BY <1>1 DEF Chained, Shape
<1>6. asked \in discovery!Chain
  BY DEF Chained
<1>7. discovery!Entries(dir, asked) # {} => discovery!Entries(d, asked) # {}
  <2> SUFFICES ASSUME NEW j \in discovery!Entries(dir, asked)
               PROVE  j \in discovery!Entries(d, asked)
    OBVIOUS
  <2>1. PICK m : m = discovery!Existing(dir, asked)
    OBVIOUS
  <2>2. PICK n : n = discovery!Existing(d, asked)
    OBVIOUS
  <2>3. m \in 0..asked /\ dir[m].exists /\ asked \in Nat
    BY <1>4, <1>6, <2>1, ExistingIs, DepthIsNat
  <2>4. n \in 0..asked /\ \A k \in 0..asked : d[k].exists => k <= n
    BY <1>4, <1>6, <2>2, ExistingIs, DepthIsNat
  <2>5. d[m].exists
    BY <1>5, <1>6, <2>3, DepthIsNat
  <2>6. m <= n
    BY <2>3, <2>4, <2>5
  <2>7. j \in 0..m /\ dir[j].git # "none"
    BY <2>1 DEF discovery!Entries
  <2>8. d[j].git # "none"
    BY <1>2, <1>5, <1>6, <2>3, <2>7, DepthIsNat
  <2> QED BY <2>2, <2>3, <2>4, <2>6, <2>7, <2>8 DEF discovery!Entries
<1> QED BY <1>2, <1>3, <1>7, ChangeKeeps

DiscoveryInv == part = "discovery" => DiscoveryParts

(* resolveRepo, discoverRepo: the inductive invariant of the discovery.    *)
THEOREM DiscoveryInvariant == Spec => []DiscoveryInv
<1>1. Init => DiscoveryInv
  BY DiscoveryBegins DEF Init, DiscoveryInv
<1>2. DiscoveryInv /\ [Next]_vars => DiscoveryInv'
  <2> SUFFICES ASSUME DiscoveryInv, [Next]_vars, part' = "discovery"
               PROVE  DiscoveryParts'
    BY DEF DiscoveryInv
  <2>1. CASE DiscoveryNext
    <3>1. DiscoveryParts /\ discovery!Next
      BY <2>1 DEF DiscoveryNext, DiscoveryInv
    <3> QED BY <3>1, CombinedKeeps, CommonDirKeeps, AncestorsKeeps, AbsentKeeps, DiscoveredCwdKeeps, RereadCwdKeeps,
               LastRoundKeeps, OpenKeeps, RemovedKeeps, BecomesKeeps DEF discovery!Next
  <2>2. CASE UNCHANGED vars
    <3>1. DiscoveryParts
      BY <2>2 DEF vars, DiscoveryInv
    <3>2. UNCHANGED <<dir, away, gitThere, changes, pc, asked, from, rest, found, result, seen, blind, lost>>
      BY <2>2 DEF vars, onlyDiscovery
    <3>3. Chained' /\ Rounds' /\ Witnessed' /\ Reasons'
      BY <3>1, <3>2
         DEF DiscoveryParts, Chained, Shape, Rounds, Witnessed, Reasons, IsFound, discovery!Governs
    <3>4. discovery!VerdictIsProven'
      BY <3>1, <3>2 DEF DiscoveryParts, discovery!VerdictIsProven, discovery!OffIsProven, discovery!BrokenIsReal,
                        discovery!Vanished
    <3> QED BY <3>3, <3>4 DEF DiscoveryParts
  <2>3. ~ (GateNext \/ BrakeNext \/ SpellingsNext)
    BY DEF GateNext, BrakeNext, SpellingsNext
  <2> QED BY <2>1, <2>2, <2>3 DEF Next
<1> QED BY <1>1, <1>2, PTL DEF Spec

(* errNoLedger, ledgerProvablyAbsent: off is answered where no ledger      *)
(* governed at some time, and broken where something real stands behind it. *)
THEOREM VerdictsAreProven == Spec => []VerdictIsProven
<1>1. DiscoveryInv => VerdictIsProven
  BY DEF DiscoveryInv, DiscoveryParts, VerdictIsProven
<1> QED BY <1>1, DiscoveryInvariant, PTL

(***************************************************************************)
(* Spellings.  Walks over links are functions defined from themselves.     *)
(* That there is such a function, where every value is made of values of   *)
(* lower ranks, is proved once, for any functions of two ranks; what one   *)
(* is for every argument is then its defining equation.                    *)
(***************************************************************************)
Lower(hi, lo, y, x) == hi[y] < hi[x] \/ (hi[y] = hi[x] /\ lo[y] < lo[x])

LEMMA LowestOf ==
  ASSUME NEW S, NEW hi \in [S -> Nat], NEW lo \in [S -> Nat], NEW T \in SUBSET S, T # {}
  PROVE  \E x \in T : \A y \in T : ~Lower(hi, lo, y, x)
<1> DEFINE H == {hi[x] : x \in T}
<1>1. PICK h \in H : \A k \in H : h <= k
  <2>1. H \in SUBSET Nat /\ H # {}
    OBVIOUS
  <2> HIDE DEF H
  <2> QED BY <2>1, LeastOf
<1> DEFINE L == {lo[x] : x \in {y \in T : hi[y] = h}}
<1>2. PICK l \in L : \A k \in L : l <= k
  <2>1. L \in SUBSET Nat /\ L # {}
    OBVIOUS
  <2> HIDE DEF L
  <2> QED BY <2>1, LeastOf
<1>3. PICK x \in T : hi[x] = h /\ lo[x] = l
  OBVIOUS
<1>4. ASSUME NEW y \in T PROVE ~Lower(hi, lo, y, x)
  <2>1. hi[y] \in H /\ h <= hi[y]
    BY <1>1
  <2>2. hi[y] = h => lo[y] \in L /\ l <= lo[y]
    BY <1>2
  <2>3. hi[y] \in Nat /\ lo[y] \in Nat /\ h \in Nat /\ l \in Nat
    BY <1>3
  <2> HIDE DEF H, L
  <2> QED BY <2>1, <2>2, <2>3, <1>3 DEF Lower
<1> QED BY <1>3, <1>4

(* Where g is made of its own values as F says, at x and below it.         *)
Agreeing(S, F, hi, lo, g, x) ==
  \A y \in S : y = x \/ Lower(hi, lo, y, x) => g[y] = F[y][g]

(* What F makes of a function at x rests on that function below x.         *)
Founded(S, V, F, hi, lo) ==
  \A x \in S : \A g, h \in [S -> V] :
    (\A y \in S : Lower(hi, lo, y, x) => g[y] = h[y]) => F[x][g] = F[x][h]

LEMMA LowerIsTransitive ==
  ASSUME NEW S, NEW hi \in [S -> Nat], NEW lo \in [S -> Nat], NEW x \in S, NEW y \in S, NEW z \in S,
         Lower(hi, lo, z, y), Lower(hi, lo, y, x)
  PROVE  Lower(hi, lo, z, x)
<1>1. hi[x] \in Nat /\ hi[y] \in Nat /\ hi[z] \in Nat /\ lo[x] \in Nat /\ lo[y] \in Nat /\ lo[z] \in Nat
  OBVIOUS
<1> QED BY <1>1 DEF Lower

LEMMA AgreeingIsUnique ==
  ASSUME NEW S, NEW V, NEW hi \in [S -> Nat], NEW lo \in [S -> Nat], NEW F,
         Founded(S, V, F, hi, lo), NEW x \in S, NEW g \in [S -> V], NEW h \in [S -> V],
         Agreeing(S, F, hi, lo, g, x), Agreeing(S, F, hi, lo, h, x)
  PROVE  g[x] = h[x]
<1> DEFINE T == {y \in S : (y = x \/ Lower(hi, lo, y, x)) /\ g[y] # h[y]}
<1>1. SUFFICES ASSUME T # {} PROVE FALSE
  OBVIOUS
<1>2. PICK y \in T : \A z \in T : ~Lower(hi, lo, z, y)
  <2>1. T \in SUBSET S
    OBVIOUS
  <2> HIDE DEF T
  <2> QED BY <1>1, <2>1, LowestOf
<1>3. \A z \in S : Lower(hi, lo, z, y) => g[z] = h[z]
  BY <1>2, LowerIsTransitive
<1>4. F[y][g] = F[y][h]
  BY <1>3 DEF Founded
<1>5. g[y] = F[y][g] /\ h[y] = F[y][h]
  BY DEF Agreeing
<1> QED BY <1>4, <1>5

Ranked(S, hi, lo) == hi \in [S -> Nat] /\ lo \in [S -> Nat]

Defines(S, V, F, hi, lo) ==
  Ranked(S, hi, lo) /\ V # {} /\ F \in [S -> [[S -> V] -> V]] /\ Founded(S, V, F, hi, lo)

LEMMA RecursionTheorem ==
  ASSUME NEW S, NEW V, NEW hi, NEW lo, NEW F, Defines(S, V, F, hi, lo)
  PROVE  \E f \in [S -> V] : \A x \in S : f[x] = F[x][f]
<1> USE DEF Defines, Ranked
<1> DEFINE Good(g, x) == g \in [S -> V] /\ Agreeing(S, F, hi, lo, g, x)
           T == {x \in S : ~\E g \in [S -> V] : Good(g, x)}
           c == [x \in S |-> CHOOSE g \in [S -> V] : Good(g, x)]
<1>1. ASSUME NEW x \in S, \A y \in S : Lower(hi, lo, y, x) => y \notin T
      PROVE  x \notin T
  <2>1. PICK v \in V : TRUE
    OBVIOUS
  <2> DEFINE b == [y \in S |-> IF Lower(hi, lo, y, x) THEN c[y][y] ELSE v]
             g == [b EXCEPT ![x] = F[x][b]]
  <2>2. \A y \in S : Lower(hi, lo, y, x) => Good(c[y], y)
    BY <1>1
  <2>3. b \in [S -> V]
    BY <2>2
  <2>4. F[x][b] \in V
    BY <2>3
  <2>5. g \in [S -> V]
    BY <2>3, <2>4
  <2>6. ~Lower(hi, lo, x, x)
    BY DEF Lower
  <2>7. \A y \in S : Lower(hi, lo, y, x) => g[y] = c[y][y]
    BY <2>6
  <2>8. g[x] = F[x][b]
    BY <2>3
  <2>9. ASSUME NEW y \in S, Lower(hi, lo, y, x), NEW z \in S, Lower(hi, lo, z, y)
        PROVE  Lower(hi, lo, z, x) /\ g[z] = c[y][z]
    <3>1. Lower(hi, lo, z, x)
      BY <2>9, LowerIsTransitive
    <3>2. Good(c[z], z) /\ Good(c[y], y)
      BY <2>2, <2>9, <3>1
    <3>3. Agreeing(S, F, hi, lo, c[y], z)
      BY <2>9, <3>2, LowerIsTransitive DEF Agreeing
    <3>4. c[z] \in [S -> V] /\ c[y] \in [S -> V] /\ Agreeing(S, F, hi, lo, c[z], z)
      BY <3>2
    <3> HIDE DEF c, g, b
    <3>5. c[z][z] = c[y][z]
      BY <3>3, <3>4, AgreeingIsUnique
    <3> QED BY <3>1, <3>5, <2>7
  <2>10. ASSUME NEW y \in S, Lower(hi, lo, y, x) PROVE g[y] = F[y][g]
    <3>1. Good(c[y], y)
      BY <2>2, <2>10
    <3> HIDE DEF c, g, b
    <3>2. c[y][y] = F[y][c[y]]
      BY <3>1 DEF Agreeing
    <3>3. F[y][c[y]] = F[y][g]
      BY <3>1, <2>5, <2>9, <2>10 DEF Founded
    <3> QED BY <3>2, <3>3, <2>7, <2>10
  <2>11. g[x] = F[x][g]
    <3>1. \A y \in S : Lower(hi, lo, y, x) => b[y] = g[y]
      BY <2>7
    <3> HIDE DEF c, g, b
    <3> QED BY <3>1, <2>3, <2>5, <2>8 DEF Founded
  <2>12. Good(g, x)
    <3> HIDE DEF c, g, b
    <3> QED BY <2>5, <2>10, <2>11 DEF Agreeing
  <2> QED BY <2>5, <2>12
<1>2. T = {}
  <2>1. SUFFICES ASSUME T # {} PROVE FALSE
    OBVIOUS
  <2>2. T \in SUBSET S
    OBVIOUS
  <2> HIDE DEF T
  <2>3. PICK x \in T : \A y \in T : ~Lower(hi, lo, y, x)
    BY <2>1, <2>2, LowestOf
  <2> QED BY <1>1, <2>2, <2>3
<1>3. \A x \in S : c[x] \in [S -> V] /\ Agreeing(S, F, hi, lo, c[x], x)
  BY <1>2
<1> DEFINE f == [x \in S |-> c[x][x]]
<1> HIDE DEF c, T
<1>4. f \in [S -> V]
  BY <1>3
<1>5. ASSUME NEW x \in S PROVE f[x] = F[x][f]
  <2>1. ASSUME NEW y \in S, Lower(hi, lo, y, x) PROVE c[x][y] = f[y]
    <3>1. Agreeing(S, F, hi, lo, c[x], y)
      BY <1>3, <2>1, LowerIsTransitive DEF Agreeing
    <3>2. c[x][y] = c[y][y]
      BY <3>1, <1>3, AgreeingIsUnique
    <3> QED BY <3>2
  <2>2. f[x] = F[x][c[x]]
    BY <1>3 DEF Agreeing
  <2> HIDE DEF f
  <2>3. F[x][c[x]] = F[x][f]
    BY <2>1, <1>3, <1>4 DEF Founded
  <2> QED BY <2>2, <2>3
<1> QED BY <1>4, <1>5

Trails == Seq(spellings!Step)

LEMMA FrontIs ==
  ASSUME NEW X, NEW p \in Seq(X), p # <<>>
  PROVE  /\ spellings!Front(p) \in Seq(X) /\ Len(spellings!Front(p)) = Len(p) - 1
         /\ \A i \in 1..(Len(p) - 1) : spellings!Front(p)[i] = p[i]
         /\ spellings!Last(p) \in X /\ spellings!Last(p) = p[Len(p)] /\ Len(p) \in Nat \ {0}
         /\ p = Append(spellings!Front(p), spellings!Last(p))
         /\ spellings!Up(p) = spellings!Front(p)
<1>1. Len(p) \in Nat \ {0} /\ DOMAIN p = 1..Len(p)
  OBVIOUS
<1>2. p = [i \in 1..Len(p) |-> p[i]] /\ \A i \in 1..Len(p) : p[i] \in X
  BY <1>1
<1>3. spellings!Front(p) = [i \in 1..(Len(p) - 1) |-> p[i]]
  BY <1>1 DEF spellings!Front
<1>4. spellings!Front(p) \in Seq(X)
  BY <1>1, <1>2, <1>3
<1>5. Len(spellings!Front(p)) = Len(p) - 1
  BY <1>1, <1>3
<1>6. p = Append(spellings!Front(p), spellings!Last(p))
  BY <1>1, <1>2, <1>3, <1>4, <1>5 DEF spellings!Last
<1> QED BY <1>1, <1>2, <1>3, <1>4, <1>5, <1>6 DEF spellings!Last, spellings!Up

(* A value is in V if those below are.                                     *)
Inherited(S, V, f, hi, lo) ==
  \A x \in S : (\A y \in S : Lower(hi, lo, y, x) => f[y] \in V) => f[x] \in V

LEMMA ValuesAreOf ==
  ASSUME NEW S, NEW V, NEW hi, NEW lo, NEW f, Ranked(S, hi, lo), Inherited(S, V, f, hi, lo)
  PROVE  \A x \in S : f[x] \in V
<1> DEFINE T == {x \in S : f[x] \notin V}
<1>1. SUFFICES ASSUME T # {} PROVE FALSE
  OBVIOUS
<1>2. PICK x \in T : \A y \in T : ~Lower(hi, lo, y, x)
  <2>1. T \in SUBSET S
    OBVIOUS
  <2> HIDE DEF T
  <2> QED BY <1>1, <2>1, LowestOf DEF Ranked
<1> QED BY <1>2 DEF Inherited

LEMMA FrontsOfTrails ==
  ASSUME NEW p \in Trails, p # <<>>
  PROVE  /\ spellings!Front(p) \in Trails /\ spellings!Last(p) \in spellings!Step
         /\ Len(spellings!Front(p)) < Len(p) /\ Len(p) \in Nat
<1>1. p \in Seq(spellings!Step)
  BY DEF Trails
<1> HIDE DEF Trails
<1>2. spellings!Front(p) \in Seq(spellings!Step) /\ spellings!Last(p) \in spellings!Step
      /\ Len(spellings!Front(p)) = Len(p) - 1 /\ Len(p) \in Nat \ {0}
  BY <1>1, FrontIs
<1> QED BY <1>2 DEF Trails

Even == [p \in Trails |-> 0]
Lengths == [p \in Trails |-> Len(p)]

LEMMA TrailsAreRanked ==
  /\ Ranked(Trails, Even, Lengths)
  /\ \A p, q \in Trails : Len(q) < Len(p) => Lower(Even, Lengths, q, p)
<1>1. \A p \in Trails : Len(p) \in Nat
  BY DEF Trails
<1> QED BY <1>1 DEF Ranked, Even, Lengths, Lower

LEMMA CleanIs ==
  /\ spellings!Clean \in [Trails -> Trails]
  /\ \A p \in Trails : spellings!Clean[p] =
       CASE p = <<>> -> <<>>
         [] p # <<>> /\ spellings!Last(p) = ".." -> spellings!Up(spellings!Clean[spellings!Front(p)])
         [] OTHER -> Append(spellings!Clean[spellings!Front(p)], spellings!Last(p))
<1> DEFINE Body(g, p) ==
             CASE p = <<>> -> <<>>
               [] p # <<>> /\ spellings!Last(p) = ".." -> spellings!Up(g[spellings!Front(p)])
               [] OTHER -> Append(g[spellings!Front(p)], spellings!Last(p))
           F == [p \in Trails |-> [g \in [Trails -> Trails] |-> Body(g, p)]]
<1>2. ASSUME NEW p \in Trails, p # <<>>
      PROVE  spellings!Front(p) \in Trails /\ spellings!Last(p) \in spellings!Step
             /\ Lower(Even, Lengths, spellings!Front(p), p)
  BY <1>2, FrontsOfTrails, TrailsAreRanked
<1>3. \A q \in Trails : spellings!Up(q) \in Trails
  BY FrontsOfTrails DEF spellings!Up
<1>4. <<>> \in Trails /\ \A q \in Trails : \A s \in spellings!Step : Append(q, s) \in Trails
  BY DEF Trails
<1>5. ASSUME NEW p \in Trails, NEW g, \A q \in Trails : Lower(Even, Lengths, q, p) => g[q] \in Trails
      PROVE  Body(g, p) \in Trails
  BY <1>2, <1>3, <1>4, <1>5
<1>6. F \in [Trails -> [[Trails -> Trails] -> Trails]]
  <2> HIDE DEF Body
  <2> QED BY <1>5
<1>7. Founded(Trails, Trails, F, Even, Lengths)
  <2>1. ASSUME NEW p \in Trails, NEW g \in [Trails -> Trails], NEW h \in [Trails -> Trails],
               \A q \in Trails : Lower(Even, Lengths, q, p) => g[q] = h[q]
        PROVE  Body(g, p) = Body(h, p)
    BY <1>2, <2>1
  <2> HIDE DEF Body
  <2> QED BY <2>1 DEF Founded
<1>8. \E f \in [Trails -> Trails] : \A p \in Trails : f[p] = F[p][f]
  <2>1. Trails # {}
    BY <1>4
  <2> HIDE DEF F
  <2>2. Defines(Trails, Trails, F, Even, Lengths)
    BY <2>1, <1>6, <1>7, TrailsAreRanked DEF Defines
  <2> QED BY <2>2, RecursionTheorem
<1>9. PICK f \in [Trails -> Trails] : \A p \in Trails : f[p] = Body(f, p)
  <2> HIDE DEF Body
  <2> QED BY <1>8
<1>10. f = [p \in Trails |-> Body(f, p)]
  <2> HIDE DEF Body
  <2> QED BY <1>9
<1>11. spellings!Clean = [p \in Trails |-> Body(spellings!Clean, p)]
  BY <1>10 DEF spellings!Clean, Trails
<1>12. \A p \in Trails : spellings!Clean[p] = Body(spellings!Clean, p)
  <2> HIDE DEF Body
  <2> QED BY <1>11
<1>13. \A p \in Trails : spellings!Clean[p] \in Trails
  <2>1. ASSUME NEW p \in Trails, \A q \in Trails : Lower(Even, Lengths, q, p) => spellings!Clean[q] \in Trails
        PROVE  spellings!Clean[p] \in Trails
    <3> HIDE DEF Body
    <3> QED BY <2>1, <1>5, <1>12
  <2>2. Ranked(Trails, Even, Lengths) /\ Inherited(Trails, Trails, spellings!Clean, Even, Lengths)
    BY <2>1, TrailsAreRanked DEF Inherited
  <2> QED BY <2>2, ValuesAreOf
<1>14. spellings!Clean \in [Trails -> Trails]
  <2> HIDE DEF Body
  <2> QED BY <1>11, <1>13
<1> QED BY <1>12, <1>14

-----------------------------------------------------------------------------
(* Walks: where they stand, what is left of the path, the links so far.    *)
Ends == {"ok", "missing", "error"} \X Trails
LinksLeft == [w \in spellings!Walks |-> MaxLinks - w[3]]
StepsLeft == [w \in spellings!Walks |-> Len(w[2])]

FsOk == fs \in [Entry -> spellings!Thing]

LEMMA StepsAre ==
  /\ Names \subseteq spellings!Step /\ ".." \in spellings!Step /\ "/" \in spellings!Step
  /\ ".." \notin Names /\ "/" \notin Names
  /\ MaxLinks \in Nat /\ spellings!Links = 0..MaxLinks
  /\ LinkTarget \subseteq Trails
  /\ <<>> \in Trails /\ \A p \in Trails : \A s \in spellings!Step : Append(p, s) \in Trails
  /\ \A p, q \in Trails : p \o q \in Trails
<1>1. spellings!Step = Names \cup {"..", "/"}
  BY DEF spellings!Step
<1> QED BY <1>1, PathsGiven DEF spellings!PathsAssumption, Trails, spellings!Links

LEMMA ThingsAre ==
  ASSUME FsOk, NEW p
  PROVE  /\ spellings!At(p).kind \in {"absent", "file", "dir", "link"}
         /\ spellings!At(p).kind = "absent" <=> spellings!At(p) = spellings!Absent
         /\ spellings!At(p).kind = "link" => spellings!At(p).to \in Trails
<1>1. spellings!At(p) \in spellings!Thing
  <2>1. spellings!Root \in spellings!Thing /\ spellings!Absent \in spellings!Thing
    BY DEF spellings!Root, spellings!Absent, spellings!Thing
  <2> QED BY <2>1 DEF FsOk, spellings!At
<1> QED BY <1>1, StepsAre DEF spellings!Thing, spellings!Absent

LEMMA WalksAreRanked ==
  /\ Ranked(spellings!Walks, LinksLeft, StepsLeft)
  /\ \A at, rs \in Trails : \A l \in spellings!Links :
       /\ <<at, rs, l>> \in spellings!Walks
       /\ rs # <<>> => Head(rs) \in spellings!Step /\ Tail(rs) \in Trails /\ \A x \in Trails :
            <<x, Tail(rs), l>> \in spellings!Walks /\ Lower(LinksLeft, StepsLeft, <<x, Tail(rs), l>>, <<at, rs, l>>)
       /\ l # MaxLinks => l + 1 \in spellings!Links /\ \A x, y \in Trails :
            <<x, y, l + 1>> \in spellings!Walks /\ Lower(LinksLeft, StepsLeft, <<x, y, l + 1>>, <<at, rs, l>>)
<1>1. LinksLeft \in [spellings!Walks -> Nat] /\ StepsLeft \in [spellings!Walks -> Nat]
  <2>1. \A w \in spellings!Walks : w[3] \in 0..MaxLinks /\ w[2] \in Trails
    BY StepsAre DEF spellings!Walks, Trails
  <2>2. \A t \in Trails : Len(t) \in Nat
    BY DEF Trails
  <2>3. \A w \in spellings!Walks : MaxLinks - w[3] \in Nat
    BY <2>1, StepsAre
  <2>4. \A w \in spellings!Walks : Len(w[2]) \in Nat
    BY <2>1, <2>2
  <2> QED BY <2>3, <2>4 DEF LinksLeft, StepsLeft
<1>2. \A at, rs \in Trails : \A l \in spellings!Links :
        <<at, rs, l>> \in spellings!Walks /\ LinksLeft[<<at, rs, l>>] = MaxLinks - l /\ StepsLeft[<<at, rs, l>>] = Len(rs)
  BY DEF spellings!Walks, Trails, LinksLeft, StepsLeft
<1>3. ASSUME NEW at \in Trails, NEW rs \in Trails, NEW l \in spellings!Links, rs # <<>>, NEW x \in Trails
      PROVE  /\ Head(rs) \in spellings!Step /\ Tail(rs) \in Trails /\ <<x, Tail(rs), l>> \in spellings!Walks
             /\ Lower(LinksLeft, StepsLeft, <<x, Tail(rs), l>>, <<at, rs, l>>)
  <2>1. Head(rs) \in spellings!Step /\ Tail(rs) \in Trails /\ Len(Tail(rs)) < Len(rs)
    BY <1>3 DEF Trails
  <2>2. LinksLeft[<<x, Tail(rs), l>>] = LinksLeft[<<at, rs, l>>] /\ StepsLeft[<<x, Tail(rs), l>>] < StepsLeft[<<at, rs, l>>]
    BY <2>1, <1>2
  <2> QED BY <2>1, <2>2, <1>2 DEF Lower
<1>4. ASSUME NEW at \in Trails, NEW rs \in Trails, NEW l \in spellings!Links, l # MaxLinks, NEW x \in Trails, NEW y \in Trails
      PROVE  /\ l + 1 \in spellings!Links /\ <<x, y, l + 1>> \in spellings!Walks
             /\ Lower(LinksLeft, StepsLeft, <<x, y, l + 1>>, <<at, rs, l>>)
  <2>1. l + 1 \in spellings!Links /\ MaxLinks - (l + 1) < MaxLinks - l
    BY <1>4, StepsAre
  <2>2. /\ <<x, y, l + 1>> \in spellings!Walks
        /\ LinksLeft[<<x, y, l + 1>>] = MaxLinks - (l + 1) /\ LinksLeft[<<at, rs, l>>] = MaxLinks - l
    <3>1. \A j \in spellings!Links : <<x, y, j>> \in spellings!Walks /\ LinksLeft[<<x, y, j>>] = MaxLinks - j
      BY <1>2
    <3> QED BY <1>2, <2>1, <3>1
  <2> QED BY <2>1, <2>2 DEF Lower
<1>5. ASSUME NEW at \in Trails, NEW rs \in Trails, NEW l \in spellings!Links
      PROVE  /\ <<at, rs, l>> \in spellings!Walks
             /\ rs # <<>> => Head(rs) \in spellings!Step /\ Tail(rs) \in Trails /\ \A x \in Trails :
                  <<x, Tail(rs), l>> \in spellings!Walks /\ Lower(LinksLeft, StepsLeft, <<x, Tail(rs), l>>, <<at, rs, l>>)
             /\ l # MaxLinks => l + 1 \in spellings!Links /\ \A x, y \in Trails :
                  <<x, y, l + 1>> \in spellings!Walks /\ Lower(LinksLeft, StepsLeft, <<x, y, l + 1>>, <<at, rs, l>>)
  <2>1. <<at, rs, l>> \in spellings!Walks
    BY <1>2
  <2>2. rs # <<>> => Head(rs) \in spellings!Step /\ Tail(rs) \in Trails /\ \A x \in Trails :
          <<x, Tail(rs), l>> \in spellings!Walks /\ Lower(LinksLeft, StepsLeft, <<x, Tail(rs), l>>, <<at, rs, l>>)
    BY <1>3
  <2>3. l # MaxLinks => l + 1 \in spellings!Links /\ \A x, y \in Trails :
          <<x, y, l + 1>> \in spellings!Walks /\ Lower(LinksLeft, StepsLeft, <<x, y, l + 1>>, <<at, rs, l>>)
    BY <1>4
  <2> QED BY <2>1, <2>2, <2>3
<1> QED BY <1>1, <1>5 DEF Ranked

WalkOf(g, at, rs, l) ==
  CASE rs = <<>> -> <<"ok", at>>
    [] rs # <<>> /\ Head(rs) = "/" -> g[<<<<>>, Tail(rs), l>>]
    [] rs # <<>> /\ Head(rs) # "/" /\ spellings!At(at).kind # "dir" -> spellings!Error
    [] rs # <<>> /\ spellings!At(at).kind = "dir" /\ Head(rs) = ".." -> g[<<spellings!Up(at), Tail(rs), l>>]
    [] OTHER ->
         LET next == Append(at, Head(rs)) IN
         CASE spellings!At(next) = spellings!Absent -> spellings!Missing
           [] spellings!At(next).kind = "link" ->
                IF l = MaxLinks THEN spellings!Error ELSE g[<<at, spellings!At(next).to \o Tail(rs), l + 1>>]
           [] OTHER -> g[<<next, Tail(rs), l>>]

LEMMA WalkIs ==
  ASSUME FsOk
  PROVE  \A at, rs \in Trails : \A l \in spellings!Links :
           /\ spellings!Walk[<<at, rs, l>>] \in Ends
           /\ spellings!Walk[<<at, rs, l>>] = WalkOf(spellings!Walk, at, rs, l)
<1> DEFINE Body(g, w) == WalkOf(g, w[1], w[2], w[3])
           F == [w \in spellings!Walks |-> [g \in [spellings!Walks -> Ends] |-> Body(g, w)]]
<1>1. <<"ok", <<>>>> \in Ends /\ spellings!Error \in Ends /\ spellings!Missing \in Ends
      /\ \A t \in Trails : <<"ok", t>> \in Ends
  BY StepsAre DEF Ends, spellings!Error, spellings!Missing
<1>2. \A q \in Trails : spellings!Up(q) \in Trails
  BY FrontsOfTrails DEF spellings!Up
<1>3. ASSUME NEW at \in Trails, NEW rs \in Trails, NEW l \in spellings!Links, NEW g,
             \A v \in spellings!Walks : Lower(LinksLeft, StepsLeft, v, <<at, rs, l>>) => g[v] \in Ends
      PROVE  WalkOf(g, at, rs, l) \in Ends
  <2>1. CASE rs = <<>>
    BY <2>1, <1>1 DEF WalkOf
  <2>2. CASE rs # <<>>
    <3>1. Append(at, Head(rs)) \in Trails /\ Tail(rs) \in Trails
      BY <2>2, WalksAreRanked, StepsAre
    <3>2. \A x \in Trails : g[<<x, Tail(rs), l>>] \in Ends
      BY <2>2, <1>3, WalksAreRanked
    <3>3. l # MaxLinks => \A x, y \in Trails : g[<<x, y, l + 1>>] \in Ends
      BY <1>3, WalksAreRanked
    <3>4. spellings!At(Append(at, Head(rs))).kind = "link" => spellings!At(Append(at, Head(rs))).to \o Tail(rs) \in Trails
      BY <3>1, ThingsAre, StepsAre
    <3> QED BY <2>2, <3>1, <3>2, <3>3, <3>4, <1>1, <1>2, StepsAre DEF WalkOf
  <2> QED BY <2>1, <2>2
<1>4. \A w \in spellings!Walks : w[1] \in Trails /\ w[2] \in Trails /\ w[3] \in spellings!Links /\ w = <<w[1], w[2], w[3]>>
  BY DEF spellings!Walks, Trails
<1>5. ASSUME NEW w \in spellings!Walks, NEW g, \A v \in spellings!Walks : Lower(LinksLeft, StepsLeft, v, w) => g[v] \in Ends
      PROVE  Body(g, w) \in Ends
  BY <1>3, <1>4, <1>5
<1>6. F \in [spellings!Walks -> [[spellings!Walks -> Ends] -> Ends]]
  <2> HIDE DEF Body
  <2> QED BY <1>5
<1>7. ASSUME NEW at \in Trails, NEW rs \in Trails, NEW l \in spellings!Links, NEW g, NEW h,
             \A v \in spellings!Walks : Lower(LinksLeft, StepsLeft, v, <<at, rs, l>>) => g[v] = h[v]
      PROVE  WalkOf(g, at, rs, l) = WalkOf(h, at, rs, l)
  <2>1. CASE rs = <<>>
    BY <2>1 DEF WalkOf
  <2>2. CASE rs # <<>>
    <3>1. Append(at, Head(rs)) \in Trails /\ Tail(rs) \in Trails
      BY <2>2, WalksAreRanked, StepsAre
    <3>2. \A x \in Trails : g[<<x, Tail(rs), l>>] = h[<<x, Tail(rs), l>>]
      BY <2>2, <1>7, WalksAreRanked
    <3>3. l # MaxLinks => \A x, y \in Trails : g[<<x, y, l + 1>>] = h[<<x, y, l + 1>>]
      BY <1>7, WalksAreRanked
    <3>4. spellings!At(Append(at, Head(rs))).kind = "link" => spellings!At(Append(at, Head(rs))).to \o Tail(rs) \in Trails
      BY <3>1, ThingsAre, StepsAre
    <3> QED BY <2>2, <3>1, <3>2, <3>3, <3>4, <1>2, StepsAre DEF WalkOf
  <2> QED BY <2>1, <2>2
<1>8. Founded(spellings!Walks, Ends, F, LinksLeft, StepsLeft)
  <2>1. ASSUME NEW w \in spellings!Walks, NEW g \in [spellings!Walks -> Ends], NEW h \in [spellings!Walks -> Ends],
               \A v \in spellings!Walks : Lower(LinksLeft, StepsLeft, v, w) => g[v] = h[v]
        PROVE  Body(g, w) = Body(h, w)
    BY <1>4, <1>7, <2>1
  <2> HIDE DEF Body
  <2> QED BY <2>1 DEF Founded
<1>9. PICK f \in [spellings!Walks -> Ends] : \A w \in spellings!Walks : f[w] = Body(f, w)
  <2> HIDE DEF Body
  <2>1. Defines(spellings!Walks, Ends, F, LinksLeft, StepsLeft)
    <3> HIDE DEF F
    <3> QED BY <1>1, <1>6, <1>8, WalksAreRanked DEF Defines
  <2>2. \E f \in [spellings!Walks -> Ends] : \A w \in spellings!Walks : f[w] = F[w][f]
    <3> HIDE DEF F
    <3> QED BY <2>1, RecursionTheorem
  <2> QED BY <2>2
<1>10. f = [w \in spellings!Walks |-> Body(f, w)]
  <2> HIDE DEF Body
  <2> QED BY <1>9
<1>11. spellings!Walk = [w \in spellings!Walks |-> Body(spellings!Walk, w)]
  BY <1>10 DEF spellings!Walk, WalkOf
<1>12. \A w \in spellings!Walks : spellings!Walk[w] = Body(spellings!Walk, w)
  <2> HIDE DEF Body
  <2> QED BY <1>11
<1>13. \A at, rs \in Trails : \A l \in spellings!Links : spellings!Walk[<<at, rs, l>>] = WalkOf(spellings!Walk, at, rs, l)
  <2>1. ASSUME NEW at \in Trails, NEW rs \in Trails, NEW l \in spellings!Links
        PROVE  spellings!Walk[<<at, rs, l>>] = WalkOf(spellings!Walk, at, rs, l)
    <3>1. <<at, rs, l>> \in spellings!Walks
      BY WalksAreRanked
    <3> QED BY <3>1, <1>12
  <2> QED BY <2>1
<1>14. \A w \in spellings!Walks : spellings!Walk[w] \in Ends
  <2> HIDE DEF Body
  <2>1. Inherited(spellings!Walks, Ends, spellings!Walk, LinksLeft, StepsLeft)
    BY <1>5, <1>12 DEF Inherited
  <2> QED BY <2>1, WalksAreRanked, ValuesAreOf
<1> QED BY <1>13, <1>14, WalksAreRanked

LEMMA EvalIs ==
  ASSUME FsOk, NEW p \in Trails
  PROVE  /\ spellings!EvalSymlinks(p) \in Ends /\ spellings!EvalSymlinks(p)[2] \in Trails
         /\ spellings!EvalSymlinks(p) = spellings!Walk[<<<<>>, p, 0>>]
<1>1. 0 \in spellings!Links /\ <<>> \in Trails
  BY StepsAre
<1>2. \A v \in Ends : v[2] \in Trails
  BY DEF Ends
<1> QED BY <1>1, <1>2, WalkIs DEF spellings!EvalSymlinks

LEMMA CleanIsShorter == \A p \in Trails : Len(spellings!Clean[p]) <= Len(p)
<1> DEFINE T == {p \in Trails : ~(Len(spellings!Clean[p]) <= Len(p))}
<1>1. SUFFICES ASSUME T # {} PROVE FALSE
  OBVIOUS
<1>2. PICK p \in T : \A q \in T : ~Lower(Even, Lengths, q, p)
  <2>1. T \in SUBSET Trails
    OBVIOUS
  <2>2. Even \in [Trails -> Nat] /\ Lengths \in [Trails -> Nat]
    BY TrailsAreRanked DEF Ranked
  <2> HIDE DEF T
  <2> QED BY <1>1, <2>1, <2>2, LowestOf
<1>3. p # <<>>
  BY CleanIs
<1>4. \A q \in Trails : Len(q) \in Nat /\ Len(spellings!Up(q)) <= Len(q) /\ \A s : Len(Append(q, s)) = Len(q) + 1
  <2>1. ASSUME NEW q \in Trails PROVE Len(q) \in Nat /\ \A s : Len(Append(q, s)) = Len(q) + 1
    BY DEF Trails
  <2>2. ASSUME NEW q \in Trails PROVE Len(spellings!Up(q)) <= Len(q)
    BY <2>1, FrontsOfTrails DEF spellings!Up
  <2> QED BY <2>1, <2>2
<1>5. spellings!Front(p) \in Trails /\ Len(spellings!Front(p)) < Len(p)
  BY <1>3, FrontsOfTrails
<1>6. Len(spellings!Clean[spellings!Front(p)]) <= Len(spellings!Front(p))
  BY <1>2, <1>5, TrailsAreRanked
<1>7. spellings!Clean[spellings!Front(p)] \in Trails
  BY <1>5, CleanIs
<1>8. Len(spellings!Clean[p]) <= Len(spellings!Clean[spellings!Front(p)]) + 1
  <2>1. CASE spellings!Last(p) = ".."
    BY <2>1, <1>3, <1>4, <1>7, CleanIs
  <2>2. CASE spellings!Last(p) # ".."
    BY <2>2, <1>3, <1>4, <1>7, CleanIs
  <2> QED BY <2>1, <2>2
<1>9. Len(spellings!Clean[p]) \in Nat
  BY <1>4, CleanIs
<1> QED BY <1>4, <1>5, <1>6, <1>7, <1>8, <1>9

CanonOf(g, p) ==
  IF spellings!Succeeds(spellings!EvalSymlinks(p)) THEN spellings!EvalSymlinks(p)[2]
  ELSE LET c == spellings!Clean[p] IN
       IF c = <<>> THEN c ELSE Append(g[spellings!Front(c)], spellings!Last(c))

LEMMA CanonIs ==
  ASSUME FsOk
  PROVE  \A p \in Trails : spellings!Canon[p] \in Trails /\ spellings!Canon[p] = CanonOf(spellings!Canon, p)
<1> DEFINE F == [p \in Trails |-> [g \in [Trails -> Trails] |-> CanonOf(g, p)]]
<1>1. ASSUME NEW p \in Trails, spellings!Clean[p] # <<>>
      PROVE  LET c == spellings!Clean[p] IN
             /\ spellings!Front(c) \in Trails /\ spellings!Last(c) \in spellings!Step
             /\ Lower(Even, Lengths, spellings!Front(c), p)
  <2> DEFINE c == spellings!Clean[p]
  <2>1. c \in Trails /\ Len(c) <= Len(p) /\ c # <<>> /\ Len(p) \in Nat
    BY <1>1, CleanIs, CleanIsShorter DEF Trails
  <2> HIDE DEF c
  <2>2. /\ spellings!Front(c) \in Trails /\ spellings!Last(c) \in spellings!Step
        /\ Len(spellings!Front(c)) < Len(p)
    <3>1. Len(spellings!Front(c)) \in Nat
      BY <2>1, FrontsOfTrails DEF Trails
    <3> QED BY <2>1, <3>1, FrontsOfTrails
  <2>3. Lower(Even, Lengths, spellings!Front(c), p)
    BY <2>2, TrailsAreRanked
  <2> QED BY <2>2, <2>3 DEF c
<1>2. ASSUME NEW p \in Trails, NEW g, \A q \in Trails : Lower(Even, Lengths, q, p) => g[q] \in Trails
      PROVE  CanonOf(g, p) \in Trails
  BY <1>1, <1>2, EvalIs, StepsAre DEF CanonOf
<1>3. ASSUME NEW p \in Trails, NEW g, NEW h, \A q \in Trails : Lower(Even, Lengths, q, p) => g[q] = h[q]
      PROVE  CanonOf(g, p) = CanonOf(h, p)
  BY <1>1, <1>3 DEF CanonOf
<1>4. Defines(Trails, Trails, F, Even, Lengths)
  <2>1. F \in [Trails -> [[Trails -> Trails] -> Trails]]
    BY <1>2
  <2>2. Founded(Trails, Trails, F, Even, Lengths)
    BY <1>3 DEF Founded
  <2> QED BY <2>1, <2>2, StepsAre, TrailsAreRanked DEF Defines
<1>5. \E f \in [Trails -> Trails] : \A p \in Trails : f[p] = F[p][f]
  <2> HIDE DEF F
  <2> QED BY <1>4, RecursionTheorem
<1>6. PICK f \in [Trails -> Trails] : \A p \in Trails : f[p] = CanonOf(f, p)
  BY <1>5
<1>7. f = [p \in Trails |-> CanonOf(f, p)]
  BY <1>6
<1>8. spellings!Canon = [p \in Trails |-> CanonOf(spellings!Canon, p)]
  BY <1>7 DEF spellings!Canon, Trails, CanonOf
<1>9. \A p \in Trails : spellings!Canon[p] = CanonOf(spellings!Canon, p)
  BY <1>8
<1>10. Inherited(Trails, Trails, spellings!Canon, Even, Lengths)
  BY <1>2, <1>9 DEF Inherited
<1>11. \A p \in Trails : spellings!Canon[p] \in Trails
  BY <1>10, TrailsAreRanked, ValuesAreOf
<1> QED BY <1>9, <1>11

PhysicalOf(g, p) ==
  CASE spellings!Succeeds(spellings!EvalSymlinks(p)) -> spellings!EvalSymlinks(p)[2]
    [] ~spellings!Succeeds(spellings!EvalSymlinks(p)) /\ (Len(p) <= 1 \/ spellings!Last(p) = "..") -> spellings!Canon[p]
    [] OTHER -> Append(g[spellings!Front(p)], spellings!Last(p))

LEMMA PhysicalIs ==
  ASSUME FsOk
  PROVE  \A p \in Trails : spellings!Physical[p] \in Trails /\ spellings!Physical[p] = PhysicalOf(spellings!Physical, p)
<1> DEFINE F == [p \in Trails |-> [g \in [Trails -> Trails] |-> PhysicalOf(g, p)]]
<1>1. ASSUME NEW p \in Trails, ~(Len(p) <= 1)
      PROVE  /\ spellings!Front(p) \in Trails /\ spellings!Last(p) \in spellings!Step
             /\ Lower(Even, Lengths, spellings!Front(p), p)
  <2>1. p # <<>>
    BY <1>1
  <2> QED BY <2>1, FrontsOfTrails, TrailsAreRanked
<1>2. ASSUME NEW p \in Trails, NEW g, \A q \in Trails : Lower(Even, Lengths, q, p) => g[q] \in Trails
      PROVE  PhysicalOf(g, p) \in Trails
  BY <1>1, <1>2, EvalIs, CanonIs, StepsAre DEF PhysicalOf
<1>3. ASSUME NEW p \in Trails, NEW g, NEW h, \A q \in Trails : Lower(Even, Lengths, q, p) => g[q] = h[q]
      PROVE  PhysicalOf(g, p) = PhysicalOf(h, p)
  BY <1>1, <1>3 DEF PhysicalOf
<1>4. Defines(Trails, Trails, F, Even, Lengths)
  <2>1. F \in [Trails -> [[Trails -> Trails] -> Trails]]
    BY <1>2
  <2>2. Founded(Trails, Trails, F, Even, Lengths)
    BY <1>3 DEF Founded
  <2> QED BY <2>1, <2>2, StepsAre, TrailsAreRanked DEF Defines
<1>5. \E f \in [Trails -> Trails] : \A p \in Trails : f[p] = F[p][f]
  <2> HIDE DEF F
  <2> QED BY <1>4, RecursionTheorem
<1>6. PICK f \in [Trails -> Trails] : \A p \in Trails : f[p] = PhysicalOf(f, p)
  BY <1>5
<1>7. f = [p \in Trails |-> PhysicalOf(f, p)]
  BY <1>6
<1>8. spellings!Physical = [p \in Trails |-> PhysicalOf(spellings!Physical, p)]
  BY <1>7 DEF spellings!Physical, Trails, PhysicalOf
<1>9. \A p \in Trails : spellings!Physical[p] = PhysicalOf(spellings!Physical, p)
  BY <1>8
<1>10. Inherited(Trails, Trails, spellings!Physical, Even, Lengths)
  BY <1>2, <1>9 DEF Inherited
<1>11. \A p \in Trails : spellings!Physical[p] \in Trails
  BY <1>10, TrailsAreRanked, ValuesAreOf
<1> QED BY <1>9, <1>11

(* What ResolveMissing is made of, and what a write opens.                 *)
MissingOf(g, at, rs, l) ==
  CASE rs = <<>> -> <<"ok", at>>
    [] rs # <<>> /\ Head(rs) = "/" -> g[<<<<>>, Tail(rs), l>>]
    [] rs # <<>> /\ Head(rs) = ".." -> g[<<spellings!Up(at), Tail(rs), l>>]
    [] OTHER ->
         LET next == Append(at, Head(rs)) IN
         CASE spellings!Lstat(next) = spellings!Missing -> g[<<next, Tail(rs), l>>]
           [] spellings!Lstat(next) = spellings!Error -> spellings!Error
           [] spellings!Succeeds(spellings!Lstat(next)) /\ spellings!At(next).kind = "link" ->
                IF l = MaxLinks THEN spellings!Error ELSE g[<<at, spellings!At(next).to \o Tail(rs), l + 1>>]
           [] OTHER -> g[<<next, Tail(rs), l>>]

OpensOf(g, at, rs, l) ==
  IF rs = <<>> THEN {}
  ELSE LET c == Head(rs) next == Append(at, c) IN
    CASE c = "/" -> g[<<<<>>, Tail(rs), l>>]
      [] c = ".." -> g[<<spellings!Up(at), Tail(rs), l>>]
      [] c \notin {"/", ".."} /\ spellings!At(next).kind \in {"absent", "file"} -> IF Len(rs) = 1 THEN {next} ELSE {}
      [] c \notin {"/", ".."} /\ spellings!At(next).kind = "dir" -> g[<<next, Tail(rs), l>>]
      [] OTHER -> IF l = MaxLinks THEN {} ELSE g[<<at, spellings!At(next).to \o Tail(rs), l + 1>>]

LEMMA ResolveMissingIs ==
  ASSUME FsOk
  PROVE  \A at, rs \in Trails : \A l \in spellings!Links :
           /\ spellings!ResolveMissing[<<at, rs, l>>] \in Ends
           /\ spellings!ResolveMissing[<<at, rs, l>>] = MissingOf(spellings!ResolveMissing, at, rs, l)
<1> DEFINE Body(g, w) == MissingOf(g, w[1], w[2], w[3])
           F == [w \in spellings!Walks |-> [g \in [spellings!Walks -> Ends] |-> Body(g, w)]]
<1>1. <<"ok", <<>>>> \in Ends /\ spellings!Error \in Ends /\ \A t \in Trails : <<"ok", t>> \in Ends
  BY StepsAre DEF Ends, spellings!Error
<1>2. \A q \in Trails : spellings!Up(q) \in Trails
  BY FrontsOfTrails DEF spellings!Up
<1>3. ASSUME NEW at \in Trails, NEW rs \in Trails, NEW l \in spellings!Links, NEW g,
             \A v \in spellings!Walks : Lower(LinksLeft, StepsLeft, v, <<at, rs, l>>) => g[v] \in Ends
      PROVE  MissingOf(g, at, rs, l) \in Ends
  <2>1. CASE rs = <<>>
    BY <2>1, <1>1 DEF MissingOf
  <2>2. CASE rs # <<>>
    <3>1. Append(at, Head(rs)) \in Trails /\ Tail(rs) \in Trails
      BY <2>2, WalksAreRanked, StepsAre
    <3>2. \A x \in Trails : g[<<x, Tail(rs), l>>] \in Ends
      BY <2>2, <1>3, WalksAreRanked
    <3>3. l # MaxLinks => \A x, y \in Trails : g[<<x, y, l + 1>>] \in Ends
      BY <1>3, WalksAreRanked
    <3>4. spellings!At(Append(at, Head(rs))).kind = "link" => spellings!At(Append(at, Head(rs))).to \o Tail(rs) \in Trails
      BY <3>1, ThingsAre, StepsAre
    <3> QED BY <2>2, <3>1, <3>2, <3>3, <3>4, <1>1, <1>2, StepsAre DEF MissingOf
  <2> QED BY <2>1, <2>2
<1>4. \A w \in spellings!Walks : w[1] \in Trails /\ w[2] \in Trails /\ w[3] \in spellings!Links /\ w = <<w[1], w[2], w[3]>>
  BY DEF spellings!Walks, Trails
<1>5. ASSUME NEW w \in spellings!Walks, NEW g, \A v \in spellings!Walks : Lower(LinksLeft, StepsLeft, v, w) => g[v] \in Ends
      PROVE  Body(g, w) \in Ends
  BY <1>3, <1>4, <1>5
<1>6. F \in [spellings!Walks -> [[spellings!Walks -> Ends] -> Ends]]
  <2> HIDE DEF Body
  <2> QED BY <1>5
<1>7. ASSUME NEW at \in Trails, NEW rs \in Trails, NEW l \in spellings!Links, NEW g, NEW h,
             \A v \in spellings!Walks : Lower(LinksLeft, StepsLeft, v, <<at, rs, l>>) => g[v] = h[v]
      PROVE  MissingOf(g, at, rs, l) = MissingOf(h, at, rs, l)
  <2>1. CASE rs = <<>>
    BY <2>1 DEF MissingOf
  <2>2. CASE rs # <<>>
    <3>1. Append(at, Head(rs)) \in Trails /\ Tail(rs) \in Trails
      BY <2>2, WalksAreRanked, StepsAre
    <3>2. \A x \in Trails : g[<<x, Tail(rs), l>>] = h[<<x, Tail(rs), l>>]
      BY <2>2, <1>7, WalksAreRanked
    <3>3. l # MaxLinks => \A x, y \in Trails : g[<<x, y, l + 1>>] = h[<<x, y, l + 1>>]
      BY <1>7, WalksAreRanked
    <3>4. spellings!At(Append(at, Head(rs))).kind = "link" => spellings!At(Append(at, Head(rs))).to \o Tail(rs) \in Trails
      BY <3>1, ThingsAre, StepsAre
    <3>5. /\ g[<<<<>>, Tail(rs), l>>] = h[<<<<>>, Tail(rs), l>>]
          /\ g[<<spellings!Up(at), Tail(rs), l>>] = h[<<spellings!Up(at), Tail(rs), l>>]
          /\ g[<<Append(at, Head(rs)), Tail(rs), l>>] = h[<<Append(at, Head(rs)), Tail(rs), l>>]
      BY <3>1, <3>2, <1>2, StepsAre
    <3>6. l # MaxLinks /\ spellings!At(Append(at, Head(rs))).kind = "link" =>
            g[<<at, spellings!At(Append(at, Head(rs))).to \o Tail(rs), l + 1>>]
              = h[<<at, spellings!At(Append(at, Head(rs))).to \o Tail(rs), l + 1>>]
      BY <3>3, <3>4
    <3> QED BY <2>2, <3>5, <3>6 DEF MissingOf
  <2> QED BY <2>1, <2>2
<1>8. Founded(spellings!Walks, Ends, F, LinksLeft, StepsLeft)
  <2>1. ASSUME NEW w \in spellings!Walks, NEW g \in [spellings!Walks -> Ends], NEW h \in [spellings!Walks -> Ends],
               \A v \in spellings!Walks : Lower(LinksLeft, StepsLeft, v, w) => g[v] = h[v]
        PROVE  Body(g, w) = Body(h, w)
    BY <1>4, <1>7, <2>1
  <2> HIDE DEF Body
  <2> QED BY <2>1 DEF Founded
<1>9. PICK f \in [spellings!Walks -> Ends] : \A w \in spellings!Walks : f[w] = Body(f, w)
  <2> HIDE DEF Body
  <2>1. Defines(spellings!Walks, Ends, F, LinksLeft, StepsLeft)
    <3> HIDE DEF F
    <3> QED BY <1>1, <1>6, <1>8, WalksAreRanked DEF Defines
  <2>2. \E f \in [spellings!Walks -> Ends] : \A w \in spellings!Walks : f[w] = F[w][f]
    <3> HIDE DEF F
    <3> QED BY <2>1, RecursionTheorem
  <2> QED BY <2>2
<1>10. f = [w \in spellings!Walks |-> Body(f, w)]
  <2> HIDE DEF Body
  <2> QED BY <1>9
<1>11. spellings!ResolveMissing = [w \in spellings!Walks |-> Body(spellings!ResolveMissing, w)]
  BY <1>10 DEF spellings!ResolveMissing, MissingOf
<1>12. \A w \in spellings!Walks : spellings!ResolveMissing[w] = Body(spellings!ResolveMissing, w)
  <2> HIDE DEF Body
  <2> QED BY <1>11
<1>13. \A at, rs \in Trails : \A l \in spellings!Links : spellings!ResolveMissing[<<at, rs, l>>] = MissingOf(spellings!ResolveMissing, at, rs, l)
  <2>1. ASSUME NEW at \in Trails, NEW rs \in Trails, NEW l \in spellings!Links
        PROVE  spellings!ResolveMissing[<<at, rs, l>>] = MissingOf(spellings!ResolveMissing, at, rs, l)
    <3>1. <<at, rs, l>> \in spellings!Walks
      BY WalksAreRanked
    <3> QED BY <3>1, <1>12
  <2> QED BY <2>1
<1>14. \A w \in spellings!Walks : spellings!ResolveMissing[w] \in Ends
  <2> HIDE DEF Body
  <2>1. Inherited(spellings!Walks, Ends, spellings!ResolveMissing, LinksLeft, StepsLeft)
    BY <1>5, <1>12 DEF Inherited
  <2> QED BY <2>1, WalksAreRanked, ValuesAreOf
<1> QED BY <1>13, <1>14, WalksAreRanked

LEMMA OpensIs ==
  ASSUME FsOk
  PROVE  \A at, rs \in Trails : \A l \in spellings!Links :
           /\ spellings!Opens[<<at, rs, l>>] \in SUBSET Trails
           /\ spellings!Opens[<<at, rs, l>>] = OpensOf(spellings!Opens, at, rs, l)
<1> DEFINE Body(g, w) == OpensOf(g, w[1], w[2], w[3])
           F == [w \in spellings!Walks |-> [g \in [spellings!Walks -> SUBSET Trails] |-> Body(g, w)]]
<1>1. \A t \in Trails : {t} \in SUBSET Trails
  OBVIOUS
<1>2. \A q \in Trails : spellings!Up(q) \in Trails
  BY FrontsOfTrails DEF spellings!Up
<1>3. ASSUME NEW at \in Trails, NEW rs \in Trails, NEW l \in spellings!Links, NEW g,
             \A v \in spellings!Walks : Lower(LinksLeft, StepsLeft, v, <<at, rs, l>>) => g[v] \in SUBSET Trails
      PROVE  OpensOf(g, at, rs, l) \in SUBSET Trails
  <2>1. CASE rs = <<>>
    BY <2>1, <1>1 DEF OpensOf
  <2>2. CASE rs # <<>>
    <3>1. Append(at, Head(rs)) \in Trails /\ Tail(rs) \in Trails
      BY <2>2, WalksAreRanked, StepsAre
    <3>2. \A x \in Trails : g[<<x, Tail(rs), l>>] \in SUBSET Trails
      BY <2>2, <1>3, WalksAreRanked
    <3>3. l # MaxLinks => \A x, y \in Trails : g[<<x, y, l + 1>>] \in SUBSET Trails
      BY <1>3, WalksAreRanked
    <3>4. spellings!At(Append(at, Head(rs))).kind = "link" => spellings!At(Append(at, Head(rs))).to \o Tail(rs) \in Trails
      BY <3>1, ThingsAre, StepsAre
    <3>5. /\ g[<<<<>>, Tail(rs), l>>] \in SUBSET Trails
          /\ g[<<spellings!Up(at), Tail(rs), l>>] \in SUBSET Trails
          /\ g[<<Append(at, Head(rs)), Tail(rs), l>>] \in SUBSET Trails
          /\ {Append(at, Head(rs))} \in SUBSET Trails /\ {} \in SUBSET Trails
      BY <3>1, <3>2, <1>2, StepsAre
    <3>6. l # MaxLinks /\ spellings!At(Append(at, Head(rs))).kind = "link" =>
            g[<<at, spellings!At(Append(at, Head(rs))).to \o Tail(rs), l + 1>>] \in SUBSET Trails
      BY <3>3, <3>4
    <3>7. spellings!At(Append(at, Head(rs))).kind \in {"absent", "file", "dir", "link"}
      BY ThingsAre
    <3> QED BY <2>2, <3>5, <3>6, <3>7 DEF OpensOf
  <2> QED BY <2>1, <2>2
<1>4. \A w \in spellings!Walks : w[1] \in Trails /\ w[2] \in Trails /\ w[3] \in spellings!Links /\ w = <<w[1], w[2], w[3]>>
  BY DEF spellings!Walks, Trails
<1>5. ASSUME NEW w \in spellings!Walks, NEW g, \A v \in spellings!Walks : Lower(LinksLeft, StepsLeft, v, w) => g[v] \in SUBSET Trails
      PROVE  Body(g, w) \in SUBSET Trails
  BY <1>3, <1>4, <1>5
<1>6. F \in [spellings!Walks -> [[spellings!Walks -> SUBSET Trails] -> SUBSET Trails]]
  <2> HIDE DEF Body
  <2> QED BY <1>5
<1>7. ASSUME NEW at \in Trails, NEW rs \in Trails, NEW l \in spellings!Links, NEW g, NEW h,
             \A v \in spellings!Walks : Lower(LinksLeft, StepsLeft, v, <<at, rs, l>>) => g[v] = h[v]
      PROVE  OpensOf(g, at, rs, l) = OpensOf(h, at, rs, l)
  <2>1. CASE rs = <<>>
    BY <2>1 DEF OpensOf
  <2>2. CASE rs # <<>>
    <3>1. Append(at, Head(rs)) \in Trails /\ Tail(rs) \in Trails
      BY <2>2, WalksAreRanked, StepsAre
    <3>2. \A x \in Trails : g[<<x, Tail(rs), l>>] = h[<<x, Tail(rs), l>>]
      BY <2>2, <1>7, WalksAreRanked
    <3>3. l # MaxLinks => \A x, y \in Trails : g[<<x, y, l + 1>>] = h[<<x, y, l + 1>>]
      BY <1>7, WalksAreRanked
    <3>4. spellings!At(Append(at, Head(rs))).kind = "link" => spellings!At(Append(at, Head(rs))).to \o Tail(rs) \in Trails
      BY <3>1, ThingsAre, StepsAre
    <3>5. /\ g[<<<<>>, Tail(rs), l>>] = h[<<<<>>, Tail(rs), l>>]
          /\ g[<<spellings!Up(at), Tail(rs), l>>] = h[<<spellings!Up(at), Tail(rs), l>>]
          /\ g[<<Append(at, Head(rs)), Tail(rs), l>>] = h[<<Append(at, Head(rs)), Tail(rs), l>>]
      BY <3>1, <3>2, <1>2, StepsAre
    <3>6. l # MaxLinks /\ spellings!At(Append(at, Head(rs))).kind = "link" =>
            g[<<at, spellings!At(Append(at, Head(rs))).to \o Tail(rs), l + 1>>]
              = h[<<at, spellings!At(Append(at, Head(rs))).to \o Tail(rs), l + 1>>]
      BY <3>3, <3>4
    <3> QED BY <2>2, <3>5, <3>6, ThingsAre DEF OpensOf
  <2> QED BY <2>1, <2>2
<1>8. Founded(spellings!Walks, SUBSET Trails, F, LinksLeft, StepsLeft)
  <2>1. ASSUME NEW w \in spellings!Walks, NEW g \in [spellings!Walks -> SUBSET Trails], NEW h \in [spellings!Walks -> SUBSET Trails],
               \A v \in spellings!Walks : Lower(LinksLeft, StepsLeft, v, w) => g[v] = h[v]
        PROVE  Body(g, w) = Body(h, w)
    BY <1>4, <1>7, <2>1
  <2> HIDE DEF Body
  <2> QED BY <2>1 DEF Founded
<1>9. PICK f \in [spellings!Walks -> SUBSET Trails] : \A w \in spellings!Walks : f[w] = Body(f, w)
  <2> HIDE DEF Body
  <2>1. Defines(spellings!Walks, SUBSET Trails, F, LinksLeft, StepsLeft)
    <3> HIDE DEF F
    <3> QED BY <1>6, <1>8, WalksAreRanked DEF Defines
  <2>2. \E f \in [spellings!Walks -> SUBSET Trails] : \A w \in spellings!Walks : f[w] = F[w][f]
    <3> HIDE DEF F
    <3> QED BY <2>1, RecursionTheorem
  <2> QED BY <2>2
<1>10. f = [w \in spellings!Walks |-> Body(f, w)]
  <2> HIDE DEF Body
  <2> QED BY <1>9
<1>11. spellings!Opens = [w \in spellings!Walks |-> Body(spellings!Opens, w)]
  BY <1>10 DEF spellings!Opens, OpensOf
<1>12. \A w \in spellings!Walks : spellings!Opens[w] = Body(spellings!Opens, w)
  <2> HIDE DEF Body
  <2> QED BY <1>11
<1>13. \A at, rs \in Trails : \A l \in spellings!Links : spellings!Opens[<<at, rs, l>>] = OpensOf(spellings!Opens, at, rs, l)
  <2>1. ASSUME NEW at \in Trails, NEW rs \in Trails, NEW l \in spellings!Links
        PROVE  spellings!Opens[<<at, rs, l>>] = OpensOf(spellings!Opens, at, rs, l)
    <3>1. <<at, rs, l>> \in spellings!Walks
      BY WalksAreRanked
    <3> QED BY <3>1, <1>12
  <2> QED BY <2>1
<1>14. \A w \in spellings!Walks : spellings!Opens[w] \in SUBSET Trails
  <2> HIDE DEF Body
  <2>1. Inherited(spellings!Walks, SUBSET Trails, spellings!Opens, LinksLeft, StepsLeft)
    BY <1>5, <1>12 DEF Inherited
  <2> QED BY <2>1, WalksAreRanked, ValuesAreOf
<1> QED BY <1>13, <1>14, WalksAreRanked

-----------------------------------------------------------------------------
(* A real place is a directory, and so is every place before it.           *)
Before(d, i) == [j \in 1..i |-> d[j]]
Real(d) == d \in Seq(Names) /\ \A i \in 0..Len(d) : spellings!At(Before(d, i)).kind = "dir"

LEMMA NamesAreTrails == \A d \in Seq(Names) : d \in Trails
<1>1. ASSUME NEW d \in Seq(Names) PROVE d \in Seq(spellings!Step)
  <2>1. d \in [1..Len(d) -> Names] /\ Len(d) \in Nat
    OBVIOUS
  <2>2. d \in [1..Len(d) -> spellings!Step]
    BY <2>1, StepsAre
  <2> QED BY <2>1, <2>2
<1> QED BY <1>1 DEF Trails

LEMMA RootIsReal == Real(<<>>)
<1>1. Before(<<>>, 0) = <<>> /\ Len(<<>>) = 0
  BY DEF Before
<1>2. spellings!At(<<>>).kind = "dir"
  BY DEF spellings!At, spellings!Root
<1>3. <<>> \in Seq(Names) /\ 0..0 = {0}
  OBVIOUS
<1> QED BY <1>1, <1>2, <1>3 DEF Real

LEMMA RealIs ==
  ASSUME NEW d, Real(d)
  PROVE  /\ d \in Seq(Names) /\ d \in Trails /\ spellings!At(d).kind = "dir"
         /\ d # <<>> => Real(spellings!Front(d)) /\ spellings!Last(d) \in Names
         /\ Real(spellings!Up(d))
<1>1. d \in Seq(Names) /\ d \in Trails /\ Len(d) \in Nat
  BY NamesAreTrails DEF Real
<1>2. Before(d, Len(d)) = d
  BY <1>1 DEF Before
<1>3. spellings!At(d).kind = "dir"
  BY <1>1, <1>2 DEF Real
<1>4. ASSUME d # <<>> PROVE Real(spellings!Front(d)) /\ spellings!Last(d) \in Names /\ spellings!Up(d) = spellings!Front(d)
  <2> DEFINE q == spellings!Front(d)
  <2>1. q \in Seq(Names) /\ Len(q) = Len(d) - 1 /\ \A i \in 1..(Len(d) - 1) : q[i] = d[i]
    BY <1>1, <1>4, FrontIs
  <2> HIDE DEF q
  <2>2. ASSUME NEW i \in 0..Len(q) PROVE Before(q, i) = Before(d, i) /\ i \in 0..Len(d)
    <3>1. \A j \in 1..i : j \in 1..(Len(d) - 1)
      BY <2>1, <1>1
    <3>2. \A j \in 1..i : q[j] = d[j]
      BY <2>1, <3>1
    <3>3. i \in 0..Len(d)
      BY <2>1, <1>1
    <3> QED BY <3>2, <3>3 DEF Before
  <2>3. Real(q)
    BY <2>1, <2>2 DEF Real
  <2> QED BY <2>3, <1>1, <1>4, FrontIs DEF q
<1>5. d = <<>> => spellings!Up(d) = d
  BY DEF spellings!Up
<1> QED BY <1>1, <1>3, <1>4, <1>5

LEMMA RealGoesOn ==
  ASSUME NEW d, Real(d), NEW n \in Names, spellings!At(Append(d, n)).kind = "dir"
  PROVE  Real(Append(d, n))
<1> DEFINE e == Append(d, n)
<1>1. d \in Seq(Names) /\ Len(d) \in Nat
  BY DEF Real
<1>2. e \in Seq(Names) /\ Len(e) = Len(d) + 1 /\ \A i \in 1..Len(d) : e[i] = d[i]
  BY <1>1
<1>3. Before(e, Len(d) + 1) = e
  <2> HIDE DEF e
  <2> QED BY <1>2 DEF Before
<1>4. spellings!At(e).kind = "dir"
  OBVIOUS
<1> HIDE DEF e
<1>5. ASSUME NEW i \in 0..Len(e) PROVE spellings!At(Before(e, i)).kind = "dir"
  <2>1. CASE i = Len(d) + 1
    BY <2>1, <1>3, <1>4
  <2>2. CASE i # Len(d) + 1
    <3>1. i \in 0..Len(d) /\ \A j \in 1..i : j \in 1..Len(d)
      BY <2>2, <1>1, <1>2
    <3>2. Before(e, i) = Before(d, i)
      BY <3>1, <1>2 DEF Before
    <3> QED BY <3>1, <3>2 DEF Real
  <2> QED BY <2>1, <2>2
<1>6. Real(e)
  BY <1>2, <1>5 DEF Real
<1> QED BY <1>6 DEF e

LEMMA TrailsJoin ==
  /\ \A x \in Trails : <<>> \o x = x /\ x \o <<>> = x
  /\ \A x \in Trails : \A n \in spellings!Step :
       <<n>> \o x \in Trails /\ <<n>> \o x # <<>> /\ Head(<<n>> \o x) = n /\ Tail(<<n>> \o x) = x
  /\ \A d, x \in Trails : \A n \in spellings!Step : Append(d, n) \o x = d \o (<<n>> \o x)
  /\ \A x, y, z \in Trails : (x \o y) \o z = x \o (y \o z)
  /\ \A x, y \in Trails : x # <<>> => x \o y # <<>> /\ Head(x \o y) = Head(x) /\ Tail(x \o y) = Tail(x) \o y
<1>1. \A x \in Trails : <<>> \o x = x /\ x \o <<>> = x
  BY DEF Trails
<1>2. ASSUME NEW x \in Trails, NEW n \in spellings!Step
      PROVE  <<n>> \o x \in Trails /\ <<n>> \o x # <<>> /\ Head(<<n>> \o x) = n /\ Tail(<<n>> \o x) = x
  BY DEF Trails
<1>3. ASSUME NEW d \in Trails, NEW x \in Trails, NEW n \in spellings!Step
      PROVE  Append(d, n) \o x = d \o (<<n>> \o x)
  BY DEF Trails
<1>4. ASSUME NEW x \in Trails, NEW y \in Trails, NEW z \in Trails
      PROVE  (x \o y) \o z = x \o (y \o z)
  BY DEF Trails
<1>5. ASSUME NEW x \in Trails, NEW y \in Trails, x # <<>>
      PROVE  x \o y # <<>> /\ Head(x \o y) = Head(x) /\ Tail(x \o y) = Tail(x) \o y
  BY <1>5 DEF Trails
<1> QED BY <1>1, <1>2, <1>3, <1>4, <1>5

LEMMA NameJoins ==
  ASSUME NEW d \in Trails, NEW x \in Trails, NEW n \in spellings!Step
  PROVE  Append(d, n) \o x = d \o (<<n>> \o x) /\ <<n>> \o x \in Trails
BY DEF Trails

(* A walk, or the resolution of a missing path, over a real place goes on  *)
(* from it.                                                                *)
LEMMA WalkGoesOn ==
  ASSUME FsOk
  PROVE  \A d \in Trails : Real(d) => \A x \in Trails : \A l \in spellings!Links :
           spellings!Walk[<<<<>>, d \o x, l>>] = spellings!Walk[<<d, x, l>>]
<1> DEFINE Leads(d) == \A x \in Trails : \A l \in spellings!Links :
             spellings!Walk[<<<<>>, d \o x, l>>] = spellings!Walk[<<d, x, l>>]
           T == {d \in Trails : Real(d) /\ ~Leads(d)}
<1>1. SUFFICES ASSUME T # {} PROVE FALSE
  OBVIOUS
<1>2. PICK d \in T : \A q \in T : ~Lower(Even, Lengths, q, d)
  <2>1. T \in SUBSET Trails
    OBVIOUS
  <2>2. Even \in [Trails -> Nat] /\ Lengths \in [Trails -> Nat]
    BY TrailsAreRanked DEF Ranked
  <2> HIDE DEF T
  <2> QED BY <1>1, <2>1, <2>2, LowestOf
<1>3. d # <<>>
  BY TrailsJoin
<1> DEFINE q == spellings!Front(d)
           n == spellings!Last(d)
<1>4. q \in Trails /\ Real(q) /\ n \in Names /\ n \in spellings!Step /\ d = Append(q, n) /\ Lower(Even, Lengths, q, d)
  <2>1. d \in Seq(spellings!Step)
    BY DEF Trails
  <2> QED BY <2>1, <1>3, FrontIs, FrontsOfTrails, RealIs, StepsAre, TrailsAreRanked
<1>5. Leads(q)
  BY <1>2, <1>4
<1> HIDE DEF q, n
<1>6. ASSUME NEW x \in Trails, NEW l \in spellings!Links
      PROVE  spellings!Walk[<<<<>>, d \o x, l>>] = spellings!Walk[<<d, x, l>>]
  <2>1. d \o x = q \o (<<n>> \o x) /\ <<n>> \o x \in Trails
    <3> HIDE DEF T, Leads
    <3>1. q \in Trails /\ n \in spellings!Step /\ d = Append(q, n)
      BY <1>4
    <3>2. Append(q, n) \o x = q \o (<<n>> \o x) /\ <<n>> \o x \in Trails
      BY <3>1, NameJoins
    <3> QED BY <3>1, <3>2
  <2>2. spellings!Walk[<<<<>>, d \o x, l>>] = spellings!Walk[<<q, <<n>> \o x, l>>]
    BY <1>5, <2>1
  <2>3. spellings!Walk[<<q, <<n>> \o x, l>>] = WalkOf(spellings!Walk, q, <<n>> \o x, l)
    BY <1>4, <2>1, WalkIs
  <2>4. <<n>> \o x # <<>> /\ Head(<<n>> \o x) = n /\ Tail(<<n>> \o x) = x
    BY <1>4, TrailsJoin
  <2>5. spellings!At(q).kind = "dir" /\ spellings!At(d).kind = "dir" /\ d = Append(q, n) /\ n # ".." /\ n # "/"
    BY <1>4, RealIs, StepsAre
  <2>6. spellings!At(d) # spellings!Absent
    BY <2>5 DEF spellings!Absent
  <2> QED BY <2>2, <2>3, <2>4, <2>5, <2>6 DEF WalkOf
<1> QED BY <1>6

LEMMA RealIsResolved ==
  ASSUME FsOk, NEW d, Real(d)
  PROVE  spellings!EvalSymlinks(d) = <<"ok", d>>
<1>1. d \in Trails /\ <<>> \in Trails /\ 0 \in spellings!Links
  BY RealIs, StepsAre
<1>2. spellings!EvalSymlinks(d) = spellings!Walk[<<d, <<>>, 0>>]
  <2>1. d \o <<>> = d
    BY <1>1, TrailsJoin, Zenon
  <2>2. spellings!Walk[<<<<>>, d \o <<>>, 0>>] = spellings!Walk[<<d, <<>>, 0>>]
    BY <1>1, WalkGoesOn
  <2> QED BY <1>1, <2>1, <2>2, EvalIs
<1> QED BY <1>1, <1>2, WalkIs DEF WalkOf

(* What lstat finds at a name of a real place.                             *)
LEMMA LstatIs ==
  ASSUME FsOk, NEW d, Real(d), NEW n \in Names
  PROVE  /\ spellings!At(Append(d, n)) = spellings!Absent => spellings!Lstat(Append(d, n)) = spellings!Missing
         /\ spellings!At(Append(d, n)) # spellings!Absent => spellings!Lstat(Append(d, n)) = <<"ok", Append(d, n)>>
<1> DEFINE e == Append(d, n)
<1>1. d \in Trails /\ d \in Seq(Names) /\ spellings!At(d).kind = "dir"
  BY RealIs
<1>2. spellings!Front(e) = d /\ spellings!Last(e) = n /\ e # <<>>
  <2>1. e \in Seq(Names) /\ Len(e) = Len(d) + 1 /\ e # <<>> /\ Len(d) \in Nat
    BY <1>1
  <2>2. e[Len(d) + 1] = n /\ \A i \in 1..Len(d) : e[i] = d[i]
    BY <1>1
  <2> HIDE DEF e
  <2>3. spellings!Front(e) \in Seq(Names) /\ Len(spellings!Front(e)) = Len(d) /\ \A i \in 1..Len(d) : spellings!Front(e)[i] = e[i]
    BY <2>1, FrontIs
  <2>4. spellings!Front(e) = d
    BY <2>2, <2>3, <1>1
  <2> QED BY <2>1, <2>2, <2>4 DEF spellings!Last
<1>3. spellings!EvalSymlinks(d) = <<"ok", d>>
  BY RealIsResolved
<1> HIDE DEF e
<1>4. spellings!Lstat(e) = IF spellings!At(e) = spellings!Absent THEN spellings!Missing ELSE <<"ok", e>>
  <2>1. Append(d, n) = e
    BY DEF e
  <2>2. <<"ok", d>>[1] = "ok" /\ <<"ok", d>>[2] = d
    OBVIOUS
  <2>3. spellings!EvalSymlinks(spellings!Front(e)) = <<"ok", d>> /\ spellings!Succeeds(<<"ok", d>>)
    BY <1>2, <1>3, <2>2 DEF spellings!Succeeds
  <2> QED BY <1>1, <1>2, <2>1, <2>2, <2>3 DEF spellings!Lstat
<1> QED BY <1>4 DEF e

LEMMA MissingGoesOn ==
  ASSUME FsOk
  PROVE  \A d \in Trails : Real(d) => \A x \in Trails : \A l \in spellings!Links :
           spellings!ResolveMissing[<<<<>>, d \o x, l>>] = spellings!ResolveMissing[<<d, x, l>>]
<1> DEFINE Leads(d) == \A x \in Trails : \A l \in spellings!Links :
             spellings!ResolveMissing[<<<<>>, d \o x, l>>] = spellings!ResolveMissing[<<d, x, l>>]
           T == {d \in Trails : Real(d) /\ ~Leads(d)}
<1>1. SUFFICES ASSUME T # {} PROVE FALSE
  OBVIOUS
<1>2. PICK d \in T : \A q \in T : ~Lower(Even, Lengths, q, d)
  <2>1. T \in SUBSET Trails
    OBVIOUS
  <2>2. Even \in [Trails -> Nat] /\ Lengths \in [Trails -> Nat]
    BY TrailsAreRanked DEF Ranked
  <2> HIDE DEF T
  <2> QED BY <1>1, <2>1, <2>2, LowestOf
<1>3. d # <<>>
  BY TrailsJoin
<1> DEFINE q == spellings!Front(d)
           n == spellings!Last(d)
<1>4. q \in Trails /\ Real(q) /\ n \in Names /\ n \in spellings!Step /\ d = Append(q, n) /\ Lower(Even, Lengths, q, d)
  <2>1. d \in Seq(spellings!Step)
    BY DEF Trails
  <2> QED BY <2>1, <1>3, FrontIs, FrontsOfTrails, RealIs, StepsAre, TrailsAreRanked
<1>5. Leads(q)
  BY <1>2, <1>4
<1> HIDE DEF q, n
<1>6. ASSUME NEW x \in Trails, NEW l \in spellings!Links
      PROVE  spellings!ResolveMissing[<<<<>>, d \o x, l>>] = spellings!ResolveMissing[<<d, x, l>>]
  <2>1. d \o x = q \o (<<n>> \o x) /\ <<n>> \o x \in Trails
    <3> HIDE DEF T, Leads
    <3>1. q \in Trails /\ n \in spellings!Step /\ d = Append(q, n)
      BY <1>4
    <3>2. Append(q, n) \o x = q \o (<<n>> \o x) /\ <<n>> \o x \in Trails
      BY <3>1, NameJoins
    <3> QED BY <3>1, <3>2
  <2>2. spellings!ResolveMissing[<<<<>>, d \o x, l>>] = spellings!ResolveMissing[<<q, <<n>> \o x, l>>]
    BY <1>5, <2>1
  <2>3. spellings!ResolveMissing[<<q, <<n>> \o x, l>>] = MissingOf(spellings!ResolveMissing, q, <<n>> \o x, l)
    BY <1>4, <2>1, ResolveMissingIs
  <2>4. <<n>> \o x # <<>> /\ Head(<<n>> \o x) = n /\ Tail(<<n>> \o x) = x
    BY <1>4, TrailsJoin
  <2>5. spellings!At(d).kind = "dir" /\ d = Append(q, n) /\ n # ".." /\ n # "/"
    BY <1>4, RealIs, StepsAre
  <2>6. spellings!Lstat(d) = <<"ok", d>>
    BY <2>5, <1>4, LstatIs DEF spellings!Absent
  <2>7. spellings!Lstat(d) # spellings!Missing /\ spellings!Lstat(d) # spellings!Error
    BY <2>6 DEF spellings!Missing, spellings!Error
  <2> QED BY <2>2, <2>3, <2>4, <2>5, <2>7 DEF MissingOf
<1> QED BY <1>6

(* The turns of a walk, of the resolution of a missing path, and of a      *)
(* write, by the step ahead of a real place and what is there.             *)
LEMMA TurnToRoot ==
  ASSUME FsOk, NEW at \in Trails, NEW rs \in Trails, NEW l \in spellings!Links, rs # <<>>,
         Head(rs) = "/"
  PROVE  /\ spellings!Walk[<<at, rs, l>>] = spellings!Walk[<<<<>>, Tail(rs), l>>]
         /\ spellings!ResolveMissing[<<at, rs, l>>] = spellings!ResolveMissing[<<<<>>, Tail(rs), l>>]
         /\ spellings!Opens[<<at, rs, l>>] = spellings!Opens[<<<<>>, Tail(rs), l>>]
<1>1. spellings!Walk[<<at, rs, l>>] = WalkOf(spellings!Walk, at, rs, l)
  BY WalkIs
<1>2. spellings!ResolveMissing[<<at, rs, l>>] = MissingOf(spellings!ResolveMissing, at, rs, l)
  BY ResolveMissingIs
<1>3. spellings!Opens[<<at, rs, l>>] = OpensOf(spellings!Opens, at, rs, l)
  BY OpensIs
<1>4. WalkOf(spellings!Walk, at, rs, l) = spellings!Walk[<<<<>>, Tail(rs), l>>]
  BY DEF WalkOf
<1>5. MissingOf(spellings!ResolveMissing, at, rs, l) = spellings!ResolveMissing[<<<<>>, Tail(rs), l>>]
  BY DEF MissingOf
<1>6. OpensOf(spellings!Opens, at, rs, l) = spellings!Opens[<<<<>>, Tail(rs), l>>]
  BY DEF OpensOf
<1> QED BY <1>1, <1>2, <1>3, <1>4, <1>5, <1>6

LEMMA TurnUp ==
  ASSUME FsOk, NEW at \in Trails, NEW rs \in Trails, NEW l \in spellings!Links, rs # <<>>,
         Head(rs) = "..", Real(at)
  PROVE  /\ spellings!Walk[<<at, rs, l>>] = spellings!Walk[<<spellings!Up(at), Tail(rs), l>>]
         /\ spellings!ResolveMissing[<<at, rs, l>>] = spellings!ResolveMissing[<<spellings!Up(at), Tail(rs), l>>]
         /\ spellings!Opens[<<at, rs, l>>] = spellings!Opens[<<spellings!Up(at), Tail(rs), l>>]
<1>a. spellings!At(at).kind = "dir"
  BY RealIs
<1>1. spellings!Walk[<<at, rs, l>>] = WalkOf(spellings!Walk, at, rs, l)
  BY WalkIs
<1>2. spellings!ResolveMissing[<<at, rs, l>>] = MissingOf(spellings!ResolveMissing, at, rs, l)
  BY ResolveMissingIs
<1>3. spellings!Opens[<<at, rs, l>>] = OpensOf(spellings!Opens, at, rs, l)
  BY OpensIs
<1>4. WalkOf(spellings!Walk, at, rs, l) = spellings!Walk[<<spellings!Up(at), Tail(rs), l>>]
  BY <1>a DEF WalkOf
<1>5. MissingOf(spellings!ResolveMissing, at, rs, l) = spellings!ResolveMissing[<<spellings!Up(at), Tail(rs), l>>]
  BY DEF MissingOf
<1>6. OpensOf(spellings!Opens, at, rs, l) = spellings!Opens[<<spellings!Up(at), Tail(rs), l>>]
  BY DEF OpensOf
<1> QED BY <1>1, <1>2, <1>3, <1>4, <1>5, <1>6

LEMMA TurnMissing ==
  ASSUME FsOk, NEW at \in Trails, NEW rs \in Trails, NEW l \in spellings!Links, rs # <<>>,
         Head(rs) \in Names, Real(at), spellings!At(Append(at, Head(rs))) = spellings!Absent
  PROVE  /\ spellings!Walk[<<at, rs, l>>] = spellings!Missing
         /\ spellings!ResolveMissing[<<at, rs, l>>] = spellings!ResolveMissing[<<Append(at, Head(rs)), Tail(rs), l>>]
         /\ spellings!Opens[<<at, rs, l>>] = IF Len(rs) = 1 THEN {Append(at, Head(rs))} ELSE {}
<1> DEFINE next == Append(at, Head(rs))
<1>a. spellings!At(at).kind = "dir" /\ Head(rs) # ".." /\ Head(rs) # "/"
  BY RealIs, StepsAre
<1>b. /\ spellings!At(next) = spellings!Absent => spellings!Lstat(next) = spellings!Missing
      /\ spellings!At(next) # spellings!Absent => spellings!Lstat(next) = <<"ok", next>>
  BY LstatIs
<1>c. spellings!At(next).kind = "absent" /\ spellings!At(next).kind # "link"
  BY ThingsAre
<1>d. spellings!Lstat(next) = spellings!Missing /\ spellings!Missing # spellings!Error /\ ~spellings!Succeeds(spellings!Missing)
  BY <1>b DEF spellings!Missing, spellings!Error, spellings!Succeeds
<1>1. spellings!Walk[<<at, rs, l>>] = WalkOf(spellings!Walk, at, rs, l)
  BY WalkIs
<1>2. spellings!ResolveMissing[<<at, rs, l>>] = MissingOf(spellings!ResolveMissing, at, rs, l)
  BY ResolveMissingIs
<1>3. spellings!Opens[<<at, rs, l>>] = OpensOf(spellings!Opens, at, rs, l)
  BY OpensIs
<1>4. WalkOf(spellings!Walk, at, rs, l) = spellings!Missing
  BY <1>a, <1>c, <1>d DEF WalkOf
<1>5. MissingOf(spellings!ResolveMissing, at, rs, l) = spellings!ResolveMissing[<<next, Tail(rs), l>>]
  BY <1>a, <1>c, <1>d DEF MissingOf
<1>6. OpensOf(spellings!Opens, at, rs, l) = IF Len(rs) = 1 THEN {next} ELSE {}
  BY <1>a, <1>c, <1>d DEF OpensOf
<1> QED BY <1>1, <1>2, <1>3, <1>4, <1>5, <1>6

LEMMA TurnFile ==
  ASSUME FsOk, NEW at \in Trails, NEW rs \in Trails, NEW l \in spellings!Links, rs # <<>>,
         Head(rs) \in Names, Real(at), spellings!At(Append(at, Head(rs))).kind = "file"
  PROVE  /\ spellings!Walk[<<at, rs, l>>] = spellings!Walk[<<Append(at, Head(rs)), Tail(rs), l>>]
         /\ spellings!ResolveMissing[<<at, rs, l>>] = spellings!ResolveMissing[<<Append(at, Head(rs)), Tail(rs), l>>]
         /\ spellings!Opens[<<at, rs, l>>] = IF Len(rs) = 1 THEN {Append(at, Head(rs))} ELSE {}
<1> DEFINE next == Append(at, Head(rs))
<1>a. spellings!At(at).kind = "dir" /\ Head(rs) # ".." /\ Head(rs) # "/"
  BY RealIs, StepsAre
<1>b. /\ spellings!At(next) = spellings!Absent => spellings!Lstat(next) = spellings!Missing
      /\ spellings!At(next) # spellings!Absent => spellings!Lstat(next) = <<"ok", next>>
  BY LstatIs
<1>c. spellings!At(next) # spellings!Absent
  BY ThingsAre
<1>d. /\ spellings!Lstat(next) = <<"ok", next>> /\ spellings!Lstat(next) # spellings!Missing
      /\ spellings!Lstat(next) # spellings!Error /\ spellings!Succeeds(spellings!Lstat(next))
  BY <1>b, <1>c DEF spellings!Missing, spellings!Error, spellings!Succeeds
<1>1. spellings!Walk[<<at, rs, l>>] = WalkOf(spellings!Walk, at, rs, l)
  BY WalkIs
<1>2. spellings!ResolveMissing[<<at, rs, l>>] = MissingOf(spellings!ResolveMissing, at, rs, l)
  BY ResolveMissingIs
<1>3. spellings!Opens[<<at, rs, l>>] = OpensOf(spellings!Opens, at, rs, l)
  BY OpensIs
<1>4. WalkOf(spellings!Walk, at, rs, l) = spellings!Walk[<<next, Tail(rs), l>>]
  BY <1>a, <1>c, <1>d DEF WalkOf
<1>5. MissingOf(spellings!ResolveMissing, at, rs, l) = spellings!ResolveMissing[<<next, Tail(rs), l>>]
  BY <1>a, <1>c, <1>d DEF MissingOf
<1>6. OpensOf(spellings!Opens, at, rs, l) = IF Len(rs) = 1 THEN {next} ELSE {}
  BY <1>a, <1>c, <1>d DEF OpensOf
<1> QED BY <1>1, <1>2, <1>3, <1>4, <1>5, <1>6

LEMMA TurnIn ==
  ASSUME FsOk, NEW at \in Trails, NEW rs \in Trails, NEW l \in spellings!Links, rs # <<>>,
         Head(rs) \in Names, Real(at), spellings!At(Append(at, Head(rs))).kind = "dir"
  PROVE  /\ spellings!Walk[<<at, rs, l>>] = spellings!Walk[<<Append(at, Head(rs)), Tail(rs), l>>]
         /\ spellings!ResolveMissing[<<at, rs, l>>] = spellings!ResolveMissing[<<Append(at, Head(rs)), Tail(rs), l>>]
         /\ spellings!Opens[<<at, rs, l>>] = spellings!Opens[<<Append(at, Head(rs)), Tail(rs), l>>]
<1> DEFINE next == Append(at, Head(rs))
<1>a. spellings!At(at).kind = "dir" /\ Head(rs) # ".." /\ Head(rs) # "/"
  BY RealIs, StepsAre
<1>b. /\ spellings!At(next) = spellings!Absent => spellings!Lstat(next) = spellings!Missing
      /\ spellings!At(next) # spellings!Absent => spellings!Lstat(next) = <<"ok", next>>
  BY LstatIs
<1>c. spellings!At(next) # spellings!Absent
  BY ThingsAre
<1>d. /\ spellings!Lstat(next) = <<"ok", next>> /\ spellings!Lstat(next) # spellings!Missing
      /\ spellings!Lstat(next) # spellings!Error /\ spellings!Succeeds(spellings!Lstat(next))
  BY <1>b, <1>c DEF spellings!Missing, spellings!Error, spellings!Succeeds
<1>1. spellings!Walk[<<at, rs, l>>] = WalkOf(spellings!Walk, at, rs, l)
  BY WalkIs
<1>2. spellings!ResolveMissing[<<at, rs, l>>] = MissingOf(spellings!ResolveMissing, at, rs, l)
  BY ResolveMissingIs
<1>3. spellings!Opens[<<at, rs, l>>] = OpensOf(spellings!Opens, at, rs, l)
  BY OpensIs
<1>4. WalkOf(spellings!Walk, at, rs, l) = spellings!Walk[<<next, Tail(rs), l>>]
  BY <1>a, <1>c, <1>d DEF WalkOf
<1>5. MissingOf(spellings!ResolveMissing, at, rs, l) = spellings!ResolveMissing[<<next, Tail(rs), l>>]
  BY <1>a, <1>c, <1>d DEF MissingOf
<1>6. OpensOf(spellings!Opens, at, rs, l) = spellings!Opens[<<next, Tail(rs), l>>]
  BY <1>a, <1>c, <1>d DEF OpensOf
<1> QED BY <1>1, <1>2, <1>3, <1>4, <1>5, <1>6

LEMMA TurnAside ==
  ASSUME FsOk, NEW at \in Trails, NEW rs \in Trails, NEW l \in spellings!Links, rs # <<>>,
         Head(rs) \in Names, Real(at), spellings!At(Append(at, Head(rs))).kind = "link", l # MaxLinks
  PROVE  /\ spellings!Walk[<<at, rs, l>>] = spellings!Walk[<<at, spellings!At(Append(at, Head(rs))).to \o Tail(rs), l + 1>>]
         /\ spellings!ResolveMissing[<<at, rs, l>>] = spellings!ResolveMissing[<<at, spellings!At(Append(at, Head(rs))).to \o Tail(rs), l + 1>>]
         /\ spellings!Opens[<<at, rs, l>>] = spellings!Opens[<<at, spellings!At(Append(at, Head(rs))).to \o Tail(rs), l + 1>>]
<1> DEFINE next == Append(at, Head(rs))
<1>a. spellings!At(at).kind = "dir" /\ Head(rs) # ".." /\ Head(rs) # "/"
  BY RealIs, StepsAre
<1>b. /\ spellings!At(next) = spellings!Absent => spellings!Lstat(next) = spellings!Missing
      /\ spellings!At(next) # spellings!Absent => spellings!Lstat(next) = <<"ok", next>>
  BY LstatIs
<1>c. spellings!At(next) # spellings!Absent
  BY ThingsAre
<1>d. /\ spellings!Lstat(next) = <<"ok", next>> /\ spellings!Lstat(next) # spellings!Missing
      /\ spellings!Lstat(next) # spellings!Error /\ spellings!Succeeds(spellings!Lstat(next))
  BY <1>b, <1>c DEF spellings!Missing, spellings!Error, spellings!Succeeds
<1>1. spellings!Walk[<<at, rs, l>>] = WalkOf(spellings!Walk, at, rs, l)
  BY WalkIs
<1>2. spellings!ResolveMissing[<<at, rs, l>>] = MissingOf(spellings!ResolveMissing, at, rs, l)
  BY ResolveMissingIs
<1>3. spellings!Opens[<<at, rs, l>>] = OpensOf(spellings!Opens, at, rs, l)
  BY OpensIs
<1>4. WalkOf(spellings!Walk, at, rs, l) = spellings!Walk[<<at, spellings!At(next).to \o Tail(rs), l + 1>>]
  BY <1>a, <1>c, <1>d DEF WalkOf
<1>5. MissingOf(spellings!ResolveMissing, at, rs, l) = spellings!ResolveMissing[<<at, spellings!At(next).to \o Tail(rs), l + 1>>]
  BY <1>a, <1>c, <1>d DEF MissingOf
<1>6. OpensOf(spellings!Opens, at, rs, l) = spellings!Opens[<<at, spellings!At(next).to \o Tail(rs), l + 1>>]
  BY <1>a, <1>c, <1>d DEF OpensOf
<1> QED BY <1>1, <1>2, <1>3, <1>4, <1>5, <1>6

LEMMA TurnBack ==
  ASSUME FsOk, NEW at \in Trails, NEW rs \in Trails, rs # <<>>, Head(rs) \in Names,
         spellings!At(Append(at, Head(rs))).kind = "link"
  PROVE  spellings!Opens[<<at, rs, MaxLinks>>] = {}
<1>0. MaxLinks \in spellings!Links
  BY StepsAre
<1>1. spellings!Opens[<<at, rs, MaxLinks>>] = OpensOf(spellings!Opens, at, rs, MaxLinks)
  BY <1>0, OpensIs
<1>2. Head(rs) # ".." /\ Head(rs) # "/"
  BY StepsAre
<1>3. OpensOf(spellings!Opens, at, rs, MaxLinks) = {}
  BY <1>2 DEF OpensOf
<1> QED BY <1>1, <1>3

(* Wherever a write lands, a walk of the path finds that place, or nothing *)
(* there; and the resolution of a missing path comes to it, from as many   *)
(* links or fewer.                                                         *)
Arrives(at, rs, l) ==
  \A e \in spellings!Opens[<<at, rs, l>>] : \A k \in spellings!Links : k <= l =>
    /\ spellings!Walk[<<at, rs, k>>] = IF spellings!At(e) = spellings!Absent THEN spellings!Missing ELSE <<"ok", e>>
    /\ spellings!ResolveMissing[<<at, rs, k>>] = <<"ok", e>>

LEMMA TrailEnds ==
  ASSUME FsOk, NEW x \in Trails, NEW l \in spellings!Links
  PROVE  /\ spellings!Walk[<<x, <<>>, l>>] = <<"ok", x>> /\ spellings!ResolveMissing[<<x, <<>>, l>>] = <<"ok", x>>
         /\ spellings!Opens[<<x, <<>>, l>>] = {}
<1>1. <<>> \in Trails
  BY StepsAre
<1>2. spellings!Walk[<<x, <<>>, l>>] = <<"ok", x>>
  BY <1>1, WalkIs DEF WalkOf
<1>3. spellings!ResolveMissing[<<x, <<>>, l>>] = <<"ok", x>>
  BY <1>1, ResolveMissingIs DEF MissingOf
<1>4. spellings!Opens[<<x, <<>>, l>>] = {}
  BY <1>1, OpensIs DEF OpensOf
<1> QED BY <1>2, <1>3, <1>4

LEMMA LastStep == ASSUME NEW rs \in Trails, rs # <<>>, Len(rs) = 1 PROVE Tail(rs) = <<>>
<1> DEFINE t == Tail(rs)
<1>1. rs \in Seq(spellings!Step)
  BY DEF Trails
<1>2. t \in Seq(spellings!Step) /\ Len(t) = 0
  BY <1>1
<1> HIDE DEF t
<1>3. t = <<>>
  BY <1>2
<1> QED BY <1>3 DEF t

LEMMA OpensArrives ==
  ASSUME FsOk
  PROVE  \A at, rs \in Trails : \A l \in spellings!Links : Real(at) => Arrives(at, rs, l)
<1> DEFINE T == {w \in spellings!Walks : Real(w[1]) /\ ~Arrives(w[1], w[2], w[3])}
<1>1. ASSUME T # {} PROVE FALSE
  <2>1. PICK w \in T : \A v \in T : ~Lower(LinksLeft, StepsLeft, v, w)
    <3>1. T \in SUBSET spellings!Walks
      OBVIOUS
    <3>2. LinksLeft \in [spellings!Walks -> Nat] /\ StepsLeft \in [spellings!Walks -> Nat]
      BY WalksAreRanked DEF Ranked
    <3> HIDE DEF T
    <3> QED BY <1>1, <3>1, <3>2, LowestOf
  <2>2. PICK at \in Trails, rs \in Trails, l \in spellings!Links : w = <<at, rs, l>>
    BY DEF spellings!Walks, Trails
  <2>3. Real(at) /\ ~Arrives(at, rs, l)
    BY <2>2
  <2>4. ASSUME NEW x \in Trails, NEW y \in Trails, NEW k \in spellings!Links, Real(x),
               Lower(LinksLeft, StepsLeft, <<x, y, k>>, <<at, rs, l>>)
        PROVE  Arrives(x, y, k)
    <3>1. <<x, y, k>> \in spellings!Walks
      BY WalksAreRanked
    <3> QED BY <2>1, <2>2, <2>4, <3>1
  <2> HIDE DEF T
  <2>5. PICK e \in spellings!Opens[<<at, rs, l>>], k \in spellings!Links :
          /\ k <= l
          /\ ~(/\ spellings!Walk[<<at, rs, k>>] = IF spellings!At(e) = spellings!Absent THEN spellings!Missing ELSE <<"ok", e>>
               /\ spellings!ResolveMissing[<<at, rs, k>>] = <<"ok", e>>)
    BY <2>3 DEF Arrives
  <2>6. rs # <<>>
    BY <2>5, TrailEnds
  <2> DEFINE t == Tail(rs)
             next == Append(at, Head(rs))
  <2>7. Head(rs) \in spellings!Step /\ t \in Trails /\ next \in Trails
        /\ \A x \in Trails : Lower(LinksLeft, StepsLeft, <<x, t, l>>, <<at, rs, l>>)
    BY <2>6, WalksAreRanked, StepsAre
  <2>8. Real(<<>>) /\ Real(spellings!Up(at)) /\ <<>> \in Trails /\ spellings!Up(at) \in Trails
    BY <2>3, RealIs, RootIsReal, StepsAre
  <2>9. ASSUME NEW x \in Trails, Real(x),
               spellings!Walk[<<at, rs, k>>] = spellings!Walk[<<x, t, k>>],
               spellings!ResolveMissing[<<at, rs, k>>] = spellings!ResolveMissing[<<x, t, k>>],
               spellings!Opens[<<at, rs, l>>] = spellings!Opens[<<x, t, l>>]
        PROVE  FALSE
    <3>1. Arrives(x, t, l)
      BY <2>4, <2>7, <2>9
    <3> HIDE DEF t
    <3> QED BY <2>5, <2>9, <3>1 DEF Arrives
  <2>10. CASE Head(rs) = "/"
    BY <2>6, <2>8, <2>9, <2>10, TurnToRoot
  <2>11. CASE Head(rs) = ".."
    BY <2>3, <2>6, <2>8, <2>9, <2>11, TurnUp
  <2>12. CASE Head(rs) \in Names
    <3>1. /\ spellings!At(next).kind \in {"absent", "file", "dir", "link"}
          /\ spellings!At(next).kind = "absent" <=> spellings!At(next) = spellings!Absent
      BY ThingsAre
    <3>2. CASE spellings!At(next) = spellings!Absent
      <4>1. /\ spellings!Walk[<<at, rs, k>>] = spellings!Missing
            /\ spellings!ResolveMissing[<<at, rs, k>>] = spellings!ResolveMissing[<<next, t, k>>]
            /\ spellings!Opens[<<at, rs, l>>] = IF Len(rs) = 1 THEN {next} ELSE {}
        BY <2>3, <2>6, <2>12, <3>2, TurnMissing
      <4> HIDE DEF next
      <4>2. e = next /\ t = <<>>
        BY <2>5, <2>6, <4>1, LastStep
      <4> HIDE DEF t
      <4>3. spellings!Walk[<<next, t, k>>] = <<"ok", next>> /\ spellings!ResolveMissing[<<next, t, k>>] = <<"ok", next>>
        BY <2>7, <4>2, TrailEnds
      <4> QED BY <2>5, <3>2, <4>1, <4>2, <4>3
    <3>3. CASE spellings!At(next).kind = "file"
      <4>1. /\ spellings!Walk[<<at, rs, k>>] = spellings!Walk[<<next, t, k>>]
            /\ spellings!ResolveMissing[<<at, rs, k>>] = spellings!ResolveMissing[<<next, t, k>>]
            /\ spellings!Opens[<<at, rs, l>>] = IF Len(rs) = 1 THEN {next} ELSE {}
        BY <2>3, <2>6, <2>12, <3>3, TurnFile
      <4> HIDE DEF next
      <4>2. e = next /\ t = <<>>
        BY <2>5, <2>6, <4>1, LastStep
      <4> HIDE DEF t
      <4>3. spellings!Walk[<<next, t, k>>] = <<"ok", next>> /\ spellings!ResolveMissing[<<next, t, k>>] = <<"ok", next>>
        BY <2>7, <4>2, TrailEnds
      <4>4. spellings!At(next) # spellings!Absent
        BY <3>1, <3>3
      <4> QED BY <2>5, <4>1, <4>2, <4>3, <4>4
    <3>4. CASE spellings!At(next).kind = "dir"
      <4>1. Real(next)
        BY <2>3, <2>12, <3>4, RealGoesOn
      <4>2. /\ spellings!Walk[<<at, rs, k>>] = spellings!Walk[<<next, t, k>>]
            /\ spellings!ResolveMissing[<<at, rs, k>>] = spellings!ResolveMissing[<<next, t, k>>]
            /\ spellings!Opens[<<at, rs, l>>] = spellings!Opens[<<next, t, l>>]
        BY <2>3, <2>6, <2>12, <3>4, TurnIn
      <4> HIDE DEF next, t
      <4> QED BY <2>7, <2>9, <4>1, <4>2
    <3>5. CASE spellings!At(next).kind = "link"
      <4> DEFINE s == spellings!At(next).to \o t
      <4>1. s \in Trails
        BY <2>7, <3>5, ThingsAre, StepsAre
      <4>2. l # MaxLinks
        BY <2>5, <2>6, <2>12, <3>5, TurnBack
      <4>3. k # MaxLinks /\ k + 1 <= l + 1 /\ k + 1 \in spellings!Links
        BY <2>5, <4>2, StepsAre
      <4>4. /\ spellings!Walk[<<at, rs, k>>] = spellings!Walk[<<at, s, k + 1>>]
            /\ spellings!ResolveMissing[<<at, rs, k>>] = spellings!ResolveMissing[<<at, s, k + 1>>]
        BY <2>3, <2>6, <2>12, <3>5, <4>3, TurnAside
      <4>5. spellings!Opens[<<at, rs, l>>] = spellings!Opens[<<at, s, l + 1>>]
        BY <2>3, <2>6, <2>12, <3>5, <4>2, TurnAside
      <4> HIDE DEF s, next, t
      <4>6. l + 1 \in spellings!Links /\ Lower(LinksLeft, StepsLeft, <<at, s, l + 1>>, <<at, rs, l>>)
        BY <4>1, <4>2, WalksAreRanked
      <4>7. Arrives(at, s, l + 1)
        BY <2>3, <2>4, <4>1, <4>6
      <4> QED BY <2>5, <4>3, <4>4, <4>5, <4>7 DEF Arrives
    <3> QED BY <3>1, <3>2, <3>3, <3>4, <3>5
  <2> QED BY <2>7, <2>10, <2>11, <2>12 DEF spellings!Step
<1>2. ASSUME NEW at \in Trails, NEW rs \in Trails, NEW l \in spellings!Links, Real(at)
      PROVE  Arrives(at, rs, l)
  <2>1. <<at, rs, l>> \in spellings!Walks /\ <<at, rs, l>> \notin T
    BY <1>1, WalksAreRanked
  <2> QED BY <1>2, <2>1
<1> QED BY <1>2

(* A write that lands has first walked to the directory before the last    *)
(* step, a real place, and takes that step from there.                     *)
Splits(at, q, l) ==
  \A c \in spellings!Step : spellings!Opens[<<at, Append(q, c), l>>] # {} =>
    \E d \in Trails : \E k \in spellings!Links :
      /\ Real(d) /\ spellings!Walk[<<at, q, l>>] = <<"ok", d>>
      /\ spellings!Opens[<<at, Append(q, c), l>>] = spellings!Opens[<<d, <<c>>, k>>]

LEMMA StepsJoin ==
  ASSUME NEW c \in spellings!Step
  PROVE  /\ Append(<<>>, c) = <<c>>
         /\ \A q \in Trails : Append(q, c) \in Trails /\ Append(q, c) # <<>>
         /\ \A q \in Trails : q # <<>> =>
              /\ Head(Append(q, c)) = Head(q) /\ Tail(Append(q, c)) = Append(Tail(q), c) /\ Len(Append(q, c)) # 1
         /\ \A x, q \in Trails : x \o Append(q, c) = Append(x \o q, c)
<1>1. Append(<<>>, c) = <<c>>
  OBVIOUS
<1>2. ASSUME NEW q \in Trails PROVE Append(q, c) \in Trails /\ Append(q, c) # <<>>
  <2>1. Append(q, c) \in Trails /\ Len(Append(q, c)) = Len(q) + 1 /\ Len(q) \in Nat
    BY DEF Trails
  <2> QED BY <2>1
<1>3. ASSUME NEW q \in Trails, q # <<>>
      PROVE  Head(Append(q, c)) = Head(q) /\ Tail(Append(q, c)) = Append(Tail(q), c) /\ Len(Append(q, c)) # 1
  BY <1>3 DEF Trails
<1>4. ASSUME NEW x \in Trails, NEW q \in Trails PROVE x \o Append(q, c) = Append(x \o q, c)
  BY DEF Trails
<1> QED BY <1>1, <1>2, <1>3, <1>4

LEMMA OpensSplits ==
  ASSUME FsOk
  PROVE  \A at, q \in Trails : \A l \in spellings!Links : Real(at) => Splits(at, q, l)
<1> DEFINE T == {w \in spellings!Walks : Real(w[1]) /\ ~Splits(w[1], w[2], w[3])}
<1>1. ASSUME T # {} PROVE FALSE
  <2>1. PICK w \in T : \A v \in T : ~Lower(LinksLeft, StepsLeft, v, w)
    <3>1. T \in SUBSET spellings!Walks
      OBVIOUS
    <3>2. LinksLeft \in [spellings!Walks -> Nat] /\ StepsLeft \in [spellings!Walks -> Nat]
      BY WalksAreRanked DEF Ranked
    <3> HIDE DEF T
    <3> QED BY <1>1, <3>1, <3>2, LowestOf
  <2>2. PICK at \in Trails, q \in Trails, l \in spellings!Links : w = <<at, q, l>>
    BY DEF spellings!Walks, Trails
  <2>3. Real(at) /\ ~Splits(at, q, l)
    BY <2>2
  <2>4. ASSUME NEW x \in Trails, NEW y \in Trails, NEW k \in spellings!Links, Real(x),
               Lower(LinksLeft, StepsLeft, <<x, y, k>>, <<at, q, l>>)
        PROVE  Splits(x, y, k)
    <3>1. <<x, y, k>> \in spellings!Walks
      BY WalksAreRanked
    <3> QED BY <2>1, <2>2, <2>4, <3>1
  <2> HIDE DEF T
  <2>5. PICK c \in spellings!Step :
          /\ spellings!Opens[<<at, Append(q, c), l>>] # {}
          /\ ~ \E d \in Trails : \E k \in spellings!Links :
                 /\ Real(d) /\ spellings!Walk[<<at, q, l>>] = <<"ok", d>>
                 /\ spellings!Opens[<<at, Append(q, c), l>>] = spellings!Opens[<<d, <<c>>, k>>]
    BY <2>3 DEF Splits
  <2> DEFINE rs == Append(q, c)
  <2>6. q # <<>>
    BY <2>3, <2>5, StepsJoin, TrailEnds
  <2> DEFINE t == Tail(q)
             next == Append(at, Head(q))
  <2>7. Head(q) \in spellings!Step /\ t \in Trails /\ next \in Trails
        /\ \A x \in Trails : Lower(LinksLeft, StepsLeft, <<x, t, l>>, <<at, q, l>>)
    BY <2>6, WalksAreRanked, StepsAre
  <2>8. Real(<<>>) /\ Real(spellings!Up(at)) /\ <<>> \in Trails /\ spellings!Up(at) \in Trails
    BY <2>3, RealIs, RootIsReal, StepsAre
  <2>9. rs \in Trails /\ rs # <<>> /\ Head(rs) = Head(q) /\ Tail(rs) = Append(t, c) /\ Len(rs) # 1
    BY <2>6, StepsJoin
  <2>10. ASSUME NEW x \in Trails, NEW y \in Trails, NEW k \in spellings!Links, Splits(x, y, k),
                spellings!Walk[<<at, q, l>>] = spellings!Walk[<<x, y, k>>],
                spellings!Opens[<<at, Append(q, c), l>>] = spellings!Opens[<<x, Append(y, c), k>>]
         PROVE  FALSE
    BY <2>5, <2>10 DEF Splits
  <2> HIDE DEF rs
  <2>11. ASSUME NEW x \in Trails, Real(x),
                spellings!Walk[<<at, q, l>>] = spellings!Walk[<<x, t, l>>],
                spellings!Opens[<<at, rs, l>>] = spellings!Opens[<<x, Tail(rs), l>>]
         PROVE  FALSE
    <3>1. Splits(x, t, l)
      BY <2>4, <2>7, <2>11
    <3>2. spellings!Opens[<<at, Append(q, c), l>>] = spellings!Opens[<<x, Append(t, c), l>>]
      BY <2>9, <2>11 DEF rs
    <3> HIDE DEF t
    <3> QED BY <2>7, <2>10, <2>11, <3>1, <3>2
  <2>12. CASE Head(q) = "/"
    <3>1. spellings!Walk[<<at, q, l>>] = spellings!Walk[<<<<>>, t, l>>]
      BY <2>6, <2>12, TurnToRoot
    <3>2. spellings!Opens[<<at, rs, l>>] = spellings!Opens[<<<<>>, Tail(rs), l>>]
      <4>1. rs \in Trails /\ rs # <<>> /\ Head(rs) = "/"
        BY <2>9, <2>12
      <4> QED BY <4>1, TurnToRoot
    <3> QED BY <2>8, <2>11, <3>1, <3>2
  <2>13. CASE Head(q) = ".."
    <3>1. spellings!Walk[<<at, q, l>>] = spellings!Walk[<<spellings!Up(at), t, l>>]
      BY <2>3, <2>6, <2>13, TurnUp
    <3>2. spellings!Opens[<<at, rs, l>>] = spellings!Opens[<<spellings!Up(at), Tail(rs), l>>]
      <4>1. rs \in Trails /\ rs # <<>> /\ Head(rs) = ".."
        BY <2>9, <2>13
      <4> QED BY <2>3, <4>1, TurnUp
    <3> QED BY <2>8, <2>11, <3>1, <3>2
  <2>14. CASE Head(q) \in Names
    <3>1. /\ spellings!At(next).kind \in {"absent", "file", "dir", "link"}
          /\ spellings!At(next).kind = "absent" <=> spellings!At(next) = spellings!Absent
      BY ThingsAre
    <3>2. Head(rs) \in Names /\ Append(at, Head(rs)) = next
      BY <2>9, <2>14
    <3>3. CASE spellings!At(next) = spellings!Absent
      <4>1. spellings!Opens[<<at, rs, l>>] = {}
        <5>1. rs \in Trails /\ rs # <<>> /\ Head(rs) \in Names /\ spellings!At(Append(at, Head(rs))) = spellings!Absent
          BY <2>9, <3>2, <3>3
        <5>2. spellings!Opens[<<at, rs, l>>] = IF Len(rs) = 1 THEN {Append(at, Head(rs))} ELSE {}
          BY <2>3, <5>1, TurnMissing
        <5> QED BY <2>9, <5>2
      <4> QED BY <2>5, <4>1 DEF rs
    <3>4. CASE spellings!At(next).kind = "file"
      <4>1. spellings!Opens[<<at, rs, l>>] = {}
        <5>1. rs \in Trails /\ rs # <<>> /\ Head(rs) \in Names /\ spellings!At(Append(at, Head(rs))).kind = "file"
          BY <2>9, <3>2, <3>4
        <5>2. spellings!Opens[<<at, rs, l>>] = IF Len(rs) = 1 THEN {Append(at, Head(rs))} ELSE {}
          BY <2>3, <5>1, TurnFile
        <5> QED BY <2>9, <5>2
      <4> QED BY <2>5, <4>1 DEF rs
    <3>5. CASE spellings!At(next).kind = "dir"
      <4>1. Real(next)
        BY <2>3, <2>14, <3>5, RealGoesOn
      <4>2. spellings!Walk[<<at, q, l>>] = spellings!Walk[<<next, t, l>>]
        BY <2>3, <2>6, <2>14, <3>5, TurnIn
      <4>3. spellings!Opens[<<at, rs, l>>] = spellings!Opens[<<next, Tail(rs), l>>]
        <5>1. rs \in Trails /\ rs # <<>> /\ Head(rs) \in Names /\ spellings!At(Append(at, Head(rs))).kind = "dir"
          BY <2>9, <3>2, <3>5
        <5>2. spellings!Opens[<<at, rs, l>>] = spellings!Opens[<<Append(at, Head(rs)), Tail(rs), l>>]
          BY <2>3, <5>1, TurnIn
        <5> QED BY <3>2, <5>2
      <4> HIDE DEF next, t
      <4> QED BY <2>7, <2>11, <4>1, <4>2, <4>3
    <3>6. CASE spellings!At(next).kind = "link"
      <4> DEFINE s == spellings!At(next).to \o t
      <4>1. s \in Trails /\ spellings!At(next).to \in Trails
        BY <2>7, <3>6, ThingsAre, StepsAre
      <4>2. l # MaxLinks
        <5>1. ASSUME l = MaxLinks PROVE spellings!Opens[<<at, rs, l>>] = {}
          BY <2>9, <3>2, <3>6, <5>1, TurnBack
        <5> QED BY <2>5, <5>1 DEF rs
      <4>3. spellings!Walk[<<at, q, l>>] = spellings!Walk[<<at, s, l + 1>>]
        BY <2>3, <2>6, <2>14, <3>6, <4>2, TurnAside
      <4>4. spellings!Opens[<<at, rs, l>>] = spellings!Opens[<<at, spellings!At(next).to \o Tail(rs), l + 1>>]
        <5>1. rs \in Trails /\ rs # <<>> /\ Head(rs) \in Names /\ spellings!At(Append(at, Head(rs))).kind = "link"
          BY <2>9, <3>2, <3>6
        <5>2. spellings!Opens[<<at, rs, l>>] = spellings!Opens[<<at, spellings!At(Append(at, Head(rs))).to \o Tail(rs), l + 1>>]
          BY <2>3, <4>2, <5>1, TurnAside
        <5> QED BY <3>2, <5>2
      <4>5. spellings!At(next).to \o Tail(rs) = Append(s, c)
        <5>1. spellings!At(next).to \o Append(t, c) = Append(spellings!At(next).to \o t, c)
          <6> HIDE DEF t, next
          <6> QED BY <2>7, <4>1, StepsJoin
        <5> QED BY <2>9, <5>1
      <4>6. l + 1 \in spellings!Links /\ Lower(LinksLeft, StepsLeft, <<at, s, l + 1>>, <<at, q, l>>)
        <5> HIDE DEF s
        <5> QED BY <4>1, <4>2, WalksAreRanked
      <4> HIDE DEF s, next, t
      <4>7. Splits(at, s, l + 1)
        BY <2>3, <2>4, <4>1, <4>6
      <4>8. spellings!Opens[<<at, Append(q, c), l>>] = spellings!Opens[<<at, Append(s, c), l + 1>>]
        BY <4>4, <4>5 DEF rs
      <4> QED BY <2>10, <4>1, <4>3, <4>6, <4>7, <4>8
    <3> QED BY <3>1, <3>3, <3>4, <3>5, <3>6
  <2> QED BY <2>7, <2>12, <2>13, <2>14 DEF spellings!Step
<1>2. ASSUME NEW at \in Trails, NEW q \in Trails, NEW l \in spellings!Links, Real(at)
      PROVE  Splits(at, q, l)
  <2>1. <<at, q, l>> \in spellings!Walks /\ <<at, q, l>> \notin T
    BY <1>1, WalksAreRanked
  <2> QED BY <1>2, <2>1
<1> QED BY <1>2

-----------------------------------------------------------------------------
(* What the hook has of a path: where it leads, and the name at its end in *)
(* the directory that the rest of it leads to.                             *)
Offers(S, p) ==
  /\ spellings!Succeeds(spellings!EvalSymlinks(p)) => spellings!EvalSymlinks(p)[2] \in S
  /\ p # <<>> /\ spellings!Last(p) # ".." /\ spellings!Succeeds(spellings!EvalSymlinks(spellings!Front(p))) =>
       Append(spellings!EvalSymlinks(spellings!Front(p))[2], spellings!Last(p)) \in S

LEMMA SpelledOffers ==
  ASSUME FsOk, NEW p \in Trails
  PROVE  Offers(spellings!Spelled(p), p) /\ Offers(spellings!Spelled(p), spellings!Clean[p])
<1> DEFINE S == spellings!Spelled(p)
           c == spellings!Clean[p]
<1>1. /\ spellings!Canon[c] \in S /\ spellings!Physical[p] \in S
      /\ \A x \in spellings!EntryOf(c, spellings!Canon[spellings!Up(c)]) : x \in S
      /\ \A x \in spellings!EntryOf(p, spellings!Physical[spellings!Up(p)]) : x \in S
  BY DEF spellings!Spelled
<1>2. c \in Trails
  BY CleanIs
<1>3. \A q \in Trails : spellings!Succeeds(spellings!EvalSymlinks(q)) =>
        /\ spellings!Canon[q] = spellings!EvalSymlinks(q)[2]
        /\ spellings!Physical[q] = spellings!EvalSymlinks(q)[2]
  BY CanonIs, PhysicalIs DEF CanonOf, PhysicalOf
<1> HIDE DEF S, c
<1>4. \A q \in Trails : q # <<>> => spellings!Up(q) = spellings!Front(q) /\ spellings!Front(q) \in Trails
  BY FrontsOfTrails DEF spellings!Up
<1>5. Offers(S, p)
  <2>1. ASSUME p # <<>>, spellings!Last(p) # "..", spellings!Succeeds(spellings!EvalSymlinks(spellings!Front(p)))
        PROVE  Append(spellings!EvalSymlinks(spellings!Front(p))[2], spellings!Last(p)) \in S
    <3>1. spellings!Physical[spellings!Up(p)] = spellings!EvalSymlinks(spellings!Front(p))[2]
      BY <1>3, <1>4, <2>1
    <3> QED BY <1>1, <2>1, <3>1 DEF spellings!EntryOf
  <2>2. spellings!Succeeds(spellings!EvalSymlinks(p)) => spellings!EvalSymlinks(p)[2] \in S
    BY <1>1, <1>3
  <2> QED BY <2>1, <2>2 DEF Offers
<1>6. Offers(S, c)
  <2>1. ASSUME c # <<>>, spellings!Last(c) # "..", spellings!Succeeds(spellings!EvalSymlinks(spellings!Front(c)))
        PROVE  Append(spellings!EvalSymlinks(spellings!Front(c))[2], spellings!Last(c)) \in S
    <3>1. spellings!Canon[spellings!Up(c)] = spellings!EvalSymlinks(spellings!Front(c))[2]
      BY <1>2, <1>3, <1>4, <2>1
    <3> QED BY <1>1, <2>1, <3>1 DEF spellings!EntryOf
  <2>2. spellings!Succeeds(spellings!EvalSymlinks(c)) => spellings!EvalSymlinks(c)[2] \in S
    BY <1>1, <1>2, <1>3
  <2> QED BY <2>1, <2>2 DEF Offers
<1> QED BY <1>5, <1>6 DEF S, c

LEMMA UnlinkIsOffered ==
  ASSUME NEW S, NEW p, Offers(S, p), NEW e \in spellings!Unlinks(p)
  PROVE  e \in S
<1>1. p # <<>> /\ spellings!Last(p) # ".." /\ spellings!Succeeds(spellings!Lstat(p)) /\ e = spellings!Lstat(p)[2]
  BY DEF spellings!Unlinks
<1> DEFINE r == spellings!EvalSymlinks(spellings!Front(p))
<1>2. spellings!Succeeds(r)
  <2> HIDE DEF r
  <2>1. ~spellings!Succeeds(r) => spellings!Lstat(p) = r
    BY DEF spellings!Lstat, r
  <2> QED BY <1>1, <2>1
<1> HIDE DEF r
<1>3. ~spellings!Succeeds(spellings!Error) /\ ~spellings!Succeeds(spellings!Missing)
  BY DEF spellings!Succeeds, spellings!Error, spellings!Missing
<1>4. spellings!Lstat(p) = <<"ok", Append(r[2], spellings!Last(p))>>
  BY <1>1, <1>2, <1>3 DEF spellings!Lstat, r
<1>5. e = Append(r[2], spellings!Last(p))
  BY <1>1, <1>4
<1> QED BY <1>1, <1>2, <1>5 DEF Offers, r

(* The last step of a write lands at its name, or there is a link there.   *)
LEMMA LastStepLands ==
  ASSUME FsOk, NEW d \in Trails, Real(d), NEW rs \in Trails, NEW k \in spellings!Links,
         rs # <<>>, Tail(rs) = <<>>, NEW e \in spellings!Opens[<<d, rs, k>>]
  PROVE  /\ Head(rs) \in Names
         /\ e = Append(d, Head(rs)) \/ spellings!At(Append(d, Head(rs))).kind = "link"
<1>1. \A x \in Trails : spellings!Opens[<<x, <<>>, k>>] = {}
  BY TrailEnds
<1>2. /\ <<>> \in Trails /\ spellings!Up(d) \in Trails /\ Head(rs) \in spellings!Step
      /\ Append(d, Head(rs)) \in Trails
  BY RealIs, StepsAre, WalksAreRanked
<1>3. Head(rs) # "/"
  <2>1. ASSUME Head(rs) = "/" PROVE spellings!Opens[<<d, rs, k>>] = spellings!Opens[<<<<>>, Tail(rs), k>>]
    BY <2>1, TurnToRoot
  <2> QED BY <1>1, <1>2, <2>1
<1>4. Head(rs) # ".."
  <2>1. ASSUME Head(rs) = ".." PROVE spellings!Opens[<<d, rs, k>>] = spellings!Opens[<<spellings!Up(d), Tail(rs), k>>]
    BY <2>1, TurnUp
  <2> QED BY <1>1, <1>2, <2>1
<1>5. Head(rs) \in Names
  BY <1>2, <1>3, <1>4 DEF spellings!Step
<1>6. CASE spellings!At(Append(d, Head(rs))) = spellings!Absent
  <2>1. spellings!Opens[<<d, rs, k>>] = IF Len(rs) = 1 THEN {Append(d, Head(rs))} ELSE {}
    BY <1>5, <1>6, TurnMissing
  <2> QED BY <1>5, <2>1
<1>7. CASE spellings!At(Append(d, Head(rs))).kind = "file"
  <2>1. spellings!Opens[<<d, rs, k>>] = IF Len(rs) = 1 THEN {Append(d, Head(rs))} ELSE {}
    BY <1>5, <1>7, TurnFile
  <2> QED BY <1>5, <2>1
<1>8. CASE spellings!At(Append(d, Head(rs))).kind = "dir"
  <2>1. spellings!Opens[<<d, rs, k>>] = spellings!Opens[<<Append(d, Head(rs)), Tail(rs), k>>]
    BY <1>5, <1>8, TurnIn
  <2> QED BY <1>1, <1>2, <2>1
<1> QED BY <1>5, <1>6, <1>7, <1>8, ThingsAre

LEMMA NameIsJoined == ASSUME NEW d \in Trails, NEW c \in spellings!Step PROVE Append(d, c) = d \o <<c>>
BY DEF Trails

(* Where a write of the path lands is offered, or it is what a dangling    *)
(* link that is offered would create.                                      *)
LEMMA WriteIsOffered ==
  ASSUME FsOk, NEW S, NEW p \in Trails, Offers(S, p), NEW e \in spellings!Opens[<<<<>>, p, 0>>]
  PROVE  e \in S \/ \E x \in S : spellings!DanglingTarget(x) = {<<"ok", e>>}
<1>1. <<>> \in Trails /\ 0 \in spellings!Links /\ Real(<<>>)
  BY StepsAre, RootIsReal
<1>2. spellings!Walk[<<<<>>, p, 0>>] = IF spellings!At(e) = spellings!Absent THEN spellings!Missing ELSE <<"ok", e>>
  <2>1. Arrives(<<>>, p, 0)
    BY <1>1, OpensArrives
  <2>2. 0 <= 0
    OBVIOUS
  <2> QED BY <1>1, <2>1, <2>2 DEF Arrives
<1>3. CASE spellings!At(e) # spellings!Absent
  <2>1. spellings!EvalSymlinks(p) = <<"ok", e>>
    BY <1>2, <1>3, EvalIs
  <2> QED BY <2>1 DEF Offers, spellings!Succeeds
<1>4. CASE spellings!At(e) = spellings!Absent
  <2>1. p # <<>>
    BY <1>1, TrailEnds
  <2> DEFINE q == spellings!Front(p)
             c == spellings!Last(p)
  <2>2. q \in Trails /\ c \in spellings!Step /\ p = Append(q, c)
    <3>1. p \in Seq(spellings!Step)
      BY DEF Trails
    <3> QED BY <2>1, <3>1, FrontIs, FrontsOfTrails
  <2> HIDE DEF q, c
  <2>3. PICK d \in Trails, k \in spellings!Links :
          /\ Real(d) /\ spellings!Walk[<<<<>>, q, 0>>] = <<"ok", d>>
          /\ e \in spellings!Opens[<<d, <<c>>, k>>]
    <3>1. Splits(<<>>, q, 0)
      BY <1>1, <2>2, OpensSplits
    <3> QED BY <2>2, <3>1 DEF Splits
  <2> DEFINE rs == <<c>>
             n == Append(d, c)
  <2>4. rs \in Trails /\ rs # <<>> /\ Head(rs) = c /\ Tail(rs) = <<>>
    BY <2>2 DEF Trails
  <2>5. e \in spellings!Opens[<<d, rs, k>>]
    BY <2>3
  <2> HIDE DEF rs
  <2>6. c \in Names /\ (e = n \/ spellings!At(n).kind = "link")
    <3>1. Head(rs) \in Names /\ (e = Append(d, Head(rs)) \/ spellings!At(Append(d, Head(rs))).kind = "link")
      BY <2>3, <2>4, <2>5, LastStepLands
    <3> QED BY <2>4, <3>1
  <2>7. n \in S
    <3>1. spellings!EvalSymlinks(q) = <<"ok", d>>
      BY <2>2, <2>3, EvalIs
    <3>2. c # ".."
      BY <2>6, StepsAre
    <3> QED BY <2>1, <3>1, <3>2 DEF Offers, spellings!Succeeds, q, c
  <2>8. n \in Trails
    BY <2>2, StepsAre
  <2>9. CASE e = n
    BY <2>7, <2>9
  <2>10. CASE spellings!At(n).kind = "link"
    <3>1. spellings!Walk[<<d, rs, 0>>] = spellings!Missing /\ spellings!ResolveMissing[<<d, rs, 0>>] = <<"ok", e>>
      <4>1. Arrives(d, rs, k) /\ 0 <= k
        BY <2>3, <2>4, OpensArrives, StepsAre
      <4> QED BY <1>1, <1>4, <2>5, <4>1 DEF Arrives
    <3>2. n = d \o rs
      BY <2>2, NameIsJoined DEF rs
    <3> HIDE DEF n
    <3>3. spellings!EvalSymlinks(n) = spellings!Missing
      BY <1>1, <2>3, <2>4, <2>8, <3>1, <3>2, EvalIs, WalkGoesOn
    <3>4. spellings!Followed(n) = <<"ok", e>>
      BY <1>1, <2>3, <2>4, <3>1, <3>2, MissingGoesOn DEF spellings!Followed
    <3>5. spellings!Lstat(n) = <<"ok", n>>
      BY <2>3, <2>6, <2>10, LstatIs, ThingsAre DEF n
    <3>6. /\ spellings!Lstat(n) # spellings!Missing /\ spellings!Lstat(n) # spellings!Error
          /\ spellings!Succeeds(spellings!Lstat(n)) /\ spellings!Lstat(n)[2] = n
          /\ ~spellings!Succeeds(spellings!EvalSymlinks(n))
      BY <3>3, <3>5 DEF spellings!Missing, spellings!Error, spellings!Succeeds
    <3>7. spellings!Dangles(n)
      BY <2>10, <3>6 DEF spellings!Dangles
    <3>8. spellings!DanglingTarget(n) = {<<"ok", e>>}
      BY <3>4, <3>6, <3>7 DEF spellings!DanglingTarget
    <3> QED BY <2>7, <3>8
  <2> QED BY <2>6, <2>9, <2>10
<1> QED BY <1>3, <1>4

(* The hook asks once, of every spelling and of what the dangling links    *)
(* among them would create; then the tool lands, on what was asked about.  *)
Gathered ==
  LET beyond == UNION {spellings!DanglingTarget(e) : e \in spellings!Spelled(path)} IN
  spellings!Spelled(path) \cup {r[2] : r \in {b \in beyond : spellings!Succeeds(b)}}

SpellingsParts ==
  /\ FsOk /\ path \in Trails
  /\ asked # {} => asked = Gathered
  /\ landed \subseteq asked

(* What the files are decides every resolution.                            *)
LEMMA FilesDecide ==
  ASSUME UNCHANGED <<fs, path>>
  PROVE  Gathered' = Gathered
<1>1. spellings!Walk' = spellings!Walk
  BY DEF spellings!Walk, spellings!At
<1>2. spellings!Canon' = spellings!Canon
  BY DEF spellings!Canon, spellings!EvalSymlinks, spellings!Walk, spellings!At
<1>3. spellings!Physical' = spellings!Physical
  BY DEF spellings!Physical, spellings!Canon, spellings!EvalSymlinks, spellings!Walk, spellings!At
<1>4. spellings!ResolveMissing' = spellings!ResolveMissing
  BY DEF spellings!ResolveMissing, spellings!Lstat, spellings!EvalSymlinks, spellings!Walk, spellings!At
<1>5. spellings!Spelled(path)' = spellings!Spelled(path)
  BY <1>2, <1>3 DEF spellings!Spelled, spellings!EntryOf
<1>6. \A e : spellings!EvalSymlinks(e)' = spellings!EvalSymlinks(e) /\ spellings!At(e)' = spellings!At(e)
  BY <1>1 DEF spellings!EvalSymlinks, spellings!At
<1>7. \A e : spellings!Lstat(e)' = spellings!Lstat(e)
  BY <1>6 DEF spellings!Lstat
<1>8. \A e : spellings!Dangles(e)' = spellings!Dangles(e) /\ spellings!Followed(e)' = spellings!Followed(e)
  BY <1>4, <1>6, <1>7 DEF spellings!Dangles, spellings!Followed
<1>9. \A e : spellings!DanglingTarget(e)' = spellings!DanglingTarget(e)
  BY <1>7, <1>8 DEF spellings!DanglingTarget
<1> QED BY <1>5, <1>9 DEF Gathered

LEMMA SpellingsBegin == spellings!Init => SpellingsParts
<1>1. ASSUME NEW n \in 1..MaxPath, NEW p \in [1..n -> Names \cup {".."}] PROVE p \in Trails
  <2>1. p \in [1..n -> spellings!Step] /\ n \in Nat
    BY StepsAre
  <2> QED BY <2>1 DEF Trails
<1> QED BY <1>1 DEF spellings!Init, SpellingsParts, FsOk

LEMMA GateTargetsKeep == SpellingsParts /\ spellings!GateTargets => SpellingsParts'
<1> SUFFICES ASSUME SpellingsParts, spellings!GateTargets
             PROVE  SpellingsParts'
  OBVIOUS
<1>1. asked' = Gathered /\ asked = {} /\ UNCHANGED <<fs, path, landed>>
  BY DEF spellings!GateTargets, Gathered
<1>2. Gathered' = Gathered
  BY <1>1, FilesDecide
<1> QED BY <1>1, <1>2 DEF SpellingsParts, FsOk, Trails

LEMMA LandsKeeps == SpellingsParts /\ spellings!Lands => SpellingsParts'
<1> SUFFICES ASSUME SpellingsParts, spellings!Lands
             PROVE  SpellingsParts'
  OBVIOUS
<1>1. PICK p \in {path, spellings!Clean[path]} :
        \E e \in spellings!Opens[<<<<>>, p, 0>>] \cup spellings!Unlinks(p) : landed' = {e}
  BY DEF spellings!Lands
<1>2. PICK e \in spellings!Opens[<<<<>>, p, 0>>] \cup spellings!Unlinks(p) : landed' = {e}
  BY <1>1
<1>3. asked # {} /\ UNCHANGED <<fs, path, asked>>
  BY DEF spellings!Lands
<1>4. FsOk /\ path \in Trails /\ asked = Gathered
  BY <1>3 DEF SpellingsParts
<1> DEFINE S == spellings!Spelled(path)
<1>5. p \in Trails /\ Offers(S, p)
  BY <1>1, <1>4, CleanIs, SpelledOffers
<1> HIDE DEF S
<1>6. e \in S \/ \E x \in S : spellings!DanglingTarget(x) = {<<"ok", e>>}
  BY <1>2, <1>4, <1>5, UnlinkIsOffered, WriteIsOffered
<1>7. e \in asked
  <2>1. ASSUME NEW x \in S, spellings!DanglingTarget(x) = {<<"ok", e>>} PROVE e \in Gathered
    <3>1. <<"ok", e>> \in UNION {spellings!DanglingTarget(y) : y \in spellings!Spelled(path)}
      BY <2>1 DEF S
    <3>2. spellings!Succeeds(<<"ok", e>>) /\ <<"ok", e>>[2] = e
      BY DEF spellings!Succeeds
    <3> QED BY <3>1, <3>2 DEF Gathered
  <2>2. e \in S => e \in Gathered
    BY DEF Gathered, S
  <2> QED BY <1>4, <1>6, <2>1, <2>2
<1>8. Gathered' = Gathered
  BY <1>3, FilesDecide
<1> QED BY <1>2, <1>3, <1>4, <1>7, <1>8 DEF SpellingsParts, FsOk, Trails

SpellingsInv == part = "spellings" => SpellingsParts

(* gateTargets: the inductive invariant of the spellings.                  *)
THEOREM SpellingsInvariant == Spec => []SpellingsInv
<1>1. Init => SpellingsInv
  BY SpellingsBegin DEF Init, SpellingsInv
<1>2. SpellingsInv /\ [Next]_vars => SpellingsInv'
  <2> SUFFICES ASSUME SpellingsInv, [Next]_vars, part' = "spellings"
               PROVE  SpellingsParts'
    BY DEF SpellingsInv
  <2>1. CASE SpellingsNext
    <3>1. SpellingsParts /\ spellings!Next
      BY <2>1 DEF SpellingsNext, SpellingsInv
    <3> QED BY <3>1, GateTargetsKeep, LandsKeeps DEF spellings!Next
  <2>2. CASE UNCHANGED vars
    <3>1. SpellingsParts /\ UNCHANGED <<fs, path, asked, landed>>
      BY <2>2 DEF vars, onlySpellings, SpellingsInv
    <3>2. Gathered' = Gathered
      BY <3>1, FilesDecide
    <3> QED BY <3>1, <3>2 DEF SpellingsParts, FsOk, Trails
  <2>3. ~ (GateNext \/ BrakeNext \/ DiscoveryNext)
    BY DEF GateNext, BrakeNext, DiscoveryNext
  <2> QED BY <2>1, <2>2, <2>3 DEF Next
<1> QED BY <1>1, <1>2, PTL DEF Spec

(* gateTargets: whatever the links are and however the path is spelled,    *)
(* the hook has asked about the place that the tool writes or unlinks.     *)
THEOREM LandingsAreAsked == Spec => []EveryLandingIsAsked
<1>1. SpellingsInv => EveryLandingIsAsked
  BY DEF SpellingsInv, SpellingsParts, EveryLandingIsAsked, spellings!EveryLandingIsAsked
<1> QED BY <1>1, SpellingsInvariant, PTL
=============================================================================
