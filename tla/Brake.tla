------------------------------- MODULE Brake -------------------------------
(***************************************************************************)
(* The operator's brake: pause and resume, the resolution of the name that *)
(* they are given, and the hook that reads it (internal/store/target.go,   *)
(* store.go Pause, Resume and PausedFor, internal/cli/cli.go).  A name is  *)
(* resolved in one query and written in another, a hook reads its label in *)
(* one query and the brake in another, and sessions take other labels and  *)
(* claims other owners between them.                                       *)
(***************************************************************************)
EXTENDS Naturals, FiniteSets

CONSTANTS
  Session,   \* session ids
  Label,     \* the labels that sessions give themselves: not unique, and
             \* nothing keeps one from being another's id, or the word "all"
  Short,     \* the short forms
  Slug,      \* the slugs of claims
  Suffix,    \* [Label -> SUBSET Short]: the short form that ends a label
  Legacy,    \* what rows of before the resolution may be about
  Operator,  \* commands that run at once
  None

All == "all"
Name == Session \cup Label \cup Short \cup Slug \cup {All}

NamesAssumption ==
  /\ Suffix \in [Label -> SUBSET Short] /\ Legacy \subseteq Name
  /\ None \notin Name

VARIABLES
  label,     \* of every session; None: never registered
  owner,     \* of every slug's open claim
  controls,  \* the targets of the pauses not yet cleared
  op,        \* the commands in progress
  gate,      \* the hook of every session
  braked     \* ghost: what the operator has paused and not resumed

vars == <<label, owner, controls, op, gate, braked>>

Idle == [verb |-> None, raw |-> None, id |-> None, label |-> None]
(* Who a command is for, as it resolved. *)
Target(verb, raw, t) == [verb |-> verb, raw |-> raw, id |-> t, label |-> IF t = All THEN None ELSE label[t]]

Resting == [step |-> "idle", label |-> None, since |-> {}]

TypeOK ==
  /\ label \in [Session -> Label \cup {None}] /\ owner \in [Slug -> Session \cup {None}]
  /\ controls \subseteq Name /\ braked \subseteq Session \cup {All}
  /\ op \in [Operator -> [verb : {None, "pause", "resume"}, raw : Name \cup {None},
                          id : Session \cup {All, None}, label : Label \cup {None}]]
  /\ gate \in [Session -> [step : {"idle", "label", "brake", "passed"}, label : Label \cup {None},
                           since : SUBSET (Session \cup {All})]]

Init ==
  /\ label = [s \in Session |-> None] /\ owner = [k \in Slug |-> None]
  /\ controls \in SUBSET Legacy /\ braked = {}
  /\ op = [o \in Operator |-> Idle] /\ gate = [s \in Session |-> Resting]

-----------------------------------------------------------------------------
(* ResolveTarget.                                                          *)
Registered == {s \in Session : label[s] # None}

OpenSlugOwner(slug) == owner[slug]

Bearers(raw, form) ==
  CASE form = "id"    -> {raw} \cap Registered
    [] form = "label" -> {s \in Registered : label[s] = raw}
    [] form = "short" -> {s \in Registered : raw \in Suffix[label[s]]}
    [] form = "slug"  -> {s \in Registered : raw \in Slug /\ OpenSlugOwner(raw) = s}

Forms == <<"id", "label", "short", "slug">>

(* The first form in which the name means anything decides. *)
Named(raw) ==
  UNION {Bearers(raw, Forms[i]) : i \in {j \in 1..4 : \A e \in 1..(j - 1) : Bearers(raw, Forms[e]) = {}}}

(* Readers match an id also against labels and the reserved word. *)
Unmistakable(s) == s # All /\ \A u \in Registered \ {s} : label[u] # s

(* Nobody, where it is ambiguous, or where the id is also another's name. *)
ResolveTarget(raw) ==
  IF raw = All THEN {All}
  ELSE LET who == Named(raw)
       IN {s \in who : who = {s} /\ Unmistakable(s)}

Resolves(o, verb, raw) ==
  /\ op[o] = Idle
  /\ \E t \in ResolveTarget(raw) :
       op' = [op EXCEPT ![o] = Target(verb, raw, t)]
  /\ UNCHANGED <<label, owner, controls, gate, braked>>

(* Mutant: what was typed is stored. *)
TypedTarget(t) == t.raw

StoredTarget(t) == t.id

Pause(o) ==
  /\ op[o].verb = "pause"
  /\ controls' = controls \cup {StoredTarget(op[o])} /\ braked' = braked \cup {op[o].id}
  /\ op' = [op EXCEPT ![o] = Idle]
  /\ UNCHANGED <<label, owner, gate>>

(* Mutant: a resume forgets the rows that carry a label. *)
ClearsTyped(t) == {t.id, t.raw}

Clears(t) == {t.id, t.raw, t.label}

(* Who else it is the resume of: whose id, or the word for everybody, the  *)
(* session goes by (FleetBrakeStands, ResumeIsItsOwn).                     *)
Lifted(t) == {t.id} \cup {n \in Session \cup {All} : n \in {t.raw, t.label}}

Resume(o) ==
  /\ op[o].verb = "resume"
  /\ controls' = controls \ Clears(op[o]) /\ braked' = braked \ Lifted(op[o])
  /\ gate' = [s \in Session |-> [gate[s] EXCEPT !.since = @ \ Lifted(op[o])]]
  /\ op' = [op EXCEPT ![o] = Idle]
  /\ UNCHANGED <<label, owner>>

-----------------------------------------------------------------------------
(* cmdGate: the label, then the brake.                                     *)
GateBegins(s) ==
  /\ gate[s].step = "idle"
  /\ gate' = [gate EXCEPT ![s] = [step |-> "label", label |-> None, since |-> braked \cap {s, All}]]
  /\ UNCHANGED <<label, owner, controls, op, braked>>

SessionLabel(s) ==
  /\ gate[s].step = "label"
  /\ gate' = [gate EXCEPT ![s] = [step |-> "brake", label |-> label[s], since |-> @.since]]
  /\ UNCHANGED <<label, owner, controls, op, braked>>

PausedFor(s, l) == controls \cap {s, l, All} # {}

GateReads(s) ==
  /\ gate[s].step = "brake"
  /\ gate' = [gate EXCEPT ![s] = IF PausedFor(s, @.label) THEN Resting
                                ELSE [step |-> "passed", label |-> @.label, since |-> @.since]]
  /\ UNCHANGED <<label, owner, controls, op, braked>>

GateEnds(s) ==
  /\ gate[s].step = "passed" /\ gate' = [gate EXCEPT ![s] = Resting]
  /\ UNCHANGED <<label, owner, controls, op, braked>>

-----------------------------------------------------------------------------
(* Meanwhile: a hello with a label, and a claim opened or closed.          *)
Hello(s, l) ==
  /\ label' = [label EXCEPT ![s] = l] /\ UNCHANGED <<owner, controls, op, gate, braked>>

Claim(s, k) ==
  /\ owner[k] = None /\ s \in Registered
  /\ owner' = [owner EXCEPT ![k] = s] /\ UNCHANGED <<label, controls, op, gate, braked>>

Release(k) ==
  /\ owner[k] # None
  /\ owner' = [owner EXCEPT ![k] = None] /\ UNCHANGED <<label, controls, op, gate, braked>>

Next ==
  \/ \E o \in Operator :
       \/ \E raw \in Name : Resolves(o, "pause", raw) \/ Resolves(o, "resume", raw)
       \/ Pause(o) \/ Resume(o)
  \/ \E s \in Session :
       \/ GateBegins(s) \/ SessionLabel(s) \/ GateReads(s) \/ GateEnds(s)
       \/ \E l \in Label : Hello(s, l)
       \/ \E k \in Slug : Claim(s, k)
  \/ \E k \in Slug : Release(k)

Spec == Init /\ [][Next]_vars

-----------------------------------------------------------------------------
(* Pause: no tool call of a session passes while a pause that was          *)
(* acknowledged before it, under whatever name, stands: a new label, or a  *)
(* claim handed on, does not shake it off.  It stands until the session,   *)
(* or one that goes by its id (by "all", for everybody's), is resumed.     *)
BrakeHolds == \A s \in Session : gate[s].step = "passed" => gate[s].since = {}

(* Resume: "a resume that missed them would strand a live pause that the   *)
(* gate keeps enforcing and no verb can lift": for whatever stops a        *)
(* session there is a name under which a resume clears it.  (An id that is *)
(* another's label as well ResolveTarget refuses, and says so.)            *)
NothingStranded ==
  \A s \in {r \in Registered : Unmistakable(r)}, t \in controls \cap ({All} \cup Session \cup Label) :
    t \in {s, label[s], All} =>
      \E raw \in Name : \E r \in ResolveTarget(raw) :
        t \in Clears([raw |-> raw, id |-> r, label |-> IF r = All THEN None ELSE label[r]])

(* What is paused stays so until a resume lifts it, and one can.           *)
PausesAreKept == BrakeHolds /\ NothingStranded

Stopped(s) == s \in Registered /\ PausedFor(s, label[s])

-----------------------------------------------------------------------------
(* What the code says of itself and does not keep: no run checks them,     *)
(* and the README tells what breaks each.                                  *)

(* Resume: "Clearing by label is safe here only because ResolveTarget      *)
(* refuses a label held by more than one session": a resume of one session *)
(* releases no other.                                                      *)
ResumeIsItsOwn ==
  [][\A o \in Operator : op[o].verb = "resume" /\ op[o].id # All /\ op'[o] = Idle =>
       \A s \in Session \ {op[o].id} : Stopped(s) => Stopped(s)']_vars

(* AllTarget: "the reserved fleet-wide word.  It is not a name to resolve  *)
(* -- no session may shadow it": what pauses everybody is lifted for       *)
(* everybody at once, by that word.                                        *)
FleetBrakeStands ==
  [][\A o \in Operator : op[o].verb = "resume" /\ op[o].id # All /\ op'[o] = Idle /\ All \in controls
       => All \in controls']_vars
=============================================================================
