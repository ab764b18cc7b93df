------------------------------ MODULE MCHooks ------------------------------
(* What a hook of the command line has to make out before a tool may run:  *)
(* which repository it is in, where a path leads, whether a brake is on,   *)
(* and what the ledgers say of every target. A behaviour is of one of the  *)
(* four, the part; GateHook takes what the other three find as its input.  *)
EXTENDS Naturals

CONSTANTS
  Repo, Place, NoRepo,
  Session, Label, Short, Slug, Legacy, Operator,
  Names, Entry, LinkTarget, MaxPath, MaxLinks,
  Depth, Redirects, MaxChanges

VARIABLES
  part,
  ledger, held, paused, slot, changes, call, pc, todo, home, repos, since, ever,
  label, owner, controls, op, gate, braked,
  fs, path, asked, refused, landed,
  dir, away, gitThere, from, rest, found, result, seen, blind, lost

(* A repository with another nested in it, and places in each and outside. *)
Inside == [r \in Repo |-> IF r = "outer" THEN {"x", "n"} ELSE {"n"}]
Nearest == [c \in Place |-> CASE c = "x" -> "outer" [] c = "n" -> "nested" [] OTHER -> NoRepo]

gatehook == INSTANCE GateHook

(* Two sessions, who may share a label, one with a short form, and be      *)
(* called, as may a claim, by the id of one of them.                       *)
Suffix == [l \in Label |-> IF l = "w/s-1" THEN {"s-1"} ELSE {}]

brake == INSTANCE Brake WITH None <- "none"

(* Two directories, one inside the other or beside it, with links among    *)
(* them: to a neighbour, out of the directory, into another, over a link.  *)
MCEntry == {<<"a">>, <<"b">>, <<"a", "a">>, <<"a", "b">>, <<"b", "a">>, <<"a", "b", "a">>}
MCLinkTarget == {<<"b">>, <<"/", "a", "b">>, <<"..", "a">>, <<"..", "b", "a">>, <<"b", "..", "a">>}

spellings == INSTANCE Spellings

discovery == INSTANCE Discovery

ASSUME Geometry == gatehook!GeometryAssumption
ASSUME NamesGiven == brake!NamesAssumption
ASSUME PathsGiven == spellings!PathsAssumption
ASSUME DepthGiven == discovery!DepthAssumption

-----------------------------------------------------------------------------
(* The steps of a gate call and of a discovery are counted alike.          *)
onlyGate == <<ledger, held, paused, slot, call, todo, home, repos, since, ever>>
onlyBrake == <<label, owner, controls, op, gate, braked>>
onlySpellings == <<fs, path, refused, landed>>
onlyDiscovery == <<dir, away, gitThere, from, rest, found, result, seen, blind, lost>>
vars == <<part, changes, pc, asked, onlyGate, onlyBrake, onlySpellings, onlyDiscovery>>

NoGate ==
  /\ ledger = 0 /\ held = 0 /\ paused = 0 /\ slot = 0 /\ call = 0
  /\ todo = 0 /\ home = 0 /\ repos = 0 /\ since = 0 /\ ever = 0
NoBrake == label = 0 /\ owner = 0 /\ controls = 0 /\ op = 0 /\ gate = 0 /\ braked = 0
NoSpellings == fs = 0 /\ path = 0 /\ refused = 0 /\ landed = 0
NoDiscovery ==
  /\ dir = 0 /\ away = 0 /\ gitThere = 0 /\ from = 0
  /\ rest = 0 /\ found = 0 /\ result = 0 /\ seen = 0 /\ blind = 0 /\ lost = 0

Init ==
  \/ /\ part = "gate" /\ gatehook!Init
     /\ asked = 0 /\ NoBrake /\ NoSpellings /\ NoDiscovery
  \/ /\ part = "brake" /\ brake!Init
     /\ changes = 0 /\ pc = 0 /\ asked = 0 /\ NoGate /\ NoSpellings /\ NoDiscovery
  \/ /\ part = "spellings" /\ spellings!Init
     /\ changes = 0 /\ pc = 0 /\ NoGate /\ NoBrake /\ NoDiscovery
  \/ /\ part = "discovery" /\ discovery!Init
     /\ NoGate /\ NoBrake /\ NoSpellings

GateNext ==
  part = "gate" /\ gatehook!Next /\ UNCHANGED <<part, asked, onlyBrake, onlySpellings, onlyDiscovery>>
BrakeNext ==
  /\ part = "brake" /\ brake!Next
  /\ UNCHANGED <<part, changes, pc, asked, onlyGate, onlySpellings, onlyDiscovery>>
SpellingsNext ==
  /\ part = "spellings" /\ spellings!Next
  /\ UNCHANGED <<part, changes, pc, onlyGate, onlyBrake, onlyDiscovery>>
DiscoveryNext ==
  part = "discovery" /\ discovery!Next /\ UNCHANGED <<part, onlyGate, onlyBrake, onlySpellings>>

Next == GateNext \/ BrakeNext \/ SpellingsNext \/ DiscoveryNext

Spec == Init /\ [][Next]_vars

-----------------------------------------------------------------------------
(* cmdGate: a call it lets through was free of every brake and claim that  *)
(* stood all along, and off stays off.                                     *)
VerdictIsALedgers == part = "gate" => gatehook!VerdictIsALedgers

(* PausedFor: a pause that was acknowledged stops every later call, and    *)
(* every pause can be lifted.                                              *)
PausesAreKept == part = "brake" => brake!PausesAreKept

(* gateTargets: wherever the tool lands, that place was asked about or the *)
(* call refused.                                                           *)
EveryLandingIsAsked == part = "spellings" => spellings!EveryLandingIsAsked

(* discoverRepo: a ledger that governs all along is never reported absent, *)
(* and nothing is refused where nothing governs.                           *)
VerdictIsProven == part = "discovery" => discovery!VerdictIsProven
=============================================================================
