------------------------------ MODULE Adapter -------------------------------
(***************************************************************************)
(* The adapter channel: lifecycle events, messages, delivery receipts and  *)
(* endpoints that carry the incarnation captured when a launch registered  *)
(* (internal/cli/lifecycle.go, internal/cli/adapter.go,                    *)
(* internal/store/adapter.go, logical.go), beside the hooks of people's    *)
(* sessions, which carry none (internal/store/store.go, inbox.go).         *)
(*                                                                         *)
(* A call is one transaction of the ledger.  It may run at any time after  *)
(* its launch registered, more than once, and after the launch is over:    *)
(* delays, retries and duplicates need no state of their own.              *)
(***************************************************************************)
EXTENDS Naturals, FiniteSets

CONSTANTS
  Session,
  Proc,       \* processes, each one pid and birth, of at most one launch
  MaxInc,     \* bounds the incarnations of a session
  MaxMsg      \* bounds the messages

BoundAssumption == MaxInc \in Nat /\ MaxMsg \in Nat

VARIABLES
  sessions,   \* the current incarnation, whether it is live
  idle,       \* session_idle: the incarnation that is idle, 0 for none
  procs,      \* session_procs: the registered processes
  endpoints,  \* session_endpoints
  inbox,      \* the messages that are kept, adapter_messages joined
  delivered,  \* inbox_delivery
  nextId,
  launch,     \* what each process captured
  page,       \* what each launch has fetched
  shown,      \* ghost: <<message, reader>>
  said        \* ghost: the last report of each incarnation

vars == <<sessions, idle, procs, endpoints, inbox, delivered, nextId, launch, page, shown, said>>

mail == <<inbox, delivered, nextId, page, shown>>
observed == <<idle, procs, endpoints, said>>

NoProc == "no process"
AdapterIdentity(s, i) == [session |-> s, inc |-> i]
AdapterEndpoint(i, p) == [inc |-> i, proc |-> p]
NoLaunch == AdapterIdentity("none", 0)
NoEndpoint == AdapterEndpoint(0, NoProc)
People == "people"   \* the reader behind hooks that carry no incarnation

Init ==
  /\ sessions = [s \in Session |-> [inc |-> 0, live |-> FALSE]]
  /\ idle = [s \in Session |-> 0] /\ procs = [s \in Session |-> {}]
  /\ endpoints = [s \in Session |-> NoEndpoint]
  /\ inbox = {} /\ delivered = {} /\ nextId = 1
  /\ launch = [p \in Proc |-> NoLaunch] /\ page = [p \in Proc |-> {}]
  /\ shown = {} /\ said = [s \in Session |-> [i \in 1..MaxInc |-> "nothing"]]

-----------------------------------------------------------------------------
(* The captured incarnation is the current one, and live. *)
AdapterSession(l) ==
  /\ l.session \in Session
  /\ sessions[l.session] = [inc |-> l.inc, live |-> TRUE]

-----------------------------------------------------------------------------
(* Registration.                                                           *)

(* A launch begins a session that is missing, or one that has ended, by    *)
(* naming the incarnation it follows.  The receipt may not arrive: then    *)
(* nobody holds the token.                                                 *)
BeginLogical(p, s, previous) ==
  /\ launch[p] = NoLaunch /\ sessions[s].inc < MaxInc
  /\ ~sessions[s].live /\ previous = sessions[s].inc
  /\ sessions' = [sessions EXCEPT ![s] = [inc |-> @.inc + 1, live |-> TRUE]]
  /\ procs' = [procs EXCEPT ![s] = {}]
  /\ launch' \in {[launch EXCEPT ![p] = AdapterIdentity(s, previous + 1)], launch}
  /\ UNCHANGED <<idle, endpoints, said, mail>>

(* A person's session registers from its own process; its next tool call   *)
(* registers too and erases the idle mark; its bye ends the session when   *)
(* no other process of it runs.                                            *)
Hello(p, s) ==
  /\ launch[p] = NoLaunch /\ (sessions[s].live \/ sessions[s].inc < MaxInc)
  /\ sessions' = [sessions EXCEPT ![s] = IF @.live THEN @ ELSE [inc |-> @.inc + 1, live |-> TRUE]]
  /\ procs' = [procs EXCEPT ![s] = (IF sessions[s].live THEN @ ELSE {}) \cup {p}]
  /\ UNCHANGED <<idle, endpoints, said, launch, mail>>

Beat(p, s) ==
  /\ launch[p] = NoLaunch /\ sessions[s].live
  /\ procs' = [procs EXCEPT ![s] = @ \cup {p}]
  /\ idle' = [idle EXCEPT ![s] = 0]
  /\ UNCHANGED <<sessions, endpoints, said, launch, mail>>

Bye(p, s) ==
  /\ launch[p] = NoLaunch /\ sessions[s].live
  /\ \E running \in SUBSET (procs[s] \ {p}) :
       /\ procs' = [procs EXCEPT ![s] = running]
       /\ sessions' = [sessions EXCEPT ![s].live = running # {}]
  /\ UNCHANGED <<idle, endpoints, said, launch, mail>>

-----------------------------------------------------------------------------
(* The events of a launch.  Refresh changes nothing that is kept here.     *)
Say(l, what) == said' = [said EXCEPT ![l.session][l.inc] = what]

(* Beat and busy erase the launch's own idle mark. *)
BusyLogical(p) ==
  LET l == launch[p] IN
  /\ AdapterSession(l)
  /\ idle' = [idle EXCEPT ![l.session] = IF @ = l.inc THEN 0 ELSE @]
  /\ Say(l, "busy")
  /\ UNCHANGED <<sessions, procs, endpoints, launch, mail>>

IdleLogical(p) ==
  LET l == launch[p] IN
  /\ AdapterSession(l)
  /\ idle' = [idle EXCEPT ![l.session] = l.inc]
  /\ Say(l, "idle")
  /\ UNCHANGED <<sessions, procs, endpoints, launch, mail>>

EndLogical(p) ==
  LET l == launch[p] IN
  /\ AdapterSession(l)
  /\ sessions' = [sessions EXCEPT ![l.session].live = FALSE]
  /\ procs' = [procs EXCEPT ![l.session] = {}]
  /\ UNCHANGED <<idle, endpoints, said, launch, mail>>

(* The receiving process reports its endpoint, under its own session's     *)
(* token only.                                                             *)
RegisterAdapterEndpoint(p) ==
  LET l == launch[p] IN
  /\ AdapterSession(l)
  /\ procs' = [procs EXCEPT ![l.session] = @ \cup {p}]
  /\ endpoints' = [endpoints EXCEPT ![l.session] = AdapterEndpoint(l.inc, p)]
  /\ UNCHANGED <<sessions, idle, said, launch, mail>>

-----------------------------------------------------------------------------
(* Messages.                                                               *)
Put(m) == inbox' = inbox \cup {m} /\ nextId' = nextId + 1

AdapterDelivery(from, to) ==
  [id |-> nextId, target |-> to.session, sender |-> from.session, adapter |-> TRUE, inc |-> to.inc, corrects |-> 0]

(* Both captured identities are checked, and both rows written, in one     *)
(* transaction.                                                            *)
QueueAdapter(p, r, i) ==
  /\ nextId <= MaxMsg /\ AdapterSession(launch[p]) /\ AdapterSession(AdapterIdentity(r, i))
  /\ Put(AdapterDelivery(launch[p], AdapterIdentity(r, i)))
  /\ UNCHANGED <<sessions, observed, launch, delivered, page, shown>>

(* Mutant: a correction follows any message of its own sender. *)
OwnMessage(c, s, r) == \E m \in inbox : m.id = c /\ m.sender = s /\ m.target = r

(* A correction goes where the plain message it corrects went. *)
Correctable(c, s, r) == \E m \in inbox : m.id = c /\ m.sender = s /\ m.target = r /\ ~m.adapter

(* A plain message, or the plain correction of one. *)
Send(s, r, c) ==
  /\ nextId <= MaxMsg /\ (c # 0 => Correctable(c, s, r))
  /\ Put([id |-> nextId, target |-> r, sender |-> s, adapter |-> FALSE, inc |-> 0, corrects |-> c])
  /\ UNCHANGED <<sessions, observed, launch, delivered, page, shown>>

Waiting(s) == {m \in inbox : m.target = s /\ <<m.id, s>> \notin delivered}

(* Mutant: a session's adapter mail is that of all its incarnations. *)
OfSession(l) == {m \in Waiting(l.session) : m.adapter}

AdapterInbox(l) == {m \in Waiting(l.session) : m.adapter /\ m.inc = l.inc}

(* A read: nothing is marked. *)
Fetch(p) ==
  /\ AdapterSession(launch[p])
  /\ page' = [page EXCEPT ![p] = AdapterInbox(launch[p])]
  /\ UNCHANGED <<sessions, observed, inbox, delivered, nextId, launch, shown>>

Ingest(p, m) ==
  /\ m \in page[p]
  /\ page' = [page EXCEPT ![p] = @ \ {m}]
  /\ shown' = shown \cup {<<m.id, p>>}
  /\ UNCHANGED <<sessions, observed, inbox, delivered, nextId, launch>>

Addresses(m, l) == m.target = l.session /\ m.adapter /\ m.inc = l.inc

(* The receipt of a launch that has ingested the message, or a duplicate;  *)
(* a launch may name a message it never saw only by its own mistake.       *)
DeliverAdapter(p, m) ==
  /\ m \in inbox /\ AdapterSession(launch[p]) /\ Addresses(m, launch[p])
  /\ <<m.id, p>> \in shown
  /\ delivered' = delivered \cup {<<m.id, m.target>>}
  /\ UNCHANGED <<sessions, observed, inbox, nextId, launch, page, shown>>

(* Mutant: the legacy inbox is the whole inbox. *)
EveryRow(s) == Waiting(s)

Undelivered(s) == {m \in Waiting(s) : ~m.adapter}

(* A hook without a captured incarnation shows what it finds and marks it, *)
(* except what travels on the adapter channel.                             *)
LegacyDrain(s) ==
  /\ Undelivered(s) # {}
  /\ shown' = shown \cup {<<m.id, People>> : m \in Undelivered(s)}
  /\ delivered' = IF \E m \in Undelivered(s) : m.adapter THEN delivered
                  ELSE delivered \cup {<<m.id, s>> : m \in Undelivered(s)}
  /\ UNCHANGED <<sessions, observed, inbox, nextId, launch, page>>

(* Sweep drops messages past their time, with their marks. *)
Sweep ==
  \E old \in (SUBSET inbox) \ {{}} :
    /\ inbox' = inbox \ old
    /\ delivered' = {d \in delivered : \A m \in old : m.id # d[1]}
    /\ UNCHANGED <<sessions, observed, nextId, launch, page, shown>>

(* The two verbs that carry a captured incarnation.                        *)
ApplyLifecycle(p) == BusyLogical(p) \/ IdleLogical(p) \/ EndLogical(p)

Lifecycle(p) ==
  \/ \E s \in Session, i \in 0..MaxInc : BeginLogical(p, s, i)
  \/ ApplyLifecycle(p)

AdapterVerb(p) ==
  \/ RegisterAdapterEndpoint(p)
  \/ \E s \in Session, i \in 0..MaxInc : QueueAdapter(p, s, i)
  \/ Fetch(p)
  \/ \E m \in inbox : DeliverAdapter(p, m)

Next ==
  \/ \E p \in Proc : Lifecycle(p) \/ AdapterVerb(p) \/ \E m \in page[p] : Ingest(p, m)
  \/ \E p \in Proc, s \in Session : Hello(p, s) \/ Beat(p, s) \/ Bye(p, s)
  \/ \E s \in Session : LegacyDrain(s) \/ \E r \in Session, c \in 0..MaxMsg : Send(s, r, c)
  \/ Sweep

Spec == Init /\ [][Next]_vars

-----------------------------------------------------------------------------
Endpoint(s, i) ==
  IF endpoints[s].inc = i /\ endpoints[s].proc \in procs[s] THEN endpoints[s].proc ELSE NoProc

(* Mutant: an idle mark is the session's, whoever left it. *)
AnyIdle(s, i) ==
  LET current == sessions[s] = [inc |-> i, live |-> TRUE] IN
  [idle |-> current /\ idle[s] # 0, endpoint |-> IF current THEN Endpoint(s, i) ELSE NoProc]

(* InspectAdapter: one snapshot under a captured identity.                 *)
Inspect(s, i) ==
  LET current == sessions[s] = [inc |-> i, live |-> TRUE] IN
  [idle |-> current /\ idle[s] = i, endpoint |-> IF current THEN Endpoint(s, i) ELSE NoProc]

(* adapter.go: what is queued for one incarnation of a session is shown to *)
(* no other, and to no hook that carries none; it is marked delivered only *)
(* when that incarnation has ingested it.                                  *)
OnlyItsRecipient ==
  \A m \in inbox : m.adapter =>
    /\ \A r \in Proc \cup {People} : <<m.id, r>> \in shown =>
         r \in Proc /\ launch[r] = [session |-> m.target, inc |-> m.inc]
    /\ <<m.id, m.target>> \in delivered => \E p \in Proc : <<m.id, p>> \in shown

(* inbox.go, correctable: a correction and its original are read on the    *)
(* same channel, so nobody is shown the one who cannot be shown the other. *)
CorrectionMeetsItsOriginal ==
  \A c, m \in inbox : c.corrects = m.id /\ <<c.id, People>> \in shown =>
    <<m.id, People>> \in shown \/ m \in Undelivered(m.target)

(* InspectAdapter: the endpoint of an incarnation is that of the process   *)
(* launched as it, and it is idle only when it said so itself since it was *)
(* last busy.                                                              *)
InspectIsOwn ==
  \A s \in Session, i \in 1..MaxInc :
    /\ Inspect(s, i).endpoint # NoProc => launch[Inspect(s, i).endpoint] = [session |-> s, inc |-> i]
    /\ Inspect(s, i).idle => said[s][i] = "idle"

(* Both sides of the queue speak of one incarnation: who is shown a row,   *)
(* and what an adapter is told of its recipient.                           *)
IncarnationsAreApart == OnlyItsRecipient /\ InspectIsOwn
=============================================================================
