-------------------------------- MODULE Mail --------------------------------
(***************************************************************************)
(* The inbox: messages sent, the hooks that hand them to a session, and    *)
(* the wake a sender is named (internal/store/inbox.go, drain.go,          *)
(* store.go; internal/cli/cli.go, idlewait.go, wake.go).                   *)
(*                                                                         *)
(* A hook is a process with steps of its own: it reads, writes a document  *)
(* the session's context takes in, and marks what it wrote.  A drain does  *)
(* all three under the ledger's write lock.  Times are abstracted to what  *)
(* they decide: a message is past its keep, a session is fresh.            *)
(***************************************************************************)
EXTENDS Integers, FiniteSets

CONSTANTS
  Session,      \* sessions of the ledger
  Hook,         \* processes that may run at once
  MaxMsg,       \* bounds the messages sent
  MaxRegs,      \* bounds the registrations of one session, and its processes
  Bound         \* messages one drain of a hook hands over

BoundAssumption == Bound \in Nat \ {0}

VARIABLES
  inbox,      \* the messages and who each is addressed to
  delivered,  \* inbox_delivery
  shown,      \* messages in a session's context, by the way they came
  again,      \* how a message was written twice by hooks that did not fail
  session,    \* the rows, and what the harness of each is doing
  idle,       \* the idle mark: the registration it is of, 0 if none
  hooks,      \* each hook process
  sender,     \* the process sending each message
  alive,      \* how many registered processes of each session answer a probe
  lock        \* the write transaction open across a write to the session

vars == <<inbox, delivered, shown, again, session, idle, hooks, sender, alive, lock>>
mail == <<inbox, delivered, shown, again, sender>>

Free == [at |-> "none", s |-> "none"]
NoOne == "noOne"
HookAssumption == NoOne \notin Hook
Broadcast == "all"
Sent == DOMAIN inbox
Of(s) == {h \in Hook : hooks[h].s = s}

-----------------------------------------------------------------------------
AddressedTo(m, s) ==
  inbox[m].to = s \/ (inbox[m].to = Broadcast /\ s \in inbox[m].audience)

Queued(m, s) == m \in Sent /\ ~inbox[m].swept /\ AddressedTo(m, s) /\ <<m, s>> \notin delivered

(* A broadcast is handed out while it is fresh. *)
Undelivered(s) == {m \in Sent : Queued(m, s) /\ ~(inbox[m].to = Broadcast /\ inbox[m].old)}

Oldest(S, n) == {m \in S : Cardinality({o \in S : o < m}) < n}
BoundDrain(S) == Oldest(S, Bound)

Locked == lock # NoOne

Init ==
  /\ inbox = <<>> /\ delivered = {} /\ shown = {} /\ again = {}
  /\ session = [s \in Session |-> [live |-> TRUE, inc |-> 1, fresh |-> FALSE,
                                   turn |-> "prompt", continued |-> FALSE, unreported |-> FALSE,
                                   greeted |-> FALSE, muted |-> FALSE]]
  /\ alive \in [Session -> 0..1]
  /\ idle = [s \in Session |-> 0]
  /\ hooks = [h \in Hook |-> Free]
  /\ sender = [m \in 1..MaxMsg |-> [at |-> "none"]]
  /\ lock = NoOne

-----------------------------------------------------------------------------
(* Sending: msg looks at the recipient, inserts, and looks again.          *)
Quiet(s, inc) == idle[s] = inc \/ ~session[s].fresh

(* What wakeAddr asks of the recipient: two processes are ambiguous, and   *)
(* one the ledger knows as an adapter's is woken by its adapter.           *)
Reached(s, adapter) == alive[s] = 1 /\ ~adapter

Observe(m, s) ==
  /\ sender[m].at = "none"
  /\ \E adapter \in BOOLEAN :
       sender' = [sender EXCEPT ![m] = [at |-> "observed", to |-> s, inc |-> session[s].inc,
                                        wakes |-> Quiet(s, session[s].inc), reached |-> Reached(s, adapter)]]
  /\ UNCHANGED <<inbox, delivered, shown, again, session, idle, hooks, alive, lock>>

Row(to, audience) == [to |-> to, audience |-> audience, old |-> FALSE, swept |-> FALSE, excused |-> "no"]

Insert(m, row) == m = Cardinality(Sent) + 1 /\ inbox' = [k \in Sent \cup {m} |-> IF k = m THEN row ELSE inbox[k]]

SendDirect(m) ==
  /\ ~Locked /\ sender[m].at = "observed"
  /\ Insert(m, Row(sender[m].to, {}))
  /\ sender' = [sender EXCEPT ![m].at = "inserted"]
  /\ UNCHANGED <<delivered, shown, again, session, idle, hooks, alive, lock>>

(* A correction goes to the audience of the message it corrects, any other *)
(* broadcast to the sessions live as it is sent.                           *)
SendBroadcast(m) ==
  /\ ~Locked /\ sender[m].at = "none"
  /\ \/ Insert(m, Row(Broadcast, {s \in Session : session[s].live}))
     \/ \E o \in Sent : inbox[o].to = Broadcast /\ ~inbox[o].swept /\ Insert(m, Row(Broadcast, inbox[o].audience))
  /\ sender' = [sender EXCEPT ![m] = [at |-> "done", wakes |-> FALSE]]
  /\ UNCHANGED <<delivered, shown, again, session, idle, hooks, alive, lock>>

(* Mutant: what was observed before the insert decides. *)
NotReread(m) == sender[m].wakes

(* idleAfterSend: of the registration the sender observed. *)
IdleAfterSend(m) == sender[m].wakes \/ idle[sender[m].to] = sender[m].inc

(* Its processes are those observed; whether the one listens is asked now. *)
NameWake(m) ==
  /\ sender[m].at = "inserted"
  /\ \E listens \in BOOLEAN :
       LET s == inbox[m].to
           addressed == sender[m].reached /\ listens
       IN /\ sender' = [sender EXCEPT ![m] = [at |-> "done", wakes |-> IdleAfterSend(m) /\ addressed]]
          /\ inbox' = [inbox EXCEPT ![m].excused =
                         CASE ~addressed \/ session[s].unreported \/ session[s].inc # sender[m].inc -> "yes"
                           [] @ = "no" /\ session[s].greeted -> "hello"
                           [] @ = "no" /\ session[s].muted -> "subagent"
                           [] OTHER -> @]
  /\ UNCHANGED <<delivered, shown, again, session, idle, hooks, alive, lock>>

(* A broadcast ages past its keep, and a sweep deletes what is past its    *)
(* term.                                                                   *)
Ages(m) ==
  /\ inbox[m].to = Broadcast /\ ~inbox[m].old
  /\ inbox' = [inbox EXCEPT ![m].old = TRUE]
  /\ UNCHANGED <<delivered, shown, again, session, idle, hooks, sender, alive, lock>>

SweepInbox(m) ==
  /\ ~Locked /\ sender[m].at = "done" /\ (inbox[m].to = Broadcast => inbox[m].old)
  /\ ~inbox[m].swept
  /\ inbox' = [inbox EXCEPT ![m].swept = TRUE, ![m].excused = "no"]
  /\ delivered' = {d \in delivered : d[1] # m}
  /\ UNCHANGED <<shown, again, session, idle, hooks, sender, alive, lock>>

-----------------------------------------------------------------------------
(* The harness, an external actor: it waits for the hooks it runs.         *)
Starts(h, s, verb) == [at |-> verb, verb |-> verb, s |-> s, msgs |-> {}]

Launch(s, H, verb) ==
  hooks' = [h \in Hook |-> IF h \in H THEN Starts(h, s, verb) ELSE hooks[h]]

Idling == {h \in Hook : hooks[h] = Free}

Prompt(h, s) ==
  /\ session[s].live /\ session[s].turn = "prompt" /\ Of(s) = {} /\ h \in Idling
  /\ session' = [session EXCEPT ![s].turn = "working", ![s].continued = FALSE, ![s].unreported = FALSE,
                                   ![s].greeted = FALSE, ![s].muted = FALSE]
  /\ Launch(s, {h}, "busy")
  /\ UNCHANGED <<mail, idle, alive, lock>>

(* Tool calls made together run their hooks together; inbox is a command   *)
(* the model runs.                                                         *)
CallTools(H, s) ==
  /\ session[s].live /\ session[s].turn = "working" /\ Of(s) = {} /\ H \subseteq Idling /\ H # {}
  /\ \E verb \in {"beat", "inbox"} : Launch(s, H, verb)
  /\ UNCHANGED <<mail, session, idle, alive, lock>>

Subagent(h, s) ==
  /\ session[s].live /\ session[s].turn = "prompt" /\ idle[s] # 0 /\ h \in Idling
  /\ Launch(s, {h}, "subagent")
  /\ UNCHANGED <<mail, session, idle, alive, lock>>

EndTurn(h, s) ==
  /\ session[s].live /\ session[s].turn = "working" /\ Of(s) = {} /\ h \in Idling
  /\ session' = [session EXCEPT ![s].turn = "stopping"]
  /\ Launch(s, {h}, "stop")
  /\ UNCHANGED <<mail, idle, alive, lock>>

(* The session ends with the last of its processes. *)
Bye(s) ==
  /\ ~Locked /\ session[s].live /\ Of(s) = {} /\ session[s].turn = "prompt"
  /\ IF alive[s] > 1
     THEN alive' = [alive EXCEPT ![s] = @ - 1] /\ UNCHANGED session
     ELSE alive' = [alive EXCEPT ![s] = 0] /\ session' = [session EXCEPT ![s].live = FALSE]
  /\ UNCHANGED <<mail, idle, hooks, lock>>

(* A process dies without a bye; its row stays, and no probe answers. *)
Dies(s) ==
  /\ alive[s] > 0
  /\ alive' = [alive EXCEPT ![s] = @ - 1]
  /\ UNCHANGED <<mail, session, idle, hooks, lock>>

(* registerProc: a process the ledger had not, or had, or could not name. *)
Registers(s) == \E n \in {alive[s], alive[s] + 1} \cap 0..MaxRegs : alive' = [alive EXCEPT ![s] = n]

(* SessionStart, of the first process or of another with the same id. *)
StartSession(h, s) ==
  /\ h \in Idling /\ (session[s].live \/ session[s].inc < MaxRegs)
  /\ \A g \in Of(s) : hooks[g].verb # "hello"
  /\ Launch(s, {h}, "hello")
  /\ UNCHANGED <<mail, session, idle, alive, lock>>

(* A session that has been silent. *)
Stales(s) ==
  /\ session[s].fresh
  /\ session' = [session EXCEPT ![s].fresh = FALSE]
  /\ UNCHANGED <<mail, idle, hooks, alive, lock>>

-----------------------------------------------------------------------------
At(h, at) == hooks[h].at = at
Goto(h, at) == hooks' = [hooks EXCEPT ![h].at = at]
Ends(h) == hooks' = [hooks EXCEPT ![h] = Free]

(* BeatFrom: the session is heard, and is not resting. *)
BeatRow(h) ==
  LET s == hooks[h].s
  IN /\ ~Locked /\ hooks[h].at \in {"beat", "subagent"}
     /\ session' = [session EXCEPT ![s].fresh = @ \/ session[s].live,
                                   ![s].muted = session[s].live /\ session[s].turn = "prompt"]
     /\ idle' = IF session[s].live THEN [idle EXCEPT ![s] = 0] ELSE idle
     /\ IF session[s].live THEN Registers(s) ELSE UNCHANGED alive
     /\ IF At(h, "beat") THEN Goto(h, "look") ELSE Ends(h)
     /\ UNCHANGED <<mail, lock>>

BusyClear(h) ==
  /\ ~Locked /\ At(h, "busy")
  /\ idle' = [idle EXCEPT ![hooks[h].s] = 0]
  /\ Goto(h, "look")
  /\ UNCHANGED <<mail, session, alive, lock>>

(* drainHook takes the lock only if a plain read finds mail. *)
Look(h) ==
  /\ At(h, "look")
  /\ IF Undelivered(hooks[h].s) = {} THEN Ends(h) ELSE Goto(h, "drain")
  /\ UNCHANGED <<mail, session, idle, alive, lock>>

Owed(h) == Undelivered(hooks[h].s)

(* What the properties excuse: mail nobody could have been told of. *)
Excusing(S) == [m \in Sent |-> [inbox[m] EXCEPT !.excused = IF m \in S THEN "yes" ELSE @]]

(* Mutant: a read, a write and a mark of their own. *)
Unlocked(h) == NoOne

LockOf(h) == h

(* Drain: the lock is held from the read to the mark. *)
DrainBegins(h) ==
  /\ ~Locked /\ hooks[h].at \in {"drain", "inbox"}
  /\ lock' = LockOf(h)
  /\ hooks' = [hooks EXCEPT ![h].at = "write",
                 ![h].msgs = IF At(h, "inbox") THEN Owed(h) ELSE BoundDrain(Owed(h))]
  /\ UNCHANGED <<mail, session, idle, alive>>

(* StopTurn: an ended session is nothing to it; one that rests is marked;  *)
(* one with mail, whose turn no Stop has continued yet, is handed it.      *)
StopBegins(h) ==
  LET s == hooks[h].s
  IN /\ ~Locked /\ At(h, "stop")
     /\ IF session[s].live /\ ~session[s].continued /\ Owed(h) # {}
        THEN /\ lock' = LockOf(h)
             /\ hooks' = [hooks EXCEPT ![h].at = "write", ![h].msgs = BoundDrain(Owed(h))]
             /\ UNCHANGED <<mail, session, idle, alive>>
        ELSE /\ idle' = IF session[s].live THEN [idle EXCEPT ![s] = session[s].inc] ELSE idle
             /\ session' = [session EXCEPT ![s].turn = "prompt"]
             /\ inbox' = Excusing(Owed(h))
             /\ Ends(h)
             /\ UNCHANGED <<delivered, shown, again, sender, alive, lock>>

Way(h) == IF hooks[h].verb = "hello" THEN "digest" ELSE "drain"

Shows(h) == {[m |-> m, s |-> hooks[h].s, by |-> Way(h)] : m \in hooks[h].msgs}

Repeats(h) ==
  {IF "digest" \in {x.by, Way(h)} THEN "digest" ELSE "drain" :
     x \in {y \in shown : y.s = hooks[h].s /\ y.m \in hooks[h].msgs}}

Write(h) ==
  /\ hooks[h].at \in {"write", "helloWrite"}
  /\ shown' = shown \cup Shows(h)
  /\ again' = again \cup Repeats(h)
  /\ Goto(h, "mark")
  /\ UNCHANGED <<inbox, delivered, session, idle, sender, alive, lock>>

(* A write that fails marks nothing; a Stop whose write fails rests. *)
WriteFails(h) ==
  /\ hooks[h].at \in {"write", "helloWrite"}
  /\ lock' = IF lock = h THEN NoOne ELSE lock
  /\ IF hooks[h].verb = "stop"
     THEN Goto(h, "markIdle") ELSE Ends(h)
  /\ inbox' = IF hooks[h].verb \in {"stop", "hello"} THEN Excusing(Owed(h)) ELSE inbox
  /\ UNCHANGED <<delivered, shown, again, session, idle, sender, alive>>

MarkIdle(h) ==
  LET s == hooks[h].s
  IN /\ ~Locked /\ At(h, "markIdle")
     /\ idle' = IF session[s].live THEN [idle EXCEPT ![s] = session[s].inc] ELSE idle
     /\ session' = [session EXCEPT ![s].turn = "prompt"]
     /\ inbox' = Excusing(Owed(h))
     /\ Ends(h)
     /\ UNCHANGED <<delivered, shown, again, sender, alive, lock>>

(* Mutant: everything the session is owed is marked. *)
AllOwed(h) == Owed(h)

Wrote(h) == hooks[h].msgs

MarkDelivered(h) ==
  LET s == hooks[h].s
  IN /\ lock \in {h, NoOne} /\ At(h, "mark")
     /\ delivered' = delivered \cup {<<m, s>> : m \in Wrote(h)}
     /\ lock' = NoOne
     /\ Ends(h)
     /\ IF hooks[h].verb = "stop"
        THEN /\ idle' = [idle EXCEPT ![s] = 0]
             /\ session' = [session EXCEPT ![s].turn = "working", ![s].continued = TRUE]
        ELSE UNCHANGED <<idle, session>>
     /\ UNCHANGED <<inbox, shown, again, sender, alive>>

(* HelloFrom, and the digest's drain, which takes no lock. *)
HelloRow(h) ==
  LET s == hooks[h].s
  IN /\ ~Locked /\ At(h, "hello")
     /\ session' = IF session[s].live
                   THEN [session EXCEPT ![s].fresh = TRUE,
                                        ![s].greeted = @ \/ (session[s].turn = "prompt" /\ idle[s] # session[s].inc)]
                   ELSE [session EXCEPT ![s] = [live |-> TRUE, inc |-> @.inc + 1, fresh |-> FALSE,
                                                turn |-> "prompt", continued |-> FALSE, unreported |-> FALSE,
                                                greeted |-> FALSE, muted |-> FALSE]]
     /\ Registers(s)
     /\ Goto(h, "helloLook")
     /\ UNCHANGED <<mail, idle, lock>>

HelloLook(h) ==
  /\ At(h, "helloLook")
  /\ IF Undelivered(hooks[h].s) = {} THEN Ends(h)
     ELSE hooks' = [hooks EXCEPT ![h].at = "helloWrite", ![h].msgs = BoundDrain(Undelivered(hooks[h].s))]
  /\ inbox' = Excusing(Owed(h) \ BoundDrain(Owed(h)))
  /\ UNCHANGED <<delivered, shown, again, session, idle, sender, alive, lock>>

(* A hook dies: what it wrote stays, its transaction does not.  The        *)
(* harness goes on as if it had said nothing.                              *)
Killed(h) ==
  LET s == hooks[h].s
  IN /\ hooks[h] # Free
     /\ lock' = IF lock = h THEN NoOne ELSE lock
     /\ shown' = IF At(h, "mark") THEN shown \ Shows(h) ELSE shown
     /\ Ends(h)
     /\ session' = IF hooks[h].verb = "stop"
                   THEN [session EXCEPT ![s].turn = "prompt", ![s].unreported = TRUE] ELSE session
     /\ inbox' = IF hooks[h].verb \in {"stop", "hello"} THEN Excusing(Owed(h)) ELSE inbox
     /\ UNCHANGED <<delivered, again, idle, sender, alive>>

-----------------------------------------------------------------------------
Sending(m) == NameWake(m) \/ SendDirect(m) \/ SendBroadcast(m) \/ \E s \in Session : Observe(m, s)
Harness(s) ==
  \/ \E h \in Hook : Prompt(h, s) \/ Subagent(h, s) \/ EndTurn(h, s) \/ StartSession(h, s)
  \/ \E H \in SUBSET Hook : CallTools(H, s)
  \/ Bye(s) \/ Dies(s) \/ Stales(s)
Hooks(h) ==
  \/ BeatRow(h) \/ BusyClear(h) \/ Look(h) \/ DrainBegins(h) \/ StopBegins(h)
  \/ Write(h) \/ WriteFails(h) \/ MarkIdle(h) \/ MarkDelivered(h)
  \/ HelloRow(h) \/ HelloLook(h) \/ Killed(h)

Next ==
  \/ \E m \in 1..MaxMsg : Sending(m)
  \/ \E m \in Sent : Ages(m) \/ SweepInbox(m)
  \/ \E s \in Session : Harness(s)
  \/ \E h \in Hook : Hooks(h)

Spec == Init /\ [][Next]_vars

-----------------------------------------------------------------------------
(* At least once: what is marked delivered to a session is in its context, *)
(* and only what was addressed to it is: a write that failed and a process *)
(* that died in the midst of it mark nothing.                              *)
DeliveredWasShown ==
  /\ \A d \in delivered : \E x \in shown : x.m = d[1] /\ x.s = d[2]
  /\ \A x \in shown : AddressedTo(x.m, x.s)

(* But once is enough: hooks that run together, none of them failing, do   *)
(* not hand over the same message (Drain's lock); a SessionStart beside    *)
(* them may, since its digest does not take it.                            *)
DrainsTakeTurns == "drain" \notin again

(* What the drains hand over is addressed, shown before it is marked, and  *)
(* not shown twice by two of them.                                         *)
DrainsAreExact == DeliveredWasShown /\ DrainsTakeTurns

(* Mail to a session that rests at its prompt with no hook of it running,  *)
(* once its sender is done, has a wake named for it.                       *)
Stranded(m) ==
  /\ inbox[m].to # Broadcast /\ ~inbox[m].swept /\ sender[m].at = "done"
  /\ LET s == inbox[m].to
     IN /\ session[s].live /\ session[s].turn = "prompt" /\ Of(s) = {}
        /\ <<m, s>> \notin delivered

(* Excused is what the code says it cannot help: a recipient that has not  *)
(* one live process as its sender looks, or is an adapter's, or whose      *)
(* process does not listen (wakeAddr); mail that a Stop of a continued     *)
(* turn finds, or one that fails or is killed; mail a digest has no room   *)
(* for; a recipient that registered again under the sender.  And what the  *)
(* code does not mean to leave (StopSeesOrIsSeen): a session whose mark a  *)
(* subagent's beat has taken back, and one at rest, not yet marked, that a *)
(* further SessionStart makes look busy.                                   *)
MailFindsTheResting ==
  \A m \in Sent : Stranded(m) => sender[m].wakes \/ inbox[m].excused # "no"

-----------------------------------------------------------------------------
(* What the code says of itself and does not keep: no run checks them,     *)
(* and the README tells what breaks each.                                  *)

(* wake.go, idleAfterSend: "after the insert exactly one of two things is  *)
(* true: the Stop saw the mail and held the turn open, or its idle mark is *)
(* here to be read."                                                       *)
StopSeesOrIsSeen ==
  \A m \in Sent : Stranded(m) => sender[m].wakes \/ inbox[m].excused \in {"yes", "hello"}

(* drain.go: "ONE drain at a time per ledger." *)
OneDrainAtATime == again = {}
=============================================================================
