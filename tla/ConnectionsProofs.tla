------------------------- MODULE ConnectionsProofs -------------------------
(***************************************************************************)
(* Theorems about the things that wait for the other end: the presence     *)
(* query of the IRC client, the buddies of the chat daemon and the claim   *)
(* renewals, for any callers, sessions and paths and every bound.  Each    *)
(* part has its own inductive invariant; a step of another part leaves it  *)
(* alone, for a behaviour is of one part.                                  *)
(***************************************************************************)
EXTENDS MCConnections, Integers, Sequences, FiniteSets, FiniteSetTheorems, TLAPS

(***************************************************************************)
(* The IRC client.  A reply has no tag, so that an answer is one's own     *)
(* rests on this: while the connection lives, at most one query is between *)
(* the client and the server, it is the last one made, and its mailbox is  *)
(* installed or the mechanism is paused.                                   *)
(***************************************************************************)
Reply == [of : Nat, ok : BOOLEAN]
Stage == {"idle", "send", "unsent", "await", "late"}

ClientTypeOK ==
  /\ call \in [Caller -> [at : Stage, q : Nat]]
  /\ asking \in BOOLEAN /\ asked \in Nat
  /\ waiter \in Nat /\ box \in Seq(Reply) /\ dead \in BOOLEAN
  /\ out \in Seq(Nat) /\ in \in Seq(Reply)
  /\ reader \in {"reads", "failed", "woke", "done"} /\ open \in BOOLEAN /\ closed \in BOOLEAN
  /\ told \subseteq [q : Nat, reply : Reply]

Active(c) == call[c].at # "idle"

(* Whoever is past Ask holds the lock, alone, and with the last query. *)
LockInv ==
  /\ \A c \in Caller : Active(c) => asking /\ call[c].q = asked
  /\ \A c, d \in Caller : Active(c) /\ Active(d) => c = d

(* The mailbox is that of the last query, and empty while installed. *)
MailboxInv ==
  /\ waiter # irc!None =>
       waiter = asked /\ box = <<>> /\ \E c \in Caller : call[c].at \in {"send", "unsent", "await"}
  /\ box # <<>> => Head(box).of \in {irc!None, asked}
  /\ dead => waiter = irc!None
  /\ \A c \in Caller : call[c].at = "late" => waiter = irc!None

Reads == reader = "reads" /\ open

(* What is on the wire. *)
WireInv ==
  /\ Len(out) + Len(in) <= 1
  /\ out # <<>> => Head(out) = asked
  /\ in # <<>> => Head(in).of = asked
  /\ out # <<>> \/ in # <<>> => waiter # irc!None \/ dead
  /\ \A c \in Caller : call[c].at = "send" => out = <<>> /\ in = <<>> /\ waiter # irc!None

ClosedInv == closed => ~open

ClientInv ==
  ClientTypeOK /\ LockInv /\ MailboxInv /\ (Reads => WireInv) /\ ClosedInv /\ irc!AnswerIsOwn

-----------------------------------------------------------------------------
(* A mailbox holds one reply or none. *)
LEMMA Mailboxes ==
  ASSUME NEW S
  PROVE  <<>> \in Seq(S) /\ \A x \in S : <<x>> \in Seq(S) /\ <<x>> # <<>> /\ Head(<<x>>) = x
  OBVIOUS

LEMMA ErrorIsReply == irc!Error \in Reply /\ irc!Error.of = irc!None
  BY DEF irc!Error, Reply, irc!None

LEMMA ClientInit == irc!Init => ClientInv
<1> SUFFICES ASSUME irc!Init PROVE ClientInv
  OBVIOUS
<1>1. ClientTypeOK
  <2>1. irc!Idle \in [at : Stage, q : Nat]
    BY DEF irc!Idle, Stage, irc!None
  <2>2. call \in [Caller -> [at : Stage, q : Nat]]
    BY <2>1 DEF irc!Init
  <2> QED
    BY <2>2, Mailboxes DEF irc!Init, ClientTypeOK, irc!None
<1>2. LockInv /\ MailboxInv /\ WireInv /\ ClosedInv /\ irc!AnswerIsOwn
  BY DEF irc!Init, LockInv, MailboxInv, WireInv, ClosedInv, irc!AnswerIsOwn, Active, irc!Idle, irc!None
<1> QED
  BY <1>1, <1>2 DEF ClientInv

-----------------------------------------------------------------------------
(* A wire with one thing on it. *)
LEMMA OneOnTheWire ==
  ASSUME NEW S, NEW s \in Seq(S), NEW x \in S
  PROVE  /\ Append(s, x) \in Seq(S) /\ Append(s, x) # <<>> /\ Len(Append(s, x)) = Len(s) + 1
         /\ s = <<>> => Head(Append(s, x)) = x
         /\ s # <<>> => Head(s) \in S /\ Tail(s) \in Seq(S) /\ Len(Tail(s)) = Len(s) - 1
         /\ Len(s) \in Nat /\ (Len(s) = 0 <=> s = <<>>)
  OBVIOUS

LEMMA WireLengths ==
  ASSUME NEW S, NEW s \in Seq(S)
  PROVE  Len(s) \in Nat /\ (Len(s) = 0 <=> s = <<>>)
  OBVIOUS

LEMMA OneOfTwo ==
  /\ 0 + 0 <= 1 /\ 0 + 1 <= 1
  /\ \A m, n \in Nat : m + n <= 1 => (m # 0 => m = 1 /\ n = 0) /\ (n # 0 => n = 1 /\ m = 0)
  OBVIOUS

(* A call that returns has told its reply, and let go of the lock. *)
LEMMA ReturnKeepsTypes ==
  ASSUME ClientTypeOK, NEW c \in Caller, NEW reply \in Reply, irc!Returns(c, reply)
  PROVE  /\ call' \in [Caller -> [at : Stage, q : Nat]] /\ asking' \in BOOLEAN
         /\ told' \subseteq [q : Nat, reply : Reply]
<1>1. irc!Idle \in [at : Stage, q : Nat]
  BY DEF irc!Idle, Stage, irc!None
<1>2. call' \in [Caller -> [at : Stage, q : Nat]]
  BY <1>1 DEF ClientTypeOK, irc!Returns
<1>3. [q |-> call[c].q, reply |-> reply] \in [q : Nat, reply : Reply]
  <2>1. call[c].q \in Nat
    BY DEF ClientTypeOK
  <2> QED
    BY <2>1
<1> QED
  BY <1>2, <1>3 DEF ClientTypeOK, irc!Returns

LEMMA NoneIsNat == irc!None \in Nat
  BY DEF irc!None

(* Clearing takes the query's own mailbox, if it is there still, and only  *)
(* then may it pause. *)
LEMMA ClearKeepsTypes ==
  ASSUME ClientTypeOK, NEW q, NEW pause \in BOOLEAN, irc!ClearWaiter(q, pause)
  PROVE  waiter' \in Nat /\ dead' \in BOOLEAN
<1>1. waiter' = irc!None \/ waiter' = waiter
  BY Zenon DEF irc!ClearWaiter
<1>2. dead' \in BOOLEAN
  <2>1. CASE waiter = q
    <3>1. dead' = (dead \/ pause)
      BY <2>1, Zenon DEF irc!ClearWaiter
    <3> QED
      BY <3>1, SMT DEF ClientTypeOK
  <2>2. CASE waiter # q
    BY <2>2, Zenon DEF irc!ClearWaiter, ClientTypeOK
  <2> QED
    BY <2>1, <2>2
<1> QED
  BY <1>1, <1>2, NoneIsNat, Zenon DEF ClientTypeOK

LEMMA ClientTypeStep ==
  ASSUME ClientTypeOK, irc!Next
  PROVE  ClientTypeOK'
<1>b. box # <<>> => Head(box) \in Reply
  BY OneOnTheWire DEF ClientTypeOK
<1>1. ASSUME NEW c \in Caller, irc!Ask(c) PROVE ClientTypeOK'
  BY <1>1, Mailboxes DEF ClientTypeOK, irc!Ask, Stage
<1>2. ASSUME NEW c \in Caller, irc!Send(c) PROVE ClientTypeOK'
  <2>1. call[c].q \in Nat
    BY DEF ClientTypeOK
  <2>2. out' \in Seq(Nat)
    <3>1. Append(out, call[c].q) \in Seq(Nat) /\ out \in Seq(Nat)
      BY <2>1, OneOnTheWire DEF ClientTypeOK
    <3>2. out' = Append(out, call[c].q) \/ out' = out
      BY <1>2, Zenon DEF irc!Send, irc!SendLine
    <3> QED
      BY <3>1, <3>2
  <2>3. call' \in [Caller -> [at : Stage, q : Nat]]
    BY <1>2 DEF ClientTypeOK, irc!Send, Stage
  <2> QED
    BY <1>2, <2>2, <2>3 DEF ClientTypeOK, irc!Send
<1>3. ASSUME NEW c \in Caller, irc!GivesUp(c) PROVE ClientTypeOK'
  <2>1. waiter' \in Nat /\ dead' \in BOOLEAN
    BY <1>3, ClearKeepsTypes, Zenon DEF irc!GivesUp
  <2> QED
    BY <1>3, <2>1, ReturnKeepsTypes, ErrorIsReply DEF ClientTypeOK, irc!GivesUp, irc!Returns
<1>4. ASSUME NEW c \in Caller, irc!Answered(c) PROVE ClientTypeOK'
  <2>1. waiter' \in Nat /\ dead' \in BOOLEAN
    BY <1>4, ClearKeepsTypes, Zenon DEF irc!Answered
  <2>2. Head(box) \in Reply
    BY <1>4, <1>b DEF irc!Answered
  <2> QED
    BY <1>4, <2>1, <2>2, ReturnKeepsTypes, Mailboxes DEF ClientTypeOK, irc!Answered, irc!Returns
<1>5. ASSUME NEW c \in Caller, irc!SeesClosed(c) PROVE ClientTypeOK'
  <2>1. waiter' \in Nat /\ dead' \in BOOLEAN
    BY <1>5, ClearKeepsTypes, Zenon DEF irc!SeesClosed
  <2> QED
    BY <1>5, <2>1, ReturnKeepsTypes, ErrorIsReply DEF ClientTypeOK, irc!SeesClosed, irc!Returns
<1>6. ASSUME NEW c \in Caller, irc!TimesOut(c) PROVE ClientTypeOK'
  <2>1. waiter' \in Nat /\ dead' \in BOOLEAN
    BY <1>6, ClearKeepsTypes, Zenon DEF irc!TimesOut
  <2> QED
    BY <1>6, <2>1 DEF ClientTypeOK, irc!TimesOut, Stage
<1>7. ASSUME NEW c \in Caller, irc!LooksAgain(c) PROVE ClientTypeOK'
  <2>1. (IF box # <<>> THEN Head(box) ELSE irc!Error) \in Reply
    BY <1>b, ErrorIsReply
  <2> QED
    BY <1>7, <2>1, ReturnKeepsTypes, Mailboxes DEF ClientTypeOK, irc!LooksAgain, irc!Returns
<1>8. CASE irc!Read
  <2>1. Head(in) \in Reply /\ Tail(in) \in Seq(Reply)
    BY <1>8, OneOnTheWire DEF ClientTypeOK, irc!Read
  <2>2. waiter' \in Nat /\ dead' \in BOOLEAN /\ box' \in Seq(Reply)
    <3>1. /\ waiter' \in {irc!None, waiter} /\ dead' \in {FALSE, dead}
          /\ (box' = <<Head(in)>> \/ box' = box)
      BY <1>8, Zenon DEF irc!Read, irc!AnswerPresence, irc!Resumes
    <3>2. box' \in Seq(Reply)
      BY <3>1, <2>1, Mailboxes, Zenon DEF ClientTypeOK
    <3> QED
      BY <3>1, <3>2, NoneIsNat, Zenon DEF ClientTypeOK
  <2> QED
    BY <1>8, <2>1, <2>2 DEF ClientTypeOK, irc!Read
<1>9. CASE irc!FailPresence
  <2>1. waiter' \in {irc!None, waiter} /\ (box' = <<irc!Error>> \/ box' = box)
    BY <1>9, Zenon DEF irc!FailPresence
  <2>2. waiter' \in Nat /\ box' \in Seq(Reply)
    BY <2>1, ErrorIsReply, Mailboxes, NoneIsNat, Zenon DEF ClientTypeOK
  <2> QED
    BY <1>9, <2>2 DEF ClientTypeOK, irc!FailPresence
<1>10. CASE irc!ReadFails \/ irc!CloseConn \/ irc!Close
  BY <1>10 DEF ClientTypeOK, irc!ReadFails, irc!CloseConn, irc!Close
<1>11. CASE irc!Answers
  <2>1. Head(out) \in Nat /\ Tail(out) \in Seq(Nat)
    BY <1>11, OneOnTheWire DEF ClientTypeOK, irc!Answers
  <2>2. in' \in Seq(Reply)
    BY <1>11, <2>1 DEF ClientTypeOK, irc!Answers, Reply
  <2> QED
    BY <1>11, <2>1, <2>2 DEF ClientTypeOK, irc!Answers
<1>12. CASE irc!Ignores
  BY <1>12, OneOnTheWire DEF ClientTypeOK, irc!Ignores
<1> QED
  BY <1>1, <1>2, <1>3, <1>4, <1>5, <1>6, <1>7, <1>8, <1>9, <1>10, <1>11, <1>12
     DEF irc!Next, irc!Presence, irc!ReadLoop

-----------------------------------------------------------------------------
(* The rest of the invariant, action by action. *)
ClientRest == LockInv /\ MailboxInv /\ (Reads => WireInv) /\ ClosedInv /\ irc!AnswerIsOwn

LEMMA AskStep ==
  ASSUME ClientInv, NEW c \in Caller, irc!Ask(c)
  PROVE  ClientRest'
<1> USE DEF ClientInv
<1>1. /\ \A d \in Caller : ~Active(d) /\ (d # c => ~Active(d)')
      /\ call'[c] = [at |-> "send", q |-> asked']
  BY DEF ClientTypeOK, LockInv, irc!Ask, Active
<1>2. waiter = irc!None
  BY <1>1 DEF MailboxInv, Active
<1>3. LockInv'
  BY <1>1 DEF LockInv, irc!Ask, Active
<1>4. MailboxInv'
  BY <1>1 DEF MailboxInv, irc!Ask, Active
<1>5. Reads' => WireInv'
  BY <1>1, <1>2 DEF WireInv, Reads, irc!Ask, Active, ClientTypeOK, irc!None
<1>6. ClosedInv' /\ irc!AnswerIsOwn'
  BY DEF ClosedInv, irc!AnswerIsOwn, irc!Ask
<1> QED
  BY <1>3, <1>4, <1>5, <1>6 DEF ClientRest

LEMMA SendStep ==
  ASSUME ClientInv, NEW c \in Caller, irc!Send(c)
  PROVE  ClientRest'
<1> USE DEF ClientInv
<1>1. PICK ok \in BOOLEAN :
        /\ irc!SendLine(call[c].q, ok)
        /\ call' = [call EXCEPT ![c].at = IF ok THEN "await" ELSE "unsent"]
  BY DEF irc!Send
<1>2. /\ call'[c].at \in {"await", "unsent"} /\ call'[c].q = call[c].q
      /\ \A d \in Caller : d # c => ~Active(d) /\ ~Active(d)'
  BY <1>1 DEF ClientTypeOK, LockInv, Active, irc!Send
<1>3. call[c].at = "send" /\ call[c].q = asked /\ asked \in Nat
  BY DEF irc!Send, LockInv, Active, ClientTypeOK
<1>4. LockInv'
  BY <1>2, <1>3 DEF LockInv, Active, irc!Send
<1>5. MailboxInv'
  BY <1>2, <1>3 DEF MailboxInv, Active, irc!Send
<1>6. Reads' => WireInv'
  <2> SUFFICES ASSUME Reads' PROVE WireInv'
    OBVIOUS
  <2>1. Reads /\ out = <<>> /\ in = <<>> /\ waiter # irc!None
    BY <1>3 DEF Reads, irc!Send, WireInv
  <2>2. out' = Append(out, asked) \/ out' = out
    BY <1>1, <1>3, Zenon DEF irc!SendLine
  <2>3. Len(out') <= 1 /\ (out' # <<>> => Head(out') = asked)
    <3>1. Len(out) = 0 /\ Len(Append(out, asked)) = Len(out) + 1 /\ Head(Append(out, asked)) = asked
      BY <1>3, <2>1, OneOnTheWire DEF ClientTypeOK
    <3> QED
      BY <2>1, <2>2, <3>1
  <2> QED
    BY <1>2, <2>1, <2>3 DEF WireInv, irc!Send, Active
<1>7. ClosedInv' /\ irc!AnswerIsOwn'
  BY DEF ClosedInv, irc!AnswerIsOwn, irc!Send
<1> QED
  BY <1>4, <1>5, <1>6, <1>7 DEF ClientRest

(* Nobody's mailbox is left when a call clears its own; and a query that   *)
(* pauses leaves the mechanism paused, if its mailbox was there. *)
LEMMA NoMailboxLeft ==
  ASSUME ClientInv, NEW c \in Caller, Active(c), NEW pause \in BOOLEAN, irc!ClearWaiter(call[c].q, pause)
  PROVE  waiter' = irc!None /\ (dead => dead') /\ (pause /\ waiter # irc!None => dead')
<1>1. waiter # irc!None => waiter = call[c].q
  BY DEF ClientInv, LockInv, MailboxInv
<1> QED
  BY <1>1, Zenon DEF irc!ClearWaiter

(* A call that returns leaves no caller active and no mailbox installed;   *)
(* what is still on the wire is owed, and the mechanism paused. *)
LEMMA ReturnStep ==
  ASSUME ClientInv, NEW c \in Caller, NEW reply \in Reply, Active(c), irc!Returns(c, reply),
         reply.of \in {irc!None, call[c].q}, waiter' = irc!None, box' = box \/ box' = <<>>,
         Reads /\ (out # <<>> \/ in # <<>>) => dead'
  PROVE  ClientRest'
<1> USE DEF ClientInv
<1>1. \A d \in Caller : ~Active(d)' /\ call'[d].at = "idle"
  BY DEF ClientTypeOK, LockInv, irc!Returns, Active, irc!Idle
<1>2. LockInv'
  BY <1>1 DEF LockInv
<1>3. MailboxInv'
  BY <1>1 DEF MailboxInv, irc!Returns
<1>4. Reads' => WireInv'
  BY <1>1 DEF WireInv, Reads, irc!Returns
<1>5. irc!AnswerIsOwn'
  BY DEF irc!AnswerIsOwn, irc!Returns
<1>6. ClosedInv'
  BY DEF ClosedInv, irc!Returns
<1> QED
  BY <1>2, <1>3, <1>4, <1>5, <1>6 DEF ClientRest

LEMMA PresenceStep ==
  ASSUME ClientInv, NEW c \in Caller, irc!Presence(c)
  PROVE  ClientRest'
<1> USE DEF ClientInv
<1>b. box # <<>> => Head(box) \in Reply
  BY OneOnTheWire DEF ClientTypeOK
<1>1. CASE irc!GivesUp(c)
  <2>1. Active(c) /\ irc!ClearWaiter(call[c].q, TRUE) /\ irc!Returns(c, irc!Error) /\ box' = box
    BY <1>1 DEF irc!GivesUp, Active
  <2>2. waiter' = irc!None /\ (dead => dead') /\ (waiter # irc!None => dead')
    BY <2>1, NoMailboxLeft
  <2>3. Reads /\ (out # <<>> \/ in # <<>>) => dead'
    BY <2>2 DEF WireInv
  <2> QED
    BY <2>1, <2>2, <2>3, ErrorIsReply, ReturnStep
<1>2. CASE irc!Answered(c)
  <2>1. /\ Active(c) /\ irc!ClearWaiter(call[c].q, FALSE) /\ irc!Returns(c, Head(box))
        /\ box # <<>> /\ box' = <<>>
    BY <1>2 DEF irc!Answered, Active
  <2>2. waiter' = irc!None /\ (dead => dead')
    BY <2>1, NoMailboxLeft
  <2>3. waiter = irc!None /\ Head(box).of \in {irc!None, call[c].q}
    BY <2>1 DEF MailboxInv, LockInv
  <2>4. Reads /\ (out # <<>> \/ in # <<>>) => dead'
    BY <2>2, <2>3 DEF WireInv
  <2> QED
    BY <1>b, <2>1, <2>2, <2>3, <2>4, ReturnStep
<1>3. CASE irc!SeesClosed(c)
  <2>1. /\ Active(c) /\ irc!ClearWaiter(call[c].q, FALSE) /\ irc!Returns(c, irc!Error)
        /\ closed /\ box' = box
    BY <1>3 DEF irc!SeesClosed, Active
  <2>2. waiter' = irc!None
    BY <2>1, NoMailboxLeft
  <2>3. ~Reads
    BY <2>1 DEF ClosedInv, Reads
  <2> QED
    BY <2>1, <2>2, <2>3, ErrorIsReply, ReturnStep
<1>4. CASE irc!LooksAgain(c)
  <2> DEFINE reply == IF box # <<>> THEN Head(box) ELSE irc!Error
  <2>1. Active(c) /\ call[c].at = "late" /\ irc!Returns(c, reply) /\ box' = <<>> /\ waiter' = waiter
    BY <1>4 DEF irc!LooksAgain, Active
  <2>2. waiter = irc!None /\ dead' = dead
    BY <1>4, <2>1 DEF MailboxInv, irc!LooksAgain
  <2>3. reply \in Reply /\ reply.of \in {irc!None, call[c].q}
    BY <1>b, <2>1, ErrorIsReply DEF MailboxInv, LockInv
  <2>4. Reads /\ (out # <<>> \/ in # <<>>) => dead'
    BY <2>2 DEF WireInv
  <2> HIDE DEF reply
  <2> QED
    BY <2>1, <2>2, <2>3, <2>4, ReturnStep
<1>5. CASE irc!TimesOut(c)
  <2>1. /\ call[c].at = "await" /\ Active(c) /\ irc!ClearWaiter(call[c].q, TRUE)
        /\ call' = [call EXCEPT ![c].at = "late"]
    BY <1>5 DEF irc!TimesOut, Active
  <2>2. waiter' = irc!None /\ (dead => dead') /\ (waiter # irc!None => dead')
    BY <2>1, NoMailboxLeft
  <2>3. /\ call'[c].at = "late" /\ call'[c].q = call[c].q
        /\ \A d \in Caller : d # c => ~Active(d) /\ ~Active(d)'
    BY <2>1 DEF ClientTypeOK, LockInv, Active
  <2>4. LockInv'
    BY <1>5, <2>1, <2>3 DEF LockInv, Active, irc!TimesOut
  <2>5. MailboxInv'
    BY <1>5, <2>2 DEF MailboxInv, irc!TimesOut
  <2>6. Reads' => WireInv'
    BY <1>5, <2>2, <2>3 DEF WireInv, Reads, Active, irc!TimesOut
  <2> QED
    BY <1>5, <2>4, <2>5, <2>6 DEF ClientRest, ClosedInv, irc!AnswerIsOwn, irc!TimesOut
<1> QED
  BY <1>1, <1>2, <1>3, <1>4, <1>5, AskStep, SendStep DEF irc!Presence

LEMMA ReadLoopStep ==
  ASSUME ClientInv, irc!ReadLoop \/ irc!ReadFails \/ irc!Close
  PROVE  ClientRest'
<1> USE DEF ClientInv
<1>1. CASE irc!Read
  <2>1. Reads /\ in # <<>> /\ in' = Tail(in) /\ irc!AnswerPresence(Head(in))
    BY <1>1 DEF irc!Read, Reads
  <2>2. out = <<>> /\ in' = <<>> /\ Head(in).of = asked
    <3>1. Len(out) = 0 /\ Len(in) = 1 /\ Head(in).of = asked
      <4>1. Len(out) + Len(in) <= 1 /\ Head(in).of = asked
        BY <2>1 DEF WireInv
      <4>2. in \in Seq(Reply) /\ out \in Seq(Nat)
        BY DEF ClientTypeOK
      <4>3. Len(in) \in Nat /\ Len(in) # 0
        BY <2>1, <4>2, WireLengths
      <4>4. Len(out) \in Nat
        BY <4>2, WireLengths
      <4> QED
        BY <4>1, <4>3, <4>4, OneOfTwo, Zenon
    <3>2. Tail(in) \in Seq(Reply) /\ Len(Tail(in)) = 0
      BY <2>1, <3>1, OneOnTheWire DEF ClientTypeOK
    <3> QED
      BY <2>1, <3>1, <3>2, OneOnTheWire DEF ClientTypeOK
  <2>3. /\ waiter' = irc!None
        /\ (box' = <<Head(in)>> /\ dead' = dead /\ ~dead) \/ (box' = box /\ dead' = FALSE)
    BY <2>1 DEF irc!AnswerPresence, irc!Resumes, MailboxInv
  <2>4. box' # <<>> => Head(box').of \in {irc!None, asked}
    <3>1. Head(in) \in Reply
      BY <2>1, OneOnTheWire DEF ClientTypeOK
    <3>2. Head(<<Head(in)>>) = Head(in)
      BY <3>1, Mailboxes
    <3> QED
      BY <2>2, <2>3, <3>2 DEF MailboxInv
  <2>5. MailboxInv'
    BY <1>1, <2>3, <2>4 DEF MailboxInv, irc!Read
  <2>6. \A d \in Caller : call[d].at # "send"
    BY <2>1 DEF WireInv
  <2>7. WireInv'
    <3>1. out' = <<>> /\ in' = <<>>
      BY <1>1, <2>2 DEF irc!Read
    <3>2. Len(out') = 0 /\ Len(in') = 0
      BY <3>1
    <3> QED
      BY <1>1, <2>6, <3>1, <3>2, OneOfTwo, Zenon DEF WireInv, irc!Read
  <2> QED
    BY <1>1, <2>5, <2>7 DEF ClientRest, LockInv, Active, ClosedInv, irc!AnswerIsOwn, irc!Read
<1>2. CASE irc!FailPresence
  <2>1. waiter' = irc!None /\ (box' = <<irc!Error>> \/ box' = box) /\ ~Reads'
    BY <1>2 DEF irc!FailPresence, Reads
  <2>2. box' # <<>> => Head(box').of \in {irc!None, asked}
    BY <2>1, ErrorIsReply, Mailboxes DEF MailboxInv
  <2>3. MailboxInv'
    BY <1>2, <2>1, <2>2 DEF MailboxInv, irc!FailPresence
  <2> QED
    BY <1>2, <2>1, <2>3 DEF ClientRest, LockInv, Active, ClosedInv, irc!AnswerIsOwn, irc!FailPresence
<1>3. CASE irc!ReadFails \/ irc!CloseConn \/ irc!Close
  <2>1. ~Reads' /\ ClosedInv'
    BY <1>3 DEF irc!ReadFails, irc!CloseConn, irc!Close, Reads, ClosedInv
  <2>2. UNCHANGED <<call, asking, asked, waiter, box, dead, told>>
    BY <1>3 DEF irc!ReadFails, irc!CloseConn, irc!Close
  <2> QED
    BY <2>1, <2>2 DEF ClientRest, LockInv, Active, MailboxInv, irc!AnswerIsOwn
<1> QED
  BY <1>1, <1>2, <1>3 DEF irc!ReadLoop

LEMMA ServerStep ==
  ASSUME ClientInv, irc!Answers \/ irc!Ignores
  PROVE  ClientRest'
<1> USE DEF ClientInv
<1>1. /\ out # <<>> /\ out' = Tail(out)
      /\ UNCHANGED <<call, asking, asked, waiter, box, dead, reader, open, closed, told>>
  BY DEF irc!Answers, irc!Ignores
<1>2. LockInv' /\ MailboxInv' /\ ClosedInv' /\ irc!AnswerIsOwn' /\ Reads' = Reads
  BY <1>1 DEF LockInv, Active, MailboxInv, ClosedInv, irc!AnswerIsOwn, Reads
<1>3. Reads => WireInv'
  <2> SUFFICES ASSUME Reads PROVE WireInv'
    OBVIOUS
  <2>1. Len(out) = 1 /\ Len(in) = 0 /\ Head(out) = asked
    <3>1. Len(out) + Len(in) <= 1 /\ Head(out) = asked
      BY <1>1 DEF WireInv
    <3>2. in \in Seq(Reply) /\ out \in Seq(Nat)
      BY DEF ClientTypeOK
    <3>3. Len(out) \in Nat /\ Len(out) # 0
      BY <1>1, <3>2, WireLengths
    <3>4. Len(in) \in Nat
      BY <3>2, WireLengths
    <3> QED
      BY <3>1, <3>3, <3>4, OneOfTwo, Zenon
  <2>2. out' = <<>> /\ in = <<>>
    <3>1. Tail(out) \in Seq(Nat) /\ Len(Tail(out)) = 0
      BY <1>1, <2>1, OneOnTheWire DEF ClientTypeOK
    <3> QED
      BY <1>1, <2>1, <3>1, OneOnTheWire DEF ClientTypeOK
  <2>3. \A d \in Caller : call[d].at # "send"
    BY <1>1 DEF WireInv
  <2>4. Len(in') <= 1 /\ (in' # <<>> => Head(in').of = asked)
    <3>1. CASE irc!Answers
      <4>1. PICK ok \in BOOLEAN : in' = Append(in, [of |-> Head(out), ok |-> ok])
        BY <3>1 DEF irc!Answers
      <4>2. [of |-> Head(out), ok |-> ok] \in Reply
        BY <2>1 DEF Reply, ClientTypeOK
      <4>3. Len(in') = 1 /\ Head(in') = [of |-> Head(out), ok |-> ok]
        BY <2>1, <2>2, <4>1, <4>2, OneOnTheWire DEF ClientTypeOK
      <4> QED
        BY <2>1, <4>3
    <3>2. CASE irc!Ignores
      BY <2>1, <2>2, <3>2 DEF irc!Ignores
    <3> QED
      BY <3>1, <3>2
  <2>5. waiter # irc!None \/ dead
    BY <1>1 DEF WireInv
  <2>6. Len(out') = 0
    BY <2>2
  <2> QED
    BY <1>1, <2>2, <2>3, <2>4, <2>5, <2>6 DEF WireInv
<1> QED
  BY <1>2, <1>3 DEF ClientRest

LEMMA ClientStep ==
  ASSUME ClientInv, irc!Next
  PROVE  ClientInv'
<1>1. ClientTypeOK'
  BY ClientTypeStep DEF ClientInv
<1>2. ClientRest'
  BY PresenceStep, ReadLoopStep, ServerStep DEF irc!Next
<1> QED
  BY <1>1, <1>2 DEF ClientRest, ClientInv

LEMMA ClientStutter == ClientInv /\ UNCHANGED ircVars => ClientInv'
  BY DEF ClientInv, ClientTypeOK, LockInv, Active, MailboxInv, Reads, WireInv, ClosedInv,
         irc!AnswerIsOwn, ircVars

IrcInv == part = "irc" => ClientInv

(* The client: the lock, the mailbox and the wire are of one query, the    *)
(* last one made. *)
THEOREM ClientInvariant == Spec => []IrcInv
<1>1. Init => IrcInv
  BY ClientInit DEF Init, IrcInv
<1>2. IrcInv /\ [Next]_vars => IrcInv'
  <2> SUFFICES ASSUME IrcInv, [Next]_vars PROVE IrcInv'
    OBVIOUS
  <2>1. CASE IrcNext
    BY <2>1, ClientStep DEF IrcInv, IrcNext, OfIrc
  <2>2. CASE PresenceNext \/ ClaudeNext \/ CodexNext
    BY <2>2 DEF IrcInv, PresenceNext, ClaudeNext, CodexNext, OfPresence, OfClaude, OfCodex
  <2>3. CASE UNCHANGED vars
    BY <2>3, ClientStutter DEF IrcInv, vars
  <2> QED
    BY <2>1, <2>2, <2>3 DEF Next
<1> QED
  BY <1>1, <1>2, PTL DEF Spec

(* Presence: a call is told the reply to its own query or none, for any    *)
(* callers, however many queries timed out before it. *)
THEOREM AnswersAreOwn == Spec => []AnswerIsOwn
<1>1. IrcInv => AnswerIsOwn
  BY DEF IrcInv, ClientInv, AnswerIsOwn
<1> QED
  BY ClientInvariant, <1>1, PTL

(***************************************************************************)
(* The buddies of the chat daemon.  An entry is dialed by one goroutine at *)
(* a time and holds no connection until that goroutine publishes one; a    *)
(* connection is of the entry it was dialed for; and a job of the manager  *)
(* is of a connection the entry held, one job to an entry.                 *)
(***************************************************************************)
Made == DOMAIN entries
Opened == DOMAIN conns

BuddyRec == [session : Session, conn : Nat, dialing : BOOLEAN, text : Nat, applied : Nat,
             silent : BOOLEAN, due : BOOLEAN]
ConnRec == [e : Nat, open : BOOLEAN, up : BOOLEAN, away : Nat, drained : BOOLEAN]
DialRec == [e : Nat, at : {"connect", "publish"}, conn : Nat]
AwayJob == [e : Nat, conn : Nat, text : Nat, set : {"no", "done", "failed"}]

PresenceTypeOK ==
  /\ buddies \in [Session -> Nat]
  /\ (\E n \in Nat : Made = 1..n) /\ entries \in [Made -> BuddyRec]
  /\ (\E n \in Nat : Opened = 1..n) /\ conns \in [Opened -> ConnRec]
  /\ dials \in SUBSET DialRec
  /\ manager \in [close : SUBSET Opened, away : SUBSET AwayJob, dial : SUBSET Made]
  /\ closing \in SUBSET Opened /\ running \in BOOLEAN /\ fails \in Nat

Listed(e) == buddies[entries[e].session] = e

(* The map points to entries, each of its own session. *)
MapInv == \A s \in Session : buddies[s] # 0 => buddies[s] \in Made /\ entries[buddies[s]].session = s

(* A connection is of an entry, and an entry holds only its own. *)
HeldInv ==
  /\ \A c \in Opened : conns[c].e \in Made
  /\ \A e \in Made : entries[e].conn # 0 => entries[e].conn \in Opened /\ conns[entries[e].conn].e = e

(* One dial to an entry, which holds no connection meanwhile. *)
Dialed(e) == e \in manager.dial \/ \E d \in dials : d.e = e

DialInv ==
  /\ \A d \in dials :
       /\ d.e \in Made /\ d.e \notin manager.dial
       /\ IF d.at = "connect" THEN d.conn = 0 ELSE d.conn \in Opened /\ conns[d.conn].e = d.e
  /\ \A d1, d2 \in dials : d1.e = d2.e => d1 = d2
  /\ \A e \in Made : Listed(e) /\ Dialed(e) => entries[e].dialing /\ entries[e].conn = 0

(* What the manager says to a connection is said for the connection's own  *)
(* entry, once. *)
JobInv ==
  /\ \A job \in manager.away :
       /\ job.conn \in Opened /\ conns[job.conn].e = job.e /\ job.e \in Made
       /\ job.set = "done" => conns[job.conn].away = job.text
  /\ \A i, j \in manager.away : i.e = j.e => i = j

BuddiesInv == MapInv /\ HeldInv /\ DialInv /\ JobInv /\ presence!ConnectionsAreKnown

-----------------------------------------------------------------------------
(* The next number is new. *)
LEMMA NextNumber ==
  ASSUME NEW n \in Nat
  PROVE  /\ Cardinality(1..n) + 1 = n + 1 /\ n + 1 \notin 1..n
         /\ (1..n) \cup {n + 1} = 1..(n + 1)
<1>1. Cardinality(1..n) = n
  BY FS_Interval
<1> QED
  BY <1>1

(* The instances count as this module does. *)
LEMMA SameCardinality == \A S : presence!Cardinality(S) = Cardinality(S)
  BY DEF presence!Cardinality, Cardinality

LEMMA PresenceStart == presence!Init => PresenceTypeOK /\ BuddiesInv
<1> SUFFICES ASSUME presence!Init PROVE PresenceTypeOK /\ BuddiesInv
  OBVIOUS
<1>1. Made = {} /\ Opened = {} /\ Made = 1..0 /\ Opened = 1..0
  BY DEF presence!Init, Made, Opened
<1>2. PresenceTypeOK
  BY <1>1 DEF PresenceTypeOK, presence!Init, presence!NoJob, Made, Opened
<1>3. BuddiesInv
  BY <1>1 DEF BuddiesInv, MapInv, HeldInv, DialInv, JobInv, presence!Init, presence!NoJob,
     presence!ConnectionsAreKnown, presence!NoOrphans, presence!AwayIsTrue, presence!Made,
     presence!Opened, Made, Opened
<1> QED
  BY <1>2, <1>3

(* A step that makes no entry and no connection leaves both sets alone.    *)
LEMMA KeepsTypes ==
  ASSUME PresenceTypeOK, buddies' \in [Session -> Nat], entries' \in [Made -> BuddyRec],
         conns' \in [Opened -> ConnRec], dials' \in SUBSET DialRec,
         manager' \in [close : SUBSET Opened, away : SUBSET AwayJob, dial : SUBSET Made],
         closing' \in SUBSET Opened, running' \in BOOLEAN, fails' \in Nat
  PROVE  PresenceTypeOK' /\ Made' = Made /\ Opened' = Opened
<1>1. Made' = Made /\ Opened' = Opened
  BY DEF Made, Opened
<1> QED
  BY <1>1 DEF PresenceTypeOK

LEMMA TakenAreOpened ==
  ASSUME PresenceTypeOK, HeldInv, NEW E, E \subseteq Made
  PROVE  presence!Taken(E) \subseteq Opened
  BY DEF presence!Taken, HeldInv, PresenceTypeOK

LEMMA GoneIsBuddy ==
  ASSUME NEW b \in BuddyRec
  PROVE  presence!Gone(b) \in BuddyRec /\ presence!Gone(b).conn = 0 /\ presence!Gone(b).session = b.session
         /\ ~presence!Gone(b).dialing
  BY DEF presence!Gone, presence!Buddy, BuddyRec

(* What the steps make of an entry, and of a connection. *)
LEMMA BuddyRows ==
  ASSUME NEW b \in BuddyRec, NEW n \in Nat
  PROVE  /\ [b EXCEPT !.silent = TRUE] \in BuddyRec /\ [b EXCEPT !.due = TRUE] \in BuddyRec
         /\ [b EXCEPT !.dialing = TRUE] \in BuddyRec /\ [b EXCEPT !.applied = n] \in BuddyRec
         /\ [b EXCEPT !.text = n, !.silent = FALSE] \in BuddyRec
         /\ [b EXCEPT !.conn = 0, !.applied = 0, !.due = FALSE] \in BuddyRec
         /\ presence!Retriable(b) \in BuddyRec /\ presence!Publishes(b, n) \in BuddyRec
  BY DEF BuddyRec, presence!Retriable, presence!Publishes

LEMMA PublishedRow ==
  ASSUME NEW b \in BuddyRec, NEW n
  PROVE  /\ presence!Publishes(b, n).session = b.session
         /\ presence!Publishes(b, n).conn = n /\ presence!Publishes(b, n).applied = 0
  BY DEF BuddyRec, presence!Publishes

LEMMA ConnRows ==
  ASSUME NEW c \in ConnRec, NEW n \in Nat
  PROVE  /\ [c EXCEPT !.open = FALSE] \in ConnRec /\ [c EXCEPT !.up = FALSE] \in ConnRec
         /\ [c EXCEPT !.drained = TRUE] \in ConnRec /\ [c EXCEPT !.away = n] \in ConnRec
  BY DEF ConnRec

(* A row rewritten in place. *)
LEMMA OneRow ==
  ASSUME NEW D, NEW R, NEW f \in [D -> R], NEW d, NEW r, d \in D => r \in R
  PROVE  [f EXCEPT ![d] = r] \in [D -> R]
  OBVIOUS

LEMMA ConnChanges ==
  ASSUME NEW f \in [Opened -> ConnRec], NEW c
  PROVE  /\ [f EXCEPT ![c].open = FALSE] \in [Opened -> ConnRec]
         /\ [f EXCEPT ![c].up = FALSE] \in [Opened -> ConnRec]
<1>1. c \in Opened => [f[c] EXCEPT !.open = FALSE] \in ConnRec /\ [f[c] EXCEPT !.up = FALSE] \in ConnRec
  <2>1. c \in Opened => f[c] \in ConnRec
    OBVIOUS
  <2>2. 0 \in Nat
    OBVIOUS
  <2> QED
    BY <2>1, <2>2, ConnRows
<1>2. [f EXCEPT ![c] = [f[c] EXCEPT !.open = FALSE]] \in [Opened -> ConnRec]
  BY <1>1, OneRow
<1>3. [f EXCEPT ![c] = [f[c] EXCEPT !.up = FALSE]] \in [Opened -> ConnRec]
  BY <1>1, OneRow
<1> QED
  BY <1>2, <1>3

LEMMA PresenceTypeStep ==
  ASSUME PresenceTypeOK, MapInv, HeldInv, presence!Next
  PROVE  PresenceTypeOK'
<1>a. /\ buddies \in [Session -> Nat] /\ entries \in [Made -> BuddyRec]
      /\ conns \in [Opened -> ConnRec] /\ dials \in SUBSET DialRec
      /\ manager \in [close : SUBSET Opened, away : SUBSET AwayJob, dial : SUBSET Made]
      /\ closing \in SUBSET Opened /\ running \in BOOLEAN /\ fails \in Nat
  BY DEF PresenceTypeOK
<1>1. ASSUME NEW s \in Session, presence!Note(s) PROVE PresenceTypeOK'
  <2>1. PICK n \in Nat : Made = 1..n
    BY DEF PresenceTypeOK
  <2> DEFINE new == n + 1
  <2>2. Cardinality(Made) + 1 = new /\ Made \cup {new} = 1..new /\ new \notin Made /\ new \in Nat
    BY <2>1, NextNumber
  <2> HIDE DEF new
  <2>5. PICK text \in 1..2 :
          \/ /\ buddies[s] # 0
             /\ entries' = [entries EXCEPT ![buddies[s]].text = text, ![buddies[s]].silent = FALSE]
             /\ UNCHANGED buddies
          \/ /\ entries' = [e \in Made \cup {new} |-> IF e = new THEN presence!Buddy(s, text) ELSE entries[e]]
             /\ buddies' = [buddies EXCEPT ![s] = new]
    BY <1>1, <2>2, SameCardinality DEF presence!Note, presence!Made, Made
  <2>6. UNCHANGED <<conns, dials, manager, closing, running, fails>> /\ Opened' = Opened
    BY <1>1 DEF presence!Note, Opened
  <2>3. CASE buddies[s] # 0 /\ entries' = [entries EXCEPT ![buddies[s]].text = text, ![buddies[s]].silent = FALSE]
             /\ UNCHANGED buddies
    <3>1. buddies[s] \in Made /\ entries[buddies[s]] \in BuddyRec
      BY <1>a, <2>3 DEF MapInv
    <3>2. entries' = [entries EXCEPT ![buddies[s]] = [entries[buddies[s]] EXCEPT !.text = text, !.silent = FALSE]]
      BY <1>a, <2>3, <3>1
    <3>3. entries' \in [Made -> BuddyRec]
      <4>1. text \in Nat
        OBVIOUS
      <4> QED
        BY <1>a, <3>1, <3>2, <4>1, BuddyRows
    <3> QED
      BY <1>a, <2>3, <2>6, <3>3, KeepsTypes
  <2>4. CASE /\ entries' = [e \in Made \cup {new} |-> IF e = new THEN presence!Buddy(s, text) ELSE entries[e]]
             /\ buddies' = [buddies EXCEPT ![s] = new]
    <3>2. presence!Buddy(s, text) \in BuddyRec
      BY DEF presence!Buddy, BuddyRec
    <3>3. Made' = 1..new /\ entries' \in [Made' -> BuddyRec] /\ Made \subseteq Made'
      BY <1>a, <2>2, <2>4, <3>2 DEF Made
    <3>4. buddies' \in [Session -> Nat]
      BY <1>a, <2>2, <2>4
    <3> QED
      BY <1>a, <2>2, <2>6, <3>3, <3>4 DEF PresenceTypeOK
  <2> QED
    BY <2>3, <2>4, <2>5
<1>2. ASSUME NEW s \in Session, presence!Forget(s) PROVE PresenceTypeOK'
  <2>1. buddies[s] \in Made /\ {buddies[s]} \subseteq Made
    BY <1>2 DEF MapInv, presence!Forget
  <2>2. closing' \in SUBSET Opened
    BY <1>2, <1>a, <2>1, TakenAreOpened DEF presence!Forget
  <2>3. entries' \in [Made -> BuddyRec]
    BY <1>2, <1>a, <2>1, GoneIsBuddy DEF presence!Forget
  <2> QED
    BY <1>2, <1>a, <2>2, <2>3, KeepsTypes DEF presence!Forget
<1>3. ASSUME NEW c \in Opened, presence!Close(c) \/ presence!ServerDrops(c) PROVE PresenceTypeOK'
  <2>1. \/ conns' = [conns EXCEPT ![c].open = FALSE]
        \/ conns' = [conns EXCEPT ![c].up = FALSE]
    BY <1>3 DEF presence!Close, presence!ServerDrops
  <2>2. conns' \in [Opened -> ConnRec]
    <3>1. conns \in [Opened -> ConnRec]
      BY <1>a
    <3>2. /\ [conns EXCEPT ![c].open = FALSE] \in [Opened -> ConnRec]
          /\ [conns EXCEPT ![c].up = FALSE] \in [Opened -> ConnRec]
      BY <3>1, ConnChanges
    <3> QED
      BY <2>1, <3>2
  <2> QED
    BY <1>3, <1>a, <2>2, KeepsTypes DEF presence!Close, presence!ServerDrops
<1>4. ASSUME NEW c \in Opened, presence!Drain(c) PROVE PresenceTypeOK'
  <2>1. conns' \in [Opened -> ConnRec]
    BY <1>4, <1>a DEF presence!Drain, ConnRec
  <2>2. entries' \in [Made -> BuddyRec]
    <3> DEFINE e == conns[c].e
    <3>1. CASE entries' = entries
      BY <1>a, <3>1
    <3>2. CASE entries' = [entries EXCEPT ![e].conn = 0, ![e].applied = 0, ![e].due = FALSE]
      <4>1. e \in Made /\ entries[e] \in BuddyRec
        BY <1>a DEF HeldInv
      <4>2. entries' = [entries EXCEPT ![e] = [entries[e] EXCEPT !.conn = 0, !.applied = 0, !.due = FALSE]]
        BY <1>a, <3>2, <4>1
      <4> QED
        BY <1>a, <4>1, <4>2, BuddyRows
    <3> QED
      BY <1>4, <3>1, <3>2 DEF presence!Drain
  <2> QED
    BY <1>4, <1>a, <2>1, <2>2, KeepsTypes DEF presence!Drain
<1>5. ASSUME NEW e \in Made, presence!FallsSilent(e) \/ presence!ComesDue(e) PROVE PresenceTypeOK'
  <2>1. \/ entries' = [entries EXCEPT ![e].silent = TRUE]
        \/ entries' = [entries EXCEPT ![e].due = TRUE]
    BY <1>5 DEF presence!FallsSilent, presence!ComesDue
  <2>2. entries' \in [Made -> BuddyRec]
    <3>1. [entries[e] EXCEPT !.silent = TRUE] \in BuddyRec /\ [entries[e] EXCEPT !.due = TRUE] \in BuddyRec
      <4>1. entries[e] \in BuddyRec /\ 0 \in Nat
        BY <1>a
      <4> QED
        BY <4>1, BuddyRows
    <3> HIDE DEF BuddyRec
    <3>2. CASE entries' = [entries EXCEPT ![e].silent = TRUE]
      BY <1>a, <3>1, <3>2
    <3>3. CASE entries' = [entries EXCEPT ![e].due = TRUE]
      BY <1>a, <3>1, <3>3
    <3> QED
      BY <2>1, <3>2, <3>3
  <2> QED
    BY <1>5, <1>a, <2>2, KeepsTypes DEF presence!FallsSilent, presence!ComesDue
<1>6. CASE presence!Reconcile
  <2> DEFINE listed == {e \in Made : presence!Listed(e)}
             expired == {e \in listed : entries[e].silent}
             dialed == {e \in listed \ expired : entries[e].conn = 0 /\ ~entries[e].dialing /\ entries[e].due}
             aways == {e \in listed \ expired : entries[e].conn # 0 /\ entries[e].text # entries[e].applied}
             row(e) == [e |-> e, conn |-> entries[e].conn, text |-> entries[e].text, set |-> "no"]
             next(e) == IF e \in expired THEN presence!Gone(entries[e])
                        ELSE IF e \in dialed THEN [entries[e] EXCEPT !.dialing = TRUE]
                        ELSE entries[e]
  <2>1. /\ manager' = [close |-> presence!Taken(expired), dial |-> dialed, away |-> {row(e) : e \in aways}]
        /\ entries' = [e \in Made |-> next(e)]
        /\ buddies' = [s \in Session |-> IF buddies[s] \in expired THEN 0 ELSE buddies[s]]
        /\ UNCHANGED <<conns, dials, closing, running, fails>>
    BY <1>6 DEF presence!Reconcile, presence!Made, Made
  <2>2. \A e \in Made : e \in Nat /\ row(e) \in AwayJob /\ next(e) \in BuddyRec
    <3> SUFFICES ASSUME NEW e \in Made PROVE e \in Nat /\ row(e) \in AwayJob /\ next(e) \in BuddyRec
      OBVIOUS
    <3>1. e \in Nat
      BY DEF PresenceTypeOK
    <3>2. entries[e] \in BuddyRec
      BY <1>a
    <3>3. [entries[e] EXCEPT !.dialing = TRUE] \in BuddyRec
      BY <3>2 DEF BuddyRec
    <3>4. row(e) \in AwayJob
      BY <3>1, <3>2 DEF BuddyRec, AwayJob
    <3> QED
      BY <3>1, <3>2, <3>3, <3>4, GoneIsBuddy
  <2>3. expired \subseteq Made /\ dialed \subseteq Made /\ aways \subseteq Made
    OBVIOUS
  <2> HIDE DEF listed, expired, dialed, aways, row, next
  <2>4. manager' \in [close : SUBSET Opened, away : SUBSET AwayJob, dial : SUBSET Made]
    BY <2>1, <2>2, <2>3, TakenAreOpened
  <2>5. entries' \in [Made -> BuddyRec] /\ buddies' \in [Session -> Nat]
    BY <1>a, <2>1, <2>2
  <2> QED
    BY <1>a, <2>1, <2>4, <2>5, KeepsTypes
<1>7. ASSUME NEW c \in manager.close, presence!CloseExpired(c) PROVE PresenceTypeOK'
  <2>1. conns' = [conns EXCEPT ![c].open = FALSE] /\ c \in Opened
    BY <1>7, <1>a DEF presence!CloseExpired
  <2>2. conns' \in [Opened -> ConnRec]
    <3>1. conns \in [Opened -> ConnRec]
      BY <1>a
    <3>2. /\ [conns EXCEPT ![c].open = FALSE] \in [Opened -> ConnRec]
          /\ [conns EXCEPT ![c].up = FALSE] \in [Opened -> ConnRec]
      BY <3>1, ConnChanges
    <3> QED
      BY <2>1, <3>2
  <2> QED
    BY <1>7, <1>a, <2>2, KeepsTypes DEF presence!CloseExpired
<1>8. ASSUME NEW job \in manager.away, presence!SetAway(job) PROVE PresenceTypeOK'
  <2>1. job \in AwayJob
    BY <1>a
  <2>2. PICK written \in BOOLEAN :
          /\ manager' = [manager EXCEPT !.away = (@ \ {job}) \cup {[job EXCEPT !.set = IF written THEN "done" ELSE "failed"]}]
          /\ conns' = IF written THEN [conns EXCEPT ![job.conn].away = job.text] ELSE conns
    BY <1>8, <1>a DEF presence!SetAway, presence!Alive, ConnRec
  <2>3. conns' \in [Opened -> ConnRec]
    BY <1>a, <2>1, <2>2 DEF ConnRec, AwayJob
  <2>4. [job EXCEPT !.set = IF written THEN "done" ELSE "failed"] \in AwayJob
    BY <2>1 DEF AwayJob
  <2>5. manager' \in [close : SUBSET Opened, away : SUBSET AwayJob, dial : SUBSET Made]
    BY <1>a, <2>2, <2>4
  <2> QED
    BY <1>8, <1>a, <2>3, <2>5, KeepsTypes DEF presence!SetAway
<1>9. ASSUME NEW job \in manager.away, presence!NoteApplied(job) PROVE PresenceTypeOK'
  <2>1. job \in AwayJob
    BY <1>a
  <2>2. entries' \in [Made -> BuddyRec]
    <3>1. job.text \in Nat /\ 0 \in Nat
      BY <2>1 DEF AwayJob
    <3>2. CASE presence!OfThisConn(job) /\ job.set = "done"
      BY <1>9, <1>a, <3>1, <3>2, BuddyRows DEF presence!NoteApplied, presence!TextSet
    <3>3. CASE presence!OfThisConn(job) /\ job.set # "done"
      BY <1>9, <1>a, <3>1, <3>3, BuddyRows DEF presence!NoteApplied
    <3>4. CASE ~presence!OfThisConn(job)
      BY <1>9, <1>a, <3>4 DEF presence!NoteApplied
    <3> QED
      BY <3>2, <3>3, <3>4
  <2> QED
    BY <1>9, <1>a, <2>2, KeepsTypes DEF presence!NoteApplied
<1>10. ASSUME NEW e \in manager.dial, presence!StartDial(e) PROVE PresenceTypeOK'
  <2>1. e \in Nat
    BY <1>a DEF PresenceTypeOK
  <2>2. [e |-> e, at |-> "connect", conn |-> 0] \in DialRec
    BY <2>1 DEF DialRec
  <2>3. manager' \in [close : SUBSET Opened, away : SUBSET AwayJob, dial : SUBSET Made]
    BY <1>10, <1>a DEF presence!StartDial
  <2> QED
    BY <1>10, <1>a, <2>2, <2>3, KeepsTypes DEF presence!StartDial
<1>11. CASE presence!Shutdown
  <2> DEFINE held == {e \in Made : presence!Listed(e)}
  <2>1. /\ closing' = closing \cup presence!Taken(held)
        /\ entries' = [e \in Made |-> IF e \in held THEN presence!Gone(entries[e]) ELSE entries[e]]
        /\ buddies' = [s \in Session |-> 0] /\ running' = FALSE
        /\ UNCHANGED <<conns, dials, manager, fails>>
    BY <1>11 DEF presence!Shutdown, presence!Made, Made
  <2>2. held \subseteq Made
    OBVIOUS
  <2> HIDE DEF held
  <2>3. closing' \in SUBSET Opened
    BY <1>a, <2>1, <2>2, TakenAreOpened
  <2>4. entries' \in [Made -> BuddyRec] /\ buddies' \in [Session -> Nat]
    BY <1>a, <2>1, GoneIsBuddy
  <2> QED
    BY <1>a, <2>1, <2>3, <2>4, KeepsTypes
<1>12. ASSUME NEW d \in dials, presence!Connect(d) PROVE PresenceTypeOK'
  <2>1. PICK n \in Nat : Opened = 1..n
    BY DEF PresenceTypeOK
  <2> DEFINE new == n + 1
             conn == [e |-> d.e, open |-> TRUE, up |-> TRUE, away |-> 0, drained |-> FALSE]
  <2>2. Cardinality(Opened) + 1 = new /\ Opened \cup {new} = 1..new /\ new \notin Opened /\ new \in Nat
    BY <2>1, NextNumber
  <2>3. d \in DialRec /\ conn \in ConnRec
    BY <1>a DEF DialRec, ConnRec
  <2> HIDE DEF new, conn
  <2>4. /\ conns' = [c \in Opened \cup {new} |-> IF c = new THEN conn ELSE conns[c]]
        /\ dials' = (dials \ {d}) \cup {[d EXCEPT !.at = "publish", !.conn = new]}
        /\ UNCHANGED <<buddies, entries, manager, closing, running, fails>>
    BY <1>12, <2>2, SameCardinality DEF presence!Connect, presence!Opened, Opened, conn
  <2>5. Opened' = 1..new /\ conns' \in [Opened' -> ConnRec] /\ Opened \subseteq Opened'
    BY <1>a, <2>2, <2>3, <2>4 DEF Opened
  <2>6. [d EXCEPT !.at = "publish", !.conn = new] \in DialRec
    BY <2>2, <2>3 DEF DialRec
  <2>7. dials' \in SUBSET DialRec /\ Made' = Made
    BY <1>a, <2>4, <2>6 DEF Made
  <2>8. manager \in [close : SUBSET Opened', away : SUBSET AwayJob, dial : SUBSET Made] /\ closing \in SUBSET Opened'
    BY <1>a, <2>5
  <2> QED
    BY <2>2, <2>4, <2>5, <2>7, <2>8 DEF PresenceTypeOK
<1>13. ASSUME NEW d \in dials, presence!Publish(d) PROVE PresenceTypeOK'
  <2>1. d \in DialRec
    BY <1>a
  <2>2. entries' \in [Made -> BuddyRec]
    <3>1. d.conn \in Nat
      BY <2>1 DEF DialRec
    <3>2. entries' = entries \/ entries' = [entries EXCEPT ![d.e] = presence!Publishes(entries[d.e], d.conn)]
      BY <1>13 DEF presence!Publish
    <3>3. \A b \in BuddyRec : presence!Publishes(b, d.conn) \in BuddyRec
      BY <3>1, BuddyRows
    <3> HIDE DEF BuddyRec
    <3>4. d.e \in Made => presence!Publishes(entries[d.e], d.conn) \in BuddyRec
      BY <1>a, <3>3
    <3> QED
      BY <1>a, <3>2, <3>4, OneRow
  <2>3. conns' \in [Opened -> ConnRec]
    <3>1. conns' = conns \/ conns' = [conns EXCEPT ![d.conn].open = FALSE]
      BY <1>13 DEF presence!Publish
    <3>2. [conns EXCEPT ![d.conn].open = FALSE] \in [Opened -> ConnRec]
      BY <1>a, ConnChanges
    <3> QED
      BY <1>a, <3>1, <3>2
  <2>4. dials' \in SUBSET DialRec
    BY <1>13, <1>a DEF presence!Publish
  <2> QED
    BY <1>13, <1>a, <2>2, <2>3, <2>4, KeepsTypes DEF presence!Publish
<1>14. ASSUME NEW d \in dials, presence!DialFails(d) PROVE PresenceTypeOK'
  <2>1. entries' \in [Made -> BuddyRec]
    <3>1. \A b \in BuddyRec : presence!Retriable(b) \in BuddyRec
      BY BuddyRows, 0 \in Nat
    <3>2. entries' = [entries EXCEPT ![d.e] = presence!Retriable(entries[d.e])]
      BY <1>14 DEF presence!DialFails
    <3> HIDE DEF BuddyRec
    <3>3. d.e \in Made => presence!Retriable(entries[d.e]) \in BuddyRec
      BY <1>a, <3>1
    <3> QED
      BY <1>a, <3>2, <3>3, OneRow
  <2>2. conns' \in [Opened -> ConnRec]
    BY <1>14, <1>a DEF presence!DialFails, ConnRec
  <2>3. fails' \in Nat /\ dials' \in SUBSET DialRec
    BY <1>14, <1>a DEF presence!DialFails
  <2> QED
    BY <1>14, <1>a, <2>1, <2>2, <2>3, KeepsTypes DEF presence!DialFails
<1> QED
  BY <1>1, <1>2, <1>3, <1>4, <1>5, <1>6, <1>7, <1>8, <1>9, <1>10, <1>11, <1>12, <1>13, <1>14
     DEF presence!Next, presence!Manage, presence!Dial, presence!Made, presence!Opened, Made, Opened

-----------------------------------------------------------------------------
PresenceInv == PresenceTypeOK /\ BuddiesInv

(* What the invariant reads of the rows. *)
SameBuddies ==
  \A e \in Made : /\ entries'[e].session = entries[e].session /\ entries'[e].conn = entries[e].conn
                  /\ entries'[e].dialing = entries[e].dialing /\ entries'[e].applied = entries[e].applied
SameConns == \A c \in Opened : conns'[c].e = conns[c].e /\ conns'[c].away = conns[c].away

(* No connection comes to life, and one in hand stays in hand or is closed. *)
InHand(c) == c \in closing \/ c \in manager.close
NoneAppears == \A c \in Opened : presence!Alive(c)' => presence!Alive(c) /\ (InHand(c) => InHand(c)')

NoOrphans ==
  \A c \in Opened : presence!Alive(c) =>
    (Listed(conns[c].e) /\ entries[conns[c].e].conn = c) \/ (\E d \in dials : d.conn = c) \/ InHand(c)
AwayIsTrue ==
  \A e \in Made :
    (entries[e].conn # 0 /\ entries[e].applied # 0 /\ ~\E job \in manager.away : job.conn = entries[e].conn)
      => conns[entries[e].conn].away = entries[e].applied

LEMMA KnownParts ==
  /\ presence!ConnectionsAreKnown <=> NoOrphans /\ AwayIsTrue
  /\ presence!ConnectionsAreKnown' <=> NoOrphans' /\ AwayIsTrue'
  BY DEF presence!ConnectionsAreKnown, presence!NoOrphans, presence!AwayIsTrue, presence!Opened,
     presence!Made, presence!Listed, presence!InDial, Opened, Made, Listed, InHand, NoOrphans, AwayIsTrue

LEMMA QuietStep ==
  ASSUME PresenceInv, Made' = Made, Opened' = Opened, SameBuddies, SameConns, NoneAppears,
         buddies' = buddies, dials' = dials, manager'.away = manager.away, manager'.dial = manager.dial
  PROVE  BuddiesInv'
<1> USE DEF PresenceInv, BuddiesInv
<1>1. MapInv'
  BY DEF MapInv, SameBuddies
<1>2. HeldInv'
  BY DEF HeldInv, SameBuddies, SameConns
<1>3. DialInv'
  BY DEF DialInv, Dialed, Listed, SameBuddies, SameConns
<1>4. JobInv'
  BY DEF JobInv, SameConns
<1>5. NoOrphans'
  BY KnownParts DEF NoOrphans, Listed, SameBuddies, SameConns, NoneAppears, HeldInv
<1>6. AwayIsTrue'
  BY KnownParts DEF AwayIsTrue, SameBuddies, SameConns, HeldInv
<1>7. presence!ConnectionsAreKnown'
  BY <1>5, <1>6, KnownParts
<1> QED
  BY <1>1, <1>2, <1>3, <1>4, <1>7

(* Entries leave the map, and who takes them out takes their connections.  *)
LEMMA LeaveStep ==
  ASSUME PresenceInv, NEW E, E \subseteq {e \in Made : Listed(e)}, Made' = Made, conns' = conns, dials' = dials,
         \A e \in Made : entries'[e].session = entries[e].session,
         \A e \in E : entries'[e].conn = 0,
         \A e \in Made \ E : entries'[e].conn = entries[e].conn /\ entries'[e].applied = entries[e].applied
                             /\ (entries[e].dialing => entries'[e].dialing),
         \A s \in Session : buddies'[s] = IF buddies[s] \in E THEN 0 ELSE buddies[s],
         \A c \in Opened : InHand(c) \/ c \in presence!Taken(E) => InHand(c)'
  PROVE  /\ MapInv' /\ HeldInv' /\ NoOrphans'
         /\ \A e \in Made : Listed(e)' => Listed(e) /\ e \notin E
         /\ manager'.away = manager.away => JobInv' /\ AwayIsTrue'
         /\ manager'.dial = manager.dial => DialInv'
<1> USE DEF PresenceInv, BuddiesInv
<1>0. Opened' = Opened /\ 0 \notin Made /\ 0 \notin Opened
  BY DEF Opened, PresenceTypeOK
<1>1. MapInv'
  BY DEF MapInv
<1>2. HeldInv'
  BY <1>0 DEF HeldInv
<1>3. \A e \in Made : (Listed(e)' => Listed(e) /\ e \notin E) /\ (Listed(e) /\ e \notin E => Listed(e)')
  <2> SUFFICES ASSUME NEW e \in Made
               PROVE  (Listed(e)' => Listed(e) /\ e \notin E) /\ (Listed(e) /\ e \notin E => Listed(e)')
    OBVIOUS
  <2>1. entries'[e].session = entries[e].session /\ entries[e].session \in Session
    BY DEF PresenceTypeOK, BuddyRec
  <2> QED
    BY <1>0, <2>1 DEF Listed
<1>4. NoOrphans'
  <2> SUFFICES ASSUME NEW c \in Opened, presence!Alive(c)'
               PROVE  \/ Listed(conns[c].e)' /\ entries'[conns[c].e].conn = c
                      \/ (\E d \in dials' : d.conn = c) \/ InHand(c)'
    BY <1>0 DEF NoOrphans
  <2>1. presence!Alive(c) /\ conns[c].e \in Made
    BY DEF presence!Alive, HeldInv
  <2>2. CASE InHand(c) \/ \E d \in dials : d.conn = c
    BY <2>2
  <2>3. CASE Listed(conns[c].e) /\ entries[conns[c].e].conn = c /\ conns[c].e \notin E
    BY <1>3, <2>1, <2>3
  <2>4. CASE entries[conns[c].e].conn = c /\ conns[c].e \in E
    BY <1>0, <2>4 DEF presence!Taken
  <2> QED
    BY <2>1, <2>2, <2>3, <2>4, KnownParts DEF NoOrphans
<1>5. manager'.away = manager.away => JobInv' /\ AwayIsTrue'
  <2> SUFFICES ASSUME manager'.away = manager.away PROVE JobInv' /\ AwayIsTrue'
    OBVIOUS
  <2>1. JobInv'
    BY <1>0 DEF JobInv
  <2>2. AwayIsTrue
    BY KnownParts
  <2>3. AwayIsTrue'
    BY <2>2 DEF AwayIsTrue
  <2> QED
    BY <2>1, <2>3
<1>6. manager'.dial = manager.dial => DialInv'
  BY <1>0, <1>3 DEF DialInv, Dialed
<1> QED
  BY <1>1, <1>2, <1>3, <1>4, <1>5, <1>6

LEMMA NoteStep ==
  ASSUME PresenceInv, PresenceTypeOK', NEW s \in Session, presence!Note(s)
  PROVE  BuddiesInv'
<1> USE DEF PresenceInv, BuddiesInv
<1>a. /\ buddies \in [Session -> Nat] /\ entries \in [Made -> BuddyRec] /\ 0 \notin Made
  BY DEF PresenceTypeOK
<1>1. PICK n \in Nat : Made = 1..n
  BY DEF PresenceTypeOK
<1> DEFINE new == n + 1
<1>2. Cardinality(Made) + 1 = new /\ new \notin Made /\ new \in Nat /\ new # 0
  BY <1>1, NextNumber
<1> HIDE DEF new
<1>3. PICK text \in 1..2 :
        \/ /\ buddies[s] # 0
           /\ entries' = [entries EXCEPT ![buddies[s]].text = text, ![buddies[s]].silent = FALSE]
           /\ UNCHANGED buddies
        \/ /\ buddies[s] = 0
           /\ entries' = [e \in Made \cup {new} |-> IF e = new THEN presence!Buddy(s, text) ELSE entries[e]]
           /\ buddies' = [buddies EXCEPT ![s] = new]
  BY <1>2, SameCardinality DEF presence!Note, presence!Made, Made
<1>4. UNCHANGED <<conns, dials, manager, closing, running, fails>> /\ Opened' = Opened
  BY DEF presence!Note, Opened
<1>5. CASE /\ buddies[s] # 0 /\ UNCHANGED buddies
           /\ entries' = [entries EXCEPT ![buddies[s]].text = text, ![buddies[s]].silent = FALSE]
  <2>1. buddies[s] \in Made /\ entries[buddies[s]] \in BuddyRec
    BY <1>a, <1>5 DEF MapInv
  <2>2. entries' = [entries EXCEPT ![buddies[s]] = [entries[buddies[s]] EXCEPT !.text = text, !.silent = FALSE]]
    BY <1>a, <1>5, <2>1
  <2>3. Made' = Made /\ SameBuddies
    BY <1>a, <2>1, <2>2 DEF SameBuddies, BuddyRec, Made
  <2>4. SameConns /\ NoneAppears
    BY <1>4 DEF SameConns, NoneAppears, presence!Alive, InHand
  <2> QED
    BY <1>4, <1>5, <2>3, <2>4, QuietStep
<1>6. CASE /\ buddies[s] = 0 /\ buddies' = [buddies EXCEPT ![s] = new]
           /\ entries' = [e \in Made \cup {new} |-> IF e = new THEN presence!Buddy(s, text) ELSE entries[e]]
  <2>1. /\ Made' = Made \cup {new} /\ \A e \in Made : entries'[e] = entries[e]
        /\ entries'[new].session = s /\ entries'[new].conn = 0 /\ entries'[new].applied = 0
    BY <1>2, <1>6 DEF Made, presence!Buddy
  <2>2. buddies'[s] = new /\ \A t \in Session : t # s => buddies'[t] = buddies[t]
    BY <1>a, <1>6
  <2>3. \A e \in Made : Listed(e)' = Listed(e)
    <3> SUFFICES ASSUME NEW e \in Made PROVE Listed(e)' = Listed(e)
      OBVIOUS
    <3>1. entries'[e] = entries[e] /\ entries[e].session \in Session /\ e # 0 /\ e # new
      BY <1>a, <1>2, <2>1 DEF BuddyRec
    <3>2. CASE entries[e].session = s
      BY <1>6, <2>2, <3>1, <3>2 DEF Listed
    <3>3. CASE entries[e].session # s
      BY <2>2, <3>1, <3>3 DEF Listed
    <3> QED
      BY <3>2, <3>3
  <2>4. MapInv'
    BY <1>2, <2>1, <2>2 DEF MapInv
  <2>5. HeldInv'
    BY <1>4, <2>1 DEF HeldInv
  <2>6. DialInv'
    <3>1. ~Dialed(new)
      BY <1>2 DEF DialInv, Dialed, PresenceTypeOK
    <3> QED
      BY <1>4, <2>1, <2>3, <3>1 DEF DialInv, Dialed
  <2>7. JobInv'
    BY <1>4, <2>1 DEF JobInv
  <2>8. NoOrphans /\ AwayIsTrue
    BY KnownParts
  <2>9. NoOrphans'
    BY <1>4, <2>1, <2>3, <2>8 DEF NoOrphans, HeldInv, InHand, presence!Alive
  <2>10. AwayIsTrue'
    BY <1>4, <2>1, <2>8 DEF AwayIsTrue
  <2> QED
    BY <2>4, <2>5, <2>6, <2>7, <2>9, <2>10, KnownParts
<1> QED
  BY <1>3, <1>5, <1>6

LEMMA ForgetStep ==
  ASSUME PresenceInv, NEW s \in Session, presence!Forget(s)
  PROVE  BuddiesInv'
<1> USE DEF PresenceInv, BuddiesInv
<1> DEFINE gone == buddies[s]
<1>1. /\ gone \in Made /\ entries[gone].session = s /\ entries[gone] \in BuddyRec /\ gone # 0
      /\ buddies \in [Session -> Nat] /\ entries \in [Made -> BuddyRec]
  BY DEF presence!Forget, MapInv, PresenceTypeOK
<1>2. /\ closing' = closing \cup presence!Taken({gone}) /\ entries' = [entries EXCEPT ![gone] = presence!Gone(@)]
      /\ buddies' = [buddies EXCEPT ![s] = 0] /\ UNCHANGED <<conns, dials, manager, running, fails>>
  BY DEF presence!Forget
<1>3. /\ Made' = Made /\ \A e \in Made \ {gone} : entries'[e] = entries[e]
      /\ entries'[gone].session = entries[gone].session /\ entries'[gone].conn = 0
  BY <1>1, <1>2, GoneIsBuddy DEF Made
<1>4. {gone} \subseteq {e \in Made : Listed(e)}
  BY <1>1 DEF Listed
<1>5. \A t \in Session : buddies'[t] = IF buddies[t] \in {gone} THEN 0 ELSE buddies[t]
  BY <1>1, <1>2 DEF MapInv
<1>6. \A c \in Opened : InHand(c) \/ c \in presence!Taken({gone}) => InHand(c)'
  BY <1>2 DEF InHand
<1> HIDE DEF gone
<1>7. MapInv' /\ HeldInv' /\ NoOrphans' /\ JobInv' /\ AwayIsTrue' /\ DialInv'
  BY <1>2, <1>3, <1>4, <1>5, <1>6, LeaveStep
<1> QED
  BY <1>7, KnownParts

LEMMA ShutdownStep ==
  ASSUME PresenceInv, presence!Shutdown
  PROVE  BuddiesInv'
<1> USE DEF PresenceInv, BuddiesInv
<1> DEFINE held == {e \in Made : Listed(e)}
<1>1. /\ closing' = closing \cup presence!Taken(held)
      /\ entries' = [e \in Made |-> IF e \in held THEN presence!Gone(entries[e]) ELSE entries[e]]
      /\ buddies' = [t \in Session |-> 0] /\ UNCHANGED <<conns, dials, manager, fails>>
  BY DEF presence!Shutdown, presence!Made, Made, presence!Listed, Listed
<1>2. entries \in [Made -> BuddyRec] /\ held \subseteq Made
  BY DEF PresenceTypeOK
<1>3. /\ \A t \in Session : buddies[t] # 0 => buddies[t] \in held
  BY DEF MapInv, Listed
<1> HIDE DEF held
<1>4. /\ Made' = Made /\ \A e \in Made \ held : entries'[e] = entries[e]
      /\ \A e \in held : entries'[e].session = entries[e].session /\ entries'[e].conn = 0
  BY <1>1, <1>2, GoneIsBuddy DEF Made
<1>5. \A t \in Session : buddies'[t] = IF buddies[t] \in held THEN 0 ELSE buddies[t]
  BY <1>1, <1>3
<1>6. \A c \in Opened : InHand(c) \/ c \in presence!Taken(held) => InHand(c)'
  BY <1>1 DEF InHand
<1>7. MapInv' /\ HeldInv' /\ NoOrphans' /\ JobInv' /\ AwayIsTrue' /\ DialInv'
  <2>1. held \subseteq {e \in Made : Listed(e)}
    BY DEF held
  <2> QED
    BY <1>1, <1>2, <1>4, <1>5, <1>6, <2>1, LeaveStep
<1> QED
  BY <1>7, KnownParts

(* One look of the manager: the silent leave, the dialed are marked, and   *)
(* of what is to be said there is one job to an entry. *)
LEMMA ReconcileStep ==
  ASSUME PresenceInv, presence!Reconcile
  PROVE  BuddiesInv'
<1> USE DEF PresenceInv, BuddiesInv
<1> DEFINE listed == {e \in Made : Listed(e)}
           expired == {e \in listed : entries[e].silent}
           dialed == {e \in listed \ expired : entries[e].conn = 0 /\ ~entries[e].dialing /\ entries[e].due}
           aways == {e \in listed \ expired : entries[e].conn # 0 /\ entries[e].text # entries[e].applied}
           row(e) == [e |-> e, conn |-> entries[e].conn, text |-> entries[e].text, set |-> "no"]
<1>1. /\ manager = presence!NoJob
      /\ manager' = [close |-> presence!Taken(expired), dial |-> dialed, away |-> {row(e) : e \in aways}]
      /\ entries' = [e \in Made |-> IF e \in expired THEN presence!Gone(entries[e])
                                    ELSE IF e \in dialed THEN [entries[e] EXCEPT !.dialing = TRUE]
                                    ELSE entries[e]]
      /\ buddies' = [t \in Session |-> IF buddies[t] \in expired THEN 0 ELSE buddies[t]]
      /\ UNCHANGED <<conns, dials, closing, running, fails>>
  BY DEF presence!Reconcile, presence!Made, Made, presence!Listed, Listed
<1>2. entries \in [Made -> BuddyRec] /\ Opened' = Opened /\ 0 \notin Opened
  BY <1>1 DEF PresenceTypeOK, Opened
<1>3. /\ expired \subseteq listed /\ dialed \subseteq listed \ expired /\ aways \subseteq listed \ expired
      /\ listed \subseteq Made
      /\ \A e \in dialed : entries[e].conn = 0 /\ ~entries[e].dialing
      /\ \A e \in aways : entries[e].conn # 0
  OBVIOUS
<1>4. manager.close = {} /\ manager.away = {} /\ manager.dial = {}
  BY <1>1 DEF presence!NoJob
<1>5. manager'.close = presence!Taken(expired) /\ manager'.dial = dialed /\ manager'.away = {row(e) : e \in aways}
  BY <1>1
<1>l. listed = {e \in Made : Listed(e)}
  OBVIOUS
<1> HIDE DEF listed, expired, dialed, aways
<1>6. /\ Made' = Made
      /\ \A e \in Made \ expired : /\ entries'[e].conn = entries[e].conn /\ entries'[e].applied = entries[e].applied
                                   /\ entries'[e].session = entries[e].session
                                   /\ (entries[e].dialing => entries'[e].dialing)
      /\ \A e \in dialed : entries'[e].dialing
      /\ \A e \in expired : entries'[e].session = entries[e].session /\ entries'[e].conn = 0
  <2>1. Made' = Made /\ \A e \in expired : entries'[e] = presence!Gone(entries[e])
    BY <1>1, <1>3 DEF Made
  <2>2. \A e \in dialed : entries'[e] = [entries[e] EXCEPT !.dialing = TRUE]
    BY <1>1, <1>3
  <2>3. \A e \in Made : e \notin expired /\ e \notin dialed => entries'[e] = entries[e]
    BY <1>1
  <2>4. \A b \in BuddyRec :
          /\ [b EXCEPT !.dialing = TRUE].conn = b.conn /\ [b EXCEPT !.dialing = TRUE].applied = b.applied
          /\ [b EXCEPT !.dialing = TRUE].session = b.session /\ [b EXCEPT !.dialing = TRUE].dialing
    BY DEF BuddyRec
  <2>5. \A e \in Made : entries[e] \in BuddyRec
    BY <1>2
  <2>6. \A e \in expired : entries'[e].session = entries[e].session /\ entries'[e].conn = 0
    BY <1>3, <2>1, <2>5, GoneIsBuddy
  <2>7. \A e \in dialed : /\ entries'[e].conn = entries[e].conn /\ entries'[e].applied = entries[e].applied
                          /\ entries'[e].session = entries[e].session /\ entries'[e].dialing
    <3> TAKE e \in dialed
    <3>1. /\ entries'[e] = [entries[e] EXCEPT !.dialing = TRUE]
          /\ entries[e] \in BuddyRec
      BY <1>3, <2>2, <2>5
    <3> HIDE DEF BuddyRec
    <3> QED
      BY <2>4, <3>1
  <2> QED
    BY <2>1, <2>3, <2>6, <2>7
<1>7. \A c \in Opened : InHand(c) \/ c \in presence!Taken(expired) => InHand(c)'
  BY <1>1, <1>4, <1>5 DEF InHand
<1>8. expired \subseteq {e \in Made : Listed(e)}
  BY <1>3, <1>l
<1>9. /\ MapInv' /\ HeldInv' /\ NoOrphans'
      /\ \A e \in Made : Listed(e)' => Listed(e) /\ e \notin expired
  <2>1. /\ \A e \in Made : entries'[e].session = entries[e].session
        /\ \A e \in expired : entries'[e].conn = 0
        /\ \A e \in Made \ expired : entries'[e].conn = entries[e].conn /\ entries'[e].applied = entries[e].applied
                                   /\ (entries[e].dialing => entries'[e].dialing)
    BY <1>6
  <2>2. \A t \in Session : buddies'[t] = IF buddies[t] \in expired THEN 0 ELSE buddies[t]
    BY <1>1
  <2>3. conns' = conns /\ dials' = dials /\ Made' = Made
    BY <1>1, <1>6
  <2> QED
    BY <1>7, <1>8, <2>1, <2>2, <2>3, LeaveStep
<1>10. DialInv'
  <2>1. \A e \in dialed : ~\E d \in dials : d.e = e
    BY <1>3, <1>l DEF DialInv, Dialed
  <2>2. \A e \in Made : Listed(e)' /\ Dialed(e)' => entries'[e].dialing /\ entries'[e].conn = 0
    <3> SUFFICES ASSUME NEW e \in Made, Listed(e)', Dialed(e)'
                 PROVE  entries'[e].dialing /\ entries'[e].conn = 0
      OBVIOUS
    <3>1. Listed(e) /\ e \notin expired
      BY <1>9
    <3>2. CASE e \in dialed
      BY <1>3, <1>6, <3>1, <3>2
    <3>3. CASE \E d \in dials : d.e = e
      BY <1>6, <3>1, <3>3 DEF DialInv, Dialed
    <3> QED
      BY <1>1, <1>5, <3>2, <3>3 DEF Dialed
  <2>3. \A d \in dials' :
          /\ d.e \in Made' /\ d.e \notin manager'.dial
          /\ IF d.at = "connect" THEN d.conn = 0 ELSE d.conn \in Opened' /\ conns'[d.conn].e = d.e
    BY <1>1, <1>2, <1>5, <1>6, <2>1 DEF DialInv
  <2> QED
    BY <1>1, <1>6, <2>2, <2>3 DEF DialInv
<1>11. JobInv'
  <2>1. \A job \in manager'.away : /\ job.e \in aways /\ job = row(job.e) /\ job.conn = entries[job.e].conn
                                   /\ job.set = "no"
    BY <1>5
  <2>2. \A e \in aways : e \in Made /\ entries[e].conn \in Opened /\ conns[entries[e].conn].e = e
    BY <1>3 DEF HeldInv
  <2> HIDE DEF row
  <2> QED
    BY <1>1, <1>2, <1>6, <2>1, <2>2 DEF JobInv
<1>12. AwayIsTrue'
  <2>1. AwayIsTrue
    BY KnownParts
  <2> QED
    BY <1>1, <1>4, <1>6, <2>1 DEF AwayIsTrue
<1> QED
  BY <1>9, <1>10, <1>11, <1>12, KnownParts

(* What is said to a connection is of its job until the entry notes it. *)
LEMMA SetAwayStep ==
  ASSUME PresenceInv, NEW job \in manager.away, presence!SetAway(job)
  PROVE  BuddiesInv'
<1> USE DEF PresenceInv, BuddiesInv
<1>1. /\ job \in AwayJob /\ job.conn \in Opened /\ conns[job.conn] \in ConnRec /\ conns \in [Opened -> ConnRec]
      /\ manager \in [close : SUBSET Opened, away : SUBSET AwayJob, dial : SUBSET Made]
  BY DEF JobInv, PresenceTypeOK
<1>0. PICK written \in {presence!Alive(job.conn), conns[job.conn].open} :
        /\ manager' = [manager EXCEPT !.away = (@ \ {job}) \cup {[job EXCEPT !.set = IF written THEN "done" ELSE "failed"]}]
        /\ UNCHANGED <<buddies, entries, dials, closing, running, fails>>
        /\ conns' = IF written THEN [conns EXCEPT ![job.conn].away = job.text] ELSE conns
  BY DEF presence!SetAway
<1> DEFINE said == [job EXCEPT !.set = IF written THEN "done" ELSE "failed"]
<1>2. /\ manager' = [manager EXCEPT !.away = (@ \ {job}) \cup {said}]
      /\ UNCHANGED <<buddies, entries, dials, closing, running, fails>>
      /\ conns' = IF written THEN [conns EXCEPT ![job.conn].away = job.text] ELSE conns
  BY <1>0
<1>3. /\ said.e = job.e /\ said.conn = job.conn /\ said.text = job.text
      /\ said.set = "done" => written
  BY <1>1 DEF AwayJob
<1>4. /\ manager'.away = (manager.away \ {job}) \cup {said}
      /\ manager'.close = manager.close /\ manager'.dial = manager.dial
  BY <1>1, <1>2
<1> HIDE DEF said
<1>5. /\ Opened' = Opened /\ Made' = Made
      /\ \A c \in Opened : /\ conns'[c].e = conns[c].e /\ conns'[c].open = conns[c].open /\ conns'[c].up = conns[c].up
                           /\ c # job.conn => conns'[c].away = conns[c].away
      /\ written => conns'[job.conn].away = job.text
  BY <1>1, <1>2 DEF Opened, Made, ConnRec
<1>6. MapInv' /\ HeldInv'
  BY <1>2, <1>5 DEF MapInv, HeldInv
<1>7. DialInv'
  BY <1>2, <1>4, <1>5 DEF DialInv, Dialed, Listed
<1>8. JobInv'
  <2>1. \A i \in manager.away \ {job} : i.conn # job.conn /\ i.e # job.e
    BY DEF JobInv
  <2>2. \A i \in manager'.away :
          /\ i.conn \in Opened' /\ conns'[i.conn].e = i.e /\ i.e \in Made'
          /\ i.set = "done" => conns'[i.conn].away = i.text
    <3> SUFFICES ASSUME NEW i \in manager'.away
                 PROVE  /\ i.conn \in Opened' /\ conns'[i.conn].e = i.e /\ i.e \in Made'
                        /\ i.set = "done" => conns'[i.conn].away = i.text
      OBVIOUS
    <3>1. CASE i = said
      BY <1>1, <1>3, <1>5, <3>1 DEF JobInv
    <3>2. CASE i \in manager.away \ {job}
      BY <1>5, <2>1, <3>2 DEF JobInv
    <3> QED
      BY <1>4, <3>1, <3>2
  <2>3. \A i, j \in manager'.away : i.e = j.e => i = j
    BY <1>3, <1>4, <2>1 DEF JobInv
  <2> QED
    BY <2>2, <2>3 DEF JobInv
<1>9. NoOrphans /\ AwayIsTrue
  BY KnownParts
<1>10. NoOrphans'
  BY <1>2, <1>4, <1>5, <1>9 DEF NoOrphans, Listed, InHand, presence!Alive, HeldInv
<1>11. AwayIsTrue'
  <2> SUFFICES ASSUME NEW e \in Made, entries[e].conn # 0, entries[e].applied # 0,
                      ~\E i \in manager'.away : i.conn = entries[e].conn
               PROVE  conns'[entries[e].conn].away = entries[e].applied
    BY <1>2, <1>5 DEF AwayIsTrue
  <2>1. entries[e].conn # job.conn
    BY <1>3, <1>4
  <2>2. ~\E i \in manager.away : i.conn = entries[e].conn
    BY <1>4, <2>1
  <2> QED
    BY <1>5, <1>9, <2>1, <2>2 DEF AwayIsTrue, HeldInv
<1> QED
  BY <1>6, <1>7, <1>8, <1>10, <1>11, KnownParts

LEMMA NoteAppliedStep ==
  ASSUME PresenceInv, NEW job \in manager.away, presence!NoteApplied(job)
  PROVE  BuddiesInv'
<1> USE DEF PresenceInv, BuddiesInv
<1>1. /\ job.e \in Made /\ job.conn \in Opened /\ conns[job.conn].e = job.e /\ entries \in [Made -> BuddyRec]
      /\ manager \in [close : SUBSET Opened, away : SUBSET AwayJob, dial : SUBSET Made]
      /\ job.set = "done" => conns[job.conn].away = job.text
  BY DEF JobInv, PresenceTypeOK
<1>2. /\ manager' = [manager EXCEPT !.away = @ \ {job}]
      /\ UNCHANGED <<buddies, conns, dials, closing, running, fails>>
      /\ IF entries[job.e].conn = job.conn
         THEN entries' = [entries EXCEPT ![job.e].applied = IF job.set = "done" THEN job.text ELSE 0]
         ELSE entries' = entries
  BY DEF presence!NoteApplied, presence!OfThisConn, presence!TextSet
<1>3. /\ manager'.away = manager.away \ {job}
      /\ manager'.close = manager.close /\ manager'.dial = manager.dial
  BY <1>1, <1>2
<1>4. /\ Opened' = Opened /\ Made' = Made
      /\ \A e \in Made : /\ entries'[e].session = entries[e].session /\ entries'[e].conn = entries[e].conn
                         /\ entries'[e].dialing = entries[e].dialing
                         /\ e # job.e => entries'[e].applied = entries[e].applied
      /\ entries[job.e].conn = job.conn => entries'[job.e].applied = IF job.set = "done" THEN job.text ELSE 0
      /\ entries[job.e].conn # job.conn => entries' = entries
  BY <1>1, <1>2 DEF Opened, Made, BuddyRec
<1>5. MapInv' /\ HeldInv'
  BY <1>2, <1>4 DEF MapInv, HeldInv
<1>6. DialInv'
  BY <1>2, <1>3, <1>4 DEF DialInv, Dialed, Listed
<1>7. JobInv'
  BY <1>2, <1>3, <1>4 DEF JobInv
<1>8. NoOrphans /\ AwayIsTrue
  BY KnownParts
<1>9. NoOrphans'
  BY <1>2, <1>3, <1>4, <1>8 DEF NoOrphans, Listed, InHand, presence!Alive, HeldInv
<1>10. AwayIsTrue'
  <2> SUFFICES ASSUME NEW e \in Made, entries'[e].conn # 0, entries'[e].applied # 0,
                      ~\E i \in manager'.away : i.conn = entries'[e].conn
               PROVE  conns[entries'[e].conn].away = entries'[e].applied
    BY <1>2, <1>4 DEF AwayIsTrue
  <2>1. entries'[e].conn = entries[e].conn
    BY <1>4
  <2>2. CASE entries[e].conn = job.conn
    <3>1. e = job.e
      BY <1>1, <2>1, <2>2 DEF HeldInv
    <3>2. entries'[e].applied = IF job.set = "done" THEN job.text ELSE 0
      BY <1>4, <2>2, <3>1
    <3> QED
      BY <1>1, <2>1, <2>2, <3>2
  <2>3. CASE entries[e].conn # job.conn
    <3>1. entries'[e].applied = entries[e].applied
      BY <1>4, <2>3
    <3>2. ~\E i \in manager.away : i.conn = entries[e].conn
      BY <1>3, <2>1, <2>3
    <3> QED
      BY <1>8, <2>1, <3>1, <3>2 DEF AwayIsTrue
  <2> QED
    BY <2>2, <2>3
<1> QED
  BY <1>5, <1>6, <1>7, <1>9, <1>10, KnownParts

(* A dial passes from the manager to its goroutine. *)
LEMMA StartDialStep ==
  ASSUME PresenceInv, NEW e \in manager.dial, presence!StartDial(e)
  PROVE  BuddiesInv'
<1> USE DEF PresenceInv, BuddiesInv
<1> DEFINE new == [e |-> e, at |-> "connect", conn |-> 0]
<1>1. /\ e \in Made /\ manager \in [close : SUBSET Opened, away : SUBSET AwayJob, dial : SUBSET Made]
  BY DEF PresenceTypeOK
<1>2. /\ manager' = [manager EXCEPT !.dial = @ \ {e}] /\ dials' = dials \cup {new}
      /\ UNCHANGED <<buddies, entries, conns, closing, running, fails>>
  BY DEF presence!StartDial
<1>3. /\ manager'.away = manager.away /\ manager'.close = manager.close
      /\ manager'.dial = manager.dial \ {e} /\ new.e = e /\ new.at = "connect" /\ new.conn = 0
  BY <1>1, <1>2
<1> HIDE DEF new
<1>4. Made' = Made /\ Opened' = Opened
  BY <1>2 DEF Made, Opened
<1>5. DialInv'
  <2>1. \A d \in dials : d.e # e
    BY DEF DialInv
  <2>2. \A x : Dialed(x)' => Dialed(x)
    BY <1>2, <1>3 DEF Dialed
  <2> QED
    BY <1>1, <1>2, <1>3, <1>4, <2>1, <2>2 DEF DialInv, Listed
<1>6. MapInv' /\ HeldInv' /\ JobInv'
  BY <1>2, <1>3, <1>4 DEF MapInv, HeldInv, JobInv
<1>7. NoOrphans /\ AwayIsTrue
  BY KnownParts
<1>8. NoOrphans'
  BY <1>2, <1>3, <1>4, <1>7 DEF NoOrphans, Listed, InHand, presence!Alive
<1>9. AwayIsTrue'
  BY <1>2, <1>3, <1>4, <1>7 DEF AwayIsTrue
<1> QED
  BY <1>5, <1>6, <1>8, <1>9, KnownParts

LEMMA ConnectStep ==
  ASSUME PresenceInv, NEW d \in dials, presence!Connect(d)
  PROVE  BuddiesInv'
<1> USE DEF PresenceInv, BuddiesInv
<1>1. PICK n \in Nat : Opened = 1..n
  BY DEF PresenceTypeOK
<1> DEFINE new == n + 1
           conn == [e |-> d.e, open |-> TRUE, up |-> TRUE, away |-> 0, drained |-> FALSE]
           dial == [d EXCEPT !.at = "publish", !.conn = new]
<1>2. Cardinality(Opened) + 1 = new /\ new \notin Opened /\ new # 0 /\ 0 \notin Opened
  BY <1>1, NextNumber
<1>3. /\ conns' = [c \in Opened \cup {new} |-> IF c = new THEN conn ELSE conns[c]]
      /\ dials' = (dials \ {d}) \cup {dial} /\ d.at = "connect"
      /\ UNCHANGED <<buddies, entries, manager, closing, running, fails>>
  BY <1>2, SameCardinality DEF presence!Connect, presence!Opened, Opened
<1>4. /\ d.e \in Made /\ d.conn = 0 /\ d \in DialRec /\ dial.e = d.e /\ dial.at = "publish" /\ dial.conn = new
      /\ conn.e = d.e
  BY <1>3 DEF DialInv, PresenceTypeOK, DialRec
<1> HIDE DEF new, conn, dial
<1>5. /\ Made' = Made /\ Opened' = Opened \cup {new}
      /\ \A c \in Opened : conns'[c] = conns[c]
      /\ conns'[new] = conn
  BY <1>2, <1>3 DEF Made, Opened
<1>6. MapInv' /\ HeldInv'
  BY <1>3, <1>4, <1>5 DEF MapInv, HeldInv
<1>7. DialInv'
  <2>1. \A x : Dialed(x)' <=> Dialed(x)
    BY <1>3, <1>4 DEF Dialed
  <2>2. \A i \in dials' :
          /\ i.e \in Made' /\ i.e \notin manager'.dial
          /\ IF i.at = "connect" THEN i.conn = 0 ELSE i.conn \in Opened' /\ conns'[i.conn].e = i.e
    BY <1>3, <1>4, <1>5 DEF DialInv
  <2>3. \A d1, d2 \in dials' : d1.e = d2.e => d1 = d2
    BY <1>3, <1>4 DEF DialInv
  <2> QED
    BY <1>3, <1>5, <2>1, <2>2, <2>3 DEF DialInv, Listed
<1>8. JobInv'
  BY <1>3, <1>5 DEF JobInv
<1>9. NoOrphans /\ AwayIsTrue
  BY KnownParts
<1>10. NoOrphans'
  <2> SUFFICES ASSUME NEW c \in Opened', presence!Alive(c)'
               PROVE  \/ buddies[entries[conns'[c].e].session] = conns'[c].e /\ entries[conns'[c].e].conn = c
                      \/ (\E i \in dials' : i.conn = c) \/ InHand(c)
    BY <1>3 DEF NoOrphans, Listed, InHand
  <2>1. CASE c = new
    BY <1>3, <1>4, <2>1
  <2>2. CASE c \in Opened
    <3>1. presence!Alive(c) /\ conns'[c] = conns[c] /\ c # d.conn
      BY <1>2, <1>4, <1>5, <2>2 DEF presence!Alive
    <3> QED
      BY <1>3, <1>9, <2>2, <3>1 DEF NoOrphans, Listed, InHand
  <2> QED
    BY <1>5, <2>1, <2>2
<1>11. AwayIsTrue'
  BY <1>3, <1>5, <1>9 DEF AwayIsTrue, HeldInv
<1> QED
  BY <1>6, <1>7, <1>8, <1>10, <1>11, KnownParts

(* A dial that lands: its entry takes the connection, if the map still     *)
(* holds it, and otherwise the connection is closed. *)
LEMMA PublishStep ==
  ASSUME PresenceInv, NEW d \in dials, presence!Publish(d)
  PROVE  BuddiesInv'
<1> USE DEF PresenceInv, BuddiesInv
<1>1. /\ d.at = "publish" /\ d \in DialRec /\ d.e \in Made /\ d.conn \in Opened /\ conns[d.conn].e = d.e
      /\ 0 \notin Opened /\ entries \in [Made -> BuddyRec] /\ conns \in [Opened -> ConnRec]
  BY DEF presence!Publish, DialInv, PresenceTypeOK
<1>2. /\ dials' = dials \ {d} /\ UNCHANGED <<buddies, manager, closing, running, fails>>
      /\ IF Listed(d.e)
         THEN entries' = [entries EXCEPT ![d.e] = presence!Publishes(@, d.conn)] /\ conns' = conns
         ELSE conns' = [conns EXCEPT ![d.conn].open = FALSE] /\ entries' = entries
  BY DEF presence!Publish, presence!StillListed, presence!Listed, Listed
<1>3. /\ \A i \in dials' : i \in dials /\ i.e # d.e
      /\ d.e \notin manager.dial
  BY <1>2 DEF DialInv
<1>4. Made' = Made /\ Opened' = Opened
  BY <1>1, <1>2 DEF Made, Opened
<1>5. NoOrphans /\ AwayIsTrue
  BY KnownParts
<1>6. CASE Listed(d.e)
  <2>1. /\ \A e \in Made : e # d.e => entries'[e] = entries[e]
        /\ entries'[d.e].session = entries[d.e].session /\ entries'[d.e].conn = d.conn
        /\ entries'[d.e].applied = 0
    <3>1. entries[d.e] \in BuddyRec /\ d.e \in Made
      BY <1>1
    <3>2. /\ entries'[d.e] = presence!Publishes(entries[d.e], d.conn)
          /\ \A e \in Made : e # d.e => entries'[e] = entries[e]
      BY <1>1, <1>2, <1>6
    <3> QED  BY <3>1, <3>2, PublishedRow
  <2>2. conns' = conns /\ entries[d.e].conn = 0
    BY <1>1, <1>2, <1>6 DEF DialInv, Dialed
  <2>3. \A e \in Made : Listed(e)' = Listed(e)
    BY <1>2, <2>1 DEF Listed
  <2>4. MapInv' /\ HeldInv' /\ JobInv'
    BY <1>1, <1>2, <1>4, <2>1, <2>2 DEF MapInv, HeldInv, JobInv
  <2>5. DialInv'
    <3>1. \A x : Dialed(x)' => Dialed(x) /\ x # d.e
      BY <1>2, <1>3 DEF Dialed
    <3> QED
      BY <1>2, <1>3, <1>4, <2>1, <2>2, <2>3, <3>1 DEF DialInv
  <2>6. NoOrphans'
    <3> SUFFICES ASSUME NEW c \in Opened, presence!Alive(c)
                 PROVE  \/ Listed(conns[c].e)' /\ entries'[conns[c].e].conn = c
                        \/ (\E i \in dials' : i.conn = c) \/ InHand(c)'
      BY <1>4, <2>2 DEF NoOrphans, presence!Alive
    <3>1. CASE c = d.conn
      BY <1>1, <1>2, <1>6, <2>1, <2>2, <3>1 DEF Listed
    <3>2. CASE c # d.conn
      <4>1. conns[c].e \in Made /\ c # 0
        BY <1>1 DEF HeldInv
      <4>2. CASE Listed(conns[c].e) /\ entries[conns[c].e].conn = c
        BY <2>1, <2>2, <2>3, <4>1, <4>2
      <4>3. CASE (\E i \in dials : i.conn = c) \/ InHand(c)
        BY <1>2, <3>2, <4>3 DEF InHand
      <4> QED
        BY <1>5, <4>2, <4>3 DEF NoOrphans
    <3> QED
      BY <3>1, <3>2
  <2>7. AwayIsTrue'
    BY <1>2, <1>4, <1>5, <2>1, <2>2 DEF AwayIsTrue
  <2> QED
    BY <2>4, <2>5, <2>6, <2>7, KnownParts
<1>7. CASE ~Listed(d.e)
  <2>1. /\ entries' = entries
        /\ \A c \in Opened : /\ conns'[c].e = conns[c].e /\ conns'[c].away = conns[c].away
                             /\ c # d.conn => conns'[c] = conns[c]
        /\ ~conns'[d.conn].open
    BY <1>1, <1>2, <1>7 DEF ConnRec
  <2>2. MapInv' /\ HeldInv' /\ JobInv'
    BY <1>2, <1>4, <2>1 DEF MapInv, HeldInv, JobInv
  <2>3. DialInv'
    <3>1. \A x : Dialed(x)' => Dialed(x)
      BY <1>2 DEF Dialed
    <3> QED
      BY <1>2, <1>3, <1>4, <2>1, <3>1 DEF DialInv, Listed
  <2>4. NoOrphans'
    BY <1>2, <1>4, <1>5, <2>1 DEF NoOrphans, presence!Alive, Listed, InHand, HeldInv
  <2>5. AwayIsTrue'
    BY <1>2, <1>4, <1>5, <2>1 DEF AwayIsTrue, HeldInv
  <2> QED
    BY <2>2, <2>3, <2>4, <2>5, KnownParts
<1> QED
  BY <1>6, <1>7

LEMMA DialFailsStep ==
  ASSUME PresenceInv, NEW d \in dials, presence!DialFails(d)
  PROVE  BuddiesInv'
<1> USE DEF PresenceInv, BuddiesInv
<1>1. /\ d \in DialRec /\ d.e \in Made /\ (d.conn # 0 => d.conn \in Opened)
      /\ 0 \notin Opened /\ entries \in [Made -> BuddyRec] /\ conns \in [Opened -> ConnRec]
  BY DEF DialInv, PresenceTypeOK
<1>2. /\ dials' = dials \ {d} /\ UNCHANGED <<buddies, manager, closing, running>>
      /\ entries' = [entries EXCEPT ![d.e] = presence!Retriable(@)]
      /\ conns' = IF d.conn # 0 THEN [conns EXCEPT ![d.conn].open = FALSE] ELSE conns
  BY DEF presence!DialFails
<1>3. /\ \A i \in dials' : i \in dials /\ i.e # d.e
      /\ d.e \notin manager.dial
  BY <1>2 DEF DialInv
<1>4. Made' = Made /\ Opened' = Opened
  BY <1>1, <1>2 DEF Made, Opened
<1>5. /\ \A e \in Made : /\ entries'[e].session = entries[e].session /\ entries'[e].conn = entries[e].conn
                         /\ entries'[e].applied = entries[e].applied
                         /\ e # d.e => entries'[e] = entries[e]
      /\ \A c \in Opened : /\ conns'[c].e = conns[c].e /\ conns'[c].away = conns[c].away
                           /\ c # d.conn => conns'[c] = conns[c]
                           /\ c = d.conn => ~conns'[c].open
  <2>1. \A b \in BuddyRec : /\ presence!Retriable(b).session = b.session /\ presence!Retriable(b).conn = b.conn
                            /\ presence!Retriable(b).applied = b.applied
    BY DEF BuddyRec, presence!Retriable
  <2>2. entries[d.e] \in BuddyRec /\ entries'[d.e] = presence!Retriable(entries[d.e])
    BY <1>1, <1>2
  <2>3. \A e \in Made : e # d.e => entries'[e] = entries[e]
    BY <1>1, <1>2
  <2>4. \A c \in Opened : /\ conns'[c].e = conns[c].e /\ conns'[c].away = conns[c].away
                          /\ c # d.conn => conns'[c] = conns[c]
                          /\ c = d.conn => ~conns'[c].open
    BY <1>1, <1>2 DEF ConnRec
  <2> QED
    BY <2>1, <2>2, <2>3, <2>4
<1>6. MapInv' /\ HeldInv' /\ JobInv'
  BY <1>2, <1>4, <1>5 DEF MapInv, HeldInv, JobInv
<1>7. DialInv'
  <2>1. \A x : Dialed(x)' => Dialed(x) /\ x # d.e
    BY <1>2, <1>3 DEF Dialed
  <2> QED
    BY <1>2, <1>3, <1>4, <1>5, <2>1 DEF DialInv, Listed
<1>8. NoOrphans /\ AwayIsTrue
  BY KnownParts
<1>9. NoOrphans'
  <2> SUFFICES ASSUME NEW c \in Opened, presence!Alive(c)'
               PROVE  \/ Listed(conns[c].e) /\ entries[conns[c].e].conn = c
                      \/ (\E i \in dials' : i.conn = c) \/ InHand(c)
    <3>1. UNCHANGED <<buddies, manager, closing>> /\ \A c \in Opened : conns[c].e \in Made
      BY <1>2 DEF HeldInv
    <3>2. \A c \in Opened : /\ conns'[c].e = conns[c].e /\ entries'[conns'[c].e].session = entries[conns[c].e].session
                            /\ entries'[conns'[c].e].conn = entries[conns[c].e].conn
      BY <1>5, <3>1 DEF Listed
    <3> QED
      BY <1>4, <3>1, <3>2 DEF NoOrphans, Listed, InHand
  <2>1. c # d.conn /\ presence!Alive(c)
    BY <1>5 DEF presence!Alive
  <2>2. \A i \in dials : i.conn = c => i \in dials'
    BY <1>2, <2>1
  <2> QED
    BY <1>8, <2>1, <2>2 DEF NoOrphans
<1>10. AwayIsTrue'
  BY <1>2, <1>4, <1>5, <1>8 DEF AwayIsTrue, HeldInv
<1> QED
  BY <1>6, <1>7, <1>9, <1>10, KnownParts

(* The reader of a connection that is gone frees the entry that holds it.  *)
LEMMA DrainStep ==
  ASSUME PresenceInv, NEW c \in Opened, presence!Drain(c)
  PROVE  BuddiesInv'
<1> USE DEF PresenceInv, BuddiesInv
<1> DEFINE own == conns[c].e
<1>1. /\ own \in Made /\ 0 \notin Opened /\ entries \in [Made -> BuddyRec] /\ conns \in [Opened -> ConnRec]
  BY DEF HeldInv, PresenceTypeOK
<1>2. /\ ~presence!Alive(c) /\ conns' = [conns EXCEPT ![c].drained = TRUE]
      /\ UNCHANGED <<buddies, dials, manager, closing, running, fails>>
      /\ entries' = IF entries[own].conn = c
                    THEN [entries EXCEPT ![own].conn = 0, ![own].applied = 0, ![own].due = FALSE]
                    ELSE entries
  BY DEF presence!Drain
<1>3. Made' = Made /\ Opened' = Opened
  BY <1>1, <1>2 DEF Made, Opened
<1>4. /\ \A e \in Made : /\ entries'[e].session = entries[e].session /\ entries'[e].dialing = entries[e].dialing
                         /\ \/ entries'[e].conn = entries[e].conn /\ entries'[e].applied = entries[e].applied
                            \/ entries'[e].conn = 0 /\ entries[e].conn = c
      /\ \A x \in Opened : /\ conns'[x].e = conns[x].e /\ conns'[x].away = conns[x].away
                           /\ (presence!Alive(x)' <=> presence!Alive(x))
  <2>1. \A x \in Opened : /\ conns'[x].e = conns[x].e /\ conns'[x].away = conns[x].away
                          /\ conns'[x].open = conns[x].open /\ conns'[x].up = conns[x].up
    BY <1>1, <1>2 DEF ConnRec
  <2>2. CASE entries[own].conn # c
    BY <1>1, <1>2, <2>1, <2>2 DEF presence!Alive
  <2>3. CASE entries[own].conn = c
    <3>1. entries' = [entries EXCEPT ![own] = [entries[own] EXCEPT !.conn = 0, !.applied = 0, !.due = FALSE]]
      BY <1>1, <1>2, <2>3
    <3>2. \A b \in BuddyRec :
            /\ [b EXCEPT !.conn = 0, !.applied = 0, !.due = FALSE].session = b.session
            /\ [b EXCEPT !.conn = 0, !.applied = 0, !.due = FALSE].dialing = b.dialing
            /\ [b EXCEPT !.conn = 0, !.applied = 0, !.due = FALSE].conn = 0
      BY DEF BuddyRec
    <3>3. entries[own] \in BuddyRec
      BY <1>1
    <3>4. entries'[own] = [entries[own] EXCEPT !.conn = 0, !.applied = 0, !.due = FALSE]
      BY <1>1, <3>1
    <3>5. \A e \in Made : e # own => entries'[e] = entries[e]
      BY <1>1, <3>1
    <3>6. /\ entries'[own].session = entries[own].session /\ entries'[own].dialing = entries[own].dialing
          /\ entries'[own].conn = 0
      BY <3>2, <3>3, <3>4
    <3>7. \A x \in Opened : presence!Alive(x)' <=> presence!Alive(x)
      BY <2>1 DEF presence!Alive
    <3> QED
      BY <2>1, <2>3, <3>5, <3>6, <3>7
  <2> QED
    BY <2>2, <2>3
<1> HIDE DEF own
<1>u. UNCHANGED <<buddies, dials, manager, closing>> /\ ~presence!Alive(c)
  BY <1>2
<1>5. MapInv' /\ HeldInv'
  BY <1>u, <1>3, <1>4 DEF MapInv, HeldInv
<1>6. DialInv'
  BY <1>u, <1>3, <1>4 DEF DialInv, Dialed, Listed
<1>7. JobInv'
  BY <1>u, <1>3, <1>4 DEF JobInv
<1>8. NoOrphans /\ AwayIsTrue
  BY KnownParts
<1>9. NoOrphans'
  BY <1>u, <1>3, <1>4, <1>8 DEF NoOrphans, Listed, InHand, HeldInv
<1>10. AwayIsTrue'
  BY <1>u, <1>3, <1>4, <1>8 DEF AwayIsTrue, HeldInv
<1> QED
  BY <1>5, <1>6, <1>7, <1>9, <1>10, KnownParts

(* A connection is closed, by its owner or the server; an entry ages. *)
LEMMA ClosingStep ==
  ASSUME PresenceInv, NEW c \in Opened,
         presence!Close(c) \/ presence!ServerDrops(c) \/ (c \in manager.close /\ presence!CloseExpired(c))
  PROVE  BuddiesInv'
<1>1. /\ conns \in [Opened -> ConnRec]
      /\ manager \in [close : SUBSET Opened, away : SUBSET AwayJob, dial : SUBSET Made]
  BY DEF PresenceInv, PresenceTypeOK
<1>2. /\ UNCHANGED <<buddies, entries, dials>>
      /\ manager'.away = manager.away /\ manager'.dial = manager.dial
  BY <1>1 DEF presence!Close, presence!ServerDrops, presence!CloseExpired
<1>3. \/ conns' = [conns EXCEPT ![c].open = FALSE]
      \/ conns' = [conns EXCEPT ![c].up = FALSE]
  BY DEF presence!Close, presence!ServerDrops, presence!CloseExpired
<1>4. Made' = Made /\ Opened' = Opened /\ SameBuddies
  BY <1>2, <1>3, <1>1 DEF Made, Opened, SameBuddies
<1>5. SameConns /\ (\A x \in Opened : x # c => conns'[x] = conns[x]) /\ ~presence!Alive(c)'
  BY <1>1, <1>3 DEF ConnRec, SameConns, presence!Alive
<1>6. \A x : x # c => (InHand(x) => InHand(x)')
  BY <1>1 DEF InHand, presence!Close, presence!ServerDrops, presence!CloseExpired
<1>7. NoneAppears
  BY <1>5, <1>6 DEF NoneAppears, presence!Alive
<1> QED
  BY <1>2, <1>4, <1>5, <1>7, QuietStep

LEMMA AgeStep ==
  ASSUME PresenceInv, NEW e \in Made, presence!FallsSilent(e) \/ presence!ComesDue(e)
  PROVE  BuddiesInv'
<1>1. entries \in [Made -> BuddyRec]
  BY DEF PresenceInv, PresenceTypeOK
<1>2. /\ UNCHANGED <<buddies, conns, dials, manager, closing>>
      /\ (entries' = [entries EXCEPT ![e].silent = TRUE] \/ entries' = [entries EXCEPT ![e].due = TRUE])
  BY DEF presence!FallsSilent, presence!ComesDue
<1>3. Made' = Made /\ Opened' = Opened /\ SameBuddies
  BY <1>1, <1>2 DEF BuddyRec, Made, Opened, SameBuddies
<1>4. SameConns /\ NoneAppears
  BY <1>2 DEF SameConns, NoneAppears, InHand, presence!Alive
<1> QED
  BY <1>2, <1>3, <1>4, QuietStep

LEMMA PresenceInvStep ==
  ASSUME PresenceInv, presence!Next
  PROVE  PresenceInv'
<1>1. PresenceTypeOK'
  BY PresenceTypeStep DEF PresenceInv, BuddiesInv
<1>2. manager.close \subseteq Opened
  BY DEF PresenceInv, PresenceTypeOK
<1>3. BuddiesInv'
  BY <1>1, <1>2, NoteStep, ForgetStep, ShutdownStep, ReconcileStep, SetAwayStep, NoteAppliedStep, StartDialStep,
     ConnectStep, PublishStep, DialFailsStep, DrainStep, ClosingStep, AgeStep
     DEF presence!Next, presence!Manage, presence!Dial, presence!Made, presence!Opened, Made, Opened
<1> QED
  BY <1>1, <1>3 DEF PresenceInv

LEMMA PresenceStutter == PresenceInv /\ UNCHANGED presenceVars => PresenceInv'
<1> SUFFICES ASSUME PresenceInv, UNCHANGED presenceVars PROVE PresenceInv'
  OBVIOUS
<1>1. Made' = Made /\ Opened' = Opened /\ SameBuddies /\ SameConns /\ NoneAppears
  BY DEF presenceVars, Made, Opened, SameBuddies, SameConns, NoneAppears, InHand, presence!Alive
<1>2. BuddiesInv'
  BY <1>1, QuietStep DEF presenceVars
<1>3. PresenceTypeOK'
  BY <1>1 DEF PresenceInv, PresenceTypeOK, presenceVars
<1> QED
  BY <1>2, <1>3 DEF PresenceInv

PartPresenceInv == part = "presence" => PresenceInv

(* The daemon: dials, jobs and connections are each of their own entry. *)
THEOREM PresenceInvariant == Spec => []PartPresenceInv
<1>1. Init => PartPresenceInv
  BY PresenceStart DEF Init, PartPresenceInv, PresenceInv
<1>2. PartPresenceInv /\ [Next]_vars => PartPresenceInv'
  <2> SUFFICES ASSUME PartPresenceInv, [Next]_vars PROVE PartPresenceInv'
    OBVIOUS
  <2>1. CASE PresenceNext
    BY <2>1, PresenceInvStep DEF PartPresenceInv, PresenceNext, OfPresence
  <2>2. CASE IrcNext \/ ClaudeNext \/ CodexNext
    BY <2>2 DEF PartPresenceInv, IrcNext, ClaudeNext, CodexNext, OfIrc, OfClaude, OfCodex
  <2>3. CASE UNCHANGED vars
    BY <2>3, PresenceStutter DEF PartPresenceInv, vars
  <2> QED
    BY <2>1, <2>2, <2>3 DEF Next
<1> QED
  BY <1>1, <1>2, PTL DEF Spec

(* dial, forget, reconcile and closeAll: the server holds no connection    *)
(* the manager does not know of, and what an entry believes the room sees  *)
(* is so, for any sessions and however dials and reconnects interleave. *)
THEOREM NoConnectionIsLost == Spec => []ConnectionsAreKnown
<1>1. PartPresenceInv => ConnectionsAreKnown
  BY DEF PartPresenceInv, PresenceInv, BuddiesInv, ConnectionsAreKnown
<1> QED
  BY PresenceInvariant, <1>1, PTL

(***************************************************************************)
(* The claim renewals, under either harness and for any paths.  As long as *)
(* coverage is not on record as lost, every file tool in flight is         *)
(* correlated, and its id named nothing else, or first another tool; so a  *)
(* result that establishes a write establishes that of the path it is      *)
(* taken for, but for a path that was named that late.                     *)
(***************************************************************************)
Sighting(P) == [tool : {"Write", "Edit", "Bash"}, path : P]
Nothing == [tool |-> "none", path |-> "none"]
FileTool(x) == x.tool \in {"Write", "Edit"}

RenewalTypeOK(P) ==
  /\ sighted \in [Use -> SUBSET Sighting(P)]
  /\ fileTools \in [Use -> Sighting(P) \cup {Nothing}]
  /\ gap \in [lost : BOOLEAN, reported : BOOLEAN]
  /\ ctl \in [by : {"none", "loop", "boundary"}, batch : SUBSET P, event : {"none", "idle", "ended"}, rest : SUBSET P]
  /\ events \subseteq {"idle", "ended"} /\ pending \subseteq P

(* A use in flight is correlated if and only if it is a file tool, and then*)
(* it was sighted as nothing else, or named late. *)
CorrelatedInv ==
  /\ \A u \in Use : fileTools[u] # Nothing =>
       /\ FileTool(fileTools[u]) /\ fileTools[u] \in sighted[u]
       /\ sighted[u] = {fileTools[u]} \/ fileTools[u].path \in misnamed
  /\ \A u \in Use : \A x \in sighted[u] : FileTool(x) /\ u \notin done => fileTools[u] = x

OnItsWay ==
  /\ pending \cup ctl.batch \subseteq wrote \cup misnamed /\ owed \subseteq pending

CoverageInv == gap.lost \/ (CorrelatedInv /\ OnItsWay)
RenewalInv(P) == RenewalTypeOK(P) /\ CoverageInv

-----------------------------------------------------------------------------
LEMMA RenewalInit ==
  ASSUME NEW H, NEW P, renewals(H, P)!Init
  PROVE  RenewalInv(P)
<1>1. RenewalTypeOK(P)
  BY DEF RenewalTypeOK, renewals!Init, renewals!Free, renewals!NoUse, Nothing
<1>2. CorrelatedInv /\ OnItsWay
  BY DEF CorrelatedInv, OnItsWay, renewals!Init, renewals!Free, renewals!NoUse, Nothing
<1> QED
  BY <1>1, <1>2 DEF RenewalInv, CoverageInv

(* What an offer leaves: all of it is pending, or coverage is lost. *)
LEMMA OfferKeeps ==
  ASSUME NEW H, NEW P, RenewalTypeOK(P), NEW paths, paths \subseteq P, NEW lost \in BOOLEAN,
         renewals(H, P)!Offer(paths, lost)
  PROVE  /\ gap' \in [lost : BOOLEAN, reported : BOOLEAN] /\ pending' \subseteq P
         /\ pending \subseteq pending' /\ pending' \subseteq pending \cup paths
         /\ gap.lost => gap'.lost
         /\ lost => gap'.lost
         /\ gap'.lost \/ paths \subseteq pending'
<1> DEFINE new == paths \ pending
           over(dropped) == IF dropped THEN [lost |-> TRUE, reported |-> FALSE] ELSE gap
<1>1. PICK kept \in SUBSET new :
        /\ pending' = pending \cup kept
        /\ gap' = IF lost THEN [lost |-> TRUE, reported |-> FALSE] ELSE over(kept # new)
  BY Zenon DEF renewals!Offer, renewals!Overflows, renewals!Lost
<1>2. gap \in [lost : BOOLEAN, reported : BOOLEAN] /\ pending \subseteq P
  BY DEF RenewalTypeOK
<1>3. gap' = [lost |-> TRUE, reported |-> FALSE] \/ (gap' = gap /\ ~lost /\ kept = new)
  BY <1>1
<1> QED
  BY <1>1, <1>2, <1>3

LEMMA UnknownLoses ==
  ASSUME NEW H, NEW P, RenewalTypeOK(P), renewals(H, P)!Unknown
  PROVE  pending' = pending /\ gap' \in [lost : BOOLEAN, reported : BOOLEAN] /\ gap'.lost
  BY DEF renewals!Unknown, renewals!Lost

LEMMA SightStep ==
  ASSUME NEW H, NEW P, RenewalInv(P), NEW u \in Use, NEW x \in Sighting(P),
         renewals(H, P)!Sight(u, x)
  PROVE  RenewalInv(P)'
<1> USE DEF RenewalInv
<1>1. /\ sighted' = [sighted EXCEPT ![u] = @ \cup {x}] /\ u \notin done /\ x \notin sighted[u]
      /\ misnamed' = IF FileTool(x) /\ \E y \in sighted[u] : ~FileTool(y) THEN misnamed \cup {x.path} ELSE misnamed
      /\ UNCHANGED <<done, ctl, events, wrote, owed>>
  BY DEF renewals!Sight, renewals!IsFile, FileTool
<1>2. /\ sighted \in [Use -> SUBSET Sighting(P)] /\ fileTools \in [Use -> Sighting(P) \cup {Nothing}]
      /\ gap \in [lost : BOOLEAN, reported : BOOLEAN]
  BY DEF RenewalTypeOK
<1>3. sighted' \in [Use -> SUBSET Sighting(P)]
  BY <1>1, <1>2
<1>4. \/ fileTools' = [fileTools EXCEPT ![u] = Nothing] /\ renewals(H, P)!Unknown
      \/ /\ UNCHANGED <<fileTools, pending, gap>> /\ fileTools[u] \in {Nothing, x}
         /\ ~FileTool(x) \/ fileTools[u] = x
      \/ UNCHANGED fileTools /\ renewals(H, P)!Unknown
      \/ /\ fileTools' = [fileTools EXCEPT ![u] = x] /\ UNCHANGED <<pending, gap>>
         /\ FileTool(x) /\ fileTools[u] \in {Nothing, x}
  BY DEF renewals!Sight, renewals!RecordFileTool, renewals!Disagrees, renewals!NoUse, renewals!IsFile,
     renewals!mailbox, FileTool, Nothing
<1>5. CASE renewals(H, P)!Unknown
  <2>1. fileTools' \in [Use -> Sighting(P) \cup {Nothing}]
    BY <1>2, <1>4
  <2> QED
    BY <1>1, <1>3, <1>5, <2>1, UnknownLoses DEF RenewalTypeOK, CoverageInv
<1>6. CASE ~renewals(H, P)!Unknown
  <2>0. /\ UNCHANGED <<pending, gap>> /\ fileTools[u] \in {Nothing, x}
        /\ \/ fileTools' = fileTools /\ (~FileTool(x) \/ fileTools[u] = x)
           \/ fileTools' = [fileTools EXCEPT ![u] = x] /\ FileTool(x)
    BY <1>4, <1>6
  <2>1. fileTools' \in [Use -> Sighting(P) \cup {Nothing}]
    BY <1>2, <2>0
  <2>2. RenewalTypeOK(P)'
    BY <1>1, <1>3, <2>0, <2>1 DEF RenewalTypeOK
  <2>3. CASE gap.lost
    BY <2>0, <2>2, <2>3 DEF CoverageInv
  <2>4. CASE ~gap.lost
    <3>1. CorrelatedInv /\ OnItsWay
      BY <2>4 DEF CoverageInv
    <3>2. misnamed \subseteq misnamed'
      BY <1>1
    <3>3. OnItsWay'
      BY <1>1, <2>0, <3>1, <3>2 DEF OnItsWay
    <3>4. x # Nothing /\ ~FileTool(Nothing)
      BY DEF Sighting, Nothing, FileTool
    <3>5. fileTools[u] = Nothing /\ \A y \in sighted[u] : ~FileTool(y)
      <4>1. fileTools[u] # Nothing => fileTools[u] \in sighted[u]
        BY <3>1 DEF CorrelatedInv
      <4>2. fileTools[u] = Nothing
        BY <1>1, <2>0, <4>1
      <4>3. \A y \in sighted[u] : FileTool(y) => fileTools[u] = y
        BY <1>1, <3>1 DEF CorrelatedInv
      <4> QED
        BY <3>4, <4>2, <4>3
    <3>6. sighted'[u] = sighted[u] \cup {x}
      BY <1>1, <1>2
    <3>7. \A v \in Use : v # u => sighted'[v] = sighted[v] /\ fileTools'[v] = fileTools[v]
      BY <1>1, <1>2, <2>0
    <3>8. \A v \in Use : v # u =>
            /\ fileTools'[v] # Nothing =>
                 /\ FileTool(fileTools'[v]) /\ fileTools'[v] \in sighted'[v]
                 /\ sighted'[v] = {fileTools'[v]} \/ fileTools'[v].path \in misnamed'
            /\ \A y \in sighted'[v] : FileTool(y) /\ v \notin done' => fileTools'[v] = y
      BY <1>1, <3>1, <3>2, <3>7 DEF CorrelatedInv
    <3>9. CASE FileTool(x)
      <4>1. fileTools'[u] = x
        BY <1>2, <2>0, <3>4, <3>5, <3>9
      <4>2. sighted'[u] = {x} \/ x.path \in misnamed'
        <5>1. CASE sighted[u] = {}
          BY <3>6, <5>1
        <5>2. CASE sighted[u] # {}
          BY <1>1, <3>5, <3>9, <5>2
        <5> QED
          BY <5>1, <5>2
      <4>3. \A y \in sighted'[u] : FileTool(y) => y = x
        BY <3>5, <3>6
      <4>4. CorrelatedInv'
        BY <3>6, <3>8, <3>9, <4>1, <4>2, <4>3 DEF CorrelatedInv
      <4> QED
        BY <2>2, <3>3, <4>4 DEF CoverageInv
    <3>10. CASE ~FileTool(x)
      <4>1. fileTools'[u] = Nothing
        BY <2>0, <3>5, <3>10
      <4>2. \A y \in sighted'[u] : ~FileTool(y)
        BY <3>5, <3>6, <3>10
      <4>3. CorrelatedInv'
        BY <3>8, <4>1, <4>2 DEF CorrelatedInv
      <4> QED
        BY <2>2, <3>3, <4>3 DEF CoverageInv
    <3> QED
      BY <3>9, <3>10
  <2> QED
    BY <2>3, <2>4
<1> QED
  BY <1>4, <1>5, <1>6


(* A frame that says a use completed says it of one that ran; and of one   *)
(* that ran it establishes the write or is not taken for a reason.  A      *)
(* subagent's says nothing of it.                                          *)
LEMMA ReadingIsTrue ==
  ASSUME NEW H, NEW P, NEW x, NEW ran \in BOOLEAN, NEW f \in renewals(H, P)!Frame(x, ran)
  PROVE  LET r == renewals(H, P)!Reading(f) IN
         /\ r.renews \in BOOLEAN /\ r.missed \in BOOLEAN /\ r.provenance \in BOOLEAN
         /\ r.renews => ran /\ r.provenance
         /\ ran => r.renews \/ r.missed
         /\ r.missed => ~(f.parent = "subagent")
<1> DEFINE completed == f.err = "false" \/ (f.err = "omitted" /\ f.witness)
           verdict == renewals(H, P)!Verdict(f)
           r == renewals(H, P)!Reading(f)
<1>1. /\ f.err \in {"true", "false", "omitted"} /\ f.witness \in BOOLEAN
      /\ f.meta \in {"none", "accept", "unexecuted", "odd"} /\ f.parent \in {"main", "absent", "subagent"}
      /\ f.parent = "subagent" => ~ran
      /\ f.parent # "subagent" =>
           /\ IF ran THEN f.err # "true" ELSE f.err # "false"
           /\ f.witness => ran
           /\ ran /\ f.meta = "unexecuted" => completed
  BY DEF renewals!Frame, renewals!Completed
<1>2. renewals(H, P)!Completed(f) <=> completed
  BY DEF renewals!Completed
<1>3. /\ verdict = "proceed" <=> f.meta \in {"none", "accept"}
      /\ verdict = "unknown" <=> f.meta = "odd" \/ (f.meta = "unexecuted" /\ completed)
  <2>1. CASE f.meta \in {"none", "accept"}
    BY <2>1 DEF renewals!Verdict
  <2>2. CASE f.meta = "unexecuted" /\ ~completed
    BY <1>2, <2>2 DEF renewals!Verdict
  <2>3. CASE f.meta = "odd" \/ (f.meta = "unexecuted" /\ completed)
    BY <1>2, <2>3 DEF renewals!Verdict
  <2> QED
    BY <1>1, <2>1, <2>2, <2>3
<1> DEFINE main == f.parent = "main"
           settled == renewals(H, P)!Completed(f)
           missing == \/ f.parent = "absent"
                      \/ main /\ verdict = "unknown"
                      \/ main /\ verdict = "proceed" /\ f.err = "omitted" /\ ~settled
<1>4. r = [provenance |-> main, renews |-> main /\ verdict = "proceed" /\ settled, missed |-> missing]
  BY DEF renewals!Reading, renewals!Established
<1> HIDE DEF verdict, r, settled, main
<1>5. /\ r.provenance = main /\ r.renews = (main /\ verdict = "proceed" /\ settled) /\ r.missed = missing
  BY <1>4
<1>6. /\ main <=> f.parent = "main"
      /\ settled <=> completed
  BY <1>2 DEF main, settled
<1> HIDE DEF missing
<1>7. /\ r.provenance \in BOOLEAN /\ r.renews \in BOOLEAN /\ r.missed \in BOOLEAN
      /\ r.provenance <=> main
      /\ r.renews <=> main /\ verdict = "proceed" /\ settled
      /\ r.missed <=> missing
  BY <1>5, Zenon DEF main, settled, missing
<1> QED
  BY <1>1, <1>3, <1>6, <1>7 DEF r, missing

LEMMA ToolResultStep ==
  ASSUME NEW H, NEW P, RenewalInv(P), NEW u \in Use, renewals(H, P)!ToolResult(u)
  PROVE  RenewalInv(P)'
<1> USE DEF RenewalInv
<1>0. PICK x \in sighted[u], ran \in BOOLEAN : \E f \in renewals(H, P)!Frame(x, ran) :
        LET r == renewals(H, P)!Reading(f)
            known == fileTools[u] # Nothing IN
        /\ renewals(H, P)!Writes(renewals(H, P)!Owes(x, ran))
        /\ fileTools' = IF known /\ r.provenance THEN [fileTools EXCEPT ![u] = Nothing] ELSE fileTools
        /\ renewals(H, P)!Offer(IF known /\ r.renews THEN {fileTools[u].path} ELSE {}, known /\ r.missed)
        /\ done' = IF r.provenance THEN done \cup {u} ELSE done
  BY DEF renewals!ToolResult, renewals!NoUse, Nothing
<1>1. PICK f \in renewals(H, P)!Frame(x, ran) :
        LET r == renewals(H, P)!Reading(f)
            known == fileTools[u] # Nothing IN
        /\ renewals(H, P)!Writes(renewals(H, P)!Owes(x, ran))
        /\ fileTools' = IF known /\ r.provenance THEN [fileTools EXCEPT ![u] = Nothing] ELSE fileTools
        /\ renewals(H, P)!Offer(IF known /\ r.renews THEN {fileTools[u].path} ELSE {}, known /\ r.missed)
        /\ done' = IF r.provenance THEN done \cup {u} ELSE done
  BY <1>0
<1> DEFINE r == renewals(H, P)!Reading(f)
           known == fileTools[u] # Nothing
           paths == IF known /\ r.renews THEN {fileTools[u].path} ELSE {}
           missed == known /\ r.missed
           owes == IF ran /\ FileTool(x) THEN {x.path} ELSE {}
<1>2. u \notin done /\ UNCHANGED <<sighted, ctl, events, misnamed>>
  BY DEF renewals!ToolResult
<1>3. /\ r.renews \in BOOLEAN /\ r.missed \in BOOLEAN
      /\ r.renews => ran /\ r.provenance
      /\ ran => r.renews \/ r.missed
  BY ReadingIsTrue
<1>4. wrote' = wrote \cup owes /\ owed' = owed \cup owes
  BY <1>1 DEF renewals!Writes, renewals!Owes, renewals!IsFile, FileTool
<1>5. /\ sighted \in [Use -> SUBSET Sighting(P)] /\ fileTools \in [Use -> Sighting(P) \cup {Nothing}]
      /\ gap \in [lost : BOOLEAN, reported : BOOLEAN] /\ pending \subseteq P /\ ctl.batch \subseteq P
  BY DEF RenewalTypeOK
<1>6. \/ fileTools' = [fileTools EXCEPT ![u] = Nothing] /\ done' = done \cup {u}
      \/ fileTools' = fileTools /\ done' = done
      \/ fileTools' = fileTools /\ ~known /\ done' = done \cup {u}
  BY <1>1, <1>3
<1>7. renewals(H, P)!Offer(paths, missed) /\ missed \in BOOLEAN
  BY <1>1, <1>3
<1>8. paths \subseteq P
  BY <1>5 DEF Sighting
<1> HIDE DEF r, paths, missed, owes
<1>9. /\ gap' \in [lost : BOOLEAN, reported : BOOLEAN] /\ pending' \subseteq P
      /\ pending \subseteq pending' /\ pending' \subseteq pending \cup paths
      /\ gap.lost => gap'.lost
      /\ missed => gap'.lost
      /\ gap'.lost \/ paths \subseteq pending'
  BY <1>7, <1>8, OfferKeeps
<1>10. RenewalTypeOK(P)'
  BY <1>2, <1>5, <1>6, <1>9 DEF RenewalTypeOK
<1>11. CASE gap'.lost
  BY <1>10, <1>11 DEF CoverageInv
<1>12. CASE ~gap'.lost
  <2>1. CorrelatedInv /\ OnItsWay /\ ~missed /\ paths \subseteq pending'
    BY <1>9, <1>12 DEF CoverageInv
  <2>2. known => /\ FileTool(fileTools[u])
                 /\ sighted[u] = {fileTools[u]} \/ fileTools[u].path \in misnamed
    BY <2>1 DEF CorrelatedInv
  <2>3. FileTool(x) => known /\ fileTools[u] = x
    <3>1. x # Nothing
      BY <1>5 DEF Sighting, Nothing
    <3> QED
      BY <1>2, <2>1, <3>1 DEF CorrelatedInv
  <2>4. known => fileTools[u].path \in misnamed \/ FileTool(x)
    BY <2>2
  <2>5. owes \subseteq paths
    BY <1>3, <2>1, <2>3 DEF missed, paths, owes, r
  <2>6. paths \subseteq owes \cup misnamed
    BY <1>3, <2>3, <2>4 DEF paths, owes, r
  <2>7. OnItsWay'
    BY <1>2, <1>4, <1>9, <2>1, <2>5, <2>6 DEF OnItsWay
  <2>8. CorrelatedInv'
    BY <1>2, <1>5, <1>6, <2>1 DEF CorrelatedInv
  <2> QED
    BY <1>10, <2>7, <2>8 DEF CoverageInv
<1> QED
  BY <1>11, <1>12

LEMMA UnreadableStep ==
  ASSUME NEW H, NEW P, RenewalInv(P), NEW u \in Use, renewals(H, P)!Unreadable(u)
  PROVE  RenewalInv(P)'
<1> USE DEF RenewalInv
<1>1. PICK x \in sighted[u], ran \in BOOLEAN : renewals(H, P)!Writes(renewals(H, P)!Owes(x, ran))
  BY DEF renewals!Unreadable
<1>2. u \notin done /\ UNCHANGED <<sighted, done, fileTools, ctl, events, misnamed>>
  BY DEF renewals!Unreadable
<1>3. CASE renewals(H, P)!Unknown
  BY <1>2, <1>3, UnknownLoses DEF RenewalTypeOK, CoverageInv
<1>4. CASE ~renewals(H, P)!Unknown
  <2>1. UNCHANGED <<pending, gap>> /\ \A v \in Use : fileTools[v] = Nothing
    BY <1>4 DEF renewals!Unreadable, renewals!mailbox, renewals!Correlated, renewals!NoUse, Nothing
  <2>2. RenewalTypeOK(P)'
    BY <1>2, <2>1 DEF RenewalTypeOK
  <2>3. CASE gap.lost
    BY <2>1, <2>2, <2>3 DEF CoverageInv
  <2>4. CASE ~gap.lost
    <3>1. CorrelatedInv /\ OnItsWay
      BY <2>4 DEF CoverageInv
    <3>2. x # Nothing
      BY DEF RenewalTypeOK, Sighting, Nothing
    <3>3. ~FileTool(x)
      BY <1>2, <2>1, <3>1, <3>2 DEF CorrelatedInv
    <3>4. wrote' = wrote /\ owed' = owed
      BY <1>1, <3>3 DEF renewals!Writes, renewals!Owes, renewals!IsFile, FileTool
    <3> QED
      BY <1>2, <2>1, <2>2, <3>1, <3>4 DEF CorrelatedInv, OnItsWay, CoverageInv
  <2> QED
    BY <2>3, <2>4
<1> QED
  BY <1>3, <1>4

LEMMA FileChangeStep ==
  ASSUME NEW H, NEW P, RenewalInv(P), NEW u \in Use, NEW changed \in SUBSET P,
         renewals(H, P)!FileChange(u, changed)
  PROVE  RenewalInv(P)'
<1> USE DEF RenewalInv
<1>1. PICK status \in {"completed", "declined", "odd"}, readable \in BOOLEAN, own \in {turn.active, FALSE} :
        /\ renewals(H, P)!Writes(IF own /\ status = "completed" THEN changed ELSE {})
        /\ renewals(H, P)!Offer(IF own /\ status = "completed" /\ readable THEN changed ELSE {},
                               own /\ (status = "odd" \/ (status = "completed" /\ ~readable)))
  BY DEF renewals!FileChange
<1> DEFINE paths == IF own /\ status = "completed" /\ readable THEN changed ELSE {}
           lost == own /\ (status = "odd" \/ (status = "completed" /\ ~readable))
           owes == IF own /\ status = "completed" THEN changed ELSE {}
<1>2. wrote' = wrote \cup owes /\ owed' = owed \cup owes
  BY <1>1 DEF renewals!Writes
<1>3. done' = done \cup {u} /\ UNCHANGED <<sighted, fileTools, ctl, events, misnamed>>
  BY DEF renewals!FileChange
<1>4. paths \subseteq P /\ lost \in BOOLEAN /\ (lost \/ paths = owes) /\ renewals(H, P)!Offer(paths, lost)
  BY <1>1
<1> HIDE DEF paths, lost, owes
<1>5. /\ gap' \in [lost : BOOLEAN, reported : BOOLEAN] /\ pending' \subseteq P
      /\ pending \subseteq pending' /\ pending' \subseteq pending \cup paths
      /\ gap.lost => gap'.lost
      /\ lost => gap'.lost
      /\ gap'.lost \/ paths \subseteq pending'
  BY <1>4, OfferKeeps
<1>6. RenewalTypeOK(P)'
  BY <1>3, <1>5 DEF RenewalTypeOK
<1>7. CASE ~gap'.lost
  <2>1. CorrelatedInv /\ OnItsWay /\ paths = owes /\ paths \subseteq pending'
    BY <1>4, <1>5, <1>7 DEF CoverageInv
  <2> QED
    BY <1>2, <1>3, <1>5, <1>6, <2>1 DEF CorrelatedInv, OnItsWay, CoverageInv
<1> QED
  BY <1>6, <1>7 DEF CoverageInv

(* A turn ends with every correlation of it. *)
LEMMA TurnStep ==
  ASSUME NEW H, NEW P, RenewalInv(P), renewals(H, P)!BeginTurn \/ renewals(H, P)!EndTurn
  PROVE  RenewalInv(P)'
<1> USE DEF RenewalInv
<1>1. CASE renewals(H, P)!BeginTurn
  BY <1>1 DEF renewals!BeginTurn, renewals!mailbox, RenewalTypeOK, CoverageInv, CorrelatedInv, OnItsWay
<1>2. CASE renewals(H, P)!EndTurn
  <2>1. /\ sighted' = [u \in Use |-> {}] /\ fileTools' = [u \in Use |-> Nothing]
        /\ UNCHANGED <<pending, gap, ctl, wrote, owed, misnamed>>
        /\ \E e \in {{"idle"}, {"idle", "ended"}} : events' = events \cup e
    BY <1>2 DEF renewals!EndTurn, renewals!NoUse, renewals!mailbox, Nothing
  <2>2. RenewalTypeOK(P)'
    BY <2>1 DEF RenewalTypeOK
  <2> QED
    BY <2>1, <2>2 DEF CoverageInv, CorrelatedInv, OnItsWay
<1> QED
  BY <1>1, <1>2

(* A batch goes from the mailbox to whoever holds the controller. *)
LEMMA TakeStep ==
  ASSUME NEW H, NEW P, RenewalInv(P),
         renewals(H, P)!LoopTakes \/ \E e \in events : renewals(H, P)!BoundaryTakes(e)
  PROVE  RenewalInv(P)'
<1> USE DEF RenewalInv
<1>1. PICK by \in {"loop", "boundary"}, event \in {"none", "idle", "ended"} : renewals(H, P)!Take(by, event)
  BY DEF renewals!LoopTakes, renewals!BoundaryTakes, RenewalTypeOK
<1>2. /\ ctl.batch = {} /\ events' \subseteq events
      /\ UNCHANGED <<sighted, done, fileTools, wrote, misnamed>>
  BY DEF renewals!LoopTakes, renewals!BoundaryTakes, renewals!reader, renewals!Free
<1>3. PICK batch \in SUBSET pending :
        /\ pending' = pending \ batch /\ gap' = [gap EXCEPT !.reported = TRUE]
        /\ ctl' = [by |-> by, batch |-> batch, event |-> event,
                   rest |-> {p \in pending \ batch : renewedAt[p] # "never"}]
        /\ owed' = owed \ batch
  BY <1>1 DEF renewals!Take
<1>4. /\ gap' \in [lost : BOOLEAN, reported : BOOLEAN] /\ gap'.lost = gap.lost
  BY <1>3 DEF RenewalTypeOK
<1>5. RenewalTypeOK(P)'
  BY <1>2, <1>3, <1>4 DEF RenewalTypeOK
<1> QED
  BY <1>2, <1>3, <1>4, <1>5 DEF CoverageInv, CorrelatedInv, OnItsWay

LEMMA ConfirmStep ==
  ASSUME NEW H, NEW P, RenewalInv(P), renewals(H, P)!Confirm
  PROVE  RenewalInv(P)'
<1> USE DEF RenewalInv
<1>1. PICK outcome \in {"renewed", "refused", "unknown"} :
        /\ owed' = IF outcome = "renewed" THEN owed ELSE owed \cup (ctl.batch \cap wrote)
        /\ gap' = IF ctl.batch # {} /\ outcome # "renewed" THEN [lost |-> TRUE, reported |-> TRUE] ELSE gap
  BY DEF renewals!Confirm
<1>2. /\ ctl' = [by |-> "none", batch |-> {}, event |-> "none", rest |-> {}]
      /\ UNCHANGED <<sighted, done, fileTools, pending, events, wrote, misnamed>>
  BY DEF renewals!Confirm, renewals!Free, renewals!reader
<1>3. /\ gap' \in [lost : BOOLEAN, reported : BOOLEAN]
      /\ gap'.lost \/ (gap' = gap /\ (ctl.batch = {} \/ outcome = "renewed"))
  BY <1>1 DEF RenewalTypeOK
<1>4. RenewalTypeOK(P)'
  BY <1>2, <1>3 DEF RenewalTypeOK
<1>5. CASE ~gap'.lost
  <2>1. CASE gap.lost
    BY <1>3, <1>5, <2>1
  <2>2. CASE ~gap.lost
    BY <1>1, <1>2, <1>3, <1>4, <1>5, <2>2 DEF CoverageInv, CorrelatedInv, OnItsWay
  <2> QED
    BY <2>1, <2>2
<1> QED
  BY <1>4, <1>5 DEF CoverageInv

LEMMA RenewalStep ==
  ASSUME NEW H, NEW P, RenewalInv(P), renewals(H, P)!Next
  PROVE  RenewalInv(P)'
<1>1. ASSUME NEW p \in P, renewals(H, P)!FallsDue(p) PROVE RenewalInv(P)'
  BY <1>1 DEF renewals!FallsDue, renewals!reader, renewals!mailbox, RenewalInv, RenewalTypeOK, CoverageInv,
     CorrelatedInv, OnItsWay
<1>2. ASSUME NEW u \in Use, NEW x \in renewals(H, P)!Named, renewals(H, P)!Sight(u, x)
      PROVE  RenewalInv(P)'
  <2>1. x \in Sighting(P)
    BY DEF renewals!Named, renewals!Tool, Sighting
  <2> QED
    BY <1>2, <2>1, SightStep
<1>3. ASSUME NEW u \in Use, renewals(H, P)!ToolResult(u) \/ renewals(H, P)!Unreadable(u) PROVE RenewalInv(P)'
  BY <1>3, ToolResultStep, UnreadableStep
<1>4. ASSUME NEW u \in Use, NEW changed \in (SUBSET P) \ {{}}, renewals(H, P)!FileChange(u, changed)
      PROVE  RenewalInv(P)'
  BY <1>4, FileChangeStep
<1>5. CASE renewals(H, P)!BeginTurn \/ renewals(H, P)!EndTurn
  BY <1>5, TurnStep
<1>6. CASE renewals(H, P)!LoopTakes \/ \E e \in events : renewals(H, P)!BoundaryTakes(e)
  BY <1>6, TakeStep
<1>7. CASE renewals(H, P)!Confirm
  BY <1>7, ConfirmStep
<1> QED
  BY <1>1, <1>2, <1>3, <1>4, <1>5, <1>6, <1>7 DEF renewals!Next

LEMMA RenewalStutter ==
  ASSUME NEW P, RenewalInv(P), UNCHANGED renewalsVars
  PROVE  RenewalInv(P)'
  BY DEF RenewalInv, RenewalTypeOK, CoverageInv, CorrelatedInv, OnItsWay, renewalsVars

PartRenewalInv ==
  /\ part = "claude" => RenewalInv(FewPaths)
  /\ part = "codex" => RenewalInv(Path)

(* toolResults, codexFileChangePaths, renewLoop, observe: a file tool in   *)
(* flight is correlated, and nothing else was named by its id, or before   *)
(* it another tool, until coverage is lost; for any uses, paths, bounds    *)
(* and turns. *)
THEOREM RenewalInvariant == Spec => []PartRenewalInv
<1>1. Init => PartRenewalInv
  <2> SUFFICES ASSUME Init PROVE PartRenewalInv
    OBVIOUS
  <2>1. part = "claude" => RenewalInv(FewPaths)
    BY RenewalInit DEF Init
  <2>2. part = "codex" => RenewalInv(Path)
    BY RenewalInit DEF Init
  <2> QED
    BY <2>1, <2>2 DEF PartRenewalInv
<1>2. PartRenewalInv /\ [Next]_vars => PartRenewalInv'
  <2> SUFFICES ASSUME PartRenewalInv, [Next]_vars PROVE PartRenewalInv'
    OBVIOUS
  <2>1. CASE ClaudeNext
    BY <2>1, RenewalStep DEF PartRenewalInv, ClaudeNext, OfClaude
  <2>2. CASE CodexNext
    BY <2>2, RenewalStep DEF PartRenewalInv, CodexNext, OfCodex
  <2>3. CASE PresenceNext \/ IrcNext
    BY <2>3 DEF PartRenewalInv, PresenceNext, IrcNext, OfPresence, OfIrc
  <2>4. CASE UNCHANGED vars
    BY <2>4, RenewalStutter DEF PartRenewalInv, vars
  <2> QED
    BY <2>1, <2>2, <2>3, <2>4 DEF Next
<1> QED
  BY <1>1, <1>2, PTL DEF Spec

(* toolResults, renewLoop: a renewal is behind every write, and a write    *)
(* behind every renewal but of a path that native named as a file tool's   *)
(* under the id of another tool, or coverage is on record as lost. *)
THEOREM RenewalsStayTrue == Spec => []RenewalsAreTrue
<1>1. PartRenewalInv => RenewalsAreTrue
  BY DEF PartRenewalInv, RenewalInv, CoverageInv, OnItsWay, RenewalsAreTrue, renewals!RenewalsAreTrue,
     renewals!OnlyWritesRenew, renewals!NoSilentSkip
<1> QED
  BY RenewalInvariant, <1>1, PTL
=============================================================================
