----------------------------- MODULE ChatJournal ----------------------------
(***************************************************************************)
(* The journal of the chat daemon (internal/buddylist/journal.go) and the  *)
(* two cursors of a session over it: what it has been alerted about        *)
(* (alert.go) and what it has been shown (mcp.go).                         *)
(*                                                                         *)
(* Every query of the daemon is one statement of its own; rows are         *)
(* appended and trimmed between any two of them.  An alert is a hook of    *)
(* the session, a read a call of its tools, and several run at once.  The  *)
(* cursors of two sessions never meet: one session is modelled.  Rows are  *)
(* written in the order of their times, so that a trim deletes the rows    *)
(* up to some seq.                                                         *)
(***************************************************************************)
EXTENDS Integers, FiniteSets, FiniteSetsExt

CONSTANTS
  Room,
  Kind,       \* what a row may be
  Alert,      \* alert hooks that may run at once
  Read,       \* since_last reads that may run at once
  MaxSeq,     \* bounds the rows ever appended
  RowCap,     \* alertRowCap
  PageSize    \* the limit of one read

(* A row is presence, a message that names the session, or the echo of one *)
(* the session sent itself, which names it too.                            *)
KindAssumption == Kind \subseteq {"presence", "named", "own"}
LimitAssumption == RowCap \in Nat \ {0} /\ PageSize \in Nat \ {0}

VARIABLES
  rows,         \* every row appended, by seq
  cut,          \* the rows up to it have been trimmed
  horizon,      \* trim_horizon
  alertCursor,  \* alert_cursor of the session
  readCursor,   \* read_cursor of the session
  alerts,       \* the alert hooks
  reads,        \* the reads
  emitted,      \* rows named in an alert that was written out
  rendered,     \* rows composed into the answer of a read
  shown,        \* rows of answers that were written out
  passed        \* the highest seq of each room the session has acked by hand

vars == <<rows, cut, horizon, alertCursor, readCursor, alerts, reads,
          emitted, rendered, shown, passed>>
journal == <<rows, cut, horizon>>
told == <<emitted, rendered, shown, passed>>

Seqs == DOMAIN rows
Retained(r) == {q \in Seqs : q > cut /\ rows[q].room = r}
Newest(S) == IF S = {} THEN 0 ELSE Max(S)
Oldest(S, n) == {q \in S : Cardinality({p \in S : p < q}) < n}

Idle == [at |-> "none"]

Init ==
  /\ rows = <<>> /\ cut = 0
  /\ horizon = [r \in Room |-> 0]
  /\ alertCursor = [r \in Room |-> 0] /\ readCursor = [r \in Room |-> 0]
  /\ alerts = [h \in Alert |-> Idle] /\ reads = [g \in Read |-> Idle]
  /\ emitted = {} /\ rendered = {} /\ shown = {}
  /\ passed = [r \in Room |-> 0]

-----------------------------------------------------------------------------
(* The journal. *)
Names(q) == rows[q].kind # "presence"
Own(q) == rows[q].kind = "own"
Chat(r) == {q \in Retained(r) : Names(q)}

Msg(r, kind) == [room |-> r, kind |-> kind]

Append(r, kind) ==
  /\ Cardinality(Seqs) < MaxSeq
  /\ rows' = [q \in Seqs \cup {Cardinality(Seqs) + 1} |->
                IF q \in Seqs THEN rows[q] ELSE Msg(r, kind)]
  /\ UNCHANGED <<cut, horizon, alertCursor, readCursor, alerts, reads, told>>

(* One transaction: the horizon of each room, then the delete. *)
Trim(k) ==
  /\ k \in Seqs /\ k > cut
  /\ horizon' = [r \in Room |-> LET S == {q \in Retained(r) : q <= k} IN
                                  IF S = {} THEN horizon[r] ELSE Max(S)]
  /\ cut' = k
  /\ UNCHANGED <<rows, alertCursor, readCursor, alerts, reads, told>>

(* setCursor: a cursor never moves back. *)
Advanced(old, seq) == IF seq > old THEN seq ELSE old

-----------------------------------------------------------------------------
(* An alert.  RunAlert asks the daemon, which answers from one query after *)
(* another; the hook writes the notice and then acks it room by room.      *)
AlertTops(h) ==
  /\ alerts[h] = Idle
  /\ alerts' = [alerts EXCEPT ![h] = [at |-> "cursors", tops |-> [r \in Room |-> Newest(Chat(r))]]]
  /\ UNCHANGED <<journal, alertCursor, readCursor, reads, told>>

(* A room whose newest row is behind its cursor is passed over. *)
AlertCursors(h) ==
  /\ alerts[h].at = "cursors"
  /\ alerts' = [alerts EXCEPT ![h] =
       [at |-> "scan", tops |-> @.tops, from |-> alertCursor, found |-> [r \in Room |-> {}],
        advance |-> [r \in Room |-> 0], rooms |-> {r \in Room : alertCursor[r] < @.tops[r]}]]
  /\ UNCHANGED <<journal, alertCursor, readCursor, reads, told>>

(* Mutant: the window reaches to whatever is newest when it is scanned. *)
ToNewest(h, r) == Newest(Chat(r))

(* The bound was read before the scan, and holds it. *)
WindowEnd(h, r) == alerts[h].tops[r]

(* Mutant: a scan its cap cut short still counts as the whole window. *)
AdvanceToEnd(window, end) == end

Advance(window, end) == IF Cardinality(window) > RowCap THEN Newest(Oldest(window, RowCap)) ELSE end

AddressedRows(h, r) == {q \in Chat(r) : q > alerts[h].from[r] /\ q <= alerts[h].tops[r]}

AlertScan(h, r) ==
  LET window == AddressedRows(h, r) IN
  /\ alerts[h].at = "scan" /\ r \in alerts[h].rooms
  /\ alerts' = [alerts EXCEPT ![h].rooms = @ \ {r},
                              ![h].found[r] = {q \in Oldest(window, RowCap) : ~Own(q)},
                              ![h].advance[r] = Advance(window, WindowEnd(h, r))]
  /\ UNCHANGED <<journal, alertCursor, readCursor, reads, told>>

(* Nothing to report: the daemon banks the scan. *)
Bank(h, r) ==
  /\ alerts[h].at = "scan" /\ alerts[h].advance[r] # 0 /\ alerts[h].found[r] = {}
  /\ alertCursor' = [alertCursor EXCEPT ![r] = Advanced(@, alerts[h].advance[r])]
  /\ alerts' = [alerts EXCEPT ![h].advance[r] = 0]
  /\ UNCHANGED <<journal, readCursor, reads, told>>

Scanned(h) ==
  /\ alerts[h].at = "scan" /\ alerts[h].rooms = {}
  /\ \A r \in Room : alerts[h].advance[r] # 0 => alerts[h].found[r] # {}

(* The ack follows the notice; a notice that could not be written has none. *)
Emit(h) ==
  /\ Scanned(h) /\ \E r \in Room : alerts[h].found[r] # {}
  /\ alerts' = [alerts EXCEPT ![h] = [at |-> "ack", advance |-> @.advance]]
  /\ emitted' = emitted \cup UNION {alerts[h].found[r] : r \in Room}
  /\ UNCHANGED <<journal, alertCursor, readCursor, reads, rendered, shown, passed>>

AlertAck(h, r) ==
  /\ alerts[h].at = "ack" /\ alerts[h].advance[r] # 0
  /\ alertCursor' = [alertCursor EXCEPT ![r] = Advanced(@, alerts[h].advance[r])]
  /\ alerts' = [alerts EXCEPT ![h].advance[r] = 0]
  /\ UNCHANGED <<journal, readCursor, reads, told>>

(* It is done; or a reply is lost, a write fails, the hook is killed. *)
AlertEnds(h) ==
  /\ alerts[h] # Idle
  /\ alerts' = [alerts EXCEPT ![h] = Idle]
  /\ UNCHANGED <<journal, alertCursor, readCursor, reads, told>>

-----------------------------------------------------------------------------
(* A read with since_last: chat_read over the daemon's read and ack.       *)
ReadCursor(g, r) ==
  /\ reads[g] = Idle
  /\ reads' = [reads EXCEPT ![g] = [at |-> "horizon", room |-> r, base |-> readCursor[r]]]
  /\ UNCHANGED <<journal, alertCursor, readCursor, alerts, told>>

ReadHorizon(g) ==
  /\ reads[g].at = "horizon"
  /\ reads' = [reads EXCEPT ![g] =
       [at |-> "rows", room |-> @.room, base |-> @.base,
        gap |-> @.base > 0 /\ @.base < horizon[@.room]]]
  /\ UNCHANGED <<journal, alertCursor, readCursor, alerts, told>>

(* Mutant: the cursor goes to the end of the page. *)
PageEnd(page, kept) == page

(* The byte budget renders the oldest rows of the page, and fits one row   *)
(* whatever it says: the cursor stops at the last of them.                 *)
Covered(page, kept) == kept

ReadRows(g) ==
  LET page == Oldest({q \in Retained(reads[g].room) : q > reads[g].base}, PageSize) IN
  /\ reads[g].at = "rows"
  /\ \E n \in 0..Cardinality(page) :
       LET kept == Oldest(page, n) IN
       /\ n = 0 => page = {}
       /\ rendered' = rendered \cup kept
       /\ reads' = [reads EXCEPT ![g] =
            [at |-> "ack", room |-> @.room, base |-> @.base, gap |-> @.gap,
             kept |-> kept, upTo |-> Newest(Covered(page, kept))]]
  /\ UNCHANGED <<journal, alertCursor, readCursor, alerts, emitted, shown, passed>>

(* The ack is saved, or the answer says that it was not. *)
Ack(g) ==
  /\ reads[g].at = "ack"
  /\ \/ reads[g].upTo > reads[g].base
        /\ readCursor' = [readCursor EXCEPT ![reads[g].room] = Advanced(@, reads[g].upTo)]
     \/ UNCHANGED readCursor
  /\ reads' = [reads EXCEPT ![g] = [at |-> "answer", kept |-> @.kept]]
  /\ UNCHANGED <<journal, alertCursor, alerts, told>>

Answer(g) ==
  /\ reads[g].at = "answer"
  /\ shown' = shown \cup reads[g].kept
  /\ reads' = [reads EXCEPT ![g] = Idle]
  /\ UNCHANGED <<journal, alertCursor, readCursor, alerts, emitted, rendered, passed>>

(* A reply is lost, or the process of the session's tools ends. *)
ReadFails(g) ==
  /\ reads[g] # Idle
  /\ reads' = [reads EXCEPT ![g] = Idle]
  /\ UNCHANGED <<journal, alertCursor, readCursor, alerts, told>>

(* chat_ack: the session says how far it has handled a room, and nothing   *)
(* asks whether the journal is that far.  An ack of what is behind the     *)
(* cursor moves nothing.                                                   *)
ChatAck(r, k) ==
  /\ k > readCursor[r]
  /\ passed' = [passed EXCEPT ![r] = Advanced(@, k)]
  /\ readCursor' = [readCursor EXCEPT ![r] = Advanced(@, k)]
  /\ UNCHANGED <<journal, alertCursor, alerts, reads, emitted, rendered, shown>>

-----------------------------------------------------------------------------
AlertStep(h) ==
  \/ AlertTops(h) \/ AlertCursors(h) \/ Emit(h) \/ AlertEnds(h)
  \/ \E r \in Room : AlertScan(h, r) \/ Bank(h, r) \/ AlertAck(h, r)

ReadStep(g) ==
  \/ ReadHorizon(g) \/ ReadRows(g) \/ Ack(g) \/ Answer(g) \/ ReadFails(g)
  \/ \E r \in Room : ReadCursor(g, r) \/ \E k \in 1..MaxSeq : ChatAck(r, k)

Next ==
  \/ \E r \in Room, kind \in Kind : Append(r, kind)
  \/ \E k \in 1..MaxSeq : Trim(k)
  \/ \E h \in Alert : AlertStep(h)
  \/ \E g \in Read : ReadStep(g)

Spec == Init /\ [][Next]_vars

-----------------------------------------------------------------------------
Behind(cursor) == {q \in Seqs : q <= cursor[rows[q].room]}
Trimmed == 1..cut

(* Addressed and RunAlert: a message that names the session and is behind  *)
(* its alert cursor has been in a notice, unless retention took it,        *)
(* whatever was appended between the queries and however alerts overlap.   *)
NamedWasAlerted == {q \in Behind(alertCursor) : Names(q) /\ ~Own(q)} \subseteq emitted \cup Trimmed

(* What the session said it has handled, if it said so of rows to come.    *)
ByHand == {q \in Seqs : q <= passed[rows[q].room]}

(* chat_read: what is behind the read cursor was composed into an answer,  *)
(* taken by retention, or is at or before a seq the session acked by hand. *)
ReadWasRendered == Behind(readCursor) \subseteq rendered \cup ByHand \cup Trimmed

-----------------------------------------------------------------------------
(* What the code says of itself and does not keep: no run checks them,     *)
(* and the README tells what breaks each.                                  *)

(* What the journal says of itself: rows lost to retention before they     *)
(* were read are reported as a gap, never as silence.  An answer from a    *)
(* cursor that tells of no gap has every row up to where it moves it.      *)
GapsAreTold ==
  \A g \in Read :
    reads[g].at = "ack" /\ reads[g].base > 0 /\ ~reads[g].gap =>
      {q \in Seqs : rows[q].room = reads[g].room /\ reads[g].base < q /\ q <= reads[g].upTo} \subseteq reads[g].kept

(* What the schema says of the read cursor: the highest seq the session    *)
(* has been shown.                                                         *)
CursorMeansShown ==
  Behind(readCursor) \subseteq shown \cup ByHand \cup Trimmed \cup UNION {reads[g].kept :
    g \in {x \in Read : reads[x].at = "answer"}}
=============================================================================
