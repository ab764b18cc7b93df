# A formal model of buddy-system

buddy-system coordinates coding agents that work in one repository. Each agent
is a *session*; sessions *claim* paths before they write them, and a gate in
front of every tool call asks the ledger whether the claims of others stand
against the write. Everything is kept in one SQLite database (the *ledger*),
and every operation is a short-lived `buddy` process that opens it. This
directory holds TLA+ modules for the parts of that system whose correctness is
hard to test, the TLC configurations that check them on small instances, and
TLAPS proofs of the properties that matter most.

## 1. The system

| part | code | state | operations |
|---|---|---|---|
| coordination ledger | `internal/store/{store,conflicts,parked,transfer,release_set,logical}.go` | tables `sessions`, `claims`, `claim_scopes` | hello, begin, bye, beat, claim, release, release --scope, park, unpark, transfer, sweep |
| gate | `store.OwnerOf` | none: a read of the claims | may this session write this path |
| wait register | `internal/store/wait.go`, `internal/cli/wait.go` | tables `session_waits`, `wait_targets` | declare, check, close, clear, notice, settle |
| `wait --block` | `internal/cli/waitblock.go` | one polling process | poll until the declaration has a verdict |
| identifier register | `internal/store/ids.go` | tables `id_spaces`, `id_blocks` | seed, take, status |
| processes of a session | `store.go` (`ByeFrom`, `registerProc`), `cli/proc.go` | `session_procs` | hello from a process, bye of a process |
| turns, samples, handoff | `store.go` (`MarkIdle`, `RecordContext`), `handoff.go`, `cli/{idlewait,transcript,handoff}.go` | `session_idle`, `session_context`, `session_base` | turn ends, prompt, tool call; claim a step |
| inbox | `inbox.go`, `drain.go`, `cli/wake.go` | `inbox`, `inbox_delivery` | send, drain, correct, read again, sweep |
| brake | `target.go`, `store.go` (`Pause`, `Resume`, `PausedFor`) | `controls` | pause, resume, read before a tool |
| dirty attribution | `dirty.go`, `cli/dirty.go` | `dirty_paths`, `dirty_scans`, `dirty_warned` | record, scan, retract, warn |
| adapter queue | `adapter.go`, `logical.go`, `cli/{adapter,lifecycle}.go` | `adapter_messages`, `session_endpoints` | begin, queue, inspect, deliver |
| harness controller | `internal/harness/controller.go` | journal, receipt, `sent`, `approvals` | start, resume, send, approve, observe, close |
| renewals | `internal/harness/{renewal,claude_renewal}.go`, `codex.go` | mailbox, correlations | offer, take, confirm |
| worker ownership | `internal/harness/ownership.go`, `descendants.go` | `<receipt>.proc`, the journal's lock | spawn, bind, scan, seal, admit a resume |
| harness backends | `internal/harness/{claude,codex,process}.go` | a child process and its pipes | native protocols |
| admission | `internal/harness/{admission,candidate,executable}.go` | none: embedded records | which harness version may be launched |
| chat journal and alerts | `internal/buddylist/{journal,alert,mcp}.go` | `messages`, cursors, horizons | append, read, ack, alert, trim |
| presence | `internal/buddylist/presence.go` | a connection per session | note, forget, dial, expire |
| concierge | `internal/buddylist/{chatd,socket}.go` | its connection, rooms, members | say, status, relay, reconnect |
| IRC client | `internal/ircwire/client.go` | membership, the presence query | read loop, ISON |
| gate hook | `cli/{cli,gatetargets,ghstack}.go` | none of its own | which ledgers a tool call answers to |
| discovery | `cli.go` (`openRepo`, `discoverRepo`) | none of its own | off, broken or open |
| rest of the command line | `internal/cli` | none of its own | reports, parsing, installation |
| TOC client | `internal/tocwire` | a connection | wire format |

How they interact: the processes of different sessions share nothing but the
ledger and run in any order; each operation of the store that writes is one
`BEGIN IMMEDIATE` transaction (`Store.tx`), so operations are atomic and a
refused one has no effect. What is *not* atomic is a verb: a process resolves
who it is and whom it names, then opens the transaction; or reads a verdict,
prints it, and only then writes that it did. The hard behaviours follow from
that: registrations that end or are replaced between the two, notices that
arrive late or never, claims that come to overlap by handing on what was
granted to somebody else, clocks and byes that race a sweep, reads that see
two states of the ledger. A hook is the worst of these: it is a process that may
be held up for as long as it likes, it names its session but not its
registration, and it reads files that somebody else is writing. The harness side adds crashes: an adapter may die
between any two of its durable writes, and its worker may outlive it.

`PROJECT.json` lists every part with its status, and under `hazards` each
place in the code where one of these behaviours bites.

## 2. The modules

| module | models | extends |
|---|---|---|
| `Paths` | scopes as sequences of names; overlap, covering, slots, the coordination directory | |
| `Ledger` | sessions and claims, one action per operation | `Paths` |
| `Gate` | `OwnerOf`, evaluated in a state of the ledger | `Ledger` |
| `Waits` | the wait register over the ledger, and the closes and notices on their way | `Ledger` |
| `WaitBlock` | the polling process over the wait register | `Waits` |
| `IdRegister` | what the identifier register promises: an id is issued once | |
| `Ids` | blocks and ceilings over machine integers; implements `IdRegister` | |
| `Backend` | a harness worker, and the adapter's end of its pipe | |
| `Controller` | the controller, its journal and the adapters that own it in turn | `Backend` |
| `Ownership` | which adapter may launch a worker: start intent, receipt, ownership record, process groups | |
| `Descendants` | one scan of the process table, row by row, while the processes move | |
| `Turns` | what the hooks of one session record about its turns | |
| `Procs` | the processes registered under a session, and the byes | |
| `Mail` | the inbox, the hooks that hand it over, and the wake a sender is named | |
| `Dirty` | who wrote which file that is not committed yet | |
| `Adapter` | lifecycle, messages and receipts that carry an incarnation | |
| `ChatJournal` | the chat's rows and a session's two cursors over them | |
| `Concierge` | the chat daemon's connection, over the membership the client keeps | |
| `Presence` | a connection per session: dials, expiry, away texts | |
| `IrcClient` | the presence query and the read loop | |
| `Renewals` | from a completed write to the renewal of its claim | |
| `GateHook` | one tool call, and every ledger it answers to | |
| `Brake` | names, pauses, and the hook that reads them | |
| `Spellings` | the places one tool path may land at, over links | |
| `Discovery` | is there a ledger here | |
| `MCLedger`, `MCGate`, `MCWaits`, `MCIds`, `MCController`, `MCOwnership`, `MCDescendants` | the small instances TLC checks | one of the above |
| `MCWaitBlock`, `MCSessions`, `MCMessages`, `MCHooks`, `MCConnections` | sums of small instances (section 3) | `MCWaitBlock`: `WaitBlock` |
| `LedgerProofs` | theorems and their proofs | `Gate`, `WaitBlock`, `Ids` |
| `ControllerProofs`, `OwnershipProofs`, `DescendantsProofs` | theorems and their proofs | the module named |
| `SessionsProofs`, `MessagesProofs`, `HooksProofs`, `ConnectionsProofs` | theorems and their proofs, of the parts of a sum and of the sum | `MCSessions`, `MCMessages`, `MCHooks`, `MCConnections` |

Definitions whose comment begins with "Mutant:" are plausible bugs: the module
with the definition above it replaced by the mutant must violate a property.
They are no part of any specification.

### 2.1 Ledger, Gate

`sessions`, `claims` are the tables; `minted` is every claim id given out and
`now` the clock of the store. `claim_scopes` is a field of the claim row. Each
exported operation of the store that writes one of them is one action, from
its first check to its last write, with the housekeeping it calls
(`cleanupEnded`, `orphanEnded`, `renewCovering`, the unmarking of parked claims
whose run closed) inside it; a call that returns an error rolls back and is no
step. What a process looked up before its transaction, the incarnation it
believes it has, and that of a peer, are parameters that range over every
incarnation, current or not.

Random tokens are fresh members of `ClaimId`, and a session's incarnation is
the count of its registrations. Scopes are sequences of names, so that
`scopesOverlap` and `scopeCovers` are about prefixes as in the code, and the
slots and `.buddy` are real prefixes. Labels, outcomes, jobs and messages are
left out, since no guard reads them; so are the processes registered under a
session, and `ByeFrom` may or may not end the session it names. `Gate` adds no
state: it defines who passes the write gate, from the claims.

### 2.2 Waits, WaitBlock

`waits` is the table, with the declaration's token as a count. LANDED and
EXPIRED are computed at each read. `sent` holds what follows a verdict already
written out: `CloseWait` and `MarkWaitTold` arrive late, in any order, or never
(`Lost`). In `WaitBlock` a poll is up to four steps (the clock and the session,
the wait, a settle if a holder said bye, the wait again), and anything may
happen between two of them.

### 2.3 Ids

Integers are those of a machine whose largest is `MaxId`: sums wrap. A take
and a seed are transactions; `ids status` reads the ceiling and the blocks
separately. The blocks map to the issued ids of `IdRegister`.

### 2.4 Backend, Controller

`worker`, `work` and `prompts` are the native side, an external actor: it
starts turns, asks for approvals, finishes, fails and dies when it likes. The
rest of `Backend` is what one goroutine keeps of it for each of the two
harnesses. A frame is read as it is written (the pipe is not modelled), and a
full event channel blocks the reader, and the worker behind it. A turn bears
the name of the wake that started it; but for a killed turn that a resumed
Codex thread goes on with, turns the worker begins by itself are not modelled. In `Controller`, `call` is the one call that holds the lock,
between the row it journals first, the write and the row it journals last; the
journal is kept as what `NewController` reads out of it, row by row, and a row
whose write fails may be on disk, absent or torn. A controller that dies
leaves the journal to the next one, which resumes only after the worker's
death: who may launch is the subject of `Ownership`.

### 2.5 Ownership

`pc` is how far each adapter has come through Start, Resume or Close; `lock`
the flock it holds meanwhile. `bar`, `receipt`, `journal` and `record` are the
files; `mem` is what an adapter's `LaunchAuthorization` holds. A publication
that fails may have replaced the record. `leader` and `child` are the processes
of each attempt: a child is in the group or has escaped it, and outlives its
leader as it likes. A process is known by pid and start time, so the reuse of a
pid is not an event here. An observation that fails refuses the resume, and an
adapter may refuse at any time. A scan is one step that sees any subset of the
escaped children; `Descendants` is about how it sees them.

### 2.6 Descendants

`clock`, `proc`, `freeFrom`, `exited` are the kernel: processes fork, change
group, exit (their children pass to init) and pids pass to strangers, between
any two steps of a scan. `kin` is a history variable: every identity the worker
ever forked. A scan observes the recorded identities one by one, reads the
table one row at a time, and walks it from the leader and the recorded ones,
observing a node again before it trusts the children the table gives it; then
`commitDescendants` replaces the record. The scans of one adapter do not
overlap (the final capture joins the sampler), and only a scan advances the
generation a commit is tested against, so a commit never loses a race. One
assumption is made about the kernel: a pid finds its next process only after
the tick in which its last one ended. A walked node is observed here whenever
it has children, in the code only if something escaped below it; the code's
scan therefore reports errors in fewer cases.

### 2.7 Turns, Procs

In `Turns` a hook is a process that makes one read or one transaction a step:
Stop reads the transcript, then who the session is, then writes the footprint,
the base and the mark; busy and beat likewise. Any of them may be delayed past
the end of the session and past its registration again, or be killed. The
transcript is a file the harness appends to: the reply of a turn reaches it
after the Stop fired. The clock counts half seconds, and the ledger keeps of a
registration the whole second, which is what the fences compare with.

In `Procs` processes of the harness start, spawn hooks, exit, and their pids
pass to others; a hook finds its process by walking up the table as it is when
it walks. A hook that lands late may take the row of a process that has its pid
by now; `overrun` keeps the processes this happened to, until they speak again.
`Mine` has the code's wildcard for a birth of 0, though a kernel that names a
process gives its birth as well.

### 2.8 Mail, Adapter

`Mail` has the two ways a message is handed over. A drain holds the ledger's
write lock from its read to its mark, across the write to the session; the
digest of `hello` reads, writes and marks with no lock. A hook that is
killed before its mark has said nothing to the session, and the message stays
owed. The sender looks at the recipient, inserts, and looks again: at the idle mark
or the silence, and at what `wakeAddr` asks besides, that exactly one process
of the session is alive (`alive`), that it is no adapter's, and, when the wake
is named, that its socket listens. `excused` marks mail that
`MailFindsTheResting` does not ask a wake for. Five reasons are the code's own:
a recipient that cannot be addressed (`wake.go:43`), what a Stop of a continued
turn finds, a Stop that fails or is killed, what a digest has no room for, and a
session that registers again meanwhile. So is the gap of `wake.go:46`, a further
SessionStart at the prompt, which makes an unmarked session look busy
(`greeted`): it excuses mail that is sent before the next turn and no other.
Not given up by the comments is the last one, a session whose mark a subagent's
beat has taken back (`muted`; `StopSeesOrIsSeen`, section 6).

In `Adapter` a call is one transaction. It may run at any time after its launch
registered, more than once, and after the launch is over, so that delays,
retries and duplicates need no state of their own. What a launch captured is
its session and incarnation, and hooks of people's sessions capture nothing.

### 2.9 Dirty

A beat is up to six steps: the two reads, the claim of the scan, git, the
retraction, the record, the warning. Other beats, commits, byes and sweeps run
between them, and git may fail or list too much. A worktree is one set of
files; of the clock only whole seconds are kept, as in the columns.

### 2.10 ChatJournal, Concierge, Presence, IrcClient

`ChatJournal` has one session (cursors of two never meet). Every query of the
daemon is a statement of its own; rows are appended and trimmed between any two
of them, and several alerts and reads run at once. What the byte budget of
`chat_read` leaves over is any prefix of the page. `chat_ack` takes any seq
above 0, one past the end of the journal too: the session says that it has
handled what will be there, and `ReadWasRendered` takes it at its word
(`passed`, `ByHand`).

`Concierge` joins three parties: the server (the truth), the client (one line
becomes events, membership by room), the daemon (one event after the other),
and callers of say and status, whose write is a step after the change they
make under the lock. The rooms of somebody who quits or changes the nick are
the keys of a map, so their events come in any order. `Presence` steps are one hold of the lock or one call on
the wire; an entry is a `*buddy`, so that a session noted again after it was
forgotten has another one. Setting the away text on a connection that the
server has dropped may succeed or fail: it is a local write. `IrcClient` numbers the queries, and a reply
carries the number of the query it answers, which no definition of the code's
side looks at.

### 2.11 Renewals

The backend's reader correlates a tool use with its result, by what native says
of it in up to two sightings and a result frame; `Frame` is every frame that
the protocol admits for a use that ran, and for one that did not. The mailbox
is bounded; the loop takes what is due, in batches, by a signal or a timer, and
a boundary (idle, end) takes a batch first. A call to the ledger is confirmed,
refused or unknown. `wrote` and `owed` are history, and so is `misnamed`: the
paths of file tools that native names under the id of a use it first named as
another tool. One result of a use is looked at: that a genuine one follows a
rejected one of the same id is left out, as are the frames of subagents and, for
Codex, completed changes outside the active turn, which the backend drops.

### 2.12 GateHook, Brake, Spellings, Discovery

`GateHook` is `cmdGate` from the decoded call to the verdict. Each ledger it
opens, each brake and each claim it reads is a step; between them others claim
and release, the operator pauses and resumes, ledgers come, go and break.
`since` is what has held ever since the call began. A call is its kind, its
places (canonical spellings) and whether its text could be resolved: which
paths a shell command or a patch names is an input. What was read of the home
ledger (`home`) and of those opened for a target (`repos`) is kept apart, as in
the code: a target in the home repository has it opened anew.

`Spellings` is where those places come from, and where the kernel then takes
the path: `Walk` and `Opens` are the operating system, the rest is
`gatetargets.go`. A tool lands in directories that exist: those that some tools
make first are left out. One limit of links stands for three (255 in
`EvalSymlinks`, 40 in the kernel and in `resolveMissing`): a path that the kernel
follows to its end is one the other two follow.

`Discovery` is a chain of directories, some of which may not be searched, git's
possible answers about each, and the file system reads that follow when git
fails. `Redirects` is what the repository that GIT_DIR names may hold, when it
is set. Two histories mark where proof ends: `blind`, that this round looked for
entries where it could not see them all, or where git would not look; `lost`,
that it found a directory which has gone since.

`Brake` has the resolution of a name (id, label, short form, slug), which is a
query of its own before the write, and the hook's two reads. A label or a slug
may be an id, or the word "all". `Lifted` is what else a resume clears then.

## 3. The runs

All bounds are CONSTANTS of the `.cfg`, or stand in the `MC` module beside the
instance.

| run | instance | states | shows |
|---|---|---|---|
| `ledger` | 2 sessions, 2 claims, a run and an item, 2 registrations each, clock to 2 | 521,597 | `ClaimsAreHeld`: no claim outlives a registration, a slot has one holder; `ClaimsEndOnce`: closed is forever, only the gone are orphaned |
| `gate` | 2 sessions, 3 claims, a run, an item and a lane over two nested paths | 143,926 | `OverlapsAreAdmitted`: the overlaps that stand are riders beside declarations; `GateExclusion`: one session passes over an exclusive claim; `GateAgrees`: the claim door and the write gate agree, newcomers never deny |
| `verdict` | a waiter, a holder, 2 claims, 1 message | violation | a landed verdict does not stand (section 6) |
| `wait_block` | the register with 2 declarations and 2 messages on their way, or one blocked process with 1 of each; or that process and the claims of 2 holders | 593,240 | `WaitsAreOwn`: late closes and notices never touch another declaration; `ExpiresJustly`; `ExitsAreTrue`: exit codes mean what they say; `BlockComesOut`: it ends past its deadline and when its holder says bye |
| `ids` | 2 takers, 1 reader, ids to 5 | 32,002 | no id twice, no sum wraps, "skipped" is final; implements `IdRegister` |
| `controller` | 3 adapters in turn, either harness, 2 wakes, an approval id, 4 events | 1,487,858 | `NothingTwice`: a wake and an answer reach the worker once; `ReceiptsAreTrue`; a resume forgets no turn |
| `ownership` | 2 adapters, 2 launches, 2 children, room for 1 | 294,372 | `WorkersAreAlone`: one worker lives, nobody is launched beside an escaped child that was seen; `FilesAreTrue`: the record names it, begun once |
| `descendants` | the leader and 2 more pids, 3 ticks, room for 1 | 4,938,051 | `RecordIsTrue`: no stranger recorded, no pid twice, nothing living dropped; a scan nothing moved under finds all that escaped |
| `sessions` | Turns: 2 hooks, 5 half seconds. Procs: 2 pids, 3 births, 2 hooks. Adapter: 2 sessions, 2 processes, 2 incarnations, 1 message; or 1 session, 3 processes, 2 messages. Dirty: 2 beats and 1 tick; or 1 beat and 2 ticks | 2,883,926 | rows about a turn are of the incarnation they name; a bye spares the living; queued rows keep to their incarnation; whoever wrote a dirty file stays on record; one scan to a lease |
| `messages` | Mail: 1 hook, 2 messages; or 2 hooks, 1 message, 2 registrations. ChatJournal: 2 alerts in a room with rows of every kind, or in 2 rooms; or 2 reads; 3 rows, a page of 2. Concierge: 2 others, 2 rooms, 2 connections, 2 changes | 3,670,333 | what is marked was shown, and by one drain; mail to the resting has a wake, if they can be addressed; no alert steps over a message, no read over a row; rooms and members are the server's |
| `hooks` | GateHook: a repository in another, 3 places, 2 changes. Brake: 2 sessions, a label with a short form, the id of one session as another label and as a slug, a legacy row. Spellings: 6 entries, links of 5 kinds, paths to 3. Discovery: 3 directories, 2 changes, GIT_DIR unset or to a repository with a ledger | 3,103,627 | a call passes only where no ledger refused it all along; a pause holds under every name; every landing was asked about; off and broken are said truly, or not all could be seen |
| `connections` | Presence: 1 session, 2 entries, 3 connections, 2 failures. IrcClient: 2 callers, 4 queries. Renewals: 2 uses, 2 paths of a Claude tool or 3 of a Codex change, room for 2, batches of 1 | 388,440 | no connection without its entry; a noted session comes online; no query is told another's reply; only completed writes renew, and what is pending is applied |

**Sums.** Five `MC` modules are a sum of small instances: the variable `part`
is chosen in the initial state and every behaviour is one of that instance
alone, while the variables of the others stay 0. The instances share tables of
no kind, so a product would say no more. Where one component's answer is
another's input (`GateHook` takes what `Spellings` and `Discovery` find,
`Turns` the registrations of `Ledger`), the input ranges over every answer the
first can give.

In three of the sums an instance is an operator of the sets and bounds it
takes: `dirty(B, T)` is the module `Dirty` with the beats `B` and the last tick
`T`, and the run has `dirty(Hook, 1)` beside `dirty({"beat"}, 2)`. The lemmas of
the proof modules are about `dirty(B, T)` for any `B` and `T`, so both parts of
the run are instances of them, and so is every other.

**Why the bounds are enough.** Overlap, exclusion and yielding are about pairs
of claims, and a third claim (the run) is what makes a pair yield, so two
sessions and three claims show every kind of pair; `ledger` trades the third
claim for time and a second registration, which is what a stale caller, a sweep
and a returning session need. Two declarations and two messages make a message
of the first arrive after the second. Two wakes let one be delivered while
another is uncertain, three adapters let a successor's successor read a journal
both wrote. A channel of four fills up behind a call that holds the lock. Two
launches are an old worker and a new one, and room for one descendant out of
two reaches the overflow. Three ticks with two free pids let a recorded process
end, its pid pass to a stranger and that stranger's child be read.

The hazards of the later modules need two of a thing: a hook of one
registration and a hook of the next, a drain and a digest, an alert and
another, a row before the cut and one behind it, a connection and the one that
replaces it, a query whose reply is late and the query that must not get it, a
path in the batch and one left over. `sessions` and `messages` take the second
registration and the second message in separate parts, since no hazard listed
needs both. Five half seconds are a turn, a bye, a hello in the same second and
a turn after it. Three directories are a cwd, one that may vanish, and one that
stays. Two holders let one claim settle the wait and the other holder say bye
between that read and the next. Beyond these bounds, what is proved (section 4) holds for all values.

Symmetry is used over sessions, claims, wakes, prompts, adapters, children,
non-leader pids, hooks and people in a room, never in a run with a liveness
property, nor in `hooks`, where one session's id is a label.

**Fairness.**
- `wait_block`: weak fairness of `BlockStep(s)`, the steps of the polling
  process, and of nothing else. The code's loop (`waitblock.go`) sleeps
  `waitBlockPoll` and reads again, and leaves only through a verdict.
- `connections`, `ComesOnline`: weak fairness of the manager's loop, of a dial
  that is under way, of a drain, and of a retry coming due; the loop is woken by
  every note and by its own ticker. The property asks it only of a session that
  stays noted from some time on, with connections left to open.
- `connections`, `LateReplyResumes`: weak fairness of the read loop and of a
  caller that has begun. Nothing is assumed of the server.
- `connections`, `PendingIsApplied`: weak fairness of the loop, of the
  confirmation of a batch and of an interval passing, strong fairness of a
  boundary, which waits for a lock that the loop also takes (a Go mutex hands
  over to a waiter it has starved).

No fairness is assumed of other sessions, of the clock, of the server, or of
the delivery of closes.

**CHECK_DEADLOCK FALSE** is said where the system may stop: in `controller` and
`ownership` when the last adapter is dead (or the attempts are used up), the
worker gone and its children ended; in the sums when a hook's verdict is
given, the messages are sent and handed over, the daemon is shut down, the
connections allowed are used up or the one turn is over.

## 4. The proofs

Every theorem holds for all values of the constants that meet the named
assumptions (the ASSUMEs of each module: null values outside their sets,
bounds that are naturals, scopes that are nonempty sequences of strings). Each
section has one inductive invariant, or two where the second property rests on
other facts than the first; each invariant was checked by TLC on the run's
instance before it was proved, one lemma an action.

**Ledger** (`LedgerProofs`). `TypeCorrect`, then `LedgerInvariant`.
`StandingOverlapsAreRiders` is not inductive alone: that a parked claim has a
producer, that shared claims stay off the slots, that an open claim is of its
owner's current registration and that a slug names one open claim are needed
with it. The argument is one lemma for all operations: each keeps every open
claim (as it was, or narrower, or newly parked off the coordination directory),
or grants it to a session after testing it against every claim that stays open,
with `MayStand` for the pair. `SlotsAreExclusive` follows since a rider never
stands on a slot. `ClaimsEndJustly` is the action property over the same
invariant: what each operation may do to a closed row, and whose claims it may
orphan.

**Gate** (`LedgerProofs`). `GateIsExclusive` needs only the types: of two
sessions that pass, each must yield to a run the other declares and neither,
having one role at a time, can do both. `DoorAndGateAgree` compares the two
readers of one table. What the claim door lets through blocks nobody at the
gate, scope by scope; and a step that adds or moves a claim adds no blocker to
a session that is active and holds one over the path: the door asked the same
question with the two sides exchanged, and a handover moves only what stood.

**Wait register** (`LedgerProofs`). `WaitInvariant` is of a row, of what its
caller read and of what is on its way: they carry the token and the incarnation
of one declaration, and a token is never reused. `WaitsStayOwn` follows.

**wait --block** (`LedgerProofs`, about `WaitBlock`, which `wait_block` runs as
one part). `BlockInv` adds to `WaitInv` what a process knows: the row of its
session is the one it declared, by the registration that declared it, or a later
one; its clock is not ahead; and whatever has ended is over for good, for
registrations only go up. `WaitsExpireJustly` needs that the clock only advances;
a process that gives up does so over what its second read finds pending, and whose
holder had not said bye when the first read looked, or settled (`gone` is who had):
a bye between the two it does not see. `ExitsStayTrue`: what is judged between two reads is
either the declaration itself or left to the next poll.

**Ids** (`LedgerProofs`). `IdsInv` adds that blocks lie at or below the ceiling and
that a ceiling read is not above the one that stands. `KeepsPromise` maps each
take to one step of `IdRegister` and each other step to a stutter.

**Controller** (`ControllerProofs`). `ControllerInv`: whatever the worker was
sent is in the journal (unless torn, and then nobody opens it again) and in the
memory of the adapter that runs, and a call that has not written yet has its
wake or approval to itself. `ReceiptsStayTrue` adds `AskInv`: one turn runs, who
asks runs it, a lost transport says so last, and behind every event that clears
the pending approvals stands, in the channel, what has been asked since. That
is an invariant about positions in a queue: it survives a full channel because
the reader blocks and the worker with it. `ResumesForgetNothing` adds `RestInv`,
for the worker that refuses a resume over an unfinished turn: a result, in the
channel or in a journal that is not torn, is of a turn that is done, and a
delivered wake names the turn it started.

**Ownership** (`OwnershipProofs`). The invariant is the types, who may live
(`LifeInv`), what the start intent bars (`StartInv`) and, for each adapter,
what its position says about the files and the latest attempt. `OneWorkerLives`
follows from: a live group is that of the attempt on record, and an attempt is
minted only over a record whose worker was observed gone.

**Descendants** (`DescendantsProofs`). `DInv`: a parent never starts after its
child, a row read names the child's true parent as long as the parent's pid is
held by a process no younger than the child, and an identity is alive or will
never be again. `RecordedAreDescendants` and `LivingStayOnRecord` follow, and
`RecordStaysTrue` adds the count. `QuietScansFindAll` speaks of reachability
through the table, at any depth. It needs no induction over paths: the
invariant keeps a set that the walk has covered, closed under children but for
what waits to be visited, and when nothing waits every escaped process whose
ancestors lead to a root is in it.

**Dirty files** (`SessionsProofs`). `DirtyInv`: no stamp is of the future; what
is owed is on record, in the tree, and on the list of every scan that started
after it was recorded; and of two living holders of a file, whose last beats
were not cut short, one was warned or has still to look. The second half is why the order record, then look, matters:
of two recorders the later one finds the earlier. `HoldingsStayTrue` and
`ScansAreLeased`.

**Adapter queue** (`SessionsProofs`). `AdapterInv`: an incarnation is at most
the current one; a row is numbered once; a page holds what was queued for the
incarnation its launch captured; an endpoint is of the launch that made it; what
is corrected is no adapter's row, and if its recipient is marked, its hook was
shown it.
`IncarnationsStayApart` and `CorrectionsMeetOriginals`.

**Processes** (`SessionsProofs`). `ProcsInv`: a hook speaks for its own process
or for nobody, and whoever spoke for a live session and still runs is
registered, or a hook of an earlier process of its pid has landed since
(`overrun`): then it may be overwritten, which is finding `BornIsActual`.
`ByesSpareTheLiving` reads it at a bye, however late hooks land.

**Turns** (`SessionsProofs`). `TurnsInv`: a record on the transcript, and what a
hook has read of it, was made in this incarnation, or by the second in which
this one registered; a hook's fence is of its incarnation or it writes nothing.
`ObservationsStayOwn` and `StepsStayEarned`.

**Chat journal** (`MessagesProofs`). `ChatInv`: a cursor stands where everything
before it was told (alerts) or composed (reads), or trimmed; a call under way
has told what lies between where its cursor was and where it will put it, and
what its page leaves out lies beyond. `NamedStayAlerted` and
`ReadsStayRendered`, over any number of overlapping calls, trims between two
queries of one call, and acknowledgements of any seq; what was acknowledged by
hand, rows to come among it, is an alternative of the second.

**Mail** (`MessagesProofs`). `MailInv`: of hooks that have read and will mark,
only one that holds the lock is a drain; what is marked was shown by one that
will not take it back; what a drain has shown is marked, swept or about to be
marked, so no drain shows it again. `DrainsStayExact`, wherever hooks die.

**Wake** (`MessagesProofs`). `RestInv` is of mail whose recipient could be
addressed when its wake was to be named; any other is excused. A session that is registered and at its
prompt is marked idle, or something that excuses its mail has happened to it, or
it has not been heard of since it registered. A sender looks twice, so one that
saw no mark the first time either finds one, or an excuse, the second time, or
has a recipient that is not at rest; and mail without wake and excuse, of a
session at rest, has a digest before it. What a hook runs for tells what its
session is doing (a Stop is alone but for the hooks of a SessionStart), so a
session comes to rest only by a step that marks it or excuses what it is owed.
`MailStaysFindable`: with no hook of the session running there is no digest to
come.

**Concierge** (`MessagesProofs`). `ConciergeInv` unfolds what is under way into
the truth. For each room, the lines on the wire lead from the members the client
knows to those the server has (`Follows`: there are as many memberships as lines,
and one, each made from the one before by its line), with the names of a room
right after our own join, which finds nobody known there; and the events of the
line being handled lead from who the daemon takes for present to those members
(`Leads`), but between our own join and its names, when nobody is present yet. A
daemon that takes no events yet has none, and knows no room; a room is entered or
left by the last event of a line. With nothing on the wire and no event the ends
meet, which is the first half of `RoomsStayTrue`; for the other, whatever is on
its way has the row of its intent. The sequence of memberships, rather than only
its last one, is why a line read, a line said and a wire cut short by a lost
connection each disturb one end of it. The rooms of a quit are read in any order,
all of them once. `PeopleAssumption`: the concierge's nick is nobody else's, which
is what the server sees to, and rooms are finitely many.

**IRC client** (`ConnectionsProofs`). `AnswersAreOwn`: a reply carries no tag, so
the invariant `ClientInv` accounts for every query. A caller past `Ask` holds
the lock, alone, with the last query made; an installed mailbox is that query's;
and while the read loop runs on an open socket, at most one query or reply is on
the wire, it is of the last query, and its mailbox is installed or the mechanism
is paused. So a new query finds the wire empty, and whatever is read belongs to
the mailbox it lands in.

**Presence** (`ConnectionsProofs`). `PresenceInv`: the map points to entries of
its own sessions; a connection is of one entry and an entry holds only its own;
an entry has one dial, and holds nothing meanwhile; the manager says to a
connection what its own entry was told. `NoConnectionIsLost` follows.

**Renewals** (`ConnectionsProofs`). `RenewalInv`: unless coverage is on record as
lost, a use in flight is correlated exactly when it is a file tool, what is
pending or under way was written, and what is owed is pending or under way.
`RenewalsStayTrue`. What is not asked to be written is a path that native named
late, under the id of a use it first named as another tool (`misnamed`): the
reader correlates it, finding `OnlyTheWrittenRenew`.

**Brake** (`HooksProofs`). `BrakeInv`: a command resolved to an id or to
everybody, and an id to nobody else; what is paused and not resumed has a row
under the id it resolved to, and a hook on its way counts on the rows of its own
id and of everybody only, which the second of its reads sees whatever the label
is by then. `PausesStayKept`, whatever the labels and slugs are. Where a label is
an id, or the word "all", a resume of the one lifts the pause of the other
(`Lifted`; findings `ResumeIsItsOwn` and `FleetBrakeStands`), and a name that
means two sessions is refused; the property says so, and asks the rest of every
pause. The run has an id for a label; "all" for one only the theorem covers.

**Gate hook** (`HooksProofs`). `GateInv` is of one call: what was so of a ledger
when it began and has been so ever since (`since`), what was so at some time of
it (`ever`), and what the call remembers of each ledger it has opened, which lies
between the two. A target is taken off the list only when its ledger was asked,
or none governs it; so at the end nothing that stood all along can have been
passed over, and what was refused was so once. `VerdictsAreALedgers`, for
worktrees that nest (`GeometryAssumption`).

**Discovery** (`HooksProofs`). `DiscoveryInv`: directories exist from the root
down; in which round the search is, and what failed before it; what an answer of
git or a look at a directory is a witness of in the history of the call; and
that an ancestor was lost if one that was chosen is not there.
`VerdictsAreProven`, at any depth, for any number of changes meanwhile, with
GIT_DIR or without it, and directories that may be searched or not. What the
property excepts is what the code cannot see (`blind`) and what has gone since
it was found (`lost`), each only in the round that met it; findings
`NearestProvesNothing` and `SearchedIsProven` are what happens there.

**Spellings** (`HooksProofs`). The invariant of the run is short: what was asked
about is what `Gathered` says of the path, and what the tool lands on is in it.
The work is in the functions. A walk over links is a function defined from
itself; `RecursionTheorem` shows from least elements alone that there is such a
function wherever every value is made of values of lower rank (links left, then
steps left; for `Clean`, `Canon` and `Physical` the length of the path), so each
function is its equation. Then, by a least counterexample: a write that lands
anywhere takes its last step from a real directory to which a walk of the rest of
the path leads (`OpensSplits`); and where it lands, `EvalSymlinks` arrives too, or
finds nothing there and `ResolveMissing` names the place, from as many links or
fewer (`OpensArrives`). The name in that directory is one of the spellings; if a
link is there that leads to nothing, what it would create is asked about as well.
`LandingsAreAsked`, for every tree of files, contents of links, path and limit of
links (`PathsAssumption`: no name is ".." or "/"); the invariant does not need the
refusal that the property allows. The tree stands still between the question and
the write: a link changed in between is outside this model.

The theorems that state a property of a run, with the property:

| run | theorem (property) |
|---|---|
| `ledger` | `ClaimsStayHeld` (`ClaimsAreHeld`), `ClaimsEndJustly` (`ClaimsEndOnce`) |
| `gate` | `OverlapsStayAdmitted` (`OverlapsAreAdmitted`), `GateIsExclusive` (`GateExclusion`), `DoorAndGateAgree` (`GateAgrees`) |
| `wait_block` | `WaitsStayOwn` (`WaitsAreOwn`), `WaitsExpireJustly` (`ExpiresJustly`), `ExitsStayTrue` (`ExitsAreTrue`) |
| `ids` | `IdsStayFinal` (`IdsAreFinal`), `KeepsPromise` (`Promise`) |
| `controller` | `NothingIsSentTwice` (`NothingTwice`), `ReceiptsStayTrue` (`ReceiptsAreTrue`), `ResumesForgetNothing` (`ResumeOnlyFinished`) |
| `ownership` | `WorkersStayAlone` (`WorkersAreAlone`), `FilesStayTrue` (`FilesAreTrue`) |
| `descendants` | `RecordStaysTrue` (`RecordIsTrue`), `QuietScansFindAll` (`QuietScanFindsAll`) |
| `sessions` | `HoldingsStayTrue` (`HoldingsAreTrue`), `ScansAreLeased` (`OneScanPerLease`), `IncarnationsStayApart` (`IncarnationsAreApart`), `CorrectionsMeetOriginals` (`CorrectionMeetsItsOriginal`), `ByesSpareTheLiving` (`EndSparesTheLiving`), `ObservationsStayOwn` (`ObservationsAreOwn`), `StepsStayEarned` (`StepIsEarned`) |
| `messages` | `NamedStayAlerted` (`NamedWasAlerted`), `ReadsStayRendered` (`ReadWasRendered`), `DrainsStayExact` (`DrainsAreExact`), `MailStaysFindable` (`MailFindsTheResting`), `RoomsStayTrue` (`RoomsAreTrue`) |
| `connections` | `AnswersAreOwn` (`AnswerIsOwn`), `NoConnectionIsLost` (`ConnectionsAreKnown`), `RenewalsStayTrue` (`RenewalsAreTrue`) |
| `hooks` | `PausesStayKept` (`PausesAreKept`), `VerdictsAreALedgers` (`VerdictIsALedgers`), `VerdictsAreProven` (`VerdictIsProven`), `LandingsAreAsked` (`EveryLandingIsAsked`) |

**Model-checked only.** Liveness (`BlockComesOut`, `ComesOnline`,
`LateReplyResumes`, `PendingIsApplied`): fairness and ENABLED are out of the
prover's reach. So is any induction with a predicate as a parameter; in
`SessionsProofs`, `MessagesProofs` and `HooksProofs` the facts that need one (the
last of a set of times, the last row of a page, the nearest directory, the end of
a walk) are proved from the least element of a set of naturals.

## 5. What the properties are for

`PROJECT.json` lists the hazards with the properties that cover each. In
short: claims that come to overlap by other doors than the claim door; stale
incarnations, and hooks that name none; messages about a verdict that is no
longer there; marks made before or after the thing they mark; a cursor that
moves over rows another query never saw; a crash between an intent and its
effect; a publication that fails half done; a table torn by what it lists; a
reply that belongs to an earlier question; a verdict put together from reads
of several ledgers that change meanwhile.

## 6. Findings

`verdict`: `WaitCheck` leaves a landed wait open until its verdict is written
out, and its comment says the verdict "cannot un-happen in between". It can: a
claim handed to the waiter lands the wait, and the waiter's own transfer of it
to a third hand, before the close, makes it pending again. The close then
records a landing that is no longer true. The effect is small (the wait is
over, as its owner was told) but the comment is wrong.

Seventeen more sentences of the code's own comments do not hold in the models,
for the reason given. No run checks them; each is a definition at the end of
its module, and an instance with the constants in the last column reaches a
state that breaks it. The properties that the runs do check are the ones that
hold beside them. Most have a small effect and a narrow window.

| definition | the sentence | what breaks it | reached with |
|---|---|---|---|
| `Turns!StopIsFenced` | `store.go:2526`: a turn that ended before this incarnation registered is refused | registrations are kept in whole seconds: a turn that ended earlier in that second is not below it | as in `sessions` |
| `Turns!BeatStampsItsOwn` | `cli.go:2131`: a beat racing a bye "cannot stamp its successor" | the incarnation is read in the beat: held up until after a bye and a hello, it reads the successor's | as in `sessions` |
| `Procs!BornIsActual` | `store.go:930`: the row carries "the born of the process that is actually there" | the upsert takes whichever hook lands last | as in `sessions` |
| `Mail!StopSeesOrIsSeen` | `wake.go:175`: the Stop saw the mail, or its mark is there to be read | a subagent's beat after the Stop retracts the mark | `MaxMsg = 1`, `MaxRegs = 2` |
| `Mail!OneDrainAtATime` | `drain.go:9`: "ONE drain at a time per ledger" | the digest of `hello` takes no lock | `MaxMsg = 1`, `MaxRegs = 2` |
| `Dirty!OnlyTheLivingRecord` | `cli/dirty.go:217`: "Only a live, registered session may record" | the session is read before git runs, and not again | one beat, `MaxTime = 2` |
| `ChatJournal!GapsAreTold` | `journal.go:169`: trimmed rows are reported as a gap | the horizon and the rows are two queries, with a trim between them | one read, two rooms |
| `ChatJournal!CursorMeansShown` | `journal.go:58`: the cursor is "the highest seq a session has been SHOWN" | it moves before the answer is written | one read, two rooms |
| `IrcClient!NoneWaitsItOut` | `client.go:511`: a caller learns that the connection died "instead of waiting out its own timeout" | a query installed between the wake and the close is woken by nobody | `MaxQueries = 3` |
| `Concierge!StatusIsShown` | `chatd.go:472`: sets the away text, "remembering it across reconnects" | remembered under the lock, sent outside it: two calls may arrive in the other order | one room, two texts, `MaxConns = 1`, `MaxChanges = 0` |
| `Renewals!BoundaryAppliesAllDue` | `controller.go:774`: "A boundary applies every renewal already due first" | one batch at most | codex, `MaxPending = 2`, `BatchMax = 1` |
| `Renewals!OnlyTheWrittenRenew` | `claude_renewal.go:142`: two sightings that disagree drop the correlation | a first sighting of no file tool records nothing to disagree with | claude, one use, one path |
| `GateHook!EveryRepoAround` | `cli.go:2897`: a target inside another governed repository answers to it | only the nearest `.git` entry is asked: one without a ledger hides the governed one around it | `MaxChanges = 0` |
| `Brake!ResumeIsItsOwn` | `store.go:2018`: clearing by label is safe since a shared label is refused | an id is resolved without a look at its label, which is cleared too | `Label = Legacy = {"x"}` |
| `Brake!FleetBrakeStands` | `target.go:51`: no session may shadow "all" | nothing refuses the label at registration; its resume clears the fleet's row | `Label = {"x", "all"}`, `Legacy = {}` |
| `Discovery!NearestProvesNothing` | `cli.go:967`: with GIT_DIR set the caller keeps denying | the arm before it answers off from the directories alone when git is killed | `Redirects = {"present"}`, `MaxChanges = 0` |
| `Discovery!SearchedIsProven` | `cli.go:897`: every other failure "comes back as a real error" | in a directory that may not be searched the entry cannot be seen (`docs/decisions.md:7502` records it) | `Redirects = {}`, `MaxChanges = 0` |

No case that touches a property of a run is left out of it by an assumption (but
for size: `hooks` has no label "all" and no GIT_DIR that leads to no ledger,
which the theorems cover). The property names it instead, by a history
variable (`overrun`, `misnamed`, `blind`, `lost`), by what was resolved
(`Lifted`) or by an excuse of the mail, and asks the rest.

## 7. Not modelled

See `components` in `PROJECT.json` for the reason of each.

- *Text processing.* Which paths and directories a shell command, a patch or a
  `gh stack` line names (`patch.go`, half of `ghstack.go`), the words of an
  approval, hook settings: pure functions of a string, whose result is an input
  of `GateHook` and `Backend`.
- *Reports.* `who`, `stale`, `base`, `codemap`, `brief`, the forecasts of a
  claim: reads of one snapshot and their layout.
- *Admission.* Which version of a harness may be launched: a lookup by hash in
  embedded records.
- *Installation, update, schema migration.* Run once, beside the protocol.
- *The commit gate.* A read of claims and of git's index with one verdict.
- *Wire formats* of the two chat protocols, the decoding of the socket, the
  whole TOC client (the daemon takes either client by one interface).
- *Faults below the program.* The power cut (a rename that did not reach the
  disk) and edited or copied artifacts, in `Ownership`; the pipe to the worker; in
  `Concierge`, an append to the journal that fails, after which a say still sends.
- In `Backend`: compaction, interrupts and sub-agents.

## 8. Plan

What is left, in this order:

1. An abstract mutual-exclusion specification that `Ledger` implements on the
   slots, and an at-least-once channel that `Mail` and `Adapter` implement.
2. `Procs` composed with `Ledger`, in place of the `ByeFrom` that may or may not
   end the session.
3. `Backend`: compaction, interrupts, sub-agents, and the pipe.
