# A verification of the cascade coordination example

The repository drives a *cascade*: several model sessions ("siblings") that a
daemon hosts under one cascade id, that message each other with
`send_to_sibling`, and that a driver program starts, watches and judges. It has
one complete example (`examples/chapter_cascade.py`: a writer, a coder and
reviewers produce a chapter) and a suite of certifications (`certify/`) that
test whether the daemon keeps what the example relies on. The daemon itself
(`jaato`) is a separate program; whatever is modelled of it is read off the
code that uses it and marked external in `PROJECT.json`.

## The system

| Part | State it keeps | Operations | Modelled |
|---|---|---|---|
| chapter cascade driver (`examples/chapter_cascade.py`, `examples/common.py`) | position in `run`/`_cascade`, review round, subscribed callback and its future, payloads, exit value, connection | connect, probe, declare the budget, create sessions, send, await a completion, attach, render, disconnect | `ChapterCascade` |
| sibling personas (`.jaato/agents/writer.md`, `coder.md`, `reviewer.md`) | snippets asked for, written, answered, included | ask, include, wait, write, reply, stand by, judge | `Siblings` |
| daemon sessions (external) | life cycle, queue, running turn, turn count, transcript on disk, pool, completion events | create, attach, deliver, start and end a turn, complete, unload | `Siblings`, a smaller cut in `ColdSibling` |
| C1, no driver in the loop (`certify/c1_...py`) | event log, leash, receipts read from disk, verdict | two creates, kickoff, leash, observe, wait, save, read, release, judge | `DriverInLoop` |
| C2, a sibling cannot approve (`c2_...py`) | two probes in turn, each with a log and two clients; failures found | wait for a request, arm the attacker, poll for its receipt, wait the window out | `SiblingApproval` |
| C3, own books (`c3_...py`) | exchange counter, two snapshots of the pool | declare a budget, volley, trip, stop, compare | `OwnBooks` |
| C4, cold sibling (`c4_...py`) | event log, counts, receipts read from disk, two verdicts | create four siblings, make one cold and one deleted, three sends, polls, judge, release | `ColdSibling` |
| C5, the roster is data (`c5_...py`) | breach file, cached roster parts | two refused creates; clear the breach, a hostile sibling, a reader, its history, judge | `Roster` |
| harness (`certify/harness.py`) | pinned commit, event log | create, save, release, read transcripts; preconditions of a live run | `Harness`, `ColdSibling`, `Suite` |
| suite (`certify/run_all.py`, `verdict.py`), surface gate (`surface.py`) | report, probe of the daemon's surface | pin, guards, gates, claims in order behind an isolation boundary, exit code | `Suite`, abstractly `CertificationRun` |
| driver leash and static checks (`facade_guard.py`), `selftest.py` | none across calls | check source text, run each guard on a doctored input | the leash in `DriverInLoop`, the outcome of the self test in `Suite` |
| `render_cascade.py`, profiles, schemas, documents | none | format transcripts | no: text and data |

**How they interact.** The driver calls the daemon over one client
connection: `create_session` and `attach_session` decide which session the
client is *attached* to, and `send_message` acts on that session, with no
session id. Completions come back as events; a callback subscribed for the
length of one wait picks those of one session. Siblings reach each other through
the daemon's queue. A session is saved when a turn starts, when it is unloaded
and when `session.save` asks for it, so what is on disk lags what is in memory.

**What is hard.** The driver is a coroutine with nothing atomic between two
awaits, while turns of several sessions, background unloads and the event reader
go on; a message can meet its peer running, idle, cold or ended; a
session may complete more than once, never, or between two calls of the driver;
any call can fail with a half-built cascade behind it; evidence is read from disk
files that lag; and what a run certifies is a checkout that others move while it
runs. The list, line by line, is in `PROJECT.json` under `hazards`.

**What makes each part correct.** Driver: it acts only on the completion it
waits for, reviews follow one another, the exit value is earned, the coder is
stopped before the review, the program ends and closes its connection. Siblings:
no message strands, no requested snippet is lost. Certifications: a PASS is
evidence that the claim was exercised and held, a reverted framework is caught,
a sound framework is not blamed, and nothing is left loaded for the next claim.
Suite: every certification has its say whatever raises, what could not be
exercised is blocked and never a pass, the verdicts are about the commit pinned.

## The modules

`Siblings` — the sessions and the personas. The variables of the first group
are the daemon's, the snippet sets record how far a request has come. A turn is
the unit of behaviour: `StartTurn` starts it on the messages queued, persona
actions (`WriterAsks`, `CoderReplies`, ...) happen inside it, and `EndTurn` or
`SignalCompletion` ends it. What a persona file forbids is a guard
(`WriterIsReady` needs every snippet included); what a model decides (a verdict,
`blocked`, silence, in which order to ask) is a choice.

`ChapterCascade` extends it with the driver. `pc` names the await the driver is
about to make; each await of `run`, `_cascade`, `start_session` and
`await_completion` is one action, and code between two awaits belongs to the
action before or after it. `sub` and `future` are the callback and its future:
`Dispatch` is the client's reader handing an event to the callback, and an
event that meets no subscription is gone. `StartFails` and `CallRaises` are the
error paths, `WriteTranscript` and `Disconnect` the `finally` block.

`CascadePhases` — what a cascade promises, with neither sessions nor messages:
phases in order, each decision resting on what the participant of that phase has
said. `ChapterCascade` implements it under the mapping at `Phases`.

`MCChapterCascade` adds the symmetry of the snippets for TLC.

`ChapterCascadeProofs` holds the theorems about the driver: types, what the exit
value rests on, the refinement. `CascadeSessionProofs` builds on it for what
sessions, messages and snippets come to.

`ColdSibling` — certification C4. One variable, `framework`, chosen at the start
and never changed, says whether the daemon is the one that ships, one with a
reversion that `REVERT_A`/`REVERT_B` name, or one that `certify` tells apart by
itself (`AcceptsOnly`: a receipt `accepted` and no turn); the rest is the driver's
`_run` await by await (`Poll` is one pass of a polling loop), the sender's and the
peers' turns, and the judgement of `certify` at the end. `live` and `disk`
are a session's transcript in memory and as last saved, with just the parts the
harness reads: turn count, whether a sibling's message was answered, receipts by
address, rosters. `ColdSiblingProofs` holds its theorems.

`Harness` — what the other four certifications share: sessions that take turns
(`status`, `queued`, `called`), the last receipt in a transcript in memory and
on disk (`receipts`, `saved`), the bus (`watching`, `log`), the clients, and the
driver's calls as operators with the program points they lead to (`Creating`,
`Sending`, `Releasing`, ...). `Raising` is a call that raises because the
connection is gone; it sets `failure`, which `Reporting` turns into BLOCKED,
FAIL or an exception as the claim's `except` clauses do.

`DriverInLoop` (C1), `SiblingApproval` (C2), `OwnBooks` (C3), `Roster` (C5)
extend it, one action per await of `_run`, the siblings' turns as their personas
give them, and the judgement of `certify`. Each has the framework that ships
and the reversions its `REVERT` text undertakes to notice; a reversion of the
*driver* in those texts (a relay, a counter that does not stop) is a framework
value too. C1: `carriers` (whose messages have reached the partner) and `early`
are history variables that only the properties read. C2: `request` is the
pending permission, `armedFor` the one whose id the attacker was given, `failures`
the kinds of failure its probes report. C3: the pool counts turns charged. C5: a roster
part keeps its `untrusted` field, whether it holds a description written by a
sibling, and whether it reports an error.

`Certifications` composes the four. They run one after another and share only
the daemon, so a state draws one claim and one framework at the start.

`HarnessProofs` holds lemmas about the operators of `Harness`: what recording
appends to a log, what each call of a driver changes, how events are counted.
On it stand `CertificationProofs` (types of all four), `LoopApprovalProofs`
(verdicts of C1 and C2) and `BooksRosterProofs` (verdicts of C3 and C5, and the
cleanup of all four), each building on the one before.

`Suite` — a run of `run_all.py`. `pc` is the place in `run()` and, within a
certification, in its gates, its preconditions and its live part. `head`, `daemon`
and `installed` are the world, which moves at any time (`MoveHead`,
`RestartDaemon`, `Reinstall`); `pinned` is what `pin_framework_head` recorded.
A live part is its outcomes only: a PASS, a FAIL, BLOCKED, or an exception; how
they come about is what the five modules above model. `CertificationRun` is what
a run promises: it may give up before the first certification, and from then on
each of them, in turn, adds verdicts of its own to the report, none twice,
and the exit code is the report's. `Suite` implements it (`ImplementsRun`) with
the variables of the same names. `MCSuite` is a small world for it.
`SuiteProofs` holds its theorems.

## The runs

| Run | Instance | Shows |
|---|---|---|
| `Cascade` | 2 snippets, 2 revisions, ceiling of 8 turns | the ten invariants of the driver and its sessions, and the refinement of `CascadePhases` |
| `CascadeProgress` | 2 snippets, 1 revision, ceiling of 5 turns, under `FairSpec` | the program ends; each snippet asked for is included unless the writer ends its session |
| `ColdSibling` | the framework that ships and five reversions | five invariants of the claim's verdicts and cleanup |
| `Certifications` | C1, C2, C3, C5 with 14 frameworks in all; volley limit 3, 4 sends | thirteen invariants of the verdicts, what they rest on and the cleanup; every claim ends |
| `Suite` | 3 commits, one off the mainline, 4 machines, 2 daemons; 2 moves of the world, 1 incident | six invariants, the refinement of `CertificationRun`, the run ends |
| `CascadeFeedback` | 1 snippet, 1 revision, 8 turns | the reviewer's reasons go to the reviewer, not to the writer |
| `CascadeRevision` | the same | the second review starts before the writer has revised |
| `CascadeBlocked` | the same | a chapter the writer reports as blocked is reviewed |
| `CascadeBusyCoder` | the same | a coder that is mid-turn is not stopped before the review |
| `ColdWake` | six frameworks | C4a passes a framework that wakes a cold sibling after the quiet window |
| `ColdSpawn` | six frameworks | a spawn failure ends C4 in an `UnboundLocalError` instead of BLOCKED |
| `SuiteDaemon` | as `Suite`, a world that stands still | a daemon started after the pinned commit was made, on an older checkout, is not refused |

The last seven are expected to fail: each checks a sentence of a document or a
comment that the code does not keep, quoted in `PROJECT.json` under `findings`.

**Bounds.** Two snippets are the least with which one reply can be included while
another is under way, so that replies can meet the writer running, idle or
between turns. `MaxRevisions = 2` gives a first, a middle and a last round
(the code's value is 1). The pool counts turns rather than tokens; at 8 it can
run out before any of the spawns and need not run out at all. Messages that
wait are a set, because the personas handle all they find and no two equal ones
are sent. In `ColdSibling` each instruction is carried out at most once, as
`.jaato/agents/sibling-sender.md` demands ("ONCE ... Do not retry"), and
the passes of a polling loop are not counted: a loop may give up after any pass,
which includes every number.

In `Certifications` the sends a bus may carry are bounded by `SendBound = 4`: a
volley of C3 has to pass its limit by one, so that sends after the counter has
tripped happen; the limit is 3 (4 in the code), the least at which the counter
cannot trip before a turn has ended and been charged (`OwnBooksAssumption`: with
2, the first send of each sibling would do, and C3a would pass on a pool that
nothing had yet drawn on). C1 and C2 need two sends.
In `Suite`, two moves of the world allow the checkout to leave a commit and come
back between two questions, `MaxIncidents = 1` gives every claim the chance to be
the one that raises or fails. The three commits are the least that have a
surface without the verbs, one with them, and one off the mainline with part of
them; the machines differ in what `check_preconditions` reads.

**Assumptions about the daemon**, all read from comments in `src/`:
- A message queued during a turn starts the next one: the turn-teardown tail of
  `contract.py` lines 223-245 is closed (framework #620). `TailRace` is the
  open form and breaks `NothingStrands`.
- A session that completed may take a further turn when its client sends to it,
  or not (`Resumed`); the driver's feedback step relies on it.
- `Settle`: the sleeps of 12 s and 10 s outlast the background unload they are
  there for.
- Creating a session attaches the client and unloads nothing; attaching unloads
  the session left if it is idle (C4's comments, lines 177-188).
- The observer's event log is not delayed. A delayed one could only add
  runs in which an event is missed.
- A tool's receipt is in the transcript, and its call on the bus, when the
  message is delivered: nothing of the peer's turn comes between.
- A sibling sends at most once in a turn, as its persona asks.
- Whoever may answer a permission request without the reverted stamp denies it.

**Assumptions about the machine.** `git` answers for the whole run or not at all,
except that the pin may fail on its own; the capabilities of the SDK are those of
the checkout when it was imported (`loaded`), the tools those of the checkout when
they are asked for; the static checks of `facade_guard` are printed and do not
raise.

**Fairness.** `DriverFairness` asks that the driver keeps taking steps and that
unloads happen: asyncio runs a ready coroutine, `wait_for` has a timer, the
unload has a thread. Nothing is asked of a model for `ProgramEnds`.
`TurnFairness`, which `RequestsAreAnswered` also needs, asks that turns of the
writer and the coder go on; if a provider stops answering the driver times out
and no one can promise a snippet.
`Certifications` and `Suite` ask only that the program takes its next step
(`WF_vars(DriverStep)`, `WF_vars(SuiteStep)`): every wait of a claim has a
timeout, and a timeout is a step of the driver that is enabled as long as the
answer is not there. Nothing is asked of a model or of the world. Of the daemon
one thing is: a call without a timeout of its own (`send_message`, `stop`,
`delete_session`, `save_session`) returns or raises. One that does neither would
hang the program, and no line of it would notice.

## What is proved

**The cascade.** For every set of snippets not containing the word `none`, every number of
revisions and every ceiling (the three assumptions of `Siblings`):

- `TypeCorrect`: `Spec => []TypeOK`. Type correctness is not inductive alone:
  sending needs a session to send to, and one more round must fit. The
  strengthening is `TypeInv`, which adds `ClientIsAttached` (after the first
  start the client is attached to an existing session) and `FeedbackHasARound`.
- `Attribution`, `Earned`, `InOrder`: the invariants `PayloadsAreAttributed`,
  `ExitIsEarned`, `ReviewersInOrder`. The inductive invariant `OutcomeInv`
  follows an outcome along its way: what is on the wire was signalled
  (`EventsAreTrue`), what the callback kept is of the session it was subscribed
  for (`FutureIsTrue`), that session is the one this place in the program is
  about (`WaitsForTheRightOne`), and rounds passed were rounds refused
  (`RoundsAskedForChanges`). Steps of the sessions are handled once, by
  `SessionStepEffect`: they complete at most one session and create none.
- `Refinement`: `Spec => ImplementsPhases`. Each step of the driver and each
  step of the sessions maps to a step of `CascadePhases` or to a stutter, given
  `RefinementInv`, which adds that sessions exist only after the setup and
  reviewers only of rounds begun.

- `NoneStrands`, `NoSnippetIsLost`, `ReviewHasSnippets`, `CoderIsOnDisk`: the
  invariants `NothingStrands`, `SnippetsAreUnderWay`, `ReviewedSnippetsExist`,
  `StoppedCoderIsOnDisk`. They rest on `SessionInv` (`SessionsHold`), which adds to
  `OutcomeInv` two groups. `Hands` conserves messages: queues belong to busy
  sessions, a request in the coder's hands was asked and a reply in the writer's
  was given, so that until the writer ends its session a snippet
  is always in somebody's hands or included.
  `Places` says where the client, the writer and the coder are at each place of
  the program: without it nothing keeps the coder from being unloaded, or ended,
  before it is left.
- `Covered` and `Disconnects` (`SessionsAreCovered`, `ReturnDisconnects`) follow
  from `CeilingInv` and `ConnectionInv`, a line more each than what they state.

**The suite.** For every set of commits with its history and surface, every set
of machines and daemons, and any number of moves and incidents (`SuiteAssumption`):

- `TypeCorrect`: `Spec => []TypeOK`; `NothingAllHeld`: `Spec => []NeverAllHeld`,
  the exit code is never 0; `Implementation`: `Spec => ImplementsRun`.
- All three come from one inductive invariant, `IInv`, proved as `Sound`. It has
  four parts: `TypeOK`; `Control`, which says where in the program a run can be
  given what it has judged and asked; `Progress`, that what a certification has
  gathered so far is its own, and that a half that is over has left a verdict or
  a closed gate; and `Ledger`, that the report holds verdicts only of
  certifications already judged and, once the third is over, one that is not a PASS. `Ledger` is what
  `NeverAllHeld` follows from, and with `Progress` it gives the refinement its
  hardest case: that what `ReportClaim` adds was in no report before and is not
  empty, even when a gate kept the certification from running.

- `FreshStaysFresh`, `PinnedIsMainline`, `ClosedIsBlocked`, `PairsStayTogether`:
  the invariants `MergesDoNotAbort`, `MainlineIsCertified`, `GatedIsBlocked` and
  `HalvesStayTogether`. Each adds a part of its own to `IInv`: `FreshInv` (a
  daemon may restart but not grow older, and only a stale one is called stale),
  `PinInv` (what was pinned is HEAD until the world moves), `GateInv` (a closed
  claim is in no half that runs and in no result), `TogetherInv` (without a move
  the second gate finds what the first one found).

**The cold sibling.** For every set of frameworks (`FrameworksAssumption`), all five
invariants of the run: `ProbesAreTyped`, `PassIsATurn`, `RevertedDoesNotPass`,
`BlameNeedsSilence`, `ReturnIsClean`. One inductive invariant, `IInv`, gives them:

- `Scene`: where each session is at each place of `_run`, and that a sender that
  runs finds the deleted peer deleted, the idle one idle or in a turn and, unless
  the framework wakes it, the cold one cold.
- `Story`: what a transcript can hold under each framework (`MayHold`); that a
  receipt read from disk is still in memory (`IsPast`), as it is written once;
  that only the sender's message makes the idle peer's `answered` true
  (`Hearing`); and that a turn the driver has judged answered was (`RanIsTrue`).
- `Outcome`: what a run that returns has deleted and closed, and that the verdicts
  are those of the two claims.

A release that raises may leave the sender running without the peers it was made
with, so `Scene` and `MayHold` speak of memory and disk only until `_run` is left;
what was read of them before (`evidence`) they hold of for good.

**The four other certifications.** For every bound on the sends a bus carries and
every limit of the counter above 2 (`HarnessAssumption`, `OwnBooksAssumption`), all
thirteen invariants of the run. Two of them are about all four claims:

- `CertificationsTyped`: `Spec => []TypeOK`. A message goes to whatever session the
  client is attached to, so the types need to know which one that is: `TypeInv`
  adds it for each claim and each place of its program (`LoopAttached`, ...).
- `CleansUp`: the invariant `ReturnCleansUp`. At each place of a program it is
  known which sessions can exist, all of them among the handles the `finally` block
  goes through; a claim that ends in a verdict has gone through them.

The rest is one invariant per claim. Each is a conjunction of what the driver has
made at each place (`...Places`), of what a failure and an end leave behind
(`...Fails`, `...Ends`), of the parts below, and of the verdicts. `OwnVerdicts` keeps
the claims apart: no claim writes a verdict of another.

- C1, `LoopInv`: `SiblingCarried`, `BlockingReceiptCaught`, `SoundReceiptNotBlamed`.
  The partner takes no turn before a message has reached it, and only the
  initiator's does (`PartnerIsCalled`): the kickoff goes to the session created
  last, which is the initiator, and a relay raises. The turn that a PASS rests on
  is therefore the initiator's doing (`OnlyTheInitiatorCarried`). The rest is read
  from the log after the fact and is about the order of what is in it. Where the
  receipt does not wait it is logged before the turn it starts
  (`ReceiptIsFirst`); where it does, the initiator is held through the whole of
  the partner's first turn (`FirstTurnIsAwaited`), and the receipt comes after it
  (`ReceiptIsLast`). Both hold only of receipts of the initiator in a log that
  began before its call, hence the two exceptions in `BlockingReceiptIsCaught`. What the
  driver has found when it judges is `LoopSeen`.
- C2, `ApprovalInv`: `GrantCaught`, `ArmedWithOwn`, `RefusalNotBlamed`. The log of a
  probe holds a request only of that probe's own asker, and the grant, if it was
  given (`ProbeLog`): so the last request in it, which is all the driver can
  ask for, is the right one (`ArmedWithOwnRequest`). Without the reversion nobody
  grants (`NobodyGrants`); with it, a grant in the window is among the failures, as itself
  or as a resolution without a `granted` flag (`GrantIsReported`).
- C3, `BooksInv`: `HoleWitnessed`, `BooksNotBlamed`. As long as no turn is over,
  no sibling has sent twice (`SendsAreCounted`), hence there are at most two sends;
  a counter that has tripped at a limit above 2 has therefore seen a turn end
  (`VolleyIsOver`), and a pool that pays for turns has been charged since the first
  snapshot (`Bookkeeping`).
- C5, `RosterInv`: `NameReversionsCaught`, `ReaderGoneAtVerdict`,
  `StaleBreachNotBlamed`. What was refused or let through is known by the place in
  the program: under a framework that lets a bad name through the name check is held
  only because some call raised (`HeldByAccident`); the roster that is judged is
  one that was listed (`RosterIsTrue`); a breach file that is there once the old
  one has been cleared was written by the reader (`BreachIsFresh`).

**Only model-checked.** Liveness (`ProgramEnds`, `RequestsAreAnswered`, `ClaimEnds`,
`SuiteEnds`): TLAPS handles neither `ENABLED` nor weak fairness here. The
violations are runs of TLC. Every invariant and every refinement that a passing
run checks is also a theorem.

## What the properties leave out, on purpose

Some promises of the code are narrower than they read, and the properties say so:

- A claim that is *blocked* cleans up only in C3 and C5, where the handles are
  bound before the `try` block; C1 and C2 create or connect before it. Even there a
  sibling whose creation was not answered in time may stay, as no handle names it.
  A claim whose connection is lost in the middle of a release leaves the rest
  loaded, and one whose `disconnect` raises leaves what it had not closed.
  What C5a creates to try the names is never deleted.
- The leash of C1 is on the object `leashed`: a driver written to relay through the
  `client` it wraps would not raise. The source has no such line.
- `BlockingReceiptIsCaught` has two exceptions, both real: the partner's own
  `send_to_sibling` is on the same bus and satisfies the ordering check, and the
  observer may subscribe after the initiator's call.
- C2 passes on a receipt `no_such_sibling`, an attack that reached nobody: any
  receipt but `refused` counts as delivered. It calls a scenario that did not come
  about FAIL, while saying of it that it "says nothing about the claim".
- C3b passes a driver that only counts, which `REVERT_B` says must "hang to its
  timeout and fail".
- C5a counts any exception of `create_session` as a refusal of the name. When only
  its own gate is closed it is reported as a FAIL that was not run.
- A guard that fails its own reversion is printed; the exit code does not know.
- Of a certification whose two gates disagree, because the world moved between
  the two probes, the half with the open gate is in no report.
- `MainlineIsCertified` holds of a checkout that stays where it was: the check
  looks at HEAD, the verdict is stamped with the pin.

## What is not modelled

Texts of prompts and messages, printing, the rendering of a transcript and the
checks of source text: no behaviour depends on them but their success, which is
a choice. `_check_roster` of C5, which nothing calls. Profiles and schemas: data,
of which the completion outcomes are used; each schema under
`.jaato/completion_schemas` requires its outcome, and a completion is taken to obey
it, so no payload is empty. Real time: a timeout may happen
whenever its wait is not answered. The reversions of `selftest.py`: each calls a
guard once on a doctored input.

## Plan

The verdicts of C1, C2, C3 and C5 are stated as invariants. Worth adding is what
they have in common, as an abstract specification of a claim: it sets a scene,
lets the siblings act, judges once and takes the scene down, and is blocked if it
could not set it. `Suite` assumes no more of a live part than that.
