--------------------------- MODULE ChapterCascade ---------------------------
(***************************************************************************)
(* The driver of examples/chapter_cascade.py, run over the sessions of     *)
(* module Siblings.  The driver is one coroutine: between two of its awaits *)
(* the sessions take any number of steps and the client's reader delivers  *)
(* completion events to whatever callback is subscribed.  pc names the     *)
(* await the driver is about to make or is in.                             *)
(***************************************************************************)
EXTENDS Siblings

VARIABLES
  pc,         \* where the driver is
  attempt,    \* the loop variable of the review phase
  sub,        \* the session a subscribed callback accepts events of
  future,     \* what that callback has set
  written,    \* the writer's payload the driver acts on
  verdict,    \* the reviewer's payload of this attempt
  exit,       \* what the program will return
  connected,  \* is the client connected?
  transcript  \* what was rendered: the turns on disk, per session

driverVars == <<pc, attempt, sub, future, written, verdict, exit, connected,
                transcript>>
vars == <<sessionVars, driverVars>>

NoPayload == [by |-> NoSession, outcome |-> "none"]
NoTranscript == [s \in Session |-> 0]
Payload == Completion \cup {NoPayload}

Setup == {"connect", "probe", "refuse", "declare"}
Writing == {"startCoder", "briefCoder", "startWriter", "briefWriter",
            "subscribeWriter", "awaitWriter"}
Stopping == {"attachCoder", "attachWriter", "settle"}
Reviewing == {"startReviewer", "sendReview", "subscribeVerdict",
              "awaitVerdict", "showBudget", "feedback"}
Revising == {"subscribeRevision", "awaitRevision"}
Closing == {"finally", "disconnect", "done"}
Pc == Setup \cup Writing \cup Stopping \cup Reviewing \cup Revising \cup Closing

Exit == {"none", "accepted", "failed", "refused", "unaccepted", "raised"}

DriverTypeOK ==
  /\ pc \in Pc
  /\ attempt \in 0..MaxRevisions
  /\ sub \in Session \cup {NoSession}
  /\ future \in Payload
  /\ written \in Payload
  /\ verdict \in Payload
  /\ exit \in Exit
  /\ connected \in BOOLEAN
  /\ transcript \in [Session -> Nat]

\* The type invariant of the driver (chapter_cascade.py) and of the sessions
\* it runs.
TypeOK == SessionsTypeOK /\ DriverTypeOK

Init ==
  /\ SessionsInit
  /\ pc = "connect"
  /\ attempt = 0
  /\ sub = NoSession
  /\ future = NoPayload
  /\ written = NoPayload
  /\ verdict = NoPayload
  /\ exit = "none"
  /\ connected = FALSE
  /\ transcript = NoTranscript

-----------------------------------------------------------------------------
(***************************************************************************)
(* Steps of the driver, one per await.                                     *)
(***************************************************************************)

Goto(from, to) == pc = from /\ pc' = to

\* Return (or raise) with the given result from inside the try block.
Leave(from, result) ==
  /\ Goto(from, "finally")
  /\ exit' = result

awaitVars == <<attempt, sub, future, written, verdict>>
endVars == <<exit, connected, transcript>>

Connect ==
  /\ pc = "connect"
  /\ \/ pc' = "probe" /\ connected' = TRUE /\ UNCHANGED exit
     \/ pc' = "done" /\ exit' = "failed" /\ UNCHANGED connected
  /\ UNCHANGED <<sessionVars, awaitVars, transcript>>

\* tool_available: without send_to_sibling the example refuses to run.
ProbeTool ==
  /\ \/ Goto("probe", "declare") \/ Goto("probe", "refuse")
  /\ UNCHANGED <<sessionVars, awaitVars, endVars>>

\* Returning without closing the connection.
RefuseConnected ==
  /\ Goto("refuse", "done")
  /\ exit' = "refused"
  /\ UNCHANGED <<sessionVars, awaitVars, connected, transcript>>

Refuse ==
  /\ Goto("refuse", "done")
  /\ connected' = FALSE
  /\ exit' = "refused"
  /\ UNCHANGED <<sessionVars, awaitVars, transcript>>

\* The ceiling is never declared.
SkipBudget ==
  /\ Goto("declare", "startCoder")
  /\ UNCHANGED <<sessionVars, awaitVars, endVars>>

DeclareBudget ==
  /\ Goto("declare", "startCoder")
  /\ declared' = TRUE
  /\ UNCHANGED <<status, inbox, work, turns, saved, current, unloading,
                 leftBusy, pool, completed, wire, snippetVars, awaitVars,
                 endVars>>

\* start_session: creates and attaches.
StartSession(s) ==
  /\ CreateSession(s)
  /\ UNCHANGED <<snippetVars, awaitVars, endVars>>

StartCoder == Goto("startCoder", "briefCoder") /\ StartSession(Coder)
StartWriter == Goto("startWriter", "briefWriter") /\ StartSession(Writer)
StartReviewer ==
  Goto("startReviewer", "sendReview") /\ StartSession(Reviewer(attempt))

\* create_session answers None: refused for budget, or no answer in time, in
\* which case the session may exist all the same.  start_session raises.
StartFails ==
  /\ \E p \in {"startCoder", "startWriter", "startReviewer"} : Leave(p, "raised")
  /\ \/ UNCHANGED sessionVars
     \/ /\ CreateSession(CASE pc = "startCoder" -> Coder
                           [] pc = "startWriter" -> Writer
                           [] OTHER -> Reviewer(attempt))
        /\ UNCHANGED snippetVars
  /\ UNCHANGED <<awaitVars, connected, transcript>>

Send(from, to, m) ==
  /\ Goto(from, to)
  /\ SendMessage(m)
  /\ UNCHANGED <<snippetVars, endVars>>

BriefCoder == Send("briefCoder", "startWriter", Brief) /\ UNCHANGED awaitVars
BriefWriter ==
  Send("briefWriter", "subscribeWriter", Brief) /\ UNCHANGED awaitVars
SendReview ==
  Send("sendReview", "subscribeVerdict", Review) /\ UNCHANGED awaitVars

\* The reasons are sent and the loop goes round.
SendFeedback ==
  /\ Send("feedback", "startReviewer", Feedback)
  /\ attempt' = attempt + 1
  /\ verdict' = NoPayload
  /\ UNCHANGED <<sub, future, written>>

\* await_completion: from here on, and not before, an event is noticed.
Subscribe(from, to, s) ==
  /\ Goto(from, to)
  /\ sub' = s
  /\ future' = NoPayload
  /\ UNCHANGED <<sessionVars, attempt, written, verdict, endVars>>

SubscribeWriter == Subscribe("subscribeWriter", "awaitWriter", Writer)
SubscribeVerdict ==
  Subscribe("subscribeVerdict", "awaitVerdict", Reviewer(attempt))
SubscribeRevision == Subscribe("subscribeRevision", "awaitRevision", Writer)

\* What a callback that took the first completion to arrive would do.
AcceptsAny(ev) ==
  /\ sub # NoSession
  /\ future = NoPayload

\* The callback of await_completion: events of other sessions, and all after
\* the first, are passed over.
Accepts(ev) ==
  /\ sub = ev.by
  /\ future = NoPayload

\* The client's reader hands the next event to the callback, if any.
Dispatch ==
  /\ connected
  /\ wire # <<>>
  /\ wire' = Tail(wire)
  /\ future' = IF Accepts(Head(wire)) THEN Head(wire) ELSE future
  /\ UNCHANGED <<status, inbox, work, turns, saved, current, unloading,
                 leftBusy, declared, pool, completed, snippetVars>>
  /\ UNCHANGED <<pc, attempt, sub, written, verdict, endVars>>

\* wait_for returns: with the payload, or with None after the timeout, and
\* unsubscribes either way.
Heard == future # NoPayload /\ sub' = NoSession /\ future' = NoPayload
TimedOut == future = NoPayload /\ sub' = NoSession /\ UNCHANGED future

WriterReports ==
  /\ Goto("awaitWriter", "attachCoder")
  /\ Heard
  /\ written' = future
  /\ UNCHANGED <<sessionVars, attempt, verdict, endVars>>

\* A wait without its timeout.
NeverTimesOut == FALSE

WriterTimesOut ==
  /\ Leave("awaitWriter", "failed")
  /\ TimedOut
  /\ UNCHANGED <<sessionVars, attempt, written, verdict, connected, transcript>>

\* The coder is unloaded by becoming current and then being left.
\* Attaching straight to the writer, which is already current.
SkipCoder ==
  /\ Goto("attachCoder", "attachWriter")
  /\ Attach(Writer)
  /\ UNCHANGED <<snippetVars, awaitVars, endVars>>

AttachCoder ==
  /\ Goto("attachCoder", "attachWriter")
  /\ Attach(Coder)
  /\ UNCHANGED <<snippetVars, awaitVars, endVars>>

AttachWriter ==
  /\ Goto("attachWriter", "settle")
  /\ Attach(Writer)
  /\ UNCHANGED <<snippetVars, awaitVars, endVars>>

\* sleep(12): taken to be long enough for the deferred unload.
Settle ==
  /\ Goto("settle", "startReviewer")
  /\ unloading = {}
  /\ UNCHANGED <<sessionVars, awaitVars, endVars>>

\* One round too many, one too few.
OneRoundMore == attempt = MaxRevisions + 1
OneRoundLess == attempt + 1 = MaxRevisions

LastRound == attempt = MaxRevisions

VerdictArrives ==
  /\ Heard
  /\ verdict' = future
  /\ \/ /\ future.outcome = "accept"
        /\ Leave("awaitVerdict", "accepted")
     \/ /\ future.outcome # "accept"
        /\ LastRound
        /\ Goto("awaitVerdict", "subscribeRevision")
        /\ UNCHANGED exit
     \/ /\ future.outcome # "accept"
        /\ ~LastRound
        /\ Goto("awaitVerdict", "feedback")
        /\ UNCHANGED exit
  /\ UNCHANGED <<sessionVars, attempt, written, connected, transcript>>

\* A reviewer that stays silent is taken to have asked for changes.
SilenceIsRevise ==
  /\ ~LastRound
  /\ Goto("awaitVerdict", "feedback")
  /\ TimedOut
  /\ UNCHANGED <<sessionVars, attempt, written, verdict, endVars>>

VerdictTimesOut ==
  /\ Goto("awaitVerdict", "showBudget")
  /\ TimedOut
  /\ UNCHANGED <<sessionVars, attempt, written, verdict, endVars>>

\* cascade_budget_get, a pause, and the run has failed.
ShowBudget ==
  /\ Leave("showBudget", "failed")
  /\ UNCHANGED <<sessionVars, awaitVars, connected, transcript>>

\* The wait for a revision stands after the loop: `... or written`.
RevisionWaitEnds ==
  /\ Leave("awaitRevision", "unaccepted")
  /\ \/ Heard /\ written' = future
     \/ TimedOut /\ UNCHANGED written
  /\ UNCHANGED <<sessionVars, attempt, verdict, connected, transcript>>

\* Any call to the daemon raises when the connection is gone.
RpcPoints == {"briefCoder", "briefWriter", "attachCoder", "attachWriter",
              "sendReview", "feedback", "showBudget"}

CallRaises ==
  \/ /\ \E p \in RpcPoints : Leave(p, "raised")
     /\ UNCHANGED <<sessionVars, awaitVars, connected, transcript>>
  \/ /\ Goto("declare", "done")
     /\ exit' = "raised"
     /\ UNCHANGED <<sessionVars, awaitVars, connected, transcript>>

\* The finally block.  render reads the transcripts on disk; an OSError is
\* caught, anything else leaves the block before the client disconnects.
WriteTranscript ==
  /\ \/ /\ Goto("finally", "disconnect")
        /\ transcript' \in {saved, NoTranscript}
        /\ UNCHANGED exit
     \/ /\ Goto("finally", "done")
        /\ exit' = "raised"
        /\ UNCHANGED transcript
  /\ UNCHANGED <<sessionVars, awaitVars, connected>>

Disconnect ==
  /\ Goto("disconnect", "done")
  /\ connected' = FALSE
  /\ UNCHANGED <<sessionVars, awaitVars, exit, transcript>>

SetupStep == Connect \/ ProbeTool \/ Refuse \/ DeclareBudget

WriteStep ==
  \/ StartCoder \/ BriefCoder \/ StartWriter \/ BriefWriter
  \/ SubscribeWriter \/ WriterReports \/ WriterTimesOut

StopStep == AttachCoder \/ AttachWriter \/ Settle

ReviewStep ==
  \/ StartReviewer \/ SendReview \/ SubscribeVerdict \/ VerdictArrives
  \/ VerdictTimesOut \/ ShowBudget \/ SendFeedback
  \/ SubscribeRevision \/ RevisionWaitEnds

CloseStep == StartFails \/ CallRaises \/ WriteTranscript \/ Disconnect

DriverStep == SetupStep \/ WriteStep \/ StopStep \/ ReviewStep \/ CloseStep

\* The program has returned; sessions it left loaded may still be working.
Finished == pc = "done" /\ UNCHANGED vars

Next ==
  \/ DriverStep
  \/ Dispatch
  \/ SessionStep /\ UNCHANGED driverVars
  \/ Finished

Spec == Init /\ [][Next]_vars

\* The driver takes its steps, timeouts included, and the daemon unloads what
\* was left: asyncio runs a ready coroutine, wait_for's timer fires and the
\* unload has a thread of its own.  Nothing is asked of the sessions.
DriverFairness ==
  /\ WF_vars(DriverStep)
  /\ WF_vars(UnloadStep /\ UNCHANGED driverVars)

\* A turn that has started goes on: the models behind the coder and the
\* writer keep producing steps.  Nothing is asked of the driver.
TurnFairness ==
  /\ WF_vars(WriterStep /\ UNCHANGED driverVars)
  /\ WF_vars(CoderStep /\ UNCHANGED driverVars)

FairSpec == Spec /\ DriverFairness /\ TurnFairness

-----------------------------------------------------------------------------
(***************************************************************************)
(* Properties that hold.                                                   *)
(***************************************************************************)

Signalled(s) == {completed[s][k] : k \in 1..Len(completed[s])}

Exists(s) == status[s] # "absent"

\* What the driver acts on came from the session it was waiting for, even
\* with other completions under way: `written` from the writer, `verdict`
\* from the reviewer of this very attempt (await_completion's session_id).
PayloadsAreAttributed ==
  /\ written # NoPayload => /\ written.by = Writer
                            /\ written.outcome \in Signalled(Writer)
  /\ verdict # NoPayload =>
       /\ verdict.by = Reviewer(attempt)
       /\ verdict.outcome \in Signalled(Reviewer(attempt))

\* The return value is earned: 0 only when the reviewer of the last round
\* started has accepted, 2 after the review phase only when the reviewer of
\* every round has asked for changes.
ExitIsEarned ==
  /\ exit = "accepted" => "accept" \in Signalled(Reviewer(attempt))
  /\ exit = "unaccepted" =>
       \A i \in 0..MaxRevisions : "revise" \in Signalled(Reviewer(i))

\* Reviewers are started one at a time: the first once the writer has
\* completed, the next only once the one before it has asked for changes.
ReviewersInOrder ==
  \A i \in 0..MaxRevisions : Exists(Reviewer(i)) =>
    IF i = 0 THEN Signalled(Writer) # {}
             ELSE "revise" \in Signalled(Reviewer(i - 1))

\* No session exists before the ceiling that has to cover it is declared.
SessionsAreCovered == \A s \in Session : Exists(s) => declared

\* Nothing is queued for a session that sits idle: what arrives during a turn
\* starts the next one, so a waiting writer is woken by every reply.
NothingStrands == \A s \in Session : status[s] = "idle" => inbox[s] = {}

\* A snippet the writer has asked for is still under way, with the coder or
\* in a reply, until the writer includes it or ends its session.
SnippetsAreUnderWay ==
  \A sn \in asked \ included :
    \/ sn \notin replied /\ Request(sn) \in inbox[Coder] \cup work[Coder]
    \/ sn \in replied /\ Reply(sn) \in inbox[Writer] \cup work[Writer]
    \/ Signalled(Writer) # {}

\* A chapter reported ready is reviewed with every snippet it includes on
\* disk (the reviewer's first bar).
ReviewedSnippetsExist ==
  \A r \in Reviewers :
    Exists(r) /\ written.outcome = "ready_for_review" => made = Snippets

\* A coder that was not mid-turn when the driver ended the write phase is
\* unloaded, with all it did on disk, before the review begins and stays so.
StoppedCoderIsOnDisk ==
  pc \in Reviewing \cup Revising /\ Coder \notin leftBusy =>
    status[Coder] = "cold" /\ saved[Coder] = turns[Coder]

\* A run that returns has closed its connection; only one that ends by an
\* exception may have left it open.
ReturnDisconnects == pc = "done" /\ connected => exit = "raised"

\* The program ends, whatever the sessions do or fail to do.
ProgramEnds == <>(pc = "done")

\* Every snippet asked for is included in the end, unless the writer ends its
\* session first: neither sibling waits inside a turn for the other.
RequestsAreAnswered ==
  \A sn \in Snippets :
    sn \in asked ~> sn \in included \/ Signalled(Writer) # {}

\* The phase a place in the program belongs to, and what reviewers have said.
PhaseOf(p) ==
  CASE p \in Setup -> "setup"
    [] p \in Writing -> "writing"
    [] p \in Stopping \cup Reviewing \cup Revising -> "reviewing"
    [] p \in Closing -> "over"

Opinions == [i \in 0..MaxRevisions |-> Signalled(Reviewer(i))]

Phases == INSTANCE CascadePhases WITH
  phase <- PhaseOf(pc), round <- attempt, result <- exit,
  drafts <- Signalled(Writer), opinions <- Opinions

\* Every step of the driver and its sessions is a step of CascadePhases: each
\* decision rests on what the participant of that phase said.
ImplementsPhases == Phases!Spec

-----------------------------------------------------------------------------
(***************************************************************************)
(* What the documents say and the driver does not do.                      *)
(***************************************************************************)

\* "the reviewer's reasons go back to the writer" (chapter_cascade.py).
FeedbackReachesWriter ==
  \A s \in Session \ {Writer} : Feedback \notin inbox[s] \cup work[s]

\* "accepts or sends one round of revisions back" (README.md): a second
\* review is a review of a chapter the writer has reported again.
ReviewFollowsRevision ==
  \A i \in 0..MaxRevisions :
    Exists(Reviewer(i)) => Len(completed[Writer]) > i

\* "When the writer signals `ready_for_review`, the driver stops the coder
\* and runs the reviewer" (README.md).
ReviewOnlyWhenReady ==
  \A r \in Reviewers : Exists(r) => "ready_for_review" \in Signalled(Writer)

\* "drafted by two other sessions working together; both have now stopped"
\* (reviewer.md), "coder: stopped by the driver" (chapter_cascade.py).
CoderStoppedBeforeReview ==
  \A r \in Reviewers : status[r] = "running" => status[Coder] # "running"
=============================================================================
