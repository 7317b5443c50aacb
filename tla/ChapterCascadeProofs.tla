------------------------ MODULE ChapterCascadeProofs ------------------------
(***************************************************************************)
(* Theorems about ChapterCascade, for every set of snippets, number of     *)
(* review rounds and ceiling: its types, what the driver returns, and that *)
(* it implements CascadePhases.                                            *)
(***************************************************************************)
EXTENDS ChapterCascade, TLAPS

-----------------------------------------------------------------------------
(***************************************************************************)
(* Sessions and messages.                                                  *)
(***************************************************************************)

\* The sessions of a cascade, and that they are different sessions.
LEMMA SessionFacts ==
  /\ Coder \in Session /\ Writer \in Session
  /\ \A i \in 0..MaxRevisions : Reviewer(i) \in Session
  /\ NoSession \notin Session
  /\ \A i \in 0..MaxRevisions : Reviewer(i) # Writer /\ Reviewer(i) # Coder
  /\ \A i, j \in 0..MaxRevisions : Reviewer(i) = Reviewer(j) => i = j
  /\ Coder # Writer
BY DEF Coder, Writer, Reviewer, Reviewers, Session, NoSession

LEMMA MessageFacts ==
  /\ Brief \in Message /\ Review \in Message /\ Feedback \in Message
  /\ \A sn \in Snippets : Request(sn) \in Message /\ Reply(sn) \in Message
BY DEF Message

-----------------------------------------------------------------------------
(***************************************************************************)
(* Type correctness: one lemma per operation of the daemon.                *)
(***************************************************************************)

LEMMA StartTurnType ==
  ASSUME DaemonTypeOK, NEW s \in Session, NEW ms \in SUBSET Message,
         StartTurn(s, ms),
         UNCHANGED <<current, unloading, leftBusy, completed, wire>>
  PROVE  DaemonTypeOK'
BY DEF DaemonTypeOK, StartTurn, Spend

LEMMA DeliverType ==
  ASSUME DaemonTypeOK, NEW s \in Session, NEW m \in Message, Deliver(s, m)
  PROVE  DaemonTypeOK'
<1>1. CASE Accepted(s, m)
  BY <1>1, StartTurnType DEF Deliver, Accepted, DaemonTypeOK
<1>2. CASE Queued(s, m)
  BY <1>2 DEF Deliver, Queued, DaemonTypeOK
<1>3. QED
  BY <1>1, <1>2 DEF Deliver

LEMMA EndTurnType ==
  ASSUME DaemonTypeOK, NEW s \in Session, EndTurn(s)
  PROVE  DaemonTypeOK'
<1>1. CASE inbox[s] # {} /\ StartTurn(s, inbox[s])
  BY <1>1, StartTurnType DEF EndTurn, DaemonTypeOK
<1>2. CASE inbox[s] = {}
  BY <1>2 DEF EndTurn, DaemonTypeOK
<1>3. QED
  BY <1>1, <1>2 DEF EndTurn

LEMMA SignalCompletionType ==
  ASSUME DaemonTypeOK, NEW s \in Session, NEW o \in Outcome,
         SignalCompletion(s, o)
  PROVE  DaemonTypeOK'
<1>1. [by |-> s, outcome |-> o] \in Completion
  BY DEF Completion
<1>2. wire' \in Seq(Completion)
  BY <1>1 DEF SignalCompletion, DaemonTypeOK
<1>3. completed' \in [Session -> Seq(Outcome)]
  BY DEF SignalCompletion, DaemonTypeOK
<1>4. QED
  BY <1>2, <1>3 DEF SignalCompletion, DaemonTypeOK

LEMMA CreateSessionType ==
  ASSUME DaemonTypeOK, NEW s \in Session, CreateSession(s)
  PROVE  DaemonTypeOK'
BY DEF CreateSession, DaemonTypeOK

LEMMA AttachType ==
  ASSUME DaemonTypeOK, NEW s \in Session, Attach(s),
         current \in Session
  PROVE  DaemonTypeOK'
BY DEF Attach, DaemonTypeOK

LEMMA UnloadType ==
  ASSUME DaemonTypeOK, NEW s \in Session, Unload(s)
  PROVE  DaemonTypeOK'
BY DEF Unload, DaemonTypeOK, snippetVars

LEMMA SendMessageType ==
  ASSUME DaemonTypeOK, current \in Session, NEW m \in Message, SendMessage(m)
  PROVE  DaemonTypeOK'
<1>1. CASE Deliver(current, m)
  BY <1>1, DeliverType
<1>2. CASE Resumed(current, m)
  BY <1>2, StartTurnType DEF Resumed, DaemonTypeOK
<1>3. QED
  BY <1>1, <1>2 DEF SendMessage

\* The client is attached to a session once the first one is created.
ClientIsAttached ==
  current = NoSession => pc \in Setup \cup Closing \cup {"startCoder"}

\* Feedback is sent only while a round is left.
FeedbackHasARound == pc = "feedback" => attempt < MaxRevisions

TypeInv == TypeOK /\ ClientIsAttached /\ FeedbackHasARound

\* Steps of the sessions keep the types, and leave the client attached.
LEMMA SessionStepType ==
  ASSUME TypeInv, SessionStep, UNCHANGED driverVars
  PROVE  TypeInv'
<1> USE DEF TypeInv, TypeOK, SessionsTypeOK
<1>1. DriverTypeOK'
  BY DEF DriverTypeOK, driverVars
<1>2. current' = current /\ SessionsTypeOK'
  <2>1. CASE \E sn \in Snippets : WriterAsks(sn)
    <3>1. PICK sn \in Snippets : WriterAsks(sn)
      BY <2>1
    <3>2. DaemonTypeOK'
      BY <3>1, DeliverType, SessionFacts, MessageFacts DEF WriterAsks
    <3>3. QED
      BY <3>1, <3>2 DEF WriterAsks, Deliver, SnippetsTypeOK
  <2>2. CASE \E sn \in Snippets : WriterIncludes(sn)
    BY <2>2 DEF WriterIncludes, daemonVars, DaemonTypeOK, SnippetsTypeOK
  <2>3. CASE WriterWaits
    BY <2>3, EndTurnType, SessionFacts
    DEF WriterWaits, EndTurn, snippetVars, SnippetsTypeOK
  <2>4. CASE WriterIsReady
    <3>1. DaemonTypeOK'
      BY <2>4, SignalCompletionType, SessionFacts DEF WriterIsReady, Outcome
    <3>2. QED
      BY <2>4, <3>1
      DEF WriterIsReady, SignalCompletion, snippetVars, SnippetsTypeOK
  <2>5. CASE WriterIsBlocked
    <3>1. DaemonTypeOK'
      BY <2>5, SignalCompletionType, SessionFacts DEF WriterIsBlocked, Outcome
    <3>2. QED
      BY <2>5, <3>1
      DEF WriterIsBlocked, SignalCompletion, snippetVars, SnippetsTypeOK
  <2>6. CASE \E sn \in Snippets : CoderWrites(sn)
    BY <2>6 DEF CoderWrites, daemonVars, DaemonTypeOK, SnippetsTypeOK
  <2>7. CASE \E sn \in Snippets : CoderReplies(sn)
    <3>1. PICK sn \in Snippets : CoderReplies(sn)
      BY <2>7
    <3>2. DaemonTypeOK'
      BY <3>1, DeliverType, SessionFacts, MessageFacts DEF CoderReplies
    <3>3. QED
      BY <3>1, <3>2 DEF CoderReplies, Deliver, SnippetsTypeOK
  <2>8. CASE CoderStandsBy
    BY <2>8, EndTurnType, SessionFacts
    DEF CoderStandsBy, EndTurn, snippetVars, SnippetsTypeOK
  <2>9. CASE \E r \in Reviewers : ReviewerJudges(r)
    <3>1. PICK r \in Reviewers, v \in {"accept", "revise"} :
            SignalCompletion(r, v) /\ UNCHANGED snippetVars
      BY <2>9 DEF ReviewerJudges
    <3>2. DaemonTypeOK'
      BY <3>1, SignalCompletionType DEF Session, Outcome
    <3>3. QED
      BY <3>1, <3>2 DEF SignalCompletion, snippetVars, SnippetsTypeOK
  <2>10. CASE \E r \in Reviewers : ReviewerIsSilent(r)
    <3>1. PICK r \in Reviewers : ReviewerIsSilent(r)
      BY <2>10
    <3>2. r \in Session /\ EndTurn(r)
      BY <3>1 DEF ReviewerIsSilent, Session
    <3>3. QED
      BY <3>1, <3>2, EndTurnType
      DEF ReviewerIsSilent, EndTurn, snippetVars, SnippetsTypeOK
  <2>11. CASE UnloadStep
    <3>1. PICK s \in Session : Unload(s)
      BY <2>11 DEF UnloadStep
    <3>2. QED
      BY <3>1, UnloadType DEF Unload, snippetVars, SnippetsTypeOK
  <2>12. QED
    BY <2>1, <2>2, <2>3, <2>4, <2>5, <2>6, <2>7, <2>8, <2>9, <2>10, <2>11
    DEF SessionStep, WriterStep, CoderStep, ReviewerStep
<1>3. QED
  BY <1>1, <1>2 DEF ClientIsAttached, FeedbackHasARound, driverVars

LEMMA StartType ==
  ASSUME TypeInv, NEW s \in Session, CreateSession(s), UNCHANGED snippetVars
  PROVE  SessionsTypeOK' /\ current' \in Session
BY CreateSessionType
DEF TypeInv, TypeOK, SessionsTypeOK, SnippetsTypeOK, snippetVars, CreateSession

LEMMA SendType ==
  ASSUME TypeInv, NEW m \in Message, SendMessage(m), UNCHANGED snippetVars,
         current # NoSession
  PROVE  SessionsTypeOK' /\ current' = current
<1>1. DaemonTypeOK'
  BY SendMessageType DEF TypeInv, TypeOK, SessionsTypeOK, DaemonTypeOK
<1>2. current' = current
  BY DEF SendMessage, Deliver, Resumed
<1>3. QED
  BY <1>1, <1>2
  DEF TypeInv, TypeOK, SessionsTypeOK, SnippetsTypeOK, snippetVars

LEMMA SetupStepType ==
  ASSUME TypeInv, SetupStep
  PROVE  TypeInv'
<1> USE DEF TypeInv, TypeOK, DriverTypeOK, SessionsTypeOK, DaemonTypeOK,
            SnippetsTypeOK, ClientIsAttached, FeedbackHasARound, Pc, Setup,
            Writing, Closing, Exit,
            Goto, awaitVars, endVars, snippetVars, daemonVars, sessionVars
<1>1. CASE Connect
  BY <1>1 DEF Connect
<1>2. CASE ProbeTool
  BY <1>2 DEF ProbeTool
<1>3. CASE Refuse
  BY <1>3 DEF Refuse
<1>4. CASE DeclareBudget
  BY <1>4 DEF DeclareBudget
<1>5. QED
  BY <1>1, <1>2, <1>3, <1>4 DEF SetupStep

LEMMA WriteStepType ==
  ASSUME TypeInv, WriteStep
  PROVE  TypeInv'
<1> USE DEF TypeInv, TypeOK, DriverTypeOK, ClientIsAttached, FeedbackHasARound, Pc, Setup, Writing,
            Stopping, Closing, Exit, Goto, Leave, awaitVars, endVars
<1>1. CASE StartCoder
  BY <1>1, StartType, SessionFacts DEF StartCoder, StartSession
<1>2. CASE BriefCoder
  BY <1>2, SendType, MessageFacts DEF BriefCoder, Send
<1>3. CASE StartWriter
  BY <1>3, StartType, SessionFacts DEF StartWriter, StartSession
<1>4. CASE BriefWriter
  BY <1>4, SendType, MessageFacts DEF BriefWriter, Send
<1> USE DEF SessionsTypeOK, DaemonTypeOK, SnippetsTypeOK, snippetVars,
            daemonVars, sessionVars
<1>5. CASE SubscribeWriter
  BY <1>5, SessionFacts DEF SubscribeWriter, Subscribe, Payload
<1>6. CASE WriterReports
  BY <1>6 DEF WriterReports, Heard, Payload
<1>7. CASE WriterTimesOut
  BY <1>7 DEF WriterTimesOut, TimedOut
<1>8. QED
  BY <1>1, <1>2, <1>3, <1>4, <1>5, <1>6, <1>7 DEF WriteStep

LEMMA StopStepType ==
  ASSUME TypeInv, StopStep
  PROVE  TypeInv'
<1> USE DEF TypeInv, TypeOK, DriverTypeOK, ClientIsAttached, FeedbackHasARound, Pc, Setup,
            Stopping, Reviewing, Closing, Goto, awaitVars, endVars,
            SessionsTypeOK, SnippetsTypeOK, snippetVars
<1>1. CASE AttachCoder
  <2>1. DaemonTypeOK'
    BY <1>1, AttachType, SessionFacts DEF AttachCoder, DaemonTypeOK
  <2>2. current' \in Session
    BY <1>1, SessionFacts DEF AttachCoder, Attach
  <2>3. QED
    BY <1>1, <2>1, <2>2, SessionFacts DEF AttachCoder
<1>2. CASE AttachWriter
  <2>1. DaemonTypeOK'
    BY <1>2, AttachType, SessionFacts DEF AttachWriter, DaemonTypeOK
  <2>2. current' \in Session
    BY <1>2, SessionFacts DEF AttachWriter, Attach
  <2>3. QED
    BY <1>2, <2>1, <2>2, SessionFacts DEF AttachWriter
<1>3. CASE Settle
  BY <1>3 DEF Settle, DaemonTypeOK, daemonVars, sessionVars
<1>4. QED
  BY <1>1, <1>2, <1>3 DEF StopStep

LEMMA ReviewStepType ==
  ASSUME TypeInv, ReviewStep
  PROVE  TypeInv'
<1> USE RevisionsAssumption
    DEF TypeInv, TypeOK, DriverTypeOK, ClientIsAttached, FeedbackHasARound, Pc, Setup, Writing,
        Reviewing, Revising, Closing, Exit, Goto, Leave, awaitVars, endVars
<1>1. CASE StartReviewer
  BY <1>1, StartType, SessionFacts DEF StartReviewer, StartSession
<1>2. CASE SendReview
  BY <1>2, SendType, MessageFacts DEF SendReview, Send
<1>3. CASE SendFeedback
  BY <1>3, SendType, MessageFacts DEF SendFeedback, Send, Payload
<1> USE DEF SessionsTypeOK, DaemonTypeOK, SnippetsTypeOK, snippetVars,
            daemonVars, sessionVars
<1>4. CASE SubscribeVerdict
  BY <1>4, SessionFacts DEF SubscribeVerdict, Subscribe, Payload
<1>5. CASE VerdictArrives
  BY <1>5 DEF VerdictArrives, LastRound, Heard, Payload
<1>6. CASE VerdictTimesOut
  BY <1>6 DEF VerdictTimesOut, TimedOut
<1>7. CASE ShowBudget
  BY <1>7 DEF ShowBudget
<1>8. CASE SubscribeRevision
  BY <1>8, SessionFacts DEF SubscribeRevision, Subscribe, Payload
<1>9. CASE RevisionWaitEnds
  BY <1>9 DEF RevisionWaitEnds, Heard, TimedOut, Payload
<1>10. QED
  BY <1>1, <1>2, <1>3, <1>4, <1>5, <1>6, <1>7, <1>8, <1>9 DEF ReviewStep

LEMMA CloseStepType ==
  ASSUME TypeInv, CloseStep
  PROVE  TypeInv'
<1> USE DEF TypeInv, TypeOK, DriverTypeOK, ClientIsAttached, FeedbackHasARound,
            Pc, Setup, Closing, Exit, Goto, Leave, awaitVars
<1>1. CASE StartFails
  <2>1. CASE UNCHANGED sessionVars
    BY <1>1, <2>1
    DEF StartFails, SessionsTypeOK, DaemonTypeOK, SnippetsTypeOK, sessionVars,
        daemonVars, snippetVars
  <2>2. CASE ~ UNCHANGED sessionVars
    <3>1. PICK s \in Session : CreateSession(s) /\ UNCHANGED snippetVars
      BY <1>1, <2>2, SessionFacts DEF StartFails
    <3>2. SessionsTypeOK' /\ current' \in Session
      BY <3>1, StartType
    <3>3. QED
      BY <1>1, <3>2 DEF StartFails
  <2>3. QED
    BY <2>1, <2>2
<1> USE DEF SessionsTypeOK, DaemonTypeOK, SnippetsTypeOK, sessionVars,
            daemonVars, snippetVars
<1>2. CASE CallRaises
  BY <1>2 DEF CallRaises
<1>3. CASE WriteTranscript
  <2>1. NoTranscript \in [Session -> Nat] /\ saved \in [Session -> Nat]
    BY DEF NoTranscript
  <2>2. transcript' \in [Session -> Nat]
    BY <1>3, <2>1 DEF WriteTranscript
  <2>3. QED
    BY <1>3, <2>2 DEF WriteTranscript
<1>4. CASE Disconnect
  BY <1>4 DEF Disconnect
<1>5. QED
  BY <1>1, <1>2, <1>3, <1>4 DEF CloseStep

LEMMA DispatchType ==
  ASSUME TypeInv, Dispatch
  PROVE  TypeInv'
<1>1. Head(wire) \in Completion /\ Tail(wire) \in Seq(Completion)
  BY DEF TypeInv, TypeOK, SessionsTypeOK, DaemonTypeOK, Dispatch
<1>2. SessionsTypeOK'
  BY <1>1
  DEF TypeInv, TypeOK, SessionsTypeOK, DaemonTypeOK, SnippetsTypeOK, Dispatch,
      snippetVars
<1>3. DriverTypeOK'
  BY <1>1 DEF TypeInv, TypeOK, DriverTypeOK, Payload, Dispatch, endVars
<1>4. QED
  BY <1>2, <1>3
  DEF TypeInv, TypeOK, ClientIsAttached, FeedbackHasARound, Dispatch

LEMMA InitType == Init => TypeInv
<1> SUFFICES ASSUME Init
             PROVE  TypeInv
  OBVIOUS
<1>1. DaemonTypeOK
  <2>1. inbox \in [Session -> SUBSET Message] /\ work \in [Session -> SUBSET Message]
    BY DEF Init, SessionsInit
  <2>2. completed \in [Session -> Seq(Outcome)] /\ wire \in Seq(Completion)
    BY DEF Init, SessionsInit
  <2>3. QED
    BY <2>1, <2>2, PoolAssumption DEF Init, SessionsInit, DaemonTypeOK
<1>2. SnippetsTypeOK
  BY DEF Init, SessionsInit, SnippetsTypeOK
<1>3. DriverTypeOK
  <2>1. NoTranscript \in [Session -> Nat]
    BY DEF NoTranscript
  <2>2. pc \in Pc /\ attempt \in 0..MaxRevisions /\ exit \in Exit
    BY RevisionsAssumption DEF Init, Pc, Setup, Exit
  <2>3. /\ sub \in Session \cup {NoSession}
        /\ future \in Payload /\ written \in Payload /\ verdict \in Payload
        /\ connected \in BOOLEAN
    BY DEF Init, Payload
  <2>4. QED
    BY <2>1, <2>2, <2>3 DEF Init, DriverTypeOK
<1>4. QED
  BY <1>1, <1>2, <1>3
  DEF Init, TypeInv, TypeOK, SessionsTypeOK, ClientIsAttached,
      FeedbackHasARound, Setup

LEMMA NextType == TypeInv /\ [Next]_vars => TypeInv'
<1> SUFFICES ASSUME TypeInv, [Next]_vars
             PROVE  TypeInv'
  OBVIOUS
<1>1. CASE DriverStep
  BY <1>1, SetupStepType, WriteStepType, StopStepType, ReviewStepType,
     CloseStepType DEF DriverStep
<1>2. CASE Dispatch
  BY <1>2, DispatchType
<1>3. CASE SessionStep /\ UNCHANGED driverVars
  BY <1>3, SessionStepType
<1>4. CASE UNCHANGED vars
  BY <1>4
  DEF vars, sessionVars, daemonVars, snippetVars, driverVars, TypeInv, TypeOK,
      SessionsTypeOK, DaemonTypeOK, SnippetsTypeOK, DriverTypeOK,
      ClientIsAttached, FeedbackHasARound
<1>5. QED
  BY <1>1, <1>2, <1>3, <1>4 DEF Next, Finished

\* Every variable of the cascade stays in its type, whatever the sessions do
\* and whichever call of the driver fails.
THEOREM TypeCorrect == Spec => []TypeOK
<1>1. Spec => []TypeInv
  BY InitType, NextType, PTL DEF Spec
<1>2. TypeInv => TypeOK
  BY DEF TypeInv
<1>3. QED
  BY <1>1, <1>2, PTL

-----------------------------------------------------------------------------
(***************************************************************************)
(* What the driver returns is what its sessions said.                      *)
(***************************************************************************)


\* Events on the wire tell what was signalled.
EventsAreTrue ==
  \A k \in 1..Len(wire) : wire[k].outcome \in Signalled(wire[k].by)

\* The callback has kept nothing but a completion of its own session.
FutureIsTrue ==
  future # NoPayload => future.by = sub /\ future.outcome \in Signalled(sub)

\* The driver waits for the session its place in the program is about.
WaitsForTheRightOne ==
  /\ pc \in {"awaitWriter", "awaitRevision"} => sub = Writer
  /\ pc = "awaitVerdict" => sub = Reviewer(attempt)

\* A reviewer signals verdicts.
VerdictsOnly ==
  \A i \in 0..MaxRevisions : Signalled(Reviewer(i)) \subseteq {"accept", "revise"}

\* Past the write phase there is a payload of the writer.
ReviewHasChapter ==
  pc \in Stopping \cup Reviewing \cup Revising => written # NoPayload

\* Every round before this one has asked for changes; this one too where the
\* driver is about to act on that, and after the loop no round is left.
RoundsAskedForChanges ==
  /\ \A i \in 0..MaxRevisions : i < attempt => "revise" \in Signalled(Reviewer(i))
  /\ pc \in {"feedback"} \cup Revising =>
       "revise" \in Signalled(Reviewer(attempt))
  /\ pc \in Revising => attempt = MaxRevisions

ResultsAreFinal == exit # "none" => pc \in Closing

OutcomeInv ==
  /\ TypeInv
  /\ EventsAreTrue
  /\ FutureIsTrue
  /\ WaitsForTheRightOne
  /\ VerdictsOnly
  /\ ReviewHasChapter
  /\ RoundsAskedForChanges
  /\ ResultsAreFinal
  /\ PayloadsAreAttributed
  /\ ExitIsEarned
  /\ ReviewersInOrder

-----------------------------------------------------------------------------
(***************************************************************************)
(* What the sessions' own steps change.                                    *)
(***************************************************************************)

NoNewSession == \A s \in Session : Exists(s)' => Exists(s)

\* A completion adds its outcome to what its session has signalled.
LEMMA CompletionIsRecorded ==
  ASSUME TypeInv, NEW s \in Session, NEW o \in Outcome, SignalCompletion(s, o)
  PROVE  \A t \in Session :
           Signalled(t)' = Signalled(t) \cup (IF t = s THEN {o} ELSE {})
<1> SUFFICES ASSUME NEW t \in Session
             PROVE  Signalled(t)' = Signalled(t) \cup (IF t = s THEN {o} ELSE {})
  OBVIOUS
<1>1. completed \in [Session -> Seq(Outcome)]
  BY DEF TypeInv, TypeOK, SessionsTypeOK, DaemonTypeOK
<1>2. CASE t = s
  <2>1. completed'[t] = Append(completed[t], o)
    BY <1>1, <1>2 DEF SignalCompletion
  <2>2. completed[t] \in Seq(Outcome)
    BY <1>1
  <2>3. /\ Len(completed'[t]) = Len(completed[t]) + 1
        /\ completed'[t][Len(completed[t]) + 1] = o
        /\ \A k \in 1..Len(completed[t]) : completed'[t][k] = completed[t][k]
        /\ Len(completed[t]) \in Nat
    BY <2>1, <2>2
  <2>4. QED
    BY <1>2, <2>3 DEF Signalled
<1>3. CASE t # s
  BY <1>1, <1>3 DEF SignalCompletion, Signalled
<1>4. QED
  BY <1>2, <1>3

LEMMA StatusOnlyMoves ==
  ASSUME TypeInv, NEW s \in Session,
         status[s] # "absent",
         NEW x, x # "absent",
         status' = [status EXCEPT ![s] = x]
  PROVE  NoNewSession
BY DEF NoNewSession, Exists, TypeInv, TypeOK, SessionsTypeOK, DaemonTypeOK

LEMMA StartTurnCreatesNone ==
  ASSUME TypeInv, NEW s \in Session, status[s] # "absent", NEW ms,
         StartTurn(s, ms)
  PROVE  NoNewSession
BY StatusOnlyMoves DEF StartTurn

LEMMA DeliverCreatesNone ==
  ASSUME TypeInv, NEW s \in Session, NEW m, Deliver(s, m)
  PROVE  NoNewSession /\ UNCHANGED <<completed, wire>>
<1>1. CASE Accepted(s, m)
  BY <1>1, StartTurnCreatesNone DEF Accepted, Deliver
<1>2. CASE Queued(s, m)
  BY <1>2 DEF Queued, Deliver, NoNewSession, Exists
<1>3. QED
  BY <1>1, <1>2 DEF Deliver

LEMMA EndTurnCreatesNone ==
  ASSUME TypeInv, NEW s \in Session, EndTurn(s)
  PROVE  NoNewSession /\ UNCHANGED <<completed, wire>>
<1>1. CASE StartTurn(s, inbox[s])
  BY <1>1, StartTurnCreatesNone DEF EndTurn
<1>2. CASE status' = [status EXCEPT ![s] = "idle"]
  BY <1>2, StatusOnlyMoves DEF EndTurn
<1>3. QED
  BY <1>1, <1>2 DEF EndTurn

\* A step of a session completes at most that one session, a reviewer only
\* with a verdict, and creates none.
LEMMA SessionStepEffect ==
  ASSUME TypeInv, SessionStep
  PROVE  /\ NoNewSession
         /\ \/ UNCHANGED <<completed, wire>>
            \/ \E s \in Session, o \in Outcome :
                 /\ SignalCompletion(s, o)
                 /\ s \in Reviewers => o \in {"accept", "revise"}
                 /\ s = Writer => o \in {"ready_for_review", "blocked"}
<1>1. CASE \E sn \in Snippets : WriterAsks(sn) \/ CoderReplies(sn)
  BY <1>1, DeliverCreatesNone, SessionFacts DEF WriterAsks, CoderReplies
<1>2. CASE \E sn \in Snippets : WriterIncludes(sn) \/ CoderWrites(sn)
  BY <1>2 DEF WriterIncludes, CoderWrites, daemonVars, NoNewSession, Exists
<1>3. CASE WriterWaits \/ CoderStandsBy
  BY <1>3, EndTurnCreatesNone, SessionFacts DEF WriterWaits, CoderStandsBy
<1>4. CASE WriterIsReady \/ WriterIsBlocked
  <2>1. PICK o \in {"ready_for_review", "blocked"} : SignalCompletion(Writer, o)
    BY <1>4 DEF WriterIsReady, WriterIsBlocked
  <2>2. NoNewSession
    BY <2>1, StatusOnlyMoves, SessionFacts DEF SignalCompletion
  <2>3. Writer \notin Reviewers /\ o \in Outcome
    BY SessionFacts DEF Reviewers, Outcome
  <2>4. QED
    BY <2>1, <2>2, <2>3, SessionFacts
<1>5. CASE \E r \in Reviewers : ReviewerJudges(r)
  <2>1. PICK r \in Reviewers, o \in {"accept", "revise"} : SignalCompletion(r, o)
    BY <1>5 DEF ReviewerJudges
  <2>2. r \in Session /\ o \in Outcome /\ r # Writer
    BY SessionFacts DEF Session, Outcome, Reviewers
  <2>3. NoNewSession
    BY <2>1, <2>2, StatusOnlyMoves DEF SignalCompletion
  <2>4. QED
    BY <2>1, <2>2, <2>3
<1>6. CASE \E r \in Reviewers : ReviewerIsSilent(r)
  BY <1>6, EndTurnCreatesNone DEF ReviewerIsSilent, Session
<1>7. CASE UnloadStep
  <2>1. PICK s \in Session : Unload(s)
    BY <1>7 DEF UnloadStep
  <2>2. CASE status[s] = "idle"
    BY <2>1, <2>2, StatusOnlyMoves DEF Unload
  <2>3. CASE status[s] # "idle"
    BY <2>1, <2>3 DEF Unload, NoNewSession, Exists
  <2>4. QED
    BY <2>1, <2>2, <2>3 DEF Unload
<1>8. QED
  BY <1>1, <1>2, <1>3, <1>4, <1>5, <1>6, <1>7
  DEF SessionStep, WriterStep, CoderStep, ReviewerStep

-----------------------------------------------------------------------------
(***************************************************************************)
(* The invariant is preserved by the steps of the sessions.                *)
(***************************************************************************)

LEMMA PayloadFacts ==
  /\ NoPayload.by = NoSession
  /\ \A p \in Payload : p # NoPayload =>
       p \in Completion /\ p.by \in Session /\ p.outcome \in Outcome
BY DEF NoPayload, Payload, Completion

\* What has been said stays said: the parts of the invariant that speak of
\* the driver survive any step that does not move it.
LEMMA SaidStaysSaid ==
  ASSUME OutcomeInv, UNCHANGED driverVars, NoNewSession,
         \A t \in Session : Signalled(t) \subseteq Signalled(t)'
  PROVE  /\ FutureIsTrue' /\ WaitsForTheRightOne' /\ ReviewHasChapter'
         /\ RoundsAskedForChanges' /\ ResultsAreFinal'
         /\ PayloadsAreAttributed' /\ ExitIsEarned' /\ ReviewersInOrder'
<1> USE DEF OutcomeInv, driverVars
<1>1. attempt \in 0..MaxRevisions /\ future \in Payload
  BY DEF TypeInv, TypeOK, DriverTypeOK
<1>2. FutureIsTrue'
  BY <1>1, PayloadFacts DEF FutureIsTrue
<1>3. WaitsForTheRightOne' /\ ReviewHasChapter' /\ ResultsAreFinal'
  BY DEF WaitsForTheRightOne, ReviewHasChapter, ResultsAreFinal
<1>4. RoundsAskedForChanges'
  BY <1>1, SessionFacts DEF RoundsAskedForChanges
<1>5. PayloadsAreAttributed'
  BY <1>1, SessionFacts DEF PayloadsAreAttributed
<1>6. ExitIsEarned'
  BY <1>1, SessionFacts DEF ExitIsEarned
<1>7. ReviewersInOrder'
  <2> SUFFICES ASSUME NEW i \in 0..MaxRevisions, Exists(Reviewer(i))'
               PROVE  IF i = 0 THEN Signalled(Writer)' # {}
                               ELSE "revise" \in Signalled(Reviewer(i - 1))'
    BY DEF ReviewersInOrder
  <2>1. Exists(Reviewer(i))
    BY SessionFacts DEF NoNewSession
  <2>2. CASE i = 0
    BY <2>1, <2>2, SessionFacts DEF ReviewersInOrder
  <2>3. CASE i # 0
    <3>1. i - 1 \in 0..MaxRevisions
      BY <2>3, RevisionsAssumption
    <3>2. QED
      BY <2>1, <2>3, <3>1, SessionFacts DEF ReviewersInOrder
  <2>4. QED
    BY <2>2, <2>3
<1>8. QED
  BY <1>2, <1>3, <1>4, <1>5, <1>6, <1>7

LEMMA SessionStepKeepsOutcomes ==
  ASSUME OutcomeInv, SessionStep, UNCHANGED driverVars
  PROVE  OutcomeInv'
<1>1. TypeInv /\ TypeInv'
  BY SessionStepType DEF OutcomeInv
<1>2. CASE UNCHANGED <<completed, wire>>
  <2>1. \A t \in Session : Signalled(t)' = Signalled(t)
    BY <1>2 DEF Signalled
  <2>2. EventsAreTrue' /\ VerdictsOnly'
    BY <1>2 DEF OutcomeInv, EventsAreTrue, VerdictsOnly, Signalled
  <2>3. QED
    BY <1>1, <2>1, <2>2, SessionStepEffect, SaidStaysSaid DEF OutcomeInv
<1>3. CASE ~ UNCHANGED <<completed, wire>>
  <2>1. PICK s \in Session, o \in Outcome :
          /\ SignalCompletion(s, o)
          /\ s \in Reviewers => o \in {"accept", "revise"}
    BY <1>1, <1>3, SessionStepEffect
  <2>2. \A t \in Session :
          Signalled(t)' = Signalled(t) \cup (IF t = s THEN {o} ELSE {})
    BY <1>1, <2>1, CompletionIsRecorded
  <2>3. EventsAreTrue'
    <3>1. wire \in Seq(Completion) /\ wire' = Append(wire, [by |-> s, outcome |-> o])
      BY <1>1, <2>1
      DEF SignalCompletion, TypeInv, TypeOK, SessionsTypeOK, DaemonTypeOK
    <3>2. SUFFICES ASSUME NEW k \in 1..Len(wire'), NEW ev, ev = wire'[k]
                   PROVE  ev.outcome \in Signalled(ev.by)'
      BY DEF EventsAreTrue, Signalled
    <3>3. CASE k \in 1..Len(wire)
      <4>1. ev = wire[k] /\ ev \in Completion
        BY <3>1, <3>2, <3>3
      <4>2. ev.by \in Session
        BY <4>1 DEF Completion
      <4>3. ev.outcome \in Signalled(ev.by)
        BY <3>3, <4>1 DEF OutcomeInv, EventsAreTrue
      <4>4. QED
        BY <4>2, <4>3, <2>2
    <3>4. CASE k = Len(wire) + 1
      <4>1. ev = [by |-> s, outcome |-> o]
        BY <3>1, <3>2, <3>4
      <4>2. o \in Signalled(s)'
        BY <2>2
      <4>3. QED
        BY <4>1, <4>2
    <3>5. QED
      BY <3>1, <3>2, <3>3, <3>4
  <2>4. VerdictsOnly'
    <3>1. SUFFICES ASSUME NEW i \in 0..MaxRevisions
                   PROVE  Signalled(Reviewer(i))' \subseteq {"accept", "revise"}
      BY DEF VerdictsOnly
    <3>2. Reviewer(i) \in Session /\ Reviewer(i) \in Reviewers
      BY SessionFacts DEF Reviewers
    <3>3. Signalled(Reviewer(i)) \subseteq {"accept", "revise"}
      BY DEF OutcomeInv, VerdictsOnly
    <3>4. QED
      BY <2>1, <2>2, <3>2, <3>3
  <2>5. QED
    BY <1>1, <2>2, <2>3, <2>4, SessionStepEffect, SaidStaysSaid DEF OutcomeInv
<1>4. QED
  BY <1>2, <1>3

-----------------------------------------------------------------------------
(***************************************************************************)
(* The invariant is preserved by the steps of the driver.                  *)
(***************************************************************************)

\* No step of the driver signals anything.
LEMMA DriverSaysNothing ==
  ASSUME OutcomeInv, UNCHANGED <<completed, wire>>
  PROVE  /\ \A s : Signalled(s)' = Signalled(s)
         /\ EventsAreTrue' /\ VerdictsOnly'
BY DEF OutcomeInv, Signalled, EventsAreTrue, VerdictsOnly

LEMMA SendCreatesNone ==
  ASSUME TypeInv, NEW m, SendMessage(m), current # NoSession
  PROVE  NoNewSession /\ UNCHANGED <<completed, wire>>
<1>1. current \in Session
  BY DEF TypeInv, TypeOK, SessionsTypeOK, DaemonTypeOK
<1>2. CASE Deliver(current, m)
  BY <1>1, <1>2, DeliverCreatesNone
<1>3. CASE Resumed(current, m)
  BY <1>1, <1>3, StartTurnCreatesNone DEF Resumed
<1>4. QED
  BY <1>2, <1>3 DEF SendMessage

LEMMA AttachCreatesNone ==
  ASSUME TypeInv, NEW s \in Session, Attach(s)
  PROVE  NoNewSession /\ UNCHANGED <<completed, wire>>
<1>1. CASE status[s] = "cold"
  BY <1>1, StatusOnlyMoves DEF Attach
<1>2. CASE status[s] # "cold"
  BY <1>2 DEF Attach, NoNewSession, Exists
<1>3. QED
  BY <1>1, <1>2

\* ReviewersInOrder is about the sessions there are.
LEMMA NoNewReviewer ==
  ASSUME OutcomeInv, UNCHANGED <<completed, wire>>,
         \A i \in 0..MaxRevisions : Exists(Reviewer(i))' => Exists(Reviewer(i))
  PROVE  ReviewersInOrder'
BY DriverSaysNothing DEF OutcomeInv, ReviewersInOrder

\* Creating a session other than the reviewer of this attempt creates no
\* reviewer; that one is created when its turn has come.
LEMMA CreateKeepsOrder ==
  ASSUME OutcomeInv, NEW s \in Session, CreateSession(s),
         \/ s \in {Coder, Writer}
         \/ s = Reviewer(attempt) /\ pc = "startReviewer"
  PROVE  ReviewersInOrder' /\ UNCHANGED <<completed, wire>>
<1>1. UNCHANGED <<completed, wire>>
  BY DEF CreateSession
<1>2. \A t \in Session : Exists(t)' => Exists(t) \/ t = s
  BY DEF CreateSession, Exists, OutcomeInv, TypeInv, TypeOK, SessionsTypeOK,
         DaemonTypeOK
<1>3. attempt \in 0..MaxRevisions
  BY DEF OutcomeInv, TypeInv, TypeOK, DriverTypeOK
<1>4. CASE s \in {Coder, Writer}
  BY <1>1, <1>2, <1>4, SessionFacts, NoNewReviewer
<1>5. CASE s = Reviewer(attempt) /\ pc = "startReviewer"
  <2>1. Signalled(Writer) # {}
    BY <1>5 DEF OutcomeInv, ReviewHasChapter, PayloadsAreAttributed, Reviewing
  <2>2. attempt # 0 => "revise" \in Signalled(Reviewer(attempt - 1))
    BY <1>3, RevisionsAssumption DEF OutcomeInv, RoundsAskedForChanges
  <2>3. \A i \in 0..MaxRevisions :
          Exists(Reviewer(i))' => Exists(Reviewer(i)) \/ i = attempt
    BY <1>2, <1>3, <1>5, SessionFacts
  <2>4. QED
    BY <1>1, <2>1, <2>2, <2>3, DriverSaysNothing DEF OutcomeInv, ReviewersInOrder
<1>6. QED
  BY <1>1, <1>4, <1>5

\* The parts of the invariant that are about the driver alone.
DriverInv ==
  /\ FutureIsTrue /\ WaitsForTheRightOne /\ ReviewHasChapter
  /\ RoundsAskedForChanges /\ ResultsAreFinal
  /\ PayloadsAreAttributed /\ ExitIsEarned

LEMMA Assembled ==
  ASSUME OutcomeInv, TypeInv', UNCHANGED <<completed, wire>>,
         DriverInv', ReviewersInOrder'
  PROVE  OutcomeInv'
BY DriverSaysNothing DEF OutcomeInv, DriverInv

\* Which sessions a step of the driver creates.
LEMMA DriverStepEffect ==
  ASSUME OutcomeInv, DriverStep
  PROVE  ReviewersInOrder' /\ UNCHANGED <<completed, wire>>
<1> USE DEF OutcomeInv
<1>1. attempt \in 0..MaxRevisions
  BY DEF TypeInv, TypeOK, DriverTypeOK
<1>2. CASE \E s \in Session :
             /\ CreateSession(s)
             /\ \/ s \in {Coder, Writer}
                \/ s = Reviewer(attempt) /\ pc = "startReviewer"
  BY <1>2, CreateKeepsOrder
<1>3. CASE NoNewSession /\ UNCHANGED <<completed, wire>>
  BY <1>3, SessionFacts, NoNewReviewer DEF NoNewSession
<1>4. UNCHANGED sessionVars => NoNewSession /\ UNCHANGED <<completed, wire>>
  BY DEF sessionVars, daemonVars, NoNewSession, Exists
<1>5. CASE SetupStep
  BY <1>3, <1>4, <1>5
  DEF SetupStep, Connect, ProbeTool, Refuse, DeclareBudget, NoNewSession, Exists
<1>6. CASE StartCoder \/ StartWriter \/ StartReviewer
  BY <1>1, <1>2, <1>6, SessionFacts
  DEF StartCoder, StartWriter, StartReviewer, StartSession, Goto
<1>7. CASE BriefCoder \/ BriefWriter \/ SendReview \/ SendFeedback
  <2>1. PICK m : SendMessage(m)
    BY <1>7 DEF BriefCoder, BriefWriter, SendReview, SendFeedback, Send
  <2>2. current # NoSession
    BY <1>7
    DEF TypeInv, ClientIsAttached, Setup, Closing, BriefCoder, BriefWriter,
        SendReview, SendFeedback, Send, Goto
  <2>3. QED
    BY <1>3, <2>1, <2>2, SendCreatesNone
<1>8. CASE AttachCoder \/ AttachWriter
  BY <1>3, <1>8, AttachCreatesNone, SessionFacts DEF AttachCoder, AttachWriter
<1>9. CASE StartFails
  <2>1. CASE UNCHANGED sessionVars
    BY <1>3, <1>4, <2>1
  <2>2. CASE ~ UNCHANGED sessionVars
    BY <1>1, <1>2, <1>9, <2>2, SessionFacts DEF StartFails, Leave, Goto
  <2>3. QED
    BY <2>1, <2>2
<1>10. CASE \/ SubscribeWriter \/ WriterReports \/ WriterTimesOut \/ Settle
            \/ SubscribeVerdict \/ VerdictArrives \/ VerdictTimesOut
            \/ ShowBudget \/ SubscribeRevision \/ RevisionWaitEnds
            \/ CallRaises \/ WriteTranscript \/ Disconnect
  <2>1. UNCHANGED sessionVars
    BY <1>10
    DEF SubscribeWriter, SubscribeVerdict, SubscribeRevision, Subscribe,
        WriterReports, WriterTimesOut, Settle, VerdictArrives, VerdictTimesOut,
        ShowBudget, RevisionWaitEnds, CallRaises, WriteTranscript, Disconnect
  <2>2. QED
    BY <1>3, <1>4, <2>1
<1>11. QED
  BY <1>5, <1>6, <1>7, <1>8, <1>9, <1>10
  DEF DriverStep, WriteStep, StopStep, ReviewStep, CloseStep

\* Each step of the driver keeps what the driver relies on.
LEMMA DriverStepInv ==
  ASSUME OutcomeInv, DriverStep
  PROVE  DriverInv'
<1>1. \A s : Signalled(s)' = Signalled(s)
  BY DriverStepEffect, DriverSaysNothing
<1>2. /\ attempt \in 0..MaxRevisions
      /\ future \in Payload
      /\ pc = "feedback" => attempt < MaxRevisions
  BY DEF OutcomeInv, TypeInv, TypeOK, DriverTypeOK, FeedbackHasARound
<1> USE <1>1, <1>2
    DEF OutcomeInv, DriverInv, FutureIsTrue, WaitsForTheRightOne,
        ReviewHasChapter, RoundsAskedForChanges, ResultsAreFinal,
        PayloadsAreAttributed, ExitIsEarned, Setup, Writing, Stopping,
        Reviewing, Revising, Closing, Goto, Leave, awaitVars, endVars
<1>3. CASE SetupStep
  BY <1>3 DEF SetupStep, Connect, ProbeTool, Refuse, DeclareBudget
<1>4. CASE StartCoder \/ StartWriter \/ StartReviewer
  BY <1>4 DEF StartCoder, StartWriter, StartReviewer, StartSession
<1>5. CASE BriefCoder \/ BriefWriter \/ SendReview
  BY <1>5 DEF BriefCoder, BriefWriter, SendReview, Send
<1>6. CASE SendFeedback
  BY <1>6 DEF SendFeedback, Send
<1>7. CASE AttachCoder \/ AttachWriter \/ Settle
  BY <1>7 DEF AttachCoder, AttachWriter, Settle
<1>8. CASE SubscribeWriter \/ SubscribeVerdict \/ SubscribeRevision
  BY <1>8 DEF SubscribeWriter, SubscribeVerdict, SubscribeRevision, Subscribe
<1>9. CASE WriterReports
  BY <1>9 DEF WriterReports, Heard
<1>10. CASE WriterTimesOut \/ VerdictTimesOut \/ ShowBudget
  BY <1>10 DEF WriterTimesOut, VerdictTimesOut, ShowBudget, TimedOut
<1>11. CASE VerdictArrives
  BY <1>11 DEF VerdictArrives, LastRound, Heard, VerdictsOnly
<1>12. CASE RevisionWaitEnds
  BY <1>12 DEF RevisionWaitEnds, Heard, TimedOut
<1>13. CASE StartFails \/ CallRaises
  BY <1>13 DEF StartFails, CallRaises
<1>14. CASE WriteTranscript \/ Disconnect
  BY <1>14 DEF WriteTranscript, Disconnect
<1>15. QED
  BY <1>3, <1>4, <1>5, <1>6, <1>7, <1>8, <1>9, <1>10, <1>11, <1>12, <1>13, <1>14
  DEF DriverStep, WriteStep, StopStep, ReviewStep, CloseStep

\* Handing over an event lets through only one of the awaited session.
LEMMA DispatchKeepsOutcomes ==
  ASSUME OutcomeInv, Dispatch
  PROVE  OutcomeInv'
<1>1. TypeInv /\ TypeInv'
  BY DispatchType DEF OutcomeInv
<1>2. \A s : Signalled(s)' = Signalled(s)
  BY DEF Dispatch, Signalled
<1>3. wire \in Seq(Completion) /\ wire # <<>> /\ wire' = Tail(wire)
  BY <1>1 DEF Dispatch, TypeInv, TypeOK, SessionsTypeOK, DaemonTypeOK
<1>4. EventsAreTrue'
  <2>1. SUFFICES ASSUME NEW k \in 1..Len(wire'), NEW ev, ev = wire'[k]
                 PROVE  ev.outcome \in Signalled(ev.by)'
    BY DEF EventsAreTrue, Signalled
  <2>2. k + 1 \in 1..Len(wire) /\ ev = wire[k + 1]
    BY <1>3, <2>1
  <2>3. ev.outcome \in Signalled(ev.by)
    BY <2>2 DEF OutcomeInv, EventsAreTrue
  <2>4. QED
    BY <1>2, <2>3
<1>5. FutureIsTrue'
  <2>1. CASE Accepts(Head(wire))
    <3>1. PICK ev : ev = Head(wire)
      OBVIOUS
    <3>2. ev = wire[1] /\ 1 \in 1..Len(wire)
      BY <1>3, <3>1
    <3>3. ev.outcome \in Signalled(ev.by)
      BY <3>2 DEF OutcomeInv, EventsAreTrue
    <3>4. future' = ev /\ sub' = sub /\ sub = ev.by
      BY <2>1, <3>1 DEF Dispatch, Accepts
    <3>5. QED
      BY <1>2, <3>3, <3>4 DEF FutureIsTrue
  <2>2. CASE ~ Accepts(Head(wire))
    BY <1>2, <2>2 DEF Dispatch, OutcomeInv, FutureIsTrue
  <2>3. QED
    BY <2>1, <2>2
<1>6. VerdictsOnly'
  BY <1>2 DEF OutcomeInv, VerdictsOnly
<1>7. /\ WaitsForTheRightOne' /\ ReviewHasChapter' /\ ResultsAreFinal'
      /\ RoundsAskedForChanges' /\ PayloadsAreAttributed' /\ ExitIsEarned'
  BY <1>2
  DEF Dispatch, endVars, OutcomeInv, WaitsForTheRightOne, ReviewHasChapter,
      ResultsAreFinal, RoundsAskedForChanges, PayloadsAreAttributed, ExitIsEarned
<1>8. ReviewersInOrder'
  BY <1>2 DEF Dispatch, OutcomeInv, ReviewersInOrder, Exists
<1>9. QED
  BY <1>1, <1>4, <1>5, <1>6, <1>7, <1>8 DEF OutcomeInv

LEMMA InitOutcomes == Init => OutcomeInv
<1> SUFFICES ASSUME Init
             PROVE  OutcomeInv
  OBVIOUS
<1>1. \A s \in Session : Signalled(s) = {}
  BY DEF Init, SessionsInit, Signalled
<1>2. EventsAreTrue
  BY DEF Init, SessionsInit, EventsAreTrue
<1>3. VerdictsOnly
  BY <1>1, SessionFacts DEF VerdictsOnly
<1>4. ReviewersInOrder
  BY SessionFacts DEF Init, SessionsInit, ReviewersInOrder, Exists
<1>5. DriverInv
  BY DEF Init, DriverInv, FutureIsTrue, WaitsForTheRightOne, ReviewHasChapter,
         RoundsAskedForChanges, ResultsAreFinal, PayloadsAreAttributed,
         ExitIsEarned, Stopping, Reviewing, Revising
<1>6. QED
  BY <1>2, <1>3, <1>4, <1>5, InitType DEF OutcomeInv, DriverInv

LEMMA NextOutcomes == OutcomeInv /\ [Next]_vars => OutcomeInv'
<1> SUFFICES ASSUME OutcomeInv, [Next]_vars
             PROVE  OutcomeInv'
  OBVIOUS
<1>1. TypeInv'
  BY NextType DEF OutcomeInv
<1>2. CASE DriverStep
  BY <1>1, <1>2, DriverStepEffect, DriverStepInv, Assembled
<1>3. CASE Dispatch
  BY <1>3, DispatchKeepsOutcomes
<1>4. CASE SessionStep /\ UNCHANGED driverVars
  BY <1>4, SessionStepKeepsOutcomes
<1>5. CASE UNCHANGED vars
  <2>1. UNCHANGED driverVars /\ UNCHANGED <<completed, wire>> /\ NoNewSession
    BY <1>5 DEF vars, sessionVars, daemonVars, NoNewSession, Exists
  <2>2. \A s : Signalled(s)' = Signalled(s)
    BY <2>1, DriverSaysNothing
  <2>3. QED
    BY <1>1, <2>1, <2>2, DriverSaysNothing, SaidStaysSaid DEF OutcomeInv
<1>6. QED
  BY <1>2, <1>3, <1>4, <1>5 DEF Next, Finished

\* The invariant behind the theorems below holds in every reachable state.
THEOREM OutcomesHold == Spec => []OutcomeInv
BY InitOutcomes, NextOutcomes, PTL DEF Spec

\* await_completion's correlation on the session id: the driver never acts on
\* the completion of a session it was not waiting for.
THEOREM Attribution == Spec => []PayloadsAreAttributed
<1>1. OutcomeInv => PayloadsAreAttributed
  BY DEF OutcomeInv
<1>2. QED
  BY <1>1, OutcomesHold, PTL

\* The program returns 0 only for an accepted chapter, and 2 after the reviews
\* only when each of them asked for changes.
THEOREM Earned == Spec => []ExitIsEarned
<1>1. OutcomeInv => ExitIsEarned
  BY DEF OutcomeInv
<1>2. QED
  BY <1>1, OutcomesHold, PTL

\* No review starts before the writer has completed, nor before the review
\* preceding it has asked for changes.
THEOREM InOrder == Spec => []ReviewersInOrder
<1>1. OutcomeInv => ReviewersInOrder
  BY DEF OutcomeInv
<1>2. QED
  BY <1>1, OutcomesHold, PTL

-----------------------------------------------------------------------------
(***************************************************************************)
(* ChapterCascade implements CascadePhases: every step is a step of the    *)
(* phases or changes none of them.                                         *)
(***************************************************************************)


\* Sessions exist only after the setup, reviewers only of the rounds begun.
SessionsHaveTheirTime ==
  /\ \A s \in Session : Exists(s) => pc \notin Setup
  /\ \A i \in 0..MaxRevisions : Exists(Reviewer(i)) => i <= attempt

\* The writer signals one of its two outcomes.
DraftsOnly == Signalled(Writer) \subseteq {"ready_for_review", "blocked"}

LEMMA TimeIsKept ==
  ASSUME OutcomeInv, SessionsHaveTheirTime, [Next]_vars
  PROVE  SessionsHaveTheirTime'
<1>1. attempt \in 0..MaxRevisions
  BY DEF OutcomeInv, TypeInv, TypeOK, DriverTypeOK
<1>2. TypeInv /\ TypeInv'
  BY NextType DEF OutcomeInv
<1>3. CASE NoNewSession /\ attempt' >= attempt /\ (pc' \in Setup => pc \in Setup)
  <2>1. attempt' \in 0..MaxRevisions
    BY <1>2 DEF TypeInv, TypeOK, DriverTypeOK
  <2>2. QED
    BY <1>1, <1>3, <2>1, SessionFacts DEF SessionsHaveTheirTime, NoNewSession
<1>4. CASE \E s \in Session :
             /\ CreateSession(s)
             /\ s \in {Coder, Writer, Reviewer(attempt)}
             /\ attempt' = attempt
             /\ pc' \notin Setup
  <2>1. PICK s \in Session : /\ CreateSession(s)
                             /\ s \in {Coder, Writer, Reviewer(attempt)}
    BY <1>4
  <2>2. \A t \in Session : Exists(t)' => Exists(t) \/ t = s
    BY <1>2, <2>1
    DEF CreateSession, Exists, TypeInv, TypeOK, SessionsTypeOK, DaemonTypeOK
  <2>3. \A i \in 0..MaxRevisions : Exists(Reviewer(i))' => i <= attempt
    BY <1>1, <2>1, <2>2, SessionFacts DEF SessionsHaveTheirTime
  <2>4. QED
    BY <1>1, <1>4, <2>2, <2>3 DEF SessionsHaveTheirTime
<1>5. UNCHANGED sessionVars => NoNewSession
  BY DEF sessionVars, daemonVars, NoNewSession, Exists
<1> USE DEF Goto, Leave, Setup, awaitVars, endVars
<1>6. CASE SetupStep
  BY <1>1, <1>3, <1>5, <1>6
  DEF SetupStep, Connect, ProbeTool, Refuse, DeclareBudget, NoNewSession, Exists
<1>7. CASE StartCoder \/ StartWriter \/ StartReviewer
  BY <1>1, <1>4, <1>7, SessionFacts
  DEF StartCoder, StartWriter, StartReviewer, StartSession
<1>8. CASE BriefCoder \/ BriefWriter \/ SendReview \/ SendFeedback
  <2>1. PICK m : SendMessage(m)
    BY <1>8 DEF BriefCoder, BriefWriter, SendReview, SendFeedback, Send
  <2>2. current # NoSession
    BY <1>2, <1>8
    DEF TypeInv, ClientIsAttached, Closing, BriefCoder, BriefWriter,
        SendReview, SendFeedback, Send
  <2>3. NoNewSession
    BY <1>2, <2>1, <2>2, SendCreatesNone
  <2>4. QED
    BY <1>1, <1>3, <1>8, <2>3
    DEF BriefCoder, BriefWriter, SendReview, SendFeedback, Send
<1>9. CASE AttachCoder \/ AttachWriter
  BY <1>1, <1>2, <1>3, <1>9, AttachCreatesNone, SessionFacts
  DEF AttachCoder, AttachWriter
<1>10. CASE StartFails
  <2>1. CASE UNCHANGED sessionVars
    BY <1>1, <1>3, <1>5, <1>10, <2>1 DEF StartFails
  <2>2. CASE ~ UNCHANGED sessionVars
    BY <1>1, <1>4, <1>10, <2>2, SessionFacts DEF StartFails
  <2>3. QED
    BY <2>1, <2>2
<1>11. CASE \/ SubscribeWriter \/ WriterReports \/ WriterTimesOut \/ Settle
            \/ SubscribeVerdict \/ VerdictArrives \/ VerdictTimesOut
            \/ ShowBudget \/ SubscribeRevision \/ RevisionWaitEnds
            \/ CallRaises \/ WriteTranscript \/ Disconnect
  <2>1. UNCHANGED sessionVars /\ attempt' = attempt /\ pc' \notin Setup
    BY <1>11
    DEF SubscribeWriter, SubscribeVerdict, SubscribeRevision, Subscribe,
        WriterReports, WriterTimesOut, Settle, VerdictArrives, VerdictTimesOut,
        ShowBudget, RevisionWaitEnds, CallRaises, WriteTranscript, Disconnect
  <2>2. QED
    BY <1>1, <1>3, <1>5, <2>1
<1>12. CASE Dispatch
  BY <1>1, <1>3, <1>12 DEF Dispatch, NoNewSession, Exists
<1>13. CASE SessionStep /\ UNCHANGED driverVars
  BY <1>1, <1>2, <1>3, <1>13, SessionStepEffect DEF driverVars
<1>14. CASE UNCHANGED vars
  BY <1>1, <1>3, <1>5, <1>14 DEF vars, driverVars
<1>15. QED
  BY <1>6, <1>7, <1>8, <1>9, <1>10, <1>11, <1>12, <1>13, <1>14
  DEF Next, Finished, DriverStep, WriteStep, StopStep, ReviewStep, CloseStep

\* Places in the program and phases.
LEMMA PhaseFacts ==
  /\ \A p \in Setup : PhaseOf(p) = "setup"
  /\ \A p \in Writing : PhaseOf(p) = "writing"
  /\ \A p \in Stopping \cup Reviewing \cup Revising : PhaseOf(p) = "reviewing"
  /\ \A p \in Closing : PhaseOf(p) = "over"
BY DEF PhaseOf, Setup, Writing, Stopping, Reviewing, Revising, Closing

RefinementInv ==
  /\ OutcomeInv
  /\ SessionsHaveTheirTime
  /\ DraftsOnly

\* A step of a session is a participant speaking, or nothing.
LEMMA SessionStepMaps ==
  ASSUME RefinementInv, SessionStep, UNCHANGED driverVars
  PROVE  [Phases!Next]_(Phases!phaseVars) /\ DraftsOnly'
<1>1. TypeInv
  BY DEF RefinementInv, OutcomeInv
<1>2. CASE UNCHANGED <<completed, wire>>
  <2>1. Signalled(Writer)' = Signalled(Writer) /\ Opinions' = Opinions
    BY <1>2 DEF Signalled, Opinions
  <2>2. QED
    BY <2>1 DEF Phases!phaseVars, driverVars, RefinementInv, DraftsOnly
<1>3. CASE ~ UNCHANGED <<completed, wire>>
  <2>1. PICK s \in Session, o \in Outcome :
          /\ SignalCompletion(s, o)
          /\ s \in Reviewers => o \in {"accept", "revise"}
          /\ s = Writer => o \in {"ready_for_review", "blocked"}
    BY <1>1, <1>3, SessionStepEffect
  <2>2. \A t \in Session :
          Signalled(t)' = Signalled(t) \cup (IF t = s THEN {o} ELSE {})
    BY <1>1, <2>1, CompletionIsRecorded
  <2>3. Exists(s)
    BY <2>1 DEF SignalCompletion, Exists
  <2>4. UNCHANGED <<pc, attempt, exit>>
    BY DEF driverVars
  <2>5. CASE s = Writer
    <3>1. Signalled(Writer)' = Signalled(Writer) \cup {o}
      BY <2>2, <2>5, SessionFacts
    <3>2. Opinions' = Opinions
      BY <2>2, <2>5, SessionFacts DEF Opinions
    <3>3. PhaseOf(pc) # "setup"
      BY <1>1, <2>3, PhaseFacts
      DEF RefinementInv, SessionsHaveTheirTime, TypeInv, TypeOK, DriverTypeOK, Pc
    <3>4. Phases!Drafts
      BY <2>1, <2>4, <2>5, <3>1, <3>2, <3>3 DEF Phases!Drafts
    <3>5. QED
      BY <2>1, <2>5, <3>1, <3>4 DEF Phases!Next, RefinementInv, DraftsOnly
  <2>6. CASE s \in Reviewers
    <3>1. PICK i \in 0..MaxRevisions : s = Reviewer(i)
      BY <2>6 DEF Reviewers
    <3>2. Signalled(Writer)' = Signalled(Writer)
      BY <2>2, <3>1, SessionFacts
    <3>3. Opinions' = [Opinions EXCEPT ![i] = @ \cup {o}]
      <4>1. \A j \in 0..MaxRevisions :
              Signalled(Reviewer(j))' =
                IF j = i THEN Signalled(Reviewer(j)) \cup {o}
                         ELSE Signalled(Reviewer(j))
        BY <2>2, <3>1, SessionFacts
      <4>2. QED
        BY <4>1 DEF Opinions
    <3>4. i <= attempt
      BY <2>3, <3>1 DEF RefinementInv, SessionsHaveTheirTime
    <3>5. Phases!Opines(i)
      BY <2>1, <2>4, <2>6, <3>2, <3>3, <3>4 DEF Phases!Opines
    <3>6. QED
      BY <3>2, <3>5 DEF Phases!Next, Phases!Rounds, RefinementInv, DraftsOnly
  <2>7. CASE s = Coder
    <3>1. Writer # s /\ \A i \in 0..MaxRevisions : Reviewer(i) # s
      BY <2>7, SessionFacts
    <3>2. /\ Signalled(Writer)' = Signalled(Writer)
          /\ \A i \in 0..MaxRevisions : Signalled(Reviewer(i))' = Signalled(Reviewer(i))
      BY <2>2, <3>1, SessionFacts
    <3>3. Opinions' = Opinions
      BY <3>2 DEF Opinions
    <3>4. QED
      BY <2>4, <3>2, <3>3 DEF Phases!phaseVars, RefinementInv, DraftsOnly
  <2>8. QED
    BY <2>5, <2>6, <2>7 DEF Session
<1>4. QED
  BY <1>2, <1>3

\* A step of the driver is a step between phases, or stays in one.
LEMMA DriverStepMaps ==
  ASSUME RefinementInv, DriverStep
  PROVE  [Phases!Next]_(Phases!phaseVars) /\ DraftsOnly'
<1>1. /\ Signalled(Writer)' = Signalled(Writer)
      /\ \A s : Signalled(s)' = Signalled(s)
  BY DriverStepEffect, DriverSaysNothing DEF RefinementInv
<1>2. Opinions' = Opinions /\ DraftsOnly'
  BY <1>1 DEF Opinions, RefinementInv, DraftsOnly
<1>3. /\ attempt \in 0..MaxRevisions
      /\ future \in Payload /\ written \in Payload
      /\ exit \in Exit
  BY DEF RefinementInv, OutcomeInv, TypeInv, TypeOK, DriverTypeOK
<1>4. DriverInv /\ DriverInv' /\ (pc = "feedback" => attempt < MaxRevisions)
  BY DriverStepInv
  DEF RefinementInv, OutcomeInv, DriverInv, TypeInv, FeedbackHasARound
<1>5. \A i \in 0..MaxRevisions : Opinions[i] = Signalled(Reviewer(i))
  BY DEF Opinions
<1> USE <1>1, <1>2, PhaseFacts
    DEF Goto, Leave, awaitVars, endVars, Setup, Writing, Stopping, Reviewing,
        Revising, Closing, Phases!Next, Phases!End, Phases!phaseVars
<1>6. CASE Connect \/ ProbeTool \/ Refuse
  BY <1>4, <1>6 DEF Connect, ProbeTool, Refuse, Phases!Fail, Phases!Refuse
<1>7. CASE DeclareBudget
  BY <1>7 DEF DeclareBudget, Phases!BeginWriting
<1>8. CASE StartCoder \/ BriefCoder \/ StartWriter \/ BriefWriter \/ SubscribeWriter
  BY <1>8
  DEF StartCoder, BriefCoder, StartWriter, BriefWriter, StartSession, Send,
      SubscribeWriter, Subscribe
<1>9. CASE WriterReports
  <2>1. Signalled(Writer) # {}
    BY <1>4, <1>9
    DEF WriterReports, Heard, DriverInv, FutureIsTrue, WaitsForTheRightOne
  <2>2. QED
    BY <1>9, <2>1 DEF WriterReports, Phases!BeginReview
<1>10. CASE WriterTimesOut \/ ShowBudget
  BY <1>10 DEF WriterTimesOut, ShowBudget, Phases!Fail
<1>11. CASE AttachCoder \/ AttachWriter \/ Settle
  BY <1>11 DEF AttachCoder, AttachWriter, Settle
<1>12. CASE StartReviewer \/ SendReview \/ SubscribeVerdict
  BY <1>12
  DEF StartReviewer, SendReview, StartSession, Send, SubscribeVerdict, Subscribe
<1>13. CASE VerdictTimesOut \/ SubscribeRevision
  BY <1>13 DEF VerdictTimesOut, SubscribeRevision, Subscribe
<1>14. CASE VerdictArrives
  <2>1. CASE future.outcome = "accept"
    <3>1. "accept" \in Opinions[attempt]
      BY <1>3, <1>4, <1>5, <1>14, <2>1
      DEF VerdictArrives, Heard, DriverInv, FutureIsTrue, WaitsForTheRightOne
    <3>2. QED
      BY <1>14, <2>1, <3>1 DEF VerdictArrives, Phases!Accept
  <2>2. CASE future.outcome # "accept"
    BY <1>14, <2>2 DEF VerdictArrives
  <2>3. QED
    BY <2>1, <2>2
<1>15. CASE SendFeedback
  <2>1. "revise" \in Opinions[attempt]
    BY <1>3, <1>4, <1>5, <1>15
    DEF SendFeedback, Send, DriverInv, RoundsAskedForChanges
  <2>2. QED
    BY <1>4, <1>15, <2>1 DEF SendFeedback, Send, Phases!NextRound
<1>16. CASE RevisionWaitEnds
  <2>1. attempt = MaxRevisions
    BY <1>4, <1>16 DEF RevisionWaitEnds, DriverInv, RoundsAskedForChanges
  <2>2. \A i \in 0..MaxRevisions : "revise" \in Signalled(Reviewer(i))
    <3> SUFFICES ASSUME NEW i \in 0..MaxRevisions
                 PROVE  "revise" \in Signalled(Reviewer(i))
      OBVIOUS
    <3>1. CASE i < attempt
      BY <1>4, <3>1 DEF DriverInv, RoundsAskedForChanges
    <3>2. CASE i = attempt
      BY <1>4, <1>16, <3>2 DEF RevisionWaitEnds, DriverInv, RoundsAskedForChanges
    <3>3. QED
      BY <2>1, <3>1, <3>2, RevisionsAssumption
  <2>3. QED
    BY <1>5, <1>16, <2>1, <2>2 DEF RevisionWaitEnds, Phases!GiveUp, Phases!Rounds
<1>17. CASE StartFails \/ CallRaises
  BY <1>17 DEF StartFails, CallRaises, RpcPoints, Phases!Fail
<1>18. CASE WriteTranscript
  BY <1>3, <1>18 DEF WriteTranscript, Phases!Mask
<1>19. CASE Disconnect
  BY <1>19 DEF Disconnect
<1>20. QED
  BY <1>2, <1>6, <1>7, <1>8, <1>9, <1>10, <1>11, <1>12, <1>13, <1>14, <1>15, <1>16,
     <1>17, <1>18, <1>19
  DEF DriverStep, SetupStep, WriteStep, StopStep, ReviewStep, CloseStep

LEMMA NextMaps ==
  ASSUME RefinementInv, [Next]_vars
  PROVE  [Phases!Next]_(Phases!phaseVars) /\ RefinementInv'
<1>1. OutcomeInv' /\ SessionsHaveTheirTime'
  BY NextOutcomes, TimeIsKept DEF RefinementInv
<1>2. CASE DriverStep
  BY <1>1, <1>2, DriverStepMaps DEF RefinementInv
<1>3. CASE SessionStep /\ UNCHANGED driverVars
  BY <1>1, <1>3, SessionStepMaps DEF RefinementInv
<1>4. CASE Dispatch \/ UNCHANGED vars
  <2>1. UNCHANGED <<pc, attempt, exit, completed>>
    BY <1>4 DEF Dispatch, endVars, vars, sessionVars, daemonVars, driverVars
  <2>2. Opinions' = Opinions /\ Signalled(Writer)' = Signalled(Writer)
    BY <2>1 DEF Opinions, Signalled
  <2>3. QED
    BY <1>1, <2>1, <2>2 DEF Phases!phaseVars, RefinementInv, DraftsOnly
<1>5. QED
  BY <1>2, <1>3, <1>4 DEF Next, Finished

LEMMA InitMaps == Init => Phases!Init /\ RefinementInv
<1> SUFFICES ASSUME Init
             PROVE  Phases!Init /\ RefinementInv
  OBVIOUS
<1>1. \A s \in Session : Signalled(s) = {} /\ ~ Exists(s)
  BY DEF Init, SessionsInit, Signalled, Exists
<1>2. Signalled(Writer) = {} /\ Opinions = [i \in 0..MaxRevisions |-> {}]
  BY <1>1, SessionFacts DEF Opinions
<1>3. Phases!Init
  BY <1>2, PhaseFacts DEF Init, Setup, Phases!Init, Phases!Rounds
<1>4. QED
  BY <1>1, <1>2, <1>3, InitOutcomes, SessionFacts
  DEF RefinementInv, SessionsHaveTheirTime, DraftsOnly

\* The driver and its sessions implement the phases a cascade promises: every
\* decision rests on what the participant of that phase has said.
THEOREM Refinement == Spec => ImplementsPhases
<1>1. RefinementInv /\ [Next]_vars =>
        [Phases!Next]_(Phases!phaseVars) /\ RefinementInv'
  BY NextMaps
<1>2. QED
  BY <1>1, InitMaps, PTL DEF Spec, ImplementsPhases, Phases!Spec
=============================================================================
