-------------------------- MODULE CertificationProofs --------------------------
(***************************************************************************)
(* The four certifications keep their types.  A message goes to what the   *)
(* client is attached to, so the types rest on where the clients are when  *)
(* the driver writes: that is stated and proved along with them.           *)
(***************************************************************************)
EXTENDS Certifications, HarnessProofs

\* Each client is attached to the session its next call is about.
LoopAttached == pc = "kickoff" => attached["driver"] = "initiator"

ApprovalAttached ==
  /\ pc \in {"answerer", "prompt"} => attached["asks"] = Asker
  /\ pc \in {"prompt", "request", "arm"} => attached["answers"] = Answerer

BooksAttached ==
  pc \in {"opening", "kickoff", "tripped", "stop", "closing"} => attached["driver"] = "initiator"

RosterAttached ==
  /\ pc = "begin" => attached["driver"] = "hostile"
  /\ pc = "ask" => attached["driver"] = "reader"

TypeInv ==
  /\ TypeOK
  /\ claim = "C1" => LoopAttached
  /\ claim = "C2" => ApprovalAttached
  /\ claim = "C3" => BooksAttached
  /\ claim = "C5" => RosterAttached

-----------------------------------------------------------------------------
\* C5, its driver and what goes on around it.
LEMMA RosterDriverTypes ==
  ASSUME HarnessTypeOK, RosterTypeOK, RosterAttached, RosterDriverStep
  PROVE  HarnessTypeOK' /\ RosterTypeOK' /\ RosterAttached'
  <1> USE DEF Client, Session
  <1>1. CASE ProbeName \/ ProbeCollision
    <2>1. PICK s \in Session, from \in {"name", "collision"},
               accepting \in {AcceptsNames, Collides}, to \in {"taken", "nameDisconnect"} :
            AskFor(from, s, accepting, to)
      BY <1>1 DEF ProbeName, ProbeCollision
    <2>2. PICK answer \in Answers(accepting) :
            /\ status' = IF answer = "session" THEN [status EXCEPT ![s] = "idle"] ELSE status
            /\ dropped' = (dropped \/ answer = "raises")
            /\ nameHeld' = Refused(answer)
            /\ pc' = IF Refused(answer) THEN to ELSE "nameDisconnect"
      BY <2>1 DEF AskFor
    <2>3. status' \in [Session -> Life] /\ pc' \in {"taken", "nameDisconnect"}
      BY <2>2 DEF HarnessTypeOK, Life
    <2>4. dropped' = (dropped \/ answer = "raises") /\ nameHeld' = (answer \in {"told", "raises"})
      BY <2>2 DEF Refused
    <2>5. UNCHANGED <<queued, called, receipts, saved, clientVars, busVars, failure, verdict,
                      described, roster, parts, breach>>
      BY <2>1 DEF AskFor
    <2>6. dropped' \in BOOLEAN /\ nameHeld' \in BOOLEAN
      BY <2>4
    <2> QED
      BY <2>3, <2>5, <2>6
         DEF HarnessTypeOK, RosterTypeOK, RosterAttached, Life, clientVars, busVars
  <1>2. CASE TakeName
    <2>1. status' \in [Session -> Life] /\ pc' \in {"collision", "nameDisconnect"}
      BY <1>2 DEF HarnessTypeOK, TakeName, Life
    <2>2. nameHeld' \in BOOLEAN
      BY <1>2 DEF RosterTypeOK, TakeName
    <2>3. UNCHANGED <<queued, called, receipts, saved, clientVars, busVars, failure, verdict,
                      dropped, described, roster, parts, breach>>
      BY <1>2 DEF TakeName
    <2> QED
      BY <2>1, <2>2, <2>3 DEF HarnessTypeOK, RosterTypeOK, RosterAttached, Life, clientVars, busVars
  <1>3. CASE ClearBreach
    BY <1>3 DEF HarnessTypeOK, RosterTypeOK, RosterAttached, ClearBreach, Goto, RemovesBreach,
                worldVars, clientVars, busVars
  <1>4. CASE Fetch
    BY <1>4 DEF HarnessTypeOK, RosterTypeOK, RosterAttached, Fetch, Goto,
                worldVars, clientVars, busVars
  <1>5. ASSUME UNCHANGED rosterVars
        PROVE  RosterTypeOK'
    BY <1>5 DEF RosterTypeOK, rosterVars
  <1>6. CASE (NameConnect \/ RosterConnect) /\ UNCHANGED rosterVars
    BY <1>5, <1>6, ConnectingKeepsType
       DEF NameConnect, RosterConnect, Connecting, Goto, RosterAttached
  <1>7. CASE (NameDisconnect \/ RosterDisconnect) /\ UNCHANGED rosterVars
    BY <1>5, <1>7, DisconnectingKeepsType
       DEF NameDisconnect, RosterDisconnect, Disconnecting, Goto, RosterAttached
  <1>8. CASE CertifyName /\ UNCHANGED rosterVars
    <2>1. verdict' \in [ClaimId -> {"none", "PASS", "FAIL", "BLOCKED", "raised"}]
      BY <1>8 DEF HarnessTypeOK, CertifyName, BothRaise
    <2> QED
      BY <1>5, <1>8, <2>1 DEF HarnessTypeOK, RosterAttached, CertifyName, Goto,
                        worldVars, clientVars, busVars
  <1>9. CASE RosterObserve /\ UNCHANGED rosterVars
    BY <1>5, <1>9, ObservingKeepsType DEF RosterObserve, Observing, Goto, RosterAttached
  <1>10. CASE (MakeHostile \/ MakeReader) /\ UNCHANGED rosterVars
    <2>1. HarnessTypeOK'
      BY <1>10, CreatingKeepsType DEF MakeHostile, MakeReader
    <2>2. RosterAttached'
      BY <1>10 DEF HarnessTypeOK, MakeHostile, MakeReader, Creating, Goto, RosterAttached
    <2> QED
      BY <1>5, <1>10, <2>1, <2>2
  <1>11. CASE (Begin \/ AskReader) /\ UNCHANGED rosterVars
    <2>1. attached["driver"] \in Session
      BY <1>11 DEF Begin, AskReader, Sending, Goto, RosterAttached
    <2>2. HarnessTypeOK'
      BY <1>11, <2>1, SendingKeepsType DEF Begin, AskReader
    <2> QED
      BY <1>5, <1>11, <2>2 DEF Begin, AskReader, Sending, Goto, RosterAttached
  <1>12. CASE (AwaitRan \/ AwaitListed) /\ UNCHANGED rosterVars
    BY <1>5, <1>12 DEF HarnessTypeOK, AwaitRan, AwaitListed, Waited, Goto, RosterAttached,
                 worldVars, clientVars, busVars
  <1>13. CASE RosterRaises /\ UNCHANGED rosterVars
    BY <1>5, <1>13, RaisingKeepsType DEF RosterRaises, Raising, RosterAttached
  <1>14. CASE RosterRelease /\ UNCHANGED rosterVars
    <2>1. <<"hostile", "reader">> \in Seq(Session)
      OBVIOUS
    <2>2. HarnessTypeOK' /\ pc' \in {"disconnect", "certify"}
      BY <1>14, <2>1, ReleasingKeepsType, ReleasingDeletes DEF RosterRelease
    <2> QED
      BY <1>5, <1>14, <2>2 DEF RosterAttached
  <1>15. CASE RosterCertify /\ UNCHANGED rosterVars
    <2>1. verdict' \in [ClaimId -> {"none", "PASS", "FAIL", "BLOCKED", "raised"}]
      BY <1>15 DEF HarnessTypeOK, RosterCertify, BothRaise
    <2> QED
      BY <1>5, <1>15, <2>1 DEF HarnessTypeOK, RosterAttached, RosterCertify, Goto,
                         worldVars, clientVars, busVars
  <1> QED
    BY <1>1, <1>2, <1>3, <1>4, <1>5, <1>6, <1>7, <1>8, <1>9, <1>10, <1>11, <1>12, <1>13,
       <1>14, <1>15
       DEF RosterDriverStep

LEMMA RosterWorldTypes ==
  ASSUME HarnessTypeOK, RosterTypeOK, RosterAttached, RosterEnvironment
  PROVE  HarnessTypeOK' /\ RosterTypeOK' /\ RosterAttached'
  <1> USE DEF Session
  <1>1. RosterAttached' /\ UNCHANGED <<clientVars, failure, verdict, nameHeld, dropped, parts>>
    BY DEF RosterEnvironment, RosterAttached, clientVars
  <1>2. CASE HostileEnds \/ (EndTurn("reader") /\ UNCHANGED <<described, roster, breach>>)
    <2>1. /\ status' \in [Session -> Life] /\ queued' \in SUBSET Session
          /\ called' \in SUBSET Session /\ receipts' \in [Session -> Receipt]
          /\ saved' \in [Session -> Receipt]
          /\ log' \in Seq(Event) /\ watching' \in BOOLEAN
      BY <1>2, EndKeepsType DEF HostileEnds
    <2>2. HarnessTypeOK'
      BY <1>1, <2>1 DEF HarnessTypeOK, Life, clientVars
    <2>3. described' \in BOOLEAN /\ UNCHANGED <<roster, breach>>
      BY <1>2 DEF HostileEnds, RosterTypeOK
    <2>4. RosterTypeOK'
      BY <1>1, <2>3 DEF RosterTypeOK
    <2> QED
      BY <1>1, <2>2, <2>4
  <1>3. CASE ReaderLists
    <2>1. log' \in Seq(Event) /\ watching' \in BOOLEAN
      <3>1. <<"tool.call_end">> \in Seq(EventType)
        BY DEF EventType
      <3> QED
        BY <1>3, <3>1, RecordKeepsType DEF ReaderLists
    <2>2. RosterTypeOK'
      BY <1>1, <1>3 DEF ReaderLists, RosterTypeOK, Part, Flags
    <2>3. HarnessTypeOK'
      BY <1>1, <1>3, <2>1 DEF HarnessTypeOK, ReaderLists, clientVars
    <2> QED
      BY <1>1, <2>2, <2>3
  <1>4. CASE ReaderObeys
    BY <1>1, <1>4 DEF HarnessTypeOK, RosterTypeOK, ReaderObeys, worldVars, busVars, clientVars
  <1> QED
    BY <1>2, <1>3, <1>4 DEF RosterEnvironment, RosterWorldStep

-----------------------------------------------------------------------------
\* C1.
LEMMA LoopDriverTypes ==
  ASSUME HarnessTypeOK, LoopTypeOK, LoopAttached, LoopDriverStep
  PROVE  HarnessTypeOK' /\ LoopTypeOK' /\ LoopAttached'
  <1> USE DEF Client, Session
  <1>1. CASE Relay
    <2>1. pc = "wait" /\ pc' \in {"wait", "release"} /\ failure' \in {failure, "leash"}
          /\ UNCHANGED <<called, receipts, bodies, early, clientVars, busVars, verdict>>
      BY <1>1 DEF Relay
    <2>2. /\ status' \in [Session -> Life] /\ queued' \in SUBSET Session
          /\ saved' \in [Session -> Receipt]
      <3>1. CASE Deliver("partner")
        BY <3>1, DeliverKeepsType
      <3>2. CASE UNCHANGED <<status, queued, saved>>
        BY <3>2 DEF HarnessTypeOK, Life
      <3> QED
        BY <1>1, <3>1, <3>2 DEF Relay
    <2>3. carriers' \in SUBSET {"driver", "initiator"}
      BY <1>1 DEF Relay, Carries, LoopTypeOK
    <2> QED
      BY <2>1, <2>2, <2>3
         DEF HarnessTypeOK, LoopTypeOK, LoopAttached, Life, clientVars, busVars
  <1>2. CASE LoopObserve
    <2>1. HarnessTypeOK' /\ LoopAttached'
      BY <1>2, ObservingKeepsType DEF LoopObserve, Observing, Goto, LoopAttached
    <2>2. early' = ("initiator" \in called \/ receipts["initiator"] # "none")
          /\ UNCHANGED <<carriers, bodies>>
      BY <1>2 DEF LoopObserve
    <2> QED
      BY <2>1, <2>2 DEF LoopTypeOK
  <1>3. CASE ReadBodies
    <2>1. bodies' \subseteq Receipt
      BY <1>3 DEF ReadBodies, ReceiptsOnDisk, HarnessTypeOK
    <2>2. LoopTypeOK' /\ LoopAttached'
      BY <1>3, <2>1 DEF ReadBodies, Goto, LoopTypeOK, LoopAttached
    <2> QED
      BY <1>3, <2>2 DEF ReadBodies, HarnessTypeOK, worldVars, clientVars, busVars
  <1>4. ASSUME UNCHANGED loopVars
        PROVE  LoopTypeOK'
    BY <1>4 DEF LoopTypeOK, loopVars
  <1>5. CASE LoopConnect /\ UNCHANGED loopVars
    BY <1>4, <1>5, ConnectingKeepsType DEF LoopConnect, Connecting, Goto, LoopAttached
  <1>6. CASE (MakePartner \/ MakeInitiator) /\ UNCHANGED loopVars
    <2>1. HarnessTypeOK'
      BY <1>6, CreatingKeepsType DEF MakePartner, MakeInitiator
    <2>2. LoopAttached'
      BY <1>6 DEF HarnessTypeOK, MakePartner, MakeInitiator, Creating, Goto, LoopAttached
    <2> QED
      BY <1>4, <1>6, <2>1, <2>2
  <1>7. CASE Kickoff
    <2>1. attached["driver"] \in Session
      BY <1>7 DEF Kickoff, Sending, Goto, LoopAttached
    <2>2. HarnessTypeOK'
      BY <1>7, <2>1, SendingKeepsType DEF Kickoff
    <2>3. LoopTypeOK'
      BY <1>7 DEF Kickoff, Carries, LoopTypeOK
    <2> QED
      BY <1>7, <2>2, <2>3 DEF Kickoff, Sending, Goto, LoopAttached
  <1>8. CASE (AwaitPartner \/ AwaitTimesOut) /\ UNCHANGED loopVars
    BY <1>4, <1>8 DEF HarnessTypeOK, AwaitPartner, AwaitTimesOut, Goto, LoopAttached,
                      worldVars, clientVars, busVars
  <1>9. CASE SaveInitiator /\ UNCHANGED loopVars
    BY <1>4, <1>9, SavingKeepsType DEF SaveInitiator, Goto, LoopAttached
  <1>10. CASE (LoopRaises \/ KickoffRaises) /\ UNCHANGED loopVars
    BY <1>4, <1>10, RaisingKeepsType DEF LoopRaises, KickoffRaises, Raising, LoopAttached
  <1>11. CASE LoopRelease /\ UNCHANGED loopVars
    <2>1. <<"initiator", "partner">> \in Seq(Session)
      OBVIOUS
    <2>2. HarnessTypeOK' /\ pc' \in {"disconnect", "certify"}
      BY <1>11, <2>1, ReleasingKeepsType, ReleasingDeletes DEF LoopRelease
    <2> QED
      BY <1>4, <1>11, <2>2 DEF LoopAttached
  <1>12. CASE LoopDisconnect /\ UNCHANGED loopVars
    BY <1>4, <1>12, DisconnectingKeepsType DEF LoopDisconnect, Disconnecting, Goto, LoopAttached
  <1>13. CASE LoopCertify /\ UNCHANGED loopVars
    BY <1>4, <1>13, ReportingKeepsType DEF LoopCertify, Goto, LoopAttached
  <1> QED
    BY <1>1, <1>2, <1>3, <1>5, <1>6, <1>7, <1>8, <1>9, <1>10, <1>11, <1>12, <1>13
       DEF LoopDriverStep

LEMMA AnswersAreReceipts ==
  \A p \in Session : AnswerFor(p) \in Receipt
  BY DEF AnswerFor, Receipt

LEMMA LoopWorldTypes ==
  ASSUME HarnessTypeOK, LoopTypeOK, LoopAttached, LoopEnvironment
  PROVE  HarnessTypeOK' /\ LoopTypeOK' /\ LoopAttached'
  <1> USE DEF Session
  <1>1. /\ LoopAttached' /\ UNCHANGED <<clientVars, failure, verdict>>
        /\ carriers' \in SUBSET {"driver", "initiator"} => LoopTypeOK'
    BY DEF LoopEnvironment, LoopTypeOK, LoopAttached, clientVars
  <1>2. PICK s \in {"partner", "initiator"} :
          \/ (SiblingCalls(s) \/ SiblingCallsAndWaits(s)) /\ Carries(s, Other(s))
          \/ (CallReturns(s) \/ EndTurn(s)) /\ UNCHANGED carriers
    BY DEF LoopEnvironment, LoopWorldStep
  <1>3. s \in Session /\ Other(s) \in Session
    BY DEF Other
  <1>8. carriers' \in SUBSET {"driver", "initiator"}
    BY <1>2 DEF Carries, Other, LoopTypeOK
  <1> SUFFICES /\ status' \in [Session -> Life] /\ queued' \in SUBSET Session
               /\ called' \in SUBSET Session /\ receipts' \in [Session -> Receipt]
               /\ saved' \in [Session -> Receipt]
               /\ log' \in Seq(Event) /\ watching' \in BOOLEAN
    BY <1>1, <1>8 DEF HarnessTypeOK, Life, clientVars
  <1>4. CASE SiblingCalls(s)
    BY <1>3, <1>4, AnswersAreReceipts, SendKeepsType DEF SiblingCalls
  <1>5. CASE SiblingCallsAndWaits(s)
    <2>1. log' \in Seq(Event) /\ watching' \in BOOLEAN
      <3>1. <<"tool.call_start">> \in Seq(EventType)
        BY DEF EventType
      <3> QED
        BY <1>3, <1>5, <3>1, RecordKeepsType DEF SiblingCallsAndWaits
    <2> QED
      BY <1>3, <1>5, <2>1 DEF SiblingCallsAndWaits, HarnessTypeOK, Life
  <1>6. CASE CallReturns(s)
    <2>1. log' \in Seq(Event) /\ watching' \in BOOLEAN
      <3>1. <<"tool.call_end">> \in Seq(EventType)
        BY DEF EventType
      <3> QED
        BY <1>3, <1>6, <3>1, RecordKeepsType DEF CallReturns
    <2> QED
      BY <1>3, <1>6, <2>1 DEF CallReturns, HarnessTypeOK, Life, Receipt
  <1>7. CASE EndTurn(s)
    BY <1>3, <1>7, EndKeepsType
  <1> QED
    BY <1>2, <1>4, <1>5, <1>6, <1>7

-----------------------------------------------------------------------------
\* C2.
LEMMA ApprovalDriverTypes ==
  ASSUME HarnessTypeOK, ApprovalTypeOK, ApprovalAttached, ApprovalDriverStep
  PROVE  HarnessTypeOK' /\ ApprovalTypeOK' /\ ApprovalAttached'
  <1> USE DEF Client, Session
  <1>1. Asker \in Session /\ Answerer \in Session
    BY DEF Asker, Answerer
  <1>2. CASE BeginProbe
    <2>1. log' = <<>> /\ <<>> \in Seq(Event)
      BY <1>2 DEF BeginProbe
    <2> QED
      BY <1>2, <2>1 DEF HarnessTypeOK, ApprovalTypeOK, ApprovalAttached, BeginProbe, Goto,
                        worldVars, clientVars
  <1>3. CASE AwaitRequest
    <2>1. PICK i \in Requests : armedFor' = log[i].session
      BY <1>3 DEF AwaitRequest
    <2>2. armedFor' \in Session
      <3>1. log[i] \in Event
        BY <2>1 DEF HarnessTypeOK, Requests, EventsOf
      <3> QED
        BY <2>1, <3>1 DEF Event
    <2>3. ApprovalAttached'
      BY <1>3 DEF AwaitRequest, ApprovalAttached, Goto, Asker, Answerer, clientVars
    <2> QED
      BY <1>3, <2>2, <2>3 DEF HarnessTypeOK, ApprovalTypeOK, AwaitRequest,
                              worldVars, clientVars, busVars
  <1>4. CASE NoRequest \/ RequestWithoutId \/ GiveUp
    <2>1. PICK from \in {"request", "receipt"}, kind \in FailureKind :
            Fails(from, kind, "release")
      BY <1>4 DEF NoRequest, RequestWithoutId, GiveUp, FailureKind
    <2> QED
      BY <2>1 DEF HarnessTypeOK, ApprovalTypeOK, ApprovalAttached, Fails, Goto,
                  worldVars, clientVars, busVars
  <1>5. CASE CloseWindow
    <2>1. failures' \in SUBSET FailureKind /\ granted' \in SUBSET Probe
      BY <1>5 DEF CloseWindow, ApprovalTypeOK, FailureKind
    <2> QED
      BY <1>5, <2>1 DEF HarnessTypeOK, ApprovalTypeOK, ApprovalAttached, CloseWindow, Goto,
                        worldVars, clientVars, busVars
  <1>6. CASE HangUp
    <2>1. open' \subseteq Client /\ watching' = FALSE /\ probe' \in Probe
          /\ pc' \in {"probe", "close"}
      BY <1>6 DEF HangUp, HarnessTypeOK, ApprovalTypeOK, Probe
    <2> QED
      BY <1>6, <2>1 DEF HarnessTypeOK, ApprovalTypeOK, ApprovalAttached, HangUp, worldVars
  <1>16. CASE HangUpRaises
    BY <1>16 DEF HarnessTypeOK, ApprovalTypeOK, ApprovalAttached, HangUpRaises, worldVars,
                 approvalVars
  <1>7. ASSUME UNCHANGED approvalVars
        PROVE  ApprovalTypeOK' /\ Asker' = Asker /\ Answerer' = Answerer
    BY <1>7 DEF ApprovalTypeOK, approvalVars, Asker, Answerer
  <1>8. CASE (ApprovalConnect \/ ConnectAsks \/ ConnectAnswers) /\ UNCHANGED approvalVars
    BY <1>7, <1>8, ConnectingKeepsType
       DEF ApprovalConnect, ConnectAsks, ConnectAnswers, Connecting, Goto, ApprovalAttached
  <1>9. CASE (MakeAsker \/ MakeAnswerer) /\ UNCHANGED approvalVars
    <2>1. HarnessTypeOK'
      BY <1>1, <1>9, CreatingKeepsType DEF MakeAsker, MakeAnswerer
    <2>2. ApprovalAttached'
      BY <1>7, <1>9
         DEF HarnessTypeOK, MakeAsker, MakeAnswerer, Creating, Goto, ApprovalAttached
    <2> QED
      BY <1>7, <1>9, <2>1, <2>2
  <1>10. CASE (PromptAsker \/ Arm) /\ UNCHANGED approvalVars
    <2>1. PICK c \in {"asks", "answers"}, from \in {"prompt", "arm"},
               to \in {"request", "receipt"} :
            Sending(from, c, to) /\ attached[c] \in Session
      BY <1>1, <1>10 DEF PromptAsker, Arm, Sending, Goto, ApprovalAttached
    <2>2. HarnessTypeOK'
      BY <2>1, SendingKeepsType
    <2>3. ApprovalAttached'
      BY <1>7, <1>10
         DEF PromptAsker, Arm, Sending, Goto, ApprovalAttached, clientVars
    <2> QED
      BY <1>7, <1>10, <2>2, <2>3
  <1>11. CASE PollReceipt /\ UNCHANGED approvalVars
    <2>1. HarnessTypeOK'
      BY <1>1, <1>11, SavingKeepsType DEF PollReceipt
    <2>2. pc' \in {"receipt", "release", "window"}
      BY <1>11 DEF PollReceipt
    <2> QED
      BY <1>7, <1>11, <2>1, <2>2 DEF ApprovalAttached
  <1>12. CASE ApprovalRaises /\ UNCHANGED approvalVars
    BY <1>7, <1>12, RaisingKeepsType DEF ApprovalRaises, Raising, ApprovalAttached
  <1>13. CASE ProbeRelease /\ UNCHANGED approvalVars
    <2>1. <<Asker, Answerer>> \in Seq(Session)
      BY <1>1
    <2>2. HarnessTypeOK' /\ pc' \in {"hangup", "close"}
      BY <1>13, <2>1, ReleasingKeepsType, ReleasingDeletes DEF ProbeRelease
    <2> QED
      BY <1>7, <1>13, <2>2 DEF ApprovalAttached
  <1>14. CASE ApprovalClose /\ UNCHANGED approvalVars
    BY <1>7, <1>14, DisconnectingKeepsType
       DEF ApprovalClose, Disconnecting, Goto, ApprovalAttached
  <1>15. CASE ApprovalCertify /\ UNCHANGED approvalVars
    BY <1>7, <1>15, ReportingKeepsType DEF ApprovalCertify, Goto, ApprovalAttached
  <1> QED
    BY <1>2, <1>3, <1>4, <1>5, <1>6, <1>8, <1>9, <1>10, <1>11, <1>12, <1>13, <1>14, <1>15,
       <1>16
       DEF ApprovalDriverStep

LEMMA ApprovalWorldTypes ==
  ASSUME HarnessTypeOK, ApprovalTypeOK, ApprovalAttached, ApprovalEnvironment
  PROVE  HarnessTypeOK' /\ ApprovalTypeOK' /\ ApprovalAttached'
  <1> USE DEF Session
  <1>1. Asker \in Session /\ Answerer \in Session
    BY DEF Asker, Answerer
  <1>2. /\ ApprovalAttached' /\ UNCHANGED <<clientVars, failure, verdict>>
        /\ request' \in {"none", "pending", "granted", "denied"} => ApprovalTypeOK'
    BY DEF ApprovalEnvironment, ApprovalTypeOK, ApprovalAttached, Asker, Answerer, clientVars
  <1> SUFFICES /\ status' \in [Session -> Life] /\ queued' \in SUBSET Session
               /\ called' \in SUBSET Session /\ receipts' \in [Session -> Receipt]
               /\ saved' \in [Session -> Receipt]
               /\ log' \in Seq(Event) /\ watching' \in BOOLEAN
               /\ request' \in {"none", "pending", "granted", "denied"}
    BY <1>2 DEF HarnessTypeOK, Life, clientVars
  <1>3. CASE AskerAsks
    <2>1. <<"permission.requested">> \in Seq(EventType)
      BY DEF EventType
    <2>2. log' \in Seq(Event) /\ watching' \in BOOLEAN
      BY <1>1, <1>3, <2>1, RecordKeepsType DEF AskerAsks
    <2> QED
      BY <1>1, <1>3, <2>2 DEF AskerAsks, HarnessTypeOK, Life
  <1>4. CASE SiblingGrants \/ OthersDeny
    <2>1. PICK outcome \in {"granted", "denied"},
               type \in {"permission.granted", "permission.denied"} : Resolve(outcome, type)
      BY <1>4 DEF SiblingGrants, OthersDeny
    <2>2. <<type>> \in Seq(EventType)
      BY DEF EventType
    <2>3. log' \in Seq(Event) /\ watching' \in BOOLEAN
      BY <1>1, <2>1, <2>2, RecordKeepsType DEF Resolve
    <2> QED
      BY <1>1, <2>1, <2>3 DEF Resolve, HarnessTypeOK, Life
  <1>5. CASE AnswererSends
    <2>1. PICK r \in {AnswerFor(Asker), "no_such_sibling", "refused"} :
            SendToSibling(Answerer, Asker, r)
      BY <1>5 DEF AnswererSends
    <2>2. r \in Receipt
      BY <1>1, AnswersAreReceipts DEF Receipt
    <2>3. request' = request
      BY <1>5 DEF AnswererSends
    <2> QED
      BY <1>1, <2>1, <2>2, <2>3, SendKeepsType DEF ApprovalTypeOK
  <1>6. ASSUME NEW s \in {Asker, Answerer}, EndTurn(s), UNCHANGED request
        PROVE  /\ status' \in [Session -> Life] /\ queued' \in SUBSET Session
               /\ called' \in SUBSET Session /\ receipts' \in [Session -> Receipt]
               /\ saved' \in [Session -> Receipt]
               /\ log' \in Seq(Event) /\ watching' \in BOOLEAN
               /\ request' \in {"none", "pending", "granted", "denied"}
    BY <1>1, <1>6, EndKeepsType DEF ApprovalTypeOK
  <1> QED
    BY <1>3, <1>4, <1>5, <1>6 DEF ApprovalEnvironment, ApprovalWorldStep

-----------------------------------------------------------------------------
\* C3.
LEMMA BooksDriverTypes ==
  ASSUME HarnessTypeOK, BooksTypeOK, BooksAttached, BooksDriverStep
  PROVE  HarnessTypeOK' /\ BooksTypeOK' /\ BooksAttached'
  <1> USE DEF Client, Session
  <1>1. CASE OpenPool
    <2>1. opening' \in Nat \cup {Unread} /\ UNCHANGED <<pool, closing, stopped>>
      BY <1>1 DEF OpenPool, Snapshot, BooksTypeOK
    <2>2. BooksTypeOK'
      BY <2>1 DEF BooksTypeOK
    <2> QED
      BY <1>1, <2>2 DEF HarnessTypeOK, BooksAttached, OpenPool, Snapshot, Goto,
                        worldVars, clientVars, busVars
  <1>2. CASE Stop
    <2>1. attached["driver"] \in Session
      BY <1>2 DEF Stop, Goto, BooksAttached
    <2>2. /\ status' \in [Session -> Life] /\ queued' \in SUBSET Session
          /\ called' \in SUBSET Session /\ UNCHANGED receipts
          /\ saved' \in [Session -> Receipt]
      <3>1. CASE UNCHANGED worldVars
        BY <3>1 DEF HarnessTypeOK, worldVars, Life
      <3>2. CASE /\ called' = called \ {attached["driver"]}
                 /\ status' = [status EXCEPT ![attached["driver"]] = "idle"]
                 /\ UNCHANGED <<queued, saved, receipts>>
        BY <2>1, <3>2 DEF HarnessTypeOK, Life
      <3>3. CASE /\ called' = called \ {attached["driver"]}
                 /\ queued' = queued \ {attached["driver"]}
                 /\ StartTurn(attached["driver"])
                 /\ UNCHANGED receipts
        BY <2>1, <3>3, TurnKeepsType DEF HarnessTypeOK
      <3> QED
        BY <1>2, <3>1, <3>2, <3>3 DEF Stop
    <2>3. stopped' = (framework # OnlyCounts) /\ pc' = "closing"
          /\ UNCHANGED <<clientVars, busVars, failure, verdict, pool, opening, closing>>
      BY <1>2 DEF Stop, Goto
    <2>4. HarnessTypeOK' /\ BooksTypeOK'
      BY <2>2, <2>3 DEF HarnessTypeOK, BooksTypeOK, Life, clientVars, busVars
    <2>5. attached' = attached /\ attached["driver"] = "initiator"
      BY <1>2, <2>3 DEF Stop, Goto, BooksAttached, clientVars
    <2> QED
      BY <2>4, <2>5 DEF BooksAttached
  <1>3. CASE ClosePool
    <2>1. pool' = pool /\ closing' \in Nat \cup {Unread} /\ UNCHANGED <<opening, stopped>>
      BY <1>3 DEF ClosePool, ReadClosing, BooksTypeOK
    <2>2. BooksTypeOK'
      BY <2>1 DEF BooksTypeOK
    <2> QED
      BY <1>3, <2>2 DEF HarnessTypeOK, BooksAttached, ClosePool, Goto,
                        worldVars, clientVars, busVars
  <1>4. ASSUME UNCHANGED booksVars
        PROVE  BooksTypeOK'
    BY <1>4 DEF BooksTypeOK, booksVars
  <1>5. CASE BooksConnect /\ UNCHANGED booksVars
    BY <1>4, <1>5, ConnectingKeepsType DEF BooksConnect, Connecting, Goto, BooksAttached
  <1>6. CASE SetBudget /\ UNCHANGED booksVars
    BY <1>4, <1>6 DEF HarnessTypeOK, BooksAttached, SetBudget, Goto,
                      worldVars, clientVars, busVars
  <1>7. CASE BooksObserve /\ UNCHANGED booksVars
    BY <1>4, <1>7, ObservingKeepsType DEF BooksObserve, Observing, Goto, BooksAttached
  <1>8. CASE (BooksPartner \/ BooksInitiator) /\ UNCHANGED booksVars
    <2>1. HarnessTypeOK'
      BY <1>8, CreatingKeepsType DEF BooksPartner, BooksInitiator
    <2>2. BooksAttached'
      BY <1>8 DEF HarnessTypeOK, BooksPartner, BooksInitiator, Creating, Goto, BooksAttached
    <2> QED
      BY <1>4, <1>8, <2>1, <2>2
  <1>9. CASE Volleys /\ UNCHANGED booksVars
    <2>1. attached["driver"] = "initiator" /\ UNCHANGED attached
      BY <1>9 DEF Volleys, Sending, Goto, BooksAttached, clientVars
    <2>2. HarnessTypeOK'
      BY <1>9, <2>1, SendingKeepsType DEF Volleys
    <2> QED
      BY <1>4, <1>9, <2>1, <2>2 DEF BooksAttached
  <1>10. CASE (AwaitTripped \/ VolleyTimesOut) /\ UNCHANGED booksVars
    BY <1>4, <1>10 DEF HarnessTypeOK, BooksAttached, AwaitTripped, VolleyTimesOut, Goto,
                       worldVars, clientVars, busVars
  <1>11. CASE (BooksRaises \/ BudgetRaises) /\ UNCHANGED booksVars
    BY <1>4, <1>11, RaisingKeepsType DEF BooksRaises, BudgetRaises, Raising, BooksAttached
  <1>12. CASE BooksRelease /\ UNCHANGED booksVars
    <2>1. <<"partner", "initiator">> \in Seq(Session)
      OBVIOUS
    <2>2. HarnessTypeOK' /\ pc' \in {"disconnect", "certify"}
      BY <1>12, <2>1, ReleasingKeepsType, ReleasingDeletes DEF BooksRelease
    <2> QED
      BY <1>4, <1>12, <2>2 DEF BooksAttached
  <1>13. CASE BooksDisconnect /\ UNCHANGED booksVars
    BY <1>4, <1>13, DisconnectingKeepsType
       DEF BooksDisconnect, Disconnecting, Goto, BooksAttached
  <1>14. CASE BooksCertify /\ UNCHANGED booksVars
    BY <1>4, <1>14, ReportingKeepsType DEF BooksCertify, Goto, BooksAttached
  <1> QED
    BY <1>1, <1>2, <1>3, <1>5, <1>6, <1>7, <1>8, <1>9, <1>10, <1>11, <1>12, <1>13, <1>14
       DEF BooksDriverStep

LEMMA BooksWorldTypes ==
  ASSUME HarnessTypeOK, BooksTypeOK, BooksAttached, BooksEnvironment
  PROVE  HarnessTypeOK' /\ BooksTypeOK' /\ BooksAttached'
  <1> USE DEF Session
  <1>1. /\ UNCHANGED <<pc, clientVars, failure, verdict, opening, closing, stopped>>
        /\ BooksAttached'
    BY DEF BooksEnvironment, BooksAttached, clientVars
  <1>2. PICK s \in {"partner", "initiator"} : Volley(s) \/ Charged(s)
    BY DEF BooksEnvironment, BooksWorldStep
  <1>3. s \in Session /\ Opponent(s) \in Session
    BY DEF Opponent
  <1>4. /\ status' \in [Session -> Life] /\ queued' \in SUBSET Session
        /\ called' \in SUBSET Session /\ receipts' \in [Session -> Receipt]
        /\ saved' \in [Session -> Receipt]
        /\ log' \in Seq(Event) /\ watching' \in BOOLEAN
    BY <1>2, <1>3, AnswersAreReceipts, SendKeepsType, EndKeepsType DEF Volley, Charged
  <1>5. pool' \in Nat
    BY <1>2 DEF Volley, Charged, BooksTypeOK
  <1> QED
    BY <1>1, <1>4, <1>5 DEF HarnessTypeOK, BooksTypeOK, Life, clientVars

-----------------------------------------------------------------------------
\* A step is the claim's own, and leaves the variables of the others alone.
LEMMA OneClaimSteps ==
  ASSUME [Next]_vars
  PROVE  /\ UNCHANGED fixedVars
         /\ \/ /\ claim = "C1" /\ (LoopDriverStep \/ LoopEnvironment)
               /\ UNCHANGED <<approvalVars, booksVars, rosterVars>>
            \/ /\ claim = "C2" /\ (ApprovalDriverStep \/ ApprovalEnvironment)
               /\ UNCHANGED <<loopVars, booksVars, rosterVars>>
            \/ /\ claim = "C3" /\ (BooksDriverStep \/ BooksEnvironment)
               /\ UNCHANGED <<loopVars, approvalVars, rosterVars>>
            \/ /\ claim = "C5" /\ (RosterDriverStep \/ RosterEnvironment)
               /\ UNCHANGED <<loopVars, approvalVars, booksVars>>
            \/ UNCHANGED vars
  <1>1. CASE DriverStep
    BY <1>1 DEF DriverStep
  <1>2. CASE Environment
    BY <1>2 DEF Environment
  <1>3. CASE UNCHANGED vars
    BY <1>3 DEF vars, harnessVars, fixedVars
  <1> QED
    BY <1>1, <1>2, <1>3 DEF Next, Finished

LEMMA TypeInvInit == Init => TypeInv
  <1> SUFFICES ASSUME Init PROVE TypeInv
    OBVIOUS
  <1>1. HarnessTypeOK /\ pc = "connect"
    <2>1. <<>> \in Seq(Event)
      OBVIOUS
    <2> QED
      BY <2>1 DEF Init, HarnessInit, HarnessTypeOK, Receipt
  <1>2. LoopTypeOK /\ ApprovalTypeOK /\ BooksTypeOK /\ RosterTypeOK
    BY DEF Init, LoopInit, LoopTypeOK, ApprovalInit, ApprovalTypeOK, Probe, BooksInit,
           BooksTypeOK, RosterInit, RosterTypeOK
  <1>3. LoopAttached /\ ApprovalAttached /\ BooksAttached /\ RosterAttached
    BY <1>1 DEF LoopAttached, ApprovalAttached, BooksAttached, RosterAttached
  <1> QED
    BY <1>1, <1>2, <1>3 DEF Init, TypeInv, TypeOK

LEMMA TypeInvStep == TypeInv /\ [Next]_vars => TypeInv'
  <1> SUFFICES ASSUME TypeInv, [Next]_vars PROVE TypeInv'
    OBVIOUS
  <1>1. HarnessTypeOK /\ LoopTypeOK /\ ApprovalTypeOK /\ BooksTypeOK /\ RosterTypeOK
    BY DEF TypeInv, TypeOK
  <1>2. /\ claim' = claim /\ claim' \in {"C1", "C2", "C3", "C5"}
        /\ framework' \in FrameworksOf(claim')
    <2>1. claim' = claim /\ framework' = framework
      BY OneClaimSteps DEF fixedVars
    <2>2. FrameworksOf(claim') = FrameworksOf(claim)
      BY <2>1
    <2> QED
      BY <2>1, <2>2 DEF TypeInv, TypeOK
  <1>3. /\ UNCHANGED loopVars => LoopTypeOK'
        /\ UNCHANGED approvalVars => ApprovalTypeOK'
        /\ UNCHANGED booksVars => BooksTypeOK'
        /\ UNCHANGED rosterVars => RosterTypeOK'
    BY <1>1 DEF LoopTypeOK, loopVars, ApprovalTypeOK, approvalVars, BooksTypeOK, booksVars,
                RosterTypeOK, rosterVars
  <1>4. CASE claim = "C1" /\ (LoopDriverStep \/ LoopEnvironment)
             /\ UNCHANGED <<approvalVars, booksVars, rosterVars>>
    <2>1. LoopAttached
      BY <1>4 DEF TypeInv
    <2>2. HarnessTypeOK' /\ LoopTypeOK' /\ LoopAttached'
      BY <1>1, <1>4, <2>1, LoopDriverTypes, LoopWorldTypes
    <2> QED
      BY <1>2, <1>3, <1>4, <2>2 DEF TypeInv, TypeOK
  <1>5. CASE claim = "C2" /\ (ApprovalDriverStep \/ ApprovalEnvironment)
             /\ UNCHANGED <<loopVars, booksVars, rosterVars>>
    <2>1. ApprovalAttached
      BY <1>5 DEF TypeInv
    <2>2. HarnessTypeOK' /\ ApprovalTypeOK' /\ ApprovalAttached'
      BY <1>1, <1>5, <2>1, ApprovalDriverTypes, ApprovalWorldTypes
    <2> QED
      BY <1>2, <1>3, <1>5, <2>2 DEF TypeInv, TypeOK
  <1>6. CASE claim = "C3" /\ (BooksDriverStep \/ BooksEnvironment)
             /\ UNCHANGED <<loopVars, approvalVars, rosterVars>>
    <2>1. BooksAttached
      BY <1>6 DEF TypeInv
    <2>2. HarnessTypeOK' /\ BooksTypeOK' /\ BooksAttached'
      BY <1>1, <1>6, <2>1, BooksDriverTypes, BooksWorldTypes
    <2> QED
      BY <1>2, <1>3, <1>6, <2>2 DEF TypeInv, TypeOK
  <1>7. CASE claim = "C5" /\ (RosterDriverStep \/ RosterEnvironment)
             /\ UNCHANGED <<loopVars, approvalVars, booksVars>>
    <2>1. RosterAttached
      BY <1>7 DEF TypeInv
    <2>2. HarnessTypeOK' /\ RosterTypeOK' /\ RosterAttached'
      BY <1>1, <1>7, <2>1, RosterDriverTypes, RosterWorldTypes
    <2> QED
      BY <1>2, <1>3, <1>7, <2>2 DEF TypeInv, TypeOK
  <1>8. CASE UNCHANGED vars
    <2>1. UNCHANGED <<loopVars, approvalVars, booksVars, rosterVars>>
      BY <1>8 DEF vars
    <2>2. HarnessTypeOK'
      BY <1>1, <1>8 DEF HarnessTypeOK, vars, harnessVars, worldVars, clientVars, busVars
    <2>3. UNCHANGED <<pc, attached, probe>>
      BY <1>8 DEF vars, harnessVars, clientVars, approvalVars
    <2>4. UNCHANGED <<Asker, Answerer>>
      BY <2>3 DEF Asker, Answerer
    <2> QED
      BY <1>2, <1>3, <2>1, <2>2, <2>3, <2>4
         DEF TypeInv, TypeOK, LoopAttached, ApprovalAttached, BooksAttached, RosterAttached
  <1> QED
    BY OneClaimSteps, <1>4, <1>5, <1>6, <1>7, <1>8

LEMMA TypeInvHolds == Spec => []TypeInv
  BY TypeInvInit, TypeInvStep, PTL DEF Spec

\* The four certifications keep their types: what a driver records of sessions,
\* receipts, the bus and its verdicts is never anything but that.
THEOREM CertificationsTyped == Spec => []TypeOK
  <1>1. TypeInv => TypeOK
    BY DEF TypeInv
  <1> QED
    BY <1>1, TypeInvHolds, PTL

-----------------------------------------------------------------------------
\* A claim writes the verdicts that are its own and no other, and only the
\* probes of C2 come by their waits.
OwnIds(c) == IF c = "C3" THEN {"C3a", "C3b"} ELSE IF c = "C5" THEN {"C5a", "C5b"} ELSE {c}

OwnVerdicts ==
  /\ \A i \in ClaimId \ OwnIds(claim) : verdict[i] = "none"
  /\ claim # "C2" => pc \notin {"arm", "receipt", "window"}

LEMMA LoopWritesItsOwn ==
  ASSUME HarnessTypeOK, LoopDriverStep \/ LoopEnvironment
  PROVE  /\ \A i \in ClaimId \ {"C1"} : verdict'[i] = verdict[i]
         /\ pc' = pc \/ pc' \notin {"arm", "receipt", "window"}
  <1>1. CASE LoopCertify
    BY <1>1, ReportingJudges DEF LoopCertify, Goto
  <1>2. CASE LoopRelease
    BY <1>2 DEF LoopRelease, Releasing
  <1> QED
    BY <1>1, <1>2
       DEF LoopDriverStep, LoopEnvironment, Relay, LoopObserve, ReadBodies, LoopConnect,
           MakePartner, MakeInitiator, Kickoff, AwaitPartner, AwaitTimesOut, SaveInitiator,
           LoopRaises, KickoffRaises, LoopDisconnect, Connecting, Observing, Creating, Sending,
           Saving, Raising, Disconnecting, Goto

LEMMA ApprovalWritesItsOwn ==
  ASSUME HarnessTypeOK, ApprovalDriverStep \/ ApprovalEnvironment
  PROVE  \A i \in ClaimId \ {"C2"} : verdict'[i] = verdict[i]
  <1>1. CASE ApprovalCertify
    BY <1>1, ReportingJudges DEF ApprovalCertify
  <1>2. CASE ProbeRelease
    BY <1>2 DEF ProbeRelease, Releasing
  <1> QED
    BY <1>1, <1>2
       DEF ApprovalDriverStep, ApprovalEnvironment, BeginProbe, AwaitRequest, NoRequest,
           RequestWithoutId, GiveUp, Fails, CloseWindow, HangUp, HangUpRaises, approvalVars, ApprovalConnect, ConnectAsks, ConnectAnswers, MakeAsker,
           MakeAnswerer, PromptAsker, Arm, PollReceipt, ApprovalRaises, ApprovalClose,
           Connecting, Creating, Sending, Saving, Raising, Disconnecting

LEMMA BooksWriteTheirOwn ==
  ASSUME HarnessTypeOK, BooksDriverStep \/ BooksEnvironment
  PROVE  /\ \A i \in ClaimId \ {"C3a", "C3b"} : verdict'[i] = verdict[i]
         /\ pc' = pc \/ pc' \notin {"arm", "receipt", "window"}
  <1>1. CASE BooksCertify
    BY <1>1, ReportingJudges DEF BooksCertify, Goto
  <1>2. CASE BooksRelease
    BY <1>2 DEF BooksRelease, Releasing
  <1> QED
    BY <1>1, <1>2
       DEF BooksDriverStep, BooksEnvironment, OpenPool, Snapshot, Stop, ClosePool, BooksConnect,
           SetBudget, BooksObserve, BooksPartner, BooksInitiator, Volleys, AwaitTripped,
           VolleyTimesOut, BooksRaises, BudgetRaises, BooksDisconnect, Connecting, Observing,
           Creating, Sending, Raising, Disconnecting, Goto

LEMMA RosterWritesItsOwn ==
  ASSUME HarnessTypeOK, RosterDriverStep \/ RosterEnvironment
  PROVE  /\ \A i \in ClaimId \ {"C5a", "C5b"} : verdict'[i] = verdict[i]
         /\ pc' = pc \/ pc' \notin {"arm", "receipt", "window"}
  <1>1. CASE CertifyName \/ RosterCertify
    BY <1>1 DEF CertifyName, RosterCertify, BothRaise, Goto, HarnessTypeOK
  <1>2. CASE RosterRelease
    BY <1>2 DEF RosterRelease, Releasing
  <1>3. CASE ProbeName \/ TakeName \/ ProbeCollision
    BY <1>3 DEF ProbeName, TakeName, ProbeCollision, AskFor
  <1> QED
    BY <1>1, <1>2, <1>3
       DEF RosterDriverStep, RosterEnvironment, ClearBreach, Fetch, NameConnect, NameDisconnect,
           RosterConnect, RosterObserve, MakeHostile, Begin, AwaitRan, MakeReader, AskReader,
           AwaitListed, Waited, RosterRaises, RosterDisconnect, Connecting, Observing, Creating,
           Sending, Raising, Disconnecting, Goto

LEMMA OwnVerdictsHold == Spec => [](TypeInv /\ OwnVerdicts)
  <1>1. Init => OwnVerdicts
    BY DEF Init, HarnessInit, OwnVerdicts
  <1>2. TypeInv /\ OwnVerdicts /\ [Next]_vars => OwnVerdicts'
    <2> SUFFICES ASSUME TypeInv, OwnVerdicts, [Next]_vars PROVE OwnVerdicts'
      OBVIOUS
    <2>1. claim' = claim /\ HarnessTypeOK
      BY OneClaimSteps DEF fixedVars, TypeInv, TypeOK
    <2>2. CASE claim = "C1" /\ (LoopDriverStep \/ LoopEnvironment)
      BY <2>1, <2>2, LoopWritesItsOwn DEF OwnVerdicts, OwnIds
    <2>3. CASE claim = "C2" /\ (ApprovalDriverStep \/ ApprovalEnvironment)
      BY <2>1, <2>3, ApprovalWritesItsOwn DEF OwnVerdicts, OwnIds
    <2>4. CASE claim = "C3" /\ (BooksDriverStep \/ BooksEnvironment)
      BY <2>1, <2>4, BooksWriteTheirOwn DEF OwnVerdicts, OwnIds
    <2>5. CASE claim = "C5" /\ (RosterDriverStep \/ RosterEnvironment)
      BY <2>1, <2>5, RosterWritesItsOwn DEF OwnVerdicts, OwnIds
    <2>6. CASE UNCHANGED vars
      BY <2>1, <2>6 DEF vars, harnessVars, OwnVerdicts
    <2> QED
      BY <2>2, <2>3, <2>4, <2>5, <2>6, OneClaimSteps
  <1> QED
    BY <1>1, <1>2, TypeInvHolds, PTL DEF Spec
=============================================================================
