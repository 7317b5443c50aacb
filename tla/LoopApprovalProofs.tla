------------------------- MODULE LoopApprovalProofs -------------------------
(***************************************************************************)
(* What the verdicts of C1 and C2 say, for every bound on the siblings'    *)
(* sends: one invariant of each claim, and the theorems that follow of it. *)
(***************************************************************************)
EXTENDS CertificationProofs

-----------------------------------------------------------------------------
(***************************************************************************)
(* C1: the partner is set going by the initiator's call and by nothing     *)
(* else, and what the log holds of the two is in the order in which it     *)
(* came about.  A receipt that does not wait is seen before the turn it    *)
(* starts, one that does is seen after it.                                 *)
(***************************************************************************)


Pair == {"partner", "initiator"}
BeforeKickoff == {"connect", "partner", "initiator", "kickoff"}
BeforeWatch == BeforeKickoff \cup {"observe"}

\* What the driver of the claim has made, and nothing else, is there, unless a
\* creation was not answered.
LoopPlaces ==
  /\ handles \subseteq Pair /\ open \subseteq {"driver"}
  /\ failure # "unmet" => \A s \in Session : status[s] = "absent" \/ s \in handles
  /\ pc \in {"connect", "partner"} => handles = {}
  /\ pc = "connect" => open = {}
  /\ pc = "initiator" => status["partner"] = "idle"
  /\ pc \in BeforeKickoff =>
       /\ \A s \in Session : status[s] \notin AtWork
       /\ called = {} /\ receipts["initiator"] = "none"
  /\ pc \in {"kickoff", "observe", "wait", "save", "bodies", "release"} =>
       \A s \in Pair : status[s] \in InMemory
  /\ pc = "disconnect" => \A s \in Session : status[s] \notin InMemory

\* The partner is released after the initiator.
PartnerOutlives == status["partner"] \notin InMemory => status["initiator"] \notin InMemory

\* Without an observer nobody is at work, once the exchange has begun.
Unwatched ==
  /\ pc \in BeforeWatch => ~watching /\ log = <<>> /\ ~early
  /\ pc \notin BeforeWatch /\ ~watching => \A s \in Session : status[s] \notin AtWork

LoopFails ==
  /\ pc \in BeforeWatch \cup {"wait", "save", "bodies"} => failure = "none"
  /\ failure = "leash" => framework = DriverRelays
  /\ failure = "unmet" => pc \in {"certify", "done"}

LoopEnds ==
  pc \in {"certify", "done"} /\ failure \in {"none", "timeout", "leash"} =>
    open = {} /\ ~watching /\ \A s \in Session : status[s] \notin InMemory

\* The initiator has not called yet.
Untouched == "initiator" \notin called /\ receipts["initiator"] = "none"

\* The partner is set going by the initiator's call and by nothing else: what
\* it has been sent is the initiator's, from its first call on.
PartnerIsCalled ==
  /\ carriers = {"initiator"} \/ (carriers = {} /\ Untouched)
  /\ status["initiator"] \in {"idle", "running"} /\ "initiator" \in called =>
       receipts["initiator"] # "none"
  /\ framework # AwaitsTurn => \A s \in Session : status[s] # "held"
  /\ Untouched => ~PartnerRan /\ status["partner"] \notin AtWork /\ status["initiator"] # "held"
  /\ \A i \in DOMAIN log : log[i].session \in Pair

\* What the driver has seen when it judges.
LoopSeen ==
  /\ pc \in {"save", "bodies"} => PartnerRan
  /\ framework = Shipped /\ pc = "bodies" => saved["initiator"] # "none"
  /\ failure = "none" /\ pc \in {"release", "disconnect", "certify", "done"} =>
       PartnerRan /\ (framework = Shipped => bodies # {})

SeenFirst ==
  \E i \in DOMAIN log :
    IsReceipt(log[i]) /\ \A j \in DOMAIN log : IsPartnersTurn(log[j]) => i < j

\* A receipt that does not wait is seen before the turn it starts.
ReceiptIsFirst ==
  framework = Shipped /\ pc \notin BeforeWatch /\ ~early => Untouched \/ SeenFirst

\* One that waits is seen after it.
ReceiptIsLast ==
  framework = AwaitsTurn /\ ~early =>
    \A i \in DOMAIN log : IsReceipt(log[i]) /\ log[i].session = "initiator" =>
      \E j \in DOMAIN log : j < i /\ IsPartnersTurn(log[j])

\* For the initiator is held as long as the partner's first turn goes on.
FirstTurnIsAwaited ==
  framework = AwaitsTurn /\ pc \notin BeforeWatch /\ ~early /\ ~PartnerRan =>
    /\ status["partner"] # "held"
    /\ status["initiator"] = "held" => status["partner"] = "running"
    /\ status["partner"] = "running" => status["initiator"] \in {"held", "deleted"}

LoopVerdict ==
  /\ pc # "done" => verdict["C1"] = "none"
  /\ OnlyTheInitiatorCarried /\ BlockingReceiptIsCaught /\ SoundReceiptIsNotBlamed

LoopInv ==
  /\ LoopPlaces /\ PartnerOutlives /\ Unwatched /\ LoopFails /\ LoopEnds
  /\ PartnerIsCalled /\ LoopSeen
  /\ ReceiptIsFirst /\ ReceiptIsLast /\ FirstTurnIsAwaited
  /\ LoopVerdict

-----------------------------------------------------------------------------
(***************************************************************************)
(* What the two siblings do, action by action.                             *)
(***************************************************************************)

\* The log grows behind what is in it, by events of s.
GrowsBy(s) ==
  /\ watching' = watching
  /\ DOMAIN log \subseteq DOMAIN log' /\ \A i \in DOMAIN log : log'[i] = log[i]
  /\ \A i \in DOMAIN log' \ DOMAIN log :
       log'[i].session = s /\ \A j \in DOMAIN log : j < i

\* Only the two are moved, and only while they are loaded.
MovesThePair ==
  \A x \in Session : \/ status'[x] = status[x]
                     \/ x \in Pair /\ status[x] \in InMemory /\ status'[x] \in InMemory

\* What is on disk was there or is what was received.
SavesReceipts == \A x \in Session : saved'[x] \in {saved[x], receipts[x]}

LEMMA LogIsCounted ==
  ASSUME HarnessTypeOK
  PROVE  Len(log) \in Nat /\ DOMAIN log = 1..Len(log)
  BY DEF HarnessTypeOK

LEMMA DeliverSaves ==
  ASSUME HarnessTypeOK, NEW p \in Session, Deliver(p)
  PROVE  SavesReceipts
  BY DEF HarnessTypeOK, Deliver, StartTurn, SavesReceipts

LEMMA CallMoves ==
  ASSUME HarnessTypeOK, NEW s \in Pair, NEW p \in Pair, p = Other(s), SiblingCalls(s)
  PROVE  /\ status[s] = "running" /\ s \notin called /\ called' = called \cup {s}
         /\ MovesThePair /\ SavesReceipts /\ GrowsBy(s)
         /\ receipts'[s] # "none" /\ \A x \in Session \ {s} : receipts'[x] = receipts[x]
         /\ \A x \in Session \ {p} : status'[x] = status[x]
         /\ status'[p] = status[p] \/ (status[p] = "idle" /\ status'[p] = "running")
         /\ framework = AwaitsTurn => status'[p] = status[p] /\ status[p] # "idle"
         /\ \A i \in DOMAIN log' \ DOMAIN log : ~IsPartnersTurn(log'[i])
         /\ watching => \E i \in DOMAIN log' \ DOMAIN log : IsReceipt(log'[i])
  <1>1. s \in Session /\ p \in Session /\ s # p
    BY DEF Pair, Session, Other
  <1>2. PICK r \in {"accepted", "queued", "no_such_sibling"} : SendToSibling(s, p, r)
    BY DEF SiblingCalls, AnswerFor
  <1>3. /\ status[s] = "running" /\ s \notin called /\ called' = called \cup {s}
        /\ receipts' = [receipts EXCEPT ![s] = r]
        /\ Record(<<"tool.call_start", "tool.call_end">>, s)
    BY <1>2 DEF SendToSibling
  <1>4. /\ \A x \in Session \ {p} : status'[x] = status[x]
        /\ status'[p] = status[p] \/ (status[p] = "idle" /\ status'[p] = "running")
    BY <1>1, <1>2, SendMoves
  <1>5. MovesThePair
    BY <1>1, <1>4 DEF MovesThePair, InMemory
  <1>6. SavesReceipts
    <2>1. CASE Deliver(p)
      BY <1>1, <2>1, DeliverSaves
    <2>2. CASE UNCHANGED <<status, queued, saved>>
      BY <2>2 DEF SavesReceipts
    <2> QED
      BY <1>2, <2>1, <2>2 DEF SendToSibling
  <1>7. "tool.call_start" \in EventType /\ "tool.call_end" \in EventType
    BY DEF EventType
  <1>8. /\ watching' = watching
        /\ DOMAIN log \subseteq DOMAIN log' /\ \A i \in DOMAIN log : log'[i] = log[i]
        /\ watching => /\ Len(log) + 2 \in DOMAIN log'
                       /\ log'[Len(log) + 2] = [type |-> "tool.call_end", session |-> s]
        /\ \A i \in DOMAIN log' \ DOMAIN log :
             i > Len(log) /\ log'[i] \in {[type |-> "tool.call_start", session |-> s],
                                         [type |-> "tool.call_end", session |-> s]}
    BY <1>1, <1>3, <1>7, CallIsRecorded
  <1>9. Len(log) \in Nat /\ DOMAIN log = 1..Len(log)
    BY LogIsCounted
  <1>10. GrowsBy(s) /\ \A i \in DOMAIN log' \ DOMAIN log : ~IsPartnersTurn(log'[i])
    <2>1. ASSUME NEW i \in DOMAIN log' \ DOMAIN log
          PROVE  /\ log'[i].session = s /\ ~IsPartnersTurn(log'[i])
                 /\ i > Len(log)
      BY <1>8 DEF IsPartnersTurn
    <2>2. ASSUME NEW i \in DOMAIN log' \ DOMAIN log, NEW j \in DOMAIN log
          PROVE  j < i
      <3>1. DOMAIN log' = 1..Len(log')
        BY <1>1, <1>3, <1>7, RecordedTypes, RecordKeepsType
      <3> QED
        BY <1>9, <2>1, <2>2, <3>1
    <2> QED
      BY <1>8, <2>1, <2>2 DEF GrowsBy
  <1>11. watching => \E i \in DOMAIN log' \ DOMAIN log : IsReceipt(log'[i])
    BY <1>8, <1>9 DEF IsReceipt
  <1>12. framework = AwaitsTurn => status[p] # "idle"
    BY DEF SiblingCalls, WaitsForTurn
  <1>13. receipts'[s] # "none" /\ \A x \in Session \ {s} : receipts'[x] = receipts[x]
    BY <1>1, <1>3 DEF HarnessTypeOK
  <1> QED
    BY <1>3, <1>4, <1>5, <1>6, <1>10, <1>11, <1>12, <1>13

\* A record of one event, in these words.
LEMMA OneGrows ==
  ASSUME HarnessTypeOK, NEW s \in Session, NEW t \in EventType, Record(<<t>>, s)
  PROVE  /\ GrowsBy(s)
         /\ \A i \in DOMAIN log' \ DOMAIN log : log'[i].type = t
         /\ watching => \E i \in DOMAIN log' \ DOMAIN log : log'[i] = [type |-> t, session |-> s]
  <1>1. /\ watching' = watching
        /\ DOMAIN log \subseteq DOMAIN log' /\ \A i \in DOMAIN log : log'[i] = log[i]
        /\ watching => /\ Len(log) + 1 \in DOMAIN log'
                       /\ log'[Len(log) + 1] = [type |-> t, session |-> s]
        /\ \A i \in DOMAIN log' \ DOMAIN log :
             i > Len(log) /\ log'[i] = [type |-> t, session |-> s]
    BY EventIsRecorded
  <1>2. Len(log) \in Nat /\ DOMAIN log = 1..Len(log) /\ DOMAIN log' = 1..Len(log')
    BY LogIsCounted, RecordedTypes, RecordKeepsType
  <1>3. ASSUME NEW i \in DOMAIN log' \ DOMAIN log, NEW j \in DOMAIN log
        PROVE  j < i
    BY <1>1, <1>2
  <1>4. ASSUME NEW i \in DOMAIN log' \ DOMAIN log
        PROVE  log'[i].session = s /\ log'[i].type = t
    BY <1>1
  <1> QED
    BY <1>1, <1>2, <1>3, <1>4 DEF GrowsBy

LEMMA HeldCallMoves ==
  ASSUME HarnessTypeOK, NEW s \in Pair, NEW p \in Pair, p = Other(s), SiblingCallsAndWaits(s)
  PROVE  /\ framework = AwaitsTurn
         /\ status[s] = "running" /\ called' = called \cup {s} /\ receipts' = receipts
         /\ MovesThePair /\ SavesReceipts /\ GrowsBy(s)
         /\ status[p] = "idle" /\ status'[s] = "held" /\ status'[p] = "running"
         /\ \A i \in DOMAIN log' \ DOMAIN log : ~IsReceipt(log'[i]) /\ ~IsPartnersTurn(log'[i])
  <1>1. s \in Session /\ p \in Session /\ s # p
    BY DEF Pair, Session, Other
  <1>2. /\ framework = AwaitsTurn /\ status[p] = "idle" /\ status[s] = "running"
        /\ called' = called \cup {s} /\ receipts' = receipts
        /\ status' = [status EXCEPT ![s] = "held", ![p] = "running"]
        /\ saved' = [saved EXCEPT ![p] = receipts[p]]
        /\ Record(<<"tool.call_start">>, s)
    BY DEF SiblingCallsAndWaits, WaitsForTurn
  <1>3. "tool.call_start" \in EventType
    BY DEF EventType
  <1>4. GrowsBy(s) /\ \A i \in DOMAIN log' \ DOMAIN log : log'[i].type = "tool.call_start"
    BY <1>1, <1>2, <1>3, OneGrows
  <1>5. MovesThePair /\ SavesReceipts /\ status'[s] = "held" /\ status'[p] = "running"
    BY <1>1, <1>2 DEF HarnessTypeOK, MovesThePair, SavesReceipts, InMemory
  <1> QED
    BY <1>2, <1>4, <1>5 DEF IsReceipt, IsPartnersTurn

LEMMA ReturnMoves ==
  ASSUME HarnessTypeOK, NEW s \in Pair, NEW p \in Pair, p = Other(s), CallReturns(s)
  PROVE  /\ status[s] = "held" /\ called' = called
         /\ receipts'[s] # "none" /\ \A x \in Session \ {s} : receipts'[x] = receipts[x]
         /\ MovesThePair /\ SavesReceipts /\ GrowsBy(s)
         /\ status[p] # "running" /\ status'[s] = "running" /\ status'[p] = status[p]
         /\ \A i \in DOMAIN log' \ DOMAIN log : ~IsPartnersTurn(log'[i])
  <1>1. s \in Session /\ p \in Session /\ s # p
    BY DEF Pair, Session, Other
  <1>2. /\ status[p] # "running" /\ status[s] = "held" /\ called' = called
        /\ receipts' = [receipts EXCEPT ![s] = "accepted"]
        /\ status' = [status EXCEPT ![s] = "running"]
        /\ saved' = saved
        /\ Record(<<"tool.call_end">>, s)
    BY DEF CallReturns
  <1>3. "tool.call_end" \in EventType
    BY DEF EventType
  <1>4. GrowsBy(s) /\ \A i \in DOMAIN log' \ DOMAIN log : log'[i].type = "tool.call_end"
    BY <1>1, <1>2, <1>3, OneGrows
  <1>5. MovesThePair /\ SavesReceipts /\ status'[s] = "running" /\ status'[p] = status[p]
    BY <1>1, <1>2 DEF HarnessTypeOK, MovesThePair, SavesReceipts, InMemory
  <1>6. receipts'[s] # "none" /\ \A x \in Session \ {s} : receipts'[x] = receipts[x]
    BY <1>1, <1>2 DEF HarnessTypeOK
  <1> QED
    BY <1>2, <1>4, <1>5, <1>6 DEF IsPartnersTurn

LEMMA TurnMoves ==
  ASSUME HarnessTypeOK, NEW s \in Pair, NEW p \in Pair, p = Other(s), EndTurn(s)
  PROVE  /\ status[s] = "running" /\ called' = called \ {s} /\ receipts' = receipts
         /\ MovesThePair /\ SavesReceipts /\ GrowsBy(s)
         /\ status'[s] \in {"idle", "running"} /\ status'[p] = status[p]
         /\ \A i \in DOMAIN log' \ DOMAIN log : ~IsReceipt(log'[i])
         /\ watching /\ s = "partner" => \E i \in DOMAIN log' : IsPartnersTurn(log'[i])
  <1>1. s \in Session /\ p \in Session /\ s # p
    BY DEF Pair, Session, Other
  <1>2. /\ called' = called \ {s} /\ receipts' = receipts
        /\ Record(<<"turn.completed">>, s)
    BY DEF EndTurn
  <1>3. "turn.completed" \in EventType
    BY DEF EventType
  <1>4. /\ GrowsBy(s) /\ \A i \in DOMAIN log' \ DOMAIN log : log'[i].type = "turn.completed"
        /\ watching => \E i \in DOMAIN log' \ DOMAIN log :
                         log'[i] = [type |-> "turn.completed", session |-> s]
    BY <1>1, <1>2, <1>3, OneGrows
  <1>5. /\ \A x \in Session \ {s} : status'[x] = status[x]
        /\ status[s] = "running" /\ status'[s] \in {"idle", "running"}
    BY <1>1, EndMoves
  <1>6. MovesThePair
    BY <1>1, <1>5 DEF MovesThePair, InMemory
  <1>7. SavesReceipts
    BY DEF HarnessTypeOK, EndTurn, StartTurn, SavesReceipts
  <1> QED
    BY <1>1, <1>2, <1>4, <1>5, <1>6, <1>7 DEF IsReceipt, IsPartnersTurn

-----------------------------------------------------------------------------
\* What a log that only grows keeps.
LEMMA RanInTheLog ==
  /\ PartnerRan <=> \E i \in DOMAIN log : IsPartnersTurn(log[i])
  /\ PartnerRan' <=> \E i \in DOMAIN log' : IsPartnersTurn(log'[i])
  BY DEF PartnerRan, SessionsThatRan, IsPartnersTurn

LEMMA GrowthKeeps ==
  ASSUME NEW s \in Pair, GrowsBy(s)
  PROVE  /\ PartnerRan => PartnerRan'
         /\ SeenFirst => SeenFirst'
         /\ PartnerRan' => PartnerRan \/ s = "partner"
         /\ (\A i \in DOMAIN log : log[i].session \in Pair) =>
              \A i \in DOMAIN log' : log'[i].session \in Pair
  <1>1. PartnerRan => PartnerRan'
    BY RanInTheLog DEF GrowsBy
  <1>2. PartnerRan' => PartnerRan \/ s = "partner"
    BY RanInTheLog DEF GrowsBy, IsPartnersTurn
  <1>3. ASSUME SeenFirst PROVE SeenFirst'
    <2>1. PICK i \in DOMAIN log :
            IsReceipt(log[i]) /\ \A j \in DOMAIN log : IsPartnersTurn(log[j]) => i < j
      BY <1>3 DEF SeenFirst
    <2>2. i \in DOMAIN log' /\ IsReceipt(log'[i])
      BY <2>1 DEF GrowsBy
    <2>3. \A j \in DOMAIN log' : IsPartnersTurn(log'[j]) => i < j
      BY <2>1 DEF GrowsBy
    <2> QED
      BY <2>2, <2>3 DEF SeenFirst
  <1>4. (\A i \in DOMAIN log : log[i].session \in Pair) =>
          \A i \in DOMAIN log' : log'[i].session \in Pair
    BY DEF GrowsBy
  <1> QED
    BY <1>1, <1>2, <1>3, <1>4

\* The siblings keep the invariant.
LEMMA LoopWorldKeeps ==
  ASSUME HarnessTypeOK, LoopTypeOK, LoopInv, UNCHANGED framework, LoopEnvironment
  PROVE  LoopInv'
  <1>14. PICK s \in Pair :
           \/ (SiblingCalls(s) \/ SiblingCallsAndWaits(s)) /\ Carries(s, Other(s))
           \/ (CallReturns(s) \/ EndTurn(s)) /\ UNCHANGED carriers
    BY DEF LoopEnvironment, LoopWorldStep, Pair
  <1>1. SiblingCalls(s) \/ SiblingCallsAndWaits(s) \/ CallReturns(s) \/ EndTurn(s)
    BY <1>14
  <1>2. PICK p \in Pair : p = Other(s)
    BY DEF Pair, Other
  <1>3. s \in Session /\ p \in Session /\ p # s /\ {s, p} = Pair
    BY <1>2 DEF Pair, Session, Other
  <1>4. UNCHANGED <<pc, attached, open, handles, failure, verdict, bodies, early>>
    BY DEF LoopEnvironment, clientVars
  <1>5. /\ status[s] \in AtWork
        /\ MovesThePair /\ SavesReceipts /\ GrowsBy(s)
    BY <1>1, <1>2, CallMoves, HeldCallMoves, ReturnMoves, TurnMoves DEF AtWork
  <1>6. /\ pc \notin BeforeKickoff /\ watching' = watching
        /\ pc # "observe" => watching
        /\ ~watching => log' = log
    <2>1. pc \notin BeforeKickoff
      BY <1>3, <1>5 DEF LoopInv, LoopPlaces
    <2>2. pc # "observe" => watching
      BY <1>3, <1>5, <2>1 DEF LoopInv, Unwatched, BeforeWatch
    <2>3. ~watching => log' = log
      BY <1>1 DEF SiblingCalls, SendToSibling, SiblingCallsAndWaits, CallReturns, EndTurn, Record
    <2> QED
      BY <1>5, <2>1, <2>2, <2>3 DEF GrowsBy
  <1>7. LoopPlaces' /\ PartnerOutlives'
    BY <1>3, <1>4, <1>5, <1>6
       DEF LoopInv, LoopPlaces, PartnerOutlives, MovesThePair, BeforeKickoff, InMemory, Session
  <1>8. Unwatched' /\ LoopFails' /\ LoopEnds'
    BY <1>3, <1>4, <1>5, <1>6
       DEF LoopInv, Unwatched, LoopFails, LoopEnds, BeforeWatch, AtWork, InMemory
  <1>9. PartnerIsCalled'
    <2>1. Untouched' => s = "initiator" /\ EndTurn(s) /\ Untouched
      <3>1. ASSUME s = "partner" PROVE ~Untouched'
        <4>1. ~Untouched
          BY <1>5, <3>1 DEF LoopInv, PartnerIsCalled
        <4>2. "initiator" \in Session \ {s} /\ receipts'["initiator"] = receipts["initiator"]
          BY <1>1, <1>2, <3>1, CallMoves, HeldCallMoves, ReturnMoves, TurnMoves DEF Session
        <4>3. "initiator" \in called => "initiator" \in called'
          BY <1>1, <1>2, <3>1, CallMoves, HeldCallMoves, ReturnMoves, TurnMoves
        <4> QED
          BY <4>1, <4>2, <4>3 DEF Untouched
      <3>2. CASE s = "initiator" /\ (SiblingCalls(s) \/ SiblingCallsAndWaits(s) \/ CallReturns(s))
        BY <1>2, <3>2, CallMoves, HeldCallMoves, ReturnMoves DEF Untouched
      <3>3. CASE s = "initiator" /\ EndTurn(s)
        BY <1>2, <3>3, TurnMoves DEF Untouched, LoopInv, PartnerIsCalled
      <3> QED
        BY <1>1, <3>1, <3>2, <3>3 DEF Pair
    <2>2. Untouched' => /\ ~PartnerRan' /\ status'["partner"] \notin AtWork
                        /\ status'["initiator"] # "held"
      <3> SUFFICES ASSUME Untouched' PROVE /\ ~PartnerRan' /\ status'["partner"] \notin AtWork
                                           /\ status'["initiator"] # "held"
        OBVIOUS
      <3>1. s = "initiator" /\ p = "partner" /\ EndTurn(s)
        BY <2>1, <1>3 DEF Pair
      <3>2. status'[p] = status[p] /\ status'[s] \in {"idle", "running"}
        BY <1>2, <3>1, TurnMoves
      <3>3. ~PartnerRan'
        BY <1>5, <2>1, <3>1, GrowthKeeps DEF LoopInv, PartnerIsCalled
      <3> QED
        BY <2>1, <3>1, <3>2, <3>3 DEF LoopInv, PartnerIsCalled
    <2>3. status'["initiator"] \in {"idle", "running"} /\ "initiator" \in called' =>
            receipts'["initiator"] # "none"
      <3>1. CASE SiblingCalls(s)
        BY <1>1, <1>2, <1>3, <3>1, CallMoves DEF LoopInv, PartnerIsCalled, Pair
      <3>2. CASE SiblingCallsAndWaits(s)
        BY <1>1, <1>2, <1>3, <3>2, HeldCallMoves DEF LoopInv, PartnerIsCalled, Pair
      <3>3. CASE CallReturns(s)
        BY <1>1, <1>2, <1>3, <3>3, ReturnMoves DEF LoopInv, PartnerIsCalled, Pair
      <3>4. CASE EndTurn(s)
        BY <1>1, <1>2, <1>3, <3>4, TurnMoves DEF LoopInv, PartnerIsCalled, Pair
      <3> QED
        BY <1>1, <3>1, <3>2, <3>3, <3>4
    <2>4. framework # AwaitsTurn => \A x \in Session : status'[x] # "held"
      <3>1. CASE SiblingCalls(s)
        BY <1>2, <1>3, <3>1, CallMoves DEF LoopInv, PartnerIsCalled
      <3>2. CASE EndTurn(s)
        BY <1>2, <1>3, <3>2, EndMoves DEF LoopInv, PartnerIsCalled
      <3>3. CASE SiblingCallsAndWaits(s) \/ CallReturns(s)
        BY <1>2, <1>3, <3>3, HeldCallMoves, ReturnMoves DEF LoopInv, PartnerIsCalled
      <3> QED
        BY <1>1, <3>1, <3>2, <3>3
    <2>5. carriers' = {"initiator"} \/ (carriers' = {} /\ Untouched')
      <3>1. CASE s = "partner"
        <4>1. ~Untouched /\ p = "initiator"
          BY <1>3, <1>5, <3>1 DEF LoopInv, PartnerIsCalled, Pair
        <4>2. carriers' = carriers
          BY <1>2, <1>14, <4>1 DEF Carries
        <4> QED
          BY <4>1, <4>2 DEF LoopInv, PartnerIsCalled
      <3>2. CASE s = "initiator" /\ (SiblingCalls(s) \/ SiblingCallsAndWaits(s))
        <4>1. p = "partner" /\ status[s] = "running"
          BY <1>2, <1>3, <3>2, CallMoves, HeldCallMoves DEF Pair
        <4>2. status["partner"] \in InMemory
          BY <3>2, <4>1 DEF LoopInv, PartnerOutlives, InMemory
        <4>3. carriers' = carriers \cup {"initiator"} \/ (carriers' = carriers /\ ~Untouched)
          <5>1. CASE Carries(s, Other(s))
            <6>1. "partner" \in Loaded
              BY <4>2 DEF Loaded, InMemory, Session
            <6>2. Carries("initiator", "partner")
              BY <1>2, <3>2, <4>1, <5>1 DEF Carries
            <6> QED
              BY <6>1, <6>2 DEF Carries
          <5>2. CASE CallReturns(s) \/ EndTurn(s)
            BY <1>2, <3>2, <5>2, CallMoves, HeldCallMoves, ReturnMoves, TurnMoves DEF Untouched
          <5> QED
            BY <1>14, <5>1, <5>2
        <4> QED
          BY <4>3 DEF LoopInv, PartnerIsCalled
      <3>3. CASE s = "initiator" /\ (CallReturns(s) \/ EndTurn(s)) /\ UNCHANGED carriers
        <4>1. CASE CallReturns(s)
          BY <1>2, <3>3, <4>1, ReturnMoves DEF LoopInv, PartnerIsCalled
        <4>2. CASE EndTurn(s)
          BY <1>2, <3>3, <4>2, TurnMoves DEF LoopInv, PartnerIsCalled, Untouched
        <4> QED
          BY <3>3, <4>1, <4>2
      <3> QED
        BY <1>14, <3>1, <3>2, <3>3 DEF Pair
    <2> QED
      BY <1>4, <1>5, <2>2, <2>3, <2>4, <2>5, GrowthKeeps DEF LoopInv, PartnerIsCalled
  <1>10. LoopSeen'
    <2>1. PartnerRan => PartnerRan'
      BY <1>5, GrowthKeeps
    <2>2. framework = Shipped /\ pc = "bodies" => saved'["initiator"] # "none"
      <3> SUFFICES ASSUME framework = Shipped, pc = "bodies" PROVE saved'["initiator"] # "none"
        OBVIOUS
      <3>1. PartnerRan /\ saved["initiator"] # "none" /\ status["initiator"] \in InMemory
        BY DEF LoopInv, LoopSeen, LoopPlaces, Pair
      <3>2. receipts["initiator"] # "none"
        BY <3>1 DEF LoopInv, PartnerIsCalled, Untouched, InMemory, Shipped, AwaitsTurn, Session
      <3> QED
        BY <1>5, <3>1, <3>2 DEF SavesReceipts, Session
    <2> QED
      BY <1>4, <2>1, <2>2 DEF LoopInv, LoopSeen
  <1>11. ReceiptIsFirst'
    <2> SUFFICES ASSUME framework = Shipped, pc \notin BeforeWatch, ~early, ~Untouched'
                 PROVE  SeenFirst'
      BY <1>4 DEF ReceiptIsFirst
    <2>1. CASE SeenFirst
      BY <1>5, <2>1, GrowthKeeps
    <2>2. CASE Untouched
      <3>1. s = "initiator" /\ p = "partner" /\ watching
        BY <1>3, <1>5, <1>6, <2>2 DEF LoopInv, PartnerIsCalled, BeforeWatch, Pair
      <3>2. SiblingCalls(s)
        BY <1>1, <1>2, <1>3, <2>2, <3>1, HeldCallMoves, ReturnMoves, TurnMoves
           DEF LoopInv, PartnerIsCalled, Untouched, Shipped, AwaitsTurn
      <3>3. PICK i \in DOMAIN log' \ DOMAIN log : IsReceipt(log'[i])
        BY <1>2, <3>1, <3>2, CallMoves
      <3>4. \A j \in DOMAIN log' : ~IsPartnersTurn(log'[j])
        BY <1>2, <1>5, <2>2, <3>2, CallMoves, RanInTheLog DEF LoopInv, PartnerIsCalled, GrowsBy
      <3> QED
        BY <3>3, <3>4 DEF SeenFirst
    <2> QED
      BY <2>1, <2>2 DEF LoopInv, ReceiptIsFirst
  <1>12. ReceiptIsLast' /\ FirstTurnIsAwaited'
    <2> SUFFICES ASSUME framework = AwaitsTurn, ~early
                 PROVE  ReceiptIsLast' /\ FirstTurnIsAwaited'
      BY <1>4 DEF ReceiptIsLast, FirstTurnIsAwaited
    <2>1. CASE pc \in BeforeWatch
      <3>1. log = <<>> /\ log' = log
        BY <1>6, <2>1 DEF LoopInv, Unwatched
      <3> QED
        BY <1>4, <2>1, <3>1 DEF ReceiptIsLast, FirstTurnIsAwaited
    <2>2. CASE pc \notin BeforeWatch
      <3>1. watching
        BY <1>6, <2>2 DEF BeforeWatch
      <3>2. ~PartnerRan =>
              /\ status["partner"] # "held"
              /\ status["initiator"] = "held" => status["partner"] = "running"
              /\ status["partner"] = "running" => status["initiator"] \in {"held", "deleted"}
        BY <2>2 DEF LoopInv, FirstTurnIsAwaited
      <3>3. s = "initiator" /\ (SiblingCalls(s) \/ CallReturns(s)) => PartnerRan
        <4>1. CASE SiblingCalls(s) /\ s = "initiator"
          <5>1. status["initiator"] = "running" /\ status["partner"] # "idle"
            BY <1>2, <1>3, <4>1, CallMoves DEF Pair
          <5> QED
            BY <3>2, <5>1 DEF LoopInv, PartnerOutlives, InMemory
        <4>2. CASE CallReturns(s) /\ s = "initiator"
          BY <1>2, <1>3, <3>2, <4>2, ReturnMoves DEF Pair
        <4> QED
          BY <4>1, <4>2
      <3>4. ReceiptIsLast'
        <4> SUFFICES ASSUME NEW i \in DOMAIN log', IsReceipt(log'[i]),
                            log'[i].session = "initiator"
                     PROVE  \E j \in DOMAIN log' : j < i /\ IsPartnersTurn(log'[j])
          BY DEF ReceiptIsLast
        <4>1. CASE i \in DOMAIN log
          BY <1>5, <4>1 DEF GrowsBy, LoopInv, ReceiptIsLast
        <4>2. CASE i \notin DOMAIN log
          <5>1. s = "initiator" /\ (SiblingCalls(s) \/ CallReturns(s))
            <6>1. s = "initiator"
              BY <1>5, <4>2 DEF GrowsBy
            <6>2. ~SiblingCallsAndWaits(s) /\ ~EndTurn(s)
              BY <1>2, <4>2, HeldCallMoves, TurnMoves
            <6> QED
              BY <1>1, <6>1, <6>2
          <5>2. PICK j \in DOMAIN log : IsPartnersTurn(log[j])
            BY <3>3, <5>1, RanInTheLog
          <5> QED
            BY <1>5, <4>2, <5>2 DEF GrowsBy
        <4> QED
          BY <4>1, <4>2
      <3>5. FirstTurnIsAwaited'
        <4> SUFFICES ASSUME ~PartnerRan'
                     PROVE  /\ status'["partner"] # "held"
                            /\ status'["initiator"] = "held" => status'["partner"] = "running"
                            /\ status'["partner"] = "running" =>
                                 status'["initiator"] \in {"held", "deleted"}
          BY <1>4 DEF FirstTurnIsAwaited
        <4>1. ~PartnerRan
          BY <1>5, GrowthKeeps
        <4>2. CASE SiblingCalls(s)
          BY <1>2, <1>3, <3>2, <4>1, <4>2, CallMoves DEF Pair
        <4>3. CASE SiblingCallsAndWaits(s)
          BY <1>2, <1>3, <3>2, <4>1, <4>3, HeldCallMoves DEF Pair
        <4>4. CASE CallReturns(s)
          BY <1>2, <1>3, <3>2, <4>1, <4>4, ReturnMoves DEF Pair
        <4>5. CASE EndTurn(s)
          BY <1>2, <1>3, <3>1, <3>2, <4>1, <4>5, TurnMoves, RanInTheLog DEF Pair
        <4> QED
          BY <1>1, <4>2, <4>3, <4>4, <4>5
      <3> QED
        BY <3>4, <3>5
    <2> QED
      BY <2>1, <2>2
  <1>13. LoopVerdict'
    <2>1. \A i \in DOMAIN log : i \in DOMAIN log' /\ log'[i] = log[i]
      BY <1>5 DEF GrowsBy
    <2>2. OnlyTheInitiatorCarried'
      <3> SUFFICES ASSUME verdict'["C1"] = "PASS" PROVE carriers' = {"initiator"}
        BY DEF OnlyTheInitiatorCarried
      <3>1. carriers = {"initiator"}
        BY <1>4 DEF LoopInv, LoopVerdict, OnlyTheInitiatorCarried
      <3> QED
        BY <1>9, <1>14, <3>1 DEF PartnerIsCalled, Carries
    <2> QED
      BY <1>4, <2>1, <2>2 DEF LoopInv, LoopVerdict, BlockingReceiptIsCaught,
                              SoundReceiptIsNotBlamed
  <1> QED
    BY <1>7, <1>8, <1>9, <1>10, <1>11, <1>12, <1>13 DEF LoopInv

-----------------------------------------------------------------------------
(***************************************************************************)
(* What the driver does.                                                   *)
(***************************************************************************)
LEMMA LoopStill ==
  ASSUME UNCHANGED <<called, receipts, log>>
  PROVE  /\ Untouched' <=> Untouched
         /\ PartnerRan' <=> PartnerRan
         /\ SeenFirst' <=> SeenFirst
  BY DEF Untouched, PartnerRan, SessionsThatRan, SeenFirst, IsReceipt, IsPartnersTurn

\* A call that leaves the siblings and the log alone.
LEMMA LoopQuiet ==
  ASSUME LoopInv, UNCHANGED <<framework, status, called, receipts, log, watching, carriers,
                              early, verdict>>,
         pc # "done", pc' # "done", pc' \notin BeforeWatch => pc \notin BeforeKickoff \/ Untouched
  PROVE  /\ PartnerIsCalled' /\ ReceiptIsLast' /\ LoopVerdict'
         /\ pc \notin BeforeWatch \/ Untouched => ReceiptIsFirst' /\ FirstTurnIsAwaited'
  <1>1. PartnerIsCalled'
    BY LoopStill DEF LoopInv, PartnerIsCalled
  <1>2. ReceiptIsLast'
    BY DEF LoopInv, ReceiptIsLast, IsReceipt, IsPartnersTurn
  <1>3. LoopVerdict'
    BY DEF LoopInv, LoopVerdict, OnlyTheInitiatorCarried, BlockingReceiptIsCaught,
           SoundReceiptIsNotBlamed
  <1>4. ASSUME pc \notin BeforeWatch \/ Untouched
        PROVE  ReceiptIsFirst' /\ FirstTurnIsAwaited'
    BY <1>4, LoopStill DEF LoopInv, ReceiptIsFirst, FirstTurnIsAwaited, PartnerIsCalled, AtWork
  <1> QED
    BY <1>1, <1>2, <1>3, <1>4

\* Before the kickoff nobody has called.
LEMMA NobodyHasCalled ==
  ASSUME LoopInv, pc \in BeforeKickoff
  PROVE  Untouched /\ \A s \in Session : status[s] \notin AtWork
  BY DEF LoopInv, LoopPlaces, Untouched

LEMMA LoopRelayKeeps ==
  ASSUME HarnessTypeOK, LoopInv, UNCHANGED framework, Relay
  PROVE  LoopInv'
  <1>1. /\ pc = "wait" /\ pc' = "release" /\ failure' = "leash" /\ framework = DriverRelays
        /\ UNCHANGED <<carriers, status, queued, saved, called, receipts, bodies, early,
                       clientVars, busVars, verdict>>
    BY DEF Relay, Leashed, ObserverMethods
  <1>2. /\ PartnerIsCalled' /\ ReceiptIsLast' /\ LoopVerdict'
        /\ ReceiptIsFirst' /\ FirstTurnIsAwaited'
    BY <1>1, LoopQuiet DEF busVars, BeforeWatch, BeforeKickoff
  <1>3. LoopPlaces' /\ PartnerOutlives' /\ Unwatched' /\ LoopFails' /\ LoopEnds' /\ LoopSeen'
    BY <1>1 DEF LoopInv, LoopPlaces, PartnerOutlives, Unwatched, LoopFails, LoopEnds, LoopSeen,
                clientVars, busVars, BeforeWatch, BeforeKickoff
  <1> QED
    BY <1>2, <1>3 DEF LoopInv

LEMMA LoopObserveKeeps ==
  ASSUME HarnessTypeOK, LoopInv, UNCHANGED framework, LoopObserve
  PROVE  LoopInv'
  <1>1. /\ pc = "observe" /\ pc' = "wait" /\ watching' = TRUE
        /\ UNCHANGED <<worldVars, clientVars, log, failure, verdict, carriers, bodies>>
    BY DEF LoopObserve, Observing, Goto
  <1>2. early' <=> ~Untouched
    BY DEF LoopObserve, Untouched
  <1>3. log = <<>> /\ ~early /\ failure = "none" /\ verdict["C1"] = "none"
    BY <1>1 DEF LoopInv, Unwatched, LoopFails, LoopVerdict, BeforeWatch
  <1>4. LoopPlaces' /\ PartnerOutlives' /\ Unwatched' /\ LoopFails' /\ LoopEnds' /\ LoopSeen'
    BY <1>1, <1>3 DEF LoopInv, LoopPlaces, PartnerOutlives, Unwatched, LoopFails, LoopEnds,
                      LoopSeen, clientVars, worldVars, BeforeWatch, BeforeKickoff
  <1>5. (Untouched' <=> Untouched) /\ (PartnerRan' <=> PartnerRan)
    BY <1>1, LoopStill DEF worldVars
  <1>6. PartnerIsCalled'
    BY <1>1, <1>5 DEF LoopInv, PartnerIsCalled, worldVars
  <1>7. ReceiptIsFirst' /\ ReceiptIsLast'
    BY <1>1, <1>2, <1>3, <1>5 DEF ReceiptIsFirst, ReceiptIsLast
  <1>8. FirstTurnIsAwaited'
    BY <1>1, <1>2, <1>5 DEF LoopInv, PartnerIsCalled, FirstTurnIsAwaited, worldVars, AtWork
  <1>9. LoopVerdict'
    BY <1>1, <1>3 DEF LoopVerdict, OnlyTheInitiatorCarried, BlockingReceiptIsCaught,
                      SoundReceiptIsNotBlamed
  <1> QED
    BY <1>4, <1>6, <1>7, <1>8, <1>9 DEF LoopInv

LEMMA LoopCreates ==
  ASSUME HarnessTypeOK, LoopInv, UNCHANGED <<framework, loopVars>>,
         MakePartner \/ MakeInitiator
  PROVE  LoopInv'
  <1>1. PICK s \in Pair, to \in {"initiator", "kickoff"} :
          /\ Creating(s, "driver", s, to, "certify")
          /\ s = "partner" <=> to = "initiator"
    BY DEF MakePartner, MakeInitiator, Pair
  <1>2. s \in Session /\ "driver" \in Client
    BY DEF Pair, Session, Client
  <1>3. /\ pc = s
        /\ \A x \in Session \ {s} : status'[x] = status[x]
        /\ \/ /\ pc' = to /\ status'[s] = "idle" /\ attached'["driver"] = s
              /\ handles' = handles \cup {s} /\ UNCHANGED failure
           \/ /\ pc' = "certify" /\ failure' = "unmet" /\ status'[s] \in {status[s], "idle"}
              /\ UNCHANGED <<attached, handles>>
        /\ UNCHANGED <<queued, called, receipts, saved, open, busVars, verdict>>
    BY <1>1, <1>2, CreatingMakes
  <1>4. pc \in BeforeKickoff /\ pc \in BeforeWatch
    BY <1>3 DEF BeforeKickoff, BeforeWatch, Pair
  <1>5. Untouched /\ \A x \in Session : status[x] \notin AtWork /\ status'[x] \notin AtWork
    BY <1>3, <1>4, NobodyHasCalled DEF AtWork
  <1>6. LoopPlaces'
    BY <1>1, <1>2, <1>3, <1>4, <1>5
       DEF LoopInv, LoopPlaces, BeforeKickoff, Pair, InMemory, AtWork, Session
  <1>7. PartnerOutlives'
    BY <1>1, <1>2, <1>3, <1>4
       DEF LoopInv, LoopPlaces, PartnerOutlives, Pair, InMemory, Session, BeforeKickoff
  <1>8. Unwatched' /\ LoopFails' /\ LoopEnds'
    BY <1>1, <1>3, <1>4, <1>5
       DEF LoopInv, Unwatched, LoopFails, LoopEnds, BeforeWatch, BeforeKickoff, busVars, loopVars
  <1>9. (Untouched' <=> Untouched) /\ (PartnerRan' <=> PartnerRan)
    BY <1>3, LoopStill DEF busVars
  <1>10. PartnerIsCalled'
    BY <1>2, <1>3, <1>5, <1>9
       DEF LoopInv, PartnerIsCalled, Untouched, busVars, loopVars, AtWork, Session
  <1>11. LoopSeen' /\ LoopVerdict'
    BY <1>1, <1>3, <1>4
       DEF LoopInv, LoopSeen, LoopVerdict, OnlyTheInitiatorCarried, BlockingReceiptIsCaught,
           SoundReceiptIsNotBlamed, loopVars, busVars, Pair, LoopFails
  <1>12. ReceiptIsFirst' /\ ReceiptIsLast'
    BY <1>3, <1>4, <1>5, <1>9 DEF LoopInv, Unwatched, ReceiptIsFirst, ReceiptIsLast, busVars
  <1>13. FirstTurnIsAwaited'
    BY <1>5 DEF FirstTurnIsAwaited, AtWork, Session
  <1> QED
    BY <1>6, <1>7, <1>8, <1>10, <1>11, <1>12, <1>13 DEF LoopInv

\* The kickoff sets the initiator going.
LEMMA LoopKickoff ==
  ASSUME HarnessTypeOK, LoopAttached, LoopInv, UNCHANGED framework, Kickoff
  PROVE  LoopInv'
  <1>1. /\ pc = "kickoff" /\ pc' = "observe" /\ Deliver("initiator")
        /\ UNCHANGED <<called, receipts, clientVars, busVars, failure, verdict>>
        /\ UNCHANGED <<carriers, bodies, early>>
    BY DEF Kickoff, Carries, Sending, Goto, LoopAttached
  <1>2. "initiator" \in Session /\ "partner" \in Session /\ Pair \subseteq Session
    BY DEF Session, Pair
  <1>3. Untouched /\ \A x \in Session : status[x] \notin AtWork
    BY <1>1, NobodyHasCalled DEF BeforeKickoff
  <1>4. /\ \A x \in Session \ {"initiator"} : status'[x] = status[x]
        /\ status'["initiator"] = "running"
    BY <1>1, <1>2, <1>3, DeliverMoves
  <1>5. LoopPlaces' /\ PartnerOutlives'
    BY <1>1, <1>2, <1>4
       DEF LoopInv, LoopPlaces, PartnerOutlives, BeforeKickoff, Pair, InMemory, clientVars
  <1>6. /\ Unwatched' /\ LoopFails' /\ LoopEnds' /\ LoopSeen' /\ LoopVerdict'
        /\ ReceiptIsFirst' /\ ReceiptIsLast' /\ FirstTurnIsAwaited'
    BY <1>1 DEF LoopInv, Unwatched, LoopFails, LoopEnds, LoopSeen, LoopVerdict,
                OnlyTheInitiatorCarried, BlockingReceiptIsCaught, SoundReceiptIsNotBlamed,
                ReceiptIsFirst, ReceiptIsLast, FirstTurnIsAwaited, BeforeWatch, BeforeKickoff,
                busVars
  <1>7. (Untouched' <=> Untouched) /\ (PartnerRan' <=> PartnerRan)
    BY <1>1, LoopStill DEF busVars
  <1>8. PartnerIsCalled'
    BY <1>1, <1>2, <1>3, <1>4, <1>7
       DEF LoopInv, PartnerIsCalled, Untouched, AtWork, busVars
  <1> QED
    BY <1>5, <1>6, <1>8 DEF LoopInv

\* The release deletes the initiator first: the partner never goes before it.
LEMMA LoopReleases ==
  ASSUME HarnessTypeOK, LoopInv, UNCHANGED <<framework, loopVars>>, LoopRelease
  PROVE  LoopInv'
  <1>1. "initiator" \in Session /\ "partner" \in Session /\ Pair = {"initiator", "partner"}
    BY DEF Session, Pair
  <1>2. /\ pc = "release"
        /\ \A s \in Session : status'[s] = status[s] \/ (s \in handles /\ status'[s] = "deleted")
        /\ \/ /\ pc' = "disconnect" /\ UNCHANGED failure
              /\ \A s \in Pair : s \in handles => status'[s] = "deleted"
           \/ pc' = "certify" /\ failure' = "lost"
        /\ (\E s \in Session : status'[s] # status[s]) /\ "initiator" \in handles =>
             status'["initiator"] = "deleted"
        /\ UNCHANGED <<queued, called, receipts, saved, clientVars, busVars, verdict>>
    BY <1>1, ReleasingPair DEF LoopRelease
  <1>3. Pair \subseteq handles /\ watching' = watching /\ handles' = handles /\ open' = open
    BY <1>1, <1>2 DEF LoopInv, LoopPlaces, LoopFails, InMemory, busVars, clientVars
  <1>4. status' = status \/ status'["initiator"] = "deleted"
    BY <1>1, <1>2, <1>3 DEF HarnessTypeOK, Releasing, LoopRelease
  <1>5. LoopPlaces'
    BY <1>1, <1>2, <1>3 DEF LoopInv, LoopPlaces, LoopFails, InMemory, BeforeKickoff
  <1>6. PartnerOutlives'
    BY <1>2, <1>4 DEF LoopInv, PartnerOutlives, InMemory
  <1>7. Unwatched' /\ LoopFails' /\ LoopEnds' /\ LoopSeen'
    BY <1>1, <1>2, <1>3, LoopStill
       DEF LoopInv, Unwatched, LoopFails, LoopEnds, LoopSeen, BeforeWatch, BeforeKickoff, AtWork,
           busVars, loopVars
  <1>8. /\ Untouched' <=> Untouched
        /\ PartnerRan' <=> PartnerRan
        /\ SeenFirst' <=> SeenFirst
    BY <1>2, LoopStill DEF busVars
  <1>9. PartnerIsCalled'
    BY <1>1, <1>2, <1>8 DEF LoopInv, PartnerIsCalled, AtWork, busVars, loopVars
  <1>10. ReceiptIsFirst' /\ ReceiptIsLast' /\ LoopVerdict'
    BY <1>2, <1>8
       DEF LoopInv, ReceiptIsFirst, ReceiptIsLast, LoopVerdict, OnlyTheInitiatorCarried,
           BlockingReceiptIsCaught, SoundReceiptIsNotBlamed, BeforeWatch, BeforeKickoff,
           busVars, loopVars
  <1>11. FirstTurnIsAwaited'
    BY <1>1, <1>2, <1>4, <1>8
       DEF LoopInv, FirstTurnIsAwaited, BeforeWatch, BeforeKickoff, loopVars
  <1> QED
    BY <1>5, <1>6, <1>7, <1>9, <1>10, <1>11 DEF LoopInv

\* The verdict.
LEMMA LoopJudges ==
  ASSUME HarnessTypeOK, LoopTypeOK, LoopInv, UNCHANGED <<framework, loopVars>>, LoopCertify
  PROVE  LoopInv'
  <1>1. /\ pc = "certify" /\ pc' = "done"
        /\ UNCHANGED <<worldVars, clientVars, busVars, failure>>
    BY DEF LoopCertify, Reporting, Goto
  <1>2. /\ verdict'["C1"] = "PASS" =>
             failure = "none" /\ PartnerRan /\ bodies # {} /\ ReceiptPrecedesTurn
        /\ verdict'["C1"] = "FAIL" =>
             \/ failure = "none" /\ ~(PartnerRan /\ bodies # {} /\ ReceiptPrecedesTurn)
             \/ failure \in {"leash", "timeout"}
    <2> DEFINE held == [i \in {"C1"} |-> PartnerRan /\ bodies # {} /\ ReceiptPrecedesTurn]
               ids == {"C1"}
               handled == {"leash", "timeout"}
    <2>1. Reporting(ids, held, handled) /\ "C1" \in ClaimId \cap ids
      BY DEF LoopCertify, ClaimId
    <2>2. held["C1"] <=> PartnerRan /\ bodies # {} /\ ReceiptPrecedesTurn
      OBVIOUS
    <2> HIDE DEF held, ids, handled
    <2>3. /\ verdict'["C1"] = "PASS" => failure = "none" /\ held["C1"]
          /\ verdict'["C1"] = "FAIL" =>
               (failure = "none" /\ ~held["C1"]) \/ failure \in handled
      BY <2>1, ReportingJudges
    <2> QED
      BY <2>2, <2>3 DEF handled
  <1>3. OnlyTheInitiatorCarried'
    BY <1>2 DEF LoopInv, PartnerIsCalled, OnlyTheInitiatorCarried, loopVars
  <1>4. BlockingReceiptIsCaught'
    <2> SUFFICES ASSUME framework = AwaitsTurn, verdict'["C1"] = "PASS", ~early
                 PROVE  \E i \in DOMAIN log : IsReceipt(log[i]) /\ log[i].session = "partner"
      BY <1>1 DEF BlockingReceiptIsCaught, busVars, loopVars, IsReceipt
    <2>1. PICK i \in DOMAIN log :
            IsReceipt(log[i]) /\ \A j \in DOMAIN log : IsPartnersTurn(log[j]) => i < j
      BY <1>2 DEF ReceiptPrecedesTurn
    <2>2. DOMAIN log \subseteq Nat
      BY LogIsCounted
    <2>3. log[i].session # "initiator"
      <3>1. SUFFICES ASSUME log[i].session = "initiator" PROVE FALSE
        OBVIOUS
      <3>2. PICK j \in DOMAIN log : j < i /\ IsPartnersTurn(log[j])
        BY <2>1, <3>1 DEF LoopInv, ReceiptIsLast
      <3> QED
        BY <2>1, <2>2, <3>2
    <2> QED
      BY <2>1, <2>3 DEF LoopInv, PartnerIsCalled, Pair
  <1>5. SoundReceiptIsNotBlamed'
    <2> SUFFICES ASSUME framework = Shipped, verdict'["C1"] = "FAIL", failure # "timeout", ~early
                 PROVE  FALSE
      BY <1>1 DEF SoundReceiptIsNotBlamed, loopVars
    <2>1. failure = "none"
      BY <1>2 DEF LoopInv, LoopFails, Shipped, DriverRelays
    <2>2. PartnerRan /\ bodies # {}
      BY <1>1, <2>1 DEF LoopInv, LoopSeen
    <2>3. SeenFirst
      BY <1>1, <2>2 DEF LoopInv, ReceiptIsFirst, PartnerIsCalled, BeforeWatch, BeforeKickoff
    <2>4. ReceiptPrecedesTurn
      BY <2>2, <2>3, RanInTheLog DEF SeenFirst, ReceiptPrecedesTurn, BothAreSeen
    <2> QED
      BY <1>2, <2>1, <2>2, <2>4
  <1>6. /\ Untouched' <=> Untouched
        /\ PartnerRan' <=> PartnerRan
        /\ SeenFirst' <=> SeenFirst
    BY <1>1, LoopStill DEF worldVars, busVars
  <1>7. /\ LoopPlaces' /\ PartnerOutlives' /\ Unwatched' /\ LoopFails' /\ LoopEnds'
        /\ LoopVerdict'
    BY <1>1, <1>3, <1>4, <1>5
       DEF LoopInv, LoopPlaces, PartnerOutlives, Unwatched, LoopFails, LoopEnds, LoopVerdict,
           worldVars, clientVars, busVars, loopVars, BeforeWatch, BeforeKickoff
  <1>8. PartnerIsCalled' /\ LoopSeen'
    BY <1>1, <1>6 DEF LoopInv, PartnerIsCalled, LoopSeen, worldVars, busVars, loopVars
  <1>9. ReceiptIsFirst' /\ ReceiptIsLast' /\ FirstTurnIsAwaited'
    BY <1>1, <1>6 DEF LoopInv, ReceiptIsFirst, ReceiptIsLast, FirstTurnIsAwaited,
                      worldVars, busVars, loopVars, BeforeWatch, BeforeKickoff
  <1> QED
    BY <1>7, <1>8, <1>9 DEF LoopInv

\* The driver's other calls.
LEMMA LoopDriverKeeps ==
  ASSUME HarnessTypeOK, LoopTypeOK, LoopAttached, LoopInv, UNCHANGED framework, LoopDriverStep
  PROVE  LoopInv'
  <1> USE DEF BeforeWatch, BeforeKickoff
  <1>1. CASE Kickoff \/ Relay \/ LoopObserve
    BY <1>1, LoopKickoff, LoopRelayKeeps, LoopObserveKeeps
  <1>2. CASE (MakePartner \/ MakeInitiator \/ LoopRelease \/ LoopCertify)
             /\ UNCHANGED loopVars
    BY <1>2, LoopCreates, LoopReleases, LoopJudges
  <1>3. CASE ReadBodies
    <2>1. /\ pc = "bodies" /\ pc' = "release" /\ bodies' = ReceiptsOnDisk
          /\ UNCHANGED <<worldVars, clientVars, busVars, failure, verdict, carriers, early>>
      BY <1>3 DEF ReadBodies, Goto
    <2>2. framework = Shipped => bodies' # {}
      BY <2>1 DEF LoopInv, LoopSeen, ReceiptsOnDisk, Session
    <2>3. /\ PartnerIsCalled' /\ ReceiptIsLast' /\ LoopVerdict'
          /\ ReceiptIsFirst' /\ FirstTurnIsAwaited'
      BY <2>1, LoopQuiet DEF worldVars, busVars
    <2>4. LoopSeen'
      BY <2>1, <2>2, LoopStill DEF LoopInv, LoopSeen, worldVars, busVars
    <2>5. LoopPlaces' /\ PartnerOutlives' /\ Unwatched' /\ LoopFails' /\ LoopEnds'
      BY <2>1 DEF LoopInv, LoopPlaces, PartnerOutlives, Unwatched, LoopFails, LoopEnds,
                  worldVars, clientVars, busVars
    <2> QED
      BY <2>3, <2>4, <2>5 DEF LoopInv
  <1>4. CASE LoopConnect /\ UNCHANGED loopVars
    <2>1. /\ pc = "connect"
          /\ \/ pc' = "partner" /\ open' = open \cup {"driver"} /\ UNCHANGED failure
             \/ pc' = "certify" /\ failure' = "unmet" /\ UNCHANGED open
          /\ UNCHANGED <<worldVars, busVars, attached, handles, verdict>>
      BY <1>4 DEF LoopConnect, Connecting, Goto
    <2>2. Untouched /\ \A s \in Session : status[s] \notin AtWork
      BY <2>1, NobodyHasCalled
    <2>3. /\ PartnerIsCalled' /\ ReceiptIsLast' /\ LoopVerdict'
          /\ ReceiptIsFirst' /\ FirstTurnIsAwaited'
      BY <1>4, <2>1, <2>2, LoopQuiet DEF worldVars, busVars, loopVars
    <2>4. LoopPlaces' /\ PartnerOutlives' /\ Unwatched' /\ LoopFails' /\ LoopEnds' /\ LoopSeen'
      BY <1>4, <2>1, <2>2
         DEF LoopInv, LoopPlaces, PartnerOutlives, Unwatched, LoopFails, LoopEnds, LoopSeen,
             worldVars, busVars, loopVars
    <2> QED
      BY <2>3, <2>4 DEF LoopInv
  <1>5. CASE (AwaitPartner \/ AwaitTimesOut) /\ UNCHANGED loopVars
    <2>1. /\ pc = "wait"
          /\ \/ pc' = "save" /\ PartnerRan /\ UNCHANGED failure
             \/ pc' = "release" /\ failure' = "timeout"
          /\ UNCHANGED <<worldVars, clientVars, busVars, verdict>>
      BY <1>5 DEF AwaitPartner, AwaitTimesOut, Goto
    <2>2. /\ PartnerIsCalled' /\ ReceiptIsLast' /\ LoopVerdict'
          /\ ReceiptIsFirst' /\ FirstTurnIsAwaited'
      BY <1>5, <2>1, LoopQuiet DEF worldVars, busVars, loopVars
    <2>3. LoopSeen'
      BY <1>5, <2>1, LoopStill DEF LoopInv, LoopSeen, worldVars, busVars, loopVars
    <2>4. LoopPlaces' /\ PartnerOutlives' /\ Unwatched' /\ LoopFails' /\ LoopEnds'
      BY <1>5, <2>1
         DEF LoopInv, LoopPlaces, PartnerOutlives, Unwatched, LoopFails, LoopEnds,
             worldVars, clientVars, busVars, loopVars
    <2> QED
      BY <2>2, <2>3, <2>4 DEF LoopInv
  <1>6. CASE SaveInitiator /\ UNCHANGED loopVars
    <2>1. /\ pc = "save" /\ pc' = "bodies"
          /\ UNCHANGED <<status, called, receipts, clientVars, busVars, failure, verdict>>
      BY <1>6 DEF SaveInitiator, Saving, Goto
    <2>2. status["initiator"] \in InMemory /\ PartnerRan
      BY <2>1 DEF LoopInv, LoopPlaces, LoopSeen, Pair
    <2>3. saved'["initiator"] = receipts["initiator"]
      BY <1>6, <2>2 DEF SaveInitiator, Saving, InMemory, HarnessTypeOK, Session
    <2>4. framework = Shipped => receipts["initiator"] # "none"
      BY <2>2 DEF LoopInv, PartnerIsCalled, Untouched, InMemory, Shipped, AwaitsTurn, Session
    <2>5. /\ PartnerIsCalled' /\ ReceiptIsLast' /\ LoopVerdict'
          /\ ReceiptIsFirst' /\ FirstTurnIsAwaited'
      BY <1>6, <2>1, LoopQuiet DEF busVars, loopVars
    <2>6. LoopSeen'
      BY <1>6, <2>1, <2>2, <2>3, <2>4, LoopStill DEF LoopSeen, busVars, loopVars
    <2>7. LoopPlaces' /\ PartnerOutlives' /\ Unwatched' /\ LoopFails' /\ LoopEnds'
      BY <1>6, <2>1
         DEF LoopInv, LoopPlaces, PartnerOutlives, Unwatched, LoopFails, LoopEnds,
             clientVars, busVars, loopVars
    <2> QED
      BY <2>5, <2>6, <2>7 DEF LoopInv
  <1>7. CASE (LoopRaises \/ KickoffRaises) /\ UNCHANGED loopVars
    <2>1. /\ \/ pc \in {"wait", "save"} /\ pc' = "release"
             \/ pc = "kickoff" /\ pc' = "certify"
          /\ failure' = "lost"
          /\ UNCHANGED <<worldVars, clientVars, busVars, verdict>>
      BY <1>7 DEF LoopRaises, KickoffRaises, Raising
    <2>2. pc = "kickoff" => Untouched /\ \A s \in Session : status[s] \notin AtWork
      BY NobodyHasCalled
    <2>3. /\ PartnerIsCalled' /\ ReceiptIsLast' /\ LoopVerdict'
          /\ ReceiptIsFirst' /\ FirstTurnIsAwaited'
      BY <1>7, <2>1, <2>2, LoopQuiet DEF worldVars, busVars, loopVars
    <2>4. LoopPlaces' /\ PartnerOutlives' /\ Unwatched' /\ LoopFails' /\ LoopEnds' /\ LoopSeen'
      BY <1>7, <2>1, <2>2
         DEF LoopInv, LoopPlaces, PartnerOutlives, Unwatched, LoopFails, LoopEnds, LoopSeen,
             worldVars, clientVars, busVars, loopVars
    <2> QED
      BY <2>3, <2>4 DEF LoopInv
  <1>8. CASE LoopDisconnect /\ UNCHANGED loopVars
    <2>1. /\ pc = "disconnect" /\ pc' = "certify" /\ watching' = FALSE
          /\ \/ open' = open \ {"driver"} /\ UNCHANGED failure
             \/ open' = open /\ failure' = "lost"
          /\ UNCHANGED <<worldVars, attached, handles, log, verdict>>
      BY <1>8 DEF LoopDisconnect, Disconnecting, Goto
    <2>2. \A s \in Session : status[s] \notin InMemory
      BY <2>1 DEF LoopInv, LoopPlaces
    <2>3. \/ failure' = failure /\ open' = {}
          \/ failure' = "lost" /\ open' \subseteq {"driver"}
      BY <2>1 DEF LoopInv, LoopPlaces
    <2>4. /\ Untouched' <=> Untouched
          /\ PartnerRan' <=> PartnerRan
          /\ SeenFirst' <=> SeenFirst
      BY <2>1, LoopStill DEF worldVars
    <2>5. LoopPlaces' /\ PartnerOutlives' /\ Unwatched' /\ LoopFails' /\ LoopEnds'
      BY <1>8, <2>1, <2>2, <2>3
         DEF LoopInv, LoopPlaces, PartnerOutlives, Unwatched, LoopFails, LoopEnds,
             worldVars, loopVars, InMemory, AtWork
    <2>6. PartnerIsCalled' /\ LoopSeen' /\ ReceiptIsFirst' /\ ReceiptIsLast'
      BY <1>8, <2>1, <2>4
         DEF LoopInv, PartnerIsCalled, LoopSeen, ReceiptIsFirst, ReceiptIsLast, IsReceipt,
             IsPartnersTurn, worldVars, loopVars
    <2>7. FirstTurnIsAwaited' /\ LoopVerdict'
      BY <1>8, <2>1, <2>4
         DEF LoopInv, FirstTurnIsAwaited, LoopVerdict, OnlyTheInitiatorCarried,
             BlockingReceiptIsCaught, SoundReceiptIsNotBlamed, worldVars, loopVars
    <2> QED
      BY <2>5, <2>6, <2>7 DEF LoopInv
  <1> QED
    BY <1>1, <1>2, <1>3, <1>4, <1>5, <1>6, <1>7, <1>8 DEF LoopDriverStep

-----------------------------------------------------------------------------
IsLoop == claim = "C1" => LoopInv

LEMMA LoopInvInit == Init => IsLoop
  <1> SUFFICES ASSUME Init PROVE LoopInv
    BY DEF IsLoop
  <1>1. /\ pc = "connect" /\ log = <<>> /\ open = {} /\ handles = {} /\ failure = "none"
        /\ watching = FALSE /\ called = {} /\ ~early /\ carriers = {}
        /\ status = [s \in Session |-> "absent"] /\ receipts["initiator"] = "none"
        /\ verdict["C1"] = "none"
    BY DEF Init, HarnessInit, LoopInit, ClaimId, Session
  <1>2. ~PartnerRan
    BY <1>1 DEF PartnerRan, SessionsThatRan
  <1>3. LoopPlaces /\ PartnerOutlives /\ Unwatched /\ LoopFails /\ LoopEnds
    BY <1>1 DEF LoopPlaces, PartnerOutlives, Unwatched, LoopFails, LoopEnds, BeforeWatch,
                BeforeKickoff, InMemory, AtWork, Session
  <1>4. PartnerIsCalled /\ LoopSeen
    BY <1>1, <1>2 DEF PartnerIsCalled, LoopSeen, Untouched, AtWork, Session
  <1>5. ReceiptIsFirst /\ ReceiptIsLast /\ FirstTurnIsAwaited /\ LoopVerdict
    BY <1>1 DEF ReceiptIsFirst, ReceiptIsLast, FirstTurnIsAwaited, LoopVerdict, OnlyTheInitiatorCarried,
                BlockingReceiptIsCaught, SoundReceiptIsNotBlamed, BeforeWatch, BeforeKickoff
  <1> QED
    BY <1>3, <1>4, <1>5 DEF LoopInv

LEMMA LoopInvStep == TypeInv /\ IsLoop /\ [Next]_vars => IsLoop'
  <1> SUFFICES ASSUME TypeInv, IsLoop, [Next]_vars, claim' = "C1"
               PROVE  LoopInv'
    BY DEF IsLoop
  <1>1. claim = "C1" /\ UNCHANGED framework
    BY OneClaimSteps DEF fixedVars
  <1>2. HarnessTypeOK /\ LoopTypeOK /\ LoopAttached /\ LoopInv
    BY <1>1 DEF TypeInv, TypeOK, IsLoop
  <1>3. CASE LoopDriverStep \/ LoopEnvironment
    BY <1>1, <1>2, <1>3, LoopDriverKeeps, LoopWorldKeeps
  <1>4. CASE UNCHANGED vars
    <2>1. UNCHANGED <<framework, pc, worldVars, clientVars, busVars, failure, verdict, loopVars>>
      BY <1>4 DEF vars, harnessVars, fixedVars
    <2>2. UNCHANGED <<framework, pc, status, saved, called, receipts, handles, open, log,
                      watching, failure, verdict, carriers, bodies, early>>
      BY <2>1 DEF worldVars, clientVars, busVars, loopVars
    <2>3. /\ Untouched' <=> Untouched
          /\ PartnerRan' <=> PartnerRan
          /\ SeenFirst' <=> SeenFirst
      BY <2>2, LoopStill
    <2>4. LoopPlaces' /\ PartnerOutlives' /\ Unwatched' /\ LoopFails' /\ LoopEnds'
      BY <1>2, <2>2 DEF LoopInv, LoopPlaces, PartnerOutlives, Unwatched, LoopFails, LoopEnds
    <2>5. PartnerIsCalled' /\ LoopSeen' /\ ReceiptIsFirst' /\ ReceiptIsLast'
      BY <1>2, <2>2, <2>3 DEF LoopInv, PartnerIsCalled, LoopSeen, ReceiptIsFirst, ReceiptIsLast,
                              IsReceipt, IsPartnersTurn
    <2>6. FirstTurnIsAwaited' /\ LoopVerdict'
      BY <1>2, <2>2, <2>3 DEF LoopInv, FirstTurnIsAwaited, LoopVerdict, OnlyTheInitiatorCarried,
                              BlockingReceiptIsCaught, SoundReceiptIsNotBlamed
    <2> QED
      BY <2>4, <2>5, <2>6 DEF LoopInv
  <1> QED
    BY <1>1, <1>3, <1>4, OneClaimSteps

LEMMA LoopKnown == Spec => [](TypeInv /\ OwnVerdicts /\ IsLoop)
  BY OwnVerdictsHold, LoopInvInit, LoopInvStep, PTL DEF Spec

\* A PASS of C1 is of the initiator's messages: one of them has reached the
\* partner, whatever the two siblings do, and none of the driver's has.
THEOREM SiblingCarried == Spec => []OnlyTheInitiatorCarried
  <1>1. TypeInv /\ OwnVerdicts /\ IsLoop => OnlyTheInitiatorCarried
    <2> SUFFICES ASSUME TypeInv, OwnVerdicts, IsLoop, verdict["C1"] = "PASS"
                 PROVE  OnlyTheInitiatorCarried
      BY DEF OnlyTheInitiatorCarried
    <2>1. claim = "C1"
      BY DEF TypeInv, TypeOK, OwnVerdicts, OwnIds, ClaimId
    <2> QED
      BY <2>1 DEF IsLoop, LoopInv, LoopVerdict
  <1> QED
    BY <1>1, LoopKnown, PTL

\* A receipt that waits for the peer's turn is noticed, but for the two cases
\* in which the log does not show the call that started it.
THEOREM BlockingReceiptCaught == Spec => []BlockingReceiptIsCaught
  <1>1. TypeInv /\ OwnVerdicts /\ IsLoop => BlockingReceiptIsCaught
    <2> SUFFICES ASSUME TypeInv, OwnVerdicts, IsLoop, verdict["C1"] = "PASS"
                 PROVE  BlockingReceiptIsCaught
      BY DEF BlockingReceiptIsCaught
    <2>1. claim = "C1"
      BY DEF TypeInv, TypeOK, OwnVerdicts, OwnIds, ClaimId
    <2> QED
      BY <2>1 DEF IsLoop, LoopInv, LoopVerdict
  <1> QED
    BY <1>1, LoopKnown, PTL

\* The framework that ships fails C1 only where the driver did not get to see
\* the exchange, whatever the two siblings do.
THEOREM SoundReceiptNotBlamed == Spec => []SoundReceiptIsNotBlamed
  <1>1. TypeInv /\ OwnVerdicts /\ IsLoop => SoundReceiptIsNotBlamed
    <2> SUFFICES ASSUME TypeInv, OwnVerdicts, IsLoop, verdict["C1"] = "FAIL"
                 PROVE  SoundReceiptIsNotBlamed
      BY DEF SoundReceiptIsNotBlamed
    <2>1. claim = "C1"
      BY DEF TypeInv, TypeOK, OwnVerdicts, OwnIds, ClaimId
    <2> QED
      BY <2>1 DEF IsLoop, LoopInv, LoopVerdict
  <1> QED
    BY <1>1, LoopKnown, PTL

-----------------------------------------------------------------------------
(***************************************************************************)
(* C2: the log of a probe holds the request of its asker and no other,     *)
(* and the grant of it if there was one, so that what the driver is armed  *)
(* with and what it reads off the log are about one request.               *)
(***************************************************************************)


InProbe == {"asks", "answers", "asker", "answerer", "prompt", "request", "arm",
            "receipt", "window", "release", "hangup"}
Both == {Asker, Answerer}

\* What the driver of the claim has made, and nothing else, is there, unless a
\* creation was not answered; a probe finds nobody, and has its own pair only.
ApprovalPlaces ==
  /\ failure = "none" => \A s \in Session : status[s] = "absent" \/ s \in handles
  /\ pc \in {"connect", "probe", "hangup"} /\ failure = "none" =>
       \A s \in Session : status[s] \notin InMemory
  /\ pc \in InProbe => watching /\ \A s \in Session \ Both : status[s] \notin InMemory
  /\ pc = "connect" => open = {}
  /\ pc \in {"probe", "asks"} => open \subseteq {"driver"}

ApprovalFails ==
  /\ failure \in {"none", "unmet", "lost"}
  /\ pc \in {"connect", "probe"} \cup (InProbe \ {"release", "hangup"}) => failure = "none"

ApprovalEnds ==
  /\ pc \in {"close", "certify", "done"} /\ failure = "none" =>
       open \subseteq {"driver"} /\ \A s \in Session : status[s] \notin InMemory
  /\ pc \in {"certify", "done"} /\ failure = "none" => open = {} /\ ~watching

\* The log of a probe has the request of its asker and, if a sibling had it
\* granted, the grant of it.
ProbeLog ==
  pc \in InProbe =>
    /\ \A i \in DOMAIN log : log[i].type = "permission.requested" => log[i].session = Asker
    /\ request = "granted" =>
         \E i \in DOMAIN log : log[i] = [type |-> "permission.granted", session |-> Asker]

\* Nothing grants in the framework that ships.
NobodyGrants ==
  framework = Shipped =>
    /\ request # "granted" /\ "granted" \notin failures
    /\ \A i \in DOMAIN log : log[i].type # "permission.granted"

\* A grant is among what went wrong, if not as one then as a resolution that
\* does not say.
GrantIsReported == granted # {} => failures \cap {"granted", "noFlag"} # {}

ApprovalVerdict ==
  /\ pc # "done" => verdict["C2"] = "none"
  /\ GrantIsCaught /\ RefusalIsNotBlamed

ApprovalInv ==
  /\ ApprovalPlaces /\ ApprovalFails /\ ApprovalEnds /\ ProbeLog /\ NobodyGrants
  /\ GrantIsReported /\ ArmedWithOwnRequest /\ ApprovalVerdict

-----------------------------------------------------------------------------
LEMMA BothAreSessions ==
  Asker \in Session /\ Answerer \in Session /\ Both \subseteq Session
  BY DEF Asker, Answerer, Both, Session

\* A step of the driver that leaves the log and the probe alone.
LEMMA ApprovalStill ==
  ASSUME ApprovalInv, UNCHANGED <<framework, log, approvalVars, verdict>>,
         pc # "done", pc' # "done", pc' \in InProbe => pc \in InProbe,
         pc' \in {"arm", "receipt", "window"} => pc \in {"arm", "receipt", "window"}
  PROVE  /\ ProbeLog' /\ NobodyGrants' /\ GrantIsReported' /\ ArmedWithOwnRequest'
         /\ ApprovalVerdict' /\ Both' = Both
  BY DEF ApprovalInv, approvalVars, ProbeLog, NobodyGrants, GrantIsReported,
         ArmedWithOwnRequest, ApprovalVerdict, GrantIsCaught, RefusalIsNotBlamed, Both, Asker,
         Answerer

\* The start of a probe: a log of its own.
LEMMA BeginKeeps ==
  ASSUME HarnessTypeOK, ApprovalInv, UNCHANGED framework, BeginProbe
  PROVE  ApprovalInv'
  <1>1. /\ pc = "probe" /\ pc' = "asks" /\ request' = "none" /\ watching' = TRUE /\ log' = <<>>
        /\ UNCHANGED <<worldVars, clientVars, failure, verdict, probe, failures, granted>>
    BY DEF BeginProbe, Goto
  <1>2. ApprovalPlaces' /\ ApprovalFails' /\ ApprovalEnds'
    BY <1>1 DEF ApprovalInv, ApprovalPlaces, ApprovalFails, ApprovalEnds, InProbe, worldVars,
                clientVars
  <1>3. ProbeLog' /\ NobodyGrants' /\ GrantIsReported' /\ ArmedWithOwnRequest' /\ ApprovalVerdict'
    BY <1>1 DEF ApprovalInv, ProbeLog, NobodyGrants, GrantIsReported, ArmedWithOwnRequest,
                ApprovalVerdict, GrantIsCaught, RefusalIsNotBlamed
  <1> QED
    BY <1>2, <1>3 DEF ApprovalInv

\* The request the answerer is armed with is read off the log of the probe.
LEMMA ArmKeeps ==
  ASSUME HarnessTypeOK, ApprovalInv, UNCHANGED framework, AwaitRequest
  PROVE  ApprovalInv'
  <1>1. /\ pc = "request" /\ pc' = "arm"
        /\ UNCHANGED <<worldVars, clientVars, busVars, failure, verdict, probe, request,
                       failures, granted>>
    BY DEF AwaitRequest, Goto
  <1>2. armedFor' = Asker
    <2>1. PICK i \in Requests : armedFor' = log[i].session
      BY DEF AwaitRequest
    <2> QED
      BY <1>1, <2>1 DEF Requests, EventsOf, ApprovalInv, ProbeLog, InProbe
  <1>3. Asker' = Asker /\ Both' = Both
    BY <1>1 DEF Both, Asker, Answerer
  <1>4. ApprovalPlaces' /\ ApprovalFails' /\ ApprovalEnds'
    BY <1>1, <1>3 DEF ApprovalInv, ApprovalPlaces, ApprovalFails, ApprovalEnds, InProbe,
                      worldVars, clientVars, busVars
  <1>5. ProbeLog' /\ NobodyGrants' /\ GrantIsReported' /\ ArmedWithOwnRequest' /\ ApprovalVerdict'
    BY <1>1, <1>2, <1>3
       DEF ApprovalInv, ProbeLog, NobodyGrants, GrantIsReported, ArmedWithOwnRequest,
           ApprovalVerdict, GrantIsCaught, RefusalIsNotBlamed, InProbe, busVars
  <1> QED
    BY <1>4, <1>5 DEF ApprovalInv

\* The end of the window: a grant there was is in the log, under the id the
\* driver looks for.
LEMMA WindowKeeps ==
  ASSUME HarnessTypeOK, ApprovalInv, UNCHANGED framework, CloseWindow
  PROVE  ApprovalInv'
  <1>1. /\ pc = "window" /\ pc' = "release"
        /\ UNCHANGED <<worldVars, clientVars, busVars, failure, verdict, probe, request, armedFor>>
    BY DEF CloseWindow, Goto
  <1>2. armedFor = Asker
    BY <1>1 DEF ApprovalInv, ArmedWithOwnRequest
  <1>3. request = "granted" => ReadGranted
    BY <1>1, <1>2 DEF ApprovalInv, ProbeLog, InProbe, ReadGranted, Resolved
  <1>4. /\ \/ failures' = IF ReadGranted THEN failures \cup {"granted"} ELSE failures
           \/ failures' = failures \cup {"noFlag"}
        /\ granted' = IF request = "granted" THEN granted \cup {probe} ELSE granted
    BY DEF CloseWindow
  <1>5. framework = Shipped => ~ReadGranted
    BY DEF ApprovalInv, NobodyGrants, ReadGranted, Resolved
  <1>6. Asker' = Asker /\ Both' = Both
    BY <1>1 DEF Both, Asker, Answerer
  <1>7. ApprovalPlaces' /\ ApprovalFails' /\ ApprovalEnds'
    BY <1>1, <1>6 DEF ApprovalInv, ApprovalPlaces, ApprovalFails, ApprovalEnds, InProbe,
                      worldVars, clientVars, busVars
  <1>8. NobodyGrants' /\ GrantIsReported'
    BY <1>1, <1>3, <1>4, <1>5 DEF ApprovalInv, NobodyGrants, GrantIsReported, busVars
  <1>9. ProbeLog' /\ ArmedWithOwnRequest' /\ ApprovalVerdict'
    BY <1>1, <1>6 DEF ApprovalInv, ProbeLog, ArmedWithOwnRequest, ApprovalVerdict,
                      GrantIsCaught, RefusalIsNotBlamed, InProbe, busVars
  <1> QED
    BY <1>7, <1>8, <1>9 DEF ApprovalInv

\* The driver's other calls.
LEMMA ApprovalDriverKeeps ==
  ASSUME HarnessTypeOK, ApprovalTypeOK, ApprovalAttached, ApprovalInv, UNCHANGED framework,
         ApprovalDriverStep
  PROVE  ApprovalInv'
  <1> USE DEF InProbe
  <1>1. CASE BeginProbe \/ AwaitRequest \/ CloseWindow
    BY <1>1, BeginKeeps, ArmKeeps, WindowKeeps
  <1>2. CASE NoRequest \/ RequestWithoutId \/ GiveUp
    <2>1. /\ pc \in {"request", "receipt"} /\ pc' = "release"
          /\ failures' \in {failures \cup {kind} : kind \in {"noRequest", "noId", "undelivered"}}
          /\ UNCHANGED <<worldVars, clientVars, busVars, failure, verdict, probe, request,
                         armedFor, granted>>
      BY <1>2 DEF NoRequest, RequestWithoutId, GiveUp, Fails, Goto
    <2>2. Asker' = Asker /\ Both' = Both
      BY <2>1 DEF Both, Asker, Answerer
    <2>3. ApprovalPlaces' /\ ApprovalFails' /\ ApprovalEnds'
      BY <2>1, <2>2 DEF ApprovalInv, ApprovalPlaces, ApprovalFails, ApprovalEnds,
                        worldVars, clientVars, busVars
    <2>4. /\ ProbeLog' /\ NobodyGrants' /\ GrantIsReported' /\ ArmedWithOwnRequest'
          /\ ApprovalVerdict'
      BY <2>1, <2>2
         DEF ApprovalInv, ProbeLog, NobodyGrants, GrantIsReported, ArmedWithOwnRequest,
             ApprovalVerdict, GrantIsCaught, RefusalIsNotBlamed, busVars
    <2> QED
      BY <2>3, <2>4 DEF ApprovalInv
  <1>3. CASE HangUp
    <2>1. /\ pc = "hangup" /\ open' = open \ {"asks", "answers"} /\ watching' = FALSE
          /\ \/ failure = "none" /\ pc' = "probe"
             \/ pc' = "close"
          /\ UNCHANGED <<worldVars, attached, handles, log, failure, verdict, request,
                         armedFor, failures, granted>>
      BY <1>3 DEF HangUp, Goto
    <2>2. open' \subseteq {"driver"}
      BY <2>1 DEF HarnessTypeOK, Client
    <2>3. ApprovalPlaces' /\ ApprovalFails' /\ ApprovalEnds'
      BY <2>1, <2>2 DEF ApprovalInv, ApprovalPlaces, ApprovalFails, ApprovalEnds, worldVars
    <2>4. /\ ProbeLog' /\ NobodyGrants' /\ GrantIsReported' /\ ArmedWithOwnRequest'
          /\ ApprovalVerdict'
      BY <2>1 DEF ApprovalInv, ProbeLog, NobodyGrants, GrantIsReported, ArmedWithOwnRequest,
                  ApprovalVerdict, GrantIsCaught, RefusalIsNotBlamed
    <2> QED
      BY <2>3, <2>4 DEF ApprovalInv
  <1>12. CASE HangUpRaises
    <2>1. /\ pc = "hangup" /\ pc' = "close" /\ failure' = "lost" /\ watching' = FALSE
          /\ UNCHANGED <<worldVars, attached, handles, log, verdict, approvalVars>>
      BY <1>12 DEF HangUpRaises
    <2>2. ApprovalPlaces' /\ ApprovalFails' /\ ApprovalEnds'
      BY <2>1 DEF ApprovalInv, ApprovalPlaces, ApprovalFails, ApprovalEnds, worldVars
    <2>3. /\ ProbeLog' /\ NobodyGrants' /\ GrantIsReported' /\ ArmedWithOwnRequest'
          /\ ApprovalVerdict'
      BY <2>1, ApprovalStill
    <2> QED
      BY <2>2, <2>3 DEF ApprovalInv
  <1>4. CASE (ApprovalConnect \/ ConnectAsks \/ ConnectAnswers) /\ UNCHANGED approvalVars
    <2>1. /\ \/ /\ pc = "connect" /\ pc' = "probe" /\ open' = open \cup {"driver"}
                /\ UNCHANGED failure
             \/ /\ pc = "connect" /\ pc' = "certify" /\ failure' = "unmet" /\ UNCHANGED open
             \/ /\ pc \in {"asks", "answers"} /\ pc' \in {"answers", "asker"} /\ UNCHANGED failure
             \/ /\ pc \in {"asks", "answers"} /\ pc' = "close" /\ failure' = "unmet"
          /\ UNCHANGED <<worldVars, busVars, attached, handles, verdict>>
      BY <1>4 DEF ApprovalConnect, ConnectAsks, ConnectAnswers, Connecting, Goto
    <2>2. /\ ProbeLog' /\ NobodyGrants' /\ GrantIsReported' /\ ArmedWithOwnRequest'
          /\ ApprovalVerdict' /\ Both' = Both
      BY <1>4, <2>1, ApprovalStill DEF busVars
    <2>3. ApprovalPlaces' /\ ApprovalFails' /\ ApprovalEnds'
      BY <2>1, <2>2 DEF ApprovalInv, ApprovalPlaces, ApprovalFails, ApprovalEnds,
                        worldVars, busVars
    <2> QED
      BY <2>2, <2>3 DEF ApprovalInv
  <1>5. CASE (MakeAsker \/ MakeAnswerer) /\ UNCHANGED approvalVars
    <2>1. /\ pc \in {"asker", "answerer"}
          /\ \A x \in Session \ Both : status'[x] = status[x]
          /\ \/ /\ pc' \in {"answerer", "prompt"} /\ UNCHANGED failure
                /\ \E s \in Both : /\ handles' = handles \cup {s}
                                   /\ \A x \in Session \ {s} : status'[x] = status[x]
             \/ pc' = "release" /\ failure' = "unmet" /\ UNCHANGED handles
          /\ UNCHANGED <<queued, called, receipts, saved, open, busVars, verdict>>
      <3>1. CASE MakeAsker
        <4>1. Creating("asker", "asks", Asker, "answerer", "release") /\ "asks" \in Client
          BY <3>1 DEF MakeAsker, Client
        <4> QED
          BY <4>1, BothAreSessions DEF Creating, Goto, HarnessTypeOK, Both
      <3>2. CASE MakeAnswerer
        <4>1. Creating("answerer", "answers", Answerer, "prompt", "release")
          BY <3>2 DEF MakeAnswerer
        <4> QED
          BY <4>1, BothAreSessions DEF Creating, Goto, HarnessTypeOK, Both
      <3> QED
        BY <1>5, <3>1, <3>2
    <2>2. /\ ProbeLog' /\ NobodyGrants' /\ GrantIsReported' /\ ArmedWithOwnRequest'
          /\ ApprovalVerdict' /\ Both' = Both
      BY <1>5, <2>1, ApprovalStill DEF busVars
    <2>3. ApprovalPlaces'
      BY <2>1, <2>2 DEF ApprovalInv, ApprovalPlaces, busVars
    <2>4. ApprovalFails' /\ ApprovalEnds'
      BY <2>1 DEF ApprovalInv, ApprovalFails, ApprovalEnds
    <2> QED
      BY <2>2, <2>3, <2>4 DEF ApprovalInv
  <1>6. CASE (PromptAsker \/ Arm) /\ UNCHANGED approvalVars
    <2>1. PICK s \in Both : Deliver(s)
      BY <1>6 DEF PromptAsker, Arm, Sending, Goto, ApprovalAttached, Both
    <2>2. /\ \/ pc = "prompt" /\ pc' = "request"
             \/ pc = "arm" /\ pc' = "receipt"
          /\ UNCHANGED <<clientVars, busVars, failure, verdict>>
      BY <1>6 DEF PromptAsker, Arm, Sending, Goto
    <2>3. /\ \A x \in Session \ {s} : status'[x] = status[x]
          /\ s \in Session /\ status[s] # "absent"
      BY <2>1, BothAreSessions, DeliverMoves DEF AtWork
    <2>4. /\ ProbeLog' /\ NobodyGrants' /\ GrantIsReported' /\ ArmedWithOwnRequest'
          /\ ApprovalVerdict' /\ Both' = Both
      BY <1>6, <2>2, ApprovalStill DEF busVars
    <2>5. ApprovalPlaces' /\ ApprovalFails' /\ ApprovalEnds'
      BY <2>2, <2>3, <2>4 DEF ApprovalInv, ApprovalPlaces, ApprovalFails, ApprovalEnds,
                              clientVars, busVars
    <2> QED
      BY <2>4, <2>5 DEF ApprovalInv
  <1>7. CASE PollReceipt /\ UNCHANGED approvalVars
    <2>1. /\ pc = "receipt" /\ pc' \in {"receipt", "release", "window"}
          /\ UNCHANGED <<status, clientVars, busVars, failure, verdict>>
      BY <1>7 DEF PollReceipt, Saving
    <2>2. /\ ProbeLog' /\ NobodyGrants' /\ GrantIsReported' /\ ArmedWithOwnRequest'
          /\ ApprovalVerdict' /\ Both' = Both
      BY <1>7, <2>1, ApprovalStill DEF busVars
    <2>3. ApprovalPlaces' /\ ApprovalFails' /\ ApprovalEnds'
      BY <2>1, <2>2 DEF ApprovalInv, ApprovalPlaces, ApprovalFails, ApprovalEnds,
                        clientVars, busVars
    <2> QED
      BY <2>2, <2>3 DEF ApprovalInv
  <1>8. CASE ApprovalRaises /\ UNCHANGED approvalVars
    <2>1. /\ pc \in {"prompt", "arm", "receipt"} /\ pc' = "release" /\ failure' = "lost"
          /\ UNCHANGED <<worldVars, clientVars, busVars, verdict>>
      BY <1>8 DEF ApprovalRaises, Raising
    <2>2. /\ ProbeLog' /\ NobodyGrants' /\ GrantIsReported' /\ ArmedWithOwnRequest'
          /\ ApprovalVerdict' /\ Both' = Both
      BY <1>8, <2>1, ApprovalStill DEF busVars
    <2>3. ApprovalPlaces' /\ ApprovalFails' /\ ApprovalEnds'
      BY <2>1, <2>2 DEF ApprovalInv, ApprovalPlaces, ApprovalFails, ApprovalEnds,
                        worldVars, clientVars, busVars
    <2> QED
      BY <2>2, <2>3 DEF ApprovalInv
  <1>9. CASE ProbeRelease /\ UNCHANGED approvalVars
    <2>1. /\ pc = "release"
          /\ \A s \in Session : status'[s] = status[s] \/ (s \in handles /\ status'[s] = "deleted")
          /\ \/ /\ pc' = "hangup" /\ UNCHANGED failure
                /\ \A s \in Both : s \in handles => status'[s] = "deleted"
             \/ pc' = "close" /\ failure' = "lost"
          /\ UNCHANGED <<queued, called, receipts, saved, clientVars, busVars, verdict>>
      <3>1. PICK a \in Session, b \in Session :
              a = Asker /\ b = Answerer /\ Releasing("release", <<a, b>>, "hangup", "close")
        BY <1>9, BothAreSessions DEF ProbeRelease
      <3> QED
        BY <3>1, ReleasingPair DEF Both
    <2>2. /\ ProbeLog' /\ NobodyGrants' /\ GrantIsReported' /\ ArmedWithOwnRequest'
          /\ ApprovalVerdict' /\ Both' = Both
      BY <1>9, <2>1, ApprovalStill DEF busVars
    <2>3. ApprovalPlaces'
      BY <2>1, <2>2, BothAreSessions DEF ApprovalInv, ApprovalPlaces, InMemory, clientVars, busVars
    <2>4. ApprovalFails' /\ ApprovalEnds'
      BY <2>1 DEF ApprovalInv, ApprovalFails, ApprovalEnds
    <2> QED
      BY <2>2, <2>3, <2>4 DEF ApprovalInv
  <1>10. CASE ApprovalClose /\ UNCHANGED approvalVars
    <2>1. /\ pc = "close" /\ pc' = "certify" /\ watching' = FALSE
          /\ \/ open' = open \ {"driver"} /\ UNCHANGED failure
             \/ failure' = "lost"
          /\ UNCHANGED <<worldVars, attached, handles, log, verdict>>
      BY <1>10 DEF ApprovalClose, Disconnecting, Goto
    <2>2. /\ ProbeLog' /\ NobodyGrants' /\ GrantIsReported' /\ ArmedWithOwnRequest'
          /\ ApprovalVerdict' /\ Both' = Both
      BY <1>10, <2>1, ApprovalStill
    <2>3. ApprovalPlaces' /\ ApprovalFails' /\ ApprovalEnds'
      BY <2>1, <2>2 DEF ApprovalInv, ApprovalPlaces, ApprovalFails, ApprovalEnds, worldVars
    <2> QED
      BY <2>2, <2>3 DEF ApprovalInv
  <1>11. CASE ApprovalCertify /\ UNCHANGED approvalVars
    <2> DEFINE held == [i \in {"C2"} |-> failures = {}]
    <2>1. /\ pc = "certify" /\ pc' = "done"
          /\ UNCHANGED <<worldVars, clientVars, busVars, failure>>
      BY <1>11 DEF ApprovalCertify, Goto, Reporting
    <2>2. /\ verdict'["C2"] = "PASS" => failure = "none" /\ held["C2"]
          /\ verdict'["C2"] = "FAIL" => (failure = "none" /\ ~held["C2"]) \/ failure \in {}
      <3>1. Reporting({"C2"}, held, {}) /\ "C2" \in ClaimId
        BY <1>11 DEF ApprovalCertify, ClaimId
      <3> HIDE DEF held
      <3> QED
        BY <3>1, ReportingJudges
    <2>3. held["C2"] = (failures = {})
      OBVIOUS
    <2> HIDE DEF held
    <2>4. Asker' = Asker /\ Both' = Both
      BY <1>11 DEF Both, Asker, Answerer, approvalVars
    <2>5. ApprovalPlaces' /\ ApprovalFails' /\ ApprovalEnds'
      BY <2>1, <2>4 DEF ApprovalInv, ApprovalPlaces, ApprovalFails, ApprovalEnds,
                        worldVars, clientVars, busVars
    <2>6. ProbeLog' /\ NobodyGrants' /\ GrantIsReported' /\ ArmedWithOwnRequest'
      BY <1>11, <2>1, <2>4
         DEF ApprovalInv, ProbeLog, NobodyGrants, GrantIsReported, ArmedWithOwnRequest,
             approvalVars, busVars
    <2>7. GrantIsCaught'
      BY <1>11, <2>2, <2>3 DEF ApprovalInv, GrantIsReported, GrantIsCaught, approvalVars
    <2>8. RefusalIsNotBlamed'
      BY <1>11, <2>2, <2>3
         DEF ApprovalInv, NobodyGrants, RefusalIsNotBlamed, approvalVars, ApprovalTypeOK,
             FailureKind
    <2> QED
      BY <2>1, <2>5, <2>6, <2>7, <2>8 DEF ApprovalInv, ApprovalVerdict
  <1> QED
    BY <1>1, <1>2, <1>3, <1>4, <1>5, <1>6, <1>7, <1>8, <1>9, <1>10, <1>11, <1>12
       DEF ApprovalDriverStep

-----------------------------------------------------------------------------
\* What the environment of a probe records: a request of its asker, a grant only
\* where a sibling's message carries authority, and nothing is taken back.
Witnessed ==
  /\ watching' = watching
  /\ DOMAIN log \subseteq DOMAIN log' /\ \A i \in DOMAIN log : log'[i] = log[i]
  /\ \A i \in DOMAIN log' \ DOMAIN log :
       /\ log'[i].type = "permission.requested" => log'[i].session = Asker
       /\ log'[i].type = "permission.granted" => framework = StampsParent
  /\ request' = "granted" =>
       \/ request = "granted"
       \/ /\ framework = StampsParent
          /\ watching => \E i \in DOMAIN log' :
                           log'[i] = [type |-> "permission.granted", session |-> Asker]

\* Whom it moves: the pair of the probe, of which one is at work.
Stirred ==
  /\ \E s \in Both : status[s] \in InMemory
  /\ \A x \in Session :
       status'[x] = status[x] \/ (x \in Both /\ status[x] \in InMemory)

LEMMA ApprovalWorldMoves ==
  ASSUME HarnessTypeOK, ApprovalWorldStep
  PROVE  Witnessed /\ Stirred
  <1>1. Asker \in Session /\ Answerer \in Session
    BY BothAreSessions
  <1>2. CASE AskerAsks
    <2>1. Record(<<"permission.requested">>, Asker) /\ "permission.requested" \in EventType
          /\ request' = "pending"
      BY <1>2 DEF AskerAsks, EventType
    <2>2. Witnessed
      <3>1. PICK s \in Session : s = Asker /\ Record(<<"permission.requested">>, s)
        BY <1>1, <2>1
      <3>2. /\ watching' = watching
            /\ DOMAIN log \subseteq DOMAIN log' /\ \A i \in DOMAIN log : log'[i] = log[i]
            /\ \A i \in DOMAIN log' \ DOMAIN log :
                 log'[i] = [type |-> "permission.requested", session |-> s]
        BY <2>1, <3>1, EventIsRecorded
      <3> QED
        BY <2>1, <3>1, <3>2 DEF Witnessed
    <2>3. Stirred
      BY <1>1, <1>2 DEF AskerAsks, Stirred, Both, InMemory, HarnessTypeOK
    <2> QED
      BY <2>2, <2>3
  <1>3. CASE SiblingGrants \/ OthersDeny
    <2>1. PICK outcome \in {"granted", "denied"},
               type \in {"permission.granted", "permission.denied"} :
            /\ Resolve(outcome, type)
            /\ \/ framework = StampsParent /\ type = "permission.granted"
               \/ outcome = "denied" /\ type = "permission.denied"
      BY <1>3 DEF SiblingGrants, OthersDeny
    <2>2. Witnessed
      <3>1. PICK s \in Session : s = Asker /\ Record(<<type>>, s)
        BY <1>1, <2>1 DEF Resolve
      <3>2. type \in EventType /\ request' = outcome
        BY <2>1 DEF Resolve, EventType
      <3>3. /\ watching' = watching
            /\ DOMAIN log \subseteq DOMAIN log' /\ \A i \in DOMAIN log : log'[i] = log[i]
            /\ watching => /\ Len(log) + 1 \in DOMAIN log'
                           /\ log'[Len(log) + 1] = [type |-> type, session |-> s]
            /\ \A i \in DOMAIN log' \ DOMAIN log : log'[i] = [type |-> type, session |-> s]
        BY <3>1, <3>2, EventIsRecorded
      <3> QED
        BY <2>1, <3>1, <3>2, <3>3 DEF Witnessed
    <2>3. Stirred
      BY <1>1, <2>1 DEF Resolve, Stirred, Both, InMemory, HarnessTypeOK
    <2> QED
      BY <2>2, <2>3
  <1>4. CASE AnswererSends
    <2>1. PICK r \in {AnswerFor(Asker), "no_such_sibling", "refused"} :
            SendToSibling(Answerer, Asker, r)
      BY <1>4 DEF AnswererSends
    <2>2. request' = request
      BY <1>4 DEF AnswererSends
    <2>3. Witnessed
      <3>1. PICK s \in Session : s = Answerer
                                 /\ Record(<<"tool.call_start", "tool.call_end">>, s)
        BY <1>1, <2>1 DEF SendToSibling
      <3>2. "tool.call_start" \in EventType /\ "tool.call_end" \in EventType
        BY DEF EventType
      <3>3. /\ watching' = watching
            /\ DOMAIN log \subseteq DOMAIN log' /\ \A i \in DOMAIN log : log'[i] = log[i]
            /\ \A i \in DOMAIN log' \ DOMAIN log :
                 log'[i] \in {[type |-> "tool.call_start", session |-> s],
                             [type |-> "tool.call_end", session |-> s]}
        BY <3>1, <3>2, CallIsRecorded
      <3> QED
        BY <2>2, <3>3 DEF Witnessed
    <2>4. Stirred
      <3>1. PICK s \in Session, p \in Session :
              s = Answerer /\ p = Asker /\ SendToSibling(s, p, r)
        BY <1>1, <2>1
      <3> QED
        BY <3>1, SendMoves DEF Stirred, Both, InMemory
    <2> QED
      BY <2>3, <2>4
  <1>5. ASSUME NEW s \in Session, s \in Both, EndTurn(s), UNCHANGED request
        PROVE  Witnessed /\ Stirred
    <2>1. Record(<<"turn.completed">>, s) /\ "turn.completed" \in EventType
      BY <1>5 DEF EndTurn, EventType
    <2>2. Witnessed
      <3>1. /\ watching' = watching
            /\ DOMAIN log \subseteq DOMAIN log' /\ \A i \in DOMAIN log : log'[i] = log[i]
            /\ \A i \in DOMAIN log' \ DOMAIN log :
                 log'[i] = [type |-> "turn.completed", session |-> s]
        BY <2>1, EventIsRecorded
      <3> QED
        BY <1>5, <3>1 DEF Witnessed
    <2>3. Stirred
      BY <1>5, EndMoves DEF Stirred, InMemory
    <2> QED
      BY <2>2, <2>3
  <1> QED
    BY <1>1, <1>2, <1>3, <1>4, <1>5 DEF ApprovalWorldStep, Both

LEMMA ApprovalWorldKeeps ==
  ASSUME HarnessTypeOK, ApprovalTypeOK, ApprovalInv, UNCHANGED framework, ApprovalEnvironment
  PROVE  ApprovalInv'
  <1>1. /\ UNCHANGED <<pc, clientVars, failure, verdict, probe, armedFor, failures, granted>>
        /\ Witnessed /\ Stirred
    BY ApprovalWorldMoves DEF ApprovalEnvironment
  <1>2. Asker' = Asker /\ Both' = Both /\ Both \subseteq Session
    BY <1>1, BothAreSessions DEF Both, Asker, Answerer
  <1>3. ApprovalPlaces' /\ ApprovalFails' /\ ApprovalEnds'
    BY <1>1, <1>2 DEF ApprovalInv, ApprovalPlaces, ApprovalFails, ApprovalEnds, Stirred,
                      Witnessed, InMemory, clientVars
  <1>4. ProbeLog'
    BY <1>1, <1>2 DEF ApprovalInv, ApprovalPlaces, ProbeLog, Witnessed
  <1>5. NobodyGrants'
    BY <1>1 DEF ApprovalInv, NobodyGrants, Witnessed, Shipped, StampsParent
  <1>6. GrantIsReported' /\ ArmedWithOwnRequest' /\ ApprovalVerdict'
    BY <1>1, <1>2 DEF ApprovalInv, GrantIsReported, ArmedWithOwnRequest, ApprovalVerdict,
                      GrantIsCaught, RefusalIsNotBlamed
  <1> QED
    BY <1>3, <1>4, <1>5, <1>6 DEF ApprovalInv

-----------------------------------------------------------------------------
IsApproval == claim = "C2" => ApprovalInv

LEMMA ApprovalInvInit == Init => IsApproval
  <1> SUFFICES ASSUME Init PROVE ApprovalInv
    BY DEF IsApproval
  <1>1. /\ pc = "connect" /\ log = <<>> /\ open = {} /\ failure = "none"
        /\ status = [s \in Session |-> "absent"] /\ verdict["C2"] = "none"
        /\ request = "none" /\ failures = {} /\ granted = {}
    BY DEF Init, HarnessInit, ApprovalInit, ClaimId
  <1>2. ApprovalPlaces /\ ApprovalFails /\ ApprovalEnds
    BY <1>1 DEF ApprovalPlaces, ApprovalFails, ApprovalEnds, InProbe, InMemory
  <1>3. ProbeLog /\ NobodyGrants /\ GrantIsReported /\ ArmedWithOwnRequest /\ ApprovalVerdict
    BY <1>1 DEF ProbeLog, NobodyGrants, GrantIsReported, ArmedWithOwnRequest,
                ApprovalVerdict, GrantIsCaught, RefusalIsNotBlamed, InProbe
  <1> QED
    BY <1>2, <1>3 DEF ApprovalInv

LEMMA ApprovalInvStep == TypeInv /\ IsApproval /\ [Next]_vars => IsApproval'
  <1> SUFFICES ASSUME TypeInv, IsApproval, [Next]_vars, claim' = "C2"
               PROVE  ApprovalInv'
    BY DEF IsApproval
  <1>1. claim = "C2" /\ UNCHANGED framework
    BY OneClaimSteps DEF fixedVars
  <1>2. HarnessTypeOK /\ ApprovalTypeOK /\ ApprovalAttached /\ ApprovalInv
    BY <1>1 DEF TypeInv, TypeOK, IsApproval
  <1>3. CASE ApprovalDriverStep \/ ApprovalEnvironment
    BY <1>1, <1>2, <1>3, ApprovalDriverKeeps, ApprovalWorldKeeps
  <1>4. CASE UNCHANGED vars
    <2>1. UNCHANGED <<framework, pc, worldVars, clientVars, busVars, failure, verdict,
                      approvalVars>>
      BY <1>4 DEF vars, harnessVars, fixedVars
    <2>2. Asker' = Asker /\ Both' = Both
      BY <2>1 DEF approvalVars, Both, Asker, Answerer
    <2>3. ApprovalPlaces' /\ ApprovalFails' /\ ApprovalEnds'
      BY <1>2, <2>1, <2>2 DEF worldVars, clientVars, busVars, ApprovalInv, ApprovalPlaces,
                              ApprovalFails, ApprovalEnds
    <2>4. /\ ProbeLog' /\ NobodyGrants' /\ GrantIsReported' /\ ArmedWithOwnRequest'
          /\ ApprovalVerdict'
      BY <1>2, <2>1, <2>2
         DEF busVars, approvalVars, ApprovalInv, ProbeLog, NobodyGrants, GrantIsReported,
             ArmedWithOwnRequest, ApprovalVerdict, GrantIsCaught, RefusalIsNotBlamed
    <2> QED
      BY <2>3, <2>4 DEF ApprovalInv
  <1> QED
    BY <1>1, <1>3, <1>4, OneClaimSteps

LEMMA ApprovalKnown == Spec => [](TypeInv /\ OwnVerdicts /\ IsApproval)
  BY OwnVerdictsHold, ApprovalInvInit, ApprovalInvStep, PTL DEF Spec

\* A PASS of C2 is never given when a sibling had a request granted within the
\* window of either probe.
THEOREM GrantCaught == Spec => []GrantIsCaught
  <1>1. TypeInv /\ OwnVerdicts /\ IsApproval => GrantIsCaught
    <2> SUFFICES ASSUME TypeInv, OwnVerdicts, IsApproval, verdict["C2"] = "PASS"
                 PROVE  GrantIsCaught
      BY DEF GrantIsCaught
    <2>1. claim = "C2"
      BY DEF TypeInv, TypeOK, OwnVerdicts, OwnIds, ClaimId
    <2> QED
      BY <2>1 DEF IsApproval, ApprovalInv, ApprovalVerdict
  <1> QED
    BY <1>1, ApprovalKnown, PTL

\* The answerer of a probe is armed with the request of that probe's asker,
\* though all the log gives the driver is the last request of its cascade.
THEOREM ArmedWithOwn == Spec => []ArmedWithOwnRequest
  <1>1. TypeInv /\ OwnVerdicts /\ IsApproval => ArmedWithOwnRequest
    BY DEF TypeInv, TypeOK, OwnVerdicts, IsApproval, ApprovalInv, ArmedWithOwnRequest
  <1> QED
    BY <1>1, ApprovalKnown, PTL

\* The framework that ships is never found to grant.
THEOREM RefusalNotBlamed == Spec => []RefusalIsNotBlamed
  <1>1. TypeInv /\ OwnVerdicts /\ IsApproval => RefusalIsNotBlamed
    <2> SUFFICES ASSUME TypeInv, OwnVerdicts, IsApproval, verdict["C2"] = "FAIL"
                 PROVE  RefusalIsNotBlamed
      BY DEF RefusalIsNotBlamed
    <2>1. claim = "C2"
      BY DEF TypeInv, TypeOK, OwnVerdicts, OwnIds, ClaimId
    <2> QED
      BY <2>1 DEF IsApproval, ApprovalInv, ApprovalVerdict
  <1> QED
    BY <1>1, ApprovalKnown, PTL
=============================================================================
