-------------------------- MODULE ColdSiblingProofs --------------------------
(***************************************************************************)
(* Theorems about ColdSibling, for every set of frameworks.  They rest on  *)
(* one invariant: where each session is when the driver is at a place in   *)
(* _run, what a transcript can hold under each framework, and what was     *)
(* read of it before the verdicts are made.                                *)
(***************************************************************************)
EXTENDS ColdSibling, TLAPS

Early == {"connect", "makeResting", "makeGone", "deleteGone", "makeAwake", "promptAwake",
          "makeSender"}
Attaching == {"attachResting", "attachSender"}
Probing == {"sendCold", "quiet", "countTurns", "sendIdle", "pollSent", "pollRan", "judgeRan",
            "sendDead", "pollAll", "read"}
Leaving == {"finally", "disconnect", "certify", "done"}

\* Out of _run: a session that is left may go on, and finds what is left.
Closed == {"certify", "done"}
USE DEF Closed

\* The session the client is on, and those it can leave to be unloaded.
ClientIsOn ==
  /\ pc = "promptAwake" => current = "awake"
  /\ pc \in {"attachResting", "settle"} \cup Probing => current = "sender"
  /\ pc = "attachSender" => current = "resting"
  /\ unloading \subseteq {"resting", "sender"}
  /\ pc \in Early => unloading = {}

\* Only the driver instructs the sender.
InstructionsAreDriver == inbox["sender"] \subseteq Peer

\* Where the driver's steps have left each session.
SenderIsSet ==
  /\ pc \in Early => status["sender"] = "absent"
  /\ pc \in Attaching => status["sender"] \in {"idle", "cold"}
  /\ pc \in {"settle", "sendCold"} => status["sender"] = "idle" /\ "sender" \notin unloading

GoneIsSet ==
  pc \in {"makeAwake", "promptAwake", "makeSender", "settle"} \cup Attaching \cup Probing =>
    status["gone"] = "deleted"

AwakeIsSet ==
  pc \in {"promptAwake", "makeSender", "settle"} \cup Attaching \cup Probing =>
    status["awake"] \in {"idle", "running"}

RestingIsSet ==
  /\ pc \in (Early \ {"connect", "makeResting"}) \cup Attaching =>
       status["resting"] = "idle" /\ "resting" \notin unloading
  /\ pc = "settle" =>
       status["resting"] = "cold" \/ (status["resting"] = "idle" /\ "resting" \in unloading)
  /\ pc \in Probing /\ framework # WakesCold => status["resting"] = "cold"

\* How the sender finds the others, as long as it runs.
SenderFinds ==
  status["sender"] = "running" =>
    /\ pc \in (Probing \ {"sendCold"}) \cup Leaving
    /\ pc \notin Closed =>
         /\ status["gone"] = "deleted"
         /\ status["awake"] \in {"idle", "running"}
         /\ framework # WakesCold => status["resting"] = "cold"

\* What a transcript of the sender can hold under each framework.
MayHold(t) ==
  /\ framework = Shipped =>
       /\ t.receipt["resting"] \in {"none", "sibling_cold"}
       /\ t.receipt["awake"] \in {"none", "accepted", "queued"}
       /\ t.receipt["gone"] \in {"none", "no_such_sibling"}
       /\ t.rosters \subseteq {TRUE}
  /\ framework = QueuesIdle => t.receipt["awake"] # "accepted"
  /\ framework = QueuesDeleted => t.receipt["gone"] # "no_such_sibling"
  /\ framework = DropsCold => t.rosters \subseteq {FALSE}

\* A transcript that was read shows receipts that are still there.
IsPast(t) ==
  \A p \in Peer : t.receipt[p] # "none" => t.receipt[p] = live["sender"].receipt[p]

Records ==
  /\ pc \notin Closed => MayHold(live["sender"]) /\ MayHold(disk["sender"])
  /\ MayHold(evidence)
  /\ IsPast(disk["sender"]) /\ IsPast(evidence)

\* An answer of the peer that was idle is an answer to the sender.
Hearing ==
  /\ live["awake"].answered => live["awake"].heard
  /\ disk["awake"].answered => live["awake"].answered
  /\ live["awake"].heard \/ "hello" \in inbox["awake"] =>
       live["sender"].receipt["awake"] # "none"
  /\ pc \in Early => live["sender"].receipt["awake"] = "none"
  /\ framework = AcceptsOnly /\ live["sender"].receipt["awake"] = "accepted" =>
       ~live["awake"].heard /\ status["awake"] # "running"

\* What the driver takes for an answered turn, once it has judged it, is one.
RanIsTrue ==
  idleRan /\ raised = "none" /\ pc \in {"sendDead", "pollAll", "read"} \cup Leaving =>
    live["awake"].answered

WokeIsTrue == woken \/ coldWoke => framework = WakesCold

\* A driver that leaves without an exception has deleted and closed all.
Ending ==
  /\ pc \notin Leaving => raised = "none"
  /\ pc = "finally" /\ raised = "none" => status["gone"] = "deleted"
  /\ pc \in {"disconnect", "certify", "done"} /\ raised = "none" =>
       \A s \in Session : status[s] = "deleted"
  /\ pc \in {"certify", "done"} /\ raised = "none" => open = {}

\* The verdicts are those of the claims.
Judgement ==
  /\ a \in {"PASS", "FAIL"} \/ b \in {"PASS", "FAIL"} =>
       pc = "done" /\ raised = "none" /\ a = PassIf(ClaimA) /\ b = PassIf(ClaimB)

Scene == SenderIsSet /\ GoneIsSet /\ AwakeIsSet /\ RestingIsSet /\ SenderFinds
Story == Records /\ Hearing /\ RanIsTrue /\ WokeIsTrue
Outcome == Ending /\ Judgement

IInv == TypeOK /\ ClientIsOn /\ InstructionsAreDriver /\ Scene /\ Story /\ Outcome

-----------------------------------------------------------------------------
(***************************************************************************)
(* What a step of the world does.                                          *)
(***************************************************************************)
LEMMA Names ==
  /\ Session = {"resting", "awake", "gone", "sender"}
  /\ Peer = {"resting", "awake", "gone"}
BY DEF Session, Peer

LEMMA MakerIs ==
  /\ Maker("resting") = "makeResting" /\ Maker("gone") = "makeGone"
  /\ Maker("awake") = "makeAwake" /\ Maker("sender") = "makeSender"
  /\ \A s \in Session :
       Maker(s) \in {"makeResting", "makeGone", "makeAwake", "makeSender"}
BY Names DEF Maker

\* A call of the sender.
LEMMA SendEffect ==
  ASSUME TypeOK, NEW p \in Peer, SenderSends(p)
  PROVE  /\ status["sender"] = "running" /\ p \in work
         /\ live["sender"].receipt[p] = "none"
         /\ \E r \in Receipts(p) :
              live'["sender"] = [live["sender"] EXCEPT !.receipt[p] = r]
         /\ live'[p] = [live[p] EXCEPT !.heard = @ \/ Starts(p)]
         /\ \A s \in Session \ {p, "sender"} : live'[s] = live[s]
         /\ \A s \in Session \ {p} : status'[s] = status[s] /\ disk'[s] = disk[s]
                                     /\ inbox'[s] = inbox[s]
         /\ \/ Starts(p) /\ status'[p] = "running" /\ disk'[p] = live[p] /\ inbox'[p] = inbox[p]
            \/ ~Starts(p) /\ status'[p] = status[p] /\ disk'[p] = disk[p]
                 /\ inbox'[p] = inbox[p] \cup {"hello"}
         /\ live' \in [Session -> Transcript] /\ disk' \in [Session -> Transcript]
         /\ status' \in [Session -> {"absent", "idle", "running", "cold", "deleted"}]
         /\ inbox' \in [Session -> SUBSET Message]
         /\ woken' = (woken \/ (status[p] = "cold" /\ Starts(p)))
         /\ UNCHANGED <<work, unloading, current>>
<1>1. /\ p \in Session /\ p # "sender" /\ "sender" \in Session
      /\ live \in [Session -> Transcript]
  BY Names DEF TypeOK
<1>2. PICK r \in Receipts(p) :
        live' = [live EXCEPT !["sender"].receipt[p] = r, ![p].heard = @ \/ Starts(p)]
  BY DEF SenderSends
<1>3. r \in Receipt
  BY DEF Receipts, Receipt
<1>4. [live["sender"] EXCEPT !.receipt[p] = r] \in Transcript
  <2>1. live["sender"] \in Transcript
    BY <1>1
  <2>2. [live["sender"].receipt EXCEPT ![p] = r] \in [Peer -> Receipt]
    BY <1>3, <2>1 DEF Transcript
  <2> QED
    BY <2>1, <2>2 DEF Transcript
<1>5. [live[p] EXCEPT !.heard = @ \/ Starts(p)] \in Transcript
  <2>1. live[p] \in Transcript /\ (live[p].heard \/ Starts(p)) \in BOOLEAN
    BY <1>1 DEF Transcript, Starts
  <2> QED
    BY <2>1 DEF Transcript
<1>6. /\ live'["sender"] = [live["sender"] EXCEPT !.receipt[p] = r]
      /\ live'[p] = [live[p] EXCEPT !.heard = @ \/ Starts(p)]
      /\ \A s \in Session \ {p, "sender"} : live'[s] = live[s]
      /\ live' \in [Session -> Transcript]
  BY <1>1, <1>2, <1>4, <1>5
<1>7. CASE Starts(p)
  BY <1>1, <1>2, <1>6, <1>7 DEF SenderSends, StartTurn, TypeOK
<1>8. CASE ~Starts(p)
  BY <1>1, <1>2, <1>6, <1>8 DEF SenderSends, TypeOK, Message
<1> QED
  BY <1>7, <1>8

LEMMA ListEffect ==
  ASSUME TypeOK, SenderLists
  PROVE  /\ status["sender"] = "running"
         /\ live'["sender"] = [live["sender"] EXCEPT !.rosters =
              @ \cup {status["resting"] = "cold" /\ framework # DropsCold}]
         /\ \A s \in Session \ {"sender"} : live'[s] = live[s]
         /\ live' \in [Session -> Transcript]
         /\ UNCHANGED <<status, inbox, work, disk, unloading, current, woken>>
<1>1. "sender" \in Session /\ live \in [Session -> Transcript]
  BY Names DEF TypeOK
<1> DEFINE seen == (status["resting"] = "cold" /\ framework # DropsCold)
<1>2. seen \in BOOLEAN
  OBVIOUS
<1> DEFINE that == [live["sender"] EXCEPT !.rosters = @ \cup {seen}]
<1>3. that \in Transcript
  <2> HIDE DEF seen
  <2> QED
    BY <1>1, <1>2 DEF Transcript
<1>4. live' = [live EXCEPT !["sender"] = that]
  BY <1>1 DEF SenderLists
<1>5. /\ live'["sender"] = that /\ \A s \in Session \ {"sender"} : live'[s] = live[s]
      /\ live' \in [Session -> Transcript]
  <2> HIDE DEF that
  <2> QED
    BY <1>1, <1>3, <1>4
<1> QED
  BY <1>5 DEF SenderLists

LEMMA EndTurnEffect ==
  ASSUME TypeOK, InstructionsAreDriver, NEW s \in Session, EndTurn(s)
  PROVE  /\ status[s] = "running" /\ status'[s] \in {"idle", "running"}
         /\ live'[s].receipt = live[s].receipt /\ live'[s].rosters = live[s].rosters
         /\ live'[s].answered = live[s].heard
         /\ live'[s].heard = (live[s].heard \/ "hello" \in inbox[s])
         /\ \/ disk'[s] = disk[s]
            \/ /\ disk'[s].receipt = live[s].receipt /\ disk'[s].rosters = live[s].rosters
               /\ disk'[s].answered = live[s].heard
         /\ inbox'[s] = {}
         /\ \A t \in Session \ {s} : status'[t] = status[t] /\ disk'[t] = disk[t]
                                     /\ inbox'[t] = inbox[t] /\ live'[t] = live[t]
         /\ live' \in [Session -> Transcript] /\ disk' \in [Session -> Transcript]
         /\ status' \in [Session -> {"absent", "idle", "running", "cold", "deleted"}]
         /\ inbox' \in [Session -> SUBSET Message] /\ work' \in SUBSET Peer
         /\ UNCHANGED <<unloading, current, woken>>
<1> DEFINE over == [live[s] EXCEPT !.turns = @ + 1, !.answered = live[s].heard]
           again == [over EXCEPT !.heard = @ \/ "hello" \in inbox[s]]
<1>1. live[s] \in Transcript /\ disk[s] \in Transcript
  BY DEF TypeOK
<1>2. /\ over \in Transcript
      /\ over.receipt = live[s].receipt /\ over.rosters = live[s].rosters
      /\ over.answered = live[s].heard /\ over.heard = live[s].heard
  <2> DEFINE old == live[s]
  <2>1. old \in Transcript
    BY <1>1
  <2>2. over = [old EXCEPT !.turns = @ + 1, !.answered = old.heard]
    OBVIOUS
  <2> HIDE DEF old, over
  <2>3. old.turns + 1 \in Nat /\ old.heard \in BOOLEAN
    BY <2>1 DEF Transcript
  <2> DEFINE counted == [old EXCEPT !.turns = @ + 1]
  <2>4. /\ counted \in Transcript /\ counted.receipt = old.receipt
        /\ counted.rosters = old.rosters /\ counted.heard = old.heard
    BY <2>1, <2>3 DEF Transcript
  <2>5. over = [counted EXCEPT !.answered = old.heard]
    BY <2>2
  <2> HIDE DEF counted
  <2>6. /\ over \in Transcript /\ over.receipt = counted.receipt
        /\ over.rosters = counted.rosters
        /\ over.answered = old.heard /\ over.heard = counted.heard
    BY <2>3, <2>4, <2>5 DEF Transcript
  <2> QED
    BY <2>4, <2>6 DEF old
<1>3. ("hello" \in inbox[s]) \in BOOLEAN
  OBVIOUS
<1>4. /\ again \in Transcript
      /\ again.receipt = live[s].receipt /\ again.rosters = live[s].rosters
      /\ again.answered = live[s].heard
      /\ again.heard = (live[s].heard \/ "hello" \in inbox[s])
  <2> HIDE DEF over
  <2> QED
    BY <1>2, <1>3 DEF Transcript
<1>5. /\ work' \in SUBSET Peer /\ status[s] = "running"
      /\ UNCHANGED <<unloading, current, woken>>
  BY DEF EndTurn, TypeOK, InstructionsAreDriver
<1>6. CASE inbox[s] = {}
  <2>1. /\ status' = [status EXCEPT ![s] = "idle"] /\ live' = [live EXCEPT ![s] = over]
        /\ UNCHANGED disk /\ inbox' = [inbox EXCEPT ![s] = {}]
    BY <1>6 DEF EndTurn
  <2> DEFINE heard == live[s].heard
  <2>2. heard \in BOOLEAN
    BY <1>1 DEF Transcript
  <2>3. heard = (heard \/ "hello" \in inbox[s])
    <3> HIDE DEF heard
    <3> QED BY <1>6, <2>2
  <2>4. over.heard = (live[s].heard \/ "hello" \in inbox[s])
    BY <1>2, <2>3
  <2>5. /\ live'[s] = over /\ live' \in [Session -> Transcript]
        /\ \A t \in Session \ {s} : live'[t] = live[t]
    <3> HIDE DEF over
    <3> QED BY <1>2, <2>1 DEF TypeOK
  <2>6. /\ status' \in [Session -> {"absent", "idle", "running", "cold", "deleted"}]
        /\ inbox' \in [Session -> SUBSET Message] /\ disk' \in [Session -> Transcript]
        /\ status'[s] = "idle" /\ inbox'[s] = {} /\ disk' = disk
        /\ \A t \in Session \ {s} : status'[t] = status[t] /\ inbox'[t] = inbox[t]
    BY <2>1 DEF TypeOK
  <2> HIDE DEF over
  <2> QED
    BY <1>2, <1>5, <2>4, <2>5, <2>6
<1>7. CASE inbox[s] # {}
  <2>1. /\ live' = [live EXCEPT ![s] = again] /\ disk' = [disk EXCEPT ![s] = over]
        /\ UNCHANGED status /\ inbox' = [inbox EXCEPT ![s] = {}]
    BY <1>7 DEF EndTurn
  <2> HIDE DEF over, again
  <2> QED
    BY <1>2, <1>4, <1>5, <2>1 DEF TypeOK
<1> QED
  BY <1>6, <1>7

LEMMA UnloadEffect ==
  ASSUME TypeOK, NEW s \in Session, Unload(s)
  PROVE  /\ s \in unloading /\ unloading' = unloading \ {s}
         /\ \/ status[s] = "idle" /\ status'[s] = "cold" /\ disk'[s] = live[s]
            \/ status[s] # "idle" /\ status'[s] = status[s] /\ disk'[s] = disk[s]
         /\ \A t \in Session \ {s} : status'[t] = status[t] /\ disk'[t] = disk[t]
         /\ disk' \in [Session -> Transcript]
         /\ status' \in [Session -> {"absent", "idle", "running", "cold", "deleted"}]
         /\ UNCHANGED <<inbox, work, live, current, woken>>
BY DEF Unload, TypeOK

-----------------------------------------------------------------------------
(***************************************************************************)
(* The invariant is kept by every step of the world.                       *)
(***************************************************************************)
DriverRests == UNCHANGED <<framework, pc, raised, handleVars, evidenceVars, verdictVars>>

LEMMA SendKeeps ==
  ASSUME IInv, NEW p \in Peer, SenderSends(p), DriverRests
  PROVE  IInv'
<1> USE DEF DriverRests, handleVars, evidenceVars, verdictVars
<1>0. TypeOK /\ ClientIsOn /\ InstructionsAreDriver /\ Scene /\ Story /\ Outcome
  BY DEF IInv
<1>1. PICK r \in Receipts(p) : live'["sender"] = [live["sender"] EXCEPT !.receipt[p] = r]
  BY <1>0, SendEffect
<1>2. /\ status["sender"] = "running"
      /\ live["sender"].receipt[p] = "none"
      /\ live'[p] = [live[p] EXCEPT !.heard = @ \/ Starts(p)]
      /\ \A s \in Session \ {p, "sender"} : live'[s] = live[s]
      /\ \A s \in Session \ {p} : status'[s] = status[s] /\ disk'[s] = disk[s]
                                  /\ inbox'[s] = inbox[s]
      /\ \/ Starts(p) /\ status'[p] = "running" /\ disk'[p] = live[p] /\ inbox'[p] = inbox[p]
         \/ ~Starts(p) /\ status'[p] = status[p] /\ disk'[p] = disk[p]
              /\ inbox'[p] = inbox[p] \cup {"hello"}
      /\ woken' = (woken \/ (status[p] = "cold" /\ Starts(p)))
      /\ UNCHANGED <<work, unloading, current>>
  BY <1>0, SendEffect
<1>3. /\ pc \in (Probing \ {"sendCold"}) \cup Leaving
      /\ pc \notin Closed =>
           /\ status["gone"] = "deleted" /\ status["awake"] \in {"idle", "running"}
           /\ framework # WakesCold => status["resting"] = "cold"
  BY <1>0, <1>2 DEF Scene, SenderFinds
<1>4. TypeOK'
  <2>1. /\ live' \in [Session -> Transcript] /\ disk' \in [Session -> Transcript]
        /\ status' \in [Session -> {"absent", "idle", "running", "cold", "deleted"}]
        /\ inbox' \in [Session -> SUBSET Message]
    BY <1>0, SendEffect
  <2> QED
    BY <1>0, <1>2, <2>1 DEF TypeOK, Starts
<1>5. ClientIsOn' /\ InstructionsAreDriver'
  BY <1>0, <1>2, Names DEF ClientIsOn, InstructionsAreDriver
<1>6. pc \notin Closed => ~Starts("gone") /\ (framework # WakesCold => ~Starts("resting"))
  BY <1>3 DEF Starts
<1>7. Scene'
  BY <1>0, <1>2, <1>3, <1>6, Names
     DEF Scene, SenderIsSet, GoneIsSet, AwakeIsSet, RestingIsSet, SenderFinds,
         Early, Attaching, Probing, Leaving
<1>8. /\ live["sender"] \in Transcript /\ live["sender"].receipt \in [Peer -> Receipt]
      /\ live[p] \in Transcript
  BY <1>0, Names DEF TypeOK, Transcript
<1>9. /\ live'["sender"].receipt = [live["sender"].receipt EXCEPT ![p] = r]
      /\ live'["sender"].rosters = live["sender"].rosters
      /\ live'[p].answered = live[p].answered
      /\ live'[p].heard = (live[p].heard \/ Starts(p))
  BY <1>1, <1>2, <1>8 DEF Transcript
<1>10. /\ live'["sender"].receipt[p] = r
       /\ \A q \in Peer \ {p} : live'["sender"].receipt[q] = live["sender"].receipt[q]
  BY <1>8, <1>9
<1>11. r # "none"
  BY DEF Receipts
<1>12. Records'
  <2>1. disk'["sender"] = disk["sender"] /\ evidence' = evidence /\ framework' = framework
    BY <1>2, Names
  <2>2. /\ pc \notin Closed => MayHold(live["sender"]) /\ MayHold(disk["sender"])
        /\ MayHold(evidence) /\ IsPast(disk["sender"]) /\ IsPast(evidence)
    BY <1>0 DEF Story, Records
  <2>3. pc \notin Closed =>
        /\ framework = Shipped => /\ p = "resting" => r = "sibling_cold"
                                  /\ p = "awake" => r \in {"accepted", "queued"}
                                  /\ p = "gone" => r = "no_such_sibling"
        /\ framework = QueuesIdle /\ p = "awake" => r # "accepted"
        /\ framework = QueuesDeleted /\ p = "gone" => r # "no_such_sibling"
    BY <1>3, Names DEF Receipts, Shipped, WakesCold, QueuesIdle, QueuesDeleted
  <2>4. pc \notin Closed => MayHold(live["sender"])'
    BY <1>9, <1>10, <2>1, <2>2, <2>3, Names DEF MayHold
  <2>5. (pc \notin Closed => MayHold(disk["sender"])') /\ MayHold(evidence)'
    BY <2>1, <2>2 DEF MayHold
  <2>6. IsPast(disk["sender"])' /\ IsPast(evidence)'
    BY <1>2, <1>10, <2>1, <2>2 DEF IsPast
  <2> QED
    BY <2>4, <2>5, <2>6 DEF Records
<1>13. Hearing'
  <2>1. CASE p = "awake"
    <3>1. /\ live["awake"].answered => live["awake"].heard
          /\ disk["awake"].answered => live["awake"].answered
          /\ ~live["awake"].heard
      BY <1>0, <1>2, <2>1 DEF Story, Hearing
    <3>2. live'["awake"].answered = live["awake"].answered
          /\ live'["awake"].heard = (live["awake"].heard \/ Starts(p))
      BY <1>9, <2>1
    <3>3. disk'["awake"] = disk["awake"] \/ disk'["awake"] = live["awake"]
      BY <1>2, <2>1
    <3>4. framework = AcceptsOnly /\ r = "accepted" =>
            ~Starts(p) /\ status'["awake"] # "running"
      BY <1>2, <1>3, <2>1 DEF Receipts, Starts, AcceptsOnly, QueuesIdle, WakesCold
    <3> QED
      BY <1>3, <1>10, <1>11, <2>1, <3>1, <3>2, <3>3, <3>4
         DEF Hearing, Early, Probing, Leaving
  <2>2. CASE p # "awake"
    BY <1>0, <1>2, <1>3, <1>10, <2>2, Names DEF Story, Hearing
  <2> QED
    BY <2>1, <2>2
<1>14. live'["awake"].answered = live["awake"].answered
  BY <1>2, <1>9, Names
<1>15. Story'
  BY <1>0, <1>2, <1>3, <1>12, <1>13, <1>14 DEF Story, RanIsTrue, WokeIsTrue, Starts
<1>16. Outcome'
  <2>1. Ending'
    BY <1>0, <1>2, <1>3, <1>6, Names DEF Outcome, Ending
  <2>2. Judgement'
    BY <1>0 DEF Outcome, Judgement, ClaimA, ClaimB, PassIf, ColdReceiptHeld, IdleReceiptHeld,
                DeletedReceiptHeld, RosterHeld
  <2> QED
    BY <2>1, <2>2 DEF Outcome
<1> QED
  BY <1>4, <1>5, <1>7, <1>15, <1>16 DEF IInv

LEMMA ListKeeps ==
  ASSUME IInv, SenderLists, DriverRests
  PROVE  IInv'
<1> USE DEF DriverRests, handleVars, evidenceVars, verdictVars
<1>0. TypeOK /\ ClientIsOn /\ InstructionsAreDriver /\ Scene /\ Story /\ Outcome
  BY DEF IInv
<1> DEFINE seen == (status["resting"] = "cold" /\ framework # DropsCold)
<1>1. /\ status["sender"] = "running"
      /\ live'["sender"] = [live["sender"] EXCEPT !.rosters = @ \cup {seen}]
      /\ \A s \in Session \ {"sender"} : live'[s] = live[s]
      /\ live' \in [Session -> Transcript]
      /\ UNCHANGED <<status, inbox, work, disk, unloading, current, woken>>
  BY <1>0, ListEffect
<1>2. live["sender"] \in Transcript
  BY <1>0, Names DEF TypeOK
<1>3. seen \in BOOLEAN /\ (framework = DropsCold => seen = FALSE)
  OBVIOUS
<1>4. framework = Shipped /\ pc \notin Closed => seen = TRUE
  BY <1>0, <1>1 DEF Scene, SenderFinds, Shipped, WakesCold, DropsCold
<1> HIDE DEF seen
<1>5. /\ live'["sender"].rosters = live["sender"].rosters \cup {seen}
      /\ live'["sender"].receipt = live["sender"].receipt
  BY <1>1, <1>2 DEF Transcript
<1>6. Records'
  <2>1. /\ pc \notin Closed => MayHold(live["sender"]) /\ MayHold(disk["sender"])
        /\ MayHold(evidence) /\ IsPast(disk["sender"]) /\ IsPast(evidence)
    BY <1>0 DEF Story, Records
  <2>2. pc \notin Closed => MayHold(live["sender"])'
    BY <1>3, <1>4, <1>5, <2>1 DEF MayHold
  <2>3. (pc \notin Closed => MayHold(disk["sender"])') /\ MayHold(evidence)'
    BY <1>1, <2>1 DEF MayHold
  <2>4. IsPast(disk["sender"])' /\ IsPast(evidence)'
    BY <1>1, <1>5, <2>1 DEF IsPast
  <2> QED
    BY <2>2, <2>3, <2>4 DEF Records
<1>7. Story'
  BY <1>0, <1>1, <1>5, <1>6, Names DEF Story, Hearing, RanIsTrue, WokeIsTrue
<1>8. TypeOK' /\ ClientIsOn' /\ InstructionsAreDriver'
  BY <1>0, <1>1 DEF TypeOK, ClientIsOn, InstructionsAreDriver
<1>9. Scene'
  BY <1>0, <1>1 DEF Scene, SenderIsSet, GoneIsSet, AwakeIsSet, RestingIsSet, SenderFinds
<1>10. Outcome'
  BY <1>0, <1>1 DEF Outcome, Ending, Judgement, ClaimA, ClaimB, PassIf, ColdReceiptHeld,
                    IdleReceiptHeld, DeletedReceiptHeld, RosterHeld
<1> QED
  BY <1>7, <1>8, <1>9, <1>10 DEF IInv

LEMMA EndTurnKeeps ==
  ASSUME IInv, NEW s \in Session, EndTurn(s), DriverRests
  PROVE  IInv'
<1> USE DEF DriverRests, handleVars, evidenceVars, verdictVars
<1>0. TypeOK /\ ClientIsOn /\ InstructionsAreDriver /\ Scene /\ Story /\ Outcome
  BY DEF IInv
<1>1. /\ status[s] = "running" /\ status'[s] \in {"idle", "running"}
      /\ live'[s].receipt = live[s].receipt /\ live'[s].rosters = live[s].rosters
      /\ live'[s].answered = live[s].heard
      /\ live'[s].heard = (live[s].heard \/ "hello" \in inbox[s])
      /\ \/ disk'[s] = disk[s]
         \/ /\ disk'[s].receipt = live[s].receipt /\ disk'[s].rosters = live[s].rosters
            /\ disk'[s].answered = live[s].heard
      /\ inbox'[s] = {}
      /\ \A t \in Session \ {s} : status'[t] = status[t] /\ disk'[t] = disk[t]
                                  /\ inbox'[t] = inbox[t] /\ live'[t] = live[t]
      /\ UNCHANGED <<unloading, current, woken>>
  BY <1>0, EndTurnEffect
<1>2. TypeOK'
  <2>1. /\ live' \in [Session -> Transcript] /\ disk' \in [Session -> Transcript]
        /\ status' \in [Session -> {"absent", "idle", "running", "cold", "deleted"}]
        /\ inbox' \in [Session -> SUBSET Message] /\ work' \in SUBSET Peer
    BY <1>0, EndTurnEffect
  <2> QED
    BY <1>0, <1>1, <2>1 DEF TypeOK
<1>3. ClientIsOn' /\ InstructionsAreDriver'
  BY <1>0, <1>1, Names DEF ClientIsOn, InstructionsAreDriver
<1>4. Scene'
  <2>1. SenderIsSet' /\ GoneIsSet' /\ AwakeIsSet' /\ RestingIsSet'
    BY <1>0, <1>1, Names DEF Scene, SenderIsSet, GoneIsSet, AwakeIsSet, RestingIsSet
  <2>2. SenderFinds'
    BY <1>0, <1>1, Names DEF Scene, SenderFinds
  <2> QED
    BY <2>1, <2>2 DEF Scene
<1>5. /\ live'["sender"].receipt = live["sender"].receipt
      /\ live'["sender"].rosters = live["sender"].rosters
      /\ \/ disk'["sender"] = disk["sender"]
         \/ /\ disk'["sender"].receipt = live["sender"].receipt
            /\ disk'["sender"].rosters = live["sender"].rosters
  BY <1>1, Names
<1>6. Records'
  <2>1. /\ pc \notin Closed => MayHold(live["sender"]) /\ MayHold(disk["sender"])
        /\ MayHold(evidence) /\ IsPast(disk["sender"]) /\ IsPast(evidence)
    BY <1>0 DEF Story, Records
  <2>2. /\ pc \notin Closed => MayHold(live["sender"])' /\ MayHold(disk["sender"])'
        /\ MayHold(evidence)'
    BY <1>5, <2>1 DEF MayHold
  <2>3. IsPast(disk["sender"])' /\ IsPast(evidence)'
    BY <1>5, <2>1 DEF IsPast
  <2> QED
    BY <2>2, <2>3 DEF Records
<1>7. Hearing'
  <2>1. CASE s = "awake"
    BY <1>0, <1>1, <1>5, <2>1 DEF Story, Hearing
  <2>2. CASE s # "awake"
    BY <1>0, <1>1, <1>5, <2>2, Names DEF Story, Hearing
  <2> QED
    BY <2>1, <2>2
<1>8. live["awake"].answered => live'["awake"].answered
  BY <1>0, <1>1, Names DEF Story, Hearing
<1>9. Story'
  BY <1>0, <1>1, <1>6, <1>7, <1>8 DEF Story, RanIsTrue, WokeIsTrue
<1>10. Outcome'
  <2>1. Ending'
    BY <1>0, <1>1, Names DEF Outcome, Ending
  <2>2. Judgement'
    BY <1>0 DEF Outcome, Judgement, ClaimA, ClaimB, PassIf, ColdReceiptHeld, IdleReceiptHeld,
                DeletedReceiptHeld, RosterHeld
  <2> QED
    BY <2>1, <2>2 DEF Outcome
<1> QED
  BY <1>2, <1>3, <1>4, <1>9, <1>10 DEF IInv

\* A save of the sender, or none, adds nothing to the record.
LEMMA RecordsStay ==
  ASSUME Records, UNCHANGED <<framework, live>>, pc \in Closed => pc' \in Closed,
         disk'["sender"] \in {disk["sender"], live["sender"]},
         evidence' = evidence \/ (pc \notin Closed /\ evidence' = disk["sender"])
  PROVE  Records'
<1>1. /\ pc \notin Closed => MayHold(live["sender"]) /\ MayHold(disk["sender"])
      /\ MayHold(evidence) /\ IsPast(disk["sender"]) /\ IsPast(evidence)
  BY DEF Records
<1>2. /\ pc \notin Closed => MayHold(live["sender"])' /\ MayHold(disk["sender"])'
      /\ MayHold(evidence)'
  <2>1. MayHold(live["sender"]) => MayHold(live["sender"])'
    BY DEF MayHold
  <2>2. MayHold(live["sender"]) /\ MayHold(disk["sender"]) => MayHold(disk["sender"])'
    <3>1. CASE disk'["sender"] = disk["sender"]
      BY <3>1 DEF MayHold
    <3>2. CASE disk'["sender"] = live["sender"]
      BY <3>2 DEF MayHold
    <3> QED
      BY <3>1, <3>2
  <2>3. MayHold(evidence)'
    <3>1. CASE evidence' = evidence
      BY <1>1, <3>1 DEF MayHold
    <3>2. CASE pc \notin Closed /\ evidence' = disk["sender"]
      BY <1>1, <3>2 DEF MayHold
    <3> QED
      BY <3>1, <3>2
  <2> QED
    BY <1>1, <2>1, <2>2, <2>3
<1>3. IsPast(disk["sender"])' /\ IsPast(evidence)'
  <2>1. IsPast(live["sender"])
    BY DEF IsPast
  <2> QED
    BY <1>1, <2>1 DEF IsPast
<1> QED
  BY <1>2, <1>3 DEF Records

LEMMA UnloadKeeps ==
  ASSUME IInv, NEW s \in Session, Unload(s), DriverRests
  PROVE  IInv'
<1> USE DEF DriverRests, handleVars, evidenceVars, verdictVars
<1>0. TypeOK /\ ClientIsOn /\ InstructionsAreDriver /\ Scene /\ Story /\ Outcome
  BY DEF IInv
<1>1. /\ s \in unloading /\ unloading' = unloading \ {s}
      /\ \/ status[s] = "idle" /\ status'[s] = "cold" /\ disk'[s] = live[s]
         \/ status[s] # "idle" /\ status'[s] = status[s] /\ disk'[s] = disk[s]
      /\ \A t \in Session \ {s} : status'[t] = status[t] /\ disk'[t] = disk[t]
      /\ disk' \in [Session -> Transcript]
      /\ status' \in [Session -> {"absent", "idle", "running", "cold", "deleted"}]
      /\ UNCHANGED <<inbox, work, live, current, woken>>
  BY <1>0, UnloadEffect
<1>2. s \in {"resting", "sender"}
  BY <1>0, <1>1 DEF ClientIsOn
<1>3. TypeOK' /\ ClientIsOn' /\ InstructionsAreDriver'
  BY <1>0, <1>1 DEF TypeOK, ClientIsOn, InstructionsAreDriver
<1>4. Scene'
  <2>1. SenderIsSet' /\ GoneIsSet' /\ AwakeIsSet'
    BY <1>0, <1>1, <1>2, Names DEF Scene, SenderIsSet, GoneIsSet, AwakeIsSet
  <2>2. RestingIsSet'
    BY <1>0, <1>1, <1>2, Names DEF Scene, RestingIsSet
  <2>3. SenderFinds'
    BY <1>0, <1>1, <1>2, Names DEF Scene, SenderFinds
  <2> QED
    BY <2>1, <2>2, <2>3 DEF Scene
<1>5. Records'
  <2>1. disk'["sender"] \in {disk["sender"], live["sender"]}
    BY <1>1, Names
  <2> QED
    BY <1>0, <1>1, <2>1, RecordsStay DEF Story
<1>6. Story'
  BY <1>0, <1>1, <1>2, <1>5, Names DEF Story, Hearing, RanIsTrue, WokeIsTrue
<1>7. Outcome'
  <2>1. Ending'
    BY <1>0, <1>1, <1>2, Names DEF Outcome, Ending
  <2>2. Judgement'
    BY <1>0 DEF Outcome, Judgement, ClaimA, ClaimB, PassIf, ColdReceiptHeld, IdleReceiptHeld,
                DeletedReceiptHeld, RosterHeld
  <2> QED
    BY <2>1, <2>2 DEF Outcome
<1> QED
  BY <1>3, <1>4, <1>6, <1>7 DEF IInv

LEMMA WorldKeeps ==
  ASSUME IInv, WorldStep, DriverRests
  PROVE  IInv'
BY SendKeeps, ListKeeps, EndTurnKeeps, UnloadKeeps DEF WorldStep

-----------------------------------------------------------------------------
(***************************************************************************)
(* What the driver's steps leave alone.                                    *)
(***************************************************************************)

\* No verdict is made before the last step.
LEMMA JudgementWaits ==
  ASSUME Judgement, pc # "done", UNCHANGED <<a, b>>
  PROVE  Judgement'
BY DEF Judgement

\* The instructions, the turns and the saves that a setup step leaves alone.
LEMMA SetupStory ==
  ASSUME Story, pc \in Early \cup Attaching \cup {"settle"}, 
         pc' \in Early \cup Attaching \cup {"settle", "sendCold"},
         pc' \in Early => pc \in Early,
         UNCHANGED <<framework, live, inbox, disk, woken, evidenceVars>>,
         status'["awake"] = "running" => status["awake"] = "running"
  PROVE  Story'
<1> USE DEF evidenceVars
<1>1. Records'
  BY RecordsStay DEF Story, Early, Attaching
<1>2. Hearing'
  BY DEF Story, Hearing
<1> QED
  BY <1>1, <1>2 DEF Story, RanIsTrue, WokeIsTrue, Early, Attaching, Leaving

-----------------------------------------------------------------------------
(***************************************************************************)
(* The invariant is kept by the setup.                                     *)
(***************************************************************************)
\* A creation, at its four places in _run.
LEMMA CreateKeeps ==
  ASSUME IInv, NEW s \in Session, NEW from, NEW to, Create(from, s, to),
         UNCHANGED framework,
         \/ from = "makeResting" /\ s = "resting" /\ to = "makeGone"
         \/ from = "makeGone" /\ s = "gone" /\ to = "deleteGone"
         \/ from = "makeAwake" /\ s = "awake" /\ to = "promptAwake"
         \/ from = "makeSender" /\ s = "sender" /\ to = "attachResting"
  PROVE  IInv'
<1> USE DEF evidenceVars, verdictVars
<1>0. TypeOK /\ ClientIsOn /\ InstructionsAreDriver /\ Scene /\ Story /\ Outcome
  BY DEF IInv
<1>1. /\ pc = from /\ pc' = to
      /\ status'[s] = "idle" /\ \A t \in Session \ {s} : status'[t] = status[t]
      /\ status' \in [Session -> {"absent", "idle", "running", "cold", "deleted"}]
      /\ current' = s /\ bound' \in SUBSET Session
      /\ UNCHANGED <<inbox, work, live, disk, unloading, woken>>
      /\ UNCHANGED <<raised, open, evidenceVars, verdictVars>>
  BY <1>0 DEF Create, Goto, TypeOK
<1>2. from \in Early /\ to \in Early \cup Attaching /\ to \in Pc
  BY DEF Early, Attaching, Pc
<1>3. TypeOK'
  BY <1>0, <1>1, <1>2 DEF TypeOK
<1>4. ClientIsOn' /\ InstructionsAreDriver'
  BY <1>0, <1>1, <1>2 DEF ClientIsOn, InstructionsAreDriver, Early, Attaching, Probing
<1>5. Scene'
  <2>1. status["sender"] = "absent" /\ unloading = {}
    BY <1>0, <1>1, <1>2 DEF Scene, SenderIsSet, ClientIsOn
  <2>2. SenderIsSet' /\ SenderFinds'
    BY <1>0, <1>1, <2>1, Names DEF SenderIsSet, SenderFinds, Early, Attaching
  <2>3. GoneIsSet' /\ AwakeIsSet'
    BY <1>0, <1>1, Names DEF Scene, GoneIsSet, AwakeIsSet, Attaching, Probing
  <2>4. RestingIsSet'
    BY <1>0, <1>1, <2>1, Names DEF Scene, RestingIsSet, Early, Attaching, Probing
  <2> QED
    BY <2>2, <2>3, <2>4 DEF Scene
<1>6. Story'
  BY <1>0, <1>1, <1>2, SetupStory, Names DEF Early, Attaching
<1>7. Outcome'
  <2>1. Ending'
    BY <1>0, <1>1, <1>2 DEF Outcome, Ending, Early, Attaching, Leaving
  <2>2. Judgement'
    BY <1>0, <1>1, <1>2, JudgementWaits DEF Outcome, Early
  <2> QED
    BY <2>1, <2>2 DEF Outcome
<1> QED
  BY <1>3, <1>4, <1>5, <1>6, <1>7 DEF IInv

\* An attachment, at its two places in _run.
LEMMA AttachKeeps ==
  ASSUME IInv, NEW s \in Session, NEW from, NEW to, Attach(from, s, to),
         UNCHANGED framework,
         \/ from = "attachResting" /\ s = "resting" /\ to = "attachSender"
         \/ from = "attachSender" /\ s = "sender" /\ to = "settle"
  PROVE  IInv'
<1> USE DEF evidenceVars, verdictVars, handleVars
<1>0. TypeOK /\ ClientIsOn /\ InstructionsAreDriver /\ Scene /\ Story /\ Outcome
  BY DEF IInv
<1>1. /\ pc = from /\ pc' = to /\ current' = s
      /\ unloading' = (IF current # s /\ status[current] = "idle"
                         THEN unloading \cup {current} ELSE unloading) \ {s}
      /\ status'[s] = (IF status[s] = "cold" THEN "idle" ELSE status[s])
      /\ \A t \in Session \ {s} : status'[t] = status[t]
      /\ status' \in [Session -> {"absent", "idle", "running", "cold", "deleted"}]
      /\ UNCHANGED <<inbox, work, live, disk, woken>>
      /\ UNCHANGED <<raised, handleVars, evidenceVars, verdictVars>>
  BY <1>0 DEF Attach, Goto, TypeOK
<1>2. /\ from = "attachResting" => current = "sender"
      /\ from = "attachSender" => current = "resting"
      /\ unloading \subseteq {"resting", "sender"}
  BY <1>0, <1>1 DEF ClientIsOn
<1>3. /\ status["sender"] \in {"idle", "cold"} /\ status["gone"] = "deleted"
      /\ status["awake"] \in {"idle", "running"}
      /\ status["resting"] = "idle" /\ "resting" \notin unloading
  BY <1>0, <1>1 DEF Scene, SenderIsSet, GoneIsSet, AwakeIsSet, RestingIsSet, Attaching
<1>4. unloading' \subseteq {"resting", "sender"}
  BY <1>1, <1>2
<1>5. TypeOK'
  BY <1>0, <1>1, <1>4, Names DEF TypeOK, Pc
<1>6. ClientIsOn' /\ InstructionsAreDriver'
  BY <1>0, <1>1, <1>4 DEF ClientIsOn, InstructionsAreDriver, Early, Probing
<1>7. Scene'
  <2>1. SenderIsSet' /\ SenderFinds'
    BY <1>1, <1>3, Names DEF SenderIsSet, SenderFinds, Early, Attaching
  <2>2. GoneIsSet' /\ AwakeIsSet'
    BY <1>1, <1>3, Names DEF GoneIsSet, AwakeIsSet
  <2>3. RestingIsSet'
    BY <1>1, <1>2, <1>3, Names DEF RestingIsSet, Early, Attaching, Probing
  <2> QED
    BY <2>1, <2>2, <2>3 DEF Scene
<1>8. Story'
  BY <1>0, <1>1, <1>3, SetupStory, Names DEF Early, Attaching
<1>9. Outcome'
  <2>1. Ending'
    BY <1>0, <1>1 DEF Outcome, Ending, Leaving
  <2>2. Judgement'
    BY <1>0, <1>1, JudgementWaits DEF Outcome
  <2> QED
    BY <2>1, <2>2 DEF Outcome
<1> QED
  BY <1>5, <1>6, <1>7, <1>8, <1>9 DEF IInv

LEMMA ConnectKeeps ==
  ASSUME IInv, Connect, UNCHANGED framework
  PROVE  IInv'
<1> USE DEF evidenceVars, verdictVars, worldVars
<1>0. TypeOK /\ ClientIsOn /\ InstructionsAreDriver /\ Scene /\ Story /\ Outcome
  BY DEF IInv
<1>1. /\ pc = "connect"
      /\ \/ pc' = "makeResting" /\ open' = {"client", "watcher"} /\ raised' = raised
         \/ pc' = "certify" /\ open' \in {{}, {"client"}} /\ raised' = "unmet"
      /\ UNCHANGED <<worldVars, bound, evidenceVars, verdictVars>>
  BY DEF Connect, Goto
<1>2. TypeOK'
  BY <1>0, <1>1 DEF TypeOK, Pc
<1>3. ClientIsOn' /\ InstructionsAreDriver'
  BY <1>0, <1>1 DEF ClientIsOn, InstructionsAreDriver, Early, Probing
<1>4. Scene'
  BY <1>0, <1>1 DEF Scene, SenderIsSet, GoneIsSet, AwakeIsSet, RestingIsSet, SenderFinds,
                    Early, Attaching, Probing, Leaving
<1>5. Story'
  <2>1. Records'
    BY <1>0, <1>1, RecordsStay DEF Story
  <2> QED
    BY <1>0, <1>1, <2>1 DEF Story, Hearing, RanIsTrue, WokeIsTrue, Early, Leaving
<1>6. Outcome'
  <2>1. Ending'
    BY <1>0, <1>1 DEF Outcome, Ending, Leaving
  <2>2. Judgement'
    BY <1>0, <1>1, JudgementWaits DEF Outcome
  <2> QED
    BY <2>1, <2>2 DEF Outcome
<1> QED
  BY <1>2, <1>3, <1>4, <1>5, <1>6 DEF IInv

LEMMA DeleteKeeps ==
  ASSUME IInv, DeleteGone, UNCHANGED framework
  PROVE  IInv'
<1> USE DEF evidenceVars, verdictVars, handleVars
<1>0. TypeOK /\ ClientIsOn /\ InstructionsAreDriver /\ Scene /\ Story /\ Outcome
  BY DEF IInv
<1>1. /\ pc = "deleteGone" /\ pc' = "makeAwake"
      /\ status'["gone"] = "deleted" /\ \A t \in Session \ {"gone"} : status'[t] = status[t]
      /\ status' \in [Session -> {"absent", "idle", "running", "cold", "deleted"}]
      /\ UNCHANGED <<inbox, work, live, disk, unloading, current, woken>>
      /\ UNCHANGED <<raised, handleVars, evidenceVars, verdictVars>>
  BY <1>0, Names DEF DeleteGone, Goto, TypeOK
<1>2. TypeOK'
  BY <1>0, <1>1 DEF TypeOK, Pc
<1>3. ClientIsOn' /\ InstructionsAreDriver'
  BY <1>0, <1>1 DEF ClientIsOn, InstructionsAreDriver, Early, Probing
<1>4. Scene'
  BY <1>0, <1>1, Names
     DEF Scene, SenderIsSet, GoneIsSet, AwakeIsSet, RestingIsSet, SenderFinds,
         Early, Attaching, Probing
<1>5. Story'
  BY <1>0, <1>1, SetupStory, Names DEF Early
<1>6. Outcome'
  <2>1. Ending'
    BY <1>0, <1>1 DEF Outcome, Ending, Leaving
  <2>2. Judgement'
    BY <1>0, <1>1, JudgementWaits DEF Outcome
  <2> QED
    BY <2>1, <2>2 DEF Outcome
<1> QED
  BY <1>2, <1>3, <1>4, <1>5, <1>6 DEF IInv

LEMMA SettleKeeps ==
  ASSUME IInv, Settle, UNCHANGED framework
  PROVE  IInv'
<1> USE DEF evidenceVars, verdictVars, handleVars, worldVars
<1>0. TypeOK /\ ClientIsOn /\ InstructionsAreDriver /\ Scene /\ Story /\ Outcome
  BY DEF IInv
<1>1. /\ pc = "settle" /\ pc' = "sendCold" /\ unloading = {}
      /\ UNCHANGED <<worldVars, raised, handleVars, evidenceVars, verdictVars>>
  BY DEF Settle, Goto
<1>2. TypeOK'
  BY <1>0, <1>1 DEF TypeOK, Pc
<1>3. ClientIsOn' /\ InstructionsAreDriver'
  BY <1>0, <1>1 DEF ClientIsOn, InstructionsAreDriver, Early, Probing
<1>4. Scene'
  BY <1>0, <1>1
     DEF Scene, SenderIsSet, GoneIsSet, AwakeIsSet, RestingIsSet, SenderFinds,
         Early, Attaching, Probing
<1>5. Story'
  BY <1>0, <1>1, SetupStory DEF Early, Attaching
<1>6. Outcome'
  <2>1. Ending'
    BY <1>0, <1>1 DEF Outcome, Ending, Leaving
  <2>2. Judgement'
    BY <1>0, <1>1, JudgementWaits DEF Outcome
  <2> QED
    BY <2>1, <2>2 DEF Outcome
<1> QED
  BY <1>2, <1>3, <1>4, <1>5, <1>6 DEF IInv

\* What a prompt does to the session the client is on.
LEMMA SendMessageEffect ==
  ASSUME TypeOK, NEW s \in Session, current = s, NEW from, NEW m \in Message, NEW to,
         SendMessage(from, m, to), s = "sender" => m \in Peer
  PROVE  /\ pc = from /\ pc' = to
         /\ \/ /\ status[s] = "running" /\ UNCHANGED <<status, disk>>
               /\ inbox'[s] = inbox[s] \cup {m}
            \/ /\ status[s] # "running" /\ inbox'[s] = inbox[s]
               /\ status'[s] = "running" /\ disk'[s] = live[s]
         /\ \A t \in Session \ {s} : status'[t] = status[t] /\ disk'[t] = disk[t]
                                     /\ inbox'[t] = inbox[t]
         /\ disk' \in [Session -> Transcript] /\ inbox' \in [Session -> SUBSET Message]
         /\ status' \in [Session -> {"absent", "idle", "running", "cold", "deleted"}]
         /\ work' \in SUBSET Peer
         /\ UNCHANGED <<live, unloading, current, woken>>
         /\ UNCHANGED <<raised, handleVars, evidenceVars, verdictVars>>
<1>1. CASE status[s] = "running"
  BY <1>1 DEF SendMessage, Goto, TypeOK
<1>2. CASE status[s] # "running"
  BY <1>2 DEF SendMessage, Goto, StartTurn, TypeOK
<1> QED
  BY <1>1, <1>2

LEMMA PromptKeeps ==
  ASSUME IInv, PromptAwake, UNCHANGED framework
  PROVE  IInv'
<1> USE DEF evidenceVars, verdictVars, handleVars
<1>0. TypeOK /\ ClientIsOn /\ InstructionsAreDriver /\ Scene /\ Story /\ Outcome
  BY DEF IInv
<1>1. current = "awake" /\ unloading = {}
  BY <1>0 DEF PromptAwake, SendMessage, Goto, ClientIsOn, Early
<1>2. /\ pc = "promptAwake" /\ pc' = "makeSender"
      /\ \/ /\ status["awake"] = "running" /\ UNCHANGED <<status, disk>>
            /\ inbox'["awake"] = inbox["awake"] \cup {"ready"}
         \/ /\ status["awake"] # "running" /\ inbox'["awake"] = inbox["awake"]
            /\ status'["awake"] = "running" /\ disk'["awake"] = live["awake"]
      /\ \A t \in Session \ {"awake"} : status'[t] = status[t] /\ disk'[t] = disk[t]
                                        /\ inbox'[t] = inbox[t]
      /\ disk' \in [Session -> Transcript] /\ inbox' \in [Session -> SUBSET Message]
      /\ status' \in [Session -> {"absent", "idle", "running", "cold", "deleted"}]
      /\ work' \in SUBSET Peer
      /\ UNCHANGED <<live, unloading, current, woken>>
      /\ UNCHANGED <<raised, handleVars, evidenceVars, verdictVars>>
  BY <1>0, <1>1, SendMessageEffect, Names DEF PromptAwake, Message
<1>3. TypeOK'
  BY <1>0, <1>2 DEF TypeOK, Pc
<1>4. ClientIsOn' /\ InstructionsAreDriver'
  BY <1>0, <1>1, <1>2, Names DEF ClientIsOn, InstructionsAreDriver, Early, Probing
<1>5. Scene'
  BY <1>0, <1>2, Names
     DEF Scene, SenderIsSet, GoneIsSet, AwakeIsSet, RestingIsSet, SenderFinds,
         Early, Attaching, Probing
<1>6. Story'
  <2>1. Records'
    BY <1>0, <1>2, RecordsStay, Names DEF Story
  <2>2. "hello" \in inbox'["awake"] => "hello" \in inbox["awake"]
    BY <1>2
  <2>3. live["sender"].receipt["awake"] = "none"
    BY <1>0, <1>2 DEF Story, Hearing, Early
  <2>4. Hearing'
    BY <1>0, <1>2, <2>2, <2>3 DEF Story, Hearing
  <2> QED
    BY <1>0, <1>2, <2>1, <2>4 DEF Story, RanIsTrue, WokeIsTrue, Leaving
<1>7. Outcome'
  <2>1. Ending'
    BY <1>0, <1>2 DEF Outcome, Ending, Leaving
  <2>2. Judgement'
    BY <1>0, <1>2, JudgementWaits DEF Outcome
  <2> QED
    BY <2>1, <2>2 DEF Outcome
<1> QED
  BY <1>3, <1>4, <1>5, <1>6, <1>7 DEF IInv

\* An instruction to the sender, at its three places in _run.
LEMMA InstructKeeps ==
  ASSUME IInv, NEW from, NEW m \in Peer, NEW to, SendMessage(from, m, to),
         UNCHANGED framework,
         \/ from = "sendCold" /\ to = "quiet"
         \/ from = "sendIdle" /\ to = "pollSent"
         \/ from = "sendDead" /\ to = "pollAll"
  PROVE  IInv'
<1> USE DEF evidenceVars, verdictVars, handleVars
<1>0. TypeOK /\ ClientIsOn /\ InstructionsAreDriver /\ Scene /\ Story /\ Outcome
  BY DEF IInv
<1>1. pc = from /\ pc \in Probing /\ current = "sender"
  BY <1>0 DEF SendMessage, Goto, ClientIsOn, Probing
<1>2. /\ pc' = to
      /\ \/ /\ status["sender"] = "running" /\ UNCHANGED <<status, disk>>
            /\ inbox'["sender"] = inbox["sender"] \cup {m}
         \/ /\ status["sender"] # "running" /\ inbox'["sender"] = inbox["sender"]
            /\ status'["sender"] = "running" /\ disk'["sender"] = live["sender"]
      /\ \A t \in Session \ {"sender"} : status'[t] = status[t] /\ disk'[t] = disk[t]
                                         /\ inbox'[t] = inbox[t]
      /\ disk' \in [Session -> Transcript] /\ inbox' \in [Session -> SUBSET Message]
      /\ status' \in [Session -> {"absent", "idle", "running", "cold", "deleted"}]
      /\ work' \in SUBSET Peer
      /\ UNCHANGED <<live, unloading, current, woken>>
      /\ UNCHANGED <<raised, handleVars, evidenceVars, verdictVars>>
  <2>1. m \in Message /\ "sender" \in Session
    BY Names DEF Message
  <2> QED
    BY <1>0, <1>1, <2>1, SendMessageEffect
<1>3. to \in Probing \ {"sendCold"} /\ to \in Pc
  BY DEF Probing, Pc
<1>4. /\ status["gone"] = "deleted" /\ status["awake"] \in {"idle", "running"}
      /\ framework # WakesCold => status["resting"] = "cold"
  BY <1>0, <1>1 DEF Scene, GoneIsSet, AwakeIsSet, RestingIsSet
<1>5. TypeOK'
  BY <1>0, <1>2, <1>3 DEF TypeOK
<1>6. ClientIsOn' /\ InstructionsAreDriver'
  BY <1>0, <1>1, <1>2 DEF ClientIsOn, InstructionsAreDriver, Early, Probing
<1>7. Scene'
  BY <1>2, <1>3, <1>4, Names
     DEF Scene, SenderIsSet, GoneIsSet, AwakeIsSet, RestingIsSet, SenderFinds,
         Early, Attaching, Probing
<1>8. Story'
  <2>1. Records'
    BY <1>0, <1>1, <1>2, RecordsStay DEF Story, Probing
  <2>2. Hearing'
    BY <1>0, <1>1, <1>2, <1>3, Names DEF Story, Hearing, Early, Probing
  <2>3. RanIsTrue' /\ WokeIsTrue'
    BY <1>0, <1>1, <1>2 DEF Story, RanIsTrue, WokeIsTrue, Leaving
  <2> QED
    BY <2>1, <2>2, <2>3 DEF Story
<1>9. Outcome'
  <2>1. Ending'
    BY <1>0, <1>1, <1>2, <1>3 DEF Outcome, Ending, Leaving, Probing
  <2>2. Judgement'
    BY <1>0, <1>1, <1>2, JudgementWaits DEF Outcome, Probing
  <2> QED
    BY <2>1, <2>2 DEF Outcome
<1> QED
  BY <1>5, <1>6, <1>7, <1>8, <1>9 DEF IInv

-----------------------------------------------------------------------------
(***************************************************************************)
(* The invariant is kept by the probes.                                    *)
(***************************************************************************)
\* Between the first instruction and the reading, with the sessions at rest.
LEMMA WatchKeeps ==
  ASSUME IInv, UNCHANGED framework, pc \in Probing \ {"sendCold", "read"},
         pc' \in Probing \ {"sendCold"},
         UNCHANGED <<status, inbox, work, live, unloading, current, woken>>,
         UNCHANGED <<raised, handleVars, verdictVars, evidence>>,
         disk' \in {disk, Saved("sender"), Saved("awake")},
         turnsBefore' \in Nat, idleRan' \in BOOLEAN, coldWoke' \in {coldWoke, woken},
         \/ pc' \notin {"sendDead", "pollAll", "read"}
         \/ pc \in {"sendDead", "pollAll"} /\ idleRan' = idleRan
         \/ idleRan' => disk["awake"].answered
  PROVE  IInv'
<1> USE DEF verdictVars, handleVars
<1>0. TypeOK /\ ClientIsOn /\ InstructionsAreDriver /\ Scene /\ Story /\ Outcome
  BY DEF IInv
<1>1. /\ disk' \in [Session -> Transcript]
      /\ \A s \in Session : disk'[s] = disk[s] \/ disk'[s] = live[s]
  BY <1>0, Names DEF Saved, TypeOK
<1>2. TypeOK'
  BY <1>0, <1>1 DEF TypeOK, Pc, Probing
<1>3. ClientIsOn' /\ InstructionsAreDriver'
  BY <1>0 DEF ClientIsOn, InstructionsAreDriver, Early, Probing
<1>4. Scene'
  BY <1>0 DEF Scene, SenderIsSet, GoneIsSet, AwakeIsSet, RestingIsSet, SenderFinds,
              Early, Attaching, Probing, Leaving
<1>5. Story'
  <2>1. Records'
    BY <1>0, <1>1, RecordsStay, Names DEF Story, Probing
  <2>2. Hearing'
    BY <1>0, <1>1, Names DEF Story, Hearing, Early, Probing
  <2>3. disk["awake"].answered => live["awake"].answered
    BY <1>0 DEF Story, Hearing
  <2>4. RanIsTrue'
    BY <1>0, <2>3 DEF Story, RanIsTrue, Probing, Leaving
  <2>5. WokeIsTrue'
    BY <1>0 DEF Story, WokeIsTrue
  <2> QED
    BY <2>1, <2>2, <2>4, <2>5 DEF Story
<1>6. Outcome'
  <2>1. Ending'
    BY <1>0 DEF Outcome, Ending, Leaving, Probing
  <2>2. Judgement'
    BY <1>0, JudgementWaits DEF Outcome, Probing
  <2> QED
    BY <2>1, <2>2 DEF Outcome
<1> QED
  BY <1>2, <1>3, <1>4, <1>5, <1>6 DEF IInv

LEMMA SavedType ==
  ASSUME TypeOK
  PROVE  /\ Saved("awake") \in [Session -> Transcript]
         /\ Saved("awake")["awake"].turns \in Nat
<1>1. Saved("awake") \in [Session -> Transcript]
  BY Names DEF Saved, TypeOK
<1>2. Saved("awake")["awake"] \in Transcript
  BY <1>1, Names
<1> QED
  BY <1>1, <1>2 DEF Transcript

LEMMA ReadKeeps ==
  ASSUME IInv, ReadEvidence, UNCHANGED framework
  PROVE  IInv'
<1> USE DEF verdictVars, handleVars, worldVars
<1>0. TypeOK /\ ClientIsOn /\ InstructionsAreDriver /\ Scene /\ Story /\ Outcome
  BY DEF IInv
<1>1. /\ pc = "read" /\ pc' = "finally" /\ evidence' = disk["sender"]
      /\ UNCHANGED <<worldVars, raised, handleVars, coldWoke, turnsBefore, idleRan,
                     verdictVars>>
  BY DEF ReadEvidence, Goto
<1>2. TypeOK'
  BY <1>0, <1>1, Names DEF TypeOK, Pc
<1>3. ClientIsOn' /\ InstructionsAreDriver'
  BY <1>0, <1>1 DEF ClientIsOn, InstructionsAreDriver, Early, Probing
<1>4. Scene'
  BY <1>0, <1>1
     DEF Scene, SenderIsSet, GoneIsSet, AwakeIsSet, RestingIsSet, SenderFinds,
         Early, Attaching, Probing, Leaving
<1>5. Story'
  <2>1. Records'
    BY <1>0, <1>1, RecordsStay DEF Story
  <2> QED
    BY <1>0, <1>1, <2>1 DEF Story, Hearing, RanIsTrue, WokeIsTrue, Early, Leaving
<1>6. Outcome'
  <2>1. status["gone"] = "deleted"
    BY <1>0, <1>1 DEF Scene, GoneIsSet, Probing
  <2>2. Ending'
    BY <1>0, <1>1, <2>1 DEF Outcome, Ending, Leaving
  <2>3. Judgement'
    BY <1>0, <1>1, JudgementWaits DEF Outcome
  <2> QED
    BY <2>2, <2>3 DEF Outcome
<1> QED
  BY <1>2, <1>3, <1>4, <1>5, <1>6 DEF IInv

LEMMA ProbesKeep ==
  ASSUME IInv, ProbeStep, UNCHANGED framework
  PROVE  IInv'
<1> USE DEF evidenceVars, verdictVars, handleVars
<1>0. TypeOK
  BY DEF IInv
<1>1. CASE SendCold \/ SendIdle \/ SendDead
  BY <1>1, InstructKeeps, Names DEF SendCold, SendIdle, SendDead
<1>2. CASE Quiet
  BY <1>0, <1>2, WatchKeeps DEF Quiet, Goto, Probing, worldVars, TypeOK
<1>3. CASE CountTurns
  BY <1>0, <1>3, SavedType, WatchKeeps DEF CountTurns, Goto, Saving, Probing, TypeOK
<1>4. CASE PollSent
  BY <1>0, <1>4, WatchKeeps DEF PollSent, Poll, Saving, Probing, TypeOK
<1>5. CASE PollRan
  BY <1>0, <1>5, WatchKeeps DEF PollRan, Poll, Saving, Moved, Probing, TypeOK
<1>6. CASE JudgeRan
  <2>1. (idleRan /\ disk["awake"].answered) \in BOOLEAN
    OBVIOUS
  <2> QED
    BY <1>0, <1>6, <2>1, WatchKeeps DEF JudgeRan, Goto, Probing, worldVars, TypeOK
<1>7. CASE PollAll
  BY <1>0, <1>7, WatchKeeps DEF PollAll, Poll, Saving, Probing, TypeOK
<1>8. CASE ReadEvidence
  BY <1>8, ReadKeeps
<1> QED
  BY <1>1, <1>2, <1>3, <1>4, <1>5, <1>6, <1>7, <1>8 DEF ProbeStep

-----------------------------------------------------------------------------
(***************************************************************************)
(* The invariant is kept by the way out.                                   *)
(***************************************************************************)
\* An exception, from the try block: a spawn may leave a session behind it.
LEMMA RaiseKeeps ==
  ASSUME IInv, UNCHANGED framework, SpawnFails \/ CallRaises
  PROVE  IInv'
<1> USE DEF evidenceVars, verdictVars, handleVars
<1>0. TypeOK /\ ClientIsOn /\ InstructionsAreDriver /\ Scene /\ Story /\ Outcome
  BY DEF IInv
<1>1. /\ pc \in Early \cup Attaching \cup Probing /\ pc' = "finally"
      /\ raised' \in {"unmet", "lost"}
      /\ UNCHANGED <<inbox, work, live, disk, unloading, current, woken>>
      /\ UNCHANGED <<handleVars, evidenceVars, verdictVars>>
  BY MakerIs DEF SpawnFails, CallRaises, RpcPoints, Early, Attaching, Probing, worldVars
<1>2. \/ UNCHANGED status
      \/ /\ pc \in Early
         /\ \E s \in Session : status' = [status EXCEPT ![s] = "idle"]
  BY MakerIs DEF SpawnFails, CallRaises, Early, worldVars
<1>3. /\ status' \in [Session -> {"absent", "idle", "running", "cold", "deleted"}]
      /\ \A s \in Session : status'[s] = status[s] \/ (pc \in Early /\ status'[s] = "idle")
      /\ "sender" \in Session /\ "awake" \in Session
  BY <1>0, <1>2, Names DEF TypeOK
<1>4. TypeOK'
  BY <1>0, <1>1, <1>3 DEF TypeOK, Pc
<1>5. ClientIsOn' /\ InstructionsAreDriver'
  BY <1>0, <1>1 DEF ClientIsOn, InstructionsAreDriver, Early, Probing
<1>6. Scene'
  <2>1. SenderIsSet' /\ GoneIsSet' /\ AwakeIsSet' /\ RestingIsSet'
    BY <1>1 DEF SenderIsSet, GoneIsSet, AwakeIsSet, RestingIsSet, Early, Attaching, Probing
  <2>2. CASE UNCHANGED status
    BY <1>0, <1>1, <2>1, <2>2
       DEF Scene, SenderFinds, Early, Attaching, Probing, Leaving
  <2>3. CASE pc \in Early
    <3>1. status["sender"] = "absent"
      BY <1>0, <2>3 DEF Scene, SenderIsSet
    <3> QED
      BY <1>3, <2>1, <3>1 DEF Scene, SenderFinds
  <2> QED
    BY <1>2, <2>1, <2>2, <2>3 DEF Scene
<1>7. Story'
  <2>1. Records'
    BY <1>0, <1>1, RecordsStay DEF Story, Early, Attaching, Probing
  <2>2. Hearing'
    BY <1>0, <1>1, <1>3 DEF Story, Hearing, Early
  <2> QED
    BY <1>0, <1>1, <2>1, <2>2 DEF Story, RanIsTrue, WokeIsTrue
<1>8. Outcome'
  <2>1. Ending'
    BY <1>0, <1>1 DEF Outcome, Ending, Leaving
  <2>2. Judgement'
    BY <1>0, <1>1, JudgementWaits DEF Outcome, Early, Attaching, Probing
  <2> QED
    BY <2>1, <2>2 DEF Outcome
<1> QED
  BY <1>4, <1>5, <1>6, <1>7, <1>8 DEF IInv

LEMMA ReleaseKeeps ==
  ASSUME IInv, UNCHANGED framework, Release
  PROVE  IInv'
<1> USE DEF evidenceVars, verdictVars, handleVars
<1>0. TypeOK /\ ClientIsOn /\ InstructionsAreDriver /\ Scene /\ Story /\ Outcome
  BY DEF IInv
<1>1. /\ pc = "finally"
      /\ \/ /\ pc' = "disconnect" /\ UNCHANGED raised
            /\ \A s \in Owned : status'[s] = "deleted"
         \/ raised' \in {"lost", "unbound"} /\ pc' = "certify"
      /\ \/ UNCHANGED status
         \/ \E gone \in Prefixes :
              status' = [s \in Session |-> IF s \in gone THEN "deleted" ELSE status[s]]
      /\ UNCHANGED <<inbox, work, live, disk, unloading, current, woken>>
      /\ UNCHANGED <<handleVars, evidenceVars, verdictVars>>
  <2>1. CASE ~(Owned \subseteq bound)
    BY <2>1 DEF Release
  <2>2. CASE Owned \subseteq bound
    <3>1. PICK gone \in Prefixes :
            /\ status' = [s \in Session |-> IF s \in gone THEN "deleted" ELSE status[s]]
            /\ IF gone = Owned
                 THEN pc' = "disconnect" /\ UNCHANGED raised
                 ELSE pc' = "certify" /\ raised' = "lost"
      BY <2>2 DEF Release
    <3>2. gone = Owned => \A s \in Owned : status'[s] = "deleted"
      BY <3>1, Names DEF Owned
    <3> QED
      BY <3>1, <3>2 DEF Release
  <2> QED
    BY <2>1, <2>2
<1>2. status' \in [Session -> {"absent", "idle", "running", "cold", "deleted"}]
  BY <1>0, <1>1 DEF TypeOK
<1>3. /\ \A s \in Session : status'[s] \in {"deleted", status[s]}
      /\ "sender" \in Session /\ "awake" \in Session /\ "gone" \in Session
      /\ "resting" \in Session
  BY <1>1, Names
<1>4. TypeOK'
  BY <1>0, <1>1, <1>2 DEF TypeOK, Pc
<1>5. ClientIsOn' /\ InstructionsAreDriver'
  BY <1>0, <1>1 DEF ClientIsOn, InstructionsAreDriver, Early, Probing
<1>6. Scene'
  <2>1. SenderIsSet' /\ GoneIsSet' /\ AwakeIsSet' /\ RestingIsSet'
    BY <1>1 DEF SenderIsSet, GoneIsSet, AwakeIsSet, RestingIsSet, Early, Attaching, Probing
  <2>2. status'["sender"] = "running" => pc' = "certify"
    BY <1>1 DEF Owned
  <2> QED
    BY <2>1, <2>2 DEF Scene, SenderFinds, Leaving
<1>7. Story'
  <2>1. Records'
    BY <1>0, <1>1, RecordsStay DEF Story
  <2>2. Hearing'
    BY <1>0, <1>1, <1>3 DEF Story, Hearing, Early
  <2>3. RanIsTrue' /\ WokeIsTrue'
    BY <1>0, <1>1 DEF Story, RanIsTrue, WokeIsTrue, Leaving
  <2> QED
    BY <2>1, <2>2, <2>3 DEF Story
<1>8. Outcome'
  <2>1. Ending'
    <3>1. CASE raised' = "none"
      <4>1. raised = "none" /\ pc' = "disconnect" /\ \A s \in Owned : status'[s] = "deleted"
        BY <1>1, <3>1
      <4>2. status'["gone"] = "deleted"
        BY <1>0, <1>1, <1>3, <4>1 DEF Outcome, Ending
      <4> QED
        BY <4>1, <4>2, Names DEF Ending, Leaving, Owned
    <3>2. CASE raised' # "none"
      BY <1>1, <3>2 DEF Ending, Leaving
    <3> QED
      BY <3>1, <3>2
  <2>2. Judgement'
    BY <1>0, <1>1, JudgementWaits DEF Outcome
  <2> QED
    BY <2>1, <2>2 DEF Outcome
<1> QED
  BY <1>4, <1>5, <1>6, <1>7, <1>8 DEF IInv

LEMMA LeaveKeeps ==
  ASSUME IInv, UNCHANGED framework, Disconnect \/ Certify
  PROVE  IInv'
<1> USE DEF evidenceVars, verdictVars, handleVars, worldVars
<1>0. TypeOK /\ ClientIsOn /\ InstructionsAreDriver /\ Scene /\ Story /\ Outcome
  BY DEF IInv
<1>1. /\ \/ /\ pc = "disconnect" /\ pc' = "certify" /\ UNCHANGED verdictVars
            /\ open' \subseteq open \/ open' = {}
            /\ (open' = {} /\ UNCHANGED raised) \/ raised' = "lost"
         \/ pc = "certify" /\ pc' = "done" /\ UNCHANGED <<open, raised>>
      /\ UNCHANGED <<worldVars, bound, evidenceVars>>
  BY DEF Disconnect, Certify, Goto
<1>2. /\ a' \in Verdicts /\ b' \in Verdicts
      /\ a' \in {"PASS", "FAIL"} \/ b' \in {"PASS", "FAIL"} =>
           pc' = "done" /\ raised = "none" /\ a' = PassIf(ClaimA) /\ b' = PassIf(ClaimB)
  <2>1. a \notin {"PASS", "FAIL"} /\ b \notin {"PASS", "FAIL"}
    BY <1>0, <1>1 DEF Outcome, Judgement
  <2>2. CASE Disconnect
    BY <1>0, <2>1, <2>2 DEF Disconnect, TypeOK
  <2>3. CASE Certify
    BY <1>0, <2>1, <2>3 DEF Certify, Goto, TypeOK, PassIf, Verdicts
  <2> QED
    BY <2>2, <2>3
<1>3. TypeOK'
  BY <1>0, <1>1, <1>2 DEF TypeOK, Pc
<1>4. ClientIsOn' /\ InstructionsAreDriver'
  BY <1>0, <1>1 DEF ClientIsOn, InstructionsAreDriver, Early, Probing
<1>5. Scene'
  BY <1>0, <1>1
     DEF Scene, SenderIsSet, GoneIsSet, AwakeIsSet, RestingIsSet, SenderFinds,
         Early, Attaching, Probing, Leaving
<1>6. Story'
  <2>1. Records'
    BY <1>0, <1>1, RecordsStay DEF Story
  <2> QED
    BY <1>0, <1>1, <2>1 DEF Story, Hearing, RanIsTrue, WokeIsTrue, Early, Leaving
<1>7. Outcome'
  <2>1. Ending'
    BY <1>0, <1>1 DEF Outcome, Ending, Leaving
  <2>2. ClaimA' = ClaimA /\ ClaimB' = ClaimB
    BY <1>1 DEF ClaimA, ClaimB, ColdReceiptHeld, IdleReceiptHeld, DeletedReceiptHeld,
                RosterHeld
  <2>3. Judgement'
    BY <1>1, <1>2, <2>2 DEF Judgement, PassIf
  <2> QED
    BY <2>1, <2>3 DEF Outcome
<1> QED
  BY <1>3, <1>4, <1>5, <1>6, <1>7 DEF IInv

-----------------------------------------------------------------------------
(***************************************************************************)
(* The theorems.                                                           *)
(***************************************************************************)
LEMMA IInvInit == ASSUME Init PROVE IInv
<1>1. EmptyTranscript \in Transcript /\ [p \in Peer |-> "none"] \in [Peer -> Receipt]
  BY DEF EmptyTranscript, Transcript, Receipt
<1>2. /\ live["sender"] = EmptyTranscript /\ live["awake"] = EmptyTranscript
      /\ disk["sender"] = EmptyTranscript /\ disk["awake"] = EmptyTranscript
      /\ evidence = EmptyTranscript
      /\ \A s \in Session : status[s] = "absent" /\ inbox[s] = {}
  BY Names DEF Init
<1>3. TypeOK
  BY <1>1 DEF Init, TypeOK, Pc, Verdicts
<1>4. ClientIsOn /\ InstructionsAreDriver
  BY <1>2, Names DEF Init, ClientIsOn, InstructionsAreDriver, Probing
<1>5. Scene
  BY <1>2, Names
     DEF Init, Scene, SenderIsSet, GoneIsSet, AwakeIsSet, RestingIsSet, SenderFinds,
         Early, Attaching, Probing
<1>6. Story
  <2>1. /\ \A p \in Peer : EmptyTranscript.receipt[p] = "none"
        /\ EmptyTranscript.rosters = {}
        /\ EmptyTranscript.heard = FALSE /\ EmptyTranscript.answered = FALSE
    BY DEF EmptyTranscript
  <2>2. Records
    BY <1>2, <2>1, Names DEF Records, MayHold, IsPast
  <2>3. Hearing
    BY <1>2, <2>1, Names DEF Hearing
  <2> QED
    BY <2>2, <2>3 DEF Init, Story, RanIsTrue, WokeIsTrue
<1>7. Outcome
  BY DEF Init, Outcome, Ending, Judgement, Leaving
<1> QED
  BY <1>3, <1>4, <1>5, <1>6, <1>7 DEF IInv

LEMMA IInvStutter == ASSUME IInv, UNCHANGED vars PROVE IInv'
<1> USE DEF vars, worldVars, handleVars, evidenceVars, verdictVars
<1>1. TypeOK' /\ ClientIsOn' /\ InstructionsAreDriver'
  BY DEF IInv, TypeOK, ClientIsOn, InstructionsAreDriver
<1>2. Scene'
  BY DEF IInv, Scene, SenderIsSet, GoneIsSet, AwakeIsSet, RestingIsSet, SenderFinds
<1>3. Story'
  <2>1. Records'
    BY RecordsStay DEF IInv, Story
  <2> QED
    BY <2>1 DEF IInv, Story, Hearing, RanIsTrue, WokeIsTrue
<1>4. Outcome'
  BY DEF IInv, Outcome, Ending, Judgement, PassIf, ClaimA, ClaimB, ColdReceiptHeld,
         IdleReceiptHeld, DeletedReceiptHeld, RosterHeld
<1> QED
  BY <1>1, <1>2, <1>3, <1>4 DEF IInv

LEMMA SetupKeeps ==
  ASSUME IInv, SetupStep, UNCHANGED framework
  PROVE  IInv'
<1>1. CASE MakeResting \/ MakeGone \/ MakeAwake \/ MakeSender
  BY <1>1, CreateKeeps, MakerIs, Names DEF MakeResting, MakeGone, MakeAwake, MakeSender
<1>2. CASE AttachResting \/ AttachSender
  BY <1>2, AttachKeeps, Names DEF AttachResting, AttachSender
<1>3. CASE Connect \/ DeleteGone \/ PromptAwake \/ Settle
  BY <1>3, ConnectKeeps, DeleteKeeps, PromptKeeps, SettleKeeps
<1> QED
  BY <1>1, <1>2, <1>3 DEF SetupStep

LEMMA IInvAlways == Spec => []IInv
<1>1. Init => IInv
  BY IInvInit
<1>2. IInv /\ [Next]_vars => IInv'
  <2> SUFFICES ASSUME IInv, [Next]_vars PROVE IInv'
    OBVIOUS
  <2>1. CASE DriverStep
    BY <2>1, SetupKeeps, ProbesKeep, RaiseKeeps, ReleaseKeeps, LeaveKeeps
       DEF DriverStep, CloseStep
  <2>2. CASE WorldStep
             /\ UNCHANGED <<framework, pc, raised, handleVars, evidenceVars, verdictVars>>
    BY <2>2, WorldKeeps DEF DriverRests
  <2>3. CASE Finished \/ UNCHANGED vars
    BY <2>3, IInvStutter DEF Finished
  <2> QED
    BY <2>1, <2>2, <2>3 DEF Next
<1> QED
  BY <1>1, <1>2, PTL DEF Spec

\* TypeOK of ColdSibling holds of every run, for every set of frameworks.
THEOREM ProbesAreTyped == Spec => []TypeOK
<1>1. IInv => TypeOK
  BY DEF IInv
<1> QED
  BY <1>1, IInvAlways, PTL

\* IdlePassIsEarned: a PASS of C4a is a turn the idle peer took on the
\* sender's message and answered, under every framework.
THEOREM PassIsATurn == Spec => []IdlePassIsEarned
<1>1. IInv => IdlePassIsEarned
  <2> SUFFICES ASSUME IInv, a = "PASS" PROVE IdlePassIsEarned
    BY DEF IdlePassIsEarned
  <2>1. pc = "done" /\ raised = "none" /\ ClaimA
    BY DEF IInv, Outcome, Judgement, PassIf
  <2>2. evidence.receipt["awake"] = "accepted" /\ idleRan
    BY <2>1 DEF ClaimA, IdleReceiptHeld
  <2>3. live["sender"].receipt["awake"] = "accepted"
    BY <2>2, Names DEF IInv, Story, Records, IsPast
  <2>4. live["awake"].answered
    BY <2>1, <2>2 DEF IInv, Story, RanIsTrue, Leaving
  <2> QED
    BY <2>3, <2>4 DEF IdlePassIsEarned
<1> QED
  BY <1>1, IInvAlways, PTL

\* ReversionsAreCaught: QueuesIdle, AcceptsOnly, QueuesDeleted and, if the
\* sender has listed its siblings, DropsCold do not pass.
THEOREM RevertedDoesNotPass == Spec => []ReversionsAreCaught
<1>1. IInv => ReversionsAreCaught
  <2> SUFFICES ASSUME IInv PROVE ReversionsAreCaught
    OBVIOUS
  <2>1. MayHold(evidence)
    BY DEF IInv, Story, Records
  <2>2. a = "PASS" => ClaimA /\ IdlePassIsEarned
    <3>1. a = "PASS" => pc = "done" /\ raised = "none" /\ ClaimA
      BY DEF IInv, Outcome, Judgement, PassIf
    <3>2. ClaimA => evidence.receipt["awake"] = "accepted" /\ idleRan
      BY DEF ClaimA, IdleReceiptHeld
    <3> QED
      BY <3>1, <3>2, Names
         DEF IInv, Story, Records, IsPast, RanIsTrue, Leaving, IdlePassIsEarned
  <2>3. b = "PASS" => ClaimB
    BY DEF IInv, Outcome, Judgement, PassIf
  <2>4. framework = QueuesIdle => a # "PASS"
    BY <2>1, <2>2 DEF MayHold, ClaimA, IdleReceiptHeld
  <2>5. framework = AcceptsOnly => a # "PASS"
    BY <2>2 DEF IInv, Story, Hearing, IdlePassIsEarned
  <2>6. framework = QueuesDeleted => b # "PASS"
    BY <2>1, <2>3 DEF MayHold, ClaimB, DeletedReceiptHeld
  <2>7. framework = DropsCold /\ evidence.rosters # {} => b # "PASS"
    BY <2>1, <2>3 DEF MayHold, ClaimB, RosterHeld
  <2> QED
    BY <2>4, <2>5, <2>6, <2>7 DEF ReversionsAreCaught
<1> QED
  BY <1>1, IInvAlways, PTL

\* ShippedIsNotBlamed: a FAIL of the framework that ships is the sender's
\* silence, a peer still in its opening turn, or a turn that was not seen.
THEOREM BlameNeedsSilence == Spec => []ShippedIsNotBlamed
<1>1. IInv => ShippedIsNotBlamed
  <2> SUFFICES ASSUME IInv, framework = Shipped PROVE ShippedIsNotBlamed
    BY DEF ShippedIsNotBlamed
  <2>1. /\ evidence.receipt["resting"] \in {"none", "sibling_cold"}
        /\ evidence.receipt["awake"] \in {"none", "accepted", "queued"}
        /\ evidence.receipt["gone"] \in {"none", "no_such_sibling"}
        /\ evidence.rosters \subseteq {TRUE}
    BY DEF IInv, Story, Records, MayHold
  <2>2. ~coldWoke
    BY DEF IInv, Story, WokeIsTrue, Shipped, WakesCold
  <2>3. /\ a = "FAIL" => ~ClaimA
        /\ b = "FAIL" => ~ClaimB
    BY DEF IInv, Outcome, Judgement, PassIf
  <2>4. RosterHeld
    BY <2>1 DEF RosterHeld
  <2> QED
    BY <2>1, <2>2, <2>3, <2>4
       DEF ShippedIsNotBlamed, ClaimA, ClaimB, ColdReceiptHeld, IdleReceiptHeld,
           DeletedReceiptHeld
<1> QED
  BY <1>1, IInvAlways, PTL

\* ReturnCleansUp: a run that returns has deleted what it made and closed
\* what it opened.
THEOREM ReturnIsClean == Spec => []ReturnCleansUp
<1>1. IInv => ReturnCleansUp
  BY DEF IInv, Outcome, Ending, Judgement, ReturnCleansUp
<1> QED
  BY <1>1, IInvAlways, PTL
=============================================================================
