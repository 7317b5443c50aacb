----------------------------- MODULE ColdSibling -----------------------------
(***************************************************************************)
(* Certification C4 of certify/c4_cold_sibling_is_queued.py: one sender    *)
(* writes to a sibling that is cold, to one that is idle and to one that   *)
(* was deleted, and the driver judges from what it can observe whether the *)
(* framework keeps them apart.  The framework is chosen at the start: the  *)
(* one that ships, or one with a reversion that the claim names (REVERT_A, *)
(* REVERT_B) or that its certify tells from the one that ships: a receipt  *)
(* `accepted` without a turn.  One coroutine drives; the turns of the      *)
(* sessions and the background unload run between its awaits.              *)
(***************************************************************************)
EXTENDS Naturals

CONSTANT Frameworks  \* the frameworks the claim is run against

Shipped == "shipped"
WakesCold == "wakesCold"          \* a cold sibling dispatches on delivery
QueuesIdle == "queuesIdle"        \* an idle one reports queued, takes no turn
AcceptsOnly == "acceptsOnly"      \* an idle one reports accepted, takes no turn
QueuesDeleted == "queuesDeleted"  \* a deleted one reports queued
DropsCold == "dropsCold"          \* the roster has no cold rows
Reversions == {WakesCold, QueuesIdle, AcceptsOnly, QueuesDeleted, DropsCold}

ASSUME FrameworksAssumption == Frameworks \subseteq Reversions \cup {Shipped}

VARIABLES
  framework,  \* which framework this run meets
  status,     \* status[s]: where session s is in its life
  inbox,      \* inbox[s]: messages queued for s
  work,       \* the instructions of the sender's running turn
  live,       \* live[s]: the transcript of s in memory
  disk,       \* disk[s]: the transcript of s as last saved
  unloading,  \* sessions left by the client, not yet unloaded
  current,    \* the session the driver's client is attached to
  woken,      \* a SessionWokenEvent of `resting` is in the observer's log
  pc, bound, open, raised, coldWoke, turnsBefore, idleRan, evidence, a, b

worldVars == <<status, inbox, work, live, disk, unloading, current, woken>>
handleVars == <<bound, open>>
evidenceVars == <<coldWoke, turnsBefore, idleRan, evidence>>
verdictVars == <<a, b>>
vars == <<framework, worldVars, pc, raised, handleVars, evidenceVars, verdictVars>>

Peer == {"resting", "awake", "gone"}
Session == Peer \cup {"sender"}
Message == Peer \cup {"ready", "hello"}
Receipt == {"none", "accepted", "queued", "sibling_cold", "no_such_sibling"}

\* A transcript: turns completed, a sibling's message in it, a model entry
\* after that message, receipts by the address they name, and whether the
\* rosters that were listed had a cold row.  No file reads as an empty one:
\* the sessions whose count is read are saved before it is.
Transcript == [turns : Nat, heard : BOOLEAN, answered : BOOLEAN,
               receipt : [Peer -> Receipt], rosters : SUBSET BOOLEAN]

EmptyTranscript == [turns |-> 0, heard |-> FALSE, answered |-> FALSE,
                    receipt |-> [p \in Peer |-> "none"], rosters |-> {}]

Pc == {"connect", "makeResting", "makeGone", "deleteGone", "makeAwake",
       "promptAwake", "makeSender", "attachResting", "attachSender", "settle",
       "sendCold", "quiet", "countTurns", "sendIdle", "pollSent", "pollRan",
       "judgeRan", "sendDead", "pollAll", "read", "finally", "disconnect",
       "certify", "done"}
Verdicts == {"none", "PASS", "FAIL", "BLOCKED"}

\* The type invariant of the claim's run.
TypeOK ==
  /\ framework \in Frameworks
  /\ status \in [Session -> {"absent", "idle", "running", "cold", "deleted"}]
  /\ inbox \in [Session -> SUBSET Message]
  /\ work \in SUBSET Peer
  /\ live \in [Session -> Transcript]
  /\ disk \in [Session -> Transcript]
  /\ unloading \in SUBSET Session
  /\ current \in Session \cup {"nobody"}
  /\ woken \in BOOLEAN
  /\ pc \in Pc
  /\ bound \in SUBSET Session
  /\ open \in SUBSET {"client", "watcher"}
  /\ raised \in {"none", "unmet", "unbound", "lost"}
  /\ coldWoke \in BOOLEAN
  /\ turnsBefore \in Nat
  /\ idleRan \in BOOLEAN
  /\ evidence \in Transcript
  /\ a \in Verdicts
  /\ b \in Verdicts

Init ==
  /\ framework \in Frameworks
  /\ status = [s \in Session |-> "absent"]
  /\ inbox = [s \in Session |-> {}]
  /\ work = {}
  /\ live = [s \in Session |-> EmptyTranscript]
  /\ disk = [s \in Session |-> EmptyTranscript]
  /\ unloading = {}
  /\ current = "nobody"
  /\ woken = FALSE
  /\ pc = "connect"
  /\ bound = {}
  /\ open = {}
  /\ raised = "none"
  /\ coldWoke = FALSE
  /\ turnsBefore = 0
  /\ idleRan = FALSE
  /\ evidence = EmptyTranscript
  /\ a = "none"
  /\ b = "none"

-----------------------------------------------------------------------------
(***************************************************************************)
(* The framework and the sessions.                                         *)
(***************************************************************************)

\* A turn starts on s; the session is saved as it was before the turn.
StartTurn(s) ==
  /\ status' = [status EXCEPT ![s] = "running"]
  /\ disk' = [disk EXCEPT ![s] = live[s]]

\* An answer outside the contract for a session that has ended.
ThirdState(p) ==
  IF status[p] = "deleted" THEN {"sibling_terminated"} ELSE {"accepted"}

\* What send_to_sibling answers for p, and whether a turn starts on p.
Receipts(p) ==
  CASE status[p] = "running" -> {"queued"}
    [] status[p] = "idle" -> IF framework = QueuesIdle THEN {"queued"}
                                                       ELSE {"accepted"}
    [] status[p] = "cold" -> IF framework = WakesCold
                               THEN {"sibling_cold", "accepted"}
                               ELSE {"sibling_cold"}
    [] OTHER -> IF framework = QueuesDeleted THEN {"queued"}
                                             ELSE {"no_such_sibling"}

Starts(p) ==
  \/ status[p] = "idle" /\ framework \notin {QueuesIdle, AcceptsOnly}
  \/ status[p] = "cold" /\ framework = WakesCold

\* The sender does as it is told, once for each instruction.
SenderSends(p) ==
  /\ status["sender"] = "running"
  /\ p \in work
  /\ live["sender"].receipt[p] = "none"
  /\ \E r \in Receipts(p) :
       live' = [live EXCEPT !["sender"].receipt[p] = r, ![p].heard = @ \/ Starts(p)]
  /\ IF Starts(p)
       THEN StartTurn(p) /\ UNCHANGED inbox
       ELSE /\ inbox' = [inbox EXCEPT ![p] = @ \cup {"hello"}]
            /\ UNCHANGED <<status, disk>>
  /\ woken' = (woken \/ (status[p] = "cold" /\ Starts(p)))
  /\ UNCHANGED <<work, unloading, current>>

\* Nothing stops the sender from listing its siblings.
SenderLists ==
  /\ status["sender"] = "running"
  /\ live' = [live EXCEPT !["sender"].rosters =
       @ \cup {status["resting"] = "cold" /\ framework # DropsCold}]
  /\ UNCHANGED <<status, inbox, work, disk, unloading, current, woken>>

\* A turn ends with a model entry; what was queued starts the next one.
EndTurn(s) ==
  LET over == [live[s] EXCEPT !.turns = @ + 1, !.answered = live[s].heard] IN
  /\ status[s] = "running"
  /\ IF inbox[s] = {}
       THEN /\ status' = [status EXCEPT ![s] = "idle"]
            /\ live' = [live EXCEPT ![s] = over]
            /\ UNCHANGED disk
       ELSE /\ live' = [live EXCEPT ![s] =
                 [over EXCEPT !.heard = @ \/ "hello" \in inbox[s]]]
            /\ disk' = [disk EXCEPT ![s] = over]
            /\ UNCHANGED status
  /\ work' = IF s = "sender" THEN inbox[s] ELSE work
  /\ inbox' = [inbox EXCEPT ![s] = {}]
  /\ UNCHANGED <<unloading, current, woken>>

\* The deferred unload: only of a session that is idle.
Unload(s) ==
  /\ s \in unloading
  /\ unloading' = unloading \ {s}
  /\ IF status[s] = "idle"
       THEN /\ status' = [status EXCEPT ![s] = "cold"]
            /\ disk' = [disk EXCEPT ![s] = live[s]]
       ELSE UNCHANGED <<status, disk>>
  /\ UNCHANGED <<inbox, work, live, current, woken>>

WorldStep ==
  \/ \E p \in Peer : SenderSends(p)
  \/ SenderLists
  \/ \E s \in Session : EndTurn(s) \/ Unload(s)

-----------------------------------------------------------------------------
(***************************************************************************)
(* The driver, one action per await of _run.                               *)
(***************************************************************************)

Goto(from, to) == pc = from /\ pc' = to

\* The driver's client, or the separate one it observes through, may fail to
\* connect: _run raises before its try block.
Connect ==
  /\ \/ /\ Goto("connect", "makeResting")
        /\ open' = {"client", "watcher"}
        /\ UNCHANGED raised
     \/ /\ Goto("connect", "certify")
        /\ open' \in {{}, {"client"}}
        /\ raised' = "unmet"
  /\ UNCHANGED <<worldVars, bound, evidenceVars, verdictVars>>

\* create_sibling, which attaches the client to the session it makes.
Create(from, s, to) ==
  /\ Goto(from, to)
  /\ status' = [status EXCEPT ![s] = "idle"]
  /\ current' = s
  /\ bound' = bound \cup {s}
  /\ UNCHANGED <<inbox, work, live, disk, unloading, woken>>
  /\ UNCHANGED <<raised, open, evidenceVars, verdictVars>>

\* Where in _run each of the four is made.
Maker(s) ==
  CASE s = "resting" -> "makeResting"
    [] s = "gone" -> "makeGone"
    [] s = "awake" -> "makeAwake"
    [] s = "sender" -> "makeSender"

MakeResting == Create(Maker("resting"), "resting", "makeGone")
MakeGone == Create(Maker("gone"), "gone", "deleteGone")
MakeAwake == Create(Maker("awake"), "awake", "promptAwake")
MakeSender == Create(Maker("sender"), "sender", "attachResting")

\* The spawn is refused, or not answered in time, and then the session may be
\* there without a handle: PreconditionUnmet, from inside the try block.
SpawnFails ==
  /\ \E s \in Session :
       /\ pc = Maker(s)
       /\ status' \in {status, [status EXCEPT ![s] = "idle"]}
  /\ pc' = "finally"
  /\ raised' = "unmet"
  /\ UNCHANGED <<inbox, work, live, disk, unloading, current, woken>>
  /\ UNCHANGED <<handleVars, evidenceVars, verdictVars>>

\* Any other call to the daemon raises when the connection is gone.
RpcPoints == {"deleteGone", "promptAwake", "attachResting", "attachSender",
              "sendCold", "countTurns", "sendIdle", "pollSent", "pollRan",
              "sendDead", "pollAll"}

CallRaises ==
  /\ pc \in RpcPoints
  /\ pc' = "finally"
  /\ raised' = "lost"
  /\ UNCHANGED <<worldVars, handleVars, evidenceVars, verdictVars>>

DeleteGone ==
  /\ Goto("deleteGone", "makeAwake")
  /\ status' = [status EXCEPT !["gone"] = "deleted"]
  /\ UNCHANGED <<inbox, work, live, disk, unloading, current, woken>>
  /\ UNCHANGED <<raised, handleVars, evidenceVars, verdictVars>>

\* send_message on the session the client is attached to.
SendMessage(from, m, to) ==
  /\ Goto(from, to)
  /\ IF status[current] = "running"
       THEN /\ inbox' = [inbox EXCEPT ![current] = @ \cup {m}]
            /\ UNCHANGED <<status, disk, work>>
       ELSE /\ StartTurn(current)
            /\ work' = IF current = "sender" THEN {m} ELSE work
            /\ UNCHANGED inbox
  /\ UNCHANGED <<live, unloading, current, woken>>
  /\ UNCHANGED <<raised, handleVars, evidenceVars, verdictVars>>

PromptAwake == SendMessage("promptAwake", "ready", "makeSender")
SendCold == SendMessage("sendCold", "resting", "quiet")
SendIdle == SendMessage("sendIdle", "awake", "pollSent")
SendDead == SendMessage("sendDead", "gone", "pollAll")

\* attach_session: the session left is unloaded in the background if it is
\* idle; the one attached to is loaded.
Attach(from, s, to) ==
  /\ Goto(from, to)
  /\ unloading' = (IF current # s /\ status[current] = "idle"
                     THEN unloading \cup {current} ELSE unloading) \ {s}
  /\ status' = [status EXCEPT ![s] = IF @ = "cold" THEN "idle" ELSE @]
  /\ current' = s
  /\ UNCHANGED <<inbox, work, live, disk, woken>>
  /\ UNCHANGED <<raised, handleVars, evidenceVars, verdictVars>>

\* `resting` is created, never prompted and called cold.
NeverAttached == Attach("attachResting", "sender", "attachSender")

AttachResting == Attach("attachResting", "resting", "attachSender")
AttachSender == Attach("attachSender", "sender", "settle")

\* sleep(10): taken to be long enough for the deferred unload.
Settle ==
  /\ Goto("settle", "sendCold")
  /\ unloading = {}
  /\ UNCHANGED <<worldVars, raised, handleVars, evidenceVars, verdictVars>>

\* QUIET_WINDOW_S passes and the log is read, whatever the sender has done.
Quiet ==
  /\ Goto("quiet", "countTurns")
  /\ coldWoke' = woken
  /\ UNCHANGED <<worldVars, raised, handleVars, turnsBefore, idleRan, evidence,
                 verdictVars>>

\* save_session: of a loaded session; the answer is not read.
Saved(s) ==
  IF status[s] \in {"idle", "running"} THEN [disk EXCEPT ![s] = live[s]] ELSE disk

Saving(s) ==
  /\ disk' = Saved(s)
  /\ UNCHANGED <<status, inbox, work, live, unloading, current, woken>>
  /\ UNCHANGED <<raised, handleVars, verdictVars>>

CountTurns ==
  /\ Goto("countTurns", "sendIdle")
  /\ Saving("awake")
  /\ turnsBefore' = disk'["awake"].turns
  /\ UNCHANGED <<coldWoke, idleRan, evidence>>

\* A pass of a polling loop: save, look, and leave on the evidence or when
\* the passes are used up (how many they are is not counted).
Poll(at, s, found, to) ==
  /\ pc = at
  /\ Saving(s)
  /\ pc' \in IF found THEN {to} ELSE {at, to}

ReceiptsFor(d, p) == d["sender"].receipt[p] # "none"

PollSent ==
  /\ Poll("pollSent", "sender", ReceiptsFor(Saved("sender"), "awake"), "pollRan")
  /\ UNCHANGED evidenceVars

\* The counter moved, read from two saves of the peer's own transcript.
Moved(d) == d["awake"].turns > turnsBefore

PollRan ==
  /\ Poll("pollRan", "awake", Moved(Saved("awake")), "judgeRan")
  /\ idleRan' = Moved(disk')
  /\ UNCHANGED <<coldWoke, turnsBefore, evidence>>

\* The counter alone.
JudgeByCounter ==
  /\ Goto("judgeRan", "sendDead")
  /\ UNCHANGED <<worldVars, raised, handleVars, evidenceVars, verdictVars>>

\* BOTH: the counter moved and the peer answered the sibling's message.
JudgeRan ==
  /\ Goto("judgeRan", "sendDead")
  /\ idleRan' = (idleRan /\ disk["awake"].answered)
  /\ UNCHANGED <<worldVars, raised, handleVars, coldWoke, turnsBefore, evidence,
                 verdictVars>>

PollAll ==
  /\ Poll("pollAll", "sender", \A p \in Peer : ReceiptsFor(Saved("sender"), p), "read")
  /\ UNCHANGED evidenceVars

ReadEvidence ==
  /\ Goto("read", "finally")
  /\ evidence' = disk["sender"]
  /\ UNCHANGED <<worldVars, raised, handleVars, coldWoke, turnsBefore, idleRan,
                 verdictVars>>

Owned == {"resting", "awake", "sender"}

\* `resting` is taken for gone already, like `gone` is.
ReleaseLoaded ==
  /\ Goto("finally", "disconnect")
  /\ status' = [s \in Session |->
       IF s \in {"awake", "sender"} THEN "deleted" ELSE status[s]]
  /\ UNCHANGED <<inbox, work, live, disk, unloading, current, woken>>
  /\ UNCHANGED <<raised, handleVars, evidenceVars, verdictVars>>

\* The finally block deletes three siblings by name, in this order.  A name no
\* assignment has reached yet raises instead, and replaces the exception under
\* way; so does a deletion that raises, which leaves the rest undone.
Prefixes == {{}, {"resting"}, {"resting", "awake"}, Owned}

Release ==
  /\ pc = "finally"
  /\ \/ /\ ~(Owned \subseteq bound)
        /\ pc' = "certify"
        /\ raised' = "unbound"
        /\ UNCHANGED status
     \/ /\ Owned \subseteq bound
        /\ \E done \in Prefixes :
             /\ status' = [s \in Session |-> IF s \in done THEN "deleted" ELSE status[s]]
             /\ IF done = Owned
                  THEN pc' = "disconnect" /\ UNCHANGED raised
                  ELSE pc' = "certify" /\ raised' = "lost"
  /\ UNCHANGED <<inbox, work, live, disk, unloading, current, woken>>
  /\ UNCHANGED <<handleVars, evidenceVars, verdictVars>>

\* The watcher hangs up, then the client; either may raise.
Disconnect ==
  /\ Goto("disconnect", "certify")
  /\ \/ open' = {} /\ UNCHANGED raised
     \/ open' \in {open, open \ {"watcher"}} /\ raised' = "lost"
  /\ UNCHANGED <<worldVars, bound, evidenceVars, verdictVars>>

\* certify(), on what _run returned.
ColdReceiptHeld == evidence.receipt["resting"] = "sibling_cold"
IdleReceiptHeld == evidence.receipt["awake"] = "accepted"
DeletedReceiptHeld == evidence.receipt["gone"] = "no_such_sibling"
NoRosterCheck == TRUE  \* the roster is not looked at
RosterHeld == evidence.rosters # {} => TRUE \in evidence.rosters

ClaimA == ~coldWoke /\ ColdReceiptHeld /\ IdleReceiptHeld /\ idleRan
ClaimB == DeletedReceiptHeld /\ RosterHeld

PassIf(held) == IF held THEN "PASS" ELSE "FAIL"

Certify ==
  /\ Goto("certify", "done")
  /\ \/ /\ raised = "none"
        /\ a' = PassIf(ClaimA)
        /\ b' = PassIf(ClaimB)
     \/ /\ raised = "unmet"
        /\ a' = "BLOCKED"
        /\ b' = "BLOCKED"
     \/ /\ raised \in {"unbound", "lost"}  \* certify itself raises
        /\ UNCHANGED verdictVars
  /\ UNCHANGED <<worldVars, raised, handleVars, evidenceVars>>

SetupStep ==
  \/ Connect \/ MakeResting \/ MakeGone \/ DeleteGone \/ MakeAwake
  \/ PromptAwake \/ MakeSender \/ AttachResting \/ AttachSender \/ Settle

ProbeStep ==
  \/ SendCold \/ Quiet
  \/ CountTurns \/ SendIdle \/ PollSent \/ PollRan \/ JudgeRan
  \/ SendDead \/ PollAll \/ ReadEvidence

CloseStep == SpawnFails \/ CallRaises \/ Release \/ Disconnect \/ Certify

DriverStep == (SetupStep \/ ProbeStep \/ CloseStep) /\ UNCHANGED framework

Finished == pc = "done" /\ UNCHANGED vars

Next ==
  \/ DriverStep
  \/ /\ WorldStep
     /\ UNCHANGED <<framework, pc, raised, handleVars, evidenceVars, verdictVars>>
  \/ Finished

Spec == Init /\ [][Next]_vars

-----------------------------------------------------------------------------
(***************************************************************************)
(* Properties that hold.                                                   *)
(***************************************************************************)

\* PASS of C4a is evidence of a turn: the peer that was idle has taken the
\* sender's message in a turn of its own and answered, after `accepted`.
IdlePassIsEarned ==
  a = "PASS" => /\ live["sender"].receipt["awake"] = "accepted"
                /\ live["awake"].answered

\* The reversions of an idle or deleted sibling's receipt are caught, and
\* that of the roster is when the sender has listed it (REVERT_A, REVERT_B).
ReversionsAreCaught ==
  /\ framework \in {QueuesIdle, AcceptsOnly} => a # "PASS"
  /\ framework = QueuesDeleted => b # "PASS"
  /\ framework = DropsCold /\ evidence.rosters # {} => b # "PASS"

\* A FAIL under the framework that ships is the sender's silence or the
\* windows': the receipts that were read never contradict the claim, except
\* that of a peer still in its opening turn.
ShippedIsNotBlamed ==
  framework = Shipped =>
    /\ a = "FAIL" => \/ evidence.receipt["resting"] = "none"
                     \/ evidence.receipt["awake"] \in {"none", "queued"}
                     \/ ~idleRan
    /\ b = "FAIL" => evidence.receipt["gone"] = "none"

\* A run that returns leaves nothing loaded and no connection open; only one
\* that ends by an exception may.
ReturnCleansUp ==
  a \in {"PASS", "FAIL"} =>
    open = {} /\ \A s \in Session : status[s] = "deleted"

-----------------------------------------------------------------------------
(***************************************************************************)
(* What REVERT_A and the preconditions promise and the driver does not do. *)
(***************************************************************************)

\* "make a cold sibling dispatch on delivery ... The cold probe must then
\* fail" (REVERT_A).
ColdWakeIsCaught == framework = WakesCold => a # "PASS"

\* A sibling that cannot be spawned is a precondition unmet: reported as
\* BLOCKED by certify, which no other exception may preempt.
SpawnFailureIsReported == raised # "unbound"
=============================================================================
