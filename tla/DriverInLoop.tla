----------------------------- MODULE DriverInLoop -----------------------------
(***************************************************************************)
(* Certification C1 of certify/c1_no_driver_in_the_loop.py: the driver     *)
(* starts the initiator, puts itself on a leash and watches the initiator  *)
(* reach its partner.  It judges from the partner's turn, the receipt on   *)
(* disk and the order of the two on the bus.  The reverted frameworks make *)
(* the driver a courier, or make the receipt wait for the peer's turn.     *)
(***************************************************************************)
EXTENDS Harness

VARIABLES
  carriers,  \* whose messages have reached the partner
  bodies,    \* the receipts _run returns
  early      \* the initiator had called before the observer subscribed

\* carriers and early are read by properties only.
loopVars == <<carriers, bodies, early>>

DriverRelays == "driverRelays"  \* the driver relays, the initiator does not call
AwaitsTurn == "awaitsTurn"      \* a receipt follows the turn it started
LoopReversions == {DriverRelays, AwaitsTurn}

LoopTypeOK ==
  /\ carriers \in SUBSET {"driver", "initiator"}
  /\ bodies \in SUBSET Receipt
  /\ early \in BOOLEAN

LoopInit == carriers = {} /\ bodies = {} /\ early = FALSE

-----------------------------------------------------------------------------
\* Each persona sends to the other one, once in a turn.
Other(s) == IF s = "partner" THEN "initiator" ELSE "partner"

\* A receipt that waits: the call is held until the peer's turn is over.
WaitsForTurn(s) ==
  framework = AwaitsTurn /\ status[Other(s)] = "idle"

SiblingCalls(s) ==
  /\ ~WaitsForTurn(s)
  /\ s = "initiator" => framework # DriverRelays
  /\ SendToSibling(s, Other(s), AnswerFor(Other(s)))

SiblingCallsAndWaits(s) ==
  /\ WaitsForTurn(s)
  /\ status[s] = "running"
  /\ s \notin called
  /\ Sends < SendBound
  /\ called' = called \cup {s}
  /\ status' = [status EXCEPT ![s] = "held", ![Other(s)] = "running"]
  /\ saved' = [saved EXCEPT ![Other(s)] = receipts[Other(s)]]
  /\ Record(<<"tool.call_start">>, s)
  /\ UNCHANGED <<queued, receipts>>

CallReturns(s) ==
  /\ status[s] = "held"
  /\ status[Other(s)] # "running"
  /\ status' = [status EXCEPT ![s] = "running"]
  /\ receipts' = [receipts EXCEPT ![s] = "accepted"]
  /\ Record(<<"tool.call_end">>, s)
  /\ UNCHANGED <<queued, called, saved>>

\* A message of x is taken by s, which takes it if it is loaded.
Carries(x, s) ==
  carriers' = IF s = "partner" /\ s \in Loaded THEN carriers \cup {x} ELSE carriers

LoopWorldStep ==
  \E s \in {"partner", "initiator"} :
    \/ (SiblingCalls(s) \/ SiblingCallsAndWaits(s)) /\ Carries(s, Other(s))
    \/ (CallReturns(s) \/ EndTurn(s)) /\ UNCHANGED carriers

-----------------------------------------------------------------------------
LoopConnect == Connecting("connect", "driver", "partner", "certify")
MakePartner == Creating("partner", "driver", "partner", "initiator", "certify")

\* The initiator is made by a client of its own, as C2 makes its siblings.
MakesInitiatorApart == Creating("initiator", "asks", "initiator", "kickoff", "certify")
MakeInitiator == Creating("initiator", "driver", "initiator", "kickoff", "certify")

\* send_message names no session: it goes to the one created last.
Kickoff ==
  /\ Sending("kickoff", "driver", "observe")
  /\ Carries("driver", attached["driver"])
  /\ UNCHANGED <<bodies, early>>

\* The observer is a task of its own, created after the kickoff was sent.
LoopObserve ==
  /\ Observing("observe", "wait")
  /\ early' = ("initiator" \in called \/ receipts["initiator"] # "none")
  /\ UNCHANGED <<carriers, bodies>>

\* DriverLeash: what a leashed driver may still call.
ObserverMethods == {"cascade_events", "subscribe", "disconnect", "cascade_budget_get"}
Leashed(method) == method \in ObserverMethods

\* The driver hands on what the initiator has said.
Relay ==
  /\ pc = "wait"
  /\ framework = DriverRelays
  /\ "initiator" \in SessionsThatRan
  /\ IF Leashed("send_message")
       THEN /\ Deliver("partner")
            /\ Carries("driver", "partner")
            /\ UNCHANGED <<pc, failure>>
       ELSE /\ pc' = "release"
            /\ failure' = "leash"
            /\ UNCHANGED <<carriers, status, queued, saved>>
  /\ UNCHANGED <<called, receipts, bodies, early, clientVars, busVars, verdict>>

PartnerRan == "partner" \in SessionsThatRan

AwaitPartner ==
  /\ Goto("wait", "save")
  /\ PartnerRan
  /\ UNCHANGED <<worldVars, clientVars, busVars, failure, verdict>>

AwaitTimesOut ==
  /\ Goto("wait", "release")
  /\ ~PartnerRan
  /\ failure' = "timeout"
  /\ UNCHANGED <<worldVars, clientVars, busVars, verdict>>

\* The partner's transcript instead of the sender's.
SavePartner == Goto("save", "bodies") /\ Saving("partner") /\ UNCHANGED failure
SaveInitiator == Goto("save", "bodies") /\ Saving("initiator") /\ UNCHANGED failure

\* wait_for a receipt on disk: what was saved is there, and it is not saved
\* again.
ReadBodies ==
  /\ Goto("bodies", "release")
  /\ bodies' = ReceiptsOnDisk
  /\ UNCHANGED <<worldVars, clientVars, busVars, failure, verdict, carriers, early>>

\* sessions_that_ran raises too, when a turn does not say whose it is.
LoopRaises == Raising({"wait", "save"}, "release")

\* The kickoff precedes the try block.
KickoffRaises == Raising({"kickoff"}, "certify")

LoopRelease == Releasing("release", <<"initiator", "partner">>, "disconnect", "certify")
LoopDisconnect == Disconnecting("disconnect", {"driver"}, "certify")

\* _receipt_precedes_turn, on the log: any receipt of any session, before the
\* first turn of the partner.
IsReceipt(ev) == ev.type = "tool.call_end"
IsPartnersTurn(ev) == ev.type = "turn.completed" /\ ev.session = "partner"

BothAreSeen ==
  /\ \E i \in DOMAIN log : IsReceipt(log[i])
  /\ \E j \in DOMAIN log : IsPartnersTurn(log[j])

ReceiptPrecedesTurn ==
  /\ BothAreSeen
  /\ \E i \in DOMAIN log :
       IsReceipt(log[i]) /\ \A j \in DOMAIN log : IsPartnersTurn(log[j]) => i < j

LoopCertify ==
  /\ Goto("certify", "done")
  /\ Reporting({"C1"}, [i \in {"C1"} |-> PartnerRan /\ bodies # {} /\ ReceiptPrecedesTurn],
               {"leash", "timeout"})

LoopDriverStep ==
  \/ Kickoff
  \/ Relay
  \/ LoopObserve
  \/ ReadBodies
  \/ /\ \/ LoopConnect \/ MakePartner \/ MakeInitiator
        \/ AwaitPartner \/ AwaitTimesOut \/ SaveInitiator \/ LoopRaises
        \/ KickoffRaises \/ LoopRelease \/ LoopDisconnect \/ LoopCertify
     /\ UNCHANGED loopVars

LoopEnvironment ==
  /\ LoopWorldStep
  /\ UNCHANGED <<pc, clientVars, failure, verdict, bodies, early>>

-----------------------------------------------------------------------------
\* A PASS of C1 is of an exchange between siblings: what has reached the
\* partner is the initiator's, and nothing of the driver's has.  Not a relay,
\* which breaks the run (REVERT, first reversion), and not the kickoff, which
\* names no session and would satisfy every check if the partner took it.
OnlyTheInitiatorCarried == verdict["C1"] = "PASS" => carriers = {"initiator"}

\* A receipt that waits for the peer's turn is noticed (REVERT, second
\* reversion), with two exceptions: the initiator had called before the
\* observer subscribed, so its receipt may come of an earlier call, or the
\* partner's own call in that turn is taken for the receipt: the check reads
\* the calls of both siblings off one bus.
BlockingReceiptIsCaught ==
  framework = AwaitsTurn /\ verdict["C1"] = "PASS" =>
    early \/ \E i \in DOMAIN log : IsReceipt(log[i]) /\ log[i].session = "partner"

\* The framework that ships fails C1 only by what the driver did not get to
\* see: a partner that never ran within the window, or a send of the initiator
\* that was over before the observer had subscribed.
SoundReceiptIsNotBlamed ==
  framework = Shipped /\ verdict["C1"] = "FAIL" => failure = "timeout" \/ early
=============================================================================
