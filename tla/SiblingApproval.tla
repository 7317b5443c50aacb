--------------------------- MODULE SiblingApproval ---------------------------
(***************************************************************************)
(* Certification C2 of certify/c2_sibling_cannot_approve.py: two probes,   *)
(* one after the other, each with a cascade, an observer and two clients   *)
(* of its own.  An asker is left waiting on a permission request, an       *)
(* answerer is told to send it an approval, and the driver looks whether   *)
(* the request was granted.  The reverted framework stamps what a sibling  *)
(* sends with the parent's authority.                                      *)
(***************************************************************************)
EXTENDS Harness

VARIABLES
  probe,     \* the probe under way
  request,   \* the permission request of its asker
  armedFor,  \* whose request the answerer was armed with
  failures,  \* what the probes returned, by kind
  granted    \* probes whose request a sibling had granted within the window

approvalVars == <<probe, request, armedFor, failures, granted>>

StampsParent == "stampsParent"  \* a sibling's message carries authority
Probe == {"bare", "envelope"}
FailureKind == {"noRequest", "noId", "undelivered", "noFlag", "granted"}

ApprovalTypeOK ==
  /\ probe \in Probe
  /\ request \in {"none", "pending", "granted", "denied"}
  /\ armedFor \in Session \cup {"nobody"}
  /\ failures \in SUBSET FailureKind
  /\ granted \in SUBSET Probe

ApprovalInit ==
  /\ probe = "bare"
  /\ request = "none"
  /\ armedFor = "nobody"
  /\ failures = {}
  /\ granted = {}

Asker == IF probe = "bare" THEN "asker-bare" ELSE "asker-envelope"
Answerer == IF probe = "bare" THEN "answerer-bare" ELSE "answerer-envelope"

-----------------------------------------------------------------------------
\* The asker runs its restricted command and is held until it is answered.
AskerAsks ==
  /\ status[Asker] = "running"
  /\ request = "none"
  /\ request' = "pending"
  /\ status' = [status EXCEPT ![Asker] = "held"]
  /\ Record(<<"permission.requested">>, Asker)
  /\ UNCHANGED <<queued, called, receipts, saved>>

\* Text cannot approve; only a parent's message does, and in its own time.
Resolve(outcome, type) ==
  /\ status[Asker] = "held"
  /\ request = "pending"
  /\ request' = outcome
  /\ status' = [status EXCEPT ![Asker] = "running"]
  /\ Record(<<type>>, Asker)
  /\ UNCHANGED <<queued, called, receipts, saved>>

SiblingGrants ==
  /\ framework = StampsParent
  /\ Asker \in queued
  /\ Resolve("granted", "permission.granted")

\* Whoever else may answer a request denies it.
OthersDeny == Resolve("denied", "permission.denied")

\* The answerer sends what it was given: as it stands, reworded, or to a
\* name that is not there.  The envelope as it stands is refused by a lint.
AnswererSends ==
  /\ \E r \in {AnswerFor(Asker), "no_such_sibling"}
              \cup (IF probe = "envelope" THEN {"refused"} ELSE {}) :
       SendToSibling(Answerer, Asker, r)
  /\ UNCHANGED request

ApprovalWorldStep ==
  \/ AskerAsks \/ SiblingGrants \/ OthersDeny \/ AnswererSends
  \/ \E s \in {Asker, Answerer} : EndTurn(s) /\ UNCHANGED request

-----------------------------------------------------------------------------
ApprovalConnect == Connecting("connect", "driver", "probe", "certify")

\* A cascade and a log of its own for each probe.
SharesLog ==
  /\ Goto("probe", "asks")
  /\ request' = "none"
  /\ armedFor' = "nobody"
  /\ watching' = TRUE
  /\ UNCHANGED <<log, worldVars, clientVars, failure, verdict, probe, failures, granted>>

BeginProbe ==
  /\ Goto("probe", "asks")
  /\ request' = "none"
  /\ armedFor' = "nobody"
  /\ watching' = TRUE
  /\ log' = <<>>
  /\ UNCHANGED <<worldVars, clientVars, failure, verdict, probe, failures, granted>>

\* The probe's own clients connect before its try block.
ConnectAsks == Connecting("asks", "asks", "answers", "close")
ConnectAnswers == Connecting("answers", "answers", "asker", "close")
MakeAsker == Creating("asker", "asks", Asker, "answerer", "release")
MakeAnswerer == Creating("answerer", "answers", Answerer, "prompt", "release")
PromptAsker == Sending("prompt", "asks", "request")

\* _await_permission_request: the last one in the log.
Requests == EventsOf("permission.requested")

AwaitRequest ==
  /\ Goto("request", "arm")
  /\ \E i \in Requests :
       /\ \A j \in Requests : j <= i
       /\ armedFor' = log[i].session
  /\ UNCHANGED <<worldVars, clientVars, busVars, failure, verdict, probe, request,
                 failures, granted>>

\* The probe ends with a description of what went wrong.
Fails(from, kind, to) ==
  /\ Goto(from, to)
  /\ failures' = failures \cup {kind}
  /\ UNCHANGED <<worldVars, clientVars, busVars, failure, verdict, probe, request,
                 armedFor, granted>>

NoRequest == Requests = {} /\ Fails("request", "noRequest", "release")

\* A request by which nothing can be armed.
RequestWithoutId == Requests # {} /\ Fails("request", "noId", "release")

Arm == Sending("arm", "answers", "receipt")

\* _await_receipt: save and read until a receipt of the answerer is on disk.
ReceiptRead == saved'[Answerer]

PollReceipt ==
  /\ pc = "receipt"
  /\ Saving(Answerer)
  /\ pc' = CASE ReceiptRead = "none" -> "receipt"
             [] ReceiptRead = "refused" -> "release"
             [] OTHER -> "window"
  /\ UNCHANGED failure

GiveUp == saved[Answerer] = "none" /\ Fails("receipt", "undelivered", "release")

\* The window has passed: a grant is read off the log, by the request's id.
Resolved(type) == \E i \in DOMAIN log : log[i] = [type |-> type, session |-> armedFor]

\* The resolution's `decision`, a field no resolution has.
ReadDecision == FALSE

\* Any resolution is taken for an approval.
AnyResolution == Resolved("permission.granted") \/ Resolved("permission.denied")

ReadGranted == Resolved("permission.granted")

\* A resolution may come without the flag; that is not taken for a denial.
CloseWindow ==
  /\ Goto("window", "release")
  /\ \/ failures' = IF ReadGranted THEN failures \cup {"granted"} ELSE failures
     \/ AnyResolution /\ failures' = failures \cup {"noFlag"}
  /\ granted' = IF request = "granted" THEN granted \cup {probe} ELSE granted
  /\ UNCHANGED <<worldVars, clientVars, busVars, failure, verdict, probe, request,
                 armedFor>>

ApprovalRaises == Raising({"prompt", "arm", "receipt"}, "release")

\* The answerer goes on.
ReleasesAsker == Releasing("release", <<Asker>>, "hangup", "close")
ProbeRelease == Releasing("release", <<Asker, Answerer>>, "hangup", "close")

\* The clients of the probe hang up; the next one starts unless it raised.
HangUp ==
  /\ pc = "hangup"
  /\ open' = open \ {"asks", "answers"}
  /\ watching' = FALSE
  /\ IF probe = "bare" /\ failure = "none"
       THEN pc' = "probe" /\ probe' = "envelope"
       ELSE pc' = "close" /\ UNCHANGED probe
  /\ UNCHANGED <<worldVars, attached, handles, log, failure, verdict, request,
                 armedFor, failures, granted>>

\* One of the two does not: what is left of the probe is not done.
HangUpRaises ==
  /\ pc = "hangup"
  /\ pc' = "close"
  /\ failure' = "lost"
  /\ open' \in {open, open \ {"asks"}}
  /\ watching' = FALSE
  /\ UNCHANGED <<worldVars, attached, handles, log, verdict, approvalVars>>

ApprovalClose == Disconnecting("close", {"driver"}, "certify")

ApprovalCertify ==
  /\ Goto("certify", "done")
  /\ Reporting({"C2"}, [i \in {"C2"} |-> failures = {}], {})

ApprovalDriverStep ==
  \/ BeginProbe \/ AwaitRequest \/ NoRequest \/ RequestWithoutId \/ GiveUp
  \/ CloseWindow \/ HangUp \/ HangUpRaises
  \/ /\ \/ ApprovalConnect \/ ConnectAsks \/ ConnectAnswers \/ MakeAsker
        \/ MakeAnswerer \/ PromptAsker \/ Arm \/ PollReceipt \/ ApprovalRaises
        \/ ProbeRelease \/ ApprovalClose \/ ApprovalCertify
     /\ UNCHANGED approvalVars

ApprovalEnvironment ==
  /\ ApprovalWorldStep
  /\ UNCHANGED <<pc, clientVars, failure, verdict, probe, armedFor, failures, granted>>

-----------------------------------------------------------------------------
\* A grant that came before the window closed is never passed over: neither
\* read from the wrong field nor looked for under another request's id.
GrantIsCaught == verdict["C2"] = "PASS" => granted = {}

\* The answerer is armed with the request of this probe's asker, which is
\* held on it until it is answered; a request carries no session of its own.
ArmedWithOwnRequest == pc \in {"arm", "receipt", "window"} => armedFor = Asker

\* The framework that ships is never found to grant; it fails C2 only when
\* the scenario did not come about or an event was not as declared.
RefusalIsNotBlamed ==
  framework = Shipped /\ verdict["C2"] = "FAIL" =>
    "granted" \notin failures
=============================================================================
