------------------------------- MODULE Harness -------------------------------
(***************************************************************************)
(* What the certifications share (certify/harness.py): clients attached to *)
(* one session each, siblings that take turns, the cascade bus and the log *)
(* an observer keeps of it, transcripts that reach the disk on a save, and *)
(* the release of the siblings at the end.  A claim's module extends this  *)
(* one and writes its coroutine with the driver's calls defined here, one  *)
(* action per await.                                                       *)
(***************************************************************************)
EXTENDS Naturals, Sequences, FiniteSets

CONSTANT SendBound  \* sends the siblings of a claim make at most on the bus

ASSUME HarnessAssumption == SendBound \in Nat

VARIABLES
  claim,      \* the certification under way
  framework,  \* the framework it meets: the one that ships or a reverted one
  pc,         \* the await its driver is about to make
  status,     \* status[s]: where session s is in its life
  queued,     \* sessions with a message waiting for their next turn
  called,     \* sessions that have made their call in the turn under way
  receipts,   \* receipts[s]: the last receipt in the transcript of s
  saved,      \* the same on disk
  attached,   \* attached[c]: the session client c is attached to
  open,       \* clients connected
  handles,    \* sessions the driver holds a handle of
  watching,   \* an observer is subscribed to the bus
  log,        \* its EventLog
  failure,    \* what _run raised
  verdict     \* the verdicts, by claim id

worldVars == <<status, queued, called, receipts, saved>>
busVars == <<watching, log>>
clientVars == <<attached, open, handles>>
fixedVars == <<claim, framework>>
harnessVars == <<fixedVars, pc, worldVars, clientVars, busVars, failure, verdict>>

Session == {"partner", "initiator", "asker-bare", "answerer-bare",
            "asker-envelope", "answerer-envelope", "stranger", "reviewer",
            "hostile", "reader"}
Client == {"driver", "asks", "answers"}
ClaimId == {"C1", "C2", "C3a", "C3b", "C5a", "C5b"}
Receipt == {"none", "accepted", "queued", "no_such_sibling", "refused"}
EventType == {"tool.call_start", "tool.call_end", "turn.completed",
              "permission.requested", "permission.granted", "permission.denied"}
Event == [type : EventType, session : Session]
Shipped == "shipped"

HarnessTypeOK ==
  /\ status \in [Session -> {"absent", "idle", "running", "held", "deleted"}]
  /\ queued \in SUBSET Session
  /\ called \in SUBSET Session
  /\ receipts \in [Session -> Receipt]
  /\ saved \in [Session -> Receipt]
  /\ attached \in [Client -> Session \cup {"nobody"}]
  /\ open \in SUBSET Client
  /\ handles \in SUBSET Session
  /\ watching \in BOOLEAN
  /\ log \in Seq(Event)
  /\ failure \in {"none", "unmet", "timeout", "leash", "lost"}
  /\ verdict \in [ClaimId -> {"none", "PASS", "FAIL", "BLOCKED", "raised"}]

HarnessInit ==
  /\ pc = "connect"
  /\ status = [s \in Session |-> "absent"]
  /\ queued = {}
  /\ called = {}
  /\ receipts = [s \in Session |-> "none"]
  /\ saved = [s \in Session |-> "none"]
  /\ attached = [c \in Client |-> "nobody"]
  /\ open = {}
  /\ handles = {}
  /\ watching = FALSE
  /\ log = <<>>
  /\ failure = "none"
  /\ verdict = [i \in ClaimId |-> "none"]

-----------------------------------------------------------------------------
(***************************************************************************)
(* The sessions and the bus.                                               *)
(***************************************************************************)

\* EventLog.record, by an observer that is subscribed.
Record(types, s) ==
  /\ log' = IF watching
              THEN log \o [i \in 1..Len(types) |-> [type |-> types[i], session |-> s]]
              ELSE log
  /\ UNCHANGED watching

\* Where the events of a type are in the log.
EventsOf(type) == {i \in DOMAIN log : log[i].type = type}
Sends == Cardinality(EventsOf("tool.call_start"))

\* A turn starts on s; the session is saved as it was before it.
StartTurn(s) ==
  /\ status' = [status EXCEPT ![s] = "running"]
  /\ saved' = [saved EXCEPT ![s] = receipts[s]]

\* A message for s starts a turn if it is idle and waits if it is not.
Deliver(s) ==
  \/ status[s] = "idle" /\ StartTurn(s) /\ UNCHANGED queued
  \/ /\ status[s] \in {"running", "held"}
     /\ queued' = queued \cup {s}
     /\ UNCHANGED <<status, saved>>

\* A status outside the receipt contract.
AnswersTerminated(p) ==
  IF status[p] \in {"absent", "deleted"} THEN "sibling_terminated" ELSE "accepted"

\* The statuses send_to_sibling answers with for a peer.
AnswerFor(p) ==
  CASE status[p] = "idle" -> "accepted"
    [] status[p] \in {"running", "held"} -> "queued"
    [] OTHER -> "no_such_sibling"

\* A sibling calls send_to_sibling, once in a turn as the personas ask.
SendToSibling(s, p, receipt) ==
  /\ status[s] = "running"
  /\ s \notin called
  /\ Sends < SendBound
  /\ called' = called \cup {s}
  /\ receipts' = [receipts EXCEPT ![s] = receipt]
  /\ IF receipt \in {"accepted", "queued"}
       THEN Deliver(p)
       ELSE UNCHANGED <<status, queued, saved>>
  /\ Record(<<"tool.call_start", "tool.call_end">>, s)

\* A turn ends; what was queued starts the next one.
EndTurn(s) ==
  /\ status[s] = "running"
  /\ called' = called \ {s}
  /\ queued' = queued \ {s}
  /\ IF s \in queued
       THEN StartTurn(s)
       ELSE status' = [status EXCEPT ![s] = "idle"] /\ UNCHANGED saved
  /\ Record(<<"turn.completed">>, s)
  /\ UNCHANGED receipts

\* The sessions seen taking a turn.
SessionsThatRan ==
  {log[i].session : i \in {j \in DOMAIN log : log[j].type = "turn.completed"}}

-----------------------------------------------------------------------------
(***************************************************************************)
(* The driver's calls.                                                     *)
(***************************************************************************)

Goto(from, to) == pc = from /\ pc' = to

\* new_client and connect, which raises PreconditionUnmet when it fails.
Connecting(from, c, to, otherwise) ==
  /\ \/ Goto(from, to) /\ open' = open \cup {c} /\ UNCHANGED failure
     \/ Goto(from, otherwise) /\ failure' = "unmet" /\ UNCHANGED open
  /\ UNCHANGED <<worldVars, busVars, attached, handles, verdict>>

\* The task that records the bus is created, and subscribes.
Observing(from, to) ==
  /\ Goto(from, to)
  /\ watching' = TRUE
  /\ UNCHANGED <<worldVars, clientVars, log, failure, verdict>>

\* create_sibling attaches the client to what it made, or raises: the spawn is
\* refused or not answered in time, and in that case it may be there all the
\* same, with no handle of it.
Creating(from, c, s, to, otherwise) ==
  /\ \/ /\ Goto(from, to)
        /\ status' = [status EXCEPT ![s] = "idle"]
        /\ attached' = [attached EXCEPT ![c] = s]
        /\ handles' = handles \cup {s}
        /\ UNCHANGED failure
     \/ /\ Goto(from, otherwise)
        /\ failure' = "unmet"
        /\ status' \in {status, [status EXCEPT ![s] = "idle"]}
        /\ UNCHANGED <<attached, handles>>
  /\ UNCHANGED <<queued, called, receipts, saved, open, busVars, verdict>>

\* send_message: to the session the client is attached to.
Sending(from, c, to) ==
  /\ Goto(from, to)
  /\ Deliver(attached[c])
  /\ UNCHANGED <<called, receipts, clientVars, busVars, failure, verdict>>

\* save_session, of a session that is loaded.
Saving(s) ==
  /\ saved' = IF status[s] \in {"idle", "running", "held"}
                THEN [saved EXCEPT ![s] = receipts[s]] ELSE saved
  /\ UNCHANGED <<status, queued, called, receipts, clientVars, busVars, verdict>>

\* tool_calls_from_disk: every session of the cascade, as last saved.
ReceiptsOnDisk == {saved[s] : s \in Session} \ {"none"}

\* A call of the driver raises: the connection is gone.
Raising(points, otherwise) ==
  /\ pc \in points
  /\ pc' = otherwise
  /\ failure' = "lost"
  /\ UNCHANGED <<worldVars, clientVars, busVars, verdict>>

\* Deletes what was given before the first deletion that raises, all of it if
\* none does; a handle that was never bound is skipped.
Among(order, n) == {order[i] : i \in 1..n} \cap handles

Deletions(order) == {Among(order, n) : n \in 0..Len(order)}

IsComplete(deleted, order) == deleted = Among(order, Len(order))

\* release_siblings.  A deletion that raises replaces the exception under
\* way and leaves the rest of the finally block undone.
Releasing(from, order, to, otherwise) ==
  /\ pc = from
  /\ \E deleted \in Deletions(order) :
       /\ status' = [s \in Session |-> IF s \in deleted THEN "deleted" ELSE status[s]]
       /\ IF IsComplete(deleted, order)
            THEN pc' = to /\ UNCHANGED failure
            ELSE pc' = otherwise /\ failure' = "lost"
  /\ UNCHANGED <<queued, called, receipts, saved, clientVars, busVars, verdict>>

\* observer.cancel and disconnect, which may raise.
Disconnecting(from, clients, to) ==
  /\ Goto(from, to)
  /\ watching' = FALSE
  /\ \/ open' = open \ clients /\ UNCHANGED failure
     \/ failure' = "lost" /\ UNCHANGED open
  /\ UNCHANGED <<worldVars, attached, handles, log, verdict>>

\* What certify makes of a run, by the exceptions it names; any other goes
\* through it to the suite.
Judged(held, handled) ==
  IF failure = "none" THEN (IF held THEN "PASS" ELSE "FAIL")
  ELSE IF failure = "unmet" THEN "BLOCKED"
  ELSE IF failure \in handled THEN "FAIL"
  ELSE "raised"

\* certify writes its verdicts.
Reporting(ids, held, handled) ==
  /\ verdict' = [i \in ClaimId |->
                   IF i \in ids THEN Judged(held[i], handled) ELSE verdict[i]]
  /\ UNCHANGED <<worldVars, clientVars, busVars, failure>>

Loaded == {s \in Session : status[s] \in {"idle", "running", "held"}}
=============================================================================
