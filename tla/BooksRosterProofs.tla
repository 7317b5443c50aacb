------------------------- MODULE BooksRosterProofs -------------------------
(***************************************************************************)
(* What the verdicts of C3 and C5 say, for every limit of the counter and  *)
(* every bound on the siblings' sends, and what each of the four claims    *)
(* leaves behind when it returns.                                          *)
(***************************************************************************)
EXTENDS LoopApprovalProofs

-----------------------------------------------------------------------------
(***************************************************************************)
(* C3: at the limit turns have been paid for, so that a pool that was      *)
(* charged for them cannot be found untouched.                             *)
(***************************************************************************)


BeforeVolley == {"connect", "budget", "observe", "partner", "initiator", "opening", "kickoff"}

\* What the driver of the claim has made, and nothing else, is there, unless a
\* creation was not answered, and then nobody is at work; before the volley
\* nothing has happened, and without an observer nothing happens.
BooksPlaces ==
  /\ handles \subseteq Pair /\ open \subseteq {"driver"}
  /\ failure # "unmet" /\ pc \notin {"certify", "done"} =>
       \A s \in Session : status[s] = "absent" \/ s \in handles
  /\ failure = "unmet" => \A s \in Session : status[s] # "running"
  /\ \A s \in Session : status[s] # "held"
  /\ pc \in {"connect", "budget", "observe", "partner"} => handles = {}
  /\ pc \in {"opening", "kickoff", "tripped", "stop", "closing"} => "initiator" \in handles
  /\ pc = "connect" => open = {}
  /\ pc \in {"connect", "budget", "observe"} => ~watching
  /\ pc \in {"partner", "initiator", "opening", "kickoff", "tripped", "stop", "closing"} => watching
  /\ pc \in BeforeVolley => log = <<>> /\ called = {} /\ pool = 0
  /\ pc \in BeforeVolley \/ ~watching => \A s \in Session : status[s] # "running"
  /\ pc = "disconnect" => \A s \in handles : status[s] \notin InMemory

BooksFail ==
  /\ failure \in {"none", "unmet", "timeout", "lost"}
  /\ pc \in BeforeVolley \cup {"tripped", "stop", "closing"} => failure = "none"

BooksEnd ==
  pc \in {"certify", "done"} /\ failure # "lost" =>
    /\ open = {} /\ ~watching /\ \A s \in handles : status[s] \notin InMemory
    /\ failure # "unmet" => \A s \in Session : status[s] \notin InMemory

\* Each sibling sends once in a turn: while no turn is over there are no more
\* sends than siblings that have sent.
SendsAreCounted ==
  called \subseteq Pair /\ (Spent = 0 => Sends <= Cardinality(called))

\* Past the counter, turns have been paid for.
VolleyIsOver ==
  pc \in {"stop", "closing"}
    \/ (failure = "none" /\ pc \in {"release", "disconnect", "certify", "done"}) =>
    Spent > 0 /\ Sends >= ExchangeLimit

\* A pot that the siblings draw on shows it as soon as a turn is over.
Bookkeeping ==
  /\ framework # SharedPot => pool = 0 /\ closing \in {0, Unread}
  /\ framework = SharedPot => (Spent > 0 => pool > 0) /\ closing # 0
  /\ opening \in {0, Unread}

BooksVerdicts ==
  /\ pc # "done" => \A i \in {"C3a", "C3b"} : verdict[i] = "none"
  /\ verdict["C3a"] = "PASS" => Spent > 0 /\ framework # SharedPot
  /\ BooksAreNotBlamed

BooksInv ==
  /\ BooksPlaces /\ BooksFail /\ BooksEnd /\ SendsAreCounted /\ VolleyIsOver
  /\ Bookkeeping /\ BooksVerdicts

-----------------------------------------------------------------------------
\* The turns and the sends on the bus.
LEMMA BooksAreNumbers ==
  ASSUME HarnessTypeOK
  PROVE  Spent \in Nat /\ Sends \in Nat
  BY EventsAreCounted DEF Spent, Sends

LEMMA BusIsStill ==
  ASSUME UNCHANGED log
  PROVE  Spent' = Spent /\ Sends' = Sends
  BY DEF Spent, Sends, EventsOf

\* Two siblings have made two calls at most, fewer than trip the counter.
LEMMA TwoAreCalled ==
  ASSUME called \subseteq Pair
  PROVE  IsFiniteSet(called) /\ Cardinality(called) \in Nat /\ Cardinality(called) <= 2
  <1>1. IsFiniteSet({}) /\ Cardinality({}) = 0
    BY FS_EmptySet
  <1>2. IsFiniteSet({"partner"}) /\ Cardinality({"partner"}) = 1
    BY FS_Singleton
  <1>3. /\ IsFiniteSet({"partner"} \cup {"initiator"})
        /\ Cardinality({"partner"} \cup {"initiator"}) = 2
    <2>1. Cardinality({"partner"} \cup {"initiator"}) = Cardinality({"partner"}) + 1
      BY <1>2, FS_AddElement
    <2> QED
      BY <1>2, <2>1, FS_AddElement
  <1>4. called \subseteq {"partner"} \cup {"initiator"}
    BY DEF Pair
  <1>5. /\ IsFiniteSet(called)
        /\ Cardinality(called) <= Cardinality({"partner"} \cup {"initiator"})
    BY <1>3, <1>4, FS_Subset
  <1> QED
    BY <1>3, <1>5, FS_CardinalityType

\* A send of a sibling that had not sent in its turn.
LEMMA VolleyCounts ==
  ASSUME HarnessTypeOK, NEW s \in Pair, NEW p \in Session, NEW r,
         SendToSibling(s, p, r), called \subseteq Pair
  PROVE  /\ Spent' = Spent /\ Sends' \in Nat /\ Sends' <= Sends + 1 /\ Sends' >= Sends
         /\ called' \subseteq Pair /\ Cardinality(called') = Cardinality(called) + 1
  <1>1. s \in Session /\ Record(<<"tool.call_start", "tool.call_end">>, s)
    BY DEF SendToSibling, Pair, Session
  <1>2. Sends' \in Nat /\ Sends' <= Sends + 1 /\ Sends' >= Sends
    BY <1>1, OneIsCounted DEF Sends, EventType
  <1>3. Spent' = Spent
    <2> DEFINE types == <<"tool.call_start", "tool.call_end">>
    <2>1. \A i \in DOMAIN types : types[i] # "turn.completed"
      OBVIOUS
    <2>2. types \in Seq(EventType)
      BY DEF EventType
    <2> HIDE DEF types
    <2>3. Record(types, s)
      BY <1>1 DEF types
    <2> QED
      BY <1>1, <2>1, <2>2, <2>3, OthersAreNotCounted DEF Spent
  <1>4. called' = called \cup {s} /\ s \notin called
    BY DEF SendToSibling
  <1>5. Cardinality(called \cup {s}) = Cardinality(called) + 1
    BY <1>4, TwoAreCalled, FS_AddElement
  <1> QED
    BY <1>2, <1>3, <1>4, <1>5

\* A turn that is over is on the bus.
LEMMA TurnCounts ==
  ASSUME HarnessTypeOK, NEW s \in Session, EndTurn(s), watching
  PROVE  Spent' \in Nat /\ Spent' > 0 /\ Sends' = Sends
  <1>1. Record(<<"turn.completed">>, s) /\ "turn.completed" \in EventType
    BY DEF EndTurn, EventType
  <1>2. /\ Len(log) + 1 \in DOMAIN log'
        /\ log'[Len(log) + 1] = [type |-> "turn.completed", session |-> s]
    BY <1>1, EventIsRecorded
  <1>3. Len(log) + 1 \in EventsOf("turn.completed")'
    BY <1>2 DEF EventsOf
  <1>4. log' \in Seq(Event)
    <2>1. <<"turn.completed">> \in Seq(EventType)
      BY DEF EventType
    <2> QED
      BY <1>1, <2>1, RecordKeepsType
  <1>5. IsFiniteSet(EventsOf("turn.completed")')
    <2>1. Len(log') \in Nat /\ EventsOf("turn.completed")' \subseteq 1..Len(log')
      BY <1>4 DEF EventsOf
    <2>2. IsFiniteSet(1..Len(log'))
      BY <2>1, FS_Interval
    <2> QED
      BY <2>1, <2>2, FS_Subset
  <1>6. Spent' \in Nat /\ Spent' # 0
    BY <1>3, <1>5, FS_CardinalityType, FS_EmptySet DEF Spent
  <1>7. Sends' = Sends
    <2> DEFINE types == <<"turn.completed">>
    <2>1. \A i \in DOMAIN types : types[i] # "tool.call_start"
      OBVIOUS
    <2>2. types \in Seq(EventType)
      BY DEF EventType
    <2> HIDE DEF types
    <2>3. Record(types, s)
      BY <1>1 DEF types
    <2> QED
      BY <2>1, <2>2, <2>3, OthersAreNotCounted DEF Sends
  <1> QED
    BY <1>6, <1>7

-----------------------------------------------------------------------------
\* A step of the driver that leaves the bus, the pool and who has sent alone.
LEMMA BooksStill ==
  ASSUME BooksInv, UNCHANGED <<framework, log, called, pool, verdict>>,
         opening' \in {0, Unread}, closing' = closing
  PROVE  /\ Spent' = Spent /\ Sends' = Sends
         /\ SendsAreCounted' /\ Bookkeeping'
         /\ pc # "done" \/ (pc' = "done" /\ UNCHANGED <<failure, opening>>) => BooksVerdicts'
  <1>1. Spent' = Spent /\ Sends' = Sends
    BY BusIsStill
  <1> QED
    BY <1>1 DEF BooksInv, SendsAreCounted, Bookkeeping, BooksVerdicts, BooksAreNotBlamed,
                BothRead, Shipped, SharedPot

\* The stop is sent to the initiator: it ends the turn under way there.
LEMMA StopKeeps ==
  ASSUME HarnessTypeOK, BooksAttached, BooksInv, UNCHANGED framework, Stop
  PROVE  BooksInv'
  <1>1. /\ pc = "stop" /\ pc' = "closing"
        /\ UNCHANGED <<clientVars, busVars, failure, verdict, pool, opening, closing>>
    BY DEF Stop, Goto
  <1>2. attached["driver"] = "initiator"
    BY <1>1 DEF BooksAttached
  <1>3. /\ \A s \in Session \ {"initiator"} : status'[s] = status[s]
        /\ \/ status'["initiator"] = status["initiator"]
           \/ status'["initiator"] \in {"idle", "running"}
        /\ called' \subseteq called
    BY <1>2 DEF Stop, StartTurn, HarnessTypeOK, worldVars
  <1>4. Spent' = Spent /\ Sends' = Sends /\ Spent > 0
    BY <1>1, BusIsStill DEF busVars, BooksInv, VolleyIsOver
  <1>5. BooksPlaces'
    BY <1>1, <1>3 DEF BooksInv, BooksPlaces, BooksFail, VolleyIsOver, BeforeVolley, clientVars, busVars
  <1>6. SendsAreCounted' /\ VolleyIsOver' /\ Bookkeeping'
    BY <1>1, <1>3, <1>4 DEF BooksInv, SendsAreCounted, VolleyIsOver, Bookkeeping
  <1>7. BooksFail' /\ BooksEnd' /\ BooksVerdicts'
    BY <1>1, <1>4 DEF BooksInv, BooksFail, BooksEnd, BooksVerdicts, BooksAreNotBlamed, BothRead
  <1> QED
    BY <1>5, <1>6, <1>7 DEF BooksInv

\* The driver's other calls.
LEMMA BooksDriverKeeps ==
  ASSUME HarnessTypeOK, BooksTypeOK, BooksAttached, BooksInv, UNCHANGED framework,
         BooksDriverStep
  PROVE  BooksInv'
  <1> USE DEF BeforeVolley
  <1>0. pc \in BeforeVolley => pool = 0 /\ opening \in {0, Unread}
    BY DEF BooksInv, BooksPlaces, Bookkeeping
  <1>1. CASE OpenPool
    <2>1. /\ pc = "opening" /\ pc' = "kickoff" /\ opening' \in {0, Unread}
          /\ UNCHANGED <<worldVars, clientVars, busVars, failure, verdict, pool, closing>>
      BY <1>0, <1>1 DEF OpenPool, Snapshot, Goto
    <2>2. Spent' = Spent /\ Sends' = Sends /\ SendsAreCounted' /\ Bookkeeping' /\ BooksVerdicts'
      BY <2>1, BooksStill DEF worldVars, busVars
    <2> QED
      BY <2>1, <2>2 DEF BooksInv, BooksPlaces, BooksFail, BooksEnd, VolleyIsOver,
                        worldVars, clientVars, busVars
  <1>2. CASE Stop
    BY <1>2, StopKeeps
  <1>3. CASE ClosePool
    <2>1. /\ pc = "closing" /\ pc' = "release" /\ closing' \in {pool, Unread}
          /\ UNCHANGED <<worldVars, clientVars, busVars, failure, verdict, pool, opening>>
      BY <1>3 DEF ClosePool, ReadClosing, Goto
    <2>2. Spent' = Spent /\ Sends' = Sends /\ Spent > 0
      BY <2>1, BusIsStill DEF busVars, BooksInv, VolleyIsOver
    <2>3. SendsAreCounted' /\ VolleyIsOver' /\ Bookkeeping'
      BY <2>1, <2>2, BooksAreNumbers
         DEF BooksInv, SendsAreCounted, VolleyIsOver, Bookkeeping, worldVars, Unread, BooksTypeOK
    <2>4. BooksVerdicts'
      BY <2>1 DEF BooksInv, BooksVerdicts, BooksAreNotBlamed
    <2> QED
      BY <2>1, <2>3, <2>4 DEF BooksInv, BooksPlaces, BooksFail, BooksEnd,
                              worldVars, clientVars, busVars
  <1>4. CASE BooksConnect /\ UNCHANGED booksVars
    <2>1. /\ pc = "connect"
          /\ \/ pc' = "budget" /\ open' = open \cup {"driver"} /\ UNCHANGED failure
             \/ pc' = "certify" /\ failure' = "unmet" /\ UNCHANGED open
          /\ UNCHANGED <<worldVars, busVars, attached, handles, verdict, pool, opening, closing>>
      BY <1>4 DEF BooksConnect, Connecting, Goto, booksVars
    <2>2. Spent' = Spent /\ Sends' = Sends /\ SendsAreCounted' /\ Bookkeeping' /\ BooksVerdicts'
      BY <1>0, <2>1, BooksStill DEF worldVars, busVars
    <2>3. BooksPlaces' /\ BooksEnd'
      BY <2>1 DEF BooksInv, BooksPlaces, BooksEnd, InMemory, worldVars, busVars
    <2> QED
      BY <2>1, <2>2, <2>3 DEF BooksInv, BooksFail, VolleyIsOver
  <1>5. CASE SetBudget /\ UNCHANGED booksVars
    <2>1. /\ pc = "budget" /\ pc' = "observe"
          /\ UNCHANGED <<worldVars, clientVars, busVars, failure, verdict, pool, opening, closing>>
      BY <1>5 DEF SetBudget, Goto, booksVars
    <2>2. Spent' = Spent /\ Sends' = Sends /\ SendsAreCounted' /\ Bookkeeping' /\ BooksVerdicts'
      BY <1>0, <2>1, BooksStill DEF worldVars, busVars
    <2> QED
      BY <2>1, <2>2 DEF BooksInv, BooksPlaces, BooksFail, BooksEnd, VolleyIsOver,
                        worldVars, clientVars, busVars
  <1>6. CASE BooksObserve /\ UNCHANGED booksVars
    <2>1. /\ pc = "observe" /\ pc' = "partner" /\ watching' = TRUE
          /\ UNCHANGED <<worldVars, clientVars, log, failure, verdict, pool, opening, closing>>
      BY <1>6 DEF BooksObserve, Observing, Goto, booksVars
    <2>2. Spent' = Spent /\ Sends' = Sends /\ SendsAreCounted' /\ Bookkeeping' /\ BooksVerdicts'
      BY <1>0, <2>1, BooksStill DEF worldVars
    <2> QED
      BY <2>1, <2>2 DEF BooksInv, BooksPlaces, BooksFail, BooksEnd, VolleyIsOver,
                        worldVars, clientVars
  <1>7. CASE (BooksPartner \/ BooksInitiator) /\ UNCHANGED booksVars
    <2>1. PICK s \in Pair, to \in {"initiator", "opening"} :
            /\ to = (IF s = "partner" THEN "initiator" ELSE "opening")
            /\ Creating(s, "driver", s, to, "release")
      BY <1>7 DEF BooksPartner, BooksInitiator, Pair
    <2>2. s \in Session /\ "driver" \in Client /\ Creating(s, "driver", s, to, "release")
      BY <2>1 DEF Pair, Client, Session
    <2>3. /\ pc = s
          /\ \A x \in Session \ {s} : status'[x] = status[x]
          /\ \/ /\ pc' = to /\ status'[s] = "idle" /\ attached'["driver"] = s
                /\ handles' = handles \cup {s} /\ UNCHANGED failure
             \/ /\ pc' = "release" /\ failure' = "unmet" /\ status'[s] \in {status[s], "idle"}
                /\ UNCHANGED <<attached, handles>>
          /\ UNCHANGED <<queued, called, receipts, saved, open, busVars, verdict>>
      BY <2>2, CreatingMakes
    <2>4. pc \in {"partner", "initiator"} /\ UNCHANGED <<log, watching, pool, opening, closing>>
      BY <1>7, <2>3 DEF Pair, booksVars, busVars
    <2>5. Spent' = Spent /\ Sends' = Sends /\ SendsAreCounted' /\ Bookkeeping' /\ BooksVerdicts'
      BY <1>0, <2>3, <2>4, BooksStill
    <2>6. BooksPlaces'
      BY <2>1, <2>2, <2>3, <2>4 DEF BooksInv, BooksPlaces, Pair
    <2> QED
      BY <2>1, <2>3, <2>4, <2>5, <2>6 DEF BooksInv, BooksFail, BooksEnd, VolleyIsOver
  <1>8. CASE Volleys /\ UNCHANGED booksVars
    <2>1. /\ pc = "kickoff" /\ pc' = "tripped" /\ Deliver("initiator")
          /\ UNCHANGED <<called, receipts, clientVars, busVars, failure, verdict,
                         pool, opening, closing>>
      BY <1>8 DEF Volleys, Sending, Goto, BooksAttached, booksVars
    <2>2. /\ \A x \in Session \ {"initiator"} : status'[x] = status[x]
          /\ status'["initiator"] # "held"
      BY <2>1, DeliverMoves DEF Session, BooksInv, BooksPlaces
    <2>3. Spent' = Spent /\ Sends' = Sends /\ SendsAreCounted' /\ Bookkeeping' /\ BooksVerdicts'
      BY <1>0, <2>1, BooksStill DEF busVars
    <2>4. BooksPlaces'
      BY <2>1, <2>2 DEF BooksInv, BooksPlaces, BooksFail, clientVars, busVars
    <2> QED
      BY <2>1, <2>3, <2>4 DEF BooksInv, BooksFail, BooksEnd, VolleyIsOver
  <1>9. CASE (AwaitTripped \/ VolleyTimesOut) /\ UNCHANGED booksVars
    <2>1. /\ pc = "tripped"
          /\ \/ pc' = "stop" /\ Tripped /\ UNCHANGED failure
             \/ pc' = "release" /\ failure' = "timeout"
          /\ UNCHANGED <<worldVars, clientVars, busVars, verdict, pool, opening, closing>>
      BY <1>9 DEF AwaitTripped, VolleyTimesOut, Goto, booksVars
    <2>2. Spent' = Spent /\ Sends' = Sends /\ SendsAreCounted' /\ Bookkeeping' /\ BooksVerdicts'
      BY <2>1, BooksStill DEF worldVars, busVars, BooksInv, Bookkeeping
    <2>3. VolleyIsOver'
      <3>1. Tripped => Spent > 0 /\ Sends >= ExchangeLimit
        BY BooksAreNumbers, TwoAreCalled, OwnBooksAssumption
           DEF Tripped, BooksInv, SendsAreCounted
      <3> QED
        BY <2>1, <2>2, <3>1 DEF VolleyIsOver
    <2> QED
      BY <2>1, <2>2, <2>3 DEF BooksInv, BooksPlaces, BooksFail, BooksEnd,
                              worldVars, clientVars, busVars
  <1>10. CASE (BooksRaises \/ BudgetRaises) /\ UNCHANGED booksVars
    <2>1. /\ pc \in {"opening", "kickoff", "stop", "closing", "budget"}
          /\ pc' \in {"release", "certify"} /\ failure' = "lost"
          /\ UNCHANGED <<worldVars, clientVars, busVars, verdict, pool, opening, closing>>
      BY <1>10 DEF BooksRaises, BudgetRaises, Raising, booksVars
    <2>2. Spent' = Spent /\ Sends' = Sends /\ SendsAreCounted' /\ Bookkeeping' /\ BooksVerdicts'
      BY <2>1, BooksStill DEF worldVars, busVars, BooksInv, Bookkeeping
    <2> QED
      BY <2>1, <2>2 DEF BooksInv, BooksPlaces, BooksFail, BooksEnd, VolleyIsOver,
                        worldVars, clientVars, busVars
  <1>11. CASE BooksRelease /\ UNCHANGED booksVars
    <2>1. "partner" \in Session /\ "initiator" \in Session
      BY DEF Session
    <2>2. /\ pc = "release"
          /\ \A s \in Session : status'[s] = status[s] \/ (s \in handles /\ status'[s] = "deleted")
          /\ \/ /\ pc' = "disconnect" /\ UNCHANGED failure
                /\ \A s \in Pair : s \in handles => status'[s] = "deleted"
             \/ pc' = "certify" /\ failure' = "lost"
          /\ UNCHANGED <<queued, called, receipts, saved, clientVars, busVars, verdict>>
      BY <1>11, <2>1, ReleasingPair DEF BooksRelease, Pair
    <2>3. Spent' = Spent /\ Sends' = Sends /\ SendsAreCounted' /\ Bookkeeping' /\ BooksVerdicts'
      BY <1>11, <2>2, BooksStill DEF booksVars, busVars, BooksInv, Bookkeeping
    <2>4. BooksPlaces'
      BY <2>2 DEF BooksInv, BooksPlaces, Pair, InMemory, clientVars, busVars
    <2> QED
      BY <2>2, <2>3, <2>4 DEF BooksInv, BooksFail, BooksEnd, VolleyIsOver
  <1>12. CASE BooksDisconnect /\ UNCHANGED booksVars
    <2>1. /\ pc = "disconnect" /\ pc' = "certify" /\ watching' = FALSE
          /\ \/ open' = open \ {"driver"} /\ UNCHANGED failure
             \/ open' = open /\ failure' = "lost"
          /\ UNCHANGED <<worldVars, attached, handles, log, verdict, pool, opening, closing>>
      BY <1>12 DEF BooksDisconnect, Disconnecting, Goto, booksVars
    <2>2. Spent' = Spent /\ Sends' = Sends /\ SendsAreCounted' /\ Bookkeeping' /\ BooksVerdicts'
      BY <2>1, BooksStill DEF worldVars, BooksInv, Bookkeeping
    <2> QED
      BY <2>1, <2>2 DEF BooksInv, BooksPlaces, BooksFail, BooksEnd, VolleyIsOver, InMemory,
                        worldVars
  <1>13. CASE BooksCertify /\ UNCHANGED booksVars
    <2> DEFINE held == [i \in {"C3a", "C3b"} |-> IF i = "C3a" THEN HoleIsOpen ELSE CounterReached]
    <2>1. /\ pc = "certify" /\ pc' = "done"
          /\ UNCHANGED <<worldVars, clientVars, busVars, failure, pool, opening, closing>>
      BY <1>13 DEF BooksCertify, Goto, Reporting, booksVars
    <2>2. \A i \in {"C3a", "C3b"} :
            /\ verdict'[i] = "PASS" => failure = "none" /\ held[i]
            /\ verdict'[i] = "FAIL" => (failure = "none" /\ ~held[i]) \/ failure \in {"timeout"}
      <3>1. Reporting({"C3a", "C3b"}, held, {"timeout"})
        BY <1>13 DEF BooksCertify
      <3>2. {"C3a", "C3b"} \subseteq ClaimId
        BY DEF ClaimId
      <3> HIDE DEF held
      <3> QED
        BY <3>1, <3>2, ReportingJudges
    <2>3. held["C3a"] = HoleIsOpen /\ held["C3b"] = CounterReached
      OBVIOUS
    <2> HIDE DEF held
    <2>4. Spent' = Spent /\ Sends' = Sends
      BY <2>1, BusIsStill DEF busVars
    <2>5. BooksVerdicts'
      <3>1. verdict'["C3a"] = "PASS" => Spent > 0 /\ framework # SharedPot
        BY <2>2, <2>3 DEF HoleIsOpen, BothRead, BooksInv, Bookkeeping
      <3>2. ASSUME framework = Shipped, verdict'["C3a"] = "FAIL" \/ verdict'["C3b"] = "FAIL"
            PROVE  failure = "timeout" \/ ~BothRead
        BY <2>1, <2>2, <2>3, <3>2
           DEF HoleIsOpen, CounterReached, BothRead, BooksInv, Bookkeeping, VolleyIsOver,
               Shipped, SharedPot
      <3> QED
        BY <2>1, <2>4, <3>1, <3>2 DEF BooksVerdicts, BooksAreNotBlamed, BothRead
    <2> QED
      BY <2>1, <2>4, <2>5 DEF BooksInv, BooksPlaces, BooksFail, BooksEnd, SendsAreCounted,
                              VolleyIsOver, Bookkeeping, worldVars, clientVars, busVars
  <1> QED
    BY <1>1, <1>2, <1>3, <1>4, <1>5, <1>6, <1>7, <1>8, <1>9, <1>10, <1>11, <1>12, <1>13
       DEF BooksDriverStep

\* The siblings: a send makes one more to count, the end of a turn a turn that
\* is paid for.
LEMMA BooksWorldKeeps ==
  ASSUME HarnessTypeOK, BooksTypeOK, BooksInv, UNCHANGED framework, BooksEnvironment
  PROVE  BooksInv'
  <1>1. PICK s \in Pair : Volley(s) \/ Charged(s)
    BY DEF BooksEnvironment, BooksWorldStep, Pair
  <1>2. /\ UNCHANGED <<pc, clientVars, failure, verdict, opening, closing, stopped>>
        /\ s \in Session /\ Opponent(s) \in Session
    BY DEF BooksEnvironment, Opponent, Pair, Session
  <1>3. /\ status[s] = "running"
        /\ \A x \in Session : \/ status'[x] = status[x]
                              \/ status[x] # "absent" /\ status[x] # "deleted"
                                 /\ status'[x] \in {"idle", "running"}
    <2>1. CASE Volley(s)
      BY <1>2, <2>1, SendMoves DEF Volley
    <2>2. CASE Charged(s)
      BY <1>2, <2>2, EndMoves DEF Charged
    <2> QED
      BY <1>1, <2>1, <2>2
  <1>4. pc \notin BeforeVolley /\ watching /\ watching' = watching
    BY <1>1, <1>2, <1>3
       DEF BooksInv, BooksPlaces, Volley, Charged, SendToSibling, EndTurn, Record
  <1>5. BooksPlaces' /\ BooksFail' /\ BooksEnd'
    BY <1>2, <1>3, <1>4 DEF BooksInv, BooksPlaces, BooksFail, BooksEnd, InMemory, clientVars
  <1>6. /\ SendsAreCounted' /\ Spent' \in Nat /\ Sends' \in Nat
        /\ (Spent > 0 => Spent' > 0) /\ Sends' >= Sends
        /\ \/ Spent' = Spent /\ pool' = pool
           \/ Spent' > 0 /\ pool' = (IF framework = SharedPot THEN pool + 1 ELSE pool)
    <2>1. CASE Volley(s)
      <3>1. SendToSibling(s, Opponent(s), AnswerFor(Opponent(s))) /\ pool' = pool
        BY <2>1 DEF Volley
      <3>2. /\ Spent' = Spent /\ Sends' \in Nat /\ Sends' <= Sends + 1 /\ Sends' >= Sends
            /\ called' \subseteq Pair /\ Cardinality(called') = Cardinality(called) + 1
        <4> DEFINE r == AnswerFor(Opponent(s))
        <4>1. SendToSibling(s, Opponent(s), r)
          BY <3>1
        <4>2. called \subseteq Pair
          BY DEF BooksInv, SendsAreCounted
        <4> HIDE DEF r
        <4> QED
          BY <1>2, <4>1, <4>2, VolleyCounts
      <3> QED
        BY <3>1, <3>2, BooksAreNumbers, TwoAreCalled DEF BooksInv, SendsAreCounted
    <2>2. CASE Charged(s)
      <3>1. EndTurn(s) /\ pool' = (IF framework = SharedPot THEN pool + 1 ELSE pool)
        BY <2>2 DEF Charged
      <3>2. Spent' \in Nat /\ Spent' > 0 /\ Sends' = Sends
        BY <1>2, <1>4, <3>1, TurnCounts
      <3>3. called' \subseteq called
        BY <3>1 DEF EndTurn
      <3> QED
        BY <3>1, <3>2, <3>3, BooksAreNumbers DEF BooksInv, SendsAreCounted
    <2> QED
      BY <1>1, <2>1, <2>2
  <1>7. VolleyIsOver'
    BY <1>2, <1>6, BooksAreNumbers, OwnBooksAssumption DEF BooksInv, VolleyIsOver
  <1>8. Bookkeeping'
    BY <1>2, <1>6 DEF BooksInv, Bookkeeping, BooksTypeOK
  <1>9. BooksVerdicts'
    BY <1>2, <1>6 DEF BooksInv, BooksVerdicts, BooksAreNotBlamed, BothRead
  <1> QED
    BY <1>5, <1>6, <1>7, <1>8, <1>9 DEF BooksInv

-----------------------------------------------------------------------------
IsBooks == claim = "C3" => BooksInv

LEMMA BooksInvInit == Init => IsBooks
  <1> SUFFICES ASSUME Init PROVE BooksInv
    BY DEF IsBooks
  <1>1. log = <<>> /\ called = {} /\ pool = 0
    BY DEF Init, HarnessInit, BooksInit
  <1>2. Spent = 0 /\ Sends = 0 /\ Cardinality(called) = 0
    <2>1. EventsOf("turn.completed") = {} /\ EventsOf("tool.call_start") = {}
      BY <1>1 DEF EventsOf
    <2> QED
      BY <1>1, <2>1, FS_EmptySet DEF Spent, Sends
  <1> QED
    BY <1>1, <1>2
       DEF Init, HarnessInit, BooksInit, BooksInv, BooksPlaces, BooksFail, BooksEnd,
           SendsAreCounted, VolleyIsOver, Bookkeeping, BooksVerdicts, BooksAreNotBlamed,
           BeforeVolley, ClaimId, Unread

LEMMA BooksInvStep == TypeInv /\ IsBooks /\ [Next]_vars => IsBooks'
  <1> SUFFICES ASSUME TypeInv, IsBooks, [Next]_vars, claim' = "C3"
               PROVE  BooksInv'
    BY DEF IsBooks
  <1>1. claim = "C3" /\ UNCHANGED framework
    BY OneClaimSteps DEF fixedVars
  <1>2. HarnessTypeOK /\ BooksTypeOK /\ BooksAttached /\ BooksInv
    BY <1>1 DEF TypeInv, TypeOK, IsBooks
  <1>3. CASE BooksDriverStep \/ BooksEnvironment
    BY <1>1, <1>2, <1>3, BooksDriverKeeps, BooksWorldKeeps
  <1>4. CASE UNCHANGED vars
    <2>1. UNCHANGED <<framework, pc, worldVars, clientVars, busVars, failure, verdict, booksVars>>
      BY <1>4 DEF vars, harnessVars, fixedVars
    <2>2. Spent' = Spent /\ Sends' = Sends
      BY <2>1, BusIsStill DEF busVars
    <2> QED
      BY <1>2, <2>1, <2>2
         DEF worldVars, clientVars, busVars, booksVars, BooksInv, BooksPlaces, BooksFail,
             BooksEnd, SendsAreCounted, VolleyIsOver, Bookkeeping, BooksVerdicts,
             BooksAreNotBlamed, BothRead
  <1> QED
    BY <1>1, <1>3, <1>4, OneClaimSteps

LEMMA BooksKnown == Spec => [](TypeInv /\ OwnVerdicts /\ IsBooks)
  BY OwnVerdictsHold, BooksInvInit, BooksInvStep, PTL DEF Spec

\* A PASS of C3a is never given to a pot the siblings draw on: the volley has
\* cost turns, and a pot that pays for them shows it.
THEOREM HoleWitnessed == Spec => []HoleIsWitnessed
  <1>1. TypeInv /\ OwnVerdicts /\ IsBooks => HoleIsWitnessed
    <2> SUFFICES ASSUME TypeInv, OwnVerdicts, IsBooks, verdict["C3a"] = "PASS"
                 PROVE  HoleIsWitnessed
      BY DEF HoleIsWitnessed
    <2>1. claim = "C3"
      BY DEF TypeInv, TypeOK, OwnVerdicts, OwnIds, ClaimId
    <2> QED
      BY <2>1 DEF IsBooks, BooksInv, BooksVerdicts, Bookkeeping, HoleIsWitnessed
  <1> QED
    BY <1>1, BooksKnown, PTL

\* The framework that ships fails C3 only by a volley that stayed short or a
\* snapshot that was not answered.
THEOREM BooksNotBlamed == Spec => []BooksAreNotBlamed
  <1>1. TypeInv /\ OwnVerdicts /\ IsBooks => BooksAreNotBlamed
    <2> SUFFICES ASSUME TypeInv, OwnVerdicts, IsBooks,
                        verdict["C3a"] = "FAIL" \/ verdict["C3b"] = "FAIL"
                 PROVE  BooksAreNotBlamed
      BY DEF BooksAreNotBlamed
    <2>1. claim = "C3"
      BY DEF TypeInv, TypeOK, OwnVerdicts, OwnIds, ClaimId
    <2> QED
      BY <2>1 DEF IsBooks, BooksInv, BooksVerdicts
  <1> QED
    BY <1>1, BooksKnown, PTL

-----------------------------------------------------------------------------
(***************************************************************************)
(* C5: a verdict of either half says what it should of the framework       *)
(* that is run, whatever the siblings do and whichever call of the driver  *)
(* raises.                                                                 *)
(***************************************************************************)


NameHalf == {"connect", "name", "taken", "collision", "nameDisconnect", "certifyName"}
Cast == {"hostile", "reader"}
Names == {"stranger", "reviewer"}

\* What the driver of the claim has made, and nothing else, is there, unless a
\* creation in the second half was not answered.
RosterPlaces ==
  /\ handles \subseteq Cast /\ open \subseteq {"driver"}
  /\ failure = "none" \/ pc \in NameHalf =>
       \A s \in Session :
         status[s] = "absent" \/ s \in handles \/ (s \in Names /\ status[s] = "idle")
  /\ pc \in NameHalf \cup {"rosterConnect", "clear", "observe"} => handles = {} /\ ~watching
  /\ pc \in {"connect", "certifyName", "rosterConnect"} /\ failure # "lost" => open = {}
  /\ pc = "disconnect" => \A s \in handles : status[s] \notin InMemory

\* What the driver has been through when it reports.
RosterFails ==
  /\ failure \in {"none", "unmet", "lost"}
  /\ pc \in (NameHalf \ {"certifyName"})
            \cup {"rosterConnect", "clear", "observe", "hostile", "begin", "ran", "reader", "ask",
                  "listed", "fetch"} => failure = "none"
  /\ pc # "done" => verdict["C5b"] = "none"
  /\ verdict["C5b"] \in {"PASS", "FAIL"} => failure = "none"

RosterEnds ==
  pc \in {"certify", "done"} /\ failure # "lost" =>
    /\ open = {} /\ ~watching /\ \A s \in handles : status[s] \notin InMemory
    /\ failure = "none" => \A s \in Cast : status[s] \notin InMemory

\* A name that was held against the framework's reversion was held by a call
\* that raised.
HeldByAccident ==
  /\ pc \in {"taken", "collision"} => nameHeld
  /\ nameHeld =>
       /\ framework \in {AcceptsNames, RefusesMutely} => dropped
       /\ framework = Collides => dropped \/ pc \in {"taken", "collision"}

FlagOf(part) ==
  IF framework = NoTrait THEN part.flag # "marked" ELSE part.flag \in {"marked", "none"}

\* What is in the history and what was fetched of it are what was listed.
RosterIsTrue ==
  /\ FlagOf(roster) /\ FlagOf(parts)
  /\ parts.flag # "none" => roster.flag # "none"
  /\ roster.authored \/ parts.authored => described

\* A breach of an earlier run is gone once the driver has cleared it.
BreachIsFresh ==
  breach = "earlier" =>
    \/ pc \in NameHalf \cup {"rosterConnect", "clear"}
    \/ pc \in {"certify", "done"} /\ failure # "none"

RosterVerdicts ==
  NameReversionsAreCaught /\ ReaderNeverObeysAfterPass /\ StaleBreachIsNotBlamed

RosterInv ==
  /\ RosterPlaces /\ RosterFails /\ RosterEnds /\ HeldByAccident /\ RosterIsTrue
  /\ BreachIsFresh /\ RosterVerdicts

-----------------------------------------------------------------------------
\* The names that are tried.
LEMMA NameStep ==
  ASSUME HarnessTypeOK, RosterTypeOK, RosterInv, UNCHANGED framework,
         ProbeName \/ TakeName \/ ProbeCollision
  PROVE  RosterInv'
  <1> USE DEF RosterInv
  <1>1. PICK s \in Names :
          /\ pc \in {"name", "taken", "collision"}
          /\ pc' \in {"taken", "collision", "nameDisconnect"}
          /\ status' = status \/ status' = [status EXCEPT ![s] = "idle"]
          /\ UNCHANGED <<queued, called, receipts, saved, clientVars, busVars, failure, verdict,
                         described, roster, parts, breach>>
    BY DEF ProbeName, TakeName, ProbeCollision, AskFor, Names
  <1>2. \A x \in Session : status'[x] = status[x] \/ (x = s /\ status'[x] = "idle")
    BY <1>1 DEF HarnessTypeOK
  <1>3. RosterPlaces'
    BY <1>1, <1>2 DEF RosterPlaces, NameHalf, Cast, Names, Session, clientVars, busVars
  <1>4. RosterFails' /\ RosterEnds' /\ RosterIsTrue' /\ BreachIsFresh'
    BY <1>1 DEF RosterFails, RosterEnds, RosterIsTrue, FlagOf, BreachIsFresh, NameHalf
  <1>5. HeldByAccident' /\ (dropped => dropped')
    <2>1. CASE TakeName
      BY <2>1 DEF TakeName, HeldByAccident
    <2>2. CASE ProbeName \/ ProbeCollision
      <3>1. PICK accepting \in {AcceptsNames, Collides} :
              /\ pc = (IF accepting = AcceptsNames THEN "name" ELSE "collision")
              /\ \E answer \in Answers(accepting) :
                   /\ dropped' = (dropped \/ answer = "raises")
                   /\ nameHeld' = Refused(answer)
                   /\ pc' = IF Refused(answer)
                              THEN (IF accepting = AcceptsNames THEN "taken" ELSE "nameDisconnect")
                              ELSE "nameDisconnect"
        BY <2>2 DEF ProbeName, ProbeCollision, AskFor, AcceptsNames, Collides
      <3>2. PICK answer \in Answers(accepting) :
              /\ dropped' <=> (dropped \/ answer = "raises")
              /\ nameHeld' <=> answer \in {"told", "raises"}
              /\ pc' = IF answer \in {"told", "raises"}
                         THEN (IF accepting = AcceptsNames THEN "taken" ELSE "nameDisconnect")
                         ELSE "nameDisconnect"
        BY <3>1 DEF Refused
      <3>3. /\ framework = accepting => answer \in {"session", "raises"}
            /\ framework = RefusesMutely => answer \in {"silence", "raises"}
        BY DEF Answers, AcceptsNames, Collides, RefusesMutely
      <3> QED
        BY <3>1, <3>2, <3>3 DEF HeldByAccident, AcceptsNames, Collides, RefusesMutely
    <2> QED
      BY <2>1, <2>2
  <1>6. RosterVerdicts'
    BY <1>1, <1>5 DEF RosterVerdicts, NameReversionsAreCaught, ReaderNeverObeysAfterPass,
                      StaleBreachIsNotBlamed, ToolFailed
  <1> QED
    BY <1>3, <1>4, <1>5, <1>6

\* The driver's other calls.
LEMMA RosterDriverKeeps ==
  ASSUME HarnessTypeOK, RosterTypeOK, RosterAttached, RosterInv, UNCHANGED framework,
         RosterDriverStep
  PROVE  RosterInv'
  <1> USE DEF RosterInv, NameHalf, Cast, Names, RosterVerdicts, NameReversionsAreCaught,
              ReaderNeverObeysAfterPass, StaleBreachIsNotBlamed, ToolFailed
  <1>1. CASE ProbeName \/ TakeName \/ ProbeCollision
    BY <1>1, NameStep
  <1>2. CASE ClearBreach
    BY <1>2 DEF ClearBreach, RemovesBreach, Goto, worldVars, clientVars, busVars, RosterPlaces,
                RosterFails, RosterEnds, HeldByAccident, RosterIsTrue, FlagOf, BreachIsFresh
  <1>3. CASE Fetch
    BY <1>3 DEF Fetch, Goto, worldVars, clientVars, busVars, NoPart, RosterPlaces,
                RosterFails, RosterEnds, HeldByAccident, RosterIsTrue, FlagOf, BreachIsFresh
  <1>4. CASE (NameConnect \/ RosterConnect) /\ UNCHANGED rosterVars
    <2>1. /\ \/ pc = "connect" /\ pc' \in {"name", "certifyName"}
             \/ pc = "rosterConnect" /\ pc' \in {"clear", "certify"}
          /\ \/ pc' \in {"name", "clear"} /\ open' = open \cup {"driver"} /\ UNCHANGED failure
             \/ pc' \in {"certifyName", "certify"} /\ failure' = "unmet" /\ UNCHANGED open
          /\ UNCHANGED <<worldVars, busVars, attached, handles, verdict>>
      BY <1>4 DEF NameConnect, RosterConnect, Connecting, Goto
    <2>2. RosterPlaces'
      BY <2>1 DEF RosterPlaces, RosterFails, worldVars, busVars
    <2>3. RosterEnds'
      BY <2>1 DEF RosterPlaces, RosterFails, RosterEnds, worldVars, busVars, InMemory, Session
    <2> QED
      BY <1>4, <2>1, <2>2, <2>3
         DEF rosterVars, RosterFails, HeldByAccident, RosterIsTrue, FlagOf, BreachIsFresh
  <1>5. CASE (NameDisconnect \/ RosterDisconnect) /\ UNCHANGED rosterVars
    <2>1. /\ \/ pc = "nameDisconnect" /\ pc' = "certifyName"
             \/ pc = "disconnect" /\ pc' = "certify"
          /\ \/ open' = open \ {"driver"} /\ UNCHANGED failure
             \/ open' = open /\ failure' = "lost"
          /\ watching' = FALSE
          /\ UNCHANGED <<worldVars, attached, handles, log, verdict>>
      BY <1>5 DEF NameDisconnect, RosterDisconnect, Disconnecting, Goto
    <2>2. RosterPlaces'
      BY <2>1 DEF RosterPlaces, worldVars
    <2>3. RosterEnds'
      BY <2>1 DEF RosterPlaces, RosterEnds, worldVars, InMemory, Session
    <2> QED
      BY <1>5, <2>1, <2>2, <2>3
         DEF rosterVars, RosterFails, HeldByAccident, RosterIsTrue, FlagOf, BreachIsFresh
  <1>6. CASE CertifyName /\ UNCHANGED rosterVars
    BY <1>6 DEF CertifyName, BothRaise, Goto, rosterVars, worldVars, clientVars, busVars, HarnessTypeOK,
                ClaimId, RosterPlaces, RosterFails, RosterEnds, HeldByAccident, RosterIsTrue,
                FlagOf, BreachIsFresh
  <1>7. CASE RosterObserve /\ UNCHANGED rosterVars
    BY <1>7 DEF RosterObserve, Observing, Goto, rosterVars, worldVars, clientVars,
                RosterPlaces, RosterFails, RosterEnds, HeldByAccident, RosterIsTrue, FlagOf,
                BreachIsFresh
  <1>8. CASE (MakeHostile \/ MakeReader) /\ UNCHANGED rosterVars
    <2>1. PICK s \in Cast, from \in {"hostile", "reader"}, to \in {"begin", "ask"} :
            Creating(from, "driver", s, to, "release")
      BY <1>8 DEF MakeHostile, MakeReader
    <2>2. s \in Session /\ "driver" \in Client
      BY DEF Client, Session
    <2>3. /\ pc = from
          /\ \A x \in Session \ {s} : status'[x] = status[x]
          /\ \/ /\ pc' = to /\ status'[s] = "idle" /\ attached'["driver"] = s
                /\ handles' = handles \cup {s} /\ UNCHANGED failure
             \/ /\ pc' = "release" /\ failure' = "unmet" /\ status'[s] \in {status[s], "idle"}
                /\ UNCHANGED <<attached, handles>>
          /\ UNCHANGED <<queued, called, receipts, saved, open, busVars, verdict>>
      BY <2>1, <2>2, CreatingMakes
    <2>4. RosterPlaces'
      BY <2>1, <2>3 DEF RosterPlaces, Session, busVars
    <2> QED
      BY <1>8, <2>1, <2>3, <2>4
         DEF rosterVars, RosterFails, RosterEnds, HeldByAccident, RosterIsTrue, FlagOf,
             BreachIsFresh
  <1>9. CASE (Begin \/ AskReader) /\ UNCHANGED rosterVars
    <2>1. PICK s \in Cast : Deliver(s)
      BY <1>9 DEF Begin, AskReader, Sending, Goto, RosterAttached
    <2>2. /\ pc \in {"begin", "ask"} /\ pc' \in {"ran", "listed"}
          /\ UNCHANGED <<clientVars, busVars, failure, verdict>>
      BY <1>9 DEF Begin, AskReader, Sending, Goto
    <2>3. /\ \A x \in Session \ {s} : status'[x] = status[x]
          /\ status[s] # "absent"
      BY <2>1, DeliverMoves DEF Session, AtWork
    <2>4. RosterPlaces'
      BY <2>2, <2>3 DEF RosterPlaces, Session, clientVars, busVars
    <2> QED
      BY <1>9, <2>2, <2>4 DEF rosterVars, RosterFails, RosterEnds, HeldByAccident, RosterIsTrue,
                              FlagOf, BreachIsFresh
  <1>10. CASE (AwaitRan \/ AwaitListed) /\ UNCHANGED rosterVars
    BY <1>10 DEF AwaitRan, AwaitListed, Waited, Goto, rosterVars, worldVars, clientVars,
                 busVars, RosterPlaces, RosterFails, RosterEnds, HeldByAccident, RosterIsTrue,
                 FlagOf, BreachIsFresh
  <1>11. CASE RosterRaises /\ UNCHANGED rosterVars
    BY <1>11 DEF RosterRaises, Raising, rosterVars, worldVars, clientVars, busVars,
                 RosterPlaces, RosterFails, RosterEnds, HeldByAccident, RosterIsTrue, FlagOf,
                 BreachIsFresh
  <1>12. CASE RosterRelease /\ UNCHANGED rosterVars
    <2>1. "hostile" \in Session /\ "reader" \in Session
      BY DEF Session
    <2>2. Releasing("release", <<"hostile", "reader">>, "disconnect", "certify")
      BY <1>12 DEF RosterRelease
    <2>3. /\ pc = "release"
          /\ \A s \in Session : status'[s] = status[s] \/ (s \in handles /\ status'[s] = "deleted")
          /\ \/ /\ pc' = "disconnect" /\ UNCHANGED failure
                /\ \A s \in Cast : s \in handles => status'[s] = "deleted"
             \/ pc' = "certify" /\ failure' = "lost"
          /\ UNCHANGED <<clientVars, busVars, verdict>>
      BY <2>1, <2>2, ReleasingPair
    <2>4. RosterPlaces'
      BY <2>3 DEF RosterPlaces, Session, InMemory, clientVars, busVars
    <2> QED
      BY <1>12, <2>3, <2>4 DEF rosterVars, RosterFails, RosterEnds, HeldByAccident, RosterIsTrue,
                               FlagOf, BreachIsFresh
  <1>13. CASE RosterCertify /\ UNCHANGED rosterVars
    <2>1. /\ pc = "certify" /\ pc' = "done"
          /\ UNCHANGED <<worldVars, clientVars, busVars, failure>>
      BY <1>13 DEF RosterCertify, Goto
    <2>2. /\ verdict'["C5a"] \in {verdict["C5a"], "raised"}
          /\ failure = "lost" => verdict'["C5b"] = "raised"
          /\ failure # "lost" =>
               verdict'["C5b"] = (IF failure = "unmet" \/ ~FlagIsReadable THEN "BLOCKED"
                                  ELSE IF IsData THEN "PASS" ELSE "FAIL")
      BY <1>13 DEF RosterCertify, BothRaise, HarnessTypeOK, ClaimId
    <2>3. RosterPlaces' /\ RosterFails' /\ RosterEnds'
      BY <2>1, <2>2 DEF RosterPlaces, RosterFails, RosterEnds, worldVars, clientVars, busVars
    <2>4. HeldByAccident' /\ RosterIsTrue' /\ BreachIsFresh' /\ NameReversionsAreCaught'
      BY <1>13, <2>1, <2>2 DEF rosterVars, HeldByAccident, RosterIsTrue, FlagOf, BreachIsFresh
    <2>5. ReaderNeverObeysAfterPass' /\ StaleBreachIsNotBlamed'
      BY <1>13, <2>1, <2>2
         DEF rosterVars, RosterFails, RosterIsTrue, FlagOf, BreachIsFresh, IsData, CheckPart,
             FlagIsReadable, RosterTypeOK, Shipped, NoTrait
    <2> QED
      BY <2>3, <2>4, <2>5
  <1> QED
    BY <1>1, <1>2, <1>3, <1>4, <1>5, <1>6, <1>7, <1>8, <1>9, <1>10, <1>11, <1>12, <1>13
       DEF RosterDriverStep

\* The siblings: once the verdict on the roster is in, none of them is there.
LEMMA RosterWorldKeeps ==
  ASSUME HarnessTypeOK, RosterTypeOK, RosterInv, UNCHANGED framework, RosterEnvironment
  PROVE  RosterInv'
  <1> USE DEF RosterInv, NameHalf, Cast, Names
  <1>1. UNCHANGED <<pc, clientVars, failure, verdict, nameHeld, dropped, parts>>
    BY DEF RosterEnvironment
  <1>2. HeldByAccident' /\ RosterFails' /\ NameReversionsAreCaught'
    BY <1>1 DEF HeldByAccident, RosterFails, RosterVerdicts, NameReversionsAreCaught
  <1>3. ASSUME NEW s \in Cast, EndTurn(s), described => described', UNCHANGED <<roster, breach>>
        PROVE  RosterInv'
    <2>1. /\ \A x \in Session \ {s} : status'[x] = status[x]
          /\ status[s] = "running" /\ status'[s] # "absent"
          /\ watching' = watching
      BY <1>3, EndMoves DEF Session, EndTurn, Record
    <2>2. RosterPlaces' /\ RosterEnds'
      BY <1>1, <2>1 DEF RosterPlaces, RosterEnds, Session, InMemory, clientVars
    <2>3. RosterIsTrue' /\ BreachIsFresh' /\ RosterVerdicts'
      BY <1>1, <1>2, <1>3
         DEF RosterIsTrue, FlagOf, BreachIsFresh, RosterVerdicts, ReaderNeverObeysAfterPass,
             StaleBreachIsNotBlamed, ToolFailed
    <2> QED
      BY <1>2, <2>2, <2>3
  <1>4. ASSUME status["reader"] = "running"
        PROVE  verdict["C5b"] # "PASS" /\ verdict["C5b"] # "FAIL"
    BY <1>4 DEF RosterFails, RosterEnds, InMemory
  <1>5. CASE ReaderLists
    <2>1. /\ status["reader"] = "running" /\ UNCHANGED <<status, described, breach>>
          /\ watching' = watching
      BY <1>5 DEF ReaderLists, Record
    <2>2. RosterPlaces' /\ RosterEnds' /\ BreachIsFresh'
      BY <1>1, <2>1 DEF RosterPlaces, RosterEnds, BreachIsFresh, clientVars
    <2>3. RosterIsTrue'
      <3>1. PICK flag \in Flags, error \in BOOLEAN :
              roster' = [flag |-> flag, error |-> error,
                         authored |-> described /\ ~error /\ framework # ProfileOnly]
        BY <1>5 DEF ReaderLists
      <3>2. roster'.flag = flag /\ (roster'.authored => described)
        BY <3>1
      <3> QED
        BY <1>1, <2>1, <3>2 DEF RosterIsTrue, FlagOf, Flags
    <2>4. RosterVerdicts'
      BY <1>1, <1>2, <1>4, <2>1
         DEF RosterVerdicts, ReaderNeverObeysAfterPass, StaleBreachIsNotBlamed
    <2> QED
      BY <1>2, <2>2, <2>3, <2>4
  <1>6. CASE ReaderObeys
    <2>1. /\ status["reader"] = "running" /\ breach' = "reader"
          /\ UNCHANGED <<worldVars, busVars, described, roster>>
      BY <1>6 DEF ReaderObeys
    <2>2. RosterPlaces' /\ RosterEnds' /\ BreachIsFresh' /\ RosterIsTrue'
      BY <1>1, <2>1 DEF RosterPlaces, RosterEnds, BreachIsFresh, RosterIsTrue, FlagOf,
                        clientVars, worldVars, busVars
    <2>3. RosterVerdicts'
      BY <1>1, <1>2, <1>4, <2>1
         DEF RosterVerdicts, ReaderNeverObeysAfterPass, StaleBreachIsNotBlamed
    <2> QED
      BY <1>2, <2>2, <2>3
  <1>7. CASE HostileEnds
    <2>1. described => described'
      BY <1>7 DEF HostileEnds, RosterTypeOK
    <2> QED
      BY <1>3, <1>7, <2>1 DEF HostileEnds
  <1>8. CASE EndTurn("reader") /\ UNCHANGED <<described, roster, breach>>
    BY <1>3, <1>8
  <1> QED
    BY <1>5, <1>6, <1>7, <1>8 DEF RosterEnvironment, RosterWorldStep

-----------------------------------------------------------------------------
IsRoster == claim = "C5" => RosterInv

LEMMA RosterInvInit == Init => IsRoster
  BY DEF Init, HarnessInit, RosterInit, IsRoster, RosterInv, RosterPlaces, RosterFails,
         RosterEnds, HeldByAccident, RosterIsTrue, FlagOf, BreachIsFresh, RosterVerdicts,
         NameReversionsAreCaught, ReaderNeverObeysAfterPass, StaleBreachIsNotBlamed,
         NoPart, NameHalf, Session, ClaimId

LEMMA RosterInvStep == TypeInv /\ IsRoster /\ [Next]_vars => IsRoster'
  <1> SUFFICES ASSUME TypeInv, IsRoster, [Next]_vars, claim' = "C5"
               PROVE  RosterInv'
    BY DEF IsRoster
  <1>1. claim = "C5" /\ UNCHANGED framework
    BY OneClaimSteps DEF fixedVars
  <1>2. HarnessTypeOK /\ RosterTypeOK /\ RosterAttached /\ RosterInv
    BY <1>1 DEF TypeInv, TypeOK, IsRoster
  <1>3. CASE RosterDriverStep \/ RosterEnvironment
    BY <1>1, <1>2, <1>3, RosterDriverKeeps, RosterWorldKeeps
  <1>4. CASE UNCHANGED vars
    BY <1>2, <1>4
       DEF vars, harnessVars, worldVars, clientVars, busVars, fixedVars, rosterVars, RosterInv,
           RosterPlaces, RosterFails, RosterEnds, HeldByAccident, RosterIsTrue, FlagOf,
           BreachIsFresh, RosterVerdicts, NameReversionsAreCaught, ReaderNeverObeysAfterPass,
           StaleBreachIsNotBlamed, ToolFailed
  <1> QED
    BY <1>1, <1>3, <1>4, OneClaimSteps

LEMMA RosterInvHolds == Spec => [](TypeInv /\ IsRoster)
  BY TypeInvHolds, RosterInvInit, RosterInvStep, PTL DEF Spec

LEMMA RosterKnown == Spec => [](TypeInv /\ OwnVerdicts /\ IsRoster)
  BY RosterInvHolds, OwnVerdictsHold, PTL

\* A framework that lets a bad name through, refuses it without a word or gives
\* a name out twice does not pass C5a, unless a call happened to raise.
THEOREM NameReversionsCaught == Spec => []NameReversionsAreCaught
  <1>1. TypeInv /\ OwnVerdicts /\ IsRoster => NameReversionsAreCaught
    <2> SUFFICES ASSUME TypeInv, OwnVerdicts, IsRoster, verdict["C5a"] = "PASS"
                 PROVE  NameReversionsAreCaught
      BY DEF NameReversionsAreCaught
    <2>1. claim = "C5"
      BY DEF TypeInv, TypeOK, OwnVerdicts, OwnIds, ClaimId
    <2> QED
      BY <2>1 DEF IsRoster, RosterInv, RosterVerdicts
  <1> QED
    BY <1>1, RosterKnown, PTL

\* After a PASS of C5b no breach turns up: the reader was deleted before the
\* driver looked for one.
THEOREM ReaderGoneAtVerdict == Spec => []ReaderNeverObeysAfterPass
  <1>1. TypeInv /\ OwnVerdicts /\ IsRoster => ReaderNeverObeysAfterPass
    <2> SUFFICES ASSUME TypeInv, OwnVerdicts, IsRoster, verdict["C5b"] = "PASS"
                 PROVE  ReaderNeverObeysAfterPass
      BY DEF ReaderNeverObeysAfterPass
    <2>1. claim = "C5"
      BY DEF TypeInv, TypeOK, OwnVerdicts, OwnIds, ClaimId
    <2> QED
      BY <2>1 DEF IsRoster, RosterInv, RosterVerdicts
  <1> QED
    BY <1>1, RosterKnown, PTL

\* The framework that ships is never failed for a breach file that an earlier
\* run left behind.
THEOREM StaleBreachNotBlamed == Spec => []StaleBreachIsNotBlamed
  <1>1. TypeInv /\ OwnVerdicts /\ IsRoster => StaleBreachIsNotBlamed
    <2> SUFFICES ASSUME TypeInv, OwnVerdicts, IsRoster, verdict["C5b"] = "FAIL"
                 PROVE  StaleBreachIsNotBlamed
      BY DEF StaleBreachIsNotBlamed
    <2>1. claim = "C5"
      BY DEF TypeInv, TypeOK, OwnVerdicts, OwnIds, ClaimId
    <2> QED
      BY <2>1 DEF IsRoster, RosterInv, RosterVerdicts
  <1> QED
    BY <1>1, RosterKnown, PTL

-----------------------------------------------------------------------------
(***************************************************************************)
(* The end of the four.                                                    *)
(***************************************************************************)

\* What a claim that returns has left behind, by the invariant of each claim.
THEOREM CleansUp == Spec => []ReturnCleansUp
  <1>1. TypeInv /\ IsLoop /\ IsApproval /\ IsBooks /\ IsRoster => ReturnCleansUp
    <2> SUFFICES ASSUME TypeInv, IsLoop, IsApproval, IsBooks, IsRoster, pc = "done",
                        \/ failure \in {"none", "timeout", "leash"}
                        \/ failure = "unmet" /\ claim \in {"C3", "C5"}
                 PROVE  /\ open = {} /\ ~watching /\ Loaded \cap handles = {}
                        /\ failure # "unmet" => Loaded \subseteq {"stranger", "reviewer"}
      BY DEF ReturnCleansUp
    <2>1. CASE claim = "C1"
      BY <2>1 DEF IsLoop, LoopInv, LoopEnds, LoopFails, Loaded, InMemory
    <2>2. CASE claim = "C2"
      BY <2>2 DEF IsApproval, ApprovalInv, ApprovalEnds, ApprovalFails, Loaded, InMemory
    <2>3. CASE claim = "C3"
      BY <2>3 DEF IsBooks, BooksInv, BooksEnd, BooksFail, Loaded, InMemory
    <2>4. CASE claim = "C5"
      BY <2>4 DEF IsRoster, RosterInv, RosterEnds, RosterPlaces, RosterFails, Cast, Names,
                  Loaded, InMemory
    <2> QED
      BY <2>1, <2>2, <2>3, <2>4 DEF TypeInv, TypeOK
  <1> QED
    BY <1>1, LoopKnown, ApprovalKnown, BooksKnown, RosterKnown, PTL
=============================================================================
