------------------------------- MODULE OwnBooks -------------------------------
(***************************************************************************)
(* Certification C3 of certify/c3_own_books_budget_hole.py: two siblings   *)
(* with books of their own volley messages until a counter on the bus has  *)
(* seen a number of sends; the driver then stops what its client is        *)
(* attached to and compares the pool before and after.  The reverted       *)
(* framework charges the siblings to the shared pot; the reverted driver   *)
(* counts without stopping.                                                *)
(***************************************************************************)
EXTENDS Harness, Integers

CONSTANT ExchangeLimit  \* sends after which the counter trips; 4 in the code

\* Two sends can be made in the opening turns; that the counter has tripped
\* is a sign of a turn that was paid for only from the third one on.
ASSUME OwnBooksAssumption == ExchangeLimit \in Nat /\ ExchangeLimit > 2

VARIABLES
  pool,     \* turns charged to the pot of the cascade
  opening,  \* the pool when the volley starts
  closing,  \* the pool after the stop
  stopped   \* stop() has been called

booksVars == <<pool, opening, closing, stopped>>

SharedPot == "sharedPot"      \* the siblings draw on the pool
OnlyCounts == "onlyCounts"    \* the counter's terminate call is removed
Unread == -1                  \* a snapshot that was not answered

BooksTypeOK ==
  /\ pool \in Nat
  /\ opening \in Nat \cup {Unread}
  /\ closing \in Nat \cup {Unread}
  /\ stopped \in BOOLEAN

BooksInit ==
  /\ pool = 0
  /\ opening = Unread
  /\ closing = Unread
  /\ stopped = FALSE

Opponent(s) == IF s = "partner" THEN "initiator" ELSE "partner"

-----------------------------------------------------------------------------
Volley(s) ==
  /\ SendToSibling(s, Opponent(s), AnswerFor(Opponent(s)))
  /\ UNCHANGED pool

\* A turn is charged when it is over.
Charged(s) ==
  /\ EndTurn(s)
  /\ pool' = IF framework = SharedPot THEN pool + 1 ELSE pool

BooksWorldStep == \E s \in {"partner", "initiator"} : Volley(s) \/ Charged(s)

-----------------------------------------------------------------------------
BooksConnect == Connecting("connect", "driver", "budget", "certify")

\* cascade_budget_set, before the try block.
SetBudget ==
  /\ Goto("budget", "observe")
  /\ UNCHANGED <<worldVars, clientVars, busVars, failure, verdict>>

BooksObserve == Observing("observe", "partner")
BooksPartner == Creating("partner", "driver", "partner", "initiator", "release")
BooksInitiator == Creating("initiator", "driver", "initiator", "opening", "release")

\* _budget_snapshot: the pool as it is, or no answer within its passes.
Snapshot(from, to) ==
  /\ Goto(from, to)
  /\ UNCHANGED <<worldVars, clientVars, busVars, failure, verdict, pool>>

OpenPool ==
  /\ Snapshot("opening", "kickoff")
  /\ opening' \in {pool, Unread}
  /\ UNCHANGED <<closing, stopped>>

Volleys == Sending("kickoff", "driver", "tripped")

\* The first send trips it.
TripsAtOnce == Sends >= 1

\* ExchangeCounter: trips on the send that reaches the limit.
Tripped == Sends >= ExchangeLimit

AwaitTripped ==
  /\ Goto("tripped", "stop")
  /\ Tripped
  /\ UNCHANGED <<worldVars, clientVars, busVars, failure, verdict>>

\* The wait has no timeout: it polls on.
NeverGivesUp == pc = "tripped" /\ ~Tripped /\ UNCHANGED harnessVars

VolleyTimesOut ==
  /\ Goto("tripped", "release")
  /\ ~Tripped
  /\ failure' = "timeout"
  /\ UNCHANGED <<worldVars, clientVars, busVars, verdict>>

\* stop() ends the turn of the session the client is attached to; what is
\* queued for it may start its next one.
Stop ==
  /\ Goto("stop", "closing")
  /\ stopped' = (framework # OnlyCounts)
  /\ IF framework = OnlyCounts
       THEN UNCHANGED worldVars
       ELSE /\ called' = called \ {attached["driver"]}
            /\ \/ /\ status' = [status EXCEPT ![attached["driver"]] = "idle"]
                  /\ UNCHANGED <<queued, saved>>
               \/ /\ attached["driver"] \in queued
                  /\ queued' = queued \ {attached["driver"]}
                  /\ StartTurn(attached["driver"])
            /\ UNCHANGED receipts
  /\ UNCHANGED <<clientVars, busVars, failure, verdict, pool, opening, closing>>

\* The closing snapshot is the opening one read again.
StaleClosing == pool' = pool /\ closing' \in {opening, Unread}
ReadClosing == pool' = pool /\ closing' \in {pool, Unread}

ClosePool ==
  /\ Goto("closing", "release")
  /\ ReadClosing
  /\ UNCHANGED <<worldVars, clientVars, busVars, failure, verdict, opening, stopped>>

BooksRaises == Raising({"opening", "kickoff", "stop", "closing"}, "release")
BudgetRaises == Raising({"budget"}, "certify")

BooksRelease == Releasing("release", <<"partner", "initiator">>, "disconnect", "certify")
BooksDisconnect == Disconnecting("disconnect", {"driver"}, "certify")

\* _tokens_spent, by the siblings' own turn events.
Spent == Cardinality(EventsOf("turn.completed"))

BothRead == opening # Unread /\ closing # Unread
HoleIsOpen == BothRead /\ Spent > 0 /\ closing = opening
CounterReached == BothRead /\ Sends >= ExchangeLimit

BooksCertify ==
  /\ Goto("certify", "done")
  /\ Reporting({"C3a", "C3b"},
               [i \in {"C3a", "C3b"} |-> IF i = "C3a" THEN HoleIsOpen ELSE CounterReached],
               {"timeout"})

BooksDriverStep ==
  \/ OpenPool \/ Stop \/ ClosePool
  \/ /\ \/ BooksConnect \/ SetBudget \/ BooksObserve \/ BooksPartner \/ BooksInitiator
        \/ Volleys \/ AwaitTripped \/ VolleyTimesOut \/ BooksRaises \/ BudgetRaises
        \/ BooksRelease \/ BooksDisconnect \/ BooksCertify
     /\ UNCHANGED booksVars

BooksEnvironment ==
  /\ BooksWorldStep
  /\ UNCHANGED <<pc, clientVars, failure, verdict, opening, closing, stopped>>

-----------------------------------------------------------------------------
\* A PASS of C3a has turns on the bus and a pot that was charged for none of
\* them, before or after the snapshots: siblings that draw on the shared pot
\* never pass for siblings with books of their own (REVERT_A).
HoleIsWitnessed == verdict["C3a"] = "PASS" => Spent > 0 /\ pool = 0

\* The framework that ships fails C3 only by a volley that stayed short or a
\* snapshot that was not answered: at the limit, turns have been paid for.
BooksAreNotBlamed ==
  framework = Shipped /\ "FAIL" \in {verdict["C3a"], verdict["C3b"]} =>
    failure = "timeout" \/ ~BothRead
=============================================================================
