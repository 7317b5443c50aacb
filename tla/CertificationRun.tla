--------------------------- MODULE CertificationRun ---------------------------
(***************************************************************************)
(* What a run of the certifications (certify/run_all.py) promises: it may  *)
(* give up before the first certification, and from then on every one of   *)
(* them, in turn, adds verdicts of its own to the report, none twice, and  *)
(* the exit code is the report's.                                          *)
(***************************************************************************)
EXTENDS Naturals, Sequences

VARIABLES judged, report, exit

runVars == <<judged, report, exit>>

\* The certifications, in the order of the suite.
Certification == <<"C1", "C2", "C3", "C4", "C5">>

\* The claims of each, in the order in which it asks their gates.
ClaimsOf == [C1 |-> <<"C1">>, C2 |-> <<"C2">>, C3 |-> <<"C3a", "C3b", "C3c">>,
             C4 |-> <<"C4a", "C4b">>, C5 |-> <<"C5a", "C5b">>]

\* A certification that raises is reported by its own name.
OwnIds(c) == {ClaimsOf[c][i] : i \in DOMAIN ClaimsOf[c]} \cup {c}

StatesIn(r) == {v.state : v \in r}
Reported(r) == {v.id : v \in r}

\* Report.exit_code.
ExitCode(r) ==
  CASE "FAIL" \in StatesIn(r) -> 1
    [] "FAIL" \notin StatesIn(r) /\ "BLOCKED" \in StatesIn(r) -> 2
    [] OTHER -> 0

Running == 3  \* the program has not returned

Init == judged = 0 /\ report = {} /\ exit = Running

GiveUp == judged = 0 /\ exit = Running /\ exit' = 1 /\ UNCHANGED <<judged, report>>

\* The verdicts a certification may add to what is reported.
IsJudgement(c, verdicts) ==
  /\ verdicts # {}
  /\ Reported(verdicts) \subseteq OwnIds(c) \ Reported(report)
  /\ \A v, w \in verdicts : v.id = w.id => v = w

Judge ==
  /\ exit = Running
  /\ judged < Len(Certification)
  /\ judged' = judged + 1
  /\ report \subseteq report'
  /\ IsJudgement(Certification[judged + 1], report' \ report)
  /\ UNCHANGED exit

End ==
  /\ exit = Running
  /\ judged = Len(Certification)
  /\ exit' = ExitCode(report)
  /\ UNCHANGED <<judged, report>>

Next == GiveUp \/ Judge \/ End

Spec == Init /\ [][Next]_runVars
=============================================================================
