---------------------------- MODULE CascadePhases ----------------------------
(***************************************************************************)
(* What a chapter cascade promises, without clients, sessions or messages: *)
(* the driver goes through its phases in order, every decision it takes    *)
(* rests on something the participant of that phase has said, and the run  *)
(* ends.  Participants speak when they like, and more than once.           *)
(***************************************************************************)
EXTENDS Naturals

CONSTANT MaxRevisions  \* review rounds after the first one

VARIABLES
  phase,     \* where the run is
  round,     \* which review this is
  result,    \* how the run ended
  drafts,    \* what the writer has said
  opinions   \* opinions[i]: what the reviewer of round i has said

phaseVars == <<phase, round, result, drafts, opinions>>

Rounds == 0..MaxRevisions

Init ==
  /\ phase = "setup"
  /\ round = 0
  /\ result = "none"
  /\ drafts = {}
  /\ opinions = [i \in Rounds |-> {}]

BeginWriting ==
  /\ phase = "setup"
  /\ phase' = "writing"
  /\ UNCHANGED <<round, result, drafts, opinions>>

BeginReview ==
  /\ phase = "writing"
  /\ drafts # {}
  /\ phase' = "reviewing"
  /\ UNCHANGED <<round, result, drafts, opinions>>

NextRound ==
  /\ phase = "reviewing"
  /\ "revise" \in opinions[round]
  /\ round < MaxRevisions
  /\ round' = round + 1
  /\ UNCHANGED <<phase, result, drafts, opinions>>

End(r) ==
  /\ phase' = "over"
  /\ result' = r
  /\ UNCHANGED <<round, drafts, opinions>>

Accept ==
  /\ phase = "reviewing"
  /\ "accept" \in opinions[round]
  /\ End("accepted")

GiveUp ==
  /\ phase = "reviewing"
  /\ round = MaxRevisions
  /\ \A i \in Rounds : "revise" \in opinions[i]
  /\ End("unaccepted")

Refuse == phase = "setup" /\ End("refused")

Fail == phase # "over" /\ \E r \in {"failed", "raised"} : End(r)

\* The closing steps of a run that has its result may still raise.
Mask == phase = "over" /\ result # "raised" /\ End("raised")

Drafts ==
  /\ phase # "setup"
  /\ \E o \in {"ready_for_review", "blocked"} : drafts' = drafts \cup {o}
  /\ UNCHANGED <<phase, round, result, opinions>>

Opines(i) ==
  /\ i <= round
  /\ \E o \in {"accept", "revise"} :
       opinions' = [opinions EXCEPT ![i] = @ \cup {o}]
  /\ UNCHANGED <<phase, round, result, drafts>>

Next ==
  \/ BeginWriting \/ BeginReview \/ NextRound
  \/ Accept \/ GiveUp \/ Refuse \/ Fail \/ Mask
  \/ Drafts \/ \E i \in Rounds : Opines(i)

Spec == Init /\ [][Next]_phaseVars
=============================================================================
