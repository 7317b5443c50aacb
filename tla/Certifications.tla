---------------------------- MODULE Certifications ----------------------------
(***************************************************************************)
(* The four certifications that share the harness, C1, C2, C3 and C5, each *)
(* against the framework that ships and the reversions it undertakes to    *)
(* notice.  They run one after another and share nothing but the daemon,   *)
(* so one of them and one framework are drawn at the start.                *)
(***************************************************************************)
EXTENDS DriverInLoop, SiblingApproval, OwnBooks, Roster

vars == <<harnessVars, loopVars, approvalVars, booksVars, rosterVars>>

FrameworksOf(c) ==
  CASE c = "C1" -> {Shipped} \cup LoopReversions
    [] c = "C2" -> {Shipped, StampsParent}
    [] c = "C3" -> {Shipped, SharedPot, OnlyCounts}
    [] c = "C5" -> {Shipped, AcceptsNames, RefusesMutely, Collides, NoTrait, ProfileOnly}

\* The type invariant of the harness and of the four claims.
TypeOK ==
  /\ claim \in {"C1", "C2", "C3", "C5"}
  /\ framework \in FrameworksOf(claim)
  /\ HarnessTypeOK /\ LoopTypeOK /\ ApprovalTypeOK /\ BooksTypeOK /\ RosterTypeOK

Init ==
  /\ claim \in {"C1", "C2", "C3", "C5"}
  /\ framework \in FrameworksOf(claim)
  /\ HarnessInit /\ LoopInit /\ ApprovalInit /\ BooksInit /\ RosterInit

DriverStep ==
  /\ UNCHANGED fixedVars
  /\ \/ /\ claim = "C1" /\ LoopDriverStep
        /\ UNCHANGED <<approvalVars, booksVars, rosterVars>>
     \/ /\ claim = "C2" /\ ApprovalDriverStep
        /\ UNCHANGED <<loopVars, booksVars, rosterVars>>
     \/ /\ claim = "C3" /\ BooksDriverStep
        /\ UNCHANGED <<loopVars, approvalVars, rosterVars>>
     \/ /\ claim = "C5" /\ RosterDriverStep
        /\ UNCHANGED <<loopVars, approvalVars, booksVars>>

Environment ==
  /\ UNCHANGED fixedVars
  /\ \/ /\ claim = "C1" /\ LoopEnvironment
        /\ UNCHANGED <<approvalVars, booksVars, rosterVars>>
     \/ /\ claim = "C2" /\ ApprovalEnvironment
        /\ UNCHANGED <<loopVars, booksVars, rosterVars>>
     \/ /\ claim = "C3" /\ BooksEnvironment
        /\ UNCHANGED <<loopVars, approvalVars, rosterVars>>
     \/ /\ claim = "C5" /\ RosterEnvironment
        /\ UNCHANGED <<loopVars, approvalVars, booksVars>>

Finished == pc = "done" /\ UNCHANGED vars

Next == DriverStep \/ Environment \/ Finished

Spec == Init /\ [][Next]_vars

\* asyncio resumes a coroutine whose await is over, and every wait of a claim
\* has a timeout; nothing is asked of a model or of the daemon.
FairSpec == Spec /\ WF_vars(DriverStep)

-----------------------------------------------------------------------------
\* A claim that returns has released what it made and hung up, and so has C3
\* or C5 when it is blocked, but for a sibling whose creation was not answered.
\* What C5a makes to try the names is never released, whatever its verdict.
ReturnCleansUp ==
  /\ pc = "done"
  /\ failure \in {"none", "timeout", "leash"}
       \/ (failure = "unmet" /\ claim \in {"C3", "C5"})
  => /\ open = {} /\ ~watching /\ Loaded \cap handles = {}
     /\ failure # "unmet" => Loaded \subseteq {"stranger", "reviewer"}

\* Every claim comes to its verdicts, whatever the siblings do: a volley that
\* stays short of its limit, a request that is not raised, a silent partner.
ClaimEnds == <>(pc = "done")
=============================================================================
