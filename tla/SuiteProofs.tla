---------------------------- MODULE SuiteProofs ----------------------------
(***************************************************************************)
(* The suite, for every set of commits and every bound.  That its          *)
(* variables stay in their types, that it implements CertificationRun and  *)
(* that it never exits with 0 rest on one invariant: where the control     *)
(* stands, what the certification under way has found, and which ids the   *)
(* report can hold by then.  What it blocks and lets go live follows.      *)
(***************************************************************************)
EXTENDS Suite, TLAPS

\* Where a claim is under way.
Within == {"gate", "half", "mainline", "daemon", "live"}

Control ==
  /\ exit = Run!Running <=> pc # "done"
  /\ pc \in {"pin", "guards", "surface"} => judged = 0 /\ report = {}
  /\ pc \in Within => judged \in 0 .. 4
  /\ pc = "emit" => judged = 5

\* What the certification under way has asked and found.
Progress ==
  /\ pc \in {"pin", "guards", "surface", "claim"} =>
       closed = {} /\ asked = 0 /\ half = 1 /\ results = {}
  /\ pc = "gate" => asked < Len(Claims) /\ half = 1 /\ results = {}
  /\ pc \in {"mainline", "daemon", "live"} => half <= Len(Halves)
  /\ pc \in Within =>
       /\ closed \subseteq ClaimSet
       /\ \A v \in results : v.id \in ClaimSet \ {"C3c"}
       /\ half > 1 => results # {} \/ closed # {}

\* The certification an id belongs to.
Rank(id) ==
  CASE id = "C1" -> 1
    [] id = "C2" -> 2
    [] id \in {"C3", "C3a", "C3b", "C3c"} -> 3
    [] id \in {"C4", "C4a", "C4b"} -> 4
    [] OTHER -> 5

\* The report holds verdicts of certifications that are over, and of the third
\* one that did not hold.
Ledger ==
  /\ \A v \in report : Rank(v.id) <= judged
  /\ judged >= 3 => \E v \in report : v.state \in {"FAIL", "BLOCKED"}
  /\ pc = "done" => exit # 0

IInv == TypeOK /\ Control /\ Progress /\ Ledger

-----------------------------------------------------------------------------
\* The claims and live parts of each certification.
LEMMA Shapes ==
  ASSUME judged \in 0 .. 4
  PROVE  /\ Current \in {"C1", "C2", "C3", "C4", "C5"}
         /\ Rank(Current) = judged + 1
         /\ Len(Claims) \in 1 .. 3
         /\ DOMAIN Claims = 1 .. Len(Claims)
         /\ \A i \in 1 .. Len(Claims) : Claims[i] \in ClaimSet
         /\ ClaimSet \subseteq Claim
         /\ Run!OwnIds(Current) = ClaimSet \cup {Current}
         /\ \A id \in ClaimSet : Rank(id) = judged + 1
         /\ judged = 2 => "C3c" \in ClaimSet
         /\ Len(Halves) \in 1 .. 2
         /\ DOMAIN Halves = 1 .. Len(Halves)
         /\ \A n \in 1 .. Len(Halves) :
              Halves[n] # {} /\ Halves[n] \subseteq ClaimSet \ {"C3c"}
<1>1. CASE judged = 0
  <2>1. Current = "C1" /\ Claims = <<"C1">> /\ Halves = <<{"C1"}>>
    BY <1>1 DEF Current, Claims, Halves, Run!Certification, Run!ClaimsOf
  <2> QED
    BY <1>1, <2>1 DEF ClaimSet, Claim, Rank, Run!OwnIds, Claims
<1>2. CASE judged = 1
  <2>1. Current = "C2" /\ Claims = <<"C2">> /\ Halves = <<{"C2"}>>
    BY <1>2 DEF Current, Claims, Halves, Run!Certification, Run!ClaimsOf
  <2> QED
    BY <1>2, <2>1 DEF ClaimSet, Claim, Rank, Run!OwnIds, Claims
<1>3. CASE judged = 2
  <2>1. Current = "C3" /\ Claims = <<"C3a", "C3b", "C3c">> /\ Halves = <<{"C3a", "C3b"}>>
    BY <1>3 DEF Current, Claims, Halves, Run!Certification, Run!ClaimsOf
  <2> QED
    BY <1>3, <2>1 DEF ClaimSet, Claim, Rank, Run!OwnIds, Claims
<1>4. CASE judged = 3
  <2>1. Current = "C4" /\ Claims = <<"C4a", "C4b">> /\ Halves = <<{"C4a", "C4b"}>>
    BY <1>4 DEF Current, Claims, Halves, Run!Certification, Run!ClaimsOf
  <2> QED
    BY <1>4, <2>1 DEF ClaimSet, Claim, Rank, Run!OwnIds, Claims
<1>5. CASE judged = 4
  <2>1. Current = "C5" /\ Claims = <<"C5a", "C5b">> /\ Halves = <<{"C5a"}, {"C5b"}>>
    BY <1>5 DEF Current, Claims, Halves, Run!Certification, Run!ClaimsOf
  <2> QED
    BY <1>5, <2>1 DEF ClaimSet, Claim, Rank, Run!OwnIds, Claims
<1> QED
  BY <1>1, <1>2, <1>3, <1>4, <1>5

LEMMA InitIsTyped ==
  ASSUME Init
  PROVE  TypeOK
<1>1. Sdk[head] \in SUBSET {"sibling_name", "turn_attribution"}
  BY SuiteAssumption DEF Init
<1>2. setup \in Setup /\ head \in Commit /\ daemon \in Daemon
  BY SuiteAssumption DEF Init
<1>3. installed \in BOOLEAN /\ fresh \in BOOLEAN
  BY DEF Init
<1>4. /\ moves \in Nat /\ pinned \in Commit \cup {NoCommit} /\ pinnedAt \in Nat
      /\ judged \in 0 .. 5 /\ asked \in 0 .. 3 /\ half \in 1 .. 3
      /\ incidents \in Nat /\ exit \in 0 .. 3
  BY DEF Init, Run!Running
<1> QED
  BY <1>1, <1>2, <1>3, <1>4 DEF Init, TypeOK

LEMMA InitIsSound ==
  ASSUME Init
  PROVE  IInv
<1>1. TypeOK
  BY InitIsTyped
<1>2. Control
  BY DEF Init, Control, Within
<1>3. Progress
  BY DEF Init, Progress, Within
<1>4. Ledger
  BY DEF Init, Ledger
<1> QED
  BY <1>1, <1>2, <1>3, <1>4 DEF IInv

-----------------------------------------------------------------------------
(***************************************************************************)
(* The steps outside the claims.                                           *)
(***************************************************************************)

\* What the claims of the current certification are depends on judged alone.
LEMMA SameClaims ==
  ASSUME UNCHANGED judged
  PROVE  /\ Current' = Current /\ Claims' = Claims /\ ClaimSet' = ClaimSet
         /\ Halves' = Halves
<1>1. Current' = Current
  BY DEF Current
<1>2. Claims' = Claims
  BY <1>1 DEF Claims
<1> QED
  BY <1>1, <1>2 DEF ClaimSet, Halves

LEMMA WorldIsSound ==
  ASSUME IInv, World
  PROVE  IInv'
<1>1. UNCHANGED <<setup, loaded, pinVars, claimVars, pc, judged, incidents, report, exit>>
  BY DEF World
<1>2. TypeOK'
  <2>1. moves' \in Nat
    BY DEF World, IInv, TypeOK
  <2>2. head' \in Commit /\ daemon' \in Daemon
    BY SuiteAssumption DEF World, MoveHead, RestartDaemon, Reinstall, IInv, TypeOK, Daemon
  <2>3. installed' \in BOOLEAN
    BY DEF World, MoveHead, RestartDaemon, Reinstall, IInv, TypeOK
  <2> QED
    BY <1>1, <2>1, <2>2, <2>3 DEF IInv, TypeOK, pinVars, claimVars
<1>3. Control'
  BY <1>1 DEF IInv, Control
<1>4. Progress'
  BY <1>1, SameClaims DEF IInv, Progress, claimVars
<1>5. Ledger'
  BY <1>1 DEF IInv, Ledger
<1> QED
  BY <1>2, <1>3, <1>4, <1>5 DEF IInv

LEMMA BeforeClaimsIsSound ==
  ASSUME IInv, Pin \/ TryGuards \/ ProbeSurface
  PROVE  IInv'
<1>1. UNCHANGED <<worldVars, claimVars, judged, incidents, report>>
  BY DEF Pin, TryGuards, ProbeSurface
<1>2. TypeOK'
  <2>1. fresh' \in BOOLEAN /\ pinned' \in Commit \cup {NoCommit} /\ pinnedAt' \in Nat
    BY DEF IInv, TypeOK, Pin, TryGuards, ProbeSurface, pinVars
  <2>2. guards' \in {"untried", "held", "failed"}
    BY DEF IInv, TypeOK, Pin, TryGuards, ProbeSurface, pinVars
  <2>3. pc' \in {"guards", "surface", "claim", "done"} /\ exit' \in 0 .. 3
    BY DEF IInv, TypeOK, Pin, TryGuards, ProbeSurface
  <2> QED
    BY <1>1, <2>1, <2>2, <2>3 DEF IInv, TypeOK, worldVars, claimVars
<1>3. Control'
  BY <1>1 DEF IInv, Control, Within, Pin, TryGuards, ProbeSurface, Run!Running
<1>4. Progress'
  <2>1. closed = {} /\ asked = 0 /\ half = 1 /\ results = {}
    BY DEF IInv, Progress, Pin, TryGuards, ProbeSurface
  <2> QED
    BY <1>1, <2>1 DEF Progress, Pin, TryGuards, ProbeSurface, claimVars, Within
<1>5. Ledger'
  BY <1>1 DEF IInv, Ledger, Control, Pin, TryGuards, ProbeSurface
<1> QED
  BY <1>2, <1>3, <1>4, <1>5 DEF IInv

-----------------------------------------------------------------------------
(***************************************************************************)
(* The steps of a claim.                                                   *)
(***************************************************************************)
LEMMA BeginIsSound ==
  ASSUME IInv, Begin
  PROVE  IInv'
<1>1. UNCHANGED <<worldVars, pinVars, claimVars, judged, incidents, report, exit>>
  BY DEF Begin
<1>2. pc = "claim" /\ pc' \in {"gate", "emit"}
  BY DEF Begin
<1>3. pc' = "gate" => judged \in 0 .. 4
  BY DEF Begin, IInv, TypeOK, Run!Certification
<1>4. pc' = "emit" => judged = 5
  BY DEF Begin, IInv, TypeOK, Run!Certification
<1>5. TypeOK'
  BY <1>1, <1>2 DEF IInv, TypeOK, worldVars, pinVars, claimVars
<1>6. Control'
  BY <1>1, <1>2, <1>3, <1>4 DEF IInv, Control, Within
<1>7. Progress'
  <2>1. closed = {} /\ asked = 0 /\ half = 1 /\ results = {}
    BY <1>2 DEF IInv, Progress
  <2>2. ASSUME pc' = "gate" PROVE 0 < Len(Claims)
    <3>1. Len(Claims) \in 1 .. 3
      BY <1>3, <2>2, Shapes
    <3> QED
      BY <3>1
  <2> QED
    BY <1>1, <1>2, <2>1, <2>2, SameClaims DEF Progress, claimVars, Within
<1>8. Ledger'
  BY <1>1, <1>2 DEF IInv, Ledger
<1> QED
  BY <1>5, <1>6, <1>7, <1>8 DEF IInv

LEMMA GateIsSound ==
  ASSUME IInv, Gate
  PROVE  IInv'
<1>1. /\ UNCHANGED <<worldVars, pinVars, half, results, judged, incidents, report, exit>>
      /\ pc = "gate" /\ pc' \in {"half", "gate"}
  BY DEF Gate
<1>2. judged \in 0 .. 4 /\ asked \in Nat /\ asked < Len(Claims) /\ half = 1 /\ results = {}
  BY <1>1 DEF IInv, TypeOK, Control, Progress, Within
<1>3. /\ Len(Claims) \in 1 .. 3
      /\ Claims[asked + 1] \in ClaimSet
      /\ ClaimSet \subseteq Claim
  BY <1>2, Shapes
<1>4. closed' \subseteq ClaimSet
  BY <1>1, <1>3 DEF Gate, IInv, Progress, Within
<1>5. asked' \in 0 .. 3 /\ (pc' = "gate" => asked' < Len(Claims))
  BY <1>1, <1>2, <1>3 DEF Gate
<1>6. TypeOK'
  BY <1>1, <1>3, <1>4, <1>5 DEF IInv, TypeOK, worldVars, pinVars
<1>7. Control'
  BY <1>1, <1>2 DEF IInv, Control, Within
<1>8. Progress'
  BY <1>1, <1>2, <1>4, <1>5, SameClaims DEF Progress, Within
<1>9. Ledger'
  BY <1>1 DEF IInv, Ledger
<1> QED
  BY <1>6, <1>7, <1>8, <1>9 DEF IInv

\* What a step within the live parts has to keep to.
LEMMA LivePartIsSound ==
  ASSUME IInv,
         pc \in {"half", "mainline", "daemon", "live"},
         UNCHANGED <<worldVars, pinVars, closed, asked, judged, report, exit>>,
         incidents' \in Nat,
         results' \in SUBSET Verdict,
         \A v \in results' : v.id \in ClaimSet \ {"C3c"},
         half' \in 1 .. 3,
         half' > 1 => results' # {} \/ closed # {},
         \/ pc' = "half"
         \/ pc' \in {"mainline", "daemon", "live"} /\ half' <= Len(Halves)
  PROVE  IInv'
<1>1. TypeOK'
  BY DEF IInv, TypeOK, worldVars, pinVars
<1>2. Control'
  BY DEF IInv, Control, Within
<1>3. Progress'
  <2>1. closed \subseteq ClaimSet
    BY DEF IInv, Progress, Within
  <2> QED
    BY <2>1, SameClaims DEF Progress, Within
<1>4. Ledger'
  BY DEF IInv, Ledger
<1> QED
  BY <1>1, <1>2, <1>3, <1>4 DEF IInv

LEMMA NextHalfIsSound ==
  ASSUME IInv, NextHalf
  PROVE  IInv'
<1>1. /\ UNCHANGED <<worldVars, pinVars, closed, asked, results, judged, incidents, report, exit>>
      /\ pc = "half" /\ half \in 1 .. Len(Halves)
  BY DEF NextHalf, IInv, TypeOK
<1>2. judged \in 0 .. 4
  BY <1>1 DEF IInv, Control, Within
<1>3. /\ Len(Halves) \in 1 .. 2
      /\ Halves[half] \subseteq ClaimSet
  BY <1>1, <1>2, Shapes
<1>4. /\ results \in SUBSET Verdict /\ incidents \in Nat
      /\ \A v \in results : v.id \in ClaimSet \ {"C3c"}
      /\ half > 1 => results # {} \/ closed # {}
  BY <1>1 DEF IInv, TypeOK, Progress, Within
<1>5. CASE Runs(Halves[half])
  <2>1. pc' = "mainline" /\ half' = half
    BY <1>5 DEF NextHalf
  <2> QED
    BY <1>1, <1>3, <1>4, <2>1, LivePartIsSound
<1>6. CASE ~Runs(Halves[half])
  <2>1. pc' = "half" /\ half' = half + 1
    BY <1>6 DEF NextHalf, EndHalf
  <2>2. closed # {}
    BY <1>6 DEF Runs
  <2>3. half \in 1 .. 2
    <3> DEFINE n == Len(Halves)
    <3>1. n \in 1 .. 2 /\ half \in 1 .. n
      BY <1>1, <1>3
    <3> HIDE DEF n
    <3> QED
      BY <3>1
  <2>4. half' \in 1 .. 3
    BY <2>1, <2>3
  <2> QED
    BY <1>1, <1>4, <2>1, <2>2, <2>4, LivePartIsSound
<1> QED
  BY <1>5, <1>6

\* A live part that ends has judged its claims.
LEMMA JudgedPartIsSound ==
  ASSUME IInv,
         pc \in {"mainline", "daemon", "live"},
         NEW states \in [Halves[half] -> State],
         NEW why \in Why,
         Judging(Halves[half], states, why),
         EndHalf,
         UNCHANGED <<worldVars, pinVars, closed, asked, judged, report, exit>>,
         incidents' \in Nat
  PROVE  IInv'
<1>1. judged \in 0 .. 4 /\ half \in 1 .. Len(Halves)
  BY DEF IInv, TypeOK, Control, Progress, Within
<1>2. /\ Len(Halves) \in 1 .. 2
      /\ Halves[half] # {}
      /\ Halves[half] \subseteq ClaimSet \ {"C3c"}
      /\ ClaimSet \subseteq Claim
  BY <1>1, Shapes
<1>3. /\ results \in SUBSET Verdict
      /\ \A v \in results : v.id \in ClaimSet \ {"C3c"}
  BY DEF IInv, TypeOK, Progress, Within
<1>4. \A id \in Halves[half] : [id |-> id, state |-> states[id], why |-> why] \in Verdict
  BY <1>2 DEF Verdict
<1>5. results' \in SUBSET Verdict /\ results' # {}
  <2> DEFINE found == {[id |-> id, state |-> states[id], why |-> why] : id \in Halves[half]}
  <2>1. results' = results \cup found
    BY DEF Judging
  <2>2. found \subseteq Verdict
    BY <1>4
  <2>3. found # {}
    BY <1>2
  <2> HIDE DEF found
  <2> QED
    BY <1>3, <2>1, <2>2, <2>3
<1>6. \A v \in results' : v.id \in ClaimSet \ {"C3c"}
  BY <1>2, <1>3 DEF Judging
<1>7. pc' = "half" /\ half' \in 1 .. 3
  BY <1>1, <1>2 DEF EndHalf
<1> QED
  BY <1>5, <1>6, <1>7, LivePartIsSound

\* Going on to the next await leaves what was found as it is.
LEMMA PassingIsSound ==
  ASSUME IInv,
         pc \in {"mainline", "daemon"},
         pc' \in {"daemon", "live"},
         UNCHANGED <<half, results>>,
         UNCHANGED <<worldVars, pinVars, closed, asked, judged, incidents, report, exit>>
  PROVE  IInv'
<1>1. /\ results \in SUBSET Verdict /\ incidents \in Nat /\ half \in 1 .. 3
      /\ \A v \in results : v.id \in ClaimSet \ {"C3c"}
      /\ half > 1 => results # {} \/ closed # {}
      /\ half <= Len(Halves)
  BY DEF IInv, TypeOK, Progress, Within
<1> QED
  BY <1>1, LivePartIsSound

LEMMA CheckMainlineIsSound ==
  ASSUME IInv, CheckMainline
  PROVE  IInv'
<1>1. /\ pc = "mainline" /\ incidents \in Nat
      /\ UNCHANGED <<worldVars, pinVars, closed, asked, judged, incidents, report, exit>>
  BY DEF CheckMainline, IInv, TypeOK
<1>2. \/ \E why \in Why : Unmet(why)
      \/ pc' = "daemon" /\ UNCHANGED <<half, results>>
  BY DEF CheckMainline, Why
<1>3. ASSUME NEW why \in Why, Unmet(why) PROVE IInv'
  <2>1. [id \in Halves[half] |-> "BLOCKED"] \in [Halves[half] -> State]
    BY DEF State
  <2>2. EndHalf /\ Judging(Halves[half], [id \in Halves[half] |-> "BLOCKED"], why)
    BY <1>3 DEF Unmet
  <2> QED
    BY <1>1, <2>1, <2>2, JudgedPartIsSound
<1>4. CASE pc' = "daemon" /\ UNCHANGED <<half, results>>
  BY <1>1, <1>4, PassingIsSound
<1> QED
  BY <1>2, <1>3, <1>4

LEMMA CheckDaemonIsSound ==
  ASSUME IInv, CheckDaemon
  PROVE  IInv'
<1>1. /\ pc = "daemon" /\ incidents \in Nat
      /\ UNCHANGED <<worldVars, pinVars, closed, asked, judged, incidents, report, exit>>
  BY DEF CheckDaemon, IInv, TypeOK
<1>2. \/ \E why \in Why : Unmet(why)
      \/ pc' = "live" /\ UNCHANGED <<half, results>>
  BY DEF CheckDaemon, Why
<1>3. ASSUME NEW why \in Why, Unmet(why) PROVE IInv'
  <2>1. [id \in Halves[half] |-> "BLOCKED"] \in [Halves[half] -> State]
    BY DEF State
  <2>2. EndHalf /\ Judging(Halves[half], [id \in Halves[half] |-> "BLOCKED"], why)
    BY <1>3 DEF Unmet
  <2> QED
    BY <1>1, <2>1, <2>2, JudgedPartIsSound
<1>4. CASE pc' = "live" /\ UNCHANGED <<half, results>>
  BY <1>1, <1>4, PassingIsSound
<1> QED
  BY <1>2, <1>3, <1>4

LEMMA GoLiveIsSound ==
  ASSUME IInv, GoLive
  PROVE  IInv'
<1>1. /\ pc = "live" /\ EndHalf
      /\ UNCHANGED <<worldVars, pinVars, closed, asked, judged, report, exit>>
  BY DEF GoLive
<1>2. incidents' \in Nat
  BY DEF GoLive, IInv, TypeOK
<1>3. \E states \in [Halves[half] -> State], why \in Why : Judging(Halves[half], states, why)
  <2>1. CASE Judging(Halves[half], [id \in Halves[half] |-> "PASS"], "live")
    <3>1. [id \in Halves[half] |-> "PASS"] \in [Halves[half] -> State] /\ "live" \in Why
      BY DEF State, Why
    <3> QED
      BY <2>1, <3>1
  <2>2. CASE \E states \in [Halves[half] -> {"PASS", "FAIL"}] :
               Judging(Halves[half], states, "live")
    <3>1. PICK states \in [Halves[half] -> {"PASS", "FAIL"}] :
             Judging(Halves[half], states, "live")
      BY <2>2
    <3>2. states \in [Halves[half] -> State] /\ "live" \in Why
      BY DEF State, Why
    <3> QED
      BY <3>1, <3>2
  <2>3. CASE Judging(Halves[half], [id \in Halves[half] |-> "BLOCKED"], "spawn")
    <3>1. [id \in Halves[half] |-> "BLOCKED"] \in [Halves[half] -> State] /\ "spawn" \in Why
      BY DEF State, Why
    <3> QED
      BY <2>3, <3>1
  <2> QED
    BY <2>1, <2>2, <2>3 DEF GoLive
<1>4. PICK states \in [Halves[half] -> State], why \in Why :
         Judging(Halves[half], states, why)
  BY <1>3
<1> QED
  BY <1>1, <1>2, <1>4, JudgedPartIsSound

-----------------------------------------------------------------------------
(***************************************************************************)
(* The verdicts, and the promise of the run.                               *)
(***************************************************************************)

\* The verdict on a claim is one of that claim.
LEMMA VerdictIsOwn ==
  ASSUME TypeOK, NEW id \in Claim
  PROVE  VerdictOn(id) \in Verdict /\ VerdictOn(id).id = id
<1>1. CASE HasRun(id)
  <2>1. VerdictOn(id) = CHOOSE v \in results : v.id = id
    BY <1>1 DEF VerdictOn
  <2>2. \E v \in results : v.id = id
    BY <1>1 DEF HasRun
  <2>3. VerdictOn(id) \in results /\ VerdictOn(id).id = id
    BY <2>1, <2>2
  <2> QED
    BY <2>3 DEF TypeOK
<1>2. CASE ~HasRun(id) /\ id \notin closed
  <2>1. VerdictOn(id) = [id |-> id, state |-> "BLOCKED", why |-> "rules"]
    BY <1>2 DEF VerdictOn
  <2> QED
    BY <2>1 DEF Verdict, State, Why
<1>3. CASE ~HasRun(id) /\ id = "C5a" /\ "C5b" \notin closed /\ id \in closed
  <2>1. VerdictOn(id) = [id |-> id, state |-> "FAIL", why |-> "unrun"]
    BY <1>3 DEF VerdictOn
  <2> QED
    BY <2>1 DEF Verdict, State, Why
<1>4. CASE /\ ~HasRun(id) /\ id \in closed
           /\ ~(id = "C5a" /\ "C5b" \notin closed)
  <2>1. VerdictOn(id) = [id |-> id, state |-> "BLOCKED", why |-> "surface"]
    BY <1>4 DEF VerdictOn
  <2> QED
    BY <2>1 DEF Verdict, State, Why
<1> QED
  BY <1>1, <1>2, <1>3, <1>4

\* A claim that goes on after a report of its verdicts is at its start.
LEMMA NextClaimIsSound ==
  ASSUME IInv,
         pc \in Within,
         NextClaim,
         UNCHANGED <<worldVars, pinVars, exit>>,
         incidents' \in Nat,
         NEW found \in SUBSET Verdict,
         \A v \in found : v.id \in ClaimSet \cup {Current},
         judged = 2 => \E v \in found : v.state \in {"FAIL", "BLOCKED"},
         report' = report \cup found
  PROVE  IInv'
<1>1. judged \in 0 .. 4 /\ judged' = judged + 1 /\ pc' = "claim"
  BY DEF IInv, Control, NextClaim
<1>2. TypeOK'
  BY <1>1 DEF IInv, TypeOK, NextClaim, worldVars, pinVars
<1>3. Control'
  BY <1>1 DEF IInv, Control, Within
<1>4. Progress'
  BY <1>1 DEF Progress, NextClaim, Within
<1>5. Ledger'
  <2>1. \A v \in found : Rank(v.id) = judged + 1
    BY <1>1, Shapes
  <2>2. \A v \in report : Rank(v.id) <= judged
    BY DEF IInv, Ledger
  <2>3. \A v \in report' : Rank(v.id) <= judged + 1
    <3> SUFFICES ASSUME NEW v \in report' PROVE Rank(v.id) <= judged + 1
      OBVIOUS
    <3>1. CASE v \in found
      BY <1>1, <2>1, <3>1
    <3>2. CASE v \in report
      <4>1. Rank(v.id) <= judged
        BY <2>2, <3>2
      <4>2. Rank(v.id) \in Nat
        BY DEF Rank
      <4> QED
        BY <1>1, <4>1, <4>2
    <3> QED
      BY <3>1, <3>2
  <2>4. judged + 1 >= 3 => \E v \in report' : v.state \in {"FAIL", "BLOCKED"}
    <3>1. CASE judged = 2
      BY <3>1
    <3>2. CASE judged >= 3
      BY <3>2 DEF IInv, Ledger
    <3> QED
      BY <1>1, <3>1, <3>2
  <2> QED
    BY <1>1, <2>3, <2>4 DEF Ledger
<1> QED
  BY <1>2, <1>3, <1>4, <1>5 DEF IInv

\* What a certification returns: verdicts of its own, one of each, at least
\* one, and for C3 one that did not hold.
LEMMA ReturnedIsOwn ==
  ASSUME IInv, pc = "half", half > Len(Halves)
  PROVE  /\ Returned \in SUBSET Verdict
         /\ Returned # {}
         /\ \A v \in Returned : v.id \in ClaimSet
         /\ \A v, w \in Returned : v.id = w.id => v = w
         /\ judged = 2 => \E v \in Returned : v.state \in {"FAIL", "BLOCKED"}
<1> DEFINE Ids == {i \in ClaimSet : HasRun(i) \/ i \in closed \/ i = "C3c"}
<1>1. judged \in 0 .. 4
  BY DEF IInv, Control, Within
<1>2. ClaimSet \subseteq Claim /\ (judged = 2 => "C3c" \in ClaimSet) /\ Len(Halves) \in 1 .. 2
  BY <1>1, Shapes
<1>3. /\ closed \subseteq ClaimSet
      /\ \A v \in results : v.id \in ClaimSet \ {"C3c"}
      /\ half > 1 => results # {} \/ closed # {}
  BY DEF IInv, Progress, Within
<1>4. Returned = {VerdictOn(id) : id \in Ids}
  BY DEF Returned
<1>5. \A id \in Ids : VerdictOn(id) \in Verdict /\ VerdictOn(id).id = id
  BY <1>2, VerdictIsOwn DEF IInv
<1>6. Ids # {}
  <2>1. half > 1
    <3> DEFINE n == Len(Halves)
    <3>1. n \in 1 .. 2 /\ half > n /\ half \in 1 .. 3
      BY <1>2 DEF IInv, TypeOK
    <3> HIDE DEF n
    <3> QED
      BY <3>1
  <2>2. CASE closed # {}
    BY <1>3, <2>2
  <2>3. CASE results # {}
    <3>1. PICK v \in results : v.id \in ClaimSet
      BY <1>3, <2>3
    <3>2. v.id \in Ids
      BY <3>1 DEF HasRun
    <3> QED
      BY <3>2
  <2> QED
    BY <1>3, <2>1, <2>2, <2>3
<1>7. ASSUME judged = 2 PROVE \E v \in Returned : v.state \in {"FAIL", "BLOCKED"}
  <2>1. "C3c" \in Ids
    BY <1>2, <1>7
  <2>2. ~HasRun("C3c")
    BY <1>3 DEF HasRun
  <2>3. VerdictOn("C3c").state = "BLOCKED"
    <3>1. CASE "C3c" \notin closed
      <4>1. VerdictOn("C3c") = [id |-> "C3c", state |-> "BLOCKED", why |-> "rules"]
        BY <2>2, <3>1 DEF VerdictOn
      <4> QED
        BY <4>1
    <3>2. CASE "C3c" \in closed
      <4>1. VerdictOn("C3c") = [id |-> "C3c", state |-> "BLOCKED", why |-> "surface"]
        BY <2>2, <3>2 DEF VerdictOn
      <4> QED
        BY <4>1
    <3> QED
      BY <3>1, <3>2
  <2> HIDE DEF Ids
  <2> QED
    BY <1>4, <2>1, <2>3
<1> HIDE DEF Ids
<1>8. \A v \in Returned : v.id \in Ids /\ v = VerdictOn(v.id)
  BY <1>4, <1>5
<1>9. \A id \in Ids : id \in ClaimSet
  BY DEF Ids
<1> QED
  BY <1>4, <1>5, <1>6, <1>7, <1>8, <1>9

LEMMA ReportClaimIsSound ==
  ASSUME IInv, ReportClaim
  PROVE  IInv'
<1>1. /\ pc = "half" /\ half > Len(Halves) /\ NextClaim
      /\ report' = report \cup Returned
      /\ UNCHANGED <<worldVars, pinVars, exit>> /\ incidents' \in Nat /\ pc \in Within
  BY DEF ReportClaim, IInv, TypeOK, Within
<1> QED
  BY <1>1, ReturnedIsOwn, NextClaimIsSound

\* The verdict of a certification that raised.
LEMMA RaisedIsOwn ==
  ASSUME judged \in 0 .. 4
  PROVE  /\ Raised \in Verdict
         /\ Raised.id = Current
         /\ Raised.state = "FAIL"
<1>1. Current \in {"C1", "C2", "C3", "C4", "C5"}
  BY Shapes
<1> QED
  BY <1>1 DEF Raised, Verdict, Claim, State, Why

LEMMA ClaimRaisesIsSound ==
  ASSUME IInv, ClaimRaises
  PROVE  IInv'
<1>1. /\ pc \in Within /\ NextClaim
      /\ report' = report \cup {Raised}
      /\ UNCHANGED <<worldVars, pinVars, exit>>
  BY DEF ClaimRaises, Isolate, Within
<1>2. incidents' \in Nat
  BY DEF ClaimRaises, IInv, TypeOK
<1>3. judged \in 0 .. 4
  BY <1>1 DEF IInv, Control
<1>4. Raised \in Verdict /\ Raised.id = Current /\ Raised.state = "FAIL"
  BY <1>3, RaisedIsOwn
<1>5. {Raised} \in SUBSET Verdict /\ \A v \in {Raised} : v.id \in ClaimSet \cup {Current}
  BY <1>4
<1>6. \E v \in {Raised} : v.state \in {"FAIL", "BLOCKED"}
  BY <1>4
<1> QED
  BY <1>1, <1>2, <1>5, <1>6, NextClaimIsSound

LEMMA EmitIsSound ==
  ASSUME IInv, Emit
  PROVE  IInv'
<1>1. /\ pc = "emit" /\ pc' = "done" /\ exit' = Run!ExitCode(report) /\ judged = 5
      /\ UNCHANGED <<worldVars, pinVars, claimVars, judged, incidents, report>>
  BY DEF Emit, ExitCode, IInv, Control
<1>2. exit' \in {1, 2}
  <2>1. PICK v \in report : v.state \in {"FAIL", "BLOCKED"}
    BY <1>1 DEF IInv, Ledger
  <2>2. v.state \in Run!StatesIn(report)
    BY DEF Run!StatesIn
  <2>3. CASE "FAIL" \in Run!StatesIn(report)
    BY <1>1, <2>3 DEF Run!ExitCode
  <2>4. CASE "FAIL" \notin Run!StatesIn(report) /\ "BLOCKED" \in Run!StatesIn(report)
    BY <1>1, <2>4 DEF Run!ExitCode
  <2> QED
    BY <2>1, <2>2, <2>3, <2>4
<1>3. TypeOK'
  BY <1>1, <1>2 DEF IInv, TypeOK, worldVars, pinVars, claimVars
<1>4. Control'
  BY <1>1, <1>2 DEF IInv, Control, Within, Run!Running
<1>5. Progress'
  BY <1>1 DEF Progress, Within
<1>6. Ledger'
  BY <1>1, <1>2 DEF IInv, Ledger
<1> QED
  BY <1>3, <1>4, <1>5, <1>6 DEF IInv

LEMMA StutterIsSound ==
  ASSUME IInv, UNCHANGED vars
  PROVE  IInv'
<1>1. UNCHANGED <<worldVars, pinVars, claimVars, pc, judged, incidents, report, exit>>
  BY DEF vars
<1>2. TypeOK'
  BY <1>1 DEF IInv, TypeOK, worldVars, pinVars, claimVars
<1>3. Control' /\ Ledger'
  BY <1>1 DEF IInv, Control, Ledger
<1>4. Progress'
  BY <1>1, SameClaims DEF IInv, Progress, claimVars
<1> QED
  BY <1>2, <1>3, <1>4 DEF IInv

\* The invariant holds throughout.
THEOREM Sound == Spec => []IInv
<1>1. Init => IInv
  BY InitIsSound
<1>2. IInv /\ [Next]_vars => IInv'
  <2> SUFFICES ASSUME IInv, [Next]_vars PROVE IInv'
    OBVIOUS
  <2>1. CASE World
    BY <2>1, WorldIsSound
  <2>2. CASE Pin \/ TryGuards \/ ProbeSurface
    BY <2>2, BeforeClaimsIsSound
  <2>3. CASE Begin
    BY <2>3, BeginIsSound
  <2>4. CASE Gate
    BY <2>4, GateIsSound
  <2>5. CASE NextHalf
    BY <2>5, NextHalfIsSound
  <2>6. CASE CheckMainline
    BY <2>6, CheckMainlineIsSound
  <2>7. CASE CheckDaemon
    BY <2>7, CheckDaemonIsSound
  <2>8. CASE GoLive
    BY <2>8, GoLiveIsSound
  <2>9. CASE ReportClaim
    BY <2>9, ReportClaimIsSound
  <2>10. CASE ClaimRaises
    BY <2>10, ClaimRaisesIsSound
  <2>11. CASE Emit
    BY <2>11, EmitIsSound
  <2>12. CASE Finished \/ UNCHANGED vars
    BY <2>12, StutterIsSound DEF Finished
  <2> QED
    BY <2>1, <2>2, <2>3, <2>4, <2>5, <2>6, <2>7, <2>8, <2>9, <2>10, <2>11, <2>12
    DEF Next, SuiteStep
<1> QED
  BY <1>1, <1>2, PTL DEF Spec

-----------------------------------------------------------------------------
\* Every variable of the suite stays in its type.
THEOREM TypeCorrect == Spec => []TypeOK
<1>1. IInv => TypeOK
  BY DEF IInv
<1> QED
  BY <1>1, Sound, PTL

\* The program never exits with 0, whatever the framework offers: C3c is
\* blocked on every path, and a certification that raises in its stead fails.
THEOREM NothingAllHeld == Spec => []NeverAllHeld
<1>1. IInv => NeverAllHeld
  BY DEF IInv, Control, Ledger, NeverAllHeld, Run!Running
<1> QED
  BY <1>1, Sound, PTL

\* A certification's verdicts are a judgement in the abstract run.
LEMMA JudgesAsPromised ==
  ASSUME IInv,
         pc \in Within,
         NextClaim,
         UNCHANGED exit,
         NEW found \in SUBSET Verdict,
         found # {},
         \A v \in found : v.id \in ClaimSet \cup {Current},
         \A v, w \in found : v.id = w.id => v = w,
         report' = report \cup found
  PROVE  Run!Judge
<1>1. judged \in 0 .. 4 /\ judged' = judged + 1 /\ exit = Run!Running
  BY DEF IInv, Control, NextClaim, Within
<1>2. \A v \in found : Rank(v.id) = judged + 1 /\ v.id \in Run!OwnIds(Current)
  BY <1>1, Shapes
<1>3. \A v \in report : Rank(v.id) <= judged
  BY DEF IInv, Ledger
<1>4. \A v \in found : v.id \notin Run!Reported(report)
  <2> SUFFICES ASSUME NEW v \in found, NEW w \in report, v.id = w.id PROVE FALSE
    BY DEF Run!Reported
  <2>1. Rank(v.id) = judged + 1 /\ Rank(v.id) <= judged
    BY <1>2, <1>3
  <2> QED
    BY <1>1, <2>1
<1>5. report' \ report = found
  BY <1>4 DEF Run!Reported
<1>6. Run!Reported(found) \subseteq Run!OwnIds(Current) \ Run!Reported(report)
  BY <1>2, <1>4 DEF Run!Reported
<1>7. Run!IsJudgement(Current, report' \ report)
  BY <1>5, <1>6 DEF Run!IsJudgement
<1>8. judged < Len(Run!Certification)
  BY <1>1 DEF Run!Certification
<1> QED
  BY <1>1, <1>7, <1>8 DEF Run!Judge, Current

\* The suite implements CertificationRun: whatever raises, the report gets the
\* verdicts of each certification in turn, and the exit code is the report's.
THEOREM Implementation == Spec => ImplementsRun
<1>1. Init => Run!Init
  BY DEF Init, Run!Init
<1>2. IInv /\ [Next]_vars => [Run!Next]_Run!runVars
  <2> SUFFICES ASSUME IInv, [Next]_vars PROVE [Run!Next]_Run!runVars
    OBVIOUS
  <2>1. CASE ProbeSurface
    <3>1. judged = 0 /\ exit = Run!Running
      BY <2>1 DEF ProbeSurface, IInv, Control
    <3>2. UNCHANGED <<judged, report, exit>> \/ Run!GiveUp
      BY <2>1, <3>1 DEF ProbeSurface, Run!GiveUp
    <3> QED
      BY <3>2 DEF Run!Next, Run!runVars
  <2>2. CASE ReportClaim
    <3>1. /\ pc = "half" /\ half > Len(Halves) /\ NextClaim /\ UNCHANGED exit
          /\ report' = report \cup Returned /\ pc \in Within
      BY <2>2 DEF ReportClaim, Within
    <3>2. Run!Judge
      BY <3>1, ReturnedIsOwn, JudgesAsPromised
    <3> QED
      BY <3>2 DEF Run!Next
  <2>3. CASE ClaimRaises
    <3>1. /\ pc \in Within /\ NextClaim /\ UNCHANGED exit
          /\ report' = report \cup {Raised}
      BY <2>3 DEF ClaimRaises, Isolate, Within
    <3>2. Raised \in Verdict /\ Raised.id = Current
      BY <3>1, RaisedIsOwn DEF IInv, Control
    <3>3. {Raised} \in SUBSET Verdict /\ \A v \in {Raised} : v.id \in ClaimSet \cup {Current}
      BY <3>2
    <3>4. Run!Judge
      BY <3>1, <3>3, JudgesAsPromised
    <3> QED
      BY <3>4 DEF Run!Next
  <2>4. CASE Emit
    <3>1. Run!End
      BY <2>4 DEF Emit, ExitCode, IInv, Control, Run!End, Run!Certification
    <3> QED
      BY <3>1 DEF Run!Next
  <2>5. CASE Pin \/ TryGuards \/ Begin \/ Gate
    BY <2>5 DEF Pin, TryGuards, Begin, Gate, Run!runVars
  <2>6. CASE NextHalf \/ CheckMainline \/ CheckDaemon \/ GoLive
    BY <2>6 DEF NextHalf, CheckMainline, CheckDaemon, GoLive, Run!runVars
  <2>7. CASE World \/ Finished \/ UNCHANGED vars
    BY <2>7 DEF World, Finished, vars, Run!runVars
  <2> QED
    BY <2>1, <2>2, <2>3, <2>4, <2>5, <2>6, <2>7 DEF Next, SuiteStep
<1> QED
  BY <1>1, <1>2, Sound, PTL DEF Spec, ImplementsRun, Run!Spec

-----------------------------------------------------------------------------
(***************************************************************************)
(* What the suite blocks and what it lets go live, for every history of    *)
(* the world while it runs: a fresh daemon is not called stale, a pinned   *)
(* commit off the mainline goes live only if the checkout was moved, and a *)
(* claim whose gate was closed is not judged.                              *)
(***************************************************************************)


\* A daemon no older than the pinned commit stays so, and nothing calls it stale.
FreshInv ==
  /\ pc = "pin" => ~fresh
  /\ fresh => /\ pinned \in Commit
              /\ daemon.started >= CommitTime[pinned]
              /\ \A v \in results \cup report : v.why # "stale"

\* What was pinned is HEAD until the world moves.
PinInv ==
  /\ pinnedAt <= moves
  /\ pinned \in Commit /\ moves = pinnedAt => head = pinned
  /\ /\ pc \in {"daemon", "live"}
     /\ setup.git /\ setup.remote
     /\ pinned \in Commit \ Mainline
     => moves > pinnedAt

\* No closed claim is part of what runs or of what was found.
GateInv ==
  /\ pc \in {"mainline", "daemon", "live"} => Halves[half] \cap closed = {}
  /\ pc \in Within => \A v \in results : v.id \notin closed

-----------------------------------------------------------------------------
\* The reasons a step can give for a verdict of a live part.
LEMMA StepsOfPart ==
  ASSUME CheckMainline \/ CheckDaemon \/ GoLive
  PROVE  /\ UNCHANGED <<worldVars, pinVars, closed, asked, judged, report, exit>>
         /\ pc \in {"mainline", "daemon", "live"}
         /\ \/ /\ pc' \in {"daemon", "live"} /\ UNCHANGED <<half, results>>
               /\ pc' = "daemon" => pc = "mainline"
               /\ pc' = "live" => pc = "daemon"
            \/ /\ pc' = "half" /\ half' = half + 1
               /\ \A v \in results' \ results :
                    /\ v.id \in Halves[half]
                    /\ v.why = "stale" => IsStale
<1>1. ASSUME NEW states, NEW why, Judging(Halves[half], states, why),
             why = "stale" => IsStale
      PROVE  \A v \in results' \ results :
               v.id \in Halves[half] /\ (v.why = "stale" => IsStale)
  BY <1>1 DEF Judging
<1>2. CASE CheckMainline
  <2>1. CASE Unmet("setup")
    BY <1>2, <2>1, <1>1 DEF CheckMainline, Unmet, EndHalf
  <2>2. CASE Unmet("mainline")
    BY <1>2, <2>2, <1>1 DEF CheckMainline, Unmet, EndHalf
  <2>3. CASE pc' = "daemon" /\ UNCHANGED <<half, results>>
    BY <1>2, <2>3 DEF CheckMainline
  <2> QED
    BY <1>2, <2>1, <2>2, <2>3 DEF CheckMainline
<1>3. CASE CheckDaemon
  <2>1. CASE IsStale /\ Unmet("stale")
    BY <1>3, <2>1, <1>1 DEF CheckDaemon, Unmet, EndHalf
  <2>2. CASE Unmet("setup")
    BY <1>3, <2>2, <1>1 DEF CheckDaemon, Unmet, EndHalf
  <2>3. CASE pc' = "live" /\ UNCHANGED <<half, results>>
    BY <1>3, <2>3 DEF CheckDaemon
  <2> QED
    BY <1>3, <2>1, <2>2, <2>3 DEF CheckDaemon
<1>4. CASE GoLive
  <2>1. pc = "live" /\ EndHalf
        /\ UNCHANGED <<worldVars, pinVars, closed, asked, judged, report, exit>>
    BY <1>4 DEF GoLive
  <2>2. CASE Judging(Halves[half], [id \in Halves[half] |-> "PASS"], "live")
    BY <2>1, <2>2, <1>1 DEF EndHalf
  <2>3. CASE Judging(Halves[half], [id \in Halves[half] |-> "BLOCKED"], "spawn")
    BY <2>1, <2>3, <1>1 DEF EndHalf
  <2>4. ASSUME NEW states \in [Halves[half] -> {"PASS", "FAIL"}],
               Judging(Halves[half], states, "live")
        PROVE  \A v \in results' \ results :
                 v.id \in Halves[half] /\ (v.why = "stale" => IsStale)
    BY <2>4, <1>1
  <2> QED
    BY <1>4, <2>1, <2>2, <2>3, <2>4 DEF GoLive, EndHalf
<1> QED
  BY <1>2, <1>3, <1>4

\* A verdict of the report was found by a live part, or is of a claim that did
\* not run.
LEMMA VerdictIsFound ==
  ASSUME NEW id
  PROVE  \/ VerdictOn(id) \in results /\ VerdictOn(id).id = id
         \/ /\ ~HasRun(id)
            /\ VerdictOn(id).id = id
            /\ VerdictOn(id).why \in {"rules", "unrun", "surface"}
            /\ id \in closed =>
                 VerdictOn(id).state = "BLOCKED" \/ (id = "C5a" /\ "C5b" \notin closed)
<1>1. CASE HasRun(id)
  <2>1. VerdictOn(id) = CHOOSE v \in results : v.id = id
    BY <1>1 DEF VerdictOn
  <2>2. \E v \in results : v.id = id
    BY <1>1 DEF HasRun
  <2> QED
    BY <2>1, <2>2
<1>2. CASE ~HasRun(id)
  BY <1>2 DEF VerdictOn
<1> QED
  BY <1>1, <1>2

-----------------------------------------------------------------------------
LEMMA FreshStep ==
  ASSUME IInv, FreshInv, [Next]_vars
  PROVE  FreshInv'
<1>1. CASE World
  <2>1. UNCHANGED <<pinVars, claimVars, pc, report>>
    BY <1>1 DEF World
  <2>2. ASSUME pinned \in Commit, daemon.started >= CommitTime[pinned]
        PROVE  daemon'.started >= CommitTime[pinned]
    <3>1. CASE RestartDaemon
      BY <2>2, <3>1, SuiteAssumption DEF RestartDaemon
    <3>2. CASE MoveHead \/ Reinstall
      BY <2>2, <3>2 DEF MoveHead, Reinstall
    <3> QED
      BY <1>1, <3>1, <3>2 DEF World
  <2> QED
    BY <2>1, <2>2 DEF FreshInv, pinVars, claimVars
<1>2. CASE Pin
  <2>1. results' = {} /\ report' = {} /\ UNCHANGED daemon /\ pc' # "pin"
    BY <1>2 DEF Pin, IInv, Control, Progress, claimVars, worldVars
  <2>2. fresh' => pinned' = head /\ head \in Commit /\ daemon.started >= CommitTime[head]
    BY <1>2 DEF Pin, IInv, TypeOK
  <2> QED
    BY <2>1, <2>2 DEF FreshInv
<1>3. CASE CheckMainline \/ CheckDaemon \/ GoLive
  <2>1. UNCHANGED <<pinVars, daemon, report>> /\ pc' # "pin"
    BY <1>3, StepsOfPart DEF worldVars
  <2>2. fresh => ~IsStale
    <3>1. ASSUME fresh PROVE daemon.started >= CommitTime[pinned] /\ Certified = pinned
      BY <3>1, SuiteAssumption DEF FreshInv, Certified
    <3>2. ASSUME fresh PROVE daemon.started \in Nat /\ CommitTime[pinned] \in Nat
      BY <3>2, SuiteAssumption DEF FreshInv, IInv, TypeOK, Daemon
    <3> QED
      BY <3>1, <3>2 DEF IsStale
  <2>3. fresh => \A v \in results' : v.why # "stale"
    BY <1>3, <2>2, StepsOfPart DEF FreshInv
  <2> QED
    BY <2>1, <2>3 DEF FreshInv, pinVars
<1>4. CASE ReportClaim
  <2>1. /\ UNCHANGED <<pinVars, daemon>> /\ pc' # "pin" /\ results' = {}
        /\ report' = report \cup Returned
    BY <1>4 DEF ReportClaim, NextClaim, worldVars
  <2>2. fresh => \A v \in Returned : v.why # "stale"
    BY VerdictIsFound DEF FreshInv, Returned
  <2> QED
    BY <2>1, <2>2 DEF FreshInv, pinVars
<1>5. CASE ClaimRaises
  BY <1>5 DEF ClaimRaises, Isolate, NextClaim, Raised, FreshInv, pinVars, worldVars
<1>6. CASE TryGuards \/ ProbeSurface \/ Begin \/ Gate \/ NextHalf \/ Emit
  <2>1. UNCHANGED <<daemon, pinned, fresh, results, report>> /\ pc' # "pin"
    BY <1>6 DEF TryGuards, ProbeSurface, Begin, Gate, NextHalf, EndHalf, Emit, worldVars,
                pinVars, claimVars
  <2> QED
    BY <2>1 DEF FreshInv
<1>7. CASE Finished \/ UNCHANGED vars
  BY <1>7 DEF Finished, vars, FreshInv, worldVars, pinVars, claimVars
<1> QED
  BY <1>1, <1>2, <1>3, <1>4, <1>5, <1>6, <1>7 DEF Next, SuiteStep

\* A daemon that was no older than the commit when it was pinned is never
\* reported stale, whatever lands on the checkout afterwards: what
\* check_daemon_is_newer_than_the_code compares is the pin.
THEOREM FreshStaysFresh == Spec => []MergesDoNotAbort
<1>1. Init => FreshInv
  BY DEF Init, FreshInv
<1>2. IInv /\ FreshInv /\ [Next]_vars => FreshInv'
  BY FreshStep
<1>3. FreshInv => MergesDoNotAbort
  BY DEF FreshInv, MergesDoNotAbort
<1> QED
  BY <1>1, <1>2, <1>3, Sound, PTL DEF Spec

-----------------------------------------------------------------------------
LEMMA PinStep ==
  ASSUME IInv, PinInv, [Next]_vars
  PROVE  PinInv'
<1>1. moves \in Nat /\ pinnedAt \in Nat
  BY DEF IInv, TypeOK
<1>2. CASE World
  <2>1. moves' = moves + 1 /\ UNCHANGED pinnedAt
    BY <1>2 DEF World, pinVars
  <2>2. moves' > pinnedAt'
    BY <1>1, <2>1 DEF PinInv
  <2> QED
    BY <1>1, <2>1, <2>2 DEF PinInv
<1>3. CASE Pin
  <2>1. pinned' \in {NoCommit, head} /\ pinnedAt' = moves /\ pc' = "guards"
        /\ UNCHANGED <<head, moves>>
    BY <1>3 DEF Pin, worldVars
  <2> QED
    BY <1>1, <2>1, SuiteAssumption DEF PinInv
<1>4. CASE CheckMainline
  <2>1. UNCHANGED <<setup, head, moves, pinned, pinnedAt>> /\ pc' # "live"
    BY <1>4, StepsOfPart DEF worldVars, pinVars, CheckMainline
  <2>2. pc' = "daemon" => ~OffMainline
    BY <1>4 DEF CheckMainline, Unmet, EndHalf
  <2> QED
    BY <1>1, <2>1, <2>2 DEF PinInv, OffMainline
<1>5. CASE CheckDaemon \/ GoLive
  <2>1. UNCHANGED <<setup, head, moves, pinned, pinnedAt>>
    BY <1>5, StepsOfPart DEF worldVars, pinVars
  <2>2. pc' \in {"daemon", "live"} => pc = "daemon"
    BY <1>5 DEF CheckDaemon, GoLive, Unmet, EndHalf
  <2> QED
    BY <2>1, <2>2 DEF PinInv
<1>6. CASE \/ TryGuards \/ ProbeSurface \/ Begin \/ Gate \/ NextHalf \/ ReportClaim
           \/ ClaimRaises \/ Emit
  <2>1. UNCHANGED <<setup, head, moves, pinned, pinnedAt>> /\ pc' \notin {"daemon", "live"}
    BY <1>6 DEF TryGuards, ProbeSurface, Begin, Gate, NextHalf, EndHalf, ReportClaim,
                ClaimRaises, Isolate, NextClaim, Emit, worldVars, pinVars
  <2> QED
    BY <2>1 DEF PinInv
<1>7. CASE Finished \/ UNCHANGED vars
  BY <1>7 DEF Finished, vars, PinInv, worldVars, pinVars
<1> QED
  BY <1>2, <1>3, <1>4, <1>5, <1>6, <1>7 DEF Next, SuiteStep

\* A live claim certifies a pinned commit off the mainline only where somebody
\* moved the checkout after the pin: check_head_is_mainline looks at HEAD.
THEOREM PinnedIsMainline == Spec => []MainlineIsCertified
<1>1. Init => PinInv
  BY SuiteAssumption DEF Init, PinInv
<1>2. IInv /\ PinInv /\ [Next]_vars => PinInv'
  BY PinStep
<1>3. PinInv => MainlineIsCertified
  BY DEF PinInv, MainlineIsCertified
<1> QED
  BY <1>1, <1>2, <1>3, Sound, PTL DEF Spec

-----------------------------------------------------------------------------
LEMMA GateStep ==
  ASSUME IInv, GateInv, [Next]_vars
  PROVE  GateInv'
<1>1. CASE CheckMainline \/ CheckDaemon \/ GoLive
  <2>1. UNCHANGED <<closed, judged>> /\ pc \in {"mainline", "daemon", "live"}
    BY <1>1, StepsOfPart
  <2>2. \A v \in results : v.id \notin closed
    BY <2>1 DEF GateInv, Within
  <2>3. Halves[half] \cap closed = {}
    BY <2>1 DEF GateInv
  <2>4. CASE pc' \in {"daemon", "live"} /\ UNCHANGED <<half, results>>
    BY <2>1, <2>2, <2>3, <2>4, SameClaims DEF GateInv
  <2>5. CASE pc' = "half" /\ \A v \in results' \ results : v.id \in Halves[half]
    BY <2>1, <2>2, <2>3, <2>5 DEF GateInv
  <2> QED
    BY <1>1, <2>4, <2>5, StepsOfPart
<1>2. CASE NextHalf
  <2>1. UNCHANGED <<closed, judged, results>> /\ pc = "half"
    BY <1>2 DEF NextHalf
  <2>2. \A v \in results : v.id \notin closed
    BY <2>1 DEF GateInv, Within
  <2>3. CASE Runs(Halves[half])
    BY <1>2, <2>1, <2>2, <2>3, SameClaims DEF NextHalf, Runs, GateInv
  <2>4. CASE ~Runs(Halves[half])
    BY <1>2, <2>1, <2>2, <2>4 DEF NextHalf, EndHalf, GateInv
  <2> QED
    BY <2>3, <2>4
<1>3. CASE Begin \/ Gate
  <2>1. results' = {} /\ pc' \notin {"mainline", "daemon", "live"}
    BY <1>3 DEF Begin, Gate, claimVars, IInv, Progress
  <2> QED
    BY <2>1 DEF GateInv
<1>4. CASE Pin \/ TryGuards \/ ProbeSurface \/ ReportClaim \/ ClaimRaises \/ Emit
  <2>1. pc' \notin Within
    BY <1>4 DEF Pin, TryGuards, ProbeSurface, ReportClaim, ClaimRaises, Isolate, NextClaim,
                Emit, Within
  <2> QED
    BY <2>1 DEF GateInv, Within
<1>5. CASE World \/ Finished \/ UNCHANGED vars
  <2>1. UNCHANGED <<claimVars, pc, judged>>
    BY <1>5 DEF World, Finished, vars
  <2> QED
    BY <2>1, SameClaims DEF GateInv, claimVars
<1> QED
  BY <1>1, <1>2, <1>3, <1>4, <1>5 DEF Next, SuiteStep

\* A claim whose surface was absent when its gate was asked is reported as
\* blocked; only C5a, when the field of its name alone is absent, is a FAIL.
THEOREM ClosedIsBlocked == Spec => []GatedIsBlocked
<1>1. Init => GateInv
  BY DEF Init, GateInv, Within
<1>2. IInv /\ GateInv /\ [Next]_vars => GateInv'
  BY GateStep
<1>3. GateInv => GatedIsBlocked
  <2> SUFFICES ASSUME GateInv, pc = "half", NEW v \in Returned, v.id \in closed
               PROVE  v.state = "BLOCKED" \/ (v.id = "C5a" /\ "C5b" \notin closed)
    BY DEF GatedIsBlocked
  <2>1. PICK id \in ClaimSet : v = VerdictOn(id)
    BY DEF Returned
  <2>2. v \notin results
    BY DEF GateInv, Within
  <2> QED
    BY <2>1, <2>2, VerdictIsFound
<1> QED
  BY <1>1, <1>2, <1>3, Sound, PTL DEF Spec

-----------------------------------------------------------------------------
\* The gates that were asked, answered by the surface as it is.
Answered ==
  /\ pc = "gate" => \A i \in 1 .. asked : Missing(Claims[i]) # {} => Claims[i] \in closed
  /\ pc \in Within => \A id \in closed : Missing(id) # {}
  /\ pc \in Within \ {"gate"} => \A id \in ClaimSet : Missing(id) # {} => id \in closed

\* A live part that is over and was not kept from running has found something
\* about each of its claims.
PartsAreJudged ==
  pc \in Within \ {"gate"} =>
    \A n \in 1 .. Len(Halves) :
      n < half /\ Runs(Halves[n]) => \A id \in Halves[n] : HasRun(id)

TogetherInv ==
  /\ moves = 0 => Answered
  /\ PartsAreJudged
  /\ HalvesStayTogether

\* What a claim wants is looked up in the checkout and in the imported SDK.
LEMMA SameMissing ==
  ASSUME UNCHANGED <<setup, loaded, head>>, NEW id
  PROVE  Missing(id)' = Missing(id)
<1>1. UNCHANGED <<Offered, Capabilities>>
  BY DEF Offered, Capabilities, AuthoredRules
<1> QED
  BY <1>1 DEF Missing

\* The two claims of a run that judges both want the same.
LEMMA PairsWantTheSame ==
  Missing("C3a") = Missing("C3b") /\ Missing("C4a") = Missing("C4b")
<1> DEFINE Tools(id) == {tool \in DOMAIN RequiredTools : Wanted(tool, id)}
           Caps(id) == {cap \in DOMAIN RequiredCapabilities : id \in RequiredCapabilities[cap]}
<1>1. ASSUME NEW tool \in {"list_siblings", "send_to_sibling"}
      PROVE  /\ Wanted(tool, "C3a") <=> Wanted(tool, "C3b")
             /\ Wanted(tool, "C4a") <=> Wanted(tool, "C4b")
  BY DEF Wanted, Stem, RequiredTools
<1>2. DOMAIN RequiredTools = {"list_siblings", "send_to_sibling"}
  BY DEF RequiredTools
<1>3. Tools("C3a") = Tools("C3b") /\ Tools("C4a") = Tools("C4b")
  BY <1>1, <1>2
<1>4. Caps("C3a") = {} /\ Caps("C3b") = {} /\ Caps("C4a") = {} /\ Caps("C4b") = {}
  BY DEF RequiredCapabilities
<1>5. \A id : Missing(id) = (({"plugin"} \cup Tools(id)) \ Offered) \cup (Caps(id) \ Capabilities)
  BY DEF Missing
<1> HIDE DEF Tools, Caps
<1> QED
  BY <1>3, <1>4, <1>5

\* Where the gates were answered alike, the two claims of a pair are returned
\* together or not at all.
LEMMA PairIsReturned ==
  ASSUME IInv, Answered, PartsAreJudged, pc = "half", half > Len(Halves),
         NEW pair \in {{"C3a", "C3b"}, {"C4a", "C4b"}, {"C5a", "C5b"}}
  PROVE  pair \subseteq Run!Reported(Returned) \/ pair \cap Run!Reported(Returned) = {}
<1>1. judged \in 0 .. 4
  BY DEF IInv, Control, Within
<1>2. \A id \in ClaimSet : HasRun(id) \/ id \in closed => id \in Run!Reported(Returned)
  <2> SUFFICES ASSUME NEW id \in ClaimSet, HasRun(id) \/ id \in closed
               PROVE  id \in Run!Reported(Returned)
    OBVIOUS
  <2>1. VerdictOn(id) \in Returned /\ VerdictOn(id).id = id
    BY VerdictIsFound DEF Returned
  <2> QED
    BY <2>1 DEF Run!Reported
<1>3. Run!Reported(Returned) \subseteq ClaimSet
  BY ReturnedIsOwn DEF Run!Reported
<1>4. \A n \in 1 .. Len(Halves) :
        Runs(Halves[n]) => \A id \in Halves[n] : HasRun(id)
  <2>1. Len(Halves) \in 1 .. 2 /\ half \in 1 .. 3
    BY <1>1, Shapes DEF IInv, TypeOK
  <2> DEFINE len == Len(Halves)
  <2>2. \A n \in 1 .. len : n < half
    <3> HIDE DEF len
    <3>1. len \in 1 .. 2 /\ half > len
      BY <2>1 DEF len
    <3> QED
      BY <2>1, <3>1
  <2> QED
    BY <2>2 DEF PartsAreJudged, Within
<1>5. ASSUME NEW a \in ClaimSet, NEW b \in ClaimSet,
             Missing(a) = Missing(b), Halves = <<{a, b}>>
      PROVE  {a, b} \subseteq Run!Reported(Returned)
  <2>1. Len(Halves) = 1 /\ Halves[1] = {a, b}
    BY <1>5
  <2>2. a \in closed <=> b \in closed
    BY <1>5 DEF Answered, Within
  <2>3. CASE a \in closed
    BY <1>2, <2>2, <2>3
  <2>4. CASE a \notin closed
    <3>1. HasRun(a) /\ HasRun(b)
      BY <1>4, <2>1, <2>2, <2>4 DEF Runs
    <3> QED
      BY <1>2, <3>1
  <2> QED
    BY <2>3, <2>4
<1>6. CASE judged = 2
  <2>1. ClaimSet = {"C3a", "C3b", "C3c"} /\ Halves = <<{"C3a", "C3b"}>>
    BY <1>6 DEF ClaimSet, Claims, Halves, Current, Run!Certification, Run!ClaimsOf
  <2>2. {"C3a", "C3b"} \subseteq Run!Reported(Returned)
    BY <1>5, <2>1, PairsWantTheSame
  <2> QED
    BY <1>3, <2>1, <2>2
<1>7. CASE judged = 3
  <2>1. ClaimSet = {"C4a", "C4b"} /\ Halves = <<{"C4a", "C4b"}>>
    BY <1>7 DEF ClaimSet, Claims, Halves, Current, Run!Certification, Run!ClaimsOf
  <2>2. {"C4a", "C4b"} \subseteq Run!Reported(Returned)
    BY <1>5, <2>1, PairsWantTheSame
  <2> QED
    BY <1>3, <2>1, <2>2
<1>8. CASE judged = 4
  <2>1. ClaimSet = {"C5a", "C5b"} /\ Halves = <<{"C5a"}, {"C5b"}>>
    BY <1>8 DEF ClaimSet, Claims, Halves, Current, Run!Certification, Run!ClaimsOf
  <2>2. Len(Halves) = 2 /\ Halves[1] = {"C5a"} /\ Halves[2] = {"C5b"}
    BY <2>1
  <2>3. \A id \in {"C5a", "C5b"} : HasRun(id) \/ id \in closed
    BY <1>4, <2>2 DEF Runs
  <2> QED
    BY <1>2, <1>3, <2>1, <2>3
<1>9. CASE judged \in {0, 1}
  <2>1. ClaimSet \subseteq {"C1", "C2"}
    BY <1>9 DEF ClaimSet, Claims, Current, Run!Certification, Run!ClaimsOf
  <2> QED
    BY <1>3, <2>1
<1> QED
  BY <1>1, <1>6, <1>7, <1>8, <1>9

LEMMA AnsweredStep ==
  ASSUME IInv, moves = 0 => Answered, [Next]_vars
  PROVE  moves' = 0 => Answered'
<1> SUFFICES ASSUME moves' = 0 PROVE Answered'
  OBVIOUS
<1>1. /\ moves = 0 /\ Answered
      /\ UNCHANGED <<setup, loaded, head>>
  <2>1. CASE World
    BY <2>1 DEF World, IInv, TypeOK
  <2>2. CASE SuiteStep
    BY <2>2, StepsOfPart DEF SuiteStep, Pin, TryGuards, ProbeSurface, Begin, Gate, NextHalf,
                ReportClaim, ClaimRaises, Emit, worldVars
  <2>3. CASE Finished \/ UNCHANGED vars
    BY <2>3 DEF Finished, vars, worldVars
  <2> QED
    BY <2>1, <2>2, <2>3 DEF Next
<1>2. CASE Begin
  <2>1. asked' = 0 /\ closed' = {} /\ pc' \notin Within \ {"gate"}
    BY <1>2 DEF Begin, IInv, Progress, claimVars, Within
  <2> QED
    BY <2>1 DEF Answered
<1>3. CASE Gate
  <2>1. /\ pc = "gate" /\ UNCHANGED judged /\ asked \in 0 .. 3
        /\ asked' = asked + 1
        /\ pc' = IF asked' = Len(Claims) THEN "half" ELSE "gate"
    BY <1>3 DEF Gate, IInv, TypeOK
  <2>2. Len(Claims) \in 1 .. 3 /\ asked < Len(Claims)
    BY <2>1, Shapes DEF IInv, Control, Progress, Within
  <2> DEFINE id == Claims[asked + 1]
  <2>3. closed' = IF Missing(id) = {} THEN closed ELSE closed \cup {id}
    BY <1>3 DEF Gate
  <2>4. \A i \in 1 .. asked' : i \in 1 .. asked \/ i = asked + 1
    BY <2>1
  <2>5. \A i \in 1 .. asked' : Missing(Claims[i]) # {} => Claims[i] \in closed'
    BY <1>1, <2>1, <2>3, <2>4 DEF Answered
  <2>6. \A c \in closed' : Missing(c) # {}
    BY <1>1, <2>1, <2>3 DEF Answered, Within
  <2>7. ASSUME pc' # "gate"
        PROVE  \A c \in ClaimSet : Missing(c) # {} => c \in closed'
    <3>1. asked' = Len(Claims) /\ DOMAIN Claims = 1 .. Len(Claims)
      BY <2>1, <2>7, Shapes DEF IInv, Control, Within
    <3> QED
      BY <2>5, <3>1 DEF ClaimSet
  <2> HIDE DEF id
  <2> QED
    BY <1>1, <2>1, <2>5, <2>6, <2>7, SameMissing, SameClaims DEF Answered, Within
<1>4. CASE NextHalf \/ CheckMainline \/ CheckDaemon \/ GoLive
  <2>1. /\ UNCHANGED <<judged, closed>>
        /\ pc \in Within \ {"gate"} /\ pc' \in Within \ {"gate"}
    BY <1>4, StepsOfPart DEF NextHalf, EndHalf, Within
  <2> QED
    BY <1>1, <2>1, SameMissing, SameClaims DEF Answered
<1>5. CASE Pin \/ TryGuards \/ ProbeSurface \/ ReportClaim \/ ClaimRaises \/ Emit
  <2>1. pc' \notin Within
    BY <1>5 DEF Pin, TryGuards, ProbeSurface, ReportClaim, ClaimRaises, Isolate, NextClaim,
                Emit, Within
  <2> QED
    BY <2>1 DEF Answered, Within
<1>6. CASE World
  BY <1>6, <1>1 DEF World, IInv, TypeOK
<1>7. CASE Finished \/ UNCHANGED vars
  <2>1. UNCHANGED <<judged, closed, asked, pc>>
    BY <1>7 DEF Finished, vars, claimVars
  <2> QED
    BY <1>1, <2>1, SameMissing, SameClaims DEF Answered
<1> QED
  BY <1>2, <1>3, <1>4, <1>5, <1>6, <1>7 DEF Next, SuiteStep

\* A live part that ends has found something about each of its claims.
LEMMA PartIsJudged ==
  ASSUME CheckMainline \/ CheckDaemon \/ GoLive, pc' = "half"
  PROVE  \A id \in Halves[half] : HasRun(id)'
<1>1. ASSUME NEW states, NEW why, Judging(Halves[half], states, why)
      PROVE  \A id \in Halves[half] : HasRun(id)'
  <2> TAKE id \in Halves[half]
  <2>1. [id |-> id, state |-> states[id], why |-> why] \in results'
    BY <1>1 DEF Judging
  <2> QED
    BY <2>1 DEF HasRun
<1>2. CASE CheckMainline
  BY <1>1, <1>2 DEF CheckMainline, Unmet
<1>3. CASE CheckDaemon
  BY <1>1, <1>3 DEF CheckDaemon, Unmet
<1>4. CASE GoLive
  BY <1>1, <1>4 DEF GoLive
<1> QED
  BY <1>2, <1>3, <1>4

LEMMA PartsStep ==
  ASSUME IInv, GateInv, PartsAreJudged, [Next]_vars
  PROVE  PartsAreJudged'
<1>1. half \in 1 .. 3
  BY DEF IInv, TypeOK
<1>2. CASE NextHalf
  <2>1. UNCHANGED <<closed, judged, results>> /\ pc = "half" /\ half \in 1 .. Len(Halves)
    BY <1>1, <1>2 DEF NextHalf
  <2>2. half' = half \/ (half' = half + 1 /\ ~Runs(Halves[half]))
    BY <1>2 DEF NextHalf, EndHalf
  <2>3. \A n \in Nat : n < half' => n < half \/ n = half
    BY <1>1, <2>2
  <2>4. \A n \in 1 .. Len(Halves) :
          n < half' /\ Runs(Halves[n]) => \A id \in Halves[n] : HasRun(id)
    BY <2>1, <2>2, <2>3 DEF PartsAreJudged, Within
  <2> QED
    BY <2>1, <2>4, SameClaims DEF PartsAreJudged, Runs, HasRun
<1>3. CASE CheckMainline \/ CheckDaemon \/ GoLive
  <2>1. UNCHANGED <<closed, judged>> /\ pc \in {"mainline", "daemon", "live"}
    BY <1>3, StepsOfPart
  <2>2. \A n \in 1 .. Len(Halves) :
          n < half /\ Runs(Halves[n]) => \A id \in Halves[n] : HasRun(id)
    BY <2>1 DEF PartsAreJudged, Within
  <2>3. CASE UNCHANGED <<half, results>>
    BY <2>1, <2>2, <2>3, SameClaims DEF PartsAreJudged, Runs, HasRun
  <2>4. CASE pc' = "half" /\ half' = half + 1
    <3>1. results \subseteq results'
      BY <1>3, <2>4 DEF CheckMainline, CheckDaemon, GoLive, Unmet, Judging
    <3>2. \A id : HasRun(id) => HasRun(id)'
      BY <3>1 DEF HasRun
    <3>3. \A n \in Nat : n < half' => n < half \/ n = half
      BY <1>1, <2>4
    <3>4. \A id \in Halves[half] : HasRun(id)'
      BY <1>3, <2>4, PartIsJudged
    <3>5. \A n \in 1 .. Len(Halves) :
            n < half' /\ Runs(Halves[n]) => \A id \in Halves[n] : HasRun(id)'
      BY <2>2, <3>2, <3>3, <3>4
    <3> QED
      BY <2>1, <3>5, SameClaims DEF PartsAreJudged, Runs
  <2> QED
    BY <1>3, <2>3, <2>4, StepsOfPart
<1>4. CASE Gate
  <2>1. half' = 1
    BY <1>4 DEF Gate, IInv, Progress
  <2> QED
    BY <2>1 DEF PartsAreJudged
<1>5. CASE \/ Pin \/ TryGuards \/ ProbeSurface \/ Begin \/ ReportClaim \/ ClaimRaises
           \/ Emit
  <2>1. pc' \notin Within \ {"gate"}
    BY <1>5 DEF Pin, TryGuards, ProbeSurface, Begin, ReportClaim, ClaimRaises, Isolate,
                NextClaim, Emit, Within
  <2> QED
    BY <2>1 DEF PartsAreJudged
<1>6. CASE World \/ Finished \/ UNCHANGED vars
  <2>1. UNCHANGED <<claimVars, pc, judged>>
    BY <1>6 DEF World, Finished, vars
  <2> QED
    BY <2>1, SameClaims DEF PartsAreJudged, Runs, HasRun, claimVars
<1> QED
  BY <1>2, <1>3, <1>4, <1>5, <1>6 DEF Next, SuiteStep

LEMMA TogetherStep ==
  ASSUME IInv, GateInv, TogetherInv, [Next]_vars
  PROVE  TogetherInv'
<1>1. (moves = 0 => Answered) /\ PartsAreJudged /\ HalvesStayTogether
  BY DEF TogetherInv
<1>2. (moves' = 0 => Answered') /\ PartsAreJudged'
  BY <1>1, AnsweredStep, PartsStep
<1>3. ASSUME moves' = 0,
             NEW pair \in {{"C3a", "C3b"}, {"C4a", "C4b"}, {"C5a", "C5b"}}
      PROVE  pair \subseteq Run!Reported(report)' \/ pair \cap Run!Reported(report)' = {}
  <2>1. moves = 0
    BY <1>3, StepsOfPart DEF Next, SuiteStep, World, Finished, vars, worldVars, Pin,
       TryGuards, ProbeSurface, Begin, Gate, NextHalf, ReportClaim, ClaimRaises, Emit,
       IInv, TypeOK
  <2>2. pair \subseteq Run!Reported(report) \/ pair \cap Run!Reported(report) = {}
    BY <1>1, <2>1 DEF HalvesStayTogether
  <2>3. CASE ReportClaim
    <3>1. Run!Reported(report)' = Run!Reported(report) \cup Run!Reported(Returned)
      BY <2>3 DEF ReportClaim, Run!Reported
    <3>2. pair \subseteq Run!Reported(Returned) \/ pair \cap Run!Reported(Returned) = {}
      BY <1>1, <2>1, <2>3, PairIsReturned DEF ReportClaim
    <3> QED
      BY <2>2, <3>1, <3>2
  <2>4. CASE ClaimRaises
    <3>1. judged \in 0 .. 4
      BY <2>4 DEF ClaimRaises, IInv, Control, Within
    <3>2. Raised.id \notin pair
      BY <3>1, Shapes, RaisedIsOwn
    <3>3. Run!Reported(report)' = Run!Reported(report) \cup {Raised.id}
      BY <2>4 DEF ClaimRaises, Isolate, Run!Reported
    <3> QED
      BY <2>2, <3>2, <3>3
  <2>5. CASE UNCHANGED report
    BY <2>2, <2>5 DEF Run!Reported
  <2>6. ReportClaim \/ ClaimRaises \/ UNCHANGED report
    BY StepsOfPart DEF Next, SuiteStep, World, Finished, vars, Pin, TryGuards, ProbeSurface,
       Begin, Gate, NextHalf, Emit
  <2> QED
    BY <2>3, <2>4, <2>5, <2>6
<1>4. moves' \in Nat
  BY <1>2, StepsOfPart DEF Next, SuiteStep, World, Finished, vars, worldVars, Pin,
     TryGuards, ProbeSurface, Begin, Gate, NextHalf, ReportClaim, ClaimRaises, Emit,
     IInv, TypeOK
<1>5. HalvesStayTogether'
  BY <1>3, <1>4 DEF HalvesStayTogether
<1> QED
  BY <1>2, <1>5 DEF TogetherInv

\* While nobody moves the world, the two halves of a certification are reported
\* together or replaced by one verdict: their gates get the same answers.
THEOREM PairsStayTogether == Spec => []HalvesStayTogether
<1>1. Init => GateInv /\ TogetherInv
  BY DEF Init, GateInv, Within, TogetherInv, Answered, PartsAreJudged, HalvesStayTogether,
     Run!Reported
<1>2. IInv /\ (GateInv /\ TogetherInv) /\ [Next]_vars => (GateInv /\ TogetherInv)'
  BY GateStep, TogetherStep
<1>3. TogetherInv => HalvesStayTogether
  BY DEF TogetherInv
<1> QED
  BY <1>1, <1>2, <1>3, Sound, PTL DEF Spec
=============================================================================
