-------------------------------- MODULE Suite --------------------------------
(***************************************************************************)
(* A run of the certifications (certify/run_all.py).  The framework commit *)
(* is pinned, the guards are tried, the surface is probed, and the five    *)
(* certifications run one after another behind an isolation boundary: each *)
(* asks the gates of its claims (certify/surface.py), checks the           *)
(* preconditions of a live run (certify/harness.py) and goes live.  The    *)
(* checkout of the framework is shared: its HEAD may move at any time, the *)
(* daemon may be restarted and the CLI may come and go.                    *)
(***************************************************************************)
EXTENDS Naturals, Sequences

CONSTANTS
  Commit,       \* commits of the framework
  Mainline,     \* those origin/main has as an ancestor
  CommitTime,   \* CommitTime[c]: when c was committed
  Now,          \* the time of the run
  Offers,       \* Offers[c]: the plugin and tools jaato-scaffold lists at c
  Sdk,          \* Sdk[c]: the capabilities of the SDK at c
  NoCommit,     \* nothing pinned
  Setups,       \* the machines a run may find
  Daemons,      \* the daemons it may find
  MaxMoves,     \* moves of the world during a run
  MaxIncidents  \* live claims that do not pass

Setup == [socket : BOOLEAN, git : BOOLEAN, remote : BOOLEAN, readable : BOOLEAN,
          profiles : BOOLEAN, rules : BOOLEAN,
          credential : {"absent", "plain", "resolves", "dangling", "unasked"}]
Daemon == [started : Nat, code : Commit]

ASSUME SuiteAssumption ==
  /\ Mainline \subseteq Commit
  /\ CommitTime \in [Commit -> Nat]
  /\ Now \in Nat
  /\ \A c \in Commit : CommitTime[c] <= Now
  /\ Offers \in [Commit -> SUBSET {"plugin", "list_siblings", "send_to_sibling"}]
  /\ Sdk \in [Commit -> SUBSET {"sibling_name", "turn_attribution"}]
  /\ NoCommit \notin Commit
  /\ Setups \subseteq Setup
  /\ Daemons \subseteq Daemon
  /\ \A d \in Daemons : CommitTime[d.code] <= d.started /\ d.started <= Now
  /\ MaxMoves \in Nat
  /\ MaxIncidents \in Nat

VARIABLES
  setup,      \* the machine: socket path, git, remote, pid file, profiles, .env
  loaded,     \* capabilities of the SDK this process has imported
  head,       \* HEAD of the framework's checkout
  daemon,     \* the daemon: when it was started and the code it holds
  installed,  \* jaato-scaffold is on PATH
  moves,      \* moves of the world so far
  pinned,     \* the commit the run certifies
  pinnedAt,   \* moves of the world before it was pinned
  fresh,      \* the daemon was no older than it then
  guards,     \* the self test of the guards
  pc,         \* where the suite is
  judged,     \* certifications it has reported
  closed,     \* claims of the current one whose surface was absent
  asked,      \* gates it has asked
  half,       \* the live part of it under way
  results,    \* verdicts of its live parts
  incidents,  \* live claims that did not pass
  report,     \* the verdicts so far
  exit        \* the exit code

worldVars == <<setup, loaded, head, daemon, installed, moves>>
pinVars == <<pinned, pinnedAt, fresh, guards>>
claimVars == <<closed, asked, half, results>>
vars == <<worldVars, pinVars, claimVars, pc, judged, incidents, report, exit>>

\* What the run promises; the definitions of the report are shared with it.
Run == INSTANCE CertificationRun

Claim == {"C1", "C2", "C3a", "C3b", "C3c", "C4a", "C4b", "C5a", "C5b"}
State == {"PASS", "FAIL", "BLOCKED"}
Why == {"live", "surface", "rules", "unrun", "spawn", "setup", "mainline", "stale", "raised"}
Verdict == [id : Claim \cup {"C3", "C4", "C5"}, state : State, why : Why]

\* The type invariant.
TypeOK ==
  /\ setup \in Setup
  /\ loaded \in SUBSET {"sibling_name", "turn_attribution"}
  /\ head \in Commit
  /\ daemon \in Daemon
  /\ installed \in BOOLEAN
  /\ moves \in Nat
  /\ pinned \in Commit \cup {NoCommit}
  /\ pinnedAt \in Nat
  /\ fresh \in BOOLEAN
  /\ guards \in {"untried", "held", "failed"}
  /\ pc \in {"pin", "guards", "surface", "claim", "gate", "half", "mainline",
             "daemon", "live", "emit", "done"}
  /\ judged \in 0 .. 5
  /\ closed \in SUBSET Claim
  /\ asked \in 0 .. 3
  /\ half \in 1 .. 3
  /\ results \in SUBSET Verdict
  /\ incidents \in Nat
  /\ report \in SUBSET Verdict
  /\ exit \in 0 .. 3

Init ==
  /\ setup \in Setups
  /\ head \in Commit
  /\ loaded = Sdk[head]
  /\ daemon \in Daemons
  /\ installed \in BOOLEAN
  /\ moves = 0
  /\ pinned = NoCommit /\ pinnedAt = 0 /\ fresh = FALSE /\ guards = "untried"
  /\ pc = "pin"
  /\ judged = 0
  /\ closed = {} /\ asked = 0 /\ half = 1 /\ results = {}
  /\ incidents = 0
  /\ report = {}
  /\ exit = Run!Running

-----------------------------------------------------------------------------
(***************************************************************************)
(* The world.                                                              *)
(***************************************************************************)

\* Someone checks another commit out in the shared checkout.
MoveHead ==
  /\ head' \in Commit \ {head}
  /\ UNCHANGED <<daemon, installed>>

\* A daemon holds the code it was started with.
RestartDaemon ==
  /\ daemon' = [started |-> Now, code |-> head]
  /\ UNCHANGED <<head, installed>>

Reinstall ==
  /\ installed' = ~installed
  /\ UNCHANGED <<head, daemon>>

World ==
  /\ exit = Run!Running
  /\ moves < MaxMoves
  /\ moves' = moves + 1
  /\ MoveHead \/ RestartDaemon \/ Reinstall
  /\ UNCHANGED <<setup, loaded, pinVars, claimVars, pc, judged, incidents, report, exit>>

-----------------------------------------------------------------------------
(***************************************************************************)
(* Before the claims.                                                      *)
(***************************************************************************)

\* pin_framework_head: git may be missing, or fail to answer in time.
Pin ==
  /\ pc = "pin"
  /\ pc' = "guards"
  /\ pinned' \in {NoCommit} \cup (IF setup.git THEN {head} ELSE {})
  /\ pinnedAt' = moves
  /\ fresh' = (pinned' # NoCommit /\ daemon.started >= CommitTime[head])
  /\ UNCHANGED <<worldVars, guards, claimVars, judged, incidents, report, exit>>

\* selftest.run: a reversion that raises has not been noticed, and R9 fails
\* where the daemon's start cannot be read.  What comes of it, and of the
\* static checks after it, is printed.
TryGuards ==
  /\ pc = "guards"
  /\ pc' = "surface"
  /\ guards' \in {"failed"} \cup (IF setup.readable THEN {"held"} ELSE {})
  /\ UNCHANGED <<worldVars, pinned, pinnedAt, fresh, claimVars, judged, incidents, report, exit>>

\* The probe stands outside the isolation boundary.
ProbeSurface ==
  /\ pc = "surface"
  /\ IF installed
       THEN pc' = "claim" /\ UNCHANGED exit
       ELSE pc' = "done" /\ exit' = 1
  /\ UNCHANGED <<worldVars, pinVars, claimVars, judged, incidents, report>>

-----------------------------------------------------------------------------
(***************************************************************************)
(* The gates of a claim.                                                   *)
(***************************************************************************)
Current == Run!Certification[judged + 1]
Claims == Run!ClaimsOf[Current]
ClaimSet == {Claims[i] : i \in DOMAIN Claims}
Stem(id) == CASE id \in {"C3a", "C3b", "C3c"} -> "C3"
              [] id \in {"C4a", "C4b"} -> "C4"
              [] id \in {"C5a", "C5b"} -> "C5"
              [] OTHER -> id

RequiredTools == [list_siblings |-> {"C1", "C5b"},
                  send_to_sibling |-> {"C1", "C2", "C3", "C4"}]
RequiredCapabilities == [sibling_name |-> {"C5a"}, reactor_rules |-> {"C3c"},
                         turn_attribution |-> {"C1"}]

\* C4's requirement, stated for one of its halves.
Retargeted(tool, id) ==
  id # "C4b" /\ RequiredTools[tool] \cap {id, Stem(id)} # {}

\* A sub-probe is wanted by its stem.
Wanted(tool, id) == RequiredTools[tool] \cap {id, Stem(id)} # {}

\* Rule files, not the mechanism that would load them.
AuthoredRules == IF setup.rules THEN {"reactor_rules"} ELSE {}

\* probe: the SDK is the one imported, the tools are asked of the CLI each time.
Capabilities == loaded \cup AuthoredRules
Offered == Offers[head]

\* missing_for, of what the installed framework offers at this moment.
Missing(id) ==
  LET tools == {tool \in DOMAIN RequiredTools : Wanted(tool, id)}
      caps == {cap \in DOMAIN RequiredCapabilities : id \in RequiredCapabilities[cap]}
  IN  (({"plugin"} \cup tools) \ Offered) \cup (caps \ Capabilities)

Begin ==
  /\ pc = "claim"
  /\ IF judged < Len(Run!Certification) THEN pc' = "gate" ELSE pc' = "emit"
  /\ UNCHANGED <<worldVars, pinVars, claimVars, judged, incidents, report, exit>>

\* A gate that is asked again until the surface is there.
GateWaits ==
  /\ pc = "gate"
  /\ installed
  /\ asked' = IF Missing(Claims[asked + 1]) = {} THEN asked + 1 ELSE asked
  /\ pc' = IF asked' = Len(Claims) THEN "half" ELSE "gate"
  /\ UNCHANGED <<worldVars, pinVars, closed, half, results, judged, incidents, report,
                 exit>>

Gate ==
  /\ pc = "gate"
  /\ installed
  /\ LET id == Claims[asked + 1]
     IN  closed' = IF Missing(id) = {} THEN closed ELSE closed \cup {id}
  /\ asked' = asked + 1
  /\ pc' = IF asked' = Len(Claims) THEN "half" ELSE "gate"
  /\ UNCHANGED <<worldVars, pinVars, half, results, judged, incidents, report, exit>>

-----------------------------------------------------------------------------
(***************************************************************************)
(* The live parts of a certification.                                      *)
(***************************************************************************)

\* C3 and C4 judge two claims in one run, C5 in two.
Halves ==
  CASE Current = "C3" -> <<{"C3a", "C3b"}>>
    [] Current = "C4" -> <<{"C4a", "C4b"}>>
    [] Current = "C5" -> <<{"C5a"}, {"C5b"}>>
    [] OTHER -> <<{Current}>>

\* One closed gate of two lets the run go on.
RunsIfAnyIsOpen(part) == ~(part \subseteq closed)

\* A closed gate keeps all of its run from starting.
Runs(part) == part \cap closed = {}

EndHalf == pc' = "half" /\ half' = half + 1

NextHalf ==
  /\ pc = "half"
  /\ half <= Len(Halves)
  /\ IF Runs(Halves[half])
       THEN pc' = "mainline" /\ UNCHANGED half
       ELSE EndHalf
  /\ UNCHANGED <<worldVars, pinVars, closed, asked, results, judged, incidents,
                 report, exit>>

Judging(part, states, why) ==
  results' = results \cup {[id |-> id, state |-> states[id], why |-> why] : id \in part}

\* PreconditionUnmet: what the part was to judge is blocked.
Unmet(why) ==
  /\ EndHalf
  /\ Judging(Halves[half], [id \in Halves[half] |-> "BLOCKED"], why)

\* Every HEAD is taken for one of the mainline.
NoRefusal == FALSE

\* check_head_is_mainline looks at HEAD, where there is a remote.
OffMainline == setup.git /\ setup.remote /\ head \notin Mainline

\* check_socket_path and check_head_is_mainline.
CheckMainline ==
  /\ pc = "mainline"
  /\ CASE ~setup.socket -> Unmet("setup")
       [] setup.socket /\ OffMainline -> Unmet("mainline")
       [] OTHER -> pc' = "daemon" /\ UNCHANGED <<half, results>>
  /\ UNCHANGED <<worldVars, pinVars, closed, asked, judged, incidents, report, exit>>

\* HEAD as it is now, whatever was pinned.
HeadNow == IF setup.git THEN head ELSE NoCommit

\* _framework_head_time: of the pinned commit, or of HEAD when there is none.
Certified == IF pinned = NoCommit /\ setup.git THEN head ELSE pinned

\* check_daemon_is_newer_than_the_code: skipped if either time is unknown.
IsStale ==
  /\ setup.readable
  /\ Certified # NoCommit
  /\ daemon.started < CommitTime[Certified]

\* A secret that cannot be asked for is left to the daemon.
IsEquipped == setup.profiles /\ setup.credential \notin {"absent", "dangling"}

CheckDaemon ==
  /\ pc = "daemon"
  /\ CASE IsStale -> Unmet("stale")
       [] ~IsStale /\ ~IsEquipped -> Unmet("setup")
       [] OTHER -> pc' = "live" /\ UNCHANGED <<half, results>>
  /\ UNCHANGED <<worldVars, pinVars, closed, asked, judged, incidents, report, exit>>

\* A live part passes, or within the bound on incidents fails or is blocked
\* by a connection or a sibling that does not come about.
GoLive ==
  /\ pc = "live"
  /\ EndHalf
  /\ \/ /\ Judging(Halves[half], [id \in Halves[half] |-> "PASS"], "live")
        /\ UNCHANGED incidents
     \/ /\ incidents < MaxIncidents
        /\ incidents' = incidents + 1
        /\ \/ \E states \in [Halves[half] -> {"PASS", "FAIL"}] :
                Judging(Halves[half], states, "live")
           \/ Judging(Halves[half], [id \in Halves[half] |-> "BLOCKED"], "spawn")
  /\ UNCHANGED <<worldVars, pinVars, closed, asked, judged, report, exit>>

-----------------------------------------------------------------------------
(***************************************************************************)
(* The verdicts.                                                           *)
(***************************************************************************)
NextClaim ==
  /\ pc' = "claim"
  /\ judged' = judged + 1
  /\ closed' = {} /\ asked' = 0 /\ half' = 1 /\ results' = {}

HasRun(id) == \E v \in results : v.id = id

\* C3c is blocked whatever its gate says; C5a is a FAIL that was not run when
\* only its own gate is closed.
VerdictOn(id) ==
  CASE HasRun(id) -> CHOOSE v \in results : v.id = id
    [] ~HasRun(id) /\ id \notin closed -> [id |-> id, state |-> "BLOCKED", why |-> "rules"]
    [] ~HasRun(id) /\ id \in closed /\ id = "C5a" /\ "C5b" \notin closed ->
         [id |-> id, state |-> "FAIL", why |-> "unrun"]
    [] OTHER -> [id |-> id, state |-> "BLOCKED", why |-> "surface"]

\* What certify() returns: of a run that a gate kept from starting, only the
\* claims whose gate was closed.
Returned ==
  {VerdictOn(id) : id \in {i \in ClaimSet : HasRun(i) \/ i \in closed \/ i = "C3c"}}

ReportClaim ==
  /\ pc = "half"
  /\ half > Len(Halves)
  /\ report' = report \cup Returned
  /\ NextClaim
  /\ UNCHANGED <<worldVars, pinVars, incidents, exit>>

\* The boundary lets the exception through.
LetsThrough ==
  /\ pc' = "done"
  /\ exit' = 1
  /\ UNCHANGED <<judged, report, claimVars>>

\* The verdict of a callable that does not know its module.
RaisedByNobody == [id |-> "?", state |-> "FAIL", why |-> "raised"]

\* One FAIL for the certification that raised, in place of what it had found.
Raised == [id |-> Current, state |-> "FAIL", why |-> "raised"]

\* The isolation boundary.
Isolate ==
  /\ report' = report \cup {Raised}
  /\ NextClaim
  /\ UNCHANGED exit

ClaimRaises ==
  /\ \/ pc = "gate" /\ ~installed /\ UNCHANGED incidents
     \/ pc = "live" /\ incidents < MaxIncidents /\ incidents' = incidents + 1
  /\ Isolate
  /\ UNCHANGED <<worldVars, pinVars>>

\* A report with something that held in it is a success.
ExitUnlessNothingHeld ==
  CASE "FAIL" \in Run!StatesIn(report) -> 1
    [] "PASS" \notin Run!StatesIn(report) /\ "FAIL" \notin Run!StatesIn(report) -> 2
    [] OTHER -> 0

ExitCode == Run!ExitCode(report)

Emit ==
  /\ pc = "emit"
  /\ pc' = "done"
  /\ exit' = ExitCode
  /\ UNCHANGED <<worldVars, pinVars, claimVars, judged, incidents, report>>

SuiteStep ==
  \/ Pin \/ TryGuards \/ ProbeSurface \/ Begin \/ Gate \/ NextHalf
  \/ CheckMainline \/ CheckDaemon \/ GoLive \/ ReportClaim \/ ClaimRaises \/ Emit

Finished == pc = "done" /\ UNCHANGED vars

Next == SuiteStep \/ World \/ Finished

Spec == Init /\ [][Next]_vars

\* Nothing the suite waits for is without a timeout, except the CLI, git and
\* ps, which are taken to answer.
FairSpec == Spec /\ WF_vars(SuiteStep)

-----------------------------------------------------------------------------
\* A claim whose surface was absent when its gate was asked is reported as
\* blocked, never as a pass or a failure (gate), one half's gate standing for
\* both; but C5a, with only the field of its name absent, is a FAIL.
GatedIsBlocked ==
  pc = "half" /\ half > Len(Halves) =>
    \A v \in Returned :
      v.id \in closed => v.state = "BLOCKED" \/ (v.id = "C5a" /\ "C5b" \notin closed)

\* The two halves of a certification are reported together, or replaced by
\* one verdict, unless the world moved between the questions of their gates.
HalvesStayTogether ==
  \A pair \in {{"C3a", "C3b"}, {"C4a", "C4b"}, {"C5a", "C5b"}} :
    \/ pair \subseteq Run!Reported(report)
    \/ pair \cap Run!Reported(report) = {}
    \/ moves > 0

\* A commit that lands after the pin does not make the daemon stale: what is
\* compared is the commit pinned (pin_framework_head, run).
MergesDoNotAbort ==
  fresh => \A v \in report : v.why # "stale"

\* A live claim certifies a pinned commit that is off the mainline only if the
\* checkout was moved after the pin: the check looks at HEAD, not at the pin.
MainlineIsCertified ==
  pc = "live" /\ setup.git /\ setup.remote /\ pinned \in Commit \ Mainline =>
    moves > pinnedAt

\* The exit code never says that everything was exercised and held: C3c is
\* blocked for want of a rule, and a raise in its stead is a failure.
NeverAllHeld == exit # 0

\* No claim runs against a daemon that holds code older than the commit it
\* certifies (check_daemon_is_newer_than_the_code), both times being known.
StaleDaemonIsRefused ==
  pc = "live" /\ setup.readable /\ pinned # NoCommit =>
    CommitTime[daemon.code] >= CommitTime[pinned]

\* A run implements CertificationRun: every certification in turn has its say
\* in the report, whatever raises, and the exit code is the report's.
ImplementsRun == Run!Spec

\* The program returns, whatever the claims do.
SuiteEnds == <>(exit # Run!Running)
=============================================================================
