------------------------------ MODULE Siblings ------------------------------
(***************************************************************************)
(* The sessions of one chapter cascade, between the driver's calls: what   *)
(* the daemon does with a session and with a message (external to this     *)
(* repository, read off certify/contract.py, certify/harness.py and the    *)
(* drivers that use it) and what the three personas of .jaato/agents do in *)
(* their turns.  A turn is the unit: it starts on a message, it may send,  *)
(* and it ends by stopping or by signal_completion.                        *)
(***************************************************************************)
EXTENDS Naturals, Sequences

CONSTANTS
  Snippets,      \* the ids the writer's brief asks the coder for
  MaxRevisions,  \* review rounds after the first one (MAX_REVISIONS)
  Pool           \* the cascade's ceiling, counted in turns (BUDGET)

ASSUME SnippetsAssumption == "none" \notin Snippets
ASSUME RevisionsAssumption == MaxRevisions \in Nat
ASSUME PoolAssumption == Pool \in Nat

VARIABLES
  status,     \* status[s]: where session s is in its life
  inbox,      \* inbox[s]: messages queued for s, in no turn yet
  work,       \* work[s]: messages the running turn of s was started with
  turns,      \* turns[s]: turns s has started
  saved,      \* saved[s]: turns of s its transcript on disk shows complete
  current,    \* the session the driver's client is attached to
  unloading,  \* sessions the client left idle, not yet unloaded
  leftBusy,   \* sessions the client left mid-turn: they are not unloaded
  declared,   \* has the ceiling been set on the cascade?
  pool,       \* what is left of the ceiling
  completed,  \* completed[s]: outcomes s has signalled, oldest first
  wire,       \* completion events on their way to the client
  asked, made, replied, included  \* snippet ids, by how far they have come

daemonVars == <<status, inbox, work, turns, saved, current, unloading,
                leftBusy, declared, pool, completed, wire>>
snippetVars == <<asked, made, replied, included>>
sessionVars == <<daemonVars, snippetVars>>

Coder == <<"coder", 0>>
Writer == <<"writer", 0>>
Reviewer(i) == <<"reviewer", i>>
NoSession == <<"none", 0>>
Reviewers == {Reviewer(i) : i \in 0..MaxRevisions}
Session == {Coder, Writer} \cup Reviewers

Brief == <<"brief", "none">>
Review == <<"review", "none">>
Feedback == <<"feedback", "none">>
Request(sn) == <<"request", sn>>
Reply(sn) == <<"reply", sn>>
Message == {Brief, Review, Feedback}
             \cup {Request(sn) : sn \in Snippets}
             \cup {Reply(sn) : sn \in Snippets}

Outcome == {"ready_for_review", "blocked", "accept", "revise"}
Completion == [by : Session, outcome : Outcome]

DaemonTypeOK ==
  /\ status \in [Session -> {"absent", "idle", "running", "cold", "ended"}]
  /\ inbox \in [Session -> SUBSET Message]
  /\ work \in [Session -> SUBSET Message]
  /\ turns \in [Session -> Nat]
  /\ saved \in [Session -> Nat]
  /\ current \in Session \cup {NoSession}
  /\ unloading \in SUBSET Session
  /\ leftBusy \in SUBSET Session
  /\ declared \in BOOLEAN
  /\ pool \in Nat
  /\ completed \in [Session -> Seq(Outcome)]
  /\ wire \in Seq(Completion)

SnippetsTypeOK ==
  /\ asked \in SUBSET Snippets
  /\ made \in SUBSET Snippets
  /\ replied \in SUBSET Snippets
  /\ included \in SUBSET Snippets

SessionsTypeOK == DaemonTypeOK /\ SnippetsTypeOK

SessionsInit ==
  /\ status = [s \in Session |-> "absent"]
  /\ inbox = [s \in Session |-> {}]
  /\ work = [s \in Session |-> {}]
  /\ turns = [s \in Session |-> 0]
  /\ saved = [s \in Session |-> 0]
  /\ current = NoSession
  /\ unloading = {}
  /\ leftBusy = {}
  /\ declared = FALSE
  /\ pool = Pool
  /\ completed = [s \in Session |-> <<>>]
  /\ wire = <<>>
  /\ asked = {} /\ made = {} /\ replied = {} /\ included = {}

-----------------------------------------------------------------------------
(***************************************************************************)
(* The daemon.                                                             *)
(***************************************************************************)

\* A running turn draws on the pool but is not cut off by it: exhaustion
\* shows at the next spawn.
Spend ==
  /\ pool' = IF declared /\ pool > 0 THEN pool - 1 ELSE pool
  /\ UNCHANGED declared

\* A turn starts on s with the messages ms.  The session is saved as the
\* turn STARTS: what is on disk is the turns before this one.
StartTurn(s, ms) ==
  /\ status' = [status EXCEPT ![s] = "running"]
  /\ work' = [work EXCEPT ![s] = ms]
  /\ inbox' = [inbox EXCEPT ![s] = {}]
  /\ saved' = [saved EXCEPT ![s] = turns[s]]
  /\ turns' = [turns EXCEPT ![s] = @ + 1]
  /\ Spend

\* `accepted`: the peer was idle and a turn starts on its own session.
Accepted(s, m) ==
  /\ status[s] = "idle"
  /\ StartTurn(s, inbox[s] \cup {m})

\* `queued` (the peer is mid-turn) and `sibling_cold` (it is resting and is
\* not woken): the message waits.
Queued(s, m) ==
  /\ status[s] \in {"running", "cold", "ended"}
  /\ inbox' = [inbox EXCEPT ![s] = @ \cup {m}]
  /\ UNCHANGED <<status, work, turns, saved, declared, pool>>

\* Only to a session that exists: in this cascade the coder is created
\* before the writer that addresses it, and is never deleted, so the receipt
\* `no_such_sibling` does not occur.
Deliver(s, m) ==
  /\ \/ Accepted(s, m)
     \/ Queued(s, m)
  /\ UNCHANGED <<current, unloading, leftBusy, completed, wire>>

\* The turn-teardown tail: the last drain runs before the session stops being
\* busy, and what is queued in between starts no turn.
TailRace(s) ==
  /\ status[s] = "running"
  /\ status' = [status EXCEPT ![s] = "idle"]
  /\ work' = [work EXCEPT ![s] = {}]
  /\ UNCHANGED <<inbox, turns, saved, declared, pool>>
  /\ UNCHANGED <<current, unloading, leftBusy, completed, wire>>

\* A turn stops without completing.  What was queued for the session starts
\* the next turn, under the lock that also ends this one.
EndTurn(s) ==
  /\ status[s] = "running"
  /\ \/ /\ inbox[s] # {}
        /\ StartTurn(s, inbox[s])
     \/ /\ inbox[s] = {}
        /\ status' = [status EXCEPT ![s] = "idle"]
        /\ work' = [work EXCEPT ![s] = {}]
        /\ UNCHANGED <<inbox, turns, saved, declared, pool>>
  /\ UNCHANGED <<current, unloading, leftBusy, completed, wire>>

\* signal_completion ends the session: it is unloaded, hence saved, and the
\* completion event sets out for the client.
SignalCompletion(s, o) ==
  /\ status[s] = "running"
  /\ status' = [status EXCEPT ![s] = "ended"]
  /\ work' = [work EXCEPT ![s] = {}]
  /\ saved' = [saved EXCEPT ![s] = turns[s]]
  /\ completed' = [completed EXCEPT ![s] = Append(@, o)]
  /\ wire' = Append(wire, [by |-> s, outcome |-> o])
  /\ UNCHANGED <<inbox, turns, current, unloading, leftBusy, declared, pool>>

\* create_session: refused once the pool is spent; attaches the client to
\* the new session and unloads nothing.
CreateSession(s) ==
  /\ status[s] = "absent"
  /\ declared => pool > 0
  /\ status' = [status EXCEPT ![s] = "idle"]
  /\ current' = s
  /\ UNCHANGED <<inbox, work, turns, saved, unloading, leftBusy, declared, pool,
                 completed, wire>>

\* attach_session(s) detaches the client from the session it is on.  That
\* one is unloaded, in the background, unless it is mid-turn; a cold s is
\* loaded.  Attaching to the current session leaves nothing.
Attach(s) ==
  /\ unloading' = IF current # s /\ status[current] = "idle"
                    THEN (unloading \cup {current}) \ {s}
                    ELSE unloading \ {s}
  /\ leftBusy' = IF current # s /\ status[current] = "running"
                   THEN leftBusy \cup {current} ELSE leftBusy
  /\ current' = s
  /\ status' = IF status[s] = "cold" THEN [status EXCEPT ![s] = "idle"]
                                     ELSE status
  /\ UNCHANGED <<inbox, work, turns, saved, declared, pool, completed, wire>>

\* The deferred unload: saved to disk and dropped from memory, unless a
\* message has started a turn in the meantime.
Unload(s) ==
  /\ s \in unloading
  /\ unloading' = unloading \ {s}
  /\ IF status[s] = "idle"
       THEN /\ status' = [status EXCEPT ![s] = "cold"]
            /\ saved' = [saved EXCEPT ![s] = turns[s]]
       ELSE UNCHANGED <<status, saved>>
  /\ UNCHANGED <<inbox, work, turns, current, leftBusy, declared, pool, completed,
                 wire, snippetVars>>

\* A client's send_message takes no session id: it acts on the session the
\* client is attached to.  One that has completed may take a further turn
\* (the personas are written for that) or let the message lie.
Resumed(s, m) ==
  /\ status[s] = "ended"
  /\ StartTurn(s, inbox[s] \cup {m})
  /\ UNCHANGED <<current, unloading, leftBusy, completed, wire>>

SendMessage(m) ==
  \/ Deliver(current, m)
  \/ Resumed(current, m)

-----------------------------------------------------------------------------
(***************************************************************************)
(* The personas.                                                           *)
(***************************************************************************)

Running(s) == status[s] = "running"

\* The writer asks for a snippet mid-turn and keeps writing.
WriterAsks(sn) ==
  /\ Running(Writer)
  /\ Brief \in work[Writer]
  /\ sn \notin asked
  /\ asked' = asked \cup {sn}
  /\ Deliver(Coder, Request(sn))
  /\ UNCHANGED <<made, replied, included>>

\* A reply has named the path: the placeholder becomes an include line.
WriterIncludes(sn) ==
  /\ Running(Writer)
  /\ Reply(sn) \in work[Writer]
  /\ sn \notin included
  /\ included' = included \cup {sn}
  /\ UNCHANGED <<daemonVars, asked, made, replied>>

\* Waiting is ending the turn: nothing is left to ask or to include in it.
WriterWaits ==
  /\ Brief \in work[Writer] => asked = Snippets
  /\ \A sn \in Snippets : Reply(sn) \in work[Writer] => sn \in included
  /\ EndTurn(Writer)
  /\ UNCHANGED snippetVars

\* ready_for_review only once every placeholder is replaced.
WriterIsReady ==
  /\ asked = Snippets
  /\ included = asked
  /\ SignalCompletion(Writer, "ready_for_review")
  /\ UNCHANGED snippetVars

\* blocked: the model judges that it cannot go on.
WriterIsBlocked ==
  /\ included # Snippets
  /\ SignalCompletion(Writer, "blocked")
  /\ UNCHANGED snippetVars

\* The coder creates snippets/<id>.py for a request of this turn...
CoderWrites(sn) ==
  /\ Running(Coder)
  /\ Request(sn) \in work[Coder]
  /\ sn \notin made
  /\ made' = made \cup {sn}
  /\ UNCHANGED <<daemonVars, asked, replied, included>>

\* A path is promised before there is a file.
CoderPromises(sn) ==
  /\ Running(Coder)
  /\ Request(sn) \in work[Coder]
  /\ sn \notin replied
  /\ replied' = replied \cup {sn}
  /\ Deliver(Writer, Reply(sn))
  /\ UNCHANGED <<asked, made, included>>

\* ...and then answers the writer with its path.
CoderReplies(sn) ==
  /\ Running(Coder)
  /\ Request(sn) \in work[Coder]
  /\ sn \in made
  /\ sn \notin replied
  /\ replied' = replied \cup {sn}
  /\ Deliver(Writer, Reply(sn))
  /\ UNCHANGED <<asked, made, included>>

\* The coder stops with requests of this turn unanswered.
CoderDrops == EndTurn(Coder) /\ UNCHANGED snippetVars

\* The coder has no completion schema: stopping is all it can do.
CoderStandsBy ==
  /\ \A sn \in Snippets : Request(sn) \in work[Coder] => sn \in replied
  /\ EndTurn(Coder)
  /\ UNCHANGED snippetVars

\* A reviewer's exit is a verdict; a turn that ends without one is silent.
ReviewerJudges(r) ==
  /\ \E v \in {"accept", "revise"} : SignalCompletion(r, v)
  /\ UNCHANGED snippetVars

ReviewerIsSilent(r) ==
  /\ EndTurn(r)
  /\ UNCHANGED snippetVars

WriterStep ==
  \/ \E sn \in Snippets : WriterAsks(sn) \/ WriterIncludes(sn)
  \/ WriterWaits \/ WriterIsReady \/ WriterIsBlocked

CoderStep ==
  \/ \E sn \in Snippets : CoderWrites(sn) \/ CoderReplies(sn)
  \/ CoderStandsBy

ReviewerStep == \E r \in Reviewers : ReviewerJudges(r) \/ ReviewerIsSilent(r)

UnloadStep == \E s \in Session : Unload(s)

SessionStep == WriterStep \/ CoderStep \/ ReviewerStep \/ UnloadStep
=============================================================================
