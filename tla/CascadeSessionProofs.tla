------------------------ MODULE CascadeSessionProofs ------------------------
(***************************************************************************)
(* What becomes of the messages, the snippets and the coder of a cascade:  *)
(* nothing is lost between the sessions, nothing waits at an idle one, and *)
(* the coder the driver has left is on disk before the review begins.      *)
(***************************************************************************)
EXTENDS ChapterCascadeProofs

\* Nothing is queued for a session that is idle or does not exist yet.
QueuesAreOfBusy ==
  \A s \in Session : status[s] \in {"absent", "idle"} => inbox[s] = {}

\* The messages of a turn go with it.
WorkIsOfTurns == \A s \in Session : status[s] # "running" => work[s] = {}

InHand(s) == inbox[s] \cup work[s]

\* A request in the coder's hands was asked, a reply in the writer's was given.
MessagesAreTrue ==
  \A sn \in Snippets :
    /\ Request(sn) \in InHand(Coder) => sn \in asked
    /\ Reply(sn) \in InHand(Writer) => sn \in replied

\* A snippet is asked for and made, then named in a reply, then included.
SnippetsInOrder ==
  included \subseteq replied /\ replied \subseteq asked /\ replied \subseteq made

\* A chapter is ready when every snippet it needs has been made.
ReadyIsMade == "ready_for_review" \in Signalled(Writer) => made = Snippets

\* Until it has its brief the writer does nothing.
BeforeBrief == Setup \cup {"startCoder", "briefCoder", "startWriter", "briefWriter"}

WriterIsFresh ==
  pc \in BeforeBrief =>
    status[Writer] \in {"absent", "idle"} /\ asked = {} /\ Signalled(Writer) = {}

\* The session the client is on.
ClientIsOn ==
  /\ pc \in {"briefCoder", "attachWriter"} => current = Coder
  /\ pc \in {"briefWriter", "subscribeWriter", "awaitWriter", "attachCoder"} =>
       current = Writer

\* What the writer signals ends it, until the reviews begin.
WriterHasEnded ==
  pc \in {"subscribeWriter", "awaitWriter"} \cup Stopping /\ Signalled(Writer) # {} =>
    status[Writer] = "ended"

\* No session is unloaded before the driver has left the coder.
BeforeLeaving == Setup \cup Writing \cup {"attachCoder", "attachWriter"}

NoneIsUnloaded ==
  pc \in BeforeLeaving => unloading = {} /\ \A s \in Session : status[s] # "cold"

\* The coder signals nothing; it is there until it is left, and then it is on
\* its way to the disk.
OnDisk == status[Coder] = "cold" /\ saved[Coder] = turns[Coder]

CoderStands ==
  /\ status[Coder] # "ended"
  /\ pc \in BeforeLeaving \ (Setup \cup {"startCoder"}) => status[Coder] \in {"idle", "running"}
  /\ pc = "settle" /\ Coder \notin leftBusy =>
       OnDisk \/ (status[Coder] = "idle" /\ Coder \in unloading)

Hands ==
  QueuesAreOfBusy /\ WorkIsOfTurns /\ MessagesAreTrue /\ SnippetsInOrder
    /\ SnippetsAreUnderWay /\ ReadyIsMade
Places ==
  WriterIsFresh /\ ClientIsOn /\ WriterHasEnded /\ NoneIsUnloaded /\ CoderStands
    /\ StoppedCoderIsOnDisk

SessionInv == OutcomeInv /\ Hands /\ Places

-----------------------------------------------------------------------------
(***************************************************************************)
(* What an operation of the daemon does to each session.                   *)
(***************************************************************************)
Kept(t) ==
  /\ status'[t] = status[t] /\ inbox'[t] = inbox[t] /\ work'[t] = work[t]
  /\ saved'[t] = saved[t] /\ turns'[t] = turns[t]

\* As much of it as is on disk.
OnRecord(t) == status'[t] = status[t] /\ saved'[t] = saved[t] /\ turns'[t] = turns[t]

Elsewhere(s) == \A t \in Session \ {s} : Kept(t)

\* A message reaches s: it is in a turn of s or waits for one.
LEMMA DeliverEffect ==
  ASSUME TypeInv, WorkIsOfTurns, NEW s \in Session, NEW m \in Message,
         Deliver(s, m) \/ Resumed(s, m)
  PROVE  /\ Elsewhere(s)
         /\ InHand(s)' = InHand(s) \cup {m}
         /\ UNCHANGED <<current, unloading, leftBusy, completed, wire>>
         /\ \/ /\ status'[s] = "running" /\ inbox'[s] = {}
               /\ \/ status[s] = "idle"
                  \/ status[s] = "ended" /\ Resumed(s, m)
            \/ /\ status[s] \in {"running", "cold", "ended"}
               /\ status'[s] = status[s] /\ work'[s] = work[s]
               /\ saved'[s] = saved[s] /\ turns'[s] = turns[s]
<1> USE DEF TypeInv, TypeOK, SessionsTypeOK, DaemonTypeOK
<1>1. CASE /\ StartTurn(s, inbox[s] \cup {m})
           /\ UNCHANGED <<current, unloading, leftBusy, completed, wire>>
           /\ status[s] = "idle" \/ (status[s] = "ended" /\ Resumed(s, m))
  <2>1. Elsewhere(s) /\ status'[s] = "running" /\ inbox'[s] = {} /\ work'[s] = inbox[s] \cup {m}
    BY <1>1 DEF StartTurn, Elsewhere, Kept
  <2>2. work[s] = {}
    BY <1>1 DEF WorkIsOfTurns
  <2> QED
    BY <1>1, <2>1, <2>2 DEF InHand
<1>2. CASE Queued(s, m) /\ UNCHANGED <<current, unloading, leftBusy, completed, wire>>
  <2>1. Elsewhere(s) /\ inbox'[s] = inbox[s] \cup {m}
    BY <1>2 DEF Queued, Elsewhere, Kept
  <2> QED
    BY <1>2, <2>1 DEF Queued, InHand
<1> QED
  BY <1>1, <1>2 DEF Deliver, Accepted, Resumed

\* A turn of s ends; what was queued for s starts the next one.
LEMMA EndTurnEffect ==
  ASSUME TypeInv, NEW s \in Session, EndTurn(s)
  PROVE  /\ Elsewhere(s)
         /\ status[s] = "running" /\ inbox'[s] = {} /\ work'[s] = inbox[s]
         /\ status'[s] \in {"running", "idle"}
         /\ status'[s] = "idle" => work'[s] = {}
         /\ UNCHANGED <<current, unloading, leftBusy, completed, wire>>
<1> USE DEF TypeInv, TypeOK, SessionsTypeOK, DaemonTypeOK, Elsewhere, Kept
<1>1. CASE inbox[s] # {} /\ StartTurn(s, inbox[s])
  BY <1>1 DEF EndTurn, StartTurn
<1>2. CASE inbox[s] = {} /\ ~StartTurn(s, inbox[s])
  BY <1>2 DEF EndTurn
<1> QED
  BY <1>1, <1>2 DEF EndTurn

\* A completion ends s.
LEMMA SignalEffect ==
  ASSUME TypeInv, NEW s \in Session, NEW o \in Outcome, SignalCompletion(s, o)
  PROVE  /\ Elsewhere(s)
         /\ status[s] = "running" /\ status'[s] = "ended"
         /\ inbox'[s] = inbox[s] /\ work'[s] = {}
         /\ UNCHANGED <<current, unloading, leftBusy>>
         /\ \A t \in Session : Signalled(t)' = Signalled(t) \cup (IF t = s THEN {o} ELSE {})
<1>1. \A t \in Session : Signalled(t)' = Signalled(t) \cup (IF t = s THEN {o} ELSE {})
  BY CompletionIsRecorded
<1> QED
  BY <1>1 DEF TypeInv, TypeOK, SessionsTypeOK, DaemonTypeOK, Elsewhere, Kept, SignalCompletion

\* A session left idle goes to disk, one that has been woken stays.
LEMMA UnloadEffect ==
  ASSUME TypeInv, NEW s \in Session, Unload(s)
  PROVE  /\ Elsewhere(s)
         /\ s \in unloading /\ unloading' = unloading \ {s}
         /\ inbox'[s] = inbox[s] /\ work'[s] = work[s]
         /\ IF status[s] = "idle" THEN status'[s] = "cold" /\ saved'[s] = turns'[s]
                                  ELSE Kept(s)
         /\ UNCHANGED <<current, leftBusy, completed, wire, snippetVars>>
BY DEF TypeInv, TypeOK, SessionsTypeOK, DaemonTypeOK, Elsewhere, Kept, Unload

\* Past the write phase the writer has signalled.
LEMMA WriterHasSignalled ==
  ASSUME OutcomeInv, pc \in Stopping \cup Reviewing \cup Revising
  PROVE  Signalled(Writer) # {}
BY DEF OutcomeInv, ReviewHasChapter, PayloadsAreAttributed

LEMMA MessagesDiffer ==
  /\ \A a, b \in Snippets : Request(a) # Reply(b)
  /\ \A a, b \in Snippets : Request(a) = Request(b) => a = b
  /\ \A a, b \in Snippets : Reply(a) = Reply(b) => a = b
  /\ \A a \in Snippets, m \in {Brief, Review, Feedback} : Request(a) # m /\ Reply(a) # m
BY DEF Request, Reply, Brief, Review, Feedback

LEMMA NothingSaid ==
  ASSUME UNCHANGED completed
  PROVE  \A s : Signalled(s)' = Signalled(s)
BY DEF Signalled

-----------------------------------------------------------------------------
(***************************************************************************)
(* The steps of the sessions.                                              *)
(***************************************************************************)

\* What a step of the sessions has to keep to, for the driver's place in the
\* program to go on being what the driver takes it for.
LEMMA PlacesStay ==
  ASSUME SessionInv,
         UNCHANGED driverVars, UNCHANGED <<current, leftBusy>>,
         unloading' \subseteq unloading,
         pc \in BeforeBrief =>
           status'[Writer] \in {"absent", "idle"} /\ asked' = {} /\ Signalled(Writer)' = {},
         Signalled(Writer)' # {} => status'[Writer] = "ended" \/
           (Signalled(Writer) # {} /\ (status[Writer] = "ended" => status'[Writer] = "ended")),
         unloading = {} => \A s \in Session : status'[s] = "cold" => status[s] = "cold",
         status'[Coder] = "ended" => status[Coder] = "ended",
         status'[Coder] = "cold" => OnRecord(Coder) \/ saved'[Coder] = turns'[Coder],
         status[Coder] = "cold" => OnRecord(Coder),
         status[Coder] \in {"idle", "running"} =>
           \/ status'[Coder] \in {"idle", "running"}
           \/ status'[Coder] = "cold" /\ Coder \in unloading,
         pc = "settle" /\ status[Coder] = "idle" /\ Coder \in unloading =>
           (status'[Coder] = "idle" /\ Coder \in unloading') \/ status'[Coder] = "cold"
  PROVE  Places'
<1> USE DEF SessionInv, Places, driverVars
<1>1. WriterIsFresh'
  BY DEF WriterIsFresh
<1>2. ClientIsOn'
  BY DEF ClientIsOn
<1>3. WriterHasEnded'
  BY DEF WriterHasEnded
<1>4. NoneIsUnloaded'
  BY DEF NoneIsUnloaded
<1>5. CoderStands'
  <2>1. status'[Coder] # "ended"
    BY DEF CoderStands
  <2>2. pc \in BeforeLeaving => unloading = {}
    BY DEF NoneIsUnloaded
  <2>3. pc' \in BeforeLeaving \ (Setup \cup {"startCoder"}) =>
          status'[Coder] \in {"idle", "running"}
    BY <2>2 DEF CoderStands
  <2>4. OnDisk => OnDisk'
    BY DEF OnDisk, OnRecord
  <2>5. pc' = "settle" /\ Coder \notin leftBusy' =>
          OnDisk' \/ (status'[Coder] = "idle" /\ Coder \in unloading')
    BY <2>4 DEF CoderStands, OnDisk, OnRecord
  <2> QED
    BY <2>1, <2>3, <2>5 DEF CoderStands
<1>6. StoppedCoderIsOnDisk'
  BY DEF StoppedCoderIsOnDisk, OnRecord
<1> QED
  BY <1>1, <1>2, <1>3, <1>4, <1>5, <1>6

\* The writer asks the coder for a snippet.
LEMMA AskKeeps ==
  ASSUME SessionInv, UNCHANGED driverVars, NEW sn \in Snippets, WriterAsks(sn)
  PROVE  Hands' /\ Places'
<1> DEFINE m == Request(sn)
<1>1. /\ status[Writer] = "running" /\ sn \notin asked /\ asked' = asked \cup {sn}
      /\ Deliver(Coder, m) /\ UNCHANGED <<made, replied, included>> /\ m \in Message
  BY MessageFacts DEF WriterAsks, Running
<1>2. /\ Elsewhere(Coder)
      /\ InHand(Coder)' = InHand(Coder) \cup {m}
      /\ UNCHANGED <<current, unloading, leftBusy, completed, wire>>
      /\ \/ /\ status'[Coder] = "running" /\ inbox'[Coder] = {}
            /\ status[Coder] \in {"idle", "ended"}
         \/ /\ status[Coder] \in {"running", "cold", "ended"}
            /\ status'[Coder] = status[Coder] /\ work'[Coder] = work[Coder]
            /\ saved'[Coder] = saved[Coder] /\ turns'[Coder] = turns[Coder]
  BY <1>1, DeliverEffect, SessionFacts DEF SessionInv, OutcomeInv, Hands
<1>3. Coder # Writer /\ Coder \in Session /\ Writer \in Session /\ Kept(Writer)
  BY <1>2, SessionFacts DEF Elsewhere
<1>4. \A t : Signalled(t)' = Signalled(t)
  BY <1>2, NothingSaid
<1>5. InHand(Writer)' = InHand(Writer)
  BY <1>3 DEF InHand, Kept
<1>6. Hands'
  <2>1. QueuesAreOfBusy' /\ WorkIsOfTurns'
    BY <1>2, <1>3 DEF SessionInv, Hands, QueuesAreOfBusy, WorkIsOfTurns, Elsewhere, Kept
  <2>2. MessagesAreTrue'
    BY <1>1, <1>2, <1>5, MessagesDiffer DEF SessionInv, Hands, MessagesAreTrue
  <2>3. SnippetsInOrder' /\ ReadyIsMade'
    BY <1>1, <1>4 DEF SessionInv, Hands, SnippetsInOrder, ReadyIsMade
  <2>4. sn \notin replied
    BY <1>1 DEF SessionInv, Hands, SnippetsInOrder
  <2>5. SnippetsAreUnderWay'
    BY <1>1, <1>2, <1>4, <1>5, <2>4 DEF SessionInv, Hands, SnippetsAreUnderWay, InHand
  <2> QED
    BY <2>1, <2>2, <2>3, <2>5 DEF Hands
<1>7. pc \notin BeforeBrief
  BY <1>1 DEF SessionInv, Places, WriterIsFresh
<1>8. pc # "settle"
  BY <1>1, WriterHasSignalled DEF SessionInv, Places, WriterHasEnded, Stopping
<1>9. status[Coder] # "ended"
  BY DEF SessionInv, Places, CoderStands
<1> QED
  BY <1>2, <1>3, <1>4, <1>6, <1>7, <1>8, <1>9, PlacesStay DEF Elsewhere, Kept, OnRecord

\* The coder answers the writer.
LEMMA ReplyKeeps ==
  ASSUME SessionInv, UNCHANGED driverVars, NEW sn \in Snippets, CoderReplies(sn)
  PROVE  Hands' /\ Places'
<1> DEFINE m == Reply(sn)
<1>1. /\ status[Coder] = "running" /\ Request(sn) \in InHand(Coder) /\ sn \in made
      /\ replied' = replied \cup {sn}
      /\ Deliver(Writer, m) /\ UNCHANGED <<asked, made, included>> /\ m \in Message
  BY MessageFacts DEF CoderReplies, Running, InHand
<1>2. /\ Elsewhere(Writer)
      /\ InHand(Writer)' = InHand(Writer) \cup {m}
      /\ UNCHANGED <<current, unloading, leftBusy, completed, wire>>
      /\ \/ /\ status'[Writer] = "running" /\ inbox'[Writer] = {}
            /\ status[Writer] = "idle" \/ (status[Writer] = "ended" /\ Resumed(Writer, m))
         \/ /\ status[Writer] \in {"running", "cold", "ended"}
            /\ status'[Writer] = status[Writer] /\ work'[Writer] = work[Writer]
            /\ saved'[Writer] = saved[Writer] /\ turns'[Writer] = turns[Writer]
  BY <1>1, DeliverEffect, SessionFacts DEF SessionInv, OutcomeInv, Hands
<1>3. Coder # Writer /\ Coder \in Session /\ Writer \in Session /\ Kept(Coder)
  BY <1>2, SessionFacts DEF Elsewhere
<1>4. \A t : Signalled(t)' = Signalled(t)
  BY <1>2, NothingSaid
<1>5. InHand(Coder)' = InHand(Coder)
  BY <1>3 DEF InHand, Kept
<1>6. sn \in asked
  BY <1>1 DEF SessionInv, Hands, MessagesAreTrue
<1>7. Hands'
  <2>1. QueuesAreOfBusy' /\ WorkIsOfTurns'
    BY <1>2, <1>3 DEF SessionInv, Hands, QueuesAreOfBusy, WorkIsOfTurns, Elsewhere, Kept
  <2>2. MessagesAreTrue'
    BY <1>1, <1>2, <1>5, MessagesDiffer DEF SessionInv, Hands, MessagesAreTrue
  <2>3. SnippetsInOrder' /\ ReadyIsMade'
    BY <1>1, <1>4, <1>6 DEF SessionInv, Hands, SnippetsInOrder, ReadyIsMade
  <2>4. SnippetsAreUnderWay'
    BY <1>1, <1>2, <1>4, <1>5 DEF SessionInv, Hands, SnippetsAreUnderWay, InHand
  <2> QED
    BY <2>1, <2>2, <2>3, <2>4 DEF Hands
<1>8. pc \notin BeforeBrief
  BY <1>6 DEF SessionInv, Places, WriterIsFresh
<1>9. status[Writer] = "ended" => status'[Writer] = "ended"
  BY <1>1, <1>3 DEF Deliver, Accepted, Queued
<1> QED
  BY <1>2, <1>3, <1>4, <1>7, <1>8, <1>9, PlacesStay DEF Elsewhere, Kept, OnRecord

\* What is written into the chapter or to the disk moves no session.
LEMMA NoteKeeps ==
  ASSUME SessionInv, UNCHANGED driverVars, NEW sn \in Snippets,
         WriterIncludes(sn) \/ CoderWrites(sn)
  PROVE  Hands' /\ Places'
<1>1. UNCHANGED daemonVars /\ UNCHANGED <<asked, replied>>
  BY DEF WriterIncludes, CoderWrites
<1>2. (\A t : Signalled(t)' = Signalled(t)) /\ \A t : InHand(t)' = InHand(t)
  BY <1>1 DEF daemonVars, InHand, Signalled
<1>3. made \subseteq made' /\ included \subseteq included' /\ made' \subseteq Snippets
  BY DEF WriterIncludes, CoderWrites, SessionInv, OutcomeInv, TypeInv, TypeOK, SessionsTypeOK,
         SnippetsTypeOK
<1>4. included' \subseteq replied
  BY DEF WriterIncludes, CoderWrites, SessionInv, Hands, SnippetsInOrder, MessagesAreTrue, InHand
<1>5. QueuesAreOfBusy' /\ WorkIsOfTurns' /\ MessagesAreTrue'
  BY <1>1, <1>2 DEF SessionInv, Hands, QueuesAreOfBusy, WorkIsOfTurns, MessagesAreTrue, daemonVars
<1>6. SnippetsInOrder' /\ ReadyIsMade'
  BY <1>1, <1>2, <1>3, <1>4 DEF SessionInv, Hands, SnippetsInOrder, ReadyIsMade
<1>7. SnippetsAreUnderWay'
  BY <1>1, <1>2, <1>3 DEF SessionInv, Hands, SnippetsAreUnderWay, daemonVars
<1>8. \A t : Kept(t)
  BY <1>1 DEF Kept, daemonVars
<1>9. Places'
  BY <1>1, <1>2, <1>8, PlacesStay, SessionFacts
  DEF SessionInv, Places, WriterIsFresh, daemonVars, Kept, OnRecord
<1> QED
  BY <1>5, <1>6, <1>7, <1>9 DEF Hands

\* A turn ends without a completion, and loses nothing that is under way.
LEMMA StopKeeps ==
  ASSUME SessionInv, UNCHANGED driverVars, WriterWaits \/ CoderStandsBy \/
         \E r \in Reviewers : ReviewerIsSilent(r)
  PROVE  Hands' /\ Places'
<1>1. PICK s \in Session :
        /\ EndTurn(s) /\ UNCHANGED snippetVars
        /\ s = Writer => \A sn \in Snippets : Reply(sn) \in work[s] => sn \in included
        /\ s = Coder => \A sn \in Snippets : Request(sn) \in work[s] => sn \in replied
  BY SessionFacts DEF WriterWaits, CoderStandsBy, ReviewerIsSilent, Session, Reviewers
<1>2. /\ Elsewhere(s)
      /\ status[s] = "running" /\ inbox'[s] = {} /\ work'[s] = inbox[s]
      /\ status'[s] \in {"running", "idle"}
      /\ status'[s] = "idle" => work'[s] = {}
      /\ UNCHANGED <<current, unloading, leftBusy, completed, wire>>
  BY <1>1, EndTurnEffect DEF SessionInv, OutcomeInv
<1>3. \A t : Signalled(t)' = Signalled(t)
  BY <1>2, NothingSaid
<1>4. \A t \in Session : InHand(t)' \subseteq InHand(t)
  BY <1>2 DEF InHand, Elsewhere, Kept
<1>5. Coder \in Session /\ Writer \in Session /\ Coder # Writer
  BY SessionFacts
<1>6. Hands'
  <2>1. QueuesAreOfBusy' /\ WorkIsOfTurns'
    BY <1>2 DEF SessionInv, Hands, QueuesAreOfBusy, WorkIsOfTurns, Elsewhere, Kept
  <2>2. MessagesAreTrue' /\ SnippetsInOrder' /\ ReadyIsMade'
    BY <1>1, <1>3, <1>4, <1>5
    DEF SessionInv, Hands, MessagesAreTrue, SnippetsInOrder, ReadyIsMade, snippetVars
  <2>3. ASSUME NEW sn \in asked \ included, Signalled(Writer) = {}
        PROVE  \/ sn \notin replied /\ Request(sn) \in InHand(Coder)'
               \/ sn \in replied /\ Reply(sn) \in InHand(Writer)'
    <3>1. sn \in Snippets
      BY DEF SessionInv, OutcomeInv, TypeInv, TypeOK, SessionsTypeOK, SnippetsTypeOK
    <3>2. CASE sn \notin replied
      <4>1. Request(sn) \in InHand(Coder)
        BY <2>3, <3>2 DEF SessionInv, Hands, SnippetsAreUnderWay, InHand
      <4> QED
        BY <1>1, <1>2, <1>5, <3>1, <3>2, <4>1 DEF InHand, Elsewhere, Kept
    <3>3. CASE sn \in replied
      <4>1. Reply(sn) \in InHand(Writer)
        BY <2>3, <3>3 DEF SessionInv, Hands, SnippetsAreUnderWay, InHand
      <4> QED
        BY <1>1, <1>2, <1>5, <2>3, <3>1, <3>3, <4>1 DEF InHand, Elsewhere, Kept
    <3> QED
      BY <3>2, <3>3
  <2>4. SnippetsAreUnderWay'
    BY <1>1, <1>3, <2>3 DEF SnippetsAreUnderWay, InHand, snippetVars
  <2> QED
    BY <2>1, <2>2, <2>4 DEF Hands
<1>7. pc \in BeforeBrief => s # Writer /\ asked' = {} /\ Signalled(Writer)' = {}
  BY <1>1, <1>2, <1>3 DEF SessionInv, Places, WriterIsFresh, snippetVars
<1>8. pc \in BeforeBrief => status'[Writer] \in {"absent", "idle"}
  BY <1>2, <1>5, <1>7 DEF SessionInv, Places, WriterIsFresh, Elsewhere, Kept
<1>9. \A t \in Session : Kept(t) \/ (status[t] = "running" /\ status'[t] \in {"running", "idle"})
  BY <1>2 DEF Elsewhere
<1>10. Places'
  BY <1>2, <1>3, <1>5, <1>7, <1>8, <1>9, PlacesStay DEF Kept, OnRecord
<1> QED
  BY <1>6, <1>10

\* A session signals and ends.
LEMMA SignalKeeps ==
  ASSUME SessionInv, UNCHANGED driverVars, WriterIsReady \/ WriterIsBlocked \/
         \E r \in Reviewers : ReviewerJudges(r)
  PROVE  Hands' /\ Places'
<1>1. PICK s \in Session, o \in Outcome :
        /\ SignalCompletion(s, o) /\ UNCHANGED snippetVars /\ s # Coder
        /\ s = Writer /\ o = "ready_for_review" => asked = Snippets /\ included = asked
  <2>1. CASE WriterIsReady
    BY <2>1, SessionFacts DEF WriterIsReady, Outcome
  <2>2. CASE WriterIsBlocked
    BY <2>2, SessionFacts DEF WriterIsBlocked, Outcome
  <2>3. CASE \E r \in Reviewers : ReviewerJudges(r)
    BY <2>3, SessionFacts DEF ReviewerJudges, Outcome, Session, Reviewers
  <2> QED
    BY <2>1, <2>2, <2>3
<1>2. /\ Elsewhere(s)
      /\ status[s] = "running" /\ status'[s] = "ended"
      /\ inbox'[s] = inbox[s] /\ work'[s] = {}
      /\ UNCHANGED <<current, unloading, leftBusy>>
      /\ \A t \in Session : Signalled(t)' = Signalled(t) \cup (IF t = s THEN {o} ELSE {})
  BY <1>1, SignalEffect DEF SessionInv, OutcomeInv
<1>3. Coder \in Session /\ Writer \in Session /\ Coder # Writer
  BY SessionFacts
<1>4. \A t \in Session : InHand(t)' \subseteq InHand(t) /\ (t # s => InHand(t)' = InHand(t))
  BY <1>2 DEF InHand, Elsewhere, Kept
<1>5. Hands'
  <2>1. QueuesAreOfBusy' /\ WorkIsOfTurns'
    BY <1>2 DEF SessionInv, Hands, QueuesAreOfBusy, WorkIsOfTurns, Elsewhere, Kept
  <2>2. MessagesAreTrue' /\ SnippetsInOrder'
    BY <1>1, <1>3, <1>4 DEF SessionInv, Hands, MessagesAreTrue, SnippetsInOrder, snippetVars
  <2>3. ReadyIsMade'
    <3>1. made \subseteq Snippets
      BY DEF SessionInv, OutcomeInv, TypeInv, TypeOK, SessionsTypeOK, SnippetsTypeOK
    <3> QED
      BY <1>1, <1>2, <1>3, <3>1
      DEF SessionInv, Hands, ReadyIsMade, SnippetsInOrder, snippetVars
  <2>4. SnippetsAreUnderWay'
    <3>1. CASE s = Writer
      BY <1>2, <1>3, <3>1 DEF SnippetsAreUnderWay
    <3>2. CASE s # Writer
      BY <1>1, <1>2, <1>3, <1>4, <3>2
      DEF SessionInv, Hands, SnippetsAreUnderWay, InHand, snippetVars
    <3> QED
      BY <3>1, <3>2
  <2> QED
    BY <2>1, <2>2, <2>3, <2>4 DEF Hands
<1>6. Kept(Coder)
  BY <1>1, <1>2, <1>3 DEF Elsewhere
<1>7. pc \in BeforeBrief => s # Writer
  BY <1>2 DEF SessionInv, Places, WriterIsFresh
<1>8. pc \in BeforeBrief =>
        status'[Writer] \in {"absent", "idle"} /\ asked' = {} /\ Signalled(Writer)' = {}
  BY <1>1, <1>2, <1>3, <1>7 DEF SessionInv, Places, WriterIsFresh, Elsewhere, Kept, snippetVars
<1>9. \A t \in Session : Kept(t) \/ status'[t] = "ended"
  BY <1>2 DEF Elsewhere
<1>10. Signalled(Writer)' # {} => status'[Writer] = "ended" \/
        (Signalled(Writer) # {} /\ (status[Writer] = "ended" => status'[Writer] = "ended"))
  BY <1>2, <1>3, <1>9 DEF Kept
<1>11. Places'
  BY <1>2, <1>3, <1>6, <1>8, <1>9, <1>10, PlacesStay DEF Kept, OnRecord
<1> QED
  BY <1>5, <1>11

\* The daemon unloads a session it was left with.
LEMMA UnloadKeeps ==
  ASSUME SessionInv, UNCHANGED driverVars, UnloadStep
  PROVE  Hands' /\ Places'
<1>1. PICK s \in Session : Unload(s)
  BY DEF UnloadStep
<1>2. /\ Elsewhere(s)
      /\ s \in unloading /\ unloading' = unloading \ {s}
      /\ inbox'[s] = inbox[s] /\ work'[s] = work[s]
      /\ IF status[s] = "idle" THEN status'[s] = "cold" /\ saved'[s] = turns'[s]
                               ELSE Kept(s)
      /\ UNCHANGED <<current, leftBusy, completed, wire, snippetVars>>
  BY <1>1, UnloadEffect DEF SessionInv, OutcomeInv
<1>3. Coder \in Session /\ Writer \in Session
  BY SessionFacts
<1>4. \A t \in Session : InHand(t)' = InHand(t)
  BY <1>2 DEF InHand, Elsewhere, Kept
<1>5. \A t : Signalled(t)' = Signalled(t)
  BY <1>2, NothingSaid
<1>6. QueuesAreOfBusy' /\ WorkIsOfTurns'
  BY <1>2 DEF SessionInv, Hands, QueuesAreOfBusy, WorkIsOfTurns, Elsewhere, Kept
<1>7. MessagesAreTrue' /\ SnippetsInOrder' /\ ReadyIsMade' /\ SnippetsAreUnderWay'
  BY <1>2, <1>3, <1>4, <1>5
  DEF SessionInv, Hands, MessagesAreTrue, SnippetsInOrder, ReadyIsMade, SnippetsAreUnderWay,
      InHand, snippetVars
<1>8. pc \notin BeforeLeaving
  BY <1>2 DEF SessionInv, Places, NoneIsUnloaded
<1>9. pc \notin BeforeBrief
  BY <1>8 DEF BeforeBrief, BeforeLeaving, Writing
<1>10. \A t \in Session : Kept(t) \/ (status[t] = "idle" /\ status'[t] = "cold"
                                       /\ saved'[t] = turns'[t] /\ t \in unloading)
  BY <1>2 DEF Elsewhere
<1>11. Signalled(Writer)' # {} => status'[Writer] = "ended" \/
        (Signalled(Writer) # {} /\ (status[Writer] = "ended" => status'[Writer] = "ended"))
  BY <1>3, <1>5, <1>10 DEF Kept
<1>12. pc = "settle" /\ status[Coder] = "idle" /\ Coder \in unloading =>
         (status'[Coder] = "idle" /\ Coder \in unloading') \/ status'[Coder] = "cold"
  BY <1>2, <1>3 DEF Elsewhere, Kept
<1>13. Places'
  BY <1>2, <1>3, <1>9, <1>10, <1>11, <1>12, PlacesStay DEF Kept, OnRecord
<1> QED
  BY <1>6, <1>7, <1>13 DEF Hands

LEMMA SessionStepKeeps ==
  ASSUME SessionInv, SessionStep, UNCHANGED driverVars
  PROVE  Hands' /\ Places'
BY AskKeeps, ReplyKeeps, NoteKeeps, StopKeeps, SignalKeeps, UnloadKeeps
DEF SessionStep, WriterStep, CoderStep, ReviewerStep

-----------------------------------------------------------------------------
(***************************************************************************)
(* The steps of the driver.                                                *)
(***************************************************************************)

\* Steps that leave the sessions alone.
LEMMA HandsStay ==
  ASSUME SessionInv, UNCHANGED <<status, inbox, work, completed>>, UNCHANGED snippetVars
  PROVE  Hands'
<1>1. (\A t : Signalled(t)' = Signalled(t)) /\ \A t : InHand(t)' = InHand(t)
  BY NothingSaid DEF InHand
<1> QED
  BY <1>1
  DEF SessionInv, Hands, QueuesAreOfBusy, WorkIsOfTurns, MessagesAreTrue, SnippetsInOrder,
      SnippetsAreUnderWay, ReadyIsMade, snippetVars

\* Where such a step goes on from.
ComesFrom ==
  /\ pc' \in BeforeBrief => pc \in BeforeBrief
  /\ pc' \in {"subscribeWriter", "awaitWriter", "attachCoder"} =>
       pc \in {"subscribeWriter", "awaitWriter"}
  /\ pc' \notin {"briefCoder", "startWriter", "briefWriter", "attachWriter", "settle"}
  /\ pc' \in BeforeLeaving => pc \in BeforeLeaving
  /\ pc' \in Reviewing \cup Revising =>
       pc \in Reviewing \cup Revising \/ (pc = "settle" /\ unloading = {})

QuietStep ==
  \/ Connect \/ ProbeTool \/ Refuse \/ DeclareBudget
  \/ SubscribeWriter \/ WriterReports \/ WriterTimesOut \/ Settle
  \/ SubscribeVerdict \/ VerdictArrives \/ VerdictTimesOut
  \/ ShowBudget \/ SubscribeRevision \/ RevisionWaitEnds
  \/ CallRaises \/ WriteTranscript \/ Disconnect

LEMMA QuietStepEffect ==
  ASSUME QuietStep
  PROVE  /\ UNCHANGED <<status, inbox, work, completed, turns, saved, current, unloading,
                        leftBusy>>
         /\ UNCHANGED snippetVars
         /\ ComesFrom
<1>1. /\ UNCHANGED <<status, inbox, work, completed, turns, saved, current, unloading, leftBusy>>
      /\ UNCHANGED snippetVars
  BY DEF QuietStep, Connect, ProbeTool, Refuse, DeclareBudget, SubscribeWriter,
     SubscribeVerdict, SubscribeRevision, Subscribe, WriterReports, WriterTimesOut, Settle,
     VerdictArrives, VerdictTimesOut, ShowBudget, RevisionWaitEnds, CallRaises,
     WriteTranscript, Disconnect, sessionVars, daemonVars
<1> USE DEF ComesFrom, BeforeBrief, BeforeLeaving, Setup, Writing, Stopping, Reviewing,
            Revising, Goto, Leave
<1>2. CASE Connect \/ ProbeTool \/ Refuse \/ DeclareBudget
  BY <1>1, <1>2 DEF Connect, ProbeTool, Refuse, DeclareBudget
<1>3. CASE SubscribeWriter \/ WriterReports \/ WriterTimesOut \/ Settle
  BY <1>1, <1>3 DEF SubscribeWriter, Subscribe, WriterReports, WriterTimesOut, Settle
<1>4. CASE SubscribeVerdict \/ VerdictArrives \/ VerdictTimesOut
  BY <1>1, <1>4 DEF SubscribeVerdict, Subscribe, VerdictArrives, VerdictTimesOut
<1>5. CASE ShowBudget \/ SubscribeRevision \/ RevisionWaitEnds
  BY <1>1, <1>5 DEF ShowBudget, SubscribeRevision, Subscribe, RevisionWaitEnds
<1>6. CASE CallRaises \/ WriteTranscript \/ Disconnect
  BY <1>1, <1>6 DEF CallRaises, WriteTranscript, Disconnect
<1> QED
  BY <1>2, <1>3, <1>4, <1>5, <1>6 DEF QuietStep

LEMMA QuietKeeps ==
  ASSUME SessionInv, QuietStep
  PROVE  Hands' /\ Places'
<1>1. /\ UNCHANGED <<status, inbox, work, completed, turns, saved, current, unloading, leftBusy>>
      /\ UNCHANGED snippetVars
      /\ ComesFrom
  BY QuietStepEffect
<1>2. \A t : Signalled(t)' = Signalled(t)
  BY <1>1, NothingSaid
<1> USE DEF SessionInv, Places
<1>3. WriterIsFresh'
  BY <1>1, <1>2 DEF WriterIsFresh, ComesFrom, snippetVars
<1>4. ClientIsOn'
  BY <1>1 DEF ClientIsOn, ComesFrom
<1>5. WriterHasEnded'
  BY <1>1, <1>2 DEF WriterHasEnded, ComesFrom, Stopping
<1>6. NoneIsUnloaded'
  BY <1>1 DEF NoneIsUnloaded, ComesFrom
<1>7. CoderStands'
  <2>1. pc' \in BeforeLeaving \ (Setup \cup {"startCoder"}) =>
          \/ pc \in BeforeLeaving \ (Setup \cup {"startCoder"})
    BY <1>1 DEF ComesFrom, BeforeLeaving, Writing, Setup
  <2> QED
    BY <1>1, <2>1 DEF CoderStands, ComesFrom
<1>8. StoppedCoderIsOnDisk'
  BY <1>1 DEF StoppedCoderIsOnDisk, CoderStands, OnDisk, ComesFrom
<1> QED
  BY <1>1, <1>3, <1>4, <1>5, <1>6, <1>7, <1>8, HandsStay

\* A session is created: it is idle, and the client is on it.
LEMMA CreateKeeps ==
  ASSUME SessionInv, StartCoder \/ StartWriter \/ StartReviewer \/ StartFails
  PROVE  Hands' /\ Places'
<1>1. CASE UNCHANGED sessionVars
  <2>1. StartFails
    <3>1. ASSUME NEW s \in Session, CreateSession(s) PROVE status' # status
      BY <3>1
      DEF CreateSession, SessionInv, OutcomeInv, TypeInv, TypeOK, SessionsTypeOK, DaemonTypeOK
    <3>2. attempt \in 0 .. MaxRevisions /\ UNCHANGED status
      BY <1>1
      DEF SessionInv, OutcomeInv, TypeInv, TypeOK, DriverTypeOK, sessionVars, daemonVars
    <3> QED
      BY <3>1, <3>2, SessionFacts DEF StartCoder, StartWriter, StartReviewer, StartSession
  <2>2. Hands'
    BY <1>1, HandsStay DEF sessionVars, daemonVars
  <2>3. pc' = "finally" /\ UNCHANGED status
    BY <1>1, <2>1 DEF StartFails, Leave, Goto, sessionVars, daemonVars
  <2>4. status[Coder] # "ended"
    BY DEF SessionInv, Places, CoderStands
  <2> QED
    BY <2>2, <2>3, <2>4
    DEF Places, WriterIsFresh, BeforeBrief, ClientIsOn, WriterHasEnded, Stopping,
        NoneIsUnloaded, BeforeLeaving, CoderStands, Setup, Writing, StoppedCoderIsOnDisk,
        Reviewing, Revising
<1>2. CASE ~UNCHANGED sessionVars
  <2>1. PICK s \in Session :
          /\ CreateSession(s) /\ UNCHANGED snippetVars
          /\ \/ s = Coder /\ Goto("startCoder", "briefCoder")
             \/ s = Writer /\ Goto("startWriter", "briefWriter")
             \/ s \notin {Coder, Writer} /\ Goto("startReviewer", "sendReview")
             \/ pc' = "finally"
    <3>1. attempt \in 0 .. MaxRevisions
      BY DEF SessionInv, OutcomeInv, TypeInv, TypeOK, DriverTypeOK
    <3> QED
      BY <1>2, <3>1, SessionFacts
      DEF StartCoder, StartWriter, StartReviewer, StartSession, StartFails, Leave, Goto
  <2>2. /\ Elsewhere(s) /\ status[s] = "absent" /\ status'[s] = "idle" /\ current' = s
        /\ UNCHANGED <<inbox, work, turns, saved, unloading, leftBusy, completed>>
    BY <2>1
    DEF CreateSession, Elsewhere, Kept, SessionInv, OutcomeInv, TypeInv, TypeOK,
        SessionsTypeOK, DaemonTypeOK
  <2>3. (\A t : Signalled(t)' = Signalled(t)) /\ \A t : InHand(t)' = InHand(t)
    BY <2>2, NothingSaid DEF InHand
  <2>4. Coder \in Session /\ Writer \in Session /\ Coder # Writer
    BY SessionFacts
  <2>5. Hands'
    BY <2>1, <2>2, <2>3
    DEF SessionInv, Hands, QueuesAreOfBusy, WorkIsOfTurns, MessagesAreTrue, SnippetsInOrder,
        SnippetsAreUnderWay, ReadyIsMade, snippetVars, InHand, Elsewhere, Kept
  <2> USE DEF SessionInv, Places, Goto
  <2>6. WriterIsFresh'
    BY <2>1, <2>2, <2>3, <2>4
    DEF WriterIsFresh, BeforeBrief, Setup, snippetVars, Elsewhere, Kept
  <2>7. ClientIsOn' /\ WriterHasEnded'
    BY <2>1, <2>2 DEF ClientIsOn, WriterHasEnded, Stopping
  <2>8. NoneIsUnloaded'
    BY <2>1, <2>2 DEF NoneIsUnloaded, BeforeLeaving, Setup, Writing, Elsewhere, Kept
  <2>9. CoderStands'
    BY <2>1, <2>2, <2>4 DEF CoderStands, BeforeLeaving, Setup, Writing, Elsewhere, Kept
  <2>10. StoppedCoderIsOnDisk'
    BY <2>1, <2>2, <2>4 DEF StoppedCoderIsOnDisk, Reviewing, Revising, Elsewhere, Kept
  <2> QED
    BY <2>5, <2>6, <2>7, <2>8, <2>9, <2>10
<1> QED
  BY <1>1, <1>2

\* A message of the driver goes to the session the client is on.
LEMMA SendKeeps ==
  ASSUME SessionInv, BriefCoder \/ BriefWriter \/ SendReview \/ SendFeedback
  PROVE  Hands' /\ Places'
<1>1. PICK m \in {Brief, Review, Feedback} :
        /\ SendMessage(m) /\ UNCHANGED snippetVars
        /\ \/ Goto("briefCoder", "startWriter") \/ Goto("briefWriter", "subscribeWriter")
           \/ Goto("sendReview", "subscribeVerdict") \/ Goto("feedback", "startReviewer")
  BY DEF BriefCoder, BriefWriter, SendReview, SendFeedback, Send, Goto
<1>2. m \in Message /\ current \in Session
  BY <1>1, MessageFacts
  DEF SessionInv, OutcomeInv, TypeInv, TypeOK, SessionsTypeOK, DaemonTypeOK,
      ClientIsAttached, Setup, Closing, Goto
<1> DEFINE s == current
<1>3. /\ Elsewhere(s)
      /\ InHand(s)' = InHand(s) \cup {m}
      /\ UNCHANGED <<current, unloading, leftBusy, completed, wire>>
      /\ \/ /\ status'[s] = "running" /\ inbox'[s] = {}
            /\ status[s] \in {"idle", "ended"}
         \/ /\ status[s] \in {"running", "cold", "ended"}
            /\ status'[s] = status[s] /\ work'[s] = work[s]
            /\ saved'[s] = saved[s] /\ turns'[s] = turns[s]
  BY <1>1, <1>2, DeliverEffect DEF SendMessage, SessionInv, OutcomeInv, Hands
<1>4. Coder \in Session /\ Writer \in Session /\ Coder # Writer
  BY SessionFacts
<1>5. \A t : Signalled(t)' = Signalled(t)
  BY <1>3, NothingSaid
<1>6. \A t \in Session : InHand(t) \subseteq InHand(t)' /\ InHand(t)' \subseteq InHand(t) \cup {m}
  BY <1>3 DEF InHand, Elsewhere, Kept
<1> HIDE DEF s
<1>7. Hands'
  <2>1. QueuesAreOfBusy' /\ WorkIsOfTurns'
    BY <1>3 DEF SessionInv, Hands, QueuesAreOfBusy, WorkIsOfTurns, Elsewhere, Kept
  <2>2. MessagesAreTrue'
    BY <1>1, <1>4, <1>6, MessagesDiffer DEF SessionInv, Hands, MessagesAreTrue, snippetVars
  <2>3. SnippetsInOrder' /\ ReadyIsMade'
    BY <1>1, <1>5 DEF SessionInv, Hands, SnippetsInOrder, ReadyIsMade, snippetVars
  <2>4. SnippetsAreUnderWay'
    BY <1>1, <1>4, <1>5, <1>6 DEF SessionInv, Hands, SnippetsAreUnderWay, InHand, snippetVars
  <2> QED
    BY <2>1, <2>2, <2>3, <2>4 DEF Hands
<1> USE DEF SessionInv, Places, Goto
<1>8. WriterIsFresh'
  BY <1>1, <1>3, <1>4, <1>5
  DEF WriterIsFresh, ClientIsOn, BeforeBrief, Setup, snippetVars, Elsewhere, Kept, s
<1>9. ClientIsOn'
  BY <1>1, <1>3 DEF ClientIsOn, s
<1>10. WriterHasEnded'
  BY <1>1, <1>5 DEF WriterHasEnded, WriterIsFresh, BeforeBrief, Stopping
<1>11. NoneIsUnloaded'
  BY <1>1, <1>3 DEF NoneIsUnloaded, BeforeLeaving, Setup, Writing, Elsewhere, Kept
<1>12. CoderStands'
  <2>1. status'[Coder] # "ended"
    BY <1>3, <1>4 DEF CoderStands, Elsewhere, Kept
  <2>2. status[Coder] \in {"idle", "running"} => status'[Coder] \in {"idle", "running"}
    BY <1>3, <1>4 DEF Elsewhere, Kept
  <2> QED
    BY <1>1, <2>1, <2>2 DEF CoderStands, BeforeLeaving, Setup, Writing
<1>13. StoppedCoderIsOnDisk'
  <2>1. status[Coder] = "cold" => OnRecord(Coder)
    BY <1>3, <1>4 DEF Elsewhere, Kept, OnRecord
  <2> QED
    BY <1>1, <1>3, <2>1 DEF StoppedCoderIsOnDisk, OnRecord, Reviewing, Revising
<1> QED
  BY <1>7, <1>8, <1>9, <1>10, <1>11, <1>12, <1>13

\* The coder is left: first the client comes back to it, then it goes.
LEMMA AttachKeeps ==
  ASSUME SessionInv, AttachCoder \/ AttachWriter
  PROVE  Hands' /\ Places'
<1>1. /\ Coder \in Session /\ Writer \in Session /\ Coder # Writer
  BY SessionFacts
<1>2. /\ pc \in {"attachCoder", "attachWriter"}
      /\ UNCHANGED <<inbox, work, turns, saved, completed, wire>> /\ UNCHANGED snippetVars
  BY DEF AttachCoder, AttachWriter, Goto, Attach
<1>3. /\ status[Writer] = "ended" /\ unloading = {}
      /\ status[Coder] \in {"idle", "running"}
  BY <1>2, WriterHasSignalled
  DEF SessionInv, Places, WriterHasEnded, NoneIsUnloaded, CoderStands, BeforeLeaving, Stopping,
      Setup
<1>4. UNCHANGED status
  BY <1>3 DEF AttachCoder, AttachWriter, Attach
<1>5. CASE AttachCoder
  <2>1. /\ pc = "attachCoder" /\ pc' = "attachWriter" /\ current' = Coder
        /\ unloading' = {}
    BY <1>1, <1>3, <1>5 DEF AttachCoder, Goto, Attach, SessionInv, Places, ClientIsOn
  <2> QED
    BY <1>2, <1>3, <1>4, <2>1, HandsStay
    DEF SessionInv, Places, WriterIsFresh, BeforeBrief, ClientIsOn, WriterHasEnded, Stopping,
        NoneIsUnloaded, BeforeLeaving, CoderStands, Setup, Writing, StoppedCoderIsOnDisk,
        Reviewing, Revising
<1>6. CASE AttachWriter
  <2>1. /\ pc = "attachWriter" /\ pc' = "settle"
        /\ Coder \notin leftBusy' => status[Coder] = "idle" /\ Coder \in unloading'
    BY <1>1, <1>3, <1>6 DEF AttachWriter, Goto, Attach, SessionInv, Places, ClientIsOn
  <2> QED
    BY <1>2, <1>3, <1>4, <2>1, HandsStay
    DEF SessionInv, Places, WriterIsFresh, BeforeBrief, ClientIsOn, WriterHasEnded, Stopping,
        NoneIsUnloaded, BeforeLeaving, CoderStands, Setup, Writing, StoppedCoderIsOnDisk,
        Reviewing, Revising
<1> QED
  BY <1>5, <1>6

LEMMA DriverStepKeeps ==
  ASSUME SessionInv, DriverStep
  PROVE  Hands' /\ Places'
BY QuietKeeps, CreateKeeps, SendKeeps, AttachKeeps
DEF DriverStep, SetupStep, WriteStep, StopStep, ReviewStep, CloseStep, QuietStep

-----------------------------------------------------------------------------
LEMMA InitSessions == Init => SessionInv
<1> SUFFICES ASSUME Init PROVE SessionInv
  OBVIOUS
<1>1. \A s \in Session : Signalled(s) = {} /\ status[s] = "absent" /\ InHand(s) = {}
                         /\ inbox[s] = {} /\ work[s] = {}
  BY DEF Init, SessionsInit, Signalled, InHand
<1>2. Coder \in Session /\ Writer \in Session
  BY SessionFacts
<1>3. pc = "connect" /\ unloading = {} /\ asked = {} /\ replied = {} /\ included = {}
  BY DEF Init, SessionsInit
<1>4. Hands
  BY <1>1, <1>2, <1>3
  DEF Hands, QueuesAreOfBusy, WorkIsOfTurns, MessagesAreTrue, SnippetsInOrder,
      SnippetsAreUnderWay, ReadyIsMade
<1>5. Places
  BY <1>1, <1>2, <1>3
  DEF Places, WriterIsFresh, ClientIsOn, WriterHasEnded, NoneIsUnloaded, CoderStands,
      StoppedCoderIsOnDisk, BeforeLeaving, Setup, Stopping, Reviewing, Revising
<1> QED
  BY <1>4, <1>5, InitOutcomes DEF SessionInv

LEMMA NextSessions == SessionInv /\ [Next]_vars => SessionInv'
<1> SUFFICES ASSUME SessionInv, [Next]_vars PROVE SessionInv'
  OBVIOUS
<1>1. OutcomeInv'
  BY NextOutcomes DEF SessionInv
<1>2. CASE DriverStep
  BY <1>1, <1>2, DriverStepKeeps DEF SessionInv
<1>3. CASE SessionStep /\ UNCHANGED driverVars
  BY <1>1, <1>3, SessionStepKeeps DEF SessionInv
<1>4. CASE Dispatch \/ UNCHANGED vars
  <2>1. /\ UNCHANGED <<status, inbox, work, completed, turns, saved, current, unloading,
                       leftBusy, pc>>
        /\ UNCHANGED snippetVars
    BY <1>4 DEF Dispatch, vars, sessionVars, daemonVars, driverVars
  <2>2. \A t : Signalled(t)' = Signalled(t)
    BY <2>1, NothingSaid
  <2>3. Places'
    BY <2>1, <2>2
    DEF SessionInv, Places, WriterIsFresh, ClientIsOn, WriterHasEnded, NoneIsUnloaded,
        CoderStands, OnDisk, StoppedCoderIsOnDisk, snippetVars
  <2> QED
    BY <1>1, <2>1, <2>3, HandsStay DEF SessionInv
<1> QED
  BY <1>2, <1>3, <1>4 DEF Next, Finished

\* The invariant behind the theorems below holds in every reachable state.
THEOREM SessionsHold == Spec => []SessionInv
BY InitSessions, NextSessions, PTL DEF Spec

\* No message lies in the queue of an idle session: what arrives during a turn
\* starts the next one, and what arrives at an idle session starts one.
THEOREM NoneStrands == Spec => []NothingStrands
<1>1. SessionInv => NothingStrands
  BY DEF SessionInv, Hands, QueuesAreOfBusy, NothingStrands
<1> QED
  BY <1>1, SessionsHold, PTL

\* No snippet is lost between the writer and the coder.
THEOREM NoSnippetIsLost == Spec => []SnippetsAreUnderWay
<1>1. SessionInv => SnippetsAreUnderWay
  BY DEF SessionInv, Hands
<1> QED
  BY <1>1, SessionsHold, PTL

\* A chapter that was reported ready is reviewed with all of its snippets on
\* disk.
THEOREM ReviewHasSnippets == Spec => []ReviewedSnippetsExist
<1>1. SessionInv => ReviewedSnippetsExist
  <2> SUFFICES ASSUME SessionInv, written.outcome = "ready_for_review" PROVE made = Snippets
    BY DEF ReviewedSnippetsExist
  <2>1. written # NoPayload
    BY DEF NoPayload
  <2>2. "ready_for_review" \in Signalled(Writer)
    BY <2>1 DEF SessionInv, OutcomeInv, PayloadsAreAttributed
  <2> QED
    BY <2>2 DEF SessionInv, Hands, ReadyIsMade
<1> QED
  BY <1>1, SessionsHold, PTL

\* A coder the driver did not leave in the middle of a turn is unloaded and on
\* disk when the review begins, and stays so.
THEOREM CoderIsOnDisk == Spec => []StoppedCoderIsOnDisk
<1>1. SessionInv => StoppedCoderIsOnDisk
  BY DEF SessionInv, Places
<1> QED
  BY <1>1, SessionsHold, PTL

-----------------------------------------------------------------------------
(***************************************************************************)
(* The ceiling and the connection.                                         *)
(***************************************************************************)

\* No session before the ceiling, and no way past the setup without it.
CeilingInv ==
  /\ pc \in Setup => \A s \in Session : ~Exists(s)
  /\ pc \notin Setup \cup Closing => declared
  /\ SessionsAreCovered

LEMMA CeilingStep ==
  ASSUME OutcomeInv, CeilingInv, [Next]_vars
  PROVE  CeilingInv'
<1> USE DEF CeilingInv, SessionsAreCovered
<1>1. CASE UNCHANGED declared /\ NoNewSession /\ UNCHANGED pc
  BY <1>1 DEF NoNewSession
<1>2. CASE SessionStep /\ UNCHANGED driverVars
  <2>1. UNCHANGED declared
    BY <1>2
    DEF SessionStep, WriterStep, CoderStep, ReviewerStep, UnloadStep, WriterAsks,
        WriterIncludes, WriterWaits, WriterIsReady, WriterIsBlocked, CoderWrites,
        CoderReplies, CoderStandsBy, ReviewerJudges, ReviewerIsSilent, Deliver, Accepted,
        Queued, StartTurn, Spend, EndTurn, SignalCompletion, Unload, daemonVars
  <2> QED
    BY <1>1, <1>2, <2>1, SessionStepEffect DEF OutcomeInv, driverVars
<1>3. CASE Dispatch \/ UNCHANGED vars
  BY <1>1, <1>3
  DEF Dispatch, vars, sessionVars, daemonVars, driverVars, NoNewSession, Exists
<1>4. CASE SetupStep
  BY <1>4
  DEF SetupStep, Connect, ProbeTool, Refuse, DeclareBudget, Goto, Setup, Closing, Exists,
      sessionVars, daemonVars
<1>5. CASE /\ \E s \in Session : CreateSession(s)
           /\ pc \notin Setup \cup Closing /\ pc' \notin Setup
  BY <1>5 DEF CreateSession
<1>6. CASE StartCoder \/ StartWriter \/ StartReviewer \/ StartFails
  <2>1. attempt \in 0 .. MaxRevisions
    BY DEF OutcomeInv, TypeInv, TypeOK, DriverTypeOK
  <2>2. pc \notin Setup \cup Closing /\ pc' \notin Setup
    BY <1>6
    DEF StartCoder, StartWriter, StartReviewer, StartFails, Leave, Goto, Setup, Closing
  <2>3. (\E s \in Session : CreateSession(s)) \/ UNCHANGED sessionVars
    BY <1>6, <2>1, SessionFacts
    DEF StartCoder, StartWriter, StartReviewer, StartSession, StartFails
  <2>4. CASE UNCHANGED sessionVars
    BY <2>2, <2>4 DEF sessionVars, daemonVars, Exists
  <2> QED
    BY <1>5, <2>2, <2>3, <2>4
<1>7. CASE BriefCoder \/ BriefWriter \/ SendReview \/ SendFeedback
  <2>1. PICK m : SendMessage(m)
    BY <1>7 DEF BriefCoder, BriefWriter, SendReview, SendFeedback, Send
  <2>2. UNCHANGED declared /\ pc \notin Setup \cup Closing /\ pc' \notin Setup
    BY <1>7, <2>1
    DEF BriefCoder, BriefWriter, SendReview, SendFeedback, Send, Goto, Setup, Closing,
        SendMessage, Deliver, Resumed, Accepted, Queued, StartTurn, Spend
  <2> QED
    BY <2>2
<1>8. CASE \/ AttachCoder \/ AttachWriter \/ SubscribeWriter \/ WriterReports
           \/ WriterTimesOut \/ Settle \/ SubscribeVerdict \/ VerdictArrives
           \/ VerdictTimesOut \/ ShowBudget \/ SubscribeRevision \/ RevisionWaitEnds
  <2>1. UNCHANGED declared /\ pc \notin Setup \cup Closing /\ pc' \notin Setup
    BY <1>8
    DEF AttachCoder, AttachWriter, Attach, SubscribeWriter, SubscribeVerdict,
        SubscribeRevision, Subscribe, WriterReports, WriterTimesOut, Settle, VerdictArrives,
        VerdictTimesOut, ShowBudget, RevisionWaitEnds, Goto, Leave, Setup, Closing,
        sessionVars, daemonVars
  <2> QED
    BY <2>1
<1>9. CASE CallRaises \/ WriteTranscript \/ Disconnect
  <2>1. /\ pc' \notin Setup /\ pc' \in Closing
        /\ UNCHANGED <<status, declared>>
    BY <1>9
    DEF CallRaises, WriteTranscript, Disconnect, Goto, Leave, Setup, Closing, sessionVars,
        daemonVars
  <2> QED
    BY <2>1 DEF Exists
<1> QED
  BY <1>2, <1>3, <1>4, <1>6, <1>7, <1>8, <1>9
  DEF Next, DriverStep, WriteStep, StopStep, ReviewStep, CloseStep, Finished

\* The ceiling is declared before anything can spend from it, whatever fails.
THEOREM Covered == Spec => []SessionsAreCovered
<1>1. Init => CeilingInv
  BY DEF Init, SessionsInit, CeilingInv, SessionsAreCovered, Exists, Setup
<1>2. OutcomeInv /\ CeilingInv /\ [Next]_vars => CeilingInv'
  BY CeilingStep
<1>3. CeilingInv => SessionsAreCovered
  BY DEF CeilingInv
<1> QED
  BY <1>1, <1>2, <1>3, OutcomesHold, PTL DEF Spec

\* Before its first call the client is not connected.
ConnectionInv == ReturnDisconnects /\ (pc = "connect" => ~connected)

\* A run that returns, other than by an exception, has closed its connection.
THEOREM Disconnects == Spec => []ReturnDisconnects
<1>1. Init => ConnectionInv
  BY DEF Init, ConnectionInv, ReturnDisconnects
<1>2. ConnectionInv /\ [Next]_vars => ConnectionInv'
  <2> SUFFICES ASSUME ConnectionInv, [Next]_vars PROVE ConnectionInv'
    OBVIOUS
  <2> USE DEF ConnectionInv, ReturnDisconnects, Goto, Leave
  <2>1. CASE Connect \/ ProbeTool \/ Refuse \/ DeclareBudget
    BY <2>1 DEF Connect, ProbeTool, Refuse, DeclareBudget
  <2>2. CASE CallRaises \/ WriteTranscript \/ Disconnect \/ StartFails
    BY <2>2 DEF CallRaises, WriteTranscript, Disconnect, StartFails
  <2>3. CASE WriteStep \/ StopStep \/ ReviewStep
    <3>1. pc' \notin {"connect", "done"}
      BY <2>3
      DEF WriteStep, StopStep, ReviewStep, StartCoder, StartWriter, StartReviewer, BriefCoder,
          BriefWriter, SendReview, SendFeedback, Send, AttachCoder, AttachWriter,
          SubscribeWriter, SubscribeVerdict, SubscribeRevision, Subscribe, WriterReports,
          WriterTimesOut, Settle, VerdictArrives, VerdictTimesOut, ShowBudget,
          RevisionWaitEnds
    <3> QED
      BY <3>1
  <2>4. CASE Dispatch \/ (SessionStep /\ UNCHANGED driverVars) \/ UNCHANGED vars
    BY <2>4 DEF Dispatch, endVars, driverVars, vars
  <2> QED
    BY <2>1, <2>2, <2>3, <2>4 DEF Next, DriverStep, SetupStep, CloseStep, Finished
<1>3. ConnectionInv => ReturnDisconnects
  BY DEF ConnectionInv
<1> QED
  BY <1>1, <1>2, <1>3, PTL DEF Spec
=============================================================================
