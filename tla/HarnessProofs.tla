---------------------------- MODULE HarnessProofs ----------------------------
(***************************************************************************)
(* What the calls of the harness do to its state: each keeps the types, a  *)
(* log only grows while its observer records, and counting the events in   *)
(* it is counting a finite set of places.  The claims cite these lemmas.   *)
(***************************************************************************)
EXTENDS Harness, TLAPS, FiniteSetTheorems, SequenceTheorems

\* Where a session may be in its life.
Life == {"absent", "idle", "running", "held", "deleted"}

\* Recording appends: what was in the log stays at its place, what is new is
\* of the types recorded, by the session recorded.
LEMMA RecordAppends ==
  ASSUME HarnessTypeOK, NEW s \in Session, NEW types \in Seq(EventType), Record(types, s)
  PROVE  /\ log' \in Seq(Event) /\ watching' = watching
         /\ watching => Len(log') = Len(log) + Len(types)
         /\ ~watching => log' = log
         /\ DOMAIN log \subseteq DOMAIN log'
         /\ \A i \in DOMAIN log : log'[i] = log[i]
         /\ \A i \in DOMAIN log' \ DOMAIN log :
              /\ watching /\ i > Len(log) /\ i - Len(log) \in DOMAIN types
              /\ log'[i] = [type |-> types[i - Len(log)], session |-> s]
  <1> DEFINE new == [i \in 1..Len(types) |-> [type |-> types[i], session |-> s]]
  <1>1. log \in Seq(Event) /\ watching \in BOOLEAN
    BY DEF HarnessTypeOK
  <1>2. Len(types) \in Nat /\ \A i \in 1..Len(types) : types[i] \in EventType
    OBVIOUS
  <1>3. new \in Seq(Event) /\ Len(new) = Len(types)
    BY <1>2 DEF Event
  <1>4. \A i \in 1..Len(types) : new[i] = [type |-> types[i], session |-> s]
    OBVIOUS
  <1>5. log' = (IF watching THEN log \o new ELSE log) /\ watching' = watching
    BY DEF Record
  <1> HIDE DEF new
  <1>6. CASE watching
    <2>1. log' = log \o new
      BY <1>5, <1>6
    <2>2. log' \in Seq(Event) /\ Len(log') = Len(log) + Len(types)
      <3>1. /\ log \o new \in Seq(Event)
            /\ Len(log \o new) = Len(log) + Len(new)
        BY <1>1, <1>3, ConcatProperties, Zenon
      <3> QED
        BY <2>1, <3>1, <1>3
    <2>3. \A i \in DOMAIN log : i \in DOMAIN log' /\ log'[i] = log[i]
      BY <2>1, <2>2, <1>1, <1>2, <1>3
    <2>4. ASSUME NEW i \in DOMAIN log' \ DOMAIN log
          PROVE  i > Len(log) /\ i - Len(log) \in DOMAIN types /\ log'[i] = new[i - Len(log)]
      BY <2>1, <2>2, <1>1, <1>2, <1>3
    <2> QED
      BY <2>2, <2>3, <2>4, <1>2, <1>4, <1>5, <1>6
  <1>7. CASE ~watching
    BY <1>1, <1>5, <1>7
  <1> QED
    BY <1>6, <1>7

\* The types an event is recorded under are types of events.
LEMMA RecordedTypes ==
  /\ \A t \in EventType : <<t>> \in Seq(EventType)
  /\ \A t, u \in EventType : <<t, u>> \in Seq(EventType)
  OBVIOUS

LEMMA RecordKeepsType ==
  ASSUME HarnessTypeOK, NEW s \in Session, NEW types \in Seq(EventType), Record(types, s)
  PROVE  log' \in Seq(Event) /\ watching' \in BOOLEAN
  BY RecordAppends DEF HarnessTypeOK

LEMMA TurnKeepsType ==
  ASSUME HarnessTypeOK, NEW s \in Session, StartTurn(s)
  PROVE  status' \in [Session -> Life] /\ saved' \in [Session -> Receipt]
  BY DEF HarnessTypeOK, StartTurn, Life

LEMMA DeliverKeepsType ==
  ASSUME HarnessTypeOK, NEW s \in Session, Deliver(s)
  PROVE  /\ status' \in [Session -> Life]
         /\ queued' \in SUBSET Session
         /\ saved' \in [Session -> Receipt]
  <1>1. CASE StartTurn(s) /\ UNCHANGED queued
    BY <1>1, TurnKeepsType DEF HarnessTypeOK
  <1>2. CASE queued' = queued \cup {s} /\ UNCHANGED <<status, saved>>
    BY <1>2 DEF HarnessTypeOK, Life
  <1> QED
    BY <1>1, <1>2 DEF Deliver

LEMMA SendKeepsType ==
  ASSUME HarnessTypeOK, NEW s \in Session, NEW p \in Session, NEW r \in Receipt,
         SendToSibling(s, p, r)
  PROVE  /\ status' \in [Session -> Life] /\ queued' \in SUBSET Session
         /\ called' \in SUBSET Session /\ receipts' \in [Session -> Receipt]
         /\ saved' \in [Session -> Receipt]
         /\ log' \in Seq(Event) /\ watching' \in BOOLEAN
  <1>1. called' \in SUBSET Session /\ receipts' \in [Session -> Receipt]
    BY DEF SendToSibling, HarnessTypeOK
  <1>2. /\ status' \in [Session -> Life] /\ queued' \in SUBSET Session
        /\ saved' \in [Session -> Receipt]
    <2>1. CASE Deliver(p)
      BY <2>1, DeliverKeepsType
    <2>2. CASE UNCHANGED <<status, queued, saved>>
      BY <2>2 DEF HarnessTypeOK, Life
    <2> QED
      BY <2>1, <2>2 DEF SendToSibling
  <1>3. log' \in Seq(Event) /\ watching' \in BOOLEAN
    <2>1. <<"tool.call_start", "tool.call_end">> \in Seq(EventType)
      BY DEF EventType
    <2>2. Record(<<"tool.call_start", "tool.call_end">>, s)
      BY DEF SendToSibling
    <2> QED
      BY <2>1, <2>2, RecordKeepsType
  <1> QED
    BY <1>1, <1>2, <1>3

LEMMA EndKeepsType ==
  ASSUME HarnessTypeOK, NEW s \in Session, EndTurn(s)
  PROVE  /\ status' \in [Session -> Life] /\ queued' \in SUBSET Session
         /\ called' \in SUBSET Session /\ receipts' \in [Session -> Receipt]
         /\ saved' \in [Session -> Receipt]
         /\ log' \in Seq(Event) /\ watching' \in BOOLEAN
  <1>1. /\ called' \in SUBSET Session /\ queued' \in SUBSET Session
        /\ receipts' \in [Session -> Receipt]
    BY DEF EndTurn, HarnessTypeOK
  <1>2. status' \in [Session -> Life] /\ saved' \in [Session -> Receipt]
    <2>1. CASE StartTurn(s)
      BY <2>1, TurnKeepsType
    <2>2. CASE status' = [status EXCEPT ![s] = "idle"] /\ UNCHANGED saved
      BY <2>2 DEF HarnessTypeOK, Life
    <2> QED
      BY <2>1, <2>2 DEF EndTurn
  <1>3. log' \in Seq(Event) /\ watching' \in BOOLEAN
    <2>1. <<"turn.completed">> \in Seq(EventType)
      BY DEF EventType
    <2>2. Record(<<"turn.completed">>, s)
      BY DEF EndTurn
    <2> QED
      BY <2>1, <2>2, RecordKeepsType
  <1> QED
    BY <1>1, <1>2, <1>3

-----------------------------------------------------------------------------
(***************************************************************************)
(* The places of the events in a log, and how many there are.              *)
(***************************************************************************)

LEMMA EventsAreCounted ==
  ASSUME HarnessTypeOK, NEW t
  PROVE  /\ EventsOf(t) \subseteq 1..Len(log)
         /\ IsFiniteSet(EventsOf(t)) /\ Cardinality(EventsOf(t)) \in Nat
         /\ Cardinality(EventsOf(t)) = 0 <=> EventsOf(t) = {}
  <1>1. log \in Seq(Event) /\ Len(log) \in Nat /\ DOMAIN log = 1..Len(log)
    BY DEF HarnessTypeOK
  <1>2. EventsOf(t) \subseteq 1..Len(log)
    BY <1>1 DEF EventsOf
  <1>3. IsFiniteSet(1..Len(log))
    BY <1>1, FS_Interval
  <1>4. IsFiniteSet(EventsOf(t))
    BY <1>2, <1>3, FS_Subset
  <1> QED
    BY <1>2, <1>4, FS_CardinalityType, FS_EmptySet

\* An event that is in the log stays there: a record adds places only.
LEMMA EventsStay ==
  ASSUME HarnessTypeOK, NEW s \in Session, NEW types \in Seq(EventType), Record(types, s),
         NEW t
  PROVE  EventsOf(t) \subseteq EventsOf(t)'
  <1>1. DOMAIN log \subseteq DOMAIN log' /\ \A i \in DOMAIN log : log'[i] = log[i]
    BY RecordAppends
  <1> QED
    BY <1>1 DEF EventsOf

\* A record of other types leaves the places of a type as they are.
LEMMA OthersAreNotCounted ==
  ASSUME HarnessTypeOK, NEW s \in Session, NEW types \in Seq(EventType), Record(types, s),
         NEW t, \A i \in DOMAIN types : types[i] # t
  PROVE  EventsOf(t)' = EventsOf(t)
  <1>1. /\ DOMAIN log \subseteq DOMAIN log' /\ \A i \in DOMAIN log : log'[i] = log[i]
        /\ \A i \in DOMAIN log' \ DOMAIN log :
             /\ i - Len(log) \in DOMAIN types
             /\ log'[i] = [type |-> types[i - Len(log)], session |-> s]
    BY RecordAppends
  <1>2. \A i \in DOMAIN log' \ DOMAIN log : log'[i].type # t
    BY <1>1
  <1> QED
    BY <1>1, <1>2 DEF EventsOf

\* A record of two types, the first of them t, adds one place of t if the
\* observer is subscribed, and none if it is not.
LEMMA OneIsCounted ==
  ASSUME HarnessTypeOK, NEW s \in Session, NEW t \in EventType, NEW u \in EventType, t # u,
         Record(<<t, u>>, s)
  PROVE  /\ Cardinality(EventsOf(t)') \in Nat
         /\ Cardinality(EventsOf(t)') <= Cardinality(EventsOf(t)) + 1
         /\ Cardinality(EventsOf(t)') >= Cardinality(EventsOf(t))
  <1> DEFINE types == <<t, u>>
             next == Len(log) + 1
  <1>1. types \in Seq(EventType) /\ Len(types) = 2 /\ types[1] = t /\ types[2] = u
        /\ DOMAIN types = 1..2
    OBVIOUS
  <1> HIDE DEF types
  <1>2. Record(types, s)
    BY DEF types
  <1>3. log \in Seq(Event) /\ Len(log) \in Nat /\ DOMAIN log = 1..Len(log)
    BY DEF HarnessTypeOK
  <1>4. /\ log' \in Seq(Event)
        /\ DOMAIN log \subseteq DOMAIN log' /\ \A i \in DOMAIN log : log'[i] = log[i]
        /\ \A i \in DOMAIN log' \ DOMAIN log :
             /\ i > Len(log) /\ i - Len(log) \in DOMAIN types
             /\ log'[i] = [type |-> types[i - Len(log)], session |-> s]
    BY <1>1, <1>2, RecordAppends
  <1>5. ASSUME NEW i \in EventsOf(t)', i \notin EventsOf(t)
        PROVE  i = next
    <2>1. i \in DOMAIN log' /\ log'[i].type = t
      BY <1>5 DEF EventsOf
    <2>2. i \notin DOMAIN log
      BY <1>4, <1>5, <2>1 DEF EventsOf
    <2>3. i - Len(log) \in 1..2 /\ types[i - Len(log)] = t
      BY <1>1, <1>4, <2>1, <2>2
    <2>4. t # u /\ i \in Nat /\ i - Len(log) # 2
      <3>1. i \in 1..Len(log')
        BY <1>4, <2>1
      <3> QED
        BY <1>1, <2>3, <3>1
    <2> QED
      BY <1>3, <2>3, <2>4
  <1>6. EventsOf(t)' \subseteq EventsOf(t) \cup {next}
    BY <1>5
  <1>7. EventsOf(t) \subseteq EventsOf(t)'
    BY <1>1, <1>2, EventsStay
  <1>8. IsFiniteSet(EventsOf(t)) /\ Cardinality(EventsOf(t)) \in Nat
    BY EventsAreCounted
  <1>9. /\ IsFiniteSet(EventsOf(t) \cup {next})
        /\ Cardinality(EventsOf(t) \cup {next}) <= Cardinality(EventsOf(t)) + 1
    <2>1. /\ IsFiniteSet(EventsOf(t) \cup {next})
          /\ \/ Cardinality(EventsOf(t) \cup {next}) = Cardinality(EventsOf(t))
             \/ Cardinality(EventsOf(t) \cup {next}) = Cardinality(EventsOf(t)) + 1
      BY <1>8, FS_AddElement, Zenon
    <2> QED
      BY <1>8, <2>1
  <1>10. /\ IsFiniteSet(EventsOf(t)')
         /\ Cardinality(EventsOf(t)') <= Cardinality(EventsOf(t) \cup {next})
    BY <1>6, <1>9, FS_Subset
  <1>11. Cardinality(EventsOf(t)) <= Cardinality(EventsOf(t)')
    BY <1>7, <1>10, FS_Subset
  <1>12. Cardinality(EventsOf(t)') \in Nat /\ Cardinality(EventsOf(t) \cup {next}) \in Nat
    BY <1>9, <1>10, FS_CardinalityType
  <1> QED
    BY <1>8, <1>9, <1>10, <1>11, <1>12

\* A record of one event, and of a call with its receipt, place by place.
LEMMA EventIsRecorded ==
  ASSUME HarnessTypeOK, NEW s \in Session, NEW t \in EventType, Record(<<t>>, s)
  PROVE  /\ watching' = watching /\ (~watching => log' = log)
         /\ DOMAIN log \subseteq DOMAIN log' /\ \A i \in DOMAIN log : log'[i] = log[i]
         /\ watching => /\ Len(log) + 1 \in DOMAIN log'
                        /\ log'[Len(log) + 1] = [type |-> t, session |-> s]
         /\ \A i \in DOMAIN log' \ DOMAIN log :
              i > Len(log) /\ log'[i] = [type |-> t, session |-> s]
  <1> DEFINE types == <<t>>
  <1>1. Len(types) = 1 /\ types[1] = t /\ DOMAIN types = 1..1
    OBVIOUS
  <1>0. types \in Seq(EventType)
    OBVIOUS
  <1> HIDE DEF types
  <1>2. Record(types, s)
    BY DEF types
  <1>3. /\ log' \in Seq(Event) /\ watching' = watching
        /\ watching => Len(log') = Len(log) + Len(types)
        /\ ~watching => log' = log
        /\ DOMAIN log \subseteq DOMAIN log' /\ \A i \in DOMAIN log : log'[i] = log[i]
        /\ \A i \in DOMAIN log' \ DOMAIN log :
             /\ i > Len(log) /\ i - Len(log) \in DOMAIN types
             /\ log'[i] = [type |-> types[i - Len(log)], session |-> s]
    BY <1>0, <1>2, RecordAppends, Zenon
  <1>4. log \in Seq(Event) /\ Len(log) \in Nat /\ DOMAIN log = 1..Len(log)
        /\ DOMAIN log' = 1..Len(log')
    BY <1>3 DEF HarnessTypeOK
  <1>5. ASSUME NEW i \in DOMAIN log' \ DOMAIN log
        PROVE  i > Len(log) /\ log'[i] = [type |-> t, session |-> s]
    BY <1>1, <1>3
  <1>6. watching => Len(log) + 1 \in DOMAIN log' /\ Len(log) + 1 \notin DOMAIN log
    BY <1>1, <1>3, <1>4
  <1> QED
    BY <1>3, <1>5, <1>6

LEMMA CallIsRecorded ==
  ASSUME HarnessTypeOK, NEW s \in Session, NEW t \in EventType, NEW u \in EventType,
         Record(<<t, u>>, s)
  PROVE  /\ watching' = watching /\ (~watching => log' = log)
         /\ DOMAIN log \subseteq DOMAIN log' /\ \A i \in DOMAIN log : log'[i] = log[i]
         /\ watching => /\ Len(log) + 2 \in DOMAIN log'
                        /\ log'[Len(log) + 2] = [type |-> u, session |-> s]
         /\ \A i \in DOMAIN log' \ DOMAIN log :
              i > Len(log) /\ log'[i] \in {[type |-> t, session |-> s], [type |-> u, session |-> s]}
  <1> DEFINE types == <<t, u>>
  <1>1. Len(types) = 2 /\ types[1] = t /\ types[2] = u /\ DOMAIN types = 1..2
    OBVIOUS
  <1>0. types \in Seq(EventType)
    OBVIOUS
  <1> HIDE DEF types
  <1>2. Record(types, s)
    BY DEF types
  <1>3. /\ log' \in Seq(Event) /\ watching' = watching
        /\ watching => Len(log') = Len(log) + Len(types)
        /\ ~watching => log' = log
        /\ DOMAIN log \subseteq DOMAIN log' /\ \A i \in DOMAIN log : log'[i] = log[i]
        /\ \A i \in DOMAIN log' \ DOMAIN log :
             /\ i > Len(log) /\ i - Len(log) \in DOMAIN types
             /\ log'[i] = [type |-> types[i - Len(log)], session |-> s]
    BY <1>0, <1>2, RecordAppends, Zenon
  <1>4. log \in Seq(Event) /\ Len(log) \in Nat /\ DOMAIN log = 1..Len(log)
        /\ DOMAIN log' = 1..Len(log')
    BY <1>3 DEF HarnessTypeOK
  <1>5. ASSUME NEW i \in DOMAIN log' \ DOMAIN log
        PROVE  i > Len(log)
               /\ log'[i] \in {[type |-> t, session |-> s], [type |-> u, session |-> s]}
    <2>1. types[i - Len(log)] \in {t, u}
      BY <1>1, <1>3, <1>5
    <2> QED
      BY <1>3, <2>1
  <1>6. ASSUME watching
        PROVE  /\ Len(log) + 2 \in DOMAIN log'
               /\ log'[Len(log) + 2] = [type |-> u, session |-> s]
    <2>1. Len(log) + 2 \in DOMAIN log' \ DOMAIN log /\ (Len(log) + 2) - Len(log) = 2
      BY <1>1, <1>3, <1>4, <1>6
    <2> QED
      BY <1>1, <1>3, <2>1
  <1> QED
    BY <1>3, <1>5, <1>6

-----------------------------------------------------------------------------
(***************************************************************************)
(* The driver's calls keep the types.                                      *)
(***************************************************************************)

LEMMA ConnectingKeepsType ==
  ASSUME HarnessTypeOK, NEW from, NEW c \in Client, NEW to, NEW otherwise,
         Connecting(from, c, to, otherwise)
  PROVE  HarnessTypeOK'
  BY DEF HarnessTypeOK, Connecting, Goto, worldVars, busVars

LEMMA ObservingKeepsType ==
  ASSUME HarnessTypeOK, NEW from, NEW to, Observing(from, to)
  PROVE  HarnessTypeOK'
  BY DEF HarnessTypeOK, Observing, worldVars, clientVars

LEMMA CreatingKeepsType ==
  ASSUME HarnessTypeOK, NEW from, NEW c \in Client, NEW s \in Session, NEW to, NEW otherwise,
         Creating(from, c, s, to, otherwise)
  PROVE  HarnessTypeOK'
  <1>1. status' \in [Session -> Life]
    BY DEF HarnessTypeOK, Creating, Life
  <1>2. /\ attached' \in [Client -> Session \cup {"nobody"}]
        /\ handles' \in SUBSET Session
        /\ failure' \in {"none", "unmet", "timeout", "leash", "lost"}
    BY DEF HarnessTypeOK, Creating
  <1>3. UNCHANGED <<queued, called, receipts, saved, open, watching, log, verdict>>
    BY DEF Creating, busVars
  <1> QED
    BY <1>1, <1>2, <1>3 DEF HarnessTypeOK, Life

\* To whom a message goes is for the claim to say: a client that is attached
\* to nobody has nobody to send to.
LEMMA SendingKeepsType ==
  ASSUME HarnessTypeOK, NEW from, NEW c \in Client, NEW to, Sending(from, c, to),
         attached[c] \in Session
  PROVE  HarnessTypeOK'
  <1>1. Deliver(attached[c])
    BY DEF Sending
  <1>2. /\ status' \in [Session -> Life]
        /\ queued' \in SUBSET Session
        /\ saved' \in [Session -> Receipt]
    BY <1>1, DeliverKeepsType
  <1>3. UNCHANGED <<called, receipts, attached, open, handles, watching, log, failure, verdict>>
    BY DEF Sending, clientVars, busVars
  <1> QED
    BY <1>2, <1>3 DEF HarnessTypeOK, Life

LEMMA SavingKeepsType ==
  ASSUME HarnessTypeOK, NEW s \in Session, Saving(s), UNCHANGED failure
  PROVE  HarnessTypeOK'
  BY DEF HarnessTypeOK, Saving, clientVars, busVars

LEMMA RaisingKeepsType ==
  ASSUME HarnessTypeOK, NEW points, NEW otherwise, Raising(points, otherwise)
  PROVE  HarnessTypeOK'
  BY DEF HarnessTypeOK, Raising, worldVars, clientVars, busVars

\* What a release deletes it held a handle of, and one that goes through has
\* deleted everything it was given that has a handle.  One that deletes
\* anything has begun with the first it was given.
LEMMA ReleasingDeletes ==
  ASSUME HarnessTypeOK, NEW from, NEW order \in Seq(Session), NEW to, NEW otherwise,
         Releasing(from, order, to, otherwise)
  PROVE  /\ pc = from
         /\ \A s \in Session : status'[s] = status[s] \/ (s \in handles /\ status'[s] = "deleted")
         /\ \/ /\ pc' = to /\ UNCHANGED failure
               /\ \A i \in DOMAIN order : order[i] \in handles => status'[order[i]] = "deleted"
            \/ pc' = otherwise /\ failure' = "lost"
         /\ status' \in [Session -> Life]
         /\ (\E s \in Session : status'[s] # status[s]) /\ order[1] \in handles =>
              status'[order[1]] = "deleted"
         /\ UNCHANGED <<queued, called, receipts, saved, clientVars, busVars, verdict>>
  <1>1. PICK deleted \in Deletions(order) :
          /\ status' = [s \in Session |-> IF s \in deleted THEN "deleted" ELSE status[s]]
          /\ IF IsComplete(deleted, order)
               THEN pc' = to /\ UNCHANGED failure
               ELSE pc' = otherwise /\ failure' = "lost"
    BY DEF Releasing
  <1>2. deleted \subseteq handles
    BY <1>1 DEF Deletions, Among
  <1>3. status' \in [Session -> Life]
    BY <1>1 DEF HarnessTypeOK, Life
  <1>4. \A s \in Session : status'[s] = status[s] \/ (s \in handles /\ status'[s] = "deleted")
    BY <1>1, <1>2 DEF HarnessTypeOK
  <1>5. ASSUME IsComplete(deleted, order), NEW i \in DOMAIN order, order[i] \in handles
        PROVE  status'[order[i]] = "deleted"
    <2>1. DOMAIN order = 1..Len(order) /\ order[i] \in Session
      OBVIOUS
    <2>2. order[i] \in deleted
      BY <1>5, <2>1 DEF IsComplete, Among
    <2> QED
      BY <1>1, <2>1, <2>2
  <1>6. \/ /\ pc' = to /\ UNCHANGED failure
           /\ \A i \in DOMAIN order : order[i] \in handles => status'[order[i]] = "deleted"
        \/ pc' = otherwise /\ failure' = "lost"
    BY <1>1, <1>5
  <1>7. ASSUME NEW s \in Session, status'[s] # status[s], order[1] \in handles
        PROVE  status'[order[1]] = "deleted"
    <2>1. s \in deleted
      BY <1>1, <1>7
    <2>2. PICK n \in 0..Len(order) : deleted = Among(order, n)
      BY DEF Deletions
    <2>3. 1 \in 1..n /\ order[1] \in Session
      BY <2>1, <2>2 DEF Among
    <2>4. order[1] \in deleted
      BY <1>7, <2>2, <2>3 DEF Among
    <2> QED
      BY <1>1, <2>3, <2>4
  <1> QED
    BY <1>3, <1>4, <1>6, <1>7 DEF Releasing

\* Every claim releases a pair.
LEMMA ReleasingPair ==
  ASSUME HarnessTypeOK, NEW from, NEW a \in Session, NEW b \in Session, NEW to, NEW otherwise,
         Releasing(from, <<a, b>>, to, otherwise)
  PROVE  /\ pc = from
         /\ \A s \in Session : status'[s] = status[s] \/ (s \in handles /\ status'[s] = "deleted")
         /\ \/ /\ pc' = to /\ UNCHANGED failure
               /\ \A s \in {a, b} : s \in handles => status'[s] = "deleted"
            \/ pc' = otherwise /\ failure' = "lost"
         /\ (\E s \in Session : status'[s] # status[s]) /\ a \in handles =>
              status'[a] = "deleted"
         /\ UNCHANGED <<queued, called, receipts, saved, clientVars, busVars, verdict>>
  <1> DEFINE order == <<a, b>>
  <1>1. DOMAIN order = 1..2 /\ order[1] = a /\ order[2] = b
    OBVIOUS
  <1>2. order \in Seq(Session)
    OBVIOUS
  <1> HIDE DEF order
  <1>3. Releasing(from, order, to, otherwise)
    BY DEF order
  <1>4. /\ pc = from
        /\ \A s \in Session : status'[s] = status[s] \/ (s \in handles /\ status'[s] = "deleted")
        /\ \/ /\ pc' = to /\ UNCHANGED failure
              /\ \A i \in DOMAIN order : order[i] \in handles => status'[order[i]] = "deleted"
           \/ pc' = otherwise /\ failure' = "lost"
        /\ status' \in [Session -> Life]
        /\ (\E s \in Session : status'[s] # status[s]) /\ order[1] \in handles =>
             status'[order[1]] = "deleted"
        /\ UNCHANGED <<queued, called, receipts, saved, clientVars, busVars, verdict>>
    BY <1>2, <1>3, ReleasingDeletes
  <1> QED
    BY <1>1, <1>4

LEMMA ReleasingKeepsType ==
  ASSUME HarnessTypeOK, NEW from, NEW order \in Seq(Session), NEW to, NEW otherwise,
         Releasing(from, order, to, otherwise)
  PROVE  HarnessTypeOK'
  <1>1. /\ status' \in [Session -> Life] /\ failure' \in {failure, "lost"}
        /\ UNCHANGED <<queued, called, receipts, saved, clientVars, busVars, verdict>>
    BY ReleasingDeletes
  <1> QED
    BY <1>1 DEF HarnessTypeOK, Life, clientVars, busVars

LEMMA DisconnectingKeepsType ==
  ASSUME HarnessTypeOK, NEW from, NEW clients, NEW to, Disconnecting(from, clients, to)
  PROVE  HarnessTypeOK'
  BY DEF HarnessTypeOK, Disconnecting, worldVars

LEMMA ReportingKeepsType ==
  ASSUME HarnessTypeOK, NEW ids, NEW held, NEW handled, Reporting(ids, held, handled)
  PROVE  HarnessTypeOK'
  <1>1. verdict' \in [ClaimId -> {"none", "PASS", "FAIL", "BLOCKED", "raised"}]
    BY DEF HarnessTypeOK, Reporting, Judged
  <1> QED
    BY <1>1 DEF HarnessTypeOK, Reporting, worldVars, clientVars, busVars

-----------------------------------------------------------------------------
(***************************************************************************)
(* Who is moved by a call, and where to.                                   *)
(***************************************************************************)

\* A session that is loaded, and one that has a turn under way.
InMemory == {"idle", "running", "held"}
AtWork == {"running", "held"}

\* A message sets an idle session going and waits for one at work; one that is
\* not loaded cannot be reached.
LEMMA DeliverMoves ==
  ASSUME HarnessTypeOK, NEW s \in Session, Deliver(s)
  PROVE  /\ \A x \in Session \ {s} : status'[x] = status[x] /\ saved'[x] = saved[x]
         /\ \/ status[s] = "idle" /\ status'[s] = "running"
            \/ status[s] \in AtWork /\ status'[s] = status[s]
  BY DEF HarnessTypeOK, Deliver, StartTurn, AtWork

\* A turn that ends was running, and its session is idle or in the next one.
LEMMA EndMoves ==
  ASSUME HarnessTypeOK, NEW s \in Session, EndTurn(s)
  PROVE  /\ \A x \in Session \ {s} : status'[x] = status[x] /\ saved'[x] = saved[x]
         /\ status[s] = "running" /\ status'[s] \in {"idle", "running"}
  BY DEF HarnessTypeOK, EndTurn, StartTurn

\* A sibling that sends is running, and at most its peer is moved.
LEMMA SendMoves ==
  ASSUME HarnessTypeOK, NEW s \in Session, NEW p \in Session, NEW r, SendToSibling(s, p, r)
  PROVE  /\ \A x \in Session \ {p} : status'[x] = status[x]
         /\ status[s] = "running"
         /\ \/ status[p] = "idle" /\ status'[p] = "running"
            \/ status'[p] = status[p]
  <1>1. CASE Deliver(p)
    BY <1>1, DeliverMoves DEF SendToSibling
  <1>2. CASE UNCHANGED <<status, queued, saved>>
    BY <1>2 DEF SendToSibling
  <1> QED
    BY <1>1, <1>2 DEF SendToSibling

\* A create makes one session and attaches its client, or raises; then it may
\* have made the session all the same.
LEMMA CreatingMakes ==
  ASSUME HarnessTypeOK, NEW from, NEW c \in Client, NEW s \in Session, NEW to, NEW otherwise,
         Creating(from, c, s, to, otherwise)
  PROVE  /\ pc = from
         /\ \A x \in Session \ {s} : status'[x] = status[x]
         /\ \A d \in Client \ {c} : attached'[d] = attached[d]
         /\ \/ /\ pc' = to /\ status'[s] = "idle" /\ attached'[c] = s
               /\ handles' = handles \cup {s} /\ UNCHANGED failure
            \/ /\ pc' = otherwise /\ failure' = "unmet" /\ status'[s] \in {status[s], "idle"}
               /\ UNCHANGED <<attached, handles>>
         /\ UNCHANGED <<queued, called, receipts, saved, open, busVars, verdict>>
  BY DEF HarnessTypeOK, Creating, Goto

\* The verdict of a claim that is reported: a PASS is one that was held, and a
\* FAIL one that was not or an exception that is handled.
LEMMA ReportingJudges ==
  ASSUME HarnessTypeOK, NEW ids, NEW held, NEW handled, Reporting(ids, held, handled)
  PROVE  /\ \A i \in ClaimId \ ids : verdict'[i] = verdict[i]
         /\ \A i \in ClaimId \cap ids :
              /\ verdict'[i] = "PASS" => failure = "none" /\ held[i]
              /\ verdict'[i] = "FAIL" => (failure = "none" /\ ~held[i]) \/ failure \in handled
  BY DEF Reporting, Judged
=============================================================================
