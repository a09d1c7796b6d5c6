------------------------- MODULE EventJournalProofs -------------------------
(***************************************************************************)
(* Theorems about EventJournal, for any numbers of sessions, writers,      *)
(* event ids and tokens, and for any order of late and repeated calls.     *)
(*                                                                         *)
(* A stream's row names the last event of the session, so what fits behind *)
(* the row is the next link of the chain, whoever sends it and whenever.   *)
(***************************************************************************)
EXTENDS EventJournal, TLAPS

-----------------------------------------------------------------------------
(* Type correctness.                                                       *)

TablesTypeOK ==
    /\ events \in [EventIds -> EventRow \cup {NoEvent}]
    /\ streams \in [Sessions -> StreamRow \cup {NoStream}]
    /\ projected \in Seq(EventIds)

\* The steps that change the journal.
JournalStep ==
    \/ UNCHANGED tables
    \/ \E s \in Sessions : BindRuntime(s)
    \/ \E call \in calls : Store(call) \/ Refuse(call)

ReaderStep(r) ==
    \/ \E s \in Sessions, after \in Nat : Subscribe(r, s, after)
    \/ Fetch(r) \/ Deliver(r) \/ CheckHead(r) \/ Return(r)

\* The runtime touches neither the tables nor the readers.
LEMMA NextCases ==
    ASSUME [Next]_vars
    PROVE  \/ UNCHANGED <<tables, readers>>
           \/ \E s \in Sessions : BindRuntime(s)
           \/ \E call \in calls : AppendEvent(call)
           \/ \E r \in Readers : ReaderStep(r)
<1>1. CASE UNCHANGED vars
    BY <1>1 DEF vars
<1>2. ASSUME NEW w \in Writers, NEW id \in EventIds, NEW s \in Sessions,
             NEW from \in StoredOf(s), Resume(w, from, id)
      PROVE  UNCHANGED <<tables, readers>>
    BY <1>2 DEF Resume, CallSink
<1>3. ASSUME NEW w \in Writers, NEW id \in EventIds, NEW type \in EventTypes,
             NEW token \in Tokens \cup {NoToken},
             \/ \E s \in Sessions : Begin(w, s, id, type, token)
             \/ type # "accepted" /\ Emit(w, id, type, token)
      PROVE  UNCHANGED <<tables, readers>>
    BY <1>3 DEF Begin, Emit, CallSink
<1>4. ASSUME NEW w \in Writers, GiveUp(w)
      PROVE  UNCHANGED <<tables, readers>>
    BY <1>4 DEF GiveUp
<1>5. ASSUME NEW r \in Readers,
             \/ \E s \in Sessions, after \in 0..MaxSequence :
                   Subscribe(r, s, after)
             \/ Fetch(r) \/ Deliver(r) \/ CheckHead(r) \/ Return(r)
      PROVE  ReaderStep(r)
    BY <1>5, BoundsAssumption DEF ReaderStep
<1>. QED
    BY <1>1, <1>2, <1>3, <1>4, <1>5 DEF Next

LEMMA JournalSteps ==
    ASSUME [Next]_vars
    PROVE  JournalStep
<1>1. ASSUME NEW call \in calls, AppendEvent(call)
      PROVE  JournalStep
    BY <1>1 DEF AppendEvent, AcceptDuplicate, JournalStep
<1>2. ASSUME NEW r \in Readers, ReaderStep(r)
      PROVE  UNCHANGED tables
    BY <1>2 DEF ReaderStep, Subscribe, Fetch, Deliver, CheckHead, Return
<1>. QED
    BY <1>1, <1>2, NextCases DEF JournalStep

\* What is stored is an event.
LEMMA StoredType ==
    ASSUME events \in [EventIds -> EventRow \cup {NoEvent}], NEW s,
           NEW e \in StoredOf(s)
    PROVE  e \in Event /\ e.session = s
BY DEF StoredOf, Stored, EventRow

LEMMA StreamForType ==
    ASSUME streams \in [Sessions -> StreamRow \cup {NoStream}],
           NEW call \in Call
    PROVE  /\ StreamFor(call) \in StreamRow \cup {NoStream}
           /\ call.event.session \in Sessions
           /\ StreamFor(call) # NoStream => StreamFor(call).bound \in BOOLEAN
BY DEF StreamFor, EmptyStream, StreamRow, Call, Event

LEMMA RowOfType ==
    ASSUME NEW call \in Call
    PROVE  /\ RowOf(call) \in EventRow
           /\ RowOf(call).payload = call.event
           /\ RowOf(call) # NoEvent
           /\ call.event.eventId \in EventIds
BY NullsAssumption DEF RowOf, EventRow, Call, Event, Expected

LEMMA TablesTypeStep ==
    ASSUME TablesTypeOK, calls \subseteq Call, JournalStep
    PROVE  TablesTypeOK'
<1>. USE DEF TablesTypeOK
<1>1. CASE UNCHANGED tables
    BY <1>1 DEF tables
<1>2. ASSUME NEW s \in Sessions, BindRuntime(s)
      PROVE  TablesTypeOK'
    BY <1>2 DEF BindRuntime, EmptyStream, StreamRow
<1>3. ASSUME NEW call \in calls, Store(call)
      PROVE  TablesTypeOK'
    <2>. DEFINE row == [streamId |-> call.event.streamId,
                        sequence |-> call.event.sequence,
                        eventId |-> call.event.eventId,
                        bound |-> StreamFor(call).bound]
    <2>1. /\ events' = [events EXCEPT ![call.event.eventId] = RowOf(call)]
          /\ streams' = [streams EXCEPT ![call.event.session] = row]
          /\ \/ projected' = projected
             \/ projected' = Append(projected, call.event.eventId)
          /\ StreamFor(call) # NoStream
        BY <1>3 DEF Store, Fits
    <2>2. call \in Call
        BY <1>3
    <2>3. row \in StreamRow
        BY <2>1, <2>2, StreamForType DEF StreamRow, Call, Event
    <2>. HIDE DEF row
    <2>4. events' \in [EventIds -> EventRow \cup {NoEvent}]
        BY <2>1, <2>2, RowOfType
    <2>5. streams' \in [Sessions -> StreamRow \cup {NoStream}]
        BY <2>1, <2>3
    <2>6. projected' \in Seq(EventIds)
        BY <2>1, <2>2, RowOfType
    <2>. QED
        BY <2>4, <2>5, <2>6
<1>4. ASSUME NEW call \in calls, Refuse(call)
      PROVE  TablesTypeOK'
    BY <1>4, StreamForType DEF Refuse
<1>. QED
    BY <1>1, <1>2, <1>3, <1>4 DEF JournalStep

\* A writer that may go on knows the event that it goes on from.
WritersKnow ==
    \A w \in Writers : writers[w].state = "ready" => writers[w].last \in Event

WritersTypeOK == /\ calls \subseteq Call
                 /\ writers \in [Writers -> Writer]
                 /\ WritersKnow

\* A call that is well-formed keeps the calls and the writers well-typed.
LEMMA CallSinkType ==
    ASSUME WritersTypeOK, NEW w \in Writers, NEW event \in Event,
           NEW expected \in Expected, CallSink(w, event, expected)
    PROVE  WritersTypeOK'
<1>1. calls' \subseteq Call
    BY DEF CallSink, WritersTypeOK, Call
<1>2. /\ [writers[w] EXCEPT !.state = "calling", !.event = event] \in Writer
      /\ writers' = [writers EXCEPT ![w] =
            [writers[w] EXCEPT !.state = "calling", !.event = event]]
    BY DEF CallSink, WritersTypeOK, Writer
<1>3. writers' \in [Writers -> Writer]
    BY <1>2 DEF WritersTypeOK
<1>4. WritersKnow'
    BY <1>2 DEF WritersTypeOK, WritersKnow, Writer
<1>. QED
    BY <1>1, <1>3, <1>4 DEF WritersTypeOK

LEMMA WritersTypeStep ==
    ASSUME TablesTypeOK, WritersTypeOK, [Next]_vars
    PROVE  WritersTypeOK'
<1>1. CASE UNCHANGED <<calls, writers>>
    BY <1>1 DEF WritersTypeOK, WritersKnow
<1>2. ASSUME NEW call \in calls, AppendEvent(call)
      PROVE  WritersTypeOK'
    <2>. DEFINE w == call.writer
    <2>1. calls' = calls /\ call \in Call /\ w \in Writers
        BY <1>2 DEF AppendEvent, WritersTypeOK, Call
    <2>2. \/ UNCHANGED writers
          \/ writers' = [writers EXCEPT ![w] = Idle("stopped")]
          \/ writers' = [writers EXCEPT ![w] = Idle("free")]
          \/ writers' = [writers EXCEPT ![w] =
                [state |-> "ready", event |-> NoEvent, last |-> call.event]]
        BY <1>2 DEF AppendEvent, Answer, LoseAnswer
    <2>3. call.event \in Event
        BY <2>1 DEF Call
    <2>. HIDE DEF w
    <2>. QED
        BY <2>1, <2>2, <2>3 DEF WritersTypeOK, WritersKnow, Writer, Idle
<1>3. ASSUME NEW w \in Writers, NEW s \in Sessions, NEW id \in EventIds,
             NEW from \in StoredOf(s), Resume(w, from, id)
      PROVE  WritersTypeOK'
    <2>. DEFINE event == [eventId |-> id, session |-> from.session,
                          streamId |-> w, sequence |-> from.sequence + 1,
                          type |-> "accepted", token |-> from.token]
                expected == [kind |-> "hibernation_token",
                             streamId |-> from.streamId,
                             sequence |-> from.sequence,
                             eventId |-> from.eventId, token |-> from.token]
    <2>1. from \in Event
        BY StoredType DEF TablesTypeOK
    <2>2. event \in Event /\ expected \in Expected
        BY <2>1 DEF Event, Expected, Types
    <2>3. CallSink(w, event, expected)
        BY <1>3 DEF Resume
    <2>. HIDE DEF event, expected
    <2>. QED
        BY <2>2, <2>3, CallSinkType
<1>4. ASSUME NEW w \in Writers, NEW s \in Sessions, NEW id \in EventIds,
             NEW type \in EventTypes, NEW token \in Tokens \cup {NoToken},
             Begin(w, s, id, type, token)
      PROVE  WritersTypeOK'
    <2>. DEFINE event == [eventId |-> id, session |-> s, streamId |-> w,
                          sequence |-> 1, type |-> type, token |-> token]
                expected == [kind |-> "empty", streamId |-> NoWriter,
                             sequence |-> 0, eventId |-> NoEvent,
                             token |-> NoToken]
    <2>1. event \in Event /\ expected \in Expected
        BY TypesAssumption DEF Event, Expected
    <2>2. CallSink(w, event, expected)
        BY <1>4 DEF Begin
    <2>. HIDE DEF event, expected
    <2>. QED
        BY <2>1, <2>2, CallSinkType
<1>5. ASSUME NEW w \in Writers, NEW id \in EventIds,
             NEW type \in EventTypes, NEW token \in Tokens \cup {NoToken},
             Emit(w, id, type, token)
      PROVE  WritersTypeOK'
    <2>. DEFINE last == writers[w].last
                event == [eventId |-> id, session |-> last.session,
                          streamId |-> w, sequence |-> last.sequence + 1,
                          type |-> type, token |-> token]
                expected == [kind |-> "cursor", streamId |-> w,
                             sequence |-> last.sequence,
                             eventId |-> last.eventId, token |-> NoToken]
    <2>1. last \in Event
        BY <1>5 DEF Emit, WritersTypeOK, WritersKnow
    <2>2. CallSink(w, event, expected)
        BY <1>5 DEF Emit
    <2>. HIDE DEF last
    <2>3. event \in Event /\ expected \in Expected
        BY <2>1, TypesAssumption DEF Event, Expected
    <2>. HIDE DEF event, expected
    <2>. QED
        BY <2>2, <2>3, CallSinkType
<1>6. ASSUME NEW w \in Writers, GiveUp(w)
      PROVE  WritersTypeOK'
    BY <1>6 DEF GiveUp, Idle, WritersTypeOK, WritersKnow, Writer
<1>. QED
    BY <1>1, <1>2, <1>3, <1>4, <1>5, <1>6
    DEF Next, vars, BindRuntime, Subscribe, Fetch, Deliver, CheckHead, Return

\* Three fields of a subscription are written together.
LEMMA ReaderUpdate ==
    ASSUME NEW me \in Reader, NEW e \in Event
    PROVE  [me EXCEPT !.buffer = me.buffer \ {e}, !.position = e.sequence,
                      !.seen = Append(me.seen, e.eventId)] \in Reader
<1>. DEFINE rest == me.buffer \ {e}
            longer == Append(me.seen, e.eventId)
<1>1. /\ rest \in SUBSET Event /\ longer \in Seq(EventIds)
      /\ e.sequence \in Nat
    BY DEF Reader, Event
<1>2. [me EXCEPT !.buffer = rest, !.position = e.sequence, !.seen = longer]
        \in Reader
    <2>. HIDE DEF rest, longer
    <2>. QED
        BY <1>1 DEF Reader
<1>. QED
    BY <1>2 DEF Reader

LEMMA ReadersTypeStep ==
    ASSUME TablesTypeOK, readers \in [Readers -> Reader], [Next]_vars
    PROVE  readers' \in [Readers -> Reader]
<1>1. CASE UNCHANGED readers
    BY <1>1
<1>2. ASSUME NEW r \in Readers, NEW s \in Sessions, NEW after \in Nat,
             Subscribe(r, s, after)
      PROVE  readers' \in [Readers -> Reader]
    BY <1>2 DEF Subscribe, Reader
<1>3. ASSUME NEW r \in Readers, Fetch(r)
      PROVE  readers' \in [Readers -> Reader]
    <2>1. PICK rows \in SUBSET Beyond(r) :
             readers' = [readers EXCEPT ![r].buffer = rows,
                 ![r].state = IF rows = {} THEN "checking" ELSE "reading"]
        BY <1>3 DEF Fetch
    <2>2. rows \in SUBSET Event
        BY StoredType DEF Beyond, TablesTypeOK
    <2>. DEFINE state == IF rows = {} THEN "checking" ELSE "reading"
                me == [readers[r] EXCEPT !.buffer = rows, !.state = state]
    <2>3. readers' = [readers EXCEPT ![r] = me]
        BY <2>1
    <2>4. me \in Reader
        <3>. HIDE DEF state
        <3>1. state \in {"reading", "checking", "ended"}
            BY DEF state
        <3>. QED
            BY <2>2, <3>1 DEF Reader
    <2>. HIDE DEF me
    <2>. QED
        BY <2>3, <2>4
<1>4. ASSUME NEW r \in Readers, Deliver(r)
      PROVE  readers' \in [Readers -> Reader]
    <2>1. PICK e \in readers[r].buffer :
             readers' = [readers EXCEPT ![r].buffer = @ \ {e},
                 ![r].position = e.sequence,
                 ![r].seen = Append(@, e.eventId)]
        BY <1>4 DEF Deliver
    <2>2. e \in Event
        BY DEF Reader
    <2>. QED
        BY <2>1, <2>2, ReaderUpdate
<1>5. ASSUME NEW r \in Readers, CheckHead(r)
      PROVE  readers' \in [Readers -> Reader]
    <2>. DEFINE state == IF HeadEnds(r) THEN "ended" ELSE "reading"
    <2>1. readers' = [readers EXCEPT ![r].state = state]
        BY <1>5 DEF CheckHead
    <2>2. state \in {"ended", "reading"}
        OBVIOUS
    <2>. HIDE DEF state
    <2>. QED
        BY <2>1, <2>2 DEF Reader
<1>6. ASSUME NEW r \in Readers, Return(r)
      PROVE  readers' \in [Readers -> Reader]
    BY <1>6 DEF Return, Reader, Unsubscribed
<1>. QED
    BY <1>1, <1>2, <1>3, <1>4, <1>5, <1>6, NextCases
    DEF ReaderStep, BindRuntime, AppendEvent

LEMMA TypeStep ==
    ASSUME TypeOK, WritersKnow, [Next]_vars
    PROVE  TypeOK' /\ WritersKnow'
BY JournalSteps, TablesTypeStep, WritersTypeStep, ReadersTypeStep
   DEF TypeOK, TablesTypeOK, WritersTypeOK

\* Rows, calls, writers and subscriptions are well-typed in every state.
THEOREM TypeCorrect == Spec => []TypeOK
<1>1. Init => TypeOK /\ WritersKnow
    BY DEF Init, TypeOK, WritersKnow, Writer, Reader, Unsubscribed
<1>2. TypeOK /\ WritersKnow /\ [Next]_vars => (TypeOK /\ WritersKnow)'
    BY TypeStep
<1>. QED
    BY <1>1, <1>2, PTL DEF Spec

-----------------------------------------------------------------------------
(* The chain.                                                              *)

\* A row is found under the id of its event.
Keyed ==
    \A id \in EventIds : Stored(id) => events[id].payload.eventId = id

\* A call that is not for a first event names the writer before.
CallsName ==
    \A call \in calls :
        call.expected.kind # "empty" => call.expected.streamId \in Writers

Chained(s) ==
    /\ ChainHead(s)
    /\ \A e, f \in StoredOf(s) : e.sequence = f.sequence => e = f
    /\ \A e \in StoredOf(s) : e.sequence > 1 =>
          \E p \in StoredOf(s) :
              /\ p.sequence = e.sequence - 1
              /\ \/ p.streamId = e.streamId
                 \/ /\ p.type = "hibernated" /\ e.type = "accepted"
                    /\ p.token = e.token

Typed == TypeOK /\ WritersKnow

Inv == Keyed /\ CallsName /\ \A s \in Sessions : Chained(s)

LEMMA CallsNameStep ==
    ASSUME Typed, CallsName, [Next]_vars
    PROVE  CallsName'
<1>. USE DEF CallsName
<1>1. CASE calls' = calls
    BY <1>1
<1>2. ASSUME NEW w \in Writers, NEW id \in EventIds, NEW s \in Sessions,
             NEW from \in StoredOf(s), Resume(w, from, id)
      PROVE  CallsName'
    <2>1. from.streamId \in Writers
        BY StoredType DEF Typed, TypeOK, Event
    <2>. QED
        BY <1>2, <2>1 DEF Resume, CallSink
<1>3. ASSUME NEW w \in Writers, NEW id \in EventIds, NEW s \in Sessions,
             NEW type \in EventTypes, NEW token \in Tokens \cup {NoToken},
             Begin(w, s, id, type, token)
      PROVE  CallsName'
    BY <1>3 DEF Begin, CallSink
<1>4. ASSUME NEW w \in Writers, NEW id \in EventIds, NEW type \in EventTypes,
             NEW token \in Tokens \cup {NoToken}, Emit(w, id, type, token)
      PROVE  CallsName'
    BY <1>4 DEF Emit, CallSink
<1>. QED
    BY <1>1, <1>2, <1>3, <1>4
    DEF Next, vars, BindRuntime, AppendEvent, GiveUp, Subscribe, Fetch, Deliver,
        CheckHead, Return

\* The event that a call stores is new, and it is all that is new.
LEMMA StoreAdds ==
    ASSUME Typed, Keyed, NEW call \in calls, Store(call)
    PROVE  /\ ~Stored(call.event.eventId)
           /\ \A id \in EventIds : id # call.event.eventId =>
                 events'[id] = events[id]
           /\ events'[call.event.eventId] = RowOf(call)
           /\ Keyed'
           /\ \A s : StoredOf(s)' = StoredOf(s)
                        \cup {e \in {call.event} : e.session = s}
<1>1. call \in Call /\ call.event.eventId \in EventIds
    BY RowOfType DEF Typed, TypeOK
<1>2. /\ ~Stored(call.event.eventId)
      /\ \A id \in EventIds : id # call.event.eventId =>
            events'[id] = events[id]
      /\ events'[call.event.eventId] = RowOf(call)
    BY <1>1 DEF Store, Fits, Known, Typed, TypeOK
<1>3. RowOf(call) # NoEvent /\ RowOf(call).payload = call.event
    BY <1>1, RowOfType
<1>4. Keyed'
    BY <1>1, <1>2, <1>3 DEF Keyed, Stored
<1>5. ASSUME NEW s
      PROVE  StoredOf(s)' = StoredOf(s) \cup {e \in {call.event} : e.session = s}
    BY <1>1, <1>2, <1>3 DEF StoredOf, Stored
<1>. QED
    BY <1>2, <1>4, <1>5

\* What fits behind the row of a stream: a first event, or the next one behind
\* the last, of the same writer or of one that resumes.
LEMMA StoreLinks ==
    ASSUME Typed, Keyed, CallsName, NEW call \in calls, Store(call),
           ChainHead(call.event.session)
    PROVE  LET e == call.event
           IN  \/ /\ call.expected.kind = "empty" /\ e.sequence = 1
                  /\ StoredOf(e.session) = {}
               \/ /\ call.expected.kind # "empty"
                  /\ \E p \in StoredOf(e.session) :
                        /\ e.sequence = p.sequence + 1
                        /\ \A f \in StoredOf(e.session) :
                              f.sequence <= p.sequence
                        /\ IF call.expected.kind = "hibernation_token"
                           THEN /\ p.type = "hibernated" /\ e.type = "accepted"
                                /\ p.token = e.token
                           ELSE p.streamId = e.streamId
<1>. DEFINE e == call.event
            s == call.event.session
            row == StreamFor(call)
<1>1. call \in Call /\ s \in Sessions
    BY DEF Typed, TypeOK, Call, Event
<1>2. row # NoStream /\ Matches(row, call.expected, e)
    BY DEF Store, Fits
<1>3. CASE call.expected.kind = "empty"
    <2>1. row.streamId = NoWriter /\ e.sequence = 1
        BY <1>2, <1>3 DEF Matches
    <2>2. streams[s] = NoStream \/ streams[s].streamId = NoWriter
        BY <2>1 DEF StreamFor
    <2>. QED
        BY <1>3, <2>1, <2>2 DEF ChainHead
<1>4. CASE call.expected.kind # "empty"
    <2>1. /\ streams[s] # NoStream /\ row = streams[s]
          /\ row.streamId = call.expected.streamId
          /\ row.sequence = call.expected.sequence
          /\ row.eventId = call.expected.eventId
          /\ e.sequence = call.expected.sequence + 1
          /\ IF call.expected.kind = "hibernation_token"
             THEN ResumeMatches(call.expected, e)
             ELSE e.streamId = call.expected.streamId
        BY <1>2, <1>4 DEF Matches, StreamFor
    <2>2. row.streamId # NoWriter
        BY <1>4, <2>1, WritersAssumption DEF CallsName
    <2>3. PICK p \in StoredOf(s) :
             /\ p.eventId = row.eventId /\ p.streamId = row.streamId
             /\ p.sequence = row.sequence
             /\ \A f \in StoredOf(s) : f.sequence <= p.sequence
        BY <2>1, <2>2 DEF ChainHead
    <2>4. CASE call.expected.kind = "hibernation_token"
        <3>1. events[p.eventId].payload = p
            BY DEF StoredOf, Keyed
        <3>2. p.type = "hibernated" /\ p.token = call.expected.token
            BY <2>1, <2>3, <2>4, <3>1 DEF ResumeMatches
        <3>3. e.type = "accepted" /\ e.token = call.expected.token
            BY <2>1, <2>4 DEF ResumeMatches
        <3>. QED
            BY <1>4, <2>1, <2>3, <2>4, <3>2, <3>3
    <2>5. CASE call.expected.kind # "hibernation_token"
        BY <1>4, <2>1, <2>3, <2>5
    <2>. QED
        BY <2>4, <2>5
<1>. QED
    BY <1>3, <1>4

LEMMA ChainedStep ==
    ASSUME Typed, Inv, [Next]_vars, NEW s \in Sessions
    PROVE  Chained(s)'
<1>0. Chained(s)
    BY DEF Inv
<1>1. CASE UNCHANGED tables
    <2>1. StoredOf(s)' = StoredOf(s) /\ streams' = streams
        BY <1>1 DEF tables, StoredOf, Stored
    <2>2. ChainHead(s)'
        BY <1>0, <2>1 DEF Chained, ChainHead
    <2>. QED
        BY <1>0, <2>1, <2>2 DEF Chained
<1>2. CASE /\ events' = events
           /\ \/ streams'[s] = streams[s]
              \/ /\ streams[s] = NoStream
                 /\ \E bound \in BOOLEAN : streams'[s] = EmptyStream(bound)
    <2>1. StoredOf(s)' = StoredOf(s)
        BY <1>2 DEF StoredOf, Stored
    <2>2. ChainHead(s)'
        <3>1. CASE streams'[s] = streams[s]
            BY <1>0, <2>1, <3>1 DEF Chained, ChainHead
        <3>2. ASSUME streams[s] = NoStream, NEW bound \in BOOLEAN,
                     streams'[s] = EmptyStream(bound)
              PROVE  ChainHead(s)'
            <4>1. StoredOf(s) = {}
                BY <1>0, <3>2 DEF Chained, ChainHead
            <4>2. streams'[s].streamId = NoWriter
                BY <3>2 DEF EmptyStream
            <4>. QED
                BY <2>1, <4>1, <4>2 DEF ChainHead
        <3>. QED
            BY <1>2, <3>1, <3>2
    <2>. QED
        BY <1>0, <2>1, <2>2 DEF Chained
<1>3. ASSUME NEW q \in Sessions, BindRuntime(q)
      PROVE  Chained(s)'
    BY <1>2, <1>3 DEF BindRuntime, Typed, TypeOK
<1>4. ASSUME NEW call \in calls, Refuse(call)
      PROVE  Chained(s)'
    BY <1>2, <1>4 DEF Refuse, StreamFor, Typed, TypeOK
<1>5. ASSUME NEW call \in calls, Store(call)
      PROVE  Chained(s)'
    <2>. DEFINE e == call.event
    <2>1. call \in Call /\ e.session \in Sessions
        BY DEF Typed, TypeOK, Call, Event
    <2>2. StoredOf(s)' = StoredOf(s) \cup {f \in {e} : f.session = s}
        BY <1>5, StoreAdds DEF Inv
    <2>3. CASE e.session # s
        <3>1. StoredOf(s)' = StoredOf(s) /\ streams'[s] = streams[s]
            BY <1>5, <2>1, <2>2, <2>3 DEF Store, Typed, TypeOK
        <3>2. ChainHead(s)'
            BY <1>0, <3>1 DEF Chained, ChainHead
        <3>. QED
            BY <1>0, <3>1, <3>2 DEF Chained
    <2>4. CASE e.session = s
        <3>1. StoredOf(s)' = StoredOf(s) \cup {e}
            BY <2>2, <2>4
        <3>2. /\ streams'[s].streamId = e.streamId
              /\ streams'[s].eventId = e.eventId
              /\ streams'[s].sequence = e.sequence
            BY <1>5, <2>1, <2>4 DEF Store, Typed, TypeOK
        <3>3. \A f \in StoredOf(s) \cup {e} : f.sequence \in Nat
            BY <2>1, StoredType DEF Typed, TypeOK, Call, Event
        <3>4. \/ e.sequence = 1 /\ StoredOf(s) = {}
              \/ \E p \in StoredOf(s) :
                    /\ e.sequence = p.sequence + 1
                    /\ \A f \in StoredOf(s) : f.sequence <= p.sequence
                    /\ \/ p.streamId = e.streamId
                       \/ /\ p.type = "hibernated" /\ e.type = "accepted"
                          /\ p.token = e.token
            <4>1. ChainHead(e.session) /\ Keyed /\ CallsName
                BY <1>0, <2>4 DEF Inv, Chained
            <4>2. CASE e.sequence = 1 /\ StoredOf(e.session) = {}
                BY <2>4, <4>2
            <4>3. ASSUME NEW p \in StoredOf(e.session),
                         /\ e.sequence = p.sequence + 1
                         /\ \A f \in StoredOf(e.session) :
                               f.sequence <= p.sequence,
                         \/ p.streamId = e.streamId
                         \/ /\ p.type = "hibernated" /\ e.type = "accepted"
                            /\ p.token = e.token
                  PROVE  \E q \in StoredOf(s) :
                            /\ e.sequence = q.sequence + 1
                            /\ \A f \in StoredOf(s) : f.sequence <= q.sequence
                            /\ \/ q.streamId = e.streamId
                               \/ /\ q.type = "hibernated"
                                  /\ e.type = "accepted"
                                  /\ q.token = e.token
                BY <2>4, <4>3
            <4>. QED
                BY <1>5, <4>1, <4>2, <4>3, StoreLinks
        <3>5. \A f \in StoredOf(s) : f.sequence < e.sequence
            BY <3>3, <3>4
        <3>6. ChainHead(s)'
            <4>1. streams'[s] # NoStream
                <5>1. streams'[s] = [streamId |-> e.streamId,
                          sequence |-> e.sequence, eventId |-> e.eventId,
                          bound |-> StreamFor(call).bound]
                    BY <1>5, <2>1, <2>4 DEF Store, Typed, TypeOK
                <5>2. StreamFor(call).bound \in BOOLEAN
                    BY <1>5, <2>1, StreamForType
                    DEF Store, Fits, Typed, TypeOK
                <5>3. streams'[s] \in StreamRow
                    BY <2>1, <5>1, <5>2 DEF StreamRow, Call, Event
                <5>. QED
                    BY <5>3, NullsAssumption
            <4>2. e.streamId # NoWriter
                BY <2>1, WritersAssumption DEF Call, Event
            <4>3. e \in StoredOf(s)' /\ \A f \in StoredOf(s)' :
                     f.sequence <= e.sequence
                BY <3>1, <3>3, <3>5
            <4>. QED
                BY <3>2, <4>1, <4>2, <4>3 DEF ChainHead
        <3>7. \A f, g \in StoredOf(s)' : f.sequence = g.sequence => f = g
            BY <1>0, <3>1, <3>3, <3>5 DEF Chained
        <3>8. \A f \in StoredOf(s)' : f.sequence > 1 =>
                 \E p \in StoredOf(s)' :
                     /\ p.sequence = f.sequence - 1
                     /\ \/ p.streamId = f.streamId
                        \/ /\ p.type = "hibernated" /\ f.type = "accepted"
                           /\ p.token = f.token
            BY <1>0, <3>1, <3>3, <3>4 DEF Chained
        <3>. QED
            BY <3>6, <3>7, <3>8 DEF Chained
    <2>. QED
        BY <2>3, <2>4
<1>. QED
    BY <1>1, <1>3, <1>4, <1>5, JournalSteps DEF JournalStep

LEMMA InvStep ==
    ASSUME Typed, Inv, [Next]_vars
    PROVE  Inv'
<1>1. Keyed'
    <2>1. CASE events' = events
        BY <2>1 DEF Inv, Keyed, Stored
    <2>2. ASSUME NEW call \in calls, Store(call)
          PROVE  Keyed'
        BY <2>2, StoreAdds DEF Inv
    <2>. QED
        BY <2>1, <2>2, JournalSteps
        DEF JournalStep, tables, BindRuntime, Refuse
<1>. QED
    BY <1>1, CallsNameStep, ChainedStep DEF Inv

LEMMA InvCorrect == Spec => [](Typed /\ Inv)
<1>1. Init => Typed /\ Inv
    <2>1. ASSUME Init, NEW s \in Sessions
          PROVE  StoredOf(s) = {}
        BY <2>1 DEF Init, StoredOf, Stored
    <2>. QED
        BY <2>1 DEF Init, Typed, TypeOK, WritersKnow, Writer, Reader,
            Unsubscribed, Inv, Keyed, Stored, CallsName, Chained, ChainHead
<1>2. Typed /\ Inv /\ [Next]_vars => (Typed /\ Inv)'
    BY TypeStep, InvStep DEF Typed
<1>. QED
    BY <1>1, <1>2, PTL DEF Spec

\* For any numbers of processes, sessions and tokens, and however late or
\* often a call runs: the events of a session form one chain without gaps, and
\* only a resumption changes its writer.
THEOREM OneChain == Spec => []OneChainPerSession
<1>1. Typed /\ Inv => OneChainPerSession
    BY DEF Inv, Chained, OneChainPerSession
<1>. QED
    BY <1>1, InvCorrect, PTL

-----------------------------------------------------------------------------
(* The projection.                                                         *)

\* Only what is stored has been projected.
ProjectedIsStored ==
    \A i \in 1..Len(projected) :
        projected[i] \in EventIds /\ Stored(projected[i])

Once ==
    \A i, j \in 1..Len(projected) : i # j => projected[i] # projected[j]

InOrder ==
    \A i, j \in 1..Len(projected) :
        i < j /\ events[projected[i]].payload.session
                   = events[projected[j]].payload.session
          => events[projected[i]].payload.sequence
               < events[projected[j]].payload.sequence

Complete ==
    \A s \in Sessions : streams[s] # NoStream /\ streams[s].bound =>
        \A e \in StoredOf(s) : \E i \in 1..Len(projected) :
            projected[i] = e.eventId

ProjectionInv == ProjectedIsStored /\ Once /\ InOrder /\ Complete

\* An event that is stored comes after all events of its session.
LEMMA StoreIsLast ==
    ASSUME Typed, Inv, NEW call \in calls, Store(call)
    PROVE  \A f \in StoredOf(call.event.session) :
              f.sequence < call.event.sequence
<1>. DEFINE s == call.event.session
<1>1. s \in Sessions /\ call.event.sequence \in Nat
    BY DEF Typed, TypeOK, Call, Event
<1>2. \A f \in StoredOf(s) : f.sequence \in Nat
    BY StoredType DEF Typed, TypeOK, Event
<1>3. Keyed /\ CallsName /\ ChainHead(s)
    BY <1>1 DEF Inv, Chained
<1>4. \/ StoredOf(s) = {}
      \/ \E p \in StoredOf(s) :
            /\ call.event.sequence = p.sequence + 1
            /\ \A f \in StoredOf(s) : f.sequence <= p.sequence
    BY <1>3, StoreLinks
<1>. HIDE DEF s
<1>. QED
    BY <1>1, <1>2, <1>4 DEF s

\* A stream that becomes bound has no events yet.
LEMMA BindStep ==
    ASSUME Typed, Inv, ProjectionInv, events' = events,
           projected' = projected,
           \A s \in Sessions : streams'[s] = streams[s] \/ streams[s] = NoStream
    PROVE  ProjectionInv'
<1>1. \A s : StoredOf(s)' = StoredOf(s)
    BY DEF StoredOf, Stored
<1>2. \A s \in Sessions : streams[s] = NoStream => StoredOf(s) = {}
    BY DEF Inv, Chained, ChainHead
<1>3. Complete'
    BY <1>1, <1>2 DEF ProjectionInv, Complete
<1>. QED
    BY <1>3 DEF ProjectionInv, ProjectedIsStored, Stored, Once, InOrder

LEMMA StoreProjects ==
    ASSUME Typed, Inv, ProjectionInv, NEW call \in calls, Store(call)
    PROVE  ProjectionInv'
<1>. DEFINE e == call.event
            s == call.event.session
            id == call.event.eventId
            n == Len(projected)
<1>1. /\ call \in Call /\ id \in EventIds /\ s \in Sessions
      /\ projected \in Seq(EventIds) /\ n \in Nat
    BY DEF Typed, TypeOK, Call, Event
<1>2. /\ ~Stored(id) /\ Keyed'
      /\ \A i \in EventIds : i # id => events'[i] = events[i]
      /\ events'[id] = RowOf(call)
      /\ \A q : StoredOf(q)' = StoredOf(q) \cup {f \in {e} : f.session = q}
    BY StoreAdds DEF Inv
<1>3. events'[id] # NoEvent /\ events'[id].payload = e
    BY <1>1, <1>2, RowOfType
<1>4. \A i \in 1..n : /\ projected[i] \in EventIds /\ Stored(projected[i])
                      /\ projected[i] # id
                      /\ events'[projected[i]] = events[projected[i]]
    BY <1>2 DEF ProjectionInv, ProjectedIsStored
<1>5. \A i \in 1..n : events[projected[i]].payload.session = s
          => events[projected[i]].payload.sequence < e.sequence
    BY <1>4, StoreIsLast DEF StoredOf
<1>6. \/ /\ ~StreamFor(call).bound
         /\ projected' = projected
      \/ /\ StreamFor(call).bound
         /\ projected' = Append(projected, id)
    BY DEF Store
<1>7. /\ \A q \in Sessions : q # s => streams'[q] = streams[q]
      /\ streams'[s].bound = StreamFor(call).bound
    BY <1>1 DEF Store, Typed, TypeOK
<1>8. CASE ~StreamFor(call).bound /\ projected' = projected
    <2>1. ProjectedIsStored' /\ Once'
        BY <1>4, <1>8 DEF ProjectionInv, ProjectedIsStored, Once, Stored
    <2>2. InOrder'
        BY <1>4, <1>8 DEF ProjectionInv, InOrder
    <2>3. \A q \in Sessions : q # s => StoredOf(q)' = StoredOf(q)
        BY <1>2
    <2>4. Complete'
        BY <1>7, <1>8, <2>3 DEF ProjectionInv, Complete
    <2>. QED
        BY <2>1, <2>2, <2>4 DEF ProjectionInv
<1>9. CASE StreamFor(call).bound /\ projected' = Append(projected, id)
    <2>1. /\ Len(projected') = n + 1
          /\ projected'[n + 1] = id
          /\ \A i \in 1..n : projected'[i] = projected[i]
          /\ \A i \in 1..(n + 1) : i \in 1..n \/ i = n + 1
          /\ \A i \in 1..n : i \in 1..(n + 1)
        BY <1>1, <1>9
    <2>. HIDE DEF n, id, s
    <2>2. ProjectedIsStored'
        BY <1>1, <1>3, <1>4, <2>1 DEF ProjectedIsStored, Stored
    <2>3. Once'
        BY <1>4, <2>1 DEF ProjectionInv, Once, n
    <2>4. InOrder'
        <3>. SUFFICES ASSUME NEW i \in 1..(n + 1), NEW j \in 1..(n + 1), i < j,
                             events'[projected'[i]].payload.session
                               = events'[projected'[j]].payload.session
                      PROVE  events'[projected'[i]].payload.sequence
                               < events'[projected'[j]].payload.sequence
            BY <2>1 DEF InOrder
        <3>1. i \in 1..n
            BY <1>1
        <3>2. CASE j \in 1..n
            BY <1>4, <2>1, <3>1, <3>2 DEF ProjectionInv, InOrder, n
        <3>3. CASE j = n + 1
            BY <1>3, <1>4, <1>5, <2>1, <3>1, <3>3 DEF s
        <3>. QED
            BY <2>1, <3>2, <3>3
    <2>5. Complete'
        <3>. SUFFICES ASSUME NEW q \in Sessions, streams'[q] # NoStream,
                             streams'[q].bound, NEW f \in StoredOf(q)'
                      PROVE  \E i \in 1..(n + 1) : projected'[i] = f.eventId
            BY <2>1 DEF Complete
        <3>1. CASE f = e
            BY <1>1, <2>1, <3>1 DEF id
        <3>2. CASE f \in StoredOf(q)
            <4>1. streams[q] # NoStream /\ streams[q].bound
                <5>1. CASE q # s
                    BY <1>7, <5>1
                <5>2. CASE q = s
                    <6>1. streams[s] # NoStream
                        BY <3>2, <5>2 DEF Inv, Chained, ChainHead
                    <6>. QED
                        BY <1>9, <5>2, <6>1 DEF StreamFor, s
                <5>. QED
                    BY <5>1, <5>2
            <4>. QED
                BY <2>1, <3>2, <4>1 DEF ProjectionInv, Complete, n
        <3>. QED
            BY <1>2, <3>1, <3>2
    <2>. QED
        BY <2>2, <2>3, <2>4, <2>5 DEF ProjectionInv
<1>. QED
    BY <1>6, <1>8, <1>9

\* For any deliveries and repetitions, the dialogue changes once for an event,
\* and in the order of the events: the row and its projection are written by
\* one transaction.
THEOREM ProjectedOnce == Spec => []ProjectedOnceInOrder
<1>1. Init => ProjectionInv
    BY DEF Init, ProjectionInv, ProjectedIsStored, Once, InOrder, Complete
<1>2. ASSUME Typed, Inv, ProjectionInv, [Next]_vars
      PROVE  ProjectionInv'
    <2>1. CASE UNCHANGED tables
        BY <1>2, <2>1, BindStep DEF tables
    <2>2. ASSUME NEW s \in Sessions, BindRuntime(s)
          PROVE  ProjectionInv'
        BY <1>2, <2>2, BindStep DEF BindRuntime, Typed, TypeOK
    <2>3. ASSUME NEW call \in calls, Refuse(call)
          PROVE  ProjectionInv'
        BY <1>2, <2>3, BindStep DEF Refuse, StreamFor, Typed, TypeOK
    <2>. QED
        BY <1>2, <2>1, <2>2, <2>3, StoreProjects, JournalSteps DEF JournalStep
<1>3. ProjectionInv => ProjectedOnceInOrder
    BY DEF ProjectionInv, Once, InOrder, Complete, ProjectedOnceInOrder
<1>. QED
    BY <1>1, <1>2, <1>3, InvCorrect, PTL DEF Spec

-----------------------------------------------------------------------------
(* The readers.                                                            *)

\* A stream without an event has no last event either.
EmptyHasNoEvent ==
    \A s \in Sessions :
        streams[s] # NoStream /\ streams[s].streamId = NoWriter
            => streams[s].eventId = NoEvent

Listening(r) == readers[r].state \notin {"idle", "stopped"}

Subscribed(r) == /\ readers[r].session \in Sessions
                 /\ streams[readers[r].session] # NoStream

\* What a reader has buffered is what follows its position, without a gap.
BufferFollows(r) ==
    \A e \in readers[r].buffer :
        /\ e \in StoredOf(readers[r].session)
        /\ e.sequence > readers[r].position
        /\ \A f \in StoredOf(readers[r].session) :
              f.sequence > readers[r].position /\ f.sequence <= e.sequence
                  => f \in readers[r].buffer

Delivered(r) ==
    LET me == readers[r]
    IN  /\ me.position = me.start + Len(me.seen)
        /\ \A i \in 1..Len(me.seen) :
              /\ Stored(me.seen[i])
              /\ events[me.seen[i]].payload.session = me.session
              /\ events[me.seen[i]].payload.sequence = me.start + i

EndsBehindTerminal(r) ==
    readers[r].state = "ended" =>
        \E e \in StoredOf(readers[r].session) :
            e.sequence = readers[r].position /\ Terminal(e)

ReaderInv(r) ==
    Listening(r) => /\ Subscribed(r) /\ BufferFollows(r)
                    /\ Delivered(r) /\ EndsBehindTerminal(r)

\* What the readers rely on: rows stay, and a new event is behind all others.
JournalGrows ==
    /\ \A id \in EventIds : Stored(id) => events'[id] = events[id]
    /\ \A s \in Sessions : streams[s] # NoStream => streams'[s] # NoStream
    /\ \A s \in Sessions : \A e \in StoredOf(s)' :
          \/ e \in StoredOf(s)
          \/ e \in Event /\ \A f \in StoredOf(s) : f.sequence < e.sequence

LEMMA Growth ==
    ASSUME Typed, Inv, EmptyHasNoEvent, JournalStep
    PROVE  JournalGrows /\ EmptyHasNoEvent'
<1>1. ASSUME events' = events,
             \A s \in Sessions :
                 \/ streams'[s] = streams[s]
                 \/ /\ streams[s] = NoStream
                    /\ streams'[s] = NoStream \/ \E bound \in BOOLEAN :
                           streams'[s] = EmptyStream(bound)
      PROVE  JournalGrows /\ EmptyHasNoEvent'
    <2>1. \A s : StoredOf(s)' = StoredOf(s)
        BY <1>1 DEF StoredOf, Stored
    <2>2. JournalGrows
        BY <1>1, <2>1 DEF JournalGrows
    <2>3. EmptyHasNoEvent'
        <3>. SUFFICES ASSUME NEW s \in Sessions, streams'[s] # NoStream,
                             streams'[s].streamId = NoWriter
                      PROVE  streams'[s].eventId = NoEvent
            BY DEF EmptyHasNoEvent
        <3>1. CASE streams'[s] = streams[s]
            BY <3>1 DEF EmptyHasNoEvent
        <3>2. CASE \E bound \in BOOLEAN : streams'[s] = EmptyStream(bound)
            BY <3>2 DEF EmptyStream
        <3>. QED
            BY <1>1, <3>1, <3>2
    <2>. QED
        BY <2>2, <2>3
<1>2. CASE UNCHANGED tables
    BY <1>1, <1>2 DEF tables
<1>3. ASSUME NEW s \in Sessions, BindRuntime(s)
      PROVE  JournalGrows /\ EmptyHasNoEvent'
    BY <1>1, <1>3 DEF BindRuntime, Typed, TypeOK
<1>4. ASSUME NEW call \in calls, Refuse(call)
      PROVE  JournalGrows /\ EmptyHasNoEvent'
    BY <1>1, <1>4 DEF Refuse, StreamFor, Typed, TypeOK
<1>5. ASSUME NEW call \in calls, Store(call)
      PROVE  JournalGrows /\ EmptyHasNoEvent'
    <2>. DEFINE e == call.event
                row == [streamId |-> e.streamId, sequence |-> e.sequence,
                        eventId |-> e.eventId,
                        bound |-> StreamFor(call).bound]
    <2>1. /\ call \in Call /\ e \in Event /\ e.session \in Sessions
          /\ e.streamId \in Writers
        BY DEF Typed, TypeOK, Call, Event
    <2>2. /\ streams'[e.session] = row
          /\ \A s \in Sessions : s # e.session => streams'[s] = streams[s]
        BY <1>5, <2>1 DEF Store, Typed, TypeOK
    <2>3. row # NoStream
        <3>1. StreamFor(call).bound \in BOOLEAN
            BY <1>5, <2>1, StreamForType DEF Store, Fits, Typed, TypeOK
        <3>2. row \in StreamRow
            BY <2>1, <3>1 DEF StreamRow, Event
        <3>. QED
            BY <3>2, NullsAssumption
    <2>4. EmptyHasNoEvent'
        BY <2>1, <2>2, WritersAssumption DEF EmptyHasNoEvent
    <2>5. /\ ~Stored(e.eventId)
          /\ \A id \in EventIds : id # e.eventId => events'[id] = events[id]
          /\ \A s : StoredOf(s)' = StoredOf(s) \cup {f \in {e} : f.session = s}
        BY <1>5, StoreAdds DEF Inv
    <2>6. \A f \in StoredOf(e.session) : f.sequence < e.sequence
        BY <1>5, StoreIsLast
    <2>. HIDE DEF e, row
    <2>7. \A s \in Sessions : streams[s] # NoStream => streams'[s] # NoStream
        BY <2>2, <2>3
    <2>8. \A s \in Sessions : \A f \in StoredOf(s)' :
             \/ f \in StoredOf(s)
             \/ f \in Event /\ \A g \in StoredOf(s) : g.sequence < f.sequence
        BY <2>1, <2>5, <2>6
    <2>. QED
        BY <2>4, <2>5, <2>7, <2>8 DEF JournalGrows
<1>. QED
    BY <1>2, <1>3, <1>4, <1>5 DEF JournalStep

\* A reader that does nothing loses nothing while the journal grows.
LEMMA ReaderKept ==
    ASSUME Typed, NEW r \in Readers, ReaderInv(r), readers'[r] = readers[r],
           JournalGrows
    PROVE  ReaderInv(r)'
<1>. SUFFICES ASSUME Listening(r)
              PROVE  /\ Subscribed(r)' /\ BufferFollows(r)'
                     /\ Delivered(r)' /\ EndsBehindTerminal(r)'
    BY DEF ReaderInv, Listening
<1>. DEFINE me == readers[r]
            s == readers[r].session
<1>1. Subscribed(r) /\ BufferFollows(r) /\ Delivered(r) /\ EndsBehindTerminal(r)
    BY DEF ReaderInv
<1>2. /\ me \in Reader /\ me.seen \in Seq(EventIds) /\ s \in Sessions
      /\ me.buffer \subseteq Event
    BY <1>1 DEF Typed, TypeOK, Reader, Subscribed
<1>3. \A id \in EventIds : Stored(id) => Stored(id)' /\ events'[id] = events[id]
    BY DEF JournalGrows, Stored
<1>4. StoredOf(s) \subseteq StoredOf(s)'
    BY <1>3 DEF StoredOf, Stored
<1>5. Subscribed(r)'
    BY <1>1 DEF Subscribed, JournalGrows
<1>6. BufferFollows(r)'
    <2>. SUFFICES ASSUME NEW e \in me.buffer
                  PROVE  /\ e \in StoredOf(s)' /\ e.sequence > me.position
                         /\ \A f \in StoredOf(s)' :
                               f.sequence > me.position
                               /\ f.sequence <= e.sequence => f \in me.buffer
        BY DEF BufferFollows
    <2>1. e \in StoredOf(s) /\ e.sequence \in Nat /\ e.sequence > me.position
        BY <1>1, <1>2 DEF BufferFollows, Event
    <2>2. \A f \in StoredOf(s)' : f.sequence \in Nat
        <3>1. \A f \in StoredOf(s)' : f \in StoredOf(s) \/ f \in Event
            BY <1>2 DEF JournalGrows
        <3>2. \A f \in StoredOf(s) : f \in Event
            BY StoredType DEF Typed, TypeOK
        <3>. QED
            BY <3>1, <3>2 DEF Event
    <2>. QED
        BY <1>1, <1>2, <1>4, <2>1, <2>2 DEF BufferFollows, JournalGrows
<1>7. Delivered(r)'
    <2>1. \A i \in 1..Len(me.seen) : me.seen[i] \in EventIds
        BY <1>2
    <2>. QED
        BY <1>1, <1>3, <2>1 DEF Delivered
<1>8. EndsBehindTerminal(r)'
    BY <1>1, <1>4 DEF EndsBehindTerminal, Terminal
<1>. QED
    BY <1>5, <1>6, <1>7, <1>8

\* With one event per sequence, the first rows leave no gap.
LEMMA FetchStep ==
    ASSUME Typed, Inv, NEW r \in Readers, ReaderInv(r), Fetch(r)
    PROVE  ReaderInv(r)'
<1>. DEFINE me == readers[r]
            s == readers[r].session
<1>1. PICK rows \in SUBSET Beyond(r) :
         /\ FirstBatch(r, rows)
         /\ readers' = [readers EXCEPT ![r].buffer = rows,
                ![r].state = IF rows = {} THEN "checking" ELSE "reading"]
    BY DEF Fetch
<1>2. /\ Listening(r) /\ me \in Reader /\ events' = events /\ streams' = streams
    BY DEF Fetch, Listening, Typed, TypeOK, tables
<1>3. Subscribed(r) /\ Delivered(r)
    BY <1>2 DEF ReaderInv
<1>4. /\ readers'[r].buffer = rows /\ readers'[r].session = s
      /\ readers'[r].position = me.position /\ readers'[r].start = me.start
      /\ readers'[r].seen = me.seen /\ readers'[r].state # "ended"
    BY <1>1, <1>2 DEF Typed, TypeOK, Reader
<1>5. BufferFollows(r)'
    <2>. SUFFICES ASSUME NEW e \in rows
                  PROVE  /\ e \in StoredOf(s) /\ e.sequence > me.position
                         /\ \A f \in StoredOf(s) :
                               f.sequence > me.position
                               /\ f.sequence <= e.sequence => f \in rows
        BY <1>2, <1>4 DEF BufferFollows, StoredOf, Stored
    <2>1. e \in StoredOf(s) /\ e.sequence > me.position
        BY DEF Beyond
    <2>2. \A f \in StoredOf(s) : f.sequence \in Nat
        BY StoredType DEF Typed, TypeOK, Event
    <2>3. \A f, g \in StoredOf(s) : f.sequence = g.sequence => f = g
        BY <1>3 DEF Subscribed, Inv, Chained
    <2>. QED
        BY <1>1, <2>1, <2>2, <2>3 DEF FirstBatch, Beyond
<1>6. Subscribed(r)' /\ Delivered(r)' /\ EndsBehindTerminal(r)'
    BY <1>2, <1>3, <1>4 DEF Subscribed, Delivered, Stored, EndsBehindTerminal
<1>. QED
    BY <1>5, <1>6 DEF ReaderInv

\* The front of the buffer is the event right after the position: if one were
\* between, the chain would have it and so would the buffer.
LEMMA DeliverStep ==
    ASSUME Typed, Inv, NEW r \in Readers, ReaderInv(r), Deliver(r)
    PROVE  ReaderInv(r)'
<1>. DEFINE me == readers[r]
            s == readers[r].session
<1>1. PICK e \in me.buffer :
         /\ \A f \in me.buffer : e.sequence <= f.sequence
         /\ readers' = [readers EXCEPT ![r].buffer = @ \ {e},
                ![r].position = e.sequence, ![r].seen = Append(@, e.eventId)]
    BY DEF Deliver
<1>2. /\ Listening(r) /\ me \in Reader /\ me.state = "reading"
      /\ events' = events /\ streams' = streams
    BY DEF Deliver, Listening, Typed, TypeOK, tables
<1>3. Subscribed(r) /\ BufferFollows(r) /\ Delivered(r)
    BY <1>2 DEF ReaderInv
<1>4. /\ readers'[r].buffer = me.buffer \ {e} /\ readers'[r].session = s
      /\ readers'[r].position = e.sequence /\ readers'[r].start = me.start
      /\ readers'[r].seen = Append(me.seen, e.eventId)
      /\ readers'[r].state = "reading"
    BY <1>1, <1>2 DEF Typed, TypeOK, Reader
<1>5. /\ s \in Sessions /\ me.position \in Nat /\ me.start \in Nat
      /\ me.seen \in Seq(EventIds) /\ e \in Event
      /\ e \in StoredOf(s) /\ e.sequence > me.position
    BY <1>2, <1>3 DEF Subscribed, BufferFollows, Reader
<1>6. \A f \in StoredOf(s) : f.sequence \in Nat
    BY StoredType DEF Typed, TypeOK, Event
<1>7. /\ \A f, g \in StoredOf(s) : f.sequence = g.sequence => f = g
      /\ \A f \in StoredOf(s) : f.sequence > 1 =>
            \E p \in StoredOf(s) : p.sequence = f.sequence - 1
      /\ Keyed
    BY <1>5 DEF Inv, Chained
<1>8. e.sequence = me.position + 1
    <2>. SUFFICES ASSUME e.sequence > me.position + 1
                  PROVE  FALSE
        BY <1>5, <1>6
    <2>1. PICK p \in StoredOf(s) : p.sequence = e.sequence - 1
        BY <1>5, <1>6, <1>7
    <2>2. p \in me.buffer
        BY <1>3, <1>5, <1>6, <2>1 DEF BufferFollows
    <2>. QED
        BY <1>1, <1>5, <1>6, <2>1, <2>2
<1>9. BufferFollows(r)'
    <2>. SUFFICES ASSUME NEW b \in me.buffer \ {e}
                  PROVE  /\ b \in StoredOf(s) /\ b.sequence > e.sequence
                         /\ \A f \in StoredOf(s) :
                               f.sequence > e.sequence
                               /\ f.sequence <= b.sequence
                                   => f \in me.buffer \ {e}
        BY <1>2, <1>4 DEF BufferFollows, StoredOf, Stored
    <2>1. b \in StoredOf(s)
        BY <1>3 DEF BufferFollows
    <2>2. b.sequence > e.sequence
        BY <1>1, <1>5, <1>6, <1>7, <2>1
    <2>. QED
        BY <1>3, <1>5, <1>6, <2>1, <2>2 DEF BufferFollows
<1>10. Delivered(r)'
    <2>. DEFINE seen == Append(me.seen, e.eventId)
                n == Len(me.seen)
    <2>1. /\ n \in Nat /\ Len(seen) = n + 1 /\ seen[n + 1] = e.eventId
          /\ \A i \in 1..n : seen[i] = me.seen[i]
          /\ \A i \in 1..(n + 1) : i \in 1..n \/ i = n + 1
        BY <1>5 DEF Event
    <2>2. Stored(e.eventId) /\ events[e.eventId].payload = e
        BY <1>5, <1>7 DEF StoredOf, Keyed
    <2>3. e.session = s
        BY <1>5, StoredType DEF Typed, TypeOK
    <2>4. me.position = me.start + n
        BY <1>3 DEF Delivered
    <2>5. e.sequence = me.start + (n + 1)
        BY <1>5, <1>8, <2>1, <2>4
    <2>. HIDE DEF seen
    <2>6. \A i \in 1..(n + 1) :
             /\ Stored(seen[i]) /\ events[seen[i]].payload.session = s
             /\ events[seen[i]].payload.sequence = me.start + i
        <3>. SUFFICES ASSUME NEW i \in 1..(n + 1)
                      PROVE  /\ Stored(seen[i])
                             /\ events[seen[i]].payload.session = s
                             /\ events[seen[i]].payload.sequence = me.start + i
            OBVIOUS
        <3>1. CASE i \in 1..n
            BY <1>3, <2>1, <3>1 DEF Delivered
        <3>2. CASE i = n + 1
            <4>1. seen[i] = e.eventId
                BY <2>1, <3>2
            <4>2. e.sequence = me.start + i
                BY <2>5, <3>2
            <4>. QED
                BY <2>2, <2>3, <4>1, <4>2
        <3>. QED
            BY <2>1, <3>1, <3>2
    <2>. HIDE DEF n
    <2>. QED
        BY <1>2, <1>4, <2>1, <2>5, <2>6 DEF Delivered, Stored, seen
<1>11. Subscribed(r)' /\ EndsBehindTerminal(r)'
    BY <1>2, <1>3, <1>4 DEF Subscribed, EndsBehindTerminal
<1>. QED
    BY <1>9, <1>10, <1>11 DEF ReaderInv

\* The head is the last event of the chain, so a reader at a terminal head has
\* had everything.
LEMMA CheckHeadStep ==
    ASSUME Typed, Inv, EmptyHasNoEvent, NEW r \in Readers, ReaderInv(r),
           CheckHead(r)
    PROVE  ReaderInv(r)'
<1>. DEFINE me == readers[r]
            s == readers[r].session
<1>1. /\ Listening(r) /\ me \in Reader
      /\ events' = events /\ streams' = streams
      /\ readers' = [readers EXCEPT ![r].state =
                        IF HeadEnds(r) THEN "ended" ELSE "reading"]
    BY DEF CheckHead, Listening, Typed, TypeOK, tables
<1>2. Subscribed(r) /\ BufferFollows(r) /\ Delivered(r)
    BY <1>1 DEF ReaderInv
<1>3. /\ readers'[r].buffer = me.buffer /\ readers'[r].session = s
      /\ readers'[r].position = me.position /\ readers'[r].start = me.start
      /\ readers'[r].seen = me.seen
      /\ readers'[r].state = "ended" => HeadEnds(r)
    BY <1>1 DEF Typed, TypeOK, Reader
<1>4. EndsBehindTerminal(r)'
    <2>. SUFFICES ASSUME HeadEnds(r)
                  PROVE  \E e \in StoredOf(s) :
                            e.sequence = me.position /\ Terminal(e)
        BY <1>1, <1>3 DEF EndsBehindTerminal, Terminal, StoredOf, Stored
    <2>1. /\ s \in Sessions /\ streams[s] # NoStream
          /\ streams[s].streamId # NoWriter
        BY <1>2 DEF Subscribed, HeadEnds, EmptyHasNoEvent
    <2>2. PICK e \in StoredOf(s) : /\ e.eventId = streams[s].eventId
                                   /\ e.sequence = streams[s].sequence
        BY <2>1 DEF Inv, Chained, ChainHead
    <2>3. events[e.eventId].payload = e
        BY DEF StoredOf, Inv, Keyed
    <2>. QED
        BY <2>2, <2>3 DEF HeadEnds
<1>5. Subscribed(r)' /\ BufferFollows(r)' /\ Delivered(r)'
    BY <1>1, <1>2, <1>3
    DEF Subscribed, BufferFollows, Delivered, StoredOf, Stored
<1>. QED
    BY <1>4, <1>5 DEF ReaderInv

LEMMA ReaderStepKeeps ==
    ASSUME Typed, Inv, EmptyHasNoEvent, NEW r \in Readers, ReaderInv(r),
           NEW q \in Readers, ReaderStep(q)
    PROVE  ReaderInv(r)' /\ EmptyHasNoEvent'
<1>1. UNCHANGED <<events, streams>>
    BY DEF ReaderStep, Subscribe, Fetch, Deliver, CheckHead, Return, tables
<1>2. EmptyHasNoEvent'
    BY <1>1 DEF EmptyHasNoEvent
<1>3. CASE q # r
    <2>1. readers'[r] = readers[r]
        BY <1>3 DEF ReaderStep, Subscribe, Fetch, Deliver, CheckHead, Return,
                    Typed, TypeOK
    <2>2. JournalGrows
        BY <1>1 DEF JournalGrows, StoredOf, Stored
    <2>. QED
        BY <1>2, <2>1, <2>2, ReaderKept
<1>4. CASE q = r
    <2>1. ASSUME NEW s \in Sessions, NEW after \in Nat, Subscribe(r, s, after)
          PROVE  ReaderInv(r)'
        <3>1. /\ streams[s] # NoStream
              /\ readers'[r] = [state |-> "reading", session |-> s,
                     start |-> after, position |-> after, buffer |-> {},
                     seen |-> <<>>]
            BY <2>1 DEF Subscribe, Typed, TypeOK
        <3>. QED
            BY <1>1, <3>1 DEF ReaderInv, Subscribed, BufferFollows, Delivered,
                              EndsBehindTerminal
    <2>2. ASSUME Return(r)
          PROVE  ReaderInv(r)'
        BY <2>2 DEF Return, Unsubscribed, ReaderInv, Listening, Typed, TypeOK
    <2>. QED
        BY <1>2, <1>4, <2>1, <2>2, FetchStep, DeliverStep, CheckHeadStep
        DEF ReaderStep
<1>. QED
    BY <1>3, <1>4

\* For any batch size and any interleaving with the writers, a reader delivers
\* every event after its start, in order, and ends by itself only behind the
\* event that ends the session.
THEOREM NothingMissed == Spec => []ReaderMissesNothing
<1>. DEFINE AllReaders == EmptyHasNoEvent /\ \A r \in Readers : ReaderInv(r)
<1>1. Init => AllReaders
    BY DEF Init, EmptyHasNoEvent, ReaderInv, Listening, Unsubscribed
<1>2. ASSUME Typed, Inv, AllReaders, [Next]_vars
      PROVE  AllReaders'
    <2>1. CASE UNCHANGED readers
        BY <1>2, <2>1, JournalSteps, Growth, ReaderKept
    <2>2. ASSUME NEW q \in Readers, ReaderStep(q)
          PROVE  AllReaders'
        <3>1. EmptyHasNoEvent'
            BY <1>2, <2>2, ReaderStepKeeps
        <3>2. \A r \in Readers : ReaderInv(r)'
            BY <1>2, <2>2, ReaderStepKeeps
        <3>. QED
            BY <3>1, <3>2
    <2>. QED
        BY <1>2, <2>1, <2>2, NextCases DEF BindRuntime, AppendEvent
<1>3. AllReaders => ReaderMissesNothing
    BY DEF ReaderInv, Listening, Delivered, EndsBehindTerminal,
           ReaderMissesNothing
<1>. QED
    BY <1>1, <1>2, <1>3, InvCorrect, PTL DEF Spec

-----------------------------------------------------------------------------
(* The journal implements EventLog.                                        *)

\* What EventLog sees of the table, as the refinement mapping has it.
Log == {[session |-> events[id].payload.session,
         sequence |-> events[id].payload.sequence, eventId |-> id,
         writer |-> events[id].payload.streamId] :
            id \in {i \in EventIds : Stored(i)}}

Spent == ClaimedTokens \ {NoToken}

\* The entry of a stored event.
EntryOf(e) == [session |-> e.session, sequence |-> e.sequence,
               eventId |-> e.eventId, writer |-> e.streamId]

LEMMA LogIsStored ==
    ASSUME Keyed, NEW s
    PROVE  /\ \A p \in StoredOf(s) : EntryOf(p) \in Log /\ p.session = s
           /\ \A f \in Log : f.session = s =>
                 \E g \in StoredOf(s) : f.sequence = g.sequence
BY DEF Keyed, StoredOf, Stored, Log, EntryOf

LEMMA StoreAddsEntry ==
    ASSUME Typed, Inv, NEW call \in calls, Store(call)
    PROVE  /\ Log' = Log \cup {EntryOf(call.event)}
           /\ \A f \in Log : f.eventId # call.event.eventId
           /\ Spent' = Spent \cup ({RowOf(call).claimed} \ {NoToken})
<1>. DEFINE id == call.event.eventId
<1>1. /\ ~Stored(id) /\ events'[id] = RowOf(call)
      /\ \A i \in EventIds : i # id => events'[i] = events[i]
    BY StoreAdds DEF Inv
<1>2. /\ RowOf(call) # NoEvent /\ RowOf(call).payload = call.event
      /\ id \in EventIds
    BY RowOfType DEF Typed, TypeOK
<1>3. \A f \in Log : f.eventId # id
    BY <1>1 DEF Log
<1>4. {i \in EventIds : Stored(i)}' = {i \in EventIds : Stored(i)} \cup {id}
    BY <1>1, <1>2 DEF Stored
<1>5. Log' = Log \cup {EntryOf(call.event)}
    <2>. DEFINE entry(rows, i) ==
                   [session |-> rows[i].payload.session,
                    sequence |-> rows[i].payload.sequence, eventId |-> i,
                    writer |-> rows[i].payload.streamId]
                ids == {i \in EventIds : Stored(i)}
    <2>1. Log = {entry(events, i) : i \in ids}
        BY DEF Log
    <2>2. Log' = {entry(events', i) : i \in ids'}
        BY DEF Log
    <2>3. \A i \in ids : entry(events', i) = entry(events, i)
        BY <1>1
    <2>4. entry(events', id) = EntryOf(call.event)
        BY <1>1, <1>2 DEF EntryOf
    <2>5. ids' = ids \cup {id}
        BY <1>4
    <2>. HIDE DEF entry, ids
    <2>. QED
        BY <2>1, <2>2, <2>3, <2>4, <2>5
<1>6. ClaimedTokens' = ClaimedTokens \cup {RowOf(call).claimed}
    <2>. DEFINE ids == {i \in EventIds : Stored(i)}
    <2>1. ClaimedTokens = {events[i].claimed : i \in ids}
        BY DEF ClaimedTokens
    <2>2. ClaimedTokens' = {events'[i].claimed : i \in ids'}
        BY DEF ClaimedTokens
    <2>3. \A i \in ids : events'[i] = events[i]
        BY <1>1
    <2>4. ids' = ids \cup {id}
        BY <1>4
    <2>. HIDE DEF ids
    <2>. QED
        BY <1>1, <2>1, <2>2, <2>3, <2>4
<1>. QED
    BY <1>3, <1>5, <1>6 DEF Spent

LEMMA StoreRefines ==
    ASSUME Typed, Inv, NEW call \in calls, Store(call)
    PROVE  Journal!Next
<1>. DEFINE e == call.event
            s == call.event.session
            n == call.event.sequence
            id == call.event.eventId
            w == call.event.streamId
<1>1. /\ call \in Call /\ s \in Sessions /\ id \in EventIds /\ w \in Writers
      /\ call.expected.token \in Tokens \cup {NoToken}
    BY DEF Typed, TypeOK, Call, Event, Expected
<1>2. /\ Log' = Log \cup {EntryOf(e)}
      /\ \A f \in Log : f.eventId # id
      /\ Spent' = Spent \cup ({RowOf(call).claimed} \ {NoToken})
    BY StoreAddsEntry
<1>3. Log' # Log
    <2>1. EntryOf(e).eventId = id
        BY DEF EntryOf
    <2>2. EntryOf(e) \notin Log
        BY <1>2, <2>1
    <2>. HIDE DEF e, id
    <2>. QED
        BY <1>2, <2>2
<1>4. Keyed /\ ChainHead(s)
    BY <1>1 DEF Inv, Chained
<1>5. /\ \A p \in StoredOf(s) : EntryOf(p) \in Log /\ p.session = s
      /\ \A f \in Log : f.session = s =>
            \E g \in StoredOf(s) : f.sequence = g.sequence
    BY <1>4, LogIsStored
<1>6. Journal!Add(s, n, id, w)
    BY <1>2 DEF Journal!Add, Log, EntryOf
<1>7. CASE /\ call.expected.kind = "empty" /\ n = 1 /\ StoredOf(s) = {}
    <2>1. Spent' = Spent
        BY <1>2, <1>7 DEF RowOf
    <2>2. Journal!LogOf(s) = {}
        BY <1>5, <1>7 DEF Journal!LogOf, Log
    <2>3. Journal!Open(s, id, w)
        BY <1>6, <1>7, <2>1, <2>2 DEF Journal!Open, Spent
    <2>. QED
        BY <1>1, <1>3, <2>3 DEF Journal!Next, Log
<1>8. ASSUME NEW p \in StoredOf(s), n = p.sequence + 1,
             \A f \in StoredOf(s) : f.sequence <= p.sequence,
             \/ /\ call.expected.kind = "hibernation_token"
             \/ /\ call.expected.kind \notin {"empty", "hibernation_token"}
                /\ p.streamId = w
      PROVE  Journal!Next
    <2>. DEFINE last == EntryOf(p)
    <2>1. /\ last \in Log /\ last.session = s /\ last.sequence = p.sequence
          /\ last.writer = p.streamId
        BY <1>5 DEF EntryOf
    <2>2. Journal!IsLast(last)
        BY <1>5, <1>8, <2>1 DEF Journal!IsLast, Journal!LogOf, Log
    <2>. HIDE DEF last
    <2>3. CASE call.expected.kind = "hibernation_token"
        <3>. DEFINE token == call.expected.token
        <3>1. token \notin ClaimedTokens \cup {NoToken} /\ token \in Tokens
            BY <1>1, <2>3 DEF Store, Fits, Matches, ResumeMatches
        <3>2. Spent' = Spent \cup {token} /\ token \notin Spent
            BY <1>2, <2>3, <3>1 DEF RowOf, Spent
        <3>3. Journal!TakeOver(last, id, w, token)
            BY <1>6, <1>8, <2>1, <2>2, <3>2 DEF Journal!TakeOver, Spent
        <3>. QED
            BY <1>1, <1>3, <2>1, <3>1, <3>3 DEF Journal!Next, Log
    <2>4. CASE /\ call.expected.kind \notin {"empty", "hibernation_token"}
               /\ p.streamId = w
        <3>1. Spent' = Spent
            BY <1>2, <2>4 DEF RowOf
        <3>2. Journal!Continue(last, id)
            BY <1>6, <1>8, <2>1, <2>2, <2>4, <3>1
            DEF Journal!Continue, Spent
        <3>. QED
            BY <1>1, <1>3, <2>1, <3>2 DEF Journal!Next, Log
    <2>. QED
        BY <1>8, <2>3, <2>4
<1>. QED
    BY <1>4, <1>7, <1>8, StoreLinks DEF Inv

\* The journal implements the append-only log: preconditions, retries, lost
\* answers and late calls come to an append at the end, by the writer of the
\* last event or by one that spends a token that nobody has spent.
THEOREM LogImplemented == Spec => ImplementsEventLog
<1>1. Init => Journal!Init
    BY DEF Init, Journal!Init, ClaimedTokens, Stored
<1>2. Typed /\ Inv /\ [Next]_vars => [Journal!Next]_<<Log, Spent>>
    <2>1. ASSUME events' = events
          PROVE  UNCHANGED <<Log, Spent>>
        BY <2>1 DEF Log, Spent, ClaimedTokens, Stored
    <2>2. ASSUME Typed, Inv, JournalStep
          PROVE  [Journal!Next]_<<Log, Spent>>
        BY <2>1, <2>2, StoreRefines
        DEF JournalStep, tables, BindRuntime, Refuse
    <2>. QED
        BY <2>2, JournalSteps
<1>. QED
    BY <1>1, <1>2, InvCorrect, PTL
    DEF Spec, ImplementsEventLog, Journal!Spec, Log, Spent

=============================================================================
