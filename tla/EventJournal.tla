---------------------------- MODULE EventJournal ----------------------------
(***************************************************************************)
(* The durable journal of agent sessions: the append of an event with its  *)
(* precondition (AgentSessionEventReceipts), the writers that call it, and *)
(* the readers of DialogueEventReader.events.                              *)
(*                                                                         *)
(* An append takes the advisory writer lock first, so it is one action.    *)
(* What surrounds it is not reliable: its answer may be lost, its caller   *)
(* may give up and the call still run, and a call made once may run again  *)
(* at any later time; so a call, once made, stays in calls.                *)
(*                                                                         *)
(* External: the runtime that writes (Begin, Resume, Emit, GiveUp),        *)
(* modelled from the preconditions the sink accepts.  It draws event ids   *)
(* and token ids without looking at the journal, so they may collide.      *)
(* Abstracted: payloads beyond the fields the journal compares, and the    *)
(* projection of a stored event (DialogueLifecycle, DialogueHistory), of   *)
(* which projected remembers only that it has been done.                   *)
(***************************************************************************)
EXTENDS Naturals, Sequences, FiniteSets

CONSTANTS
    Sessions,      \* session ids
    Writers,       \* runtime processes; one writes under one streamId
    EventIds,      \* event ids
    Tokens,        \* resume token ids
    Readers,       \* subscriptions to the events of a session
    NoEvent,       \* no row for an event id; no event; no call
    NoToken,       \* null for a token id
    NoStream,      \* no row for a session
    NoWriter,      \* null for a stream id
    EventTypes,    \* the types of events that writers emit
    BatchSize,     \* rows a reader takes at once (100 in the source)
    MaxSequence,   \* bound on the events of a session
    MaxCalls       \* bound on the different calls made

ASSUME WritersAssumption  == NoWriter \notin Writers
ASSUME TokensAssumption   == NoToken \notin Tokens
ASSUME EventIdsAssumption == NoEvent \notin EventIds
ASSUME BoundsAssumption   == /\ BatchSize \in Nat \ {0} /\ MaxSequence \in Nat
                             /\ MaxCalls \in Nat

\* "update" stands for the twelve types that neither begin nor end a stream.
Types == {"accepted", "update", "hibernated", "closed"}

ASSUME TypesAssumption == EventTypes \subseteq Types

\* The fields of an event that the journal looks at.  token is the resume
\* token of session.hibernated, and of session.accepted when it is resumed.
Event == [eventId : EventIds, session : Sessions, streamId : Writers,
          sequence : Nat \ {0}, type : Types, token : Tokens \cup {NoToken}]

\* AgentSessionEventAppendPrecondition: the cursor it names, if any.
Expected == [kind : {"empty", "cursor", "hibernation_token"},
             streamId : Writers \cup {NoWriter}, sequence : Nat,
             eventId : EventIds \cup {NoEvent}, token : Tokens \cup {NoToken}]

Call == [writer : Writers, event : Event, expected : Expected]

\* A row of agent_session_events and one of agent_session_event_streams.
EventRow  == [payload : Event, claimed : Tokens \cup {NoToken}]
StreamRow == [streamId : Writers \cup {NoWriter}, sequence : Nat,
              eventId : EventIds \cup {NoEvent}, bound : BOOLEAN]

ASSUME NullsAssumption ==
    NoEvent \notin EventRow \cup Event /\ NoStream \notin StreamRow

\* A writer: the call it waits for and the last event it knows was stored.
Writer == [state : {"free", "calling", "ready", "stopped"},
           event : Event \cup {NoEvent}, last : Event \cup {NoEvent}]

\* A subscription: next() is fetching, or checking whether the head ends it.
Reader == [state : {"idle", "reading", "checking", "ended", "stopped"},
           session : Sessions \cup {NoStream}, start : Nat, position : Nat,
           buffer : SUBSET Event, seen : Seq(EventIds)]

Unsubscribed(state) ==
    [state |-> state, session |-> NoStream, start |-> 0, position |-> 0,
     buffer |-> {}, seen |-> <<>>]

VARIABLES
    events,     \* per event id: its row, or NoEvent
    streams,    \* per session: its row, or NoStream
    projected,  \* the events whose handler went on to change the dialogue
    calls,      \* the calls made to the sink
    writers,    \* the runtime processes
    readers     \* the subscriptions

tables == <<events, streams, projected>>
vars   == <<tables, calls, writers, readers>>

TypeOK ==
    /\ events \in [EventIds -> EventRow \cup {NoEvent}]
    /\ streams \in [Sessions -> StreamRow \cup {NoStream}]
    /\ projected \in Seq(EventIds)
    /\ calls \subseteq Call
    /\ writers \in [Writers -> Writer]
    /\ readers \in [Readers -> Reader]

Init ==
    /\ events = [id \in EventIds |-> NoEvent]
    /\ streams = [s \in Sessions |-> NoStream]
    /\ projected = <<>>
    /\ calls = {}
    /\ writers = [w \in Writers |->
                    [state |-> "free", event |-> NoEvent, last |-> NoEvent]]
    /\ readers = [r \in Readers |-> Unsubscribed("idle")]

-----------------------------------------------------------------------------
(* The journal.                                                            *)

Stored(id) == events[id] # NoEvent

\* The stored events of a session.
StoredOf(s) == {events[id].payload : id \in {i \in EventIds :
                    Stored(i) /\ events[i].payload.session = s}}

Terminal(e) == e.type \in {"closed", "hibernated"}

EmptyStream(bound) == [streamId |-> NoWriter, sequence |-> 0,
                       eventId |-> NoEvent, bound |-> bound]

\* createRuntimeStream: bindRuntime creates the stream of a new session.
BindRuntime(s) ==
    /\ streams[s] = NoStream
    /\ streams' = [streams EXCEPT ![s] = EmptyStream(TRUE)]
    /\ UNCHANGED <<events, projected, calls, writers, readers>>

\* findResumeClaim.
ClaimedTokens == {events[id].claimed : id \in {i \in EventIds : Stored(i)}}

\* Mistake: whether the token has been claimed is not looked up.
ResumeWithoutClaimCheck(expected, e) ==
    /\ e.type = "accepted" /\ e.token = expected.token
    /\ expected.token # NoToken
    /\ Stored(expected.eventId)
    /\ LET p == events[expected.eventId].payload
       IN  p.type = "hibernated" /\ p.token = expected.token

\* The second half of matches: a resumed session.accepted, an unclaimed
\* token, and a predecessor that hibernated with this token.
ResumeMatches(expected, e) ==
    /\ e.type = "accepted" /\ e.token = expected.token
    /\ expected.token \notin ClaimedTokens \cup {NoToken}
    /\ Stored(expected.eventId)
    /\ LET p == events[expected.eventId].payload
       IN  p.type = "hibernated" /\ p.token = expected.token

\* Mistake: for a first event the stream is not asked whether it is empty.
MatchesAnyFirst(row, expected, e) ==
    IF expected.kind = "empty"
    THEN e.sequence = 1
    ELSE /\ row.streamId = expected.streamId
         /\ row.sequence = expected.sequence
         /\ row.eventId = expected.eventId
         /\ e.sequence = expected.sequence + 1
         /\ IF expected.kind = "hibernation_token"
            THEN ResumeMatches(expected, e)
            ELSE e.streamId = expected.streamId

\* matches, of a stream's row, a precondition and an event.
Matches(row, expected, e) ==
    IF expected.kind = "empty"
    THEN row.streamId = NoWriter /\ e.sequence = 1
    ELSE /\ row.streamId = expected.streamId
         /\ row.sequence = expected.sequence
         /\ row.eventId = expected.eventId
         /\ e.sequence = expected.sequence + 1
         /\ IF expected.kind = "hibernation_token"
            THEN ResumeMatches(expected, e)
            ELSE e.streamId = expected.streamId

\* getOrCreateStream: only the precondition "empty" creates the row.
StreamFor(call) ==
    IF streams[call.event.session] = NoStream /\ call.expected.kind = "empty"
    THEN EmptyStream(FALSE)
    ELSE streams[call.event.session]

\* findEvent has found a row: the same payload counts as appended.
Known(call)     == Stored(call.event.eventId)
Duplicate(call) == /\ Known(call)
                   /\ events[call.event.eventId].payload = call.event
Fits(call)      == /\ ~Known(call) /\ StreamFor(call) # NoStream
                   /\ Matches(StreamFor(call), call.expected, call.event)

\* Mistake: the event resumed from is claimed, not its token.
RowClaimingEvent(call) ==
    [payload |-> call.event,
     claimed |-> IF call.expected.kind = "hibernation_token"
                 THEN call.expected.eventId ELSE NoToken]

\* The call's row: persistEvent, with the token it claims.
RowOf(call) ==
    [payload |-> call.event,
     claimed |-> IF call.expected.kind = "hibernation_token"
                 THEN call.expected.token ELSE NoToken]

\* persistEvent, advanceStreamHead, and the projection by the handler, which
\* is in the same transaction and done for the sessions of a dialogue.
Store(call) ==
    LET e == call.event
        s == e.session
    IN  /\ Fits(call)
        /\ events' = [events EXCEPT ![e.eventId] = RowOf(call)]
        /\ streams' = [streams EXCEPT ![s] =
              [streamId |-> e.streamId, sequence |-> e.sequence,
               eventId |-> e.eventId, bound |-> StreamFor(call).bound]]
        /\ projected' = IF StreamFor(call).bound
                        THEN Append(projected, e.eventId) ELSE projected

\* Mistake: an event found in the journal is projected like a new one.
AcceptProjectingAgain(call) ==
    /\ Duplicate(call)
    /\ projected' = IF streams[call.event.session].bound
                    THEN Append(projected, call.event.eventId) ELSE projected
    /\ UNCHANGED <<events, streams>>

\* duplicateResult for the same payload: appended, and nothing is done.
AcceptDuplicate(call) ==
    /\ Duplicate(call)
    /\ UNCHANGED tables

\* A conflict; a row that getOrCreateStream has created stays.
Refuse(call) ==
    /\ ~Duplicate(call) /\ ~Fits(call)
    /\ streams' = IF Known(call) THEN streams
                  ELSE [streams EXCEPT ![call.event.session] = StreamFor(call)]
    /\ UNCHANGED <<events, projected>>

-----------------------------------------------------------------------------
(* The runtime's calls of the sink.                                        *)

Idle(state) == [state |-> state, event |-> NoEvent, last |-> NoEvent]

\* The answer reaches the writer if it still waits for this call.
Answer(call, accepted) ==
    LET w == call.writer
    IN  IF writers[w].state = "calling" /\ writers[w].event = call.event
        THEN writers' = [writers EXCEPT ![w] =
                IF ~accepted THEN Idle("stopped")
                ELSE IF Terminal(call.event) THEN Idle("free")
                ELSE [state |-> "ready", event |-> NoEvent,
                      last |-> call.event]]
        ELSE UNCHANGED writers

LoseAnswer == UNCHANGED writers

\* append: one transaction, for a call made now or earlier.
AppendEvent(call) ==
    /\ \/ Store(call) /\ (Answer(call, TRUE) \/ LoseAnswer)
       \/ AcceptDuplicate(call) /\ (Answer(call, TRUE) \/ LoseAnswer)
       \/ Refuse(call) /\ (Answer(call, FALSE) \/ LoseAnswer)
    /\ UNCHANGED <<calls, readers>>

CallSink(w, event, expected) ==
    /\ Cardinality(calls) < MaxCalls
    /\ calls' = calls \cup {[writer |-> w, event |-> event,
                             expected |-> expected]}
    /\ writers' = [writers EXCEPT ![w].state = "calling", ![w].event = event]
    /\ UNCHANGED <<tables, readers>>

\* A new session.
Begin(w, s, id, type, token) ==
    /\ writers[w].state = "free"
    /\ (type = "hibernated") <=> (token # NoToken)
    /\ CallSink(w, [eventId |-> id, session |-> s, streamId |-> w,
                    sequence |-> 1, type |-> type, token |-> token],
                   [kind |-> "empty", streamId |-> NoWriter, sequence |-> 0,
                    eventId |-> NoEvent, token |-> NoToken])

\* A session that hibernated: whoever holds its token may resume it.
Resume(w, from, id) ==
    /\ writers[w].state = "free" /\ from.type = "hibernated"
    /\ from.sequence < MaxSequence
    /\ CallSink(w, [eventId |-> id, session |-> from.session, streamId |-> w,
                    sequence |-> from.sequence + 1, type |-> "accepted",
                    token |-> from.token],
                   [kind |-> "hibernation_token", streamId |-> from.streamId,
                    sequence |-> from.sequence, eventId |-> from.eventId,
                    token |-> from.token])

\* The next event of a session.
Emit(w, id, type, token) ==
    /\ writers[w].state = "ready"
    /\ (type = "hibernated") <=> (token # NoToken)
    /\ LET last == writers[w].last
       IN  /\ last.sequence < MaxSequence
           /\ CallSink(w, [eventId |-> id, session |-> last.session,
                           streamId |-> w, sequence |-> last.sequence + 1,
                           type |-> type, token |-> token],
                          [kind |-> "cursor", streamId |-> w,
                           sequence |-> last.sequence,
                           eventId |-> last.eventId, token |-> NoToken])

\* The runtime aborts its call, or is gone; the call may run all the same.
GiveUp(w) ==
    /\ writers[w].state = "calling"
    /\ writers' = [writers EXCEPT ![w] = Idle("stopped")]
    /\ UNCHANGED <<tables, calls, readers>>

-----------------------------------------------------------------------------
(* DialogueEventReader.events.                                             *)

\* eventPosition: from the start, or after a stored event.
Subscribe(r, s, after) ==
    /\ readers[r].state = "idle" /\ streams[s] # NoStream
    /\ after = 0 \/ \E e \in StoredOf(s) : e.sequence = after
    /\ readers' = [readers EXCEPT ![r] =
          [state |-> "reading", session |-> s, start |-> after,
           position |-> after, buffer |-> {}, seen |-> <<>>]]
    /\ UNCHANGED <<tables, calls, writers>>

Beyond(r) == {e \in StoredOf(readers[r].session) :
                  e.sequence > readers[r].position}

\* Mistake: the rows are taken in no particular order.
UnorderedBatch(r, rows) ==
    rows \subseteq Beyond(r) /\ Cardinality(rows) <= BatchSize

\* The first rows by sequence, no more than BatchSize.
FirstBatch(r, rows) ==
    /\ rows \subseteq Beyond(r)
    /\ \A e \in rows, f \in Beyond(r) \ rows : e.sequence <= f.sequence
    /\ \/ Cardinality(rows) = BatchSize
       \/ rows = Beyond(r) /\ Cardinality(rows) <= BatchSize

\* findMany: the rows are buffered; with none, the head is looked at next.
Fetch(r) ==
    /\ readers[r].state = "reading" /\ readers[r].buffer = {}
    /\ \E rows \in SUBSET Beyond(r) :
          /\ FirstBatch(r, rows)
          /\ readers' = [readers EXCEPT ![r].buffer = rows,
                  ![r].state = IF rows = {} THEN "checking" ELSE "reading"]
    /\ UNCHANGED <<tables, calls, writers>>

\* next() resolves with the row at the front of the buffer.
Deliver(r) ==
    /\ readers[r].state = "reading"
    /\ \E e \in readers[r].buffer :
          /\ \A f \in readers[r].buffer : e.sequence <= f.sequence
          /\ readers' = [readers EXCEPT ![r].buffer = @ \ {e},
                  ![r].position = e.sequence, ![r].seen = Append(@, e.eventId)]
    /\ UNCHANGED <<tables, calls, writers>>

\* isTerminalHead.
HeadEnds(r) ==
    LET row == streams[readers[r].session]
    IN  /\ row.sequence = readers[r].position
        /\ row.eventId # NoEvent /\ Terminal(events[row.eventId].payload)

\* Mistake: a head that does not end the stream is not read beyond.
CheckHeadOnce(r) ==
    /\ readers[r].state = "checking" /\ HeadEnds(r)
    /\ readers' = [readers EXCEPT ![r].state = "ended"]
    /\ UNCHANGED <<tables, calls, writers>>

\* The end of the stream, or after 50 ms the next findMany.
CheckHead(r) ==
    /\ readers[r].state = "checking"
    /\ readers' = [readers EXCEPT ![r].state =
                       IF HeadEnds(r) THEN "ended" ELSE "reading"]
    /\ UNCHANGED <<tables, calls, writers>>

\* return(): the next pass of the loop ends the iteration.
Return(r) ==
    /\ readers[r].state \in {"reading", "checking"}
    /\ readers' = [readers EXCEPT ![r] = Unsubscribed("stopped")]
    /\ UNCHANGED <<tables, calls, writers>>

-----------------------------------------------------------------------------

Next ==
    \/ \E s \in Sessions : BindRuntime(s)
    \/ \E call \in calls : AppendEvent(call)
    \/ \E w \in Writers, id \in EventIds :
          \/ \E s \in Sessions : \E from \in StoredOf(s) : Resume(w, from, id)
          \/ \E type \in EventTypes, token \in Tokens \cup {NoToken} :
                \/ \E s \in Sessions : Begin(w, s, id, type, token)
                \/ type # "accepted" /\ Emit(w, id, type, token)
    \/ \E w \in Writers : GiveUp(w)
    \/ \E r \in Readers :
          \/ \E s \in Sessions, after \in 0..MaxSequence : Subscribe(r, s, after)
          \/ Fetch(r) \/ Deliver(r) \/ CheckHead(r) \/ Return(r)

\* A loop of next() that its consumer keeps calling goes on.
Reads(r) == Fetch(r) \/ Deliver(r) \/ CheckHead(r)

Spec == Init /\ [][Next]_vars /\ \A r \in Readers : WF_vars(Reads(r))

-----------------------------------------------------------------------------
(* Properties.                                                             *)

\* The events of a session form one chain 1, 2, ..., its stream row is the
\* end of the chain, and a change of writer is a resumption of the event that
\* hibernated just before: retries, late calls and two processes that resume
\* the same session neither fork the chain nor leave a gap.
ChainHead(s) ==
    IF streams[s] = NoStream \/ streams[s].streamId = NoWriter
    THEN StoredOf(s) = {}
    ELSE \E e \in StoredOf(s) :
            /\ e.eventId = streams[s].eventId
            /\ e.streamId = streams[s].streamId
            /\ e.sequence = streams[s].sequence
            /\ \A f \in StoredOf(s) : f.sequence <= e.sequence

OneChainPerSession ==
    \A s \in Sessions :
        /\ ChainHead(s)
        /\ \A e, f \in StoredOf(s) : e.sequence = f.sequence => e = f
        /\ \A e \in StoredOf(s) : e.sequence > 1 =>
              \E p \in StoredOf(s) :
                  /\ p.sequence = e.sequence - 1
                  /\ \/ p.streamId = e.streamId
                     \/ /\ p.type = "hibernated" /\ e.type = "accepted"
                        /\ p.token = e.token

\* However often an event is delivered, the dialogue changes once for it, and
\* for the events of a session in the order of their sequence: the receipt and
\* the projection are one transaction.
ProjectedOnceInOrder ==
    /\ \A i, j \in 1..Len(projected) :
          /\ i # j => projected[i] # projected[j]
          /\ i < j /\ events[projected[i]].payload.session
                        = events[projected[j]].payload.session
             => events[projected[i]].payload.sequence
                    < events[projected[j]].payload.sequence
    /\ \A s \in Sessions : streams[s] # NoStream /\ streams[s].bound =>
          \A e \in StoredOf(s) : \E i \in 1..Len(projected) :
              projected[i] = e.eventId

\* A reader delivers every event after its start, in order, and ends by itself
\* only behind an event that closes or hibernates the session.
ReaderMissesNothing ==
    \A r \in Readers : readers[r].state \notin {"idle", "stopped"} =>
        LET me == readers[r]
        IN  /\ me.position = me.start + Len(me.seen)
            /\ \A i \in 1..Len(me.seen) :
                  /\ Stored(me.seen[i])
                  /\ LET e == events[me.seen[i]].payload
                     IN  e.session = me.session /\ e.sequence = me.start + i
            /\ me.state = "ended" =>
                  \E e \in StoredOf(me.session) :
                      e.sequence = me.position /\ Terminal(e)

\* The journal, seen through its table, is an append-only log per session,
\* and only a token spent for the first time lets another writer take over.
Journal == INSTANCE EventLog WITH
    log <- {[session |-> events[id].payload.session,
             sequence |-> events[id].payload.sequence, eventId |-> id,
             writer |-> events[id].payload.streamId] :
                id \in {i \in EventIds : Stored(i)}},
    spent <- ClaimedTokens \ {NoToken}

ImplementsEventLog == Journal!Spec

\* A subscriber that keeps asking gets every event stored after its start,
\* unless its stream has ended or it has stopped.
ReaderCatchesUp ==
    \A r \in Readers, id \in EventIds :
        (/\ readers[r].state \in {"reading", "checking"} /\ Stored(id)
         /\ events[id].payload.session = readers[r].session
         /\ events[id].payload.sequence > readers[r].start)
        ~> (\/ readers[r].state \in {"ended", "stopped"}
            \/ \E i \in 1..Len(readers[r].seen) : readers[r].seen[i] = id)
=============================================================================
