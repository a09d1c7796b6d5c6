---------------------------- MODULE DialogueHistory ----------------------------
(***************************************************************************)
(* The history of dialogues, the change feed, and the clients that read    *)
(* both: items with a sequence and a version, the changes published with   *)
(* every new version, forks, the read mark, pages of history, and          *)
(* DialogueEventReader.changes.                                            *)
(*                                                                         *)
(* Every handler takes the advisory writer lock and is one transaction, so *)
(* it is one action.  Reading is not: a page is one transaction, but the   *)
(* next page is a later one, and a subscription reads rows of the feed and *)
(* then, at another time, the items they name.                             *)
(*                                                                         *)
(* External: the client (what it keeps and how it applies a change), as    *)
(* the tests of the GraphQL API use it.  The version of an item stands for *)
(* its text and payload.  The life of a turn is DialogueLifecycle; here    *)
(* QUEUED, RUNNING and WAITING are BUSY, a session binds only an active    *)
(* turn, and events of sessions no longer bound, which change nothing, are *)
(* left out.                                                               *)
(***************************************************************************)
EXTENDS Naturals, Sequences, FiniteSets

CONSTANTS
    Originals,     \* ids of dialogues that are created
    Forks,         \* ids of dialogues that are forked
    Turns,         \* turn ids
    Interactions,  \* ids of agents' requests
    Clients,       \* readers of one dialogue each
    NoTurn,        \* null for a turn id
    NoDialogue,    \* null for a dialogue id
    NoId,          \* null for an item id
    PageSize,      \* items of a page
    BatchSize,     \* rows of the feed read at once (100 in the source)
    MaxVersion,    \* bound on the version of an item
    MaxItems,      \* bound on the items of a dialogue
    MaxFeed        \* bound on the changes published

Dialogues == Originals \cup Forks

ASSUME NullsAssumption  == NoTurn \notin Turns /\ NoDialogue \notin Dialogues
ASSUME SizesAssumption  == PageSize \in Nat \ {0} /\ BatchSize \in Nat \ {0}
ASSUME BoundsAssumption ==
    MaxVersion \in Nat /\ MaxItems \in Nat /\ MaxFeed \in Nat

\* Item ids, unique per dialogue.  A session that closes names the result of
\* its turn differently; a copy in a fork has a new id.
Id == [of : {"user", "assistant", "activity", "result", "closed"}, key : Turns]
      \cup [of : {"interaction"}, key : Interactions]
      \cup [of : {"copy"}, key : Nat]

IdOf(of, key) == [of |-> of, key |-> key]

\* STARTED and IN_PROGRESS are one; so are the statuses of settled operations.
ItemStatus == {"STREAMING", "IN_PROGRESS", "PENDING", "RESPONDING",
               "COMPLETED", "PARTIAL", "INTERRUPTED", "RESOLVED", "ABANDONED"}

Unfinished == {"STREAMING", "IN_PROGRESS", "PENDING", "RESPONDING"}

Item == [dialogue : Dialogues, id : Id, sequence : Nat \ {0}, version : Nat,
         turn : Turns \cup {NoTurn}, status : ItemStatus, historical : BOOLEAN]

\* kind "none": there is no row; session: whether a runtime session is bound.
DialogueRow ==
    [kind : {"none", "new", "fork"}, itemSequence : Nat, read : Nat,
     status : {"READY", "BUSY", "UNCERTAIN"}, turn : Turns \cup {NoTurn},
     session : BOOLEAN, origin : Dialogues \cup {NoDialogue}, originEnd : Nat]

TurnRow == [dialogue : Dialogues \cup {NoDialogue},
            status : {"none", "OPEN", "COMPLETED", "ENDED"}, end : Nat]

Change == [dialogue : Dialogues,
           kind : {"SUMMARY_UPDATED", "HISTORY_ITEM_UPSERTED",
                   "HISTORY_TEXT_APPENDED"},
           id : Id \cup {NoId}, version : Nat]

Version == [id : Id, version : Nat]

\* rows: read from the feed; buffer: with the version of the item found.  Both
\* are gone through in the order of the rows.
Client ==
    [phase : {"idle", "paging", "watching"},
     dialogue : Dialogues \cup {NoDialogue}, after : Nat, upper : Nat,
     snapshot : Nat, observed : Nat, position : Nat, rows : SUBSET Nat,
     buffer : SUBSET [row : Nat, version : Nat], replica : SUBSET Version,
     gap : BOOLEAN]

VARIABLES
    dialogues,     \* the rows
    turns,         \* the turns' rows
    items,         \* the history items
    feed,          \* the changes; positions are their sequence numbers
    significance,  \* per dialogue: what each significantSequence was about
    clients        \* what each client has

history == <<dialogues, turns, items, feed, significance>>
vars    == <<history, clients>>

TypeOK ==
    /\ dialogues \in [Dialogues -> DialogueRow]
    /\ turns \in [Turns -> TurnRow]
    /\ items \subseteq Item
    /\ feed \in Seq(Change)
    /\ significance \in [Dialogues -> Seq(SUBSET Version)]
    /\ clients \in [Clients -> Client]

NoRow == [kind |-> "none", itemSequence |-> 0, read |-> 0, status |-> "READY",
          turn |-> NoTurn, session |-> FALSE, origin |-> NoDialogue,
          originEnd |-> 0]

Idle == [phase |-> "idle", dialogue |-> NoDialogue, after |-> 0, upper |-> 0,
         snapshot |-> 0, observed |-> 0, position |-> 0, rows |-> {},
         buffer |-> {}, replica |-> {}, gap |-> FALSE]

Init ==
    /\ dialogues = [d \in Dialogues |-> NoRow]
    /\ turns = [t \in Turns |->
                  [dialogue |-> NoDialogue, status |-> "none", end |-> 0]]
    /\ items = {}
    /\ feed = <<>>
    /\ significance = [d \in Dialogues |-> <<>>]
    /\ clients = [c \in Clients |-> Idle]

-----------------------------------------------------------------------------
(* Items and changes.                                                      *)

ItemsOf(d)   == {i \in items : i.dialogue = d}
Found(d, id) == {i \in ItemsOf(d) : i.id = id}
NextSequence(d) == dialogues[d].itemSequence + 1

NewItem(d, id, sequence, turn, status, version) ==
    [dialogue |-> d, id |-> id, sequence |-> sequence, version |-> version,
     turn |-> turn, status |-> status, historical |-> FALSE]

\* An update: a status and the next version.
Becomes(set, status) ==
    {[i EXCEPT !.status = status, !.version = @ + 1] : i \in set}

\* The place of an item in a set of items of one dialogue.
Rank(set, i) == Cardinality({j \in set : j.sequence <= i.sequence})

VersionOf(i) == [id |-> i.id, version |-> i.version]

Upsert(i) == [dialogue |-> i.dialogue, kind |-> "HISTORY_ITEM_UPSERTED",
              id |-> i.id, version |-> i.version]
TextAppended(i) == [Upsert(i) EXCEPT !.kind = "HISTORY_TEXT_APPENDED"]
Summary(d) == [dialogue |-> d, kind |-> "SUMMARY_UPDATED", id |-> NoId,
               version |-> 0]

\* One upsert per item, by sequence (compareHistoryItemSequence).
Upserts(set) ==
    [n \in 1..Cardinality(set) |-> Upsert(CHOOSE i \in set : Rank(set, i) = n)]

Publish(changes) ==
    /\ Len(feed) + Len(changes) <= MaxFeed
    /\ feed' = feed \o changes

\* Items old are replaced by set (which may have new ones).
Write(old, set) ==
    /\ items' = (items \ old) \cup set
    /\ \A i \in set : i.version <= MaxVersion /\ i.sequence <= MaxItems

\* significantSequence + 1, on account of these items.
Significant(d, set) ==
    significance' = [significance EXCEPT ![d] =
                        Append(@, {VersionOf(i) : i \in set})]

\* isActiveTurn: the event is of the bound session and of the active turn.
IsActiveTurn(d, t) == dialogues[d].session /\ dialogues[d].turn = t

-----------------------------------------------------------------------------
(* Commands.                                                               *)

Create(d) ==
    /\ dialogues[d].kind = "none"
    /\ dialogues' = [dialogues EXCEPT ![d].kind = "new"]
    /\ Publish(<<Summary(d)>>)
    /\ UNCHANGED <<turns, items, significance, clients>>

\* admitMessage for a command id not seen before.
Send(d, t) ==
    LET user == NewItem(d, IdOf("user", t), NextSequence(d), t, "COMPLETED", 0)
    IN  /\ dialogues[d].kind # "none" /\ dialogues[d].status = "READY"
        /\ dialogues[d].turn = NoTurn /\ turns[t].status = "none"
        /\ turns' = [turns EXCEPT ![t] =
              [dialogue |-> d, status |-> "OPEN", end |-> 0]]
        /\ dialogues' = [dialogues EXCEPT ![d].itemSequence = @ + 1,
                            ![d].turn = t, ![d].status = "BUSY"]
        /\ Write({}, {user})
        /\ Publish(<<Upsert(user), Summary(d)>>)
        /\ UNCHANGED <<significance, clients>>

\* bindRuntime with a new session.
BindSession(d) ==
    /\ dialogues[d].turn # NoTurn /\ ~dialogues[d].session
    /\ dialogues' = [dialogues EXCEPT ![d].session = TRUE]
    /\ Publish(<<Summary(d)>>)
    /\ UNCHANGED <<turns, items, significance, clients>>

\* saveResponse.
Respond(d, i) ==
    \E old \in Found(d, IdOf("interaction", i)) :
        /\ old.status = "PENDING"
        /\ LET new == Becomes({old}, "RESPONDING")
           IN  Write({old}, new) /\ Publish(Upserts(new))
        /\ UNCHANGED <<dialogues, turns, significance, clients>>

\* markRead: no mark ahead of the dialogue, no mark back.
MarkRead(c) ==
    LET me == clients[c]
        d  == me.dialogue
    IN  /\ me.phase = "watching"
        /\ me.observed <= Len(significance[d])
        /\ me.observed > dialogues[d].read
        /\ dialogues' = [dialogues EXCEPT ![d].read = me.observed]
        /\ Publish(<<Summary(d)>>)
        /\ UNCHANGED <<turns, items, significance, clients>>

\* getHistoryPrefix.
Prefix(d, end) == {i \in ItemsOf(d) : i.sequence <= end}

\* Mistake: copies are numbered from 0, as the array is.
CopiesFromZero(prefix, f) ==
    {[i EXCEPT !.dialogue = f, !.turn = NoTurn, !.historical = TRUE,
        !.sequence = Rank(prefix, i) - 1,
        !.id = IdOf("copy", Rank(prefix, i) - 1)] : i \in prefix}

\* copyHistory: copies are numbered from 1 and belong to no turn.
Copies(prefix, f) ==
    {[i EXCEPT !.dialogue = f, !.turn = NoTurn, !.historical = TRUE,
        !.sequence = Rank(prefix, i), !.id = IdOf("copy", Rank(prefix, i))] :
     i \in prefix}

\* Mistake: the fork's own items begin at 1, too.
ForkNotCounting(f, t) ==
    LET d == turns[t].dialogue
        prefix == Prefix(d, turns[t].end)
    IN  /\ dialogues[f].kind = "none" /\ turns[t].status = "COMPLETED"
        /\ dialogues' = [dialogues EXCEPT ![f] = [NoRow EXCEPT
              !.kind = "fork", !.origin = d, !.originEnd = turns[t].end]]
        /\ Write({}, Copies(prefix, f))
        /\ Publish(<<Summary(f)>>)
        /\ UNCHANGED <<turns, significance, clients>>

\* forkDialogue, at the end of a completed turn.
Fork(f, t) ==
    LET d == turns[t].dialogue
        prefix == Prefix(d, turns[t].end)
    IN  /\ dialogues[f].kind = "none" /\ turns[t].status = "COMPLETED"
        /\ dialogues' = [dialogues EXCEPT ![f] = [NoRow EXCEPT
              !.kind = "fork", !.itemSequence = Cardinality(prefix),
              !.origin = d, !.originEnd = turns[t].end]]
        /\ Write({}, Copies(prefix, f))
        /\ Publish(<<Summary(f)>>)
        /\ UNCHANGED <<turns, significance, clients>>

-----------------------------------------------------------------------------
(* Events of the bound session.                                            *)

\* turn.started, agent.progress and session.opened change the row alone.
Progress(d) ==
    /\ dialogues[d].session
    /\ Publish(<<Summary(d)>>)
    /\ UNCHANGED <<dialogues, turns, items, significance, clients>>

\* appendText: a new message begins with version 1.
AppendText(d, t) ==
    LET old == Found(d, IdOf("assistant", t))
        new == IF old = {}
               THEN {NewItem(d, IdOf("assistant", t), NextSequence(d), t,
                             "STREAMING", 1)}
               ELSE {[i EXCEPT !.version = @ + 1] : i \in old}
    IN  /\ IsActiveTurn(d, t)
        /\ dialogues' = IF old = {} THEN [dialogues EXCEPT
                                            ![d].itemSequence = @ + 1]
                        ELSE dialogues
        /\ Write(old, new)
        /\ \E i \in new : Publish(<<TextAppended(i)>>)
        /\ UNCHANGED <<turns, significance, clients>>

\* completeText, of a message that matches; one that has no text is created.
CompleteMessage(d, t) ==
    LET old  == Found(d, IdOf("assistant", t))
        from == IF old # {} THEN old
                ELSE {NewItem(d, IdOf("assistant", t), NextSequence(d), t,
                              "STREAMING", 0)}
        new  == Becomes(from, "COMPLETED")
    IN  /\ IsActiveTurn(d, t)
        /\ dialogues' = IF old = {} THEN [dialogues EXCEPT
                                            ![d].itemSequence = @ + 1]
                        ELSE dialogues
        /\ Write(old, new)
        /\ Publish(Upserts(new))
        /\ UNCHANGED <<turns, significance, clients>>

\* Mistake: activity of a turn that is over is recorded.
RecordLateActivity(d, t, status) ==
    LET old == Found(d, IdOf("activity", t))
        new == IF old = {}
               THEN {NewItem(d, IdOf("activity", t), NextSequence(d), t,
                             status, 0)}
               ELSE Becomes(old, status)
    IN  /\ dialogues[d].session /\ turns[t].dialogue = d
        /\ dialogues' = IF old = {} THEN [dialogues EXCEPT
                                            ![d].itemSequence = @ + 1]
                        ELSE dialogues
        /\ Write(old, new)
        /\ Publish(Upserts(new))
        /\ UNCHANGED <<turns, significance, clients>>

\* recordActivity: a tool call, the plan or the usage of the turn.
RecordActivity(d, t, status) ==
    LET old == Found(d, IdOf("activity", t))
        new == IF old = {}
               THEN {NewItem(d, IdOf("activity", t), NextSequence(d), t,
                             status, 0)}
               ELSE Becomes(old, status)
    IN  /\ IsActiveTurn(d, t)
        /\ dialogues' = IF old = {} THEN [dialogues EXCEPT
                                            ![d].itemSequence = @ + 1]
                        ELSE dialogues
        /\ Write(old, new)
        /\ Publish(Upserts(new))
        /\ UNCHANGED <<turns, significance, clients>>

\* requestInteraction: of the session (turn is null) or of the active turn.
Request(d, i, turn) ==
    LET item == NewItem(d, IdOf("interaction", i), NextSequence(d), turn,
                        "PENDING", 0)
    IN  /\ dialogues[d].session /\ turn \in {NoTurn, dialogues[d].turn}
        /\ \A e \in Dialogues : Found(e, item.id) = {}
        /\ dialogues' = [dialogues EXCEPT ![d].itemSequence = @ + 1,
                                          ![d].status = "BUSY"]
        /\ Write({}, {item})
        /\ Significant(d, {item})
        /\ Publish(<<Upsert(item), Summary(d)>>)
        /\ UNCHANGED <<turns, clients>>

\* The items that wait for an answer.
Pending(d) == {i \in ItemsOf(d) : /\ ~i.historical
                                  /\ i.status \in {"PENDING", "RESPONDING"}}

\* resolveInteraction.
Resolve(d, i) ==
    \E old \in Found(d, IdOf("interaction", i)) \cap Pending(d) :
        LET new == Becomes({old}, "RESOLVED")
        IN  /\ dialogues[d].session
            /\ dialogues' = [dialogues EXCEPT ![d].status =
                  IF Pending(d) \ {old} = {} /\ dialogues[d].turn = NoTurn
                  THEN "READY" ELSE "BUSY"]
            /\ Write({old}, new)
            /\ Significant(d, new)
            /\ Publish(Append(Upserts(new), Summary(d)))
            /\ UNCHANGED <<turns, clients>>

-----------------------------------------------------------------------------
(* The end of a turn, a session, or both.                                  *)

Streaming(d, t) == {i \in Found(d, IdOf("assistant", t)) :
                        i.status = "STREAMING"}

Running(d) == {i \in ItemsOf(d) : ~i.historical /\ i.status = "IN_PROGRESS"}

Of(set, t) == {i \in set : i.turn = t}

\* Mistake: answers that a fork has copied as awaited are abandoned, too.
FinalizedWithCopies(d, t, interactions, activities) ==
    LET copied == {i \in ItemsOf(d) : i.historical /\ i.status = "PENDING"}
    IN  Becomes(Streaming(d, t), "PARTIAL")
        \cup Becomes(activities, "INTERRUPTED")
        \cup Becomes(interactions \cup copied, "ABANDONED")

\* What is left unfinished gets its last status.
Finalized(d, t, interactions, activities) ==
    Becomes(Streaming(d, t), "PARTIAL")
    \cup Becomes(activities, "INTERRUPTED")
    \cup Becomes(interactions, "ABANDONED")

\* A message is published before the other items; the result comes last, except
\* in close-dialogue-session.
EndChanges(final, result, resultFirst) ==
    LET message == {i \in final : i.id.of = "assistant"}
        others  == Upserts(final \ message)
    IN  Upserts(message)
        \o (IF resultFirst THEN <<Upsert(result)>> \o others
                           ELSE Append(others, Upsert(result)))
        \o <<Summary(result.dialogue)>>

\* The turn's result, and a dialogue that goes on as row says.
EndTurn(d, t, id, status, row, interactions, activities, resultFirst) ==
    LET final  == Finalized(d, t, interactions, activities)
        result == NewItem(d, id, NextSequence(d), t, "COMPLETED", 0)
    IN  /\ turns' = [turns EXCEPT ![t].status = status,
                                  ![t].end = NextSequence(d)]
        /\ dialogues' = [dialogues EXCEPT ![d] =
              [row EXCEPT !.turn = NoTurn, !.itemSequence = @ + 1]]
        /\ Write({i \in ItemsOf(d) : i.id \in {f.id : f \in final}},
                 final \cup {result})
        /\ Significant(d, final \cup {result})
        /\ Publish(EndChanges(final, result, resultFirst))
        /\ UNCHANGED clients

\* completeTurn: interactions of the session stay.
CompleteTurn(d, t, status) ==
    LET mine == Of(Pending(d), t)
    IN  /\ IsActiveTurn(d, t)
        /\ EndTurn(d, t, IdOf("result", t), status,
                   [dialogues[d] EXCEPT !.status =
                       IF Pending(d) = mine THEN "READY" ELSE "BUSY"],
                   mine, Of(Running(d), t), FALSE)

\* interruptTurn, with an outcome that is certain or not.
InterruptTurn(d, t, status) ==
    /\ dialogues[d].turn = t /\ turns[t].status = "OPEN"
    /\ EndTurn(d, t, IdOf("result", t), "ENDED",
               [dialogues[d] EXCEPT !.status = status, !.session = FALSE],
               Pending(d), Of(Running(d), t), FALSE)

\* closeActiveSession.
CloseActive(d, t) ==
    /\ IsActiveTurn(d, t)
    /\ EndTurn(d, t, IdOf("closed", t), "ENDED",
               [dialogues[d] EXCEPT !.status = "READY", !.session = FALSE],
               Pending(d), Running(d), TRUE)

\* The end of an idle session: closeIdleSession, or detachIdleRuntime after a
\* restart, where a dialogue becomes uncertain if an answer was awaited.
CloseIdle(d, restarted) ==
    LET final == Becomes(Pending(d), "ABANDONED")
    IN  /\ dialogues[d].session /\ dialogues[d].turn = NoTurn
        /\ dialogues' = [dialogues EXCEPT ![d].session = FALSE,
              ![d].status = IF ~restarted THEN "READY"
                            ELSE IF final # {} THEN "UNCERTAIN" ELSE @]
        /\ Write(Pending(d), final)
        /\ IF final = {} THEN UNCHANGED significance ELSE Significant(d, final)
        /\ Publish(Append(Upserts(final), Summary(d)))
        /\ UNCHANGED <<turns, clients>>

\* responseDeliveryFailed with no turn active, then or now.
FailResponse(d, i) ==
    \E old \in Found(d, IdOf("interaction", i)) :
        LET new == Becomes({old}, "ABANDONED")
        IN  /\ old.status = "RESPONDING" /\ old.turn = NoTurn
            /\ dialogues[d].session /\ dialogues[d].turn = NoTurn
            /\ dialogues' = [dialogues EXCEPT ![d].session = FALSE,
                                              ![d].status = "UNCERTAIN"]
            /\ Write({old}, new)
            /\ Significant(d, new)
            /\ Publish(Append(Upserts(new), Summary(d)))
            /\ UNCHANGED <<turns, clients>>

\* reopenDialogue: interactions are abandoned, a message stays in part.
Reopen(d) ==
    LET open  == {i \in ItemsOf(d) : ~i.historical /\ i.status \in Unfinished}
        works == open \ Pending(d)
        texts == {i \in works : i.id.of = "assistant"}
        final == Becomes(texts, "PARTIAL")
                 \cup Becomes(works \ texts, "INTERRUPTED")
                 \cup Becomes(Pending(d), "ABANDONED")
    IN  /\ dialogues[d].status = "UNCERTAIN"
        /\ dialogues' = [dialogues EXCEPT ![d].status = "READY"]
        /\ Write(open, final)
        /\ Publish(Append(Upserts(final), Summary(d)))
        /\ UNCHANGED <<turns, significance, clients>>

-----------------------------------------------------------------------------
(* Clients.                                                                *)

\* Mistake: every page has a snapshot of its own.
PageContextAfresh(c, d) ==
    [upper |-> dialogues[d].itemSequence, snapshot |-> Len(feed),
     observed |-> Len(significance[d])]

\* Mistake: the page says what has been observed by now.
PageContextObservingNow(c, d) ==
    IF clients[c].phase = "paging"
    THEN [upper |-> clients[c].upper, snapshot |-> clients[c].snapshot,
          observed |-> Len(significance[d])]
    ELSE [upper |-> dialogues[d].itemSequence, snapshot |-> Len(feed),
          observed |-> Len(significance[d])]

\* dialoguePageContext: the first page's context goes on in the cursors.
PageContext(c, d) ==
    IF clients[c].phase = "paging"
    THEN [upper |-> clients[c].upper, snapshot |-> clients[c].snapshot,
          observed |-> clients[c].observed]
    ELSE [upper |-> dialogues[d].itemSequence, snapshot |-> Len(feed),
          observed |-> Len(significance[d])]

\* listHistory; after the last page the client subscribes at the snapshot.
ListHistory(c, d) ==
    LET me      == clients[c]
        context == PageContext(c, d)
        rest    == {i \in ItemsOf(d) : /\ i.sequence > me.after
                                       /\ i.sequence <= context.upper}
        page    == {i \in rest : Rank(rest, i) <= PageSize}
    IN  /\ dialogues[d].kind # "none"
        /\ \/ me.phase = "idle"
           \/ me.phase = "paging" /\ me.dialogue = d
        /\ clients' = [clients EXCEPT ![c] = [me EXCEPT
              !.phase = IF page = rest THEN "watching" ELSE "paging",
              !.dialogue = d, !.upper = context.upper,
              !.snapshot = context.snapshot, !.observed = context.observed,
              !.after = IF page = rest THEN 0
                        ELSE me.after + Cardinality(page),
              !.position = context.snapshot,
              !.replica = @ \cup {VersionOf(i) : i \in page}]]
        /\ UNCHANGED history

\* The rows of the feed that are the client's to see.
Ahead(c) == {n \in 1..Len(feed) : /\ n > clients[c].position
                                  /\ feed[n].dialogue = clients[c].dialogue}

\* Mistake: the rows are taken from the end of the feed.
RowsFromTheEnd(c) ==
    {n \in Ahead(c) : Cardinality({m \in Ahead(c) : m >= n}) <= BatchSize}

\* findMany: the first rows behind the position.
Rows(c) ==
    {n \in Ahead(c) : Cardinality({m \in Ahead(c) : m <= n}) <= BatchSize}

FetchRows(c) ==
    LET me == clients[c]
    IN  /\ me.phase = "watching" /\ me.rows = {} /\ me.buffer = {}
        /\ Ahead(c) # {}
        /\ clients' = [clients EXCEPT ![c].rows = Rows(c)]
        /\ UNCHANGED history

\* The items the rows name, as they are by now; null for other rows.
LoadedVersion(c, n) ==
    IF feed[n].kind # "HISTORY_ITEM_UPSERTED" THEN 0
    ELSE (CHOOSE i \in Found(clients[c].dialogue, feed[n].id) : TRUE).version

LoadItems(c) ==
    LET me == clients[c]
    IN  /\ me.rows # {}
        /\ clients' = [clients EXCEPT ![c].rows = {},
              ![c].buffer = {[row |-> n, version |-> LoadedVersion(c, n)] :
                                n \in me.rows}]
        /\ UNCHANGED history

Known(c, id) == {v \in clients[c].replica : v.id = id}

\* What a client makes of a change: text goes on a version it has, or begins
\* an item; an item replaces one that is not newer; older changes are ignored.
Applied(c, change, version) ==
    LET known == Known(c, change.id)
        new   == IF change.kind = "HISTORY_ITEM_UPSERTED" THEN version
                 ELSE change.version
    IN  IF change.kind = "SUMMARY_UPDATED"
           \/ \E v \in known : v.version >= new
        THEN clients[c].replica
        ELSE (clients[c].replica \ known)
             \cup {[id |-> change.id, version |-> new]}

\* Text that does not go on what the client has.
LeavesGap(c, change) ==
    /\ change.kind = "HISTORY_TEXT_APPENDED"
    /\ IF Known(c, change.id) = {} THEN change.version # 1
       ELSE \E v \in Known(c, change.id) : v.version < change.version - 1

\* next(): the change at the front, which the client applies.
Deliver(c) ==
    LET me == clients[c]
    IN  \E first \in me.buffer :
          /\ \A other \in me.buffer : first.row <= other.row
          /\ clients' = [clients EXCEPT ![c] = [me EXCEPT
                !.position = first.row, !.buffer = @ \ {first},
                !.replica = Applied(c, feed[first.row], first.version),
                !.gap = me.gap \/ LeavesGap(c, feed[first.row])]]
          /\ UNCHANGED history

\* return(), or the connection is lost; the client subscribes again behind
\* the last change it has got.
Reconnect(c) ==
    /\ clients[c].rows # {} \/ clients[c].buffer # {}
    /\ clients' = [clients EXCEPT ![c].rows = {}, ![c].buffer = {}]
    /\ UNCHANGED history

-----------------------------------------------------------------------------

Command(d) ==
    \/ d \in Originals /\ Create(d)
    \/ BindSession(d) \/ Reopen(d)
    \/ \E t \in Turns : Send(d, t) \/ (d \in Forks /\ Fork(d, t))
    \/ \E i \in Interactions : Respond(d, i) \/ FailResponse(d, i)

SessionEvent(d) ==
    \/ Progress(d)
    \/ \E t \in Turns :
          \/ AppendText(d, t) \/ CompleteMessage(d, t)
          \/ \E status \in {"IN_PROGRESS", "COMPLETED"} :
                RecordActivity(d, t, status)
    \/ \E i \in Interactions :
          \/ Request(d, i, NoTurn) \/ Resolve(d, i)
          \/ dialogues[d].turn # NoTurn /\ Request(d, i, dialogues[d].turn)

Ending(d) ==
    \/ \E t \in Turns :
          \/ \E status \in {"COMPLETED", "ENDED"} : CompleteTurn(d, t, status)
          \/ \E status \in {"READY", "UNCERTAIN"} : InterruptTurn(d, t, status)
          \/ CloseActive(d, t)
    \/ \E restarted \in BOOLEAN : CloseIdle(d, restarted)

Read(c) ==
    \/ \E d \in Dialogues : ListHistory(c, d)
    \/ FetchRows(c) \/ LoadItems(c) \/ Deliver(c) \/ Reconnect(c)
    \/ MarkRead(c)

Next ==
    \/ \E d \in Dialogues : Command(d) \/ SessionEvent(d) \/ Ending(d)
    \/ \E c \in Clients : Read(c)

Spec == Init /\ [][Next]_vars

-----------------------------------------------------------------------------
(* Properties.                                                             *)

\* Each dialogue numbers its items 1, 2, ..., itemSequence, and names none of
\* them twice, though handlers, results and forks take numbers in different
\* ways; a turn has one result, under either of its names, at its end.
OneSequencePerDialogue ==
    /\ \A d \in Dialogues :
          /\ {i.sequence : i \in ItemsOf(d)} = 1..dialogues[d].itemSequence
          /\ Cardinality(ItemsOf(d)) = dialogues[d].itemSequence
          /\ Cardinality({i.id : i \in ItemsOf(d)}) = dialogues[d].itemSequence
    /\ \A t \in Turns :
          {i.sequence : i \in {j \in items : j.turn = t
                                  /\ j.id.of \in {"result", "closed"}}}
              = IF turns[t].status \in {"none", "OPEN"} THEN {}
                ELSE {turns[t].end}

\* Nothing of a settled turn stays unfinished or follows its result, and a
\* dialogue that is READY shows nothing unfinished at all; copies in a fork
\* are history and do not count.
NothingLeftOpen ==
    \A i \in items : ~i.historical =>
        /\ i.status \in Unfinished => dialogues[i.dialogue].status # "READY"
        /\ i.turn # NoTurn /\ turns[i.turn].status \in {"COMPLETED", "ENDED"}
              => i.status \notin Unfinished /\ i.sequence <= turns[i.turn].end

\* A fork begins with exactly its origin's items up to the end of the turn it
\* was made at, and these copies never change, whatever ends in the fork.
CopiesOf(f) == {i \in ItemsOf(f) : i.historical}

ForkKeepsItsPrefix ==
    [][\A f \in Dialogues :
          /\ dialogues[f].kind = "none" /\ dialogues'[f].kind = "fork" =>
                {[i EXCEPT !.id = NoId, !.turn = NoTurn, !.historical = TRUE,
                           !.dialogue = f] :
                    i \in {j \in ItemsOf(dialogues'[f].origin) :
                              j.sequence <= dialogues'[f].originEnd}}
                = {[i EXCEPT !.id = NoId] : i \in {j \in items' :
                              j.dialogue = f}}
          /\ dialogues[f].kind # "none" => CopiesOf(f) \subseteq items']_vars

\* A client that has loaded the pages and applied the changes behind their
\* snapshot has what the dialogue has, though the pages are of different
\* times, items are newer than the changes that name them, and connections
\* break.
ReplicaMatches ==
    \A c \in Clients :
        clients[c].phase = "watching" /\ clients[c].rows = {}
            /\ clients[c].buffer = {} /\ Ahead(c) = {}
        => clients[c].replica = {VersionOf(i) : i \in ItemsOf(clients[c].dialogue)}

\* No client is ever given text that does not go on the text it has.
TextGoesOn == \A c \in Clients : ~clients[c].gap

\* The read mark goes only forward, and over nothing that the client moving it
\* has not been shown in that version or a later one.
NothingReadUnseen ==
    [][\A d \in Dialogues : dialogues'[d].read # dialogues[d].read =>
          /\ dialogues'[d].read > dialogues[d].read
          /\ \E c \in Clients :
                /\ clients[c].dialogue = d
                /\ clients[c].observed = dialogues'[d].read
                /\ \A n \in 1..dialogues'[d].read :
                      \A v \in significance[d][n] :
                          \E w \in clients[c].replica :
                              w.id = v.id /\ w.version >= v.version]_vars
=============================================================================
