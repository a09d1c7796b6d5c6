------------------------ MODULE DialogueHistoryProofs ------------------------
(***************************************************************************)
(* Items are numbered without gap and named once, endings leave nothing    *)
(* unfinished, forks keep their prefix, and clients end with what is       *)
(* there, for every value of the constants.                                *)
(*                                                                         *)
(* Every handler edits the items of one dialogue: it renews some, keeping  *)
(* what identifies them, and adds one at most, behind the others.  It      *)
(* tells the feed of exactly what it renewed or added.  A fork copies a    *)
(* prefix instead.                                                         *)
(***************************************************************************)
EXTENDS DialogueHistory, FiniteSetTheorems, FunctionTheorems, SequenceTheorems,
        TLAPS

-----------------------------------------------------------------------------
(* The inductive invariant of the tables.                                  *)

Settled == {"COMPLETED", "ENDED"}
Results == {"result", "closed"}

\* A dialogue points at its open turn, is BUSY while it has one, and ends the
\* turn within its items; one that is not there yet is empty.
RowsAgree ==
    /\ \A d \in Dialogues :
          /\ dialogues[d].kind = "none" => dialogues[d] = NoRow
          /\ dialogues[d].turn # NoTurn =>
                /\ dialogues[d].status = "BUSY"
                /\ turns[dialogues[d].turn].status = "OPEN"
                /\ turns[dialogues[d].turn].dialogue = d
    /\ \A t \in Turns :
          /\ turns[t].status # "none" =>
                /\ turns[t].dialogue \in Dialogues
                /\ dialogues[turns[t].dialogue].kind # "none"
          /\ turns[t].status = "OPEN" => dialogues[turns[t].dialogue].turn = t
          /\ turns[t].status \in Settled =>
                turns[t].end \in 1..dialogues[turns[t].dialogue].itemSequence

\* The items of a dialogue are numbered 1, 2, ..., itemSequence.
Numbered ==
    /\ \A i, j \in items :
          i.dialogue = j.dialogue /\ (i.sequence = j.sequence \/ i.id = j.id)
          => i = j
    /\ \A i \in items : i.sequence <= dialogues[i.dialogue].itemSequence
    /\ \A d \in Dialogues : \A n \in 1..dialogues[d].itemSequence :
          \E i \in items : i.dialogue = d /\ i.sequence = n

\* What an item is named after: a copy after its place, an item of a turn after
\* the turn, which belongs to the same dialogue.
NamedWell(i) ==
    /\ i.historical <=> i.id.of = "copy"
    /\ i.historical => i.turn = NoTurn
    /\ i.id.of \notin {"copy", "interaction"} => i.turn = i.id.key
    /\ i.turn # NoTurn => /\ turns[i.turn].status # "none"
                          /\ turns[i.turn].dialogue = i.dialogue

Named == \A i \in items : NamedWell(i)

\* A turn has a result when it is settled, and it is the end of the turn.
EndsItsTurn(i) ==
    i.id.of \in Results =>
        turns[i.turn].status \in Settled /\ i.sequence = turns[i.turn].end

ResultsEnd ==
    /\ \A i \in items : EndsItsTurn(i)
    /\ \A t \in Turns : turns[t].status \in Settled =>
          \E i \in items : i.turn = t /\ i.id.of \in Results

\* Text and activity are unfinished only while their turn is open, and so are
\* questions of a turn; other questions keep their dialogue from being READY.
Works(i) ==
    ~i.historical =>
        /\ i.status = "STREAMING" => i.id.of = "assistant"
        /\ i.status = "IN_PROGRESS" => i.id.of = "activity"
        /\ i.status \in {"PENDING", "RESPONDING"} =>
              i.id.of = "interaction" /\ dialogues[i.dialogue].status # "READY"
        /\ i.turn # NoTurn /\ turns[i.turn].status \in Settled =>
              i.status \notin Unfinished /\ i.sequence <= turns[i.turn].end

OpenWork == \A i \in items : Works(i)

TableInv == RowsAgree /\ Numbered /\ Named /\ ResultsEnd /\ OpenWork

-----------------------------------------------------------------------------
(* The inductive invariant of the feed.                                    *)

\* The row n of the feed is about this version of an item of d.
Tells(n, d, id) ==
    /\ feed[n].kind # "SUMMARY_UPDATED"
    /\ feed[n].dialogue = d /\ feed[n].id = id

\* Rows name items, in versions these have had; the version an item has is
\* told; and text is told after the version it goes on.
FeedInv ==
    /\ \A n \in 1..Len(feed) : feed[n].kind # "SUMMARY_UPDATED" =>
          \E i \in items : /\ i.dialogue = feed[n].dialogue
                           /\ i.id = feed[n].id
                           /\ i.version >= feed[n].version
    /\ \A i \in items : ~i.historical =>
          \E n \in 1..Len(feed) : /\ Tells(n, i.dialogue, i.id)
                          /\ feed[n].version = i.version
    /\ \A n \in 1..Len(feed) : feed[n].kind = "HISTORY_TEXT_APPENDED" =>
          \/ feed[n].version = 1
          \/ \E m \in 1..n - 1 :
                /\ Tells(m, feed[n].dialogue, feed[n].id)
                /\ feed[m].version = feed[n].version - 1

\* What was significant was about items, in versions these have had.
SignificanceInv ==
    \A d \in Dialogues : \A n \in 1..Len(significance[d]) :
        \A v \in significance[d][n] :
            \E i \in ItemsOf(d) : i.id = v.id /\ i.version >= v.version

-----------------------------------------------------------------------------
(* The inductive invariant of the clients.                                 *)

\* A client has been given an item in this version or a later one.
Given(c, id, version) ==
    \E v \in clients[c].replica : v.id = id /\ v.version >= version

\* How far the pages have come.
Reached(c) == IF clients[c].phase = "watching" THEN clients[c].upper
              ELSE clients[c].after

\* An item of the first pages: the client has it as soon as its page is read.
Paged(c, id, version) ==
    \E i \in ItemsOf(clients[c].dialogue) :
        /\ i.id = id /\ i.version >= version
        /\ i.sequence <= clients[c].upper
        /\ i.sequence <= Reached(c) => Given(c, id, version)

\* What a client has is one version of each item it has reached, and no later
\* one than there is.
ReplicaOfItems(c) ==
    /\ \A v, w \in clients[c].replica : v.id = w.id => v = w
    /\ \A v \in clients[c].replica : \E i \in ItemsOf(clients[c].dialogue) :
          /\ i.id = v.id /\ i.version >= v.version
          /\ clients[c].phase = "paging" => i.sequence <= clients[c].after

\* The context of the pages: what it says of feed, copies and significance is
\* true of the items up to the upper bound.
ContextHolds(c) ==
    LET me == clients[c]
    IN  /\ dialogues[me.dialogue].kind # "none"
        /\ me.upper <= dialogues[me.dialogue].itemSequence
        /\ me.snapshot <= Len(feed) /\ me.observed <= Len(significance[me.dialogue])
        /\ me.after <= me.upper
        /\ \A n \in 1..me.snapshot :
              feed[n].kind # "SUMMARY_UPDATED" /\ feed[n].dialogue = me.dialogue
              => Paged(c, feed[n].id, feed[n].version)
        /\ \A i \in ItemsOf(me.dialogue) :
              i.historical => Paged(c, i.id, i.version)
        /\ \A n \in 1..me.observed : \A v \in significance[me.dialogue][n] :
              Paged(c, v.id, v.version)

\* A client that watches has what the rows up to its position tell; what it
\* has fetched are the next rows, with items that are not older.
Watches(c) ==
    LET me == clients[c]
    IN  /\ me.position <= Len(feed)
        /\ \A n \in 1..me.position :
              feed[n].kind # "SUMMARY_UPDATED" /\ feed[n].dialogue = me.dialogue
              => Given(c, feed[n].id, feed[n].version)
        /\ \A n \in me.rows : n \in Ahead(c)
        /\ \A n \in me.rows : \A m \in Ahead(c) : m < n => m \in me.rows
        /\ \A b \in me.buffer :
              /\ b.row \in Ahead(c)
              /\ feed[b.row].kind = "HISTORY_ITEM_UPSERTED" =>
                    /\ b.version >= feed[b.row].version
                    /\ \E i \in ItemsOf(me.dialogue) :
                          i.id = feed[b.row].id /\ i.version >= b.version
        /\ \A b \in me.buffer : \A m \in Ahead(c) :
              m < b.row => \E o \in me.buffer : o.row = m
        /\ \A b, o \in me.buffer : b.row = o.row => b = o
        /\ me.rows = {} \/ me.buffer = {}

ClientHolds(c) ==
    /\ clients[c].phase = "idle" => clients[c] = Idle
    /\ clients[c].phase # "idle" =>
          clients[c].dialogue \in Dialogues /\ ContextHolds(c)
    /\ ReplicaOfItems(c)
    /\ clients[c].phase = "watching" => Watches(c)
    /\ clients[c].phase = "paging" =>
          clients[c].rows = {} /\ clients[c].buffer = {}
    /\ ~clients[c].gap

ClientInv == \A c \in Clients : ClientHolds(c)

-----------------------------------------------------------------------------
(* Counting.                                                               *)

\* No two items of the set have the same sequence.
Distinct(set) == \A i, j \in set : i.sequence = j.sequence => i = j

\* Items that are numbered from first to last are as many as that.
LEMMA CountOfNumbered ==
    ASSUME NEW set \in SUBSET Item, Distinct(set), NEW first \in Nat,
           NEW last \in Nat, first <= last + 1,
           \A i \in set : i.sequence \in first..last,
           \A n \in first..last : \E i \in set : i.sequence = n
    PROVE  IsFiniteSet(set) /\ Cardinality(set) = last - first + 1
<1>. DEFINE f == [i \in set |-> i.sequence]
<1>1. f \in [set -> first..last]
    OBVIOUS
<1>2. f \in Injection(set, first..last)
    <2>1. \A i, j \in set : f[i] = f[j] => i = j
        BY DEF Distinct
    <2>. QED
        BY <1>1, <2>1, Fun_IsInj
<1>3. f \in Surjection(set, first..last)
    <2>1. \A n \in first..last : \E i \in set : f[i] = n
        OBVIOUS
    <2>. QED
        BY <1>1, <2>1, Fun_IsSurj
<1>4. /\ IsFiniteSet(first..last)
      /\ Cardinality(first..last) = last - first + 1
    BY FS_Interval
<1>. HIDE DEF f
<1>. QED
    BY <1>2, <1>3, <1>4, FS_Injection

\* In a set that is numbered from first on, a rank is a sequence number.
LEMMA RankOfNumbered ==
    ASSUME NEW set \in SUBSET Item, Distinct(set), NEW first \in Nat \ {0},
           NEW last \in Nat,
           \A i \in set : i.sequence \in first..last,
           \A n \in first..last : \E i \in set : i.sequence = n,
           NEW i \in set
    PROVE  Rank(set, i) = i.sequence - first + 1
<1>. DEFINE below == {j \in set : j.sequence <= i.sequence}
<1>1. i.sequence \in Nat /\ first <= i.sequence /\ i.sequence <= last
    BY DEF Item
<1>2. Distinct(below) /\ below \in SUBSET Item
    BY DEF Distinct
<1>3. \A j \in below : j.sequence \in first..i.sequence
    BY <1>1 DEF Item
<1>4. \A n \in first..i.sequence : \E j \in below : j.sequence = n
    BY <1>1
<1>5. first <= i.sequence + 1
    BY <1>1
<1>. HIDE DEF below
<1>6. Cardinality(below) = i.sequence - first + 1
    BY <1>1, <1>2, <1>3, <1>4, <1>5, CountOfNumbered
<1>. QED
    BY <1>6 DEF Rank, below

\* Ranks are 1, 2, ... up to the number of items, each of one item.
LEMMA Ranking ==
    ASSUME NEW set \in SUBSET Item, IsFiniteSet(set), Distinct(set)
    PROVE  /\ Cardinality(set) \in Nat
           /\ \A i \in set : Rank(set, i) \in 1..Cardinality(set)
           /\ \A i, j \in set : Rank(set, i) = Rank(set, j) => i = j
           /\ \A n \in 1..Cardinality(set) :
                 \E i \in set : Rank(set, i) = n
<1>. DEFINE below(i) == {j \in set : j.sequence <= i.sequence}
            f == [i \in set |-> Rank(set, i)]
            count == Cardinality(set)
<1>1. count \in Nat
    BY FS_CardinalityType
<1>2. \A i \in set : IsFiniteSet(below(i)) /\ Cardinality(below(i)) <= count
    BY FS_Subset
<1>3. \A i \in set : Cardinality(below(i)) \in Nat
    BY <1>2, FS_CardinalityType
<1>4. \A i \in set : Cardinality(below(i)) # 0
    <2>. TAKE i \in set
    <2>1. i \in below(i)
        BY DEF Item
    <2>. QED
        BY <2>1, <1>2, FS_EmptySet
<1>5. \A i, j \in set :
          i.sequence < j.sequence => Rank(set, i) # Rank(set, j)
    <2>. SUFFICES ASSUME NEW i \in set, NEW j \in set,
                         i.sequence < j.sequence
                  PROVE  Cardinality(below(i)) # Cardinality(below(j))
        BY DEF Rank
    <2>1. below(i) \in SUBSET below(j)
        BY DEF Item
    <2>2. j \in below(j) /\ j \notin below(i)
        BY DEF Item
    <2>3. IsFiniteSet(below(j))
        BY <1>2
    <2>. QED
        BY <2>1, <2>2, <2>3, FS_Subset
<1>6. \A i \in set : f[i] \in 1..count
    BY <1>1, <1>2, <1>3, <1>4 DEF Rank
<1>7. \A i, j \in set : f[i] = f[j] => i = j
    <2>. SUFFICES ASSUME NEW i \in set, NEW j \in set, f[i] = f[j]
                  PROVE  i = j
        OBVIOUS
    <2>1. i.sequence \in Nat /\ j.sequence \in Nat
        BY DEF Item
    <2>2. ~(i.sequence < j.sequence) /\ ~(j.sequence < i.sequence)
        BY <1>5
    <2>3. i.sequence = j.sequence
        BY <2>1, <2>2
    <2>. QED
        BY <2>3 DEF Distinct
<1>8. f \in Injection(set, 1..count)
    <2>1. f \in [set -> 1..count]
        BY <1>6
    <2>. QED
        BY <2>1, <1>7, Fun_IsInj
<1>9. IsFiniteSet(1..count) /\ Cardinality(1..count) = count
    BY <1>1, FS_Interval
<1>10. f \in Surjection(set, 1..count)
    <2>. HIDE DEF f
    <2>. QED
        BY <1>8, <1>9, FS_Injection
<1>11. \A n \in 1..count : \E i \in set : f[i] = n
    <2>. HIDE DEF f
    <2>. QED
        BY <1>10 DEF Surjection
<1>. QED
    BY <1>1, <1>6, <1>7, <1>11

-----------------------------------------------------------------------------
(* Edits of the items of one dialogue.                                     *)

\* What an update keeps of an item.
Same(i, j) ==
    /\ j.dialogue = i.dialogue /\ j.id = i.id /\ j.sequence = i.sequence
    /\ j.turn = i.turn /\ j.historical = i.historical

\* new has the next version of each item of old.
Renews(d, old, new) ==
    /\ old \in SUBSET ItemsOf(d) /\ new \in SUBSET Item
    /\ \A i \in old : ~i.historical /\ \E j \in new : Same(i, j)
    /\ \A j \in new : \E i \in old : Same(i, j) /\ j.version = i.version + 1
    /\ \A j, k \in new : j.id = k.id => j = k

\* added has nothing, or an item with the next sequence and a name not used.
Adds(d, added) ==
    \/ /\ added = {}
       /\ dialogues'[d].itemSequence = dialogues[d].itemSequence
    \/ \E item \in Item :
          /\ added = {item} /\ item.dialogue = d /\ ~item.historical
          /\ item.sequence = NextSequence(d) /\ Found(d, item.id) = {}
          /\ dialogues'[d].itemSequence = NextSequence(d)

Edits(d, old, new, added) ==
    /\ Renews(d, old, new) /\ Adds(d, added)
    /\ items' = (items \ old) \cup (new \cup added)
    /\ \A e \in Dialogues \ {d} : dialogues'[e] = dialogues[e]

\* An item is the only one of its name.
LEMMA OneOfItsName ==
    ASSUME Numbered, NEW i \in items, NEW j \in items,
           i.dialogue = j.dialogue, i.id = j.id
    PROVE  i = j
BY DEF Numbered

\* What two items have been renewed to is the same only for one item.
LEMMA SameIsOne ==
    ASSUME Numbered, NEW i \in items, NEW j \in items, NEW k, NEW l,
           Same(i, k), Same(j, l), k.dialogue = l.dialogue,
           k.sequence = l.sequence \/ k.id = l.id
    PROVE  i = j
<1>1. /\ i.dialogue = j.dialogue
      /\ i.sequence = j.sequence \/ i.id = j.id
    <2>1. i.dialogue = k.dialogue /\ i.sequence = k.sequence /\ i.id = k.id
        BY DEF Same
    <2>2. j.dialogue = l.dialogue /\ j.sequence = l.sequence /\ j.id = l.id
        BY DEF Same
    <2>. QED
        BY <2>1, <2>2
<1>. QED
    BY <1>1 DEF Numbered

\* The rows and the items are of their types.
TablesTyped ==
    /\ dialogues \in [Dialogues -> DialogueRow]
    /\ turns \in [Turns -> TurnRow]
    /\ items \subseteq Item

\* Every item is still there, in this version or the next.
LEMMA EditKeeps ==
    ASSUME TablesTyped, Numbered, NEW d \in Dialogues,
           NEW old, NEW new, NEW added, Edits(d, old, new, added)
    PROVE  /\ items' \subseteq Item
           /\ \A i \in items : \E j \in items' :
                 Same(i, j) /\ j.version >= i.version
           /\ \A i \in items : i.historical => i \in items'
           /\ \A j \in items' : \/ j \in added
                                \/ \E i \in items : Same(i, j)
<1>. USE DEF TablesTyped
<1>1. old \subseteq items /\ new \subseteq Item /\ added \subseteq Item
    BY DEF Edits, Renews, Adds, ItemsOf
<1>2. items' \subseteq Item
    BY <1>1 DEF Edits
<1>3. ASSUME NEW i \in items
      PROVE  \E j \in items' : Same(i, j) /\ j.version >= i.version
    <2>0. i.version \in Nat
        BY DEF Item
    <2>1. CASE i \in old
        <3>1. PICK j \in new : Same(i, j)
            BY <2>1 DEF Edits, Renews
        <3>2. PICK k \in old : Same(k, j) /\ j.version = k.version + 1
            BY DEF Edits, Renews
        <3>3. k = i
            BY <1>1, <3>1, <3>2, SameIsOne
        <3>. QED
            BY <2>0, <3>1, <3>2, <3>3 DEF Edits
    <2>2. CASE i \notin old
        BY <2>0, <2>2 DEF Edits, Same
    <2>. QED
        BY <2>1, <2>2
<1>4. ASSUME NEW i \in items, i.historical
      PROVE  i \in items'
    BY <1>4 DEF Edits, Renews
<1>5. ASSUME NEW j \in items', j \notin added
      PROVE  \E i \in items : Same(i, j)
    BY <1>1, <1>5 DEF Edits, Renews, Same
<1>. QED
    BY <1>2, <1>3, <1>4, <1>5

\* Two items of an edited dialogue differ in sequence and name.
LEMMA EditNumbers ==
    ASSUME TablesTyped, Numbered, NEW d \in Dialogues,
           NEW old, NEW new, NEW added, Edits(d, old, new, added)
    PROVE  Numbered'
<1>. USE DEF TablesTyped
<1>1. old \subseteq items /\ new \subseteq Item
    BY DEF Edits, Renews, ItemsOf
<1>2. \A e \in Dialogues : dialogues[e].itemSequence \in Nat
    BY DEF DialogueRow
<1>3. \A i \in Item : i.dialogue \in Dialogues /\ i.sequence \in Nat \ {0}
    BY DEF Item
<1>4. \A j \in items' : \/ j \in added
                        \/ \E i \in items : Same(i, j)
    BY EditKeeps
<1>5. \A j \in added :
          /\ j.dialogue = d /\ j.sequence = dialogues[d].itemSequence + 1
          /\ \A i \in items : i.dialogue = d => i.id # j.id
          /\ \A k \in added : k = j
    BY DEF Edits, Adds, NextSequence, Found, ItemsOf
<1>6. \A e \in Dialogues :
          dialogues'[e].itemSequence \in
             {dialogues[e].itemSequence, dialogues[e].itemSequence + 1}
    BY DEF Edits, Adds, NextSequence
<1>7. ASSUME NEW i \in items', NEW j \in items',
             i.dialogue = j.dialogue,
             i.sequence = j.sequence \/ i.id = j.id
      PROVE  i = j
    <2>1. CASE i \in added
        <3>1. j \in added
            BY <1>2, <1>3, <1>4, <1>5, <1>7, <2>1 DEF Same, Numbered
        <3>. QED
            BY <1>5, <2>1, <3>1
    <2>2. CASE j \in added
        <3>1. i \in added
            BY <1>2, <1>3, <1>4, <1>5, <1>7, <2>2 DEF Same, Numbered
        <3>. QED
            BY <1>5, <2>2, <3>1
    <2>3. CASE i \notin added /\ j \notin added
        <3>1. PICK k \in items : Same(k, i)
            BY <1>4, <2>3
        <3>2. PICK l \in items : Same(l, j)
            BY <1>4, <2>3
        <3>3. k = l
            BY <1>7, <3>1, <3>2, SameIsOne
        <3>4. i.id = j.id
            BY <3>1, <3>2, <3>3 DEF Same
        <3>5. CASE k \in old
            <4>1. \A x \in items' \ added : x \in new \/ x \notin old
                BY DEF Edits
            <4>2. i \in new /\ j \in new
                BY <1>1, <2>3, <3>1, <3>2, <3>3, <3>5, <4>1
                   DEF Edits, Same, Numbered
            <4>. QED
                BY <3>4, <4>2 DEF Edits, Renews
        <3>6. CASE k \notin old
            <4>1. ASSUME NEW x \in new, Same(k, x)
                  PROVE  FALSE
                <5>1. PICK o \in old : Same(o, x)
                    BY DEF Edits, Renews
                <5>2. o = k
                    BY <1>1, <4>1, <5>1, SameIsOne
                <5>. QED
                    BY <3>6, <5>2
            <4>2. i \in items /\ j \in items
                BY <2>3, <3>1, <3>2, <3>3, <4>1 DEF Edits
            <4>. QED
                BY <1>7, <4>2 DEF Numbered
        <3>. QED
            BY <3>5, <3>6
    <2>. QED
        BY <2>1, <2>2, <2>3
<1>8. ASSUME NEW j \in items'
      PROVE  j.sequence <= dialogues'[j.dialogue].itemSequence
    <2>1. CASE j \in added
        BY <1>2, <1>5, <2>1 DEF Edits, Adds, NextSequence
    <2>2. CASE j \notin added
        <3>1. PICK i \in items : Same(i, j)
            BY <1>4, <2>2
        <3>2. i.dialogue \in Dialogues /\ i.sequence \in Nat
            BY <1>3
        <3>3. i.sequence <= dialogues[i.dialogue].itemSequence
            BY DEF Numbered
        <3>4. dialogues[i.dialogue].itemSequence \in Nat
            BY <1>2, <3>2
        <3>5. dialogues'[i.dialogue].itemSequence \in
                 {dialogues[i.dialogue].itemSequence,
                  dialogues[i.dialogue].itemSequence + 1}
            BY <1>6, <3>2
        <3>6. j.sequence = i.sequence /\ j.dialogue = i.dialogue
            BY <3>1 DEF Same
        <3>. QED
            BY <3>2, <3>3, <3>4, <3>5, <3>6
    <2>. QED
        BY <2>1, <2>2
<1>9. ASSUME NEW e \in Dialogues, NEW n \in 1..dialogues'[e].itemSequence
      PROVE  \E j \in items' : j.dialogue = e /\ j.sequence = n
    <2>1. CASE n \in 1..dialogues[e].itemSequence
        <3>1. PICK i \in items : i.dialogue = e /\ i.sequence = n
            BY <2>1 DEF Numbered
        <3>2. PICK j \in items' : Same(i, j)
            BY EditKeeps
        <3>. QED
            BY <3>1, <3>2 DEF Same
    <2>2. CASE n \notin 1..dialogues[e].itemSequence
        <3>1. n = dialogues[e].itemSequence + 1
            BY <1>2, <1>6, <2>2
        <3>2. e = d /\ added # {}
            BY <1>2, <1>9, <3>1 DEF Edits, Adds
        <3>3. PICK j \in added : TRUE
            BY <3>2
        <3>. QED
            BY <1>5, <3>1, <3>2, <3>3 DEF Edits
    <2>. QED
        BY <2>1, <2>2
<1>. QED
    BY <1>7, <1>8, <1>9 DEF Numbered

\* The next version of items, with another status or with more text.
LEMMA BecomesRenews ==
    ASSUME TablesTyped, Numbered, NEW d \in Dialogues,
           NEW set \in SUBSET ItemsOf(d), \A i \in set : ~i.historical,
           NEW status \in ItemStatus
    PROVE  /\ Renews(d, set, Becomes(set, status))
           /\ \A j \in Becomes(set, status) : j.status = status
<1>. DEFINE next(i) == [i EXCEPT !.status = status, !.version = @ + 1]
<1>1. set \subseteq items /\ items \subseteq Item
    BY DEF ItemsOf, TablesTyped
<1>2. \A i \in Item : /\ next(i) \in Item /\ Same(i, next(i))
                      /\ next(i).version = i.version + 1
                      /\ next(i).status = status
    <2>. TAKE i \in Item
    <2>1. /\ next(i) = [i EXCEPT !.status = status, !.version = i.version + 1]
          /\ i.version + 1 \in Nat
        BY DEF Item
    <2>2. next(i) \in Item
        BY <2>1 DEF Item
    <2>3. Same(i, next(i))
        BY <2>1 DEF Item, Same
    <2>4. next(i).version = i.version + 1 /\ next(i).status = status
        BY <2>1 DEF Item
    <2>. QED
        BY <2>2, <2>3, <2>4
<1>3. Becomes(set, status) = {next(i) : i \in set}
    BY DEF Becomes
<1>. HIDE DEF next
<1>4. \A j, k \in Becomes(set, status) : j.id = k.id => j = k
    <2>. SUFFICES ASSUME NEW i \in set, NEW j \in set,
                         next(i).id = next(j).id
                  PROVE  i = j
        BY <1>3
    <2>1. i.dialogue = d /\ j.dialogue = d
        BY DEF ItemsOf
    <2>2. next(i).dialogue = d /\ next(j).dialogue = d
        BY <1>1, <1>2, <2>1 DEF Same
    <2>. QED
        BY <1>1, <1>2, <2>2, SameIsOne
<1>. QED
    BY <1>1, <1>2, <1>3, <1>4 DEF Renews

LEMMA TextRenews ==
    ASSUME TablesTyped, Numbered, NEW d \in Dialogues,
           NEW set \in SUBSET ItemsOf(d), \A i \in set : ~i.historical
    PROVE  Renews(d, set, {[i EXCEPT !.version = @ + 1] : i \in set})
<1>. DEFINE next(i) == [i EXCEPT !.version = @ + 1]
            new     == {next(i) : i \in set}
<1>1. set \subseteq items /\ items \subseteq Item
    BY DEF ItemsOf, TablesTyped
<1>2. \A i \in Item : /\ next(i) \in Item /\ Same(i, next(i))
                      /\ next(i).version = i.version + 1
    BY DEF Item, Same
<1>. HIDE DEF next
<1>4. \A j, k \in new : j.id = k.id => j = k
    <2>. SUFFICES ASSUME NEW i \in set, NEW j \in set,
                         next(i).id = next(j).id
                  PROVE  i = j
        OBVIOUS
    <2>1. i.dialogue = d /\ j.dialogue = d
        BY DEF ItemsOf
    <2>2. next(i).dialogue = d /\ next(j).dialogue = d
        BY <1>1, <1>2, <2>1 DEF Same
    <2>. QED
        BY <1>1, <1>2, <2>2, SameIsOne
<1>5. Renews(d, set, new)
    BY <1>1, <1>2, <1>4 DEF Renews
<1>. QED
    BY <1>5 DEF next

\* Items that are different are renewed together.
LEMMA RenewsUnion ==
    ASSUME TablesTyped, Numbered, NEW d \in Dialogues, NEW S, NEW T,
           NEW A, NEW B, Renews(d, S, A), Renews(d, T, B), S \cap T = {}
    PROVE  Renews(d, S \cup T, A \cup B)
<1>1. S \subseteq items /\ T \subseteq items
    BY DEF Renews, ItemsOf
<1>2. \A j \in A, k \in B : j.id # k.id
    <2>. SUFFICES ASSUME NEW j \in A, NEW k \in B, j.id = k.id
                  PROVE  FALSE
        OBVIOUS
    <2>1. PICK i \in S : Same(i, j)
        BY DEF Renews
    <2>2. PICK l \in T : Same(l, k)
        BY DEF Renews
    <2>3. i.dialogue = d /\ l.dialogue = d
        BY DEF Renews, ItemsOf
    <2>4. j.dialogue = k.dialogue
        BY <2>1, <2>2, <2>3 DEF Same
    <2>5. i = l
        BY <1>1, <2>1, <2>2, <2>4, SameIsOne
    <2>. QED
        BY <2>5
<1>3. \A j, k \in A \cup B : j.id = k.id => j = k
    BY <1>2 DEF Renews
<1>4. \A i \in S \cup T : ~i.historical /\ \E j \in A \cup B : Same(i, j)
    BY DEF Renews
<1>5. \A j \in A \cup B :
          \E i \in S \cup T : Same(i, j) /\ j.version = i.version + 1
    BY DEF Renews
<1>. QED
    BY <1>3, <1>4, <1>5 DEF Renews

LEMMA RenewsNothing ==
    ASSUME NEW d
    PROVE  Renews(d, {}, {})
BY DEF Renews

\* What has been renewed is as many items, in the same order.
LEMMA RenewedIsFinite ==
    ASSUME TablesTyped, Numbered, NEW d \in Dialogues, NEW old, NEW new,
           Renews(d, old, new)
    PROVE  IsFiniteSet(new) /\ Distinct(new)
<1>. USE DEF TablesTyped
<1>1. old \subseteq items /\ new \subseteq Item
    BY DEF Renews, ItemsOf
<1>2. \A j \in new : \E i \in items : i.dialogue = d /\ Same(i, j)
    BY DEF Renews, ItemsOf
<1>3. Distinct(new)
    <2>. SUFFICES ASSUME NEW j \in new, NEW k \in new,
                         j.sequence = k.sequence
                  PROVE  j = k
        BY DEF Distinct
    <2>1. PICK i \in items : i.dialogue = d /\ Same(i, j)
        BY <1>2
    <2>2. PICK l \in items : l.dialogue = d /\ Same(l, k)
        BY <1>2
    <2>3. j.dialogue = k.dialogue
        BY <2>1, <2>2 DEF Same
    <2>4. i = l
        BY <2>1, <2>2, <2>3, SameIsOne
    <2>5. j.id = k.id
        BY <2>1, <2>2, <2>4 DEF Same
    <2>. QED
        BY <2>5 DEF Renews
<1>4. dialogues[d].itemSequence \in Nat
    BY DEF DialogueRow
<1>5. \A j \in new : j.sequence \in 1..dialogues[d].itemSequence
    <2>. TAKE j \in new
    <2>1. PICK i \in items : i.dialogue = d /\ Same(i, j)
        BY <1>2
    <2>2. i.sequence <= dialogues[d].itemSequence /\ i.sequence \in Nat \ {0}
        BY <2>1 DEF Numbered, Item
    <2>. QED
        BY <1>4, <2>1, <2>2 DEF Same
<1>. DEFINE f == [j \in new |-> j.sequence]
<1>6. f \in Injection(new, 1..dialogues[d].itemSequence)
    <2>1. f \in [new -> 1..dialogues[d].itemSequence]
        BY <1>5
    <2>2. \A j, k \in new : f[j] = f[k] => j = k
        BY <1>3 DEF Distinct
    <2>. QED
        BY <2>1, <2>2, Fun_IsInj
<1>7. IsFiniteSet(1..dialogues[d].itemSequence)
    BY <1>4, FS_Interval
<1>. HIDE DEF f
<1>8. IsFiniteSet(new)
    BY <1>6, <1>7, FS_Injection
<1>. QED
    BY <1>3, <1>8

-----------------------------------------------------------------------------
(* What an edit tells the feed.                                            *)

\* The change is about this version of the item.
Names(change, i) ==
    /\ change.kind # "SUMMARY_UPDATED" /\ change.dialogue = i.dialogue
    /\ change.id = i.id /\ change.version = i.version

\* The changes name what was renewed and added, and nothing else; what is told
\* as text begins an item or goes on one.
Announces(changes, new, added) ==
    /\ changes \in Seq(Change)
    /\ \A n \in 1..Len(changes) : changes[n].kind # "SUMMARY_UPDATED" =>
          \E i \in new \cup added : Names(changes[n], i)
    /\ \A i \in new \cup added :
          \E n \in 1..Len(changes) : Names(changes[n], i)
    /\ \A n \in 1..Len(changes) : changes[n].kind = "HISTORY_TEXT_APPENDED" =>
          changes[n].version = 1 \/ \E i \in new : Names(changes[n], i)

LEMMA UpsertNames ==
    ASSUME NEW i \in Item
    PROVE  /\ Upsert(i) \in Change /\ Names(Upsert(i), i)
           /\ Upsert(i).kind = "HISTORY_ITEM_UPSERTED"
BY DEF Item, Change, Upsert, Names

LEMMA UpsertsAnnounce ==
    ASSUME NEW new \in SUBSET Item, IsFiniteSet(new), Distinct(new)
    PROVE  Announces(Upserts(new), new, {})
<1>. DEFINE count   == Cardinality(new)
            item(n) == CHOOSE i \in new : Rank(new, i) = n
<1>1. /\ count \in Nat
      /\ \A i \in new : Rank(new, i) \in 1..count
      /\ \A i, j \in new : Rank(new, i) = Rank(new, j) => i = j
      /\ \A n \in 1..count : \E i \in new : Rank(new, i) = n
    BY Ranking
<1>2. \A n \in 1..count : item(n) \in new /\ Rank(new, item(n)) = n
    BY <1>1
<1>3. \A i \in new : item(Rank(new, i)) = i
    BY <1>1, <1>2
<1>4. Upserts(new) = [n \in 1..count |-> Upsert(item(n))]
    BY DEF Upserts
<1>. HIDE DEF item, count
<1>5. \A n \in 1..count : Upsert(item(n)) \in Change
    BY <1>2, UpsertNames
<1>6. Upserts(new) \in Seq(Change) /\ Len(Upserts(new)) = count
    BY <1>1, <1>4, <1>5
<1>7. \A n \in 1..count : Names(Upserts(new)[n], item(n))
    BY <1>2, <1>4, UpsertNames
<1>8. \A i \in new : Names(Upserts(new)[Rank(new, i)], i)
    BY <1>1, <1>3, <1>7
<1>9. \A n \in 1..count : Upserts(new)[n].kind # "HISTORY_TEXT_APPENDED"
    BY <1>2, <1>4, UpsertNames
<1>. QED
    BY <1>1, <1>2, <1>6, <1>7, <1>8, <1>9 DEF Announces

LEMMA OneAnnounces ==
    ASSUME NEW change \in Change
    PROVE  /\ <<change>> \in Seq(Change) /\ Len(<<change>>) = 1
           /\ 1..Len(<<change>>) = {1} /\ <<change>>[1] = change
OBVIOUS

LEMMA SummaryAnnounces ==
    ASSUME NEW d \in Dialogues
    PROVE  Announces(<<Summary(d)>>, {}, {})
<1>1. Summary(d) \in Change /\ Summary(d).kind = "SUMMARY_UPDATED"
    BY DEF Summary, Change
<1>. HIDE DEF Summary
<1>2. /\ <<Summary(d)>> \in Seq(Change)
      /\ 1..Len(<<Summary(d)>>) = {1} /\ <<Summary(d)>>[1] = Summary(d)
    BY <1>1, OneAnnounces
<1>. QED
    BY <1>1, <1>2 DEF Announces

LEMMA AddedAnnounces ==
    ASSUME NEW i \in Item
    PROVE  Announces(<<Upsert(i)>>, {}, {i})
<1>1. /\ Upsert(i) \in Change /\ Names(Upsert(i), i)
      /\ Upsert(i).kind = "HISTORY_ITEM_UPSERTED"
    BY UpsertNames
<1>2. /\ <<Upsert(i)>> \in Seq(Change)
      /\ 1..Len(<<Upsert(i)>>) = {1} /\ <<Upsert(i)>>[1] = Upsert(i)
    BY <1>1, OneAnnounces
<1>. QED
    BY <1>1, <1>2 DEF Announces

\* The text that begins an item, or goes on one.
LEMMA TextAnnounces ==
    ASSUME NEW i \in Item, NEW new, NEW added, new \cup added = {i},
           i \in added => i.version = 1
    PROVE  Announces(<<TextAppended(i)>>, new, added)
<1>1. /\ TextAppended(i) \in Change /\ Names(TextAppended(i), i)
      /\ TextAppended(i).kind = "HISTORY_TEXT_APPENDED"
      /\ TextAppended(i).version = i.version
    BY DEF TextAppended, Item, Change, Upsert, Names
<1>2. /\ <<TextAppended(i)>> \in Seq(Change)
      /\ 1..Len(<<TextAppended(i)>>) = {1}
      /\ <<TextAppended(i)>>[1] = TextAppended(i)
    BY <1>1, OneAnnounces
<1>. QED
    BY <1>1, <1>2 DEF Announces

LEMMA AnnouncesBoth ==
    ASSUME NEW a, NEW b, NEW N, NEW M, NEW A, NEW B,
           Announces(a, N, A), Announces(b, M, B)
    PROVE  Announces(a \o b, N \cup M, A \cup B)
<1>. DEFINE both == a \o b
<1>1. a \in Seq(Change) /\ b \in Seq(Change)
    BY DEF Announces
<1>2. /\ both \in Seq(Change) /\ Len(both) = Len(a) + Len(b)
      /\ Len(a) \in Nat /\ Len(b) \in Nat
      /\ \A n \in 1..Len(both) :
            both[n] = IF n <= Len(a) THEN a[n] ELSE b[n - Len(a)]
    BY <1>1, ConcatProperties, LenProperties
<1>. HIDE DEF both
<1>3. \A n \in 1..Len(both) :
          \/ \E m \in 1..Len(a) : both[n] = a[m]
          \/ \E m \in 1..Len(b) : both[n] = b[m]
    <2>. TAKE n \in 1..Len(both)
    <2>1. CASE n <= Len(a)
        BY <1>2, <2>1
    <2>2. CASE ~(n <= Len(a))
        <3>1. n - Len(a) \in 1..Len(b)
            BY <1>2, <2>2
        <3>. QED
            BY <1>2, <2>2, <3>1
    <2>. QED
        BY <2>1, <2>2
<1>4. \A m \in 1..Len(a) : m \in 1..Len(both) /\ both[m] = a[m]
    BY <1>2
<1>5. \A m \in 1..Len(b) :
          /\ Len(a) + m \in 1..Len(both)
          /\ both[Len(a) + m] = b[m]
    <2>. TAKE m \in 1..Len(b)
    <2>1. /\ Len(a) + m \in 1..Len(both) /\ ~(Len(a) + m <= Len(a))
          /\ (Len(a) + m) - Len(a) = m
        BY <1>2
    <2>. QED
        BY <1>2, <2>1
<1>6. \A n \in 1..Len(both) : both[n].kind # "SUMMARY_UPDATED" =>
          \E i \in (N \cup M) \cup (A \cup B) : Names(both[n], i)
    BY <1>3 DEF Announces
<1>7. \A i \in (N \cup M) \cup (A \cup B) :
          \E n \in 1..Len(both) : Names(both[n], i)
    <2>. TAKE i \in (N \cup M) \cup (A \cup B)
    <2>1. CASE i \in N \cup A
        BY <1>4, <2>1 DEF Announces
    <2>2. CASE i \in M \cup B
        BY <1>5, <2>2 DEF Announces
    <2>. QED
        BY <2>1, <2>2
<1>8. \A n \in 1..Len(both) : both[n].kind = "HISTORY_TEXT_APPENDED" =>
          both[n].version = 1 \/ \E i \in N \cup M : Names(both[n], i)
    BY <1>3 DEF Announces
<1>. QED
    BY <1>2, <1>6, <1>7, <1>8 DEF Announces, both

\* The history is of its types; clients are treated later.
HistoryTyped ==
    /\ TablesTyped
    /\ feed \in Seq(Change)
    /\ significance \in [Dialogues -> Seq(SUBSET Version)]

\* What a handler does: it edits one dialogue, tells the feed of it, and may
\* call some of what it wrote significant.
Handles(d, old, new, added, changes) ==
    /\ Edits(d, old, new, added)
    /\ dialogues[d].kind # "none" => dialogues'[d].kind # "none"
    /\ Announces(changes, new, added) /\ feed' = feed \o changes
    /\ \/ significance' = significance
       \/ \E set \in SUBSET (new \cup added) : Significant(d, set)

\* Nothing that was there is lost: items get later versions, the feed and what
\* was significant are continued, and what is new of a dialogue that was there
\* comes behind its items.
HistoryGrows ==
    /\ \A i \in items : \E j \in items' : Same(i, j) /\ j.version >= i.version
    /\ \A i \in items : i.historical => i \in items'
    /\ \A j \in items' :
          \/ \E i \in items : Same(i, j)
          \/ dialogues[j.dialogue].kind = "none"
          \/ j.sequence = NextSequence(j.dialogue) /\ ~j.historical
    /\ Len(feed) <= Len(feed') /\ \A n \in 1..Len(feed) : feed'[n] = feed[n]
    /\ \A d \in Dialogues :
          /\ Len(significance[d]) <= Len(significance'[d])
          /\ \A n \in 1..Len(significance[d]) :
                significance'[d][n] = significance[d][n]
          /\ dialogues[d].itemSequence <= dialogues'[d].itemSequence
          /\ dialogues[d].kind # "none" => dialogues'[d].kind # "none"

LEMMA FeedGrows ==
    ASSUME feed \in Seq(Change), NEW changes \in Seq(Change),
           feed' = feed \o changes
    PROVE  /\ feed' \in Seq(Change)
           /\ Len(feed) \in Nat /\ Len(feed') = Len(feed) + Len(changes)
           /\ Len(changes) \in Nat
           /\ \A n \in 1..Len(feed) : feed'[n] = feed[n] /\ n \in 1..Len(feed')
           /\ \A n \in 1..Len(feed') : n \notin 1..Len(feed) =>
                 \E m \in 1..Len(changes) :
                    n = Len(feed) + m /\ feed'[n] = changes[m]
           /\ \A m \in 1..Len(changes) :
                 /\ Len(feed) + m \in 1..Len(feed')
                 /\ feed'[Len(feed) + m] = changes[m]
<1>1. /\ feed' \in Seq(Change) /\ Len(feed') = Len(feed) + Len(changes)
      /\ Len(feed) \in Nat /\ Len(changes) \in Nat
      /\ \A n \in 1..Len(feed') : feed'[n] =
            IF n <= Len(feed) THEN feed[n] ELSE changes[n - Len(feed)]
    BY ConcatProperties, LenProperties
<1>2. \A n \in 1..Len(feed) : feed'[n] = feed[n] /\ n \in 1..Len(feed')
    BY <1>1
<1>3. \A m \in 1..Len(changes) :
          /\ Len(feed) + m \in 1..Len(feed')
          /\ feed'[Len(feed) + m] = changes[m]
    <2>. TAKE m \in 1..Len(changes)
    <2>1. /\ Len(feed) + m \in 1..Len(feed') /\ ~(Len(feed) + m <= Len(feed))
          /\ (Len(feed) + m) - Len(feed) = m
        BY <1>1
    <2>. QED
        BY <1>1, <2>1
<1>4. ASSUME NEW n \in 1..Len(feed'), n \notin 1..Len(feed)
      PROVE  \E m \in 1..Len(changes) :
                n = Len(feed) + m /\ feed'[n] = changes[m]
    <2>1. /\ n - Len(feed) \in 1..Len(changes)
          /\ n = Len(feed) + (n - Len(feed))
        BY <1>1, <1>4
    <2>. QED
        BY <1>3, <2>1
<1>. QED
    BY <1>1, <1>2, <1>3, <1>4

\* A row tells what it told when rows are added.
LEMMA FeedStep ==
    ASSUME HistoryTyped, Numbered, FeedInv, NEW d \in Dialogues,
           NEW old, NEW new, NEW added, NEW changes,
           Handles(d, old, new, added, changes)
    PROVE  FeedInv' /\ feed' \in Seq(Change)
<1>. USE DEF HistoryTyped
<1>1. Edits(d, old, new, added) /\ Announces(changes, new, added)
    BY DEF Handles
<1>2. changes \in Seq(Change) /\ feed' = feed \o changes
    BY <1>1 DEF Handles, Announces
<1>3. /\ feed' \in Seq(Change)
      /\ Len(feed) \in Nat /\ Len(feed') = Len(feed) + Len(changes)
      /\ Len(changes) \in Nat
      /\ \A n \in 1..Len(feed) : feed'[n] = feed[n] /\ n \in 1..Len(feed')
      /\ \A n \in 1..Len(feed') : n \notin 1..Len(feed) =>
            \E m \in 1..Len(changes) :
               n = Len(feed) + m /\ feed'[n] = changes[m]
      /\ \A m \in 1..Len(changes) :
            /\ Len(feed) + m \in 1..Len(feed')
            /\ feed'[Len(feed) + m] = changes[m]
    BY <1>2, FeedGrows
<1>4. /\ new \subseteq items' /\ added \subseteq items' /\ items' \subseteq Item
      /\ old \subseteq ItemsOf(d) /\ items \subseteq Item
    BY <1>1, EditKeeps DEF Edits, Renews, TablesTyped
<1>5. ASSUME NEW n \in 1..Len(feed'), feed'[n].kind # "SUMMARY_UPDATED"
      PROVE  \E j \in items' : /\ j.dialogue = feed'[n].dialogue
                               /\ j.id = feed'[n].id
                               /\ j.version >= feed'[n].version
    <2>1. CASE n \in 1..Len(feed)
        <3>1. feed'[n] = feed[n]
            BY <1>3, <2>1
        <3>2. PICK i \in items : /\ i.dialogue = feed[n].dialogue
                                 /\ i.id = feed[n].id
                                 /\ i.version >= feed[n].version
            BY <1>5, <2>1, <3>1 DEF FeedInv
        <3>3. PICK j \in items' : Same(i, j) /\ j.version >= i.version
            BY <1>1, EditKeeps
        <3>4. i.version \in Nat /\ j.version \in Nat /\ feed[n].version \in Nat
            <4>1. feed[n] \in Change
                BY <2>1, ElementOfSeq
            <4>. QED
                BY <1>4, <4>1 DEF Item, Change
        <3>. QED
            BY <3>1, <3>2, <3>3, <3>4 DEF Same
    <2>2. CASE n \notin 1..Len(feed)
        <3>1. PICK m \in 1..Len(changes) : feed'[n] = changes[m]
            BY <1>3, <2>2
        <3>2. PICK j \in new \cup added : Names(changes[m], j)
            BY <1>1, <1>5, <3>1 DEF Announces
        <3>3. j \in items' /\ j.version \in Nat
            BY <1>4, <3>2 DEF Item
        <3>. QED
            BY <3>1, <3>2, <3>3 DEF Names
    <2>. QED
        BY <2>1, <2>2
<1>6. ASSUME NEW j \in items', ~j.historical
      PROVE  \E n \in 1..Len(feed') : Names(feed'[n], j)
    <2>1. CASE j \in new \cup added
        <3>1. PICK m \in 1..Len(changes) : Names(changes[m], j)
            BY <1>1, <2>1 DEF Announces
        <3>. QED
            BY <1>3, <3>1
    <2>2. CASE j \notin new \cup added
        <3>1. j \in items
            BY <1>1, <2>2 DEF Edits
        <3>2. PICK n \in 1..Len(feed) : /\ Tells(n, j.dialogue, j.id)
                                        /\ feed[n].version = j.version
            BY <1>6, <3>1 DEF FeedInv
        <3>. QED
            BY <1>3, <3>2 DEF Names, Tells
    <2>. QED
        BY <2>1, <2>2
<1>7. ASSUME NEW n \in 1..Len(feed'),
             feed'[n].kind = "HISTORY_TEXT_APPENDED", feed'[n].version # 1
      PROVE  \E m \in 1..n - 1 : /\ feed'[m].kind # "SUMMARY_UPDATED"
                                 /\ feed'[m].dialogue = feed'[n].dialogue
                                 /\ feed'[m].id = feed'[n].id
                                 /\ feed'[m].version = feed'[n].version - 1
    <2>1. CASE n \in 1..Len(feed)
        <3>1. feed'[n] = feed[n]
            BY <1>3, <2>1
        <3>2. PICK m \in 1..n - 1 :
                 /\ Tells(m, feed[n].dialogue, feed[n].id)
                 /\ feed[m].version = feed[n].version - 1
            BY <1>7, <2>1, <3>1 DEF FeedInv
        <3>3. m \in 1..Len(feed)
            BY <1>3, <2>1
        <3>. QED
            BY <1>3, <3>1, <3>2, <3>3 DEF Tells
    <2>2. CASE n \notin 1..Len(feed)
        <3>1. PICK k \in 1..Len(changes) :
                 n = Len(feed) + k /\ feed'[n] = changes[k]
            BY <1>3, <2>2
        <3>2. PICK j \in new : Names(changes[k], j)
            BY <1>1, <1>7, <3>1 DEF Announces
        <3>3. PICK i \in old : Same(i, j) /\ j.version = i.version + 1
            BY <1>1 DEF Edits, Renews
        <3>4. i \in items /\ ~i.historical /\ i.version \in Nat
            BY <1>1, <1>4 DEF Edits, Renews, ItemsOf, Item
        <3>5. PICK m \in 1..Len(feed) : /\ Tells(m, i.dialogue, i.id)
                                        /\ feed[m].version = i.version
            BY <3>4 DEF FeedInv
        <3>6. m \in 1..n - 1 /\ feed'[m] = feed[m]
            BY <1>3, <3>1
        <3>7. /\ i.dialogue = feed'[n].dialogue /\ i.id = feed'[n].id
              /\ i.version = feed'[n].version - 1
            BY <3>1, <3>2, <3>3, <3>4 DEF Names, Same
        <3>. QED
            BY <3>5, <3>6, <3>7 DEF Tells
    <2>. QED
        BY <2>1, <2>2
<1>8. FeedInv'
    BY <1>5, <1>6, <1>7 DEF FeedInv, Tells, Names
<1>. QED
    BY <1>3, <1>8

\* What has become significant is about what was written.
LEMMA SignificanceStep ==
    ASSUME HistoryTyped, Numbered, SignificanceInv, NEW d \in Dialogues,
           NEW old, NEW new, NEW added, NEW changes,
           Handles(d, old, new, added, changes)
    PROVE  /\ SignificanceInv'
           /\ significance' \in [Dialogues -> Seq(SUBSET Version)]
           /\ \A e \in Dialogues :
                 /\ Len(significance[e]) <= Len(significance'[e])
                 /\ \A n \in 1..Len(significance[e]) :
                       significance'[e][n] = significance[e][n]
<1>. USE DEF HistoryTyped
<1>1. Edits(d, old, new, added)
    BY DEF Handles
<1>2. /\ new \subseteq items' /\ added \subseteq items' /\ items' \subseteq Item
      /\ items \subseteq Item
    BY <1>1, EditKeeps DEF Edits, TablesTyped
<1>3. \A i \in new \cup added : i.dialogue = d
    BY <1>1 DEF Edits, Renews, Adds, Same, ItemsOf
<1>4. ASSUME NEW e \in Dialogues, NEW v,
             \E i \in ItemsOf(e) : i.id = v.id /\ i.version >= v.version,
             v \in Version
      PROVE  \E i \in items' :
                i.dialogue = e /\ i.id = v.id /\ i.version >= v.version
    <2>1. PICK i \in items : /\ i.dialogue = e /\ i.id = v.id
                             /\ i.version >= v.version
        BY <1>4 DEF ItemsOf
    <2>2. PICK j \in items' : Same(i, j) /\ j.version >= i.version
        BY <1>1, EditKeeps
    <2>3. i.version \in Nat /\ j.version \in Nat /\ v.version \in Nat
        BY <1>2, <1>4 DEF Item, Version
    <2>. QED
        BY <2>1, <2>2, <2>3 DEF Same
<1>5. \A e \in Dialogues : /\ Len(significance[e]) \in Nat
                           /\ \A n \in 1..Len(significance[e]) :
                                 significance[e][n] \in SUBSET Version
    BY LenProperties, ElementOfSeq
<1>6. CASE significance' = significance
    <2>1. SignificanceInv'
        BY <1>4, <1>5, <1>6 DEF SignificanceInv, ItemsOf
    <2>. QED
        BY <1>5, <1>6, <2>1
<1>7. ASSUME NEW set \in SUBSET (new \cup added), Significant(d, set)
      PROVE  /\ SignificanceInv'
             /\ significance' \in [Dialogues -> Seq(SUBSET Version)]
             /\ \A e \in Dialogues :
                   /\ Len(significance[e]) <= Len(significance'[e])
                   /\ \A n \in 1..Len(significance[e]) :
                         significance'[e][n] = significance[e][n]
    <2>. DEFINE versions == {VersionOf(i) : i \in set}
                more     == Append(significance[d], versions)
    <2>1. \A i \in set : VersionOf(i) \in Version
        BY <1>2 DEF VersionOf, Version, Item
    <2>2. versions \in SUBSET Version
        BY <2>1
    <2>3. \A v \in versions : \E i \in items' :
             i.dialogue = d /\ i.id = v.id /\ i.version >= v.version
        <3>. TAKE v \in versions
        <3>1. PICK i \in set : v = VersionOf(i)
            OBVIOUS
        <3>2. i \in items' /\ i.dialogue = d /\ i.version \in Nat
            BY <1>2, <1>3 DEF Item
        <3>. QED
            BY <3>1, <3>2 DEF VersionOf
    <2>4. significance' = [significance EXCEPT ![d] = more]
        BY <1>7 DEF Significant
    <2>. HIDE DEF versions
    <2>5. /\ more \in Seq(SUBSET Version)
          /\ Len(more) = Len(significance[d]) + 1
          /\ \A n \in 1..Len(significance[d]) : more[n] = significance[d][n]
          /\ more[Len(significance[d]) + 1] = versions
        BY <2>2
    <2>. HIDE DEF more
    <2>6. significance' \in [Dialogues -> Seq(SUBSET Version)]
        BY <2>4, <2>5
    <2>7. \A e \in Dialogues :
             /\ Len(significance[e]) <= Len(significance'[e])
             /\ \A n \in 1..Len(significance[e]) :
                   significance'[e][n] = significance[e][n]
        <3>. TAKE e \in Dialogues
        <3>1. CASE e = d
            BY <1>5, <2>4, <2>5, <3>1
        <3>2. CASE e # d
            BY <1>5, <2>4, <3>2
        <3>. QED
            BY <3>1, <3>2
    <2>8. SignificanceInv'
        <3>. SUFFICES ASSUME NEW e \in Dialogues,
                             NEW n \in 1..Len(significance'[e]),
                             NEW v \in significance'[e][n]
                      PROVE  \E i \in items' : /\ i.dialogue = e
                                               /\ i.id = v.id
                                               /\ i.version >= v.version
            BY DEF SignificanceInv, ItemsOf
        <3>1. CASE n \in 1..Len(significance[e])
            <4>1. v \in significance[e][n] /\ v \in Version
                BY <1>5, <2>7, <3>1
            <4>2. \E i \in ItemsOf(e) : i.id = v.id /\ i.version >= v.version
                BY <3>1, <4>1 DEF SignificanceInv
            <4>. QED
                BY <1>4, <4>1, <4>2
        <3>2. CASE n \notin 1..Len(significance[e])
            <4>1. e = d
                BY <2>4, <3>2
            <4>2. n = Len(significance[d]) + 1
                BY <1>5, <2>4, <2>5, <3>2, <4>1
            <4>3. v \in versions
                BY <2>4, <2>5, <4>1, <4>2
            <4>. QED
                BY <2>3, <4>1, <4>3
        <3>. QED
            BY <3>1, <3>2
    <2>. QED
        BY <2>6, <2>7, <2>8
<1>. QED
    BY <1>6, <1>7 DEF Handles

\* What every handler has in common.
LEMMA HandlerStep ==
    ASSUME HistoryTyped, Numbered, FeedInv, SignificanceInv,
           NEW d \in Dialogues, NEW old, NEW new, NEW added, NEW changes,
           Handles(d, old, new, added, changes)
    PROVE  /\ items' \subseteq Item /\ feed' \in Seq(Change)
           /\ significance' \in [Dialogues -> Seq(SUBSET Version)]
           /\ Numbered' /\ FeedInv' /\ SignificanceInv'
           /\ HistoryGrows
<1>. USE DEF HistoryTyped
<1>1. Edits(d, old, new, added)
    BY DEF Handles
<1>2. /\ items' \subseteq Item
      /\ \A i \in items : \E j \in items' :
            Same(i, j) /\ j.version >= i.version
      /\ \A i \in items : i.historical => i \in items'
      /\ \A j \in items' : \/ j \in added
                           \/ \E i \in items : Same(i, j)
    BY <1>1, EditKeeps
<1>3. \A j \in added : j.sequence = NextSequence(j.dialogue) /\ ~j.historical
    BY <1>1 DEF Edits, Adds
<1>4. \A e \in Dialogues :
         dialogues[e].itemSequence <= dialogues'[e].itemSequence
    <2>. TAKE e \in Dialogues
    <2>1. dialogues[e].itemSequence \in Nat
        BY DEF TablesTyped, DialogueRow
    <2>2. dialogues'[e].itemSequence \in
             {dialogues[e].itemSequence, dialogues[e].itemSequence + 1}
        BY <1>1 DEF Edits, Adds, NextSequence
    <2>. QED
        BY <2>1, <2>2
<1>5. /\ feed' \in Seq(Change) /\ FeedInv'
      /\ Len(feed) <= Len(feed') /\ \A n \in 1..Len(feed) : feed'[n] = feed[n]
    <2>1. changes \in Seq(Change) /\ feed' = feed \o changes
        BY DEF Handles, Announces
    <2>2. /\ Len(feed) \in Nat /\ Len(feed') = Len(feed) + Len(changes)
          /\ Len(changes) \in Nat
          /\ \A n \in 1..Len(feed) : feed'[n] = feed[n]
        BY <2>1, FeedGrows
    <2>. QED
        BY <2>2, FeedStep
<1>6. /\ SignificanceInv'
      /\ significance' \in [Dialogues -> Seq(SUBSET Version)]
      /\ \A e \in Dialogues :
            /\ Len(significance[e]) <= Len(significance'[e])
            /\ \A n \in 1..Len(significance[e]) :
                  significance'[e][n] = significance[e][n]
    BY SignificanceStep
<1>7. Numbered'
    BY <1>1, EditNumbers
<1>8. \A e \in Dialogues :
         dialogues[e].kind # "none" => dialogues'[e].kind # "none"
    BY <1>1 DEF Handles, Edits
<1>9. HistoryGrows
    BY <1>2, <1>3, <1>4, <1>5, <1>6, <1>8 DEF HistoryGrows
<1>. QED
    BY <1>2, <1>5, <1>6, <1>7, <1>9

-----------------------------------------------------------------------------
(* Turns and edits.                                                        *)

\* A turn stays in its dialogue, and a settled one as it is.
TurnsGoOn ==
    \A t \in Turns :
        /\ turns[t].status # "none" => /\ turns'[t].status # "none"
                                       /\ turns'[t].dialogue = turns[t].dialogue
        /\ turns[t].status \in Settled => turns'[t] = turns[t]

\* The turn of an item that was there is the one it was.
LEMMA TurnOfItem ==
    ASSUME TablesTyped, Named, TurnsGoOn, NEW i \in items, i.turn # NoTurn
    PROVE  /\ i.turn \in Turns
           /\ turns[i.turn].status \in {"OPEN", "COMPLETED", "ENDED"}
           /\ turns'[i.turn].status # "none"
           /\ turns[i.turn].dialogue = i.dialogue
           /\ turns'[i.turn].dialogue = i.dialogue
           /\ turns[i.turn].status \in Settled => turns'[i.turn] = turns[i.turn]
<1>1. i.turn \in Turns
    BY DEF TablesTyped, Item
<1>2. turns[i.turn].status \in {"none", "OPEN", "COMPLETED", "ENDED"}
    BY <1>1 DEF TablesTyped, TurnRow
<1>3. /\ turns[i.turn].status # "none"
      /\ turns[i.turn].dialogue = i.dialogue
    BY DEF Named, NamedWell
<1>. QED
    BY <1>1, <1>2, <1>3 DEF TurnsGoOn

LEMMA NamedStep ==
    ASSUME TablesTyped, Numbered, Named, NEW d \in Dialogues,
           NEW old, NEW new, NEW added, Edits(d, old, new, added),
           TurnsGoOn, \A j \in added : NamedWell(j)'
    PROVE  Named'
<1>. SUFFICES ASSUME NEW j \in items', j \notin added
              PROVE  NamedWell(j)'
    BY DEF Named
<1>1. PICK i \in items : Same(i, j)
    BY EditKeeps
<1>2. NamedWell(i)
    BY DEF Named
<1>3. i.turn # NoTurn => /\ turns'[i.turn].status # "none"
                         /\ turns'[i.turn].dialogue = i.dialogue
    BY TurnOfItem
<1>4. /\ j.id = i.id /\ j.historical = i.historical /\ j.turn = i.turn
      /\ j.dialogue = i.dialogue
    BY <1>1 DEF Same
<1>. QED
    BY <1>2, <1>3, <1>4 DEF NamedWell

\* A result's turn is a turn.
LEMMA ResultOfTurn ==
    ASSUME TablesTyped, Named, NEW i \in items, i.id.of \in Results
    PROVE  i.turn \in Turns /\ i.turn # NoTurn
<1>1. i.id \in Id /\ i.id.of \notin {"copy", "interaction"}
    BY DEF TablesTyped, Item, Results
<1>2. i.id.key \in Turns
    BY <1>1 DEF Id
<1>3. i.turn = i.id.key
    BY <1>1 DEF Named, NamedWell
<1>. QED
    BY <1>2, <1>3, NullsAssumption

LEMMA ResultsStep ==
    ASSUME TablesTyped, Numbered, Named, ResultsEnd, NEW d \in Dialogues,
           NEW old, NEW new, NEW added, Edits(d, old, new, added),
           TurnsGoOn, \A j \in added : EndsItsTurn(j)',
           \A t \in Turns :
              turns'[t].status \in Settled /\ turns[t].status \notin Settled =>
                 \E j \in added : j.turn = t /\ j.id.of \in Results
    PROVE  ResultsEnd'
<1>1. ASSUME NEW j \in items', j \notin added
      PROVE  EndsItsTurn(j)'
    <2>1. PICK i \in items : Same(i, j)
        BY <1>1, EditKeeps
    <2>2. CASE i.id.of \in Results
        <3>1. i.turn \in Turns /\ i.turn # NoTurn
            BY <2>2, ResultOfTurn
        <3>2. /\ turns[i.turn].status \in Settled
              /\ i.sequence = turns[i.turn].end
            BY <2>2 DEF ResultsEnd, EndsItsTurn
        <3>3. turns'[i.turn] = turns[i.turn]
            BY <3>1, <3>2 DEF TurnsGoOn
        <3>4. j.turn = i.turn /\ j.sequence = i.sequence
            BY <2>1 DEF Same
        <3>. QED
            BY <3>2, <3>3, <3>4 DEF EndsItsTurn
    <2>3. CASE i.id.of \notin Results
        BY <2>1, <2>3 DEF Same, EndsItsTurn
    <2>. QED
        BY <2>2, <2>3
<1>2. ASSUME NEW t \in Turns, turns'[t].status \in Settled
      PROVE  \E j \in items' : j.turn = t /\ j.id.of \in Results
    <2>1. CASE turns[t].status \in Settled
        <3>1. PICK i \in items : i.turn = t /\ i.id.of \in Results
            BY <2>1 DEF ResultsEnd
        <3>2. PICK j \in items' : Same(i, j)
            BY EditKeeps
        <3>. QED
            BY <3>1, <3>2 DEF Same
    <2>2. CASE turns[t].status \notin Settled
        BY <1>2, <2>2 DEF Edits
    <2>. QED
        BY <2>1, <2>2
<1>. QED
    BY <1>1, <1>2 DEF ResultsEnd

LEMMA WorkStep ==
    ASSUME TablesTyped, Numbered, Named, OpenWork, NEW d \in Dialogues,
           NEW old, NEW new, NEW added, Edits(d, old, new, added),
           TurnsGoOn, \A j \in new \cup added : Works(j)',
           dialogues'[d].status = "READY" =>
              \A i \in ItemsOf(d) \ old : ~i.historical =>
                 i.status \notin {"PENDING", "RESPONDING"},
           \A t \in Turns :
              turns'[t].status \in Settled /\ turns[t].status \notin Settled =>
                 \A i \in items \ old : i.turn = t =>
                    /\ i.status \notin Unfinished
                    /\ i.sequence <= turns'[t].end
    PROVE  OpenWork'
<1>. SUFFICES ASSUME NEW i \in items, i \notin old, ~i.historical
              PROVE  Works(i)'
    BY DEF OpenWork, Edits, Works
<1>1. Works(i)
    BY DEF OpenWork
<1>2. i.dialogue \in Dialogues
    BY DEF TablesTyped, Item
<1>3. ASSUME i.status \in {"PENDING", "RESPONDING"}
      PROVE  dialogues'[i.dialogue].status # "READY"
    <2>1. CASE i.dialogue = d
        BY <1>3, <2>1 DEF ItemsOf
    <2>2. CASE i.dialogue # d
        BY <1>1, <1>2, <1>3, <2>2 DEF Edits, Works
    <2>. QED
        BY <2>1, <2>2
<1>4. ASSUME i.turn # NoTurn, turns'[i.turn].status \in Settled
      PROVE  i.status \notin Unfinished /\ i.sequence <= turns'[i.turn].end
    <2>1. i.turn \in Turns
        BY <1>4, TurnOfItem
    <2>2. CASE turns[i.turn].status \in Settled
        <3>1. turns'[i.turn] = turns[i.turn]
            BY <2>1, <2>2 DEF TurnsGoOn
        <3>. QED
            BY <1>1, <1>4, <2>2, <3>1 DEF Works
    <2>3. CASE turns[i.turn].status \notin Settled
        BY <1>4, <2>1, <2>3
    <2>. QED
        BY <2>2, <2>3
<1>. QED
    BY <1>1, <1>3, <1>4 DEF Works

-----------------------------------------------------------------------------
(* Handlers that leave the turns alone.                                    *)

HistoryInv == HistoryTyped /\ TableInv /\ FeedInv /\ SignificanceInv

\* What every handler is shown to do.
HistoryStep == HistoryInv' /\ HistoryGrows

\* A dialogue with a session, a turn, a status or an item is there.
LEMMA DialogueIsThere ==
    ASSUME RowsAgree, NEW d \in Dialogues,
           \/ dialogues[d].session \/ dialogues[d].turn # NoTurn
           \/ dialogues[d].status # "READY"
    PROVE  dialogues[d].kind # "none"
BY DEF RowsAgree, NoRow

LEMMA ItemsAreThere ==
    ASSUME TablesTyped, RowsAgree, Numbered, NEW i \in items
    PROVE  i.dialogue \in Dialogues /\ dialogues[i.dialogue].kind # "none"
<1>1. i.dialogue \in Dialogues /\ i.sequence \in Nat \ {0}
    BY DEF TablesTyped, Item
<1>2. i.sequence <= dialogues[i.dialogue].itemSequence
    BY DEF Numbered
<1>3. dialogues[i.dialogue].itemSequence # 0
    BY <1>1, <1>2
<1>. QED
    BY <1>1, <1>3 DEF RowsAgree, NoRow

LEMMA RowsStay ==
    ASSUME TablesTyped, RowsAgree, NEW d \in Dialogues, turns' = turns,
           \A e \in Dialogues \ {d} : dialogues'[e] = dialogues[e],
           dialogues'[d].kind # "none",
           dialogues'[d].turn = dialogues[d].turn,
           dialogues[d].turn # NoTurn => dialogues'[d].status = "BUSY",
           dialogues'[d].itemSequence \in
              {dialogues[d].itemSequence, NextSequence(d)}
    PROVE  RowsAgree'
<1>1. ASSUME NEW e \in Dialogues
      PROVE  /\ dialogues'[e].kind = "none" => dialogues'[e] = NoRow
             /\ dialogues'[e].turn # NoTurn =>
                   /\ dialogues'[e].status = "BUSY"
                   /\ turns'[dialogues'[e].turn].status = "OPEN"
                   /\ turns'[dialogues'[e].turn].dialogue = e
    BY DEF RowsAgree
<1>2. ASSUME NEW e \in Dialogues
      PROVE  /\ dialogues'[e].turn = dialogues[e].turn
             /\ dialogues[e].kind # "none" => dialogues'[e].kind # "none"
             /\ 1..dialogues[e].itemSequence \subseteq
                   1..dialogues'[e].itemSequence
    <2>1. dialogues[e].itemSequence \in Nat
        BY DEF TablesTyped, DialogueRow
    <2>2. dialogues'[e].itemSequence \in
             {dialogues[e].itemSequence, dialogues[e].itemSequence + 1}
        BY DEF NextSequence
    <2>. QED
        BY <2>1, <2>2
<1>3. ASSUME NEW t \in Turns
      PROVE  /\ turns'[t].status # "none" =>
                   /\ turns'[t].dialogue \in Dialogues
                   /\ dialogues'[turns'[t].dialogue].kind # "none"
             /\ turns'[t].status = "OPEN" =>
                   dialogues'[turns'[t].dialogue].turn = t
             /\ turns'[t].status \in Settled =>
                   turns'[t].end \in
                      1..dialogues'[turns'[t].dialogue].itemSequence
    <2>1. turns[t].status # "none" => turns[t].dialogue \in Dialogues
        BY DEF RowsAgree
    <2>2. turns[t].status \in {"OPEN"} \cup Settled => turns[t].status # "none"
        BY DEF Settled
    <2>. QED
        BY <1>2, <2>1, <2>2 DEF RowsAgree
<1>. QED
    BY <1>1, <1>3 DEF RowsAgree

\* A handler that leaves the turns alone, and the row but for the status, the
\* session, the read mark, and the number of items.
LEMMA TurnsAloneStep ==
    ASSUME HistoryInv, NEW d \in Dialogues, NEW old, NEW new, NEW added,
           NEW changes, Handles(d, old, new, added, changes),
           turns' = turns, dialogues' \in [Dialogues -> DialogueRow],
           dialogues'[d].kind # "none",
           dialogues'[d].turn = dialogues[d].turn,
           dialogues[d].turn # NoTurn => dialogues'[d].status = "BUSY",
           \A j \in added : NamedWell(j) /\ j.id.of \notin Results,
           \A j \in new \cup added : Works(j)',
           dialogues'[d].status = "READY" =>
              \A i \in ItemsOf(d) \ old : ~i.historical =>
                 i.status \notin {"PENDING", "RESPONDING"}
    PROVE  HistoryStep
<1>. USE DEF HistoryInv, HistoryTyped, TableInv
<1>1. Edits(d, old, new, added)
    BY DEF Handles
<1>2. TurnsGoOn
    BY DEF TurnsGoOn
<1>3. RowsAgree'
    <2>1. /\ \A e \in Dialogues \ {d} : dialogues'[e] = dialogues[e]
          /\ dialogues'[d].itemSequence \in
                {dialogues[d].itemSequence, NextSequence(d)}
        BY <1>1 DEF Edits, Adds
    <2>. QED
        BY <2>1, RowsStay
<1>4. Named'
    <2>1. \A j \in added : NamedWell(j)'
        BY DEF NamedWell
    <2>. QED
        BY <1>1, <1>2, <2>1, NamedStep
<1>5. ResultsEnd'
    <2>1. \A j \in added : EndsItsTurn(j)'
        BY DEF EndsItsTurn
    <2>. QED
        BY <1>1, <1>2, <2>1, ResultsStep
<1>6. OpenWork'
    BY <1>1, <1>2, WorkStep
<1>7. /\ items' \subseteq Item /\ feed' \in Seq(Change)
      /\ significance' \in [Dialogues -> Seq(SUBSET Version)]
      /\ Numbered' /\ FeedInv' /\ SignificanceInv'
      /\ HistoryGrows
    BY HandlerStep
<1>8. TablesTyped'
    BY <1>7 DEF TablesTyped
<1>. QED
    BY <1>3, <1>4, <1>5, <1>6, <1>7, <1>8 DEF HistoryStep

\* Only the row changes, and the feed is told of it.
LEMMA RowOnly ==
    ASSUME HistoryInv, NEW d \in Dialogues, turns' = turns, items' = items,
           significance' = significance, feed' = feed \o <<Summary(d)>>,
           dialogues' \in [Dialogues -> DialogueRow],
           \A e \in Dialogues \ {d} : dialogues'[e] = dialogues[e],
           dialogues'[d].kind # "none",
           dialogues'[d].turn = dialogues[d].turn,
           dialogues'[d].status = dialogues[d].status,
           dialogues'[d].itemSequence = dialogues[d].itemSequence
    PROVE  HistoryStep
<1>. DEFINE none == {}
<1>1. Edits(d, none, none, none)
    BY RenewsNothing DEF Edits, Adds
<1>2. Announces(<<Summary(d)>>, none, none)
    BY SummaryAnnounces
<1>3. Handles(d, none, none, none, <<Summary(d)>>)
    BY <1>1, <1>2 DEF Handles
<1>4. dialogues[d].turn # NoTurn => dialogues'[d].status = "BUSY"
    BY DEF HistoryInv, TableInv, RowsAgree
<1>5. dialogues'[d].status = "READY" =>
         \A i \in ItemsOf(d) : ~i.historical =>
            i.status \notin {"PENDING", "RESPONDING"}
    BY DEF HistoryInv, TableInv, OpenWork, Works, ItemsOf
<1>. QED
    BY <1>3, <1>4, <1>5, TurnsAloneStep

LEMMA RowReplaced ==
    ASSUME TablesTyped, NEW d \in Dialogues, NEW row \in DialogueRow,
           dialogues' = [dialogues EXCEPT ![d] = row]
    PROVE  /\ dialogues' \in [Dialogues -> DialogueRow] /\ dialogues'[d] = row
           /\ \A e \in Dialogues \ {d} : dialogues'[e] = dialogues[e]
BY DEF TablesTyped

LEMMA CreateStep ==
    ASSUME HistoryInv, NEW d \in Dialogues, Create(d)
    PROVE  HistoryStep
<1>. USE DEF HistoryInv, HistoryTyped, TablesTyped
<1>1. /\ dialogues' = [dialogues EXCEPT ![d].kind = "new"]
      /\ turns' = turns /\ items' = items /\ significance' = significance
      /\ feed' = feed \o <<Summary(d)>>
    BY DEF Create, Publish
<1>. DEFINE row == [dialogues[d] EXCEPT !.kind = "new"]
<1>2. dialogues[d] \in DialogueRow
    OBVIOUS
<1>3. /\ row \in DialogueRow /\ row.kind = "new"
      /\ row.turn = dialogues[d].turn /\ row.status = dialogues[d].status
      /\ row.itemSequence = dialogues[d].itemSequence
    BY <1>2 DEF DialogueRow
<1>4. dialogues' = [dialogues EXCEPT ![d] = row]
    BY <1>1
<1>. HIDE DEF row
<1>5. /\ dialogues' \in [Dialogues -> DialogueRow] /\ dialogues'[d] = row
      /\ \A e \in Dialogues \ {d} : dialogues'[e] = dialogues[e]
    BY <1>3, <1>4, RowReplaced
<1>. QED
    BY <1>1, <1>3, <1>5, RowOnly

LEMMA BindSessionStep ==
    ASSUME HistoryInv, NEW d \in Dialogues, BindSession(d)
    PROVE  HistoryStep
<1>. USE DEF HistoryInv, HistoryTyped, TablesTyped
<1>1. /\ dialogues' = [dialogues EXCEPT ![d].session = TRUE]
      /\ turns' = turns /\ items' = items /\ significance' = significance
      /\ feed' = feed \o <<Summary(d)>>
    BY DEF BindSession, Publish
<1>. DEFINE row == [dialogues[d] EXCEPT !.session = TRUE]
<1>2. dialogues[d] \in DialogueRow
    OBVIOUS
<1>3. dialogues[d].kind # "none"
    BY DialogueIsThere DEF TableInv, BindSession
<1>4. /\ row \in DialogueRow /\ row.kind = dialogues[d].kind
      /\ row.turn = dialogues[d].turn /\ row.status = dialogues[d].status
      /\ row.itemSequence = dialogues[d].itemSequence
    BY <1>2 DEF DialogueRow
<1>5. dialogues' = [dialogues EXCEPT ![d] = row]
    BY <1>1
<1>. HIDE DEF row
<1>6. /\ dialogues' \in [Dialogues -> DialogueRow] /\ dialogues'[d] = row
      /\ \A e \in Dialogues \ {d} : dialogues'[e] = dialogues[e]
    BY <1>4, <1>5, RowReplaced
<1>. QED
    BY <1>1, <1>3, <1>4, <1>6, RowOnly

LEMMA MarkReadStep ==
    ASSUME HistoryInv, NEW c \in Clients, MarkRead(c),
           clients[c].dialogue \in Dialogues, clients[c].observed \in Nat,
           dialogues[clients[c].dialogue].kind # "none"
    PROVE  HistoryStep
<1>. USE DEF HistoryInv, HistoryTyped, TablesTyped
<1>. DEFINE d == clients[c].dialogue
            o == clients[c].observed
<1>1. /\ dialogues' = [dialogues EXCEPT ![d].read = o]
      /\ turns' = turns /\ items' = items /\ significance' = significance
      /\ feed' = feed \o <<Summary(d)>>
    BY DEF MarkRead, Publish
<1>. HIDE DEF d, o
<1>2. d \in Dialogues /\ o \in Nat /\ dialogues[d].kind # "none"
    BY DEF d, o
<1>. DEFINE row == [dialogues[d] EXCEPT !.read = o]
<1>3. dialogues[d] \in DialogueRow
    BY <1>2
<1>4. /\ row \in DialogueRow /\ row.kind = dialogues[d].kind
      /\ row.turn = dialogues[d].turn /\ row.status = dialogues[d].status
      /\ row.itemSequence = dialogues[d].itemSequence
    BY <1>2, <1>3 DEF DialogueRow
<1>5. dialogues' = [dialogues EXCEPT ![d] = row]
    BY <1>1
<1>. HIDE DEF row
<1>6. /\ dialogues' \in [Dialogues -> DialogueRow] /\ dialogues'[d] = row
      /\ \A e \in Dialogues \ {d} : dialogues'[e] = dialogues[e]
    BY <1>2, <1>4, <1>5, RowReplaced
<1>. QED
    BY <1>1, <1>2, <1>4, <1>6, RowOnly

LEMMA ProgressStep ==
    ASSUME HistoryInv, NEW d \in Dialogues, Progress(d)
    PROVE  HistoryStep
<1>1. /\ dialogues' = dialogues
      /\ turns' = turns /\ items' = items /\ significance' = significance
      /\ feed' = feed \o <<Summary(d)>>
    BY DEF Progress, Publish
<1>2. dialogues[d].kind # "none"
    BY DialogueIsThere DEF HistoryInv, TableInv, Progress
<1>3. dialogues' \in [Dialogues -> DialogueRow]
    BY <1>1 DEF HistoryInv, HistoryTyped, TablesTyped
<1>. QED
    BY <1>1, <1>2, <1>3, RowOnly

-----------------------------------------------------------------------------
(* Rows and changes.                                                       *)

\* The row of one dialogue is replaced.
\* The row counts one item more.
LEMMA RowCounts ==
    ASSUME TablesTyped, NEW d \in Dialogues,
           dialogues' = [dialogues EXCEPT ![d].itemSequence = @ + 1]
    PROVE  /\ dialogues' \in [Dialogues -> DialogueRow]
           /\ dialogues'[d].kind = dialogues[d].kind
           /\ dialogues'[d].turn = dialogues[d].turn
           /\ dialogues'[d].status = dialogues[d].status
           /\ dialogues'[d].itemSequence = NextSequence(d)
           /\ \A e \in Dialogues \ {d} : dialogues'[e] = dialogues[e]
<1>. DEFINE n   == NextSequence(d)
            row == [dialogues[d] EXCEPT !.itemSequence = n]
<1>1. n \in Nat /\ dialogues[d] \in DialogueRow
    BY DEF TablesTyped, DialogueRow, NextSequence
<1>2. dialogues' = [dialogues EXCEPT ![d] = row]
    BY DEF NextSequence
<1>. HIDE DEF n
<1>3. /\ row \in DialogueRow /\ row.kind = dialogues[d].kind
      /\ row.turn = dialogues[d].turn /\ row.status = dialogues[d].status
      /\ row.itemSequence = n
    BY <1>1 DEF DialogueRow
<1>. HIDE DEF row
<1>4. /\ dialogues' \in [Dialogues -> DialogueRow] /\ dialogues'[d] = row
      /\ \A e \in Dialogues \ {d} : dialogues'[e] = dialogues[e]
    BY <1>2, <1>3, RowReplaced
<1>. QED
    BY <1>3, <1>4 DEF n

\* The row counts one item more and is BUSY, with this turn.
LEMMA RowBusy ==
    ASSUME TablesTyped, NEW d \in Dialogues, NEW t \in Turns \cup {NoTurn},
           dialogues' = [dialogues EXCEPT
              ![d] = [dialogues[d] EXCEPT !.itemSequence = @ + 1, !.turn = t,
                                          !.status = "BUSY"]]
    PROVE  /\ dialogues' \in [Dialogues -> DialogueRow]
           /\ dialogues'[d].kind = dialogues[d].kind
           /\ dialogues'[d].turn = t
           /\ dialogues'[d].status = "BUSY"
           /\ dialogues'[d].itemSequence = NextSequence(d)
           /\ \A e \in Dialogues \ {d} : dialogues'[e] = dialogues[e]
<1>. DEFINE n   == NextSequence(d)
            row == [dialogues[d] EXCEPT !.itemSequence = n, !.turn = t,
                                        !.status = "BUSY"]
<1>1. n \in Nat /\ dialogues[d] \in DialogueRow
    BY DEF TablesTyped, DialogueRow, NextSequence
<1>2. dialogues' = [dialogues EXCEPT ![d] = row]
    BY DEF NextSequence
<1>. HIDE DEF n
<1>3. /\ row \in DialogueRow /\ row.kind = dialogues[d].kind
      /\ row.turn = t /\ row.status = "BUSY" /\ row.itemSequence = n
    BY <1>1 DEF DialogueRow
<1>. HIDE DEF row
<1>4. /\ dialogues' \in [Dialogues -> DialogueRow] /\ dialogues'[d] = row
      /\ \A e \in Dialogues \ {d} : dialogues'[e] = dialogues[e]
    BY <1>2, <1>3, RowReplaced
<1>. QED
    BY <1>3, <1>4 DEF n

\* The row may get another status, and may have no session any more.
LEMMA RowGets ==
    ASSUME TablesTyped, NEW d \in Dialogues, NEW session \in BOOLEAN,
           NEW status \in {"READY", "BUSY", "UNCERTAIN"},
           dialogues' = [dialogues EXCEPT
              ![d] = [dialogues[d] EXCEPT !.session = session,
                                          !.status = status]]
    PROVE  /\ dialogues' \in [Dialogues -> DialogueRow]
           /\ dialogues'[d].kind = dialogues[d].kind
           /\ dialogues'[d].turn = dialogues[d].turn
           /\ dialogues'[d].itemSequence = dialogues[d].itemSequence
           /\ dialogues'[d].status = status
           /\ \A e \in Dialogues \ {d} : dialogues'[e] = dialogues[e]
<1>. DEFINE row == [dialogues[d] EXCEPT !.session = session, !.status = status]
<1>1. dialogues[d] \in DialogueRow
    BY DEF TablesTyped
<1>2. /\ row \in DialogueRow /\ row.kind = dialogues[d].kind
      /\ row.turn = dialogues[d].turn /\ row.status = status
      /\ row.itemSequence = dialogues[d].itemSequence
    BY <1>1 DEF DialogueRow
<1>. HIDE DEF row
<1>3. /\ dialogues' \in [Dialogues -> DialogueRow] /\ dialogues'[d] = row
      /\ \A e \in Dialogues \ {d} : dialogues'[e] = dialogues[e]
    BY <1>2, RowReplaced DEF row
<1>. QED
    BY <1>2, <1>3

\* The row may get another status only.
LEMMA RowShows ==
    ASSUME TablesTyped, NEW d \in Dialogues,
           NEW status \in {"READY", "BUSY", "UNCERTAIN"},
           dialogues' = [dialogues EXCEPT ![d].status = status]
    PROVE  /\ dialogues' \in [Dialogues -> DialogueRow]
           /\ dialogues'[d].kind = dialogues[d].kind
           /\ dialogues'[d].turn = dialogues[d].turn
           /\ dialogues'[d].itemSequence = dialogues[d].itemSequence
           /\ dialogues'[d].status = status
           /\ \A e \in Dialogues \ {d} : dialogues'[e] = dialogues[e]
<1>. DEFINE row == [dialogues[d] EXCEPT !.status = status]
<1>1. dialogues[d] \in DialogueRow
    BY DEF TablesTyped
<1>2. /\ row \in DialogueRow /\ row.kind = dialogues[d].kind
      /\ row.turn = dialogues[d].turn /\ row.status = status
      /\ row.itemSequence = dialogues[d].itemSequence
    BY <1>1 DEF DialogueRow
<1>3. dialogues' = [dialogues EXCEPT ![d] = row]
    OBVIOUS
<1>. HIDE DEF row
<1>4. /\ dialogues' \in [Dialogues -> DialogueRow] /\ dialogues'[d] = row
      /\ \A e \in Dialogues \ {d} : dialogues'[e] = dialogues[e]
    BY <1>2, <1>3, RowReplaced
<1>. QED
    BY <1>2, <1>4

\* An item that is added is told, and then the row.
LEMMA AddedThenSummary ==
    ASSUME NEW item \in Item, NEW d \in Dialogues
    PROVE  Announces(<<Upsert(item), Summary(d)>>, {}, {item})
<1>. DEFINE none  == {}
            added == {item}
            one   == Upsert(item)
            last  == Summary(d)
<1>1. one \in Change /\ last \in Change
    BY UpsertNames DEF Summary, Change
<1>2. Announces(<<one>>, none, added)
    BY AddedAnnounces
<1>3. Announces(<<last>>, none, none)
    BY SummaryAnnounces
<1>4. none \cup none = none /\ added \cup none = added
    OBVIOUS
<1>. HIDE DEF none, added, one, last
<1>5. <<one>> \o <<last>> = <<one, last>>
    <2>1. <<one>> \in Seq(Change)
        BY <1>1
    <2>2. Append(<<one>>, last) = <<one>> \o <<last>>
        BY <1>1, <2>1, AppendIsConcat
    <2>3. Append(<<one>>, last) = <<one, last>>
        <3>. DEFINE u == Append(<<one>>, last)
                    v == <<one, last>>
        <3>1. Len(<<one>>) = 1 /\ <<one>>[1] = one
            OBVIOUS
        <3>2. u \in Seq(Change) /\ Len(u) = 2 /\ u[1] = one /\ u[2] = last
            BY <1>1, <2>1, <3>1, AppendProperties
        <3>3. v \in Seq(Change) /\ Len(v) = 2 /\ v[1] = one /\ v[2] = last
            BY <1>1
        <3>. HIDE DEF u, v
        <3>4. \A n \in 1..Len(u) : u[n] = v[n]
            BY <3>2, <3>3
        <3>5. u = v
            BY <3>2, <3>3, <3>4, SeqEqual
        <3>. QED
            BY <3>5 DEF u, v
    <2>. QED
        BY <2>2, <2>3
<1>6. Announces(<<one>> \o <<last>>, none \cup none, added \cup none)
    BY <1>2, <1>3, AnnouncesBoth
<1>7. Announces(<<one, last>>, none, added)
    BY <1>4, <1>5, <1>6
<1>. QED
    BY <1>7 DEF none, added, one, last

-----------------------------------------------------------------------------
(* Text and activity of the active turn.                                   *)

LEMMA ActiveTurn ==
    ASSUME RowsAgree, NEW d \in Dialogues, NEW t \in Turns,
           dialogues[d].turn = t
    PROVE  /\ dialogues[d].kind # "none" /\ dialogues[d].status = "BUSY"
           /\ turns[t].status = "OPEN" /\ turns[t].dialogue = d
           /\ t # NoTurn
BY NullsAssumption, DialogueIsThere DEF RowsAgree

\* An item of the turn is added, and told.
LEMMA ActiveAdds ==
    ASSUME HistoryInv, NEW d \in Dialogues, NEW t \in Turns,
           dialogues[d].turn = t,
           NEW of \in {"assistant", "activity"}, NEW item \in Item, NEW changes,
           Found(d, IdOf(of, t)) = {},
           item.dialogue = d, item.id = IdOf(of, t), item.turn = t,
           item.sequence = NextSequence(d), ~item.historical,
           item.status = "STREAMING" => of = "assistant",
           item.status = "IN_PROGRESS" => of = "activity",
           item.status \notin {"PENDING", "RESPONDING"},
           turns' = turns, significance' = significance,
           feed' = feed \o changes, Announces(changes, {}, {item}),
           items' = items \cup {item},
           dialogues' = [dialogues EXCEPT ![d].itemSequence = @ + 1]
    PROVE  HistoryStep
<1>. USE DEF HistoryInv, HistoryTyped, TablesTyped, TableInv
<1>. DEFINE none == {}
            new  == {item}
<1>1. /\ dialogues[d].kind # "none" /\ dialogues[d].status = "BUSY"
      /\ turns[t].status = "OPEN" /\ turns[t].dialogue = d
      /\ t # NoTurn
    BY ActiveTurn
<1>2. item.id.of = of /\ item.id.key = t
    BY DEF IdOf
<1>3. /\ dialogues' \in [Dialogues -> DialogueRow]
      /\ dialogues'[d].kind = dialogues[d].kind
      /\ dialogues'[d].turn = dialogues[d].turn
      /\ dialogues'[d].status = dialogues[d].status
      /\ dialogues'[d].itemSequence = NextSequence(d)
      /\ \A e \in Dialogues \ {d} : dialogues'[e] = dialogues[e]
    BY RowCounts
<1>4. Adds(d, new)
    BY <1>3 DEF Adds
<1>5. items' = (items \ none) \cup (none \cup new)
    OBVIOUS
<1>6. Edits(d, none, none, new)
    BY <1>3, <1>4, <1>5, RenewsNothing DEF Edits
<1>7. Handles(d, none, none, new, changes)
    BY <1>1, <1>3, <1>6 DEF Handles
<1>8. NamedWell(item) /\ item.id.of \notin Results
    BY <1>1, <1>2 DEF NamedWell, Results
<1>9. ASSUME NEW j \in new
      PROVE  Works(j)'
    <2>1. turns'[j.turn].status \notin Settled
        BY <1>1 DEF Settled
    <2>. QED
        BY <1>2, <2>1 DEF Works
<1>10. /\ \A j \in new : NamedWell(j) /\ j.id.of \notin Results
       /\ \A j \in none \cup new : Works(j)'
    BY <1>8, <1>9
<1>11. /\ dialogues'[d].kind # "none" /\ dialogues'[d].status = "BUSY"
       /\ dialogues'[d].turn = dialogues[d].turn
    BY <1>1, <1>3
<1>. HIDE DEF new, none
<1>. QED
    BY <1>3, <1>7, <1>10, <1>11, TurnsAloneStep

\* The items of the turn that are found are renewed, and told.
LEMMA ActiveRenews ==
    ASSUME HistoryInv, NEW d \in Dialogues, NEW t \in Turns,
           dialogues[d].turn = t,
           NEW of \in {"assistant", "activity"}, NEW new, NEW changes,
           Renews(d, Found(d, IdOf(of, t)), new),
           \A j \in new :
              /\ j.status = "STREAMING" => of = "assistant"
              /\ j.status = "IN_PROGRESS" => of = "activity"
              /\ j.status \notin {"PENDING", "RESPONDING"},
           turns' = turns, significance' = significance,
           feed' = feed \o changes, Announces(changes, new, {}),
           items' = (items \ Found(d, IdOf(of, t))) \cup new,
           dialogues' = dialogues
    PROVE  HistoryStep
<1>. USE DEF HistoryInv, HistoryTyped, TablesTyped, TableInv
<1>. DEFINE none == {}
            old  == Found(d, IdOf(of, t))
<1>1. /\ dialogues[d].kind # "none" /\ dialogues[d].status = "BUSY"
      /\ turns[t].status = "OPEN" /\ turns[t].dialogue = d
      /\ t # NoTurn
    BY ActiveTurn
<1>2. Adds(d, none)
    BY DEF Adds
<1>3. Edits(d, old, new, none)
    BY <1>2 DEF Edits
<1>4. Handles(d, old, new, none, changes)
    BY <1>3 DEF Handles
<1>5. \A j \in new : Works(j)'
    <2>. TAKE j \in new
    <2>1. PICK i \in old : Same(i, j)
        BY DEF Renews
    <2>2. i \in items /\ i.id.of = of /\ i.id.key = t
        BY DEF Found, ItemsOf, IdOf
    <2>3. i.turn = t
        BY <2>2 DEF Named, NamedWell
    <2>4. j.turn = t /\ j.id.of = of
        BY <2>1, <2>2, <2>3 DEF Same
    <2>5. turns'[j.turn].status \notin Settled
        BY <1>1, <2>4 DEF Settled
    <2>. QED
        BY <2>4, <2>5 DEF Works
<1>6. /\ \A j \in none : NamedWell(j) /\ j.id.of \notin Results
      /\ \A j \in new \cup none : Works(j)'
    BY <1>5
<1>7. /\ dialogues'[d].kind # "none" /\ dialogues'[d].status = "BUSY"
      /\ dialogues'[d].turn = dialogues[d].turn
      /\ dialogues' \in [Dialogues -> DialogueRow]
    BY <1>1
<1>. HIDE DEF old, none
<1>. QED
    BY <1>4, <1>6, <1>7, TurnsAloneStep

\* Of the items that are found, none is a copy.
LEMMA FoundIsOwn ==
    ASSUME Named, NEW d, NEW of, NEW key, of # "copy"
    PROVE  \A i \in Found(d, IdOf(of, key)) :
              i \in ItemsOf(d) /\ ~i.historical /\ i.id.of = of
BY DEF Found, ItemsOf, IdOf, Named, NamedWell

\* The changes of what was renewed, or of one item that was added.
LEMMA RenewedAnnounces ==
    ASSUME TablesTyped, Numbered, NEW d \in Dialogues, NEW old, NEW new,
           Renews(d, old, new)
    PROVE  Announces(Upserts(new), new, {})
BY RenewedIsFinite, UpsertsAnnounce DEF Renews

LEMMA UpsertsOfOne ==
    ASSUME NEW i \in Item
    PROVE  Announces(Upserts({i}), {}, {i})
<1>1. {i} \in SUBSET Item /\ IsFiniteSet({i}) /\ Distinct({i})
    BY FS_Singleton DEF Distinct
<1>2. Announces(Upserts({i}), {i}, {}) /\ Cardinality({i}) = 1
    BY <1>1, UpsertsAnnounce, FS_Singleton
<1>3. \A n \in 1..Len(Upserts({i})) :
          Upserts({i})[n].kind # "HISTORY_TEXT_APPENDED"
    BY <1>2 DEF Upserts, Upsert
<1>. QED
    BY <1>2, <1>3 DEF Announces

\* A new item of the turn.
LEMMA NewItemOfTurn ==
    ASSUME TablesTyped, NEW d \in Dialogues, NEW t \in Turns,
           NEW of \in {"assistant", "activity"}, NEW status \in ItemStatus,
           NEW version \in Nat
    PROVE  LET item == NewItem(d, IdOf(of, t), NextSequence(d), t, status,
                               version)
           IN  /\ item \in Item /\ item.dialogue = d /\ item.id = IdOf(of, t)
               /\ item.turn = t /\ item.sequence = NextSequence(d)
               /\ ~item.historical /\ item.status = status
               /\ item.version = version
<1>1. IdOf(of, t) \in Id
    BY DEF Id, IdOf
<1>2. dialogues[d].itemSequence + 1 \in Nat \ {0}
    BY DEF TablesTyped, DialogueRow
<1>. QED
    BY <1>1, <1>2 DEF Item, NewItem, NextSequence

LEMMA AppendTextStep ==
    ASSUME HistoryInv, NEW d \in Dialogues, NEW t \in Turns, AppendText(d, t)
    PROVE  HistoryStep
<1>. USE DEF HistoryInv, HistoryTyped, TableInv
<1>. DEFINE id   == IdOf("assistant", t)
            old  == Found(d, id)
            item == NewItem(d, id, NextSequence(d), t, "STREAMING", 1)
            new  == IF old = {} THEN {item}
                    ELSE {[i EXCEPT !.version = @ + 1] : i \in old}
<1>1. /\ dialogues[d].turn = t
      /\ dialogues' = IF old = {}
                      THEN [dialogues EXCEPT ![d].itemSequence = @ + 1]
                      ELSE dialogues
      /\ items' = (items \ old) \cup new
      /\ turns' = turns /\ significance' = significance
    BY DEF AppendText, IsActiveTurn, Write
<1>2. PICK i \in new : feed' = feed \o <<TextAppended(i)>>
    BY DEF AppendText, Publish
<1>3. \A k \in old : k \in ItemsOf(d) /\ ~k.historical /\ k.id.of = "assistant"
    BY FoundIsOwn
<1>4. \A k \in old : k.status \notin {"PENDING", "RESPONDING", "IN_PROGRESS"}
    BY <1>3 DEF OpenWork, Works, ItemsOf
<1>5. \A k, l \in old : k = l
    BY DEF Found, ItemsOf, Numbered
<1>6. CASE old = {}
    <2>1. /\ item \in Item /\ item.dialogue = d /\ item.id = id
          /\ item.turn = t /\ item.sequence = NextSequence(d)
          /\ ~item.historical /\ item.status = "STREAMING"
          /\ item.version = 1
        <3>1. "STREAMING" \in ItemStatus /\ 1 \in Nat /\ TablesTyped
            BY DEF ItemStatus
        <3>. HIDE DEF HistoryInv, HistoryTyped, TableInv, old, new
        <3>. QED
            BY <3>1, NewItemOfTurn
    <2>2. new = {item} /\ i = item
        BY <1>6
    <2>3. items' = items \cup {item}
        BY <1>1, <1>6, <2>2
    <2>4. dialogues' = [dialogues EXCEPT ![d].itemSequence = @ + 1]
        BY <1>1, <1>6
    <2>5. feed' = feed \o <<TextAppended(item)>>
        BY <1>2, <2>2
    <2>. HIDE DEF item
    <2>6. Announces(<<TextAppended(item)>>, {}, {item})
        BY <2>1, TextAnnounces
    <2>. QED
        BY <1>1, <1>6, <2>1, <2>3, <2>4, <2>5, <2>6, ActiveAdds
<1>7. CASE old # {}
    <2>1. new = {[k EXCEPT !.version = @ + 1] : k \in old}
        BY <1>7
    <2>2. Renews(d, old, new)
        BY <1>3, <2>1, TextRenews
    <2>3. \A j \in new : j.status \notin
             {"PENDING", "RESPONDING", "IN_PROGRESS"}
        BY <1>3, <1>4, <2>1 DEF ItemsOf, TablesTyped, Item
    <2>4. new = {i} /\ i \in Item
        <3>1. PICK k \in old : i = [k EXCEPT !.version = @ + 1]
            BY <2>1
        <3>2. new = {i}
            BY <1>5, <2>1, <3>1
        <3>. QED
            BY <2>2, <3>2 DEF Renews
    <2>. HIDE DEF new
    <2>5. Announces(<<TextAppended(i)>>, new, {})
        BY <2>4, TextAnnounces
    <2>6. dialogues' = dialogues
        BY <1>1, <1>7
    <2>. QED
        BY <1>1, <1>2, <2>2, <2>3, <2>5, <2>6, ActiveRenews
<1>. QED
    BY <1>6, <1>7

\* The turn's message or activity gets a status, and is told as an upsert.
LEMMA ActiveBecomes ==
    ASSUME HistoryInv, NEW d \in Dialogues, NEW t \in Turns,
           dialogues[d].turn = t,
           NEW of \in {"assistant", "activity"}, NEW status \in ItemStatus,
           status = "STREAMING" => of = "assistant",
           status = "IN_PROGRESS" => of = "activity",
           status \notin {"PENDING", "RESPONDING"}, NEW new,
           turns' = turns, significance' = significance,
           feed' = feed \o Upserts(new),
           items' = (items \ Found(d, IdOf(of, t))) \cup new,
           new = Becomes(Found(d, IdOf(of, t)), status),
           dialogues' = dialogues
    PROVE  HistoryStep
<1>. USE DEF HistoryInv, HistoryTyped, TableInv
<1>. DEFINE old == Found(d, IdOf(of, t))
<1>1. old \in SUBSET ItemsOf(d) /\ \A i \in old : ~i.historical
    <2>1. Named /\ of # "copy"
        OBVIOUS
    <2>2. \A i \in old : i \in ItemsOf(d) /\ ~i.historical
        BY <2>1, FoundIsOwn
    <2>. QED
        BY <2>2
<1>2. Renews(d, old, new) /\ \A j \in new : j.status = status
    BY <1>1, BecomesRenews
<1>3. Announces(Upserts(new), new, {})
    BY <1>2, RenewedAnnounces
<1>. QED
    BY <1>2, <1>3, ActiveRenews

LEMMA CompleteMessageStep ==
    ASSUME HistoryInv, NEW d \in Dialogues, NEW t \in Turns,
           CompleteMessage(d, t)
    PROVE  HistoryStep
<1>. DEFINE id   == IdOf("assistant", t)
            old  == Found(d, id)
            item == NewItem(d, id, NextSequence(d), t, "STREAMING", 0)
            from == IF old # {} THEN old ELSE {item}
            new  == Becomes(from, "COMPLETED")
<1>1. /\ dialogues[d].turn = t
      /\ dialogues' = IF old = {}
                      THEN [dialogues EXCEPT ![d].itemSequence = @ + 1]
                      ELSE dialogues
      /\ items' = (items \ old) \cup new
      /\ turns' = turns /\ significance' = significance
      /\ feed' = feed \o Upserts(new)
    BY DEF CompleteMessage, IsActiveTurn, Write, Publish
<1>2. "COMPLETED" \in ItemStatus /\ "STREAMING" \in ItemStatus
    BY DEF ItemStatus
<1>3. CASE old = {}
    <2>1. /\ item \in Item /\ item.dialogue = d /\ item.id = id
          /\ item.turn = t /\ item.sequence = NextSequence(d)
          /\ ~item.historical
        BY <1>2, NewItemOfTurn DEF HistoryInv, HistoryTyped
    <2>2. from = {item}
        BY <1>3
    <2>. DEFINE last == [item EXCEPT !.status = "COMPLETED", !.version = @ + 1]
    <2>3. new = {last}
        BY <2>2 DEF Becomes
    <2>4. /\ items' = items \cup {last} /\ feed' = feed \o Upserts({last})
          /\ dialogues' = [dialogues EXCEPT ![d].itemSequence = @ + 1]
        BY <1>1, <1>3, <2>3
    <2>. HIDE DEF item
    <2>5. /\ last \in Item /\ last.dialogue = d /\ last.id = id
          /\ last.turn = t /\ last.sequence = NextSequence(d)
          /\ ~last.historical /\ last.status = "COMPLETED"
        <3>1. item.version + 1 \in Nat
            BY <2>1 DEF Item
        <3>. QED
            BY <1>2, <2>1, <3>1 DEF Item
    <2>. HIDE DEF last
    <2>6. Announces(Upserts({last}), {}, {last})
        BY <2>5, UpsertsOfOne
    <2>. QED
        BY <1>1, <1>3, <2>4, <2>5, <2>6, ActiveAdds
<1>4. CASE old # {}
    <2>1. new = Becomes(old, "COMPLETED") /\ dialogues' = dialogues
        BY <1>1, <1>4
    <2>. HIDE DEF new
    <2>. QED
        BY <1>1, <1>2, <2>1, ActiveBecomes
<1>. QED
    BY <1>3, <1>4

LEMMA RecordActivityStep ==
    ASSUME HistoryInv, NEW d \in Dialogues, NEW t \in Turns,
           NEW status \in {"IN_PROGRESS", "COMPLETED"},
           RecordActivity(d, t, status)
    PROVE  HistoryStep
<1>. DEFINE id   == IdOf("activity", t)
            old  == Found(d, id)
            item == NewItem(d, id, NextSequence(d), t, status, 0)
            new  == IF old = {} THEN {item} ELSE Becomes(old, status)
<1>1. /\ dialogues[d].turn = t
      /\ dialogues' = IF old = {}
                      THEN [dialogues EXCEPT ![d].itemSequence = @ + 1]
                      ELSE dialogues
      /\ items' = (items \ old) \cup new
      /\ turns' = turns /\ significance' = significance
      /\ feed' = feed \o Upserts(new)
    BY DEF RecordActivity, IsActiveTurn, Write, Publish
<1>2. status \in ItemStatus
    BY DEF ItemStatus
<1>3. CASE old = {}
    <2>1. /\ item \in Item /\ item.dialogue = d /\ item.id = id
          /\ item.turn = t /\ item.sequence = NextSequence(d)
          /\ ~item.historical /\ item.status = status
        BY <1>2, NewItemOfTurn DEF HistoryInv, HistoryTyped
    <2>2. new = {item}
        BY <1>3
    <2>3. /\ items' = items \cup {item} /\ feed' = feed \o Upserts({item})
          /\ dialogues' = [dialogues EXCEPT ![d].itemSequence = @ + 1]
        BY <1>1, <1>3, <2>2
    <2>. HIDE DEF item
    <2>4. Announces(Upserts({item}), {}, {item})
        BY <2>1, UpsertsOfOne
    <2>. QED
        BY <1>1, <1>3, <2>1, <2>3, <2>4, ActiveAdds
<1>4. CASE old # {}
    <2>1. new = Becomes(old, status) /\ dialogues' = dialogues
        BY <1>1, <1>4
    <2>. HIDE DEF new
    <2>. QED
        BY <1>1, <1>2, <2>1, ActiveBecomes
<1>. QED
    BY <1>3, <1>4

-----------------------------------------------------------------------------
(* Questions, their answers, and sessions that end with no turn active.    *)

\* What was renewed is told, and then the row.
LEMMA UpsertsThenSummary ==
    ASSUME TablesTyped, Numbered, NEW d \in Dialogues, NEW old, NEW new,
           Renews(d, old, new)
    PROVE  Announces(Append(Upserts(new), Summary(d)), new, {})
<1>. DEFINE upserts == Upserts(new)
            none    == {}
            whole   == new \cup none
            nothing == none \cup none
<1>1. Announces(upserts, new, none)
    BY RenewedAnnounces
<1>2. Announces(<<Summary(d)>>, none, none)
    BY SummaryAnnounces
<1>3. whole = new /\ nothing = none
    OBVIOUS
<1>4. Summary(d) \in Change /\ upserts \in Seq(Change)
    BY <1>1 DEF Announces, Summary, Change
<1>. HIDE DEF upserts, none
<1>5. Announces(upserts \o <<Summary(d)>>, whole, nothing)
    BY <1>1, <1>2, AnnouncesBoth
<1>6. Append(upserts, Summary(d)) = upserts \o <<Summary(d)>>
    BY <1>4
<1>7. Announces(Append(upserts, Summary(d)), new, none)
    BY <1>3, <1>5, <1>6
<1>. QED
    BY <1>7 DEF upserts, none

\* Items get settled, and no turn is.
LEMMA SettlesStep ==
    ASSUME HistoryInv, NEW d \in Dialogues, NEW old, NEW new, NEW changes,
           Renews(d, old, new), \A j \in new : j.status \notin Unfinished,
           items' = (items \ old) \cup new,
           Announces(changes, new, {}), feed' = feed \o changes,
           significance' = significance \/ Significant(d, new),
           turns' = turns, dialogues' \in [Dialogues -> DialogueRow],
           dialogues[d].kind # "none",
           dialogues'[d].kind = dialogues[d].kind,
           dialogues'[d].turn = dialogues[d].turn,
           dialogues'[d].itemSequence = dialogues[d].itemSequence,
           \A e \in Dialogues \ {d} : dialogues'[e] = dialogues[e],
           dialogues[d].turn # NoTurn => dialogues'[d].status = "BUSY",
           dialogues'[d].status = "READY" =>
              \A i \in ItemsOf(d) \ old : ~i.historical =>
                 i.status \notin {"PENDING", "RESPONDING"}
    PROVE  HistoryStep
<1>. USE DEF HistoryInv, HistoryTyped, TablesTyped, TableInv
<1>. DEFINE none == {}
<1>1. Adds(d, none)
    BY DEF Adds
<1>2. Edits(d, old, new, none)
    BY <1>1 DEF Edits
<1>3. Handles(d, old, new, none, changes)
    <2>1. new \in SUBSET (new \cup none)
        OBVIOUS
    <2>. QED
        BY <1>2, <2>1 DEF Handles
<1>4. \A j \in new : Works(j)'
    <2>. TAKE j \in new
    <2>1. PICK i \in old : Same(i, j)
        BY DEF Renews
    <2>2. i \in items /\ Works(i)
        BY DEF Renews, ItemsOf, OpenWork
    <2>3. j.status \notin Unfinished
        OBVIOUS
    <2>. QED
        BY <2>1, <2>2, <2>3 DEF Works, Same, Unfinished
<1>5. /\ \A j \in none : NamedWell(j) /\ j.id.of \notin Results
      /\ \A j \in new \cup none : Works(j)'
    BY <1>4
<1>. HIDE DEF none
<1>. QED
    BY <1>3, <1>5, TurnsAloneStep

LEMMA RespondStep ==
    ASSUME HistoryInv, NEW d \in Dialogues, NEW i \in Interactions,
           Respond(d, i)
    PROVE  HistoryStep
<1>. USE DEF HistoryInv, HistoryTyped, TablesTyped, TableInv
<1>. DEFINE id == IdOf("interaction", i)
<1>1. PICK o \in Found(d, id) :
         /\ o.status = "PENDING"
         /\ items' = (items \ {o}) \cup Becomes({o}, "RESPONDING")
         /\ feed' = feed \o Upserts(Becomes({o}, "RESPONDING"))
         /\ dialogues' = dialogues /\ turns' = turns
         /\ significance' = significance
    BY DEF Respond, Write, Publish
<1>. DEFINE old  == {o}
            new  == Becomes(old, "RESPONDING")
            none == {}
<1>2. o \in items /\ o.dialogue = d /\ ~o.historical /\ Works(o)
    <2>1. o \in ItemsOf(d) /\ ~o.historical
        BY FoundIsOwn
    <2>. QED
        BY <2>1 DEF ItemsOf, OpenWork
<1>3. old \in SUBSET ItemsOf(d) /\ \A k \in old : ~k.historical
    BY <1>2 DEF ItemsOf
<1>4. Renews(d, old, new) /\ \A j \in new : j.status = "RESPONDING"
    BY <1>3, BecomesRenews DEF ItemStatus
<1>5. items' = (items \ old) \cup (new \cup none) /\ feed' = feed \o Upserts(new)
    BY <1>1
<1>. HIDE DEF new
<1>6. Announces(Upserts(new), new, none)
    BY <1>4, RenewedAnnounces
<1>7. Adds(d, none)
    BY <1>1 DEF Adds
<1>8. Edits(d, old, new, none)
    BY <1>1, <1>4, <1>5, <1>7 DEF Edits
<1>9. Handles(d, old, new, none, Upserts(new))
    BY <1>1, <1>5, <1>6, <1>8 DEF Handles
<1>10. \A j \in new : Works(j)'
    <2>. TAKE j \in new
    <2>1. Same(o, j)
        BY <1>4 DEF Renews
    <2>2. /\ dialogues[d].status # "READY" /\ o.id.of = "interaction"
          /\ ~(o.turn # NoTurn /\ turns[o.turn].status \in Settled)
        BY <1>1, <1>2 DEF Works, Unfinished
    <2>. QED
        BY <1>1, <1>2, <1>4, <2>1, <2>2 DEF Works, Same
<1>11. /\ \A j \in none : NamedWell(j) /\ j.id.of \notin Results
       /\ \A j \in new \cup none : Works(j)'
    BY <1>10
<1>12. /\ dialogues' \in [Dialogues -> DialogueRow]
       /\ dialogues'[d].kind # "none"
       /\ dialogues'[d].turn = dialogues[d].turn
       /\ dialogues[d].turn # NoTurn => dialogues'[d].status = "BUSY"
       /\ dialogues'[d].status # "READY"
    BY <1>1, <1>2, ItemsAreThere DEF RowsAgree, Works
<1>. HIDE DEF none, old
<1>. QED
    BY <1>1, <1>9, <1>11, <1>12, TurnsAloneStep

LEMMA RequestStep ==
    ASSUME HistoryInv, NEW d \in Dialogues, NEW i \in Interactions,
           NEW turn, Request(d, i, turn)
    PROVE  HistoryStep
<1>. USE DEF HistoryInv, HistoryTyped, TablesTyped, TableInv
<1>. DEFINE id   == IdOf("interaction", i)
            item == NewItem(d, id, NextSequence(d), turn, "PENDING", 0)
            new  == {item}
            none == {}
<1>1. /\ dialogues[d].session /\ turn \in {NoTurn, dialogues[d].turn}
      /\ Found(d, item.id) = {}
      /\ dialogues' = [dialogues EXCEPT ![d].itemSequence = @ + 1,
                                        ![d].status = "BUSY"]
      /\ items' = (items \ {}) \cup {item} /\ Significant(d, {item})
      /\ feed' = feed \o <<Upsert(item), Summary(d)>> /\ turns' = turns
    BY DEF Request, Write, Publish
<1>2. turn \in Turns \cup {NoTurn}
    BY <1>1 DEF DialogueRow
<1>3. turn # NoTurn => turns[turn].status = "OPEN" /\ turns[turn].dialogue = d
    BY <1>1 DEF RowsAgree
<1>4. id \in Id /\ id.of = "interaction"
    BY DEF Id, IdOf
<1>5. dialogues[d].itemSequence + 1 \in Nat \ {0}
    BY DEF DialogueRow
<1>. HIDE DEF id
<1>6. /\ item \in Item /\ item.dialogue = d /\ item.id = id
      /\ item.turn = turn /\ item.sequence = NextSequence(d)
      /\ ~item.historical /\ item.status = "PENDING"
    BY <1>2, <1>4, <1>5 DEF Item, NewItem, NextSequence, ItemStatus
<1>. HIDE DEF item
<1>7. Announces(<<Upsert(item), Summary(d)>>, none, new)
    BY <1>6, AddedThenSummary
<1>8. /\ dialogues' \in [Dialogues -> DialogueRow]
      /\ dialogues'[d].kind = dialogues[d].kind
      /\ dialogues'[d].turn = dialogues[d].turn
      /\ dialogues'[d].status = "BUSY"
      /\ dialogues'[d].itemSequence = NextSequence(d)
      /\ \A e \in Dialogues \ {d} : dialogues'[e] = dialogues[e]
    <2>1. dialogues' = [dialogues EXCEPT ![d] =
             [dialogues[d] EXCEPT !.itemSequence = @ + 1,
                 !.turn = dialogues[d].turn, !.status = "BUSY"]]
        BY <1>1 DEF DialogueRow
    <2>2. dialogues[d].turn \in Turns \cup {NoTurn}
        BY DEF DialogueRow
    <2>. QED
        BY <2>1, <2>2, RowBusy
<1>9. dialogues[d].kind # "none"
    BY <1>1, DialogueIsThere
<1>10. Adds(d, new)
    BY <1>1, <1>6, <1>8 DEF Adds
<1>11. items' = (items \ none) \cup (none \cup new)
    BY <1>1
<1>12. Edits(d, none, none, new)
    BY <1>8, <1>10, <1>11, RenewsNothing DEF Edits
<1>13. Handles(d, none, none, new, <<Upsert(item), Summary(d)>>)
    <2>1. new \in SUBSET (none \cup new) /\ Significant(d, new)
        BY <1>1
    <2>. QED
        BY <1>1, <1>7, <1>8, <1>9, <1>12, <2>1 DEF Handles
<1>14. \A j \in new : NamedWell(j) /\ j.id.of \notin Results
    BY <1>3, <1>4, <1>6 DEF NamedWell, Results
<1>15. \A j \in new : Works(j)'
    <2>1. ~(turn # NoTurn /\ turns'[turn].status \in Settled)
        BY <1>1, <1>3 DEF Settled
    <2>. QED
        BY <1>4, <1>6, <1>8, <2>1 DEF Works
<1>16. /\ \A j \in none \cup new : Works(j)'
       /\ dialogues'[d].kind # "none" /\ dialogues'[d].status # "READY"
    BY <1>8, <1>9, <1>15
<1>. HIDE DEF none, new
<1>. QED
    BY <1>1, <1>8, <1>13, <1>14, <1>16, TurnsAloneStep

\* Answers that are awaited are renewed, to be resolved or abandoned.
LEMMA PendingRenews ==
    ASSUME TablesTyped, Numbered, NEW d \in Dialogues,
           NEW old \in SUBSET Pending(d),
           NEW status \in {"RESOLVED", "ABANDONED"}
    PROVE  /\ Renews(d, old, Becomes(old, status))
           /\ \A j \in Becomes(old, status) : j.status \notin Unfinished
<1>1. old \in SUBSET ItemsOf(d) /\ \A i \in old : ~i.historical
    BY DEF Pending
<1>2. status \in ItemStatus /\ status \notin Unfinished
    BY DEF ItemStatus, Unfinished
<1>. QED
    BY <1>1, <1>2, BecomesRenews

LEMMA ResolveStep ==
    ASSUME HistoryInv, NEW d \in Dialogues, NEW i \in Interactions,
           Resolve(d, i)
    PROVE  HistoryStep
<1>. USE DEF HistoryInv, HistoryTyped, TableInv
<1>1. PICK o \in Found(d, IdOf("interaction", i)) \cap Pending(d) :
         /\ dialogues[d].session
         /\ dialogues' = [dialogues EXCEPT ![d].status =
               IF Pending(d) \ {o} = {} /\ dialogues[d].turn = NoTurn
               THEN "READY" ELSE "BUSY"]
         /\ items' = (items \ {o}) \cup Becomes({o}, "RESOLVED")
         /\ Significant(d, Becomes({o}, "RESOLVED"))
         /\ feed' = feed \o Append(Upserts(Becomes({o}, "RESOLVED")), Summary(d))
         /\ turns' = turns
    BY DEF Resolve, Write, Publish
<1>. DEFINE old == {o}
            new == Becomes(old, "RESOLVED")
            status == IF Pending(d) \ {o} = {} /\ dialogues[d].turn = NoTurn
                      THEN "READY" ELSE "BUSY"
<1>2. Renews(d, old, new) /\ \A j \in new : j.status \notin Unfinished
    BY PendingRenews
<1>3. /\ status \in {"READY", "BUSY", "UNCERTAIN"}
      /\ status = "READY" => Pending(d) \ {o} = {} /\ dialogues[d].turn = NoTurn
      /\ status # "READY" => status = "BUSY"
    OBVIOUS
<1>4. /\ dialogues' = [dialogues EXCEPT ![d].status = status]
      /\ feed' = feed \o Append(Upserts(new), Summary(d))
      /\ items' = (items \ old) \cup new /\ Significant(d, new)
    BY <1>1
<1>. HIDE DEF status, new
<1>5. /\ dialogues' \in [Dialogues -> DialogueRow]
      /\ dialogues'[d].kind = dialogues[d].kind
      /\ dialogues'[d].turn = dialogues[d].turn
      /\ dialogues'[d].itemSequence = dialogues[d].itemSequence
      /\ dialogues'[d].status = status
      /\ \A e \in Dialogues \ {d} : dialogues'[e] = dialogues[e]
    BY <1>3, <1>4, RowShows
<1>6. dialogues[d].kind # "none"
    BY <1>1, DialogueIsThere
<1>7. Announces(Append(Upserts(new), Summary(d)), new, {})
    BY <1>2, UpsertsThenSummary
<1>8. status = "READY" =>
         \A k \in ItemsOf(d) \ old : ~k.historical =>
            k.status \notin {"PENDING", "RESPONDING"}
    BY <1>3 DEF Pending
<1>9. dialogues[d].turn # NoTurn => dialogues'[d].status = "BUSY"
    BY <1>3, <1>5
<1>10. dialogues'[d].status = "READY" =>
         \A k \in ItemsOf(d) \ old : ~k.historical =>
            k.status \notin {"PENDING", "RESPONDING"}
    BY <1>5, <1>8
<1>. HIDE DEF old
<1>. QED
    BY <1>1, <1>2, <1>4, <1>5, <1>6, <1>7, <1>9, <1>10, SettlesStep

LEMMA FailResponseStep ==
    ASSUME HistoryInv, NEW d \in Dialogues, NEW i \in Interactions,
           FailResponse(d, i)
    PROVE  HistoryStep
<1>. USE DEF HistoryInv, HistoryTyped, TableInv
<1>1. PICK o \in Found(d, IdOf("interaction", i)) :
         /\ o.status = "RESPONDING"
         /\ dialogues[d].session /\ dialogues[d].turn = NoTurn
         /\ dialogues' = [dialogues EXCEPT ![d].session = FALSE,
                                           ![d].status = "UNCERTAIN"]
         /\ items' = (items \ {o}) \cup Becomes({o}, "ABANDONED")
         /\ Significant(d, Becomes({o}, "ABANDONED"))
         /\ feed' = feed \o Append(Upserts(Becomes({o}, "ABANDONED")), Summary(d))
         /\ turns' = turns
    BY DEF FailResponse, Write, Publish
<1>. DEFINE old == {o}
            new == Becomes(old, "ABANDONED")
<1>2. old \in SUBSET Pending(d)
    <2>1. o \in ItemsOf(d) /\ ~o.historical
        BY FoundIsOwn
    <2>. QED
        BY <1>1, <2>1 DEF Pending
<1>3. Renews(d, old, new) /\ \A j \in new : j.status \notin Unfinished
    BY <1>2, PendingRenews
<1>4. /\ feed' = feed \o Append(Upserts(new), Summary(d))
      /\ items' = (items \ old) \cup new /\ Significant(d, new)
    BY <1>1
<1>. HIDE DEF new
<1>5. /\ dialogues' \in [Dialogues -> DialogueRow]
      /\ dialogues'[d].kind = dialogues[d].kind
      /\ dialogues'[d].turn = dialogues[d].turn
      /\ dialogues'[d].itemSequence = dialogues[d].itemSequence
      /\ dialogues'[d].status = "UNCERTAIN"
      /\ \A e \in Dialogues \ {d} : dialogues'[e] = dialogues[e]
    <2>1. dialogues' = [dialogues EXCEPT ![d] =
             [dialogues[d] EXCEPT !.session = FALSE, !.status = "UNCERTAIN"]]
        BY <1>1
    <2>. QED
        BY <2>1, RowGets
<1>6. dialogues[d].kind # "none"
    BY <1>1, DialogueIsThere
<1>7. Announces(Append(Upserts(new), Summary(d)), new, {})
    BY <1>3, UpsertsThenSummary
<1>8. /\ dialogues[d].turn = NoTurn
      /\ dialogues[d].turn # NoTurn => dialogues'[d].status = "BUSY"
      /\ dialogues'[d].status = "READY" =>
            \A k \in ItemsOf(d) \ old : ~k.historical =>
               k.status \notin {"PENDING", "RESPONDING"}
    BY <1>1, <1>5
<1>. HIDE DEF old
<1>. QED
    BY <1>1, <1>3, <1>4, <1>5, <1>6, <1>7, <1>8, SettlesStep

LEMMA CloseIdleStep ==
    ASSUME HistoryInv, NEW d \in Dialogues, NEW restarted \in BOOLEAN,
           CloseIdle(d, restarted)
    PROVE  HistoryStep
<1>. USE DEF HistoryInv, HistoryTyped, TableInv
<1>. DEFINE old == Pending(d)
            new == Becomes(old, "ABANDONED")
            status == IF ~restarted THEN "READY"
                      ELSE IF new # {} THEN "UNCERTAIN" ELSE dialogues[d].status
<1>1. /\ dialogues[d].session /\ dialogues[d].turn = NoTurn
      /\ dialogues' = [dialogues EXCEPT ![d].session = FALSE,
            ![d].status = IF ~restarted THEN "READY"
                          ELSE IF new # {} THEN "UNCERTAIN" ELSE @]
      /\ items' = (items \ old) \cup new
      /\ significance' = significance \/ Significant(d, new)
      /\ feed' = feed \o Append(Upserts(new), Summary(d))
      /\ turns' = turns
    BY DEF CloseIdle, Write, Publish
<1>2. Renews(d, old, new) /\ \A j \in new : j.status \notin Unfinished
    BY PendingRenews
<1>. HIDE DEF new
<1>3. dialogues' = [dialogues EXCEPT ![d].session = FALSE, ![d].status = status]
    BY <1>1 DEF TablesTyped, DialogueRow
<1>4. status \in {"READY", "BUSY", "UNCERTAIN"}
    <2>1. dialogues[d].status \in {"READY", "BUSY", "UNCERTAIN"}
        BY DEF TablesTyped, DialogueRow
    <2>. QED
        BY <2>1
<1>. HIDE DEF status
<1>5. /\ dialogues' \in [Dialogues -> DialogueRow]
      /\ dialogues'[d].kind = dialogues[d].kind
      /\ dialogues'[d].turn = dialogues[d].turn
      /\ dialogues'[d].itemSequence = dialogues[d].itemSequence
      /\ dialogues'[d].status = status
      /\ \A e \in Dialogues \ {d} : dialogues'[e] = dialogues[e]
    <2>1. FALSE \in BOOLEAN
        OBVIOUS
    <2>2. dialogues' = [dialogues EXCEPT
             ![d] = [dialogues[d] EXCEPT !.session = FALSE, !.status = status]]
        BY <1>3 DEF TablesTyped
    <2>. QED
        BY <1>4, <2>1, <2>2, RowGets
<1>6. dialogues[d].kind # "none"
    BY <1>1, DialogueIsThere
<1>7. Announces(Append(Upserts(new), Summary(d)), new, {})
    BY <1>2, UpsertsThenSummary
<1>8. /\ dialogues[d].turn # NoTurn => dialogues'[d].status = "BUSY"
      /\ dialogues'[d].status = "READY" =>
            \A k \in ItemsOf(d) \ old : ~k.historical =>
               k.status \notin {"PENDING", "RESPONDING"}
    BY <1>1 DEF Pending
<1>. HIDE DEF old
<1>. QED
    BY <1>1, <1>2, <1>5, <1>6, <1>7, <1>8, SettlesStep

LEMMA ReopenStep ==
    ASSUME HistoryInv, NEW d \in Dialogues, Reopen(d)
    PROVE  HistoryStep
<1>. USE DEF HistoryInv, HistoryTyped, TableInv
<1>. DEFINE open   == {i \in ItemsOf(d) : ~i.historical /\ i.status \in Unfinished}
            works  == open \ Pending(d)
            texts  == {i \in works : i.id.of = "assistant"}
            partial     == Becomes(texts, "PARTIAL")
            interrupted == Becomes(works \ texts, "INTERRUPTED")
            abandoned   == Becomes(Pending(d), "ABANDONED")
            new    == partial \cup interrupted \cup abandoned
<1>1. /\ dialogues[d].status = "UNCERTAIN"
      /\ dialogues' = [dialogues EXCEPT ![d].status = "READY"]
      /\ items' = (items \ open) \cup new
      /\ significance' = significance
      /\ feed' = feed \o Append(Upserts(new), Summary(d))
      /\ turns' = turns
    BY DEF Reopen, Write, Publish
<1>2. Renews(d, Pending(d), abandoned)
      /\ \A j \in abandoned : j.status \notin Unfinished
    BY PendingRenews
<1>3. /\ Renews(d, texts, partial)
      /\ Renews(d, works \ texts, interrupted)
      /\ \A j \in partial \cup interrupted : j.status \notin Unfinished
    <2>1. /\ texts \in SUBSET ItemsOf(d) /\ works \ texts \in SUBSET ItemsOf(d)
          /\ \A i \in works : ~i.historical
        OBVIOUS
    <2>2. /\ {"PARTIAL", "INTERRUPTED"} \subseteq ItemStatus
          /\ {"PARTIAL", "INTERRUPTED"} \cap Unfinished = {}
        BY DEF ItemStatus, Unfinished
    <2>3. texts \subseteq works
        OBVIOUS
    <2>. HIDE DEF works, texts
    <2>4. /\ Renews(d, texts, partial)
          /\ \A j \in partial : j.status = "PARTIAL"
        BY <2>1, <2>2, <2>3, BecomesRenews
    <2>5. /\ Renews(d, works \ texts, interrupted)
          /\ \A j \in interrupted : j.status = "INTERRUPTED"
        BY <2>1, <2>2, BecomesRenews
    <2>. QED
        BY <2>2, <2>4, <2>5
<1>4. /\ texts \cup (works \ texts) = works
      /\ works \cup Pending(d) = open /\ works \cap Pending(d) = {}
    BY DEF Pending, Unfinished
<1>. HIDE DEF works, texts, partial, interrupted, abandoned
<1>5. Renews(d, open, new) /\ \A j \in new : j.status \notin Unfinished
    <2>1. Renews(d, works, partial \cup interrupted)
        BY <1>3, <1>4, RenewsUnion
    <2>2. Renews(d, works \cup Pending(d), new)
        BY <1>2, <1>4, <2>1, RenewsUnion
    <2>. QED
        BY <1>2, <1>3, <1>4, <2>2
<1>6. /\ dialogues' \in [Dialogues -> DialogueRow]
      /\ dialogues'[d].kind = dialogues[d].kind
      /\ dialogues'[d].turn = dialogues[d].turn
      /\ dialogues'[d].itemSequence = dialogues[d].itemSequence
      /\ dialogues'[d].status = "READY"
      /\ \A e \in Dialogues \ {d} : dialogues'[e] = dialogues[e]
    BY <1>1, RowShows
<1>7. dialogues[d].kind # "none"
    BY <1>1, DialogueIsThere
<1>8. Announces(Append(Upserts(new), Summary(d)), new, {})
    BY <1>5, UpsertsThenSummary
<1>9. /\ dialogues[d].turn # NoTurn => dialogues'[d].status = "BUSY"
      /\ \A k \in ItemsOf(d) \ open : ~k.historical =>
            k.status \notin {"PENDING", "RESPONDING"}
    BY <1>1 DEF RowsAgree, Unfinished
<1>. HIDE DEF open
<1>. QED
    BY <1>1, <1>5, <1>6, <1>7, <1>8, <1>9, SettlesStep

-----------------------------------------------------------------------------
(* A turn begins.                                                          *)

LEMMA SendStep ==
    ASSUME HistoryInv, NEW d \in Dialogues, NEW t \in Turns, Send(d, t)
    PROVE  HistoryStep
<1>. USE DEF HistoryInv, HistoryTyped, TablesTyped, TableInv
<1>. DEFINE id   == IdOf("user", t)
            user == NewItem(d, id, NextSequence(d), t, "COMPLETED", 0)
            new  == {user}
            none == {}
<1>1. /\ dialogues[d].kind # "none" /\ dialogues[d].status = "READY"
      /\ dialogues[d].turn = NoTurn /\ turns[t].status = "none"
      /\ turns' = [turns EXCEPT ![t] =
            [dialogue |-> d, status |-> "OPEN", end |-> 0]]
      /\ dialogues' = [dialogues EXCEPT ![d].itemSequence = @ + 1,
                          ![d].turn = t, ![d].status = "BUSY"]
      /\ items' = (items \ {}) \cup {user} /\ significance' = significance
      /\ feed' = feed \o <<Upsert(user), Summary(d)>>
    BY DEF Send, Write, Publish
<1>2. dialogues[d].itemSequence + 1 \in Nat \ {0}
    BY DEF DialogueRow
<1>3. id \in Id /\ id.of = "user" /\ id.key = t
    BY DEF Id, IdOf
<1>. HIDE DEF id
<1>4. /\ user \in Item /\ user.dialogue = d /\ user.id = id
      /\ user.turn = t /\ user.sequence = NextSequence(d)
      /\ ~user.historical /\ user.status = "COMPLETED"
    BY <1>2, <1>3 DEF Item, NewItem, NextSequence, ItemStatus
<1>. HIDE DEF user
<1>5. Announces(<<Upsert(user), Summary(d)>>, none, new)
    BY <1>4, AddedThenSummary
<1>6. /\ dialogues' \in [Dialogues -> DialogueRow]
      /\ dialogues'[d].kind = dialogues[d].kind
      /\ dialogues'[d].turn = t
      /\ dialogues'[d].status = "BUSY"
      /\ dialogues'[d].itemSequence = NextSequence(d)
      /\ \A e \in Dialogues \ {d} : dialogues'[e] = dialogues[e]
    <2>1. dialogues' = [dialogues EXCEPT ![d] =
             [dialogues[d] EXCEPT !.itemSequence = @ + 1, !.turn = t,
                                  !.status = "BUSY"]]
        BY <1>1
    <2>. QED
        BY <2>1, RowBusy
<1>7. /\ turns' \in [Turns -> TurnRow]
      /\ turns'[t].status = "OPEN" /\ turns'[t].dialogue = d
      /\ \A u \in Turns \ {t} : turns'[u] = turns[u]
    BY <1>1 DEF TurnRow
<1>8. TurnsGoOn
    BY <1>1, <1>7 DEF TurnsGoOn, Settled
<1>9. Found(d, id) = {}
    <2>1. ASSUME NEW i \in items, i.id = id
          PROVE  FALSE
        <3>1. i.turn = t
            BY <1>3, <2>1 DEF Named, NamedWell
        <3>2. turns[t].status # "none"
            BY <3>1, NullsAssumption DEF Named, NamedWell
        <3>. QED
            BY <1>1, <3>2
    <2>. QED
        BY <2>1 DEF Found, ItemsOf
<1>10. Adds(d, new)
    BY <1>4, <1>6, <1>9 DEF Adds
<1>11. items' = (items \ none) \cup (none \cup new)
    BY <1>1
<1>12. Edits(d, none, none, new)
    BY <1>6, <1>10, <1>11, RenewsNothing DEF Edits
<1>13. Handles(d, none, none, new, <<Upsert(user), Summary(d)>>)
    BY <1>1, <1>5, <1>6, <1>12 DEF Handles
<1>14. /\ items' \subseteq Item /\ feed' \in Seq(Change)
       /\ significance' \in [Dialogues -> Seq(SUBSET Version)]
       /\ Numbered' /\ FeedInv' /\ SignificanceInv'
       /\ HistoryGrows
    BY <1>13, HandlerStep
<1>15. \A j \in new : NamedWell(j)'
    BY <1>3, <1>4, <1>7 DEF NamedWell
<1>16. Named'
    BY <1>8, <1>12, <1>15, NamedStep
<1>17. ResultsEnd'
    <2>1. \A j \in new : EndsItsTurn(j)'
        BY <1>3, <1>4 DEF EndsItsTurn, Results
    <2>2. \A u \in Turns :
             turns'[u].status \in Settled /\ turns[u].status \notin Settled =>
                \E j \in new : j.turn = u /\ j.id.of \in Results
        BY <1>7 DEF Settled
    <2>. QED
        BY <1>8, <1>12, <2>1, <2>2, ResultsStep
<1>18. OpenWork'
    <2>1. \A j \in none \cup new : Works(j)'
        BY <1>4, <1>7 DEF Works, Settled, Unfinished
    <2>2. \A u \in Turns :
             turns'[u].status \in Settled /\ turns[u].status \notin Settled =>
                \A i \in items \ none : i.turn = u =>
                   /\ i.status \notin Unfinished
                   /\ i.sequence <= turns'[u].end
        BY <1>7 DEF Settled
    <2>3. dialogues'[d].status = "READY" =>
             \A i \in ItemsOf(d) \ none : ~i.historical =>
                i.status \notin {"PENDING", "RESPONDING"}
        BY <1>6
    <2>. HIDE DEF none, new
    <2>. QED
        BY <1>8, <1>12, <2>1, <2>2, <2>3, WorkStep
<1>19. RowsAgree'
    <2>1. \A u \in Turns : turns[u].status = "OPEN" =>
             turns[u].dialogue \in Dialogues \ {d}
        BY <1>1, NullsAssumption DEF RowsAgree
    <2>2. \A e \in Dialogues :
             /\ dialogues'[e].kind = "none" => dialogues'[e] = NoRow
             /\ dialogues'[e].turn # NoTurn =>
                   /\ dialogues'[e].status = "BUSY"
                   /\ turns'[dialogues'[e].turn].status = "OPEN"
                   /\ turns'[dialogues'[e].turn].dialogue = e
        BY <1>1, <1>6, <1>7 DEF RowsAgree
    <2>3. \A u \in Turns :
             /\ turns'[u].status # "none" =>
                   /\ turns'[u].dialogue \in Dialogues
                   /\ dialogues'[turns'[u].dialogue].kind # "none"
             /\ turns'[u].status = "OPEN" =>
                   dialogues'[turns'[u].dialogue].turn = u
        BY <1>1, <1>6, <1>7, <2>1 DEF RowsAgree
    <2>4. ASSUME NEW u \in Turns, turns'[u].status \in Settled
          PROVE  turns'[u].end \in 1..dialogues'[turns'[u].dialogue].itemSequence
        <3>1. u # t /\ turns'[u] = turns[u]
            BY <1>7, <2>4 DEF Settled
        <3>2. /\ turns[u].dialogue \in Dialogues
              /\ turns[u].end \in 1..dialogues[turns[u].dialogue].itemSequence
            BY <2>4, <3>1 DEF RowsAgree, Settled
        <3>3. dialogues'[turns[u].dialogue].itemSequence \in
                 {dialogues[turns[u].dialogue].itemSequence,
                  dialogues[turns[u].dialogue].itemSequence + 1}
            BY <1>6, <3>2 DEF NextSequence
        <3>4. dialogues[turns[u].dialogue].itemSequence \in Nat
            BY <3>2 DEF DialogueRow
        <3>. QED
            BY <3>1, <3>2, <3>3, <3>4
    <2>. QED
        BY <2>2, <2>3, <2>4 DEF RowsAgree
<1>. QED
    BY <1>6, <1>7, <1>14, <1>16, <1>17, <1>18, <1>19 DEF HistoryStep

-----------------------------------------------------------------------------
(* A turn ends.                                                            *)

\* The end of a turn tells of the message, the other items and the result.
LEMMA EndAnnounces ==
    ASSUME NEW final \in SUBSET Item, IsFiniteSet(final), Distinct(final),
           NEW result \in Item, NEW resultFirst \in BOOLEAN
    PROVE  Announces(EndChanges(final, result, resultFirst), final, {result})
<1>. DEFINE message == {i \in final : i.id.of = "assistant"}
            rest    == final \ message
            first   == Upserts(message)
            others  == Upserts(rest)
            one     == <<Upsert(result)>>
            last    == <<Summary(result.dialogue)>>
            none    == {}
            added   == {result}
<1>1. /\ message \in SUBSET Item /\ IsFiniteSet(message) /\ Distinct(message)
      /\ rest \in SUBSET Item /\ IsFiniteSet(rest) /\ Distinct(rest)
    BY FS_Subset DEF Distinct
<1>2. message \cup rest = final
    OBVIOUS
<1>3. EndChanges(final, result, resultFirst) =
         first \o (IF resultFirst THEN one \o others
                   ELSE Append(others, Upsert(result))) \o last
    BY DEF EndChanges
<1>. HIDE DEF message, rest
<1>4. Announces(first, message, none) /\ Announces(others, rest, none)
    BY <1>1, UpsertsAnnounce
<1>5. Announces(one, none, added) /\ Upsert(result) \in Change
    BY AddedAnnounces, UpsertNames
<1>6. Announces(last, none, none)
    BY SummaryAnnounces DEF Item
<1>7. others \in Seq(Change)
    BY <1>4 DEF Announces
<1>8. one = <<Upsert(result)>>
    OBVIOUS
<1>9. /\ rest \cup none = rest /\ none \cup rest = rest
      /\ none \cup added = added /\ added \cup none = added
    OBVIOUS
<1>. HIDE DEF first, others, one, last, none, added
<1>10. Append(others, Upsert(result)) = others \o one
    BY <1>5, <1>7, <1>8
<1>11. Announces(others \o one, rest, added)
    <2>1. Announces(others \o one, rest \cup none, none \cup added)
        BY <1>4, <1>5, AnnouncesBoth
    <2>. QED
        BY <1>9, <2>1
<1>12. Announces(one \o others, rest, added)
    <2>1. Announces(one \o others, none \cup rest, added \cup none)
        BY <1>4, <1>5, AnnouncesBoth
    <2>. QED
        BY <1>9, <2>1
<1>. DEFINE both == IF resultFirst THEN one \o others
                    ELSE Append(others, Upsert(result))
<1>13. Announces(both, rest, added)
    BY <1>10, <1>11, <1>12
<1>. HIDE DEF both
<1>14. Announces(first \o both, final, added)
    <2>1. Announces(first \o both, message \cup rest, none \cup added)
        BY <1>4, <1>13, AnnouncesBoth
    <2>. QED
        BY <1>2, <1>9, <2>1
<1>15. Announces((first \o both) \o last, final, added)
    <2>1. Announces((first \o both) \o last, final \cup none, added \cup none)
        BY <1>6, <1>14, AnnouncesBoth
    <2>2. final \cup none = final
        BY DEF none
    <2>. QED
        BY <1>9, <2>1, <2>2
<1>16. EndChanges(final, result, resultFirst) = (first \o both) \o last
    BY <1>3 DEF both
<1>17. Announces(EndChanges(final, result, resultFirst), final, added)
    BY <1>15, <1>16
<1>. QED
    BY <1>17 DEF added

\* What the end of a turn finalizes are the items it names.
Unsettled(d, t, interactions, activities) ==
    Streaming(d, t) \cup activities \cup interactions

NamedLike(d, final) == {i \in ItemsOf(d) : i.id \in {f.id : f \in final}}

LEMMA FinalizedRenews ==
    ASSUME HistoryInv, NEW d \in Dialogues, NEW t \in Turns,
           NEW interactions \in SUBSET Pending(d),
           NEW activities \in SUBSET Running(d)
    PROVE  /\ Renews(d, Unsettled(d, t, interactions, activities),
                     Finalized(d, t, interactions, activities))
           /\ \A j \in Finalized(d, t, interactions, activities) :
                 j.status \notin Unfinished
           /\ \A i \in Unsettled(d, t, interactions, activities) :
                 i.status \in Unfinished
           /\ NamedLike(d, Finalized(d, t, interactions, activities))
                 = Unsettled(d, t, interactions, activities)
<1>. USE DEF HistoryInv, HistoryTyped, TableInv
<1>. DEFINE text   == Streaming(d, t)
            A      == Becomes(text, "PARTIAL")
            B      == Becomes(activities, "INTERRUPTED")
            C      == Becomes(interactions, "ABANDONED")
            work   == text \cup activities
            D      == A \cup B
            old    == Unsettled(d, t, interactions, activities)
            final  == Finalized(d, t, interactions, activities)
            named  == NamedLike(d, final)
<1>1. /\ {"PARTIAL", "INTERRUPTED", "ABANDONED"} \subseteq ItemStatus
      /\ {"PARTIAL", "INTERRUPTED", "ABANDONED"} \cap Unfinished = {}
    BY DEF ItemStatus, Unfinished
<1>2. /\ text \in SUBSET ItemsOf(d) /\ \A i \in text : ~i.historical
      /\ \A i \in text : i.status = "STREAMING"
    BY FoundIsOwn DEF Streaming
<1>3. /\ activities \in SUBSET ItemsOf(d)
      /\ \A i \in activities : ~i.historical /\ i.status = "IN_PROGRESS"
    BY DEF Running
<1>4. /\ interactions \in SUBSET ItemsOf(d)
      /\ \A i \in interactions : ~i.historical
      /\ \A i \in interactions : i.status \in {"PENDING", "RESPONDING"}
    BY DEF Pending
<1>. HIDE DEF text
<1>5. Renews(d, text, A) /\ \A j \in A : j.status = "PARTIAL"
    BY <1>1, <1>2, BecomesRenews
<1>6. Renews(d, activities, B) /\ \A j \in B : j.status = "INTERRUPTED"
    BY <1>1, <1>3, BecomesRenews
<1>7. Renews(d, interactions, C) /\ \A j \in C : j.status = "ABANDONED"
    BY <1>1, <1>4, BecomesRenews
<1>8. text \cap activities = {} /\ work \cap interactions = {}
    BY <1>2, <1>3, <1>4
<1>. HIDE DEF A, B, C
<1>9. Renews(d, work, D)
    BY <1>5, <1>6, <1>8, RenewsUnion
<1>. HIDE DEF work, D
<1>10. Renews(d, old, final)
    <2>1. Renews(d, work \cup interactions, D \cup C)
        BY <1>7, <1>8, <1>9, RenewsUnion
    <2>2. old = work \cup interactions
        BY DEF work, text, Unsettled
    <2>3. final = D \cup C
        BY DEF D, A, B, C, text, Finalized
    <2>. QED
        BY <2>1, <2>2, <2>3
<1>11. \A j \in final : j.status \notin Unfinished
    BY <1>1, <1>5, <1>6, <1>7 DEF A, B, C, text, Finalized
<1>12. \A i \in old : i.status \in Unfinished
    BY <1>2, <1>3, <1>4 DEF text, Unfinished, Unsettled
<1>. HIDE DEF old, final
<1>13. ASSUME NEW k \in named
       PROVE  k \in old
    <2>1. PICK f \in final : k.id = f.id
        BY DEF NamedLike
    <2>2. PICK i \in old : Same(i, f)
        BY <1>10 DEF Renews
    <2>3. i \in items /\ k \in items /\ i.dialogue = d /\ k.dialogue = d
        BY <1>10 DEF Renews, ItemsOf, NamedLike
    <2>4. i = k
        BY <2>1, <2>2, <2>3, OneOfItsName DEF Same
    <2>. QED
        BY <2>4
<1>14. ASSUME NEW i \in old
       PROVE  i \in named
    <2>1. i \in ItemsOf(d)
        BY <1>10 DEF Renews
    <2>2. PICK f \in final : Same(i, f)
        BY <1>10 DEF Renews
    <2>. QED
        BY <2>1, <2>2 DEF Same, NamedLike
<1>15. named = old
    BY <1>13, <1>14
<1>. QED
    BY <1>10, <1>11, <1>12, <1>15 DEF old, final

\* The turn gets its result, and what is left of it, its last status; the row
\* goes on without the turn.
LEMMA EndTurnStep ==
    ASSUME HistoryInv, NEW d \in Dialogues, NEW t \in Turns,
           dialogues[d].turn = t,
           NEW of \in Results, NEW status \in Settled, NEW row \in DialogueRow,
           row.kind = dialogues[d].kind,
           row.itemSequence = dialogues[d].itemSequence,
           NEW interactions \in SUBSET Pending(d),
           Of(Pending(d), t) \subseteq interactions,
           row.status = "READY" => Pending(d) \subseteq interactions,
           NEW activities \in SUBSET Running(d),
           Of(Running(d), t) \subseteq activities,
           NEW resultFirst \in BOOLEAN,
           EndTurn(d, t, IdOf(of, t), status, row, interactions, activities,
                   resultFirst)
    PROVE  HistoryStep
<1>. USE DEF HistoryInv, HistoryTyped, TablesTyped, TableInv
<1>. DEFINE id     == IdOf(of, t)
            old    == Unsettled(d, t, interactions, activities)
            final  == Finalized(d, t, interactions, activities)
            result == NewItem(d, id, NextSequence(d), t, "COMPLETED", 0)
            new    == {result}
            named  == NamedLike(d, final)
            next   == [row EXCEPT !.turn = NoTurn, !.itemSequence = @ + 1]
            changes == EndChanges(final, result, resultFirst)
<1>1. /\ turns' = [turns EXCEPT ![t].status = status,
                                ![t].end = NextSequence(d)]
      /\ dialogues' = [dialogues EXCEPT ![d] = next]
      /\ items' = (items \ named) \cup (final \cup new)
      /\ Significant(d, final \cup new)
      /\ feed' = feed \o changes
    BY DEF EndTurn, Write, Publish, NamedLike
<1>2. /\ Renews(d, old, final)
      /\ \A j \in final : j.status \notin Unfinished
      /\ \A i \in old : i.status \in Unfinished
      /\ named = old
    BY FinalizedRenews
<1>3. IsFiniteSet(final) /\ Distinct(final) /\ final \in SUBSET Item
    BY <1>2, RenewedIsFinite DEF Renews
<1>4. items' = (items \ old) \cup (final \cup new)
    BY <1>1, <1>2
<1>5. /\ dialogues[d].kind # "none" /\ dialogues[d].status = "BUSY"
      /\ turns[t].status = "OPEN" /\ turns[t].dialogue = d
      /\ t # NoTurn
    BY ActiveTurn
<1>6. NextSequence(d) \in Nat \ {0}
      /\ NextSequence(d) = dialogues[d].itemSequence + 1
      /\ dialogues[d].itemSequence \in Nat
    BY DEF DialogueRow, NextSequence
<1>7. id \in Id /\ id.of = of /\ id.key = t /\ of \in {"result", "closed"}
    BY DEF Id, IdOf, Results
<1>. HIDE DEF id, final, named, old
<1>8. /\ result \in Item /\ result.dialogue = d /\ result.id = id
      /\ result.turn = t /\ result.sequence = NextSequence(d)
      /\ ~result.historical /\ result.status = "COMPLETED"
    BY <1>6, <1>7 DEF Item, NewItem, ItemStatus
<1>. HIDE DEF result
<1>9. Announces(changes, final, new)
    BY <1>3, <1>8, EndAnnounces
<1>10. /\ next \in DialogueRow /\ next.kind = dialogues[d].kind
       /\ next.turn = NoTurn /\ next.status = row.status
       /\ next.itemSequence = NextSequence(d)
    <2>1. next = [row EXCEPT !.turn = NoTurn,
                             !.itemSequence = NextSequence(d)]
        BY <1>6
    <2>. QED
        BY <1>6, <2>1 DEF DialogueRow
<1>. HIDE DEF next, changes
<1>11. /\ dialogues' \in [Dialogues -> DialogueRow] /\ dialogues'[d] = next
       /\ \A e \in Dialogues \ {d} : dialogues'[e] = dialogues[e]
    BY <1>1, <1>10
<1>12. /\ turns' \in [Turns -> TurnRow]
       /\ turns'[t].status = status /\ turns'[t].dialogue = d
       /\ turns'[t].end = NextSequence(d)
       /\ \A u \in Turns \ {t} : turns'[u] = turns[u]
    <2>1. status \in {"COMPLETED", "ENDED"} /\ NextSequence(d) \in Nat
        BY <1>6 DEF Settled
    <2>. QED
        BY <1>1, <1>5, <2>1 DEF TurnRow
<1>13. status # "none" /\ status # "OPEN"
    BY DEF Settled
<1>14. TurnsGoOn
    BY <1>5, <1>12, <1>13 DEF TurnsGoOn, Settled
<1>15. Found(d, id) = {}
    <2>1. ASSUME NEW i \in items, i.id = id
          PROVE  FALSE
        <3>1. i.turn = t
            BY <1>7, <2>1 DEF Named, NamedWell
        <3>2. turns[t].status \in Settled
            BY <1>7, <2>1, <3>1 DEF ResultsEnd, EndsItsTurn, Results
        <3>. QED
            BY <1>5, <3>2 DEF Settled
    <2>. QED
        BY <2>1 DEF Found, ItemsOf
<1>16. Adds(d, new)
    BY <1>8, <1>10, <1>11, <1>15 DEF Adds
<1>17. Edits(d, old, final, new)
    BY <1>2, <1>4, <1>11, <1>16 DEF Edits
<1>18. Handles(d, old, final, new, changes)
    <2>1. final \cup new \in SUBSET (final \cup new)
        OBVIOUS
    <2>. QED
        BY <1>1, <1>5, <1>9, <1>10, <1>11, <1>17, <2>1 DEF Handles
<1>19. /\ items' \subseteq Item /\ feed' \in Seq(Change)
       /\ significance' \in [Dialogues -> Seq(SUBSET Version)]
       /\ Numbered' /\ FeedInv' /\ SignificanceInv'
       /\ HistoryGrows
    BY <1>18, HandlerStep
<1>20. Named'
    <2>1. \A j \in new : NamedWell(j)'
        BY <1>5, <1>7, <1>8, <1>12, <1>13 DEF NamedWell
    <2>. QED
        BY <1>14, <1>17, <2>1, NamedStep
<1>21. \A u \in Turns :
          turns'[u].status \in Settled /\ turns[u].status \notin Settled =>
             u = t
    BY <1>12
<1>22. ResultsEnd'
    <2>1. \A j \in new : EndsItsTurn(j)'
        BY <1>8, <1>12 DEF EndsItsTurn
    <2>2. \A u \in Turns :
             turns'[u].status \in Settled /\ turns[u].status \notin Settled =>
                \E j \in new : j.turn = u /\ j.id.of \in Results
        BY <1>7, <1>8, <1>21
    <2>. HIDE DEF new
    <2>. QED
        BY <1>14, <1>17, <2>1, <2>2, ResultsStep
<1>23. ASSUME NEW i \in items \ old, i.turn = t
       PROVE  i.status \notin Unfinished /\ i.sequence <= turns'[t].end
    <2>1. i.dialogue = d /\ ~i.historical /\ Works(i) /\ i \in ItemsOf(d)
        BY <1>5, <1>23 DEF Named, NamedWell, OpenWork, ItemsOf
    <2>2. i.sequence <= dialogues[d].itemSequence /\ i.sequence \in Nat
        BY <1>23, <2>1 DEF Numbered, Item
    <2>3. i.status # "STREAMING"
        <3>1. SUFFICES ASSUME i.status = "STREAMING"
                       PROVE  FALSE
            OBVIOUS
        <3>2. i.id.of = "assistant" /\ i.id.key = t
            BY <1>23, <2>1, <3>1 DEF Works, Named, NamedWell
        <3>3. i.id \in Id
            BY <1>23 DEF Item
        <3>4. i.id = IdOf("assistant", t)
            BY <3>2, <3>3 DEF Id, IdOf
        <3>. QED
            BY <1>23, <2>1, <3>1, <3>4 DEF Streaming, Found, old, Unsettled
    <2>4. i.status # "IN_PROGRESS"
        BY <1>23, <2>1 DEF Running, Of, old, Unsettled
    <2>5. i.status \notin {"PENDING", "RESPONDING"}
        BY <1>23, <2>1 DEF Pending, Of, old, Unsettled
    <2>. QED
        <3>1. i.sequence <= turns'[t].end
            BY <1>6, <1>12, <2>2
        <3>. QED
            BY <2>3, <2>4, <2>5, <3>1 DEF Unfinished
<1>24. OpenWork'
    <2>1. ASSUME NEW j \in final
          PROVE  Works(j)'
        <3>1. PICK i \in old : Same(i, j)
            BY <1>2 DEF Renews
        <3>2. i \in items /\ i.dialogue = d /\ i.status \in Unfinished /\ Works(i)
              /\ ~i.historical
            BY <1>2 DEF Renews, ItemsOf, OpenWork
        <3>3. i.sequence <= dialogues[d].itemSequence /\ i.sequence \in Nat
            BY <3>2 DEF Numbered, Item
        <3>4. i.turn # NoTurn => turns[i.turn].status \notin Settled
            BY <3>2 DEF Works
        <3>5. i.turn # NoTurn => i.turn \in Turns
            BY <3>2 DEF Item
        <3>6. i.turn # NoTurn /\ turns'[i.turn].status \in Settled => i.turn = t
            BY <1>21, <3>4, <3>5
        <3>7. i.turn = t => i.sequence <= turns'[i.turn].end
            BY <1>6, <1>12, <3>3
        <3>8. j.status \notin Unfinished
            BY <1>2
        <3>. QED
            BY <3>1, <3>6, <3>7, <3>8 DEF Works, Same, Unfinished
    <2>2. ASSUME NEW j \in new
          PROVE  Works(j)'
        <3>1. j = result
            OBVIOUS
        <3>2. NextSequence(d) <= turns'[t].end
            BY <1>6, <1>12
        <3>. QED
            BY <1>8, <3>1, <3>2 DEF Works, Unfinished
    <2>3. \A j \in final \cup new : Works(j)'
        BY <2>1, <2>2
    <2>4. dialogues'[d].status = "READY" =>
             \A i \in ItemsOf(d) \ old : ~i.historical =>
                i.status \notin {"PENDING", "RESPONDING"}
        BY <1>10, <1>11 DEF Pending, old, Unsettled
    <2>5. \A u \in Turns :
             turns'[u].status \in Settled /\ turns[u].status \notin Settled =>
                \A i \in items \ old : i.turn = u =>
                   /\ i.status \notin Unfinished
                   /\ i.sequence <= turns'[u].end
        BY <1>21, <1>23
    <2>. HIDE DEF new
    <2>. QED
        BY <1>14, <1>17, <2>3, <2>4, <2>5, WorkStep
<1>25. RowsAgree'
    <2>1. \A u \in Turns \ {t} : turns[u].status = "OPEN" =>
             turns[u].dialogue \in Dialogues \ {d}
        BY DEF RowsAgree
    <2>2. \A e \in Dialogues : dialogues[e].turn = t => e = d
        BY <1>5 DEF RowsAgree
    <2>3. \A e \in Dialogues :
             /\ dialogues'[e].kind = "none" => dialogues'[e] = NoRow
             /\ dialogues'[e].turn # NoTurn =>
                   /\ dialogues'[e].status = "BUSY"
                   /\ turns'[dialogues'[e].turn].status = "OPEN"
                   /\ turns'[dialogues'[e].turn].dialogue = e
        <3>. TAKE e \in Dialogues
        <3>1. CASE e = d
            BY <1>5, <1>10, <1>11, <3>1
        <3>2. CASE e # d
            <4>1. dialogues'[e] = dialogues[e] /\ dialogues[e].turn # t
                BY <1>11, <2>2, <3>2
            <4>2. dialogues[e].turn \in Turns \cup {NoTurn}
                BY DEF DialogueRow
            <4>. QED
                BY <1>12, <4>1, <4>2 DEF RowsAgree
        <3>. QED
            BY <3>1, <3>2
    <2>4. \A u \in Turns :
             /\ turns'[u].status # "none" =>
                   /\ turns'[u].dialogue \in Dialogues
                   /\ dialogues'[turns'[u].dialogue].kind # "none"
             /\ turns'[u].status = "OPEN" =>
                   dialogues'[turns'[u].dialogue].turn = u
        BY <1>5, <1>10, <1>11, <1>12, <1>13, <2>1 DEF RowsAgree
    <2>5. ASSUME NEW u \in Turns, turns'[u].status \in Settled
          PROVE  turns'[u].end \in 1..dialogues'[turns'[u].dialogue].itemSequence
        <3>1. CASE u = t
            BY <1>6, <1>10, <1>11, <1>12, <3>1
        <3>2. CASE u # t
            <4>1. turns'[u] = turns[u]
                BY <1>12, <3>2
            <4>2. /\ turns[u].dialogue \in Dialogues
                  /\ turns[u].end \in 1..dialogues[turns[u].dialogue].itemSequence
                BY <2>5, <4>1 DEF RowsAgree, Settled
            <4>3. dialogues'[turns[u].dialogue].itemSequence \in
                     {dialogues[turns[u].dialogue].itemSequence,
                      dialogues[turns[u].dialogue].itemSequence + 1}
                BY <1>6, <1>10, <1>11, <4>2
            <4>4. dialogues[turns[u].dialogue].itemSequence \in Nat
                BY <4>2 DEF DialogueRow
            <4>. QED
                BY <4>1, <4>2, <4>3, <4>4
        <3>. QED
            BY <3>1, <3>2
    <2>. QED
        BY <2>3, <2>4, <2>5 DEF RowsAgree
<1>. QED
    BY <1>11, <1>12, <1>19, <1>20, <1>22, <1>24, <1>25 DEF HistoryStep

LEMMA CompleteTurnStep ==
    ASSUME HistoryInv, NEW d \in Dialogues, NEW t \in Turns,
           NEW status \in Settled, CompleteTurn(d, t, status)
    PROVE  HistoryStep
<1>. DEFINE mine == Of(Pending(d), t)
            next == IF Pending(d) = mine THEN "READY" ELSE "BUSY"
            row  == [dialogues[d] EXCEPT !.status = next]
            runs == Of(Running(d), t)
<1>1. dialogues[d].turn = t
    BY DEF CompleteTurn, IsActiveTurn
<1>2. EndTurn(d, t, IdOf("result", t), status, row, mine, runs, FALSE)
    BY DEF CompleteTurn
<1>3. /\ next \in {"READY", "BUSY", "UNCERTAIN"}
      /\ next = "READY" => Pending(d) \subseteq mine
    OBVIOUS
<1>4. mine \in SUBSET Pending(d) /\ runs \in SUBSET Running(d)
    BY DEF Of
<1>. HIDE DEF next
<1>5. /\ row \in DialogueRow /\ row.kind = dialogues[d].kind
      /\ row.itemSequence = dialogues[d].itemSequence
      /\ row.status = next
    BY <1>3 DEF HistoryInv, HistoryTyped, TablesTyped, DialogueRow
<1>6. "result" \in Results /\ FALSE \in BOOLEAN
    BY DEF Results
<1>7. Of(Pending(d), t) \subseteq mine /\ Of(Running(d), t) \subseteq runs
    OBVIOUS
<1>. HIDE DEF row, mine, runs
<1>. QED
    BY <1>1, <1>2, <1>3, <1>4, <1>5, <1>6, <1>7, EndTurnStep

LEMMA InterruptTurnStep ==
    ASSUME HistoryInv, NEW d \in Dialogues, NEW t \in Turns,
           NEW status \in {"READY", "UNCERTAIN"}, InterruptTurn(d, t, status)
    PROVE  HistoryStep
<1>. DEFINE row     == [dialogues[d] EXCEPT !.status = status, !.session = FALSE]
            pending == Pending(d)
            runs    == Of(Running(d), t)
<1>1. dialogues[d].turn = t
    BY DEF InterruptTurn
<1>2. EndTurn(d, t, IdOf("result", t), "ENDED", row, pending, runs, FALSE)
    BY DEF InterruptTurn
<1>3. pending \in SUBSET Pending(d) /\ runs \in SUBSET Running(d)
    BY DEF Of
<1>4. /\ row \in DialogueRow /\ row.kind = dialogues[d].kind
      /\ row.itemSequence = dialogues[d].itemSequence
    <2>1. dialogues[d] \in DialogueRow
        BY DEF HistoryInv, HistoryTyped, TablesTyped
    <2>. QED
        BY <2>1 DEF DialogueRow
<1>5. "result" \in Results /\ FALSE \in BOOLEAN /\ "ENDED" \in Settled
    BY DEF Results, Settled
<1>6. /\ Of(Pending(d), t) \subseteq pending /\ Of(Running(d), t) \subseteq runs
      /\ row.status = "READY" => Pending(d) \subseteq pending
    BY DEF Of
<1>. HIDE DEF row, pending, runs
<1>. QED
    BY <1>1, <1>2, <1>3, <1>4, <1>5, <1>6, EndTurnStep

LEMMA CloseActiveStep ==
    ASSUME HistoryInv, NEW d \in Dialogues, NEW t \in Turns, CloseActive(d, t)
    PROVE  HistoryStep
<1>. DEFINE row     == [dialogues[d] EXCEPT !.status = "READY", !.session = FALSE]
            pending == Pending(d)
            runs    == Running(d)
<1>1. dialogues[d].turn = t
    BY DEF CloseActive, IsActiveTurn
<1>2. EndTurn(d, t, IdOf("closed", t), "ENDED", row, pending, runs, TRUE)
    BY DEF CloseActive
<1>3. pending \in SUBSET Pending(d) /\ runs \in SUBSET Running(d)
    OBVIOUS
<1>4. /\ row \in DialogueRow /\ row.kind = dialogues[d].kind
      /\ row.itemSequence = dialogues[d].itemSequence
    <2>1. dialogues[d] \in DialogueRow
        BY DEF HistoryInv, HistoryTyped, TablesTyped
    <2>. QED
        BY <2>1 DEF DialogueRow
<1>5. "closed" \in Results /\ TRUE \in BOOLEAN /\ "ENDED" \in Settled
    BY DEF Results, Settled
<1>6. /\ Of(Pending(d), t) \subseteq pending /\ Of(Running(d), t) \subseteq runs
      /\ row.status = "READY" => Pending(d) \subseteq pending
    BY DEF Of
<1>. HIDE DEF row, pending, runs
<1>. QED
    BY <1>1, <1>2, <1>3, <1>4, <1>5, <1>6, EndTurnStep

-----------------------------------------------------------------------------
(* A fork.                                                                 *)

\* The copy of an item in the fork.
CopyOf(i, f) == [i EXCEPT !.dialogue = f, !.turn = NoTurn, !.historical = TRUE,
                          !.sequence = i.sequence,
                          !.id = IdOf("copy", i.sequence)]

Copied(prefix, f) == {CopyOf(i, f) : i \in prefix}

\* What a fork copies is numbered from 1 to the end of the turn, so a copy has
\* the sequence of the item it was made of.
LEMMA CopiesKeepSequence ==
    ASSUME TablesTyped, Numbered, NEW d \in Dialogues, NEW f,
           NEW end \in 1..dialogues[d].itemSequence
    PROVE  /\ Cardinality(Prefix(d, end)) = end
           /\ Copies(Prefix(d, end), f) = Copied(Prefix(d, end), f)
<1>. DEFINE prefix == Prefix(d, end)
<1>1. dialogues[d].itemSequence \in Nat
    BY DEF TablesTyped, DialogueRow
<1>2. end \in Nat /\ 1 <= end
    BY <1>1
<1>3. prefix \in SUBSET Item /\ Distinct(prefix)
    BY DEF Prefix, ItemsOf, TablesTyped, Distinct, Numbered
<1>4. \A i \in prefix : i.sequence \in 1..end
    BY <1>2, <1>3 DEF Prefix, Item
<1>5. \A n \in 1..end : \E i \in prefix : i.sequence = n
    <2>. TAKE n \in 1..end
    <2>1. n \in 1..dialogues[d].itemSequence
        BY <1>1
    <2>2. PICK i \in items : i.dialogue = d /\ i.sequence = n
        BY <2>1 DEF Numbered
    <2>. QED
        BY <2>2 DEF Prefix, ItemsOf
<1>. HIDE DEF prefix
<1>6. Cardinality(prefix) = end
    <2>1. Cardinality(prefix) = end - 1 + 1
        BY <1>2, <1>3, <1>4, <1>5, CountOfNumbered
    <2>. QED
        BY <1>2, <2>1
<1>7. ASSUME NEW i \in prefix
      PROVE  Rank(prefix, i) = i.sequence
    <2>1. 1 \in Nat \ {0}
        OBVIOUS
    <2>2. Rank(prefix, i) = i.sequence - 1 + 1
        BY <1>2, <1>3, <1>4, <1>5, <2>1, RankOfNumbered
    <2>3. i.sequence \in Nat
        BY <1>3 DEF Item
    <2>. QED
        BY <2>2, <2>3
<1>8. Copies(prefix, f) = Copied(prefix, f)
    BY <1>7 DEF Copies, Copied, CopyOf
<1>. QED
    BY <1>6, <1>8 DEF prefix

LEMMA CopyIs ==
    ASSUME NEW i \in Item, NEW f \in Dialogues
    PROVE  /\ CopyOf(i, f) \in Item /\ CopyOf(i, f).dialogue = f
           /\ CopyOf(i, f).id = IdOf("copy", i.sequence)
           /\ CopyOf(i, f).id.of = "copy"
           /\ CopyOf(i, f).sequence = i.sequence
           /\ CopyOf(i, f).version = i.version
           /\ CopyOf(i, f).status = i.status
           /\ CopyOf(i, f).turn = NoTurn /\ CopyOf(i, f).historical
<1>. DEFINE id == IdOf("copy", i.sequence)
<1>1. id \in Id /\ id.of = "copy"
    BY DEF Item, Id, IdOf
<1>2. CopyOf(i, f) = [i EXCEPT !.dialogue = f, !.turn = NoTurn,
                         !.historical = TRUE, !.sequence = i.sequence, !.id = id]
    BY DEF CopyOf
<1>. HIDE DEF id
<1>3. CopyOf(i, f) \in Item
    BY <1>1, <1>2 DEF Item
<1>4. /\ CopyOf(i, f).dialogue = f /\ CopyOf(i, f).id = id
      /\ CopyOf(i, f).sequence = i.sequence
      /\ CopyOf(i, f).version = i.version
      /\ CopyOf(i, f).status = i.status
      /\ CopyOf(i, f).turn = NoTurn /\ CopyOf(i, f).historical
    BY <1>2 DEF Item
<1>. QED
    BY <1>1, <1>3, <1>4 DEF id

LEMMA ForkStep ==
    ASSUME HistoryInv, NEW f \in Dialogues, NEW t \in Turns, Fork(f, t)
    PROVE  HistoryStep
<1>. USE DEF HistoryInv, HistoryTyped, TablesTyped, TableInv
<1>. DEFINE d      == turns[t].dialogue
            end    == turns[t].end
            prefix == Prefix(d, end)
            copies == Copied(prefix, f)
            row    == [NoRow EXCEPT !.kind = "fork", !.itemSequence = end,
                                    !.origin = d, !.originEnd = end]
<1>1. /\ dialogues[f].kind = "none" /\ turns[t].status = "COMPLETED"
      /\ dialogues' = [dialogues EXCEPT ![f] = [NoRow EXCEPT
            !.kind = "fork", !.itemSequence = Cardinality(prefix),
            !.origin = d, !.originEnd = end]]
      /\ items' = (items \ {}) \cup Copies(prefix, f)
      /\ feed' = feed \o <<Summary(f)>>
      /\ turns' = turns /\ significance' = significance
    BY DEF Fork, Write, Publish
<1>2. /\ d \in Dialogues /\ dialogues[d].kind # "none"
      /\ end \in 1..dialogues[d].itemSequence
    BY <1>1 DEF RowsAgree, Settled
<1>3. end \in Nat
    BY <1>2 DEF DialogueRow
<1>4. dialogues[f] = NoRow /\ \A i \in items : i.dialogue # f
    BY <1>1, ItemsAreThere DEF RowsAgree
<1>. HIDE DEF d, end
<1>5. Cardinality(prefix) = end /\ Copies(prefix, f) = copies
    BY <1>2, CopiesKeepSequence
<1>6. prefix \subseteq items /\ \A i \in prefix : i.dialogue = d /\ i \in Item
    BY DEF Prefix, ItemsOf
<1>7. \A n \in 1..end : \E i \in prefix : i.sequence = n
    <2>. TAKE n \in 1..end
    <2>1. n \in 1..dialogues[d].itemSequence
        BY <1>2 DEF DialogueRow
    <2>2. PICK i \in items : i.dialogue = d /\ i.sequence = n
        BY <1>2, <2>1 DEF Numbered
    <2>. QED
        BY <1>3, <2>2 DEF Prefix, ItemsOf
<1>8. \A i \in prefix : i.sequence <= end
    BY DEF Prefix
<1>. HIDE DEF prefix
<1>9. ASSUME NEW j \in copies
      PROVE  /\ j \in Item /\ j.dialogue = f /\ j.historical /\ j.turn = NoTurn
             /\ j.id = IdOf("copy", j.sequence) /\ j.id.of = "copy"
             /\ j.sequence <= end
    <2>1. PICK i \in prefix : j = CopyOf(i, f)
        BY DEF Copied
    <2>2. i \in Item
        BY <1>6
    <2>3. /\ j \in Item /\ j.dialogue = f /\ j.historical /\ j.turn = NoTurn
          /\ j.id = IdOf("copy", i.sequence) /\ j.id.of = "copy"
          /\ j.sequence = i.sequence
        BY <2>1, <2>2, CopyIs
    <2>. QED
        BY <1>8, <2>3
<1>10. items' = items \cup copies
    BY <1>1, <1>5
<1>11. /\ row \in DialogueRow /\ row.kind = "fork" /\ row.turn = NoTurn
       /\ row.itemSequence = end
    BY <1>2, <1>3 DEF NoRow, DialogueRow
<1>12. dialogues' = [dialogues EXCEPT ![f] = row]
    BY <1>1, <1>5
<1>13. \A j, k \in copies : j.sequence = k.sequence \/ j.id = k.id => j = k
    <2>. SUFFICES ASSUME NEW j \in copies, NEW k \in copies,
                         j.sequence = k.sequence \/ j.id = k.id
                  PROVE  j = k
        OBVIOUS
    <2>1. PICK a \in prefix : j = CopyOf(a, f)
        BY DEF Copied
    <2>2. PICK b \in prefix : k = CopyOf(b, f)
        BY DEF Copied
    <2>3. a.sequence = b.sequence
        <3>1. /\ j.id = IdOf("copy", a.sequence) /\ j.sequence = a.sequence
              /\ k.id = IdOf("copy", b.sequence) /\ k.sequence = b.sequence
            BY <1>6, <2>1, <2>2, CopyIs
        <3>2. j.id = k.id => a.sequence = b.sequence
            BY <3>1 DEF IdOf
        <3>. QED
            BY <3>1, <3>2
    <2>4. a = b
        BY <1>6, <2>3 DEF Numbered
    <2>. QED
        BY <2>1, <2>2, <2>4
<1>14. \A n \in 1..end : \E j \in copies : j.sequence = n
    <2>. TAKE n \in 1..end
    <2>1. PICK i \in prefix : i.sequence = n
        BY <1>7
    <2>2. CopyOf(i, f).sequence = n
        BY <1>6, <2>1, CopyIs
    <2>. QED
        BY <2>2 DEF Copied
<1>. HIDE DEF copies, row
<1>15. /\ dialogues' \in [Dialogues -> DialogueRow] /\ dialogues'[f] = row
       /\ \A e \in Dialogues \ {f} : dialogues'[e] = dialogues[e]
    BY <1>11, <1>12
<1>16. RowsAgree'
    <2>1. \A u \in Turns : turns[u].status # "none" => turns[u].dialogue # f
        <3>1. \A u \in Turns : turns[u].status # "none" =>
                 dialogues[turns[u].dialogue].kind # "none"
            BY DEF RowsAgree
        <3>. QED
            BY <1>1, <3>1
    <2>2. \A e \in Dialogues :
             /\ dialogues'[e].kind = "none" => dialogues'[e] = NoRow
             /\ dialogues'[e].turn # NoTurn =>
                   /\ dialogues'[e].status = "BUSY"
                   /\ turns'[dialogues'[e].turn].status = "OPEN"
                   /\ turns'[dialogues'[e].turn].dialogue = e
        BY <1>1, <1>11, <1>15 DEF RowsAgree
    <2>3. \A u \in Turns :
             /\ turns'[u].status # "none" =>
                   /\ turns'[u].dialogue \in Dialogues
                   /\ dialogues'[turns'[u].dialogue].kind # "none"
             /\ turns'[u].status = "OPEN" =>
                   dialogues'[turns'[u].dialogue].turn = u
             /\ turns'[u].status \in Settled =>
                   turns'[u].end \in 1..dialogues'[turns'[u].dialogue].itemSequence
        BY <1>1, <1>15, <2>1 DEF RowsAgree, Settled
    <2>. QED
        BY <2>2, <2>3 DEF RowsAgree
<1>17. Numbered'
    <2>1. \A i \in items', j \in items' :
             i.dialogue = j.dialogue /\ (i.sequence = j.sequence \/ i.id = j.id)
             => i = j
        BY <1>4, <1>9, <1>10, <1>13 DEF Numbered
    <2>2. \A i \in items' : i.sequence <= dialogues'[i.dialogue].itemSequence
        BY <1>4, <1>9, <1>10, <1>11, <1>15 DEF Numbered, Item
    <2>3. ASSUME NEW e \in Dialogues, NEW n \in 1..dialogues'[e].itemSequence
          PROVE  \E i \in items' : i.dialogue = e /\ i.sequence = n
        <3>1. CASE e = f
            BY <1>9, <1>10, <1>11, <1>14, <1>15, <3>1
        <3>2. CASE e # f
            BY <1>10, <1>15, <3>2 DEF Numbered
        <3>. QED
            BY <3>1, <3>2
    <2>. QED
        BY <2>1, <2>2, <2>3 DEF Numbered
<1>18. Named'
    BY <1>1, <1>9, <1>10 DEF Named, NamedWell
<1>19. ResultsEnd'
    <2>1. \A j \in copies : EndsItsTurn(j)'
        BY <1>9 DEF EndsItsTurn, Results
    <2>2. \A i \in items : EndsItsTurn(i)'
        BY <1>1 DEF ResultsEnd, EndsItsTurn
    <2>3. \A u \in Turns : turns'[u].status \in Settled =>
             \E i \in items' : i.turn = u /\ i.id.of \in Results
        BY <1>1, <1>10 DEF ResultsEnd
    <2>. QED
        BY <1>10, <2>1, <2>2, <2>3 DEF ResultsEnd
<1>20. OpenWork'
    <2>1. \A j \in copies : Works(j)'
        BY <1>9 DEF Works
    <2>2. \A i \in items : Works(i)'
        <3>. TAKE i \in items
        <3>1. dialogues'[i.dialogue] = dialogues[i.dialogue]
            BY <1>4, <1>15 DEF Item
        <3>2. Works(i)
            BY DEF OpenWork
        <3>. QED
            BY <1>1, <3>1, <3>2 DEF Works
    <2>. QED
        BY <1>10, <2>1, <2>2 DEF OpenWork
<1>21. /\ feed' \in Seq(Change)
       /\ Len(feed) \in Nat /\ Len(feed') = Len(feed) + 1
       /\ \A n \in 1..Len(feed) : feed'[n] = feed[n] /\ n \in 1..Len(feed')
       /\ \A n \in 1..Len(feed') : n \notin 1..Len(feed) =>
             feed'[n].kind = "SUMMARY_UPDATED"
    <2>. DEFINE changes == <<Summary(f)>>
    <2>1. changes \in Seq(Change) /\ Len(changes) = 1
        BY DEF Summary, Change
    <2>2. \A m \in 1..Len(changes) : changes[m].kind = "SUMMARY_UPDATED"
        BY DEF Summary
    <2>3. feed' = feed \o changes
        BY <1>1
    <2>. HIDE DEF changes
    <2>4. /\ feed' \in Seq(Change)
          /\ Len(feed) \in Nat /\ Len(feed') = Len(feed) + Len(changes)
          /\ \A n \in 1..Len(feed) : feed'[n] = feed[n] /\ n \in 1..Len(feed')
          /\ \A n \in 1..Len(feed') : n \notin 1..Len(feed) =>
                \E m \in 1..Len(changes) :
                   n = Len(feed) + m /\ feed'[n] = changes[m]
        BY <2>1, <2>3, FeedGrows
    <2>5. \A n \in 1..Len(feed') : n \notin 1..Len(feed) =>
             feed'[n].kind = "SUMMARY_UPDATED"
        <3>. TAKE n \in 1..Len(feed')
        <3>. HAVE n \notin 1..Len(feed)
        <3>1. PICK m \in 1..Len(changes) : feed'[n] = changes[m]
            BY <2>4
        <3>. QED
            BY <2>2, <3>1
    <2>. QED
        BY <2>1, <2>4, <2>5
<1>22. FeedInv'
    <2>1. ASSUME NEW n \in 1..Len(feed'), feed'[n].kind # "SUMMARY_UPDATED"
          PROVE  \E i \in items' : /\ i.dialogue = feed'[n].dialogue
                                   /\ i.id = feed'[n].id
                                   /\ i.version >= feed'[n].version
        BY <1>10, <1>21, <2>1 DEF FeedInv
    <2>2. ASSUME NEW i \in items', ~i.historical
          PROVE  \E n \in 1..Len(feed') : /\ Tells(n, i.dialogue, i.id)'
                                          /\ feed'[n].version = i.version
        <3>1. i \in items
            BY <1>9, <1>10, <2>2
        <3>2. PICK n \in 1..Len(feed) : /\ Tells(n, i.dialogue, i.id)
                                        /\ feed[n].version = i.version
            BY <2>2, <3>1 DEF FeedInv
        <3>. QED
            BY <1>21, <3>2 DEF Tells
    <2>3. ASSUME NEW n \in 1..Len(feed'),
                 feed'[n].kind = "HISTORY_TEXT_APPENDED",
                 feed'[n].version # 1
          PROVE  \E m \in 1..n - 1 :
                    /\ feed'[m].kind # "SUMMARY_UPDATED"
                    /\ feed'[m].dialogue = feed'[n].dialogue
                    /\ feed'[m].id = feed'[n].id
                    /\ feed'[m].version = feed'[n].version - 1
        <3>1. n \in 1..Len(feed) /\ feed'[n] = feed[n]
            BY <1>21, <2>3
        <3>2. PICK m \in 1..n - 1 : /\ Tells(m, feed[n].dialogue, feed[n].id)
                                    /\ feed[m].version = feed[n].version - 1
            BY <2>3, <3>1 DEF FeedInv
        <3>3. m \in 1..Len(feed)
            BY <1>21, <3>1
        <3>4. feed'[m] = feed[m]
            BY <1>21, <3>3
        <3>. QED
            BY <3>1, <3>2, <3>4 DEF Tells
    <2>. QED
        BY <2>1, <2>2, <2>3 DEF FeedInv, Tells
<1>23. SignificanceInv'
    BY <1>1, <1>10 DEF SignificanceInv, ItemsOf
<1>24. HistoryGrows
    <2>1. \A i \in items : i \in items' /\ Same(i, i) /\ i.version >= i.version
        BY <1>10 DEF Same, Item
    <2>2. \A j \in items' : \/ \E i \in items : Same(i, j)
                            \/ dialogues[j.dialogue].kind = "none"
        BY <1>1, <1>9, <1>10 DEF Same
    <2>3. Len(feed) <= Len(feed') /\ \A n \in 1..Len(feed) : feed'[n] = feed[n]
        BY <1>21
    <2>4. \A e \in Dialogues :
             /\ dialogues[e].itemSequence <= dialogues'[e].itemSequence
             /\ dialogues[e].kind # "none" => dialogues'[e].kind # "none"
        <3>. TAKE e \in Dialogues
        <3>1. CASE e = f
            <4>1. dialogues[e].itemSequence = 0
                BY <1>4, <3>1 DEF NoRow
            <4>2. dialogues'[e].itemSequence = end /\ dialogues'[e].kind = "fork"
                BY <1>11, <1>15, <3>1
            <4>. QED
                BY <1>3, <4>1, <4>2
        <3>2. CASE e # f
            BY <1>15, <3>2 DEF DialogueRow
        <3>. QED
            BY <3>1, <3>2
    <2>5. \A e \in Dialogues : Len(significance[e]) \in Nat
        OBVIOUS
    <2>6. \A e \in Dialogues :
             /\ Len(significance[e]) <= Len(significance'[e])
             /\ \A n \in 1..Len(significance[e]) :
                   significance'[e][n] = significance[e][n]
        BY <1>1, <2>5
    <2>7. /\ \A i \in items : \E j \in items' :
                Same(i, j) /\ j.version >= i.version
          /\ \A i \in items : i.historical => i \in items'
        BY <2>1
    <2>. QED
        BY <2>2, <2>3, <2>4, <2>6, <2>7 DEF HistoryGrows
<1>25. items' \subseteq Item
    BY <1>9, <1>10
<1>. QED
    BY <1>1, <1>15, <1>16, <1>17, <1>18, <1>19, <1>20, <1>21, <1>22, <1>23,
       <1>24, <1>25 DEF HistoryStep

-----------------------------------------------------------------------------
(* What a client has stays true while the history grows.                   *)

ClientsTyped == clients \in [Clients -> Client]

\* An item that was there has one of its name, place and kind, not older.
LEMMA ItemGoesOn ==
    ASSUME HistoryInv, HistoryStep, NEW d, NEW i \in ItemsOf(d)
    PROVE  \E j \in ItemsOf(d)' :
              /\ j.id = i.id /\ j.sequence = i.sequence
              /\ j.historical = i.historical
              /\ i.version \in Nat /\ j.version \in Nat /\ j.version >= i.version
<1>1. i \in items /\ i.dialogue = d
    BY DEF ItemsOf
<1>2. PICK j \in items' : Same(i, j) /\ j.version >= i.version
    BY <1>1 DEF HistoryStep, HistoryGrows
<1>3. i \in Item /\ j \in Item
    BY <1>1 DEF HistoryStep, HistoryInv, HistoryTyped, TablesTyped
<1>. QED
    BY <1>1, <1>2, <1>3 DEF Same, ItemsOf, Item

LEMMA PagedStays ==
    ASSUME HistoryInv, HistoryStep, NEW c \in Clients,
           clients'[c] = clients[c], NEW id, NEW version,
           version \in Nat, Paged(c, id, version)
    PROVE  Paged(c, id, version)'
<1>1. PICK i \in ItemsOf(clients[c].dialogue) :
         /\ i.id = id /\ i.version >= version
         /\ i.sequence <= clients[c].upper
         /\ i.sequence <= Reached(c) => Given(c, id, version)
    BY DEF Paged
<1>2. PICK j \in ItemsOf(clients[c].dialogue)' :
         /\ j.id = i.id /\ j.sequence = i.sequence
         /\ i.version \in Nat /\ j.version \in Nat /\ j.version >= i.version
    BY ItemGoesOn
<1>3. Reached(c)' = Reached(c) /\ (Given(c, id, version) => Given(c, id, version)')
    BY DEF Reached, Given
<1>4. j.version >= version
    BY <1>1, <1>2
<1>5. j \in {k \in items' : k.dialogue = clients'[c].dialogue}
    BY <1>2 DEF ItemsOf
<1>. QED
    BY <1>1, <1>2, <1>3, <1>4, <1>5 DEF Paged, ItemsOf

\* The feed and what was significant, as far as they went.
LEMMA RowsGoOn ==
    ASSUME HistoryInv, HistoryStep
    PROVE  /\ Len(feed) \in Nat /\ Len(feed') \in Nat /\ Len(feed) <= Len(feed')
           /\ \A n \in 1..Len(feed) : feed'[n] = feed[n] /\ feed[n] \in Change
           /\ \A d \in Dialogues :
                 /\ Len(significance[d]) \in Nat
                 /\ Len(significance[d]) <= Len(significance'[d])
                 /\ Len(significance'[d]) \in Nat
                 /\ \A n \in 1..Len(significance[d]) :
                       /\ significance'[d][n] = significance[d][n]
                       /\ significance[d][n] \in SUBSET Version
                 /\ dialogues[d].itemSequence \in Nat
                 /\ dialogues'[d].itemSequence \in Nat
                 /\ dialogues[d].itemSequence <= dialogues'[d].itemSequence
                 /\ dialogues[d].kind # "none" => dialogues'[d].kind # "none"
<1>. USE DEF HistoryInv, HistoryStep, HistoryTyped, TablesTyped
<1>1. /\ Len(feed) \in Nat /\ Len(feed') \in Nat /\ Len(feed) <= Len(feed')
      /\ \A n \in 1..Len(feed) : feed'[n] = feed[n]
    BY DEF HistoryGrows
<1>2. \A n \in 1..Len(feed) : feed[n] \in Change
    <2>1. feed \in Seq(Change)
        OBVIOUS
    <2>. QED
        BY <2>1, ElementOfSeq
<1>3. ASSUME NEW d \in Dialogues
      PROVE  /\ Len(significance[d]) \in Nat
             /\ Len(significance[d]) <= Len(significance'[d])
             /\ Len(significance'[d]) \in Nat
             /\ \A n \in 1..Len(significance[d]) :
                   significance'[d][n] = significance[d][n]
    <2>1. significance[d] \in Seq(SUBSET Version)
          /\ significance'[d] \in Seq(SUBSET Version)
        OBVIOUS
    <2>. QED
        BY <2>1 DEF HistoryGrows
<1>4. ASSUME NEW d \in Dialogues, NEW n \in 1..Len(significance[d])
      PROVE  significance[d][n] \in SUBSET Version
    <2>1. significance[d] \in Seq(SUBSET Version)
        OBVIOUS
    <2>. QED
        BY <2>1, ElementOfSeq
<1>5. ASSUME NEW d \in Dialogues
      PROVE  /\ dialogues[d].itemSequence \in Nat
             /\ dialogues'[d].itemSequence \in Nat
             /\ dialogues[d].itemSequence <= dialogues'[d].itemSequence
             /\ dialogues[d].kind # "none" => dialogues'[d].kind # "none"
    BY DEF HistoryGrows, DialogueRow
<1>. QED
    BY <1>1, <1>2, <1>3, <1>4, <1>5

LEMMA ContextStays ==
    ASSUME HistoryInv, HistoryStep, ClientsTyped, NEW c \in Clients,
           clients'[c] = clients[c], clients[c].dialogue \in Dialogues,
           ContextHolds(c)
    PROVE  ContextHolds(c)'
<1>. DEFINE d == clients[c].dialogue
            upper    == clients[c].upper
            snapshot == clients[c].snapshot
            observed == clients[c].observed
<1>1. /\ dialogues[d].kind # "none" /\ upper <= dialogues[d].itemSequence
      /\ snapshot <= Len(feed) /\ observed <= Len(significance[d])
      /\ clients[c].after <= upper
      /\ upper \in Nat /\ snapshot \in Nat /\ observed \in Nat
    BY DEF ContextHolds, ClientsTyped, Client
<1>2. /\ dialogues'[d].kind # "none" /\ upper <= dialogues'[d].itemSequence
      /\ snapshot <= Len(feed') /\ observed <= Len(significance'[d])
    <2>1. d \in Dialogues
        OBVIOUS
    <2>. HIDE DEF d, upper, snapshot, observed
    <2>2. /\ Len(feed) \in Nat /\ Len(feed') \in Nat /\ Len(feed) <= Len(feed')
          /\ Len(significance[d]) \in Nat /\ Len(significance'[d]) \in Nat
          /\ Len(significance[d]) <= Len(significance'[d])
        BY <2>1, RowsGoOn
    <2>3. /\ dialogues[d].itemSequence \in Nat
          /\ dialogues'[d].itemSequence \in Nat
          /\ dialogues[d].itemSequence <= dialogues'[d].itemSequence
          /\ dialogues'[d].kind # "none"
        BY <1>1, <2>1, RowsGoOn
    <2>. QED
        BY <1>1, <2>2, <2>3
<1>3. \A n \in 1..clients'[c].snapshot :
         feed'[n].kind # "SUMMARY_UPDATED"
         /\ feed'[n].dialogue = clients'[c].dialogue
         => Paged(c, feed[n].id, feed[n].version)'
    <2>. SUFFICES ASSUME NEW n \in 1..snapshot,
                         feed'[n].kind # "SUMMARY_UPDATED",
                         feed'[n].dialogue = d
                  PROVE  Paged(c, feed[n].id, feed[n].version)'
        OBVIOUS
    <2>1. n \in 1..Len(feed)
        BY <1>1, RowsGoOn
    <2>2. feed'[n] = feed[n] /\ feed[n] \in Change
        BY <2>1, RowsGoOn
    <2>3. Paged(c, feed[n].id, feed[n].version)
        BY <2>2 DEF ContextHolds
    <2>. PICK id, version : id = feed[n].id /\ version = feed[n].version
        OBVIOUS
    <2>4. version \in Nat /\ Paged(c, id, version)
        BY <2>2, <2>3 DEF Change
    <2>5. Paged(c, id, version)'
        BY <2>4, PagedStays
    <2>. QED
        BY <2>2, <2>5 DEF Paged, Given, Reached, ItemsOf
<1>4. \A i \in ItemsOf(clients[c].dialogue)' :
         i.historical => Paged(c, i.id, i.version)'
    <2>. SUFFICES ASSUME NEW i \in items', i.dialogue = d, i.historical
                  PROVE  Paged(c, i.id, i.version)'
        BY DEF ItemsOf
    <2>1. PICK o \in items : Same(o, i)
        BY <1>1 DEF HistoryStep, HistoryGrows
    <2>2. o \in items' /\ o.historical /\ o.dialogue = d
        BY <2>1 DEF HistoryStep, HistoryGrows, Same
    <2>3. o = i
        BY <2>1, <2>2 DEF HistoryStep, HistoryInv, TableInv, Numbered, Same
    <2>4. Paged(c, i.id, i.version)
        BY <2>2, <2>3 DEF ContextHolds, ItemsOf
    <2>5. i.version \in Nat
        BY DEF HistoryStep, HistoryInv, HistoryTyped, TablesTyped, Item
    <2>. QED
        BY <2>4, <2>5, PagedStays
<1>5. \A n \in 1..clients'[c].observed :
         \A v \in significance'[clients'[c].dialogue][n] :
            Paged(c, v.id, v.version)'
    <2>. SUFFICES ASSUME NEW n \in 1..observed, NEW v \in significance'[d][n]
                  PROVE  Paged(c, v.id, v.version)'
        OBVIOUS
    <2>1. n \in 1..Len(significance[d])
        BY <1>1, RowsGoOn
    <2>2. v \in significance[d][n] /\ v \in Version
        BY <2>1, RowsGoOn
    <2>3. Paged(c, v.id, v.version) /\ v.version \in Nat
        BY <2>2 DEF ContextHolds, Version
    <2>. QED
        BY <2>3, PagedStays
<1>. QED
    BY <1>1, <1>2, <1>3, <1>4, <1>5 DEF ContextHolds

LEMMA ReplicaStays ==
    ASSUME HistoryInv, HistoryStep, ClientsTyped, NEW c \in Clients,
           clients'[c] = clients[c], ReplicaOfItems(c)
    PROVE  ReplicaOfItems(c)'
<1>1. ASSUME NEW v \in clients[c].replica
      PROVE  \E j \in ItemsOf(clients[c].dialogue)' :
                /\ j.id = v.id /\ j.version >= v.version
                /\ clients[c].phase = "paging" => j.sequence <= clients[c].after
    <2>1. PICK i \in ItemsOf(clients[c].dialogue) :
             /\ i.id = v.id /\ i.version >= v.version
             /\ clients[c].phase = "paging" => i.sequence <= clients[c].after
        BY DEF ReplicaOfItems
    <2>2. PICK j \in ItemsOf(clients[c].dialogue)' :
             /\ j.id = i.id /\ j.sequence = i.sequence
             /\ i.version \in Nat /\ j.version \in Nat /\ j.version >= i.version
        BY ItemGoesOn
    <2>3. v.version \in Nat
        BY DEF ClientsTyped, Client, Version
    <2>. QED
        BY <2>1, <2>2, <2>3
<1>2. \A v, w \in clients[c].replica : v.id = w.id => v = w
    BY DEF ReplicaOfItems
<1>. QED
    BY <1>1, <1>2 DEF ReplicaOfItems, ItemsOf

LEMMA WatchStays ==
    ASSUME HistoryInv, HistoryStep, ClientsTyped, NEW c \in Clients,
           clients'[c] = clients[c], Watches(c)
    PROVE  Watches(c)'
<1>. DEFINE me == clients[c]
            d  == me.dialogue
<1>1. /\ Len(feed) \in Nat /\ Len(feed') \in Nat /\ Len(feed) <= Len(feed')
      /\ \A n \in 1..Len(feed) : feed'[n] = feed[n] /\ feed[n] \in Change
    BY RowsGoOn
<1>2. me.position \in Nat /\ me.position <= Len(feed)
    BY DEF Watches, ClientsTyped, Client
<1>3. \A n \in Ahead(c) : n \in 1..Len(feed) /\ n > me.position
                          /\ feed[n].dialogue = d /\ n \in Ahead(c)'
    BY <1>1 DEF Ahead
<1>4. \A m \in Ahead(c)' : \A n \in Ahead(c) : m < n => m \in Ahead(c)
    <2>. SUFFICES ASSUME NEW m \in Ahead(c)', NEW n \in Ahead(c), m < n
                  PROVE  m \in Ahead(c)
        OBVIOUS
    <2>1. /\ m \in 1..Len(feed') /\ m > me.position /\ feed'[m].dialogue = d
        BY DEF Ahead
    <2>2. m \in 1..Len(feed)
        BY <1>1, <1>3, <2>1
    <2>. QED
        BY <1>1, <2>1, <2>2 DEF Ahead
<1>5. me.position <= Len(feed')
    BY <1>1, <1>2
<1>6. \A n \in 1..me.position :
         feed'[n].kind # "SUMMARY_UPDATED" /\ feed'[n].dialogue = d
         => \E v \in me.replica : v.id = feed'[n].id
                                  /\ v.version >= feed'[n].version
    <2>1. \A n \in 1..me.position : n \in 1..Len(feed)
        BY <1>1, <1>2
    <2>. QED
        BY <1>1, <2>1 DEF Watches, Given
<1>7. /\ \A n \in me.rows : n \in Ahead(c)'
      /\ \A n \in me.rows : \A m \in Ahead(c)' : m < n => m \in me.rows
    BY <1>3, <1>4 DEF Watches
<1>8. ASSUME NEW b \in me.buffer
      PROVE  /\ b.row \in Ahead(c)'
             /\ feed'[b.row].kind = "HISTORY_ITEM_UPSERTED" =>
                   /\ b.version >= feed'[b.row].version
                   /\ \E i \in ItemsOf(d)' :
                         i.id = feed'[b.row].id /\ i.version >= b.version
    <2>1. b.row \in Ahead(c) /\ feed'[b.row] = feed[b.row]
        BY <1>1, <1>3 DEF Watches
    <2>2. feed[b.row].kind = "HISTORY_ITEM_UPSERTED" =>
             /\ b.version >= feed[b.row].version
             /\ \E i \in ItemsOf(d) :
                   i.id = feed[b.row].id /\ i.version >= b.version
        BY DEF Watches
    <2>3. ASSUME NEW i \in ItemsOf(d), i.id = feed[b.row].id,
                 i.version >= b.version
          PROVE  \E j \in ItemsOf(d)' :
                    j.id = feed[b.row].id /\ j.version >= b.version
        <3>1. PICK j \in ItemsOf(d)' :
                 /\ j.id = i.id /\ i.version \in Nat /\ j.version \in Nat
                 /\ j.version >= i.version
            BY ItemGoesOn
        <3>2. b.version \in Nat
            BY DEF ClientsTyped, Client
        <3>. QED
            BY <2>3, <3>1, <3>2
    <2>. QED
        BY <1>3, <2>1, <2>2, <2>3
<1>9. \A b \in me.buffer : \A m \in Ahead(c)' :
         m < b.row => \E o \in me.buffer : o.row = m
    BY <1>4, <1>8 DEF Watches
<1>10. /\ \A b, o \in me.buffer : b.row = o.row => b = o
       /\ me.rows = {} \/ me.buffer = {}
    BY DEF Watches
<1>. QED
    BY <1>5, <1>6, <1>7, <1>8, <1>9, <1>10 DEF Watches, Given, ItemsOf

\* A client that does nothing, while a handler or another client does.
LEMMA ClientStays ==
    ASSUME HistoryInv, HistoryStep, ClientsTyped, NEW c \in Clients,
           clients'[c] = clients[c], ClientHolds(c)
    PROVE  ClientHolds(c)'
<1>1. ReplicaOfItems(c)'
    BY ReplicaStays DEF ClientHolds
<1>2. clients[c].phase # "idle" => ContextHolds(c)'
    BY ContextStays DEF ClientHolds
<1>3. clients[c].phase = "watching" => Watches(c)'
    BY WatchStays DEF ClientHolds
<1>. QED
    BY <1>1, <1>2, <1>3 DEF ClientHolds

-----------------------------------------------------------------------------
(* Every handler keeps the tables, and so does a client that reads.        *)

LEMMA HistoryStutters ==
    ASSUME HistoryInv, UNCHANGED history
    PROVE  HistoryStep
<1>. USE DEF HistoryInv, HistoryTyped, TablesTyped
<1>1. /\ dialogues' = dialogues /\ turns' = turns /\ items' = items
      /\ feed' = feed /\ significance' = significance
    BY DEF history
<1>2. HistoryTyped' /\ RowsAgree' /\ Numbered'
    BY <1>1 DEF TableInv, RowsAgree, Numbered
<1>3. Named' /\ ResultsEnd' /\ OpenWork'
    BY <1>1 DEF TableInv, Named, NamedWell, ResultsEnd, EndsItsTurn, OpenWork, Works
<1>4. FeedInv' /\ SignificanceInv'
    BY <1>1 DEF FeedInv, Tells, SignificanceInv, ItemsOf
<1>5. Len(feed) \in Nat /\ \A d \in Dialogues : Len(significance[d]) \in Nat
    OBVIOUS
<1>6. \A i \in items : i \in items' /\ Same(i, i) /\ i.version >= i.version
    BY <1>1 DEF Same, Item
<1>7. \A d \in Dialogues : dialogues[d].itemSequence \in Nat
    BY DEF DialogueRow
<1>8. HistoryGrows
    BY <1>1, <1>5, <1>6, <1>7 DEF HistoryGrows
<1>. QED
    BY <1>2, <1>3, <1>4, <1>8 DEF HistoryStep, TableInv

LEMMA CommandStep ==
    ASSUME HistoryInv, NEW d \in Dialogues, Command(d)
    PROVE  HistoryStep /\ clients' = clients
<1>1. CASE Create(d)
    BY <1>1, CreateStep DEF Create
<1>2. CASE BindSession(d)
    BY <1>2, BindSessionStep DEF BindSession
<1>3. CASE Reopen(d)
    BY <1>3, ReopenStep DEF Reopen
<1>4. ASSUME NEW t \in Turns, Send(d, t)
      PROVE  HistoryStep /\ clients' = clients
    BY <1>4, SendStep DEF Send
<1>5. ASSUME NEW t \in Turns, Fork(d, t)
      PROVE  HistoryStep /\ clients' = clients
    BY <1>5, ForkStep DEF Fork
<1>6. ASSUME NEW i \in Interactions, Respond(d, i)
      PROVE  HistoryStep /\ clients' = clients
    BY <1>6, RespondStep DEF Respond
<1>7. ASSUME NEW i \in Interactions, FailResponse(d, i)
      PROVE  HistoryStep /\ clients' = clients
    BY <1>7, FailResponseStep DEF FailResponse
<1>. QED
    BY <1>1, <1>2, <1>3, <1>4, <1>5, <1>6, <1>7 DEF Command

LEMMA SessionEventStep ==
    ASSUME HistoryInv, NEW d \in Dialogues, SessionEvent(d)
    PROVE  HistoryStep /\ clients' = clients
<1>1. CASE Progress(d)
    BY <1>1, ProgressStep DEF Progress
<1>2. ASSUME NEW t \in Turns, AppendText(d, t)
      PROVE  HistoryStep /\ clients' = clients
    BY <1>2, AppendTextStep DEF AppendText
<1>3. ASSUME NEW t \in Turns, CompleteMessage(d, t)
      PROVE  HistoryStep /\ clients' = clients
    BY <1>3, CompleteMessageStep DEF CompleteMessage
<1>4. ASSUME NEW t \in Turns, NEW status \in {"IN_PROGRESS", "COMPLETED"},
             RecordActivity(d, t, status)
      PROVE  HistoryStep /\ clients' = clients
    BY <1>4, RecordActivityStep DEF RecordActivity
<1>5. ASSUME NEW i \in Interactions, NEW turn, Request(d, i, turn)
      PROVE  HistoryStep /\ clients' = clients
    BY <1>5, RequestStep DEF Request
<1>6. ASSUME NEW i \in Interactions, Resolve(d, i)
      PROVE  HistoryStep /\ clients' = clients
    BY <1>6, ResolveStep DEF Resolve
<1>. QED
    BY <1>1, <1>2, <1>3, <1>4, <1>5, <1>6 DEF SessionEvent

LEMMA EndingStep ==
    ASSUME HistoryInv, NEW d \in Dialogues, Ending(d)
    PROVE  HistoryStep /\ clients' = clients
<1>1. ASSUME NEW t \in Turns, NEW status \in {"COMPLETED", "ENDED"},
             CompleteTurn(d, t, status)
      PROVE  HistoryStep /\ clients' = clients
    BY <1>1, CompleteTurnStep DEF CompleteTurn, EndTurn, Settled
<1>2. ASSUME NEW t \in Turns, NEW status \in {"READY", "UNCERTAIN"},
             InterruptTurn(d, t, status)
      PROVE  HistoryStep /\ clients' = clients
    BY <1>2, InterruptTurnStep DEF InterruptTurn, EndTurn
<1>3. ASSUME NEW t \in Turns, CloseActive(d, t)
      PROVE  HistoryStep /\ clients' = clients
    BY <1>3, CloseActiveStep DEF CloseActive, EndTurn
<1>4. ASSUME NEW restarted \in BOOLEAN, CloseIdle(d, restarted)
      PROVE  HistoryStep /\ clients' = clients
    BY <1>4, CloseIdleStep DEF CloseIdle
<1>. QED
    BY <1>1, <1>2, <1>3, <1>4 DEF Ending

\* Nothing but a client's read mark and what a handler writes changes.
LEMMA NextStep ==
    ASSUME HistoryInv, ClientsTyped, ClientInv, [Next]_vars
    PROVE  HistoryStep
<1>1. ASSUME NEW d \in Dialogues, Command(d) \/ SessionEvent(d) \/ Ending(d)
      PROVE  HistoryStep
    BY <1>1, CommandStep, SessionEventStep, EndingStep
<1>2. ASSUME NEW c \in Clients, MarkRead(c)
      PROVE  HistoryStep
    <2>1. clients[c].phase = "watching"
        BY <1>2 DEF MarkRead
    <2>2. clients[c].dialogue \in Dialogues /\ ContextHolds(c)
        BY <2>1 DEF ClientInv, ClientHolds
    <2>3. dialogues[clients[c].dialogue].kind # "none"
        BY <2>2 DEF ContextHolds
    <2>4. clients[c].observed \in Nat
        BY DEF ClientsTyped, Client
    <2>. QED
        BY <1>2, <2>2, <2>3, <2>4, MarkReadStep
<1>3. ASSUME NEW c \in Clients, Read(c), ~MarkRead(c)
      PROVE  HistoryStep
    <2>1. UNCHANGED history
        BY <1>3 DEF Read, ListHistory, FetchRows, LoadItems, Deliver, Reconnect
    <2>. QED
        BY <2>1, HistoryStutters
<1>4. CASE UNCHANGED vars
    BY <1>4, HistoryStutters DEF vars
<1>. QED
    BY <1>1, <1>2, <1>3, <1>4 DEF Next

-----------------------------------------------------------------------------
(* A client reads pages.                                                   *)

\* The item is one of the first upper items, and the client has it if it is one
\* of the first after items.
Promised(c, d, upper, id, version) ==
    \E i \in ItemsOf(d) :
        /\ i.id = id /\ i.version >= version /\ i.sequence <= upper
        /\ i.sequence <= clients[c].after => Given(c, id, version)

\* What holds of the context that a page is read with.
Promises(c, d, context) ==
    /\ context.upper \in Nat /\ context.snapshot \in Nat
    /\ context.observed \in Nat
    /\ clients[c].after <= context.upper
    /\ context.upper <= dialogues[d].itemSequence
    /\ context.snapshot <= Len(feed)
    /\ context.observed <= Len(significance[d])
    /\ \A n \in 1..context.snapshot :
          feed[n].kind # "SUMMARY_UPDATED" /\ feed[n].dialogue = d
          => Promised(c, d, context.upper, feed[n].id, feed[n].version)
    /\ \A i \in ItemsOf(d) :
          i.historical => Promised(c, d, context.upper, i.id, i.version)
    /\ \A n \in 1..context.observed : \A v \in significance[d][n] :
          Promised(c, d, context.upper, v.id, v.version)

\* The first page is read of all there is.
LEMMA FirstPage ==
    ASSUME HistoryInv, ClientsTyped, NEW c \in Clients, NEW d \in Dialogues,
           clients[c] = Idle
    PROVE  Promises(c, d, PageContext(c, d))
<1>. USE DEF HistoryInv, HistoryTyped, TablesTyped, TableInv
<1>. DEFINE upper == dialogues[d].itemSequence
            snapshot == Len(feed)
            observed == Len(significance[d])
<1>1. clients[c].phase = "idle" /\ clients[c].after = 0
    BY DEF Idle
<1>2. /\ PageContext(c, d).upper = upper
      /\ PageContext(c, d).snapshot = snapshot
      /\ PageContext(c, d).observed = observed
    BY <1>1 DEF PageContext
<1>3. upper \in Nat /\ snapshot \in Nat /\ observed \in Nat
    <2>1. significance[d] \in Seq(SUBSET Version)
        OBVIOUS
    <2>. QED
        BY <2>1 DEF DialogueRow
<1>4. ASSUME NEW i \in ItemsOf(d), NEW version, i.version >= version
      PROVE  Promised(c, d, upper, i.id, version)
    <2>1. i \in items /\ i.dialogue = d
        BY DEF ItemsOf
    <2>2. i.sequence <= upper /\ ~(i.sequence <= 0)
        BY <2>1 DEF Numbered, Item
    <2>. QED
        BY <1>1, <1>4, <2>2 DEF Promised
<1>5. ASSUME NEW n \in 1..snapshot, feed[n].kind # "SUMMARY_UPDATED",
             feed[n].dialogue = d
      PROVE  Promised(c, d, upper, feed[n].id, feed[n].version)
    <2>1. PICK i \in items : /\ i.dialogue = feed[n].dialogue
                             /\ i.id = feed[n].id
                             /\ i.version >= feed[n].version
        BY <1>5 DEF FeedInv
    <2>. QED
        BY <1>4, <1>5, <2>1 DEF ItemsOf
<1>6. ASSUME NEW i \in ItemsOf(d)
      PROVE  Promised(c, d, upper, i.id, i.version)
    <2>1. i.version >= i.version
        BY DEF ItemsOf, Item
    <2>. QED
        BY <1>4, <2>1
<1>7. ASSUME NEW n \in 1..observed, NEW v \in significance[d][n]
      PROVE  Promised(c, d, upper, v.id, v.version)
    BY <1>4 DEF SignificanceInv
<1>. HIDE DEF upper, snapshot, observed
<1>8. 0 <= upper /\ upper <= dialogues[d].itemSequence
      /\ snapshot <= Len(feed) /\ observed <= Len(significance[d])
    BY <1>3 DEF upper, snapshot, observed
<1>. QED
    BY <1>1, <1>2, <1>3, <1>5, <1>6, <1>7, <1>8 DEF Promises

\* The next page goes on with what the first page has said.
LEMMA NextPage ==
    ASSUME HistoryInv, ClientsTyped, NEW c \in Clients, ClientHolds(c),
           clients[c].phase = "paging"
    PROVE  Promises(c, clients[c].dialogue, PageContext(c, clients[c].dialogue))
<1>. DEFINE d == clients[c].dialogue
<1>1. ContextHolds(c)
    BY DEF ClientHolds
<1>2. /\ PageContext(c, d).upper = clients[c].upper
      /\ PageContext(c, d).snapshot = clients[c].snapshot
      /\ PageContext(c, d).observed = clients[c].observed
    BY DEF PageContext
<1>3. /\ clients[c].upper \in Nat /\ clients[c].snapshot \in Nat
      /\ clients[c].observed \in Nat
    BY DEF ClientsTyped, Client
<1>4. \A id, version : Paged(c, id, version) =>
         Promised(c, d, clients[c].upper, id, version)
    BY DEF Paged, Promised, Reached
<1>. QED
    BY <1>1, <1>2, <1>3, <1>4 DEF Promises, ContextHolds

\* A page has the next items, and all the rest or as many as fit.
RestOf(d, after, upper) == {i \in ItemsOf(d) : /\ i.sequence > after
                                               /\ i.sequence <= upper}

PageOf(rest) == {i \in rest : Rank(rest, i) <= PageSize}

LEMMA Numbers ==
    ASSUME NEW n \in Nat, NEW m \in Nat
    PROVE  n - (m + 1) + 1 = n - m /\ m + n - (m + 1) + 1 = n
OBVIOUS

LEMMA CountOfNext ==
    ASSUME NEW set \in SUBSET Item, Distinct(set), NEW after \in Nat,
           NEW size \in Nat,
           \A i \in set : i.sequence \in after + 1..after + size,
           \A n \in after + 1..after + size : \E i \in set : i.sequence = n
    PROVE  Cardinality(set) = size
<1>1. PICK first \in Nat : first = after + 1
    OBVIOUS
<1>2. PICK last \in Nat : last = after + size
    OBVIOUS
<1>3. first <= last + 1
    BY <1>1, <1>2
<1>4. /\ \A i \in set : i.sequence \in first..last
      /\ \A n \in first..last : \E i \in set : i.sequence = n
    BY <1>1, <1>2
<1>5. Cardinality(set) = last - first + 1
    BY <1>3, <1>4, CountOfNumbered
<1>. QED
    BY <1>1, <1>2, <1>5

LEMMA PageIs ==
    ASSUME HistoryInv, NEW d \in Dialogues, NEW after \in Nat, NEW upper \in Nat,
           after <= upper, upper <= dialogues[d].itemSequence,
           NEW rest, rest = RestOf(d, after, upper),
           NEW page, page = PageOf(rest),
           NEW reach, reach = IF page = rest THEN upper
                              ELSE after + Cardinality(page)
    PROVE  /\ reach \in Nat /\ after <= reach /\ reach <= upper
           /\ page = {i \in ItemsOf(d) : /\ i.sequence > after
                                         /\ i.sequence <= reach}
<1>. USE DEF HistoryInv, HistoryTyped, TablesTyped, TableInv
<1>1. rest \in SUBSET Item /\ Distinct(rest)
    BY DEF RestOf, ItemsOf, Distinct, Numbered
<1>2. \A i \in rest : i.sequence \in after + 1..upper
    BY <1>1 DEF RestOf, Item
<1>3. \A n \in after + 1..upper : \E i \in rest : i.sequence = n
    <2>. TAKE n \in after + 1..upper
    <2>1. n \in 1..dialogues[d].itemSequence
        BY DEF DialogueRow
    <2>2. PICK i \in items : i.dialogue = d /\ i.sequence = n
        BY <2>1 DEF Numbered
    <2>3. n > after /\ n <= upper
        OBVIOUS
    <2>. QED
        BY <2>2, <2>3 DEF RestOf, ItemsOf
<1>4. ASSUME NEW i \in rest
      PROVE  Rank(rest, i) = i.sequence - after
    <2>1. after + 1 \in Nat \ {0}
        OBVIOUS
    <2>2. Rank(rest, i) = i.sequence - (after + 1) + 1
        BY <1>1, <1>2, <1>3, <2>1, RankOfNumbered
    <2>3. i.sequence \in Nat
        BY <1>1 DEF Item
    <2>4. i.sequence - (after + 1) + 1 = i.sequence - after
        BY <2>3, Numbers
    <2>. QED
        BY <2>2, <2>4
<1>5. PageSize \in Nat \ {0}
    BY SizesAssumption
<1>6. \A i \in rest : i \in page <=> i.sequence <= after + PageSize
    <2>. TAKE i \in rest
    <2>1. i.sequence \in Nat
        BY <1>1 DEF Item
    <2>2. i \in page <=> i.sequence - after <= PageSize
        BY <1>4 DEF PageOf
    <2>. QED
        BY <1>5, <2>1, <2>2
<1>7. page \subseteq rest
    BY DEF PageOf
<1>8. CASE page = rest
    BY <1>8 DEF RestOf
<1>9. CASE page # rest
    <2>1. PICK i \in rest : i \notin page
        BY <1>7, <1>9
    <2>2. after + PageSize < upper
        <3>1. i.sequence \in Nat /\ i.sequence <= upper
            BY <1>2
        <3>2. ~(i.sequence <= after + PageSize)
            BY <1>6, <2>1
        <3>. QED
            BY <1>5, <3>1, <3>2
    <2>3. page \in SUBSET Item /\ Distinct(page)
        BY <1>1, <1>7 DEF Distinct
    <2>4. \A j \in page : j.sequence \in after + 1..after + PageSize
        BY <1>2, <1>5, <1>6, <1>7
    <2>5. \A n \in after + 1..after + PageSize : \E j \in page : j.sequence = n
        <3>. TAKE n \in after + 1..after + PageSize
        <3>1. n \in after + 1..upper /\ n <= after + PageSize
            BY <1>5, <2>2
        <3>2. PICK j \in rest : j.sequence = n
            BY <1>3, <3>1
        <3>. QED
            BY <1>6, <3>1, <3>2
    <2>6. Cardinality(page) = PageSize
        BY <1>5, <2>3, <2>4, <2>5, CountOfNext
    <2>7. reach = after + PageSize
        BY <1>9, <2>6
    <2>8. \A j \in ItemsOf(d) : j.sequence \in Nat
        BY DEF ItemsOf, Item
    <2>9. ASSUME NEW j \in ItemsOf(d)
          PROVE  j \in page <=> j.sequence > after /\ j.sequence <= reach
        <3>1. j \in rest <=> j.sequence > after /\ j.sequence <= upper
            BY DEF RestOf
        <3>2. j.sequence <= reach => j.sequence <= upper
            BY <1>5, <2>2, <2>7, <2>8
        <3>. QED
            BY <1>6, <1>7, <2>7, <3>1, <3>2
    <2>10. page \subseteq ItemsOf(d)
        BY <1>7 DEF RestOf
    <2>. QED
        BY <1>5, <2>2, <2>7, <2>9, <2>10
<1>. QED
    BY <1>8, <1>9

\* A page is added to what the client has; pages follow, or the feed.
Pages(c, d, context, reach, page) ==
    /\ clients'[c].phase \in {"paging", "watching"}
    /\ clients'[c].dialogue = d
    /\ clients'[c].upper = context.upper
    /\ clients'[c].snapshot = context.snapshot
    /\ clients'[c].observed = context.observed
    /\ clients'[c].phase = "paging" => clients'[c].after = reach
    /\ clients'[c].phase = "watching" =>
          clients'[c].after = 0 /\ reach = context.upper
    /\ clients'[c].position = context.snapshot
    /\ clients'[c].replica =
          clients[c].replica \cup {VersionOf(i) : i \in page}
    /\ clients'[c].rows = {} /\ clients'[c].buffer = {}
    /\ ~clients'[c].gap

LEMMA PageGives ==
    ASSUME HistoryInv, ClientsTyped, NEW c \in Clients, NEW d \in Dialogues,
           NEW context, NEW reach \in Nat, NEW page,
           clients[c].after <= reach, reach <= context.upper,
           page = {i \in ItemsOf(d) : /\ i.sequence > clients[c].after
                                      /\ i.sequence <= reach},
           Pages(c, d, context, reach, page), UNCHANGED history,
           NEW id, NEW version, Promised(c, d, context.upper, id, version)
    PROVE  Paged(c, id, version)'
<1>1. items' = items
    BY DEF history
<1>2. PICK i \in ItemsOf(d) :
         /\ i.id = id /\ i.version >= version /\ i.sequence <= context.upper
         /\ i.sequence <= clients[c].after => Given(c, id, version)
    BY DEF Promised
<1>3. Reached(c)' = reach
    BY DEF Reached, Pages
<1>4. clients[c].replica \subseteq clients'[c].replica
    BY DEF Pages
<1>5. i.sequence \in Nat /\ clients[c].after \in Nat
    BY DEF ItemsOf, HistoryInv, HistoryTyped, TablesTyped, Item, ClientsTyped,
           Client
<1>6. ASSUME i.sequence <= reach
      PROVE  \E v \in clients'[c].replica : v.id = id /\ v.version >= version
    <2>1. CASE i.sequence <= clients[c].after
        BY <1>2, <1>4, <2>1 DEF Given
    <2>2. CASE ~(i.sequence <= clients[c].after)
        <3>1. i \in page
            BY <1>5, <1>6, <2>2
        <3>2. VersionOf(i) \in clients'[c].replica
            BY <3>1 DEF Pages
        <3>. QED
            BY <1>2, <3>2 DEF VersionOf
    <2>. QED
        BY <2>1, <2>2
<1>7. clients'[c].dialogue = d /\ clients'[c].upper = context.upper
    BY DEF Pages
<1>. QED
    BY <1>1, <1>2, <1>3, <1>6, <1>7 DEF Paged, Given, ItemsOf

LEMMA PageIsOfItems ==
    ASSUME HistoryInv, ClientsTyped, NEW c \in Clients, NEW d \in Dialogues,
           ReplicaOfItems(c),
           clients[c] = Idle \/ (clients[c].phase = "paging"
                                 /\ clients[c].dialogue = d),
           NEW context, NEW reach \in Nat, NEW page,
           clients[c].after <= reach, reach <= context.upper,
           page = {i \in ItemsOf(d) : /\ i.sequence > clients[c].after
                                      /\ i.sequence <= reach},
           Pages(c, d, context, reach, page), UNCHANGED history
    PROVE  ReplicaOfItems(c)'
<1>. USE DEF HistoryInv, HistoryTyped, TablesTyped, TableInv
<1>1. items' = items
    BY DEF history
<1>2. clients[c].after \in Nat
    BY DEF ClientsTyped, Client
<1>3. \A i \in ItemsOf(d) : i.sequence \in Nat /\ i.version \in Nat
    BY DEF ItemsOf, Item
<1>4. \A i, j \in ItemsOf(d) : i.id = j.id => i = j
    BY DEF ItemsOf, Numbered
<1>5. ASSUME NEW v \in clients[c].replica
      PROVE  \E i \in ItemsOf(d) : /\ i.id = v.id /\ i.version >= v.version
                                   /\ i.sequence <= clients[c].after
    <2>1. clients[c].phase = "paging" /\ clients[c].dialogue = d
        BY <1>5 DEF Idle
    <2>. QED
        BY <2>1 DEF ReplicaOfItems
<1>6. \A i \in page : i \in ItemsOf(d) /\ i.sequence > clients[c].after
                      /\ i.sequence <= reach
    OBVIOUS
<1>7. ASSUME NEW v \in clients'[c].replica
      PROVE  \E i \in ItemsOf(d) :
                /\ i.id = v.id /\ i.version >= v.version /\ i.sequence <= reach
                /\ \/ v \in clients[c].replica /\ i.sequence <= clients[c].after
                   \/ v = VersionOf(i) /\ i.sequence > clients[c].after
    <2>1. CASE v \in clients[c].replica
        BY <1>2, <1>3, <1>5, <2>1
    <2>2. CASE v \notin clients[c].replica
        <3>1. PICK i \in page : v = VersionOf(i)
            BY <2>2 DEF Pages
        <3>2. i \in ItemsOf(d) /\ i.version >= i.version
            BY <1>3, <1>6
        <3>. QED
            BY <1>6, <3>1, <3>2 DEF VersionOf
    <2>. QED
        BY <2>1, <2>2
<1>8. ASSUME NEW v \in clients'[c].replica, NEW w \in clients'[c].replica,
             v.id = w.id
      PROVE  v = w
    <2>1. PICK i \in ItemsOf(d) :
             /\ i.id = v.id
             /\ \/ v \in clients[c].replica /\ i.sequence <= clients[c].after
                \/ v = VersionOf(i) /\ i.sequence > clients[c].after
        BY <1>7
    <2>2. PICK j \in ItemsOf(d) :
             /\ j.id = w.id
             /\ \/ w \in clients[c].replica /\ j.sequence <= clients[c].after
                \/ w = VersionOf(j) /\ j.sequence > clients[c].after
        BY <1>7
    <2>3. i = j
        BY <1>4, <1>8, <2>1, <2>2
    <2>4. CASE i.sequence <= clients[c].after
        <3>1. v \in clients[c].replica /\ w \in clients[c].replica
            BY <1>2, <1>3, <2>1, <2>2, <2>3, <2>4
        <3>. QED
            BY <1>8, <3>1 DEF ReplicaOfItems
    <2>5. CASE ~(i.sequence <= clients[c].after)
        BY <2>1, <2>2, <2>3, <2>5
    <2>. QED
        BY <2>4, <2>5
<1>9. /\ clients'[c].dialogue = d
      /\ clients'[c].phase = "paging" => clients'[c].after = reach
    BY DEF Pages
<1>. HIDE DEF HistoryInv, HistoryTyped, TablesTyped, TableInv
<1>10. \A v \in clients'[c].replica : \E i \in ItemsOf(d)' :
          /\ i.id = v.id /\ i.version >= v.version
          /\ clients'[c].phase = "paging" => i.sequence <= clients'[c].after
    BY <1>1, <1>7, <1>9 DEF ItemsOf
<1>. QED
    BY <1>8, <1>9, <1>10 DEF ReplicaOfItems, ItemsOf

LEMMA PageStep ==
    ASSUME HistoryInv, ClientsTyped, NEW c \in Clients, NEW d \in Dialogues,
           ReplicaOfItems(c), dialogues[d].kind # "none",
           clients[c] = Idle \/ (clients[c].phase = "paging"
                                 /\ clients[c].dialogue = d),
           NEW context, Promises(c, d, context), NEW reach \in Nat, NEW page,
           clients[c].after <= reach, reach <= context.upper,
           page = {i \in ItemsOf(d) : /\ i.sequence > clients[c].after
                                      /\ i.sequence <= reach},
           Pages(c, d, context, reach, page), UNCHANGED history
    PROVE  ClientHolds(c)'
<1>1. /\ dialogues' = dialogues /\ items' = items /\ feed' = feed
      /\ significance' = significance
    BY DEF history
<1>2. \A id, version : Promised(c, d, context.upper, id, version) =>
         \E i \in ItemsOf(d) :
            /\ i.id = id /\ i.version >= version
            /\ i.sequence <= context.upper
            /\ i.sequence <= reach =>
                  \E v \in clients'[c].replica :
                     v.id = id /\ v.version >= version
    <2>. SUFFICES ASSUME NEW id, NEW version,
                         Promised(c, d, context.upper, id, version)
                  PROVE  \E i \in ItemsOf(d) :
            /\ i.id = id /\ i.version >= version
            /\ i.sequence <= context.upper
            /\ i.sequence <= reach =>
                  \E v \in clients'[c].replica :
                     v.id = id /\ v.version >= version
        OBVIOUS
    <2>1. Paged(c, id, version)'
        BY PageGives
    <2>2. Reached(c)' = reach
        BY DEF Reached, Pages
    <2>3. clients'[c].dialogue = d /\ clients'[c].upper = context.upper
        BY DEF Pages
    <2>. QED
        BY <1>1, <2>1, <2>2, <2>3 DEF Paged, Given, ItemsOf
<1>. DEFINE told(id, version) ==
         \E i \in ItemsOf(d) :
            /\ i.id = id /\ i.version >= version
            /\ i.sequence <= context.upper
            /\ i.sequence <= reach =>
                  \E v \in clients'[c].replica :
                     v.id = id /\ v.version >= version
<1>3. /\ context.upper \in Nat /\ context.snapshot \in Nat
      /\ context.observed \in Nat
      /\ context.upper <= dialogues[d].itemSequence
      /\ context.snapshot <= Len(feed)
      /\ context.observed <= Len(significance[d])
    BY DEF Promises
<1>4. /\ \A n \in 1..context.snapshot :
            feed[n].kind # "SUMMARY_UPDATED" /\ feed[n].dialogue = d
            => told(feed[n].id, feed[n].version)
      /\ \A i \in ItemsOf(d) : i.historical => told(i.id, i.version)
      /\ \A n \in 1..context.observed : \A v \in significance[d][n] :
            told(v.id, v.version)
    BY <1>2 DEF Promises
<1>5. Reached(c)' = reach
    BY DEF Reached, Pages
<1>6. clients'[c].after <= clients'[c].upper
    BY <1>3 DEF Pages
<1>7. ContextHolds(c)'
    <2>1. \A id, version : told(id, version) => Paged(c, id, version)'
        BY <1>1, <1>5 DEF Paged, Given, ItemsOf, Pages
    <2>. QED
        BY <1>1, <1>3, <1>4, <1>5, <1>6
        DEF ContextHolds, Paged, Given, ItemsOf, Pages
<1>8. ReplicaOfItems(c)'
    BY PageIsOfItems
<1>9. ASSUME clients'[c].phase = "watching"
      PROVE  Watches(c)'
    <2>1. reach = context.upper
        BY <1>9 DEF Pages
    <2>2. \A id, version : told(id, version) =>
             \E v \in clients'[c].replica : v.id = id /\ v.version >= version
        BY <2>1
    <2>. HIDE DEF told
    <2>3. \A n \in 1..context.snapshot :
             feed'[n].kind # "SUMMARY_UPDATED" /\ feed'[n].dialogue = d
             => \E v \in clients'[c].replica :
                   v.id = feed'[n].id /\ v.version >= feed'[n].version
        BY <1>1, <1>4, <2>2
    <2>4. /\ clients'[c].position = context.snapshot
          /\ clients'[c].dialogue = d
          /\ clients'[c].rows = {} /\ clients'[c].buffer = {}
          /\ context.snapshot <= Len(feed')
        BY <1>1, <1>3 DEF Pages
    <2>. QED
        BY <2>3, <2>4 DEF Watches, Given
<1>. QED
    BY <1>7, <1>8, <1>9 DEF ClientHolds, Pages

LEMMA ListHistoryStep ==
    ASSUME HistoryInv, ClientsTyped, NEW c \in Clients, ClientHolds(c),
           NEW d \in Dialogues, ListHistory(c, d)
    PROVE  ClientsTyped' /\ ClientHolds(c)'
<1>. DEFINE me      == clients[c]
            context == PageContext(c, d)
            rest    == RestOf(d, me.after, context.upper)
            page    == PageOf(rest)
            reach   == IF page = rest THEN context.upper
                       ELSE me.after + Cardinality(page)
            phase   == IF page = rest THEN "watching" ELSE "paging"
            after   == IF page = rest THEN 0 ELSE me.after + Cardinality(page)
            replica == me.replica \cup {VersionOf(i) : i \in page}
            next    == [me EXCEPT !.phase = phase, !.dialogue = d,
                          !.upper = context.upper,
                          !.snapshot = context.snapshot,
                          !.observed = context.observed, !.after = after,
                          !.position = context.snapshot, !.replica = replica]
<1>1. me \in Client /\ me.after \in Nat
    BY DEF ClientsTyped, Client
<1>2. /\ clients' = [clients EXCEPT ![c] = next]
      /\ dialogues[d].kind # "none" /\ UNCHANGED history
      /\ me.phase = "idle" \/ (me.phase = "paging" /\ me.dialogue = d)
    BY DEF ListHistory, RestOf, PageOf
<1>3. me = Idle \/ (me.phase = "paging" /\ me.dialogue = d)
    BY <1>2 DEF ClientHolds
<1>4. Promises(c, d, context)
    BY <1>3, FirstPage, NextPage
<1>5. /\ context.upper \in Nat /\ context.snapshot \in Nat
      /\ context.observed \in Nat /\ me.after <= context.upper
      /\ context.upper <= dialogues[d].itemSequence
    BY <1>4 DEF Promises
<1>. HIDE DEF context
<1>6. /\ reach \in Nat /\ me.after <= reach /\ reach <= context.upper
      /\ page = {i \in ItemsOf(d) : /\ i.sequence > me.after
                                    /\ i.sequence <= reach}
    BY <1>1, <1>5, PageIs
<1>7. /\ phase \in {"paging", "watching"}
      /\ phase = "paging" => after = reach
      /\ phase = "watching" => after = 0 /\ reach = context.upper
      /\ after \in Nat
    BY <1>6
<1>8. \A i \in page : VersionOf(i) \in Version
    BY <1>6 DEF ItemsOf, VersionOf, Version, HistoryInv, HistoryTyped,
                TablesTyped, Item
<1>9. /\ me.rows = {} /\ me.buffer = {} /\ ~me.gap
    BY <1>3 DEF ClientHolds, Idle
<1>. HIDE DEF rest, page, reach, phase, after
<1>10. replica \in SUBSET Version
    BY <1>1, <1>8 DEF Client
<1>11. /\ next.phase = phase /\ next.dialogue = d /\ next.upper = context.upper
       /\ next.snapshot = context.snapshot /\ next.observed = context.observed
       /\ next.after = after /\ next.position = context.snapshot
       /\ next.replica = replica /\ next.rows = {} /\ next.buffer = {}
       /\ ~next.gap
    BY <1>1, <1>9 DEF Client
<1>12. next \in Client
    <2>. HIDE DEF replica
    <2>. QED
        BY <1>1, <1>5, <1>7, <1>10 DEF Client
<1>. HIDE DEF next
<1>13. clients'[c] = next /\ ClientsTyped'
    BY <1>2, <1>12 DEF ClientsTyped
<1>14. Pages(c, d, context, reach, page)
    BY <1>7, <1>11, <1>13 DEF Pages
<1>15. ReplicaOfItems(c)
    BY DEF ClientHolds
<1>16. clients[c].after <= reach
    BY <1>6
<1>17. page = {i \in ItemsOf(d) : /\ i.sequence > clients[c].after
                                  /\ i.sequence <= reach}
    BY <1>6
<1>18. clients[c] = Idle \/ (clients[c].phase = "paging"
                             /\ clients[c].dialogue = d)
    BY <1>3
<1>. HIDE DEF me, replica
<1>. QED
    BY <1>2, <1>4, <1>6, <1>13, <1>14, <1>15, <1>16, <1>17, <1>18, PageStep

-----------------------------------------------------------------------------
(* A client reads the feed.                                                *)

LEMMA RowsAreAhead ==
    ASSUME HistoryInv, NEW c \in Clients
    PROVE  /\ IsFiniteSet(Ahead(c))
           /\ \A n \in Ahead(c) : n \in 1..Len(feed) /\ n \in Nat
                /\ n > clients[c].position
                /\ feed[n].dialogue = clients[c].dialogue /\ feed[n] \in Change
<1>1. feed \in Seq(Change) /\ Len(feed) \in Nat
    BY DEF HistoryInv, HistoryTyped
<1>2. \A n \in 1..Len(feed) : feed[n] \in Change
    BY <1>1, ElementOfSeq
<1>3. IsFiniteSet(1..Len(feed))
    BY <1>1, FS_Interval
<1>4. Ahead(c) \in SUBSET (1..Len(feed))
    BY DEF Ahead
<1>5. IsFiniteSet(Ahead(c))
    BY <1>3, <1>4, FS_Subset
<1>. QED
    BY <1>1, <1>2, <1>5 DEF Ahead

\* The rows are the first ones, so none before them is left out.
LEMMA RowsAreFirst ==
    ASSUME HistoryInv, NEW c \in Clients
    PROVE  \A n \in Rows(c) : /\ n \in Ahead(c)
                              /\ \A m \in Ahead(c) : m < n => m \in Rows(c)
<1>1. \A n \in Rows(c) : n \in Ahead(c)
    BY DEF Rows
<1>2. ASSUME NEW n \in Rows(c), NEW m \in Ahead(c), m < n
      PROVE  m \in Rows(c)
    <2>. DEFINE upTo(k) == {o \in Ahead(c) : o <= k}
    <2>1. upTo(n) \in SUBSET Ahead(c) /\ IsFiniteSet(Ahead(c))
        BY RowsAreAhead
    <2>2. IsFiniteSet(upTo(n))
        BY <2>1, FS_Subset
    <2>3. m \in Nat /\ n \in Nat /\ \A o \in Ahead(c) : o \in Nat
        BY <1>1, RowsAreAhead
    <2>4. upTo(m) \in SUBSET upTo(n)
        <3>1. \A o \in Ahead(c) : o <= m => o <= n
            BY <1>2, <2>3
        <3>. QED
            BY <3>1
    <2>. HIDE DEF upTo
    <2>5. IsFiniteSet(upTo(m)) /\ Cardinality(upTo(m)) <= Cardinality(upTo(n))
        BY <2>2, <2>4, FS_Subset
    <2>6. Cardinality(upTo(m)) \in Nat /\ Cardinality(upTo(n)) \in Nat
        BY <2>2, <2>5, FS_CardinalityType
    <2>7. Cardinality(upTo(n)) <= BatchSize
        BY DEF Rows, upTo
    <2>8. Cardinality(upTo(m)) <= BatchSize
        BY <2>5, <2>6, <2>7, SizesAssumption
    <2>. QED
        BY <2>8 DEF Rows, upTo
<1>. QED
    BY <1>1, <1>2

\* A client that watches goes on: what it has is not lost, the pages are past.
GoesOn(c) ==
    /\ clients[c].phase = "watching" /\ clients'[c].phase = "watching"
    /\ clients'[c].dialogue = clients[c].dialogue
    /\ clients'[c].upper = clients[c].upper
    /\ clients'[c].snapshot = clients[c].snapshot
    /\ clients'[c].observed = clients[c].observed
    /\ clients'[c].after = clients[c].after
    /\ \A v \in clients[c].replica : \E w \in clients'[c].replica :
          w.id = v.id /\ w.version >= v.version

LEMMA GivenStays ==
    ASSUME ClientsTyped, ClientsTyped', NEW c \in Clients, GoesOn(c),
           NEW id, NEW version \in Nat, Given(c, id, version)
    PROVE  Given(c, id, version)'
<1>1. PICK v \in clients[c].replica : v.id = id /\ v.version >= version
    BY DEF Given
<1>2. PICK w \in clients'[c].replica : w.id = v.id /\ w.version >= v.version
    BY DEF GoesOn
<1>3. v.version \in Nat /\ w.version \in Nat
    BY DEF ClientsTyped, Client, Version
<1>. QED
    BY <1>1, <1>2, <1>3 DEF Given

LEMMA ContextGoesOn ==
    ASSUME HistoryInv, ClientsTyped, ClientsTyped', NEW c \in Clients,
           GoesOn(c), UNCHANGED history, ClientHolds(c)
    PROVE  ContextHolds(c)'
<1>. DEFINE me == clients[c]
            d  == me.dialogue
            given(id, version) == \E v \in clients'[c].replica :
                                     v.id = id /\ v.version >= version
            paged(id, version) ==
                \E i \in ItemsOf(d) :
                   /\ i.id = id /\ i.version >= version
                   /\ i.sequence <= me.upper
                   /\ i.sequence <= me.upper => given(id, version)
<1>1. /\ dialogues' = dialogues /\ items' = items /\ feed' = feed
      /\ significance' = significance
    BY DEF history
<1>2. d \in Dialogues /\ ContextHolds(c)
    BY DEF ClientHolds, GoesOn
<1>3. ASSUME NEW id, NEW version \in Nat, Paged(c, id, version)
      PROVE  paged(id, version)
    <2>1. PICK i \in ItemsOf(d) :
             /\ i.id = id /\ i.version >= version
             /\ i.sequence <= me.upper
             /\ i.sequence <= me.upper => Given(c, id, version)
        BY <1>3 DEF Paged, Reached, GoesOn
    <2>2. Given(c, id, version)'
        BY <2>1, GivenStays
    <2>. QED
        BY <2>1, <2>2 DEF Given
<1>4. \A n \in 1..me.snapshot :
         feed[n].kind # "SUMMARY_UPDATED" /\ feed[n].dialogue = d
         => paged(feed[n].id, feed[n].version)
    <2>. SUFFICES ASSUME NEW n \in 1..me.snapshot,
                         feed[n].kind # "SUMMARY_UPDATED",
                         feed[n].dialogue = d
                  PROVE  paged(feed[n].id, feed[n].version)
        OBVIOUS
    <2>1. Paged(c, feed[n].id, feed[n].version)
        BY <1>2 DEF ContextHolds
    <2>2. feed \in Seq(Change) /\ n \in 1..Len(feed)
        BY <1>2 DEF ContextHolds, HistoryInv, HistoryTyped, ClientsTyped, Client
    <2>3. feed[n] \in Change
        BY <2>2, ElementOfSeq
    <2>4. feed[n].version \in Nat
        BY <2>3 DEF Change
    <2>. QED
        BY <1>3, <2>1, <2>4
<1>5. \A i \in ItemsOf(d) : i.historical => paged(i.id, i.version)
    <2>. TAKE i \in ItemsOf(d)
    <2>1. i.version \in Nat
        BY DEF ItemsOf, HistoryInv, HistoryTyped, TablesTyped, Item
    <2>. QED
        BY <1>2, <1>3, <2>1 DEF ContextHolds
<1>6. \A n \in 1..me.observed : \A v \in significance[d][n] :
         paged(v.id, v.version)
    <2>. SUFFICES ASSUME NEW n \in 1..me.observed, NEW v \in significance[d][n]
                  PROVE  paged(v.id, v.version)
        OBVIOUS
    <2>1. Paged(c, v.id, v.version)
        BY <1>2 DEF ContextHolds
    <2>2. /\ significance[d] \in Seq(SUBSET Version)
          /\ n \in 1..Len(significance[d])
        BY <1>2 DEF ContextHolds, HistoryInv, HistoryTyped, ClientsTyped, Client
    <2>3. significance[d][n] \in SUBSET Version
        BY <2>2, ElementOfSeq
    <2>4. v.version \in Nat
        BY <2>3 DEF Version
    <2>. QED
        BY <1>3, <2>1, <2>4
<1>7. /\ clients'[c].phase = "watching" /\ clients'[c].dialogue = d
      /\ clients'[c].upper = me.upper /\ clients'[c].snapshot = me.snapshot
      /\ clients'[c].observed = me.observed /\ clients'[c].after = me.after
    BY DEF GoesOn
<1>8. Reached(c)' = me.upper
    BY <1>7 DEF Reached
<1>9. \A id, version : paged(id, version) => Paged(c, id, version)'
    BY <1>1, <1>7, <1>8 DEF Paged, Given, ItemsOf
<1>10. /\ dialogues'[d].kind # "none"
       /\ me.upper <= dialogues'[d].itemSequence /\ me.snapshot <= Len(feed')
       /\ me.observed <= Len(significance'[d]) /\ me.after <= me.upper
    BY <1>1, <1>2 DEF ContextHolds
<1>. QED
    BY <1>1, <1>4, <1>5, <1>6, <1>7, <1>8, <1>10
    DEF ContextHolds, Paged, Given, ItemsOf

\* What it reads of the feed does not matter to what it has.
LEMMA ReadingKeeps ==
    ASSUME HistoryInv, ClientsTyped, ClientsTyped', NEW c \in Clients,
           GoesOn(c), UNCHANGED history, ClientHolds(c),
           clients'[c].replica = clients[c].replica,
           clients'[c].gap = clients[c].gap, Watches(c)'
    PROVE  ClientHolds(c)'
<1>1. ContextHolds(c)'
    BY ContextGoesOn
<1>2. items' = items
    BY DEF history
<1>3. ReplicaOfItems(c)'
    BY <1>2 DEF ReplicaOfItems, ItemsOf, ClientHolds, GoesOn
<1>4. clients[c].dialogue \in Dialogues /\ ~clients[c].gap
    BY DEF ClientHolds, GoesOn
<1>. QED
    BY <1>1, <1>3, <1>4 DEF ClientHolds, GoesOn

LEMMA FetchRowsStep ==
    ASSUME HistoryInv, ClientsTyped, NEW c \in Clients, ClientHolds(c),
           FetchRows(c)
    PROVE  ClientsTyped' /\ ClientHolds(c)'
<1>. DEFINE me == clients[c]
            next == [me EXCEPT !.rows = Rows(c)]
<1>1. me \in Client
    BY DEF ClientsTyped
<1>2. /\ me.phase = "watching" /\ me.buffer = {} /\ UNCHANGED history
      /\ clients' = [clients EXCEPT ![c] = next]
    BY DEF FetchRows
<1>3. Rows(c) \in SUBSET Nat
    BY RowsAreFirst, RowsAreAhead
<1>4. next \in Client
    BY <1>1, <1>3 DEF Client
<1>5. /\ next.phase = me.phase /\ next.dialogue = me.dialogue
      /\ next.upper = me.upper /\ next.snapshot = me.snapshot
      /\ next.observed = me.observed /\ next.after = me.after
      /\ next.position = me.position /\ next.replica = me.replica
      /\ next.rows = Rows(c) /\ next.buffer = me.buffer /\ next.gap = me.gap
    BY <1>1 DEF Client
<1>. HIDE DEF next
<1>6. clients'[c] = next /\ ClientsTyped'
    BY <1>1, <1>2, <1>4 DEF ClientsTyped
<1>7. \A v \in me.replica : v.version >= v.version
    BY <1>1 DEF Client, Version
<1>8. GoesOn(c)
    BY <1>2, <1>5, <1>6, <1>7 DEF GoesOn
<1>9. Watches(c) /\ feed' = feed /\ items' = items
    BY <1>2 DEF ClientHolds, history
<1>10. Ahead(c)' = Ahead(c)
    BY <1>5, <1>6, <1>9 DEF Ahead
<1>11. \A n \in Rows(c) : /\ n \in Ahead(c)
                          /\ \A m \in Ahead(c) : m < n => m \in Rows(c)
    BY RowsAreFirst
<1>12. /\ clients'[c].dialogue = me.dialogue /\ clients'[c].buffer = {}
       /\ clients'[c].position = me.position
       /\ clients'[c].replica = me.replica /\ clients'[c].rows = Rows(c)
       /\ clients'[c].gap = me.gap
    BY <1>2, <1>5, <1>6
<1>13. Watches(c)'
    BY <1>9, <1>10, <1>11, <1>12 DEF Watches, Given, ItemsOf
<1>. QED
    BY <1>2, <1>6, <1>8, <1>12, <1>13, ReadingKeeps

\* The item that an upsert names is there, and in no older version.
LEMMA LoadedItem ==
    ASSUME HistoryInv, NEW c \in Clients, NEW n \in Ahead(c)
    PROVE  /\ LoadedVersion(c, n) \in Nat
           /\ feed[n].kind = "HISTORY_ITEM_UPSERTED" =>
                 /\ LoadedVersion(c, n) >= feed[n].version
                 /\ \E i \in ItemsOf(clients[c].dialogue) :
                       /\ i.id = feed[n].id
                       /\ i.version >= LoadedVersion(c, n)
<1>1. CASE feed[n].kind # "HISTORY_ITEM_UPSERTED"
    BY <1>1 DEF LoadedVersion
<1>2. CASE feed[n].kind = "HISTORY_ITEM_UPSERTED"
    <2>1. n \in 1..Len(feed) /\ feed[n].dialogue = clients[c].dialogue
        BY RowsAreAhead
    <2>2. PICK i \in items : /\ i.dialogue = feed[n].dialogue
                             /\ i.id = feed[n].id
                             /\ i.version >= feed[n].version
        BY <1>2, <2>1 DEF HistoryInv, FeedInv
    <2>3. i \in Found(clients[c].dialogue, feed[n].id)
        BY <2>1, <2>2 DEF Found, ItemsOf
    <2>4. \A j \in Found(clients[c].dialogue, feed[n].id) : j = i
        BY <2>1, <2>2
        DEF Found, ItemsOf, HistoryInv, TableInv, Numbered
    <2>5. LoadedVersion(c, n) = i.version
        BY <1>2, <2>3, <2>4 DEF LoadedVersion
    <2>6. i.version \in Nat
        BY DEF HistoryInv, HistoryTyped, TablesTyped, Item
    <2>. QED
        BY <2>1, <2>2, <2>5, <2>6 DEF ItemsOf
<1>. QED
    BY <1>1, <1>2

LEMMA LoadItemsStep ==
    ASSUME HistoryInv, ClientsTyped, NEW c \in Clients, ClientHolds(c),
           LoadItems(c)
    PROVE  ClientsTyped' /\ ClientHolds(c)'
<1>. DEFINE me == clients[c]
            loaded == {[row |-> n, version |-> LoadedVersion(c, n)] :
                          n \in me.rows}
            next == [me EXCEPT !.rows = {}, !.buffer = loaded]
<1>1. me \in Client
    BY DEF ClientsTyped
<1>2. /\ me.rows # {} /\ UNCHANGED history
      /\ clients' = [clients EXCEPT ![c] = next]
    BY DEF LoadItems
<1>3. me.phase = "watching"
    <2>1. me.phase \in {"idle", "paging", "watching"}
        BY <1>1 DEF Client
    <2>. QED
        BY <1>2, <2>1 DEF ClientHolds, Idle
<1>4. Watches(c)
    BY <1>3 DEF ClientHolds
<1>5. \A n \in me.rows : n \in Ahead(c) /\ n \in Nat
    BY <1>4, RowsAreAhead DEF Watches
<1>6. loaded \in SUBSET [row : Nat, version : Nat]
    BY <1>5, LoadedItem
<1>7. \A b \in loaded : b.row \in me.rows /\ b.version = LoadedVersion(c, b.row)
    OBVIOUS
<1>8. \A n \in me.rows : \E b \in loaded : b.row = n
    <2>. TAKE n \in me.rows
    <2>1. [row |-> n, version |-> LoadedVersion(c, n)] \in loaded
        OBVIOUS
    <2>. QED
        BY <2>1
<1>9. \A b, o \in loaded : b.row = o.row => b = o
    OBVIOUS
<1>. HIDE DEF loaded
<1>10. next \in Client
    BY <1>1, <1>6 DEF Client
<1>11. /\ next.phase = me.phase /\ next.dialogue = me.dialogue
       /\ next.upper = me.upper /\ next.snapshot = me.snapshot
       /\ next.observed = me.observed /\ next.after = me.after
       /\ next.position = me.position /\ next.replica = me.replica
       /\ next.rows = {} /\ next.buffer = loaded /\ next.gap = me.gap
    BY <1>1 DEF Client
<1>. HIDE DEF next
<1>12. clients'[c] = next /\ ClientsTyped'
    BY <1>1, <1>2, <1>10 DEF ClientsTyped
<1>13. \A v \in me.replica : v.version >= v.version
    BY <1>1 DEF Client, Version
<1>14. GoesOn(c)
    BY <1>3, <1>11, <1>12, <1>13 DEF GoesOn
<1>15. feed' = feed /\ items' = items
    BY <1>2 DEF history
<1>16. Ahead(c)' = Ahead(c)
    BY <1>11, <1>12, <1>15 DEF Ahead
<1>17. /\ clients'[c].dialogue = me.dialogue /\ clients'[c].buffer = loaded
       /\ clients'[c].position = me.position
       /\ clients'[c].replica = me.replica /\ clients'[c].rows = {}
       /\ clients'[c].gap = me.gap
    BY <1>11, <1>12
<1>18. \A b \in loaded :
          /\ b.row \in Ahead(c)
          /\ feed[b.row].kind = "HISTORY_ITEM_UPSERTED" =>
                /\ b.version >= feed[b.row].version
                /\ \E i \in ItemsOf(me.dialogue) :
                      i.id = feed[b.row].id /\ i.version >= b.version
          /\ \A m \in Ahead(c) : m < b.row => \E o \in loaded : o.row = m
    <2>. SUFFICES ASSUME NEW b \in loaded
                  PROVE  /\ b.row \in Ahead(c)
                         /\ feed[b.row].kind = "HISTORY_ITEM_UPSERTED" =>
                               /\ b.version >= feed[b.row].version
                               /\ \E i \in ItemsOf(me.dialogue) :
                                     /\ i.id = feed[b.row].id
                                     /\ i.version >= b.version
                         /\ \A m \in Ahead(c) :
                               m < b.row => \E o \in loaded : o.row = m
        OBVIOUS
    <2>1. b.row \in me.rows /\ b.version = LoadedVersion(c, b.row)
        BY <1>7
    <2>2. b.row \in Ahead(c)
        BY <1>5, <2>1
    <2>3. \A m \in Ahead(c) : m < b.row => m \in me.rows
        BY <1>4, <2>1 DEF Watches
    <2>. QED
        BY <1>8, <2>1, <2>2, <2>3, LoadedItem
<1>19. Watches(c)'
    BY <1>4, <1>9, <1>15, <1>16, <1>17, <1>18 DEF Watches, Given, ItemsOf
<1>. QED
    BY <1>2, <1>12, <1>14, <1>17, <1>19, ReadingKeeps

LEMMA ReconnectStep ==
    ASSUME HistoryInv, ClientsTyped, NEW c \in Clients, ClientHolds(c),
           Reconnect(c)
    PROVE  ClientsTyped' /\ ClientHolds(c)'
<1>. DEFINE me == clients[c]
            next == [me EXCEPT !.rows = {}, !.buffer = {}]
<1>1. me \in Client
    BY DEF ClientsTyped
<1>2. /\ me.rows # {} \/ me.buffer # {}
      /\ UNCHANGED history
      /\ clients' = [clients EXCEPT ![c] = next]
    BY DEF Reconnect
<1>3. me.phase = "watching"
    <2>1. me.phase \in {"idle", "paging", "watching"}
        BY <1>1 DEF Client
    <2>. QED
        BY <1>2, <2>1 DEF ClientHolds, Idle
<1>4. Watches(c)
    BY <1>3 DEF ClientHolds
<1>5. next \in Client
    BY <1>1 DEF Client
<1>6. /\ next.phase = me.phase /\ next.dialogue = me.dialogue
      /\ next.upper = me.upper /\ next.snapshot = me.snapshot
      /\ next.observed = me.observed /\ next.after = me.after
      /\ next.position = me.position /\ next.replica = me.replica
      /\ next.rows = {} /\ next.buffer = {} /\ next.gap = me.gap
    BY <1>1 DEF Client
<1>. HIDE DEF next
<1>7. clients'[c] = next /\ ClientsTyped'
    BY <1>1, <1>2, <1>5 DEF ClientsTyped
<1>8. \A v \in me.replica : v.version >= v.version
    BY <1>1 DEF Client, Version
<1>9. GoesOn(c)
    BY <1>3, <1>6, <1>7, <1>8 DEF GoesOn
<1>10. feed' = feed
    BY <1>2 DEF history
<1>11. /\ clients'[c].dialogue = me.dialogue /\ clients'[c].buffer = {}
       /\ clients'[c].position = me.position
       /\ clients'[c].replica = me.replica /\ clients'[c].rows = {}
       /\ clients'[c].gap = me.gap
    BY <1>6, <1>7
<1>12. Watches(c)'
    BY <1>4, <1>10, <1>11 DEF Watches, Given
<1>. QED
    BY <1>2, <1>7, <1>9, <1>11, <1>12, ReadingKeeps

\* The version a change brings.
Brings(change, version) ==
    IF change.kind = "HISTORY_ITEM_UPSERTED" THEN version ELSE change.version

\* Applying a change loses nothing, and only its item gets its version.
LEMMA AppliedIs ==
    ASSUME NEW c, clients[c].replica \in SUBSET Version,
           \A v, w \in clients[c].replica : v.id = w.id => v = w,
           NEW change, NEW version,
           change.kind # "SUMMARY_UPDATED" =>
              change.id \in Id /\ Brings(change, version) \in Nat
    PROVE  /\ Applied(c, change, version) \in SUBSET Version
           /\ \A v, w \in Applied(c, change, version) : v.id = w.id => v = w
           /\ \A v \in clients[c].replica :
                 \E w \in Applied(c, change, version) :
                    w.id = v.id /\ w.version >= v.version
           /\ change.kind # "SUMMARY_UPDATED" =>
                 \E w \in Applied(c, change, version) :
                    w.id = change.id /\ w.version >= Brings(change, version)
           /\ \A w \in Applied(c, change, version) :
                 \/ w \in clients[c].replica
                 \/ /\ change.kind # "SUMMARY_UPDATED" /\ w.id = change.id
                    /\ w.version = Brings(change, version)
<1>. DEFINE replica == clients[c].replica
            known   == Known(c, change.id)
            new     == Brings(change, version)
            entry   == [id |-> change.id, version |-> new]
<1>1. \A v \in replica : v.version \in Nat /\ v.version >= v.version
    BY DEF Version
<1>2. \A v : v \in known <=> v \in replica /\ v.id = change.id
    BY DEF Known
<1>3. CASE \/ change.kind = "SUMMARY_UPDATED"
           \/ \E v \in known : v.version >= new
    <2>1. Applied(c, change, version) = replica
        BY <1>3 DEF Applied, Brings
    <2>. QED
        BY <1>1, <1>2, <1>3, <2>1
<1>4. CASE /\ change.kind # "SUMMARY_UPDATED"
           /\ \A v \in known : ~(v.version >= new)
    <2>1. Applied(c, change, version) = (replica \ known) \cup {entry}
        BY <1>4 DEF Applied, Brings
    <2>2. new \in Nat /\ entry \in Version
        BY <1>4 DEF Version
    <2>3. entry.id = change.id /\ entry.version = new /\ new >= new
        BY <2>2
    <2>. HIDE DEF known, new, entry
    <2>4. ASSUME NEW v \in replica
          PROVE  \E w \in (replica \ known) \cup {entry} :
                    w.id = v.id /\ w.version >= v.version
        <3>1. CASE v \in known
            <4>1. ~(v.version >= new) /\ v.id = change.id
                BY <1>2, <1>4, <3>1
            <4>. QED
                BY <1>1, <2>2, <2>3, <4>1
        <3>2. CASE v \notin known
            BY <1>1, <3>2
        <3>. QED
            BY <3>1, <3>2
    <2>5. \A v, w \in (replica \ known) \cup {entry} : v.id = w.id => v = w
        BY <1>2, <2>3
    <2>6. (replica \ known) \cup {entry} \in SUBSET Version
        BY <2>2
    <2>. QED
        BY <1>4, <2>1, <2>3, <2>4, <2>5, <2>6 DEF new
<1>. QED
    BY <1>3, <1>4

\* What a change tells of an item the client is going to see.
LEMMA ChangeAhead ==
    ASSUME HistoryInv, NEW c \in Clients, Watches(c), NEW b \in clients[c].buffer,
           clients[c] \in Client, feed[b.row].kind # "SUMMARY_UPDATED"
    PROVE  /\ feed[b.row].id \in Id
           /\ Brings(feed[b.row], b.version) \in Nat
           /\ Brings(feed[b.row], b.version) >= feed[b.row].version
           /\ \E i \in ItemsOf(clients[c].dialogue) :
                 /\ i.id = feed[b.row].id
                 /\ i.version >= Brings(feed[b.row], b.version)
<1>1. b.row \in Ahead(c) /\ b.version \in Nat
    BY DEF Watches, Client
<1>2. /\ b.row \in 1..Len(feed) /\ feed[b.row] \in Change
      /\ feed[b.row].dialogue = clients[c].dialogue
    BY <1>1, RowsAreAhead
<1>3. feed[b.row].version \in Nat
    BY <1>2 DEF Change
<1>4. PICK i \in items : /\ i.dialogue = feed[b.row].dialogue
                         /\ i.id = feed[b.row].id
                         /\ i.version >= feed[b.row].version
    BY <1>2 DEF HistoryInv, FeedInv
<1>5. feed[b.row].id \in Id
    BY <1>4 DEF HistoryInv, HistoryTyped, TablesTyped, Item
<1>6. CASE feed[b.row].kind = "HISTORY_ITEM_UPSERTED"
    <2>1. /\ b.version >= feed[b.row].version
          /\ \E j \in ItemsOf(clients[c].dialogue) :
                j.id = feed[b.row].id /\ j.version >= b.version
        BY <1>6 DEF Watches
    <2>. QED
        BY <1>1, <1>5, <1>6, <2>1 DEF Brings
<1>7. CASE feed[b.row].kind # "HISTORY_ITEM_UPSERTED"
    BY <1>2, <1>3, <1>4, <1>5, <1>7 DEF Brings, ItemsOf
<1>. QED
    BY <1>6, <1>7

LEMMA DeliverStep ==
    ASSUME HistoryInv, ClientsTyped, NEW c \in Clients, ClientHolds(c),
           Deliver(c)
    PROVE  ClientsTyped' /\ ClientHolds(c)'
<1>. DEFINE me == clients[c]
            d  == me.dialogue
<1>1. PICK first \in me.buffer :
         /\ \A other \in me.buffer : first.row <= other.row
         /\ clients' = [clients EXCEPT ![c] = [me EXCEPT
               !.position = first.row, !.buffer = @ \ {first},
               !.replica = Applied(c, feed[first.row], first.version),
               !.gap = me.gap \/ LeavesGap(c, feed[first.row])]]
         /\ UNCHANGED history
    BY DEF Deliver
<1>2. me \in Client
    BY DEF ClientsTyped
<1>3. me.phase = "watching"
    <2>1. me.phase \in {"idle", "paging", "watching"}
        BY <1>2 DEF Client
    <2>. QED
        BY <2>1 DEF ClientHolds, Idle
<1>4. Watches(c) /\ ReplicaOfItems(c) /\ ~me.gap
    BY <1>3 DEF ClientHolds
<1>5. \A b \in me.buffer : b.row \in Nat /\ b.version \in Nat /\ b.row \in Ahead(c)
    BY <1>2, <1>4 DEF Client, Watches
<1>6. /\ \A n \in Ahead(c) : n \in 1..Len(feed) /\ n \in Nat
            /\ n > me.position /\ feed[n].dialogue = d /\ feed[n] \in Change
      /\ Len(feed) \in Nat /\ me.position \in Nat
    BY <1>2, RowsAreAhead DEF Client, HistoryInv, HistoryTyped
<1>. DEFINE change == feed[first.row]
            new == Brings(change, first.version)
            replica == Applied(c, change, first.version)
            gap == me.gap \/ LeavesGap(c, change)
            next == [me EXCEPT !.position = first.row,
                       !.buffer = @ \ {first}, !.replica = replica, !.gap = gap]
<1>7. change.kind # "SUMMARY_UPDATED" =>
         /\ change.id \in Id /\ new \in Nat /\ new >= change.version
         /\ \E i \in ItemsOf(d) : i.id = change.id /\ i.version >= new
    BY <1>2, <1>4, ChangeAhead
<1>8. /\ me.replica \in SUBSET Version
      /\ \A v, w \in me.replica : v.id = w.id => v = w
    BY <1>2, <1>4 DEF Client, ReplicaOfItems
<1>9. /\ replica \in SUBSET Version
      /\ \A v, w \in replica : v.id = w.id => v = w
      /\ \A v \in me.replica : \E w \in replica :
            w.id = v.id /\ w.version >= v.version
      /\ change.kind # "SUMMARY_UPDATED" =>
            \E w \in replica : w.id = change.id /\ w.version >= new
      /\ \A w \in replica :
            \/ w \in me.replica
            \/ /\ change.kind # "SUMMARY_UPDATED" /\ w.id = change.id
               /\ w.version = new
    BY <1>7, <1>8, AppliedIs
<1>10. \A n \in 1..first.row : n <= me.position \/ n = first.row
                              \/ feed[n].dialogue # d
    <2>. SUFFICES ASSUME NEW n \in 1..first.row, ~(n <= me.position),
                         n # first.row, feed[n].dialogue = d
                  PROVE  FALSE
        OBVIOUS
    <2>1. n \in Ahead(c) /\ n < first.row
        BY <1>5, <1>6 DEF Ahead
    <2>2. PICK o \in me.buffer : o.row = n
        BY <1>4, <2>1 DEF Watches
    <2>. QED
        BY <1>1, <1>5, <2>1, <2>2
<1>11. ~LeavesGap(c, change)
    <2>. SUFFICES ASSUME change.kind = "HISTORY_TEXT_APPENDED"
                  PROVE  ~LeavesGap(c, change)
        BY DEF LeavesGap
    <2>1. first.row \in 1..Len(feed) /\ change \in Change
        BY <1>5, <1>6
    <2>2. change.version \in Nat
        BY <2>1 DEF Change
    <2>3. \A v \in Known(c, change.id) : v.version \in Nat
        BY <1>8 DEF Known, Version
    <2>4. CASE change.version = 1
        BY <2>2, <2>3, <2>4 DEF LeavesGap
    <2>5. CASE change.version # 1
        <3>1. PICK m \in 1..first.row - 1 :
                 /\ Tells(m, change.dialogue, change.id)
                 /\ feed[m].version = change.version - 1
            BY <2>1, <2>5 DEF HistoryInv, FeedInv
        <3>2. /\ feed[m].kind # "SUMMARY_UPDATED" /\ feed[m].dialogue = d
              /\ feed[m].id = change.id
            BY <1>5, <1>6, <3>1 DEF Tells
        <3>3. m \in 1..me.position
            BY <1>5, <1>6, <1>10, <3>1, <3>2
        <3>4. Given(c, feed[m].id, feed[m].version)
            BY <1>4, <3>2, <3>3 DEF Watches
        <3>5. PICK v \in me.replica :
                 v.id = change.id /\ v.version >= change.version - 1
            BY <3>1, <3>2, <3>4 DEF Given
        <3>6. \A w \in Known(c, change.id) : w = v
            BY <1>8, <3>5 DEF Known
        <3>7. v \in Known(c, change.id)
            BY <3>5 DEF Known
        <3>. QED
            BY <2>2, <2>3, <3>5, <3>6, <3>7 DEF LeavesGap
    <2>. QED
        BY <2>4, <2>5
<1>. HIDE DEF replica, gap
<1>12. gap = FALSE
    BY <1>4, <1>11 DEF gap
<1>13. next \in Client
    <2>1. me.buffer \ {first} \in SUBSET [row : Nat, version : Nat]
        BY <1>2 DEF Client
    <2>. QED
        BY <1>2, <1>5, <1>9, <1>12, <2>1 DEF Client
<1>14. /\ next.phase = me.phase /\ next.dialogue = d /\ next.upper = me.upper
       /\ next.snapshot = me.snapshot /\ next.observed = me.observed
       /\ next.after = me.after /\ next.position = first.row
       /\ next.replica = replica /\ next.rows = me.rows
       /\ next.buffer = me.buffer \ {first} /\ next.gap = FALSE
    BY <1>2, <1>12 DEF Client
<1>15. clients' = [clients EXCEPT ![c] = next]
    BY <1>1 DEF replica, gap
<1>. HIDE DEF next
<1>16. clients'[c] = next /\ ClientsTyped'
    BY <1>2, <1>13, <1>15 DEF ClientsTyped
<1>17. GoesOn(c)
    BY <1>3, <1>9, <1>14, <1>16 DEF GoesOn
<1>18. ContextHolds(c)'
    BY <1>1, <1>16, <1>17, ContextGoesOn
<1>19. feed' = feed /\ items' = items
    BY <1>1 DEF history
<1>20. ReplicaOfItems(c)'
    <2>1. ASSUME NEW w \in replica
          PROVE  \E i \in ItemsOf(d) : i.id = w.id /\ i.version >= w.version
        BY <1>4, <1>7, <1>9 DEF ReplicaOfItems
    <2>2. /\ clients'[c].replica = replica /\ clients'[c].dialogue = d
          /\ clients'[c].phase = "watching"
        BY <1>3, <1>14, <1>16
    <2>. QED
        BY <1>9, <1>19, <2>1, <2>2 DEF ReplicaOfItems, ItemsOf
<1>21. Watches(c)'
    <2>1. /\ clients'[c].replica = replica /\ clients'[c].dialogue = d
          /\ clients'[c].position = first.row /\ clients'[c].rows = me.rows
          /\ clients'[c].buffer = me.buffer \ {first}
        BY <1>14, <1>16
    <2>2. me.rows = {}
        BY <1>4 DEF Watches
    <2>3. ASSUME NEW n \in 1..first.row, feed[n].kind # "SUMMARY_UPDATED",
                 feed[n].dialogue = d
          PROVE  \E v \in replica :
                    v.id = feed[n].id /\ v.version >= feed[n].version
        <3>1. CASE n <= me.position
            <4>1. Given(c, feed[n].id, feed[n].version)
                BY <1>4, <1>6, <2>3, <3>1 DEF Watches
            <4>2. n \in 1..Len(feed)
                BY <1>5, <1>6
            <4>3. feed[n] \in Change
                BY <4>2, ElementOfSeq DEF HistoryInv, HistoryTyped
            <4>4. feed[n].version \in Nat
                BY <4>3 DEF Change
            <4>5. Given(c, feed[n].id, feed[n].version)'
                BY <1>16, <1>17, <1>19, <4>1, <4>4, GivenStays
            <4>. QED
                BY <1>19, <2>1, <4>5 DEF Given
        <3>2. CASE n = first.row
            <4>1. change \in Change /\ change.version \in Nat
                BY <1>5, <1>6 DEF Change
            <4>2. PICK w \in replica : w.id = change.id /\ w.version >= new
                BY <1>9, <2>3, <3>2
            <4>3. w.version \in Nat
                BY <1>9 DEF Version
            <4>4. new \in Nat /\ new >= change.version
                BY <1>7, <2>3, <3>2
            <4>. HIDE DEF new
            <4>5. w.version >= change.version
                BY <4>1, <4>2, <4>3, <4>4
            <4>. QED
                BY <3>2, <4>2, <4>5
        <3>. QED
            BY <1>10, <2>3, <3>1, <3>2
    <2>4. first.row <= Len(feed)
        BY <1>5, <1>6
    <2>5. \A n : n \in Ahead(c)' <=> n \in Ahead(c) /\ n > first.row
        <3>1. \A n : n \in Ahead(c)' <=> /\ n \in 1..Len(feed) /\ n > first.row
                                         /\ feed[n].dialogue = d
            BY <1>19, <2>1 DEF Ahead
        <3>2. first.row > me.position /\ first.row \in Nat
            BY <1>5, <1>6
        <3>. QED
            BY <1>6, <3>1, <3>2 DEF Ahead
    <2>6. ASSUME NEW b \in me.buffer \ {first}
          PROVE  /\ b.row \in Ahead(c)'
                 /\ feed[b.row].kind = "HISTORY_ITEM_UPSERTED" =>
                       /\ b.version >= feed[b.row].version
                       /\ \E i \in ItemsOf(d) :
                             i.id = feed[b.row].id /\ i.version >= b.version
                 /\ \A m \in Ahead(c)' : m < b.row =>
                       \E o \in me.buffer \ {first} : o.row = m
        <3>1. b.row # first.row
            BY <1>4 DEF Watches
        <3>2. b.row \in Ahead(c)'
            BY <1>1, <1>5, <2>5, <3>1
        <3>3. ASSUME NEW m \in Ahead(c)', m < b.row
              PROVE  \E o \in me.buffer \ {first} : o.row = m
            <4>1. m \in Ahead(c) /\ m > first.row
                BY <2>5
            <4>2. PICK o \in me.buffer : o.row = m
                BY <1>4, <3>3, <4>1 DEF Watches
            <4>3. o # first
                BY <1>5, <4>1, <4>2
            <4>. QED
                BY <4>2, <4>3
        <3>. QED
            BY <1>4, <3>2, <3>3 DEF Watches
    <2>7. \A b, o \in me.buffer \ {first} : b.row = o.row => b = o
        BY <1>4 DEF Watches
    <2>8. \A b \in me.buffer \ {first} : b.row \in Ahead(c)'
        BY <2>6
    <2>. QED
        BY <1>19, <2>1, <2>2, <2>3, <2>4, <2>6, <2>7
        DEF Watches, Given, ItemsOf
<1>22. d \in Dialogues /\ clients'[c].dialogue = d
       /\ clients'[c].phase = "watching" /\ ~clients'[c].gap
    BY <1>3, <1>14, <1>16 DEF ClientHolds
<1>. QED
    BY <1>16, <1>18, <1>20, <1>21, <1>22 DEF ClientHolds

-----------------------------------------------------------------------------
(* The invariant and what follows from it.                                 *)

Inv == HistoryInv /\ ClientsTyped /\ ClientInv

LEMMA InitHolds ==
    ASSUME Init
    PROVE  Inv
<1>. USE DEF Init
<1>1. HistoryTyped
    <2>1. NoRow \in DialogueRow
        BY DEF NoRow, DialogueRow
    <2>2. [dialogue |-> NoDialogue, status |-> "none", end |-> 0] \in TurnRow
        BY DEF TurnRow
    <2>3. TablesTyped
        BY <2>1, <2>2 DEF TablesTyped
    <2>4. feed \in Seq(Change)
        OBVIOUS
    <2>5. significance \in [Dialogues -> Seq(SUBSET Version)]
        OBVIOUS
    <2>. QED
        BY <2>3, <2>4, <2>5 DEF HistoryTyped
<1>2. RowsAgree
    <2>1. \A d \in Dialogues : dialogues[d] = NoRow /\ dialogues[d].turn = NoTurn
        BY DEF NoRow
    <2>2. \A t \in Turns : turns[t].status = "none"
        OBVIOUS
    <2>. QED
        BY <2>1, <2>2 DEF RowsAgree, Settled
<1>3. Numbered
    BY DEF Numbered, NoRow
<1>4. Named /\ ResultsEnd /\ OpenWork
    BY DEF Named, ResultsEnd, OpenWork, Settled
<1>5. FeedInv /\ SignificanceInv
    <2>1. Len(feed) = 0 /\ \A d \in Dialogues : Len(significance[d]) = 0
        OBVIOUS
    <2>2. 1..0 = {}
        OBVIOUS
    <2>. QED
        BY <2>1, <2>2 DEF FeedInv, SignificanceInv
<1>6. HistoryInv
    BY <1>1, <1>2, <1>3, <1>4, <1>5 DEF HistoryInv, TableInv
<1>7. ClientsTyped
    <2>1. Idle \in Client
        BY DEF Idle, Client
    <2>. QED
        BY <2>1 DEF ClientsTyped
<1>8. ASSUME NEW c \in Clients
      PROVE  ClientHolds(c)
    <2>1. clients[c] = Idle
        OBVIOUS
    <2>2. /\ clients[c].phase = "idle" /\ clients[c].replica = {}
          /\ ~clients[c].gap
        BY <2>1 DEF Idle
    <2>. QED
        BY <2>1, <2>2 DEF ClientHolds, ReplicaOfItems
<1>. QED
    BY <1>6, <1>7, <1>8 DEF Inv, ClientInv

LEMMA ReadStep ==
    ASSUME HistoryInv, ClientsTyped, NEW c \in Clients, ClientHolds(c),
           Read(c), ~MarkRead(c)
    PROVE  /\ ClientsTyped' /\ ClientHolds(c)' /\ UNCHANGED history
           /\ \A o \in Clients \ {c} : clients'[o] = clients[o]
<1>1. ASSUME NEW d \in Dialogues, ListHistory(c, d)
      PROVE  ClientsTyped' /\ ClientHolds(c)'
    BY <1>1, ListHistoryStep
<1>2. ClientsTyped' /\ ClientHolds(c)'
    BY <1>1, FetchRowsStep, LoadItemsStep, DeliverStep, ReconnectStep DEF Read
<1>3. UNCHANGED history /\ \A o \in Clients \ {c} : clients'[o] = clients[o]
    BY DEF Read, ListHistory, FetchRows, LoadItems, Deliver, Reconnect,
           ClientsTyped
<1>. QED
    BY <1>2, <1>3

LEMMA StepHolds ==
    ASSUME Inv, [Next]_vars
    PROVE  Inv'
<1>. USE DEF Inv
<1>1. HistoryStep
    BY NextStep
<1>2. CASE clients' = clients
    <2>1. ClientsTyped'
        BY <1>2 DEF ClientsTyped
    <2>2. \A c \in Clients : ClientHolds(c)'
        BY <1>1, <1>2, ClientStays DEF ClientInv
    <2>. QED
        BY <1>1, <2>1, <2>2 DEF HistoryStep, ClientInv
<1>3. ASSUME NEW d \in Dialogues, Command(d) \/ SessionEvent(d) \/ Ending(d)
      PROVE  clients' = clients
    BY <1>3, CommandStep, SessionEventStep, EndingStep
<1>4. ASSUME NEW c \in Clients, MarkRead(c)
      PROVE  clients' = clients
    BY <1>4 DEF MarkRead
<1>5. ASSUME NEW c \in Clients, Read(c), ~MarkRead(c)
      PROVE  Inv'
    <2>1. /\ ClientsTyped' /\ ClientHolds(c)'
          /\ \A o \in Clients \ {c} : clients'[o] = clients[o]
        BY <1>5, ReadStep DEF ClientInv
    <2>2. \A o \in Clients \ {c} : ClientHolds(o)'
        BY <1>1, <2>1, ClientStays DEF ClientInv
    <2>3. ClientInv'
        BY <2>1, <2>2 DEF ClientInv
    <2>. QED
        BY <1>1, <2>1, <2>3 DEF HistoryStep
<1>6. CASE UNCHANGED vars
    BY <1>2, <1>6 DEF vars
<1>. QED
    BY <1>2, <1>3, <1>4, <1>5, <1>6 DEF Next

\* The invariant holds in every reachable state.
THEOREM HistoryInvariant == Spec => []Inv
<1>1. Init => Inv
    BY InitHolds
<1>2. Inv /\ [Next]_vars => Inv'
    BY StepHolds
<1>. QED
    BY <1>1, <1>2, PTL DEF Spec

\* Rows, items, changes and clients have the shapes the source gives them.
THEOREM TypesHold == Spec => []TypeOK
<1>1. Inv => TypeOK
    BY DEF Inv, HistoryInv, HistoryTyped, TablesTyped, ClientsTyped, TypeOK
<1>. QED
    BY <1>1, HistoryInvariant, PTL

\* No client is given text that does not go on the text it has, whatever
\* connections break between a read of the feed and its delivery.
THEOREM TextContinues == Spec => []TextGoesOn
<1>1. Inv => TextGoesOn
    BY DEF Inv, ClientInv, ClientHolds, TextGoesOn
<1>. QED
    BY <1>1, HistoryInvariant, PTL

-----------------------------------------------------------------------------
(* What follows from the invariant.                                        *)

LEMMA ItemsAreNumbered ==
    ASSUME HistoryInv, NEW d \in Dialogues
    PROVE  /\ {i.sequence : i \in ItemsOf(d)} = 1..dialogues[d].itemSequence
           /\ Cardinality(ItemsOf(d)) = dialogues[d].itemSequence
           /\ Cardinality({i.id : i \in ItemsOf(d)}) = dialogues[d].itemSequence
<1>. DEFINE own  == ItemsOf(d)
            last == dialogues[d].itemSequence
            ids  == {i.id : i \in own}
            f    == [i \in own |-> i.id]
<1>. USE DEF HistoryInv, HistoryTyped, TablesTyped, TableInv
<1>1. last \in Nat
    BY DEF DialogueRow
<1>2. own \in SUBSET Item /\ Distinct(own)
    BY DEF ItemsOf, Distinct, Numbered
<1>3. \A i \in own : i.sequence \in 1..last
    <2>. TAKE i \in own
    <2>1. i \in items /\ i.dialogue = d
        BY DEF ItemsOf
    <2>2. i.sequence <= last /\ i.sequence \in Nat \ {0}
        BY <2>1 DEF Numbered, Item
    <2>. QED
        BY <1>1, <2>2
<1>4. \A n \in 1..last : \E i \in own : i.sequence = n
    BY DEF ItemsOf, Numbered
<1>5. {i.sequence : i \in own} = 1..last
    BY <1>3, <1>4
<1>6. \A i, j \in own : i.id = j.id => i = j
    BY DEF ItemsOf, Numbered
<1>. HIDE DEF own, last, HistoryInv, HistoryTyped, TablesTyped, TableInv
<1>7. IsFiniteSet(own) /\ Cardinality(own) = last
    <2>1. \A i \in own : i.sequence \in 0 + 1..0 + last
        BY <1>1, <1>3
    <2>2. 1 \in Nat /\ 1 <= last + 1 /\ last - 1 + 1 = last
        BY <1>1
    <2>3. IsFiniteSet(own) /\ Cardinality(own) = last - 1 + 1
        BY <1>1, <1>2, <1>3, <1>4, <2>2, CountOfNumbered
    <2>. QED
        BY <2>2, <2>3
<1>8. f \in [own -> ids] /\ \A id \in ids : \E i \in own : f[i] = id
    OBVIOUS
<1>9. f \in Surjection(own, ids)
    BY <1>8, Fun_IsSurj
<1>10. f \in Injection(own, ids)
    <2>1. \A i, j \in own : f[i] = f[j] => i = j
        BY <1>6
    <2>. QED
        BY <1>8, <2>1, Fun_IsInj
<1>. HIDE DEF f, ids
<1>11. Cardinality(ids) = Cardinality(own)
    BY <1>7, <1>9, <1>10, FS_Surjection
<1>. QED
    BY <1>5, <1>7, <1>11 DEF own, last, ids

LEMMA ResultsAreEnds ==
    ASSUME HistoryInv, NEW t \in Turns
    PROVE  {i.sequence : i \in {j \in items : j.turn = t
                                  /\ j.id.of \in {"result", "closed"}}}
              = IF turns[t].status \in {"none", "OPEN"} THEN {}
                ELSE {turns[t].end}
<1>. DEFINE results == {j \in items : j.turn = t
                                  /\ j.id.of \in {"result", "closed"}}
<1>1. \A i \in results : turns[t].status \in Settled /\ i.sequence = turns[t].end
    BY DEF HistoryInv, TableInv, ResultsEnd, EndsItsTurn, Results
<1>2. turns[t].status \in Settled => \E i \in results : TRUE
    BY DEF HistoryInv, TableInv, ResultsEnd, Results
<1>3. turns[t].status \in {"none", "OPEN"} <=> turns[t].status \notin Settled
    BY DEF HistoryInv, HistoryTyped, TablesTyped, TurnRow, Settled
<1>. HIDE DEF results
<1>4. CASE turns[t].status \in {"none", "OPEN"}
    <2>1. results = {}
        BY <1>1, <1>3, <1>4
    <2>. QED
        BY <1>4, <2>1 DEF results
<1>5. CASE turns[t].status \notin {"none", "OPEN"}
    <2>1. {i.sequence : i \in results} = {turns[t].end}
        BY <1>1, <1>2, <1>3, <1>5
    <2>. QED
        BY <1>5, <2>1 DEF results
<1>. QED
    BY <1>4, <1>5

\* An item that is unfinished keeps its dialogue from being READY.
LEMMA UnfinishedIsBusy ==
    ASSUME HistoryInv, NEW i \in items, ~i.historical, i.status \in Unfinished
    PROVE  dialogues[i.dialogue].status # "READY"
<1>1. i \in Item /\ NamedWell(i) /\ Works(i)
    BY DEF HistoryInv, HistoryTyped, TablesTyped, TableInv, Named, OpenWork
<1>2. CASE i.status \in {"PENDING", "RESPONDING"}
    BY <1>1, <1>2 DEF Works
<1>3. CASE i.status \in {"STREAMING", "IN_PROGRESS"}
    <2>1. i.id.of \in {"assistant", "activity"}
        BY <1>1, <1>3 DEF Works
    <2>2. i.turn = i.id.key /\ i.id \in Id
        BY <1>1, <2>1 DEF NamedWell, Item
    <2>3. i.turn \in Turns
        BY <2>1, <2>2 DEF Id
    <2>4. i.turn # NoTurn
        BY <2>3, NullsAssumption
    <2>5. turns[i.turn].status # "none" /\ turns[i.turn].dialogue = i.dialogue
        BY <1>1, <2>4 DEF NamedWell
    <2>6. turns[i.turn].status \notin Settled
        BY <1>1, <2>4 DEF Works
    <2>7. turns[i.turn].status = "OPEN"
        BY <2>3, <2>5, <2>6
        DEF HistoryInv, HistoryTyped, TablesTyped, TurnRow, Settled
    <2>8. dialogues[i.dialogue].turn = i.turn
        BY <2>3, <2>5, <2>7 DEF HistoryInv, TableInv, RowsAgree
    <2>9. i.dialogue \in Dialogues
        BY <1>1 DEF Item
    <2>10. dialogues[i.dialogue].status = "BUSY"
        BY <2>4, <2>8, <2>9 DEF HistoryInv, TableInv, RowsAgree
    <2>. QED
        BY <2>10
<1>. QED
    BY <1>2, <1>3 DEF Unfinished

\* A client with nothing to read has each item in the version it has.
LEMMA AllIsGiven ==
    ASSUME HistoryInv, ClientsTyped, NEW c \in Clients, ClientHolds(c),
           clients[c].phase = "watching", Ahead(c) = {},
           NEW i \in ItemsOf(clients[c].dialogue)
    PROVE  VersionOf(i) \in clients[c].replica
<1>. DEFINE d == clients[c].dialogue
<1>1. ContextHolds(c) /\ ReplicaOfItems(c) /\ Watches(c)
    BY DEF ClientHolds
<1>2. i \in items /\ i.dialogue = d /\ i.version \in Nat
    BY DEF ItemsOf, HistoryInv, HistoryTyped, TablesTyped, Item
<1>3. \A j \in ItemsOf(d) : j.id = i.id => j = i
    BY <1>2 DEF ItemsOf, HistoryInv, TableInv, Numbered
<1>4. Given(c, i.id, i.version)
    <2>1. CASE i.historical
        <3>1. Paged(c, i.id, i.version)
            BY <1>1, <2>1 DEF ContextHolds
        <3>2. Reached(c) = clients[c].upper
            BY DEF Reached
        <3>. QED
            BY <3>1, <3>2 DEF Paged
    <2>2. CASE ~i.historical
        <3>1. PICK n \in 1..Len(feed) : /\ Tells(n, i.dialogue, i.id)
                                        /\ feed[n].version = i.version
            BY <1>2, <2>2 DEF HistoryInv, FeedInv
        <3>2. feed[n].kind # "SUMMARY_UPDATED" /\ feed[n].dialogue = d
              /\ feed[n].id = i.id
            BY <1>2, <3>1 DEF Tells
        <3>3. clients[c].position \in Nat /\ Len(feed) \in Nat
            BY DEF ClientsTyped, Client, HistoryInv, HistoryTyped
        <3>4. n \in 1..clients[c].position
            BY <3>2, <3>3 DEF Ahead
        <3>5. Given(c, feed[n].id, feed[n].version)
            BY <1>1, <3>2, <3>4 DEF Watches
        <3>. QED
            BY <3>1, <3>2, <3>5
    <2>. QED
        BY <2>1, <2>2
<1>5. PICK v \in clients[c].replica : v.id = i.id /\ v.version >= i.version
    BY <1>4 DEF Given
<1>6. PICK j \in ItemsOf(d) : j.id = v.id /\ j.version >= v.version
    BY <1>1 DEF ReplicaOfItems
<1>7. v \in Version /\ v.version \in Nat
    BY DEF ClientsTyped, Client, Version
<1>8. v.version = i.version
    BY <1>2, <1>3, <1>5, <1>6, <1>7
<1>9. v = VersionOf(i)
    BY <1>5, <1>7, <1>8 DEF Version, VersionOf
<1>. QED
    BY <1>9

LEMMA ReplicaIsAll ==
    ASSUME HistoryInv, ClientsTyped, NEW c \in Clients, ClientHolds(c),
           clients[c].phase = "watching", Ahead(c) = {}
    PROVE  clients[c].replica = {VersionOf(i) : i \in ItemsOf(clients[c].dialogue)}
<1>1. ASSUME NEW v \in clients[c].replica
      PROVE  \E i \in ItemsOf(clients[c].dialogue) : v = VersionOf(i)
    <2>1. PICK i \in ItemsOf(clients[c].dialogue) : i.id = v.id
        BY DEF ClientHolds, ReplicaOfItems
    <2>2. VersionOf(i) \in clients[c].replica /\ VersionOf(i).id = i.id
        BY AllIsGiven DEF VersionOf
    <2>3. v = VersionOf(i)
        BY <2>1, <2>2 DEF ClientHolds, ReplicaOfItems
    <2>. QED
        BY <2>3
<1>. QED
    BY <1>1, AllIsGiven

\* Handlers, results of both names and forks number the items of a dialogue 1,
\* 2, ..., itemSequence; none is named twice, and a turn has one result.
THEOREM NumbersAgree == Spec => []OneSequencePerDialogue
<1>1. Inv => OneSequencePerDialogue
    <2>. SUFFICES ASSUME Inv
                  PROVE  OneSequencePerDialogue
        OBVIOUS
    <2>1. HistoryInv
        BY DEF Inv
    <2>. QED
        BY <2>1, ItemsAreNumbered, ResultsAreEnds DEF OneSequencePerDialogue
<1>. QED
    BY <1>1, HistoryInvariant, PTL

\* A settled turn leaves nothing unfinished and nothing behind its result, and
\* a READY dialogue shows nothing unfinished.
THEOREM NothingStaysOpen == Spec => []NothingLeftOpen
<1>1. Inv => NothingLeftOpen
    <2>. SUFFICES ASSUME Inv, NEW i \in items, ~i.historical
                  PROVE  /\ i.status \in Unfinished =>
                               dialogues[i.dialogue].status # "READY"
                         /\ i.turn # NoTurn
                            /\ turns[i.turn].status \in {"COMPLETED", "ENDED"}
                            => /\ i.status \notin Unfinished
                               /\ i.sequence <= turns[i.turn].end
        BY DEF NothingLeftOpen
    <2>1. HistoryInv /\ Works(i)
        BY DEF Inv, HistoryInv, TableInv, OpenWork
    <2>. QED
        BY <2>1, UnfinishedIsBusy DEF Works, Settled
<1>. QED
    BY <1>1, HistoryInvariant, PTL

\* A client that has read the pages and all the changes behind them has what
\* the dialogue has.
THEOREM ReplicaComplete == Spec => []ReplicaMatches
<1>1. Inv => ReplicaMatches
    <2>. SUFFICES ASSUME Inv, NEW c \in Clients, clients[c].phase = "watching",
                         Ahead(c) = {}
                  PROVE  clients[c].replica =
                            {VersionOf(i) : i \in ItemsOf(clients[c].dialogue)}
        BY DEF ReplicaMatches
    <2>1. HistoryInv /\ ClientsTyped /\ ClientHolds(c)
        BY DEF Inv, ClientInv
    <2>. QED
        BY <2>1, ReplicaIsAll
<1>. QED
    BY <1>1, HistoryInvariant, PTL

-----------------------------------------------------------------------------
(* What a step never does.                                                 *)

\* The read mark and the kind of a dialogue stay.
KeepsRow(d) ==
    dialogues'[d].read = dialogues[d].read /\ dialogues'[d].kind = dialogues[d].kind

LEMMA EndTurnKeeps ==
    ASSUME HistoryTyped, NEW d \in Dialogues, NEW t, NEW id, NEW status, NEW row,
           row \in DialogueRow, row.read = dialogues[d].read,
           row.kind = dialogues[d].kind, NEW interactions, NEW activities,
           NEW resultFirst,
           EndTurn(d, t, id, status, row, interactions, activities, resultFirst),
           NEW o \in Dialogues
    PROVE  KeepsRow(o)
<1>1. dialogues' = [dialogues EXCEPT ![d] =
              [row EXCEPT !.turn = NoTurn, !.itemSequence = @ + 1]]
    BY DEF EndTurn
<1>. DEFINE next == [row EXCEPT !.turn = NoTurn, !.itemSequence = @ + 1]
<1>2. next.read = row.read /\ next.kind = row.kind
    BY DEF DialogueRow
<1>. HIDE DEF next
<1>3. dialogues' = [dialogues EXCEPT ![d] = next]
    BY <1>1 DEF next
<1>. QED
    BY <1>2, <1>3 DEF KeepsRow, HistoryTyped, TablesTyped

LEMMA EndingKeeps ==
    ASSUME HistoryTyped, NEW d \in Dialogues, Ending(d), NEW o \in Dialogues
    PROVE  KeepsRow(o)
<1>1. dialogues[d] \in DialogueRow
    BY DEF HistoryTyped, TablesTyped
<1>2. ASSUME NEW t \in Turns, NEW status, CompleteTurn(d, t, status)
      PROVE  KeepsRow(o)
    <2>. DEFINE then == IF Pending(d) = Of(Pending(d), t) THEN "READY" ELSE "BUSY"
                row  == [dialogues[d] EXCEPT !.status = then]
    <2>1. EndTurn(d, t, IdOf("result", t), status, row, Of(Pending(d), t),
                  Of(Running(d), t), FALSE)
        BY <1>2 DEF CompleteTurn
    <2>2. then \in {"READY", "BUSY"}
        OBVIOUS
    <2>. HIDE DEF then
    <2>3. /\ row \in DialogueRow /\ row.read = dialogues[d].read
          /\ row.kind = dialogues[d].kind
        BY <1>1, <2>2 DEF DialogueRow
    <2>. HIDE DEF row
    <2>. QED
        BY <2>1, <2>3, EndTurnKeeps
<1>3. ASSUME NEW t \in Turns, NEW status \in {"READY", "UNCERTAIN"},
             InterruptTurn(d, t, status)
      PROVE  KeepsRow(o)
    <2>. DEFINE row == [dialogues[d] EXCEPT !.status = status, !.session = FALSE]
    <2>1. EndTurn(d, t, IdOf("result", t), "ENDED", row, Pending(d),
                  Of(Running(d), t), FALSE)
        BY <1>3 DEF InterruptTurn
    <2>2. /\ row \in DialogueRow /\ row.read = dialogues[d].read
          /\ row.kind = dialogues[d].kind
        BY <1>1 DEF DialogueRow
    <2>. HIDE DEF row
    <2>. QED
        BY <2>1, <2>2, EndTurnKeeps
<1>4. ASSUME NEW t \in Turns, CloseActive(d, t)
      PROVE  KeepsRow(o)
    <2>. DEFINE row == [dialogues[d] EXCEPT !.status = "READY", !.session = FALSE]
    <2>1. EndTurn(d, t, IdOf("closed", t), "ENDED", row, Pending(d), Running(d),
                  TRUE)
        BY <1>4 DEF CloseActive
    <2>2. /\ row \in DialogueRow /\ row.read = dialogues[d].read
          /\ row.kind = dialogues[d].kind
        BY <1>1 DEF DialogueRow
    <2>. HIDE DEF row
    <2>. QED
        BY <2>1, <2>2, EndTurnKeeps
<1>5. ASSUME NEW restarted \in BOOLEAN, CloseIdle(d, restarted)
      PROVE  KeepsRow(o)
    <2>. DEFINE then == IF ~restarted THEN "READY"
                        ELSE IF Becomes(Pending(d), "ABANDONED") # {}
                             THEN "UNCERTAIN" ELSE dialogues[d].status
    <2>1. dialogues' = [dialogues EXCEPT ![d].session = FALSE, ![d].status = then]
        BY <1>5 DEF CloseIdle, HistoryTyped, TablesTyped
    <2>. HIDE DEF then
    <2>. QED
        BY <1>1, <2>1 DEF KeepsRow, HistoryTyped, TablesTyped, DialogueRow
<1>. QED
    BY <1>2, <1>3, <1>4, <1>5 DEF Ending

LEMMA SessionEventKeeps ==
    ASSUME HistoryTyped, NEW d \in Dialogues, SessionEvent(d), NEW o \in Dialogues
    PROVE  KeepsRow(o)
<1>. USE DEF HistoryTyped, TablesTyped, DialogueRow
<1>1. CASE dialogues' = dialogues
    BY <1>1 DEF KeepsRow
<1>2. CASE dialogues' = [dialogues EXCEPT ![d].itemSequence = @ + 1]
    BY <1>2 DEF KeepsRow
<1>3. ASSUME NEW i \in Interactions, NEW turn, Request(d, i, turn)
      PROVE  KeepsRow(o)
    BY <1>3 DEF Request, KeepsRow
<1>4. ASSUME NEW i \in Interactions, Resolve(d, i)
      PROVE  KeepsRow(o)
    <2>1. PICK old : dialogues' = [dialogues EXCEPT ![d].status =
                        IF Pending(d) \ {old} = {} /\ dialogues[d].turn = NoTurn
                        THEN "READY" ELSE "BUSY"]
        BY <1>4 DEF Resolve
    <2>. DEFINE then == IF Pending(d) \ {old} = {} /\ dialogues[d].turn = NoTurn
                        THEN "READY" ELSE "BUSY"
    <2>2. dialogues' = [dialogues EXCEPT ![d].status = then]
        BY <2>1
    <2>. HIDE DEF then
    <2>. QED
        BY <2>2 DEF KeepsRow
<1>5. ASSUME NEW t \in Turns, AppendText(d, t) \/ CompleteMessage(d, t)
      PROVE  KeepsRow(o)
    BY <1>1, <1>2, <1>5 DEF AppendText, CompleteMessage
<1>6. ASSUME NEW t \in Turns, NEW status, RecordActivity(d, t, status)
      PROVE  KeepsRow(o)
    BY <1>1, <1>2, <1>6 DEF RecordActivity
<1>7. CASE Progress(d)
    BY <1>1, <1>7 DEF Progress
<1>. QED
    BY <1>3, <1>4, <1>5, <1>6, <1>7 DEF SessionEvent

LEMMA CommandKeeps ==
    ASSUME HistoryTyped, NEW d \in Dialogues, Command(d), NEW o \in Dialogues
    PROVE  KeepsRow(o) \/ (o = d /\ (Create(d) \/ \E t \in Turns : Fork(d, t)))
<1>. USE DEF HistoryTyped, TablesTyped, DialogueRow, KeepsRow
<1>1. CASE BindSession(d) \/ Reopen(d)
    BY <1>1 DEF BindSession, Reopen
<1>2. ASSUME NEW t \in Turns, Send(d, t)
      PROVE  KeepsRow(o)
    BY <1>2 DEF Send
<1>3. ASSUME NEW i \in Interactions, Respond(d, i) \/ FailResponse(d, i)
      PROVE  KeepsRow(o)
    <2>1. CASE Respond(d, i)
        BY <2>1 DEF Respond
    <2>2. CASE FailResponse(d, i)
        <3>1. dialogues' = [dialogues EXCEPT ![d].session = FALSE,
                                             ![d].status = "UNCERTAIN"]
            BY <2>2 DEF FailResponse
        <3>. QED
            BY <3>1
    <2>. QED
        BY <1>3, <2>1, <2>2
<1>4. CASE Create(d)
    BY <1>4 DEF Create
<1>5. ASSUME NEW t \in Turns, Fork(d, t), o # d
      PROVE  KeepsRow(o)
    BY <1>5 DEF Fork
<1>. QED
    BY <1>1, <1>2, <1>3, <1>4, <1>5 DEF Command

\* The copies are what there was up to the end of the turn.
LEMMA ForkCopies ==
    ASSUME HistoryInv, NEW f \in Dialogues, NEW t \in Turns, Fork(f, t)
    PROVE  {[i EXCEPT !.id = NoId, !.turn = NoTurn, !.historical = TRUE,
                      !.dialogue = f] :
               i \in {j \in ItemsOf(dialogues'[f].origin) :
                         j.sequence <= dialogues'[f].originEnd}}
           = {[i EXCEPT !.id = NoId] : i \in {j \in items' : j.dialogue = f}}
<1>. DEFINE d      == turns[t].dialogue
            end    == turns[t].end
            prefix == Prefix(d, end)
            plain(i) == [i EXCEPT !.id = NoId, !.turn = NoTurn,
                                  !.historical = TRUE, !.dialogue = f]
<1>1. /\ dialogues[f].kind = "none" /\ turns[t].status = "COMPLETED"
      /\ dialogues' = [dialogues EXCEPT ![f] = [NoRow EXCEPT
            !.kind = "fork", !.itemSequence = Cardinality(prefix),
            !.origin = d, !.originEnd = end]]
      /\ items' = (items \ {}) \cup Copies(prefix, f)
    BY DEF Fork, Write
<1>2. d \in Dialogues /\ end \in 1..dialogues[d].itemSequence
    BY <1>1 DEF HistoryInv, TableInv, RowsAgree, Settled
<1>3. TablesTyped /\ Numbered /\ RowsAgree
    BY DEF HistoryInv, HistoryTyped, TableInv
<1>4. Copies(prefix, f) = Copied(prefix, f)
    BY <1>2, <1>3, CopiesKeepSequence
<1>5. dialogues'[f].origin = d /\ dialogues'[f].originEnd = end
    BY <1>1, <1>3 DEF TablesTyped, NoRow
<1>6. \A i \in items : i.dialogue # f
    BY <1>1, <1>3, ItemsAreThere
<1>7. \A i \in prefix : i \in Item
    BY <1>3 DEF Prefix, ItemsOf, TablesTyped
<1>8. ASSUME NEW i \in Item
      PROVE  [CopyOf(i, f) EXCEPT !.id = NoId] = plain(i)
             /\ CopyOf(i, f).dialogue = f
    <2>. DEFINE id == IdOf("copy", i.sequence)
                copy == CopyOf(i, f)
    <2>1. copy = [i EXCEPT !.dialogue = f, !.turn = NoTurn,
                     !.historical = TRUE, !.sequence = i.sequence, !.id = id]
        BY DEF CopyOf
    <2>. HIDE DEF id, copy
    <2>2. [copy EXCEPT !.id = NoId] = plain(i)
        BY <2>1 DEF Item
    <2>. QED
        BY <2>2, CopyIs DEF copy
<1>9. {j \in items' : j.dialogue = f} = Copied(prefix, f)
    BY <1>1, <1>4, <1>6, <1>7, <1>8 DEF Copied
<1>10. {j \in ItemsOf(dialogues'[f].origin) :
            j.sequence <= dialogues'[f].originEnd} = prefix
    BY <1>5 DEF Prefix
<1>. HIDE DEF prefix
<1>11. {[j EXCEPT !.id = NoId] : j \in Copied(prefix, f)}
        = {plain(i) : i \in prefix}
    <2>1. {[j EXCEPT !.id = NoId] : j \in Copied(prefix, f)}
            = {[CopyOf(i, f) EXCEPT !.id = NoId] : i \in prefix}
        BY DEF Copied
    <2>2. \A i \in prefix : [CopyOf(i, f) EXCEPT !.id = NoId] = plain(i)
        BY <1>7, <1>8
    <2>. HIDE DEF plain
    <2>3. {[CopyOf(i, f) EXCEPT !.id = NoId] : i \in prefix}
            = {plain(i) : i \in prefix}
        BY <2>2
    <2>. QED
        BY <2>1, <2>3
<1>. QED
    BY <1>9, <1>10, <1>11

\* A dialogue becomes a fork by forkDialogue alone.
LEMMA OnlyForks ==
    ASSUME Inv, [Next]_vars, NEW f \in Dialogues, dialogues[f].kind = "none",
           dialogues'[f].kind = "fork"
    PROVE  \E t \in Turns : Fork(f, t)
<1>. USE DEF Inv
<1>1. HistoryTyped /\ ~KeepsRow(f)
    BY DEF HistoryInv, KeepsRow
<1>2. ~Create(f)
    BY <1>1 DEF Create, HistoryTyped, TablesTyped, DialogueRow
<1>3. ASSUME NEW d \in Dialogues, Command(d) \/ SessionEvent(d) \/ Ending(d)
      PROVE  \E t \in Turns : Fork(f, t)
    BY <1>1, <1>2, <1>3, CommandKeeps, SessionEventKeeps, EndingKeeps
<1>4. ASSUME NEW c \in Clients, Read(c), ~MarkRead(c)
      PROVE  FALSE
    BY <1>1, <1>4 DEF KeepsRow, Read, ListHistory, FetchRows, LoadItems, Deliver,
                      Reconnect, history
<1>5. ASSUME NEW c \in Clients, MarkRead(c)
      PROVE  FALSE
    <2>1. dialogues' = [dialogues EXCEPT ![clients[c].dialogue].read =
                                            clients[c].observed]
        BY <1>5 DEF MarkRead
    <2>2. dialogues'[f].kind = dialogues[f].kind
        BY <1>1, <2>1 DEF HistoryTyped, TablesTyped, DialogueRow
    <2>. QED
        BY <2>2
<1>6. CASE UNCHANGED vars
    BY <1>6 DEF vars, history
<1>. QED
    BY <1>3, <1>4, <1>5, <1>6 DEF Next

\* The read mark is moved by markRead alone.
LEMMA OnlyMarks ==
    ASSUME Inv, [Next]_vars, NEW d \in Dialogues,
           dialogues'[d].read # dialogues[d].read
    PROVE  \E c \in Clients : MarkRead(c) /\ clients[c].dialogue = d
<1>. USE DEF Inv
<1>1. HistoryTyped /\ RowsAgree /\ ~KeepsRow(d)
    BY DEF HistoryInv, TableInv, KeepsRow
<1>2. ~Create(d)
    BY <1>1 DEF Create, HistoryTyped, TablesTyped, DialogueRow
<1>3. ASSUME NEW t \in Turns, Fork(d, t)
      PROVE  FALSE
    <2>1. dialogues[d].read = 0
        BY <1>1, <1>3 DEF Fork, RowsAgree, NoRow
    <2>2. dialogues'[d].read = 0
        BY <1>1, <1>3 DEF Fork, NoRow, HistoryTyped, TablesTyped
    <2>. QED
        BY <2>1, <2>2
<1>4. ASSUME NEW e \in Dialogues, Command(e) \/ SessionEvent(e) \/ Ending(e)
      PROVE  FALSE
    BY <1>1, <1>2, <1>3, <1>4, CommandKeeps, SessionEventKeeps, EndingKeeps
<1>5. ASSUME NEW c \in Clients, Read(c), ~MarkRead(c)
      PROVE  FALSE
    BY <1>5 DEF Read, ListHistory, FetchRows, LoadItems, Deliver, Reconnect,
                history
<1>6. ASSUME NEW c \in Clients, MarkRead(c)
      PROVE  clients[c].dialogue = d
    <2>1. dialogues' = [dialogues EXCEPT ![clients[c].dialogue].read =
                                            clients[c].observed]
        BY <1>6 DEF MarkRead
    <2>. QED
        BY <1>1, <2>1 DEF HistoryTyped, TablesTyped
<1>7. CASE UNCHANGED vars
    BY <1>7 DEF vars, history
<1>. QED
    BY <1>4, <1>5, <1>6, <1>7 DEF Next

\* What is significant up to the mark is in the pages the client has read.
LEMMA MarkedIsGiven ==
    ASSUME Inv, NEW c \in Clients, MarkRead(c)
    PROVE  LET d == clients[c].dialogue
           IN  /\ dialogues'[d].read = clients[c].observed
               /\ dialogues'[d].read > dialogues[d].read
               /\ \A n \in 1..clients[c].observed : \A v \in significance[d][n] :
                     Given(c, v.id, v.version)
<1>. DEFINE d == clients[c].dialogue
<1>1. /\ clients[c].phase = "watching"
      /\ clients[c].observed > dialogues[d].read
      /\ dialogues' = [dialogues EXCEPT ![d].read = clients[c].observed]
    BY DEF MarkRead
<1>2. ContextHolds(c) /\ d \in Dialogues
    BY <1>1 DEF Inv, ClientInv, ClientHolds
<1>3. dialogues'[d].read = clients[c].observed
    BY <1>1, <1>2 DEF Inv, HistoryInv, HistoryTyped, TablesTyped, DialogueRow
<1>4. Reached(c) = clients[c].upper
    BY <1>1 DEF Reached
<1>5. \A id, version : Paged(c, id, version) => Given(c, id, version)
    BY <1>4 DEF Paged
<1>. QED
    BY <1>1, <1>2, <1>3, <1>5 DEF ContextHolds

\* A fork begins with its origin's items up to the end of the turn it was made
\* at, and its copies never change.
THEOREM ForkKeepsPrefix == Spec => ForkKeepsItsPrefix
<1>. DEFINE Keeps ==
        \A f \in Dialogues :
          /\ dialogues[f].kind = "none" /\ dialogues'[f].kind = "fork" =>
                {[i EXCEPT !.id = NoId, !.turn = NoTurn, !.historical = TRUE,
                           !.dialogue = f] :
                    i \in {j \in ItemsOf(dialogues'[f].origin) :
                              j.sequence <= dialogues'[f].originEnd}}
                = {[i EXCEPT !.id = NoId] : i \in {j \in items' :
                              j.dialogue = f}}
          /\ dialogues[f].kind # "none" => CopiesOf(f) \subseteq items'
<1>1. Inv /\ [Next]_vars => [Keeps]_vars
    <2>. SUFFICES ASSUME Inv, [Next]_vars
                  PROVE  Keeps
        OBVIOUS
    <2>1. HistoryInv /\ HistoryStep
        BY NextStep DEF Inv
    <2>2. \A f \in Dialogues : CopiesOf(f) \subseteq items'
        BY <2>1 DEF CopiesOf, ItemsOf, HistoryStep, HistoryGrows
    <2>. QED
        BY <2>1, <2>2, OnlyForks, ForkCopies
<1>. QED
    BY <1>1, HistoryInvariant, PTL DEF Spec, ForkKeepsItsPrefix

\* The read mark goes forward only, over nothing the client moving it has not
\* been given.
THEOREM NothingUnseen == Spec => NothingReadUnseen
<1>. DEFINE Seen ==
        \A d \in Dialogues : dialogues'[d].read # dialogues[d].read =>
          /\ dialogues'[d].read > dialogues[d].read
          /\ \E c \in Clients :
                /\ clients[c].dialogue = d
                /\ clients[c].observed = dialogues'[d].read
                /\ \A n \in 1..dialogues'[d].read :
                      \A v \in significance[d][n] :
                          \E w \in clients[c].replica :
                              w.id = v.id /\ w.version >= v.version
<1>1. Inv /\ [Next]_vars => [Seen]_vars
    <2>. SUFFICES ASSUME Inv, [Next]_vars
                  PROVE  Seen
        OBVIOUS
    <2>. QED
        BY OnlyMarks, MarkedIsGiven DEF Given
<1>. QED
    BY <1>1, HistoryInvariant, PTL DEF Spec, NothingReadUnseen
=============================================================================
