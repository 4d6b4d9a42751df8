----------------------------- MODULE D1Session ------------------------------
(***************************************************************************)
(* The session over D1's HTTP interface and one table behind it.           *)
(*                                                                         *)
(* A request's session holds instances it made or read; it has no identity *)
(* map, so one row may be held twice.  What is pending goes out as one     *)
(* batch at a flush, which is a transaction of its own: nothing that was   *)
(* flushed is ever taken back.  An instance is reduced to its key and one  *)
(* content, and an attribute set is pending only if it is marked.  A       *)
(* handler leaves alone what it deletes; shop.held bounds the instances of *)
(* a session.                                                              *)
(***************************************************************************)
EXTENDS Server, SequencesExt

CONSTANTS Writers,   \* requests at a time
          Contents,  \* what a row may hold
          MaxRows    \* bound on the keys given out

ASSUME SessionAssumption == MaxRows \in Nat

VARIABLES
  table,    \* the rows, by key
  lastKey,  \* the keys given out so far; AUTOINCREMENT reuses none
  held,     \* the instances of each session, in the order they came
  new, dirty, deleted,  \* _new, _dirty, _deleted, as positions in held
  \* History, read by the properties only:
  synced    \* <<w, i>>: i was read or written, and neither it nor its row changed since

sessionVars == <<table, lastKey, held, new, dirty, deleted, synced>>

Keys    == 1 .. MaxRows
NoKey   == 0                     \* the key of an instance that was not inserted
Vacant   == [key |-> NoKey]       \* no row
Instances(w) == DOMAIN held[w]

\* Other instances of the rows: they no longer show what is stored.
Of(rows) == {x \in synced : held[x[1]][x[2]].key \in rows}

Pending(w) == new[w] \o dirty[w] \o deleted[w] # <<>>

Instance(key, content) == [key |-> key, content |-> content]

\* Instances that come into the session as the rows of keys, in their order.
Hold(w, keys) ==
  /\ Len(held[w]) + Len(keys) <= shop.held
  /\ held' = [held EXCEPT ![w] = @ \o [n \in DOMAIN keys |-> table[keys[n]]]]
  /\ synced' = synced \cup {<<w, Len(held[w]) + n>> : n \in DOMAIN keys}
  /\ UNCHANGED <<table, lastKey, new, dirty, deleted>>

Rows == {r \in Keys : table[r] # Vacant}

\* get
Get(w, r) == r \in Rows /\ Hold(w, <<r>>)

\* execute of a SELECT of the table, in any order
Select(w) == Rows # {} /\ \E keys \in SetToSeqs(Rows) : Hold(w, keys)

\* add: a new instance, or one that was loaded
AddNew(w, content) ==
  /\ Len(held[w]) < shop.held
  /\ held' = [held EXCEPT ![w] = Append(@, Instance(NoKey, content))]
  /\ new' = [new EXCEPT ![w] = Append(@, Len(held'[w]))]
  /\ UNCHANGED <<table, lastKey, dirty, deleted, synced>>

AddLoaded(w, i) ==
  /\ held[w][i].key # NoKey /\ i \notin Range(new[w])
  /\ new' = [new EXCEPT ![w] = Append(@, i)]
  /\ UNCHANGED <<table, lastKey, held, dirty, deleted, synced>>

\* An attribute is set; nothing notices.
Edit(w, i, content) ==
  /\ held[w][i].content # content
  /\ held' = [held EXCEPT ![w][i].content = content]
  /\ synced' = synced \ {<<w, i>>}
  /\ UNCHANGED <<table, lastKey, new, dirty, deleted>>

\* mark_dirty; a marked one keeps its place.
MarkDirty(w, i) ==
  /\ i \notin Range(new[w]) \cup Range(dirty[w])
  /\ dirty' = [dirty EXCEPT ![w] = Append(@, i)]
  /\ UNCHANGED <<table, lastKey, held, new, deleted, synced>>

\* delete, of an instance that was left as it is
DeleteHeld(w, i) ==
  /\ held[w][i].key # NoKey /\ i \notin Range(new[w] \o dirty[w])
  /\ deleted' = [deleted EXCEPT ![w] = Append(@, i)]
  /\ UNCHANGED <<table, lastKey, held, new, dirty, synced>>

-----------------------------------------------------------------------------
(* The batch of a flush: inserts, updates, deletes *)

\* INSERT ... RETURNING id: the key of each new instance, its own or the next.
Inserted(w) ==
  [n \in DOMAIN new[w] |->
     LET own(m) == held[w][new[w][m]].key
     IN IF own(n) # NoKey THEN own(n) ELSE lastKey + Cardinality({m \in 1 .. n : own(m) = NoKey})]

\* What each statement that writes a row writes: <<key, position in held>>.
Writes(w) ==
  [n \in DOMAIN new[w] |-> <<Inserted(w)[n], new[w][n]>>]
    \o [n \in DOMAIN dirty[w] |-> <<held[w][dirty[w][n]].key, dirty[w][n]>>]

\* A key is free for an INSERT, and taken once in the batch.
BatchSound(w) ==
  LET keys == Inserted(w)
  IN /\ Range(keys) \cap Rows = {}
     /\ Cardinality(Range(keys)) = Len(keys)

\* Faulty form: the results of the updates are taken for those of the inserts.
FirstAfterDirty(w) == Len(dirty[w])

\* The statements before the first INSERT.
FirstInsert(w) == 0

\* The keys flush reads from the results, by position; an UPDATE returns none.
Returned(w, n) ==
  LET m == n + FirstInsert(w) IN IF m \in DOMAIN new[w] THEN Inserted(w)[m] ELSE NoKey

\* batch_query succeeds: all of it, or nothing at all.
Flush(w) ==
  LET keys   == Inserted(w)
      writes == Writes(w)
      gone   == {held[w][i].key : i \in Range(deleted[w])}
      live   == (Rows \cup Range(keys)) \ gone
      last(r) == LET ns == {n \in DOMAIN writes : writes[n][1] = r}
                 IN IF ns = {} THEN 0 ELSE writes[CHOOSE n \in ns : \A m \in ns : m <= n][2]
      told(i) == LET ns == {n \in DOMAIN new[w] : new[w][n] = i}
                 IN IF ns = {} \/ held[w][i].key # NoKey THEN held[w][i].key
                    ELSE Returned(w, CHOOSE n \in ns : TRUE)
      fresh  == Cardinality({n \in DOMAIN keys : held[w][new[w][n]].key = NoKey})
  IN /\ Pending(w)
     /\ lastKey + fresh <= MaxRows
     /\ BatchSound(w)
     /\ table' = [r \in Keys |-> IF r \notin live THEN Vacant
                                 ELSE IF last(r) = 0 THEN table[r]
                                 ELSE Instance(r, held[w][last(r)].content)]
     /\ lastKey' = lastKey + fresh
     /\ held' = [held EXCEPT ![w] = [i \in DOMAIN @ |-> [@[i] EXCEPT !.key = told(i)]]]
     /\ synced' = (synced \ Of({writes[n][1] : n \in DOMAIN writes} \cup gone))
                    \cup {<<w, last(r)>> : r \in {s \in live : last(s) # 0}}
     /\ new' = [new EXCEPT ![w] = <<>>]
     /\ dirty' = [dirty EXCEPT ![w] = <<>>]
     /\ deleted' = [deleted EXCEPT ![w] = <<>>]

\* execute_raw of an UPDATE: a statement of its own, committed at once.
ExecuteRaw(w, r, content) ==
  /\ r \in Rows /\ table[r].content # content
  /\ table' = [table EXCEPT ![r].content = content]
  /\ synced' = synced \ Of({r})
  /\ UNCHANGED <<lastKey, held, new, dirty, deleted>>

\* refresh: an instance without a key finds no row.
Refresh(w, i) ==
  /\ held[w][i].key \in Rows
  /\ held' = [held EXCEPT ![w][i] = table[@.key]]
  /\ synced' = synced \cup {<<w, i>>}
  /\ UNCHANGED <<table, lastKey, new, dirty, deleted>>

\* rollback forgets what is pending, and no more; a handler may go on.
Rollback(w) ==
  /\ Pending(w)
  /\ new' = [new EXCEPT ![w] = <<>>]
  /\ dirty' = [dirty EXCEPT ![w] = <<>>]
  /\ deleted' = [deleted EXCEPT ![w] = <<>>]
  /\ UNCHANGED <<table, lastKey, held, synced>>

\* d1_http_session ends, after its commit's flush or its rollback.
Close(w) ==
  /\ ~Pending(w) /\ held[w] # <<>>
  /\ held' = [held EXCEPT ![w] = <<>>]
  /\ synced' = {x \in synced : x[1] # w}
  /\ UNCHANGED <<table, lastKey, new, dirty, deleted>>

Nothing == [w \in Writers |-> <<>>]

\* The process ends.
DropSessions ==
  /\ held' = Nothing /\ new' = Nothing /\ dirty' = Nothing /\ deleted' = Nothing
  /\ synced' = {}
  /\ UNCHANGED <<table, lastKey>>

SessionInit ==
  /\ table = [r \in Keys |-> Vacant]
  /\ lastKey = 0
  /\ held = Nothing /\ new = Nothing /\ dirty = Nothing /\ deleted = Nothing
  /\ synced = {}

SessionStep ==
  \E w \in shop.writers :
    \/ Select(w) \/ Flush(w) \/ Rollback(w) \/ Close(w)
    \/ \E r \in Keys : Get(w, r) \/ \E c \in Contents : ExecuteRaw(w, r, c)
    \/ \E c \in Contents : AddNew(w, c)
    \/ \E i \in Instances(w) \ Range(deleted[w]) :
         \/ AddLoaded(w, i) \/ MarkDirty(w, i) \/ DeleteHeld(w, i) \/ Refresh(w, i)
         \/ \E c \in Contents : Edit(w, i, c)

-----------------------------------------------------------------------------
(* Properties *)

SessionTypeOK ==
  /\ lastKey \in 0 .. MaxRows
  /\ \A r \in Keys : table[r] # Vacant => table[r].key = r /\ r <= lastKey
  /\ \A w \in Writers : Range(new[w]) \cup Range(dirty[w]) \cup Range(deleted[w]) \subseteq Instances(w)

\* An instance a request has read or written, and that neither it nor anyone else
\* has changed since, is its row: it knows the row's key, though it was inserted
\* in a batch with others, with updates and deletions, next to another request's
\* batches and after batches that were refused, and holds the row's content.
HeldAsStored ==
  \A x \in synced : LET o == held[x[1]][x[2]] IN o.key \in Rows /\ o = table[o.key]
=============================================================================
