------------------------------ MODULE TtlCache ------------------------------
(***************************************************************************)
(* core/cache.rs: the bounded, weighted TTL cache behind the metadata,     *)
(* negative, block-map and directory caches.                               *)
(*                                                                         *)
(* Every operation runs under one mutex.  get and remove are one action    *)
(* each per outcome; insert is its store (Insert) followed, with the mutex *)
(* still held, by the iterations of its eviction loop (Shrink).            *)
(* Time is the age of the entries: Tick is one clock unit, and an entry's  *)
(* age saturates at Ttl, where elapsed() >= ttl holds for good.            *)
(***************************************************************************)
EXTENDS Naturals, Sequences

CONSTANTS Key, Value,
          Weight,      \* the weights callers pass to insert
          Capacity,    \* most entries the LruCache holds
          MaxWeight,   \* the weight budget
          Ttl,         \* 0 disables the cache
          NoEntry

Entry == [value : Value, weight : Weight, age : 0..Ttl]

ASSUME CacheAssumption ==
  /\ Weight \subseteq Nat
  /\ Capacity \in Nat \ {0}
  /\ MaxWeight \in Nat
  /\ Ttl \in Nat
  /\ NoEntry \notin Entry
  /\ NoEntry \notin Value
  /\ NoEntry \notin Key

VARIABLES store,    \* Key -> its entry, or NoEntry: the hash map of the LruCache
          lru,      \* the stored keys, least recently used first: its list
          weight,   \* Inner.weight
          inserting,\* the key whose insert holds the mutex, or NoEntry
          out       \* what the latest get returned: [key, value]

vars == <<store, lru, weight, inserting, out>>

Init == /\ store = [k \in Key |-> NoEntry]
        /\ lru = <<>>
        /\ weight = 0
        /\ inserting = NoEntry
        /\ out = [key |-> NoEntry, value |-> NoEntry]

-----------------------------------------------------------------------------
(* The parts of lru::LruCache the code calls.                              *)

Position(k) == CHOOSE i \in DOMAIN lru : lru[i] = k

\* The list without its i-th key.
DropAt(s, i) == [j \in 1..(Len(s) - 1) |-> IF j < i THEN s[j] ELSE s[j + 1]]

Present(k) == store[k] # NoEntry

\* An insert has stored its entry and is in its eviction loop.
held == inserting # NoEntry

\* pop, with the caller's `weight -= entry.weight`.
Pop(k) == /\ store' = [store EXCEPT ![k] = NoEntry]
          /\ lru' = DropAt(lru, Position(k))
          /\ weight' = weight - store[k].weight

-----------------------------------------------------------------------------
is_enabled == Ttl # 0

\* elapsed() >= ttl
Expired(k) == Present(k) /\ store[k].age >= Ttl

GetMiss(k) ==
  /\ ~held
  /\ ~is_enabled \/ ~Present(k)
  /\ out' = [key |-> k, value |-> NoEntry]
  /\ UNCHANGED <<store, lru, weight, inserting>>

GetExpired(k) ==
  /\ ~held
  /\ is_enabled
  /\ Expired(k)
  /\ Pop(k)
  /\ out' = [key |-> k, value |-> NoEntry]
  /\ UNCHANGED inserting

\* Mutant: a hit makes the entry young again (a sliding expiry).
GetHitSliding(k) ==
  /\ ~held
  /\ is_enabled
  /\ Present(k) /\ ~Expired(k)
  /\ store' = [store EXCEPT ![k].age = 0]
  /\ lru' = Append(DropAt(lru, Position(k)), k)
  /\ out' = [key |-> k, value |-> store[k].value]
  /\ UNCHANGED <<weight, inserting>>

\* A hit moves the key to the most recently used end; the entry keeps its age.
GetHit(k) ==
  /\ ~held
  /\ is_enabled
  /\ Present(k) /\ ~Expired(k)
  /\ lru' = Append(DropAt(lru, Position(k)), k)
  /\ out' = [key |-> k, value |-> store[k].value]
  /\ UNCHANGED <<store, weight, inserting>>

\* Mutant: the replaced entry's weight is released by pop and again by push.
InsertOverTwice(k, e) ==
  /\ store' = [store EXCEPT ![k] = e]
  /\ lru' = Append(DropAt(lru, Position(k)), k)
  /\ weight' = weight - 2 * store[k].weight + e.weight

\* Pop an old entry of the same key; push, which drops the least recently used
\* entry when the list is full; account for all three weights.
InsertOver(k, e) ==
  /\ store' = [store EXCEPT ![k] = e]
  /\ lru' = Append(DropAt(lru, Position(k)), k)
  /\ weight' = weight - store[k].weight + e.weight

\* Mutant: the list grows past Capacity.
InsertNewUnbounded(k, e) ==
  /\ store' = [store EXCEPT ![k] = e]
  /\ lru' = Append(lru, k)
  /\ weight' = weight + e.weight

\* Mutant: the weight of the entry that push drops is never released.
InsertNewDrifting(k, e) ==
  /\ store' = IF Len(lru) = Capacity
                THEN [store EXCEPT ![Head(lru)] = NoEntry, ![k] = e]
                ELSE [store EXCEPT ![k] = e]
  /\ lru' = Append(IF Len(lru) = Capacity THEN Tail(lru) ELSE lru, k)
  /\ weight' = weight + e.weight

InsertNew(k, e) ==
  IF Len(lru) = Capacity
    THEN /\ store' = [store EXCEPT ![Head(lru)] = NoEntry, ![k] = e]
         /\ lru' = Append(Tail(lru), k)
         /\ weight' = weight - store[Head(lru)].weight + e.weight
    ELSE /\ store' = [store EXCEPT ![k] = e]
         /\ lru' = Append(lru, k)
         /\ weight' = weight + e.weight

\* Mutant: the `weight > max_weight` early return is missing.
InsertAnyWeight(k, v, w) ==
  /\ ~held
  /\ is_enabled
  /\ LET e == [value |-> v, weight |-> w, age |-> 0]
     IN  IF Present(k) THEN InsertOver(k, e) ELSE InsertNew(k, e)
  /\ inserting' = k
  /\ UNCHANGED out

Insert(k, v, w) ==
  /\ ~held
  /\ is_enabled
  /\ w <= MaxWeight
  /\ LET e == [value |-> v, weight |-> w, age |-> 0]
     IN  IF Present(k) THEN InsertOver(k, e) ELSE InsertNew(k, e)
  /\ inserting' = k
  /\ UNCHANGED out

\* Mutant: the eviction loop pops the most recently used entry.
ShrinkNewest ==
  /\ held
  /\ weight > MaxWeight
  /\ lru # <<>>
  /\ Pop(lru[Len(lru)])
  /\ UNCHANGED <<inserting, out>>

\* One iteration of `while inner.weight > self.max_weight`.
Shrink ==
  /\ held
  /\ weight > MaxWeight
  /\ lru # <<>>
  /\ Pop(Head(lru))
  /\ UNCHANGED <<inserting, out>>

\* The loop ends (or breaks on an empty cache) and the mutex is released.
Release ==
  /\ held
  /\ weight <= MaxWeight \/ lru = <<>>
  /\ inserting' = NoEntry
  /\ UNCHANGED <<store, lru, weight, out>>

\* Mutant: a round forgets `weight -= entry.weight`, and the loop has no break.
LoopDrifting ==
  /\ held
  /\ IF weight > MaxWeight
       THEN /\ store' = IF lru = <<>> THEN store
                                     ELSE [store EXCEPT ![Head(lru)] = NoEntry]
            /\ lru' = IF lru = <<>> THEN lru ELSE Tail(lru)
            /\ UNCHANGED <<weight, inserting, out>>
       ELSE Release

\* The loop at the end of insert: a round, or the way out.
Loop == Shrink \/ Release

Remove(k) ==
  /\ ~held
  /\ Present(k)
  /\ Pop(k)
  /\ UNCHANGED <<inserting, out>>

\* The clock advances, whoever holds the mutex.
Aged(e) == [e EXCEPT !.age = IF @ < Ttl THEN @ + 1 ELSE @]

Tick ==
  /\ store' = [k \in Key |-> IF Present(k) THEN Aged(store[k]) ELSE NoEntry]
  /\ UNCHANGED <<lru, weight, inserting, out>>

-----------------------------------------------------------------------------
Next == \/ \E k \in Key : GetMiss(k) \/ GetExpired(k) \/ GetHit(k) \/ Remove(k)
        \/ \E k \in Key, v \in Value, w \in Weight : Insert(k, v, w)
        \/ Loop
        \/ Tick

\* The inserting thread does not sleep inside the loop.
Fairness == WF_vars(Loop)

Spec == Init /\ [][Next]_vars /\ Fairness
-----------------------------------------------------------------------------
TypeOK ==
  /\ store \in [Key -> Entry \cup {NoEntry}]
  /\ lru \in Seq(Key)
  /\ weight \in Nat
  /\ inserting \in Key \cup {NoEntry}
  /\ out \in [key : Key \cup {NoEntry}, value : Value \cup {NoEntry}]

\* The list holds exactly the stored keys, each once, and never more than
\* Capacity of them: pop, push and pop_lru keep map and list in step.
ListMatchesMap ==
  /\ \A i, j \in 1..Len(lru) : lru[i] = lru[j] => i = j
  /\ \A k \in Key : Present(k) <=> \E i \in 1..Len(lru) : lru[i] = k
  /\ Len(lru) <= Capacity

\* p adds up the weights of the listed entries, oldest first.
RunningWeight(p) ==
  /\ p[0] = 0
  /\ \A i \in 1..Len(lru) : p[i] = p[i - 1] + store[lru[i]].weight
  /\ \A i, j \in 0..Len(lru) : i <= j => p[i] <= p[j]

\* Inner.weight is exactly the sum of the stored weights after every pop, push
\* and eviction (the drift the comment in insert warns of never happens, and
\* `weight -=` never underflows), and outside insert it is within the budget.
WeightExact ==
  /\ \E p \in [0..Len(lru) -> 0..weight] :
        RunningWeight(p) /\ p[Len(lru)] = weight
  /\ ~held => weight <= MaxWeight

\* An accepted value is still there when insert returns: through every round of
\* the eviction loop, up to the release of the mutex, the key being inserted
\* keeps its entry.
InsertKeepsItsEntry == held => Present(inserting)

\* An operation that makes entries disappear without naming them takes the least
\* recently used ones: what it drops was used before everything it keeps.
EvictsOldestFirst ==
  [][(held' \/ held) =>
       \A i, j \in 1..Len(lru) :
          i < j /\ store[lru[i]] # NoEntry /\ store'[lru[j]] = NoEntry
             => store'[lru[i]] = NoEntry]_vars

\* The eviction loop of insert terminates and gives the mutex back.
InsertReturns == held ~> ~held

Slot(k) == INSTANCE TtlSlot
             WITH slot <- store[k],
                  hit  <- IF out.key = k THEN out.value ELSE NoEntry

\* Each key by itself implements the lossy slot of TtlSlot: no operation on
\* another key changes its value or makes it younger, and no lookup returns
\* an entry that reached Ttl.
EachKeyIsASlot ==
  /\ \A k \in Key : Slot(k)!Init
  /\ [][\A k \in Key : Slot(k)!Next \/ UNCHANGED Slot(k)!vars]_vars
=============================================================================
