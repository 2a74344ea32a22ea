------------------------------ MODULE TtlSlot ------------------------------
(***************************************************************************)
(* What one key of a TtlCache promises to the request handlers, whatever   *)
(* the other keys do: a lossy slot.  It may lose its entry at any moment   *)
(* (LRU or weight eviction, expiry, removal), but while it has one the     *)
(* value is the last one stored and the entry only grows older; a lookup   *)
(* answers with that value only while it is younger than Ttl.              *)
(***************************************************************************)
EXTENDS Naturals

CONSTANTS Value,     \* what the cache stores
          Weight,    \* the weights callers pass
          Ttl,       \* age at which an entry is no longer served; 0 disables
          NoEntry    \* the absent entry, and the answer of a miss

VARIABLES slot,      \* the key's entry, or NoEntry
          hit        \* the value the latest lookup returned, or NoEntry

vars == <<slot, hit>>

\* An entry's age counts clock ticks since `inserted`; ages past Ttl are alike.
Entry == [value : Value, weight : Weight, age : 0..Ttl]

Init == slot = NoEntry /\ hit = NoEntry

Store == \E v \in Value, w \in Weight :
            /\ Ttl > 0
            /\ slot' = [value |-> v, weight |-> w, age |-> 0]
            /\ UNCHANGED hit

\* The clock advances by one tick.
Age == /\ slot # NoEntry
       /\ slot.age < Ttl
       /\ slot' = [slot EXCEPT !.age = @ + 1]
       /\ UNCHANGED hit

\* The entry disappears; nobody is told.
Lose == slot' = NoEntry /\ UNCHANGED hit

\* A lookup that hits leaves the entry, its age included, as it was.
Hit == /\ slot # NoEntry
       /\ slot.age < Ttl
       /\ hit' = slot.value
       /\ UNCHANGED slot

\* A lookup that misses may drop an expired entry, never one it could serve.
Miss == /\ hit' = NoEntry
        /\ \/ slot' = slot
           \/ slot # NoEntry /\ slot.age = Ttl /\ slot' = NoEntry

Next == Store \/ Age \/ Lose \/ Hit \/ Miss

Spec == Init /\ [][Next]_vars
=============================================================================
