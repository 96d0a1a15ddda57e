--------------------------- MODULE ThreadSafeMap ---------------------------
(***************************************************************************)
(* ThreadSafeMap of include/thread_safe_map.h under concurrent callers.    *)
(* Each member function is taken apart into what another thread could see: *)
(* the lock, the search of map_, the use of the entry that was found, and  *)
(* the release of the lock at the return.                                  *)
(***************************************************************************)
EXTENDS Integers, FiniteSets

CONSTANTS
  Thread, Key, Val,
  Absent,     \* no entry; no key or value in a call or an answer
  Default,    \* the value that operator[] gives a new entry; kept apart from those
              \* that calls insert, to see an entry that was not assigned yet
  MaxCalls    \* bound: calls made

ASSUME ThreadSafeMapAssumption ==
  /\ Absent \notin Val /\ Absent \notin Key
  /\ Default \notin Val /\ Default # Absent
  /\ IsFiniteSet(Key)
  /\ MaxCalls \in Nat

VARIABLES
  map_,
  writer,    \* mutex_: the threads that own it exclusively (one at most)
  readers,   \* mutex_: the threads that share it
  pc,        \* where each thread is
  call,      \* the call it makes or made last
  answer,    \* what that call returned
  calls      \* number of calls made

vars == <<map_, writer, readers, pc, call, answer, calls>>

Calls ==
  [op : {"insert"}, key : Key, val : Val]
    \cup [op : {"remove", "get"}, key : Key, val : {Absent}]
    \cup [op : {"getSize"}, key : {Absent}, val : {Absent}]

\* What stands for the last call of a thread that has made none.
NoCall == [op |-> "getSize", key |-> Absent, val |-> Absent]

\* What a call returns: nothing, or false; true, with the value copied out;
\* the size.
NoAnswer == [ok |-> FALSE, val |-> Absent, size |-> 0]
Found(v) == [ok |-> TRUE, val |-> v, size |-> 0]
Counted(n) == [ok |-> FALSE, val |-> Absent, size |-> n]

Entries == {k \in Key : map_[k] # Absent}

Init ==
  /\ map_ = [k \in Key |-> Absent]
  /\ writer = {} /\ readers = {}
  /\ pc = [t \in Thread |-> "idle"]
  /\ call = [t \in Thread |-> NoCall]
  /\ answer = [t \in Thread |-> NoAnswer]
  /\ calls = 0

Goto(t, from, to) == pc[t] = from /\ pc' = [pc EXCEPT ![t] = to]

\* A thread calls one of the functions.
Call(t) ==
  /\ Goto(t, "idle", "called")
  /\ calls < MaxCalls /\ calls' = calls + 1
  /\ \E c \in Calls : call' = [call EXCEPT ![t] = c]
  /\ UNCHANGED <<map_, writer, readers, answer>>

\* Mutants: remove, or insert, takes a shared_lock.
ExclusiveInsert(op) == op = "insert"
ExclusiveRemove(op) == op = "remove"

\* The functions that take a unique_lock; get and getSize take a shared_lock.
Exclusive(op) == op \in {"insert", "remove"}

Lock(t) ==
  /\ Goto(t, "called", "locked")
  /\ writer = {}
  /\ IF Exclusive(call[t].op)
       THEN readers = {} /\ writer' = {t} /\ UNCHANGED readers
       ELSE readers' = readers \cup {t} /\ UNCHANGED writer
  /\ UNCHANGED <<map_, call, answer, calls>>

\* insert: operator[] makes the entry if there is none.
FindOrMake(t) ==
  /\ call[t].op = "insert"
  /\ Goto(t, "locked", "found")
  /\ map_' = [map_ EXCEPT ![call[t].key] = IF @ = Absent THEN Default ELSE @]
  /\ UNCHANGED <<writer, readers, call, answer, calls>>

\* insert: the value is assigned to the entry.
Assign(t) ==
  /\ call[t].op = "insert"
  /\ Goto(t, "found", "leaving")
  /\ map_' = [map_ EXCEPT ![call[t].key] = call[t].val]
  /\ answer' = [answer EXCEPT ![t] = NoAnswer]
  /\ UNCHANGED <<writer, readers, call, calls>>

\* remove and get: find() returns an iterator to the entry.
Find(t) ==
  /\ call[t].op \in {"remove", "get"} /\ call[t].key \in Entries
  /\ Goto(t, "locked", "found")
  /\ UNCHANGED <<map_, writer, readers, call, answer, calls>>

\* Mutant: a return that does not release the lock.
FindNothingKeepsLock(t) ==
  /\ call[t].op \in {"remove", "get"} /\ call[t].key \notin Entries
  /\ Goto(t, "locked", "idle")
  /\ answer' = [answer EXCEPT ![t] = NoAnswer]
  /\ UNCHANGED <<map_, writer, readers, call, calls>>

\* remove and get: find() returns end().
FindNothing(t) ==
  /\ call[t].op \in {"remove", "get"} /\ call[t].key \notin Entries
  /\ Goto(t, "locked", "leaving")
  /\ answer' = [answer EXCEPT ![t] = NoAnswer]
  /\ UNCHANGED <<map_, writer, readers, call, calls>>

\* remove: erase(it).
Erase(t) ==
  /\ call[t].op = "remove"
  /\ Goto(t, "found", "leaving")
  /\ map_' = [map_ EXCEPT ![call[t].key] = Absent]
  /\ answer' = [answer EXCEPT ![t] = Found(Absent)]
  /\ UNCHANGED <<writer, readers, call, calls>>

\* get: value = it->second.
Copy(t) ==
  /\ call[t].op = "get"
  /\ Goto(t, "found", "leaving")
  /\ answer' = [answer EXCEPT ![t] = Found(map_[call[t].key])]
  /\ UNCHANGED <<map_, writer, readers, call, calls>>

GetSize(t) ==
  /\ call[t].op = "getSize"
  /\ Goto(t, "locked", "leaving")
  /\ answer' = [answer EXCEPT ![t] = Counted(Cardinality(Entries))]
  /\ UNCHANGED <<map_, writer, readers, call, calls>>

\* The destructor of the lock runs at the return.
Return(t) ==
  /\ Goto(t, "leaving", "idle")
  /\ writer' = writer \ {t} /\ readers' = readers \ {t}
  /\ UNCHANGED <<map_, call, answer, calls>>

Proceed(t) ==
  \/ Lock(t)
  \/ FindOrMake(t) \/ Assign(t)
  \/ Find(t) \/ FindNothing(t) \/ Erase(t) \/ Copy(t)
  \/ GetSize(t)
  \/ Return(t)

Next == \E t \in Thread : Call(t) \/ Proceed(t)

Spec == Init /\ [][Next]_vars

\* A thread that is in a call, and is not kept out, goes on.
FairSpec == Spec /\ \A t \in Thread : WF_vars(Proceed(t))

-----------------------------------------------------------------------------
(* Properties.                                                             *)

Inside(t) == pc[t] \in {"locked", "found", "leaving"}

\* Every variable has its type; the mutex is owned by the threads that are
\* between taking and releasing it, and by no other.
TypeOK ==
  /\ map_ \in [Key -> Val \cup {Absent, Default}]
  /\ pc \in [Thread -> {"idle", "called", "locked", "found", "leaving"}]
  /\ call \in [Thread -> Calls]
  /\ answer \in [Thread -> [ok : BOOLEAN, val : Val \cup {Absent}, size : Nat]]
  /\ calls \in Nat
  /\ writer = {t \in Thread : Inside(t) /\ Exclusive(call[t].op)}
  /\ readers = {t \in Thread : Inside(t) /\ ~Exclusive(call[t].op)}

\* The entry that a thread has found is there until it has used it, and get
\* never finds the value of an entry that insert has made and not yet filled.
EntryHeld ==
  \A t \in Thread : pc[t] = "found" =>
    /\ call[t].key \in Entries
    /\ call[t].op # "insert" => map_[call[t].key] \in Val

\* The refinement mapping: an entry that is not filled does not exist yet; a
\* call has taken effect when its answer is known.
Filled == [k \in Key |-> IF map_[k] = Default THEN Absent ELSE map_[k]]
Phase ==
  [t \in Thread |-> CASE pc[t] = "idle" -> "idle"
                      [] pc[t] = "leaving" -> "taken"
                      [] OTHER -> "called"]
Map == INSTANCE AtomicMap WITH
  map <- Filled, phase <- Phase, Size <- Cardinality

\* Every call takes effect at once at one moment between its start and its
\* return, whatever the other threads do meanwhile.
ImplementsAtomicMap == Map!Spec

\* Every call returns: no lock is kept after its call, and no thread waits
\* for one it holds itself. (A writer that waits while readers come and go
\* for ever is another matter: MaxCalls excludes it.)
EveryCallReturns == \A t \in Thread : pc[t] # "idle" ~> pc[t] = "idle"
=============================================================================
