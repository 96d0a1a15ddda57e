------------------------ MODULE ThreadSafeMapProofs ------------------------
(***************************************************************************)
(* Proofs about ThreadSafeMap, for every number of threads, keys, values   *)
(* and calls.                                                              *)
(*                                                                         *)
(* TypeOK says which threads own the mutex. That a thread which owns it    *)
(* exclusively is alone inside (Excluded) makes a found entry stay         *)
(* (EntryHeld), and an entry that operator[] made and nobody filled is one *)
(* that a thread is about to fill (DefaultHeld), so that no reader meets   *)
(* it: what AtomicMap's Take needs to know of the entries.                 *)
(***************************************************************************)
EXTENDS ThreadSafeMap, FiniteSetTheorems, TLAPS

\* A thread inside a call that takes a unique_lock is the only one inside.
Excluded ==
  \A t, u \in Thread :
    Inside(t) /\ Inside(u) /\ Exclusive(call[t].op) => t = u

\* An entry without its value belongs to a thread that is about to fill it.
DefaultHeld ==
  \A k \in Key : map_[k] = Default =>
    \E t \in Thread : pc[t] = "found" /\ call[t].op = "insert" /\ call[t].key = k

\* The inductive invariant.
IndInv == TypeOK /\ Excluded /\ EntryHeld /\ DefaultHeld

-----------------------------------------------------------------------------

\* The fields of a call.
LEMMA CallType ==
  ASSUME NEW c \in Calls
  PROVE  /\ c.op \in {"insert", "remove", "get", "getSize"}
         /\ c.op # "getSize" => c.key \in Key
         /\ c.op = "insert" => c.val \in Val
BY DEF Calls

\* The initial state satisfies the inductive invariant.
LEMMA InitInv == Init => IndInv
BY ThreadSafeMapAssumption
DEF Init, IndInv, TypeOK, Excluded, EntryHeld, DefaultHeld, NoCall, NoAnswer,
    Calls, Inside

\* While a thread owns the mutex exclusively no other is inside; while one
\* shares it, the others inside share it.
LEMMA Alone ==
  ASSUME IndInv, NEW t \in Thread, Inside(t), Exclusive(call[t].op)
  PROVE  \A u \in Thread : u # t => ~Inside(u)
BY DEF IndInv, Excluded

\* A call begins: nobody is inside who was not before.
LEMMA CallInv ==
  ASSUME IndInv, NEW t \in Thread, Call(t)
  PROVE  IndInv'
<1>1. /\ pc[t] = "idle" /\ pc' = [pc EXCEPT ![t] = "called"]
      /\ calls' = calls + 1
      /\ UNCHANGED <<map_, writer, readers, answer>>
  BY DEF Call, Goto
<1>2. PICK c \in Calls : call' = [call EXCEPT ![t] = c]
  BY DEF Call
<1>3. \A u \in Thread : /\ Inside(u)' <=> Inside(u)
                        /\ Inside(u) => call'[u] = call[u]
                        /\ pc'[u] = "found" <=> pc[u] = "found"
                        /\ pc[u] = "found" => call'[u] = call[u]
  BY <1>1, <1>2 DEF IndInv, TypeOK, Inside
<1>4. TypeOK'
  BY <1>1, <1>2, <1>3 DEF IndInv, TypeOK
<1>5. Excluded'
  BY <1>3 DEF IndInv, Excluded
<1>6. EntryHeld' /\ DefaultHeld'
  BY <1>1, <1>3 DEF IndInv, EntryHeld, DefaultHeld, Entries
<1> QED
  BY <1>4, <1>5, <1>6 DEF IndInv

\* The mutex is taken: exclusively only when nobody is inside.
LEMMA LockInv ==
  ASSUME IndInv, NEW t \in Thread, Lock(t)
  PROVE  IndInv'
<1>1. /\ pc[t] = "called" /\ pc' = [pc EXCEPT ![t] = "locked"]
      /\ writer = {}
      /\ Exclusive(call[t].op) => /\ readers = {}
                                  /\ writer' = {t} /\ UNCHANGED readers
      /\ ~Exclusive(call[t].op) => /\ readers' = readers \cup {t}
                                   /\ UNCHANGED writer
      /\ UNCHANGED <<map_, call, answer, calls>>
  BY DEF Lock, Goto
<1>2. \A u \in Thread : /\ u # t => (Inside(u)' <=> Inside(u))
                        /\ Inside(t)' /\ ~Inside(t)
                        /\ pc'[u] = "found" <=> pc[u] = "found"
  BY <1>1 DEF IndInv, TypeOK, Inside
<1>3. \A u \in Thread : Inside(u) => ~Exclusive(call[u].op) /\ ~Exclusive(call[t].op)
  BY <1>1 DEF IndInv, TypeOK
<1>4. TypeOK'
  <2>1. writer' = {u \in Thread : Inside(u)' /\ Exclusive(call'[u].op)}
    BY <1>1, <1>2, <1>3 DEF IndInv, TypeOK
  <2>2. readers' = {u \in Thread : Inside(u)' /\ ~Exclusive(call'[u].op)}
    BY <1>1, <1>2, <1>3 DEF IndInv, TypeOK
  <2> QED
    BY <1>1, <2>1, <2>2 DEF IndInv, TypeOK
<1>5. Excluded'
  BY <1>1, <1>2, <1>3 DEF Excluded
<1>6. EntryHeld' /\ DefaultHeld'
  BY <1>1, <1>2 DEF IndInv, EntryHeld, DefaultHeld, Entries
<1> QED
  BY <1>4, <1>5, <1>6 DEF IndInv

\* A step of a thread that stays inside and leaves the entries alone.
LEMMA InsideInv ==
  ASSUME IndInv, NEW t \in Thread, Inside(t),
         NEW to \in {"found", "leaving"}, pc' = [pc EXCEPT ![t] = to],
         to = "found" => /\ call[t].op \in {"remove", "get"}
                         /\ call[t].key \in Entries,
         pc[t] # "found" \/ call[t].op # "insert",
         answer' \in [Thread -> [ok : BOOLEAN, val : Val \cup {Absent}, size : Nat]],
         UNCHANGED <<map_, writer, readers, call, calls>>
  PROVE  IndInv'
<1>1. \A u \in Thread : /\ Inside(u)' <=> Inside(u)
                        /\ u # t => pc'[u] = pc[u]
  BY DEF IndInv, TypeOK, Inside
<1>2. TypeOK'
  BY <1>1 DEF IndInv, TypeOK
<1>3. Excluded'
  BY <1>1 DEF IndInv, Excluded
<1>4. DefaultHeld'
  BY <1>1 DEF IndInv, DefaultHeld
<1>5. to = "found" => map_[call[t].key] \in Val
  <2> SUFFICES ASSUME to = "found"
               PROVE  map_[call[t].key] \in Val
    OBVIOUS
  <2>1. call[t].key \in Key /\ map_[call[t].key] \in Val \cup {Default}
    BY CallType DEF IndInv, TypeOK, Entries
  <2>2. map_[call[t].key] # Default
    <3> SUFFICES ASSUME map_[call[t].key] = Default
                 PROVE  FALSE
      OBVIOUS
    <3>1. PICK u \in Thread : pc[u] = "found" /\ call[u].op = "insert"
      BY <2>1 DEF IndInv, DefaultHeld
    <3>2. u = t
      BY <3>1 DEF IndInv, Excluded, Inside, Exclusive
    <3> QED
      BY <3>1, <3>2
  <2> QED
    BY <2>1, <2>2
<1>6. EntryHeld'
  BY <1>1, <1>5 DEF IndInv, TypeOK, EntryHeld, Entries
<1> QED
  BY <1>2, <1>3, <1>4, <1>6 DEF IndInv

\* insert makes the entry if it is missing; no other thread is inside.
LEMMA FindOrMakeInv ==
  ASSUME IndInv, NEW t \in Thread, FindOrMake(t)
  PROVE  IndInv'
<1> DEFINE key == call[t].key
<1>1. /\ call[t].op = "insert"
      /\ pc[t] = "locked" /\ pc' = [pc EXCEPT ![t] = "found"]
      /\ map_' = [map_ EXCEPT ![key] = IF map_[key] = Absent THEN Default
                                       ELSE map_[key]]
      /\ UNCHANGED <<writer, readers, call, answer, calls>>
  BY DEF FindOrMake, Goto
<1>2. key \in Key
  BY <1>1, CallType DEF IndInv, TypeOK
<1>3. \A u \in Thread : /\ Inside(u)' <=> Inside(u)
                        /\ u # t => pc'[u] = pc[u] /\ ~Inside(u)
  BY <1>1, Alone DEF IndInv, TypeOK, Inside, Exclusive
<1>4. TypeOK'
  BY <1>1, <1>2, <1>3 DEF IndInv, TypeOK
<1>5. Excluded'
  BY <1>1, <1>3 DEF IndInv, Excluded
<1>6. EntryHeld'
  BY <1>1, <1>2, <1>3, ThreadSafeMapAssumption
  DEF IndInv, TypeOK, EntryHeld, Entries, Inside
<1>7. DefaultHeld'
  BY <1>1, <1>2, <1>3 DEF IndInv, TypeOK, DefaultHeld, Inside
<1> QED
  BY <1>4, <1>5, <1>6, <1>7 DEF IndInv

\* A writer sets its entry; no other thread is inside.
LEMMA WriteInv ==
  ASSUME IndInv, NEW t \in Thread, pc[t] = "found", Exclusive(call[t].op),
         NEW new \in Val \cup {Absent},
         pc' = [pc EXCEPT ![t] = "leaving"],
         map_' = [map_ EXCEPT ![call[t].key] = new],
         answer' \in [Thread -> [ok : BOOLEAN, val : Val \cup {Absent}, size : Nat]],
         UNCHANGED <<writer, readers, call, calls>>
  PROVE  IndInv'
<1> DEFINE key == call[t].key
<1>1. key \in Key
  BY CallType DEF IndInv, TypeOK, Exclusive
<1>2. \A u \in Thread : /\ Inside(u)' <=> Inside(u)
                        /\ u # t => pc'[u] = pc[u] /\ ~Inside(u)
  BY Alone DEF IndInv, TypeOK, Inside
<1>3. TypeOK'
  BY <1>1, <1>2 DEF IndInv, TypeOK
<1>4. Excluded'
  BY <1>2 DEF IndInv, Excluded
<1>5. EntryHeld'
  BY <1>2 DEF IndInv, TypeOK, EntryHeld, Inside
<1>6. DefaultHeld'
  <2> SUFFICES ASSUME NEW k \in Key, map_'[k] = Default
               PROVE  FALSE
    BY DEF DefaultHeld
  <2>1. k # key /\ map_[k] = Default
    BY <1>1, ThreadSafeMapAssumption DEF IndInv, TypeOK
  <2>2. PICK u \in Thread : pc[u] = "found" /\ call[u].key = k
    BY <2>1 DEF IndInv, DefaultHeld
  <2>3. u = t
    BY <1>2, <2>2 DEF Inside
  <2> QED
    BY <2>1, <2>2, <2>3
<1> QED
  BY <1>3, <1>4, <1>5, <1>6 DEF IndInv

\* A thread releases the mutex.
LEMMA ReturnInv ==
  ASSUME IndInv, NEW t \in Thread, Return(t)
  PROVE  IndInv'
<1>1. /\ pc[t] = "leaving" /\ pc' = [pc EXCEPT ![t] = "idle"]
      /\ writer' = writer \ {t} /\ readers' = readers \ {t}
      /\ UNCHANGED <<map_, call, answer, calls>>
  BY DEF Return, Goto
<1>2. /\ ~Inside(t)'
      /\ \A u \in Thread : /\ u # t => (Inside(u)' <=> Inside(u))
                           /\ pc'[u] = "found" <=> pc[u] = "found"
  BY <1>1 DEF IndInv, TypeOK, Inside
<1>3. TypeOK'
  BY <1>1, <1>2 DEF IndInv, TypeOK
<1>4. Excluded'
  BY <1>1, <1>2 DEF IndInv, Excluded
<1>5. EntryHeld' /\ DefaultHeld'
  BY <1>1, <1>2 DEF IndInv, EntryHeld, DefaultHeld, Entries
<1> QED
  BY <1>3, <1>4, <1>5 DEF IndInv

-----------------------------------------------------------------------------

\* The answers have their type.
LEMMA AnswerType ==
  ASSUME IndInv, NEW t \in Thread, Find(t) \/ FindNothing(t) \/ Copy(t) \/ GetSize(t)
                                   \/ Assign(t) \/ Erase(t)
  PROVE  answer' \in [Thread -> [ok : BOOLEAN, val : Val \cup {Absent}, size : Nat]]
<1> DEFINE Answers == [ok : BOOLEAN, val : Val \cup {Absent}, size : Nat]
<1>1. answer \in [Thread -> Answers] /\ NoAnswer \in Answers
  BY DEF IndInv, TypeOK, NoAnswer
<1>2. CASE Find(t)
  BY <1>1, <1>2 DEF Find
<1>3. CASE FindNothing(t) \/ Assign(t)
  BY <1>1, <1>3 DEF FindNothing, Assign
<1>4. CASE Erase(t)
  <2>1. Found(Absent) \in Answers
    BY DEF Found
  <2> QED
    BY <1>1, <1>4, <2>1 DEF Erase
<1>5. CASE Copy(t)
  <2>1. map_[call[t].key] \in Val
    BY <1>5 DEF Copy, Goto, IndInv, EntryHeld
  <2>2. Found(map_[call[t].key]) \in Answers
    BY <2>1 DEF Found, Counted
  <2> QED
    BY <1>1, <1>5, <2>2 DEF Copy
<1>6. CASE GetSize(t)
  <2>1. Cardinality(Entries) \in Nat
    BY FS_CardinalityType, FS_Subset, ThreadSafeMapAssumption DEF Entries
  <2>2. Counted(Cardinality(Entries)) \in Answers
    BY <2>1 DEF Found, Counted
  <2> QED
    BY <1>1, <1>6, <2>2 DEF GetSize
<1> QED
  BY <1>2, <1>3, <1>4, <1>5, <1>6

\* Every step preserves the inductive invariant.
LEMMA NextInv == IndInv /\ [Next]_vars => IndInv'
<1> SUFFICES ASSUME IndInv, [Next]_vars
             PROVE  IndInv'
  OBVIOUS
<1>1. ASSUME NEW t \in Thread, Call(t) \/ Proceed(t)
      PROVE  IndInv'
  <2>1. CASE Call(t)
    BY <2>1, CallInv
  <2>2. CASE Lock(t)
    BY <2>2, LockInv
  <2>3. CASE FindOrMake(t)
    BY <2>3, FindOrMakeInv
  <2>4. CASE Assign(t)
    <3>1. call[t].val \in Val
      BY <2>4, CallType DEF Assign, IndInv, TypeOK
    <3> QED
      BY <2>4, <3>1, AnswerType, WriteInv DEF Assign, Goto, Exclusive
  <2>5. CASE Find(t)
    BY <2>5, AnswerType, InsideInv DEF Find, Goto, Inside
  <2>6. CASE FindNothing(t)
    BY <2>6, AnswerType, InsideInv DEF FindNothing, Goto, Inside
  <2>7. CASE Erase(t)
    BY <2>7, AnswerType, WriteInv DEF Erase, Goto, Exclusive
  <2>8. CASE Copy(t)
    BY <2>8, AnswerType, InsideInv DEF Copy, Goto, Inside
  <2>9. CASE GetSize(t)
    BY <2>9, AnswerType, InsideInv DEF GetSize, Goto, Inside
  <2>10. CASE Return(t)
    BY <2>10, ReturnInv
  <2> QED
    BY <1>1, <2>1, <2>2, <2>3, <2>4, <2>5, <2>6, <2>7, <2>8, <2>9, <2>10
    DEF Proceed
<1>2. CASE UNCHANGED vars
  BY <1>2 DEF vars, IndInv, TypeOK, Excluded, EntryHeld, DefaultHeld, Entries,
              Inside
<1> QED
  BY <1>1, <1>2 DEF Next

\* The inductive invariant holds in every reachable state.
THEOREM Invariance == Spec => []IndInv
<1> QED
  BY InitInv, NextInv, PTL DEF Spec

\* Type correctness, and the ownership of the mutex.
THEOREM TypeCorrect == Spec => []TypeOK
<1>1. IndInv => TypeOK
  BY DEF IndInv
<1> QED
  BY <1>1, Invariance, PTL

\* The iterators of thread_safe_map.h:24 and :34 stay valid until they are
\* used, and get never copies a value that insert has not stored.
THEOREM EntriesAreHeld == Spec => []EntryHeld
<1>1. IndInv => EntryHeld
  BY DEF IndInv
<1> QED
  BY <1>1, Invariance, PTL

-----------------------------------------------------------------------------
(* ThreadSafeMap implements AtomicMap.                                     *)

\* A step that moves one thread within "called", or changes nothing that
\* AtomicMap has.
LEMMA Stutter ==
  ASSUME UNCHANGED <<Filled, Phase, call, answer>>
  PROVE  UNCHANGED Map!vars
BY DEF Map!vars

\* The phase of a thread that moves, and of the others.
LEMMA PhaseMoves ==
  ASSUME IndInv, NEW t \in Thread,
         NEW to \in {"idle", "called", "locked", "found", "leaving"},
         pc' = [pc EXCEPT ![t] = to]
  PROVE  Phase' = [Phase EXCEPT ![t] = CASE to = "idle" -> "idle"
                                         [] to = "leaving" -> "taken"
                                         [] OTHER -> "called"]
BY DEF IndInv, TypeOK, Phase

\* A reader, or a writer that has not changed anything, sees the entries that
\* the atomic map has.
LEMMA SeesFilled ==
  ASSUME IndInv, NEW t \in Thread, Inside(t),
         pc[t] # "found" \/ call[t].op # "insert"
  PROVE  Filled = map_
<1>1. \A k \in Key : map_[k] # Default
  <2> SUFFICES ASSUME NEW k \in Key, map_[k] = Default
               PROVE  FALSE
    OBVIOUS
  <2>1. PICK u \in Thread : pc[u] = "found" /\ call[u].op = "insert"
    BY DEF IndInv, DefaultHeld
  <2>2. u = t
    BY <2>1 DEF IndInv, Excluded, Inside, Exclusive
  <2> QED
    BY <2>1, <2>2
<1> QED
  BY <1>1 DEF Filled, IndInv, TypeOK

\* The effect of a call on what readers see is its abstract effect.
LEMMA TakeRefines ==
  ASSUME IndInv, NEW t \in Thread,
         pc[t] \in {"locked", "found"}, pc' = [pc EXCEPT ![t] = "leaving"],
         Filled' = Map!After(Filled, call[t]),
         answer' = [answer EXCEPT ![t] = Map!Answer(Filled, call[t])],
         UNCHANGED call
  PROVE  Map!Take(t)
<1>1. Phase[t] = "called"
  BY DEF Phase
<1>2. Phase' = [Phase EXCEPT ![t] = "taken"]
  BY PhaseMoves
<1> QED
  BY <1>1, <1>2 DEF Map!Take

\* insert takes effect when the value is assigned.
LEMMA AssignRefines ==
  ASSUME IndInv, NEW t \in Thread, Assign(t)
  PROVE  Map!Take(t)
<1>1. /\ call[t].op = "insert" /\ call[t].key \in Key /\ call[t].val \in Val
      /\ pc[t] = "found" /\ pc' = [pc EXCEPT ![t] = "leaving"]
      /\ map_' = [map_ EXCEPT ![call[t].key] = call[t].val]
      /\ answer' = [answer EXCEPT ![t] = NoAnswer]
      /\ UNCHANGED call
  BY CallType DEF Assign, Goto, IndInv, TypeOK
<1>2. Filled' = Map!After(Filled, call[t])
  BY <1>1, ThreadSafeMapAssumption DEF Filled, Map!After, IndInv, TypeOK
<1>3. Map!Answer(Filled, call[t]) = NoAnswer
  BY <1>1 DEF Map!Answer, NoAnswer
<1> QED
  BY <1>1, <1>2, <1>3, TakeRefines

\* remove takes effect when the entry is erased.
LEMMA EraseRefines ==
  ASSUME IndInv, NEW t \in Thread, Erase(t)
  PROVE  Map!Take(t)
<1>1. /\ call[t].op = "remove" /\ call[t].key \in Key
      /\ pc[t] = "found" /\ pc' = [pc EXCEPT ![t] = "leaving"]
      /\ map_' = [map_ EXCEPT ![call[t].key] = Absent]
      /\ answer' = [answer EXCEPT ![t] = Found(Absent)]
      /\ UNCHANGED call
  BY CallType DEF Erase, Goto, IndInv, TypeOK
<1>2. Filled = map_ /\ map_[call[t].key] # Absent
  BY <1>1, SeesFilled DEF Inside, IndInv, EntryHeld, Entries
<1>3. Filled' = Map!After(Filled, call[t])
  BY <1>1, <1>2, ThreadSafeMapAssumption DEF Filled, Map!After, IndInv, TypeOK
<1>4. Map!Answer(Filled, call[t]) = Found(Absent)
  BY <1>1, <1>2 DEF Map!Answer, Map!Entries, Found
<1> QED
  BY <1>1, <1>3, <1>4, TakeRefines

\* get, getSize, and a search that finds nothing, take effect when they have
\* looked.
LEMMA LookRefines ==
  ASSUME IndInv, NEW t \in Thread, FindNothing(t) \/ Copy(t) \/ GetSize(t)
  PROVE  Map!Take(t)
<1>1. /\ pc[t] \in {"locked", "found"} /\ pc' = [pc EXCEPT ![t] = "leaving"]
      /\ pc[t] = "found" => call[t].op # "insert"
      /\ UNCHANGED <<map_, call>>
  BY DEF FindNothing, Copy, GetSize, Goto
<1>2. Filled = map_ /\ Filled' = Filled
  BY <1>1, SeesFilled DEF Inside, Filled
<1>3. CASE FindNothing(t)
  <2>1. /\ call[t].op \in {"remove", "get"} /\ call[t].key \in Key
        /\ map_[call[t].key] = Absent
    BY <1>3, CallType DEF FindNothing, IndInv, TypeOK, Entries
  <2>2. Filled' = Map!After(Filled, call[t])
    BY <1>2, <2>1 DEF Map!After, IndInv, TypeOK
  <2>3. Map!Answer(Filled, call[t]) = NoAnswer
    BY <1>2, <2>1 DEF Map!Answer, Map!Entries, NoAnswer
  <2> QED
    BY <1>1, <1>3, <2>2, <2>3, TakeRefines DEF FindNothing
<1>4. CASE Copy(t)
  <2>1. /\ call[t].op = "get" /\ call[t].key \in Key
        /\ map_[call[t].key] # Absent
    BY <1>4, CallType DEF Copy, Goto, IndInv, TypeOK, EntryHeld, Entries
  <2>2. Filled' = Map!After(Filled, call[t])
    BY <1>2, <2>1 DEF Map!After
  <2>3. Map!Answer(Filled, call[t]) =
          Found(map_[call[t].key])
    BY <1>2, <2>1 DEF Map!Answer, Map!Entries, Found
  <2> QED
    BY <1>1, <1>4, <2>2, <2>3, TakeRefines DEF Copy
<1>5. CASE GetSize(t)
  <2>1. call[t].op = "getSize"
    BY <1>5 DEF GetSize
  <2>2. Filled' = Map!After(Filled, call[t])
    BY <1>2, <2>1 DEF Map!After
  <2>3. Map!Entries(Filled) = Entries
    BY <1>2 DEF Map!Entries, Entries
  <2>4. Map!Answer(Filled, call[t]) = Counted(Cardinality(Entries))
    BY <2>1, <2>3 DEF Map!Answer, Counted
  <2> QED
    BY <1>1, <1>5, <2>2, <2>4, TakeRefines DEF GetSize
<1> QED
  BY <1>3, <1>4, <1>5

\* Every step is a step of AtomicMap or a stutter.
LEMMA StepRefines ==
  ASSUME IndInv, [Next]_vars
  PROVE  [Map!Next]_(Map!vars)
<1>1. ASSUME NEW t \in Thread, Call(t)
      PROVE  Map!Next
  <2>1. pc[t] = "idle" /\ pc' = [pc EXCEPT ![t] = "called"] /\ UNCHANGED <<map_, answer>>
    BY <1>1 DEF Call, Goto
  <2>2. Phase[t] = "idle" /\ Phase' = [Phase EXCEPT ![t] = "called"]
    BY <2>1, PhaseMoves DEF Phase
  <2>3. UNCHANGED Filled
    BY <2>1 DEF Filled
  <2>4. \E c \in Map!Calls : call' = [call EXCEPT ![t] = c]
    BY <1>1 DEF Call, Calls, Map!Calls
  <2> QED
    BY <2>1, <2>2, <2>3, <2>4 DEF Map!Next, Map!Invoke
<1>2. ASSUME NEW t \in Thread, Lock(t) \/ Find(t) \/ FindOrMake(t)
      PROVE  UNCHANGED Map!vars
  <2>1. PICK to \in {"locked", "found"} :
          /\ pc[t] \in {"called", "locked"} /\ pc' = [pc EXCEPT ![t] = to]
          /\ UNCHANGED <<call, answer>>
    BY <1>2 DEF Lock, Find, FindOrMake, Goto
  <2>2. UNCHANGED Phase
    BY <2>1, PhaseMoves DEF Phase
  <2>3. UNCHANGED Filled
    <3>1. CASE Lock(t) \/ Find(t)
      BY <3>1 DEF Lock, Find, Filled
    <3>2. CASE FindOrMake(t)
      BY <3>2, ThreadSafeMapAssumption DEF FindOrMake, Filled, IndInv, TypeOK
    <3> QED
      BY <1>2, <3>1, <3>2
  <2> QED
    BY <2>1, <2>2, <2>3, Stutter
<1>3. ASSUME NEW t \in Thread,
             Assign(t) \/ Erase(t) \/ FindNothing(t) \/ Copy(t) \/ GetSize(t)
      PROVE  Map!Next
  BY <1>3, AssignRefines, EraseRefines, LookRefines DEF Map!Next
<1>4. ASSUME NEW t \in Thread, Return(t)
      PROVE  Map!Next
  <2>1. /\ pc[t] = "leaving" /\ pc' = [pc EXCEPT ![t] = "idle"]
        /\ UNCHANGED <<map_, call, answer>>
    BY <1>4 DEF Return, Goto
  <2>2. Phase[t] = "taken" /\ Phase' = [Phase EXCEPT ![t] = "idle"]
    BY <2>1, PhaseMoves DEF Phase
  <2>3. UNCHANGED Filled
    BY <2>1 DEF Filled
  <2> QED
    BY <2>1, <2>2, <2>3 DEF Map!Next, Map!Return
<1>5. CASE UNCHANGED vars
  BY <1>5 DEF vars, Filled, Phase, Map!vars
<1> QED
  BY <1>1, <1>2, <1>3, <1>4, <1>5 DEF Next, Proceed

\* ThreadSafeMap (thread_safe_map.h:17-44) is atomic: every call takes effect
\* at one moment between its start and its return.
THEOREM AtomicMapIsImplemented == Spec => ImplementsAtomicMap
<1>1. Init => Map!Init
  BY ThreadSafeMapAssumption
  DEF Init, Map!Init, Filled, Phase, NoCall, Map!NoCall, NoAnswer, Map!NoAnswer
<1>2. IndInv /\ [Next]_vars => [Map!Next]_(Map!vars)
  BY StepRefines
<1> QED
  BY <1>1, <1>2, Invariance, PTL DEF Spec, ImplementsAtomicMap, Map!Spec
=============================================================================
