----------------------------- MODULE AtomicMap -----------------------------
(***************************************************************************)
(* What ThreadSafeMap (include/thread_safe_map.h) promises its callers:    *)
(* each call takes effect at one moment between its start and its return,  *)
(* and its answer is right for that moment.                                *)
(***************************************************************************)
EXTENDS Integers

CONSTANTS
  Thread, Key, Val,
  Absent,   \* no entry; no key or value in a call or an answer
  Size(_)   \* the number of elements of a set of keys

VARIABLES
  map,      \* the entries
  phase,    \* of each thread: "idle", "called" or "taken" (effect)
  call,     \* the call it makes or made last
  answer    \* what that call returned

vars == <<map, phase, call, answer>>

Calls ==
  [op : {"insert"}, key : Key, val : Val]
    \cup [op : {"remove", "get"}, key : Key, val : {Absent}]
    \cup [op : {"getSize"}, key : {Absent}, val : {Absent}]

\* What stands for the last call of a thread that has made none.
NoCall == [op |-> "getSize", key |-> Absent, val |-> Absent]

\* The returned bool, the value copied out, and the returned size.
NoAnswer == [ok |-> FALSE, val |-> Absent, size |-> 0]

Entries(m) == {k \in Key : m[k] # Absent}

\* The entries after a call, and its answer.
After(m, c) ==
  CASE c.op = "insert" -> [m EXCEPT ![c.key] = c.val]
    [] c.op = "remove" -> [m EXCEPT ![c.key] = Absent]
    [] OTHER -> m

Answer(m, c) ==
  [ok   |-> c.op \in {"remove", "get"} /\ c.key \in Entries(m),
   val  |-> IF c.op = "get" THEN m[c.key] ELSE Absent,
   size |-> IF c.op = "getSize" THEN Size(Entries(m)) ELSE 0]

Init ==
  /\ map = [k \in Key |-> Absent]
  /\ phase = [t \in Thread |-> "idle"]
  /\ call = [t \in Thread |-> NoCall]
  /\ answer = [t \in Thread |-> NoAnswer]

Invoke(t) ==
  /\ phase[t] = "idle"
  /\ phase' = [phase EXCEPT ![t] = "called"]
  /\ \E c \in Calls : call' = [call EXCEPT ![t] = c]
  /\ UNCHANGED <<map, answer>>

Take(t) ==
  /\ phase[t] = "called"
  /\ phase' = [phase EXCEPT ![t] = "taken"]
  /\ map' = After(map, call[t])
  /\ answer' = [answer EXCEPT ![t] = Answer(map, call[t])]
  /\ UNCHANGED call

Return(t) ==
  /\ phase[t] = "taken"
  /\ phase' = [phase EXCEPT ![t] = "idle"]
  /\ UNCHANGED <<map, call, answer>>

Next == \E t \in Thread : Invoke(t) \/ Take(t) \/ Return(t)

Spec == Init /\ [][Next]_vars
=============================================================================
