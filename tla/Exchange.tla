------------------------------ MODULE Exchange ------------------------------
(***************************************************************************)
(* What one accepted connection promises its peer, with no socket, epoll   *)
(* or parser in it: the connection reads until it has an answer, hands the *)
(* answer's bytes to the transport in order, and is closed exactly once,   *)
(* as a success only when the whole answer was handed over.                *)
(* ClientConnection is shown to implement this specification.              *)
(***************************************************************************)
EXTENDS Integers, Sequences

CONSTANT RespLen   \* length of every serialized response, at least 1

VARIABLES
  phase,    \* "reading", "writing", "success" or "error"
  answer,   \* the request the answer belongs to, 0 before there is one
  wire      \* the bytes handed to the transport so far

evars == <<phase, answer, wire>>

\* The bytes of the answer to request r: byte i is the pair <<r, i>>.
Serialized(r) == [i \in 1..RespLen |-> <<r, i>>]

\* The first n bytes of the answer to request r.
PrefixOf(r, n) == SubSeq(Serialized(r), 1, n)

\* The answer becomes that of a later request.
NextAnswer == answer' \in Nat /\ answer' > answer

Init ==
  /\ phase = "reading"
  /\ answer = 0
  /\ wire = <<>>

\* A request is complete: from now on its answer is the one to be sent. A
\* later request may take its place as long as nothing was sent.
Answer ==
  /\ phase \in {"reading", "writing"}
  /\ wire = <<>>
  /\ NextAnswer
  /\ phase' = "writing"
  /\ UNCHANGED wire

\* More bytes of the answer are handed over; the last ones end the exchange.
Push ==
  /\ phase = "writing"
  /\ \E n \in (Len(wire) + 1)..RespLen :
       /\ wire' = PrefixOf(answer, n)
       /\ phase' = IF n = RespLen THEN "success" ELSE "writing"
  /\ UNCHANGED answer

\* The connection ends early. Requests parsed in the same step may still
\* have set the answer, of which then nothing was sent.
Fail ==
  /\ phase \in {"reading", "writing"}
  /\ phase' = "error"
  /\ \/ UNCHANGED answer
     \/ wire = <<>> /\ NextAnswer
  /\ UNCHANGED wire

Next == Answer \/ Push \/ Fail

Spec == Init /\ [][Next]_evars
=============================================================================
