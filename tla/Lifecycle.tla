------------------------------ MODULE Lifecycle ------------------------------
(***************************************************************************)
(* What the rest of the server sees of one connection: one step for each   *)
(* callback that the reactor runs, each of them leaving the object and its *)
(* registration in agreement. HttpServer composes its connections of such  *)
(* steps, ClientConnection takes them system call by system call; both are *)
(* shown to implement this specification.                                  *)
(***************************************************************************)

VARIABLES
  life,     \* "absent", "reading", "writing" or "deleted"
  watch,    \* what epoll watches the socket for: "none", "in" or "out"
  serving   \* the reactor is running

lvars == <<life, watch, serving>>

\* Before the connection is accepted, or right after it.
Init ==
  /\ serving = TRUE
  /\ \/ life = "absent" /\ watch = "none"
     \/ life = "reading" /\ watch = "in"

\* The connection gets an object. If the registration fails, no event will
\* ever reach it.
Accept ==
  /\ serving /\ life = "absent"
  /\ life' = "reading"
  /\ watch' \in {"in", "none"}
  /\ UNCHANGED serving

\* A callback that returns with an answer to send. There is no way back.
Respond ==
  /\ serving /\ life = "reading" /\ watch = "in"
  /\ life' = "writing" /\ watch' = "out"
  /\ UNCHANGED serving

\* A callback that deletes the object: it runs for a watched socket only.
End ==
  /\ serving
  /\ <<life, watch>> \in {<<"reading", "in">>, <<"writing", "out">>}
  /\ life' = "deleted" /\ watch' = "none"
  /\ UNCHANGED serving

\* The loop is left or the process dies, in this connection's callback or
\* elsewhere. A callback that does not return has done nothing.
Stop ==
  /\ serving
  /\ serving' = FALSE
  /\ UNCHANGED <<life, watch>>

Next == Accept \/ Respond \/ End \/ Stop

Spec == Init /\ [][Next]_lvars
=============================================================================
