--------------------------- MODULE ReactorRemoval ---------------------------
(***************************************************************************)
(* ReactorLib with a history of what the application has asked to remove,  *)
(* for the question whether reactorRun ends when no work is left.          *)
(***************************************************************************)
EXTENDS ReactorLib

\* The descriptors that removeTrack was called for since the last call that
\* registered them.
VARIABLE removed

RemovalInit == Init /\ removed = {}

OtherSteps ==
  \/ \E fd \in Fd :
       \/ AddTrackFails(fd) \/ ModifyTrackFails(fd) \/ Closes(fd) \/ Activity(fd)
       \/ \E s \in Sockets : Opens(fd, s)
  \/ Yields \/ Loops \/ Fetch \/ Interrupted

RemovalNext ==
  \/ \E fd \in Fd : RemoveTrack(fd) /\ removed' = removed \cup {fd}
  \/ \E fd \in Fd : Registers(fd) /\ removed' = removed \ {fd}
  \/ OtherSteps /\ UNCHANGED removed

RemovalSpec == RemovalInit /\ [][RemovalNext]_<<vars, removed>>

\* The loop waits in epoll_wait only while it has work: some descriptor is
\* registered that the application has not asked to remove since. Otherwise
\* reactorRun returns (reactor.h:117, :134-138).
WaitsForWork ==
  thread = "loop" /\ Drained /\ GetSize > 0 =>
    \E fd \in Fd : event_callback_[fd] # Nobody /\ fd \notin removed
=============================================================================
