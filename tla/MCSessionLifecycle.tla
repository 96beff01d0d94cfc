------------------------ MODULE MCSessionLifecycle ------------------------
(* Instances of SessionLifecycle for TLC.  Sessions are interchangeable.   *)
EXTENDS SessionLifecycle, TLC

MCSymmetry == Permutations(Session)

\* Once an event is refused nothing is offered any more: what the receiver knew
\* and which event it was count only through OtherEventsAccepted.
MCView ==
  <<lifecycle, state, mutation, runtime, endVars, erred, failures,
    IF refused = NoEvent THEN <<cloud>> ELSE <<OtherEventsAccepted>> >>

=============================================================================
