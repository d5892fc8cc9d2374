--------------------------- MODULE EventLifecycle ---------------------------
(***************************************************************************)
(* What a durable bus promises about one event, without rows, workers or    *)
(* clocks.  An event is queued by publishing it, taken up by a subscriber,  *)
(* and then either takes effect once (the handler returned Ok) or goes back *)
(* to the queue or to the dead letters.  An effect is never undone and      *)
(* never repeated: the only step out of "effected" is recording it.         *)
(***************************************************************************)
CONSTANTS Events

VARIABLE phase      \* phase[e]: how far event e has come

Phases == {"new", "queued", "running", "effected", "done", "dead"}

PhaseOK == phase \in [Events -> Phases]

Init == phase = [e \in Events |-> "new"]

Move(e, from, to) ==
    /\ phase[e] \in from
    /\ phase' = [phase EXCEPT ![e] = to]

Publish(e) == Move(e, {"new"}, "queued")
Start(e)   == Move(e, {"queued"}, "running")
Effect(e)  == Move(e, {"running"}, "effected")
Finish(e)  == Move(e, {"effected"}, "done")
Nack(e)    == Move(e, {"running"}, "queued")
Bury(e)    == Move(e, {"running"}, "dead")
Requeue(e) == Move(e, {"dead"}, "queued")
Discard(e) == Move(e, {"queued", "dead"}, "new")

Next ==
    \E e \in Events :
        \/ Publish(e) \/ Start(e) \/ Effect(e) \/ Finish(e)
        \/ Nack(e) \/ Bury(e) \/ Requeue(e) \/ Discard(e)

Spec == Init /\ [][Next]_phase
=============================================================================
