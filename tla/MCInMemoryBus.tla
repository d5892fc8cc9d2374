--------------------------- MODULE MCInMemoryBus ---------------------------
(* Small instances of InMemoryBus for TLC. *)
EXTENDS InMemoryBus, TLC

Symmetry ==
    Permutations(Events) \cup Permutations(Publishers) \cup Permutations(Subscribers)

\* src/bus/in_memory.rs:160 says of the worker's end "Channel closed (all
\* senders dropped): remove ourselves", and subscriber_count is documented as
\* the number of currently registered subscribers.
UnsubscribedLeaves ==
    \A s \in Subscribers : worker[s] = "aborted" ~> s \notin subscribers
=============================================================================
