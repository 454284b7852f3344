--------------------------- MODULE MCCommandDelivery ---------------------------
(***************************************************************************)
(* Small instances of CommandDelivery for TLC.                             *)
(***************************************************************************)
EXTENDS CommandDelivery, TLC

\* One body, the same instant spelt otherwise, and another target.
Pause == [targetId |-> "a", updatedAt |-> <<1, "Z">>]
Respelt == [targetId |-> "a", updatedAt |-> <<1, "+00:00">>]
Other == [targetId |-> "b", updatedAt |-> <<1, "Z">>]

OneBody == {Pause}
Bodies == {Pause, Respelt, Other}

\* Every fault but the loss of a job's lock, which takes a second worker to
\* be interesting.
OneWorkerFaults == FaultKind \ {"lock_lost"}

\* Requests differ in what they ask for, workers in nothing.
Interchangeable == Permutations(Request) \union Permutations(Worker)
===============================================================================
