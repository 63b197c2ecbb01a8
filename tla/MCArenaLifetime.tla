-------------------------- MODULE MCArenaLifetime --------------------------
(* A main thread, which also registers and removes arenas under an id of its own, and
   a managed worker.  Three registrations let that id be used again while something
   still refers to its first registration; one managed id is outside the bitset. *)
EXTENDS ArenaLifetime

CONSTANTS main, worker, host

MCThreads == {main, worker}
MCWorkers == {worker}
MCHostIds == {host}
MCFast == {1, host}

=============================================================================
