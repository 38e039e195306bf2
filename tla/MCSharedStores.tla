---------------------------- MODULE MCSharedStores ----------------------------
(***************************************************************************)
(* What several processes of a node share: the database of the bulletins   *)
(* and the counters of the rate limiter in Redis.  The two have nothing to *)
(* do with each other and are explored one at a time: `store` is the one   *)
(* that is used, the other stays in an initial state.                      *)
(***************************************************************************)
EXTENDS BulletinStore, RateWindow, TLC

VARIABLE store

StoresInit ==
    /\ store \in {"bulletins", "counters"} /\ Init /\ RateInit
    /\ store # "bulletins" => bulletins = {}
    /\ store # "counters" => up

StoresNext ==
    /\ UNCHANGED store
    /\ \/ store = "bulletins" /\ Next /\ UNCHANGED rateVars
       \/ store = "counters" /\ RateNext /\ UNCHANGED vars

StoresSpec == StoresInit /\ [][StoresNext]_<<store, vars, rateVars>>

-----------------------------------------------------------------------------
\* The threads are in one process, or not.
Spread == [Request -> Worker]

Symmetry == Permutations(Procs) \cup Permutations(Publishers) \cup Permutations(Editions)
              \cup Permutations(Worker) \cup Permutations(Request)
=============================================================================
