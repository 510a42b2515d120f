---------------------------- MODULE MCLifecycle ----------------------------
(***************************************************************************)
(* An instance of Lifecycle: QoS profiles.                                 *)
(***************************************************************************)
EXTENDS Lifecycle

Profile(history, depth) ==
  [history     |-> history,         depth      |-> depth,
   reliability |-> "BEST_EFFORT",   durability |-> "SYSTEM_DEFAULT",
   liveliness  |-> "AUTOMATIC",     deadline   |-> "SYSTEM_DEFAULT",
   lifespan    |-> "SYSTEM_DEFAULT", lease     |-> "SYSTEM_DEFAULT"]

\* A depth left to the middleware, and a history it refuses.
SomeProfiles == {Profile("KEEP_LAST", 0), Profile("KEEP_ALL", 1)}
=============================================================================
