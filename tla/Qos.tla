--------------------------------- MODULE Qos ---------------------------------
(***************************************************************************)
(* detail/qos.c: the profile an application asks for, adapted to what this *)
(* middleware supports.  Policies are strings; "SYSTEM_DEFAULT" stands for *)
(* both values, unknown included, that leave a policy to the middleware.   *)
(***************************************************************************)
EXTENDS Integers

Histories == {"SYSTEM_DEFAULT", "KEEP_LAST", "KEEP_ALL"}

QosProfiles == [history     : Histories, depth      : Nat,
                reliability : STRING,    durability : STRING,
                liveliness  : STRING,    deadline   : STRING,
                lifespan    : STRING,    lease      : STRING]

DefaultDepth == 42

\* A policy left to the middleware becomes default.
OrDefault(policy, default) == IF policy = "SYSTEM_DEFAULT" THEN default ELSE policy

\* rmw_zp_adapt_qos_profile refuses to keep all messages.
CanAdapt(profile) == profile.history # "KEEP_ALL"

AdaptKeepsDepth(profile) ==
  [profile EXCEPT !.history     = OrDefault(@, "KEEP_LAST"),
                  !.reliability = OrDefault(@, "RELIABLE"),
                  !.durability  = OrDefault(@, "TRANSIENT_LOCAL"),
                  !.liveliness  = OrDefault(@, "AUTOMATIC"),
                  !.deadline    = OrDefault(@, "INFINITE"),
                  !.lifespan    = OrDefault(@, "INFINITE"),
                  !.lease       = OrDefault(@, "INFINITE")]

\* The profile it makes of one it does not refuse.
Adapt(profile) ==
  [profile EXCEPT !.history     = OrDefault(@, "KEEP_LAST"),
                  !.depth       = IF @ = 0 THEN DefaultDepth ELSE @,
                  !.reliability = OrDefault(@, "RELIABLE"),
                  !.durability  = OrDefault(@, "TRANSIENT_LOCAL"),
                  !.liveliness  = OrDefault(@, "AUTOMATIC"),
                  !.deadline    = OrDefault(@, "INFINITE"),
                  !.lifespan    = OrDefault(@, "INFINITE"),
                  !.lease       = OrDefault(@, "INFINITE")]
=============================================================================
