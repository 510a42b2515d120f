--------------------------- MODULE LifecycleProofs ---------------------------
(***************************************************************************)
(* What holds of creating, destroying and shutting down, whatever profiles *)
(* applications ask for: first that the tables of Ownership are sound, by  *)
(* computing with them, then that this makes an inductive invariant.       *)
(***************************************************************************)
EXTENDS Lifecycle, TLAPS, SequenceTheorems

\* What must not be released before part: what it is reached through, and, as long
\* as callbacks come in, what they use.
Later(k, part) ==
  Container(k, part) \cup (IF part = "declaration" THEN HandlerUses(k) ELSE {})

IsList(s) == s \in Seq(Range(s))

\* A list of parts without repetition, in an order in which they can be released.
InOrder(k, list) ==
  /\ IsList(list)
  /\ \A i, j \in DOMAIN list : i < j => list[i] # list[j] /\ list[i] \notin Later(k, list[j])

-----------------------------------------------------------------------------
(* What the tables of Ownership promise.                                   *)

\* What the first n steps of a create function acquire.
Done(k, n) == {Steps[k][i].part : i \in 1 .. n}
Acquired(k, n) == Done(k, n) \ Checks

\* That the array of queries is there is never sure.
Sure(k, n) == Acquired(k, n) \ {"queries"}
Full(k) == Acquired(k, Len(Steps[k]))

\* What rmw_shutdown stops.
Tasks(k) == IF k = "context" THEN {"session", "read_task", "lease_task"} ELSE {}

\* What an entity surely has from its creation to its destruction, and at most.
Kept(k) == Full(k) \ ({"queries"} \cup Range(Temporaries(k)) \cup Tasks(k))
Most(k) == Full(k) \ Range(Temporaries(k))

\* Part may be released when has is there.
Releasable(k, part, has) ==
  /\ part \in has \cup NullIsFreed \/ (k = "init_options" /\ part = "enclave")
  /\ Container(k, part) \subseteq has

\* The parts whose release may leave them.
MayFail(k) == Fallible \cup ThroughState(k)

\* When step n fails, what it releases is there, and it releases all but the leaks; what
\* that may leave is a known leak too where no error is returned.
Undoes(k, n) ==
  LET step == Steps[k][n]
  IN  step.part \notin {"queries", "config"} =>
        /\ InOrder(k, step.undo)
        /\ \A p \in Range(step.undo) : p \in PartsOf(k) /\ Releasable(k, p, Sure(k, n - 1))
        /\ Acquired(k, n - 1) \ Range(step.undo) \subseteq KnownLeaks.unwind[k]
        /\ "declaration" \notin Acquired(k, n - 1)
        /\ step.part \in SilentFailures =>
             Range(step.undo) \cap MayFail(k) \subseteq KnownLeaks.unwind[k]

\* Step n comes after what it needs.
Follows(k, n) ==
  LET part == Steps[k][n].part
  IN  /\ part = "adapted_qos" => k \in OfNode
      /\ part = "declaration" /\ k \in {"subscription", "service"} =>
           HandlerUses(k) \subseteq Sure(k, n - 1) /\ "adapted_qos" \in Done(k, n - 1)
      /\ part \in {"read_task", "lease_task"} =>
           k = "context" /\ {"impl", "session"} \subseteq Sure(k, n - 1)

\* The strings a create function frees are there, and nobody needs them any more.
SettlesWell(k) ==
  LET list == Temporaries(k)
  IN  /\ InOrder(k, list)
      /\ Range(list) \subseteq
           Full(k) \ ({"queries", "declaration"} \cup Tasks(k) \cup HandlerUses(k)
                        \cup MayFail(k))
      /\ \A p \in Range(list) : Container(k, p) = {}

\* A destroy function releases what is there, and all but the leaks, of which is
\* what is stored in the entity.
DestroysWell(k) ==
  LET list == Releases[k]
  IN  /\ InOrder(k, list)
      /\ \A p \in Range(list) : p \notin Tasks(k) /\ Releasable(k, p, Kept(k))
      /\ Most(k) \ (Range(list) \cup Tasks(k)) \subseteq KnownLeaks.destroy[k]
      /\ Stored(k) \subseteq KnownLeaks.destroy[k]
      /\ Stored(k) \cap (Tasks(k) \cup {"declaration"}) = {}
      /\ \A p \in Range(list) \cap MayFail(k) :
           p \in KnownLeaks.destroy[k] \/ (p \in Fallible /\ k # "guard_condition")

Sound(k) == /\ IsList(Steps[k])
            /\ \A n \in 1 .. Len(Steps[k]) : Undoes(k, n) /\ Follows(k, n)
            /\ SettlesWell(k)
            /\ DestroysWell(k)
            /\ k = "context" => Tasks(k) \subseteq Full(k) /\ "impl" \in Kept(k)

-----------------------------------------------------------------------------
(* The inductive invariant.                                                *)

Parts == UNION {PartsOf(k) : k \in Kinds}

Types == /\ held \in [Kinds -> SUBSET Parts]
         /\ released \in [Kinds -> SUBSET Parts]
         /\ TypeOK
         /\ op = [kind |-> op.kind, phase |-> op.phase, todo |-> op.todo, ret |-> op.ret]
         /\ op.phase = "idle" => op = NoOp
         /\ op.phase = "crashed" => op.kind # "context"

\* An operation on k is in progress.
Busy(k) == op.phase # "idle" /\ op.kind = k

Absent(k) == held[k] = {} /\ released[k] = {}

Present(k) == /\ Kept(k) \subseteq held[k] /\ held[k] \subseteq Most(k)
              /\ released[k] \subseteq Tasks(k)

\* Between operations an entity is there or not.
AtRest == \A k \in Kinds : ~ Busy(k) => IF k \in live THEN Present(k) ELSE Absent(k)

\* n steps of a create function are done.
CreatedTo(n) ==
  LET k == op.kind
  IN  /\ op.todo = SubSeq(Steps[k], n + 1, Len(Steps[k]))
      /\ Sure(k, n) \subseteq held[k] /\ held[k] \subseteq Acquired(k, n)
      /\ k \in OfNode /\ "adapted_qos" \in Done(k, n) => capacity[k] >= 1

Creating ==
  op.phase = "create" =>
    /\ op.kind \notin live
    /\ released[op.kind] = {}
    /\ op.ret = "RMW_RET_OK"
    /\ \E n \in 0 .. Len(Steps[op.kind]) : CreatedTo(n)

\* What is left to release is there, and in an order in which it can be released.
Dismantling ==
  op.phase \in {"settle", "unwind", "destroy"} =>
    /\ InOrder(op.kind, op.todo)
    /\ Range(op.todo) \subseteq PartsOf(op.kind) \ released[op.kind]
    /\ \A p \in Range(op.todo) : Releasable(op.kind, p, held[op.kind])

Settling ==
  op.phase = "settle" =>
    /\ op.kind \notin live
    /\ Range(op.todo) \subseteq Range(Temporaries(op.kind))
    /\ released[op.kind] \subseteq Range(Temporaries(op.kind))
    /\ Kept(op.kind) \cup Tasks(op.kind) \subseteq held[op.kind]
    /\ held[op.kind] \ Range(op.todo) \subseteq Most(op.kind)

Unwinding ==
  op.phase = "unwind" =>
    /\ op.kind \notin live
    /\ held[op.kind] \ Range(op.todo) \subseteq
         KnownLeaks.unwind[op.kind] \cup Unreleased(op.kind)
    /\ "declaration" \notin held[op.kind]

Destroying ==
  op.phase = "destroy" =>
    /\ op.kind \in live
    /\ op.kind = "context" => is_shutdown
    /\ held[op.kind] \ Range(op.todo) \subseteq
         KnownLeaks.destroy[op.kind] \cup Unreleased(op.kind)

\* What is left to release is a known leak when its release fails, or an error is
\* returned then.
Tolerated ==
  op.phase \in {"unwind", "destroy"} =>
    \A p \in Range(op.todo) \cap MayFail(op.kind) :
      \/ p \in KnownLeaks[op.phase][op.kind]
      \/ op.ret = "RMW_RET_ERROR"
      \/ op.phase = "destroy" /\ p \in Fallible /\ op.kind # "guard_condition"

\* The session of a context that is live runs until rmw_shutdown stops it.
SessionRuns ==
  /\ shutting \in {ShutdownContext, <<"read_task", "session">>, <<"session">>, <<>>}
  /\ shutting # <<>> => "context" \in live /\ ~ is_shutdown
  /\ is_shutdown => "context" \in live
  /\ "context" \in live =>
       held["context"] \cap Tasks("context") =
         IF is_shutdown THEN {}
         ELSE IF shutting = <<>> THEN Tasks("context") ELSE Range(shutting)

\* DeclaredFindEntity, whether or not the read task runs.
Callable ==
  \A k \in {"subscription", "service"} :
    "declaration" \in held[k] \ released[k] => Reachable(k)

IInv == /\ Types
        /\ AtRest
        /\ Creating
        /\ Dismantling
        /\ Settling
        /\ Unwinding
        /\ Destroying
        /\ Tolerated
        /\ SessionRuns
        /\ Callable
        /\ TasksRunOnSession

-----------------------------------------------------------------------------
(* Lists.                                                                  *)

\* A tuple is a list of its elements.
LEMMA TupleIsList ==
  ASSUME NEW w, NEW n \in Nat, w = [i \in 1 .. n |-> w[i]]
  PROVE  IsList(w) /\ Len(w) = n
<1>1. DOMAIN w = 1 .. n
  OBVIOUS
<1>2. Range(w) = {w[i] : i \in 1 .. n}
  BY <1>1 DEF Range
<1>3. w \in [1 .. n -> Range(w)]
  BY <1>2
<1>4. w \in Seq(Range(w))
  BY <1>3, SeqDef
<1> QED BY <1>1, <1>2, <1>4, LenProperties DEF IsList

\* The elements of two lists, one after the other.
LEMMA ConcatList ==
  ASSUME NEW s, NEW t, IsList(s), IsList(t)
  PROVE  /\ IsList(s \o t) /\ Len(s \o t) = Len(s) + Len(t)
         /\ \A i \in 1 .. Len(s) + Len(t) :
              (s \o t)[i] = IF i <= Len(s) THEN s[i] ELSE t[i - Len(s)]
<1> DEFINE S == Range(s) \cup Range(t)
<1>0. s \in Seq(S) /\ t \in Seq(S)
  BY SeqMonotonic DEF IsList
<1> HIDE DEF S
<1>1. /\ s \o t \in Seq(S) /\ Len(s \o t) = Len(s) + Len(t)
      /\ \A i \in 1 .. Len(s) + Len(t) :
              (s \o t)[i] = IF i <= Len(s) THEN s[i] ELSE t[i - Len(s)]
  BY <1>0, ConcatProperties
<1> QED BY <1>1, SeqOfRange DEF IsList

\* The tuples of the tables.
LEMMA Tuple1 ==
  ASSUME NEW a
  PROVE  IsList(<<a>>) /\ Len(<<a>>) = 1
<1> DEFINE w == <<a>>
<1>1. w = [i \in 1 .. 1 |-> w[i]]
  OBVIOUS
<1> HIDE DEF w
<1> QED BY <1>1, TupleIsList DEF w

LEMMA Tuple2 ==
  ASSUME NEW a, NEW b
  PROVE  IsList(<<a, b>>) /\ Len(<<a, b>>) = 2
<1> DEFINE w == <<a, b>>
<1>1. w = [i \in 1 .. 2 |-> w[i]]
  OBVIOUS
<1> HIDE DEF w
<1> QED BY <1>1, TupleIsList DEF w

LEMMA Tuple3 ==
  ASSUME NEW a, NEW b, NEW c
  PROVE  IsList(<<a, b, c>>) /\ Len(<<a, b, c>>) = 3
<1> DEFINE w == <<a, b, c>>
<1>1. w = [i \in 1 .. 3 |-> w[i]]
  OBVIOUS
<1> HIDE DEF w
<1> QED BY <1>1, TupleIsList DEF w

LEMMA Tuple4 ==
  ASSUME NEW a, NEW b, NEW c, NEW d
  PROVE  IsList(<<a, b, c, d>>) /\ Len(<<a, b, c, d>>) = 4
<1> DEFINE w == <<a, b, c, d>>
<1>1. w = [i \in 1 .. 4 |-> w[i]]
  OBVIOUS
<1> HIDE DEF w
<1> QED BY <1>1, TupleIsList DEF w

LEMMA Tuple5 ==
  ASSUME NEW a, NEW b, NEW c, NEW d, NEW e
  PROVE  IsList(<<a, b, c, d, e>>) /\ Len(<<a, b, c, d, e>>) = 5
<1> DEFINE w == <<a, b, c, d, e>>
<1>1. w = [i \in 1 .. 5 |-> w[i]]
  OBVIOUS
<1> HIDE DEF w
<1> QED BY <1>1, TupleIsList DEF w

LEMMA Tuple6 ==
  ASSUME NEW a, NEW b, NEW c, NEW d, NEW e, NEW f
  PROVE  IsList(<<a, b, c, d, e, f>>) /\ Len(<<a, b, c, d, e, f>>) = 6
<1> DEFINE w == <<a, b, c, d, e, f>>
<1>1. w = [i \in 1 .. 6 |-> w[i]]
  OBVIOUS
<1> HIDE DEF w
<1> QED BY <1>1, TupleIsList DEF w

LEMMA Tuple7 ==
  ASSUME NEW a, NEW b, NEW c, NEW d, NEW e, NEW f, NEW g
  PROVE  IsList(<<a, b, c, d, e, f, g>>) /\ Len(<<a, b, c, d, e, f, g>>) = 7
<1> DEFINE w == <<a, b, c, d, e, f, g>>
<1>1. w = [i \in 1 .. 7 |-> w[i]]
  OBVIOUS
<1> HIDE DEF w
<1> QED BY <1>1, TupleIsList DEF w

\* A goto into a list in order leads to the rest of it.
LEMMA GotoInOrder ==
  ASSUME NEW k, NEW list, InOrder(k, list), NEW i \in 1 .. Len(list)
  PROVE  /\ InOrder(k, Goto(list, list[i]))
         /\ Range(Goto(list, list[i])) = {list[j] : j \in i .. Len(list)}
<1> DEFINE S == Range(list)
           rest == SubSeq(list, i, Len(list))
<1>1. list \in Seq(S) /\ Len(list) \in Nat /\ DOMAIN list = 1 .. Len(list)
  BY LenProperties DEF InOrder, IsList
<1>2. \A j \in DOMAIN list : list[j] = list[i] => j = i
  BY <1>1 DEF InOrder
<1>3. Goto(list, list[i]) = rest
  BY <1>1, <1>2 DEF Goto
<1> HIDE DEF S
<1>4. /\ rest \in Seq(S) /\ Len(rest) = Len(list) - i + 1
      /\ \A j \in 1 .. Len(list) - i + 1 : rest[j] = list[i + j - 1]
  <2>1. \A j \in i .. Len(list) : list[j] \in S
    BY <1>1, ElementOfSeq
  <2> QED BY <1>1, <2>1, SubSeqProperties
<1>5. DOMAIN rest = 1 .. Len(list) - i + 1 /\ IsList(rest)
  BY <1>4, LenProperties, SeqOfRange DEF IsList
<1> HIDE DEF rest
<1>6. InOrder(k, rest)
  <2> SUFFICES ASSUME NEW a \in DOMAIN rest, NEW b \in DOMAIN rest, a < b
               PROVE  rest[a] # rest[b] /\ rest[a] \notin Later(k, rest[b])
    BY <1>5 DEF InOrder
  <2>1. i + a - 1 \in DOMAIN list /\ i + b - 1 \in DOMAIN list /\ i + a - 1 < i + b - 1
    BY <1>1, <1>5
  <2> QED BY <1>4, <1>5, <2>1 DEF InOrder
<1>7. Range(rest) = {list[j] : j \in i .. Len(list)}
  <2>1. \A j \in i .. Len(list) : j - i + 1 \in DOMAIN rest /\ rest[j - i + 1] = list[j]
    BY <1>1, <1>4, <1>5
  <2>2. \A j \in DOMAIN rest : i + j - 1 \in i .. Len(list) /\ rest[j] = list[i + j - 1]
    BY <1>1, <1>4, <1>5
  <2>3. Range(rest) \subseteq {list[j] : j \in i .. Len(list)}
    BY <2>2 DEF Range
  <2>4. \A j \in i .. Len(list) : list[j] \in Range(rest)
    BY <2>1 DEF Range
  <2> QED BY <2>3, <2>4
<1> QED BY <1>3, <1>6, <1>7

\* What a goto releases: the part it names, then what a goto to the next releases.
LEMMA Gotos ==
  ASSUME NEW k, NEW list, InOrder(k, list)
  PROVE  \A i \in 1 .. Len(list) :
           /\ InOrder(k, Goto(list, list[i]))
           /\ Range(Goto(list, list[i])) =
                {list[i]} \cup (IF i = Len(list) THEN {} ELSE Range(Goto(list, list[i + 1])))
<1> SUFFICES ASSUME NEW i \in 1 .. Len(list)
             PROVE  /\ InOrder(k, Goto(list, list[i]))
                    /\ Range(Goto(list, list[i])) = {list[i]} \cup
                         (IF i = Len(list) THEN {} ELSE Range(Goto(list, list[i + 1])))
  OBVIOUS
<1>1. Len(list) \in Nat
  BY LenProperties DEF InOrder, IsList
<1>2. \A j \in 1 .. Len(list) :
        /\ InOrder(k, Goto(list, list[j]))
        /\ Range(Goto(list, list[j])) = {list[m] : m \in j .. Len(list)}
  BY GotoInOrder, Zenon
<1>3. /\ InOrder(k, Goto(list, list[i]))
      /\ Range(Goto(list, list[i])) = {list[j] : j \in i .. Len(list)}
  BY <1>2
<1>4. i # Len(list) =>
        Range(Goto(list, list[i + 1])) = {list[j] : j \in i + 1 .. Len(list)}
  <2>1. i # Len(list) => i + 1 \in 1 .. Len(list)
    BY <1>1
  <2> QED BY <1>2, <2>1
<1>5. i # Len(list) => i .. Len(list) = {i} \cup (i + 1 .. Len(list))
  BY <1>1
<1>6. i = Len(list) => i .. Len(list) = {i}
  BY <1>1
<1>7. CASE i = Len(list)
  BY <1>3, <1>6, <1>7
<1>8. CASE i # Len(list)
  <2>1. {list[j] : j \in i .. Len(list)} = {list[i]} \cup {list[j] : j \in i + 1 .. Len(list)}
    BY <1>5, <1>8
  <2> QED BY <1>3, <1>4, <1>8, <2>1
<1> QED BY <1>7, <1>8

\* Each step adds its part.
LEMMA DoneStep ==
  ASSUME NEW k
  PROVE  /\ Done(k, 0) = {}
         /\ \A n \in Nat \ {0} : Done(k, n) = Done(k, n - 1) \cup {Steps[k][n].part}
<1>1. Done(k, 0) = {}
  BY DEF Done
<1>2. ASSUME NEW n \in Nat \ {0} PROVE Done(k, n) = Done(k, n - 1) \cup {Steps[k][n].part}
  <2>1. 1 .. n = 1 .. n - 1 \cup {n}
    OBVIOUS
  <2> QED BY <2>1 DEF Done
<1> QED BY <1>1, <1>2

\* Where nothing was acquired, nothing is released.
LEMMA EmptyInOrder == \A k : InOrder(k, <<>>) /\ Range(<<>>) = {}
BY DEF InOrder, IsList, Range

\* The kinds, by name.
LEMMA KindsAre ==
  Kinds = {"init_options", "context", "node", "publisher", "subscription", "service",
           "client", "guard_condition", "wait_set"}
BY DEF Kinds, Steps

\* The strings that are freed.
LEMMA TemporariesAre ==
  /\ \A k \in {"publisher", "subscription"} :
       /\ Temporaries(k) = <<"keyexpr_c_str", "type_hash_c_str">>
       /\ InOrder(k, Temporaries(k))
       /\ Range(Temporaries(k)) = {"keyexpr_c_str", "type_hash_c_str"}
  /\ \A k \in {"service", "client"} :
       InOrder(k, Temporaries(k)) /\ Range(Temporaries(k)) = {"type_hash_c_str"}
  /\ \A k \in Kinds \ OfNode :
       InOrder(k, Temporaries(k)) /\ Range(Temporaries(k)) = {}
<1> DEFINE two == <<"keyexpr_c_str", "type_hash_c_str">>
           one == <<"type_hash_c_str">>
<1>1. /\ IsList(two) /\ DOMAIN two = 1 .. 2
      /\ IsList(one) /\ DOMAIN one = 1 .. 1
  BY Tuple1, Tuple2
<1>2. /\ Range(two) = {"keyexpr_c_str", "type_hash_c_str"}
      /\ Range(one) = {"type_hash_c_str"}
  BY DEF Range
<1>3. ASSUME NEW k \in {"publisher", "subscription"}
      PROVE  InOrder(k, two) /\ Temporaries(k) = two
  BY <1>1 DEF InOrder, Later, Container, Temporaries
<1>4. ASSUME NEW k \in {"service", "client"}
      PROVE  InOrder(k, one) /\ Temporaries(k) = one
  BY <1>1 DEF InOrder, Temporaries
<1>5. ASSUME NEW k \in Kinds \ OfNode
      PROVE  Temporaries(k) = <<>>
  BY DEF Temporaries, OfNode
<1> QED BY <1>2, <1>3, <1>4, <1>5, EmptyInOrder

\* The known leaks of each kind.
LEMMA KnownLeaksAre ==
  /\ \A k \in {"subscription", "service", "client", "node", "guard_condition", "init_options"} :
       KnownLeaks.unwind[k] = {}
  /\ KnownLeaks.unwind["publisher"] = {"type_support", "type_name"}
  /\ KnownLeaks.unwind["wait_set"] = {"data"}
  /\ KnownLeaks.unwind["context"] = {"options_impl", "read_task", "security", "discovery"}
  /\ \A k \in {"publisher", "node", "wait_set"} :
       KnownLeaks.destroy[k] = {} /\ Stored(k) = {}
  /\ KnownLeaks.destroy["subscription"] = {"payloads", "type_name"}
  /\ Stored("subscription") = {"payloads"}
  /\ KnownLeaks.destroy["service"] = {"payloads", "query_clones"}
  /\ Stored("service") = {"payloads", "query_clones"}
  /\ KnownLeaks.destroy["client"] = {"payloads"} /\ Stored("client") = {"payloads"}
  /\ KnownLeaks.destroy["guard_condition"] = {"internal_mutex"}
  /\ Stored("guard_condition") = {}
  /\ KnownLeaks.destroy["init_options"] = {"options_impl", "config"}
  /\ Stored("init_options") = {}
  /\ KnownLeaks.destroy["context"] = {"options_impl", "graph_guard_condition"}
  /\ Stored("context") = {}
BY DEF KnownLeaks, Kinds, Steps, Stored

\* The parts of a table.
LEMMA StepsPartsOf ==
  ASSUME NEW k, IsList(Steps[k])
  PROVE  /\ \A n \in 1 .. Len(Steps[k]) : Steps[k][n].part \in PartsOf(k)
         /\ Range(Releases[k]) \subseteq PartsOf(k)
<1>1. DOMAIN Steps[k] = 1 .. Len(Steps[k])
  BY LenProperties DEF IsList
<1>2. \A n \in 1 .. Len(Steps[k]) : Steps[k][n] \in Range(Steps[k])
  BY <1>1 DEF Range
<1> QED BY <1>2 DEF PartsOf

\* What is left of a list after n of its elements.
LEMMA RestOfList ==
  ASSUME NEW s, IsList(s), NEW n \in 0 .. Len(s)
  PROVE  LET rest == SubSeq(s, n + 1, Len(s))
         IN  /\ rest = <<>> <=> n = Len(s)
             /\ n < Len(s) => /\ Head(rest) = s[n + 1] /\ n + 1 \in 1 .. Len(s)
                              /\ Tail(rest) = SubSeq(s, n + 2, Len(s))
<1> DEFINE S == Range(s)
           rest == SubSeq(s, n + 1, Len(s))
<1>1. s \in Seq(S) /\ Len(s) \in Nat
  BY LenProperties DEF IsList
<1> HIDE DEF S
<1>2. /\ rest \in Seq(S) /\ Len(rest) = Len(s) - n
      /\ \A i \in 1 .. Len(s) - n : rest[i] = s[n + i]
  <2>1. \A i \in n + 1 .. Len(s) : s[i] \in S
    BY <1>1, ElementOfSeq
  <2>2. /\ rest \in Seq(S)
        /\ Len(rest) = Len(s) - n
        /\ \A i \in 1 .. Len(s) - n : rest[i] = s[n + 1 + i - 1]
    BY <1>1, <2>1, SubSeqProperties
  <2>3. \A i \in 1 .. Len(s) - n : n + 1 + i - 1 = n + i
    BY <1>1
  <2> QED BY <2>2, <2>3
<1>3. rest = <<>> <=> n = Len(s)
  <2>1. rest = <<>> <=> Len(rest) = 0
    BY <1>2, EmptySeq
  <2> QED BY <1>1, <1>2, <2>1
<1>4. n < Len(s) => /\ Head(rest) = s[n + 1] /\ n + 1 \in 1 .. Len(s)
                    /\ Tail(rest) = SubSeq(s, n + 2, Len(s))
  BY <1>1, HeadTailOfSubSeq
<1> QED BY <1>3, <1>4

\* What is left of a list in order is in order, and does not need what was first.
LEMMA TailInOrder ==
  ASSUME NEW k, NEW list, InOrder(k, list), list # <<>>
  PROVE  /\ InOrder(k, Tail(list))
         /\ Range(list) = {Head(list)} \cup Range(Tail(list))
         /\ Head(list) \notin Range(Tail(list))
         /\ \A q \in Range(Tail(list)) : Head(list) \notin Later(k, q)
<1> DEFINE S == Range(list)
           n == Len(list)
           rest == Tail(list)
<1>1. list \in Seq(S) /\ n \in Nat /\ DOMAIN list = 1 .. n
  BY LenProperties DEF InOrder, IsList
<1> HIDE DEF S
<1>2. /\ n >= 1 /\ 1 \in DOMAIN list /\ Head(list) = list[1]
      /\ rest \in Seq(S) /\ Len(rest) = n - 1
      /\ \A i \in 1 .. n - 1 : rest[i] = list[i + 1]
  BY <1>1, HeadTailProperties, EmptySeq
<1>3. DOMAIN rest = 1 .. n - 1 /\ \A i \in 1 .. n - 1 : i + 1 \in DOMAIN list /\ i + 1 > 1
  BY <1>1, <1>2, LenProperties
<1>4. IsList(rest)
  BY <1>2, SeqOfRange DEF IsList
<1> HIDE DEF rest, n
<1>5. InOrder(k, rest)
  <2> SUFFICES ASSUME NEW i \in 1 .. n - 1, NEW j \in 1 .. n - 1, i < j
               PROVE  rest[i] # rest[j] /\ rest[i] \notin Later(k, rest[j])
    BY <1>3, <1>4 DEF InOrder
  <2>1. i + 1 \in DOMAIN list /\ j + 1 \in DOMAIN list /\ i + 1 < j + 1
    BY <1>3
  <2> QED BY <1>2, <2>1 DEF InOrder
<1>6. ASSUME NEW i \in 1 .. n - 1
      PROVE  list[1] # rest[i] /\ list[1] \notin Later(k, rest[i])
  BY <1>2, <1>3 DEF InOrder
<1>7. Range(list) = {list[1]} \cup Range(rest)
  <2>1. \A i \in DOMAIN list : i = 1 \/ (i - 1 \in 1 .. n - 1 /\ (i - 1) + 1 = i)
    BY <1>1
  <2>2. \A i \in DOMAIN list : list[i] = list[1] \/ list[i] \in Range(rest)
    BY <1>2, <1>3, <2>1 DEF Range
  <2>3. \A i \in 1 .. n - 1 : rest[i] \in Range(list)
    BY <1>2, <1>3 DEF Range
  <2> QED BY <1>2, <1>3, <2>2, <2>3 DEF Range
<1> QED BY <1>2, <1>3, <1>5, <1>6, <1>7 DEF rest, Range

-----------------------------------------------------------------------------
(* Publisher: what its tables are, and that they are sound.                *)

\* Its labels are in order, and so is what each goto releases.
LEMMA PublisherUnwindIs ==
  LET list == PublisherUnwind
      ordered(part) == InOrder("publisher", Goto(list, part))
      rest(part) == Range(Goto(list, part))
  IN  /\ InOrder("publisher", list)
      /\ Range(list) = {"keyexpr_c_str", "type_hash_c_str", "type_name", "type_support",
                        "name", "sequence_number_mutex", "data", "handle"}
      /\ ordered("keyexpr_c_str") /\ ordered("type_hash_c_str") /\ ordered("type_name")
      /\ ordered("type_support") /\ ordered("name") /\ ordered("sequence_number_mutex")
      /\ ordered("data") /\ ordered("handle")
      /\ rest("handle") = {"handle"} /\ rest("data") = {"data"} \cup rest("handle")
      /\ rest("sequence_number_mutex") = {"sequence_number_mutex"} \cup rest("data")
      /\ rest("name") = {"name"} \cup rest("sequence_number_mutex")
      /\ rest("type_support") = {"type_support"} \cup rest("name")
      /\ rest("type_name") = {"type_name"} \cup rest("type_support")
      /\ rest("type_hash_c_str") = {"type_hash_c_str"} \cup rest("type_name")
      /\ rest("keyexpr_c_str") = {"keyexpr_c_str"} \cup rest("type_hash_c_str")
<1> DEFINE u == PublisherUnwind
<1>1. /\ IsList(u) /\ Len(u) = 8
      /\ u[1] = "keyexpr_c_str" /\ u[2] = "type_hash_c_str" /\ u[3] = "type_name"
      /\ u[4] = "type_support" /\ u[5] = "name" /\ u[6] = "sequence_number_mutex"
      /\ u[7] = "data" /\ u[8] = "handle"
  BY Tuple1, Tuple2, ConcatList DEF PublisherUnwind, TypeSupportFini, PublisherFini
<1>2. DOMAIN u = 1 .. 8
  BY <1>1, LenProperties DEF IsList
<1> HIDE DEF u
<1>3. InOrder("publisher", u)
  BY <1>1, <1>2 DEF InOrder, Later, Container, HandlerUses
<1>4. \A i \in 1 .. Len(u) :
        /\ InOrder("publisher", Goto(u, u[i]))
        /\ Range(Goto(u, u[i])) =
             {u[i]} \cup (IF i = Len(u) THEN {} ELSE Range(Goto(u, u[i + 1])))
  BY <1>3, Gotos
<1>5. /\ \A i \in 1 .. 8 : InOrder("publisher", Goto(u, u[i]))
      /\ \A i \in 1 .. 7 :
           Range(Goto(u, u[i])) = {u[i]} \cup Range(Goto(u, u[i + 1]))
      /\ Range(Goto(u, u[8])) = {u[8]}
  BY <1>1, <1>4
<1>6. Range(u) = {"keyexpr_c_str", "type_hash_c_str", "type_name", "type_support",
                  "name", "sequence_number_mutex", "data", "handle"}
  BY <1>1, <1>2 DEF Range
<1> QED BY <1>1, <1>3, <1>5, <1>6 DEF u

\* The steps of its create function, and where each goes when it fails.
LEMMA PublisherStepsAre ==
  LET s == Steps["publisher"]
      fail(part) == Goto(PublisherUnwind, part)
  IN  /\ IsList(s) /\ Len(s) = 10
      /\ s[1].part = "handle" /\ s[1].undo = <<>>
      /\ s[2].part = "data" /\ s[2].undo = fail("handle")
      /\ s[3].part = "adapted_qos" /\ s[3].undo = fail("data")
      /\ s[4].part = "sequence_number_mutex" /\ s[4].undo = fail("data")
      /\ s[5].part = "type_support" /\ s[5].undo = fail("name")
      /\ s[6].part = "type_name" /\ s[6].undo = fail("type_support")
      /\ s[7].part = "name" /\ s[7].undo = fail("sequence_number_mutex")
      /\ s[8].part = "type_hash_c_str" /\ s[8].undo = fail("type_name")
      /\ s[9].part = "keyexpr_c_str" /\ s[9].undo = fail("type_hash_c_str")
      /\ s[10].part = "declaration" /\ s[10].undo = fail("keyexpr_c_str")
BY Tuple2, Tuple6, ConcatList DEF Steps, CreatePublisher, PublisherInit, Get

\* What the first steps do, one after the other.
LEMMA PublisherDone ==
  LET done(n) == Done("publisher", n)
  IN  /\ done(0) = {} /\ done(1) = done(0) \cup {"handle"}
      /\ done(2) = done(1) \cup {"data"} /\ done(3) = done(2) \cup {"adapted_qos"}
      /\ done(4) = done(3) \cup {"sequence_number_mutex"}
      /\ done(5) = done(4) \cup {"type_support"} /\ done(6) = done(5) \cup {"type_name"}
      /\ done(7) = done(6) \cup {"name"} /\ done(8) = done(7) \cup {"type_hash_c_str"}
      /\ done(9) = done(8) \cup {"keyexpr_c_str"}
      /\ done(10) = done(9) \cup {"declaration"}
BY PublisherStepsAre, DoneStep

\* What its destroy function releases.
LEMMA PublisherReleasesAre ==
  LET list == Releases["publisher"]
  IN  /\ InOrder("publisher", list)
      /\ Range(list) = {"declaration", "type_name", "type_support", "name",
                        "sequence_number_mutex", "data", "handle"}
<1> DEFINE u == Releases["publisher"]
<1>1. /\ IsList(u) /\ Len(u) = 7
      /\ u[1] = "declaration" /\ u[2] = "type_name" /\ u[3] = "type_support"
      /\ u[4] = "name" /\ u[5] = "sequence_number_mutex" /\ u[6] = "data"
      /\ u[7] = "handle"
  BY Tuple1, Tuple2, ConcatList
     DEF Releases, DestroyPublisher, TypeSupportFini, PublisherFini
<1>2. DOMAIN u = 1 .. 7
  BY <1>1, LenProperties DEF IsList
<1> HIDE DEF u
<1>3. InOrder("publisher", u)
  BY <1>1, <1>2 DEF InOrder, Later, Container, HandlerUses
<1>4. Range(u) = {"declaration", "type_name", "type_support", "name",
                  "sequence_number_mutex", "data", "handle"}
  BY <1>1, <1>2 DEF Range
<1> QED BY <1>3, <1>4 DEF u

\* Whichever step fails, the right parts are released.
LEMMA PublisherUndoes == \A n \in 1 .. Len(Steps["publisher"]) : Undoes("publisher", n)
<1> DEFINE s == Steps["publisher"]
<1>0. {"handle", "data", "adapted_qos", "sequence_number_mutex", "type_support",
       "type_name", "name", "type_hash_c_str", "keyexpr_c_str",
       "declaration"} \subseteq PartsOf("publisher")
  <2>1. \A n \in 1 .. 10 : s[n].part \in PartsOf("publisher")
    BY PublisherStepsAre, StepsPartsOf
  <2> QED BY <2>1, PublisherStepsAre
<1> USE PublisherDone, KnownLeaksAre
    DEF Undoes, Sure, Acquired, Checks, Releasable, Container, NullIsFreed, SilentFailures
<1>1. Undoes("publisher", 1)
  <2>1. s[1].part = "handle" /\ s[1].undo = <<>>
    BY PublisherStepsAre
  <2> QED BY <1>0, <2>1, EmptyInOrder
<1>2. Undoes("publisher", 2)
  <2>1. s[2].part = "data" /\ s[2].undo = Goto(PublisherUnwind, "handle")
    BY PublisherStepsAre
  <2> QED BY <1>0, <2>1, PublisherUnwindIs
<1>3. Undoes("publisher", 3)
  <2>1. s[3].part = "adapted_qos" /\ s[3].undo = Goto(PublisherUnwind, "data")
    BY PublisherStepsAre
  <2> QED BY <1>0, <2>1, PublisherUnwindIs
<1>4. Undoes("publisher", 4)
  <2>1. s[4].part = "sequence_number_mutex" /\ s[4].undo = Goto(PublisherUnwind, "data")
    BY PublisherStepsAre
  <2> QED BY <1>0, <2>1, PublisherUnwindIs
<1>5. Undoes("publisher", 5)
  <2>1. s[5].part = "type_support" /\ s[5].undo = Goto(PublisherUnwind, "name")
    BY PublisherStepsAre
  <2> QED BY <1>0, <2>1, PublisherUnwindIs
<1>6. Undoes("publisher", 6)
  <2>1. s[6].part = "type_name" /\ s[6].undo = Goto(PublisherUnwind, "type_support")
    BY PublisherStepsAre
  <2> QED BY <1>0, <2>1, PublisherUnwindIs
<1>7. Undoes("publisher", 7)
  <2>1. s[7].part = "name" /\ s[7].undo = Goto(PublisherUnwind, "sequence_number_mutex")
    BY PublisherStepsAre
  <2> QED BY <1>0, <2>1, PublisherUnwindIs
<1>8. Undoes("publisher", 8)
  <2>1. s[8].part = "type_hash_c_str" /\ s[8].undo = Goto(PublisherUnwind, "type_name")
    BY PublisherStepsAre
  <2> QED BY <1>0, <2>1, PublisherUnwindIs
<1>9. Undoes("publisher", 9)
  <2>1. s[9].part = "keyexpr_c_str" /\ s[9].undo = Goto(PublisherUnwind, "type_hash_c_str")
    BY PublisherStepsAre
  <2> QED BY <1>0, <2>1, PublisherUnwindIs
<1>10. Undoes("publisher", 10)
  <2>1. s[10].part = "declaration" /\ s[10].undo = Goto(PublisherUnwind, "keyexpr_c_str")
    BY PublisherStepsAre
  <2> QED BY <1>0, <2>1, PublisherUnwindIs
<1> HIDE DEF Undoes
<1> QED
  BY PublisherStepsAre, <1>1, <1>2, <1>3, <1>4, <1>5, <1>6, <1>7, <1>8, <1>9, <1>10

\* Every step comes after what it needs.
LEMMA PublisherFollows == \A n \in 1 .. Len(Steps["publisher"]) : Follows("publisher", n)
<1> USE DEF Follows, Sure, Acquired, Checks, HandlerUses, OfNode
<1>1. /\ Follows("publisher", 1) /\ Follows("publisher", 2) /\ Follows("publisher", 3)
      /\ Follows("publisher", 4) /\ Follows("publisher", 5) /\ Follows("publisher", 6)
      /\ Follows("publisher", 7) /\ Follows("publisher", 8) /\ Follows("publisher", 9)
      /\ Follows("publisher", 10)
  BY PublisherStepsAre, PublisherDone
<1> HIDE DEF Follows
<1> QED BY <1>1, PublisherStepsAre

\* So its tables are sound.
LEMMA PublisherIsSound == Sound("publisher")
<1>1. Full("publisher") = {"handle", "data", "sequence_number_mutex", "type_support",
                           "type_name", "name", "type_hash_c_str", "keyexpr_c_str",
                           "declaration"}
  <2>1. Len(Steps["publisher"]) = 10
    BY PublisherStepsAre
  <2> QED BY <2>1, PublisherDone DEF Full, Acquired, Checks
<1>2. /\ InOrder("publisher", Temporaries("publisher"))
      /\ Range(Temporaries("publisher")) = {"keyexpr_c_str", "type_hash_c_str"}
      /\ Tasks("publisher") = {}
  BY TemporariesAre, KindsAre DEF OfNode, Tasks
<1>3. SettlesWell("publisher")
  BY <1>1, <1>2 DEF SettlesWell, HandlerUses, Container, MayFail, ThroughState, Fallible, Mutexes
<1>4. DestroysWell("publisher")
  BY <1>1, <1>2, PublisherReleasesAre, KnownLeaksAre
     DEF DestroysWell, Releasable, NullIsFreed, Container, Kept, Most,
         MayFail, ThroughState, Fallible, Mutexes
<1> QED
  BY <1>3, <1>4, PublisherStepsAre, PublisherUndoes, PublisherFollows DEF Sound

-----------------------------------------------------------------------------
(* Subscription: what its tables are, and that they are sound.             *)

\* Its labels are in order, and so is what each goto releases.
LEMMA SubscriptionUnwindIs ==
  LET list == SubscriptionUnwind
      ordered(part) == InOrder("subscription", Goto(list, part))
      rest(part) == Range(Goto(list, part))
  IN  /\ InOrder("subscription", list)
      /\ Range(list) = {"keyexpr_c_str", "type_hash_c_str", "name", "type_name",
                        "type_support", "condition_mutex", "messages",
                        "message_queue_mutex", "data", "handle"}
      /\ ordered("keyexpr_c_str") /\ ordered("type_hash_c_str") /\ ordered("name")
      /\ ordered("type_name") /\ ordered("type_support") /\ ordered("condition_mutex")
      /\ ordered("messages") /\ ordered("message_queue_mutex") /\ ordered("data")
      /\ ordered("handle")
      /\ rest("handle") = {"handle"} /\ rest("data") = {"data"} \cup rest("handle")
      /\ rest("message_queue_mutex") = {"message_queue_mutex"} \cup rest("data")
      /\ rest("messages") = {"messages"} \cup rest("message_queue_mutex")
      /\ rest("condition_mutex") = {"condition_mutex"} \cup rest("messages")
      /\ rest("type_support") = {"type_support"} \cup rest("condition_mutex")
      /\ rest("type_name") = {"type_name"} \cup rest("type_support")
      /\ rest("name") = {"name"} \cup rest("type_name")
      /\ rest("type_hash_c_str") = {"type_hash_c_str"} \cup rest("name")
      /\ rest("keyexpr_c_str") = {"keyexpr_c_str"} \cup rest("type_hash_c_str")
<1> DEFINE u == SubscriptionUnwind
<1>1. /\ IsList(u) /\ Len(u) = 10
      /\ u[1] = "keyexpr_c_str" /\ u[2] = "type_hash_c_str" /\ u[3] = "name"
      /\ u[4] = "type_name" /\ u[5] = "type_support" /\ u[6] = "condition_mutex"
      /\ u[7] = "messages" /\ u[8] = "message_queue_mutex" /\ u[9] = "data"
      /\ u[10] = "handle"
  BY Tuple1, Tuple2, Tuple3, ConcatList
     DEF SubscriptionUnwind, TypeSupportFini, SubscriptionFini
<1>2. DOMAIN u = 1 .. 10
  BY <1>1, LenProperties DEF IsList
<1> HIDE DEF u
<1>3. InOrder("subscription", u)
  BY <1>1, <1>2 DEF InOrder, Later, Container, HandlerUses
<1>4. \A i \in 1 .. Len(u) :
        /\ InOrder("subscription", Goto(u, u[i]))
        /\ Range(Goto(u, u[i])) =
             {u[i]} \cup (IF i = Len(u) THEN {} ELSE Range(Goto(u, u[i + 1])))
  BY <1>3, Gotos
<1>5. /\ \A i \in 1 .. 10 : InOrder("subscription", Goto(u, u[i]))
      /\ \A i \in 1 .. 9 :
           Range(Goto(u, u[i])) = {u[i]} \cup Range(Goto(u, u[i + 1]))
      /\ Range(Goto(u, u[10])) = {u[10]}
  BY <1>1, <1>4
<1>6. Range(u) = {"keyexpr_c_str", "type_hash_c_str", "name", "type_name",
                  "type_support", "condition_mutex", "messages", "message_queue_mutex",
                  "data", "handle"}
  BY <1>1, <1>2 DEF Range
<1> QED BY <1>1, <1>3, <1>5, <1>6 DEF u

\* The steps of its create function, and where each goes when it fails.
LEMMA SubscriptionStepsAre ==
  LET s == Steps["subscription"]
      fail(part) == Goto(SubscriptionUnwind, part)
  IN  /\ IsList(s) /\ Len(s) = 12
      /\ s[1].part = "handle" /\ s[1].undo = <<>>
      /\ s[2].part = "data" /\ s[2].undo = fail("handle")
      /\ s[3].part = "adapted_qos" /\ s[3].undo = fail("data")
      /\ s[4].part = "message_queue_mutex" /\ s[4].undo = fail("data")
      /\ s[5].part = "messages" /\ s[5].undo = fail("message_queue_mutex")
      /\ s[6].part = "condition_mutex" /\ s[6].undo = fail("messages")
      /\ s[7].part = "type_support" /\ s[7].undo = fail("condition_mutex")
      /\ s[8].part = "type_name" /\ s[8].undo = fail("type_support")
      /\ s[9].part = "name" /\ s[9].undo = fail("type_name")
      /\ s[10].part = "type_hash_c_str" /\ s[10].undo = fail("name")
      /\ s[11].part = "keyexpr_c_str" /\ s[11].undo = fail("type_hash_c_str")
      /\ s[12].part = "declaration" /\ s[12].undo = fail("keyexpr_c_str")
BY Tuple2, Tuple4, Tuple6, ConcatList DEF Steps, CreateSubscription, SubscriptionInit, Get

\* What the first steps do, one after the other.
LEMMA SubscriptionDone ==
  LET done(n) == Done("subscription", n)
  IN  /\ done(0) = {} /\ done(1) = done(0) \cup {"handle"}
      /\ done(2) = done(1) \cup {"data"} /\ done(3) = done(2) \cup {"adapted_qos"}
      /\ done(4) = done(3) \cup {"message_queue_mutex"}
      /\ done(5) = done(4) \cup {"messages"}
      /\ done(6) = done(5) \cup {"condition_mutex"}
      /\ done(7) = done(6) \cup {"type_support"} /\ done(8) = done(7) \cup {"type_name"}
      /\ done(9) = done(8) \cup {"name"} /\ done(10) = done(9) \cup {"type_hash_c_str"}
      /\ done(11) = done(10) \cup {"keyexpr_c_str"}
      /\ done(12) = done(11) \cup {"declaration"}
BY SubscriptionStepsAre, DoneStep

\* What its destroy function releases.
LEMMA SubscriptionReleasesAre ==
  LET list == Releases["subscription"]
  IN  /\ InOrder("subscription", list)
      /\ Range(list) = {"declaration", "name", "type_name", "type_support",
                        "condition_mutex", "messages", "message_queue_mutex", "data",
                        "handle"}
<1> DEFINE u == Releases["subscription"]
<1>1. /\ IsList(u) /\ Len(u) = 9
      /\ u[1] = "declaration" /\ u[2] = "name" /\ u[3] = "type_name"
      /\ u[4] = "type_support" /\ u[5] = "condition_mutex" /\ u[6] = "messages"
      /\ u[7] = "message_queue_mutex" /\ u[8] = "data" /\ u[9] = "handle"
  BY Tuple1, Tuple2, Tuple3, ConcatList
     DEF Releases, DestroySubscription, TypeSupportFini, SubscriptionFini
<1>2. DOMAIN u = 1 .. 9
  BY <1>1, LenProperties DEF IsList
<1> HIDE DEF u
<1>3. InOrder("subscription", u)
  BY <1>1, <1>2 DEF InOrder, Later, Container, HandlerUses
<1>4. Range(u) = {"declaration", "name", "type_name", "type_support", "condition_mutex",
                  "messages", "message_queue_mutex", "data", "handle"}
  BY <1>1, <1>2 DEF Range
<1> QED BY <1>3, <1>4 DEF u

\* Whichever step fails, the right parts are released.
LEMMA SubscriptionUndoes ==
  \A n \in 1 .. Len(Steps["subscription"]) : Undoes("subscription", n)
<1> DEFINE s == Steps["subscription"]
<1>0. {"handle", "data", "adapted_qos", "message_queue_mutex", "messages",
       "condition_mutex", "type_support", "type_name", "name", "type_hash_c_str",
       "keyexpr_c_str", "declaration"} \subseteq PartsOf("subscription")
  <2>1. \A n \in 1 .. 12 : s[n].part \in PartsOf("subscription")
    BY SubscriptionStepsAre, StepsPartsOf
  <2> QED BY <2>1, SubscriptionStepsAre
<1> USE SubscriptionDone, KnownLeaksAre
    DEF Undoes, Sure, Acquired, Checks, Releasable, Container, NullIsFreed, SilentFailures
<1>1. Undoes("subscription", 1)
  <2>1. s[1].part = "handle" /\ s[1].undo = <<>>
    BY SubscriptionStepsAre
  <2> QED BY <1>0, <2>1, EmptyInOrder
<1>2. Undoes("subscription", 2)
  <2>1. s[2].part = "data" /\ s[2].undo = Goto(SubscriptionUnwind, "handle")
    BY SubscriptionStepsAre
  <2> QED BY <1>0, <2>1, SubscriptionUnwindIs
<1>3. Undoes("subscription", 3)
  <2>1. s[3].part = "adapted_qos" /\ s[3].undo = Goto(SubscriptionUnwind, "data")
    BY SubscriptionStepsAre
  <2> QED BY <1>0, <2>1, SubscriptionUnwindIs
<1>4. Undoes("subscription", 4)
  <2>1. s[4].part = "message_queue_mutex" /\ s[4].undo = Goto(SubscriptionUnwind, "data")
    BY SubscriptionStepsAre
  <2> QED BY <1>0, <2>1, SubscriptionUnwindIs
<1>5. Undoes("subscription", 5)
  <2>1. /\ s[5].part = "messages"
        /\ s[5].undo = Goto(SubscriptionUnwind, "message_queue_mutex")
    BY SubscriptionStepsAre
  <2> QED BY <1>0, <2>1, SubscriptionUnwindIs
<1>6. Undoes("subscription", 6)
  <2>1. s[6].part = "condition_mutex" /\ s[6].undo = Goto(SubscriptionUnwind, "messages")
    BY SubscriptionStepsAre
  <2> QED BY <1>0, <2>1, SubscriptionUnwindIs
<1>7. Undoes("subscription", 7)
  <2>1. /\ s[7].part = "type_support"
        /\ s[7].undo = Goto(SubscriptionUnwind, "condition_mutex")
    BY SubscriptionStepsAre
  <2> QED BY <1>0, <2>1, SubscriptionUnwindIs
<1>8. Undoes("subscription", 8)
  <2>1. s[8].part = "type_name" /\ s[8].undo = Goto(SubscriptionUnwind, "type_support")
    BY SubscriptionStepsAre
  <2> QED BY <1>0, <2>1, SubscriptionUnwindIs
<1>9. Undoes("subscription", 9)
  <2>1. s[9].part = "name" /\ s[9].undo = Goto(SubscriptionUnwind, "type_name")
    BY SubscriptionStepsAre
  <2> QED BY <1>0, <2>1, SubscriptionUnwindIs
<1>10. Undoes("subscription", 10)
  <2>1. s[10].part = "type_hash_c_str" /\ s[10].undo = Goto(SubscriptionUnwind, "name")
    BY SubscriptionStepsAre
  <2> QED BY <1>0, <2>1, SubscriptionUnwindIs
<1>11. Undoes("subscription", 11)
  <2>1. /\ s[11].part = "keyexpr_c_str"
        /\ s[11].undo = Goto(SubscriptionUnwind, "type_hash_c_str")
    BY SubscriptionStepsAre
  <2> QED BY <1>0, <2>1, SubscriptionUnwindIs
<1>12. Undoes("subscription", 12)
  <2>1. s[12].part = "declaration" /\ s[12].undo = Goto(SubscriptionUnwind, "keyexpr_c_str")
    BY SubscriptionStepsAre
  <2> QED BY <1>0, <2>1, SubscriptionUnwindIs
<1> HIDE DEF Undoes
<1> QED
  BY SubscriptionStepsAre, <1>1, <1>2, <1>3, <1>4, <1>5, <1>6, <1>7, <1>8, <1>9, <1>10,
     <1>11, <1>12

\* Every step comes after what it needs.
LEMMA SubscriptionFollows ==
  \A n \in 1 .. Len(Steps["subscription"]) : Follows("subscription", n)
<1> USE DEF Follows, Sure, Acquired, Checks, HandlerUses, OfNode
<1>1. /\ Follows("subscription", 1) /\ Follows("subscription", 2)
      /\ Follows("subscription", 3) /\ Follows("subscription", 4)
      /\ Follows("subscription", 5) /\ Follows("subscription", 6)
      /\ Follows("subscription", 7) /\ Follows("subscription", 8)
      /\ Follows("subscription", 9) /\ Follows("subscription", 10)
      /\ Follows("subscription", 11)
  BY SubscriptionStepsAre, SubscriptionDone
<1>2. Follows("subscription", 12)
  <2>1. Steps["subscription"][12].part = "declaration"
    BY SubscriptionStepsAre
  <2> QED BY <2>1, SubscriptionDone
<1> HIDE DEF Follows
<1> QED BY <1>1, <1>2, SubscriptionStepsAre

\* So its tables are sound.
LEMMA SubscriptionIsSound == Sound("subscription")
<1>1. Full("subscription") = {"handle", "data", "message_queue_mutex", "messages",
                              "condition_mutex", "type_support", "type_name", "name",
                              "type_hash_c_str", "keyexpr_c_str", "declaration"}
  <2>1. Len(Steps["subscription"]) = 12
    BY SubscriptionStepsAre
  <2> QED BY <2>1, SubscriptionDone DEF Full, Acquired, Checks
<1>2. /\ InOrder("subscription", Temporaries("subscription"))
      /\ Range(Temporaries("subscription")) = {"keyexpr_c_str", "type_hash_c_str"}
      /\ Tasks("subscription") = {}
  BY TemporariesAre, KindsAre DEF OfNode, Tasks
<1>3. SettlesWell("subscription")
  BY <1>1, <1>2 DEF SettlesWell, HandlerUses, Container, MayFail, ThroughState, Fallible, Mutexes
<1>4. DestroysWell("subscription")
  BY <1>1, <1>2, SubscriptionReleasesAre, KnownLeaksAre
     DEF DestroysWell, Releasable, NullIsFreed, Container, Kept, Most,
         MayFail, ThroughState, Fallible, Mutexes
<1> QED
  BY <1>3, <1>4, SubscriptionStepsAre, SubscriptionUndoes, SubscriptionFollows DEF Sound

-----------------------------------------------------------------------------
(* Service: what its tables are, and that they are sound.                  *)

\* Its labels are in order, and so is what each goto releases.
LEMMA ServiceUnwindIs ==
  LET list == ServiceUnwind
      ordered(part) == InOrder("service", Goto(list, part))
      rest(part) == Range(Goto(list, part))
  IN  /\ InOrder("service", list)
      /\ Range(list) = {"keyexpr_c_str", "type_hash_c_str", "name", "type_name",
                        "type_support", "condition_mutex", "message_queue_mutex", "keys",
                        "queries", "messages", "data", "handle"}
      /\ ordered("keyexpr_c_str") /\ ordered("type_hash_c_str") /\ ordered("name")
      /\ ordered("type_name") /\ ordered("type_support") /\ ordered("condition_mutex")
      /\ ordered("message_queue_mutex") /\ ordered("keys") /\ ordered("queries")
      /\ ordered("messages") /\ ordered("data") /\ ordered("handle")
      /\ rest("handle") = {"handle"} /\ rest("data") = {"data"} \cup rest("handle")
      /\ rest("messages") = {"messages"} \cup rest("data")
      /\ rest("queries") = {"queries"} \cup rest("messages")
      /\ rest("keys") = {"keys"} \cup rest("queries")
      /\ rest("message_queue_mutex") = {"message_queue_mutex"} \cup rest("keys")
      /\ rest("condition_mutex") = {"condition_mutex"} \cup rest("message_queue_mutex")
      /\ rest("type_support") = {"type_support"} \cup rest("condition_mutex")
      /\ rest("type_name") = {"type_name"} \cup rest("type_support")
      /\ rest("name") = {"name"} \cup rest("type_name")
      /\ rest("type_hash_c_str") = {"type_hash_c_str"} \cup rest("name")
      /\ rest("keyexpr_c_str") = {"keyexpr_c_str"} \cup rest("type_hash_c_str")
<1> DEFINE u == ServiceUnwind
<1>1. /\ IsList(u) /\ Len(u) = 12
      /\ u[1] = "keyexpr_c_str" /\ u[2] = "type_hash_c_str" /\ u[3] = "name"
      /\ u[4] = "type_name" /\ u[5] = "type_support" /\ u[6] = "condition_mutex"
      /\ u[7] = "message_queue_mutex" /\ u[8] = "keys" /\ u[9] = "queries"
      /\ u[10] = "messages" /\ u[11] = "data" /\ u[12] = "handle"
  BY Tuple1, Tuple2, Tuple3, ConcatList
     DEF ServiceUnwind, TypeSupportFini, ServiceFini, QueryMapFini
<1>2. DOMAIN u = 1 .. 12
  BY <1>1, LenProperties DEF IsList
<1> HIDE DEF u
<1>3. InOrder("service", u)
  BY <1>1, <1>2 DEF InOrder, Later, Container, HandlerUses
<1>4. \A i \in 1 .. Len(u) :
        /\ InOrder("service", Goto(u, u[i]))
        /\ Range(Goto(u, u[i])) =
             {u[i]} \cup (IF i = Len(u) THEN {} ELSE Range(Goto(u, u[i + 1])))
  BY <1>3, Gotos
<1>5. /\ \A i \in 1 .. 12 : InOrder("service", Goto(u, u[i]))
      /\ \A i \in 1 .. 11 :
           Range(Goto(u, u[i])) = {u[i]} \cup Range(Goto(u, u[i + 1]))
      /\ Range(Goto(u, u[12])) = {u[12]}
  BY <1>1, <1>4
<1>6. Range(u) = {"keyexpr_c_str", "type_hash_c_str", "name", "type_name",
                  "type_support", "condition_mutex", "message_queue_mutex", "keys",
                  "queries", "messages", "data", "handle"}
  BY <1>1, <1>2 DEF Range
<1> QED BY <1>1, <1>3, <1>5, <1>6 DEF u

\* The steps of its create function, and where each goes when it fails.
LEMMA ServiceStepsAre ==
  LET s == Steps["service"]
      fail(part) == Goto(ServiceUnwind, part)
  IN  /\ IsList(s) /\ Len(s) = 15
      /\ s[1].part = "handle" /\ s[1].undo = <<>>
      /\ s[2].part = "data" /\ s[2].undo = fail("handle")
      /\ s[3].part = "adapted_qos" /\ s[3].undo = fail("data")
      /\ s[4].part = "messages" /\ s[4].undo = fail("data")
      /\ s[5].part = "keys" /\ s[5].undo = fail("messages")
      /\ s[6].part = "queries" /\ s[6].undo = fail("keys")
      /\ s[7].part = "message_queue_mutex" /\ s[7].undo = fail("keys")
      /\ s[8].part = "condition_mutex" /\ s[8].undo = fail("message_queue_mutex")
      /\ s[9].part = "type_support" /\ s[9].undo = fail("condition_mutex")
      /\ s[10].part = "type_name" /\ s[10].undo = fail("type_support")
      /\ s[11].part = "name" /\ s[11].undo = fail("type_name")
      /\ s[12].part = "type_hash_c_str" /\ s[12].undo = fail("name")
      /\ s[13].part = "keyexpr_c_str" /\ s[13].undo = fail("type_hash_c_str")
      /\ s[14].part = "keyexpr" /\ s[14].undo = fail("keyexpr_c_str")
      /\ s[15].part = "declaration" /\ s[15].undo = fail("keyexpr_c_str")
BY Tuple2, Tuple6, Tuple7, ConcatList DEF Steps, CreateService, ServiceInit, Get

\* What the first steps do, one after the other.
LEMMA ServiceDone ==
  LET done(n) == Done("service", n)
  IN  /\ done(0) = {} /\ done(1) = done(0) \cup {"handle"}
      /\ done(2) = done(1) \cup {"data"} /\ done(3) = done(2) \cup {"adapted_qos"}
      /\ done(4) = done(3) \cup {"messages"} /\ done(5) = done(4) \cup {"keys"}
      /\ done(6) = done(5) \cup {"queries"}
      /\ done(7) = done(6) \cup {"message_queue_mutex"}
      /\ done(8) = done(7) \cup {"condition_mutex"}
      /\ done(9) = done(8) \cup {"type_support"}
      /\ done(10) = done(9) \cup {"type_name"} /\ done(11) = done(10) \cup {"name"}
      /\ done(12) = done(11) \cup {"type_hash_c_str"}
      /\ done(13) = done(12) \cup {"keyexpr_c_str"}
      /\ done(14) = done(13) \cup {"keyexpr"}
      /\ done(15) = done(14) \cup {"declaration"}
BY ServiceStepsAre, DoneStep

\* What its destroy function releases.
LEMMA ServiceReleasesAre ==
  LET list == Releases["service"]
  IN  /\ InOrder("service", list)
      /\ Range(list) = {"declaration", "keyexpr_c_str", "name", "type_name",
                        "type_support", "condition_mutex", "message_queue_mutex", "keys",
                        "queries", "messages", "data", "handle"}
<1> DEFINE u == Releases["service"]
<1>1. /\ IsList(u) /\ Len(u) = 12
      /\ u[1] = "declaration" /\ u[2] = "keyexpr_c_str" /\ u[3] = "name"
      /\ u[4] = "type_name" /\ u[5] = "type_support" /\ u[6] = "condition_mutex"
      /\ u[7] = "message_queue_mutex" /\ u[8] = "keys" /\ u[9] = "queries"
      /\ u[10] = "messages" /\ u[11] = "data" /\ u[12] = "handle"
  BY Tuple1, Tuple2, Tuple3, ConcatList
     DEF Releases, DestroyService, TypeSupportFini, ServiceFini, QueryMapFini
<1>2. DOMAIN u = 1 .. 12
  BY <1>1, LenProperties DEF IsList
<1> HIDE DEF u
<1>3. InOrder("service", u)
  BY <1>1, <1>2 DEF InOrder, Later, Container, HandlerUses
<1>4. Range(u) = {"declaration", "keyexpr_c_str", "name", "type_name", "type_support",
                  "condition_mutex", "message_queue_mutex", "keys", "queries",
                  "messages", "data", "handle"}
  BY <1>1, <1>2 DEF Range
<1> QED BY <1>3, <1>4 DEF u

\* Whichever step fails, the right parts are released.
LEMMA ServiceUndoes == \A n \in 1 .. Len(Steps["service"]) : Undoes("service", n)
<1> DEFINE s == Steps["service"]
<1>0. {"handle", "data", "adapted_qos", "messages", "keys", "queries",
       "message_queue_mutex", "condition_mutex", "type_support", "type_name", "name",
       "type_hash_c_str", "keyexpr_c_str", "keyexpr",
       "declaration"} \subseteq PartsOf("service")
  <2>1. \A n \in 1 .. 15 : s[n].part \in PartsOf("service")
    BY ServiceStepsAre, StepsPartsOf
  <2> QED BY <2>1, ServiceStepsAre
<1> USE ServiceDone, KnownLeaksAre
    DEF Undoes, Sure, Acquired, Checks, Releasable, Container, NullIsFreed, SilentFailures
<1>1. Undoes("service", 1)
  <2>1. s[1].part = "handle" /\ s[1].undo = <<>>
    BY ServiceStepsAre
  <2> QED BY <1>0, <2>1, EmptyInOrder
<1>2. Undoes("service", 2)
  <2>1. s[2].part = "data" /\ s[2].undo = Goto(ServiceUnwind, "handle")
    BY ServiceStepsAre
  <2> QED BY <1>0, <2>1, ServiceUnwindIs
<1>3. Undoes("service", 3)
  <2>1. s[3].part = "adapted_qos" /\ s[3].undo = Goto(ServiceUnwind, "data")
    BY ServiceStepsAre
  <2> QED BY <1>0, <2>1, ServiceUnwindIs
<1>4. Undoes("service", 4)
  <2>1. s[4].part = "messages" /\ s[4].undo = Goto(ServiceUnwind, "data")
    BY ServiceStepsAre
  <2> QED BY <1>0, <2>1, ServiceUnwindIs
<1>5. Undoes("service", 5)
  <2>1. s[5].part = "keys" /\ s[5].undo = Goto(ServiceUnwind, "messages")
    BY ServiceStepsAre
  <2> QED BY <1>0, <2>1, ServiceUnwindIs
<1>6. Undoes("service", 6)
  <2>1. s[6].part = "queries" /\ s[6].undo = Goto(ServiceUnwind, "keys")
    BY ServiceStepsAre
  <2> QED BY <1>0, <2>1, ServiceUnwindIs
<1>7. Undoes("service", 7)
  <2>1. s[7].part = "message_queue_mutex" /\ s[7].undo = Goto(ServiceUnwind, "keys")
    BY ServiceStepsAre
  <2> QED BY <1>0, <2>1, ServiceUnwindIs
<1>8. Undoes("service", 8)
  <2>1. /\ s[8].part = "condition_mutex"
        /\ s[8].undo = Goto(ServiceUnwind, "message_queue_mutex")
    BY ServiceStepsAre
  <2> QED BY <1>0, <2>1, ServiceUnwindIs
<1>9. Undoes("service", 9)
  <2>1. s[9].part = "type_support" /\ s[9].undo = Goto(ServiceUnwind, "condition_mutex")
    BY ServiceStepsAre
  <2> QED BY <1>0, <2>1, ServiceUnwindIs
<1>10. Undoes("service", 10)
  <2>1. s[10].part = "type_name" /\ s[10].undo = Goto(ServiceUnwind, "type_support")
    BY ServiceStepsAre
  <2> QED BY <1>0, <2>1, ServiceUnwindIs
<1>11. Undoes("service", 11)
  <2>1. s[11].part = "name" /\ s[11].undo = Goto(ServiceUnwind, "type_name")
    BY ServiceStepsAre
  <2> QED BY <1>0, <2>1, ServiceUnwindIs
<1>12. Undoes("service", 12)
  <2>1. s[12].part = "type_hash_c_str" /\ s[12].undo = Goto(ServiceUnwind, "name")
    BY ServiceStepsAre
  <2> QED BY <1>0, <2>1, ServiceUnwindIs
<1>13. Undoes("service", 13)
  <2>1. s[13].part = "keyexpr_c_str" /\ s[13].undo = Goto(ServiceUnwind, "type_hash_c_str")
    BY ServiceStepsAre
  <2> QED BY <1>0, <2>1, ServiceUnwindIs
<1>14. Undoes("service", 14)
  <2>1. s[14].part = "keyexpr" /\ s[14].undo = Goto(ServiceUnwind, "keyexpr_c_str")
    BY ServiceStepsAre
  <2> QED BY <1>0, <2>1, ServiceUnwindIs
<1>15. Undoes("service", 15)
  <2>1. s[15].part = "declaration" /\ s[15].undo = Goto(ServiceUnwind, "keyexpr_c_str")
    BY ServiceStepsAre
  <2> QED BY <1>0, <2>1, ServiceUnwindIs
<1> HIDE DEF Undoes
<1> QED
  BY ServiceStepsAre, <1>1, <1>2, <1>3, <1>4, <1>5, <1>6, <1>7, <1>8, <1>9, <1>10, <1>11,
     <1>12, <1>13, <1>14, <1>15

\* Every step comes after what it needs.
LEMMA ServiceFollows == \A n \in 1 .. Len(Steps["service"]) : Follows("service", n)
<1> USE DEF Follows, Sure, Acquired, Checks, HandlerUses, OfNode
<1>1. /\ Follows("service", 1) /\ Follows("service", 2) /\ Follows("service", 3)
      /\ Follows("service", 4) /\ Follows("service", 5) /\ Follows("service", 6)
      /\ Follows("service", 7) /\ Follows("service", 8) /\ Follows("service", 9)
      /\ Follows("service", 10) /\ Follows("service", 11) /\ Follows("service", 12)
      /\ Follows("service", 13) /\ Follows("service", 14)
  BY ServiceStepsAre, ServiceDone
<1>2. Follows("service", 15)
  <2>1. Steps["service"][15].part = "declaration"
    BY ServiceStepsAre
  <2> QED BY <2>1, ServiceDone
<1> HIDE DEF Follows
<1> QED BY <1>1, <1>2, ServiceStepsAre

\* So its tables are sound.
LEMMA ServiceIsSound == Sound("service")
<1>1. Full("service") = {"handle", "data", "messages", "keys", "queries",
                         "message_queue_mutex", "condition_mutex", "type_support",
                         "type_name", "name", "type_hash_c_str", "keyexpr_c_str",
                         "declaration"}
  <2>1. Len(Steps["service"]) = 15
    BY ServiceStepsAre
  <2> QED BY <2>1, ServiceDone DEF Full, Acquired, Checks
<1>2. /\ InOrder("service", Temporaries("service"))
      /\ Range(Temporaries("service")) = {"type_hash_c_str"}
      /\ Tasks("service") = {}
  BY TemporariesAre, KindsAre DEF OfNode, Tasks
<1>3. SettlesWell("service")
  BY <1>1, <1>2 DEF SettlesWell, HandlerUses, Container, MayFail, ThroughState, Fallible, Mutexes
<1>4. DestroysWell("service")
  BY <1>1, <1>2, ServiceReleasesAre, KnownLeaksAre
     DEF DestroysWell, Releasable, NullIsFreed, Container, Kept, Most,
         MayFail, ThroughState, Fallible, Mutexes
<1> QED
  BY <1>3, <1>4, ServiceStepsAre, ServiceUndoes, ServiceFollows DEF Sound

-----------------------------------------------------------------------------
(* Client: what its tables are, and that they are sound.                   *)

\* Its labels are in order, and so is what each goto releases.
LEMMA ClientUnwindIs ==
  LET list == ClientUnwind
      ordered(part) == InOrder("client", Goto(list, part))
      rest(part) == Range(Goto(list, part))
  IN  /\ InOrder("client", list)
      /\ Range(list) = {"keyexpr_c_str", "type_hash_c_str", "name", "type_name",
                        "type_support", "in_flight_mutex", "reply_queue_mutex",
                        "messages", "condition_mutex", "sequence_number_mutex", "data",
                        "handle"}
      /\ ordered("keyexpr_c_str") /\ ordered("type_hash_c_str") /\ ordered("name")
      /\ ordered("type_name") /\ ordered("type_support") /\ ordered("in_flight_mutex")
      /\ ordered("reply_queue_mutex") /\ ordered("messages")
      /\ ordered("condition_mutex") /\ ordered("sequence_number_mutex")
      /\ ordered("data") /\ ordered("handle")
      /\ rest("handle") = {"handle"} /\ rest("data") = {"data"} \cup rest("handle")
      /\ rest("sequence_number_mutex") = {"sequence_number_mutex"} \cup rest("data")
      /\ rest("condition_mutex") = {"condition_mutex"} \cup rest("sequence_number_mutex")
      /\ rest("messages") = {"messages"} \cup rest("condition_mutex")
      /\ rest("reply_queue_mutex") = {"reply_queue_mutex"} \cup rest("messages")
      /\ rest("in_flight_mutex") = {"in_flight_mutex"} \cup rest("reply_queue_mutex")
      /\ rest("type_support") = {"type_support"} \cup rest("in_flight_mutex")
      /\ rest("type_name") = {"type_name"} \cup rest("type_support")
      /\ rest("name") = {"name"} \cup rest("type_name")
      /\ rest("type_hash_c_str") = {"type_hash_c_str"} \cup rest("name")
      /\ rest("keyexpr_c_str") = {"keyexpr_c_str"} \cup rest("type_hash_c_str")
<1> DEFINE u == ClientUnwind
<1>1. /\ IsList(u) /\ Len(u) = 12
      /\ u[1] = "keyexpr_c_str" /\ u[2] = "type_hash_c_str" /\ u[3] = "name"
      /\ u[4] = "type_name" /\ u[5] = "type_support" /\ u[6] = "in_flight_mutex"
      /\ u[7] = "reply_queue_mutex" /\ u[8] = "messages" /\ u[9] = "condition_mutex"
      /\ u[10] = "sequence_number_mutex" /\ u[11] = "data" /\ u[12] = "handle"
  BY Tuple1, Tuple2, Tuple3, Tuple5, ConcatList
     DEF ClientUnwind, TypeSupportFini, ClientFini
<1>2. DOMAIN u = 1 .. 12
  BY <1>1, LenProperties DEF IsList
<1> HIDE DEF u
<1>3. InOrder("client", u)
  BY <1>1, <1>2 DEF InOrder, Later, Container, HandlerUses
<1>4. \A i \in 1 .. Len(u) :
        /\ InOrder("client", Goto(u, u[i]))
        /\ Range(Goto(u, u[i])) =
             {u[i]} \cup (IF i = Len(u) THEN {} ELSE Range(Goto(u, u[i + 1])))
  BY <1>3, Gotos
<1>5. /\ \A i \in 1 .. 12 : InOrder("client", Goto(u, u[i]))
      /\ \A i \in 1 .. 11 :
           Range(Goto(u, u[i])) = {u[i]} \cup Range(Goto(u, u[i + 1]))
      /\ Range(Goto(u, u[12])) = {u[12]}
  BY <1>1, <1>4
<1>6. Range(u) = {"keyexpr_c_str", "type_hash_c_str", "name", "type_name",
                  "type_support", "in_flight_mutex", "reply_queue_mutex", "messages",
                  "condition_mutex", "sequence_number_mutex", "data", "handle"}
  BY <1>1, <1>2 DEF Range
<1> QED BY <1>1, <1>3, <1>5, <1>6 DEF u

\* The steps of its create function, and where each goes when it fails.
LEMMA ClientStepsAre ==
  LET s == Steps["client"]
      fail(part) == Goto(ClientUnwind, part)
  IN  /\ IsList(s) /\ Len(s) = 14
      /\ s[1].part = "handle" /\ s[1].undo = <<>>
      /\ s[2].part = "data" /\ s[2].undo = fail("handle")
      /\ s[3].part = "adapted_qos" /\ s[3].undo = fail("data")
      /\ s[4].part = "sequence_number_mutex" /\ s[4].undo = fail("data")
      /\ s[5].part = "condition_mutex" /\ s[5].undo = fail("sequence_number_mutex")
      /\ s[6].part = "messages" /\ s[6].undo = fail("condition_mutex")
      /\ s[7].part = "reply_queue_mutex" /\ s[7].undo = fail("messages")
      /\ s[8].part = "in_flight_mutex" /\ s[8].undo = fail("reply_queue_mutex")
      /\ s[9].part = "type_support" /\ s[9].undo = fail("in_flight_mutex")
      /\ s[10].part = "type_name" /\ s[10].undo = fail("type_support")
      /\ s[11].part = "name" /\ s[11].undo = fail("type_name")
      /\ s[12].part = "type_hash_c_str" /\ s[12].undo = fail("name")
      /\ s[13].part = "keyexpr_c_str" /\ s[13].undo = fail("type_hash_c_str")
      /\ s[14].part = "keyexpr" /\ s[14].undo = fail("keyexpr_c_str")
BY Tuple2, Tuple6, ConcatList DEF Steps, CreateClient, ClientInit, Get

\* What the first steps do, one after the other.
LEMMA ClientDone ==
  LET done(n) == Done("client", n)
  IN  /\ done(0) = {} /\ done(1) = done(0) \cup {"handle"}
      /\ done(2) = done(1) \cup {"data"} /\ done(3) = done(2) \cup {"adapted_qos"}
      /\ done(4) = done(3) \cup {"sequence_number_mutex"}
      /\ done(5) = done(4) \cup {"condition_mutex"}
      /\ done(6) = done(5) \cup {"messages"}
      /\ done(7) = done(6) \cup {"reply_queue_mutex"}
      /\ done(8) = done(7) \cup {"in_flight_mutex"}
      /\ done(9) = done(8) \cup {"type_support"}
      /\ done(10) = done(9) \cup {"type_name"} /\ done(11) = done(10) \cup {"name"}
      /\ done(12) = done(11) \cup {"type_hash_c_str"}
      /\ done(13) = done(12) \cup {"keyexpr_c_str"}
      /\ done(14) = done(13) \cup {"keyexpr"}
BY ClientStepsAre, DoneStep

\* What its destroy function releases.
LEMMA ClientReleasesAre ==
  LET list == Releases["client"]
  IN  /\ InOrder("client", list)
      /\ Range(list) = {"keyexpr_c_str", "name", "type_name", "type_support",
                        "in_flight_mutex", "reply_queue_mutex", "messages",
                        "condition_mutex", "sequence_number_mutex", "data", "handle"}
<1> DEFINE u == Releases["client"]
<1>1. /\ IsList(u) /\ Len(u) = 11
      /\ u[1] = "keyexpr_c_str" /\ u[2] = "name" /\ u[3] = "type_name"
      /\ u[4] = "type_support" /\ u[5] = "in_flight_mutex" /\ u[6] = "reply_queue_mutex"
      /\ u[7] = "messages" /\ u[8] = "condition_mutex" /\ u[9] = "sequence_number_mutex"
      /\ u[10] = "data" /\ u[11] = "handle"
  BY Tuple1, Tuple2, Tuple5, ConcatList
     DEF Releases, DestroyClient, TypeSupportFini, ClientFini
<1>2. DOMAIN u = 1 .. 11
  BY <1>1, LenProperties DEF IsList
<1> HIDE DEF u
<1>3. InOrder("client", u)
  BY <1>1, <1>2 DEF InOrder, Later, Container, HandlerUses
<1>4. Range(u) = {"keyexpr_c_str", "name", "type_name", "type_support",
                  "in_flight_mutex", "reply_queue_mutex", "messages", "condition_mutex",
                  "sequence_number_mutex", "data", "handle"}
  BY <1>1, <1>2 DEF Range
<1> QED BY <1>3, <1>4 DEF u

\* Whichever step fails, the right parts are released.
LEMMA ClientUndoes == \A n \in 1 .. Len(Steps["client"]) : Undoes("client", n)
<1> DEFINE s == Steps["client"]
<1>0. {"handle", "data", "adapted_qos", "sequence_number_mutex", "condition_mutex",
       "messages", "reply_queue_mutex", "in_flight_mutex", "type_support", "type_name",
       "name", "type_hash_c_str", "keyexpr_c_str", "keyexpr"} \subseteq PartsOf("client")
  <2>1. \A n \in 1 .. 14 : s[n].part \in PartsOf("client")
    BY ClientStepsAre, StepsPartsOf
  <2> QED BY <2>1, ClientStepsAre
<1> USE ClientDone, KnownLeaksAre
    DEF Undoes, Sure, Acquired, Checks, Releasable, Container, NullIsFreed, SilentFailures
<1>1. Undoes("client", 1)
  <2>1. s[1].part = "handle" /\ s[1].undo = <<>>
    BY ClientStepsAre
  <2> QED BY <1>0, <2>1, EmptyInOrder
<1>2. Undoes("client", 2)
  <2>1. s[2].part = "data" /\ s[2].undo = Goto(ClientUnwind, "handle")
    BY ClientStepsAre
  <2> QED BY <1>0, <2>1, ClientUnwindIs
<1>3. Undoes("client", 3)
  <2>1. s[3].part = "adapted_qos" /\ s[3].undo = Goto(ClientUnwind, "data")
    BY ClientStepsAre
  <2> QED BY <1>0, <2>1, ClientUnwindIs
<1>4. Undoes("client", 4)
  <2>1. s[4].part = "sequence_number_mutex" /\ s[4].undo = Goto(ClientUnwind, "data")
    BY ClientStepsAre
  <2> QED BY <1>0, <2>1, ClientUnwindIs
<1>5. Undoes("client", 5)
  <2>1. /\ s[5].part = "condition_mutex"
        /\ s[5].undo = Goto(ClientUnwind, "sequence_number_mutex")
    BY ClientStepsAre
  <2> QED BY <1>0, <2>1, ClientUnwindIs
<1>6. Undoes("client", 6)
  <2>1. s[6].part = "messages" /\ s[6].undo = Goto(ClientUnwind, "condition_mutex")
    BY ClientStepsAre
  <2> QED BY <1>0, <2>1, ClientUnwindIs
<1>7. Undoes("client", 7)
  <2>1. s[7].part = "reply_queue_mutex" /\ s[7].undo = Goto(ClientUnwind, "messages")
    BY ClientStepsAre
  <2> QED BY <1>0, <2>1, ClientUnwindIs
<1>8. Undoes("client", 8)
  <2>1. s[8].part = "in_flight_mutex" /\ s[8].undo = Goto(ClientUnwind, "reply_queue_mutex")
    BY ClientStepsAre
  <2> QED BY <1>0, <2>1, ClientUnwindIs
<1>9. Undoes("client", 9)
  <2>1. s[9].part = "type_support" /\ s[9].undo = Goto(ClientUnwind, "in_flight_mutex")
    BY ClientStepsAre
  <2> QED BY <1>0, <2>1, ClientUnwindIs
<1>10. Undoes("client", 10)
  <2>1. s[10].part = "type_name" /\ s[10].undo = Goto(ClientUnwind, "type_support")
    BY ClientStepsAre
  <2> QED BY <1>0, <2>1, ClientUnwindIs
<1>11. Undoes("client", 11)
  <2>1. s[11].part = "name" /\ s[11].undo = Goto(ClientUnwind, "type_name")
    BY ClientStepsAre
  <2> QED BY <1>0, <2>1, ClientUnwindIs
<1>12. Undoes("client", 12)
  <2>1. s[12].part = "type_hash_c_str" /\ s[12].undo = Goto(ClientUnwind, "name")
    BY ClientStepsAre
  <2> QED BY <1>0, <2>1, ClientUnwindIs
<1>13. Undoes("client", 13)
  <2>1. s[13].part = "keyexpr_c_str" /\ s[13].undo = Goto(ClientUnwind, "type_hash_c_str")
    BY ClientStepsAre
  <2> QED BY <1>0, <2>1, ClientUnwindIs
<1>14. Undoes("client", 14)
  <2>1. s[14].part = "keyexpr" /\ s[14].undo = Goto(ClientUnwind, "keyexpr_c_str")
    BY ClientStepsAre
  <2> QED BY <1>0, <2>1, ClientUnwindIs
<1> HIDE DEF Undoes
<1> QED
  BY ClientStepsAre, <1>1, <1>2, <1>3, <1>4, <1>5, <1>6, <1>7, <1>8, <1>9, <1>10, <1>11,
     <1>12, <1>13, <1>14

\* Every step comes after what it needs.
LEMMA ClientFollows == \A n \in 1 .. Len(Steps["client"]) : Follows("client", n)
<1> USE DEF Follows, Sure, Acquired, Checks, HandlerUses, OfNode
<1>1. /\ Follows("client", 1) /\ Follows("client", 2) /\ Follows("client", 3)
      /\ Follows("client", 4) /\ Follows("client", 5) /\ Follows("client", 6)
      /\ Follows("client", 7) /\ Follows("client", 8) /\ Follows("client", 9)
      /\ Follows("client", 10) /\ Follows("client", 11) /\ Follows("client", 12)
      /\ Follows("client", 13) /\ Follows("client", 14)
  BY ClientStepsAre, ClientDone
<1> HIDE DEF Follows
<1> QED BY <1>1, ClientStepsAre

\* So its tables are sound.
LEMMA ClientIsSound == Sound("client")
<1>1. Full("client") = {"handle", "data", "sequence_number_mutex", "condition_mutex",
                        "messages", "reply_queue_mutex", "in_flight_mutex",
                        "type_support", "type_name", "name", "type_hash_c_str",
                        "keyexpr_c_str"}
  <2>1. Len(Steps["client"]) = 14
    BY ClientStepsAre
  <2> QED BY <2>1, ClientDone DEF Full, Acquired, Checks
<1>2. /\ InOrder("client", Temporaries("client"))
      /\ Range(Temporaries("client")) = {"type_hash_c_str"}
      /\ Tasks("client") = {}
  BY TemporariesAre, KindsAre DEF OfNode, Tasks
<1>3. SettlesWell("client")
  BY <1>1, <1>2 DEF SettlesWell, HandlerUses, Container, MayFail, ThroughState, Fallible, Mutexes
<1>4. DestroysWell("client")
  BY <1>1, <1>2, ClientReleasesAre, KnownLeaksAre
     DEF DestroysWell, Releasable, NullIsFreed, Container, Kept, Most,
         MayFail, ThroughState, Fallible, Mutexes
<1> QED
  BY <1>3, <1>4, ClientStepsAre, ClientUndoes, ClientFollows DEF Sound

-----------------------------------------------------------------------------
(* Node: what its tables are, and that they are sound.                     *)

\* Its labels are in order, and so is what each goto releases.
LEMMA NodeUnwindIs ==
  LET list == NodeUnwind
      ordered(part) == InOrder("node", Goto(list, part))
      rest(part) == Range(Goto(list, part))
  IN  /\ InOrder("node", list)
      /\ Range(list) = {"data", "namespace", "name", "handle"}
      /\ ordered("data") /\ ordered("namespace") /\ ordered("name") /\ ordered("handle")
      /\ rest("handle") = {"handle"} /\ rest("name") = {"name"} \cup rest("handle")
      /\ rest("namespace") = {"namespace"} \cup rest("name")
      /\ rest("data") = {"data"} \cup rest("namespace")
<1> DEFINE u == NodeUnwind
<1>1. /\ IsList(u) /\ Len(u) = 4
      /\ u[1] = "data" /\ u[2] = "namespace" /\ u[3] = "name" /\ u[4] = "handle"
  BY Tuple4 DEF NodeUnwind
<1>2. DOMAIN u = 1 .. 4
  BY <1>1, LenProperties DEF IsList
<1> HIDE DEF u
<1>3. InOrder("node", u)
  BY <1>1, <1>2 DEF InOrder, Later, Container, HandlerUses
<1>4. \A i \in 1 .. Len(u) :
        /\ InOrder("node", Goto(u, u[i]))
        /\ Range(Goto(u, u[i])) =
             {u[i]} \cup (IF i = Len(u) THEN {} ELSE Range(Goto(u, u[i + 1])))
  BY <1>3, Gotos
<1>5. /\ \A i \in 1 .. 4 : InOrder("node", Goto(u, u[i]))
      /\ \A i \in 1 .. 3 :
           Range(Goto(u, u[i])) = {u[i]} \cup Range(Goto(u, u[i + 1]))
      /\ Range(Goto(u, u[4])) = {u[4]}
  BY <1>1, <1>4
<1>6. Range(u) = {"data", "namespace", "name", "handle"}
  BY <1>1, <1>2 DEF Range
<1> QED BY <1>1, <1>3, <1>5, <1>6 DEF u

\* The steps of its create function, and where each goes when it fails.
LEMMA NodeStepsAre ==
  LET s == Steps["node"]
      fail(part) == Goto(NodeUnwind, part)
  IN  /\ IsList(s) /\ Len(s) = 4
      /\ s[1].part = "handle" /\ s[1].undo = <<>>
      /\ s[2].part = "name" /\ s[2].undo = fail("handle")
      /\ s[3].part = "namespace" /\ s[3].undo = fail("name")
      /\ s[4].part = "data" /\ s[4].undo = fail("namespace")
BY Tuple4 DEF Steps, CreateNode, Get

\* What the first steps do, one after the other.
LEMMA NodeDone ==
  LET done(n) == Done("node", n)
  IN  /\ done(0) = {} /\ done(1) = done(0) \cup {"handle"}
      /\ done(2) = done(1) \cup {"name"} /\ done(3) = done(2) \cup {"namespace"}
      /\ done(4) = done(3) \cup {"data"}
BY NodeStepsAre, DoneStep

\* What its destroy function releases.
LEMMA NodeReleasesAre ==
  LET list == Releases["node"]
  IN  /\ InOrder("node", list)
      /\ Range(list) = {"data", "namespace", "name", "handle"}
<1> DEFINE u == Releases["node"]
<1>1. /\ IsList(u) /\ Len(u) = 4
      /\ u[1] = "data" /\ u[2] = "namespace" /\ u[3] = "name" /\ u[4] = "handle"
  BY Tuple4 DEF Releases, DestroyNode
<1>2. DOMAIN u = 1 .. 4
  BY <1>1, LenProperties DEF IsList
<1> HIDE DEF u
<1>3. InOrder("node", u)
  BY <1>1, <1>2 DEF InOrder, Later, Container, HandlerUses
<1>4. Range(u) = {"data", "namespace", "name", "handle"}
  BY <1>1, <1>2 DEF Range
<1> QED BY <1>3, <1>4 DEF u

\* Whichever step fails, the right parts are released.
LEMMA NodeUndoes == \A n \in 1 .. Len(Steps["node"]) : Undoes("node", n)
<1> DEFINE s == Steps["node"]
<1>0. {"handle", "name", "namespace", "data"} \subseteq PartsOf("node")
  <2>1. \A n \in 1 .. 4 : s[n].part \in PartsOf("node")
    BY NodeStepsAre, StepsPartsOf
  <2> QED BY <2>1, NodeStepsAre
<1> USE NodeDone, KnownLeaksAre
    DEF Undoes, Sure, Acquired, Checks, Releasable, Container, NullIsFreed, SilentFailures
<1>1. Undoes("node", 1)
  <2>1. s[1].part = "handle" /\ s[1].undo = <<>>
    BY NodeStepsAre
  <2> QED BY <1>0, <2>1, EmptyInOrder
<1>2. Undoes("node", 2)
  <2>1. s[2].part = "name" /\ s[2].undo = Goto(NodeUnwind, "handle")
    BY NodeStepsAre
  <2> QED BY <1>0, <2>1, NodeUnwindIs
<1>3. Undoes("node", 3)
  <2>1. s[3].part = "namespace" /\ s[3].undo = Goto(NodeUnwind, "name")
    BY NodeStepsAre
  <2> QED BY <1>0, <2>1, NodeUnwindIs
<1>4. Undoes("node", 4)
  <2>1. s[4].part = "data" /\ s[4].undo = Goto(NodeUnwind, "namespace")
    BY NodeStepsAre
  <2> QED BY <1>0, <2>1, NodeUnwindIs
<1> HIDE DEF Undoes
<1> QED
  BY NodeStepsAre, <1>1, <1>2, <1>3, <1>4

\* Every step comes after what it needs.
LEMMA NodeFollows == \A n \in 1 .. Len(Steps["node"]) : Follows("node", n)
<1> USE DEF Follows, Sure, Acquired, Checks, HandlerUses, OfNode
<1>1. /\ Follows("node", 1) /\ Follows("node", 2) /\ Follows("node", 3)
      /\ Follows("node", 4)
  BY NodeStepsAre, NodeDone
<1> HIDE DEF Follows
<1> QED BY <1>1, NodeStepsAre

\* So its tables are sound.
LEMMA NodeIsSound == Sound("node")
<1>1. Full("node") = {"handle", "name", "namespace", "data"}
  <2>1. Len(Steps["node"]) = 4
    BY NodeStepsAre
  <2> QED BY <2>1, NodeDone DEF Full, Acquired, Checks
<1>2. /\ InOrder("node", Temporaries("node"))
      /\ Range(Temporaries("node")) = {}
      /\ Tasks("node") = {}
  BY TemporariesAre, KindsAre DEF OfNode, Tasks
<1>3. SettlesWell("node")
  BY <1>1, <1>2 DEF SettlesWell, HandlerUses, Container, MayFail, ThroughState, Fallible, Mutexes
<1>4. DestroysWell("node")
  BY <1>1, <1>2, NodeReleasesAre, KnownLeaksAre
     DEF DestroysWell, Releasable, NullIsFreed, Container, Kept, Most,
         MayFail, ThroughState, Fallible, Mutexes
<1> QED
  BY <1>3, <1>4, NodeStepsAre, NodeUndoes, NodeFollows DEF Sound

-----------------------------------------------------------------------------
(* Guard condition: what its tables are, and that they are sound.          *)

\* The parts it releases when it fails are in order.
LEMMA GuardConditionUndoIs ==
  /\ InOrder("guard_condition", <<"handle">>)
  /\ Range(<<"handle">>) = {"handle"}
  /\ InOrder("guard_condition", <<"data", "handle">>)
  /\ Range(<<"data", "handle">>) = {"data", "handle"}
BY Tuple1, Tuple2 DEF InOrder, Later, Container, HandlerUses, Range

\* The steps of its create function, and where each goes when it fails.
LEMMA GuardConditionStepsAre ==
  LET s == Steps["guard_condition"]
  IN  /\ IsList(s) /\ Len(s) = 3
      /\ s[1].part = "handle" /\ s[1].undo = <<>>
      /\ s[2].part = "data" /\ s[2].undo = <<"handle">>
      /\ s[3].part = "internal_mutex" /\ s[3].undo = <<"data", "handle">>
BY Tuple3 DEF Steps, CreateGuardCondition, Get

\* What the first steps do, one after the other.
LEMMA GuardConditionDone ==
  LET done(n) == Done("guard_condition", n)
  IN  /\ done(0) = {} /\ done(1) = done(0) \cup {"handle"}
      /\ done(2) = done(1) \cup {"data"} /\ done(3) = done(2) \cup {"internal_mutex"}
BY GuardConditionStepsAre, DoneStep

\* What its destroy function releases.
LEMMA GuardConditionReleasesAre ==
  LET list == Releases["guard_condition"]
  IN  /\ InOrder("guard_condition", list)
      /\ Range(list) = {"internal_mutex", "data", "handle"}
<1> DEFINE u == Releases["guard_condition"]
<1>1. /\ IsList(u) /\ Len(u) = 3
      /\ u[1] = "internal_mutex" /\ u[2] = "data" /\ u[3] = "handle"
  BY Tuple3 DEF Releases, DestroyGuardCondition
<1>2. DOMAIN u = 1 .. 3
  BY <1>1, LenProperties DEF IsList
<1> HIDE DEF u
<1>3. InOrder("guard_condition", u)
  BY <1>1, <1>2 DEF InOrder, Later, Container, HandlerUses
<1>4. Range(u) = {"internal_mutex", "data", "handle"}
  BY <1>1, <1>2 DEF Range
<1> QED BY <1>3, <1>4 DEF u

\* Whichever step fails, the right parts are released.
LEMMA GuardConditionUndoes ==
  \A n \in 1 .. Len(Steps["guard_condition"]) : Undoes("guard_condition", n)
<1> DEFINE s == Steps["guard_condition"]
<1>0. {"handle", "data", "internal_mutex"} \subseteq PartsOf("guard_condition")
  <2>1. \A n \in 1 .. 3 : s[n].part \in PartsOf("guard_condition")
    BY GuardConditionStepsAre, StepsPartsOf
  <2> QED BY <2>1, GuardConditionStepsAre
<1> USE GuardConditionDone, KnownLeaksAre
    DEF Undoes, Sure, Acquired, Checks, Releasable, Container, NullIsFreed, SilentFailures
<1>1. Undoes("guard_condition", 1)
  <2>1. s[1].part = "handle" /\ s[1].undo = <<>>
    BY GuardConditionStepsAre
  <2> QED BY <1>0, <2>1, EmptyInOrder
<1>2. Undoes("guard_condition", 2)
  <2>1. s[2].part = "data" /\ s[2].undo = <<"handle">>
    BY GuardConditionStepsAre
  <2> QED BY <1>0, <2>1, GuardConditionUndoIs
<1>3. Undoes("guard_condition", 3)
  <2>1. s[3].part = "internal_mutex" /\ s[3].undo = <<"data", "handle">>
    BY GuardConditionStepsAre
  <2> QED BY <1>0, <2>1, GuardConditionUndoIs
<1> HIDE DEF Undoes
<1> QED
  BY GuardConditionStepsAre, <1>1, <1>2, <1>3

\* Every step comes after what it needs.
LEMMA GuardConditionFollows ==
  \A n \in 1 .. Len(Steps["guard_condition"]) : Follows("guard_condition", n)
<1> USE DEF Follows, Sure, Acquired, Checks, HandlerUses, OfNode
<1>1. /\ Follows("guard_condition", 1) /\ Follows("guard_condition", 2)
      /\ Follows("guard_condition", 3)
  BY GuardConditionStepsAre, GuardConditionDone
<1> HIDE DEF Follows
<1> QED BY <1>1, GuardConditionStepsAre

\* So its tables are sound.
LEMMA GuardConditionIsSound == Sound("guard_condition")
<1>1. Full("guard_condition") = {"handle", "data", "internal_mutex"}
  <2>1. Len(Steps["guard_condition"]) = 3
    BY GuardConditionStepsAre
  <2> QED BY <2>1, GuardConditionDone DEF Full, Acquired, Checks
<1>2. /\ InOrder("guard_condition", Temporaries("guard_condition"))
      /\ Range(Temporaries("guard_condition")) = {}
      /\ Tasks("guard_condition") = {}
  BY TemporariesAre, KindsAre DEF OfNode, Tasks
<1>3. SettlesWell("guard_condition")
  BY <1>1, <1>2 DEF SettlesWell, HandlerUses, Container, MayFail, ThroughState, Fallible, Mutexes
<1>4. DestroysWell("guard_condition")
  BY <1>1, <1>2, GuardConditionReleasesAre, KnownLeaksAre
     DEF DestroysWell, Releasable, NullIsFreed, Container, Kept, Most,
         MayFail, ThroughState, Fallible, Mutexes
<1> QED
  BY <1>3, <1>4, GuardConditionStepsAre, GuardConditionUndoes, GuardConditionFollows
     DEF Sound

-----------------------------------------------------------------------------
(* Wait set: what its tables are, and that they are sound.                 *)

\* The parts it releases when it fails are in order.
LEMMA WaitSetUndoIs ==
  /\ InOrder("wait_set", <<"handle">>)
  /\ Range(<<"handle">>) = {"handle"}
  /\ InOrder("wait_set", <<"condition_mutex", "handle">>)
  /\ Range(<<"condition_mutex", "handle">>) = {"condition_mutex", "handle"}
BY Tuple1, Tuple2 DEF InOrder, Later, Container, HandlerUses, Range

\* The steps of its create function, and where each goes when it fails.
LEMMA WaitSetStepsAre ==
  LET s == Steps["wait_set"]
  IN  /\ IsList(s) /\ Len(s) = 4
      /\ s[1].part = "handle" /\ s[1].undo = <<>>
      /\ s[2].part = "data" /\ s[2].undo = <<"handle">>
      /\ s[3].part = "condition_mutex" /\ s[3].undo = <<"handle">>
      /\ s[4].part = "condition_variable" /\ s[4].undo = <<"condition_mutex", "handle">>
BY Tuple2, ConcatList DEF Steps, CreateWaitSet, WaitSetInit, Get

\* What the first steps do, one after the other.
LEMMA WaitSetDone ==
  LET done(n) == Done("wait_set", n)
  IN  /\ done(0) = {} /\ done(1) = done(0) \cup {"handle"}
      /\ done(2) = done(1) \cup {"data"} /\ done(3) = done(2) \cup {"condition_mutex"}
      /\ done(4) = done(3) \cup {"condition_variable"}
BY WaitSetStepsAre, DoneStep

\* What its destroy function releases.
LEMMA WaitSetReleasesAre ==
  LET list == Releases["wait_set"]
  IN  /\ InOrder("wait_set", list)
      /\ Range(list) = {"condition_mutex", "condition_variable", "data", "handle"}
<1> DEFINE u == Releases["wait_set"]
<1>1. /\ IsList(u) /\ Len(u) = 4
      /\ u[1] = "condition_mutex" /\ u[2] = "condition_variable" /\ u[3] = "data"
      /\ u[4] = "handle"
  BY Tuple2, ConcatList DEF Releases, DestroyWaitSet, WaitSetFini
<1>2. DOMAIN u = 1 .. 4
  BY <1>1, LenProperties DEF IsList
<1> HIDE DEF u
<1>3. InOrder("wait_set", u)
  BY <1>1, <1>2 DEF InOrder, Later, Container, HandlerUses
<1>4. Range(u) = {"condition_mutex", "condition_variable", "data", "handle"}
  BY <1>1, <1>2 DEF Range
<1> QED BY <1>3, <1>4 DEF u

\* Whichever step fails, the right parts are released.
LEMMA WaitSetUndoes == \A n \in 1 .. Len(Steps["wait_set"]) : Undoes("wait_set", n)
<1> DEFINE s == Steps["wait_set"]
<1>0. {"handle", "data", "condition_mutex",
       "condition_variable"} \subseteq PartsOf("wait_set")
  <2>1. \A n \in 1 .. 4 : s[n].part \in PartsOf("wait_set")
    BY WaitSetStepsAre, StepsPartsOf
  <2> QED BY <2>1, WaitSetStepsAre
<1> USE WaitSetDone, KnownLeaksAre
    DEF Undoes, Sure, Acquired, Checks, Releasable, Container, NullIsFreed, SilentFailures
<1>1. Undoes("wait_set", 1)
  <2>1. s[1].part = "handle" /\ s[1].undo = <<>>
    BY WaitSetStepsAre
  <2> QED BY <1>0, <2>1, EmptyInOrder
<1>2. Undoes("wait_set", 2)
  <2>1. s[2].part = "data" /\ s[2].undo = <<"handle">>
    BY WaitSetStepsAre
  <2> QED BY <1>0, <2>1, WaitSetUndoIs
<1>3. Undoes("wait_set", 3)
  <2>1. s[3].part = "condition_mutex" /\ s[3].undo = <<"handle">>
    BY WaitSetStepsAre
  <2> QED BY <1>0, <2>1, WaitSetUndoIs
<1>4. Undoes("wait_set", 4)
  <2>1. s[4].part = "condition_variable" /\ s[4].undo = <<"condition_mutex", "handle">>
    BY WaitSetStepsAre
  <2> QED BY <1>0, <2>1, WaitSetUndoIs
<1> HIDE DEF Undoes
<1> QED
  BY WaitSetStepsAre, <1>1, <1>2, <1>3, <1>4

\* Every step comes after what it needs.
LEMMA WaitSetFollows == \A n \in 1 .. Len(Steps["wait_set"]) : Follows("wait_set", n)
<1> USE DEF Follows, Sure, Acquired, Checks, HandlerUses, OfNode
<1>1. /\ Follows("wait_set", 1) /\ Follows("wait_set", 2) /\ Follows("wait_set", 3)
      /\ Follows("wait_set", 4)
  BY WaitSetStepsAre, WaitSetDone
<1> HIDE DEF Follows
<1> QED BY <1>1, WaitSetStepsAre

\* So its tables are sound.
LEMMA WaitSetIsSound == Sound("wait_set")
<1>1. Full("wait_set") = {"handle", "data", "condition_mutex", "condition_variable"}
  <2>1. Len(Steps["wait_set"]) = 4
    BY WaitSetStepsAre
  <2> QED BY <2>1, WaitSetDone DEF Full, Acquired, Checks
<1>2. /\ InOrder("wait_set", Temporaries("wait_set"))
      /\ Range(Temporaries("wait_set")) = {}
      /\ Tasks("wait_set") = {}
  BY TemporariesAre, KindsAre DEF OfNode, Tasks
<1>3. SettlesWell("wait_set")
  BY <1>1, <1>2 DEF SettlesWell, HandlerUses, Container, MayFail, ThroughState, Fallible, Mutexes
<1>4. DestroysWell("wait_set")
  BY <1>1, <1>2, WaitSetReleasesAre, KnownLeaksAre
     DEF DestroysWell, Releasable, NullIsFreed, Container, Kept, Most,
         MayFail, ThroughState, Fallible, Mutexes
<1> QED
  BY <1>3, <1>4, WaitSetStepsAre, WaitSetUndoes, WaitSetFollows DEF Sound

-----------------------------------------------------------------------------
(* Init options: what its tables are, and that they are sound.             *)

\* Its labels are in order, and so is what each goto releases.
LEMMA InitOptionsUnwindIs ==
  LET list == InitOptionsUnwind
      ordered(part) == InOrder("init_options", Goto(list, part))
      rest(part) == Range(Goto(list, part))
  IN  /\ InOrder("init_options", list)
      /\ Range(list) = {"config", "options_impl", "discovery"}
      /\ ordered("config") /\ ordered("options_impl") /\ ordered("discovery")
      /\ rest("discovery") = {"discovery"}
      /\ rest("options_impl") = {"options_impl"} \cup rest("discovery")
      /\ rest("config") = {"config"} \cup rest("options_impl")
<1> DEFINE u == InitOptionsUnwind
<1>1. /\ IsList(u) /\ Len(u) = 3
      /\ u[1] = "config" /\ u[2] = "options_impl" /\ u[3] = "discovery"
  BY Tuple3 DEF InitOptionsUnwind
<1>2. DOMAIN u = 1 .. 3
  BY <1>1, LenProperties DEF IsList
<1> HIDE DEF u
<1>3. InOrder("init_options", u)
  BY <1>1, <1>2 DEF InOrder, Later, Container, HandlerUses
<1>4. \A i \in 1 .. Len(u) :
        /\ InOrder("init_options", Goto(u, u[i]))
        /\ Range(Goto(u, u[i])) =
             {u[i]} \cup (IF i = Len(u) THEN {} ELSE Range(Goto(u, u[i + 1])))
  BY <1>3, Gotos
<1>5. /\ \A i \in 1 .. 3 : InOrder("init_options", Goto(u, u[i]))
      /\ \A i \in 1 .. 2 :
           Range(Goto(u, u[i])) = {u[i]} \cup Range(Goto(u, u[i + 1]))
      /\ Range(Goto(u, u[3])) = {u[3]}
  BY <1>1, <1>4
<1>6. Range(u) = {"config", "options_impl", "discovery"}
  BY <1>1, <1>2 DEF Range
<1> QED BY <1>1, <1>3, <1>5, <1>6 DEF u

\* The steps of its create function, and where each goes when it fails.
LEMMA InitOptionsStepsAre ==
  LET s == Steps["init_options"]
      fail(part) == Goto(InitOptionsUnwind, part)
  IN  /\ IsList(s) /\ Len(s) = 4
      /\ s[1].part = "discovery" /\ s[1].undo = <<>>
      /\ s[2].part = "options_impl" /\ s[2].undo = fail("discovery")
      /\ s[3].part = "config" /\ s[3].undo = <<>>
      /\ s[4].part = "config_insert" /\ s[4].undo = InitOptionsUnwind
BY Tuple4 DEF Steps, InitOptionsInit, Get

\* What the first steps do, one after the other.
LEMMA InitOptionsDone ==
  LET done(n) == Done("init_options", n)
  IN  /\ done(0) = {} /\ done(1) = done(0) \cup {"discovery"}
      /\ done(2) = done(1) \cup {"options_impl"} /\ done(3) = done(2) \cup {"config"}
      /\ done(4) = done(3) \cup {"config_insert"}
BY InitOptionsStepsAre, DoneStep

\* What its destroy function releases.
LEMMA InitOptionsReleasesAre ==
  LET list == Releases["init_options"]
  IN  /\ InOrder("init_options", list)
      /\ Range(list) = {"enclave", "security", "discovery"}
<1> DEFINE u == Releases["init_options"]
<1>1. /\ IsList(u) /\ Len(u) = 3
      /\ u[1] = "enclave" /\ u[2] = "security" /\ u[3] = "discovery"
  BY Tuple3 DEF Releases, InitOptionsFini
<1>2. DOMAIN u = 1 .. 3
  BY <1>1, LenProperties DEF IsList
<1> HIDE DEF u
<1>3. InOrder("init_options", u)
  BY <1>1, <1>2 DEF InOrder, Later, Container, HandlerUses
<1>4. Range(u) = {"enclave", "security", "discovery"}
  BY <1>1, <1>2 DEF Range
<1> QED BY <1>3, <1>4 DEF u

\* Whichever step fails, the right parts are released.
LEMMA InitOptionsUndoes ==
  \A n \in 1 .. Len(Steps["init_options"]) : Undoes("init_options", n)
<1> DEFINE s == Steps["init_options"]
<1>0. {"discovery", "options_impl", "config",
       "config_insert"} \subseteq PartsOf("init_options")
  <2>1. \A n \in 1 .. 4 : s[n].part \in PartsOf("init_options")
    BY InitOptionsStepsAre, StepsPartsOf
  <2> QED BY <2>1, InitOptionsStepsAre
<1> USE InitOptionsDone, KnownLeaksAre
    DEF Undoes, Sure, Acquired, Checks, Releasable, Container, NullIsFreed, SilentFailures
<1>1. Undoes("init_options", 1)
  <2>1. s[1].part = "discovery" /\ s[1].undo = <<>>
    BY InitOptionsStepsAre
  <2> QED BY <1>0, <2>1, EmptyInOrder
<1>2. Undoes("init_options", 2)
  <2>1. s[2].part = "options_impl" /\ s[2].undo = Goto(InitOptionsUnwind, "discovery")
    BY InitOptionsStepsAre
  <2> QED BY <1>0, <2>1, InitOptionsUnwindIs
<1>3. Undoes("init_options", 3)
  <2>1. s[3].part = "config" /\ s[3].undo = <<>>
    BY InitOptionsStepsAre
  <2> QED BY <1>0, <2>1, EmptyInOrder
<1>4. Undoes("init_options", 4)
  <2>1. s[4].part = "config_insert" /\ s[4].undo = InitOptionsUnwind
    BY InitOptionsStepsAre
  <2> QED BY <1>0, <2>1, InitOptionsUnwindIs
<1> HIDE DEF Undoes
<1> QED
  BY InitOptionsStepsAre, <1>1, <1>2, <1>3, <1>4

\* Every step comes after what it needs.
LEMMA InitOptionsFollows ==
  \A n \in 1 .. Len(Steps["init_options"]) : Follows("init_options", n)
<1> USE DEF Follows, Sure, Acquired, Checks, HandlerUses, OfNode
<1>1. /\ Follows("init_options", 1) /\ Follows("init_options", 2)
      /\ Follows("init_options", 3) /\ Follows("init_options", 4)
  BY InitOptionsStepsAre, InitOptionsDone
<1> HIDE DEF Follows
<1> QED BY <1>1, InitOptionsStepsAre

\* So its tables are sound.
LEMMA InitOptionsIsSound == Sound("init_options")
<1>1. Full("init_options") = {"discovery", "options_impl", "config"}
  <2>1. Len(Steps["init_options"]) = 4
    BY InitOptionsStepsAre
  <2> QED BY <2>1, InitOptionsDone DEF Full, Acquired, Checks
<1>2. /\ InOrder("init_options", Temporaries("init_options"))
      /\ Range(Temporaries("init_options")) = {}
      /\ Tasks("init_options") = {}
  BY TemporariesAre, KindsAre DEF OfNode, Tasks
<1>3. SettlesWell("init_options")
  BY <1>1, <1>2 DEF SettlesWell, HandlerUses, Container, MayFail, ThroughState, Fallible, Mutexes
<1>4. DestroysWell("init_options")
  BY <1>1, <1>2, InitOptionsReleasesAre, KnownLeaksAre
     DEF DestroysWell, Releasable, NullIsFreed, Container, Kept, Most,
         MayFail, ThroughState, Fallible, Mutexes
<1> QED
  BY <1>3, <1>4, InitOptionsStepsAre, InitOptionsUndoes, InitOptionsFollows DEF Sound

-----------------------------------------------------------------------------
(* Context: what its tables are, and that they are sound.                  *)

\* Its labels are in order, and so is what each goto releases.
LEMMA ContextUnwindIs ==
  LET list == ContextUnwind
      ordered(part) == InOrder("context", Goto(list, part))
      rest(part) == Range(Goto(list, part))
  IN  /\ InOrder("context", list)
      /\ Range(list) = {"lease_task", "graph_guard_condition", "session", "enclave",
                        "security", "discovery", "impl"}
      /\ ordered("lease_task") /\ ordered("graph_guard_condition") /\ ordered("session")
      /\ ordered("enclave") /\ ordered("security") /\ ordered("discovery")
      /\ ordered("impl")
      /\ rest("impl") = {"impl"} /\ rest("discovery") = {"discovery"} \cup rest("impl")
      /\ rest("security") = {"security"} \cup rest("discovery")
      /\ rest("enclave") = {"enclave"} \cup rest("security")
      /\ rest("session") = {"session"} \cup rest("enclave")
      /\ rest("graph_guard_condition") = {"graph_guard_condition"} \cup rest("session")
      /\ rest("lease_task") = {"lease_task"} \cup rest("graph_guard_condition")
<1> DEFINE u == ContextUnwind
<1>1. /\ IsList(u) /\ Len(u) = 7
      /\ u[1] = "lease_task" /\ u[2] = "graph_guard_condition" /\ u[3] = "session"
      /\ u[4] = "enclave" /\ u[5] = "security" /\ u[6] = "discovery" /\ u[7] = "impl"
  BY Tuple1, Tuple3, ConcatList DEF ContextUnwind, InitOptionsFini
<1>2. DOMAIN u = 1 .. 7
  BY <1>1, LenProperties DEF IsList
<1> HIDE DEF u
<1>3. InOrder("context", u)
  BY <1>1, <1>2 DEF InOrder, Later, Container, HandlerUses
<1>4. \A i \in 1 .. Len(u) :
        /\ InOrder("context", Goto(u, u[i]))
        /\ Range(Goto(u, u[i])) =
             {u[i]} \cup (IF i = Len(u) THEN {} ELSE Range(Goto(u, u[i + 1])))
  BY <1>3, Gotos
<1>5. /\ \A i \in 1 .. 7 : InOrder("context", Goto(u, u[i]))
      /\ \A i \in 1 .. 6 :
           Range(Goto(u, u[i])) = {u[i]} \cup Range(Goto(u, u[i + 1]))
      /\ Range(Goto(u, u[7])) = {u[7]}
  BY <1>1, <1>4
<1>6. Range(u) = {"lease_task", "graph_guard_condition", "session", "enclave",
                  "security", "discovery", "impl"}
  BY <1>1, <1>2 DEF Range
<1> QED BY <1>1, <1>3, <1>5, <1>6 DEF u

\* The labels of rmw_init_options_copy.
CopyUnwind == <<"enclave", "discovery", "security", "impl">>

\* Its labels are in order, and so is what each goto releases.
LEMMA CopyUnwindIs ==
  LET list == CopyUnwind
      ordered(part) == InOrder("context", Goto(list, part))
      rest(part) == Range(Goto(list, part))
  IN  /\ InOrder("context", list)
      /\ Range(list) = {"enclave", "discovery", "security", "impl"}
      /\ ordered("enclave") /\ ordered("discovery") /\ ordered("security")
      /\ ordered("impl")
      /\ rest("impl") = {"impl"} /\ rest("security") = {"security"} \cup rest("impl")
      /\ rest("discovery") = {"discovery"} \cup rest("security")
      /\ rest("enclave") = {"enclave"} \cup rest("discovery")
<1> DEFINE u == CopyUnwind
<1>1. /\ IsList(u) /\ Len(u) = 4
      /\ u[1] = "enclave" /\ u[2] = "discovery" /\ u[3] = "security" /\ u[4] = "impl"
  BY Tuple4 DEF CopyUnwind
<1>2. DOMAIN u = 1 .. 4
  BY <1>1, LenProperties DEF IsList
<1> HIDE DEF u
<1>3. InOrder("context", u)
  BY <1>1, <1>2 DEF InOrder, Later, Container, HandlerUses
<1>4. \A i \in 1 .. Len(u) :
        /\ InOrder("context", Goto(u, u[i]))
        /\ Range(Goto(u, u[i])) =
             {u[i]} \cup (IF i = Len(u) THEN {} ELSE Range(Goto(u, u[i + 1])))
  BY <1>3, Gotos
<1>5. /\ \A i \in 1 .. 4 : InOrder("context", Goto(u, u[i]))
      /\ \A i \in 1 .. 3 :
           Range(Goto(u, u[i])) = {u[i]} \cup Range(Goto(u, u[i + 1]))
      /\ Range(Goto(u, u[4])) = {u[4]}
  BY <1>1, <1>4
<1>6. Range(u) = {"enclave", "discovery", "security", "impl"}
  BY <1>1, <1>2 DEF Range
<1> QED BY <1>1, <1>3, <1>5, <1>6 DEF u

\* The steps of its create function, and where each goes when it fails.
LEMMA ContextStepsAre ==
  LET s == Steps["context"]
      fail(part) == Goto(ContextUnwind, part)
  IN  /\ IsList(s) /\ Len(s) = 9
      /\ s[1].part = "impl" /\ s[1].undo = <<>>
      /\ s[2].part = "security" /\ s[2].undo = Goto(CopyUnwind, "impl")
      /\ s[3].part = "discovery" /\ s[3].undo = Goto(CopyUnwind, "security")
      /\ s[4].part = "enclave" /\ s[4].undo = Goto(CopyUnwind, "discovery")
      /\ s[5].part = "options_impl" /\ s[5].undo = CopyUnwind
      /\ s[6].part = "session" /\ s[6].undo = fail("enclave")
      /\ s[7].part = "graph_guard_condition" /\ s[7].undo = fail("session")
      /\ s[8].part = "read_task" /\ s[8].undo = fail("graph_guard_condition")
      /\ s[9].part = "lease_task" /\ s[9].undo = fail("lease_task")
BY Tuple1, Tuple4, ConcatList DEF Steps, InitContext, InitOptionsCopy, CopyUnwind, Get

\* What the first steps do, one after the other.
LEMMA ContextDone ==
  LET done(n) == Done("context", n)
  IN  /\ done(0) = {} /\ done(1) = done(0) \cup {"impl"}
      /\ done(2) = done(1) \cup {"security"} /\ done(3) = done(2) \cup {"discovery"}
      /\ done(4) = done(3) \cup {"enclave"} /\ done(5) = done(4) \cup {"options_impl"}
      /\ done(6) = done(5) \cup {"session"}
      /\ done(7) = done(6) \cup {"graph_guard_condition"}
      /\ done(8) = done(7) \cup {"read_task"} /\ done(9) = done(8) \cup {"lease_task"}
BY ContextStepsAre, DoneStep

\* What its destroy function releases.
LEMMA ContextReleasesAre ==
  LET list == Releases["context"]
  IN  /\ InOrder("context", list)
      /\ Range(list) = {"impl", "enclave", "security", "discovery"}
<1> DEFINE u == Releases["context"]
<1>1. /\ IsList(u) /\ Len(u) = 4
      /\ u[1] = "impl" /\ u[2] = "enclave" /\ u[3] = "security" /\ u[4] = "discovery"
  BY Tuple1, Tuple3, ConcatList DEF Releases, ContextFini, InitOptionsFini
<1>2. DOMAIN u = 1 .. 4
  BY <1>1, LenProperties DEF IsList
<1> HIDE DEF u
<1>3. InOrder("context", u)
  BY <1>1, <1>2 DEF InOrder, Later, Container, HandlerUses
<1>4. Range(u) = {"impl", "enclave", "security", "discovery"}
  BY <1>1, <1>2 DEF Range
<1> QED BY <1>3, <1>4 DEF u

\* Whichever step fails, the right parts are released.
LEMMA ContextUndoes == \A n \in 1 .. Len(Steps["context"]) : Undoes("context", n)
<1> DEFINE s == Steps["context"]
<1>0. {"impl", "security", "discovery", "enclave", "options_impl", "session",
       "graph_guard_condition", "read_task", "lease_task"} \subseteq PartsOf("context")
  <2>1. \A n \in 1 .. 9 : s[n].part \in PartsOf("context")
    BY ContextStepsAre, StepsPartsOf
  <2> QED BY <2>1, ContextStepsAre
<1> USE ContextDone, KnownLeaksAre
    DEF Undoes, Sure, Acquired, Checks, Releasable, Container, NullIsFreed, SilentFailures
<1>1. Undoes("context", 1)
  <2>1. s[1].part = "impl" /\ s[1].undo = <<>>
    BY ContextStepsAre
  <2> QED BY <1>0, <2>1, EmptyInOrder
<1>2. Undoes("context", 2)
  <2>1. s[2].part = "security" /\ s[2].undo = Goto(CopyUnwind, "impl")
    BY ContextStepsAre
  <2> QED BY <1>0, <2>1, CopyUnwindIs
<1>3. Undoes("context", 3)
  <2>1. s[3].part = "discovery" /\ s[3].undo = Goto(CopyUnwind, "security")
    BY ContextStepsAre
  <2> QED BY <1>0, <2>1, CopyUnwindIs
<1>4. Undoes("context", 4)
  <2>1. s[4].part = "enclave" /\ s[4].undo = Goto(CopyUnwind, "discovery")
    BY ContextStepsAre
  <2> QED BY <1>0, <2>1, CopyUnwindIs
<1>5. Undoes("context", 5)
  <2>1. s[5].part = "options_impl" /\ s[5].undo = CopyUnwind
    BY ContextStepsAre
  <2> QED BY <1>0, <2>1, CopyUnwindIs
<1>6. Undoes("context", 6)
  <2>1. s[6].part = "session" /\ s[6].undo = Goto(ContextUnwind, "enclave")
    BY ContextStepsAre
  <2> QED BY <1>0, <2>1, ContextUnwindIs
<1>7. Undoes("context", 7)
  <2>1. s[7].part = "graph_guard_condition" /\ s[7].undo = Goto(ContextUnwind, "session")
    BY ContextStepsAre
  <2> QED BY <1>0, <2>1, ContextUnwindIs DEF MayFail, ThroughState, Fallible, Mutexes
<1>8. Undoes("context", 8)
  <2>1. s[8].part = "read_task" /\ s[8].undo = Goto(ContextUnwind, "graph_guard_condition")
    BY ContextStepsAre
  <2> QED BY <1>0, <2>1, ContextUnwindIs DEF MayFail, ThroughState, Fallible, Mutexes
<1>9. Undoes("context", 9)
  <2>1. s[9].part = "lease_task" /\ s[9].undo = Goto(ContextUnwind, "lease_task")
    BY ContextStepsAre
  <2> QED BY <1>0, <2>1, ContextUnwindIs DEF MayFail, ThroughState, Fallible, Mutexes
<1> HIDE DEF Undoes
<1> QED
  BY ContextStepsAre, <1>1, <1>2, <1>3, <1>4, <1>5, <1>6, <1>7, <1>8, <1>9

\* Every step comes after what it needs.
LEMMA ContextFollows == \A n \in 1 .. Len(Steps["context"]) : Follows("context", n)
<1> USE DEF Follows, Sure, Acquired, Checks, HandlerUses, OfNode
<1>1. /\ Follows("context", 1) /\ Follows("context", 2) /\ Follows("context", 3)
      /\ Follows("context", 4) /\ Follows("context", 5) /\ Follows("context", 6)
      /\ Follows("context", 7)
  BY ContextStepsAre, ContextDone
<1>2. Follows("context", 8)
  <2>1. Steps["context"][8].part = "read_task"
    BY ContextStepsAre
  <2> QED BY <2>1, ContextDone
<1>3. Follows("context", 9)
  <2>1. Steps["context"][9].part = "lease_task"
    BY ContextStepsAre
  <2> QED BY <2>1, ContextDone
<1> HIDE DEF Follows
<1> QED BY <1>1, <1>2, <1>3, ContextStepsAre

\* So its tables are sound.
LEMMA ContextIsSound == Sound("context")
<1>1. Full("context") = {"impl", "security", "discovery", "enclave", "options_impl",
                         "session", "graph_guard_condition", "read_task", "lease_task"}
  <2>1. Len(Steps["context"]) = 9
    BY ContextStepsAre
  <2> QED BY <2>1, ContextDone DEF Full, Acquired, Checks
<1>2. /\ InOrder("context", Temporaries("context"))
      /\ Range(Temporaries("context")) = {}
      /\ Tasks("context") = {"session", "read_task", "lease_task"}
  BY TemporariesAre, KindsAre DEF OfNode, Tasks
<1>3. SettlesWell("context")
  BY <1>1, <1>2 DEF SettlesWell, HandlerUses, Container, MayFail, ThroughState, Fallible, Mutexes
<1>4. DestroysWell("context")
  BY <1>1, <1>2, ContextReleasesAre, KnownLeaksAre
     DEF DestroysWell, Releasable, NullIsFreed, Container, Kept, Most,
         MayFail, ThroughState, Fallible, Mutexes
<1>5. Tasks("context") \subseteq Full("context") /\ "impl" \in Kept("context")
  BY <1>1, <1>2 DEF Kept
<1> QED
  BY <1>3, <1>4, <1>5, ContextStepsAre, ContextUndoes, ContextFollows DEF Sound

-----------------------------------------------------------------------------

\* The nine create functions and the nine destroy functions undo what they must.
LEMMA TablesAreSound == \A k \in Kinds : Sound(k)
BY KindsAre, PublisherIsSound, SubscriptionIsSound, ServiceIsSound,
   ClientIsSound, NodeIsSound, GuardConditionIsSound,
   WaitSetIsSound, InitOptionsIsSound, ContextIsSound

-----------------------------------------------------------------------------
(* The steps of the tables.                                                *)

\* The depth of a profile that is not refused is never zero.
LEMMA AdaptedDepth ==
  ASSUME NEW profile \in Profiles
  PROVE  Adapt(profile).depth \in Nat \ {0}
<1>1. profile \in QosProfiles /\ DefaultDepth \in Nat \ {0}
  BY ProfilesAssumption DEF DefaultDepth
<1> QED BY <1>1 DEF Adapt, QosProfiles

\* One step of a create function, as the tables promise it.
LEMMA StepOfTable ==
  ASSUME NEW k \in Kinds, NEW n \in 1 .. Len(Steps[k])
  PROVE  /\ Steps[k][n].part \in PartsOf(k)
         /\ Done(k, n) = Done(k, n - 1) \cup {Steps[k][n].part}
         /\ Acquired(k, n) = Acquired(k, n - 1) \cup ({Steps[k][n].part} \ Checks)
         /\ Undoes(k, n) /\ Follows(k, n)
<1>1. IsList(Steps[k]) /\ Undoes(k, n) /\ Follows(k, n)
  BY TablesAreSound DEF Sound
<1>2. DOMAIN Steps[k] = 1 .. Len(Steps[k]) /\ Len(Steps[k]) \in Nat
  BY <1>1, LenProperties DEF IsList
<1>3. Steps[k][n] \in Range(Steps[k])
  BY <1>2 DEF Range
<1>4. Steps[k][n].part \in PartsOf(k)
  BY <1>3 DEF PartsOf
<1>5. \A i \in 1 .. n : i \in 1 .. n - 1 \/ i = n
  OBVIOUS
<1>6. Done(k, n) = Done(k, n - 1) \cup {Steps[k][n].part}
  BY <1>5 DEF Done
<1> QED BY <1>1, <1>4, <1>6 DEF Acquired

\* An entity acquires its own parts.
LEMMA DoneIsOfKind ==
  ASSUME NEW k \in Kinds, NEW n \in 0 .. Len(Steps[k])
  PROVE  Acquired(k, n) \subseteq PartsOf(k)
<1>1. Len(Steps[k]) \in Nat
  BY TablesAreSound, LenProperties DEF Sound, IsList
<1>2. \A i \in 1 .. n : i \in 1 .. Len(Steps[k])
  BY <1>1
<1>3. \A i \in 1 .. n : Steps[k][i].part \in PartsOf(k)
  BY <1>2, StepOfTable
<1> QED BY <1>3 DEF Acquired, Done

\* Where a create function is when it has steps left.
LEMMA NextStep ==
  ASSUME IInv, op.phase = "create", op.todo # <<>>
  PROVE  \E n \in 1 .. Len(Steps[op.kind]) :
           /\ CreatedTo(n - 1)
           /\ Head(op.todo) = Steps[op.kind][n]
           /\ Tail(op.todo) = SubSeq(Steps[op.kind], n + 1, Len(Steps[op.kind]))
<1> DEFINE s == Steps[op.kind]
<1>1. PICK m \in 0 .. Len(s) : CreatedTo(m)
  BY DEF IInv, Creating
<1>2. IsList(s) /\ Len(s) \in Nat
  BY TablesAreSound, LenProperties DEF IInv, Types, TypeOK, Sound, IsList
<1>3. op.todo = SubSeq(s, m + 1, Len(s))
  BY <1>1 DEF CreatedTo
<1> HIDE DEF s
<1>4. /\ m # Len(s) /\ m < Len(s)
      /\ Head(op.todo) = s[m + 1]
      /\ Tail(op.todo) = SubSeq(s, m + 2, Len(s))
  BY <1>2, <1>3, RestOfList
<1>5. m + 1 \in 1 .. Len(s) /\ (m + 1) - 1 = m /\ (m + 1) + 1 = m + 2
  BY <1>2, <1>4
<1> QED BY <1>1, <1>4, <1>5 DEF s

\* Where it is when it has none left.
LEMMA AllSteps ==
  ASSUME IInv, op.phase = "create", op.todo = <<>>
  PROVE  CreatedTo(Len(Steps[op.kind]))
<1> DEFINE s == Steps[op.kind]
<1>1. PICK m \in 0 .. Len(s) : CreatedTo(m)
  BY DEF IInv, Creating
<1>2. IsList(s)
  BY TablesAreSound DEF IInv, Types, TypeOK, Sound
<1>3. op.todo = SubSeq(s, m + 1, Len(s))
  BY <1>1 DEF CreatedTo
<1> HIDE DEF s
<1>4. m = Len(s)
  BY <1>2, <1>3, RestOfList
<1> QED BY <1>1, <1>4 DEF s

-----------------------------------------------------------------------------
(* The invariant holds at first and is kept by each step.                  *)

\* At first nothing is there.
LEMMA InitIInv == Init => IInv
<1> SUFFICES ASSUME Init PROVE IInv
  OBVIOUS
<1> USE DEF Init, NoOp
<1>1. Types
  BY KindsAre DEF Types, TypeOK, OfNode
<1>2. AtRest
  BY DEF AtRest, Absent
<1>3. SessionRuns
  BY DEF SessionRuns
<1>4. Callable /\ TasksRunOnSession
  BY KindsAre DEF Callable, TasksRunOnSession
<1>5. Creating /\ Dismantling /\ Settling /\ Unwinding /\ Destroying /\ Tolerated
  BY DEF Creating, Dismantling, Settling, Unwinding, Destroying, Tolerated
<1> QED BY <1>1, <1>2, <1>3, <1>4, <1>5 DEF IInv

\* A create function begins with nothing.
LEMMA CreateIInv ==
  ASSUME IInv, NEW k \in Kinds, Create(k)
  PROVE  IInv'
<1>1. /\ op = NoOp /\ k \notin live
      /\ op' = [kind |-> k, phase |-> "create", todo |-> Steps[k], ret |-> "RMW_RET_OK"]
      /\ UNCHANGED <<held, released, live, capacity, shutting, is_shutdown>>
  BY DEF Create
<1>2. held[k] = {} /\ released[k] = {}
  BY <1>1 DEF IInv, AtRest, Busy, Absent, NoOp
<1>3. Types'
  BY <1>1 DEF IInv, Types, TypeOK
<1>4. AtRest'
  BY <1>1 DEF IInv, AtRest, Busy, Absent, Present, NoOp
<1>5. Creating'
  <2>1. Steps[k] \in Seq(Range(Steps[k])) /\ Len(Steps[k]) \in Nat
    BY TablesAreSound, LenProperties DEF Sound, IsList
  <2>2. SubSeq(Steps[k], 0 + 1, Len(Steps[k])) = Steps[k]
    BY <2>1, SubSeqFull
  <2>3. Done(k, 0) = {}
    BY DEF Done
  <2>4. CreatedTo(0)'
    BY <1>1, <1>2, <2>2, <2>3 DEF CreatedTo, Sure, Acquired
  <2> QED BY <1>1, <1>2, <2>1, <2>4 DEF Creating
<1>6. Dismantling' /\ Settling' /\ Unwinding' /\ Destroying' /\ Tolerated'
  BY <1>1 DEF Dismantling, Settling, Unwinding, Destroying, Tolerated
<1>7. SessionRuns' /\ Callable'
  BY <1>1 DEF IInv, SessionRuns, Callable, Reachable
<1>8. TasksRunOnSession'
  BY <1>1 DEF IInv, TasksRunOnSession, NoOp
<1> QED BY <1>3, <1>4, <1>5, <1>6, <1>7, <1>8 DEF IInv

\* One more step of a create function is done, with the part it acquires or, for
\* queries, without.
LEMMA StepIInv ==
  ASSUME IInv, op.phase = "create", op.todo # <<>>,
         NEW n \in 1 .. Len(Steps[op.kind]), CreatedTo(n - 1),
         Tail(op.todo) = SubSeq(Steps[op.kind], n + 1, Len(Steps[op.kind])),
         NEW got, got = {Steps[op.kind][n].part} \ Checks \/
                  (got = {} /\ Steps[op.kind][n].part = "queries"),
         held' = [held EXCEPT ![op.kind] = @ \cup got],
         op' = [op EXCEPT !.todo = Tail(@)],
         UNCHANGED <<released, live, shutting, is_shutdown>>,
         capacity' \in [OfNode -> Nat],
         \A j \in OfNode : capacity'[j] # capacity[j] =>
           j = op.kind /\ Steps[op.kind][n].part = "adapted_qos",
         Steps[op.kind][n].part = "adapted_qos" => capacity'[op.kind] >= 1
  PROVE  IInv'
<1> DEFINE k == op.kind
           part == Steps[k][n].part
<1>1. k \in Kinds /\ Len(Steps[k]) \in Nat /\ k \notin live /\ released[k] = {}
  BY TablesAreSound, LenProperties DEF IInv, Types, TypeOK, Sound, IsList, Creating
<1>2. /\ part \in PartsOf(k)
      /\ Done(k, n) = Done(k, n - 1) \cup {part}
      /\ Acquired(k, n) = Acquired(k, n - 1) \cup ({part} \ Checks)
      /\ Follows(k, n)
  BY <1>1, StepOfTable
<1>3. /\ op' = [kind |-> k, phase |-> "create", todo |-> Tail(op.todo), ret |-> "RMW_RET_OK"]
      /\ op.ret = "RMW_RET_OK"
      /\ op'.kind = k /\ op'.phase = "create" /\ op'.todo = Tail(op.todo)
      /\ op'.ret = "RMW_RET_OK"
  BY DEF IInv, Types, Creating
<1>4. /\ held' \in [Kinds -> SUBSET Parts]
      /\ held'[k] = held[k] \cup got
      /\ \A j \in Kinds : j # k => held'[j] = held[j]
  <2>1. got \subseteq Parts
    BY <1>1, <1>2 DEF Parts
  <2> QED BY <1>1, <2>1 DEF IInv, Types
<1>5. Sure(k, n - 1) \subseteq held[k] /\ held[k] \subseteq Acquired(k, n - 1)
  BY DEF CreatedTo
<1>6. Sure(k, n) \subseteq held'[k] /\ held'[k] \subseteq Acquired(k, n)
  BY <1>2, <1>4, <1>5 DEF Sure
<1> HIDE DEF k, part
<1>7. Types'
  <2>1. \A j \in Kinds : held'[j] \subseteq PartsOf(j)
    BY <1>2, <1>4 DEF IInv, Types, TypeOK, part, k
  <2> QED BY <1>1, <1>3, <1>4, <2>1 DEF IInv, Types, TypeOK
<1>8. AtRest'
  BY <1>3, <1>4 DEF IInv, AtRest, Busy, Absent, Present, k
<1>9. Creating'
  <2>1. CreatedTo(n)'
    <3>1. op'.todo = SubSeq(Steps[k], n + 1, Len(Steps[k]))
      BY <1>3 DEF k
    <3>2. k \in OfNode /\ "adapted_qos" \in Done(k, n) => capacity'[k] >= 1
      BY <1>2 DEF CreatedTo, k, part
    <3> QED BY <1>3, <1>6, <3>1, <3>2 DEF CreatedTo
  <2>2. n \in 0 .. Len(Steps[k])
    BY <1>1 DEF k
  <2> QED BY <1>1, <1>3, <2>1, <2>2 DEF Creating
<1>10. Dismantling' /\ Settling' /\ Unwinding' /\ Destroying' /\ Tolerated'
  BY <1>3 DEF Dismantling, Settling, Unwinding, Destroying, Tolerated
<1>11. SessionRuns'
  <2>1. "context" \in live => k # "context" /\ "context" \in Kinds
    BY <1>1, KindsAre
  <2> QED BY <1>4, <2>1 DEF IInv, SessionRuns
<1>12. Callable'
  <2> SUFFICES ASSUME NEW j \in {"subscription", "service"},
                      "declaration" \in held'[j] \ released'[j]
               PROVE  HandlerUses(j) \subseteq held'[j] /\ capacity'[j] >= 1
    BY DEF Callable, Reachable
  <2>1. j \in Kinds /\ j \in OfNode
    BY KindsAre DEF OfNode
  <2>2. CASE "declaration" \in held[j]
    <3>1. HandlerUses(j) \subseteq held[j] /\ capacity[j] >= 1
      BY <2>2 DEF IInv, Callable, Reachable
    <3>2. capacity'[j] >= 1
      BY <2>1, <3>1 DEF k
    <3> QED BY <1>4, <2>1, <3>1, <3>2
  <2>3. CASE "declaration" \notin held[j]
    <3>1. j = k /\ part = "declaration"
      BY <1>4, <2>1, <2>3 DEF part, k
    <3>2. HandlerUses(k) \subseteq Sure(k, n - 1) /\ "adapted_qos" \in Done(k, n - 1)
      BY <1>2, <3>1 DEF Follows, part
    <3>3. capacity[k] >= 1 /\ capacity'[k] = capacity[k]
      BY <2>1, <3>1, <3>2 DEF CreatedTo, part, k
    <3> QED BY <1>4, <1>5, <3>1, <3>2, <3>3
  <2> QED BY <2>2, <2>3
<1>13. TasksRunOnSession'
  <2>1. /\ "context" \in Kinds
        /\ held["context"] \cap {"read_task", "lease_task"} # {} =>
             {"impl", "session"} \subseteq held["context"]
    BY KindsAre DEF IInv, TasksRunOnSession
  <2>2. CASE k # "context"
    BY <1>4, <2>1, <2>2 DEF TasksRunOnSession
  <2>3. CASE k = "context"
    <3>1. part \in {"read_task", "lease_task"} => {"impl", "session"} \subseteq held[k]
      BY <1>2, <1>5 DEF Follows, part
    <3> QED BY <1>4, <2>1, <2>3, <3>1 DEF TasksRunOnSession, part, k
  <2> QED BY <2>2, <2>3
<1> QED BY <1>7, <1>8, <1>9, <1>10, <1>11, <1>12, <1>13 DEF IInv

\* A step succeeds: what a data handler needs is there before its declaration.
LEMMA AcquireIInv ==
  ASSUME IInv, Acquire
  PROVE  IInv'
<1> DEFINE k == op.kind
<1>1. op.phase = "create" /\ op.todo # <<>>
  BY DEF Acquire
<1>2. PICK n \in 1 .. Len(Steps[k]) :
        /\ CreatedTo(n - 1)
        /\ Head(op.todo) = Steps[k][n]
        /\ Tail(op.todo) = SubSeq(Steps[k], n + 1, Len(Steps[k]))
  BY <1>1, NextStep
<1> DEFINE part == Steps[k][n].part
<1>3. /\ held' = [held EXCEPT ![k] = @ \cup ({part} \ Checks)]
      /\ op' = [op EXCEPT !.todo = Tail(@)]
      /\ UNCHANGED <<released, live, shutting, is_shutdown>>
  BY <1>2 DEF Acquire
<1>4. /\ capacity' \in [OfNode -> Nat]
      /\ \A j \in OfNode : capacity'[j] # capacity[j] => j = k /\ part = "adapted_qos"
      /\ part = "adapted_qos" => capacity'[k] >= 1
  <2>1. capacity \in [OfNode -> Nat] /\ k \in Kinds
    BY DEF IInv, Types, TypeOK
  <2>2. CASE part = "adapted_qos"
    <3>1. PICK profile \in Profiles :
            capacity' = [capacity EXCEPT ![k] = Adapt(profile).depth]
      BY <1>2, <2>2 DEF Acquire
    <3>2. k \in OfNode
      BY <2>1, <2>2, StepOfTable DEF Follows
    <3>3. Adapt(profile).depth \in Nat /\ Adapt(profile).depth >= 1
      BY AdaptedDepth
    <3> QED BY <2>1, <2>2, <3>1, <3>2, <3>3
  <2>3. CASE part # "adapted_qos"
    BY <1>2, <2>1, <2>3 DEF Acquire
  <2> QED BY <2>2, <2>3
<1> QED BY <1>1, <1>2, <1>3, <1>4, StepIInv

\* The failure that goes unnoticed.
LEMMA AllocateQueriesFailsIInv ==
  ASSUME IInv, AllocateQueriesFails
  PROVE  IInv'
<1> DEFINE k == op.kind
<1>1. /\ op.phase = "create" /\ op.todo # <<>> /\ Head(op.todo).part = "queries"
      /\ op' = [op EXCEPT !.todo = Tail(@)]
      /\ UNCHANGED <<held, released, live, capacity, shutting, is_shutdown>>
  BY DEF AllocateQueriesFails
<1>2. PICK n \in 1 .. Len(Steps[k]) :
        /\ CreatedTo(n - 1)
        /\ Head(op.todo) = Steps[k][n]
        /\ Tail(op.todo) = SubSeq(Steps[k], n + 1, Len(Steps[k]))
  BY <1>1, NextStep
<1>3. Steps[k][n].part = "queries" /\ Steps[k][n].part # "adapted_qos"
  BY <1>1, <1>2
<1>4. held' = [held EXCEPT ![k] = @ \cup {}] /\ capacity' \in [OfNode -> Nat]
  BY <1>1 DEF IInv, Types, TypeOK
<1> QED BY <1>1, <1>2, <1>3, <1>4, StepIInv

\* A step fails: what its goto releases is there, and is all but the leaks.
LEMMA AcquireFailsIInv ==
  ASSUME IInv, AcquireFails
  PROVE  IInv'
<1> DEFINE k == op.kind
<1>1. op.phase = "create" /\ op.todo # <<>>
  BY DEF AcquireFails
<1>2. PICK n \in 1 .. Len(Steps[k]) : CreatedTo(n - 1) /\ Head(op.todo) = Steps[k][n]
  BY <1>1, NextStep
<1> DEFINE step == Steps[k][n]
<1>3. /\ step.part \notin {"queries", "config"}
      /\ op'.kind = k /\ op'.phase = "unwind" /\ op'.todo = step.undo
      /\ op'.ret = IF step.part \in SilentFailures THEN op.ret ELSE "RMW_RET_ERROR"
      /\ op' = [kind |-> k, phase |-> "unwind", todo |-> op'.todo, ret |-> op'.ret]
      /\ UNCHANGED <<held, released, live, capacity, shutting, is_shutdown>>
  BY <1>2 DEF AcquireFails, IInv, Types
<1>4. /\ k \in Kinds /\ k \notin live /\ released[k] = {} /\ op.ret = "RMW_RET_OK"
      /\ Sure(k, n - 1) \subseteq held[k] /\ held[k] \subseteq Acquired(k, n - 1)
  BY <1>1, <1>2 DEF IInv, Types, TypeOK, Creating, CreatedTo
<1>5. /\ InOrder(k, step.undo)
      /\ \A p \in Range(step.undo) : p \in PartsOf(k) /\ Releasable(k, p, Sure(k, n - 1))
      /\ Acquired(k, n - 1) \ Range(step.undo) \subseteq KnownLeaks.unwind[k]
      /\ "declaration" \notin Acquired(k, n - 1)
      /\ step.part \in SilentFailures =>
           Range(step.undo) \cap MayFail(k) \subseteq KnownLeaks.unwind[k]
  BY <1>3, <1>4, StepOfTable DEF Undoes
<1> HIDE DEF k, step
<1>6. Types'
  BY <1>3, <1>4 DEF IInv, Types, TypeOK
<1>7. AtRest'
  BY <1>1, <1>3 DEF IInv, AtRest, Busy, Absent, Present, k
<1>8. Dismantling'
  BY <1>3, <1>4, <1>5 DEF Dismantling, Releasable
<1>9. Unwinding'
  BY <1>3, <1>4, <1>5 DEF Unwinding
<1>10. Creating' /\ Settling' /\ Destroying'
  BY <1>3 DEF Creating, Settling, Destroying
<1>11. SessionRuns' /\ Callable'
  BY <1>3 DEF IInv, SessionRuns, Callable, Reachable
<1>12. TasksRunOnSession'
  BY <1>1, <1>3 DEF IInv, TasksRunOnSession
<1>13. Tolerated'
  BY <1>3, <1>5 DEF Tolerated
<1> QED BY <1>6, <1>7, <1>8, <1>9, <1>10, <1>11, <1>12, <1>13 DEF IInv

\* All steps are done: only the temporary strings are left to free.
LEMMA SettleIInv ==
  ASSUME IInv, Settle
  PROVE  IInv'
<1> DEFINE k == op.kind
<1>1. op.phase = "create" /\ op.todo = <<>>
  BY DEF Settle
<1>2. /\ op'.kind = k /\ op'.phase = "settle" /\ op'.todo = Temporaries(k)
      /\ op'.ret = op.ret
      /\ op' = [kind |-> k, phase |-> "settle", todo |-> op'.todo, ret |-> op'.ret]
      /\ UNCHANGED <<held, released, live, capacity, shutting, is_shutdown>>
  BY DEF Settle, IInv, Types
<1>3. /\ k \in Kinds /\ k \notin live /\ released[k] = {} /\ op.ret = "RMW_RET_OK"
      /\ Full(k) \ {"queries"} \subseteq held[k] /\ held[k] \subseteq Full(k)
  BY <1>1, AllSteps DEF IInv, Types, TypeOK, Creating, CreatedTo, Full, Sure
<1>4. SettlesWell(k) /\ (k = "context" => Tasks(k) \subseteq Full(k))
  BY <1>3, TablesAreSound DEF Sound
<1>5. Full(k) \subseteq PartsOf(k)
  <2>1. Len(Steps[k]) \in 0 .. Len(Steps[k])
    BY <1>3, TablesAreSound, LenProperties DEF Sound, IsList
  <2> QED BY <1>3, <2>1, DoneIsOfKind DEF Full
<1> HIDE DEF k
<1>6. Types'
  BY <1>2, <1>3 DEF IInv, Types, TypeOK
<1>7. AtRest'
  BY <1>1, <1>2 DEF IInv, AtRest, Busy, Absent, Present, k
<1>8. Dismantling'
  BY <1>2, <1>3, <1>4, <1>5 DEF Dismantling, Releasable, SettlesWell
<1>9. Settling'
  <2>1. Tasks(k) \subseteq held[k]
    BY <1>3, <1>4 DEF Tasks
  <2> QED BY <1>2, <1>3, <2>1 DEF Settling, Kept, Most
<1>10. Creating' /\ Unwinding' /\ Destroying' /\ Tolerated'
  BY <1>2 DEF Creating, Unwinding, Destroying, Tolerated
<1>11. SessionRuns' /\ Callable'
  BY <1>2 DEF IInv, SessionRuns, Callable, Reachable
<1>12. TasksRunOnSession'
  BY <1>1, <1>2 DEF IInv, TasksRunOnSession
<1> QED BY <1>6, <1>7, <1>8, <1>9, <1>10, <1>11, <1>12 DEF IInv

\* A destroy function finds what it releases, whatever queries and shutdown left.
LEMMA DestroyIInv ==
  ASSUME IInv, NEW k \in Kinds, Destroy(k)
  PROVE  IInv'
<1>1. /\ op = NoOp /\ k \in live /\ (k = "context" => is_shutdown)
      /\ op'.kind = k /\ op'.phase = "destroy" /\ op'.todo = Releases[k]
      /\ op'.ret = "RMW_RET_OK"
      /\ op' = [kind |-> k, phase |-> "destroy", todo |-> op'.todo, ret |-> op'.ret]
      /\ UNCHANGED <<released, live, capacity, shutting, is_shutdown>>
  BY DEF Destroy
<1>2. Present(k)
  BY <1>1 DEF IInv, AtRest, Busy, NoOp
<1>3. DestroysWell(k)
  BY TablesAreSound DEF Sound
<1>4. held[k] \cap Tasks(k) = {}
  BY <1>1 DEF IInv, SessionRuns, Tasks
<1>5. PICK left \in SUBSET Stored(k) : held' = [held EXCEPT ![k] = @ \cup left]
  BY DEF Destroy
<1>6. /\ held'[k] = held[k] \cup left
      /\ \A j \in Kinds : j # k => held'[j] = held[j]
      /\ left \subseteq PartsOf(k) /\ left \subseteq KnownLeaks.destroy[k]
      /\ left \cap (Tasks(k) \cup {"declaration"}) = {}
  BY <1>3, <1>5 DEF IInv, Types, DestroysWell, PartsOf
<1>7. Types'
  <2>1. held' \in [Kinds -> SUBSET Parts]
    BY <1>5, <1>6 DEF IInv, Types, Parts
  <2>2. \A j \in Kinds : held'[j] \subseteq PartsOf(j)
    BY <1>6 DEF IInv, Types, TypeOK
  <2> QED BY <1>1, <2>1, <2>2 DEF IInv, Types, TypeOK
<1>8. AtRest'
  BY <1>1, <1>6 DEF IInv, AtRest, Busy, Absent, Present, NoOp
<1>9. Dismantling'
  BY <1>1, <1>2, <1>3, <1>6 DEF Dismantling, DestroysWell, Present, Releasable, PartsOf
<1>10. Destroying'
  BY <1>1, <1>2, <1>3, <1>4, <1>6 DEF Destroying, DestroysWell, Present
<1>11. Creating' /\ Settling' /\ Unwinding'
  BY <1>1 DEF Creating, Settling, Unwinding
<1>12. Tolerated'
  BY <1>1, <1>3 DEF Tolerated, DestroysWell
<1>13. /\ "context" \in Kinds
       /\ held'["context"] \cap Tasks("context") = held["context"] \cap Tasks("context")
  BY <1>6, KindsAre
<1>14. SessionRuns'
  BY <1>1, <1>13 DEF IInv, SessionRuns
<1>15. Callable'
  BY <1>1, <1>6, KindsAre DEF IInv, Callable, Reachable
<1>16. TasksRunOnSession'
  <2>1. held["context"] \subseteq held'["context"]
    BY <1>6, <1>13
  <2> QED BY <1>1, <1>13, <2>1 DEF IInv, TasksRunOnSession, NoOp, Tasks
<1> QED BY <1>7, <1>8, <1>9, <1>10, <1>11, <1>12, <1>14, <1>15, <1>16 DEF IInv

\* The release of a part is called, and the part is gone, or its release has failed
\* and that is tolerated: what is left to release does not need it, nor do callbacks.
LEMMA ReleaseStepIInv ==
  ASSUME IInv, Releasing,
         NEW gone \in SUBSET {Head(op.todo)},
         held' = [held EXCEPT ![op.kind] = @ \ gone],
         released' = [released EXCEPT ![op.kind] = @ \cup {Head(op.todo)}],
         NEW rest, rest \in {Tail(op.todo), AfterFailure},
         NEW ret \in {op.ret, "RMW_RET_ERROR"},
         op' = [kind |-> op.kind, phase |-> op.phase, todo |-> rest, ret |-> ret],
         \/ gone = {Head(op.todo)} /\ rest = Tail(op.todo)
         \/ /\ Head(op.todo) \in MayFail(op.kind)
            /\ \/ ret = "RMW_RET_ERROR"
               \/ op.phase # "destroy" \/ Head(op.todo) \notin Fallible
                    \/ op.kind = "guard_condition",
         UNCHANGED <<live, capacity, shutting, is_shutdown>>
  PROVE  IInv'
<1> DEFINE k == op.kind
           part == Head(op.todo)
           skipped == IF rest = Tail(op.todo) THEN {} ELSE {"discovery"}
           lost == IF ret = "RMW_RET_ERROR" THEN released'[k] \cup {"discovery"} ELSE {}
<1>1. /\ op.phase \in {"settle", "unwind", "destroy"} /\ op.todo # <<>>
      /\ op'.kind = k /\ op'.phase = op.phase /\ op'.todo = rest /\ op'.ret = ret
  BY DEF Releasing
<1>2. k \in Kinds /\ op.ret \in {"RMW_RET_OK", "RMW_RET_ERROR"} /\ "context" \in Kinds
  BY KindsAre DEF IInv, Types, TypeOK
<1>3. /\ InOrder(k, op.todo)
      /\ Range(op.todo) \subseteq PartsOf(k) \ released[k]
      /\ \A p \in Range(op.todo) : Releasable(k, p, held[k])
  BY <1>1 DEF IInv, Dismantling
<1>4. /\ InOrder(k, rest)
      /\ Range(op.todo) = {part} \cup Range(rest) \cup skipped
      /\ part \notin Range(rest)
      /\ \A q \in Range(rest) : part \notin Later(k, q)
      /\ skipped # {} => part = "security"
  <2> DEFINE list == op.todo
  <2>1. InOrder(k, list) /\ list # <<>>
    BY <1>1, <1>3
  <2>2. /\ rest = Tail(list) \/ rest = AfterFailure
        /\ AfterFailure =
             IF part = "security" /\ Tail(list) # <<>> /\ Head(Tail(list)) = "discovery"
               THEN Tail(Tail(list)) ELSE Tail(list)
        /\ part = Head(list)
    BY DEF AfterFailure
  <2> HIDE DEF list, part, k
  <2>3. /\ InOrder(k, Tail(list))
        /\ Range(list) = {part} \cup Range(Tail(list))
        /\ part \notin Range(Tail(list))
        /\ \A q \in Range(Tail(list)) : part \notin Later(k, q)
    BY <2>1, <2>2, TailInOrder
  <2>4. CASE rest = Tail(list)
    BY <2>3, <2>4 DEF list
  <2>5. CASE rest # Tail(list)
    <3>1. /\ part = "security" /\ Tail(list) # <<>> /\ Head(Tail(list)) = "discovery"
          /\ rest = Tail(Tail(list))
      BY <2>2, <2>5
    <3> DEFINE more == Tail(list)
    <3>2. InOrder(k, more) /\ more # <<>>
      BY <2>3, <3>1
    <3> HIDE DEF more
    <3>3. /\ InOrder(k, Tail(more))
          /\ Range(more) = {Head(more)} \cup Range(Tail(more))
      BY <3>2, TailInOrder
    <3> QED BY <2>3, <2>5, <3>1, <3>3 DEF more, list
  <2> QED BY <2>4, <2>5 DEF list
<1> HIDE DEF k, part, skipped, lost
<1>5. /\ held' \in [Kinds -> SUBSET Parts] /\ released' \in [Kinds -> SUBSET Parts]
      /\ held'[k] = held[k] \ gone /\ released'[k] = released[k] \cup {part}
      /\ \A j \in Kinds : j # k => held'[j] = held[j] /\ released'[j] = released[j]
      /\ \A j \in Kinds : held'[j] \subseteq held[j]
      /\ gone \subseteq {part}
  <2>1. part \in Parts
    BY <1>2, <1>3, <1>4 DEF Parts
  <2> QED BY <1>1, <1>2, <2>1 DEF IInv, Types, k, part
<1>6. Types'
  <2>1. \A j \in Kinds : held'[j] \subseteq PartsOf(j) /\ released'[j] \subseteq PartsOf(j)
    BY <1>3, <1>4, <1>5 DEF IInv, Types, TypeOK
  <2>2. op' = [kind |-> op'.kind, phase |-> op'.phase, todo |-> op'.todo, ret |-> op'.ret]
    BY <1>1 DEF k
  <2> QED BY <1>1, <1>2, <1>5, <2>1, <2>2 DEF IInv, Types, TypeOK
<1>7. AtRest'
  BY <1>1, <1>5 DEF IInv, AtRest, Busy, Absent, Present, k
<1>8. Dismantling'
  <2>1. ASSUME NEW q \in Range(rest) PROVE Releasable(k, q, held'[k])
    BY <1>3, <1>4, <1>5, <2>1 DEF Releasable, Later
  <2>2. Range(rest) \subseteq PartsOf(k) \ released'[k]
    BY <1>3, <1>4, <1>5
  <2> QED BY <1>1, <1>4, <2>1, <2>2 DEF Dismantling
<1>9. op.phase = "settle" =>
        /\ part \in Range(Temporaries(k))
        /\ part \notin Kept(k) \cup Tasks(k) \cup HandlerUses(k) \cup MayFail(k)
  <2>1. SettlesWell(k)
    BY <1>2, TablesAreSound DEF Sound
  <2>2. op.phase = "settle" => part \in Range(Temporaries(k))
    BY <1>4 DEF IInv, Settling, k
  <2> QED BY <2>1, <2>2 DEF SettlesWell, Kept
<1>10. ASSUME op.phase \in {"unwind", "destroy"}
       PROVE  (held'[k] \ Range(rest)) \ (held[k] \ Range(op.todo)) \subseteq
                KnownLeaks[op.phase][k] \cup lost
  <2>1. (held'[k] \ Range(rest)) \ (held[k] \ Range(op.todo)) \subseteq ({part} \ gone) \cup skipped
    BY <1>4, <1>5
  <2>2. CASE gone = {part} /\ rest = Tail(op.todo)
    BY <2>1, <2>2 DEF skipped
  <2>3. CASE ret = "RMW_RET_ERROR"
    BY <1>5, <2>1, <2>3 DEF skipped, lost
  <2>4. CASE /\ ret # "RMW_RET_ERROR"
             /\ part \in MayFail(k)
             /\ op.phase # "destroy" \/ part \notin Fallible \/ k = "guard_condition"
    <3>1. \A p \in Range(op.todo) \cap MayFail(k) :
            \/ p \in KnownLeaks[op.phase][k]
            \/ op.phase = "destroy" /\ p \in Fallible /\ k # "guard_condition"
      BY <1>10, <2>4 DEF IInv, Tolerated, k
    <3>2. part \in KnownLeaks[op.phase][k]
      BY <1>4, <2>4, <3>1
    <3>3. skipped \subseteq KnownLeaks[op.phase][k]
      <4>1. "security" \in Fallible /\ "discovery" \in MayFail(k)
        BY DEF MayFail, Fallible
      <4> QED BY <1>4, <2>4, <3>1, <4>1 DEF skipped
    <3> QED BY <2>1, <3>2, <3>3
  <2> QED BY <2>2, <2>3, <2>4 DEF part, k
<1>11. Unreleased(k) \subseteq lost
  BY <1>1, <1>2, <1>5 DEF Unreleased, lost, k
<1>12. Settling' /\ Unwinding' /\ Destroying' /\ Creating'
  <2>1. ASSUME op.phase = "settle" PROVE Settling'
    <3>1. /\ Range(op.todo) \subseteq Range(Temporaries(k))
          /\ Kept(k) \cup Tasks(k) \subseteq held[k]
          /\ held[k] \ Range(op.todo) \subseteq Most(k)
          /\ released[k] \subseteq Range(Temporaries(k))
          /\ k \notin live
      BY <1>4, <2>1 DEF IInv, Settling, k
    <3>2. Kept(k) \cup Tasks(k) \subseteq held'[k]
      BY <1>5, <1>9, <2>1, <3>1
    <3>3. gone = {part} /\ rest = Tail(op.todo)
      BY <1>9, <2>1 DEF part, k
    <3>4. held'[k] \ Range(rest) \subseteq held[k] \ Range(op.todo)
      BY <1>4, <1>5, <3>3 DEF skipped
    <3> QED BY <1>1, <1>4, <1>5, <1>9, <2>1, <3>1, <3>2, <3>4 DEF Settling
  <2>2. ASSUME op.phase = "unwind" PROVE Unwinding'
    <3>1. /\ held[k] \ Range(op.todo) \subseteq KnownLeaks.unwind[k] \cup Unreleased(k)
          /\ "declaration" \notin held[k] /\ k \notin live
      BY <2>2 DEF IInv, Unwinding, k
    <3>2. held'[k] \ Range(rest) \subseteq KnownLeaks.unwind[k] \cup lost
      BY <1>10, <1>11, <2>2, <3>1
    <3> QED BY <1>1, <1>5, <2>2, <3>1, <3>2 DEF Unwinding, Unreleased, lost
  <2>3. ASSUME op.phase = "destroy" PROVE Destroying'
    <3>1. /\ held[k] \ Range(op.todo) \subseteq KnownLeaks.destroy[k] \cup Unreleased(k)
          /\ k \in live /\ (k = "context" => is_shutdown)
      BY <2>3 DEF IInv, Destroying, k
    <3>2. held'[k] \ Range(rest) \subseteq KnownLeaks.destroy[k] \cup lost
      BY <1>10, <1>11, <2>3, <3>1
    <3> QED BY <1>1, <2>3, <3>1, <3>2 DEF Destroying, Unreleased, lost
  <2> QED BY <1>1, <2>1, <2>2, <2>3 DEF Settling, Unwinding, Destroying, Creating
<1>13. Tolerated'
  BY <1>1, <1>4 DEF IInv, Tolerated, k
<1>14. k = "context" /\ k \in live => is_shutdown
  BY <1>1 DEF IInv, Settling, Unwinding, Destroying, k
<1>15. SessionRuns'
  <2>1. k = "context" /\ k \in live => held'[k] \cap Tasks(k) = {}
    BY <1>5, <1>14 DEF IInv, SessionRuns
  <2> QED BY <1>1, <1>2, <1>5, <1>14, <2>1 DEF IInv, SessionRuns
<1>16. Callable'
  <2> SUFFICES ASSUME NEW j \in {"subscription", "service"},
                      "declaration" \in held'[j] \ released'[j]
               PROVE  HandlerUses(j) \subseteq held'[j]
    BY <1>1, <1>5, KindsAre DEF IInv, Callable, Reachable
  <2>1. j \in Kinds /\ "declaration" \in held[j] \ released[j] /\ HandlerUses(j) \subseteq held[j]
    BY <1>5, KindsAre DEF IInv, Callable, Reachable
  <2>2. CASE j # k
    BY <1>5, <2>1, <2>2
  <2>3. CASE j = k
    <3>1. CASE op.phase = "settle"
      BY <1>5, <1>9, <2>1, <2>3, <3>1
    <3>2. CASE op.phase = "unwind"
      BY <2>1, <2>3, <3>2 DEF IInv, Unwinding, k
    <3>3. CASE op.phase = "destroy"
      <4>1. "declaration" \notin KnownLeaks.destroy[k] \cup Unreleased(k)
        BY <2>1, <2>3, KnownLeaksAre DEF Unreleased
      <4>2. "declaration" \in Range(op.todo)
        BY <2>1, <2>3, <3>3, <4>1 DEF IInv, Destroying, k
      <4>3. "declaration" \in Range(rest)
        BY <1>4, <1>5, <2>3, <4>2 DEF skipped
      <4>4. part \notin HandlerUses(k)
        BY <1>4, <4>3 DEF Later
      <4> QED BY <1>5, <2>1, <2>3, <4>4
    <3> QED BY <1>1, <3>1, <3>2, <3>3
  <2> QED BY <2>2, <2>3
<1>17. TasksRunOnSession'
  <2>1. CASE k # "context"
    BY <1>1, <1>2, <1>5, <2>1 DEF IInv, TasksRunOnSession, k
  <2>2. CASE k = "context" /\ op.phase = "unwind"
    BY <1>1, <2>2 DEF TasksRunOnSession
  <2>3. CASE k = "context" /\ op.phase = "settle"
    <3>1. Range(Temporaries(k)) = {}
      BY <2>3 DEF Temporaries, OfNode, Range
    <3> QED BY <1>9, <2>3, <3>1
  <2>4. CASE k = "context" /\ op.phase = "destroy"
    <3>1. held'[k] \cap Tasks(k) = {}
      BY <1>5, <1>14, <2>4 DEF IInv, SessionRuns, Destroying, k
    <3> QED BY <2>4, <3>1 DEF TasksRunOnSession, Tasks
  <2> QED BY <1>1, <2>1, <2>2, <2>3, <2>4
<1> QED BY <1>6, <1>7, <1>8, <1>12, <1>13, <1>15, <1>16, <1>17 DEF IInv

\* A release that takes effect.
LEMMA ReleaseIInv ==
  ASSUME IInv, Release
  PROVE  IInv'
<1>1. /\ Releasing
      /\ held' = [held EXCEPT ![op.kind] = @ \ {Head(op.todo)}]
      /\ released' = [released EXCEPT ![op.kind] = @ \cup {Head(op.todo)}]
      /\ op' = [op EXCEPT !.todo = Tail(@)]
      /\ UNCHANGED <<live, capacity, shutting, is_shutdown>>
  BY DEF Release
<1>2. op' = [kind |-> op.kind, phase |-> op.phase, todo |-> Tail(op.todo), ret |-> op.ret]
  BY <1>1 DEF IInv, Types
<1> QED BY <1>1, <1>2, ReleaseStepIInv

\* One that fails.
LEMMA ReleaseFailsIInv ==
  ASSUME IInv, ReleaseFails
  PROVE  IInv'
<1> DEFINE part == Head(op.todo)
           ret == IF op.phase = "destroy" /\ part \in Fallible /\ op.kind # "guard_condition"
                    THEN "RMW_RET_ERROR" ELSE op.ret
<1>1. /\ Releasing /\ part \in MayFail(op.kind)
      /\ released' = [released EXCEPT ![op.kind] = @ \cup {part}]
      /\ op' = [op EXCEPT !.todo = AfterFailure, !.ret = ret]
      /\ UNCHANGED <<live, capacity, shutting, is_shutdown>>
  BY DEF ReleaseFails, MayFail
<1>2. PICK gone \in SUBSET {part} : held' = [held EXCEPT ![op.kind] = @ \ gone]
  BY DEF ReleaseFails
<1>3. op' = [kind |-> op.kind, phase |-> op.phase, todo |-> AfterFailure, ret |-> ret]
  BY <1>1 DEF IInv, Types
<1>4. /\ ret \in {op.ret, "RMW_RET_ERROR"}
      /\ \/ ret = "RMW_RET_ERROR"
         \/ op.phase # "destroy" \/ part \notin Fallible \/ op.kind = "guard_condition"
  OBVIOUS
<1> HIDE DEF ret
<1> QED BY <1>1, <1>2, <1>3, <1>4, ReleaseStepIInv

\* After a crash nothing is promised but what holds in the middle of an operation.
LEMMA CrashIInv ==
  ASSUME IInv, Crash
  PROVE  IInv'
<1>1. /\ Releasing /\ Head(op.todo) \in ThroughState(op.kind)
      /\ op' = [op EXCEPT !.phase = "crashed"]
      /\ UNCHANGED <<held, released, live, capacity, shutting, is_shutdown>>
  BY DEF Crash
<1>2. op.kind = "subscription"
  BY <1>1 DEF ThroughState
<1>3. /\ op' = [kind |-> op.kind, phase |-> "crashed", todo |-> op.todo, ret |-> op.ret]
      /\ op'.kind = op.kind /\ op'.phase = "crashed"
      /\ op'.todo = op.todo /\ op'.ret = op.ret
      /\ op.phase # "idle"
  BY <1>1 DEF IInv, Types, Releasing
<1>4. Types' /\ AtRest'
  BY <1>1, <1>2, <1>3 DEF IInv, Types, TypeOK, AtRest, Busy, Absent, Present
<1>5. Creating' /\ Dismantling' /\ Settling' /\ Unwinding' /\ Destroying' /\ Tolerated'
  BY <1>3 DEF Creating, Dismantling, Settling, Unwinding, Destroying, Tolerated
<1>6. SessionRuns' /\ Callable'
  BY <1>1 DEF IInv, SessionRuns, Callable, Reachable
<1>7. TasksRunOnSession'
  BY <1>1, <1>2 DEF IInv, TasksRunOnSession
<1> QED BY <1>4, <1>5, <1>6, <1>7 DEF IInv

\* A function returns: the entity is there, or nothing is but what is lost.
LEMMA ReturnIInv ==
  ASSUME IInv, Return
  PROVE  IInv'
<1> DEFINE k == op.kind
           made == op.phase = "settle"
<1>1. /\ op.phase \in {"settle", "unwind", "destroy"} /\ op.todo = <<>>
      /\ live' = IF made THEN live \cup {k} ELSE live \ {k}
      /\ held' = IF made THEN held ELSE [held EXCEPT ![k] = {}]
      /\ released' = [released EXCEPT ![k] = {}]
      /\ capacity' = IF made \/ k \notin OfNode THEN capacity ELSE [capacity EXCEPT ![k] = 0]
      /\ is_shutdown' = (is_shutdown /\ k # "context")
      /\ op' = NoOp
      /\ UNCHANGED shutting
  BY DEF Return
<1>2. k \in Kinds /\ "context" \in Kinds
  BY KindsAre DEF IInv, Types, TypeOK
<1>3. Range(op.todo) = {}
  BY <1>1 DEF Range
<1> HIDE DEF k
<1>4. /\ held' \in [Kinds -> SUBSET Parts] /\ released' \in [Kinds -> SUBSET Parts]
      /\ held'[k] = IF made THEN held[k] ELSE {}
      /\ released'[k] = {}
      /\ \A j \in Kinds : j # k => held'[j] = held[j] /\ released'[j] = released[j]
  BY <1>1, <1>2 DEF IInv, Types
<1>5. /\ capacity' \in [OfNode -> Nat]
      /\ \A j \in OfNode : j # k \/ made => capacity'[j] = capacity[j]
  BY <1>1 DEF IInv, Types, TypeOK
<1>6. Types'
  <2>1. \A j \in Kinds : held'[j] \subseteq PartsOf(j) /\ released'[j] \subseteq PartsOf(j)
    BY <1>4 DEF IInv, Types, TypeOK
  <2>2. live' \subseteq Kinds /\ is_shutdown' \in BOOLEAN
    BY <1>1, <1>2 DEF IInv, Types, TypeOK
  <2> QED BY <1>1, <1>4, <1>5, <2>1, <2>2, KindsAre DEF Types, TypeOK, NoOp
<1>7. AtRest'
  <2> SUFFICES ASSUME NEW j \in Kinds
               PROVE  IF j \in live' THEN Present(j)' ELSE Absent(j)'
    BY DEF AtRest
  <2>1. CASE j # k
    BY <1>1, <1>4, <2>1 DEF IInv, AtRest, Busy, Absent, Present, k
  <2>2. CASE j = k /\ made
    BY <1>1, <1>3, <1>4, <2>2 DEF IInv, Settling, Present, k
  <2>3. CASE j = k /\ ~ made
    BY <1>1, <1>4, <2>3 DEF Absent
  <2> QED BY <2>1, <2>2, <2>3
<1>8. /\ Creating' /\ Dismantling' /\ Settling' /\ Unwinding' /\ Destroying'
      /\ Tolerated'
  BY <1>1 DEF NoOp, Creating, Dismantling, Settling, Unwinding, Destroying, Tolerated
<1>9. SessionRuns'
  <2>1. CASE k # "context"
    BY <1>1, <1>2, <1>4, <2>1 DEF IInv, SessionRuns
  <2>2. CASE k = "context" /\ made
    <3>1. "context" \notin live /\ Tasks(k) \subseteq held[k]
      BY <1>1, <2>2 DEF IInv, Settling, k
    <3>2. ~ is_shutdown /\ shutting = <<>>
      BY <3>1 DEF IInv, SessionRuns
    <3> QED BY <1>1, <1>4, <2>2, <3>1, <3>2 DEF SessionRuns
  <2>3. CASE k = "context" /\ ~ made
    <3>1. "context" \notin live \/ is_shutdown
      BY <1>1, <2>3 DEF IInv, Unwinding, Destroying, k
    <3>2. shutting = <<>>
      BY <3>1 DEF IInv, SessionRuns
    <3> QED BY <1>1, <2>3, <3>2 DEF SessionRuns
  <2> QED BY <2>1, <2>2, <2>3
<1>10. Callable'
  <2> SUFFICES ASSUME NEW j \in {"subscription", "service"},
                      "declaration" \in held'[j] \ released'[j]
               PROVE  HandlerUses(j) \subseteq held'[j] /\ capacity'[j] >= 1
    BY DEF Callable, Reachable
  <2>1. j \in Kinds /\ j \in OfNode
    BY KindsAre DEF OfNode
  <2>2. CASE j # k
    BY <1>4, <1>5, <2>1, <2>2 DEF IInv, Callable, Reachable
  <2>3. CASE j = k
    <3>1. made /\ "declaration" \in held[k]
      BY <1>2, <1>4, <2>3
    <3>2. "declaration" \notin released[k]
      <4>1. SettlesWell(k)
        BY <1>2, TablesAreSound DEF Sound
      <4> QED BY <3>1, <4>1 DEF IInv, Settling, SettlesWell, k
    <3> QED BY <1>4, <1>5, <2>1, <2>3, <3>1, <3>2 DEF IInv, Callable, Reachable
  <2> QED BY <2>2, <2>3
<1>11. TasksRunOnSession'
  BY <1>1, <1>2, <1>4 DEF IInv, TasksRunOnSession, k
<1> QED BY <1>6, <1>7, <1>8, <1>9, <1>10, <1>11 DEF IInv

\* rmw_shutdown finds its tasks and its session.
LEMMA ShutdownBeginsIInv ==
  ASSUME IInv, ShutdownBegins
  PROVE  IInv'
<1>1. /\ "context" \in live /\ ~ is_shutdown /\ shutting = <<>>
      /\ shutting' = ShutdownContext
      /\ UNCHANGED <<held, released, live, op, capacity, is_shutdown>>
  BY DEF ShutdownBegins
<1>2. Range(ShutdownContext) = Tasks("context")
  BY DEF ShutdownContext, Tasks, Range
<1>3. SessionRuns'
  BY <1>1, <1>2 DEF IInv, SessionRuns
<1>4. Types' /\ AtRest'
  BY <1>1 DEF IInv, Types, TypeOK, AtRest, Busy, Absent, Present
<1>5. Creating' /\ Dismantling' /\ Settling' /\ Unwinding' /\ Destroying' /\ Tolerated'
  BY <1>1 DEF IInv, Creating, CreatedTo, Dismantling, Settling, Unwinding, Destroying,
              Tolerated, Unreleased
<1>6. Callable' /\ TasksRunOnSession'
  BY <1>1 DEF IInv, Callable, Reachable, TasksRunOnSession
<1> QED BY <1>3, <1>4, <1>5, <1>6 DEF IInv

\* A context that is being shut down is there, and nothing else is done with it.
LEMMA ShuttingDown ==
  ASSUME IInv, shutting # <<>>
  PROVE  /\ "context" \in live /\ ~ is_shutdown /\ ~ Busy("context")
         /\ Present("context")
         /\ Head(shutting) \in Tasks("context")
         /\ Range(shutting) = {Head(shutting)} \cup Range(Tail(shutting))
         /\ Head(shutting) \notin Range(Tail(shutting))
         /\ Tail(shutting) \in {<<"read_task", "session">>, <<"session">>, <<>>}
         /\ Head(shutting) # "session" => "session" \in Range(Tail(shutting))
         /\ Head(shutting) = "session" => Tail(shutting) = <<>>
         /\ held["context"] \cap Tasks("context") = Range(shutting)
<1>1. "context" \in live /\ ~ is_shutdown
  BY DEF IInv, SessionRuns
<1>2. ~ Busy("context")
  BY <1>1 DEF IInv, Types, TypeOK, Busy, Creating, Settling, Unwinding, Destroying
<1>3. Present("context")
  BY <1>1, <1>2, KindsAre DEF IInv, AtRest
<1>4. held["context"] \cap Tasks("context") = Range(shutting)
  BY <1>1 DEF IInv, SessionRuns
<1>5. shutting \in {<<"lease_task", "read_task", "session">>, <<"read_task", "session">>,
                    <<"session">>}
  BY DEF IInv, SessionRuns, ShutdownContext
<1>6. CASE shutting = <<"lease_task", "read_task", "session">>
  <2>1. Head(shutting) = "lease_task" /\ Tail(shutting) = <<"read_task", "session">>
    BY <1>6
  <2>2. /\ Range(shutting) = {"lease_task", "read_task", "session"}
        /\ Range(<<"read_task", "session">>) = {"read_task", "session"}
    BY <1>6 DEF Range
  <2> QED BY <1>1, <1>2, <1>3, <1>4, <2>1, <2>2 DEF Tasks
<1>7. CASE shutting = <<"read_task", "session">>
  <2>1. Head(shutting) = "read_task" /\ Tail(shutting) = <<"session">>
    BY <1>7
  <2>2. Range(shutting) = {"read_task", "session"} /\ Range(<<"session">>) = {"session"}
    BY <1>7 DEF Range
  <2> QED BY <1>1, <1>2, <1>3, <1>4, <2>1, <2>2 DEF Tasks
<1>8. CASE shutting = <<"session">>
  <2>1. Head(shutting) = "session" /\ Tail(shutting) = <<>>
    BY <1>8
  <2>2. Range(shutting) = {"session"} /\ Range(<<>>) = {}
    BY <1>8 DEF Range
  <2> QED BY <1>1, <1>2, <1>3, <1>4, <2>1, <2>2 DEF Tasks
<1> QED BY <1>5, <1>6, <1>7, <1>8

\* It stops the tasks before it closes the session.
LEMMA ShutdownStepIInv ==
  ASSUME IInv, ShutdownStep
  PROVE  IInv'
<1> DEFINE part == Head(shutting)
           rest == Tail(shutting)
<1>1. /\ shutting # <<>>
      /\ held' = [held EXCEPT !["context"] = @ \ {part}]
      /\ released' = [released EXCEPT !["context"] = @ \cup {part}]
      /\ shutting' = rest
      /\ is_shutdown' = (rest = <<>>)
      /\ UNCHANGED <<live, op, capacity>>
  BY DEF ShutdownStep
<1>2. /\ "context" \in live /\ ~ is_shutdown /\ ~ Busy("context")
      /\ Present("context")
      /\ part \in Tasks("context")
      /\ Range(shutting) = {part} \cup Range(rest)
      /\ part \notin Range(rest)
      /\ rest \in {<<"read_task", "session">>, <<"session">>, <<>>}
      /\ part # "session" => "session" \in Range(rest)
      /\ part = "session" => rest = <<>>
      /\ held["context"] \cap Tasks("context") = Range(shutting)
  BY <1>1, ShuttingDown
<1> HIDE DEF part, rest
<1>3. /\ "context" \in Kinds /\ "impl" \in Kept("context")
      /\ Tasks("context") \subseteq Full("context")
  BY KindsAre, TablesAreSound DEF Sound
<1>4. /\ held' \in [Kinds -> SUBSET Parts] /\ released' \in [Kinds -> SUBSET Parts]
      /\ held'["context"] = held["context"] \ {part}
      /\ released'["context"] = released["context"] \cup {part}
      /\ \A j \in Kinds : j # "context" => held'[j] = held[j] /\ released'[j] = released[j]
      /\ part \in PartsOf("context")
  <2>1. part \in held["context"]
    BY <1>2
  <2>2. part \in PartsOf("context")
    BY <1>3, <2>1 DEF IInv, Types, TypeOK
  <2> QED BY <1>1, <1>3, <2>2 DEF IInv, Types, Parts
<1>5. op.phase # "idle" => op.kind # "context" /\ op.kind \in Kinds
  BY <1>2 DEF Busy, IInv, Types, TypeOK
<1>6. Types'
  <2>1. \A j \in Kinds : held'[j] \subseteq PartsOf(j) /\ released'[j] \subseteq PartsOf(j)
    BY <1>4 DEF IInv, Types, TypeOK
  <2> QED BY <1>1, <1>4, <2>1 DEF IInv, Types, TypeOK
<1>7. AtRest'
  <2>1. Present("context")'
    BY <1>2, <1>4 DEF Present, Kept
  <2> QED BY <1>1, <1>2, <1>4, <2>1 DEF IInv, AtRest, Busy, Absent, Present
<1>8. Creating' /\ Dismantling' /\ Settling' /\ Unwinding' /\ Destroying' /\ Tolerated'
  BY <1>1, <1>4, <1>5
     DEF IInv, Creating, CreatedTo, Dismantling, Settling, Unwinding, Destroying,
         Tolerated, Unreleased
<1>9. SessionRuns'
  <2>1. held'["context"] \cap Tasks("context") = Range(rest)
    BY <1>2, <1>4
  <2>2. Range(<<>>) = {}
    BY DEF Range
  <2> QED BY <1>1, <1>2, <2>1, <2>2 DEF SessionRuns
<1>10. Callable'
  BY <1>1, <1>4, KindsAre DEF IInv, Callable, Reachable
<1>11. TasksRunOnSession'
  <2>1. "impl" \in held'["context"]
    BY <1>2, <1>3, <1>4 DEF Present, Kept, Tasks
  <2>2. held'["context"] \cap {"read_task", "lease_task"} # {} => rest # <<>>
    BY <1>2, <1>4 DEF Tasks, Range
  <2>3. rest # <<>> => "session" \in held'["context"]
    BY <1>2, <1>4
  <2> QED BY <2>1, <2>2, <2>3 DEF TasksRunOnSession
<1> QED BY <1>6, <1>7, <1>8, <1>9, <1>10, <1>11 DEF IInv

\* So every step keeps the invariant.
LEMMA NextIInv == IInv /\ [Next]_vars => IInv'
<1> SUFFICES ASSUME IInv, [Next]_vars PROVE IInv'
  OBVIOUS
<1>1. CASE UNCHANGED vars
  BY <1>1 DEF vars, IInv, Types, TypeOK, AtRest, Busy, Absent, Present, Creating, CreatedTo,
              Dismantling, Settling, Unwinding, Destroying, Tolerated, Unreleased,
              SessionRuns, Callable, Reachable, TasksRunOnSession
<1> QED BY <1>1, CreateIInv, DestroyIInv, AcquireIInv, AllocateQueriesFailsIInv,
           AcquireFailsIInv, SettleIInv, ReleaseIInv, ReleaseFailsIInv, CrashIInv,
           ReturnIInv, ShutdownBeginsIInv, ShutdownStepIInv DEF Next

\* The inductive invariant holds throughout.
THEOREM Invariance == Spec => []IInv
BY InitIInv, NextIInv, PTL DEF Spec

-----------------------------------------------------------------------------
(* The properties of the run.                                              *)

\* The variables keep their types, whatever profiles there are.
THEOREM TypeCorrect == Spec => []TypeOK
<1>1. IInv => TypeOK
  BY DEF IInv, Types
<1> QED BY <1>1, Invariance, PTL

\* ReleasedOnce: no step of an unwinding, of a destroy function or of rmw_shutdown
\* releases a part twice, before it is there, or after what leads to it.
THEOREM ReleasesAreSafe == Spec => []ReleasedOnce
<1>1. IInv => ReleasedOnce
  <2> SUFFICES ASSUME IInv PROVE ReleasedOnce
    OBVIOUS
  <2> DEFINE k == op.kind
             part == Head(op.todo)
  <2>1. ASSUME Releasing
        PROVE  /\ part \notin released[k]
               /\ \/ part \in held[k]
                  \/ part \in NullIsFreed
                  \/ k = "init_options" /\ part = "enclave"
               /\ Container(k, part) \subseteq held[k]
    <3> DEFINE list == op.todo
    <3>1. Dismantling
      BY DEF IInv
    <3>2. InOrder(k, list) /\ list # <<>>
      BY <2>1, <3>1 DEF Releasing, Dismantling
    <3>3. /\ Range(list) \subseteq PartsOf(k) \ released[k]
          /\ \A p \in Range(list) : Releasable(k, p, held[k])
      BY <2>1, <3>1 DEF Releasing, Dismantling
    <3> HIDE DEF k, list
    <3>4. Range(list) = {Head(list)} \cup Range(Tail(list))
      BY <3>2, TailInOrder
    <3>5. part \notin released[k] /\ Releasable(k, part, held[k])
      BY <3>3, <3>4 DEF list
    <3> QED BY <3>5 DEF Releasable
  <2>2. ASSUME shutting # <<>>
        PROVE  {Head(shutting)} \cup Container("context", Head(shutting))
                 \subseteq held["context"]
    <3>1. "impl" \in Kept("context")
      BY KindsAre, TablesAreSound DEF Sound
    <3> QED BY <2>2, <3>1, ShuttingDown DEF Container, Present, Tasks
  <2> QED BY <2>1, <2>2 DEF ReleasedOnce
<1> QED BY <1>1, Invariance, PTL

\* NothingIsLeft: a create function that fails, at whatever step, and a destroy
\* function leave nothing behind but the known leaks, of which are the payloads still
\* queued and the queries still stored, and what they report they could not release.
THEOREM OnlyLeaksAreLeft == Spec => []NothingIsLeft
<1>1. IInv => NothingIsLeft
  <2>1. Range(<<>>) = {}
    BY DEF Range
  <2> QED BY <2>1 DEF IInv, Unwinding, Destroying, NothingIsLeft
<1> QED BY <1>1, Invariance, PTL

\* DeclaredFindEntity: from the declaration to the call that undeclares, all that the
\* handler of a callback uses is there, and the queue has room for a message.
THEOREM CallbacksAreSafe == Spec => []DeclaredFindEntity
<1>1. IInv => DeclaredFindEntity
  BY DEF IInv, Callable, DeclaredFindEntity
<1> QED BY <1>1, Invariance, PTL

\* TasksRunOnSession: the read and lease tasks run on an open session, but where
\* rmw_init fails.
THEOREM TasksHaveSession == Spec => []TasksRunOnSession
<1>1. IInv => TasksRunOnSession
  BY DEF IInv
<1> QED BY <1>1, Invariance, PTL
=============================================================================
