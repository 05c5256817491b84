------------------------ MODULE InteractionContract ------------------------
(***************************************************************************)
(* What the 0.5.0 reference validator (contract/vao-0.5.0/Tools) demands   *)
(* of an interaction model and of a conformance trace: vao05's             *)
(* validate_interaction04() and validate_runtime(), and the rules of       *)
(* vao03's validate_complex_interaction(), which vao05 applies to a        *)
(* projection of the manifest.                                             *)
(*                                                                         *)
(* A manifest m is a record of registries: functions from the identifiers  *)
(* of their records, sets or sequences of records, or sets of identifiers  *)
(* where only those matter.  Identifiers whose order matters are numbers.  *)
(* Values carry their type; numbers are integers.  Labels, MIDI numbers    *)
(* and the points of transfer functions are left out.                      *)
(***************************************************************************)
EXTENDS Records

CONSTANT None       \* an optional reference that is absent

Number(n) == [type |-> "integer", val |-> n]
Bool(n)   == [type |-> "boolean", val |-> n]          \* 0 or 1
NoValue   == [type |-> "none", val |-> 0]

Items(s) == {s[n] : n \in DOMAIN s}

-----------------------------------------------------------------------------
(* Conditions and actions.                                                 *)
Numeric  == {"integer", "number"}
Ordering == {"less-than", "less-than-or-equal", "greater-than", "greater-than-or-equal"}
StateOps == {"set-state", "toggle-state", "increment-state"}

(* _state_value_valid(): the domain of a state variable is its type, its   *)
(* bounds and its allowed values in one set.                               *)
ConditionFits(m, c) ==
  /\ c.var \in DOMAIN m.vars
  /\ c.value \in m.vars[c.var].domain
  /\ c.op \in Ordering => m.vars[c.var].kind \in Numeric

(* The registry that the target of an operation must be in.                *)
Targets(m, op) ==
  CASE op \in StateOps -> DOMAIN m.vars
    [] op = "emit-event" -> DOMAIN m.events
    [] op \in {"start-process", "stop-process"} -> DOMAIN m.processes
    [] op = "route-event" -> {r.id : r \in m.routes}
    [] op = "select-render-binding" -> {b.id : b \in Items(m.renders)}
    [] OTHER -> {}

(* A boolean passes for a number here: bool is a subtype of int.           *)
ActionFits(m, a) ==
  /\ a.target \in Targets(m, a.op)
  /\ a.delay \in m.timings \cup {None}
  /\ a.op = "set-state" => a.value \in m.vars[a.target].domain
  /\ a.op = "toggle-state" => m.vars[a.target].kind = "boolean"
  /\ a.op = "increment-state" => /\ m.vars[a.target].kind \in Numeric
                                 /\ a.value.type \in {"integer", "boolean"}

TransitionFits(m, t) ==
  /\ t.event \in DOMAIN m.events
  /\ t.control \in m.controls \cup {None}
  /\ \A c \in t.guard : ConditionFits(m, c)
  /\ \A a \in Items(t.actions) : ActionFits(m, a)

RenderFits(m, b) ==
  /\ b.event \in DOMAIN m.events \cup {None}
  /\ b.process \in DOMAIN m.processes \cup {None}
  /\ b.samples \subseteq m.samples
  /\ \A c \in b.guard : ConditionFits(m, c)

-----------------------------------------------------------------------------
(* Routes.  The projection turns a delayed copy into a mere activation, so *)
(* that only copies without a delay may not form a cycle.                  *)
ProjectedBehavior(r) ==
  IF r.delay # None /\ r.behavior \in {"copies", "transposes"} THEN "activates" ELSE r.behavior

RouteFits(m, r) ==
  /\ {r.source, r.target} \subseteq m.entities
  /\ r.control \in m.controls \cup {None}
  /\ r.delay \in m.timings \cup {None}
  /\ r.lo <= r.hi
  /\ r.shift # 0 => r.lo + r.shift >= 0 /\ r.hi + r.shift <= 127
  /\ \A c \in r.guard : ConditionFits(m, c)

RoutingTerminates(m) ==
  Acyclic({<<r.source, r.target>> :
             r \in {q \in m.routes : ProjectedBehavior(q) \in {"copies", "transposes"}}})

-----------------------------------------------------------------------------
(* Processes.                                                              *)

(* The projection of a stochastic process that completes: one iteration.   *)
Projected(p) ==
  IF p.kind = "stochastic" /\ p.termination = "completed"
  THEN [p EXCEPT !.termination = "maximum-iterations", !.iterations = 1]
  ELSE p

(* The termination rules of the 0.3 validator.                             *)
ProcessTerminates(m, p) ==
  /\ ~(p.kind \in {"repeating", "stochastic"} /\ p.termination = "completed")
  /\ p.termination = "maximum-iterations" => p.iterations \in Nat
  /\ p.termination = "duration-bound" => p.duration \in m.timings
  /\ p.termination \in {"on-control-release", "external-cancel"} => p.cancel \in m.controls
  /\ p.kind = "compound" => Len(p.actions) + Len(p.children) >= 2

ProcessFits(m, p) ==
  /\ Items(p.children) \subseteq DOMAIN m.processes
  /\ p.timings \subseteq m.timings
  /\ p.duration \in m.timings \cup {None}
  /\ p.cancel \in m.controls \cup {None}
  /\ \A a \in Items(p.actions) : ActionFits(m, a)

(* Slip: only a process that is its own child counts as a cycle.           *)
ExpansionIsDirect(m) == \A p \in DOMAIN m.processes : p \notin Items(m.processes[p].children)

ExpansionTerminates(m) ==
  Acyclic(UNION {{<<p, c>> : c \in Items(m.processes[p].children)} : p \in DOMAIN m.processes})

(* Weights map candidate indices, from 0, to positive weights; no weights  *)
(* are a uniform distribution.  m.sources gives the number of words of a   *)
(* random source.                                                          *)
UpTo(weights, k) ==
  LET Sum[n \in 0..k] ==
        (IF n \in DOMAIN weights THEN weights[n] ELSE 0) + (IF n = 0 THEN 0 ELSE Sum[n - 1])
  IN  Sum[k]

Total(weights) == UpTo(weights, CHOOSE k \in DOMAIN weights : \A n \in DOMAIN weights : n <= k)

Uniform(p) == DOMAIN p.weights = {}

StochasticFits(m, p) ==
  LET candidates == Len(p.actions) + Len(p.children) IN
  p.kind = "stochastic" =>
    /\ p.source \in DOMAIN m.sources
    /\ candidates >= 1
    /\ Uniform(p)  => candidates <= m.sources[p.source]
    /\ ~Uniform(p) => /\ Total(p.weights) <= m.sources[p.source]
                      /\ \A k \in DOMAIN p.weights : k < candidates

-----------------------------------------------------------------------------
(* What the schema, and the uniqueness of identifiers, promise of a        *)
(* manifest before it is read for its sense.                               *)
IsList(s) == s \in Seq(Items(s))

WellFormed(m) ==
  /\ IsFiniteSet(m.transitions)
  /\ \A t, u \in m.transitions : t.id = u.id => t = u
  /\ \A t \in m.transitions :
       /\ {t.id, t.priority} \subseteq Int
       /\ IsList(t.actions) /\ \A a \in Items(t.actions) : a.group \in Int
  /\ \A v \in DOMAIN m.vars : \A x \in m.vars[v].domain :
       /\ m.vars[v].kind = "boolean" => x.type = "boolean"
       /\ m.vars[v].kind \in Numeric => x.type = "integer"
  /\ \A i \in DOMAIN m.processes : LET p == m.processes[i] IN
       /\ IsList(p.actions) /\ IsList(p.children)
       /\ IsFiniteSet(DOMAIN p.weights)
       /\ \A k \in DOMAIN p.weights : k \in Nat /\ p.weights[k] \in Nat \ {0}
  /\ \A s \in DOMAIN m.sources : m.sources[s] \in Nat \ {0}
  /\ m.maximum \in Nat \ {0}

(* All of it.                                                              *)
StateFits(m, v) ==
  /\ m.vars[v].default \in m.vars[v].domain
  /\ m.vars[v].subject \in m.entities \cup {None}

Accepts(m) ==
  /\ \A v \in DOMAIN m.vars : StateFits(m, v)
  /\ \A t \in m.transitions : TransitionFits(m, t)
  /\ \A r \in m.routes : RouteFits(m, r)
  /\ RoutingTerminates(m)
  /\ \A i \in DOMAIN m.processes :
        LET p == m.processes[i] IN
        ProcessFits(m, p) /\ StochasticFits(m, p) /\ ProcessTerminates(m, Projected(p))
  /\ ExpansionTerminates(m)
  /\ \A b \in Items(m.renders) : RenderFits(m, b)

(* The order of the inputs of a trace is unique.                           *)
OrderKey(e) == <<e.time, -e.priority, e.event, e.sequence>>

AcceptsTrace(m, t) ==
  /\ \A j, k \in DOMAIN t.events : OrderKey(t.events[j]) = OrderKey(t.events[k]) => j = k
  /\ \A e \in Items(t.events) :
        /\ e.event \in DOMAIN m.events
        /\ e.value \in m.events[e.event]
        /\ e.control \in m.controls \cup {None}
  /\ \A v \in DOMAIN t.initial : v \in DOMAIN m.vars /\ t.initial[v] \in m.vars[v].domain
=============================================================================
