---------------------------- MODULE Interpreter ----------------------------
(***************************************************************************)
(* The reference interpreter of an interaction model                       *)
(* (contract/vao-0.5.0/Tools/vao05_runtime.py): execute() takes the input  *)
(* events of a trace in order, each to completion; _process_actions()      *)
(* expands a process with a stack of its own.  A trace is executed twice:  *)
(* by who records it, and by verify_trace(), which replays it with         *)
(* generators that start anew and compares.  The inputs may be replayed in *)
(* another order than they were recorded in.                               *)
(*                                                                         *)
(* The generators are external: words[s] are the words that source s       *)
(* yields, again and again from its seed.  Errors are named for what is    *)
(* wrong.                                                                  *)
(***************************************************************************)
EXTENDS InteractionContract

CONSTANTS Manifests, Traces,   \* what is executed
          Words,               \* what the generators may yield, per source
          MaxTotal             \* MAX_REFERENCE_TOTAL_MICROSTEPS

ASSUME ManifestAssumption == \A m \in Manifests : WellFormed(m)

ASSUME LimitAssumption == MaxTotal \in Nat

(* A generator yields words of its own range.                              *)
ASSUME WordsAssumption ==
  \A m \in Manifests, w \in Words : \A s \in DOMAIN m.sources :
    s \in DOMAIN w /\ w[s] \in Seq(0..(m.sources[s] - 1)) /\ w[s] # <<>>

(* The inputs of a trace are a list, and ordered by numbers.               *)
ASSUME TraceAssumption ==
  \A t \in Traces : /\ IsList(t.events)
                    /\ \A e \in Items(t.events) : OrderKey(e) \in Int \X Int \X Int \X Int

VARIABLES
  manifest, trace, words,
  pass,        \* 1: the trace is recorded; 2: it is verified
  queue,       \* inputs that are not processed yet
  event,       \* the input that is run to completion
  state, snapshot,
  todo,        \* the actions of the matching transitions that are left
  writes,      \* target -> value, policies and rank of the writes so far
  work,        \* the stack of _process_actions(), its top first
  expanding,   \* active: the processes under expansion
  steps, total,
  drawn,       \* source -> its position in its words
  emitted, selected,
  status,      \* idle, running, done, or the error
  recorded     \* what the first pass came to

vars == <<manifest, trace, words, pass, queue, event, state, snapshot, todo, writes, work,
          expanding, steps, total, drawn, emitted, selected, status, recorded>>

input == <<manifest, trace, words, pass>>

Errors == {"microsteps", "mistyped", "policies", "rejected", "domain", "delayed", "cycle",
           "unscheduled", "lifecycle", "no source", "no candidate", "distribution",
           "unknown child", "unknown target"}

NoEvent == [event |-> None, control |-> None, time |-> 0, priority |-> 0, sequence |-> 0,
            value |-> NoValue]

(* The initial state of an execution, with the overrides of the trace.     *)
Start(m, t) == [v \in DOMAIN m.vars |->
                  IF v \in DOMAIN t.initial THEN t.initial[v] ELSE m.vars[v].default]

Init ==
  /\ manifest \in Manifests /\ trace \in Traces /\ words \in Words
  /\ pass = 1 /\ recorded = << >>
  /\ queue = trace.events /\ event = NoEvent
  /\ state = Start(manifest, trace) /\ snapshot = Start(manifest, trace)
  /\ todo = <<>> /\ writes = << >> /\ work = <<>> /\ expanding = {}
  /\ steps = 0 /\ total = 0
  /\ drawn = [s \in DOMAIN manifest.sources |-> 0]
  /\ emitted = <<>> /\ selected = <<>> /\ status = "idle"

-----------------------------------------------------------------------------
Fail(error) ==
  /\ status' = error
  /\ UNCHANGED <<input, queue, event, state, snapshot, todo, writes, work, expanding,
                 steps, total, drawn, emitted, selected, recorded>>

(* _consume_microstep()                                                    *)
OutOfSteps == steps >= manifest.maximum \/ total >= MaxTotal

(* Slip: only actions are counted, not the draws.                          *)
ConsumeByActions ==
  /\ ~OutOfSteps
  /\ IF work # <<>> /\ Head(work).op = "draw" THEN UNCHANGED <<steps, total>>
                                              ELSE steps' = steps + 1 /\ total' = total + 1

Consume ==
  /\ ~OutOfSteps
  /\ steps' = steps + 1
  /\ total' = total + 1

(* condition_matches()                                                     *)
Satisfied(c, s) ==
  LET x == s[c.var].val
      y == c.value.val
  IN  CASE c.op = "equals" -> s[c.var] = c.value
        [] c.op = "not-equals" -> s[c.var] # c.value
        [] c.op = "less-than" -> x < y
        [] c.op = "less-than-or-equal" -> x <= y
        [] c.op = "greater-than" -> x > y
        [] c.op = "greater-than-or-equal" -> x >= y

Matching(e) ==
  {t \in manifest.transitions :
     /\ t.event = e.event
     /\ t.control \in {None, e.control}
     /\ \A c \in t.guard : Satisfied(c, state)}

(* The rank of a transition among those that match.                        *)
Outranks(t, u) == t.priority > u.priority \/ (t.priority = u.priority /\ t.id < u.id)
Rank(t, matching) == Cardinality({u \in matching : Outranks(u, t)})

(* All their actions, by execution group, rank and index.                  *)
Scheduled(matching) ==
  LET Listed(t) == {[group |-> t.actions[k].group, rank |-> Rank(t, matching), index |-> k,
                     action |-> t.actions[k], policy |-> t.policy, id |-> t.id] :
                      k \in DOMAIN t.actions}
      Entry == UNION {Listed(t) : t \in matching}
      Before(x, y) == \/ x.group < y.group
                      \/ x.group = y.group /\ x.rank < y.rank
                      \/ x.group = y.group /\ x.rank = y.rank /\ x.index < y.index
  IN  [n \in 1..Cardinality(Entry) |->
         CHOOSE x \in Entry : Cardinality({y \in Entry : Before(y, x)}) = n - 1]

Earlier(e, f) ==
  LET a == OrderKey(e)
      b == OrderKey(f)
  IN  \E n \in 1..4 : a[n] < b[n] /\ \A k \in 1..(n - 1) : a[k] = b[k]

(* The earliest input begins a cycle of its own.  sorted() is stable.      *)
NextEvent ==
  /\ status = "idle" /\ queue # <<>>
  /\ \E n \in DOMAIN queue :
       /\ \A k \in DOMAIN queue : ~Earlier(queue[k], queue[n])
       /\ \A k \in 1..(n - 1) : Earlier(queue[n], queue[k])
       /\ event' = queue[n]
       /\ queue' = [k \in 1..(Len(queue) - 1) |-> IF k < n THEN queue[k] ELSE queue[k + 1]]
       /\ todo' = Scheduled(Matching(queue[n]))
  /\ status' = "running" /\ steps' = 0
  /\ snapshot' = state
  /\ writes' = << >>
  /\ UNCHANGED <<input, state, work, expanding, total, drawn, emitted, selected, recorded>>

-----------------------------------------------------------------------------
(* The actions of the matching transitions, one after the other.           *)
Top == Head(todo)

Acting(ops) == status = "running" /\ work = <<>> /\ todo # <<>> /\ Top.action.op \in ops

Current(x) ==
  IF x.action.target \in DOMAIN writes THEN writes[x.action.target].value
  ELSE IF x.action.target \in DOMAIN snapshot THEN snapshot[x.action.target]
  ELSE NoValue

Mistyped(x) ==
  \/ x.action.op = "toggle-state" /\ Current(x).type # "boolean"
  \/ x.action.op = "increment-state" /\ {Current(x).type, x.action.value.type} # {"integer"}

Proposed(x) ==
  CASE x.action.op = "toggle-state" -> Bool(1 - Current(x).val)
    [] x.action.op = "increment-state" -> Number(Current(x).val + x.action.value.val)
    [] OTHER -> x.action.value

Conflict(x) ==
  x.action.target \in DOMAIN writes /\ writes[x.action.target].value # Proposed(x)

Policies(x) ==
  {x.policy} \cup IF x.action.target \in DOMAIN writes THEN writes[x.action.target].policies ELSE {}

(* Slip: the lower rank prevails.                                          *)
OutrankedFromBelow(x) ==
  Conflict(x) /\ Policies(x) = {"priority"} /\ x.rank < writes[x.action.target].rank

Outranked(x) ==
  Conflict(x) /\ Policies(x) = {"priority"} /\ x.rank > writes[x.action.target].rank

(* Slip: the type of a write is checked but not its bounds.                *)
InDomainType(x) ==
  /\ x.action.target \in DOMAIN manifest.vars
  /\ \E y \in manifest.vars[x.action.target].domain : y.type = Proposed(x).type

(* _valid_state_value()                                                    *)
InDomain(x) ==
  /\ x.action.target \in DOMAIN manifest.vars
  /\ Proposed(x) \in manifest.vars[x.action.target].domain

(* The error that an action of a transition raises, if any.                *)
ErrorOf(x) ==
  IF x.action.delay # None THEN "delayed"
  ELSE IF x.action.op = "start-process"
       THEN IF x.action.target \in DOMAIN manifest.processes THEN "none" ELSE "unknown target"
  ELSE IF x.action.op \notin StateOps THEN "none"
  ELSE IF Mistyped(x) THEN "mistyped"
  ELSE IF Conflict(x) /\ Cardinality(Policies(x)) # 1 THEN "policies"
  ELSE IF Conflict(x) /\ Policies(x) \subseteq {"reject", "merge-disjoint"} THEN "rejected"
  ELSE IF Outranked(x) THEN "none"
  ELSE IF ~InDomain(x) THEN "domain"
  ELSE "none"

RefuseAction ==
  /\ status = "running" /\ work = <<>> /\ todo # <<>>
  /\ ~OutOfSteps
  /\ ErrorOf(Top) # "none"
  /\ Fail(ErrorOf(Top))

Step(ops) ==
  /\ Acting(ops)
  /\ Consume
  /\ ErrorOf(Top) = "none"
  /\ todo' = Tail(todo)
  /\ UNCHANGED <<input, queue, event, state, snapshot, expanding, drawn, status, recorded>>

Noted(x) ==
  LET t == x.action.target IN
  IF t \in DOMAIN writes
  THEN [value |-> Proposed(x), policies |-> Policies(x),
        rank |-> IF x.rank < writes[t].rank THEN x.rank ELSE writes[t].rank]
  ELSE [value |-> Proposed(x), policies |-> {x.policy}, rank |-> x.rank]

Write ==
  /\ Step(StateOps)
  /\ writes' = IF Outranked(Top) THEN writes
               ELSE [t \in DOMAIN writes \cup {Top.action.target} |->
                       IF t = Top.action.target THEN Noted(Top) ELSE writes[t]]
  /\ UNCHANGED <<work, emitted, selected>>

Emission(op, target, process, value, id) ==
  [op |-> op, target |-> target, process |-> process, value |-> value, time |-> event.time,
   transition |-> id]

Emit ==
  /\ Step({"emit-event", "route-event", "stop-process"})
  /\ emitted' = Append(emitted, Emission(Top.action.op, Top.action.target, None, NoValue, Top.id))
  /\ UNCHANGED <<writes, work, selected>>

SelectBinding ==
  /\ Step({"select-render-binding"})
  /\ selected' = Append(selected, Top.action.target)
  /\ UNCHANGED <<writes, work, emitted>>

Item(op, p, n, id) == [op |-> op, process |-> p, index |-> n, transition |-> id]

StartProcess ==
  /\ Step({"start-process"})
  /\ work' = <<Item("enter", Top.action.target, 0, Top.id)>>
  /\ UNCHANGED <<writes, emitted, selected>>

-----------------------------------------------------------------------------
(* The expansion of a process: actions, then children, depth first.        *)
Expanding(op) == status = "running" /\ work # <<>> /\ Head(work).op = op

Self    == manifest.processes[Head(work).process]
Push(items) == work' = items \o Tail(work)
Here(op, n) == Item(op, Head(work).process, n, Head(work).transition)

Expand ==
  UNCHANGED <<input, queue, event, state, snapshot, todo, writes, selected, status, recorded>>

(* Only processes that complete at once can be part of a trace.            *)
EntryError ==
  IF Head(work).process \in expanding THEN "cycle"
  ELSE IF Self.termination # "completed" \/ Self.timings # {} THEN "unscheduled"
  ELSE IF Self.kind \notin {"one-shot", "compound", "stochastic"} THEN "lifecycle"
  ELSE "none"

Enter ==
  /\ Expanding("enter")
  /\ EntryError = "none"
  /\ expanding' = expanding \cup {Head(work).process}
  /\ Push(<<Here(IF Self.kind = "stochastic" THEN "draw" ELSE "actions", 1)>>)
  /\ UNCHANGED <<steps, total, drawn, emitted>> /\ Expand

RefuseEntry == Expanding("enter") /\ EntryError # "none" /\ Fail(EntryError)

ListActions ==
  /\ Expanding("actions")
  /\ LET n == Head(work).index IN
     Push(IF n <= Len(Self.actions) THEN <<Here("action", n), Here("actions", n + 1)>>
                                    ELSE <<Here("children", 1)>>)
  /\ UNCHANGED <<expanding, steps, total, drawn, emitted>> /\ Expand

ListChildren ==
  /\ Expanding("children")
  /\ LET n == Head(work).index IN
     IF n > Len(Self.children) THEN Push(<<Here("exit", 0)>>)
     ELSE /\ Self.children[n] \in DOMAIN manifest.processes
          /\ Push(<<Item("enter", Self.children[n], 0, Head(work).transition),
                    Here("children", n + 1)>>)
  /\ UNCHANGED <<expanding, steps, total, drawn, emitted>> /\ Expand

MissesChild(n) == n \in DOMAIN Self.children /\ Self.children[n] \notin DOMAIN manifest.processes

RefuseChild == Expanding("children") /\ MissesChild(Head(work).index) /\ Fail("unknown child")

Leave ==
  /\ Expanding("exit")
  /\ expanding' = expanding \ {Head(work).process}
  /\ Push(<<>>)
  /\ UNCHANGED <<steps, total, drawn, emitted>> /\ Expand

(* An action of a process is a request: it is emitted, not applied.        *)
EmitProcessAction ==
  /\ Expanding("action")
  /\ LET a == Self.actions[Head(work).index] IN
     /\ a.delay = None
     /\ emitted' = Append(emitted, Emission(a.op, a.target, Head(work).process, a.value,
                                            Head(work).transition))
  /\ Consume
  /\ Push(<<>>)
  /\ UNCHANGED <<expanding, drawn>> /\ Expand

RefuseDelayed ==
  Expanding("action") /\ Self.actions[Head(work).index].delay # None /\ Fail("delayed")

-----------------------------------------------------------------------------
(* Selection: a word of R that lies in the tail that would bias the choice *)
(* is rejected, and any other is mapped to an interval of the total.       *)
Candidates(p) == Len(p.actions) + Len(p.children)
Cumulative(p, k) == IF Uniform(p) THEN k + 1 ELSE UpTo(p.weights, k)
TotalWeight(p) == Cumulative(p, Candidates(p) - 1)

Limit(p, R) == R - (R % TotalWeight(p))
Rejected(p, R, word) == word >= Limit(p, R)

Selected(p, R, word) ==
  LET ticket == word \div (Limit(p, R) \div TotalWeight(p))
  IN  CHOOSE k \in 0..(Candidates(p) - 1) :
        ticket < Cumulative(p, k) /\ \A j \in 0..(k - 1) : ticket >= Cumulative(p, j)

DrawError ==
  IF Self.source \notin DOMAIN manifest.sources THEN "no source"
  ELSE IF Candidates(Self) < 1 THEN "no candidate"
  ELSE "none"

(* A distribution that does not fit the generator is found after the first *)
(* word is drawn.                                                          *)
Unfit == TotalWeight(Self) \notin 1..manifest.sources[Self.source]

Word == words[Self.source][drawn[Self.source] + 1]

Draw ==
  /\ Expanding("draw")
  /\ DrawError = "none" /\ ~Unfit
  /\ Consume
  /\ drawn' = [drawn EXCEPT ![Self.source] = (@ + 1) % Len(words[Self.source])]
  /\ LET R == manifest.sources[Self.source]
         k == Selected(Self, R, Word)
     IN  IF Rejected(Self, R, Word) THEN work' = work
         ELSE IF k < Len(Self.actions) THEN Push(<<Here("action", k + 1), Here("exit", 0)>>)
         ELSE /\ Self.children[k - Len(Self.actions) + 1] \in DOMAIN manifest.processes
              /\ Push(<<Item("enter", Self.children[k - Len(Self.actions) + 1], 0,
                             Head(work).transition), Here("exit", 0)>>)
  /\ UNCHANGED <<expanding, emitted>> /\ Expand

RefuseDraw ==
  /\ Expanding("draw")
  /\ \/ DrawError # "none" /\ Fail(DrawError)
     \/ DrawError = "none" /\ ~OutOfSteps /\ Unfit /\ Fail("distribution")
     \/ /\ DrawError = "none" /\ ~OutOfSteps /\ ~Unfit
        /\ ~Rejected(Self, manifest.sources[Self.source], Word)
        /\ MissesChild(Selected(Self, manifest.sources[Self.source], Word) - Len(Self.actions) + 1)
        /\ Fail("unknown child")

-----------------------------------------------------------------------------
Exhaust ==
  /\ OutOfSteps
  /\ \/ status = "running" /\ work = <<>> /\ todo # <<>>
     \/ Expanding("action") /\ Self.actions[Head(work).index].delay = None
     \/ Expanding("draw") /\ DrawError = "none"
  /\ Fail("microsteps")

(* The identifiers of the bindings whose conditions state s meets.         *)
Bound(renders, e, s) ==
  LET Meets(b) == b.event \in {None, e.event} /\ \A c \in b.guard : Satisfied(c, s)
      bound == SelectSeq(renders, Meets)
  IN  [n \in DOMAIN bound |-> bound[n].id]

(* The end of a cycle: the writes take effect at once, and bindings are    *)
(* selected by the new state.                                              *)
EndCycle ==
  /\ status = "running" /\ todo = <<>> /\ work = <<>>
  /\ state' = [v \in DOMAIN state |-> IF v \in DOMAIN writes THEN writes[v].value ELSE state[v]]
  /\ selected' = selected \o Bound(manifest.renders, event, state')
  /\ status' = "idle"
  /\ UNCHANGED <<input, queue, event, snapshot, todo, writes, work, expanding, steps, total,
                 drawn, emitted, recorded>>

(* dict.fromkeys(): the first occurrences, in order.                       *)
Once(s) ==
  LET First[n \in 0..Len(s)] ==
        IF n = 0 THEN <<>>
        ELSE IF s[n] \in Items(SubSeq(s, 1, n - 1)) THEN First[n - 1]
        ELSE Append(First[n - 1], s[n])
  IN  First[Len(s)]

Result == [state |-> state, emitted |-> emitted, bindings |-> Once(selected)]

Finish ==
  /\ status = "idle" /\ queue = <<>>
  /\ status' = "done"
  /\ UNCHANGED <<input, queue, event, state, snapshot, todo, writes, work, expanding,
                 steps, total, drawn, emitted, selected, recorded>>

(* verify_trace(): what was recorded is executed anew.                     *)
Reversed(s) == [n \in DOMAIN s |-> s[Len(s) + 1 - n]]

(* Slip: one interpreter, with its generators, serves both executions.     *)
VerifyWithSameInterpreter ==
  /\ pass = 1 /\ status = "done"
  /\ pass' = 2 /\ recorded' = Result
  /\ queue' = Reversed(trace.events) /\ event' = NoEvent
  /\ state' = Start(manifest, trace) /\ snapshot' = Start(manifest, trace)
  /\ todo' = <<>> /\ writes' = << >> /\ work' = <<>> /\ expanding' = {}
  /\ steps' = 0 /\ total' = 0
  /\ emitted' = <<>> /\ selected' = <<>> /\ status' = "idle"
  /\ UNCHANGED <<manifest, trace, words, drawn>>

Verify ==
  /\ pass = 1 /\ status = "done"
  /\ pass' = 2 /\ recorded' = Result
  /\ queue' = Reversed(trace.events) /\ event' = NoEvent
  /\ state' = Start(manifest, trace) /\ snapshot' = Start(manifest, trace)
  /\ todo' = <<>> /\ writes' = << >> /\ work' = <<>> /\ expanding' = {}
  /\ steps' = 0 /\ total' = 0
  /\ drawn' = [s \in DOMAIN manifest.sources |-> 0]
  /\ emitted' = <<>> /\ selected' = <<>> /\ status' = "idle"
  /\ UNCHANGED <<manifest, trace, words>>

Next ==
  \/ NextEvent \/ RefuseAction \/ Write \/ Emit \/ SelectBinding \/ StartProcess
  \/ Enter \/ RefuseEntry \/ ListActions \/ ListChildren \/ RefuseChild \/ Leave
  \/ EmitProcessAction \/ RefuseDelayed \/ Draw \/ RefuseDraw
  \/ Exhaust \/ EndCycle \/ Finish \/ Verify

Spec == Init /\ [][Next]_vars /\ WF_vars(Next)

-----------------------------------------------------------------------------
(* Properties.                                                             *)
Ends == {"idle", "running", "done"} \cup Errors

TypeOK ==
  /\ pass \in {1, 2}
  /\ status \in Ends
  /\ DOMAIN state = DOMAIN manifest.vars /\ DOMAIN snapshot = DOMAIN manifest.vars
  /\ \A t \in DOMAIN writes : writes[t].policies # {}
  /\ expanding \subseteq DOMAIN manifest.processes
  /\ {w.op : w \in Items(work)} \subseteq {"enter", "draw", "actions", "children", "action", "exit"}
  /\ 0 <= steps /\ steps <= total /\ steps <= manifest.maximum /\ total <= MaxTotal

Accepted == Accepts(manifest) /\ AcceptsTrace(manifest, trace)

(* What the validator accepts cannot trip the interpreter for a reason     *)
(* that the manifest shows: nothing is unresolved, no expansion runs in a  *)
(* circle, every draw finds a distribution that its generator can serve,   *)
(* and only an increment by a boolean is mistyped.                         *)
AcceptedTripsOnlyAtRun ==
  Accepted =>
    /\ status \notin {"unknown target", "unknown child", "cycle", "no source", "no candidate",
                      "distribution"}
    /\ status = "mistyped" => Top.action.op = "increment-state" /\ Top.action.value.type = "boolean"

(* At every moment of an accepted trace each state variable has a value of *)
(* its domain, however its writes were relative to each other.             *)
StateInDomain == Accepted => \A v \in DOMAIN state : state[v] \in manifest.vars[v].domain

(* A cycle that ends well leaves what the standard says: of the writes of  *)
(* one variable by set-state under one policy, the last of the highest     *)
(* rank, or the last, or the only one there is.                            *)
Schedule == Scheduled(Matching(event))

WritesTo(v) ==
  {n \in DOMAIN Schedule : Schedule[n].action.target = v /\ Schedule[n].action.op \in StateOps}

Declared(v, policy) ==
  \A n \in WritesTo(v) : Schedule[n].action.op = "set-state" /\ Schedule[n].policy = policy

Latest(S) == CHOOSE n \in S : \A k \in S : k <= n

Winner(v, policy) ==
  LET highest == {n \in WritesTo(v) : \A k \in WritesTo(v) : Schedule[n].rank <= Schedule[k].rank}
  IN  Schedule[Latest(IF policy = "priority" THEN highest ELSE WritesTo(v))].action.value

PoliciesDecide ==
  [][EndCycle => \A v \in DOMAIN state, policy \in {"reject", "priority", "last-event-wins", "merge-disjoint"} :
       WritesTo(v) # {} /\ Declared(v, policy)
         => /\ state'[v] = Winner(v, policy)
            /\ policy \in {"reject", "merge-disjoint"} =>
                 \A n \in WritesTo(v) : Schedule[n].action.value = state'[v]]_vars

(* A trace that was recorded by a correct host passes verification, in     *)
(* whatever order its inputs are listed.                                   *)
ReplayAgrees ==
  pass = 2 /\ Accepted /\ status \notin {"idle", "running"} => status = "done" /\ Result = recorded

(* Every execution ends, also one whose words are rejected again and again. *)
ExecutionEnds == <>(status \notin {"idle", "running"})

(* VAO_STANDARD_0.5.0.md:307: different writes to one state variable       *)
(* during one input event are a conflict, and all conflicting transitions  *)
(* must declare the same policy.                                           *)
DisagreementIsRefused ==
  [][EndCycle => \A v \in DOMAIN state : \A j, k \in WritesTo(v) :
       LET x == Schedule[j]
           y == Schedule[k]
       IN  x.action.op = "set-state" /\ y.action.op = "set-state" /\ x.action.value # y.action.value
             => x.policy = y.policy]_vars
=============================================================================
