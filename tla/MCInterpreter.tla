--------------------------- MODULE MCInterpreter ---------------------------
(* One boolean and one bounded integer variable, one event with up to      *)
(* three transitions that write to them under every policy and in two      *)
(* execution groups; and processes that form every graph of two children,  *)
(* one of them stochastic, over generators of four words.                  *)
EXTENDS Interpreter, TLC

CONSTANTS on, level, single, chance, pair, dice

Act(op, target, value, group) ==
  [op |-> op, target |-> target, value |-> value, group |-> group, delay |-> None]

Set(n, group) == Act("set-state", level, Number(n), group)

Tr(id, priority, policy, actions) ==
  [id |-> id, event |-> 1, control |-> None, guard |-> {}, actions |-> actions,
   priority |-> priority, policy |-> policy]

Proc(kind, actions, children) ==
  [kind |-> kind, termination |-> "completed", iterations |-> None, duration |-> None,
   cancel |-> None, timings |-> {}, actions |-> actions, children |-> children,
   source |-> dice, weights |-> << >>]

Note == Act("emit-event", 2, NoValue, 0)

Vars ==
  on :> [kind |-> "boolean", domain |-> {Bool(0), Bool(1)}, default |-> Bool(0), subject |-> None]
  @@ level :> [kind |-> "integer", domain |-> {Number(0), Number(1), Number(2)},
               default |-> Number(0), subject |-> None]

Base == [events |-> (1 :> {NoValue} @@ 2 :> {NoValue}), controls |-> {}, vars |-> Vars,
         transitions |-> {}, routes |-> {}, timings |-> {}, processes |-> << >>,
         renders |-> <<[id |-> 7, event |-> None, process |-> None, samples |-> {},
                        guard |-> {[var |-> level, op |-> "greater-than", value |-> Number(0)]}]>>,
         entities |-> {}, samples |-> {}, sources |-> (dice :> 4), maximum |-> 6]

Policy == {"reject", "priority", "last-event-wins", "merge-disjoint"}

Writers(p, q, r) ==
  [Base EXCEPT !.transitions =
     {Tr(1, 0, p, <<w>>) : w \in {Set(1, 1)}} \cup q \cup r]

Second == {{}} \cup {{Tr(2, n, p, <<a>>)} : n \in {0, 1}, p \in Policy,
                     a \in {Set(1, 0), Set(2, 2), Act("increment-state", level, Number(1), 0)}}
Third == {{}} \cup {{Tr(3, 0, p, <<Set(n, 2), Act("toggle-state", on, NoValue, 1)>>)} :
                     p \in {"reject", "priority", "last-event-wins"}, n \in {1, 2, 3}}
           \cup {{Tr(3, 0, "reject", <<Act("increment-state", on, Number(1), 0)>>)},
                 {Tr(3, 0, "reject", <<Act("increment-state", level, Bool(1), 0),
                                       Act("select-render-binding", 7, NoValue, 0)>>)}}

Conflicts == {Writers(p, q, r) : p \in Policy, q \in Second, r \in Third}

Children == {<<>>, <<pair>>, <<single, single>>, <<chance, pair>>}

Expansions ==
  {[Base EXCEPT
      !.transitions = {Tr(1, 0, "reject", <<Act("start-process", pair, NoValue, 0)>>),
                       [Tr(2, 1, "reject", <<Set(1, 0), Act("stop-process", single, NoValue, 0)>>)
                          EXCEPT !.guard = {[var |-> level, op |-> "equals", value |-> Number(0)]}]},
      !.processes = single :> [Proc(kind, <<Note>>, <<>>) EXCEPT !.termination = t]
                    @@ chance :> [Proc("stochastic", <<Note>>, c) EXCEPT !.weights = w]
                    @@ pair :> Proc("compound", <<Note>>, d),
      !.sources = s] :
     kind \in {"one-shot", "sustained"}, t \in {"completed", "external-cancel"},
     c \in Children, d \in {<<chance>>, <<single, chance>>, <<pair>>, <<level>>},
     w \in {<< >>, (0 :> 1 @@ 1 :> 2), (0 :> 2 @@ 2 :> 1), (0 :> 5), (3 :> 1)},
     s \in {dice :> 4, << >>}}

MCManifests == Conflicts \cup Expansions
                 \cup {[Base EXCEPT !.transitions = {Tr(1, 0, "reject", <<[Set(1, 0) EXCEPT !.delay = level]>>)}],
                       [Base EXCEPT !.transitions = {Tr(1, 0, "reject", <<Act("select-render-binding", 7, NoValue, 0), Set(1, 1)>>)}],
                       [Base EXCEPT
                          !.transitions = {Tr(1, 0, "reject", <<Act("start-process", single, NoValue, 0)>>)},
                          !.processes = single :> Proc("one-shot", <<[Note EXCEPT !.delay = level]>>, <<>>)],
                       [Base EXCEPT !.transitions = {Tr(1, 0, "reject", <<Set(1, 0), Set(1, 0)>>)},
                                    !.maximum = 1]}

In(time, sequence) ==
  [event |-> 1, control |-> None, time |-> time, priority |-> 0, sequence |-> sequence, value |-> NoValue]

MCTraces == {[events |-> e, initial |-> i] :
               e \in {<<In(0, 1), In(0, 0)>>, <<In(1, 0), In(0, 0)>>},
               i \in {<< >>, level :> Number(1)}}

MCWords == {dice :> w : w \in {<<0, 3, 1>>, <<3>>, <<1, 2, 2>>}}

-----------------------------------------------------------------------------
(* Of the words that are not rejected, each candidate of a draw is         *)
(* selected by a share in exact proportion to its weight, whatever the     *)
(* range of the generator (scaled_index() and categorical_index(),         *)
(* vao05_runtime.py:107-140).                                              *)
Weights == {<< >>} \cup [0..2 -> 1..3]
             \cup {0 :> 2 @@ 2 :> 1, 1 :> 3, 0 :> 1 @@ 1 :> 4, 2 :> 5}

Weight(p, k) == IF Uniform(p) THEN 1 ELSE IF k \in DOMAIN p.weights THEN p.weights[k] ELSE 0

ASSUME SelectionIsExact ==
  \A weights \in Weights, R \in 1..12, children \in {<<>>, <<pair>>, <<pair, single>>} :
    LET p == [Proc("stochastic", <<Note>>, children) EXCEPT !.weights = weights]
    IN  StochasticFits([Base EXCEPT !.sources = dice :> R], p) =>
          \A k \in 0..(Candidates(p) - 1) :
            Cardinality({w \in 0..(R - 1) : ~Rejected(p, R, w) /\ Selected(p, R, w) = k})
              * TotalWeight(p) = Weight(p, k) * Limit(p, R)
=============================================================================
