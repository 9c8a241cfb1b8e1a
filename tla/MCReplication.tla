--------------------------- MODULE MCReplication ---------------------------
(***************************************************************************)
(* Instances of Replication for TLC: the components and the scopes and     *)
(* lifetimes that the configurations give to the visibility filters.       *)
(***************************************************************************)
EXTENDS ReplicationRefinement, TLC

CONSTANTS a, b           \* components, as model values
CONSTANTS EntityFilter, ComponentFilter, PresentFilter

Symmetric == Permutations(Entities)

\* No filters.
NoScope == <<>>
NoLifetime == <<>>

\* One filter hides the whole entity, one everything but component b, and
\* one hides component a but lets its insertion through.
EachScope ==
  [f \in Filters |->
     CASE f = EntityFilter -> [kind |-> "Entity", mask |-> {}]
       [] f = ComponentFilter -> [kind |-> "AllExcept", mask |-> {b}]
       [] f = PresentFilter -> [kind |-> "Components", mask |-> {a}]]
EachLifetime == [f \in Filters |-> IF f = PresentFilter THEN AlwaysPresent ELSE WhileVisible]

\* One filter hides component a.
ComponentScope == [f \in Filters |-> [kind |-> "Components", mask |-> {a}]]

EachWhileVisible == [f \in Filters |-> WhileVisible]
EachAfterFirst == [f \in Filters |-> AfterFirstVisibility]
=============================================================================
