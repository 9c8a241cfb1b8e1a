---------------------------- MODULE MCSelection ----------------------------
(* Instances of Selection for TLC. *)
EXTENDS Selection

CONSTANTS a, b, m, n

Rule(components, filters, priority) ==
  [components |-> components, filters |-> filters, priority |-> priority]

\* m has the higher priority.
MCPriority == m :> 2 @@ n :> 1

\* Rules that overlap and whose priorities tie, one of them with filters and one
\* with the default priority.
MCCandidates == {Rule(<<a, b>>, {}, None), Rule(<<b, n, m>>, {}, 2),
                 Rule(<<b>>, {With(a), AnyOf({Without(m), With(n)})}, 1)}

=============================================================================
