----------------------- MODULE ReplicationRefinement -----------------------
(***************************************************************************)
(* Replication implements StructureLog: the structures of a client's       *)
(* pipeline are the one of its replica and the ones that each update       *)
(* message on its way leads to, and the server's record is ClientTicks.    *)
(* Without filters and pauses, whose documented leaks are not in the log.  *)
(***************************************************************************)
EXTENDS Replication

\* The components of each entity; Unmapped marks the absence of the entity.
Unmapped == "unmapped"
Structure(copies) ==
  [e \in Entities |-> IF copies[e].history = 0 THEN <<Unmapped>>
                      ELSE <<"mapped", HeldComponents(copies[e])>>]
TrackedStructure(cl) ==
  [e \in Entities |-> IF ticks[cl][e] = NoTicks THEN <<Unmapped>>
                      ELSE <<"mapped", ticks[cl][e].components>>]

NoStructure == [e \in Entities |-> <<Unmapped>>]
AllStructures ==
  [Entities -> {<<Unmapped>>} \cup {<<"mapped", cs>> : cs \in SUBSET Components}]

Pipeline(cl) ==
  LET after[n \in 0 .. Len(updates[cl])] ==
        IF n = 0 THEN replica[cl]
        ELSE [e \in Entities |-> ApplyUpdate(updates[cl][n], e, after[n - 1][e])]
  IN [n \in 1 .. Len(updates[cl]) + 1 |-> Structure(after[n - 1])]

\* A broken session is shown as one that has not started.
Log == INSTANCE StructureLog WITH
  Structures <- AllStructures,
  Empty <- NoStructure,
  server <- [cl \in Clients |-> IF Linked(cl) THEN TrackedStructure(cl) ELSE NoStructure],
  pipeline <- [cl \in Clients |-> IF Linked(cl) THEN Pipeline(cl) ELSE <<NoStructure>>]

\* Spawns, insertions, removals and despawns reach each client in the order
\* the server sent them, none is skipped, the client ends at the structure
\* the server has on record, and mutate messages never alter structure.
ImplementsStructureLog == Log!LogSpec
=============================================================================
