---------------------------- MODULE StructureLog ----------------------------
(***************************************************************************)
(* What replication promises about structure, that is which entities a     *)
(* client has and which components they have: "All events, messages,       *)
(* inserts, removals and despawns will be applied to clients in the same   *)
(* order as on the server" (src/src/lib.rs, Eventual consistency).         *)
(*                                                                         *)
(* For each client the server publishes a sequence of structures.  The     *)
(* client shows the first one of its pipeline and moves to the next one,   *)
(* skipping none, until it shows the last one, which is the structure the  *)
(* server has on record for it.  Nothing else changes what it shows.       *)
(***************************************************************************)
EXTENDS Integers, Sequences

CONSTANTS Clients, Structures, Empty

VARIABLES
  server,    \* the structure the server has on record for each client
  pipeline   \* the structures the client shows and has yet to show

logVars == <<server, pipeline>>

LogInit ==
  /\ server = [cl \in Clients |-> Empty]
  /\ pipeline = [cl \in Clients |-> <<Empty>>]

\* One send: each client is sent nothing or the next structure.
Publish ==
  \A cl \in Clients :
    \/ server'[cl] = server[cl] /\ pipeline'[cl] = pipeline[cl]
    \/ server'[cl] \in Structures /\ pipeline'[cl] = Append(pipeline[cl], server'[cl])

\* A client moves to the next structure.
Advance(cl) ==
  /\ Len(pipeline[cl]) > 1
  /\ pipeline' = [pipeline EXCEPT ![cl] = Tail(@)]
  /\ UNCHANGED server

\* A session ends: its client starts again from nothing.
Restart(cl) ==
  /\ server' = [server EXCEPT ![cl] = Empty]
  /\ pipeline' = [pipeline EXCEPT ![cl] = <<Empty>>]

LogNext == Publish \/ \E cl \in Clients : Advance(cl) \/ Restart(cl)

LogSpec == LogInit /\ [][LogNext]_logVars
=============================================================================
