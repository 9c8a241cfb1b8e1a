----------------------------- MODULE MCMessages -----------------------------
(***************************************************************************)
(* Instances of Messages for TLC.                                          *)
(***************************************************************************)
EXTENDS Messages

CONSTANTS c1, c2

\* For an instance with one client.
MCOneClient == {ToAll, AllExcept(Server), Single(c1)}

\* Dependent messages in order, independent ones without guarantee.
MCMixed == [kind \in Kinds |-> IF kind = "Independent" THEN "Unreliable" ELSE "Ordered"]

\* Everything but the server's own report is ordered.
MCOrdered == [kind \in Kinds |-> "Ordered"]

\* Dependent messages without order, independent ones without guarantee.
MCLossy ==
  [kind \in Kinds |-> CASE kind = "Dependent" -> "Unordered"
                        [] kind = "Independent" -> "Unreliable"
                        [] OTHER -> "Ordered"]
=============================================================================
