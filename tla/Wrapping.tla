------------------------------ MODULE Wrapping ------------------------------
(***************************************************************************)
(* Wrapping counters: RepliconTick (u32) and DiffIndex (u16).              *)
(*                                                                         *)
(* A counter is a natural number below its modulus.  One is newer than     *)
(* another when the wrapping distance to it is at most half of the range.  *)
(***************************************************************************)
EXTENDS Integers

MaxNewerDistance(mod) == (mod - 1) \div 2

\* Sub: the wrapping distance from b to a.
DistanceAfter(a, b, mod) == (a - b) % mod

\* is_newer and is_older_or_eq, by wrapping_cmp.
IsNewer(a, b, mod) == DistanceAfter(a, b, mod) \in 1..MaxNewerDistance(mod)
IsOlderOrEq(a, b, mod) == ~IsNewer(a, b, mod)

\* Add, AddAssign.
Advance(a, n, mod) == (a + n) % mod
=============================================================================
