---------------------------- MODULE MCLifecycle ----------------------------
(* Small instances of Lifecycle.                                           *)
EXTENDS Lifecycle, TLC
CONSTANTS server, c1, c2, n, i1, i2, i3

\* A server that creates and closes, again and again, and two clients.
ServerCreates == (server :> {n}) @@ (c1 :> {}) @@ (c2 :> {})
\* Two processes that create under one name.
TwoCreate     == (server :> {n}) @@ (c1 :> {n}) @@ (c2 :> {})
MCSymmetry    == Permutations({i1, i2, i3}) \cup Permutations({c1, c2})
=============================================================================
