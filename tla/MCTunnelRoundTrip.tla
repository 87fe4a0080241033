------------------------- MODULE MCTunnelRoundTrip -------------------------
(* Small instances of TunnelRoundTrip; requests are interchangeable.        *)
EXTENDS TunnelRoundTrip, TLC

Symmetry == Permutations(Requests)
=============================================================================
