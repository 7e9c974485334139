---------------------------- MODULE MCProxyPeers ----------------------------
(* Small instances of ProxyPeers.  The peers are all alike. *)
EXTENDS ProxyPeers, TLC

Symmetry == Permutations(Conn)
=============================================================================
