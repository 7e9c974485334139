----------------------------- MODULE MCPSCProxy -----------------------------
(* Small instances of PSCProxy: model values for the commands and the      *)
(* connections; who has the credentials, and what may go wrong around the  *)
(* programs, is chosen by each .cfg.                                       *)
EXTENDS PSCProxyInvariant, PSCProxyRemoteCard, TLC

(* Where all clients have the credentials they are alike, and so are the   *)
(* commands; used for safety only.                                         *)
Symmetry == Permutations(Conn) \union Permutations(Cmd)
=============================================================================
