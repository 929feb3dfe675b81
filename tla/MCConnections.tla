--------------------------- MODULE MCConnections ---------------------------
(***************************************************************************)
(* Two calls at once, two grants, two generations of tokens each, and one  *)
(* retry after a rate limit.  Where a Bitbucket token came from changes    *)
(* nothing the code does with it: its account is looked at in one mode.    *)
(***************************************************************************)
EXTENDS Connections, TLC

Matters == provider.name = "bitbucket" => mode = "broker"

MCInit == Init /\ Matters

MCNext == Next /\ Matters'

MCSpec == MCInit /\ [][MCNext]_vars

Symmetry == Permutations(Calls)
=============================================================================
