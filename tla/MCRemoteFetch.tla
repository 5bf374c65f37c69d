--------------------------- MODULE MCRemoteFetch ---------------------------
(* Instances of RemoteFetch for TLC.                                       *)
EXTENDS RemoteFetch, TLC

CONSTANTS ticker, button

(* Only a poll that waits for a silent server tells the ticker's poll from  *)
(* the button's: with MaxSilent = 0 they are alike.                         *)
SymmetricPolls == Permutations(Session)
=============================================================================
