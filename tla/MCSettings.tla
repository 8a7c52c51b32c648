----------------------------- MODULE MCSettings -----------------------------
(* Started as it is, or at another port for another destination, with a    *)
(* key for it.                                                             *)
EXTENDS Settings

RunsMC ==
  {[url |-> "none", given |-> FALSE, port |-> "us1"],
   [url |-> "other", given |-> TRUE, port |-> "us2"]}
=============================================================================
