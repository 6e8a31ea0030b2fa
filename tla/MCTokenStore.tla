---------------------------- MODULE MCTokenStore ----------------------------
(* Two handlers at a time, three session tokens and two bootstrap tokens.  *)
EXTENDS TokenStore, TLC

MCSymmetry ==
    Permutations(Requests) \cup Permutations(Tokens) \cup Permutations(BootTokens)
=============================================================================
