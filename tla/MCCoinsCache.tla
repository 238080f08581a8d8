---------------------------- MODULE MCCoinsCache ----------------------------
(* Two outpoints, two coins and two blocks: every pair of entries meets at   *)
(* every pair of levels.                                                     *)
EXTENDS CoinsCache
=============================================================================
