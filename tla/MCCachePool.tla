---------------------------- MODULE MCCachePool ----------------------------
(* Three of the six size classes, scaled down, and two ints of the twenty-four read. *)
EXTENDS CachePool

Sizes == <<2, 4, 8>>
=============================================================================
