---------------------------- MODULE MCCacheSync ----------------------------
(* CacheSync with two firmware tasks and all ranges of a small address     *)
(* space.                                                                  *)
EXTENDS CacheSync

TwoTasks == 1 .. 2
AllRanges == (0 .. W - 1) \X (0 .. W - 1)

=============================================================================
