----------------------------- MODULE MCArm920tMmu -----------------------------
(***************************************************************************)
(* Page 0 is mapped to its own memory or to that of page 1.  Page 1, where *)
(* the stores go, is mapped write-back and read-only in user mode, cached  *)
(* without the buffer, or to the page that flushes the D cache.            *)
(***************************************************************************)
EXTENDS Arm920tMmu, TLC

MCPage == {0, 1}
MCFlushPage == 2

Map(pa, c, b, ap) ==
  [mapped |-> TRUE, pa |-> pa, c |-> c, b |-> b, ap |-> ap, access |-> 1]

MCControls == {{}, {"M"}, {"M", "C"}}

MCEntries ==
  (0 :> {Map(0, TRUE, TRUE, 2), Map(1, TRUE, FALSE, 3)}) @@
  (1 :> {Map(1, TRUE, TRUE, 2), Map(1, TRUE, FALSE, 3), Map(MCFlushPage, TRUE, FALSE, 3)})

\* Two words of one half of the line; one of them changes more than once.
MCStores == {[va |-> 1, k |-> 0, v |-> 0],
             [va |-> 1, k |-> 0, v |-> 1],
             [va |-> 1, k |-> 1, v |-> 1]}
===============================================================================
