---------------------------- MODULE BreakpointSet ----------------------------
(***************************************************************************)
(* What the debugger promises about breakpoints: a bounded set of          *)
(* addresses.  A 'Z' packet either leaves its address in the set and is    *)
(* answered OK or is answered E01 because the set is full; a 'z' packet    *)
(* leaves its address out of the set and is always answered OK.            *)
(***************************************************************************)
EXTENDS Naturals, FiniteSets

CONSTANTS Addr, MAX_BREAKPOINTS

VARIABLES set,    \* the armed addresses
          reply   \* the last 'Z' or 'z' packet and its answer

Init == set = {} /\ reply = [op |-> "none", addr |-> 0, ans |-> "none"]

Insert(a) ==
  /\ a \in set \/ Cardinality(set) < MAX_BREAKPOINTS
  /\ set' = set \cup {a}
  /\ reply' = [op |-> "Z", addr |-> a, ans |-> "OK"]

Refuse(a) ==
  /\ a \notin set
  /\ Cardinality(set) = MAX_BREAKPOINTS
  /\ reply' = [op |-> "Z", addr |-> a, ans |-> "E01"]
  /\ set' = set

Remove(a) ==
  /\ set' = set \ {a}
  /\ reply' = [op |-> "z", addr |-> a, ans |-> "OK"]

Next == \E a \in Addr : Insert(a) \/ Refuse(a) \/ Remove(a)

vars == <<set, reply>>

Spec == Init /\ [][Next]_vars
==============================================================================
