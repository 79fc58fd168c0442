---------------------------- MODULE IceBreakpoints ----------------------------
(***************************************************************************)
(* The breakpoint table of the debugger (struct SkyEye_ICE, utils/         *)
(* debugger/skyeye2gdb.c): a fixed array bps of MAX_BREAKPOINTS addresses  *)
(* of which the first num_bps are armed.  An insertion appends, a removal  *)
(* moves the last entry into the hole.  The 'Z' and 'z' packet handlers of *)
(* sim_debug (gdbserver.c) are the only callers.                           *)
(***************************************************************************)
EXTENDS Integers, FiniteSets

CONSTANTS Addr,             \* instruction addresses
          MAX_BREAKPOINTS   \* length of the array (64 in the build)

ASSUME IceConstants == MAX_BREAKPOINTS \in Nat \ {0} /\ 0 \in Addr

VARIABLES bps, num_bps,
          reply   \* the last 'Z' or 'z' packet and its answer

iceVars == <<bps, num_bps, reply>>

Armed == 0 .. num_bps - 1

\* The addresses ARMul_ICE_debug compares the fetch address with.
Breakpoints == {bps[i] : i \in Armed}

FirstMatch(a) ==
  CHOOSE i \in Armed : bps[i] = a /\ \A j \in Armed : bps[j] = a => i <= j

\* skyeye_ice is a zero-initialised static; sim_debug sets num_bps once,
\* before its accept loop.
IceInit ==
  /\ bps = [i \in 0 .. MAX_BREAKPOINTS - 1 |-> 0]
  /\ num_bps = 0
  /\ reply = [op |-> "none", addr |-> 0, ans |-> "none"]

Answer(op, a, ans) == [op |-> op, addr |-> a, ans |-> ans]

\* Mutant: the search for an earlier entry is forgotten.
insert_blindly(a) ==
  /\ num_bps < MAX_BREAKPOINTS
  /\ bps' = [bps EXCEPT ![num_bps] = a]
  /\ num_bps' = num_bps + 1
  /\ reply' = Answer("Z", a, "OK")

\* 'Z' with type 0 or 1: sim_ice_breakpoint_insert, answered OK unless it
\* returned a negative number.
insert(a) ==
  \/ /\ a \in Breakpoints                      \* returns 1
     /\ reply' = Answer("Z", a, "OK")
     /\ UNCHANGED <<bps, num_bps>>
  \/ /\ a \notin Breakpoints
     /\ num_bps >= MAX_BREAKPOINTS             \* returns -1
     /\ reply' = Answer("Z", a, "E01")
     /\ UNCHANGED <<bps, num_bps>>
  \/ /\ a \notin Breakpoints
     /\ num_bps < MAX_BREAKPOINTS              \* returns 0
     /\ bps' = [bps EXCEPT ![num_bps] = a]
     /\ num_bps' = num_bps + 1
     /\ reply' = Answer("Z", a, "OK")

\* Mutant: the last entry is dropped instead of the one that was found.
remove_last(a) ==
  /\ reply' = Answer("z", a, "OK")
  /\ num_bps' = IF a \in Breakpoints THEN num_bps - 1 ELSE num_bps
  /\ bps' = bps

\* 'z' with type 0 or 1: sim_ice_breakpoint_remove returns 0 or 1, so the
\* handler always answers OK.
remove(a) ==
  /\ reply' = Answer("z", a, "OK")
  /\ \/ /\ a \notin Breakpoints
        /\ UNCHANGED <<bps, num_bps>>
     \/ /\ a \in Breakpoints
        /\ num_bps' = num_bps - 1
        /\ bps' = IF FirstMatch(a) < num_bps - 1
                    THEN [bps EXCEPT ![FirstMatch(a)] = bps[num_bps - 1]]
                    ELSE bps

IceNext == \E a \in Addr : insert(a) \/ remove(a)

IceSpec == IceInit /\ [][IceNext]_iceVars
-------------------------------------------------------------------------------
IceTypeOK ==
  /\ bps \in [0 .. MAX_BREAKPOINTS - 1 -> Addr]
  /\ num_bps \in 0 .. MAX_BREAKPOINTS
  /\ reply \in [op : {"none", "Z", "z"}, addr : Addr, ans : {"none", "OK", "E01"}]

(***************************************************************************)
(* No address is armed twice: otherwise the swap-with-last removal in      *)
(* sim_ice_breakpoint_remove would leave a breakpoint that the debugger    *)
(* was told is gone.                                                       *)
(***************************************************************************)
NoDuplicates == \A i, j \in Armed : bps[i] = bps[j] => i = j

(***************************************************************************)
(* The array with its counter behaves as the bounded set of                *)
(* BreakpointSet: appending and swap-with-last never lose or keep another  *)
(* address, and an insertion is refused only when the set is really full.  *)
(***************************************************************************)
Set == INSTANCE BreakpointSet WITH set <- Breakpoints
ImplementsSet == Set!Spec
===============================================================================
