---------------------------- MODULE MCTracepoints ----------------------------
(* The payloads that Tracepoints is checked with: the registers, memory at an address,
   with a hole in it, and memory at a register. *)
EXTENDS Tracepoints, TLC

MCPayloads ==
  {[type |-> "REGISTERS", base |-> <<>>, offset |-> <<>>, length |-> <<>>],
   [type |-> "MEMORY", base |-> <<>>, offset |-> <<1>>, length |-> <<4>>],
   [type |-> "MEMORY", base |-> <<0, 13>>, offset |-> <<0>>, length |-> <<2>>]}

\* Addresses of instructions are only compared.
MCSymmetry == Permutations(Pc)
=============================================================================
