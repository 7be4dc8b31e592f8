---------------------------- MODULE MCCudaLevelGraph ---------------------------
(***************************************************************************)
(* One call of the level-graph builder of either CUDA program: the state   *)
(* of the prefix kernel contains that of the atomic one, which leaves the  *)
(* variables of the blocks alone.                                          *)
(***************************************************************************)
EXTENDS CudaPrefixKernel, NetworkCases

VARIABLE program      \* "cuda" or "cudaPrefix", the program that is running

Atomic == INSTANCE CudaAtomicKernel

CallVars == <<vars, program>>

CallsInit == Init /\ program \in {"cuda", "cudaPrefix"}

AtomicNext == program = "cuda" /\ Atomic!Next /\ UNCHANGED <<program, blockVars>>

PrefixNext == program = "cudaPrefix" /\ Next /\ UNCHANGED program

CallsNext == AtomicNext \/ PrefixNext

Calls == CallsInit /\ [][CallsNext]_CallVars

\* Evaluated once by TLC; MCCases refers to the result.
Networks == Fan({0, 1}) \cup Diamonds({0, 1}) \cup Streets({1, 2})
MCCases == Networks
===============================================================================
