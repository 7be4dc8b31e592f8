----------------------------- MODULE MCTidalOpenMP -----------------------------
EXTENDS TidalOpenMP, NetworkCases

\* Evaluated once by TLC; MCCases refers to the result.
Networks == Contended(1 .. 3) \cup Parallel(1 .. 3) \cup Diamonds({1, 2}) \cup Overpromises({1, 2})
              \cup Streets({1, 2})
MCCases == Networks
===============================================================================
