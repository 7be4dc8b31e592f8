---------------------------- MODULE MCTidalBlocking ----------------------------
EXTENDS TidalBlocking, NetworkCases

\* Evaluated once by TLC; MCCases refers to the result.
Networks == Diamonds(0 .. 2) \cup Detours({1, 2}) \cup Overpromises({1, 2})
              \cup Streets({0, 2})
MCCases == Networks
===============================================================================
