---------------------------- MODULE MCOmpLevelGraph ----------------------------
EXTENDS OmpLevelGraph, NetworkCases

\* Evaluated once by TLC; MCCases refers to the result.
Networks == Fan({1}) \cup Diamonds({0, 1}) \cup Streets({2}) \cup Wide
MCCases == Networks
===============================================================================
