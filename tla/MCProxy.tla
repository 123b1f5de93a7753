------------------------------ MODULE MCProxy -------------------------------
EXTENDS Proxy, TLC

ProxySymmetry == Permutations(Threads) \cup Permutations(Objects) \cup Permutations(Urls)
=============================================================================
