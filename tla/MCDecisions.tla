------------------------------ MODULE MCDecisions ------------------------------
EXTENDS Confirmations, TLC
CONSTANTS beam, target, v1
Symm == Permutations({beam, target})
===============================================================================
