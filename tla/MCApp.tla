-------------------------------- MODULE MCApp --------------------------------
EXTENDS App
CONSTANTS n1, p1

FirstSettings == [name |-> n1, password |-> p1]
=============================================================================
