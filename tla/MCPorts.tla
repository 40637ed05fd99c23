------------------------------- MODULE MCPorts -------------------------------
EXTENDS Ports, TLC

CONSTANTS v, j1, j2, j3

\* Three Cisco ports, the second of them in a LAG, and a Dell port.
FourPorts == <<"cisco", "cisco", "dell", "cisco">>

\* The last port may also have no switchport mode, or be a former trunk.
Access(u) == [mode |-> "access", untag |-> u, tags |-> {}, desc |-> FALSE]
Found == <<{Access(v), Access(Unused)}, {Access(v)}, {Access(v), Access(Unused)},
           {Access(v), [Access(v) EXCEPT !.mode = "none"], [Access(Unused) EXCEPT !.desc = TRUE]}>>

Symmetry == Permutations(Jobs)
=============================================================================
