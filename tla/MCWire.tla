------------------------------- MODULE MCWire -------------------------------
EXTENDS Wire

\* One address of each family, their fields all different, the octets of a port
\* too.
MCAddresses == {V4(258, 7), V6(773, 4, 8, 6)}
=============================================================================
