------------------------------ MODULE MCTransport ------------------------------
\* Two addresses of the interface, and clients whose ports differ in either
\* octet - one of them on this host.
EXTENDS Transport

MCInterfaces == {<<10, 0, 1, 20>>, LOOPBACK}
MCClients    == {At(<<10, 0, 1, 9>>, 49153), At(<<127, 0, 0, 1>>, 258)}
MCPorts      == {-1, 0, 47824}
=============================================================================
