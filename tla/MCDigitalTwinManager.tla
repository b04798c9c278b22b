------------------------ MODULE MCDigitalTwinManager ------------------------
\* Instances of DigitalTwinManager for TLC: two of the twelve nodes, the last
\* of which is the TCP endpoint.
EXTENDS DigitalTwinManager

CONSTANTS bridge, endpoint, m1, m2
Nodes == <<bridge, endpoint>>
=============================================================================
