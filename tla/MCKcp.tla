------------------------------- MODULE MCKcp -------------------------------
\* Kcp on a small instance: the client sends, the server acknowledges.
EXTENDS KcpProperties, TLC

CONSTANTS ClientSends, ServerSends, ToClient, ToServer

MCMaxSent == [p \in Peers |-> IF p = Client THEN ClientSends ELSE ServerSends]
MCNetCap == [p \in Peers |-> IF p = Client THEN ToClient ELSE ToServer]

\* itimediff against the order of the naturals, around the end of the number space.
ASSUME SerialOrder ==
  \A later, earlier \in 0 .. 3 * Space, offset \in 0 .. Half :
    LET difference == later - (earlier + offset)
    IN  difference \in -Half .. Half - 1 => ComparesAsNaturals(later, earlier, offset)

\* Payloads are only copied and compared.
DataSymmetry == Permutations(Data)
=============================================================================
