----------------------------- MODULE MCEtlPage -----------------------------
EXTENDS EtlPage

TwoPeers == {"p", "q"}
TwoRows == {"r", "s"}
PeerRows == [p |-> {"r", "s"}, q |-> {"r"}]
=============================================================================
