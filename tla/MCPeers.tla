------------------------------ MODULE MCPeers ------------------------------
(* One daemon with a peer, a stranger, and addresses on the network and the *)
(* tailnet; the peer is at all of them at first, or only on the tailnet.    *)
EXTENDS Peers

CONSTANTS p, l, t

MCHomes == {[x \in Addr |-> p], [x \in Addr |-> IF x = t THEN p ELSE Stranger]}
(* reachable_addresses: the primary interface and the tailnet, or nothing.  *)
MCRecords == {<<l, t>>, <<>>}

============================================================================
