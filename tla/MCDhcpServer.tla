---------------------------- MODULE MCDhcpServer ----------------------------
(* Small instances of DhcpServer for TLC. *)
EXTENDS DhcpServer, TLC

CONSTANTS a, b,    \* two clients
          b1, b2   \* two blocks of memory

BlockSymmetry == Permutations({b1, b2})

(* A full pool of three whose root is the middle address: a takes the first     *)
(* address and releases it, b asks for any address, inside the pool or out of   *)
(* it, renews some, and sends packets no handler understands.                   *)
FullPoolPackets ==
    {p \in Packet : \/ p.type = "DISCOVER" /\ (p.mac = a => Entry(a) = {})
                    \/ p.type = "RELEASE" /\ p.mac = a /\ p.ip = StartIp
                    \/ p.type \in {"REQUEST", "OTHER"} /\ p.mac = b}
FullPoolSpec == Init /\ [][NextFor(FullPoolPackets)]_vars
=============================================================================
