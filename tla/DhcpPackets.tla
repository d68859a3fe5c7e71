---------------------------- MODULE DhcpPackets ----------------------------
(***************************************************************************)
(* The packets of DhcpClient byte by byte: what DhcpOptions lays out for   *)
(* each packet a client sends, and for each answer it waits for.           *)
(***************************************************************************)
EXTENDS DhcpClient, DhcpOptions

CONSTANTS
    wire,           \* the bytes of each address in network order
    Identifier      \* what a client may take for the server's address

ASSUME PacketsAssumption == wire \in [Ip \cup {NoIp} -> Words] /\ Identifier \subseteq Words

(* What is read of a packet does not depend on the state. *)
OfClient ==
    [type \in {"DISCOVER", "REQUEST", "DECLINE", "RELEASE"} |-> [ip \in Ip \cup {NoIp} |->
        \A to \in Identifier : ReadsBack(ClientPacket(type, wire[ip], to))]]
OfServer == [ip \in Ip |-> \A p \in ServerPackets(wire[ip]) : ReadsBack(p)]

(* Each packet a client has under way, and each answer it may be sent while it   *)
(* asks, reads back with find_dhcp_option as it was laid out (the offsets of    *)
(* send_dhcp_options and of the client's packets), whatever packet was in the   *)
(* receiver's buffer before it.                                                 *)
PacketsReadBack ==
    /\ \A m \in toServer : OfClient[m.type][m.ip]
    /\ \A c \in Client, ip \in Ip : pc[c] = "asking" => OfServer[ip]
=============================================================================
