---------------------------- MODULE MCDhcpClient ----------------------------
(* A small instance of DhcpClient for TLC, fed with packets laid out as         *)
(* DhcpOptions says and with some of other servers.                             *)
EXTENDS DhcpPackets

CONSTANTS c1, near, far, unread   \* a client, two addresses, and nothing read

(* As inet_pton leaves them. *)
Mask == <<255, 255, 0, 0>>
Gateway == <<172, 19, 2, 1>>
Dns == <<8, 8, 4, 4>>
Server == <<172, 19, 2, 228>>

Bytes == [ip \in Ip \cup {NoIp} |-> CASE ip = near -> <<172, 19, 2, 7>>
                                       [] ip = far -> <<10, 255, 53, 1>> [] OTHER -> <<0, 0, 0, 0>>]
ServerLease == LeaseRead(send_dhcp_options(ACK, Bytes[near]))
ServerInfo == InfoRead(send_dhcp_options(ACK, Bytes[near]))
NoInfo == InfoRead(Layout(NakFields, 9))

(* Leases 0 and 1 end at once, 5 is shorter than two sleeps, 40 * 7 does not fit. *)
Leases == {0, 1, 5, 17, 40, ServerLease}
Infos == {ServerInfo, NoInfo}
Garbages == { [lease_time |-> 2, renewal_time |-> 9, rebind_time |-> 0],
              [lease_time |-> 7, renewal_time |-> 0, rebind_time |-> 6] }

Packets == {p \in Incoming : /\ p.type \in {"NAK", "DECLINE", "OTHER"} => p.ip = near
                             /\ p.type # "ACK" => p.lease = Missing
                             /\ p.lease = Missing => p.info = NoInfo}
AnySpec == ClientInit /\ [][ClientNextFor(Packets)]_clientVars /\ ClientFairness

(* A buffer never used, one an ACK was in, and one full of a type no packet has. *)
Buffers == {[i \in 0..(Size - 1) |-> 0], send_dhcp_options(ACK, Bytes[near]),
            [i \in 0..(Size - 1) |-> IF i % 3 = 0 THEN 53 ELSE 1]}
Identifiers == {Server, Gateway}
=============================================================================
