----------------------------- MODULE DhcpOptions -----------------------------
(***************************************************************************)
(* The options of the packets client and server build, byte by byte, and   *)
(* the search both read them with.  A 32-bit value is the sequence of its  *)
(* bytes as they lie in memory; the processor is little-endian.            *)
(***************************************************************************)
EXTENDS Integers, Sequences, FiniteSetsExt

CONSTANTS
    subnet_mask, gateway_ip, dns_server_ip, server_ip,  \* as inet_pton leaves them
    default_lease_time,                                 \* seconds
    Buffer          \* what the buffer a packet is received in may hold before

Size == 312                        \* bytes of dhcp_packet.options
Null == -1
Byte == 0..255
Words == [1..4 -> Byte]

(* htonl and ntohl. *)
Turned(word) == [i \in 1..4 |-> word[5 - i]]
Word(n) == <<n % 256, (n \div 256) % 256, (n \div 65536) % 256, n \div 16777216>>
Number(word) == word[1] + 256 * (word[2] + 256 * (word[3] + 256 * word[4]))

ASSUME OptionsAssumption ==
    /\ {subnet_mask, gateway_ip, dns_server_ip, server_ip} \subseteq Words
    /\ default_lease_time \in Nat /\ Word(default_lease_time) \in Words
    /\ Buffer \subseteq [0..(Size - 1) -> Byte]

DISCOVER == 1
OFFER == 2
REQUEST == 3
DECLINE == 4
ACK == 5
NAK == 6
RELEASE == 7

-----------------------------------------------------------------------------
(* An option is its code, the length of its value, and the value, from offset at. *)
Option(at, code, value) == [at |-> at, code |-> code, value |-> value]
Covers(o) == o.at..(o.at + 1 + Len(o.value))
ByteOf(o, i) ==
    IF i = o.at THEN o.code ELSE IF i = o.at + 1 THEN Len(o.value) ELSE o.value[i - o.at - 1]

(* memset, the options one after the other, and 255 at the end: a byte is what  *)
(* the last of them to cover it writes.                                         *)
Layout(fields, end) ==
    [i \in 0..(Size - 1) |->
        LET writers == {f \in DOMAIN fields : i \in Covers(fields[f])}
        IN IF i = end THEN 255
           ELSE IF writers = {} THEN 0 ELSE ByteOf(fields[Max(writers)], i)]

(* (n & mask) | ~mask for bytes, bit by bit. *)
Bit(n, weight) == (n \div weight) % 2
BroadcastByte(n, mask) ==
    LET bit(weight) == IF Bit(mask, weight) = 1 THEN weight * Bit(n, weight) ELSE weight
    IN bit(1) + bit(2) + bit(4) + bit(8) + bit(16) + bit(32) + bit(64) + bit(128)

(* send_dhcp_options for an OFFER or ACK of address ip.  The host and domain    *)
(* names are of 10 and 11 letters.  The addresses are in network order already  *)
(* and are turned once more.                                                    *)
broadcast_addr(ip) == [i \in 1..4 |-> BroadcastByte(Turned(ip)[i], subnet_mask[i])]
LettersAndEnd(n) ==     \* mutant: the 0 that ends the string is counted
    [i \in 1..(n + 1) |-> IF i > n THEN 0 ELSE 120]
Letters(n) == [i \in 1..n |-> 120]
AnswerFields(type, ip) ==
    << Option(0, 53, <<type>>), Option(3, 54, Turned(server_ip)),
       Option(9, 51, Turned(Word(default_lease_time))), Option(15, 1, Turned(subnet_mask)),
       Option(21, 3, Turned(gateway_ip)), Option(27, 6, Turned(dns_server_ip)),
       Option(33, 12, Letters(10)), Option(45, 15, Letters(11)),
       Option(58, 55, <<1, 3, 6, 12, 15, 28, 42, 51, 54, 119>>),
       Option(70, 28, Turned(broadcast_addr(ip))), Option(76, 42, <<192, 168, 1, 2>>) >>
send_dhcp_options(type, ip) == Layout(AnswerFields(type, ip), 82)

NakFields == << Option(0, 53, <<NAK>>), Option(3, 54, server_ip) >>
DiscoverFields == << Option(0, 53, <<DISCOVER>>), Option(3, 55, <<1, 3, 6>>) >>
RequestFields(ip, to) ==
    << Option(0, 53, <<REQUEST>>), Option(3, 50, ip), Option(9, 54, to),
       Option(15, 55, <<1, 3, 6>>) >>
DeclineFields(ip, to) ==
    << Option(0, 53, <<DECLINE>>), Option(3, 50, ip), Option(9, 54, to) >>
ReleaseFields == << Option(0, 53, <<RELEASE>>) >>

(* The packets, with where their 255 is put and how many bytes of the options  *)
(* are sent: a client's and a server's.                                         *)
Pack(fields, end, sent) == [fields |-> fields, end |-> end, sent |-> sent]
ClientPacket(type, ip, to) ==
    CASE type = "DISCOVER" -> Pack(DiscoverFields, 8, 9)
      [] type = "REQUEST" -> Pack(RequestFields(ip, to), 20, 21)
      [] type = "DECLINE" -> Pack(DeclineFields(ip, to), 15, 16)
      [] type = "RELEASE" -> Pack(ReleaseFields, 3, 4)
Answer(type, ip) == Pack(AnswerFields(type, ip), 82, Size)
ServerPackets(ip) == {Answer(OFFER, ip), Answer(ACK, ip), Pack(NakFields, 9, 10)}

(* The options as their receiver finds them.  Neither client nor server clears  *)
(* its buffer: behind a short packet there are the bytes of an earlier one.     *)
Arrived(p, before) ==
    LET options == Layout(p.fields, p.end)
    IN [i \in 0..(Size - 1) |-> IF i < p.sent THEN options[i] ELSE before[i]]

-----------------------------------------------------------------------------
(* find_dhcp_option of client and server: where the value of code begins.  The  *)
(* last length byte may be read past the array; the search ends there anyway.   *)
find_dhcp_option(options, code) ==
    LET walk[i \in 0..(Size + 256)] ==
            IF i >= Size \/ options[i] = 255 THEN Null
            ELSE IF options[i] = code THEN i + 2
            ELSE walk[i + 2 + (IF i + 1 < Size THEN options[i + 1] ELSE 0)]
    IN walk[0]

Read4(options, at) == [k \in 1..4 |-> options[at + k - 1]]
Address(options, code) ==
    LET at == find_dhcp_option(options, code)
    IN IF at = Null THEN <<>> ELSE Read4(options, at)

(* What handle_dhcp_ack of the client reads. *)
LeaseRead(options) ==
    LET at == find_dhcp_option(options, 51)
    IN IF at = Null THEN Null ELSE Number(Turned(Read4(options, at)))
InfoRead(options) ==
    [mask |-> Address(options, 1), router |-> Address(options, 3), dns |-> Address(options, 6)]

-----------------------------------------------------------------------------
(* Whatever the buffer held before, a search of packet p for any code finds the *)
(* value that was put there under it, and nothing for a code that was not: no   *)
(* option overlaps another or hides those after it, and no byte left from an    *)
(* earlier packet is taken for an option.                                       *)
ReadsBack(p) == \A before \in Buffer, code \in 0..254 :
    LET options == Arrived(p, before)
        at == find_dhcp_option(options, code)
        named == {f \in DOMAIN p.fields : p.fields[f].code = code}
        IsAt(f) == \A k \in DOMAIN p.fields[f].value : options[at + k - 1] = p.fields[f].value[k]
    IN IF named = {} THEN at = Null ELSE at # Null /\ \E f \in named : IsAt(f)
=============================================================================
