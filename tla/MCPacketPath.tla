---------------------------- MODULE MCPacketPath ----------------------------
(* PacketPath for one socket of each kind that differs: a TCP connection,  *)
(* a UDP socket bound to an address, one bound to none.                    *)
EXTENDS PacketPath

CONSTANTS p1, p2

MCSocket(proto, fam, local, lport) ==
  [proto |-> proto, fam |-> fam, local |-> local, lport |-> lport,
   remote |-> "there", rport |-> 443]

Conn == MCSocket(TCP, 4, "here", 1)
Bound == MCSocket(UDP, 6, "here", 1)
Wild == MCSocket(UDP, 4, AnyAddress, 2)

MCSockets == {Conn, Bound, Wild}
MCStart == {[s \in MCSockets |-> p] : p \in {p1, NoPid}}
MCMayFail == {Table(TCP, 4)}

Packet(s, out, version, size, ihl, proto, stated) ==
  [socket |-> s, outbound |-> out, version |-> version, size |-> size,
   ihl |-> ihl, proto |-> proto, stated |-> stated]

(* Honest packets in both directions, with and without options ...         *)
Honests == {Packet(Conn, TRUE, 4, 44, 20, TCP, 44), Packet(Conn, FALSE, 4, 44, 24, TCP, 44),
            Packet(Bound, TRUE, 6, 60, 0, UDP, 20), Packet(Bound, FALSE, 6, 60, 0, UDP, 20),
            Packet(Wild, TRUE, 4, 44, 20, UDP, 44)}

(* ... one that has no room for its own header ...                         *)
Short == Packet(Conn, TRUE, 4, 44, 16, TCP, 44)

(* ... and every header at the edges of the sizes the parser tests, with   *)
(* an extension header (0) or ICMP for protocol: those it refuses, and     *)
(* those it would read past their end.                                     *)
Edges == {w \in {Packet(IF v = 6 THEN Bound ELSE Conn, TRUE, v, n, h, x, 0) :
                   v \in {0, 4, 6}, h \in {0, 16, 20, 24, 60}, x \in {0, 1, TCP},
                   n \in {0, 1, 7, 19, 20, 23, 24, 27, 28, 39, 40, 43, 44, 59, 60, 63}} :
            LET read == parse_packet(w) IN ~read.taken \/ read.reach > w.size}
MCWire == Honests \cup {Short} \cup Edges
=============================================================================
