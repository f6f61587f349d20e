----------------------------- MODULE PacketPath -----------------------------
(***************************************************************************)
(* CoreCounters with the packets themselves: what divert/parser.rs makes   *)
(* of the bytes WinDivert delivers, what the connection tables of          *)
(* process/pid_map.rs say of them, to whom process_packet (main.rs)        *)
(* credits them, and which history the pipe serves in the end.             *)
(*                                                                         *)
(* The system's sockets change hands under the tables, which are read once *)
(* per round of the main loop, and only when they are 500 ms old.          *)
(*                                                                         *)
(* The pipe server and its client touch none of this: of their steps only  *)
(* the one that lets main join the thread is kept.                         *)
(***************************************************************************)
EXTENDS CoreCounters, Sequences

CONSTANTS
  Pids,      \* process numbers
  NoPid,     \* no process, no row
  Sockets,   \* [proto, fam, local, lport, remote, rport]
  Wire,      \* what WinDivert may deliver, see Delivered
  Start,     \* who may have which socket at the start
  MayFail,   \* the tables that cannot always be read
  MaxMoves   \* times a socket changes hands (a bound)

AnyAddress == "any"   \* 0.0.0.0 or ::, what the table shows for a socket bound to no address
TCP == 6
UDP == 17

ASSUME MovesAssumption == MaxMoves \in Nat
ASSUME NoPidAssumption == NoPid \notin Pids
ASSUME SocketsAssumption == \A s \in Sockets : s.proto \in {TCP, UDP} /\ s.fam \in {4, 6}
ASSUME StartAssumption == Start \subseteq [Sockets -> Pids \cup {NoPid}]

VARIABLES
  owner,     \* the process each socket belongs to now, or NoPid
  moves,     \* times a socket changed hands
  since,     \* half seconds since the last time, counted up to 2
  index,     \* tcp_v4_index, tcp_v6_index, udp_v4_index, udp_v6_index: key -> PID
  seen,      \* owner when they were rebuilt
  failed,    \* the tables that could not be read then
  due,       \* table_cache_last_refresh is 500 ms ago
  hand,      \* the packet the capture thread has parsed
  chan,      \* the packets in the channel; queue is how many
  recorded,  \* bytes credited to each process in the aggregator
  usage,     \* bytes credited to the day in daily_usage
  served,    \* bytes of latest_history
  sent,      \* bytes of the packets the channel took, and of those lookup_pid
  lost       \* found nobody for: counted by nobody in the code

system == <<owner, moves, since>>
tables == <<index, seen, failed, due>>
books == <<recorded, usage, served, sent, lost>>
pathVars == <<system, tables, hand, chan, books>>

-----------------------------------------------------------------------------
(* Packets.  w is what WinDivert delivers: the bytes it has (size), the    *)
(* header fields the parser looks at, and the socket it is of.  stated is  *)
(* the total length of IPv4, the payload length of IPv6; ihl is in bytes.  *)
Delivered == [socket : Sockets, outbound : BOOLEAN, version : 0..15,
              size : Nat, ihl : Nat, proto : Nat, stated : Nat]

Ends(s, local, outbound) ==
  IF outbound THEN [src |-> local, sport |-> s.lport, dst |-> s.remote, dport |-> s.rport]
              ELSE [src |-> s.remote, sport |-> s.rport, dst |-> local, dport |-> s.lport]

(* The addresses on the wire: never the wildcard a socket is bound to.     *)
Here == "here"
OnWire(w) == LET s == w.socket
             IN  Ends(s, IF s.local = AnyAddress THEN Here ELSE s.local, w.outbound)

(* A header length below 20 is not refused: what is then taken for ports   *)
(* is part of the header, and here 0, the port of no socket.               *)
EndsRead(w) == IF w.version = 4 /\ w.ihl < 20
               THEN [OnWire(w) EXCEPT !.sport = 0, !.dport = 0]
               ELSE OnWire(w)

ASSUME WireAssumption == Wire \subseteq Delivered

(* What the parser does with a packet: it takes it or not, having touched  *)
(* the first `reach` bytes.  A read past the end panics.                   *)
Refused(reach) == [taken |-> FALSE, reach |-> reach]
Taken(w, reach, length) ==
  [taken |-> TRUE, reach |-> reach,
   packet |-> [ends |-> EndsRead(w), proto |-> w.proto, fam |-> w.version,
               outbound |-> w.outbound, length |-> length, of |-> w]]

parse_ipv4_NoIhlCheck(w) ==
  IF w.size < 20 THEN Refused(1)
  ELSE IF w.proto \notin {TCP, UDP} THEN Refused(20)
  ELSE IF w.size - w.ihl < 4 THEN Refused(w.ihl)
  ELSE Taken(w, w.ihl + 4, w.stated)

parse_ipv4(w) ==
  IF w.size < 20 \/ w.size < w.ihl THEN Refused(1)
  ELSE IF w.proto \notin {TCP, UDP} THEN Refused(20)
  ELSE IF w.size - w.ihl < 4 THEN Refused(w.ihl)
  ELSE Taken(w, w.ihl + 4, w.stated)

(* Extension headers are not followed: their number is no protocol.        *)
parse_ipv6(w) ==
  IF w.size < 40 THEN Refused(1)
  ELSE IF w.proto \notin {TCP, UDP} THEN Refused(7)
  ELSE IF w.size - 40 < 4 THEN Refused(40)
  ELSE Taken(w, 44, 40 + w.stated)

parse_packet(w) ==
  IF w.size = 0 THEN Refused(0)
  ELSE IF w.version = 4 THEN parse_ipv4(w)
  ELSE IF w.version = 6 THEN parse_ipv6(w)
  ELSE Refused(1)

Accepted == {w \in Wire : parse_packet(w).taken}
Overrun == {w \in Wire : parse_packet(w).reach > w.size}

-----------------------------------------------------------------------------
(* The connection tables.  A UDP row has no remote end.                    *)
Table(proto, fam) == <<proto, fam>>
Tables == {TCP, UDP} \X {4, 6}
Key(proto, fam, local, lport, remote, rport) ==
  IF proto = TCP THEN <<Table(proto, fam), local, lport, remote, rport>>
                 ELSE <<Table(proto, fam), local, lport>>
RowKey(s) == Key(s.proto, s.fam, s.local, s.lport, s.remote, s.rport)

(* One table: its size is asked for, then its rows; a table that has grown *)
(* in between is an error and no rows.                                     *)
Rows(table, fails) ==
  IF fails THEN {} ELSE {s \in Sockets : Table(s.proto, s.fam) = table /\ owner[s] # NoPid}

Keys == {RowKey(s) : s \in Sockets}

rebuild_KeepsOld ==
  \E bad \in SUBSET MayFail :
    /\ index' = [k \in Keys |->
                   LET rows == {s \in Rows(k[1], k[1] \in bad) : RowKey(s) = k}
                   IN  IF rows = {} THEN index[k] ELSE owner[CHOOSE s \in rows : TRUE]]
    /\ seen' = owner /\ failed' = bad

(* rebuild_table_indexes: each index is cleared, then filled.              *)
rebuild_table_indexes ==
  \E bad \in SUBSET MayFail :
    /\ index' = [k \in Keys |->
                   LET rows == {s \in Rows(k[1], k[1] \in bad) : RowKey(s) = k}
                   IN  IF rows = {} THEN NoPid ELSE owner[CHOOSE s \in rows : TRUE]]
    /\ seen' = owner /\ failed' = bad

maybe_refresh_tables ==
  IF due THEN rebuild_table_indexes /\ due' = FALSE ELSE UNCHANGED tables

(* The local end of an outbound packet is its source.                      *)
lookup_pid(p) ==
  LET k == IF p.outbound
           THEN Key(p.proto, p.fam, p.ends.src, p.ends.sport, p.ends.dst, p.ends.dport)
           ELSE Key(p.proto, p.fam, p.ends.dst, p.ends.dport, p.ends.src, p.ends.sport)
  IN  IF k \in Keys THEN index[k] ELSE NoPid

-----------------------------------------------------------------------------
NoPacket == <<>>

PathInit == /\ CountInit
            /\ owner \in Start
            /\ moves = 0 /\ since = 0
            /\ index = [k \in Keys |-> NoPid]
            /\ seen = [s \in Sockets |-> NoPid] /\ failed = {} /\ due = FALSE
            /\ hand = NoPacket /\ chan = <<>>
            /\ recorded = [p \in Pids |-> 0]
            /\ usage = 0 /\ served = 0 /\ sent = 0 /\ lost = 0

(* A socket is closed, opened, or closed and opened by another process.    *)
Moves == /\ moves < MaxMoves
         /\ \E s \in Sockets, p \in Pids \cup {NoPid} :
              p # owner[s] /\ owner' = [owner EXCEPT ![s] = p]
         /\ moves' = moves + 1 /\ since' = 0
         /\ UNCHANGED <<vars, counters, tables, hand, chan, books>>

(* A round of the loop takes 50 ms and what its work takes; only the drain *)
(* has no bound, and there half seconds can pass unnoticed.                *)
HalfSecond == /\ ~due \/ main = "drain"
              /\ due' = TRUE
              /\ since' = IF since < 2 THEN since + 1 ELSE since
              /\ due => since < 2
              /\ UNCHANGED <<vars, counters, owner, moves, index, seen, failed, hand, chan, books>>

-----------------------------------------------------------------------------
(* Capture thread.                                                         *)
PathParsed == /\ CountParsed
              /\ \E w \in Accepted : hand' = parse_packet(w).packet
              /\ UNCHANGED <<system, tables, chan, books>>

PathIgnored == /\ CountIgnored
               /\ Wire # Accepted
               /\ UNCHANGED pathVars

PathSend == /\ CountSend
            /\ IF queue < ChanCap
               THEN chan' = Append(chan, hand) /\ sent' = sent + hand.length
               ELSE UNCHANGED <<chan, sent>>
            /\ hand' = NoPacket
            /\ UNCHANGED <<system, tables, recorded, usage, served, lost>>

-----------------------------------------------------------------------------
(* Main thread.                                                            *)

(* PidMapper::new reads the tables, the store is loaded empty.             *)
PathBoot == /\ MainBoot
            /\ rebuild_table_indexes
            /\ due' = FALSE
            /\ UNCHANGED <<counters, system, hand, chan, books>>

PathTop_NoRefresh == /\ MainTop
                     /\ UNCHANGED <<counters, pathVars>>

PathTop == /\ MainTop
           /\ IF running THEN maybe_refresh_tables ELSE UNCHANGED tables
           /\ UNCHANGED <<counters, system, hand, chan, books>>

(* process_packet: credited to the process of its row and to the day, or   *)
(* to nobody.                                                              *)
process_packet(p) ==
  LET pid == lookup_pid(p)
  IN  IF pid = NoPid
      THEN lost' = lost + p.length /\ UNCHANGED <<recorded, usage>>
      ELSE /\ recorded' = [recorded EXCEPT ![pid] = @ + p.length]
           /\ usage' = usage + p.length
           /\ UNCHANGED lost

PathTaken == /\ CountTaken
             /\ process_packet(Head(chan))
             /\ chan' = Tail(chan)
             /\ UNCHANGED <<system, tables, hand, served, sent>>

(* latest_history.store, within the one second check.                      *)
PathTick == /\ MainTick
            /\ served' = IF second THEN usage ELSE served
            /\ UNCHANGED <<counters, system, tables, hand, chan, recorded, usage, sent, lost>>

PathStop_NotServed == /\ MainStop
                      /\ UNCHANGED <<counters, pathVars>>

(* The last latest_history.store, whether or not flush_now succeeded.      *)
PathStop == /\ MainStop
            /\ served' = usage
            /\ UNCHANGED <<counters, system, tables, hand, chan, recorded, usage, sent, lost>>

PathDrained == CountDrained /\ UNCHANGED pathVars

(* With nobody at the pipe its thread ends as soon as it sees the flag.    *)
PathIpcEnds == ~running /\ IpcCheck

PathQuiet == /\ \/ CtrlC \/ SecondPasses \/ Terminating
                \/ CapOpen \/ CapCheck \/ CapRecvFails
                \/ MainTimeout \/ MainDisconnected
                \/ MainJoinCapture \/ MainJoinIpc \/ PathIpcEnds
             /\ UNCHANGED <<counters, pathVars>>

PathNext == \/ Moves \/ HalfSecond
            \/ PathParsed \/ PathIgnored \/ PathSend
            \/ PathBoot \/ PathTop \/ PathTaken \/ PathDrained \/ PathTick \/ PathStop
            \/ PathQuiet

PathSpec == PathInit /\ [][PathNext]_<<allVars, pathVars>>

-----------------------------------------------------------------------------
(* parse_packet reads no byte past the end of any packet, whatever its     *)
(* header says: the capture thread does not panic on one, which would end  *)
(* the monitor.                                                            *)
ParserStaysInside ==
  cap = "recv" => Overrun = {}

(* A header that says the truth about the packet it is of.                 *)
Honest(w) == /\ w.version = w.socket.fam /\ w.proto = w.socket.proto
             /\ IF w.version = 4 THEN w.ihl >= 20 /\ w.stated = w.size
                                 ELSE w.stated = w.size - 40

takes == main \in {"recv", "drain"} /\ batch' > batch
first == Head(chan).of
credited(p) == recorded'[p] - recorded[p]
toOnly(p) == \A q \in Pids : credited(q) = IF q = p THEN first.size ELSE 0

(* What the tables can say of a socket: it was in one that was read, under *)
(* the address its packets carry.                                          *)
readable(s) == /\ Table(s.proto, s.fam) \notin failed
               /\ s.local # AnyAddress

(* Every packet is credited with its size to the process that had its      *)
(* socket when the tables were read, in either direction; to nobody if     *)
(* nobody had it, or the table was not read, or it shows another address.  *)
CreditedAsSeen ==
  [][takes /\ Honest(first) =>
       toOnly(IF readable(first.socket) THEN seen[first.socket] ELSE NoPid)]_allVars

(* Once nothing has changed hands for a second, the first packet of every  *)
(* batch is credited to the present owner of its socket: the tables are    *)
(* never older than half a second and a round of the loop.  Not so the     *)
(* packets that a drain finds after it.                                    *)
CreditedToOwner ==
  [][takes /\ main = "recv" /\ since = 2 /\ Honest(first) /\ readable(first.socket) =>
       toOnly(owner[first.socket])]_allVars

(* The bytes of packets, one after the other.                              *)
Bytes(packets) ==
  LET upTo[i \in 0..Len(packets)] == IF i = 0 THEN 0 ELSE upTo[i - 1] + packets[i].length
  IN  upTo[Len(packets)]

(* Every byte the channel took is, at every point of the two threads, in   *)
(* the usage of the day, or of a packet nobody was found for, or waiting.  *)
BytesConserved == usage + lost + Bytes(chan) = sent

(* Once the loop has ended, the history the pipe goes on serving has every *)
(* byte the capture thread ever sent, but for those of packets nobody was  *)
(* found for, and after a stop those still in the channel: no packet of    *)
(* the last batch, nor of the second since the last publication, is        *)
(* missing from it.                                                        *)
LastHistoryComplete ==
  main \in {"joinCapture", "joinIpc", "done"} =>
    served + lost = IF running THEN sent ELSE sent - Bytes(chan)

(* The inductive strengthening: queue counts the packets of the channel,   *)
(* the capture thread holds one only between recv and try_send, and what   *)
(* is served at the end is the usage of the day.                           *)
Parsed == {parse_packet(w).packet : w \in Accepted}
PathInv == /\ CountInv
           /\ chan \in Seq(Parsed) /\ Len(chan) = queue
           /\ IF cap = "send" THEN hand \in Parsed ELSE hand = NoPacket
           /\ usage \in Nat /\ lost \in Nat /\ sent \in Nat
           /\ BytesConserved
           /\ main \in {"joinCapture", "joinIpc", "done"} => served = usage

(* No two sockets have one row, and none has that of a socket bound to no  *)
(* address: the sockets of a system that shares no ports.                  *)
RowsDistinct ==
  \A s, t \in Sockets :
    /\ RowKey(s) = RowKey(t) => s = t
    /\ s.local = AnyAddress =>
         Key(s.proto, s.fam, Here, s.lport, s.remote, s.rport) # RowKey(t)

(* The index has, of each socket, who had it when its table was read.  An  *)
(* index that is not due, half a second after the last change of hands, is *)
(* of the present owners; and so is one that is used after a whole second. *)
Owned == [Sockets -> Pids \cup {NoPid}]
TablesInv ==
  /\ owner \in Owned /\ seen \in Owned
  /\ index \in [Keys -> Pids \cup {NoPid}]
  /\ recorded \in [Pids -> Nat]
  /\ since \in 0..2 /\ due \in BOOLEAN
  /\ \A s \in Sockets : index[RowKey(s)] = IF Table(s.proto, s.fam) \in failed THEN NoPid
                                                                             ELSE seen[s]
  /\ (~due /\ since > 0) \/ (main = "recv" /\ since = 2) => seen = owner
=============================================================================
