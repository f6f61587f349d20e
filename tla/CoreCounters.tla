---------------------------- MODULE CoreCounters ----------------------------
(***************************************************************************)
(* CoreThreads with the counters of its diagnostics: what became of every  *)
(* packet WinDivert delivered.  CAPTURE_TOTAL_COUNT and CAPTURE_DROP_COUNT *)
(* belong to the capture thread, batch_count and processed_count to the    *)
(* main thread; no lock relates them.                                      *)
(***************************************************************************)
EXTENDS CoreThreads

CONSTANT MaxPackets   \* packets the network brings (a bound)

ASSUME MaxPacketsAssumption == MaxPackets \in Nat

VARIABLES
  total,     \* CAPTURE_TOTAL_COUNT
  dropped,   \* CAPTURE_DROP_COUNT
  batch,     \* batch_count
  processed, \* processed_count
  ignored    \* packets parse_packet refused: counted by nobody in the code

counters == <<total, dropped, batch, processed, ignored>>
allVars == <<vars, counters>>

CountInit == /\ Init
             /\ total = 0 /\ dropped = 0 /\ batch = 0
             /\ processed = 0 /\ ignored = 0

CountParsed == /\ CapParsed
               /\ total < MaxPackets
               /\ total' = total + 1
               /\ UNCHANGED <<dropped, batch, processed, ignored>>

CountIgnored == /\ CapIgnored
                /\ total < MaxPackets
                /\ total' = total + 1
                /\ ignored' = ignored + 1
                /\ UNCHANGED <<dropped, batch, processed>>

CountSend_Uncounted == CapSend /\ UNCHANGED counters

(* A full channel counts the packet as dropped.                            *)
CountSend == /\ CapSend
             /\ dropped' = IF queue < ChanCap THEN dropped ELSE dropped + 1
             /\ UNCHANGED <<total, batch, processed, ignored>>

(* Every packet taken from the channel is handed to process_packet.        *)
CountTaken == /\ MainFirst \/ MainDrain
              /\ batch' = batch + 1
              /\ UNCHANGED <<total, dropped, processed, ignored>>

(* processed_count grows once per batch; the next one starts at zero.      *)
CountDrained == /\ MainDrained
                /\ processed' = processed + batch
                /\ batch' = 0
                /\ UNCHANGED <<total, dropped, ignored>>

CountNothing ==
  /\ \/ CtrlC \/ SecondPasses \/ Terminating
     \/ CapOpen \/ CapCheck \/ CapRecvFails
     \/ MainBoot \/ MainTop \/ MainTimeout \/ MainDisconnected \/ MainTick
     \/ MainStop \/ MainJoinCapture \/ MainJoinIpc
     \/ Ipc \/ ClientSide
  /\ UNCHANGED counters

CountNext == \/ CountParsed \/ CountIgnored \/ CountSend
             \/ CountTaken \/ CountDrained \/ CountNothing

CountSpec == CountInit /\ [][CountNext]_allVars

-----------------------------------------------------------------------------
(* The counters are naturals.                                              *)
CountTypeOK == /\ TypeOK
               /\ total \in Nat /\ dropped \in Nat /\ batch \in Nat
               /\ processed \in Nat /\ ignored \in Nat

(* 1 while the capture thread holds a packet it has not offered yet.       *)
inHand == IF cap = "send" THEN 1 ELSE 0

(* No packet is lost or counted twice: at every point of the three threads *)
(* the captured ones are the refused, dropped, waiting and processed ones. *)
PacketConservation ==
  total = ignored + dropped + inHand + queue + batch + processed

(* Dropping needs a flood: as long as no more packets came than the        *)
(* channel holds, none was dropped.                                        *)
DropsNeedFlood == dropped > 0 => total > ChanCap

(* A capture thread that dies by itself leaves nothing behind: when the    *)
(* main thread goes to the last flush, every packet sent is in it.         *)
NothingLeftBehind ==
  ~looping /\ running => processed = total - ignored - dropped

(* The inductive strengthening: a batch is counted only while it is being  *)
(* drained.                                                                *)
CountInv == /\ CountTypeOK
            /\ PacketConservation
            /\ DropsNeedFlood
            /\ DisconnectDrainsAll
            /\ batch > 0 => main = "drain"
=============================================================================
