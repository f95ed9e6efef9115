------------------------------ MODULE Platform ------------------------------
(* What the cores, the DDRs and the network agree on.                       *)
EXTENDS Integers, SequencesExt, FiniteSetsExt

CONSTANTS
  Cores,         \* the nodes that hold a core
  DdrNum,        \* DDR_num, the number of DDRs data is interleaved over
  Tids,          \* transfer ids
  DRAM,          \* the destination or source "DRAM" (-1 in the code)
  PacketBytes,   \* payload of a full packet: flit_width * (packet_size - 1)
  NoPacket       \* an empty injection queue

ASSUME PlatformAssumption ==
  /\ DRAM \notin Cores
  /\ DdrNum \in Nat \ {0}
  /\ PacketBytes \in Nat \ {0}

Ddrs == 0 .. DdrNum - 1

(* A packet names the nodes it is for.  DDR d is the node <<DRAM, d>>; which *)
(* of its routers is meant, a random choice, makes no difference here.      *)
DdrNode(d) == <<DRAM, d>>
DdrNodes   == {DdrNode(d) : d \in Ddrs}

Smaller(a, b) == IF a < b THEN a ELSE b
=============================================================================
