---------------------------- MODULE OpConversion ----------------------------
(***************************************************************************)
(* The operator and datatype conversions of                                *)
(* src/library/src/reverse_offload/transport.cpp and the calls that use    *)
(* them: get_mpi_op (used by amoFOP), and the static convertOp and         *)
(* convertType (used by reduction, team_reduction, broadcast and           *)
(* team_broadcast).  A packet's op and datatype fields are ints cast to    *)
(* ROC_SHMEM_OP and ro_net_types, so a code outside the switch can arrive; *)
(* Unmapped stands for every such code.                                    *)
(*                                                                         *)
(* get_mpi_op has no return on its default path: the caller receives      *)
(* whatever the return register holds.  That undefined result is a choice  *)
(* over every MPI_Op value and an invalid handle (Invalid), which makes    *)
(* the MPI call fail and NET_CHECK exit.                                   *)
(***************************************************************************)
EXTENDS Functions

CONSTANTS
  Packets,   \* the packets dispatched: [kind, op, type] records
  Unmapped,  \* model value: an op or datatype code no case names
  Invalid    \* model value: a return register that is no MPI_Op handle

(* The ROC_SHMEM_OP -> MPI_Op cases of get_mpi_op and convertOp.           *)
OpTable == [SUM |-> "MPI_SUM", MAX |-> "MPI_MAX", MIN |-> "MPI_MIN",
            PROD |-> "MPI_PROD", AND |-> "MPI_BAND", OR |-> "MPI_BOR",
            XOR |-> "MPI_BXOR"]

(* The ro_net_types -> MPI_Datatype cases of convertType.                  *)
TypeTable == [FLOAT |-> "MPI_FLOAT", DOUBLE |-> "MPI_DOUBLE",
              INT |-> "MPI_INT", LONG |-> "MPI_LONG",
              LONG_LONG |-> "MPI_LONG_LONG", SHORT |-> "MPI_SHORT",
              LONG_DOUBLE |-> "MPI_LONG_DOUBLE"]

OpCodes   == DOMAIN OpTable
TypeCodes == DOMAIN TypeTable
AmoKinds  == {"AMO_FOP"}
RedKinds  == {"TO_ALL", "TEAM_TO_ALL"}
BcastKinds == {"BROADCAST", "TEAM_BROADCAST"}

PacketSet == [kind : AmoKinds \cup RedKinds \cup BcastKinds,
              op : OpCodes \cup {Unmapped}, type : TypeCodes \cup {Unmapped}]

ASSUME Packets \subseteq PacketSet

Exit == "exit"   \* the process ended in exit(-1) or an MPI abort

VARIABLES
  pkt,      \* the packet submitRequestsToMPI dispatches
  stage,    \* "pending", "issued", or Exit
  call      \* the MPI operator and datatype of the call issued

vars == <<pkt, stage, call>>

NoCall == [op |-> "none", type |-> "none"]

-----------------------------------------------------------------------------
(* get_mpi_op: the set of values its caller can receive.                   *)
GetMpiOp(op) ==
  IF op \in OpCodes THEN {OpTable[op]} ELSE Range(OpTable) \cup {Invalid}

(* convertOp: the mapped operator, or exit(-1) on the default path.        *)
ConvertOp(op) == IF op \in OpCodes THEN OpTable[op] ELSE Exit

(* Faulty variant: convertType falls back to MPI_INT on an unknown code.   *)
ConvertTypeDefaultInt(type) ==
  IF type \in TypeCodes THEN TypeTable[type] ELSE "MPI_INT"

(* convertType: the mapped datatype, or exit(-1) on the default path.      *)
ConvertType(type) == IF type \in TypeCodes THEN TypeTable[type] ELSE Exit

Init ==
  /\ pkt \in Packets
  /\ stage = "pending"
  /\ call = NoCall

(* amoFOP: MPI_Fetch_and_op on MPI_INT64_T with get_mpi_op(op); an invalid *)
(* operator handle fails the call and NET_CHECK exits.                     *)
AmoFOP ==
  /\ stage = "pending"
  /\ pkt.kind \in AmoKinds
  /\ \E m \in GetMpiOp(pkt.op) :
       IF m = Invalid
         THEN stage' = Exit /\ call' = call
         ELSE stage' = "issued" /\ call' = [op |-> m, type |-> "MPI_INT64_T"]
  /\ UNCHANGED pkt

(* reduction and team_reduction: convertOp, then convertType, then the     *)
(* MPI_Iallreduce.                                                         *)
Reduction ==
  /\ stage = "pending"
  /\ pkt.kind \in RedKinds
  /\ IF ConvertOp(pkt.op) = Exit \/ ConvertType(pkt.type) = Exit
       THEN stage' = Exit /\ call' = call
       ELSE /\ stage' = "issued"
            /\ call' = [op |-> ConvertOp(pkt.op), type |-> ConvertType(pkt.type)]
  /\ UNCHANGED pkt

(* broadcast and team_broadcast: convertType, then MPI_Ibcast; the op     *)
(* field is not read.                                                      *)
Broadcast ==
  /\ stage = "pending"
  /\ pkt.kind \in BcastKinds
  /\ IF ConvertType(pkt.type) = Exit
       THEN stage' = Exit /\ call' = call
       ELSE stage' = "issued" /\ call' = [op |-> "none",
                                          type |-> ConvertType(pkt.type)]
  /\ UNCHANGED pkt

(* The progress loop goes on to the next packet unless the process ended. *)
NextPacket ==
  /\ stage = "issued"
  /\ pkt' \in Packets
  /\ stage' = "pending"
  /\ call' = NoCall

Next == AmoFOP \/ Reduction \/ Broadcast \/ NextPacket

Spec == Init /\ [][Next]_vars

-----------------------------------------------------------------------------
(* Spec section 7: an operator or datatype code the conversion does not    *)
(* map is a fatal configuration error.  So whenever a dispatch issues an   *)
(* MPI call, every code field that call reads was a mapped one: the op of  *)
(* an atomic or a reduction, the datatype of a reduction or broadcast.     *)
UnmappedIsFatal ==
  stage = "issued" =>
    /\ pkt.kind \in AmoKinds \cup RedKinds => pkt.op \in OpCodes
    /\ pkt.kind \in RedKinds \cup BcastKinds => pkt.type \in TypeCodes
=============================================================================
