------------------------------ MODULE Packets ------------------------------
(***************************************************************************)
(* The packets of last-tftp.  A packet carries the port it was sent from,  *)
(* which recv_from reports beside it.  The payload of a DATA packet is     *)
(* `len` bytes that follow the first `off` bytes of the sender's file;     *)
(* both are what the receiver can see of it only through the bytes.        *)
(***************************************************************************)
EXTENDS Integers

CONSTANT BlockMod   \* the size of the range of a block number: 65536

ASSUME PacketsAssumption == BlockMod \in Nat /\ BlockMod > 2

Blocks == 0..(BlockMod - 1)

Rrq(from, options) == [type |-> "RRQ", from |-> from, options |-> options]
Wrq(from, options) == [type |-> "WRQ", from |-> from, options |-> options]
Oack(from, options) == [type |-> "OACK", from |-> from, options |-> options]
Data(from, block, off, len) ==
    [type |-> "DATA", from |-> from, block |-> block, off |-> off, len |-> len]
Ack(from, block) == [type |-> "ACK", from |-> from, block |-> block]
Error(from) == [type |-> "ERROR", from |-> from]
=============================================================================
