---------------------------- MODULE RPCReference ----------------------------
(***************************************************************************)
(* The wire vocabulary the MinRPC server shares with its peer: the RPCCode *)
(* enumeration, the RPCServerStatus exit codes and the shapes of the reply *)
(* packets.  rpc_reference.h is not under src/, so these are taken from    *)
(* the spec (Sec. 3, 4.2, 7); type codes are kept as their C names.        *)
(***************************************************************************)
EXTENDS Integers, Sequences

\* Placeholder for a request field a handler never reads (a model value).
CONSTANT NoVal

\* enum class RPCCode : int.  Codes >= kSyscallCodeStart are syscalls.
RPCCode == [kNone |-> 0, kShutdown |-> 1, kInitServer |-> 2, kCallFunc |-> 3,
            kReturn |-> 4, kException |-> 5, kCopyFromRemote |-> 6,
            kCopyToRemote |-> 7, kCopyAck |-> 8, kSyscallCodeStart |-> 9,
            kGetGlobalFunc |-> 9, kFreeHandle |-> 10, kDevSetDevice |-> 11,
            kDevGetAttr |-> 12, kDevAllocData |-> 13, kDevFreeData |-> 14,
            kDevStreamSync |-> 15, kCopyAmongRemote |-> 16,
            kDevAllocDataWithScope |-> 17, kDevCreateStream |-> 18,
            kDevFreeStream |-> 19, kDevSetStream |-> 20]

\* Exception text sent when a runtime call fails (TVMGetLastError()).
LastError == "LastError"

\* A reply packet: its code, the type codes of its packed sequence, and the
\* one integer (num) or string (str) value a property looks at.
ReplyPacket(code, tags, num, str) == [code |-> code, tags |-> tags, num |-> num, str |-> str]

\* RPCReference::ReturnException: a kException packet carrying one string.
ExceptionReply(msg) == ReplyPacket(RPCCode.kException, <<"kTVMStr">>, NoVal, msg)

\* RPCReference::RecvPackedSeq: bytes taken from the arena for the decoded
\* values and type codes, plus a DLTensor for each array argument.
PackedSeqBytes(args) ==
  Len(args) * 12 + 48 * Len(SelectSeq(args, LAMBDA t : t = "kTVMDLTensorHandle"))
=============================================================================
