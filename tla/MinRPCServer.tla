---------------------------- MODULE MinRPCServer ----------------------------
(***************************************************************************)
(* MinRPCServer (src/runtime/minrpc/minrpc_server.h): the packet loop      *)
(* ProcessOnePacket and its handlers, against a peer that may send any    *)
(* packet and a transport whose PosixRead may return part of a field, 0   *)
(* (end of stream) or -1, and whose PosixWrite may fail.                   *)
(*                                                                         *)
(* A step ends where the server blocks on the next ReadRawBytes: it       *)
(* completes one read and runs the handler up to the following read,      *)
(* including the runtime calls (their results are chosen with \E), the    *)
(* arena allocations and the reply.  io_->Exit ends the process.          *)
(***************************************************************************)
EXTENDS RPCReference, PageArena

CONSTANTS
  MaxPackets,      \* bound on the length prefixes read
  CodeSpace,       \* RPCCode values the peer may send
  ArgSpace,        \* packed sequences (their type codes) the peer may send
  CallArgSpace,    \* packed sequences sent as kCallFunc arguments
  TypeCodeSpace,   \* int64 values sent as the type code of kFreeHandle
  RetCodeSpace,    \* type codes a called function may return
  InitLenSpace,    \* lengths of the kInitServer protocol string
  NDimSpace,       \* ndim of a copy descriptor
  NumBytesSpace,   \* num_bytes of a copy request, its low 32 bits (below 2^31)
  NumBytesHighSpace, \* num_bytes (a copy) or len (init) \div 2^32
  DataSizeDelta,   \* GetDataSize of the descriptor minus its num_bytes
  DevSpace         \* device types of a copy descriptor

VARIABLES
  pc,          \* where the server is: "Start", a read location, or the end
  allow,       \* allow_clean_shutdown_
  midField,    \* a PosixRead returned part of the field being read
  pktBytes,    \* bytes of an unfinished packet have been consumed
  npkts,       \* length prefixes read so far
  cur,         \* the request being read, with the runtime's results
  arena,       \* arena_ (PageArena record)
  out,         \* reply packets written to the peer, in order
  answered,    \* the requests those replies answer
  exitCode,    \* the status passed to io_->Exit, or "none"
  closed,      \* io_->Close() was called
  overrun      \* an arena block was read or written past its allocation

vars == <<pc, allow, midField, pktBytes, npkts, cur, arena, out, answered, exitCode, closed, overrun>>

ReadLocs == {"ReadLen", "ReadCode", "ReadCallArgs", "ReadInitLen", "ReadInitVer",
             "ReadInitArgs", "ReadDesc", "ReadShape", "ReadData", "ReadSysArgs"}
Terminal == {"Exited", "Stopped"}
SizeofDLTensor == 48

NoRequest == [code |-> NoVal, args |-> NoVal, tval |-> NoVal, rv |-> NoVal, ok |-> NoVal,
              dev |-> NoVal, nbytes |-> NoVal, nbHigh |-> NoVal, dsDelta |-> NoVal,
              copyOk |-> NoVal, syncOk |-> NoVal]

\* ReturnVoid and ReturnHandle.
VoidReply == ReplyPacket(RPCCode.kReturn, <<"kTVMNullptr">>, NoVal, NoVal)
HandleReply == ReplyPacket(RPCCode.kReturn, <<"kTVMOpaqueHandle">>, NoVal, NoVal)

\* The outcome of a handler: a reply packet, or a status for io_->Exit.
Reply(rep) == [kind |-> "reply", reply |-> rep]
Fail(status) == [kind |-> "fatal", status |-> status]
ReturnOrError(ecode_ok, rep) == IF ecode_ok THEN Reply(rep) ELSE Reply(ExceptionReply(LastError))

-----------------------------------------------------------------------------
(* Pure parts of the handlers.                                             *)

\* HandleNormalCallFunc after TVMFuncCall: the re-tagged return value.
HandleNormalCallFunc(ok, rv) ==
  IF ~ok THEN Reply(ExceptionReply(LastError))
  ELSE LET tags == CASE rv = "kTVMNDArrayHandle" -> <<"kDLInt", "kTVMDLTensorHandle", "kTVMOpaqueHandle">>
                     [] rv = "kTVMBytes" -> <<"kDLInt", "kTVMBytes">>
                     [] rv \in {"kTVMPackedFuncHandle", "kTVMModuleHandle"} -> <<"kDLInt", "kTVMOpaqueHandle">>
                     [] OTHER -> <<"kDLInt", rv>>
       IN Reply(ReplyPacket(RPCCode.kReturn, tags, NoVal, rv))

\* The MINRPC_CHECKs of each Syscall* handler: arity, then each type code.
SyscallChecks(c) ==
  CASE c = RPCCode.kFreeHandle -> <<{"kTVMOpaqueHandle"}, {"kDLInt"}>>
    [] c = RPCCode.kGetGlobalFunc -> <<{"kTVMStr"}>>
    [] c = RPCCode.kCopyAmongRemote -> <<{"kTVMDLTensorHandle"}, {"kTVMDLTensorHandle"}, {"kTVMOpaqueHandle"}>>
    [] c = RPCCode.kDevAllocData -> <<{"kDLDevice"}, {"kDLInt"}, {"kDLInt"}, {"kTVMDataType"}>>
    [] c = RPCCode.kDevAllocDataWithScope -> <<{"kTVMDLTensorHandle"}, {"kTVMNullptr", "kTVMStr"}>>
    [] c = RPCCode.kDevCreateStream -> <<{"kDLDevice"}>>
    [] OTHER -> <<{"kDLDevice"}, {"kTVMOpaqueHandle"}>>
ChecksPass(c, args) ==
  Len(args) = Len(SyscallChecks(c)) /\ \A i \in 1..Len(args) : args[i] \in SyscallChecks(c)[i]

\* SyscallFreeHandle: a type code other than array, function or module
\* fails the last MINRPC_CHECK.
FreeHandleTypeOk(tval) == tval \in {"kTVMNDArrayHandle", "kTVMPackedFuncHandle", "kTVMModuleHandle"}

\* HandleSyscallFunc after RecvPackedSeq: the switch and the handlers.
HandleSyscallFunc(c, args, tval, ok) ==
  CASE c = RPCCode.kDevSetDevice -> Reply(ExceptionReply("SetDevice not supported"))
    [] c = RPCCode.kDevGetAttr -> Reply(ExceptionReply("GetAttr not supported"))
    [] c \in {RPCCode.kFreeHandle, RPCCode.kDevFreeData, RPCCode.kDevFreeStream,
              RPCCode.kDevStreamSync, RPCCode.kDevSetStream, RPCCode.kCopyAmongRemote} ->
         IF ChecksPass(c, args) /\ (c = RPCCode.kFreeHandle => FreeHandleTypeOk(tval))
         THEN ReturnOrError(ok, VoidReply) ELSE Fail("kCheckError")
    [] c \in {RPCCode.kGetGlobalFunc, RPCCode.kDevAllocData,
              RPCCode.kDevAllocDataWithScope, RPCCode.kDevCreateStream} ->
         IF ChecksPass(c, args) THEN ReturnOrError(ok, HandleReply) ELSE Fail("kCheckError")
    [] OTHER -> Reply(ExceptionReply("Syscall not recognized"))

\* Mutant: the TVMSynchronize result is not looked at.
DeviceCopyOkIgnoringSync(copyOk, syncOk) == copyOk = TRUE

\* The staged device copy: TVMDeviceCopyDataFromTo, then TVMSynchronize
\* only when the copy returned 0.
DeviceCopyOk(copyOk, syncOk) == copyOk = TRUE /\ syncOk = TRUE

-----------------------------------------------------------------------------
(* Effects shared by the steps.                                            *)

\* io_->Exit(status): the process ends.
Exit(status) == exitCode' = status /\ pc' = "Exited"

\* MessageStart, Write of every field, MessageDone: the reply reaches the
\* peer and the packet is finished, or a PosixWrite returns 0 or -1 and
\* WriteRawBytes calls ThrowError(kWriteError).
Send(rep) ==
  \/ /\ out' = Append(out, rep)
     /\ answered' = Append(answered, cur')
     /\ pc' = "Start"
     /\ pktBytes' = FALSE
     /\ UNCHANGED exitCode
  \/ /\ Exit("kWriteError")
     /\ UNCHANGED <<out, answered, pktBytes>>

Finish(res) ==
  IF res.kind = "reply" THEN Send(res.reply)
  ELSE Exit(res.status) /\ UNCHANGED <<out, answered, pktBytes>>

\* Shutdown(): arena_.FreeAll() then io_->Close().  FreeAll hands each page
\* to TVMDeviceFreeDataSpace, whose failure exits with kAllocError.
ShutdownThen(continue) ==
  \/ /\ arena' = FreeAll(arena)
     /\ closed' = TRUE
     /\ continue
  \/ /\ arena.pages # <<>>
     /\ arena' = FreeAll(arena)
     /\ Exit("kAllocError")
     /\ UNCHANGED closed

-----------------------------------------------------------------------------
(* ProcessOnePacket.                                                       *)

\* arena_.RecycleAll(); allow_clean_shutdown_ = true; then block on the
\* length prefix.
BeginPacket ==
  /\ pc = "Start"
  /\ arena' = RecycleAll(arena)
  /\ allow' = TRUE
  /\ pc' = "ReadLen"
  /\ UNCHANGED <<midField, pktBytes, npkts, cur, out, answered, exitCode, closed>>
  /\ UNCHANGED overrun

\* ReadRawBytes: PosixRead returns fewer bytes than are still missing and
\* the loop reads again.
ReadPartial ==
  /\ pc \in ReadLocs
  /\ ~midField
  /\ midField' = TRUE
  /\ pktBytes' = TRUE
  /\ UNCHANGED <<pc, allow, npkts, cur, arena, out, answered, exitCode, closed>>
  /\ UNCHANGED overrun

\* ReadRawBytes: PosixRead returns 0.  With allow_clean_shutdown_ the
\* server shuts down and exits with status 0, else it is a read error.
ReadEndOfStream ==
  /\ pc \in ReadLocs
  /\ IF allow
     THEN ShutdownThen(Exit("kSuccess"))
     ELSE Exit("kReadError") /\ UNCHANGED <<arena, closed>>
  /\ UNCHANGED <<allow, midField, pktBytes, npkts, cur, out, answered>>
  /\ UNCHANGED overrun

\* ReadRawBytes: PosixRead returns -1.
ReadError ==
  /\ pc \in ReadLocs
  /\ Exit("kReadError")
  /\ UNCHANGED <<allow, midField, pktBytes, npkts, cur, arena, out, answered, closed>>
  /\ UNCHANGED overrun

\* packet_len == 0: nothing is replied and the loop goes on.
RecvIdle ==
  /\ pc = "ReadLen"
  /\ npkts < MaxPackets
  /\ npkts' = npkts + 1
  /\ pc' = "Start"
  /\ midField' = FALSE
  /\ pktBytes' = FALSE
  /\ UNCHANGED <<allow, cur, arena, out, answered, exitCode, closed>>
  /\ UNCHANGED overrun

\* packet_len > 0: the code is read next.
RecvLength ==
  /\ pc = "ReadLen"
  /\ npkts < MaxPackets
  /\ npkts' = npkts + 1
  /\ pc' = "ReadCode"
  /\ midField' = FALSE
  /\ pktBytes' = TRUE
  /\ UNCHANGED <<allow, cur, arena, out, answered, exitCode, closed>>
  /\ UNCHANGED overrun

\* case RPCCode::kShutdown: Shutdown(); return false.
ShutdownRequest == ShutdownThen(pc' = "Stopped" /\ UNCHANGED exitCode)

\* Read(&code); allow_clean_shutdown_ = false; then the dispatch.  A copy
\* handler first takes its DLTensor from the arena; kShutdown shuts down
\* and makes ProcessOnePacket return false.
Dispatch(c) ==
  \/ /\ c >= RPCCode.kSyscallCodeStart
     /\ pc' = "ReadSysArgs"
     /\ UNCHANGED <<arena, exitCode, closed>>
  \/ /\ c = RPCCode.kCallFunc
     /\ pc' = "ReadCallArgs"
     /\ UNCHANGED <<arena, exitCode, closed>>
  \/ /\ c = RPCCode.kInitServer
     /\ pc' = "ReadInitLen"
     /\ UNCHANGED <<arena, exitCode, closed>>
  \/ /\ c \in {RPCCode.kCopyFromRemote, RPCCode.kCopyToRemote}
     /\ \E a \in Allocate(arena, SizeofDLTensor) :
          IF a.ok THEN arena' = a.arena /\ pc' = "ReadDesc" /\ UNCHANGED exitCode
          ELSE Exit("kAllocError") /\ UNCHANGED arena
     /\ UNCHANGED closed
  \/ /\ c = RPCCode.kShutdown
     /\ ShutdownRequest
  \/ /\ c < RPCCode.kSyscallCodeStart
     /\ c \notin {RPCCode.kCallFunc, RPCCode.kInitServer, RPCCode.kCopyFromRemote,
                  RPCCode.kCopyToRemote, RPCCode.kShutdown}
     /\ Exit("kUnknownRPCCode")
     /\ UNCHANGED <<arena, closed>>

RecvCode ==
  /\ pc = "ReadCode"
  /\ \E c \in CodeSpace :
       /\ cur' = [NoRequest EXCEPT !.code = c]
       /\ Dispatch(c)
  /\ allow' = FALSE
  /\ midField' = FALSE
  /\ UNCHANGED <<pktBytes, npkts, out, answered>>
  /\ UNCHANGED overrun

-----------------------------------------------------------------------------
(* The handlers, from the read that completes their input.                 *)

\* HandleNormalCallFunc: Read(&call_handle), RecvPackedSeq, TVMFuncCall,
\* then the reply (a kTVMBytes result is freed after it is written).
RecvCallArgs ==
  /\ pc = "ReadCallArgs"
  /\ \E args \in CallArgSpace : \E pa \in Allocate(arena, PackedSeqBytes(args)) :
       IF ~pa.ok
       THEN Exit("kAllocError") /\ UNCHANGED <<cur, arena, out, answered, pktBytes>>
       ELSE \E ok \in BOOLEAN :
              \E rv \in IF ok THEN RetCodeSpace ELSE {NoVal} :
                /\ cur' = [cur EXCEPT !.ok = ok, !.rv = rv]
                /\ arena' = pa.arena
                /\ Finish(HandleNormalCallFunc(ok, rv))
  /\ midField' = FALSE
  /\ UNCHANGED <<allow, npkts, closed>>
  /\ UNCHANGED overrun

\* HandleSyscallFunc: RecvPackedSeq, then the syscall's checks, runtime
\* call and reply.
Handled == {RPCCode.kFreeHandle, RPCCode.kDevFreeData, RPCCode.kDevFreeStream,
            RPCCode.kDevStreamSync, RPCCode.kDevSetStream, RPCCode.kCopyAmongRemote,
            RPCCode.kGetGlobalFunc, RPCCode.kDevAllocData,
            RPCCode.kDevAllocDataWithScope, RPCCode.kDevCreateStream}
TValSpace(c, args) ==
  IF c = RPCCode.kFreeHandle /\ ChecksPass(c, args) THEN TypeCodeSpace ELSE {NoVal}
OkSpace(c, args, tval) ==
  IF c \in Handled /\ ChecksPass(c, args) /\ (c = RPCCode.kFreeHandle => FreeHandleTypeOk(tval))
  THEN BOOLEAN ELSE {NoVal}

RecvSyscallArgs ==
  /\ pc = "ReadSysArgs"
  /\ \E args \in ArgSpace : \E pa \in Allocate(arena, PackedSeqBytes(args)) :
       IF ~pa.ok
       THEN Exit("kAllocError") /\ UNCHANGED <<cur, arena, out, answered, pktBytes>>
       ELSE \E tval \in TValSpace(cur.code, args) :
              \E ok \in OkSpace(cur.code, args, tval) :
                /\ cur' = [cur EXCEPT !.args = args, !.tval = tval, !.ok = ok]
                /\ arena' = pa.arena
                /\ Finish(HandleSyscallFunc(cur.code, args, tval, ok))
  /\ midField' = FALSE
  /\ UNCHANGED <<allow, npkts, closed>>
  /\ UNCHANGED overrun

\* ArenaAlloc(int count) keeps the low 32 bits of num_bytes (or of len + 1),
\* so the block holds the low part only; an access of the full count plus
\* extra bytes runs past the block when the count has high bits or extra > 0.
PastStaging(r, extra) == r.nbHigh > 0 \/ extra > 0

\* HandleInitServer: Read(&len); ArenaAlloc<char>(len + 1), whose int
\* count keeps the low 32 bits of the uint64 len + 1; then the version
\* string, which is not read at all when len == 0.
RecvInitLen ==
  /\ pc = "ReadInitLen"
  /\ \E len \in InitLenSpace, hi \in NumBytesHighSpace : \E a \in Allocate(arena, len + 1) :
       IF a.ok
       THEN /\ arena' = a.arena
            /\ cur' = [cur EXCEPT !.nbHigh = hi]
            /\ pc' = IF hi > 0 \/ len > 0 THEN "ReadInitVer" ELSE "ReadInitArgs"
            /\ UNCHANGED exitCode
       ELSE Exit("kAllocError") /\ UNCHANGED <<arena, cur>>
  /\ midField' = FALSE
  /\ UNCHANGED <<allow, pktBytes, npkts, out, answered, closed>>
  /\ UNCHANGED overrun

\* ReadArray(proto_ver, len): all len bytes go into the block of the low
\* 32 bits of len + 1.
RecvInitVersion ==
  /\ pc = "ReadInitVer"
  /\ pc' = "ReadInitArgs"
  /\ overrun' = (overrun \/ PastStaging(cur, 0))
  /\ midField' = FALSE
  /\ UNCHANGED <<allow, pktBytes, npkts, cur, arena, out, answered, exitCode, closed>>

\* RecvPackedSeq; MINRPC_CHECK(num_args == 0); ReturnVoid.
RecvInitArgs ==
  /\ pc = "ReadInitArgs"
  /\ \E args \in ArgSpace : \E pa \in Allocate(arena, PackedSeqBytes(args)) :
       /\ cur' = [cur EXCEPT !.args = args]
       /\ IF ~pa.ok
          THEN Exit("kAllocError") /\ UNCHANGED <<arena, out, answered, pktBytes>>
          ELSE /\ arena' = pa.arena
               /\ Finish(IF args = <<>> THEN Reply(VoidReply) ELSE Fail("kCheckError"))
  /\ midField' = FALSE
  /\ UNCHANGED <<allow, npkts, closed>>
  /\ UNCHANGED overrun

CopyOkSpace(dev) == IF dev = "kDLCPU" THEN {NoVal} ELSE BOOLEAN
SyncSpace(copyOk) == IF copyOk = TRUE THEN BOOLEAN ELSE {NoVal}
\* Mutant: the ack carries the request's code instead of kCopyAck.
CopyAckReplyWrongCode(n) == ReplyPacket(RPCCode.kCopyFromRemote, <<>>, n, NoVal)

CopyAckReply(n) == ReplyPacket(RPCCode.kCopyAck, <<>>, n, NoVal)

\* num_bytes > 0: its low or its high 32 bits are not all zero.
NumBytesPositive(r) == r.nbHigh > 0 \/ r.nbytes > 0


\* ArenaAlloc<int64_t>(ndim) with ndim < 0: the size_t byte count wraps and
\* the block "fits"; ReadArray(shape, ndim) then reads 2^64 - 8|ndim| bytes
\* into it, a read that only a transport failure ends.
ShapeOverrun(sh) ==
  /\ arena' = sh.arena
  /\ overrun' = TRUE
  /\ pc' = "ReadShape"
  /\ UNCHANGED <<out, answered, pktBytes, exitCode>>

\* The descriptor reads of both copy handlers: device, ndim (its shape
\* allocated before it is read), num_bytes, and the size the dtype and
\* shape give the array.
CopyRequest(dev, nb, hi, dd, copyOk, syncOk) ==
  [cur EXCEPT !.dev = dev, !.nbytes = nb, !.nbHigh = hi, !.dsDelta = dd,
              !.copyOk = copyOk, !.syncOk = syncOk]

\* HandleCopyFromRemote from the descriptor reads (data handle, device,
\* ndim, dtype, shape in an ArenaAlloc<int64_t>(ndim), byte_offset,
\* num_bytes): a host array is streamed from base + byte_offset; any other
\* device is staged in an ArenaAlloc<uint8_t>(num_bytes) that
\* TVMDeviceCopyDataFromTo fills with GetDataSize(arr) bytes, synchronised,
\* and WriteArray(data_ptr, num_bytes) sends; a copy or sync error becomes
\* an exception reply.
RecvCopyFromDescriptor ==
  /\ pc = "ReadDesc"
  /\ cur.code = RPCCode.kCopyFromRemote
  /\ \E dev \in DevSpace, ndim \in NDimSpace, nb \in NumBytesSpace,
        hi \in NumBytesHighSpace, dd \in DataSizeDelta :
     \E sh \in Allocate(arena, 8 * ndim) :
       \E copyOk \in CopyOkSpace(dev) : \E syncOk \in SyncSpace(copyOk) :
         LET r == CopyRequest(dev, nb, hi, dd, copyOk, syncOk) IN
         /\ cur' = r
         /\ CASE ~sh.ok ->
                   Exit("kAllocError") /\ UNCHANGED <<arena, out, answered, pktBytes, overrun>>
              [] ndim < 0 ->
                   ShapeOverrun(sh)
              [] dev = "kDLCPU" ->
                   arena' = sh.arena /\ Send(CopyAckReply(nb)) /\ UNCHANGED overrun
              [] OTHER ->
                   \E st \in Allocate(sh.arena, nb) :
                     IF ~st.ok
                     THEN Exit("kAllocError") /\ UNCHANGED <<arena, out, answered, pktBytes, overrun>>
                     ELSE /\ arena' = st.arena
                          /\ overrun' = \/ overrun
                                        \/ copyOk = TRUE /\ PastStaging(r, dd)
                                        \/ DeviceCopyOk(copyOk, syncOk) /\ PastStaging(r, 0)
                          /\ Send(IF DeviceCopyOk(copyOk, syncOk) THEN CopyAckReply(nb)
                                  ELSE ExceptionReply(LastError))
  /\ midField' = FALSE
  /\ UNCHANGED <<allow, npkts, closed>>

\* HandleCopyToRemote from the same descriptor reads: the payload is then
\* read straight to base + byte_offset for a host array, or into an
\* ArenaAlloc<uint8_t>(num_bytes) staging buffer; ReadArray reads nothing
\* when num_bytes == 0, and the copy of GetDataSize(arr) bytes out of the
\* staging buffer and the sync follow at once.
RecvCopyToDescriptor ==
  /\ pc = "ReadDesc"
  /\ cur.code = RPCCode.kCopyToRemote
  /\ \E dev \in DevSpace, ndim \in NDimSpace, nb \in NumBytesSpace,
        hi \in NumBytesHighSpace, dd \in DataSizeDelta :
     \E sh \in Allocate(arena, 8 * ndim) :
       \E copyOk \in IF hi > 0 \/ nb > 0 THEN {NoVal} ELSE CopyOkSpace(dev) :
       \E syncOk \in SyncSpace(copyOk) :
         LET r == CopyRequest(dev, nb, hi, dd, copyOk, syncOk) IN
         /\ cur' = r
         /\ CASE ~sh.ok ->
                   Exit("kAllocError") /\ UNCHANGED <<arena, out, answered, pktBytes, overrun>>
              [] ndim < 0 ->
                   ShapeOverrun(sh)
              [] dev = "kDLCPU" /\ NumBytesPositive(r) ->
                   /\ arena' = sh.arena /\ pc' = "ReadData"
                   /\ UNCHANGED <<out, answered, pktBytes, exitCode, overrun>>
              [] dev = "kDLCPU" ->
                   arena' = sh.arena /\ Send(VoidReply) /\ UNCHANGED overrun
              [] OTHER ->
                   \E st \in Allocate(sh.arena, nb) :
                     CASE ~st.ok ->
                            Exit("kAllocError") /\ UNCHANGED <<arena, out, answered, pktBytes, overrun>>
                       [] NumBytesPositive(r) ->
                            /\ arena' = st.arena /\ pc' = "ReadData"
                            /\ UNCHANGED <<out, answered, pktBytes, exitCode, overrun>>
                       [] OTHER ->
                            /\ arena' = st.arena
                            /\ overrun' = (overrun \/ (copyOk = TRUE /\ PastStaging(r, dd)))
                            /\ Finish(ReturnOrError(DeviceCopyOk(copyOk, syncOk), VoidReply))
  /\ midField' = FALSE
  /\ UNCHANGED <<allow, npkts, closed>>

\* HandleCopyToRemote after ReadArray of the payload: for a staged copy,
\* ReadArray wrote num_bytes into the staging buffer, and a copy that
\* returned 0 read the descriptor's size out of it.
RecvCopyToData ==
  /\ pc = "ReadData"
  /\ \E copyOk \in CopyOkSpace(cur.dev) : \E syncOk \in SyncSpace(copyOk) :
       /\ cur' = [cur EXCEPT !.copyOk = copyOk, !.syncOk = syncOk]
       /\ Finish(IF cur.dev = "kDLCPU" THEN Reply(VoidReply)
                 ELSE ReturnOrError(DeviceCopyOk(copyOk, syncOk), VoidReply))
       /\ overrun' = \/ overrun
                     \/ cur.dev # "kDLCPU" /\ PastStaging(cur, 0)
                     \/ cur.dev # "kDLCPU" /\ copyOk = TRUE /\ PastStaging(cur, cur.dsDelta)
  /\ midField' = FALSE
  /\ UNCHANGED <<allow, npkts, arena, closed>>

\* The process has exited, or ProcessOnePacket returned false.
Ended ==
  /\ pc \in Terminal
  /\ UNCHANGED vars

-----------------------------------------------------------------------------
Init ==
  /\ pc = "Start"
  /\ allow = TRUE
  /\ midField = FALSE
  /\ pktBytes = FALSE
  /\ npkts = 0
  /\ cur = NoRequest
  /\ arena = EmptyArena
  /\ out = <<>>
  /\ answered = <<>>
  /\ exitCode = "none"
  /\ closed = FALSE
  /\ overrun = FALSE

Next ==
  \/ BeginPacket \/ ReadPartial \/ ReadEndOfStream \/ ReadError
  \/ RecvIdle \/ RecvLength \/ RecvCode
  \/ RecvCallArgs \/ RecvSyscallArgs
  \/ RecvInitLen \/ RecvInitVersion \/ RecvInitArgs
  \/ RecvCopyFromDescriptor \/ RecvCopyToDescriptor \/ RecvCopyToData
  \/ Ended

Spec == Init /\ [][Next]_vars

-----------------------------------------------------------------------------
(* Properties.                                                             *)

Request == [code: CodeSpace \cup {NoVal}, args: ArgSpace \cup CallArgSpace \cup {NoVal},
            tval: TypeCodeSpace \cup {NoVal}, rv: RetCodeSpace \cup {NoVal},
            ok: BOOLEAN \cup {NoVal}, dev: DevSpace \cup {NoVal},
            nbytes: NumBytesSpace \cup {NoVal}, nbHigh: NumBytesHighSpace \cup {NoVal},
            dsDelta: DataSizeDelta \cup {NoVal}, copyOk: BOOLEAN \cup {NoVal},
            syncOk: BOOLEAN \cup {NoVal}]

TypeOK ==
  /\ pc \in {"Start"} \cup ReadLocs \cup Terminal
  /\ allow \in BOOLEAN /\ midField \in BOOLEAN /\ pktBytes \in BOOLEAN
  /\ npkts \in 0..MaxPackets
  /\ cur \in Request
  /\ arena \in [live: BOOLEAN, pages: Seq(Nat), cur: Nat, off: Nat]
  /\ \A i \in DOMAIN out : out[i].code \in {RPCCode.kReturn, RPCCode.kException, RPCCode.kCopyAck}
  /\ answered \in Seq(Request)
  /\ exitCode \in {"none", "kSuccess", "kCheckError", "kReadError", "kWriteError",
                   "kAllocError", "kUnknownRPCCode"}
  /\ closed \in BOOLEAN
  /\ overrun \in BOOLEAN

\* How the peer sees the session: closed after kShutdown or a status 0
\* exit, aborted after any other exit.
SessionOf ==
  CASE pc = "Stopped" -> "closed"
    [] pc = "Exited" /\ exitCode = "kSuccess" -> "closed"
    [] pc = "Exited" -> "aborted"
    [] OTHER -> "open"

RPC == INSTANCE RPCService WITH requests <- answered, replies <- out, session <- SessionOf

\* The server implements the service contract: through partial reads,
\* arena allocation, staged copies and write failures, every reply it sends
\* is the one RPCService prescribes for the request it answers, in request
\* order, none for a malformed request, and none after the session ended.
ServiceRefinement == RPC!Spec

\* No allocation crosses a page boundary: the offset in the page being
\* carved never passes its size, whatever sizes PageAllocator::allocate
\* was asked for (descriptors, shapes, staging buffers, packed sequences).
AllocationWithinPage ==
  arena.cur > 0 => arena.off <= arena.pages[arena.cur]

\* Spec Sec. 3 ("ndim >= 0", extents array length equals ndim) and 4.3 (a
\* non-host copy is staged in "a same-size arena buffer"): no handler reads
\* or writes an arena block (shape array, staging buffer, init version
\* string) past the bytes ArenaAlloc gave it, whatever descriptor, num_bytes
\* or len the peer sends.
StagingWithinBuffer == ~overrun

\* Spec Sec. 3/4.4/8: end of stream is a clean, status-0 termination only
\* between packets; within a packet it is a fatal read error.  So a status-0
\* exit never happens once bytes of an unfinished packet were consumed.
CleanExitOnlyBetweenPackets ==
  exitCode = "kSuccess" => ~pktBytes
=============================================================================
