----------------------------- MODULE RPCService -----------------------------
(***************************************************************************)
(* What the MinRPC server promises its peer (spec Sec. 4.2-4.5, 5, 7), at  *)
(* the granularity of whole requests: each request is answered by exactly *)
(* the reply its code, arguments and the runtime's results call for, in   *)
(* request order; a request the spec calls malformed gets no reply; the   *)
(* session ends by a clean close or a fatal abort, after which nothing is *)
(* sent.  A request records the fields a handler reads and the results of *)
(* the runtime calls it makes (ok, rv, copyOk, syncOk).                   *)
(***************************************************************************)
EXTENDS RPCReference

VARIABLES requests,   \* the requests answered so far, in order
          replies,    \* the reply packets sent, in order
          session     \* "open", "closed" (clean) or "aborted" (fatal)

vars == <<requests, replies, session>>

VoidRet == ReplyPacket(RPCCode.kReturn, <<"kTVMNullptr">>, NoVal, NoVal)
HandleRet == ReplyPacket(RPCCode.kReturn, <<"kTVMOpaqueHandle">>, NoVal, NoVal)

\* Sec. 4.2: slot 0 carries the returned type code; an array handle goes out
\* as a device-tensor handle plus the opaque handle the peer later frees;
\* function and module handles go out as opaque handles.
CallRet(rv) ==
  ReplyPacket(RPCCode.kReturn,
   CASE rv = "kTVMNDArrayHandle" -> <<"kDLInt", "kTVMDLTensorHandle", "kTVMOpaqueHandle">>
              [] rv \in {"kTVMPackedFuncHandle", "kTVMModuleHandle"} -> <<"kDLInt", "kTVMOpaqueHandle">>
              [] OTHER -> <<"kDLInt", rv>>,
   NoVal, rv)

\* Sec. 4.5: the argument schema of each syscall and the reply on success.
Schema == [c \in {RPCCode.kFreeHandle, RPCCode.kGetGlobalFunc, RPCCode.kDevAllocData,
                  RPCCode.kDevAllocDataWithScope, RPCCode.kDevFreeData,
                  RPCCode.kDevCreateStream, RPCCode.kDevFreeStream,
                  RPCCode.kDevStreamSync, RPCCode.kDevSetStream,
                  RPCCode.kCopyAmongRemote} |->
  CASE c = RPCCode.kFreeHandle -> <<"kTVMOpaqueHandle", "kDLInt">>
    [] c = RPCCode.kGetGlobalFunc -> <<"kTVMStr">>
    [] c = RPCCode.kDevAllocData -> <<"kDLDevice", "kDLInt", "kDLInt", "kTVMDataType">>
    [] c = RPCCode.kDevAllocDataWithScope -> <<"kTVMDLTensorHandle", "scope">>
    [] c = RPCCode.kCopyAmongRemote -> <<"kTVMDLTensorHandle", "kTVMDLTensorHandle", "kTVMOpaqueHandle">>
    [] c = RPCCode.kDevCreateStream -> <<"kDLDevice">>
    [] OTHER -> <<"kDLDevice", "kTVMOpaqueHandle">>]
ReturnsHandle == {RPCCode.kGetGlobalFunc, RPCCode.kDevAllocData,
                  RPCCode.kDevAllocDataWithScope, RPCCode.kDevCreateStream}
\* "scope" is a nullable string.
TagFits(t, s) == IF s = "scope" THEN t \in {"kTVMNullptr", "kTVMStr"} ELSE t = s
WellFormed(args, sch) ==
  Len(args) = Len(sch) /\ \A i \in 1..Len(sch) : TagFits(args[i], sch[i])

OnResult(ok, rep) == IF ok THEN rep ELSE ExceptionReply(LastError)

\* Requests the spec makes a session error: an unmatched code below the
\* syscall range (Sec. 4.4; kShutdown ends the session instead of being
\* answered), a non-empty init argument list, a syscall schema mismatch
\* (Sec. 4.5, 7).
FreeableTypes == {"kTVMNDArrayHandle", "kTVMPackedFuncHandle", "kTVMModuleHandle"}
Malformed(r) ==
  \/ /\ r.code < RPCCode.kSyscallCodeStart
     /\ r.code \notin {RPCCode.kCallFunc, RPCCode.kInitServer,
                      RPCCode.kCopyFromRemote, RPCCode.kCopyToRemote}
  \/ r.code = RPCCode.kInitServer /\ r.args # <<>>
  \/ /\ r.code \in DOMAIN Schema
     /\ ~(WellFormed(r.args, Schema[r.code])
           /\ (r.code = RPCCode.kFreeHandle => r.tval \in FreeableTypes))

\* The reply a well-formed request calls for.
Expected(r) ==
  CASE r.code = RPCCode.kCallFunc -> OnResult(r.ok, CallRet(r.rv))
    [] r.code = RPCCode.kInitServer -> VoidRet
    [] r.code = RPCCode.kCopyFromRemote ->
         IF r.dev = "kDLCPU" \/ (r.copyOk = TRUE /\ r.syncOk = TRUE)
         THEN ReplyPacket(RPCCode.kCopyAck, <<>>, r.nbytes, NoVal)
         ELSE ExceptionReply(LastError)
    [] r.code = RPCCode.kCopyToRemote ->
         OnResult(r.dev = "kDLCPU" \/ (r.copyOk = TRUE /\ r.syncOk = TRUE), VoidRet)
    [] r.code = RPCCode.kDevSetDevice -> ExceptionReply("SetDevice not supported")
    [] r.code = RPCCode.kDevGetAttr -> ExceptionReply("GetAttr not supported")
    [] r.code \in DOMAIN Schema ->
         OnResult(r.ok, IF r.code \in ReturnsHandle THEN HandleRet ELSE VoidRet)
    [] OTHER -> ExceptionReply("Syscall not recognized")

Init ==
  /\ requests = <<>>
  /\ replies = <<>>
  /\ session = "open"

\* One request is answered.  The request is the one appended to requests;
\* it is read off requests' so that no set of requests is enumerated.
Serve ==
  /\ session = "open"
  /\ Len(requests') = Len(requests) + 1
  /\ SubSeq(requests', 1, Len(requests)) = requests
  /\ LET r == requests'[Len(requests')] IN
       /\ ~Malformed(r)
       /\ replies' = Append(replies, Expected(r))
  /\ UNCHANGED session

\* A shutdown request or a clean end of stream.
Close ==
  /\ session = "open"
  /\ session' = "closed"
  /\ UNCHANGED <<requests, replies>>

\* A fatal session error, possible at any time (transport, arena, malformed).
Abort ==
  /\ session = "open"
  /\ session' = "aborted"
  /\ UNCHANGED <<requests, replies>>

Next == Serve \/ Close \/ Abort

Spec == Init /\ [][Next]_vars
=============================================================================
