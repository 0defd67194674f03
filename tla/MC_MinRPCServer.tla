-------------------------- MODULE MC_MinRPCServer --------------------------
(* Model values for MinRPCServer: every RPCCode, the argument shapes of    *)
(* each syscall with a wrong arity and a wrong type code, and sizes that   *)
(* reach a second arena page and a multi-page staging buffer.              *)
EXTENDS MinRPCServer

MCCodeSpace == {-1} \cup 0..21

MCArgSpace ==
  { <<>>,
    <<"kTVMOpaqueHandle", "kDLInt">>,
    <<"kTVMStr">>,
    <<"kDLDevice">>,
    <<"kDLDevice", "kTVMOpaqueHandle">>,
    <<"kDLDevice", "kDLInt", "kDLInt", "kTVMDataType">>,
    <<"kTVMDLTensorHandle", "kTVMNullptr">>,
    <<"kTVMDLTensorHandle", "kTVMStr">>,
    <<"kTVMDLTensorHandle", "kTVMDLTensorHandle", "kTVMOpaqueHandle">>,
    <<"kDLInt", "kDLInt">> }

MCCallArgSpace == {<<"kDLInt">>}

MCTypeCodeSpace == {"kTVMNDArrayHandle", "kTVMPackedFuncHandle", "kTVMModuleHandle", "kDLInt"}

MCRetCodeSpace == {"kDLInt", "kTVMNullptr", "kTVMNDArrayHandle", "kTVMBytes",
                   "kTVMPackedFuncHandle", "kTVMModuleHandle"}
(* A narrower space for long sessions: init, copies and shutdown only,  *)
(* with staging buffers below, near and above one page.                  *)
MCReuseCodeSpace == {1, 2, 6, 7}

MCReuseArgSpace == {<<>>}

(* init requests only, for the len of HandleInitServer. *)
MCInitCodeSpace == {RPCCode.kInitServer}

(* A peer that sends ndim = -1 in a copy descriptor. *)
MCNegNDimSpace == {-1, 1}
=============================================================================
