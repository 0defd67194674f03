# TLA+ models of tvm-graph: the MinRPC server, the stencil type relations and the fvtp2d storage helpers

This directory holds TLA+ specifications of the code under `src/tvm-graph`,
the TLC configurations that check them, and `PROJECT.json`. `PROJECT.json`
maps every definition to the source lines it translates, and lists the runs,
mutants, findings and hazards.

## The system

- **MinRPCServer** (`src/runtime/minrpc/minrpc_server.h`) is a
  single-threaded server.
  - `ProcessOnePacket` does the following, in order:
    1. recycles the packet arena;
    2. sets `allow_clean_shutdown_`;
    3. reads a `uint64` length (0 means an idle packet) and an `RPCCode`;
    4. clears the flag;
    5. dispatches to a handler.
  - The handlers are:
    - `HandleNormalCallFunc`, which re-tags NDArray, bytes, function and
      module return values;
    - `HandleInitServer`;
    - `HandleCopyFromRemote` and `HandleCopyToRemote`, which stage
      non-CPU data in an arena buffer, then copy and synchronise;
    - `HandleSyscallFunc`, with eleven `Syscall*` handlers guarded by
      `MINRPC_CHECK`s.
  - All I/O goes through `ReadRawBytes`, which loops on short reads.
    - End of stream means Shutdown and `Exit(0)` while the flag is set, and
      `kReadError` otherwise.
    - A read error (-1) gives `kReadError`.
  - A write goes through `WriteRawBytes`; a failed write gives `kWriteError`.
  - Every fatal error is `io_->Exit(status)`.
- **Packet arena**: `GenericArena` (not under `src/`) over
  `detail::PageAllocator`.
  - `PageAllocator` hands out whole 2 KiB pages from the runtime.
  - A failed allocation or free gives `kAllocError`.
  - `RecycleAll` keeps the pages for the next packet; `FreeAll` (in
    `Shutdown`) returns them.
- **Stencil operators** (`src/relay/op/stencil/stencil.cc`,
  `include/tvm/relay/attrs/stencil.h`): nine Relay operators, each with a
  `Make*` constructor and a type relation.
  - Relay's type solver (in TVM, not in this repository) calls a relation
    with the argument types followed by the output type.
  - A relation returns false to be called again later. It returns true
    after `reporter->Assign` has unified the output with the type it
    computed. A failed `ICHECK` aborts inference.
  - The relations interact only through the solver: one call's output is
    another call's argument.
- **fvtp2d utilities** (`gallery/how_to/extend_tvm/fvtp2d/util.h`): a
  `Storage` of rank 1 to 3 with reversed sizes, strides, a halo offset and
  a buffer padded by `32 - halo_width` elements.
  - The helpers allocate, fill (`fillMath`, `initValue`), move the buffer
    to the device and back (`memH2D`, `memD2H`), clear it on the device
    and free it.

The server interacts with two outside parties. The peer can send any bytes.
The transport and runtime (`TVMFuncCall`, `TVMDeviceCopyDataFromTo`,
`TVMSynchronize`, ...) can return any status. In the model both are
environments, and their results are chosen with `\E`.

## Modules

| Module | Models | Source |
|---|---|---|
| `RPCReference` | The `RPCCode` values, reply packets, and the arena bytes `RecvPackedSeq` takes. | spec (rpc_reference.h is not under src/), plus `ReturnException`/`ReturnLastTVMError` |
| `PageArena` | The arena as a value: the page sizes, the current page and the offset. `PageBytes` is `PageAllocator::allocate`'s rounding. `Allocate` gives every outcome of an `ArenaAlloc`: a bump, reuse of a recycled page, a fresh page, or a failure. | `PageAllocator`, GenericArena from the spec |
| `MinRPCServer` | The server loop and every handler. | `minrpc_server.h` 80-687 |
| `RPCService` | The abstract contract. Each well-formed request gets exactly the reply the spec prescribes, in order. A session ends closed or aborted. | spec, handler code |
| `StencilRel` | Types as records of kind `incomplete`/`tensor`/`tuple` (every non-tensor type) with shape, dtype and fields. Every relation as an operator from the type array and attribute node to `defer`, `fatal` or `solved` with the assigned type. The attribute nodes of `stencil.h` (their type, and `output_num`), the `Make*` constructors that allocate them, and `Relation`, the registration lookup. | `stencil.cc`, `stencil.h` |
| `StencilTypeSolver` | The solver as the environment. `Invoke(c)` runs call c's relation and unifies its output (a clash aborts). `Resolve(v)` unifies a free variable with a type from the rest of the program. | Relay's solver (outside the repository) |
| `MC_StencilTypeSolver` | A program with one call of each operator: results feed later calls, `y` and `o4` are annotated, and `x` and `w` are free. | - |
| `FvLoops` | The points the `fillMath`/`initValue` loops visit (`initValue` with the global `domain_height`), and the element values, abstracted to undefined, zero, "the `fillMath` value of point p" and `val`. | `util.h` 179-225 |
| `FvGrid` | The abstract storage: a grid of cells, one per point of its extents with the halo, on the host or on the device. Fill and set store values at exactly the requested points. Transfers keep every cell. A clear zeroes every cell. | what a caller of `util.h` relies on |
| `FvStorage` | One storage through its life. `st` is the storage (rank, sizes, strides, offset, the byte size of the buffer `allocatedPtr` points to, and where it is). `mem` holds that buffer's elements. The flags record an element write outside the data, two writes to one address, and a copy past a buffer. `G == INSTANCE FvGrid WITH ...` maps the point cells to `mem[32 - halo_width + Index(p)]`. | `util.h` 46-225 |
| `FvAllocSize` | The sizes of one storage at their C widths, for extents up to 2^15. A count past 2^31 is a record `[hi, lo]` for `hi * 2^16 + lo`. `Int32` keeps its low 32 bits as two's complement (the `int32_t allocSize`), and `getMemSize` stays exact (`size_t`). `Allocate` sets the host buffer from `allocSize + 32 - halo_width`, or ends in `"threw"` when that count is negative (`new[]` throws `bad_array_new_length`). `MemH2D`, `MemD2H` and `InitDeviceMemZero` copy or clear `getMemSize()` bytes and record an overrun. | `util.h` 46-52, 92-177 |
| `MC_MinRPCServer` | Finite spaces of codes, argument type-code sequences, return types and sizes for TLC. | - |

### State and steps of `MinRPCServer`

- A step ends where the code blocks on the next `ReadRawBytes`. It runs the
  whole handler code up to the next read: the runtime calls, the arena
  allocations and the reply.
- `pc` names that read: `ReadLen`, `ReadCode`, `ReadCallArgs`,
  `ReadInitLen`, `ReadInitVer`, `ReadInitArgs`, `ReadDesc`, `ReadShape`
  (the shape read of a negative `ndim`, which only a transport failure
  ends), `ReadData` or `ReadSysArgs`. It can also be `Start`, `Exited` or `Stopped`.
- `allow` is `allow_clean_shutdown_`.
- `midField` and `pktBytes` record a short read and a partly consumed
  packet.
- `cur` is the request being read, with the runtime results chosen for it.
- `out` holds the replies written. `answered` holds the requests they
  answer.
- `exitCode` is the status passed to `io_->Exit`.
- `closed` records that `io_->Close()` was called.
- `overrun` records that a handler read or wrote an arena block (the
  shape array, the staging buffer or the init version string) past the
  bytes `ArenaAlloc` gave it.
- The actions:
  - `BeginPacket` is lines 91-92.
  - `RecvIdle` and `RecvLength` are lines 94-96.
  - `RecvCode` with `Dispatch` is lines 96-131.
  - `ReadPartial`, `ReadEndOfStream` and `ReadError` are `ReadRawBytes`.
  - `RecvCallArgs`, `RecvSyscallArgs`, `RecvInitLen`, `RecvInitVersion`,
    `RecvInitArgs`, `RecvCopyFromDescriptor`, `RecvCopyToDescriptor` and
    `RecvCopyToData` are the handlers.
  - `Send` is a whole reply. It either reaches the peer or fails with
    `kWriteError`.
- Data is abstracted as follows:
  - a packed argument sequence is its sequence of type codes;
  - handles and byte contents are not represented;
  - a copy keeps its device type, `ndim` and `num_bytes`. `num_bytes` is
    split into its low 32 bits (`nbytes`, what `ArenaAlloc(int)` keeps)
    and its high part (`nbHigh`), since TLC integers are 32-bit.
    `dsDelta` is the size the descriptor's shape and dtype give minus
    `num_bytes`: the bytes the device copy moves beyond `num_bytes`.

## Runs

| Run | Config | Bounds | Shows |
|---|---|---|---|
| `core_service` | `MC_MinRPCServer.cfg` | 2 length prefixes, codes -1..21, 10 argument shapes, 6 return types, sizes 0/64/4096, CPU and CUDA | `TypeOK`; `AllocationWithinPage`; `ServiceRefinement`: the server refines `RPCService` (`INSTANCE ... WITH requests <- answered, replies <- out`). Every reply written matches the contract for its request, including re-tagging, check failures, copy/sync errors and write failures. |
| `clean_exit_window` | `MC_CleanExit.cfg` | 1 packet | **Violation**: `CleanExitOnlyBetweenPackets`. End of stream after part of a packet exits with status 0. |
| `descriptor_size_unchecked` | `MC_DescriptorSize.cfg` | 2 packets of init/copies/shutdown, `num_bytes` 0/64, descriptor size `num_bytes` or `num_bytes + 64` | **Violation**: `StagingWithinBuffer`. The device copy runs past a staging buffer sized by `num_bytes`. |
| `num_bytes_truncated` | `MC_NumBytesHigh.cfg` | same, `num_bytes` below 2^31 or plus 2^32 | **Violation**: `StagingWithinBuffer`. `ArenaAlloc(int)` keeps the low 32 bits of `num_bytes`. |
| `negative_ndim` | `MC_NegativeNDim.cfg` | same, `ndim` -1 or 1 | **Violation**: `StagingWithinBuffer`. The shape block of `ndim = -1` has a wrapped size, and `ReadArray` writes past it. |
| `stencil_solver` | `MC_StencilTypeSolver.cfg` | 9 calls and 12 type variables; free types from {f32[4], f32[8], a tuple} | `TypeOK`. `SolvedTypesConsistent`: in every order of relation calls and unifications, each resolved call's output is still what its relation computes from the current types. `InferenceTerminates`: under the solver's fairness, inference ends with every relation resolved, or aborted. |
| `stencil_incomplete_grid` | `MC_StencilAbort.cfg` | same | **Violation**: `FatalOnlyOnIllTypedInput`. `Grid3StencilRel` aborts on a grid that is only not inferred yet. |
| `storage_lifecycle` | `MC_FvStorage.cfg` | halo 1, extents 3..5 per axis, domain 1..3, height 2, 8-byte elements | `TypeOK`. `StorageLayoutSound`: on a storage that holds the domain and halo, the `fillMath`/`initValue` loops write only inside the data and never twice to one address. `CopiesWithinBuffers`: the `getMemSize()` bytes copied or cleared never pass a buffer, however many round trips are made. `GridRefinement`: the helpers implement `FvGrid`. Every value stored survives any sequence of `memH2D`/`memD2H`, and `initDeviceMemZero` clears every cell. |
| `storage_initvalue` | `MC_FvInitValue.cfg` | heights 1..2 | **Violation**: `StorageLayoutSound`. `initValue` ignores its height argument. |
| `storage_allocsize_wrap` | `MC_FvAllocSize.cfg` | halo 3, extents {3, 1024, 2048} | **Violation**: `CopiesWithinAllocation`. A 1024 x 2048 x 2048 storage (product 2^32) gets a 29-element host buffer, and `memH2D` copies 2^32 + 29 elements out of it. |
| `init_len_truncated` | `MC_InitLenHigh.cfg` | 2 packets of `kInitServer`, `len` 0 or 3, plus 0 or 2^32 | **Violation**: `StagingWithinBuffer`. `ArenaAlloc(int)` keeps the low 32 bits of `len + 1`, and `ReadArray` reads all `len` bytes into the block. |

Why the bounds are enough:

- Two packets are enough for every handler to run after a recycled arena.
  They also let a request follow one that was answered, failed or shut down.
- 4096 bytes spans more than one page, so it exercises a fresh multi-page
  allocation.
- 2000 bytes overflows the first page once the page header and the DLTensor
  are in it.
- Three packets over the full code space take about 9M states and 3
  minutes, so two are checked.

Each property of a passing run has a mutant of the mapped code that TLC
finds violating it:

- `CopyAckReply` with the wrong code breaks `TypeOK`.
- Page rounding down breaks `AllocationWithinPage`.
- Ignoring the `TVMSynchronize` result breaks `ServiceRefinement`.
- `Grid2MOStencilRel` without its input checks breaks `TypeOK`: a tuple
  field that is not a tensor.
- `Grid2StencilRel` without the check of `types[1]` breaks
  `SolvedTypesConsistent`.
- `Grid2StencilRel` that checks the output `types[2]` instead of `types[1]`
  never resolves and breaks `InferenceTerminates`.
- `getMemSize` subtracting the padding breaks `TypeOK` (a negative size).
- A 3D stride of `sizes[1] * sizes[1]` breaks `StorageLayoutSound`.
- A buffer without the `32 - halo_width` padding breaks
  `CopiesWithinBuffers`.
- `memH2D` copying only the data bytes, without the padding, breaks
  `GridRefinement`. The last `32 - halo_width` elements never reach the
  device.

Bounds of the new runs:

- The stencil program has a call of every operator. Free variables can
  become two shapes and a non-tensor. So every relation can defer, resolve,
  abort on a tuple, and clash with an annotation (`o4`).
- Extents 3..5 with halo 1 give domains of 1..3 inside the halo. A 4-deep
  storage is the smallest one the global `domain_height = 2` fits. A 3-deep
  one fits `domain_heigh = 1` (`storage_initvalue`). Extents that differ per
  axis catch a stride built from the wrong size. A halo of 2 with extents
  5..7 takes about 9 minutes with the buffer contents.
- A write's element is found by decoding its address with the storage's
  own strides (`Decode`). Two points on one element, and a point outside
  the data, are caught by `aliased` and `writeOutside`.

## Findings

`allow_clean_shutdown_` is cleared only after `Read(&code)`
(`minrpc_server.h:98`). So if the stream ends inside the length prefix, or
between the length and the code, the server calls `Shutdown()` and
`io_->Exit(0)`. The spec treats end of stream in the middle of a message as a
fatal read error.

A non-host copy is staged in `ArenaAlloc<uint8_t>(num_bytes)`
(`minrpc_server.h:199`, 249), and `TVMDeviceCopyDataFromTo` is given a
temporary `DLTensor` with the descriptor's shape and dtype (lines 208, 259).
The copy moves the bytes the descriptor describes, and nothing compares them
with `num_bytes`. The spec lists validating descriptors as part of the
component and calls the buffer "same-size". TLC finds a `kCopyFromRemote`
whose device copy writes 64 bytes past the buffer.

`ArenaAlloc` takes an `int count` (line 538). A `num_bytes` of 2^32 or more
gets a staging buffer of its low 32 bits, while `WriteArray`/`ReadArray`
(lines 220, 250) move all of it.

`HandleInitServer` passes the peer's `uint64_t len + 1` to the same
`ArenaAlloc<char>` (line 337) and then reads `len` bytes into the block
(line 338). With `len = 2^32 + 3` the block has 4 bytes. TLC finds a
`kInitServer` reaching that read (`init_len_truncated`).

`ndim` is read from the wire and passed unchecked to
`ArenaAlloc<int64_t>(ndim)` and `ReadArray(shape, ndim)` (lines 186-187).
The spec states `ndim >= 0`. With `ndim = -1` the byte count wraps to
2^64 - 8, and the peer's bytes are stored past the block.

`Grid3..6StencilRel` test `types[0].as<IncompleteTypeNode>()` when grid i
is not a tensor (`stencil.cc:196`, 236, 277, 319); `Grid2MOStencilRel`
tests `types[i]`. When grid1 is a tensor and a later grid is the output of
a call the solver has not run yet, the ICHECK fails and inference aborts,
though a relation must return false and wait. TLC finds `Grid3(y, o1, x)`
invoked before the `grid1stencil` call that produces `o1`.

`initValue(ref, val, domain_size, domain_heigh)` loops `k` to the global
`domain_height + halo_width` (`util.h:222`) and ignores its argument;
`fillMath` for `Storage3D` uses its own. A storage sized for the argument is
written past its end.

`allocateStorage` multiplies the extents into an `int32_t allocSize`
(`util.h:104, 120, 134`), while `getMemSize()` multiplies them in `size_t`
(lines 46-52), and `memH2D` copies that many bytes (line 165). A product of
2^32 or more wraps to a small count. TLC finds extents 1024, 2048 and 2048:
the product 2^32 wraps to 0, the host buffer has 29 elements, and `memH2D`
reads 2^32 + 29 elements from it (`storage_allocsize_wrap`).
Products in [2^31, 2^32 - 29) wrap negative, so `new[]` throws instead.

## Fairness

- The MinRPC server has no fairness. Its loop is driven by the peer, and
  the peer may stop sending at any time. Every non-terminal state has an
  enabled step (a read can always fail), so deadlock is checked. Terminal
  states stutter through `Ended`.
- `StencilTypeSolver` has weak fairness on every `Invoke(c)` and every
  `Resolve(v)`. Relay's solver keeps calling every unresolved relation
  until none makes progress, so a relation that can resolve is eventually
  called. The free variables stand for types the rest of the program fixes
  (their producers are outside the stencil program). `Settled` is the
  solver returning.
- `FvStorage` and `FvAllocSize` have no fairness and no liveness property. The caller decides
  which helper runs next, and `Ended` stutters after the storage is freed.

## Not modelled, and the plan

- **Device-side asynchrony.** After a failed `TVMSynchronize` the copy
  may still be running, and its staging buffer is handed out by the next
  `RecycleAll` (the hazard at line 262). The runtime API does not say
  whether the copy is still pending, so a model of it would be an
  assumption rather than the code.
- **`packet_len` against the bytes consumed** (line 95). The model reads
  fields, not bytes. The peer may already send any packet, and a length
  that disagrees with the body only shifts where the server reads the next
  packet. Nothing in the spec or code says what the server should do, so no
  property can decide it.
- **`len + 1` of `HandleInitServer` at exactly `2^64 - 1`** (line 337),
  where it wraps to 0. The low word of `len` is kept below 2^31, so this
  and a low word that makes the `int` negative are not enumerated. A high
  word is, and `init_len_truncated` shows it.
- **Stencil attributes other than `output_num`** (`tag`, `regular`,
  `use_weight`, `accumulate`, `placeholder`). No relation reads them. An
  attribute node is its type and, for `Grid2MOStencilAttrs`, its
  `output_num`. Shapes are copied, never computed, so a shape is one small
  tuple.
- **Element values in util.h.** The `cos`/`sin` of `fillMath` is
  abstracted to "the value of point p", and `initValue`'s `val` to a single
  value.
- **CUDA call failures in util.h.** `memH2D` and `memD2H` ignore the results
  of `cudaMalloc` and `cudaMemcpy`. The model takes them to succeed.
- **Copies of a `Storage`** held by a caller across `memH2D`/`memD2H`. Their
  pointers go stale; only one storage is followed.
- **Element contents at `FvAllocSize`'s sizes.** `FvAllocSize` follows
  sizes only. Its extents of thousands cannot be enumerated cell by cell,
  and `FvStorage` covers the contents at small extents.
- **`delete` of a `new[]` buffer** (util.h:143, 166). The model records only
  that the buffer is released.
- **A variant in which `io_->Exit` returns.** The handler interface
  documents `Exit` as ending the process.
- **The I/O handler's framing** (`MessageStart`/`MessageDone`) and the
  byte-level packed encoding.
