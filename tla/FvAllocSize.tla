----------------------------- MODULE FvAllocSize -----------------------------
(***************************************************************************)
(* The byte counts of gallery/how_to/extend_tvm/fvtp2d/util.h at their C  *)
(* widths.  allocateStorage sizes its buffer with an int32_t product of   *)
(* the extents (allocSize), while getMemSize(), which memH2D, memD2H and   *)
(* initDeviceMemZero copy, multiplies in size_t.  A count past 2^31 does   *)
(* not fit a TLC integer, so a product is a record [hi, lo] standing for   *)
(* hi * 2^16 + lo; its int32_t value is its low 32 bits as two's          *)
(* complement.  FvStorage follows the elements of small storages; this    *)
(* module follows only the sizes, for extents large enough to wrap.       *)
(***************************************************************************)
EXTENDS Integers

CONSTANTS
  halo_width,   \* the halo_width util.h is compiled with
  ExtentSpace   \* extents passed to allocateStorage

ASSUME halo_width \in 0 .. 31
\* Two half-word products of an extent stay below 2^31.
ASSUME ExtentSpace \subseteq 1 .. 2^15 - 1

VARIABLES
  loc,       \* where allocatedPtr points: "none", "host", "device", "freed", "threw"
  memSize,   \* getMemSize() / sizeof(ElementType), as [hi, lo]
  bufElems,  \* elements of the buffer allocatedPtr points to, as [hi, lo]
  overrun    \* a cudaMemcpy or cudaMemset ran past a buffer it used

vars == <<loc, memSize, bufElems, overrun>>

Half == 2^16
MaxInt32 == 2^30 - 1 + 2^30
Pad == 32 - halo_width

\* A count below 2^31, and the sum and order of counts held as [hi, lo].
Wide(n) == [hi |-> n \div Half, lo |-> n % Half]
WideAdd(w, n) == [hi |-> w.hi + (w.lo + n) \div Half, lo |-> (w.lo + n) % Half]
WideLeq(v, w) == v.hi < w.hi \/ (v.hi = w.hi /\ v.lo <= w.lo)

\* w * e, exact (size_t does not wrap at these sizes).
WideMul(w, e) ==
  LET l == w.lo * e IN [hi |-> w.hi * e + l \div Half, lo |-> l % Half]

\* The int32_t a product wraps to: its low 32 bits, two's complement.
Int32(w) ==
  LET u == w.hi % Half
  IN IF u >= Half \div 2 THEN (u - Half) * Half + w.lo ELSE u * Half + w.lo

\* allocSize + 32 - halo_width, an int addition the build wraps.
Int32AddPad(a) ==
  IF a > MaxInt32 - Pad THEN (a - MaxInt32 - 1) + (Pad - MaxInt32 - 1) ELSE a + Pad

\* The Rank of a Storage built from the extents ext.
RankOf(ext) == CHOOSE n \in 1 .. 3 : DOMAIN ext = 1 .. n

\* The product of the extents, sizes[0] * sizes[1] * ... in the code.
ExtentProduct(ext) ==
  CASE RankOf(ext) = 1 -> Wide(ext[1])
    [] RankOf(ext) = 2 -> WideMul(Wide(ext[1]), ext[2])
    [] RankOf(ext) = 3 -> WideMul(WideMul(Wide(ext[1]), ext[2]), ext[3])

\* allocateStorage (1D, 2D, 3D): const int32_t allocSize = the product.
allocSize(ext) == Int32(ExtentProduct(ext))

\* getMemSize(): (memSize + 32 - halo_width) elements, memSize in size_t.
getMemSize(ext) == WideAdd(ExtentProduct(ext), Pad)

-----------------------------------------------------------------------------

\* allocateStorage: new ElementType[allocSize + 32 - halo_width].  A
\* negative count makes the new-expression throw std::bad_array_new_length,
\* which nothing in util.h catches.
Allocate ==
  /\ loc = "none"
  /\ \E r \in 1 .. 3 : \E ext \in [1 .. r -> ExtentSpace] :
       LET n == Int32AddPad(allocSize(ext)) IN
       /\ memSize' = getMemSize(ext)
       /\ IF n < 0
          THEN loc' = "threw" /\ UNCHANGED bufElems
          ELSE loc' = "host" /\ bufElems' = Wide(n)
  /\ UNCHANGED overrun

\* memH2D: cudaMalloc(getMemSize()) then cudaMemcpy of getMemSize() bytes
\* out of the host buffer, which is deleted.
MemH2D ==
  /\ loc = "host"
  /\ overrun' = (overrun \/ ~WideLeq(memSize, bufElems))
  /\ bufElems' = memSize
  /\ loc' = "device"
  /\ UNCHANGED memSize

\* memD2H: new ElementType[getMemSize()] (a byte count used as an element
\* count, so the buffer holds at least memSize elements) and cudaMemcpy of
\* getMemSize() bytes from the device buffer.
MemD2H ==
  /\ loc = "device"
  /\ overrun' = (overrun \/ ~WideLeq(memSize, bufElems))
  /\ bufElems' = memSize
  /\ loc' = "host"
  /\ UNCHANGED memSize

\* initDeviceMemZero: cudaMemset of getMemSize() bytes.
InitDeviceMemZero ==
  /\ loc = "device"
  /\ overrun' = (overrun \/ ~WideLeq(memSize, bufElems))
  /\ UNCHANGED <<loc, memSize, bufElems>>

\* freeStorage / freeDeviceStorage.
Free ==
  /\ loc \in {"host", "device"}
  /\ loc' = "freed"
  /\ UNCHANGED <<memSize, bufElems, overrun>>

Ended == loc \in {"freed", "threw"} /\ UNCHANGED vars

Init ==
  /\ loc = "none"
  /\ memSize = Wide(0)
  /\ bufElems = Wide(0)
  /\ overrun = FALSE

Next == Allocate \/ MemH2D \/ MemD2H \/ InitDeviceMemZero \/ Free \/ Ended

Spec == Init /\ [][Next]_vars

-----------------------------------------------------------------------------

\* Every copy and clear of getMemSize() bytes stays inside the buffer it
\* reads or writes: the host buffer allocateStorage sizes with its int32_t
\* allocSize holds the getMemSize() bytes memH2D copies out of it.
CopiesWithinAllocation == ~overrun
=============================================================================
