------------------------------ MODULE FvStorage ------------------------------
(***************************************************************************)
(* The Storage helpers of gallery/how_to/extend_tvm/fvtp2d/util.h: one    *)
(* storage allocated on the host, filled, moved to the device and back,   *)
(* and freed, in the order a caller of these helpers uses them.  Element  *)
(* values are abstracted to what FvLoops stores; what is kept is the      *)
(* layout arithmetic (sizes, strides, offset, the element index of        *)
(* operator()), the buffer allocatedPtr points to, element by element,   *)
(* and its size in bytes.  alignedPtr is allocatedPtr + 32 - halo_width.  *)
(***************************************************************************)
EXTENDS FvLoops, FiniteSets, TLC

CONSTANTS
  ElemBytes,      \* sizeof(ElementType)
  ExtentSpace,    \* extents passed to allocateStorage
  DomainSpace,    \* domain_size values passed to fillMath and initValue
  HeightSpace     \* domain_heigh(t) values passed to fillMath and initValue

VARIABLES
  st,            \* the Storage: [rank, sizes, strides, offset, cap, loc]
  mem,           \* element a of the buffer allocatedPtr points to
  writeOutside,  \* an element write fell outside the storage's data
  aliased,       \* two elements of one loop were written at one address
  copyOverrun    \* a memcpy or memset ran past the buffer it used

vars == <<st, mem, writeOutside, aliased, copyOverrun>>

Pad == 32 - halo_width

-----------------------------------------------------------------------------
(* Layout.                                                                 *)

\* The product of the sizes: allocSize, and the loop of getMemSize.
NumElems(s) ==
  CASE s.rank = 1 -> s.sizes[0]
    [] s.rank = 2 -> s.sizes[0] * s.sizes[1]
    [] s.rank = 3 -> s.sizes[0] * s.sizes[1] * s.sizes[2]

\* Mutant: the padding subtracted instead of added.
getMemSizeSignFlip(s) == (NumElems(s) - Pad) * ElemBytes

\* getMemSize(): (product of sizes + 32 - halo_width) * sizeof(ElementType).
getMemSize(s) == (NumElems(s) + Pad) * ElemBytes

\* allocateStorage(size), Storage1D.
allocateStorage1D(size) ==
  [rank |-> 1, sizes |-> (0 :> size), strides |-> (0 :> 1), offset |-> h,
   cap |-> (size + Pad) * ElemBytes, loc |-> "host"]

\* allocateStorage({s0, s1}), Storage2D: sizes reversed, strides[1] = 1.
allocateStorage2D(s0, s1) ==
  LET sizes == (0 :> s1) @@ (1 :> s0)
      strides == (0 :> s0) @@ (1 :> 1)
  IN [rank |-> 2, sizes |-> sizes, strides |-> strides,
      offset |-> h * strides[0] + h * strides[1],
      cap |-> (s0 * s1 + Pad) * ElemBytes, loc |-> "host"]

\* Mutant: the k stride is sizes[1] * sizes[1].
allocateStorage3DStrideSwap(s0, s1, s2) ==
  LET sizes == (0 :> s2) @@ (1 :> s1) @@ (2 :> s0)
      strides == (0 :> s1 * s1) @@ (1 :> s0) @@ (2 :> 1)
  IN [rank |-> 3, sizes |-> sizes, strides |-> strides,
      offset |-> h * strides[0] + h * strides[1] + h * strides[2],
      cap |-> (s0 * s1 * s2 + Pad) * ElemBytes, loc |-> "host"]

\* Mutant: the buffer without the 32 - halo_width leading elements.
allocateStorage3DUnpadded(s0, s1, s2) ==
  LET sizes == (0 :> s2) @@ (1 :> s1) @@ (2 :> s0)
      strides == (0 :> s0 * s1) @@ (1 :> s0) @@ (2 :> 1)
  IN [rank |-> 3, sizes |-> sizes, strides |-> strides,
      offset |-> h * strides[0] + h * strides[1] + h * strides[2],
      cap |-> (s0 * s1 * s2) * ElemBytes, loc |-> "host"]

\* allocateStorage({s0, s1, s2}), Storage3D: sizes reversed, strides[2] = 1.
allocateStorage3D(s0, s1, s2) ==
  LET sizes == (0 :> s2) @@ (1 :> s1) @@ (2 :> s0)
      strides == (0 :> s0 * s1) @@ (1 :> s0) @@ (2 :> 1)
  IN [rank |-> 3, sizes |-> sizes, strides |-> strides,
      offset |-> h * strides[0] + h * strides[1] + h * strides[2],
      cap |-> (s0 * s1 * s2 + Pad) * ElemBytes, loc |-> "host"]

\* Storage::operator(): the element index from alignedPtr.
Index(s, p) ==
  CASE s.rank = 1 -> s.offset + s.strides[0] * p[1]
    [] s.rank = 2 -> s.offset + s.strides[1] * p[1] + s.strides[0] * p[2]
    [] s.rank = 3 -> s.offset + s.strides[2] * p[1] + s.strides[1] * p[2] + s.strides[0] * p[3]

NoStorage == [rank |-> 0, sizes |-> (0 :> 0), strides |-> (0 :> 0), offset |-> 0,
              cap |-> 0, loc |-> "none"]

\* The extents of a storage, i first (its sizes are stored reversed).
Extents(s) == [d \in 1 .. s.rank |-> s.sizes[s.rank - d]]

\* The elements of a buffer of n bytes.
Elems(n) == n \div ElemBytes

NoMem == [a \in {} |-> Undef]

\* new ElementType[n]: n elements, none of them initialised.
NewBuffer(n) == [a \in 0 .. n - 1 |-> Undef]

\* cudaMemcpy(dst, src, n): the first n bytes of src into a buffer of
\* len elements (elements past src's end are left undefined).
CopyBytes(n, src, len) ==
  [a \in 0 .. len - 1 |-> IF a < Elems(n) /\ a \in DOMAIN src THEN src[a] ELSE Undef]

\* The point whose element is alignedPtr[x], read back through the
\* storage's own strides (halo coordinates start at -h).
Decode(s, x) ==
  LET q0 == x \div s.strides[0]
      r == x % s.strides[0]
  IN CASE s.rank = 1 -> <<x - h>>
       [] s.rank = 2 -> <<r - h, q0 - h>>
       [] s.rank = 3 -> <<(r % s.strides[1]) - h, (r \div s.strides[1]) - h, q0 - h>>

\* The effect of ref(i, j, k) = value over a loop's points (val for
\* initValue, the fillMath value of the point otherwise): each
\* lands at alignedPtr[Index], i.e. allocatedPtr[Pad + Index].  An element
\* gets the value of the point its address decodes to when that point was
\* written there; two points on one element, or a point outside the data,
\* are recorded by the flags.
WriteAll(pts, isInit) ==
  LET Val(p) == IF isInit THEN SetVal ELSE FillVal(p)
      idx == {Index(st, p) : p \in pts}
      hit(a) == LET p == Decode(st, a - Pad) IN p \in pts /\ Index(st, p) = a - Pad
  IN /\ writeOutside' = (writeOutside \/ \E x \in idx : x < 0 \/ x >= NumElems(st))
     /\ aliased' = (aliased \/ Cardinality(idx) < Cardinality(pts))
     /\ mem' = [a \in DOMAIN mem |->
                  IF a >= Pad /\ hit(a) THEN Val(Decode(st, a - Pad)) ELSE mem[a]]
     /\ UNCHANGED <<st, copyOverrun>>

\* A copy or memset of n bytes through a buffer of cap bytes.
Overruns(n, cap) == n > cap

-----------------------------------------------------------------------------
(* The helpers.                                                            *)

Allocate1D ==
  /\ st.loc = "none"
  /\ \E s0 \in ExtentSpace : st' = allocateStorage1D(s0)
  /\ mem' = NewBuffer(Elems(st'.cap))
  /\ UNCHANGED <<writeOutside, aliased, copyOverrun>>

Allocate2D ==
  /\ st.loc = "none"
  /\ \E s0, s1 \in ExtentSpace : st' = allocateStorage2D(s0, s1)
  /\ mem' = NewBuffer(Elems(st'.cap))
  /\ UNCHANGED <<writeOutside, aliased, copyOverrun>>

Allocate3D ==
  /\ st.loc = "none"
  /\ \E s0, s1, s2 \in ExtentSpace : st' = allocateStorage3D(s0, s1, s2)
  /\ mem' = NewBuffer(Elems(st'.cap))
  /\ UNCHANGED <<writeOutside, aliased, copyOverrun>>

\* fillMath on a host storage of any rank.
FillMath ==
  /\ st.loc = "host"
  /\ \E ds \in DomainSpace, dh \in HeightSpace :
       Covers(Extents(st), ds, dh) /\ WriteAll(FillPoints(st.rank, ds, dh), FALSE)

\* initValue on a host Storage3D.
InitValue ==
  /\ st.loc = "host" /\ st.rank = 3
  /\ \E ds \in DomainSpace, domain_heigh \in HeightSpace :
       Covers(Extents(st), ds, domain_heigh) /\ WriteAll(InitPoints(ds, domain_heigh), TRUE)

\* Mutant: only the data, not the padded buffer, is copied to the device.
MemH2DDataOnly ==
  /\ st.loc = "host"
  /\ st' = [st EXCEPT !.loc = "device", !.cap = getMemSize(st)]
  /\ mem' = CopyBytes(NumElems(st) * ElemBytes, mem, Elems(getMemSize(st)))
  /\ copyOverrun' = (copyOverrun \/ Overruns(getMemSize(st), st.cap))
  /\ UNCHANGED <<writeOutside, aliased>>

\* memH2D: cudaMalloc(getMemSize()), cudaMemcpy of getMemSize() bytes
\* from the host buffer, delete of the host buffer.
MemH2D ==
  /\ st.loc = "host"
  /\ st' = [st EXCEPT !.loc = "device", !.cap = getMemSize(st)]
  /\ mem' = CopyBytes(getMemSize(st), mem, Elems(getMemSize(st)))
  /\ copyOverrun' = (copyOverrun \/ Overruns(getMemSize(st), st.cap))
  /\ UNCHANGED <<writeOutside, aliased>>

\* initDeviceMemZero: cudaMemset of getMemSize() bytes.
InitDeviceMemZero ==
  /\ st.loc = "device"
  /\ mem' = [a \in DOMAIN mem |-> IF a < Elems(getMemSize(st)) THEN Zero ELSE mem[a]]
  /\ copyOverrun' = (copyOverrun \/ Overruns(getMemSize(st), st.cap))
  /\ UNCHANGED <<st, writeOutside, aliased>>

\* memD2H: new ElementType[getMemSize()] (an element count of bytes),
\* cudaMemcpy of getMemSize() bytes from the device buffer, cudaFree.
MemD2H ==
  /\ st.loc = "device"
  /\ st' = [st EXCEPT !.loc = "host", !.cap = getMemSize(st) * ElemBytes]
  /\ mem' = CopyBytes(getMemSize(st), mem, getMemSize(st))
  /\ copyOverrun' = (copyOverrun \/ Overruns(getMemSize(st), st.cap)
                                 \/ Overruns(getMemSize(st), getMemSize(st) * ElemBytes))
  /\ UNCHANGED <<writeOutside, aliased>>

FreeStorage ==
  /\ st.loc = "host"
  /\ st' = [st EXCEPT !.loc = "freed", !.cap = 0]
  /\ mem' = NoMem
  /\ UNCHANGED <<writeOutside, aliased, copyOverrun>>

FreeDeviceStorage ==
  /\ st.loc = "device"
  /\ st' = [st EXCEPT !.loc = "freed", !.cap = 0]
  /\ mem' = NoMem
  /\ UNCHANGED <<writeOutside, aliased, copyOverrun>>

Ended == st.loc = "freed" /\ UNCHANGED vars

Init ==
  /\ st = NoStorage
  /\ mem = NoMem
  /\ writeOutside = FALSE
  /\ aliased = FALSE
  /\ copyOverrun = FALSE

Next ==
  \/ Allocate1D \/ Allocate2D \/ Allocate3D
  \/ FillMath \/ InitValue
  \/ MemH2D \/ InitDeviceMemZero \/ MemD2H
  \/ FreeStorage \/ FreeDeviceStorage
  \/ Ended

Spec == Init /\ [][Next]_vars

-----------------------------------------------------------------------------
(* Properties.                                                             *)

TypeOK ==
  /\ DOMAIN mem = 0 .. Elems(st.cap) - 1
  /\ st.loc \in {"none", "host", "device", "freed"}
  /\ st.rank \in 0 .. 3
  /\ st.cap \in Nat
  /\ writeOutside \in BOOLEAN /\ aliased \in BOOLEAN /\ copyOverrun \in BOOLEAN

\* The layout arithmetic of allocateStorage and operator(): on a storage
\* whose extents hold the caller's domain and halo, every element the
\* loops of fillMath and initValue write lies in the storage's data
\* (alignedPtr[0 .. allocSize - 1]), and no two of them share an address.
StorageLayoutSound == ~writeOutside /\ ~aliased

\* Through any sequence of host/device round trips, the getMemSize() bytes
\* that memH2D, memD2H and initDeviceMemZero copy or clear never run past
\* the buffer allocatedPtr points to.
CopiesWithinBuffers == ~copyOverrun

\* The cells of the grid: the element of each point, read at alignedPtr.
CellsOf ==
  IF st.loc \in {"host", "device"}
  THEN [p \in Points(Extents(st)) |->
          LET a == Pad + Index(st, p) IN IF a \in DOMAIN mem THEN mem[a] ELSE Undef]
  ELSE NoMem

G == INSTANCE FvGrid WITH shape <- Extents(st), where <- st.loc, cells <- CellsOf

\* The helpers implement the grid a caller programs against: whatever
\* sequence of fillMath, initValue, memH2D, initDeviceMemZero, memD2H and
\* frees runs, each point's element (read through operator()) is the value
\* last stored at that point, or 0 after a clear: the copies move the whole
\* padded buffer, the memset clears all of it, and the index arithmetic
\* sends distinct points to distinct elements.
GridRefinement == G!GridSpec
=============================================================================
