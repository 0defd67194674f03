------------------------------- MODULE FvGrid -------------------------------
(***************************************************************************)
(* What a Storage of util.h promises its caller: a grid of cells, one per *)
(* point of its extents (halo included), that lives on the host or on the *)
(* device.  fillMath and initValue set the cells of the domain and halo,  *)
(* moving the storage between host and device keeps every cell, clearing *)
(* it on the device zeroes every cell.                                    *)
(***************************************************************************)
EXTENDS FvLoops

CONSTANTS ExtentSpace, DomainSpace, HeightSpace

VARIABLES
  shape,  \* the extents, i first; <<>> before allocation
  where,  \* "none", "host", "device" or "freed"
  cells   \* point -> the value the caller last stored there

gvars == <<shape, where, cells>>

NoCells == [p \in {} |-> Undef]

\* What initValue is asked for: k over the halo of domain_heigh.
RequestedInitPoints(ds, domain_heigh) ==
  {<<i, j, k>> : i, j \in HaloRange(ds), k \in -h .. domain_heigh + h - 1}

Store(pts, Val(_)) ==
  cells' = [p \in DOMAIN cells |-> IF p \in pts THEN Val(p) ELSE cells[p]]

Alloc ==
  /\ where = "none"
  /\ \E r \in 1 .. 3 : \E ext \in [1 .. r -> ExtentSpace] :
       shape' = ext /\ cells' = [p \in Points(ext) |-> Undef]
  /\ where' = "host"

Fill ==
  /\ where = "host"
  /\ \E ds \in DomainSpace, dh \in HeightSpace :
       Covers(shape, ds, dh) /\ Store(FillPoints(Len(shape), ds, dh), FillVal)
  /\ UNCHANGED <<shape, where>>

SetAll ==
  /\ where = "host" /\ Len(shape) = 3
  /\ \E ds \in DomainSpace, dh \in HeightSpace :
       LET Val(p) == SetVal
       IN Covers(shape, ds, dh) /\ Store(RequestedInitPoints(ds, dh), Val)
  /\ UNCHANGED <<shape, where>>

ToDevice == where = "host" /\ where' = "device" /\ UNCHANGED <<shape, cells>>

ToHost == where = "device" /\ where' = "host" /\ UNCHANGED <<shape, cells>>

ClearDevice ==
  /\ where = "device"
  /\ cells' = [p \in DOMAIN cells |-> Zero]
  /\ UNCHANGED <<shape, where>>

Release ==
  /\ where \in {"host", "device"}
  /\ where' = "freed" /\ cells' = NoCells
  /\ UNCHANGED shape

GridInit == shape = <<>> /\ where = "none" /\ cells = NoCells

GridNext == Alloc \/ Fill \/ SetAll \/ ToDevice \/ ToHost \/ ClearDevice \/ Release

GridSpec == GridInit /\ [][GridNext]_gvars
=============================================================================
