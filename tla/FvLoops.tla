------------------------------- MODULE FvLoops -------------------------------
(***************************************************************************)
(* What gallery/how_to/extend_tvm/fvtp2d/util.h's fillMath and initValue  *)
(* loop over, and the values they store, shared by the abstract grid      *)
(* (FvGrid) and the storage that implements it (FvStorage).  A point is   *)
(* <<i>>, <<i, j>> or <<i, j, k>>; an extent tuple lists the storage's    *)
(* extents in the same order (i first).                                   *)
(***************************************************************************)
EXTENDS Integers, Sequences

CONSTANTS
  halo_width,     \* the halo_width the helpers are compiled with
  domain_height   \* the global domain_height the helpers are compiled with

h == halo_width

\* An element of a buffer: new ElementType[] leaves it undefined,
\* cudaMemset writes 0, fillMath writes a value computed from the point,
\* initValue writes its val.
Undef == [w |-> "undef", at |-> <<>>]
Zero == [w |-> "zero", at |-> <<>>]
FillVal(p) == [w |-> "fill", at |-> p]
SetVal == [w |-> "val", at |-> <<>>]

\* The coordinates of one axis of extent n: the halo starts at -h.
Axis(n) == -h .. n - h - 1

\* Every point of a storage with the given extents.
Points(ext) ==
  CASE Len(ext) = 1 -> {<<i>> : i \in Axis(ext[1])}
    [] Len(ext) = 2 -> {<<i, j>> : i \in Axis(ext[1]), j \in Axis(ext[2])}
    [] Len(ext) = 3 -> {<<i, j, k>> : i \in Axis(ext[1]), j \in Axis(ext[2]), k \in Axis(ext[3])}
    [] OTHER -> {}

\* The domain with its halo: -halo_width .. domain_size + halo_width - 1.
HaloRange(ds) == -h .. ds + h - 1

\* The (i, j, k) written by the loops of fillMath: k covers the domain
\* height only (Storage3D, lines 184-192).
FillPoints(rank, ds, dh) ==
  CASE rank = 1 -> {<<i>> : i \in HaloRange(ds)}
    [] rank = 2 -> {<<i, j>> : i, j \in HaloRange(ds)}
    [] rank = 3 -> {<<i, j, k>> : i, j \in HaloRange(ds), k \in 0 .. dh - 1}

\* The (i, j, k) written by initValue: k runs from -halo_width to the
\* global domain_height + halo_width - 1; its parameter domain_heigh is
\* not used.
InitPoints(ds, domain_heigh) ==
  {<<i, j, k>> : i, j \in HaloRange(ds), k \in -h .. domain_height + h - 1}

\* The caller's domain, with its halo on every side, fits the extents.
Covers(ext, ds, dh) ==
  /\ \A d \in 1 .. Len(ext) : d <= 2 => ext[d] >= ds + 2 * h
  /\ Len(ext) = 3 => ext[3] >= dh + 2 * h
=============================================================================
