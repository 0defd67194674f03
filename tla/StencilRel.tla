----------------------------- MODULE StencilRel -----------------------------
(***************************************************************************)
(* The stencil operators of src/relay/op/stencil/stencil.cc: their        *)
(* registrations, the Make* constructors and the type relations the       *)
(* Relay type solver calls.  A type is a record                           *)
(*   kind  - "incomplete" (IncompleteTypeNode), "tensor" (TensorTypeNode) *)
(*           or "tuple" (any other type, e.g. a TupleType);               *)
(*   shape, dtype - of a tensor type; fields - of a tuple type.           *)
(* A relation returns an outcome: "defer" (return false), "solved" with   *)
(* the type passed to reporter->Assign for the output, or "fatal" (an     *)
(* ICHECK failed and type inference aborts).                              *)
(***************************************************************************)
EXTENDS Integers, Sequences

Incomplete == [kind |-> "incomplete", shape |-> <<>>, dtype |-> "none", fields |-> <<>>]
TensorType(shape, dtype) == [kind |-> "tensor", shape |-> shape, dtype |-> dtype, fields |-> <<>>]
TupleType(fields) == [kind |-> "tuple", shape |-> <<>>, dtype |-> "none", fields |-> fields]

Defer == [res |-> "defer", out |-> Incomplete]
Fatal == [res |-> "fatal", out |-> Incomplete]
Solved(t) == [res |-> "solved", out |-> t]

\* types[i] of the C++ code (0-based).
T(types, i) == types[i + 1]

\* TensorType(Array<IndexExpr>(out_shape), data->dtype) built from data.
SameTensor(data) == TensorType(data.shape, data.dtype)

\* The relation of a one-data operator with n arguments: the size check,
\* then types[0] must be a tensor (an incomplete one defers); the output
\* types[n] gets its shape and dtype.  The other arguments are unchecked.
DataRel(types, n) ==
  CASE Len(types) # n + 1 -> Fatal
    [] T(types, 0).kind = "tensor" -> Solved(SameTensor(T(types, 0)))
    [] T(types, 0).kind = "incomplete" -> Defer
    [] OTHER -> Fatal

Star2D2RRel(types) == DataRel(types, 2)
Star1D4RRel(types) == DataRel(types, 2)
Grid1StencilRel(types) == DataRel(types, 1)

\* Mutant: the check of types[1] is dropped.
Grid2StencilRelUnchecked(types) ==
  CASE Len(types) # 3 -> Fatal
    [] T(types, 0).kind # "tensor" -> IF T(types, 0).kind = "incomplete" THEN Defer ELSE Fatal
    [] OTHER -> Solved(SameTensor(T(types, 1)))

\* Mutant: the second check reads types[2], the output.
Grid2StencilRelCheckingOutput(types) ==
  CASE Len(types) # 3 -> Fatal
    [] T(types, 0).kind # "tensor" -> IF T(types, 0).kind = "incomplete" THEN Defer ELSE Fatal
    [] T(types, 2).kind # "tensor" -> IF T(types, 2).kind = "incomplete" THEN Defer ELSE Fatal
    [] OTHER -> Solved(SameTensor(T(types, 1)))

\* Grid2StencilRel: types[0], then types[1] are checked, and the output
\* takes the shape and dtype of types[1].
Grid2StencilRel(types) ==
  CASE Len(types) # 3 -> Fatal
    [] T(types, 0).kind # "tensor" -> IF T(types, 0).kind = "incomplete" THEN Defer ELSE Fatal
    [] T(types, 1).kind # "tensor" -> IF T(types, 1).kind = "incomplete" THEN Defer ELSE Fatal
    [] OTHER -> Solved(SameTensor(T(types, 1)))

\* The loop of Grid3..6StencilRel: the first i with types[i] not a tensor
\* ends the relation, with ICHECK(types[0].as<IncompleteTypeNode>()): it
\* defers when types[0] is incomplete and aborts otherwise.  The output
\* types[n] takes the shape and dtype of types[0].
GridNStencilRel(types, n) ==
  LET bad == {i \in 0 .. n - 1 : T(types, i).kind # "tensor"}
  IN CASE Len(types) # n + 1 -> Fatal
       [] bad = {} -> Solved(SameTensor(T(types, 0)))
       [] T(types, 0).kind = "incomplete" -> Defer
       [] OTHER -> Fatal

Grid3StencilRel(types) == GridNStencilRel(types, 3)
Grid4StencilRel(types) == GridNStencilRel(types, 4)
Grid5StencilRel(types) == GridNStencilRel(types, 5)
Grid6StencilRel(types) == GridNStencilRel(types, 6)

\* Mutant: no input check, and types[0] itself put in the tuple.
Grid2MOStencilRelUnchecked(types, attrs) ==
  IF Len(types) # 3 THEN Fatal
  ELSE Solved(TupleType([k \in 1 .. attrs.output_num |-> T(types, 0)]))

\* Grid2MOStencilRel: attrs.as<Grid2MOStencilAttrs>() must not be null;
\* each of types[0], types[1] must be a tensor or incomplete
\* (ICHECK(types[i]...)); the output is a tuple of param->output_num
\* copies of types[0]'s tensor type (empty when output_num <= 0).
Grid2MOStencilRel(types, attrs) ==
  LET bad == {i \in 0 .. 1 : T(types, i).kind # "tensor"}
      first == CHOOSE i \in bad : \A j \in bad : i <= j
  IN CASE attrs.type # "Grid2MOStencilAttrs" -> Fatal
       [] Len(types) # 3 -> Fatal
       [] bad = {} ->
            Solved(TupleType([k \in 1 .. attrs.output_num |-> SameTensor(T(types, 0))]))
       [] T(types, first).kind = "incomplete" -> Defer
       [] OTHER -> Fatal

\* The attribute nodes of include/tvm/relay/attrs/stencil.h, as the Make*
\* functions allocate them (make_object<...Attrs>()): a node is its type,
\* and Grid2MOStencilAttrs also its output_num.  The tag, regular,
\* use_weight, accumulate and placeholder fields are read by no relation.
Star2D2RAttrs == [type |-> "Star2D2RAttrs"]
Star1D4RAttrs == [type |-> "Star1D4RAttrs"]
Grid1StencilAttrs == [type |-> "Grid1StencilAttrs"]
Grid2StencilAttrs == [type |-> "Grid2StencilAttrs"]
Grid3StencilAttrs == [type |-> "Grid3StencilAttrs"]
Grid4StencilAttrs == [type |-> "Grid4StencilAttrs"]
Grid5StencilAttrs == [type |-> "Grid5StencilAttrs"]
Grid6StencilAttrs == [type |-> "Grid6StencilAttrs"]
Grid2MOStencilAttrs(output_num) == [type |-> "Grid2MOStencilAttrs", output_num |-> output_num]

\* Call(op, args, Attrs(attrs), {}): the arguments are type variables.
Call(op, args, attrs) == [op |-> op, args |-> args, attrs |-> attrs]

MakeStar2d2r(data, weight) == Call("stencil.star2d2r", <<data, weight>>, Star2D2RAttrs)
MakeStar1d4r(data, weight) == Call("stencil.star1d4r", <<data, weight>>, Star1D4RAttrs)
MakeGrid1Stencil(g1) == Call("stencil.grid1stencil", <<g1>>, Grid1StencilAttrs)
MakeGrid2Stencil(g1, g2) == Call("stencil.grid2stencil", <<g1, g2>>, Grid2StencilAttrs)
MakeGrid3Stencil(g1, g2, g3) ==
  Call("stencil.grid3stencil", <<g1, g2, g3>>, Grid3StencilAttrs)
MakeGrid4Stencil(g1, g2, g3, g4) ==
  Call("stencil.grid4stencil", <<g1, g2, g3, g4>>, Grid4StencilAttrs)
MakeGrid5Stencil(g1, g2, g3, g4, g5) ==
  Call("stencil.grid5stencil", <<g1, g2, g3, g4, g5>>, Grid5StencilAttrs)
MakeGrid6Stencil(g1, g2, g3, g4, g5, g6) ==
  Call("stencil.grid6stencil", <<g1, g2, g3, g4, g5, g6>>, Grid6StencilAttrs)
MakeGrid2MOStencil(g1, g2, output_num) ==
  Call("stencil.grid2mostencil", <<g1, g2>>, Grid2MOStencilAttrs(output_num))

\* add_type_rel: the relation registered for a call's operator, applied to
\* the argument types followed by the output type.
Relation(call, types) ==
  CASE call.op = "stencil.star2d2r" -> Star2D2RRel(types)
    [] call.op = "stencil.star1d4r" -> Star1D4RRel(types)
    [] call.op = "stencil.grid1stencil" -> Grid1StencilRel(types)
    [] call.op = "stencil.grid2stencil" -> Grid2StencilRel(types)
    [] call.op = "stencil.grid3stencil" -> Grid3StencilRel(types)
    [] call.op = "stencil.grid4stencil" -> Grid4StencilRel(types)
    [] call.op = "stencil.grid5stencil" -> Grid5StencilRel(types)
    [] call.op = "stencil.grid6stencil" -> Grid6StencilRel(types)
    [] call.op = "stencil.grid2mostencil" -> Grid2MOStencilRel(types, call.attrs)
=============================================================================
