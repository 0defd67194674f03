------------------------ MODULE MC_StencilTypeSolver ------------------------
(* A program of every stencil operator over two free variables x, w and   *)
(* an annotated y, where results feed later calls and the star2d2r result *)
(* is annotated: grid3/4/5/6 take a result still being inferred next to a *)
(* free variable, grid2 and grid2mo take results of earlier calls.        *)
EXTENDS StencilTypeSolver

F4 == TensorType(<<4>>, "float32")
F8 == TensorType(<<8>>, "float32")

MCVars == {"x", "y", "w", "o1", "o2", "o3", "o4", "o5", "o6", "o7", "o8", "o9"}

MCCalls == 1 .. 9

MCCallOf ==
  <<MakeGrid1Stencil("x"),
    MakeGrid3Stencil("y", "o1", "x"),
    MakeGrid2Stencil("o2", "w"),
    MakeStar2d2r("o3", "w"),
    MakeGrid2MOStencil("o1", "y", 2),
    MakeStar1d4r("y", "o5"),
    MakeGrid4Stencil("y", "y", "y", "o6"),
    MakeGrid5Stencil("o7", "y", "y", "y", "y"),
    MakeGrid6Stencil("y", "y", "y", "y", "y", "w")>>

MCOutVar == <<"o1", "o2", "o3", "o4", "o5", "o6", "o7", "o8", "o9">>

MCInitType == [v \in MCVars |-> CASE v = "y" -> F4 [] v = "o4" -> F4 [] OTHER -> Incomplete]

MCResolveSpace == {F4, F8, TupleType(<<>>)}
=============================================================================
