-------------------------- MODULE StencilTypeSolver --------------------------
(***************************************************************************)
(* Relay type inference over a program of stencil calls.  The solver is  *)
(* TVM's (outside this repository) and is the environment here: it may    *)
(* invoke any relation that is still unresolved, and the types of free    *)
(* variables (unannotated parameters, values unified elsewhere) become    *)
(* known in any order.  The relations are those of StencilRel, i.e. of    *)
(* stencil.cc.  A relation that returns true is resolved and not called   *)
(* again; reporter->Assign unifies the output with the type the relation  *)
(* computed; a failed ICHECK or unification aborts inference.             *)
(***************************************************************************)
EXTENDS StencilRel, FiniteSets

CONSTANTS
  Calls,        \* call-site identifiers
  CallOf,       \* call site -> Call record (built with the Make* functions)
  OutVar,       \* call site -> the type variable of its result
  Vars,         \* type variables
  InitType,     \* type variable -> its annotation, or Incomplete
  ResolveSpace  \* types a free variable may be unified with

VARIABLES
  typ,      \* type variable -> its current type
  solved,   \* call sites whose relation returned true
  aborted   \* {c}: the relation of call site c aborted inference; else {}

vars == <<typ, solved, aborted>>

\* Variables no relation assigns and no annotation fixes.
FreeVars == {v \in Vars : InitType[v] = Incomplete /\ \A c \in Calls : OutVar[c] # v}

\* The Array<Type> passed to the relation: argument types, then the output.
ArgTypes(c) ==
  [i \in 1 .. Len(CallOf[c].args) |-> typ[CallOf[c].args[i]]] \o <<typ[OutVar[c]]>>

Running == aborted = {}

\* The rest of the program fixes the type of a free variable.
Resolve(v) ==
  /\ Running
  /\ typ[v] = Incomplete
  /\ \E t \in ResolveSpace : typ' = [typ EXCEPT ![v] = t]
  /\ UNCHANGED <<solved, aborted>>

\* The solver calls the relation of call site c; a relation that returns
\* false is a step that changes nothing and is left out.
Invoke(c) ==
  LET o == Relation(CallOf[c], ArgTypes(c))
      out == typ[OutVar[c]]
  IN /\ Running
     /\ c \notin solved
     /\ o.res # "defer"
     /\ CASE o.res = "fatal" ->
               aborted' = {c} /\ UNCHANGED <<typ, solved>>
          [] out = Incomplete \/ out = o.out ->
               /\ typ' = [typ EXCEPT ![OutVar[c]] = o.out]
               /\ solved' = solved \cup {c}
               /\ UNCHANGED aborted
          [] OTHER ->
               aborted' = {c} /\ UNCHANGED <<typ, solved>>

\* No relation can make progress and no free variable is left: the solver
\* returns (unresolved relations are then reported by the caller).
Settled ==
  /\ \A c \in Calls : ~ENABLED Invoke(c)
  /\ \A v \in FreeVars : ~ENABLED Resolve(v)
  /\ UNCHANGED vars

Init ==
  /\ typ = InitType
  /\ solved = {}
  /\ aborted = {}

Next ==
  \/ \E v \in FreeVars : Resolve(v)
  \/ \E c \in Calls : Invoke(c)
  \/ Settled

\* The solver runs every relation in its queue until none makes progress,
\* and each free variable is eventually unified by the rest of the program.
Spec ==
  /\ Init /\ [][Next]_vars
  /\ \A c \in Calls : WF_vars(Invoke(c))
  /\ \A v \in FreeVars : WF_vars(Resolve(v))

-----------------------------------------------------------------------------
(* Properties.                                                             *)

TypeOK ==
  /\ \A v \in Vars :
       /\ typ[v].kind \in {"incomplete", "tensor", "tuple"}
       /\ \A i \in DOMAIN typ[v].fields : typ[v].fields[i].kind = "tensor"
  /\ solved \subseteq Calls
  /\ aborted \subseteq Calls /\ Cardinality(aborted) <= 1

\* Order independence of the stencil relations: whatever order the solver
\* ran them in and the free variables were unified, every resolved call's
\* output still has exactly the type its relation computes from the
\* argument types as they are now.  A relation that assigns an output from
\* an argument it did not first require to be a tensor breaks this.
SolvedTypesConsistent ==
  \A c \in solved :
    LET o == Relation(CallOf[c], ArgTypes(c))
    IN o.res = "solved" /\ o.out = typ[OutVar[c]]

\* Inference ends: once the free variables are unified, every stencil
\* relation is eventually resolved unless inference aborted.  A relation
\* that keeps returning false on complete inputs breaks this.
InferenceTerminates == <>[](~Running \/ solved = Calls)

\* A stencil call aborts type inference only when one of its arguments has
\* a type that is not a tensor (and not merely not inferred yet), or its
\* output was annotated with another type: an argument that is still
\* incomplete makes the relation return false, as Relay relations must.
FatalOnlyOnIllTypedInput ==
  \A c \in aborted :
    \/ \E i \in 1 .. Len(CallOf[c].args) : typ[CallOf[c].args[i]].kind = "tuple"
    \/ Relation(CallOf[c], ArgTypes(c)).res = "solved"
=============================================================================
