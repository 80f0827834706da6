------------------------- MODULE MCVariableSchemaGen -------------------------
(* Instance of VariableSchemaGen: two packages, two groups, two variable   *)
(* names and schemas that exercise every recursive branch of the          *)
(* conversion and a positive and a negative fractional bound.            *)
EXTENDS VariableSchemaGen

Leaf == [type |-> "string", max |-> <<>>, min |-> <<>>, req |-> {},
         addl |-> <<>>, props |-> <<>>, items |-> <<>>]
IntS == [Leaf EXCEPT !.type = "integer", !.max = <<25>>, !.min = <<-15>>]
ArrS == [Leaf EXCEPT !.type = "array", !.items = <<Leaf>>]
MapS == [Leaf EXCEPT !.type = "object", !.addl = <<IntS>>]
ObjS == [Leaf EXCEPT !.type = "object", !.props = (1 :> IntS), !.req = {1}]

Top(props, req) == [Leaf EXCEPT !.type = "object", !.props = props, !.req = req]

MCTopSchemas ==
    { Top((1 :> ArrS) @@ (2 :> ObjS), {2}),
      Top(1 :> MapS, {1}),
      Top((1 :> Leaf) @@ (2 :> IntS), {}) }
=============================================================================
