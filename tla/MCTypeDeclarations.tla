-------------------------- MODULE MCTypeDeclarations --------------------------
(* Types over two structs. *)
EXTENDS DeclarationOrder, TLC

Names2 == Permutations(StructNames)
Of(wraps) == {TypeOf(wraps, n) : n \in StructNames}
Int32 == TypeOf(<<>>, "int")
Slice == TypeOf(<<"slice">>, "string")

FieldLists ==
  {<<>>, <<Int32>>} \cup {<<TypeOf(<<"array", "pointer">>, n)>> : n \in StructNames}
    \cup {<<Int32, t>> : t \in Of(<<>>) \cup Of(<<"array">>) \cup Of(<<"slice">>)}
VariableTypes == Of(<<>>) \cup Of(<<"array", "slice">>) \cup Of(<<"pointer">>)

Function(params, ret) == [name |-> "function", params |-> params, ret |-> ret]
Main(params, ret) == [name |-> "main", params |-> params, ret |-> ret]
FunctionPrototypes ==
  {Function(<<t>>, Int32) : t \in Of(<<>>) \cup Of(<<"slice">>) \cup Of(<<"slice", "pointer">>)}
    \cup {Function(<<>>, t) : t \in Of(<<"array">>)}
    \cup {Main(params, Int32) : params \in
            {<<>>, <<Int32>>, <<Slice>>, <<Int32, Int32>>, <<Int32, Slice, Slice>>,
             <<Int32, Slice, Int32>>, <<Int32, Slice, Slice, Slice>>}}
    \cup {Main(<<Int32, Slice>>, Slice), Main(<<Int32, TypeOf(<<"slice">>, "int")>>, Int32)}
===============================================================================
