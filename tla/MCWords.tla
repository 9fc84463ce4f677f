------------------------------- MODULE MCWords -------------------------------
(***************************************************************************)
(* What the instances of the built-in rules share: leaves, signatures, and *)
(* the words of W bits that an expression over i32 denotes.                *)
(***************************************************************************)
EXTENDS Rules

McOperationKeys == [i \in DOMAIN BuiltinOperations |-> BuiltinOperations[i].key]
McKeySet == ToSet(McOperationKeys)
McOperations == {<<"operation", key, {}>> : key \in McKeySet}
McLeaves == {<<"constant", FALSE, <<w>>>> : w \in Words}
              \cup {<<"symbol", s, v>> : s \in 1..2, v \in Words \cup -2..-1}
McMerges == {<<"merge">>}
McTypes == {Type(c, 0) : c \in Categories}
McCode(attributes) == 0
McSignature(op, types, type) ==
  IF op[1] = "operation" THEN ValidApplication(Entry(op[2]), types, type)
  ELSE IF op[1] = "merge" THEN \A k \in DOMAIN types : types[k] = type
  ELSE types = <<>>

McLeaf(op, type) == [op |-> op, type |-> type, args |-> <<>>]
McLeafExprs(type, x, y, w) ==
  <<McLeaf(<<"symbol", 1, x>>, type), McLeaf(<<"symbol", 2, y>>, type)>>
    \o (IF type.category = "other" THEN <<McLeaf(<<"symbol", 1, x>>, type)>>
        ELSE <<McLeaf(<<"constant", FALSE, <<w>>>>, type)>>)
McLeafGraph(type, x, y, w) == FoldLeft(Build, <<>>, McLeafExprs(type, x, y, w))

-----------------------------------------------------------------------------
WordFamilies == {{"add", "multiply", "subtract", "maximum", "minimum", "square", "copy"},
                 {"bit_and", "bit_and_not", "bit_or", "bit_xor", "copy"}}
WordMeaning(op, vals) ==
  CASE op[1] = "constant" -> op[3][1]
    [] op[1] = "symbol"   -> Wrapped(op[3])
    [] op[1] = "operation" /\ op[2] \in UNION WordFamilies /\ AcceptsOperandCount(op[2], Len(vals)) ->
         EvaluateInteger(op[2], vals)
    [] OTHER -> 0
NoFloat(a, b) == 0
NoSqrt(a) == 0
=============================================================================
