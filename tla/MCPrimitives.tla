----------------------------- MODULE MCPrimitives -----------------------------
(***************************************************************************)
(* Small instance of Primitives: SmallIntegers of 3 bits in a C int of 6,  *)
(* one object of each kind.                                                *)
(***************************************************************************)
EXTENDS Primitives

MCIntegers == SmallInteger

MCMemories ==
  {[name \in {"aSet", "aString", "aBitmap", "anArray", "aStream"} |->
     CASE name = "aSet" -> [class |-> "Set", fields |-> <<Integer(1), Nil>>]
       [] name = "aString" -> [class |-> "String", fields |-> <<1>>]
       [] name = "aBitmap" -> [class |-> "Bitmap", fields |-> <<1>>]
       [] name = "anArray" -> [class |-> "Array", fields |-> <<Nil>>]
       [] name = "aStream" -> [class |-> "Stream",
            fields |-> <<Other(collection), Integer(0), Integer(1), Integer(2)>>]]:
     collection \in {"aString", "anArray"}}

(* Bounds: besides the stream one object has changed since the beginning,  *)
(* or one operand was left on the stack or lost from it.                   *)
FewChanges ==
  LET Changed(m) == {name \in DOMAIN m: memory[name] # m[name]}
  IN  /\ \E m \in MCMemories: Cardinality(Changed(m) \ {"aStream"}) <= 1
      /\ call = NoCall =>
           \/ stack = <<Nil>>
           \/ Len(stack) \in {0, 2} /\ \E m \in MCMemories: Changed(m) = {}
=============================================================================
