------------------------------- MODULE Schema -------------------------------
(***************************************************************************)
(* The schema of a key (schema.rs): what the Rust server accepts as its    *)
(* value.  A node is a type, whether null will do, and the nodes of the    *)
(* declared fields; a compact node is one that is not nullable and         *)
(* declares no field.                                                      *)
(***************************************************************************)
EXTENDS Delta

NoSchema == [type |-> "none"]
SchemaNode(type, nullable, fields) ==
    [type |-> type, nullable |-> nullable, fields |-> fields]

\* An int is a Float as well.  A type of any other name accepts nothing.
TypeAccepts(type, v) ==
    \/ type = "Any"
    \/ type = "Array" /\ IsArr(v)
    \/ type = "Object" /\ IsObj(v)
    \/ /\ v.tag = "scalar"
       /\ \/ type = "String" /\ v.type = "string"
          \/ type = "Bool" /\ v.type = "bool"
          \/ type = "Int" /\ v.type = "int"
          \/ type = "Float" /\ v.type \in {"int", "float"}

\* Only an Object looks into the value: at the fields it declares, where one
\* that is missing is null.  Other fields may hold anything.
RECURSIVE ValidateNode(_, _)
ValidateNode(v, node) ==
    IF v = Null THEN node.nullable
    ELSE /\ TypeAccepts(node.type, v)
         /\ node.type = "Object" =>
               \A f \in DOMAIN node.fields : ValidateNode(Field(v, f), node.fields[f])

\* A key that is not in the registry takes any value.
Validate(v, schema) == schema # NoSchema => ValidateNode(v, schema)

-----------------------------------------------------------------------------
\* What is at these keys may go: it is not declared, or may be null.
RECURSIVE Optional(_, _)
Optional(node, keys) ==
    \/ node.nullable /\ keys = <<>>
    \/ /\ keys # <<>>
       /\ \/ node.type # "Object" \/ keys[1] \notin DOMAIN node.fields
          \/ Optional(node.fields[keys[1]], Rest(keys))
=============================================================================
