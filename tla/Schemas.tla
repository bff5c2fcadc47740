------------------------------ MODULE Schemas ------------------------------
(***************************************************************************)
(* The JSON schemas of the capabilities (protocol/_builtin_schemas.py) as  *)
(* terms, the values that travel in a call, and the router's validator     *)
(* (runtime/capability_router.py, _validate_value).                        *)
(*                                                                         *)
(* The same terms describe what a client sends, what a handler answers     *)
(* and what a client can read: a field that is not in "required" may be    *)
(* absent from the object.  A string is a value of its own only where a    *)
(* schema enumerates strings; numbers and booleans are known by their      *)
(* kind, which is all the validator looks at.                              *)
(***************************************************************************)
EXTENDS TLC

\* A text no schema enumerates.
Free == "(text)"

-----------------------------------------------------------------------------
(* Schema terms. *)

Str == [type |-> "string"]
Integer == [type |-> "integer"]
Number == [type |-> "number"]
Boolean == [type |-> "boolean"]
\* A schema without a type: {}.
Anything == [type |-> "any"]
OneOf(names) == [type |-> "string", enum |-> names]
Array(items) == [type |-> "array", items |-> items]
Texts == Array(Str)

\* _nullable: anyOf [schema, null], the only anyOf the schemas use.
Nullable(schema) == [type |-> "nullable", of |-> schema]
MaybeText == Nullable(Str)

MaybeInteger == Nullable(Integer)

\* _object_schema: the properties an object must have and those it may have.
\* It may hold others too, except where a pydantic model forbids them.
Object(required, optional) ==
  [type |-> "object", required |-> DOMAIN required,
   properties |-> required @@ optional, closed |-> FALSE]
NoFields == [name \in {} |-> Str]
All(required) == Object(required, NoFields)
Optional(optional) == Object(NoFields, optional)
\* {"type": "object"}, and an object schema without properties.
Dict == Object(NoFields, NoFields)
\* A pydantic model with extra="forbid".
Model(required, optional) == [Object(required, optional) EXCEPT !.closed = TRUE]
\* Properties that share a schema.
Each(names, schema) == [name \in names |-> schema]

-----------------------------------------------------------------------------
(* Values. *)

Null == [kind |-> "null"]
Text(name) == [kind |-> "string", text |-> name]
List(items) == [kind |-> "array", items |-> items]
Fields(fields) == [kind |-> "object", fields |-> fields]

\* _schema_allows_null: only what names null allows it, and {} does not.
AllowsNull(schema) == schema.type = "nullable"

\* _validate_value.
RECURSIVE Accepts(_, _)
Accepts(schema, value) ==
  CASE schema.type = "any" -> TRUE
    [] schema.type = "nullable" -> value = Null \/ Accepts(schema.of, value)
    [] schema.type = "string" ->
         /\ value.kind = "string"
         /\ "enum" \in DOMAIN schema => value.text \in schema.enum
    [] schema.type = "integer" -> value.kind = "integer"
    [] schema.type = "number" -> value.kind \in {"integer", "float"}
    [] schema.type = "boolean" -> value.kind = "boolean"
    [] schema.type = "array" ->
         /\ value.kind = "array"
         /\ \A item \in value.items : Accepts(schema.items, item)
    [] schema.type = "object" ->
         /\ value.kind = "object"
         /\ \A name \in schema.required :
              /\ name \in DOMAIN value.fields
              /\ value.fields[name] = Null => AllowsNull(schema.properties[name])
         /\ \A name \in DOMAIN value.fields \cap DOMAIN schema.properties :
              Accepts(schema.properties[name], value.fields[name])
         /\ schema.closed => DOMAIN value.fields \subseteq DOMAIN schema.properties

-----------------------------------------------------------------------------
(* The values that are tried for a term.  An object is tried with all its  *)
(* fields, with only those it must have, and with one field at a time      *)
(* absent or given each of its values: the validator looks at the fields   *)
(* one by one, so what two of them do together adds nothing.               *)

RECURSIVE Sample(_)
Sample(schema) ==
  CASE schema.type = "string" ->
         IF "enum" \in DOMAIN schema THEN Text(CHOOSE name \in schema.enum : TRUE)
         ELSE Text(Free)
    [] schema.type = "any" -> Text(Free)
    [] schema.type = "nullable" -> Sample(schema.of)
    [] schema.type = "array" -> List({Sample(schema.items)})
    [] schema.type = "object" ->
         Fields([name \in DOMAIN schema.properties |-> Sample(schema.properties[name])])
    [] OTHER -> [kind |-> IF schema.type = "number" THEN "float" ELSE schema.type]

Keep(fields, names) == [name \in DOMAIN fields \cap names |-> fields[name]]

RECURSIVE Values(_)
Values(schema) ==
  CASE schema.type = "string" /\ "enum" \in DOMAIN schema ->
         {Text(name) : name \in schema.enum}
    [] schema.type = "number" -> {[kind |-> "integer"], [kind |-> "float"]}
    [] schema.type = "any" -> {Null, Text(Free), List({}), Fields(<<>>)}
    [] schema.type = "nullable" -> {Null} \cup Values(schema.of)
    [] schema.type = "array" ->
         {List({})} \cup {List({item}) : item \in Values(schema.items)}
    [] schema.type = "object" ->
         LET whole == Sample(schema).fields
             given == DOMAIN whole IN
         {Fields(whole), Fields(Keep(whole, schema.required))}
           \cup {Fields(Keep(whole, given \ {name})) : name \in given \ schema.required}
           \cup UNION {{Fields([whole EXCEPT ![name] = value]) :
                          value \in Values(schema.properties[name])} : name \in given}
    [] OTHER -> {Sample(schema)}
=============================================================================
