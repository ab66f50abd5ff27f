------------------------------ MODULE Grapple ------------------------------
(***************************************************************************)
(* What Grapple derives from a .graphql document: parser.py reads it, and  *)
(* four printers (graphql_printer, pent_printer twice, kvetch_printer) each *)
(* derive names from it on their own.  The files meet only at run time     *)
(* (GrappleServer).                                                        *)
(*                                                                         *)
(* A document is a sequence of type definitions, records                   *)
(*   [kind, name, dirs, fields]  kind "object", "input", "enum" or another *)
(* and a field (or an argument) is                                         *)
(*   [name, type, args, dirs, default].                                    *)
(* A directive set is a function from directive names to their arguments.  *)
(* A GraphQL or Python name is its words and whether capitals separate     *)
(* them: todoUser is [w |-> <<"todo", "user">>, camel |-> TRUE].  A type   *)
(* reference is its wrappers, outermost first, around a type's name.       *)
(* The text the printers lay the result out in is left out: a generated    *)
(* file is the function from names to what a reader of it finds there.     *)
(***************************************************************************)
EXTENDS Naturals, Sequences, FiniteSets, FiniteSetsExt, Functions

CONSTANT None   \* Python's None

Word(name) == [w |-> <<name>>, camel |-> FALSE]
Id == Word("id")
ObjId == [w |-> <<"obj", "id">>, camel |-> FALSE]
Data == Word("data")
First == Word("first")
After == Word("after")

\* What graphql-core's parser gives; an input's fields have no arguments.  Names
\* that begin with an underscore are left out.
GraphQLNames == [w : Seq(STRING), camel : BOOLEAN]
TypeRefs == [wrap : Seq({"NONNULL", "LIST"}), name : STRING]
IsField(f) ==
  /\ f.name \in GraphQLNames /\ f.type \in TypeRefs
  /\ f.args \in Seq(Range(f.args))
  /\ \A a \in Range(f.args) : a.name \in GraphQLNames /\ a.type \in TypeRefs
IsDocument(ast) ==
  /\ ast \in Seq(Range(ast))
  /\ \A t \in Range(ast) :
       /\ t.name \in STRING /\ t.fields \in Seq(Range(t.fields))
       /\ \A f \in Range(t.fields) : IsField(f)

----------------------------------------------------------------------------
(* utils.py: naming conventions *)

to_snake_case(name) == [name EXCEPT !.camel = FALSE]
is_camel_case(name) == name.camel
WithIdSuffix(name) == [to_snake_case(name) EXCEPT !.w = Append(@, "id")]

----------------------------------------------------------------------------
(* parser.py: type references *)

varietal(ref) == IF ref.wrap = <<>> THEN "NAMED" ELSE Head(ref.wrap)
inner_type(ref) == [ref EXCEPT !.wrap = Tail(@)]
graphql_typename(ref) == IF ref.wrap = <<>> THEN ref.name ELSE None

PythonScalars == [ID |-> "UUID", Int |-> "int", Float |-> "float", String |-> "str",
                  Boolean |-> "bool", DateTime |-> "datetime"]
to_python_typename(name) ==
  IF name \in DOMAIN PythonScalars THEN PythonScalars[name] ELSE name

python_typename(ref) == IF ref.wrap = <<>> THEN to_python_typename(ref.name) ELSE None
IsList(ref) == "LIST" \in Range(ref.wrap)

----------------------------------------------------------------------------
(* parser.py: fields *)

FIELD_VARIETAL_MAPPING ==
  << <<"custom", "CUSTOM">>, <<"customGen", "CUSTOM_GEN">>,
     <<"customMutation", "CUSTOM_MUTATION">>, <<"readPent", "READ_PENT">>,
     <<"createPent", "CREATE_PENT">>, <<"deletePent", "DELETE_PENT">>,
     <<"updatePent", "UPDATE_PENT">>, <<"browsePents", "BROWSE_PENTS">>,
     <<"genFromStoredId", "GEN_FROM_STORED_ID">>, <<"edgeToStoredId", "EDGE_TO_STORED_ID">> >>

\* The first directive of the mapping, in its order and not the field's.
get_field_varietal(f) ==
  LET hits == {i \in DOMAIN FIELD_VARIETAL_MAPPING :
                 FIELD_VARIETAL_MAPPING[i][1] \in DOMAIN f.dirs}
  IN  IF hits = {} THEN "VANILLA" ELSE FIELD_VARIETAL_MAPPING[Min(hits)][2]

is_gen_varietal(v) ==
  v \in {"CUSTOM_GEN", "READ_PENT", "CREATE_PENT", "DELETE_PENT", "CUSTOM_MUTATION",
         "UPDATE_PENT", "BROWSE_PENTS", "GEN_FROM_STORED_ID", "EDGE_TO_STORED_ID"}
is_mutation(v) == v \in {"CREATE_PENT", "CUSTOM_MUTATION", "UPDATE_PENT"}
is_custom_impl(v) == v \in {"CUSTOM", "CUSTOM_MUTATION", "CUSTOM_GEN"}

RequiredArguments(v) == CASE v = "EDGE_TO_STORED_ID" -> {"edgeName", "edgeId", "field"}
                          [] v = "DELETE_PENT" -> {"type"}
                          [] OTHER -> {}
DirectiveOf(f, v) ==
  LET i == CHOOSE i \in DOMAIN FIELD_VARIETAL_MAPPING : FIELD_VARIETAL_MAPPING[i][2] = v
  IN  f.dirs[FIELD_VARIETAL_MAPPING[i][1]]

get_field_varietal_data(f, v) ==
  IF RequiredArguments(v) = {} THEN None ELSE DirectiveOf(f, v)

construct_field(f, args, v, data) ==
  [name |-> f.name, type_ref |-> f.type, args |-> args, varietal |-> v, data |-> data]

create_grapple_field(f) ==
  LET v == get_field_varietal(f)
  IN  construct_field(f, f.args, v, get_field_varietal_data(f, v))

create_grapple_input_field(f) == construct_field(f, <<>>, "VANILLA", None)

python_name(field) ==
  IF field.name = Id
  THEN ObjId
  ELSE LET name == IF is_camel_case(field.name) THEN to_snake_case(field.name) ELSE field.name
       IN  IF is_gen_varietal(field.varietal) THEN [name EXCEPT !.w = <<"gen">> \o @] ELSE name

----------------------------------------------------------------------------
(* parser.py: types and the document *)

create_grapple_object_type(t) ==
  LET pent == "pent" \in DOMAIN t.dirs
  IN  [name |-> t.name, varietal |-> "OBJECT",
       fields |-> [i \in DOMAIN t.fields |-> create_grapple_field(t.fields[i])],
       type_id |-> IF pent THEN t.dirs["pent"].typeId ELSE None,
       is_pent |-> pent, is_pent_mutation_data |-> FALSE,
       is_pent_payload |-> "pentMutationPayload" \in DOMAIN t.dirs]

create_grapple_input_type(t) ==
  [name |-> t.name, varietal |-> "INPUT",
   fields |-> [i \in DOMAIN t.fields |-> create_grapple_input_field(t.fields[i])],
   type_id |-> None, is_pent |-> FALSE,
   is_pent_mutation_data |-> "pentMutationData" \in DOMAIN t.dirs, is_pent_payload |-> FALSE]

create_grapple_enum_type(t) ==
  [name |-> t.name, varietal |-> "ENUM", fields |-> <<>>, type_id |-> None, is_pent |-> FALSE,
   is_pent_mutation_data |-> FALSE, is_pent_payload |-> FALSE]

create_grapple_type_definition(t) ==
  CASE t.kind = "object" -> create_grapple_object_type(t)
    [] t.kind = "input" -> create_grapple_input_type(t)
    [] t.kind = "enum" -> create_grapple_enum_type(t)

\* What parse_grapple raises for: other kinds of definitions, a directive
\* without an argument it needs, a default that is no Int, String or Boolean.
ReadsField(f) ==
  /\ LET v == get_field_varietal(f)
     IN  RequiredArguments(v) # {} => RequiredArguments(v) \subseteq DOMAIN DirectiveOf(f, v)
  /\ \A k \in DOMAIN f.args : f.args[k].default \in {None, "Int", "String", "Boolean"}

ReadsType(t) ==
  /\ t.kind \in {"object", "input", "enum"}
  /\ t.kind = "object" =>
       /\ "pent" \in DOMAIN t.dirs => "typeId" \in DOMAIN t.dirs["pent"]
       /\ \A j \in DOMAIN t.fields : ReadsField(t.fields[j])

Parses(ast) == \A i \in DOMAIN ast : ReadsType(ast[i])

parse_grapple(ast) == [i \in DOMAIN ast |-> create_grapple_type_definition(ast[i])]

Names(types) == {t.name : t \in types}
OfVarietal(doc, v) == {t \in Range(doc) : t.varietal = v}
object_types(doc) == OfVarietal(doc, "OBJECT")
pents(doc) == {t \in object_types(doc) : t.is_pent}
pent_payloads(doc) == {t \in object_types(doc) : t.is_pent_payload}
pent_mutation_datas(doc) == {t \in OfVarietal(doc, "INPUT") : t.is_pent_mutation_data}

\* Of two types with one name the document gives the first.
Positions(doc, types, name) == {i \in DOMAIN doc : doc[i] \in types /\ doc[i].name = name}
FieldsNamed(doc, types, name) ==
  IF name \in Names(types) THEN doc[Min(Positions(doc, types, name))].fields ELSE <<>>
type_named_fields(doc, name) == FieldsNamed(doc, Range(doc), name)
query_fields(doc) == FieldsNamed(doc, object_types(doc), "Query")
mutation_fields(doc) == FieldsNamed(doc, object_types(doc), "Mutation")

----------------------------------------------------------------------------
(* pent_printer.py: arguments *)

HasArg(field, name) == \E i \in DOMAIN field.args : field.args[i].name = name
get_required_arg(field, name) ==
  field.args[CHOOSE i \in DOMAIN field.args : field.args[i].name = name]

check_required_id_arg(field) ==
  /\ HasArg(field, Id)
  /\ LET ref == get_required_arg(field, Id).type
     IN  varietal(ref) = "NONNULL" /\ graphql_typename(inner_type(ref)) = "UUID"

RequiredDataArg(field) ==
  HasArg(field, Data) /\ varietal(get_required_arg(field, Data).type) = "NONNULL"
get_data_arg_in_pent(field) == python_typename(inner_type(get_required_arg(field, Data).type))

ManyOf(ref) == ref.wrap = <<"NONNULL", "LIST", "NONNULL">>
TargetOfMany(ref) == to_python_typename(ref.name)

get_first_after_args(field) ==
  /\ Len(field.args) = 2
  /\ HasArg(field, First) /\ get_required_arg(field, First).default # None
  /\ HasArg(field, After) /\ graphql_typename(get_required_arg(field, After).type) = "UUID"
  /\ ManyOf(field.type_ref)

\* The payload's only field names the pent's class.
OneFieldPayload(doc, field) == Len(type_named_fields(doc, python_typename(field.type_ref))) = 1
get_mutation_classes(doc, field) ==
  LET payload == python_typename(field.type_ref)
  IN  [pent_cls |-> python_typename(Head(type_named_fields(doc, payload)).type_ref),
       data_cls |-> get_data_arg_in_pent(field), payload_cls |-> payload]

----------------------------------------------------------------------------
(* pent_printer.py: a method is what it does, with the parameters it takes *)
(* and those it cannot do without                                          *)

python_typing_string(ref) ==
  [list |-> IsList(ref), name |-> to_python_typename(ref.name)]
Primitives == {"UUID", "str", "bool", "int", "datetime", "float"}

PropertyOf(field, attr) ==
  LET typing == python_typing_string(field.type_ref)
  IN  [op |-> "PROPERTY", attr |-> attr, required |-> varietal(field.type_ref) = "NONNULL",
       typed |-> ~typing.list /\ typing.name \in Primitives, py |-> typing.name]

\* A mutant: the GraphQL name as the attribute.
print_vanilla_field_graphql(field) == PropertyOf(field, field.name)

print_vanilla_field(field) == PropertyOf(field, python_name(field))

print_read_pent_field(field) ==
  [op |-> "READ_PENT", params |-> {ObjId}, needs |-> {ObjId},
   cls |-> python_typename(field.type_ref)]

print_browse_pents_field(field) ==
  [op |-> "BROWSE_PENTS", params |-> {First, After}, needs |-> {},
   cls |-> TargetOfMany(field.type_ref)]

WritePent(op, takes, classes) ==
  [op |-> op, params |-> takes, needs |-> takes, pent_cls |-> classes.pent_cls,
   data_cls |-> classes.data_cls, payload_cls |-> classes.payload_cls]

print_create_pent_field(doc, field) ==
  WritePent("CREATE_PENT", {Data}, get_mutation_classes(doc, field))

print_update_pent_field(doc, field) ==
  WritePent("UPDATE_PENT", {ObjId, Data}, get_mutation_classes(doc, field))

print_delete_pent_field(field) ==
  [op |-> "DELETE_PENT", params |-> {ObjId}, needs |-> {ObjId},
   pent_cls |-> field.data.type, payload_cls |-> python_typename(field.type_ref)]

print_edge_to_stored_id_field(field) ==
  [op |-> "EDGE_TO_STORED_ID", params |-> {First, After}, needs |-> {},
   cls |-> TargetOfMany(field.type_ref), edge_name |-> field.data.edgeName]

print_gen_from_stored_id_field(field) ==
  [op |-> "GEN_FROM_STORED_ID", params |-> {}, needs |-> {},
   cls |-> python_typename(field.type_ref), prop |-> WithIdSuffix(field.name)]

\* What the printer of each kind of field raises for, when it does not hold.
PrintsField(doc, field) ==
  CASE field.varietal \in {"BROWSE_PENTS", "EDGE_TO_STORED_ID"} -> get_first_after_args(field)
    [] field.varietal = "CREATE_PENT" ->
         Len(field.args) = 1 /\ RequiredDataArg(field) /\ OneFieldPayload(doc, field)
    [] field.varietal = "UPDATE_PENT" ->
         /\ Len(field.args) = 2 /\ check_required_id_arg(field)
         /\ RequiredDataArg(field) /\ OneFieldPayload(doc, field)
    [] field.varietal = "DELETE_PENT" -> Len(field.args) = 1 /\ check_required_id_arg(field)
    [] field.varietal = "GEN_FROM_STORED_ID" ->
         field.args = <<>> /\ varietal(field.type_ref) = "NAMED"
    [] OTHER -> TRUE

print_field(doc, field) ==
  CASE field.varietal = "VANILLA" -> print_vanilla_field(field)
    [] field.varietal = "READ_PENT" -> print_read_pent_field(field)
    [] field.varietal = "CREATE_PENT" -> print_create_pent_field(doc, field)
    [] field.varietal = "DELETE_PENT" -> print_delete_pent_field(field)
    [] field.varietal = "UPDATE_PENT" -> print_update_pent_field(doc, field)
    [] field.varietal = "BROWSE_PENTS" -> print_browse_pents_field(field)
    [] field.varietal = "GEN_FROM_STORED_ID" -> print_gen_from_stored_id_field(field)
    [] field.varietal = "EDGE_TO_STORED_ID" -> print_edge_to_stored_id_field(field)

\* A class body: of two members with one name Python keeps the last.  The
\* fields left to the hand-written subclass are not printed.
print_generated_fields(doc, fields) ==
  LET printed == {i \in DOMAIN fields : ~is_custom_impl(fields[i].varietal)}
      Latest(name) == fields[Max({i \in printed : python_name(fields[i]) = name})]
  IN  [name \in {python_name(fields[i]) : i \in printed} |-> print_field(doc, Latest(name))]

----------------------------------------------------------------------------
(* pent_printer.py: the files *)

\* Python keeps the last of two definitions with one name.
ByName(doc, types, f(_)) ==
  [name \in Names(types) |-> f(doc[Max(Positions(doc, types, name))])]
WithRoot(classes, root) ==
  [cls \in DOMAIN classes \cup {"Root"} |-> IF cls \in DOMAIN classes THEN classes[cls] ELSE root]

print_generated_root_class(doc) ==
  print_generated_fields(doc, query_fields(doc) \o mutation_fields(doc))

print_generated_pent(doc, t) == print_generated_fields(doc, t.fields)

print_generated_pents_file(doc) ==
  WithRoot(ByName(doc, pents(doc), LAMBDA t : print_generated_pent(doc, t)),
           print_generated_root_class(doc))

\* The keyword arguments of a data class; the required ones have no default.
\* (Its data, locals(), also holds Python's own __class__, which nothing reads.)
print_generated_pent_mutation_data(t) ==
  [params |-> {python_name(t.fields[i]) : i \in DOMAIN t.fields},
   needs |-> {python_name(t.fields[i]) :
                i \in {j \in DOMAIN t.fields : varietal(t.fields[j].type_ref) = "NONNULL"}}]

print_generated_pent_payload(t) == python_name(Head(t.fields))

print_autopents_file(doc) ==
  [datas |-> ByName(doc, pent_mutation_datas(doc), print_generated_pent_mutation_data),
   payloads |-> ByName(doc, pent_payloads(doc), print_generated_pent_payload)]

PrintsPents(doc) ==
  /\ \A t \in pent_payloads(doc) : Len(t.fields) = 1
  /\ \A fields \in {t.fields : t \in pents(doc)} \cup {query_fields(doc), mutation_fields(doc)} :
       \A i \in DOMAIN fields : PrintsField(doc, fields[i])

----------------------------------------------------------------------------
(* kvetch_printer.py *)

\* A mutant: the stored id's attribute without the change of convention.
define_edge_code_graphql(field) ==
  [edge_name |-> field.data.edgeName, edge_id |-> field.data.edgeId,
   stored_id_attr |-> [field.data.field EXCEPT !.w = Append(@, "id")],
   stored_on_type |-> TargetOfMany(field.type_ref)]

define_edge_code(field) ==
  [edge_name |-> field.data.edgeName, edge_id |-> field.data.edgeId,
   stored_id_attr |-> WithIdSuffix(field.data.field),
   stored_on_type |-> TargetOfMany(field.type_ref)]

EdgeFields(t) == {f \in Range(t.fields) : f.varietal = "EDGE_TO_STORED_ID"}
PentEdgeFields(doc) == UNION {EdgeFields(t) : t \in pents(doc)}

\* Of two edge definitions with one name Kvetch's dictionary keeps the last, in
\* the order of the pents and of their fields.
EdgeNames(doc) == {field.data.edgeName : field \in PentEdgeFields(doc)}
NamedEdgeFields(t, name) == {f \in EdgeFields(t) : f.data.edgeName = name}
LastEdgeField(doc, name) ==
  LET fields == doc[Max({i \in DOMAIN doc :
                           doc[i] \in pents(doc) /\ NamedEdgeFields(doc[i], name) # {}})].fields
  IN  fields[Max({j \in DOMAIN fields : /\ fields[j].varietal = "EDGE_TO_STORED_ID"
                                        /\ fields[j].data.edgeName = name})]

print_kvetch_generated_edges(doc) ==
  {define_edge_code(LastEdgeField(doc, name)) : name \in EdgeNames(doc)}

print_kvetch_decls(doc) ==
  [objects |-> ByName(doc, pents(doc), LAMBDA t : t.type_id),
   edges |-> print_kvetch_generated_edges(doc)]

PrintsKvetch(doc) == \A field \in PentEdgeFields(doc) : ManyOf(field.type_ref)

----------------------------------------------------------------------------
(* graphql_printer.py: for each object type, from a field's GraphQL name   *)
(* to its arguments and its resolver; and the input types.                 *)

Resolver(field) ==
  IF is_mutation(field.varietal)
  THEN [kind |-> "mutation", python_name |-> python_name(field),
        data_cls |-> get_data_arg_in_pent(field)]
  ELSE [kind |-> IF is_gen_varietal(field.varietal) THEN "gen" ELSE "default",
        python_name |-> python_name(field)]

print_graphql_field(field) ==
  [type |-> field.type_ref, args |-> field.args, resolver |-> Resolver(field)]

FieldsByName(fields, f(_)) ==
  [name \in {fields[i].name : i \in DOMAIN fields} |->
     f(fields[Max({i \in DOMAIN fields : fields[i].name = name})])]

print_graphql_object_type(t) == FieldsByName(t.fields, print_graphql_field)
print_graphql_input_type(t) == FieldsByName(t.fields, LAMBDA field : field.type_ref)

print_graphql_file(doc) ==
  [objects |-> ByName(doc, object_types(doc), print_graphql_object_type),
   inputs |-> ByName(doc, OfVarietal(doc, "INPUT"), print_graphql_input_type)]

PrintsGraphQL(doc) ==
  \A t \in object_types(doc) :
    \A field \in Range(t.fields) : is_mutation(field.varietal) => RequiredDataArg(field)

\* The names type_instantiation gives that the generated module imports, with
\* the Python type their values arrive in.
GraphQLImports == [String |-> "str", Int |-> "int", ID |-> "str", Boolean |-> "bool",
                   UUID |-> "UUID", Date |-> "datetime"]

Prints(doc) == PrintsGraphQL(doc) /\ PrintsPents(doc) /\ PrintsKvetch(doc)
=============================================================================
