--------------------------- MODULE GrappleServer ---------------------------
(***************************************************************************)
(* A document is scaffolded, and the files the printers derived from it    *)
(* meet in one process: graphql-core validates a request against the       *)
(* GraphQL definitions, the resolvers of grapple_types.py rename its       *)
(* arguments and call a member of a pent class by name, the member calls   *)
(* graphql_impl.py, which finds classes by name and stores objects and     *)
(* edges under the Kvetch definitions.                                     *)
(*                                                                         *)
(* A value is what Python type it has and which one it is.  Requests run   *)
(* one after the other here: what concurrent ones do to the store and the  *)
(* loader is in Kvetch and PentLoader.                                     *)
(***************************************************************************)
EXTENDS Grapple

CONSTANTS Documents,   \* the .graphql documents (as parsed by graphql-core)
          MaxObjects   \* bound on the objects ever created

ASSUME MaxObjectsAssumption == MaxObjects \in Nat \ {0}
ASSUME DocumentsAssumption == \A ast \in Documents : IsDocument(ast)

VARIABLES document,    \* the author's document
          stage,       \* "written", "rejected", "broken" or "serving"
          app,         \* the generated modules, once there are any
          objects,     \* id -> [cls, data]: kvetch_objects
          edges,       \* {<<edge name, from, to>>}: kvetch_edges
          sent,        \* history: id -> what clients sent, under GraphQL names
          answer       \* how the last request ended

vars == <<document, stage, app, objects, edges, sent, answer>>

Ids == 1..MaxObjects

\* A dictionary after the update by another.
Updated(d, by) ==
  [n \in DOMAIN d \cup DOMAIN by |-> IF n \in DOMAIN by THEN by[n] ELSE d[n]]

Uuid(id) == [py |-> "UUID", v |-> id]

----------------------------------------------------------------------------
(* The generated modules *)

\* What the developer writes by hand: the members of the custom fields.
CustomNames(fields) ==
  {python_name(fields[i]) : i \in {j \in DOMAIN fields : is_custom_impl(fields[j].varietal)}}

\* overwrite_generated_files
Generated(doc) ==
  [graphql |-> print_graphql_file(doc), autopents |-> print_autopents_file(doc),
   classes |-> print_generated_pents_file(doc), kvetch |-> print_kvetch_decls(doc),
   enums |-> Names(OfVarietal(doc, "ENUM")),
   hand |-> WithRoot(ByName(doc, pents(doc), LAMBDA t : CustomNames(t.fields)),
                     CustomNames(query_fields(doc) \o mutation_fields(doc)))]

\* None is no text, no number and no generated module.
ASSUME NoneAssumption ==
  /\ None \notin STRING \cup Primitives /\ None \notin Nat
  /\ \A ast \in Documents : Parses(ast) /\ Prints(parse_grapple(ast)) =>
       Generated(parse_grapple(ast)) # None

\* The names Python 3.6 refuses for a method, a parameter or a namedtuple's field;
\* a data class's first parameter is self.
Keywords == {Word(k) : k \in {"and", "as", "assert", "break", "class", "continue", "def", "del",
  "elif", "else", "except", "finally", "for", "from", "global", "if", "import", "in", "is",
  "lambda", "nonlocal", "not", "or", "pass", "raise", "return", "try", "while", "with", "yield"}}
Compiles(a) ==
  /\ \A cls \in DOMAIN a.classes : DOMAIN a.classes[cls] \cap Keywords = {}
  /\ \A cls \in DOMAIN a.autopents.datas :
       a.autopents.datas[cls].params \cap (Keywords \cup {Word("self")}) = {}
  /\ \A cls \in DOMAIN a.autopents.payloads : a.autopents.payloads[cls] \notin Keywords

\* graphql-core evaluates the fields of every type as it builds the schema:
\* each type's name must be one the module imports or defines.
KnownTypes(a) ==
  DOMAIN GraphQLImports \cup DOMAIN a.graphql.objects \cup DOMAIN a.graphql.inputs \cup a.enums
Builds(a) ==
  /\ Compiles(a)
  /\ "Query" \in DOMAIN a.graphql.objects
  /\ \A t \in DOMAIN a.graphql.objects : \A n \in DOMAIN a.graphql.objects[t] :
       LET f == a.graphql.objects[t][n]
       IN  {f.type.name} \cup {f.args[i].type.name : i \in DOMAIN f.args} \subseteq KnownTypes(a)
  /\ \A t \in DOMAIN a.graphql.inputs : \A n \in DOMAIN a.graphql.inputs[t] :
       a.graphql.inputs[t][n].name \in KnownTypes(a)

----------------------------------------------------------------------------
(* What a client can send: graphql-core lets only this through *)

\* An enum, or an input inside an input, is some value of another type.  0 is
\* the value that is false to Python: an empty string, False, 0, an empty list.
ScalarValues(type) ==
  IF type \notin DOMAIN GraphQLImports THEN {[py |-> "other", v |-> 1]}
  ELSE IF type \in {"UUID", "ID"} THEN {[py |-> GraphQLImports[type], v |-> id] : id \in Ids}
  ELSE IF type = "Date" THEN {[py |-> "datetime", v |-> 1]}
  ELSE {[py |-> GraphQLImports[type], v |-> v] : v \in {0, 1}}

\* What is in a list is left out.
Lists == {[py |-> "list", v |-> v] : v \in {0, 1}}
InputValues(ref) == IF IsList(ref) THEN Lists ELSE ScalarValues(ref.name)

\* Every choice of values for the names, the required ones given.
Given(names, needed, values(_)) ==
  UNION {{d \in [given -> UNION {values(n) : n \in given}] : \A n \in given : d[n] \in values(n)} :
           given \in {S \in SUBSET names : needed \subseteq S}}

InputData(type) ==
  LET fields == app.graphql.inputs[type]
  IN  Given(DOMAIN fields, {n \in DOMAIN fields : varietal(fields[n]) = "NONNULL"},
              LAMBDA n : InputValues(fields[n]))

ArgumentValues(ref) ==
  IF ~IsList(ref) /\ ref.name \in DOMAIN app.graphql.inputs
  THEN {[py |-> "dict", v |-> d] : d \in InputData(ref.name)}
  ELSE InputValues(ref)

\* An argument with a default always arrives.
Arguments(field) ==
  LET Arg(n) == get_required_arg(field, n)
      names == {field.args[i].name : i \in DOMAIN field.args}
  IN  Given(names,
              {n \in names : Arg(n).default # None \/ varietal(Arg(n).type) = "NONNULL"},
              LAMBDA n : ArgumentValues(Arg(n).type))

----------------------------------------------------------------------------
(* grapple_types.py: renaming, and calling by name *)

Renamed(d, From(_)) == [n \in {From(k) : k \in DOMAIN d} |-> d[CHOOSE k \in DOMAIN d : From(k) = n]]

\* The code recurses into dictionaries.  A request's are two deep: the arguments,
\* and the fields of an input.
pythonify_dict(d) ==
  LET data == Renamed(d, to_snake_case)
  IN  [n \in DOMAIN data |-> IF data[n].py = "dict"
                             THEN [data[n] EXCEPT !.v = Renamed(@, to_snake_case)]
                             ELSE data[n]]

\* A mutant: id is not renamed.
process_args_plain(args) == pythonify_dict(args)

process_args(args) == pythonify_dict(Renamed(args, LAMBDA n : IF n = Id THEN ObjId ELSE n))

Fits(callable, kwargs) == callable.needs \subseteq kwargs /\ kwargs \subseteq callable.params

\* cls_from_name and get_type_id find the classes a member names; a class of
\* another kind would fail where it is used, at the latest.
TakesData(m) == m.op \in {"CREATE_PENT", "UPDATE_PENT"}
PentClasses(m) == IF TakesData(m) \/ m.op = "DELETE_PENT" THEN {m.pent_cls}
                  ELSE IF m.op = "PROPERTY" THEN {} ELSE {m.cls}
FindsClasses(m) ==
  /\ PentClasses(m) \subseteq DOMAIN app.kvetch.objects
  /\ TakesData(m) => m.data_cls \in DOMAIN app.autopents.datas
  /\ TakesData(m) \/ m.op = "DELETE_PENT" => m.payload_cls \in DOMAIN app.autopents.payloads

\* A Root has no gen_associated_pents_dynamic or gen_from_stored_id_dynamic.
OnlyOnPents(m) == m.op \in {"EDGE_TO_STORED_ID", "GEN_FROM_STORED_ID"}

\* A generated class is a subclass of Pent (Root's of PentContextfulObject): a
\* member of its that has the name of one of theirs hides it.  These are the ones
\* that generated members go through; what a hand-written member hides is left to
\* its author.
Gen == Word("gen")
GenList == [w |-> <<"gen", "list">>, camel |-> FALSE]
GenBrowse == [w |-> <<"gen", "browse">>, camel |-> FALSE]
GenFromStoredId == [w |-> <<"gen", "from", "stored", "id", "dynamic">>, camel |-> FALSE]
Traversing == {Word("kvetch"), [w |-> <<"gen", "edges", "to">>, camel |-> FALSE],
               [w |-> <<"gen", "associated", "pents">>, camel |-> FALSE],
               [w |-> <<"gen", "associated", "pents", "dynamic">>, camel |-> FALSE]}
PentMembers == {Word("context"), Gen, GenList, GenBrowse, GenFromStoredId} \cup Traversing
GoesThrough(m) ==
  {Word("context")} \cup CASE m.op = "EDGE_TO_STORED_ID" -> Traversing
                           [] m.op = "GEN_FROM_STORED_ID" -> {GenFromStoredId}
                           [] OTHER -> {}
Hides(cls, members) ==
  cls \in DOMAIN app.classes /\ DOMAIN app.classes[cls] \cap members # {}

\* check.isinst(data, data_cls), before the other classes are looked up: only a
\* mutation resolver has made the data class of the client's dictionary.
IsInstance(m, resolver) == resolver.kind = "mutation" /\ resolver.data_cls = m.data_cls

BindMember(cls, resolver, kwargs) ==
  LET m == app.classes[cls][resolver.python_name]
  IN  IF m.op = "PROPERTY"
      THEN IF resolver.kind = "default" THEN "ok" ELSE "InvariantViolation"
      ELSE IF ~Fits(m, kwargs) THEN "TypeError"
      ELSE IF OnlyOnPents(m) /\ cls = "Root" THEN "AttributeError"
      ELSE IF Hides(cls, GoesThrough(m)) THEN "TypeError"
      ELSE IF TakesData(m) /\ m.data_cls \in DOMAIN app.autopents.datas /\ ~IsInstance(m, resolver)
      THEN "InvariantViolation"
      ELSE IF ~FindsClasses(m) THEN "KeyError"
      ELSE "ok"

\* How a resolver gets as far as the member's work: "ok", or what it raises.
Bind(cls, resolver, args) ==
  LET a == process_args(args)
  IN  IF resolver.kind = "mutation" /\ resolver.data_cls \notin DOMAIN app.autopents.datas
      THEN "KeyError"
      ELSE IF /\ resolver.kind = "mutation"
              /\ \/ a[Data].py # "dict"
                 \/ ~Fits(app.autopents.datas[resolver.data_cls], DOMAIN a[Data].v)
      THEN "TypeError"
      ELSE IF resolver.python_name \in app.hand[cls] THEN "ok"
      ELSE IF resolver.python_name \notin DOMAIN app.classes[cls] THEN "AttributeError"
      ELSE BindMember(cls, resolver, DOMAIN a)

----------------------------------------------------------------------------
(* Scaffolding, and requests *)

Init ==
  /\ document \in Documents
  /\ stage = "written"
  /\ app = None /\ objects = <<>> /\ edges = {} /\ sent = <<>> /\ answer = "ok"

\* All text is printed before any file is written: a document a printer
\* raises on leaves no generated files.
Reject ==
  /\ stage = "written"
  /\ ~(Parses(document) /\ Prints(parse_grapple(document)))
  /\ stage' = "rejected"
  /\ UNCHANGED <<document, app, objects, edges, sent, answer>>

\* A mutant: the server starts on files that are not there.
ScaffoldUnwritten ==
  /\ stage = "written"
  /\ stage' = "serving"
  /\ UNCHANGED <<document, app, objects, edges, sent, answer>>

Scaffold ==
  /\ stage = "written"
  /\ Parses(document) /\ Prints(parse_grapple(document))
  /\ app' = Generated(parse_grapple(document))
  /\ stage' = IF Builds(app') THEN "serving" ELSE "broken"
  /\ UNCHANGED <<document, objects, edges, sent, answer>>

RootFields ==
  UNION {{app.graphql.objects[t][n] : n \in DOMAIN app.graphql.objects[t]} :
           t \in {"Query", "Mutation"} \cap DOMAIN app.graphql.objects}
HandWritten(f) == f.resolver.python_name \in app.hand["Root"]
Member(f) == app.classes["Root"][f.resolver.python_name]
Runs(f, args, op) ==
  Bind("Root", f.resolver, args) = "ok" /\ ~HandWritten(f) /\ Member(f).op = op

Unbound(f, args) ==
  /\ Bind("Root", f.resolver, args) # "ok"
  /\ answer' = Bind("Root", f.resolver, args)
  /\ UNCHANGED <<objects, edges, sent>>

CustomMutation(f, args) ==
  /\ Bind("Root", f.resolver, args) = "ok" /\ HandWritten(f)
  /\ answer' = "ok"
  /\ UNCHANGED <<objects, edges, sent>>

\* Pent.gen with its class check; a missing object is null.  The loader hashes
\* the id, and Kvetch finds its shard by its number.
Loaded(id, cls) ==
  IF Hides(cls, {Gen}) \/ id.py \in {"list", "dict"} THEN "TypeError"
  ELSE IF id.py # "UUID" THEN "AttributeError"
  ELSE IF id.v \in DOMAIN objects /\ objects[id.v].cls # cls THEN "wrong class"
  ELSE "ok"

ReadPent(f, args) ==
  /\ Runs(f, args, "READ_PENT")
  /\ answer' = Loaded(process_args(args)[ObjId], Member(f).cls)
  /\ UNCHANGED <<objects, edges, sent>>

BrowsePents(f, args) ==
  /\ Runs(f, args, "BROWSE_PENTS")
  /\ answer' = IF Hides(Member(f).cls, {GenBrowse}) THEN "TypeError" ELSE "ok"
  /\ UNCHANGED <<objects, edges, sent>>

\* Kvetch.gen_insert_object under the generated definitions: the edge loop
\* raises on a type without a definition or a stored id that is no UUID, and
\* passes over one that is false.
DefinitionsOn(cls) ==
  {e \in app.kvetch.edges : /\ e.stored_on_type \in DOMAIN app.kvetch.objects
                            /\ app.kvetch.objects[e.stored_on_type] = app.kvetch.objects[cls]}
Stored(cls, data) ==
  {e \in DefinitionsOn(cls) : e.stored_id_attr \in DOMAIN data /\ data[e.stored_id_attr].v # 0}
InsertErrors(cls, data) ==
  {"KeyError" : e \in {d \in app.kvetch.edges : d.stored_on_type \notin DOMAIN app.kvetch.objects}}
  \cup {"AttributeError" : e \in {d \in Stored(cls, data) : data[d.stored_id_attr].py # "UUID"}}
NewEdges(cls, data, id) ==
  {<<e.edge_name, data[e.stored_id_attr].v, id>> :
     e \in {d \in Stored(cls, data) : data[d.stored_id_attr].py = "UUID"}}

\* The row stays when the loop raises, and so do the edges made before: which
\* they are depends on the order of the definitions, left out.  create_pent
\* loads what it has made.
CreatePent(f, args) ==
  LET data == process_args(args)[Data].v
      cls == Member(f).pent_cls
      id == Cardinality(DOMAIN sent) + 1
  IN  /\ Runs(f, args, "CREATE_PENT")
      /\ id \in Ids
      /\ objects' = Updated(objects, [o \in {id} |-> [cls |-> cls, data |-> data]])
      /\ sent' = Updated(sent, [o \in {id} |-> args[Data].v])
      /\ IF InsertErrors(cls, data) = {}
         THEN answer' = (IF Hides(cls, {Gen}) THEN "TypeError" ELSE "ok")
              /\ edges' = edges \cup NewEdges(cls, data, id)
         ELSE /\ answer' \in InsertErrors(cls, data)
              /\ \E made \in SUBSET NewEdges(cls, data, id) : edges' = edges \cup made

\* The object is written before its class is checked; an id nothing has is
\* passed over in silence by the in-memory shard.
UpdatePent(f, args) ==
  LET a == process_args(args)
      id == a[ObjId].v
  IN  /\ Runs(f, args, "UPDATE_PENT")
      /\ answer' = Loaded(a[ObjId], Member(f).pent_cls)
      /\ IF id \in DOMAIN objects
         THEN /\ objects' = [objects EXCEPT ![id].data = Updated(@, a[Data].v)]
              /\ sent' = [sent EXCEPT ![id] = Updated(@, args[Data].v)]
         ELSE UNCHANGED <<objects, sent>>
      /\ UNCHANGED edges

\* delete_pent does not look at the class it is given.
DeletePent(f, args) ==
  LET id == process_args(args)[ObjId].v
  IN  /\ Runs(f, args, "DELETE_PENT")
      /\ answer' = IF id \in DOMAIN objects THEN "ok" ELSE "missing"
      /\ objects' = [o \in DOMAIN objects \ {id} |-> objects[o]]
      /\ UNCHANGED <<edges, sent>>

Request ==
  /\ stage = "serving"
  /\ \E f \in RootFields : \E args \in Arguments(f) :
       \/ Unbound(f, args)
       \/ CustomMutation(f, args)
       \/ ReadPent(f, args)
       \/ BrowsePents(f, args)
       \/ CreatePent(f, args)
       \/ UpdatePent(f, args)
       \/ DeletePent(f, args)
  /\ UNCHANGED <<document, stage, app>>

Next == Reject \/ Scaffold \/ Request

Spec == Init /\ [][Next]_vars

----------------------------------------------------------------------------
(* What a client reads of an object *)

Row(o) == Updated([n \in {ObjId} |-> Uuid(o)], objects[o].data)

\* self._data[attr] or .get(attr), through typed_or_none; the first may raise.
Property(o, m) ==
  IF m.attr \notin DOMAIN Row(o) THEN IF m.required THEN [py |-> "KeyError", v |-> None] ELSE None
  ELSE IF m.typed /\ Row(o)[m.attr].py # m.py THEN None
  ELSE Row(o)[m.attr]

GraphQLType(o) == app.graphql.objects[objects[o].cls]
MemberOf(o, n) == app.classes[objects[o].cls][GraphQLType(o)[n].resolver.python_name]

\* gen_associated_pents, unpaged: the in-memory shard has no list of edges for an
\* id no edge was made from, and gen_list takes no missing or foreign object.
Targets(o, m) == {x[3] : x \in {y \in edges : y[1] = m.edge_name /\ y[2] = o}}
Raises(o, m) ==
  \/ Hides(m.cls, {GenList})
  \/ Targets(o, m) = {}
  \/ \E to \in Targets(o, m) : to \notin DOMAIN objects \/ objects[to].cls # m.cls

\* gen_from_stored_id_dynamic, as an id
StoredId(o, m) ==
  IF m.prop \in DOMAIN objects[o].data /\ objects[o].data[m.prop].v # 0
  THEN objects[o].data[m.prop].v ELSE None

----------------------------------------------------------------------------
(* What the printers leave to the author: nothing below is checked by the  *)
(* parser or the printers, and a document that breaks it is served all the *)
(* same.                                                                   *)

Distinct(seq) == \A i, j \in DOMAIN seq : seq[i] = seq[j] => i = j
PythonNames(fields) == [i \in DOMAIN fields |-> python_name(fields[i])]
ArgumentName(n) == IF n = Id THEN ObjId ELSE to_snake_case(n)
PentNames(doc) == Names(pents(doc))
root_fields(doc) == query_fields(doc) \o mutation_fields(doc)
Inputs(doc) == OfVarietal(doc, "INPUT")

\* No member hides one that the generated ones go through (obj_id is a row's key).
MembersApart(doc) ==
  /\ \A f \in Range(root_fields(doc)) : python_name(f) # Word("context")
  /\ \A t \in pents(doc) : \A f \in Range(t.fields) : python_name(f) \notin PentMembers

\* The keys Kvetch puts into every row.
RowKeys == {ObjId, [w |-> <<"type", "id">>, camel |-> FALSE], Word("updated")}

TypesApart(doc) ==
  /\ Distinct([i \in DOMAIN doc |-> doc[i].name])
  /\ Names(Range(doc)) \cap Primitives = {}
  /\ "Root" \notin PentNames(doc)
  /\ \A s, t \in pents(doc) : s.type_id = t.type_id => s = t
  /\ \A f, g \in PentEdgeFields(doc) :
       f.data.edgeName = g.data.edgeName \/ f.data.edgeId = g.data.edgeId =>
         define_edge_code(f) = define_edge_code(g)

FieldsApart(doc) ==
  /\ Distinct(PythonNames(root_fields(doc)))
  /\ \A t \in Range(doc) :
       /\ Distinct(PythonNames(t.fields)) /\ Distinct([i \in DOMAIN t.fields |-> t.fields[i].name])
       /\ \A f \in Range(t.fields) :
            Distinct([i \in DOMAIN f.args |-> ArgumentName(f.args[i].name)])
  /\ \A t \in pents(doc) \cup Inputs(doc) : \A f \in Range(t.fields) :
       f.name # Id => python_name(f) \notin RowKeys

\* An input field named id is known to its class as obj_id, and arrives as
\* id; an ID or a Float arrives as another type than the members expect.
PlainInputs(doc) ==
  \A t \in Inputs(doc) : \A f \in Range(t.fields) :
    f.name # Id /\ f.type_ref.name \in {"String", "Int", "Boolean", "UUID"}

\* The classes a member names have the directives that make them classes.
MemberWellFormed(doc, f) ==
  LET target == to_python_typename(f.type_ref.name)
      PayloadHolds(S) == /\ target \in Names(pent_payloads(doc)) /\ varietal(f.type_ref) = "NAMED"
                         /\ python_typename(Head(type_named_fields(doc, target)).type_ref) \in S
  IN  CASE f.varietal = "READ_PENT" ->
             /\ varietal(f.type_ref) = "NAMED" /\ target \in PentNames(doc)
             /\ Len(f.args) = 1 /\ check_required_id_arg(f)
        [] f.varietal \in {"BROWSE_PENTS", "EDGE_TO_STORED_ID", "GEN_FROM_STORED_ID"} ->
             target \in PentNames(doc)
        [] f.varietal \in {"CREATE_PENT", "UPDATE_PENT"} ->
             /\ PayloadHolds(PentNames(doc))
             /\ get_data_arg_in_pent(f) \in Names(pent_mutation_datas(doc))
        [] f.varietal = "DELETE_PENT" -> PayloadHolds({"UUID"}) /\ f.data.type \in PentNames(doc)
        [] f.varietal = "CUSTOM_MUTATION" ->
             get_data_arg_in_pent(f) \in Names(pent_mutation_datas(doc))
        [] OTHER -> TRUE

\* What a Root cannot do: it has no data and no id.
RootFieldWellFormed(doc, f) ==
  /\ MemberWellFormed(doc, f)
  /\ f.varietal \notin {"VANILLA", "EDGE_TO_STORED_ID", "GEN_FROM_STORED_ID"}

\* edgeToStoredId(field: ...) names the field that leads back, and what is
\* stored under it is an id.
EdgeWellFormed(doc, pent, f) ==
  /\ \E back \in Range(type_named_fields(doc, TargetOfMany(f.type_ref))) :
       /\ back.name = f.data.field /\ back.varietal = "GEN_FROM_STORED_ID"
       /\ back.type_ref.name = pent
  /\ \A t \in Inputs(doc) : \A h \in Range(t.fields) :
       python_name(h) = WithIdSuffix(f.data.field) =>
         h.type_ref.name = "UUID" /\ ~IsList(h.type_ref)

\* A required property is given with every create, and a property has one
\* type in all types that name it, a list or not.
Creates(doc, pent) ==
  {g \in UNION {Range(t.fields) : t \in object_types(doc)} :
     g.varietal = "CREATE_PENT" /\ get_mutation_classes(doc, g).pent_cls = pent}
PropertyWellFormed(doc, pent, f) ==
  /\ varietal(f.type_ref) = "NONNULL" =>
       \A g \in Creates(doc, pent) : \E h \in Range(type_named_fields(doc, get_data_arg_in_pent(g))) :
         h.name = f.name /\ varietal(h.type_ref) = "NONNULL"
  /\ \A t \in Inputs(doc) : \A h \in Range(t.fields) :
       python_name(h) = python_name(f) =>
         /\ h.name = f.name
         /\ h.type_ref.name = f.type_ref.name /\ (IsList(h.type_ref) <=> IsList(f.type_ref))

WellFormed(doc) ==
  /\ TypesApart(doc)
  /\ FieldsApart(doc)
  /\ MembersApart(doc)
  /\ PlainInputs(doc)
  /\ \A f \in Range(root_fields(doc)) : RootFieldWellFormed(doc, f)
  /\ \A t \in pents(doc) : \A f \in Range(t.fields) :
       /\ MemberWellFormed(doc, f)
       /\ f.varietal = "EDGE_TO_STORED_ID" => EdgeWellFormed(doc, t.name, f)
       /\ f.varietal = "VANILLA" /\ f.name # Id => PropertyWellFormed(doc, t.name, f)

\* An update does not touch edges (gen_update_object): no update takes an
\* attribute that an edge is stored by.
UpdatesKeepStoredIds(doc) ==
  \A g \in UNION {Range(t.fields) : t \in object_types(doc)} : g.varietal = "UPDATE_PENT" =>
    \A h \in Range(type_named_fields(doc, get_data_arg_in_pent(g))) :
      \A f \in PentEdgeFields(doc) : python_name(h) # WithIdSuffix(f.data.field)

Served == stage = "serving" /\ WellFormed(parse_grapple(document))

----------------------------------------------------------------------------
(* Properties *)

GrappleTypeOK ==
  /\ stage \in {"written", "rejected", "broken", "serving"}
  /\ stage \in {"written", "rejected"} <=> app = None
  /\ DOMAIN objects \subseteq DOMAIN sent /\ DOMAIN sent \subseteq Ids
  /\ edges \subseteq {<<e.edge_name, from, to>> :
                        e \in IF app = None THEN {} ELSE app.kvetch.edges, from \in Ids, to \in Ids}

\* Every request graphql-core lets through reaches the work of its member, and
\* so does every field of the objects it can select: no resolver raises for a
\* name, an argument or a class, whatever mix of conventions the document is
\* written in (grapple_types.py against the printers).
FieldsBind(cls) ==
  \A n \in DOMAIN app.graphql.objects[cls] :
    LET field == app.graphql.objects[cls][n]
    IN  \A args \in Arguments(field) : Bind(cls, field.resolver, args) = "ok"
RequestsBind ==
  Served => /\ answer \notin {"TypeError", "AttributeError", "KeyError", "InvariantViolation"}
            /\ \A o \in DOMAIN objects : FieldsBind(objects[o].cls)

\* What a client sent under a field's name is what it reads under that name,
\* and what it left out reads as null: through the argument renaming, the data
\* class, the stored row and the generated property.
IsStoredField(o, n) ==
  /\ n # Id
  /\ GraphQLType(o)[n].resolver.kind = "default"
  /\ GraphQLType(o)[n].resolver.python_name \notin app.hand[objects[o].cls]
ReadsBack ==
  Served => \A o \in DOMAIN objects : \A n \in DOMAIN GraphQLType(o) :
              IsStoredField(o, n) =>
                Property(o, MemberOf(o, n)) = IF n \in DOMAIN sent[o] THEN sent[o][n] ELSE None

\* An edge field and the field it names lead to each other, where updates leave
\* the stored id alone: the attribute the Kvetch definition stores the edge by,
\* the one the generated member reads and the one the data class wrote are the
\* same (kvetch_printer, pent_printer and grapple_types derive each on its own).
\* The edge field raises only where an object that led back has been deleted, or
\* where none leads back.
MemberNamed(cls, n) == app.classes[cls][app.graphql.objects[cls][n].resolver.python_name]
EdgesMirrorStoredIds ==
  Served /\ UpdatesKeepStoredIds(parse_grapple(document)) =>
    \A x \in DOMAIN objects : \A t \in pents(parse_grapple(document)) :
      t.name = objects[x].cls => \A f \in EdgeFields(t) :
        LET m == MemberNamed(t.name, f.name)
            back == MemberNamed(m.cls, f.data.field)
            leading == {o \in DOMAIN objects : objects[o].cls = m.cls /\ StoredId(o, back) = x}
        IN  IF Raises(x, m) THEN leading = {} \/ \E to \in Targets(x, m) : to \notin DOMAIN objects
            ELSE Targets(x, m) = leading

----------------------------------------------------------------------------
(* What makes the properties inductive                                     *)

\* The modules are there once they are written, and requests come after.
AppInv ==
  /\ document \in Documents
  /\ stage \in {"written", "rejected", "broken", "serving"}
  /\ IF stage \in {"written", "rejected"} THEN app = None
     ELSE /\ Parses(document) /\ Prints(parse_grapple(document))
          /\ app = Generated(parse_grapple(document))
  /\ stage # "serving" => objects = <<>> /\ edges = {} /\ sent = <<>> /\ answer = "ok"

\* Ids are given out in order, and none twice.
StoreInv ==
  /\ \E n \in 0..MaxObjects : DOMAIN sent = 1..n
  /\ DOMAIN objects \subseteq DOMAIN sent
  /\ \A o \in DOMAIN objects : DOMAIN objects[o] = {"cls", "data"}
  /\ \A x \in edges : \E e \in app.kvetch.edges, from \in Ids, to \in DOMAIN sent :
       x = <<e.edge_name, from, to>>

\* A property's attribute is stored exactly when its field was sent, with what
\* was sent, of the field's type; and a required one is always there.
ArrivesAs(ref) == IF IsList(ref) THEN "list" ELSE to_python_typename(ref.name)
Stores(f, data, given) ==
  /\ python_name(f) \in DOMAIN data <=> f.name \in DOMAIN given
  /\ f.name \in DOMAIN given => /\ data[python_name(f)] = given[f.name]
                                /\ given[f.name].py = ArrivesAs(f.type_ref)
StoredProperties(t) == {f \in Range(t.fields) : f.varietal = "VANILLA" /\ f.name # Id}
ObjectsInv ==
  Served => \A o \in DOMAIN objects : \E t \in pents(parse_grapple(document)) :
    /\ objects[o].cls = t.name
    /\ \A f \in StoredProperties(t) :
         /\ Stores(f, objects[o].data, sent[o])
         /\ varietal(f.type_ref) = "NONNULL" => f.name \in DOMAIN sent[o]

\* The edges to an object are those its data calls for.
EdgesInv ==
  Served /\ UpdatesKeepStoredIds(parse_grapple(document)) =>
    \A o \in DOMAIN objects : \A e \in app.kvetch.edges : \A x \in Ids :
      <<e.edge_name, x, o>> \in edges <=>
        /\ objects[o].cls = e.stored_on_type
        /\ e.stored_id_attr \in DOMAIN objects[o].data
        /\ objects[o].data[e.stored_id_attr].v = x

AnswerInv == Served => answer \notin {"TypeError", "AttributeError", "KeyError", "InvariantViolation"}

GrappleInv == AppInv /\ StoreInv /\ AnswerInv /\ ObjectsInv /\ EdgesInv
=============================================================================
