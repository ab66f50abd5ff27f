------------------------- MODULE GrappleServerProofs -------------------------
(***************************************************************************)
(* Proofs about GrappleServer, for any documents: what requests reach,     *)
(* what clients read back and where edges lead.                            *)
(***************************************************************************)
EXTENDS GrappleServer, OrdersProofs

----------------------------------------------------------------------------
(* Names *)

(* to_snake_case gives a name without capitals, and leaves such a one alone. *)
LEMMA SnakeCase ==
  ASSUME NEW n \in GraphQLNames
  PROVE  /\ to_snake_case(n) \in GraphQLNames
         /\ to_snake_case(to_snake_case(n)) = to_snake_case(n)
         /\ ~n.camel => to_snake_case(n) = n
  BY DEF to_snake_case, GraphQLNames

(* The names the code spells out.                                          *)
LEMMA SpelledNames ==
  /\ to_snake_case(ObjId) = ObjId /\ to_snake_case(Data) = Data
  /\ to_snake_case(First) = First /\ to_snake_case(After) = After
  /\ Data # Id /\ First # Id /\ After # Id /\ First # After
<1>1. /\ to_snake_case(ObjId) = ObjId /\ to_snake_case(Data) = Data
      /\ to_snake_case(First) = First /\ to_snake_case(After) = After
  <2>1. ASSUME NEW w
        PROVE  to_snake_case([w |-> w, camel |-> FALSE]) = [w |-> w, camel |-> FALSE]
    <3> DEFINE n == [w |-> w, camel |-> FALSE]
    <3>1. n \in [w : {w}, camel : BOOLEAN] /\ ~n.camel
      OBVIOUS
    <3> HIDE DEF n
    <3>2. [n EXCEPT !.camel = FALSE] = n
      BY <3>1
    <3> QED BY <3>2 DEF to_snake_case, n
  <2> QED BY <2>1 DEF ObjId, Data, First, After, Word
<1>2. /\ Id.w[1] = "id" /\ Data.w[1] = "data" /\ First.w[1] = "first" /\ After.w[1] = "after"
  BY DEF Id, Data, First, After, Word
<1> QED BY <1>1, <1>2

(* A plain field's Python name is its name without capitals.               *)
LEMMA PlainPythonName ==
  ASSUME NEW f, f.name \in GraphQLNames, f.name # Id, f.varietal = "VANILLA"
  PROVE  python_name(f) = to_snake_case(f.name)
  BY SnakeCase DEF python_name, is_camel_case, is_gen_varietal

(* A type reference without wrappers is named, and only that is.           *)
LEMMA NamedRefs ==
  ASSUME NEW ref \in TypeRefs
  PROVE  /\ varietal(ref) = "NAMED" <=> ref.wrap = <<>>
         /\ varietal(ref) = "NONNULL" => inner_type(ref).name = ref.name
         /\ varietal(ref) = "NAMED" => python_typename(ref) = to_python_typename(ref.name)
<1>1. ref.wrap # <<>> => Head(ref.wrap) \in {"NONNULL", "LIST"}
  BY DEF TypeRefs
<1> QED BY <1>1 DEF varietal, inner_type, python_typename, TypeRefs

(* A required reference to a type by its name is no list.                  *)
LEMMA RequiredNames ==
  ASSUME NEW ref \in TypeRefs, varietal(ref) = "NONNULL", inner_type(ref).wrap = <<>>
  PROVE  ~IsList(ref)
<1>1. ref.wrap \in Seq({"NONNULL", "LIST"}) /\ ref.wrap # <<>>
  BY DEF TypeRefs, varietal
<1>2. Head(ref.wrap) = "NONNULL" /\ Tail(ref.wrap) = <<>>
  BY <1>1 DEF varietal, inner_type, TypeRefs
<1>3. Len(ref.wrap) = 1
  <2>1. Len(Tail(ref.wrap)) = Len(ref.wrap) - 1 /\ Len(ref.wrap) \in Nat
    BY <1>1
  <2>2. Len(Tail(ref.wrap)) = 0
    <3>1. Len(<<>>) = 0
      OBVIOUS
    <3> QED BY <1>2, <3>1, Zenon
  <2> QED BY <2>1, <2>2
<1>4. DOMAIN ref.wrap = {1} /\ ref.wrap[1] = "NONNULL"
  <2>1. DOMAIN ref.wrap = 1..1
    BY <1>1, <1>3
  <2>2. Head(ref.wrap) = ref.wrap[1]
    BY <1>1
  <2> QED BY <1>2, <2>1, <2>2
<1> QED BY <1>4 DEF IsList, Range

----------------------------------------------------------------------------
(* What parse_grapple gives *)

FieldVarietals ==
  {"VANILLA", "CUSTOM", "CUSTOM_GEN", "CUSTOM_MUTATION", "READ_PENT", "CREATE_PENT",
   "DELETE_PENT", "UPDATE_PENT", "BROWSE_PENTS", "GEN_FROM_STORED_ID", "EDGE_TO_STORED_ID"}

IsParsedField(f) ==
  /\ f.name \in GraphQLNames /\ f.type_ref \in TypeRefs /\ f.varietal \in FieldVarietals
  /\ f.args \in Seq(Range(f.args))
  /\ \A i \in DOMAIN f.args : f.args[i].name \in GraphQLNames /\ f.args[i].type \in TypeRefs

IsParsed(doc) ==
  /\ doc \in Seq(Range(doc))
  /\ \A t \in Range(doc) :
       /\ t.name \in STRING /\ t.fields \in Seq(Range(t.fields))
       /\ \A f \in Range(t.fields) : IsParsedField(f)
       /\ t.varietal = "INPUT" => \A f \in Range(t.fields) : f.varietal = "VANILLA"

(* Every field has one of the varietals, whatever directives it carries.   *)
LEMMA VarietalTyped ==
  ASSUME NEW f
  PROVE  get_field_varietal(f) \in FieldVarietals
<1> DEFINE hits == {i \in DOMAIN FIELD_VARIETAL_MAPPING :
                      FIELD_VARIETAL_MAPPING[i][1] \in DOMAIN f.dirs}
<1>1. DOMAIN FIELD_VARIETAL_MAPPING = 1 .. 10
  BY DEF FIELD_VARIETAL_MAPPING
<1>2. \A i \in 1 .. 10 : FIELD_VARIETAL_MAPPING[i][2] \in FieldVarietals
  BY DEF FIELD_VARIETAL_MAPPING, FieldVarietals
<1>3. CASE hits = {}
  BY <1>3 DEF get_field_varietal, FieldVarietals
<1>4. CASE hits # {}
  <2>1. hits \in SUBSET Nat
    BY <1>1
  <2>2. Min(hits) \in hits
    BY <1>4, <2>1, LeastNumber DEF Min
  <2> QED BY <1>1, <1>2, <1>4, <2>2 DEF get_field_varietal
<1> QED BY <1>3, <1>4

(* parse_grapple gives types whose fields are typed and have a varietal.   *)
LEMMA ParsedTypes ==
  ASSUME NEW ast, IsDocument(ast), Parses(ast)
  PROVE  IsParsed(parse_grapple(ast))
<1> DEFINE doc == parse_grapple(ast)
<1>1. /\ ast \in Seq(Range(ast)) /\ DOMAIN ast = 1 .. Len(ast) /\ Len(ast) \in Nat
      /\ \A i \in DOMAIN ast : ast[i] \in Range(ast)
  BY DEF IsDocument, Range
<1>2. /\ DOMAIN doc = DOMAIN ast
      /\ \A i \in DOMAIN ast : doc[i] = create_grapple_type_definition(ast[i])
  BY DEF parse_grapple
<1>3. doc \in Seq(Range(doc))
  <2>1. doc \in [1 .. Len(ast) -> Range(doc)]
    BY <1>1, <1>2 DEF Range, parse_grapple
  <2> QED BY <1>1, <2>1
<1>4. ASSUME NEW t \in Range(doc)
      PROVE  /\ t.name \in STRING /\ t.fields \in Seq(Range(t.fields))
             /\ \A f \in Range(t.fields) : IsParsedField(f)
             /\ t.varietal = "INPUT" => \A f \in Range(t.fields) : f.varietal = "VANILLA"
  <2>1. PICK i \in DOMAIN ast : t = create_grapple_type_definition(ast[i])
    BY <1>2 DEF Range
  <2> DEFINE a == ast[i]
  <2>2. /\ a.name \in STRING /\ a.fields \in Seq(Range(a.fields))
        /\ DOMAIN a.fields = 1 .. Len(a.fields) /\ Len(a.fields) \in Nat
        /\ \A j \in DOMAIN a.fields : a.fields[j] \in Range(a.fields) /\ IsField(a.fields[j])
    <3>1. /\ a.name \in STRING /\ a.fields \in Seq(Range(a.fields))
          /\ \A f \in Range(a.fields) : IsField(f)
      BY <1>1 DEF IsDocument
    <3>2. \A j \in DOMAIN a.fields : a.fields[j] \in Range(a.fields)
      BY DEF Range
    <3> QED BY <3>1, <3>2
  <2>3. a.kind \in {"object", "input", "enum"}
    <3>1. ReadsType(ast[i])
      BY DEF Parses
    <3> QED BY <3>1 DEF ReadsType
  <2> HIDE DEF a
  <2>4. ASSUME NEW b, NEW v \in FieldVarietals, NEW args, NEW data, IsField(b),
               args \in {b.args, <<>>}
        PROVE  IsParsedField(construct_field(b, args, v, data))
    <3>0. <<>> \in Seq(Range(<<>>)) /\ DOMAIN <<>> = {}
      OBVIOUS
    <3>1. \A k \in DOMAIN b.args : b.args[k] \in Range(b.args)
      BY DEF Range
    <3> QED BY <2>4, <3>0, <3>1 DEF IsParsedField, construct_field, IsField
  <2>5. CASE a.kind = "object"
    <3>1. t = create_grapple_object_type(a)
      BY <2>1, <2>5 DEF create_grapple_type_definition, a
    <3>2. /\ t.name = a.name /\ t.varietal = "OBJECT"
          /\ t.fields = [j \in DOMAIN a.fields |-> create_grapple_field(a.fields[j])]
      BY <3>1 DEF create_grapple_object_type
    <3>3. \A j \in DOMAIN a.fields : IsParsedField(create_grapple_field(a.fields[j]))
      BY <2>2, <2>4, VarietalTyped DEF create_grapple_field
    <3>4. t.fields \in [1 .. Len(a.fields) -> Range(t.fields)]
      BY <2>2, <3>2 DEF Range
    <3> QED BY <2>2, <3>2, <3>3, <3>4 DEF Range
  <2>6. CASE a.kind = "input"
    <3>1. t = create_grapple_input_type(a)
      BY <2>1, <2>6 DEF create_grapple_type_definition, a
    <3>2. /\ t.name = a.name
          /\ t.fields = [j \in DOMAIN a.fields |-> create_grapple_input_field(a.fields[j])]
      BY <3>1 DEF create_grapple_input_type
    <3>3. \A j \in DOMAIN a.fields : /\ IsParsedField(create_grapple_input_field(a.fields[j]))
                                     /\ create_grapple_input_field(a.fields[j]).varietal = "VANILLA"
      <4>1. "VANILLA" \in FieldVarietals
        BY DEF FieldVarietals
      <4> QED BY <2>2, <2>4, <4>1 DEF create_grapple_input_field, construct_field
    <3>4. t.fields \in [1 .. Len(a.fields) -> Range(t.fields)]
      BY <2>2, <3>2 DEF Range
    <3> QED BY <2>2, <3>2, <3>3, <3>4 DEF Range
  <2>7. CASE a.kind = "enum"
    <3>1. t = create_grapple_enum_type(a)
      BY <2>1, <2>7 DEF create_grapple_type_definition, a
    <3>2. t.name = a.name /\ t.fields = <<>>
      BY <3>1 DEF create_grapple_enum_type
    <3>3. Range(t.fields) = {} /\ t.fields \in Seq(Range(t.fields))
      BY <3>2 DEF Range
    <3> QED BY <2>2, <3>2, <3>3
  <2> QED BY <2>3, <2>5, <2>6, <2>7
<1> QED BY <1>3, <1>4 DEF IsParsed

----------------------------------------------------------------------------
(* Finding a type or a field by its name *)

(* Where types have different names, a type's name leads to it.            *)
LEMMA TypeAt ==
  ASSUME NEW doc, IsParsed(doc), TypesApart(doc), NEW types \in SUBSET Range(doc), NEW t \in types
  PROVE  /\ t.name \in Names(types)
         /\ doc[Max(Positions(doc, types, t.name))] = t
         /\ doc[Min(Positions(doc, types, t.name))] = t
         /\ \A u \in types : u.name = t.name => u = t
<1>1. PICK i \in DOMAIN doc : doc[i] = t
  BY DEF Range
<1>2. DOMAIN doc \subseteq Nat
  BY DEF IsParsed
<1>3. \A j \in DOMAIN doc : doc[j].name = t.name => j = i
  BY <1>1 DEF TypesApart, Distinct
<1>4. Positions(doc, types, t.name) = {i}
  BY <1>1, <1>3 DEF Positions
<1>5. Max({i}) = i /\ Min({i}) = i
  BY <1>2 DEF Max, Min
<1>6. \A u \in types : u.name = t.name => u = t
  BY <1>1, <1>3 DEF Range
<1> QED BY <1>1, <1>4, <1>5, <1>6 DEF Names

(* The same for the fields of a type.                                      *)
LEMMA FieldAt ==
  ASSUME NEW fields, fields \in Seq(Range(fields)), NEW f \in Range(fields),
         Distinct([i \in DOMAIN fields |-> fields[i].name])
  PROVE  /\ fields[Max({i \in DOMAIN fields : fields[i].name = f.name})] = f
         /\ \A g \in Range(fields) : g.name = f.name => g = f
<1>1. PICK i \in DOMAIN fields : fields[i] = f
  BY DEF Range
<1>2. DOMAIN fields \subseteq Nat
  OBVIOUS
<1>3. \A j \in DOMAIN fields : fields[j].name = f.name => j = i
  BY <1>1 DEF Distinct
<1>4. {j \in DOMAIN fields : fields[j].name = f.name} = {i}
  BY <1>1, <1>3
<1>5. Max({i}) = i
  BY <1>2 DEF Max
<1> QED BY <1>1, <1>3, <1>4, <1>5 DEF Range

(* The same for the members of a generated class.                          *)
LEMMA MemberAt ==
  ASSUME NEW doc, NEW fields, fields \in Seq(Range(fields)), NEW f \in Range(fields),
         Distinct(PythonNames(fields)), ~is_custom_impl(f.varietal)
  PROVE  /\ python_name(f) \in DOMAIN print_generated_fields(doc, fields)
         /\ print_generated_fields(doc, fields)[python_name(f)] = print_field(doc, f)
<1>1. PICK i \in DOMAIN fields : fields[i] = f
  BY DEF Range
<1> DEFINE printed == {j \in DOMAIN fields : ~is_custom_impl(fields[j].varietal)}
<1>2. DOMAIN fields \subseteq Nat
  OBVIOUS
<1>3. \A j \in DOMAIN fields : python_name(fields[j]) = python_name(f) => j = i
  BY <1>1 DEF Distinct, PythonNames
<1>4. i \in printed
  BY <1>1
<1>5. {j \in printed : python_name(fields[j]) = python_name(f)} = {i}
  BY <1>1, <1>3, <1>4
<1>6. Max({i}) = i
  BY <1>2 DEF Max
<1> QED BY <1>1, <1>4, <1>5, <1>6 DEF print_generated_fields

(* The fields of two sequences are those of their concatenation.           *)
LEMMA ConcatRange ==
  ASSUME NEW s, NEW t, s \in Seq(Range(s)), t \in Seq(Range(t))
  PROVE  /\ Range(s \o t) = Range(s) \cup Range(t)
         /\ s \o t \in Seq(Range(s \o t))
<1> DEFINE S == Range(s) \cup Range(t)
<1>1. s \in Seq(S) /\ t \in Seq(S) /\ s \o t \in Seq(S)
  OBVIOUS
<1>2. \A i \in DOMAIN s : i \in DOMAIN (s \o t) /\ (s \o t)[i] = s[i]
  BY <1>1
<1>3. \A i \in DOMAIN t : Len(s) + i \in DOMAIN (s \o t) /\ (s \o t)[Len(s) + i] = t[i]
  BY <1>1
<1>4. \A i \in DOMAIN (s \o t) : (s \o t)[i] \in S
  BY <1>1
<1>5. Range(s \o t) = S
  <2>1. \A x \in Range(s \o t) : x \in S
    BY <1>4 DEF Range
  <2>2. \A x \in S : x \in Range(s \o t)
    BY <1>2, <1>3 DEF Range
  <2> QED BY <2>1, <2>2
<1> QED BY <1>1, <1>5

(* The fields of a type found by its name are the fields of a type.        *)
LEMMA FieldsNamedTyped ==
  ASSUME NEW doc, IsParsed(doc), NEW types \in SUBSET Range(doc), NEW name
  PROVE  LET fields == FieldsNamed(doc, types, name)
         IN  /\ fields \in Seq(Range(fields))
             /\ \A f \in Range(fields) : \E t \in types : f \in Range(t.fields)
<1>1. CASE name \in Names(types)
  <2>1. Positions(doc, types, name) # {}
    BY <1>1 DEF Names, Positions, Range
  <2>2. Positions(doc, types, name) \in SUBSET Nat
    BY DEF Positions, IsParsed
  <2>3. Min(Positions(doc, types, name)) \in Positions(doc, types, name)
    BY <2>1, <2>2, LeastNumber DEF Min
  <2>4. doc[Min(Positions(doc, types, name))] \in types
    BY <2>3 DEF Positions
  <2> QED BY <1>1, <2>4 DEF IsParsed, FieldsNamed
<1>2. CASE name \notin Names(types)
  <2>1. FieldsNamed(doc, types, name) = <<>>
    BY <1>2 DEF FieldsNamed
  <2>2. Range(<<>>) = {} /\ <<>> \in Seq(Range(<<>>))
    BY DEF Range
  <2> QED BY <2>1, <2>2
<1> QED BY <1>1, <1>2

(* Root's fields are fields of object types.                               *)
LEMMA RootFieldsTyped ==
  ASSUME NEW doc, IsParsed(doc)
  PROVE  /\ root_fields(doc) \in Seq(Range(root_fields(doc)))
         /\ Range(root_fields(doc)) = Range(query_fields(doc)) \cup Range(mutation_fields(doc))
         /\ \A f \in Range(root_fields(doc)) : \E t \in object_types(doc) : f \in Range(t.fields)
<1>1. object_types(doc) \in SUBSET Range(doc)
  BY DEF object_types, OfVarietal
<1>2. /\ query_fields(doc) \in Seq(Range(query_fields(doc)))
      /\ mutation_fields(doc) \in Seq(Range(mutation_fields(doc)))
      /\ \A f \in Range(query_fields(doc)) \cup Range(mutation_fields(doc)) :
           \E t \in object_types(doc) : f \in Range(t.fields)
  BY <1>1, FieldsNamedTyped DEF query_fields, mutation_fields
<1> QED BY <1>2, ConcatRange DEF root_fields

(* Where types have different names, Query's and Mutation's fields are     *)
(* those of the types of these names.                                      *)
LEMMA RootFieldsOf ==
  ASSUME NEW doc, IsParsed(doc), TypesApart(doc), NEW t \in object_types(doc)
  PROVE  /\ t.name = "Query" => query_fields(doc) = t.fields
         /\ t.name = "Mutation" => mutation_fields(doc) = t.fields
<1>1. object_types(doc) \in SUBSET Range(doc)
  BY DEF object_types, OfVarietal
<1> QED BY <1>1, TypeAt DEF query_fields, mutation_fields, FieldsNamed

----------------------------------------------------------------------------
(* Arguments *)

(* What pythonify_dict makes of one value.                                 *)
Pythonified(x) == IF x.py = "dict" THEN [x EXCEPT !.v = Renamed(@, to_snake_case)] ELSE x

(* A renamed dictionary has the renamed keys, each with a value it had     *)
(* under a key of that name.                                               *)
LEMMA DataRenamed ==
  ASSUME NEW d
  PROVE  /\ DOMAIN Renamed(d, to_snake_case) = {to_snake_case(k) : k \in DOMAIN d}
         /\ \A p \in DOMAIN Renamed(d, to_snake_case) : \E k \in DOMAIN d :
              to_snake_case(k) = p /\ Renamed(d, to_snake_case)[p] = d[k]
  BY DEF Renamed

(* process_args gives each argument under its Python name.                 *)
LEMMA ArgumentsProcessed ==
  ASSUME NEW args
  PROVE  LET a == process_args(args)
         IN  /\ DOMAIN a = {ArgumentName(k) : k \in DOMAIN args}
             /\ \A p \in DOMAIN a : \E k \in DOMAIN args :
                  ArgumentName(k) = p /\ a[p] = Pythonified(args[k])
<1> DEFINE ToObjId(n) == IF n = Id THEN ObjId ELSE n
           r == Renamed(args, ToObjId)
           s == Renamed(r, to_snake_case)
           a == process_args(args)
<1>1. /\ DOMAIN r = {ToObjId(k) : k \in DOMAIN args}
      /\ \A p \in DOMAIN r : \E k \in DOMAIN args : ToObjId(k) = p /\ r[p] = args[k]
  BY DEF Renamed
<1>2. /\ DOMAIN s = {to_snake_case(p) : p \in DOMAIN r}
      /\ \A p \in DOMAIN s : \E k \in DOMAIN r : to_snake_case(k) = p /\ s[p] = r[k]
  BY DataRenamed
<1>3. DOMAIN a = DOMAIN s /\ \A p \in DOMAIN s : a[p] = Pythonified(s[p])
  BY DEF process_args, pythonify_dict, Pythonified
<1> HIDE DEF r, s, a
<1>4. \A k : to_snake_case(ToObjId(k)) = ArgumentName(k)
  BY SpelledNames DEF ArgumentName
<1> HIDE DEF ToObjId
<1>5. DOMAIN a = {ArgumentName(k) : k \in DOMAIN args}
  BY <1>1, <1>2, <1>3, <1>4
<1>6. \A p \in DOMAIN a : \E k \in DOMAIN args :
        ArgumentName(k) = p /\ a[p] = Pythonified(args[k])
  <2> SUFFICES ASSUME NEW p \in DOMAIN a
               PROVE  \E k \in DOMAIN args : ArgumentName(k) = p /\ a[p] = Pythonified(args[k])
    OBVIOUS
  <2>1. PICK q \in DOMAIN r : to_snake_case(q) = p /\ s[p] = r[q]
    BY <1>2, <1>3
  <2>2. PICK k \in DOMAIN args : ToObjId(k) = q /\ r[q] = args[k]
    BY <1>1
  <2> QED BY <1>3, <1>4, <2>1, <2>2
<1> QED BY <1>5, <1>6 DEF a

(* A scalar is no dictionary, and a UUID is the id of an object.           *)
IsScalar(x) == x.py # "dict" /\ (x.py = "UUID" => x.v \in Ids)

(* The value a client sends for a scalar is one; a plain one arrives in the *)
(* Python type its members are printed with.                               *)
LEMMA ScalarsTyped ==
  ASSUME NEW type, NEW x \in ScalarValues(type)
  PROVE  /\ IsScalar(x)
         /\ type \in {"String", "Int", "Boolean", "UUID"} => x.py = to_python_typename(type)
<1>1. CASE type \notin DOMAIN GraphQLImports
  <2>1. x.py = "other"
    BY <1>1 DEF ScalarValues
  <2> QED BY <1>1, <2>1 DEF IsScalar, GraphQLImports
<1>2. CASE type \in DOMAIN GraphQLImports
  <2>1. type \in {"String", "Int", "ID", "Boolean", "UUID", "Date"}
    BY <1>2 DEF GraphQLImports
  <2>2. x.py = GraphQLImports[type]
    <3>1. CASE type \in {"UUID", "ID"}
      BY <1>2, <3>1 DEF ScalarValues
    <3>2. CASE type = "Date"
      BY <1>2, <3>2 DEF ScalarValues, GraphQLImports
    <3>3. CASE type \notin {"UUID", "ID", "Date"}
      BY <1>2, <3>3 DEF ScalarValues
    <3> QED BY <3>1, <3>2, <3>3
  <2>3. type \in {"UUID", "ID"} => x.v \in Ids
    BY <1>2 DEF ScalarValues
  <2>4. /\ GraphQLImports["String"] = "str" /\ GraphQLImports["Int"] = "int"
        /\ GraphQLImports["ID"] = "str" /\ GraphQLImports["Boolean"] = "bool"
        /\ GraphQLImports["UUID"] = "UUID" /\ GraphQLImports["Date"] = "datetime"
    BY DEF GraphQLImports
  <2>5. /\ to_python_typename("String") = "str" /\ to_python_typename("Int") = "int"
        /\ to_python_typename("Boolean") = "bool" /\ to_python_typename("UUID") = "UUID"
    BY DEF to_python_typename, PythonScalars
  <2> QED BY <2>1, <2>2, <2>3, <2>4, <2>5 DEF IsScalar
<1> QED BY <1>1, <1>2

(* So is the value for a field of an input, if it is no list.              *)
LEMMA InputValuesTyped ==
  ASSUME NEW ref, NEW x \in InputValues(ref)
  PROVE  /\ IsScalar(x)
         /\ ref.name \in {"String", "Int", "Boolean", "UUID"} => x.py = ArrivesAs(ref)
<1>1. CASE IsList(ref)
  <2>1. x.py = "list"
    BY <1>1 DEF InputValues, Lists
  <2> QED BY <1>1, <2>1 DEF IsScalar, ArrivesAs
<1>2. CASE ~IsList(ref)
  BY <1>2, ScalarsTyped DEF InputValues, ArrivesAs
<1> QED BY <1>1, <1>2

(* The values of an input's fields are scalars.                            *)
LEMMA InputDataTyped ==
  ASSUME NEW type, NEW d \in InputData(type)
  PROVE  /\ DOMAIN d \subseteq DOMAIN app.graphql.inputs[type]
         /\ \A n \in DOMAIN app.graphql.inputs[type] :
              varietal(app.graphql.inputs[type][n]) = "NONNULL" => n \in DOMAIN d
         /\ \A n \in DOMAIN d : d[n] \in InputValues(app.graphql.inputs[type][n])
         /\ \A n \in DOMAIN d : IsScalar(d[n])
<1>1. /\ DOMAIN d \subseteq DOMAIN app.graphql.inputs[type]
      /\ \A n \in DOMAIN app.graphql.inputs[type] :
           varietal(app.graphql.inputs[type][n]) = "NONNULL" => n \in DOMAIN d
      /\ \A n \in DOMAIN d : d[n] \in InputValues(app.graphql.inputs[type][n])
  BY DEF InputData, Given
<1> QED BY <1>1, InputValuesTyped

(* An argument is a scalar, or the dictionary of an input's fields.        *)
LEMMA ArgumentsTyped ==
  ASSUME NEW field, NEW args \in Arguments(field)
  PROVE  /\ DOMAIN args \subseteq {field.args[i].name : i \in DOMAIN field.args}
         /\ \A i \in DOMAIN field.args :
              varietal(get_required_arg(field, field.args[i].name).type) = "NONNULL" =>
                field.args[i].name \in DOMAIN args
         /\ \A n \in DOMAIN args :
              LET ref == get_required_arg(field, n).type
              IN  IF ~IsList(ref) /\ ref.name \in DOMAIN app.graphql.inputs
                  THEN \E d \in InputData(ref.name) : args[n] = [py |-> "dict", v |-> d]
                  ELSE args[n] \in InputValues(ref) /\ IsScalar(args[n])
<1> DEFINE Arg(n) == get_required_arg(field, n)
           names == {field.args[i].name : i \in DOMAIN field.args}
<1>1. /\ DOMAIN args \subseteq names
      /\ \A n \in names : varietal(Arg(n).type) = "NONNULL" => n \in DOMAIN args
      /\ \A n \in DOMAIN args : args[n] \in ArgumentValues(Arg(n).type)
  BY DEF Arguments, Given
<1>2. ASSUME NEW n \in DOMAIN args
      PROVE  LET ref == Arg(n).type
             IN  IF ~IsList(ref) /\ ref.name \in DOMAIN app.graphql.inputs
                 THEN \E d \in InputData(ref.name) : args[n] = [py |-> "dict", v |-> d]
                 ELSE args[n] \in InputValues(ref) /\ IsScalar(args[n])
  BY <1>1, InputValuesTyped DEF ArgumentValues
<1> QED BY <1>1, <1>2

(* The data a dictionary argument becomes has scalars for values.          *)
LEMMA DataTyped ==
  ASSUME NEW field, NEW args \in Arguments(field), NEW p \in DOMAIN process_args(args),
         process_args(args)[p].py = "dict"
  PROVE  \A k \in DOMAIN process_args(args)[p].v : IsScalar(process_args(args)[p].v[k])
<1>1. PICK n \in DOMAIN args : process_args(args)[p] = Pythonified(args[n])
  BY ArgumentsProcessed
<1>2. args[n].py = "dict"
  BY <1>1 DEF Pythonified
<1> DEFINE ref == get_required_arg(field, n).type
<1>3. IF ~IsList(ref) /\ ref.name \in DOMAIN app.graphql.inputs
      THEN \E d \in InputData(ref.name) : args[n] = [py |-> "dict", v |-> d]
      ELSE IsScalar(args[n])
  BY ArgumentsTyped
<1> HIDE DEF ref
<1>4. PICK d \in InputData(ref.name) : args[n] = [py |-> "dict", v |-> d]
  BY <1>2, <1>3 DEF IsScalar
<1>5. process_args(args)[p].v = Renamed(d, to_snake_case)
  BY <1>1, <1>4 DEF Pythonified
<1> DEFINE r == Renamed(d, to_snake_case)
<1>6. \A k \in DOMAIN r : \E q \in DOMAIN d : r[k] = d[q]
  BY DataRenamed
<1>7. \A q \in DOMAIN d : IsScalar(d[q])
  BY InputDataTyped
<1> HIDE DEF r
<1> QED BY <1>5, <1>6, <1>7 DEF r
----------------------------------------------------------------------------
(* The store, whatever the document *)

(* Every member of a generated class is a field's, and takes what it uses. *)
LEMMA MembersTake ==
  ASSUME NEW doc, IsParsed(doc), NEW cls \in DOMAIN print_generated_pents_file(doc),
         NEW n \in DOMAIN print_generated_pents_file(doc)[cls]
  PROVE  LET m == print_generated_pents_file(doc)[cls][n]
         IN  /\ m.op = "CREATE_PENT" => m.needs = {Data}
             /\ m.op = "UPDATE_PENT" => m.needs = {ObjId, Data}
<1>1. ASSUME NEW fields, fields \in Seq(Range(fields)),
             \A f \in Range(fields) : f.varietal \in FieldVarietals,
             NEW p \in DOMAIN print_generated_fields(doc, fields)
      PROVE  LET m == print_generated_fields(doc, fields)[p]
             IN  /\ m.op = "CREATE_PENT" => m.needs = {Data}
                 /\ m.op = "UPDATE_PENT" => m.needs = {ObjId, Data}
  <2> DEFINE printed == {i \in DOMAIN fields : ~is_custom_impl(fields[i].varietal)}
             here == {i \in printed : python_name(fields[i]) = p}
             f == fields[Max(here)]
             m == print_field(doc, f)
  <2>1. print_generated_fields(doc, fields)[p] = m
    BY DEF print_generated_fields
  <2>2. here # {}
    BY DEF print_generated_fields
  <2>3. here \in SUBSET (0 .. Len(fields)) /\ Len(fields) \in Nat
    BY <1>1
  <2>4. Max(here) \in here
    BY <2>2, <2>3, GreatestNumber DEF Max
  <2>5. f.varietal \in FieldVarietals /\ ~is_custom_impl(f.varietal)
    BY <1>1, <2>4 DEF Range
  <2> HIDE DEF f
  <2>6. f.varietal \in {"VANILLA", "READ_PENT", "CREATE_PENT", "DELETE_PENT", "UPDATE_PENT",
                        "BROWSE_PENTS", "GEN_FROM_STORED_ID", "EDGE_TO_STORED_ID"}
    BY <2>5 DEF FieldVarietals, is_custom_impl
  <2>7. CASE f.varietal = "CREATE_PENT"
    <3>1. m.op = "CREATE_PENT" /\ m.needs = {Data}
      BY <2>7 DEF print_field, print_create_pent_field, WritePent
    <3> HIDE DEF m
    <3> QED BY <2>1, <3>1
  <2>8. CASE f.varietal = "UPDATE_PENT"
    <3>1. m.op = "UPDATE_PENT" /\ m.needs = {ObjId, Data}
      <4>1. m = WritePent("UPDATE_PENT", {ObjId, Data}, get_mutation_classes(doc, f))
        BY <2>8 DEF print_field, print_update_pent_field
      <4> HIDE DEF m
      <4> QED BY <4>1 DEF WritePent
    <3> HIDE DEF m
    <3> QED BY <2>1, <3>1
  <2>9. CASE f.varietal \notin {"CREATE_PENT", "UPDATE_PENT"}
    <3>1. m.op \notin {"CREATE_PENT", "UPDATE_PENT"}
      BY <2>6, <2>9 DEF print_field, print_vanilla_field, PropertyOf, print_read_pent_field,
         print_delete_pent_field, print_browse_pents_field, print_gen_from_stored_id_field,
         print_edge_to_stored_id_field
    <3> HIDE DEF m
    <3> QED BY <2>1, <3>1
  <2> QED BY <2>1, <2>7, <2>8, <2>9
<1> DEFINE classes == ByName(doc, pents(doc), LAMBDA t : print_generated_pent(doc, t))
<1>2. CASE cls \in Names(pents(doc))
  <2>1. Positions(doc, pents(doc), cls) # {}
    BY <1>2 DEF Names, Positions, pents, object_types, OfVarietal, Range
  <2>2. Positions(doc, pents(doc), cls) \in SUBSET (0 .. Len(doc)) /\ Len(doc) \in Nat
    BY DEF Positions, IsParsed
  <2> DEFINE t == doc[Max(Positions(doc, pents(doc), cls))]
  <2>3. Max(Positions(doc, pents(doc), cls)) \in Positions(doc, pents(doc), cls)
    BY <2>1, <2>2, GreatestNumber DEF Max
  <2>4. t \in Range(doc)
    BY <2>3 DEF Positions, Range
  <2>5. print_generated_pents_file(doc)[cls] = print_generated_fields(doc, t.fields)
    BY <1>2 DEF print_generated_pents_file, WithRoot, ByName, print_generated_pent
  <2> QED BY <1>1, <2>4, <2>5 DEF IsParsed, IsParsedField
<1>3. CASE cls \notin Names(pents(doc))
  <2>1. print_generated_pents_file(doc)[cls] = print_generated_fields(doc, root_fields(doc))
    BY <1>3 DEF print_generated_pents_file, WithRoot, ByName, print_generated_root_class, root_fields
  <2>2. \A f \in Range(root_fields(doc)) : f.varietal \in FieldVarietals
    BY RootFieldsTyped DEF IsParsed, IsParsedField, object_types, OfVarietal
  <2> QED BY <1>1, <2>1, <2>2, RootFieldsTyped
<1> QED BY <1>2, <1>3

(* A create or an update that runs was given its arguments, and the data   *)
(* as a dictionary its class takes.                                        *)
LEMMA WritesTakeData ==
  ASSUME AppInv, stage = "serving", NEW f, NEW args \in Arguments(f),
         NEW op \in {"CREATE_PENT", "UPDATE_PENT"}, Runs(f, args, op)
  PROVE  LET a == process_args(args)
         IN  /\ Data \in DOMAIN a /\ a[Data].py = "dict"
             /\ op = "UPDATE_PENT" => ObjId \in DOMAIN a
             /\ f.resolver.kind = "mutation" /\ f.resolver.data_cls = Member(f).data_cls
             /\ f.resolver.data_cls \in DOMAIN app.autopents.datas
             /\ Member(f).pent_cls \in DOMAIN app.kvetch.objects
             /\ \A k \in DOMAIN a[Data].v : IsScalar(a[Data].v[k])
<1> DEFINE a == process_args(args)
           m == Member(f)
           doc == parse_grapple(document)
<1>1. IsParsed(doc) /\ app = Generated(doc)
  BY ParsedTypes, DocumentsAssumption DEF AppInv
<1>2. app.classes = print_generated_pents_file(doc) /\ "Root" \in DOMAIN app.classes
  BY <1>1 DEF Generated, print_generated_pents_file, WithRoot
<1>3. /\ f.resolver.python_name \in DOMAIN app.classes["Root"]
      /\ BindMember("Root", f.resolver, DOMAIN a) = "ok"
      /\ f.resolver.kind = "mutation" => a[Data].py = "dict"
  BY DEF Runs, HandWritten, Bind
<1>4. m.op = op
  BY DEF Runs
<1>5. Data \in m.needs /\ (op = "UPDATE_PENT" => ObjId \in m.needs)
  BY <1>1, <1>2, <1>3, <1>4, MembersTake DEF Member
<1>6. /\ Fits(m, DOMAIN a) /\ FindsClasses(m)
      /\ m.data_cls \in DOMAIN app.autopents.datas => IsInstance(m, f.resolver)
  BY <1>3, <1>4 DEF BindMember, Member, TakesData
<1>7. m.pent_cls \in DOMAIN app.kvetch.objects /\ m.data_cls \in DOMAIN app.autopents.datas
  BY <1>4, <1>6 DEF FindsClasses, PentClasses, TakesData
<1>8. Data \in DOMAIN a /\ (op = "UPDATE_PENT" => ObjId \in DOMAIN a)
  BY <1>5, <1>6 DEF Fits
<1>9. f.resolver.kind = "mutation" /\ f.resolver.data_cls = m.data_cls
  BY <1>6, <1>7 DEF IsInstance
<1>10. \A k \in DOMAIN a[Data].v : IsScalar(a[Data].v[k])
  BY <1>3, <1>8, <1>9, DataTyped
<1> QED BY <1>3, <1>7, <1>8, <1>9, <1>10

(* Updating a dictionary adds the other's keys.                            *)
LEMMA UpdatedDomain ==
  ASSUME NEW d, NEW by
  PROVE  /\ DOMAIN Updated(d, by) = DOMAIN d \cup DOMAIN by
         /\ \A k \in DOMAIN d \cup DOMAIN by :
              Updated(d, by)[k] = IF k \in DOMAIN by THEN by[k] ELSE d[k]
  BY DEF Updated

(* The first object a process makes has id 1, and each one the next.       *)
LEMMA FreshId ==
  ASSUME StoreInv
  PROVE  \E n \in 0 .. MaxObjects : DOMAIN sent = 1 .. n /\ Cardinality(DOMAIN sent) = n
<1>1. PICK n \in 0 .. MaxObjects : DOMAIN sent = 1 .. n
  BY DEF StoreInv
<1> QED BY <1>1, FirstNumbers, MaxObjectsAssumption

(* Every step keeps the modules what the printers made of the document.    *)
LEMMA AppSteps ==
  ASSUME AppInv, [Next]_vars
  PROVE  AppInv'
<1>1. CASE UNCHANGED vars
  BY <1>1 DEF vars, AppInv
<1>2. CASE Reject
  BY <1>2 DEF Reject, AppInv
<1>3. CASE Scaffold
  <2>1. /\ stage = "written" /\ stage' \in {"serving", "broken"}
        /\ Parses(document) /\ Prints(parse_grapple(document))
        /\ app' = Generated(parse_grapple(document))
        /\ UNCHANGED <<document, objects, edges, sent, answer>>
    BY <1>3 DEF Scaffold
  <2> QED BY <2>1 DEF AppInv
<1>4. CASE Request
  <2>1. stage = "serving" /\ UNCHANGED <<document, stage, app>>
    BY <1>4 DEF Request
  <2> QED BY <2>1 DEF AppInv
<1> QED BY <1>1, <1>2, <1>3, <1>4 DEF Next

(* Every step keeps the ids in order and the edges between ids that were   *)
(* given out, for well-formed documents and for others.                    *)
LEMMA StoreSteps ==
  ASSUME AppInv, StoreInv, [Next]_vars
  PROVE  StoreInv'
<1>1. CASE UNCHANGED vars \/ Reject
  BY <1>1 DEF vars, Reject, StoreInv
<1>2. CASE Scaffold
  <2>1. edges = {} /\ UNCHANGED <<objects, edges, sent>>
    BY <1>2 DEF Scaffold, AppInv
  <2> QED BY <2>1 DEF StoreInv
<1>3. CASE Request
  <2>1. stage = "serving" /\ app' = app
    BY <1>3 DEF Request
  <2>2. PICK f \in RootFields : \E args \in Arguments(f) :
          \/ Unbound(f, args) \/ CustomMutation(f, args)
          \/ ReadPent(f, args) \/ BrowsePents(f, args)
          \/ CreatePent(f, args) \/ UpdatePent(f, args) \/ DeletePent(f, args)
    BY <1>3 DEF Request
  <2>3. PICK args \in Arguments(f) :
          \/ Unbound(f, args) \/ CustomMutation(f, args)
          \/ ReadPent(f, args) \/ BrowsePents(f, args)
          \/ CreatePent(f, args) \/ UpdatePent(f, args) \/ DeletePent(f, args)
    BY <2>2
  <2>4. CASE \/ Unbound(f, args) \/ CustomMutation(f, args)
             \/ ReadPent(f, args) \/ BrowsePents(f, args)
    <3>1. UNCHANGED <<objects, edges, sent>>
      BY <2>4 DEF Unbound, CustomMutation, ReadPent, BrowsePents
    <3> QED BY <2>1, <3>1 DEF StoreInv
  <2>5. CASE CreatePent(f, args)
    <3> DEFINE data == process_args(args)[Data].v
               cls == Member(f).pent_cls
               id == Cardinality(DOMAIN sent) + 1
    <3>1. /\ Runs(f, args, "CREATE_PENT") /\ id \in Ids
          /\ objects' = Updated(objects, [o \in {id} |-> [cls |-> cls, data |-> data]])
          /\ sent' = Updated(sent, [o \in {id} |-> args[Data].v])
          /\ \E made \in SUBSET NewEdges(cls, data, id) : edges' = edges \cup made
      BY <2>5 DEF CreatePent
    <3>2. PICK n \in 0 .. MaxObjects : DOMAIN sent = 1 .. n /\ id = n + 1
      BY FreshId
    <3>3. \A k \in DOMAIN data : IsScalar(data[k])
      BY <2>1, <3>1, WritesTakeData
    <3> HIDE DEF data, cls, id
    <3>4. DOMAIN sent' = 1 .. n + 1 /\ n + 1 \in 0 .. MaxObjects
      <4>1. DOMAIN sent' = DOMAIN sent \cup {id}
        BY <3>1, UpdatedDomain
      <4>2. n \in Nat /\ n + 1 \in 0 .. MaxObjects
        BY <3>1, <3>2, MaxObjectsAssumption DEF Ids
      <4>3. (1 .. n) \cup {n + 1} = 1 .. n + 1
        BY <4>2
      <4> QED BY <3>2, <4>1, <4>2, <4>3
    <3>5. /\ DOMAIN objects' = DOMAIN objects \cup {id}
          /\ objects'[id] = [cls |-> cls, data |-> data]
          /\ \A o \in DOMAIN objects \ {id} : objects'[o] = objects[o]
      <4> DEFINE new == [o \in {id} |-> [cls |-> cls, data |-> data]]
      <4>1. DOMAIN new = {id} /\ new[id] = [cls |-> cls, data |-> data]
        OBVIOUS
      <4>2. objects' = Updated(objects, new)
        BY <3>1
      <4> HIDE DEF new
      <4>3. /\ DOMAIN objects' = DOMAIN objects \cup {id}
            /\ \A k \in DOMAIN objects \cup {id} :
                  objects'[k] = IF k \in {id} THEN new[k] ELSE objects[k]
        BY <4>1, <4>2, UpdatedDomain
      <4> QED BY <4>1, <4>3
    <3>6. ASSUME NEW o \in DOMAIN objects'
          PROVE  DOMAIN objects'[o] = {"cls", "data"}
      <4>1. CASE o = id
        <5>1. objects'[o] = [cls |-> cls, data |-> data]
          BY <3>5, <4>1
        <5> QED BY <5>1
      <4>2. CASE o # id
        <5>1. objects'[o] = objects[o] /\ o \in DOMAIN objects
          BY <3>5, <4>2
        <5> QED BY <5>1 DEF StoreInv
      <4> QED BY <4>1, <4>2
    <3>7. ASSUME NEW x \in edges'
          PROVE  \E e \in app.kvetch.edges, from \in Ids, to \in DOMAIN sent' :
                   x = <<e.edge_name, from, to>>
      <4>1. CASE x \in edges
        BY <3>2, <3>4, <4>1 DEF StoreInv
      <4>2. CASE x \notin edges
        <5>1. x \in NewEdges(cls, data, id)
          BY <3>1, <4>2
        <5>2. PICK e \in Stored(cls, data) : /\ data[e.stored_id_attr].py = "UUID"
                                              /\ x = <<e.edge_name, data[e.stored_id_attr].v, id>>
          BY <5>1 DEF NewEdges
        <5>3. e \in app.kvetch.edges /\ e.stored_id_attr \in DOMAIN data
          BY DEF Stored, DefinitionsOn
        <5>4. data[e.stored_id_attr].v \in Ids
          BY <3>3, <5>2, <5>3 DEF IsScalar
        <5>5. id \in DOMAIN sent'
          BY <3>2, <3>4
        <5> QED BY <5>2, <5>3, <5>4, <5>5
      <4> QED BY <4>1, <4>2
    <3> QED BY <2>1, <3>2, <3>4, <3>5, <3>6, <3>7 DEF StoreInv
  <2>6. CASE UpdatePent(f, args)
    <3> DEFINE a == process_args(args)
               id == a[ObjId].v
    <3>1. /\ UNCHANGED edges
          /\ IF id \in DOMAIN objects
             THEN /\ objects' = [objects EXCEPT ![id].data = Updated(@, a[Data].v)]
                  /\ sent' = [sent EXCEPT ![id] = Updated(@, args[Data].v)]
             ELSE UNCHANGED <<objects, sent>>
      BY <2>6 DEF UpdatePent
    <3>2. DOMAIN sent' = DOMAIN sent /\ DOMAIN objects' = DOMAIN objects
      BY <3>1
    <3>3. \A o \in DOMAIN objects : DOMAIN objects'[o] = DOMAIN objects[o]
      BY <3>1
    <3> QED BY <2>1, <3>1, <3>2, <3>3 DEF StoreInv
  <2>7. CASE DeletePent(f, args)
    <3> DEFINE id == process_args(args)[ObjId].v
    <3>1. objects' = [o \in DOMAIN objects \ {id} |-> objects[o]] /\ UNCHANGED <<edges, sent>>
      BY <2>7 DEF DeletePent
    <3> HIDE DEF id
    <3> QED BY <2>1, <3>1 DEF StoreInv
  <2> QED BY <2>3, <2>4, <2>5, <2>6, <2>7
<1> QED BY <1>1, <1>2, <1>3 DEF Next

(* A server that has not started has no modules and no store.              *)
LEMMA StartOfServer ==
  ASSUME Init
  PROVE  AppInv /\ StoreInv
<1>1. DOMAIN sent = {} /\ DOMAIN objects = {} /\ edges = {}
  BY DEF Init
<1>2. 0 \in 0 .. MaxObjects /\ 1 .. 0 = {}
  BY MaxObjectsAssumption
<1>3. StoreInv
  BY <1>1, <1>2 DEF StoreInv
<1> QED BY <1>3 DEF Init, AppInv

(* The server is up exactly when the generated modules are there, ids are  *)
(* given out within their bound, and an edge carries a defined name        *)
(* between ids: GrappleTypeOK, for any documents.                          *)
THEOREM GrappleTypeCorrect == Spec => []GrappleTypeOK
<1>1. Init => AppInv /\ StoreInv
  BY StartOfServer
<1>2. AppInv /\ StoreInv /\ [Next]_vars => (AppInv /\ StoreInv)'
  BY AppSteps, StoreSteps
<1>3. AppInv /\ StoreInv => GrappleTypeOK
  <2> SUFFICES ASSUME AppInv, StoreInv PROVE GrappleTypeOK
    OBVIOUS
  <2>1. stage \in {"written", "rejected"} <=> app = None
    BY NoneAssumption DEF AppInv
  <2>2. DOMAIN sent \subseteq Ids
    BY MaxObjectsAssumption DEF StoreInv, Ids
  <2>3. ASSUME NEW x \in edges
        PROVE  \E e \in IF app = None THEN {} ELSE app.kvetch.edges, from \in Ids, to \in Ids :
                 x = <<e.edge_name, from, to>>
    BY <2>1, <2>2 DEF StoreInv, AppInv
  <2> QED BY <2>1, <2>2, <2>3 DEF GrappleTypeOK, StoreInv, AppInv
<1> QED BY <1>1, <1>2, <1>3, PTL DEF Spec

----------------------------------------------------------------------------
(* What the generated modules hold *)

(* The GraphQL module and the Kvetch definitions, by the names of types.   *)
LEMMA GraphQLHolds ==
  ASSUME NEW doc, IsParsed(doc), TypesApart(doc), FieldsApart(doc)
  PROVE  LET a == Generated(doc)
         IN  /\ DOMAIN a.graphql.objects = Names(object_types(doc))
             /\ \A t \in object_types(doc) :
                  /\ DOMAIN a.graphql.objects[t.name] = Names(Range(t.fields))
                  /\ \A f \in Range(t.fields) :
                       a.graphql.objects[t.name][f.name] = print_graphql_field(f)
             /\ DOMAIN a.graphql.inputs = Names(Inputs(doc))
             /\ \A t \in Inputs(doc) :
                  /\ DOMAIN a.graphql.inputs[t.name] = Names(Range(t.fields))
                  /\ \A f \in Range(t.fields) : a.graphql.inputs[t.name][f.name] = f.type_ref
<1> DEFINE a == Generated(doc)
<1>1. /\ a.graphql.objects = ByName(doc, object_types(doc), print_graphql_object_type)
      /\ a.graphql.inputs = ByName(doc, Inputs(doc), print_graphql_input_type)
  BY DEF Generated, print_graphql_file, Inputs
<1> HIDE DEF a
<1>2. object_types(doc) \in SUBSET Range(doc) /\ Inputs(doc) \in SUBSET Range(doc)
  BY DEF object_types, OfVarietal, Inputs
<1>3. /\ DOMAIN a.graphql.objects = Names(object_types(doc))
      /\ DOMAIN a.graphql.inputs = Names(Inputs(doc))
  BY <1>1 DEF ByName
<1>4. ASSUME NEW t \in Range(doc)
      PROVE  /\ t.fields \in Seq(Range(t.fields))
             /\ Names(Range(t.fields)) = {t.fields[i].name : i \in DOMAIN t.fields}
             /\ \A f \in Range(t.fields) :
                  t.fields[Max({i \in DOMAIN t.fields : t.fields[i].name = f.name})] = f
  <2>1. t.fields \in Seq(Range(t.fields)) /\ Distinct([i \in DOMAIN t.fields |-> t.fields[i].name])
    BY DEF FieldsApart, IsParsed
  <2>2. Names(Range(t.fields)) = {t.fields[i].name : i \in DOMAIN t.fields}
    BY DEF Names, Range
  <2> QED BY <2>1, <2>2, FieldAt
<1>5. ASSUME NEW t \in object_types(doc)
      PROVE  /\ DOMAIN a.graphql.objects[t.name] = Names(Range(t.fields))
             /\ \A f \in Range(t.fields) :
                  a.graphql.objects[t.name][f.name] = print_graphql_field(f)
  <2>1. a.graphql.objects[t.name] = print_graphql_object_type(t)
    BY <1>1, <1>2, TypeAt DEF ByName
  <2>2. /\ DOMAIN print_graphql_object_type(t) = Names(Range(t.fields))
        /\ \A f \in Range(t.fields) : print_graphql_object_type(t)[f.name] = print_graphql_field(f)
    BY <1>2, <1>4 DEF print_graphql_object_type, FieldsByName, Names
  <2> QED BY <2>1, <2>2
<1>6. ASSUME NEW t \in Inputs(doc)
      PROVE  /\ DOMAIN a.graphql.inputs[t.name] = Names(Range(t.fields))
             /\ \A f \in Range(t.fields) : a.graphql.inputs[t.name][f.name] = f.type_ref
  <2>1. a.graphql.inputs[t.name] = print_graphql_input_type(t)
    BY <1>1, <1>2, TypeAt DEF ByName
  <2>2. /\ DOMAIN print_graphql_input_type(t) = Names(Range(t.fields))
        /\ \A f \in Range(t.fields) : print_graphql_input_type(t)[f.name] = f.type_ref
    BY <1>2, <1>4 DEF print_graphql_input_type, FieldsByName, Names
  <2> QED BY <2>1, <2>2
<1> QED BY <1>3, <1>5, <1>6 DEF a

(* The classes and the definitions, by the names of types.                 *)
LEMMA ClassesHold ==
  ASSUME NEW doc, IsParsed(doc), TypesApart(doc)
  PROVE  LET a == Generated(doc)
         IN  /\ DOMAIN a.autopents.datas = Names(pent_mutation_datas(doc))
             /\ \A t \in pent_mutation_datas(doc) :
                  a.autopents.datas[t.name] = print_generated_pent_mutation_data(t)
             /\ DOMAIN a.autopents.payloads = Names(pent_payloads(doc))
             /\ DOMAIN a.kvetch.objects = PentNames(doc)
             /\ \A t \in pents(doc) : a.kvetch.objects[t.name] = t.type_id
             /\ a.kvetch.edges = print_kvetch_generated_edges(doc)
             /\ \A t \in pents(doc) : /\ a.classes[t.name] = print_generated_fields(doc, t.fields)
                                      /\ a.hand[t.name] = CustomNames(t.fields)
             /\ a.classes["Root"] = print_generated_fields(doc, root_fields(doc))
             /\ a.hand["Root"] = CustomNames(root_fields(doc))
<1> DEFINE a == Generated(doc)
<1>1. /\ pents(doc) \in SUBSET Range(doc) /\ pent_mutation_datas(doc) \in SUBSET Range(doc)
  BY DEF pents, object_types, pent_mutation_datas, OfVarietal
<1>2. /\ DOMAIN a.autopents.datas = Names(pent_mutation_datas(doc))
      /\ \A t \in pent_mutation_datas(doc) :
           a.autopents.datas[t.name] = print_generated_pent_mutation_data(t)
      /\ DOMAIN a.autopents.payloads = Names(pent_payloads(doc))
  <2>1. a.autopents.datas = ByName(doc, pent_mutation_datas(doc), print_generated_pent_mutation_data)
    BY DEF Generated, print_autopents_file
  <2>2. a.autopents.payloads = ByName(doc, pent_payloads(doc), print_generated_pent_payload)
    BY DEF Generated, print_autopents_file
  <2> HIDE DEF a
  <2> QED BY <1>1, <2>1, <2>2, TypeAt DEF ByName
<1>3. /\ DOMAIN a.kvetch.objects = PentNames(doc)
      /\ \A t \in pents(doc) : a.kvetch.objects[t.name] = t.type_id
      /\ a.kvetch.edges = print_kvetch_generated_edges(doc)
  <2>1. a.kvetch.objects = [name \in Names(pents(doc)) |->
                              doc[Max(Positions(doc, pents(doc), name))].type_id]
    BY DEF Generated, print_kvetch_decls, ByName
  <2>2. a.kvetch.edges = print_kvetch_generated_edges(doc)
    BY DEF Generated, print_kvetch_decls
  <2> HIDE DEF a
  <2> QED BY <1>1, <2>1, <2>2, TypeAt DEF PentNames
<1>4. /\ a.classes["Root"] = print_generated_fields(doc, root_fields(doc))
      /\ a.hand["Root"] = CustomNames(root_fields(doc))
  <2>1. "Root" \notin Names(pents(doc))
    BY DEF TypesApart, PentNames
  <2>2. a.classes = print_generated_pents_file(doc)
    BY DEF Generated
  <2>3. a.hand = WithRoot(ByName(doc, pents(doc), LAMBDA t : CustomNames(t.fields)),
                          CustomNames(root_fields(doc)))
    BY DEF Generated, root_fields
  <2> HIDE DEF a
  <2>4. a.classes["Root"] = print_generated_fields(doc, root_fields(doc))
    BY <2>1, <2>2
    DEF print_generated_pents_file, WithRoot, ByName, print_generated_root_class, root_fields
  <2>5. a.hand["Root"] = CustomNames(root_fields(doc))
    BY <2>1, <2>3 DEF WithRoot, ByName
  <2> QED BY <2>4, <2>5
<1>5. ASSUME NEW t \in pents(doc)
      PROVE  /\ a.classes[t.name] = print_generated_fields(doc, t.fields)
             /\ a.hand[t.name] = CustomNames(t.fields)
  <2>1. t.name \in Names(pents(doc)) /\ doc[Max(Positions(doc, pents(doc), t.name))] = t
    BY <1>1, TypeAt
  <2>2. a.classes = print_generated_pents_file(doc)
    BY DEF Generated
  <2>3. a.hand = WithRoot(ByName(doc, pents(doc), LAMBDA u : CustomNames(u.fields)),
                          CustomNames(root_fields(doc)))
    BY DEF Generated, root_fields
  <2> HIDE DEF a
  <2>4. a.classes[t.name] = print_generated_pent(doc, t)
    BY <2>1, <2>2 DEF print_generated_pents_file, WithRoot, ByName
  <2>5. a.hand[t.name] = CustomNames(t.fields)
    BY <2>1, <2>3 DEF WithRoot, ByName
  <2> QED BY <2>4, <2>5 DEF print_generated_pent
<1> QED BY <1>2, <1>3, <1>4, <1>5

----------------------------------------------------------------------------
(* The arguments of a request, where names are apart *)

ArgNames(f) == {f.args[i].name : i \in DOMAIN f.args}
ArgumentsApart(f) == Distinct([i \in DOMAIN f.args |-> ArgumentName(f.args[i].name)])

(* Each argument arrives under its own Python name.                        *)
LEMMA ArgumentArrives ==
  ASSUME NEW f, ArgumentsApart(f), NEW args \in Arguments(print_graphql_field(f)),
         NEW n \in ArgNames(f)
  PROVE  /\ n \in DOMAIN args <=> ArgumentName(n) \in DOMAIN process_args(args)
         /\ n \in DOMAIN args => process_args(args)[ArgumentName(n)] = Pythonified(args[n])
<1>1. DOMAIN args \subseteq ArgNames(f)
  BY ArgumentsTyped DEF print_graphql_field, ArgNames
<1>2. \A m \in ArgNames(f) : ArgumentName(m) = ArgumentName(n) => m = n
  BY DEF ArgNames, ArgumentsApart, Distinct
<1> DEFINE a == process_args(args)
<1>3. /\ DOMAIN a = {ArgumentName(k) : k \in DOMAIN args}
      /\ \A p \in DOMAIN a : \E k \in DOMAIN args : ArgumentName(k) = p /\ a[p] = Pythonified(args[k])
  BY ArgumentsProcessed
<1> HIDE DEF a
<1> QED BY <1>1, <1>2, <1>3 DEF a

(* What comes with a request of a field that must have some arguments.     *)
LEMMA ArgumentsGiven ==
  ASSUME NEW f, f.args \in Seq(Range(f.args)), NEW args \in Arguments(print_graphql_field(f))
  PROVE  /\ DOMAIN args \subseteq ArgNames(f)
         /\ \A n : HasArg(f, n) <=> n \in ArgNames(f)
         /\ \A n \in ArgNames(f) :
              varietal(get_required_arg(f, n).type) = "NONNULL" => n \in DOMAIN args
         /\ f.args = <<>> => ArgNames(f) = {}
         /\ \A n \in ArgNames(f) : Len(f.args) = 1 => ArgNames(f) = {n}
         /\ \A m, n \in ArgNames(f) : m # n /\ Len(f.args) = 2 => ArgNames(f) = {m, n}
<1> DEFINE g == print_graphql_field(f)
<1>1. g.args = f.args /\ \A n : get_required_arg(g, n) = get_required_arg(f, n)
  BY DEF print_graphql_field, get_required_arg
<1>2. /\ DOMAIN args \subseteq {g.args[i].name : i \in DOMAIN g.args}
      /\ \A i \in DOMAIN g.args :
           varietal(get_required_arg(g, g.args[i].name).type) = "NONNULL" =>
             g.args[i].name \in DOMAIN args
  BY ArgumentsTyped
<1> HIDE DEF g
<1>3. DOMAIN f.args = 1 .. Len(f.args) /\ Len(f.args) \in Nat
  OBVIOUS
<1>4. /\ DOMAIN args \subseteq ArgNames(f)
      /\ \A n : HasArg(f, n) <=> n \in ArgNames(f)
      /\ \A n \in ArgNames(f) :
           varietal(get_required_arg(f, n).type) = "NONNULL" => n \in DOMAIN args
  BY <1>1, <1>2 DEF ArgNames, HasArg
<1>5. f.args = <<>> => ArgNames(f) = {}
  BY DEF ArgNames
<1>6. \A n \in ArgNames(f) : Len(f.args) = 1 => ArgNames(f) = {n}
  <2> SUFFICES ASSUME NEW n \in ArgNames(f), Len(f.args) = 1 PROVE ArgNames(f) = {n}
    OBVIOUS
  <2>1. DOMAIN f.args = {1}
    BY <1>3
  <2> QED BY <2>1 DEF ArgNames
<1>7. \A m, n \in ArgNames(f) : m # n /\ Len(f.args) = 2 => ArgNames(f) = {m, n}
  <2> SUFFICES ASSUME NEW m \in ArgNames(f), NEW n \in ArgNames(f), m # n, Len(f.args) = 2
               PROVE  ArgNames(f) = {m, n}
    OBVIOUS
  <2>1. DOMAIN f.args = {1, 2}
    BY <1>3
  <2>2. ArgNames(f) = {f.args[1].name, f.args[2].name}
    BY <2>1 DEF ArgNames
  <2> QED BY <2>2
<1> QED BY <1>4, <1>5, <1>6, <1>7

(* A renamed input has the Python names of its fields, each with the value *)
(* sent under the field's name, of the field's type.                       *)
LEMMA InputArrives ==
  ASSUME NEW doc, IsParsed(doc), TypesApart(doc), FieldsApart(doc), PlainInputs(doc),
         app = Generated(doc), NEW t \in Inputs(doc), NEW d \in InputData(t.name)
  PROVE  LET r == Renamed(d, to_snake_case)
         IN  /\ DOMAIN r \subseteq {python_name(h) : h \in Range(t.fields)}
             /\ \A h \in Range(t.fields) :
                  /\ h.name \in DOMAIN d <=> python_name(h) \in DOMAIN r
                  /\ h.name \in DOMAIN d => /\ r[python_name(h)] = d[h.name]
                                            /\ d[h.name] \in InputValues(h.type_ref)
                  /\ varietal(h.type_ref) = "NONNULL" => h.name \in DOMAIN d
<1> DEFINE r == Renamed(d, to_snake_case)
<1>1. /\ DOMAIN app.graphql.inputs[t.name] = Names(Range(t.fields))
      /\ \A h \in Range(t.fields) : app.graphql.inputs[t.name][h.name] = h.type_ref
  BY GraphQLHolds
<1>2. /\ DOMAIN d \subseteq Names(Range(t.fields))
      /\ \A h \in Range(t.fields) : varietal(h.type_ref) = "NONNULL" => h.name \in DOMAIN d
      /\ \A h \in Range(t.fields) : h.name \in DOMAIN d => d[h.name] \in InputValues(h.type_ref)
  BY <1>1, InputDataTyped DEF Names
<1>3. ASSUME NEW h \in Range(t.fields)
      PROVE  python_name(h) = to_snake_case(h.name)
  BY PlainPythonName DEF PlainInputs, IsParsed, IsParsedField, Inputs, OfVarietal
<1>4. \A h, k \in Range(t.fields) : python_name(h) = python_name(k) => h = k
  BY DEF FieldsApart, Distinct, PythonNames, Range, Inputs, OfVarietal
<1>5. /\ DOMAIN r = {to_snake_case(k) : k \in DOMAIN d}
      /\ \A p \in DOMAIN r : \E k \in DOMAIN d : to_snake_case(k) = p /\ r[p] = d[k]
  BY DataRenamed
<1> HIDE DEF r
<1>6. DOMAIN r \subseteq {python_name(h) : h \in Range(t.fields)}
  BY <1>2, <1>3, <1>5 DEF Names
<1>7. ASSUME NEW h \in Range(t.fields)
      PROVE  /\ h.name \in DOMAIN d <=> python_name(h) \in DOMAIN r
             /\ h.name \in DOMAIN d => r[python_name(h)] = d[h.name]
  <2>1. \A k \in DOMAIN d : to_snake_case(k) = python_name(h) => k = h.name
    BY <1>2, <1>3, <1>4 DEF Names
  <2>2. h.name \in DOMAIN d => python_name(h) \in DOMAIN r
    BY <1>3, <1>5
  <2>3. python_name(h) \in DOMAIN r => h.name \in DOMAIN d /\ r[python_name(h)] = d[h.name]
    BY <1>5, <2>1
  <2> QED BY <2>2, <2>3
<1> QED BY <1>2, <1>6, <1>7 DEF r

(* No data class has the name of a Python scalar: a class's name is its    *)
(* type's.                                                                 *)
LEMMA NoScalarName ==
  ASSUME NEW doc, TypesApart(doc), NEW types \in SUBSET Range(doc), NEW name,
         to_python_typename(name) \in Names(types)
  PROVE  to_python_typename(name) = name
<1>1. Names(types) \subseteq Names(Range(doc))
  BY DEF Names
<1>2. to_python_typename(name) \notin Primitives
  BY <1>1 DEF TypesApart
<1> QED BY <1>2 DEF to_python_typename, PythonScalars, Primitives

ArrivesAsData(doc, f, args) ==
  \E t \in pent_mutation_datas(doc) : \E d \in InputData(t.name) :
    /\ t.name = get_data_arg_in_pent(f)
    /\ Data \in DOMAIN args /\ args[Data] = [py |-> "dict", v |-> d]
    /\ Data \in DOMAIN process_args(args)
    /\ process_args(args)[Data].py = "dict"
    /\ process_args(args)[Data].v = Renamed(d, to_snake_case)

(* A mutation's data argument arrives as a dictionary of the fields of its *)
(* data class.                                                             *)
LEMMA DataArrives ==
  ASSUME NEW doc, IsParsed(doc), TypesApart(doc), FieldsApart(doc), PlainInputs(doc),
         app = Generated(doc), NEW f, IsParsedField(f), ArgumentsApart(f), RequiredDataArg(f),
         get_data_arg_in_pent(f) \in Names(pent_mutation_datas(doc)),
         NEW args \in Arguments(print_graphql_field(f))
  PROVE  ArrivesAsData(doc, f, args)
<1> DEFINE g == print_graphql_field(f)
           ref == get_required_arg(f, Data).type
<1>1. Data \in ArgNames(f) /\ Data \in DOMAIN args
  BY ArgumentsGiven DEF RequiredDataArg, IsParsedField
<1>2. ref \in TypeRefs
  BY DEF RequiredDataArg, HasArg, get_required_arg, IsParsedField
<1>3. inner_type(ref).name = ref.name
  BY <1>2, NamedRefs DEF RequiredDataArg
<1>4. PICK t \in pent_mutation_datas(doc) : t.name = get_data_arg_in_pent(f)
  BY DEF Names
<1>5. pent_mutation_datas(doc) \in SUBSET Range(doc) /\ t \in Inputs(doc) /\ t \in Range(doc)
  BY DEF pent_mutation_datas, Inputs, OfVarietal
<1>6. /\ get_data_arg_in_pent(f) = to_python_typename(ref.name)
      /\ inner_type(ref).wrap = <<>>
  <2>1. t.name # None
    BY <1>5, NoneAssumption DEF IsParsed
  <2> QED BY <1>3, <1>4, <2>1 DEF get_data_arg_in_pent, python_typename
<1>7. t.name = ref.name
  BY <1>4, <1>5, <1>6, NoScalarName
<1>8. t.name \in DOMAIN app.graphql.inputs
  BY <1>5, GraphQLHolds DEF Names
<1>9. get_required_arg(g, Data).type.name = t.name /\ ~IsList(get_required_arg(g, Data).type)
  <2>1. get_required_arg(g, Data).type = ref
    BY DEF print_graphql_field, get_required_arg
  <2>2. ~IsList(ref)
    BY <1>2, <1>6, RequiredNames DEF RequiredDataArg
  <2> QED BY <1>7, <2>1, <2>2
<1>10. PICK d \in InputData(t.name) : args[Data] = [py |-> "dict", v |-> d]
  <2> HIDE DEF g
  <2>1. LET r == get_required_arg(g, Data).type
        IN  IF ~IsList(r) /\ r.name \in DOMAIN app.graphql.inputs
            THEN \E d \in InputData(r.name) : args[Data] = [py |-> "dict", v |-> d]
            ELSE args[Data] \in InputValues(r) /\ IsScalar(args[Data])
    BY <1>1, ArgumentsTyped DEF g
  <2> QED BY <1>8, <1>9, <2>1
<1>11. ArgumentName(Data) = Data
  BY SpelledNames DEF ArgumentName
<1>12. Data \in DOMAIN process_args(args) /\ process_args(args)[Data] = Pythonified(args[Data])
  BY <1>1, <1>11, ArgumentArrives
<1>13. Pythonified(args[Data]) = [py |-> "dict", v |-> Renamed(d, to_snake_case)]
  BY <1>10 DEF Pythonified
<1> QED BY <1>1, <1>4, <1>10, <1>12, <1>13 DEF ArrivesAsData

(* A required id argument arrives as an id.                                *)
LEMMA IdArrives ==
  ASSUME NEW doc, IsParsed(doc), TypesApart(doc), FieldsApart(doc), app = Generated(doc),
         NEW f, IsParsedField(f), ArgumentsApart(f), check_required_id_arg(f),
         NEW args \in Arguments(print_graphql_field(f))
  PROVE  process_args(args)[ObjId].py = "UUID"
<1> DEFINE g == print_graphql_field(f)
           ref == get_required_arg(f, Id).type
<1>1. Id \in ArgNames(f) /\ Id \in DOMAIN args
  BY ArgumentsGiven DEF check_required_id_arg, IsParsedField
<1>2. ref \in TypeRefs
  BY DEF check_required_id_arg, HasArg, get_required_arg, IsParsedField
<1>3. varietal(ref) = "NONNULL" /\ graphql_typename(inner_type(ref)) = "UUID"
  BY DEF check_required_id_arg
<1>4. inner_type(ref).wrap = <<>> /\ ref.name = "UUID"
  <2> HIDE DEF ref
  <2>1. inner_type(ref).wrap = <<>> /\ inner_type(ref).name = "UUID"
    <3>1. None # "UUID"
      BY NoneAssumption DEF Primitives
    <3> QED BY <1>3, <3>1 DEF graphql_typename
  <2>2. \A other \in TypeRefs : varietal(other) = "NONNULL" => inner_type(other).name = other.name
    BY NamedRefs
  <2> QED BY <1>2, <1>3, <2>1, <2>2
<1>5. ~IsList(ref)
  BY <1>2, <1>3, <1>4, RequiredNames
<1>6. "UUID" \notin DOMAIN app.graphql.inputs
  <2>1. DOMAIN app.graphql.inputs = Names(Inputs(doc))
    BY GraphQLHolds
  <2>2. Names(Inputs(doc)) \subseteq Names(Range(doc))
    BY DEF Names, Inputs, OfVarietal
  <2> QED BY <2>1, <2>2 DEF TypesApart, Primitives
<1>7. get_required_arg(g, Id).type = ref
  BY DEF print_graphql_field, get_required_arg
<1> HIDE DEF g, ref
<1>8. args[Id] \in InputValues(ref)
  BY <1>1, <1>4, <1>6, <1>7, ArgumentsTyped DEF g
<1>9. args[Id] \in ScalarValues("UUID")
  BY <1>4, <1>5, <1>8 DEF InputValues
<1>10. args[Id].py = "UUID"
  BY <1>9, ScalarsTyped DEF to_python_typename, PythonScalars
<1>11. process_args(args)[ArgumentName(Id)] = Pythonified(args[Id])
  BY <1>1, ArgumentArrives
<1> QED BY <1>10, <1>11 DEF ArgumentName, Pythonified

----------------------------------------------------------------------------
(* Binding *)

(* What a mutation's resolver does before it calls the member succeeds.    *)
LEMMA DataFits ==
  ASSUME NEW doc, IsParsed(doc), TypesApart(doc), FieldsApart(doc), PlainInputs(doc),
         app = Generated(doc), NEW f, IsParsedField(f), ArgumentsApart(f), RequiredDataArg(f),
         get_data_arg_in_pent(f) \in Names(pent_mutation_datas(doc)),
         NEW args \in Arguments(print_graphql_field(f))
  PROVE  LET a == process_args(args)
             cls == get_data_arg_in_pent(f)
         IN  /\ cls \in DOMAIN app.autopents.datas
             /\ a[Data].py = "dict"
             /\ Fits(app.autopents.datas[cls], DOMAIN a[Data].v)
<1> DEFINE a == process_args(args)
           cls == get_data_arg_in_pent(f)
<1>1. ArrivesAsData(doc, f, args)
  BY DataArrives
<1>2. PICK t \in pent_mutation_datas(doc) : \E d \in InputData(t.name) :
           /\ t.name = cls /\ a[Data].py = "dict" /\ a[Data].v = Renamed(d, to_snake_case)
  BY <1>1 DEF ArrivesAsData
<1>3. PICK d \in InputData(t.name) :
           /\ t.name = cls /\ a[Data].py = "dict" /\ a[Data].v = Renamed(d, to_snake_case)
  BY <1>2
<1>4. t \in Inputs(doc) /\ t \in Range(doc) /\ DOMAIN t.fields = DOMAIN t.fields
  BY DEF pent_mutation_datas, Inputs, OfVarietal
<1> DEFINE r == Renamed(d, to_snake_case)
<1>5. /\ DOMAIN r \subseteq {python_name(h) : h \in Range(t.fields)}
      /\ \A h \in Range(t.fields) : varietal(h.type_ref) = "NONNULL" => python_name(h) \in DOMAIN r
  BY <1>4, InputArrives
<1> HIDE DEF r, a, cls
<1>6. /\ cls \in DOMAIN app.autopents.datas
      /\ app.autopents.datas[cls] = print_generated_pent_mutation_data(t)
  BY <1>3, ClassesHold DEF Names
<1>7. Fits(print_generated_pent_mutation_data(t), DOMAIN r)
  BY <1>5 DEF Fits, print_generated_pent_mutation_data, Range
<1> QED BY <1>3, <1>6, <1>7 DEF r, a, cls

(* The keyword arguments a member is called with.                          *)
LEMMA MemberArguments ==
  ASSUME NEW doc, NEW f, IsParsedField(f), ArgumentsApart(f), PrintsField(doc, f),
         MemberWellFormed(doc, f), ~is_custom_impl(f.varietal), f.varietal # "VANILLA",
         NEW args \in Arguments(print_graphql_field(f))
  PROVE  Fits(print_field(doc, f), DOMAIN process_args(args))
<1> DEFINE a == process_args(args)
           m == print_field(doc, f)
<1>1. /\ DOMAIN args \subseteq ArgNames(f)
      /\ \A n : HasArg(f, n) <=> n \in ArgNames(f)
      /\ \A n \in ArgNames(f) :
           varietal(get_required_arg(f, n).type) = "NONNULL" => n \in DOMAIN args
      /\ f.args = <<>> => ArgNames(f) = {}
      /\ \A n \in ArgNames(f) : Len(f.args) = 1 => ArgNames(f) = {n}
      /\ \A n, k \in ArgNames(f) : n # k /\ Len(f.args) = 2 => ArgNames(f) = {n, k}
  BY ArgumentsGiven DEF IsParsedField
<1>2. DOMAIN a = {ArgumentName(k) : k \in DOMAIN args}
  BY ArgumentsProcessed
<1>3. /\ ArgumentName(Id) = ObjId /\ ArgumentName(Data) = Data
      /\ ArgumentName(First) = First /\ ArgumentName(After) = After
      /\ Data # Id /\ First # After
  BY SpelledNames DEF ArgumentName
<1> HIDE DEF a
<1>4. CASE f.varietal \in {"READ_PENT", "DELETE_PENT"}
  <2>1. Len(f.args) = 1 /\ check_required_id_arg(f)
    BY <1>4 DEF MemberWellFormed, PrintsField
  <2>2. DOMAIN args = {Id}
    BY <1>1, <2>1 DEF check_required_id_arg
  <2>3. DOMAIN a = {ObjId}
    BY <1>2, <1>3, <2>2
  <2>4. m.needs = {ObjId} /\ m.params = {ObjId}
    BY <1>4 DEF print_field, print_read_pent_field, print_delete_pent_field
  <2> QED BY <2>3, <2>4 DEF Fits, a
<1>5. CASE f.varietal \in {"BROWSE_PENTS", "EDGE_TO_STORED_ID"}
  <2>1. Len(f.args) = 2 /\ HasArg(f, First) /\ HasArg(f, After)
    BY <1>5 DEF PrintsField, get_first_after_args
  <2>2. DOMAIN args \subseteq {First, After}
    BY <1>1, <1>3, <2>1
  <2>3. DOMAIN a \subseteq {First, After}
    BY <1>2, <1>3, <2>2
  <2>4. m.needs = {} /\ m.params = {First, After}
    BY <1>5 DEF print_field, print_browse_pents_field, print_edge_to_stored_id_field
  <2> QED BY <2>3, <2>4 DEF Fits, a
<1>6. CASE f.varietal = "GEN_FROM_STORED_ID"
  <2>1. f.args = <<>>
    BY <1>6 DEF PrintsField
  <2>2. DOMAIN a = {}
    BY <1>1, <1>2, <2>1
  <2>3. m.needs = {} /\ m.params = {}
    BY <1>6 DEF print_field, print_gen_from_stored_id_field
  <2> QED BY <2>2, <2>3 DEF Fits, a
<1>7. CASE f.varietal = "CREATE_PENT"
  <2>1. Len(f.args) = 1 /\ RequiredDataArg(f)
    BY <1>7 DEF PrintsField
  <2>2. DOMAIN args = {Data}
    BY <1>1, <2>1 DEF RequiredDataArg
  <2>3. DOMAIN a = {Data}
    BY <1>2, <1>3, <2>2
  <2>4. m.needs = {Data} /\ m.params = {Data}
    BY <1>7 DEF print_field, print_create_pent_field, WritePent
  <2> QED BY <2>3, <2>4 DEF Fits, a
<1>8. CASE f.varietal = "UPDATE_PENT"
  <2>1. Len(f.args) = 2 /\ check_required_id_arg(f) /\ RequiredDataArg(f)
    BY <1>8 DEF PrintsField
  <2>2. DOMAIN args = {Id, Data}
    <3>1. Id \in ArgNames(f) /\ Id \in DOMAIN args
      BY <1>1, <2>1 DEF check_required_id_arg
    <3>2. Data \in ArgNames(f) /\ Data \in DOMAIN args
      BY <1>1, <2>1 DEF RequiredDataArg
    <3>3. ArgNames(f) = {Id, Data}
      BY <1>1, <1>3, <2>1, <3>1, <3>2
    <3>4. DOMAIN args \subseteq ArgNames(f)
      BY <1>1
    <3> QED BY <3>1, <3>2, <3>3, <3>4
  <2>3. DOMAIN a = {ObjId, Data}
    BY <1>2, <1>3, <2>2
  <2>4. m.needs = {ObjId, Data} /\ m.params = {ObjId, Data}
    <3>1. m = WritePent("UPDATE_PENT", {ObjId, Data}, get_mutation_classes(doc, f))
      BY <1>8 DEF print_field, print_update_pent_field
    <3> HIDE DEF m
    <3> QED BY <3>1 DEF WritePent
  <2> QED BY <2>3, <2>4 DEF Fits, a
<1> QED BY <1>4, <1>5, <1>6, <1>7, <1>8 DEF IsParsedField, FieldVarietals, is_custom_impl

(* The classes a member uses are there.                                    *)
LEMMA MemberClasses ==
  ASSUME NEW doc, IsParsed(doc), TypesApart(doc), app = Generated(doc),
         NEW f, IsParsedField(f), PrintsField(doc, f),
         MemberWellFormed(doc, f), ~is_custom_impl(f.varietal), f.varietal # "VANILLA"
  PROVE  FindsClasses(print_field(doc, f))
<1> DEFINE m == print_field(doc, f)
           target == to_python_typename(f.type_ref.name)
<1>1. /\ DOMAIN app.autopents.datas = Names(pent_mutation_datas(doc))
      /\ DOMAIN app.autopents.payloads = Names(pent_payloads(doc))
      /\ DOMAIN app.kvetch.objects = PentNames(doc)
  BY ClassesHold
<1>2. varietal(f.type_ref) = "NAMED" => python_typename(f.type_ref) = target
  BY NamedRefs DEF IsParsedField
<1>3. CASE f.varietal = "READ_PENT"
  <2>1. m.op = "READ_PENT" /\ m.cls = python_typename(f.type_ref)
    BY <1>3 DEF print_field, print_read_pent_field
  <2>2. python_typename(f.type_ref) \in PentNames(doc)
    BY <1>2, <1>3 DEF MemberWellFormed
  <2> HIDE DEF m
  <2> QED BY <1>1, <2>1, <2>2 DEF FindsClasses, PentClasses, TakesData, m
<1>4. CASE f.varietal = "GEN_FROM_STORED_ID"
  <2>1. m.op = "GEN_FROM_STORED_ID" /\ m.cls = python_typename(f.type_ref)
    BY <1>4 DEF print_field, print_gen_from_stored_id_field
  <2>2. python_typename(f.type_ref) \in PentNames(doc)
    BY <1>2, <1>4 DEF MemberWellFormed, PrintsField
  <2> HIDE DEF m
  <2> QED BY <1>1, <2>1, <2>2 DEF FindsClasses, PentClasses, TakesData, m
<1>5. CASE f.varietal \in {"BROWSE_PENTS", "EDGE_TO_STORED_ID"}
  <2>1. m.op \in {"BROWSE_PENTS", "EDGE_TO_STORED_ID"} /\ m.cls = target
    BY <1>5 DEF print_field, print_browse_pents_field, print_edge_to_stored_id_field, TargetOfMany
  <2>2. target \in PentNames(doc)
    BY <1>5 DEF MemberWellFormed
  <2> HIDE DEF m
  <2> QED BY <1>1, <2>1, <2>2 DEF FindsClasses, PentClasses, TakesData, m
<1>6. CASE f.varietal \in {"CREATE_PENT", "UPDATE_PENT"}
  <2> DEFINE c == get_mutation_classes(doc, f)
  <2>1. /\ m.op \in {"CREATE_PENT", "UPDATE_PENT"} /\ m.pent_cls = c.pent_cls
        /\ m.data_cls = c.data_cls /\ m.payload_cls = c.payload_cls
    <3>1. \E op \in {"CREATE_PENT", "UPDATE_PENT"} : \E takes : m = WritePent(op, takes, c)
      BY <1>6 DEF print_field, print_create_pent_field, print_update_pent_field
    <3> HIDE DEF m, c
    <3> QED BY <3>1 DEF WritePent
  <2>2. /\ target \in Names(pent_payloads(doc)) /\ varietal(f.type_ref) = "NAMED"
        /\ python_typename(Head(type_named_fields(doc, target)).type_ref) \in PentNames(doc)
        /\ get_data_arg_in_pent(f) \in Names(pent_mutation_datas(doc))
    BY <1>6 DEF MemberWellFormed
  <2>3. /\ c.payload_cls = target /\ c.data_cls = get_data_arg_in_pent(f)
        /\ c.pent_cls = python_typename(Head(type_named_fields(doc, target)).type_ref)
    BY <1>2, <2>2 DEF get_mutation_classes
  <2> HIDE DEF m, c, target
  <2> QED BY <1>1, <2>1, <2>2, <2>3 DEF FindsClasses, PentClasses, TakesData, m
<1>7. CASE f.varietal = "DELETE_PENT"
  <2>1. /\ m.op = "DELETE_PENT" /\ m.pent_cls = f.data.type
        /\ m.payload_cls = python_typename(f.type_ref)
    BY <1>7 DEF print_field, print_delete_pent_field
  <2>2. /\ target \in Names(pent_payloads(doc)) /\ varietal(f.type_ref) = "NAMED"
        /\ f.data.type \in PentNames(doc)
    BY <1>7 DEF MemberWellFormed
  <2> HIDE DEF m, target
  <2> QED BY <1>1, <1>2, <2>1, <2>2 DEF FindsClasses, PentClasses, TakesData, m
<1> QED BY <1>3, <1>4, <1>5, <1>6, <1>7 DEF IsParsedField, FieldVarietals, is_custom_impl

(* No generated class of a well-formed document hides a member that the    *)
(* generated ones go through.                                              *)
LEMMA NothingHidden ==
  ASSUME NEW doc, IsParsed(doc), WellFormed(doc), app = Generated(doc)
  PROVE  /\ \A cls \in PentNames(doc) : \A members \in SUBSET PentMembers : ~Hides(cls, members)
         /\ ~Hides("Root", {Word("context")})
<1>1. TypesApart(doc) /\ MembersApart(doc)
  BY DEF WellFormed
<1>2. ASSUME NEW fields
      PROVE  DOMAIN print_generated_fields(doc, fields) \subseteq
               {python_name(f) : f \in Range(fields)}
  BY DEF print_generated_fields, Range
<1>3. ASSUME NEW t \in pents(doc), NEW members \in SUBSET PentMembers
      PROVE  ~Hides(t.name, members)
  <2>1. app.classes[t.name] = print_generated_fields(doc, t.fields)
    BY <1>1, ClassesHold
  <2>2. \A f \in Range(t.fields) : python_name(f) \notin PentMembers
    BY <1>1 DEF MembersApart
  <2> QED BY <1>2, <2>1, <2>2 DEF Hides
<1>4. ~Hides("Root", {Word("context")})
  <2>1. app.classes["Root"] = print_generated_fields(doc, root_fields(doc))
    BY <1>1, ClassesHold
  <2>2. \A f \in Range(root_fields(doc)) : python_name(f) # Word("context")
    BY <1>1 DEF MembersApart
  <2> QED BY <1>2, <2>1, <2>2 DEF Hides
<1> QED BY <1>3, <1>4 DEF PentNames, Names

(* What a generated member of a pent goes through is Pent's.               *)
LEMMA GoesThroughPent ==
  ASSUME NEW m
  PROVE  /\ GoesThrough(m) \subseteq PentMembers
         /\ ~OnlyOnPents(m) => GoesThrough(m) = {Word("context")}
  BY DEF GoesThrough, PentMembers, OnlyOnPents

(* A resolver reaches the work of its field's member.                      *)
LEMMA MemberBinds ==
  ASSUME NEW doc, IsParsed(doc), TypesApart(doc), FieldsApart(doc), PlainInputs(doc),
         app = Generated(doc), NEW cls, NEW fields, fields \in Seq(Range(fields)),
         Distinct(PythonNames(fields)), app.classes[cls] = print_generated_fields(doc, fields),
         app.hand[cls] = CustomNames(fields), NEW f \in Range(fields), IsParsedField(f),
         ArgumentsApart(f), PrintsField(doc, f), is_mutation(f.varietal) => RequiredDataArg(f),
         MemberWellFormed(doc, f),
         f.varietal \in {"EDGE_TO_STORED_ID", "GEN_FROM_STORED_ID"} => cls # "Root",
         \A m : ~OnlyOnPents(m) \/ cls # "Root" => ~Hides(cls, GoesThrough(m)),
         NEW args \in Arguments(print_graphql_field(f))
  PROVE  Bind(cls, Resolver(f), args) = "ok"
<1> DEFINE a == process_args(args)
           r == Resolver(f)
           m == print_field(doc, f)
<1>1. /\ r.python_name = python_name(f)
      /\ r.kind = "mutation" <=> is_mutation(f.varietal)
      /\ is_mutation(f.varietal) => r.data_cls = get_data_arg_in_pent(f)
      /\ f.varietal = "VANILLA" => r.kind = "default"
  BY DEF Resolver, is_gen_varietal, is_mutation
<1>2. is_mutation(f.varietal) => get_data_arg_in_pent(f) \in Names(pent_mutation_datas(doc))
  BY DEF is_mutation, MemberWellFormed
<1>3. r.kind = "mutation" => /\ r.data_cls \in DOMAIN app.autopents.datas
                             /\ a[Data].py = "dict"
                             /\ Fits(app.autopents.datas[r.data_cls], DOMAIN a[Data].v)
  BY <1>1, <1>2, DataFits
<1> HIDE DEF r, a, m
<1>4. CASE is_custom_impl(f.varietal)
  <2>1. python_name(f) \in app.hand[cls]
    BY <1>4 DEF CustomNames, Range
  <2> QED BY <1>1, <1>3, <2>1 DEF Bind, r, a
<1>5. CASE ~is_custom_impl(f.varietal)
  <2>1. r.python_name \in DOMAIN app.classes[cls] /\ app.classes[cls][r.python_name] = m
    BY <1>1, <1>5, MemberAt DEF m
  <2>2. BindMember(cls, r, DOMAIN a) = "ok"
    <3>1. CASE f.varietal = "VANILLA"
      <4>1. m.op = "PROPERTY"
        BY <3>1 DEF m, print_field, print_vanilla_field, PropertyOf
      <4> QED BY <1>1, <2>1, <3>1, <4>1 DEF BindMember
    <3>2. CASE f.varietal # "VANILLA"
      <4>1. Fits(m, DOMAIN a) /\ FindsClasses(m)
        BY <1>5, <3>2, MemberArguments, MemberClasses DEF m, a
      <4>2. /\ m.op = f.varietal
            /\ TakesData(m) => m.data_cls = get_data_arg_in_pent(f) /\ is_mutation(f.varietal)
        <5>1. CASE f.varietal \in {"CREATE_PENT", "UPDATE_PENT"}
          <6>1. \E takes : m = WritePent(f.varietal, takes, get_mutation_classes(doc, f))
            BY <5>1 DEF m, print_field, print_create_pent_field, print_update_pent_field
          <6>2. m.op = f.varietal /\ m.data_cls = get_mutation_classes(doc, f).data_cls
            BY <6>1 DEF WritePent
          <6> QED BY <5>1, <6>2 DEF get_mutation_classes, is_mutation
        <5>2. CASE f.varietal \notin {"CREATE_PENT", "UPDATE_PENT"}
          <6>1. f.varietal \in {"READ_PENT", "DELETE_PENT", "BROWSE_PENTS",
                                "GEN_FROM_STORED_ID", "EDGE_TO_STORED_ID"}
            BY <1>5, <3>2, <5>2 DEF IsParsedField, FieldVarietals, is_custom_impl
          <6>2. m.op = f.varietal
            BY <6>1 DEF m, print_field, print_read_pent_field, print_delete_pent_field,
               print_browse_pents_field, print_gen_from_stored_id_field,
               print_edge_to_stored_id_field
          <6> QED BY <5>2, <6>2 DEF TakesData
        <5> QED BY <5>1, <5>2
      <4>3. m.op # "PROPERTY" /\ ~(OnlyOnPents(m) /\ cls = "Root")
        BY <3>2, <4>2 DEF OnlyOnPents, IsParsedField, FieldVarietals
      <4>4. TakesData(m) => IsInstance(m, r)
        BY <1>1, <4>2 DEF IsInstance
      <4>5. ~Hides(cls, GoesThrough(m))
        BY <4>3
      <4> QED BY <2>1, <4>1, <4>3, <4>4, <4>5 DEF BindMember
    <3> QED BY <3>1, <3>2
  <2>3. Bind(cls, r, args) = "ok"
    BY <1>3, <2>1, <2>2 DEF Bind, a
  <2> QED BY <2>3 DEF r
<1> QED BY <1>4, <1>5 DEF r

(* What is known of the document a server was started from.                *)
LEMMA ServedDocument ==
  ASSUME AppInv, Served
  PROVE  LET doc == parse_grapple(document)
         IN  /\ IsParsed(doc) /\ app = Generated(doc) /\ Prints(doc)
             /\ WellFormed(doc) /\ TypesApart(doc) /\ FieldsApart(doc) /\ PlainInputs(doc)
             /\ stage = "serving"
  BY ParsedTypes, DocumentsAssumption DEF AppInv, Served, WellFormed

(* The fields a request names are the root types'.                         *)
LEMMA RootFieldsPrinted ==
  ASSUME NEW doc, IsParsed(doc), TypesApart(doc), FieldsApart(doc), app = Generated(doc),
         NEW f \in RootFields
  PROVE  \E g \in Range(root_fields(doc)) : f = print_graphql_field(g)
<1>1. PICK name \in {"Query", "Mutation"} \cap DOMAIN app.graphql.objects :
        \E n \in DOMAIN app.graphql.objects[name] : f = app.graphql.objects[name][n]
  BY DEF RootFields
<1>2. PICK n \in DOMAIN app.graphql.objects[name] : f = app.graphql.objects[name][n]
  BY <1>1
<1>3. PICK t \in object_types(doc) : t.name = name
  BY GraphQLHolds DEF Names
<1>4. PICK g \in Range(t.fields) : g.name = n
  BY <1>2, <1>3, GraphQLHolds DEF Names
<1>5. f = print_graphql_field(g)
  BY <1>2, <1>3, <1>4, GraphQLHolds
<1>6. t.fields \in {query_fields(doc), mutation_fields(doc)}
  BY <1>1, <1>3, RootFieldsOf
<1>7. g \in Range(root_fields(doc))
  BY <1>4, <1>6, RootFieldsTyped
<1> QED BY <1>5, <1>7

(* What holds of any field of an object type of a document that is printed. *)
LEMMA ObjectFields ==
  ASSUME NEW doc, IsParsed(doc), FieldsApart(doc), Prints(doc),
         NEW t \in object_types(doc), NEW f \in Range(t.fields)
  PROVE  /\ IsParsedField(f) /\ ArgumentsApart(f)
         /\ is_mutation(f.varietal) => RequiredDataArg(f)
<1>1. t \in Range(doc)
  BY DEF object_types, OfVarietal
<1> QED BY <1>1 DEF IsParsed, FieldsApart, ArgumentsApart, Prints, PrintsGraphQL

(* Root's fields are printed without an error.                             *)
LEMMA RootFieldsPrint ==
  ASSUME NEW doc, IsParsed(doc), Prints(doc), NEW g \in Range(root_fields(doc))
  PROVE  PrintsField(doc, g)
<1>1. \A i \in DOMAIN query_fields(doc) : PrintsField(doc, query_fields(doc)[i])
  BY DEF Prints, PrintsPents
<1>2. \A i \in DOMAIN mutation_fields(doc) : PrintsField(doc, mutation_fields(doc)[i])
  BY DEF Prints, PrintsPents
<1>3. Range(root_fields(doc)) = Range(query_fields(doc)) \cup Range(mutation_fields(doc))
  BY RootFieldsTyped
<1> QED BY <1>1, <1>2, <1>3 DEF Range

(* Any request binds.                                                      *)
LEMMA RootBinds ==
  ASSUME NEW doc, IsParsed(doc), WellFormed(doc), Prints(doc), app = Generated(doc),
         NEW g \in Range(root_fields(doc)), NEW args \in Arguments(print_graphql_field(g))
  PROVE  Bind("Root", Resolver(g), args) = "ok"
<1>1. TypesApart(doc) /\ FieldsApart(doc) /\ PlainInputs(doc) /\ RootFieldWellFormed(doc, g)
  BY DEF WellFormed
<1>2. /\ root_fields(doc) \in Seq(Range(root_fields(doc)))
      /\ Range(root_fields(doc)) = Range(query_fields(doc)) \cup Range(mutation_fields(doc))
      /\ \E t \in object_types(doc) : g \in Range(t.fields)
  BY RootFieldsTyped
<1>3. IsParsedField(g) /\ ArgumentsApart(g) /\ (is_mutation(g.varietal) => RequiredDataArg(g))
  BY <1>1, <1>2, ObjectFields
<1>4. PrintsField(doc, g)
  BY RootFieldsPrint
<1>5. Distinct(PythonNames(root_fields(doc)))
  BY <1>1 DEF FieldsApart
<1>6. /\ app.classes["Root"] = print_generated_fields(doc, root_fields(doc))
      /\ app.hand["Root"] = CustomNames(root_fields(doc))
  BY <1>1, ClassesHold
<1>7. /\ MemberWellFormed(doc, g)
      /\ g.varietal \notin {"VANILLA", "EDGE_TO_STORED_ID", "GEN_FROM_STORED_ID"}
  BY <1>1 DEF RootFieldWellFormed
<1>8. \A m : ~OnlyOnPents(m) => ~Hides("Root", GoesThrough(m))
  BY NothingHidden, GoesThroughPent
<1> QED BY <1>1, <1>2, <1>3, <1>4, <1>5, <1>6, <1>7, <1>8, MemberBinds

(* So does any field of an object a client can select.                     *)
LEMMA PentBinds ==
  ASSUME NEW doc, IsParsed(doc), WellFormed(doc), Prints(doc), app = Generated(doc),
         NEW t \in pents(doc)
  PROVE  FieldsBind(t.name)
<1>1. TypesApart(doc) /\ FieldsApart(doc) /\ PlainInputs(doc)
  BY DEF WellFormed
<1>2. t \in object_types(doc) /\ t \in Range(doc)
  BY DEF pents, object_types, OfVarietal
<1>3. SUFFICES ASSUME NEW n \in DOMAIN app.graphql.objects[t.name],
                      NEW args \in Arguments(app.graphql.objects[t.name][n])
               PROVE  Bind(t.name, app.graphql.objects[t.name][n].resolver, args) = "ok"
  BY DEF FieldsBind
<1>4. PICK f \in Range(t.fields) : n = f.name
  BY <1>1, <1>2, GraphQLHolds DEF Names
<1>5. app.graphql.objects[t.name][n] = print_graphql_field(f)
  BY <1>1, <1>2, <1>4, GraphQLHolds
<1>6. IsParsedField(f) /\ ArgumentsApart(f) /\ (is_mutation(f.varietal) => RequiredDataArg(f))
  BY <1>1, <1>2, ObjectFields
<1>7. PrintsField(doc, f)
  <2>1. \A i \in DOMAIN t.fields : PrintsField(doc, t.fields[i])
    BY DEF Prints, PrintsPents
  <2> QED BY <2>1 DEF Range
<1>8. Distinct(PythonNames(t.fields)) /\ t.fields \in Seq(Range(t.fields))
  BY <1>1, <1>2 DEF FieldsApart, IsParsed
<1>9. /\ app.classes[t.name] = print_generated_fields(doc, t.fields)
      /\ app.hand[t.name] = CustomNames(t.fields)
  BY <1>1, ClassesHold
<1>10. MemberWellFormed(doc, f) /\ t.name # "Root"
  BY <1>1 DEF WellFormed, TypesApart, PentNames, Names
<1>11. \A m : ~Hides(t.name, GoesThrough(m))
  BY NothingHidden, GoesThroughPent DEF PentNames, Names
<1>12. Bind(t.name, Resolver(f), args) = "ok"
  BY <1>1, <1>5, <1>6, <1>7, <1>8, <1>9, <1>10, <1>11, MemberBinds
<1> QED BY <1>5, <1>12 DEF print_graphql_field

----------------------------------------------------------------------------
(* Requests to a server of a well-formed document *)

(* The member that runs is the one printed for the field.                  *)
LEMMA MemberRuns ==
  ASSUME NEW doc, IsParsed(doc), WellFormed(doc), app = Generated(doc),
         NEW g \in Range(root_fields(doc)), NEW args, NEW op,
         Runs(print_graphql_field(g), args, op)
  PROVE  /\ g.varietal = op
         /\ Member(print_graphql_field(g)) = print_field(doc, g)
<1> DEFINE m == print_field(doc, g)
<1>1. TypesApart(doc) /\ FieldsApart(doc) /\ RootFieldWellFormed(doc, g)
  BY DEF WellFormed
<1>2. /\ root_fields(doc) \in Seq(Range(root_fields(doc)))
      /\ \E t \in object_types(doc) : g \in Range(t.fields)
  BY RootFieldsTyped
<1>3. IsParsedField(g) /\ g.varietal # "VANILLA"
  BY <1>1, <1>2 DEF IsParsed, object_types, OfVarietal, RootFieldWellFormed
<1>4. /\ app.classes["Root"] = print_generated_fields(doc, root_fields(doc))
      /\ app.hand["Root"] = CustomNames(root_fields(doc))
  BY <1>1, ClassesHold
<1>5. print_graphql_field(g).resolver.python_name = python_name(g)
  BY DEF print_graphql_field, Resolver
<1>6. ~is_custom_impl(g.varietal)
  BY <1>4, <1>5 DEF Runs, HandWritten, CustomNames, Range
<1>7. Member(print_graphql_field(g)) = m
  <2>1. Distinct(PythonNames(root_fields(doc)))
    BY <1>1 DEF FieldsApart
  <2>2. print_generated_fields(doc, root_fields(doc))[python_name(g)] = m
    BY <1>2, <1>6, <2>1, MemberAt
  <2> QED BY <1>4, <1>5, <2>2 DEF Member
<1>8. m.op = g.varietal
  <2>1. g.varietal \in {"READ_PENT", "CREATE_PENT", "DELETE_PENT", "UPDATE_PENT", "BROWSE_PENTS",
                        "GEN_FROM_STORED_ID", "EDGE_TO_STORED_ID"}
    BY <1>3, <1>6 DEF IsParsedField, FieldVarietals, is_custom_impl
  <2>2. CASE g.varietal \in {"CREATE_PENT", "UPDATE_PENT"}
    <3>1. \E takes : m = WritePent(g.varietal, takes, get_mutation_classes(doc, g))
      BY <2>2 DEF print_field, print_create_pent_field, print_update_pent_field
    <3> QED BY <3>1 DEF WritePent
  <2>3. CASE g.varietal \notin {"CREATE_PENT", "UPDATE_PENT"}
    BY <2>1, <2>3 DEF print_field, print_read_pent_field, print_delete_pent_field,
       print_browse_pents_field, print_gen_from_stored_id_field, print_edge_to_stored_id_field
  <2> QED BY <2>2, <2>3
<1>9. Member(print_graphql_field(g)).op = op
  BY DEF Runs
<1> QED BY <1>7, <1>8, <1>9

(* A create or an update writes the data sent, under its Python names.     *)
LEMMA WritesData ==
  ASSUME NEW doc, IsParsed(doc), WellFormed(doc), Prints(doc), app = Generated(doc),
         NEW g \in Range(root_fields(doc)), NEW args \in Arguments(print_graphql_field(g)),
         NEW op \in {"CREATE_PENT", "UPDATE_PENT"}, Runs(print_graphql_field(g), args, op)
  PROVE  /\ g.varietal = op /\ \E u \in object_types(doc) : g \in Range(u.fields)
         /\ Member(print_graphql_field(g)).pent_cls = get_mutation_classes(doc, g).pent_cls
         /\ get_mutation_classes(doc, g).pent_cls \in PentNames(doc)
         /\ \E t \in Inputs(doc) :
              /\ type_named_fields(doc, get_data_arg_in_pent(g)) = t.fields
              /\ \E d \in InputData(t.name) :
                   /\ args[Data].v = d
                   /\ process_args(args)[Data].v = Renamed(d, to_snake_case)
<1> DEFINE m == print_field(doc, g)
           c == get_mutation_classes(doc, g)
<1>1. TypesApart(doc) /\ FieldsApart(doc) /\ PlainInputs(doc) /\ RootFieldWellFormed(doc, g)
  BY DEF WellFormed
<1>2. \E u \in object_types(doc) : g \in Range(u.fields)
  BY RootFieldsTyped
<1>3. IsParsedField(g) /\ ArgumentsApart(g) /\ (is_mutation(g.varietal) => RequiredDataArg(g))
  BY <1>1, <1>2, ObjectFields
<1>4. g.varietal = op /\ Member(print_graphql_field(g)) = m
  BY MemberRuns
<1>5. m.pent_cls = c.pent_cls
  <2>1. \E o, takes : m = WritePent(o, takes, c)
    BY <1>4 DEF print_field, print_create_pent_field, print_update_pent_field
  <2> HIDE DEF m, c
  <2> QED BY <2>1 DEF WritePent
<1>6. /\ MemberWellFormed(doc, g)
      /\ get_data_arg_in_pent(g) \in Names(pent_mutation_datas(doc))
  BY <1>1, <1>4 DEF RootFieldWellFormed, MemberWellFormed
<1>7. c.pent_cls \in PentNames(doc)
  <2> DEFINE target == to_python_typename(g.type_ref.name)
  <2>1. /\ varietal(g.type_ref) = "NAMED"
        /\ python_typename(Head(type_named_fields(doc, target)).type_ref) \in PentNames(doc)
    BY <1>4, <1>6 DEF MemberWellFormed
  <2>2. python_typename(g.type_ref) = target
    BY <1>3, <2>1, NamedRefs DEF IsParsedField
  <2> HIDE DEF target
  <2> QED BY <2>1, <2>2 DEF get_mutation_classes
<1>8. is_mutation(g.varietal)
  BY <1>4 DEF is_mutation
<1>9. ArrivesAsData(doc, g, args)
  BY <1>1, <1>3, <1>6, <1>8, DataArrives
<1>10. PICK t \in pent_mutation_datas(doc) : \E d \in InputData(t.name) :
           /\ t.name = get_data_arg_in_pent(g)
           /\ args[Data].v = d
           /\ process_args(args)[Data].v = Renamed(d, to_snake_case)
  BY <1>9 DEF ArrivesAsData
<1>11. t \in Inputs(doc) /\ t \in Range(doc)
  BY DEF pent_mutation_datas, Inputs, OfVarietal
<1>12. type_named_fields(doc, get_data_arg_in_pent(g)) = t.fields
  BY <1>1, <1>10, <1>11, TypeAt DEF type_named_fields, FieldsNamed
<1> QED BY <1>2, <1>4, <1>5, <1>7, <1>10, <1>11, <1>12

(* The last edge field of a name is an edge field of that name.            *)
LEMMA LastEdgeFieldOf ==
  ASSUME NEW doc, IsParsed(doc), NEW name \in EdgeNames(doc)
  PROVE  /\ LastEdgeField(doc, name) \in PentEdgeFields(doc)
         /\ LastEdgeField(doc, name).data.edgeName = name
<1> DEFINE here == {i \in DOMAIN doc : doc[i] \in pents(doc) /\ NamedEdgeFields(doc[i], name) # {}}
           t == doc[Max(here)]
           there == {j \in DOMAIN t.fields : /\ t.fields[j].varietal = "EDGE_TO_STORED_ID"
                                             /\ t.fields[j].data.edgeName = name}
<1>1. here # {}
  <2>1. PICK g \in PentEdgeFields(doc) : g.data.edgeName = name
    BY DEF EdgeNames
  <2>2. PICK s \in pents(doc) : g \in EdgeFields(s)
    BY DEF PentEdgeFields
  <2>3. PICK i \in DOMAIN doc : doc[i] = s
    BY DEF pents, object_types, OfVarietal, Range
  <2> QED BY <2>1, <2>2, <2>3 DEF NamedEdgeFields
<1>2. here \in SUBSET (0 .. Len(doc)) /\ Len(doc) \in Nat
  BY DEF IsParsed
<1>3. Max(here) \in here
  BY <1>1, <1>2, GreatestNumber DEF Max
<1>4. t \in pents(doc) /\ NamedEdgeFields(t, name) # {} /\ t \in Range(doc)
  BY <1>3 DEF Range
<1>5. there # {}
  BY <1>4 DEF NamedEdgeFields, EdgeFields, Range
<1>6. t.fields \in Seq(Range(t.fields))
  BY <1>4 DEF IsParsed
<1>7. LastEdgeField(doc, name) = t.fields[Max(there)]
  BY DEF LastEdgeField
<1> HIDE DEF t
<1>8. there \in SUBSET (0 .. Len(t.fields)) /\ Len(t.fields) \in Nat
  BY <1>6
<1>9. Max(there) \in there
  BY <1>5, <1>8, GreatestNumber DEF Max
<1>10. /\ t.fields[Max(there)] \in Range(t.fields)
       /\ t.fields[Max(there)].varietal = "EDGE_TO_STORED_ID"
       /\ t.fields[Max(there)].data.edgeName = name
  BY <1>9 DEF Range
<1> HIDE DEF there
<1>11. t.fields[Max(there)] \in EdgeFields(t)
  BY <1>10 DEF EdgeFields
<1> QED BY <1>4, <1>7, <1>10, <1>11 DEF PentEdgeFields

(* Where edges have different names each edge field's definition is kept,  *)
(* and each definition is an edge field's.                                 *)
LEMMA EdgesKept ==
  ASSUME NEW doc, IsParsed(doc), TypesApart(doc)
  PROVE  print_kvetch_generated_edges(doc) = {define_edge_code(f) : f \in PentEdgeFields(doc)}
<1>1. ASSUME NEW f \in PentEdgeFields(doc)
      PROVE  define_edge_code(f) \in print_kvetch_generated_edges(doc)
  <2>1. f.data.edgeName \in EdgeNames(doc)
    BY DEF EdgeNames
  <2>2. define_edge_code(LastEdgeField(doc, f.data.edgeName)) = define_edge_code(f)
    BY <2>1, LastEdgeFieldOf DEF TypesApart
  <2> QED BY <2>1, <2>2 DEF print_kvetch_generated_edges
<1>2. ASSUME NEW e \in print_kvetch_generated_edges(doc)
      PROVE  \E f \in PentEdgeFields(doc) : e = define_edge_code(f)
  BY LastEdgeFieldOf DEF print_kvetch_generated_edges
<1> QED BY <1>1, <1>2

(* Each definition of an edge is an edge field's of some pent, stored on a *)
(* pent by an attribute that only takes ids.                               *)
LEMMA EdgeDefinitions ==
  ASSUME NEW doc, IsParsed(doc), WellFormed(doc), NEW e \in print_kvetch_generated_edges(doc)
  PROVE  /\ \E f \in PentEdgeFields(doc) : e.stored_id_attr = WithIdSuffix(f.data.field)
         /\ e.stored_on_type \in PentNames(doc)
         /\ \A t \in Inputs(doc) : \A h \in Range(t.fields) :
              python_name(h) = e.stored_id_attr => h.type_ref.name = "UUID" /\ ~IsList(h.type_ref)
<1>1. PICK f \in PentEdgeFields(doc) : e = define_edge_code(f)
  BY EdgesKept DEF WellFormed
<1>2. PICK t \in pents(doc) : f \in Range(t.fields) /\ f.varietal = "EDGE_TO_STORED_ID"
  BY DEF PentEdgeFields, EdgeFields
<1>3. MemberWellFormed(doc, f) /\ EdgeWellFormed(doc, t.name, f)
  BY <1>2 DEF WellFormed
<1>4. /\ e.stored_id_attr = WithIdSuffix(f.data.field)
      /\ e.stored_on_type = to_python_typename(f.type_ref.name)
  BY <1>1 DEF define_edge_code, TargetOfMany
<1>5. to_python_typename(f.type_ref.name) \in PentNames(doc)
  BY <1>2, <1>3 DEF MemberWellFormed
<1> QED BY <1>3, <1>4, <1>5 DEF EdgeWellFormed

(* A create stores an edge for each definition on its class whose          *)
(* attribute was sent, and no other: nothing makes it raise.               *)
LEMMA EdgesOfCreate ==
  ASSUME NEW doc, IsParsed(doc), WellFormed(doc), app = Generated(doc),
         NEW t \in Inputs(doc), NEW d \in InputData(t.name), NEW data,
         data = Renamed(d, to_snake_case), NEW cls \in PentNames(doc), NEW id
  PROVE  /\ InsertErrors(cls, data) = {}
         /\ \A x \in NewEdges(cls, data, id) : x[3] = id
         /\ \A e \in app.kvetch.edges : \A x :
              <<e.edge_name, x, id>> \in NewEdges(cls, data, id) <=>
                /\ cls = e.stored_on_type
                /\ e.stored_id_attr \in DOMAIN data
                /\ data[e.stored_id_attr].v = x
<1>1. TypesApart(doc) /\ FieldsApart(doc) /\ PlainInputs(doc)
  BY DEF WellFormed
<1>2. /\ DOMAIN app.kvetch.objects = PentNames(doc)
      /\ \A u \in pents(doc) : app.kvetch.objects[u.name] = u.type_id
      /\ app.kvetch.edges = print_kvetch_generated_edges(doc)
  BY <1>1, ClassesHold
<1>3. ASSUME NEW e \in app.kvetch.edges
      PROVE  /\ e.stored_on_type \in DOMAIN app.kvetch.objects
             /\ e.stored_id_attr \in DOMAIN data => /\ data[e.stored_id_attr].py = "UUID"
                                                    /\ data[e.stored_id_attr].v # 0
  <2>1. /\ e.stored_on_type \in PentNames(doc)
        /\ \A h \in Range(t.fields) :
             python_name(h) = e.stored_id_attr => h.type_ref.name = "UUID" /\ ~IsList(h.type_ref)
    BY <1>2, EdgeDefinitions
  <2>2. ASSUME e.stored_id_attr \in DOMAIN data
        PROVE  data[e.stored_id_attr].py = "UUID" /\ data[e.stored_id_attr].v # 0
    <3> DEFINE r == Renamed(d, to_snake_case)
    <3>1. /\ DOMAIN r \subseteq {python_name(h) : h \in Range(t.fields)}
          /\ \A h \in Range(t.fields) :
                  /\ h.name \in DOMAIN d <=> python_name(h) \in DOMAIN r
                  /\ h.name \in DOMAIN d => /\ r[python_name(h)] = d[h.name]
                                            /\ d[h.name] \in InputValues(h.type_ref)
      BY <1>1, InputArrives
    <3> HIDE DEF r
    <3>2. data = r
      BY DEF r
    <3>3. PICK h \in Range(t.fields) : python_name(h) = e.stored_id_attr
      BY <2>2, <3>1, <3>2
    <3>4. h.type_ref.name = "UUID" /\ ~IsList(h.type_ref)
      BY <2>1, <3>3
    <3>5. data[e.stored_id_attr] \in ScalarValues("UUID")
      BY <2>2, <3>1, <3>2, <3>3, <3>4 DEF InputValues
    <3>6. data[e.stored_id_attr].py = "UUID"
      BY <3>5, ScalarsTyped DEF to_python_typename, PythonScalars
    <3>7. data[e.stored_id_attr].v \in Ids
      BY <3>5, <3>6, ScalarsTyped DEF IsScalar
    <3> QED BY <3>6, <3>7 DEF Ids
  <2> QED BY <1>2, <2>1, <2>2
<1>4. InsertErrors(cls, data) = {}
  <2>1. {dd \in app.kvetch.edges : dd.stored_on_type \notin DOMAIN app.kvetch.objects} = {}
    BY <1>3
  <2>2. {dd \in Stored(cls, data) : data[dd.stored_id_attr].py # "UUID"} = {}
    BY <1>3 DEF Stored, DefinitionsOn
  <2> QED BY <2>1, <2>2 DEF InsertErrors
<1>5. ASSUME NEW e \in app.kvetch.edges
      PROVE  e \in Stored(cls, data) <=> cls = e.stored_on_type /\ e.stored_id_attr \in DOMAIN data
  <2>1. PICK s \in pents(doc) : s.name = cls
    BY DEF PentNames, Names
  <2>2. PICK u \in pents(doc) : u.name = e.stored_on_type
    BY <1>2, <1>3 DEF PentNames, Names
  <2>3. s.type_id = u.type_id => s = u
    BY <1>1 DEF TypesApart
  <2> QED BY <1>2, <1>3, <2>1, <2>2, <2>3 DEF Stored, DefinitionsOn
<1>6. \A e, c \in app.kvetch.edges : e.edge_name = c.edge_name => e = c
  <2>1. \A f : define_edge_code(f).edge_name = f.data.edgeName
    BY DEF define_edge_code
  <2> QED BY <1>1, <1>2, <2>1, EdgesKept DEF TypesApart
<1>7. \A x : x \in NewEdges(cls, data, id) <=>
             \E c \in app.kvetch.edges :
               /\ c \in Stored(cls, data) /\ x = <<c.edge_name, data[c.stored_id_attr].v, id>>
  <2>1. \A c \in Stored(cls, data) : c \in app.kvetch.edges /\ data[c.stored_id_attr].py = "UUID"
    BY <1>3 DEF Stored, DefinitionsOn
  <2> QED BY <2>1 DEF NewEdges
<1>8. ASSUME NEW e \in app.kvetch.edges, NEW x
      PROVE  <<e.edge_name, x, id>> \in NewEdges(cls, data, id) <=>
                /\ cls = e.stored_on_type
                /\ e.stored_id_attr \in DOMAIN data
                /\ data[e.stored_id_attr].v = x
  BY <1>5, <1>6, <1>7
<1> QED BY <1>4, <1>7, <1>8

(* What a create stores has the properties of its class, and what it sends *)
(* an update only replaces where it is sent.                               *)
LEMMA PropertiesSent ==
  ASSUME NEW doc, IsParsed(doc), WellFormed(doc), app = Generated(doc),
         NEW t \in Inputs(doc), NEW d \in InputData(t.name), NEW data,
         data = Renamed(d, to_snake_case),
         NEW s \in pents(doc), NEW f \in StoredProperties(s)
  PROVE  Stores(f, data, d)
<1>1. TypesApart(doc) /\ FieldsApart(doc) /\ PlainInputs(doc)
  BY DEF WellFormed
<1>2. f \in Range(s.fields) /\ f.varietal = "VANILLA" /\ f.name # Id /\ f.name \in GraphQLNames
  BY DEF StoredProperties, IsParsed, IsParsedField, pents, object_types, OfVarietal
<1>3. \A h \in Range(t.fields) :
        python_name(h) = python_name(f) =>
          /\ h.name = f.name
          /\ h.type_ref.name = f.type_ref.name /\ (IsList(h.type_ref) <=> IsList(f.type_ref))
  BY <1>2 DEF WellFormed, PropertyWellFormed
<1> DEFINE r == Renamed(d, to_snake_case)
<1>4. /\ DOMAIN r \subseteq {python_name(h) : h \in Range(t.fields)}
      /\ \A h \in Range(t.fields) :
           /\ h.name \in DOMAIN d <=> python_name(h) \in DOMAIN r
           /\ h.name \in DOMAIN d => /\ r[python_name(h)] = d[h.name]
                                     /\ d[h.name] \in InputValues(h.type_ref)
  BY <1>1, InputArrives
<1> HIDE DEF r
<1>5. DOMAIN d \subseteq Names(Range(t.fields))
  BY <1>1, GraphQLHolds, InputDataTyped
<1>6. ASSUME NEW h \in Range(t.fields)
      PROVE  /\ python_name(h) = to_snake_case(h.name)
             /\ h.type_ref.name \in {"String", "Int", "Boolean", "UUID"}
  BY PlainPythonName, <1>1 DEF PlainInputs, IsParsed, IsParsedField, Inputs, OfVarietal
<1>7. python_name(f) = to_snake_case(f.name)
  BY <1>2, PlainPythonName
<1>8. f.name \in DOMAIN d <=> python_name(f) \in DOMAIN r
  <2>1. ASSUME f.name \in DOMAIN d PROVE python_name(f) \in DOMAIN r
    <3>1. PICK h \in Range(t.fields) : h.name = f.name
      BY <1>5, <2>1 DEF Names
    <3> QED BY <1>4, <1>6, <1>7, <2>1, <3>1
  <2>2. ASSUME python_name(f) \in DOMAIN r PROVE f.name \in DOMAIN d
    <3>1. PICK h \in Range(t.fields) : python_name(h) = python_name(f)
      BY <1>4, <2>2
    <3> QED BY <1>3, <1>4, <2>2, <3>1
  <2> QED BY <2>1, <2>2
<1>9. ASSUME f.name \in DOMAIN d
      PROVE  r[python_name(f)] = d[f.name] /\ d[f.name].py = ArrivesAs(f.type_ref)
  <2>1. PICK h \in Range(t.fields) : h.name = f.name
    BY <1>5, <1>9 DEF Names
  <2>2. python_name(h) = python_name(f) /\ ArrivesAs(h.type_ref) = ArrivesAs(f.type_ref)
    BY <1>3, <1>6, <1>7, <2>1 DEF ArrivesAs
  <2>3. d[f.name] \in InputValues(h.type_ref)
    BY <1>4, <1>9, <2>1
  <2>4. d[f.name].py = ArrivesAs(h.type_ref)
    BY <1>6, <2>3, InputValuesTyped
  <2> QED BY <1>4, <1>9, <2>1, <2>2, <2>4
<1> QED BY <1>8, <1>9 DEF Stores, r

(* A dictionary updated by what a client sent still stores a property      *)
(* exactly when its field was sent.                                        *)
LEMMA StoresUpdated ==
  ASSUME NEW f, NEW data, NEW given, NEW more, NEW sending,
         Stores(f, data, given), Stores(f, more, sending)
  PROVE  Stores(f, Updated(data, more), Updated(given, sending))
<1>1. CASE f.name \in DOMAIN sending
  <2> DEFINE u == Updated(data, more)
             v == Updated(given, sending)
  <2>1. python_name(f) \in DOMAIN more /\ more[python_name(f)] = sending[f.name]
    BY <1>1 DEF Stores
  <2>2. /\ python_name(f) \in DOMAIN u /\ u[python_name(f)] = more[python_name(f)]
        /\ f.name \in DOMAIN v /\ v[f.name] = sending[f.name]
    BY <1>1, <2>1 DEF Updated
  <2> HIDE DEF u, v
  <2>3. Stores(f, u, v)
    BY <1>1, <2>1, <2>2 DEF Stores
  <2> QED BY <2>3 DEF u, v
<1>2. CASE f.name \notin DOMAIN sending
  <2> DEFINE u == Updated(data, more)
             v == Updated(given, sending)
  <2>1. python_name(f) \notin DOMAIN more
    BY <1>2 DEF Stores
  <2>2. /\ python_name(f) \in DOMAIN u <=> python_name(f) \in DOMAIN data
        /\ python_name(f) \in DOMAIN data => u[python_name(f)] = data[python_name(f)]
        /\ f.name \in DOMAIN v <=> f.name \in DOMAIN given
        /\ f.name \in DOMAIN given => v[f.name] = given[f.name]
    BY <1>2, <2>1 DEF Updated
  <2> HIDE DEF u, v
  <2>3. Stores(f, u, v)
    BY <2>2 DEF Stores
  <2> QED BY <2>3 DEF u, v
<1> QED BY <1>1, <1>2

(* A create makes an object with the properties and the edges its data     *)
(* calls for, and leaves the others as they were.                          *)
LEMMA CreateSteps ==
  ASSUME GrappleInv, Served, NEW f \in RootFields, NEW args \in Arguments(f), CreatePent(f, args),
         UNCHANGED <<document, stage, app>>
  PROVE  AnswerInv' /\ ObjectsInv' /\ EdgesInv'
<1> DEFINE doc == parse_grapple(document)
           data == process_args(args)[Data].v
           cls == Member(f).pent_cls
           id == Cardinality(DOMAIN sent) + 1
<1>1. /\ IsParsed(doc) /\ app = Generated(doc) /\ Prints(doc) /\ WellFormed(doc)
      /\ TypesApart(doc) /\ FieldsApart(doc) /\ PlainInputs(doc)
  BY ServedDocument DEF GrappleInv
<1>2. PICK g \in Range(root_fields(doc)) : f = print_graphql_field(g)
  BY <1>1, RootFieldsPrinted
<1>3. /\ Runs(f, args, "CREATE_PENT") /\ id \in Ids
      /\ objects' = Updated(objects, [o \in {id} |-> [cls |-> cls, data |-> data]])
      /\ sent' = Updated(sent, [o \in {id} |-> args[Data].v])
      /\ IF InsertErrors(cls, data) = {}
         THEN /\ ~Hides(cls, {Gen}) => answer' = "ok"
              /\ edges' = edges \cup NewEdges(cls, data, id)
         ELSE answer' \in InsertErrors(cls, data)
  BY DEF CreatePent
<1>4. /\ g.varietal = "CREATE_PENT" /\ \E u \in object_types(doc) : g \in Range(u.fields)
      /\ cls = get_mutation_classes(doc, g).pent_cls
      /\ get_mutation_classes(doc, g).pent_cls \in PentNames(doc)
      /\ \E t \in Inputs(doc) :
           /\ type_named_fields(doc, get_data_arg_in_pent(g)) = t.fields
           /\ \E d \in InputData(t.name) : args[Data].v = d /\ data = Renamed(d, to_snake_case)
  BY <1>1, <1>2, <1>3, WritesData
<1>5. PICK t \in Inputs(doc) :
        /\ type_named_fields(doc, get_data_arg_in_pent(g)) = t.fields
        /\ \E d \in InputData(t.name) : args[Data].v = d /\ data = Renamed(d, to_snake_case)
  BY <1>4
<1>6. PICK d \in InputData(t.name) : args[Data].v = d /\ data = Renamed(d, to_snake_case)
  BY <1>5
<1>7. id \notin DOMAIN sent
  BY FreshId DEF GrappleInv
<1>8. /\ InsertErrors(cls, data) = {}
      /\ \A x \in NewEdges(cls, data, id) : x[3] = id
      /\ \A e \in app.kvetch.edges : \A x :
           <<e.edge_name, x, id>> \in NewEdges(cls, data, id) <=>
             /\ cls = e.stored_on_type
             /\ e.stored_id_attr \in DOMAIN data
             /\ data[e.stored_id_attr].v = x
  BY <1>1, <1>4, <1>6, EdgesOfCreate
<1>9. PICK s \in pents(doc) : s.name = cls
  BY <1>4 DEF PentNames, Names
<1>10. \A p \in StoredProperties(s) : Stores(p, data, d)
  BY <1>1, <1>6, PropertiesSent
<1>11. ASSUME NEW p \in StoredProperties(s), varietal(p.type_ref) = "NONNULL"
       PROVE  p.name \in DOMAIN d
  <2>1. PropertyWellFormed(doc, s.name, p)
    BY <1>1 DEF StoredProperties, WellFormed
  <2>2. g \in Creates(doc, s.name)
    BY <1>4, <1>9 DEF Creates
  <2>3. PICK h \in Range(t.fields) : h.name = p.name /\ varietal(h.type_ref) = "NONNULL"
    BY <1>5, <1>11, <2>1, <2>2 DEF PropertyWellFormed
  <2> QED BY <1>1, <2>3, InputArrives
<1>12. ~Hides(cls, {Gen})
  BY <1>1, <1>4, NothingHidden DEF PentMembers
<1> HIDE DEF data, cls, id, doc
<1>13. /\ DOMAIN objects' = DOMAIN objects \cup {id}
       /\ objects'[id] = [cls |-> cls, data |-> data] /\ sent'[id] = d
       /\ \A o \in DOMAIN objects : /\ o # id /\ o \in DOMAIN sent
                                    /\ objects'[o] = objects[o] /\ sent'[o] = sent[o]
  <2> DEFINE new == [o \in {id} |-> [cls |-> cls, data |-> data]]
             sends == [o \in {id} |-> args[Data].v]
  <2>1. /\ DOMAIN new = {id} /\ new[id] = [cls |-> cls, data |-> data]
        /\ DOMAIN sends = {id} /\ sends[id] = d
    BY <1>6
  <2>2. DOMAIN objects \subseteq DOMAIN sent
    BY DEF GrappleInv, StoreInv
  <2> HIDE DEF new, sends
  <2>3. objects' = Updated(objects, new) /\ sent' = Updated(sent, sends)
    BY <1>3 DEF new, sends
  <2>4. /\ DOMAIN objects' = DOMAIN objects \cup {id} /\ objects'[id] = new[id]
        /\ \A o \in DOMAIN objects : o # id => objects'[o] = objects[o]
    BY <2>1, <2>3 DEF Updated
  <2>5. sent'[id] = d /\ \A o \in DOMAIN sent : o # id => sent'[o] = sent[o]
    BY <2>1, <2>3 DEF Updated
  <2> QED BY <1>7, <2>1, <2>2, <2>4, <2>5
<1>14. answer' = "ok" /\ edges' = edges \cup NewEdges(cls, data, id)
  BY <1>3, <1>8, <1>12
<1>15. ObjectsInv'
  <2> SUFFICES ASSUME NEW o \in DOMAIN objects'
               PROVE  \E u \in pents(doc) :
                        /\ objects'[o].cls = u.name
                        /\ \A p \in StoredProperties(u) :
                             /\ Stores(p, objects'[o].data, sent'[o])
                             /\ varietal(p.type_ref) = "NONNULL" => p.name \in DOMAIN sent'[o]
    BY DEF ObjectsInv, doc
  <2>1. CASE o = id
    BY <1>9, <1>10, <1>11, <1>13, <2>1
  <2>2. CASE o # id
    <3>1. o \in DOMAIN objects /\ objects'[o] = objects[o] /\ sent'[o] = sent[o]
      BY <1>13, <2>2
    <3> QED BY <3>1 DEF GrappleInv, ObjectsInv, doc
  <2> QED BY <2>1, <2>2
<1>16. EdgesInv'
  <2> SUFFICES ASSUME UpdatesKeepStoredIds(doc), NEW o \in DOMAIN objects',
                      NEW e \in app.kvetch.edges, NEW x \in Ids
               PROVE  <<e.edge_name, x, o>> \in edges' <=>
                        /\ objects'[o].cls = e.stored_on_type
                        /\ e.stored_id_attr \in DOMAIN objects'[o].data
                        /\ objects'[o].data[e.stored_id_attr].v = x
    BY DEF EdgesInv, doc
  <2>1. CASE o = id
    <3>1. <<e.edge_name, x, id>> \notin edges
      <4>1. \A y \in edges : y[3] \in DOMAIN sent
        BY DEF GrappleInv, StoreInv
      <4>2. <<e.edge_name, x, id>>[3] = id
        OBVIOUS
      <4> QED BY <1>7, <4>1, <4>2 DEF id
    <3>2. objects'[o].cls = cls /\ objects'[o].data = data
      BY <1>13, <2>1
    <3> QED BY <1>8, <1>14, <2>1, <3>1, <3>2
  <2>2. CASE o # id
    <3>1. o \in DOMAIN objects /\ objects'[o] = objects[o]
      BY <1>13, <2>2
    <3>2. <<e.edge_name, x, o>>[3] = o
      OBVIOUS
    <3>3. <<e.edge_name, x, o>> \notin NewEdges(cls, data, id)
      BY <1>8, <2>2, <3>2
    <3> QED BY <1>14, <3>1, <3>3 DEF GrappleInv, EdgesInv, doc
  <2> QED BY <2>1, <2>2
<1> QED BY <1>14, <1>15, <1>16 DEF AnswerInv

(* What a read or an update of an id answers of the class it finds.        *)
LEMMA LoadedAnswers ==
  ASSUME NEW doc, IsParsed(doc), WellFormed(doc), app = Generated(doc),
         NEW id, id.py = "UUID", NEW cls \in PentNames(doc)
  PROVE  Loaded(id, cls) \in {"ok", "wrong class"}
<1>1. ~Hides(cls, {Gen})
  BY NothingHidden DEF PentMembers
<1> QED BY <1>1 DEF Loaded

(* An update keeps the properties in step with what was sent, and the      *)
(* stored ids where it takes none.                                         *)
LEMMA UpdateSteps ==
  ASSUME GrappleInv, Served, NEW f \in RootFields, NEW args \in Arguments(f), UpdatePent(f, args),
         UNCHANGED <<document, stage, app>>
  PROVE  AnswerInv' /\ ObjectsInv' /\ EdgesInv'
<1> DEFINE doc == parse_grapple(document)
           a == process_args(args)
           data == a[Data].v
           id == a[ObjId].v
<1>1. /\ IsParsed(doc) /\ app = Generated(doc) /\ Prints(doc) /\ WellFormed(doc)
      /\ TypesApart(doc) /\ FieldsApart(doc) /\ PlainInputs(doc)
  BY ServedDocument DEF GrappleInv
<1>2. PICK g \in Range(root_fields(doc)) : f = print_graphql_field(g)
  BY <1>1, RootFieldsPrinted
<1>3. /\ Runs(f, args, "UPDATE_PENT") /\ answer' = Loaded(a[ObjId], Member(f).pent_cls)
      /\ IF id \in DOMAIN objects
         THEN /\ objects' = [objects EXCEPT ![id].data = Updated(@, data)]
              /\ sent' = [sent EXCEPT ![id] = Updated(@, args[Data].v)]
         ELSE UNCHANGED <<objects, sent>>
      /\ UNCHANGED edges
  BY DEF UpdatePent
<1>4. /\ g.varietal = "UPDATE_PENT" /\ \E u \in object_types(doc) : g \in Range(u.fields)
      /\ Member(f).pent_cls \in PentNames(doc)
      /\ \E t \in Inputs(doc) :
           /\ type_named_fields(doc, get_data_arg_in_pent(g)) = t.fields
           /\ \E d \in InputData(t.name) : args[Data].v = d /\ data = Renamed(d, to_snake_case)
  BY <1>1, <1>2, <1>3, WritesData
<1>5. PICK t \in Inputs(doc) :
        /\ type_named_fields(doc, get_data_arg_in_pent(g)) = t.fields
        /\ \E d \in InputData(t.name) : args[Data].v = d /\ data = Renamed(d, to_snake_case)
  BY <1>4
<1>6. PICK d \in InputData(t.name) : args[Data].v = d /\ data = Renamed(d, to_snake_case)
  BY <1>5
<1>7. AnswerInv'
  <2>1. IsParsedField(g) /\ ArgumentsApart(g)
    BY <1>1, <1>4, ObjectFields
  <2>2. check_required_id_arg(g)
    BY <1>1, <1>2, <1>4, RootFieldsPrint DEF PrintsField
  <2>3. a[ObjId].py = "UUID"
    BY <1>1, <1>2, <2>1, <2>2, IdArrives
  <2>4. Loaded(a[ObjId], Member(f).pent_cls) \in {"ok", "wrong class"}
    BY <1>1, <1>4, <2>3, LoadedAnswers
  <2> QED BY <1>3, <2>4 DEF AnswerInv
<1> HIDE DEF id, data, doc
<1>8. CASE id \notin DOMAIN objects
  <2>1. UNCHANGED <<objects, sent, edges>>
    BY <1>3, <1>8
  <2> QED BY <1>7, <2>1 DEF GrappleInv, ObjectsInv, EdgesInv, Served
<1>9. CASE id \in DOMAIN objects
  <2>1. /\ DOMAIN objects' = DOMAIN objects /\ id \in DOMAIN sent
        /\ objects'[id].cls = objects[id].cls
        /\ objects'[id].data = Updated(objects[id].data, data)
        /\ sent'[id] = Updated(sent[id], d)
        /\ \A o \in DOMAIN objects : o # id => objects'[o] = objects[o] /\ sent'[o] = sent[o]
    <3>1. DOMAIN objects[id] = {"cls", "data"} /\ id \in DOMAIN sent /\ DOMAIN objects \subseteq DOMAIN sent
      BY <1>9 DEF GrappleInv, StoreInv
    <3>2. /\ objects' = [objects EXCEPT ![id].data = Updated(@, data)]
          /\ sent' = [sent EXCEPT ![id] = Updated(@, d)]
      BY <1>3, <1>6, <1>9
    <3> QED BY <1>9, <3>1, <3>2
  <2>2. ObjectsInv'
    <3> SUFFICES ASSUME NEW o \in DOMAIN objects
                 PROVE  \E u \in pents(doc) :
                          /\ objects'[o].cls = u.name
                          /\ \A p \in StoredProperties(u) :
                               /\ Stores(p, objects'[o].data, sent'[o])
                               /\ varietal(p.type_ref) = "NONNULL" => p.name \in DOMAIN sent'[o]
      BY <2>1 DEF ObjectsInv, doc
    <3>1. PICK u \in pents(doc) :
            /\ objects[o].cls = u.name
            /\ \A p \in StoredProperties(u) :
                 /\ Stores(p, objects[o].data, sent[o])
                 /\ varietal(p.type_ref) = "NONNULL" => p.name \in DOMAIN sent[o]
      BY DEF GrappleInv, ObjectsInv, doc
    <3>2. CASE o = id
      <4>1. ASSUME NEW p \in StoredProperties(u)
            PROVE  /\ Stores(p, objects'[o].data, sent'[o])
                   /\ varietal(p.type_ref) = "NONNULL" => p.name \in DOMAIN sent'[o]
        <5>1. Stores(p, data, d)
          BY <1>1, <1>6, PropertiesSent
        <5>2. Stores(p, Updated(objects[o].data, data), Updated(sent[o], d))
          BY <3>1, <5>1, StoresUpdated
        <5>3. DOMAIN sent[o] \subseteq DOMAIN Updated(sent[o], d)
          BY DEF Updated
        <5> QED BY <2>1, <3>1, <3>2, <5>2, <5>3
      <4> QED BY <2>1, <3>1, <3>2, <4>1
    <3>3. CASE o # id
      BY <2>1, <3>1, <3>3
    <3> QED BY <3>2, <3>3
  <2>3. EdgesInv'
    <3> SUFFICES ASSUME UpdatesKeepStoredIds(doc), NEW o \in DOMAIN objects,
                        NEW e \in app.kvetch.edges, NEW x \in Ids
                 PROVE  <<e.edge_name, x, o>> \in edges' <=>
                          /\ objects'[o].cls = e.stored_on_type
                          /\ e.stored_id_attr \in DOMAIN objects'[o].data
                          /\ objects'[o].data[e.stored_id_attr].v = x
      BY <2>1 DEF EdgesInv, doc
    <3>1. <<e.edge_name, x, o>> \in edges <=>
            /\ objects[o].cls = e.stored_on_type
            /\ e.stored_id_attr \in DOMAIN objects[o].data
            /\ objects[o].data[e.stored_id_attr].v = x
      BY DEF GrappleInv, EdgesInv, doc
    <3>2. e.stored_id_attr \notin DOMAIN data
      <4>1. \A h \in Range(t.fields) : \A k \in PentEdgeFields(doc) :
              python_name(h) # WithIdSuffix(k.data.field)
        BY <1>4, <1>5 DEF UpdatesKeepStoredIds
      <4>2. e \in print_kvetch_generated_edges(doc)
        BY <1>1, ClassesHold
      <4>3. \A h \in Range(t.fields) : python_name(h) # e.stored_id_attr
        BY <1>1, <4>1, <4>2, EdgeDefinitions
      <4>4. DOMAIN data \subseteq {python_name(h) : h \in Range(t.fields)}
        BY <1>1, <1>6, InputArrives
      <4> QED BY <4>3, <4>4
    <3>3. CASE o = id
      <4>1. /\ e.stored_id_attr \in DOMAIN objects'[o].data <=>
                 e.stored_id_attr \in DOMAIN objects[o].data
            /\ e.stored_id_attr \in DOMAIN objects[o].data =>
                 objects'[o].data[e.stored_id_attr] = objects[o].data[e.stored_id_attr]
        <5>1. objects'[o].data = Updated(objects[o].data, data)
          BY <2>1, <3>3
        <5> QED BY <3>2, <5>1 DEF Updated
      <4>2. objects'[o].cls = objects[o].cls
        BY <2>1, <3>3
      <4> QED BY <1>3, <3>1, <4>1, <4>2
    <3>4. CASE o # id
      BY <1>3, <2>1, <3>1, <3>4
    <3> QED BY <3>3, <3>4
  <2> QED BY <1>7, <2>2, <2>3
<1> QED BY <1>8, <1>9

(* The other requests answer without an error and make no object.          *)
LEMMA OtherSteps ==
  ASSUME GrappleInv, Served, NEW f \in RootFields, NEW args \in Arguments(f),
         \/ Unbound(f, args) \/ CustomMutation(f, args) \/ ReadPent(f, args)
         \/ BrowsePents(f, args) \/ DeletePent(f, args),
         UNCHANGED <<document, stage, app>>
  PROVE  AnswerInv' /\ ObjectsInv' /\ EdgesInv'
<1> DEFINE doc == parse_grapple(document)
<1>1. /\ IsParsed(doc) /\ app = Generated(doc) /\ Prints(doc) /\ WellFormed(doc)
      /\ TypesApart(doc) /\ FieldsApart(doc) /\ PlainInputs(doc)
  BY ServedDocument DEF GrappleInv
<1>2. PICK g \in Range(root_fields(doc)) : f = print_graphql_field(g)
  BY <1>1, RootFieldsPrinted
<1>3. Bind("Root", f.resolver, args) = "ok"
  <2>1. Bind("Root", Resolver(g), args) = "ok"
    BY <1>1, <1>2, RootBinds
  <2>2. f.resolver = Resolver(g)
    BY <1>2 DEF print_graphql_field
  <2> QED BY <2>1, <2>2
<1>4. answer' \in {"ok", "wrong class", "missing"}
  <2>1. CASE ReadPent(f, args)
    <3>1. Runs(f, args, "READ_PENT") /\ answer' = Loaded(process_args(args)[ObjId], Member(f).cls)
      BY <2>1 DEF ReadPent
    <3>2. g.varietal = "READ_PENT" /\ Member(f) = print_field(doc, g)
      BY <1>1, <1>2, <3>1, MemberRuns
    <3>3. MemberWellFormed(doc, g)
      BY <1>1, <1>2 DEF WellFormed, RootFieldWellFormed
    <3>4. IsParsedField(g) /\ ArgumentsApart(g)
      BY <1>1, <1>2, ObjectFields, RootFieldsTyped
    <3>5. process_args(args)[ObjId].py = "UUID"
      BY <1>1, <1>2, <3>2, <3>3, <3>4, IdArrives DEF MemberWellFormed
    <3>6. Member(f).cls \in PentNames(doc)
      <4>1. print_field(doc, g).cls = python_typename(g.type_ref)
        BY <3>2 DEF print_field, print_read_pent_field
      <4> QED BY <3>2, <3>3, <3>4, <4>1, NamedRefs DEF MemberWellFormed, IsParsedField
    <3> QED BY <1>1, <3>1, <3>5, <3>6, LoadedAnswers
  <2>2. CASE BrowsePents(f, args)
    <3>1. /\ Runs(f, args, "BROWSE_PENTS")
          /\ answer' = IF Hides(Member(f).cls, {GenBrowse}) THEN "TypeError" ELSE "ok"
      BY <2>2 DEF BrowsePents
    <3>2. g.varietal = "BROWSE_PENTS" /\ Member(f) = print_field(doc, g)
      BY <1>1, <1>2, <3>1, MemberRuns
    <3>3. MemberWellFormed(doc, g)
      BY <1>1, <1>2 DEF WellFormed, RootFieldWellFormed
    <3>4. Member(f).cls \in PentNames(doc)
      <4>1. print_field(doc, g).cls = to_python_typename(g.type_ref.name)
        BY <3>2 DEF print_field, print_browse_pents_field, TargetOfMany
      <4> QED BY <3>2, <3>3, <4>1 DEF MemberWellFormed
    <3>5. ~Hides(Member(f).cls, {GenBrowse})
      BY <1>1, <3>4, NothingHidden DEF PentMembers
    <3> QED BY <3>1, <3>5
  <2>3. CASE Unbound(f, args) \/ CustomMutation(f, args) \/ DeletePent(f, args)
    BY <1>3, <2>3 DEF Unbound, CustomMutation, DeletePent
  <2> QED BY <2>1, <2>2, <2>3
<1>5. /\ DOMAIN objects' \subseteq DOMAIN objects /\ UNCHANGED <<edges, sent>>
      /\ \A o \in DOMAIN objects' : objects'[o] = objects[o]
  <2>1. CASE DeletePent(f, args)
    <3> DEFINE id == process_args(args)[ObjId].v
    <3>1. objects' = [o \in DOMAIN objects \ {id} |-> objects[o]] /\ UNCHANGED <<edges, sent>>
      BY <2>1 DEF DeletePent
    <3> HIDE DEF id
    <3> QED BY <3>1
  <2>2. CASE ~DeletePent(f, args)
    BY <2>2 DEF Unbound, CustomMutation, ReadPent, BrowsePents
  <2> QED BY <2>1, <2>2
<1> HIDE DEF doc
<1>6. ObjectsInv'
  BY <1>5 DEF GrappleInv, ObjectsInv, Served
<1>7. EdgesInv'
  <2>1. UNCHANGED <<document, stage, app, edges>>
    BY <1>5
  <2>2. EdgesInv
    BY DEF GrappleInv
  <2>3. ASSUME UpdatesKeepStoredIds(parse_grapple(document)), NEW o \in DOMAIN objects',
               NEW e \in app.kvetch.edges, NEW x \in Ids
        PROVE  <<e.edge_name, x, o>> \in edges <=>
                 /\ objects'[o].cls = e.stored_on_type
                 /\ e.stored_id_attr \in DOMAIN objects'[o].data
                 /\ objects'[o].data[e.stored_id_attr].v = x
    <3>1. o \in DOMAIN objects /\ objects'[o] = objects[o]
      BY <1>5
    <3> QED BY <2>2, <2>3, <3>1 DEF EdgesInv
  <2> QED BY <2>1, <2>3 DEF EdgesInv, Served
<1> QED BY <1>4, <1>6, <1>7 DEF AnswerInv

(* Every step keeps the inductive invariant.                               *)
LEMMA GrappleSteps ==
  ASSUME GrappleInv, [Next]_vars
  PROVE  GrappleInv'
<1>1. AppInv' /\ StoreInv'
  BY AppSteps, StoreSteps DEF GrappleInv
<1>2. CASE UNCHANGED vars
  BY <1>1, <1>2 DEF GrappleInv, vars, AnswerInv, ObjectsInv, EdgesInv, Served
<1>3. CASE Reject
  <2>1. ~Served'
    BY <1>3 DEF Reject, Served
  <2> QED BY <1>1, <2>1 DEF GrappleInv, AnswerInv, ObjectsInv, EdgesInv
<1>4. CASE Scaffold
  <2>1. objects' = <<>> /\ answer' = "ok"
    BY <1>4 DEF Scaffold, GrappleInv, AppInv
  <2>2. DOMAIN objects' = {}
    BY <2>1
  <2> QED BY <1>1, <2>1, <2>2 DEF GrappleInv, AnswerInv, ObjectsInv, EdgesInv
<1>5. CASE Request
  <2>1. stage = "serving" /\ UNCHANGED <<document, stage, app>>
    BY <1>5 DEF Request
  <2>2. CASE ~Served
    <3>1. ~Served'
      BY <2>1, <2>2 DEF Served
    <3> QED BY <1>1, <3>1 DEF GrappleInv, AnswerInv, ObjectsInv, EdgesInv
  <2>3. CASE Served
    <3>1. PICK f \in RootFields : \E args \in Arguments(f) :
            \/ Unbound(f, args) \/ CustomMutation(f, args)
            \/ ReadPent(f, args) \/ BrowsePents(f, args)
            \/ CreatePent(f, args) \/ UpdatePent(f, args) \/ DeletePent(f, args)
      BY <1>5 DEF Request
    <3>2. PICK args \in Arguments(f) :
            \/ Unbound(f, args) \/ CustomMutation(f, args)
            \/ ReadPent(f, args) \/ BrowsePents(f, args)
            \/ CreatePent(f, args) \/ UpdatePent(f, args) \/ DeletePent(f, args)
      BY <3>1
    <3>3. AnswerInv' /\ ObjectsInv' /\ EdgesInv'
      BY <2>1, <2>3, <3>2, CreateSteps, UpdateSteps, OtherSteps
    <3> QED BY <1>1, <3>3 DEF GrappleInv
  <2> QED BY <2>2, <2>3
<1> QED BY <1>2, <1>3, <1>4, <1>5 DEF Next

(* GrappleInv holds always.                                                *)
LEMMA GrappleInvariant == Spec => []GrappleInv
<1>1. Init => GrappleInv
  <2> SUFFICES ASSUME Init PROVE GrappleInv
    OBVIOUS
  <2>1. ~Served
    BY DEF Init, Served
  <2>2. AppInv /\ StoreInv
    BY StartOfServer
  <2> QED BY <2>1, <2>2 DEF GrappleInv, AnswerInv, ObjectsInv, EdgesInv
<1>2. GrappleInv /\ [Next]_vars => GrappleInv'
  BY GrappleSteps
<1> QED BY <1>1, <1>2, PTL DEF Spec

----------------------------------------------------------------------------
(* The properties *)

(* No request of a well-formed document's server raises for a name, an     *)
(* argument or a class, and no field of an object it can select does:      *)
(* RequestsBind, for any documents.                                        *)
THEOREM RequestsBindCorrect == Spec => []RequestsBind
<1>1. GrappleInv => RequestsBind
  <2> SUFFICES ASSUME GrappleInv, Served
               PROVE  /\ answer \notin {"TypeError", "AttributeError", "KeyError",
                                        "InvariantViolation"}
                      /\ \A o \in DOMAIN objects : FieldsBind(objects[o].cls)
    BY DEF RequestsBind
  <2> DEFINE doc == parse_grapple(document)
  <2>1. IsParsed(doc) /\ app = Generated(doc) /\ Prints(doc) /\ WellFormed(doc)
    BY ServedDocument DEF GrappleInv
  <2>2. \A o \in DOMAIN objects : \E t \in pents(doc) : objects[o].cls = t.name
    BY DEF GrappleInv, ObjectsInv
  <2> HIDE DEF doc
  <2>3. \A o \in DOMAIN objects : FieldsBind(objects[o].cls)
    BY <2>1, <2>2, PentBinds
  <2> QED BY <2>3 DEF GrappleInv, AnswerInv
<1> QED BY <1>1, GrappleInvariant, PTL

(* A field that is read off the row, unless it is the id.                  *)
IsPlain(cls, n) ==
  /\ n \in DOMAIN app.graphql.objects[cls] /\ n # Id
  /\ app.graphql.objects[cls][n].resolver.kind = "default"
  /\ app.graphql.objects[cls][n].resolver.python_name \notin app.hand[cls]

(* What such a field of a pent is to a client and to the generated class.  *)
LEMMA PlainField ==
  ASSUME NEW doc, IsParsed(doc), WellFormed(doc), app = Generated(doc), NEW t \in pents(doc),
         NEW n, IsPlain(t.name, n)
  PROVE  \E f \in StoredProperties(t) :
           /\ n = f.name /\ python_name(f) # ObjId
           /\ MemberNamed(t.name, n) = PropertyOf(f, python_name(f))
<1>1. TypesApart(doc) /\ FieldsApart(doc) /\ t \in object_types(doc) /\ t \in Range(doc)
  BY DEF WellFormed, pents, object_types, OfVarietal
<1>2. PICK f \in Range(t.fields) : n = f.name
  <2>1. DOMAIN app.graphql.objects[t.name] = Names(Range(t.fields))
    BY <1>1, GraphQLHolds
  <2> QED BY <2>1 DEF Names, IsPlain
<1>3. app.graphql.objects[t.name][n].resolver = Resolver(f)
  <2>1. app.graphql.objects[t.name][f.name] = print_graphql_field(f)
    BY <1>1, GraphQLHolds
  <2> QED BY <1>2, <2>1 DEF print_graphql_field
<1>4. /\ app.classes[t.name] = print_generated_fields(doc, t.fields)
      /\ app.hand[t.name] = CustomNames(t.fields)
  BY <1>1, ClassesHold
<1>5. Resolver(f).python_name = python_name(f)
  BY DEF Resolver
<1>6. ~is_custom_impl(f.varietal)
  BY <1>3, <1>4, <1>5 DEF CustomNames, Range, IsPlain
<1>7. ~is_gen_varietal(f.varietal) /\ ~is_mutation(f.varietal)
  BY <1>3 DEF Resolver, IsPlain
<1>8. f.varietal = "VANILLA"
  <2>1. f.varietal \in FieldVarietals
    BY <1>1 DEF IsParsed, IsParsedField
  <2> QED BY <1>6, <1>7, <2>1 DEF FieldVarietals, is_custom_impl, is_gen_varietal
<1>9. f \in StoredProperties(t) /\ python_name(f) # ObjId
  BY <1>1, <1>2, <1>8 DEF StoredProperties, FieldsApart, RowKeys, IsPlain
<1>10. app.classes[t.name][python_name(f)] = PropertyOf(f, python_name(f))
  <2>1. Distinct(PythonNames(t.fields)) /\ t.fields \in Seq(Range(t.fields))
    BY <1>1 DEF FieldsApart, IsParsed
  <2>2. app.classes[t.name][python_name(f)] = print_field(doc, f)
    BY <1>4, <1>6, <2>1, MemberAt
  <2> QED BY <1>8, <2>2 DEF print_field, print_vanilla_field
<1> QED BY <1>2, <1>3, <1>5, <1>9, <1>10 DEF MemberNamed

(* What a client sent under a field's name is what it reads there, and     *)
(* what it left out is null: ReadsBack, for any documents.                 *)
THEOREM ReadsBackCorrect == Spec => []ReadsBack
<1>1. GrappleInv => ReadsBack
  <2> SUFFICES ASSUME GrappleInv, Served, NEW o \in DOMAIN objects, NEW n \in DOMAIN GraphQLType(o),
                      IsStoredField(o, n)
               PROVE  Property(o, MemberOf(o, n)) = IF n \in DOMAIN sent[o] THEN sent[o][n] ELSE None
    BY DEF ReadsBack
  <2> DEFINE doc == parse_grapple(document)
  <2>1. IsParsed(doc) /\ app = Generated(doc) /\ Prints(doc) /\ WellFormed(doc)
    BY ServedDocument DEF GrappleInv
  <2>2. PICK t \in pents(doc) :
          /\ objects[o].cls = t.name
          /\ \A f \in StoredProperties(t) :
               /\ Stores(f, objects[o].data, sent[o])
               /\ varietal(f.type_ref) = "NONNULL" => f.name \in DOMAIN sent[o]
    BY DEF GrappleInv, ObjectsInv
  <2> HIDE DEF doc
  <2>3. IsPlain(t.name, n) /\ MemberOf(o, n) = MemberNamed(t.name, n)
    BY <2>2 DEF GraphQLType, MemberOf, MemberNamed, IsStoredField, IsPlain
  <2>4. PICK f \in StoredProperties(t) :
          n = f.name /\ python_name(f) # ObjId /\ MemberOf(o, n) = PropertyOf(f, python_name(f))
    BY <2>1, <2>3, PlainField
  <2> DEFINE m == PropertyOf(f, python_name(f))
             data == objects[o].data
  <2>5. /\ m.attr = python_name(f) /\ m.required = (varietal(f.type_ref) = "NONNULL")
        /\ m.py = to_python_typename(f.type_ref.name) /\ (m.typed => ~IsList(f.type_ref))
    BY DEF PropertyOf, python_typing_string
  <2>6. /\ python_name(f) \in DOMAIN Row(o) <=> python_name(f) \in DOMAIN data
        /\ python_name(f) \in DOMAIN data => Row(o)[python_name(f)] = data[python_name(f)]
    BY <2>4 DEF Row, Updated
  <2>7. /\ python_name(f) \in DOMAIN data <=> n \in DOMAIN sent[o]
        /\ n \in DOMAIN sent[o] => /\ data[python_name(f)] = sent[o][n]
                                   /\ sent[o][n].py = ArrivesAs(f.type_ref)
        /\ varietal(f.type_ref) = "NONNULL" => n \in DOMAIN sent[o]
    BY <2>2, <2>4 DEF Stores
  <2> HIDE DEF m, data
  <2>8. Property(o, m) = IF n \in DOMAIN sent[o] THEN sent[o][n] ELSE None
    BY <2>5, <2>6, <2>7 DEF Property, ArrivesAs
  <2> QED BY <2>4, <2>8 DEF m
<1> QED BY <1>1, GrappleInvariant, PTL

(* An edge field and the field it names lead to each other:                *)
(* EdgesMirrorStoredIds, for any documents.                                *)
THEOREM EdgesMirrorCorrect == Spec => []EdgesMirrorStoredIds
<1>1. GrappleInv => EdgesMirrorStoredIds
  <2> DEFINE doc == parse_grapple(document)
  <2> SUFFICES ASSUME GrappleInv, Served, UpdatesKeepStoredIds(doc),
                      NEW x \in DOMAIN objects, NEW t \in pents(doc), t.name = objects[x].cls,
                      NEW f \in EdgeFields(t)
               PROVE  LET m == MemberNamed(t.name, f.name)
                          back == MemberNamed(m.cls, f.data.field)
                          leading == {o \in DOMAIN objects :
                                        objects[o].cls = m.cls /\ StoredId(o, back) = x}
                      IN  IF Raises(x, m)
                          THEN leading = {} \/ \E to \in Targets(x, m) : to \notin DOMAIN objects
                          ELSE Targets(x, m) = leading
    BY DEF EdgesMirrorStoredIds
  <2>1. /\ IsParsed(doc) /\ app = Generated(doc) /\ WellFormed(doc)
        /\ TypesApart(doc) /\ FieldsApart(doc)
    BY ServedDocument DEF GrappleInv
  <2>2. \A o \in DOMAIN objects : \A e \in app.kvetch.edges : \A y \in Ids :
          <<e.edge_name, y, o>> \in edges <=>
            /\ objects[o].cls = e.stored_on_type
            /\ e.stored_id_attr \in DOMAIN objects[o].data
            /\ objects[o].data[e.stored_id_attr].v = y
    BY DEF GrappleInv, EdgesInv
  <2> HIDE DEF doc
  <2>3. ASSUME NEW s \in pents(doc), NEW g \in Range(s.fields), ~is_custom_impl(g.varietal)
        PROVE  MemberNamed(s.name, g.name) = print_field(doc, g)
    <3>1. s \in object_types(doc) /\ s \in Range(doc)
      BY DEF pents, object_types, OfVarietal
    <3>2. app.graphql.objects[s.name][g.name] = print_graphql_field(g)
      BY <2>1, <3>1, GraphQLHolds
    <3>3. print_graphql_field(g).resolver.python_name = python_name(g)
      BY DEF print_graphql_field, Resolver
    <3>4. app.classes[s.name] = print_generated_fields(doc, s.fields)
      BY <2>1, ClassesHold
    <3>5. Distinct(PythonNames(s.fields)) /\ s.fields \in Seq(Range(s.fields))
      BY <2>1, <3>1 DEF FieldsApart, IsParsed
    <3>6. print_generated_fields(doc, s.fields)[python_name(g)] = print_field(doc, g)
      BY <2>3, <3>5, MemberAt
    <3> QED BY <3>2, <3>3, <3>4, <3>6 DEF MemberNamed
  <2> DEFINE target == TargetOfMany(f.type_ref)
             attr == WithIdSuffix(f.data.field)
             m == MemberNamed(t.name, f.name)
  <2>4. f \in Range(t.fields) /\ f.varietal = "EDGE_TO_STORED_ID"
    BY DEF EdgeFields
  <2>5. m.cls = target /\ m.edge_name = f.data.edgeName
    <3>1. m = print_field(doc, f)
      BY <2>3, <2>4 DEF is_custom_impl
    <3>2. print_field(doc, f) = print_edge_to_stored_id_field(f)
      BY <2>4 DEF print_field
    <3> HIDE DEF m
    <3> QED BY <3>1, <3>2 DEF print_edge_to_stored_id_field
  <2>6. MemberWellFormed(doc, f) /\ EdgeWellFormed(doc, t.name, f)
    BY <2>1, <2>4 DEF WellFormed
  <2>7. PICK u \in pents(doc) : u.name = target
    BY <2>4, <2>6 DEF MemberWellFormed, PentNames, Names, TargetOfMany
  <2>8. type_named_fields(doc, target) = u.fields
    <3>1. u \in Range(doc)
      BY DEF pents, object_types, OfVarietal
    <3> QED BY <2>1, <2>7, <3>1, TypeAt DEF type_named_fields, FieldsNamed
  <2>9. PICK b \in Range(u.fields) : b.name = f.data.field /\ b.varietal = "GEN_FROM_STORED_ID"
    BY <2>6, <2>8 DEF EdgeWellFormed
  <2> DEFINE back == MemberNamed(target, f.data.field)
  <2>10. back.prop = attr
    <3>1. back = print_field(doc, b)
      BY <2>3, <2>7, <2>9 DEF is_custom_impl
    <3>2. print_field(doc, b) = print_gen_from_stored_id_field(b)
      BY <2>9 DEF print_field
    <3> HIDE DEF back
    <3> QED BY <2>9, <3>1, <3>2 DEF print_gen_from_stored_id_field
  <2>11. PICK e \in app.kvetch.edges :
           /\ e.edge_name = f.data.edgeName /\ e.stored_id_attr = attr
           /\ e.stored_on_type = target
    <3>1. f \in PentEdgeFields(doc)
      BY DEF PentEdgeFields
    <3>2. app.kvetch.edges = print_kvetch_generated_edges(doc)
      BY <2>1, ClassesHold
    <3>3. define_edge_code(f) \in app.kvetch.edges
      BY <2>1, <3>1, <3>2, EdgesKept
    <3> QED BY <3>3 DEF define_edge_code
  <2>12. x \in Ids /\ x # None /\ x # 0
    <3>1. x \in DOMAIN sent /\ DOMAIN sent \subseteq Ids
      BY MaxObjectsAssumption DEF GrappleInv, StoreInv, Ids
    <3> QED BY <3>1, NoneAssumption, MaxObjectsAssumption DEF Ids
  <2> HIDE DEF target, attr, m, back
  <2>13. ASSUME NEW o \in DOMAIN objects
         PROVE  <<m.edge_name, x, o>> \in edges <=>
                  objects[o].cls = target /\ StoredId(o, back) = x
    BY <2>2, <2>5, <2>10, <2>11, <2>12 DEF StoredId
  <2> DEFINE leading == {o \in DOMAIN objects : objects[o].cls = m.cls /\ StoredId(o, back) = x}
  <2>14. leading = Targets(x, m) \cap DOMAIN objects
    <3>1. \A o : o \in Targets(x, m) <=> <<m.edge_name, x, o>> \in edges
      <4>1. \A y \in edges : \E e1, from, to : y = <<e1, from, to>>
        BY DEF GrappleInv, StoreInv
      <4> QED BY <4>1 DEF Targets
    <3> QED BY <2>5, <2>13, <3>1
  <2>15. ~Hides(m.cls, {GenList})
    <3>1. m.cls \in PentNames(doc)
      BY <2>5, <2>7 DEF PentNames, Names
    <3> QED BY <2>1, <3>1, NothingHidden DEF PentMembers
  <2>16. IF Raises(x, m)
         THEN leading = {} \/ \E to \in Targets(x, m) : to \notin DOMAIN objects
         ELSE Targets(x, m) = leading
    <3>1. CASE \E to \in Targets(x, m) : to \notin DOMAIN objects
      BY <3>1 DEF Raises
    <3>2. CASE \A to \in Targets(x, m) : to \in DOMAIN objects
      <4>1. leading = Targets(x, m)
        BY <2>14, <3>2
      <4>2. \A to \in Targets(x, m) : objects[to].cls = m.cls
        BY <4>1
      <4> HIDE DEF leading
      <4> QED BY <2>15, <3>2, <4>1, <4>2 DEF Raises
    <3> QED BY <3>1, <3>2
  <2>17. MemberNamed(m.cls, f.data.field) = back
    BY <2>5 DEF back
  <2> QED BY <2>16, <2>17 DEF m
<1> QED BY <1>1, GrappleInvariant, PTL
=============================================================================
