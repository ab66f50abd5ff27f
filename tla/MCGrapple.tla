----------------------------- MODULE MCGrapple -----------------------------
(***************************************************************************)
(* The documents: the todo application of README.rst and test_pent_grapple *)
(* with a second pent behind an edge, and variants of it that differ in    *)
(* naming convention, in what a printer checks, and in what none checks.   *)
(***************************************************************************)
EXTENDS GrappleServer, TLC

Camel(a, b) == [w |-> <<a, b>>, camel |-> TRUE]
Snake(a, b) == [w |-> <<a, b>>, camel |-> FALSE]

Ref(name) == [wrap |-> <<>>, name |-> name]
Req(name) == [wrap |-> <<"NONNULL">>, name |-> name]
ListOf(name) == [wrap |-> <<"LIST">>, name |-> name]
ReqList(name) == [wrap |-> <<"NONNULL", "LIST">>, name |-> name]
Many(name) == [wrap |-> <<"NONNULL", "LIST", "NONNULL">>, name |-> name]

Dir(name, args) == name :> args
NoDirs == <<>>
NoArgs == <<>>
Arg(name, type) == [name |-> name, type |-> type, default |-> None]
Field(name, type, args, dirs) == [name |-> name, type |-> type, args |-> args, dirs |-> dirs]
Type(kind, name, dirs, fields) == [kind |-> kind, name |-> name, dirs |-> dirs, fields |-> fields]
Payload(name, field, type) ==
  Type("object", name, Dir("pentMutationPayload", NoArgs), <<Field(field, type, <<>>, NoDirs)>>)
Input(name, dirs, fields) == Type("input", name, dirs, fields)
MutationData == Dir("pentMutationData", NoArgs)

Page == <<[Arg(First, Ref("Int")) EXCEPT !.default = "Int"], Arg(After, Ref("UUID"))>>

\* The choices a document is written with.
Base == [name |-> Word("name"), nameType |-> Req("String"), nameSent |-> Req("String"),
         back |-> Word("owner"), stored |-> Camel("owner", "id"), storedType |-> Ref("UUID"),
         readArg |-> Id,
         read |-> Ref("User"), page |-> Page,
         dataDirs |-> MutationData, dataRef |-> Req("UserData"), payload |-> Ref("UserPayload"),
         edge |-> Many("TodoList"), edgeArgs |-> [edgeName |-> "lists", edgeId |-> 1],
         extra |-> "none", userDirs |-> Dir("pent", [typeId |-> 1])]

Document(c) ==
  << Type("object", "Query", NoDirs,
       << Field(Word("user"), c.read, <<Arg(c.readArg, Req("UUID"))>>, Dir("readPent", NoArgs)),
          Field(Camel("all", "users"), Many("User"), c.page, Dir("browsePents", NoArgs)) >>),
     Type("object", "User", c.userDirs,
       << Field(Id, Req("UUID"), <<>>, NoDirs),
          Field(c.name, c.nameType, <<>>, NoDirs),
          Field(Word("shout"), Ref("String"), <<>>, Dir("custom", NoArgs)),
          Field(Camel("todo", "lists"), c.edge, Page,
                Dir("edgeToStoredId", c.edgeArgs @@ [field |-> c.back])) >> \o
       IF c.extra = "members"
       THEN <<Field(Word("friend"), Ref("User"), <<Arg(Id, Req("UUID"))>>, Dir("readPent", NoArgs))>>
       ELSE IF c.extra = "edge twice"
       THEN <<Field(Camel("old", "lists"), c.edge, Page,
                    Dir("edgeToStoredId", c.edgeArgs @@ [field |-> Camel("old", "owner")]))>>
       ELSE <<>>),
     Type("object", "TodoList", Dir("pent", [typeId |-> 2]),
       << Field(Word("title"), Ref("String"), <<>>, NoDirs),
          Field(c.back, Ref("User"), <<>>, Dir("genFromStoredId", NoArgs)) >> \o
       IF c.extra = "edge twice"
       THEN <<Field(Camel("old", "owner"), Ref("User"), <<>>, Dir("genFromStoredId", NoArgs))>>
       ELSE <<>>),
     Type("object", "Mutation", NoDirs,
       << Field(Camel("create", "user"), c.payload, <<Arg(Data, c.dataRef)>>,
                Dir("createPent", NoArgs)),
          Field(Camel("update", "user"), Ref("UserPayload"),
                <<Arg(Id, Req("UUID")), Arg(Data, Req("UserChange"))>>, Dir("updatePent", NoArgs)),
          Field(Camel("delete", "user"), Ref("Deleted"), <<Arg(Id, Req("UUID"))>>,
                Dir("deletePent", [type |-> "User"])),
          Field(Camel("create", "list"), Ref("ListPayload"), <<Arg(Data, Req("ListData"))>>,
                Dir("createPent", NoArgs)),
          Field(Word("greet"), Ref("UserPayload"), <<Arg(Data, Req("UserChange"))>>,
                Dir("customMutation", NoArgs)) >> \o
       IF c.extra = "members"
       THEN <<Field(Camel("update", "list"), Ref("ListPayload"),
                    <<Arg(Id, Req("UUID")), Arg(Data, Req("ListData"))>>, Dir("updatePent", NoArgs))>>
       ELSE <<>>),
     Input("UserData", c.dataDirs,
       <<Field(c.name, c.nameSent, <<>>, NoDirs)>> \o
       IF c.extra = "input id" THEN <<Field(Id, Ref("UUID"), <<>>, NoDirs)>> ELSE <<>>),
     Input("UserChange", MutationData, <<Field(c.name, inner_type(c.nameSent), <<>>, NoDirs)>>),
     Input("ListData", MutationData,
       <<Field(c.stored, c.storedType, <<>>, NoDirs)>>),
     Payload("UserPayload", Word("user"), Ref("User")),
     Payload("ListPayload", Camel("todo", "list"), Ref("TodoList")),
     Payload("Deleted", Camel("deleted", "id"), Ref("UUID")) >> \o
  IF c.extra = "interface" THEN <<Type("interface", "Node", NoDirs, <<>>)>> ELSE <<>>

\* Each convention for the names the two sides map.
Conventions ==
  {[Base EXCEPT !.name = n] : n \in {Word("name"), Camel("first", "name"), Snake("first", "name")}}
  \cup
  {[Base EXCEPT !.back = b.field, !.stored = b.stored] :
     b \in {[field |-> Word("owner"), stored |-> Snake("owner", "id")],
            [field |-> Camel("listed", "by"),
             stored |-> [w |-> <<"listed", "by", "id">>, camel |-> TRUE]],
            [field |-> Snake("listed", "by"),
             stored |-> [w |-> <<"listed", "by", "id">>, camel |-> FALSE]]}}
  \cup
  {[Base EXCEPT !.extra = "members"],   \* a pent that reads pents, an update of a stored id
   [Base EXCEPT !.nameType = ReqList("String"), !.nameSent = ReqList("String")]}

\* What a printer or the parser rejects.
Rejected ==
  {[Base EXCEPT !.page = <<Arg(First, Ref("Int")), Arg(After, Ref("UUID"))>>],
   [Base EXCEPT !.page = Page \o <<Arg(Data, Ref("Int"))>>],
   [Base EXCEPT !.dataRef = Ref("UserData")],
   [Base EXCEPT !.payload = Req("UserPayload")],
   [Base EXCEPT !.edge = Ref("TodoList")],
   [Base EXCEPT !.edgeArgs = [edgeName |-> "lists"]],
   [Base EXCEPT !.userDirs = Dir("pent", NoArgs)],
   [Base EXCEPT !.extra = "interface"]}

\* What is served although a request will fail, or never starts (Float, class,
\* self).
Careless ==
  {[Base EXCEPT !.readArg = Camel("user", "id")],
   [Base EXCEPT !.read = Req("User")],
   [Base EXCEPT !.dataDirs = NoDirs],
   [Base EXCEPT !.extra = "input id"],
   [Base EXCEPT !.extra = "edge twice"],
   [Base EXCEPT !.nameType = Req("ID"), !.nameSent = Req("ID")],
   [Base EXCEPT !.nameType = Req("Float"), !.nameSent = Req("Float")],
   [Base EXCEPT !.nameSent = ReqList("String")],
   [Base EXCEPT !.storedType = Ref("String")],
   [Base EXCEPT !.storedType = ListOf("UUID")],
   [Base EXCEPT !.stored = Word("owner")]}
  \cup   \* members that hide Pent.gen and Pent.gen_list, names Python refuses
  {[Base EXCEPT !.name = n] : n \in {Word("gen"), Word("class"), Word("self")}} \cup
  {[Base EXCEPT !.back = Word("list"), !.stored = Camel("list", "id")]}

MCDocuments == {Document(c) : c \in Conventions \cup Rejected \cup Careless}
=============================================================================
