------------------------------- MODULE Coders -------------------------------
(***************************************************************************)
(* The type coders (generator/src): what each of them writes, as far as it *)
(* concerns other files.  A coder stands for one exported declaration; to  *)
(* write it is to walk over a part of an OpenAPI document and to leave, in *)
(* the order of the walk, marks: declarations that are imported, helper    *)
(* types that are imported from outside, and declarations of its own that  *)
(* are exported beside it.                                                 *)
(*                                                                         *)
(* The nodes of a document are records with the fields that the document   *)
(* gives them.  What is an object with keys of the user's (properties,     *)
(* responses, content, headers) is a sequence of pairs; a reference is the *)
(* category and the name of a component; a boolean schema has the field    *)
(* `always`, and `type` is always a list.                                  *)
(***************************************************************************)
EXTENDS Naturals, Sequences, SequencesExt, TLC

CONSTANTS
    Documents,   \* from the names of documents to what they say
    Identifier   \* from names to identifiers of TypeScript, several to one

Has(node, field) == field \in DOMAIN node

HttpVerbs == {"get", "put", "post", "delete", "options", "head", "patch", "trace"}
StreamingContentTypes ==
    {"text/event-stream", "application/jsonl", "application/x-ndjson", "application/ndjson",
     "application/json-seq"}
Upper == [get |-> "GET", put |-> "PUT", post |-> "POST", delete |-> "DELETE", query |-> "QUERY"]

Missing == [missing |-> TRUE]
Concat(Op(_), sequence) == FlattenSeq([i \in DOMAIN sequence |-> Op(sequence[i])])

\* Specification.getRequirement(), for a component.
Component(doc, ref) ==
    LET found == SelectSeq(doc.components, LAMBDA c : <<c[1], c[2]>> = ref)
    IN IF found = <<>> THEN Missing ELSE found[1][3]

\* Requirement.get() and has() go through references.
RECURSIVE Follow(_, _)
Follow(doc, node) == IF Has(node, "ref") THEN Follow(doc, Component(doc, node.ref)) ELSE node
-----------------------------------------------------------------------------
(* Coders and how they are told apart.                                     *)

NoCoder == [class |-> "none", version |-> "", doc |-> "", ref |-> <<>>, url |-> <<>>, kind |-> ""]
ByReference(class, version, doc, ref) ==
    [NoCoder EXCEPT !.class = class, !.version = version, !.doc = doc, !.ref = ref]
\* The URL of an operation is that of its path item, whatever this refers to.
OfOperation(class, version, doc, path, method) ==
    [NoCoder EXCEPT !.class = class, !.version = version, !.doc = doc,
                    !.url = <<Documents[doc].source, path, method>>]
As(class, coder) == [coder EXCEPT !.class = class]
OfParameters(coder, kind) == [coder EXCEPT !.class = "Parameter", !.kind = kind]

PathOf(coder) == coder.url[2]
MethodOf(coder) == Upper[coder.url[3]]
BaseName(coder) == "HTTP_" \o MethodOf(coder)

ModulePath(coder) ==
    CASE coder.class = "Schema" -> <<"types", coder.version>> \o coder.ref
      [] coder.class = "Component" -> <<"types", coder.version>> \o coder.ref
      [] coder.class = "Multipart" -> <<"types/multipart", coder.version>> \o coder.ref
      [] coder.class = "Response" -> <<"types/#", coder.version>> \o coder.ref
      [] coder.class = "Operation" -> <<"routes.types", PathOf(coder)>>
      [] coder.class = "VersionedArg" -> <<"types", coder.version, PathOf(coder)>>
      [] coder.class = "OperationType" -> <<"types/paths", PathOf(coder)>>
      \* Their parameters are exported beside an unversioned or a versioned operation.
      [] coder.class = "Parameter" ->
           IF coder.version = "" THEN <<"types/paths", PathOf(coder)>>
           ELSE <<"types", coder.version, PathOf(coder)>>

\* References are told apart by what they say, not by the document they say it in.
Id(coder) == [NoCoder EXCEPT !.class = coder.class, !.ref = coder.ref, !.url = coder.url,
                !.kind = coder.kind,
                !.version = IF coder.class = "VersionedArg" THEN coder.version ELSE ""]
ExportId(coder) ==
    IF coder.class \in {"Operation", "OperationType"} /\ coder.version # ""
    THEN [Id(coder) EXCEPT !.url = <<PathOf(coder), MethodOf(coder)>>]
    ELSE Id(coder)

\* The names that a coder proposes, of which all but Parameter have a hundred.
NameOf(coder) ==
    CASE coder.class = "Operation" -> MethodOf(coder)
      [] coder.class = "OperationType" -> BaseName(coder)
      [] coder.class = "VersionedArg" -> BaseName(coder) \o "_$_" \o Identifier[coder.version]
      [] coder.class = "Parameter" -> BaseName(coder) \o "_" \o coder.kind
      [] OTHER -> Identifier[coder.ref[2]]
NamesOf(coder) == IF coder.class = "Parameter" THEN 1 ELSE 100
NameAt(coder, i) == IF i = 1 THEN NameOf(coder) ELSE NameOf(coder) \o ToString(i)
-----------------------------------------------------------------------------
(* Marks.  `name` is the name that is asked for, or the type's own.        *)

Mark(op, coder, name) == [op |-> op, coder |-> coder, name |-> name]
Import(coder) == Mark("import", coder, "")
ImportExternal(type) == Mark("external", NoCoder, type)
ExportHere(coder) == Mark("export", coder, "")
\* A helper type that is written by its own name, whatever it was imported as.
Literally(type) == Mark("literal", NoCoder, type)

\* SchemaTypeCoder, MultipartSchemaTypeCoder: additionalPropertiesType().
HasTypeOf(property, additional) ==
    Has(property, "type") /\ Has(additional, "type") /\ property.type = additional.type
IndexIsTyped(node, properties) ==
    /\ ~ Has(node.additional, "always")
    /\ properties # <<>> => /\ Has(node.additional, "type")
                            /\ \A i \in DOMAIN properties :
                                 HasTypeOf(properties[i][2], node.additional)

IsFile(class, node) ==
    /\ class = "Multipart" /\ Has(node, "type")
    /\ \/ Contains(node.type, "string") /\ Has(node, "format") /\ node.format = "binary"
       \/ Contains(node.type, "file")
IsBinary(node) ==
    /\ Has(node, "type")
    /\ \/ node.type = <<"string">> /\ Has(node, "format") /\ node.format = "binary"
       \/ node.type = <<"file">>

RECURSIVE WriteSchema(_, _), ObjectSchema(_, _), ArraySchema(_, _), WriteGroup(_, _, _)

\* What is written for each of the schemas in a field, or for the one that is there.
OfAll(coder, node, field) ==
    LET Child(n) == WriteSchema(coder, n)
    IN IF Has(node, field) THEN Concat(Child, node[field]) ELSE <<>>
OfOne(coder, node, field) == IF Has(node, field) THEN WriteSchema(coder, node[field]) ELSE <<>>

ObjectSchema(coder, node) ==
    LET properties == IF Has(node, "properties") THEN node.properties ELSE <<>>
        Property(p) == WriteSchema(coder, p[2])
    IN Concat(Property, properties) \o
       (IF Has(node, "additional") /\ IndexIsTyped(node, properties)
        THEN WriteSchema(coder, node.additional) ELSE <<>>)

ArraySchema(coder, node) ==
    LET Tuple(field, restField) ==
          LET full == Has(node, "maxItems") /\ node.maxItems <= Len(node[field])
          IN OfAll(coder, node, field) \o
             (IF full THEN <<>> ELSE OfOne(coder, node, restField))
    IN CASE Has(node, "prefixItems") -> Tuple("prefixItems", "items")
         [] Has(node, "itemList") -> Tuple("itemList", "additionalItems")
         [] OTHER -> OfOne(coder, node, "items")

\* A default mapping of the discriminator is a type of its own.
WriteGroup(coder, node, field) ==
    OfAll(coder, node, field) \o
    (IF field # "allOf" /\ Has(node, field) /\ Has(node, "defaultMapping")
     THEN <<Import([coder EXCEPT !.ref = node.defaultMapping])>> ELSE <<>>)

WriteSchema(coder, node) ==
    LET IsObject == Has(node, "properties") \/ Has(node, "additional")
        Type(type) == CASE type = "object" -> ObjectSchema(coder, node)
                        [] type = "array" -> ArraySchema(coder, node)
                        [] OTHER -> <<>>
        Group(field) == WriteGroup(coder, node, field)
    IN CASE Has(node, "ref") -> <<Import([coder EXCEPT !.ref = node.ref])>>
         [] Has(node, "always") -> <<>>
         [] IsFile(coder.class, node) -> <<ImportExternal("MultipartFile")>>
         [] Has(node, "itemSchema") -> WriteSchema(coder, node.itemSchema)
         [] \E g \in {"allOf", "anyOf", "oneOf"} : Has(node, g) ->
              Concat(Group, <<"allOf", "anyOf", "oneOf">>) \o
              (IF IsObject THEN ObjectSchema(coder, node) ELSE <<>>)
         [] Has(node, "const") \/ Has(node, "enum") \/ IsBinary(node) -> <<>>
         [] Has(node, "type") -> Concat(Type, node.type)
         [] OTHER -> IF IsObject THEN ObjectSchema(coder, node) ELSE <<>>
=============================================================================
