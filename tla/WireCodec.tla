------------------------------ MODULE WireCodec ------------------------------
(***************************************************************************)
(* What the protocol boundary does with one JSON document: the strict      *)
(* native decode of a request body, the second pass over its raw members   *)
(* that the native decode cannot make, and the stamping of revisions in an *)
(* answer.  A document is a tree of JSON kinds; an object keeps the names  *)
(* its members were spelled with apart from the members themselves,        *)
(* because the native decode matches names in any letter case and the raw  *)
(* pass matches them exactly.                                              *)
(***************************************************************************)
EXTENDS WireTypes, TLC

\* JSON documents.  odd: the members whose name is spelled in another letter case.
Str(value) == [j |-> "text", v |-> value]
Digits == [j |-> "number"]
Bool == [j |-> "flag"]
NullDoc == [j |-> "null"]
Arr(elements) == [j |-> "array", e |-> elements]
Obj(members, odd) == [j |-> "object", m |-> members, odd |-> odd]

Members(type) == type.req @@ type.opt

-----------------------------------------------------------------------------
\* encoding/json under DisallowUnknownFields: null fits every Go type, a member is matched in
\* any letter case, and raw messages and unions keep their bytes unread.
RECURSIVE Fits(_, _)
Fits(type, doc) ==
  \/ doc.j = "null"
  \/ type.is \in {"raw", "section", "union", "either"}
  \/ type.is \in {"text", "enum"} /\ doc.j = "text"
  \/ type.is \in {"number", "flag"} /\ doc.j = type.is
  \/ type.is = "open" /\ doc.j = "object"
  \/ type.is = "nullable" /\ Fits(type.of, doc)
  \/ type.is = "list" /\ doc.j = "array" /\ \A i \in DOMAIN doc.e : Fits(type.of, doc.e[i])
  \/ type.is = "map" /\ doc.j = "object" /\ \A n \in DOMAIN doc.m : Fits(type.of, doc.m[n])
  \/ /\ type.is = "struct" /\ doc.j = "object"
     /\ \A n \in DOMAIN doc.m :
          n \in DOMAIN Members(type) /\ Fits(Members(type)[n], doc.m[n])

decodeOneDocument(type, doc, trailing) == Fits(type, doc) /\ ~trailing

\* The generated Discriminator: the kind member in any letter case, empty when there is none.
Discriminator(doc) ==
  IF doc.j = "object" /\ "kind" \in DOMAIN doc.m /\ doc.m["kind"].j = "text"
  THEN doc.m["kind"].v ELSE ""
Discriminated(doc) ==
  doc.j = "object" /\ ("kind" \in DOMAIN doc.m => doc.m["kind"].j \in {"text", "null"})

\* The raw pass finds a member under its exact name only.
Given(doc) == DOMAIN doc.m \ doc.odd

requireSettingsObject(type, member) == type.is = "section" => member.j = "object"

RECURSIVE validateDecodedValue(_, _), validateStructMembers(_, _), validateContentPart(_, _)
validateDecodedValue(type, doc) ==
  CASE type.is = "union" -> validateContentPart(type, doc)
    [] type.is = "enum" -> doc.j = "text" /\ doc.v \in type.values
    [] type.is = "nullable" -> validateDecodedValue(type.of, doc)
    [] type.is = "list" ->
         doc.j = "array" /\ \A i \in DOMAIN doc.e :
           doc.e[i].j # "null" /\ validateDecodedValue(type.of, doc.e[i])
    [] type.is = "map" ->
         doc.j = "object" /\ \A n \in DOMAIN doc.m :
           doc.m[n].j # "null" /\ validateDecodedValue(type.of, doc.m[n])
    [] type.is = "struct" -> validateStructMembers(type, doc)
    [] OTHER -> TRUE
\* Mutant: the presence rule left to the native decode.
PresenceUnchecked(type, doc) ==
  doc.j = "object" /\ \A n \in Given(doc) \cap DOMAIN Members(type) :
    doc.m[n].j # "null" /\ validateDecodedValue(Members(type)[n], doc.m[n])
validateStructMembers(type, doc) ==
  /\ doc.j = "object"
  /\ DOMAIN type.req \subseteq Given(doc)
  /\ \A n \in Given(doc) \cap DOMAIN Members(type) :
       /\ doc.m[n].j # "null"
       /\ requireSettingsObject(Members(type)[n], doc.m[n])
       /\ validateDecodedValue(Members(type)[n], doc.m[n])
validateContentPart(type, doc) ==
  /\ Discriminated(doc)
  /\ Discriminator(doc) \in DOMAIN type.variants
  /\ LET variant == type.variants[Discriminator(doc)].of
     IN decodeOneDocument(variant, doc, FALSE) /\ validateDecodedValue(variant, doc)

decodeRequestBody(type, doc, trailing) ==
  decodeOneDocument(type, doc, trailing) /\ validateDecodedValue(type, doc)

-----------------------------------------------------------------------------
\* Qualification: the three revision types, reached through structs, pointers and slices.
IsRevision(type) ==
  type.is = "struct" /\ DOMAIN type.req \in
    {DOMAIN SessionRevision.req, DOMAIN ConfigurationRevision.req, DOMAIN WarningsRevision.req}

RECURSIVE qualifyRevisions(_, _, _)
qualifyRevisions(type, doc, instance) ==
  CASE doc.j = "null" -> doc
    [] IsRevision(type) -> [doc EXCEPT !.m["instance_id"] = Str(instance)]
    [] type.is = "struct" /\ ~IsRevision(type) ->
         [doc EXCEPT !.m = [n \in DOMAIN doc.m |->
            qualifyRevisions(Members(type)[n], doc.m[n], instance)]]
    [] type.is = "nullable" -> qualifyRevisions(type.of, doc, instance)
    [] type.is = "list" ->
         [doc EXCEPT !.e = [i \in DOMAIN doc.e |-> qualifyRevisions(type.of, doc.e[i], instance)]]
    [] OTHER -> doc

\* The From accessors of a union: most write their discriminator over the value's own.
From(kind, variant, doc) ==
  IF variant.stamps THEN [doc EXCEPT !.m = ("kind" :> Str(kind)) @@ doc.m] ELSE doc

\* A well-formed document of a type: with every optional member or with none, and one element
\* in every list and map.
RECURSIVE Sample(_, _, _)
Sample(type, full, pick) ==
  CASE type.is = "text" -> Str("text")
    [] type.is = "enum" -> Str(CHOOSE v \in type.values : TRUE)
    [] type.is = "number" -> Digits
    [] type.is = "flag" -> Bool
    [] type.is = "list" -> Arr(<<Sample(type.of, full, pick)>>)
    [] type.is = "map" -> Obj([key |-> Sample(type.of, full, pick)], {})
    [] type.is = "nullable" -> IF full THEN Sample(type.of, full, pick) ELSE NullDoc
    [] type.is = "struct" ->
         LET names == DOMAIN type.req \cup (IF full THEN DOMAIN type.opt ELSE {})
         IN Obj([n \in names |-> Sample(Members(type)[n], full, pick)], {})
    [] type.is = "union" ->
         LET k == IF pick \in DOMAIN type.variants THEN pick
                  ELSE CHOOSE v \in DOMAIN type.variants : TRUE
         IN From(k, type.variants[k], Sample(type.variants[k].of, full, pick))
    [] OTHER -> Obj([opaque |-> NullDoc], {})
=============================================================================
