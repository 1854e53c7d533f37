------------------------------- MODULE WireDocs -------------------------------
(***************************************************************************)
(* Documents at the protocol boundary: what a writer may get wrong in one, *)
(* what the schema says of one, and how a command reads the content parts  *)
(* of one again.                                                           *)
(***************************************************************************)
EXTENDS WireCodec

\* The places of a document, by the member names that lead there; opaque objects stay closed.
RECURSIVE Places(_, _)
Places(type, d) ==
  LET Under(n, t) == {<<n>> \o p : p \in Places(t, d.m[n])}
  IN {<<>>} \cup
     CASE type.is = "struct" /\ d.j = "object" ->
            UNION {Under(n, Members(type)[n]) : n \in DOMAIN d.m \cap DOMAIN Members(type)}
       [] type.is = "map" /\ d.j = "object" -> UNION {Under(n, type.of) : n \in DOMAIN d.m}
       [] type.is = "list" /\ d.j = "array" -> {<<"item">> \o p : p \in Places(type.of, d.e[1])}
       [] type.is = "union" /\ Discriminator(d) \in DOMAIN type.variants ->
            Places(type.variants[Discriminator(d)].of, d)
       [] OTHER -> {}

RECURSIVE Spoil(_, _, _)
Spoil(d, place, what) ==
  IF what \in {"missing", "respelled"} /\ Len(place) = 1 /\ d.j = "object"
  THEN IF what = "missing"
       THEN [d EXCEPT !.m = [n \in DOMAIN d.m \ {place[1]} |-> d.m[n]], !.odd = @ \ {place[1]}]
       ELSE [d EXCEPT !.odd = @ \cup {place[1]}]
  ELSE IF place # <<>>
  THEN IF d.j = "object" THEN [d EXCEPT !.m[place[1]] = Spoil(@, Tail(place), what)]
       ELSE IF d.j = "array" THEN [d EXCEPT !.e[1] = Spoil(@, Tail(place), what)] ELSE d
  ELSE CASE what = "null" -> NullDoc
         [] what = "mistyped" -> IF d.j = "number" THEN Str("text") ELSE Digits
         [] what = "undeclared" /\ d.j = "text" -> Str("undeclared")
         [] what = "unknown" /\ d.j = "object" ->
              [d EXCEPT !.m = ("undeclared" :> Digits) @@ @]
         [] OTHER -> d

\* convertContentPart reads an accepted part again through the generated accessors.
convertContentPart(part) ==
  /\ Discriminated(part) /\ Discriminator(part) \in DOMAIN ContentPart.variants
  /\ Fits(ContentPart.variants[Discriminator(part)].of, part)

convertContentParts(body) ==
  "content" \in DOMAIN body.m =>
    \A i \in DOMAIN body.m["content"].e : convertContentPart(body.m["content"].e[i])

-----------------------------------------------------------------------------
\* What the schema says a document of a type is, independently of how it is decoded.
RECURSIVE Conforms(_, _)
Conforms(type, d) ==
  CASE type.is = "text" -> d.j = "text"
    [] type.is = "enum" -> d.j = "text" /\ d.v \in type.values
    [] type.is \in {"number", "flag"} -> d.j = type.is
    [] type.is = "list" -> d.j = "array" /\ \A i \in DOMAIN d.e : Conforms(type.of, d.e[i])
    [] type.is = "map" -> d.j = "object" /\ \A n \in DOMAIN d.m : Conforms(type.of, d.m[n])
    [] type.is = "nullable" -> d.j = "null" \/ Conforms(type.of, d)
    [] type.is \in {"open", "section"} -> d.j = "object"
    [] type.is = "struct" ->
         /\ d.j = "object"
         /\ DOMAIN type.req \subseteq DOMAIN d.m
         /\ DOMAIN d.m \subseteq DOMAIN type.req \cup DOMAIN type.opt
         /\ \A n \in DOMAIN d.m : Conforms((type.req @@ type.opt)[n], d.m[n])
    [] type.is = "union" ->
         /\ d.j = "object" /\ "kind" \in DOMAIN d.m /\ d.m["kind"].j = "text"
         /\ \E k \in DOMAIN type.variants :
              d.m["kind"].v = k /\ Conforms(type.variants[k].of, d)
    [] OTHER -> TRUE

\* Whether every member is spelled the way its type spells it.
RECURSIVE Exact(_)
Exact(d) ==
  /\ d.j = "object" => d.odd = {} /\ \A n \in DOMAIN d.m : Exact(d.m[n])
  /\ d.j = "array" => \A i \in DOMAIN d.e : Exact(d.e[i])

\* Whether a required member is left to its Go zero value.
RECURSIVE Defaulted(_, _)
Defaulted(type, d) ==
  CASE type.is = "struct" /\ d.j = "object" ->
         \/ \E n \in DOMAIN type.req : n \notin DOMAIN d.m \/ d.m[n].j = "null"
         \/ \E n \in DOMAIN d.m \cap DOMAIN (type.req @@ type.opt) :
              n \notin d.odd /\ Defaulted((type.req @@ type.opt)[n], d.m[n])
    [] type.is = "list" /\ d.j = "array" -> \E i \in DOMAIN d.e : Defaulted(type.of, d.e[i])
    [] type.is = "union" /\ d.j = "object" /\ "kind" \in DOMAIN d.m ->
         \E k \in DOMAIN type.variants : d.m["kind"].v = k /\ Defaulted(type.variants[k].of, d)
    [] OTHER -> FALSE

\* Whether a revision somewhere in it lacks the server's instance.
RECURSIVE Unstamped(_, _)
Unstamped(type, d) ==
  CASE d.j = "null" -> FALSE
    [] type.is = "struct" ->
         \/ "instance_id" \in DOMAIN type.req /\ DOMAIN type.req # DOMAIN Health.req
              /\ d.m["instance_id"].v # "instance"
         \/ \E n \in DOMAIN d.m : Unstamped((type.req @@ type.opt)[n], d.m[n])
    [] type.is = "nullable" -> Unstamped(type.of, d)
    [] type.is = "list" -> \E i \in DOMAIN d.e : Unstamped(type.of, d.e[i])
    [] type.is = "map" -> \E n \in DOMAIN d.m : Unstamped(type.of, d.m[n])
    [] type.is = "union" ->
         \E k \in DOMAIN type.variants :
           d.m["kind"].v = k /\ Unstamped(type.variants[k].of, d)
    [] OTHER -> FALSE
=============================================================================
