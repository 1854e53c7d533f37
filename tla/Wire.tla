-------------------------------- MODULE Wire --------------------------------
(***************************************************************************)
(* One protocol call from end to end: the client binds an invocation and   *)
(* builds its request, the server routes, authenticates, binds, decodes,   *)
(* admits and executes it, and the client reads the answer.  Calls run at  *)
(* the same time as each other and as the Runtime's shutdown, and may lose *)
(* their connection.  Another client may write its request wrong in any    *)
(* place, its body document included.  What each operation declares at     *)
(* each of these places is in the row modules instantiated here.           *)
(***************************************************************************)
EXTENDS WireDocs, FiniteSets

CONSTANTS
  Calls,    \* the calls made
  MaxFlaws, \* bound: how many places of a drafted body are wrong
  Scopes    \* what a behaviour explores:
            \*   calls: those made; ops: the operations they may be of
            \*   modes: how they are made - "invoke" by name, "typed" methods, "raw" HTTP, or
            \*   "draft", raw with a body drafted member by member
            \*   keys: the credentials presented, "live" is the server's own
            \*   slips: whether an invocation may be wrong in a member
            \*   damages: what may go wrong in a draft
            \*   picks, results: which variant a union member of a drafted body, of an answer is
            \*   faults: whether connections are lost and the Runtime closes
            \*   classes: the error classes a producer fails with

ASSUME FlawBound == MaxFlaws \in Nat
ASSUME ScopeCalls == \A s \in Scopes : s.calls \subseteq Calls /\ {s.slips, s.faults} \subseteq BOOLEAN

VARIABLES
  scope,
  call,     \* what each call asks for
  client,   \* what its caller knows: idle, waiting, or how it ended
  sent,     \* its request on the wire
  server,   \* where its request is: none, handling, admitted, answered
  bound,    \* the handler the request reached and the arguments bound for it
  ran,      \* the executions of producers on its behalf
  answer,   \* the response written for it
  live,     \* the calls whose connection is up
  phase     \* the Runtime: open, closing, severed, joined

vars == <<call, client, sent, server, bound, ran, answer, live, phase, scope>>

Request == INSTANCE WireRequests
Replies == INSTANCE WireReplies
Native == INSTANCE WireInvoke
Wrappers == INSTANCE WireWrappers
Handlers == INSTANCE WireHandlers

Absent == [j |-> "absent"]
Wild == {"{id}", "{field}"}
Nowhere == [op |-> "", path |-> "", query |-> None, body |-> Absent]

-----------------------------------------------------------------------------
\* The client's side: binding an envelope.
takeMember(doc, rule) ==
  CASE rule = "forbidden" -> doc = Absent
    [] rule = "required" -> doc.j \notin {"absent", "null"}
    [] rule = "optional" -> doc.j # "null"

\* Every required member is there under its own name, none is null, none is unknown or mistyped.
bindQuery(raw, required, params) ==
  /\ required \subseteq DOMAIN raw.m \ raw.odd
  /\ \A n \in DOMAIN raw.m : raw.m[n].j # "null"
  /\ decodeOneDocument(params, raw, FALSE)

bindEnvelope(native, env) ==
  /\ takeMember(env.session, native.session) /\ env.session.j \in {"text", "absent"}
  /\ takeMember(env.field, native.field) /\ env.field.j \in {"text", "absent"}
  /\ takeMember(env.query, native.query) /\ env.query.j \in {"object", "absent"}
  /\ takeMember(env.body, native.body) /\ env.body.j \in {"object", "absent"}
  /\ env.query # Absent => bindQuery(env.query, native.required, native.params)

\* The path argument, and the query members a call gives.
PathOf(env) ==
  IF env.session.j = "text" THEN env.session.v ELSE IF env.field.j = "text" THEN env.field.v ELSE ""
QueryOf(env) == IF env.query.j = "object" THEN env.query.m ELSE None

\* url.URL.Parse of the relative operation path removes dot segments.
RECURSIVE Resolve(_, _)
Resolve(done, todo) ==
  IF todo = <<>> THEN done
  ELSE LET slash == IF Len(todo) = 1 THEN <<"">> ELSE <<>>
       IN CASE Head(todo) = "." -> Resolve(done \o slash, Tail(todo))
            [] Head(todo) = ".." ->
                 Resolve(SubSeq(done, 1, Len(done) - 1) \o slash, Tail(todo))
            [] OTHER -> Resolve(Append(done, Head(todo)), Tail(todo))

Fill(path, argument) == [i \in DOMAIN path |-> IF path[i] \in Wild THEN argument ELSE path[i]]

\* A client method applied to its arguments.
Send(method, env, key) ==
  LET row == method.request
      given == QueryOf(env)
      names == row.required \cup (row.optional \cap DOMAIN given)
  IN [method |-> row.method, path |-> Resolve(<<>>, Fill(row.path, PathOf(env))),
      query |-> [n \in names |-> given[n]],
      body |-> IF row.body = Request!Nothing THEN Absent ELSE env.body, more |-> FALSE,
      key |-> IF method.edited THEN key ELSE "none"]

-----------------------------------------------------------------------------
\* The server's side: error classes, routing, binding.
\* classifyProtocolError: the first class the error is of decides its code and its status.
Ranks == <<
  [of |-> {"errUnauthorized"}, code |-> "unauthorized", status |-> 401],
  [of |-> {"ErrInvalid"}, code |-> "invalid", status |-> 400],
  [of |-> {"ErrNotFound", "ErrUnknownProvider", "ErrUnknownModel"},
     code |-> "not_found", status |-> 404],
  [of |-> {"ErrConflict"}, code |-> "conflict", status |-> 409],
  [of |-> {"ErrClosed"}, code |-> "closed", status |-> 410],
  [of |-> {"ErrCorrupt"}, code |-> "corrupt", status |-> 422],
  [of |-> {"ErrConfiguration"}, code |-> "configuration", status |-> 422],
  [of |-> {"ErrStorage"}, code |-> "storage", status |-> 500]>>
classifyProtocolError(err) ==
  LET hits == {i \in DOMAIN Ranks : Ranks[i].of \cap err # {}}
  IN IF hits = {} THEN [code |-> "internal", status |-> 500]
     ELSE LET i == CHOOSE i \in hits : \A k \in hits : i <= k
          IN [code |-> Ranks[i].code, status |-> Ranks[i].status]

Answer(status, is, code) == [status |-> status, is |-> is, code |-> code, doc |-> Absent]
NoAnswer == Answer(0, "none", "")
writeProtocolError(err) ==
  LET c == classifyProtocolError(err) IN Answer(c.status, "error", c.code)
\* An answer of success, or of a restore that failed midway with what it had restored.
writeResult(handler, doc) ==
  IF handler.status = 204 THEN Answer(204, "empty", "")
  ELSE [Answer(handler.status, "result", "") EXCEPT
          !.doc = qualifyRevisions(handler.result, doc, "instance")]
\* Mutant: a partial restore answered with the plain status of success.
PartialAsSuccess(err) == Answer(200, "partial", classifyProtocolError(err).code)
writeCodeRevertResponse(err) ==
  LET c == classifyProtocolError(err) IN Answer(c.status, "partial", c.code)

Clean(path) == \A i \in 1..Len(path) - 1 : path[i] # ""
Matches(request) ==
  {r \in Wrappers!HandlerWithOptions :
     /\ r.method = request.method /\ Len(r.path) = Len(request.path)
     /\ \A i \in DOMAIN r.path :
          r.path[i] = request.path[i] \/ (r.path[i] \in Wild /\ request.path[i] # "")}
Argument(route, request) ==
  LET wild == {i \in DOMAIN route.path : route.path[i] \in Wild}
  IN IF wild = {} THEN "" ELSE request.path[CHOOSE i \in wild : TRUE]
\* A wrapper's binding of the query: a required parameter is there, a boolean one parses.
BindsQuery(wrapper, query) ==
  LET params == wrapper.required @@ wrapper.optional
  IN /\ DOMAIN wrapper.required \subseteq DOMAIN query
     /\ \A n \in DOMAIN params \cap DOMAIN query :
          params[n].is = "flag" => query[n].j = "flag"
Arguments(wrapper, route, request) ==
  LET names == (DOMAIN wrapper.required \cup DOMAIN wrapper.optional) \cap DOMAIN request.query
  IN [op |-> wrapper.handler,
      path |-> IF wrapper.path = "" THEN "" ELSE Argument(route, request),
      query |-> [n \in names |-> request.query[n]],
      body |-> IF Handlers!protocolHandlers[wrapper.handler].body = Handlers!Nothing
               THEN Absent ELSE request.body]
authorize(request) == request.key = "live"

\* Every handler with a body type decodes the body first; an absent one is no document at all.
BodyAccepted(handler, doc, more) ==
  \/ handler.body = Handlers!Nothing
  \/ doc # Absent /\ decodeRequestBody(handler.body, doc, more)

-----------------------------------------------------------------------------
\* The client's reading of an answer.
Result(is, code) == [is |-> is, code |-> code]
Waiting == Result("waiting", "")
\* An error body, or a partial restore with the error in it; anything else is not one.
decodeRuntimeError(got) ==
  IF got.is \in {"error", "partial"} THEN Result("error", got.code)
  ELSE Result("unusable", "")
receive(got, expected) ==
  CASE got.status = expected ->
         IF got.status # 204 /\ got.is \in {"html", "empty"} THEN Result("unusable", "")
         ELSE Result("ok", "")
    [] got.status # expected /\ got.status \notin 200..299 -> decodeRuntimeError(got)
    [] OTHER -> Result("unusable", "")

\* A generated parser decodes by status and content type into the members it has.
Parse(row, got) ==
  IF got.is \notin {"result", "error", "partial"}
  THEN Result(IF got.status = 204 THEN "ok" ELSE "unusable", "")
  ELSE IF got.status = row.success THEN Result("ok", "") ELSE Result("error", got.code)

-----------------------------------------------------------------------------
\* What a caller asks for: the members its operation declares, well formed, and at most one of
\* them replaced by something else.
Spare == {Absent, NullDoc, Digits, Str(""), Str("."), Str("..")}
Given1(op, full) ==
  LET native == Native!operationDescriptors[op]
      body == Handlers!protocolHandlers[op].body
  IN [session |-> IF native.session = "required" THEN Str("one") ELSE Absent,
      field |-> IF native.field = "required" THEN Str("one") ELSE Absent,
      query |-> IF native.query = "forbidden" THEN Absent ELSE Sample(native.params, full, ""),
      body |-> IF native.body = "forbidden" THEN Absent ELSE Sample(body, full, "text")]
Queries(q) ==
  {Absent, NullDoc, Arr(<<>>), Obj(None, {})} \cup
  (IF q.j # "object" THEN {} ELSE
     {Obj([n \in DOMAIN q.m \ {x} |-> q.m[n]], {}) : x \in DOMAIN q.m} \cup
     {Obj([q.m EXCEPT ![x] = d], {}) : x \in DOMAIN q.m, d \in {NullDoc, Digits, Bool}} \cup
     {Obj(q.m, {x}) : x \in DOMAIN q.m} \cup {Obj(("other" :> Str("x")) @@ q.m, {})})
Bodies == {Absent, NullDoc, Arr(<<>>), Obj(None, {}), Obj([other |-> Digits], {})}
Slipped(env) ==
  {[env EXCEPT !.session = d] : d \in Spare} \cup {[env EXCEPT !.field = d] : d \in Spare} \cup
  {[env EXCEPT !.query = d] : d \in Queries(env.query)} \cup
  {[env EXCEPT !.body = d] : d \in Bodies}
Envelopes(op) ==
  LET good == {Given1(op, full) : full \in BOOLEAN}
  IN good \cup IF scope.slips THEN UNION {Slipped(e) : e \in good} ELSE {}
\* The arguments a typed method takes: any text for a path, its query, and a body of its type.
TypedEnvelopes(op) ==
  LET native == Native!operationDescriptors[op]
  IN {e \in Envelopes(op) :
        /\ (e.session.j = "text") = (native.session = "required")
        /\ (e.field.j = "text") = (native.field = "required")
        /\ \/ e.query = Absent
           \/ e.query.j = "object" /\ bindQuery(e.query, DOMAIN native.params.req, native.params)
        /\ (e.query = Absent) = (native.query = "forbidden")
        /\ (e.body = Absent) = (native.body = "forbidden")
        /\ e.body = Absent \/ Fits(Handlers!protocolHandlers[op].body, e.body)}
\* Requests of another client: the right one with the method, the path or the query wrong.
Tampered(request) ==
  {[request EXCEPT !.method = m] : m \in {"GET", "POST", "PUT", "DELETE"}} \cup
  {[request EXCEPT !.path = p] :
     p \in {SubSeq(request.path, 1, Len(request.path) - 1), Append(request.path, "more"),
            Append(request.path, "")}} \cup
  {[request EXCEPT !.query = [n \in DOMAIN @ \ {x} |-> @[n]]] : x \in DOMAIN request.query} \cup
  {[request EXCEPT !.query = [@ EXCEPT ![x] = Digits]] : x \in DOMAIN request.query} \cup
  {[request EXCEPT !.body = d] : d \in Bodies}

\* Bodies of another client, before anything goes wrong in them.
Drafts(type) == {Sample(type, full, pick) : full \in BOOLEAN, pick \in scope.picks}
\* What producers have to answer.
Results(type) == {Sample(type, full, pick) : full \in BOOLEAN, pick \in scope.results}

NoCall == [mode |-> "", op |-> "", flaws |-> 0, env |-> [session |-> Absent, field |-> Absent,
             query |-> Absent, body |-> Absent], key |-> ""]
NoRequest == [method |-> "", path |-> <<>>, query |-> None, body |-> Absent, more |-> FALSE, key |-> ""]

Init ==
  /\ scope \in Scopes
  /\ call = [c \in Calls |-> NoCall] /\ client = [c \in Calls |-> Result("idle", "")]
  /\ sent = [c \in Calls |-> NoRequest] /\ server = [c \in Calls |-> "none"]
  /\ bound = [c \in Calls |-> Nowhere] /\ ran = [c \in Calls |-> <<>>]
  /\ answer = [c \in Calls |-> NoAnswer] /\ live = {} /\ phase = "open"

\* The caller's side of one call is over before a request was sent, or the request is sent;
\* nobody listens any more once the network is closed.
Begin(c, mode, op, env, key, request) ==
  /\ call' = [call EXCEPT ![c] = [mode |-> mode, op |-> op, flaws |-> 0, env |-> env, key |-> key]]
  /\ IF phase \in {"severed", "joined"}
     THEN /\ client' = [client EXCEPT ![c] = Result("silent", "")]
          /\ UNCHANGED <<sent, live>>
     ELSE /\ client' = [client EXCEPT ![c] = Waiting]
          /\ sent' = [sent EXCEPT ![c] = request] /\ live' = live \cup {c}
  /\ UNCHANGED <<server, bound, ran, answer, phase, scope>>

Invoke(c) ==
  /\ "invoke" \in scope.modes /\ client[c].is = "idle"
  /\ \E op \in scope.ops, key \in scope.keys : \E env \in Envelopes(op) :
       LET native == Native!operationDescriptors[op]
       IN IF bindEnvelope(native, env)
          THEN Begin(c, "invoke", op, env, key, Send(native.send, env, key))
          ELSE /\ call' = [call EXCEPT ![c] =
                     [mode |-> "invoke", op |-> op, flaws |-> 0, env |-> env, key |-> key]]
               /\ client' = [client EXCEPT ![c] = Result("params", "")]
               /\ UNCHANGED <<sent, server, bound, ran, answer, live, phase, scope>>

WithResponse(c) ==
  /\ "typed" \in scope.modes /\ client[c].is = "idle"
  /\ \E op \in scope.ops, key \in scope.keys : \E env \in TypedEnvelopes(op) :
       Begin(c, "typed", op, env, key,
             Send(Replies!ClientWithResponses[op].send, env, key))

RawRequest(c) ==
  /\ "raw" \in scope.modes /\ client[c].is = "idle"
  /\ \E op \in scope.ops, key \in scope.keys :
       \E request \in Tampered(Send(Request!ClientInterface[op], Given1(op, TRUE), key)) :
         Begin(c, "raw", op, Given1(op, TRUE), key, request)

\* The body is drafted by another client, and wrong in one more place.
Draft(c) ==
  /\ "draft" \in scope.modes /\ client[c].is = "idle"
  /\ \E op \in scope.ops :
       LET type == Handlers!protocolHandlers[op].body
       IN /\ type # Handlers!Nothing
          /\ \E doc \in Drafts(type) :
               LET env == [Given1(op, TRUE) EXCEPT !.body = doc]
               IN Begin(c, "draft", op, env, "live", Send(Request!ClientInterface[op], env, "live"))
Damage(c) ==
  /\ call[c].mode = "draft" /\ server[c] = "none" /\ c \in live
  /\ call[c].flaws < MaxFlaws /\ call' = [call EXCEPT ![c].flaws = @ + 1]
  /\ \/ "trailing" \in scope.damages /\ sent' = [sent EXCEPT ![c].more = TRUE]
     \/ \E what \in scope.damages \ {"trailing"} :
        \E place \in Places(Handlers!protocolHandlers[call[c].op].body, sent[c].body) :
          sent' = [sent EXCEPT ![c].body = Spoil(@, place, what)]
  /\ UNCHANGED <<client, server, bound, ran, answer, live, phase, scope>>

\* The server has read a request: redirect, gate, catch-all, parameter binding and body, in this
\* order, each with its answer; what passes them all is with its handler.
Serve(c) ==
  LET request == sent[c]
      Refuse(a) == /\ answer' = [answer EXCEPT ![c] = a]
                   /\ server' = [server EXCEPT ![c] = "answered"] /\ UNCHANGED bound
  IN /\ server[c] = "none" /\ c \in live /\ phase \in {"open", "closing"}
     /\ IF ~Clean(request.path) THEN Refuse(Answer(301, "html", ""))
        ELSE IF ~authorize(request) THEN Refuse(writeProtocolError({"errUnauthorized"}))
        ELSE IF Matches(request) = {} THEN Refuse(writeProtocolError({"ErrNotFound"}))
        ELSE \E route \in Matches(request) :
               LET wrapper == Wrappers!ServerInterface[route.wrapper]
                   args == Arguments(wrapper, route, request)
               IN IF /\ BindsQuery(wrapper, request.query)
                     /\ BodyAccepted(Handlers!protocolHandlers[wrapper.handler], request.body, request.more)
                  THEN /\ bound' = [bound EXCEPT ![c] = args]
                       /\ server' = [server EXCEPT ![c] = "handling"] /\ UNCHANGED answer
                  ELSE Refuse(writeProtocolError({"ErrInvalid"}))
     /\ UNCHANGED <<call, client, sent, ran, live, phase, scope>>

\* Runtime.enter: the closed check and the count under one lock; a caller that went away may
\* have cancelled its request's context by now.
enter(c) ==
  IF phase # "open" THEN {"closed"}
  ELSE {"admitted"} \cup IF c \in live THEN {} ELSE {"cancelled"}
\* A message is converted before its call is admitted.
Converts(c) == bound[c].op \in {"SubmitSession", "ForkSession"} => convertContentParts(bound[c].body)
Enter(c) ==
  /\ server[c] = "handling"
  /\ \E outcome \in IF Converts(c) THEN enter(c) ELSE {"invalid"} :
       IF outcome = "admitted"
       THEN server' = [server EXCEPT ![c] = "admitted"] /\ UNCHANGED answer
       ELSE /\ server' = [server EXCEPT ![c] = "answered"]
            /\ answer' = [answer EXCEPT ![c] = writeProtocolError(
                 CASE outcome = "closed" -> {"ErrClosed"} [] outcome = "invalid" -> {"ErrInvalid"} [] OTHER -> {})]
  /\ UNCHANGED <<call, client, sent, bound, ran, live, phase, scope>>

\* The admitted producer: it does its work or refuses; some read the Session again afterwards
\* and fail then, and a restore may fail with part of it done.
Execute(c) ==
  LET handler == Handlers!protocolHandlers[bound[c].op]
      Did == ran' = [ran EXCEPT ![c] = Append(@, bound[c])]
      Write(a) == answer' = [answer EXCEPT ![c] = a]
  IN /\ server[c] = "admitted" /\ server' = [server EXCEPT ![c] = "answered"]
     /\ \/ \E doc \in IF handler.status = 204 THEN {Absent} ELSE Results(handler.result) :
             Did /\ Write(writeResult(handler, doc))
        \/ \E err \in SUBSET scope.classes :
             /\ Cardinality(err) <= 2
             /\ \/ ran' = ran /\ Write(writeProtocolError(err))
                \/ handler.then = "header" /\ Did /\ Write(writeProtocolError(err))
                \/ handler.then = "partial" /\ Did /\ Write(writeCodeRevertResponse(err))
     /\ UNCHANGED <<call, client, sent, bound, live, phase, scope>>

Receive(c) ==
  /\ client[c] = Waiting /\ server[c] = "answered" /\ c \in live
  /\ client' = [client EXCEPT ![c] =
       IF call[c].mode = "typed"
       THEN Parse(Replies!ClientWithResponses[call[c].op].parse, answer[c])
       ELSE receive(answer[c], Native!operationDescriptors[call[c].op].status)]
  /\ live' = live \ {c}
  /\ UNCHANGED <<call, sent, server, bound, ran, answer, phase, scope>>

\* Mutant: only the listener closes.
ListenerOnly(gone) == UNCHANGED <<live, client>>
\* Connections that break: one of them, or all of them when the Runtime closes its network.
Sever(gone) ==
  /\ live' = live \ gone
  /\ client' = [c \in Calls |-> IF c \in gone THEN Result("silent", "") ELSE client[c]]
Lose(c) ==
  /\ scope.faults /\ c \in live /\ Sever({c})
  /\ UNCHANGED <<call, sent, server, bound, ran, answer, phase, scope>>

beginShutdown ==
  /\ scope.faults /\ phase = "open" /\ phase' = "closing"
  /\ UNCHANGED <<call, client, sent, server, bound, ran, answer, live, scope>>
closeNetwork ==
  /\ phase = "closing" /\ phase' = "severed" /\ Sever(live)
  /\ UNCHANGED <<call, sent, server, bound, ran, answer, scope>>
\* Mutant: nobody is waited for.
CallsForgotten == TRUE
CallsDone == \A c \in Calls : server[c] # "admitted"
joinShutdown ==
  /\ phase = "severed" /\ CallsDone /\ phase' = "joined"
  /\ UNCHANGED <<call, client, sent, server, bound, ran, answer, live, scope>>

\* The goroutine that serves a request.
Serving(c) == Serve(c) \/ Enter(c) \/ Execute(c)
Next ==
  \/ \E c \in scope.calls : Invoke(c) \/ WithResponse(c) \/ RawRequest(c) \/ Draft(c)
  \/ \E c \in Calls : Damage(c) \/ Serving(c) \/ Receive(c) \/ Lose(c)
  \/ beginShutdown \/ closeNetwork \/ joinShutdown

\* Where connections may break and the Runtime may close, the server's goroutines, the clients
\* and the shutdown run on; nothing makes a caller call, a connection break or a Runtime close.
Fairness ==
  /\ \A c \in Calls : WF_vars(scope.faults /\ Serving(c)) /\ WF_vars(scope.faults /\ Receive(c))
  /\ WF_vars(closeNetwork) /\ WF_vars(joinShutdown)
Spec == Init /\ [][Next]_vars /\ Fairness

-----------------------------------------------------------------------------
\* An operation is written down seven times - descriptor, request, route, wrapper, handler,
\* response type and parser - and its path argument goes through URL resolution: whatever the
\* producer of an invoked operation runs with is what its caller asked for.  In particular no
\* identifier, an empty or a dotted one included, makes a call reach another operation.
RunsAsAsked ==
  \A c \in Calls : \A i \in DOMAIN ran[c] :
    call[c].mode \in {"invoke", "typed"} =>
      ran[c][i] = [op |-> call[c].op, path |-> PathOf(call[c].env),
                   query |-> QueryOf(call[c].env), body |-> call[c].env.body]

\* Nothing runs for a request without the live credential, or with a body that is followed by
\* another document or leaves a required member to its Go zero value.  The native decode takes
\* a member in any letter case and the raw pass does not look at it then.
RunsOnlyChecked ==
  \A c \in Calls : ran[c] # <<>> =>
    /\ sent[c].key = "live"
    /\ \/ Handlers!protocolHandlers[bound[c].op].body = Handlers!Nothing
       \/ /\ ~sent[c].more
          /\ ~Defaulted(Handlers!protocolHandlers[bound[c].op].body, sent[c].body)

\* The native decode cannot see absence or null, and the raw pass cannot see unknown names or a
\* wrong kind below what it visits: together decodeRequestBody admits exactly the documents of
\* the schema, neither a defaulted member nor a refused good request.
BoundaryIsSchema ==
  \A c \in Calls : call[c].mode = "draft" /\ Exact(sent[c].body) =>
    LET conforms == ~sent[c].more
                    /\ Conforms(Handlers!protocolHandlers[call[c].op].body, sent[c].body)
    IN IF bound[c].op # "" THEN conforms ELSE server[c] = "answered" => ~conforms

\* A content part is discriminated and decoded once at the boundary and again by the command:
\* the second reading never refuses a part the first one let through.
ContentReadTheSame == \A c \in Calls : server[c] = "handling" => Converts(c)

\* The four passes over one request - native decode, raw presence walk, generated accessors,
\* the command's own conversion - are one boundary.
BoundaryAgrees == RunsOnlyChecked /\ BoundaryIsSchema /\ ContentReadTheSame

\* Every revision of an answer carries the server's instance, however deep and in whatever part
\* of the answer it lies: qualification follows structs, pointers and slices only, so this also
\* says no response type hides a revision in a map, a union or raw JSON.
RevisionsStamped ==
  \A c \in Calls : answer[c].is = "result" =>
    ~Unstamped(Handlers!protocolHandlers[bound[c].op].result, answer[c].doc)

\* Whatever a handler answers, success, refusal or partial restore, its client reads as that:
\* the declared statuses, the response types and the error bodies agree on both ends.  Only the
\* native redirect of an empty path argument is an unusable answer.
AnswersUnderstood ==
  \A c \in Calls :
    LET handler == Handlers!protocolHandlers[bound[c].op]
        parse == Replies!ClientWithResponses[call[c].op].parse
    IN /\ client[c].is = "ok" =>
            /\ answer[c].is \in {"result", "empty"} /\ ran[c] # <<>>
            /\ call[c].mode = "typed" => parse.into = handler.result
       /\ client[c].is = "error" =>
            /\ answer[c].is \in {"error", "partial"} /\ client[c].code = answer[c].code
            /\ call[c].mode = "typed" /\ answer[c].is = "partial" =>
                 parse.otherwise = CodeRevertError
       /\ client[c].is = "unusable" => answer[c].is = "html"
       /\ client[c].is = "params" => ran[c] = <<>> /\ server[c] = "none"

\* An answer means on the client what it meant on the server, to the revision.
AnswersReadBack == RevisionsStamped /\ AnswersUnderstood

\* Once a Runtime has begun to close, a call it had not admitted yet never runs, and when the
\* owner goes on to close what calls use, none of them is still running.
ClosedStaysClosed ==
  [][\A c \in Calls : ran'[c] # ran[c] =>
       server[c] = "admitted" /\ phase # "joined"]_vars
AdmittedBeforeClose ==
  [][\A c \in Calls : server[c] # "admitted" /\ server'[c] = "admitted" => phase = "open"]_vars
CloseHolds == ClosedStaysClosed /\ AdmittedBeforeClose

\* Where connections may break and the Runtime may close, every call ends, connected or not,
\* and a shutdown always gets to its end.
Ends ==
  /\ \A c \in Calls : scope.faults /\ client[c] = Waiting ~> client[c] # Waiting
  /\ phase = "closing" ~> phase = "joined"
=============================================================================
