------------------------------- MODULE Reader -------------------------------
(* The terminal client's view of one Session and of the Runtime's globals
   (internal/cliclient), kept current by authoritative reads that passive
   events trigger.  The Runtime side is what the client meets of it: the
   Session's revision pair and conversation, the configuration and warning
   clocks, the observation bus with the one subscription of the client's
   event stream, and the paged reads.  The reader of an inspected child
   Session is a second instance of the same code and is left out. *)
EXTENDS Integers, Sequences, FiniteSets, FiniteSetsExt, TLC

CONSTANTS
    Session,        \* Session identities
    None,           \* a nil pointer
    Opening,        \* the conversation a Session starts with: is each item settled?
    PageSize,       \* historyPageSize
    StreamCap,      \* sseSubscriptionCapacity
    InboxCap,       \* the client's event queues, joined
    Scopes          \* instances: [fair, fresh, kinds, subjects, and a bound for each of Counted]

ASSUME ReaderAssumption ==
    /\ None \notin Session /\ Opening \in Seq(BOOLEAN)
    /\ PageSize \in Nat \ {0} /\ StreamCap \in Nat \ {0} /\ InboxCap \in Nat \ {0}
    /\ \A x \in Scopes : x.subjects \subseteq Session

VARIABLES
    log,            \* per Session, the conversation's items: TRUE when every call has its result
    durable,        \* per Session, the register's revision
    local,          \* per Session, the coordinator's publication counter
    config,         \* the published configuration's generation
    warnings,       \* the warning store's revision
    instance,       \* which Runtime process serves
    owed,           \* per Session, invalidations not yet through the observation section
    sub,            \* the stream's subscription and what it carries: [open, queue]
    conn,           \* c.conn: 0 for nil, otherwise the number of the connection
    served,         \* the Runtime process c.conn authenticated
    dialing,        \* openConnection in progress: [phase, repair, instance]
    dials,          \* connections opened so far
    selection,      \* c.selection
    rootID,         \* c.rootID
    root,           \* c.root
    globals,        \* c.configuration, c.warnings (0 for nil), globalsDirty, and readGlobals' task
    inbox,          \* c.events
    navs,           \* navigations being resolved: [kind, sel, conn]
    reported,       \* a failed read was reported to the user
    exited,         \* requestExit
    spent,          \* what the instance has used of its scope
    scope

worldVars  == <<log, durable, local, config, warnings, instance, owed>>
linkVars   == <<conn, served, dialing, dials>>
viewVars   == <<selection, rootID, root, navs>>
vars == <<worldVars, sub, linkVars, viewVars, globals, inbox, reported, exited, spent, scope>>

Counted == {"changes", "losses", "failures", "navs", "pages"}
Spend(what) == spent[what] < scope[what] /\ spent' = [spent EXCEPT ![what] = @ + 1]
Changes(kind) == kind \in scope.kinds /\ Spend("changes")
-----------------------------------------------------------------------------
(* The kinds of the values: a reader's range and chain, what was read of a
   Session, the globals' task, events and navigations.  A nil pointer is
   none of them. *)
Pairs   == [durable : Nat, local : Nat]
Floors  == [config : Nat, warnings : Nat]
Item    == [id : Nat, done : BOOLEAN]
Views   == [pair : Pairs, config : Nat, warnings : Nat, log : Seq(BOOLEAN)]
NoChain == [phase |-> "none"]
Errs    == {"none", "stale", "continuity"}
Chains  ==
    {NoChain} \cup [phase : {"head", "page"}, sel : Nat]
    \cup [phase : {"session"}, sel : Nat, config : Nat, floors : Floors]
    \cup [phase : {"warnings"}, sel : Nat, floors : Floors, next : Views]
    \cup [phase : {"walk"}, sel : Nat, next : Views, segment : Seq(Item), cursor : Nat,
          floor : Pairs, missing : SUBSET Nat]
    \cup [phase : {"adopt"}, sel : Nat, next : Views \cup {None}, items : Seq(Item), cursor : Nat,
          floor : Pairs \cup {None}, err : Errs]
Readers == [id : Session, hydration : Views \cup {None}, items : Seq(Item), cursor : Nat,
            floor : Pairs \cup {None}, dirty : BOOLEAN, older : BOOLEAN, chain : Chains]
Tasks   == [phase : {"head"}] \cup [phase : {"warnings"}, conn : Nat, instance : Nat, config : Nat]
           \cup [phase : {"adopt"}, conn : Nat, config : Nat, warnings : Nat]
Events  == [kind : {"session_changed"}, of : Session, pair : Pairs]
           \cup [kind : {"configuration_changed", "warning_changed"}, at : Nat]
           \cup [kind : {"scope"}, of : Session]
Navs    == [kind : {"adopt", "compose"}, sel : Nat, conn : Nat]
ASSUME NilAssumption == None \notin Pairs \cup Views \cup Readers \cup Tasks
-----------------------------------------------------------------------------
(* Revisions: a Session's pair is compared component by component, and a
   pair newer in one component and older in the other has no order. *)
Pair(s) == [durable |-> durable[s], local |-> local[s]]
AtLeast(a, b) == a.durable >= b.durable /\ a.local >= b.local
Incomparable(a, b) == ~AtLeast(a, b) /\ ~AtLeast(b, a)
Newer(a, b) == a # b /\ AtLeast(a, b)
Highest(a, b) == IF a > b THEN a ELSE b

(* Whether a hydration may replace the current one, given the independently
   accepted configuration and warning clocks. *)
AcceptNewer(current, next, floors) ==          \* mutant: equal clocks are refused as stale
    IF current # None /\ Incomparable(current.pair, next.pair) THEN "continuity"
    ELSE IF \/ current # None /\ (AtLeast(current.pair, next.pair) \/ current.config > next.config
                                    \/ current.warnings > next.warnings)
            \/ floors.config > next.config \/ floors.warnings > next.warnings
         THEN "stale" ELSE "none"
AcceptUnclocked(current, next, floors) ==      \* mutant: only the Session's own pair is compared
    IF current # None /\ Incomparable(current.pair, next.pair) THEN "continuity"
    ELSE IF current # None /\ Newer(current.pair, next.pair) THEN "stale" ELSE "none"
AcceptHydration(current, next, floors) ==
    IF current # None /\ Incomparable(current.pair, next.pair) THEN "continuity"
    ELSE IF \/ current # None /\ (Newer(current.pair, next.pair) \/ current.config > next.config
                                    \/ current.warnings > next.warnings)
            \/ floors.config > next.config \/ floors.warnings > next.warnings
         THEN "stale" ELSE "none"

PageFloor(next, floor) ==
    IF floor = None THEN "none"
    ELSE IF Incomparable(next, floor) THEN "continuity"
         ELSE IF Newer(floor, next) THEN "stale" ELSE "none"
-----------------------------------------------------------------------------
(* Conversation ranges.  An item's identity is its place in the log; a page
   holds the items before its cursor and names the next older cursor. *)
Items(l, first, last) == [i \in 1..(last - first + 1) |-> [id |-> first + i - 1, done |-> l[first + i - 1]]]
PageBefore(l, end) ==
    LET first == Highest(end - PageSize, 0) + 1
    IN  [items |-> Items(l, first, end), cursor |-> IF first > 1 THEN first ELSE 0]
Ids(items) == {items[i].id : i \in DOMAIN items}

(* Two connected ranges, joined where they first share an item; the newer
   one's values win. *)
Shared(older, newer) == {i \in DOMAIN older : older[i].id \in Ids(newer)}
Overlap(older, newer) ==
    LET start == Min(Shared(older, newer))
        there == CHOOSE j \in DOMAIN newer : newer[j].id = older[start].id
        runs  == {n \in 1..Len(newer) : /\ start + n - 1 <= Len(older) /\ there + n - 1 <= Len(newer)
                                        /\ \A k \in 0..(n - 1) : older[start + k].id = newer[there + k].id}
    IN  [start |-> start, there |-> there, length |-> Max(runs)]
Connected(older, newer) ==
    /\ Cardinality(Ids(older)) = Len(older) /\ Cardinality(Ids(newer)) = Len(newer)
    /\ Shared(older, newer) # {} =>
         LET o == Overlap(older, newer)
         IN  /\ \A i \in Shared(older, newer) : i >= o.start /\ i < o.start + o.length
             /\ o.start = 1 \/ o.there = 1
             /\ o.start + o.length > Len(older) \/ o.there + o.length > Len(newer)
MergeConversation(older, newer) ==
    IF Shared(older, newer) = {} THEN older \o newer
    ELSE LET o == Overlap(older, newer)
         IN  SubSeq(older, 1, o.start - 1) \o newer
               \o SubSeq(older, o.start + o.length, Len(older))

(* What a bridge from the cached range must meet again: its newest item, so
   that no gap opens, and every item whose calls were unsettled. *)
MissingAnchor(cached) == IF cached = <<>> THEN {} ELSE {cached[Len(cached)].id}   \* mutant: unsettled items are not revisited
Missing(cached) ==
    IF cached = <<>> THEN {}
    ELSE {cached[Len(cached)].id} \union {c.id : c \in {cached[i] : i \in {j \in DOMAIN cached : ~cached[j].done}}}
-----------------------------------------------------------------------------
(* The Runtime.  A change of a Session is observed after its lock is
   released; the observation section samples the pair then current. *)
Enqueue(events) ==
    IF ~sub.open THEN sub' = sub
    ELSE LET all == sub.queue \o events
         IN  sub' = [sub EXCEPT !.open = Len(all) <= StreamCap, !.queue = SubSeq(all, 1, Min({StreamCap, Len(all)}))]

AdvancesAnew(s) ==                       \* mutant: a durable change starts the local counter again
    /\ durable' = [durable EXCEPT ![s] = @ + 1] /\ local' = [local EXCEPT ![s] = 0]
    /\ owed' = [owed EXCEPT ![s] = @ + 1]
    /\ UNCHANGED <<config, warnings, instance, sub, linkVars, viewVars, globals, inbox, reported, exited, scope>>
Advances(s) ==
    /\ durable' = [durable EXCEPT ![s] = @ + 1]
    /\ owed' = [owed EXCEPT ![s] = @ + 1]
    /\ UNCHANGED <<local, config, warnings, instance, sub, linkVars, viewVars, globals, inbox, reported, exited, scope>>
Publishes(s) ==                          \* an entry that forms an item
    /\ Changes("entry")
    /\ \E done \in BOOLEAN : log' = [log EXCEPT ![s] = Append(@, done)]
    /\ Advances(s)
Answers(s) ==                            \* a tool result: absorbed by its assistant item
    /\ Changes("answer")
    /\ \E i \in DOMAIN log[s] : ~log[s][i] /\ log' = [log EXCEPT ![s][i] = TRUE]
    /\ Advances(s)
LocalChange(s) ==                        \* the FIFOs, the reservation, the members
    /\ Changes("local")
    /\ local' = [local EXCEPT ![s] = @ + 1]
    /\ owed' = [owed EXCEPT ![s] = @ + 1]
    /\ UNCHANGED <<log, durable, config, warnings, instance, sub, linkVars, viewVars, globals, inbox, reported, exited, scope>>
Invalidates(s) ==
    /\ owed[s] > 0
    /\ owed' = [owed EXCEPT ![s] = @ - 1]
    /\ Enqueue(<<[kind |-> "session_changed", of |-> s, pair |-> Pair(s)]>>)
    /\ UNCHANGED <<log, durable, local, config, warnings, instance, linkVars, viewVars, globals, inbox, reported, exited, spent, scope>>

(* Configuration and warnings are published and enqueued in one section. *)
Reconfigures ==
    /\ Changes("configuration")
    /\ config' = config + 1
    /\ \/ /\ UNCHANGED warnings
          /\ Enqueue(<<[kind |-> "configuration_changed", at |-> config + 1]>>)
       \/ /\ warnings' = warnings + 1
          /\ Enqueue(<<[kind |-> "configuration_changed", at |-> config + 1],
                       [kind |-> "warning_changed", at |-> warnings + 1]>>)
    /\ UNCHANGED <<log, durable, local, instance, owed, linkVars, viewVars, globals, inbox, reported, exited, scope>>
Warns ==
    /\ Changes("warning")
    /\ warnings' = warnings + 1
    /\ Enqueue(<<[kind |-> "warning_changed", at |-> warnings + 1]>>)
    /\ UNCHANGED <<log, durable, local, config, instance, owed, linkVars, viewVars, globals, inbox, reported, exited, scope>>
(* A scope opens or closes, or an Operation the view does not know streams. *)
Scoped(s) ==
    /\ Changes("scope")
    /\ Enqueue(<<[kind |-> "scope", of |-> s]>>)
    /\ UNCHANGED <<worldVars, linkVars, viewVars, globals, inbox, reported, exited, scope>>

(* The stream's connection is lost, or the Runtime is replaced: the durable
   state stays, the counters of the process start again. *)
Lose ==
    /\ Spend("losses") /\ sub.open
    /\ sub' = [sub EXCEPT !.open = FALSE]
    /\ UNCHANGED <<worldVars, linkVars, viewVars, globals, inbox, reported, exited, scope>>
Restart ==
    /\ Spend("losses")
    /\ instance' = instance + 1
    /\ local' = [s \in Session |-> 0] /\ owed' = [s \in Session |-> 0]
    /\ config' = 1 /\ warnings' = 1
    /\ sub' = [sub EXCEPT !.open = FALSE]
    /\ UNCHANGED <<log, durable, linkVars, viewVars, globals, inbox, reported, exited, scope>>
-----------------------------------------------------------------------------
(* The client.  Every reader's work runs in its chain, started when there
   is something to read and no chain; a chain acts only while the selection
   it was started under, its connection and its reader are current. *)
Chain(sel) == [phase |-> "head", sel |-> sel]
NewReader(s) == [id |-> s, hydration |-> None, items |-> <<>>, cursor |-> 0, floor |-> None,
                 dirty |-> TRUE, older |-> FALSE, chain |-> NoChain]
Kick(r, sel) ==
    IF r # None /\ r.chain = NoChain /\ (r.dirty \/ r.older) THEN [r EXCEPT !.chain = Chain(sel)] ELSE r
Resume(r, sel) ==
    IF r = None THEN r ELSE Kick([r EXCEPT !.chain = NoChain, !.dirty = TRUE], sel)
ReaderCurrent == ~exited /\ conn # 0 /\ root # None /\ root.chain # NoChain /\ root.chain.sel = selection

(* beginConnectionLocked: everything of the old connection is dropped; the
   task of readGlobals outlives it. *)
BeginConnection(repair) ==
    /\ dialing.phase = "none"
    /\ dialing' = [phase |-> "connect", repair |-> repair, instance |-> 0]
    /\ conn' = 0 /\ root' = None
    /\ globals' = [globals EXCEPT !.config = 0, !.warnings = 0, !.dirty = TRUE]
    /\ UNCHANGED <<served, dials>>
Repair == BeginConnection(TRUE)

(* clienthost.Connect authenticates the process that serves now. *)
Connect ==
    /\ ~exited /\ dialing.phase = "connect"
    /\ dialing' = [dialing EXCEPT !.phase = "subscribe", !.instance = instance]
    /\ UNCHANGED <<worldVars, sub, conn, served, dials, viewVars, globals, inbox, reported, exited, spent, scope>>
(* The stream is established before anything is read. *)
Subscribe ==
    /\ ~exited /\ dialing.phase = "subscribe"
    /\ IF dialing.instance = instance
       THEN /\ dialing' = [dialing EXCEPT !.phase = "publish"] /\ dials' = dials + 1
            /\ sub' = [open |-> TRUE, queue |-> <<>>]
            /\ UNCHANGED exited
       ELSE /\ exited' = TRUE
            /\ dialing' = [dialing EXCEPT !.phase = "none"]
            /\ UNCHANGED <<dials, sub>>
    /\ UNCHANGED <<worldVars, conn, served, viewVars, globals, inbox, reported, spent, scope>>
PublishConnection ==
    /\ ~exited /\ dialing.phase = "publish"
    /\ dialing' = [dialing EXCEPT !.phase = "none"]
    /\ conn' = dials /\ served' = dialing.instance
    /\ root' = IF rootID = None THEN None ELSE Kick(NewReader(rootID), selection)
    /\ globals' = IF globals.task = None THEN [globals EXCEPT !.task = [phase |-> "head"]] ELSE globals
    /\ navs' = IF rootID = None /\ ~dialing.repair
               THEN navs \union {[kind |-> "compose", sel |-> selection, conn |-> dials]} ELSE navs
    /\ UNCHANGED <<worldVars, sub, dials, selection, rootID, inbox, reported, exited, spent, scope>>

(* Frames cross the network and two bounded client queues in order; a full
   queue or the stream's end repairs the connection. *)
Forward ==
    /\ ~exited /\ conn # 0 /\ sub.queue # <<>>
    /\ sub' = [sub EXCEPT !.queue = Tail(@)]
    /\ IF Len(inbox) < InboxCap
       THEN inbox' = Append(inbox, [conn |-> conn, event |-> Head(sub.queue)]) /\ UNCHANGED <<linkVars, root, globals>>
       ELSE Repair /\ UNCHANGED inbox
    /\ UNCHANGED <<worldVars, selection, rootID, navs, reported, exited, spent, scope>>
StreamEnds ==
    /\ ~exited /\ conn # 0 /\ ~sub.open
    /\ Repair
    /\ UNCHANGED <<worldVars, sub, selection, rootID, navs, inbox, reported, exited, spent, scope>>
-----------------------------------------------------------------------------
(* readSession.  Reads are answered by the process the connection
   authenticated or fail. *)
Reading(phase) == ReaderCurrent /\ root.chain.phase = phase
Reachable == served = instance
Go(ch) == root' = [root EXCEPT !.chain = ch]
ReadVars == <<worldVars, sub, linkVars, selection, rootID, navs, inbox, exited, scope>>

(* The head of the loop: the oldest request first, and the request is
   cleared before anything is read.  The hydration's configuration is
   captured first. *)
ReadHead ==
    /\ Reading("head")
    /\ \/ /\ ~root.dirty /\ ~root.older
          /\ Go(NoChain)
       \/ /\ ~root.dirty /\ root.older
          /\ root' = [root EXCEPT !.older = FALSE,
                       !.chain = [phase |-> IF root.cursor # 0 THEN "page" ELSE "head", sel |-> selection]]
       \/ /\ root.dirty /\ Reachable
          /\ root' = [root EXCEPT !.dirty = FALSE,
                       !.chain = [phase |-> "session", sel |-> selection, config |-> config,
                                  floors |-> [config |-> globals.config, warnings |-> globals.warnings]]]
    /\ UNCHANGED <<ReadVars, globals, reported, spent>>

(* The pair and the conversation under one lock. *)
ReadSessionView ==
    /\ Reading("session") /\ Reachable
    /\ Go([phase |-> "warnings", sel |-> selection, floors |-> root.chain.floors,
           next |-> [pair |-> Pair(root.id), config |-> root.chain.config, warnings |-> 0, log |-> log[root.id]]])
    /\ UNCHANGED <<ReadVars, globals, reported, spent>>

Adopting(next, items, cursor, floor, err) ==
    [phase |-> "adopt", sel |-> selection, next |-> next, items |-> items, cursor |-> cursor, floor |-> floor, err |-> err]
Rejected(next, err) == Adopting(next, <<>>, 0, None, err)
(* The walk is over when everything missing was met again.  The old cursor
   still addresses the oldest edge unless the walk went past it. *)
Bridged(next, segment, cursor, floor, missing) ==
    IF missing # {}
    THEN [phase |-> "walk", sel |-> selection, next |-> next, segment |-> segment,
          cursor |-> cursor, floor |-> floor, missing |-> missing]
    ELSE IF ~Connected(root.items, segment) THEN Rejected(next, "continuity")
    ELSE LET merged == MergeConversation(root.items, segment)
         IN  Adopting(next, merged,
                      IF root.items # <<>> /\ merged[1].id = root.items[1].id THEN root.cursor ELSE cursor,
                      floor, "none")
(* The hydration is complete: it is compared with what was known when the
   read began, then bridged to the cached range. *)
ReadHydration ==
    /\ Reading("warnings") /\ Reachable
    /\ LET next  == [root.chain.next EXCEPT !.warnings = warnings]
           clock == AcceptHydration(root.hydration, next, root.chain.floors)
           floor == PageFloor(next.pair, root.floor)
           page  == PageBefore(next.log, Len(next.log))
       IN  Go(IF clock # "none" THEN Rejected(next, clock)
              ELSE IF floor # "none" THEN Rejected(next, floor)
              ELSE Bridged(next, page.items, page.cursor, next.pair, Missing(root.items) \ Ids(page.items)))
    /\ UNCHANGED <<ReadVars, globals, reported, spent>>
WalkBack ==
    /\ Reading("walk")
    /\ LET ch == root.chain
       IN  IF ch.cursor = 0 THEN Go(Rejected(ch.next, "continuity"))
           ELSE /\ Reachable
                /\ LET page  == PageBefore(log[root.id], ch.cursor - 1)
                       floor == PageFloor(Pair(root.id), ch.floor)
                   IN  Go(IF floor # "none" THEN Rejected(ch.next, floor)
                          ELSE IF ~Connected(page.items, ch.segment) THEN Rejected(ch.next, "continuity")
                          ELSE Bridged(ch.next, MergeConversation(page.items, ch.segment), page.cursor,
                                       Pair(root.id), ch.missing \ Ids(page.items)))
    /\ UNCHANGED <<ReadVars, globals, reported, spent>>
ReadOlderPage ==
    /\ Reading("page") /\ Reachable
    /\ LET page  == PageBefore(log[root.id], root.cursor - 1)
           floor == PageFloor(Pair(root.id), root.floor)
       IN  Go(IF floor # "none" THEN Rejected(None, floor)
              ELSE IF ~Connected(page.items, root.items) THEN Rejected(None, "continuity")
              ELSE Adopting(None, MergeConversation(page.items, root.items), page.cursor, Pair(root.id), "none"))
    /\ UNCHANGED <<ReadVars, globals, reported, spent>>
(* A read fails: the chain ends and the user is told. *)
ReadFails ==
    /\ \/ \E phase \in {"session", "warnings", "page", "walk"} : Reading(phase)
       \/ Reading("head") /\ root.dirty
    /\ \/ ~Reachable /\ UNCHANGED spent
       \/ Spend("failures")
    /\ root' = [root EXCEPT !.chain = NoChain, !.dirty = @ /\ root.chain.phase # "head"]
    /\ reported' = TRUE
    /\ UNCHANGED <<ReadVars, globals>>
(* The result is adopted under the lock, after a second comparison with the
   clocks accepted meanwhile.  A stale result is read again. *)
Verdict(ch) ==
    IF ch.err # "none" \/ ch.next = None THEN ch.err
    ELSE AcceptHydration(root.hydration, ch.next, globals)
Adopt ==
    /\ Reading("adopt")
    /\ LET ch == root.chain IN
       IF Verdict(ch) = "continuity" THEN Repair
       ELSE /\ root' = IF Verdict(ch) = "stale"
                        THEN [root EXCEPT !.dirty = TRUE, !.older = @ \/ ch.next = None, !.chain = Chain(selection)]
                        ELSE [root EXCEPT !.items = ch.items, !.cursor = ch.cursor, !.floor = ch.floor,
                               !.hydration = IF ch.next = None THEN @ ELSE ch.next, !.chain = Chain(selection)]
            /\ UNCHANGED <<linkVars, globals>>
    /\ UNCHANGED <<worldVars, sub, selection, rootID, navs, inbox, reported, exited, spent, scope>>
-----------------------------------------------------------------------------
(* acceptEvent, on the writer's goroutine.  An event of a former connection
   is dropped; one that names nothing newer than what is shown asks for
   nothing; one that cannot be compared repairs. *)
Unordered(event) ==
    /\ event.kind = "session_changed" /\ root # None /\ root.id = event.of
    /\ root.hydration # None /\ Incomparable(event.pair, root.hydration.pair)
Touches(event) ==
    /\ root # None
    /\ CASE event.kind = "session_changed" ->
               root.id = event.of /\ (root.hydration = None \/ Newer(event.pair, root.hydration.pair))
         [] event.kind = "configuration_changed" -> root.hydration = None \/ event.at > root.hydration.config
         [] event.kind = "warning_changed"       -> root.hydration = None \/ event.at > root.hydration.warnings
         [] event.kind = "scope"                 -> root.id = event.of
TouchesGlobals(event) ==
    \/ event.kind = "configuration_changed" /\ event.at > globals.config
    \/ event.kind = "warning_changed" /\ event.at > globals.warnings
KickGlobals(g) == IF g.task = None THEN [g EXCEPT !.task = [phase |-> "head"]] ELSE g
DirtyWhenIdle(r) ==                  \* mutant: an event during a read is taken to be covered by it
    IF r.chain = NoChain THEN [r EXCEPT !.dirty = TRUE] ELSE r
Dirtied(r) == [r EXCEPT !.dirty = TRUE]
AcceptEvent ==
    /\ ~exited /\ inbox # <<>>
    /\ inbox' = Tail(inbox)
    /\ LET event == Head(inbox).event IN
       IF Head(inbox).conn # conn THEN UNCHANGED <<linkVars, root, globals>>
       ELSE IF Unordered(event) THEN Repair
       ELSE /\ root' = IF Touches(event) THEN Kick(Dirtied(root), selection) ELSE root
            /\ globals' = IF TouchesGlobals(event) THEN KickGlobals([globals EXCEPT !.dirty = TRUE]) ELSE globals
            /\ UNCHANGED linkVars
    /\ UNCHANGED <<worldVars, sub, selection, rootID, navs, reported, exited, spent, scope>>
-----------------------------------------------------------------------------
(* readGlobals: one task reads both clocks, the configuration's first; a
   read that fails leaves 0.  A result of a former connection is dropped
   and the task reads again for the new one. *)
GlobalsVars == <<worldVars, sub, linkVars, viewVars, inbox, exited, scope>>
Answer(from, clock, result) ==
    \/ from = instance /\ result = clock /\ UNCHANGED spent
    \/ from # instance /\ result = 0 /\ UNCHANGED spent
    \/ result = 0 /\ Spend("failures")
ReadConfiguration ==
    /\ ~exited /\ globals.task # None /\ globals.task.phase = "head"
    /\ IF conn = 0 \/ ~globals.dirty
       THEN globals' = [globals EXCEPT !.task = None] /\ UNCHANGED spent
       ELSE \E c \in {0, config} :
              /\ Answer(served, config, c)
              /\ globals' = [globals EXCEPT !.dirty = FALSE,
                    !.task = [phase |-> "warnings", conn |-> conn, instance |-> served, config |-> c]]
    /\ UNCHANGED <<GlobalsVars, reported>>
ReadWarnings ==
    /\ ~exited /\ globals.task # None /\ globals.task.phase = "warnings"
    /\ \E w \in {0, warnings} :
          /\ Answer(globals.task.instance, warnings, w)
          /\ globals' = [globals EXCEPT !.task = [phase |-> "adopt", conn |-> globals.task.conn,
                                                 config |-> globals.task.config, warnings |-> w]]
    /\ UNCHANGED <<GlobalsVars, reported>>
AdoptGlobals ==
    /\ ~exited /\ globals.task # None /\ globals.task.phase = "adopt"
    /\ LET task == globals.task
           old(clock) == task[clock] # 0 /\ task[clock] < globals[clock] IN
       IF task.conn # conn
       THEN /\ globals' = [globals EXCEPT !.dirty = TRUE, !.task = [phase |-> "head"]]
            /\ UNCHANGED reported
       ELSE /\ globals' = [config   |-> Highest(task.config, globals.config),
                           warnings |-> Highest(task.warnings, globals.warnings),
                           dirty    |-> globals.dirty \/ old("config") \/ old("warnings"),
                           task     |-> [phase |-> "head"]]
            /\ reported' = (reported \/ task.config = 0 \/ task.warnings = 0)
    /\ UNCHANGED <<GlobalsVars, spent>>
-----------------------------------------------------------------------------
(* Navigation.  An intent advances the selection, which supersedes the
   displayed reader's chain while the reader stays displayed; it ends by
   adopting the destination or by resuming the reader, unless a newer one
   superseded it. *)
NavVars == <<worldVars, sub, linkVars, globals, inbox, reported, exited, scope>>
Navigate ==
    /\ ~exited /\ Spend("navs")
    /\ selection' = selection + 1
    /\ navs' = navs \union {[kind |-> "adopt", sel |-> selection + 1, conn |-> conn]}
    /\ UNCHANGED <<NavVars, rootID, root>>
Current(n) == conn # 0 /\ n.conn = conn /\ n.sel = selection
NavigationResolves(n, s) ==
    /\ ~exited /\ navs' = navs \ {n}
    /\ IF ~Current(n) THEN UNCHANGED <<selection, rootID, root>>
       ELSE /\ selection' = IF n.kind = "adopt" THEN selection + 1 ELSE selection
            /\ rootID' = s /\ root' = Kick(NewReader(s), selection')
    /\ UNCHANGED <<NavVars, spent>>
NavigationFails(n) ==
    /\ ~exited /\ navs' = navs \ {n}
    /\ root' = IF Current(n) /\ n.kind = "adopt" THEN Resume(root, selection) ELSE root
    /\ UNCHANGED <<NavVars, selection, rootID, spent>>
(* Inspecting a child or leaving the inspector supersedes and resumes. *)
Inspect ==
    /\ ~exited /\ Spend("navs")
    /\ selection' = selection + 1
    /\ root' = IF conn = 0 THEN root ELSE Resume(root, selection + 1)
    /\ UNCHANGED <<NavVars, rootID, navs>>
(* The user asks for the page before the oldest loaded item. *)
WantOlder ==
    /\ ~exited /\ conn # 0 /\ root # None /\ Spend("pages")
    /\ root' = Kick([root EXCEPT !.older = TRUE], selection)
    /\ UNCHANGED <<NavVars, selection, rootID, navs>>
-----------------------------------------------------------------------------
Read(s) == [pair |-> Pair(s), config |-> config, warnings |-> warnings, log |-> log[s]]
(* The client is being started, or follows a Session it has read. *)
Starting ==
    /\ sub = [open |-> FALSE, queue |-> <<>>]
    /\ conn = 0 /\ served = 0 /\ dials = 0
    /\ dialing = [phase |-> "connect", repair |-> FALSE, instance |-> 0]
    /\ rootID = None /\ root = None
    /\ globals = [config |-> 0, warnings |-> 0, dirty |-> TRUE, task |-> None]
Settled ==
    /\ sub = [open |-> TRUE, queue |-> <<>>]
    /\ conn = 1 /\ served = 1 /\ dials = 1
    /\ dialing = [phase |-> "none", repair |-> FALSE, instance |-> 1]
    /\ rootID \in scope.subjects
    /\ LET page == PageBefore(log[rootID], Len(log[rootID])) IN
         root = [id |-> rootID, hydration |-> Read(rootID), items |-> page.items, cursor |-> page.cursor,
                 floor |-> Pair(rootID), dirty |-> FALSE, older |-> FALSE, chain |-> NoChain]
    /\ globals = [config |-> config, warnings |-> warnings, dirty |-> FALSE, task |-> None]
Init ==
    /\ log = [s \in Session |-> Opening] /\ durable = [s \in Session |-> 1] /\ local = [s \in Session |-> 0]
    /\ config = 1 /\ warnings = 1 /\ instance = 1 /\ owed = [s \in Session |-> 0]
    /\ selection = 0 /\ navs = {} /\ inbox = <<>> /\ reported = FALSE /\ exited = FALSE
    /\ scope \in Scopes /\ spent = [what \in Counted |-> 0]
    /\ IF scope.fresh THEN Starting ELSE Settled

Runtime ==
    \/ \E s \in scope.subjects : Publishes(s) \/ Answers(s) \/ LocalChange(s) \/ Scoped(s)
    \/ Reconfigures \/ Warns \/ Lose \/ Restart
Reads ==
    \/ ReadHead \/ ReadSessionView \/ ReadHydration \/ WalkBack \/ ReadOlderPage \/ Adopt
    \/ ReadFails
User == Navigate \/ Inspect \/ WantOlder
Resolves(n) == NavigationFails(n) \/ \E s \in Session : NavigationResolves(n, s)
ReadsGlobals == ReadConfiguration \/ ReadWarnings \/ AdoptGlobals
Links == Connect \/ Subscribe \/ PublishConnection \/ StreamEnds \/ Forward \/ AcceptEvent

Steps ==
    \/ Reads \/ ReadsGlobals \/ Links
    \/ \E s \in Session : Invalidates(s)
    \/ \E n \in navs : Resolves(n)
Next == Runtime \/ User \/ Steps
Spec == Init /\ [][Next]_vars

(* Goroutines run, calls return, frames arrive, in no particular turn.
   Nobody has to change anything, fail or navigate.  (scope.fair says which
   instances assume it.) *)
FairSpec == Spec /\ WF_vars(scope.fair /\ Steps)
-----------------------------------------------------------------------------
(* Every variable has its kind; a chain belongs to a reader, a reader to a
   connection. *)
TypeOK ==
    /\ log \in [Session -> Seq(BOOLEAN)] /\ owed \in [Session -> Nat]
    /\ durable \in [Session -> Nat] /\ local \in [Session -> Nat]
    /\ config \in Nat /\ warnings \in Nat /\ instance \in Nat
    /\ sub \in [open : BOOLEAN, queue : Seq(Events)] /\ Len(sub.queue) <= StreamCap
    /\ dials \in Nat /\ conn \in {0, dials} /\ served \in Nat
    /\ dialing \in [phase : {"none", "connect", "subscribe", "publish"}, repair : BOOLEAN, instance : Nat]
    /\ conn # 0 => dialing.phase = "none"
    /\ selection \in Nat /\ rootID \in Session \cup {None}
    /\ root \in Readers \cup {None} /\ (root # None => root.id = rootID /\ conn # 0)
    /\ globals \in [config : Nat, warnings : Nat, dirty : BOOLEAN, task : Tasks \cup {None}]
    /\ inbox \in Seq([conn : Nat, event : Events]) /\ Len(inbox) <= InboxCap
    /\ navs \subseteq Navs /\ reported \in BOOLEAN /\ exited \in BOOLEAN /\ scope \in Scopes

(* What is shown is one unbroken stretch of the conversation that ends with
   the newest item of the accepted hydration; no call is shown as running
   that had its result there; the older cursor addresses the stretch's
   edge, so the next page joins it. *)
ShownIsUnbroken ==
    TypeOK /\ (root # None /\ root.hydration # None =>
        LET n == Len(root.hydration.log)
            k == n - Len(root.items) + 1
        IN  /\ \A i \in DOMAIN root.items :
                  /\ root.items[i].id = k + i - 1
                  /\ root.hydration.log[root.items[i].id] => root.items[i].done
            /\ root.cursor = (IF k > 1 THEN k ELSE 0))

(* When nothing is on its way any more, no failure was reported and the
   stream stands, then what is displayed is what the Runtime holds: an
   event lost, ignored or overtaken, a superseded read or a navigation that
   came to nothing never leaves the view behind without a sign. *)
Idle ==
    /\ conn # 0 /\ sub.open /\ sub.queue = <<>> /\ inbox = <<>>
    /\ \A s \in Session : owed[s] = 0
    /\ navs = {} /\ globals.task = None
    /\ root # None => ~ReaderCurrent
NoSilentStaleness ==
    Idle /\ ~reported /\ ~exited =>
        /\ globals.config = config /\ globals.warnings = warnings
        /\ root # None =>
              /\ root.hydration # None
              /\ root.hydration.pair = Pair(rootID) /\ root.hydration.log = log[rootID]
              /\ root.hydration.config = config /\ root.hydration.warnings = warnings
              /\ \A i \in DOMAIN root.items : root.items[i].done = log[rootID][root.items[i].id]

(* A reader's accepted clocks never go back, in any component, and neither
   do the Runtime's on one connection; and what a reader accepts is no older
   than what the client then knows of the Runtime, although the two are read
   by different tasks: a late answer does not undo a newer one. *)
Onward ==
    conn' = conn /\ conn # 0 =>
        /\ globals'.config >= globals.config /\ globals'.warnings >= globals.warnings
        /\ (root # None /\ root' # None /\ root'.hydration # None /\ root'.hydration # root.hydration) =>
              /\ root'.hydration.config >= globals.config /\ root'.hydration.warnings >= globals.warnings
              /\ root.hydration # None =>
                    /\ AtLeast(root'.hydration.pair, root.hydration.pair)
                    /\ root'.hydration.config >= root.hydration.config
                    /\ root'.hydration.warnings >= root.hydration.warnings
ClocksAdvance == [][Onward]_vars

(* A connection is given up only when its stream ended or a frame met a full
   queue: what an honest Runtime answers, in whatever order the reads and
   its changes fall, is never taken for a breach of continuity. *)
ForLoss == conn # 0 /\ conn' = 0 => ~sub.open \/ (Len(inbox) = InboxCap /\ sub'.queue # sub.queue)
RepairsOnlyLosses == [][ForLoss]_vars

(* The view settles: stale answers are not read again forever, and repairs
   come to an end. *)
Settles == scope.fair => <>[](exited \/ Idle)
=============================================================================
