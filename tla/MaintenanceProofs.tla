-------------------------- MODULE MaintenanceProofs --------------------------
(***************************************************************************)
(* The committed state of a Session under compaction: what a load takes    *)
(* back, the work that is recorded once, the conversation that goes on     *)
(* from any checkpoint, and the progress of compaction, for every          *)
(* strategy, every plan it may propose and any number of failures, losses  *)
(* and interruptions.  MaintenanceInv is inductive: one lemma per action,  *)
(* under them what a growing log keeps (Held), what a terminal settlement  *)
(* does (Terminates) and what a committed checkpoint leaves (Checkpoints). *)
(***************************************************************************)
EXTENDS Maintenance, FiniteSetTheorems, SequenceTheorems, WellFoundedInduction, TLAPS

(* The states the Session and its execution go through together. *)
Alive   == at \notin {"idle", "dead", "down"}
Maintaining == at \in {"plan", "open", "summarize", "summarized", "consume", "commit"}
Waiting(r)  == {r.pending[k].call : k \in DOMAIN r.pending}
Asked   == IF Running THEN Waiting(ops[Current]) ELSE {}
View    == Project(log, checkpoint)

(* One Operation runs, the last; what has ended holds nothing open. *)
RunInv ==
    /\ at = "idle" => ~ Running
    /\ Alive \/ at = "dead" => Running
    /\ \A o \in DOMAIN ops : ops[o].status = "running" => o = Len(ops)
    /\ \A o \in DOMAIN ops : ops[o].status # "running" => ops[o].effect.kind = "none" /\ ops[o].pending = <<>>
    /\ at \in {"idle", "down"} => facts.list = <<>> /\ pendingFacts = <<>>

(* What each place of the goroutine says of its Operation and its memory. *)
KindInv ==
    /\ at \in {"source", "dispatch", "answer", "answered", "tools", "over"} => ~ Manual
    /\ Alive /\ Manual => facts.source = 0
    /\ Alive /\ ~ Maintaining => facts.list = <<>>
    /\ at = "commit" => plan.kind = "checkpoint" \/ (Manual /\ plan.kind = "none")
    /\ at \notin {"commit", "dead"} => plan.retain = {}
    /\ at \in {"summarize", "summarized"} => facts.list # <<>> /\ facts.list[Len(facts.list)].report = "absent"
    /\ IsInjective(output.calls) /\ (output.status = "errored" => output.calls = <<>>)
EffectInv ==
    Alive => ops[Current].effect.kind =
        IF at \in {"summarize", "summarized"} THEN "maintenance"
        ELSE IF at \in {"answer", "answered"} THEN "conversation" ELSE "none"

(* A tool result belongs to the latest output before it, once for each of
   its calls; what is pending belongs to the latest output of all. *)
Own(l) ==
    \A t \in DOMAIN l : l[t].kind = "tool" =>
        /\ l[t].of \in 1..(t - 1) /\ l[l[t].of].kind = "assistant"
        /\ l[t].call \in ToSet(l[l[t].of].calls)
        /\ \A i \in (l[t].of + 1)..(t - 1) : l[i].kind # "assistant"
        /\ \A u \in DOMAIN l : l[u].kind = "tool" /\ l[u].of = l[t].of /\ l[u].call = l[t].call => u = t
OwnInv == Own(log)
Due(l, p) ==
    /\ \A k \in DOMAIN p :
         /\ p[k].of \in DOMAIN l /\ l[p[k].of].kind = "assistant"
         /\ p[k].call \in ToSet(l[p[k].of].calls)
         /\ \A i \in (p[k].of + 1)..Len(l) : l[i].kind # "assistant"
         /\ \A i \in DOMAIN l : l[i].kind = "tool" /\ l[i].of = p[k].of => l[i].call # p[k].call
    /\ \A j, k \in DOMAIN p : p[j].call = p[k].call => j = k
PendingInv ==
    Running => /\ ops[Current].pending # <<>> => at \in {"tools", "dead", "down"}
               /\ at = "tools" => ops[Current].pending # <<>>
               /\ Due(log, ops[Current].pending)

(* The messages ms show entries of l up to top, in order, each result with
   the entry that holds its call. *)
Shows(l, ms, top) ==
    \A k \in DOMAIN ms :
         /\ ms[k].src \in 0..top
         /\ ms[k] = IF ms[k].src = 0 THEN Text ELSE Message(l, ms[k].src)
         /\ ms[k].src # 0 => \A j \in 1..(k - 1) : ms[j].src < ms[k].src
         /\ ms[k].result # NoCall => \E j \in DOMAIN ms : ms[j].src = l[ms[k].src].of
Sound(l, i) == /\ l[i].boundary \in 1..(i - 1) /\ ~ CutUnsafe(l, l[i].boundary)
               /\ Shows(l, l[i].messages, l[i].boundary)
CheckpointInv == \A i \in DOMAIN log : log[i].kind = "checkpoint" => Sound(log, i)

(* Every call of ms has its result, but for those of P that are open. *)
OpenPairs(ms, P) ==
    /\ \A i \in DOMAIN ms : ms[i].result # NoCall =>
          \E j \in 1..(i - 1) : CallAt(ms, ms[i].result, j) /\ Quiet(ms, ms[i].result, j, i)
    /\ \A i \in DOMAIN ms : \A c \in ToSet(ms[i].calls) :
          \/ \E j \in (i + 1)..Len(ms) : ms[j].result = c /\ Quiet(ms, c, i, j)
          \/ c \in P /\ Quiet(ms, c, i, Len(ms) + 1)
    /\ \A c \in P : \E i \in DOMAIN ms : CallAt(ms, c, i) /\ Quiet(ms, c, i, Len(ms) + 1)
PairInv == OpenPairs(View.messages, Asked)

(* What a procedure froze is the view, and a published request names it. *)
FrozenInv ==
    Maintaining \/ at = "answer" \/ (at = "dispatch" /\ frozen.cp = checkpoint) => frozen = View
RequestInv ==
    /\ Alive /\ (Manual \/ at \in {"source", "over"}) => ops[Current].request = NoRequest
    /\ (Maintaining \/ at \in {"dispatch", "answer"}) /\ ops[Current].request.id # 0 =>
            /\ ops[Current].request.cp = View.cp /\ ops[Current].request.boundary = View.boundary
SummaryInv ==
    scope.strategy = "summary" /\ Maintaining /\ at # "plan" /\ ~ Manual => ContextMeasurement = "some"

(* A fact is in one place: the log, the procedure or the execution. *)
FactIds(list)  == {list[k].id : k \in DOMAIN list}
Distinct(list) == \A j, k \in DOMAIN list : list[j].id = list[k].id => j = k
Carries(e)     == IF e.kind \in {"checkpoint", "settlement"} THEN e.facts ELSE <<>>
Noted(l)       == UNION {{i} \X DOMAIN Carries(l[i]) : i \in DOMAIN l}
NotedIds(l)    == {Carries(l[a[1]])[a[2]].id : a \in Noted(l)}
Once(l) == \A a, b \in Noted(l) : Carries(l[a[1]])[a[2]].id = Carries(l[b[1]])[b[2]].id => a = b
FactInv ==
    /\ Once(log)
    /\ NotedIds(log) \cup FactIds(facts.list) \cup FactIds(pendingFacts) \subseteq 0..(ids - 1)
    /\ Distinct(facts.list) /\ Distinct(pendingFacts)
    /\ NotedIds(log) \cap (FactIds(facts.list) \cup FactIds(pendingFacts)) = {}
    /\ FactIds(facts.list) \cap FactIds(pendingFacts) = {}
    /\ (Maintaining \/ at \in {"dispatch", "answer", "answered"}) /\ ~ Manual =>
            /\ facts.source \in 1..(ids - 1)
            /\ facts.source \notin FactIds(facts.list) \cup FactIds(pendingFacts)
    /\ at \in {"answer", "answered"} => ops[Current].effect.id = facts.source

(* What the running Operation spent is in the log or in the memory of its
   execution, and the register marks what only memory holds. *)
Carried == Units(FactReports(pendingFacts)) + Units(FactReports(facts.list))
            + (IF at \in {"answered", "summarized"} THEN Units(<<output.report>>) ELSE 0)
CostInv ==
    /\ \A i \in DOMAIN log : log[i].op \in DOMAIN ops
    /\ Alive => spent[Current] = LoggedUsage(log, Current) + Carried
    /\ Alive /\ ops[Current].effect.kind = "none" /\ ops[Current].unreported = "no" => facts.list = <<>>
    /\ Alive /\ ops[Current].unreported = "no" => pendingFacts = <<>>
    /\ \A o \in DOMAIN spent : o > Len(ops) => spent[o] = 0
MaintenanceInv ==
    /\ TypeOK /\ RunInv /\ KindInv /\ EffectInv /\ PendingInv /\ OwnInv /\ CheckpointInv /\ PairInv
    /\ FrozenInv /\ RequestInv /\ SummaryInv /\ FactInv /\ CostInv /\ CostHonest /\ TotalsMatch

-----------------------------------------------------------------------------
(* Induction over the naturals, for a set. *)
Less == {p \in Nat \X Nat : p[1] < p[2]}

(* No sequence of naturals descends for ever. *)
LEMMA LessIsWellFounded == IsWellFoundedOn(Less, Nat)
BY NatLessThanWellFounded DEF OpToRel, Less

(* A nonempty set of naturals has a least member. *)
LEMMA Smallest ==
    ASSUME NEW S \in SUBSET Nat, S # {}
    PROVE  \E n \in S : \A m \in S : n <= m
<1>1. PICK n \in S : \A m \in S : ~ (<<m, n>> \in Less) BY WFMin, LessIsWellFounded
<1>2. \A m \in S : ~ (m < n) BY <1>1 DEF Less
<1>3. QED BY <1>2

(* What holds of 0 and of the next number of each it holds of, holds of
   all. *)
LEMMA Induct ==
    ASSUME NEW S, 0 \in S, \A n \in Nat : n \in S => n + 1 \in S
    PROVE  \A n \in Nat : n \in S
<1>. SUFFICES ASSUME Nat \ S # {} PROVE FALSE OBVIOUS
<1>1. PICK n \in Nat \ S : \A m \in Nat \ S : n <= m BY Smallest
<1>2. n # 0 /\ n - 1 \in Nat BY <1>1
<1>3. n - 1 \in S BY <1>1, <1>2
<1>4. n - 1 + 1 \in S BY <1>2, <1>3
<1>5. QED BY <1>2, <1>4

(* A bounded nonempty set of naturals has a greatest member. *)
LEMMA Largest ==
    ASSUME NEW S \in SUBSET Nat, S # {}, NEW n \in Nat, \A m \in S : m <= n
    PROVE  \E m \in S : \A k \in S : k <= m
<1>. DEFINE T == {b \in Nat : \A m \in S : m <= b}
<1>1. T \in SUBSET Nat /\ T # {} OBVIOUS
<1>2. PICK b \in T : \A c \in T : b <= c BY <1>1, Smallest
<1>3. b \in S
  <2>. SUFFICES ASSUME b \notin S PROVE FALSE OBVIOUS
  <2>0. b \in Nat /\ \A m \in S : m \in Nat /\ m <= b /\ m # b BY <1>2
  <2>. PICK z \in S : TRUE OBVIOUS
  <2>1. (\A m \in S : m <= b - 1) /\ b # 0 BY <2>0
  <2>2. b - 1 \in T BY <2>1, <1>2
  <2>3. QED BY <2>2, <1>2
<1>4. QED BY <1>2, <1>3
-----------------------------------------------------------------------------
(* The members of a set up to a bound, in order. *)
Steps(S, f, n) ==
    f = [i \in 0..n |-> IF i = 0 THEN <<>> ELSE IF i \in S THEN Append(f[i - 1], i) ELSE f[i - 1]]

(* The steps of an ascending list can be taken to any bound. *)
LEMMA StepsExist ==
    ASSUME NEW S PROVE \A n \in Nat : \E f : Steps(S, f, n)
<1>. DEFINE G == {n \in Nat : \E f : Steps(S, f, n)}
<1>1. 0 \in G
  <2>1. Steps(S, [i \in 0..0 |-> <<>>], 0) BY DEF Steps
  <2>2. QED BY <2>1
<1>2. ASSUME NEW n \in Nat, n \in G PROVE n + 1 \in G
  <2>1. PICK f : Steps(S, f, n) BY <1>2
  <2>. DEFINE g == [i \in 0..(n + 1) |-> IF i = n + 1 THEN (IF i \in S THEN Append(f[n], i) ELSE f[n]) ELSE f[i]]
  <2>2. ASSUME NEW i \in 0..(n + 1)
        PROVE  g[i] = IF i = 0 THEN <<>> ELSE IF i \in S THEN Append(g[i - 1], i) ELSE g[i - 1]
    <3>1. CASE i = n + 1
      <4>1. g[i - 1] = f[n] /\ i # 0 BY <3>1
      <4>2. QED BY <3>1, <4>1
    <3>2. CASE i # n + 1
      <4>1. i \in 0..n /\ g[i] = f[i] BY <3>2
      <4>2. f[i] = IF i = 0 THEN <<>> ELSE IF i \in S THEN Append(f[i - 1], i) ELSE f[i - 1] BY <2>1, <4>1 DEF Steps
      <4>3. i # 0 => g[i - 1] = f[i - 1] BY <4>1
      <4>4. QED BY <4>1, <4>2, <4>3
    <3>3. QED BY <3>1, <3>2
  <2>3. Steps(S, g, n + 1) BY <2>2 DEF Steps
  <2>4. QED BY <2>3
<1>. HIDE DEF G
<1>3. \A n \in Nat : n \in G BY <1>1, <1>2, Induct
<1>4. QED BY <1>3 DEF G

(* They are the same whatever the bound they are taken to. *)
LEMMA StepsAgree ==
    ASSUME NEW S, NEW f, NEW g, NEW n \in Nat, NEW m \in Nat, n <= m, Steps(S, f, n), Steps(S, g, m)
    PROVE  f[n] = g[n]
<1>. DEFINE G == {i \in Nat : i <= n => f[i] = g[i]}
<1>1. 0 \in G BY DEF Steps
<1>2. ASSUME NEW i \in Nat, i \in G PROVE i + 1 \in G
  <2>. SUFFICES ASSUME i + 1 <= n PROVE f[i + 1] = g[i + 1] OBVIOUS
  <2>1. f[i] = g[i] /\ i + 1 \in 0..n /\ i + 1 \in 0..m /\ i + 1 # 0 /\ (i + 1) - 1 = i BY <1>2
  <2>2. f[i + 1] = IF i + 1 \in S THEN Append(f[i], i + 1) ELSE f[i] BY <2>1 DEF Steps
  <2>3. g[i + 1] = IF i + 1 \in S THEN Append(g[i], i + 1) ELSE g[i] BY <2>1 DEF Steps
  <2>4. QED BY <2>1, <2>2, <2>3
<1>. HIDE DEF G
<1>3. n \in G BY <1>1, <1>2, Induct
<1>4. QED BY <1>3 DEF G

(* The ascending list is the last of its steps. *)
LEMMA AscendingIs ==
    ASSUME NEW S, NEW n \in Nat, NEW f, Steps(S, f, n)
    PROVE  Ascending(S, n) = f[n]
<1>. DEFINE up == CHOOSE g : Steps(S, g, n)
<1>1. Steps(S, up, n) BY StepsExist
<1>2. up[n] = f[n] BY <1>1, StepsAgree
<1>3. Ascending(S, n) = up[n] BY DEF Ascending, Steps
<1>4. QED BY <1>2, <1>3

(* Up to 0 nothing is listed. *)
LEMMA AscendingStarts ==
    ASSUME NEW S PROVE Ascending(S, 0) = <<>>
<1>1. PICK f : Steps(S, f, 0) BY StepsExist
<1>2. f[0] = <<>> BY <1>1 DEF Steps
<1>3. QED BY <1>1, <1>2, AscendingIs

(* One number more is listed last, when it is a member. *)
LEMMA AscendingSteps ==
    ASSUME NEW S, NEW n \in Nat
    PROVE  Ascending(S, n + 1) = IF n + 1 \in S THEN Append(Ascending(S, n), n + 1) ELSE Ascending(S, n)
<1>1. PICK f : Steps(S, f, n + 1) BY StepsExist
<1>2. PICK g : Steps(S, g, n) BY StepsExist
<1>3. g[n] = f[n] BY <1>1, <1>2, StepsAgree
<1>4. f[n + 1] = IF n + 1 \in S THEN Append(f[n], n + 1) ELSE f[n]
  <2>1. n + 1 \in 0..(n + 1) /\ n + 1 # 0 /\ (n + 1) - 1 = n OBVIOUS
  <2>2. QED BY <1>1, <2>1 DEF Steps
<1>5. QED BY <1>1, <1>2, <1>3, <1>4, AscendingIs

Lists(a, S, n) ==
    /\ a \in Seq(1..n) /\ Len(a) <= n
    /\ \A k \in 1..Len(a) : a[k] \in S
    /\ \A j, k \in 1..Len(a) : j < k => a[j] < a[k]
    /\ \A i \in S \cap (1..n) : \E k \in 1..Len(a) : a[k] = i

(* A list of the members stays one when the next member is appended. *)
LEMMA ListsGrow ==
    ASSUME NEW a, NEW S, NEW n \in Nat, Lists(a, S, n)
    PROVE  Lists(IF n + 1 \in S THEN Append(a, n + 1) ELSE a, S, n + 1)
<1>. a \in Seq(1..(n + 1)) /\ Len(a) \in Nat /\ \A k \in 1..Len(a) : a[k] \in 1..n /\ a[k] \in S
  BY SeqMonotonic, 1..n \subseteq 1..(n + 1) DEF Lists
<1>1. CASE n + 1 \in S
  <2>. DEFINE b == Append(a, n + 1)
  <2>1. b \in Seq(1..(n + 1)) /\ Len(b) = Len(a) + 1 /\ b[Len(b)] = n + 1 /\ \A k \in 1..Len(a) : b[k] = a[k] BY n + 1 \in 1..(n + 1)
  <2>. HIDE DEF b
  <2>2. Len(b) <= n + 1 BY <2>1 DEF Lists
  <2>3. \A k \in 1..Len(b) : b[k] \in S
    <3>. SUFFICES ASSUME NEW k \in 1..Len(b) PROVE b[k] \in S OBVIOUS
    <3>1. CASE k = Len(b) BY <3>1, <2>1, <1>1
    <3>2. CASE k # Len(b)
      <4>1. Len(b) = Len(a) + 1 /\ Len(a) \in Nat BY <2>1
      <4>2. k \in 1..Len(a) BY <3>2, <4>1
      <4>3. QED BY <4>2, <2>1
    <3>3. QED BY <3>1, <3>2
  <2>4. \A j, k \in 1..Len(b) : j < k => b[j] < b[k]
    <3>. SUFFICES ASSUME NEW j \in 1..Len(b), NEW k \in 1..Len(b), j < k PROVE b[j] < b[k] OBVIOUS
    <3>1. j \in 1..Len(a) /\ b[j] = a[j] /\ a[j] \in 1..n BY <2>1
    <3>2. CASE k = Len(b) BY <3>1, <3>2, <2>1
    <3>3. CASE k # Len(b)
      <4>0. Len(b) = Len(a) + 1 /\ Len(a) \in Nat BY <2>1
      <4>. DEFINE m == Len(a)
      <4>. HIDE DEF m
      <4>a. k \in 1..(m + 1) /\ k # m + 1 /\ m \in Nat BY <3>3, <4>0 DEF m
      <4>b. k \in 1..m BY <4>a
      <4>1. k \in 1..Len(a) BY <4>b DEF m
      <4>2. b[k] = a[k] BY <4>1, <2>1
      <4>3. a[j] < a[k] BY <3>1, <4>1 DEF Lists
      <4>4. QED BY <3>1, <4>2, <4>3
    <3>4. QED BY <3>2, <3>3
  <2>5. \A i \in S \cap (1..(n + 1)) : \E k \in 1..Len(b) : b[k] = i
    <3>. SUFFICES ASSUME NEW i \in S \cap (1..(n + 1)) PROVE \E k \in 1..Len(b) : b[k] = i OBVIOUS
    <3>1. CASE i = n + 1
      <4>1. Len(b) \in 1..Len(b) BY <2>1
      <4>2. QED BY <3>1, <4>1, <2>1
    <3>2. CASE i # n + 1
      <4>1. PICK k \in 1..Len(a) : a[k] = i BY <3>2 DEF Lists
      <4>2. k \in 1..Len(b) /\ b[k] = i BY <4>1, <2>1
      <4>3. QED BY <4>2
    <3>3. QED BY <3>1, <3>2
  <2>6. QED BY <1>1, <2>1, <2>2, <2>3, <2>4, <2>5 DEF Lists, b
<1>2. CASE n + 1 \notin S
  <2>1. S \cap (1..(n + 1)) = S \cap (1..n) BY <1>2
  <2>2. QED BY <1>2, <2>1 DEF Lists
<1>3. QED BY <1>1, <1>2

(* The ascending list lists the members up to the bound. *)
LEMMA AscendingLists ==
    ASSUME NEW S, NEW n \in Nat PROVE Lists(Ascending(S, n), S, n)
<1>. DEFINE G == {i \in Nat : Lists(Ascending(S, i), S, i)}
<1>1. 0 \in G
  <2>1. Ascending(S, 0) = <<>> BY AscendingStarts
  <2>2. <<>> \in Seq(1..0) /\ Len(<<>>) = 0 /\ 1..0 = {} BY EmptySeq
  <2>3. Lists(<<>>, S, 0) BY <2>2 DEF Lists
  <2>4. QED BY <2>1, <2>3
<1>2. ASSUME NEW i \in Nat, i \in G PROVE i + 1 \in G BY <1>2, ListsGrow, AscendingSteps
<1>. HIDE DEF G
<1>3. n \in G BY <1>1, <1>2, Induct
<1>4. QED BY <1>3 DEF G

(* The kinds of an ascending list. *)
LEMMA AscendingKinds ==
    ASSUME NEW S, NEW n \in Nat
    PROVE  /\ Ascending(S, n) \in Seq(1..n) /\ Len(Ascending(S, n)) \in 0..n
           /\ DOMAIN Ascending(S, n) = 1..Len(Ascending(S, n))
           /\ \A k \in 1..Len(Ascending(S, n)) : Ascending(S, n)[k] \in S \cap (1..n)
           /\ \A j, k \in 1..Len(Ascending(S, n)) : j < k => Ascending(S, n)[j] < Ascending(S, n)[k]
           /\ \A i \in S \cap (1..n) : \E k \in 1..Len(Ascending(S, n)) : Ascending(S, n)[k] = i
<1>. DEFINE a == Ascending(S, n)
<1>1. Lists(a, S, n) BY AscendingLists
<1>. HIDE DEF a
<1>2. a \in Seq(1..n) /\ Len(a) \in 0..n /\ DOMAIN a = 1..Len(a) /\ \A k \in 1..Len(a) : a[k] \in 1..n BY <1>1 DEF Lists
<1>3. QED BY <1>1, <1>2 DEF Lists, a

(* Sets that agree up to the bound have the same list. *)
LEMMA AscendingSame ==
    ASSUME NEW S, NEW T, NEW n \in Nat, \A i \in 1..n : i \in S <=> i \in T
    PROVE  Ascending(S, n) = Ascending(T, n)
<1>. DEFINE G == {i \in Nat : i <= n => Ascending(S, i) = Ascending(T, i)}
<1>1. 0 \in G BY AscendingStarts
<1>2. ASSUME NEW i \in Nat, i \in G PROVE i + 1 \in G
  <2>. SUFFICES ASSUME i + 1 <= n PROVE Ascending(S, i + 1) = Ascending(T, i + 1) OBVIOUS
  <2>1. i + 1 \in 1..n /\ Ascending(S, i) = Ascending(T, i) BY <1>2
  <2>2. QED BY <2>1, AscendingSteps
<1>. HIDE DEF G
<1>3. n \in G BY <1>1, <1>2, Induct
<1>4. QED BY <1>3 DEF G

(* A run of members is listed as it is. *)
Run(n, q) == [i \in 1..q |-> n + i]

(* A run of consecutive numbers, and the run one longer. *)
LEMMA RunGrows ==
    ASSUME NEW n \in Nat, NEW q \in Nat
    PROVE  /\ Run(n, 0) = <<>>
           /\ Run(n, q) \in Seq(Nat) /\ Len(Run(n, q)) = q /\ \A k \in 1..q : Run(n, q)[k] = n + k
           /\ Run(n, q + 1) = Append(Run(n, q), (n + q) + 1)
<1>1. Run(n, 0) = <<>> BY DEF Run
<1>2. ASSUME NEW m \in Nat
      PROVE  Run(n, m) \in Seq(Nat) /\ Len(Run(n, m)) = m /\ \A k \in 1..m : Run(n, m)[k] = n + k
  <2>1. \A k \in 1..m : n + k \in Nat OBVIOUS
  <2>2. QED BY <2>1 DEF Run
<1>3. q + 1 \in Nat /\ (n + q) + 1 \in Nat OBVIOUS
<1>. DEFINE b == Run(n, q)
            c == Run(n, q + 1)
<1>4. b \in Seq(Nat) /\ Len(b) = q /\ \A k \in 1..q : b[k] = n + k BY <1>2
<1>5. c \in Seq(Nat) /\ Len(c) = q + 1 /\ \A k \in 1..(q + 1) : c[k] = n + k BY <1>2, <1>3
<1>. HIDE DEF b, c
<1>6. c = Append(b, (n + q) + 1) BY <1>3, <1>4, <1>5
<1>7. QED BY <1>1, <1>4, <1>6 DEF b, c

(* Appending to the second of two joined sequences appends to both. *)
LEMMA AppendOver ==
    ASSUME NEW S, NEW s \in Seq(S), NEW t \in Seq(S), NEW x \in S
    PROVE  s \o Append(t, x) = Append(s \o t, x)
<1>1. s \o t \in Seq(S) /\ <<x>> \in Seq(S) BY ConcatProperties
<1>2. Append(s \o t, x) = (s \o t) \o <<x>> BY <1>1, AppendIsConcat
<1>3. Append(t, x) = t \o <<x>> BY AppendIsConcat
<1>4. (s \o t) \o <<x>> = s \o (t \o <<x>>) BY <1>1, ConcatAssociative
<1>5. QED BY <1>2, <1>3, <1>4

(* Where every further number is a member the list gains the run of them. *)
LEMMA AscendingRun ==
    ASSUME NEW S, NEW n \in Nat, NEW q \in Nat, \A i \in 1..q : n + i \in S
    PROVE  Ascending(S, n + q) = Ascending(S, n) \o Run(n, q)
<1>. DEFINE a == Ascending(S, n)
            G == {i \in Nat : i <= q => Ascending(S, n + i) = a \o Run(n, i)}
<1>0. a \in Seq(Nat)
  <2>1. a \in Seq(1..n) BY AscendingKinds
  <2>2. QED BY <2>1, SeqMonotonic, 1..n \subseteq Nat
<1>1. 0 \in G
  <2>2. a \o <<>> = a BY <1>0, ConcatEmptySeq
  <2>3. n + 0 = n OBVIOUS
  <2>4. Ascending(S, n + 0) = a BY <2>3
  <2>5. Ascending(S, n + 0) = a \o Run(n, 0) BY <2>2, <2>4, RunGrows
  <2>6. QED BY <2>5
<1>2. ASSUME NEW i \in Nat, i \in G PROVE i + 1 \in G
  <2>. SUFFICES ASSUME i + 1 <= q PROVE Ascending(S, n + (i + 1)) = a \o Run(n, i + 1) OBVIOUS
  <2>1. n + (i + 1) \in S /\ n + (i + 1) = (n + i) + 1 /\ n + i \in Nat /\ i <= q OBVIOUS
  <2>2. Ascending(S, n + i) = a \o Run(n, i) BY <1>2, <2>1
  <2>. HIDE DEF a
  <2>5. Ascending(S, n + (i + 1)) = Append(a \o Run(n, i), (n + i) + 1) BY <2>1, <2>2, AscendingSteps
  <2>6. Run(n, i) \in Seq(Nat) /\ Run(n, i + 1) = Append(Run(n, i), (n + i) + 1) /\ (n + i) + 1 \in Nat BY RunGrows
  <2>. DEFINE x == (n + i) + 1
  <2>7. x \in Nat OBVIOUS
  <2>. HIDE DEF x
  <2>a. Run(n, i) \in Seq(Nat) BY RunGrows
  <2>8. a \o Append(Run(n, i), x) = Append(a \o Run(n, i), x) BY <1>0, <2>a, <2>7, AppendOver
  <2>9. QED BY <2>5, <2>6, <2>8 DEF x
<1>. HIDE DEF G
<1>3. q \in G BY <1>1, <1>2, Induct
<1>4. Ascending(S, n + q) = a \o Run(n, q) BY <1>3 DEF G
<1>5. QED BY <1>4

(* Where no further number is a member the list stays. *)
LEMMA AscendingIdle ==
    ASSUME NEW S, NEW n \in Nat, NEW q \in Nat, \A i \in 1..q : n + i \notin S
    PROVE  Ascending(S, n + q) = Ascending(S, n)
<1>. DEFINE G == {i \in Nat : i <= q => Ascending(S, n + i) = Ascending(S, n)}
<1>1. 0 \in G
  <2>1. n + 0 = n OBVIOUS
  <2>2. QED BY <2>1
<1>2. ASSUME NEW i \in Nat, i \in G PROVE i + 1 \in G
  <2>. SUFFICES ASSUME i + 1 <= q PROVE Ascending(S, n + (i + 1)) = Ascending(S, n) OBVIOUS
  <2>1. n + (i + 1) \notin S /\ n + (i + 1) = (n + i) + 1 /\ n + i \in Nat /\ i <= q OBVIOUS
  <2>2. Ascending(S, n + i) = Ascending(S, n) BY <1>2, <2>1
  <2>3. Ascending(S, (n + i) + 1) = Ascending(S, n + i) BY <2>1, AscendingSteps
  <2>4. QED BY <2>1, <2>2, <2>3
<1>. HIDE DEF G
<1>3. q \in G BY <1>1, <1>2, Induct
<1>4. QED BY <1>3 DEF G

(* The list up to a bound begins with the list up to a smaller one. *)
LEMMA AscendingBegins ==
    ASSUME NEW S, NEW n \in Nat, NEW m \in Nat, m <= n
    PROVE  /\ Len(Ascending(S, m)) <= Len(Ascending(S, n))
           /\ \A k \in 1..Len(Ascending(S, m)) : Ascending(S, n)[k] = Ascending(S, m)[k]
<1>. DEFINE Begins(n0) == /\ Len(Ascending(S, m)) <= Len(Ascending(S, n0))
                          /\ \A k \in 1..Len(Ascending(S, m)) : Ascending(S, n0)[k] = Ascending(S, m)[k]
            G == {i \in Nat : Begins(m + i)}
<1>0. \A i \in Nat : Len(Ascending(S, i)) \in Nat /\ Ascending(S, i) \in Seq(Nat)
  <2>. SUFFICES ASSUME NEW i \in Nat PROVE Len(Ascending(S, i)) \in Nat /\ Ascending(S, i) \in Seq(Nat) OBVIOUS
  <2>1. Ascending(S, i) \in Seq(1..i) BY AscendingKinds
  <2>2. QED BY <2>1, SeqMonotonic, 1..i \subseteq Nat
<1>1. 0 \in G
  <2>1. m + 0 = m OBVIOUS
  <2>2. QED BY <2>1, <1>0
<1>2. ASSUME NEW i \in Nat, i \in G PROVE i + 1 \in G
  <2>. DEFINE a == Ascending(S, m + i)
              b == Ascending(S, m)
              c == Ascending(S, m + (i + 1))
  <2>1. Len(b) <= Len(a) /\ \A k \in 1..Len(b) : a[k] = b[k] BY <1>2
  <2>2. a \in Seq(Nat) /\ Len(a) \in Nat /\ Len(b) \in Nat BY <1>0
  <2>3. c = IF m + (i + 1) \in S THEN Append(a, m + (i + 1)) ELSE a
    <3>1. m + i \in Nat /\ (m + i) + 1 = m + (i + 1) OBVIOUS
    <3>2. QED BY <3>1, AscendingSteps
  <2>. HIDE DEF a, b, c
  <2>4. Len(c) >= Len(a) /\ Len(c) \in Nat /\ \A k \in 1..Len(a) : c[k] = a[k] BY <2>2, <2>3
  <2>5. Len(b) <= Len(c) BY <2>1, <2>2, <2>4
  <2>6. \A k \in 1..Len(b) : c[k] = b[k] BY <2>1, <2>2, <2>4
  <2>7. QED BY <2>5, <2>6 DEF b, c
<1>. HIDE DEF G
<1>3. n - m \in G BY <1>1, <1>2, Induct
<1>4. m + (n - m) = n OBVIOUS
<1>5. Begins(m + (n - m)) BY <1>3 DEF G
<1>6. QED BY <1>4, <1>5
-----------------------------------------------------------------------------
(* The log grows at its end. *)

(* A sequence and what is added to it, position by position. *)
LEMMA Grown ==
    ASSUME NEW S, NEW l \in Seq(S), NEW added \in Seq(S)
    PROVE  /\ l \o added \in Seq(S) /\ Len(l \o added) = Len(l) + Len(added)
           /\ DOMAIN (l \o added) = 1..(Len(l) + Len(added)) /\ DOMAIN l = 1..Len(l) /\ Len(l) \in Nat /\ Len(added) \in Nat
           /\ \A i \in 1..Len(l) : (l \o added)[i] = l[i]
           /\ \A k \in 1..Len(added) : (l \o added)[Len(l) + k] = added[k]
<1>1. l \o added \in Seq(S) /\ Len(l \o added) = Len(l) + Len(added) /\ Len(l) \in Nat /\ Len(added) \in Nat
      /\ \A i \in 1..Len(l) + Len(added) : (l \o added)[i] = IF i <= Len(l) THEN l[i] ELSE added[i - Len(l)]
  BY ConcatProperties, LenProperties
<1>2. DOMAIN (l \o added) = 1..(Len(l) + Len(added)) /\ DOMAIN l = 1..Len(l) BY <1>1, LenProperties
<1>3. ASSUME NEW i \in 1..Len(l) PROVE (l \o added)[i] = l[i]
  <2>1. i \in 1..Len(l) + Len(added) /\ i <= Len(l) BY <1>1
  <2>2. QED BY <1>1, <2>1
<1>4. ASSUME NEW k \in 1..Len(added) PROVE (l \o added)[Len(l) + k] = added[k]
  <2>1. Len(l) + k \in 1..Len(l) + Len(added) /\ ~ (Len(l) + k <= Len(l)) /\ (Len(l) + k) - Len(l) = k BY <1>1
  <2>2. QED BY <1>1, <2>1
<1>5. QED BY <1>1, <1>2, <1>3, <1>4

(* l2 is l with q further entries. *)
Further(l2, l, q) ==
    /\ Len(l) \in Nat /\ q \in Nat /\ Len(l2) = Len(l) + q
    /\ DOMAIN l2 = 1..Len(l2) /\ DOMAIN l = 1..Len(l)
    /\ \A i \in 1..Len(l) : l2[i] = l[i]
(* The first m of them bear messages, the others do not. *)
Bears(l2, n, m, q) ==
    /\ m \in 0..q
    /\ \A k \in 1..m : MessageBearing(l2[n + k])
    /\ \A k \in 1..q : k > m => ~ MessageBearing(l2[n + k])

(* The message-bearing positions of a longer log are those of the log and
   the new ones. *)
LEMMA BearingGrows ==
    ASSUME NEW l, NEW l2, NEW q, Further(l2, l, q), NEW m, Bears(l2, Len(l), m, q),
           NEW lo \in Nat, lo <= Len(l)
    PROVE  Bearing(l2, lo, Len(l2)) = Bearing(l, lo, Len(l)) \o Run(Len(l), m)
<1>. DEFINE n == Len(l)
            S == {i \in (lo + 1)..n : MessageBearing(l[i])}
            T == {i \in (lo + 1)..(n + q) : MessageBearing(l2[i])}
<1>0. n \in Nat /\ q \in Nat /\ m \in Nat /\ m <= q /\ Len(l2) = n + q BY DEF Further, Bears
<1>1. \A i \in 1..n : i \in S <=> i \in T BY <1>0 DEF Further
<1>2. \A i \in 1..m : n + i \in T
  <2>. SUFFICES ASSUME NEW i \in 1..m PROVE n + i \in T OBVIOUS
  <2>1. MessageBearing(l2[n + i]) BY DEF Bears
  <2>2. n + i \in (lo + 1)..(n + q) BY <1>0
  <2>3. QED BY <2>1, <2>2
<1>3. \A i \in 1..(q - m) : (n + m) + i \notin T
  <2>. SUFFICES ASSUME NEW i \in 1..(q - m) PROVE (n + m) + i \notin T OBVIOUS
  <2>1. m + i \in 1..q /\ m + i > m /\ n + (m + i) = (n + m) + i BY <1>0
  <2>2. ~ MessageBearing(l2[n + (m + i)]) BY <2>1 DEF Bears
  <2>3. QED BY <2>1, <2>2
<1>. HIDE DEF n, S, T
<1>4. Ascending(S, n) = Ascending(T, n) BY <1>0, <1>1, AscendingSame
<1>5. Ascending(T, n + m) = Ascending(T, n) \o Run(n, m) BY <1>0, <1>2, AscendingRun
<1>6. Ascending(T, (n + m) + (q - m)) = Ascending(T, n + m)
  <2>1. n + m \in Nat /\ q - m \in Nat BY <1>0
  <2>2. QED BY <1>3, <2>1, AscendingIdle
<1>7. (n + m) + (q - m) = n + q BY <1>0
<1>8. Ascending(T, n + q) = Ascending(S, n) \o Run(n, m) BY <1>4, <1>5, <1>6, <1>7
<1>9. QED BY <1>0, <1>8 DEF Bearing, n, S, T

-----------------------------------------------------------------------------
(* The view a request consumes. *)

(* The message-bearing positions of a range: their kinds, their order, all
   of them. *)
LEMMA BearingKinds ==
    ASSUME NEW l, NEW lo \in Nat, NEW hi \in Nat
    PROVE  /\ Bearing(l, lo, hi) \in Seq(Nat) /\ Len(Bearing(l, lo, hi)) \in Nat
           /\ DOMAIN Bearing(l, lo, hi) = 1..Len(Bearing(l, lo, hi))
           /\ \A k \in 1..Len(Bearing(l, lo, hi)) : /\ Bearing(l, lo, hi)[k] \in (lo + 1)..hi
                                                    /\ MessageBearing(l[Bearing(l, lo, hi)[k]])
           /\ \A j, k \in 1..Len(Bearing(l, lo, hi)) : j < k => Bearing(l, lo, hi)[j] < Bearing(l, lo, hi)[k]
           /\ \A i \in (lo + 1)..hi : MessageBearing(l[i]) =>
                  \E k \in 1..Len(Bearing(l, lo, hi)) : Bearing(l, lo, hi)[k] = i
<1>. DEFINE S == {i \in (lo + 1)..hi : MessageBearing(l[i])}
            a == Ascending(S, hi)
<1>1. /\ a \in Seq(1..hi) /\ Len(a) \in 0..hi /\ DOMAIN a = 1..Len(a)
      /\ \A k \in 1..Len(a) : a[k] \in S \cap (1..hi)
      /\ \A j, k \in 1..Len(a) : j < k => a[j] < a[k]
      /\ \A i \in S \cap (1..hi) : \E k \in 1..Len(a) : a[k] = i
  BY AscendingKinds
<1>2. a = Bearing(l, lo, hi) BY DEF Bearing
<1>3. a \in Seq(Nat) BY <1>1, SeqMonotonic, 1..hi \subseteq Nat
<1>4. ASSUME NEW k \in 1..Len(a) PROVE a[k] \in (lo + 1)..hi /\ MessageBearing(l[a[k]]) BY <1>1
<1>5. ASSUME NEW i \in (lo + 1)..hi, MessageBearing(l[i]) PROVE \E k \in 1..Len(a) : a[k] = i
  <2>1. i \in S \cap (1..hi) BY <1>5
  <2>2. QED BY <1>1, <2>1
<1>. HIDE DEF a
<1>6. Len(a) \in Nat BY <1>1
<1>7. QED BY <1>1, <1>2, <1>3, <1>4, <1>5, <1>6

(* Entries by kind. *)
LEMMA EntryKinds ==
    ASSUME NEW e \in Entry
    PROVE  /\ e.kind \in {"input", "signal", "assistant", "tool", "checkpoint", "settlement"} /\ e.op \in Nat
           /\ e.kind = "assistant" => e.calls \in Seq(Calls) /\ e.report \in Report
           /\ e.kind = "tool" => e.call \in Calls /\ e.of \in Nat
           /\ e.kind = "checkpoint" => e.boundary \in Nat /\ e.facts \in Facts /\ e.messages \in Seq(ViewMessage)
           /\ e.kind = "settlement" => /\ e.facts \in Facts /\ e.compaction \in {"no", "yes"}
                                       /\ e.model \in {"no", "yes"} /\ e.report \in Report
BY DEF Entry

(* The message an entry is projected to (projectEntry). *)
LEMMA MessageKind ==
    ASSUME NEW l, NEW i \in Nat, l[i] \in Entry
    PROVE  /\ Message(l, i) \in ViewMessage /\ Message(l, i).src = i
           /\ Message(l, i).calls = IF l[i].kind = "assistant" THEN l[i].calls ELSE <<>>
           /\ Message(l, i).result = IF l[i].kind = "tool" THEN l[i].call ELSE NoCall
<1>1. (IF l[i].kind = "assistant" THEN l[i].calls ELSE <<>>) \in Seq(Calls) BY EntryKinds, EmptySeq
<1>2. (IF l[i].kind = "tool" THEN l[i].call ELSE NoCall) \in Calls \cup {NoCall} BY EntryKinds
<1>3. QED BY <1>1, <1>2 DEF Message, ViewMessage

(* The messages at a list of positions. *)
LEMMA MessagesKinds ==
    ASSUME NEW l \in Seq(Entry), NEW p, NEW m \in Nat, p \in Seq(Nat), Len(p) = m, \A k \in 1..m : p[k] \in 1..Len(l)
    PROVE  /\ MessagesAt(l, p) \in Seq(ViewMessage) /\ Len(MessagesAt(l, p)) = m
           /\ \A k \in 1..m : MessagesAt(l, p)[k] = Message(l, p[k])
<1>1. DOMAIN p = 1..m OBVIOUS
<1>2. \A k \in 1..m : Message(l, p[k]) \in ViewMessage
  <2>. SUFFICES ASSUME NEW k \in 1..m PROVE Message(l, p[k]) \in ViewMessage OBVIOUS
  <2>1. p[k] \in Nat /\ l[p[k]] \in Entry BY ElementOfSeq, LenProperties
  <2>2. QED BY <2>1, MessageKind
<1>3. QED BY <1>1, <1>2 DEF MessagesAt

(* A checkpoint number a log can be read with. *)
Readable(l, cp) ==
    /\ l \in Seq(Entry) /\ cp \in 0..Len(l) /\ Cutoff(l, cp) \in 0..Len(l)
    /\ Covered(l, cp) \in Seq(ViewMessage)
Uncovered(l, cp) == Bearing(l, Cutoff(l, cp), Len(l))

(* A view is the checkpoint's messages and one for each position after its
   boundary. *)
LEMMA ViewKinds ==
    ASSUME NEW l, NEW cp, Readable(l, cp)
    PROVE  LET ms == Project(l, cp).messages
               a  == Len(Covered(l, cp))
               t  == Uncovered(l, cp)
           IN  /\ ms \in Seq(ViewMessage) /\ a \in Nat /\ Len(t) \in Nat /\ Len(ms) = a + Len(t)
               /\ DOMAIN ms = 1..Len(ms)
               /\ \A k \in 1..a : ms[k] = Covered(l, cp)[k]
               /\ \A k \in 1..Len(t) : ms[a + k] = Message(l, t[k])
               /\ Project(l, cp).cp = cp
<1>. DEFINE ms == Project(l, cp).messages
            c  == Covered(l, cp)
            t  == Uncovered(l, cp)
            b  == MessagesAt(l, t)
            lo == Cutoff(l, cp)
            hi == Len(l)
<1>1. lo \in Nat /\ hi \in Nat /\ cp \in Nat BY DEF Readable
<1>2. t \in Seq(Nat) /\ Len(t) \in Nat /\ \A k \in 1..Len(t) : t[k] \in 1..hi
  <2>1. t = Bearing(l, lo, hi) BY DEF Uncovered
  <2>. HIDE DEF t, lo, hi
  <2>2. t \in Seq(Nat) /\ Len(t) \in Nat /\ \A k \in 1..Len(t) : t[k] \in (lo + 1)..hi BY <1>1, <2>1, BearingKinds
  <2>3. QED BY <1>1, <2>2
<1>3. b \in Seq(ViewMessage) /\ Len(b) = Len(t) /\ \A k \in 1..Len(t) : b[k] = Message(l, t[k])
  BY <1>2, MessagesKinds DEF Readable
<1>4. ms = c \o b BY DEF Project, Uncovered
<1>5. Project(l, cp).cp = cp BY DEF Project
<1>. HIDE DEF ms, c, t, b
<1>6. c \in Seq(ViewMessage) BY DEF Readable, c
<1>7. /\ ms \in Seq(ViewMessage) /\ Len(ms) = Len(c) + Len(b) /\ Len(c) \in Nat
      /\ DOMAIN ms = 1..Len(ms) /\ (\A k \in 1..Len(c) : ms[k] = c[k])
      /\ \A k \in 1..Len(b) : ms[Len(c) + k] = b[k]
  <2>1. b \in Seq(ViewMessage) BY <1>3
  <2>2. /\ c \o b \in Seq(ViewMessage) /\ Len(c \o b) = Len(c) + Len(b) /\ Len(c) \in Nat
        /\ DOMAIN (c \o b) = 1..(Len(c) + Len(b))
        /\ (\A k \in 1..Len(c) : (c \o b)[k] = c[k])
        /\ \A k \in 1..Len(b) : (c \o b)[Len(c) + k] = b[k]
    BY <1>6, <2>1, Grown
  <2>3. QED BY <1>4, <2>2
<1>8. QED BY <1>2, <1>3, <1>5, <1>7 DEF ms, c, t

(* A view grows by the messages of the entries that the log gains. *)
LEMMA ViewGrows ==
    ASSUME NEW l, NEW cp, Readable(l, cp), NEW l2 \in Seq(Entry), NEW q, Further(l2, l, q),
           NEW m, Bears(l2, Len(l), m, q)
    PROVE  /\ Readable(l2, cp)
           /\ Further(Project(l2, cp).messages, Project(l, cp).messages, m)
           /\ \A k \in 1..m : Project(l2, cp).messages[Len(Project(l, cp).messages) + k] = Message(l2, Len(l) + k)
           /\ m # 0 => Project(l2, cp).boundary = Len(l) + m
           /\ m = 0 => Project(l2, cp) = Project(l, cp)
<1>. DEFINE n == Len(l)
            t == Uncovered(l, cp)
            t2 == Uncovered(l2, cp)
            c == Covered(l, cp)
            ms == Project(l, cp).messages
            ms2 == Project(l2, cp).messages
<1>0. n \in Nat /\ q \in Nat /\ m \in Nat /\ m <= q /\ Len(l2) = n + q /\ cp \in 0..n /\ l \in Seq(Entry) BY DEF Further, Bears, Readable
<1>1. Cutoff(l2, cp) = Cutoff(l, cp) /\ Covered(l2, cp) = c /\ Readable(l2, cp)
  <2>1. cp # 0 => l2[cp] = l[cp] BY <1>0 DEF Further
  <2>2. Cutoff(l2, cp) = Cutoff(l, cp) /\ Covered(l2, cp) = c BY <2>1 DEF Cutoff, Covered
  <2>3. cp \in 0..Len(l2) /\ Cutoff(l, cp) \in 0..Len(l2) BY <1>0 DEF Readable
  <2>4. QED BY <2>2, <2>3 DEF Readable
<1>2. t2 = t \o Run(n, m)
  <2>1. Cutoff(l, cp) \in Nat /\ Cutoff(l, cp) <= Len(l) BY <1>0 DEF Readable
  <2>2. QED BY <1>1, <2>1, BearingGrows DEF Uncovered
<1>3. t \in Seq(Nat) /\ Len(t) \in Nat /\ \A k \in 1..Len(t) : t[k] \in 1..n
  <2>. DEFINE lo == Cutoff(l, cp)
  <2>1. lo \in Nat BY <1>0 DEF Readable
  <2>2. t = Bearing(l, lo, n) BY DEF Uncovered
  <2>. HIDE DEF t, lo, n
  <2>3. t \in Seq(Nat) /\ Len(t) \in Nat /\ \A k \in 1..Len(t) : t[k] \in (lo + 1)..n BY <1>0, <2>1, <2>2, BearingKinds
  <2>4. QED BY <1>0, <2>1, <2>3
<1>4. Run(n, m) \in Seq(Nat) /\ Len(Run(n, m)) = m /\ \A k \in 1..m : Run(n, m)[k] = n + k BY <1>0, RunGrows
<1>5. /\ ms \in Seq(ViewMessage) /\ Len(c) \in Nat /\ Len(ms) = Len(c) + Len(t) /\ DOMAIN ms = 1..Len(ms)
      /\ \A k \in 1..Len(c) : ms[k] = c[k]
      /\ \A k \in 1..Len(t) : ms[Len(c) + k] = Message(l, t[k])
  BY ViewKinds
<1>6. /\ ms2 \in Seq(ViewMessage) /\ Len(ms2) = Len(c) + Len(t2) /\ DOMAIN ms2 = 1..Len(ms2)
      /\ \A k \in 1..Len(c) : ms2[k] = c[k]
      /\ \A k \in 1..Len(t2) : ms2[Len(c) + k] = Message(l2, t2[k])
  BY <1>1, ViewKinds
<1>7. Project(l, cp) = [cp |-> cp, boundary |-> IF t = <<>> THEN cp ELSE Last(t), messages |-> c \o MessagesAt(l, t)]
  BY DEF Project, Uncovered
<1>8. Project(l2, cp) = [cp |-> cp, boundary |-> IF t2 = <<>> THEN cp ELSE Last(t2), messages |-> c \o MessagesAt(l2, t2)]
  BY <1>1 DEF Project, Uncovered
<1>. HIDE DEF t, t2, c, ms, ms2, n
<1>9. Len(t2) = Len(t) + m /\ (\A k \in 1..Len(t) : t2[k] = t[k]) /\ \A k \in 1..m : t2[Len(t) + k] = n + k
  <2>. DEFINE u == Run(n, m)
  <2>1. u \in Seq(Nat) /\ Len(u) = m /\ (\A k \in 1..m : u[k] = n + k) /\ t \in Seq(Nat) /\ t2 = t \o u BY <1>2, <1>3, <1>4
  <2>. HIDE DEF u
  <2>2. /\ Len(t \o u) = Len(t) + Len(u)
        /\ \A k \in 1..Len(t) : (t \o u)[k] = t[k]
        /\ \A k \in 1..Len(u) : (t \o u)[Len(t) + k] = u[k]
    <3>1. t \in Seq(Nat) /\ u \in Seq(Nat) BY <2>1
    <3>2. QED BY <3>1, Grown
  <2>3. QED BY <2>1, <2>2
<1>10. \A i \in 1..n : l2[i] = l[i] BY DEF Further, n
<1>11. \A i \in 1..n : Message(l2, i) = Message(l, i) BY <1>10 DEF Message
<1>12. ASSUME NEW i \in 1..Len(ms) PROVE ms2[i] = ms[i]
  <2>1. CASE i \in 1..Len(c) BY <1>5, <1>6, <2>1
  <2>2. CASE i \notin 1..Len(c)
    <3>. DEFINE k == i - Len(c)
    <3>1. k \in 1..Len(t) /\ i = Len(c) + k BY <1>3, <1>5, <2>2
    <3>. HIDE DEF k
    <3>2. k \in 1..Len(t2) /\ t2[k] = t[k] /\ t[k] \in 1..n BY <1>0, <1>3, <1>9, <3>1
    <3>3. ms2[i] = Message(l2, t[k]) /\ ms[i] = Message(l, t[k]) BY <1>5, <1>6, <3>1, <3>2
    <3>4. QED BY <1>11, <3>2, <3>3
  <2>3. QED BY <2>1, <2>2
<1>13. ASSUME NEW k \in 1..m PROVE ms2[Len(ms) + k] = Message(l2, n + k)
  <2>1. Len(t) + k \in 1..Len(t2) /\ Len(c) + (Len(t) + k) = Len(ms) + k BY <1>0, <1>3, <1>5, <1>9
  <2>2. ms2[Len(c) + (Len(t) + k)] = Message(l2, t2[Len(t) + k]) BY <1>6, <2>1
  <2>3. t2[Len(t) + k] = n + k BY <1>9
  <2>4. QED BY <2>1, <2>2, <2>3
<1>14. Further(ms2, ms, m)
  <2>1. Len(ms) \in Nat /\ Len(ms2) = Len(ms) + m BY <1>0, <1>3, <1>5, <1>6, <1>9
  <2>2. QED BY <1>0, <1>5, <1>6, <1>12, <2>1 DEF Further
<1>15. ASSUME m # 0 PROVE Project(l2, cp).boundary = n + m
  <2>1. m \in 1..m /\ Len(t2) # 0 /\ t2[Len(t) + m] = n + m BY <1>0, <1>3, <1>9, <1>15
  <2>2. t2 # <<>> /\ Last(t2) = n + m BY <1>9, <2>1 DEF Last
  <2>3. QED BY <1>8, <2>2
<1>16. ASSUME m = 0 PROVE Project(l2, cp) = Project(l, cp)
  <2>1. Run(n, m) = <<>> BY <1>0, <1>16, RunGrows
  <2>2. t2 = t BY <1>2, <1>3, <2>1, ConcatEmptySeq
  <2>3. MessagesAt(l2, t) = MessagesAt(l, t)
    <3>1. DOMAIN t = 1..Len(t) BY <1>3
    <3>2. \A k \in DOMAIN t : Message(l2, t[k]) = Message(l, t[k]) BY <1>3, <1>11, <3>1
    <3>3. QED BY <3>2 DEF MessagesAt
  <2>4. QED BY <1>7, <1>8, <2>2, <2>3
<1>17. QED BY <1>1, <1>13, <1>14, <1>15, <1>16 DEF ms, ms2, n

-----------------------------------------------------------------------------
(* Pairing: what a growing view keeps. *)

(* What is quiet in a view is quiet in a longer one. *)
LEMMA QuietKept ==
    ASSUME NEW ms, NEW ms2, NEW m, Further(ms2, ms, m), NEW c, NEW j \in Nat, NEW i \in Nat, i <= Len(ms) + 1
    PROVE  Quiet(ms2, c, j, i) <=> Quiet(ms, c, j, i)
<1>1. \A k \in (j + 1)..(i - 1) : ms2[k] = ms[k] BY DEF Further
<1>2. QED BY <1>1 DEF Quiet, CallAt

(* An identity stays quiet over the messages that do not name it. *)
LEMMA QuietGrows ==
    ASSUME NEW ms, NEW ms2, NEW m, Further(ms2, ms, m), NEW c, NEW i \in 1..Len(ms), Quiet(ms, c, i, Len(ms) + 1),
           NEW k \in 1..(m + 1),
           \A x \in 1..(k - 1) : ~ CallAt(ms2, c, Len(ms) + x) /\ ms2[Len(ms) + x].result # c
    PROVE  Quiet(ms2, c, i, Len(ms) + k)
<1>. DEFINE n == Len(ms)
<1>0. n \in Nat /\ m \in Nat /\ k \in Nat /\ i \in 1..n BY DEF Further
<1>. SUFFICES ASSUME NEW y \in (i + 1)..((n + k) - 1) PROVE ~ CallAt(ms2, c, y) /\ ms2[y].result # c BY DEF Quiet
<1>1. CASE y <= n
  <2>1. y \in (i + 1)..((n + 1) - 1) /\ y \in 1..n BY <1>0, <1>1
  <2>2. ~ CallAt(ms, c, y) /\ ms[y].result # c BY <2>1 DEF Quiet
  <2>3. ms2[y] = ms[y] BY <2>1 DEF Further
  <2>4. QED BY <2>2, <2>3 DEF CallAt
<1>2. CASE ~ (y <= n)
  <2>1. y - n \in 1..(k - 1) /\ n + (y - n) = y BY <1>0, <1>2
  <2>2. QED BY <2>1
<1>3. QED BY <1>1, <1>2

(* A view takes results of outstanding calls and messages of neither kind. *)
LEMMA PairsGrow ==
    ASSUME NEW ms, NEW ms2, NEW m, Further(ms2, ms, m), NEW P, OpenPairs(ms, P), NoCall \notin P,
           \A i \in 1..Len(ms) : NoCall \notin ToSet(ms[i].calls),
           \A k \in 1..m : ms2[Len(ms) + k].calls = <<>> /\ ms2[Len(ms) + k].result \in P \cup {NoCall},
           \A j, k \in 1..m : ms2[Len(ms) + j].result = ms2[Len(ms) + k].result
                                 /\ ms2[Len(ms) + j].result # NoCall => j = k
    PROVE  OpenPairs(ms2, P \ {ms2[Len(ms) + k].result : k \in 1..m})
<1>. DEFINE n == Len(ms)
            R == {ms2[n + k].result : k \in 1..m}
<1>0. n \in Nat /\ m \in Nat /\ Len(ms2) = n + m /\ DOMAIN ms2 = 1..(n + m) /\ DOMAIN ms = 1..n
      /\ \A i \in 1..n : ms2[i] = ms[i]
  BY DEF Further
<1>1. \A k \in 1..m : \A c : ~ CallAt(ms2, c, n + k)
  <2>. SUFFICES ASSUME NEW k \in 1..m, NEW c PROVE ~ CallAt(ms2, c, n + k) OBVIOUS
  <2>1. ToSet(ms2[n + k].calls) = {} BY DEF ToSet
  <2>2. QED BY <2>1 DEF CallAt
<1>2. ASSUME NEW c, c # NoCall, NEW i \in 1..n, Quiet(ms, c, i, n + 1), NEW k \in 1..m, ms2[n + k].result = c
      PROVE  Quiet(ms2, c, i, n + k)
  <2>1. \A x \in 1..(k - 1) : ~ CallAt(ms2, c, n + x) /\ ms2[n + x].result # c
    <3>. SUFFICES ASSUME NEW x \in 1..(k - 1) PROVE ~ CallAt(ms2, c, n + x) /\ ms2[n + x].result # c OBVIOUS
    <3>1. x \in 1..m /\ x # k BY <1>0
    <3>2. QED BY <1>1, <1>2, <3>1
  <2>2. k \in 1..(m + 1) BY <1>0
  <2>. HIDE DEF n
  <2>3. QED BY <1>2, <2>1, <2>2, QuietGrows DEF n
<1>3. ASSUME NEW c, c \notin R, NEW i \in 1..n, Quiet(ms, c, i, n + 1)
      PROVE  Quiet(ms2, c, i, Len(ms2) + 1)
  <2>1. \A x \in 1..((m + 1) - 1) : ~ CallAt(ms2, c, n + x) /\ ms2[n + x].result # c
    <3>. SUFFICES ASSUME NEW x \in 1..((m + 1) - 1) PROVE ~ CallAt(ms2, c, n + x) /\ ms2[n + x].result # c OBVIOUS
    <3>1. x \in 1..m BY <1>0
    <3>2. QED BY <1>1, <1>3, <3>1
  <2>2. m + 1 \in 1..(m + 1) BY <1>0
  <2>3. Quiet(ms2, c, i, n + (m + 1)) BY <1>3, <2>1, <2>2, QuietGrows
  <2>4. n + (m + 1) = Len(ms2) + 1 BY <1>0
  <2>5. QED BY <2>3, <2>4
<1>4. ASSUME NEW i \in 1..(n + m), ms2[i].result # NoCall
      PROVE  \E j \in 1..(i - 1) : CallAt(ms2, ms2[i].result, j) /\ Quiet(ms2, ms2[i].result, j, i)
  <2>. DEFINE c == ms2[i].result
  <2>1. CASE i <= n
    <3>1. i \in 1..n /\ ms[i].result = c BY <1>0, <2>1
    <3>2. PICK j \in 1..(i - 1) : CallAt(ms, c, j) /\ Quiet(ms, c, j, i) BY <1>0, <1>4, <3>1 DEF OpenPairs
    <3>3. j \in Nat /\ j \in 1..n /\ i \in Nat /\ i <= n + 1 BY <1>0, <2>1
    <3>4. Quiet(ms2, c, j, i) BY <3>2, <3>3, QuietKept
    <3>5. CallAt(ms2, c, j) BY <1>0, <3>2, <3>3 DEF CallAt
    <3>6. QED BY <3>4, <3>5
  <2>2. CASE ~ (i <= n)
    <3>. DEFINE k == i - n
    <3>1. k \in 1..m /\ n + k = i BY <1>0, <2>2
    <3>2. c \in P BY <1>4, <3>1
    <3>3. PICK j \in 1..n : CallAt(ms, c, j) /\ Quiet(ms, c, j, n + 1) BY <1>0, <3>2 DEF OpenPairs
    <3>. HIDE DEF k
    <3>4. Quiet(ms2, c, j, n + k) BY <1>2, <1>4, <3>1, <3>3
    <3>5. CallAt(ms2, c, j) /\ j \in 1..(i - 1) BY <1>0, <2>2, <3>3 DEF CallAt
    <3>6. QED BY <3>1, <3>4, <3>5
  <2>3. QED BY <2>1, <2>2
<1>5. ASSUME NEW i \in 1..(n + m), NEW c \in ToSet(ms2[i].calls)
      PROVE  \/ \E j \in (i + 1)..Len(ms2) : ms2[j].result = c /\ Quiet(ms2, c, i, j)
             \/ c \in P \ R /\ Quiet(ms2, c, i, Len(ms2) + 1)
  <2>1. i \in 1..n
    <3>. SUFFICES ASSUME ~ (i <= n) PROVE FALSE BY <1>0
    <3>1. i - n \in 1..m /\ n + (i - n) = i BY <1>0
    <3>2. QED BY <1>1, <1>5, <3>1 DEF CallAt
  <2>2. ms2[i] = ms[i] /\ c \in ToSet(ms[i].calls) /\ c # NoCall BY <1>0, <1>5, <2>1
  <2>3. CASE \E j \in (i + 1)..n : ms[j].result = c /\ Quiet(ms, c, i, j)
    <3>1. PICK j \in (i + 1)..n : ms[j].result = c /\ Quiet(ms, c, i, j) BY <2>3
    <3>2. j \in 1..n /\ j \in Nat /\ i \in Nat /\ j <= n + 1 /\ j \in (i + 1)..Len(ms2) BY <1>0, <2>1
    <3>3. Quiet(ms2, c, i, j) BY <3>1, <3>2, QuietKept
    <3>4. ms2[j].result = c BY <1>0, <3>1, <3>2
    <3>5. QED BY <3>2, <3>3, <3>4
  <2>4. CASE c \in P /\ Quiet(ms, c, i, n + 1)
    <3>1. CASE c \in R
      <4>1. PICK k \in 1..m : ms2[n + k].result = c BY <3>1
      <4>2. Quiet(ms2, c, i, n + k) BY <1>2, <2>1, <2>2, <2>4, <4>1
      <4>3. n + k \in (i + 1)..Len(ms2) BY <1>0, <2>1
      <4>4. QED BY <4>1, <4>2, <4>3
    <3>2. CASE c \notin R BY <1>3, <2>1, <2>4, <3>2
    <3>3. QED BY <3>1, <3>2
  <2>5. QED BY <1>0, <2>1, <2>2, <2>3, <2>4 DEF OpenPairs
<1>6. ASSUME NEW c \in P \ R PROVE \E i \in 1..(n + m) : CallAt(ms2, c, i) /\ Quiet(ms2, c, i, Len(ms2) + 1)
  <2>1. PICK i \in 1..n : CallAt(ms, c, i) /\ Quiet(ms, c, i, n + 1) BY <1>0 DEF OpenPairs
  <2>2. Quiet(ms2, c, i, Len(ms2) + 1) BY <1>3, <2>1
  <2>3. CallAt(ms2, c, i) /\ i \in 1..(n + m) BY <1>0, <2>1 DEF CallAt
  <2>4. QED BY <2>2, <2>3
<1>. HIDE DEF R, n
<1>7. OpenPairs(ms2, P \ R) BY <1>0, <1>4, <1>5, <1>6 DEF OpenPairs
<1>8. QED BY <1>7 DEF R, n

(* A view that pairs takes an output with its calls. *)
LEMMA PairsOpen ==
    ASSUME NEW ms, NEW ms2, Further(ms2, ms, 1), OpenPairs(ms, {}), ms2[Len(ms) + 1].result = NoCall
    PROVE  OpenPairs(ms2, ToSet(ms2[Len(ms) + 1].calls))
<1>. DEFINE n == Len(ms)
            P == ToSet(ms2[n + 1].calls)
<1>0. n \in Nat /\ Len(ms2) = n + 1 /\ DOMAIN ms2 = 1..(n + 1) /\ DOMAIN ms = 1..n
      /\ \A i \in 1..n : ms2[i] = ms[i]
  BY DEF Further
<1>1. ASSUME NEW i \in 1..(n + 1), ms2[i].result # NoCall
      PROVE  \E j \in 1..(i - 1) : CallAt(ms2, ms2[i].result, j) /\ Quiet(ms2, ms2[i].result, j, i)
  <2>. DEFINE c == ms2[i].result
  <2>1. i \in 1..n /\ ms[i].result = c
    <3>1. i # n + 1 BY <1>1
    <3>2. QED BY <1>0, <3>1
  <2>2. PICK j \in 1..(i - 1) : CallAt(ms, c, j) /\ Quiet(ms, c, j, i) BY <1>0, <1>1, <2>1 DEF OpenPairs
  <2>3. j \in Nat /\ j \in 1..n /\ i \in Nat /\ i <= n + 1 BY <1>0, <2>1
  <2>4. Quiet(ms2, c, j, i) BY <2>2, <2>3, QuietKept
  <2>5. CallAt(ms2, c, j) BY <1>0, <2>2, <2>3 DEF CallAt
  <2>6. QED BY <2>4, <2>5
<1>2. \A c : Quiet(ms2, c, n + 1, Len(ms2) + 1)
  <2>1. ((n + 1) + 1)..((Len(ms2) + 1) - 1) = {} BY <1>0
  <2>2. QED BY <2>1 DEF Quiet
<1>3. ASSUME NEW i \in 1..(n + 1), NEW c \in ToSet(ms2[i].calls)
      PROVE  \/ \E j \in (i + 1)..Len(ms2) : ms2[j].result = c /\ Quiet(ms2, c, i, j)
             \/ c \in P /\ Quiet(ms2, c, i, Len(ms2) + 1)
  <2>1. CASE i = n + 1 BY <1>2, <1>3, <2>1
  <2>2. CASE i # n + 1
    <3>1. i \in 1..n /\ c \in ToSet(ms[i].calls) BY <1>0, <1>3, <2>2
    <3>2. PICK j \in (i + 1)..n : ms[j].result = c /\ Quiet(ms, c, i, j) BY <1>0, <3>1 DEF OpenPairs
    <3>3. j \in 1..n /\ j \in Nat /\ i \in Nat /\ j <= n + 1 /\ j \in (i + 1)..Len(ms2) BY <1>0, <3>1
    <3>4. Quiet(ms2, c, i, j) BY <3>2, <3>3, QuietKept
    <3>5. ms2[j].result = c BY <1>0, <3>2, <3>3
    <3>6. QED BY <3>3, <3>4, <3>5
  <2>3. QED BY <2>1, <2>2
<1>4. ASSUME NEW c \in P PROVE \E i \in 1..(n + 1) : CallAt(ms2, c, i) /\ Quiet(ms2, c, i, Len(ms2) + 1)
  <2>1. n + 1 \in 1..(n + 1) /\ CallAt(ms2, c, n + 1) BY <1>0 DEF CallAt
  <2>2. QED BY <1>2, <2>1
<1>. HIDE DEF P, n
<1>5. OpenPairs(ms2, P) BY <1>0, <1>1, <1>3, <1>4 DEF OpenPairs
<1>6. QED BY <1>5 DEF P, n

(* With no call open, pairs are complete (validateToolPairing). *)
LEMMA PairsEnd ==
    ASSUME NEW S, NEW ms \in Seq(S)
    PROVE  OpenPairs(ms, {}) <=> PairsComplete(ms)
BY DEF OpenPairs, PairsComplete

-----------------------------------------------------------------------------
(* What messages show, and where their calls are. *)

(* Whether a cut separates a call from its result depends on the entries
   before it only. *)
LEMMA CutKept ==
    ASSUME NEW l, NEW l2, NEW cut \in Nat, \A i \in 1..cut : l2[i] = l[i]
    PROVE  CutUnsafe(l2, cut) <=> CutUnsafe(l, cut)
BY DEF CutUnsafe

(* Before a safe cut every call has its result (buildCutSafety). *)
LEMMA CutSafe ==
    ASSUME NEW l, NEW cut, ~ CutUnsafe(l, cut)
    PROVE  \A i \in 1..cut : l[i].kind = "assistant" => \A d \in ToSet(l[i].calls) :
                 \E j \in 1..cut : l[j].kind = "tool" /\ l[j].of = i /\ l[j].call = d
BY DEF CutUnsafe

(* What messages show of a log they show of a longer one. *)
LEMMA ShowsKept ==
    ASSUME NEW l, NEW l2, NEW top \in Nat, \A i \in 1..top : l2[i] = l[i],
           NEW ms, Shows(l, ms, top), NEW top2 \in Nat, top <= top2
    PROVE  Shows(l2, ms, top2)
<1>. SUFFICES ASSUME NEW k \in DOMAIN ms
     PROVE  /\ ms[k].src \in 0..top2
            /\ ms[k] = IF ms[k].src = 0 THEN Text ELSE Message(l2, ms[k].src)
            /\ ms[k].src # 0 => \A j \in 1..(k - 1) : ms[j].src < ms[k].src
            /\ ms[k].result # NoCall => \E j \in DOMAIN ms : ms[j].src = l2[ms[k].src].of
  BY DEF Shows
<1>1. /\ ms[k].src \in 0..top
      /\ ms[k] = IF ms[k].src = 0 THEN Text ELSE Message(l, ms[k].src)
      /\ ms[k].src # 0 => \A j \in 1..(k - 1) : ms[j].src < ms[k].src
      /\ ms[k].result # NoCall => \E j \in DOMAIN ms : ms[j].src = l[ms[k].src].of
  BY DEF Shows
<1>2. CASE ms[k].src = 0
  <2>1. ms[k].result = NoCall BY <1>1, <1>2 DEF Text
  <2>2. QED BY <1>1, <1>2, <2>1
<1>3. CASE ms[k].src # 0
  <2>1. ms[k].src \in 1..top /\ ms[k].src \in 0..top2 BY <1>1, <1>3
  <2>2. l2[ms[k].src] = l[ms[k].src] BY <2>1
  <2>3. Message(l2, ms[k].src) = Message(l, ms[k].src) BY <2>2 DEF Message
  <2>4. QED BY <1>1, <1>3, <2>1, <2>2, <2>3
<1>4. QED BY <1>2, <1>3

(* A view shows entries in order, each result with the entry of its call. *)
LEMMA ViewShows ==
    ASSUME NEW l, NEW cp, Readable(l, cp), Own(l), cp # 0 => Sound(l, cp)
    PROVE  Shows(l, Project(l, cp).messages, Len(l))
<1>. DEFINE n == Len(l)
            t == Uncovered(l, cp)
            c == Covered(l, cp)
            a == Len(c)
            cut == Cutoff(l, cp)
            ms == Project(l, cp).messages
<1>0. n \in Nat /\ cut \in 0..n /\ l \in Seq(Entry) /\ DOMAIN l = 1..n BY DEF Readable
<1>1. /\ t \in Seq(Nat) /\ Len(t) \in Nat
      /\ \A k \in 1..Len(t) : t[k] \in (cut + 1)..n /\ MessageBearing(l[t[k]])
      /\ \A j, k \in 1..Len(t) : j < k => t[j] < t[k]
      /\ \A i \in (cut + 1)..n : MessageBearing(l[i]) => \E k \in 1..Len(t) : t[k] = i
  <2>1. cut \in Nat BY <1>0
  <2>2. t = Bearing(l, cut, n) BY DEF Uncovered
  <2>. HIDE DEF t, cut, n
  <2>3. QED BY <1>0, <2>1, <2>2, BearingKinds
<1>2. /\ a \in Nat /\ Len(ms) = a + Len(t) /\ DOMAIN ms = 1..Len(ms)
      /\ \A k \in 1..a : ms[k] = c[k]
      /\ \A k \in 1..Len(t) : ms[a + k] = Message(l, t[k])
  BY ViewKinds
<1>3. DOMAIN c = 1..a
  <2>1. c \in Seq(ViewMessage) BY DEF Readable
  <2>2. QED BY <2>1
<1>4. Shows(l, c, cut) /\ ~ CutUnsafe(l, cut)
  <2>1. CASE cp = 0
    <3>1. c = <<>> /\ cut = 0 BY <2>1 DEF Covered, Cutoff
    <3>2. Shows(l, c, cut) BY <3>1 DEF Shows
    <3>3. ~ CutUnsafe(l, cut) BY <3>1 DEF CutUnsafe
    <3>4. QED BY <3>2, <3>3
  <2>2. CASE cp # 0 BY <2>2 DEF Sound, Covered, Cutoff
  <2>3. QED BY <2>1, <2>2
<1>. HIDE DEF n, t, c, a, cut, ms
<1>4a. ~ CutUnsafe(l, cut) BY <1>4
<1>4b. \A i \in 1..cut : l[i].kind = "assistant" => \A d \in ToSet(l[i].calls) :
          \E j \in 1..cut : l[j].kind = "tool" /\ l[j].of = i /\ l[j].call = d
  BY <1>4a, CutSafe
<1>5. \A k \in 1..Len(t) : t[k] \in 1..n /\ ms[a + k].src = t[k] /\ a + k \in DOMAIN ms
  <2>. SUFFICES ASSUME NEW k \in 1..Len(t) PROVE t[k] \in 1..n /\ ms[a + k].src = t[k] /\ a + k \in DOMAIN ms OBVIOUS
  <2>1. t[k] \in 1..n BY <1>0, <1>1
  <2>a. ms[a + k] = Message(l, t[k]) BY <1>2
  <2>b. Message(l, t[k]).src = t[k] BY DEF Message
  <2>2. ms[a + k].src = t[k] BY <2>a, <2>b
  <2>3. QED BY <1>1, <1>2, <2>1, <2>2
<1>. SUFFICES ASSUME NEW k \in 1..(a + Len(t))
     PROVE  /\ ms[k].src \in 0..n
            /\ ms[k] = IF ms[k].src = 0 THEN Text ELSE Message(l, ms[k].src)
            /\ ms[k].src # 0 => \A j \in 1..(k - 1) : ms[j].src < ms[k].src
            /\ ms[k].result # NoCall => \E j \in DOMAIN ms : ms[j].src = l[ms[k].src].of
  BY <1>2 DEF Shows, ms, n
<1>6. CASE k <= a
  <2>1. k \in 1..a /\ k \in DOMAIN c /\ ms[k] = c[k] BY <1>2, <1>3, <1>6
  <2>2. /\ c[k].src \in 0..cut
        /\ c[k] = IF c[k].src = 0 THEN Text ELSE Message(l, c[k].src)
        /\ c[k].src # 0 => \A j \in 1..(k - 1) : c[j].src < c[k].src
        /\ c[k].result # NoCall => \E j \in DOMAIN c : c[j].src = l[c[k].src].of
    BY <1>4, <2>1 DEF Shows
  <2>3. ms[k].src \in 0..n BY <1>0, <2>1, <2>2
  <2>4. \A j \in 1..(k - 1) : ms[j] = c[j] BY <1>2, <1>6
  <2>5. \A j \in DOMAIN c : j \in DOMAIN ms /\ ms[j] = c[j] BY <1>1, <1>2, <1>3
  <2>6. QED BY <2>1, <2>2, <2>3, <2>4, <2>5
<1>7. CASE ~ (k <= a)
  <2>. DEFINE x == k - a
  <2>1. x \in 1..Len(t) /\ a + x = k BY <1>1, <1>2, <1>7
  <2>. HIDE DEF x
  <2>2. ms[k] = Message(l, t[x]) /\ ms[k].src = t[x] /\ t[x] \in (cut + 1)..n /\ t[x] \in 1..n BY <1>1, <1>2, <1>5, <2>1
  <2>3. ASSUME NEW j \in 1..(k - 1) PROVE ms[j].src < t[x]
    <3>1. CASE j <= a
      <4>1. j \in DOMAIN c /\ ms[j] = c[j] BY <1>2, <1>3, <3>1
      <4>2. c[j].src \in 0..cut BY <1>4, <4>1 DEF Shows
      <4>3. QED BY <1>0, <2>2, <4>1, <4>2
    <3>2. CASE ~ (j <= a)
      <4>1. j - a \in 1..Len(t) /\ a + (j - a) = j /\ j - a < x BY <1>1, <1>2, <2>1, <3>2
      <4>2. ms[j].src = t[j - a] BY <1>5, <4>1
      <4>3. QED BY <1>1, <2>1, <4>1, <4>2
    <3>3. QED BY <3>1, <3>2
  <2>4. ASSUME ms[k].result # NoCall PROVE \E j \in DOMAIN ms : ms[j].src = l[t[x]].of
    <3>. DEFINE o == l[t[x]].of
    <3>1. l[t[x]].kind = "tool" BY <2>2, <2>4 DEF Message
    <3>2. /\ o \in 1..(t[x] - 1) /\ l[o].kind = "assistant" /\ l[t[x]].call \in ToSet(l[o].calls)
          /\ \A u \in DOMAIN l : l[u].kind = "tool" /\ l[u].of = o /\ l[u].call = l[t[x]].call => u = t[x]
      BY <1>0, <2>2, <3>1 DEF Own
    <3>. HIDE DEF o
    <3>3. o > cut
      <4>. SUFFICES ASSUME o <= cut PROVE FALSE BY <1>0, <2>2, <3>2
      <4>1. o \in 1..cut BY <1>0, <2>2, <3>2
      <4>2. \E j \in 1..cut : l[j].kind = "tool" /\ l[j].of = o /\ l[j].call = l[t[x]].call
        BY <1>4b, <3>2, <4>1
      <4>3. PICK j \in 1..cut : l[j].kind = "tool" /\ l[j].of = o /\ l[j].call = l[t[x]].call BY <4>2
      <4>4. j \in DOMAIN l BY <1>0
      <4>5. j = t[x] BY <3>2, <4>3, <4>4
      <4>6. QED BY <1>0, <2>2, <4>5
    <3>4. o \in (cut + 1)..n /\ MessageBearing(l[o])
      <4>1. o \in (cut + 1)..n BY <1>0, <2>2, <3>2, <3>3
      <4>2. MessageBearing(l[o]) BY <3>2 DEF MessageBearing
      <4>3. QED BY <4>1, <4>2
    <3>5. PICK y \in 1..Len(t) : t[y] = o BY <1>1, <3>4
    <3>6. a + y \in DOMAIN ms /\ ms[a + y].src = o BY <1>5, <3>5
    <3>7. QED BY <3>6 DEF o
  <2>5. ms[k].src \in 0..n /\ ms[k].src # 0 BY <1>0, <2>2
  <2>6. QED BY <2>2, <2>3, <2>4, <2>5
<1>8. QED BY <1>1, <1>2, <1>6, <1>7

-----------------------------------------------------------------------------
(* In messages that pair, the result that answers the k-th call of its
   identity is the k-th result. *)

Exclusive(ms) == \A k \in DOMAIN ms : ms[k].result # NoCall => ToSet(ms[k].calls) = {}
OpenAt(ms, c, n) == \E j \in 1..n : CallAt(ms, c, j) /\ Quiet(ms, c, j, n + 1)

(* The calls and results of an identity, counted up to the next message. *)
LEMMA CountsGrow ==
    ASSUME NEW ms, NEW c, NEW n \in Nat
    PROVE  /\ IsFiniteSet(Opened(ms, c, n)) /\ IsFiniteSet(Answered(ms, c, n))
           /\ Cardinality(Opened(ms, c, n)) \in Nat /\ Cardinality(Answered(ms, c, n)) \in Nat
           /\ Cardinality(Opened(ms, c, n + 1)) =
                 IF CallAt(ms, c, n + 1) THEN Cardinality(Opened(ms, c, n)) + 1 ELSE Cardinality(Opened(ms, c, n))
           /\ Cardinality(Answered(ms, c, n + 1)) =
                 IF ms[n + 1].result = c THEN Cardinality(Answered(ms, c, n)) + 1 ELSE Cardinality(Answered(ms, c, n))
<1>1. IsFiniteSet(1..n) BY FS_Interval
<1>2. Opened(ms, c, n) \in SUBSET (1..n) /\ Answered(ms, c, n) \in SUBSET (1..n) BY DEF Opened, Answered
<1>3. IsFiniteSet(Opened(ms, c, n)) /\ IsFiniteSet(Answered(ms, c, n)) BY <1>1, <1>2, FS_Subset
<1>4. Cardinality(Opened(ms, c, n)) \in Nat /\ Cardinality(Answered(ms, c, n)) \in Nat BY <1>3, FS_CardinalityType
<1>5. n + 1 \notin Opened(ms, c, n) /\ n + 1 \notin Answered(ms, c, n) BY <1>2
<1>6. Opened(ms, c, n + 1) = IF CallAt(ms, c, n + 1) THEN Opened(ms, c, n) \cup {n + 1} ELSE Opened(ms, c, n)
  BY 1..(n + 1) = (1..n) \cup {n + 1} DEF Opened
<1>7. Answered(ms, c, n + 1) = IF ms[n + 1].result = c THEN Answered(ms, c, n) \cup {n + 1} ELSE Answered(ms, c, n)
  BY 1..(n + 1) = (1..n) \cup {n + 1} DEF Answered
<1>8. QED BY <1>3, <1>4, <1>5, <1>6, <1>7, FS_AddElement

(* An identity is quiet one message further. *)
LEMMA QuietStep ==
    ASSUME NEW ms, NEW c, NEW n \in Nat, NEW j \in 1..n
    PROVE  Quiet(ms, c, j, n + 2) <=> Quiet(ms, c, j, n + 1) /\ ~ CallAt(ms, c, n + 1) /\ ms[n + 1].result # c
<1>1. (j + 1)..((n + 2) - 1) = ((j + 1)..((n + 1) - 1)) \cup {n + 1} OBVIOUS
<1>2. QED BY <1>1 DEF Quiet

(* At a result of an identity as many of its calls were made as were
   answered. *)
LEMMA Counting ==
    ASSUME NEW S, NEW ms \in Seq(S), PairsComplete(ms), Exclusive(ms), NEW c, c # NoCall, NEW i \in DOMAIN ms, ms[i].result = c
    PROVE  Cardinality(Opened(ms, c, i)) = Cardinality(Answered(ms, c, i))
<1>. DEFINE Balanced(n) == Cardinality(Opened(ms, c, n)) =
                 IF OpenAt(ms, c, n) THEN Cardinality(Answered(ms, c, n)) + 1 ELSE Cardinality(Answered(ms, c, n))
            G == {n \in Nat : n <= Len(ms) => Balanced(n)}
<1>0. DOMAIN ms = 1..Len(ms) /\ Len(ms) \in Nat OBVIOUS
<1>1. 0 \in G
  <2>1. Opened(ms, c, 0) = {} /\ Answered(ms, c, 0) = {} BY 1..0 = {} DEF Opened, Answered
  <2>2. ~ OpenAt(ms, c, 0) BY 1..0 = {} DEF OpenAt
  <2>3. QED BY <2>1, <2>2
<1>2. ASSUME NEW n \in Nat, n \in G PROVE n + 1 \in G
  <2>. SUFFICES ASSUME n + 1 <= Len(ms) PROVE Balanced(n + 1) OBVIOUS
  <2>0. Balanced(n) /\ n + 1 \in DOMAIN ms /\ (n + 1) + 1 = n + 2 BY <1>0, <1>2
  <2>. DEFINE o == Cardinality(Opened(ms, c, n))
              a == Cardinality(Answered(ms, c, n))
              o2 == Cardinality(Opened(ms, c, n + 1))
              a2 == Cardinality(Answered(ms, c, n + 1))
  <2>1. /\ o \in Nat /\ a \in Nat
        /\ o2 = IF CallAt(ms, c, n + 1) THEN o + 1 ELSE o
        /\ a2 = IF ms[n + 1].result = c THEN a + 1 ELSE a
    BY CountsGrow
  <2>2. o = IF OpenAt(ms, c, n) THEN a + 1 ELSE a BY <2>0
  <2>. HIDE DEF o, a, o2, a2
  <2>3. OpenAt(ms, c, n + 1) <=> CallAt(ms, c, n + 1) \/ (OpenAt(ms, c, n) /\ ms[n + 1].result # c)
    <3>1. Quiet(ms, c, n + 1, n + 2)
      <4>1. ((n + 1) + 1)..((n + 2) - 1) = {} OBVIOUS
      <4>2. QED BY <4>1 DEF Quiet
    <3>2. ASSUME CallAt(ms, c, n + 1) PROVE OpenAt(ms, c, n + 1)
      <4>1. n + 1 \in 1..(n + 1) OBVIOUS
      <4>2. QED BY <2>0, <3>1, <3>2, <4>1 DEF OpenAt
    <3>3. ASSUME OpenAt(ms, c, n), ms[n + 1].result # c, ~ CallAt(ms, c, n + 1) PROVE OpenAt(ms, c, n + 1)
      <4>1. PICK j \in 1..n : CallAt(ms, c, j) /\ Quiet(ms, c, j, n + 1) BY <3>3 DEF OpenAt
      <4>2. Quiet(ms, c, j, n + 2) BY <3>3, <4>1, QuietStep
      <4>3. j \in 1..(n + 1) OBVIOUS
      <4>4. QED BY <2>0, <4>1, <4>2, <4>3 DEF OpenAt
    <3>4. ASSUME OpenAt(ms, c, n + 1), ~ CallAt(ms, c, n + 1) PROVE OpenAt(ms, c, n) /\ ms[n + 1].result # c
      <4>1. PICK j \in 1..(n + 1) : CallAt(ms, c, j) /\ Quiet(ms, c, j, n + 2) BY <2>0, <3>4 DEF OpenAt
      <4>2. j \in 1..n BY <3>4, <4>1
      <4>3. Quiet(ms, c, j, n + 1) /\ ms[n + 1].result # c BY <4>1, <4>2, QuietStep
      <4>4. QED BY <4>1, <4>2, <4>3 DEF OpenAt
    <3>5. QED BY <3>2, <3>3, <3>4
  <2>4. CASE CallAt(ms, c, n + 1)
    <3>1. ms[n + 1].result # c
      <4>1. ToSet(ms[n + 1].calls) # {} BY <2>4 DEF CallAt
      <4>2. ms[n + 1].result = NoCall BY <2>0, <4>1 DEF Exclusive
      <4>3. QED BY <4>2
    <3>2. ~ OpenAt(ms, c, n)
      <4>. SUFFICES ASSUME OpenAt(ms, c, n) PROVE FALSE OBVIOUS
      <4>1. PICK j \in 1..n : CallAt(ms, c, j) /\ Quiet(ms, c, j, n + 1) BY DEF OpenAt
      <4>2. j \in DOMAIN ms BY <1>0
      <4>3. PICK k \in (j + 1)..Len(ms) : ms[k].result = c /\ Quiet(ms, c, j, k)
        BY <4>1, <4>2 DEF PairsComplete, CallAt
      <4>4. ~ (k < n + 1)
        <5>. SUFFICES ASSUME k < n + 1 PROVE FALSE OBVIOUS
        <5>1. k \in (j + 1)..((n + 1) - 1) BY <1>0
        <5>2. QED BY <4>1, <4>3, <5>1 DEF Quiet
      <4>5. k # n + 1 BY <3>1, <4>3
      <4>6. n + 1 \in (j + 1)..(k - 1) BY <1>0, <4>4, <4>5
      <4>7. QED BY <2>4, <4>3, <4>6 DEF Quiet
    <3>3. o2 = a2 + 1 BY <2>1, <2>2, <2>4, <3>1, <3>2
    <3>4. QED BY <2>3, <2>4, <3>3 DEF o2, a2
  <2>5. CASE ~ CallAt(ms, c, n + 1) /\ ms[n + 1].result = c
    <3>1. OpenAt(ms, c, n)
      <4>1. PICK j \in 1..((n + 1) - 1) : CallAt(ms, c, j) /\ Quiet(ms, c, j, n + 1)
        BY <2>0, <2>5 DEF PairsComplete
      <4>2. j \in 1..n OBVIOUS
      <4>3. QED BY <4>1, <4>2 DEF OpenAt
    <3>2. o2 = a2 BY <2>1, <2>2, <2>5, <3>1
    <3>3. QED BY <2>3, <2>5, <3>2 DEF o2, a2
  <2>6. CASE ~ CallAt(ms, c, n + 1) /\ ms[n + 1].result # c
    <3>1. o2 = IF OpenAt(ms, c, n) THEN a2 + 1 ELSE a2 BY <2>1, <2>2, <2>6
    <3>2. QED BY <2>3, <2>6, <3>1 DEF o2, a2
  <2>7. QED BY <2>4, <2>5, <2>6
<1>. HIDE DEF G
<1>3. i \in Nat /\ i <= Len(ms) BY <1>0
<1>4. Balanced(i)
  <2>1. i \in G BY <1>1, <1>2, <1>3, Induct
  <2>2. QED BY <1>3, <2>1 DEF G
<1>5. ~ OpenAt(ms, c, i)
  <2>. SUFFICES ASSUME OpenAt(ms, c, i) PROVE FALSE OBVIOUS
  <2>1. PICK j \in 1..i : CallAt(ms, c, j) /\ Quiet(ms, c, j, i + 1) BY DEF OpenAt
  <2>2. ToSet(ms[i].calls) = {} BY DEF Exclusive
  <2>3. j # i BY <2>1, <2>2 DEF CallAt
  <2>4. i \in (j + 1)..((i + 1) - 1) BY <1>3, <2>3
  <2>5. QED BY <2>1, <2>4 DEF Quiet
<1>6. QED BY <1>4, <1>5

(* The call a result belongs to in the log is its owner by occurrence. *)
LEMMA OwnerFound ==
    ASSUME NEW l \in Seq(Entry), Own(l), NEW ms \in Seq(ViewMessage), Shows(l, ms, Len(l)), PairsComplete(ms),
           NEW i \in DOMAIN ms, ms[i].result # NoCall
    PROVE  \E j \in Owner(ms, i) : ms[j].src = l[ms[i].src].of
<1>. DEFINE n == Len(l)
            c == ms[i].result
            t == ms[i].src
            o == l[t].of
<1>0. DOMAIN ms = 1..Len(ms) /\ Len(ms) \in Nat /\ DOMAIN l = 1..n /\ n \in Nat OBVIOUS
<1>a. ASSUME NEW k \in DOMAIN ms
      PROVE  /\ ms[k].src \in 0..n
             /\ ms[k] = IF ms[k].src = 0 THEN Text ELSE Message(l, ms[k].src)
             /\ ms[k].src # 0 => \A j \in 1..(k - 1) : ms[j].src < ms[k].src
  BY DEF Shows
<1>b. ASSUME NEW k \in DOMAIN ms, ms[k].result # NoCall
      PROVE  ms[k].src \in 1..n /\ l[ms[k].src].kind = "tool" /\ ms[k].calls = <<>>
  <2>1. ms[k].src # 0
    <3>1. ms[k].src = 0 => ms[k].result = NoCall BY <1>a, <1>b DEF Text
    <3>2. QED BY <1>b, <3>1
  <2>2. ms[k] = Message(l, ms[k].src) /\ ms[k].src \in 1..n BY <1>a, <1>b, <2>1
  <2>3. l[ms[k].src].kind = "tool" BY <1>b, <2>2 DEF Message
  <2>4. ms[k].calls = <<>> BY <2>2, <2>3 DEF Message
  <2>5. QED BY <2>2, <2>3, <2>4
<1>c. ASSUME NEW k \in DOMAIN ms, NEW d \in ToSet(ms[k].calls)
      PROVE  ms[k].src \in 1..n /\ l[ms[k].src].kind = "assistant"
  <2>1. ms[k].calls # <<>> BY <1>c DEF ToSet
  <2>2. ms[k].src # 0
    <3>1. ms[k].src = 0 => ms[k].calls = <<>> BY <1>a, <1>c DEF Text
    <3>2. QED BY <2>1, <3>1
  <2>3. ms[k] = Message(l, ms[k].src) /\ ms[k].src \in 1..n BY <1>a, <1>c, <2>2
  <2>4. QED BY <2>1, <2>3 DEF Message
<1>d. Exclusive(ms)
  <2>. SUFFICES ASSUME NEW k \in DOMAIN ms, ms[k].result # NoCall PROVE ToSet(ms[k].calls) = {} BY DEF Exclusive
  <2>1. ms[k].calls = <<>> BY <1>b
  <2>2. QED BY <2>1 DEF ToSet
<1>1. t \in 1..n /\ l[t].kind = "tool" BY <1>b
<1>2. /\ o \in 1..(t - 1) /\ l[o].kind = "assistant" /\ \A k \in (o + 1)..(t - 1) : l[k].kind # "assistant"
  BY <1>0, <1>1 DEF Own
<1>3. PICK j \in DOMAIN ms : ms[j].src = o BY DEF Shows
<1>4. j < i
  <2>1. ms[j].src # 0 /\ ms[j].src < t BY <1>1, <1>2, <1>3
  <2>2. CASE i < j
    <3>1. i \in 1..(j - 1) BY <1>0, <2>2
    <3>2. ms[i].src < ms[j].src BY <1>a, <2>1, <3>1
    <3>3. QED BY <1>1, <1>2, <1>3, <2>1, <3>2
  <2>3. i # j BY <1>1, <1>2, <1>3
  <2>4. QED BY <1>0, <2>2, <2>3
<1>5. \A k \in (j + 1)..(i - 1) : ~ CallAt(ms, c, k)
  <2>. SUFFICES ASSUME NEW k \in (j + 1)..(i - 1), CallAt(ms, c, k) PROVE FALSE OBVIOUS
  <2>1. k \in DOMAIN ms /\ c \in ToSet(ms[k].calls) BY <1>0 DEF CallAt
  <2>2. ms[k].src \in 1..n /\ l[ms[k].src].kind = "assistant" BY <1>c, <2>1
  <2>3. ms[k].src < t
    <3>1. k \in 1..(i - 1) BY <1>0
    <3>2. t # 0 BY <1>1
    <3>3. QED BY <1>a, <3>1, <3>2
  <2>4. o < ms[k].src
    <3>1. j \in 1..(k - 1) /\ ms[k].src # 0 BY <1>0, <2>2
    <3>2. QED BY <1>a, <1>3, <2>1, <3>1
  <2>5. ms[k].src \in (o + 1)..(t - 1) BY <1>1, <1>2, <2>2, <2>3, <2>4
  <2>6. QED BY <1>2, <2>2, <2>5
<1>6. PICK k \in 1..(i - 1) : CallAt(ms, c, k) /\ Quiet(ms, c, k, i) BY DEF PairsComplete
<1>7. k <= j BY <1>0, <1>5, <1>6
<1>8. CallAt(ms, c, j)
  <2>1. l[t].call \in ToSet(l[o].calls) BY <1>0, <1>1 DEF Own
  <2>2. c = l[t].call
    <3>1. ms[i] = Message(l, t) BY <1>a, <1>1
    <3>2. QED BY <1>1, <3>1 DEF Message
  <2>3. ms[j].calls = l[o].calls
    <3>1. o # 0 /\ ms[j] = Message(l, o) BY <1>a, <1>1, <1>2, <1>3
    <3>2. QED BY <1>2, <3>1 DEF Message
  <2>4. QED BY <2>1, <2>2, <2>3 DEF CallAt
<1>9. Opened(ms, c, i) = Opened(ms, c, j)
  <2>1. ~ CallAt(ms, c, i)
    <3>1. ms[i].calls = <<>> BY <1>b
    <3>2. QED BY <3>1 DEF CallAt, ToSet
  <2>2. \A k2 \in 1..i : CallAt(ms, c, k2) => k2 \in 1..j BY <1>0, <1>4, <1>5, <2>1
  <2>3. \A k2 \in 1..j : k2 \in 1..i BY <1>0, <1>4
  <2>4. QED BY <2>2, <2>3 DEF Opened
<1>10. Cardinality(Opened(ms, c, j)) = Cardinality(Answered(ms, c, i)) BY <1>d, <1>9, Counting
<1>11. j \in Opened(ms, c, i) BY <1>0, <1>4, <1>8 DEF Opened
<1>12. j \in Owner(ms, i) BY <1>10, <1>11 DEF Owner
<1>13. QED BY <1>3, <1>12

-----------------------------------------------------------------------------
(* The messages a valid plan materializes. *)

(* The messages a plan materializes: its context, then the retained ones in
   order. *)
LEMMA MaterializedKinds ==
    ASSUME NEW ms \in Seq(ViewMessage), NEW p, p.retain \subseteq DOMAIN ms, p.context \in {"no", "yes"}
    PROVE  LET out  == Materialized(ms, p)
               kept == Ascending(p.retain, Len(ms))
               d    == IF p.context = "yes" THEN 1 ELSE 0
           IN  /\ out \in Seq(ViewMessage) /\ Len(kept) \in Nat /\ Len(out) = d + Len(kept)
               /\ DOMAIN out = 1..Len(out)
               /\ d = 1 => out[1] = Text
               /\ \A k \in 1..Len(kept) : out[d + k] = ms[kept[k]] /\ kept[k] \in p.retain
               /\ \A j, k \in 1..Len(kept) : j < k => kept[j] < kept[k]
               /\ \A i \in p.retain : \E k \in 1..Len(kept) : kept[k] = i
<1>. DEFINE n == Len(ms)
            kept == Ascending(p.retain, n)
            d == IF p.context = "yes" THEN 1 ELSE 0
            c == IF p.context = "yes" THEN <<Text>> ELSE <<>>
            b == [k \in DOMAIN kept |-> ms[kept[k]]]
            out == Materialized(ms, p)
<1>0. n \in Nat /\ DOMAIN ms = 1..n OBVIOUS
<1>. HIDE DEF n
<1>1. /\ Len(kept) \in Nat /\ DOMAIN kept = 1..Len(kept)
      /\ \A k \in 1..Len(kept) : kept[k] \in p.retain
      /\ \A j, k \in 1..Len(kept) : j < k => kept[j] < kept[k]
      /\ \A i \in p.retain : \E k \in 1..Len(kept) : kept[k] = i
  <2>1. /\ Len(kept) \in 0..n /\ DOMAIN kept = 1..Len(kept)
        /\ \A k \in 1..Len(kept) : kept[k] \in p.retain \cap (1..n)
        /\ \A j, k \in 1..Len(kept) : j < k => kept[j] < kept[k]
        /\ \A i \in p.retain \cap (1..n) : \E k \in 1..Len(kept) : kept[k] = i
    BY <1>0, AscendingKinds
  <2>2. p.retain \cap (1..n) = p.retain BY <1>0
  <2>. HIDE DEF kept
  <2>3. QED BY <1>0, <2>1, <2>2
<1>2. out = c \o b BY DEF Materialized, n
<1>. HIDE DEF kept, out
<1>3. b \in Seq(ViewMessage) /\ Len(b) = Len(kept) /\ \A k \in 1..Len(kept) : b[k] = ms[kept[k]]
  <2>1. \A k \in 1..Len(kept) : ms[kept[k]] \in ViewMessage BY <1>0, <1>1
  <2>2. QED BY <1>1, <2>1
<1>4. Text \in ViewMessage
  <2>1. <<>> \in Seq(Calls) OBVIOUS
  <2>2. QED BY <2>1 DEF Text, ViewMessage
<1>5. c \in Seq(ViewMessage) /\ Len(c) = d /\ (d = 1 => c[1] = Text) /\ d \in {0, 1}
  <2>1. CASE p.context = "yes" BY <1>4, <2>1
  <2>2. CASE p.context # "yes" BY <2>2
  <2>3. QED BY <2>1, <2>2
<1>. HIDE DEF c, d, b
<1>6. /\ c \o b \in Seq(ViewMessage) /\ Len(c \o b) = Len(c) + Len(b)
      /\ DOMAIN (c \o b) = 1..(Len(c) + Len(b))
      /\ \A i \in 1..Len(c) : (c \o b)[i] = c[i]
      /\ \A k \in 1..Len(b) : (c \o b)[Len(c) + k] = b[k]
  <2>1. b \in Seq(ViewMessage) /\ c \in Seq(ViewMessage) BY <1>3, <1>5
  <2>2. QED BY <2>1, Grown
<1>7. d = 1 => out[1] = Text BY <1>2, <1>5, <1>6
<1>8. /\ out \in Seq(ViewMessage) /\ Len(out) = d + Len(kept) /\ DOMAIN out = 1..Len(out)
      /\ \A k \in 1..Len(kept) : out[d + k] = ms[kept[k]]
  BY <1>2, <1>3, <1>5, <1>6
<1>9. QED BY <1>1, <1>7, <1>8 DEF out, kept, d, n

(* They show entries up to the boundary, each result with the entry of its
   call (resolveCheckpointItems). *)
LEMMA MaterializedShows ==
    ASSUME NEW l \in Seq(Entry), Own(l), NEW ms \in Seq(ViewMessage), Shows(l, ms, Len(l)), PairsComplete(ms),
           NEW p, p.retain \subseteq DOMAIN ms, p.context \in {"no", "yes"}, NEW covered, ItemsResolve(ms, p, covered),
           NEW b \in Nat, \A i \in DOMAIN ms : i <= covered => ms[i].src <= b
    PROVE  Shows(l, Materialized(ms, p), b)
<1>. DEFINE kept == Ascending(p.retain, Len(ms))
            d == IF p.context = "yes" THEN 1 ELSE 0
            out == Materialized(ms, p)
<1>0. DOMAIN ms = 1..Len(ms) /\ Len(ms) \in Nat /\ Len(l) \in Nat OBVIOUS
<1>1. /\ Len(kept) \in Nat /\ Len(out) = d + Len(kept) /\ DOMAIN out = 1..Len(out)
      /\ d = 1 => out[1] = Text
      /\ \A k \in 1..Len(kept) : out[d + k] = ms[kept[k]] /\ kept[k] \in p.retain
      /\ \A j, k \in 1..Len(kept) : j < k => kept[j] < kept[k]
      /\ \A i \in p.retain : \E k \in 1..Len(kept) : kept[k] = i
  BY MaterializedKinds
<1>2. d \in {0, 1} OBVIOUS
<1>. HIDE DEF kept, d, out
<1>3. \A i \in p.retain : i <= covered BY DEF ItemsResolve
<1>. SUFFICES ASSUME NEW x \in 1..(d + Len(kept))
     PROVE  /\ out[x].src \in 0..b
            /\ out[x] = IF out[x].src = 0 THEN Text ELSE Message(l, out[x].src)
            /\ out[x].src # 0 => \A j \in 1..(x - 1) : out[j].src < out[x].src
            /\ out[x].result # NoCall => \E j \in DOMAIN out : out[j].src = l[out[x].src].of
  BY <1>1 DEF Shows, out
<1>4. CASE x = d /\ d = 1
  <2>1. out[x] = Text BY <1>1, <1>4
  <2>2. out[x].src = 0 /\ out[x].result = NoCall BY <2>1 DEF Text
  <2>3. QED BY <2>1, <2>2
<1>5. CASE ~ (x = d /\ d = 1)
  <2>. DEFINE k == x - d
              i == kept[k]
  <2>1. k \in 1..Len(kept) /\ d + k = x BY <1>1, <1>2, <1>5
  <2>2. out[x] = ms[i] /\ i \in p.retain /\ i \in DOMAIN ms /\ i <= covered BY <1>1, <1>3, <2>1
  <2>3. /\ ms[i].src \in 0..Len(l)
        /\ ms[i] = IF ms[i].src = 0 THEN Text ELSE Message(l, ms[i].src)
        /\ ms[i].src # 0 => \A j \in 1..(i - 1) : ms[j].src < ms[i].src
    BY <2>2 DEF Shows
  <2>4. ms[i].src \in 0..b BY <1>0, <2>2, <2>3
  <2>5. ASSUME ms[i].src # 0, NEW j \in 1..(x - 1) PROVE out[j].src < ms[i].src
    <3>1. CASE j = d /\ d = 1
      <4>1. out[j].src = 0 BY <1>1, <3>1 DEF Text
      <4>2. QED BY <1>0, <2>3, <2>5, <4>1
    <3>2. CASE ~ (j = d /\ d = 1)
      <4>. DEFINE y == j - d
      <4>1. y \in 1..Len(kept) /\ d + y = j /\ y < k BY <1>1, <1>2, <2>1, <3>2
      <4>2. out[j] = ms[kept[y]] /\ kept[y] \in DOMAIN ms /\ kept[y] < i BY <1>1, <2>1, <4>1
      <4>3. kept[y] \in 1..(i - 1) BY <1>0, <2>2, <4>2
      <4>4. QED BY <2>3, <2>5, <4>2, <4>3
    <3>3. QED BY <3>1, <3>2
  <2>6. ASSUME ms[i].result # NoCall PROVE \E j \in DOMAIN out : out[j].src = l[ms[i].src].of
    <3>1. PICK o \in Owner(ms, i) : ms[o].src = l[ms[i].src].of BY <2>2, <2>6, OwnerFound
    <3>2. o \in p.retain BY <2>2, <2>6, <3>1 DEF ItemsResolve, RetainsExchanges
    <3>3. PICK y \in 1..Len(kept) : kept[y] = o BY <1>1, <3>2
    <3>4. out[d + y] = ms[o] /\ d + y \in DOMAIN out BY <1>1, <1>2, <3>3
    <3>5. QED BY <3>1, <3>4
  <2>7. QED BY <2>2, <2>3, <2>4, <2>5, <2>6
<1>6. QED BY <1>4, <1>5

-----------------------------------------------------------------------------
(* Results and pending calls as the log grows. *)

(* The first m entries after n answer the first m of p, and no other does. *)
Replies(l2, n, p, m, q) ==
    /\ m \in 0..q /\ 1..m \subseteq DOMAIN p
    /\ \A k \in 1..m : l2[n + k].kind = "tool" /\ l2[n + k].of = p[k].of /\ l2[n + k].call = p[k].call
    /\ \A k \in 1..q : k > m => l2[n + k].kind # "tool"

(* A log in which results belong to calls takes results of calls that are
   due. *)
LEMMA OwnGrows ==
    ASSUME NEW l, NEW l2, NEW q, Further(l2, l, q), Own(l), NEW p, Due(l, p),
           NEW m, Replies(l2, Len(l), p, m, q)
    PROVE  Own(l2)
<1>. DEFINE n == Len(l)
<1>b. /\ m \in 0..q /\ 1..m \subseteq DOMAIN p
      /\ \A k \in 1..m : l2[n + k].kind = "tool" /\ l2[n + k].of = p[k].of /\ l2[n + k].call = p[k].call
      /\ \A k \in 1..q : k > m => l2[n + k].kind # "tool"
  BY DEF Replies
<1>0. /\ n \in Nat /\ q \in Nat /\ m \in Nat /\ m <= q /\ DOMAIN l = 1..n /\ DOMAIN l2 = 1..(n + q)
      /\ \A i \in 1..n : l2[i] = l[i]
  BY <1>b DEF Further
<1>a. \A k \in 1..q : k > m => l2[n + k].kind # "tool" BY <1>b
<1>. HIDE DEF n
<1>1. ASSUME NEW t \in 1..n, l[t].kind = "tool"
      PROVE  /\ l[t].of \in 1..(t - 1) /\ l[l[t].of].kind = "assistant" /\ l[t].call \in ToSet(l[l[t].of].calls)
             /\ \A i \in (l[t].of + 1)..(t - 1) : l[i].kind # "assistant"
             /\ \A u \in 1..n : l[u].kind = "tool" /\ l[u].of = l[t].of /\ l[u].call = l[t].call => u = t
  BY <1>0, <1>1 DEF Own
<1>2. ASSUME NEW k \in 1..m
      PROVE  /\ p[k].of \in 1..n /\ l[p[k].of].kind = "assistant" /\ p[k].call \in ToSet(l[p[k].of].calls)
             /\ \A i \in (p[k].of + 1)..n : l[i].kind # "assistant"
             /\ \A i \in 1..n : l[i].kind = "tool" /\ l[i].of = p[k].of => l[i].call # p[k].call
             /\ l2[n + k].kind = "tool" /\ l2[n + k].of = p[k].of /\ l2[n + k].call = p[k].call
             /\ \A j \in 1..m : p[j].call = p[k].call => j = k
  BY <1>0, <1>b DEF Due, n
<1>3. ASSUME NEW u \in 1..(n + q), l2[u].kind = "tool"
      PROVE  u \in 1..n \/ \E k \in 1..m : u = n + k
  <2>1. CASE ~ (u <= n)
    <3>. DEFINE k == u - n
    <3>1. k \in 1..q /\ n + k = u BY <1>0, <2>1
    <3>. HIDE DEF k
    <3>2. ~ (k > m) BY <1>3, <1>a, <3>1
    <3>3. k \in 1..m BY <1>0, <3>1, <3>2
    <3>4. QED BY <3>1, <3>3
  <2>2. QED BY <1>0, <2>1
<1>. SUFFICES ASSUME NEW t \in 1..(n + q), l2[t].kind = "tool"
     PROVE  /\ l2[t].of \in 1..(t - 1) /\ l2[l2[t].of].kind = "assistant" /\ l2[t].call \in ToSet(l2[l2[t].of].calls)
            /\ \A i \in (l2[t].of + 1)..(t - 1) : l2[i].kind # "assistant"
            /\ \A u \in 1..(n + q) : l2[u].kind = "tool" /\ l2[u].of = l2[t].of /\ l2[u].call = l2[t].call => u = t
  BY <1>0 DEF Own
<1>4. CASE t \in 1..n
  <2>1. l2[t] = l[t] /\ l[t].kind = "tool" BY <1>0, <1>4
  <2>2. l[t].of \in 1..(t - 1) /\ l[t].of \in 1..n BY <1>0, <1>1, <1>4, <2>1
  <2>3. l2[l[t].of] = l[l[t].of] BY <1>0, <2>2
  <2>4. \A i \in (l[t].of + 1)..(t - 1) : l2[i] = l[i] BY <1>0, <1>4, <2>2
  <2>5. ASSUME NEW u \in 1..(n + q), l2[u].kind = "tool", l2[u].of = l[t].of, l2[u].call = l[t].call PROVE u = t
    <3>1. CASE u \in 1..n BY <1>0, <1>1, <1>4, <2>1, <2>5, <3>1
    <3>2. CASE \E k \in 1..m : u = n + k
      <4>1. PICK k \in 1..m : u = n + k BY <3>2
      <4>2. p[k].of = l[t].of /\ p[k].call = l[t].call BY <1>2, <2>5, <4>1
      <4>3. l[t].call # p[k].call BY <1>2, <1>4, <2>1, <4>2
      <4>4. QED BY <4>2, <4>3
    <3>3. QED BY <1>3, <2>5, <3>1, <3>2
  <2>6. /\ l[l[t].of].kind = "assistant" /\ l[t].call \in ToSet(l[l[t].of].calls)
        /\ \A i \in (l[t].of + 1)..(t - 1) : l[i].kind # "assistant"
    BY <1>1, <1>4, <2>1
  <2>7. \A i \in (l[t].of + 1)..(t - 1) : l2[i].kind # "assistant" BY <2>4, <2>6
  <2>8. QED BY <2>1, <2>2, <2>3, <2>5, <2>6, <2>7
<1>5. CASE \E k \in 1..m : t = n + k
  <2>1. PICK k \in 1..m : t = n + k BY <1>5
  <2>. DEFINE o == p[k].of
  <2>2. l2[t].of = o /\ o \in 1..n /\ o \in 1..(t - 1) /\ l2[o] = l[o] /\ l2[t].call = p[k].call BY <1>0, <1>2, <2>1
  <2>3. ASSUME NEW i \in (o + 1)..(t - 1) PROVE l2[i].kind # "assistant"
    <3>1. CASE i <= n
      <4>1. i \in (o + 1)..n /\ i \in 1..n BY <1>0, <2>2, <3>1
      <4>2. QED BY <1>0, <1>2, <4>1
    <3>2. CASE ~ (i <= n)
      <4>1. i - n \in 1..m /\ n + (i - n) = i BY <1>0, <2>1, <2>2, <3>2
      <4>2. l2[i].kind = "tool" BY <1>2, <4>1
      <4>3. QED BY <4>2
    <3>3. QED BY <3>1, <3>2
  <2>4. ASSUME NEW u \in 1..(n + q), l2[u].kind = "tool", l2[u].of = o, l2[u].call = p[k].call PROVE u = t
    <3>1. CASE u \in 1..n
      <4>1. l2[u] = l[u] BY <1>0, <3>1
      <4>2. QED BY <1>2, <2>4, <3>1, <4>1
    <3>2. CASE \E j \in 1..m : u = n + j
      <4>1. PICK j \in 1..m : u = n + j BY <3>2
      <4>2. p[j].call = p[k].call BY <1>2, <2>4, <4>1
      <4>3. j = k BY <1>2, <4>2
      <4>4. QED BY <2>1, <4>1, <4>3
    <3>3. QED BY <1>3, <2>4, <3>1, <3>2
  <2>5. l2[o].kind = "assistant" /\ p[k].call \in ToSet(l2[o].calls) BY <1>2, <2>2
  <2>6. QED BY <2>2, <2>3, <2>4, <2>5
<1>6. QED BY <1>3, <1>4, <1>5

(* Nothing is due when nothing is pending. *)
LEMMA DueNone == ASSUME NEW l PROVE Due(l, <<>>)
BY DEF Due

(* A new output's calls are due. *)
LEMMA DueOpens ==
    ASSUME NEW l, NEW l2, NEW q, Further(l2, l, q), q >= 1, Own(l), NEW p, IsInjective(l2[Len(l) + 1].calls),
           l2[Len(l) + 1].kind = "assistant", DOMAIN p = DOMAIN l2[Len(l) + 1].calls,
           \A k \in DOMAIN p : p[k].of = Len(l) + 1 /\ p[k].call = l2[Len(l) + 1].calls[k],
           \A k \in 1..q : k > 1 => l2[Len(l) + k].kind \notin {"assistant", "tool"}
    PROVE  Due(l2, p)
<1>. DEFINE n == Len(l)
            cs == l2[n + 1].calls
<1>0. /\ n \in Nat /\ q \in Nat /\ DOMAIN l = 1..n /\ DOMAIN l2 = 1..(n + q) /\ Len(l2) = n + q
      /\ \A i \in 1..n : l2[i] = l[i]
  BY DEF Further
<1>. HIDE DEF n
<1>1. \A i \in ((n + 1) + 1)..(n + q) : l2[i].kind \notin {"assistant", "tool"}
  <2>. SUFFICES ASSUME NEW i \in ((n + 1) + 1)..(n + q) PROVE l2[i].kind \notin {"assistant", "tool"} OBVIOUS
  <2>1. i - n \in 1..q /\ i - n > 1 /\ n + (i - n) = i BY <1>0
  <2>2. QED BY <2>1 DEF n
<1>2. ASSUME NEW i \in 1..(n + q), l2[i].kind = "tool" PROVE l2[i].of # n + 1
  <2>1. i # n + 1 /\ i \notin ((n + 1) + 1)..(n + q) BY <1>1, <1>2 DEF n
  <2>2. i \in 1..n BY <1>0, <2>1
  <2>3. l2[i].of \in 1..(i - 1) BY <1>0, <1>2, <2>2 DEF Own
  <2>4. QED BY <1>0, <2>2, <2>3
<1>3. n + 1 \in DOMAIN l2 BY <1>0
<1>4. \A k \in DOMAIN p : p[k].of = n + 1 /\ p[k].call = cs[k] /\ p[k].call \in ToSet(cs) BY DEF ToSet, n
<1>5. \A j, k \in DOMAIN p : p[j].call = p[k].call => j = k BY <1>4 DEF IsInjective, n
<1>6. QED BY <1>0, <1>1, <1>2, <1>3, <1>4, <1>5 DEF Due, n

(* The remaining calls stay due when the first is answered. *)
LEMMA DueTail ==
    ASSUME NEW S, NEW p \in Seq(S), p # <<>>, NEW l, NEW l2, Further(l2, l, 1), Due(l, p),
           l2[Len(l) + 1].kind = "tool", l2[Len(l) + 1].of = p[1].of, l2[Len(l) + 1].call = p[1].call
    PROVE  Due(l2, Tail(p)) /\ Waiting([pending |-> Tail(p)]) = Waiting([pending |-> p]) \ {p[1].call}
<1>. DEFINE n == Len(l)
            d == Tail(p)
<1>0. /\ n \in Nat /\ DOMAIN l = 1..n /\ DOMAIN l2 = 1..(n + 1) /\ Len(l2) = n + 1 /\ \A i \in 1..n : l2[i] = l[i]
  BY DEF Further
<1>1. Len(p) \in Nat /\ Len(p) >= 1 /\ DOMAIN p = 1..Len(p) BY EmptySeq, LenProperties
<1>2. DOMAIN d = 1..(Len(p) - 1) /\ \A k \in DOMAIN d : d[k] = p[k + 1] /\ k + 1 \in DOMAIN p /\ k + 1 # 1
  <2>1. d \in Seq(S) /\ Len(d) = Len(p) - 1 /\ \A k \in 1..(Len(p) - 1) : d[k] = p[k + 1] BY <1>1, HeadTailProperties
  <2>2. DOMAIN d = 1..(Len(p) - 1) BY <2>1, LenProperties
  <2>3. QED BY <1>1, <2>1, <2>2
<1>. HIDE DEF n, d
<1>3. 1 \in DOMAIN p BY <1>1
<1>4. ASSUME NEW k \in DOMAIN d
      PROVE  /\ d[k].of \in DOMAIN l2 /\ l2[d[k].of].kind = "assistant"
             /\ d[k].call \in ToSet(l2[d[k].of].calls)
             /\ \A i \in (d[k].of + 1)..Len(l2) : l2[i].kind # "assistant"
             /\ \A i \in DOMAIN l2 : l2[i].kind = "tool" /\ l2[i].of = d[k].of => l2[i].call # d[k].call
  <2>. DEFINE x == k + 1
  <2>1. d[k] = p[x] /\ x \in DOMAIN p /\ x # 1 BY <1>2
  <2>. HIDE DEF x
  <2>2. /\ p[x].of \in 1..n /\ l[p[x].of].kind = "assistant" /\ p[x].call \in ToSet(l[p[x].of].calls)
        /\ \A i \in (p[x].of + 1)..n : l[i].kind # "assistant"
        /\ \A i \in 1..n : l[i].kind = "tool" /\ l[i].of = p[x].of => l[i].call # p[x].call
        /\ p[x].call # p[1].call
    BY <1>0, <1>3, <2>1 DEF Due, n
  <2>3. l2[p[x].of] = l[p[x].of] BY <1>0, <2>2
  <2>4. ASSUME NEW i \in (p[x].of + 1)..(n + 1) PROVE l2[i].kind # "assistant"
    <3>1. CASE i = n + 1 BY <3>1 DEF n
    <3>2. CASE i # n + 1
      <4>1. i \in (p[x].of + 1)..n /\ i \in 1..n BY <1>0, <2>2, <3>2
      <4>2. QED BY <1>0, <2>2, <4>1
    <3>3. QED BY <3>1, <3>2
  <2>5. ASSUME NEW i \in 1..(n + 1), l2[i].kind = "tool", l2[i].of = p[x].of PROVE l2[i].call # p[x].call
    <3>1. CASE i = n + 1 BY <2>2, <3>1 DEF n
    <3>2. CASE i # n + 1
      <4>1. i \in 1..n BY <1>0, <3>2
      <4>2. QED BY <1>0, <2>2, <2>5, <4>1
    <3>3. QED BY <3>1, <3>2
  <2>6. p[x].of \in 1..(n + 1) BY <1>0, <2>2
  <2>7. QED BY <1>0, <2>1, <2>2, <2>3, <2>4, <2>5, <2>6
<1>5. \A j, k \in DOMAIN d : d[j].call = d[k].call => j = k
  <2>. SUFFICES ASSUME NEW j \in DOMAIN d, NEW k \in DOMAIN d, d[j].call = d[k].call PROVE j = k OBVIOUS
  <2>1. j + 1 = k + 1 BY <1>2 DEF Due
  <2>2. QED BY <1>1, <1>2, <2>1
<1>6. {d[k].call : k \in DOMAIN d} = {p[k].call : k \in DOMAIN p} \ {p[1].call}
  <2>1. ASSUME NEW k \in DOMAIN p, p[k].call # p[1].call PROVE \E j \in DOMAIN d : d[j].call = p[k].call
    <3>0. k # 1 /\ DOMAIN d = 1..(Len(p) - 1) BY <1>2, <2>1
    <3>1. k - 1 \in DOMAIN d /\ (k - 1) + 1 = k BY <1>1, <3>0
    <3>2. d[k - 1].call = p[k].call BY <1>2, <3>1
    <3>3. QED BY <3>1, <3>2
  <2>2. ASSUME NEW k \in DOMAIN d PROVE \E j \in DOMAIN p : p[j].call = d[k].call BY <1>2
  <2>3. ASSUME NEW k \in DOMAIN d PROVE d[k].call # p[1].call BY <1>2, <1>3 DEF Due
  <2>4. QED BY <2>1, <2>2, <2>3
<1>7. Waiting([pending |-> d]) = {d[k].call : k \in DOMAIN d} BY DEF Waiting
<1>8. Waiting([pending |-> p]) = {p[k].call : k \in DOMAIN p} BY DEF Waiting
<1>9. Due(l2, d) BY <1>4, <1>5 DEF Due
<1>10. QED BY <1>6, <1>7, <1>8, <1>9 DEF d

-----------------------------------------------------------------------------
(* The view after a checkpoint. *)

(* The positions up to a smaller bound come first. *)
LEMMA BearingBegins ==
    ASSUME NEW l, NEW lo \in Nat, NEW hi \in Nat, NEW b \in Nat, b <= hi
    PROVE  /\ Len(Bearing(l, lo, b)) <= Len(Bearing(l, lo, hi))
           /\ \A k \in 1..Len(Bearing(l, lo, b)) : Bearing(l, lo, hi)[k] = Bearing(l, lo, b)[k]
<1>. DEFINE S == {i \in (lo + 1)..hi : MessageBearing(l[i])}
            T == {i \in (lo + 1)..b : MessageBearing(l[i])}
<1>1. \A i \in 1..b : i \in S <=> i \in T OBVIOUS
<1>2. Bearing(l, lo, hi) = Ascending(S, hi) /\ Bearing(l, lo, b) = Ascending(T, b) BY DEF Bearing
<1>. HIDE DEF S, T
<1>3. Ascending(S, b) = Ascending(T, b) BY <1>1, AscendingSame
<1>4. QED BY <1>2, <1>3, AscendingBegins

(* The messages counted as covered come from entries up to the boundary. *)
LEMMA CoveredBelow ==
    ASSUME NEW l, NEW cp, Readable(l, cp), cp # 0 => Sound(l, cp), NEW b \in Nat, b <= Len(l), Cutoff(l, cp) <= b,
           NEW i \in DOMAIN Project(l, cp).messages, i <= Len(Covered(l, cp)) + Len(Bearing(l, Cutoff(l, cp), b))
    PROVE  Project(l, cp).messages[i].src <= b
<1>. DEFINE n == Len(l)
            t == Uncovered(l, cp)
            c == Covered(l, cp)
            a == Len(c)
            cut == Cutoff(l, cp)
            ms == Project(l, cp).messages
            u == Bearing(l, cut, b)
<1>0. n \in Nat /\ cut \in Nat /\ cut <= n BY DEF Readable
<1>1. /\ a \in Nat /\ Len(ms) = a + Len(t) /\ DOMAIN ms = 1..Len(ms) /\ Len(t) \in Nat
      /\ \A k \in 1..a : ms[k] = c[k]
      /\ \A k \in 1..Len(t) : ms[a + k] = Message(l, t[k])
  BY ViewKinds
<1>2. DOMAIN c = 1..a
  <2>1. c \in Seq(ViewMessage) BY DEF Readable
  <2>2. QED BY <2>1
<1>3. t = Bearing(l, cut, n) BY DEF Uncovered
<1>. HIDE DEF n, cut, t
<1>4. Len(u) \in Nat /\ \A k \in 1..Len(u) : u[k] \in (cut + 1)..b BY <1>0, BearingKinds
<1>5. Len(u) <= Len(t) /\ \A k \in 1..Len(u) : t[k] = u[k] BY <1>0, <1>3, BearingBegins DEF n
<1>6. i <= a + Len(u) /\ i \in 1..(a + Len(t)) BY <1>1 DEF cut
<1>. HIDE DEF ms, a, u
<1>7. CASE i <= a
  <2>1. i \in 1..a /\ ms[i] = c[i] BY <1>1, <1>6, <1>7
  <2>2. cp # 0
    <3>1. cp = 0 => c = <<>> BY DEF Covered
    <3>2. DOMAIN <<>> = {} OBVIOUS
    <3>3. i \in DOMAIN c BY <1>2, <2>1
    <3>4. QED BY <3>1, <3>2, <3>3
  <2>3. Shows(l, c, cut) BY <2>2 DEF Sound, Covered, Cutoff, cut
  <2>4. c[i].src \in 0..cut BY <1>2, <2>1, <2>3 DEF Shows
  <2>5. cut <= b BY DEF cut
  <2>6. c[i].src <= b BY <1>0, <2>4, <2>5
  <2>7. QED BY <2>1, <2>6 DEF ms
<1>8. CASE ~ (i <= a)
  <2>. DEFINE k == i - a
  <2>1. k \in 1..Len(u) /\ a + k = i BY <1>1, <1>4, <1>6, <1>8
  <2>. HIDE DEF k
  <2>2. k \in 1..Len(t) /\ t[k] = u[k] BY <1>1, <1>4, <1>5, <2>1
  <2>3. ms[i] = Message(l, t[k]) BY <1>1, <2>1, <2>2
  <2>4. ms[i].src = u[k] BY <2>2, <2>3 DEF Message
  <2>5. u[k] <= b BY <1>0, <1>4, <2>1
  <2>6. QED BY <2>4, <2>5 DEF ms
<1>9. QED BY <1>7, <1>8

(* The view after a checkpoint is its messages and the kept tail
   (commitCheckpoint). *)
LEMMA AfterCheckpoint ==
    ASSUME NEW l \in Seq(Entry), NEW e \in Entry, e.kind = "checkpoint", e.boundary \in 1..Len(l)
    PROVE  LET l2 == Append(l, e)
               id == Len(l) + 1
           IN  /\ Readable(l2, id) /\ Further(l2, l, 1) /\ l2[id] = e
               /\ Cutoff(l2, id) = e.boundary
               /\ Project(l2, id) = [cp |-> id, boundary |-> RebuiltBoundary(l, e.boundary, id),
                                     messages |-> e.messages \o MessagesAt(l, Bearing(l, e.boundary, Len(l)))]
<1>. DEFINE n == Len(l)
            l2 == Append(l, e)
            id == n + 1
            b == e.boundary
            t == Bearing(l, b, n)
            t2 == Bearing(l2, b, n + 1)
<1>1. /\ n \in Nat /\ l2 \in Seq(Entry) /\ Len(l2) = n + 1 /\ DOMAIN l2 = 1..(n + 1) /\ DOMAIN l = 1..n
      /\ l2[n + 1] = e /\ \A i \in 1..n : l2[i] = l[i]
  OBVIOUS
<1>2. e.boundary \in Nat /\ e.messages \in Seq(ViewMessage) BY EntryKinds
<1>. HIDE DEF n, l2
<1>3. Further(l2, l, 1) BY <1>1 DEF Further, n
<1>4. id # 0 /\ Cutoff(l2, id) = b /\ Covered(l2, id) = e.messages BY <1>1 DEF Cutoff, Covered
<1>5. b \in 1..n /\ b \in 0..(n + 1) BY <1>1 DEF n
<1>6. Readable(l2, id) BY <1>1, <1>2, <1>4, <1>5 DEF Readable
<1>7. Bears(l2, n, 0, 1)
  <2>1. ~ MessageBearing(e) BY DEF MessageBearing
  <2>2. QED BY <1>1, <2>1 DEF Bears
<1>8. t2 = t
  <2>1. Bearing(l2, b, Len(l2)) = Bearing(l, b, Len(l)) \o Run(Len(l), 0)
    <3>1. b \in Nat /\ b <= Len(l) BY <1>1, <1>2, <1>5 DEF n
    <3>2. Bears(l2, Len(l), 0, 1) BY <1>7 DEF n
    <3>3. QED BY <1>3, <3>1, <3>2, BearingGrows
  <2>2. Run(n, 0) = <<>> BY <1>1, RunGrows
  <2>3. t \in Seq(Nat) BY <1>1, <1>2, BearingKinds
  <2>4. t \o <<>> = t BY <2>3, ConcatEmptySeq
  <2>5. QED BY <1>1, <2>1, <2>2, <2>4 DEF n
<1>9. MessagesAt(l2, t) = MessagesAt(l, t)
  <2>1. DOMAIN t = 1..Len(t) /\ \A k \in 1..Len(t) : t[k] \in (b + 1)..n BY <1>1, <1>2, BearingKinds
  <2>2. \A k \in DOMAIN t : l2[t[k]] = l[t[k]]
    <3>. SUFFICES ASSUME NEW k \in DOMAIN t PROVE l2[t[k]] = l[t[k]] OBVIOUS
    <3>1. t[k] \in 1..n BY <1>1, <1>5, <2>1
    <3>2. QED BY <1>1, <3>1
  <2>3. \A k \in DOMAIN t : Message(l2, t[k]) = Message(l, t[k]) BY <2>2 DEF Message
  <2>4. QED BY <2>3 DEF MessagesAt
<1>10. Project(l2, id) = [cp |-> id, boundary |-> IF t = <<>> THEN id ELSE Last(t), messages |-> e.messages \o MessagesAt(l, t)]
  BY <1>1, <1>4, <1>8, <1>9 DEF Project
<1>11. RebuiltBoundary(l, b, id) = IF t = <<>> THEN id ELSE Last(t) BY DEF RebuiltBoundary, n
<1>12. QED BY <1>1, <1>3, <1>4, <1>6, <1>10, <1>11 DEF l2, n

(* The entry a valid plan commits is sound, and what follows it pairs. *)
LEMMA CheckpointSound ==
    ASSUME Readable(log, checkpoint), Own(log), checkpoint # 0 => Sound(log, checkpoint),
           NEW p, p.retain \subseteq DOMAIN View.messages, p.context \in {"no", "yes"}, p.boundary \in Nat,
           PairsComplete(View.messages), PlanValid(View, p),
           NEW e \in Entry, e.kind = "checkpoint", e.boundary = p.boundary, e.messages = Materialized(View.messages, p)
    PROVE  LET l2 == Append(log, e)
               id == Len(log) + 1
           IN  /\ p.boundary \in 1..Len(log) /\ Cutoff(log, checkpoint) <= p.boundary
               /\ Sound(l2, id) /\ PairsComplete(Project(l2, id).messages)
               /\ Project(l2, id).cp = id /\ Project(l2, id).boundary = RebuiltBoundary(log, p.boundary, id)
<1>. DEFINE n == Len(log)
            l2 == Append(log, e)
            id == n + 1
            b == p.boundary
            ms == View.messages
            cut == Cutoff(log, checkpoint)
<1>0. n \in Nat /\ log \in Seq(Entry) /\ DOMAIN log = 1..n /\ checkpoint \in 0..n /\ cut \in 0..n BY DEF Readable
<1>1. View.cp = checkpoint /\ ms \in Seq(ViewMessage) BY ViewKinds DEF View
<1>2. b \in 1..n /\ cut <= b
  <2>1. BoundaryCovered(View, b) BY DEF PlanValid
  <2>2. CASE b = checkpoint /\ checkpoint # 0
    <3>1. cut = log[checkpoint].boundary /\ log[checkpoint].boundary \in 1..(checkpoint - 1) BY <2>2 DEF Cutoff, Sound
    <3>2. QED BY <1>0, <2>2, <3>1
  <2>3. CASE b \in DOMAIN log /\ b > cut BY <1>0, <2>3
  <2>4. QED BY <1>1, <2>1, <2>2, <2>3 DEF BoundaryCovered
<1>3. Shows(log, ms, n) BY ViewShows DEF View
<1>4. Shows(log, Materialized(ms, p), b)
  <2>. DEFINE covered == Len(Covered(log, checkpoint)) + Len(Bearing(log, cut, b))
  <2>1. ItemsResolve(ms, p, covered) BY <1>1 DEF PlanValid, CoveredSource
  <2>2. \A i \in DOMAIN ms : i <= covered => ms[i].src <= b
    <3>1. b \in Nat /\ b <= n BY <1>0, <1>2
    <3>2. QED BY <1>2, <3>1, CoveredBelow DEF View
  <2>3. b \in Nat BY <1>2
  <2>. HIDE DEF covered, ms, b
  <2>4. p.retain \subseteq DOMAIN ms /\ PairsComplete(ms) BY DEF ms
  <2>5. QED BY <1>0, <1>1, <1>3, <2>1, <2>2, <2>3, <2>4, MaterializedShows DEF n
<1>5. /\ l2[id] = e /\ Further(l2, log, 1)
      /\ Project(l2, id) = [cp |-> id, boundary |-> RebuiltBoundary(log, b, id),
                            messages |-> e.messages \o MessagesAt(log, Bearing(log, b, Len(log)))]
  BY <1>0, <1>2, AfterCheckpoint
<1>6. \A i \in 1..b : l2[i] = log[i] BY <1>0, <1>2, <1>5 DEF Further
<1>. HIDE DEF l2, b, ms, n
<1>7. Sound(l2, id)
  <2>1. ~ CutUnsafe(l2, b)
    <3>1. ~ CutUnsafe(log, b) BY DEF PlanValid, b
    <3>2. b \in Nat BY <1>2
    <3>3. QED BY <1>6, <3>1, <3>2, CutKept
  <2>2. Shows(l2, Materialized(ms, p), b)
    <3>1. b \in Nat /\ b <= b BY <1>2
    <3>2. QED BY <1>4, <1>6, <3>1, ShowsKept
  <2>3. l2[id].boundary = b /\ l2[id].messages = Materialized(ms, p) BY <1>5 DEF b, ms
  <2>4. b \in 1..(id - 1) BY <1>0, <1>2
  <2>5. QED BY <2>1, <2>2, <2>3, <2>4 DEF Sound
<1>8. PairsComplete(Project(l2, id).messages)
  <2>1. Project(l2, id).messages = Materialized(ms, p) \o KeptTail(b) BY <1>5 DEF KeptTail, b, ms
  <2>2. PairsComplete(Materialized(ms, p) \o KeptTail(b)) BY DEF PlanValid, ms, b
  <2>3. QED BY <2>1, <2>2
<1>9. QED BY <1>2, <1>5, <1>7, <1>8 DEF l2, b, n

(* A checkpoint that is sound in a log is sound in a longer one. *)
LEMMA SoundKept ==
    ASSUME NEW l, NEW l2, NEW q, Further(l2, l, q), NEW i \in 1..Len(l), Sound(l, i)
    PROVE  Sound(l2, i)
<1>1. Len(l) \in Nat /\ l2[i] = l[i] BY DEF Further
<1>2. l[i].boundary \in 1..(i - 1) /\ l[i].boundary \in Nat BY <1>1 DEF Sound
<1>3. \A j \in 1..l[i].boundary : l2[j] = l[j]
  <2>1. \A j \in 1..l[i].boundary : j \in 1..Len(l) BY <1>1, <1>2
  <2>2. QED BY <2>1 DEF Further
<1>4. ~ CutUnsafe(l2, l[i].boundary) BY <1>2, <1>3, CutKept DEF Sound
<1>5. Shows(l2, l[i].messages, l[i].boundary)
  <2>1. l[i].boundary <= l[i].boundary BY <1>2
  <2>2. QED BY <1>2, <1>3, <2>1, ShowsKept DEF Sound
<1>6. QED BY <1>1, <1>2, <1>4, <1>5 DEF Sound

-----------------------------------------------------------------------------
(* Units: what lists of reports and a growing log add up to. *)

(* The known reports of a list are finitely many. *)
LEMMA KnownKinds ==
    ASSUME NEW s \in Seq(Report)
    PROVE  /\ IsFiniteSet(Known(s)) /\ Known(s) \subseteq 1..Len(s) /\ Units(s) \in Nat
<1>1. Known(s) \in SUBSET (1..Len(s)) BY DEF Known
<1>2. IsFiniteSet(1..Len(s)) BY FS_Interval
<1>3. IsFiniteSet(Known(s)) BY <1>1, <1>2, FS_Subset
<1>4. QED BY <1>1, <1>3, FS_CardinalityType DEF Units

(* No report, no unit. *)
LEMMA UnitsEmpty == Units(<<>>) = 0 /\ Known(<<>>) = {}
<1>1. Known(<<>>) = {} BY DEF Known
<1>2. QED BY <1>1, FS_EmptySet DEF Units

(* The units of two lists add up. *)
LEMMA UnitsJoin ==
    ASSUME NEW s \in Seq(Report), NEW t \in Seq(Report)
    PROVE  Units(s \o t) = Units(s) + Units(t)
<1>. DEFINE n == Len(s)
            T == {n + k : k \in Known(t)}
            f == [k \in Known(t) |-> n + k]
<1>0. n \in Nat /\ Len(t) \in Nat OBVIOUS
<1>1. /\ s \o t \in Seq(Report) /\ Len(s \o t) = n + Len(t) /\ DOMAIN (s \o t) = 1..(n + Len(t))
      /\ \A i \in 1..n : (s \o t)[i] = s[i]
      /\ \A k \in 1..Len(t) : (s \o t)[n + k] = t[k]
  BY Grown
<1>2. Known(s) \subseteq 1..n /\ Known(t) \subseteq 1..Len(t) /\ IsFiniteSet(Known(s)) /\ IsFiniteSet(Known(t)) BY KnownKinds
<1>. HIDE DEF n
<1>3. Known(s \o t) = Known(s) \cup T
  <2>1. ASSUME NEW i \in Known(s \o t) PROVE i \in Known(s) \cup T
    <3>1. i \in 1..(n + Len(t)) /\ (s \o t)[i] = "some" BY <1>1 DEF Known
    <3>2. CASE i <= n
      <4>1. i \in 1..n /\ s[i] = "some" BY <1>0, <1>1, <3>1, <3>2
      <4>2. i \in Known(s) BY <4>1 DEF Known, n
      <4>3. QED BY <4>2
    <3>3. CASE ~ (i <= n)
      <4>1. i - n \in 1..Len(t) /\ n + (i - n) = i BY <1>0, <3>1, <3>3
      <4>2. t[i - n] = "some" BY <1>1, <3>1, <4>1
      <4>3. i - n \in Known(t) BY <4>1, <4>2 DEF Known
      <4>4. QED BY <4>1, <4>3
    <3>4. QED BY <3>2, <3>3
  <2>2. ASSUME NEW i \in Known(s) PROVE i \in Known(s \o t)
    <3>1. i \in 1..n /\ s[i] = "some" BY <1>2 DEF Known
    <3>2. i \in 1..(n + Len(t)) BY <1>0, <3>1
    <3>3. QED BY <1>1, <3>1, <3>2 DEF Known
  <2>3. ASSUME NEW k \in Known(t) PROVE n + k \in Known(s \o t)
    <3>1. k \in 1..Len(t) /\ t[k] = "some" BY <1>2 DEF Known
    <3>2. n + k \in 1..(n + Len(t)) BY <1>0, <3>1
    <3>3. QED BY <1>1, <3>1, <3>2 DEF Known
  <2>4. QED BY <2>1, <2>2, <2>3
<1>4. IsFiniteSet(T) /\ Cardinality(T) = Cardinality(Known(t))
  <2>1. f \in [Known(t) -> T] OBVIOUS
  <2>2. \A a, b \in Known(t) : f[a] = f[b] => a = b
    <3>1. \A a \in Known(t) : a \in Nat BY <1>2
    <3>2. QED BY <1>0, <3>1
  <2>3. \A y \in T : \E a \in Known(t) : f[a] = y OBVIOUS
  <2>. HIDE DEF f, T
  <2>4. f \in Bijection(Known(t), T) BY <2>1, <2>2, <2>3 DEF Bijection, Injection, Surjection, IsInjective
  <2>5. ExistsBijection(Known(t), T) BY <2>4 DEF ExistsBijection
  <2>6. QED BY <1>2, <2>5, FS_Bijection
<1>5. Known(s) \cap T = {}
  <2>. SUFFICES ASSUME NEW k \in Known(t), n + k \in Known(s) PROVE FALSE OBVIOUS
  <2>1. k \in 1..Len(t) /\ n + k \in 1..n BY <1>2
  <2>2. QED BY <1>0, <2>1
<1>. HIDE DEF T
<1>6. Cardinality(Known(s) \cup T) = Cardinality(Known(s)) + Cardinality(T)
  <2>1. Cardinality(Known(s) \cup T) = Cardinality(Known(s)) + Cardinality(T) - Cardinality(Known(s) \cap T) BY <1>2, <1>4, FS_Union
  <2>2. Cardinality(Known(s) \cap T) = 0 BY <1>5, FS_EmptySet
  <2>3. Cardinality(Known(s)) \in Nat /\ Cardinality(T) \in Nat BY <1>2, <1>4, FS_CardinalityType
  <2>4. QED BY <2>1, <2>2, <2>3
<1>7. QED BY <1>3, <1>4, <1>6 DEF Units

(* A single report counts one unit or none. *)
LEMMA UnitsOne ==
    ASSUME NEW r \in Report
    PROVE  Units(<<r>>) = IF r = "some" THEN 1 ELSE 0
<1>1. Known(<<r>>) = IF r = "some" THEN {1} ELSE {} BY DEF Known
<1>2. Cardinality({1}) = 1 /\ Cardinality({}) = 0 BY FS_Singleton, FS_EmptySet
<1>3. QED BY <1>1, <1>2 DEF Units

(* The reports of a list of facts. *)
LEMMA FactReportsKind ==
    ASSUME NEW list \in Facts
    PROVE  FactReports(list) \in Seq(Report) /\ Len(FactReports(list)) = Len(list)
           /\ \A k \in 1..Len(list) : FactReports(list)[k] = list[k].report
<1>. DEFINE F == [id : Nat, report : Report]
<1>1. list \in Seq(F) /\ \A x \in F : x.report \in Report BY DEF Facts
<1>. HIDE DEF F
<1>2. DOMAIN list = 1..Len(list) /\ Len(list) \in Nat /\ \A k \in 1..Len(list) : list[k] \in F BY <1>1
<1>3. \A k \in 1..Len(list) : list[k].report \in Report BY <1>1, <1>2
<1>4. QED BY <1>2, <1>3 DEF FactReports

(* The units of two lists of facts add up. *)
LEMMA FactReportsJoin ==
    ASSUME NEW s \in Facts, NEW t \in Facts
    PROVE  s \o t \in Facts /\ Units(FactReports(s \o t)) = Units(FactReports(s)) + Units(FactReports(t))
<1>. DEFINE F == [id : Nat, report : Report]
<1>1. s \in Seq(F) /\ t \in Seq(F) BY DEF Facts
<1>. HIDE DEF F
<1>2. /\ s \o t \in Seq(F) /\ Len(s \o t) = Len(s) + Len(t) /\ Len(s) \in Nat /\ Len(t) \in Nat
      /\ (\A i \in 1..Len(s) : (s \o t)[i] = s[i])
      /\ \A k \in 1..Len(t) : (s \o t)[Len(s) + k] = t[k]
  BY <1>1, Grown
<1>3. s \o t \in Facts BY <1>2 DEF Facts, F
<1>. DEFINE a == FactReports(s)
            b == FactReports(t)
            c == FactReports(s \o t)
<1>4. /\ a \in Seq(Report) /\ Len(a) = Len(s) /\ \A k \in 1..Len(s) : a[k] = s[k].report
      /\ b \in Seq(Report) /\ Len(b) = Len(t) /\ \A k \in 1..Len(t) : b[k] = t[k].report
      /\ c \in Seq(Report) /\ Len(c) = Len(s) + Len(t) /\ \A k \in 1..(Len(s) + Len(t)) : c[k] = (s \o t)[k].report
  BY <1>2, <1>3, FactReportsKind
<1>. HIDE DEF a, b, c
<1>5. /\ a \o b \in Seq(Report) /\ Len(a \o b) = Len(a) + Len(b)
      /\ (\A i \in 1..Len(a) : (a \o b)[i] = a[i])
      /\ \A k \in 1..Len(b) : (a \o b)[Len(a) + k] = b[k]
  <2>1. a \in Seq(Report) /\ b \in Seq(Report) BY <1>4
  <2>2. QED BY <2>1, Grown
<1>6. \A i \in 1..Len(c) : c[i] = (a \o b)[i]
  <2>. SUFFICES ASSUME NEW i \in 1..Len(c) PROVE c[i] = (a \o b)[i] OBVIOUS
  <2>1. CASE i <= Len(s)
    <3>1. i \in 1..Len(s) /\ i \in 1..(Len(s) + Len(t)) BY <1>2, <1>4, <2>1
    <3>2. c[i] = s[i].report BY <1>2, <1>4, <3>1
    <3>3. (a \o b)[i] = a[i] /\ a[i] = s[i].report BY <1>4, <1>5, <3>1
    <3>4. QED BY <3>2, <3>3
  <2>2. CASE ~ (i <= Len(s))
    <3>. DEFINE k == i - Len(s)
    <3>1. k \in 1..Len(t) /\ Len(s) + k = i /\ i \in 1..(Len(s) + Len(t)) BY <1>2, <1>4, <2>2
    <3>. HIDE DEF k
    <3>2. c[i] = t[k].report BY <1>2, <1>4, <3>1
    <3>3. (a \o b)[Len(a) + k] = b[k] /\ b[k] = t[k].report BY <1>4, <1>5, <3>1
    <3>4. QED BY <1>4, <3>1, <3>2, <3>3
  <2>3. QED BY <2>1, <2>2
<1>7. c = a \o b
  <2>1. Len(c) = Len(a \o b) /\ c \in Seq(Report) /\ a \o b \in Seq(Report) BY <1>4, <1>5
  <2>2. QED BY <1>6, <2>1, SeqEqual
<1>8. Units(c) = Units(a) + Units(b) BY <1>4, <1>7, UnitsJoin
<1>9. QED BY <1>3, <1>8 DEF a, b, c

(* What each kind of entry reports (estimateGraphCosts). *)
LEMMA EntryReportsKind ==
    ASSUME NEW e \in Entry
    PROVE  /\ EntryReports(e) \in Seq(Report)
           /\ e.kind \in {"input", "signal", "tool"} => EntryReports(e) = <<>>
           /\ e.kind = "assistant" => EntryReports(e) = <<e.report>>
           /\ e.kind = "checkpoint" => EntryReports(e) = FactReports(e.facts)
           /\ e.kind = "settlement" => EntryReports(e) =
                 (IF e.model = "no" THEN <<>> ELSE <<e.report>>) \o FactReports(e.facts)
<1>1. /\ e.kind \in {"input", "signal", "assistant", "tool", "checkpoint", "settlement"}
      /\ e.kind = "assistant" => e.report \in Report
      /\ e.kind = "checkpoint" => e.facts \in Facts
      /\ e.kind = "settlement" => e.facts \in Facts /\ e.report \in Report
  BY EntryKinds
<1>2. <<>> \in Seq(Report) OBVIOUS
<1>3. CASE e.kind \in {"input", "signal", "tool"} BY <1>2, <1>3 DEF EntryReports
<1>4. CASE e.kind = "assistant" BY <1>1, <1>4 DEF EntryReports
<1>5. CASE e.kind = "checkpoint" BY <1>1, <1>5, FactReportsKind DEF EntryReports
<1>6. CASE e.kind = "settlement"
  <2>. DEFINE a == IF e.model = "no" THEN <<>> ELSE <<e.report>>
              b == FactReports(e.facts)
  <2>1. a \in Seq(Report) BY <1>1, <1>2, <1>6
  <2>2. b \in Seq(Report) BY <1>1, <1>6, FactReportsKind
  <2>3. EntryReports(e) = a \o b BY <1>6 DEF EntryReports
  <2>. HIDE DEF a, b
  <2>4. a \o b \in Seq(Report) BY <2>1, <2>2, ConcatProperties
  <2>5. QED BY <1>6, <2>3, <2>4 DEF a, b
<1>7. QED BY <1>1, <1>3, <1>4, <1>5, <1>6

(* The known reports of the entries at the positions E. *)
ReportsAt(l, E) == UNION {{i} \X Known(EntryReports(l[i])) : i \in E}

(* The known reports at finitely many positions are finitely many. *)
LEMMA ReportsFinite ==
    ASSUME NEW l \in Seq(Entry), NEW E \in SUBSET (1..Len(l))
    PROVE  IsFiniteSet(ReportsAt(l, E)) /\ Cardinality(ReportsAt(l, E)) \in Nat
<1>. DEFINE f == [i \in E |-> {i} \X Known(EntryReports(l[i]))]
            T == {f[i] : i \in E}
<1>1. IsFiniteSet(E)
  <2>1. IsFiniteSet(1..Len(l)) BY FS_Interval
  <2>2. QED BY <2>1, FS_Subset
<1>2. \A i \in E : IsFiniteSet(f[i])
  <2>. SUFFICES ASSUME NEW i \in E PROVE IsFiniteSet(f[i]) OBVIOUS
  <2>1. l[i] \in Entry OBVIOUS
  <2>2. IsFiniteSet(Known(EntryReports(l[i]))) BY <2>1, EntryReportsKind, KnownKinds
  <2>3. QED BY <2>2, FS_Singleton, FS_Product
<1>3. ReportsAt(l, E) = UNION T BY DEF ReportsAt
<1>4. f \in Surjection(E, T) BY DEF Surjection
<1>. HIDE DEF f
<1>5. IsFiniteSet(T) BY <1>1, <1>4, FS_Surjection
<1>6. \A x \in T : IsFiniteSet(x) BY <1>2
<1>. HIDE DEF T
<1>7. IsFiniteSet(UNION T) BY <1>5, <1>6, FS_UNION
<1>8. QED BY <1>3, <1>7, FS_CardinalityType

(* Of the further entries only the one at n + x has reports. *)
LEMMA ReportsGrow ==
    ASSUME NEW l \in Seq(Entry), NEW l2 \in Seq(Entry), NEW q, Further(l2, l, q), NEW x \in 1..q,
           \A k \in 1..q : k # x => EntryReports(l2[Len(l) + k]) = <<>>,
           NEW E \in SUBSET (1..Len(l)), NEW E2 \in SUBSET (1..Len(l2)), E2 \cap (1..Len(l)) = E
    PROVE  Cardinality(ReportsAt(l2, E2)) = Cardinality(ReportsAt(l, E)) +
               (IF Len(l) + x \in E2 THEN Units(EntryReports(l2[Len(l) + x])) ELSE 0)
<1>. DEFINE n == Len(l)
            K == Known(EntryReports(l2[n + x]))
            A == ReportsAt(l, E)
            B == IF n + x \in E2 THEN {n + x} \X K ELSE {}
<1>0. n \in Nat /\ q \in Nat /\ Len(l2) = n + q /\ \A i \in 1..n : l2[i] = l[i] BY DEF Further
<1>1. l2[n + x] \in Entry BY <1>0
<1>2. IsFiniteSet(K) BY <1>1, EntryReportsKind, KnownKinds
<1>3. IsFiniteSet(A) /\ Cardinality(A) \in Nat BY ReportsFinite
<1>4. IsFiniteSet(B) /\ Cardinality(B) = IF n + x \in E2 THEN Units(EntryReports(l2[n + x])) ELSE 0
  <2>1. IsFiniteSet({n + x} \X K) /\ Cardinality({n + x} \X K) = Cardinality(K)
    <3>1. IsFiniteSet({n + x}) /\ Cardinality({n + x}) = 1 BY FS_Singleton
    <3>2. Cardinality({n + x} \X K) = 1 * Cardinality(K) /\ IsFiniteSet({n + x} \X K) BY <1>2, <3>1, FS_Product
    <3>3. Cardinality(K) \in Nat BY <1>2, FS_CardinalityType
    <3>4. QED BY <3>2, <3>3
  <2>2. QED BY <2>1, FS_EmptySet DEF Units
<1>5. ReportsAt(l2, E2) = A \cup B
  <2>1. ASSUME NEW z \in ReportsAt(l2, E2) PROVE z \in A \cup B
    <3>1. PICK i \in E2 : z \in {i} \X Known(EntryReports(l2[i])) BY DEF ReportsAt
    <3>2. CASE i \in 1..n
      <4>1. i \in E /\ l2[i] = l[i] BY <1>0, <3>2
      <4>2. QED BY <3>1, <4>1 DEF ReportsAt
    <3>3. CASE i \notin 1..n
      <4>. DEFINE k == i - n
      <4>1. k \in 1..q /\ n + k = i BY <1>0, <3>3
      <4>. HIDE DEF k
      <4>2. CASE k # x
        <5>1. EntryReports(l2[i]) = <<>> BY <4>1, <4>2
        <5>2. Known(EntryReports(l2[i])) = {} BY <5>1, UnitsEmpty
        <5>3. QED BY <3>1, <5>2
      <4>3. CASE k = x BY <3>1, <4>1, <4>3
      <4>4. QED BY <4>2, <4>3
    <3>4. QED BY <3>2, <3>3
  <2>2. ASSUME NEW z \in A PROVE z \in ReportsAt(l2, E2)
    <3>1. PICK i \in E : z \in {i} \X Known(EntryReports(l[i])) BY DEF ReportsAt
    <3>2. i \in E2 /\ l2[i] = l[i] BY <1>0
    <3>3. QED BY <3>1, <3>2 DEF ReportsAt
  <2>3. ASSUME NEW z \in B PROVE z \in ReportsAt(l2, E2) BY DEF ReportsAt
  <2>4. QED BY <2>1, <2>2, <2>3
<1>6. A \cap B = {}
  <2>. SUFFICES ASSUME NEW z \in A, z \in B PROVE FALSE OBVIOUS
  <2>1. PICK i \in E : z \in {i} \X Known(EntryReports(l[i])) BY DEF ReportsAt
  <2>2. z \in {n + x} \X K OBVIOUS
  <2>3. z[1] = i /\ z[1] = n + x BY <2>1, <2>2
  <2>4. i \in 1..n BY <1>0
  <2>5. QED BY <1>0, <2>3, <2>4
<1>7. Cardinality(B) \in Nat BY <1>4, FS_CardinalityType
<1>8. Cardinality(ReportsAt(l2, E2)) = Cardinality(A) + Cardinality(B)
  <2>. HIDE DEF A, B
  <2>1. Cardinality(A \cup B) = Cardinality(A) + Cardinality(B) - Cardinality(A \cap B) BY <1>3, <1>4, FS_Union
  <2>2. Cardinality(A \cap B) = 0 BY <1>6, FS_EmptySet
  <2>3. QED BY <1>3, <1>5, <1>7, <2>1, <2>2
<1>. HIDE DEF A, B
<1>9. QED BY <1>4, <1>8 DEF A, n

EveryReport(l) == ReportsAt(l, DOMAIN l)

(* An Operation's usage counts the known reports at its positions. *)
LEMMA LoggedIs ==
    ASSUME NEW l, NEW o PROVE LoggedUsage(l, o) = Cardinality(ReportsAt(l, EntriesOf(l, o)))
BY DEF LoggedUsage, OpReports, ReportsAt

(* An Operation's logged usage is a number. *)
LEMMA LoggedKind ==
    ASSUME NEW l \in Seq(Entry), NEW o PROVE LoggedUsage(l, o) \in Nat
<1>1. EntriesOf(l, o) \in SUBSET (1..Len(l)) BY DEF EntriesOf
<1>2. QED BY <1>1, ReportsFinite, LoggedIs

(* The log's usage is a number. *)
LEMMA EveryKind ==
    ASSUME NEW l \in Seq(Entry) PROVE Cardinality(EveryReport(l)) \in Nat
<1>1. DOMAIN l \in SUBSET (1..Len(l)) OBVIOUS
<1>2. QED BY <1>1, ReportsFinite DEF EveryReport

(* Of the q entries after n, the x-th alone accounts for work. *)
Accounts(l2, n, q, x) ==
    x \in 1..q /\ \A k \in 1..q : k # x => EntryReports(l2[n + k]) = <<>> /\ Carries(l2[n + k]) = <<>>

(* A longer log adds the units of the one new entry that accounts for work. *)
LEMMA LoggedGrows ==
    ASSUME NEW l \in Seq(Entry), NEW l2 \in Seq(Entry), NEW q, Further(l2, l, q), NEW x, Accounts(l2, Len(l), q, x)
    PROVE  /\ Cardinality(EveryReport(l2)) = Cardinality(EveryReport(l)) + Units(EntryReports(l2[Len(l) + x]))
           /\ \A o : LoggedUsage(l2, o) = LoggedUsage(l, o) +
                        (IF l2[Len(l) + x].op = o THEN Units(EntryReports(l2[Len(l) + x])) ELSE 0)
<1>. DEFINE n == Len(l)
<1>0. /\ n \in Nat /\ q \in Nat /\ Len(l2) = n + q /\ \A i \in 1..n : l2[i] = l[i]
      /\ DOMAIN l = 1..n /\ DOMAIN l2 = 1..(n + q)
  BY DEF Further
<1>h. x \in 1..q /\ \A k \in 1..q : k # x => EntryReports(l2[Len(l) + k]) = <<>> BY DEF Accounts
<1>1. n + x \in 1..(n + q) BY <1>0, <1>h
<1>2. Cardinality(EveryReport(l2)) = Cardinality(EveryReport(l)) + Units(EntryReports(l2[n + x]))
  <2>1. DOMAIN l \in SUBSET (1..Len(l)) /\ DOMAIN l2 \in SUBSET (1..Len(l2)) /\ DOMAIN l2 \cap (1..Len(l)) = DOMAIN l BY <1>0
  <2>2. Cardinality(ReportsAt(l2, DOMAIN l2)) = Cardinality(ReportsAt(l, DOMAIN l)) +
               (IF Len(l) + x \in DOMAIN l2 THEN Units(EntryReports(l2[Len(l) + x])) ELSE 0)
    BY <1>h, <2>1, ReportsGrow
  <2>3. QED BY <1>0, <1>1, <2>2 DEF EveryReport
<1>3. ASSUME NEW o
      PROVE  LoggedUsage(l2, o) = LoggedUsage(l, o) + (IF l2[n + x].op = o THEN Units(EntryReports(l2[n + x])) ELSE 0)
  <2>. DEFINE E == EntriesOf(l, o)
              E2 == EntriesOf(l2, o)
  <2>1. E \in SUBSET (1..Len(l)) /\ E2 \in SUBSET (1..Len(l2)) /\ E2 \cap (1..Len(l)) = E BY <1>0 DEF EntriesOf
  <2>2. n + x \in E2 <=> l2[n + x].op = o BY <1>0, <1>1 DEF EntriesOf
  <2>. HIDE DEF E, E2
  <2>3. Cardinality(ReportsAt(l2, E2)) = Cardinality(ReportsAt(l, E)) +
               (IF Len(l) + x \in E2 THEN Units(EntryReports(l2[Len(l) + x])) ELSE 0)
    BY <1>h, <2>1, ReportsGrow
  <2>4. QED BY <2>2, <2>3, LoggedIs DEF E, E2
<1>4. QED BY <1>2, <1>3

(* The reports of all Operations are the reports of the log. *)
LEMMA EveryReportIs ==
    ASSUME NEW l \in Seq(Entry), NEW D, \A i \in DOMAIN l : l[i].op \in D
    PROVE  UNION {OpReports(l, o) : o \in D} = EveryReport(l)
<1>1. ASSUME NEW z \in EveryReport(l) PROVE \E o \in D : z \in OpReports(l, o)
  <2>1. PICK i \in DOMAIN l : z \in {i} \X Known(EntryReports(l[i])) BY DEF EveryReport, ReportsAt
  <2>2. z \in OpReports(l, l[i].op) BY <2>1 DEF OpReports, EntriesOf
  <2>3. QED BY <2>2
<1>2. ASSUME NEW o \in D, NEW z \in OpReports(l, o) PROVE z \in EveryReport(l)
  <2>1. PICK i \in EntriesOf(l, o) : z \in {i} \X Known(EntryReports(l[i])) BY DEF OpReports
  <2>2. i \in DOMAIN l BY DEF EntriesOf
  <2>3. QED BY <2>1, <2>2 DEF EveryReport, ReportsAt
<1>3. QED BY <1>1, <1>2

(* An Operation without entries has no usage. *)
LEMMA LoggedNone ==
    ASSUME NEW l \in Seq(Entry), NEW o, \A i \in DOMAIN l : l[i].op # o PROVE LoggedUsage(l, o) = 0
<1>1. EntriesOf(l, o) = {} BY DEF EntriesOf
<1>2. ReportsAt(l, {}) = {} BY DEF ReportsAt
<1>3. QED BY <1>1, <1>2, LoggedIs, FS_EmptySet
-----------------------------------------------------------------------------
(* Facts: where a growing log notes them. *)

(* A fact is committed once, said of the whole log. *)
LEMMA NotedSame == FactsOnce <=> Once(log)
<1>1. Recorded = Noted(log)
  <2>1. ASSUME NEW z \in Recorded PROVE z \in Noted(log)
    <3>1. PICK i \in DOMAIN log : log[i].kind \in {"checkpoint", "settlement"} /\ z \in {i} \X DOMAIN log[i].facts
      BY DEF Recorded
    <3>2. Carries(log[i]) = log[i].facts BY <3>1 DEF Carries
    <3>3. QED BY <3>1, <3>2 DEF Noted
  <2>2. ASSUME NEW z \in Noted(log) PROVE z \in Recorded
    <3>1. PICK i \in DOMAIN log : z \in {i} \X DOMAIN Carries(log[i]) BY DEF Noted
    <3>2. log[i].kind \in {"checkpoint", "settlement"}
      <4>. SUFFICES ASSUME log[i].kind \notin {"checkpoint", "settlement"} PROVE FALSE OBVIOUS
      <4>1. Carries(log[i]) = <<>> BY DEF Carries
      <4>2. DOMAIN <<>> = {} OBVIOUS
      <4>3. QED BY <3>1, <4>1, <4>2
    <3>3. Carries(log[i]) = log[i].facts BY <3>2 DEF Carries
    <3>4. QED BY <3>1, <3>2, <3>3 DEF Recorded
  <2>3. QED BY <2>1, <2>2
<1>2. \A a \in Recorded : Carries(log[a[1]]) = log[a[1]].facts
  <2>. SUFFICES ASSUME NEW z \in Recorded PROVE Carries(log[z[1]]) = log[z[1]].facts OBVIOUS
  <2>1. PICK i \in DOMAIN log : log[i].kind \in {"checkpoint", "settlement"} /\ z \in {i} \X DOMAIN log[i].facts
    BY DEF Recorded
  <2>2. z[1] = i BY <2>1
  <2>3. QED BY <2>1, <2>2 DEF Carries
<1>3. QED BY <1>1, <1>2 DEF FactsOnce, Once

(* A longer log notes the facts of its one new entry that carries some. *)
LEMMA NotedGrow ==
    ASSUME NEW l, NEW l2, NEW q, Further(l2, l, q), NEW x, Accounts(l2, Len(l), q, x)
    PROVE  /\ NotedIds(l2) = NotedIds(l) \cup FactIds(Carries(l2[Len(l) + x]))
           /\ Once(l) /\ Distinct(Carries(l2[Len(l) + x])) /\ NotedIds(l) \cap FactIds(Carries(l2[Len(l) + x])) = {}
                 => Once(l2)
<1>. DEFINE n == Len(l)
            f == Carries(l2[n + x])
            new == {n + x} \X DOMAIN f
<1>0. n \in Nat /\ q \in Nat /\ DOMAIN l = 1..n /\ DOMAIN l2 = 1..(n + q) /\ \A i \in 1..n : l2[i] = l[i] BY DEF Further
<1>h. x \in 1..q /\ \A k \in 1..q : k # x => Carries(l2[n + k]) = <<>> BY DEF Accounts
<1>1. n + x \in DOMAIN l2 BY <1>0, <1>h
<1>2. \A z \in Noted(l2) : z \in Noted(l) \/ z \in new
  <2>. SUFFICES ASSUME NEW z \in Noted(l2) PROVE z \in Noted(l) \/ z \in new OBVIOUS
  <2>1. PICK i \in 1..(n + q) : z \in {i} \X DOMAIN Carries(l2[i]) BY <1>0 DEF Noted
  <2>2. CASE i <= n
    <3>1. i \in DOMAIN l /\ l2[i] = l[i] BY <1>0, <2>2
    <3>2. z \in Noted(l) BY <2>1, <3>1 DEF Noted
    <3>3. QED BY <3>2
  <2>3. CASE ~ (i <= n)
    <3>. DEFINE k == i - n
    <3>1. k \in 1..q /\ n + k = i BY <1>0, <2>3
    <3>. HIDE DEF k
    <3>2. k = x
      <4>. SUFFICES ASSUME k # x PROVE FALSE OBVIOUS
      <4>1. Carries(l2[i]) = <<>> BY <1>h, <3>1
      <4>2. DOMAIN <<>> = {} OBVIOUS
      <4>3. QED BY <2>1, <4>1, <4>2
    <3>3. z \in new BY <2>1, <3>1, <3>2
    <3>4. QED BY <3>3
  <2>4. QED BY <2>2, <2>3
<1>3. ASSUME NEW z \in Noted(l)
      PROVE  z \in Noted(l2) /\ z[1] \in 1..n /\ l2[z[1]] = l[z[1]] /\ Carries(l2[z[1]])[z[2]].id \in NotedIds(l)
  <2>1. PICK i \in DOMAIN l : z \in {i} \X DOMAIN Carries(l[i]) BY DEF Noted
  <2>2. z[1] = i /\ i \in 1..n /\ l2[i] = l[i] /\ i \in DOMAIN l2 BY <1>0, <2>1
  <2>3. z \in Noted(l2) BY <2>1, <2>2 DEF Noted
  <2>4. Carries(l2[z[1]])[z[2]].id \in NotedIds(l) BY <2>2 DEF NotedIds
  <2>5. QED BY <2>2, <2>3, <2>4
<1>4. ASSUME NEW z \in new
      PROVE  z \in Noted(l2) /\ z[1] = n + x /\ z[2] \in DOMAIN f /\ Carries(l2[z[1]])[z[2]].id = f[z[2]].id
             /\ z = <<n + x, z[2]>>
  <2>1. z[1] = n + x /\ z[2] \in DOMAIN f /\ z = <<n + x, z[2]>> OBVIOUS
  <2>2. z \in Noted(l2) BY <1>1 DEF Noted
  <2>3. QED BY <2>1, <2>2
<1>5. \A z \in new : Carries(l2[z[1]])[z[2]].id \in FactIds(f) BY <1>4 DEF FactIds
<1>6. \A k \in DOMAIN f : <<n + x, k>> \in new OBVIOUS
<1>. HIDE DEF new, f, n
<1>7. NotedIds(l2) = NotedIds(l) \cup FactIds(f)
  <2>1. ASSUME NEW y \in NotedIds(l2) PROVE y \in NotedIds(l) \cup FactIds(f)
    <3>1. PICK z \in Noted(l2) : y = Carries(l2[z[1]])[z[2]].id BY DEF NotedIds
    <3>2. QED BY <1>2, <1>3, <1>5, <3>1
  <2>2. ASSUME NEW y \in NotedIds(l) PROVE y \in NotedIds(l2)
    <3>1. PICK z \in Noted(l) : y = Carries(l[z[1]])[z[2]].id BY DEF NotedIds
    <3>2. QED BY <1>3, <3>1 DEF NotedIds
  <2>3. ASSUME NEW y \in FactIds(f) PROVE y \in NotedIds(l2)
    <3>1. PICK k \in DOMAIN f : y = f[k].id BY DEF FactIds
    <3>2. <<n + x, k>> \in new BY <1>6
    <3>. DEFINE z == <<n + x, k>>
    <3>3. z \in Noted(l2) /\ z[2] = k /\ Carries(l2[z[1]])[z[2]].id = f[z[2]].id BY <1>4, <3>2
    <3>. HIDE DEF z
    <3>4. QED BY <3>1, <3>3 DEF NotedIds
  <2>4. QED BY <2>1, <2>2, <2>3
<1>8. ASSUME Once(l), Distinct(f), NotedIds(l) \cap FactIds(f) = {} PROVE Once(l2)
  <2>. SUFFICES ASSUME NEW y \in Noted(l2), NEW z \in Noted(l2), Carries(l2[y[1]])[y[2]].id = Carries(l2[z[1]])[z[2]].id
                PROVE  y = z
    BY DEF Once
  <2>1. CASE y \in Noted(l) /\ z \in Noted(l)
    <3>1. Carries(l[y[1]])[y[2]].id = Carries(l[z[1]])[z[2]].id BY <1>3, <2>1
    <3>2. QED BY <1>8, <2>1, <3>1 DEF Once
  <2>2. CASE y \in Noted(l) /\ z \in new BY <1>3, <1>5, <1>8, <2>2
  <2>3. CASE y \in new /\ z \in Noted(l) BY <1>3, <1>5, <1>8, <2>3
  <2>4. CASE y \in new /\ z \in new
    <3>1. f[y[2]].id = f[z[2]].id /\ y[2] \in DOMAIN f /\ z[2] \in DOMAIN f BY <1>4, <2>4
    <3>2. y[2] = z[2] BY <1>8, <3>1 DEF Distinct
    <3>3. QED BY <1>4, <2>4, <3>2
  <2>5. QED BY <1>2, <2>1, <2>2, <2>3, <2>4
<1>9. QED BY <1>7, <1>8 DEF f, n

-----------------------------------------------------------------------------
(* Lists of facts. *)

(* The producers of two lists of facts. *)
LEMMA FactIdsJoin ==
    ASSUME NEW s \in Facts, NEW t \in Facts
    PROVE  /\ FactIds(s \o t) = FactIds(s) \cup FactIds(t)
           /\ Distinct(s) /\ Distinct(t) /\ FactIds(s) \cap FactIds(t) = {} => Distinct(s \o t)
<1>. DEFINE n == Len(s)
            u == s \o t
<1>1. /\ n \in Nat /\ Len(t) \in Nat /\ DOMAIN s = 1..n /\ DOMAIN t = 1..Len(t) /\ DOMAIN u = 1..(n + Len(t))
      /\ (\A i \in 1..n : u[i] = s[i]) /\ \A k \in 1..Len(t) : u[n + k] = t[k]
  <2>1. s \in Seq([id : Nat, report : Report]) /\ t \in Seq([id : Nat, report : Report]) BY DEF Facts
  <2>2. DOMAIN t = 1..Len(t) BY <2>1
  <2>3. QED BY <2>1, <2>2, Grown
<1>. HIDE DEF u, n
<1>2. \A i \in DOMAIN u : (i \in 1..n /\ u[i] = s[i]) \/ \E k \in 1..Len(t) : i = n + k /\ u[i] = t[k]
  <2>. SUFFICES ASSUME NEW i \in DOMAIN u, i \notin 1..n PROVE \E k \in 1..Len(t) : i = n + k /\ u[i] = t[k] BY <1>1
  <2>1. i - n \in 1..Len(t) /\ n + (i - n) = i BY <1>1
  <2>2. QED BY <1>1, <2>1
<1>3. \A k \in 1..Len(t) : n + k \in DOMAIN u BY <1>1
<1>4. \A i \in 1..n : i \in DOMAIN u BY <1>1
<1>5. FactIds(u) = FactIds(s) \cup FactIds(t)
  <2>1. ASSUME NEW i \in DOMAIN u PROVE u[i].id \in FactIds(s) \cup FactIds(t) BY <1>1, <1>2 DEF FactIds
  <2>2. ASSUME NEW i \in DOMAIN s PROVE s[i].id \in FactIds(u) BY <1>1, <1>4 DEF FactIds
  <2>3. ASSUME NEW k \in DOMAIN t PROVE t[k].id \in FactIds(u)
    <3>1. n + k \in DOMAIN u /\ u[n + k] = t[k] BY <1>1, <1>3
    <3>2. QED BY <3>1 DEF FactIds
  <2>4. QED BY <2>1, <2>2, <2>3 DEF FactIds
<1>6. ASSUME Distinct(s), Distinct(t), FactIds(s) \cap FactIds(t) = {} PROVE Distinct(u)
  <2>. SUFFICES ASSUME NEW i \in DOMAIN u, NEW j \in DOMAIN u, u[i].id = u[j].id PROVE i = j BY DEF Distinct
  <2>1. \A a \in 1..n, b \in 1..Len(t) : s[a].id # t[b].id
    <3>. SUFFICES ASSUME NEW a \in 1..n, NEW b \in 1..Len(t) PROVE s[a].id # t[b].id OBVIOUS
    <3>1. s[a].id \in FactIds(s) /\ t[b].id \in FactIds(t) BY <1>1 DEF FactIds
    <3>2. QED BY <1>6, <3>1
  <2>2. CASE i \in 1..n /\ j \in 1..n BY <1>1, <1>6, <2>2 DEF Distinct
  <2>3. CASE i \in 1..n /\ j \notin 1..n BY <1>1, <1>2, <2>1, <2>3
  <2>4. CASE i \notin 1..n /\ j \in 1..n BY <1>1, <1>2, <2>1, <2>4
  <2>5. CASE i \notin 1..n /\ j \notin 1..n
    <3>1. PICK a \in 1..Len(t) : i = n + a /\ u[i] = t[a] BY <1>2, <2>5
    <3>2. PICK b \in 1..Len(t) : j = n + b /\ u[j] = t[b] BY <1>2, <2>5
    <3>3. a = b BY <1>1, <1>6, <3>1, <3>2 DEF Distinct
    <3>4. QED BY <3>1, <3>2, <3>3
  <2>6. QED BY <2>2, <2>3, <2>4, <2>5
<1>7. QED BY <1>5, <1>6 DEF u

(* No facts name no producer and count no unit. *)
LEMMA NoFactsList == FactIds(<<>>) = {} /\ Distinct(<<>>) /\ <<>> \in Facts /\ Units(FactReports(<<>>)) = 0
<1>1. FactIds(<<>>) = {} BY DEF FactIds
<1>2. Distinct(<<>>) BY DEF Distinct
<1>3. <<>> \in Facts BY DEF Facts
<1>4. FactReports(<<>>) = <<>>
  <2>1. FactReports(<<>>) \in Seq(Report) /\ Len(FactReports(<<>>)) = 0 BY <1>3, FactReportsKind
  <2>2. QED BY <2>1, EmptySeq
<1>5. QED BY <1>1, <1>2, <1>3, <1>4, UnitsEmpty

(* A single fact names one producer. *)
LEMMA OneFact ==
    ASSUME NEW i \in Nat, NEW r \in Report
    PROVE  LET s == <<[id |-> i, report |-> r]>>
           IN  s \in Facts /\ FactIds(s) = {i} /\ Distinct(s) /\ Units(FactReports(s)) = Units(<<r>>)
<1>. DEFINE x == [id |-> i, report |-> r]
            s == <<x>>
<1>1. x.id = i /\ x.report = r /\ x \in [id : Nat, report : Report] OBVIOUS
<1>. HIDE DEF x
<1>2. s \in Facts /\ DOMAIN s = {1} /\ s[1] = x /\ Len(s) = 1 BY <1>1 DEF Facts
<1>3. FactIds(s) = {i} /\ Distinct(s) BY <1>1, <1>2 DEF FactIds, Distinct
<1>4. FactReports(s) = <<r>>
  <2>1. FactReports(s) = [k \in {1} |-> r] BY <1>1, <1>2 DEF FactReports
  <2>2. [k \in {1} |-> r] = <<r>> BY {1} = 1..1
  <2>3. QED BY <2>1, <2>2
<1>5. QED BY <1>2, <1>3, <1>4 DEF x

Procedure == [list : Facts, source : Nat, consumed : {"no", "yes"}]

(* A retained input adds a producer that has not reported (retainInput). *)
LEMMA RetainedInput ==
    ASSUME NEW f \in Procedure, NEW id \in Nat
    PROVE  LET g == RetainInput(f, id).list
           IN  /\ RetainInput(f, id) \in Procedure /\ RetainInput(f, id).source = f.source
               /\ g \in Facts /\ FactIds(g) = FactIds(f.list) \cup {id}
               /\ Distinct(f.list) /\ id \notin FactIds(f.list) => Distinct(g)
               /\ Units(FactReports(g)) = Units(FactReports(f.list))
               /\ g # <<>> /\ g[Len(g)].report = "absent"
<1>. DEFINE s == f.list
            t == <<[id |-> id, report |-> "absent"]>>
            g == Append(s, [id |-> id, report |-> "absent"])
<1>0. "absent" \in Report BY DEF Report
<1>1. t \in Facts /\ FactIds(t) = {id} /\ Distinct(t) /\ Units(FactReports(t)) = Units(<<"absent">>) BY <1>0, OneFact
<1>2. Units(<<"absent">>) = 0 BY <1>0, UnitsOne
<1>3. s \in Facts BY DEF Procedure
<1>4. g = s \o t /\ g # <<>> /\ g[Len(g)] = [id |-> id, report |-> "absent"]
  <2>1. s \in Seq([id : Nat, report : Report]) /\ [id |-> id, report |-> "absent"] \in [id : Nat, report : Report]
    BY <1>0, <1>3 DEF Facts
  <2>2. g = s \o t BY <2>1, AppendIsConcat
  <2>3. Len(g) = Len(s) + 1 /\ g[Len(s) + 1] = [id |-> id, report |-> "absent"] /\ Len(s) \in Nat BY <2>1
  <2>4. g # <<>>
    <3>1. Len(<<>>) = 0 OBVIOUS
    <3>2. Len(g) # 0 BY <2>3
    <3>. HIDE DEF g
    <3>3. QED BY <3>1, <3>2
  <2>5. QED BY <2>2, <2>3, <2>4
<1>5. RetainInput(f, id).list = g
  <2>1. RetainInput(f, id) = [f EXCEPT !.list = g] BY DEF RetainInput
  <2>2. QED BY <2>1 DEF Procedure
<1>. HIDE DEF g, s, t
<1>6. s \o t \in Facts /\ Units(FactReports(s \o t)) = Units(FactReports(s)) + Units(FactReports(t)) BY <1>1, <1>3, FactReportsJoin
<1>7. FactIds(s \o t) = FactIds(s) \cup {id} /\ (Distinct(s) /\ id \notin FactIds(s) => Distinct(s \o t))
  <2>1. /\ FactIds(s \o t) = FactIds(s) \cup FactIds(t)
        /\ Distinct(s) /\ Distinct(t) /\ FactIds(s) \cap FactIds(t) = {} => Distinct(s \o t)
    BY <1>1, <1>3, FactIdsJoin
  <2>2. QED BY <1>1, <2>1
<1>8. Units(FactReports(s)) \in Nat BY <1>3, FactReportsKind, KnownKinds
<1>9. g[Len(g)].report = "absent" BY <1>4
<1>10. RetainInput(f, id) \in Procedure /\ RetainInput(f, id).source = f.source
  <2>1. RetainInput(f, id) = [f EXCEPT !.list = g] BY DEF RetainInput, g, s
  <2>2. g \in Facts BY <1>4, <1>6
  <2>3. QED BY <2>1, <2>2 DEF Procedure
<1>11. QED BY <1>1, <1>2, <1>4, <1>5, <1>6, <1>7, <1>8, <1>9, <1>10 DEF s

(* A retained report lands on the newest producer (retainUsage). *)
LEMMA RetainedUsage ==
    ASSUME NEW f \in Procedure, f.list # <<>>, f.list[Len(f.list)].report = "absent", NEW r \in Report
    PROVE  LET g == RetainUsage(f, r).list
           IN  /\ RetainUsage(f, r) \in Procedure /\ RetainUsage(f, r).source = f.source
               /\ g \in Facts /\ FactIds(g) = FactIds(f.list) /\ (Distinct(f.list) => Distinct(g))
               /\ Units(FactReports(g)) = Units(FactReports(f.list)) + Units(<<r>>)
               /\ g # <<>>
<1>. DEFINE s == f.list
            n == Len(s)
            F == [id : Nat, report : Report]
            g == [s EXCEPT ![n].report = r]
<1>1. s \in Facts /\ s \in Seq(F) BY DEF Procedure, Facts
<1>2. n \in Nat /\ n # 0 /\ n \in 1..n /\ DOMAIN s = 1..n /\ \A k \in 1..n : s[k] \in F
  <2>1. n \in Nat /\ DOMAIN s = 1..n /\ n # 0 BY <1>1, EmptySeq
  <2>. HIDE DEF F
  <2>2. \A k \in 1..n : s[k] \in F BY <1>1, <2>1
  <2>3. QED BY <2>1, <2>2
<1>3. /\ DOMAIN g = 1..n
      /\ \A k \in 1..n : g[k] = IF k = n THEN [s[n] EXCEPT !.report = r] ELSE s[k]
  BY <1>2
<1>4. \A k \in 1..n : g[k] \in F /\ g[k].id = s[k].id /\ g[k].report = IF k = n THEN r ELSE s[k].report
  <2>. SUFFICES ASSUME NEW k \in 1..n
                PROVE  g[k] \in F /\ g[k].id = s[k].id /\ g[k].report = IF k = n THEN r ELSE s[k].report
    OBVIOUS
  <2>1. s[k] \in F /\ g[k] = IF k = n THEN [s[n] EXCEPT !.report = r] ELSE s[k] BY <1>2, <1>3
  <2>. HIDE DEF g
  <2>2. QED BY <2>1
<1>5. RetainUsage(f, r) = [f EXCEPT !.list = g]
  BY DEF RetainUsage
<1>6. g \in Seq(F) /\ Len(g) = n
  <2>1. g = [k \in 1..n |-> g[k]] BY <1>2
  <2>. HIDE DEF g, F
  <2>2. QED BY <1>2, <1>4, <2>1
<1>7. g \in Facts BY <1>6 DEF Facts
<1>8. s[n].report = "absent" OBVIOUS
<1>9. RetainUsage(f, r) \in Procedure /\ RetainUsage(f, r).source = f.source /\ RetainUsage(f, r).list = g
  <2>. HIDE DEF g
  <2>1. QED BY <1>5, <1>7 DEF Procedure
<1>. HIDE DEF g, n, F
<1>10. g # <<>>
  <2>1. Len(<<>>) = 0 OBVIOUS
  <2>2. QED BY <1>2, <1>6, <2>1
<1>11. FactIds(g) = FactIds(s) /\ (Distinct(s) => Distinct(g)) BY <1>2, <1>3, <1>4 DEF FactIds, Distinct
<1>. DEFINE a == FactReports(s)
            b == FactReports(g)
<1>12. /\ a \in Seq(Report) /\ Len(a) = n /\ \A k \in 1..n : a[k] = s[k].report
       /\ b \in Seq(Report) /\ Len(b) = n /\ \A k \in 1..n : b[k] = g[k].report
  BY <1>1, <1>6, <1>7, FactReportsKind DEF n
<1>. HIDE DEF a, b
<1>13. Known(b) = IF r = "some" THEN Known(a) \cup {n} ELSE Known(a)
  <2>1. DOMAIN a = 1..n /\ DOMAIN b = 1..n BY <1>12
  <2>2. \A k \in 1..n : k # n => a[k] = b[k] BY <1>4, <1>12
  <2>3. a[n] = "absent" /\ b[n] = r BY <1>2, <1>4, <1>8, <1>12 DEF n
  <2>4. QED BY <1>2, <2>1, <2>2, <2>3 DEF Known
<1>14. n \notin Known(a) /\ IsFiniteSet(Known(a)) /\ Cardinality(Known(a)) \in Nat
  <2>1. a[n] = "absent" BY <1>2, <1>8, <1>12 DEF n
  <2>2. IsFiniteSet(Known(a)) BY <1>12, KnownKinds
  <2>3. QED BY <2>1, <2>2, FS_CardinalityType DEF Known
<1>15. Units(b) = Units(a) + Units(<<r>>)
  <2>1. Cardinality(Known(a) \cup {n}) = Cardinality(Known(a)) + 1 BY <1>14, FS_AddElement
  <2>2. QED BY <1>13, <1>14, <2>1, UnitsOne DEF Units
<1>16. QED BY <1>7, <1>9, <1>10, <1>11, <1>15 DEF a, b

(* What an estimate knows of a longer log it knows of the shorter. *)
KnownAt(l, o) == \A i \in EntriesOf(l, o) : "absent" \notin ToSet(EntryReports(l[i]))

(* What an estimate knows of a longer log it knows of the log. *)
LEMMA KnownGrows ==
    ASSUME NEW l, NEW l2, NEW q, Further(l2, l, q), NEW o, KnownAt(l2, o)
    PROVE  /\ KnownAt(l, o)
           /\ \A k \in 1..q : l2[Len(l) + k].op = o => "absent" \notin ToSet(EntryReports(l2[Len(l) + k]))
<1>1. /\ Len(l) \in Nat /\ q \in Nat /\ Len(l2) = Len(l) + q /\ DOMAIN l2 = 1..(Len(l) + q) /\ DOMAIN l = 1..Len(l)
      /\ \A i \in 1..Len(l) : l2[i] = l[i]
  BY DEF Further
<1>2. ASSUME NEW i \in EntriesOf(l, o) PROVE "absent" \notin ToSet(EntryReports(l[i]))
  <2>1. i \in 1..Len(l) /\ l[i].op = o BY <1>1 DEF EntriesOf
  <2>2. i \in EntriesOf(l2, o) /\ l2[i] = l[i] BY <1>1, <2>1 DEF EntriesOf
  <2>3. QED BY <2>2 DEF KnownAt
<1>3. ASSUME NEW k \in 1..q, l2[Len(l) + k].op = o PROVE "absent" \notin ToSet(EntryReports(l2[Len(l) + k]))
  <2>1. Len(l) + k \in DOMAIN l2 BY <1>1
  <2>2. Len(l) + k \in EntriesOf(l2, o) BY <1>3, <2>1 DEF EntriesOf
  <2>3. QED BY <2>2 DEF KnownAt
<1>4. QED BY <1>2, <1>3 DEF KnownAt

-----------------------------------------------------------------------------
(* A log with its checkpoint and the calls p that still wait for an answer:
   what every transaction has to preserve. *)
Answers(p) == {p[k].call : k \in DOMAIN p}
Held(l, cp, p) ==
    /\ Readable(l, cp) /\ Own(l) /\ p \in Seq([call : Calls, of : Nat]) /\ Due(l, p)
    /\ cp # 0 => l[cp].kind = "checkpoint"
    /\ \A i \in DOMAIN l : l[i].kind = "checkpoint" => Sound(l, i)
    /\ OpenPairs(Project(l, cp).messages, Answers(p))
Open == IF Running THEN ops[Current].pending ELSE <<>>

(* Between transactions the durable state is held. *)
LEMMA Reads ==
    ASSUME MaintenanceInv
    PROVE  /\ Held(log, checkpoint, Open)
           /\ ops \in Seq(Register) /\ Current \in Nat /\ DOMAIN ops = 1..Current
           /\ Running => Current \in DOMAIN ops /\ ops[Current] \in Register
           /\ Asked = Answers(Open)
           /\ checkpoint # 0 => Sound(log, checkpoint)
<1>1. TypeOK BY DEF MaintenanceInv
<1>2. ops \in Seq(Register) /\ Current \in Nat /\ DOMAIN ops = 1..Current BY <1>1 DEF TypeOK, Current
<1>3. Running => Current \in DOMAIN ops /\ ops[Current] \in Register
  <2>1. Running => Current # 0 BY <1>2, EmptySeq DEF Running, Current
  <2>. HIDE DEF Current
  <2>2. Current # 0 => Current \in DOMAIN ops BY <1>2
  <2>3. \A i \in DOMAIN ops : ops[i] \in Register BY <1>2
  <2>4. QED BY <2>1, <2>2, <2>3
<1>4. log \in Seq(Entry) /\ checkpoint \in 0..Len(log) /\ Len(log) \in Nat /\ DOMAIN log = 1..Len(log)
      /\ (checkpoint # 0 => log[checkpoint].kind = "checkpoint")
  BY <1>1 DEF TypeOK
<1>5. checkpoint # 0 => checkpoint \in DOMAIN log /\ log[checkpoint] \in Entry
  <2>1. \A i \in DOMAIN log : log[i] \in Entry BY <1>4
  <2>2. QED BY <1>4, <2>1
<1>6. \A i \in DOMAIN log : log[i].kind = "checkpoint" => Sound(log, i) BY DEF MaintenanceInv, CheckpointInv
<1>7. checkpoint # 0 => Sound(log, checkpoint) BY <1>4, <1>5, <1>6
<1>8. Readable(log, checkpoint)
  <2>1. CASE checkpoint = 0
    <3>1. <<>> \in Seq(ViewMessage) OBVIOUS
    <3>2. QED BY <1>4, <2>1, <3>1 DEF Readable, Cutoff, Covered
  <2>2. CASE checkpoint # 0
    <3>1. log[checkpoint].messages \in Seq(ViewMessage) BY <1>4, <1>5, <2>2, EntryKinds
    <3>2. log[checkpoint].boundary \in 1..(checkpoint - 1) BY <1>7, <2>2 DEF Sound
    <3>3. log[checkpoint].boundary \in 0..Len(log) BY <1>4, <2>2, <3>2
    <3>4. QED BY <1>4, <2>2, <3>1, <3>3 DEF Readable, Cutoff, Covered
  <2>3. QED BY <2>1, <2>2
<1>9. Asked = Answers(Open)
  <2>1. Answers(<<>>) = {} BY DEF Answers
  <2>2. QED BY <2>1 DEF Asked, Open, Answers, Waiting
<1>10. Open \in Seq([call : Calls, of : Nat]) /\ Due(log, Open)
  <2>1. CASE Running
    <3>1. Open = ops[Current].pending BY <2>1 DEF Open
    <3>2. ops[Current].pending \in Seq([call : Calls, of : Nat]) BY <1>3, <2>1 DEF Register
    <3>3. Due(log, ops[Current].pending) BY <2>1 DEF MaintenanceInv, PendingInv
    <3>4. QED BY <3>1, <3>2, <3>3
  <2>2. CASE ~ Running
    <3>1. Open = <<>> BY <2>2 DEF Open
    <3>2. Due(log, <<>>) BY DueNone
    <3>3. QED BY <3>1, <3>2
  <2>3. QED BY <2>1, <2>2
<1>11. OpenPairs(Project(log, checkpoint).messages, Answers(Open)) BY <1>9 DEF MaintenanceInv, PairInv, View
<1>12. Own(log) BY DEF MaintenanceInv, OwnInv
<1>13. QED BY <1>2, <1>3, <1>4, <1>6, <1>7, <1>8, <1>9, <1>10, <1>11, <1>12 DEF Held

(* And what is held is what the invariant says of the log. *)
LEMMA Holds ==
    ASSUME Held(log', checkpoint', Open')
    PROVE  OwnInv' /\ CheckpointInv' /\ PairInv' /\ (Running' => Due(log', ops'[Current'].pending))
<1>1. Asked' = Answers(Open')
  <2>1. Answers(<<>>) = {} BY DEF Answers
  <2>2. QED BY <2>1 DEF Asked, Open, Answers, Waiting
<1>2. Running' => Due(log', ops'[Current'].pending) BY DEF Held, Open
<1>3. PairInv' BY <1>1 DEF PairInv, View, Held
<1>4. QED BY <1>2, <1>3 DEF Held, OwnInv, CheckpointInv

(* No message calls what answers nothing. *)
LEMMA ViewCalls ==
    ASSUME NEW l, NEW cp, Readable(l, cp)
    PROVE  \A i \in 1..Len(Project(l, cp).messages) : NoCall \notin ToSet(Project(l, cp).messages[i].calls)
<1>. DEFINE ms == Project(l, cp).messages
<1>1. ms \in Seq(ViewMessage) BY ViewKinds
<1>2. \A i \in 1..Len(ms) : ms[i] \in ViewMessage BY <1>1
<1>. HIDE DEF ms
<1>3. ASSUME NEW i \in 1..Len(ms) PROVE NoCall \notin ToSet(ms[i].calls)
  <2>1. ms[i].calls \in Seq(Calls) BY <1>2 DEF ViewMessage
  <2>2. \A k \in DOMAIN ms[i].calls : ms[i].calls[k] \in Calls BY <2>1
  <2>3. QED BY <2>2, OutputCalls DEF ToSet
<1>4. QED BY <1>3 DEF ms

(* The calls p are answered in order, and what follows opens none. *)
Finishes(l2, n, p, b, q) ==
    /\ b \in Len(p)..q
    /\ \A k \in 1..Len(p) : /\ l2[n + k].kind = "tool" /\ l2[n + k].of = p[k].of
                             /\ l2[n + k].call = p[k].call
    /\ \A k \in 1..q : k > Len(p) => l2[n + k].kind \in {"input", "signal", "settlement"} /\ (l2[n + k].kind = "settlement" <=> k > b)

(* The log stays held when the calls that wait are answered and nothing
   else is asked. *)
LEMMA Closes ==
    ASSUME NEW l, NEW cp, NEW p, Held(l, cp, p), NEW l2 \in Seq(Entry), NEW q, Further(l2, l, q),
           NEW b, Finishes(l2, Len(l), p, b, q)
    PROVE  Held(l2, cp, <<>>)
<1>. DEFINE n  == Len(l)
            m  == Len(p)
            ms == Project(l, cp).messages
            ms2 == Project(l2, cp).messages
            P  == Answers(p)
<1>1. /\ n \in Nat /\ q \in Nat /\ Len(l2) = n + q /\ DOMAIN l2 = 1..(n + q) /\ DOMAIN l = 1..n
      /\ \A i \in 1..n : l2[i] = l[i]
  BY DEF Further
<1>2. Readable(l, cp) /\ Own(l) /\ p \in Seq([call : Calls, of : Nat]) /\ Due(l, p) /\ OpenPairs(ms, P)
  BY DEF Held
<1>3. m \in Nat /\ DOMAIN p = 1..m /\ \A k \in 1..m : p[k] \in [call : Calls, of : Nat]
  <2>. DEFINE C == [call : Calls, of : Nat]
  <2>1. p \in Seq(C) BY <1>2
  <2>. HIDE DEF C
  <2>2. m \in Nat /\ DOMAIN p = 1..m /\ \A k \in 1..m : p[k] \in C BY <2>1
  <2>3. QED BY <2>2 DEF C
<1>4. b \in 0..q /\ m <= b
  <2>1. b \in m..q BY DEF Finishes
  <2>2. QED BY <1>1, <1>3, <2>1
<1>. HIDE DEF n, m, ms, ms2
<1>5. /\ \A k \in 1..m : l2[n + k].kind = "tool" /\ l2[n + k].of = p[k].of /\ l2[n + k].call = p[k].call
      /\ \A k \in 1..q : k > m => l2[n + k].kind \in {"input", "signal", "settlement"} /\ (l2[n + k].kind = "settlement" <=> k > b)
  <2>1. \A k \in 1..Len(p) : l2[Len(l) + k].kind = "tool" /\ l2[Len(l) + k].of = p[k].of /\ l2[Len(l) + k].call = p[k].call
    BY DEF Finishes
  <2>2. \A k \in 1..q : k > Len(p) => l2[Len(l) + k].kind \in {"input", "signal", "settlement"} /\ (l2[Len(l) + k].kind = "settlement" <=> k > b)
    BY DEF Finishes
  <2>3. QED BY <2>1, <2>2 DEF n, m
<1>6. Bears(l2, n, b, q)
  <2>1. \A k \in 1..b : MessageBearing(l2[n + k])
    <3>. SUFFICES ASSUME NEW k \in 1..b PROVE MessageBearing(l2[n + k]) OBVIOUS
    <3>1. CASE k <= m
      <4>1. k \in 1..m BY <1>3, <3>1
      <4>2. QED BY <1>5, <4>1 DEF MessageBearing
    <3>2. CASE k > m
      <4>1. k \in 1..q /\ ~ (k > b) BY <1>1, <1>4
      <4>2. l2[n + k].kind \in {"input", "signal", "settlement"} /\ l2[n + k].kind # "settlement" BY <1>5, <3>2, <4>1
      <4>3. QED BY <4>2 DEF MessageBearing
    <3>3. QED BY <1>3, <3>1, <3>2
  <2>2. \A k \in 1..q : k > b => ~ MessageBearing(l2[n + k])
    <3>. SUFFICES ASSUME NEW k \in 1..q, k > b PROVE ~ MessageBearing(l2[n + k]) OBVIOUS
    <3>1. k > m BY <1>3, <1>4
    <3>2. l2[n + k].kind = "settlement" BY <1>5, <3>1
    <3>3. QED BY <3>2 DEF MessageBearing
  <2>3. QED BY <1>4, <2>1, <2>2 DEF Bears
<1>7. /\ Readable(l2, cp) /\ Further(ms2, ms, b)
      /\ \A k \in 1..b : ms2[Len(ms) + k] = Message(l2, n + k)
  <2>1. Bears(l2, Len(l), b, q) BY <1>6 DEF n
  <2>2. /\ Readable(l2, cp)
        /\ Further(Project(l2, cp).messages, Project(l, cp).messages, b)
        /\ \A k \in 1..b : Project(l2, cp).messages[Len(Project(l, cp).messages) + k] = Message(l2, Len(l) + k)
    BY <1>2, <2>1, ViewGrows
  <2>3. QED BY <2>2 DEF ms, ms2, n
<1>8. Own(l2)
  <2>1. m \in 0..q /\ 1..m \subseteq DOMAIN p BY <1>1, <1>3, <1>4
  <2>2. \A k \in 1..q : k > m => l2[n + k].kind # "tool"
    <3>. SUFFICES ASSUME NEW k \in 1..q, k > m PROVE l2[n + k].kind # "tool" OBVIOUS
    <3>1. l2[n + k].kind \in {"input", "signal", "settlement"} BY <1>5
    <3>2. QED BY <3>1
  <2>3. /\ \A k \in 1..m : l2[Len(l) + k].kind = "tool" /\ l2[Len(l) + k].of = p[k].of /\ l2[Len(l) + k].call = p[k].call
        /\ \A k \in 1..q : k > m => l2[Len(l) + k].kind # "tool"
    BY <1>5, <2>2 DEF n
  <2>4. Own(l) /\ Due(l, p) BY <1>2
  <2>. HIDE DEF m
  <2>5. Replies(l2, Len(l), p, m, q) BY <2>1, <2>3 DEF Replies
  <2>6. QED BY <2>4, <2>5, OwnGrows
<1>9. \A i \in DOMAIN l2 : l2[i].kind = "checkpoint" => Sound(l2, i)
  <2>. SUFFICES ASSUME NEW i \in DOMAIN l2, l2[i].kind = "checkpoint" PROVE Sound(l2, i) OBVIOUS
  <2>1. CASE i <= n
    <3>1. i \in 1..Len(l) /\ l2[i] = l[i] /\ i \in DOMAIN l BY <1>1, <2>1 DEF n
    <3>2. Sound(l, i) BY <3>1 DEF Held
    <3>3. QED BY <3>1, <3>2, SoundKept
  <2>2. CASE i > n
    <3>. DEFINE k == i - n
    <3>1. k \in 1..q /\ n + k = i BY <1>1, <2>2
    <3>. HIDE DEF k
    <3>2. l2[n + k].kind # "checkpoint"
      <4>1. CASE k <= m
        <5>1. k \in 1..m BY <1>3, <3>1, <4>1
        <5>2. QED BY <1>5, <5>1
      <4>2. CASE k > m
        <5>1. l2[n + k].kind \in {"input", "signal", "settlement"} BY <1>5, <3>1, <4>2
        <5>2. QED BY <5>1
      <4>3. QED BY <1>3, <3>1, <4>1, <4>2
    <3>3. QED BY <3>1, <3>2
  <2>3. QED BY <1>1, <2>1, <2>2
<1>10. cp # 0 => l2[cp].kind = "checkpoint"
  <2>1. cp # 0 => cp \in 1..n BY <1>1, <1>2 DEF Readable, n
  <2>2. QED BY <1>1, <2>1 DEF Held
<1>11. OpenPairs(ms2, {})
  <2>1. \A k \in 1..b : /\ ms2[Len(ms) + k].calls = <<>>
                        /\ ms2[Len(ms) + k].result = IF k <= m THEN p[k].call ELSE NoCall
    <3>. SUFFICES ASSUME NEW k \in 1..b
                  PROVE  /\ ms2[Len(ms) + k].calls = <<>>
                         /\ ms2[Len(ms) + k].result = IF k <= m THEN p[k].call ELSE NoCall
      OBVIOUS
    <3>1. ms2[Len(ms) + k] = Message(l2, n + k) BY <1>7
    <3>2. CASE k <= m
      <4>1. k \in 1..m BY <1>3, <3>2
      <4>2. l2[n + k].kind = "tool" /\ l2[n + k].call = p[k].call BY <1>5, <4>1
      <4>3. QED BY <3>1, <3>2, <4>2 DEF Message
    <3>3. CASE ~ (k <= m)
      <4>1. k \in 1..q /\ k > m BY <1>1, <1>3, <1>4, <3>3
      <4>2. l2[n + k].kind \in {"input", "signal", "settlement"} BY <1>5, <4>1
      <4>3. QED BY <3>1, <3>3, <4>2 DEF Message
    <3>4. QED BY <3>2, <3>3
  <2>. DEFINE R == {ms2[Len(ms) + k].result : k \in 1..b}
  <2>2. NoCall \notin P /\ \A k \in 1..m : p[k].call \in P /\ p[k].call # NoCall BY <1>3, OutputCalls DEF Answers
  <2>3. \A i \in 1..Len(ms) : NoCall \notin ToSet(ms[i].calls)
    BY <1>2, ViewCalls DEF ms
  <2>4. \A k \in 1..b : ms2[Len(ms) + k].calls = <<>> /\ ms2[Len(ms) + k].result \in P \cup {NoCall}
    <3>. SUFFICES ASSUME NEW k \in 1..b
                  PROVE  ms2[Len(ms) + k].calls = <<>> /\ ms2[Len(ms) + k].result \in P \cup {NoCall}
      OBVIOUS
    <3>1. k <= m => k \in 1..m BY <1>3
    <3>. HIDE DEF P
    <3>2. QED BY <2>1, <2>2, <3>1
  <2>5. \A j, k \in 1..b : ms2[Len(ms) + j].result = ms2[Len(ms) + k].result
                              /\ ms2[Len(ms) + j].result # NoCall => j = k
    <3>. SUFFICES ASSUME NEW j \in 1..b, NEW k \in 1..b, ms2[Len(ms) + j].result = ms2[Len(ms) + k].result,
                         ms2[Len(ms) + j].result # NoCall
                  PROVE  j = k
      OBVIOUS
    <3>1. j <= m /\ k <= m BY <2>1
    <3>2. j \in DOMAIN p /\ k \in DOMAIN p /\ p[j].call = p[k].call BY <1>3, <2>1, <3>1
    <3>3. QED BY <1>2, <3>2 DEF Due
  <2>6. OpenPairs(ms2, P \ R)
    <3>. HIDE DEF P
    <3>1. NoCall \notin P BY <2>2
    <3>2. QED BY <1>2, <1>7, <2>3, <2>4, <2>5, <3>1, PairsGrow
  <2>7. P \ R = {}
    <3>1. \A k \in 1..m : p[k].call \in R
      <4>. SUFFICES ASSUME NEW k \in 1..m PROVE p[k].call \in R OBVIOUS
      <4>1. k \in 1..b /\ k <= m BY <1>3, <1>4
      <4>2. QED BY <2>1, <4>1
    <3>2. QED BY <1>3, <3>1 DEF Answers
  <2>8. QED BY <2>6, <2>7
<1>12. Due(l2, <<>>) /\ Answers(<<>>) = {} BY DueNone DEF Answers
<1>13. <<>> \in Seq([call : Calls, of : Nat]) OBVIOUS
<1>14. QED BY <1>7, <1>8, <1>9, <1>10, <1>11, <1>12, <1>13 DEF Held, ms2

(* An accepted output opens its calls. *)
Openings(calls, of) == [k \in DOMAIN calls |-> [call |-> calls[k], of |-> of]]

(* The calls that an output opens. *)
LEMMA OpeningsKind ==
    ASSUME NEW calls \in Seq(Calls), NEW of \in Nat
    PROVE  /\ Openings(calls, of) \in Seq([call : Calls, of : Nat])
           /\ DOMAIN Openings(calls, of) = DOMAIN calls /\ Len(Openings(calls, of)) = Len(calls)
           /\ \A k \in DOMAIN calls : Openings(calls, of)[k].call = calls[k] /\ Openings(calls, of)[k].of = of
           /\ Answers(Openings(calls, of)) = ToSet(calls)
<1>. DEFINE p == Openings(calls, of)
            C == [call : Calls, of : Nat]
<1>1. Len(calls) \in Nat /\ DOMAIN calls = 1..Len(calls) /\ \A k \in 1..Len(calls) : calls[k] \in Calls OBVIOUS
<1>2. /\ p = [k \in 1..Len(calls) |-> [call |-> calls[k], of |-> of]]
      /\ \A k \in 1..Len(calls) : p[k].call = calls[k] /\ p[k].of = of /\ p[k] \in C
  BY <1>1 DEF Openings
<1>3. p \in Seq(C) /\ Len(p) = Len(calls) /\ DOMAIN p = 1..Len(calls)
  <2>1. p = [k \in 1..Len(calls) |-> p[k]] BY <1>2
  <2>. HIDE DEF p, C
  <2>2. QED BY <1>1, <1>2, <2>1
<1>4. Answers(p) = ToSet(calls)
  <2>. HIDE DEF p
  <2>1. QED BY <1>1, <1>2, <1>3 DEF Answers, ToSet
<1>5. QED BY <1>1, <1>2, <1>3, <1>4

(* The log stays held when an output opens its calls. *)
LEMMA Opens ==
    ASSUME NEW l, NEW cp, Held(l, cp, <<>>), NEW l2 \in Seq(Entry), Further(l2, l, 1),
           l2[Len(l) + 1].kind = "assistant", IsInjective(l2[Len(l) + 1].calls)
    PROVE  Held(l2, cp, Openings(l2[Len(l) + 1].calls, Len(l) + 1))
<1>. DEFINE n  == Len(l)
            e  == l2[n + 1]
            p  == Openings(e.calls, n + 1)
            ms == Project(l, cp).messages
            ms2 == Project(l2, cp).messages
<1>1. /\ n \in Nat /\ Len(l2) = n + 1 /\ DOMAIN l2 = 1..(n + 1) /\ DOMAIN l = 1..n
      /\ \A i \in 1..n : l2[i] = l[i]
  BY DEF Further
<1>2. Answers(<<>>) = {} BY DEF Answers
<1>3. Readable(l, cp) /\ Own(l) /\ OpenPairs(ms, {}) BY <1>2 DEF Held
<1>4. e \in Entry
  <2>1. \A i \in DOMAIN l2 : l2[i] \in Entry OBVIOUS
  <2>2. QED BY <1>1, <2>1
<1>5. e.calls \in Seq(Calls) BY <1>4, EntryKinds
<1>6. /\ p \in Seq([call : Calls, of : Nat]) /\ DOMAIN p = DOMAIN e.calls /\ Answers(p) = ToSet(e.calls)
      /\ \A k \in DOMAIN e.calls : p[k].call = e.calls[k] /\ p[k].of = n + 1
  <2>1. n + 1 \in Nat BY <1>1
  <2>. HIDE DEF e, n
  <2>2. QED BY <1>5, <2>1, OpeningsKind
<1>7. /\ Readable(l2, cp) /\ Further(ms2, ms, 1) /\ ms2[Len(ms) + 1] = Message(l2, n + 1)
  <2>1. MessageBearing(l2[n + 1]) BY DEF MessageBearing
  <2>2. Bears(l2, Len(l), 1, 1) BY <2>1 DEF Bears
  <2>3. /\ Readable(l2, cp)
        /\ Further(Project(l2, cp).messages, Project(l, cp).messages, 1)
        /\ \A k \in 1..1 : Project(l2, cp).messages[Len(Project(l, cp).messages) + k] = Message(l2, Len(l) + k)
    BY <1>3, <2>2, ViewGrows
  <2>4. QED BY <2>3
<1>. HIDE DEF p, ms, ms2
<1>8. Own(l2)
  <2>1. Replies(l2, Len(l), <<>>, 0, 1)
    <3>1. 1..0 \subseteq DOMAIN <<>> OBVIOUS
    <3>2. \A k \in 1..1 : l2[Len(l) + k].kind # "tool" OBVIOUS
    <3>3. QED BY <3>1, <3>2 DEF Replies
  <2>2. Due(l, <<>>) BY DueNone
  <2>3. QED BY <1>3, <2>1, <2>2, OwnGrows
<1>9. Due(l2, p)
  <2>1. \A k \in 1..1 : k > 1 => l2[Len(l) + k].kind \notin {"assistant", "tool"} OBVIOUS
  <2>2. \A k \in DOMAIN p : p[k].of = Len(l) + 1 /\ p[k].call = l2[Len(l) + 1].calls[k] BY <1>6
  <2>3. DOMAIN p = DOMAIN l2[Len(l) + 1].calls BY <1>6
  <2>4. 1 >= 1 OBVIOUS
  <2>5. QED BY <1>3, <2>1, <2>2, <2>3, <2>4, DueOpens
<1>10. cp # 0 => l2[cp].kind = "checkpoint"
  <2>1. cp # 0 => cp \in 1..n BY <1>1, <1>3 DEF Readable
  <2>2. QED BY <1>1, <2>1 DEF Held
<1>11. \A i \in DOMAIN l2 : l2[i].kind = "checkpoint" => Sound(l2, i)
  <2>. SUFFICES ASSUME NEW i \in DOMAIN l2, l2[i].kind = "checkpoint" PROVE Sound(l2, i) OBVIOUS
  <2>1. i # n + 1 OBVIOUS
  <2>2. i \in 1..Len(l) /\ l2[i] = l[i] /\ i \in DOMAIN l BY <1>1, <2>1
  <2>3. Sound(l, i) BY <2>2 DEF Held
  <2>4. QED BY <2>2, <2>3, SoundKept
<1>12. OpenPairs(ms2, Answers(p))
  <2>1. ms2[Len(ms) + 1].result = NoCall /\ ms2[Len(ms) + 1].calls = e.calls BY <1>7 DEF Message
  <2>2. OpenPairs(ms2, ToSet(ms2[Len(ms) + 1].calls)) BY <1>3, <1>7, <2>1, PairsOpen
  <2>3. QED BY <1>6, <2>1, <2>2
<1>13. QED BY <1>6, <1>7, <1>8, <1>9, <1>10, <1>11, <1>12 DEF Held, p, ms2

(* A tool's result answers the first of the calls that wait. *)
LEMMA AnswersOne ==
    ASSUME NEW l, NEW cp, NEW p, p # <<>>, Held(l, cp, p), NEW l2 \in Seq(Entry), Further(l2, l, 1),
           l2[Len(l) + 1].kind = "tool", l2[Len(l) + 1].of = p[1].of, l2[Len(l) + 1].call = p[1].call
    PROVE  Held(l2, cp, Tail(p))
<1>. DEFINE n  == Len(l)
            C  == [call : Calls, of : Nat]
            ms == Project(l, cp).messages
            ms2 == Project(l2, cp).messages
            P  == Answers(p)
<1>1. /\ n \in Nat /\ Len(l2) = n + 1 /\ DOMAIN l2 = 1..(n + 1) /\ DOMAIN l = 1..n
      /\ \A i \in 1..n : l2[i] = l[i]
  BY DEF Further
<1>3. Readable(l, cp) /\ Own(l) /\ OpenPairs(ms, P) /\ Due(l, p) /\ p \in Seq(C) BY DEF Held
<1>2. p \in Seq(C) /\ Tail(p) \in Seq(C) /\ 1 \in DOMAIN p /\ \A k \in DOMAIN p : p[k] \in C
  <2>. HIDE DEF C
  <2>1. QED BY <1>3, HeadTailProperties
<1>4. \A k \in DOMAIN p : p[k].call \in P /\ p[k].call \in Calls BY <1>2 DEF Answers
<1>5. NoCall \notin P BY <1>2, <1>4, OutputCalls DEF Answers
<1>7. /\ Readable(l2, cp) /\ Further(ms2, ms, 1) /\ ms2[Len(ms) + 1] = Message(l2, n + 1)
  <2>1. MessageBearing(l2[n + 1]) BY DEF MessageBearing
  <2>2. Bears(l2, Len(l), 1, 1) BY <2>1 DEF Bears
  <2>3. /\ Readable(l2, cp)
        /\ Further(Project(l2, cp).messages, Project(l, cp).messages, 1)
        /\ \A k \in 1..1 : Project(l2, cp).messages[Len(Project(l, cp).messages) + k] = Message(l2, Len(l) + k)
    BY <1>3, <2>2, ViewGrows
  <2>4. QED BY <2>3
<1>. HIDE DEF ms, ms2, P
<1>8. Own(l2)
  <2>1. Replies(l2, Len(l), p, 1, 1)
    <3>1. 1..1 \subseteq DOMAIN p BY <1>2
    <3>2. QED BY <3>1 DEF Replies
  <2>2. QED BY <1>3, <2>1, OwnGrows
<1>9. Due(l2, Tail(p)) /\ Waiting([pending |-> Tail(p)]) = Waiting([pending |-> p]) \ {p[1].call}
  <2>. HIDE DEF C
  <2>1. QED BY <1>2, <1>3, DueTail
<1>10. cp # 0 => l2[cp].kind = "checkpoint"
  <2>1. cp # 0 => cp \in 1..n BY <1>1, <1>3 DEF Readable
  <2>2. QED BY <1>1, <2>1 DEF Held
<1>11. \A i \in DOMAIN l2 : l2[i].kind = "checkpoint" => Sound(l2, i)
  <2>. SUFFICES ASSUME NEW i \in DOMAIN l2, l2[i].kind = "checkpoint" PROVE Sound(l2, i) OBVIOUS
  <2>1. i # n + 1 OBVIOUS
  <2>2. i \in 1..Len(l) /\ l2[i] = l[i] /\ i \in DOMAIN l BY <1>1, <2>1
  <2>3. Sound(l, i) BY <2>2 DEF Held
  <2>4. QED BY <2>2, <2>3, SoundKept
<1>12. OpenPairs(ms2, Answers(Tail(p)))
  <2>1. ms2[Len(ms) + 1].result = p[1].call /\ ms2[Len(ms) + 1].calls = <<>> BY <1>7 DEF Message
  <2>2. p[1].call \in P BY <1>2, <1>4
  <2>3. \A i \in 1..Len(ms) : NoCall \notin ToSet(ms[i].calls) BY <1>3, ViewCalls DEF ms
  <2>. DEFINE m == 1
  <2>4. \A k \in 1..m : ms2[Len(ms) + k].calls = <<>> /\ ms2[Len(ms) + k].result \in P \cup {NoCall} BY <2>1, <2>2
  <2>5. \A j, k \in 1..m : ms2[Len(ms) + j].result = ms2[Len(ms) + k].result
                              /\ ms2[Len(ms) + j].result # NoCall => j = k OBVIOUS
  <2>6. OpenPairs(ms2, P \ {ms2[Len(ms) + k].result : k \in 1..m})
    <3>1. Further(ms2, ms, m) BY <1>7
    <3>2. OpenPairs(ms, P) BY <1>3
    <3>. HIDE DEF m
    <3>3. QED BY <1>5, <2>3, <2>4, <2>5, <3>1, <3>2, PairsGrow
  <2>7. {ms2[Len(ms) + k].result : k \in 1..m} = {p[1].call} BY <2>1
  <2>8. Answers(Tail(p)) = P \ {p[1].call}
    <3>1. Waiting([pending |-> Tail(p)]) = Answers(Tail(p)) BY DEF Waiting, Answers
    <3>2. Waiting([pending |-> p]) = P BY DEF Waiting, Answers, P
    <3>3. QED BY <1>9, <3>1, <3>2
  <2>9. QED BY <2>6, <2>7, <2>8
<1>13. QED BY <1>2, <1>7, <1>8, <1>9, <1>10, <1>11, <1>12 DEF Held, ms2

(* A committed checkpoint is one a load takes back, and the conversation
   goes on from it. *)
LEMMA Checkpoints ==
    ASSUME MaintenanceInv, Open = <<>>,
           NEW p, p.retain \subseteq DOMAIN View.messages, p.context \in {"no", "yes"}, p.boundary \in Nat,
           PlanValid(View, p), NEW e \in Entry, e.kind = "checkpoint", e.boundary = p.boundary,
           e.messages = Materialized(View.messages, p)
    PROVE  LET l2 == Append(log, e)
               id == Len(log) + 1
           IN  /\ Held(l2, id, <<>>) /\ l2 \in Seq(Entry) /\ Further(l2, log, 1) /\ l2[id] = e
               /\ p.boundary \in 1..Len(log) /\ Cutoff(log, checkpoint) <= p.boundary
               /\ Cutoff(l2, id) = p.boundary
               /\ Project(l2, id).cp = id /\ Project(l2, id).boundary = RebuiltBoundary(log, p.boundary, id)
<1>. DEFINE l2 == Append(log, e)
            id == Len(log) + 1
            ms == View.messages
<1>1. Held(log, checkpoint, <<>>) /\ (checkpoint # 0 => Sound(log, checkpoint)) BY Reads
<1>2. /\ Readable(log, checkpoint) /\ Own(log) /\ Due(log, <<>>) /\ log \in Seq(Entry)
      /\ \A i \in DOMAIN log : log[i].kind = "checkpoint" => Sound(log, i)
  BY <1>1 DEF Held, Readable
<1>3. Answers(<<>>) = {} BY DEF Answers
<1>4. OpenPairs(ms, {}) BY <1>1, <1>3 DEF Held, View
<1>5. PairsComplete(ms)
  <2>1. ms \in Seq(ViewMessage) BY <1>2, ViewKinds DEF View
  <2>. HIDE DEF ms
  <2>2. QED BY <1>4, <2>1, PairsEnd
<1>6. /\ p.boundary \in 1..Len(log) /\ Cutoff(log, checkpoint) <= p.boundary
      /\ Sound(l2, id) /\ PairsComplete(Project(l2, id).messages)
      /\ Project(l2, id).cp = id /\ Project(l2, id).boundary = RebuiltBoundary(log, p.boundary, id)
  BY <1>1, <1>2, <1>5, CheckpointSound
<1>7. Readable(l2, id) /\ Further(l2, log, 1) /\ l2[id] = e /\ Cutoff(l2, id) = e.boundary
  BY <1>2, <1>6, AfterCheckpoint
<1>8. l2 \in Seq(Entry) BY <1>7 DEF Readable
<1>. HIDE DEF l2
<1>9. Len(log) \in Nat /\ DOMAIN log = 1..Len(log) /\ DOMAIN l2 = 1..id /\ \A i \in 1..Len(log) : l2[i] = log[i]
  BY <1>7 DEF Further
<1>10. Own(l2)
  <2>1. Replies(l2, Len(log), <<>>, 0, 1)
    <3>1. 1..0 \subseteq DOMAIN <<>> OBVIOUS
    <3>2. \A k \in 1..1 : l2[Len(log) + k].kind # "tool" BY <1>7
    <3>3. QED BY <3>1, <3>2 DEF Replies
  <2>2. QED BY <1>2, <1>7, <2>1, OwnGrows
<1>11. \A i \in DOMAIN l2 : l2[i].kind = "checkpoint" => Sound(l2, i)
  <2>. SUFFICES ASSUME NEW i \in DOMAIN l2, l2[i].kind = "checkpoint" PROVE Sound(l2, i) OBVIOUS
  <2>1. CASE i = id BY <1>6, <2>1
  <2>2. CASE i # id
    <3>1. i \in 1..Len(log) /\ l2[i] = log[i] /\ i \in DOMAIN log BY <1>9, <2>2
    <3>2. Sound(log, i) BY <1>2, <3>1
    <3>3. QED BY <1>7, <3>1, <3>2, SoundKept
  <2>3. QED BY <2>1, <2>2
<1>12. OpenPairs(Project(l2, id).messages, {})
  <2>1. Project(l2, id).messages \in Seq(ViewMessage) BY <1>7, ViewKinds
  <2>2. QED BY <1>6, <2>1, PairsEnd
<1>13. Due(l2, <<>>) /\ <<>> \in Seq([call : Calls, of : Nat]) BY DueNone
<1>14. Held(l2, id, <<>>) BY <1>3, <1>7, <1>10, <1>11, <1>12, <1>13 DEF Held
<1>15. QED BY <1>6, <1>7, <1>8, <1>14 DEF l2

(* One register is rewritten. *)
LEMMA Rewrites ==
    ASSUME NEW S, NEW s \in Seq(S), NEW o \in DOMAIN s, NEW r \in S
    PROVE  LET t == [s EXCEPT ![o] = r]
           IN  /\ t \in Seq(S) /\ Len(t) = Len(s) /\ DOMAIN t = DOMAIN s /\ t[o] = r
               /\ \A i \in DOMAIN s : i # o => t[i] = s[i]
<1>. DEFINE t == [s EXCEPT ![o] = r]
<1>1. Len(s) \in Nat /\ DOMAIN s = 1..Len(s) /\ \A i \in 1..Len(s) : s[i] \in S OBVIOUS
<1>2. DOMAIN t = 1..Len(s) /\ t[o] = r /\ \A i \in 1..Len(s) : i # o => t[i] = s[i] BY <1>1
<1>3. \A i \in 1..Len(s) : t[i] \in S BY <1>1, <1>2
<1>4. t = [i \in 1..Len(s) |-> t[i]] BY <1>1
<1>. HIDE DEF t
<1>5. t \in Seq(S) /\ Len(t) = Len(s) BY <1>1, <1>3, <1>4
<1>6. QED BY <1>1, <1>2, <1>5 DEF t

(* A goroutine that ended or a process that is down remembers nothing. *)
LEMMA AtRest ==
    ASSUME at' \in {"idle", "down"}, facts' = NoFacts, pendingFacts' = <<>>, plan' = NoPlan, output' = NoOutput,
           Once(log'), NotedIds(log') \subseteq 0..(ids' - 1)
    PROVE  /\ KindInv' /\ EffectInv' /\ FrozenInv' /\ RequestInv' /\ SummaryInv' /\ FactInv'
           /\ ~ Alive' /\ facts'.list = <<>>
           /\ facts' \in Procedure /\ pendingFacts' \in Facts
           /\ plan' \in [kind : {"none", "model", "checkpoint"}, boundary : Nat,
                         retain : SUBSET (DOMAIN frozen'.messages), context : {"no", "yes"}]
           /\ output' \in [status : {"none", "completed", "errored", "interrupted"}, calls : Seq(Calls), report : Report]
<1>1. ~ Alive' /\ ~ Maintaining' BY DEF Alive, Maintaining
<1>2. KindInv'
  <2>1. plan'.retain = {} BY DEF NoPlan
  <2>2. IsInjective(output'.calls)
    <3>1. output'.calls = <<>> BY DEF NoOutput
    <3>2. QED BY <3>1 DEF IsInjective
  <2>3. output'.calls = <<>> BY DEF NoOutput
  <2>4. QED BY <1>1, <2>1, <2>2, <2>3 DEF KindInv
<1>3. EffectInv' /\ FrozenInv' /\ RequestInv' /\ SummaryInv' BY <1>1 DEF EffectInv, FrozenInv, RequestInv, SummaryInv
<1>4. facts'.list = <<>> BY DEF NoFacts
<1>5. FactInv'
  <2>1. FactIds(<<>>) = {} /\ Distinct(<<>>) BY NoFactsList
  <2>2. QED BY <1>1, <1>4, <2>1 DEF FactInv
<1>6. facts' \in Procedure BY NoFactsList DEF NoFacts, Procedure
<1>7. pendingFacts' \in Facts BY NoFactsList
<1>8. plan' \in [kind : {"none", "model", "checkpoint"}, boundary : Nat,
                 retain : SUBSET (DOMAIN frozen'.messages), context : {"no", "yes"}]
  BY DEF NoPlan
<1>9. output' \in [status : {"none", "completed", "errored", "interrupted"}, calls : Seq(Calls), report : Report]
  <2>1. <<>> \in Seq(Calls) /\ "absent" \in Report BY DEF Report
  <2>2. QED BY <2>1 DEF NoOutput
<1>10. QED BY <1>1, <1>2, <1>3, <1>4, <1>5, <1>6, <1>7, <1>8, <1>9

(* The totals follow the log, and what other Operations recorded stays. *)
LEMMA TotalsKept ==
    ASSUME MaintenanceInv, Running, log' \in Seq(Entry), NEW q, Further(log', log, q), NEW n \in Nat,
           \A k \in 1..q : log'[Len(log) + k].op = Current,
           \A o : LoggedUsage(log', o) = LoggedUsage(log, o) + (IF o = Current THEN n ELSE 0),
           Cardinality(EveryReport(log')) = Cardinality(EveryReport(log)) + n,
           DOMAIN ops' = DOMAIN ops, \A o \in DOMAIN ops : o # Current => ops'[o] = ops[o],
           ops'[Current].usage = ops[Current].usage + n, usage' = usage + n, spent' = spent
    PROVE  /\ TotalsMatch'
           /\ \A i \in DOMAIN log' : log'[i].op \in DOMAIN ops'
           /\ \A o \in DOMAIN ops' : o # Current /\ ops'[o].effect.kind = "none" /\ EstimateKnown(o)'
                  => LoggedUsage(log', o) = spent'[o]
<1>1. /\ log \in Seq(Entry) /\ Current \in DOMAIN ops /\ DOMAIN log = 1..Len(log) /\ Len(log) \in Nat
      /\ q \in Nat /\ DOMAIN log' = 1..(Len(log) + q) /\ \A i \in 1..Len(log) : log'[i] = log[i]
  BY Reads DEF Held, Readable, Further
<1>2. \A i \in DOMAIN log : log[i].op \in DOMAIN ops BY DEF MaintenanceInv, CostInv
<1>3. TotalsMatch BY DEF MaintenanceInv
<1>4. \A i \in DOMAIN log' : log'[i].op \in DOMAIN ops
  <2>. SUFFICES ASSUME NEW i \in DOMAIN log', i \notin DOMAIN log PROVE log'[i].op \in DOMAIN ops BY <1>1, <1>2
  <2>. DEFINE k == i - Len(log)
  <2>1. k \in 1..q /\ Len(log) + k = i BY <1>1
  <2>. HIDE DEF k
  <2>2. QED BY <1>1, <2>1
<1>5. UNION {OpReports(log, o) : o \in DOMAIN ops} = EveryReport(log) BY <1>1, <1>2, EveryReportIs
<1>6. UNION {OpReports(log', o) : o \in DOMAIN ops} = EveryReport(log') BY <1>4, EveryReportIs
<1>7. usage = Cardinality(EveryReport(log)) BY <1>3, <1>5 DEF TotalsMatch
<1>8. usage' = Cardinality(UNION {OpReports(log', o) : o \in DOMAIN ops'}) BY <1>6, <1>7
<1>9. \A o \in DOMAIN ops' : ops'[o].usage = LoggedUsage(log', o)
  <2>. SUFFICES ASSUME NEW o \in DOMAIN ops PROVE ops'[o].usage = LoggedUsage(log', o) OBVIOUS
  <2>1. ops[o].usage = LoggedUsage(log, o) /\ LoggedUsage(log, o) \in Nat BY <1>1, <1>3, LoggedKind DEF TotalsMatch
  <2>2. CASE o = Current BY <2>1, <2>2
  <2>3. CASE o # Current BY <2>1, <2>3
  <2>4. QED BY <2>2, <2>3
<1>10. TotalsMatch' BY <1>8, <1>9 DEF TotalsMatch
<1>11. ASSUME NEW o \in DOMAIN ops', o # Current, ops'[o].effect.kind = "none", EstimateKnown(o)'
       PROVE  LoggedUsage(log', o) = spent'[o]
  <2>1. o \in DOMAIN ops /\ ops'[o] = ops[o] BY <1>11
  <2>2. KnownAt(log', o) /\ ops[o].unreported = "no" BY <1>11, <2>1 DEF EstimateKnown, KnownAt
  <2>3. KnownAt(log, o) BY <2>2, KnownGrows
  <2>4. EstimateKnown(o) BY <2>2, <2>3 DEF EstimateKnown, KnownAt
  <2>5. LoggedUsage(log, o) = spent[o] BY <1>11, <2>1, <2>4 DEF MaintenanceInv, CostHonest
  <2>6. LoggedUsage(log, o) \in Nat BY <1>1, LoggedKind
  <2>7. QED BY <1>11, <2>5, <2>6
<1>12. QED BY <1>4, <1>10, <1>11

-----------------------------------------------------------------------------
(* What a terminal appends: the results, the signal and the settlement. *)
LEMMA ClosingKinds ==
    ASSUME NEW tools \in Seq(Entry), NEW sig \in Seq(Entry), NEW s \in Entry
    PROVE  LET c == tools \o sig \o <<s>>
               m == Len(tools)
               g == Len(sig)
           IN  /\ c \in Seq(Entry) /\ m \in Nat /\ g \in Nat /\ Len(c) = m + g + 1
               /\ \A k \in 1..m : c[k] = tools[k]
               /\ \A k \in 1..g : c[m + k] = sig[k]
               /\ c[m + g + 1] = s
<1>. DEFINE u == tools \o sig
            t == <<s>>
            c == u \o t
            m == Len(tools)
            g == Len(sig)
<1>1. /\ u \in Seq(Entry) /\ Len(u) = m + g /\ m \in Nat /\ g \in Nat
      /\ \A k \in 1..m : u[k] = tools[k]
      /\ \A k \in 1..g : u[m + k] = sig[k]
  BY Grown
<1>2. t \in Seq(Entry) /\ Len(t) = 1 /\ t[1] = s OBVIOUS
<1>. HIDE DEF u, t
<1>3. /\ c \in Seq(Entry) /\ Len(c) = Len(u) + Len(t)
      /\ \A i \in 1..Len(u) : c[i] = u[i]
      /\ \A k \in 1..Len(t) : c[Len(u) + k] = t[k]
  <2>1. u \in Seq(Entry) /\ t \in Seq(Entry) BY <1>1, <1>2
  <2>2. QED BY <2>1, Grown
<1>. HIDE DEF c, m, g
<1>4. \A k \in 1..m : c[k] = tools[k] BY <1>1, <1>3
<1>5. \A k \in 1..g : c[m + k] = sig[k]
  <2>1. \A k \in 1..g : m + k \in 1..Len(u) BY <1>1
  <2>2. QED BY <1>1, <1>3, <2>1
<1>6. c[m + g + 1] = s BY <1>1, <1>2, <1>3
<1>7. c \in Seq(Entry) /\ Len(c) = m + g + 1 BY <1>1, <1>2, <1>3
<1>8. QED BY <1>1, <1>4, <1>5, <1>6, <1>7 DEF c, u, t, m, g

(* l2 adds to l entries of the Operation o, the last of them s. *)
Adds(l2, l, o) == \E q : Further(l2, l, q) /\ \A k \in 1..q : l2[Len(l) + k].op = o
EndsIn(l2, l, s, o) ==
    \E q : Further(l2, l, q) /\ q \in 1..q /\ l2[Len(l) + q] = s /\ \A k \in 1..q : l2[Len(l) + k].op = o

(* The results answer the calls p. *)
Interrupts(tools, p, o) ==
    /\ Len(tools) = Len(p)
    /\ \A k \in 1..Len(p) : tools[k] = [kind |-> "tool", op |-> o, call |-> p[k].call, of |-> p[k].of]

(* What results, a signal and a settlement add to a held log. *)
LEMMA Settling ==
    ASSUME NEW l, NEW cp, NEW p, Held(l, cp, p), NEW o \in Nat, NEW tools \in Seq(Entry), Interrupts(tools, p, o),
           NEW sig, sig = <<>> \/ sig = <<[kind |-> "signal", op |-> o]>>,
           NEW s \in Entry, s.kind = "settlement", s.op = o
    PROVE  LET l2 == l \o (tools \o sig \o <<s>>)
           IN  /\ Held(l2, cp, <<>>) /\ l2 \in Seq(Entry)
               /\ EndsIn(l2, l, s, o)
               /\ Cardinality(EveryReport(l2)) = Cardinality(EveryReport(l)) + Units(EntryReports(s))
               /\ \A x : LoggedUsage(l2, x) = LoggedUsage(l, x) + (IF s.op = x THEN Units(EntryReports(s)) ELSE 0)
               /\ NotedIds(l2) = NotedIds(l) \cup FactIds(s.facts)
               /\ Once(l) /\ Distinct(s.facts) /\ NotedIds(l) \cap FactIds(s.facts) = {} => Once(l2)
<1>. DEFINE c  == tools \o sig \o <<s>>
            m  == Len(p)
            g  == Len(sig)
            n  == Len(l)
            q  == m + g + 1
            l2 == l \o c
<1>1. l \in Seq(Entry) /\ p \in Seq([call : Calls, of : Nat]) BY DEF Held, Readable
<1>2. sig \in Seq(Entry) /\ g \in 0..1 /\ \A k \in 1..g : sig[k] = [kind |-> "signal", op |-> o]
  <2>1. [kind |-> "signal", op |-> o] \in Entry BY DEF Entry
  <2>2. CASE sig = <<>>
    <3>1. g = 0 /\ sig \in Seq(Entry) BY <2>2
    <3>2. QED BY <3>1
  <2>3. CASE sig = <<[kind |-> "signal", op |-> o]>>
    <3>. DEFINE v == [kind |-> "signal", op |-> o]
    <3>1. v \in Entry BY <2>1
    <3>. HIDE DEF v
    <3>2. <<v>> \in Seq(Entry) /\ Len(<<v>>) = 1 /\ <<v>>[1] = v BY <3>1
    <3>3. sig = <<v>> BY <2>3 DEF v
    <3>4. g = 1 /\ sig \in Seq(Entry) /\ sig[1] = v BY <3>2, <3>3
    <3>5. QED BY <3>4 DEF v
  <2>4. QED BY <2>2, <2>3
<1>3. /\ c \in Seq(Entry) /\ m \in Nat /\ g \in Nat /\ Len(c) = q
      /\ \A k \in 1..m : c[k] = tools[k]
      /\ \A k \in 1..g : c[m + k] = sig[k]
      /\ c[q] = s
  <2>1. /\ c \in Seq(Entry) /\ Len(tools) \in Nat /\ g \in Nat /\ Len(c) = Len(tools) + g + 1
        /\ \A k \in 1..Len(tools) : c[k] = tools[k]
        /\ \A k \in 1..g : c[Len(tools) + k] = sig[k]
        /\ c[Len(tools) + g + 1] = s
    BY <1>2, ClosingKinds
  <2>2. Len(tools) = m BY DEF Interrupts
  <2>. HIDE DEF c, m, g
  <2>3. QED BY <2>1, <2>2
<1>. HIDE DEF c, m, g
<1>4. /\ l2 \in Seq(Entry) /\ Len(l2) = n + q /\ DOMAIN l2 = 1..(n + q) /\ DOMAIN l = 1..n /\ n \in Nat
      /\ \A i \in 1..n : l2[i] = l[i]
      /\ \A k \in 1..q : l2[n + k] = c[k]
  <2>1. c \in Seq(Entry) /\ Len(c) = q BY <1>3
  <2>2. /\ l \o c \in Seq(Entry) /\ Len(l \o c) = Len(l) + Len(c)
        /\ DOMAIN (l \o c) = 1..(Len(l) + Len(c)) /\ DOMAIN l = 1..Len(l) /\ Len(l) \in Nat
        /\ \A i \in 1..Len(l) : (l \o c)[i] = l[i]
        /\ \A k \in 1..Len(c) : (l \o c)[Len(l) + k] = c[k]
    <3>1. l \in Seq(Entry) /\ c \in Seq(Entry) BY <1>1, <2>1
    <3>2. QED BY <3>1, Grown
  <2>. HIDE DEF q
  <2>3. QED BY <2>1, <2>2
<1>. HIDE DEF l2, n
<1>5. Further(l2, l, q) BY <1>3, <1>4 DEF Further, n
<1>6. /\ \A k \in 1..m : /\ c[k].kind = "tool" /\ c[k].op = o /\ c[k].call = p[k].call /\ c[k].of = p[k].of
      /\ \A k \in 1..q : k > m /\ k < q => c[k].kind = "signal" /\ c[k].op = o
      /\ c[q].kind = "settlement" /\ c[q].op = o
  <2>1. ASSUME NEW k \in 1..m
        PROVE  c[k].kind = "tool" /\ c[k].op = o /\ c[k].call = p[k].call /\ c[k].of = p[k].of
    <3>1. c[k] = tools[k] BY <1>3
    <3>2. tools[k] = [kind |-> "tool", op |-> o, call |-> p[k].call, of |-> p[k].of] BY DEF m, Interrupts
    <3>3. QED BY <3>1, <3>2
  <2>2. ASSUME NEW k \in 1..q, k > m, k < q PROVE c[k].kind = "signal" /\ c[k].op = o
    <3>. DEFINE j == k - m
    <3>1. j \in 1..g /\ m + j = k BY <1>2, <1>3, <2>2
    <3>. HIDE DEF j
    <3>2. c[k] = sig[j] /\ sig[j] = [kind |-> "signal", op |-> o] BY <1>2, <1>3, <3>1
    <3>3. QED BY <3>2
  <2>3. QED BY <1>3, <2>1, <2>2
<1>7. \A k \in 1..q : k \in 1..m \/ (k > m /\ k < q) \/ k = q BY <1>2, <1>3
<1>8. Finishes(l2, n, p, m + g, q)
  <2>1. m + g \in m..q BY <1>3
  <2>2. \A k \in 1..m : l2[n + k].kind = "tool" /\ l2[n + k].of = p[k].of /\ l2[n + k].call = p[k].call
    <3>1. \A k \in 1..m : k \in 1..q BY <1>3
    <3>2. QED BY <1>4, <1>6, <3>1
  <2>3. \A k \in 1..q : k > m => l2[n + k].kind \in {"input", "signal", "settlement"} /\ (l2[n + k].kind = "settlement" <=> k > m + g)
    <3>. SUFFICES ASSUME NEW k \in 1..q, k > m
                  PROVE  l2[n + k].kind \in {"input", "signal", "settlement"} /\ (l2[n + k].kind = "settlement" <=> k > m + g)
      OBVIOUS
    <3>1. l2[n + k] = c[k] BY <1>4
    <3>2. CASE k < q
      <4>1. ~ (k > m + g) BY <1>3, <3>2
      <4>2. QED BY <1>6, <3>1, <3>2, <4>1
    <3>3. CASE k = q
      <4>1. k > m + g BY <1>3, <3>3
      <4>2. QED BY <1>6, <3>1, <3>3, <4>1
    <3>4. QED BY <1>3, <3>2, <3>3
  <2>4. QED BY <2>1, <2>2, <2>3 DEF Finishes, m
<1>9. Held(l2, cp, <<>>)
  <2>. HIDE DEF q
  <2>1. QED BY <1>4, <1>5, <1>8, Closes DEF n
<1>10. \A k \in 1..q : l2[n + k].op = o BY <1>4, <1>6, <1>7
<1>11. q \in 1..q /\ l2[n + q] = s BY <1>3, <1>4
<1>12. \A k \in 1..q : k # q => EntryReports(l2[n + k]) = <<>> /\ Carries(l2[n + k]) = <<>>
  <2>. SUFFICES ASSUME NEW k \in 1..q, k # q PROVE EntryReports(l2[n + k]) = <<>> /\ Carries(l2[n + k]) = <<>> OBVIOUS
  <2>1. l2[n + k].kind \in {"tool", "signal"} BY <1>4, <1>6, <1>7
  <2>2. QED BY <2>1 DEF EntryReports, Carries
<1>13. /\ Cardinality(EveryReport(l2)) = Cardinality(EveryReport(l)) + Units(EntryReports(l2[n + q]))
       /\ \A x : LoggedUsage(l2, x) = LoggedUsage(l, x) +
                    (IF l2[n + q].op = x THEN Units(EntryReports(l2[n + q])) ELSE 0)
  <2>1. Accounts(l2, Len(l), q, q) BY <1>11, <1>12 DEF n, Accounts
  <2>2. l \in Seq(Entry) /\ l2 \in Seq(Entry) BY <1>1, <1>4, <1>11
  <2>. HIDE DEF q
  <2>3. Cardinality(EveryReport(l2)) = Cardinality(EveryReport(l)) + Units(EntryReports(l2[Len(l) + q]))
    BY <1>5, <2>1, <2>2, LoggedGrows
  <2>4. ASSUME NEW x
        PROVE  LoggedUsage(l2, x) = LoggedUsage(l, x) +
                    (IF l2[Len(l) + q].op = x THEN Units(EntryReports(l2[Len(l) + q])) ELSE 0)
    BY <1>5, <2>1, <2>2, LoggedGrows
  <2>5. QED BY <2>3, <2>4 DEF n
<1>14. /\ NotedIds(l2) = NotedIds(l) \cup FactIds(Carries(l2[n + q]))
       /\ Once(l) /\ Distinct(Carries(l2[n + q])) /\ NotedIds(l) \cap FactIds(Carries(l2[n + q])) = {} => Once(l2)
  <2>1. Accounts(l2, Len(l), q, q) BY <1>11, <1>12 DEF n, Accounts
  <2>. HIDE DEF q
  <2>2. QED BY <1>5, <1>11, <2>1, NotedGrow DEF n
<1>15. Carries(s) = s.facts BY DEF Carries
<1>16. EndsIn(l2, l, s, o)
  <2>. HIDE DEF q
  <2>1. QED BY <1>5, <1>10, <1>11 DEF n, EndsIn
<1>17. QED BY <1>4, <1>9, <1>11, <1>13, <1>14, <1>15, <1>16 DEF l2, c

(* The interrupted result of each unanswered call. *)
LEMMA ResultsKind ==
    ASSUME NEW o \in Nat, NEW s \in Seq([call : Calls, of : Nat]), NEW of \in Nat
    PROVE  LET t == ResultsFor(o, s, of)
           IN  /\ t \in Seq(Entry) /\ Len(t) = Len(s)
               /\ \A k \in 1..Len(s) : t[k] = [kind |-> "tool", op |-> o, call |-> s[k].call,
                                               of |-> IF s[k].of = 0 THEN of ELSE s[k].of]
<1>. DEFINE C == [call : Calls, of : Nat]
            x(k) == [kind |-> "tool", op |-> o, call |-> s[k].call, of |-> IF s[k].of = 0 THEN of ELSE s[k].of]
            t == ResultsFor(o, s, of)
<1>1. Len(s) \in Nat /\ DOMAIN s = 1..Len(s) /\ \A k \in 1..Len(s) : s[k] \in C
  <2>1. s \in Seq(C) OBVIOUS
  <2>. HIDE DEF C
  <2>2. QED BY <2>1
<1>2. \A k \in 1..Len(s) : x(k) \in Entry
  <2>. SUFFICES ASSUME NEW k \in 1..Len(s) PROVE x(k) \in Entry OBVIOUS
  <2>1. s[k].call \in Calls /\ s[k].of \in Nat BY <1>1
  <2>2. QED BY <2>1 DEF Entry
<1>3. t = [k \in 1..Len(s) |-> x(k)] BY <1>1 DEF ResultsFor
<1>. HIDE DEF t, x
<1>4. t \in Seq(Entry) /\ Len(t) = Len(s) /\ \A k \in 1..Len(s) : t[k] = x(k) BY <1>1, <1>2, <1>3
<1>5. QED BY <1>4 DEF t, x

(* Before a terminal appends its results: the log with the output it keeps,
   and the calls that wait then. *)
LEMMA Reopens ==
    ASSUME MaintenanceInv, Running, NEW asst, asst = <<>> \/ (asst = <<AssistantEntry>> /\ at = "answered")
    PROVE  LET calls == ops[Current].pending \o (IF asst = <<>> THEN <<>> ELSE Pending(asst[1].calls))
               tools == ResultsFor(Current, calls, Len(log) + 1)
               l1    == log \o asst
               u     == IF asst = <<>> THEN 0 ELSE Units(<<output.report>>)
           IN  /\ \E p : /\ Held(l1, checkpoint, p) /\ Len(tools) = Len(p)
                         /\ \A k \in 1..Len(p) : tools[k] =
                               [kind |-> "tool", op |-> Current, call |-> p[k].call, of |-> p[k].of]
               /\ tools \in Seq(Entry) /\ l1 \in Seq(Entry) /\ Further(l1, log, Len(asst)) /\ Len(asst) \in 0..1
               /\ \A k \in 1..Len(asst) : l1[Len(log) + k] = AssistantEntry
               /\ NotedIds(l1) = NotedIds(log) /\ (Once(log) => Once(l1))
               /\ Cardinality(EveryReport(l1)) = Cardinality(EveryReport(log)) + u
               /\ \A x : LoggedUsage(l1, x) = LoggedUsage(log, x) + (IF Current = x THEN u ELSE 0)
<1>. DEFINE r     == ops[Current]
            calls == r.pending \o (IF asst = <<>> THEN <<>> ELSE Pending(asst[1].calls))
            tools == ResultsFor(Current, calls, Len(log) + 1)
            l1    == log \o asst
<1>1. /\ Held(log, checkpoint, r.pending) /\ r \in Register /\ Current \in Nat /\ log \in Seq(Entry) /\ Len(log) \in Nat
      /\ r.pending \in Seq([call : Calls, of : Nat]) /\ Due(log, r.pending)
  <2>1. Held(log, checkpoint, Open) /\ r \in Register /\ Current \in Nat BY Reads
  <2>2. Open = r.pending BY DEF Open
  <2>3. QED BY <2>1, <2>2 DEF Held, Readable
<1>2. CASE asst = <<>>
  <2>1. calls = r.pending BY <1>1, <1>2, ConcatEmptySeq
  <2>2. l1 = log BY <1>1, <1>2, ConcatEmptySeq
  <2>3. /\ tools \in Seq(Entry) /\ Len(tools) = Len(r.pending)
        /\ \A k \in 1..Len(r.pending) : tools[k] = [kind |-> "tool", op |-> Current, call |-> r.pending[k].call,
               of |-> IF r.pending[k].of = 0 THEN Len(log) + 1 ELSE r.pending[k].of]
    <3>1. Len(log) + 1 \in Nat BY <1>1
    <3>. HIDE DEF r, calls
    <3>2. Current \in Nat /\ r.pending \in Seq([call : Calls, of : Nat]) BY <1>1
    <3>. DEFINE v == ResultsFor(Current, r.pending, Len(log) + 1)
    <3>3. /\ v \in Seq(Entry) /\ Len(v) = Len(r.pending)
          /\ \A k \in 1..Len(r.pending) : v[k] = [kind |-> "tool", op |-> Current, call |-> r.pending[k].call,
               of |-> IF r.pending[k].of = 0 THEN Len(log) + 1 ELSE r.pending[k].of]
      BY <3>1, <3>2, ResultsKind
    <3>4. tools = v BY <2>1
    <3>. HIDE DEF v, tools
    <3>5. QED BY <3>3, <3>4
  <2>4. \A k \in 1..Len(r.pending) : r.pending[k].of # 0
    <3>1. DOMAIN r.pending = 1..Len(r.pending) BY <1>1
    <3>2. DOMAIN log = 1..Len(log) BY <1>1
    <3>3. QED BY <1>1, <3>1, <3>2 DEF Due
  <2>5. Held(l1, checkpoint, r.pending) BY <1>1, <2>2
  <2>6. Len(asst) = 0 /\ Further(l1, log, Len(asst))
    <3>1. Len(asst) = 0 BY <1>2
    <3>2. QED BY <1>1, <2>2, <3>1 DEF Further
  <2>7. LoggedUsage(l1, 0) = LoggedUsage(log, 0) BY <2>2
  <2>8. /\ \A x : LoggedUsage(l1, x) = LoggedUsage(log, x) + 0
        /\ Cardinality(EveryReport(l1)) = Cardinality(EveryReport(log)) + 0
    <3>1. \A x : LoggedUsage(log, x) \in Nat BY <1>1, LoggedKind
    <3>2. Cardinality(EveryReport(log)) \in Nat BY <1>1, EveryKind
    <3>3. QED BY <2>2, <3>1, <3>2
  <2>9. \A k \in 1..Len(r.pending) : tools[k] =
                               [kind |-> "tool", op |-> Current, call |-> r.pending[k].call, of |-> r.pending[k].of]
    BY <2>3, <2>4
  <2>. HIDE DEF calls, tools, l1
  <2>10. \E p : /\ Held(l1, checkpoint, p) /\ Len(tools) = Len(p)
                /\ \A k \in 1..Len(p) : tools[k] = [kind |-> "tool", op |-> Current, call |-> p[k].call, of |-> p[k].of]
    BY <2>3, <2>5, <2>9
  <2>11. l1 \in Seq(Entry) /\ NotedIds(l1) = NotedIds(log) /\ (Once(log) => Once(l1)) BY <1>1, <2>2
  <2>12. \A k \in 1..Len(asst) : l1[Len(log) + k] = AssistantEntry BY <2>6
  <2>13. QED BY <1>2, <2>3, <2>6, <2>8, <2>10, <2>11, <2>12 DEF calls, tools, l1
<1>3. CASE asst # <<>>
  <2>0. asst = <<AssistantEntry>> /\ at = "answered" BY <1>3
  <2>. DEFINE e == AssistantEntry
              p == Openings(output.calls, Len(log) + 1)
  <2>1. output.calls \in Seq(Calls) /\ output.report \in Report /\ IsInjective(output.calls)
    BY DEF MaintenanceInv, TypeOK, KindInv
  <2>2. /\ e \in Entry /\ e.kind = "assistant" /\ e.calls = output.calls /\ e.op = Current /\ e.report = output.report
        /\ EntryReports(e) = <<output.report>> /\ Carries(e) = <<>>
    BY <1>1, <2>1 DEF AssistantEntry, Entry, EntryReports, Carries
  <2>. HIDE DEF e
  <2>3. asst = <<e>> /\ asst[1] = e /\ Len(asst) = 1 /\ asst \in Seq(Entry) BY <2>0, <2>2 DEF e
  <2>4. r.pending = <<>> BY <2>0 DEF MaintenanceInv, PendingInv
  <2>5. calls = Pending(output.calls)
    <3>1. Pending(output.calls) \in Seq([call : Calls, of : Nat]) BY <2>1, OpeningsKind DEF Pending, Openings
    <3>2. calls = <<>> \o Pending(output.calls) BY <1>3, <2>2, <2>3, <2>4
    <3>3. QED BY <3>1, <3>2, ConcatEmptySeq
  <2>6. /\ calls \in Seq([call : Calls, of : Nat]) /\ Len(calls) = Len(output.calls)
        /\ \A k \in 1..Len(output.calls) : calls[k].call = output.calls[k] /\ calls[k].of = 0
    <3>1. Pending(output.calls) = Openings(output.calls, 0) BY DEF Pending, Openings
    <3>2. DOMAIN output.calls = 1..Len(output.calls) BY <2>1
    <3>. DEFINE v == Openings(output.calls, 0)
    <3>3. 0 \in Nat OBVIOUS
    <3>4. /\ v \in Seq([call : Calls, of : Nat]) /\ Len(v) = Len(output.calls)
          /\ \A k \in DOMAIN output.calls : v[k].call = output.calls[k] /\ v[k].of = 0
      BY <2>1, <3>3, OpeningsKind
    <3>5. calls = v BY <2>5, <3>1
    <3>. HIDE DEF calls, v
    <3>6. QED BY <3>2, <3>4, <3>5
  <2>7. /\ Len(p) = Len(output.calls)
        /\ \A k \in 1..Len(output.calls) : p[k].call = output.calls[k] /\ p[k].of = Len(log) + 1
    <3>1. DOMAIN output.calls = 1..Len(output.calls) /\ Len(log) + 1 \in Nat BY <1>1, <2>1
    <3>2. QED BY <2>1, <3>1, OpeningsKind
  <2>. HIDE DEF calls, p
  <2>8. /\ tools \in Seq(Entry) /\ Len(tools) = Len(calls)
        /\ \A k \in 1..Len(calls) : tools[k] = [kind |-> "tool", op |-> Current, call |-> calls[k].call,
               of |-> IF calls[k].of = 0 THEN Len(log) + 1 ELSE calls[k].of]
    <3>1. Len(log) + 1 \in Nat BY <1>1
    <3>2. QED BY <1>1, <2>6, <3>1, ResultsKind
  <2>. HIDE DEF tools
  <2>9. Len(tools) = Len(p) /\ \A k \in 1..Len(p) : tools[k] =
               [kind |-> "tool", op |-> Current, call |-> p[k].call, of |-> p[k].of]
    BY <2>6, <2>7, <2>8
  <2>10. /\ l1 \in Seq(Entry) /\ Len(l1) = Len(log) + 1 /\ DOMAIN l1 = 1..(Len(log) + 1) /\ DOMAIN log = 1..Len(log)
         /\ \A i \in 1..Len(log) : l1[i] = log[i]
         /\ l1[Len(log) + 1] = e
    <3>1. log \in Seq(Entry) /\ asst \in Seq(Entry) BY <1>1, <2>3
    <3>2. /\ l1 \in Seq(Entry) /\ Len(l1) = Len(log) + Len(asst)
          /\ DOMAIN l1 = 1..(Len(log) + Len(asst)) /\ DOMAIN log = 1..Len(log)
          /\ \A i \in 1..Len(log) : l1[i] = log[i]
          /\ \A k \in 1..Len(asst) : l1[Len(log) + k] = asst[k]
      BY <3>1, Grown
    <3>. HIDE DEF l1
    <3>3. 1 \in 1..Len(asst) BY <2>3
    <3>4. QED BY <2>3, <3>2, <3>3
  <2>. HIDE DEF l1
  <2>11. Further(l1, log, 1) BY <1>1, <2>10 DEF Further
  <2>12. Held(l1, checkpoint, p)
    <3>1. Held(log, checkpoint, <<>>) BY <1>1, <2>4
    <3>2. Held(l1, checkpoint, Openings(l1[Len(log) + 1].calls, Len(log) + 1)) BY <2>1, <2>2, <2>10, <2>11, <3>1, Opens
    <3>3. QED BY <2>2, <2>10, <3>2 DEF p
  <2>13. Accounts(l1, Len(log), 1, 1) BY DEF Accounts
  <2>14. Cardinality(EveryReport(l1)) = Cardinality(EveryReport(log)) + Units(<<output.report>>)
    BY <1>1, <2>2, <2>10, <2>11, <2>13, LoggedGrows
  <2>15. \A x : LoggedUsage(l1, x) = LoggedUsage(log, x) + (IF Current = x THEN Units(<<output.report>>) ELSE 0)
    BY <1>1, <2>2, <2>10, <2>11, <2>13, LoggedGrows
  <2>16. NotedIds(l1) = NotedIds(log) /\ (Once(log) => Once(l1))
    <3>1. FactIds(<<>>) = {} /\ Distinct(<<>>) BY NoFactsList
    <3>2. /\ NotedIds(l1) = NotedIds(log) \cup FactIds(Carries(l1[Len(log) + 1]))
          /\ Once(log) /\ Distinct(Carries(l1[Len(log) + 1])) /\ NotedIds(log) \cap FactIds(Carries(l1[Len(log) + 1])) = {}
                => Once(l1)
      BY <2>11, <2>13, NotedGrow
    <3>3. QED BY <2>2, <2>10, <3>1, <3>2
  <2>17. \E t : /\ Held(l1, checkpoint, t) /\ Len(tools) = Len(t)
                /\ \A k \in 1..Len(t) : tools[k] = [kind |-> "tool", op |-> Current, call |-> t[k].call, of |-> t[k].of]
    BY <2>9, <2>12
  <2>18. \A k \in 1..Len(asst) : l1[Len(log) + k] = AssistantEntry BY <2>3, <2>10 DEF e
  <2>19. Units(<<output.report>>) = IF asst = <<>> THEN 0 ELSE Units(<<output.report>>) BY <1>3
  <2>20. /\ tools \in Seq(Entry) /\ l1 \in Seq(Entry) /\ Further(l1, log, Len(asst)) /\ Len(asst) \in 0..1
         /\ Cardinality(EveryReport(l1)) = Cardinality(EveryReport(log)) + Units(<<output.report>>)
         /\ \A x : LoggedUsage(l1, x) = LoggedUsage(log, x) + (IF Current = x THEN Units(<<output.report>>) ELSE 0)
    BY <2>3, <2>8, <2>10, <2>11, <2>14, <2>15
  <2>21. QED BY <2>16, <2>17, <2>18, <2>19, <2>20 DEF calls, tools, l1
<1>4. QED BY <1>2, <1>3

(* What continues a continuation continues the log. *)
LEMMA FurtherAgain ==
    ASSUME NEW l, NEW l1, NEW l2, NEW a, NEW q, Further(l1, l, a), Further(l2, l1, q)
    PROVE  Further(l2, l, a + q)
<1>1. /\ Len(l) \in Nat /\ a \in Nat /\ Len(l1) = Len(l) + a /\ DOMAIN l1 = 1..Len(l1) /\ DOMAIN l = 1..Len(l)
      /\ \A i \in 1..Len(l) : l1[i] = l[i]
  BY DEF Further
<1>2. /\ q \in Nat /\ Len(l2) = Len(l1) + q /\ DOMAIN l2 = 1..Len(l2) /\ \A i \in 1..Len(l1) : l2[i] = l1[i]
  BY DEF Further
<1>3. QED BY <1>1, <1>2 DEF Further

(* Each further entry comes from the one continuation or the other. *)
LEMMA FurtherEach ==
    ASSUME NEW l, NEW l1, NEW l2, NEW a, NEW q, Further(l1, l, a), Further(l2, l1, q), NEW k \in 1..(a + q)
    PROVE  \/ k \in 1..a /\ l2[Len(l) + k] = l1[Len(l) + k]
           \/ \E j \in 1..q : l2[Len(l) + k] = l2[Len(l1) + j]
<1>1. /\ Len(l) \in Nat /\ a \in Nat /\ Len(l1) = Len(l) + a /\ DOMAIN l1 = 1..Len(l1) /\ DOMAIN l = 1..Len(l)
      /\ \A i \in 1..Len(l) : l1[i] = l[i]
  BY DEF Further
<1>2. /\ q \in Nat /\ Len(l2) = Len(l1) + q /\ DOMAIN l2 = 1..Len(l2) /\ \A i \in 1..Len(l1) : l2[i] = l1[i]
  BY DEF Further
<1>3. CASE k <= a
  <2>1. k \in 1..a /\ Len(l) + k \in 1..Len(l1) BY <1>1, <1>2, <1>3
  <2>2. QED BY <1>2, <2>1
<1>4. CASE ~ (k <= a)
  <2>. DEFINE j == k - a
  <2>1. j \in 1..q /\ Len(l) + k = Len(l1) + j BY <1>1, <1>2, <1>4
  <2>. HIDE DEF j
  <2>2. QED BY <2>1
<1>5. QED BY <1>3, <1>4

(* The settlement names its producer when it must. *)
LEMMA SettlementKind ==
    ASSUME NEW o \in Nat, NEW st \in Statuses, NEW comp \in {"no", "yes"}, NEW f, f.list \in Facts,
           NEW out, out.report \in Report, NEW asst,
           asst = <<>> /\ out.report # "absent" => NamesModel(ops[o], f, out)
    PROVE  LET s == SettlementEntry(o, st, f, comp, out, asst)
           IN  /\ s \in Entry /\ s.kind = "settlement" /\ s.op = o /\ s.facts = f.list
               /\ EntryReports(s) \in Seq(Report)
               /\ Units(EntryReports(s)) + (IF asst = <<>> THEN 0 ELSE Units(<<out.report>>))
                     = Units(FactReports(f.list)) + Units(<<out.report>>)
               /\ asst = <<>> /\ out.report = "absent" /\ NamesModel(ops[o], f, out) => "absent" \in ToSet(EntryReports(s))
               /\ Units(FactReports(f.list)) \in Nat /\ Units(<<out.report>>) \in Nat
<1>. DEFINE s == SettlementEntry(o, st, f, comp, out, asst)
            b == <<out.report>>
            g == FactReports(f.list)
<1>0. "absent" \in Report BY DEF Report
<1>1. /\ s \in Entry /\ s.kind = "settlement" /\ s.op = o /\ s.facts = f.list
      /\ s.model = (IF asst = <<>> /\ NamesModel(ops[o], f, out) THEN "yes" ELSE "no")
      /\ s.report = (IF asst = <<>> THEN out.report ELSE "absent")
  BY <1>0 DEF SettlementEntry, Entry
<1>. HIDE DEF s
<1>2. EntryReports(s) = (IF s.model = "no" THEN <<>> ELSE <<s.report>>) \o FactReports(s.facts)
      /\ EntryReports(s) \in Seq(Report)
  BY <1>1, EntryReportsKind
<1>3. g \in Seq(Report) /\ b \in Seq(Report) /\ b[1] = out.report /\ Len(b) = 1 BY FactReportsKind
<1>4. Units(g) \in Nat /\ Units(b) \in Nat BY <1>3, KnownKinds
<1>. HIDE DEF g
<1>5. Units(b \o g) = Units(b) + Units(g)
  <2>. HIDE DEF b
  <2>1. QED BY <1>3, UnitsJoin
<1>6. CASE asst # <<>>
  <2>1. EntryReports(s) = <<>> \o g BY <1>1, <1>2, <1>6 DEF g
  <2>2. EntryReports(s) = g BY <1>3, <2>1, ConcatEmptySeq
  <2>3. QED BY <1>1, <1>2, <1>4, <1>6, <2>2 DEF g, s
<1>7. CASE asst = <<>> /\ NamesModel(ops[o], f, out)
  <2>1. EntryReports(s) = b \o g BY <1>1, <1>2, <1>7 DEF g
  <2>2. out.report = "absent" => "absent" \in ToSet(EntryReports(s))
    <3>. HIDE DEF b
    <3>1. b \o g \in Seq(Report) /\ DOMAIN (b \o g) = 1..(Len(b) + Len(g)) /\ (b \o g)[1] = b[1] /\ Len(g) \in Nat
      <4>1. b \in Seq(Report) /\ g \in Seq(Report) BY <1>3
      <4>2. b \o g \in Seq(Report) /\ DOMAIN (b \o g) = 1..(Len(b) + Len(g)) /\ Len(g) \in Nat
            /\ \A i \in 1..Len(b) : (b \o g)[i] = b[i]
        BY <4>1, Grown
      <4>3. 1 \in 1..Len(b) BY <1>3
      <4>4. QED BY <4>2, <4>3
    <3>2. 1 \in DOMAIN (b \o g) BY <1>3, <3>1
    <3>3. QED BY <1>3, <2>1, <3>1, <3>2 DEF ToSet
  <2>3. QED BY <1>1, <1>2, <1>4, <1>5, <1>7, <2>1, <2>2 DEF g, s
<1>8. CASE asst = <<>> /\ ~ NamesModel(ops[o], f, out)
  <2>1. EntryReports(s) = <<>> \o g BY <1>1, <1>2, <1>8 DEF g
  <2>2. EntryReports(s) = g BY <1>3, <2>1, ConcatEmptySeq
  <2>3. out.report = "absent" BY <1>8
  <2>4. Units(b) = 0 BY <1>0, <2>3, UnitsOne
  <2>5. QED BY <1>1, <1>2, <1>4, <1>8, <2>2, <2>4 DEF g, s
<1>9. QED BY <1>6, <1>7, <1>8

(* Whatever reported is paid for: the log will account for it, or the
   settlement names a producer without a report, or nothing new was done. *)
Paid(f, out, asst) ==
    \/ spent[Current] = LoggedUsage(log, Current) + (Units(FactReports(f.list)) + Units(<<out.report>>))
    \/ asst = <<>> /\ out.report = "absent" /\ NamesModel(ops[Current], f, out)
    \/ f.list = <<>> /\ out.report = "absent" /\ ops[Current].effect.kind = "none"

(* The log a terminal leaves, seen from the log it found. *)
LEMMA Appended ==
    ASSUME NEW l, NEW l1, NEW a, Further(l1, l, a), NEW cp, NEW p, Held(l1, cp, p), NEW o \in Nat,
           \A k \in 1..a : l1[Len(l) + k].op = o,
           NEW tools \in Seq(Entry), Interrupts(tools, p, o),
           NEW sig, sig = <<>> \/ sig = <<[kind |-> "signal", op |-> o]>>,
           NEW s \in Entry, s.kind = "settlement", s.op = o
    PROVE  LET l2 == l1 \o (tools \o sig \o <<s>>)
           IN  /\ Held(l2, cp, <<>>) /\ l2 \in Seq(Entry)
               /\ Adds(l2, l, o)
               /\ KnownAt(l2, o) => "absent" \notin ToSet(EntryReports(s))
               /\ Cardinality(EveryReport(l2)) = Cardinality(EveryReport(l1)) + Units(EntryReports(s))
               /\ \A x : LoggedUsage(l2, x) = LoggedUsage(l1, x) + (IF o = x THEN Units(EntryReports(s)) ELSE 0)
               /\ NotedIds(l2) = NotedIds(l1) \cup FactIds(s.facts)
               /\ Once(l1) /\ Distinct(s.facts) /\ NotedIds(l1) \cap FactIds(s.facts) = {} => Once(l2)
<1>. DEFINE l2 == l1 \o (tools \o sig \o <<s>>)
<1>1. /\ Held(l2, cp, <<>>) /\ l2 \in Seq(Entry)
      /\ Cardinality(EveryReport(l2)) = Cardinality(EveryReport(l1)) + Units(EntryReports(s))
      /\ \A x : LoggedUsage(l2, x) = LoggedUsage(l1, x) + (IF s.op = x THEN Units(EntryReports(s)) ELSE 0)
      /\ NotedIds(l2) = NotedIds(l1) \cup FactIds(s.facts)
      /\ Once(l1) /\ Distinct(s.facts) /\ NotedIds(l1) \cap FactIds(s.facts) = {} => Once(l2)
  <2>1. Held(l2, cp, <<>>) /\ l2 \in Seq(Entry) BY Settling
  <2>5. Cardinality(EveryReport(l2)) = Cardinality(EveryReport(l1)) + Units(EntryReports(s)) BY Settling
  <2>6. \A x : LoggedUsage(l2, x) = LoggedUsage(l1, x) + (IF s.op = x THEN Units(EntryReports(s)) ELSE 0) BY Settling
  <2>7. NotedIds(l2) = NotedIds(l1) \cup FactIds(s.facts) BY Settling
  <2>8. Once(l1) /\ Distinct(s.facts) /\ NotedIds(l1) \cap FactIds(s.facts) = {} => Once(l2) BY Settling
  <2>. HIDE DEF l2
  <2>9. QED BY <2>1, <2>5, <2>6, <2>7, <2>8
<1>2. PICK q : /\ Further(l2, l1, q) /\ q \in 1..q /\ l2[Len(l1) + q] = s
               /\ \A k \in 1..q : l2[Len(l1) + k].op = o
  <2>1. EndsIn(l2, l1, s, o) BY Settling
  <2>2. QED BY <2>1 DEF EndsIn
<1>. HIDE DEF l2
<1>3. Further(l2, l, a + q) BY <1>2, FurtherAgain
<1>4. ASSUME NEW k \in 1..(a + q) PROVE l2[Len(l) + k].op = o
  <2>1. \/ k \in 1..a /\ l2[Len(l) + k] = l1[Len(l) + k]
        \/ \E j \in 1..q : l2[Len(l) + k] = l2[Len(l1) + j]
    BY <1>2, FurtherEach
  <2>2. QED BY <1>2, <2>1
<1>5. ASSUME KnownAt(l2, o) PROVE "absent" \notin ToSet(EntryReports(s))
  <2>1. \A k \in 1..q : l2[Len(l1) + k].op = o => "absent" \notin ToSet(EntryReports(l2[Len(l1) + k]))
    BY <1>2, <1>5, KnownGrows
  <2>2. QED BY <1>2, <2>1
<1>6. Adds(l2, l, o) BY <1>3, <1>4 DEF Adds
<1>7. QED BY <1>1, <1>5, <1>6 DEF l2

(* A terminal settlement leaves nothing open, records its facts and keeps
   the totals and the estimate true. *)
LEMMA Terminates ==
    ASSUME MaintenanceInv, Running, NEW st \in Statuses, NEW comp \in {"no", "yes"}, NEW f, f.list \in Facts,
           NEW out, out.report \in Report,
           NEW asst, asst = <<>> \/ (asst = <<AssistantEntry>> /\ at = "answered" /\ out = output),
           asst = <<>> /\ out.report # "absent" => ops[Current].effect.kind = "conversation",
           Distinct(f.list), NotedIds(log) \cap FactIds(f.list) = {}, Paid(f, out, asst),
           Terminate(st, asst, out, f, comp), spent' = spent
    PROVE  /\ Held(log', checkpoint', <<>>) /\ ops' \in Seq(Register) /\ Len(ops') = Len(ops) /\ DOMAIN ops' = DOMAIN ops
           /\ \A o \in DOMAIN ops : o # Current => ops'[o] = ops[o]
           /\ ops'[Current].status = st /\ ops'[Current].effect.kind = "none" /\ ops'[Current].pending = <<>>
           /\ usage' \in Nat /\ TotalsMatch' /\ CostHonest' /\ checkpoint' = checkpoint
           /\ \A i \in DOMAIN log' : log'[i].op \in DOMAIN ops'
           /\ NotedIds(log') = NotedIds(log) \cup FactIds(f.list) /\ Once(log')
<1>. DEFINE o     == Current
            r     == ops[o]
            calls == r.pending \o (IF asst = <<>> THEN <<>> ELSE Pending(asst[1].calls))
            tools == ResultsFor(o, calls, Len(log) + 1)
            sig   == IF st = "interruption" THEN <<[kind |-> "signal", op |-> o]>> ELSE <<>>
            s     == SettlementEntry(o, st, f, comp, out, asst)
            l1    == log \o asst
            a     == Len(asst)
            u     == IF asst = <<>> THEN 0 ELSE Units(<<output.report>>)
            units == Units(FactReports(f.list) \o <<out.report>>)
            n     == Units(FactReports(f.list)) + Units(<<out.report>>)
            R     == Terminated(r, st, f, units)
<1>1. /\ log' = l1 \o (tools \o sig \o <<s>>) /\ ops' = [ops EXCEPT ![o] = R] /\ usage' = usage + units
      /\ checkpoint' = checkpoint
  <2>1. log' = log \o asst \o (tools \o sig \o <<s>>) BY Zenon DEF Terminate
  <2>2. ops' = [ops EXCEPT ![o] = R] BY Zenon DEF Terminate
  <2>3. usage' = usage + units BY Zenon DEF Terminate
  <2>4. checkpoint' = checkpoint BY Zenon DEF Terminate
  <2>5. QED BY <2>1, <2>2, <2>3, <2>4
<1>2. /\ ops \in Seq(Register) /\ o \in DOMAIN ops /\ r \in Register /\ o \in Nat /\ log \in Seq(Entry) /\ usage \in Nat
      /\ Len(log) \in Nat /\ DOMAIN ops = 1..o
  BY Reads DEF Held, Readable, MaintenanceInv, TypeOK
<1>3. asst = <<>> \/ (asst = <<AssistantEntry>> /\ at = "answered") OBVIOUS
<1>4. /\ \E p : /\ Held(l1, checkpoint, p) /\ Len(tools) = Len(p)
                /\ \A k \in 1..Len(p) : tools[k] = [kind |-> "tool", op |-> o, call |-> p[k].call, of |-> p[k].of]
      /\ tools \in Seq(Entry) /\ l1 \in Seq(Entry) /\ Further(l1, log, a) /\ a \in 0..1
      /\ \A k \in 1..a : l1[Len(log) + k] = AssistantEntry
      /\ NotedIds(l1) = NotedIds(log) /\ (Once(log) => Once(l1))
      /\ Cardinality(EveryReport(l1)) = Cardinality(EveryReport(log)) + u
      /\ \A x : LoggedUsage(l1, x) = LoggedUsage(log, x) + (IF o = x THEN u ELSE 0)
  BY <1>3, Reopens
<1>5. asst = <<>> /\ out.report # "absent" => NamesModel(ops[o], f, out) BY DEF NamesModel
<1>6. /\ s \in Entry /\ s.kind = "settlement" /\ s.op = o /\ s.facts = f.list
      /\ EntryReports(s) \in Seq(Report)
      /\ Units(EntryReports(s)) + (IF asst = <<>> THEN 0 ELSE Units(<<out.report>>)) = n
      /\ asst = <<>> /\ out.report = "absent" /\ NamesModel(ops[o], f, out) => "absent" \in ToSet(EntryReports(s))
      /\ Units(FactReports(f.list)) \in Nat /\ Units(<<out.report>>) \in Nat
  <2>1. o \in Nat BY <1>2
  <2>2. asst = <<>> /\ out.report # "absent" => NamesModel(ops[o], f, out) BY <1>5
  <2>. HIDE DEF o
  <2>3. s \in Entry /\ s.kind = "settlement" /\ s.op = o /\ s.facts = f.list
    <3>1. "absent" \in Report BY DEF Report
    <3>2. QED BY <2>1, <3>1 DEF SettlementEntry, Entry
  <2>4. EntryReports(s) \in Seq(Report) BY <2>1, <2>2, SettlementKind
  <2>5. Units(EntryReports(s)) + (IF asst = <<>> THEN 0 ELSE Units(<<out.report>>)) = n
    BY <2>1, <2>2, SettlementKind
  <2>6. asst = <<>> /\ out.report = "absent" /\ NamesModel(ops[o], f, out) => "absent" \in ToSet(EntryReports(s))
    BY <2>1, <2>2, SettlementKind
  <2>7. Units(FactReports(f.list)) \in Nat /\ Units(<<out.report>>) \in Nat BY <2>1, <2>2, SettlementKind
  <2>8. QED BY <2>3, <2>4, <2>5, <2>6, <2>7
<1>7. n \in Nat /\ units = n
  <2>. DEFINE v == FactReports(f.list)
              w == <<out.report>>
  <2>1. v \in Seq(Report) /\ w \in Seq(Report) BY FactReportsKind
  <2>. HIDE DEF v, w
  <2>2. Units(v \o w) = Units(v) + Units(w) BY <2>1, UnitsJoin
  <2>3. QED BY <1>6, <2>2 DEF v, w
<1>8. Units(EntryReports(s)) + u = n /\ Units(EntryReports(s)) \in Nat /\ u \in Nat
  <2>1. Units(EntryReports(s)) \in Nat BY <1>6, KnownKinds
  <2>2. u = IF asst = <<>> THEN 0 ELSE Units(<<out.report>>) OBVIOUS
  <2>3. QED BY <1>6, <2>1, <2>2
<1>9. sig = <<>> \/ sig = <<[kind |-> "signal", op |-> o]>> OBVIOUS
<1>10. R \in Register /\ R.status = st /\ R.effect.kind = "none" /\ R.pending = <<>> /\ R.usage = r.usage + n
       /\ (f.list = <<>> => R.unreported = r.unreported)
  <2>1. units \in Nat BY <1>7
  <2>2. units = n BY <1>7
  <2>3. NoEffect \in [kind : {"none", "conversation", "maintenance"}, id : Nat] /\ NoEffect.kind = "none" BY DEF NoEffect
  <2>4. NoRequest \in Request BY DEF NoRequest, Request
  <2>5. st \in {"running"} \cup Statuses OBVIOUS
  <2>6. <<>> \in Seq([call : Calls, of : Nat]) OBVIOUS
  <2>. HIDE DEF units, n, r
  <2>7. r \in Register BY <1>2
  <2>8. r.usage + units \in Nat /\ (IF f.list # <<>> THEN "no" ELSE r.unreported) \in {"no", "yes"} BY <2>1, <2>7 DEF Register
  <2>9. R \in Register BY <2>3, <2>4, <2>5, <2>6, <2>7, <2>8 DEF Register, Terminated
  <2>10. /\ R.status = st /\ R.effect = NoEffect /\ R.pending = <<>> /\ R.usage = r.usage + units
         /\ (f.list = <<>> => R.unreported = r.unreported)
    BY <2>7 DEF Register, Terminated
  <2>11. QED BY <2>2, <2>3, <2>9, <2>10
<1>11. /\ ops' \in Seq(Register) /\ Len(ops') = Len(ops) /\ DOMAIN ops' = DOMAIN ops /\ ops'[o] = R
       /\ \A x \in DOMAIN ops : x # o => ops'[x] = ops[x]
  <2>. HIDE DEF R, o
  <2>1. QED BY <1>1, <1>2, <1>10, Rewrites
<1>p. PICK p : /\ Held(l1, checkpoint, p) /\ Len(tools) = Len(p)
              /\ \A k \in 1..Len(p) : tools[k] = [kind |-> "tool", op |-> o, call |-> p[k].call, of |-> p[k].of]
  BY <1>4
<1>. DEFINE l2 == l1 \o (tools \o sig \o <<s>>)
<1>. HIDE DEF tools, sig, s, l1, u, units, n, R, a, o
<1>15. AssistantEntry.op = o BY DEF AssistantEntry, o
<1>12. /\ Held(l2, checkpoint, <<>>) /\ l2 \in Seq(Entry)
       /\ Adds(l2, log, o)
       /\ KnownAt(l2, o) => "absent" \notin ToSet(EntryReports(s))
       /\ Cardinality(EveryReport(l2)) = Cardinality(EveryReport(l1)) + Units(EntryReports(s))
       /\ \A x : LoggedUsage(l2, x) = LoggedUsage(l1, x) + (IF o = x THEN Units(EntryReports(s)) ELSE 0)
       /\ NotedIds(l2) = NotedIds(l1) \cup FactIds(s.facts)
       /\ Once(l1) /\ Distinct(s.facts) /\ NotedIds(l1) \cap FactIds(s.facts) = {} => Once(l2)
  <2>1. Held(l1, checkpoint, p) /\ o \in Nat /\ tools \in Seq(Entry) /\ Interrupts(tools, p, o)
    BY <1>2, <1>4, <1>p DEF Interrupts
  <2>2. sig = <<>> \/ sig = <<[kind |-> "signal", op |-> o]>> BY <1>9
  <2>3. s \in Entry /\ s.kind = "settlement" /\ s.op = o BY <1>6
  <2>4. Further(l1, log, a) /\ \A k \in 1..a : l1[Len(log) + k].op = o BY <1>4, <1>15
  <2>a. Held(l2, checkpoint, <<>>) BY <2>1, <2>2, <2>3, <2>4, Appended
  <2>b. l2 \in Seq(Entry) BY <2>a DEF Held, Readable
  <2>5. Held(l2, checkpoint, <<>>) /\ l2 \in Seq(Entry) BY <2>a, <2>b
  <2>6. Adds(l2, log, o) BY <2>1, <2>2, <2>3, <2>4, Appended
  <2>7. KnownAt(l2, o) => "absent" \notin ToSet(EntryReports(s)) BY <2>1, <2>2, <2>3, <2>4, Appended
  <2>8. Cardinality(EveryReport(l2)) = Cardinality(EveryReport(l1)) + Units(EntryReports(s))
    BY <2>1, <2>2, <2>3, <2>4, Appended
  <2>9. \A x : LoggedUsage(l2, x) = LoggedUsage(l1, x) + (IF o = x THEN Units(EntryReports(s)) ELSE 0)
    BY <2>1, <2>2, <2>3, <2>4, Appended
  <2>10. /\ NotedIds(l2) = NotedIds(l1) \cup FactIds(s.facts)
         /\ Once(l1) /\ Distinct(s.facts) /\ NotedIds(l1) \cap FactIds(s.facts) = {} => Once(l2)
    BY <2>1, <2>2, <2>3, <2>4, Appended
  <2>. HIDE DEF l2
  <2>11. QED BY <2>5, <2>6, <2>7, <2>8, <2>9, <2>10
<1>13. log' = l2 BY <1>1
<1>. HIDE DEF l2
<1>14. PICK q : Further(l2, log, q) /\ \A k \in 1..q : l2[Len(log) + k].op = o BY <1>12 DEF Adds
<1>17. Cardinality(EveryReport(l2)) = Cardinality(EveryReport(log)) + n
  <2>1. Cardinality(EveryReport(log)) \in Nat BY <1>2, EveryKind
  <2>2. QED BY <1>4, <1>8, <1>12, <2>1
<1>18. \A x : LoggedUsage(l2, x) = LoggedUsage(log, x) + (IF x = o THEN n ELSE 0)
  <2>. SUFFICES ASSUME NEW x PROVE LoggedUsage(l2, x) = LoggedUsage(log, x) + (IF x = o THEN n ELSE 0) OBVIOUS
  <2>1. LoggedUsage(log, x) \in Nat BY <1>2, LoggedKind
  <2>2. CASE x = o BY <1>4, <1>6, <1>8, <1>12, <2>1, <2>2
  <2>3. CASE x # o BY <1>4, <1>6, <1>8, <1>12, <2>1, <2>3
  <2>4. QED BY <2>2, <2>3
<1>19. /\ TotalsMatch'
       /\ \A i \in DOMAIN log' : log'[i].op \in DOMAIN ops'
       /\ \A x \in DOMAIN ops' : x # Current /\ ops'[x].effect.kind = "none" /\ EstimateKnown(x)'
             => LoggedUsage(log', x) = spent'[x]
  <2>1. /\ log' \in Seq(Entry) /\ Further(log', log, q) /\ n \in Nat
        /\ \A k \in 1..q : log'[Len(log) + k].op = Current
        /\ \A x : LoggedUsage(log', x) = LoggedUsage(log, x) + (IF x = Current THEN n ELSE 0)
        /\ Cardinality(EveryReport(log')) = Cardinality(EveryReport(log)) + n
    BY <1>7, <1>12, <1>13, <1>14, <1>17, <1>18 DEF o
  <2>2. /\ DOMAIN ops' = DOMAIN ops /\ \A x \in DOMAIN ops : x # Current => ops'[x] = ops[x]
        /\ ops'[Current].usage = ops[Current].usage + n /\ usage' = usage + n
    BY <1>1, <1>7, <1>10, <1>11 DEF o
  <2>3. QED BY <2>1, <2>2, TotalsKept
<1>20. CostHonest'
  <2>. SUFFICES ASSUME NEW x \in DOMAIN ops', x = Current, EstimateKnown(x)' PROVE LoggedUsage(log', x) = spent'[x]
    BY <1>19 DEF CostHonest
  <2>0. x = o /\ KnownAt(log', x) /\ ops'[x].unreported = "no" BY DEF EstimateKnown, KnownAt, o
  <2>1. KnownAt(log', o) /\ ops'[o].unreported = "no" BY <2>0
  <2>2. KnownAt(log, o) BY <1>13, <1>14, <2>1, KnownGrows
  <2>3. LoggedUsage(log', o) = LoggedUsage(log, o) + n /\ LoggedUsage(log, o) \in Nat BY <1>2, <1>13, <1>18, LoggedKind
  <2>4. CASE spent[Current] = LoggedUsage(log, Current) + (Units(FactReports(f.list)) + Units(<<out.report>>))
    BY <2>0, <2>3, <2>4 DEF o, n
  <2>5. CASE asst = <<>> /\ out.report = "absent" /\ NamesModel(ops[Current], f, out)
    <3>1. "absent" \in ToSet(EntryReports(s)) BY <1>6, <2>5 DEF o
    <3>2. KnownAt(l2, o) BY <1>13, <2>1
    <3>3. QED BY <1>12, <3>1, <3>2
  <2>6. CASE f.list = <<>> /\ out.report = "absent" /\ ops[Current].effect.kind = "none"
    <3>1. ops[o].unreported = "no" BY <1>10, <1>11, <2>1, <2>6
    <3>2. EstimateKnown(o) BY <2>2, <3>1 DEF EstimateKnown, KnownAt
    <3>3. o \in DOMAIN ops BY <1>2
    <3>4. LoggedUsage(log, o) = spent[o] BY <2>6, <3>2, <3>3 DEF MaintenanceInv, CostHonest, o
    <3>5. n = 0
      <4>1. Units(FactReports(f.list)) = 0 BY <2>6, NoFactsList
      <4>2. Units(<<out.report>>) = 0 BY <2>6, UnitsOne
      <4>3. QED BY <4>1, <4>2 DEF n
    <3>6. QED BY <2>0, <2>3, <3>4, <3>5
  <2>7. QED BY <2>4, <2>5, <2>6 DEF Paid
<1>21. NotedIds(log') = NotedIds(log) \cup FactIds(f.list) /\ Once(log')
  <2>1. Once(log) BY DEF MaintenanceInv, FactInv
  <2>2. QED BY <1>4, <1>6, <1>12, <1>13, <2>1
<1>22. usage' \in Nat BY <1>1, <1>2, <1>7
<1>23. Held(log', checkpoint', <<>>) BY <1>1, <1>12, <1>13
<1>24. QED BY <1>1, <1>10, <1>11, <1>19, <1>20, <1>21, <1>22, <1>23 DEF o

(* What an ended execution and the log it leaves amount to. *)
LEMMA Rested ==
    ASSUME MaintenanceInv, Held(log', checkpoint', <<>>), at' = "idle", EndExecution, ~ Running',
           ops' \in Seq(Register), Len(ops') <= scope.ops, scope' = scope,
           \A o \in DOMAIN ops' : ops'[o].status # "running" /\ ops'[o].effect.kind = "none" /\ ops'[o].pending = <<>>,
           usage' \in Nat, TotalsMatch', CostHonest', \A i \in DOMAIN log' : log'[i].op \in DOMAIN ops',
           \A o \in DOMAIN spent : o > Len(ops') => spent[o] = 0,
           Once(log'), NotedIds(log') \subseteq 0..(ids' - 1), ids' \in {ids, ids + 1},
           faults' \in Nat, crashes' \in Nat, cancels' \in Nat, spent' = spent
    PROVE  MaintenanceInv'
<1>1. facts' = NoFacts /\ pendingFacts' = <<>> /\ plan' = NoPlan /\ output' = NoOutput /\ canceled' = "no" /\ round' = 0
      /\ frozen' = NoInput
  BY DEF EndExecution
<1>2. /\ KindInv' /\ EffectInv' /\ FrozenInv' /\ RequestInv' /\ SummaryInv' /\ FactInv'
      /\ ~ Alive' /\ facts'.list = <<>>
      /\ facts' \in Procedure /\ pendingFacts' \in Facts
      /\ plan' \in [kind : {"none", "model", "checkpoint"}, boundary : Nat,
                    retain : SUBSET (DOMAIN frozen'.messages), context : {"no", "yes"}]
      /\ output' \in [status : {"none", "completed", "errored", "interrupted"}, calls : Seq(Calls), report : Report]
  BY <1>1, AtRest
<1>3. OwnInv' /\ CheckpointInv' /\ PairInv'
  <2>1. Open' = <<>> BY DEF Open
  <2>2. QED BY <2>1, Holds
<1>4. RunInv' BY <1>1, <1>2 DEF RunInv, Alive
<1>5. PendingInv' BY DEF PendingInv
<1>6. CostInv' BY <1>2 DEF CostInv
<1>7. TypeOK'
  <2>1. scope' \in Scopes /\ spent' \in [1..scope'.ops -> Nat] /\ ids \in Nat \ {0} BY DEF MaintenanceInv, TypeOK
  <2>2. log' \in Seq(Entry) /\ checkpoint' \in 0..Len(log') /\ (checkpoint' # 0 => log'[checkpoint'].kind = "checkpoint")
    BY DEF Held, Readable
  <2>3. frozen' \in [cp : Nat, boundary : Nat, messages : Seq(ViewMessage)]
    <3>1. <<>> \in Seq(ViewMessage) OBVIOUS
    <3>2. QED BY <1>1, <3>1 DEF NoInput
  <2>4. ids' \in Nat \ {0} BY <2>1
  <2>5. canceled' \in {"no", "yes"} /\ round' \in Nat BY <1>1
  <2>6. facts' \in [list : Facts, source : Nat, consumed : {"no", "yes"}] BY <1>2 DEF Procedure
  <2>7. Len(ops') <= scope'.ops OBVIOUS
  <2>8. QED BY <1>2, <2>1, <2>2, <2>3, <2>4, <2>5, <2>6, <2>7 DEF TypeOK
<1>8. QED BY <1>2, <1>3, <1>4, <1>5, <1>6, <1>7 DEF MaintenanceInv

(* An execution that ends in a terminal settlement keeps the invariant. *)
LEMMA Ends ==
    ASSUME MaintenanceInv, Running, NEW st \in Statuses, NEW comp \in {"no", "yes"}, NEW f, f.list \in Facts,
           NEW out, out.report \in Report,
           NEW asst, asst = <<>> \/ (asst = <<AssistantEntry>> /\ at = "answered" /\ out = output),
           asst = <<>> /\ out.report # "absent" => ops[Current].effect.kind = "conversation",
           Distinct(f.list), NotedIds(log) \cap FactIds(f.list) = {}, Paid(f, out, asst),
           FactIds(f.list) \subseteq 0..(ids' - 1), ids' \in {ids, ids + 1},
           Terminate(st, asst, out, f, comp), EndExecution, UNCHANGED <<faults, crashes, spent, cancels, scope>>
    PROVE  MaintenanceInv'
<1>1. spent' = spent /\ scope' = scope /\ at' = "idle" BY DEF EndExecution
<1>2. /\ Held(log', checkpoint', <<>>) /\ ops' \in Seq(Register) /\ Len(ops') = Len(ops) /\ DOMAIN ops' = DOMAIN ops
      /\ \A o \in DOMAIN ops : o # Current => ops'[o] = ops[o]
      /\ ops'[Current].status = st /\ ops'[Current].effect.kind = "none" /\ ops'[Current].pending = <<>>
      /\ usage' \in Nat /\ TotalsMatch' /\ CostHonest' /\ checkpoint' = checkpoint
      /\ \A i \in DOMAIN log' : log'[i].op \in DOMAIN ops'
      /\ NotedIds(log') = NotedIds(log) \cup FactIds(f.list) /\ Once(log')
  BY <1>1, Terminates
<1>3. Current' = Current /\ Current \in DOMAIN ops BY <1>2, Reads DEF Current
<1>4. st # "running" BY DEF Statuses
<1>5. ~ Running' BY <1>2, <1>3, <1>4 DEF Running
<1>6. \A o \in DOMAIN ops' : ops'[o].status # "running" /\ ops'[o].effect.kind = "none" /\ ops'[o].pending = <<>>
  <2>. SUFFICES ASSUME NEW o \in DOMAIN ops
                PROVE  ops'[o].status # "running" /\ ops'[o].effect.kind = "none" /\ ops'[o].pending = <<>>
    BY <1>2
  <2>1. CASE o = Current BY <1>2, <1>4, <2>1
  <2>2. CASE o # Current
    <3>1. ops'[o] = ops[o] BY <1>2, <2>2
    <3>2. ops[o].status # "running" BY <2>2 DEF MaintenanceInv, RunInv, Current
    <3>3. ops[o].effect.kind = "none" /\ ops[o].pending = <<>> BY <3>2 DEF MaintenanceInv, RunInv
    <3>4. QED BY <3>1, <3>2, <3>3
  <2>3. QED BY <2>1, <2>2
<1>7. \A o \in DOMAIN spent : o > Len(ops') => spent[o] = 0 BY <1>2 DEF MaintenanceInv, CostInv
<1>8. NotedIds(log') \subseteq 0..(ids' - 1)
  <2>1. NotedIds(log) \subseteq 0..(ids - 1) BY DEF MaintenanceInv, FactInv
  <2>2. ids \in Nat BY DEF MaintenanceInv, TypeOK
  <2>3. 0..(ids - 1) \subseteq 0..(ids' - 1)
    <3>1. CASE ids' = ids BY <3>1
    <3>2. CASE ids' = ids + 1 BY <2>2, <3>2
    <3>3. QED BY <3>1, <3>2
  <2>4. QED BY <1>2, <2>1, <2>3
<1>9. Len(ops') <= scope.ops /\ faults' \in Nat /\ crashes' \in Nat /\ cancels' \in Nat BY <1>2 DEF MaintenanceInv, TypeOK
<1>10. QED BY <1>1, <1>2, <1>5, <1>6, <1>7, <1>8, <1>9, Rested

-----------------------------------------------------------------------------
(* What a step that writes nothing durable leaves as it was. *)
LEMMA Same ==
    ASSUME MaintenanceInv, UNCHANGED <<durable, scope>>
    PROVE  /\ OwnInv' /\ CheckpointInv' /\ PairInv' /\ TotalsMatch'
           /\ View' = View /\ (Running' <=> Running) /\ Current' = Current /\ (Manual' <=> Manual)
           /\ ContextMeasurement' = ContextMeasurement
           /\ log' = log /\ checkpoint' = checkpoint /\ usage' = usage /\ ops' = ops /\ scope' = scope
<1>1. log' = log /\ checkpoint' = checkpoint /\ usage' = usage /\ ops' = ops /\ scope' = scope BY DEF durable
<1>2. Current' = Current BY <1>1 DEF Current
<1>3. Running' <=> Running BY <1>1, <1>2 DEF Running
<1>4. Manual' <=> Manual BY <1>1, <1>2 DEF Manual
<1>5. View' = View BY <1>1 DEF View
<1>6. ContextMeasurement' = ContextMeasurement BY <1>1 DEF ContextMeasurement, LatestUsage
<1>7. Asked' = Asked BY <1>1, <1>2, <1>3 DEF Asked
<1>8. OwnInv' BY <1>1 DEF MaintenanceInv, OwnInv
<1>9. CheckpointInv' BY <1>1 DEF MaintenanceInv, CheckpointInv
<1>10. PairInv' BY <1>5, <1>7 DEF MaintenanceInv, PairInv
<1>11. TotalsMatch' BY <1>1 DEF MaintenanceInv, TotalsMatch
<1>12. QED BY <1>1, <1>2, <1>3, <1>4, <1>5, <1>6, <1>8, <1>9, <1>10, <1>11

(* A lost publication leaves the durable state to recovery. *)
LEMMA Loses ==
    ASSUME MaintenanceInv, Alive, Lost, ids' \in {ids, ids + 1}, scope' = scope
    PROVE  MaintenanceInv'
<1>1. UNCHANGED <<durable, scope, spent, canceled, round, frozen, facts, pendingFacts, plan, output, crashes, cancels>>
      /\ at' = "dead" /\ faults' = faults + 1
  BY DEF Lost
<1>2. /\ OwnInv' /\ CheckpointInv' /\ PairInv' /\ TotalsMatch'
      /\ View' = View /\ (Running' <=> Running) /\ Current' = Current
      /\ log' = log /\ checkpoint' = checkpoint /\ usage' = usage /\ ops' = ops /\ scope' = scope
  BY <1>1, Same
<1>3. TypeOK'
  <2>1. TypeOK BY DEF MaintenanceInv
  <2>2. ids' \in Nat \ {0} /\ faults' \in Nat BY <1>1, <2>1 DEF TypeOK
  <2>3. QED BY <1>1, <1>2, <2>1, <2>2 DEF TypeOK
<1>4. RunInv' BY <1>1, <1>2 DEF MaintenanceInv, RunInv, Alive
<1>5. KindInv' BY <1>1, <1>2 DEF MaintenanceInv, KindInv, Alive, Maintaining
<1>6. EffectInv' BY <1>1 DEF EffectInv, Alive
<1>7. PendingInv' BY <1>1, <1>2 DEF MaintenanceInv, PendingInv
<1>8. FrozenInv' /\ RequestInv' /\ SummaryInv' BY <1>1 DEF FrozenInv, RequestInv, SummaryInv, Maintaining, Alive
<1>9. FactInv'
  <2>1. ids \in Nat BY DEF MaintenanceInv, TypeOK
  <2>2. \A i \in 0..(ids - 1) : i \in 0..(ids' - 1)
    <3>1. CASE ids' = ids BY <3>1
    <3>2. CASE ids' = ids + 1 BY <2>1, <3>2
    <3>3. QED BY <3>1, <3>2
  <2>3. FactInv BY DEF MaintenanceInv
  <2>4. NotedIds(log') \cup FactIds(facts'.list) \cup FactIds(pendingFacts') \subseteq 0..(ids' - 1)
    BY <1>1, <1>2, <2>2, <2>3 DEF FactInv
  <2>5. QED BY <1>1, <1>2, <2>3, <2>4 DEF FactInv, Maintaining
<1>10. CostInv' BY <1>1, <1>2 DEF MaintenanceInv, CostInv, Alive
<1>11. CostHonest' BY <1>1, <1>2 DEF MaintenanceInv, CostHonest, EstimateKnown
<1>12. QED BY <1>2, <1>3, <1>4, <1>5, <1>6, <1>7, <1>8, <1>9, <1>10, <1>11 DEF MaintenanceInv

(* What is pending of the execution joins the facts of its end. *)
LEMMA Joined ==
    ASSUME MaintenanceInv, NEW f \in Procedure
    PROVE  /\ ConsumePending(f) \in Procedure /\ ConsumePending(f).list = pendingFacts \o f.list
           /\ ConsumePending(f).list \in Facts
           /\ FactIds(ConsumePending(f).list) = FactIds(pendingFacts) \cup FactIds(f.list)
           /\ Distinct(f.list) /\ FactIds(pendingFacts) \cap FactIds(f.list) = {} => Distinct(ConsumePending(f).list)
           /\ Units(FactReports(ConsumePending(f).list)) = Units(FactReports(pendingFacts)) + Units(FactReports(f.list))
           /\ Units(FactReports(pendingFacts)) \in Nat /\ Units(FactReports(f.list)) \in Nat
<1>1. pendingFacts \in Facts /\ Distinct(pendingFacts) BY DEF MaintenanceInv, TypeOK, FactInv
<1>2. f.list \in Facts BY DEF Procedure
<1>3. ConsumePending(f) = [f EXCEPT !.list = pendingFacts \o f.list] BY DEF ConsumePending
<1>4. pendingFacts \o f.list \in Facts BY <1>1, <1>2, FactReportsJoin
<1>5. ConsumePending(f) \in Procedure /\ ConsumePending(f).list = pendingFacts \o f.list BY <1>3, <1>4 DEF Procedure
<1>6. FactIds(pendingFacts \o f.list) = FactIds(pendingFacts) \cup FactIds(f.list) BY <1>1, <1>2, FactIdsJoin
<1>7. Distinct(f.list) /\ FactIds(pendingFacts) \cap FactIds(f.list) = {} => Distinct(pendingFacts \o f.list)
  BY <1>1, <1>2, FactIdsJoin
<1>8. Units(FactReports(pendingFacts \o f.list)) = Units(FactReports(pendingFacts)) + Units(FactReports(f.list))
  BY <1>1, <1>2, FactReportsJoin
<1>9. Units(FactReports(pendingFacts)) \in Nat /\ Units(FactReports(f.list)) \in Nat
  BY <1>1, <1>2, FactReportsKind, KnownKinds
<1>10. QED BY <1>4, <1>5, <1>6, <1>7, <1>8, <1>9

(* What ends an execution: the facts f and the output out say all that the
   execution carried, or the settlement names the producer that is silent. *)
Says(f, out, asst) ==
    \/ Carried = Units(FactReports(pendingFacts)) + (Units(FactReports(f.list)) + Units(<<out.report>>))
    \/ asst = <<>> /\ out.report = "absent" /\ NamesModel(ops[Current], ConsumePending(f), out)

(* A terminal publication, made or lost, keeps the invariant. *)
LEMMA Publishes ==
    ASSUME MaintenanceInv, Alive, NEW st \in Statuses, NEW comp \in {"no", "yes"}, NEW f \in Procedure,
           NEW out, out.report \in Report,
           NEW asst, asst = <<>> \/ (asst = <<AssistantEntry>> /\ at = "answered" /\ out = output),
           asst = <<>> /\ out.report # "absent" => ops[Current].effect.kind = "conversation",
           Distinct(f.list), (NotedIds(log) \cup FactIds(pendingFacts)) \cap FactIds(f.list) = {},
           FactIds(f.list) \subseteq 0..(ids' - 1), ids' \in {ids, ids + 1}, Says(f, out, asst),
           Publish(st, asst, out, f, comp), scope' = scope
    PROVE  MaintenanceInv'
<1>1. CASE Lost BY <1>1, Loses
<1>2. CASE Terminate(st, asst, out, ConsumePending(f), comp) /\ EndExecution /\ UNCHANGED <<faults, crashes, spent, cancels>>
  <2> DEFINE g == ConsumePending(f)
  <2>1. /\ g.list \in Facts /\ FactIds(g.list) = FactIds(pendingFacts) \cup FactIds(f.list) /\ Distinct(g.list)
        /\ Units(FactReports(g.list)) = Units(FactReports(pendingFacts)) + Units(FactReports(f.list))
        /\ Units(FactReports(pendingFacts)) \in Nat /\ Units(FactReports(f.list)) \in Nat
    BY Joined
  <2>2. Running BY DEF MaintenanceInv, RunInv
  <2>3. NotedIds(log) \cap FactIds(g.list) = {} BY <2>1 DEF MaintenanceInv, FactInv
  <2>4. FactIds(g.list) \subseteq 0..(ids' - 1)
    <3>1. FactIds(pendingFacts) \subseteq 0..(ids - 1) BY DEF MaintenanceInv, FactInv
    <3>2. ids \in Nat BY DEF MaintenanceInv, TypeOK
    <3>3. 0..(ids - 1) \subseteq 0..(ids' - 1)
      <4>1. CASE ids' = ids BY <4>1
      <4>2. CASE ids' = ids + 1 BY <3>2, <4>2
      <4>3. QED BY <4>1, <4>2
    <3>4. QED BY <2>1, <3>1, <3>3
  <2>5. Paid(g, out, asst)
    <3>1. CASE asst = <<>> /\ out.report = "absent" /\ NamesModel(ops[Current], g, out) BY <3>1 DEF Paid
    <3>2. CASE Carried = Units(FactReports(pendingFacts)) + (Units(FactReports(f.list)) + Units(<<out.report>>))
      <4>1. Units(<<out.report>>) \in Nat BY UnitsOne
      <4>2. Carried = Units(FactReports(g.list)) + Units(<<out.report>>) BY <2>1, <3>2, <4>1
      <4>3. spent[Current] = LoggedUsage(log, Current) + Carried BY DEF MaintenanceInv, CostInv
      <4>4. QED BY <4>2, <4>3 DEF Paid
    <3>3. QED BY <3>1, <3>2 DEF Says
  <2>6. Terminate(st, asst, out, g, comp) /\ EndExecution /\ UNCHANGED <<faults, crashes, spent, cancels, scope>> BY <1>2
  <2> HIDE DEF g
  <2>7. QED BY <2>1, <2>2, <2>3, <2>4, <2>5, <2>6, Ends
<1>3. QED BY <1>1, <1>2 DEF Publish

(* An end without an output, before or after any model request. *)
LEMMA Settles ==
    ASSUME MaintenanceInv, Alive, at \notin {"answered", "summarized"},
           NEW st \in Statuses, NEW comp \in {"no", "yes"}, NEW f \in Procedure, f.list = facts.list,
           EndWith(st, <<>>, NoOutput, f, comp), scope' = scope
    PROVE  MaintenanceInv'
<1>1. Publish(st, <<>>, NoOutput, f, comp) /\ ids' = ids BY DEF EndWith
<1>2. NoOutput.report = "absent" /\ NoOutput.report \in Report BY DEF NoOutput, Report
<1>3. /\ Distinct(f.list) /\ (NotedIds(log) \cup FactIds(pendingFacts)) \cap FactIds(f.list) = {}
      /\ FactIds(f.list) \subseteq 0..(ids - 1)
  BY DEF MaintenanceInv, FactInv
<1>4. Says(f, NoOutput, <<>>)
  <2>1. Units(<<NoOutput.report>>) = 0 BY <1>2, UnitsOne
  <2>2. Units(FactReports(f.list)) \in Nat BY Joined
  <2>3. Units(FactReports(f.list)) + Units(<<NoOutput.report>>) = Units(FactReports(facts.list)) BY <2>1, <2>2
  <2>4. Carried = Units(FactReports(pendingFacts)) + Units(FactReports(facts.list))
    <3>1. Units(FactReports(pendingFacts)) \in Nat BY Joined
    <3>2. Units(FactReports(facts.list)) \in Nat BY <2>2
    <3>3. QED BY <3>1, <3>2 DEF Carried
  <2>5. QED BY <2>3, <2>4 DEF Says
<1>5. QED BY <1>1, <1>2, <1>3, <1>4, Publishes

(* The procedure, its facts and the terminal statuses are of their kinds. *)
LEMMA FactsKind ==
    ASSUME MaintenanceInv
    PROVE  /\ facts \in Procedure /\ NoFacts \in Procedure /\ NoFacts.list = <<>> /\ pendingFacts \in Facts
           /\ {"success", "failure", "interruption"} \subseteq Statuses
BY NoFactsList DEF MaintenanceInv, TypeOK, Procedure, NoFacts, Statuses

(* A maintenance procedure that settles keeps the invariant
   (settleMaintenance). *)
LEMMA SettlesMaintenance ==
    ASSUME MaintenanceInv, Maintaining, at # "summarized", NEW st \in Statuses, SettleMaintenance(st), scope' = scope
    PROVE  MaintenanceInv'
<1>1. Alive /\ at # "answered" BY DEF Maintaining, Alive
<1>2. QED BY <1>1, FactsKind, Settles DEF SettleMaintenance

(* A conversation that settles without an output keeps the invariant. *)
LEMMA SettlesConversation ==
    ASSUME MaintenanceInv, at \in {"source", "dispatch", "answer", "tools", "over"}, NEW st \in Statuses,
           EndWith(st, <<>>, NoOutput, NoFacts, "no"), scope' = scope
    PROVE  MaintenanceInv'
<1>1. Alive /\ ~ Maintaining BY DEF Maintaining, Alive
<1>2. facts.list = <<>> BY <1>1 DEF MaintenanceInv, KindInv
<1>3. QED BY <1>1, <1>2, FactsKind, Settles

(* The Engine's success keeps the invariant. *)
LEMMA OverKeeps == ASSUME MaintenanceInv, Over PROVE MaintenanceInv'
<1>1. CASE canceled = "yes" BY <1>1, FactsKind, SettlesConversation DEF Over
<1>2. CASE canceled # "yes" BY <1>2, FactsKind, SettlesConversation DEF Over
<1>3. QED BY <1>1, <1>2

(* A canceled batch of calls keeps the invariant. *)
LEMMA StopBatchKeeps == ASSUME MaintenanceInv, StopBatch PROVE MaintenanceInv'
BY FactsKind, SettlesConversation DEF StopBatch

(* The memory of an execution between its durable steps. *)
LEMMA CancelKeeps == ASSUME MaintenanceInv, Cancel PROVE MaintenanceInv'
<1>1. UNCHANGED <<durable, scope, spent, at, round, frozen, facts, pendingFacts, plan, output, ids, faults, crashes>>
      /\ canceled' = "yes" /\ cancels' = cancels + 1
  BY DEF Cancel
<1>2. /\ OwnInv' /\ CheckpointInv' /\ PairInv' /\ TotalsMatch'
      /\ View' = View /\ (Running' <=> Running) /\ Current' = Current /\ (Manual' <=> Manual)
      /\ ContextMeasurement' = ContextMeasurement
      /\ log' = log /\ checkpoint' = checkpoint /\ usage' = usage /\ ops' = ops /\ scope' = scope
  BY <1>1, Same
<1>3. (Alive' <=> Alive) /\ (Maintaining' <=> Maintaining) BY <1>1 DEF Alive, Maintaining
<1>4. TypeOK' BY <1>1, <1>2 DEF MaintenanceInv, TypeOK
<1>5. RunInv' BY <1>1, <1>2, <1>3 DEF MaintenanceInv, RunInv
<1>6. KindInv' BY <1>1, <1>2, <1>3 DEF MaintenanceInv, KindInv
<1>7. EffectInv' BY <1>1, <1>2, <1>3 DEF MaintenanceInv, EffectInv
<1>8. PendingInv' BY <1>1, <1>2 DEF MaintenanceInv, PendingInv
<1>9. FrozenInv' BY <1>1, <1>2, <1>3 DEF MaintenanceInv, FrozenInv
<1>10. RequestInv' BY <1>1, <1>2, <1>3 DEF MaintenanceInv, RequestInv
<1>11. SummaryInv' BY <1>1, <1>2, <1>3 DEF MaintenanceInv, SummaryInv
<1>12. FactInv' BY <1>1, <1>2, <1>3 DEF MaintenanceInv, FactInv
<1>13. CostInv' BY <1>1, <1>2, <1>3 DEF MaintenanceInv, CostInv, Carried
<1>14. CostHonest' BY <1>1, <1>2 DEF MaintenanceInv, CostHonest, EstimateKnown
<1>15. QED BY <1>2, <1>4, <1>5, <1>6, <1>7, <1>8, <1>9, <1>10, <1>11, <1>12, <1>13, <1>14 DEF MaintenanceInv

(* A process loss keeps the invariant. *)
LEMMA CrashKeeps == ASSUME MaintenanceInv, Crash PROVE MaintenanceInv'
<1>1. UNCHANGED <<durable, scope, spent, ids, faults, cancels>>
      /\ crashes' \in {crashes, crashes + 1} /\ at' = "down" /\ canceled' = "no" /\ round' = 0 /\ frozen' = NoInput
      /\ facts' = NoFacts /\ pendingFacts' = <<>> /\ plan' = NoPlan /\ output' = NoOutput
  BY DEF Crash
<1>2. /\ OwnInv' /\ CheckpointInv' /\ PairInv' /\ TotalsMatch' /\ (Running' <=> Running) /\ Current' = Current
      /\ log' = log /\ checkpoint' = checkpoint /\ usage' = usage /\ ops' = ops /\ scope' = scope
  BY <1>1, Same
<1>3. Once(log') /\ NotedIds(log') \subseteq 0..(ids' - 1) BY <1>1, <1>2 DEF MaintenanceInv, FactInv
<1>4. /\ KindInv' /\ EffectInv' /\ FrozenInv' /\ RequestInv' /\ SummaryInv' /\ FactInv'
      /\ ~ Alive' /\ facts'.list = <<>> /\ facts' \in Procedure /\ pendingFacts' \in Facts
      /\ plan' \in [kind : {"none", "model", "checkpoint"}, boundary : Nat,
                    retain : SUBSET (DOMAIN frozen'.messages), context : {"no", "yes"}]
      /\ output' \in [status : {"none", "completed", "errored", "interrupted"}, calls : Seq(Calls), report : Report]
  BY <1>1, <1>3, AtRest
<1>5. frozen' \in [cp : Nat, boundary : Nat, messages : Seq(ViewMessage)] BY <1>1 DEF NoInput
<1>6. TypeOK' BY <1>1, <1>2, <1>4, <1>5 DEF MaintenanceInv, TypeOK, Procedure
<1>7. RunInv' BY <1>1, <1>2, <1>4 DEF MaintenanceInv, RunInv
<1>8. PendingInv' BY <1>1, <1>2 DEF MaintenanceInv, PendingInv
<1>9. CostInv' BY <1>1, <1>2, <1>4 DEF MaintenanceInv, CostInv
<1>10. CostHonest' BY <1>1, <1>2 DEF MaintenanceInv, CostHonest, EstimateKnown
<1>11. QED BY <1>2, <1>4, <1>6, <1>7, <1>8, <1>9, <1>10 DEF MaintenanceInv

(* The recovery of what a process left: with no memory of its execution, an
   intent without a witness is named as a producer without a report. *)
LEMMA RecoverKeeps == ASSUME MaintenanceInv, Recover PROVE MaintenanceInv'
<1>1. EndExecution /\ UNCHANGED <<ids, faults, crashes, spent, cancels, scope>> BY DEF Recover
<1>2. CASE Running
  <2>1. Terminate("interruption", <<>>, NoOutput, NoFacts, "no") BY <1>2 DEF Recover
  <2>2. /\ NoFacts.list = <<>> /\ NoFacts.list \in Facts /\ FactIds(NoFacts.list) = {} /\ Distinct(NoFacts.list)
    BY NoFactsList DEF NoFacts
  <2>3. NoOutput.report = "absent" /\ NoOutput.report \in Report BY DEF NoOutput, Report
  <2>4. Paid(NoFacts, NoOutput, <<>>)
    <3>1. CASE ops[Current].effect.kind = "none" BY <2>2, <2>3, <3>1 DEF Paid
    <3>2. CASE ops[Current].effect.kind # "none"
      <4>1. NamesModel(ops[Current], NoFacts, NoOutput) BY <2>2, <3>2 DEF NamesModel, Witnesses
      <4>2. QED BY <2>3, <4>1 DEF Paid
    <3>3. QED BY <3>1, <3>2
  <2>5. QED BY <1>1, <1>2, <2>1, <2>2, <2>3, <2>4, Ends DEF Statuses
<1>3. CASE ~ Running
  <2>1. UNCHANGED durable /\ UNCHANGED scope BY <1>1, <1>3 DEF Recover
  <2>2. /\ OwnInv' /\ CheckpointInv' /\ PairInv' /\ TotalsMatch' /\ (Running' <=> Running) /\ Current' = Current
        /\ log' = log /\ checkpoint' = checkpoint /\ usage' = usage /\ ops' = ops /\ scope' = scope
    BY <2>1, Same
  <2>3. Held(log', checkpoint', <<>>)
    <3>1. Open = <<>> BY <1>3 DEF Open
    <3>2. Held(log, checkpoint, <<>>) BY <3>1, Reads
    <3>3. QED BY <2>2, <3>2
  <2>4. Once(log') /\ NotedIds(log') \subseteq 0..(ids' - 1) BY <1>1, <2>2 DEF MaintenanceInv, FactInv
  <2>5. \A o \in DOMAIN ops : ops[o].status # "running"
    <3>. SUFFICES ASSUME NEW o \in DOMAIN ops, ops[o].status = "running" PROVE FALSE OBVIOUS
    <3>1. o = Len(ops) BY DEF MaintenanceInv, RunInv
    <3>2. ops # <<>> BY DEF MaintenanceInv, TypeOK
    <3>3. QED BY <1>3, <3>1, <3>2 DEF Running, Current
  <2>6. \A o \in DOMAIN ops' : ops'[o].status # "running" /\ ops'[o].effect.kind = "none" /\ ops'[o].pending = <<>>
    BY <2>2, <2>5 DEF MaintenanceInv, RunInv
  <2>7. CostHonest' BY <1>1, <2>2 DEF MaintenanceInv, CostHonest, EstimateKnown
  <2>8. /\ \A i \in DOMAIN log' : log'[i].op \in DOMAIN ops'
        /\ \A o \in DOMAIN spent : o > Len(ops') => spent[o] = 0
    BY <2>2 DEF MaintenanceInv, CostInv
  <2>9. ops' \in Seq(Register) /\ Len(ops') <= scope.ops /\ usage' \in Nat
        /\ faults' \in Nat /\ crashes' \in Nat /\ cancels' \in Nat
    BY <1>1, <2>2 DEF MaintenanceInv, TypeOK
  <2>10. at' = "idle" /\ ~ Running' BY <1>1, <1>3, <2>2 DEF EndExecution
  <2>11. QED BY <1>1, <2>2, <2>3, <2>4, <2>6, <2>7, <2>8, <2>9, <2>10, Rested
<1>4. QED BY <1>2, <1>3

(* The view is a projection of the committed log. *)
LEMMA ViewKind ==
    ASSUME MaintenanceInv
    PROVE  View \in [cp : Nat, boundary : Nat, messages : Seq(ViewMessage)] /\ View.cp = checkpoint
<1>1. Readable(log, checkpoint) BY Reads DEF Held
<1>2. View.messages \in Seq(ViewMessage) BY <1>1, ViewKinds DEF View
<1>3. checkpoint \in Nat /\ Cutoff(log, checkpoint) \in Nat /\ Len(log) \in Nat BY <1>1 DEF Readable
<1> DEFINE t == Bearing(log, Cutoff(log, checkpoint), Len(log))
<1>4. t \in Seq(Nat) BY <1>3, BearingKinds
<1>5. View = [cp |-> checkpoint, boundary |-> IF t = <<>> THEN checkpoint ELSE Last(t), messages |-> View.messages]
  BY DEF View, Project
<1>6. t # <<>> => Last(t) \in Nat BY <1>4 DEF Last
<1> HIDE DEF t
<1>7. QED BY <1>2, <1>3, <1>5, <1>6

(* After a checkpoint the request source freezes the view again. *)
LEMMA ReprojectKeeps == ASSUME MaintenanceInv, Reproject PROVE MaintenanceInv'
<1>1. UNCHANGED <<durable, scope, spent, at, canceled, round, facts, pendingFacts, plan, output, ids, faults, crashes, cancels>>
      /\ at = "dispatch" /\ frozen' = View
  BY DEF Reproject, View
<1>2. /\ OwnInv' /\ CheckpointInv' /\ PairInv' /\ TotalsMatch'
      /\ View' = View /\ (Running' <=> Running) /\ Current' = Current /\ (Manual' <=> Manual)
      /\ ContextMeasurement' = ContextMeasurement
      /\ log' = log /\ checkpoint' = checkpoint /\ usage' = usage /\ ops' = ops /\ scope' = scope
  BY <1>1, Same
<1>3. (Alive' <=> Alive) /\ (Maintaining' <=> Maintaining) BY <1>1 DEF Alive, Maintaining
<1>4. TypeOK'
  <2>1. plan.retain = {} BY <1>1 DEF MaintenanceInv, KindInv
  <2>2. TypeOK BY DEF MaintenanceInv
  <2>3. plan' \in [kind : {"none", "model", "checkpoint"}, boundary : Nat,
                   retain : SUBSET (DOMAIN frozen'.messages), context : {"no", "yes"}]
    BY <1>1, <2>1, <2>2 DEF TypeOK
  <2>4. frozen' \in [cp : Nat, boundary : Nat, messages : Seq(ViewMessage)] BY <1>1, ViewKind
  <2>5. QED BY <1>1, <1>2, <2>2, <2>3, <2>4 DEF TypeOK
<1>5. RunInv' BY <1>1, <1>2, <1>3 DEF MaintenanceInv, RunInv
<1>6. KindInv' BY <1>1, <1>2, <1>3 DEF MaintenanceInv, KindInv
<1>7. EffectInv' BY <1>1, <1>2, <1>3 DEF MaintenanceInv, EffectInv
<1>8. PendingInv' BY <1>1, <1>2 DEF MaintenanceInv, PendingInv
<1>9. FrozenInv' BY <1>1, <1>2 DEF FrozenInv
<1>10. RequestInv' BY <1>1, <1>2, <1>3 DEF MaintenanceInv, RequestInv
<1>11. SummaryInv' BY <1>1 DEF SummaryInv, Maintaining
<1>12. FactInv' BY <1>1, <1>2, <1>3 DEF MaintenanceInv, FactInv
<1>13. CostInv' BY <1>1, <1>2, <1>3 DEF MaintenanceInv, CostInv, Carried
<1>14. CostHonest' BY <1>1, <1>2 DEF MaintenanceInv, CostHonest, EstimateKnown
<1>15. QED BY <1>2, <1>4, <1>5, <1>6, <1>7, <1>8, <1>9, <1>10, <1>11, <1>12, <1>13, <1>14 DEF MaintenanceInv

(* The request source freezes the view and starts automatic maintenance. *)
LEMMA SourceKeeps == ASSUME MaintenanceInv, Source PROVE MaintenanceInv'
<1>1. CASE \/ canceled = "yes" /\ EndWith("interruption", <<>>, NoOutput, NoFacts, "no")
           \/ round > 0 /\ EndWith(IF canceled = "yes" THEN "interruption" ELSE "success", <<>>, NoOutput, NoFacts, "no")
  <2>1. at = "source" /\ scope' = scope BY DEF Source
  <2>2. CASE EndWith("interruption", <<>>, NoOutput, NoFacts, "no") BY <2>1, <2>2, FactsKind, SettlesConversation
  <2>3. CASE EndWith("success", <<>>, NoOutput, NoFacts, "no") BY <2>1, <2>3, FactsKind, SettlesConversation
  <2>4. QED BY <1>1, <2>2, <2>3
<1>2. CASE /\ canceled = "no" /\ round < scope.rounds
           /\ at' = "plan" /\ round' = round + 1 /\ frozen' = Project(log, checkpoint)
           /\ facts' = [NoFacts EXCEPT !.source = ids, !.consumed = "yes"] /\ ids' = ids + 1
           /\ UNCHANGED <<durable, canceled, pendingFacts, plan, output, faults, crashes, spent, cancels>>
  <2>1. UNCHANGED <<durable, scope, spent, canceled, pendingFacts, plan, output, faults, crashes, cancels>>
        /\ at = "source" /\ at' = "plan" /\ frozen' = View /\ ids' = ids + 1 /\ round' = round + 1
        /\ facts'.list = <<>> /\ facts'.source = ids /\ facts' = [list |-> <<>>, source |-> ids, consumed |-> "yes"]
    BY <1>2 DEF Source, View, NoFacts
  <2>2. /\ OwnInv' /\ CheckpointInv' /\ PairInv' /\ TotalsMatch'
        /\ View' = View /\ (Running' <=> Running) /\ Current' = Current /\ (Manual' <=> Manual)
        /\ log' = log /\ checkpoint' = checkpoint /\ usage' = usage /\ ops' = ops /\ scope' = scope
    BY <2>1, Same
  <2>3. Alive' /\ Alive /\ Maintaining' /\ ~ Maintaining BY <2>1 DEF Alive, Maintaining
  <2>4. ~ Manual /\ facts.list = <<>> BY <2>1, <2>3 DEF MaintenanceInv, KindInv
  <2>5. TypeOK'
    <3>1. plan.retain = {} BY <2>1 DEF MaintenanceInv, KindInv
    <3>2. TypeOK BY DEF MaintenanceInv
    <3>3. plan' \in [kind : {"none", "model", "checkpoint"}, boundary : Nat,
                     retain : SUBSET (DOMAIN frozen'.messages), context : {"no", "yes"}]
      BY <2>1, <3>1, <3>2 DEF TypeOK
    <3>4. frozen' \in [cp : Nat, boundary : Nat, messages : Seq(ViewMessage)] BY <2>1, ViewKind
    <3>5. facts' \in [list : Facts, source : Nat, consumed : {"no", "yes"}] BY <2>1, <3>2, NoFactsList DEF TypeOK
    <3>6. ids' \in Nat \ {0} /\ round' \in Nat BY <2>1, <3>2 DEF TypeOK
    <3>7. QED BY <2>1, <2>2, <3>2, <3>3, <3>4, <3>5, <3>6 DEF TypeOK
  <2>6. RunInv' BY <2>1, <2>2, <2>3 DEF MaintenanceInv, RunInv
  <2>7. KindInv' BY <2>1, <2>2, <2>3, <2>4 DEF MaintenanceInv, KindInv
  <2>8. EffectInv' BY <2>1, <2>2, <2>3 DEF MaintenanceInv, EffectInv
  <2>9. PendingInv' BY <2>1, <2>2 DEF MaintenanceInv, PendingInv
  <2>10. FrozenInv' BY <2>1, <2>2 DEF FrozenInv
  <2>11. RequestInv'
    <3>1. ops[Current].request = NoRequest BY <2>1, <2>3 DEF MaintenanceInv, RequestInv
    <3>2. QED BY <2>1, <2>2, <2>4, <3>1 DEF RequestInv, NoRequest
  <2>12. SummaryInv' BY <2>1 DEF SummaryInv
  <2>13. FactInv'
    <3>1. FactInv BY DEF MaintenanceInv
    <3>2. ids \in Nat \ {0} BY DEF MaintenanceInv, TypeOK
    <3>3. \A i \in 0..(ids - 1) : i \in 0..(ids' - 1) /\ i # ids BY <2>1, <3>2
    <3>4. FactIds(facts'.list) = {} /\ Distinct(facts'.list) BY <2>1, NoFactsList
    <3>5. FactIds(pendingFacts) \subseteq 0..(ids - 1) /\ NotedIds(log) \subseteq 0..(ids - 1) BY <3>1 DEF FactInv
    <3>6. facts'.source \in 1..(ids' - 1) /\ facts'.source \notin FactIds(pendingFacts) BY <2>1, <3>2, <3>3, <3>5
    <3>7. QED BY <2>1, <2>2, <3>1, <3>3, <3>4, <3>5, <3>6 DEF FactInv
  <2>14. CostInv'
    <3>1. Carried' = Carried BY <2>1, <2>4 DEF Carried
    <3>2. QED BY <2>1, <2>2, <2>3, <3>1 DEF MaintenanceInv, CostInv
  <2>15. CostHonest' BY <2>1, <2>2 DEF MaintenanceInv, CostHonest, EstimateKnown
  <2>16. QED BY <2>2, <2>5, <2>6, <2>7, <2>8, <2>9, <2>10, <2>11, <2>12, <2>13, <2>14, <2>15 DEF MaintenanceInv
<1>3. QED BY <1>1, <1>2 DEF Source

(* What a strategy may plan. *)
PlanOf == [kind : {"none", "model", "checkpoint"}, boundary : Nat, retain : SUBSET (DOMAIN frozen.messages),
           context : {"no", "yes"}]

(* Plans are of their kind, and only a proposal retains messages. *)
LEMMA PlanKinds ==
    ASSUME MaintenanceInv, NEW p, p \in SummaryPlans \cup {SummaryProposal} \cup AnyPlans
    PROVE  p \in PlanOf /\ (p.kind # "checkpoint" => p.retain = {})
<1>1. /\ NoPlan \in PlanOf /\ NoPlan.retain = {}
      /\ [NoPlan EXCEPT !.kind = "model"] \in PlanOf /\ [NoPlan EXCEPT !.kind = "model"].retain = {}
  BY DEF NoPlan, PlanOf
<1>2. CASE p \in SummaryPlans BY <1>1, <1>2 DEF SummaryPlans
<1>3. CASE p = SummaryProposal
  <2>1. frozen.boundary \in Nat BY DEF MaintenanceInv, TypeOK
  <2>2. QED BY <1>3, <2>1 DEF SummaryProposal, NoPlan, PlanOf
<1>4. CASE p \in AnyPlans
  <2>1. CASE p \in Proposals
    <3>1. PICK b \in 1..Len(log), kept \in Kept, x \in {"no", "yes"} :
              p = [kind |-> "checkpoint", boundary |-> b, retain |-> kept, context |-> x]
      BY <2>1 DEF Proposals
    <3>2. kept \subseteq DOMAIN frozen.messages BY DEF Kept, kSubset
    <3>3. QED BY <3>1, <3>2 DEF PlanOf
  <2>2. QED BY <1>1, <1>4, <2>1 DEF AnyPlans
<1>5. QED BY <1>2, <1>3, <1>4

(* A stage's plan is taken. *)
LEMMA Takes ==
    ASSUME MaintenanceInv, at \in {"plan", "consume"}, NEW p, p \in PlanOf, p.kind # "checkpoint" => p.retain = {},
           scope.strategy = "summary" /\ ~ Manual /\ p.kind # "none" => ContextMeasurement = "some",
           Take(p), scope' = scope
    PROVE  MaintenanceInv'
<1>1. UNCHANGED <<durable, scope, spent, canceled, round, frozen, output, ids, faults, crashes, cancels>> /\ plan' = p
      /\ at' = (IF p.kind = "model" THEN "open" ELSE IF p.kind = "checkpoint" \/ Manual THEN "commit" ELSE "dispatch")
  BY DEF Take
<1>2. /\ OwnInv' /\ CheckpointInv' /\ PairInv' /\ TotalsMatch'
      /\ View' = View /\ (Running' <=> Running) /\ Current' = Current /\ (Manual' <=> Manual)
      /\ ContextMeasurement' = ContextMeasurement
      /\ log' = log /\ checkpoint' = checkpoint /\ usage' = usage /\ ops' = ops /\ scope' = scope
  BY <1>1, Same
<1>3. Alive /\ Alive' /\ Maintaining BY <1>1 DEF Alive, Maintaining
<1>4. p.kind \in {"none", "model", "checkpoint"} BY DEF PlanOf
<1>5. /\ facts \in Procedure /\ pendingFacts \in Facts /\ facts.list \in Facts BY FactsKind DEF Procedure
<1>6. /\ facts' \in Procedure /\ pendingFacts' \in Facts /\ facts'.source = facts.source
      /\ p.kind = "none" => facts'.list = <<>> /\ pendingFacts' = pendingFacts \o facts.list
      /\ p.kind # "none" => facts' = facts /\ pendingFacts' = pendingFacts
  <2>1. CASE p.kind = "none"
    <3>1. pendingFacts' = pendingFacts \o facts.list /\ facts' = [facts EXCEPT !.list = <<>>] BY <2>1 DEF Take
    <3>2. pendingFacts \o facts.list \in Facts BY <1>5, FactReportsJoin
    <3>3. facts' \in Procedure /\ facts'.list = <<>> /\ facts'.source = facts.source BY <1>5, <3>1, NoFactsList DEF Procedure
    <3>4. QED BY <2>1, <3>1, <3>2, <3>3
  <2>2. CASE p.kind # "none" BY <1>5, <2>2 DEF Take
  <2>3. QED BY <2>1, <2>2
<1>7. /\ FactIds(facts'.list) \cup FactIds(pendingFacts') = FactIds(facts.list) \cup FactIds(pendingFacts)
      /\ Distinct(facts'.list) /\ Distinct(pendingFacts') /\ FactIds(facts'.list) \cap FactIds(pendingFacts') = {}
      /\ Units(FactReports(pendingFacts')) + Units(FactReports(facts'.list))
            = Units(FactReports(pendingFacts)) + Units(FactReports(facts.list))
  <2>1. FactInv BY DEF MaintenanceInv
  <2>2. Units(FactReports(pendingFacts)) \in Nat /\ Units(FactReports(facts.list)) \in Nat BY <1>5, Joined
  <2>3. CASE p.kind = "none"
    <3>1. FactIds(pendingFacts \o facts.list) = FactIds(pendingFacts) \cup FactIds(facts.list) BY <1>5, FactIdsJoin
    <3>2. Distinct(pendingFacts \o facts.list) BY <1>5, <2>1, FactIdsJoin DEF FactInv
    <3>3. Units(FactReports(pendingFacts \o facts.list)) = Units(FactReports(pendingFacts)) + Units(FactReports(facts.list))
      BY <1>5, FactReportsJoin
    <3>4. facts'.list = <<>> /\ pendingFacts' = pendingFacts \o facts.list BY <1>6, <2>3
    <3>5. FactIds(<<>>) = {} /\ Distinct(<<>>) /\ Units(FactReports(<<>>)) = 0 BY NoFactsList
    <3>6. Units(FactReports(pendingFacts \o facts.list)) + Units(FactReports(<<>>))
             = Units(FactReports(pendingFacts)) + Units(FactReports(facts.list))
      BY <2>2, <3>3, <3>5
    <3>7. FactIds(<<>>) \cup FactIds(pendingFacts \o facts.list) = FactIds(facts.list) \cup FactIds(pendingFacts)
          /\ FactIds(<<>>) \cap FactIds(pendingFacts \o facts.list) = {}
      BY <3>1, <3>5
    <3>8. QED BY <3>2, <3>4, <3>5, <3>6, <3>7
  <2>4. CASE p.kind # "none" BY <1>6, <2>1, <2>4 DEF FactInv
  <2>5. QED BY <2>3, <2>4
<1>8. TypeOK' BY <1>1, <1>2, <1>6 DEF MaintenanceInv, TypeOK, Procedure, PlanOf
<1>9. RunInv' BY <1>1, <1>2, <1>3 DEF MaintenanceInv, RunInv
<1>10. KindInv'
  <2>1. KindInv BY DEF MaintenanceInv
  <2>2. CASE p.kind = "none" BY <1>1, <1>2, <1>3, <1>4, <1>6, <2>1, <2>2 DEF KindInv, Maintaining
  <2>3. CASE p.kind # "none" BY <1>1, <1>2, <1>3, <1>4, <1>6, <2>1, <2>3 DEF KindInv, Maintaining
  <2>4. QED BY <2>2, <2>3
<1>11. EffectInv' BY <1>1, <1>2, <1>3 DEF MaintenanceInv, EffectInv
<1>12. PendingInv' BY <1>1, <1>2 DEF MaintenanceInv, PendingInv
<1>13. FrozenInv' BY <1>1, <1>2, <1>3 DEF MaintenanceInv, FrozenInv
<1>14. RequestInv' BY <1>1, <1>2, <1>3 DEF MaintenanceInv, RequestInv
<1>15. SummaryInv' BY <1>1, <1>2, <1>4 DEF SummaryInv, Maintaining
<1>16. FactInv'
  <2>1. FactInv BY DEF MaintenanceInv
  <2>2. ~ Manual => facts.source \in 1..(ids - 1) /\ facts.source \notin FactIds(facts.list) \cup FactIds(pendingFacts)
    BY <1>3, <2>1 DEF FactInv
  <2>3. QED BY <1>1, <1>2, <1>6, <1>7, <2>1, <2>2 DEF FactInv
<1>17. CostInv'
  <2>1. CostInv BY DEF MaintenanceInv
  <2>2. Carried' = Carried BY <1>1, <1>7 DEF Carried
  <2>3. ops[Current].effect.kind = "none" BY <1>3 DEF MaintenanceInv, EffectInv
  <2>4. ops[Current].unreported = "no" => facts.list = <<>> /\ pendingFacts = <<>> BY <1>3, <2>1, <2>3 DEF CostInv
  <2>5. ops[Current].unreported = "no" => facts'.list = <<>> /\ pendingFacts' = <<>> BY <1>6, <2>4
  <2>6. QED BY <1>1, <1>2, <1>3, <2>1, <2>2, <2>5 DEF CostInv
<1>18. CostHonest' BY <1>1, <1>2 DEF MaintenanceInv, CostHonest, EstimateKnown
<1>19. QED BY <1>2, <1>8, <1>9, <1>10, <1>11, <1>12, <1>13, <1>14, <1>15, <1>16, <1>17, <1>18 DEF MaintenanceInv

(* The planning stage keeps the invariant. *)
LEMMA PlanKeeps == ASSUME MaintenanceInv, Plan PROVE MaintenanceInv'
<1>1. at = "plan" /\ scope' = scope /\ Maintaining BY DEF Plan, Maintaining
<1>2. CASE SettleMaintenance("interruption") \/ SettleMaintenance("failure")
  BY <1>1, <1>2, FactsKind, SettlesMaintenance
<1>3. ASSUME NEW p \in IF scope.strategy = "summary" THEN SummaryPlans ELSE AnyPlans, Take(p)
      PROVE  MaintenanceInv'
  <2>1. p \in SummaryPlans \cup {SummaryProposal} \cup AnyPlans OBVIOUS
  <2>2. p \in PlanOf /\ (p.kind # "checkpoint" => p.retain = {}) BY <2>1, PlanKinds
  <2>3. scope.strategy = "summary" /\ ~ Manual /\ p.kind # "none" => ContextMeasurement = "some"
    BY DEF SummaryPlans, NoPlan
  <2>4. QED BY <1>1, <1>3, <2>2, <2>3, Takes
<1>4. QED BY <1>2, <1>3 DEF Plan

(* The folding stage keeps the invariant. *)
LEMMA ConsumeKeeps == ASSUME MaintenanceInv, Consume PROVE MaintenanceInv'
<1>1. at = "consume" /\ scope' = scope /\ Maintaining BY DEF Consume, Maintaining
<1>2. CASE SettleMaintenance("interruption") \/ SettleMaintenance("failure")
  BY <1>1, <1>2, FactsKind, SettlesMaintenance
<1>3. ASSUME NEW p \in IF scope.strategy = "summary" THEN {SummaryProposal} ELSE AnyPlans, Take(p)
      PROVE  MaintenanceInv'
  <2>1. p \in SummaryPlans \cup {SummaryProposal} \cup AnyPlans OBVIOUS
  <2>2. p \in PlanOf /\ (p.kind # "checkpoint" => p.retain = {}) BY <2>1, PlanKinds
  <2>3. scope.strategy = "summary" /\ ~ Manual => ContextMeasurement = "some"
    BY <1>1 DEF MaintenanceInv, SummaryInv
  <2>4. QED BY <1>1, <1>3, <2>2, <2>3, Takes
<1>4. QED BY <1>2, <1>3 DEF Consume

(* A stream is accepted, and what it cost is carried. *)
LEMMA Accepts ==
    ASSUME MaintenanceInv, at \in {"answer", "summarize"},
           NEW next, next = (IF at = "answer" THEN "answered" ELSE "summarized"), Accept(next), scope' = scope
    PROVE  MaintenanceInv'
<1>1. PICK st \in {"completed", "errored", "interrupted"}, report \in scope.reports, calls \in scope.batches :
        /\ calls # <<>> => at = "answer" /\ st # "errored"
        /\ output' = [status |-> st, calls |-> calls, report |-> report]
        /\ spent' = [spent EXCEPT ![Current] = @ + Units(<<report>>)]
        /\ at' = next
        /\ UNCHANGED <<durable, canceled, round, frozen, facts, pendingFacts, plan, ids, faults, crashes, cancels>>
  BY DEF Accept
<1>2. /\ OwnInv' /\ CheckpointInv' /\ PairInv' /\ TotalsMatch'
      /\ View' = View /\ (Running' <=> Running) /\ Current' = Current /\ (Manual' <=> Manual)
      /\ ContextMeasurement' = ContextMeasurement
      /\ log' = log /\ checkpoint' = checkpoint /\ usage' = usage /\ ops' = ops /\ scope' = scope
  BY <1>1, Same
<1>3. Alive /\ Alive' /\ (Maintaining' <=> Maintaining) BY <1>1 DEF Alive, Maintaining
<1>4. scope \in Scopes /\ report \in Report BY Strategies DEF MaintenanceInv, TypeOK
<1>5. calls \in Seq(Calls) /\ IsInjective(calls) BY <1>4, OutputCalls
<1>6. Units(<<report>>) \in Nat BY <1>4, UnitsOne
<1>7. Current \in DOMAIN spent /\ spent \in [1..scope.ops -> Nat] /\ Running /\ Current \in DOMAIN ops
  <2>1. Running BY <1>3 DEF MaintenanceInv, RunInv
  <2>2. Current \in Nat /\ Current \in DOMAIN ops /\ DOMAIN ops = 1..Current BY <2>1, Reads
  <2>3. Current <= scope.ops /\ scope.ops \in Nat BY <1>4, MaintenanceBounds DEF MaintenanceInv, TypeOK, Current
  <2>4. QED BY <2>1, <2>2, <2>3 DEF MaintenanceInv, TypeOK
<1>8. /\ spent' \in [1..scope.ops -> Nat] /\ spent'[Current] = spent[Current] + Units(<<report>>)
      /\ \A o \in DOMAIN spent : o # Current => spent'[o] = spent[o]
  BY <1>1, <1>6, <1>7
<1>9. output' \in [status : {"none", "completed", "errored", "interrupted"}, calls : Seq(Calls), report : Report]
      /\ output'.report = report /\ IsInjective(output'.calls) /\ (output'.status = "errored" => output'.calls = <<>>)
  BY <1>1, <1>4, <1>5
<1>10. TypeOK' BY <1>1, <1>2, <1>8, <1>9 DEF MaintenanceInv, TypeOK
<1>11. RunInv' BY <1>1, <1>2, <1>3 DEF MaintenanceInv, RunInv
<1>12. KindInv' BY <1>1, <1>2, <1>3, <1>9 DEF MaintenanceInv, KindInv
<1>13. EffectInv' BY <1>1, <1>2, <1>3 DEF MaintenanceInv, EffectInv
<1>14. PendingInv' BY <1>1, <1>2 DEF MaintenanceInv, PendingInv
<1>15. FrozenInv' BY <1>1, <1>2, <1>3 DEF MaintenanceInv, FrozenInv
<1>16. RequestInv' BY <1>1, <1>2, <1>3 DEF MaintenanceInv, RequestInv
<1>17. SummaryInv' BY <1>1, <1>2, <1>3 DEF MaintenanceInv, SummaryInv
<1>18. FactInv' BY <1>1, <1>2, <1>3 DEF MaintenanceInv, FactInv
<1>19. CostInv'
  <2>1. CostInv BY DEF MaintenanceInv
  <2>2. LoggedUsage(log, Current) \in Nat BY LoggedKind DEF MaintenanceInv, TypeOK
  <2>3. Units(FactReports(pendingFacts)) \in Nat /\ Units(FactReports(facts.list)) \in Nat BY FactsKind, Joined
  <2>4. Carried = Units(FactReports(pendingFacts)) + Units(FactReports(facts.list)) BY <2>3 DEF Carried
  <2>5. Carried' = Units(FactReports(pendingFacts)) + Units(FactReports(facts.list)) + Units(<<report>>)
    BY <1>1, <1>9 DEF Carried
  <2>6. spent[Current] = LoggedUsage(log, Current) + Carried BY <1>3, <2>1 DEF CostInv
  <2>7. spent'[Current] = LoggedUsage(log, Current) + Carried' BY <1>6, <1>8, <2>2, <2>3, <2>4, <2>5, <2>6
  <2>8. \A o \in DOMAIN spent' : o > Len(ops) => spent'[o] = 0
    <3>1. Current \in Nat /\ Current = Len(ops) BY Reads DEF Current
    <3>2. \A o \in DOMAIN spent' : o > Len(ops) => o # Current BY <1>8, <3>1
    <3>3. QED BY <1>7, <1>8, <2>1, <3>2 DEF CostInv
  <2>9. ops[Current].effect.kind # "none" BY <1>3 DEF MaintenanceInv, EffectInv
  <2>10. QED BY <1>1, <1>2, <1>3, <2>1, <2>7, <2>8, <2>9 DEF CostInv
<1>20. CostHonest'
  <2>1. ops[Current].effect.kind # "none" BY <1>3 DEF MaintenanceInv, EffectInv
  <2>2. \A o \in DOMAIN ops : o \in DOMAIN spent BY <1>4, MaintenanceBounds, Reads DEF MaintenanceInv, TypeOK, Current
  <2>3. QED BY <1>2, <1>8, <2>1, <2>2 DEF MaintenanceInv, CostHonest, EstimateKnown
<1>21. QED BY <1>2, <1>10, <1>11, <1>12, <1>13, <1>14, <1>15, <1>16, <1>17, <1>18, <1>19, <1>20 DEF MaintenanceInv

(* The conversation attempt keeps the invariant. *)
LEMMA AnswerKeeps == ASSUME MaintenanceInv, Answer PROVE MaintenanceInv'
<1>1. at = "answer" /\ scope' = scope BY DEF Answer
<1>2. CASE EndWith("interruption", <<>>, NoOutput, NoFacts, "no") BY <1>1, <1>2, FactsKind, SettlesConversation
<1>3. CASE EndWith("failure", <<>>, NoOutput, NoFacts, "no") BY <1>1, <1>3, FactsKind, SettlesConversation
<1>4. CASE Accept("answered") BY <1>1, <1>4, Accepts
<1>5. QED BY <1>2, <1>3, <1>4 DEF Answer

(* The maintenance attempt keeps the invariant. *)
LEMMA SummarizeKeeps == ASSUME MaintenanceInv, Summarize PROVE MaintenanceInv'
<1>1. at = "summarize" /\ scope' = scope /\ Maintaining BY DEF Summarize, Maintaining
<1>2. CASE SettleMaintenance("interruption") \/ SettleMaintenance("failure")
  BY <1>1, <1>2, FactsKind, SettlesMaintenance
<1>3. CASE Accept("summarized") BY <1>1, <1>3, Accepts
<1>4. QED BY <1>2, <1>3 DEF Summarize

(* What a step that rewrites only the running register leaves as it was. *)
Republished(r) ==
    /\ r \in Register /\ r.kind = ops[Current].kind /\ r.status = "running"
    /\ r.pending = ops[Current].pending /\ r.usage = ops[Current].usage

(* A step that rewrites only the running register keeps what is said of the
   log. *)
LEMMA Republishes ==
    ASSUME MaintenanceInv, Alive, NEW r, Republished(r), ops' = [ops EXCEPT ![Current] = r],
           UNCHANGED <<log, checkpoint, usage, scope>>
    PROVE  /\ OwnInv' /\ CheckpointInv' /\ PairInv' /\ TotalsMatch'
           /\ View' = View /\ Running' /\ Current' = Current /\ (Manual' <=> Manual)
           /\ ContextMeasurement' = ContextMeasurement
           /\ ops' \in Seq(Register) /\ Len(ops') = Len(ops) /\ DOMAIN ops' = DOMAIN ops /\ ops'[Current] = r
           /\ Current \in DOMAIN ops /\ Current = Len(ops)
           /\ \A o \in DOMAIN ops : o # Current => ops'[o] = ops[o]
           /\ \A o \in DOMAIN ops : ops'[o].status = "running" => o = Len(ops)
           /\ \A o \in DOMAIN ops : ops'[o].status # "running" => ops'[o].effect.kind = "none" /\ ops'[o].pending = <<>>
<1>1. Running BY DEF MaintenanceInv, RunInv
<1>2. Current \in DOMAIN ops /\ ops \in Seq(Register) /\ Current = Len(ops) BY <1>1, Reads DEF Current
<1>3. /\ ops' \in Seq(Register) /\ Len(ops') = Len(ops) /\ DOMAIN ops' = DOMAIN ops /\ ops'[Current] = r
      /\ \A o \in DOMAIN ops : o # Current => ops'[o] = ops[o]
  BY <1>2, Rewrites DEF Republished
<1>4. Current' = Current BY <1>3 DEF Current
<1>5. Running'
  <2>1. ops' # <<>> BY <1>2, <1>3
  <2>2. QED BY <1>3, <1>4, <2>1 DEF Running, Republished
<1>6. Manual' <=> Manual BY <1>3, <1>4 DEF Manual, Republished
<1>7. View' = View BY DEF View
<1>8. ContextMeasurement' = ContextMeasurement BY DEF ContextMeasurement, LatestUsage
<1>9. Asked' = Asked BY <1>1, <1>3, <1>4, <1>5 DEF Asked, Waiting, Republished
<1>10. OwnInv' BY DEF MaintenanceInv, OwnInv
<1>11. CheckpointInv' BY DEF MaintenanceInv, CheckpointInv
<1>12. PairInv' BY <1>7, <1>9 DEF MaintenanceInv, PairInv
<1>13. TotalsMatch' BY <1>2, <1>3 DEF MaintenanceInv, TotalsMatch, Republished
<1>14. /\ \A o \in DOMAIN ops : ops'[o].status = "running" => o = Len(ops)
       /\ \A o \in DOMAIN ops : ops'[o].status # "running" => ops'[o].effect.kind = "none" /\ ops'[o].pending = <<>>
  <2>. SUFFICES ASSUME NEW o \in DOMAIN ops
                PROVE  /\ ops'[o].status = "running" => o = Len(ops)
                       /\ ops'[o].status # "running" => ops'[o].effect.kind = "none" /\ ops'[o].pending = <<>>
    OBVIOUS
  <2>1. CASE o = Current BY <1>2, <1>3, <2>1 DEF Republished
  <2>2. CASE o # Current BY <1>3, <2>2 DEF MaintenanceInv, RunInv
  <2>3. QED BY <2>1, <2>2
<1>15. QED BY <1>2, <1>3, <1>4, <1>5, <1>6, <1>7, <1>8, <1>10, <1>11, <1>12, <1>13, <1>14

(* An accepted request's report leaves other Operations' estimates alone. *)
LEMMA EstimatesKept ==
    ASSUME MaintenanceInv, UNCHANGED <<log, spent>>, Current \in DOMAIN ops, DOMAIN ops' = DOMAIN ops,
           \A o \in DOMAIN ops : o # Current => ops'[o] = ops[o],
           ops'[Current].effect.kind # "none" \/ ops'[Current].unreported # "no"
    PROVE  CostHonest'
<1>. SUFFICES ASSUME NEW o \in DOMAIN ops, ops'[o].effect.kind = "none", EstimateKnown(o)'
              PROVE  LoggedUsage(log', o) = spent'[o]
  BY DEF CostHonest
<1>1. ops'[o].unreported = "no" BY DEF EstimateKnown
<1>2. o # Current BY <1>1
<1>3. ops'[o] = ops[o] BY <1>2
<1>4. EstimateKnown(o) BY <1>3 DEF EstimateKnown
<1>5. QED BY <1>3, <1>4 DEF MaintenanceInv, CostHonest

(* The conversation intent is published, or an execution ends before it
   (beginModelEffect). *)
LEMMA DispatchKeeps == ASSUME MaintenanceInv, Dispatch PROVE MaintenanceInv'
<1>1. at = "dispatch" /\ frozen.cp = checkpoint /\ scope' = scope /\ Alive /\ ~ Maintaining
  BY DEF Dispatch, Alive, Maintaining
<1>2. CASE EndWith("interruption", <<>>, NoOutput, NoFacts, "no") BY <1>1, <1>2, FactsKind, SettlesConversation
<1>3. CASE Fault BY <1>1, <1>3, Loses DEF Fault
<1>4. CASE /\ canceled = "no" /\ at' = "answer"
           /\ ops' = [ops EXCEPT ![Current] = PublishConversation(@)]
           /\ UNCHANGED <<log, checkpoint, usage, canceled, round, frozen, facts, pendingFacts,
                          plan, output, ids, faults, crashes, spent, cancels>>
  <2> DEFINE r == PublishConversation(ops[Current])
  <2>1. frozen = View /\ ~ Manual /\ TypeOK /\ facts.list = <<>>
    BY <1>1 DEF MaintenanceInv, FrozenInv, KindInv
  <2>2. ops[Current] \in Register /\ ops[Current].status = "running" /\ Current \in DOMAIN ops
    <3>1. Running BY <1>1 DEF MaintenanceInv, RunInv
    <3>2. QED BY <3>1, Reads DEF Running
  <2>3. /\ Republished(r) /\ r.effect = [kind |-> "conversation", id |-> facts.source] /\ r.unreported = ops[Current].unreported
        /\ r.request.cp = frozen.cp /\ r.request.boundary = frozen.boundary
    <3>1. facts.source \in Nat /\ frozen.cp \in Nat /\ frozen.boundary \in Nat BY <2>1 DEF TypeOK
    <3>2. r = [ops[Current] EXCEPT !.effect = [kind |-> "conversation", id |-> facts.source],
                  !.request = [id |-> IF ops[Current].request.id = 0 THEN facts.source ELSE ops[Current].request.id,
                               cp |-> frozen.cp, boundary |-> frozen.boundary]]
      BY DEF PublishConversation
    <3>3. ops[Current].request.id \in Nat BY <2>2 DEF Register, Request
    <3>4. [kind |-> "conversation", id |-> facts.source] \in [kind : {"none", "conversation", "maintenance"}, id : Nat]
      BY <3>1
    <3>5. [id |-> IF ops[Current].request.id = 0 THEN facts.source ELSE ops[Current].request.id,
           cp |-> frozen.cp, boundary |-> frozen.boundary] \in Request
      BY <3>1, <3>3 DEF Request
    <3>6. r \in Register BY <2>2, <3>2, <3>4, <3>5 DEF Register
    <3>7. QED BY <2>2, <3>2, <3>6 DEF Republished, Register
  <2>4. ops' = [ops EXCEPT ![Current] = r] /\ UNCHANGED <<log, checkpoint, usage, scope>> BY <1>1, <1>4
  <2> HIDE DEF r
  <2>5. /\ OwnInv' /\ CheckpointInv' /\ PairInv' /\ TotalsMatch'
        /\ View' = View /\ Running' /\ Current' = Current /\ (Manual' <=> Manual)
        /\ ContextMeasurement' = ContextMeasurement
        /\ ops' \in Seq(Register) /\ Len(ops') = Len(ops) /\ DOMAIN ops' = DOMAIN ops /\ ops'[Current] = r
        /\ Current = Len(ops)
        /\ \A o \in DOMAIN ops : o # Current => ops'[o] = ops[o]
        /\ \A o \in DOMAIN ops : ops'[o].status = "running" => o = Len(ops)
        /\ \A o \in DOMAIN ops : ops'[o].status # "running" => ops'[o].effect.kind = "none" /\ ops'[o].pending = <<>>
    BY <1>1, <2>3, <2>4, Republishes
  <2>6. Alive' /\ ~ Maintaining' BY <1>4 DEF Alive, Maintaining
  <2>7. TypeOK' BY <1>1, <1>4, <2>1, <2>5 DEF TypeOK
  <2>8. RunInv' BY <1>4, <2>5, <2>6 DEF RunInv
  <2>9. KindInv' BY <1>1, <1>4, <2>1, <2>5, <2>6 DEF MaintenanceInv, KindInv
  <2>10. EffectInv' BY <1>4, <2>3, <2>5 DEF EffectInv
  <2>11. PendingInv'
    <3>1. ops'[Current].pending = ops[Current].pending BY <2>3, <2>5 DEF Republished
    <3>2. Running BY <1>1 DEF MaintenanceInv, RunInv
    <3>3. ops[Current].pending = <<>> BY <1>1, <3>2 DEF MaintenanceInv, PendingInv
    <3>4. QED BY <1>4, <2>5, <3>1, <3>3, DueNone DEF PendingInv
  <2>12. FrozenInv' BY <1>4, <2>1, <2>5 DEF FrozenInv
  <2>13. RequestInv' BY <1>4, <2>1, <2>3, <2>5, <2>6 DEF RequestInv
  <2>14. SummaryInv' BY <2>6 DEF SummaryInv
  <2>15. FactInv' BY <1>1, <1>4, <2>1, <2>3, <2>5, <2>6 DEF MaintenanceInv, FactInv
  <2>16. CostInv'
    <3>1. Carried' = Carried BY <1>1, <1>4 DEF Carried
    <3>2. QED BY <1>1, <1>4, <2>3, <2>5, <2>6, <3>1 DEF MaintenanceInv, CostInv
  <2>17. CostHonest' BY <1>4, <2>2, <2>3, <2>5, EstimatesKept
  <2>18. QED BY <2>5, <2>7, <2>8, <2>9, <2>10, <2>11, <2>12, <2>13, <2>14, <2>15, <2>16, <2>17 DEF MaintenanceInv
<1>5. QED BY <1>2, <1>3, <1>4 DEF Dispatch

(* A maintenance request is opened with its input retained as a fact. *)
LEMMA OpenStageKeeps == ASSUME MaintenanceInv, OpenStage PROVE MaintenanceInv'
<1>1. at = "open" /\ scope' = scope /\ Alive /\ Maintaining BY DEF OpenStage, Alive, Maintaining
<1>2. CASE SettleMaintenance("interruption") \/ SettleMaintenance("failure")
  BY <1>1, <1>2, FactsKind, SettlesMaintenance
<1>3. TypeOK /\ FactInv BY DEF MaintenanceInv
<1>4. ids \in Nat \ {0} /\ ids \notin 0..(ids - 1) /\ \A i \in 0..(ids - 1) : i \in 0..((ids + 1) - 1)
  BY <1>3 DEF TypeOK
<1> DEFINE g == RetainInput(facts, ids)
<1>5. /\ g \in Procedure /\ g.source = facts.source /\ g.list \in Facts /\ FactIds(g.list) = FactIds(facts.list) \cup {ids}
      /\ Distinct(g.list) /\ Units(FactReports(g.list)) = Units(FactReports(facts.list))
      /\ g.list # <<>> /\ g.list[Len(g.list)].report = "absent"
  <2>1. facts \in Procedure BY FactsKind
  <2>2. Distinct(facts.list) /\ ids \notin FactIds(facts.list) BY <1>3, <1>4 DEF FactInv
  <2>3. QED BY <1>4, <2>1, <2>2, RetainedInput
<1>6. /\ FactIds(g.list) \subseteq 0..((ids + 1) - 1)
      /\ (NotedIds(log) \cup FactIds(pendingFacts)) \cap FactIds(g.list) = {}
  BY <1>3, <1>4, <1>5 DEF FactInv
<1> HIDE DEF g
<1>7. CASE canceled = "yes" /\ Publish("interruption", <<>>, NoOutput, g, "yes") /\ ids' = ids + 1
  <2>1. NoOutput.report = "absent" /\ NoOutput.report \in Report BY DEF NoOutput, Report
  <2>2. Says(g, NoOutput, <<>>)
    <3>1. Units(<<NoOutput.report>>) = 0 BY <2>1, UnitsOne
    <3>2. Units(FactReports(pendingFacts)) \in Nat /\ Units(FactReports(facts.list)) \in Nat BY FactsKind, Joined
    <3>3. Carried = Units(FactReports(pendingFacts)) + Units(FactReports(facts.list)) BY <1>1, <3>2 DEF Carried
    <3>4. QED BY <1>5, <3>1, <3>2, <3>3 DEF Says
  <2>3. QED BY <1>1, <1>5, <1>6, <1>7, <2>1, <2>2, Publishes DEF Statuses
<1>8. CASE /\ canceled = "no" /\ at' = "summarize" /\ facts' = g /\ ids' = ids + 1
           /\ ops' = [ops EXCEPT ![Current] = PublishMaintenance(@)]
           /\ UNCHANGED <<log, checkpoint, usage, canceled, round, frozen, pendingFacts, plan, output,
                          faults, crashes, spent, cancels>>
  <2> DEFINE r == PublishMaintenance(ops[Current])
  <2>1. frozen = View BY <1>1 DEF MaintenanceInv, FrozenInv
  <2>2. ops[Current] \in Register /\ ops[Current].status = "running" /\ Current \in DOMAIN ops
    <3>1. Running BY <1>1 DEF MaintenanceInv, RunInv
    <3>2. QED BY <3>1, Reads DEF Running
  <2>3. /\ Republished(r) /\ r.effect.kind = "maintenance" /\ r.unreported = ops[Current].unreported
        /\ r.request = IF ops[Current].request.id = 0 /\ facts.source # 0
                       THEN [id |-> facts.source, cp |-> frozen.cp, boundary |-> frozen.boundary] ELSE ops[Current].request
    <3>1. facts.source \in Nat /\ frozen.cp \in Nat /\ frozen.boundary \in Nat BY <1>3 DEF TypeOK
    <3>2. r = [ops[Current] EXCEPT !.effect = [kind |-> "maintenance", id |-> ids],
                  !.request = IF ops[Current].request.id = 0 /\ facts.source # 0
                       THEN [id |-> facts.source, cp |-> frozen.cp, boundary |-> frozen.boundary] ELSE ops[Current].request]
      BY DEF PublishMaintenance
    <3>3. [kind |-> "maintenance", id |-> ids] \in [kind : {"none", "conversation", "maintenance"}, id : Nat] BY <1>4
    <3>4. [id |-> facts.source, cp |-> frozen.cp, boundary |-> frozen.boundary] \in Request BY <3>1 DEF Request
    <3>5. r \in Register BY <2>2, <3>2, <3>3, <3>4 DEF Register
    <3>6. QED BY <2>2, <3>2, <3>5 DEF Republished, Register
  <2>4. ops' = [ops EXCEPT ![Current] = r] /\ UNCHANGED <<log, checkpoint, usage, scope>> BY <1>1, <1>8
  <2> HIDE DEF r
  <2>5. /\ OwnInv' /\ CheckpointInv' /\ PairInv' /\ TotalsMatch'
        /\ View' = View /\ Running' /\ Current' = Current /\ (Manual' <=> Manual)
        /\ ContextMeasurement' = ContextMeasurement
        /\ ops' \in Seq(Register) /\ Len(ops') = Len(ops) /\ DOMAIN ops' = DOMAIN ops /\ ops'[Current] = r
        /\ Current = Len(ops)
        /\ \A o \in DOMAIN ops : o # Current => ops'[o] = ops[o]
        /\ \A o \in DOMAIN ops : ops'[o].status = "running" => o = Len(ops)
        /\ \A o \in DOMAIN ops : ops'[o].status # "running" => ops'[o].effect.kind = "none" /\ ops'[o].pending = <<>>
    BY <1>1, <2>3, <2>4, Republishes
  <2>6. Alive' /\ Maintaining' BY <1>8 DEF Alive, Maintaining
  <2>7. facts'.list = g.list /\ facts'.source = facts.source /\ facts' \in Procedure BY <1>5, <1>8
  <2>8. TypeOK' BY <1>1, <1>3, <1>4, <1>8, <2>5, <2>7 DEF TypeOK, Procedure
  <2>9. RunInv' BY <1>8, <2>5, <2>6 DEF RunInv
  <2>10. KindInv' BY <1>1, <1>5, <1>8, <2>5, <2>6, <2>7 DEF MaintenanceInv, KindInv
  <2>11. EffectInv' BY <1>8, <2>3, <2>5 DEF EffectInv
  <2>12. PendingInv'
    <3>1. ops'[Current].pending = ops[Current].pending BY <2>3, <2>5 DEF Republished
    <3>2. Running BY <1>1 DEF MaintenanceInv, RunInv
    <3>3. ops[Current].pending = <<>> BY <1>1, <3>2 DEF MaintenanceInv, PendingInv
    <3>4. QED BY <1>8, <2>5, <3>1, <3>3, DueNone DEF PendingInv
  <2>13. FrozenInv' BY <1>8, <2>1, <2>5 DEF FrozenInv
  <2>14. RequestInv'
    <3>1. Manual => facts.source = 0 /\ ops[Current].request = NoRequest BY <1>1 DEF MaintenanceInv, KindInv, RequestInv
    <3>2. ops[Current].request.id # 0 => /\ ops[Current].request.cp = View.cp
                                         /\ ops[Current].request.boundary = View.boundary
      BY <1>1 DEF MaintenanceInv, RequestInv
    <3>3. Manual => r.request = NoRequest BY <2>3, <3>1
    <3>4. r.request.id # 0 => r.request.cp = View.cp /\ r.request.boundary = View.boundary BY <2>1, <2>3, <3>2
    <3>5. QED BY <1>8, <2>5, <3>3, <3>4 DEF RequestInv
  <2>15. SummaryInv' BY <1>1, <1>8, <2>5 DEF MaintenanceInv, SummaryInv
  <2>16. FactInv'
    <3>1. FactIds(facts'.list) = FactIds(facts.list) \cup {ids} /\ Distinct(facts'.list) BY <1>5, <2>7
    <3>2. NotedIds(log) \cup FactIds(facts'.list) \cup FactIds(pendingFacts) \subseteq 0..(ids' - 1)
      BY <1>3, <1>4, <1>6, <1>8, <2>7 DEF FactInv
    <3>3. (NotedIds(log) \cup FactIds(pendingFacts)) \cap FactIds(facts'.list) = {} BY <1>6, <2>7
    <3>4. ~ Manual => facts.source \in 1..(ids' - 1) /\ facts.source # ids
                      /\ facts.source \notin FactIds(facts.list) \cup FactIds(pendingFacts)
      BY <1>1, <1>3, <1>4, <1>8 DEF FactInv
    <3>5. QED BY <1>3, <1>8, <2>5, <2>7, <3>1, <3>2, <3>3, <3>4 DEF FactInv
  <2>17. CostInv'
    <3>1. Carried' = Carried BY <1>1, <1>5, <1>8, <2>7 DEF Carried
    <3>2. ops[Current].effect.kind = "none" BY <1>1 DEF MaintenanceInv, EffectInv
    <3>3. r.unreported = "no" => pendingFacts = <<>> BY <1>1, <2>3, <3>2 DEF MaintenanceInv, CostInv
    <3>4. QED BY <1>1, <1>8, <2>3, <2>5, <2>6, <3>1, <3>3 DEF MaintenanceInv, CostInv
  <2>18. CostHonest' BY <1>8, <2>2, <2>3, <2>5, EstimatesKept
  <2>19. QED BY <2>5, <2>8, <2>9, <2>10, <2>11, <2>12, <2>13, <2>14, <2>15, <2>16, <2>17, <2>18 DEF MaintenanceInv
<1>9. QED BY <1>2, <1>7, <1>8 DEF OpenStage, g

(* The report of a maintenance request lands on its fact, and the register
   marks what only memory holds. *)
LEMMA SummarizedKeeps == ASSUME MaintenanceInv, Summarized PROVE MaintenanceInv'
<1>1. at = "summarized" /\ scope' = scope /\ Alive /\ Maintaining BY DEF Summarized, Alive, Maintaining
<1>2. CASE Fault BY <1>1, <1>2, Loses DEF Fault
<1>3. TypeOK /\ FactInv BY DEF MaintenanceInv
<1>4. output.report \in Report BY <1>3 DEF TypeOK
<1> DEFINE g == RetainUsage(facts, output.report)
<1>5. /\ g \in Procedure /\ g.source = facts.source /\ g.list \in Facts /\ FactIds(g.list) = FactIds(facts.list)
      /\ Distinct(g.list) /\ Units(FactReports(g.list)) = Units(FactReports(facts.list)) + Units(<<output.report>>)
  <2>1. facts \in Procedure BY FactsKind
  <2>2. facts.list # <<>> /\ facts.list[Len(facts.list)].report = "absent" BY <1>1 DEF MaintenanceInv, KindInv
  <2>3. QED BY <1>3, <1>4, <2>1, <2>2, RetainedUsage DEF FactInv
<1>6. /\ FactIds(g.list) \subseteq 0..(ids - 1)
      /\ (NotedIds(log) \cup FactIds(pendingFacts)) \cap FactIds(g.list) = {}
  BY <1>3, <1>5 DEF FactInv
<1>7. /\ Units(FactReports(pendingFacts)) \in Nat /\ Units(FactReports(facts.list)) \in Nat /\ Units(<<output.report>>) \in Nat
      /\ Carried = Units(FactReports(pendingFacts)) + Units(FactReports(g.list))
  <2>1. Units(FactReports(pendingFacts)) \in Nat /\ Units(FactReports(facts.list)) \in Nat BY FactsKind, Joined
  <2>2. Units(<<output.report>>) \in Nat BY <1>4, UnitsOne
  <2>3. Carried = Units(FactReports(pendingFacts)) + Units(FactReports(facts.list)) + Units(<<output.report>>)
    BY <1>1 DEF Carried
  <2>4. QED BY <1>5, <2>1, <2>2, <2>3
<1> HIDE DEF g
<1>8. ASSUME NEW st \in Statuses, EndWith(st, <<>>, NoOutput, g, "yes") PROVE MaintenanceInv'
  <2>1. NoOutput.report = "absent" /\ NoOutput.report \in Report BY DEF NoOutput, Report
  <2>2. Says(g, NoOutput, <<>>)
    <3>1. Units(<<NoOutput.report>>) = 0 BY <2>1, UnitsOne
    <3>2. Units(FactReports(g.list)) \in Nat BY <1>5, Joined
    <3>3. QED BY <1>7, <3>1, <3>2 DEF Says
  <2>3. Publish(st, <<>>, NoOutput, g, "yes") /\ ids' = ids BY <1>8 DEF EndWith
  <2>4. QED BY <1>1, <1>5, <1>6, <2>1, <2>2, <2>3, Publishes
<1>9. CASE /\ output.status = "completed" /\ at' = "consume" /\ facts' = g
           /\ ops' = [ops EXCEPT ![Current] = MaintenanceResult(@)]
           /\ UNCHANGED <<log, checkpoint, usage, canceled, round, frozen, pendingFacts, plan, output,
                          ids, faults, crashes, spent, cancels>>
  <2> DEFINE r == MaintenanceResult(ops[Current])
  <2>1. ops[Current] \in Register /\ ops[Current].status = "running" /\ Current \in DOMAIN ops
    <3>1. Running BY <1>1 DEF MaintenanceInv, RunInv
    <3>2. QED BY <3>1, Reads DEF Running
  <2>2. /\ Republished(r) /\ r.effect.kind = "none" /\ r.unreported = "yes" /\ r.request = ops[Current].request
    <3>1. r = [ops[Current] EXCEPT !.effect = NoEffect, !.unreported = "yes"] BY DEF MaintenanceResult
    <3>2. NoEffect \in [kind : {"none", "conversation", "maintenance"}, id : Nat] BY DEF NoEffect
    <3>3. r \in Register BY <2>1, <3>1, <3>2 DEF Register
    <3>4. QED BY <2>1, <3>1, <3>3 DEF Republished, Register, NoEffect
  <2>3. ops' = [ops EXCEPT ![Current] = r] /\ UNCHANGED <<log, checkpoint, usage, scope>> BY <1>1, <1>9
  <2> HIDE DEF r
  <2>5. /\ OwnInv' /\ CheckpointInv' /\ PairInv' /\ TotalsMatch'
        /\ View' = View /\ Running' /\ Current' = Current /\ (Manual' <=> Manual)
        /\ ContextMeasurement' = ContextMeasurement
        /\ ops' \in Seq(Register) /\ Len(ops') = Len(ops) /\ DOMAIN ops' = DOMAIN ops /\ ops'[Current] = r
        /\ Current = Len(ops)
        /\ \A o \in DOMAIN ops : o # Current => ops'[o] = ops[o]
        /\ \A o \in DOMAIN ops : ops'[o].status = "running" => o = Len(ops)
        /\ \A o \in DOMAIN ops : ops'[o].status # "running" => ops'[o].effect.kind = "none" /\ ops'[o].pending = <<>>
    BY <1>1, <2>2, <2>3, Republishes
  <2>6. Alive' /\ Maintaining' BY <1>9 DEF Alive, Maintaining
  <2>7. facts'.list = g.list /\ facts'.source = facts.source /\ facts' \in Procedure BY <1>5, <1>9
  <2>8. TypeOK' BY <1>1, <1>3, <1>9, <2>5, <2>7 DEF TypeOK, Procedure
  <2>9. RunInv' BY <1>9, <2>5, <2>6 DEF RunInv
  <2>10. KindInv' BY <1>1, <1>9, <2>5, <2>6, <2>7 DEF MaintenanceInv, KindInv
  <2>11. EffectInv' BY <1>9, <2>2, <2>5 DEF EffectInv
  <2>12. PendingInv'
    <3>1. ops'[Current].pending = ops[Current].pending BY <2>2, <2>5 DEF Republished
    <3>2. Running BY <1>1 DEF MaintenanceInv, RunInv
    <3>3. ops[Current].pending = <<>> BY <1>1, <3>2 DEF MaintenanceInv, PendingInv
    <3>4. QED BY <1>9, <2>5, <3>1, <3>3, DueNone DEF PendingInv
  <2>13. FrozenInv' BY <1>1, <1>9, <2>5 DEF MaintenanceInv, FrozenInv
  <2>14. RequestInv' BY <1>1, <1>9, <2>2, <2>5 DEF MaintenanceInv, RequestInv
  <2>15. SummaryInv' BY <1>1, <1>9, <2>5 DEF MaintenanceInv, SummaryInv
  <2>16. FactInv'
    <3>1. FactIds(facts'.list) = FactIds(facts.list) /\ Distinct(facts'.list) BY <1>5, <2>7
    <3>2. QED BY <1>1, <1>3, <1>9, <2>5, <2>7, <3>1 DEF FactInv
  <2>17. CostInv'
    <3>1. Carried' = Carried
      <4>1. Units(FactReports(g.list)) \in Nat BY <1>5, Joined
      <4>2. Carried' = Units(FactReports(pendingFacts)) + Units(FactReports(g.list)) BY <1>7, <1>9, <2>7, <4>1 DEF Carried
      <4>3. QED BY <1>7, <4>2
    <3>2. QED BY <1>1, <1>9, <2>2, <2>5, <2>6, <3>1 DEF MaintenanceInv, CostInv
  <2>18. CostHonest' BY <1>9, <2>1, <2>2, <2>5, EstimatesKept
  <2>19. QED BY <2>5, <2>8, <2>9, <2>10, <2>11, <2>12, <2>13, <2>14, <2>15, <2>16, <2>17, <2>18 DEF MaintenanceInv
<1>10. ASSUME EndWith(IF output.status = "errored" THEN "failure" ELSE "interruption", <<>>, NoOutput, g, "yes")
       PROVE  MaintenanceInv'
  <2>1. CASE output.status = "errored" BY <1>8, <1>10, <2>1, FactsKind
  <2>2. CASE output.status # "errored" BY <1>8, <1>10, <2>2, FactsKind
  <2>3. QED BY <2>1, <2>2
<1>11. QED BY <1>2, <1>9, <1>10 DEF Summarized, g

(* An execution goes on over a longer log. *)
Costs(l2, l, o, n) ==
    /\ \A x : LoggedUsage(l2, x) = LoggedUsage(l, x) + (IF x = o THEN n ELSE 0)
    /\ Cardinality(EveryReport(l2)) = Cardinality(EveryReport(l)) + n
Continued(r, p, n) ==
    /\ r \in Register /\ r.kind = ops[Current].kind /\ r.status = "running"
    /\ r.pending = p /\ r.usage = ops[Current].usage + n

(* A transaction of an execution that goes on keeps what is said of the log
   and the totals. *)
LEMMA Continues ==
    ASSUME MaintenanceInv, Alive, NEW r, NEW p, NEW n \in Nat, Continued(r, p, n),
           Held(log', checkpoint', p), Adds(log', log, Current), Costs(log', log, Current, n),
           ops' = [ops EXCEPT ![Current] = r], usage' = usage + n, spent' = spent, scope' = scope
    PROVE  /\ OwnInv' /\ CheckpointInv' /\ PairInv' /\ TotalsMatch'
           /\ Running' /\ Current' = Current /\ (Manual' <=> Manual)
           /\ ops' \in Seq(Register) /\ Len(ops') = Len(ops) /\ DOMAIN ops' = DOMAIN ops /\ ops'[Current] = r
           /\ Current \in DOMAIN ops /\ Current = Len(ops)
           /\ \A o \in DOMAIN ops : ops'[o].status = "running" => o = Len(ops)
           /\ \A o \in DOMAIN ops : ops'[o].status # "running" => ops'[o].effect.kind = "none" /\ ops'[o].pending = <<>>
           /\ Due(log', ops'[Current].pending) /\ usage' \in Nat
           /\ log' \in Seq(Entry) /\ checkpoint' \in 0..Len(log') /\ (checkpoint' # 0 => log'[checkpoint'].kind = "checkpoint")
           /\ \A i \in DOMAIN log' : log'[i].op \in DOMAIN ops'
           /\ \A o \in DOMAIN ops' : o # Current /\ ops'[o].effect.kind = "none" /\ EstimateKnown(o)'
                  => LoggedUsage(log', o) = spent'[o]
<1>1. Running BY DEF MaintenanceInv, RunInv
<1>2. Current \in DOMAIN ops /\ ops \in Seq(Register) /\ Current = Len(ops) BY <1>1, Reads DEF Current
<1>3. /\ ops' \in Seq(Register) /\ Len(ops') = Len(ops) /\ DOMAIN ops' = DOMAIN ops /\ ops'[Current] = r
      /\ \A o \in DOMAIN ops : o # Current => ops'[o] = ops[o]
  BY <1>2, Rewrites DEF Continued
<1>4. Current' = Current BY <1>3 DEF Current
<1>5. Running'
  <2>1. ops' # <<>> BY <1>2, <1>3
  <2>2. QED BY <1>3, <1>4, <2>1 DEF Running, Continued
<1>6. Manual' <=> Manual BY <1>3, <1>4 DEF Manual, Continued
<1>7. Open' = p BY <1>3, <1>4, <1>5 DEF Open, Continued
<1>8. OwnInv' /\ CheckpointInv' /\ PairInv' /\ (Running' => Due(log', ops'[Current'].pending)) BY <1>7, Holds
<1>9. log' \in Seq(Entry) /\ checkpoint' \in 0..Len(log') /\ (checkpoint' # 0 => log'[checkpoint'].kind = "checkpoint")
  BY DEF Held, Readable
<1>10. PICK q : Further(log', log, q) /\ \A k \in 1..q : log'[Len(log) + k].op = Current BY DEF Adds
<1>11. /\ \A o : LoggedUsage(log', o) = LoggedUsage(log, o) + (IF o = Current THEN n ELSE 0)
       /\ Cardinality(EveryReport(log')) = Cardinality(EveryReport(log)) + n
  BY DEF Costs
<1>12. ops'[Current].usage = ops[Current].usage + n BY <1>3 DEF Continued
<1>13. /\ TotalsMatch'
       /\ \A i \in DOMAIN log' : log'[i].op \in DOMAIN ops'
       /\ \A o \in DOMAIN ops' : o # Current /\ ops'[o].effect.kind = "none" /\ EstimateKnown(o)'
              => LoggedUsage(log', o) = spent'[o]
  BY <1>1, <1>3, <1>9, <1>10, <1>11, <1>12, TotalsKept
<1>14. /\ \A o \in DOMAIN ops : ops'[o].status = "running" => o = Len(ops)
       /\ \A o \in DOMAIN ops : ops'[o].status # "running" => ops'[o].effect.kind = "none" /\ ops'[o].pending = <<>>
  <2>. SUFFICES ASSUME NEW o \in DOMAIN ops
                PROVE  /\ ops'[o].status = "running" => o = Len(ops)
                       /\ ops'[o].status # "running" => ops'[o].effect.kind = "none" /\ ops'[o].pending = <<>>
    OBVIOUS
  <2>1. CASE o = Current BY <1>2, <1>3, <2>1 DEF Continued
  <2>2. CASE o # Current BY <1>3, <2>2 DEF MaintenanceInv, RunInv
  <2>3. QED BY <2>1, <2>2
<1>15. usage' \in Nat BY DEF MaintenanceInv, TypeOK
<1>16. QED BY <1>2, <1>3, <1>4, <1>5, <1>6, <1>8, <1>9, <1>13, <1>14, <1>15

(* The current estimate holds when the log covers what was spent. *)
LEMMA EstimateCovered ==
    ASSUME Current' = Current,
           \A o \in DOMAIN ops' : o # Current /\ ops'[o].effect.kind = "none" /\ EstimateKnown(o)'
                  => LoggedUsage(log', o) = spent'[o],
           ops'[Current].unreported = "no" => LoggedUsage(log', Current) = spent'[Current]
    PROVE  CostHonest'
<1>. SUFFICES ASSUME NEW o \in DOMAIN ops', ops'[o].effect.kind = "none", EstimateKnown(o)'
              PROVE  LoggedUsage(log', o) = spent'[o]
  BY DEF CostHonest
<1>1. CASE o = Current BY <1>1 DEF EstimateKnown
<1>2. CASE o # Current BY <1>2
<1>3. QED BY <1>1, <1>2

(* The log a committed output leaves. *)
LEMMA OutputLogged ==
    ASSUME MaintenanceInv, at = "answered",
           NEW sig, sig = <<>> \/ (sig = <<[kind |-> "signal", op |-> Current]>> /\ output.calls = <<>>)
    PROVE  LET l2 == Append(log, AssistantEntry) \o sig
           IN  /\ Held(l2, checkpoint, Openings(output.calls, Len(log) + 1))
               /\ Adds(l2, log, Current) /\ Costs(l2, log, Current, Units(<<output.report>>))
               /\ NotedIds(l2) = NotedIds(log) /\ Once(l2)
<1>1. Alive BY DEF Alive
<1>2. Running BY <1>1 DEF MaintenanceInv, RunInv
<1>3. Open = <<>> BY <1>2 DEF MaintenanceInv, PendingInv, Open
<1>4. Held(log, checkpoint, <<>>) /\ Current \in Nat BY <1>3, Reads
<1>5. log \in Seq(Entry) /\ output.calls \in Seq(Calls) /\ output.report \in Report /\ IsInjective(output.calls)
  BY DEF MaintenanceInv, TypeOK, KindInv
<1> DEFINE e == AssistantEntry
           l1 == Append(log, e)
<1>6. e \in Entry /\ e.kind = "assistant" /\ e.calls = output.calls /\ e.op = Current /\ e.report = output.report
  BY <1>4, <1>5 DEF AssistantEntry, Entry
<1>7. EntryReports(e) = <<output.report>> /\ Carries(e) = <<>> BY <1>6, EntryReportsKind DEF Carries
<1> HIDE DEF e
<1>8. l1 \in Seq(Entry) /\ Further(l1, log, 1) /\ l1[Len(log) + 1] = e /\ Len(l1) = Len(log) + 1 /\ Len(log) \in Nat
  BY <1>5, <1>6 DEF Further
<1>9. Held(l1, checkpoint, Openings(output.calls, Len(log) + 1))
  <2> HIDE DEF l1
  <2>1. IsInjective(l1[Len(log) + 1].calls) /\ l1[Len(log) + 1].kind = "assistant" /\ l1[Len(log) + 1].calls = output.calls
    BY <1>5, <1>6, <1>8
  <2>2. Held(l1, checkpoint, Openings(l1[Len(log) + 1].calls, Len(log) + 1)) BY <1>4, <1>8, <2>1, Opens
  <2>3. QED BY <2>1, <2>2
<1>10. FactInv BY DEF MaintenanceInv
<1>11. CASE sig = <<>>
  <2>1. l1 \o sig = l1
    <3>1. l1 \in Seq(Entry) BY <1>8
    <3> HIDE DEF l1
    <3>2. QED BY <1>11, <3>1, EmptySeq, ConcatEmptySeq
  <2> HIDE DEF l1
  <2>2. Accounts(l1, Len(log), 1, 1) BY DEF Accounts
  <2>3. /\ Cardinality(EveryReport(l1)) = Cardinality(EveryReport(log)) + Units(EntryReports(l1[Len(log) + 1]))
        /\ \A o : LoggedUsage(l1, o) = LoggedUsage(log, o) +
                     (IF l1[Len(log) + 1].op = o THEN Units(EntryReports(l1[Len(log) + 1])) ELSE 0)
    BY <1>5, <1>8, <2>2, LoggedGrows
  <2>4. Costs(l1, log, Current, Units(<<output.report>>)) BY <1>6, <1>7, <1>8, <2>3 DEF Costs
  <2>5. Adds(l1, log, Current) BY <1>6, <1>8 DEF Adds
  <2>6. NotedIds(l1) = NotedIds(log) /\ Once(l1)
    <3>1. Carries(l1[Len(log) + 1]) = <<>> BY <1>7, <1>8
    <3>2. NotedIds(l1) = NotedIds(log) \cup FactIds(Carries(l1[Len(log) + 1])) BY <1>8, <2>2, NotedGrow
    <3>3. Once(log) /\ Distinct(Carries(l1[Len(log) + 1])) /\ NotedIds(log) \cap FactIds(Carries(l1[Len(log) + 1])) = {}
             => Once(l1)
      BY <1>8, <2>2, NotedGrow
    <3>4. QED BY <1>10, <3>1, <3>2, <3>3, NoFactsList DEF FactInv
  <2>7. QED BY <1>9, <2>1, <2>4, <2>5, <2>6 DEF l1, e
<1>12. CASE sig = <<[kind |-> "signal", op |-> Current]>> /\ output.calls = <<>>
  <2> DEFINE l2 == l1 \o sig
             s  == [kind |-> "signal", op |-> Current]
  <2>1. s \in Entry /\ EntryReports(s) = <<>> /\ Carries(s) = <<>> /\ s.kind = "signal" /\ s.op = Current
    <3>1. s \in Entry BY <1>4 DEF Entry
    <3>2. QED BY <3>1, EntryReportsKind DEF Carries
  <2> HIDE DEF l1, s
  <2>2. sig \in Seq(Entry) /\ Len(sig) = 1 /\ sig[1] = s BY <1>12, <2>1 DEF s
  <2>3. /\ l2 \in Seq(Entry) /\ Len(l2) = Len(l1) + 1 /\ DOMAIN l2 = 1..(Len(l1) + 1)
        /\ \A i \in 1..Len(l1) : l2[i] = l1[i]
        /\ l2[Len(l1) + 1] = s
    <3>1. l1 \in Seq(Entry) /\ sig \in Seq(Entry) BY <1>8, <2>2
    <3>2. /\ l2 \in Seq(Entry) /\ Len(l2) = Len(l1) + Len(sig) /\ DOMAIN l2 = 1..(Len(l1) + Len(sig))
          /\ \A i \in 1..Len(l1) : l2[i] = l1[i]
          /\ \A k \in 1..Len(sig) : l2[Len(l1) + k] = sig[k]
      BY <3>1, Grown
    <3> HIDE DEF l2
    <3>3. QED BY <2>2, <3>2
  <2> HIDE DEF l2
  <2>4. Further(l2, l1, 1) BY <1>8, <2>3 DEF Further
  <2>5. Further(l2, log, 2) /\ l2[Len(log) + 1] = e /\ l2[Len(log) + 2] = s BY <1>8, <2>3 DEF Further
  <2>6. Openings(output.calls, Len(log) + 1) = <<>> /\ Answers(<<>>) = {} BY <1>12 DEF Openings, Answers
  <2>7. Held(l2, checkpoint, <<>>)
    <3>1. Finishes(l2, Len(l1), <<>>, 1, 1) BY <2>1, <2>3 DEF Finishes
    <3>2. Held(l1, checkpoint, <<>>) BY <1>9, <2>6
    <3>3. QED BY <2>3, <2>4, <3>1, <3>2, Closes
  <2>8. Accounts(l2, Len(log), 2, 1)
    <3>1. \A k \in 1..2 : k # 1 => k = 2 OBVIOUS
    <3>2. QED BY <2>1, <2>5, <3>1 DEF Accounts
  <2>9. /\ Cardinality(EveryReport(l2)) = Cardinality(EveryReport(log)) + Units(EntryReports(l2[Len(log) + 1]))
        /\ \A o : LoggedUsage(l2, o) = LoggedUsage(log, o) +
                     (IF l2[Len(log) + 1].op = o THEN Units(EntryReports(l2[Len(log) + 1])) ELSE 0)
    BY <1>5, <2>3, <2>5, <2>8, LoggedGrows
  <2>10. Costs(l2, log, Current, Units(<<output.report>>)) BY <1>6, <1>7, <2>5, <2>9 DEF Costs
  <2>11. Adds(l2, log, Current)
    <3>1. \A k \in 1..2 : k = 1 \/ k = 2 OBVIOUS
    <3>2. QED BY <1>6, <2>1, <2>5, <3>1 DEF Adds
  <2>12. NotedIds(l2) = NotedIds(log) /\ Once(l2)
    <3>1. Carries(l2[Len(log) + 1]) = <<>> BY <1>7, <2>5
    <3>2. NotedIds(l2) = NotedIds(log) \cup FactIds(Carries(l2[Len(log) + 1])) BY <2>5, <2>8, NotedGrow
    <3>3. Once(log) /\ Distinct(Carries(l2[Len(log) + 1])) /\ NotedIds(log) \cap FactIds(Carries(l2[Len(log) + 1])) = {}
             => Once(l2)
      BY <2>5, <2>8, NotedGrow
    <3>4. QED BY <1>10, <3>1, <3>2, <3>3, NoFactsList DEF FactInv
  <2>13. QED BY <2>6, <2>7, <2>10, <2>11, <2>12 DEF l2, l1, e
<1>13. QED BY <1>11, <1>12

(* What an accepted conversation output leads to. *)
LEMMA AnswerSettlesKeeps == ASSUME MaintenanceInv, AnswerSettles PROVE MaintenanceInv'
<1>1. at = "answered" /\ scope' = scope /\ Alive /\ ~ Maintaining BY DEF AnswerSettles, Alive, Maintaining
<1>2. TypeOK /\ FactInv /\ KindInv BY DEF MaintenanceInv
<1>3. /\ ~ Manual /\ facts.list = <<>> /\ output.report \in Report /\ ops[Current].effect.kind = "conversation"
      /\ ops[Current].effect.id = facts.source /\ facts.source \notin FactIds(pendingFacts)
  BY <1>1, <1>2 DEF MaintenanceInv, KindInv, EffectInv, FactInv, TypeOK
<1>4. /\ Units(FactReports(pendingFacts)) \in Nat /\ Units(<<output.report>>) \in Nat
      /\ Units(FactReports(facts.list)) = 0 /\ Units(FactReports(NoFacts.list)) = 0
      /\ Carried = Units(FactReports(pendingFacts)) + Units(<<output.report>>)
  <2>1. Units(FactReports(pendingFacts)) \in Nat BY FactsKind, Joined
  <2>2. Units(<<output.report>>) \in Nat BY <1>3, UnitsOne
  <2>3. Units(FactReports(facts.list)) = 0 /\ Units(FactReports(NoFacts.list)) = 0 BY <1>3, FactsKind, NoFactsList
  <2>4. QED BY <1>1, <2>1, <2>2, <2>3 DEF Carried
<1>5. /\ NoFacts \in Procedure /\ FactIds(NoFacts.list) = {} /\ Distinct(NoFacts.list) BY FactsKind, NoFactsList
<1>6. ASSUME NEW st \in Statuses, NEW out, out.report \in Report,
             NEW asst, asst = <<>> \/ (asst = <<AssistantEntry>> /\ out = output), Says(NoFacts, out, asst),
             EndWith(st, asst, out, NoFacts, "no")
      PROVE  MaintenanceInv'
  <2>1. Publish(st, asst, out, NoFacts, "no") /\ ids' = ids BY <1>6 DEF EndWith
  <2>2. asst = <<>> \/ (asst = <<AssistantEntry>> /\ at = "answered" /\ out = output) BY <1>1, <1>6
  <2>3. QED BY <1>1, <1>3, <1>5, <1>6, <2>1, <2>2, Publishes
<1>7. CASE EndWith("failure", <<>>, NoOutput, NoFacts, "no")
  <2>1. NoOutput.report = "absent" /\ NoOutput.report \in Report BY DEF NoOutput, Report
  <2>2. ~ Witnesses(ConsumePending(NoFacts), facts.source)
    <3>1. FactIds(ConsumePending(NoFacts).list) = FactIds(pendingFacts) BY <1>5, Joined
    <3>2. QED BY <1>3, <3>1 DEF Witnesses, FactIds
  <2>3. NamesModel(ops[Current], ConsumePending(NoFacts), NoOutput) BY <1>3, <2>2 DEF NamesModel
  <2>4. Says(NoFacts, NoOutput, <<>>) BY <2>1, <2>3 DEF Says
  <2>5. QED BY <1>6, <1>7, <2>1, <2>4, FactsKind
<1>8. ASSUME NEW asst PROVE Says(NoFacts, output, asst) BY <1>4 DEF Says
<1>9. CASE \E asst \in {<<>>, <<AssistantEntry>>} : EndWith("interruption", asst, output, NoFacts, "no")
  BY <1>3, <1>6, <1>8, <1>9, FactsKind
<1>10. CASE EndWith("failure", <<>>, output, NoFacts, "no") BY <1>3, <1>6, <1>8, <1>10, FactsKind
<1>11. CASE Fault BY <1>1, <1>11, Loses DEF Fault
<1>12. ASSUME NEW sig \in {<<>>, <<[kind |-> "signal", op |-> Current]>>},
              sig # <<>> <=> output.status = "errored", CommitRunning(sig),
              at' = IF output.calls # <<>> THEN "tools" ELSE IF sig # <<>> THEN "source" ELSE "over",
              output' = NoOutput,
              UNCHANGED <<checkpoint, canceled, round, frozen, facts, pendingFacts, plan, ids, faults, crashes, spent, cancels>>
       PROVE  MaintenanceInv'
  <2> DEFINE n == Units(<<output.report>>)
             p == Openings(output.calls, Len(log) + 1)
             r == RunningResult(ops[Current], n)
  <2>1. ops[Current] \in Register /\ ops[Current].status = "running" /\ Current \in DOMAIN ops
    <3>1. Running BY <1>1 DEF MaintenanceInv, RunInv
    <3>2. QED BY <3>1, Reads DEF Running
  <2>2. p \in Seq([call : Calls, of : Nat]) /\ (p = <<>> <=> output.calls = <<>>)
    <3>1. output.calls \in Seq(Calls) /\ Len(log) + 1 \in Nat BY <1>2 DEF TypeOK
    <3>2. p \in Seq([call : Calls, of : Nat]) /\ Len(p) = Len(output.calls) BY <3>1, OpeningsKind
    <3> HIDE DEF p
    <3>3. QED BY <3>1, <3>2
  <2>3. log' = Append(log, AssistantEntry) \o sig /\ usage' = usage + n /\ ops' = [ops EXCEPT ![Current] = r]
    BY <1>12 DEF CommitRunning
  <2>4. sig = <<>> \/ (sig = <<[kind |-> "signal", op |-> Current]>> /\ output.calls = <<>>)
    BY <1>2, <1>12 DEF KindInv
  <2>5. /\ Held(log', checkpoint, p) /\ Adds(log', log, Current) /\ Costs(log', log, Current, n)
        /\ NotedIds(log') = NotedIds(log) /\ Once(log')
    BY <1>1, <2>3, <2>4, OutputLogged
  <2>6. /\ Continued(r, p, n) /\ r.effect.kind = "none" /\ r.unreported = ops[Current].unreported
        /\ output.calls = <<>> => r.request = NoRequest
    <3> HIDE DEF p
    <3>1. n \in Nat /\ ops[Current].usage \in Nat BY <1>4, <2>1 DEF Register
    <3>2. NoEffect \in [kind : {"none", "conversation", "maintenance"}, id : Nat] /\ NoRequest \in Request
      BY DEF NoEffect, NoRequest, Request
    <3> DEFINE u == ops[Current].usage + n
               q == IF output.calls = <<>> THEN NoRequest ELSE ops[Current].request
    <3>3. u \in Nat BY <3>1
    <3>4. q \in Request BY <2>1, <3>2 DEF Register
    <3>5. r = [ops[Current] EXCEPT !.effect = NoEffect, !.usage = u, !.pending = p, !.request = q]
      BY DEF RunningResult, Openings, p
    <3>6. u = ops[Current].usage + n /\ (output.calls = <<>> => q = NoRequest) OBVIOUS
    <3> HIDE DEF n, u, q, r
    <3>7. r \in Register BY <2>1, <2>2, <3>2, <3>3, <3>4, <3>5 DEF Register
    <3>8. QED BY <2>1, <3>5, <3>6, <3>7 DEF Continued, Register, NoEffect
  <2>7. n \in Nat /\ checkpoint' = checkpoint /\ spent' = spent BY <1>4, <1>12
  <2> HIDE DEF n, p, r
  <2>8. /\ OwnInv' /\ CheckpointInv' /\ PairInv' /\ TotalsMatch'
        /\ Running' /\ Current' = Current /\ (Manual' <=> Manual)
        /\ ops' \in Seq(Register) /\ Len(ops') = Len(ops) /\ DOMAIN ops' = DOMAIN ops /\ ops'[Current] = r
        /\ Current \in DOMAIN ops /\ Current = Len(ops)
        /\ \A o \in DOMAIN ops : ops'[o].status = "running" => o = Len(ops)
        /\ \A o \in DOMAIN ops : ops'[o].status # "running" => ops'[o].effect.kind = "none" /\ ops'[o].pending = <<>>
        /\ Due(log', ops'[Current].pending) /\ usage' \in Nat
        /\ log' \in Seq(Entry) /\ checkpoint' \in 0..Len(log') /\ (checkpoint' # 0 => log'[checkpoint'].kind = "checkpoint")
        /\ \A i \in DOMAIN log' : log'[i].op \in DOMAIN ops'
        /\ \A o \in DOMAIN ops' : o # Current /\ ops'[o].effect.kind = "none" /\ EstimateKnown(o)'
               => LoggedUsage(log', o) = spent'[o]
    BY <1>1, <2>3, <2>5, <2>6, <2>7, Continues
  <2>9. at' \in {"tools", "source", "over"} /\ Alive' /\ ~ Maintaining' /\ (at' # "tools" => output.calls = <<>>)
        /\ (at' = "tools" => output.calls # <<>>)
    BY <1>12 DEF Alive, Maintaining
  <2>10. NoOutput \in [status : {"none", "completed", "errored", "interrupted"}, calls : Seq(Calls), report : Report]
         /\ NoOutput.calls = <<>> /\ IsInjective(NoOutput.calls) /\ NoOutput.status = "none"
    BY DEF NoOutput, Report, IsInjective
  <2>11. TypeOK' BY <1>1, <1>2, <1>12, <2>8, <2>9, <2>10 DEF TypeOK
  <2>12. RunInv' BY <2>8, <2>9 DEF RunInv
  <2>13. KindInv' BY <1>1, <1>2, <1>3, <1>12, <2>8, <2>9, <2>10 DEF KindInv
  <2>14. EffectInv' BY <2>6, <2>8, <2>9 DEF EffectInv
  <2>15. PendingInv' BY <2>2, <2>6, <2>8, <2>9 DEF PendingInv, Continued
  <2>16. FrozenInv' BY <2>9 DEF FrozenInv
  <2>17. RequestInv' BY <1>3, <2>6, <2>8, <2>9 DEF RequestInv
  <2>18. SummaryInv' BY <2>9 DEF SummaryInv
  <2>19. FactInv' BY <1>2, <1>12, <2>5, <2>9 DEF FactInv
  <2>20. CostInv /\ LoggedUsage(log, Current) \in Nat
         /\ LoggedUsage(log', Current) = LoggedUsage(log, Current) + n
         /\ spent[Current] = LoggedUsage(log, Current) + (Units(FactReports(pendingFacts)) + n)
         /\ (ops[Current].unreported = "no" => pendingFacts = <<>>)
    <3>1. CostInv BY DEF MaintenanceInv
    <3>2. LoggedUsage(log, Current) \in Nat BY <1>2, LoggedKind DEF TypeOK
    <3>3. QED BY <1>1, <1>4, <2>5, <3>1, <3>2 DEF CostInv, Costs, n
  <2>21. CostInv'
    <3>1. Carried' = Units(FactReports(pendingFacts)) BY <1>4, <1>12, <2>9 DEF Carried
    <3>2. spent'[Current] = LoggedUsage(log', Current) + Carried' BY <1>4, <2>7, <2>20, <3>1
    <3>3. QED BY <1>3, <1>12, <2>6, <2>8, <2>9, <2>20, <3>2 DEF CostInv
  <2>22. CostHonest'
    <3>1. ops'[Current].unreported = "no" => LoggedUsage(log', Current) = spent'[Current]
      <4>. SUFFICES ASSUME ops'[Current].unreported = "no" PROVE LoggedUsage(log', Current) = spent'[Current] OBVIOUS
      <4>1. pendingFacts = <<>> BY <2>6, <2>8, <2>20
      <4>2. Units(FactReports(pendingFacts)) = 0 BY <4>1, NoFactsList
      <4>3. QED BY <2>7, <2>20, <4>2
    <3>2. QED BY <2>8, <3>1, EstimateCovered
  <2>23. QED BY <2>8, <2>11, <2>12, <2>13, <2>14, <2>15, <2>16, <2>17, <2>18, <2>19, <2>21, <2>22 DEF MaintenanceInv
<1>13. QED
  <2>2. CASE /\ ~ Repeats /\ output.status # "interrupted"
             /\ \E signal \in {<<>>, <<[kind |-> "signal", op |-> Current]>>} :
                   /\ signal # <<>> <=> output.status = "errored"
                   /\ CommitRunning(signal)
                   /\ at' = IF output.calls # <<>> THEN "tools"
                            ELSE IF signal # <<>> THEN "source" ELSE "over"
             /\ output' = NoOutput
             /\ UNCHANGED <<checkpoint, canceled, round, frozen, facts, pendingFacts, plan, ids, faults, crashes, spent, cancels>>
    BY <1>12, <2>2
  <2>3. QED BY <1>7, <1>9, <1>10, <1>11, <2>2 DEF AnswerSettles

(* The first of a list and the rest. *)
LEMMA FirstAndRest ==
    ASSUME NEW S, NEW s \in Seq(S), s # <<>>
    PROVE  s[1] \in S /\ Tail(s) \in Seq(S) /\ (Tail(s) = <<>> <=> Len(s) = 1)
<1>1. 1 \in DOMAIN s OBVIOUS
<1>2. s[1] \in S BY <1>1
<1>3. Tail(s) \in Seq(S) /\ Len(Tail(s)) = Len(s) - 1 /\ Len(s) \in Nat OBVIOUS
<1> DEFINE t == Tail(s)
<1>4. t \in Seq(S) /\ Len(t) = Len(s) - 1 /\ Len(s) \in Nat BY <1>3
<1> HIDE DEF t
<1>5. t = <<>> <=> Len(s) = 1 BY <1>4
<1>6. QED BY <1>2, <1>3, <1>5 DEF t

(* A call is answered. *)
LEMMA ToolKeeps == ASSUME MaintenanceInv, Tool PROVE MaintenanceInv'
<1>1. at = "tools" /\ scope' = scope /\ Alive /\ ~ Maintaining BY DEF Tool, Alive, Maintaining
<1>2. TypeOK /\ FactInv /\ KindInv BY DEF MaintenanceInv
<1> DEFINE p == ops[Current].pending
           r == [ops[Current] EXCEPT !.pending = Tail(p), !.request = IF Len(p) = 1 THEN NoRequest ELSE @]
           e == [kind |-> "tool", op |-> Current, call |-> p[1].call, of |-> p[1].of]
<1>3. ops[Current] \in Register /\ ops[Current].status = "running" /\ Current \in DOMAIN ops /\ Current \in Nat /\ Running
  <2>1. Running BY <1>1 DEF MaintenanceInv, RunInv
  <2>2. QED BY <2>1, Reads DEF Running
<1>4. p \in Seq([call : Calls, of : Nat]) /\ p # <<>> /\ Held(log, checkpoint, p) /\ p[1] \in [call : Calls, of : Nat]
  <2>1. p \in Seq([call : Calls, of : Nat]) BY <1>3 DEF Register
  <2>2. p # <<>> BY <1>1, <1>3 DEF MaintenanceInv, PendingInv
  <2>3. Open = p BY <1>3 DEF Open
  <2>4. Held(log, checkpoint, p) BY <2>3, Reads
  <2> HIDE DEF p
  <2>6. p[1] \in [call : Calls, of : Nat] BY <2>1, <2>2, FirstAndRest
  <2>7. QED BY <2>1, <2>2, <2>4, <2>6
<1>5. /\ log' = Append(log, e) /\ ops' = [ops EXCEPT ![Current] = r]
      /\ at' = (IF Len(p) = 1 THEN "source" ELSE "tools")
      /\ UNCHANGED <<checkpoint, usage, canceled, round, frozen, facts, pendingFacts, plan, output,
                     ids, faults, crashes, spent, cancels>>
  <2>1. Head(p) = p[1] OBVIOUS
  <2>2. ops' = [ops EXCEPT ![Current].pending = Tail(p), ![Current].request = IF Len(p) = 1 THEN NoRequest ELSE @]
    BY DEF Tool
  <2>3. [ops EXCEPT ![Current].pending = Tail(p), ![Current].request = IF Len(p) = 1 THEN NoRequest ELSE @]
           = [ops EXCEPT ![Current] = r]
    BY <1>3
  <2>4. QED BY <2>1, <2>2, <2>3 DEF Tool
<1>6. Tail(p) \in Seq([call : Calls, of : Nat]) /\ (Tail(p) = <<>> <=> Len(p) = 1)
  <2> HIDE DEF p
  <2>1. QED BY <1>4, FirstAndRest
<1>7. /\ Continued(r, Tail(p), 0) /\ r.effect = ops[Current].effect /\ r.unreported = ops[Current].unreported
      /\ (Len(p) = 1 => r.request = NoRequest)
  <2> DEFINE q == IF Len(p) = 1 THEN NoRequest ELSE ops[Current].request
             s == Tail(p)
  <2>1. q \in Request BY <1>3 DEF Register, NoRequest, Request
  <2>2. r = [ops[Current] EXCEPT !.pending = s, !.request = q] OBVIOUS
  <2>3. s \in Seq([call : Calls, of : Nat]) BY <1>6
  <2>4. ops[Current].usage = ops[Current].usage + 0 BY <1>3 DEF Register
  <2>5. Len(p) = 1 => q = NoRequest OBVIOUS
  <2> HIDE DEF q, s, r, p
  <2>6. r \in Register BY <1>3, <2>1, <2>2, <2>3 DEF Register
  <2>7. Continued(r, s, 0) BY <1>3, <2>2, <2>4, <2>6 DEF Continued, Register
  <2>8. r.effect = ops[Current].effect /\ r.unreported = ops[Current].unreported /\ r.request = q
    BY <1>3, <2>2 DEF Register
  <2>9. QED BY <2>5, <2>7, <2>8 DEF s
<1> HIDE DEF p, r
<1>8. e \in Entry /\ e.kind = "tool" /\ e.of = p[1].of /\ e.call = p[1].call /\ e.op = Current
  BY <1>3, <1>4 DEF Entry
<1> HIDE DEF e
<1>9. log \in Seq(Entry) /\ Len(log) \in Nat BY <1>2 DEF TypeOK
<1>10. log' \in Seq(Entry) /\ Further(log', log, 1) /\ log'[Len(log) + 1] = e BY <1>5, <1>8, <1>9 DEF Further
<1>11. Held(log', checkpoint', Tail(p))
  <2>1. log'[Len(log) + 1].kind = "tool" /\ log'[Len(log) + 1].of = p[1].of /\ log'[Len(log) + 1].call = p[1].call
    BY <1>8, <1>10
  <2>2. Held(log', checkpoint, Tail(p)) BY <1>4, <1>10, <2>1, AnswersOne
  <2>3. QED BY <1>5, <2>2
<1>12. Accounts(log', Len(log), 1, 1) BY DEF Accounts
<1>13. EntryReports(e) = <<>> /\ Carries(e) = <<>> BY <1>8, EntryReportsKind DEF Carries
<1>14. Costs(log', log, Current, 0)
  <2>1. /\ Cardinality(EveryReport(log')) = Cardinality(EveryReport(log)) + Units(EntryReports(log'[Len(log) + 1]))
        /\ \A o : LoggedUsage(log', o) = LoggedUsage(log, o) +
                     (IF log'[Len(log) + 1].op = o THEN Units(EntryReports(log'[Len(log) + 1])) ELSE 0)
    BY <1>9, <1>10, <1>12, LoggedGrows
  <2>2. Units(EntryReports(log'[Len(log) + 1])) = 0 BY <1>10, <1>13, UnitsEmpty
  <2>3. QED BY <2>1, <2>2 DEF Costs
<1>15. Adds(log', log, Current) BY <1>8, <1>10 DEF Adds
<1>16. NotedIds(log') = NotedIds(log) /\ Once(log')
  <2>1. Carries(log'[Len(log) + 1]) = <<>> BY <1>10, <1>13
  <2>2. NotedIds(log') = NotedIds(log) \cup FactIds(Carries(log'[Len(log) + 1])) BY <1>10, <1>12, NotedGrow
  <2>3. Once(log) /\ Distinct(Carries(log'[Len(log) + 1])) /\ NotedIds(log) \cap FactIds(Carries(log'[Len(log) + 1])) = {}
           => Once(log')
    BY <1>10, <1>12, NotedGrow
  <2>4. QED BY <1>2, <2>1, <2>2, <2>3, NoFactsList DEF FactInv
<1>17. usage' = usage + 0 /\ spent' = spent BY <1>2, <1>5 DEF TypeOK
<1>18. /\ OwnInv' /\ CheckpointInv' /\ PairInv' /\ TotalsMatch'
       /\ Running' /\ Current' = Current /\ (Manual' <=> Manual)
       /\ ops' \in Seq(Register) /\ Len(ops') = Len(ops) /\ DOMAIN ops' = DOMAIN ops /\ ops'[Current] = r
       /\ Current \in DOMAIN ops /\ Current = Len(ops)
       /\ \A o \in DOMAIN ops : ops'[o].status = "running" => o = Len(ops)
       /\ \A o \in DOMAIN ops : ops'[o].status # "running" => ops'[o].effect.kind = "none" /\ ops'[o].pending = <<>>
       /\ Due(log', ops'[Current].pending) /\ usage' \in Nat
       /\ log' \in Seq(Entry) /\ checkpoint' \in 0..Len(log') /\ (checkpoint' # 0 => log'[checkpoint'].kind = "checkpoint")
       /\ \A i \in DOMAIN log' : log'[i].op \in DOMAIN ops'
       /\ \A o \in DOMAIN ops' : o # Current /\ ops'[o].effect.kind = "none" /\ EstimateKnown(o)'
              => LoggedUsage(log', o) = spent'[o]
  BY <1>1, <1>5, <1>7, <1>11, <1>14, <1>15, <1>17, Continues
<1>19. Alive' /\ ~ Maintaining' /\ at' \in {"source", "tools"} BY <1>5 DEF Alive, Maintaining
<1>20. TypeOK' BY <1>1, <1>2, <1>5, <1>18 DEF TypeOK
<1>21. RunInv' BY <1>18, <1>19 DEF RunInv
<1>22. KindInv' BY <1>1, <1>2, <1>5, <1>18, <1>19 DEF KindInv
<1>23. EffectInv'
  <2>1. ops[Current].effect.kind = "none" BY <1>1 DEF MaintenanceInv, EffectInv
  <2>2. QED BY <1>7, <1>18, <1>19, <2>1 DEF EffectInv
<1>24. PendingInv' BY <1>5, <1>6, <1>7, <1>18, <1>19 DEF PendingInv, Continued
<1>25. FrozenInv' BY <1>19 DEF FrozenInv
<1>26. RequestInv'
  <2>1. ~ Manual BY <1>1, <1>2 DEF KindInv
  <2>2. at' = "source" => Len(p) = 1 BY <1>5
  <2>3. QED BY <1>7, <1>18, <1>19, <2>1, <2>2 DEF RequestInv
<1>27. SummaryInv' BY <1>19 DEF SummaryInv
<1>28. FactInv' BY <1>2, <1>5, <1>16, <1>19 DEF FactInv
<1>29. LoggedUsage(log', Current) = LoggedUsage(log, Current) /\ CostInv
  <2>1. LoggedUsage(log, Current) \in Nat BY <1>9, LoggedKind
  <2>2. QED BY <1>14, <2>1 DEF MaintenanceInv, Costs
<1>30. facts.list = <<>> /\ Carried' = Carried
  <2>1. facts.list = <<>> BY <1>1, <1>2 DEF KindInv
  <2>2. QED BY <1>1, <1>5, <1>19, <2>1 DEF Carried
<1>31. CostInv' BY <1>1, <1>5, <1>7, <1>18, <1>19, <1>29, <1>30 DEF CostInv
<1>32. CostHonest'
  <2>1. ops[Current].effect.kind = "none" BY <1>1 DEF MaintenanceInv, EffectInv
  <2>2. ops[Current].unreported = "no" => LoggedUsage(log, Current) = spent[Current]
    <3>. SUFFICES ASSUME ops[Current].unreported = "no" PROVE LoggedUsage(log, Current) = spent[Current] OBVIOUS
    <3>1. pendingFacts = <<>> BY <1>1, <1>29 DEF CostInv
    <3>2. Carried = 0 BY <1>1, <1>30, <3>1, NoFactsList DEF Carried
    <3>3. LoggedUsage(log, Current) \in Nat BY <1>9, LoggedKind
    <3>4. QED BY <1>1, <1>29, <3>2, <3>3 DEF CostInv
  <2>3. ops'[Current].unreported = "no" => LoggedUsage(log', Current) = spent'[Current]
    BY <1>5, <1>7, <1>18, <1>29, <2>2
  <2>4. QED BY <1>18, <2>3, EstimateCovered
<1>33. QED BY <1>18, <1>20, <1>21, <1>22, <1>23, <1>24, <1>25, <1>26, <1>27, <1>28, <1>31, <1>32 DEF MaintenanceInv

(* What one procedure carries, joined with what the execution left pending. *)
LEMMA CarriedFacts ==
    ASSUME MaintenanceInv, Alive, at \notin {"answered", "summarized"}
    PROVE  LET f == ConsumePending(facts)
           IN  /\ f \in Procedure /\ f.list \in Facts /\ Distinct(f.list) /\ NotedIds(log) \cap FactIds(f.list) = {}
               /\ FactIds(f.list) \subseteq 0..(ids - 1)
               /\ Units(FactReports(f.list)) \in Nat
               /\ spent[Current] = LoggedUsage(log, Current) + Units(FactReports(f.list))
<1> DEFINE f == ConsumePending(facts)
<1>1. FactInv /\ CostInv BY DEF MaintenanceInv
<1>2. facts \in Procedure BY FactsKind
<1>3. /\ f \in Procedure /\ f.list \in Facts
      /\ FactIds(f.list) = FactIds(pendingFacts) \cup FactIds(facts.list)
      /\ Units(FactReports(f.list)) = Units(FactReports(pendingFacts)) + Units(FactReports(facts.list))
      /\ Units(FactReports(pendingFacts)) \in Nat /\ Units(FactReports(facts.list)) \in Nat
  BY <1>2, Joined
<1>4. Distinct(f.list) BY <1>1, <1>2, Joined DEF FactInv
<1>5. Carried = Units(FactReports(pendingFacts)) + Units(FactReports(facts.list)) BY <1>3 DEF Carried
<1>6. spent[Current] = LoggedUsage(log, Current) + Carried BY <1>1 DEF CostInv
<1>7. NotedIds(log) \cap FactIds(f.list) = {} /\ FactIds(f.list) \subseteq 0..(ids - 1) BY <1>1, <1>3 DEF FactInv
<1> HIDE DEF f
<1>8. QED BY <1>3, <1>4, <1>5, <1>6, <1>7 DEF f

(* The log a committed checkpoint leaves. *)
LEMMA CheckpointLogged ==
    ASSUME MaintenanceInv, at = "commit", plan.kind = "checkpoint", PlanValid(frozen, plan)
    PROVE  LET f  == ConsumePending(facts)
               l2 == Append(log, CheckpointEntry(f))
               id == Len(log) + 1
           IN  /\ Held(l2, id, <<>>) /\ Further(l2, log, 1) /\ l2 \in Seq(Entry)
               /\ l2[id].op = Current
               /\ Costs(l2, log, Current, Units(FactReports(f.list)))
               /\ NotedIds(l2) = NotedIds(log) \cup FactIds(f.list) /\ Once(l2)
               /\ Project(l2, id).cp = id /\ Project(l2, id).boundary = RebuiltBoundary(log, plan.boundary, id)
               /\ Cutoff(log, checkpoint) <= plan.boundary /\ Cutoff(l2, id) = plan.boundary
               /\ plan.boundary \in 1..Len(log)
<1>1. Alive /\ Maintaining BY DEF Alive, Maintaining
<1>2. TypeOK /\ FactInv BY DEF MaintenanceInv
<1>3. Running /\ Current \in Nat
  <2>1. Running BY <1>1 DEF MaintenanceInv, RunInv
  <2>2. QED BY <2>1, Reads
<1>4. Open = <<>> BY <1>3 DEF MaintenanceInv, PendingInv, Open
<1>5. frozen = View BY <1>1 DEF MaintenanceInv, FrozenInv
<1> DEFINE f  == ConsumePending(facts)
           e  == CheckpointEntry(f)
           l2 == Append(log, e)
           id == Len(log) + 1
<1>6. f.list \in Facts /\ Distinct(f.list) /\ NotedIds(log) \cap FactIds(f.list) = {} BY <1>1, CarriedFacts
<1> HIDE DEF f
<1>7. /\ plan.retain \subseteq DOMAIN View.messages /\ plan.context \in {"no", "yes"} /\ plan.boundary \in Nat
      /\ View.messages \in Seq(ViewMessage) /\ PlanValid(View, plan) /\ log \in Seq(Entry)
  BY <1>2, <1>5 DEF TypeOK
<1>8. /\ e \in Entry /\ e.kind = "checkpoint" /\ e.boundary = plan.boundary /\ e.op = Current /\ e.facts = f.list
      /\ e.messages = Materialized(View.messages, plan)
  <2>1. Materialized(View.messages, plan) \in Seq(ViewMessage) BY <1>7, MaterializedKinds
  <2> DEFINE m == Materialized(View.messages, plan)
  <2>2. e = [kind |-> "checkpoint", op |-> Current, boundary |-> plan.boundary, facts |-> f.list, messages |-> m]
    BY <1>5 DEF CheckpointEntry
  <2>3. m \in Seq(ViewMessage) BY <2>1
  <2> HIDE DEF m, e
  <2>4. e \in Entry BY <1>3, <1>6, <1>7, <2>2, <2>3 DEF Entry
  <2>5. QED BY <2>2, <2>4 DEF m
<1> HIDE DEF e
<1>9. /\ Held(l2, id, <<>>) /\ l2 \in Seq(Entry) /\ Further(l2, log, 1) /\ l2[id] = e
      /\ plan.boundary \in 1..Len(log) /\ Cutoff(log, checkpoint) <= plan.boundary
      /\ Cutoff(l2, id) = plan.boundary
      /\ Project(l2, id).cp = id /\ Project(l2, id).boundary = RebuiltBoundary(log, plan.boundary, id)
  BY <1>4, <1>7, <1>8, Checkpoints
<1>10. EntryReports(e) = FactReports(f.list) /\ Carries(e) = f.list BY <1>8, EntryReportsKind DEF Carries
<1>11. l2[Len(log) + 1] = e BY <1>9
<1> HIDE DEF l2
<1>12. Accounts(l2, Len(log), 1, 1) BY DEF Accounts
<1>13. Costs(l2, log, Current, Units(FactReports(f.list)))
  <2>1. /\ Cardinality(EveryReport(l2)) = Cardinality(EveryReport(log)) + Units(EntryReports(l2[Len(log) + 1]))
        /\ \A o : LoggedUsage(l2, o) = LoggedUsage(log, o) +
                     (IF l2[Len(log) + 1].op = o THEN Units(EntryReports(l2[Len(log) + 1])) ELSE 0)
    BY <1>7, <1>9, <1>12, LoggedGrows
  <2>2. QED BY <1>8, <1>10, <1>11, <2>1 DEF Costs
<1>14. NotedIds(l2) = NotedIds(log) \cup FactIds(f.list) /\ Once(l2)
  <2>1. NotedIds(l2) = NotedIds(log) \cup FactIds(Carries(l2[Len(log) + 1])) BY <1>9, <1>12, NotedGrow
  <2>2. Once(log) /\ Distinct(Carries(l2[Len(log) + 1])) /\ NotedIds(log) \cap FactIds(Carries(l2[Len(log) + 1])) = {}
           => Once(l2)
    BY <1>9, <1>12, NotedGrow
  <2>3. QED BY <1>2, <1>6, <1>10, <1>11, <2>1, <2>2 DEF FactInv
<1>15. l2[id].op = Current BY <1>8, <1>9
<1>16. QED BY <1>9, <1>13, <1>14, <1>15 DEF l2, e, f

(* An automatic checkpoint: the execution goes on from it. *)
LEMMA CommitAutomaticKeeps ==
    ASSUME MaintenanceInv, at = "commit", ~ Manual, ~ Rejected, CommitAutomatic, scope' = scope
    PROVE  MaintenanceInv'
<1>1. Alive /\ Maintaining BY DEF Alive, Maintaining
<1>2. TypeOK /\ FactInv /\ KindInv BY DEF MaintenanceInv
<1>3. plan.kind = "checkpoint" /\ PlanValid(frozen, plan) BY <1>2 DEF KindInv, Rejected
<1> DEFINE f == ConsumePending(facts)
           n == Units(FactReports(f.list))
           id == Len(log) + 1
           r == Checkpointed(ops[Current], n)
<1>4. /\ log' = Append(log, CheckpointEntry(f)) /\ checkpoint' = id
      /\ ops' = [ops EXCEPT ![Current] = r] /\ usage' = usage + n
      /\ pendingFacts' = <<>> /\ facts' = [facts EXCEPT !.list = <<>>]
      /\ at' = "dispatch" /\ plan' = NoPlan
      /\ UNCHANGED <<canceled, round, frozen, output, ids, faults, crashes, spent, cancels>>
  BY DEF CommitAutomatic
<1>5. /\ Held(log', id, <<>>) /\ Further(log', log, 1) /\ log'[id].op = Current
      /\ Costs(log', log, Current, n)
      /\ NotedIds(log') = NotedIds(log) \cup FactIds(f.list) /\ Once(log')
      /\ Project(log', id).cp = id /\ Project(log', id).boundary = RebuiltBoundary(log, plan.boundary, id)
  BY <1>3, <1>4, CheckpointLogged
<1>6. /\ f \in Procedure /\ f.list \in Facts /\ FactIds(f.list) \subseteq 0..(ids - 1) /\ n \in Nat
      /\ spent[Current] = LoggedUsage(log, Current) + n
  BY <1>1, CarriedFacts
<1>7. ops[Current] \in Register /\ ops[Current].status = "running" /\ Current \in DOMAIN ops /\ Running
  <2>1. Running BY <1>1 DEF MaintenanceInv, RunInv
  <2>2. QED BY <2>1, Reads DEF Running
<1>8. ops[Current].pending = <<>> BY <1>7 DEF MaintenanceInv, PendingInv
<1>9. facts.source \in Nat /\ facts.source # 0 BY <1>1, <1>2 DEF FactInv
<1> HIDE DEF f, n
<1>10. id \in Nat /\ Len(log) \in Nat /\ RebuiltBoundary(log, plan.boundary, id) \in Nat
  <2>1. id \in Nat /\ Len(log) \in Nat /\ plan.boundary \in Nat BY <1>2 DEF TypeOK
  <2> DEFINE t == Bearing(log, plan.boundary, Len(log))
  <2>2. t \in Seq(Nat) BY <2>1, BearingKinds
  <2>3. RebuiltBoundary(log, plan.boundary, id) = IF t = <<>> THEN id ELSE Last(t) BY DEF RebuiltBoundary
  <2>4. t # <<>> => Last(t) \in Nat BY <2>2 DEF Last
  <2> HIDE DEF t
  <2>5. QED BY <2>1, <2>3, <2>4
<1>11. /\ Continued(r, <<>>, n) /\ r.effect = ops[Current].effect /\ r.unreported = "no"
       /\ r.request.cp = id /\ r.request.boundary = RebuiltBoundary(log, plan.boundary, id)
  <2> DEFINE q == [id |-> IF ops[Current].request.id # 0 THEN ops[Current].request.id ELSE facts.source,
                   cp |-> id, boundary |-> RebuiltBoundary(log, plan.boundary, id)]
             u == ops[Current].usage + n
  <2>1. ops[Current].request.id \in Nat /\ ops[Current].usage \in Nat BY <1>7 DEF Register, Request
  <2>2. q \in Request /\ q.cp = id /\ q.boundary = RebuiltBoundary(log, plan.boundary, id)
    BY <1>9, <1>10, <2>1 DEF Request
  <2>3. u \in Nat /\ u = ops[Current].usage + n BY <1>6, <2>1
  <2>4. r = [ops[Current] EXCEPT !.usage = u, !.unreported = "no", !.request = q]
    BY <1>9 DEF Checkpointed
  <2> HIDE DEF q, u, r
  <2>5. r \in Register BY <1>7, <2>2, <2>3, <2>4 DEF Register
  <2>6. Continued(r, <<>>, n) BY <1>7, <1>8, <2>3, <2>4, <2>5 DEF Continued, Register
  <2>7. r.effect = ops[Current].effect /\ r.unreported = "no" /\ r.request = q BY <1>7, <2>4 DEF Register
  <2>8. QED BY <2>2, <2>6, <2>7
<1>12. Held(log', checkpoint', <<>>) BY <1>4, <1>5
<1>13. Adds(log', log, Current)
  <2>1. \A k \in 1..1 : log'[Len(log) + k].op = Current BY <1>5
  <2>2. QED BY <1>5, <2>1 DEF Adds
<1>14. ops' = [ops EXCEPT ![Current] = r] /\ usage' = usage + n /\ spent' = spent BY <1>4
<1> HIDE DEF r
<1>15. /\ OwnInv' /\ CheckpointInv' /\ PairInv' /\ TotalsMatch'
       /\ Running' /\ Current' = Current /\ (Manual' <=> Manual)
       /\ ops' \in Seq(Register) /\ Len(ops') = Len(ops) /\ DOMAIN ops' = DOMAIN ops /\ ops'[Current] = r
       /\ Current \in DOMAIN ops /\ Current = Len(ops)
       /\ \A o \in DOMAIN ops : ops'[o].status = "running" => o = Len(ops)
       /\ \A o \in DOMAIN ops : ops'[o].status # "running" => ops'[o].effect.kind = "none" /\ ops'[o].pending = <<>>
       /\ Due(log', ops'[Current].pending) /\ usage' \in Nat
       /\ log' \in Seq(Entry) /\ checkpoint' \in 0..Len(log') /\ (checkpoint' # 0 => log'[checkpoint'].kind = "checkpoint")
       /\ \A i \in DOMAIN log' : log'[i].op \in DOMAIN ops'
       /\ \A o \in DOMAIN ops' : o # Current /\ ops'[o].effect.kind = "none" /\ EstimateKnown(o)'
              => LoggedUsage(log', o) = spent'[o]
  BY <1>1, <1>5, <1>6, <1>11, <1>12, <1>13, <1>14, Continues
<1>16. Alive' /\ ~ Maintaining' BY <1>4 DEF Alive, Maintaining
<1>17. facts' \in Procedure /\ facts'.list = <<>> /\ facts'.source = facts.source
  <2>1. facts \in Procedure BY FactsKind
  <2>2. QED BY <1>4, <2>1, NoFactsList DEF Procedure
<1>18. TypeOK'
  <2>1. plan' \in [kind : {"none", "model", "checkpoint"}, boundary : Nat,
                   retain : SUBSET (DOMAIN frozen'.messages), context : {"no", "yes"}]
    BY <1>4 DEF NoPlan
  <2>2. QED BY <1>2, <1>4, <1>15, <1>17, <2>1, NoFactsList DEF TypeOK, Procedure
<1>19. RunInv' BY <1>4, <1>15, <1>16 DEF RunInv
<1>20. KindInv' BY <1>2, <1>4, <1>15, <1>16, <1>17 DEF KindInv, NoPlan
<1>21. EffectInv'
  <2>1. ops[Current].effect.kind = "none" BY <1>1 DEF MaintenanceInv, EffectInv
  <2>2. QED BY <1>4, <1>11, <1>15, <2>1 DEF EffectInv
<1>22. PendingInv' BY <1>4, <1>11, <1>15 DEF PendingInv, Continued
<1>23. FrozenInv'
  <2>1. frozen.cp = checkpoint /\ checkpoint \in 0..Len(log)
    <3>1. frozen = View BY <1>1 DEF MaintenanceInv, FrozenInv
    <3>2. QED BY <1>2, <3>1, ViewKind DEF TypeOK
  <2>2. frozen'.cp # checkpoint' BY <1>4, <1>10, <2>1
  <2>3. QED BY <1>4, <1>16, <2>2 DEF FrozenInv
<1>24. RequestInv'
  <2>1. View' = Project(log', id) BY <1>4 DEF View
  <2>2. QED BY <1>4, <1>5, <1>11, <1>15, <1>16, <2>1 DEF RequestInv
<1>25. SummaryInv' BY <1>16 DEF SummaryInv
<1>26. FactInv'
  <2>1. NotedIds(log') \subseteq 0..(ids - 1) BY <1>2, <1>5, <1>6 DEF FactInv
  <2>2. facts.source \in 1..(ids - 1) BY <1>1, <1>2 DEF FactInv
  <2>3. QED BY <1>4, <1>5, <1>15, <1>16, <1>17, <2>1, <2>2, NoFactsList DEF FactInv
<1>27. CostInv /\ LoggedUsage(log', Current) = spent'[Current] /\ spent'[Current] \in Nat
  <2>1. LoggedUsage(log, Current) \in Nat BY <1>2, LoggedKind DEF TypeOK
  <2>2. QED BY <1>4, <1>5, <1>6, <2>1 DEF MaintenanceInv, Costs
<1>28. CostInv'
  <2>1. Carried' = 0 BY <1>4, <1>17, NoFactsList DEF Carried
  <2>2. spent'[Current] = LoggedUsage(log', Current) + Carried' BY <1>27, <2>1
  <2>3. QED BY <1>4, <1>15, <1>17, <1>27, <2>2 DEF CostInv
<1>29. CostHonest' BY <1>15, <1>27, EstimateCovered
<1>30. QED BY <1>15, <1>18, <1>19, <1>20, <1>21, <1>22, <1>23, <1>24, <1>25, <1>26, <1>28, <1>29 DEF MaintenanceInv

(* The settlement that ends a log without a producer of its own. *)
Belong(l1, n, a, o) == \A k \in 1..a : l1[n + k].op = o

(* A settlement without a producer of its own, appended to a log that is
   held. *)
LEMMA SettledLog ==
    ASSUME NEW l \in Seq(Entry), NEW l1, NEW a, Further(l1, l, a), NEW cp, Held(l1, cp, <<>>), NEW o \in Nat,
           Belong(l1, Len(l), a, o), NEW m \in Nat, Costs(l1, l, o, m),
           NEW s \in Entry, s.kind = "settlement", s.op = o, s.model = "no",
           Once(l1), Distinct(s.facts), NotedIds(l1) \cap FactIds(s.facts) = {}
    PROVE  LET l2 == l1 \o <<s>>
           IN  /\ Held(l2, cp, <<>>) /\ Adds(l2, l, o) /\ Costs(l2, l, o, m + Units(FactReports(s.facts)))
               /\ NotedIds(l2) = NotedIds(l1) \cup FactIds(s.facts) /\ Once(l2)
<1>0. \A k \in 1..a : l1[Len(l) + k].op = o BY DEF Belong
<1> DEFINE none == <<>>
           l2 == l1 \o (none \o none \o <<s>>)
<1>1. l1 \o <<s>> = l2
  <2>1. <<s>> \in Seq(Entry) OBVIOUS
  <2>2. <<>> \in Seq(Entry) OBVIOUS
  <2>3. <<>> \o <<>> = <<>> BY <2>2, ConcatEmptySeq
  <2>4. <<>> \o <<s>> = <<s>> BY <2>1, ConcatEmptySeq
  <2>5. QED BY <2>3, <2>4
<1>2. none \in Seq(Entry) /\ Interrupts(none, <<>>, o) BY DEF Interrupts
<1> HIDE DEF none
<1>3. none = <<>> BY DEF none
<1>4. /\ Held(l2, cp, <<>>) /\ Adds(l2, l, o)
      /\ Cardinality(EveryReport(l2)) = Cardinality(EveryReport(l1)) + Units(EntryReports(s))
      /\ \A x : LoggedUsage(l2, x) = LoggedUsage(l1, x) + (IF o = x THEN Units(EntryReports(s)) ELSE 0)
      /\ NotedIds(l2) = NotedIds(l1) \cup FactIds(s.facts)
      /\ Once(l1) /\ Distinct(s.facts) /\ NotedIds(l1) \cap FactIds(s.facts) = {} => Once(l2)
  <2>1. none \in Seq(Entry) /\ Interrupts(none, <<>>, o) BY <1>2
  <2>2. none = <<>> \/ none = <<[kind |-> "signal", op |-> o]>> BY <1>3
  <2>5. Held(l2, cp, <<>>) BY <1>0, <2>1, <2>2, Appended
  <2>6. Adds(l2, l, o) BY <1>0, <2>1, <2>2, Appended
  <2>8. Cardinality(EveryReport(l2)) = Cardinality(EveryReport(l1)) + Units(EntryReports(s))
    BY <1>0, <2>1, <2>2, Appended
  <2>9. \A x : LoggedUsage(l2, x) = LoggedUsage(l1, x) + (IF o = x THEN Units(EntryReports(s)) ELSE 0)
    BY <1>0, <2>1, <2>2, Appended
  <2>10. NotedIds(l2) = NotedIds(l1) \cup FactIds(s.facts) BY <1>0, <2>1, <2>2, Appended
  <2>11. Once(l1) /\ Distinct(s.facts) /\ NotedIds(l1) \cap FactIds(s.facts) = {} => Once(l2)
    BY <1>0, <2>1, <2>2, Appended
  <2> HIDE DEF l2
  <2>12. QED BY <2>5, <2>6, <2>8, <2>9, <2>10, <2>11
<1>5. EntryReports(s) = FactReports(s.facts) /\ Units(FactReports(s.facts)) \in Nat
  <2>1. s.facts \in Facts BY EntryKinds
  <2>2. FactReports(s.facts) \in Seq(Report) BY <2>1, FactReportsKind
  <2>3. EntryReports(s) = <<>> \o FactReports(s.facts) BY EntryReportsKind
  <2>4. QED BY <2>2, <2>3, ConcatEmptySeq, KnownKinds
<1> HIDE DEF l2
<1>6. Costs(l2, l, o, m + Units(FactReports(s.facts)))
  <2> DEFINE u == Units(FactReports(s.facts))
  <2>1. /\ \A x : LoggedUsage(l1, x) = LoggedUsage(l, x) + (IF x = o THEN m ELSE 0)
        /\ Cardinality(EveryReport(l1)) = Cardinality(EveryReport(l)) + m
    BY DEF Costs
  <2>2. (\A x : LoggedUsage(l, x) \in Nat) /\ Cardinality(EveryReport(l)) \in Nat BY LoggedKind, EveryKind
  <2>3. u \in Nat /\ EntryReports(s) = FactReports(s.facts) BY <1>5
  <2>4. \A x : LoggedUsage(l2, x) = LoggedUsage(l1, x) + (IF o = x THEN u ELSE 0) BY <1>4, <1>5
  <2>5. Cardinality(EveryReport(l2)) = Cardinality(EveryReport(l1)) + u BY <1>4, <1>5
  <2> HIDE DEF u
  <2>6. \A x : LoggedUsage(l2, x) = LoggedUsage(l, x) + (IF x = o THEN m + u ELSE 0)
    <3>. TAKE x
    <3>1. LoggedUsage(l, x) \in Nat BY <2>2
    <3>2. LoggedUsage(l1, x) = LoggedUsage(l, x) + (IF x = o THEN m ELSE 0) BY <2>1
    <3>3. LoggedUsage(l2, x) = LoggedUsage(l1, x) + (IF o = x THEN u ELSE 0) BY <2>4
    <3>4. QED BY <2>3, <3>1, <3>2, <3>3
  <2>7. Cardinality(EveryReport(l2)) = Cardinality(EveryReport(l)) + (m + u) BY <2>1, <2>2, <2>3, <2>5
  <2>8. QED BY <2>6, <2>7 DEF Costs, u
<1>7. QED BY <1>1, <1>4, <1>6

(* A log is its own continuation. *)
LEMMA NothingAdded ==
    ASSUME NEW l \in Seq(Entry), NEW o
    PROVE  Further(l, l, 0) /\ Costs(l, l, o, 0)
<1>1. Further(l, l, 0) BY DEF Further
<1>2. (\A x : LoggedUsage(l, x) \in Nat) /\ Cardinality(EveryReport(l)) \in Nat BY LoggedKind, EveryKind
<1>3. Costs(l, l, o, 0) BY <1>2 DEF Costs
<1>4. QED BY <1>1, <1>3

(* What a compact Operation's end writes. *)
ManualDone(made, f) ==
    [kind |-> "settlement", op |-> Current, status |-> "success",
     facts |-> IF made THEN <<>> ELSE f.list, model |-> "no", report |-> "absent",
     compaction |-> IF made \/ f.list = <<>> THEN "no" ELSE "yes"]

(* The log that the end of a compact Operation leaves. *)
LEMMA ManualLogged ==
    ASSUME MaintenanceInv, at = "commit", Manual, ~ Rejected, CommitManual
    PROVE  LET f == ConsumePending(facts)
           IN  /\ Held(log', checkpoint', <<>>) /\ Adds(log', log, Current)
               /\ Costs(log', log, Current, Units(FactReports(f.list)))
               /\ NotedIds(log') = NotedIds(log) \cup FactIds(f.list) /\ Once(log')
<1> DEFINE f    == ConsumePending(facts)
           made == plan.kind = "checkpoint"
           s    == ManualDone(made, f)
           m    == Units(FactReports(f.list))
<1>1. Alive /\ Maintaining BY DEF Alive, Maintaining
<1>2. TypeOK /\ FactInv BY DEF MaintenanceInv
<1>3. Running /\ Current \in Nat /\ Held(log, checkpoint, <<>>)
  <2>1. Running BY <1>1 DEF MaintenanceInv, RunInv
  <2>2. Open = <<>> BY <2>1 DEF MaintenanceInv, PendingInv, Open
  <2>3. QED BY <2>1, <2>2, Reads
<1>4. f.list \in Facts /\ Distinct(f.list) /\ NotedIds(log) \cap FactIds(f.list) = {} /\ m \in Nat
  BY <1>1, CarriedFacts
<1>5. log' = log \o (IF made THEN <<CheckpointEntry(f)>> ELSE <<>>) \o <<s>>
      /\ checkpoint' = IF made THEN Len(log) + 1 ELSE checkpoint
  BY DEF CommitManual, ManualDone
<1>6. log \in Seq(Entry) BY <1>2 DEF TypeOK
<1> HIDE DEF f
<1>7. /\ s \in Entry /\ s.kind = "settlement" /\ s.op = Current /\ s.model = "no"
      /\ s.facts = IF made THEN <<>> ELSE f.list
  <2> DEFINE g == IF made THEN <<>> ELSE f.list
             c == IF made \/ f.list = <<>> THEN "no" ELSE "yes"
  <2>1. g \in Facts /\ c \in {"no", "yes"} BY <1>4, NoFactsList
  <2>2. s = [kind |-> "settlement", op |-> Current, status |-> "success", facts |-> g, model |-> "no",
             report |-> "absent", compaction |-> c]
    BY DEF ManualDone
  <2>3. s.facts = g /\ s.model = "no" /\ s.op = Current /\ s.kind = "settlement" BY <2>2
  <2> HIDE DEF g, c, s
  <2>4. s \in Entry BY <1>3, <2>1, <2>2 DEF Entry, Statuses, Report
  <2>5. QED BY <2>3, <2>4 DEF g
<1> HIDE DEF s
<1>8. CASE made
  <2>1. PlanValid(frozen, plan) BY <1>8 DEF Rejected
  <2> DEFINE l1 == Append(log, CheckpointEntry(f))
             id == Len(log) + 1
  <2>2. /\ Held(l1, id, <<>>) /\ Further(l1, log, 1) /\ l1 \in Seq(Entry) /\ l1[id].op = Current
        /\ Costs(l1, log, Current, m)
        /\ NotedIds(l1) = NotedIds(log) \cup FactIds(f.list) /\ Once(l1)
    BY <1>8, <2>1, CheckpointLogged DEF f
  <2>3. log' = l1 \o <<s>> /\ checkpoint' = id
    <3>1. l1[id] = CheckpointEntry(f) BY <1>6
    <3>2. CheckpointEntry(f) \in Entry BY <1>6, <2>2, <3>1
    <3>3. log \o <<CheckpointEntry(f)>> = l1 BY <1>6, <3>2, AppendIsConcat
    <3>4. QED BY <1>5, <1>8, <3>3
  <2> HIDE DEF l1, m
  <2>4. s.facts = <<>> /\ Distinct(s.facts) /\ FactIds(s.facts) = {} /\ Units(FactReports(s.facts)) = 0
    BY <1>7, <1>8, NoFactsList
  <2>5. Belong(l1, Len(log), 1, Current) BY <2>2 DEF Belong
  <2>6. NotedIds(l1) \cap FactIds(s.facts) = {} BY <2>4
  <2>7. /\ Held(l1 \o <<s>>, id, <<>>) /\ Adds(l1 \o <<s>>, log, Current)
        /\ Costs(l1 \o <<s>>, log, Current, m + Units(FactReports(s.facts)))
        /\ NotedIds(l1 \o <<s>>) = NotedIds(l1) \cup FactIds(s.facts) /\ Once(l1 \o <<s>>)
    BY <1>3, <1>4, <1>6, <1>7, <2>2, <2>4, <2>5, <2>6, SettledLog
  <2>8. m + Units(FactReports(s.facts)) = m BY <1>4, <2>4
  <2>9. QED BY <2>2, <2>3, <2>4, <2>7, <2>8 DEF f, m
<1>9. CASE ~ made
  <2>1. log' = log \o <<s>> /\ checkpoint' = checkpoint
    <3>1. log \o <<>> = log BY <1>6, ConcatEmptySeq
    <3>2. QED BY <1>5, <1>9, <3>1
  <2>2. s.facts = f.list BY <1>7, <1>9
  <2>3. Further(log, log, 0) /\ Costs(log, log, Current, 0) BY <1>6, NothingAdded
  <2>4. Belong(log, Len(log), 0, Current) BY DEF Belong
  <2>5. Once(log) /\ Distinct(s.facts) /\ NotedIds(log) \cap FactIds(s.facts) = {} BY <1>2, <1>4, <2>2 DEF FactInv
  <2>6. /\ Held(log \o <<s>>, checkpoint, <<>>) /\ Adds(log \o <<s>>, log, Current)
        /\ Costs(log \o <<s>>, log, Current, 0 + Units(FactReports(s.facts)))
        /\ NotedIds(log \o <<s>>) = NotedIds(log) \cup FactIds(s.facts) /\ Once(log \o <<s>>)
    BY <1>3, <1>6, <1>7, <2>3, <2>4, <2>5, SettledLog
  <2>7. 0 + Units(FactReports(s.facts)) = m BY <1>4, <2>2
  <2>8. QED BY <2>1, <2>2, <2>6, <2>7 DEF f, m
<1>10. QED BY <1>8, <1>9

(* A compact Operation ends with its checkpoint, or with its facts alone. *)
LEMMA CommitManualKeeps ==
    ASSUME MaintenanceInv, at = "commit", Manual, ~ Rejected, CommitManual, scope' = scope
    PROVE  MaintenanceInv'
<1> DEFINE f == ConsumePending(facts)
           n == Units(FactReports(f.list))
           r == Compacted(ops[Current], plan.kind = "checkpoint", f, n)
<1>1. Alive /\ Maintaining BY DEF Alive, Maintaining
<1>2. TypeOK /\ FactInv BY DEF MaintenanceInv
<1>3. /\ Held(log', checkpoint', <<>>) /\ Adds(log', log, Current) /\ Costs(log', log, Current, n)
      /\ NotedIds(log') = NotedIds(log) \cup FactIds(f.list) /\ Once(log')
  BY ManualLogged
<1>4. ops' = [ops EXCEPT ![Current] = r] /\ usage' = usage + n /\ EndExecution /\ UNCHANGED <<ids, faults, crashes, spent, cancels>>
  BY DEF CommitManual
<1>5. /\ FactIds(f.list) \subseteq 0..(ids - 1) /\ n \in Nat /\ spent[Current] = LoggedUsage(log, Current) + n
  BY <1>1, CarriedFacts
<1>6. ops[Current] \in Register /\ ops[Current].status = "running" /\ Current \in DOMAIN ops /\ Running /\ ops \in Seq(Register)
  <2>1. Running BY <1>1 DEF MaintenanceInv, RunInv
  <2>2. QED BY <2>1, Reads DEF Running
<1>7. ops[Current].pending = <<>> /\ ops[Current].effect.kind = "none"
  BY <1>1, <1>6 DEF MaintenanceInv, PendingInv, EffectInv
<1> HIDE DEF n, f
<1>8. r \in Register /\ r.status = "success" /\ r.effect.kind = "none" /\ r.pending = <<>> /\ r.usage = ops[Current].usage + n
  <2> DEFINE u == ops[Current].usage + n
             w == IF plan.kind = "checkpoint" \/ f.list # <<>> THEN "no" ELSE ops[Current].unreported
  <2>1. u \in Nat /\ u = ops[Current].usage + n BY <1>5, <1>6 DEF Register
  <2>2. w \in {"no", "yes"} BY <1>6 DEF Register
  <2>3. r = [ops[Current] EXCEPT !.status = "success", !.usage = u, !.unreported = w] BY DEF Compacted
  <2> HIDE DEF u, w, r
  <2>4. r \in Register BY <1>6, <2>1, <2>2, <2>3 DEF Register, Statuses
  <2>5. QED BY <1>6, <1>7, <2>1, <2>3, <2>4 DEF Register
<1> HIDE DEF r
<1>9. /\ ops' \in Seq(Register) /\ Len(ops') = Len(ops) /\ DOMAIN ops' = DOMAIN ops /\ ops'[Current] = r
      /\ \A o \in DOMAIN ops : o # Current => ops'[o] = ops[o]
  BY <1>4, <1>6, <1>8, Rewrites
<1>10. Current' = Current BY <1>9 DEF Current
<1>11. ~ Running' BY <1>8, <1>9, <1>10 DEF Running
<1>12. \A o \in DOMAIN ops' : ops'[o].status # "running" /\ ops'[o].effect.kind = "none" /\ ops'[o].pending = <<>>
  <2>. SUFFICES ASSUME NEW o \in DOMAIN ops
                PROVE  ops'[o].status # "running" /\ ops'[o].effect.kind = "none" /\ ops'[o].pending = <<>>
    BY <1>9
  <2>1. CASE o = Current BY <1>8, <1>9, <2>1
  <2>2. CASE o # Current
    <3>1. ops'[o] = ops[o] BY <1>9, <2>2
    <3>2. ops[o].status # "running" BY <2>2 DEF MaintenanceInv, RunInv, Current
    <3>3. ops[o].effect.kind = "none" /\ ops[o].pending = <<>> BY <3>2 DEF MaintenanceInv, RunInv
    <3>4. QED BY <3>1, <3>2, <3>3
  <2>3. QED BY <2>1, <2>2
<1>13. log' \in Seq(Entry) BY <1>3 DEF Held, Readable
<1>14. PICK q : Further(log', log, q) /\ \A k \in 1..q : log'[Len(log) + k].op = Current BY <1>3 DEF Adds
<1>15. /\ TotalsMatch'
       /\ \A i \in DOMAIN log' : log'[i].op \in DOMAIN ops'
       /\ \A o \in DOMAIN ops' : o # Current /\ ops'[o].effect.kind = "none" /\ EstimateKnown(o)'
              => LoggedUsage(log', o) = spent'[o]
  <2>1. /\ \A o : LoggedUsage(log', o) = LoggedUsage(log, o) + (IF o = Current THEN n ELSE 0)
        /\ Cardinality(EveryReport(log')) = Cardinality(EveryReport(log)) + n
    BY <1>3 DEF Costs
  <2>2. ops'[Current].usage = ops[Current].usage + n /\ usage' = usage + n /\ spent' = spent BY <1>4, <1>8, <1>9
  <2>3. QED BY <1>5, <1>6, <1>9, <1>13, <1>14, <2>1, <2>2, TotalsKept
<1>16. CostHonest'
  <2>1. LoggedUsage(log', Current) = spent'[Current] BY <1>3, <1>4, <1>5 DEF Costs
  <2>2. QED BY <1>10, <1>15, <2>1, EstimateCovered
<1>17. \A o \in DOMAIN spent : o > Len(ops') => spent[o] = 0 BY <1>9 DEF MaintenanceInv, CostInv
<1>18. NotedIds(log') \subseteq 0..(ids' - 1) BY <1>2, <1>3, <1>4, <1>5 DEF FactInv
<1>19. Len(ops') <= scope.ops /\ faults' \in Nat /\ crashes' \in Nat /\ cancels' \in Nat /\ usage' \in Nat
  BY <1>2, <1>4, <1>5, <1>9 DEF TypeOK
<1>20. ids' = ids /\ spent' = spent /\ at' = "idle" BY <1>4 DEF EndExecution
<1>21. QED BY <1>3, <1>4, <1>9, <1>11, <1>12, <1>15, <1>16, <1>17, <1>18, <1>19, <1>20, Rested

(* The commit of a plan, rejected, interrupted, lost or made, keeps the
   invariant (commitMaintenance). *)
LEMMA CommitKeeps == ASSUME MaintenanceInv, Commit PROVE MaintenanceInv'
<1>1. at = "commit" /\ scope' = scope /\ Alive /\ Maintaining BY DEF Commit, Alive, Maintaining
<1>2. CASE SettleMaintenance("failure") BY <1>1, <1>2, FactsKind, SettlesMaintenance
<1>3. CASE EndWith("interruption", <<>>, NoOutput, facts, "yes")
  BY <1>1, <1>3, FactsKind, SettlesMaintenance DEF SettleMaintenance
<1>4. CASE Fault BY <1>1, <1>4, Loses DEF Fault
<1>5. CASE ~ Rejected /\ Manual /\ CommitManual BY <1>1, <1>5, CommitManualKeeps
<1>6. CASE ~ Rejected /\ ~ Manual /\ CommitAutomatic BY <1>1, <1>6, CommitAutomaticKeeps
<1>7. QED BY <1>2, <1>3, <1>4, <1>5, <1>6 DEF Commit

(* The log an admission leaves. *)
LEMMA AdmissionLogged ==
    ASSUME MaintenanceInv, at = "idle", NEW kind,
           log' = IF kind = "message" THEN Append(log, [kind |-> "input", op |-> Current + 1]) ELSE log
    PROVE  /\ Held(log', checkpoint, <<>>)
           /\ Costs(log', log, Current + 1, 0) /\ NotedIds(log') = NotedIds(log) /\ Once(log')
           /\ \A i \in DOMAIN log' : log'[i].op \in 1..(Current + 1)
           /\ \A o : KnownAt(log', o) => KnownAt(log, o)
<1>1. TypeOK /\ FactInv BY DEF MaintenanceInv
<1>2. Held(log, checkpoint, <<>>) /\ Current \in Nat /\ DOMAIN ops = 1..Current
  <2>1. ~ Running BY DEF MaintenanceInv, RunInv
  <2>2. Open = <<>> BY <2>1 DEF Open
  <2>3. QED BY <2>2, Reads
<1>3. log \in Seq(Entry) /\ Len(log) \in Nat BY <1>1 DEF TypeOK
<1>4. \A i \in DOMAIN log : log[i].op \in 1..(Current + 1) BY <1>2 DEF MaintenanceInv, CostInv
<1>5. CASE kind # "message"
  <2>1. log' = log BY <1>5
  <2>2. Costs(log, log, Current + 1, 0) BY <1>3, NothingAdded
  <2>3. QED BY <1>1, <1>2, <1>4, <2>1, <2>2 DEF FactInv
<1>6. CASE kind = "message"
  <2> DEFINE e == [kind |-> "input", op |-> Current + 1]
  <2>1. e \in Entry /\ e.kind = "input" /\ e.op = Current + 1 BY <1>2 DEF Entry
  <2> DEFINE l2 == Append(log, e)
  <2>2. log' = l2 BY <1>6
  <2> HIDE DEF e
  <2>3. l2 \in Seq(Entry) /\ Further(l2, log, 1) /\ l2[Len(log) + 1] = e BY <1>3, <2>1 DEF Further
  <2> HIDE DEF l2
  <2>4. EntryReports(e) = <<>> /\ Carries(e) = <<>> BY <2>1, EntryReportsKind DEF Carries
  <2>5. Held(l2, checkpoint, <<>>)
    <3>1. Finishes(l2, Len(log), <<>>, 1, 1) BY <2>1, <2>3 DEF Finishes
    <3>2. QED BY <1>2, <2>3, <3>1, Closes
  <2>6. Accounts(l2, Len(log), 1, 1) BY DEF Accounts
  <2>7. Costs(l2, log, Current + 1, 0)
    <3>1. Cardinality(EveryReport(l2)) = Cardinality(EveryReport(log)) + Units(EntryReports(l2[Len(log) + 1]))
      BY <1>3, <2>3, <2>6, LoggedGrows
    <3>2. \A o : LoggedUsage(l2, o) = LoggedUsage(log, o) +
                       (IF l2[Len(log) + 1].op = o THEN Units(EntryReports(l2[Len(log) + 1])) ELSE 0)
      BY <1>3, <2>3, <2>6, LoggedGrows
    <3>3. Units(EntryReports(l2[Len(log) + 1])) = 0 BY <2>3, <2>4, UnitsEmpty
    <3>4. QED BY <3>1, <3>2, <3>3 DEF Costs
  <2>8. NotedIds(l2) = NotedIds(log) /\ Once(l2)
    <3>1. Carries(l2[Len(log) + 1]) = <<>> BY <2>3, <2>4
    <3>2. NotedIds(l2) = NotedIds(log) \cup FactIds(Carries(l2[Len(log) + 1])) BY <2>3, <2>6, NotedGrow
    <3>3. Once(log) /\ Distinct(Carries(l2[Len(log) + 1])) /\ NotedIds(log) \cap FactIds(Carries(l2[Len(log) + 1])) = {}
             => Once(l2)
      BY <2>3, <2>6, NotedGrow
    <3>4. QED BY <1>1, <3>1, <3>2, <3>3, NoFactsList DEF FactInv
  <2>9. \A i \in DOMAIN l2 : l2[i].op \in 1..(Current + 1) BY <1>2, <1>4, <2>1, <2>3 DEF Further
  <2>10. \A o : KnownAt(l2, o) => KnownAt(log, o) BY <2>3, KnownGrows
  <2>11. QED BY <2>2, <2>5, <2>7, <2>8, <2>9, <2>10
<1>7. QED BY <1>5, <1>6

(* An admission keeps the invariant. *)
LEMMA AdmitKeeps == ASSUME MaintenanceInv, NEW kind \in scope.kinds, Admit(kind) PROVE MaintenanceInv'
<1>1. /\ at = "idle" /\ Current < scope.ops /\ ops' = Append(ops, Op(kind))
      /\ log' = IF kind = "message" THEN Append(log, [kind |-> "input", op |-> Current + 1]) ELSE log
      /\ UNCHANGED <<checkpoint, usage, canceled, round, pendingFacts, plan, output, faults, crashes, spent, cancels, scope>>
      /\ kind = "message" => at' = "source" /\ UNCHANGED <<frozen, facts, ids>>
      /\ kind # "message" => /\ at' = "plan" /\ frozen' = Project(log, checkpoint)
                             /\ facts' = [NoFacts EXCEPT !.consumed = "yes"] /\ ids' = ids + 1
  BY DEF Admit
<1>2. TypeOK /\ FactInv BY DEF MaintenanceInv
<1>3. kind \in {"message", "compact"} BY <1>2, Strategies DEF TypeOK
<1>4. /\ Held(log', checkpoint, <<>>)
      /\ Costs(log', log, Current + 1, 0) /\ NotedIds(log') = NotedIds(log) /\ Once(log')
      /\ \A i \in DOMAIN log' : log'[i].op \in 1..(Current + 1)
      /\ \A o : KnownAt(log', o) => KnownAt(log, o)
  BY <1>1, AdmissionLogged
<1>5. ops \in Seq(Register) /\ Current \in Nat /\ DOMAIN ops = 1..Current /\ Current = Len(ops) BY Reads DEF Current
<1> DEFINE r == Op(kind)
           c == Current + 1
<1>6. /\ r \in Register /\ r.kind = kind /\ r.status = "running" /\ r.effect.kind = "none" /\ r.request = NoRequest
      /\ r.pending = <<>> /\ r.unreported = "no" /\ r.usage = 0
  <2>1. r = [kind |-> kind, status |-> "running", effect |-> NoEffect, request |-> NoRequest,
             pending |-> <<>>, unreported |-> "no", usage |-> 0]
    BY DEF Op
  <2>2. NoEffect \in [kind : {"none", "conversation", "maintenance"}, id : Nat] /\ NoEffect.kind = "none"
        /\ NoRequest \in Request
    BY DEF NoEffect, NoRequest, Request
  <2>3. <<>> \in Seq([call : Calls, of : Nat]) OBVIOUS
  <2> HIDE DEF r
  <2>4. QED BY <1>3, <2>1, <2>2, <2>3 DEF Register
<1> HIDE DEF r
<1>7. /\ ops' \in Seq(Register) /\ Len(ops') = c /\ DOMAIN ops' = 1..c /\ ops'[c] = r
      /\ \A o \in 1..Current : ops'[o] = ops[o]
  <2>1. ops' = Append(ops, r) BY <1>1 DEF r
  <2>2. QED BY <1>5, <1>6, <2>1
<1>8. Current' = c /\ ops' # <<>> BY <1>5, <1>7 DEF Current
<1>9. Running' /\ (Manual' <=> kind = "compact") BY <1>6, <1>7, <1>8 DEF Running, Manual
<1>10. Open' = <<>> BY <1>6, <1>7, <1>8, <1>9 DEF Open
<1>11. OwnInv' /\ CheckpointInv' /\ PairInv'
  <2>1. Held(log', checkpoint', Open') BY <1>1, <1>4, <1>10
  <2>2. QED BY <2>1, Holds
<1>12. Alive' /\ (Maintaining' <=> kind = "compact") /\ at' \in {"source", "plan"} /\ (at' = "plan" <=> kind = "compact")
  BY <1>1, <1>3 DEF Alive, Maintaining
<1>13. facts.list = <<>> /\ pendingFacts = <<>> /\ plan.retain = {} /\ KindInv
  BY <1>1 DEF MaintenanceInv, RunInv, KindInv
<1>14. /\ facts' \in Procedure /\ facts'.list = <<>> /\ pendingFacts' = <<>> /\ ids' \in {ids, ids + 1}
       /\ (kind = "compact" => facts'.source = 0)
  <2>1. CASE kind = "message" BY <1>1, <1>13, <2>1, FactsKind
  <2>2. CASE kind # "message"
    <3>1. facts' = [list |-> <<>>, source |-> 0, consumed |-> "yes"] BY <1>1, <2>2 DEF NoFacts
    <3>2. QED BY <1>1, <1>13, <2>2, <3>1, NoFactsList DEF Procedure
  <2>3. QED BY <2>1, <2>2
<1>15. log' \in Seq(Entry) /\ checkpoint' \in 0..Len(log') /\ (checkpoint' # 0 => log'[checkpoint'].kind = "checkpoint")
  BY <1>1, <1>4 DEF Held, Readable
<1>16. frozen' \in [cp : Nat, boundary : Nat, messages : Seq(ViewMessage)]
  <2>1. frozen' = frozen \/ frozen' = View BY <1>1 DEF View
  <2>2. QED BY <1>2, <2>1, ViewKind DEF TypeOK
<1>17. TypeOK'
  <2>1. plan' \in [kind : {"none", "model", "checkpoint"}, boundary : Nat,
                   retain : SUBSET (DOMAIN frozen'.messages), context : {"no", "yes"}]
    BY <1>1, <1>2, <1>13 DEF TypeOK
  <2>2. Len(ops') <= scope'.ops
    <3>1. scope.ops \in Nat BY <1>2, MaintenanceBounds DEF TypeOK
    <3>2. QED BY <1>1, <1>5, <1>7, <3>1
  <2>3. ids' \in Nat \ {0} BY <1>2, <1>14 DEF TypeOK
  <2>4. QED BY <1>1, <1>2, <1>7, <1>12, <1>14, <1>15, <1>16, <2>1, <2>2, <2>3 DEF TypeOK, Procedure
<1>18. \A o \in 1..Current : ops[o].status # "running"
  <2>1. ~ Running BY <1>1 DEF MaintenanceInv, RunInv
  <2>. SUFFICES ASSUME NEW o \in 1..Current, ops[o].status = "running" PROVE FALSE OBVIOUS
  <2>2. o = Current BY <1>5 DEF MaintenanceInv, RunInv
  <2>3. ops # <<>> BY <1>5, <2>2
  <2>4. QED BY <2>1, <2>2, <2>3 DEF Running
<1>19. RunInv'
  <2>1. \A o \in DOMAIN ops' : ops'[o].status = "running" => o = Len(ops') BY <1>5, <1>7, <1>18
  <2>2. \A o \in DOMAIN ops' : ops'[o].status # "running" => ops'[o].effect.kind = "none" /\ ops'[o].pending = <<>>
    <3>. SUFFICES ASSUME NEW o \in DOMAIN ops', ops'[o].status # "running"
                  PROVE  ops'[o].effect.kind = "none" /\ ops'[o].pending = <<>>
      OBVIOUS
    <3>1. CASE o = c BY <1>6, <1>7, <3>1
    <3>2. CASE o # c
      <4>1. o \in 1..Current /\ ops'[o] = ops[o] BY <1>5, <1>7, <3>2
      <4>2. QED BY <1>5, <4>1 DEF MaintenanceInv, RunInv
    <3>3. QED BY <3>1, <3>2
  <2>3. QED BY <1>9, <1>12, <2>1, <2>2 DEF RunInv
<1>20. KindInv' BY <1>1, <1>3, <1>9, <1>12, <1>13, <1>14 DEF KindInv
<1>21. EffectInv' BY <1>6, <1>7, <1>8, <1>12 DEF EffectInv
<1>22. PendingInv' BY <1>6, <1>7, <1>8, <1>12, DueNone DEF PendingInv
<1>23. FrozenInv'
  <2>1. kind = "compact" => frozen' = View'
    <3>1. kind = "compact" => log' = log /\ checkpoint' = checkpoint /\ frozen' = Project(log, checkpoint) BY <1>1
    <3>2. QED BY <3>1 DEF View
  <2>2. QED BY <1>12, <2>1 DEF FrozenInv
<1>24. RequestInv' BY <1>6, <1>7, <1>8, <1>12 DEF RequestInv, NoRequest
<1>25. SummaryInv' BY <1>9, <1>12 DEF SummaryInv
<1>26. FactInv'
  <2>1. ids \in Nat BY <1>2 DEF TypeOK
  <2>2. \A i \in 0..(ids - 1) : i \in 0..(ids' - 1)
    <3>1. CASE ids' = ids BY <3>1
    <3>2. CASE ids' = ids + 1 BY <2>1, <3>2
    <3>3. QED BY <1>14, <3>1, <3>2
  <2>3. NotedIds(log') \subseteq 0..(ids' - 1) BY <1>2, <1>4, <2>2 DEF FactInv
  <2>4. QED BY <1>4, <1>9, <1>12, <1>14, <2>3, NoFactsList DEF FactInv
<1>27. /\ \A o : LoggedUsage(log', o) = LoggedUsage(log, o)
       /\ Cardinality(EveryReport(log')) = Cardinality(EveryReport(log))
       /\ LoggedUsage(log, c) = 0
  <2>1. log \in Seq(Entry) BY <1>2 DEF TypeOK
  <2>2. (\A x : LoggedUsage(log, x) \in Nat) /\ Cardinality(EveryReport(log)) \in Nat BY <2>1, LoggedKind, EveryKind
  <2>3. \A i \in DOMAIN log : log[i].op # c BY <1>5 DEF MaintenanceInv, CostInv
  <2>4. LoggedUsage(log, c) = 0 BY <2>1, <2>3, LoggedNone
  <2>5. QED BY <1>4, <2>2, <2>4 DEF Costs
<1>28. CostInv'
  <2>1. \A i \in DOMAIN log' : log'[i].op \in DOMAIN ops' BY <1>4, <1>7
  <2>2. spent' = spent /\ spent \in [1..scope.ops -> Nat] /\ scope.ops \in Nat
    BY <1>1, <1>2, MaintenanceBounds DEF TypeOK
  <2>3. c \in DOMAIN spent /\ spent[c] = 0
    <3>1. c \in DOMAIN spent BY <1>1, <1>5, <2>2
    <3>2. QED BY <1>5, <3>1 DEF MaintenanceInv, CostInv
  <2>4. Carried' = 0 BY <1>12, <1>14, NoFactsList DEF Carried
  <2>5. \A o \in DOMAIN spent' : o > Len(ops') => spent'[o] = 0
    <3>1. \A o \in DOMAIN spent : o > c => o > Len(ops) BY <1>5, <2>2
    <3>2. QED BY <1>7, <2>2, <3>1 DEF MaintenanceInv, CostInv
  <2>6. spent'[Current'] = LoggedUsage(log', Current') + Carried' BY <1>8, <1>27, <2>2, <2>3, <2>4
  <2>7. QED BY <1>14, <2>1, <2>5, <2>6 DEF CostInv
<1>29. CostHonest'
  <2>. SUFFICES ASSUME NEW o \in DOMAIN ops', ops'[o].effect.kind = "none", EstimateKnown(o)'
                PROVE  LoggedUsage(log', o) = spent'[o]
    BY DEF CostHonest
  <2>1. CASE o = c
    <3>1. spent'[c] = 0
      <4>1. spent \in [1..scope.ops -> Nat] /\ scope.ops \in Nat BY <1>2, MaintenanceBounds DEF TypeOK
      <4>2. c \in DOMAIN spent BY <1>1, <1>5, <4>1
      <4>3. QED BY <1>1, <1>5, <4>2 DEF MaintenanceInv, CostInv
    <3>2. QED BY <1>27, <2>1, <3>1
  <2>2. CASE o # c
    <3>1. o \in DOMAIN ops /\ ops'[o] = ops[o] BY <1>5, <1>7, <2>2
    <3>2. KnownAt(log', o) /\ ops'[o].unreported = "no" BY DEF EstimateKnown, KnownAt
    <3>3. KnownAt(log, o) BY <1>4, <3>2
    <3>4. EstimateKnown(o) BY <3>1, <3>2, <3>3 DEF EstimateKnown, KnownAt
    <3>5. LoggedUsage(log, o) = spent[o] BY <3>1, <3>4 DEF MaintenanceInv, CostHonest
    <3>6. QED BY <1>1, <1>27, <3>5
  <2>3. QED BY <2>1, <2>2
<1>30. TotalsMatch'
  <2>1. TotalsMatch BY DEF MaintenanceInv
  <2>2. \A o \in DOMAIN ops' : ops'[o].usage = LoggedUsage(log', o)
    <3>. SUFFICES ASSUME NEW o \in DOMAIN ops' PROVE ops'[o].usage = LoggedUsage(log', o) OBVIOUS
    <3>1. CASE o = c BY <1>6, <1>7, <1>27, <3>1
    <3>2. CASE o # c
      <4>1. o \in DOMAIN ops /\ ops'[o] = ops[o] BY <1>5, <1>7, <3>2
      <4>2. QED BY <1>27, <2>1, <4>1 DEF TotalsMatch
    <3>3. QED BY <3>1, <3>2
  <2>3. UNION {OpReports(log', o) : o \in DOMAIN ops'} = EveryReport(log')
    <3>1. \A i \in DOMAIN log' : log'[i].op \in DOMAIN ops' BY <1>4, <1>7
    <3>2. QED BY <1>15, <3>1, EveryReportIs
  <2>4. UNION {OpReports(log, o) : o \in DOMAIN ops} = EveryReport(log)
    <3>1. \A i \in DOMAIN log : log[i].op \in DOMAIN ops BY DEF MaintenanceInv, CostInv
    <3>2. QED BY <1>2, <3>1, EveryReportIs DEF TypeOK
  <2>5. usage' = Cardinality(EveryReport(log')) BY <1>1, <1>27, <2>1, <2>4 DEF TotalsMatch
  <2>6. QED BY <2>2, <2>3, <2>5 DEF TotalsMatch
<1>31. QED BY <1>11, <1>17, <1>19, <1>20, <1>21, <1>22, <1>23, <1>24, <1>25, <1>26, <1>28, <1>29, <1>30 DEF MaintenanceInv

-----------------------------------------------------------------------------
(* A Session starts with nothing logged, owed or open. *)
LEMMA MaintenanceStarts == ASSUME Init PROVE MaintenanceInv
<1>1. /\ scope \in Scopes /\ log = <<>> /\ checkpoint = 0 /\ usage = 0 /\ ops = <<>>
      /\ at = "idle" /\ canceled = "no" /\ round = 0
      /\ frozen = NoInput /\ facts = NoFacts /\ pendingFacts = <<>>
      /\ plan = NoPlan /\ output = NoOutput
      /\ ids = 1 /\ faults = 0 /\ crashes = 0 /\ cancels = 0
      /\ spent = [o \in 1..scope.ops |-> 0]
  BY DEF Init
<1>2. Len(log) = 0 /\ DOMAIN log = {} /\ log \in Seq(Entry) /\ Len(ops) = 0 /\ DOMAIN ops = {} /\ ops \in Seq(Register)
  BY <1>1
<1>3. ~ Running /\ ~ Alive /\ ~ Maintaining BY <1>1 DEF Running, Alive, Maintaining
<1>4. facts = [list |-> <<>>, source |-> 0, consumed |-> "no"] /\ facts.list = <<>> BY <1>1 DEF NoFacts
<1>5. output = [status |-> "none", calls |-> <<>>, report |-> "absent"] BY <1>1 DEF NoOutput
<1>6. plan = [kind |-> "none", boundary |-> 0, retain |-> {}, context |-> "no"] BY <1>1 DEF NoPlan
<1>7. TypeOK
  <2>1. frozen \in [cp : Nat, boundary : Nat, messages : Seq(ViewMessage)]
    <3>1. <<>> \in Seq(ViewMessage) OBVIOUS
    <3>2. QED BY <1>1, <3>1 DEF NoInput
  <2>2. facts \in [list : Facts, source : Nat, consumed : {"no", "yes"}] /\ pendingFacts \in Facts
    BY <1>1, <1>4, NoFactsList
  <2>3. plan \in [kind : {"none", "model", "checkpoint"}, boundary : Nat,
                  retain : SUBSET (DOMAIN frozen.messages), context : {"no", "yes"}]
    BY <1>6
  <2>4. output \in [status : {"none", "completed", "errored", "interrupted"}, calls : Seq(Calls), report : Report]
    BY <1>5 DEF Report
  <2>5. scope.ops \in Nat BY <1>1, MaintenanceBounds
  <2>6. spent \in [1..scope.ops -> Nat] BY <1>1
  <2>7. QED BY <1>1, <1>2, <2>1, <2>2, <2>3, <2>4, <2>5, <2>6 DEF TypeOK
<1>8. RunInv BY <1>1, <1>2, <1>3, <1>4 DEF RunInv
<1>9. KindInv BY <1>1, <1>3, <1>5, <1>6 DEF KindInv, IsInjective
<1>10. EffectInv /\ PendingInv BY <1>3 DEF EffectInv, PendingInv
<1>11. OwnInv /\ CheckpointInv BY <1>2 DEF OwnInv, Own, CheckpointInv
<1>12. PairInv
  <2>1. Readable(log, 0)
    <3>1. Covered(log, 0) = <<>> /\ Cutoff(log, 0) = 0 BY DEF Covered, Cutoff
    <3>2. <<>> \in Seq(ViewMessage) OBVIOUS
    <3>3. 0 \in 0..Len(log) BY <1>2
    <3>4. QED BY <1>2, <3>1, <3>2, <3>3 DEF Readable
  <2>2. /\ Len(Uncovered(log, 0)) = 0 /\ Len(Covered(log, 0)) = 0
    <3>1. Bearing(log, 0, 0) = <<>> BY AscendingStarts DEF Bearing
    <3>2. QED BY <1>2, <3>1 DEF Uncovered, Cutoff, Covered
  <2>3. /\ DOMAIN View.messages = 1..Len(View.messages)
        /\ Len(View.messages) = Len(Covered(log, 0)) + Len(Uncovered(log, 0))
    BY <1>1, <2>1, ViewKinds DEF View
  <2>4. DOMAIN View.messages = {} BY <2>2, <2>3
  <2>5. Asked = {} BY <1>3 DEF Asked
  <2>6. QED BY <2>4, <2>5 DEF PairInv, OpenPairs
<1>13. FrozenInv /\ RequestInv /\ SummaryInv BY <1>1, <1>3 DEF FrozenInv, RequestInv, SummaryInv
<1>14. FactInv
  <2>1. Noted(log) = {} BY <1>2 DEF Noted
  <2>2. NotedIds(log) = {} /\ Once(log) BY <2>1 DEF NotedIds, Once
  <2>3. QED BY <1>1, <1>3, <1>4, <2>2, NoFactsList DEF FactInv
<1>15. CostInv BY <1>1, <1>2, <1>3 DEF CostInv
<1>16. CostHonest BY <1>2 DEF CostHonest
<1>17. TotalsMatch
  <2>1. UNION {OpReports(log, o) : o \in DOMAIN ops} = {} BY <1>2
  <2>2. QED BY <1>1, <1>2, <2>1, FS_EmptySet DEF TotalsMatch
<1>18. QED BY <1>7, <1>8, <1>9, <1>10, <1>11, <1>12, <1>13, <1>14, <1>15, <1>16, <1>17 DEF MaintenanceInv

(* A stuttering step keeps the invariant. *)
LEMMA RestKeeps == ASSUME MaintenanceInv, UNCHANGED vars PROVE MaintenanceInv'
<1>1. UNCHANGED <<log, checkpoint, usage, ops, at, canceled, round, frozen, facts, pendingFacts, plan, output,
                  ids, faults, crashes, cancels, spent, scope>>
  BY DEF vars, durable, local
<1>2. UNCHANGED <<durable, scope>> BY <1>1 DEF durable
<1>3. /\ OwnInv' /\ CheckpointInv' /\ PairInv' /\ TotalsMatch' /\ View' = View /\ (Running' <=> Running)
      /\ Current' = Current /\ (Manual' <=> Manual) /\ ContextMeasurement' = ContextMeasurement
  BY <1>2, Same
<1>4. (Alive' <=> Alive) /\ (Maintaining' <=> Maintaining) BY <1>1 DEF Alive, Maintaining
<1>5. TypeOK' BY <1>1 DEF MaintenanceInv, TypeOK
<1>6. RunInv' BY <1>1, <1>3, <1>4 DEF MaintenanceInv, RunInv
<1>7. KindInv' BY <1>1, <1>3, <1>4 DEF MaintenanceInv, KindInv
<1>8. EffectInv' /\ PendingInv' BY <1>1, <1>3, <1>4 DEF MaintenanceInv, EffectInv, PendingInv
<1>9. FrozenInv' /\ SummaryInv' BY <1>1, <1>3, <1>4 DEF MaintenanceInv, FrozenInv, SummaryInv
<1>10. RequestInv' BY <1>1, <1>3, <1>4 DEF MaintenanceInv, RequestInv
<1>11. FactInv' BY <1>1, <1>3, <1>4 DEF MaintenanceInv, FactInv
<1>12. CostInv'
  <2>1. Carried' = Carried BY <1>1 DEF Carried
  <2>2. QED BY <1>1, <1>3, <1>4, <2>1 DEF MaintenanceInv, CostInv
<1>13. CostHonest' BY <1>1 DEF MaintenanceInv, CostHonest, EstimateKnown
<1>14. QED BY <1>3, <1>5, <1>6, <1>7, <1>8, <1>9, <1>10, <1>11, <1>12, <1>13 DEF MaintenanceInv

(* The invariant holds in every state of every Session: after each
   transaction, lost publication, interruption, crash and recovery. *)
THEOREM MaintenanceInvariance == Spec => []MaintenanceInv
<1>1. Init => MaintenanceInv BY MaintenanceStarts
<1>2. MaintenanceInv /\ [Next]_vars => MaintenanceInv'
  <2> SUFFICES ASSUME MaintenanceInv, [Next]_vars PROVE MaintenanceInv' OBVIOUS
  <2>1. CASE \E k \in scope.kinds : Admit(k) BY <2>1, AdmitKeeps
  <2>2. CASE Source BY <2>2, SourceKeeps
  <2>3. CASE Dispatch BY <2>3, DispatchKeeps
  <2>4. CASE Answer BY <2>4, AnswerKeeps
  <2>5. CASE AnswerSettles BY <2>5, AnswerSettlesKeeps
  <2>6. CASE Tool BY <2>6, ToolKeeps
  <2>7. CASE StopBatch BY <2>7, StopBatchKeeps
  <2>8. CASE Over BY <2>8, OverKeeps
  <2>9. CASE Plan BY <2>9, PlanKeeps
  <2>10. CASE OpenStage BY <2>10, OpenStageKeeps
  <2>11. CASE Summarize BY <2>11, SummarizeKeeps
  <2>12. CASE Summarized BY <2>12, SummarizedKeeps
  <2>13. CASE Consume BY <2>13, ConsumeKeeps
  <2>14. CASE Commit BY <2>14, CommitKeeps
  <2>15. CASE Reproject BY <2>15, ReprojectKeeps
  <2>16. CASE Cancel BY <2>16, CancelKeeps
  <2>17. CASE Crash BY <2>17, CrashKeeps
  <2>18. CASE Recover BY <2>18, RecoverKeeps
  <2>19. CASE UNCHANGED vars BY <2>19, RestKeeps
  <2>20. QED
    BY <2>1, <2>2, <2>3, <2>4, <2>5, <2>6, <2>7, <2>8, <2>9, <2>10, <2>11, <2>12, <2>13, <2>14, <2>15, <2>16,
       <2>17, <2>18, <2>19 DEF Next
<1>3. QED BY <1>1, <1>2, PTL DEF Spec

-----------------------------------------------------------------------------
(* What the invariant says to a reader of the model. *)

(* What is committed at any instant is what a load takes back: checkpoints
   that cut no call from its result, totals that the log adds up to
   (validateEntryReferences, validateUsage). *)
THEOREM CommittedLoads == Spec => []LoadsBack
<1>1. MaintenanceInv => LoadsBack
  <2> SUFFICES ASSUME MaintenanceInv PROVE LoadsBack OBVIOUS
  <2>1. CheckpointsLoad
    <3> SUFFICES ASSUME NEW i \in DOMAIN log, log[i].kind = "checkpoint"
                 PROVE  log[i].boundary < i /\ ~ CutUnsafe(log, log[i].boundary)
      BY DEF CheckpointsLoad
    <3>1. Sound(log, i) BY DEF MaintenanceInv, CheckpointInv
    <3>2. i \in Nat BY DEF MaintenanceInv, TypeOK
    <3>3. QED BY <3>1, <3>2 DEF Sound
  <2>2. QED BY <2>1 DEF MaintenanceInv, LoadsBack
<1>2. QED BY <1>1, MaintenanceInvariance, PTL

(* No producer's fact is committed twice, and an estimate that claims to be
   known counts every unit that was reported, wherever failures and crashes
   struck (transferPending, completePending, estimateGraphCosts). *)
THEOREM WorkIsRecorded == Spec => []WorkRecorded
<1>1. MaintenanceInv => WorkRecorded
  BY NotedSame DEF MaintenanceInv, FactInv, WorkRecorded
<1>2. QED BY <1>1, MaintenanceInvariance, PTL

(* A view without open calls pairs. *)
LEMMA ViewIsPaired == ASSUME MaintenanceInv PROVE ViewPairs
<1> SUFFICES ASSUME at \in {"dispatch", "answer"} PROVE PairsComplete(View.messages) BY DEF ViewPairs, View
<1>1. Running BY DEF MaintenanceInv, RunInv, Alive
<1>2. ops[Current].pending = <<>> BY <1>1 DEF MaintenanceInv, PendingInv
<1>3. Asked = {} BY <1>1, <1>2 DEF Asked, Waiting
<1>4. OpenPairs(View.messages, {}) BY <1>3 DEF MaintenanceInv, PairInv
<1>5. View.messages \in Seq(ViewMessage) BY ViewKind
<1>6. QED BY <1>4, <1>5, PairsEnd

(* A checkpoint shows the entry that holds the call of each of its results. *)
LEMMA ResultsAreWithTheirCalls == ASSUME MaintenanceInv PROVE ResultsKeepTheirCalls
<1> SUFFICES ASSUME NEW i \in DOMAIN log, log[i].kind = "checkpoint", NEW n \in ToSet(log[i].messages), n.result # NoCall
             PROVE  \E own \in ToSet(log[i].messages) : own.src = log[n.src].of
  BY DEF ResultsKeepTheirCalls
<1>1. Shows(log, log[i].messages, log[i].boundary) BY DEF MaintenanceInv, CheckpointInv, Sound
<1>2. PICK k \in DOMAIN log[i].messages : n = log[i].messages[k] BY DEF ToSet
<1>3. PICK j \in DOMAIN log[i].messages : log[i].messages[j].src = log[n.src].of BY <1>1, <1>2 DEF Shows
<1>4. log[i].messages[j] \in ToSet(log[i].messages) BY DEF ToSet
<1>5. QED BY <1>3, <1>4

(* After any number of compactions by any strategy, the conversation that a
   model continues pairs every call with its result, keeps the call of each
   result it kept, and is the one that the published request names
   (validateToolPairing, resolveCheckpointItems, commitCheckpoint). *)
THEOREM ConversationContinues == Spec => []ConversationPairs
<1>1. MaintenanceInv => ConversationPairs
  <2> SUFFICES ASSUME MaintenanceInv PROVE ConversationPairs OBVIOUS
  <2>1. RequestNamesView
    <3> SUFFICES ASSUME at \in {"dispatch", "answer"}, ops[Current].request.id # 0
                 PROVE  ops[Current].request.cp = View.cp /\ ops[Current].request.boundary = View.boundary
      BY DEF RequestNamesView, View
    <3>1. QED BY DEF MaintenanceInv, RequestInv
  <2>2. QED BY <2>1, ViewIsPaired, ResultsAreWithTheirCalls DEF ConversationPairs
<1>2. QED BY <1>1, MaintenanceInvariance, PTL

(* A publication that ends an execution commits no checkpoint. *)
LEMMA PublishedCheckpoint ==
    ASSUME NEW st, NEW asst, NEW out, NEW f, NEW comp, Publish(st, asst, out, f, comp)
    PROVE  checkpoint' = checkpoint
  BY DEF Publish, Terminate, Lost, durable

(* The Session's checkpoint changes only when a valid proposal commits. *)
LEMMA CheckpointMoves ==
    ASSUME MaintenanceInv, Next, checkpoint' # checkpoint
    PROVE  /\ at = "commit" /\ plan.kind = "checkpoint" /\ PlanValid(frozen, plan)
           /\ checkpoint' = Len(log) + 1
           /\ \E rest \in {<<>>} \cup {<<s>> : s \in {ManualDone(TRUE, ConsumePending(facts))}} :
                 log' = (log \o <<CheckpointEntry(ConsumePending(facts))>>) \o rest
<1>1. \A st : ~ SettleMaintenance(st) BY PublishedCheckpoint DEF SettleMaintenance, EndWith
<1>2. \A st, asst, out, f, comp : ~ EndWith(st, asst, out, f, comp) /\ ~ Publish(st, asst, out, f, comp)
  BY PublishedCheckpoint DEF EndWith
<1>3. ~ Fault /\ ~ Lost BY DEF Fault, Lost, durable
<1>4. ~ \E k \in scope.kinds : Admit(k) BY DEF Admit
<1>5. ~ Source BY <1>2 DEF Source, durable
<1>6. ~ Dispatch BY <1>2, <1>3 DEF Dispatch
<1>7. \A next : ~ Accept(next) BY DEF Accept, durable
<1>8. ~ Answer BY <1>2, <1>7 DEF Answer
<1>9. ~ AnswerSettles BY <1>2, <1>3 DEF AnswerSettles
<1>10. ~ Tool BY DEF Tool
<1>11. ~ StopBatch /\ ~ Over BY <1>2 DEF StopBatch, Over
<1>12. \A p : ~ Take(p) BY DEF Take, durable
<1>13. ~ Plan /\ ~ Consume BY <1>1, <1>12 DEF Plan, Consume
<1>14. ~ OpenStage BY <1>1, <1>2 DEF OpenStage
<1>15. ~ Summarize BY <1>1, <1>7 DEF Summarize
<1>16. ~ Summarized BY <1>2, <1>3 DEF Summarized
<1>17. ~ Reproject /\ ~ Cancel /\ ~ Crash BY DEF Reproject, Cancel, Crash, durable
<1>18. ~ Recover BY DEF Recover, Terminate, durable
<1>19. Commit BY <1>4, <1>5, <1>6, <1>8, <1>9, <1>10, <1>11, <1>13, <1>14, <1>15, <1>16, <1>17, <1>18 DEF Next
<1>20. at = "commit" /\ ~ Rejected /\ (IF Manual THEN CommitManual ELSE CommitAutomatic)
  BY <1>1, <1>2, <1>3, <1>19 DEF Commit
<1>21. CASE Manual
  <2> DEFINE e == CheckpointEntry(ConsumePending(facts))
             s == ManualDone(TRUE, ConsumePending(facts))
  <2>1. plan.kind = "checkpoint" BY <1>20, <1>21 DEF CommitManual
  <2>2. checkpoint' = Len(log) + 1 /\ log' = log \o <<e>> \o <<s>>
    BY <1>20, <1>21, <2>1 DEF CommitManual, ManualDone
  <2> HIDE DEF e, s
  <2>3. \E rest \in {<<>>} \cup {<<x>> : x \in {s}} : log' = (log \o <<e>>) \o rest BY <2>2
  <2>4. PlanValid(frozen, plan) BY <1>20, <2>1 DEF Rejected
  <2>5. QED BY <1>20, <2>1, <2>2, <2>3, <2>4 DEF e, s
<1>22. CASE ~ Manual
  <2> DEFINE e == CheckpointEntry(ConsumePending(facts))
  <2>1. plan.kind = "checkpoint" BY <1>20, <1>22 DEF MaintenanceInv, KindInv
  <2>2. PlanValid(frozen, plan) BY <1>20, <2>1 DEF Rejected
  <2>3. checkpoint' = Len(log) + 1 /\ log' = Append(log, e) BY <1>20, <1>22 DEF CommitAutomatic
  <2>4. Append(log, e) \in Seq(Entry) /\ Append(log, e)[Len(log) + 1] = e
    <3>1. log \in Seq(Entry) BY DEF MaintenanceInv, TypeOK
    <3>2. Append(log, e) \in Seq(Entry) BY <1>20, <2>1, <2>2, CheckpointLogged
    <3>3. QED BY <3>1, <3>2
  <2>5. log \in Seq(Entry) /\ e \in Entry
    <3>1. log \in Seq(Entry) BY DEF MaintenanceInv, TypeOK
    <3> HIDE DEF e
    <3>2. QED BY <2>4, <3>1
  <2> HIDE DEF e
  <2>6. log' = (log \o <<e>>) \o <<>> BY <2>3, <2>5, AppendIsConcat, ConcatEmptySeq
  <2>7. QED BY <1>20, <2>1, <2>2, <2>3, <2>6 DEF e
<1>23. QED BY <1>21, <1>22

(* A context measurement names a report after the current checkpoint. *)
LEMMA MeasuredReport ==
    ASSUME MaintenanceInv, ContextMeasurement = "some"
    PROVE  \E i \in (checkpoint + 1)..Len(log) : ReportsContext(log[i]) /\ log[i].report = "some"
<1> DEFINE S == {i \in (checkpoint + 1)..Len(log) : ReportsContext(log[i])}
<1>1. checkpoint \in Nat /\ Len(log) \in Nat BY DEF MaintenanceInv, TypeOK
<1>2. ContextMeasurement = IF S = {} THEN "absent" ELSE log[Max(S)].report BY DEF ContextMeasurement, LatestUsage
<1>3. S \in SUBSET Nat /\ \A i \in S : i <= Len(log) /\ ReportsContext(log[i]) /\ i \in (checkpoint + 1)..Len(log) BY <1>1
<1> HIDE DEF S
<1>4. S # {} /\ log[Max(S)].report = "some" BY <1>2
<1>5. \E m \in S : \A k \in S : k <= m BY <1>1, <1>3, <1>4, Largest
<1>6. \E m \in S : \A k \in S : m >= k BY <1>3, <1>5
<1>7. Max(S) \in S BY <1>6 DEF Max
<1>8. QED BY <1>3, <1>4, <1>7

(* Compaction makes progress: a new checkpoint covers no less than the one
   it replaces, and the included strategy compacts on a report that arrived
   after it (validateCheckpointPlan, latestContextUsage). *)
THEOREM CompactionsProgress == Spec => CompactionsAdvance
<1> DEFINE Covers  == checkpoint' # checkpoint => Cutoff(log, checkpoint)' >= Cutoff(log, checkpoint)
           Triggered == scope.strategy = "summary" /\ checkpoint' # checkpoint /\ ~ Manual =>
                         \E i \in (checkpoint + 1)..Len(log) : ReportsContext(log[i]) /\ log[i].report = "some"
<1>1. MaintenanceInv /\ [Next]_vars => [Covers]_vars
  <2> SUFFICES ASSUME MaintenanceInv, Next, checkpoint' # checkpoint
               PROVE  Cutoff(log, checkpoint)' >= Cutoff(log, checkpoint)
    OBVIOUS
  <2> DEFINE e == CheckpointEntry(ConsumePending(facts))
             l1 == Append(log, e)
             id == Len(log) + 1
  <2>1. at = "commit" /\ plan.kind = "checkpoint" /\ PlanValid(frozen, plan) /\ checkpoint' = id BY CheckpointMoves
  <2>2. PICK rest \in {<<>>} \cup {<<s>> : s \in {ManualDone(TRUE, ConsumePending(facts))}} : log' = (log \o <<e>>) \o rest
    BY CheckpointMoves
  <2>3. /\ l1 \in Seq(Entry) /\ Cutoff(log, checkpoint) <= plan.boundary /\ plan.boundary \in 1..Len(log)
    BY <2>1, CheckpointLogged
  <2>4. log \in Seq(Entry) /\ id \in Nat \ {0} BY DEF MaintenanceInv, TypeOK
  <2>5. e.boundary = plan.boundary BY DEF CheckpointEntry
  <2>6. checkpoint \in Nat /\ Cutoff(log, checkpoint) \in Nat
    <3>1. Held(log, checkpoint, Open) BY Reads
    <3>2. QED BY <2>4, <3>1 DEF Held, Readable
  <2> HIDE DEF e
  <2>7. log'[id] = e
    <3> DEFINE s == ManualDone(TRUE, ConsumePending(facts))
    <3>1. rest = <<>> \/ rest = <<s>> BY <2>2
    <3> HIDE DEF s
    <3>2. QED BY <2>2, <2>4, <3>1
  <2>8. Cutoff(log, checkpoint)' = plan.boundary BY <2>1, <2>4, <2>5, <2>7 DEF Cutoff
  <2>9. QED BY <2>3, <2>6, <2>8
<1>2. MaintenanceInv /\ [Next]_vars => [Triggered]_vars
  <2> SUFFICES ASSUME MaintenanceInv, Next, scope.strategy = "summary", checkpoint' # checkpoint, ~ Manual
               PROVE  \E i \in (checkpoint + 1)..Len(log) : ReportsContext(log[i]) /\ log[i].report = "some"
    OBVIOUS
  <2>1. at = "commit" BY CheckpointMoves
  <2>2. ContextMeasurement = "some" BY <2>1 DEF MaintenanceInv, SummaryInv, Maintaining
  <2>3. QED BY <2>2, MeasuredReport
<1>3. QED BY <1>1, <1>2, MaintenanceInvariance, PTL DEF Spec, CompactionsAdvance, CoverageAdvances, CompactsOnNewReport
=============================================================================
