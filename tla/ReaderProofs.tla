---------------------------- MODULE ReaderProofs ----------------------------
(* Proofs about module Reader.  The invariant ReaderInv says what is shown
   (ViewInv), how connections are told apart (LinkInv), in what order the
   pairs and the clocks stand that the client and its frames carry
   (OrderInv, BreachInv, ClockInv), and where the reason is that a view
   which is behind will be read again (SelInv and the parts named Owed). *)
EXTENDS Reader, FiniteSetTheorems, SequenceTheorems, TLAPS
(* A range of the conversation without gaps, from item a to item b. *)
Stretch(items, a, b) ==
    /\ items \in Seq(Item) /\ a \in Nat \ {0} /\ b \in Nat /\ a <= b + 1
    /\ Len(items) = b - a + 1
    /\ \A i \in 1..Len(items) : items[i].id = a + i - 1

(* The kinds and the length of a stretch. *)
LEMMA StretchKinds ==
    ASSUME NEW items, NEW a, NEW b, Stretch(items, a, b)
    PROVE  a \in Nat \ {0} /\ b \in Nat /\ items \in Seq(Item) /\ Len(items) = b - a + 1
BY DEF Stretch

(* A stretch's identities are an interval, each met once. *)
LEMMA StretchIds ==
    ASSUME NEW items, NEW a, NEW b, Stretch(items, a, b)
    PROVE  Ids(items) = a..b /\ Cardinality(Ids(items)) = Len(items)
<1>. a \in Nat \ {0} /\ b \in Nat /\ a <= b + 1 /\ Len(items) = b - a + 1 /\ items \in Seq(Item)
     /\ DOMAIN items = 1..Len(items) /\ \A i \in 1..Len(items) : items[i].id = a + i - 1
  BY DEF Stretch
<1>1. Ids(items) = a..b
  <2>1. ASSUME NEW x \in Ids(items) PROVE x \in a..b
    BY <2>1 DEF Ids
  <2>2. ASSUME NEW x \in a..b PROVE x \in Ids(items)
    <3>1. x - a + 1 \in 1..Len(items) /\ items[x - a + 1].id = x BY <2>2
    <3>2. QED BY <3>1 DEF Ids
  <2>3. QED BY <2>1, <2>2
<1>2. Cardinality(a..b) = b - a + 1
  <2>1. Cardinality(a..b) = IF a > b THEN 0 ELSE b - a + 1 BY FS_Interval
  <2>2. QED BY <2>1
<1>3. QED BY <1>1, <1>2

(* A page is the stretch that ends before its cursor's item; its own cursor
   addresses its edge, and it says of each item what the log then held. *)
LEMMA PageIs ==
    ASSUME NEW l \in Seq(BOOLEAN), NEW end \in 0..Len(l)
    PROVE  \E a \in Nat \ {0} :
               /\ Stretch(PageBefore(l, end).items, a, end)
               /\ PageBefore(l, end).cursor = (IF a > 1 THEN a ELSE 0)
               /\ end > 0 => a <= end
               /\ \A i \in 1..Len(PageBefore(l, end).items) :
                     PageBefore(l, end).items[i].done = l[PageBefore(l, end).items[i].id]
<1>. DEFINE first == Highest(end - PageSize, 0) + 1
            items == Items(l, first, end)
<1>1. first \in Nat \ {0} /\ first <= end + 1 /\ (end > 0 => first <= end) /\ end \in Nat
  BY ReaderAssumption DEF Highest
<1>2. items = [i \in 1..(end - first + 1) |-> [id |-> first + i - 1, done |-> l[first + i - 1]]]
  BY DEF Items
<1>3. PageBefore(l, end).items = items /\ PageBefore(l, end).cursor = (IF first > 1 THEN first ELSE 0)
  BY DEF PageBefore
<1>. HIDE DEF first
<1>4. ASSUME NEW i \in 1..(end - first + 1)
      PROVE  first + i - 1 \in Nat /\ l[first + i - 1] \in BOOLEAN
  <2>1. first + i - 1 \in 1..Len(l) BY <1>1, <1>4
  <2>2. QED BY <2>1, ElementOfSeq
<1>5. items \in Seq(Item) /\ Len(items) = end - first + 1
  <2>1. end - first + 1 \in Nat BY <1>1
  <2>2. items \in [1..(end - first + 1) -> Item] BY <1>2, <1>4 DEF Item
  <2>. HIDE DEF items
  <2>3. QED BY <2>1, <2>2, IsASeq, SeqDef
<1>6. \A i \in 1..(end - first + 1) : items[i].id = first + i - 1 /\ items[i].done = l[first + i - 1]
  BY <1>2
<1>. HIDE DEF items
<1>7. Stretch(items, first, end) BY <1>1, <1>5, <1>6 DEF Stretch
<1>8. QED BY <1>1, <1>3, <1>5, <1>6, <1>7

(* Two stretches side by side are connected, and joining them loses nothing. *)
LEMMA SideBySide ==
    ASSUME NEW older, NEW newer, NEW a, NEW b, NEW c,
           Stretch(older, a, b - 1), Stretch(newer, b, c)
    PROVE  /\ Connected(older, newer)
           /\ MergeConversation(older, newer) = older \o newer
           /\ Stretch(older \o newer, a, c)
<1>1. Ids(older) = a..(b - 1) /\ Ids(newer) = b..c /\ a \in Nat /\ b \in Nat /\ c \in Nat
  BY StretchIds DEF Stretch
<1>2. Shared(older, newer) = {}
  <2>1. ASSUME NEW i \in DOMAIN older, older[i].id \in Ids(newer) PROVE FALSE
    <3>1. older[i].id \in Ids(older) BY <2>1 DEF Ids
    <3>2. QED BY <2>1, <3>1, <1>1
  <2>2. QED BY <2>1 DEF Shared
<1>3. Connected(older, newer) BY <1>2, StretchIds DEF Connected
<1>4. MergeConversation(older, newer) = older \o newer BY <1>2 DEF MergeConversation
<1>5. Stretch(older \o newer, a, c)
  <2>0. /\ older \in Seq(Item) /\ newer \in Seq(Item)
        /\ Len(older) = b - a /\ Len(newer) = c - b + 1 /\ a <= b /\ b <= c + 1 /\ a # 0
        /\ \A i \in 1..Len(older) : older[i].id = a + i - 1
        /\ \A i \in 1..Len(newer) : newer[i].id = b + i - 1
    BY <1>1 DEF Stretch
  <2>1. /\ older \o newer \in Seq(Item) /\ Len(older \o newer) = Len(older) + Len(newer)
        /\ \A i \in 1..(Len(older) + Len(newer)) :
              (older \o newer)[i] = IF i <= Len(older) THEN older[i] ELSE newer[i - Len(older)]
    BY <2>0, ConcatProperties
  <2>2. ASSUME NEW i \in 1..Len(older \o newer) PROVE (older \o newer)[i].id = a + i - 1
    <3>0. i \in 1..(Len(older) + Len(newer)) BY <2>1
    <3>1. CASE i <= Len(older)
      <4>1. i \in 1..Len(older) /\ (older \o newer)[i] = older[i] BY <3>0, <3>1, <2>1, <2>0, <1>1
      <4>2. QED BY <4>1, <2>0
    <3>2. CASE ~(i <= Len(older))
      <4>1. i - Len(older) \in 1..Len(newer) /\ (older \o newer)[i] = newer[i - Len(older)]
        BY <3>0, <3>2, <2>1, <2>0, <1>1
      <4>2. newer[i - Len(older)].id = b + (i - Len(older)) - 1 BY <4>1, <2>0
      <4>3. QED BY <4>1, <4>2, <2>0, <1>1
    <3>3. QED BY <3>1, <3>2
  <2>3. QED BY <1>1, <2>0, <2>1, <2>2 DEF Stretch
<1>6. QED BY <1>3, <1>4, <1>5

(* A stretch whose newest item lies in a newer stretch is connected to it;
   joined, they are one stretch, and the newer one's values win. *)
LEMMA Overlapping ==
    ASSUME NEW older, NEW newer, NEW a, NEW e, NEW b, NEW c,
           Stretch(older, a, e), Stretch(newer, b, c), a <= e, b <= e, e <= c,
           NEW k, k = IF b > a THEN a ELSE b
    PROVE  /\ Connected(older, newer)
           /\ Stretch(MergeConversation(older, newer), k, c)
           /\ \A i \in 1..Len(MergeConversation(older, newer)) :
                 MergeConversation(older, newer)[i] =
                   IF k + i - 1 >= b THEN newer[k + i - b] ELSE older[k + i - a]
<1>. DEFINE start == IF b > a THEN b - a + 1 ELSE 1
            there == a + start - b
            length == e - a + 1 - start + 1
<1>1. /\ a \in Nat \ {0} /\ b \in Nat \ {0} /\ c \in Nat /\ e \in Nat
      /\ older \in Seq(Item) /\ newer \in Seq(Item)
      /\ Len(older) = e - a + 1 /\ Len(newer) = c - b + 1
      /\ DOMAIN older = 1..Len(older) /\ DOMAIN newer = 1..Len(newer)
      /\ \A i \in 1..Len(older) : older[i].id = a + i - 1
      /\ \A i \in 1..Len(newer) : newer[i].id = b + i - 1
      /\ a <= e + 1 /\ b <= c + 1
  BY DEF Stretch
<1>a. Ids(newer) = b..c BY StretchIds
<1>2. start \in 1..Len(older) /\ there \in 1..Len(newer) /\ length \in 1..Len(newer)
      /\ start + length - 1 = Len(older) /\ there + length - 1 <= Len(newer)
      /\ (start = 1 \/ there = 1) /\ a + start - 1 = b + there - 1
  BY <1>1
<1>3. Shared(older, newer) = start..Len(older)
  <2>1. ASSUME NEW i \in 1..Len(older) PROVE (older[i].id \in Ids(newer)) <=> i >= start
    <3>1. older[i].id = a + i - 1 /\ i \in Nat /\ a + i - 1 <= e BY <2>1, <1>1
    <3>2. (a + i - 1 \in b..c) <=> a + i - 1 >= b BY <3>1, <1>1
    <3>3. (a + i - 1 >= b) <=> i >= start BY <3>1, <1>1, <2>1
    <3>4. QED BY <3>1, <3>2, <3>3, <1>a
  <2>2. Shared(older, newer) = {i \in 1..Len(older) : i >= start} BY <2>1, <1>1 DEF Shared
  <2>3. start \in 1..Len(older) /\ Len(older) \in Nat BY <1>1, <1>2
  <2>. HIDE DEF start
  <2>4. QED BY <2>2, <2>3
<1>. HIDE DEF start, there, length
<1>b. /\ start \in Nat /\ there \in Nat /\ length \in Nat /\ Len(older) \in Nat /\ Len(newer) \in Nat
      /\ start >= 1 /\ there >= 1 /\ length >= 1 /\ length <= Len(newer)
      /\ start + length - 1 = Len(older) /\ there + length - 1 <= Len(newer)
      /\ a + start - 1 = b + there - 1
  BY <1>1, <1>2
<1>4. Min(Shared(older, newer)) = start
  <2>1. start \in start..Len(older) /\ \A x \in start..Len(older) : start <= x BY <1>2
  <2>2. \A x \in start..Len(older) : (\A y \in start..Len(older) : x <= y) => x = start BY <1>2, <2>1
  <2>3. QED BY <2>1, <2>2, <1>3 DEF Min
<1>5. (CHOOSE j \in DOMAIN newer : newer[j].id = older[start].id) = there
  <2>1. newer[there].id = older[start].id BY <1>1, <1>2
  <2>2. \A j \in DOMAIN newer : newer[j].id = older[start].id => j = there BY <1>1, <1>2
  <2>3. QED BY <2>1, <2>2, <1>1, <1>2
<1>. DEFINE runs == {n \in 1..Len(newer) : /\ start + n - 1 <= Len(older) /\ there + n - 1 <= Len(newer)
                                        /\ \A m \in 0..(n - 1) : older[start + m].id = newer[there + m].id}
<1>6. runs = 1..length
  <2>1. ASSUME NEW n \in runs PROVE n \in 1..length
    <3>1. n \in 1..Len(newer) /\ start + n - 1 <= Len(older) BY <2>1
    <3>2. QED BY <3>1, <1>b
  <2>2. ASSUME NEW n \in 1..length PROVE n \in runs
    <3>1. n \in 1..Len(newer) /\ start + n - 1 <= Len(older) /\ there + n - 1 <= Len(newer)
      BY <1>b, <2>2
    <3>2. ASSUME NEW m \in 0..(n - 1) PROVE older[start + m].id = newer[there + m].id
      <4>1. start + m \in 1..Len(older) /\ there + m \in 1..Len(newer) BY <2>2, <3>1, <3>2, <1>b
      <4>2. older[start + m].id = a + (start + m) - 1 /\ newer[there + m].id = b + (there + m) - 1 BY <4>1, <1>1
      <4>3. m \in Nat BY <2>2, <3>2, <1>b
      <4>4. QED BY <4>2, <4>3, <1>1, <1>b
    <3>3. QED BY <3>1, <3>2
  <2>3. QED BY <2>1, <2>2
<1>7. Max(runs) = length
  <2>. HIDE DEF runs
  <2>1. length \in 1..length /\ \A x \in 1..length : length >= x BY <1>2
  <2>2. \A x \in 1..length : (\A y \in 1..length : x >= y) => x = length BY <1>2, <2>1
  <2>3. QED BY <2>1, <2>2, <1>6 DEF Max
<1>8. Overlap(older, newer) = [start |-> start, there |-> there, length |-> length]
  BY <1>4, <1>5, <1>7 DEF Overlap
<1>. HIDE DEF runs
<1>9. Connected(older, newer)
  <2>1. \A i \in Shared(older, newer) : i >= start /\ i < start + length BY <1>3, <1>b
  <2>2. start + length > Len(older) BY <1>b
  <2>3. Cardinality(Ids(older)) = Len(older) /\ Cardinality(Ids(newer)) = Len(newer) BY StretchIds
  <2>4. QED BY <2>1, <2>2, <2>3, <1>8, <1>2 DEF Connected
<1>10. MergeConversation(older, newer) = SubSeq(older, 1, start - 1) \o newer
  <2>1. Shared(older, newer) # {} BY <1>3, <1>2
  <2>2. SubSeq(older, start + length, Len(older)) = <<>>
    BY <1>1, <1>2, SubSeqEmpty
  <2>3. SubSeq(older, 1, start - 1) \o newer \in Seq(Item)
    BY <1>1, <1>2, SubSeqProperties, ConcatProperties
  <2>4. (SubSeq(older, 1, start - 1) \o newer) \o <<>> = SubSeq(older, 1, start - 1) \o newer
    BY <2>3, ConcatEmptySeq
  <2>5. MergeConversation(older, newer)
          = SubSeq(older, 1, start - 1) \o newer \o SubSeq(older, start + length, Len(older))
    <3>1. Overlap(older, newer).start = start /\ Overlap(older, newer).length = length BY <1>8
    <3>2. QED BY <2>1, <3>1 DEF MergeConversation
  <2>6. QED BY <2>2, <2>4, <2>5
<1>. DEFINE head == SubSeq(older, 1, start - 1)
<1>11. head \in Seq(Item) /\ Len(head) = start - 1 /\ \A i \in 1..(start - 1) : head[i] = older[i]
  BY <1>1, <1>2, SubSeqProperties
<1>12. Len(head) = b - k /\ k \in {a, b} /\ k <= a /\ k <= b
  BY <1>1, <1>11 DEF start
<1>13. head \o newer \in Seq(Item) /\ Len(head \o newer) = c - k + 1
       /\ \A i \in 1..Len(head \o newer) :
             (head \o newer)[i] = IF i <= Len(head) THEN head[i] ELSE newer[i - Len(head)]
  <2>1. /\ head \o newer \in Seq(Item) /\ Len(head \o newer) = Len(head) + Len(newer)
        /\ \A i \in 1..(Len(head) + Len(newer)) :
              (head \o newer)[i] = IF i <= Len(head) THEN head[i] ELSE newer[i - Len(head)]
    BY <1>1, <1>11, ConcatProperties
  <2>2. k \in Nat /\ Len(head) = b - k /\ Len(newer) = c - b + 1 BY <1>1, <1>12
  <2>. HIDE DEF head
  <2>3. Len(head) + Len(newer) = c - k + 1 BY <2>2, <1>1
  <2>4. QED BY <2>1, <2>3
<1>c. /\ k \in Nat /\ Len(head) \in Nat /\ Len(head) = b - k /\ Len(head) = start - 1
      /\ (start > 1 => k = a) /\ k <= a /\ k <= b /\ k >= 1
  <2>1. Len(head) = b - k /\ k \in {a, b} /\ k <= a /\ k <= b /\ Len(head) = start - 1 BY <1>12, <1>11
  <2>2. start > 1 => k = a BY <1>1 DEF start
  <2>. HIDE DEF head
  <2>3. QED BY <2>1, <2>2, <1>1
<1>. HIDE DEF head
<1>14. ASSUME NEW i \in 1..Len(head \o newer)
       PROVE  /\ (head \o newer)[i] = IF k + i - 1 >= b THEN newer[k + i - b] ELSE older[k + i - a]
              /\ (head \o newer)[i].id = k + i - 1
  <2>0. i \in Nat /\ i >= 1 /\ i <= c - k + 1 BY <1>13, <1>14, <1>1, <1>c
  <2>1. CASE i <= Len(head)
    <3>1. k = a /\ i \in 1..(start - 1) BY <2>0, <2>1, <1>b, <1>c
    <3>2. (head \o newer)[i] = older[i] BY <2>1, <3>1, <1>11, <1>13, <1>14
    <3>3. i \in 1..Len(older) /\ ~(k + i - 1 >= b) /\ k + i - a = i BY <3>1, <2>0, <2>1, <1>b, <1>c, <1>1
    <3>4. older[i].id = a + i - 1 BY <3>3, <1>1
    <3>5. QED BY <3>1, <3>2, <3>3, <3>4
  <2>2. CASE ~(i <= Len(head))
    <3>1. (head \o newer)[i] = newer[i - Len(head)] BY <2>2, <1>13, <1>14
    <3>2. i - Len(head) = k + i - b /\ i - Len(head) \in 1..Len(newer) /\ k + i - 1 >= b
      BY <2>0, <2>2, <1>c, <1>1
    <3>3. newer[i - Len(head)].id = b + (i - Len(head)) - 1 BY <3>2, <1>1
    <3>4. b + (i - Len(head)) - 1 = k + i - 1 BY <2>0, <1>c, <1>1
    <3>5. QED BY <3>1, <3>2, <3>3, <3>4
  <2>3. QED BY <2>1, <2>2
<1>15. Stretch(head \o newer, k, c)
  <2>1. k \in Nat \ {0} /\ k <= c + 1 BY <1>1, <1>12
  <2>2. QED BY <2>1, <1>1, <1>13, <1>14 DEF Stretch
<1>16. MergeConversation(older, newer) = head \o newer BY <1>10 DEF head
<1>17. QED BY <1>9, <1>12, <1>14, <1>15, <1>16
-----------------------------------------------------------------------------
(* The parts of the invariant. *)

Queued(q) == {q[i] : i \in 1..Len(q)}
InTask == globals.task # None /\ globals.task.phase \in {"warnings", "adopt"}

(* What a connection leaves behind is marked with it: a frame, a task's
   answer or a navigation of a former connection is told from one of the
   connection about to be published. *)
LinkInv ==
    /\ conn = 0 => globals.config = 0 /\ globals.warnings = 0 /\ globals.dirty
    /\ \A x \in Queued(inbox) : x.conn \in 1..dials
    /\ \A n \in navs : n.conn <= dials
    /\ InTask => globals.task.conn \in 1..dials
    /\ dialing.phase = "publish" =>
         /\ dials > 0 /\ (InTask => globals.task.conn < dials)
         /\ \A x \in Queued(inbox) : x.conn < dials
         /\ \A n \in navs : n.conn < dials

(* A conversation grows: items are appended and calls get their results. *)
Precedes(l, m) == Len(l) <= Len(m) /\ \A i \in 1..Len(l) : l[i] => m[i]

(* A range that ends with the newest item of l, and its cursor. *)
Shown(items, cursor, l) ==
    LET k == Len(l) - Len(items) + 1 IN
    /\ Stretch(items, k, Len(l))
    /\ \A i \in 1..Len(items) : l[items[i].id] => items[i].done
    /\ cursor = IF k > 1 THEN k ELSE 0
(* No item is shown as answered that is not. *)
Sound(items, l) == \A i \in 1..Len(items) : items[i].id \in 1..Len(l) /\ (items[i].done => l[items[i].id])

(* A view is of the conversation's past, or of its present at its revision. *)
Fits(v, l, d) == /\ Precedes(v.log, l) /\ v.pair.durable <= d
                 /\ v.pair.durable = d => v.log = l

NextOf(r) == IF r.chain.phase \in {"warnings", "walk", "adopt"} THEN r.chain.next ELSE None

(* What a reader shows, what its read is about to show, and what its walk
   still has to meet. *)
Walks(r, l) ==
    r.chain.phase = "walk" =>
        /\ Shown(r.chain.segment, r.chain.cursor, r.chain.next.log) /\ Sound(r.chain.segment, l)
        /\ r.chain.missing = Missing(r.items) \ Ids(r.chain.segment) /\ r.chain.missing # {}
Adopts(r, l) ==
    r.chain.phase = "adopt" /\ r.chain.err = "none" =>
        /\ Sound(r.chain.items, l) /\ r.chain.floor # None
        /\ r.chain.next # None => Shown(r.chain.items, r.chain.cursor, r.chain.next.log)
        /\ r.chain.next = None =>
              r.hydration # None /\ Shown(r.chain.items, r.chain.cursor, r.hydration.log)
Holds(r, l, d) ==
    /\ r.hydration # None => /\ Fits(r.hydration, l, d) /\ Shown(r.items, r.cursor, r.hydration.log)
                             /\ Sound(r.items, l)
    /\ r.hydration = None => r.items = <<>> /\ r.cursor = 0
Fetched(r, l, d) ==
    /\ NextOf(r) # None =>
          Fits(NextOf(r), l, d) /\ (r.hydration # None => Precedes(r.hydration.log, NextOf(r).log))
    /\ r.chain.phase = "page" => r.cursor # 0
ViewOf(r, l, d) == Holds(r, l, d) /\ Fetched(r, l, d) /\ Walks(r, l) /\ Adopts(r, l)
ViewInv == root # None => ViewOf(root, log[rootID], durable[rootID])

(* On a standing connection all pairs of a Session that the client or a
   frame carries are of this process's past, hence in one order. *)
Standing == sub.open /\ (conn # 0 \/ dialing.phase = "publish")
Arrived == {x.event : x \in {y \in Queued(inbox) : y.conn = conn}}
Carried == Queued(sub.queue) \cup Arrived
FloorOf(r) == IF r.chain.phase \in {"walk", "adopt"} THEN r.chain.floor ELSE None
KnownOf(r) == {v.pair : v \in {r.hydration, NextOf(r)} \ {None}} \cup ({r.floor, FloorOf(r)} \ {None})
Known == IF root = None THEN {} ELSE KnownOf(root)
SeenOf(s) == {e.pair : e \in {x \in Carried : x.kind = "session_changed" /\ x.of = s}}
             \cup (IF s = rootID THEN Known ELSE {})
OrderInv ==
    Standing =>
      \A s \in Session : \A p \in SeenOf(s) :
          AtLeast(Pair(s), p) /\ \A q \in SeenOf(s) : AtLeast(p, q) \/ AtLeast(q, p)
BreachInv == Standing /\ root # None /\ root.chain.phase = "adopt" => root.chain.err # "continuity"

(* No clock the client holds is ahead of the Runtime it is connected to:
   c and w are the Runtime's configuration and warning clocks, k is the
   connection. *)
Below(v, c, w) == v.config <= c /\ v.warnings <= w
GlobalsBelow(g, k, c, w) ==
    /\ g.config <= c /\ g.warnings <= w
    /\ g.task # None /\ g.task.phase \in {"warnings", "adopt"} /\ g.task.conn = k =>
         /\ g.task.config <= c
         /\ g.task.phase = "adopt" => g.task.warnings <= w
Clocked(r, c, w) ==
    /\ r.hydration # None => Below(r.hydration, c, w)
    /\ NextOf(r) # None => Below(NextOf(r), c, w)
    /\ r.chain.phase = "session" => r.chain.config <= c
    /\ r.chain.phase \in {"session", "warnings"} => Below(r.chain.floors, c, w)
ClockInv ==
    Standing => /\ GlobalsBelow(globals, conn, config, warnings)
                /\ root # None => Clocked(root, config, warnings)

(* A superseded chain has a navigation ahead that replaces or resumes it. *)
Resumes(n) == n.kind = "adopt" /\ n.sel = selection /\ n.conn = conn
SelInv == root # None /\ root.chain # NoChain /\ root.chain.sel # selection => \E n \in navs : Resumes(n)

(* While nothing was reported, whatever the client shows that is not what
   the Runtime holds will be read again: it is marked, its read is under
   way, or a frame announces it. *)
Watch == conn # 0 /\ sub.open /\ ~reported
Announced(kind, clock) == \E e \in Carried : e.kind = kind /\ e.at = clock
GlobalsOwed ==
    Watch =>
      /\ globals.dirty => globals.task # None
      /\ \/ globals.config = config \/ globals.dirty \/ Announced("configuration_changed", config)
         \/ (InTask /\ (globals.task.conn # conn \/ globals.task.config \in {0, config}))
      /\ \/ globals.warnings = warnings \/ globals.dirty \/ Announced("warning_changed", warnings)
         \/ (InTask /\ (globals.task.conn # conn \/ globals.task.phase = "warnings"
                          \/ globals.task.warnings \in {0, warnings}))
DirtyRuns == Watch /\ root # None /\ root.dirty => root.chain # NoChain
PairOwed ==
    Watch /\ root # None =>
      \/ root.hydration # None /\ root.hydration.pair = Pair(rootID)
      \/ root.dirty \/ owed[rootID] > 0 \/ root.chain.phase = "session"
      \/ NextOf(root) # None /\ NextOf(root).pair = Pair(rootID)
      \/ \E e \in Carried : e.kind = "session_changed" /\ e.of = rootID /\ e.pair = Pair(rootID)
ConfigOwed ==
    Watch /\ root # None =>
      \/ root.hydration # None /\ root.hydration.config = config
      \/ root.dirty \/ Announced("configuration_changed", config)
      \/ root.chain.phase = "session" /\ root.chain.config = config
      \/ NextOf(root) # None /\ NextOf(root).config = config
WarningsOwed ==
    Watch /\ root # None =>
      \/ root.hydration # None /\ root.hydration.warnings = warnings
      \/ root.dirty \/ Announced("warning_changed", warnings)
      \/ root.chain.phase \in {"session", "warnings"}
      \/ NextOf(root) # None /\ NextOf(root).warnings = warnings

ReaderInv == /\ TypeOK /\ LinkInv /\ ViewInv /\ OrderInv /\ BreachInv /\ ClockInv /\ SelInv
             /\ GlobalsOwed /\ DirtyRuns /\ PairOwed /\ ConfigOwed /\ WarningsOwed
-----------------------------------------------------------------------------
(* What a reader may be touched by: a mark, a wish, a chain begun or ended. *)
Touched(r, q) ==
    /\ q.id = r.id /\ q.hydration = r.hydration /\ q.items = r.items
    /\ q.cursor = r.cursor /\ q.floor = r.floor
    /\ q.chain = r.chain \/ q.chain.phase \in {"none", "head"}

(* The kinds of a chain at each phase. *)
LEMMA ChainKinds ==
    ASSUME NEW c \in Chains
    PROVE  /\ c.phase \in {"none", "head", "page", "session", "warnings", "walk", "adopt"}
           /\ (c.phase = "none") <=> (c = NoChain)
           /\ c.phase # "none" => c.sel \in Nat
           /\ c.phase = "session" => c.config \in Nat /\ c.floors \in Floors
           /\ c.phase = "warnings" => c.floors \in Floors /\ c.next \in Views
           /\ c.phase = "walk" => c.next \in Views /\ c.segment \in Seq(Item) /\ c.cursor \in Nat
                                  /\ c.floor \in Pairs /\ c.missing \subseteq Nat
           /\ c.phase = "adopt" => c.next \in Views \cup {None} /\ c.items \in Seq(Item) /\ c.cursor \in Nat
                                   /\ c.floor \in Pairs \cup {None} /\ c.err \in Errs
BY DEF Chains, NoChain

(* What a chain carries, when it carries it. *)
LEMMA NextKinds ==
    ASSUME NEW r \in Readers
    PROVE  /\ NextOf(r) \in Views \cup {None} /\ FloorOf(r) \in Pairs \cup {None}
           /\ r.chain.phase \in {"warnings", "walk"} => NextOf(r) \in Views
<1>1. r.chain \in Chains BY DEF Readers
<1>2. QED BY <1>1, ChainKinds DEF NextOf, FloorOf

(* None is no reader, view, pair or task. *)
LEMMA NilIs == None \notin Readers /\ None \notin Views /\ None \notin Pairs /\ None \notin Tasks
BY NilAssumption

(* Starting a chain, resuming one and marking touch a reader. *)
LEMMA Kicked ==
    ASSUME NEW r \in Readers, NEW sel \in Nat
    PROVE  /\ Kick(r, sel) \in Readers /\ Touched(r, Kick(r, sel))
           /\ Kick(r, sel).dirty = r.dirty
           /\ r.dirty => Kick(r, sel).chain # NoChain
           /\ Kick(r, sel).chain = r.chain \/ (r.chain = NoChain /\ Kick(r, sel).chain = Chain(sel))
<1>1. Chain(sel) \in Chains /\ Chain(sel) # NoChain /\ Chain(sel).phase = "head" BY DEF Chain, Chains, NoChain
<1>2. r # None BY NilIs
<1>3. CASE r.chain = NoChain /\ (r.dirty \/ r.older)
  <2>1. Kick(r, sel) = [r EXCEPT !.chain = Chain(sel)] BY <1>2, <1>3 DEF Kick
  <2>2. QED BY <1>1, <1>3, <2>1 DEF Readers, Touched
<1>4. CASE ~(r.chain = NoChain /\ (r.dirty \/ r.older))
  <2>1. Kick(r, sel) = r BY <1>2, <1>4 DEF Kick
  <2>2. QED BY <1>4, <2>1 DEF Touched, Readers
<1>5. QED BY <1>3, <1>4

(* A resumed reader is marked and starts anew for the selection. *)
LEMMA Resumed ==
    ASSUME NEW r \in Readers, NEW sel \in Nat
    PROVE  /\ Resume(r, sel) \in Readers /\ Touched(r, Resume(r, sel))
           /\ Resume(r, sel).dirty /\ Resume(r, sel).chain = Chain(sel)
<1>. DEFINE q == [r EXCEPT !.chain = NoChain, !.dirty = TRUE]
<1>1. NoChain \in Chains /\ Chain(sel) \in Chains /\ Chain(sel).phase = "head"
  BY DEF Chain, Chains, NoChain
<1>2. q \in Readers /\ q.dirty /\ q.chain = NoChain /\ q.id = r.id /\ q.hydration = r.hydration
      /\ q.items = r.items /\ q.cursor = r.cursor /\ q.floor = r.floor
  BY <1>1 DEF Readers
<1>3. Resume(r, sel) = Kick(q, sel) BY NilIs DEF Resume
<1>. HIDE DEF q
<1>4. Kick(q, sel) = [q EXCEPT !.chain = Chain(sel)] BY <1>2, NilIs DEF Kick
<1>5. QED BY <1>1, <1>2, <1>3, <1>4 DEF Readers, Touched

(* Marking a reader changes nothing else. *)
LEMMA DirtiedIs ==
    ASSUME NEW r \in Readers
    PROVE  Dirtied(r) \in Readers /\ Touched(r, Dirtied(r)) /\ Dirtied(r).dirty /\ Dirtied(r).chain = r.chain
BY DEF Dirtied, Readers, Touched

(* A new reader has shown nothing and reads at once. *)
LEMMA Fresh ==
    ASSUME NEW s \in Session, NEW sel \in Nat
    PROVE  LET q == Kick(NewReader(s), sel) IN
           /\ q \in Readers /\ q.id = s /\ q.hydration = None /\ q.items = <<>> /\ q.cursor = 0
           /\ q.floor = None /\ q.dirty /\ q.chain = Chain(sel)
<1>1. NoChain \in Chains /\ Chain(sel) \in Chains BY DEF Chain, Chains, NoChain
<1>2. <<>> \in Seq(Item) OBVIOUS
<1>3. NewReader(s) \in Readers BY <1>1, <1>2 DEF NewReader, Readers
<1>. DEFINE n == NewReader(s)
<1>4. /\ n \in Readers /\ n.id = s /\ n.hydration = None /\ n.items = <<>> /\ n.cursor = 0
      /\ n.floor = None /\ n.dirty /\ n.chain = NoChain
  BY <1>3 DEF NewReader
<1>. HIDE DEF n
<1>5. Kick(n, sel) = [n EXCEPT !.chain = Chain(sel)] BY <1>4, NilIs DEF Kick
<1>6. Kick(n, sel) \in Readers /\ Kick(n, sel).chain = Chain(sel) BY <1>1, <1>4, <1>5 DEF Readers
<1>7. QED BY <1>4, <1>5, <1>6 DEF n, Readers
-----------------------------------------------------------------------------
(* A conversation that grew keeps what was true of its past. *)
LEMMA PrecedesIs ==
    ASSUME NEW l \in Seq(BOOLEAN), NEW m \in Seq(BOOLEAN), NEW n \in Seq(BOOLEAN)
    PROVE  Precedes(l, l) /\ (Precedes(l, m) /\ Precedes(m, n) => Precedes(l, n))
BY DEF Precedes

(* What is shown as answered stays answered. *)
LEMMA SoundGrows ==
    ASSUME NEW items \in Seq(Item), NEW l \in Seq(BOOLEAN), NEW m \in Seq(BOOLEAN),
           Sound(items, l), Precedes(l, m)
    PROVE  Sound(items, m)
BY DEF Sound, Precedes

(* A view of the past stays one as the conversation grows under new
   revisions. *)
LEMMA FitsGrows ==
    ASSUME NEW v \in Views, NEW l \in Seq(BOOLEAN), NEW m \in Seq(BOOLEAN), NEW d \in Nat, NEW e \in Nat,
           Fits(v, l, d), Precedes(l, m), d <= e, d = e => l = m
    PROVE  Fits(v, m, e)
<1>1. v.log \in Seq(BOOLEAN) /\ v.pair.durable \in Nat BY DEF Views, Pairs
<1>2. QED BY <1>1, PrecedesIs DEF Fits

(* So does all that a reader shows and carries. *)
LEMMA ViewGrows ==
    ASSUME NEW r \in Readers, NEW l \in Seq(BOOLEAN), NEW m \in Seq(BOOLEAN), NEW d \in Nat, NEW e \in Nat,
           ViewOf(r, l, d), Precedes(l, m), d <= e, d = e => l = m
    PROVE  ViewOf(r, m, e)
<1>1. r.chain \in Chains /\ r.items \in Seq(Item) /\ r.hydration \in Views \cup {None} BY DEF Readers
<1>2. NextOf(r) \in Views \cup {None} BY NextKinds
<1>3. Holds(r, m, e) BY <1>1, FitsGrows, SoundGrows DEF ViewOf, Holds
<1>4. Fetched(r, m, e) BY <1>2, FitsGrows DEF ViewOf, Fetched
<1>5. Walks(r, m) BY <1>1, ChainKinds, SoundGrows DEF ViewOf, Walks
<1>6. Adopts(r, m) BY <1>1, ChainKinds, SoundGrows DEF ViewOf, Adopts
<1>7. QED BY <1>3, <1>4, <1>5, <1>6 DEF ViewOf

(* A reader that is marked, started or resumed shows what it showed. *)
LEMMA ViewTouched ==
    ASSUME NEW r, NEW q, NEW l, NEW d, ViewOf(r, l, d), Touched(r, q)
    PROVE  ViewOf(q, l, d)
BY DEF ViewOf, Holds, Fetched, Walks, Adopts, NextOf, Touched

(* A new reader shows nothing. *)
LEMMA ViewFresh ==
    ASSUME NEW q, NEW l, NEW d, q.hydration = None, q.items = <<>>, q.cursor = 0, q.chain.phase = "head"
    PROVE  ViewOf(q, l, d)
BY DEF ViewOf, Holds, Fetched, Walks, Adopts, NextOf

(* A page of a view, read from what the conversation is now. *)
LEMMA PageShows ==
    ASSUME NEW l \in Seq(BOOLEAN), NEW m \in Seq(BOOLEAN), Precedes(l, m)
    PROVE  LET page == PageBefore(l, Len(l)) IN
           page.items \in Seq(Item) /\ page.cursor \in Nat /\ Shown(page.items, page.cursor, l) /\ Sound(page.items, m)
<1>1. Len(l) \in 0..Len(l) BY LenProperties
<1>2. PICK a \in Nat \ {0} :
        /\ Stretch(PageBefore(l, Len(l)).items, a, Len(l))
        /\ PageBefore(l, Len(l)).cursor = (IF a > 1 THEN a ELSE 0)
        /\ \A i \in 1..Len(PageBefore(l, Len(l)).items) :
              PageBefore(l, Len(l)).items[i].done = l[PageBefore(l, Len(l)).items[i].id]
  BY <1>1, PageIs
<1>. DEFINE p == PageBefore(l, Len(l))
<1>. HIDE DEF p
<1>3. /\ p.items \in Seq(Item) /\ Len(l) \in Nat /\ Len(m) \in Nat /\ Len(p.items) = Len(l) - a + 1 /\ a <= Len(l) + 1
      /\ \A i \in 1..Len(p.items) : p.items[i].id = a + i - 1 /\ p.items[i].done = l[p.items[i].id]
      /\ Stretch(p.items, a, Len(l))
  BY <1>2 DEF p, Stretch
<1>4. a = Len(l) - Len(p.items) + 1 BY <1>3
<1>5. Shown(p.items, p.cursor, l) BY <1>2, <1>3, <1>4 DEF Shown, p
<1>6. Sound(p.items, m)
  <2>1. ASSUME NEW i \in 1..Len(p.items)
        PROVE  p.items[i].id \in 1..Len(l) /\ p.items[i].done = l[p.items[i].id]
    <3>1. p.items[i].id = a + i - 1 /\ p.items[i].done = l[p.items[i].id] BY <1>3
    <3>2. Len(p.items) = Len(l) - a + 1 /\ Len(l) \in Nat BY <1>3
    <3>. DEFINE c == Len(p.items)
                b == Len(l)
    <3>3. i \in 1..c /\ c = b - a + 1 /\ b \in Nat /\ a \in Nat \ {0} BY <3>2
    <3>. HIDE DEF c, b
    <3>4. a + i - 1 \in 1..b BY <3>3
    <3>. USE DEF b
    <3>5. QED BY <3>1, <3>4
  <2>2. QED BY <2>1, <1>3 DEF Sound, Precedes
<1>7. QED BY <1>2, <1>3, <1>5, <1>6 DEF p

(* An older page, read before the item the cursor names, joins the range. *)
LEMMA OlderJoins ==
    ASSUME NEW items \in Seq(Item), NEW cursor \in Nat \ {0}, NEW l \in Seq(BOOLEAN), NEW m \in Seq(BOOLEAN),
           Precedes(l, m), Shown(items, cursor, l), Sound(items, m)
    PROVE  LET page == PageBefore(m, cursor - 1)
               both == MergeConversation(page.items, items) IN
           /\ Connected(page.items, items) /\ both \in Seq(Item) /\ page.cursor \in Nat
           /\ Shown(both, page.cursor, l) /\ Sound(both, m)
           /\ Ids(both) = Ids(page.items) \cup Ids(items)
<1>. DEFINE k == Len(l) - Len(items) + 1
<1>1. /\ Stretch(items, k, Len(l)) /\ cursor = k /\ k > 1 /\ k \in Nat /\ Len(l) \in Nat /\ Len(m) \in Nat
      /\ Len(items) \in Nat /\ k <= Len(l) + 1 /\ Len(l) <= Len(m)
      /\ \A i \in 1..Len(items) : l[items[i].id] => items[i].done
  <2>1. Len(l) \in Nat /\ Len(m) \in Nat /\ Len(items) \in Nat BY LenProperties
  <2>2. Stretch(items, k, Len(l)) /\ cursor = (IF k > 1 THEN k ELSE 0)
        /\ \A i \in 1..Len(items) : l[items[i].id] => items[i].done
    BY DEF Shown
  <2>3. QED BY <2>1, <2>2 DEF Stretch, Precedes
<1>. HIDE DEF k
<1>2. cursor - 1 \in 0..Len(m) BY <1>1
<1>. DEFINE p == PageBefore(m, cursor - 1)
<1>3. PICK a \in Nat \ {0} : /\ Stretch(p.items, a, cursor - 1) /\ p.cursor = (IF a > 1 THEN a ELSE 0)
                             /\ \A i \in 1..Len(p.items) : p.items[i].done = m[p.items[i].id]
  BY <1>2, PageIs
<1>. HIDE DEF p
<1>. DEFINE both == p.items \o items
<1>4. /\ Connected(p.items, items) /\ MergeConversation(p.items, items) = both /\ Stretch(both, a, Len(l))
  BY <1>1, <1>3, SideBySide
<1>5. /\ p.items \in Seq(Item) /\ Len(p.items) \in Nat /\ Len(p.items) = cursor - a
      /\ \A i \in 1..Len(p.items) : p.items[i].id = a + i - 1
  BY <1>1, <1>3 DEF Stretch
<1>6. /\ both \in Seq(Item) /\ Len(both) = Len(p.items) + Len(items)
      /\ \A i \in 1..(Len(p.items) + Len(items)) :
             both[i] = IF i <= Len(p.items) THEN p.items[i] ELSE items[i - Len(p.items)]
  BY <1>5, ConcatProperties
<1>7. a = Len(l) - Len(both) + 1
  BY <1>1, <1>4, <1>6 DEF Stretch
<1>. HIDE DEF both
<1>8. ASSUME NEW i \in 1..Len(both)
      PROVE  /\ l[both[i].id] /\ both[i].id <= Len(l) => both[i].done
             /\ both[i].id \in 1..Len(m) /\ (both[i].done => m[both[i].id])
  <2>1. CASE i <= Len(p.items)
    <3>1. both[i] = p.items[i] /\ i \in 1..Len(p.items) BY <2>1, <1>6, <1>5, <1>1
    <3>2. both[i].id = a + i - 1 /\ both[i].done = m[both[i].id] BY <3>1, <1>3, <1>5
    <3>3. both[i].id \in 1..Len(l) BY <3>1, <3>2, <1>5, <1>1
    <3>4. QED BY <3>2, <3>3, <1>1 DEF Precedes
  <2>2. CASE ~(i <= Len(p.items))
    <3>1. both[i] = items[i - Len(p.items)] /\ i - Len(p.items) \in 1..Len(items) BY <2>2, <1>6, <1>5, <1>1
    <3>2. QED BY <3>1, <1>1 DEF Sound
  <2>3. QED BY <2>1, <2>2
<1>9. Shown(both, p.cursor, l)
  <2>1. \A i \in 1..Len(both) : both[i].id <= Len(l)
    BY <1>4, <1>1 DEF Stretch
  <2>2. QED BY <2>1, <1>3, <1>4, <1>7, <1>8 DEF Shown
<1>10. Sound(both, m) BY <1>8 DEF Sound
<1>11. Ids(both) = Ids(p.items) \cup Ids(items)
  <2>1. Ids(both) = a..Len(l) /\ Ids(p.items) = a..(cursor - 1) /\ Ids(items) = k..Len(l) BY <1>1, <1>3, <1>4, StretchIds
  <2>2. a <= cursor BY <1>3, <1>1 DEF Stretch
  <2>3. QED BY <2>1, <2>2, <1>1
<1>12. p.cursor \in Nat BY <1>3
<1>13. /\ Connected(p.items, items) /\ MergeConversation(p.items, items) \in Seq(Item)
       /\ Shown(MergeConversation(p.items, items), p.cursor, l) /\ Sound(MergeConversation(p.items, items), m)
       /\ Ids(MergeConversation(p.items, items)) = Ids(p.items) \cup Ids(items)
  BY <1>4, <1>6, <1>9, <1>10, <1>11
<1>14. QED BY <1>12, <1>13 DEF p
(* What a bridge has to meet: the newest item and the unsettled ones. *)
LEMMA MissingIs ==
    ASSUME NEW items \in Seq(Item)
    PROVE  /\ Missing(items) \subseteq Ids(items)
           /\ items # <<>> => items[Len(items)].id \in Missing(items)
           /\ \A i \in 1..Len(items) : ~items[i].done => items[i].id \in Missing(items)
<1>1. CASE items = <<>> BY <1>1 DEF Missing
<1>2. CASE items # <<>>
  <2>1. Len(items) \in 1..Len(items) /\ DOMAIN items = 1..Len(items) BY <1>2
  <2>2. Missing(items) = {items[Len(items)].id} \cup {c.id : c \in {items[i] : i \in {j \in DOMAIN items : ~items[j].done}}}
    BY <1>2 DEF Missing
  <2>3. QED BY <2>1, <2>2 DEF Ids
<1>3. QED BY <1>1, <1>2

(* The end of a walk: a range that met the newest cached item and every
   unsettled one is joined to the cache without a gap, and shows no call as
   running that had its result. *)
LEMMA BridgeJoins ==
    ASSUME NEW r \in Readers, NEW l \in Seq(BOOLEAN), NEW d \in Nat, Holds(r, l, d),
           NEW next \in Views, r.hydration # None => Precedes(r.hydration.log, next.log),
           NEW segment \in Seq(Item), NEW cursor \in Nat,
           Shown(segment, cursor, next.log), Sound(segment, l),
           Missing(r.items) \subseteq Ids(segment)
    PROVE  LET merged == MergeConversation(r.items, segment)
               edge   == IF r.items # <<>> /\ merged[1].id = r.items[1].id THEN r.cursor ELSE cursor IN
           /\ Connected(r.items, segment) /\ merged \in Seq(Item) /\ edge \in Nat
           /\ Shown(merged, edge, next.log) /\ Sound(merged, l)
<1>. DEFINE n == Len(next.log)
            b == n - Len(segment) + 1
<1>1. /\ next.log \in Seq(BOOLEAN) /\ n \in Nat /\ r.items \in Seq(Item) /\ r.cursor \in Nat
      /\ r.hydration \in Views \cup {None}
  BY LenProperties DEF Views, Readers
<1>2. /\ Stretch(segment, b, n) /\ cursor = (IF b > 1 THEN b ELSE 0) /\ b \in Nat \ {0} /\ b <= n + 1
      /\ Len(segment) = n - b + 1
      /\ \A i \in 1..Len(segment) : segment[i].id = b + i - 1 /\ (next.log[segment[i].id] => segment[i].done)
  BY DEF Shown, Stretch
<1>. HIDE DEF n, b
<1>3. CASE r.items = <<>>
  <2>1. Stretch(<<>>, b, b - 1) BY <1>2 DEF Stretch
  <2>2. Connected(r.items, segment) /\ MergeConversation(r.items, segment) = <<>> \o segment
    BY <2>1, <1>2, <1>3, SideBySide
  <2>3. <<>> \o segment = segment BY ConcatEmptySeq
  <2>4. QED BY <2>2, <2>3, <1>3
<1>4. CASE r.items # <<>>
  <2>. DEFINE h == r.hydration.log
              e == Len(h)
              a == e - Len(r.items) + 1
  <2>1. /\ r.hydration # None /\ r.hydration \in Views
        /\ Shown(r.items, r.cursor, h) /\ Sound(r.items, l) /\ Precedes(h, next.log)
    BY <1>1, <1>4 DEF Holds
  <2>2. h \in Seq(BOOLEAN) /\ e \in Nat /\ e <= n
    BY <2>1, LenProperties DEF Views, Precedes, n
  <2>3. /\ Stretch(r.items, a, e) /\ r.cursor = (IF a > 1 THEN a ELSE 0) /\ a \in Nat \ {0}
        /\ Len(r.items) = e - a + 1 /\ \A i \in 1..Len(r.items) : r.items[i].id = a + i - 1
    BY <2>1 DEF Shown, Stretch
  <2>. HIDE DEF h, e, a
  <2>4. Len(r.items) \in 1..Len(r.items) /\ Len(r.items) \in Nat BY <1>1, <1>4
  <2>5. a <= e BY <2>4, <2>3, <2>2
  <2>6. r.items[Len(r.items)].id = e
    <3>1. r.items[Len(r.items)].id = a + Len(r.items) - 1 BY <2>3, <2>4
    <3>2. QED BY <3>1, <2>2, <2>3
  <2>7. Ids(segment) = b..n BY <1>2, StretchIds
  <2>8. b <= e BY <2>6, <2>7, <1>1, <1>4, MissingIs
  <2>. DEFINE merged == MergeConversation(r.items, segment)
  <2>a. Stretch(r.items, a, e) /\ Stretch(segment, b, n) /\ a <= e /\ b <= e /\ e <= n
    BY <1>2, <2>2, <2>3, <2>5, <2>8
  <2>. DEFINE k == IF b > a THEN a ELSE b
  <2>9. Connected(r.items, segment) BY <2>a, Overlapping
  <2>10. /\ Stretch(merged, k, n)
         /\ \A i \in 1..Len(merged) :
               merged[i] = IF k + i - 1 >= b THEN segment[k + i - b] ELSE r.items[k + i - a]
    BY <2>a, Overlapping
  <2>b. k \in {a, b} /\ k <= a /\ k <= b BY <1>2, <2>3
  <2>. HIDE DEF k
  <2>. HIDE DEF merged
  <2>11. /\ merged \in Seq(Item) /\ Len(merged) = n - k + 1 /\ k \in Nat \ {0} /\ k = n - Len(merged) + 1
         /\ \A i \in 1..Len(merged) : merged[i].id = k + i - 1
    BY <2>10, <1>1, <1>2 DEF Stretch
  <2>12. ASSUME NEW i \in 1..Len(merged)
         PROVE  /\ next.log[merged[i].id] => merged[i].done
                /\ merged[i].id \in 1..Len(l) /\ (merged[i].done => l[merged[i].id])
    <3>1. i \in Nat /\ i >= 1 /\ i <= n - k + 1 BY <2>11, <1>1
    <3>2. CASE k + i - 1 >= b
      <4>1. merged[i] = segment[k + i - b] /\ k + i - b \in 1..Len(segment)
        BY <3>1, <3>2, <2>10, <2>11, <1>1, <1>2
      <4>2. QED BY <4>1, <1>2 DEF Sound
    <3>3. CASE ~(k + i - 1 >= b)
      <4>1. k = a /\ k < b BY <3>1, <3>3, <2>b, <2>11, <1>2, <2>3
      <4>2. merged[i] = r.items[i] /\ i \in 1..Len(r.items)
        <5>1. k + i - a = i BY <4>1, <3>1, <2>11, <2>3
        <5>2. merged[i] = r.items[k + i - a] BY <3>3, <2>10, <2>12
        <5>3. i <= e - a + 1
          <6>1. a + i - 1 < b BY <4>1, <3>1, <3>3, <2>3, <1>2
          <6>2. a + i - 1 < e BY <6>1, <3>1, <2>8, <2>3, <2>2, <1>2
          <6>3. a \in Nat /\ e \in Nat /\ i \in Nat BY <3>1, <2>3, <2>2
          <6>4. QED BY <6>2, <6>3
        <5>4. i \in 1..Len(r.items)
          <6>1. Len(r.items) = e - a + 1 /\ e \in Nat /\ a \in Nat BY <2>2, <2>3
          <6>2. QED BY <6>1, <5>3, <3>1
        <5>5. QED BY <5>1, <5>2, <5>4
      <4>3. merged[i].id \notin Ids(segment) BY <3>1, <3>3, <2>7, <2>11, <1>1, <1>2
      <4>4. merged[i].done BY <4>2, <4>3, <1>1, MissingIs
      <4>5. QED BY <4>2, <4>4, <2>1 DEF Sound
    <3>4. QED BY <3>2, <3>3
  <2>. DEFINE edge == IF r.items # <<>> /\ merged[1].id = r.items[1].id THEN r.cursor ELSE cursor
  <2>13. edge = (IF k > 1 THEN k ELSE 0)
    <3>1. Len(merged) >= 1 BY <2>2, <2>5, <2>8, <2>b, <2>11, <2>3, <1>1, <1>2
    <3>2. 1 \in 1..Len(merged) /\ 1 \in 1..Len(r.items) BY <3>1, <2>4, <2>11, <1>1
    <3>3. merged[1].id = k /\ r.items[1].id = a
      <4>1. merged[1].id = k + 1 - 1 /\ r.items[1].id = a + 1 - 1 BY <3>2, <2>3, <2>11
      <4>2. QED BY <4>1, <2>3, <2>11
    <3>4. QED BY <3>3, <1>4, <2>b, <2>3, <1>2
  <2>. HIDE DEF edge
  <2>14. Shown(merged, edge, next.log) BY <2>10, <2>11, <2>12, <2>13 DEF Shown, n
  <2>15. Sound(merged, l) BY <2>12 DEF Sound
  <2>16. edge \in Nat BY <2>13, <2>11
  <2>17. QED BY <2>9, <2>11, <2>14, <2>15, <2>16 DEF merged, edge
<1>5. QED BY <1>3, <1>4
-----------------------------------------------------------------------------
(* The chain's results. *)
LEMMA WithChain ==
    ASSUME NEW r \in Readers, NEW c \in Chains
    PROVE  LET q == [r EXCEPT !.chain = c] IN
           /\ q \in Readers /\ q.chain = c /\ q.id = r.id /\ q.hydration = r.hydration /\ q.items = r.items
           /\ q.cursor = r.cursor /\ q.floor = r.floor /\ q.dirty = r.dirty /\ q.older = r.older
BY DEF Readers

(* The fields of a result. *)
LEMMA AdoptingIs ==
    ASSUME NEW next \in Views \cup {None}, NEW items \in Seq(Item), NEW cursor \in Nat,
           NEW floor \in Pairs \cup {None}, NEW err \in Errs, selection \in Nat
    PROVE  LET c == Adopting(next, items, cursor, floor, err) IN
           /\ c \in Chains /\ c.phase = "adopt" /\ c.sel = selection /\ c.next = next /\ c.items = items
           /\ c.cursor = cursor /\ c.floor = floor /\ c.err = err
BY DEF Adopting, Chains

(* A refused result shows nothing. *)
LEMMA RejectedIs ==
    ASSUME NEW r \in Readers, NEW l, NEW d, Holds(r, l, d), selection \in Nat,
           NEW next \in Views \cup {None}, NEW err \in {"stale", "continuity"},
           next # None => Fits(next, l, d) /\ (r.hydration # None => Precedes(r.hydration.log, next.log))
    PROVE  LET c == Rejected(next, err) IN
           /\ c \in Chains /\ c.phase = "adopt" /\ c.sel = selection /\ c.next = next /\ c.floor = None
           /\ c.err = err /\ ViewOf([r EXCEPT !.chain = c], l, d)
<1>. DEFINE c == Rejected(next, err)
            q == [r EXCEPT !.chain = c]
<1>1. <<>> \in Seq(Item) /\ err \in Errs BY DEF Errs
<1>2. /\ c \in Chains /\ c.phase = "adopt" /\ c.sel = selection /\ c.next = next /\ c.floor = None /\ c.err = err
  <2>1. c = Adopting(next, <<>>, 0, None, err) BY DEF Rejected
  <2>. HIDE DEF c
  <2>2. None \in Pairs \cup {None} /\ 0 \in Nat OBVIOUS
  <2>3. Adopting(next, <<>>, 0, None, err) \in Chains BY <2>2, <1>1, AdoptingIs
  <2>4. QED BY <2>1, <2>3 DEF Adopting
<1>. HIDE DEF c
<1>3. q.chain = c /\ q.hydration = r.hydration /\ q.items = r.items /\ q.cursor = r.cursor BY <1>2, WithChain
<1>. HIDE DEF q
<1>4. ViewOf(q, l, d) BY <1>2, <1>3 DEF ViewOf, Holds, Fetched, Walks, Adopts, NextOf
<1>5. QED BY <1>2, <1>4 DEF c, q

(* A hydration's read goes on walking or has its range. *)
BridgesTo(c, next, floor, l, d) ==
    /\ c \in Chains /\ c.phase \in {"walk", "adopt"} /\ c.sel = selection /\ c.next = next /\ c.floor = floor
    /\ c.phase = "adopt" => c.err = "none"
    /\ ViewOf([root EXCEPT !.chain = c], l, d)

(* A walk that goes on keeps its range and what it has to meet; one that is
   over joins the cached range without a gap, with every call settled that
   is settled in the new view. *)
LEMMA BridgedIs ==
    ASSUME root \in Readers, selection \in Nat, NEW l \in Seq(BOOLEAN), NEW d \in Nat, Holds(root, l, d),
           NEW next \in Views, Fits(next, l, d), root.hydration # None => Precedes(root.hydration.log, next.log),
           NEW segment \in Seq(Item), NEW cursor \in Nat, NEW floor \in Pairs,
           Shown(segment, cursor, next.log), Sound(segment, l),
           NEW missing, missing = Missing(root.items) \ Ids(segment)
    PROVE  BridgesTo(Bridged(next, segment, cursor, floor, missing), next, floor, l, d)
<1>. USE DEF BridgesTo
<1>. DEFINE c == Bridged(next, segment, cursor, floor, missing)
            q == [root EXCEPT !.chain = c]
<1>0. root.items \in Seq(Item) BY DEF Readers
<1>n. next # None /\ floor # None BY NilIs
<1>1. CASE missing # {}
  <2>1. c = [phase |-> "walk", sel |-> selection, next |-> next, segment |-> segment,
             cursor |-> cursor, floor |-> floor, missing |-> missing]
    BY <1>1 DEF Bridged
  <2>2. missing \subseteq Nat
    <3>1. ASSUME NEW x \in Ids(root.items) PROVE x \in Nat 
      <4>1. PICK i \in DOMAIN root.items : x = root.items[i].id BY <3>1 DEF Ids
      <4>2. root.items[i] \in Item BY <1>0, <4>1
      <4>3. QED BY <4>1, <4>2 DEF Item
    <3>2. QED BY <3>1, <1>0, MissingIs
  <2>. HIDE DEF c
  <2>3. c \in Chains /\ c.phase = "walk" /\ c.sel = selection /\ c.next = next /\ c.floor = floor
        /\ c.segment = segment /\ c.cursor = cursor /\ c.missing = missing
    BY <2>1, <2>2 DEF Chains
  <2>4. q.chain = c /\ q.hydration = root.hydration /\ q.items = root.items /\ q.cursor = root.cursor
    BY <2>3, WithChain
  <2>. HIDE DEF q
  <2>5. ViewOf(q, l, d) BY <2>3, <2>4, <1>1 DEF ViewOf, Holds, Fetched, Walks, Adopts, NextOf
  <2>6. QED BY <2>3, <2>5 DEF c, q
<1>2. CASE missing = {}
  <2>. DEFINE merged == MergeConversation(root.items, segment)
              edge == IF root.items # <<>> /\ merged[1].id = root.items[1].id THEN root.cursor ELSE cursor
  <2>1. Missing(root.items) \subseteq Ids(segment) BY <1>2
  <2>2. /\ Connected(root.items, segment) /\ merged \in Seq(Item) /\ edge \in Nat
        /\ Shown(merged, edge, next.log) /\ Sound(merged, l)
    BY <2>1, BridgeJoins
  <2>3. c = Adopting(next, merged, edge, floor, "none") BY <1>2, <2>2 DEF Bridged
  <2>. HIDE DEF c, merged, edge
  <2>4. /\ c \in Chains /\ c.phase = "adopt" /\ c.sel = selection /\ c.next = next /\ c.items = merged
        /\ c.cursor = edge /\ c.floor = floor /\ c.err = "none"
    BY <2>2, <2>3, AdoptingIs DEF Errs
  <2>5. q.chain = c /\ q.hydration = root.hydration /\ q.items = root.items /\ q.cursor = root.cursor
    BY <2>4, WithChain
  <2>. HIDE DEF q
  <2>6. ViewOf(q, l, d) BY <2>2, <2>4, <2>5, <1>n DEF ViewOf, Holds, Fetched, Walks, Adopts, NextOf
  <2>7. QED BY <2>4, <2>6 DEF c, q
<1>3. QED BY <1>1, <1>2

(* A walk never runs out of pages: what is missing was shown, so it lies in
   the conversation. *)
LEMMA WalkHasMore ==
    ASSUME NEW r \in Readers, NEW l \in Seq(BOOLEAN), NEW d \in Nat, ViewOf(r, l, d), r.chain.phase = "walk"
    PROVE  r.chain.cursor # 0
<1>1. /\ r.chain \in Chains /\ r.items \in Seq(Item) /\ r.hydration \in Views \cup {None} BY DEF Readers
<1>2. /\ r.chain.next \in Views /\ r.chain.segment \in Seq(Item) /\ r.chain.next # None BY <1>1, ChainKinds, NilIs
<1>. DEFINE n == Len(r.chain.next.log)
            b == n - Len(r.chain.segment) + 1
<1>3. r.chain.next.log \in Seq(BOOLEAN) /\ n \in Nat BY <1>2, LenProperties DEF Views
<1>4. Stretch(r.chain.segment, b, n) /\ r.chain.cursor = (IF b > 1 THEN b ELSE 0) /\ b \in Nat \ {0}
  <2>1. Shown(r.chain.segment, r.chain.cursor, r.chain.next.log) BY DEF ViewOf, Walks
  <2>2. Stretch(r.chain.segment, b, n) /\ r.chain.cursor = (IF b > 1 THEN b ELSE 0) BY <2>1 DEF Shown
  <2>3. b \in Nat \ {0} BY <2>2, StretchKinds
  <2>4. QED BY <2>2, <2>3
<1>. HIDE DEF b, n
<1>5. Ids(r.chain.segment) = b..n BY <1>4, StretchIds
<1>. USE DEF n
<1>6. PICK x \in Missing(r.items) : x \notin Ids(r.chain.segment) BY DEF ViewOf, Walks
<1>7. x \in Ids(r.items) BY <1>1, <1>6, MissingIs
<1>8. r.hydration # None
  <2>1. Ids(<<>>) = {} BY DEF Ids
  <2>2. QED BY <1>7, <2>1 DEF ViewOf, Holds
<1>9. Precedes(r.hydration.log, r.chain.next.log) /\ Shown(r.items, r.cursor, r.hydration.log)
  BY <1>2, <1>8 DEF ViewOf, Holds, Fetched, NextOf
<1>. DEFINE e == Len(r.hydration.log)
            a == e - Len(r.items) + 1
<1>10. Stretch(r.items, a, e) BY <1>9 DEF Shown
<1>11. e \in Nat /\ e <= n /\ a \in Nat \ {0}
  <2>1. r.hydration.log \in Seq(BOOLEAN) BY <1>1, <1>8 DEF Views
  <2>2. e \in Nat BY <2>1, LenProperties
  <2>3. e <= n BY <1>9 DEF Precedes
  <2>4. a \in Nat \ {0} BY <1>10, StretchKinds
  <2>5. QED BY <2>2, <2>3, <2>4
<1>. HIDE DEF n, a, e
<1>12. x \in a..e BY <1>7, <1>10, StretchIds
<1>13. b > 1 BY <1>3, <1>4, <1>5, <1>6, <1>11, <1>12
<1>14. QED BY <1>4, <1>13
-----------------------------------------------------------------------------
(* What each step of a chain does. *)
LEMMA RootKinds ==
    ASSUME TypeOK, root # None
    PROVE  /\ root \in Readers /\ root.id = rootID /\ rootID \in Session /\ conn # 0
           /\ log[rootID] \in Seq(BOOLEAN) /\ durable[rootID] \in Nat /\ Pair(rootID) \in Pairs
           /\ Pair(rootID).durable = durable[rootID] /\ selection \in Nat
           /\ root.chain \in Chains /\ root.items \in Seq(Item) /\ root.cursor \in Nat
           /\ root.hydration \in Views \cup {None} /\ root.floor \in Pairs \cup {None}
<1>1. root \in Readers /\ root.id = rootID /\ conn # 0 /\ selection \in Nat BY DEF TypeOK
<1>2. root.id \in Session BY <1>1 DEF Readers
<1>3. log[rootID] \in Seq(BOOLEAN) /\ durable[rootID] \in Nat /\ local[rootID] \in Nat BY <1>1, <1>2 DEF TypeOK
<1>4. QED BY <1>1, <1>2, <1>3 DEF Readers, Pair, Pairs

(* A chain that acts has a current reader. *)
LEMMA ReadingIs ==
    ASSUME TypeOK, ViewInv, NEW ph, Reading(ph)
    PROVE  /\ root # None /\ root.chain.phase = ph /\ root.chain.sel = selection /\ ~exited /\ conn # 0
           /\ root.chain # NoChain /\ ViewOf(root, log[rootID], durable[rootID])
BY DEF Reading, ReaderCurrent, ViewInv

(* The head of the loop ends, turns to the older page or begins a
   hydration. *)
LEMMA HeadDoes ==
    ASSUME TypeOK, ViewInv, ReadHead
    PROVE  /\ root \in Readers /\ root' \in Readers /\ root'.id = root.id /\ root'.hydration = root.hydration
           /\ root'.items = root.items /\ root'.cursor = root.cursor /\ root'.floor = root.floor
           /\ \/ ~root.dirty /\ ~root'.dirty /\ root'.chain = NoChain
              \/ /\ ~root.dirty /\ ~root'.dirty /\ root'.chain.phase \in {"page", "head"}
                 /\ root'.chain.sel = selection /\ (root'.chain.phase = "page" => root.cursor # 0)
              \/ /\ root.dirty /\ ~root'.dirty /\ root'.chain.phase = "session" /\ root'.chain.sel = selection
                 /\ root'.chain.config = config /\ Reachable
                 /\ root'.chain.floors = [config |-> globals.config, warnings |-> globals.warnings]
<1>1. root \in Readers /\ selection \in Nat /\ root.chain.sel = selection
  BY ReadingIs, RootKinds DEF ReadHead
<1>2. CASE ~root.dirty /\ ~root.older /\ Go(NoChain)
  <2>1. NoChain \in Chains BY DEF Chains
  <2>2. QED BY <1>1, <1>2, <2>1, WithChain DEF Go
<1>3. CASE ~root.dirty /\ root' = [root EXCEPT !.older = FALSE,
             !.chain = [phase |-> IF root.cursor # 0 THEN "page" ELSE "head", sel |-> selection]]
  <2>. DEFINE c == [phase |-> IF root.cursor # 0 THEN "page" ELSE "head", sel |-> selection]
  <2>1. c \in Chains /\ c.phase \in {"page", "head"} /\ c.sel = selection /\ (c.phase = "page" => root.cursor # 0)
    BY <1>1 DEF Chains
  <2>. HIDE DEF c
  <2>2. root' \in Readers /\ root'.chain = c BY <1>1, <1>3, <2>1 DEF Readers, c
  <2>3. QED BY <1>1, <1>3, <2>1, <2>2 DEF Readers
<1>4. CASE /\ root.dirty /\ Reachable
           /\ root' = [root EXCEPT !.dirty = FALSE,
                       !.chain = [phase |-> "session", sel |-> selection, config |-> config,
                                  floors |-> [config |-> globals.config, warnings |-> globals.warnings]]]
  <2>. DEFINE c == [phase |-> "session", sel |-> selection, config |-> config,
                    floors |-> [config |-> globals.config, warnings |-> globals.warnings]]
  <2>1. config \in Nat /\ globals.config \in Nat /\ globals.warnings \in Nat BY DEF TypeOK
  <2>2. c \in Chains /\ c.phase = "session" /\ c.sel = selection /\ c.config = config
        /\ c.floors = [config |-> globals.config, warnings |-> globals.warnings]
    BY <1>1, <2>1 DEF Chains, Floors
  <2>3. root' = [root EXCEPT !.dirty = FALSE, !.chain = c] BY <1>4
  <2>. HIDE DEF c
  <2>4. root' \in Readers /\ root'.chain = c BY <1>1, <2>2, <2>3 DEF Readers
  <2>5. QED BY <1>1, <1>4, <2>2, <2>3, <2>4 DEF Readers
<1>5. QED BY <1>2, <1>3, <1>4 DEF ReadHead

(* A chain's reader after a step that only moves the chain. *)
Moves(c) == /\ c \in Chains /\ root' = [root EXCEPT !.chain = c] /\ c.sel = selection
            /\ ViewOf(root', log[rootID], durable[rootID])

(* The Session's view is read under the configuration captured first. *)
LEMMA SessionDoes ==
    ASSUME TypeOK, ViewInv, ReadSessionView
    PROVE  \E c \in Chains :
             /\ Moves(c) /\ c.phase = "warnings" /\ c.floors = root.chain.floors /\ c.next \in Views
             /\ c.next.pair = Pair(rootID) /\ c.next.config = root.chain.config /\ c.next.warnings = 0
<1>1. /\ root # None /\ root.chain.phase = "session" /\ root.chain.sel = selection
      /\ ViewOf(root, log[rootID], durable[rootID])
  BY ReadingIs DEF ReadSessionView
<1>2. /\ root \in Readers /\ root.id = rootID /\ selection \in Nat /\ root.chain.config \in Nat
      /\ root.chain.floors \in Floors /\ log[rootID] \in Seq(BOOLEAN) /\ Pair(rootID) \in Pairs
      /\ Pair(rootID).durable = durable[rootID] /\ durable[rootID] \in Nat
      /\ root.hydration \in Views \cup {None}
  BY <1>1, RootKinds, ChainKinds
<1>. DEFINE v == [pair |-> Pair(rootID), config |-> root.chain.config, warnings |-> 0, log |-> log[rootID]]
            c == [phase |-> "warnings", sel |-> selection, floors |-> root.chain.floors, next |-> v]
<1>3. root' = [root EXCEPT !.chain = c] BY <1>2 DEF ReadSessionView, Go
<1>4. v \in Views /\ v.pair = Pair(rootID) /\ v.config = root.chain.config /\ v.log = log[rootID] /\ v.warnings = 0
  BY <1>2 DEF Views
<1>. HIDE DEF v
<1>5. c \in Chains /\ c.phase = "warnings" /\ c.sel = selection /\ c.floors = root.chain.floors /\ c.next = v
  BY <1>2, <1>4 DEF Chains
<1>. HIDE DEF c
<1>6. root'.chain = c /\ root'.hydration = root.hydration /\ root'.items = root.items /\ root'.cursor = root.cursor
  BY <1>2, <1>3, <1>5, WithChain
<1>7. Fits(v, log[rootID], durable[rootID])
  BY <1>2, <1>4, PrecedesIs DEF Fits
<1>8. ViewOf(root', log[rootID], durable[rootID])
  <2>1. NextOf(root') = v BY <1>5, <1>6 DEF NextOf
  <2>2. root.hydration # None => Precedes(root.hydration.log, v.log) BY <1>1, <1>4 DEF ViewOf, Holds, Fits
  <2>3. QED BY <1>1, <1>5, <1>6, <1>7, <2>1, <2>2 DEF ViewOf, Holds, Fetched, Walks, Adopts
<1>9. QED BY <1>3, <1>4, <1>5, <1>8 DEF Moves

(* The hydration is complete: it is refused, adopted or walked for, and a
   breach is one of the pairs known. *)
LEMMA HydrationDoes ==
    ASSUME TypeOK, ViewInv, ReadHydration
    PROVE  \E c \in Chains :
             /\ Moves(c) /\ c.phase \in {"walk", "adopt"} /\ c.next \in Views
             /\ c.next.pair = root.chain.next.pair /\ c.next.config = root.chain.next.config
             /\ c.next.warnings = warnings /\ c.floor \in {None, c.next.pair}
             /\ c.phase = "adopt" /\ c.err = "continuity" =>
                   \/ root.hydration # None /\ Incomparable(root.hydration.pair, c.next.pair)
                   \/ root.floor # None /\ Incomparable(c.next.pair, root.floor)
<1>1. /\ root # None /\ root.chain.phase = "warnings" /\ root.chain.sel = selection
      /\ ViewOf(root, log[rootID], durable[rootID])
  BY ReadingIs DEF ReadHydration
<1>2. /\ root \in Readers /\ root.id = rootID /\ selection \in Nat /\ root.chain.next \in Views
      /\ log[rootID] \in Seq(BOOLEAN) /\ durable[rootID] \in Nat /\ warnings \in Nat
      /\ root.hydration \in Views \cup {None} /\ root.floor \in Pairs \cup {None} /\ root.items \in Seq(Item)
  BY <1>1, RootKinds, ChainKinds DEF TypeOK
<1>. DEFINE next == [root.chain.next EXCEPT !.warnings = warnings]
            clock == AcceptHydration(root.hydration, next, root.chain.floors)
            floor == PageFloor(next.pair, root.floor)
            page == PageBefore(next.log, Len(next.log))
            c == IF clock # "none" THEN Rejected(next, clock)
                 ELSE IF floor # "none" THEN Rejected(next, floor)
                 ELSE Bridged(next, page.items, page.cursor, next.pair, Missing(root.items) \ Ids(page.items))
<1>3. root' = [root EXCEPT !.chain = c] BY DEF ReadHydration, Go
<1>4. /\ next \in Views /\ next.pair = root.chain.next.pair /\ next.config = root.chain.next.config
      /\ next.warnings = warnings /\ next.log = root.chain.next.log
      /\ next.log \in Seq(BOOLEAN) /\ next.pair \in Pairs
  BY <1>2 DEF Views
<1>. HIDE DEF next
<1>5. clock \in Errs /\ (clock = "continuity" => root.hydration # None /\ Incomparable(root.hydration.pair, next.pair))
  BY DEF AcceptHydration, Errs
<1>6. floor \in Errs /\ (floor = "continuity" => root.floor # None /\ Incomparable(next.pair, root.floor))
  BY DEF PageFloor, Errs
<1>. HIDE DEF clock, floor
<1>7. /\ Holds(root, log[rootID], durable[rootID]) /\ Fits(next, log[rootID], durable[rootID])
      /\ root.hydration # None => Precedes(root.hydration.log, next.log)
  <2>1. NextOf(root) = root.chain.next /\ NextOf(root) # None BY <1>1, <1>2, NilIs DEF NextOf
  <2>2. QED BY <1>1, <1>4, <2>1 DEF ViewOf, Fetched, Fits
<1>8. /\ page.items \in Seq(Item) /\ page.cursor \in Nat
      /\ Shown(page.items, page.cursor, next.log) /\ Sound(page.items, log[rootID])
  BY <1>2, <1>4, <1>7, PageShows DEF Fits
<1>. HIDE DEF page
<1>9. CASE clock # "none" \/ floor # "none"
  <2>. DEFINE err == IF clock # "none" THEN clock ELSE floor
  <2>1. c = Rejected(next, err) /\ err \in {"stale", "continuity"} BY <1>5, <1>6, <1>9 DEF Errs
  <2>2. err = "continuity" => \/ root.hydration # None /\ Incomparable(root.hydration.pair, next.pair)
                              \/ root.floor # None /\ Incomparable(next.pair, root.floor)
    BY <1>5, <1>6
  <2>. HIDE DEF c, err
  <2>. DEFINE R == Rejected(next, err)
              l == log[rootID]
              d == durable[rootID]
  <2>p. /\ Holds(root, l, d) /\ selection \in Nat /\ next \in Views \cup {None} /\ root \in Readers
        /\ err \in {"stale", "continuity"}
        /\ next # None => Fits(next, l, d) /\ (root.hydration # None => Precedes(root.hydration.log, next.log))
    BY <2>1, <1>2, <1>4, <1>7
  <2>. HIDE DEF l, d
  <2>q. /\ R \in Chains /\ R.phase = "adopt" /\ R.sel = selection /\ R.next = next /\ R.floor = None
        /\ R.err = err /\ ViewOf([root EXCEPT !.chain = R], l, d)
    BY <2>p, RejectedIs
  <2>a. /\ R \in Chains /\ R.phase = "adopt" /\ R.sel = selection /\ R.next = next /\ R.floor = None
        /\ R.err = err /\ ViewOf([root EXCEPT !.chain = R], log[rootID], durable[rootID])
    BY <2>q DEF l, d
  <2>. HIDE DEF R
  <2>3. /\ c \in Chains /\ c.phase = "adopt" /\ c.sel = selection /\ c.next = next /\ c.floor = None
        /\ c.err = err /\ ViewOf([root EXCEPT !.chain = c], log[rootID], durable[rootID])
    BY <2>1, <2>a DEF R
  <2>4. QED BY <1>3, <1>4, <2>2, <2>3 DEF Moves
<1>10. CASE clock = "none" /\ floor = "none"
  <2>. DEFINE m == Missing(root.items) \ Ids(page.items)
  <2>1. c = Bridged(next, page.items, page.cursor, next.pair, m) BY <1>10
  <2>2. m = Missing(root.items) \ Ids(page.items) OBVIOUS
  <2>. HIDE DEF c, m
  <2>. DEFINE R == Bridged(next, page.items, page.cursor, next.pair, m)
              l == log[rootID]
              d == durable[rootID]
              items == page.items
              cursor == page.cursor
              pair == next.pair
  <2>p. /\ root \in Readers /\ selection \in Nat /\ l \in Seq(BOOLEAN) /\ d \in Nat /\ Holds(root, l, d)
        /\ next \in Views /\ Fits(next, l, d) /\ (root.hydration # None => Precedes(root.hydration.log, next.log))
        /\ items \in Seq(Item) /\ cursor \in Nat /\ pair \in Pairs
        /\ Shown(items, cursor, next.log) /\ Sound(items, l) /\ m = Missing(root.items) \ Ids(items)
    BY <2>2, <1>2, <1>4, <1>7, <1>8
  <2>. HIDE DEF l, d, items, cursor, pair
  <2>q. BridgesTo(Bridged(next, items, cursor, pair, m), next, pair, l, d)
    BY <2>p, BridgedIs
  <2>a. /\ R \in Chains /\ R.phase \in {"walk", "adopt"} /\ R.sel = selection /\ R.next = next
        /\ R.floor = next.pair /\ (R.phase = "adopt" => R.err = "none")
        /\ ViewOf([root EXCEPT !.chain = R], log[rootID], durable[rootID])
    BY <2>q DEF l, d, items, cursor, pair, BridgesTo
  <2>. HIDE DEF R
  <2>3. /\ c \in Chains /\ c.phase \in {"walk", "adopt"} /\ c.sel = selection /\ c.next = next
        /\ c.floor = next.pair /\ (c.phase = "adopt" => c.err = "none")
        /\ ViewOf([root EXCEPT !.chain = c], log[rootID], durable[rootID])
    BY <2>1, <2>a DEF R
  <2>4. QED BY <1>3, <1>4, <2>3 DEF Moves
<1>11. QED BY <1>9, <1>10
(* A page of the walk: the segment it extends joins it. *)
LEMMA WalkDoes ==
    ASSUME TypeOK, ViewInv, WalkBack
    PROVE  \E c \in Chains :
             /\ Moves(c) /\ c.phase \in {"walk", "adopt"} /\ c.next = root.chain.next
             /\ root.chain.next \in Views /\ root.chain.floor \in Pairs
             /\ c.floor \in {None, Pair(rootID)}
             /\ c.phase = "adopt" /\ c.err = "continuity" => Incomparable(Pair(rootID), root.chain.floor)
<1>1. /\ root # None /\ root.chain.phase = "walk" /\ root.chain.sel = selection
      /\ ViewOf(root, log[rootID], durable[rootID])
  BY ReadingIs DEF WalkBack
<1>2. /\ root \in Readers /\ root.id = rootID /\ selection \in Nat /\ root.chain.next \in Views
      /\ log[rootID] \in Seq(BOOLEAN) /\ durable[rootID] \in Nat /\ Pair(rootID) \in Pairs
      /\ root.chain.segment \in Seq(Item) /\ root.chain.cursor \in Nat /\ root.chain.floor \in Pairs
      /\ root.chain.next # None /\ root.chain.floor # None
  BY <1>1, RootKinds, ChainKinds, NilIs
<1>3. root.chain.cursor # 0 BY <1>1, <1>2, WalkHasMore
<1>. DEFINE ch == root.chain
            next == ch.next
            l == log[rootID]
            d == durable[rootID]
            pair == Pair(rootID)
            page == PageBefore(l, ch.cursor - 1)
            floor == PageFloor(pair, ch.floor)
            both == MergeConversation(page.items, ch.segment)
            m == ch.missing \ Ids(page.items)
            c == IF floor # "none" THEN Rejected(next, floor)
                 ELSE IF ~Connected(page.items, ch.segment) THEN Rejected(next, "continuity")
                 ELSE Bridged(next, both, page.cursor, pair, m)
<1>4. root' = [root EXCEPT !.chain = c] BY <1>2, <1>3 DEF WalkBack, Go
<1>5. floor \in Errs /\ (floor = "continuity" => Incomparable(pair, ch.floor))
  BY DEF PageFloor, Errs
<1>6. /\ Holds(root, l, d) /\ Fits(next, l, d) /\ (root.hydration # None => Precedes(root.hydration.log, next.log))
      /\ Shown(ch.segment, ch.cursor, next.log) /\ Sound(ch.segment, l)
      /\ ch.missing = Missing(root.items) \ Ids(ch.segment)
  <2>1. NextOf(root) = next /\ NextOf(root) # None BY <1>1, <1>2 DEF NextOf
  <2>2. QED BY <1>1, <2>1 DEF ViewOf, Fetched, Walks
<1>7. next.log \in Seq(BOOLEAN) /\ Precedes(next.log, l) BY <1>2, <1>6 DEF Views, Fits
<1>8. /\ Connected(page.items, ch.segment) /\ both \in Seq(Item) /\ page.cursor \in Nat
      /\ Shown(both, page.cursor, next.log) /\ Sound(both, l)
      /\ Ids(both) = Ids(page.items) \cup Ids(ch.segment)
  <2>. DEFINE seg == ch.segment
              cur == ch.cursor
              n == next.log
  <2>1. /\ seg \in Seq(Item) /\ cur \in Nat \ {0} /\ n \in Seq(BOOLEAN) /\ l \in Seq(BOOLEAN)
        /\ Precedes(n, l) /\ Shown(seg, cur, n) /\ Sound(seg, l)
    BY <1>2, <1>3, <1>6, <1>7
  <2>. HIDE DEF seg, cur, n, l
  <2>2. LET p == PageBefore(l, cur - 1)
            b == MergeConversation(p.items, seg) IN
        /\ Connected(p.items, seg) /\ b \in Seq(Item) /\ p.cursor \in Nat
        /\ Shown(b, p.cursor, n) /\ Sound(b, l)
        /\ Ids(b) = Ids(p.items) \cup Ids(seg)
    BY <2>1, OlderJoins
  <2>3. QED BY <2>2 DEF seg, cur, n
<1>9. m = Missing(root.items) \ Ids(both) BY <1>6, <1>8
<1>a. c = IF floor # "none" THEN Rejected(next, floor) ELSE Bridged(next, both, page.cursor, pair, m)
  BY <1>8
<1>b. next \in Views /\ pair \in Pairs /\ l \in Seq(BOOLEAN) /\ d \in Nat BY <1>2
<1>. DEFINE cur == page.cursor
<1>c. cur \in Nat /\ Shown(both, cur, next.log) /\ both \in Seq(Item) /\ Sound(both, l) BY <1>8
<1>d. c = IF floor # "none" THEN Rejected(next, floor) ELSE Bridged(next, both, cur, pair, m) BY <1>a
<1>e. /\ ch.next = next /\ ch.floor \in Pairs /\ log[rootID] = l /\ durable[rootID] = d /\ Pair(rootID) = pair
      /\ root.chain = ch
  BY <1>2
<1>f. floor = "continuity" => Incomparable(pair, ch.floor) BY <1>5
<1>. HIDE DEF c, m, both, cur, page, floor, next, l, d, pair, ch
<1>10. CASE floor # "none"
  <2>1. floor \in {"stale", "continuity"} /\ c = Rejected(next, floor) BY <1>5, <1>10, <1>d DEF Errs
  <2>2. /\ Holds(root, l, d) /\ selection \in Nat /\ next \in Views \cup {None} /\ root \in Readers
        /\ floor \in {"stale", "continuity"}
        /\ next # None => Fits(next, l, d) /\ (root.hydration # None => Precedes(root.hydration.log, next.log))
    BY <2>1, <1>2, <1>6, <1>b
  <2>. DEFINE R == Rejected(next, floor)
  <2>3. /\ R \in Chains /\ R.phase = "adopt" /\ R.sel = selection /\ R.next = next /\ R.floor = None
        /\ R.err = floor /\ ViewOf([root EXCEPT !.chain = R], l, d)
    BY <2>2, RejectedIs
  <2>. HIDE DEF R
  <2>4. c = R BY <2>1 DEF R
  <2>5. Moves(c) BY <2>3, <2>4, <1>4, <1>e DEF Moves
  <2>6. QED BY <2>3, <2>4, <2>5, <1>b, <1>e, <1>f
<1>11. CASE floor = "none"
  <2>1. /\ root \in Readers /\ selection \in Nat /\ l \in Seq(BOOLEAN) /\ d \in Nat /\ Holds(root, l, d)
        /\ next \in Views /\ Fits(next, l, d) /\ (root.hydration # None => Precedes(root.hydration.log, next.log))
        /\ both \in Seq(Item) /\ cur \in Nat /\ pair \in Pairs
        /\ Shown(both, cur, next.log) /\ Sound(both, l) /\ m = Missing(root.items) \ Ids(both)
    BY <1>2, <1>6, <1>9, <1>b, <1>c
  <2>2. BridgesTo(Bridged(next, both, cur, pair, m), next, pair, l, d) BY <2>1, BridgedIs
  <2>3. BridgesTo(c, next, pair, l, d) BY <2>2, <1>d, <1>11
  <2>4. Moves(c) BY <2>3, <1>4, <1>e DEF Moves, BridgesTo
  <2>5. QED BY <2>3, <2>4, <1>b, <1>e DEF BridgesTo
<1>12. QED BY <1>10, <1>11

(* The page the user asked for joins the range that is shown. *)
LEMMA OlderDoes ==
    ASSUME TypeOK, ViewInv, ReadOlderPage
    PROVE  \E c \in Chains :
             /\ Moves(c) /\ c.phase = "adopt" /\ c.next = None /\ c.floor \in {None, Pair(rootID)}
             /\ c.err = "continuity" => root.floor # None /\ Incomparable(Pair(rootID), root.floor)
<1>1. /\ root # None /\ root.chain.phase = "page" /\ root.chain.sel = selection
      /\ ViewOf(root, log[rootID], durable[rootID])
  BY ReadingIs DEF ReadOlderPage
<1>2. /\ root \in Readers /\ root.id = rootID /\ selection \in Nat
      /\ log[rootID] \in Seq(BOOLEAN) /\ durable[rootID] \in Nat /\ Pair(rootID) \in Pairs
      /\ root.items \in Seq(Item) /\ root.cursor \in Nat /\ root.hydration \in Views \cup {None}
      /\ Pair(rootID) # None
  BY <1>1, RootKinds, NilIs
<1>. DEFINE l == log[rootID]
            d == durable[rootID]
            pair == Pair(rootID)
            page == PageBefore(l, root.cursor - 1)
            floor == PageFloor(pair, root.floor)
            both == MergeConversation(page.items, root.items)
            c == IF floor # "none" THEN Rejected(None, floor)
                 ELSE IF ~Connected(page.items, root.items) THEN Rejected(None, "continuity")
                 ELSE Adopting(None, both, page.cursor, pair, "none")
<1>3. root' = [root EXCEPT !.chain = c] BY <1>2 DEF ReadOlderPage, Go
<1>4. floor \in Errs /\ (floor = "continuity" => root.floor # None /\ Incomparable(pair, root.floor))
  BY DEF PageFloor, Errs
<1>5. Holds(root, l, d) /\ root.cursor # 0 BY <1>1 DEF ViewOf, Fetched
<1>6. /\ root.hydration # None /\ root.hydration \in Views /\ root.hydration.log \in Seq(BOOLEAN)
      /\ Precedes(root.hydration.log, l) /\ Shown(root.items, root.cursor, root.hydration.log)
      /\ Sound(root.items, l)
  BY <1>2, <1>5 DEF Holds, Fits, Views
<1>7. /\ Connected(page.items, root.items) /\ both \in Seq(Item) /\ page.cursor \in Nat
      /\ Shown(both, page.cursor, root.hydration.log) /\ Sound(both, l)
  <2>. DEFINE seg == root.items
              cur == root.cursor
              n == root.hydration.log
  <2>1. /\ seg \in Seq(Item) /\ cur \in Nat \ {0} /\ n \in Seq(BOOLEAN) /\ l \in Seq(BOOLEAN)
        /\ Precedes(n, l) /\ Shown(seg, cur, n) /\ Sound(seg, l)
    BY <1>2, <1>5, <1>6
  <2>. HIDE DEF seg, cur, n, l
  <2>2. LET p == PageBefore(l, cur - 1)
            b == MergeConversation(p.items, seg) IN
        /\ Connected(p.items, seg) /\ b \in Seq(Item) /\ p.cursor \in Nat
        /\ Shown(b, p.cursor, n) /\ Sound(b, l)
        /\ Ids(b) = Ids(p.items) \cup Ids(seg)
    BY <2>1, OlderJoins
  <2>3. QED BY <2>2 DEF seg, cur, n
<1>. DEFINE cur == page.cursor
<1>8. /\ cur \in Nat /\ both \in Seq(Item) /\ Shown(both, cur, root.hydration.log) /\ Sound(both, l)
      /\ c = IF floor # "none" THEN Rejected(None, floor) ELSE Adopting(None, both, cur, pair, "none")
  BY <1>7
<1>9. pair \in Pairs /\ pair # None /\ l = log[rootID] /\ d = durable[rootID] /\ pair = Pair(rootID)
  BY <1>2
<1>. HIDE DEF c, both, cur, page, floor, l, d, pair
<1>10. CASE floor # "none"
  <2>1. floor \in {"stale", "continuity"} /\ c = Rejected(None, floor) BY <1>4, <1>10, <1>8 DEF Errs
  <2>2. /\ Holds(root, l, d) /\ selection \in Nat /\ None \in Views \cup {None} /\ root \in Readers
        /\ floor \in {"stale", "continuity"}
    BY <2>1, <1>2, <1>5
  <2>. DEFINE R == Rejected(None, floor)
  <2>3. /\ R \in Chains /\ R.phase = "adopt" /\ R.sel = selection /\ R.next = None /\ R.floor = None
        /\ R.err = floor /\ ViewOf([root EXCEPT !.chain = R], l, d)
    BY <2>2, RejectedIs
  <2>. HIDE DEF R
  <2>4. c = R BY <2>1 DEF R
  <2>5. Moves(c) BY <2>3, <2>4, <1>3, <1>9 DEF Moves
  <2>6. QED BY <2>3, <2>4, <2>5, <1>4, <1>9
<1>11. CASE floor = "none"
  <2>1. /\ None \in Views \cup {None} /\ both \in Seq(Item) /\ cur \in Nat /\ pair \in Pairs \cup {None}
        /\ "none" \in Errs /\ selection \in Nat
    BY <1>2, <1>8, <1>9 DEF Errs
  <2>. DEFINE R == Adopting(None, both, cur, pair, "none")
  <2>2. /\ R \in Chains /\ R.phase = "adopt" /\ R.sel = selection /\ R.next = None /\ R.items = both
        /\ R.cursor = cur /\ R.floor = pair /\ R.err = "none"
    BY <2>1 DEF Adopting, Chains
  <2>3. c = R BY <1>8, <1>11
  <2>. HIDE DEF R
  <2>4. root'.chain = c /\ root'.hydration = root.hydration /\ root'.items = root.items /\ root'.cursor = root.cursor
    BY <2>2, <2>3, <1>2, <1>3, WithChain
  <2>5. ViewOf(root', l, d)
    <3>1. NextOf(root') = None BY <2>2, <2>3, <2>4 DEF NextOf
    <3>2. Adopts(root', l) BY <2>2, <2>3, <2>4, <1>6, <1>8, <1>9 DEF Adopts
    <3>3. Walks(root', l) BY <2>2, <2>3, <2>4 DEF Walks
    <3>4. Fetched(root', l, d) BY <2>2, <2>3, <2>4, <3>1 DEF Fetched
    <3>5. Holds(root', l, d) BY <2>4, <1>5 DEF Holds
    <3>6. QED BY <3>2, <3>3, <3>4, <3>5 DEF ViewOf
  <2>6. Moves(c) BY <2>2, <2>3, <2>5, <1>3, <1>9 DEF Moves
  <2>7. QED BY <2>2, <2>3, <2>6, <1>9
<1>12. QED BY <1>10, <1>11
(* A read that fails ends the chain and tells the user. *)
LEMMA FailsDoes ==
    ASSUME TypeOK, ViewInv, ReadFails
    PROVE  /\ root \in Readers /\ root' \in Readers /\ Touched(root, root') /\ root'.chain = NoChain /\ reported'
<1>1. root # None BY ReadingIs DEF ReadFails
<1>2. root \in Readers BY <1>1, RootKinds
<1>3. NoChain \in Chains /\ NoChain.phase = "none" BY DEF Chains, NoChain
<1>4. root' = [root EXCEPT !.chain = NoChain, !.dirty = @ /\ root.chain.phase # "head"] /\ reported' = TRUE
  BY DEF ReadFails
<1>5. (root.dirty /\ root.chain.phase # "head") \in BOOLEAN OBVIOUS
<1>6. root' \in Readers BY <1>2, <1>3, <1>4, <1>5 DEF Readers
<1>7. QED BY <1>2, <1>3, <1>4, <1>6 DEF Readers, Touched

(* A hydration is taken when it is behind neither the one shown nor the
   globals' clocks. *)
LEMMA AcceptedIs ==
    ASSUME NEW cur \in Views \cup {None}, NEW next \in Views, NEW g, g.config \in Nat, g.warnings \in Nat
    PROVE  LET v == AcceptHydration(cur, next, g) IN
           /\ v \in Errs
           /\ v = "continuity" => cur # None /\ Incomparable(cur.pair, next.pair)
           /\ v = "none" => /\ g.config <= next.config /\ g.warnings <= next.warnings
                            /\ cur # None => /\ AtLeast(next.pair, cur.pair) /\ cur.config <= next.config
                                             /\ cur.warnings <= next.warnings
<1>. DEFINE v == AcceptHydration(cur, next, g)
<1>1. v \in Errs /\ (v = "continuity" => cur # None /\ Incomparable(cur.pair, next.pair))
  BY DEF AcceptHydration, Errs
<1>2. ASSUME v = "none"
      PROVE  /\ g.config <= next.config /\ g.warnings <= next.warnings
             /\ cur # None => /\ AtLeast(next.pair, cur.pair) /\ cur.config <= next.config
                              /\ cur.warnings <= next.warnings
  <2>1. /\ ~(cur # None /\ Incomparable(cur.pair, next.pair))
        /\ ~(cur # None /\ (Newer(cur.pair, next.pair) \/ cur.config > next.config \/ cur.warnings > next.warnings))
        /\ ~(g.config > next.config) /\ ~(g.warnings > next.warnings)
    BY <1>2 DEF AcceptHydration
  <2>2. next.config \in Nat /\ next.warnings \in Nat /\ next.pair \in Pairs BY DEF Views
  <2>3. ASSUME cur # None PROVE AtLeast(next.pair, cur.pair) /\ cur.config <= next.config /\ cur.warnings <= next.warnings
    <3>1. cur.pair \in Pairs /\ cur.config \in Nat /\ cur.warnings \in Nat BY <2>3 DEF Views
    <3>2. AtLeast(next.pair, cur.pair)
      <4>1. CASE AtLeast(cur.pair, next.pair)
        <5>1. cur.pair = next.pair BY <4>1, <2>1, <2>3 DEF Newer
        <5>2. QED BY <5>1, <3>1 DEF AtLeast, Pairs
      <4>2. QED BY <4>1, <2>1, <2>3 DEF Incomparable
    <3>3. QED BY <3>1, <3>2, <2>1, <2>2, <2>3
  <2>4. QED BY <2>1, <2>2, <2>3
<1>3. QED BY <1>1, <1>2

(* What becomes of a result: a repair, another read, or what is shown. *)
Refused == /\ Repair
           /\ \/ root.chain.err = "continuity"
              \/ /\ root.chain.next # None /\ root.hydration # None
                 /\ Incomparable(root.hydration.pair, root.chain.next.pair)
Repeated == /\ root' \in Readers /\ Touched(root, root') /\ root'.dirty /\ root'.chain = Chain(selection)
            /\ UNCHANGED <<linkVars, globals>>
Adopted ==
    /\ root' \in Readers /\ root'.id = root.id /\ root'.dirty = root.dirty /\ root'.chain = Chain(selection)
    /\ root'.floor = root.chain.floor /\ ViewOf(root', log[rootID], durable[rootID])
    /\ root.chain.err = "none"
    /\ root'.hydration = (IF root.chain.next = None THEN root.hydration ELSE root.chain.next)
    /\ root.chain.next # None =>
          /\ root.chain.next \in Views
          /\ globals.config <= root.chain.next.config /\ globals.warnings <= root.chain.next.warnings
          /\ root.hydration # None => /\ AtLeast(root.chain.next.pair, root.hydration.pair)
                                      /\ root.hydration.config <= root.chain.next.config
                                      /\ root.hydration.warnings <= root.chain.next.warnings
    /\ UNCHANGED <<linkVars, globals>>

(* Adopt is one of the three. *)
LEMMA AdoptDoes ==
    ASSUME TypeOK, ViewInv, Adopt
    PROVE  /\ root # None /\ root.chain.phase = "adopt" /\ root.chain.sel = selection
           /\ Refused \/ Repeated \/ Adopted
<1>1. /\ root # None /\ root.chain.phase = "adopt" /\ root.chain.sel = selection
      /\ ViewOf(root, log[rootID], durable[rootID])
  BY ReadingIs DEF Adopt
<1>2. /\ root \in Readers /\ root.id = rootID /\ selection \in Nat
      /\ root.hydration \in Views \cup {None} /\ root.chain.next \in Views \cup {None}
      /\ root.chain.items \in Seq(Item) /\ root.chain.cursor \in Nat /\ root.chain.floor \in Pairs \cup {None}
      /\ root.chain.err \in Errs
  BY <1>1, RootKinds, ChainKinds
<1>3. Chain(selection) \in Chains /\ Chain(selection).phase = "head" BY <1>2 DEF Chain, Chains
<1>4. globals.config \in Nat /\ globals.warnings \in Nat BY DEF TypeOK
<1>. DEFINE ch == root.chain
            g == globals
<1>5. ch = root.chain /\ g = globals OBVIOUS
<1>. HIDE DEF ch, g
<1>6. CASE Verdict(ch) = "continuity"
  <2>1. Repair BY <1>5, <1>6 DEF Adopt
  <2>2. \/ ch.err = "continuity"
        \/ ch.err = "none" /\ ch.next # None /\ AcceptHydration(root.hydration, ch.next, g) = "continuity"
    BY <1>5, <1>6 DEF Verdict
  <2>3. ASSUME ch.next # None, AcceptHydration(root.hydration, ch.next, g) = "continuity"
        PROVE  root.hydration # None /\ Incomparable(root.hydration.pair, ch.next.pair)
    <3>1. ch.next \in Views /\ g.config \in Nat /\ g.warnings \in Nat BY <2>3, <1>2, <1>4, <1>5
    <3>2. QED BY <3>1, <2>3, <1>2, AcceptedIs
  <2>4. Refused BY <2>1, <2>2, <2>3, <1>5 DEF Refused
  <2>5. QED BY <1>1, <2>4
<1>7. CASE Verdict(ch) = "stale"
  <2>1. /\ root' = [root EXCEPT !.dirty = TRUE, !.older = @ \/ ch.next = None, !.chain = Chain(selection)]
        /\ UNCHANGED <<linkVars, globals>>
    BY <1>5, <1>7 DEF Adopt
  <2>2. (root.older \/ ch.next = None) \in BOOLEAN OBVIOUS
  <2>3. root' \in Readers BY <1>2, <1>3, <2>1, <2>2 DEF Readers
  <2>4. Repeated BY <1>2, <1>3, <2>1, <2>3 DEF Repeated, Touched, Readers
  <2>5. QED BY <1>1, <2>4
<1>8. CASE Verdict(ch) \notin {"continuity", "stale"}
  <2>. DEFINE h == IF ch.next = None THEN root.hydration ELSE ch.next
  <2>1. /\ root' = [root EXCEPT !.items = ch.items, !.cursor = ch.cursor, !.floor = ch.floor,
                               !.hydration = h, !.chain = Chain(selection)]
        /\ UNCHANGED <<linkVars, globals>>
    BY <1>5, <1>8 DEF Adopt
  <2>2. /\ ch.err = "none"
        /\ ch.next # None =>
             /\ ch.next \in Views
             /\ g.config <= ch.next.config /\ g.warnings <= ch.next.warnings
             /\ root.hydration # None => /\ AtLeast(ch.next.pair, root.hydration.pair)
                                         /\ root.hydration.config <= ch.next.config
                                         /\ root.hydration.warnings <= ch.next.warnings
    <3>1. CASE ch.err # "none" \/ ch.next = None
      BY <3>1, <1>2, <1>5, <1>8 DEF Verdict, Errs
    <3>2. CASE ch.err = "none" /\ ch.next # None
      <4>1. ch.next \in Views /\ g.config \in Nat /\ g.warnings \in Nat BY <3>2, <1>2, <1>4, <1>5
      <4>2. AcceptHydration(root.hydration, ch.next, g) \in Errs \ {"continuity", "stale"}
        BY <3>2, <4>1, <1>2, <1>5, <1>8, AcceptedIs DEF Verdict
      <4>3. AcceptHydration(root.hydration, ch.next, g) = "none" BY <4>2 DEF Errs
      <4>4. QED BY <3>2, <4>1, <4>3, <1>2, AcceptedIs
    <3>3. QED BY <3>1, <3>2
  <2>3. h \in Views \cup {None} BY <1>2, <1>5
  <2>. HIDE DEF h
  <2>4. /\ root' \in Readers /\ root'.id = root.id /\ root'.dirty = root.dirty /\ root'.chain = Chain(selection)
        /\ root'.floor = ch.floor /\ root'.hydration = h /\ root'.items = ch.items /\ root'.cursor = ch.cursor
    BY <1>2, <1>3, <1>5, <2>1, <2>3 DEF Readers
  <2>5. ViewOf(root', log[rootID], durable[rootID])
    <3>. DEFINE l == log[rootID]
                d == durable[rootID]
    <3>1. ViewOf(root, l, d) BY <1>1
    <3>2. h # None /\ Shown(ch.items, ch.cursor, h.log) /\ Sound(ch.items, l)
      BY <3>1, <2>2, <1>1, <1>5, <1>2, NilIs DEF ViewOf, Adopts, h
    <3>3. Fits(h, l, d)
      <4>1. CASE ch.next = None BY <4>1, <3>1, <3>2 DEF ViewOf, Holds, h
      <4>2. CASE ch.next # None BY <4>2, <3>1, <1>1, <1>5 DEF ViewOf, Fetched, NextOf, h
      <4>3. QED BY <4>1, <4>2
    <3>. HIDE DEF l, d
    <3>4. Holds(root', l, d) BY <3>2, <3>3, <2>4 DEF Holds
    <3>5. Fetched(root', l, d) /\ Walks(root', l) /\ Adopts(root', l)
      BY <2>4, <1>3 DEF Fetched, Walks, Adopts, NextOf
    <3>6. QED BY <3>4, <3>5 DEF ViewOf, l, d
  <2>6. root'.hydration = IF ch.next = None THEN root.hydration ELSE ch.next BY <2>4 DEF h
  <2>7. Adopted BY <2>1, <2>2, <2>4, <2>5, <2>6, <1>5 DEF Adopted
  <2>8. QED BY <1>1, <2>7
<1>9. QED BY <1>6, <1>7, <1>8
-----------------------------------------------------------------------------
(* The frames on their way. *)
LEMMA QueuedIs ==
    ASSUME NEW T, NEW q \in Seq(T), NEW e \in T
    PROVE  /\ Queued(q) \subseteq T
           /\ Append(q, e) \in Seq(T) /\ Queued(Append(q, e)) = Queued(q) \cup {e}
           /\ q # <<>> => /\ Head(q) \in T /\ Tail(q) \in Seq(T) /\ Len(Tail(q)) = Len(q) - 1
                          /\ Queued(q) = {Head(q)} \cup Queued(Tail(q))
<1>1. Len(q) \in Nat /\ \A i \in 1..Len(q) : q[i] \in T BY ElementOfSeq
<1>2. Queued(q) \subseteq T BY <1>1 DEF Queued
<1>3. Append(q, e) \in Seq(T) /\ Len(Append(q, e)) = Len(q) + 1
      /\ \A i \in 1..(Len(q) + 1) : Append(q, e)[i] = IF i <= Len(q) THEN q[i] ELSE e
  BY <1>1, AppendProperties
<1>4. Queued(Append(q, e)) = Queued(q) \cup {e}
  <2>1. ASSUME NEW i \in 1..Len(q) PROVE i \in 1..(Len(q) + 1) /\ Append(q, e)[i] = q[i] BY <1>1, <1>3
  <2>2. Len(q) + 1 \in 1..(Len(q) + 1) /\ Append(q, e)[Len(q) + 1] = e BY <1>1, <1>3
  <2>3. \A i \in 1..(Len(q) + 1) : i \in 1..Len(q) \/ i = Len(q) + 1 BY <1>1
  <2>4. QED BY <1>3, <2>1, <2>2, <2>3 DEF Queued
<1>5. ASSUME q # <<>>
      PROVE  /\ Head(q) \in T /\ Tail(q) \in Seq(T) /\ Len(Tail(q)) = Len(q) - 1
             /\ Queued(q) = {Head(q)} \cup Queued(Tail(q))
  <2>1. /\ Head(q) \in T /\ Tail(q) \in Seq(T) /\ Len(Tail(q)) = Len(q) - 1 /\ Head(q) = q[1]
        /\ \A i \in 1..Len(Tail(q)) : Tail(q)[i] = q[i + 1]
    BY <1>5, HeadTailProperties
  <2>2. Len(q) # 0 BY <1>5, EmptySeq
  <2>3. ASSUME NEW i \in 1..Len(q) PROVE q[i] \in {Head(q)} \cup Queued(Tail(q))
    <3>1. CASE i = 1 BY <3>1, <2>1
    <3>2. CASE i # 1
      <4>1. i - 1 \in 1..Len(Tail(q)) /\ (i - 1) + 1 = i BY <3>2, <2>1, <1>1
      <4>2. q[i] = Tail(q)[i - 1] BY <4>1, <2>1
      <4>3. QED BY <4>1, <4>2 DEF Queued
    <3>3. QED BY <3>1, <3>2
  <2>4. ASSUME NEW i \in 1..Len(Tail(q)) PROVE Tail(q)[i] \in Queued(q)
    <3>1. i + 1 \in 1..Len(q) BY <2>1, <1>1
    <3>2. QED BY <3>1, <2>1 DEF Queued
  <2>5. Head(q) \in Queued(q)
    <3>1. 1 \in 1..Len(q) BY <2>2, <1>1
    <3>2. QED BY <3>1, <2>1 DEF Queued
  <2>6. QED BY <2>1, <2>3, <2>4, <2>5 DEF Queued
<1>6. QED BY <1>2, <1>3, <1>4, <1>5

(* A subscription that stays open has taken every event; one that was full
   has taken some. *)
LEMMA EnqueueIs ==
    ASSUME TypeOK, NEW events \in Seq(Events), Enqueue(events)
    PROVE  /\ sub' \in [open : BOOLEAN, queue : Seq(Events)] /\ Len(sub'.queue) <= StreamCap
           /\ sub'.open => sub.open /\ Queued(sub'.queue) = Queued(sub.queue) \cup Queued(events)
           /\ Queued(sub'.queue) \subseteq Queued(sub.queue) \cup Queued(events)
<1>1. /\ sub \in [open : BOOLEAN, queue : Seq(Events)] /\ Len(sub.queue) <= StreamCap
      /\ StreamCap \in Nat
  BY ReaderAssumption DEF TypeOK
<1>2. CASE ~sub.open
  BY <1>1, <1>2 DEF Enqueue
<1>3. CASE sub.open
  <2>. DEFINE all == sub.queue \o events
              n == Min({StreamCap, Len(all)})
  <2>1. /\ all \in Seq(Events) /\ Len(all) = Len(sub.queue) + Len(events) /\ Len(all) \in Nat
        /\ \A i \in 1..(Len(sub.queue) + Len(events)) :
              all[i] = IF i <= Len(sub.queue) THEN sub.queue[i] ELSE events[i - Len(sub.queue)]
        /\ Len(sub.queue) \in Nat /\ Len(events) \in Nat
    BY <1>1, ConcatProperties, LenProperties
  <2>2. sub' = [open |-> Len(all) <= StreamCap, queue |-> SubSeq(all, 1, n)]
    BY <1>1, <1>3 DEF Enqueue
  <2>. HIDE DEF all
  <2>3. n \in Nat /\ n <= Len(all) /\ n <= StreamCap /\ (Len(all) <= StreamCap => n = Len(all))
    <3>1. n = IF Len(all) <= StreamCap THEN Len(all) ELSE StreamCap
      BY <1>1, <2>1 DEF Min
    <3>2. QED BY <3>1, <1>1, <2>1
  <2>. HIDE DEF n
  <2>4. SubSeq(all, 1, n) \in Seq(Events) /\ Len(SubSeq(all, 1, n)) = n
        /\ \A i \in 1..n : SubSeq(all, 1, n)[i] = all[i]
    <3>1. 1 \in 1..(Len(all) + 1) /\ n \in 0..Len(all) BY <2>1, <2>3
    <3>2. QED BY <2>1, <2>3, <3>1, SubSeqProperties
  <2>5. Queued(all) = Queued(sub.queue) \cup Queued(events)
    <3>1. ASSUME NEW i \in 1..Len(all) PROVE all[i] \in Queued(sub.queue) \cup Queued(events)
      <4>1. CASE i <= Len(sub.queue)
        <5>1. i \in 1..Len(sub.queue) /\ all[i] = sub.queue[i] BY <4>1, <2>1
        <5>2. QED BY <5>1 DEF Queued
      <4>2. CASE ~(i <= Len(sub.queue))
        <5>1. i - Len(sub.queue) \in 1..Len(events) /\ all[i] = events[i - Len(sub.queue)] BY <4>2, <2>1
        <5>2. QED BY <5>1 DEF Queued
      <4>3. QED BY <4>1, <4>2
    <3>2. ASSUME NEW i \in 1..Len(sub.queue) PROVE sub.queue[i] \in Queued(all)
      <4>1. i \in 1..Len(all) /\ all[i] = sub.queue[i] BY <2>1
      <4>2. QED BY <4>1 DEF Queued
    <3>3. ASSUME NEW i \in 1..Len(events) PROVE events[i] \in Queued(all)
      <4>1. i + Len(sub.queue) \in 1..Len(all) /\ ~(i + Len(sub.queue) <= Len(sub.queue))
            /\ (i + Len(sub.queue)) - Len(sub.queue) = i
        BY <2>1
      <4>2. all[i + Len(sub.queue)] = events[i] BY <4>1, <2>1
      <4>3. QED BY <4>1, <4>2 DEF Queued
    <3>4. QED BY <3>1, <3>2, <3>3 DEF Queued
  <2>6. Queued(SubSeq(all, 1, n)) \subseteq Queued(all) BY <2>1, <2>3, <2>4 DEF Queued
  <2>7. Len(all) <= StreamCap => Queued(SubSeq(all, 1, n)) = Queued(all)
    BY <2>3, <2>4 DEF Queued
  <2>8. sub'.open = (Len(all) <= StreamCap) /\ sub'.queue = SubSeq(all, 1, n) BY <2>2
  <2>9. sub' \in [open : BOOLEAN, queue : Seq(Events)] BY <2>2, <2>4
  <2>10. QED BY <1>3, <2>3, <2>4, <2>5, <2>6, <2>7, <2>8, <2>9
<1>4. QED BY <1>2, <1>3
-----------------------------------------------------------------------------
(* The steps by what they may change. *)
Changed(s) == Publishes(s) \/ Answers(s) \/ LocalChange(s)
Observed == (\E s \in Session : Scoped(s) \/ Invalidates(s)) \/ Reconfigures \/ Warns
ChainStep == ReadHead \/ ReadSessionView \/ ReadHydration \/ WalkBack \/ ReadOlderPage \/ ReadFails
NavStep == User \/ \E n \in navs : Resolves(n)

(* Every step is one of these. *)
LEMMA NextIs ==
    ASSUME TypeOK, Next
    PROVE  \/ \E s \in Session : Changed(s)
           \/ Observed \/ Lose \/ Restart \/ ChainStep \/ Adopt \/ ReadsGlobals
           \/ Connect \/ Subscribe \/ PublishConnection \/ StreamEnds \/ Forward \/ AcceptEvent \/ NavStep
<1>1. scope.subjects \subseteq Session BY ReaderAssumption DEF TypeOK
<1>2. QED BY <1>1 DEF Next, Runtime, Steps, Reads, Links, Changed, Observed, ChainStep, NavStep

(* What a chain's step leaves alone. *)
LEMMA ChainKeeps == ChainStep => UNCHANGED <<ReadVars, globals>>
BY DEF ChainStep, ReadHead, ReadSessionView, ReadHydration, WalkBack, ReadOlderPage, ReadFails

(* What the globals' task leaves alone. *)
LEMMA GlobalsKeep == ReadsGlobals => UNCHANGED GlobalsVars
BY DEF ReadsGlobals, ReadConfiguration, ReadWarnings, AdoptGlobals

(* What a navigation leaves alone. *)
LEMMA NavKeeps == NavStep => UNCHANGED NavVars
BY DEF NavStep, User, Resolves, Navigate, Inspect, WantOlder, NavigationFails, NavigationResolves

(* The change of a Session: its conversation grows or is answered under a
   new revision, or its local counter moves; the observation is owed. *)
LEMMA ChangedDoes ==
    ASSUME TypeOK, NEW s \in Session, Changed(s)
    PROVE  /\ log' \in [Session -> Seq(BOOLEAN)] /\ durable' \in [Session -> Nat] /\ local' \in [Session -> Nat]
           /\ owed' \in [Session -> Nat] /\ owed'[s] > 0
           /\ \A x \in Session : x # s => log'[x] = log[x] /\ durable'[x] = durable[x] /\ local'[x] = local[x]
                                         /\ owed'[x] = owed[x]
           /\ \A x \in Session : /\ durable'[x] >= durable[x] /\ local'[x] >= local[x]
                                 /\ Precedes(log[x], log'[x])
                                 /\ durable'[x] = durable[x] => log'[x] = log[x]
           /\ UNCHANGED <<config, warnings, instance, sub, linkVars, viewVars, globals, inbox, reported, exited, scope>>
<1>1. /\ log \in [Session -> Seq(BOOLEAN)] /\ durable \in [Session -> Nat] /\ local \in [Session -> Nat]
      /\ owed \in [Session -> Nat]
  BY DEF TypeOK
<1>a. log[s] \in Seq(BOOLEAN) /\ durable[s] \in Nat /\ owed[s] \in Nat /\ local[s] \in Nat BY <1>1
<1>b. \A x \in Session : Precedes(log[x], log[x]) BY <1>1 DEF Precedes
<1>2. CASE Publishes(s) \/ Answers(s)
  <2>1. \E m \in Seq(BOOLEAN) : log' = [log EXCEPT ![s] = m] /\ Precedes(log[s], m)
    <3>1. CASE Publishes(s)
      <4>1. PICK done \in BOOLEAN : log' = [log EXCEPT ![s] = Append(log[s], done)] BY <3>1 DEF Publishes
      <4>2. Append(log[s], done) \in Seq(BOOLEAN) /\ Len(Append(log[s], done)) = Len(log[s]) + 1
            /\ \A i \in 1..Len(log[s]) : Append(log[s], done)[i] = log[s][i]
        BY <1>a, AppendProperties
      <4>3. Precedes(log[s], Append(log[s], done)) BY <4>2, <1>a, LenProperties DEF Precedes
      <4>4. QED BY <4>1, <4>2, <4>3
    <3>2. CASE Answers(s)
      <4>1. PICK i \in DOMAIN log[s] : log' = [log EXCEPT ![s][i] = TRUE] BY <3>2 DEF Answers
      <4>. DEFINE m == [log[s] EXCEPT ![i] = TRUE]
      <4>2. log' = [log EXCEPT ![s] = m] BY <4>1, <1>1
      <4>3. m \in Seq(BOOLEAN) /\ Len(m) = Len(log[s]) BY <1>a, <4>1, ExceptSeq
      <4>4. \A j \in 1..Len(log[s]) : log[s][j] => m[j] BY <1>a
      <4>5. Precedes(log[s], m) BY <4>3, <4>4, <1>a, LenProperties DEF Precedes
      <4>6. QED BY <4>2, <4>3, <4>5
    <3>3. QED BY <1>2, <3>1, <3>2
  <2>2. PICK m \in Seq(BOOLEAN) : log' = [log EXCEPT ![s] = m] /\ Precedes(log[s], m) BY <2>1
  <2>3. Advances(s) BY <1>2 DEF Publishes, Answers
  <2>4. \A x \in Session : /\ log'[x] = (IF x = s THEN m ELSE log[x])
                           /\ durable'[x] = (IF x = s THEN durable[x] + 1 ELSE durable[x])
                           /\ owed'[x] = (IF x = s THEN owed[x] + 1 ELSE owed[x])
                           /\ local'[x] = local[x]
    BY <1>1, <2>2, <2>3 DEF Advances
  <2>5. /\ log' \in [Session -> Seq(BOOLEAN)] /\ durable' \in [Session -> Nat] /\ local' \in [Session -> Nat]
        /\ owed' \in [Session -> Nat]
    BY <1>1, <2>2, <2>3 DEF Advances
  <2>6. \A x \in Session : durable[x] \in Nat /\ local[x] \in Nat /\ owed[x] \in Nat BY <1>1
  <2>7. UNCHANGED <<config, warnings, instance, sub, linkVars, viewVars, globals, inbox, reported, exited, scope>>
    BY <2>3 DEF Advances
  <2>8. owed'[s] > 0 BY <2>4, <1>a
  <2>9. \A x \in Session : /\ durable'[x] >= durable[x] /\ local'[x] >= local[x]
                           /\ durable'[x] = durable[x] => log'[x] = log[x]
    BY <2>4, <2>6
  <2>10. \A x \in Session : Precedes(log[x], log'[x]) BY <2>2, <2>4, <1>b
  <2>11. QED BY <2>4, <2>5, <2>7, <2>8, <2>9, <2>10
<1>3. CASE LocalChange(s)
  <2>1. /\ log' = log /\ durable' = durable /\ local' = [local EXCEPT ![s] = @ + 1]
        /\ owed' = [owed EXCEPT ![s] = @ + 1]
        /\ UNCHANGED <<config, warnings, instance, sub, linkVars, viewVars, globals, inbox, reported, exited, scope>>
    BY <1>3 DEF LocalChange
  <2>2. \A x \in Session : /\ local'[x] = (IF x = s THEN local[x] + 1 ELSE local[x]) /\ durable[x] \in Nat
                           /\ owed'[x] = (IF x = s THEN owed[x] + 1 ELSE owed[x]) /\ local[x] \in Nat
    BY <1>1, <2>1
  <2>3. local' \in [Session -> Nat] /\ owed' \in [Session -> Nat] BY <1>1, <2>1
  <2>4. QED BY <1>1, <1>a, <1>b, <2>1, <2>2, <2>3
<1>4. QED BY <1>2, <1>3 DEF Changed

(* What is observed is enqueued with it. *)
Announces(events) ==
    /\ events \in Seq(Events) /\ Enqueue(events)
    /\ config' = config \/ (config' = config + 1 /\ [kind |-> "configuration_changed", at |-> config'] \in Queued(events))
    /\ warnings' = warnings \/ (warnings' = warnings + 1 /\ [kind |-> "warning_changed", at |-> warnings'] \in Queued(events))
    /\ owed' \in [Session -> Nat]
    /\ \A x \in Session : \/ owed'[x] = owed[x]
                          \/ [kind |-> "session_changed", of |-> x, pair |-> Pair(x)] \in Queued(events)
    /\ \A e \in Queued(events) : e.kind = "session_changed" => e.of \in Session /\ e.pair = Pair(e.of)

(* An observed change moves a clock or pays an invalidation, and announces
   it. *)
LEMMA ObservedDoes ==
    ASSUME TypeOK, Observed
    PROVE  /\ UNCHANGED <<log, durable, local, instance, linkVars, viewVars, globals, inbox, reported, exited, scope>>
           /\ \E events : Announces(events)
<1>1. config \in Nat /\ warnings \in Nat /\ owed \in [Session -> Nat] BY DEF TypeOK
<1>. DEFINE cfg == [kind |-> "configuration_changed", at |-> config + 1]
            warn == [kind |-> "warning_changed", at |-> warnings + 1]
<1>2. cfg \in Events /\ warn \in Events /\ cfg.kind # "session_changed" /\ warn.kind # "session_changed"
  BY <1>1 DEF Events
<1>3. \A e : Queued(<<e>>) = {e} /\ \A f : Queued(<<e, f>>) = {e, f}
  <2>1. ASSUME NEW e PROVE Queued(<<e>>) = {e} BY DEF Queued
  <2>2. ASSUME NEW e, NEW f PROVE Queued(<<e, f>>) = {e, f} BY DEF Queued
  <2>3. QED BY <2>1, <2>2
<1>4. ASSUME NEW e \in Events PROVE <<e>> \in Seq(Events) /\ \A f \in Events : <<e, f>> \in Seq(Events)
  BY <1>4
<1>5. ASSUME NEW s \in Session, Scoped(s)
      PROVE  /\ UNCHANGED <<log, durable, local, instance, linkVars, viewVars, globals, inbox, reported, exited, scope>>
             /\ \E events : Announces(events)
  <2>. DEFINE e == [kind |-> "scope", of |-> s]
  <2>1. e \in Events /\ e.kind # "session_changed" BY DEF Events
  <2>2. /\ Enqueue(<<e>>) /\ config' = config /\ warnings' = warnings /\ owed' = owed
        /\ UNCHANGED <<log, durable, local, instance, linkVars, viewVars, globals, inbox, reported, exited, scope>>
    BY <1>5 DEF Scoped, worldVars
  <2>. HIDE DEF e
  <2>3. Announces(<<e>>) BY <1>1, <1>3, <1>4, <2>1, <2>2 DEF Announces
  <2>4. QED BY <2>2, <2>3
<1>6. ASSUME NEW s \in Session, Invalidates(s)
      PROVE  /\ UNCHANGED <<log, durable, local, instance, linkVars, viewVars, globals, inbox, reported, exited, scope>>
             /\ \E events : Announces(events)
  <2>. DEFINE e == [kind |-> "session_changed", of |-> s, pair |-> Pair(s)]
  <2>1. Pair(s) \in Pairs BY DEF TypeOK, Pair, Pairs
  <2>2. e \in Events /\ e.of = s /\ e.pair = Pair(s) BY <2>1 DEF Events
  <2>3. /\ Enqueue(<<e>>) /\ config' = config /\ warnings' = warnings /\ owed[s] > 0 /\ owed' = [owed EXCEPT ![s] = @ - 1]
        /\ UNCHANGED <<log, durable, local, instance, linkVars, viewVars, globals, inbox, reported, exited, scope>>
    BY <1>6 DEF Invalidates
  <2>4. owed' \in [Session -> Nat] /\ \A x \in Session : x # s => owed'[x] = owed[x] BY <1>1, <2>3
  <2>5. \A x \in Session : owed'[x] = owed[x] \/ [kind |-> "session_changed", of |-> x, pair |-> Pair(x)] \in {e}
    BY <2>4
  <2>. HIDE DEF e
  <2>6. Announces(<<e>>) BY <1>3, <1>4, <2>2, <2>3, <2>4, <2>5 DEF Announces
  <2>7. QED BY <2>3, <2>6
<1>7. ASSUME Reconfigures
      PROVE  /\ UNCHANGED <<log, durable, local, instance, linkVars, viewVars, globals, inbox, reported, exited, scope>>
             /\ \E events : Announces(events)
  <2>1. /\ config' = config + 1 /\ owed' = owed
        /\ UNCHANGED <<log, durable, local, instance, linkVars, viewVars, globals, inbox, reported, exited, scope>>
        /\ \/ warnings' = warnings /\ Enqueue(<<cfg>>)
           \/ warnings' = warnings + 1 /\ Enqueue(<<cfg, warn>>)
    BY <1>7 DEF Reconfigures
  <2>a. /\ config' = config + 1 => cfg = [kind |-> "configuration_changed", at |-> config']
        /\ warnings' = warnings + 1 => warn = [kind |-> "warning_changed", at |-> warnings']
    OBVIOUS
  <2>. HIDE DEF cfg, warn
  <2>2. CASE warnings' = warnings /\ Enqueue(<<cfg>>)
    <3>1. Announces(<<cfg>>) BY <1>1, <1>2, <1>3, <1>4, <2>1, <2>2, <2>a DEF Announces
    <3>2. QED BY <2>1, <3>1
  <2>3. CASE warnings' = warnings + 1 /\ Enqueue(<<cfg, warn>>)
    <3>1. Announces(<<cfg, warn>>) BY <1>1, <1>2, <1>3, <1>4, <2>1, <2>3, <2>a DEF Announces
    <3>2. QED BY <2>1, <3>1
  <2>4. QED BY <2>1, <2>2, <2>3
<1>8. ASSUME Warns
      PROVE  /\ UNCHANGED <<log, durable, local, instance, linkVars, viewVars, globals, inbox, reported, exited, scope>>
             /\ \E events : Announces(events)
  <2>1. /\ warnings' = warnings + 1 /\ owed' = owed /\ config' = config /\ Enqueue(<<warn>>)
        /\ UNCHANGED <<log, durable, local, instance, linkVars, viewVars, globals, inbox, reported, exited, scope>>
    BY <1>8 DEF Warns
  <2>a. warn = [kind |-> "warning_changed", at |-> warnings'] BY <2>1
  <2>. HIDE DEF warn
  <2>2. Announces(<<warn>>) BY <1>1, <1>2, <1>3, <1>4, <2>1, <2>a DEF Announces
  <2>3. QED BY <2>1, <2>2
<1>9. QED BY <1>5, <1>6, <1>7, <1>8 DEF Observed
-----------------------------------------------------------------------------
(* A repair drops everything of the connection. *)
LEMMA RepairDoes ==
    ASSUME TypeOK, Repair
    PROVE  /\ conn' = 0 /\ root' = None /\ dials' = dials /\ served' = served
           /\ dialing' \in [phase : {"connect"}, repair : BOOLEAN, instance : Nat]
           /\ globals' \in [config : Nat, warnings : Nat, dirty : BOOLEAN, task : Tasks \cup {None}]
           /\ globals'.config = 0 /\ globals'.warnings = 0 /\ globals'.dirty
           /\ globals'.task = globals.task
<1>1. globals \in [config : Nat, warnings : Nat, dirty : BOOLEAN, task : Tasks \cup {None}] BY DEF TypeOK
<1>2. globals' = [globals EXCEPT !.config = 0, !.warnings = 0, !.dirty = TRUE] BY DEF Repair, BeginConnection
<1>3. dialing' = [phase |-> "connect", repair |-> TRUE, instance |-> 0] /\ conn' = 0 /\ root' = None
      /\ dials' = dials /\ served' = served
  BY DEF Repair, BeginConnection
<1>4. QED BY <1>1, <1>2, <1>3

(* A connection is published with a reader that reads at once. *)
NewRoot == /\ root' \in Readers /\ root'.id = rootID' /\ rootID' \in Session /\ root'.hydration = None
           /\ root'.items = <<>> /\ root'.cursor = 0 /\ root'.floor = None /\ root'.dirty
           /\ root'.chain = Chain(selection')

(* The published connection starts with a new reader and a running globals'
   task. *)
LEMMA PublishDoes ==
    ASSUME TypeOK, PublishConnection
    PROVE  /\ conn = 0 /\ root = None /\ rootID' = rootID /\ selection' = selection
           /\ root' = None \/ NewRoot
           /\ globals' \in [config : Nat, warnings : Nat, dirty : BOOLEAN, task : Tasks]
           /\ globals'.config = globals.config /\ globals'.warnings = globals.warnings
           /\ globals'.dirty = globals.dirty
           /\ globals'.task = globals.task \/ globals'.task.phase = "head"
<1>1. /\ globals \in [config : Nat, warnings : Nat, dirty : BOOLEAN, task : Tasks \cup {None}]
      /\ rootID \in Session \cup {None} /\ selection \in Nat
  BY DEF TypeOK
<1>2. conn = 0 /\ root = None BY DEF TypeOK, PublishConnection
<1>3. rootID' = rootID /\ selection' = selection BY DEF PublishConnection
<1>4. root' = None \/ NewRoot
  <2>1. CASE rootID = None BY <2>1 DEF PublishConnection
  <2>2. CASE rootID # None
    <3>1. root' = Kick(NewReader(rootID), selection) BY <2>2 DEF PublishConnection
    <3>2. QED BY <3>1, <2>2, <1>1, <1>3, Fresh DEF NewRoot
  <2>3. QED BY <2>1, <2>2
<1>5. [phase |-> "head"] \in Tasks BY DEF Tasks
<1>6. globals' = IF globals.task = None THEN [globals EXCEPT !.task = [phase |-> "head"]] ELSE globals
  BY DEF PublishConnection
<1>7. QED BY <1>1, <1>2, <1>3, <1>4, <1>5, <1>6

(* What a frame does to the reader and to the globals. *)
Marked(event) ==
    /\ UNCHANGED linkVars
    /\ root = None => root' = None
    /\ root # None =>
         /\ root' \in Readers /\ Touched(root, root') /\ (root.dirty \/ Touches(event)) = root'.dirty
         /\ Touches(event) => root'.chain # NoChain
         /\ root'.chain = root.chain \/ (root.chain = NoChain /\ root'.chain = Chain(selection))
    /\ globals' \in [config : Nat, warnings : Nat, dirty : BOOLEAN, task : Tasks \cup {None}]
    /\ globals'.config = globals.config /\ globals'.warnings = globals.warnings
    /\ globals'.dirty = (globals.dirty \/ TouchesGlobals(event))
    /\ TouchesGlobals(event) => globals'.task # None
    /\ globals'.task = globals.task \/ (globals.task = None /\ globals'.task = [phase |-> "head"])

(* A frame is dropped, repairs, or marks. *)
LEMMA AcceptDoes ==
    ASSUME TypeOK, AcceptEvent
    PROVE  /\ inbox # <<>> /\ inbox' = Tail(inbox) /\ Head(inbox).event \in Events
           /\ \/ Head(inbox).conn # conn /\ UNCHANGED <<linkVars, root, globals>>
              \/ Head(inbox).conn = conn /\ Unordered(Head(inbox).event) /\ Repair
              \/ Head(inbox).conn = conn /\ ~Unordered(Head(inbox).event) /\ Marked(Head(inbox).event)
<1>1. inbox # <<>> /\ inbox' = Tail(inbox) BY DEF AcceptEvent
<1>2. inbox \in Seq([conn : Nat, event : Events]) BY DEF TypeOK
<1>3. Head(inbox).event \in Events
  <2>1. Head(inbox) \in [conn : Nat, event : Events] BY <1>1, <1>2, HeadTailProperties
  <2>2. QED BY <2>1
<1>. DEFINE e == Head(inbox).event
<1>4. CASE Head(inbox).conn # conn BY <1>1, <1>3, <1>4 DEF AcceptEvent
<1>5. CASE Head(inbox).conn = conn /\ Unordered(e) BY <1>1, <1>3, <1>5 DEF AcceptEvent
<1>6. CASE Head(inbox).conn = conn /\ ~Unordered(e)
  <2>1. /\ root' = IF Touches(e) THEN Kick(Dirtied(root), selection) ELSE root
        /\ globals' = IF TouchesGlobals(e) THEN KickGlobals([globals EXCEPT !.dirty = TRUE]) ELSE globals
        /\ UNCHANGED linkVars
    BY <1>6 DEF AcceptEvent
  <2>2. /\ globals \in [config : Nat, warnings : Nat, dirty : BOOLEAN, task : Tasks \cup {None}]
        /\ root \in Readers \cup {None} /\ selection \in Nat
    BY DEF TypeOK
  <2>. HIDE DEF e
  <2>3. /\ globals' \in [config : Nat, warnings : Nat, dirty : BOOLEAN, task : Tasks \cup {None}]
        /\ globals'.config = globals.config /\ globals'.warnings = globals.warnings
        /\ globals'.dirty = (globals.dirty \/ TouchesGlobals(e))
        /\ TouchesGlobals(e) => globals'.task # None
        /\ globals'.task = globals.task \/ (globals.task = None /\ globals'.task = [phase |-> "head"])
    <3>1. CASE TouchesGlobals(e)
      <4>. DEFINE g == [globals EXCEPT !.dirty = TRUE]
      <4>1. /\ g \in [config : Nat, warnings : Nat, dirty : BOOLEAN, task : Tasks \cup {None}]
            /\ g.config = globals.config /\ g.warnings = globals.warnings /\ g.dirty /\ g.task = globals.task
        BY <2>2
      <4>2. globals' = IF g.task = None THEN [g EXCEPT !.task = [phase |-> "head"]] ELSE g
        BY <3>1, <2>1 DEF KickGlobals
      <4>. HIDE DEF g
      <4>3. [phase |-> "head"] \in Tasks /\ None \notin Tasks BY NilIs DEF Tasks
      <4>4. CASE g.task = None
        <5>1. globals' = [g EXCEPT !.task = [phase |-> "head"]] BY <4>2, <4>4
        <5>2. globals' \in [config : Nat, warnings : Nat, dirty : BOOLEAN, task : Tasks \cup {None}]
              /\ globals'.task = [phase |-> "head"] /\ globals'.dirty /\ globals'.config = globals.config
              /\ globals'.warnings = globals.warnings
          BY <5>1, <4>1, <4>3
        <5>3. globals'.task # None BY <5>2, <4>3
        <5>4. QED BY <5>2, <5>3, <3>1, <4>1, <4>4
      <4>5. CASE g.task # None BY <4>1, <4>2, <4>5, <3>1
      <4>6. QED BY <4>4, <4>5
    <3>2. CASE ~TouchesGlobals(e)
      <4>1. globals' = globals /\ globals.dirty \in BOOLEAN BY <3>2, <2>1, <2>2
      <4>2. QED BY <3>2, <4>1, <2>2
    <3>3. QED BY <3>1, <3>2
  <2>4. root = None => root' = None
    <3>1. ASSUME root = None PROVE ~Touches(e) BY <3>1 DEF Touches
    <3>2. QED BY <3>1, <2>1
  <2>5. ASSUME root # None
        PROVE  /\ root' \in Readers /\ Touched(root, root') /\ (root.dirty \/ Touches(e)) = root'.dirty
               /\ Touches(e) => root'.chain # NoChain
               /\ root'.chain = root.chain \/ (root.chain = NoChain /\ root'.chain = Chain(selection))
    <3>1. root \in Readers BY <2>2, <2>5
    <3>2. CASE Touches(e)
      <4>1. /\ Dirtied(root) \in Readers /\ Touched(root, Dirtied(root)) /\ Dirtied(root).dirty
            /\ Dirtied(root).chain = root.chain
        BY <3>1, DirtiedIs
      <4>. DEFINE r == Dirtied(root)
      <4>2. root' = Kick(r, selection) /\ r \in Readers /\ r.dirty /\ r.chain = root.chain
            /\ Touched(root, r)
        BY <3>2, <2>1, <4>1
      <4>. HIDE DEF r
      <4>3. /\ root' \in Readers /\ Touched(r, root') /\ root'.dirty = r.dirty /\ root'.chain # NoChain
            /\ root'.chain = r.chain \/ (r.chain = NoChain /\ root'.chain = Chain(selection))
        BY <4>2, <2>2, Kicked
      <4>4. Touched(root, root') BY <4>2, <4>3 DEF Touched
      <4>5. QED BY <3>2, <4>2, <4>3, <4>4
    <3>3. CASE ~Touches(e)
      <4>1. root' = root /\ root.dirty \in BOOLEAN BY <3>1, <3>3, <2>1 DEF Readers
      <4>2. Touched(root, root) BY DEF Touched
      <4>3. QED BY <3>1, <3>3, <4>1, <4>2
    <3>4. QED BY <3>2, <3>3
  <2>6. Marked(e) BY <2>1, <2>3, <2>4, <2>5 DEF Marked
  <2>7. QED BY <1>1, <1>3, <1>6, <2>6 DEF e
<1>7. QED BY <1>4, <1>5, <1>6
(* What a navigation, an inspection or a request for more does to the
   reader. *)
Kept == rootID' = rootID /\ root' = root /\ \E n : navs' = navs \cup {n} /\ n.conn = conn /\ n \in Navs
                                                  /\ n.kind = "adopt" /\ n.sel = selection'
Replaced == conn # 0 /\ NewRoot /\ navs' \subseteq navs
Moved == /\ rootID' = rootID /\ navs' \subseteq navs
         /\ root = None => root' = None
         /\ root # None => /\ root' \in Readers /\ Touched(root, root') /\ (root.dirty => root'.dirty)
                           /\ root'.dirty => root'.chain # NoChain \/ (root'.chain = root.chain /\ root.dirty)
                           /\ \/ root'.chain = root.chain
                              \/ root.chain = NoChain /\ root'.chain = Chain(selection')
                              \/ root'.dirty /\ root'.chain = Chain(selection')

(* Every navigation keeps, replaces or moves the reader. *)
LEMMA NavDoes ==
    ASSUME TypeOK, NavStep
    PROVE  selection' \in Nat /\ (Kept \/ Replaced \/ Moved)
<1>1. /\ selection \in Nat /\ conn \in Nat /\ navs \subseteq Navs /\ root \in Readers \cup {None}
      /\ root # None => conn # 0
  BY DEF TypeOK
<1>2. CASE Navigate
  <2>. DEFINE n == [kind |-> "adopt", sel |-> selection + 1, conn |-> conn]
  <2>1. selection' = selection + 1 /\ rootID' = rootID /\ root' = root /\ navs' = navs \cup {n}
    BY <1>2 DEF Navigate
  <2>2. n \in Navs /\ n.kind = "adopt" /\ n.sel = selection' /\ n.conn = conn BY <1>1, <2>1 DEF Navs
  <2>. HIDE DEF n
  <2>3. QED BY <1>1, <2>1, <2>2 DEF Kept
<1>3. CASE Inspect
  <2>1. /\ selection' = selection + 1 /\ rootID' = rootID /\ navs' = navs
        /\ root' = IF conn = 0 THEN root ELSE Resume(root, selection')
    BY <1>3 DEF Inspect
  <2>2. selection' \in Nat BY <1>1, <2>1
  <2>3. CASE root = None BY <2>1, <2>2, <2>3 DEF Moved, Resume
  <2>4. CASE root # None
    <3>1. root \in Readers /\ root' = Resume(root, selection') BY <1>1, <2>1, <2>4
    <3>2. root' \in Readers /\ Touched(root, root') /\ root'.dirty /\ root'.chain = Chain(selection')
      BY <3>1, <2>2, Resumed
    <3>3. Chain(selection') # NoChain BY DEF Chain, NoChain
    <3>4. QED BY <2>1, <2>2, <2>4, <3>2, <3>3 DEF Moved
  <2>5. QED BY <2>3, <2>4
<1>4. CASE WantOlder
  <2>. DEFINE r == [root EXCEPT !.older = TRUE]
  <2>1. /\ selection' = selection /\ rootID' = rootID /\ navs' = navs /\ root # None /\ root' = Kick(r, selection)
    BY <1>4 DEF WantOlder
  <2>2. r \in Readers /\ Touched(root, r) /\ r.dirty = root.dirty /\ r.chain = root.chain
    BY <1>1, <2>1 DEF Readers, Touched
  <2>. HIDE DEF r
  <2>3. /\ root' \in Readers /\ Touched(r, root') /\ root'.dirty = r.dirty /\ (r.dirty => root'.chain # NoChain)
        /\ root'.chain = r.chain \/ (r.chain = NoChain /\ root'.chain = Chain(selection))
    BY <1>1, <2>1, <2>2, Kicked
  <2>4. Touched(root, root') BY <2>2, <2>3 DEF Touched
  <2>5. QED BY <1>1, <2>1, <2>2, <2>3, <2>4 DEF Moved
<1>5. ASSUME NEW n \in navs, NavigationFails(n) PROVE selection' \in Nat /\ Moved
  <2>1. /\ selection' = selection /\ rootID' = rootID /\ navs' \subseteq navs
        /\ root' = IF Current(n) /\ n.kind = "adopt" THEN Resume(root, selection) ELSE root
    BY <1>5 DEF NavigationFails
  <2>2. CASE root = None BY <1>1, <2>1, <2>2 DEF Moved, Resume
  <2>3. CASE root # None /\ Current(n) /\ n.kind = "adopt"
    <3>1. root \in Readers /\ root' = Resume(root, selection) BY <1>1, <2>1, <2>3
    <3>2. root' \in Readers /\ Touched(root, root') /\ root'.dirty /\ root'.chain = Chain(selection)
      BY <1>1, <3>1, Resumed
    <3>3. Chain(selection) # NoChain BY DEF Chain, NoChain
    <3>4. QED BY <1>1, <2>1, <2>3, <3>2, <3>3 DEF Moved
  <2>4. CASE root # None /\ ~(Current(n) /\ n.kind = "adopt")
    <3>1. root \in Readers /\ root' = root BY <1>1, <2>1, <2>4
    <3>2. Touched(root, root) BY DEF Touched
    <3>3. QED BY <1>1, <2>1, <2>4, <3>1, <3>2 DEF Moved
  <2>5. QED BY <2>2, <2>3, <2>4
<1>6. ASSUME NEW n \in navs, NEW s \in Session, NavigationResolves(n, s)
      PROVE  selection' \in Nat /\ (Replaced \/ Moved)
  <2>1. navs' \subseteq navs BY <1>6 DEF NavigationResolves
  <2>2. CASE ~Current(n)
    <3>1. selection' = selection /\ rootID' = rootID /\ root' = root BY <1>6, <2>2 DEF NavigationResolves
    <3>2. Touched(root, root) BY DEF Touched
    <3>3. QED BY <1>1, <2>1, <3>1, <3>2 DEF Moved
  <2>3. CASE Current(n)
    <3>1. /\ selection' = (IF n.kind = "adopt" THEN selection + 1 ELSE selection)
          /\ rootID' = s /\ root' = Kick(NewReader(s), selection')
      BY <1>6, <2>3 DEF NavigationResolves
    <3>2. selection' \in Nat /\ conn # 0 BY <1>1, <3>1, <2>3 DEF Current
    <3>3. NewRoot BY <3>1, <3>2, Fresh DEF NewRoot
    <3>4. QED BY <2>1, <3>2, <3>3 DEF Replaced
  <2>4. QED BY <2>2, <2>3
<1>7. QED BY <1>2, <1>3, <1>4, <1>5, <1>6 DEF NavStep, User, Resolves
-----------------------------------------------------------------------------
(* Types. *)
WorldOK == /\ log \in [Session -> Seq(BOOLEAN)] /\ owed \in [Session -> Nat]
           /\ durable \in [Session -> Nat] /\ local \in [Session -> Nat]
           /\ config \in Nat /\ warnings \in Nat /\ instance \in Nat
SubOK == sub \in [open : BOOLEAN, queue : Seq(Events)] /\ Len(sub.queue) <= StreamCap
LinkOK == /\ dials \in Nat /\ conn \in {0, dials} /\ served \in Nat
          /\ dialing \in [phase : {"none", "connect", "subscribe", "publish"}, repair : BOOLEAN, instance : Nat]
          /\ conn # 0 => dialing.phase = "none"
RootOK == /\ selection \in Nat /\ rootID \in Session \cup {None}
          /\ root \in Readers \cup {None} /\ (root # None => root.id = rootID /\ conn # 0)
GlobalsOK == globals \in [config : Nat, warnings : Nat, dirty : BOOLEAN, task : Tasks \cup {None}]
RestOK == /\ inbox \in Seq([conn : Nat, event : Events]) /\ Len(inbox) <= InboxCap
          /\ navs \subseteq Navs /\ reported \in BOOLEAN /\ exited \in BOOLEAN /\ scope \in Scopes

(* TypeOK, variable by variable. *)
LEMMA TypeParts == TypeOK <=> WorldOK /\ SubOK /\ LinkOK /\ RootOK /\ GlobalsOK /\ RestOK
BY DEF TypeOK, WorldOK, SubOK, LinkOK, RootOK, GlobalsOK, RestOK

(* Steps of the chain and of the user leave the rest alone. *)
LEMMA Frames ==
    /\ ChainStep => UNCHANGED <<worldVars, sub, linkVars, selection, rootID, navs, inbox, exited, scope, globals>>
    /\ ReadsGlobals => UNCHANGED <<worldVars, sub, linkVars, viewVars, inbox, exited, scope>>
    /\ NavStep => UNCHANGED <<worldVars, sub, linkVars, globals, inbox, reported, exited, scope>>
    /\ Adopt => UNCHANGED <<worldVars, sub, selection, rootID, navs, inbox, reported, exited, scope>>
    /\ AcceptEvent => UNCHANGED <<worldVars, sub, selection, rootID, navs, reported, exited, scope>>
    /\ StreamEnds => UNCHANGED <<worldVars, sub, selection, rootID, navs, inbox, reported, exited, scope>>
    /\ Forward => UNCHANGED <<worldVars, selection, rootID, navs, reported, exited, scope>>
    /\ PublishConnection => UNCHANGED <<worldVars, sub, dials, selection, rootID, inbox, reported, exited, scope>>
    /\ Connect => UNCHANGED <<worldVars, sub, conn, served, dials, viewVars, globals, inbox, reported, exited, scope>>
    /\ Subscribe => UNCHANGED <<worldVars, conn, served, viewVars, globals, inbox, reported, scope>>
    /\ Lose => UNCHANGED <<worldVars, linkVars, viewVars, globals, inbox, reported, exited, scope>>
    /\ Restart => UNCHANGED <<log, durable, linkVars, viewVars, globals, inbox, reported, exited, scope>>
<1>1. ChainStep => UNCHANGED <<worldVars, sub, linkVars, selection, rootID, navs, inbox, exited, scope, globals>>
  BY ChainKeeps DEF ReadVars
<1>2. ReadsGlobals => UNCHANGED <<worldVars, sub, linkVars, viewVars, inbox, exited, scope>>
  BY GlobalsKeep DEF GlobalsVars
<1>3. NavStep => UNCHANGED <<worldVars, sub, linkVars, globals, inbox, reported, exited, scope>>
  BY NavKeeps DEF NavVars
<1>4. QED BY <1>1, <1>2, <1>3 DEF Adopt, AcceptEvent, StreamEnds, Forward, PublishConnection, Connect, Subscribe, Lose, Restart

(* What the chain's step makes of its reader. *)
LEMMA ChainDoes ==
    ASSUME TypeOK, ViewInv, ChainStep
    PROVE  /\ root \in Readers /\ root' \in Readers /\ root'.id = root.id /\ root'.hydration = root.hydration
           /\ root'.items = root.items /\ root'.cursor = root.cursor /\ root'.floor = root.floor
           /\ ViewOf(root', log[rootID], durable[rootID])
           /\ root'.chain = NoChain \/ root'.chain.sel = selection
           /\ root'.dirty => root'.chain # NoChain \/ reported'
<1>1. CASE ReadHead
  <2>1. /\ root \in Readers /\ root' \in Readers /\ root'.id = root.id /\ root'.hydration = root.hydration
        /\ root'.items = root.items /\ root'.cursor = root.cursor /\ root'.floor = root.floor
        /\ ~root'.dirty /\ root'.chain.phase \in {"none", "page", "head", "session"}
        /\ root'.chain = NoChain \/ root'.chain.sel = selection
        /\ root'.chain.phase = "page" => root.cursor # 0
    BY <1>1, HeadDoes DEF NoChain
  <2>2. ViewOf(root, log[rootID], durable[rootID]) BY <1>1, ReadingIs DEF ReadHead
  <2>3. ViewOf(root', log[rootID], durable[rootID])
    BY <2>1, <2>2 DEF ViewOf, Holds, Fetched, Walks, Adopts, NextOf
  <2>4. QED BY <2>1, <2>3
<1>2. CASE ReadFails
  <2>1. /\ root \in Readers /\ root' \in Readers /\ Touched(root, root') /\ root'.chain = NoChain /\ reported'
    BY <1>2, FailsDoes
  <2>2. ViewOf(root, log[rootID], durable[rootID])
    BY <1>2, ReadingIs DEF ReadFails
  <2>3. QED BY <2>1, <2>2, ViewTouched DEF Touched
<1>3. CASE ReadSessionView \/ ReadHydration \/ WalkBack \/ ReadOlderPage
  <2>1. PICK c \in Chains : Moves(c) /\ c.phase # "none"
    <3>1. CASE ReadSessionView BY <3>1, SessionDoes
    <3>2. CASE ReadHydration BY <3>2, HydrationDoes
    <3>3. CASE WalkBack BY <3>3, WalkDoes
    <3>4. CASE ReadOlderPage BY <3>4, OlderDoes
    <3>5. QED BY <1>3, <3>1, <3>2, <3>3, <3>4
  <2>2. root # None
    BY <1>3, ReadingIs DEF ReadSessionView, ReadHydration, WalkBack, ReadOlderPage
  <2>3. root \in Readers BY <2>2, RootKinds
  <2>4. root' = [root EXCEPT !.chain = c] /\ c.sel = selection /\ ViewOf(root', log[rootID], durable[rootID])
    BY <2>1 DEF Moves
  <2>5. /\ root' \in Readers /\ root'.chain = c /\ root'.id = root.id /\ root'.hydration = root.hydration /\ root'.items = root.items
        /\ root'.cursor = root.cursor /\ root'.floor = root.floor
    BY <2>3, <2>4, WithChain
  <2>6. c # NoChain BY <2>1 DEF NoChain
  <2>7. QED BY <2>3, <2>4, <2>5, <2>6
<1>4. QED BY <1>1, <1>2, <1>3 DEF ChainStep

(* The globals keep their kind. *)
LEMMA GlobalsStep ==
    ASSUME TypeOK, ReadsGlobals
    PROVE  GlobalsOK' /\ reported' \in BOOLEAN
<1>1. /\ globals \in [config : Nat, warnings : Nat, dirty : BOOLEAN, task : Tasks \cup {None}]
      /\ conn \in Nat /\ served \in Nat /\ config \in Nat /\ warnings \in Nat /\ reported \in BOOLEAN
  BY DEF TypeOK
<1>a. globals.task \in Tasks \cup {None} /\ globals.config \in Nat /\ globals.warnings \in Nat /\ globals.dirty \in BOOLEAN
  BY <1>1
<1>2. CASE ReadConfiguration
  <2>1. reported' = reported BY <1>2 DEF ReadConfiguration
  <2>2. CASE globals' = [globals EXCEPT !.task = None] BY <1>1, <2>1, <2>2 DEF GlobalsOK
  <2>3. ASSUME NEW c \in {0, config},
               globals' = [globals EXCEPT !.dirty = FALSE,
                    !.task = [phase |-> "warnings", conn |-> conn, instance |-> served, config |-> c]]
        PROVE  GlobalsOK'
    <3>. DEFINE t == [phase |-> "warnings", conn |-> conn, instance |-> served, config |-> c]
    <3>1. t \in Tasks BY <1>1, <2>3 DEF Tasks
    <3>2. globals' = [globals EXCEPT !.dirty = FALSE, !.task = t] BY <2>3
    <3>. HIDE DEF t
    <3>3. QED BY <1>1, <3>1, <3>2 DEF GlobalsOK
  <2>4. QED BY <1>1, <1>2, <2>1, <2>2, <2>3 DEF ReadConfiguration
<1>3. CASE ReadWarnings
  <2>1. reported' = reported /\ globals.task # None /\ globals.task.phase = "warnings" BY <1>3 DEF ReadWarnings
  <2>2. globals.task.conn \in Nat /\ globals.task.config \in Nat BY <1>a, <2>1 DEF Tasks
  <2>3. PICK w \in {0, warnings} :
          globals' = [globals EXCEPT !.task = [phase |-> "adopt", conn |-> globals.task.conn,
                                               config |-> globals.task.config, warnings |-> w]]
    BY <1>3 DEF ReadWarnings
  <2>. DEFINE t == [phase |-> "adopt", conn |-> globals.task.conn, config |-> globals.task.config, warnings |-> w]
  <2>4. t \in Tasks /\ globals' = [globals EXCEPT !.task = t] BY <1>1, <2>2, <2>3 DEF Tasks
  <2>. HIDE DEF t
  <2>5. QED BY <1>1, <2>1, <2>4 DEF GlobalsOK
<1>4. CASE AdoptGlobals
  <2>1. globals.task # None /\ globals.task.phase = "adopt" BY <1>4 DEF AdoptGlobals
  <2>2. globals.task.config \in Nat /\ globals.task.warnings \in Nat BY <1>a, <2>1 DEF Tasks
  <2>3. [phase |-> "head"] \in Tasks BY DEF Tasks
  <2>4. CASE globals.task.conn # conn
    <3>1. globals' = [globals EXCEPT !.dirty = TRUE, !.task = [phase |-> "head"]] /\ reported' = reported
      BY <1>4, <2>4 DEF AdoptGlobals
    <3>2. QED BY <1>1, <2>3, <3>1 DEF GlobalsOK
  <2>5. CASE globals.task.conn = conn
    <3>1. PICK b \in BOOLEAN :
             globals' = [config   |-> Highest(globals.task.config, globals.config),
                         warnings |-> Highest(globals.task.warnings, globals.warnings),
                         dirty    |-> b, task     |-> [phase |-> "head"]]
      BY <1>4, <2>5 DEF AdoptGlobals
    <3>2. Highest(globals.task.config, globals.config) \in Nat /\ Highest(globals.task.warnings, globals.warnings) \in Nat
      BY <1>a, <2>2 DEF Highest
    <3>3. reported' \in BOOLEAN BY <1>1, <1>4, <2>5 DEF AdoptGlobals
    <3>4. QED BY <2>3, <3>1, <3>2, <3>3 DEF GlobalsOK
  <2>6. QED BY <2>4, <2>5
<1>5. QED BY <1>2, <1>3, <1>4 DEF ReadsGlobals

(* A frame moves to the inbox, or meets a full one and repairs. *)
LEMMA ForwardIs ==
    ASSUME TypeOK, Forward
    PROVE  /\ sub' \in [open : BOOLEAN, queue : Seq(Events)] /\ Len(sub'.queue) <= StreamCap
           /\ sub'.open = sub.open /\ sub'.queue = Tail(sub.queue) /\ sub'.queue # sub.queue
           /\ Head(sub.queue) \in Events /\ Queued(sub.queue) = {Head(sub.queue)} \cup Queued(sub'.queue)
           /\ conn \in Nat \ {0}
           /\ \/ /\ inbox' = Append(inbox, [conn |-> conn, event |-> Head(sub.queue)]) /\ Len(inbox) < InboxCap
                 /\ UNCHANGED <<linkVars, root, globals>>
              \/ Repair /\ UNCHANGED inbox /\ Len(inbox) = InboxCap
<1>1. /\ sub \in [open : BOOLEAN, queue : Seq(Events)] /\ Len(sub.queue) <= StreamCap
      /\ StreamCap \in Nat /\ sub.queue # <<>> /\ sub.queue \in Seq(Events) /\ conn \in Nat \ {0}
      /\ InboxCap \in Nat /\ Len(inbox) <= InboxCap /\ Len(inbox) \in Nat
  BY ReaderAssumption, LenProperties DEF TypeOK, Forward
<1>2. sub' = [sub EXCEPT !.queue = Tail(@)] BY DEF Forward
<1>3. /\ Tail(sub.queue) \in Seq(Events) /\ Len(Tail(sub.queue)) = Len(sub.queue) - 1 /\ Len(sub.queue) \in Nat
      /\ Head(sub.queue) \in Events /\ Queued(sub.queue) = {Head(sub.queue)} \cup Queued(Tail(sub.queue))
  BY <1>1, QueuedIs, HeadTailProperties, LenProperties
<1>4. sub'.queue = Tail(sub.queue) /\ sub'.open = sub.open /\ sub' \in [open : BOOLEAN, queue : Seq(Events)]
  BY <1>1, <1>2, <1>3
<1>5. sub'.queue # sub.queue /\ Len(sub'.queue) <= StreamCap BY <1>1, <1>3, <1>4
<1>6. \/ /\ inbox' = Append(inbox, [conn |-> conn, event |-> Head(sub.queue)]) /\ Len(inbox) < InboxCap
         /\ UNCHANGED <<linkVars, root, globals>>
      \/ Repair /\ UNCHANGED inbox /\ ~(Len(inbox) < InboxCap)
  BY DEF Forward
<1>7. QED BY <1>1, <1>3, <1>4, <1>5, <1>6

(* Every step keeps the kinds. *)
LEMMA TypeStep ==
    ASSUME TypeOK, LinkInv, ViewInv, Next
    PROVE  TypeOK'
<1>0. WorldOK /\ SubOK /\ LinkOK /\ RootOK /\ GlobalsOK /\ RestOK BY TypeParts
<1>1. ASSUME NEW s \in Session, Changed(s) PROVE TypeOK'
  <2>1. /\ WorldOK'
        /\ UNCHANGED <<sub, linkVars, viewVars, globals, inbox, reported, exited, scope>>
    BY <1>0, <1>1, ChangedDoes DEF WorldOK
  <2>2. SubOK' /\ LinkOK' /\ RootOK' /\ GlobalsOK' /\ RestOK'
    BY <1>0, <2>1 DEF SubOK, LinkOK, RootOK, GlobalsOK, RestOK, linkVars, viewVars
  <2>3. QED BY <2>1, <2>2 DEF TypeOK, WorldOK, SubOK, LinkOK, RootOK, GlobalsOK, RestOK
<1>2. ASSUME Observed PROVE TypeOK'
  <2>1. /\ UNCHANGED <<log, durable, local, instance, linkVars, viewVars, globals, inbox, reported, exited, scope>>
        /\ \E events : Announces(events)
    BY <1>2, ObservedDoes
  <2>2. PICK events : Announces(events) BY <2>1
  <2>3. SubOK' BY <2>2, EnqueueIs DEF Announces, SubOK
  <2>4. WorldOK' BY <1>0, <2>1, <2>2 DEF WorldOK, Announces
  <2>5. LinkOK' /\ RootOK' /\ GlobalsOK' /\ RestOK'
    BY <1>0, <2>1 DEF LinkOK, RootOK, GlobalsOK, RestOK, linkVars, viewVars
  <2>6. QED BY <2>3, <2>4, <2>5 DEF TypeOK, WorldOK, SubOK, LinkOK, RootOK, GlobalsOK, RestOK
<1>3. ASSUME Lose \/ Restart PROVE TypeOK'
  <2>1. UNCHANGED <<log, durable, linkVars, viewVars, globals, inbox, reported, exited, scope>>
    BY <1>3, Frames DEF worldVars
  <2>2. sub' = [sub EXCEPT !.open = FALSE] BY <1>3 DEF Lose, Restart
  <2>3. SubOK' BY <1>0, <2>2 DEF SubOK
  <2>4. WorldOK'
    <3>1. CASE Lose BY <1>0, <3>1 DEF Lose, WorldOK, worldVars
    <3>2. CASE Restart BY <1>0, <3>2 DEF Restart, WorldOK
    <3>3. QED BY <1>3, <3>1, <3>2
  <2>5. LinkOK' /\ RootOK' /\ GlobalsOK' /\ RestOK'
    BY <1>0, <2>1 DEF LinkOK, RootOK, GlobalsOK, RestOK, linkVars, viewVars
  <2>6. QED BY <2>3, <2>4, <2>5 DEF TypeOK, WorldOK, SubOK, LinkOK, RootOK, GlobalsOK, RestOK
<1>4. ASSUME ChainStep PROVE TypeOK'
  <2>1. UNCHANGED <<worldVars, sub, linkVars, selection, rootID, navs, inbox, exited, scope, globals>>
    BY <1>4, Frames
  <2>2. root \in Readers /\ root' \in Readers /\ root'.id = root.id /\ root # None
    BY <1>4, ChainDoes, NilIs
  <2>3. reported' \in BOOLEAN
    BY <1>0, <1>4 DEF RestOK, ChainStep, ReadHead, ReadSessionView, ReadHydration, WalkBack, ReadOlderPage, ReadFails
  <2>4. RootOK' BY <1>0, <2>1, <2>2 DEF RootOK, linkVars
  <2>5. WorldOK' /\ SubOK' /\ LinkOK' /\ GlobalsOK' /\ RestOK'
    BY <1>0, <2>1, <2>3 DEF WorldOK, SubOK, LinkOK, GlobalsOK, RestOK, worldVars, linkVars
  <2>6. QED BY <2>4, <2>5 DEF TypeOK, WorldOK, SubOK, LinkOK, RootOK, GlobalsOK, RestOK
<1>r. ASSUME Repair, UNCHANGED <<selection, rootID>> PROVE LinkOK' /\ RootOK' /\ GlobalsOK'
  <2>1. LinkOK' BY <1>0, <1>r, RepairDoes DEF LinkOK
  <2>2. RootOK' BY <1>0, <1>r, RepairDoes DEF RootOK
  <2>3. GlobalsOK' BY <1>r, RepairDoes DEF GlobalsOK
  <2>4. QED BY <2>1, <2>2, <2>3
<1>5. ASSUME Adopt PROVE TypeOK'
  <2>1. UNCHANGED <<worldVars, sub, selection, rootID, navs, inbox, reported, exited, scope>> BY <1>5, Frames
  <2>2. LinkOK' /\ RootOK' /\ GlobalsOK'
    <3>1. CASE Refused BY <1>r, <2>1, <3>1 DEF Refused
    <3>2. CASE Repeated \/ Adopted
      <4>1. root' \in Readers /\ root'.id = root.id /\ UNCHANGED <<linkVars, globals>>
        BY <3>2 DEF Repeated, Adopted, Touched
      <4>2. root # None BY <1>5, AdoptDoes
      <4>3. RootOK' BY <1>0, <2>1, <4>1, <4>2 DEF RootOK, linkVars
      <4>4. QED BY <1>0, <4>1, <4>3 DEF LinkOK, GlobalsOK, linkVars
    <3>3. QED BY <1>5, <3>1, <3>2, AdoptDoes
  <2>3. WorldOK' /\ SubOK' /\ RestOK' BY <1>0, <2>1 DEF WorldOK, SubOK, RestOK, worldVars
  <2>4. QED BY <2>2, <2>3 DEF TypeOK, WorldOK, SubOK, LinkOK, RootOK, GlobalsOK, RestOK
<1>6. ASSUME ReadsGlobals PROVE TypeOK'
  <2>1. UNCHANGED <<worldVars, sub, linkVars, viewVars, inbox, exited, scope>> BY <1>6, Frames
  <2>2. GlobalsOK' /\ reported' \in BOOLEAN BY <1>6, GlobalsStep
  <2>3. WorldOK' /\ SubOK' /\ LinkOK' /\ RootOK' /\ RestOK'
    BY <1>0, <2>1, <2>2 DEF WorldOK, SubOK, LinkOK, RootOK, RestOK, worldVars, linkVars, viewVars
  <2>4. QED BY <2>2, <2>3 DEF TypeOK, WorldOK, SubOK, LinkOK, RootOK, GlobalsOK, RestOK
<1>7. ASSUME Connect PROVE TypeOK'
  <2>1. UNCHANGED <<worldVars, sub, conn, served, dials, viewVars, globals, inbox, reported, exited, scope>> BY <1>7, Frames
  <2>2. LinkOK'
    <3>1. dialing' = [dialing EXCEPT !.phase = "subscribe", !.instance = instance] /\ dialing.phase = "connect"
      BY <1>7 DEF Connect
    <3>2. instance \in Nat BY <1>0 DEF WorldOK
    <3>3. QED BY <1>0, <2>1, <3>1, <3>2 DEF LinkOK
  <2>3. WorldOK' /\ SubOK' /\ RootOK' /\ GlobalsOK' /\ RestOK'
    BY <1>0, <2>1 DEF WorldOK, SubOK, RootOK, GlobalsOK, RestOK, worldVars, viewVars
  <2>4. QED BY <2>2, <2>3 DEF TypeOK, WorldOK, SubOK, LinkOK, RootOK, GlobalsOK, RestOK
<1>8. ASSUME Subscribe PROVE TypeOK'
  <2>1. UNCHANGED <<worldVars, conn, served, viewVars, globals, inbox, reported, scope>> BY <1>8, Frames
  <2>2. conn = 0 /\ dialing.phase = "subscribe" BY <1>0, <1>8 DEF Subscribe, LinkOK
  <2>3. LinkOK' BY <1>0, <1>8, <2>1, <2>2 DEF LinkOK, Subscribe
  <2>4. SubOK'
    <3>1. Len(<<>>) <= StreamCap BY ReaderAssumption
    <3>2. sub' = sub \/ sub' = [open |-> TRUE, queue |-> <<>>] BY <1>8 DEF Subscribe
    <3>3. <<>> \in Seq(Events) OBVIOUS
    <3>4. CASE sub' = sub BY <1>0, <3>4 DEF SubOK
    <3>5. CASE sub' = [open |-> TRUE, queue |-> <<>>]
      <4>1. sub'.queue = <<>> BY <3>5
      <4>2. sub' \in [open : BOOLEAN, queue : Seq(Events)] BY <3>5, <3>3
      <4>3. QED BY <4>1, <4>2, <3>1 DEF SubOK
    <3>6. QED BY <3>2, <3>4, <3>5
  <2>5. exited' \in BOOLEAN BY <1>0, <1>8 DEF Subscribe, RestOK
  <2>6. WorldOK' /\ RootOK' /\ GlobalsOK' /\ RestOK'
    BY <1>0, <2>1, <2>5 DEF WorldOK, RootOK, GlobalsOK, RestOK, worldVars, viewVars
  <2>7. QED BY <2>3, <2>4, <2>6 DEF TypeOK, WorldOK, SubOK, LinkOK, RootOK, GlobalsOK, RestOK
<1>9. ASSUME PublishConnection PROVE TypeOK'
  <2>1. UNCHANGED <<worldVars, sub, dials, selection, rootID, inbox, reported, exited, scope>> BY <1>9, Frames
  <2>2. GlobalsOK' BY <1>9, PublishDoes DEF GlobalsOK
  <2>3. LinkOK'
    <3>1. dialing' = [dialing EXCEPT !.phase = "none"] /\ conn' = dials /\ served' = dialing.instance
      BY <1>9 DEF PublishConnection
    <3>2. QED BY <1>0, <2>1, <3>1 DEF LinkOK
  <2>4. navs' \subseteq Navs
    <3>1. selection \in Nat /\ dials \in Nat /\ navs \subseteq Navs BY <1>0 DEF RootOK, LinkOK, RestOK
    <3>2. [kind |-> "compose", sel |-> selection, conn |-> dials] \in Navs BY <3>1 DEF Navs
    <3>3. QED BY <1>9, <3>1, <3>2 DEF PublishConnection
  <2>5. RootOK'
    <3>1. conn' # 0 BY <1>9 DEF PublishConnection, LinkInv
    <3>2. selection \in Nat /\ rootID \in Session \cup {None} BY <1>0 DEF RootOK
    <3>3. QED BY <1>9, <2>1, <3>1, <3>2, PublishDoes DEF RootOK, NewRoot
  <2>6. WorldOK' /\ SubOK' /\ RestOK' BY <1>0, <2>1, <2>4 DEF WorldOK, SubOK, RestOK, worldVars
  <2>7. QED BY <2>2, <2>3, <2>5, <2>6 DEF TypeOK, WorldOK, SubOK, LinkOK, RootOK, GlobalsOK, RestOK
<1>10. ASSUME StreamEnds PROVE TypeOK'
  <2>1. UNCHANGED <<worldVars, sub, selection, rootID, navs, inbox, reported, exited, scope>> BY <1>10, Frames
  <2>2. LinkOK' /\ RootOK' /\ GlobalsOK' BY <1>r, <1>10, <2>1 DEF StreamEnds
  <2>3. WorldOK' /\ SubOK' /\ RestOK' BY <1>0, <2>1 DEF WorldOK, SubOK, RestOK, worldVars
  <2>4. QED BY <2>2, <2>3 DEF TypeOK, WorldOK, SubOK, LinkOK, RootOK, GlobalsOK, RestOK
<1>11. ASSUME Forward PROVE TypeOK'
  <2>1. UNCHANGED <<worldVars, selection, rootID, navs, reported, exited, scope>> BY <1>11, Frames
  <2>2. SubOK' BY <1>11, ForwardIs DEF SubOK
  <2>3. WorldOK' BY <1>0, <2>1 DEF WorldOK, worldVars
  <2>4. CASE Repair /\ UNCHANGED inbox
    <3>1. LinkOK' /\ RootOK' /\ GlobalsOK' BY <1>r, <2>1, <2>4
    <3>2. RestOK' BY <1>0, <2>1, <2>4 DEF RestOK
    <3>3. QED BY <2>2, <2>3, <3>1, <3>2 DEF TypeOK, WorldOK, SubOK, LinkOK, RootOK, GlobalsOK, RestOK
  <2>5. CASE /\ inbox' = Append(inbox, [conn |-> conn, event |-> Head(sub.queue)]) /\ Len(inbox) < InboxCap
             /\ UNCHANGED <<linkVars, root, globals>>
    <3>. DEFINE x == [conn |-> conn, event |-> Head(sub.queue)]
    <3>1. x \in [conn : Nat, event : Events] BY <1>11, ForwardIs
    <3>2. inbox \in Seq([conn : Nat, event : Events]) /\ InboxCap \in Nat /\ Len(inbox) \in Nat
      BY <1>0, ReaderAssumption, LenProperties DEF RestOK
    <3>3. inbox' = Append(inbox, x) BY <2>5
    <3>. HIDE DEF x
    <3>4. inbox' \in Seq([conn : Nat, event : Events]) /\ Len(inbox') = Len(inbox) + 1
      BY <3>1, <3>2, <3>3, AppendProperties
    <3>5. Len(inbox') <= InboxCap BY <2>5, <3>2, <3>4
    <3>6. RestOK' BY <1>0, <2>1, <3>4, <3>5 DEF RestOK
    <3>7. LinkOK' /\ RootOK' /\ GlobalsOK' BY <1>0, <2>1, <2>5 DEF LinkOK, RootOK, GlobalsOK, linkVars
    <3>8. QED BY <2>2, <2>3, <3>6, <3>7 DEF TypeOK, WorldOK, SubOK, LinkOK, RootOK, GlobalsOK, RestOK
  <2>6. QED BY <1>11, <2>4, <2>5, ForwardIs
<1>12. ASSUME AcceptEvent PROVE TypeOK'
  <2>1. UNCHANGED <<worldVars, sub, selection, rootID, navs, reported, exited, scope>> BY <1>12, Frames
  <2>2. RestOK'
    <3>1. inbox # <<>> /\ inbox' = Tail(inbox) BY <1>12, AcceptDoes
    <3>2. inbox \in Seq([conn : Nat, event : Events]) /\ InboxCap \in Nat /\ Len(inbox) \in Nat /\ Len(inbox) <= InboxCap
      BY <1>0, ReaderAssumption, LenProperties DEF RestOK
    <3>3. inbox' \in Seq([conn : Nat, event : Events]) /\ Len(inbox') = Len(inbox) - 1
      BY <3>1, <3>2, HeadTailProperties
    <3>4. Len(inbox') <= InboxCap BY <3>2, <3>3
    <3>5. QED BY <1>0, <2>1, <3>3, <3>4 DEF RestOK
  <2>3. WorldOK' /\ SubOK' BY <1>0, <2>1 DEF WorldOK, SubOK, worldVars
  <2>4. LinkOK' /\ RootOK' /\ GlobalsOK'
    <3>1. CASE UNCHANGED <<linkVars, root, globals>>
      BY <1>0, <2>1, <3>1 DEF LinkOK, RootOK, GlobalsOK, linkVars
    <3>2. CASE Repair BY <1>r, <2>1, <3>2
    <3>3. CASE Marked(Head(inbox).event)
      <4>1. GlobalsOK' BY <3>3 DEF Marked, GlobalsOK
      <4>2. LinkOK' BY <1>0, <3>3 DEF Marked, LinkOK, linkVars
      <4>3. RootOK' BY <1>0, <2>1, <3>3 DEF Marked, RootOK, linkVars, Touched
      <4>4. QED BY <4>1, <4>2, <4>3
    <3>4. QED BY <1>12, <3>1, <3>2, <3>3, AcceptDoes
  <2>5. QED BY <2>2, <2>3, <2>4 DEF TypeOK, WorldOK, SubOK, LinkOK, RootOK, GlobalsOK, RestOK
<1>13. ASSUME NavStep PROVE TypeOK'
  <2>1. UNCHANGED <<worldVars, sub, linkVars, globals, inbox, reported, exited, scope>> BY <1>13, Frames
  <2>2. selection' \in Nat /\ (Kept \/ Replaced \/ Moved) BY <1>13, NavDoes
  <2>3. RootOK' BY <1>0, <2>1, <2>2 DEF RootOK, Kept, Replaced, NewRoot, Moved, Touched, linkVars
  <2>4. navs' \subseteq Navs BY <1>0, <2>2 DEF RestOK, Kept, Replaced, Moved
  <2>5. WorldOK' /\ SubOK' /\ LinkOK' /\ GlobalsOK' /\ RestOK'
    BY <1>0, <2>1, <2>4 DEF WorldOK, SubOK, LinkOK, GlobalsOK, RestOK, worldVars, linkVars
  <2>6. QED BY <2>3, <2>5 DEF TypeOK, WorldOK, SubOK, LinkOK, RootOK, GlobalsOK, RestOK
<1>15. QED
  BY <1>1, <1>2, <1>3, <1>4, <1>5, <1>6, <1>7, <1>8, <1>9, <1>10, <1>11, <1>12, <1>13, NextIs
-----------------------------------------------------------------------------
(* Connections are told apart. *)
LEMMA LinkRepair ==
    ASSUME TypeOK, LinkInv, Repair, Queued(inbox') \subseteq Queued(inbox), navs' = navs
    PROVE  LinkInv'
<1>1. /\ conn' = 0 /\ dials' = dials /\ dialing'.phase # "publish"
      /\ globals'.config = 0 /\ globals'.warnings = 0 /\ globals'.dirty /\ globals'.task = globals.task
  BY RepairDoes
<1>2. QED BY <1>1 DEF LinkInv, InTask

(* Every step keeps connections apart. *)
LEMMA LinkStep ==
    ASSUME TypeOK, LinkInv, ViewInv, Next
    PROVE  LinkInv'
<1>0. /\ dials \in Nat /\ conn \in {0, dials} /\ (conn # 0 => dialing.phase = "none")
      /\ globals.config \in Nat /\ globals.warnings \in Nat /\ globals.dirty \in BOOLEAN
      /\ globals.task \in Tasks \cup {None}
      /\ inbox \in Seq([conn : Nat, event : Events]) /\ navs \subseteq Navs
  BY DEF TypeOK
<1>1. ASSUME UNCHANGED <<linkVars, globals, inbox, navs>> PROVE LinkInv'
  BY <1>1 DEF LinkInv, InTask, Queued, linkVars
<1>2. ASSUME NEW s \in Session, Changed(s) PROVE LinkInv'
  <2>1. UNCHANGED <<linkVars, globals, inbox, navs>> BY <1>2, ChangedDoes DEF viewVars
  <2>2. QED BY <1>1, <2>1
<1>3. ASSUME Observed PROVE LinkInv'
  <2>1. UNCHANGED <<linkVars, globals, inbox, navs>> BY <1>3, ObservedDoes DEF viewVars
  <2>2. QED BY <1>1, <2>1
<1>4. ASSUME Lose \/ Restart \/ ChainStep PROVE LinkInv'
  <2>1. UNCHANGED <<linkVars, globals, inbox, navs>> BY <1>4, Frames DEF viewVars
  <2>2. QED BY <1>1, <2>1
<1>5. ASSUME Adopt PROVE LinkInv'
  <2>1. UNCHANGED <<navs, inbox>> BY <1>5, Frames
  <2>2. CASE Refused BY <2>1, <2>2, LinkRepair DEF Refused
  <2>3. CASE Repeated \/ Adopted BY <2>1, <2>3, <1>1 DEF Repeated, Adopted
  <2>4. QED BY <1>5, <2>2, <2>3, AdoptDoes
<1>6. ASSUME ReadsGlobals PROVE LinkInv'
  <2>1. UNCHANGED <<linkVars, navs, inbox>> BY <1>6, Frames DEF viewVars
  <2>2. ASSUME conn = 0 => globals'.config = 0 /\ globals'.warnings = 0 /\ globals'.dirty,
               InTask' => \/ conn # 0 /\ globals'.task.conn = conn
                          \/ InTask /\ globals'.task.conn = globals.task.conn
        PROVE  LinkInv'
    BY <1>0, <2>1, <2>2 DEF LinkInv, linkVars, Queued
  <2>3. CASE ReadConfiguration
    <3>1. CASE globals' = [globals EXCEPT !.task = None]
      <4>1. ~InTask' BY <3>1, <1>0 DEF InTask, TypeOK
      <4>2. globals'.config = globals.config /\ globals'.warnings = globals.warnings /\ globals'.dirty = globals.dirty
        BY <3>1 DEF TypeOK
      <4>3. QED BY <2>2, <4>1, <4>2 DEF LinkInv
    <3>2. CASE conn # 0 /\ \E c \in {0, config} : globals' = [globals EXCEPT !.dirty = FALSE,
                    !.task = [phase |-> "warnings", conn |-> conn, instance |-> served, config |-> c]]
      <4>1. globals'.task.conn = conn BY <3>2 DEF TypeOK
      <4>2. QED BY <2>2, <3>2, <4>1
    <3>3. QED BY <2>3, <3>1, <3>2 DEF ReadConfiguration
  <2>4. CASE ReadWarnings
    <3>1. PICK w \in {0, warnings} :
            globals' = [globals EXCEPT !.task = [phase |-> "adopt", conn |-> globals.task.conn,
                                                 config |-> globals.task.config, warnings |-> w]]
      BY <2>4 DEF ReadWarnings
    <3>2. InTask BY <2>4 DEF ReadWarnings, InTask
    <3>3. /\ globals'.task.conn = globals.task.conn
          /\ globals'.config = globals.config /\ globals'.warnings = globals.warnings /\ globals'.dirty = globals.dirty
      BY <3>1 DEF TypeOK
    <3>4. QED BY <2>2, <3>2, <3>3 DEF LinkInv
  <2>5. CASE AdoptGlobals
    <3>1. InTask BY <2>5 DEF AdoptGlobals, InTask
    <3>2. globals'.task = [phase |-> "head"]
      <4>1. CASE globals.task.conn # conn
        <5>1. globals' = [globals EXCEPT !.dirty = TRUE, !.task = [phase |-> "head"]] BY <2>5, <4>1 DEF AdoptGlobals
        <5>2. globals \in [config : Nat, warnings : Nat, dirty : BOOLEAN, task : Tasks \cup {None}] BY DEF TypeOK
        <5>3. QED BY <5>1, <5>2
      <4>2. CASE globals.task.conn = conn BY <2>5, <4>2 DEF AdoptGlobals
      <4>3. QED BY <4>1, <4>2
    <3>3. ~InTask' BY <3>2 DEF InTask
    <3>4. ASSUME conn = 0 PROVE globals'.config = 0 /\ globals'.warnings = 0 /\ globals'.dirty
      <4>1. globals.task.conn # conn BY <3>1, <3>4, <1>0 DEF LinkInv
      <4>2. globals' = [globals EXCEPT !.dirty = TRUE, !.task = [phase |-> "head"]] BY <2>5, <4>1 DEF AdoptGlobals
      <4>3. QED BY <3>4, <4>2 DEF LinkInv, TypeOK
    <3>5. QED BY <2>2, <3>3, <3>4
  <2>6. QED BY <1>6, <2>3, <2>4, <2>5 DEF ReadsGlobals
<1>7. ASSUME Connect PROVE LinkInv'
  <2>1. UNCHANGED <<conn, dials, navs, inbox, globals>> BY <1>7, Frames DEF viewVars
  <2>2. dialing'.phase # "publish" BY <1>7 DEF Connect, TypeOK
  <2>3. QED BY <2>1, <2>2 DEF LinkInv, InTask, Queued
<1>8. ASSUME Subscribe PROVE LinkInv'
  <2>1. UNCHANGED <<conn, navs, inbox, globals>> BY <1>8, Frames DEF viewVars
  <2>2. CASE dials' = dials + 1
    <3>1. \A x \in Queued(inbox) : x.conn \in 1..dials' /\ x.conn < dials'
      BY <1>0, <2>2 DEF LinkInv
    <3>2. \A n \in navs : n.conn <= dials' /\ n.conn < dials'
      BY <1>0, <2>2 DEF LinkInv, Navs
    <3>3. InTask => globals.task.conn \in 1..dials' /\ globals.task.conn < dials'
      BY <1>0, <2>2 DEF LinkInv
    <3>4. dials' > 0 BY <1>0, <2>2
    <3>5. QED BY <2>1, <3>1, <3>2, <3>3, <3>4 DEF LinkInv, InTask, Queued
  <2>3. CASE dials' = dials /\ dialing' = [dialing EXCEPT !.phase = "none"]
    <3>1. dialing'.phase # "publish" BY <2>3 DEF TypeOK
    <3>2. QED BY <2>1, <2>3, <3>1 DEF LinkInv, InTask, Queued
  <2>4. QED BY <1>8, <2>2, <2>3 DEF Subscribe
<1>9. ASSUME PublishConnection PROVE LinkInv'
  <2>1. UNCHANGED <<dials, inbox>> BY <1>9, Frames
  <2>2. dialing'.phase # "publish" /\ conn' = dials /\ dials > 0 BY <1>9 DEF PublishConnection, TypeOK, LinkInv
  <2>3. \A n \in navs' : n.conn <= dials BY <1>0, <1>9 DEF PublishConnection, LinkInv
  <2>4. InTask' => InTask /\ globals'.task = globals.task BY <1>9, PublishDoes DEF InTask
  <2>5. QED BY <2>1, <2>2, <2>3, <2>4 DEF LinkInv, Queued
<1>10. ASSUME StreamEnds PROVE LinkInv'
  BY <1>10, Frames, LinkRepair DEF StreamEnds
<1>11. ASSUME Forward PROVE LinkInv'
  <2>1. UNCHANGED navs BY <1>11, Frames
  <2>2. CASE Repair /\ UNCHANGED inbox BY <2>1, <2>2, LinkRepair
  <2>3. CASE /\ inbox' = Append(inbox, [conn |-> conn, event |-> Head(sub.queue)]) 
             /\ UNCHANGED <<linkVars, root, globals>>
    <3>. DEFINE x == [conn |-> conn, event |-> Head(sub.queue)]
    <3>1. x \in [conn : Nat, event : Events] /\ x.conn = conn /\ conn # 0 BY <1>11, ForwardIs
    <3>2. inbox' = Append(inbox, x) BY <2>3
    <3>. HIDE DEF x
    <3>3. Queued(inbox') = Queued(inbox) \cup {x}
      <4>. DEFINE T == [conn : Nat, event : Events]
      <4>1. inbox \in Seq(T) /\ x \in T BY <1>0, <3>1
      <4>. HIDE DEF T
      <4>2. Queued(Append(inbox, x)) = Queued(inbox) \cup {x} BY <4>1, QueuedIs
      <4>3. QED BY <3>2, <4>2
    <3>4. conn \in 1..dials /\ dialing.phase # "publish" BY <1>0, <3>1
    <3>5. UNCHANGED <<conn, dials, dialing, globals>> BY <2>3 DEF linkVars
    <3>6. QED BY <2>1, <3>1, <3>3, <3>4, <3>5 DEF LinkInv, InTask
  <2>4. QED BY <1>11, <2>2, <2>3, ForwardIs
<1>12. ASSUME AcceptEvent PROVE LinkInv'
  <2>1. UNCHANGED navs BY <1>12, Frames
  <2>2. Queued(inbox') \subseteq Queued(inbox)
    <3>1. inbox # <<>> /\ inbox' = Tail(inbox) BY <1>12, AcceptDoes
    <3>2. Head(inbox) \in [conn : Nat, event : Events] BY <3>1, <1>0, HeadTailProperties
    <3>3. QED BY <3>1, <3>2, <1>0, QueuedIs
  <2>3. CASE UNCHANGED <<linkVars, root, globals>>
    BY <2>1, <2>2, <2>3 DEF LinkInv, InTask, linkVars
  <2>4. CASE Repair BY <2>1, <2>2, <2>4, LinkRepair
  <2>5. CASE Marked(Head(inbox).event)
    <3>1. UNCHANGED <<conn, dials, dialing>> BY <2>5 DEF Marked, linkVars
    <3>2. InTask' => InTask /\ globals'.task = globals.task BY <2>5 DEF Marked, InTask
    <3>3. conn = 0 => globals'.config = 0 /\ globals'.warnings = 0 /\ globals'.dirty
      BY <2>5 DEF Marked, LinkInv
    <3>4. QED BY <2>1, <2>2, <3>1, <3>2, <3>3 DEF LinkInv
  <2>6. QED BY <1>12, <2>3, <2>4, <2>5, AcceptDoes
<1>13. ASSUME NavStep PROVE LinkInv'
  <2>1. UNCHANGED <<linkVars, globals, inbox>> BY <1>13, Frames
  <2>2. \A n \in navs' : n \in navs \/ n.conn = conn
    BY <1>13, NavDoes DEF Kept, Replaced, Moved
  <2>3. \A n \in navs' : n.conn <= dials BY <1>0, <2>2 DEF LinkInv
  <2>4. dialing.phase = "publish" => \A n \in navs' : n.conn < dials
    BY <1>0, <2>2 DEF LinkInv
  <2>5. QED BY <2>1, <2>3, <2>4 DEF LinkInv, InTask, Queued, linkVars
<1>14. QED
  BY <1>2, <1>3, <1>4, <1>5, <1>6, <1>7, <1>8, <1>9, <1>10, <1>11, <1>12, <1>13, NextIs

(* What is shown and what is being read fit the conversation. *)
LEMMA ViewStep ==
    ASSUME TypeOK, LinkInv, ViewInv, Next
    PROVE  ViewInv'
<1>1. ASSUME NEW s \in Session, Changed(s) PROVE ViewInv'
  <2>1. UNCHANGED <<rootID, root>> BY <1>1, ChangedDoes DEF viewVars
  <2>2. CASE root = None BY <2>1, <2>2 DEF ViewInv
  <2>3. CASE root # None
    <3>1. /\ root \in Readers /\ rootID \in Session /\ log[rootID] \in Seq(BOOLEAN) /\ durable[rootID] \in Nat
      BY <2>3, RootKinds
    <3>2. /\ Precedes(log[rootID], log'[rootID]) /\ log'[rootID] \in Seq(BOOLEAN) /\ durable'[rootID] \in Nat
          /\ durable[rootID] <= durable'[rootID] /\ (durable[rootID] = durable'[rootID] => log[rootID] = log'[rootID])
      BY <1>1, <3>1, ChangedDoes
    <3>3. ViewOf(root, log[rootID], durable[rootID]) BY <2>3 DEF ViewInv
    <3>4. ViewOf(root, log'[rootID], durable'[rootID]) BY <3>1, <3>2, <3>3, ViewGrows
    <3>5. QED BY <2>1, <3>4 DEF ViewInv
  <2>4. QED BY <2>2, <2>3
<1>2. ASSUME Observed PROVE ViewInv'
  <2>1. UNCHANGED <<log, durable, rootID, root>> BY <1>2, ObservedDoes DEF viewVars
  <2>2. QED BY <2>1 DEF ViewInv
<1>3. ASSUME Lose \/ Restart \/ ReadsGlobals \/ Connect \/ Subscribe PROVE ViewInv'
  <2>1. UNCHANGED <<log, durable, rootID, root>> BY <1>3, Frames DEF viewVars, worldVars
  <2>2. QED BY <2>1 DEF ViewInv
<1>4. ASSUME ChainStep PROVE ViewInv'
  <2>1. UNCHANGED <<log, durable, rootID>> BY <1>4, Frames DEF worldVars
  <2>2. QED BY <1>4, <2>1, ChainDoes DEF ViewInv
<1>5. ASSUME Adopt PROVE ViewInv'
  <2>1. UNCHANGED <<log, durable, rootID>> BY <1>5, Frames DEF worldVars
  <2>2. root # None /\ ViewOf(root, log[rootID], durable[rootID]) BY <1>5, AdoptDoes DEF ViewInv
  <2>3. CASE Refused BY <2>3, RepairDoes DEF Refused, ViewInv
  <2>4. CASE Repeated
    <3>1. ViewOf(root', log[rootID], durable[rootID]) BY <2>2, <2>4, ViewTouched DEF Repeated
    <3>2. QED BY <2>1, <3>1 DEF ViewInv
  <2>5. CASE Adopted BY <2>1, <2>5 DEF Adopted, ViewInv
  <2>6. QED BY <1>5, <2>3, <2>4, <2>5, AdoptDoes
<1>n. ASSUME NewRoot PROVE ViewInv'
  <2>1. ViewOf(root', log'[rootID'], durable'[rootID'])
    BY <1>n, ViewFresh DEF NewRoot, Chain
  <2>2. QED BY <2>1 DEF ViewInv
<1>6. ASSUME PublishConnection PROVE ViewInv'
  <2>1. CASE root' = None BY <2>1 DEF ViewInv
  <2>2. QED BY <1>6, <1>n, <2>1, PublishDoes
<1>7. ASSUME StreamEnds PROVE ViewInv'
  BY <1>7, RepairDoes DEF StreamEnds, ViewInv
<1>8. ASSUME Forward PROVE ViewInv'
  <2>1. UNCHANGED <<log, durable, rootID>> BY <1>8, Frames DEF worldVars
  <2>2. root' = root \/ root' = None BY <1>8, ForwardIs, RepairDoes
  <2>3. QED BY <2>1, <2>2 DEF ViewInv
<1>t. ASSUME UNCHANGED <<log, durable, rootID>>, root = None => root' = None,
             root # None => Touched(root, root')
      PROVE  ViewInv'
  <2>1. CASE root' = None BY <2>1 DEF ViewInv
  <2>2. CASE root' # None
    <3>1. ViewOf(root, log[rootID], durable[rootID]) /\ Touched(root, root') BY <1>t, <2>2 DEF ViewInv
    <3>2. ViewOf(root', log[rootID], durable[rootID]) BY <3>1, ViewTouched
    <3>3. QED BY <1>t, <3>2 DEF ViewInv
  <2>3. QED BY <2>1, <2>2
<1>9. ASSUME AcceptEvent PROVE ViewInv'
  <2>1. UNCHANGED <<log, durable, rootID>> BY <1>9, Frames DEF worldVars
  <2>2. CASE UNCHANGED root BY <2>1, <2>2 DEF ViewInv
  <2>3. CASE Repair BY <2>3, RepairDoes DEF ViewInv
  <2>4. CASE Marked(Head(inbox).event) BY <1>t, <2>1, <2>4 DEF Marked
  <2>5. QED BY <1>9, <2>2, <2>3, <2>4, AcceptDoes
<1>10. ASSUME NavStep PROVE ViewInv'
  <2>1. UNCHANGED <<log, durable>> BY <1>10, Frames DEF worldVars
  <2>2. CASE Kept BY <2>1, <2>2 DEF Kept, ViewInv
  <2>3. CASE Replaced BY <1>n, <2>3 DEF Replaced
  <2>4. CASE Moved BY <1>t, <2>1, <2>4 DEF Moved
  <2>5. QED BY <1>10, <2>2, <2>3, <2>4, NavDoes
<1>11. QED BY <1>1, <1>2, <1>3, <1>4, <1>5, <1>6, <1>7, <1>8, <1>9, <1>10, NextIs
-----------------------------------------------------------------------------
(* The steps of a chain, one kind each: nothing to read, a hydration begun,
   a failure, the Session's view, the hydration complete, a page of the
   walk, and an older page. *)
HeadIdle == ~root'.dirty /\ ~root.dirty /\ root.chain.phase = "head" /\ root'.chain.phase \in {"none", "page", "head"}
HeadBegins == /\ ~root'.dirty /\ root.chain.phase = "head" /\ root'.chain.phase = "session" /\ root'.chain.config = config
              /\ root'.chain.floors = [config |-> globals.config, warnings |-> globals.warnings]
Failed == reported' /\ Touched(root, root') /\ root'.chain = NoChain
ViewRead ==
    /\ root'.dirty = root.dirty /\ root.chain.phase = "session" /\ root'.chain.phase = "warnings"
    /\ root'.chain.floors = root.chain.floors /\ root'.chain.next \in Views
    /\ root'.chain.next.pair = Pair(rootID) /\ root'.chain.next.config = root.chain.config
    /\ root'.chain.next.warnings = 0
HydrationRead ==
    /\ root'.dirty = root.dirty /\ root.chain.phase = "warnings" /\ root'.chain.phase \in {"walk", "adopt"}
    /\ root'.chain.next \in Views /\ root.chain.next \in Views /\ root'.chain.next.pair = root.chain.next.pair
    /\ root'.chain.next.config = root.chain.next.config /\ root'.chain.next.warnings = warnings
    /\ root'.chain.floor \in {None, root'.chain.next.pair}
    /\ root'.chain.phase = "adopt" /\ root'.chain.err = "continuity" =>
          \/ root.hydration # None /\ Incomparable(root.hydration.pair, root.chain.next.pair)
          \/ root.floor # None /\ Incomparable(root.chain.next.pair, root.floor)
WalkRead ==
    /\ root'.dirty = root.dirty /\ root.chain.phase = "walk" /\ root'.chain.phase \in {"walk", "adopt"}
    /\ root.chain.next \in Views /\ root'.chain.next = root.chain.next /\ root.chain.floor \in Pairs
    /\ root'.chain.floor \in {None, Pair(rootID)}
    /\ root'.chain.phase = "adopt" /\ root'.chain.err = "continuity" => Incomparable(Pair(rootID), root.chain.floor)
PageRead ==
    /\ root'.dirty = root.dirty /\ root.chain.phase = "page" /\ root'.chain.phase = "adopt" /\ root'.chain.next = None
    /\ root'.chain.floor \in {None, Pair(rootID)}
    /\ root'.chain.err = "continuity" => root.floor # None /\ Incomparable(Pair(rootID), root.floor)

(* Every step of a chain is one of these. *)
LEMMA ChainReads ==
    ASSUME TypeOK, ViewInv, ChainStep
    PROVE  \/ HeadIdle \/ HeadBegins \/ Failed
           \/ ViewRead \/ HydrationRead \/ WalkRead \/ PageRead
<1>1. CASE ReadHead
  <2>1. root.chain.phase = "head" BY <1>1, ReadingIs DEF ReadHead
  <2>2. QED BY <1>1, <2>1, HeadDoes DEF HeadIdle, HeadBegins, NoChain
<1>2. CASE ReadFails BY <1>2, FailsDoes DEF Failed
<1>m. ASSUME NEW c \in Chains, Moves(c), root # None
      PROVE  root'.chain = c /\ root'.dirty = root.dirty
  <2>1. root \in Readers BY <1>m, RootKinds
  <2>2. root' = [root EXCEPT !.chain = c] BY <1>m DEF Moves
  <2>3. QED BY <2>1, <2>2, WithChain
<1>3. CASE ReadSessionView
  <2>1. root # None /\ root.chain.phase = "session" BY <1>3, ReadingIs DEF ReadSessionView
  <2>2. PICK c \in Chains : /\ Moves(c) /\ c.phase = "warnings" /\ c.floors = root.chain.floors /\ c.next \in Views
             /\ c.next.pair = Pair(rootID) /\ c.next.config = root.chain.config /\ c.next.warnings = 0
    BY <1>3, SessionDoes
  <2>3. root'.chain = c /\ root'.dirty = root.dirty BY <1>m, <2>1, <2>2
  <2>4. ViewRead BY <2>1, <2>2, <2>3 DEF ViewRead
  <2>5. QED BY <2>4
<1>4. CASE ReadHydration
  <2>1. root # None /\ root.chain.phase = "warnings" BY <1>4, ReadingIs DEF ReadHydration
  <2>2. root.chain.next \in Views BY <2>1, RootKinds, ChainKinds
  <2>3. PICK c \in Chains :
             /\ Moves(c) /\ c.phase \in {"walk", "adopt"} /\ c.next \in Views
             /\ c.next.pair = root.chain.next.pair /\ c.next.config = root.chain.next.config
             /\ c.next.warnings = warnings /\ c.floor \in {None, c.next.pair}
             /\ c.phase = "adopt" /\ c.err = "continuity" =>
                   \/ root.hydration # None /\ Incomparable(root.hydration.pair, c.next.pair)
                   \/ root.floor # None /\ Incomparable(c.next.pair, root.floor)
    BY <1>4, HydrationDoes
  <2>4. root'.chain = c /\ root'.dirty = root.dirty BY <1>m, <2>1, <2>3
  <2>5. HydrationRead BY <2>1, <2>2, <2>3, <2>4 DEF HydrationRead
  <2>6. QED BY <2>5
<1>5. CASE WalkBack
  <2>1. root # None /\ root.chain.phase = "walk" BY <1>5, ReadingIs DEF WalkBack
  <2>2. PICK c \in Chains :
             /\ Moves(c) /\ c.phase \in {"walk", "adopt"} /\ c.next = root.chain.next
             /\ root.chain.next \in Views /\ root.chain.floor \in Pairs
             /\ c.floor \in {None, Pair(rootID)}
             /\ c.phase = "adopt" /\ c.err = "continuity" => Incomparable(Pair(rootID), root.chain.floor)
    BY <1>5, WalkDoes
  <2>3. root'.chain = c /\ root'.dirty = root.dirty BY <1>m, <2>1, <2>2
  <2>4. WalkRead BY <2>1, <2>2, <2>3 DEF WalkRead
  <2>5. QED BY <2>4
<1>6. CASE ReadOlderPage
  <2>1. root # None /\ root.chain.phase = "page" BY <1>6, ReadingIs DEF ReadOlderPage
  <2>2. PICK c \in Chains :
             /\ Moves(c) /\ c.phase = "adopt" /\ c.next = None /\ c.floor \in {None, Pair(rootID)}
             /\ c.err = "continuity" => root.floor # None /\ Incomparable(Pair(rootID), root.floor)
    BY <1>6, OlderDoes
  <2>3. root'.chain = c /\ root'.dirty = root.dirty BY <1>m, <2>1, <2>2
  <2>4. PageRead BY <2>1, <2>2, <2>3 DEF PageRead
  <2>5. QED BY <2>4
<1>7. QED BY <1>1, <1>2, <1>3, <1>4, <1>5, <1>6 DEF ChainStep

(* A superseded chain keeps its navigation. *)
LEMMA SelStep ==
    ASSUME TypeOK, LinkInv, ViewInv, SelInv, Next
    PROVE  SelInv'
<1>0. /\ selection \in Nat /\ (root # None => conn # 0) /\ conn \in Nat BY DEF TypeOK
<1>h. \A sel : Chain(sel).sel = sel BY DEF Chain
<1>u. ASSUME UNCHANGED <<conn, selection, root, navs>> PROVE SelInv' BY <1>u DEF SelInv, Resumes
<1>1. ASSUME NEW s \in Session, Changed(s) PROVE SelInv'
  BY <1>1, <1>u, ChangedDoes DEF viewVars, linkVars
<1>2. ASSUME Observed PROVE SelInv'
  BY <1>2, <1>u, ObservedDoes DEF viewVars, linkVars
<1>3. ASSUME Lose \/ Restart \/ ReadsGlobals \/ Connect \/ Subscribe PROVE SelInv'
  BY <1>3, <1>u, Frames DEF viewVars, linkVars
<1>4. ASSUME ChainStep PROVE SelInv'
  <2>1. UNCHANGED selection BY <1>4, Frames
  <2>2. QED BY <1>4, <2>1, ChainDoes DEF SelInv
<1>5. ASSUME Adopt PROVE SelInv'
  <2>1. UNCHANGED selection BY <1>5, Frames
  <2>2. root' = None \/ root'.chain = Chain(selection)
    BY <1>5, AdoptDoes, RepairDoes DEF Refused, Repeated, Adopted
  <2>3. QED BY <1>h, <2>1, <2>2 DEF SelInv
<1>6. ASSUME PublishConnection PROVE SelInv'
  BY <1>6, <1>h, PublishDoes DEF SelInv, NewRoot
<1>7. ASSUME StreamEnds PROVE SelInv'
  BY <1>7, RepairDoes DEF StreamEnds, SelInv
<1>8. ASSUME Forward PROVE SelInv'
  <2>1. UNCHANGED <<selection, navs>> BY <1>8, Frames
  <2>2. CASE UNCHANGED <<linkVars, root, globals>> BY <1>u, <2>1, <2>2 DEF linkVars
  <2>3. CASE Repair BY <2>3, RepairDoes DEF SelInv
  <2>4. QED BY <1>8, <2>2, <2>3, ForwardIs
<1>9. ASSUME AcceptEvent PROVE SelInv'
  <2>1. UNCHANGED <<selection, navs>> BY <1>9, Frames
  <2>2. CASE UNCHANGED <<linkVars, root, globals>> BY <1>u, <2>1, <2>2 DEF linkVars
  <2>3. CASE Repair BY <2>3, RepairDoes DEF SelInv
  <2>4. CASE Marked(Head(inbox).event)
    <3>1. UNCHANGED conn BY <2>4 DEF Marked, linkVars
    <3>2. root = None => root' = None BY <2>4 DEF Marked
    <3>3. root # None => root'.chain = root.chain \/ root'.chain = Chain(selection) BY <2>4 DEF Marked
    <3>4. QED BY <1>h, <2>1, <3>1, <3>2, <3>3 DEF SelInv, Resumes
  <2>5. QED BY <1>9, <2>2, <2>3, <2>4, AcceptDoes
<1>10. ASSUME NavStep PROVE SelInv'
  <2>1. UNCHANGED conn BY <1>10, Frames DEF linkVars
  <2>2. CASE Navigate
    <3>. DEFINE n == [kind |-> "adopt", sel |-> selection + 1, conn |-> conn]
    <3>1. n \in navs' /\ selection' = selection + 1 BY <2>2 DEF Navigate
    <3>2. \E m \in navs' : m.kind = "adopt" /\ m.sel = selection' /\ m.conn = conn' BY <2>1, <3>1
    <3>3. QED BY <3>2 DEF SelInv, Resumes
  <2>3. CASE Inspect
    <3>1. root = None => root' = None BY <2>3 DEF Inspect, Resume
    <3>2. root # None => root'.chain = Chain(selection')
      <4>1. ASSUME root # None PROVE root'.chain = Chain(selection')
        <5>1. root \in Readers /\ root' = Resume(root, selection + 1) /\ selection' = selection + 1 /\ selection + 1 \in Nat
          BY <1>0, <2>3, <4>1, RootKinds DEF Inspect
        <5>2. QED BY <5>1, Resumed
      <4>2. QED BY <4>1
    <3>3. QED BY <1>h, <3>1, <3>2 DEF SelInv
  <2>4. CASE WantOlder
    <3>. DEFINE r == [root EXCEPT !.older = TRUE]
    <3>1. /\ UNCHANGED <<selection, navs>> /\ root # None /\ root' = Kick(r, selection)
      BY <2>4 DEF WantOlder
    <3>2. r \in Readers /\ r.chain = root.chain BY <3>1, RootKinds DEF Readers
    <3>. HIDE DEF r
    <3>3. root'.chain = root.chain \/ root'.chain = Chain(selection) BY <1>0, <3>1, <3>2, Kicked
    <3>4. QED BY <1>h, <2>1, <3>1, <3>3 DEF SelInv, Resumes
  <2>5. ASSUME NEW n \in navs, NavigationFails(n) PROVE SelInv'
    <3>1. /\ UNCHANGED selection /\ navs' = navs \ {n}
          /\ root' = IF Current(n) /\ n.kind = "adopt" THEN Resume(root, selection) ELSE root
      BY <2>5 DEF NavigationFails
    <3>2. CASE root = None BY <3>1, <3>2 DEF SelInv, Resume
    <3>3. CASE root # None /\ Current(n) /\ n.kind = "adopt"
      <4>1. root \in Readers /\ root' = Resume(root, selection) BY <3>1, <3>3, RootKinds
      <4>2. root'.chain = Chain(selection) BY <1>0, <4>1, Resumed
      <4>3. QED BY <1>h, <3>1, <4>2 DEF SelInv
    <3>4. CASE root # None /\ ~(Current(n) /\ n.kind = "adopt")
      <4>1. root' = root BY <3>1, <3>4
      <4>2. ~Resumes(n) BY <1>0, <3>4 DEF Resumes, Current
      <4>3. QED BY <2>1, <3>1, <4>1, <4>2 DEF SelInv, Resumes
    <3>5. QED BY <3>2, <3>3, <3>4
  <2>6. ASSUME NEW n \in navs, NEW s \in Session, NavigationResolves(n, s) PROVE SelInv'
    <3>1. navs' = navs \ {n} BY <2>6 DEF NavigationResolves
    <3>2. CASE ~Current(n)
      <4>1. UNCHANGED <<selection, root>> BY <2>6, <3>2 DEF NavigationResolves
      <4>2. root # None => ~Resumes(n) BY <1>0, <3>2 DEF Resumes, Current
      <4>3. QED BY <2>1, <3>1, <4>1, <4>2 DEF SelInv, Resumes
    <3>3. CASE Current(n)
      <4>1. root' = Kick(NewReader(s), selection') BY <2>6, <3>3 DEF NavigationResolves
      <4>2. selection' \in Nat BY <1>10, NavDoes
      <4>3. root'.chain = Chain(selection') BY <4>1, <4>2, Fresh
      <4>4. QED BY <1>h, <4>3 DEF SelInv
    <3>4. QED BY <3>2, <3>3
  <2>7. QED BY <1>10, <2>2, <2>3, <2>4, <2>5, <2>6 DEF NavStep, User, Resolves
<1>11. QED BY <1>1, <1>2, <1>3, <1>4, <1>5, <1>6, <1>7, <1>8, <1>9, <1>10, NextIs
-----------------------------------------------------------------------------
(* What is on its way, step by step. *)
LEMMA CarriedSame ==
    ASSUME sub'.queue = sub.queue, inbox' = inbox, conn' = conn
    PROVE  Carried' = Carried
BY DEF Carried, Arrived, Queued

(* What is carried are events. *)
LEMMA CarriedKinds == ASSUME TypeOK PROVE Carried \subseteq Events
<1>1. sub.queue \in Seq(Events) /\ inbox \in Seq([conn : Nat, event : Events]) BY DEF TypeOK
<1>2. \A i \in 1..Len(sub.queue) : sub.queue[i] \in Events BY <1>1, ElementOfSeq
<1>3. \A i \in 1..Len(inbox) : inbox[i] \in [conn : Nat, event : Events] BY <1>1, ElementOfSeq
<1>4. QED BY <1>2, <1>3 DEF Carried, Arrived, Queued

(* An open stream carries what was announced. *)
LEMMA CarriedAnnounced ==
    ASSUME TypeOK, NEW events, Announces(events), inbox' = inbox, conn' = conn
    PROVE  /\ Carried' \subseteq Carried \cup Queued(events)
           /\ sub'.open => sub.open /\ Carried' = Carried \cup Queued(events)
<1>1. /\ sub'.open => sub.open /\ Queued(sub'.queue) = Queued(sub.queue) \cup Queued(events)
      /\ Queued(sub'.queue) \subseteq Queued(sub.queue) \cup Queued(events)
  BY EnqueueIs DEF Announces
<1>2. Arrived' = Arrived BY DEF Arrived, Queued
<1>3. Carried' = Queued(sub'.queue) \cup Arrived BY <1>2 DEF Carried, Queued
<1>4. QED BY <1>1, <1>3 DEF Carried

(* A frame that moves is still carried. *)
LEMMA CarriedForwarded ==
    ASSUME TypeOK, Forward, conn' # 0
    PROVE  Carried' = Carried /\ UNCHANGED <<linkVars, root, globals>> /\ sub'.open = sub.open
<1>1. /\ sub'.queue = Tail(sub.queue) /\ Head(sub.queue) \in Events
      /\ Queued(sub.queue) = {Head(sub.queue)} \cup Queued(sub'.queue) /\ conn \in Nat \ {0} /\ sub'.open = sub.open
  BY ForwardIs
<1>2. /\ inbox' = Append(inbox, [conn |-> conn, event |-> Head(sub.queue)])
      /\ UNCHANGED <<linkVars, root, globals>>
  BY ForwardIs, RepairDoes
<1>. DEFINE T == [conn : Nat, event : Events]
            x == [conn |-> conn, event |-> Head(sub.queue)]
<1>3. inbox \in Seq(T) /\ x \in T /\ x.conn = conn /\ x.event = Head(sub.queue) BY <1>1 DEF TypeOK
<1>4. inbox' = Append(inbox, x) /\ conn' = conn BY <1>2 DEF linkVars
<1>. HIDE DEF T, x
<1>5. Queued(inbox') = Queued(inbox) \cup {x} BY <1>3, <1>4, QueuedIs
<1>6. Arrived' = Arrived \cup {Head(sub.queue)} BY <1>3, <1>4, <1>5 DEF Arrived
<1>7. Carried' = Queued(sub'.queue) \cup Arrived' BY DEF Carried, Queued
<1>8. QED BY <1>1, <1>2, <1>6, <1>7 DEF Carried

(* An accepted frame of this connection is the only one that leaves. *)
LEMMA CarriedAccepted ==
    ASSUME TypeOK, AcceptEvent, conn' = conn
    PROVE  /\ Carried' \subseteq Carried
           /\ Head(inbox).conn = conn => Head(inbox).event \in Carried /\ Carried = Carried' \cup {Head(inbox).event}
           /\ Head(inbox).conn # conn => Carried = Carried'
<1>1. inbox # <<>> /\ inbox' = Tail(inbox) BY AcceptDoes
<1>. DEFINE T == [conn : Nat, event : Events]
            x == Head(inbox)
<1>2. inbox \in Seq(T) BY DEF TypeOK
<1>3. Queued(inbox) = {x} \cup Queued(inbox')
  <2>1. Head(inbox) \in T BY <1>1, <1>2, HeadTailProperties
  <2>. HIDE DEF T
  <2>2. QED BY <1>1, <1>2, <2>1, QueuedIs
<1>4. Queued(sub'.queue) = Queued(sub.queue) BY Frames DEF Queued
<1>. HIDE DEF x
<1>5. x.conn = conn => Arrived = Arrived' \cup {x.event} BY <1>3 DEF Arrived
<1>6. x.conn # conn => Arrived = Arrived' BY <1>3 DEF Arrived
<1>7. Carried' = Queued(sub.queue) \cup Arrived' BY <1>4 DEF Carried
<1>8. QED BY <1>5, <1>6, <1>7 DEF Carried, x

(* No frame in the inbox is of a connection just published. *)
LEMMA CarriedPublished ==
    ASSUME TypeOK, LinkInv, PublishConnection
    PROVE  Carried' = Carried
<1>1. conn = 0 /\ conn' = dials /\ \A x \in Queued(inbox) : x.conn \in 1..dials /\ x.conn < dials
  BY PublishDoes DEF PublishConnection, LinkInv
<1>2. dials \in Nat BY DEF TypeOK
<1>3. Queued(inbox') = Queued(inbox) /\ Queued(sub'.queue) = Queued(sub.queue) BY Frames DEF Queued
<1>4. Arrived = {} /\ Arrived' = {} BY <1>1, <1>2, <1>3 DEF Arrived
<1>5. QED BY <1>3, <1>4 DEF Carried

(* A new subscription carries nothing. *)
LEMMA CarriedSubscribed ==
    ASSUME TypeOK, LinkInv, Subscribe, dialing'.phase = "publish"
    PROVE  Carried' = {} /\ conn' = 0 /\ root' = None /\ globals' = globals
<1>1. /\ conn = 0 /\ root = None /\ dials \in Nat BY DEF TypeOK, Subscribe
<1>2. sub' = [open |-> TRUE, queue |-> <<>>] BY DEF Subscribe, TypeOK
<1>3. UNCHANGED <<conn, root, inbox, globals>> BY Frames DEF viewVars
<1>4. Queued(sub'.queue) = {} BY <1>2 DEF Queued
<1>5. Arrived' = {}
  <2>1. Queued(inbox') = Queued(inbox) BY <1>3 DEF Queued
  <2>2. QED BY <1>1, <1>3, <2>1 DEF Arrived, LinkInv
<1>6. QED BY <1>1, <1>3, <1>4, <1>5 DEF Carried

(* When does a connection stand after a step? *)
LEMMA StandsOn ==
    ASSUME TypeOK, ViewInv, Next, Standing'
    PROVE  /\ ~Lose /\ ~Restart
           /\ Standing \/ (Subscribe /\ dialing'.phase = "publish")
           /\ \A x \in Session : AtLeast(Pair(x)', Pair(x))
           /\ config' >= config /\ warnings' >= warnings
           /\ conn' = conn \/ PublishConnection
<1>0. /\ conn \in Nat /\ (conn # 0 => dialing.phase = "none") /\ config \in Nat /\ warnings \in Nat
      /\ durable \in [Session -> Nat] /\ local \in [Session -> Nat]
  BY DEF TypeOK
<1>a. \A x \in Session : AtLeast(Pair(x), Pair(x)) BY <1>0 DEF AtLeast, Pair
<1>p. ASSUME UNCHANGED <<durable, local>> PROVE \A x \in Session : AtLeast(Pair(x)', Pair(x))
  BY <1>a, <1>p DEF Pair, AtLeast
<1>r. ~Repair
  <2>1. ASSUME Repair PROVE FALSE
    <3>1. conn' = 0 /\ dialing'.phase = "connect" BY <2>1, RepairDoes
    <3>2. QED BY <3>1 DEF Standing
  <2>2. QED BY <2>1
<1>1. ~Lose /\ ~Restart
  <2>1. ASSUME Lose \/ Restart PROVE FALSE
    <3>1. sub' = [sub EXCEPT !.open = FALSE] BY <2>1 DEF Lose, Restart
    <3>2. ~sub'.open BY <3>1 DEF TypeOK
    <3>3. QED BY <3>2 DEF Standing
  <2>2. QED BY <2>1
<1>2. ASSUME NEW s \in Session, Changed(s)
      PROVE  /\ Standing /\ (\A x \in Session : AtLeast(Pair(x)', Pair(x))) /\ config' >= config /\ warnings' >= warnings
             /\ conn' = conn
  <2>1. UNCHANGED <<config, warnings, sub, linkVars>> BY <1>2, ChangedDoes
  <2>2. \A x \in Session : durable'[x] >= durable[x] /\ local'[x] >= local[x] BY <1>2, ChangedDoes
  <2>3. QED BY <1>0, <2>1, <2>2 DEF Standing, AtLeast, Pair, linkVars
<1>3. ASSUME Observed
      PROVE  /\ Standing /\ (\A x \in Session : AtLeast(Pair(x)', Pair(x))) /\ config' >= config /\ warnings' >= warnings
             /\ conn' = conn
  <2>1. UNCHANGED <<durable, local, linkVars>> BY <1>3, ObservedDoes
  <2>2. PICK events : Announces(events) BY <1>3, ObservedDoes
  <2>3. sub'.open => sub.open BY <2>2, EnqueueIs DEF Announces
  <2>4. config' >= config /\ warnings' >= warnings BY <1>0, <2>2 DEF Announces
  <2>5. Standing BY <2>1, <2>3 DEF Standing, linkVars
  <2>6. QED BY <1>p, <2>1, <2>4, <2>5 DEF linkVars
<1>w. ASSUME UNCHANGED worldVars
      PROVE  (\A x \in Session : AtLeast(Pair(x)', Pair(x))) /\ config' >= config /\ warnings' >= warnings
  BY <1>0, <1>p, <1>w DEF worldVars
<1>4. ASSUME ChainStep \/ ReadsGlobals \/ NavStep
      PROVE  Standing /\ UNCHANGED worldVars /\ conn' = conn
  <2>1. UNCHANGED <<worldVars, sub, linkVars>> BY <1>4, Frames
  <2>2. QED BY <2>1 DEF Standing, linkVars
<1>5. ASSUME Adopt PROVE Standing /\ UNCHANGED worldVars /\ conn' = conn
  <2>1. UNCHANGED <<worldVars, sub>> BY <1>5, Frames
  <2>2. Repeated \/ Adopted BY <1>5, <1>r, AdoptDoes DEF Refused
  <2>3. UNCHANGED linkVars BY <2>2 DEF Repeated, Adopted
  <2>4. QED BY <2>1, <2>3 DEF Standing, linkVars
<1>6. ASSUME Connect PROVE Standing /\ UNCHANGED worldVars /\ conn' = conn
  <2>1. UNCHANGED <<worldVars, sub, conn>> BY <1>6, Frames
  <2>2. dialing'.phase = "subscribe" BY <1>6 DEF Connect, TypeOK
  <2>3. QED BY <2>1, <2>2 DEF Standing
<1>7. ASSUME Subscribe
      PROVE  dialing'.phase = "publish" /\ UNCHANGED worldVars /\ conn' = conn
  <2>1. UNCHANGED <<worldVars, conn>> BY <1>7, Frames
  <2>2. conn = 0 BY <1>0, <1>7 DEF Subscribe
  <2>3. QED BY <2>1, <2>2 DEF Standing
<1>8. ASSUME PublishConnection PROVE Standing /\ UNCHANGED worldVars
  BY <1>8, Frames DEF Standing, PublishConnection
<1>9. ~StreamEnds BY <1>r DEF StreamEnds
<1>10. ASSUME Forward PROVE Standing /\ UNCHANGED worldVars /\ conn' = conn
  <2>1. UNCHANGED worldVars BY <1>10, Frames
  <2>2. UNCHANGED linkVars /\ sub'.open = sub.open BY <1>10, <1>r, ForwardIs
  <2>3. QED BY <2>1, <2>2 DEF Standing, linkVars
<1>11. ASSUME AcceptEvent PROVE Standing /\ UNCHANGED worldVars /\ conn' = conn
  <2>1. UNCHANGED <<worldVars, sub>> BY <1>11, Frames
  <2>2. UNCHANGED linkVars BY <1>11, <1>r, AcceptDoes DEF Marked
  <2>3. QED BY <2>1, <2>2 DEF Standing, linkVars
<1>12. QED
  BY <1>1, <1>2, <1>3, <1>w, <1>4, <1>5, <1>6, <1>7, <1>8, <1>9, <1>10, <1>11, NextIs
-----------------------------------------------------------------------------
(* The pairs a reader knows. *)
LEMMA KnownIs ==
    ASSUME NEW r, NEW p
    PROVE  p \in KnownOf(r) <=> \/ r.hydration # None /\ p = r.hydration.pair
                                \/ NextOf(r) # None /\ p = NextOf(r).pair
                                \/ r.floor # None /\ p = r.floor
                                \/ FloorOf(r) # None /\ p = FloorOf(r)
BY DEF KnownOf

(* What a reader knows are pairs. *)
LEMMA KnownKinds ==
    ASSUME NEW r \in Readers
    PROVE  KnownOf(r) \subseteq Pairs
<1>1. /\ r.hydration \in Views \cup {None} /\ NextOf(r) \in Views \cup {None}
      /\ r.floor \in Pairs \cup {None} /\ FloorOf(r) \in Pairs \cup {None}
  BY NextKinds DEF Readers
<1>2. \A v \in Views : v.pair \in Pairs BY DEF Views
<1>3. QED BY <1>1, <1>2, KnownIs

(* Marking, starting and resuming a reader teach it nothing. *)
LEMMA KnownTouched ==
    ASSUME NEW r, NEW q, Touched(r, q)
    PROVE  KnownOf(q) \subseteq KnownOf(r) /\ (NextOf(q) = NextOf(r) \/ NextOf(q) = None)
<1>1. NextOf(q) = NextOf(r) \/ NextOf(q) = None BY DEF Touched, NextOf
<1>2. FloorOf(q) = FloorOf(r) \/ FloorOf(q) = None BY DEF Touched, FloorOf
<1>3. q.hydration = r.hydration /\ q.floor = r.floor BY DEF Touched
<1>4. QED BY <1>1, <1>2, <1>3, KnownIs

(* A chain's step learns the Session's present pair or none. *)
LEMMA KnownRead ==
    ASSUME TypeOK, ViewInv, ChainStep
    PROVE  KnownOf(root') \subseteq KnownOf(root) \cup {Pair(rootID)}
<1>1. root'.hydration = root.hydration /\ root'.floor = root.floor BY ChainDoes
<1>a. NextOf(root') # None =>
         \/ NextOf(root) # None /\ NextOf(root').pair = NextOf(root).pair
         \/ NextOf(root').pair = Pair(rootID)
  <2>1. CASE HeadIdle \/ HeadBegins BY <2>1 DEF HeadIdle, HeadBegins, NextOf
  <2>2. CASE Failed BY <2>2 DEF Failed, NextOf, NoChain
  <2>3. CASE ViewRead BY <2>3 DEF ViewRead, NextOf
  <2>4. CASE HydrationRead BY <2>4, NilIs DEF HydrationRead, NextOf
  <2>5. CASE WalkRead BY <2>5, NilIs DEF WalkRead, NextOf
  <2>6. CASE PageRead BY <2>6 DEF PageRead, NextOf
  <2>7. QED BY <2>1, <2>2, <2>3, <2>4, <2>5, <2>6, ChainReads
<1>b. FloorOf(root') # None =>
         \/ FloorOf(root') = Pair(rootID)
         \/ NextOf(root) # None /\ FloorOf(root') = NextOf(root).pair
  <2>1. CASE HeadIdle \/ HeadBegins BY <2>1 DEF HeadIdle, HeadBegins, FloorOf
  <2>2. CASE Failed BY <2>2 DEF Failed, FloorOf, NoChain
  <2>3. CASE ViewRead BY <2>3 DEF ViewRead, FloorOf
  <2>4. CASE HydrationRead BY <2>4, NilIs DEF HydrationRead, FloorOf, NextOf
  <2>5. CASE WalkRead BY <2>5, NilIs DEF WalkRead, FloorOf
  <2>6. CASE PageRead BY <2>6 DEF PageRead, FloorOf
  <2>7. QED BY <2>1, <2>2, <2>3, <2>4, <2>5, <2>6, ChainReads
<1>2. ASSUME NEW p \in KnownOf(root') PROVE p \in KnownOf(root) \cup {Pair(rootID)}
  <2>1. CASE root'.hydration # None /\ p = root'.hydration.pair BY <2>1, <1>1, KnownIs
  <2>2. CASE NextOf(root') # None /\ p = NextOf(root').pair BY <2>2, <1>a, KnownIs
  <2>3. CASE root'.floor # None /\ p = root'.floor BY <2>3, <1>1, KnownIs
  <2>4. CASE FloorOf(root') # None /\ p = FloorOf(root') BY <2>4, <1>b, KnownIs
  <2>5. QED BY <1>2, <2>1, <2>2, <2>3, <2>4, KnownIs
<1>3. QED BY <1>2

(* What is adopted was known. *)
LEMMA KnownAdopted ==
    ASSUME Adopted, root.chain.phase = "adopt"
    PROVE  KnownOf(root') \subseteq KnownOf(root) /\ NextOf(root') = None
<1>1. NextOf(root') = None /\ FloorOf(root') = None BY DEF Adopted, NextOf, FloorOf, Chain
<1>2. NextOf(root) = root.chain.next /\ FloorOf(root) = root.chain.floor BY DEF NextOf, FloorOf
<1>3. /\ root'.floor = FloorOf(root)
      /\ root'.hydration = (IF NextOf(root) = None THEN root.hydration ELSE NextOf(root))
  BY <1>2 DEF Adopted
<1>4. QED BY <1>1, <1>3, KnownIs

(* A new reader knows nothing. *)
LEMMA KnownFresh ==
    ASSUME NewRoot
    PROVE  KnownOf(root') = {} /\ NextOf(root') = None
<1>1. NextOf(root') = None /\ FloorOf(root') = None /\ root'.floor = None /\ root'.hydration = None
  BY DEF NewRoot, NextOf, FloorOf, Chain
<1>2. QED BY <1>1, KnownIs

(* What the client or a frame carries is in one order with the present. *)
LEMMA SeenKinds ==
    ASSUME TypeOK, NEW s \in Session
    PROVE  SeenOf(s) \subseteq Pairs /\ Pair(s) \in Pairs
<1>1. Carried \subseteq Events BY CarriedKinds
<1>2. \A e \in Events : e.kind = "session_changed" => e.pair \in Pairs BY DEF Events
<1>3. Known \subseteq Pairs BY KnownKinds DEF Known, TypeOK
<1>4. Pair(s) \in Pairs BY DEF TypeOK, Pair, Pairs
<1>5. QED BY <1>1, <1>2, <1>3, <1>4 DEF SeenOf

(* If a step announces and reads only present pairs, what was seen of a
   Session grows by its present pair at most. *)
LEMMA SeenGrows ==
    ASSUME NEW New, Carried' \subseteq Carried \cup New,
           \A e \in New : e.kind = "session_changed" => e.of \in Session /\ e.pair = Pair(e.of),
           Known' = {} \/ (rootID' = rootID /\ Known' \subseteq Known \cup {Pair(rootID)})
    PROVE  \A s \in Session : SeenOf(s)' \subseteq SeenOf(s) \cup {Pair(s)}
<1>1. ASSUME NEW s \in Session, NEW p \in SeenOf(s)' PROVE p \in SeenOf(s) \cup {Pair(s)}
  <2>1. CASE \E e \in Carried' : e.kind = "session_changed" /\ e.of = s /\ e.pair = p
    <3>1. PICK e \in Carried' : e.kind = "session_changed" /\ e.of = s /\ e.pair = p BY <2>1
    <3>2. CASE e \in New BY <3>1, <3>2
    <3>3. CASE e \in Carried BY <3>1, <3>3 DEF SeenOf
    <3>4. QED BY <3>1, <3>2, <3>3
  <2>2. CASE s = rootID' /\ p \in Known' BY <2>2 DEF SeenOf
  <2>3. QED BY <1>1, <2>1, <2>2 DEF SeenOf
<1>2. QED BY <1>1

(* Then all of it stays in one order. *)
LEMMA OrderKept ==
    ASSUME TypeOK, TypeOK', OrderInv, Standing, \A s \in Session : AtLeast(Pair(s)', Pair(s)),
           \A s \in Session : SeenOf(s)' \subseteq SeenOf(s) \cup {Pair(s)}
    PROVE  OrderInv'
<1>1. ASSUME NEW s \in Session, NEW p \in SeenOf(s)'
      PROVE  /\ AtLeast(Pair(s)', p)
             /\ \A q \in SeenOf(s)' : AtLeast(p, q) \/ AtLeast(q, p)
  <2>1. /\ SeenOf(s) \subseteq Pairs /\ Pair(s) \in Pairs BY SeenKinds
  <2>2. Pair(s)' \in Pairs BY DEF TypeOK, Pair, Pairs
  <2>3. \A q \in SeenOf(s) : AtLeast(Pair(s), q) /\ \A q2 \in SeenOf(s) : AtLeast(q, q2) \/ AtLeast(q2, q)
    BY DEF OrderInv
  <2>4. AtLeast(Pair(s), Pair(s)) BY <2>1 DEF AtLeast, Pairs
  <2>5. \A q \in SeenOf(s)' : q \in Pairs /\ AtLeast(Pair(s), q) BY <2>1, <2>3, <2>4
  <2>6. AtLeast(Pair(s)', p)
    <3>1. AtLeast(Pair(s)', Pair(s)) /\ AtLeast(Pair(s), p) /\ p \in Pairs BY <1>1, <2>5
    <3>2. QED BY <3>1, <2>1, <2>2 DEF AtLeast, Pairs
  <2>7. ASSUME NEW q \in SeenOf(s)' PROVE AtLeast(p, q) \/ AtLeast(q, p)
    <3>1. CASE p = Pair(s) BY <3>1, <2>5
    <3>2. CASE q = Pair(s) BY <3>2, <2>5, <1>1
    <3>3. CASE p \in SeenOf(s) /\ q \in SeenOf(s) BY <3>3, <2>3
    <3>4. QED BY <1>1, <2>7, <3>1, <3>2, <3>3
  <2>8. QED BY <2>6, <2>7
<1>2. QED BY <1>1 DEF OrderInv

(* Every step keeps the order of what was seen. *)
LEMMA OrderStep ==
    ASSUME TypeOK, TypeOK', LinkInv, ViewInv, OrderInv, Next
    PROVE  OrderInv'
<1>0. CASE ~Standing' BY <1>0 DEF OrderInv
<1>s. CASE Standing' /\ Subscribe /\ dialing'.phase = "publish"
  <2>1. Carried' = {} /\ Known' = {} BY <1>s, CarriedSubscribed DEF Known
  <2>2. \A s \in Session : SeenOf(s)' = {} BY <2>1 DEF SeenOf
  <2>3. QED BY <2>2 DEF OrderInv
<1>g. CASE Standing' /\ Standing
  <2>0. /\ \A s \in Session : AtLeast(Pair(s)', Pair(s)) /\ ~Lose /\ ~Restart
        /\ conn' = conn \/ PublishConnection
    BY <1>g, StandsOn
  <2>r. ~Repair
    <3>1. ASSUME Repair PROVE FALSE
      <4>1. conn' = 0 /\ dialing'.phase = "connect" BY <3>1, RepairDoes
      <4>2. QED BY <4>1, <1>g DEF Standing
    <3>2. QED BY <3>1
  <2>k. ASSUME UNCHANGED <<rootID, root>> PROVE Known' = Known
    BY <2>k DEF Known, KnownOf, NextOf, FloorOf
  <2>f. ASSUME Known' = {} \/ (rootID' = rootID /\ Known' \subseteq Known \cup {Pair(rootID)}), Carried' \subseteq Carried
        PROVE  OrderInv'
    <3>. DEFINE New == {}
    <3>1. Carried' \subseteq Carried \cup New /\ \A e \in New : e.kind = "session_changed" => e.of \in Session /\ e.pair = Pair(e.of)
      BY <2>f
    <3>. HIDE DEF New
    <3>2. \A s \in Session : SeenOf(s)' \subseteq SeenOf(s) \cup {Pair(s)} BY <2>f, <3>1, SeenGrows
    <3>3. QED BY <1>g, <2>0, <3>2, OrderKept
  <2>1. ASSUME NEW s \in Session, Changed(s) PROVE OrderInv'
    <3>1. UNCHANGED <<sub, conn, inbox, rootID, root>> BY <2>1, ChangedDoes DEF linkVars, viewVars
    <3>2. QED BY <2>k, <2>f, <3>1, CarriedSame
  <2>2. ASSUME Observed PROVE OrderInv'
    <3>1. UNCHANGED <<conn, inbox, rootID, root>> BY <2>2, ObservedDoes DEF linkVars, viewVars
    <3>2. PICK events : Announces(events) BY <2>2, ObservedDoes
    <3>3. /\ Carried' \subseteq Carried \cup Queued(events) BY <3>1, <3>2, CarriedAnnounced
    <3>4. \A e \in Queued(events) : e.kind = "session_changed" => e.of \in Session /\ e.pair = Pair(e.of)
      BY <3>2 DEF Announces
    <3>5. Known' \subseteq Known \cup {Pair(rootID)} /\ rootID' = rootID BY <2>k, <3>1
    <3>6. \A s \in Session : SeenOf(s)' \subseteq SeenOf(s) \cup {Pair(s)} BY <3>3, <3>4, <3>5, SeenGrows
    <3>7. QED BY <1>g, <2>0, <3>6, OrderKept
  <2>3. ASSUME ReadsGlobals \/ Connect \/ Subscribe PROVE OrderInv'
    <3>1. UNCHANGED <<conn, inbox, rootID, root>> BY <2>3, Frames DEF linkVars, viewVars
    <3>2. CASE Subscribe
      <4>1. conn = 0 /\ conn' = 0 BY <3>1, <3>2 DEF Subscribe, TypeOK
      <4>2. dialing'.phase = "publish" BY <1>g, <4>1 DEF Standing
      <4>3. QED BY <3>2, <4>2, <1>g, <1>s
    <3>3. CASE ReadsGlobals \/ Connect
      <4>1. UNCHANGED sub BY <3>3, Frames
      <4>2. QED BY <2>k, <2>f, <3>1, <4>1, CarriedSame
    <3>4. QED BY <2>3, <3>2, <3>3
  <2>4. ASSUME ChainStep PROVE OrderInv'
    <3>1. UNCHANGED <<sub, conn, inbox, rootID>> BY <2>4, Frames DEF linkVars
    <3>2. root # None /\ root' # None BY <2>4, ChainDoes, NilIs
    <3>3. Known' \subseteq Known \cup {Pair(rootID)} BY <2>4, <3>2, KnownRead DEF Known
    <3>4. QED BY <2>f, <3>1, <3>3, CarriedSame
  <2>5. ASSUME Adopt PROVE OrderInv'
    <3>1. UNCHANGED <<sub, inbox, rootID>> BY <2>5, Frames
    <3>2. root # None /\ root.chain.phase = "adopt" /\ (Repeated \/ Adopted) BY <2>5, <2>r, AdoptDoes DEF Refused
    <3>3. UNCHANGED conn BY <3>2 DEF Repeated, Adopted, linkVars
    <3>4. KnownOf(root') \subseteq KnownOf(root) BY <3>2, KnownAdopted, KnownTouched DEF Repeated
    <3>5. Known' \subseteq Known BY <3>2, <3>4 DEF Known
    <3>6. QED BY <2>f, <3>1, <3>3, <3>5, CarriedSame
  <2>n. ASSUME NewRoot PROVE Known' = {} BY <2>n, KnownFresh DEF Known
  <2>6. ASSUME PublishConnection PROVE OrderInv'
    <3>1. Carried' = Carried BY <2>6, CarriedPublished
    <3>2. Known' = {}
      <4>1. CASE root' = None BY <4>1 DEF Known
      <4>2. QED BY <2>6, <2>n, <4>1, PublishDoes
    <3>3. QED BY <2>f, <3>1, <3>2
  <2>7. ASSUME Forward PROVE OrderInv'
    <3>1. UNCHANGED rootID BY <2>7, Frames
    <3>2. conn \in Nat \ {0} /\ UNCHANGED <<linkVars, root>> BY <2>7, <2>r, ForwardIs
    <3>3. Carried' = Carried BY <2>7, <3>2, CarriedForwarded DEF linkVars
    <3>4. QED BY <2>k, <2>f, <3>1, <3>2, <3>3
  <2>8. ASSUME AcceptEvent PROVE OrderInv'
    <3>1. UNCHANGED rootID BY <2>8, Frames
    <3>2. CASE UNCHANGED <<linkVars, root, globals>>
      <4>1. Carried' \subseteq Carried BY <2>8, <3>2, CarriedAccepted DEF linkVars
      <4>2. QED BY <2>k, <2>f, <3>1, <3>2, <4>1
    <3>3. CASE Marked(Head(inbox).event)
      <4>1. Carried' \subseteq Carried BY <2>8, <3>3, CarriedAccepted DEF Marked, linkVars
      <4>2. Known' \subseteq Known
        <5>1. CASE root = None BY <3>3, <5>1 DEF Marked, Known
        <5>2. CASE root # None
          <6>1. Touched(root, root') BY <3>3, <5>2 DEF Marked
          <6>2. KnownOf(root') \subseteq KnownOf(root) BY <6>1, KnownTouched
          <6>3. QED BY <5>2, <6>2 DEF Known
        <5>3. QED BY <5>1, <5>2
      <4>3. QED BY <2>f, <3>1, <4>1, <4>2
    <3>4. QED BY <2>8, <2>r, <3>2, <3>3, AcceptDoes
  <2>9. ASSUME NavStep PROVE OrderInv'
    <3>1. UNCHANGED <<sub, conn, inbox>> BY <2>9, Frames DEF linkVars
    <3>2. Carried' = Carried BY <3>1, CarriedSame
    <3>3. CASE Kept BY <2>k, <2>f, <3>2, <3>3 DEF Kept
    <3>4. CASE Replaced BY <2>n, <2>f, <3>2, <3>4 DEF Replaced
    <3>5. CASE Moved
      <4>1. rootID' = rootID BY <3>5 DEF Moved
      <4>2. Known' \subseteq Known
        <5>1. CASE root = None BY <3>5, <5>1 DEF Moved, Known
        <5>2. CASE root # None
          <6>1. Touched(root, root') BY <3>5, <5>2 DEF Moved
          <6>2. KnownOf(root') \subseteq KnownOf(root) BY <6>1, KnownTouched
          <6>3. QED BY <5>2, <6>2 DEF Known
        <5>3. QED BY <5>1, <5>2
      <4>3. QED BY <2>f, <3>2, <4>1, <4>2
    <3>6. QED BY <2>9, <3>3, <3>4, <3>5, NavDoes
  <2>e. ~StreamEnds BY <2>r DEF StreamEnds
  <2>l. ~Lose /\ ~Restart BY <1>g, StandsOn
  <2>10. \/ \E s \in Session : Changed(s)
         \/ Observed \/ Lose \/ Restart \/ ChainStep \/ Adopt \/ ReadsGlobals
         \/ Connect \/ Subscribe \/ PublishConnection \/ StreamEnds \/ Forward \/ AcceptEvent \/ NavStep
    BY NextIs
  <2>11. QED BY <2>l, <2>e, <2>1, <2>2, <2>3, <2>4, <2>5, <2>6, <2>7, <2>8, <2>9, <2>10
<1>1. QED BY <1>0, <1>s, <1>g, StandsOn
-----------------------------------------------------------------------------
(* No two pairs a reader knows are without order. *)
LEMMA KnownOrder ==
    ASSUME TypeOK, OrderInv, Standing, root # None
    PROVE  \A p \in KnownOf(root) : /\ AtLeast(Pair(rootID), p)
                                    /\ \A q \in KnownOf(root) : ~Incomparable(p, q)
<1>1. rootID \in Session BY RootKinds
<1>2. KnownOf(root) \subseteq SeenOf(rootID) BY DEF SeenOf, Known
<1>3. QED BY <1>1, <1>2 DEF OrderInv, Incomparable

(* No answer of an honest Runtime is taken for a breach. *)
LEMMA BreachStep ==
    ASSUME TypeOK, LinkInv, ViewInv, OrderInv, BreachInv, Next
    PROVE  BreachInv'
<1>0. CASE ~Standing' BY <1>0 DEF BreachInv
<1>h. \A sel : Chain(sel).phase = "head" BY DEF Chain
<1>s. CASE Standing' /\ Subscribe /\ dialing'.phase = "publish"
  BY <1>s, CarriedSubscribed DEF BreachInv
<1>g. CASE Standing' /\ Standing
  <2>0. ~Lose /\ ~Restart BY <1>g, StandsOn
  <2>r. ~Repair
    <3>1. ASSUME Repair PROVE FALSE
      <4>1. conn' = 0 /\ dialing'.phase = "connect" BY <3>1, RepairDoes
      <4>2. QED BY <4>1, <1>g DEF Standing
    <3>2. QED BY <3>1
  <2>k. ASSUME UNCHANGED root PROVE BreachInv' BY <2>k, <1>g DEF BreachInv
  <2>t. ASSUME root = None => root' = None,
               root # None => root'.chain = root.chain \/ root'.chain.phase # "adopt"
        PROVE  BreachInv'
    BY <2>t, <1>g DEF BreachInv
  <2>1. ASSUME NEW s \in Session, Changed(s) PROVE BreachInv' BY <2>1, <2>k, ChangedDoes DEF viewVars
  <2>2. ASSUME Observed PROVE BreachInv' BY <2>2, <2>k, ObservedDoes DEF viewVars
  <2>3. ASSUME ReadsGlobals \/ Connect \/ Subscribe PROVE BreachInv' BY <2>3, <2>k, Frames DEF viewVars
  <2>4. ASSUME ChainStep PROVE BreachInv'
    <3>0. root \in Readers /\ root # None BY <2>4, ChainDoes, NilIs
    <3>1. \A p \in KnownOf(root) : /\ AtLeast(Pair(rootID), p)
                                   /\ \A q \in KnownOf(root) : ~Incomparable(p, q)
      BY <1>g, <3>0, KnownOrder
    <3>2. CASE HeadIdle \/ HeadBegins BY <3>2 DEF HeadIdle, HeadBegins, BreachInv
    <3>3. CASE Failed BY <3>3 DEF Failed, BreachInv, NoChain
    <3>4. CASE ViewRead BY <3>4 DEF ViewRead, BreachInv
    <3>5. CASE HydrationRead
      <4>1. NextOf(root) = root.chain.next /\ NextOf(root) # None BY <3>5, NilIs DEF HydrationRead, NextOf
      <4>2. root.chain.next.pair \in KnownOf(root) BY <4>1, KnownIs
      <4>3. /\ root.hydration # None => root.hydration.pair \in KnownOf(root)
            /\ root.floor # None => root.floor \in KnownOf(root)
        BY KnownIs
      <4>4. ~(root'.chain.phase = "adopt" /\ root'.chain.err = "continuity")
        BY <3>1, <3>5, <4>2, <4>3 DEF HydrationRead
      <4>5. QED BY <4>4 DEF BreachInv
    <3>6. CASE WalkRead
      <4>1. FloorOf(root) = root.chain.floor /\ FloorOf(root) # None BY <3>6, NilIs DEF WalkRead, FloorOf
      <4>2. root.chain.floor \in KnownOf(root) BY <4>1, KnownIs
      <4>3. ~(root'.chain.phase = "adopt" /\ root'.chain.err = "continuity")
        BY <3>1, <3>6, <4>2 DEF WalkRead, Incomparable
      <4>4. QED BY <4>3 DEF BreachInv
    <3>7. CASE PageRead
      <4>1. root.floor # None => root.floor \in KnownOf(root) BY KnownIs
      <4>2. root'.chain.err # "continuity" BY <3>1, <3>7, <4>1 DEF PageRead, Incomparable
      <4>3. QED BY <4>2 DEF BreachInv
    <3>8. QED BY <2>4, <3>2, <3>3, <3>4, <3>5, <3>6, <3>7, ChainReads
  <2>5. ASSUME Adopt PROVE BreachInv'
    <3>1. Repeated \/ Adopted BY <2>5, <2>r, AdoptDoes DEF Refused
    <3>2. root'.chain.phase # "adopt" BY <1>h, <3>1 DEF Repeated, Adopted
    <3>3. QED BY <3>2 DEF BreachInv
  <2>n. ASSUME NewRoot PROVE BreachInv' BY <1>h, <2>n DEF NewRoot, BreachInv
  <2>6. ASSUME PublishConnection PROVE BreachInv'
    <3>1. CASE root' = None BY <3>1 DEF BreachInv
    <3>2. QED BY <2>6, <2>n, <3>1, PublishDoes
  <2>7. ASSUME Forward PROVE BreachInv' BY <2>7, <2>k, <2>r, ForwardIs
  <2>8. ASSUME AcceptEvent PROVE BreachInv'
    <3>1. CASE UNCHANGED root BY <3>1, <2>k
    <3>2. CASE Marked(Head(inbox).event) BY <1>h, <2>t, <3>2 DEF Marked
    <3>3. QED BY <2>8, <2>r, <3>1, <3>2, AcceptDoes
  <2>9. ASSUME NavStep PROVE BreachInv'
    <3>1. CASE Kept BY <2>k, <3>1 DEF Kept
    <3>2. CASE Replaced BY <2>n, <3>2 DEF Replaced
    <3>3. CASE Moved BY <1>h, <2>t, <3>3 DEF Moved
    <3>4. QED BY <2>9, <3>1, <3>2, <3>3, NavDoes
  <2>e. ~StreamEnds BY <2>r DEF StreamEnds
  <2>10. QED BY <2>0, <2>e, <2>1, <2>2, <2>3, <2>4, <2>5, <2>6, <2>7, <2>8, <2>9, NextIs
<1>1. QED BY <1>0, <1>s, <1>g, StandsOn

(* The clocks, as the Runtime's advance. *)
LEMMA ClockedGrows ==
    ASSUME NEW r \in Readers, NEW c \in Nat, NEW w \in Nat, NEW c2 \in Nat, NEW w2 \in Nat,
           c2 >= c, w2 >= w, Clocked(r, c, w)
    PROVE  Clocked(r, c2, w2)
<1>1. /\ r.hydration \in Views \cup {None} /\ NextOf(r) \in Views \cup {None} /\ r.chain \in Chains
  BY NextKinds DEF Readers
<1>2. \A v \in Views : v.config \in Nat /\ v.warnings \in Nat BY DEF Views
<1>3. /\ r.chain.phase = "session" => r.chain.config \in Nat
      /\ r.chain.phase \in {"session", "warnings"} => r.chain.floors.config \in Nat /\ r.chain.floors.warnings \in Nat
  BY <1>1, ChainKinds DEF Floors
<1>4. QED BY <1>1, <1>2, <1>3 DEF Clocked, Below

(* The globals' clocks stay below clocks that advance. *)
LEMMA GlobalsGrow ==
    ASSUME NEW g \in [config : Nat, warnings : Nat, dirty : BOOLEAN, task : Tasks \cup {None}], NEW k,
           NEW c \in Nat, NEW w \in Nat, NEW c2 \in Nat, NEW w2 \in Nat,
           c2 >= c, w2 >= w, GlobalsBelow(g, k, c, w)
    PROVE  GlobalsBelow(g, k, c2, w2)
<1>1. g.config \in Nat /\ g.warnings \in Nat /\ g.task \in Tasks \cup {None} OBVIOUS
<1>2. \A t \in Tasks : /\ t.phase \in {"warnings", "adopt"} => t.config \in Nat
                       /\ t.phase = "adopt" => t.warnings \in Nat
  BY DEF Tasks
<1>3. QED BY <1>1, <1>2 DEF GlobalsBelow

(* Marking, starting and resuming a reader move no clock. *)
LEMMA ClockedTouched ==
    ASSUME NEW r, NEW q, NEW c, NEW w, Clocked(r, c, w), Touched(r, q)
    PROVE  Clocked(q, c, w)
<1>1. NextOf(q) = NextOf(r) \/ NextOf(q) = None BY KnownTouched
<1>2. QED BY <1>1 DEF Clocked, Touched

(* A new reader holds no clock. *)
LEMMA ClockedFresh == ASSUME NewRoot, NEW c, NEW w PROVE Clocked(root', c, w)
<1>1. NextOf(root') = None /\ root'.hydration = None /\ root'.chain.phase = "head"
  BY KnownFresh DEF NewRoot, Chain
<1>2. QED BY <1>1 DEF Clocked

(* A chain reads only clocks of the Runtime or of the globals. *)
LEMMA ClockedRead ==
    ASSUME TypeOK, ViewInv, ChainStep, Clocked(root, config, warnings), GlobalsBelow(globals, conn, config, warnings)
    PROVE  Clocked(root', config, warnings)
<1>0. /\ root'.hydration = root.hydration /\ config \in Nat /\ warnings \in Nat BY ChainDoes DEF TypeOK
<1>1. CASE HeadIdle BY <1>0, <1>1 DEF HeadIdle, Clocked, NextOf
<1>2. CASE HeadBegins
  <2>1. /\ root'.chain.phase = "session" /\ root'.chain.config = config /\ NextOf(root') = None
        /\ root'.chain.floors.config = globals.config /\ root'.chain.floors.warnings = globals.warnings
    BY <1>2 DEF HeadBegins, NextOf
  <2>2. QED BY <1>0, <2>1 DEF Clocked, Below, GlobalsBelow
<1>3. CASE Failed BY <1>3, ClockedTouched DEF Failed
<1>4. CASE ViewRead
  <2>1. NextOf(root') = root'.chain.next BY <1>4 DEF ViewRead, NextOf
  <2>2. root.chain.config <= config /\ Below(root.chain.floors, config, warnings) BY <1>4 DEF ViewRead, Clocked
  <2>3. QED BY <1>0, <1>4, <2>1, <2>2 DEF ViewRead, Clocked, Below
<1>5. CASE HydrationRead
  <2>1. NextOf(root') = root'.chain.next /\ NextOf(root) = root.chain.next /\ NextOf(root) # None
    BY <1>5, NilIs DEF HydrationRead, NextOf
  <2>2. root.chain.next.config <= config BY <2>1 DEF Clocked, Below
  <2>3. QED BY <1>0, <1>5, <2>1, <2>2 DEF HydrationRead, Clocked, Below
<1>6. CASE WalkRead
  <2>1. NextOf(root') = root.chain.next /\ NextOf(root) = root.chain.next BY <1>6 DEF WalkRead, NextOf
  <2>2. QED BY <1>0, <1>6, <2>1 DEF WalkRead, Clocked
<1>7. CASE PageRead BY <1>0, <1>7 DEF PageRead, Clocked, NextOf
<1>8. QED BY <1>1, <1>2, <1>3, <1>4, <1>5, <1>6, <1>7, ChainReads

(* The globals' task reads only clocks of the Runtime. *)
LEMMA GlobalsRead ==
    ASSUME TypeOK, ReadsGlobals, GlobalsBelow(globals, conn, config, warnings)
    PROVE  GlobalsBelow(globals', conn, config, warnings)
<1>1. /\ globals \in [config : Nat, warnings : Nat, dirty : BOOLEAN, task : Tasks \cup {None}]
      /\ config \in Nat /\ warnings \in Nat
  BY DEF TypeOK
<1>2. CASE ReadConfiguration
  <2>1. CASE globals' = [globals EXCEPT !.task = None] BY <1>1, <2>1 DEF GlobalsBelow
  <2>2. ASSUME NEW c \in {0, config},
               globals' = [globals EXCEPT !.dirty = FALSE,
                    !.task = [phase |-> "warnings", conn |-> conn, instance |-> served, config |-> c]]
        PROVE  GlobalsBelow(globals', conn, config, warnings)
    <3>1. /\ globals'.config = globals.config /\ globals'.warnings = globals.warnings
          /\ globals'.task.phase = "warnings" /\ globals'.task.config = c
      BY <1>1, <2>2
    <3>2. QED BY <1>1, <2>2, <3>1 DEF GlobalsBelow
  <2>3. QED BY <1>2, <2>1, <2>2 DEF ReadConfiguration
<1>3. CASE ReadWarnings
  <2>1. PICK w \in {0, warnings} :
            globals' = [globals EXCEPT !.task = [phase |-> "adopt", conn |-> globals.task.conn,
                                                 config |-> globals.task.config, warnings |-> w]]
    BY <1>3 DEF ReadWarnings
  <2>2. globals.task # None /\ globals.task.phase = "warnings" BY <1>3 DEF ReadWarnings
  <2>3. /\ globals'.config = globals.config /\ globals'.warnings = globals.warnings
        /\ globals'.task.phase = "adopt" /\ globals'.task.config = globals.task.config /\ globals'.task.warnings = w
        /\ globals'.task.conn = globals.task.conn
    BY <1>1, <2>1
  <2>4. QED BY <1>1, <2>2, <2>3 DEF GlobalsBelow
<1>4. CASE AdoptGlobals
  <2>1. globals.task # None /\ globals.task.phase = "adopt" BY <1>4 DEF AdoptGlobals
  <2>2. CASE globals.task.conn # conn
    <3>1. globals' = [globals EXCEPT !.dirty = TRUE, !.task = [phase |-> "head"]] BY <1>4, <2>2 DEF AdoptGlobals
    <3>2. QED BY <1>1, <3>1 DEF GlobalsBelow
  <2>3. CASE globals.task.conn = conn
    <3>1. /\ globals'.config = Highest(globals.task.config, globals.config)
          /\ globals'.warnings = Highest(globals.task.warnings, globals.warnings)
          /\ globals'.task = [phase |-> "head"]
      BY <1>4, <2>3 DEF AdoptGlobals
    <3>2. QED BY <2>1, <2>3, <3>1 DEF GlobalsBelow, Highest
  <2>4. QED BY <2>2, <2>3
<1>5. QED BY <1>2, <1>3, <1>4 DEF ReadsGlobals

(* Every step keeps the client's clocks at or below the Runtime's. *)
LEMMA ClockStep ==
    ASSUME TypeOK, TypeOK', LinkInv, ViewInv, ClockInv, Next
    PROVE  ClockInv'
<1>t. /\ config \in Nat /\ warnings \in Nat /\ config' \in Nat /\ warnings' \in Nat
      /\ globals \in [config : Nat, warnings : Nat, dirty : BOOLEAN, task : Tasks \cup {None}]
      /\ globals' \in [config : Nat, warnings : Nat, dirty : BOOLEAN, task : Tasks \cup {None}]
      /\ root \in Readers \cup {None} /\ root' \in Readers \cup {None}
  BY DEF TypeOK
<1>0. CASE ~Standing' BY <1>0 DEF ClockInv
<1>z. ASSUME conn = 0, globals'.config = globals.config, globals'.warnings = globals.warnings,
             InTask' => InTask /\ globals'.task = globals.task /\ globals.task.conn # conn'
      PROVE  GlobalsBelow(globals', conn', config', warnings')
  <2>1. globals.config = 0 /\ globals.warnings = 0 BY <1>z DEF LinkInv
  <2>2. ~(globals'.task # None /\ globals'.task.phase \in {"warnings", "adopt"} /\ globals'.task.conn = conn')
    BY <1>z DEF InTask
  <2>3. QED BY <1>t, <1>z, <2>1, <2>2 DEF GlobalsBelow
<1>s. CASE Standing' /\ Subscribe /\ dialing'.phase = "publish"
  <2>1. /\ conn' = 0 /\ root' = None /\ globals' = globals BY <1>s, CarriedSubscribed
  <2>2. conn = 0 BY <1>s DEF Subscribe, TypeOK
  <2>3. InTask => globals.task.conn # 0
    <3>1. dials \in Nat BY DEF TypeOK
    <3>2. QED BY <3>1 DEF LinkInv
  <2>4. GlobalsBelow(globals', conn', config', warnings') BY <1>z, <2>1, <2>2, <2>3 DEF InTask
  <2>5. QED BY <2>1, <2>4 DEF ClockInv
<1>g. CASE Standing' /\ Standing
  <2>0. ~Lose /\ ~Restart BY <1>g, StandsOn
  <2>m. config' >= config /\ warnings' >= warnings BY <1>g, StandsOn
  <2>r. ~Repair
    <3>1. ASSUME Repair PROVE FALSE
      <4>1. conn' = 0 /\ dialing'.phase = "connect" BY <3>1, RepairDoes
      <4>2. QED BY <4>1, <1>g DEF Standing
    <3>2. QED BY <3>1
  <2>c. GlobalsBelow(globals, conn, config, warnings) /\ (root # None => Clocked(root, config, warnings))
    BY <1>g DEF ClockInv
  <2>gl. ASSUME GlobalsBelow(globals', conn', config, warnings),
                root' # None => Clocked(root', config, warnings)
         PROVE  ClockInv'
    <3>1. GlobalsBelow(globals', conn', config', warnings') BY <1>t, <2>m, <2>gl, GlobalsGrow
    <3>2. root' # None => Clocked(root', config', warnings') BY <1>t, <2>m, <2>gl, ClockedGrows
    <3>3. QED BY <3>1, <3>2 DEF ClockInv
  <2>1. ASSUME NEW s \in Session, Changed(s) PROVE ClockInv'
    BY <2>1, <2>c, <2>gl, ChangedDoes DEF viewVars, linkVars
  <2>2. ASSUME Observed PROVE ClockInv'
    <3>1. UNCHANGED <<root, globals, conn>> BY <2>2, ObservedDoes DEF viewVars, linkVars
    <3>2. QED BY <2>c, <2>gl, <3>1
  <2>3. ASSUME Connect \/ Subscribe PROVE ClockInv'
    <3>1. UNCHANGED <<root, globals, conn>> BY <2>3, Frames DEF viewVars
    <3>2. QED BY <2>c, <2>gl, <3>1
  <2>4. ASSUME ReadsGlobals PROVE ClockInv'
    <3>1. UNCHANGED <<root, conn>> BY <2>4, Frames DEF viewVars, linkVars
    <3>2. GlobalsBelow(globals', conn, config, warnings) BY <2>4, <2>c, GlobalsRead
    <3>3. QED BY <2>c, <2>gl, <3>1, <3>2
  <2>5. ASSUME ChainStep PROVE ClockInv'
    <3>1. UNCHANGED <<globals, conn>> BY <2>5, Frames DEF linkVars
    <3>2. root # None BY <2>5, ChainDoes, NilIs
    <3>3. Clocked(root', config, warnings) BY <2>5, <2>c, <3>2, ClockedRead
    <3>4. QED BY <2>c, <2>gl, <3>1, <3>3
  <2>6. ASSUME Adopt PROVE ClockInv'
    <3>1. root # None /\ root.chain.phase = "adopt" /\ (Repeated \/ Adopted) BY <2>6, <2>r, AdoptDoes DEF Refused
    <3>2. UNCHANGED <<globals, conn>> BY <3>1 DEF Repeated, Adopted, linkVars
    <3>3. CASE Repeated BY <2>c, <2>gl, <3>1, <3>2, <3>3, ClockedTouched DEF Repeated
    <3>4. CASE Adopted
      <4>1. NextOf(root') = None /\ root'.chain.phase = "head" /\ NextOf(root) = root.chain.next
        BY <3>1, <3>4, KnownAdopted DEF Adopted, Chain, NextOf
      <4>2. root'.hydration = root.hydration \/ (NextOf(root) # None /\ root'.hydration = NextOf(root))
        BY <3>4, <4>1 DEF Adopted
      <4>3. Clocked(root', config, warnings) BY <2>c, <3>1, <4>1, <4>2 DEF Clocked
      <4>4. QED BY <2>c, <2>gl, <3>2, <4>3
    <3>5. QED BY <3>1, <3>3, <3>4
  <2>7. ASSUME PublishConnection PROVE ClockInv'
    <3>1. /\ conn = 0 /\ globals'.config = globals.config /\ globals'.warnings = globals.warnings
          /\ globals'.task = globals.task \/ globals'.task.phase = "head"
      BY <2>7, PublishDoes
    <3>2. InTask' => InTask /\ globals'.task = globals.task BY <3>1 DEF InTask
    <3>3. InTask => globals.task.conn # conn'
      <4>1. conn' = dials /\ dials \in Nat /\ dialing.phase = "publish" BY <2>7 DEF PublishConnection, TypeOK
      <4>2. QED BY <4>1 DEF LinkInv
    <3>4. GlobalsBelow(globals', conn', config', warnings') BY <1>z, <3>1, <3>2, <3>3
    <3>5. root' = None \/ Clocked(root', config', warnings') BY <2>7, PublishDoes, ClockedFresh
    <3>6. QED BY <3>4, <3>5 DEF ClockInv
  <2>8. ASSUME Forward PROVE ClockInv'
    <3>1. UNCHANGED <<root, globals, conn>> BY <2>8, <2>r, ForwardIs DEF linkVars
    <3>2. QED BY <2>c, <2>gl, <3>1
  <2>9. ASSUME AcceptEvent PROVE ClockInv'
    <3>1. CASE UNCHANGED <<linkVars, root, globals>> BY <2>c, <2>gl, <3>1 DEF linkVars
    <3>2. CASE Marked(Head(inbox).event)
      <4>1. GlobalsBelow(globals', conn', config, warnings)
        <5>1. /\ conn' = conn /\ globals'.config = globals.config /\ globals'.warnings = globals.warnings
              /\ globals'.task = globals.task \/ globals'.task = [phase |-> "head"]
          BY <3>2 DEF Marked, linkVars
        <5>2. QED BY <2>c, <5>1 DEF GlobalsBelow
      <4>2. root' # None => Clocked(root', config, warnings) BY <2>c, <3>2, ClockedTouched DEF Marked
      <4>3. QED BY <2>gl, <4>1, <4>2
    <3>3. QED BY <2>9, <2>r, <3>1, <3>2, AcceptDoes
  <2>10. ASSUME NavStep PROVE ClockInv'
    <3>1. UNCHANGED <<globals, conn>> BY <2>10, Frames DEF linkVars
    <3>2. root' # None => Clocked(root', config, warnings)
      <4>1. CASE Kept BY <2>c, <4>1 DEF Kept
      <4>2. CASE Replaced BY <4>2, ClockedFresh DEF Replaced
      <4>3. CASE Moved BY <2>c, <4>3, ClockedTouched DEF Moved
      <4>4. QED BY <2>10, <4>1, <4>2, <4>3, NavDoes
    <3>3. QED BY <2>c, <2>gl, <3>1, <3>2
  <2>e. ~StreamEnds BY <2>r DEF StreamEnds
  <2>11. QED BY <2>0, <2>e, <2>1, <2>2, <2>3, <2>4, <2>5, <2>6, <2>7, <2>8, <2>9, <2>10, NextIs
<1>1. QED BY <1>0, <1>s, <1>g, StandsOn
-----------------------------------------------------------------------------
(* While the client watches: the steps after which a connection stands and
   nothing was reported, by what they leave alone. *)
Still == UNCHANGED worldVars /\ Carried' = Carried
Moving ==                      \* a Session changes
    /\ \E s \in Session : Changed(s)
    /\ UNCHANGED <<config, warnings, rootID, root, globals>> /\ Carried' = Carried
Telling ==                     \* the Runtime observes and announces
    /\ \E events : Announces(events) /\ Carried' = Carried \cup Queued(events)
    /\ UNCHANGED <<log, durable, local, rootID, root, globals>>
Resting == Still /\ UNCHANGED <<rootID, root, globals>>
ReadingOn ==                   \* the reader's chain reads
    /\ root # None /\ ChainStep /\ Still /\ UNCHANGED <<rootID, globals>>
    /\ HeadIdle \/ HeadBegins \/ ViewRead \/ HydrationRead \/ WalkRead \/ PageRead
Taking ==                      \* what was read is shown, or read again
    /\ root # None /\ root.chain.phase = "adopt" /\ Still /\ UNCHANGED <<rootID, globals>>
    /\ Repeated \/ Adopted
Asking == ReadsGlobals /\ Still /\ UNCHANGED <<rootID, root>>
Hearing(e) ==                  \* a frame of this connection is accepted
    UNCHANGED <<worldVars, rootID>> /\ ~Unordered(e) /\ Marked(e) /\ Carried = Carried' \cup {e}
Turning == Still /\ UNCHANGED globals /\ (Kept \/ Replaced \/ Moved)
Watched == Moving \/ Telling \/ Resting \/ ReadingOn \/ Taking \/ Asking \/ Turning \/ \E e : Hearing(e)

(* A client that watches after a step watched before it, unless the
   connection was published by it, and the step is one of these. *)
LEMMA Watching ==
    ASSUME TypeOK, LinkInv, ViewInv, Next, Watch'
    PROVE  PublishConnection \/ (Watch /\ Standing /\ conn' = conn /\ Watched)
<1>0. conn' # 0 /\ sub'.open /\ ~reported' /\ Standing' BY DEF Watch, Standing
<1>1. CASE PublishConnection BY <1>1
<1>2. CASE ~PublishConnection
  <2>0. ~Lose /\ ~Restart /\ conn' = conn BY <1>0, <1>2, StandsOn
  <2>r. ~Repair
    <3>1. ASSUME Repair PROVE FALSE
      <4>1. conn' = 0 BY <3>1, RepairDoes
      <4>2. QED BY <4>1, <1>0
    <3>2. QED BY <3>1
  <2>e. ~StreamEnds BY <2>r DEF StreamEnds
  <2>c. conn # 0 /\ conn \in Nat /\ dialing.phase = "none" BY <1>0, <2>0 DEF TypeOK
  <2>d. ~Connect /\ ~Subscribe BY <2>c DEF Connect, Subscribe
  <2>s. ASSUME sub'.open => sub.open, reported' = reported
        PROVE  Watch /\ Standing
    BY <1>0, <2>c, <2>s DEF Watch, Standing
  <2>1. ASSUME NEW s \in Session, Changed(s) PROVE Watch /\ Standing /\ Moving
    <3>1. UNCHANGED <<sub, conn, inbox, reported>> BY <2>1, ChangedDoes DEF linkVars
    <3>2. Carried' = Carried BY <3>1, CarriedSame
    <3>3. UNCHANGED <<config, warnings, rootID, root, globals>> BY <2>1, ChangedDoes DEF viewVars
    <3>4. QED BY <2>1, <2>s, <3>1, <3>2, <3>3 DEF Moving
  <2>2. ASSUME Observed PROVE Watch /\ Standing /\ Telling
    <3>1. UNCHANGED <<log, durable, local, rootID, root, globals, inbox, conn, reported>>
      BY <2>2, ObservedDoes DEF viewVars, linkVars
    <3>2. PICK events : Announces(events) BY <2>2, ObservedDoes
    <3>3. sub.open /\ Carried' = Carried \cup Queued(events) BY <1>0, <3>1, <3>2, CarriedAnnounced
    <3>4. QED BY <2>s, <3>1, <3>2, <3>3 DEF Telling
  <2>3. ASSUME ReadsGlobals PROVE Standing /\ Watch /\ Asking
    <3>1. UNCHANGED <<worldVars, sub, conn, inbox, rootID, root>> BY <2>3, Frames DEF viewVars, linkVars
    <3>2. Carried' = Carried BY <3>1, CarriedSame
    <3>3. ~reported
      <4>1. reported \in BOOLEAN BY DEF TypeOK
      <4>2. reported => reported' BY <2>3, <4>1 DEF ReadsGlobals, ReadConfiguration, ReadWarnings, AdoptGlobals
      <4>3. QED BY <1>0, <4>2
    <3>4. QED BY <1>0, <2>3, <2>c, <3>1, <3>2, <3>3 DEF Asking, Still, Watch, Standing
  <2>4. ASSUME ChainStep PROVE Standing /\ Watch /\ ReadingOn
    <3>1. UNCHANGED <<worldVars, sub, conn, inbox, rootID, globals>> BY <2>4, Frames DEF linkVars
    <3>2. Carried' = Carried BY <3>1, CarriedSame
    <3>3. ~Failed BY <1>0 DEF Failed
    <3>4. reported' = reported
      <4>1. ~ReadFails BY <1>0, FailsDoes
      <4>2. QED BY <2>4, <4>1 DEF ChainStep, ReadHead, ReadSessionView, ReadHydration, WalkBack, ReadOlderPage
    <3>5. root # None BY <2>4, ChainDoes, NilIs
    <3>6. QED BY <2>4, <2>s, <3>1, <3>2, <3>3, <3>4, <3>5, ChainReads DEF ReadingOn, Still
  <2>5. ASSUME Adopt PROVE Standing /\ Watch /\ Taking
    <3>1. UNCHANGED <<worldVars, sub, inbox, rootID, reported>> BY <2>5, Frames
    <3>2. root # None /\ root.chain.phase = "adopt" /\ (Repeated \/ Adopted) BY <2>5, <2>r, AdoptDoes DEF Refused
    <3>3. UNCHANGED <<conn, globals>> BY <3>2 DEF Repeated, Adopted, linkVars
    <3>4. Carried' = Carried BY <3>1, <3>3, CarriedSame
    <3>5. QED BY <2>s, <3>1, <3>2, <3>3, <3>4 DEF Taking, Still
  <2>6. ASSUME Forward PROVE Standing /\ Watch /\ Resting
    <3>1. UNCHANGED <<worldVars, rootID, reported>> BY <2>6, Frames
    <3>2. Carried' = Carried /\ UNCHANGED <<linkVars, root, globals>> /\ sub'.open = sub.open
      BY <1>0, <2>6, CarriedForwarded
    <3>3. QED BY <2>s, <3>1, <3>2 DEF Resting, Still
  <2>7. ASSUME AcceptEvent PROVE Standing /\ Watch /\ (Resting \/ \E e : Hearing(e))
    <3>1. UNCHANGED <<worldVars, sub, rootID, reported>> BY <2>7, Frames
    <3>2. CASE Head(inbox).conn # conn /\ UNCHANGED <<linkVars, root, globals>>
      <4>1. Carried' = Carried BY <2>0, <2>7, <3>2, CarriedAccepted
      <4>2. QED BY <2>s, <3>1, <3>2, <4>1 DEF Resting, Still
    <3>3. CASE Head(inbox).conn = conn /\ ~Unordered(Head(inbox).event) /\ Marked(Head(inbox).event)
      <4>1. Carried = Carried' \cup {Head(inbox).event} BY <2>0, <2>7, <3>3, CarriedAccepted
      <4>2. Hearing(Head(inbox).event) BY <3>1, <3>3, <4>1 DEF Hearing
      <4>3. QED BY <2>s, <3>1, <4>2
    <3>4. QED BY <2>7, <2>r, <3>2, <3>3, AcceptDoes
  <2>8. ASSUME NavStep PROVE Standing /\ Watch /\ Turning
    <3>1. UNCHANGED <<worldVars, sub, conn, inbox, globals, reported>> BY <2>8, Frames DEF linkVars
    <3>2. Carried' = Carried BY <3>1, CarriedSame
    <3>3. QED BY <2>8, <2>s, <3>1, <3>2, NavDoes DEF Turning, Still
  <2>9. QED BY <1>2, <2>0, <2>e, <2>d, <2>1, <2>2, <2>3, <2>4, <2>5, <2>6, <2>7, <2>8, NextIs DEF Watched
<1>3. QED BY <1>1, <1>2

(* A reader of a new connection or of a new destination reads at once. *)
LEMMA FreshOwes ==
    ASSUME root' = None \/ NewRoot
    PROVE  DirtyRuns' /\ PairOwed' /\ ConfigOwed' /\ WarningsOwed'
<1>1. CASE root' = None BY <1>1 DEF DirtyRuns, PairOwed, ConfigOwed, WarningsOwed
<1>2. CASE NewRoot
  <2>1. root'.dirty /\ root'.chain = Chain(selection') BY <1>2 DEF NewRoot
  <2>2. root'.chain # NoChain
    <3>1. Chain(selection').phase = "head" /\ NoChain.phase = "none" BY DEF Chain, NoChain
    <3>2. QED BY <2>1, <3>1
  <2>3. QED BY <2>1, <2>2 DEF DirtyRuns, PairOwed, ConfigOwed, WarningsOwed
<1>3. QED BY <1>1, <1>2

(* A reader marked to be read is read. *)
LEMMA DirtyStep ==
    ASSUME TypeOK, LinkInv, ViewInv, DirtyRuns, Next
    PROVE  DirtyRuns'
<1>h. \A sel : Chain(sel) # NoChain
  <2>1. NoChain.phase = "none" /\ \A sel : Chain(sel).phase = "head" BY DEF Chain, NoChain
  <2>2. QED BY <2>1
<1>0. CASE ~Watch' BY <1>0 DEF DirtyRuns
<1>1. CASE PublishConnection BY <1>1, PublishDoes, FreshOwes
<1>2. CASE Watch' /\ Watch /\ Watched
  <2>1. CASE root' = root BY <1>2, <2>1 DEF DirtyRuns
  <2>2. CASE ReadingOn
    <3>1. ~reported' BY <1>2 DEF Watch
    <3>2. root'.dirty => root'.chain # NoChain BY <2>2, <3>1, ChainDoes DEF ReadingOn
    <3>3. QED BY <3>2 DEF DirtyRuns
  <2>3. CASE Taking BY <1>h, <2>3 DEF Taking, Repeated, Adopted, DirtyRuns
  <2>4. ASSUME NEW e, Hearing(e) PROVE DirtyRuns'
    <3>1. Marked(e) BY <2>4 DEF Hearing
    <3>2. CASE root = None BY <3>1, <3>2 DEF Marked, DirtyRuns
    <3>3. CASE root # None
      <4>1. /\ (root.dirty \/ Touches(e)) = root'.dirty /\ (Touches(e) => root'.chain # NoChain)
            /\ root'.chain = root.chain \/ root'.chain = Chain(selection)
        BY <3>1, <3>3 DEF Marked
      <4>2. root.dirty => root.chain # NoChain BY <1>2, <3>3 DEF DirtyRuns
      <4>3. root'.dirty => root'.chain # NoChain BY <1>h, <4>1, <4>2
      <4>4. QED BY <4>3 DEF DirtyRuns
    <3>4. QED BY <3>2, <3>3
  <2>5. CASE Turning
    <3>1. CASE Replaced BY <3>1, FreshOwes DEF Replaced
    <3>2. CASE Moved
      <4>1. CASE root = None BY <3>2, <4>1 DEF Moved, DirtyRuns
      <4>2. CASE root # None
        <5>1. root.dirty => root.chain # NoChain BY <1>2, <4>2 DEF DirtyRuns
        <5>2. root'.dirty => root'.chain # NoChain BY <3>2, <4>2, <5>1 DEF Moved
        <5>3. QED BY <5>2 DEF DirtyRuns
      <4>3. QED BY <4>1, <4>2
    <3>3. QED BY <2>1, <2>5, <3>1, <3>2 DEF Turning, Kept
  <2>6. QED BY <1>2, <2>1, <2>2, <2>3, <2>4, <2>5 DEF Watched, Moving, Telling, Resting, Asking
<1>3. QED BY <1>0, <1>1, <1>2, Watching
-----------------------------------------------------------------------------
(* What an event or a navigation makes of the reader it does not replace. *)
Continued ==
    /\ root'.hydration = root.hydration /\ (root.dirty => root'.dirty)
    /\ root'.dirty \/ root'.chain = root.chain \/ root.chain = NoChain

(* Events and moves continue the reader. *)
LEMMA ContinuedBy ==
    ASSUME root # None
    PROVE  (Moved => Continued) /\ \A e : Marked(e) => Continued
<1>1. ASSUME Moved PROVE Continued BY <1>1 DEF Moved, Continued, Touched
<1>2. ASSUME NEW e, Marked(e) PROVE Continued BY <1>2 DEF Marked, Continued, Touched
<1>3. QED BY <1>1, <1>2

(* A reader without a chain carries nothing. *)
LEMMA NoChainIs == \A r : r.chain = NoChain => NextOf(r) = None /\ r.chain.phase = "none"
BY DEF NoChain, NextOf

(* Two pairs each at least the other are one. *)
LEMMA SamePair ==
    ASSUME NEW p \in Pairs, NEW q \in Pairs, AtLeast(p, q), AtLeast(q, p)
    PROVE  p = q
<1>1. p.durable = q.durable /\ p.local = q.local BY DEF Pairs, AtLeast
<1>2. p = [durable |-> p.durable, local |-> p.local] /\ q = [durable |-> q.durable, local |-> q.local] BY DEF Pairs
<1>3. QED BY <1>1, <1>2

(* A reader that is behind its Session will read it. *)
LEMMA PairStep ==
    ASSUME TypeOK, LinkInv, ViewInv, OrderInv, PairOwed, Next
    PROVE  PairOwed'
<1>0. CASE ~(Watch' /\ root' # None) BY <1>0 DEF PairOwed
<1>1. CASE PublishConnection BY <1>1, PublishDoes, FreshOwes
<1>2. CASE Watch /\ Standing /\ Watched /\ root = None
  <2>1. root' = None \/ NewRoot
    BY <1>2 DEF Watched, Moving, Telling, Resting, ReadingOn, Taking, Asking, Turning, Hearing, Marked, Kept, Replaced, Moved
  <2>2. QED BY <2>1, FreshOwes
<1>3. CASE Watch /\ Standing /\ Watched /\ root # None
  <2>0. /\ rootID \in Session /\ root.hydration \in Views \cup {None} /\ Pair(rootID) \in Pairs
        /\ NextOf(root) \in Views \cup {None}
    BY <1>3, RootKinds, NextKinds
  <2>k. \A p \in KnownOf(root) : AtLeast(Pair(rootID), p) BY <1>3, KnownOrder
  <2>v. \A v \in Views : v.pair \in Pairs BY DEF Views
  <2>o. \/ root.hydration # None /\ root.hydration.pair = Pair(rootID)
        \/ root.dirty \/ owed[rootID] > 0 \/ root.chain.phase = "session"
        \/ NextOf(root) # None /\ NextOf(root).pair = Pair(rootID)
        \/ \E e \in Carried : e.kind = "session_changed" /\ e.of = rootID /\ e.pair = Pair(rootID)
    BY <1>3 DEF PairOwed
  <2>q. ASSUME UNCHANGED worldVars, UNCHANGED rootID PROVE Pair(rootID)' = Pair(rootID) /\ owed' = owed
    BY <2>q DEF Pair, worldVars
  <2>1. CASE Moving
    <3>1. PICK s \in Session : Changed(s) BY <2>1 DEF Moving
    <3>2. UNCHANGED <<rootID, root>> /\ Carried' = Carried BY <2>1 DEF Moving
    <3>3. CASE s = rootID
      <4>1. owed'[rootID'] > 0 BY <3>1, <3>2, <3>3, ChangedDoes
      <4>2. QED BY <4>1 DEF PairOwed
    <3>4. CASE s # rootID
      <4>1. durable'[rootID] = durable[rootID] /\ local'[rootID] = local[rootID] /\ owed'[rootID] = owed[rootID]
        BY <2>0, <3>1, <3>4, ChangedDoes
      <4>2. Pair(rootID)' = Pair(rootID) BY <3>2, <4>1 DEF Pair
      <4>3. QED BY <2>o, <3>2, <4>1, <4>2 DEF PairOwed, NextOf
    <3>5. QED BY <3>3, <3>4
  <2>2. CASE Telling
    <3>1. /\ UNCHANGED <<log, durable, local, rootID, root>>
          /\ \E events : Announces(events) /\ Carried' = Carried \cup Queued(events)
      BY <2>2 DEF Telling
    <3>2. PICK events : Announces(events) /\ Carried' = Carried \cup Queued(events) BY <3>1
    <3>3. Pair(rootID)' = Pair(rootID) BY <3>1 DEF Pair
    <3>4. \/ owed'[rootID] = owed[rootID]
          \/ [kind |-> "session_changed", of |-> rootID, pair |-> Pair(rootID)] \in Carried'
      BY <2>0, <3>2 DEF Announces
    <3>5. QED BY <2>o, <3>1, <3>2, <3>3, <3>4 DEF PairOwed, NextOf
  <2>3. CASE Resting \/ Asking
    <3>1. UNCHANGED <<worldVars, rootID, root>> /\ Carried' = Carried BY <2>3 DEF Resting, Asking, Still
    <3>2. QED BY <2>o, <2>q, <3>1 DEF PairOwed, NextOf
  <2>4. CASE ReadingOn
    <3>1. /\ UNCHANGED <<worldVars, rootID>> /\ Carried' = Carried /\ root'.hydration = root.hydration
      BY <2>4, ChainDoes DEF ReadingOn, Still
    <3>2. Pair(rootID)' = Pair(rootID) /\ owed' = owed BY <2>q, <3>1
    <3>3. CASE HeadBegins BY <3>3 DEF HeadBegins, PairOwed
    <3>4. CASE ViewRead
      <4>1. NextOf(root') = root'.chain.next /\ root'.chain.next # None BY <3>4, NilIs DEF ViewRead, NextOf
      <4>2. QED BY <3>2, <3>4, <4>1 DEF ViewRead, PairOwed
    <3>5. CASE HeadIdle \/ PageRead
      <4>1. NextOf(root) = None /\ root.chain.phase # "session" /\ (root.dirty => root'.dirty)
        BY <3>5 DEF HeadIdle, PageRead, NextOf
      <4>2. QED BY <2>o, <3>1, <3>2, <4>1 DEF PairOwed
    <3>6. CASE HydrationRead \/ WalkRead
      <4>1. /\ NextOf(root) = root.chain.next /\ NextOf(root') = root'.chain.next /\ root'.chain.next # None
            /\ root'.chain.next.pair = root.chain.next.pair /\ root.chain.phase # "session" /\ root'.dirty = root.dirty
        BY <3>6, NilIs DEF HydrationRead, WalkRead, NextOf
      <4>2. QED BY <2>o, <3>1, <3>2, <4>1 DEF PairOwed
    <3>7. QED BY <2>4, <3>3, <3>4, <3>5, <3>6 DEF ReadingOn
  <2>5. CASE Taking
    <3>1. /\ UNCHANGED <<worldVars, rootID>> /\ Carried' = Carried /\ root.chain.phase = "adopt"
      BY <2>5 DEF Taking, Still
    <3>2. Pair(rootID)' = Pair(rootID) /\ owed' = owed /\ NextOf(root) = root.chain.next BY <2>q, <3>1 DEF NextOf
    <3>3. CASE Repeated BY <3>3 DEF Repeated, PairOwed
    <3>4. CASE Adopted
      <4>1. /\ root'.hydration = (IF NextOf(root) = None THEN root.hydration ELSE NextOf(root))
            /\ root'.dirty = root.dirty
            /\ NextOf(root) # None /\ root.hydration # None => AtLeast(NextOf(root).pair, root.hydration.pair)
        BY <3>2, <3>4 DEF Adopted
      <4>2. CASE NextOf(root) = None BY <2>o, <3>1, <3>2, <4>1, <4>2 DEF PairOwed
      <4>3. CASE NextOf(root) # None /\ root.hydration # None /\ root.hydration.pair = Pair(rootID)
        <5>1. NextOf(root).pair \in KnownOf(root) /\ NextOf(root).pair \in Pairs BY <2>0, <2>v, <4>3, KnownIs
        <5>2. NextOf(root).pair = Pair(rootID) BY <2>0, <2>k, <4>1, <4>3, <5>1, SamePair
        <5>3. QED BY <3>2, <4>1, <4>3, <5>2 DEF PairOwed
      <4>4. CASE NextOf(root) # None /\ NextOf(root).pair = Pair(rootID) BY <3>2, <4>1, <4>4 DEF PairOwed
      <4>5. QED BY <2>o, <3>1, <3>2, <4>1, <4>2, <4>3, <4>4 DEF PairOwed
    <3>5. QED BY <2>5, <3>3, <3>4 DEF Taking
  <2>c. ASSUME Continued, UNCHANGED <<worldVars, rootID>>,
               (\E e \in Carried : e.kind = "session_changed" /\ e.of = rootID /\ e.pair = Pair(rootID)) =>
                   \/ root'.dirty \/ (root.hydration # None /\ root.hydration.pair = Pair(rootID))
                   \/ \E e \in Carried' : e.kind = "session_changed" /\ e.of = rootID /\ e.pair = Pair(rootID)
        PROVE  PairOwed'
    <3>1. Pair(rootID)' = Pair(rootID) /\ owed' = owed BY <2>q, <2>c
    <3>2. CASE root'.dirty BY <3>2 DEF PairOwed
    <3>3. CASE ~root'.dirty
      <4>1. /\ root'.hydration = root.hydration /\ ~root.dirty
            /\ root.chain.phase = "session" => root'.chain.phase = "session"
            /\ NextOf(root) # None => NextOf(root') = NextOf(root)
        BY <2>c, <3>3, NoChainIs DEF Continued, NextOf
      <4>2. QED BY <2>o, <2>c, <3>1, <3>3, <4>1 DEF PairOwed
    <3>4. QED BY <3>2, <3>3
  <2>6. ASSUME NEW e, Hearing(e) PROVE PairOwed'
    <3>1. Marked(e) /\ ~Unordered(e) /\ Carried = Carried' \cup {e} /\ UNCHANGED <<worldVars, rootID>>
      BY <2>6 DEF Hearing
    <3>2. Continued BY <1>3, <3>1, ContinuedBy
    <3>3. ASSUME e.kind = "session_changed", e.of = rootID, e.pair = Pair(rootID)
          PROVE  root'.dirty \/ (root.hydration # None /\ root.hydration.pair = Pair(rootID))
      <4>1. CASE Touches(e) BY <1>3, <3>1, <4>1 DEF Marked
      <4>2. CASE ~Touches(e)
        <5>1. root.id = e.of BY <1>3, <3>3, RootKinds
        <5>2. root.hydration # None /\ ~Newer(e.pair, root.hydration.pair) BY <1>3, <3>3, <4>2, <5>1 DEF Touches
        <5>3. root.hydration.pair \in KnownOf(root) BY <5>2, KnownIs
        <5>4. AtLeast(Pair(rootID), root.hydration.pair) BY <2>k, <5>3
        <5>5. QED BY <3>3, <5>2, <5>4 DEF Newer
      <4>3. QED BY <4>1, <4>2
    <3>4. QED BY <2>c, <3>1, <3>2, <3>3
  <2>7. CASE Turning
    <3>1. UNCHANGED worldVars /\ Carried' = Carried BY <2>7 DEF Turning, Still
    <3>2. CASE Replaced BY <3>2, FreshOwes DEF Replaced
    <3>3. CASE Moved
      <4>1. Continued /\ rootID' = rootID BY <1>3, <3>3, ContinuedBy DEF Moved
      <4>2. QED BY <2>c, <3>1, <4>1
    <3>4. CASE Kept BY <2>o, <2>q, <3>1, <3>4 DEF Kept, PairOwed, NextOf
    <3>5. QED BY <2>7, <3>2, <3>3, <3>4 DEF Turning
  <2>8. QED BY <1>3, <2>1, <2>2, <2>3, <2>4, <2>5, <2>6, <2>7 DEF Watched
<1>4. QED BY <1>0, <1>1, <1>2, <1>3, Watching

(* A reader that is behind the configuration will read it. *)
LEMMA ConfigStep ==
    ASSUME TypeOK, LinkInv, ViewInv, ClockInv, ConfigOwed, Next
    PROVE  ConfigOwed'
<1>0. CASE ~(Watch' /\ root' # None) BY <1>0 DEF ConfigOwed
<1>1. CASE PublishConnection BY <1>1, PublishDoes, FreshOwes
<1>2. CASE Watch /\ Standing /\ Watched /\ root = None
  <2>1. root' = None \/ NewRoot
    BY <1>2 DEF Watched, Moving, Telling, Resting, ReadingOn, Taking, Asking, Turning, Hearing, Marked, Kept, Replaced, Moved
  <2>2. QED BY <2>1, FreshOwes
<1>3. CASE Watch /\ Standing /\ Watched /\ root # None
  <2>0. /\ root.hydration \in Views \cup {None} /\ NextOf(root) \in Views \cup {None} /\ config \in Nat
    BY <1>3, RootKinds, NextKinds DEF TypeOK
  <2>v. \A v \in Views : v.config \in Nat BY DEF Views
  <2>k. /\ root.hydration # None => root.hydration.config <= config
        /\ NextOf(root) # None => NextOf(root).config <= config
    BY <1>3 DEF ClockInv, Clocked, Below
  <2>o. \/ root.hydration # None /\ root.hydration.config = config
        \/ root.dirty \/ Announced("configuration_changed", config)
        \/ root.chain.phase = "session" /\ root.chain.config = config
        \/ NextOf(root) # None /\ NextOf(root).config = config
    BY <1>3 DEF ConfigOwed
  <2>s. ASSUME config' = config, Carried \subseteq Carried'
        PROVE  Announced("configuration_changed", config) => Announced("configuration_changed", config)'
    BY <2>s DEF Announced
  <2>u. ASSUME config' = config, Carried \subseteq Carried', root' = root PROVE ConfigOwed'
    BY <2>o, <2>s, <2>u DEF ConfigOwed, NextOf
  <2>1. CASE Moving \/ Resting \/ Asking
    <3>1. UNCHANGED <<config, root>> /\ Carried' = Carried BY <2>1 DEF Moving, Resting, Asking, Still, worldVars
    <3>2. QED BY <2>u, <3>1
  <2>2. CASE Telling
    <3>1. root' = root /\ \E events : Announces(events) /\ Carried' = Carried \cup Queued(events)
      BY <2>2 DEF Telling
    <3>2. PICK events : Announces(events) /\ Carried' = Carried \cup Queued(events) BY <3>1
    <3>3. CASE config' = config BY <2>u, <3>1, <3>2, <3>3
    <3>4. CASE [kind |-> "configuration_changed", at |-> config'] \in Queued(events)
      <4>1. Announced("configuration_changed", config)' BY <3>2, <3>4 DEF Announced
      <4>2. QED BY <4>1 DEF ConfigOwed
    <3>5. QED BY <3>2, <3>3, <3>4 DEF Announces
  <2>4. CASE ReadingOn
    <3>1. config' = config /\ Carried' = Carried /\ root'.hydration = root.hydration
      BY <2>4, ChainDoes DEF ReadingOn, Still, worldVars
    <3>2. Announced("configuration_changed", config) => Announced("configuration_changed", config)' BY <2>s, <3>1
    <3>3. CASE HeadBegins BY <3>1, <3>3 DEF HeadBegins, ConfigOwed
    <3>4. CASE ViewRead
      <4>1. NextOf(root') = root'.chain.next /\ root'.chain.next # None /\ NextOf(root) = None
        BY <3>4, NilIs DEF ViewRead, NextOf
      <4>2. QED BY <2>o, <3>1, <3>2, <3>4, <4>1 DEF ViewRead, ConfigOwed
    <3>5. CASE HeadIdle \/ PageRead
      <4>1. NextOf(root) = None /\ root.chain.phase # "session" /\ (root.dirty => root'.dirty)
        BY <3>5 DEF HeadIdle, PageRead, NextOf
      <4>2. QED BY <2>o, <3>1, <3>2, <4>1 DEF ConfigOwed
    <3>6. CASE HydrationRead \/ WalkRead
      <4>1. /\ NextOf(root) = root.chain.next /\ NextOf(root') = root'.chain.next /\ root'.chain.next # None
            /\ root'.chain.next.config = root.chain.next.config /\ root.chain.phase # "session" /\ root'.dirty = root.dirty
        BY <3>6, NilIs DEF HydrationRead, WalkRead, NextOf
      <4>2. QED BY <2>o, <3>1, <3>2, <4>1 DEF ConfigOwed
    <3>7. QED BY <2>4, <3>3, <3>4, <3>5, <3>6 DEF ReadingOn
  <2>5. CASE Taking
    <3>1. config' = config /\ Carried' = Carried /\ root.chain.phase = "adopt"
      BY <2>5 DEF Taking, Still, worldVars
    <3>2. Announced("configuration_changed", config) => Announced("configuration_changed", config)' BY <2>s, <3>1
    <3>3. CASE Repeated BY <3>3 DEF Repeated, ConfigOwed
    <3>4. CASE Adopted
      <4>0. NextOf(root) = root.chain.next BY <3>1 DEF NextOf
      <4>1. /\ root'.hydration = (IF NextOf(root) = None THEN root.hydration ELSE NextOf(root))
            /\ root'.dirty = root.dirty
            /\ NextOf(root) # None /\ root.hydration # None => root.hydration.config <= NextOf(root).config
        BY <3>4, <4>0 DEF Adopted
      <4>2. CASE NextOf(root) = None BY <2>o, <3>1, <3>2, <4>1, <4>2 DEF ConfigOwed
      <4>3. CASE NextOf(root) # None /\ root.hydration # None /\ root.hydration.config = config
        <5>1. NextOf(root).config = config BY <2>0, <2>v, <2>k, <4>1, <4>3
        <5>2. QED BY <3>1, <4>1, <4>3, <5>1 DEF ConfigOwed
      <4>4. CASE NextOf(root) # None /\ NextOf(root).config = config BY <3>1, <4>1, <4>4 DEF ConfigOwed
      <4>5. QED BY <2>o, <3>1, <3>2, <4>1, <4>2, <4>3, <4>4 DEF ConfigOwed
    <3>5. QED BY <2>5, <3>3, <3>4 DEF Taking
  <2>c. ASSUME Continued, config' = config,
               Announced("configuration_changed", config) =>
                   \/ root'.dirty \/ (root.hydration # None /\ root.hydration.config = config)
                   \/ Announced("configuration_changed", config)'
        PROVE  ConfigOwed'
    <3>2. CASE root'.dirty BY <3>2 DEF ConfigOwed
    <3>3. CASE ~root'.dirty
      <4>1. /\ root'.hydration = root.hydration /\ ~root.dirty
            /\ root.chain.phase = "session" => root'.chain = root.chain
            /\ NextOf(root) # None => NextOf(root') = NextOf(root)
        BY <2>c, <3>3, NoChainIs DEF Continued, NextOf
      <4>2. QED BY <2>o, <2>c, <3>3, <4>1 DEF ConfigOwed
    <3>4. QED BY <3>2, <3>3
  <2>6. ASSUME NEW e, Hearing(e) PROVE ConfigOwed'
    <3>1. Marked(e) /\ Carried = Carried' \cup {e} /\ config' = config BY <2>6 DEF Hearing, worldVars
    <3>2. Continued BY <1>3, <3>1, ContinuedBy
    <3>3. ASSUME e.kind = "configuration_changed", e.at = config
          PROVE  root'.dirty \/ (root.hydration # None /\ root.hydration.config = config)
      <4>1. CASE Touches(e) BY <1>3, <3>1, <4>1 DEF Marked
      <4>2. CASE ~Touches(e)
        <5>1. root.hydration # None /\ ~(e.at > root.hydration.config) BY <1>3, <3>3, <4>2 DEF Touches
        <5>2. QED BY <2>0, <2>v, <2>k, <3>3, <5>1
      <4>3. QED BY <4>1, <4>2
    <3>4. Announced("configuration_changed", config) =>
                   \/ root'.dirty \/ (root.hydration # None /\ root.hydration.config = config)
                   \/ Announced("configuration_changed", config)'
      BY <3>1, <3>3 DEF Announced
    <3>5. QED BY <2>c, <3>1, <3>2, <3>4
  <2>7. CASE Turning
    <3>1. config' = config /\ Carried' = Carried BY <2>7 DEF Turning, Still, worldVars
    <3>2. CASE Replaced BY <3>2, FreshOwes DEF Replaced
    <3>3. CASE Moved BY <1>3, <2>c, <2>s, <3>1, <3>3, ContinuedBy
    <3>4. CASE Kept BY <2>u, <3>1, <3>4 DEF Kept
    <3>5. QED BY <2>7, <3>2, <3>3, <3>4 DEF Turning
  <2>8. QED BY <1>3, <2>1, <2>2, <2>4, <2>5, <2>6, <2>7 DEF Watched
<1>4. QED BY <1>0, <1>1, <1>2, <1>3, Watching

(* A reader that is behind the warnings will read them. *)
LEMMA WarningsStep ==
    ASSUME TypeOK, LinkInv, ViewInv, ClockInv, WarningsOwed, Next
    PROVE  WarningsOwed'
<1>0. CASE ~(Watch' /\ root' # None) BY <1>0 DEF WarningsOwed
<1>1. CASE PublishConnection BY <1>1, PublishDoes, FreshOwes
<1>2. CASE Watch /\ Standing /\ Watched /\ root = None
  <2>1. root' = None \/ NewRoot
    BY <1>2 DEF Watched, Moving, Telling, Resting, ReadingOn, Taking, Asking, Turning, Hearing, Marked, Kept, Replaced, Moved
  <2>2. QED BY <2>1, FreshOwes
<1>3. CASE Watch /\ Standing /\ Watched /\ root # None
  <2>0. /\ root.hydration \in Views \cup {None} /\ NextOf(root) \in Views \cup {None} /\ warnings \in Nat
    BY <1>3, RootKinds, NextKinds DEF TypeOK
  <2>v. \A v \in Views : v.warnings \in Nat BY DEF Views
  <2>k. /\ root.hydration # None => root.hydration.warnings <= warnings
        /\ NextOf(root) # None => NextOf(root).warnings <= warnings
    BY <1>3 DEF ClockInv, Clocked, Below
  <2>o. \/ root.hydration # None /\ root.hydration.warnings = warnings
        \/ root.dirty \/ Announced("warning_changed", warnings)
        \/ root.chain.phase \in {"session", "warnings"}
        \/ NextOf(root) # None /\ NextOf(root).warnings = warnings
    BY <1>3 DEF WarningsOwed
  <2>s. ASSUME warnings' = warnings, Carried \subseteq Carried'
        PROVE  Announced("warning_changed", warnings) => Announced("warning_changed", warnings)'
    BY <2>s DEF Announced
  <2>u. ASSUME warnings' = warnings, Carried \subseteq Carried', root' = root PROVE WarningsOwed'
    BY <2>o, <2>s, <2>u DEF WarningsOwed, NextOf
  <2>1. CASE Moving \/ Resting \/ Asking
    <3>1. UNCHANGED <<warnings, root>> /\ Carried' = Carried BY <2>1 DEF Moving, Resting, Asking, Still, worldVars
    <3>2. QED BY <2>u, <3>1
  <2>2. CASE Telling
    <3>1. root' = root /\ \E events : Announces(events) /\ Carried' = Carried \cup Queued(events)
      BY <2>2 DEF Telling
    <3>2. PICK events : Announces(events) /\ Carried' = Carried \cup Queued(events) BY <3>1
    <3>3. CASE warnings' = warnings BY <2>u, <3>1, <3>2, <3>3
    <3>4. CASE [kind |-> "warning_changed", at |-> warnings'] \in Queued(events)
      <4>1. Announced("warning_changed", warnings)' BY <3>2, <3>4 DEF Announced
      <4>2. QED BY <4>1 DEF WarningsOwed
    <3>5. QED BY <3>2, <3>3, <3>4 DEF Announces
  <2>4. CASE ReadingOn
    <3>1. warnings' = warnings /\ Carried' = Carried /\ root'.hydration = root.hydration
      BY <2>4, ChainDoes DEF ReadingOn, Still, worldVars
    <3>2. Announced("warning_changed", warnings) => Announced("warning_changed", warnings)' BY <2>s, <3>1
    <3>3. CASE HeadBegins BY <3>1, <3>3 DEF HeadBegins, WarningsOwed
    <3>4. CASE ViewRead
      <4>1. root'.chain.phase = "warnings" BY <3>4 DEF ViewRead
      <4>2. QED BY <4>1 DEF WarningsOwed
    <3>5. CASE HeadIdle \/ PageRead
      <4>1. NextOf(root) = None /\ root.chain.phase \notin {"session", "warnings"} /\ (root.dirty => root'.dirty)
        BY <3>5 DEF HeadIdle, PageRead, NextOf
      <4>2. QED BY <2>o, <3>1, <3>2, <4>1 DEF WarningsOwed
    <3>6. CASE HydrationRead
      <4>1. NextOf(root') = root'.chain.next /\ root'.chain.next # None /\ root'.chain.next.warnings = warnings
        BY <3>6, NilIs DEF HydrationRead, NextOf
      <4>2. QED BY <3>1, <4>1 DEF WarningsOwed
    <3>8. CASE WalkRead
      <4>1. /\ NextOf(root) = root.chain.next /\ NextOf(root') = root.chain.next
            /\ root.chain.phase \notin {"session", "warnings"} /\ root'.dirty = root.dirty
        BY <3>8 DEF WalkRead, NextOf
      <4>2. QED BY <2>o, <3>1, <3>2, <4>1 DEF WarningsOwed
    <3>7. QED BY <2>4, <3>3, <3>4, <3>5, <3>6, <3>8 DEF ReadingOn
  <2>5. CASE Taking
    <3>1. warnings' = warnings /\ Carried' = Carried /\ root.chain.phase = "adopt"
      BY <2>5 DEF Taking, Still, worldVars
    <3>2. Announced("warning_changed", warnings) => Announced("warning_changed", warnings)' BY <2>s, <3>1
    <3>3. CASE Repeated BY <3>3 DEF Repeated, WarningsOwed
    <3>4. CASE Adopted
      <4>0. NextOf(root) = root.chain.next BY <3>1 DEF NextOf
      <4>1. /\ root'.hydration = (IF NextOf(root) = None THEN root.hydration ELSE NextOf(root))
            /\ root'.dirty = root.dirty
            /\ NextOf(root) # None /\ root.hydration # None => root.hydration.warnings <= NextOf(root).warnings
        BY <3>4, <4>0 DEF Adopted
      <4>2. CASE NextOf(root) = None BY <2>o, <3>1, <3>2, <4>1, <4>2 DEF WarningsOwed
      <4>3. CASE NextOf(root) # None /\ root.hydration # None /\ root.hydration.warnings = warnings
        <5>1. NextOf(root).warnings = warnings BY <2>0, <2>v, <2>k, <4>1, <4>3
        <5>2. QED BY <3>1, <4>1, <4>3, <5>1 DEF WarningsOwed
      <4>4. CASE NextOf(root) # None /\ NextOf(root).warnings = warnings BY <3>1, <4>1, <4>4 DEF WarningsOwed
      <4>5. QED BY <2>o, <3>1, <3>2, <4>1, <4>2, <4>3, <4>4 DEF WarningsOwed
    <3>5. QED BY <2>5, <3>3, <3>4 DEF Taking
  <2>c. ASSUME Continued, warnings' = warnings,
               Announced("warning_changed", warnings) =>
                   \/ root'.dirty \/ (root.hydration # None /\ root.hydration.warnings = warnings)
                   \/ Announced("warning_changed", warnings)'
        PROVE  WarningsOwed'
    <3>2. CASE root'.dirty BY <3>2 DEF WarningsOwed
    <3>3. CASE ~root'.dirty
      <4>1. /\ root'.hydration = root.hydration /\ ~root.dirty
            /\ root.chain.phase \in {"session", "warnings"} => root'.chain = root.chain
            /\ NextOf(root) # None => NextOf(root') = NextOf(root)
        BY <2>c, <3>3, NoChainIs DEF Continued, NextOf
      <4>2. QED BY <2>o, <2>c, <3>3, <4>1 DEF WarningsOwed
    <3>4. QED BY <3>2, <3>3
  <2>6. ASSUME NEW e, Hearing(e) PROVE WarningsOwed'
    <3>1. Marked(e) /\ Carried = Carried' \cup {e} /\ warnings' = warnings BY <2>6 DEF Hearing, worldVars
    <3>2. Continued BY <1>3, <3>1, ContinuedBy
    <3>3. ASSUME e.kind = "warning_changed", e.at = warnings
          PROVE  root'.dirty \/ (root.hydration # None /\ root.hydration.warnings = warnings)
      <4>1. CASE Touches(e) BY <1>3, <3>1, <4>1 DEF Marked
      <4>2. CASE ~Touches(e)
        <5>1. root.hydration # None /\ ~(e.at > root.hydration.warnings) BY <1>3, <3>3, <4>2 DEF Touches
        <5>2. QED BY <2>0, <2>v, <2>k, <3>3, <5>1
      <4>3. QED BY <4>1, <4>2
    <3>4. Announced("warning_changed", warnings) =>
                   \/ root'.dirty \/ (root.hydration # None /\ root.hydration.warnings = warnings)
                   \/ Announced("warning_changed", warnings)'
      BY <3>1, <3>3 DEF Announced
    <3>5. QED BY <2>c, <3>1, <3>2, <3>4
  <2>7. CASE Turning
    <3>1. warnings' = warnings /\ Carried' = Carried BY <2>7 DEF Turning, Still, worldVars
    <3>2. CASE Replaced BY <3>2, FreshOwes DEF Replaced
    <3>3. CASE Moved BY <1>3, <2>c, <2>s, <3>1, <3>3, ContinuedBy
    <3>4. CASE Kept BY <2>u, <3>1, <3>4 DEF Kept
    <3>5. QED BY <2>7, <3>2, <3>3, <3>4 DEF Turning
  <2>8. QED BY <1>3, <2>1, <2>2, <2>4, <2>5, <2>6, <2>7 DEF Watched
<1>4. QED BY <1>0, <1>1, <1>2, <1>3, Watching

(* Globals that are behind are read. *)
LEMMA GlobalsOwedStep ==
    ASSUME TypeOK, TypeOK', LinkInv, ViewInv, ClockInv, GlobalsOwed, Next
    PROVE  GlobalsOwed'
<1>t. /\ globals \in [config : Nat, warnings : Nat, dirty : BOOLEAN, task : Tasks \cup {None}]
      /\ globals' \in [config : Nat, warnings : Nat, dirty : BOOLEAN, task : Tasks \cup {None}]
      /\ config \in Nat /\ warnings \in Nat
  BY DEF TypeOK
<1>n. \A t \in Tasks : t # None BY NilIs
<1>0. CASE ~Watch' BY <1>0 DEF GlobalsOwed
<1>1. CASE PublishConnection
  <2>1. globals.dirty BY <1>1, PublishDoes DEF LinkInv
  <2>2. globals'.dirty /\ globals'.task # None BY <1>1, <1>n, <2>1, PublishDoes
  <2>3. QED BY <2>2 DEF GlobalsOwed
<1>2. CASE Watch' /\ Watch /\ Standing /\ conn' = conn /\ Watched
  <2>0. GlobalsBelow(globals, conn, config, warnings) BY <1>2 DEF ClockInv
  <2>1. globals.dirty => globals.task # None BY <1>2 DEF GlobalsOwed
  <2>c. \/ globals.config = config \/ globals.dirty \/ Announced("configuration_changed", config)
        \/ (InTask /\ (globals.task.conn # conn \/ globals.task.config \in {0, config}))
    BY <1>2 DEF GlobalsOwed
  <2>w. \/ globals.warnings = warnings \/ globals.dirty \/ Announced("warning_changed", warnings)
        \/ (InTask /\ (globals.task.conn # conn \/ globals.task.phase = "warnings"
                          \/ globals.task.warnings \in {0, warnings}))
    BY <1>2 DEF GlobalsOwed
  <2>s. ASSUME Carried \subseteq Carried'
        PROVE  /\ config' = config /\ Announced("configuration_changed", config)
                    => Announced("configuration_changed", config)'
               /\ warnings' = warnings /\ Announced("warning_changed", warnings)
                    => Announced("warning_changed", warnings)'
    BY <2>s DEF Announced
  <2>2. ASSUME UNCHANGED <<config, warnings, globals>>, Carried' = Carried PROVE GlobalsOwed'
    <3>1. InTask' = InTask BY <2>2 DEF InTask
    <3>2. QED BY <1>2, <2>1, <2>c, <2>w, <2>s, <2>2, <3>1 DEF GlobalsOwed
  <2>3. CASE Moving \/ Resting \/ ReadingOn \/ Taking \/ Turning
    <3>1. UNCHANGED <<config, warnings, globals>> /\ Carried' = Carried
      BY <2>3 DEF Moving, Resting, ReadingOn, Taking, Turning, Still, worldVars
    <3>2. QED BY <2>2, <3>1
  <2>4. CASE Telling
    <3>1. globals' = globals /\ \E events : Announces(events) /\ Carried' = Carried \cup Queued(events)
      BY <2>4 DEF Telling
    <3>2. PICK events : Announces(events) /\ Carried' = Carried \cup Queued(events) BY <3>1
    <3>3. InTask' = InTask BY <3>1 DEF InTask
    <3>4. config' = config \/ Announced("configuration_changed", config)' BY <3>2 DEF Announces, Announced
    <3>5. warnings' = warnings \/ Announced("warning_changed", warnings)' BY <3>2 DEF Announces, Announced
    <3>6. \/ globals'.config = config' \/ globals'.dirty \/ Announced("configuration_changed", config)'
          \/ (InTask' /\ (globals'.task.conn # conn' \/ globals'.task.config \in {0, config'}))
      BY <1>2, <2>c, <2>s, <3>1, <3>2, <3>3, <3>4
    <3>7. \/ globals'.warnings = warnings' \/ globals'.dirty \/ Announced("warning_changed", warnings)'
          \/ (InTask' /\ (globals'.task.conn # conn' \/ globals'.task.phase = "warnings"
                             \/ globals'.task.warnings \in {0, warnings'}))
      BY <1>2, <2>w, <2>s, <3>1, <3>2, <3>3, <3>5
    <3>8. QED BY <2>1, <3>1, <3>6, <3>7 DEF GlobalsOwed
  <2>5. ASSUME NEW e, Hearing(e) PROVE GlobalsOwed'
    <3>1. Marked(e) /\ Carried = Carried' \cup {e} /\ UNCHANGED <<config, warnings>> BY <2>5 DEF Hearing, worldVars
    <3>2. /\ globals'.config = globals.config /\ globals'.warnings = globals.warnings
          /\ globals'.dirty = (globals.dirty \/ TouchesGlobals(e)) /\ (TouchesGlobals(e) => globals'.task # None)
          /\ globals'.task = globals.task \/ (globals.task = None /\ globals'.task = [phase |-> "head"])
      BY <3>1 DEF Marked
    <3>3. globals'.dirty => globals'.task # None BY <2>1, <3>2
    <3>4. CASE globals'.dirty BY <3>3, <3>4 DEF GlobalsOwed
    <3>5. CASE ~globals'.dirty
      <4>1. ~globals.dirty /\ ~TouchesGlobals(e) BY <3>2, <3>5
      <4>2. InTask => InTask' /\ globals'.task = globals.task BY <3>2 DEF InTask
      <4>3. Announced("configuration_changed", config) =>
                globals.config = config \/ Announced("configuration_changed", config)'
        BY <1>t, <2>0, <3>1, <4>1 DEF Announced, TouchesGlobals, GlobalsBelow
      <4>4. Announced("warning_changed", warnings) =>
                globals.warnings = warnings \/ Announced("warning_changed", warnings)'
        BY <1>t, <2>0, <3>1, <4>1 DEF Announced, TouchesGlobals, GlobalsBelow
      <4>5. \/ globals'.config = config' \/ Announced("configuration_changed", config)'
            \/ (InTask' /\ (globals'.task.conn # conn' \/ globals'.task.config \in {0, config'}))
        BY <1>2, <2>c, <3>1, <3>2, <4>1, <4>2, <4>3
      <4>6. \/ globals'.warnings = warnings' \/ Announced("warning_changed", warnings)'
            \/ (InTask' /\ (globals'.task.conn # conn' \/ globals'.task.phase = "warnings"
                               \/ globals'.task.warnings \in {0, warnings'}))
        BY <1>2, <2>w, <3>1, <3>2, <4>1, <4>2, <4>4
      <4>7. QED BY <3>3, <4>5, <4>6 DEF GlobalsOwed
    <3>6. QED BY <3>4, <3>5
  <2>6. CASE Asking
    <3>1. UNCHANGED <<config, warnings>> /\ Carried' = Carried BY <2>6 DEF Asking, Still, worldVars
    <3>2. /\ Announced("configuration_changed", config) => Announced("configuration_changed", config)'
          /\ Announced("warning_changed", warnings) => Announced("warning_changed", warnings)'
      BY <2>s, <3>1
    <3>3. conn # 0 /\ ~reported' BY <1>2 DEF Watch
    <3>4. CASE ReadConfiguration /\ globals' = [globals EXCEPT !.task = None] /\ ~globals.dirty
      <4>1. ~InTask BY <3>4 DEF ReadConfiguration, InTask
      <4>2. globals'.config = globals.config /\ globals'.warnings = globals.warnings /\ ~globals'.dirty
        BY <1>t, <3>4
      <4>3. QED BY <2>c, <2>w, <3>1, <3>2, <3>4, <4>1, <4>2 DEF GlobalsOwed
    <3>5. ASSUME NEW c \in {0, config},
                 globals' = [globals EXCEPT !.dirty = FALSE,
                    !.task = [phase |-> "warnings", conn |-> conn, instance |-> served, config |-> c]]
          PROVE  GlobalsOwed'
      <4>1. ~globals'.dirty /\ globals'.task.phase = "warnings" /\ globals'.task.config = c BY <1>t, <3>5
      <4>2. globals'.task # None
        <5>1. globals'.task = [phase |-> "warnings", conn |-> conn, instance |-> served, config |-> c] BY <1>t, <3>5
        <5>a. served \in Nat /\ dials \in Nat /\ conn \in {0, dials} BY DEF TypeOK
        <5>2. served \in Nat /\ c \in Nat /\ conn \in Nat BY <1>t, <3>5, <5>a
        <5>3. globals'.task \in Tasks BY <1>t, <5>1, <5>2 DEF Tasks
        <5>4. QED BY <1>n, <5>3
      <4>3. InTask' BY <4>1, <4>2 DEF InTask
      <4>4. QED BY <3>1, <4>1, <4>3 DEF GlobalsOwed
    <3>6. CASE ReadWarnings
      <4>1. PICK w \in {0, warnings} :
              globals' = [globals EXCEPT !.task = [phase |-> "adopt", conn |-> globals.task.conn,
                                                   config |-> globals.task.config, warnings |-> w]]
        BY <3>6 DEF ReadWarnings
      <4>2. globals.task # None /\ globals.task.phase = "warnings" /\ globals.task \in Tasks
        BY <1>t, <3>6 DEF ReadWarnings
      <4>3. /\ globals'.config = globals.config /\ globals'.warnings = globals.warnings /\ globals'.dirty = globals.dirty
            /\ globals'.task = [phase |-> "adopt", conn |-> globals.task.conn, config |-> globals.task.config, warnings |-> w]
        BY <1>t, <4>1
      <4>4. globals'.task # None
        <5>1. globals.task.conn \in Nat /\ globals.task.config \in Nat /\ w \in Nat BY <1>t, <4>2 DEF Tasks
        <5>2. globals'.task \in Tasks BY <4>3, <5>1 DEF Tasks
        <5>3. QED BY <1>n, <5>2
      <4>5. InTask' BY <4>3, <4>4 DEF InTask
      <4>6. \/ globals'.config = config' \/ globals'.dirty \/ Announced("configuration_changed", config)'
            \/ (InTask' /\ (globals'.task.conn # conn' \/ globals'.task.config \in {0, config'}))
        BY <1>2, <2>c, <3>1, <3>2, <4>3, <4>5
      <4>7. globals'.task.warnings \in {0, warnings'} BY <3>1, <4>3
      <4>8. QED BY <4>4, <4>5, <4>6, <4>7 DEF GlobalsOwed
    <3>7. CASE AdoptGlobals
      <4>1. globals.task # None /\ globals.task.phase = "adopt" /\ InTask /\ globals.task \in Tasks
        BY <1>t, <3>7 DEF AdoptGlobals, InTask
      <4>2. CASE globals.task.conn # conn
        <5>1. globals' = [globals EXCEPT !.dirty = TRUE, !.task = [phase |-> "head"]] BY <3>7, <4>2 DEF AdoptGlobals
        <5>2. globals'.dirty /\ globals'.task \in Tasks BY <1>t, <5>1 DEF Tasks
        <5>3. QED BY <1>n, <5>2 DEF GlobalsOwed
      <4>3. CASE globals.task.conn = conn
        <5>1. /\ globals'.config = Highest(globals.task.config, globals.config)
              /\ globals'.warnings = Highest(globals.task.warnings, globals.warnings)
              /\ globals'.task = [phase |-> "head"]
          BY <3>7, <4>3 DEF AdoptGlobals
        <5>d. ASSUME globals.dirty PROVE globals'.dirty
          <6>. DEFINE c0 == globals.task.config # 0 /\ globals.task.config < globals.config
                      w0 == globals.task.warnings # 0 /\ globals.task.warnings < globals.warnings
          <6>1. globals' = [config |-> Highest(globals.task.config, globals.config),
                            warnings |-> Highest(globals.task.warnings, globals.warnings),
                            dirty |-> globals.dirty \/ c0 \/ w0, task |-> [phase |-> "head"]]
            BY <3>7, <4>3, Zenon DEF AdoptGlobals
          <6>. HIDE DEF c0, w0
          <6>2. globals'.dirty = (globals.dirty \/ c0 \/ w0) BY <6>1
          <6>3. QED BY <5>d, <6>2
        <5>2. globals.task.config # 0 /\ globals.task.warnings # 0 BY <3>3, <3>7, <4>3 DEF AdoptGlobals
        <5>3. globals'.task # None BY <1>n, <5>1 DEF Tasks
        <5>4. globals.task.config \in Nat /\ globals.task.warnings \in Nat BY <4>1 DEF Tasks
        <5>5. /\ globals.task.config <= config /\ globals.config <= config
              /\ globals.task.warnings <= warnings /\ globals.warnings <= warnings
          BY <2>0, <4>1, <4>3 DEF GlobalsBelow
        <5>6. \/ globals'.config = config' \/ globals'.dirty \/ Announced("configuration_changed", config)'
          BY <1>t, <2>c, <3>1, <3>2, <4>3, <5>1, <5>d, <5>2, <5>4, <5>5 DEF Highest
        <5>7. \/ globals'.warnings = warnings' \/ globals'.dirty \/ Announced("warning_changed", warnings)'
          BY <1>t, <2>w, <3>1, <3>2, <4>1, <4>3, <5>1, <5>d, <5>2, <5>4, <5>5 DEF Highest
        <5>8. QED BY <5>3, <5>6, <5>7 DEF GlobalsOwed
      <4>4. QED BY <4>2, <4>3
    <3>8. QED BY <1>t, <2>6, <3>3, <3>4, <3>5, <3>6, <3>7 DEF Asking, ReadsGlobals, ReadConfiguration
  <2>7. QED BY <1>2, <2>3, <2>4, <2>5, <2>6 DEF Watched
<1>3. QED BY <1>0, <1>1, <1>2, Watching
-----------------------------------------------------------------------------
(* A client being started, or one that follows a Session it has read. *)
LEMMA SettledReader ==
    ASSUME Init, Settled
    PROVE  /\ rootID \in Session /\ root \in Readers /\ root.id = rootID /\ root.chain = NoChain /\ ~root.dirty
           /\ root.hydration = Read(rootID) /\ root.hydration # None /\ root.floor = Pair(rootID)
           /\ ViewOf(root, log[rootID], durable[rootID])
<1>1. rootID \in Session BY ReaderAssumption DEF Init, Settled
<1>. DEFINE l == log[rootID]
            page == PageBefore(l, Len(l))
            r == [id |-> rootID, hydration |-> Read(rootID), items |-> page.items, cursor |-> page.cursor,
                  floor |-> Pair(rootID), dirty |-> FALSE, older |-> FALSE, chain |-> NoChain]
<1>2. l \in Seq(BOOLEAN) BY <1>1, ReaderAssumption DEF Init
<1>3. Precedes(l, l) BY <1>2, PrecedesIs
<1>4. page.items \in Seq(Item) /\ page.cursor \in Nat /\ Shown(page.items, page.cursor, l) /\ Sound(page.items, l)
  BY <1>2, <1>3, PageShows
<1>5. Pair(rootID) \in Pairs /\ durable[rootID] = 1 /\ Pair(rootID).durable = 1 BY <1>1 DEF Init, Pair, Pairs
<1>6. Read(rootID) \in Views BY <1>2, <1>5 DEF Init, Read, Views
<1>7. root = r BY DEF Settled
<1>. HIDE DEF page
<1>8. r \in Readers
  <2>1. NoChain \in Chains BY DEF Chains
  <2>. DEFINE C == Chains
              V == Views \cup {None}
              P == Pairs \cup {None}
  <2>2. NoChain \in C /\ Read(rootID) \in V /\ Pair(rootID) \in P BY <1>5, <1>6, <2>1
  <2>3. Readers = [id : Session, hydration : V, items : Seq(Item), cursor : Nat,
                   floor : P, dirty : BOOLEAN, older : BOOLEAN, chain : C]
    BY DEF Readers
  <2>. HIDE DEF C, V, P
  <2>4. QED BY <1>1, <1>4, <2>2, <2>3
<1>9. ViewOf(r, l, durable[rootID])
  <2>1. Holds(r, l, durable[rootID])
    <3>1. Read(rootID) # None /\ Read(rootID).pair = Pair(rootID) /\ Read(rootID).log = l BY <1>6, NilIs DEF Read
    <3>2. Fits(Read(rootID), l, durable[rootID]) BY <1>3, <1>5, <3>1 DEF Fits
    <3>3. QED BY <1>4, <3>1, <3>2 DEF Holds
  <2>2. NextOf(r) = None BY NoChainIs
  <2>3. r.chain.phase = "none" BY NoChainIs
  <2>4. QED BY <2>1, <2>2, <2>3 DEF ViewOf, Fetched, Walks, Adopts
<1>10. Read(rootID) # None BY <1>6, NilIs
<1>11. QED BY <1>1, <1>7, <1>8, <1>9, <1>10

(* The initial states have the kinds. *)
LEMMA TypeInit == Init => TypeOK
<1> SUFFICES ASSUME Init PROVE TypeOK OBVIOUS
<1>1. WorldOK BY ReaderAssumption DEF Init, WorldOK
<1>2. RestOK
  <2>1. <<>> \in Seq([conn : Nat, event : Events]) /\ Len(<<>>) = 0 /\ InboxCap \in Nat BY ReaderAssumption
  <2>2. inbox = <<>> BY DEF Init
  <2>3. inbox \in Seq([conn : Nat, event : Events]) /\ Len(inbox) <= InboxCap BY <2>1, <2>2
  <2>4. navs = {} /\ reported = FALSE /\ exited = FALSE /\ scope \in Scopes BY DEF Init
  <2>5. QED BY <2>3, <2>4 DEF RestOK
<1>3. SubOK
  <2>1. <<>> \in Seq(Events) /\ Len(<<>>) = 0 /\ StreamCap \in Nat BY ReaderAssumption
  <2>2. PICK b \in BOOLEAN : sub = [open |-> b, queue |-> <<>>] BY DEF Init, Starting, Settled
  <2>3. sub.queue = <<>> /\ sub \in [open : BOOLEAN, queue : Seq(Events)] BY <2>1, <2>2
  <2>4. QED BY <2>1, <2>3 DEF SubOK
<1>4. LinkOK
  <2>1. CASE Starting BY <2>1 DEF Starting, LinkOK
  <2>2. CASE Settled BY <2>2 DEF Settled, LinkOK
  <2>3. QED BY <2>1, <2>2 DEF Init
<1>5. GlobalsOK
  <2>1. PICK n \in Nat : \E b \in BOOLEAN : globals = [config |-> n, warnings |-> n, dirty |-> b, task |-> None]
    BY DEF Init, Starting, Settled
  <2>2. QED BY <2>1 DEF GlobalsOK
<1>6. RootOK
  <2>1. CASE Starting BY <2>1 DEF Init, Starting, RootOK
  <2>2. CASE Settled
    <3>1. root \in Readers /\ root.id = rootID /\ rootID \in Session BY <2>2, SettledReader
    <3>2. QED BY <2>2, <3>1 DEF Init, Settled, RootOK
  <2>3. QED BY <2>1, <2>2 DEF Init
<1>7. QED BY <1>1, <1>2, <1>3, <1>4, <1>5, <1>6 DEF TypeOK, WorldOK, SubOK, LinkOK, RootOK, GlobalsOK, RestOK

(* The initial states have the invariant. *)
LEMMA ReaderInit == Init => ReaderInv
<1> SUFFICES ASSUME Init PROVE ReaderInv OBVIOUS
<1>1. TypeOK BY TypeInit
<1>2. Queued(inbox) = {} /\ navs = {} BY DEF Init, Queued
<1>3. CASE Starting
  <2>1. conn = 0 /\ ~sub.open /\ root = None /\ dialing.phase = "connect" /\ globals.task = None
        /\ globals.config = 0 /\ globals.warnings = 0 /\ globals.dirty
    BY <1>3 DEF Starting
  <2>2. ~Standing /\ ~Watch BY <2>1 DEF Standing, Watch
  <2>3. LinkInv BY <1>2, <2>1 DEF LinkInv, InTask
  <2>4. ViewInv /\ SelInv BY <2>1 DEF ViewInv, SelInv
  <2>5. OrderInv /\ BreachInv /\ ClockInv BY <2>2 DEF OrderInv, BreachInv, ClockInv
  <2>6. GlobalsOwed /\ DirtyRuns /\ PairOwed /\ ConfigOwed /\ WarningsOwed
    BY <2>2 DEF GlobalsOwed, DirtyRuns, PairOwed, ConfigOwed, WarningsOwed
  <2>7. QED BY <1>1, <2>3, <2>4, <2>5, <2>6 DEF ReaderInv
<1>4. CASE Settled
  <2>1. /\ conn = 1 /\ dials = 1 /\ dialing.phase = "none" /\ globals.task = None /\ sub.queue = <<>>
        /\ globals.config = config /\ globals.warnings = warnings /\ ~globals.dirty /\ config = 1 /\ warnings = 1
    BY <1>4 DEF Init, Settled
  <2>2. /\ rootID \in Session /\ root \in Readers /\ root.id = rootID /\ root.chain = NoChain /\ ~root.dirty
        /\ root.hydration = Read(rootID) /\ root.hydration # None /\ root.floor = Pair(rootID)
        /\ ViewOf(root, log[rootID], durable[rootID])
    BY <1>4, SettledReader
  <2>3. /\ root.hydration.pair = Pair(rootID) /\ root.hydration.config = config /\ root.hydration.warnings = warnings
    BY <2>2 DEF Read
  <2>4. NextOf(root) = None /\ root.chain.phase = "none" /\ FloorOf(root) = None BY <2>2, NoChainIs DEF FloorOf
  <2>5. LinkInv BY <1>2, <2>1 DEF LinkInv, InTask
  <2>6. ViewInv /\ SelInv BY <2>2 DEF ViewInv, SelInv
  <2>7. OrderInv
    <3>1. Carried = {} BY <1>2, <2>1 DEF Carried, Arrived, Queued
    <3>2. \A p \in Known : p = Pair(rootID) BY <2>2, <2>3, <2>4 DEF Known, KnownOf
    <3>3. \A s \in Session : \A p \in SeenOf(s) : p = Pair(s) BY <3>1, <3>2 DEF SeenOf
    <3>4. \A s \in Session : AtLeast(Pair(s), Pair(s)) BY <1>1 DEF TypeOK, AtLeast, Pair
    <3>5. QED BY <3>3, <3>4 DEF OrderInv
  <2>8. BreachInv BY <2>4 DEF BreachInv
  <2>9. ClockInv BY <2>1, <2>3, <2>4 DEF ClockInv, GlobalsBelow, Clocked, Below
  <2>10. GlobalsOwed BY <2>1 DEF GlobalsOwed
  <2>11. DirtyRuns /\ PairOwed /\ ConfigOwed /\ WarningsOwed
    BY <2>2, <2>3 DEF DirtyRuns, PairOwed, ConfigOwed, WarningsOwed
  <2>12. QED BY <1>1, <2>5, <2>6, <2>7, <2>8, <2>9, <2>10, <2>11 DEF ReaderInv
<1>5. QED BY <1>3, <1>4 DEF Init

(* A step that changes nothing keeps the invariant. *)
LEMMA ReaderStutters == ReaderInv /\ UNCHANGED vars => ReaderInv'
<1> SUFFICES ASSUME ReaderInv, UNCHANGED vars PROVE ReaderInv' OBVIOUS
<1>1. /\ UNCHANGED <<log, durable, local, config, warnings, owed, instance>>
      /\ UNCHANGED <<sub, conn, served, dialing, dials, selection, rootID, root, navs, globals, inbox, reported, exited, scope>>
  BY DEF vars, worldVars, linkVars, viewVars
<1>2. TypeOK' BY <1>1 DEF ReaderInv, TypeOK
<1>3. Carried' = Carried BY <1>1 DEF Carried, Arrived, Queued
<1>4. /\ Known' = Known /\ (\A s : Pair(s)' = Pair(s)) /\ InTask' = InTask /\ Standing' = Standing /\ Watch' = Watch
      /\ Queued(inbox)' = Queued(inbox)
  BY <1>1 DEF Known, KnownOf, NextOf, FloorOf, Pair, InTask, Standing, Watch, Queued
<1>5. LinkInv' BY <1>1, <1>4 DEF ReaderInv, LinkInv
<1>6. ViewInv' BY <1>1 DEF ReaderInv, ViewInv
<1>7. OrderInv'
  <2>1. \A s : SeenOf(s)' = SeenOf(s) BY <1>1, <1>3, <1>4 DEF SeenOf
  <2>2. OrderInv BY DEF ReaderInv
  <2>3. QED BY <1>4, <2>1, <2>2 DEF OrderInv
<1>8. BreachInv' BY <1>1, <1>4 DEF ReaderInv, BreachInv
<1>9. ClockInv' BY <1>1, <1>4 DEF ReaderInv, ClockInv
<1>10. SelInv' BY <1>1 DEF ReaderInv, SelInv, Resumes
<1>11. \A k, c : Announced(k, c)' = Announced(k, c) BY <1>3 DEF Announced
<1>12. GlobalsOwed' BY <1>1, <1>3, <1>4 DEF ReaderInv, GlobalsOwed, Announced
<1>13. DirtyRuns' BY <1>1, <1>4 DEF ReaderInv, DirtyRuns
<1>14. PairOwed' BY <1>1, <1>3, <1>4 DEF ReaderInv, PairOwed, NextOf, Pair
<1>15. ConfigOwed' BY <1>1, <1>3, <1>4 DEF ReaderInv, ConfigOwed, NextOf, Announced
<1>16. WarningsOwed' BY <1>1, <1>3, <1>4 DEF ReaderInv, WarningsOwed, NextOf, Announced
<1>17. QED BY <1>2, <1>5, <1>6, <1>7, <1>8, <1>9, <1>10, <1>12, <1>13, <1>14, <1>15, <1>16 DEF ReaderInv

(* The invariant of the client and the Runtime it is connected to: what is
   shown, carried and owed, through every interleaving of changes, frames,
   reads, losses and navigations. *)
THEOREM ReaderInvariance == Spec => []ReaderInv
<1>1. Init => ReaderInv BY ReaderInit
<1>2. ReaderInv /\ [Next]_vars => ReaderInv'
  <2>1. CASE UNCHANGED vars BY <2>1, ReaderStutters
  <2>2. ASSUME ReaderInv, Next PROVE ReaderInv'
    <3>0. /\ TypeOK /\ LinkInv /\ ViewInv /\ OrderInv /\ BreachInv /\ ClockInv /\ SelInv
          /\ GlobalsOwed /\ DirtyRuns /\ PairOwed /\ ConfigOwed /\ WarningsOwed
      BY <2>2 DEF ReaderInv
    <3>1. TypeOK' BY <2>2, <3>0, TypeStep
    <3>2. LinkInv' /\ ViewInv' BY <2>2, <3>0, LinkStep, ViewStep
    <3>3. OrderInv' /\ BreachInv' BY <2>2, <3>0, <3>1, OrderStep, BreachStep
    <3>4. ClockInv' BY <2>2, <3>0, <3>1, ClockStep
    <3>5. SelInv' BY <2>2, <3>0, SelStep
    <3>6. GlobalsOwed' BY <2>2, <3>0, <3>1, GlobalsOwedStep
    <3>7. DirtyRuns' BY <2>2, <3>0, DirtyStep
    <3>8. PairOwed' BY <2>2, <3>0, PairStep
    <3>9. ConfigOwed' /\ WarningsOwed' BY <2>2, <3>0, ConfigStep, WarningsStep
    <3>10. QED BY <3>1, <3>2, <3>3, <3>4, <3>5, <3>6, <3>7, <3>8, <3>9 DEF ReaderInv
  <2>3. QED BY <2>1, <2>2
<1>3. QED BY <1>1, <1>2, PTL DEF Spec
-----------------------------------------------------------------------------
(* Every variable of the client's view keeps its kind. *)
THEOREM ReaderTypes == Spec => []TypeOK
<1>1. ReaderInv => TypeOK BY DEF ReaderInv
<1>2. QED BY <1>1, ReaderInvariance, PTL

(* Through walks, older pages, answers read again and events, what is shown
   is one unbroken stretch up to the accepted hydration's newest item, and
   the next page joins it (bridgeSession, mergeConversation, adopt). *)
THEOREM ShowsAStretch == Spec => []ShownIsUnbroken
<1>1. ASSUME ReaderInv PROVE ShownIsUnbroken
  <2>1. TypeOK /\ ViewInv BY <1>1 DEF ReaderInv
  <2>2. ASSUME root # None, root.hydration # None
        PROVE  LET n == Len(root.hydration.log)
                   k == n - Len(root.items) + 1
               IN  /\ \A i \in DOMAIN root.items :
                         /\ root.items[i].id = k + i - 1
                         /\ root.hydration.log[root.items[i].id] => root.items[i].done
                   /\ root.cursor = (IF k > 1 THEN k ELSE 0)
    <3>1. Shown(root.items, root.cursor, root.hydration.log) BY <2>1, <2>2 DEF ViewInv, ViewOf, Holds
    <3>2. root.items \in Seq(Item) BY <2>1, <2>2, RootKinds
    <3>3. DOMAIN root.items = 1..Len(root.items) BY <3>2
    <3>4. QED BY <3>1, <3>3 DEF Shown, Stretch
  <2>3. QED BY <2>1, <2>2 DEF ShownIsUnbroken
<1>2. QED BY <1>1, ReaderInvariance, PTL

(* When nothing is on its way, nothing failed and the stream stands, the
   client shows what the Runtime holds: what the invariant says is owed for
   every difference has nowhere left to be. *)
LEMMA SettledIsCurrent ==
    ASSUME ReaderInv, Idle, ~reported, ~exited
    PROVE  /\ globals.config = config /\ globals.warnings = warnings
           /\ root # None =>
                 /\ root.hydration # None
                 /\ root.hydration.pair = Pair(rootID) /\ root.hydration.log = log[rootID]
                 /\ root.hydration.config = config /\ root.hydration.warnings = warnings
                 /\ \A i \in DOMAIN root.items : root.items[i].done = log[rootID][root.items[i].id]
<1>0. /\ TypeOK /\ ViewInv /\ SelInv /\ GlobalsOwed /\ DirtyRuns /\ PairOwed /\ ConfigOwed /\ WarningsOwed
  BY DEF ReaderInv
<1>1. Watch /\ navs = {} /\ globals.task = None /\ \A s \in Session : owed[s] = 0 BY DEF Idle, Watch
<1>2. Carried = {}
  <2>1. sub.queue = <<>> /\ inbox = <<>> BY DEF Idle
  <2>2. QED BY <2>1 DEF Carried, Arrived, Queued
<1>3. ~InTask /\ \A kind, clock : ~Announced(kind, clock) BY <1>1, <1>2 DEF InTask, Announced
<1>4. globals.config = config /\ globals.warnings = warnings BY <1>0, <1>1, <1>3 DEF GlobalsOwed
<1>5. ASSUME root # None
      PROVE  /\ root.hydration # None
             /\ root.hydration.pair = Pair(rootID) /\ root.hydration.log = log[rootID]
             /\ root.hydration.config = config /\ root.hydration.warnings = warnings
             /\ \A i \in DOMAIN root.items : root.items[i].done = log[rootID][root.items[i].id]
  <2>1. root.chain = NoChain
    <3>1. root.chain = NoChain \/ root.chain.sel # selection BY <1>5 DEF Idle, ReaderCurrent
    <3>2. QED BY <1>0, <1>1, <1>5, <3>1 DEF SelInv
  <2>2. ~root.dirty /\ NextOf(root) = None /\ root.chain.phase = "none" BY <1>0, <1>1, <1>5, <2>1, NoChainIs DEF DirtyRuns
  <2>3. /\ root \in Readers /\ rootID \in Session /\ log[rootID] \in Seq(BOOLEAN) /\ root.items \in Seq(Item)
        /\ Pair(rootID).durable = durable[rootID]
    BY <1>0, <1>5, RootKinds
  <2>4. owed[rootID] = 0 BY <1>1, <2>3
  <2>5. root.hydration # None /\ root.hydration.pair = Pair(rootID)
    BY <1>0, <1>1, <1>2, <1>5, <2>2, <2>4 DEF PairOwed
  <2>6. root.hydration.config = config BY <1>0, <1>1, <1>3, <1>5, <2>2 DEF ConfigOwed
  <2>7. root.hydration.warnings = warnings BY <1>0, <1>1, <1>3, <1>5, <2>2 DEF WarningsOwed
  <2>8. Holds(root, log[rootID], durable[rootID]) BY <1>0, <1>5 DEF ViewInv, ViewOf
  <2>9. root.hydration.log = log[rootID] BY <2>3, <2>5, <2>8 DEF Holds, Fits
  <2>10. ASSUME NEW i \in DOMAIN root.items PROVE root.items[i].done = log[rootID][root.items[i].id]
    <3>1. i \in 1..Len(root.items) /\ root.items[i] \in Item BY <2>3, <2>10, ElementOfSeq
    <3>2. root.items[i].done \in BOOLEAN BY <3>1 DEF Item
    <3>3. root.items[i].id \in 1..Len(log[rootID]) /\ (root.items[i].done => log[rootID][root.items[i].id])
      BY <2>5, <2>8, <3>1 DEF Holds, Sound
    <3>4. log[rootID][root.items[i].id] => root.items[i].done BY <2>5, <2>8, <2>9, <3>1 DEF Holds, Shown
    <3>5. log[rootID][root.items[i].id] \in BOOLEAN BY <2>3, <3>3, ElementOfSeq
    <3>6. QED BY <3>2, <3>3, <3>4, <3>5
  <2>11. QED BY <2>5, <2>6, <2>7, <2>9, <2>10
<1>6. QED BY <1>4, <1>5

(* No event lost, ignored or overtaken, no superseded read and no
   navigation that came to nothing leaves the view behind without a sign
   (acceptEvent, startReader, readSession, readGlobals, resumeReaders). *)
THEOREM NothingIsSilentlyStale == Spec => []NoSilentStaleness
<1>1. ReaderInv => NoSilentStaleness BY SettledIsCurrent DEF NoSilentStaleness
<1>2. QED BY <1>1, ReaderInvariance, PTL
-----------------------------------------------------------------------------
(* What the task of the globals adopts is the higher of two clocks. *)
LEMMA GlobalsGoOn ==
    ASSUME TypeOK, ReadsGlobals
    PROVE  globals'.config >= globals.config /\ globals'.warnings >= globals.warnings
<1>1. /\ globals \in [config : Nat, warnings : Nat, dirty : BOOLEAN, task : Tasks \cup {None}]
      /\ config \in Nat /\ warnings \in Nat
  BY DEF TypeOK
<1>2. ASSUME globals'.config = globals.config, globals'.warnings = globals.warnings
      PROVE  globals'.config >= globals.config /\ globals'.warnings >= globals.warnings
  BY <1>1, <1>2
<1>3. CASE ReadConfiguration BY <1>1, <1>2, <1>3 DEF ReadConfiguration
<1>4. CASE ReadWarnings BY <1>1, <1>2, <1>4 DEF ReadWarnings
<1>5. CASE AdoptGlobals
  <2>1. globals.task # None /\ globals.task.phase = "adopt" BY <1>5 DEF AdoptGlobals
  <2>2. CASE globals.task.conn # conn
    <3>1. globals' = [globals EXCEPT !.dirty = TRUE, !.task = [phase |-> "head"]] BY <1>5, <2>2 DEF AdoptGlobals
    <3>2. QED BY <1>1, <1>2, <3>1
  <2>3. CASE globals.task.conn = conn
    <3>1. globals.task.config \in Nat /\ globals.task.warnings \in Nat BY <1>1, <2>1 DEF Tasks
    <3>2. /\ globals'.config = Highest(globals.task.config, globals.config)
          /\ globals'.warnings = Highest(globals.task.warnings, globals.warnings)
      BY <1>5, <2>3 DEF AdoptGlobals
    <3>3. QED BY <1>1, <3>1, <3>2 DEF Highest
  <2>4. QED BY <2>2, <2>3
<1>6. QED BY <1>3, <1>4, <1>5 DEF ReadsGlobals

(* On one connection no accepted clock goes back and nothing older than
   what the client knows is accepted (acceptHydration, readGlobals). *)
THEOREM ClocksGoOn == Spec => ClocksAdvance
<1>1. ASSUME ReaderInv, [Next]_vars PROVE Onward
  <2>0. TypeOK /\ LinkInv /\ ViewInv BY <1>1 DEF ReaderInv
  <2>t. globals.config \in Nat /\ globals.warnings \in Nat BY <2>0 DEF TypeOK
  <2>1. SUFFICES ASSUME conn' = conn, conn # 0 PROVE Onward BY DEF Onward
  <2>r. ~Repair
    <3>1. ASSUME Repair PROVE FALSE
      <4>1. conn' = 0 BY <2>0, <3>1, RepairDoes
      <4>2. QED BY <4>1, <2>1
    <3>2. QED BY <3>1
  <2>k. ASSUME globals'.config >= globals.config, globals'.warnings >= globals.warnings,
               root # None /\ root' # None => root'.hydration \in {None, root.hydration}
        PROVE  Onward
    BY <2>k DEF Onward
  <2>u. ASSUME UNCHANGED <<root, globals>> PROVE Onward BY <2>t, <2>k, <2>u
  <2>2. CASE UNCHANGED vars BY <2>2, <2>u DEF vars, viewVars
  <2>3. CASE Next
    <3>1. ASSUME NEW s \in Session, Changed(s) PROVE Onward BY <2>0, <3>1, <2>u, ChangedDoes DEF viewVars
    <3>2. ASSUME Observed PROVE Onward BY <2>0, <3>2, <2>u, ObservedDoes DEF viewVars
    <3>3. ASSUME Lose \/ Restart \/ Connect \/ Subscribe PROVE Onward BY <3>3, <2>u, Frames DEF viewVars
    <3>4. ASSUME ReadsGlobals PROVE Onward
      <4>1. root' = root BY <3>4, Frames DEF viewVars
      <4>2. QED BY <2>0, <2>k, <3>4, <4>1, GlobalsGoOn
    <3>5. ASSUME ChainStep PROVE Onward
      <4>1. globals' = globals /\ root'.hydration = root.hydration BY <2>0, <3>5, Frames, ChainDoes
      <4>2. QED BY <2>t, <2>k, <4>1
    <3>6. ASSUME Adopt PROVE Onward
      <4>1. Repeated \/ Adopted BY <2>0, <2>r, <3>6, AdoptDoes DEF Refused
      <4>2. globals' = globals BY <4>1 DEF Repeated, Adopted
      <4>3. CASE Repeated BY <2>t, <2>k, <4>2, <4>3 DEF Repeated, Touched
      <4>4. CASE Adopted
        <5>1. CASE root.chain.next = None BY <2>t, <2>k, <4>2, <4>4, <5>1 DEF Adopted
        <5>2. CASE root.chain.next # None
          <6>1. /\ root'.hydration = root.chain.next /\ root.chain.next \in Views
                /\ globals.config <= root.chain.next.config /\ globals.warnings <= root.chain.next.warnings
                /\ root.hydration # None => /\ AtLeast(root.chain.next.pair, root.hydration.pair)
                                            /\ root.hydration.config <= root.chain.next.config
                                            /\ root.hydration.warnings <= root.chain.next.warnings
            BY <4>4, <5>2 DEF Adopted
          <6>2. root # None BY <2>0, <3>6, AdoptDoes
          <6>3. root.hydration # None => root.hydration \in Views BY <2>0, <6>2, RootKinds
          <6>4. \A v \in Views : v.config \in Nat /\ v.warnings \in Nat BY DEF Views
          <6>5. QED BY <2>t, <4>2, <6>1, <6>3, <6>4 DEF Onward
        <5>3. QED BY <5>1, <5>2
      <4>5. QED BY <4>1, <4>3, <4>4
    <3>7. ASSUME PublishConnection PROVE Onward BY <2>0, <2>1, <3>7, PublishDoes
    <3>8. ~StreamEnds BY <2>r DEF StreamEnds
    <3>9. ASSUME Forward PROVE Onward BY <2>0, <2>r, <2>u, <3>9, ForwardIs
    <3>10. ASSUME AcceptEvent PROVE Onward
      <4>1. CASE UNCHANGED <<linkVars, root, globals>> BY <2>u, <4>1
      <4>2. CASE Marked(Head(inbox).event)
        <5>1. globals'.config = globals.config /\ globals'.warnings = globals.warnings BY <4>2 DEF Marked
        <5>2. root # None => root'.hydration = root.hydration BY <4>2 DEF Marked, Touched
        <5>3. QED BY <2>t, <2>k, <5>1, <5>2
      <4>3. QED BY <2>0, <2>r, <3>10, <4>1, <4>2, AcceptDoes
    <3>11. ASSUME NavStep PROVE Onward
      <4>1. globals' = globals BY <3>11, Frames
      <4>2. root # None /\ root' # None => root'.hydration \in {None, root.hydration}
        BY <2>0, <3>11, NavDoes DEF Kept, Replaced, NewRoot, Moved, Touched
      <4>3. QED BY <2>t, <2>k, <4>1, <4>2
    <3>12. QED
      BY <2>0, <2>3, <3>1, <3>2, <3>3, <3>4, <3>5, <3>6, <3>7, <3>8, <3>9, <3>10, <3>11, NextIs
  <2>4. QED BY <1>1, <2>2, <2>3
<1>2. QED BY <1>1, ReaderInvariance, PTL DEF Spec, ClocksAdvance

(* A connection ends for its stream or for a full queue; an answer or an
   event of an honest Runtime never ends it (acceptEvent, adopt). *)
THEOREM OnlyLossRepairs == Spec => RepairsOnlyLosses
<1>1. ASSUME ReaderInv, [Next]_vars PROVE ForLoss
  <2>0. TypeOK /\ LinkInv /\ ViewInv /\ OrderInv /\ BreachInv BY <1>1 DEF ReaderInv
  <2>1. SUFFICES ASSUME conn # 0, conn' = 0, sub.open PROVE Len(inbox) = InboxCap /\ sub'.queue # sub.queue
    BY DEF ForLoss
  <2>2. Standing BY <2>1 DEF Standing
  <2>3. ~UNCHANGED conn BY <2>1
  <2>4. ~UNCHANGED vars BY <2>3 DEF vars, linkVars
  <2>5. \A s \in Session : ~Changed(s) BY <2>0, <2>3, ChangedDoes DEF linkVars
  <2>6. ~Observed BY <2>0, <2>3, ObservedDoes DEF linkVars
  <2>7. ~(Lose \/ Restart \/ ChainStep \/ ReadsGlobals \/ Connect \/ Subscribe \/ NavStep)
    BY <2>3, Frames DEF linkVars
  <2>8. ~PublishConnection BY <2>0, <2>1, PublishDoes
  <2>9. ~StreamEnds BY <2>1 DEF StreamEnds
  <2>k. ASSUME root # None PROVE \A p \in KnownOf(root) : \A q \in KnownOf(root) : ~Incomparable(p, q)
    BY <2>0, <2>2, <2>k, KnownOrder
  <2>10. ASSUME Adopt PROVE FALSE
    <3>1. root # None /\ root.chain.phase = "adopt" BY <2>0, <2>10, AdoptDoes
    <3>2. Verdict(root.chain) = "continuity" BY <2>3, <2>10 DEF Adopt, linkVars
    <3>3. root.chain.err # "continuity" BY <2>0, <2>2, <3>1 DEF BreachInv
    <3>4. root.chain.next # None /\ AcceptHydration(root.hydration, root.chain.next, globals) = "continuity"
      BY <3>2, <3>3 DEF Verdict
    <3>5. NextOf(root) = root.chain.next BY <3>1 DEF NextOf
    <3>6. root.hydration # None /\ Incomparable(root.hydration.pair, root.chain.next.pair)
      BY <3>4 DEF AcceptHydration
    <3>7. root.hydration.pair \in KnownOf(root) /\ root.chain.next.pair \in KnownOf(root) BY <3>4, <3>5, <3>6, KnownIs
    <3>8. QED BY <2>k, <3>1, <3>6, <3>7
  <2>11. ASSUME AcceptEvent PROVE FALSE
    <3>1. inbox # <<>> /\ Head(inbox).conn = conn /\ Unordered(Head(inbox).event)
      BY <2>0, <2>3, <2>11, AcceptDoes DEF Marked, linkVars
    <3>. DEFINE e == Head(inbox).event
    <3>2. e \in Carried
      <4>1. inbox \in Seq([conn : Nat, event : Events]) BY <2>0 DEF TypeOK
      <4>2. Head(inbox) = inbox[1] /\ 1 \in 1..Len(inbox) BY <3>1, <4>1, HeadTailProperties, LenProperties, EmptySeq
      <4>3. QED BY <3>1, <4>2 DEF Carried, Arrived, Queued
    <3>3. /\ e.kind = "session_changed" /\ root # None /\ root.id = e.of /\ root.hydration # None
          /\ Incomparable(e.pair, root.hydration.pair)
      BY <3>1 DEF Unordered
    <3>4. root.id = rootID /\ rootID \in Session BY <2>0, <3>3, RootKinds
    <3>5. root.hydration.pair \in SeenOf(rootID) BY <3>3, KnownIs DEF SeenOf, Known
    <3>6. e.pair \in SeenOf(rootID) BY <3>2, <3>3, <3>4 DEF SeenOf
    <3>7. QED BY <2>0, <2>2, <3>3, <3>4, <3>5, <3>6 DEF OrderInv, Incomparable
  <2>12. ASSUME Forward PROVE Len(inbox) = InboxCap /\ sub'.queue # sub.queue
    BY <2>0, <2>3, <2>12, ForwardIs DEF linkVars
  <2>13. QED BY <1>1, <2>0, <2>4, <2>5, <2>6, <2>7, <2>8, <2>9, <2>10, <2>11, <2>12, NextIs
<1>2. QED BY <1>1, ReaderInvariance, PTL DEF Spec, RepairsOnlyLosses
=============================================================================
