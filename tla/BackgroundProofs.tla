-------------------------- MODULE BackgroundProofs --------------------------
(***************************************************************************)
(* Proofs about the background ownership groups of module Background, for  *)
(* any children, jobs, Operations and callers, with and without storage    *)
(* failures and a lost Harness.                                            *)
(***************************************************************************)
EXTENDS Background, TLAPS

(* Places of the goroutines, and the phases the invariant tells apart. *)
Places == {"none", "entry", "running", "over", "settling", "drain", "install", "release", "retire",
           "tail", "close", "done"}
Holding   == {"entry", "running", "over", "settling", "drain", "install"}  \* the run slot is this one's
Settled   == {"drain", "install", "release", "retire", "tail", "close", "done"}
Starting  == {"committed", "handed", "adopted"}                           \* a launch past its commit
Unstarted == {"absent", "none", "admitted", "rejected"} \cup Starting
Launches  == Unstarted \cup {"started", "failed", "settled", "over"}
Unspawned == {"reserved", "admitted", "handed", "unreserved"}             \* a start in a tool call
JobPlaces == {"absent", "none", "running", "killed", "exited", "over"} \cup Unspawned
Admitting == {"admit", "install"}
Submitted == {"absent", "idle", "route", "release"} \cup Admitting
StopPlaces == {"none", "lineage", "hold", "members", "child"}
Present   == {"live", "claimed"}                                          \* a member of its group
Untold    == {"none", "deliver", "idle", "reroute", "admit"}              \* before a delivery's answer
Endings   == {"none", "deliver", "finish", "check", "ended"} \cup Delivering

(* A stop interval. *)
Record == [at : StopPlaces, todo : SUBSET Member, joins : SUBSET Member, runs : SUBSET Ops, hold : Int \cup Job,
           on : Session]

TypeInv ==
    /\ TypeOK
    /\ ending \in [Member -> Endings]
    /\ launch \in [Child -> Launches] /\ job \in [Job -> JobPlaces] /\ submit \in [Child -> Submitted]
    /\ exec \in [Child -> [Ops -> Places]]
    /\ buffer \in [Child -> Nat] /\ reserved \in [Child -> Int \cup Job] /\ corrupt \subseteq Child
    /\ settle \in [Child -> {"none", "deliver", "abandon", "claimed"}]
    /\ stop \in [Session -> Record]
    /\ ctx \in {"live", "canceled"} /\ faults \in Nat /\ submits \in Nat
    /\ delivered \in [Member -> Nat] /\ refused \subseteq Member /\ quieted \subseteq Child

(* A member is claimed once, told of at most once, and then gone. *)
LifeInv(m) ==
    /\ member[m] \in {"none", "live"} => ending[m] = "none"
    /\ member[m] = "done" => ending[m] \in {"check", "ended"}
    /\ delivered[m] <= 1 /\ (m \in refused => delivered[m] = 0)
    /\ ending[m] \in Untold => delivered[m] = 0 /\ m \notin refused
    /\ ending[m] \in Delivering \cup {"check"} => m \in Job /\ Owner[m] \in Child

(* What a child's launcher knows of the child at each of its steps; its
   completion is pending and taken after that only, and once. *)
LaunchInv(c) ==
    /\ launch[c] \in {"absent", "none"} => member[c] = "none"
    /\ launch[c] \in Starting \cup {"admitted"} => member[c] = "live"
    /\ launch[c] \in {"absent", "none", "admitted"} =>
           current[c] = 0 /\ submit[c] \in {"absent", "idle"} /\ bg[c] = "open"
    /\ launch[c] \in Starting \cup {"rejected"} => current[c] = 1
    /\ launch[c] \in Unstarted =>
           run[c] = 0 /\ submit[c] \notin Admitting /\ \A o \in Ops : exec[c][o] = "none"
    /\ c \in pending => launch[c] \in {"adopted", "started"} /\ settle[c] = "none"
    /\ settle[c] # "none" => launch[c] = "started"
    /\ c \in corrupt =>
           /\ launch[c] = "started" /\ faults > 0 /\ run[c] = 0 /\ submit[c] \in {"absent", "idle"}
           /\ \A o \in Ops : exec[c][o] \in {"none", "done"}
           /\ \A j \in Job : Owner[j] = c => ending[j] \notin Delivering

(* The run slot names the one execution before its drain, and an admission
   in progress is alone. *)
RunInv(c) ==
    /\ \A o \in Ops :
           /\ exec[c][o] \in Holding => run[c] = o
           /\ run[c] = o => exec[c][o] \in Holding \cup {"release", "retire"}
           /\ exec[c][o] = "install" => current[c] # 0 /\ exec[c][current[c]] = "none"
    /\ submit[c] \in Admitting => run[c] = 0
    /\ submit[c] = "admit" => current[c] = 0
    /\ submit[c] = "install" => current[c] # 0 /\ exec[c][current[c]] = "none"

(* Who holds a child's admission reservation. *)
HoldInv(c) ==
    /\ \A o \in Ops : exec[c][o] \in {"drain", "install", "release"} => reserved[c] = o
    /\ submit[c] \in Admitting \cup {"route", "release"} => reserved[c] \in Int /\ reserved[c] < 0
(* So does a delivery into the child, and admits like a Submit. *)
IntoInv(c) == \A j \in Job : Owner[j] = c =>
    /\ ending[j] \in Delivering \ {"idle"} => reserved[c] = j
    /\ ending[j] \in Admitting => run[c] = 0
    /\ ending[j] = "admit" => current[c] = 0
    /\ ending[j] = "install" => current[c] # 0 /\ exec[c][current[c]] = "none"

(* On a live Harness a settlement drains, and a drain that leaves the run
   slot as it is leaves the Operation current. *)
DrainInv(c) == ctx = "live" => \A o \in Ops :
    /\ exec[c][o] = "settling" => reserved[c] = o
    /\ exec[c][o] \in {"release", "retire"} => run[c] # o \/ current[c] # 0

(* A child's jobs start in tool calls of an Engine that waits for them. *)
JobInv(j) ==
    /\ member[j] # "none" => job[j] \notin {"absent", "none", "reserved"}
    /\ Owner[j] \in Child =>
           /\ job[j] \notin {"absent", "none"} => launch[Owner[j]] \notin Unstarted
           /\ job[j] \in Unspawned => \E o \in Ops : exec[Owner[j]][o] = "running"

(* Only a storage failure can cost the completion its one attempt. *)
TellInv(c) == faults = 0 =>
    /\ settle[c] # "abandon"
    /\ \A o \in Ops : exec[c][o] \in Settled => current[c] # o
    /\ launch[c] = "started" /\ ending[c] \in {"finish", "check", "ended"} => delivered[c] = 1 \/ c \in refused

(* Nothing of the child is left: childCompletionSettled's condition. *)
AtRest(c) ==
    current[c] = 0 /\ run[c] = 0 /\ \A j \in Job : Owner[j] = c => member[j] \notin Present
(* Without another's input, a completion is reported at rest, and what the
   child buffers itself, the completions of its jobs, has a drain ahead. *)
ReportInv(c) == submits = 0 =>
    submit[c] \in {"absent", "idle"} /\ (Reporting(c) => AtRest(c) /\ launch[c] = "started")
BufferInv(c) == submits = 0 =>
    /\ launch[c] \in Unstarted => buffer[c] = 0
    /\ ctx = "live" /\ current[c] = 0 /\ run[c] = 0 => buffer[c] = 0

(* A pending completion at rest has a settlement ahead of it. *)
OwedInv(c) == c \in pending /\ AtRest(c) =>
    \/ launch[c] = "adopted"
    \/ \E o \in Ops : exec[c][o] \in {"retire", "release", "drain", "tail"}
    \/ \E j \in Job : Owner[j] = c /\ ending[j] = "check"

(* A root's stop covers every member there is. *)
RootInv ==
    /\ bg[Root] # "closed"
    /\ stop[Root].at # "none" =>
           bg[Root] = "stopping" /\ \A m \in Member : Parent(m) = Root /\ member[m] \in Present => m \in stop[Root].joins

(* The launch's own execution, started when a stop had found no run: it
   runs nothing, and the stop waits for the child's own membership. *)
Fresh(c) ==
    /\ run[c] = 1 /\ launch[c] = "started" /\ member[c] = "live" /\ settle[c] = "none"
    /\ stop[c].at = "lineage" \/ c \in stop[c].joins
    /\ exec[c][1] \notin {"running", "install"} /\ \A o \in Ops \ {1} : exec[c][o] = "none"
    /\ \A j \in Job : Owner[j] = c => job[j] \in {"absent", "none"}
Awaited(c) == stop[c].at \in {"lineage", "hold"} /\ stop[c].hold # 0

(* A child's stop closes its group for good and empties its buffers. *)
ClosedInv(c) ==
    /\ bg[c] \in {"open", "closed"}
    /\ stop[c].at # "none" => bg[c] = "closed"
    /\ bg[c] = "closed" => buffer[c] = 0 /\ (stop[c].at # "none" \/ c \in quieted)
(* What a child's stop has captured: every job, and every run there is or
   an admission under the captured reservation may still install. *)
CapturedInv(c) ==
    stop[c].at # "none" => \A j \in Job : Owner[j] = c /\ member[j] \in Present => j \in stop[c].joins
SeenInv(c) ==
    stop[c].at # "none" => run[c] = 0 \/ run[c] \in stop[c].runs \/ Awaited(c) \/ Fresh(c)
WindowInv(c) ==
    stop[c].at # "none" =>
        /\ launch[c] \in Starting => stop[c].at = "lineage" \/ c \in stop[c].joins
        /\ submit[c] \in Admitting \/ (\E o \in Ops : exec[c][o] = "install") => stop[c].at \in {"lineage", "hold"} /\ reserved[c] = stop[c].hold

LateInv(c) ==
    stop[c].at # "none" => \A j \in Job : Owner[j] = c /\ ending[j] \in Admitting =>
        stop[c].at \in {"lineage", "hold"} /\ reserved[c] = stop[c].hold

(* A stop that has returned left nothing that runs or may start. *)
RestInv(c) == c \in quieted =>
    /\ bg[c] = "closed" /\ run[c] = 0 /\ \A j \in Job : Owner[j] = c => member[j] \notin Present
    /\ launch[c] \notin Starting /\ submit[c] \notin Admitting

GroupInv ==
    /\ TypeInv /\ RootInv
    /\ \A m \in Member : LifeInv(m)
    /\ \A j \in Job : JobInv(j)
    /\ \A c \in Child : /\ LaunchInv(c) /\ RunInv(c) /\ HoldInv(c) /\ IntoInv(c) /\ DrainInv(c) /\ TellInv(c)
                        /\ ReportInv(c) /\ BufferInv(c) /\ OwedInv(c) /\ ClosedInv(c) /\ CapturedInv(c)
                        /\ SeenInv(c) /\ WindowInv(c) /\ LateInv(c) /\ RestInv(c)
-----------------------------------------------------------------------------
(* Children, jobs, Sessions and Operation numbers. *)
LEMMA Names ==
    /\ Root \notin Child /\ Root \notin Job /\ Child \cap Job = {}
    /\ Root \in Session /\ \A s \in Session : s = Root \/ s \in Child
    /\ \A c \in Child : c \in Session /\ c \in Member /\ c # Root
    /\ \A j \in Job : j \in Member /\ Owner[j] \in Session /\ j \notin Child /\ j \notin Int
    /\ \A m \in Member : m \in Child \/ m \in Job
    /\ 1 \in Ops /\ \A o \in Ops : o \in Nat /\ o # 0
  BY BackgroundAssumption DEF Session, Member

(* The index sets of the state's functions, without quantifiers. *)
LEMMA Within == Child \subseteq Member /\ Job \subseteq Member /\ Child \subseteq Session /\ Root \in Session /\ 1 \in Ops
  BY BackgroundAssumption DEF Session, Member

(* claimBackgroundMember moves a live member and what ends it together. *)
LEMMA ClaimTypes ==
    ASSUME TypeInv, NEW m \in Member, NEW next \in {"deliver", "finish"}, Claim(m, next)
    PROVE  /\ member' \in [Member -> {"none", "live", "claimed", "done"}]
           /\ ending' \in [Member -> Endings]
           /\ \A x \in Member : member'[x] = "claimed" <=> ending'[x] \in {"deliver", "finish"} \cup Delivering
<1>1. /\ member \in [Member -> {"none", "live", "claimed", "done"}] /\ ending \in [Member -> Endings]
      /\ \A x \in Member : member[x] = "claimed" <=> ending[x] \in {"deliver", "finish"} \cup Delivering
  BY DEF TypeInv, TypeOK
<1>2. {"deliver", "finish"} \subseteq Endings BY DEF Endings
<1>3. QED BY <1>1, <1>2 DEF Claim

(* The winner of a claim moves its member once; every other member is left
   alone. *)
LEMMA ClaimIs ==
    ASSUME TypeInv, NEW m \in Member, NEW next, Claim(m, next)
    PROVE  /\ \A x \in Member : x # m => member'[x] = member[x] /\ ending'[x] = ending[x]
           /\ member[m] = "live" => member'[m] = "claimed" /\ ending'[m] = next
           /\ member[m] # "live" => member'[m] = member[m] /\ ending'[m] = ending[m]
  BY DEF TypeInv, TypeOK, Claim

(* A claim begins no step of a delivery but the first. *)
LEMMA ClaimDelivers ==
    ASSUME TypeInv, NEW m \in Member, NEW next \in {"deliver", "finish"}, Claim(m, next)
    PROVE  \A x \in Member : ending'[x] \in Delivering => ending'[x] = ending[x]
<1>1. ending \in [Member -> Endings] BY DEF TypeInv
<1>2. next \notin Delivering BY DEF Delivering
<1>3. QED BY <1>1, <1>2 DEF Claim

(* and keeps the life of every member. *)
LEMMA ClaimLives ==
    ASSUME GroupInv, NEW m \in Member, NEW next \in {"deliver", "finish"}, Claim(m, next),
           UNCHANGED <<delivered, refused>>, NEW i \in Member
    PROVE  LifeInv(i)'
<1>1. LifeInv(i) /\ LifeInv(m) BY DEF GroupInv
<1>2. TypeInv BY DEF GroupInv
<1>3. CASE i # m BY <1>1, <1>2, <1>3, ClaimIs DEF LifeInv
<1>4. CASE i = m /\ member[m] # "live" BY <1>1, <1>2, <1>4, ClaimIs DEF LifeInv
<1>5. CASE i = m /\ member[m] = "live"
  <2>1. member'[m] = "claimed" /\ ending'[m] = next /\ ending[m] = "none" BY <1>1, <1>2, <1>5, ClaimIs DEF LifeInv
  <2>2. next \notin Delivering BY DEF Delivering
  <2>3. delivered[m] = 0 /\ m \notin refused BY <1>1, <2>1 DEF LifeInv, Untold
  <2>4. QED BY <1>5, <2>1, <2>2, <2>3 DEF LifeInv
<1>6. QED BY <1>3, <1>4, <1>5

(* childCompletionSettled's decision. *)
LEMMA DecideTypes ==
    ASSUME TypeInv, NEW c \in Child, NEW op, Decide(c, op)
    PROVE  /\ pending' \subseteq Child /\ faults' \in Nat
           /\ settle' \in [Child -> {"none", "deliver", "abandon", "claimed"}]
<1>1. pending \subseteq Child /\ faults \in Nat /\ settle \in [Child -> {"none", "deliver", "abandon", "claimed"}]
  BY DEF TypeInv, TypeOK
<1>2. QED BY <1>1 DEF Decide, Fault

(* What a stop captures is a stop's record. *)
LEMMA StopTypes ==
    ASSUME TypeInv, NEW c \in Child
    PROVE  {RootStop, Lineage(c), JoinChild(c), NoStop}\subseteq Record
<1>. USE Names
<1>1. Group(Root) \subseteq Member /\ Group(c) \subseteq Member BY DEF Group
<1>2. {run[c]} \ {0} \subseteq Ops /\ reserved[c] \in Int \cup Job BY DEF TypeInv, TypeOK
<1>3. stop[Root].todo \subseteq Member /\ stop[Root].joins \subseteq Member BY DEF TypeInv, Record
<1>4. QED BY <1>1, <1>2, <1>3 DEF RootStop, Lineage, JoinChild, NoStop, Record, StopPlaces

(* A goroutine moves alone. *)
LEMMA GotoIs ==
    ASSUME TypeInv, NEW c \in Child, NEW o \in Ops, NEW l \in Places, Goto(c, o, l)
    PROVE  /\ exec' \in [Child -> [Ops -> Places]] /\ exec'[c][o] = l
           /\ \A d \in Child, p \in Ops : d # c \/ p # o => exec'[d][p] = exec[d][p]
  BY DEF TypeInv, Goto

(* One task of a stop ends, or the awaited child's stop. *)
LEMMA TaskEnds ==
    ASSUME TypeInv, NEW s \in Session, NEW m
    PROVE  /\ [stop EXCEPT ![s].todo = @ \ {m}] \in [Session -> Record]
           /\ [stop EXCEPT ![s].at = "members"] \in [Session -> Record]
<1>1. stop \in [Session -> Record] BY DEF TypeInv
<1>2. [stop EXCEPT ![s].todo = @ \ {m}] \in [Session -> Record] BY <1>1 DEF Record
<1>3. [stop EXCEPT ![s].at = "members"] \in [Session -> Record] BY <1>1 DEF Record, StopPlaces
<1>4. QED BY <1>2, <1>3

(* An execution before its drain has the run slot to itself. *)
LEMMA OwnSlot ==
    ASSUME GroupInv, NEW c \in Child, NEW o \in Ops, exec[c][o] \in Holding
    PROVE  /\ run[c] = o /\ o # 0 /\ submit[c] \notin Admitting
           /\ \A p \in Ops : p # o => exec[c][p] \notin Holding /\ run[c] # p
  BY Names DEF GroupInv, RunInv

(* A claim keeps its member present. *)
LEMMA ClaimStays ==
    ASSUME TypeInv, NEW m \in Member, NEW next, Claim(m, next)
    PROVE  \A x \in Member : (member'[x] \in Present <=> member[x] \in Present) /\ (x # m => member'[x] = member[x])
  BY DEF TypeInv, TypeOK, Claim, Present

(* The members of a child's group are the jobs it started. *)
LEMMA GroupIs ==
    /\ \A c \in Child : Group(c) = {j \in Job : Owner[j] = c /\ member[j] \in Present}
    /\ Group(Root) = {m \in Member : Parent(m) = Root /\ member[m] \in Present}
    /\ \A c \in Child : Parent(c) = Root
    /\ \A j \in Job : Parent(j) = Owner[j]
<1>1. \A c \in Child : Parent(c) = Root BY DEF Parent
<1>2. \A j \in Job : Parent(j) = Owner[j] BY Names DEF Parent
<1>3. ASSUME NEW c \in Child PROVE Group(c) = {j \in Job : Owner[j] = c /\ member[j] \in Present}
  BY <1>1, <1>2, Names DEF Group, Present
<1>4. Group(Root) = {m \in Member : Parent(m) = Root /\ member[m] \in Present} BY DEF Group, Present
<1>5. QED BY <1>1, <1>2, <1>3, <1>4

(* childCompletionSettled's condition over the group is the one over the
   jobs. *)
LEMMA QuietIs == \A c \in Child : Quiet(c) <=> AtRest(c)
  BY GroupIs DEF Quiet, AtRest

(* A child's stop begins, by Stop on the child or by its root's stop. *)
Opened(c) == stop[c].at = "none" /\ stop'[c] = Lineage(c) /\ bg'[c] = "closed" /\ buffer'[c] = 0

(* What each step of a stop makes of a child's stop interval.  Stop: *)
LEMMA StopMoves ==
    ASSUME TypeInv, NEW s \in Session, Stop(s), NEW i \in Child
    PROVE  UNCHANGED <<stop[i], bg[i], buffer[i]>> \/ Opened(i)
<1>1. CASE s = i BY <1>1, Names DEF TypeInv, TypeOK, Stop, Begin, Opened
<1>2. CASE s # i BY <1>2, Names DEF TypeInv, TypeOK, Stop, Begin
<1>3. QED BY <1>1, <1>2

(* a root's stop reaching a child: *)
LEMMA StopChildMoves ==
    ASSUME TypeInv, NEW c \in Child, StopChild(c), NEW i \in Child
    PROVE  UNCHANGED <<stop[i], bg[i], buffer[i]>> \/ Opened(i)
<1>1. CASE c = i BY <1>1, Names DEF TypeInv, TypeOK, StopChild, Opened
<1>2. CASE c # i BY <1>2, Names DEF TypeInv, TypeOK, StopChild
<1>3. QED BY <1>1, <1>2

(* A task of a stop that ends moves nothing else of the stop. *)
LEMMA StopJobMoves ==
    ASSUME TypeInv, NEW s \in Session, NEW j \in Job, StopJob(s, j), NEW i \in Session
    PROVE  /\ stop'[i].at = stop[i].at /\ stop'[i].joins = stop[i].joins /\ stop'[i].runs = stop[i].runs
           /\ stop'[i].hold = stop[i].hold
<1>1. stop \in [Session -> Record] BY DEF TypeInv
<1>2. CASE s = i BY <1>1, <1>2 DEF StopJob, Record
<1>3. CASE s # i BY <1>1, <1>3 DEF StopJob
<1>4. QED BY <1>2, <1>3

(* the end of an interval: *)
LEMMA StopEndsMoves ==
    ASSUME TypeInv, NEW s \in Session, StopEnds(s), NEW i \in Session
    PROVE  /\ s # i => UNCHANGED <<stop[i], bg[i]>>
           /\ s = i => stop[i].at = "members" /\ stop'[i] = NoStop /\ bg'[i] = (IF bg[i] = "stopping" THEN "open" ELSE bg[i])
  BY DEF TypeInv, TypeOK, StopEnds

(* the second hold, which captures the parent membership: *)
LEMMA LineageMoves ==
    ASSUME TypeInv, NEW c \in Child, StopLineage(c), NEW i \in Child
    PROVE  /\ c # i => stop'[i] = stop[i]
           /\ c = i => /\ stop[i].at = "lineage" /\ stop'[i].at = "hold" /\ stop'[i].hold = stop[i].hold
                       /\ stop'[i].runs = stop[i].runs /\ stop'[i].joins = stop[i].joins \cup Membership(i)
  BY Within DEF TypeInv, StopLineage

(* and the end of the wait for the captured reservation. *)
LEMMA HoldMoves ==
    ASSUME TypeInv, NEW c \in Child, StopHold(c), NEW i \in Child
    PROVE  /\ c # i => stop'[i] = stop[i]
           /\ c = i => /\ stop[i].at = "hold" /\ stop'[i].at = "members" /\ stop'[i].hold = stop[i].hold
                       /\ stop'[i].joins = stop[i].joins /\ HoldReleased(i)
                       /\ stop'[i].runs = stop[i].runs \cup (IF stop[i].hold # 0 THEN {run[i]} \ {0} ELSE {})
  BY Within DEF TypeInv, StopHold

(* A step of a delivery into a child is of a claimed job of the child, and
   touches no other child. *)
Apart(d) == UNCHANGED <<current[d], run[d], exec[d], buffer[d], reserved[d]>>
LEMMA Deliveries ==
    ASSUME GroupInv, NEW m \in Member, NEW c \in Child, DeliversInto(m, c)
    PROVE  /\ m \in Job /\ Owner[m] = c /\ member[m] = "claimed" /\ launch[c] \notin Unstarted
           /\ UNCHANGED <<bg, member, pending, corrupt, launch, job, canceled, submit, settle, stop>>
           /\ UNCHANGED <<ctx, cast, submits, stops, quieted>>
           /\ ending[m] \in Delivering \cup {"deliver"} /\ ending'[m] \in Delivering \cup {"finish"}
           /\ \A x \in Member : x # m => ending'[x] = ending[x]
           /\ \A d \in Child : d # c => Apart(d)
<1>. USE DEF Delivering
<1>1. Parent(m) = c /\ ending[m] \in Delivering \cup {"deliver"}
  BY DEF DeliversInto, DeliverRoutes, DeliverReserves, DeliverReroutes, DeliverAdmits, DeliverInstalls, DeliverReleases
<1>2. m \in Job /\ Owner[m] = c BY <1>1, Names DEF Parent
<1>3. member[m] = "claimed" BY <1>1 DEF GroupInv, TypeInv, TypeOK
<1>4. launch[c] \notin Unstarted BY <1>2, <1>3 DEF GroupInv, JobInv
<1>5. /\ UNCHANGED <<bg, member, pending, corrupt, launch, job, canceled, submit, settle, stop>>
      /\ UNCHANGED <<ctx, cast, submits, stops, quieted>>
  BY DEF DeliversInto, DeliverRoutes, DeliverReserves, DeliverReroutes, DeliverAdmits, DeliverInstalls, DeliverReleases,
         procs, env
<1>6. \E l \in Delivering \cup {"finish"} : Then(m, l)
  BY DEF DeliversInto, DeliverRoutes, DeliverReserves, DeliverReroutes, DeliverAdmits, DeliverInstalls, DeliverReleases,
         Routes, RoutesIdle
<1>7. ending'[m] \in Delivering \cup {"finish"} /\ \A x \in Member : x # m => ending'[x] = ending[x]
  BY <1>6 DEF Then, GroupInv, TypeInv
<1>8. \A d \in Child : d # c => Apart(d)
  <2>. USE DEF Apart, GroupInv, TypeInv, TypeOK
  <2>1. CASE DeliverRoutes(m, c) BY <2>1 DEF DeliverRoutes, Routes, RoutesIdle, procs
  <2>2. CASE DeliverReserves(m, c) BY <2>2 DEF DeliverReserves, procs
  <2>3. CASE DeliverReroutes(m, c) BY <2>3 DEF DeliverReroutes, Routes, RoutesIdle, procs
  <2>4. CASE DeliverAdmits(m, c) BY <2>4 DEF DeliverAdmits, procs
  <2>5. CASE DeliverInstalls(m, c) BY <2>5 DEF DeliverInstalls, Goto
  <2>6. CASE DeliverReleases(m, c) BY <2>6 DEF DeliverReleases, procs
  <2>7. QED BY <2>1, <2>2, <2>3, <2>4, <2>5, <2>6 DEF DeliversInto
<1>9. QED BY <1>1, <1>2, <1>3, <1>4, <1>5, <1>7, <1>8

(* A delivery answers once. *)
LEMMA Answers ==
    ASSUME TypeInv, NEW m \in Member, NEW c \in Child, DeliversInto(m, c)
    PROVE  \/ (Told(m) \/ Fails(m)) /\ ending[m] \in Untold /\ ending'[m] \notin Untold
           \/ NoAnswer /\ (ending'[m] \in Untold => ending[m] \in Untold)
<1>. USE DEF Untold, Then
<1>0. ending \in [Member -> Endings] BY DEF TypeInv
<1>1. CASE DeliverRoutes(m, c) BY <1>0, <1>1 DEF DeliverRoutes, Routes, RoutesIdle, Fails
<1>2. CASE DeliverReserves(m, c) BY <1>0, <1>2 DEF DeliverReserves
<1>3. CASE DeliverReroutes(m, c) BY <1>0, <1>3 DEF DeliverReroutes, Routes, RoutesIdle
<1>4. CASE DeliverAdmits(m, c) BY <1>0, <1>4 DEF DeliverAdmits
<1>5. CASE DeliverInstalls(m, c) BY <1>0, <1>5 DEF DeliverInstalls, NoAnswer, env
<1>6. CASE DeliverReleases(m, c) BY <1>0, <1>6 DEF DeliverReleases, NoAnswer, env
<1>7. QED BY <1>1, <1>2, <1>3, <1>4, <1>5, <1>6 DEF DeliversInto

(* What each step of a delivery does to the run slot of its child, *)
LEMMA DeliveryRuns ==
    ASSUME GroupInv, NEW m \in Member, NEW c \in Child, DeliversInto(m, c)
    PROVE  \/ UNCHANGED <<run, exec>> /\ ending'[m] # "install" /\ current' = current
           \/ /\ ending[m] = "admit" /\ ending'[m] = "install" /\ UNCHANGED <<run, exec, reserved, buffer>>
              /\ current'[c] \in Ops /\ current'[c] # 0 /\ exec[c][current'[c]] = "none"
           \/ /\ ending[m] = "install" /\ ending'[m] = "release" /\ UNCHANGED <<current, reserved, buffer>>
              /\ run'[c] = current[c] /\ exec'[c][current[c]] = "entry"
              /\ \A o \in Ops : o # current[c] => exec'[c][o] = exec[c][o]
<1>0. /\ ending \in [Member -> Endings] /\ run \in [Child -> Ops \cup {0}]
      /\ current \in [Child -> Ops \cup {0}] /\ exec \in [Child -> [Ops -> Places]]
      /\ reserved \in [Child -> Int \cup Job] /\ buffer \in [Child -> Nat]
  BY DEF GroupInv, TypeInv, TypeOK
<1>. USE DEF Delivering, Then, procs
<1>1. CASE DeliverRoutes(m, c) BY <1>0, <1>1 DEF DeliverRoutes, Routes, RoutesIdle
<1>2. CASE DeliverReserves(m, c) BY <1>0, <1>2 DEF DeliverReserves
<1>3. CASE DeliverReroutes(m, c) BY <1>0, <1>3 DEF DeliverReroutes, Routes, RoutesIdle
<1>4. CASE DeliverAdmits(m, c)
  <2>1. \A n \in NextOp(c) : n \in Ops /\ n # 0 /\ exec[c][n] = "none" BY Names DEF NextOp, Free
  <2>2. QED BY <1>0, <1>4, <2>1 DEF DeliverAdmits
<1>5. CASE DeliverInstalls(m, c)
  <2>1. current[c] \in Ops
    <3>1. Parent(m) = c /\ ending[m] = "install" BY <1>5 DEF DeliverInstalls
    <3>2. m \in Job /\ Owner[m] = c BY <3>1, Names DEF Parent
    <3>3. current[c] # 0 BY <3>1, <3>2 DEF GroupInv, IntoInv
    <3>4. QED BY <1>0, <3>3
  <2>2. QED BY <1>0, <1>5, <2>1 DEF DeliverInstalls, Goto
<1>6. CASE DeliverReleases(m, c) BY <1>0, <1>6 DEF DeliverReleases
<1>7. QED BY <1>1, <1>2, <1>3, <1>4, <1>5, <1>6 DEF DeliversInto

(* to its reservation, *)
LEMMA DeliveryHolds ==
    ASSUME GroupInv, NEW m \in Member, NEW c \in Child, DeliversInto(m, c)
    PROVE  \/ /\ UNCHANGED reserved /\ ending[m] \in Delivering \ {"idle"} /\ ending'[m] \in Delivering \ {"idle"}
           \/ /\ UNCHANGED reserved /\ ending'[m] \in {"idle", "finish"} /\ ending[m] \in {"deliver", "idle"}
           \/ ending[m] = "idle" /\ ending'[m] = "reroute" /\ reserved[c] = 0 /\ reserved'[c] = m
           \/ ending[m] = "release" /\ ending'[m] = "finish" /\ reserved'[c] = 0
<1>0. /\ ending \in [Member -> Endings] /\ run \in [Child -> Ops \cup {0}]
      /\ current \in [Child -> Ops \cup {0}] /\ exec \in [Child -> [Ops -> Places]]
      /\ reserved \in [Child -> Int \cup Job] /\ buffer \in [Child -> Nat]
  BY DEF GroupInv, TypeInv, TypeOK
<1>. USE DEF Delivering, Then, procs
<1>1. CASE DeliverRoutes(m, c) BY <1>0, <1>1 DEF DeliverRoutes, Routes, RoutesIdle
<1>2. CASE DeliverReserves(m, c) BY <1>0, <1>2 DEF DeliverReserves
<1>3. CASE DeliverReroutes(m, c) BY <1>0, <1>3 DEF DeliverReroutes, Routes, RoutesIdle
<1>4. CASE DeliverAdmits(m, c) BY <1>0, <1>4 DEF DeliverAdmits
<1>5. CASE DeliverInstalls(m, c) BY <1>0, <1>5 DEF DeliverInstalls, Goto
<1>6. CASE DeliverReleases(m, c) BY <1>0, <1>6 DEF DeliverReleases
<1>7. QED BY <1>1, <1>2, <1>3, <1>4, <1>5, <1>6 DEF DeliversInto

(* and to its buffer; and where it routes. *)
LEMMA DeliveryMoves ==
    ASSUME GroupInv, NEW m \in Member, NEW c \in Child, DeliversInto(m, c)
    PROVE  /\ buffer'[c] = buffer[c] \/ (Receives(c) /\ Active(c) /\ UNCHANGED <<current, run>>)
           /\ ending'[m] = "admit" => ending[m] = "reroute" /\ Receives(c) /\ ~Active(c)
                                      /\ UNCHANGED <<current, run, exec, reserved>>
           /\ ending'[m] = "install" => ending[m] = "admit"
           /\ ending[m] \in {"deliver", "idle"} => UNCHANGED <<run, exec, current>>
<1>0. /\ ending \in [Member -> Endings] /\ run \in [Child -> Ops \cup {0}]
      /\ current \in [Child -> Ops \cup {0}] /\ exec \in [Child -> [Ops -> Places]]
      /\ reserved \in [Child -> Int \cup Job] /\ buffer \in [Child -> Nat]
  BY DEF GroupInv, TypeInv, TypeOK
<1>. USE DEF Delivering, Then, procs
<1>1. CASE DeliverRoutes(m, c) BY <1>0, <1>1 DEF DeliverRoutes, Routes, RoutesIdle
<1>2. CASE DeliverReserves(m, c) BY <1>0, <1>2 DEF DeliverReserves
<1>3. CASE DeliverReroutes(m, c) BY <1>0, <1>3 DEF DeliverReroutes, Routes, RoutesIdle
<1>4. CASE DeliverAdmits(m, c) BY <1>0, <1>4 DEF DeliverAdmits
<1>5. CASE DeliverInstalls(m, c) BY <1>0, <1>5 DEF DeliverInstalls, Goto
<1>6. CASE DeliverReleases(m, c) BY <1>0, <1>6 DEF DeliverReleases
<1>7. QED BY <1>1, <1>2, <1>3, <1>4, <1>5, <1>6 DEF DeliversInto

(* Every step keeps the types; a claim and what ends the claimed member move
   together. *)
LEMMA TypesStep == GroupInv /\ [Next]_vars => TypeInv'
<1>. SUFFICES ASSUME GroupInv, TypeInv, [Next]_vars PROVE TypeInv' BY DEF GroupInv
<1>0. buffer \in [Child -> Nat] /\ exec \in [Child -> [Ops -> Places]] /\ ending \in [Member -> Endings]
  BY DEF TypeInv
<1>. USE DEF TypeInv, TypeOK, cells, procs, env
<1>1. ASSUME NEW c \in Child, AdmitChild(c) PROVE TypeInv'
  BY <1>1 DEF AdmitChild, Admits, Launches, Unstarted, Starting
<1>2. ASSUME NEW c \in Child, CommitChild(c) PROVE TypeInv'
  <2>1. /\ member' \in [Member -> {"none", "live", "claimed", "done"}]
        /\ ending' \in [Member -> Endings]
        /\ \A x \in Member : member'[x] = "claimed" <=> ending'[x] \in {"deliver", "finish"} \cup Delivering
    BY <1>2, ClaimTypes, Within DEF CommitChild
  <2>2. current' \in [Child -> Ops \cup {0}] BY <1>2, Within DEF CommitChild
  <2>3. faults' \in Nat BY <1>2 DEF CommitChild, Fault
  <2>4. launch' \in [Child -> Launches] BY <1>2 DEF CommitChild, Launches, Unstarted, Starting
  <2>5. QED BY <1>2, <2>1, <2>2, <2>3, <2>4 DEF CommitChild
<1>3. ASSUME NEW c \in Child, HandChild(c) PROVE TypeInv'
  BY <1>3 DEF HandChild, HandoffHolds, Launches, Unstarted, Starting
<1>4. ASSUME NEW c \in Child, AdoptChild(c) PROVE TypeInv'
  <2>1. /\ member' \in [Member -> {"none", "live", "claimed", "done"}]
        /\ ending' \in [Member -> Endings]
        /\ \A x \in Member : member'[x] = "claimed" <=> ending'[x] \in {"deliver", "finish"} \cup Delivering
    BY <1>4, ClaimTypes, Within DEF AdoptChild
  <2>2. pending' \subseteq Child /\ faults' \in Nat BY <1>4 DEF AdoptChild, Fault
  <2>3. launch' \in [Child -> Launches] BY <1>4 DEF AdoptChild, Launches, Unstarted, Starting
  <2>4. QED BY <1>4, <2>1, <2>2, <2>3 DEF AdoptChild
<1>5. ASSUME NEW c \in Child, StartChild(c) PROVE TypeInv'
  <2>1. exec' \in [Child -> [Ops -> Places]] BY <1>5, Names, GotoIs DEF StartChild, Places
  <2>2. run' \in [Child -> Ops \cup {0}] BY <1>5, Names DEF StartChild
  <2>3. launch' \in [Child -> Launches] BY <1>5 DEF StartChild, Launches
  <2>4. QED BY <1>5, <2>1, <2>2, <2>3 DEF StartChild
<1>6. ASSUME NEW c \in Child, SettleRejected(c) PROVE TypeInv'
  <2>1. current' \in [Child -> Ops \cup {0}] /\ faults' \in Nat BY <1>6 DEF SettleRejected, Fault
  <2>2. launch' \in [Child -> Launches] BY <1>6 DEF SettleRejected, Launches, Unstarted, Starting
  <2>3. QED BY <1>6, <2>1, <2>2 DEF SettleRejected
<1>7. ASSUME NEW c \in Child, FinishRejected(c) PROVE TypeInv'
  <2>1. /\ member' \in [Member -> {"none", "live", "claimed", "done"}]
        /\ ending' \in [Member -> Endings]
        /\ \A x \in Member : member'[x] = "claimed" <=> ending'[x] \in {"deliver", "finish"} \cup Delivering
    BY <1>7, ClaimTypes, Within DEF FinishRejected
  <2>2. launch' \in [Child -> Launches] BY <1>7 DEF FinishRejected, Launches, Unstarted, Starting
  <2>3. QED BY <1>7, <2>1, <2>2 DEF FinishRejected
<1>8. ASSUME NEW c \in Child, SettleClaims(c) PROVE TypeInv'
  <2>1. /\ member' \in [Member -> {"none", "live", "claimed", "done"}]
        /\ ending' \in [Member -> Endings]
        /\ \A x \in Member : member'[x] = "claimed" <=> ending'[x] \in {"deliver", "finish"} \cup Delivering
    BY <1>8, ClaimTypes, Within DEF SettleClaims
  <2>2. settle' \in [Child -> {"none", "deliver", "abandon", "claimed"}] BY <1>8 DEF SettleClaims
  <2>3. QED BY <1>8, <2>1, <2>2 DEF SettleClaims
<1>9. ASSUME NEW c \in Child, SubmitReserves(c) PROVE TypeInv'
  BY <1>9 DEF SubmitReserves, Submitted, Admitting
<1>10. ASSUME NEW c \in Child, SubmitRoutes(c) PROVE TypeInv'
  <2>1. submit' \in [Child -> Submitted] BY <1>10 DEF SubmitRoutes, Submitted, Admitting
  <2>2. buffer' \in [Child -> Nat] BY <1>10 DEF SubmitRoutes
  <2>3. QED BY <1>10, <2>1, <2>2 DEF SubmitRoutes
<1>11. ASSUME NEW c \in Child, SubmitAdmits(c) PROVE TypeInv'
  <2>1. NextOp(c) \subseteq Ops BY DEF NextOp
  <2>2. current' \in [Child -> Ops \cup {0}] BY <1>11, <2>1 DEF SubmitAdmits
  <2>3. submit' \in [Child -> Submitted] BY <1>11 DEF SubmitAdmits, Submitted, Admitting
  <2>4. QED BY <1>11, <2>2, <2>3 DEF SubmitAdmits
<1>12. ASSUME NEW c \in Child, SubmitInstalls(c) PROVE TypeInv'
  BY <1>12 DEF SubmitInstalls, Goto, Submitted, Admitting, Places
<1>13. ASSUME NEW c \in Child, SubmitReleases(c) PROVE TypeInv'
  BY <1>13 DEF SubmitReleases, Submitted, Admitting
<1>14. ASSUME NEW j \in Job, ReserveJob(j) PROVE TypeInv'
  BY <1>14 DEF ReserveJob, Executing, JobPlaces, Unspawned
<1>15. ASSUME NEW j \in Job, AdmitJob(j) PROVE TypeInv'
  <2>1. /\ member' \in [Member -> {"none", "live", "claimed", "done"}]
        /\ ending' \in [Member -> Endings]
        /\ \A x \in Member : member'[x] = "claimed" <=> ending'[x] \in {"deliver", "finish"} \cup Delivering
    <3>1. (ending[j] = "none" /\ member' = [member EXCEPT ![j] = "live"]) \/ member' = member
      BY <1>15, Within DEF AdmitJob, Admits, GroupInv, LifeInv
    <3>2. ending' = ending BY <1>15 DEF AdmitJob
    <3>3. QED BY <3>1, <3>2, Within DEF Delivering
  <2>2. job' \in [Job -> JobPlaces] BY <1>15 DEF AdmitJob, JobPlaces, Unspawned
  <2>3. QED BY <1>15, <2>1, <2>2 DEF AdmitJob
<1>16. ASSUME NEW j \in Job, HandJob(j) PROVE TypeInv'
  <2>1. /\ member' \in [Member -> {"none", "live", "claimed", "done"}]
        /\ ending' \in [Member -> Endings]
        /\ \A x \in Member : member'[x] = "claimed" <=> ending'[x] \in {"deliver", "finish"} \cup Delivering
    BY <1>16, ClaimTypes, Within DEF HandJob
  <2>2. job' \in [Job -> JobPlaces] BY <1>16 DEF HandJob, JobPlaces, Unspawned
  <2>3. QED BY <1>16, <2>1, <2>2 DEF HandJob
<1>17. ASSUME NEW j \in Job, Spawn(j) PROVE TypeInv'
  <2>1. /\ member' \in [Member -> {"none", "live", "claimed", "done"}]
        /\ ending' \in [Member -> Endings]
        /\ \A x \in Member : member'[x] = "claimed" <=> ending'[x] \in {"deliver", "finish"} \cup Delivering
    BY <1>17, ClaimTypes, Within DEF Spawn
  <2>2. job' \in [Job -> JobPlaces] BY <1>17 DEF Spawn, JobPlaces, Unspawned
  <2>3. QED BY <1>17, <2>1, <2>2 DEF Spawn
<1>18. ASSUME NEW j \in Job, JobReports(j) PROVE TypeInv'
  <2>1. /\ member' \in [Member -> {"none", "live", "claimed", "done"}]
        /\ ending' \in [Member -> Endings]
        /\ \A x \in Member : member'[x] = "claimed" <=> ending'[x] \in {"deliver", "finish"} \cup Delivering
    BY <1>18, ClaimTypes, Within DEF JobReports
  <2>2. job' \in [Job -> JobPlaces] BY <1>18 DEF JobReports, JobPlaces, Unspawned
  <2>3. QED BY <1>18, <2>1, <2>2 DEF JobReports
<1>19. ASSUME NEW j \in Job, JobExits(j) PROVE TypeInv'
  BY <1>19 DEF JobExits, JobPlaces, Unspawned
<1>20. ASSUME NEW m \in Member, DeliverToRoot(m) PROVE TypeInv'
  <2>1. /\ ending' \in [Member -> Endings] /\ member' = member
        /\ \A x \in Member : member'[x] = "claimed" <=> ending'[x] \in {"deliver", "finish"} \cup Delivering
    BY <1>20 DEF DeliverToRoot, Then, Endings
  <2>2. delivered' \in [Member -> Nat] /\ refused' \subseteq Member /\ faults' \in Nat
    BY <1>20 DEF DeliverToRoot, Told, Fails, Refused, Fault
  <2>3. QED BY <1>20, <2>1, <2>2 DEF DeliverToRoot
<1>21. ASSUME NEW m \in Member, Finish(m) PROVE TypeInv'
  <2>1. /\ ending[m] = "finish" /\ \E l \in {"ended", "check"} : ending' = [ending EXCEPT ![m] = l]
        /\ member' = [member EXCEPT ![m] = "done"]
    BY <1>21 DEF Finish
  <2>2. ending' \in [Member -> Endings] BY <2>1 DEF Endings
  <2>3. \A x \in Member : member'[x] = "claimed" <=> ending'[x] \in {"deliver", "finish"} \cup Delivering
    BY <2>1 DEF Delivering
  <2>4. member' \in [Member -> {"none", "live", "claimed", "done"}] BY <2>1
  <2>5. QED BY <1>21, <2>2, <2>3, <2>4 DEF Finish
<1>22. ASSUME NEW m \in Member, FinishChecks(m) PROVE TypeInv'
  <2>1. Parent(m) \in Child BY <1>22, Names DEF FinishChecks, CheckSettles, GroupInv, LifeInv, Parent
  <2>2. /\ pending' \subseteq Child /\ faults' \in Nat
        /\ settle' \in [Child -> {"none", "deliver", "abandon", "claimed"}]
    BY <1>22, <2>1, DecideTypes DEF FinishChecks, CheckSettles
  <2>3. /\ ending' \in [Member -> Endings]
        /\ \A x \in Member : member'[x] = "claimed" <=> ending'[x] \in {"deliver", "finish"} \cup Delivering
    <3>1. ending[m] = "check" /\ ending' = [ending EXCEPT ![m] = "ended"] /\ member' = member
      BY <1>22 DEF FinishChecks, CheckSettles
    <3>2. QED BY <3>1 DEF Delivering, Endings
  <2>4. QED BY <1>22, <2>2, <2>3 DEF FinishChecks
<1>23. ASSUME NEW c \in Child, NEW o \in Ops, Enter(c, o) PROVE TypeInv'
  BY <1>23 DEF Enter, Goto, Places
<1>24. ASSUME NEW c \in Child, NEW o \in Ops, Reserve(c, o) PROVE TypeInv'
  <2>1. exec' \in [Child -> [Ops -> Places]] BY <1>24, GotoIs DEF Reserve, Places
  <2>2. reserved' \in [Child -> Int \cup Job] BY <1>24, Names DEF Reserve
  <2>3. QED BY <1>24, <2>1, <2>2 DEF Reserve
<1>25. ASSUME NEW c \in Child, NEW o \in Ops, CommitTerminal(c, o) PROVE TypeInv'
  <2>1. Goto(c, o, IF reserved[c] = o THEN "drain" ELSE "retire") BY <1>25 DEF CommitTerminal
  <2>2. exec' \in [Child -> [Ops -> Places]] BY <2>1, GotoIs DEF Places
  <2>3. current' \in [Child -> Ops \cup {0}] BY <1>25 DEF CommitTerminal
  <2>4. faults' \in Nat BY <1>25 DEF CommitTerminal, Fault
  <2>5. QED BY <1>25, <2>2, <2>3, <2>4 DEF CommitTerminal
<1>26. ASSUME NEW c \in Child, NEW o \in Ops, Drain(c, o) PROVE TypeInv'
  <2>1. NextOp(c) \subseteq Ops BY DEF NextOp
  <2>2. exec' = exec \/ Goto(c, o, "release") \/ Goto(c, o, "install") BY <1>26 DEF Drain
  <2>3. exec' \in [Child -> [Ops -> Places]] BY <2>2, GotoIs DEF Places
  <2>4. current' \in [Child -> Ops \cup {0}] BY <1>26, <2>1 DEF Drain
  <2>5. run' \in [Child -> Ops \cup {0}] BY <1>26 DEF Drain
  <2>6. buffer' \in [Child -> Nat] BY <1>26 DEF Drain
  <2>7. QED BY <1>26, <2>3, <2>4, <2>5, <2>6 DEF Drain
<1>27. ASSUME NEW c \in Child, NEW o \in Ops, Install(c, o) PROVE TypeInv'
  BY <1>27 DEF Install, Places
<1>28. ASSUME NEW c \in Child, NEW o \in Ops, Release(c, o) PROVE TypeInv'
  BY <1>28 DEF Release, Goto, Places
<1>29. ASSUME NEW c \in Child, NEW o \in Ops, Retire(c, o) PROVE TypeInv'
  BY <1>29 DEF Retire, Goto, Places
<1>30. ASSUME NEW c \in Child, NEW o \in Ops, Tail(c, o) PROVE TypeInv'
  <2>1. /\ pending' \subseteq Child /\ faults' \in Nat
        /\ settle' \in [Child -> {"none", "deliver", "abandon", "claimed"}]
    BY <1>30, DecideTypes DEF Tail
  <2>2. exec' \in [Child -> [Ops -> Places]] BY <1>30 DEF Tail, Goto, Places
  <2>3. QED BY <1>30, <2>1, <2>2 DEF Tail
<1>31. ASSUME NEW c \in Child, NEW o \in Ops, CloseDone(c, o) PROVE TypeInv'
  BY <1>31 DEF CloseDone, Goto, Places
<1>32. ASSUME NEW c \in Child, NEW o \in Ops, EndRun(c, o) PROVE TypeInv'
  BY <1>32 DEF EndRun, Goto, Places
<1>33. ASSUME NEW s \in Session, Stop(s) PROVE TypeInv'
  <2>1. bg' \in [Session -> {"open", "stopping", "closed"}] BY <1>33 DEF Stop, Begin
  <2>2. buffer' \in [Child -> Nat]
    <3>1. buffer' = buffer \/ buffer' = [buffer EXCEPT ![s] = 0] BY <1>33 DEF Stop, Begin
    <3>. HIDE DEF TypeInv, TypeOK
    <3>2. QED BY <3>1, <1>0
  <2>3. stop' \in [Session -> Record]
    <3>1. CASE s = Root
      <4>1. RootStop \in Record
        BY DEF RootStop, Record, StopPlaces, Group, Session
      <4>2. QED BY <1>33, <3>1, <4>1 DEF Stop, Begin
    <3>2. CASE s \in Child
      <4>1. Lineage(s) \in Record BY <3>2, StopTypes
      <4>2. stop' = [stop EXCEPT ![s] = Lineage(s)] BY <1>33, <3>2, Within, Names DEF Stop, Begin
      <4>3. QED BY <4>1, <4>2
    <3>3. QED BY <3>1, <3>2, Names
  <2>4. QED BY <1>33, <2>1, <2>2, <2>3 DEF Stop
<1>34. ASSUME NEW c \in Child, StopLineage(c) PROVE TypeInv'
  <2>1. stop \in [Session -> Record] /\ c \in Session BY Within
  <2>2. stop[c].joins \cup Membership(c) \subseteq Member BY <2>1, Within DEF Record, Membership
  <2>3. stop' \in [Session -> Record] BY <1>34, <2>1, <2>2 DEF StopLineage, Record, StopPlaces
  <2>4. QED BY <1>34, <2>3 DEF StopLineage
<1>35. ASSUME NEW c \in Child, StopHold(c) PROVE TypeInv'
  <2>1. stop \in [Session -> Record] /\ c \in Session BY Within
  <2>2. {run[c]} \ {0} \subseteq Ops OBVIOUS
  <2>3. stop' \in [Session -> Record] BY <1>35, <2>1, <2>2 DEF StopHold, Record, StopPlaces
  <2>4. QED BY <1>35, <2>3 DEF StopHold
<1>36. ASSUME ChildStopped PROVE TypeInv'
  <2>1. stop' \in [Session -> Record] BY <1>36, TaskEnds, Within DEF ChildStopped
  <2>2. QED BY <1>36, <2>1 DEF ChildStopped
<1>37. ASSUME NEW c \in Child, StopChild(c) PROVE TypeInv'
  <2>1. /\ member' \in [Member -> {"none", "live", "claimed", "done"}]
        /\ ending' \in [Member -> Endings]
        /\ \A x \in Member : member'[x] = "claimed" <=> ending'[x] \in {"deliver", "finish"} \cup Delivering
    BY <1>37, ClaimTypes, Within DEF StopChild
  <2>2. bg' \in [Session -> {"open", "stopping", "closed"}]
    <3>1. bg' = bg \/ bg' = [bg EXCEPT ![c] = "closed"] BY <1>37 DEF StopChild
    <3>2. QED BY <3>1
  <2>3. buffer' \in [Child -> Nat]
    <3>1. buffer' = buffer \/ buffer' = [buffer EXCEPT ![c] = 0] BY <1>37 DEF StopChild
    <3>. HIDE DEF TypeInv, TypeOK
    <3>2. QED BY <3>1, <1>0
  <2>4. faults' \in Nat /\ corrupt' \subseteq Child BY <1>37 DEF StopChild, Fault
  <2>5. stop' \in [Session -> Record]
    <3>1. [stop EXCEPT ![Root].todo = @ \ {c}] \in [Session -> Record] BY TaskEnds, Names
    <3>2. Lineage(c) \in Record /\ JoinChild(c) \in Record BY StopTypes
    <3>3. QED BY <1>37, <3>1, <3>2 DEF StopChild
  <2>6. QED BY <1>37, <2>1, <2>2, <2>3, <2>4, <2>5 DEF StopChild
<1>38. ASSUME NEW s \in Session, NEW j \in Job, StopJob(s, j) PROVE TypeInv'
  <2>1. [stop EXCEPT ![s].todo = @ \ {j}] \in [Session -> Record] BY TaskEnds
  <2>2. stop' \in [Session -> Record] BY <1>38, <2>1 DEF StopJob
  <2>3. job' \in [Job -> JobPlaces] BY <1>38 DEF StopJob, JobPlaces, Unspawned
  <2>4. QED BY <1>38, <2>2, <2>3 DEF StopJob
<1>39. ASSUME NEW s \in Session, StopEnds(s) PROVE TypeInv'
  <2>1. stop \in [Session -> Record] /\ NoStop \in Record BY Within DEF NoStop, Record, StopPlaces
  <2>2. stop' \in [Session -> Record] BY <1>39, <2>1 DEF StopEnds
  <2>3. bg' \in [Session -> {"open", "stopping", "closed"}] BY <1>39 DEF StopEnds
  <2>4. quieted' \subseteq Child BY <1>39, Names DEF StopEnds
  <2>5. QED BY <1>39, <2>2, <2>3, <2>4 DEF StopEnds
<1>40. ASSUME Lose PROVE TypeInv'
  BY <1>40 DEF Lose
<1>43. ASSUME NEW m \in Member, NEW c \in Child, DeliversInto(m, c) PROVE TypeInv'
  <2>1. /\ ending' \in [Member -> Endings]
        /\ \A x \in Member : member'[x] = "claimed" <=> ending'[x] \in {"deliver", "finish"} \cup Delivering
    <3>. HIDE DEF TypeInv, TypeOK
    <3>1. \E l \in {"idle", "reroute", "admit", "install", "release", "finish"} : Then(m, l)
      BY <1>43 DEF DeliversInto, DeliverRoutes, DeliverReserves, DeliverReroutes, DeliverAdmits, DeliverInstalls,
             DeliverReleases, Routes, RoutesIdle
    <3>2. member' = member /\ member[m] = "claimed" BY <1>43, Deliveries
    <3>3. \A x \in Member : member[x] = "claimed" <=> ending[x] \in {"deliver", "finish"} \cup Delivering
      BY DEF TypeInv, TypeOK
    <3>4. ending' \in [Member -> Endings] BY <1>0, <3>1 DEF Then, Endings, Delivering
    <3>5. \A x \in Member : member'[x] = "claimed" <=> ending'[x] \in {"deliver", "finish"} \cup Delivering
      <4>1. ending'[m] \in {"finish"} \cup Delivering BY <1>0, <3>1 DEF Then, Delivering
      <4>2. \A x \in Member : x # m => ending'[x] = ending[x] BY <1>43, Deliveries
      <4>3. QED BY <3>2, <3>3, <4>1, <4>2
    <3>6. QED BY <3>4, <3>5
  <2>2. /\ UNCHANGED <<bg, member, pending, corrupt, launch, job, canceled, submit, settle, stop>>
        /\ UNCHANGED <<ctx, cast, submits, stops, quieted>> /\ m \in Job
    BY <1>43, Deliveries
  <2>3. delivered' \in [Member -> Nat] /\ refused' \subseteq Member /\ faults' \in Nat
    BY <1>43 DEF DeliversInto, DeliverRoutes, DeliverReserves, DeliverReroutes, DeliverAdmits, DeliverInstalls,
             DeliverReleases, Routes, RoutesIdle, Told, Fails, Refused, NoAnswer, Fault
  <2>4. current' \in [Child -> Ops \cup {0}] /\ run' \in [Child -> Ops \cup {0}]
    <3>1. NextOp(c) \subseteq Ops BY DEF NextOp
    <3>2. current' \in [Child -> Ops \cup {0}]
      BY <1>43, <3>1 DEF DeliversInto, DeliverRoutes, DeliverReserves, DeliverReroutes, DeliverAdmits,
         DeliverInstalls, DeliverReleases
    <3>3. run' \in [Child -> Ops \cup {0}]
      BY <1>43 DEF DeliversInto, DeliverRoutes, DeliverReserves, DeliverReroutes, DeliverAdmits,
         DeliverInstalls, DeliverReleases
    <3>4. QED BY <3>2, <3>3
  <2>5. reserved' \in [Child -> Int \cup Job]
    BY <1>43, <2>2 DEF DeliversInto, DeliverRoutes, DeliverReserves, DeliverReroutes, DeliverAdmits,
       DeliverInstalls, DeliverReleases
  <2>6. buffer' \in [Child -> Nat]
    BY <1>43 DEF DeliversInto, DeliverRoutes, DeliverReserves, DeliverReroutes, DeliverAdmits,
       DeliverInstalls, DeliverReleases, Routes, RoutesIdle
  <2>7. exec' \in [Child -> [Ops -> Places]]
    <3>1. exec' = exec \/ Goto(c, current[c], "entry")
      BY <1>43 DEF DeliversInto, DeliverRoutes, DeliverReserves, DeliverReroutes, DeliverAdmits,
         DeliverInstalls, DeliverReleases
    <3>. HIDE DEF TypeInv, TypeOK
    <3>2. QED BY <1>0, <3>1 DEF Goto, Places
  <2>8. QED BY <2>1, <2>2, <2>3, <2>4, <2>5, <2>6, <2>7
<1>41. CASE UNCHANGED vars BY <1>41 DEF vars
<1>42. QED BY <1>1, <1>2, <1>3, <1>4, <1>5, <1>6, <1>7, <1>8, <1>9, <1>10, <1>11, <1>12, <1>13, <1>14,
     <1>15, <1>16, <1>17, <1>18, <1>19, <1>20, <1>21, <1>22, <1>23, <1>24, <1>25, <1>26, <1>27, <1>28,
     <1>29, <1>30, <1>31, <1>32, <1>33, <1>34, <1>35, <1>36, <1>37, <1>38, <1>39, <1>40, <1>41, <1>43 DEF Next,
     Launcher, JobStarter, Ending, Execution, Submits, Stopping

(* First-writer claim: every step keeps the life of every member. *)
LEMMA LifeStep == GroupInv /\ [Next]_vars => \A i \in Member : LifeInv(i)'
<1>. SUFFICES ASSUME GroupInv, [Next]_vars, NEW i \in Member PROVE LifeInv(i)' OBVIOUS
<1>. USE DEF GroupInv, TypeInv, TypeOK, Delivering, Endings, cells, procs, env
<1>1. ASSUME NEW c \in Child, AdmitChild(c) PROVE LifeInv(i)'
  BY <1>1 DEF AdmitChild, Admits, Parent, LifeInv
<1>2. ASSUME NEW c \in Child, CommitChild(c) PROVE LifeInv(i)'
  <2>1. UNCHANGED <<delivered, refused>> /\ (Claim(c, "finish") \/ UNCHANGED <<member, ending>>) BY <1>2 DEF CommitChild
  <2>2. CASE Claim(c, "finish") BY <2>1, <2>2, ClaimLives, Within
  <2>3. CASE UNCHANGED <<member, ending>>
    <3>1. LifeInv(i) OBVIOUS
    <3>. HIDE DEF GroupInv, TypeInv, TypeOK
    <3>2. QED BY <2>1, <2>3, <3>1 DEF LifeInv
  <2>4. QED BY <2>1, <2>2, <2>3
<1>3. ASSUME NEW c \in Child, HandChild(c) PROVE LifeInv(i)'
  BY <1>3 DEF HandChild, HandoffHolds, LifeInv
<1>4. ASSUME NEW c \in Child, AdoptChild(c) PROVE LifeInv(i)'
  <2>1. UNCHANGED <<delivered, refused>> /\ (Claim(c, "finish") \/ UNCHANGED <<member, ending>>) BY <1>4 DEF AdoptChild
  <2>2. CASE Claim(c, "finish") BY <2>1, <2>2, ClaimLives, Within
  <2>3. CASE UNCHANGED <<member, ending>>
    <3>1. LifeInv(i) OBVIOUS
    <3>. HIDE DEF GroupInv, TypeInv, TypeOK
    <3>2. QED BY <2>1, <2>3, <3>1 DEF LifeInv
  <2>4. QED BY <2>1, <2>2, <2>3
<1>5. ASSUME NEW c \in Child, StartChild(c) PROVE LifeInv(i)'
  BY <1>5 DEF StartChild, Goto, LifeInv
<1>6. ASSUME NEW c \in Child, SettleRejected(c) PROVE LifeInv(i)'
  BY <1>6 DEF SettleRejected, Fault, LifeInv
<1>7. ASSUME NEW c \in Child, FinishRejected(c) PROVE LifeInv(i)'
  BY <1>7, ClaimLives, Within DEF FinishRejected
<1>8. ASSUME NEW c \in Child, SettleClaims(c) PROVE LifeInv(i)'
  <2>1. \E next \in {"deliver", "finish"} : Claim(c, next) BY <1>8 DEF SettleClaims
  <2>2. UNCHANGED <<delivered, refused>> BY <1>8 DEF SettleClaims
  <2>3. QED BY <2>1, <2>2, ClaimLives, Within
<1>9. ASSUME NEW c \in Child, SubmitReserves(c) PROVE LifeInv(i)'
  BY <1>9 DEF SubmitReserves, LifeInv
<1>10. ASSUME NEW c \in Child, SubmitRoutes(c) PROVE LifeInv(i)'
  BY <1>10 DEF SubmitRoutes, LifeInv
<1>11. ASSUME NEW c \in Child, SubmitAdmits(c) PROVE LifeInv(i)'
  BY <1>11 DEF SubmitAdmits, NextOp, Free, LifeInv
<1>12. ASSUME NEW c \in Child, SubmitInstalls(c) PROVE LifeInv(i)'
  BY <1>12 DEF SubmitInstalls, Goto, LifeInv
<1>13. ASSUME NEW c \in Child, SubmitReleases(c) PROVE LifeInv(i)'
  BY <1>13 DEF SubmitReleases, LifeInv
<1>14. ASSUME NEW j \in Job, ReserveJob(j) PROVE LifeInv(i)'
  BY <1>14 DEF ReserveJob, Executing, LifeInv
<1>15. ASSUME NEW j \in Job, AdmitJob(j) PROVE LifeInv(i)'
  BY <1>15 DEF AdmitJob, Admits, Parent, JobInv, LifeInv
<1>16. ASSUME NEW j \in Job, HandJob(j) PROVE LifeInv(i)'
  <2>1. UNCHANGED <<delivered, refused>> /\ (Claim(j, "finish") \/ UNCHANGED <<member, ending>>) BY <1>16 DEF HandJob
  <2>2. CASE Claim(j, "finish") BY <2>1, <2>2, ClaimLives, Within
  <2>3. CASE UNCHANGED <<member, ending>>
    <3>1. LifeInv(i) OBVIOUS
    <3>. HIDE DEF GroupInv, TypeInv, TypeOK
    <3>2. QED BY <2>1, <2>3, <3>1 DEF LifeInv
  <2>4. QED BY <2>1, <2>2, <2>3
<1>17. ASSUME NEW j \in Job, Spawn(j) PROVE LifeInv(i)'
  <2>1. UNCHANGED <<delivered, refused>> /\ (Claim(j, "finish") \/ UNCHANGED <<member, ending>>) BY <1>17 DEF Spawn
  <2>2. CASE Claim(j, "finish") BY <2>1, <2>2, ClaimLives, Within
  <2>3. CASE UNCHANGED <<member, ending>>
    <3>1. LifeInv(i) OBVIOUS
    <3>. HIDE DEF GroupInv, TypeInv, TypeOK
    <3>2. QED BY <2>1, <2>3, <3>1 DEF LifeInv
  <2>4. QED BY <2>1, <2>2, <2>3
<1>18. ASSUME NEW j \in Job, JobReports(j) PROVE LifeInv(i)'
  BY <1>18, ClaimLives, Within DEF JobReports
<1>19. ASSUME NEW j \in Job, JobExits(j) PROVE LifeInv(i)'
  BY <1>19 DEF JobExits, LifeInv
<1>20. ASSUME NEW m \in Member, DeliverToRoot(m) PROVE LifeInv(i)'
  <2>0. LifeInv(i) /\ delivered \in [Member -> Nat] /\ ending \in [Member -> Endings] OBVIOUS
  <2>. HIDE DEF GroupInv, TypeInv, TypeOK, Endings
  <2>1. ending[m] = "deliver" /\ ending' = [ending EXCEPT ![m] = "finish"] /\ member' = member
        /\ (Told(m) \/ Refused(m) \/ UNCHANGED <<delivered, refused>>)
    BY <1>20 DEF DeliverToRoot, Then, Fails
  <2>2. CASE i # m BY <2>0, <2>1, <2>2 DEF LifeInv, Told, Refused
  <2>3. CASE i = m
    <3>1. ending'[i] = "finish" /\ delivered[i] = 0 /\ i \notin refused BY <2>0, <2>1, <2>3 DEF LifeInv, Untold
    <3>2. delivered'[i] <= 1 /\ (i \in refused' => delivered'[i] = 0) BY <2>0, <2>1, <2>3, <3>1 DEF Told, Refused
    <3>3. QED BY <2>0, <2>1, <2>3, <3>1, <3>2 DEF LifeInv, Untold
  <2>4. QED BY <2>2, <2>3
<1>21. ASSUME NEW m \in Member, Finish(m) PROVE LifeInv(i)'
  <2>0. LifeInv(i) /\ member \in [Member -> {"none", "live", "claimed", "done"}] /\ ending \in [Member -> Endings] OBVIOUS
  <2>. HIDE DEF GroupInv, TypeInv, TypeOK, Endings
  <2>1. ending[m] = "finish" /\ member' = [member EXCEPT ![m] = "done"] /\ UNCHANGED <<delivered, refused>>
        /\ ending' = [ending EXCEPT ![m] = IF Parent(m) = Root THEN "ended" ELSE "check"]
    BY <1>21 DEF Finish
  <2>2. CASE i # m BY <2>0, <2>1, <2>2 DEF LifeInv
  <2>3. CASE i = m
    <3>1. member'[i] = "done" /\ ending'[i] \in {"ended", "check"} BY <2>0, <2>1, <2>3
    <3>2. ending'[i] = "check" => i \in Job /\ Owner[i] \in Child BY <2>0, <2>1, <2>3, Names DEF Parent
    <3>3. QED BY <2>0, <2>1, <3>1, <3>2 DEF LifeInv, Untold
  <2>4. QED BY <2>2, <2>3
<1>22. ASSUME NEW m \in Member, FinishChecks(m) PROVE LifeInv(i)'
  <2>0. LifeInv(i) /\ member[m] # "claimed" /\ ending \in [Member -> Endings]
    BY <1>22 DEF FinishChecks, CheckSettles
  <2>. HIDE DEF GroupInv, TypeInv, TypeOK, Endings
  <2>1. ending[m] = "check" /\ ending' = [ending EXCEPT ![m] = "ended"] /\ UNCHANGED <<member, delivered, refused>>
    BY <1>22 DEF FinishChecks, CheckSettles
  <2>2. CASE i # m BY <2>0, <2>1, <2>2 DEF LifeInv
  <2>3. CASE i = m BY <2>0, <2>1, <2>3 DEF LifeInv, Untold
  <2>4. QED BY <2>2, <2>3
<1>23. ASSUME NEW c \in Child, NEW o \in Ops, Enter(c, o) PROVE LifeInv(i)'
  BY <1>23 DEF Enter, Goto, LifeInv
<1>24. ASSUME NEW c \in Child, NEW o \in Ops, Reserve(c, o) PROVE LifeInv(i)'
  BY <1>24 DEF Reserve, Goto, LifeInv
<1>25. ASSUME NEW c \in Child, NEW o \in Ops, CommitTerminal(c, o) PROVE LifeInv(i)'
  BY <1>25 DEF CommitTerminal, Goto, Fault, LifeInv
<1>26. ASSUME NEW c \in Child, NEW o \in Ops, Drain(c, o) PROVE LifeInv(i)'
  BY <1>26 DEF Drain, Goto, NextOp, Free, LifeInv
<1>27. ASSUME NEW c \in Child, NEW o \in Ops, Install(c, o) PROVE LifeInv(i)'
  BY <1>27 DEF Install, LifeInv
<1>28. ASSUME NEW c \in Child, NEW o \in Ops, Release(c, o) PROVE LifeInv(i)'
  BY <1>28 DEF Release, Goto, LifeInv
<1>29. ASSUME NEW c \in Child, NEW o \in Ops, Retire(c, o) PROVE LifeInv(i)'
  BY <1>29 DEF Retire, Goto, LifeInv
<1>30. ASSUME NEW c \in Child, NEW o \in Ops, Tail(c, o) PROVE LifeInv(i)'
  BY <1>30 DEF Tail, Goto, Decide, Fault, LifeInv
<1>31. ASSUME NEW c \in Child, NEW o \in Ops, CloseDone(c, o) PROVE LifeInv(i)'
  BY <1>31 DEF CloseDone, Goto, LifeInv
<1>32. ASSUME NEW c \in Child, NEW o \in Ops, EndRun(c, o) PROVE LifeInv(i)'
  BY <1>32 DEF EndRun, Goto, LifeInv
<1>33. ASSUME NEW s \in Session, Stop(s) PROVE LifeInv(i)'
  BY <1>33 DEF Stop, Begin, LifeInv
<1>34. ASSUME NEW c \in Child, StopLineage(c) PROVE LifeInv(i)'
  BY <1>34 DEF StopLineage, LifeInv
<1>35. ASSUME NEW c \in Child, StopHold(c) PROVE LifeInv(i)'
  BY <1>35 DEF StopHold, HoldReleased, LifeInv
<1>36. ASSUME ChildStopped PROVE LifeInv(i)'
  BY <1>36 DEF ChildStopped, LifeInv
<1>37. ASSUME NEW c \in Child, StopChild(c) PROVE LifeInv(i)'
  <2>1. UNCHANGED <<delivered, refused>> /\ (Claim(c, "finish") \/ UNCHANGED <<member, ending>>) BY <1>37 DEF StopChild
  <2>2. CASE Claim(c, "finish") BY <2>1, <2>2, ClaimLives, Within
  <2>3. CASE UNCHANGED <<member, ending>>
    <3>1. LifeInv(i) OBVIOUS
    <3>. HIDE DEF GroupInv, TypeInv, TypeOK
    <3>2. QED BY <2>1, <2>3, <3>1 DEF LifeInv
  <2>4. QED BY <2>1, <2>2, <2>3
<1>38. ASSUME NEW s \in Session, NEW j \in Job, StopJob(s, j) PROVE LifeInv(i)'
  BY <1>38 DEF StopJob, LifeInv
<1>39. ASSUME NEW s \in Session, StopEnds(s) PROVE LifeInv(i)'
  BY <1>39 DEF StopEnds, LifeInv
<1>40. ASSUME Lose PROVE LifeInv(i)'
  BY <1>40 DEF Lose, LifeInv
<1>43. ASSUME NEW m \in Member, NEW c \in Child, DeliversInto(m, c) PROVE LifeInv(i)'
  <2>. HIDE DEF GroupInv, TypeInv, TypeOK, Delivering, Endings
  <2>1. /\ m \in Job /\ Owner[m] = c /\ member[m] = "claimed" /\ launch[c] \notin Unstarted
        /\ UNCHANGED <<bg, member, pending, corrupt, launch, job, canceled, submit, settle, stop>>
        /\ UNCHANGED <<ctx, cast, submits, stops, quieted>>
        /\ ending[m] \in Delivering \cup {"deliver"} /\ ending'[m] \in Delivering \cup {"finish"}
        /\ \A x \in Member : x # m => ending'[x] = ending[x]
        /\ \A d \in Child : d # c => Apart(d)
    BY <1>43, Deliveries
  <2>2. CASE i # m
    <3>1. delivered'[i] = delivered[i] /\ (i \in refused' <=> i \in refused)
      BY <1>43, <2>2, Answers DEF Told, Fails, Refused, NoAnswer, GroupInv, TypeInv
    <3>2. LifeInv(i) BY DEF GroupInv
    <3>3. QED BY <2>1, <2>2, <3>1, <3>2 DEF LifeInv
  <2>3. CASE i = m
    <3>1. LifeInv(i) /\ delivered \in [Member -> Nat] BY DEF GroupInv, TypeInv
    <3>2. \/ (Told(m) \/ Fails(m)) /\ ending[m] \in Untold /\ ending'[m] \notin Untold
          \/ NoAnswer /\ (ending'[m] \in Untold => ending[m] \in Untold)
      BY <1>43, Answers DEF GroupInv
    <3>3. delivered'[m] <= 1 /\ (m \in refused' => delivered'[m] = 0)
      BY <2>3, <3>1, <3>2 DEF LifeInv, Told, Fails, Refused, NoAnswer
    <3>4. ending'[m] \in Untold => delivered'[m] = 0 /\ m \notin refused'
      BY <2>3, <3>1, <3>2 DEF LifeInv, NoAnswer
    <3>5. Owner[m] \in Child BY <2>1
    <3>6. QED BY <2>1, <2>3, <3>3, <3>4, <3>5 DEF LifeInv, Delivering
  <2>4. QED BY <2>2, <2>3
<1>41. CASE UNCHANGED vars BY <1>41 DEF vars, LifeInv
<1>42. QED BY <1>1, <1>2, <1>3, <1>4, <1>5, <1>6, <1>7, <1>8, <1>9, <1>10, <1>11, <1>12, <1>13, <1>14,
     <1>15, <1>16, <1>17, <1>18, <1>19, <1>20, <1>21, <1>22, <1>23, <1>24, <1>25, <1>26, <1>27, <1>28,
     <1>29, <1>30, <1>31, <1>32, <1>33, <1>34, <1>35, <1>36, <1>37, <1>38, <1>39, <1>40, <1>41, <1>43 DEF Next,
     Launcher, JobStarter, Ending, Execution, Submits, Stopping

(* Every step keeps what a child's launcher knows: until the start nothing
   else acts for the child. *)
LEMMA LaunchStep == GroupInv /\ [Next]_vars => \A i \in Child : LaunchInv(i)'
<1>. SUFFICES ASSUME GroupInv, [Next]_vars, NEW i \in Child PROVE LaunchInv(i)' OBVIOUS
<1>. USE DEF GroupInv, TypeInv, TypeOK, Delivering, Endings, cells, procs, env
<1>1. ASSUME NEW c \in Child, AdmitChild(c) PROVE LaunchInv(i)'
  <2>1. CASE c # i BY <2>1, <1>1, Within DEF AdmitChild, Admits, LaunchInv, Starting, Unstarted, Admitting
  <2>2. CASE c = i BY <2>2, <1>1, Within DEF AdmitChild, Admits, LaunchInv, Starting, Unstarted, Admitting
  <2>3. QED BY <2>1, <2>2
<1>2. ASSUME NEW c \in Child, CommitChild(c) PROVE LaunchInv(i)'
  <2>1. CASE c # i BY <2>1, <1>2, Within, ClaimIs DEF CommitChild, Fault, LaunchInv, Starting, Unstarted,
       Admitting
  <2>2. CASE c = i BY <2>2, <1>2, Within, ClaimIs DEF CommitChild, Fault, LaunchInv, Starting, Unstarted,
       Admitting
  <2>3. QED BY <2>1, <2>2
<1>3. ASSUME NEW c \in Child, HandChild(c) PROVE LaunchInv(i)'
  BY <1>3 DEF HandChild, HandoffHolds, LaunchInv, Starting, Unstarted, Admitting
<1>4. ASSUME NEW c \in Child, AdoptChild(c) PROVE LaunchInv(i)'
  <2>1. CASE c # i BY <2>1, <1>4, Within, ClaimIs DEF AdoptChild, Fault, LaunchInv, Starting, Unstarted, Admitting
  <2>2. CASE c = i BY <2>2, <1>4, Within, ClaimIs DEF AdoptChild, Fault, LaunchInv, Starting, Unstarted, Admitting
  <2>3. QED BY <2>1, <2>2
<1>5. ASSUME NEW c \in Child, StartChild(c) PROVE LaunchInv(i)'
  BY <1>5 DEF StartChild, Goto, LaunchInv, Starting, Unstarted, Admitting
<1>6. ASSUME NEW c \in Child, SettleRejected(c) PROVE LaunchInv(i)'
  BY <1>6 DEF SettleRejected, Fault, LaunchInv, Starting, Unstarted, Admitting
<1>7. ASSUME NEW c \in Child, FinishRejected(c) PROVE LaunchInv(i)'
  <2>1. CASE c # i BY <2>1, <1>7, Within, ClaimIs DEF FinishRejected, LaunchInv, Starting, Unstarted, Admitting
  <2>2. CASE c = i BY <2>2, <1>7, Within, ClaimIs DEF FinishRejected, LaunchInv, Starting, Unstarted, Admitting
  <2>3. QED BY <2>1, <2>2
<1>8. ASSUME NEW c \in Child, SettleClaims(c) PROVE LaunchInv(i)'
  <2>1. CASE c # i BY <2>1, <1>8, Within, ClaimIs DEF SettleClaims, LaunchInv, Starting, Unstarted, Admitting
  <2>2. CASE c = i BY <2>2, <1>8, Within, ClaimIs DEF SettleClaims, LaunchInv, Starting, Unstarted, Admitting
  <2>3. QED BY <2>1, <2>2
<1>9. ASSUME NEW c \in Child, SubmitReserves(c) PROVE LaunchInv(i)'
  <2>1. CASE c # i BY <2>1, <1>9, Within DEF SubmitReserves, Published, LaunchInv, Starting, Unstarted, Admitting
  <2>2. CASE c = i BY <2>2, <1>9, Within DEF SubmitReserves, Published, LaunchInv, Starting, Unstarted, Admitting
  <2>3. QED BY <2>1, <2>2
<1>10. ASSUME NEW c \in Child, SubmitRoutes(c) PROVE LaunchInv(i)'
  <2>1. UNCHANGED <<launch, current, bg, member, run, exec, pending, settle, corrupt, faults, ending>> /\ LaunchInv(i)
    BY <1>10 DEF SubmitRoutes
  <2>2. \/ submit'[i] = submit[i]
        \/ submit[i] = "route" /\ (submit'[i] = "release" \/ (submit'[i] = "admit" /\ current[i] = 0))
    BY <1>10 DEF SubmitRoutes
  <2>. HIDE DEF GroupInv, TypeInv, TypeOK, Delivering, Endings
  <2>3. QED BY <2>1, <2>2 DEF LaunchInv, Starting, Unstarted, Admitting
<1>11. ASSUME NEW c \in Child, SubmitAdmits(c) PROVE LaunchInv(i)'
  <2>1. UNCHANGED <<launch, bg, member, run, exec, pending, settle, corrupt, faults, ending>> /\ LaunchInv(i)
    BY <1>11 DEF SubmitAdmits
  <2>2. \/ UNCHANGED <<submit[i], current[i]>>
        \/ submit[i] = "admit" /\ submit'[i] \in {"install", "release"}
    BY <1>11 DEF SubmitAdmits
  <2>. HIDE DEF GroupInv, TypeInv, TypeOK, Delivering, Endings
  <2>3. QED BY <2>1, <2>2 DEF LaunchInv, Starting, Unstarted, Admitting
<1>12. ASSUME NEW c \in Child, SubmitInstalls(c) PROVE LaunchInv(i)'
  <2>1. UNCHANGED <<launch, current, bg, member, pending, settle, corrupt, faults, ending>> /\ LaunchInv(i)
    BY <1>12 DEF SubmitInstalls
  <2>2. CASE c # i
    <3>1. UNCHANGED <<submit[i], run[i], exec[i]>> BY <1>12, <2>2 DEF SubmitInstalls, Goto
    <3>. HIDE DEF GroupInv, TypeInv, TypeOK, Delivering, Endings
    <3>2. QED BY <2>1, <3>1 DEF LaunchInv
  <2>3. CASE c = i
    <3>1. submit[i] = "install" /\ submit'[i] = "release" BY <1>12, <2>3 DEF SubmitInstalls
    <3>. HIDE DEF GroupInv, TypeInv, TypeOK, Delivering, Endings
    <3>2. QED BY <2>1, <3>1 DEF LaunchInv, Starting, Unstarted, Admitting
  <2>4. QED BY <2>2, <2>3
<1>13. ASSUME NEW c \in Child, SubmitReleases(c) PROVE LaunchInv(i)'
  <2>1. UNCHANGED <<launch, current, bg, member, run, exec, pending, settle, corrupt, faults, ending>> /\ LaunchInv(i)
    BY <1>13 DEF SubmitReleases
  <2>2. submit'[i] = submit[i] \/ (submit[i] = "release" /\ submit'[i] = "idle") BY <1>13 DEF SubmitReleases
  <2>. HIDE DEF GroupInv, TypeInv, TypeOK, Delivering, Endings
  <2>3. QED BY <2>1, <2>2 DEF LaunchInv, Starting, Unstarted, Admitting
<1>14. ASSUME NEW j \in Job, ReserveJob(j) PROVE LaunchInv(i)'
  BY <1>14 DEF ReserveJob, Executing, LaunchInv, Starting, Unstarted, Admitting
<1>15. ASSUME NEW j \in Job, AdmitJob(j) PROVE LaunchInv(i)'
  <2>1. member'[i] = member[i] BY <1>15, Within, Names, ClaimIs DEF AdmitJob
  <2>2. QED BY <1>15, <2>1 DEF AdmitJob, LaunchInv, Starting, Unstarted, Admitting
<1>16. ASSUME NEW j \in Job, HandJob(j) PROVE LaunchInv(i)'
  <2>1. member'[i] = member[i] BY <1>16, Within, Names, ClaimIs DEF HandJob
  <2>2. \A x \in Job : ending'[x] \in Delivering => ending'[x] = ending[x]
    BY <1>16, Within, ClaimDelivers DEF HandJob
  <2>3. UNCHANGED <<launch, current, submit, bg, run, exec, pending, settle, corrupt, faults>> /\ LaunchInv(i)
    BY <1>16 DEF HandJob
  <2>. HIDE DEF GroupInv, TypeInv, TypeOK, Delivering, Endings
  <2>4. QED BY <2>1, <2>2, <2>3 DEF LaunchInv
<1>17. ASSUME NEW j \in Job, Spawn(j) PROVE LaunchInv(i)'
  <2>1. member'[i] = member[i] BY <1>17, Within, Names, ClaimIs DEF Spawn
  <2>2. \A x \in Job : ending'[x] \in Delivering => ending'[x] = ending[x]
    BY <1>17, Within, ClaimDelivers DEF Spawn
  <2>3. UNCHANGED <<launch, current, submit, bg, run, exec, pending, settle, corrupt, faults>> /\ LaunchInv(i)
    BY <1>17 DEF Spawn
  <2>. HIDE DEF GroupInv, TypeInv, TypeOK, Delivering, Endings
  <2>4. QED BY <2>1, <2>2, <2>3 DEF LaunchInv
<1>18. ASSUME NEW j \in Job, JobReports(j) PROVE LaunchInv(i)'
  <2>1. member'[i] = member[i] BY <1>18, Within, Names, ClaimIs DEF JobReports
  <2>2. \A x \in Job : ending'[x] \in Delivering => ending'[x] = ending[x]
    BY <1>18, Within, ClaimDelivers DEF JobReports
  <2>3. UNCHANGED <<launch, current, submit, bg, run, exec, pending, settle, corrupt, faults>> /\ LaunchInv(i)
    BY <1>18 DEF JobReports
  <2>. HIDE DEF GroupInv, TypeInv, TypeOK, Delivering, Endings
  <2>4. QED BY <2>1, <2>2, <2>3 DEF LaunchInv
<1>19. ASSUME NEW j \in Job, JobExits(j) PROVE LaunchInv(i)'
  BY <1>19 DEF JobExits, LaunchInv, Starting, Unstarted, Admitting
<1>20. ASSUME NEW m \in Member, DeliverToRoot(m) PROVE LaunchInv(i)'
  BY <1>20 DEF DeliverToRoot, Told, Fails, Refused, Then, Fault, LaunchInv, Starting, Unstarted, Admitting
<1>21. ASSUME NEW m \in Member, Finish(m) PROVE LaunchInv(i)'
  BY <1>21 DEF Finish, LaunchInv, Starting, Unstarted, Admitting
<1>22. ASSUME NEW m \in Member, FinishChecks(m) PROVE LaunchInv(i)'
  <2>1. Decide(Parent(m), 0) BY <1>22 DEF FinishChecks, CheckSettles
  <2>2. Parent(m) \in Child BY <1>22, Names DEF FinishChecks, CheckSettles, LifeInv, Parent
  <2>3. /\ i \in pending' => i \in pending /\ settle'[i] = settle[i]
        /\ settle'[i] = settle[i] \/ i \in pending
        /\ faults' \in Nat /\ faults' >= faults
    BY <2>1, <2>2, DecideTypes DEF Decide, Fault
  <2>4. UNCHANGED <<member, launch, current, submit, bg, run, exec, corrupt>> BY <1>22 DEF FinishChecks
  <2>5. settle'[i] # settle[i] => launch[i] = "started"
    <3>1. i = Parent(m) \/ settle'[i] = settle[i] BY <2>1, <2>2 DEF Decide
    <3>2. m \in Job /\ Owner[m] \in Child /\ member[m] # "none" /\ Parent(m) = Owner[m]
      BY <1>22, Names DEF FinishChecks, CheckSettles, LifeInv, Parent
    <3>3. launch[Owner[m]] \notin Unstarted BY <3>2 DEF JobInv
    <3>4. QED BY <3>1, <3>2, <3>3, <2>3 DEF LaunchInv, Unstarted, Starting
  <2>6. \A x \in Job : ending'[x] \in Delivering => ending'[x] = ending[x] BY <1>22, Within DEF FinishChecks, CheckSettles
  <2>7. LaunchInv(i) /\ faults \in Nat OBVIOUS
  <2>. HIDE DEF GroupInv, TypeInv, TypeOK, Delivering, Endings
  <2>8. QED BY <2>3, <2>4, <2>5, <2>6, <2>7 DEF LaunchInv
<1>23. ASSUME NEW c \in Child, NEW o \in Ops, Enter(c, o) PROVE LaunchInv(i)'
  BY <1>23 DEF Enter, Goto, LaunchInv, Starting, Unstarted, Admitting
<1>24. ASSUME NEW c \in Child, NEW o \in Ops, Reserve(c, o) PROVE LaunchInv(i)'
  BY <1>24 DEF Reserve, Goto, LaunchInv, Starting, Unstarted, Admitting
<1>25. ASSUME NEW c \in Child, NEW o \in Ops, CommitTerminal(c, o) PROVE LaunchInv(i)'
  BY <1>25 DEF CommitTerminal, Goto, Fault, LaunchInv, Starting, Unstarted, Admitting
<1>26. ASSUME NEW c \in Child, NEW o \in Ops, Drain(c, o) PROVE LaunchInv(i)'
  <2>1. UNCHANGED <<launch, member, bg, pending, settle, corrupt, faults, submit, ending>> /\ LaunchInv(i) BY <1>26 DEF Drain
  <2>2. CASE c # i
    <3>1. UNCHANGED <<exec[i], run[i], current[i]>> BY <1>26, <2>2 DEF Drain, Goto
    <3>. HIDE DEF GroupInv, TypeInv, TypeOK
    <3>2. QED BY <2>1, <3>1 DEF LaunchInv
  <2>3. CASE c = i
    <3>1. exec[i][o] = "drain" BY <1>26, <2>3 DEF Drain
    <3>. HIDE DEF GroupInv, TypeInv, TypeOK
    <3>2. launch[i] \notin Unstarted /\ i \notin corrupt BY <2>1, <3>1 DEF LaunchInv
    <3>3. QED BY <2>1, <3>2 DEF LaunchInv, Unstarted, Starting
  <2>4. QED BY <2>2, <2>3
<1>27. ASSUME NEW c \in Child, NEW o \in Ops, Install(c, o) PROVE LaunchInv(i)'
  <2>1. UNCHANGED <<launch, member, bg, pending, settle, corrupt, faults, submit, ending>> /\ LaunchInv(i) BY <1>27 DEF Install
  <2>2. CASE c # i
    <3>1. UNCHANGED <<exec[i], run[i], current[i]>> BY <1>27, <2>2 DEF Install, Goto
    <3>. HIDE DEF GroupInv, TypeInv, TypeOK
    <3>2. QED BY <2>1, <3>1 DEF LaunchInv
  <2>3. CASE c = i
    <3>1. exec[i][o] = "install" BY <1>27, <2>3 DEF Install
    <3>. HIDE DEF GroupInv, TypeInv, TypeOK
    <3>2. launch[i] \notin Unstarted /\ i \notin corrupt BY <2>1, <3>1 DEF LaunchInv
    <3>3. QED BY <2>1, <3>2 DEF LaunchInv, Unstarted, Starting
  <2>4. QED BY <2>2, <2>3
<1>28. ASSUME NEW c \in Child, NEW o \in Ops, Release(c, o) PROVE LaunchInv(i)'
  BY <1>28 DEF Release, Goto, LaunchInv, Starting, Unstarted, Admitting
<1>29. ASSUME NEW c \in Child, NEW o \in Ops, Retire(c, o) PROVE LaunchInv(i)'
  BY <1>29 DEF Retire, Goto, LaunchInv, Starting, Unstarted, Admitting
<1>30. ASSUME NEW c \in Child, NEW o \in Ops, Tail(c, o) PROVE LaunchInv(i)'
  <2>1. Decide(c, o) BY <1>30 DEF Tail
  <2>2. /\ i \in pending' => i \in pending /\ settle'[i] = settle[i]
        /\ settle'[i] = settle[i] \/ i \in pending
        /\ faults' \in Nat /\ faults' >= faults
    BY <2>1, DecideTypes DEF Decide, Fault
  <2>3. UNCHANGED <<member, launch, current, submit, bg, run, corrupt, ending>> BY <1>30 DEF Tail
  <2>4. exec[c][o] = "tail" /\ Goto(c, o, "close") BY <1>30 DEF Tail
  <2>5. \A p \in Ops : exec'[i][p] = exec[i][p] \/ exec[i][p] = "tail" BY <2>4, GotoIs DEF Places
  <2>6. settle'[i] # settle[i] => launch[i] = "started"
    <3>1. i = c \/ settle'[i] = settle[i] BY <2>1 DEF Decide
    <3>2. launch[c] \notin Unstarted BY <2>4 DEF LaunchInv
    <3>3. QED BY <3>1, <3>2, <2>2 DEF LaunchInv, Unstarted, Starting
  <2>7. LaunchInv(i) /\ faults \in Nat OBVIOUS
  <2>. HIDE DEF GroupInv, TypeInv, TypeOK
  <2>8. QED BY <2>2, <2>3, <2>4, <2>5, <2>6, <2>7 DEF LaunchInv, Starting, Unstarted, Admitting
<1>31. ASSUME NEW c \in Child, NEW o \in Ops, CloseDone(c, o) PROVE LaunchInv(i)'
  BY <1>31 DEF CloseDone, Goto, LaunchInv, Starting, Unstarted, Admitting
<1>32. ASSUME NEW c \in Child, NEW o \in Ops, EndRun(c, o) PROVE LaunchInv(i)'
  BY <1>32 DEF EndRun, Goto, LaunchInv, Starting, Unstarted, Admitting
<1>33. ASSUME NEW s \in Session, Stop(s) PROVE LaunchInv(i)'
  <2>1. CASE s # i BY <2>1, <1>33, Names DEF Stop, Begin, Published, LaunchInv, Starting, Unstarted, Admitting
  <2>2. CASE s = i BY <2>2, <1>33, Names DEF Stop, Begin, Published, LaunchInv, Starting, Unstarted, Admitting
  <2>3. QED BY <2>1, <2>2
<1>34. ASSUME NEW c \in Child, StopLineage(c) PROVE LaunchInv(i)'
  BY <1>34 DEF StopLineage, LaunchInv, Starting, Unstarted, Admitting
<1>35. ASSUME NEW c \in Child, StopHold(c) PROVE LaunchInv(i)'
  BY <1>35 DEF StopHold, HoldReleased, LaunchInv, Starting, Unstarted, Admitting
<1>36. ASSUME ChildStopped PROVE LaunchInv(i)'
  BY <1>36 DEF ChildStopped, LaunchInv, Starting, Unstarted, Admitting
<1>37. ASSUME NEW c \in Child, StopChild(c) PROVE LaunchInv(i)'
  <2>1. CASE c # i BY <2>1, <1>37, Within, ClaimIs DEF StopChild, Fault, Loadable, Published, LaunchInv,
       Starting, Unstarted, Admitting
  <2>2. CASE c = i BY <2>2, <1>37, Within, ClaimIs DEF StopChild, Fault, Loadable, Published, LaunchInv,
       Starting, Unstarted, Admitting
  <2>3. QED BY <2>1, <2>2
<1>38. ASSUME NEW s \in Session, NEW j \in Job, StopJob(s, j) PROVE LaunchInv(i)'
  BY <1>38 DEF StopJob, LaunchInv, Starting, Unstarted, Admitting
<1>39. ASSUME NEW s \in Session, StopEnds(s) PROVE LaunchInv(i)'
  BY <1>39 DEF StopEnds, LaunchInv, Starting, Unstarted, Admitting
<1>40. ASSUME Lose PROVE LaunchInv(i)'
  BY <1>40 DEF Lose, LaunchInv, Starting, Unstarted, Admitting
<1>43. ASSUME NEW m \in Member, NEW c \in Child, DeliversInto(m, c) PROVE LaunchInv(i)'
  <2>. HIDE DEF GroupInv, TypeInv, TypeOK, Delivering, Endings
  <2>1. /\ m \in Job /\ Owner[m] = c /\ member[m] = "claimed" /\ launch[c] \notin Unstarted
        /\ UNCHANGED <<bg, member, pending, corrupt, launch, job, canceled, submit, settle, stop>>
        /\ UNCHANGED <<ctx, cast, submits, stops, quieted>>
        /\ ending[m] \in Delivering \cup {"deliver"} /\ ending'[m] \in Delivering \cup {"finish"}
        /\ \A x \in Member : x # m => ending'[x] = ending[x]
        /\ \A d \in Child : d # c => Apart(d)
    BY <1>43, Deliveries
  <2>2. LaunchInv(i) /\ (faults > 0 => faults' > 0)
    BY <1>43, Answers DEF GroupInv, TypeInv, Told, Fails, Refused, NoAnswer, Fault
  <2>3. CASE i # c BY <2>1, <2>2, <2>3, Names DEF LaunchInv, Apart
  <2>4. CASE i = c
    <3>1. c \in corrupt => ending[m] = "deliver" BY <2>1, <2>2, <2>4 DEF LaunchInv
    <3>2. ASSUME c \in corrupt PROVE ending'[m] = "finish" /\ run' = run /\ exec' = exec
      <4>1. ending[m] = "deliver" BY <3>1, <3>2
      <4>2. DeliverRoutes(m, c)
        BY <1>43, <4>1 DEF DeliversInto, DeliverReserves, DeliverReroutes, DeliverAdmits, DeliverInstalls, DeliverReleases
      <4>3. ending \in [Member -> Endings] BY DEF GroupInv, TypeInv
      <4>4. QED BY <3>2, <4>2, <4>3 DEF DeliverRoutes, Then, procs
    <3>3. launch[c] \notin {"absent", "none", "admitted"} \cup Starting \cup {"rejected"}
      BY <2>1 DEF Unstarted, Starting
    <3>4. QED BY <2>1, <2>2, <2>4, <3>2, <3>3, Names DEF LaunchInv, Delivering
  <2>5. QED BY <2>3, <2>4
<1>41. CASE UNCHANGED vars BY <1>41 DEF vars, LaunchInv, Starting, Unstarted, Admitting
<1>42. QED BY <1>1, <1>2, <1>3, <1>4, <1>5, <1>6, <1>7, <1>8, <1>9, <1>10, <1>11, <1>12, <1>13, <1>14,
     <1>15, <1>16, <1>17, <1>18, <1>19, <1>20, <1>21, <1>22, <1>23, <1>24, <1>25, <1>26, <1>27, <1>28,
     <1>29, <1>30, <1>31, <1>32, <1>33, <1>34, <1>35, <1>36, <1>37, <1>38, <1>39, <1>40, <1>41, <1>43 DEF Next,
     Launcher, JobStarter, Ending, Execution, Submits, Stopping

(* Every step keeps the run slot with the one execution before its drain. *)
LEMMA RunStep == GroupInv /\ [Next]_vars => \A i \in Child : RunInv(i)'
<1>. SUFFICES ASSUME GroupInv, [Next]_vars, NEW i \in Child PROVE RunInv(i)' OBVIOUS
<1>. USE DEF GroupInv, TypeInv, TypeOK, Delivering, Endings, cells, procs, env
<1>1. ASSUME NEW c \in Child, AdmitChild(c) PROVE RunInv(i)'
  BY <1>1 DEF AdmitChild, Admits, RunInv, Holding, Admitting
<1>2. ASSUME NEW c \in Child, CommitChild(c) PROVE RunInv(i)'
  BY <1>2 DEF CommitChild, Claim, Fault, LaunchInv, Unstarted, Starting, RunInv, Holding, Admitting
<1>3. ASSUME NEW c \in Child, HandChild(c) PROVE RunInv(i)'
  BY <1>3 DEF HandChild, HandoffHolds, RunInv, Holding, Admitting
<1>4. ASSUME NEW c \in Child, AdoptChild(c) PROVE RunInv(i)'
  BY <1>4 DEF AdoptChild, Fault, Claim, RunInv, Holding, Admitting
<1>5. ASSUME NEW c \in Child, StartChild(c) PROVE RunInv(i)'
  BY <1>5 DEF StartChild, Goto, LaunchInv, Unstarted, Starting, RunInv, Holding, Admitting
<1>6. ASSUME NEW c \in Child, SettleRejected(c) PROVE RunInv(i)'
  <2>1. CASE c # i BY <2>1, <1>6 DEF SettleRejected, Fault, LaunchInv, Unstarted, Starting, RunInv,
       Holding, Admitting
  <2>2. CASE c = i BY <2>2, <1>6 DEF SettleRejected, Fault, LaunchInv, Unstarted, Starting, RunInv,
       Holding, Admitting
  <2>3. QED BY <2>1, <2>2
<1>7. ASSUME NEW c \in Child, FinishRejected(c) PROVE RunInv(i)'
  BY <1>7 DEF FinishRejected, Claim, RunInv, Holding, Admitting
<1>8. ASSUME NEW c \in Child, SettleClaims(c) PROVE RunInv(i)'
  BY <1>8 DEF SettleClaims, Claim, RunInv, Holding, Admitting
<1>9. ASSUME NEW c \in Child, SubmitReserves(c) PROVE RunInv(i)'
  BY <1>9 DEF SubmitReserves, RunInv, Holding, Admitting
<1>10. ASSUME NEW c \in Child, SubmitRoutes(c) PROVE RunInv(i)'
  BY <1>10 DEF SubmitRoutes, RunInv, Holding, Admitting
<1>11. ASSUME NEW c \in Child, SubmitAdmits(c) PROVE RunInv(i)'
  <2>1. CASE c # i BY <2>1, <1>11 DEF SubmitAdmits, NextOp, Free, LaunchInv, Unstarted, Starting, RunInv,
       Holding, Admitting
  <2>2. CASE c = i BY <2>2, <1>11 DEF SubmitAdmits, NextOp, Free, LaunchInv, Unstarted, Starting, RunInv,
       Holding, Admitting
  <2>3. QED BY <2>1, <2>2
<1>12. ASSUME NEW c \in Child, SubmitInstalls(c) PROVE RunInv(i)'
  <2>1. CASE c # i BY <2>1, <1>12 DEF SubmitInstalls, Goto, RunInv, Holding, Admitting
  <2>2. CASE c = i
    <3>1. /\ submit[c] = "install" /\ submit'[c] = "release" /\ run'[c] = current[c]
          /\ Goto(c, current[c], "entry") /\ current' = current
      BY <1>12 DEF SubmitInstalls
    <3>2. /\ run[c] = 0 /\ current[c] # 0 /\ current[c] \in Ops /\ exec[c][current[c]] = "none"
          /\ \A p \in Ops : exec[c][p] \notin Holding
      BY <3>1, Names DEF RunInv, Admitting
    <3>3. /\ exec'[c][current[c]] = "entry"
          /\ \A p \in Ops : p # current[c] => exec'[c][p] = exec[c][p]
      BY <3>1, <3>2, GotoIs DEF Places
    <3>4. QED BY <2>2, <3>1, <3>2, <3>3 DEF RunInv, Holding, Admitting
  <2>3. QED BY <2>1, <2>2
<1>13. ASSUME NEW c \in Child, SubmitReleases(c) PROVE RunInv(i)'
  BY <1>13 DEF SubmitReleases, RunInv, Holding, Admitting
<1>14. ASSUME NEW j \in Job, ReserveJob(j) PROVE RunInv(i)'
  BY <1>14 DEF ReserveJob, Executing, RunInv, Holding, Admitting
<1>15. ASSUME NEW j \in Job, AdmitJob(j) PROVE RunInv(i)'
  BY <1>15 DEF AdmitJob, Admits, RunInv, Holding, Admitting
<1>16. ASSUME NEW j \in Job, HandJob(j) PROVE RunInv(i)'
  BY <1>16 DEF HandJob, Claim, HandoffHolds, RunInv, Holding, Admitting
<1>17. ASSUME NEW j \in Job, Spawn(j) PROVE RunInv(i)'
  BY <1>17 DEF Spawn, Claim, RunInv, Holding, Admitting
<1>18. ASSUME NEW j \in Job, JobReports(j) PROVE RunInv(i)'
  BY <1>18 DEF JobReports, Claim, RunInv, Holding, Admitting
<1>19. ASSUME NEW j \in Job, JobExits(j) PROVE RunInv(i)'
  BY <1>19 DEF JobExits, RunInv, Holding, Admitting
<1>20. ASSUME NEW m \in Member, DeliverToRoot(m) PROVE RunInv(i)'
  BY <1>20 DEF DeliverToRoot, Told, Fails, Refused, Then, Fault, RunInv, Holding, Admitting
<1>21. ASSUME NEW m \in Member, Finish(m) PROVE RunInv(i)'
  BY <1>21 DEF Finish, RunInv, Holding, Admitting
<1>22. ASSUME NEW m \in Member, FinishChecks(m) PROVE RunInv(i)'
  BY <1>22 DEF FinishChecks, CheckSettles, Decide, Fault, RunInv, Holding, Admitting
<1>23. ASSUME NEW c \in Child, NEW o \in Ops, Enter(c, o) PROVE RunInv(i)'
  BY <1>23 DEF Enter, Goto, RunInv, Holding, Admitting
<1>24. ASSUME NEW c \in Child, NEW o \in Ops, Reserve(c, o) PROVE RunInv(i)'
  BY <1>24 DEF Reserve, Goto, RunInv, Holding, Admitting
<1>25. ASSUME NEW c \in Child, NEW o \in Ops, CommitTerminal(c, o) PROVE RunInv(i)'
  <2>1. CASE c # i BY <2>1, <1>25 DEF CommitTerminal, Goto, RunInv, Holding, Admitting
  <2>2. CASE c = i
    <3>1. exec[c][o] = "settling" /\ UNCHANGED <<run, submit>> BY <1>25 DEF CommitTerminal
    <3>2. Goto(c, o, "drain") \/ Goto(c, o, "retire") BY <1>25 DEF CommitTerminal
    <3>3. exec'[c][o] \in {"drain", "retire"} /\ \A p \in Ops : p # o => exec'[c][p] = exec[c][p]
      BY <3>2, GotoIs DEF Places
    <3>4. QED BY <2>2, <3>1, <3>3, OwnSlot DEF RunInv, Holding, Admitting
  <2>3. QED BY <2>1, <2>2
<1>26. ASSUME NEW c \in Child, NEW o \in Ops, Drain(c, o) PROVE RunInv(i)'
  <2>1. CASE c # i BY <2>1, <1>26 DEF Drain, Goto, RunInv, Holding, Admitting
  <2>2. CASE c = i
    <3>1. exec[c][o] = "drain" /\ submit' = submit BY <1>26 DEF Drain
    <3>2. \/ exec' = exec /\ UNCHANGED <<run, current>>
          \/ Goto(c, o, "release") /\ run'[c] \in {0, run[c]} /\ current' = current
          \/ Goto(c, o, "install") /\ run' = run /\ current'[c] \in NextOp(c)
      BY <1>26, <3>1, OwnSlot DEF Drain, Holding
    <3>3. \A n \in NextOp(c) : n \in Ops /\ n # 0 /\ n # o /\ exec[c][n] = "none"
      BY <3>1, Names DEF NextOp, Free
    <3>4. \A l \in {"release", "install"} : Goto(c, o, l) =>
             exec'[c][o] = l /\ \A p \in Ops : p # o => exec'[c][p] = exec[c][p]
      BY GotoIs DEF Places
    <3>5. run[c] = o /\ o # 0 /\ submit[c] \notin Admitting
          /\ \A p \in Ops : p # o => exec[c][p] \notin Holding /\ run[c] # p
      BY <3>1, OwnSlot DEF Holding
    <3>6. CASE exec' = exec /\ UNCHANGED <<run, current>> BY <2>2, <3>1, <3>6 DEF RunInv
    <3>7. CASE Goto(c, o, "release") /\ run'[c] \in {0, run[c]} /\ current' = current
      <4>1. RunInv(c) /\ (current[c] # 0 => current[c] \in Ops) /\ o \in Ops /\ o # 0 BY Names
      <4>. HIDE DEF GroupInv, TypeInv, TypeOK
      <4>2. \A p \in Ops : exec'[c][p] \in Holding => run'[c] = p
        BY <2>2, <3>1, <3>4, <3>5, <3>7, Names, <4>1 DEF RunInv, Holding, Admitting
      <4>3. \A p \in Ops : run'[c] = p => exec'[c][p] \in Holding \cup {"release", "retire"}
        BY <2>2, <3>1, <3>4, <3>5, <3>7, Names, <4>1 DEF RunInv, Holding, Admitting
      <4>4. \A p \in Ops : exec'[c][p] = "install" => current'[c] # 0 /\ exec'[c][current'[c]] = "none"
        BY <2>2, <3>1, <3>4, <3>5, <3>7, Names, <4>1 DEF RunInv, Holding, Admitting
      <4>5. /\ submit'[c] \in Admitting => run'[c] = 0
            /\ submit'[c] = "admit" => current'[c] = 0
            /\ submit'[c] = "install" => current'[c] # 0 /\ exec'[c][current'[c]] = "none"
        BY <2>2, <3>1, <3>4, <3>5, <3>7, Names, <4>1 DEF RunInv, Holding, Admitting
      <4>6. QED BY <2>2, <4>2, <4>3, <4>4, <4>5 DEF RunInv
    <3>8. CASE Goto(c, o, "install") /\ run' = run /\ current'[c] \in NextOp(c)
      <4>1. RunInv(c) /\ (current[c] # 0 => current[c] \in Ops) /\ o \in Ops /\ o # 0 BY Names
      <4>. HIDE DEF GroupInv, TypeInv, TypeOK
      <4>2. \A p \in Ops : exec'[c][p] \in Holding => run'[c] = p
        BY <2>2, <3>1, <3>3, <3>4, <3>5, <3>8, <4>1 DEF RunInv, Holding, Admitting
      <4>3. \A p \in Ops : run'[c] = p => exec'[c][p] \in Holding \cup {"release", "retire"}
        BY <2>2, <3>1, <3>3, <3>4, <3>5, <3>8, <4>1 DEF RunInv, Holding, Admitting
      <4>4. \A p \in Ops : exec'[c][p] = "install" => current'[c] # 0 /\ exec'[c][current'[c]] = "none"
        BY <2>2, <3>1, <3>3, <3>4, <3>5, <3>8, <4>1 DEF RunInv, Holding, Admitting
      <4>5. /\ submit'[c] \in Admitting => run'[c] = 0
            /\ submit'[c] = "admit" => current'[c] = 0
            /\ submit'[c] = "install" => current'[c] # 0 /\ exec'[c][current'[c]] = "none"
        BY <2>2, <3>1, <3>3, <3>4, <3>5, <3>8, <4>1 DEF RunInv, Holding, Admitting
      <4>6. QED BY <2>2, <4>2, <4>3, <4>4, <4>5 DEF RunInv
    <3>9. QED BY <3>2, <3>6, <3>7, <3>8
  <2>3. QED BY <2>1, <2>2
<1>27. ASSUME NEW c \in Child, NEW o \in Ops, Install(c, o) PROVE RunInv(i)'
  <2>1. CASE c # i BY <2>1, <1>27 DEF Install, RunInv, Holding, Admitting
  <2>2. CASE c = i
    <3>1. /\ exec[c][o] = "install" /\ UNCHANGED <<current, submit>> /\ run'[c] = current[c]
          /\ \A p \in Ops : exec'[c][p] = IF p = current[c] THEN "entry"
                                         ELSE IF p = o THEN "release" ELSE exec[c][p]
      BY <1>27 DEF Install
    <3>2. current[c] # 0 /\ current[c] \in Ops /\ exec[c][current[c]] = "none" BY <3>1 DEF RunInv
    <3>3. submit[c] \notin Admitting /\ \A p \in Ops : p # o => exec[c][p] \notin Holding
      BY <3>1, OwnSlot DEF Holding
    <3>4. RunInv(c) /\ (current[c] # 0 => current[c] \in Ops) /\ o \in Ops /\ o # 0 BY Names
    <3>. HIDE DEF GroupInv, TypeInv, TypeOK
    <3>5. \A p \in Ops : exec'[c][p] \in Holding => run'[c] = p
      BY <3>1, <3>2, <3>3, <3>4 DEF RunInv, Holding, Admitting
    <3>6. \A p \in Ops : run'[c] = p => exec'[c][p] \in Holding \cup {"release", "retire"}
      BY <3>1, <3>2, <3>3, <3>4 DEF RunInv, Holding, Admitting
    <3>7. \A p \in Ops : exec'[c][p] = "install" => current'[c] # 0 /\ exec'[c][current'[c]] = "none"
      BY <3>1, <3>2, <3>3, <3>4 DEF RunInv, Holding, Admitting
    <3>8. /\ submit'[c] \in Admitting => run'[c] = 0
          /\ submit'[c] = "admit" => current'[c] = 0
          /\ submit'[c] = "install" => current'[c] # 0 /\ exec'[c][current'[c]] = "none"
      BY <3>1, <3>2, <3>3, <3>4 DEF RunInv, Holding, Admitting
    <3>9. QED BY <2>2, <3>5, <3>6, <3>7, <3>8 DEF RunInv
  <2>3. QED BY <2>1, <2>2
<1>28. ASSUME NEW c \in Child, NEW o \in Ops, Release(c, o) PROVE RunInv(i)'
  BY <1>28 DEF Release, Goto, RunInv, Holding, Admitting
<1>29. ASSUME NEW c \in Child, NEW o \in Ops, Retire(c, o) PROVE RunInv(i)'
  <2>1. CASE c # i BY <2>1, <1>29 DEF Retire, Goto, RunInv, Holding, Admitting
  <2>2. CASE c = i
    <3>1. /\ exec[c][o] = "retire" /\ Goto(c, o, "tail") /\ UNCHANGED <<current, submit>>
          /\ run'[c] = IF run[c] = o THEN 0 ELSE run[c]
      BY <1>29 DEF Retire
    <3>2. exec'[c][o] = "tail" /\ \A p \in Ops : p # o => exec'[c][p] = exec[c][p]
      BY <3>1, GotoIs DEF Places
    <3>3. RunInv(c) /\ (current[c] # 0 => current[c] \in Ops) /\ o \in Ops /\ o # 0 BY Names
    <3>. HIDE DEF GroupInv, TypeInv, TypeOK
    <3>4. \A p \in Ops : exec'[c][p] \in Holding => run'[c] = p
      BY <3>1, <3>2, Names, <3>3 DEF RunInv, Holding, Admitting
    <3>5. \A p \in Ops : run'[c] = p => exec'[c][p] \in Holding \cup {"release", "retire"}
      BY <3>1, <3>2, Names, <3>3 DEF RunInv, Holding, Admitting
    <3>6. \A p \in Ops : exec'[c][p] = "install" => current'[c] # 0 /\ exec'[c][current'[c]] = "none"
      BY <3>1, <3>2, Names, <3>3 DEF RunInv, Holding, Admitting
    <3>7. /\ submit'[c] \in Admitting => run'[c] = 0
          /\ submit'[c] = "admit" => current'[c] = 0
          /\ submit'[c] = "install" => current'[c] # 0 /\ exec'[c][current'[c]] = "none"
      BY <3>1, <3>2, Names, <3>3 DEF RunInv, Holding, Admitting
    <3>8. QED BY <2>2, <3>4, <3>5, <3>6, <3>7 DEF RunInv
  <2>3. QED BY <2>1, <2>2
<1>30. ASSUME NEW c \in Child, NEW o \in Ops, Tail(c, o) PROVE RunInv(i)'
  BY <1>30 DEF Tail, Goto, Decide, Fault, RunInv, Holding, Admitting
<1>31. ASSUME NEW c \in Child, NEW o \in Ops, CloseDone(c, o) PROVE RunInv(i)'
  BY <1>31 DEF CloseDone, Goto, RunInv, Holding, Admitting
<1>32. ASSUME NEW c \in Child, NEW o \in Ops, EndRun(c, o) PROVE RunInv(i)'
  BY <1>32 DEF EndRun, Goto, RunInv, Holding, Admitting
<1>33. ASSUME NEW s \in Session, Stop(s) PROVE RunInv(i)'
  BY <1>33 DEF Stop, Begin, RunInv, Holding, Admitting
<1>34. ASSUME NEW c \in Child, StopLineage(c) PROVE RunInv(i)'
  BY <1>34 DEF StopLineage, RunInv, Holding, Admitting
<1>35. ASSUME NEW c \in Child, StopHold(c) PROVE RunInv(i)'
  BY <1>35 DEF StopHold, HoldReleased, RunInv, Holding, Admitting
<1>36. ASSUME ChildStopped PROVE RunInv(i)'
  BY <1>36 DEF ChildStopped, RunInv, Holding, Admitting
<1>37. ASSUME NEW c \in Child, StopChild(c) PROVE RunInv(i)'
  BY <1>37 DEF StopChild, Claim, Fault, Loadable, RunInv, Holding, Admitting
<1>38. ASSUME NEW s \in Session, NEW j \in Job, StopJob(s, j) PROVE RunInv(i)'
  BY <1>38 DEF StopJob, RunInv, Holding, Admitting
<1>39. ASSUME NEW s \in Session, StopEnds(s) PROVE RunInv(i)'
  BY <1>39 DEF StopEnds, RunInv, Holding, Admitting
<1>40. ASSUME Lose PROVE RunInv(i)'
  BY <1>40 DEF Lose, RunInv, Holding, Admitting
<1>43. ASSUME NEW m \in Member, NEW c \in Child, DeliversInto(m, c) PROVE RunInv(i)'
  <2>. HIDE DEF GroupInv, TypeInv, TypeOK, Delivering, Endings
  <2>1. /\ m \in Job /\ Owner[m] = c /\ member[m] = "claimed" /\ launch[c] \notin Unstarted
        /\ UNCHANGED <<bg, member, pending, corrupt, launch, job, canceled, submit, settle, stop>>
        /\ UNCHANGED <<ctx, cast, submits, stops, quieted>>
        /\ ending[m] \in Delivering \cup {"deliver"} /\ ending'[m] \in Delivering \cup {"finish"}
        /\ \A x \in Member : x # m => ending'[x] = ending[x]
        /\ \A d \in Child : d # c => Apart(d)
    BY <1>43, Deliveries
  <2>2. RunInv(i) /\ HoldInv(i) /\ IntoInv(i) BY DEF GroupInv
  <2>3. CASE i # c BY <2>1, <2>2, <2>3 DEF RunInv, Apart
  <2>4. CASE i = c
    <3>1. ending[m] \in Admitting => /\ submit[c] \notin Admitting /\ run[c] = 0
                                     /\ \A o \in Ops : exec[c][o] \notin Holding
      <4>1. ending[m] \in Admitting => reserved[c] = m /\ run[c] = 0
        BY <2>1, <2>2, <2>4 DEF IntoInv, Admitting, Delivering
      <4>2. m \notin Int /\ \A o \in Ops : o # 0 BY <2>1, Names
      <4>3. QED BY <2>1, <2>2, <2>4, <4>1, <4>2 DEF HoldInv, RunInv
    <3>2. UNCHANGED submit BY <2>1
    <3>3. CASE UNCHANGED <<run, exec>> /\ ending'[m] # "install" /\ current' = current
      BY <2>2, <2>4, <3>2, <3>3 DEF RunInv
    <3>4. CASE /\ ending[m] = "admit" /\ ending'[m] = "install" /\ UNCHANGED <<run, exec, reserved, buffer>>
               /\ current'[c] \in Ops /\ current'[c] # 0 /\ exec[c][current'[c]] = "none"
      BY <2>2, <2>4, <3>1, <3>2, <3>4 DEF RunInv, Admitting, Holding
    <3>5. CASE /\ ending[m] = "install" /\ ending'[m] = "release" /\ UNCHANGED <<current, reserved, buffer>>
               /\ run'[c] = current[c] /\ exec'[c][current[c]] = "entry"
               /\ \A o \in Ops : o # current[c] => exec'[c][o] = exec[c][o]
      BY <2>2, <2>4, <3>1, <3>2, <3>5, Names DEF RunInv, Admitting, Holding
    <3>6. QED BY <1>43, <3>3, <3>4, <3>5, DeliveryRuns
  <2>5. QED BY <2>3, <2>4
<1>41. CASE UNCHANGED vars BY <1>41 DEF vars, RunInv, Holding, Admitting
<1>42. QED BY <1>1, <1>2, <1>3, <1>4, <1>5, <1>6, <1>7, <1>8, <1>9, <1>10, <1>11, <1>12, <1>13, <1>14,
     <1>15, <1>16, <1>17, <1>18, <1>19, <1>20, <1>21, <1>22, <1>23, <1>24, <1>25, <1>26, <1>27, <1>28,
     <1>29, <1>30, <1>31, <1>32, <1>33, <1>34, <1>35, <1>36, <1>37, <1>38, <1>39, <1>40, <1>41, <1>43 DEF Next,
     Launcher, JobStarter, Ending, Execution, Submits, Stopping

(* Every step keeps the admission reservation with its holder. *)
LEMMA HoldStep == GroupInv /\ [Next]_vars => \A i \in Child : HoldInv(i)'
<1>. SUFFICES ASSUME GroupInv, [Next]_vars, NEW i \in Child PROVE HoldInv(i)' OBVIOUS
<1>. USE DEF GroupInv, TypeInv, TypeOK, Delivering, Endings, cells, procs, env
<1>1. ASSUME NEW c \in Child, AdmitChild(c) PROVE HoldInv(i)'
  BY <1>1 DEF AdmitChild, Admits, HoldInv, Admitting
<1>2. ASSUME NEW c \in Child, CommitChild(c) PROVE HoldInv(i)'
  BY <1>2 DEF CommitChild, Claim, Fault, HoldInv, Admitting
<1>3. ASSUME NEW c \in Child, HandChild(c) PROVE HoldInv(i)'
  BY <1>3 DEF HandChild, HandoffHolds, HoldInv, Admitting
<1>4. ASSUME NEW c \in Child, AdoptChild(c) PROVE HoldInv(i)'
  BY <1>4 DEF AdoptChild, Fault, Claim, HoldInv, Admitting
<1>5. ASSUME NEW c \in Child, StartChild(c) PROVE HoldInv(i)'
  BY <1>5 DEF StartChild, Goto, LaunchInv, Unstarted, Starting, HoldInv, Admitting
<1>6. ASSUME NEW c \in Child, SettleRejected(c) PROVE HoldInv(i)'
  BY <1>6 DEF SettleRejected, Fault, HoldInv, Admitting
<1>7. ASSUME NEW c \in Child, FinishRejected(c) PROVE HoldInv(i)'
  BY <1>7 DEF FinishRejected, Claim, HoldInv, Admitting
<1>8. ASSUME NEW c \in Child, SettleClaims(c) PROVE HoldInv(i)'
  BY <1>8 DEF SettleClaims, Claim, HoldInv, Admitting
<1>9. ASSUME NEW c \in Child, SubmitReserves(c) PROVE HoldInv(i)'
  <2>1. CASE c # i BY <2>1, <1>9, Names DEF SubmitReserves, HoldInv, Admitting
  <2>2. CASE c = i BY <2>2, <1>9, Names DEF SubmitReserves, HoldInv, Admitting
  <2>3. QED BY <2>1, <2>2
<1>10. ASSUME NEW c \in Child, SubmitRoutes(c) PROVE HoldInv(i)'
  BY <1>10 DEF SubmitRoutes, HoldInv, Admitting
<1>11. ASSUME NEW c \in Child, SubmitAdmits(c) PROVE HoldInv(i)'
  BY <1>11 DEF SubmitAdmits, NextOp, Free, HoldInv, Admitting
<1>12. ASSUME NEW c \in Child, SubmitInstalls(c) PROVE HoldInv(i)'
  BY <1>12 DEF SubmitInstalls, Goto, RunInv, HoldInv, Admitting
<1>13. ASSUME NEW c \in Child, SubmitReleases(c) PROVE HoldInv(i)'
  <2>1. CASE c # i BY <2>1, <1>13, Names DEF SubmitReleases, HoldInv, Admitting
  <2>2. CASE c = i BY <2>2, <1>13, Names DEF SubmitReleases, HoldInv, Admitting
  <2>3. QED BY <2>1, <2>2
<1>14. ASSUME NEW j \in Job, ReserveJob(j) PROVE HoldInv(i)'
  BY <1>14 DEF ReserveJob, Executing, HoldInv, Admitting
<1>15. ASSUME NEW j \in Job, AdmitJob(j) PROVE HoldInv(i)'
  BY <1>15 DEF AdmitJob, Admits, HoldInv, Admitting
<1>16. ASSUME NEW j \in Job, HandJob(j) PROVE HoldInv(i)'
  BY <1>16 DEF HandJob, Claim, HandoffHolds, HoldInv, Admitting
<1>17. ASSUME NEW j \in Job, Spawn(j) PROVE HoldInv(i)'
  BY <1>17 DEF Spawn, Claim, HoldInv, Admitting
<1>18. ASSUME NEW j \in Job, JobReports(j) PROVE HoldInv(i)'
  BY <1>18 DEF JobReports, Claim, HoldInv, Admitting
<1>19. ASSUME NEW j \in Job, JobExits(j) PROVE HoldInv(i)'
  BY <1>19 DEF JobExits, HoldInv, Admitting
<1>20. ASSUME NEW m \in Member, DeliverToRoot(m) PROVE HoldInv(i)'
  BY <1>20 DEF DeliverToRoot, Told, Fails, Refused, Then, Fault, HoldInv, Admitting
<1>21. ASSUME NEW m \in Member, Finish(m) PROVE HoldInv(i)'
  BY <1>21 DEF Finish, HoldInv, Admitting
<1>22. ASSUME NEW m \in Member, FinishChecks(m) PROVE HoldInv(i)'
  BY <1>22 DEF FinishChecks, CheckSettles, Decide, Fault, HoldInv, Admitting
<1>23. ASSUME NEW c \in Child, NEW o \in Ops, Enter(c, o) PROVE HoldInv(i)'
  BY <1>23 DEF Enter, Goto, HoldInv, Admitting
<1>24. ASSUME NEW c \in Child, NEW o \in Ops, Reserve(c, o) PROVE HoldInv(i)'
  <2>1. CASE c # i BY <2>1, <1>24, Names DEF Reserve, Goto, HoldInv, Admitting
  <2>2. CASE c = i BY <2>2, <1>24, Names DEF Reserve, Goto, HoldInv, Admitting
  <2>3. QED BY <2>1, <2>2
<1>25. ASSUME NEW c \in Child, NEW o \in Ops, CommitTerminal(c, o) PROVE HoldInv(i)'
  BY <1>25 DEF CommitTerminal, Goto, Fault, HoldInv, Admitting
<1>26. ASSUME NEW c \in Child, NEW o \in Ops, Drain(c, o) PROVE HoldInv(i)'
  <2>1. CASE c # i BY <2>1, <1>26, Names DEF Drain, Goto, HoldInv, Admitting
  <2>2. CASE c = i BY <2>2, <1>26, Names DEF Drain, Goto, HoldInv, Admitting
  <2>3. QED BY <2>1, <2>2
<1>27. ASSUME NEW c \in Child, NEW o \in Ops, Install(c, o) PROVE HoldInv(i)'
  BY <1>27 DEF Install, RunInv, HoldInv, Admitting
<1>28. ASSUME NEW c \in Child, NEW o \in Ops, Release(c, o) PROVE HoldInv(i)'
  <2>1. CASE c # i BY <2>1, <1>28, Names DEF Release, Goto, HoldInv, Admitting
  <2>2. CASE c = i BY <2>2, <1>28, Names DEF Release, Goto, HoldInv, Admitting
  <2>3. QED BY <2>1, <2>2
<1>29. ASSUME NEW c \in Child, NEW o \in Ops, Retire(c, o) PROVE HoldInv(i)'
  BY <1>29 DEF Retire, Goto, HoldInv, Admitting
<1>30. ASSUME NEW c \in Child, NEW o \in Ops, Tail(c, o) PROVE HoldInv(i)'
  BY <1>30 DEF Tail, Goto, Decide, Fault, HoldInv, Admitting
<1>31. ASSUME NEW c \in Child, NEW o \in Ops, CloseDone(c, o) PROVE HoldInv(i)'
  BY <1>31 DEF CloseDone, Goto, HoldInv, Admitting
<1>32. ASSUME NEW c \in Child, NEW o \in Ops, EndRun(c, o) PROVE HoldInv(i)'
  BY <1>32 DEF EndRun, Goto, HoldInv, Admitting
<1>33. ASSUME NEW s \in Session, Stop(s) PROVE HoldInv(i)'
  BY <1>33 DEF Stop, Begin, HoldInv, Admitting
<1>34. ASSUME NEW c \in Child, StopLineage(c) PROVE HoldInv(i)'
  BY <1>34 DEF StopLineage, HoldInv, Admitting
<1>35. ASSUME NEW c \in Child, StopHold(c) PROVE HoldInv(i)'
  BY <1>35 DEF StopHold, HoldReleased, HoldInv, Admitting
<1>36. ASSUME ChildStopped PROVE HoldInv(i)'
  BY <1>36 DEF ChildStopped, HoldInv, Admitting
<1>37. ASSUME NEW c \in Child, StopChild(c) PROVE HoldInv(i)'
  BY <1>37 DEF StopChild, Claim, Fault, Loadable, HoldInv, Admitting
<1>38. ASSUME NEW s \in Session, NEW j \in Job, StopJob(s, j) PROVE HoldInv(i)'
  BY <1>38 DEF StopJob, HoldInv, Admitting
<1>39. ASSUME NEW s \in Session, StopEnds(s) PROVE HoldInv(i)'
  BY <1>39 DEF StopEnds, HoldInv, Admitting
<1>40. ASSUME Lose PROVE HoldInv(i)'
  BY <1>40 DEF Lose, HoldInv, Admitting
<1>43. ASSUME NEW m \in Member, NEW c \in Child, DeliversInto(m, c) PROVE HoldInv(i)'
  <2>. HIDE DEF GroupInv, TypeInv, TypeOK, Delivering, Endings
  <2>1. /\ m \in Job /\ Owner[m] = c /\ member[m] = "claimed" /\ launch[c] \notin Unstarted
        /\ UNCHANGED <<bg, member, pending, corrupt, launch, job, canceled, submit, settle, stop>>
        /\ UNCHANGED <<ctx, cast, submits, stops, quieted>>
        /\ ending[m] \in Delivering \cup {"deliver"} /\ ending'[m] \in Delivering \cup {"finish"}
        /\ \A x \in Member : x # m => ending'[x] = ending[x]
        /\ \A d \in Child : d # c => Apart(d)
    BY <1>43, Deliveries
  <2>2. HoldInv(i) /\ IntoInv(i) /\ m \notin Int /\ 0 \in Int /\ \A o \in Ops : o # 0 /\ o \in Int
    BY <2>1, Names DEF GroupInv
  <2>3. CASE i # c BY <2>1, <2>2, <2>3 DEF HoldInv, Apart
  <2>4. CASE i = c
    <3>1. \A o \in Ops : exec'[c][o] \in {"drain", "install", "release"} => exec[c][o] \in {"drain", "install", "release"}
      BY <1>43, DeliveryRuns
    <3>2. UNCHANGED submit BY <2>1
    <3>3. CASE UNCHANGED reserved BY <2>2, <2>4, <3>1, <3>2, <3>3 DEF HoldInv
    <3>4. CASE ending[m] = "idle" /\ ending'[m] = "reroute" /\ reserved[c] = 0 /\ reserved'[c] = m
      BY <2>2, <2>4, <3>1, <3>2, <3>4 DEF HoldInv
    <3>5. CASE ending[m] = "release" /\ ending'[m] = "finish" /\ reserved'[c] = 0
      <4>1. reserved[c] = m BY <2>1, <2>2, <2>4, <3>5 DEF IntoInv, Delivering
      <4>2. QED BY <2>2, <2>4, <3>1, <3>2, <3>5, <4>1 DEF HoldInv
    <3>6. QED BY <1>43, <3>3, <3>4, <3>5, DeliveryHolds
  <2>5. QED BY <2>3, <2>4
<1>41. CASE UNCHANGED vars BY <1>41 DEF vars, HoldInv, Admitting
<1>42. QED BY <1>1, <1>2, <1>3, <1>4, <1>5, <1>6, <1>7, <1>8, <1>9, <1>10, <1>11, <1>12, <1>13, <1>14,
     <1>15, <1>16, <1>17, <1>18, <1>19, <1>20, <1>21, <1>22, <1>23, <1>24, <1>25, <1>26, <1>27, <1>28,
     <1>29, <1>30, <1>31, <1>32, <1>33, <1>34, <1>35, <1>36, <1>37, <1>38, <1>39, <1>40, <1>41, <1>43 DEF Next,
     Launcher, JobStarter, Ending, Execution, Submits, Stopping

(* A step that is no delivery into a child begins none, and continues none. *)
LEMMA Undelivered ==
    ASSUME GroupInv, [Next]_vars, \A m \in Member, c \in Child : ~DeliversInto(m, c)
    PROVE  \A x \in Member : ending'[x] \in Delivering => ending'[x] = ending[x]
<1>. DEFINE Same == \A x \in Member : ending'[x] \in Delivering => ending'[x] = ending[x]
<1>. USE DEF cells
<1>0. TypeInv /\ ending \in [Member -> Endings] /\ {"deliver", "finish"} \cap Delivering = {} BY DEF GroupInv, TypeInv, Delivering
<1>1. ASSUME NEW c \in Child, AdmitChild(c) \/ HandChild(c) \/ StartChild(c) \/ SettleRejected(c) \/ SubmitReserves(c)
                              \/ Submits(c) \/ StopLineage(c) \/ StopHold(c)
      PROVE  Same
  BY <1>1 DEF AdmitChild, HandChild, StartChild, SettleRejected, SubmitReserves, Submits, SubmitRoutes, SubmitAdmits,
              SubmitInstalls, SubmitReleases, StopLineage, StopHold
<1>2. ASSUME NEW c \in Child, CommitChild(c) \/ AdoptChild(c) \/ FinishRejected(c) \/ SettleClaims(c) \/ StopChild(c)
      PROVE  Same
  <2>1. UNCHANGED ending \/ \E l \in {"deliver", "finish"} : Claim(c, l)
    BY <1>2 DEF CommitChild, AdoptChild, FinishRejected, SettleClaims, StopChild
  <2>2. QED BY <1>0, <2>1, Within, ClaimDelivers
<1>3. ASSUME NEW j \in Job, ReserveJob(j) \/ JobStarter(j) \/ JobExits(j)
      PROVE  Same
  <2>1. UNCHANGED ending \/ \E l \in {"deliver", "finish"} : Claim(j, l)
    BY <1>3 DEF ReserveJob, JobStarter, AdmitJob, HandJob, Spawn, JobReports, JobExits
  <2>2. QED BY <1>0, <2>1, Within, ClaimDelivers
<1>4. ASSUME NEW m \in Member, Ending(m) PROVE Same
  <2>1. DeliverToRoot(m) \/ Finish(m) \/ FinishChecks(m) BY <1>4 DEF Ending
  <2>2. QED BY <1>0, <2>1 DEF DeliverToRoot, Then, Finish, FinishChecks, CheckSettles, Delivering
<1>5. ASSUME NEW c \in Child, NEW o \in Ops, Execution(c, o) \/ EndRun(c, o) PROVE Same
  BY <1>5 DEF Execution, Enter, EndRun, Reserve, CommitTerminal, Drain, Install, Release, Retire, Tail, CloseDone
<1>6. ASSUME NEW s \in Session, Stop(s) \/ StopEnds(s) \/ (\E j \in Job : StopJob(s, j)) PROVE Same
  BY <1>6 DEF Stop, StopEnds, StopJob
<1>7. CASE ChildStopped \/ Lose \/ UNCHANGED vars BY <1>7 DEF ChildStopped, Lose, vars
<1>8. QED BY <1>1, <1>2, <1>3, <1>4, <1>5, <1>6, <1>7 DEF Next, Launcher, Stopping

(* A delivery that waits finds what it left: the reservation, and, while it
   admits, the run slot and the Operation. *)
Kept(j, c) ==
    /\ reserved'[c] = reserved[c]
    /\ ending[j] \in Admitting => run'[c] = 0 /\ current'[c] = current[c]
    /\ ending[j] = "install" => exec'[c][current[c]] = "none"
LEMMA DeliveryKeeps ==
    ASSUME GroupInv, [Next]_vars, \A m \in Member, c \in Child : ~DeliversInto(m, c),
           NEW j \in Job, NEW i \in Child, Owner[j] = i, ending[j] \in Delivering \ {"idle"}
    PROVE  Kept(j, i)
<1>1. /\ reserved[i] = j /\ (ending[j] \in Admitting => run[i] = 0)
      /\ ending[j] = "install" => current[i] # 0 /\ exec[i][current[i]] = "none"
  BY DEF GroupInv, IntoInv
<1>2. launch[i] \notin Unstarted
  <2>1. member[j] = "claimed" BY Within DEF GroupInv, TypeInv, TypeOK
  <2>2. QED BY <2>1 DEF GroupInv, JobInv
<1>3. reserved[i] \notin Int BY <1>1, Names
<1>4. submit[i] \notin Admitting \cup {"route", "release"} /\ \A o \in Ops : exec[i][o] \notin {"drain", "install", "release"}
  BY <1>3, Names DEF GroupInv, HoldInv
<1>5. ending[j] \in Admitting => \A o \in Ops : exec[i][o] # "settling"
  BY <1>1, Names, OwnSlot DEF Holding
<1>6. ending[j] = "install" => current[i] \in Ops BY <1>1 DEF GroupInv, TypeInv, TypeOK
<1>7. /\ exec \in [Child -> [Ops -> Places]] /\ run \in [Child -> Ops \cup {0}] /\ current \in [Child -> Ops \cup {0}]
      /\ reserved \in [Child -> Int \cup Job]
  BY DEF GroupInv, TypeInv, TypeOK
<1>8. CASE UNCHANGED <<reserved, run, current, exec>> BY <1>1, <1>8 DEF Kept
<1>. USE DEF cells, procs, env
<1>9. ASSUME NEW c \in Child, AdmitChild(c) \/ HandChild(c) \/ AdoptChild(c) \/ FinishRejected(c) \/ SettleClaims(c)
                              \/ SubmitRoutes(c) \/ StopLineage(c) \/ StopHold(c) \/ StopChild(c)
      PROVE  Kept(j, i)
  BY <1>8, <1>9 DEF AdmitChild, HandChild, AdoptChild, FinishRejected, SettleClaims, SubmitRoutes, StopLineage, StopHold, StopChild, procs
<1>10. ASSUME NEW k \in Job, ReserveJob(k) \/ AdmitJob(k) \/ HandJob(k) \/ Spawn(k) \/ JobReports(k) \/ JobExits(k)
      PROVE  Kept(j, i)
  BY <1>8, <1>10 DEF ReserveJob, AdmitJob, HandJob, Spawn, JobReports, JobExits
<1>11. ASSUME NEW m \in Member, DeliverToRoot(m) \/ Finish(m) \/ FinishChecks(m)
      PROVE  Kept(j, i)
  BY <1>8, <1>11 DEF DeliverToRoot, Finish, FinishChecks, CheckSettles
<1>12. ASSUME NEW s \in Session, Stop(s) \/ StopEnds(s) \/ (\E k \in Job : StopJob(s, k))
      PROVE  Kept(j, i)
  BY <1>8, <1>12 DEF Stop, StopEnds, StopJob
<1>13. CASE ChildStopped \/ Lose \/ UNCHANGED vars BY <1>8, <1>13 DEF ChildStopped, Lose, vars
<1>14. ASSUME NEW c \in Child, CommitChild(c) \/ StartChild(c) \/ SettleRejected(c) PROVE Kept(j, i)
  <2>1. c # i BY <1>2, <1>14 DEF CommitChild, StartChild, SettleRejected, Unstarted, Starting
  <2>2. UNCHANGED <<reserved, run[i], current[i], exec[i]>>
    BY <1>7, <1>14, <2>1 DEF CommitChild, StartChild, SettleRejected, Goto
  <2>3. QED BY <1>1, <2>2 DEF Kept
<1>15. ASSUME NEW c \in Child, SubmitReserves(c) \/ SubmitAdmits(c) \/ SubmitInstalls(c) \/ SubmitReleases(c) PROVE Kept(j, i)
  <2>1. c # i BY <1>3, <1>4, <1>15 DEF SubmitReserves, SubmitAdmits, SubmitInstalls, SubmitReleases, Admitting
  <2>2. UNCHANGED <<reserved[i], run[i], current[i], exec[i]>>
    BY <1>7, <1>15, <2>1 DEF SubmitReserves, SubmitAdmits, SubmitInstalls, SubmitReleases, Goto
  <2>3. QED BY <1>1, <2>2 DEF Kept
<1>16. ASSUME NEW c \in Child, NEW o \in Ops, Enter(c, o) \/ EndRun(c, o) \/ Tail(c, o) \/ CloseDone(c, o) \/ Retire(c, o)
      PROVE  Kept(j, i)
  <2>1. /\ UNCHANGED <<reserved, current>> /\ run'[i] \in {run[i], 0}
        /\ \A p \in Ops : exec[i][p] = "none" => exec'[i][p] = "none"
    BY <1>7, <1>16 DEF Enter, EndRun, Tail, CloseDone, Retire, Goto
  <2>2. QED BY <1>1, <1>6, <2>1 DEF Kept
<1>17. ASSUME NEW c \in Child, NEW o \in Ops, Reserve(c, o) PROVE Kept(j, i)
  <2>1. /\ UNCHANGED <<reserved[i], current, run>>
        /\ \A p \in Ops : exec[i][p] = "none" => exec'[i][p] = "none"
    BY <1>3, <1>7, <1>17 DEF Reserve, Goto
  <2>2. QED BY <1>1, <1>6, <2>1 DEF Kept
<1>18. ASSUME NEW c \in Child, NEW o \in Ops, CommitTerminal(c, o) PROVE Kept(j, i)
  <2>1. CASE c # i
    <3>1. UNCHANGED <<reserved, run, current[i], exec[i]>> BY <1>7, <1>18, <2>1 DEF CommitTerminal, Goto
    <3>2. QED BY <1>1, <3>1 DEF Kept
  <2>2. CASE c = i
    <3>1. exec[i][o] = "settling" /\ UNCHANGED reserved BY <1>18, <2>2 DEF CommitTerminal
    <3>2. QED BY <1>5, <3>1 DEF Kept, Admitting
  <2>3. QED BY <2>1, <2>2
<1>19. ASSUME NEW c \in Child, NEW o \in Ops, Drain(c, o) \/ Install(c, o) \/ Release(c, o) PROVE Kept(j, i)
  <2>1. c # i BY <1>4, <1>19 DEF Drain, Install, Release
  <2>2. UNCHANGED <<reserved[i], run[i], current[i], exec[i]>>
    BY <1>7, <1>19, <2>1 DEF Drain, Install, Release, Goto
  <2>3. QED BY <1>1, <2>2 DEF Kept
<1>20. \A m \in Member : ~(\E c \in Child : DeliversInto(m, c)) OBVIOUS
<1>21. QED BY <1>9, <1>10, <1>11, <1>12, <1>13, <1>14, <1>15, <1>16, <1>17, <1>18, <1>19, <1>20
     DEF Next, Launcher, JobStarter, Ending, Execution, Submits, Stopping

(* Every step keeps the deliveries into a child with their reservation. *)
LEMMA IntoStep == GroupInv /\ [Next]_vars => \A i \in Child : IntoInv(i)'
<1>. SUFFICES ASSUME GroupInv, [Next]_vars, NEW i \in Child, NEW j \in Job, Owner[j] = i
              PROVE  /\ ending'[j] \in Delivering \ {"idle"} => reserved'[i] = j
                     /\ ending'[j] \in Admitting => run'[i] = 0
                     /\ ending'[j] = "admit" => current'[i] = 0
                     /\ ending'[j] = "install" => current'[i] # 0 /\ exec'[i][current'[i]] = "none"
  BY DEF IntoInv
<1>0. IntoInv(i) /\ j \in Member /\ Admitting \subseteq Delivering \ {"idle"} BY Within DEF GroupInv, Admitting, Delivering
<1>1. CASE \A m \in Member, c \in Child : ~DeliversInto(m, c)
  <2>1. ending'[j] \in Delivering => ending'[j] = ending[j] BY <1>0, <1>1, Undelivered
  <2>2. ending'[j] \in Delivering \ {"idle"} => Kept(j, i) BY <1>1, <2>1, DeliveryKeeps
  <2>3. QED BY <1>0, <2>1, <2>2 DEF IntoInv, Kept, Admitting
<1>2. ASSUME NEW m \in Member, NEW c \in Child, DeliversInto(m, c)
      PROVE  /\ ending'[j] \in Delivering \ {"idle"} => reserved'[i] = j
             /\ ending'[j] \in Admitting => run'[i] = 0
             /\ ending'[j] = "admit" => current'[i] = 0
             /\ ending'[j] = "install" => current'[i] # 0 /\ exec'[i][current'[i]] = "none"
  <2>1. /\ m \in Job /\ Owner[m] = c /\ ending[m] \in Delivering \cup {"deliver"} /\ ending'[m] \in Delivering \cup {"finish"}
        /\ \A x \in Member : x # m => ending'[x] = ending[x]
        /\ \A d \in Child : d # c => Apart(d)
    BY <1>2, Deliveries
  <2>2. CASE i # c BY <1>0, <2>1, <2>2 DEF IntoInv, Apart
  <2>3. CASE i = c /\ j # m
    <3>1. ending'[j] = ending[j] BY <1>0, <2>1, <2>3
    <3>2. ending[j] \in Delivering \ {"idle"} => reserved[i] = j BY <1>0 DEF IntoInv
    <3>3. ending[j] \in Delivering \ {"idle"} => ending[m] \in {"deliver", "idle"}
      BY <1>0, <2>1, <2>3, <3>2 DEF IntoInv
    <3>4. j \notin Int /\ 0 \in Int BY Names
    <3>5. ending[j] \in Delivering \ {"idle"} => UNCHANGED <<reserved, run, exec, current>>
      <4>1. ending[m] \in {"deliver", "idle"} => UNCHANGED <<run, exec, current>> BY <1>2, DeliveryMoves
      <4>2. ending[m] \in {"deliver", "idle"} => UNCHANGED reserved \/ reserved[c] = 0 BY <1>2, DeliveryHolds DEF Delivering
      <4>3. QED BY <2>3, <3>2, <3>3, <3>4, <4>1, <4>2
    <3>6. QED BY <1>0, <2>3, <3>1, <3>5 DEF IntoInv, Admitting
  <2>4. CASE i = c /\ j = m
    <3>1. ending[m] \in Delivering \ {"idle"} => reserved[c] = m BY <1>0, <2>4 DEF IntoInv
    <3>2. ending'[m] \in Delivering \ {"idle"} => reserved'[c] = m
      BY <1>2, <3>1, DeliveryHolds DEF Delivering
    <3>3. ending'[m] = "admit" => current'[c] = 0 /\ run'[c] = 0 BY <1>2, DeliveryMoves DEF Active
    <3>4. ending'[m] = "install" => run'[c] = 0 /\ current'[c] # 0 /\ exec'[c][current'[c]] = "none"
      <4>1. ending[m] = "admit" => run[c] = 0 BY <1>0, <2>4 DEF IntoInv, Admitting
      <4>2. QED BY <1>2, <4>1, DeliveryRuns
    <3>5. QED BY <2>4, <3>2, <3>3, <3>4 DEF Admitting
  <2>5. QED BY <2>2, <2>3, <2>4
<1>3. QED BY <1>1, <1>2

(* Every step keeps the jobs of a child with the Engine that starts them. *)
LEMMA JobStep == GroupInv /\ [Next]_vars => \A i \in Job : JobInv(i)'
<1>. SUFFICES ASSUME GroupInv, [Next]_vars, NEW i \in Job PROVE JobInv(i)' OBVIOUS
<1>. USE DEF GroupInv, TypeInv, TypeOK, Delivering, Endings, cells, procs, env
<1>1. ASSUME NEW c \in Child, AdmitChild(c) PROVE JobInv(i)'
  <2>1. member'[i] = member[i] BY <1>1, Names DEF AdmitChild
  <2>2. \A d \in Child : launch[d] \notin Unstarted => launch'[d] \notin Unstarted
    BY <1>1 DEF AdmitChild, Unstarted, Starting
  <2>3. \A d \in Child, p \in Ops : exec[d][p] = "running" => exec'[d][p] = "running"
    BY <1>1 DEF AdmitChild
  <2>4. job' = job /\ JobInv(i) BY <1>1 DEF AdmitChild
  <2>. HIDE DEF GroupInv, TypeInv, TypeOK
  <2>5. QED BY <2>1, <2>2, <2>3, <2>4 DEF JobInv
<1>2. ASSUME NEW c \in Child, CommitChild(c) PROVE JobInv(i)'
  <2>1. member'[i] = member[i] BY <1>2, Names, ClaimIs DEF CommitChild, Fault
  <2>2. \A d \in Child : launch[d] \notin Unstarted => launch'[d] \notin Unstarted
    BY <1>2 DEF CommitChild, Unstarted, Starting
  <2>3. \A d \in Child, p \in Ops : exec[d][p] = "running" => exec'[d][p] = "running"
    BY <1>2 DEF CommitChild
  <2>4. job' = job /\ JobInv(i) BY <1>2 DEF CommitChild
  <2>. HIDE DEF GroupInv, TypeInv, TypeOK
  <2>5. QED BY <2>1, <2>2, <2>3, <2>4 DEF JobInv
<1>3. ASSUME NEW c \in Child, HandChild(c) PROVE JobInv(i)'
  BY <1>3 DEF HandChild, HandoffHolds, JobInv, Unspawned, Unstarted, Starting
<1>4. ASSUME NEW c \in Child, AdoptChild(c) PROVE JobInv(i)'
  <2>1. member'[i] = member[i] BY <1>4, Names, ClaimIs DEF AdoptChild, Fault
  <2>2. \A d \in Child : launch[d] \notin Unstarted => launch'[d] \notin Unstarted
    BY <1>4 DEF AdoptChild, Unstarted, Starting
  <2>3. \A d \in Child, p \in Ops : exec[d][p] = "running" => exec'[d][p] = "running"
    BY <1>4 DEF AdoptChild
  <2>4. job' = job /\ JobInv(i) BY <1>4 DEF AdoptChild
  <2>. HIDE DEF GroupInv, TypeInv, TypeOK
  <2>5. QED BY <2>1, <2>2, <2>3, <2>4 DEF JobInv
<1>5. ASSUME NEW c \in Child, StartChild(c) PROVE JobInv(i)'
  BY <1>5 DEF StartChild, Goto, JobInv, Unspawned, Unstarted, Starting
<1>6. ASSUME NEW c \in Child, SettleRejected(c) PROVE JobInv(i)'
  BY <1>6 DEF SettleRejected, Fault, JobInv, Unspawned, Unstarted, Starting
<1>7. ASSUME NEW c \in Child, FinishRejected(c) PROVE JobInv(i)'
  <2>1. member'[i] = member[i] BY <1>7, Names, ClaimIs DEF FinishRejected, Claim
  <2>2. \A d \in Child : launch[d] \notin Unstarted => launch'[d] \notin Unstarted
    BY <1>7 DEF FinishRejected, Unstarted, Starting
  <2>3. \A d \in Child, p \in Ops : exec[d][p] = "running" => exec'[d][p] = "running"
    BY <1>7 DEF FinishRejected
  <2>4. job' = job /\ JobInv(i) BY <1>7 DEF FinishRejected
  <2>. HIDE DEF GroupInv, TypeInv, TypeOK
  <2>5. QED BY <2>1, <2>2, <2>3, <2>4 DEF JobInv
<1>8. ASSUME NEW c \in Child, SettleClaims(c) PROVE JobInv(i)'
  <2>1. member'[i] = member[i] BY <1>8, Names, ClaimIs DEF SettleClaims, Claim
  <2>2. \A d \in Child : launch[d] \notin Unstarted => launch'[d] \notin Unstarted
    BY <1>8 DEF SettleClaims, Unstarted, Starting
  <2>3. \A d \in Child, p \in Ops : exec[d][p] = "running" => exec'[d][p] = "running"
    BY <1>8 DEF SettleClaims
  <2>4. job' = job /\ JobInv(i) BY <1>8 DEF SettleClaims
  <2>. HIDE DEF GroupInv, TypeInv, TypeOK
  <2>5. QED BY <2>1, <2>2, <2>3, <2>4 DEF JobInv
<1>9. ASSUME NEW c \in Child, SubmitReserves(c) PROVE JobInv(i)'
  BY <1>9 DEF SubmitReserves, JobInv, Unspawned, Unstarted, Starting
<1>10. ASSUME NEW c \in Child, SubmitRoutes(c) PROVE JobInv(i)'
  BY <1>10 DEF SubmitRoutes, JobInv, Unspawned, Unstarted, Starting
<1>11. ASSUME NEW c \in Child, SubmitAdmits(c) PROVE JobInv(i)'
  BY <1>11 DEF SubmitAdmits, NextOp, Free, JobInv, Unspawned, Unstarted, Starting
<1>12. ASSUME NEW c \in Child, SubmitInstalls(c) PROVE JobInv(i)'
  <2>1. member'[i] = member[i] BY <1>12 DEF SubmitInstalls
  <2>2. \A d \in Child : launch[d] \notin Unstarted => launch'[d] \notin Unstarted
    BY <1>12 DEF SubmitInstalls, Unstarted, Starting
  <2>3. \A d \in Child, p \in Ops : exec[d][p] = "running" => exec'[d][p] = "running"
    BY <1>12 DEF SubmitInstalls, Goto, RunInv
  <2>4. job' = job /\ JobInv(i) BY <1>12 DEF SubmitInstalls
  <2>. HIDE DEF GroupInv, TypeInv, TypeOK
  <2>5. QED BY <2>1, <2>2, <2>3, <2>4 DEF JobInv
<1>13. ASSUME NEW c \in Child, SubmitReleases(c) PROVE JobInv(i)'
  BY <1>13 DEF SubmitReleases, JobInv, Unspawned, Unstarted, Starting
<1>14. ASSUME NEW j \in Job, ReserveJob(j) PROVE JobInv(i)'
  <2>1. CASE j # i
    <3>1. member'[i] = member[i] /\ job'[i] = job[i] BY <1>14, <2>1, Names DEF ReserveJob
    <3>2. UNCHANGED <<launch, exec>> /\ JobInv(i) BY <1>14 DEF ReserveJob
    <3>. HIDE DEF GroupInv, TypeInv, TypeOK
    <3>3. QED BY <3>1, <3>2 DEF JobInv
  <2>2. CASE j = i
    <3>1. JobInv(i) /\ UNCHANGED <<launch, exec>> BY <1>14 DEF ReserveJob
    <3>2. job'[i] = "reserved" /\ member'[i] = member[i] /\ job[i] = "none" /\ Executing(Owner[i])
      BY <1>14, <2>2 DEF ReserveJob
    <3>3. Owner[i] \in Child => launch[Owner[i]] \notin Unstarted /\ \E o \in Ops : exec[Owner[i]][o] = "running"
      BY <3>2, Names DEF Executing, LaunchInv
    <3>. HIDE DEF GroupInv, TypeInv, TypeOK
    <3>4. QED BY <3>1, <3>2, <3>3 DEF JobInv
  <2>3. QED BY <2>1, <2>2
<1>15. ASSUME NEW j \in Job, AdmitJob(j) PROVE JobInv(i)'
  <2>1. CASE j # i
    <3>1. member'[i] = member[i] /\ job'[i] = job[i] BY <1>15, <2>1, Names DEF AdmitJob
    <3>2. UNCHANGED <<launch, exec>> /\ JobInv(i) BY <1>15 DEF AdmitJob
    <3>. HIDE DEF GroupInv, TypeInv, TypeOK
    <3>3. QED BY <3>1, <3>2 DEF JobInv
  <2>2. CASE j = i
    <3>1. JobInv(i) /\ UNCHANGED <<launch, exec>> BY <1>15 DEF AdmitJob
    <3>2. job[i] = "reserved" /\ job'[i] \in {"admitted", "handed", "over"} BY <1>15, <2>2 DEF AdmitJob
    <3>. HIDE DEF GroupInv, TypeInv, TypeOK
    <3>3. QED BY <3>1, <3>2 DEF JobInv, Unspawned
  <2>3. QED BY <2>1, <2>2
<1>16. ASSUME NEW j \in Job, HandJob(j) PROVE JobInv(i)'
  <2>1. CASE j # i
    <3>1. member'[i] = member[i] /\ job'[i] = job[i] BY <1>16, <2>1, Names, ClaimIs DEF HandJob
    <3>2. UNCHANGED <<launch, exec>> /\ JobInv(i) BY <1>16 DEF HandJob
    <3>. HIDE DEF GroupInv, TypeInv, TypeOK
    <3>3. QED BY <3>1, <3>2 DEF JobInv
  <2>2. CASE j = i
    <3>1. JobInv(i) /\ UNCHANGED <<launch, exec>> BY <1>16 DEF HandJob
    <3>2. job[i] = "admitted" /\ job'[i] \in {"admitted", "handed", "over"} BY <1>16, <2>2 DEF HandJob
    <3>. HIDE DEF GroupInv, TypeInv, TypeOK
    <3>3. QED BY <3>1, <3>2 DEF JobInv, Unspawned
  <2>3. QED BY <2>1, <2>2
<1>17. ASSUME NEW j \in Job, Spawn(j) PROVE JobInv(i)'
  <2>1. CASE j # i
    <3>1. member'[i] = member[i] /\ job'[i] = job[i] BY <1>17, <2>1, Names, ClaimIs DEF Spawn
    <3>2. UNCHANGED <<launch, exec>> /\ JobInv(i) BY <1>17 DEF Spawn
    <3>. HIDE DEF GroupInv, TypeInv, TypeOK
    <3>3. QED BY <3>1, <3>2 DEF JobInv
  <2>2. CASE j = i
    <3>1. JobInv(i) /\ UNCHANGED <<launch, exec>> BY <1>17 DEF Spawn
    <3>2. job[i] \in {"handed", "unreserved"} /\ job'[i] \in {"running", "over"} BY <1>17, <2>2 DEF Spawn
    <3>. HIDE DEF GroupInv, TypeInv, TypeOK
    <3>3. QED BY <3>1, <3>2 DEF JobInv, Unspawned
  <2>3. QED BY <2>1, <2>2
<1>18. ASSUME NEW j \in Job, JobReports(j) PROVE JobInv(i)'
  <2>1. CASE j # i
    <3>1. member'[i] = member[i] /\ job'[i] = job[i] BY <1>18, <2>1, Names, ClaimIs DEF JobReports
    <3>2. UNCHANGED <<launch, exec>> /\ JobInv(i) BY <1>18 DEF JobReports
    <3>. HIDE DEF GroupInv, TypeInv, TypeOK
    <3>3. QED BY <3>1, <3>2 DEF JobInv
  <2>2. CASE j = i
    <3>1. JobInv(i) /\ UNCHANGED <<launch, exec>> BY <1>18 DEF JobReports
    <3>2. job[i] \in {"exited"} /\ job'[i] \in {"running", "over"} BY <1>18, <2>2 DEF JobReports
    <3>. HIDE DEF GroupInv, TypeInv, TypeOK
    <3>3. QED BY <3>1, <3>2 DEF JobInv, Unspawned
  <2>3. QED BY <2>1, <2>2
<1>19. ASSUME NEW j \in Job, JobExits(j) PROVE JobInv(i)'
  BY <1>19 DEF JobExits, JobInv, Unspawned, Unstarted, Starting
<1>20. ASSUME NEW m \in Member, DeliverToRoot(m) PROVE JobInv(i)'
  BY <1>20 DEF DeliverToRoot, Told, Fails, Refused, Then, Fault, JobInv, Unspawned, Unstarted, Starting
<1>21. ASSUME NEW m \in Member, Finish(m) PROVE JobInv(i)'
  BY <1>21 DEF Finish, JobInv, Unspawned, Unstarted, Starting
<1>22. ASSUME NEW m \in Member, FinishChecks(m) PROVE JobInv(i)'
  BY <1>22 DEF FinishChecks, CheckSettles, Decide, Fault, JobInv, Unspawned, Unstarted, Starting
<1>23. ASSUME NEW c \in Child, NEW o \in Ops, Enter(c, o) PROVE JobInv(i)'
  BY <1>23 DEF Enter, Goto, JobInv, Unspawned, Unstarted, Starting
<1>24. ASSUME NEW c \in Child, NEW o \in Ops, Reserve(c, o) PROVE JobInv(i)'
  BY <1>24 DEF Reserve, Goto, JobInv, Unspawned, Unstarted, Starting
<1>25. ASSUME NEW c \in Child, NEW o \in Ops, CommitTerminal(c, o) PROVE JobInv(i)'
  BY <1>25 DEF CommitTerminal, Goto, Fault, JobInv, Unspawned, Unstarted, Starting
<1>26. ASSUME NEW c \in Child, NEW o \in Ops, Drain(c, o) PROVE JobInv(i)'
  <2>1. member'[i] = member[i] BY <1>26 DEF Drain
  <2>2. \A d \in Child : launch[d] \notin Unstarted => launch'[d] \notin Unstarted
    BY <1>26 DEF Drain, Unstarted, Starting
  <2>3. \A d \in Child, p \in Ops : exec[d][p] = "running" => exec'[d][p] = "running"
    <3>1. exec[c][o] = "drain" /\ (exec' = exec \/ \E l \in {"release", "install"} : Goto(c, o, l)) BY <1>26 DEF Drain
    <3>2. ASSUME NEW l \in {"release", "install"}, Goto(c, o, l)
          PROVE  \A d \in Child, p \in Ops : exec[d][p] = "running" => exec'[d][p] = "running"
      <4>1. exec'[c][o] = l /\ \A d \in Child, p \in Ops : d # c \/ p # o => exec'[d][p] = exec[d][p]
        BY <3>2, GotoIs DEF Places
      <4>2. QED BY <3>1, <4>1
    <3>3. QED BY <3>1, <3>2
  <2>4. job' = job /\ JobInv(i) BY <1>26 DEF Drain
  <2>. HIDE DEF GroupInv, TypeInv, TypeOK
  <2>5. QED BY <2>1, <2>2, <2>3, <2>4 DEF JobInv
<1>27. ASSUME NEW c \in Child, NEW o \in Ops, Install(c, o) PROVE JobInv(i)'
  <2>1. member'[i] = member[i] BY <1>27 DEF Install
  <2>2. \A d \in Child : launch[d] \notin Unstarted => launch'[d] \notin Unstarted
    BY <1>27 DEF Install, Unstarted, Starting
  <2>3. \A d \in Child, p \in Ops : exec[d][p] = "running" => exec'[d][p] = "running"
    BY <1>27 DEF Install, RunInv
  <2>4. job' = job /\ JobInv(i) BY <1>27 DEF Install
  <2>. HIDE DEF GroupInv, TypeInv, TypeOK
  <2>5. QED BY <2>1, <2>2, <2>3, <2>4 DEF JobInv
<1>28. ASSUME NEW c \in Child, NEW o \in Ops, Release(c, o) PROVE JobInv(i)'
  BY <1>28 DEF Release, Goto, JobInv, Unspawned, Unstarted, Starting
<1>29. ASSUME NEW c \in Child, NEW o \in Ops, Retire(c, o) PROVE JobInv(i)'
  BY <1>29 DEF Retire, Goto, JobInv, Unspawned, Unstarted, Starting
<1>30. ASSUME NEW c \in Child, NEW o \in Ops, Tail(c, o) PROVE JobInv(i)'
  BY <1>30 DEF Tail, Goto, Decide, Fault, JobInv, Unspawned, Unstarted, Starting
<1>31. ASSUME NEW c \in Child, NEW o \in Ops, CloseDone(c, o) PROVE JobInv(i)'
  BY <1>31 DEF CloseDone, Goto, JobInv, Unspawned, Unstarted, Starting
<1>32. ASSUME NEW c \in Child, NEW o \in Ops, EndRun(c, o) PROVE JobInv(i)'
  BY <1>32 DEF EndRun, Goto, JobInv, Unspawned, Unstarted, Starting
<1>33. ASSUME NEW s \in Session, Stop(s) PROVE JobInv(i)'
  BY <1>33 DEF Stop, Begin, JobInv, Unspawned, Unstarted, Starting
<1>34. ASSUME NEW c \in Child, StopLineage(c) PROVE JobInv(i)'
  BY <1>34 DEF StopLineage, JobInv, Unspawned, Unstarted, Starting
<1>35. ASSUME NEW c \in Child, StopHold(c) PROVE JobInv(i)'
  BY <1>35 DEF StopHold, HoldReleased, JobInv, Unspawned, Unstarted, Starting
<1>36. ASSUME ChildStopped PROVE JobInv(i)'
  BY <1>36 DEF ChildStopped, JobInv, Unspawned, Unstarted, Starting
<1>37. ASSUME NEW c \in Child, StopChild(c) PROVE JobInv(i)'
  <2>1. member'[i] = member[i] BY <1>37, Names, ClaimIs DEF StopChild, Claim
  <2>2. \A d \in Child : launch[d] \notin Unstarted => launch'[d] \notin Unstarted
    BY <1>37 DEF StopChild, Unstarted, Starting
  <2>3. \A d \in Child, p \in Ops : exec[d][p] = "running" => exec'[d][p] = "running"
    BY <1>37 DEF StopChild
  <2>4. job' = job /\ JobInv(i) BY <1>37 DEF StopChild
  <2>. HIDE DEF GroupInv, TypeInv, TypeOK
  <2>5. QED BY <2>1, <2>2, <2>3, <2>4 DEF JobInv
<1>38. ASSUME NEW s \in Session, NEW j \in Job, StopJob(s, j) PROVE JobInv(i)'
  BY <1>38 DEF StopJob, JobInv, Unspawned, Unstarted, Starting
<1>39. ASSUME NEW s \in Session, StopEnds(s) PROVE JobInv(i)'
  BY <1>39 DEF StopEnds, JobInv, Unspawned, Unstarted, Starting
<1>40. ASSUME Lose PROVE JobInv(i)'
  BY <1>40 DEF Lose, JobInv, Unspawned, Unstarted, Starting
<1>43. ASSUME NEW m \in Member, NEW c \in Child, DeliversInto(m, c) PROVE JobInv(i)'
  <2>. HIDE DEF GroupInv, TypeInv, TypeOK, Delivering, Endings
  <2>1. /\ m \in Job /\ Owner[m] = c /\ member[m] = "claimed" /\ launch[c] \notin Unstarted
        /\ UNCHANGED <<bg, member, pending, corrupt, launch, job, canceled, submit, settle, stop>>
        /\ UNCHANGED <<ctx, cast, submits, stops, quieted>>
        /\ ending[m] \in Delivering \cup {"deliver"} /\ ending'[m] \in Delivering \cup {"finish"}
        /\ \A x \in Member : x # m => ending'[x] = ending[x]
        /\ \A d \in Child : d # c => Apart(d)
    BY <1>43, Deliveries
  <2>2. JobInv(i) /\ exec \in [Child -> [Ops -> Places]] BY DEF GroupInv, TypeInv
  <2>3. \A o \in Ops : exec[c][o] = "running" => exec'[c][o] = "running"
    <3>1. IntoInv(c) BY DEF GroupInv
    <3>2. ending[m] = "install" => exec[c][current[c]] = "none" BY <2>1, <3>1 DEF IntoInv
    <3>3. QED BY <1>43, <3>2, DeliveryRuns
  <2>4. \A d \in Child : d # c => exec'[d] = exec[d] BY <2>1 DEF Apart
  <2>5. \A d \in Child : (\E o \in Ops : exec[d][o] = "running") => (\E o \in Ops : exec'[d][o] = "running")
    BY <2>3, <2>4
  <2>6. QED BY <2>1, <2>2, <2>5 DEF JobInv
<1>41. CASE UNCHANGED vars BY <1>41 DEF vars, JobInv, Unspawned, Unstarted, Starting
<1>42. QED BY <1>1, <1>2, <1>3, <1>4, <1>5, <1>6, <1>7, <1>8, <1>9, <1>10, <1>11, <1>12, <1>13, <1>14,
     <1>15, <1>16, <1>17, <1>18, <1>19, <1>20, <1>21, <1>22, <1>23, <1>24, <1>25, <1>26, <1>27, <1>28,
     <1>29, <1>30, <1>31, <1>32, <1>33, <1>34, <1>35, <1>36, <1>37, <1>38, <1>39, <1>40, <1>41, <1>43 DEF Next,
     Launcher, JobStarter, Ending, Execution, Submits, Stopping

(* Every step keeps the completion, failures apart. *)
LEMMA TellStep == GroupInv /\ [Next]_vars => \A i \in Child : TellInv(i)'
<1>. SUFFICES ASSUME GroupInv, [Next]_vars, NEW i \in Child PROVE TellInv(i)' OBVIOUS
<1>. USE DEF GroupInv, TypeInv, TypeOK, Delivering, Endings, cells, procs, env
<1>1. ASSUME NEW c \in Child, AdmitChild(c) PROVE TellInv(i)'
  BY <1>1 DEF AdmitChild, Admits, TellInv, Settled
<1>3. ASSUME NEW c \in Child, c # i, CommitChild(c) \/ StartChild(c) \/ SettleRejected(c) \/ FinishRejected(c)
                              \/ SettleClaims(c) \/ SubmitAdmits(c) \/ StopChild(c)
      PROVE  TellInv(i)'
  <2>1. UNCHANGED <<launch[i], settle[i], exec[i], current[i], ending[i], delivered[i], refused>>
    BY <1>3, Within, ClaimIs DEF CommitChild, StartChild, SettleRejected, FinishRejected, SettleClaims, SubmitAdmits, StopChild, Goto, Fault
  <2>2. TellInv(i) /\ (faults' = 0 => faults = 0) BY <1>3 DEF CommitChild, StartChild, SettleRejected, FinishRejected, SettleClaims, SubmitAdmits, StopChild, Fault
  <2>. HIDE DEF GroupInv, TypeInv, TypeOK
  <2>3. QED BY <2>1, <2>2 DEF TellInv
<1>10. ASSUME NEW c \in Child, NEW o \in Ops, c # i, CommitTerminal(c, o) \/ Drain(c, o) PROVE TellInv(i)'
  <2>1. UNCHANGED <<launch[i], settle[i], exec[i], current[i], ending[i], delivered[i], refused>>
    BY <1>10 DEF CommitTerminal, Drain, Goto
  <2>2. TellInv(i) /\ (faults' = 0 => faults = 0) BY <1>10 DEF CommitTerminal, Drain, Fault
  <2>. HIDE DEF GroupInv, TypeInv, TypeOK
  <2>3. QED BY <2>1, <2>2 DEF TellInv
<1>2. ASSUME NEW c \in Child, CommitChild(c) PROVE TellInv(i)'
  <2>1. CASE c # i BY <1>2, <2>1, <1>3
  <2>2. CASE c = i
    <3>1. /\ launch'[c] # "started" /\ UNCHANGED <<settle, exec>> /\ (faults' = 0 => faults = 0)
          /\ \A o \in Ops : exec[c][o] = "none"
      BY <1>2, <2>2 DEF CommitChild, Fault, LaunchInv, Unstarted
    <3>2. TellInv(i) BY DEF GroupInv
    <3>. HIDE DEF GroupInv, TypeInv, TypeOK
    <3>3. QED BY <2>2, <3>1, <3>2 DEF TellInv, Settled
  <2>3. QED BY <2>1, <2>2
<1>4. ASSUME NEW c \in Child, HandChild(c) \/ AdoptChild(c) PROVE TellInv(i)'
  BY <1>4 DEF HandChild, AdoptChild, Fault, Claim, TellInv, Settled
<1>5. ASSUME NEW c \in Child, StartChild(c) PROVE TellInv(i)'
  <2>1. CASE c # i BY <1>5, <2>1, <1>3
  <2>2. CASE c = i
    <3>1. Goto(c, 1, "entry") /\ UNCHANGED <<settle, current, ending, delivered, refused, faults>> BY <1>5 DEF StartChild
    <3>2. \A o \in Ops : exec'[c][o] = exec[c][o] \/ exec'[c][o] = "entry" BY <3>1, GotoIs, Within DEF Places
    <3>3. ending[c] = "none" BY <1>5, Within DEF StartChild, LaunchInv, Starting, LifeInv
    <3>4. TellInv(i) BY DEF GroupInv
    <3>. HIDE DEF GroupInv, TypeInv, TypeOK
    <3>5. QED BY <2>2, <3>1, <3>2, <3>3, <3>4 DEF TellInv, Settled
  <2>3. QED BY <2>1, <2>2
<1>6. ASSUME NEW c \in Child, SettleRejected(c) PROVE TellInv(i)'
  <2>1. CASE c # i BY <1>6, <2>1, <1>3
  <2>2. CASE c = i
    <3>1. /\ launch'[c] # "started" /\ UNCHANGED <<settle, exec>> /\ (faults' = 0 => faults = 0)
          /\ faults' = 0 => current'[c] = 0
      BY <1>6, <2>2 DEF SettleRejected, Fault
    <3>2. \A o \in Ops : o # 0 BY Names
    <3>3. TellInv(i) BY DEF GroupInv
    <3>. HIDE DEF GroupInv, TypeInv, TypeOK
    <3>4. QED BY <2>2, <3>1, <3>2, <3>3 DEF TellInv, Settled
  <2>3. QED BY <2>1, <2>2
<1>7. ASSUME NEW c \in Child, FinishRejected(c) PROVE TellInv(i)'
  <2>1. CASE c # i BY <1>7, <2>1, <1>3
  <2>2. CASE c = i
    <3>1. launch'[c] # "started" /\ UNCHANGED <<settle, exec, current, faults>> BY <1>7, <2>2 DEF FinishRejected
    <3>2. TellInv(i) BY DEF GroupInv
    <3>. HIDE DEF GroupInv, TypeInv, TypeOK
    <3>3. QED BY <2>2, <3>1, <3>2 DEF TellInv, Settled
  <2>3. QED BY <2>1, <2>2
<1>8. ASSUME NEW c \in Child, SettleClaims(c) PROVE TellInv(i)'
  <2>1. CASE c # i BY <1>8, <2>1, <1>3
  <2>2. CASE c = i
    <3>1. UNCHANGED <<launch, exec, current, faults, delivered, refused>> /\ settle'[c] = "claimed" BY <1>8 DEF SettleClaims
    <3>2. CASE settle[c] = "abandon"
      <4>1. faults # 0 BY <2>2, <3>2 DEF TellInv
      <4>2. QED BY <3>1, <4>1 DEF TellInv
    <3>3. CASE settle[c] = "deliver"
      <4>1. ending'[c] \in {"deliver", ending[c]} BY <1>8, <3>3, ClaimIs, Within DEF SettleClaims
      <4>2. TellInv(i) OBVIOUS
      <4>. HIDE DEF GroupInv, TypeInv, TypeOK
      <4>3. QED BY <2>2, <3>1, <4>1, <4>2 DEF TellInv
    <3>4. QED BY <1>8, <3>2, <3>3 DEF SettleClaims
  <2>3. QED BY <2>1, <2>2
<1>9. ASSUME NEW c \in Child, SubmitReserves(c) \/ SubmitRoutes(c) \/ SubmitReleases(c) \/ StopLineage(c) \/ StopHold(c)
      PROVE  TellInv(i)'
  BY <1>9 DEF SubmitReserves, SubmitRoutes, SubmitReleases, StopLineage, StopHold, TellInv, Settled
<1>11. ASSUME NEW c \in Child, SubmitAdmits(c) PROVE TellInv(i)'
  <2>1. CASE c # i BY <1>11, <2>1, <1>3
  <2>2. CASE c = i
    <3>1. UNCHANGED <<launch, exec, ending, faults, delivered, refused, settle>> BY <1>11 DEF SubmitAdmits
    <3>2. current'[c] = current[c] \/ exec[c][current'[c]] = "none" BY <1>11 DEF SubmitAdmits, NextOp, Free
    <3>3. TellInv(i) BY DEF GroupInv
    <3>. HIDE DEF GroupInv, TypeInv, TypeOK
    <3>4. QED BY <2>2, <3>1, <3>2, <3>3 DEF TellInv, Settled
  <2>3. QED BY <2>1, <2>2
<1>12. ASSUME NEW c \in Child, SubmitInstalls(c) PROVE TellInv(i)'
  BY <1>12 DEF SubmitInstalls, Goto, TellInv, Settled
<1>14. ASSUME NEW j \in Job, ReserveJob(j) \/ AdmitJob(j) \/ JobExits(j) PROVE TellInv(i)'
  BY <1>14 DEF ReserveJob, AdmitJob, JobExits, TellInv, Settled
<1>16. ASSUME NEW j \in Job, HandJob(j) \/ Spawn(j) \/ JobReports(j) PROVE TellInv(i)'
  <2>1. ending'[i] = ending[i] BY <1>16, Names, ClaimIs DEF HandJob, Spawn, JobReports
  <2>2. UNCHANGED <<launch, exec, current, faults, delivered, refused, settle>> /\ TellInv(i)
    BY <1>16 DEF HandJob, Spawn, JobReports
  <2>. HIDE DEF GroupInv, TypeInv, TypeOK
  <2>3. QED BY <2>1, <2>2 DEF TellInv
<1>20. ASSUME NEW m \in Member, DeliverToRoot(m) PROVE TellInv(i)'
  <2>0. TellInv(i) /\ UNCHANGED <<launch, exec, current, settle>> /\ (faults' = 0 => faults = 0)
    BY <1>20 DEF DeliverToRoot, Told, Fails, Refused, Fault
  <2>1. CASE m # i
    <3>1. UNCHANGED <<ending[i], delivered[i]>> /\ (i \in refused' <=> i \in refused)
      BY <1>20, <2>1, Within DEF DeliverToRoot, Told, Fails, Refused, Then, Fault
    <3>. HIDE DEF GroupInv, TypeInv, TypeOK
    <3>2. QED BY <2>0, <3>1 DEF TellInv
  <2>2. CASE m = i
    <3>1. delivered[i] = 0 /\ delivered \in [Member -> Nat] BY <1>20, <2>2, Within DEF DeliverToRoot, LifeInv, Untold
    <3>2. Told(m) \/ Fails(m) BY <1>20 DEF DeliverToRoot
    <3>. HIDE DEF GroupInv, TypeInv, TypeOK
    <3>3. faults' = 0 => faults = 0 BY <2>0
    <3>4. faults \in Nat BY DEF GroupInv, TypeInv
    <3>5. faults' = 0 => delivered'[i] = 1 \/ i \in refused'
      BY <2>2, <3>1, <3>2, <3>4, Within DEF Told, Fails, Refused, Fault
    <3>6. QED BY <2>0, <3>5 DEF TellInv
  <2>3. QED BY <2>1, <2>2
<1>21. ASSUME NEW m \in Member, Finish(m) PROVE TellInv(i)'
  BY <1>21 DEF Finish, TellInv, Settled
<1>22. ASSUME NEW m \in Member, FinishChecks(m) PROVE TellInv(i)'
  <2>1. PICK q \in Child : Decide(q, 0)
    BY <1>22, Names DEF FinishChecks, CheckSettles, LifeInv, Parent
  <2>2. faults' = 0 => faults = 0 /\ \A d \in Child : settle'[d] = settle[d] \/ settle'[d] = "deliver"
    <3>1. faults \in Nat /\ settle \in [Child -> {"none", "deliver", "abandon", "claimed"}] /\ (q \in corrupt => faults # 0)
      BY DEF LaunchInv
    <3>. HIDE DEF GroupInv, TypeInv, TypeOK
    <3>2. QED BY <2>1, <3>1 DEF Decide, Fault
  <2>3. ending'[i] # ending[i] => ending[i] = "check" /\ ending'[i] = "ended" BY <1>22, Within DEF FinishChecks, CheckSettles
  <2>4. UNCHANGED <<launch, exec, current, delivered, refused>> /\ TellInv(i) BY <1>22 DEF FinishChecks
  <2>. HIDE DEF GroupInv, TypeInv, TypeOK
  <2>5. QED BY <2>2, <2>3, <2>4 DEF TellInv
<1>23. ASSUME NEW c \in Child, NEW o \in Ops, Enter(c, o) \/ Reserve(c, o) \/ Release(c, o) \/ Retire(c, o)
                                              \/ CloseDone(c, o) \/ EndRun(c, o)
       PROVE  TellInv(i)'
  <2>1. CASE Enter(c, o) BY <2>1 DEF Enter, Goto, TellInv, Settled
  <2>2. CASE Reserve(c, o) BY <2>2 DEF Reserve, Goto, TellInv, Settled
  <2>3. CASE Release(c, o) BY <2>3 DEF Release, Goto, TellInv, Settled
  <2>4. CASE Retire(c, o) BY <2>4 DEF Retire, Goto, TellInv, Settled
  <2>5. CASE CloseDone(c, o) BY <2>5 DEF CloseDone, Goto, TellInv, Settled
  <2>6. CASE EndRun(c, o) BY <2>6 DEF EndRun, Goto, TellInv, Settled
  <2>7. QED BY <1>23, <2>1, <2>2, <2>3, <2>4, <2>5, <2>6
<1>25. ASSUME NEW c \in Child, NEW o \in Ops, CommitTerminal(c, o) PROVE TellInv(i)'
  <2>1. CASE c # i BY <1>25, <2>1, <1>10
  <2>2. CASE c = i
    <3>1. /\ UNCHANGED <<launch, ending, delivered, refused, settle>> /\ (faults' = 0 => faults = 0)
          /\ faults' = 0 => current'[c] = 0
      BY <1>25 DEF CommitTerminal, Fault
    <3>2. \A p \in Ops : p # 0 BY Names
    <3>3. TellInv(i) BY DEF GroupInv
    <3>. HIDE DEF GroupInv, TypeInv, TypeOK
    <3>4. QED BY <2>2, <3>1, <3>2, <3>3 DEF TellInv, Settled
  <2>3. QED BY <2>1, <2>2
<1>26. ASSUME NEW c \in Child, NEW o \in Ops, Drain(c, o) PROVE TellInv(i)'
  <2>1. CASE c # i BY <1>26, <2>1, <1>10
  <2>2. CASE c = i
    <3>1. UNCHANGED <<launch, ending, delivered, refused, settle, faults>> /\ exec[c][o] = "drain" BY <1>26 DEF Drain
    <3>2. exec' = exec \/ \E l \in {"release", "install"} : Goto(c, o, l) BY <1>26 DEF Drain
    <3>3. \A p \in Ops : p # o => exec'[c][p] = exec[c][p] BY <3>2, GotoIs DEF Places
    <3>4. current'[c] = current[c] \/ exec[c][current'[c]] = "none" BY <1>26 DEF Drain, NextOp, Free
    <3>5. TellInv(i) BY DEF GroupInv
    <3>. HIDE DEF GroupInv, TypeInv, TypeOK
    <3>6. QED BY <2>2, <3>1, <3>3, <3>4, <3>5 DEF TellInv, Settled
  <2>3. QED BY <2>1, <2>2
<1>27. ASSUME NEW c \in Child, NEW o \in Ops, Install(c, o) PROVE TellInv(i)'
  BY <1>27 DEF Install, TellInv, Settled
<1>30. ASSUME NEW c \in Child, NEW o \in Ops, Tail(c, o) PROVE TellInv(i)'
  <2>1. Decide(c, o) /\ Goto(c, o, "close") /\ exec[c][o] = "tail" BY <1>30 DEF Tail
  <2>2. faults' = 0 => o # current[c] BY <2>1 DEF Decide, Fault, TellInv, Settled
  <2>3. faults' = 0 => faults = 0 /\ \A d \in Child : settle'[d] = settle[d] \/ settle'[d] = "deliver"
    BY <2>1, <2>2 DEF Decide, Fault, LaunchInv
  <2>4. \A p \in Ops : exec'[i][p] = exec[i][p] \/ exec[i][p] = "tail" BY <2>1, GotoIs DEF Places
  <2>5. UNCHANGED <<launch, ending, current, delivered, refused>> /\ TellInv(i) BY <1>30 DEF Tail
  <2>. HIDE DEF GroupInv, TypeInv, TypeOK
  <2>6. QED BY <2>3, <2>4, <2>5 DEF TellInv, Settled
<1>33. ASSUME NEW s \in Session, Stop(s) \/ StopEnds(s) \/ (\E j \in Job : StopJob(s, j)) PROVE TellInv(i)'
  BY <1>33 DEF Stop, StopEnds, StopJob, TellInv, Settled
<1>37. ASSUME NEW c \in Child, StopChild(c) PROVE TellInv(i)'
  <2>1. CASE c # i BY <1>37, <2>1, <1>3
  <2>2. CASE c = i
    <3>1. UNCHANGED <<launch, exec, current, delivered, refused, settle>> /\ (faults' = 0 => faults = 0) BY <1>37 DEF StopChild, Fault
    <3>2. faults' = 0 => ending' = ending BY <1>37 DEF StopChild, Fault, LaunchInv
    <3>3. TellInv(i) BY DEF GroupInv
    <3>. HIDE DEF GroupInv, TypeInv, TypeOK
    <3>4. QED BY <2>2, <3>1, <3>2, <3>3 DEF TellInv, Settled
  <2>3. QED BY <2>1, <2>2
<1>43. ASSUME NEW m \in Member, NEW c \in Child, DeliversInto(m, c) PROVE TellInv(i)'
  <2>. HIDE DEF GroupInv, TypeInv, TypeOK, Delivering, Endings
  <2>1. /\ m \in Job /\ Owner[m] = c /\ member[m] = "claimed" /\ launch[c] \notin Unstarted
        /\ UNCHANGED <<bg, member, pending, corrupt, launch, job, canceled, submit, settle, stop>>
        /\ UNCHANGED <<ctx, cast, submits, stops, quieted>>
        /\ ending[m] \in Delivering \cup {"deliver"} /\ ending'[m] \in Delivering \cup {"finish"}
        /\ \A x \in Member : x # m => ending'[x] = ending[x]
        /\ \A d \in Child : d # c => Apart(d)
    BY <1>43, Deliveries
  <2>2. TellInv(i) /\ i # m /\ i \in Member BY <2>1, Names DEF GroupInv
  <2>3. /\ delivered'[i] = delivered[i] /\ (i \in refused' <=> i \in refused) /\ (faults' = 0 => faults = 0)
    BY <1>43, <2>2, Answers DEF Told, Fails, Refused, NoAnswer, Fault, GroupInv, TypeInv
  <2>4. \A o \in Ops : exec[i][o] \notin Settled \/ current[i] # o
        => exec'[i][o] \notin Settled \/ current'[i] # o
    <3>1. CASE i # c BY <2>1, <3>1 DEF Apart
    <3>2. CASE i = c BY <1>43, <3>2, DeliveryRuns DEF Settled
    <3>3. QED BY <3>1, <3>2
  <2>5. QED BY <2>1, <2>2, <2>3, <2>4 DEF TellInv
<1>41. CASE ChildStopped \/ Lose \/ UNCHANGED vars BY <1>41 DEF ChildStopped, Lose, vars, TellInv, Settled
<1>42. QED BY <1>1, <1>2, <1>4, <1>5, <1>6, <1>7, <1>8, <1>9, <1>11, <1>12, <1>14, <1>16, <1>20, <1>21,
     <1>22, <1>23, <1>25, <1>26, <1>27, <1>30, <1>33, <1>37, <1>43, <1>41 DEF Next, Launcher, JobStarter,
     Ending, Execution, Submits, Stopping

(* A job joins its group by its admission only, in a tool call. *)
LEMMA Joins ==
    ASSUME GroupInv, [Next]_vars, NEW j \in Job, member'[j] \in Present, member[j] \notin Present, Owner[j] \in Child
    PROVE  run[Owner[j]] # 0
<1>. DEFINE Same == member'[j] \in Present => member[j] \in Present
<1>0. /\ TypeInv /\ exec \in [Child -> [Ops -> Places]] /\ run \in [Child -> Ops \cup {0}]
      /\ current \in [Child -> Ops \cup {0}] /\ member \in [Member -> {"none", "live", "claimed", "done"}]
      /\ ending \in [Member -> Endings] /\ launch \in [Child -> Launches] /\ buffer \in [Child -> Nat]
      /\ reserved \in [Child -> Int \cup Job]
  BY DEF GroupInv, TypeInv, TypeOK
<1>. USE DEF cells, procs, env
<1>1. ASSUME NEW c \in Child, CommitChild(c) \/ AdoptChild(c) \/ FinishRejected(c) \/ SettleClaims(c) \/ StopChild(c)
      PROVE  Same
  <2>1. UNCHANGED member \/ \E l \in {"deliver", "finish"} : Claim(c, l)
    BY <1>1 DEF CommitChild, AdoptChild, FinishRejected, SettleClaims, StopChild
  <2>2. QED BY <1>0, <2>1, Within, ClaimStays
<1>2. ASSUME NEW c \in Child, AdmitChild(c) \/ HandChild(c) \/ StartChild(c) \/ SettleRejected(c) \/ SubmitReserves(c)
                              \/ Submits(c) \/ StopLineage(c) \/ StopHold(c)
      PROVE  Same
  BY <1>0, <1>2, Names DEF AdmitChild, HandChild, StartChild, SettleRejected, SubmitReserves, Submits, SubmitRoutes,
              SubmitAdmits, SubmitInstalls, SubmitReleases, StopLineage, StopHold
<1>3. ASSUME NEW k \in Job, ReserveJob(k) \/ HandJob(k) \/ Spawn(k) \/ JobReports(k) \/ JobExits(k)
      PROVE  Same
  <2>1. UNCHANGED member \/ \E l \in {"deliver", "finish"} : Claim(k, l)
    BY <1>3 DEF ReserveJob, HandJob, Spawn, JobReports, JobExits
  <2>2. QED BY <1>0, <2>1, Within, ClaimStays
<1>4. ASSUME NEW m \in Member, DeliverToRoot(m) \/ Finish(m) \/ FinishChecks(m) PROVE Same
  <2>1. UNCHANGED member \/ member' = [member EXCEPT ![m] = "done"] BY <1>4 DEF DeliverToRoot, Finish, FinishChecks
  <2>2. j \in Member BY Within
  <2>3. QED BY <1>0, <2>1, <2>2 DEF Present
<1>5. ASSUME NEW m \in Member, NEW c \in Child, DeliversInto(m, c) PROVE Same BY <1>5, Deliveries
<1>6. ASSUME NEW c \in Child, NEW o \in Ops, Execution(c, o) \/ EndRun(c, o) PROVE Same
  BY <1>6 DEF Execution, Enter, EndRun, Reserve, CommitTerminal, Drain, Install, Release, Retire, Tail, CloseDone
<1>7. ASSUME NEW s \in Session, Stop(s) \/ StopEnds(s) \/ (\E k \in Job : StopJob(s, k)) PROVE Same
  BY <1>7 DEF Stop, StopEnds, StopJob
<1>8. CASE ChildStopped \/ Lose \/ UNCHANGED vars BY <1>8 DEF ChildStopped, Lose, vars
<1>9. ASSUME NEW k \in Job, AdmitJob(k) PROVE run[Owner[j]] # 0
  <2>1. k = j BY <1>0, <1>9, Within DEF AdmitJob
  <2>2. job[j] = "reserved" BY <1>9, <2>1 DEF AdmitJob
  <2>3. PICK o \in Ops : exec[Owner[j]][o] = "running" BY <2>2 DEF GroupInv, JobInv, Unspawned
  <2>4. QED BY <2>3, OwnSlot DEF Holding
<1>10. QED BY <1>1, <1>2, <1>3, <1>4, <1>5, <1>6, <1>7, <1>8, <1>9 DEF Next, Launcher, JobStarter, Ending, Stopping

(* A started child at rest, with nobody's Submit under way, stays so. *)
LEMMA RestStays ==
    ASSUME GroupInv, [Next]_vars, NEW i \in Child, AtRest(i), launch[i] = "started", submit[i] \notin Admitting
    PROVE  AtRest(i)' /\ launch'[i] = "started"
<1>. DEFINE Still == current'[i] = 0 /\ run'[i] = 0 /\ launch'[i] = "started"
<1>0. /\ TypeInv /\ exec \in [Child -> [Ops -> Places]] /\ run \in [Child -> Ops \cup {0}]
      /\ current \in [Child -> Ops \cup {0}] /\ member \in [Member -> {"none", "live", "claimed", "done"}]
      /\ ending \in [Member -> Endings] /\ launch \in [Child -> Launches] /\ buffer \in [Child -> Nat]
      /\ reserved \in [Child -> Int \cup Job]
  BY DEF GroupInv, TypeInv, TypeOK
<1>. USE DEF cells, procs, env
<1>1. current[i] = 0 /\ run[i] = 0 BY DEF AtRest
<1>2. \A o \in Ops : exec[i][o] \notin Holding BY <1>1, Names, OwnSlot
<1>3. ASSUME NEW c \in Child, AdmitChild(c) \/ HandChild(c) \/ AdoptChild(c) \/ FinishRejected(c) \/ SettleClaims(c)
                              \/ StopLineage(c) \/ StopHold(c) \/ StopChild(c)
      PROVE  Still
  BY <1>0, <1>1, <1>3 DEF AdmitChild, HandChild, AdoptChild, FinishRejected, SettleClaims, StopLineage, StopHold, StopChild
<1>4. ASSUME NEW c \in Child, CommitChild(c) \/ StartChild(c) \/ SettleRejected(c) PROVE Still
  BY <1>0, <1>1, <1>4 DEF CommitChild, StartChild, SettleRejected
<1>5. ASSUME NEW c \in Child, SubmitReserves(c) \/ Submits(c) PROVE Still
  BY <1>0, <1>1, <1>5 DEF SubmitReserves, Submits, SubmitRoutes, SubmitAdmits, SubmitInstalls, SubmitReleases, Admitting
<1>6. ASSUME NEW k \in Job, ReserveJob(k) \/ JobStarter(k) \/ JobExits(k) PROVE Still
  BY <1>1, <1>6 DEF ReserveJob, JobStarter, AdmitJob, HandJob, Spawn, JobReports, JobExits
<1>7. ASSUME NEW m \in Member, DeliverToRoot(m) \/ Finish(m) \/ FinishChecks(m) PROVE Still
  BY <1>1, <1>7 DEF DeliverToRoot, Finish, FinishChecks
<1>8. ASSUME NEW m \in Member, NEW c \in Child, DeliversInto(m, c) PROVE Still
  <2>1. /\ m \in Job /\ Owner[m] = c /\ member[m] = "claimed" /\ UNCHANGED launch
        /\ \A d \in Child : d # c => Apart(d)
    BY <1>8, Deliveries
  <2>2. c # i BY <2>1 DEF AtRest, Present
  <2>3. QED BY <1>1, <2>1, <2>2 DEF Apart
<1>9. ASSUME NEW c \in Child, NEW o \in Ops, Enter(c, o) \/ EndRun(c, o) \/ Reserve(c, o) \/ CommitTerminal(c, o)
                                            \/ Release(c, o) \/ Retire(c, o) \/ Tail(c, o) \/ CloseDone(c, o)
      PROVE  Still
  BY <1>0, <1>1, <1>9 DEF Enter, EndRun, Reserve, CommitTerminal, Release, Retire, Tail, CloseDone
<1>10. ASSUME NEW c \in Child, NEW o \in Ops, Drain(c, o) \/ Install(c, o) PROVE Still
  BY <1>0, <1>1, <1>2, <1>10 DEF Drain, Install, Holding
<1>11. ASSUME NEW s \in Session, Stop(s) \/ StopEnds(s) \/ (\E k \in Job : StopJob(s, k)) PROVE Still
  BY <1>1, <1>11 DEF Stop, StopEnds, StopJob
<1>12. ASSUME ChildStopped \/ Lose \/ UNCHANGED vars PROVE Still
  <2>1. current'[i] = current[i] /\ run'[i] = run[i] /\ launch'[i] = launch[i] BY <1>12 DEF ChildStopped, Lose, vars
  <2>2. launch[i] = "started" OBVIOUS
  <2>3. QED BY <1>1, <2>1, <2>2
<1>13. Still BY <1>3, <1>4, <1>5, <1>6, <1>7, <1>8, <1>9, <1>10, <1>11, <1>12
     DEF Next, Launcher, Ending, Execution, Stopping
<1>14. \A j \in Job : Owner[j] = i => member'[j] \notin Present BY <1>1, Joins DEF AtRest
<1>15. QED BY <1>13, <1>14 DEF AtRest

(* A completion is taken for the parent by childCompletionSettled only. *)
LEMMA Reports ==
    ASSUME GroupInv, [Next]_vars, NEW i \in Child, Reporting(i)', ~Reporting(i)
    PROVE  Quiet(i) /\ launch[i] = "started"
<1>. DEFINE Not == ~Reporting(i)'
<1>0. /\ TypeInv /\ exec \in [Child -> [Ops -> Places]] /\ run \in [Child -> Ops \cup {0}]
      /\ current \in [Child -> Ops \cup {0}] /\ member \in [Member -> {"none", "live", "claimed", "done"}]
      /\ ending \in [Member -> Endings] /\ launch \in [Child -> Launches] /\ buffer \in [Child -> Nat]
      /\ reserved \in [Child -> Int \cup Job]
  BY DEF GroupInv, TypeInv, TypeOK
<1>. USE DEF cells, procs, env
<1>1. settle[i] # "deliver" /\ ending[i] # "deliver" BY DEF Reporting
<1>2. settle \in [Child -> {"none", "deliver", "abandon", "claimed"}] /\ i \in Member BY Within DEF GroupInv, TypeInv
<1>3. ASSUME NEW c \in Child, AdmitChild(c) \/ HandChild(c) \/ StartChild(c) \/ SettleRejected(c) \/ SubmitReserves(c)
                              \/ Submits(c) \/ StopLineage(c) \/ StopHold(c)
      PROVE  Not
  BY <1>1, <1>3 DEF AdmitChild, HandChild, StartChild, SettleRejected, SubmitReserves, Submits, SubmitRoutes, SubmitAdmits,
              SubmitInstalls, SubmitReleases, StopLineage, StopHold, Reporting
<1>4. ASSUME NEW c \in Child, CommitChild(c) \/ AdoptChild(c) \/ FinishRejected(c) \/ StopChild(c)
      PROVE  Not
  <2>1. UNCHANGED ending \/ Claim(c, "finish") BY <1>4 DEF CommitChild, AdoptChild, FinishRejected, StopChild
  <2>2. ending'[i] # "deliver" BY <1>0, <1>1, <1>2, <2>1 DEF Claim
  <2>3. UNCHANGED settle BY <1>4 DEF CommitChild, AdoptChild, FinishRejected, StopChild
  <2>4. QED BY <1>1, <2>2, <2>3 DEF Reporting
<1>5. ASSUME NEW c \in Child, SettleClaims(c) PROVE Not
  <2>1. settle'[i] # "deliver" BY <1>1, <1>2, <1>5 DEF SettleClaims
  <2>2. ending'[i] # "deliver" BY <1>0, <1>1, <1>2, <1>5, Within DEF SettleClaims, Claim
  <2>3. QED BY <2>1, <2>2 DEF Reporting
<1>6. ASSUME NEW k \in Job, ReserveJob(k) \/ JobStarter(k) \/ JobExits(k) PROVE Not
  <2>1. UNCHANGED ending \/ \E l \in {"deliver", "finish"} : Claim(k, l)
    BY <1>6 DEF ReserveJob, JobStarter, AdmitJob, HandJob, Spawn, JobReports, JobExits
  <2>2. i # k /\ k \in Member BY Names
  <2>3. ending'[i] = ending[i] BY <1>0, <1>2, <2>1, <2>2, ClaimIs
  <2>4. UNCHANGED settle BY <1>6 DEF ReserveJob, JobStarter, AdmitJob, HandJob, Spawn, JobReports, JobExits
  <2>5. QED BY <1>1, <2>3, <2>4 DEF Reporting
<1>7. ASSUME NEW m \in Member, DeliverToRoot(m) \/ Finish(m) PROVE Not
  BY <1>0, <1>1, <1>2, <1>7 DEF DeliverToRoot, Then, Finish, Reporting
<1>8. ASSUME NEW m \in Member, NEW c \in Child, DeliversInto(m, c) PROVE Not
  <2>1. m # i /\ UNCHANGED settle /\ \A x \in Member : x # m => ending'[x] = ending[x] BY <1>8, Deliveries, Names
  <2>2. QED BY <1>1, <1>2, <2>1 DEF Reporting
<1>9. ASSUME NEW c \in Child, NEW o \in Ops, Enter(c, o) \/ EndRun(c, o) \/ Reserve(c, o) \/ CommitTerminal(c, o)
                   \/ Drain(c, o) \/ Install(c, o) \/ Release(c, o) \/ Retire(c, o) \/ CloseDone(c, o)
      PROVE  Not
  BY <1>1, <1>9 DEF Enter, EndRun, Reserve, CommitTerminal, Drain, Install, Release, Retire, CloseDone, Reporting
<1>10. ASSUME NEW s \in Session, Stop(s) \/ StopEnds(s) \/ (\E k \in Job : StopJob(s, k)) PROVE Not
  BY <1>1, <1>10 DEF Stop, StopEnds, StopJob, Reporting
<1>11. CASE ChildStopped \/ Lose \/ UNCHANGED vars BY <1>1, <1>11 DEF ChildStopped, Lose, vars, Reporting
<1>12. ASSUME NEW m \in Member, FinishChecks(m) PROVE Quiet(i) /\ launch[i] = "started"
  <2>1. ending'[i] # "deliver" BY <1>0, <1>1, <1>2, <1>12 DEF FinishChecks, CheckSettles
  <2>2. settle'[i] = "deliver" BY <2>1 DEF Reporting
  <2>3. m \in Job /\ Owner[m] \in Child /\ Parent(m) = Owner[m] /\ member[m] # "none"
    BY <1>12, Names DEF FinishChecks, CheckSettles, GroupInv, LifeInv, Parent
  <2>4. Decide(Owner[m], 0) BY <1>12, <2>3 DEF FinishChecks, CheckSettles
  <2>5. i = Owner[m] /\ i \in pending /\ Quiet(i) BY <1>1, <1>2, <2>2, <2>3, <2>4 DEF Decide
  <2>6. launch[i] \notin Unstarted BY <2>3, <2>5 DEF GroupInv, JobInv
  <2>7. QED BY <2>5, <2>6 DEF GroupInv, LaunchInv, Unstarted, Starting
<1>13. ASSUME NEW c \in Child, NEW o \in Ops, Tail(c, o) PROVE Quiet(i) /\ launch[i] = "started"
  <2>1. Decide(c, o) /\ UNCHANGED ending /\ exec[c][o] = "tail" BY <1>13 DEF Tail
  <2>2. settle'[i] = "deliver" BY <1>1, <2>1 DEF Reporting
  <2>3. i = c /\ i \in pending /\ Quiet(i) BY <1>1, <1>2, <2>1, <2>2 DEF Decide
  <2>4. launch[i] \notin Unstarted BY <2>1, <2>3 DEF GroupInv, LaunchInv
  <2>5. QED BY <2>3, <2>4 DEF GroupInv, LaunchInv, Unstarted, Starting
<1>14. QED BY <1>3, <1>4, <1>5, <1>6, <1>7, <1>8, <1>9, <1>10, <1>11, <1>12, <1>13
     DEF Next, Launcher, Ending, Execution, Stopping

(* Nobody submits before the first Submit. *)
LEMMA NobodySubmits ==
    ASSUME GroupInv, [Next]_vars, NEW i \in Child, submits' = 0
    PROVE  submits = 0 /\ UNCHANGED submit /\ \A c \in Child : ~Submits(c) /\ ~SubmitReserves(c)
<1>0. /\ TypeInv /\ exec \in [Child -> [Ops -> Places]] /\ run \in [Child -> Ops \cup {0}]
      /\ current \in [Child -> Ops \cup {0}] /\ member \in [Member -> {"none", "live", "claimed", "done"}]
      /\ ending \in [Member -> Endings] /\ launch \in [Child -> Launches] /\ buffer \in [Child -> Nat]
      /\ reserved \in [Child -> Int \cup Job]
  BY DEF GroupInv, TypeInv, TypeOK
<1>. USE DEF cells, procs, env
<1>1. submits \in Nat BY DEF GroupInv, TypeInv
<1>2. ASSUME NEW c \in Child PROVE ~SubmitReserves(c) BY <1>1 DEF SubmitReserves
<1>3. submits = 0
  <2>1. UNCHANGED submits \/ \E c \in Child : SubmitReserves(c)
    <3>1. ASSUME NEW c \in Child, AdmitChild(c) \/ Launcher(c) \/ SettleClaims(c) \/ Submits(c) PROVE UNCHANGED submits
      BY <3>1 DEF AdmitChild, Launcher, CommitChild, HandChild, AdoptChild, StartChild, SettleRejected, FinishRejected,
         SettleClaims, Submits, SubmitRoutes, SubmitAdmits, SubmitInstalls, SubmitReleases
    <3>2. ASSUME NEW j \in Job, ReserveJob(j) \/ JobStarter(j) \/ JobExits(j) PROVE UNCHANGED submits
      BY <3>2 DEF ReserveJob, JobStarter, AdmitJob, HandJob, Spawn, JobReports, JobExits
    <3>3. ASSUME NEW m \in Member, DeliverToRoot(m) \/ Finish(m) \/ FinishChecks(m) PROVE UNCHANGED submits
      BY <3>3 DEF DeliverToRoot, Finish, FinishChecks
    <3>4. ASSUME NEW m \in Member, NEW c \in Child, DeliversInto(m, c) PROVE UNCHANGED submits BY <3>4, Deliveries
    <3>5. ASSUME NEW c \in Child, NEW o \in Ops, Execution(c, o) \/ EndRun(c, o) PROVE UNCHANGED submits
      BY <3>5 DEF Execution, Enter, EndRun, Reserve, CommitTerminal, Drain, Install, Release, Retire, Tail, CloseDone
    <3>6. ASSUME NEW s \in Session, Stop(s) \/ Stopping(s) PROVE UNCHANGED submits
      BY <3>6 DEF Stop, Stopping, StopLineage, StopHold, StopChild, ChildStopped, StopEnds, StopJob
    <3>7. CASE Lose \/ UNCHANGED vars BY <3>7 DEF Lose, vars
    <3>8. QED BY <3>1, <3>2, <3>3, <3>4, <3>5, <3>6, <3>7 DEF Next, Ending
  <2>2. QED BY <1>2, <2>1
<1>4. ASSUME NEW c \in Child PROVE ~Submits(c)
  <2>1. submit[c] \in {"absent", "idle"} BY <1>3 DEF GroupInv, ReportInv
  <2>2. QED BY <2>1 DEF Submits, SubmitRoutes, SubmitAdmits, SubmitInstalls, SubmitReleases
<1>5. UNCHANGED submit
  <2>1. ASSUME NEW c \in Child, AdmitChild(c) \/ Launcher(c) \/ SettleClaims(c) PROVE UNCHANGED submit
    BY <2>1 DEF AdmitChild, Launcher, CommitChild, HandChild, AdoptChild, StartChild, SettleRejected, FinishRejected, SettleClaims
  <2>2. ASSUME NEW j \in Job, ReserveJob(j) \/ JobStarter(j) \/ JobExits(j) PROVE UNCHANGED submit
    BY <2>2 DEF ReserveJob, JobStarter, AdmitJob, HandJob, Spawn, JobReports, JobExits
  <2>3. ASSUME NEW m \in Member, DeliverToRoot(m) \/ Finish(m) \/ FinishChecks(m) PROVE UNCHANGED submit
    BY <2>3 DEF DeliverToRoot, Finish, FinishChecks
  <2>4. ASSUME NEW m \in Member, NEW c \in Child, DeliversInto(m, c) PROVE UNCHANGED submit BY <2>4, Deliveries
  <2>5. ASSUME NEW c \in Child, NEW o \in Ops, Execution(c, o) \/ EndRun(c, o) PROVE UNCHANGED submit
    BY <2>5 DEF Execution, Enter, EndRun, Reserve, CommitTerminal, Drain, Install, Release, Retire, Tail, CloseDone
  <2>6. ASSUME NEW s \in Session, Stop(s) \/ Stopping(s) PROVE UNCHANGED submit
    BY <2>6 DEF Stop, Stopping, StopLineage, StopHold, StopChild, ChildStopped, StopEnds, StopJob
  <2>7. CASE Lose \/ UNCHANGED vars BY <2>7 DEF Lose, vars
  <2>8. QED BY <1>2, <1>4, <2>1, <2>2, <2>3, <2>4, <2>5, <2>6, <2>7 DEF Next, Ending
<1>6. QED BY <1>2, <1>3, <1>4, <1>5

(* Every step keeps the reports at rest. *)
LEMMA ReportStep == GroupInv /\ [Next]_vars => \A i \in Child : ReportInv(i)'
<1>. SUFFICES ASSUME GroupInv, [Next]_vars, NEW i \in Child, submits' = 0
              PROVE  submit'[i] \in {"absent", "idle"} /\ (Reporting(i)' => AtRest(i)' /\ launch'[i] = "started")
  BY DEF ReportInv
<1>1. submits = 0 /\ submit'[i] = submit[i] BY NobodySubmits
<1>2. submit[i] \in {"absent", "idle"} /\ (Reporting(i) => AtRest(i) /\ launch[i] = "started")
  BY <1>1 DEF GroupInv, ReportInv
<1>3. Reporting(i)' => AtRest(i) /\ launch[i] = "started" BY <1>2, Reports, QuietIs
<1>4. submit[i] \notin Admitting BY <1>2 DEF Admitting
<1>5. QED BY <1>1, <1>2, <1>3, <1>4, RestStays

(* Every step keeps a drain ahead of what a child has buffered itself. *)
LEMMA BufferStep == GroupInv /\ [Next]_vars => \A i \in Child : BufferInv(i)'
<1>. SUFFICES ASSUME GroupInv, [Next]_vars, NEW i \in Child, submits' = 0
              PROVE  /\ launch'[i] \in Unstarted => buffer'[i] = 0
                     /\ ctx' = "live" /\ current'[i] = 0 /\ run'[i] = 0 => buffer'[i] = 0
  BY DEF BufferInv
<1>. DEFINE Good == /\ launch'[i] \in Unstarted => buffer'[i] = 0
                    /\ ctx' = "live" /\ current'[i] = 0 /\ run'[i] = 0 => buffer'[i] = 0
<1>0. /\ TypeInv /\ exec \in [Child -> [Ops -> Places]] /\ run \in [Child -> Ops \cup {0}]
      /\ current \in [Child -> Ops \cup {0}] /\ member \in [Member -> {"none", "live", "claimed", "done"}]
      /\ ending \in [Member -> Endings] /\ launch \in [Child -> Launches] /\ buffer \in [Child -> Nat]
      /\ reserved \in [Child -> Int \cup Job]
  BY DEF GroupInv, TypeInv, TypeOK
<1>. USE DEF cells, procs, env
<1>1. submits = 0 /\ \A c \in Child : ~Submits(c) /\ ~SubmitReserves(c) BY NobodySubmits
<1>2. /\ launch[i] \in Unstarted => buffer[i] = 0
      /\ ctx = "live" /\ current[i] = 0 /\ run[i] = 0 => buffer[i] = 0
  BY <1>1 DEF GroupInv, BufferInv
<1>3. ASSUME NEW c \in Child, AdmitChild(c) \/ HandChild(c) \/ AdoptChild(c) \/ FinishRejected(c) \/ SettleClaims(c)
                              \/ StopLineage(c) \/ StopHold(c) \/ StopChild(c)
      PROVE  Good
  BY <1>0, <1>2, <1>3, Within DEF AdmitChild, HandChild, AdoptChild, FinishRejected, SettleClaims, StopLineage, StopHold, StopChild,
     Unstarted, Starting
<1>4. ASSUME NEW c \in Child, CommitChild(c) \/ StartChild(c) \/ SettleRejected(c) PROVE Good
  BY <1>0, <1>2, <1>4 DEF CommitChild, StartChild, SettleRejected, Unstarted, Starting
<1>5. ASSUME NEW k \in Job, ReserveJob(k) \/ JobStarter(k) \/ JobExits(k) PROVE Good
  BY <1>2, <1>5 DEF ReserveJob, JobStarter, AdmitJob, HandJob, Spawn, JobReports, JobExits
<1>6. ASSUME NEW m \in Member, DeliverToRoot(m) \/ Finish(m) \/ FinishChecks(m) PROVE Good
  BY <1>2, <1>6 DEF DeliverToRoot, Finish, FinishChecks
<1>7. ASSUME NEW m \in Member, NEW c \in Child, DeliversInto(m, c) PROVE Good
  <2>1. /\ m \in Job /\ Owner[m] = c /\ launch[c] \notin Unstarted /\ UNCHANGED <<launch, ctx>>
        /\ \A d \in Child : d # c => Apart(d)
    BY <1>7, Deliveries
  <2>2. CASE i # c BY <1>2, <2>1, <2>2 DEF Apart
  <2>3. CASE i = c
    <3>1. current'[c] = 0 /\ run'[c] = 0 => current[c] = 0 /\ run[c] = 0 /\ buffer'[c] = buffer[c]
      <4>1. ending[m] = "install" => current[c] # 0 BY <2>1 DEF GroupInv, IntoInv
      <4>2. QED BY <1>7, <4>1, DeliveryRuns, DeliveryMoves DEF Active
    <3>2. QED BY <1>2, <2>1, <2>3, <3>1
  <2>4. QED BY <2>2, <2>3
<1>8. ASSUME NEW c \in Child, NEW o \in Ops, Enter(c, o) \/ EndRun(c, o) \/ Reserve(c, o) \/ Release(c, o) \/ Tail(c, o)
                                            \/ CloseDone(c, o)
      PROVE  Good
  BY <1>2, <1>8 DEF Enter, EndRun, Reserve, Release, Tail, CloseDone
<1>9. ASSUME NEW c \in Child, NEW o \in Ops, CommitTerminal(c, o) \/ Install(c, o) PROVE Good
  <2>1. CASE c # i BY <1>0, <1>2, <1>9, <2>1 DEF CommitTerminal, Install
  <2>2. CASE c = i
    <3>1. exec[c][o] \in {"settling", "install"} BY <1>9 DEF CommitTerminal, Install
    <3>2. run[c] = o /\ o # 0 BY <3>1, OwnSlot DEF Holding
    <3>3. launch[c] \notin Unstarted BY <3>1 DEF GroupInv, LaunchInv
    <3>4. exec[c][o] = "install" => current[c] # 0 BY DEF GroupInv, RunInv
    <3>5. run'[c] # 0 /\ UNCHANGED launch BY <1>0, <1>9, <3>2, <3>4 DEF CommitTerminal, Install
    <3>6. QED BY <2>2, <3>3, <3>5
  <2>3. QED BY <2>1, <2>2
<1>10. ASSUME NEW c \in Child, NEW o \in Ops, Drain(c, o) PROVE Good
  <2>1. CASE c # i BY <1>0, <1>2, <1>10, <2>1 DEF Drain
  <2>2. CASE c = i
    <3>1. exec[c][o] = "drain" /\ UNCHANGED launch BY <1>10 DEF Drain
    <3>2. run[c] = o /\ o # 0 BY <3>1, OwnSlot DEF Holding
    <3>3. launch[c] \notin Unstarted BY <3>1 DEF GroupInv, LaunchInv
    <3>4. run'[c] = 0 => buffer'[c] = 0 BY <1>10, <3>2 DEF Drain
    <3>5. QED BY <2>2, <3>1, <3>3, <3>4
  <2>3. QED BY <2>1, <2>2
<1>11. ASSUME NEW c \in Child, NEW o \in Ops, Retire(c, o) PROVE Good
  <2>1. exec[c][o] = "retire" /\ UNCHANGED <<buffer, current, launch, ctx>> BY <1>11 DEF Retire
  <2>2. ctx = "live" => run[c] # o \/ current[c] # 0 BY <2>1 DEF GroupInv, DrainInv
  <2>3. run'[i] = 0 /\ run[i] # 0 => i = c /\ run[c] = o BY <1>0, <1>11 DEF Retire
  <2>4. QED BY <1>2, <2>1, <2>2, <2>3
<1>12. ASSUME NEW s \in Session, Stop(s) PROVE Good
  BY <1>0, <1>2, <1>12 DEF Stop, Begin
<1>13. ASSUME NEW s \in Session, StopEnds(s) \/ (\E k \in Job : StopJob(s, k)) PROVE Good
  BY <1>2, <1>13 DEF StopEnds, StopJob
<1>14. CASE ChildStopped \/ Lose \/ UNCHANGED vars BY <1>2, <1>14 DEF ChildStopped, Lose, vars
<1>15. QED BY <1>1, <1>3, <1>4, <1>5, <1>6, <1>7, <1>8, <1>9, <1>10, <1>11, <1>12, <1>13, <1>14
     DEF Next, Launcher, Ending, Execution, Stopping

(* Every step keeps the drain of a settlement on a live Harness. *)
LEMMA DrainStep == GroupInv /\ [Next]_vars => \A i \in Child : DrainInv(i)'
<1>. SUFFICES ASSUME GroupInv, [Next]_vars, NEW i \in Child, ctx' = "live", NEW p \in Ops
              PROVE  /\ exec'[i][p] = "settling" => reserved'[i] = p
                     /\ exec'[i][p] \in {"release", "retire"} => run'[i] # p \/ current'[i] # 0
  BY DEF DrainInv
<1>. DEFINE Good == /\ exec'[i][p] = "settling" => reserved'[i] = p
                    /\ exec'[i][p] \in {"release", "retire"} => run'[i] # p \/ current'[i] # 0
            Was  == /\ exec[i][p] = "settling" => reserved[i] = p
                    /\ exec[i][p] \in {"release", "retire"} => run[i] # p \/ current[i] # 0
<1>0. /\ TypeInv /\ exec \in [Child -> [Ops -> Places]] /\ run \in [Child -> Ops \cup {0}]
      /\ current \in [Child -> Ops \cup {0}] /\ member \in [Member -> {"none", "live", "claimed", "done"}]
      /\ ending \in [Member -> Endings] /\ launch \in [Child -> Launches] /\ buffer \in [Child -> Nat]
      /\ reserved \in [Child -> Int \cup Job]
  BY DEF GroupInv, TypeInv, TypeOK
<1>. USE DEF cells, procs, env
<1>1. ctx = "live" => Was BY DEF GroupInv, DrainInv
<1>2. p # 0 /\ p \in Nat BY Names
<1>3. ASSUME NEW c \in Child, AdmitChild(c) \/ HandChild(c) \/ AdoptChild(c) \/ FinishRejected(c) \/ SettleClaims(c)
                              \/ SubmitRoutes(c) \/ StopLineage(c) \/ StopHold(c) \/ StopChild(c)
      PROVE  Good
  BY <1>1, <1>3 DEF AdmitChild, HandChild, AdoptChild, FinishRejected, SettleClaims, SubmitRoutes, StopLineage, StopHold, StopChild
<1>4. ASSUME NEW c \in Child, CommitChild(c) \/ StartChild(c) \/ SettleRejected(c) PROVE Good
  <2>0. UNCHANGED <<ctx, reserved>> BY <1>4 DEF CommitChild, StartChild, SettleRejected
  <2>1. CASE c # i
    <3>1. UNCHANGED <<exec[i], run[i], current[i]>> BY <1>0, <1>4, <2>1 DEF CommitChild, StartChild, SettleRejected, Goto
    <3>2. QED BY <1>1, <2>0, <3>1
  <2>2. CASE c = i
    <3>1. launch[c] \in Unstarted BY <1>4 DEF CommitChild, StartChild, SettleRejected, Unstarted, Starting
    <3>2. \A o \in Ops : exec[c][o] = "none" BY <3>1 DEF GroupInv, LaunchInv
    <3>3. exec'[c][p] \in {"none", "entry"} BY <1>0, <1>4, <3>2 DEF CommitChild, StartChild, SettleRejected, Goto
    <3>4. QED BY <2>2, <3>3
  <2>3. QED BY <2>1, <2>2
<1>5. ASSUME NEW c \in Child, SubmitReserves(c) \/ SubmitReleases(c) PROVE Good
  <2>1. UNCHANGED <<ctx, run, exec, current>> BY <1>5 DEF SubmitReserves, SubmitReleases
  <2>2. c = i => reserved[i] # p BY <1>2, <1>5 DEF SubmitReserves, SubmitReleases, GroupInv, HoldInv
  <2>3. c # i => reserved'[i] = reserved[i] BY <1>0, <1>5 DEF SubmitReserves, SubmitReleases
  <2>4. QED BY <1>1, <2>1, <2>2, <2>3
<1>6. ASSUME NEW c \in Child, SubmitAdmits(c) PROVE Good
  <2>1. UNCHANGED <<ctx, run, exec, reserved>> BY <1>6 DEF SubmitAdmits
  <2>2. current'[i] = 0 => current[i] = 0 BY <1>0, <1>6, Names DEF SubmitAdmits, NextOp
  <2>3. QED BY <1>1, <2>1, <2>2
<1>7. ASSUME NEW c \in Child, SubmitInstalls(c) PROVE Good
  <2>1. UNCHANGED <<ctx, current, reserved>> BY <1>7 DEF SubmitInstalls
  <2>2. CASE c # i
    <3>1. UNCHANGED <<exec[i], run[i]>> BY <1>0, <1>7, <2>2 DEF SubmitInstalls, Goto
    <3>2. QED BY <1>1, <2>1, <3>1
  <2>3. CASE c = i
    <3>1. current[c] # 0 BY <1>7 DEF SubmitInstalls, GroupInv, RunInv
    <3>2. exec'[c][p] = exec[c][p] \/ exec'[c][p] = "entry" BY <1>0, <1>7 DEF SubmitInstalls, Goto
    <3>3. QED BY <1>1, <2>1, <2>3, <3>1, <3>2
  <2>4. QED BY <2>2, <2>3
<1>8. ASSUME NEW k \in Job, ReserveJob(k) \/ JobStarter(k) \/ JobExits(k) PROVE Good
  BY <1>1, <1>8 DEF ReserveJob, JobStarter, AdmitJob, HandJob, Spawn, JobReports, JobExits
<1>9. ASSUME NEW m \in Member, DeliverToRoot(m) \/ Finish(m) \/ FinishChecks(m) PROVE Good
  BY <1>1, <1>9 DEF DeliverToRoot, Finish, FinishChecks
<1>10. ASSUME NEW m \in Member, NEW c \in Child, DeliversInto(m, c) PROVE Good
  <2>1. /\ m \in Job /\ Owner[m] = c /\ UNCHANGED ctx
        /\ \A d \in Child : d # c => Apart(d)
    BY <1>10, Deliveries
  <2>2. CASE i # c BY <1>1, <2>1, <2>2 DEF Apart
  <2>3. CASE i = c
    <3>1. /\ exec[c][p] = "settling" => reserved[c] = p
          /\ exec[c][p] \in {"release", "retire"} => run[c] # p \/ current[c] # 0
      BY <1>1, <2>1, <2>3
    <3>2. m # p /\ p # 0 BY <1>2, <2>1, Names
    <3>3. ending[m] = "release" => reserved[c] = m BY <2>1 DEF GroupInv, IntoInv, Delivering
    <3>4. exec[c][p] = "settling" => reserved'[c] = p BY <1>10, <3>1, <3>2, <3>3, DeliveryHolds
    <3>5. ending[m] = "install" => current[c] # 0 BY <2>1 DEF GroupInv, IntoInv
    <3>6. exec'[c][p] \in {exec[c][p], "entry"} /\ (current'[c] = 0 => current[c] = 0 /\ run'[c] = run[c])
      BY <1>10, <3>5, DeliveryRuns
    <3>7. run'[c] = run[c] \/ (run'[c] = current[c] /\ current'[c] = current[c] /\ current[c] # 0)
      BY <1>10, <3>5, DeliveryRuns
    <3>8. QED BY <2>3, <3>1, <3>4, <3>6, <3>7
  <2>4. QED BY <2>2, <2>3
<1>11. ASSUME NEW c \in Child, NEW o \in Ops, Enter(c, o) \/ EndRun(c, o) \/ Tail(c, o) \/ CloseDone(c, o) PROVE Good
  <2>1. UNCHANGED <<ctx, run, current, reserved>> /\ exec'[i][p] \in {exec[i][p], "running", "over", "close", "done"}
    BY <1>0, <1>11 DEF Enter, EndRun, Tail, CloseDone, Goto
  <2>2. QED BY <1>1, <2>1
<1>12. ASSUME NEW c \in Child, NEW o \in Ops, Reserve(c, o) PROVE Good
  <2>1. UNCHANGED <<ctx, run, current>> /\ (exec'[i][p] = exec[i][p] \/ (c = i /\ o = p /\ exec'[i][p] = "settling"))
    BY <1>0, <1>12 DEF Reserve, Goto
  <2>2. reserved[c] = 0 /\ reserved' = [reserved EXCEPT ![c] = o] BY <1>12, <2>1 DEF Reserve
  <2>3. c = i => reserved'[i] = o BY <1>0, <2>2
  <2>4. c # i => reserved'[i] = reserved[i] BY <1>0, <2>2
  <2>5. QED BY <1>1, <1>2, <2>1, <2>2, <2>3, <2>4
<1>13. ASSUME NEW c \in Child, NEW o \in Ops, CommitTerminal(c, o) PROVE Good
  <2>1. UNCHANGED <<ctx, run, reserved>> BY <1>13 DEF CommitTerminal
  <2>2. CASE c # i
    <3>1. UNCHANGED <<exec[i], current[i]>> BY <1>0, <1>13, <2>2 DEF CommitTerminal, Goto
    <3>2. QED BY <1>1, <2>1, <3>1
  <2>3. CASE c = i
    <3>1. exec[c][o] = "settling" BY <1>13 DEF CommitTerminal
    <3>2. reserved[c] = o BY <2>1, <3>1 DEF GroupInv, DrainInv
    <3>3. run[c] = o BY <3>1, OwnSlot DEF Holding
    <3>4. Goto(c, o, "drain") BY <1>13, <3>2 DEF CommitTerminal
    <3>5. exec'[c][p] = IF p = o THEN "drain" ELSE exec[c][p] BY <1>0, <3>4 DEF Goto
    <3>6. QED BY <1>1, <2>1, <2>3, <3>3, <3>5
  <2>4. QED BY <2>2, <2>3
<1>14. ASSUME NEW c \in Child, NEW o \in Ops, Drain(c, o) PROVE Good
  <2>1. UNCHANGED <<ctx, reserved>> BY <1>14 DEF Drain
  <2>2. CASE c # i
    <3>1. UNCHANGED <<exec[i], current[i], run[i]>> BY <1>0, <1>14, <2>2 DEF Drain, Goto
    <3>2. QED BY <1>1, <2>1, <3>1
  <2>3. CASE c = i
    <3>1. exec[c][o] = "drain" BY <1>14 DEF Drain
    <3>2. run[c] = o BY <3>1, OwnSlot DEF Holding
    <3>3. /\ exec'[c][p] = exec[c][p] \/ (p = o /\ exec'[c][p] \in {"release", "install"})
          /\ run'[c] \in {o, 0} /\ (p = o /\ exec'[c][p] = "release" => current'[c] # 0 \/ run'[c] = 0)
      BY <1>0, <1>14, <2>1, <3>2 DEF Drain, Goto
    <3>4. exec[c][p] \in {"release", "retire"} => p # o BY <3>1
    <3>5. exec'[c][p] = "settling" => exec[c][p] = "settling" BY <3>3
    <3>6. QED BY <1>1, <1>2, <2>1, <2>3, <3>1, <3>3, <3>4, <3>5
  <2>4. QED BY <2>2, <2>3
<1>15. ASSUME NEW c \in Child, NEW o \in Ops, Install(c, o) PROVE Good
  <2>1. UNCHANGED <<ctx, reserved, current>> /\ exec[c][o] = "install" BY <1>15 DEF Install
  <2>2. CASE c # i
    <3>1. UNCHANGED <<exec[i], run[i]>> BY <1>0, <1>15, <2>2 DEF Install
    <3>2. QED BY <1>1, <2>1, <3>1
  <2>3. CASE c = i
    <3>1. current[c] # 0 BY <2>1 DEF GroupInv, RunInv
    <3>2. exec'[c][p] \in {exec[c][p], "entry", "release"} BY <1>0, <1>15 DEF Install
    <3>3. QED BY <1>1, <2>1, <2>3, <3>1, <3>2
  <2>4. QED BY <2>2, <2>3
<1>16. ASSUME NEW c \in Child, NEW o \in Ops, Release(c, o) PROVE Good
  <2>1. UNCHANGED <<ctx, run, current>> /\ exec[c][o] = "release" BY <1>16 DEF Release
  <2>2. CASE c # i
    <3>1. UNCHANGED <<exec[i], reserved[i]>> BY <1>0, <1>16, <2>2 DEF Release, Goto
    <3>2. QED BY <1>1, <2>1, <3>1
  <2>3. CASE c = i
    <3>1. reserved[c] = o BY <2>1 DEF GroupInv, HoldInv
    <3>2. exec'[c][p] = IF p = o THEN "retire" ELSE exec[c][p] BY <1>0, <1>16 DEF Release, Goto
    <3>3. QED BY <1>1, <2>1, <2>3, <3>1, <3>2
  <2>4. QED BY <2>2, <2>3
<1>17. ASSUME NEW c \in Child, NEW o \in Ops, Retire(c, o) PROVE Good
  <2>1. /\ UNCHANGED <<ctx, reserved, current>> /\ exec'[i][p] \in {exec[i][p], "tail"} /\ run'[i] \in {run[i], 0}
    BY <1>0, <1>17 DEF Retire, Goto
  <2>2. QED BY <1>1, <1>2, <2>1
<1>18. ASSUME NEW s \in Session, Stop(s) \/ StopEnds(s) \/ (\E k \in Job : StopJob(s, k)) PROVE Good
  BY <1>1, <1>18 DEF Stop, StopEnds, StopJob
<1>19. CASE ChildStopped \/ UNCHANGED vars BY <1>1, <1>19 DEF ChildStopped, vars
<1>20. ~Lose BY DEF Lose
<1>21. QED BY <1>3, <1>4, <1>5, <1>6, <1>7, <1>8, <1>9, <1>10, <1>11, <1>12, <1>13, <1>14, <1>15, <1>16, <1>17, <1>18,
     <1>19, <1>20
     DEF Next, Launcher, Ending, Execution, Submits, Stopping

(* Every step keeps a settlement ahead of every pending completion at rest. *)
LEMMA OwedStep == GroupInv /\ [Next]_vars => \A i \in Child : OwedInv(i)'
<1>. SUFFICES ASSUME GroupInv, [Next]_vars, NEW i \in Child PROVE OwedInv(i)' OBVIOUS
<1>. USE DEF GroupInv, TypeInv, TypeOK, Delivering, Endings, cells, procs, env
(* What leaves the child, its executions and its members alone. *)
<1>1. ASSUME UNCHANGED <<current, run, pending, exec, launch, member, ending>> PROVE OwedInv(i)'
  <2>1. OwedInv(i) OBVIOUS
  <2>. HIDE DEF GroupInv, TypeInv, TypeOK
  <2>2. QED BY <1>1, <2>1 DEF OwedInv, AtRest
<1>2. ASSUME NEW c \in Child, SubmitReserves(c) \/ SubmitRoutes(c) \/ SubmitReleases(c) \/ StopLineage(c) \/ StopHold(c)
      PROVE  OwedInv(i)'
  BY <1>1, <1>2 DEF SubmitReserves, SubmitRoutes, SubmitReleases, StopLineage, StopHold
<1>3. ASSUME NEW j \in Job, ReserveJob(j) \/ JobExits(j) PROVE OwedInv(i)' BY <1>1, <1>3 DEF ReserveJob, JobExits
<1>4. ASSUME NEW s \in Session, Stop(s) \/ StopEnds(s) \/ (\E j \in Job : StopJob(s, j)) PROVE OwedInv(i)'
  BY <1>1, <1>4 DEF Stop, StopEnds, StopJob
<1>7. CASE ChildStopped \/ Lose \/ UNCHANGED vars BY <1>1, <1>7 DEF ChildStopped, Lose, vars
(* What claims a member: its presence and every check under way stay. *)
<1>8. ASSUME \A j \in Job : (member'[j] \in Present <=> member[j] \in Present) /\ (ending[j] = "check" => ending'[j] = "check"),
             launch[i] = "adopted" => launch'[i] = "adopted", i \in pending' => i \in pending \/ launch'[i] = "adopted",
             current'[i] = current[i] \/ current'[i] # 0, UNCHANGED <<run, exec>>
      PROVE  OwedInv(i)'
  <2>1. OwedInv(i) OBVIOUS
  <2>. HIDE DEF GroupInv, TypeInv, TypeOK
  <2>2. QED BY <1>8, <2>1 DEF OwedInv, AtRest
<1>9. ASSUME NEW c \in Child, AdmitChild(c) \/ CommitChild(c) \/ HandChild(c) \/ AdoptChild(c) \/ FinishRejected(c)
                              \/ SettleClaims(c) \/ StopChild(c)
      PROVE  OwedInv(i)'
  <2>1. \A j \in Job : (member'[j] \in Present <=> member[j] \in Present) /\ (ending[j] = "check" => ending'[j] = "check")
    <3>1. CASE AdmitChild(c) BY <3>1, Names DEF LifeInv, AdmitChild
    <3>2. CASE CommitChild(c) BY <3>2, Within, ClaimStays, ClaimIs DEF LifeInv, CommitChild
    <3>3. CASE HandChild(c) BY <3>3 DEF HandChild
    <3>4. CASE AdoptChild(c) BY <3>4, Within, ClaimStays, ClaimIs DEF LifeInv, AdoptChild
    <3>5. CASE FinishRejected(c) BY <3>5, Within, ClaimStays, ClaimIs DEF LifeInv, FinishRejected
    <3>6. CASE SettleClaims(c) BY <3>6, Within, ClaimStays, ClaimIs DEF LifeInv, SettleClaims
    <3>7. CASE StopChild(c) BY <3>7, Within, ClaimStays, ClaimIs DEF LifeInv, StopChild
    <3>8. QED BY <1>9, <3>1, <3>2, <3>3, <3>4, <3>5, <3>6, <3>7
  <2>2. /\ launch[i] = "adopted" => launch'[i] = "adopted"
        /\ i \in pending' => i \in pending \/ launch'[i] = "adopted"
    BY <1>9 DEF AdmitChild, CommitChild, HandChild, AdoptChild, FinishRejected, SettleClaims, StopChild
  <2>3. (current'[i] = current[i] \/ current'[i] # 0) /\ UNCHANGED <<run, exec>>
    BY <1>9 DEF AdmitChild, CommitChild, HandChild, AdoptChild, FinishRejected, SettleClaims, StopChild
  <2>4. QED BY <1>8, <2>1, <2>2, <2>3
<1>10. ASSUME NEW j \in Job, HandJob(j) \/ Spawn(j) \/ JobReports(j) PROVE OwedInv(i)'
  <2>1. UNCHANGED <<current, run, pending, exec>> /\ (launch[i] = "adopted" => launch'[i] = "adopted")
    BY <1>10 DEF HandJob, Spawn, JobReports
  <2>2. \A x \in Job : (member'[x] \in Present <=> member[x] \in Present) /\ (ending[x] = "check" => ending'[x] = "check")
    BY <1>10, Within, ClaimStays, ClaimIs DEF LifeInv, HandJob, Spawn, JobReports
  <2>3. QED BY <1>8, <2>1, <2>2
(* What moves one execution on, to a place that owes the child's completion. *)
<1>11. ASSUME NEW c \in Child, NEW o \in Ops, NEW l \in Places, NEW k \in Places,
              exec[c][o] = l, Goto(c, o, k), l \in {"retire", "release", "drain", "tail"} => k \in {"retire", "release", "drain", "tail"},
              c = i /\ <<run[i], current[i]>> # <<run'[i], current'[i]>> => k \in {"retire", "release", "drain", "tail"},
              c # i => UNCHANGED <<run[i], current[i]>>, UNCHANGED <<pending, launch, member, ending>>
       PROVE  OwedInv(i)'
  <2>1. OwedInv(i) OBVIOUS
  <2>2. (\A p \in Ops : exec'[i][p] = exec[i][p] \/ (c = i /\ p = o)) /\ exec'[c][o] = k BY <1>11, GotoIs
  <2>. HIDE DEF GroupInv, TypeInv, TypeOK
  <2>3. QED BY <1>11, <2>1, <2>2 DEF OwedInv, AtRest
<1>12. ASSUME NEW c \in Child, NEW o \in Ops, Enter(c, o) \/ Reserve(c, o) \/ Release(c, o) \/ CloseDone(c, o) \/ EndRun(c, o)
       PROVE  OwedInv(i)'
  <2>1. /\ UNCHANGED <<run, current, pending, launch, member, ending>>
        /\ \E k \in {"over", "running", "settling", "retire", "done"} :
              Goto(c, o, k) /\ (exec[c][o] \in {"retire", "release", "drain", "tail"} => k = "retire")
    BY <1>12 DEF Enter, Reserve, Release, CloseDone, EndRun
  <2>2. QED BY <1>11, <2>1 DEF Places
<1>13. ASSUME NEW c \in Child, NEW o \in Ops, CommitTerminal(c, o) \/ Retire(c, o) PROVE OwedInv(i)'
  <2>1. UNCHANGED <<pending, launch, member, ending>> /\ \E k \in {"drain", "retire", "tail"} : Goto(c, o, k)
    BY <1>13 DEF CommitTerminal, Retire
  <2>2. c # i => UNCHANGED <<run[i], current[i]>> BY <1>13 DEF CommitTerminal, Retire
  <2>3. QED BY <1>11, <2>1, <2>2 DEF Places
<1>14. ASSUME NEW c \in Child, StartChild(c) PROVE OwedInv(i)'
  <2>1. UNCHANGED <<current, pending, ending, member>> /\ OwedInv(i) BY <1>14 DEF StartChild
  <2>2. CASE c = i BY <1>14, <2>2 DEF StartChild, OwedInv, AtRest
  <2>3. CASE c # i
    <3>1. UNCHANGED <<launch[i], exec[i], run[i]>> BY <1>14, <2>3 DEF StartChild, Goto
    <3>. HIDE DEF GroupInv, TypeInv, TypeOK
    <3>2. QED BY <2>1, <3>1 DEF OwedInv, AtRest
  <2>4. QED BY <2>2, <2>3
<1>15. ASSUME NEW c \in Child, SettleRejected(c) PROVE OwedInv(i)'
  <2>1. UNCHANGED <<run, pending, exec, ending, member>> /\ OwedInv(i) BY <1>15 DEF SettleRejected
  <2>2. CASE c = i
    <3>1. i \notin pending BY <1>15, <2>2 DEF SettleRejected, LaunchInv
    <3>2. QED BY <2>1, <3>1 DEF OwedInv
  <2>3. CASE c # i
    <3>1. UNCHANGED <<launch[i], current[i]>> BY <1>15, <2>3 DEF SettleRejected
    <3>. HIDE DEF GroupInv, TypeInv, TypeOK
    <3>2. QED BY <2>1, <3>1 DEF OwedInv, AtRest
  <2>4. QED BY <2>2, <2>3
<1>16. ASSUME NEW c \in Child, SubmitAdmits(c) PROVE OwedInv(i)'
  <2>1. UNCHANGED <<run, pending, exec, ending, member, launch>> /\ OwedInv(i) BY <1>16 DEF SubmitAdmits
  <2>2. current'[i] = current[i] \/ current'[i] # 0 BY <1>16, Names DEF SubmitAdmits, NextOp
  <2>. HIDE DEF GroupInv, TypeInv, TypeOK
  <2>3. QED BY <2>1, <2>2 DEF OwedInv, AtRest
<1>17. ASSUME NEW c \in Child, SubmitInstalls(c) PROVE OwedInv(i)'
  <2>1. UNCHANGED <<current, pending, ending, member, launch>> /\ OwedInv(i) BY <1>17 DEF SubmitInstalls
  <2>2. CASE c = i BY <1>17, <2>2 DEF SubmitInstalls, RunInv, OwedInv, AtRest
  <2>3. CASE c # i
    <3>1. UNCHANGED <<run[i], exec[i]>> BY <1>17, <2>3 DEF SubmitInstalls, Goto
    <3>. HIDE DEF GroupInv, TypeInv, TypeOK
    <3>2. QED BY <2>1, <3>1 DEF OwedInv, AtRest
  <2>4. QED BY <2>2, <2>3
<1>18. ASSUME NEW j \in Job, AdmitJob(j) PROVE OwedInv(i)'
  <2>1. UNCHANGED <<current, run, pending, exec, launch, ending>> /\ OwedInv(i) BY <1>18 DEF AdmitJob
  <2>2. \A x \in Job : member[x] \in Present => member'[x] \in Present BY <1>18, Within DEF AdmitJob, Present
  <2>. HIDE DEF GroupInv, TypeInv, TypeOK
  <2>3. QED BY <2>1, <2>2 DEF OwedInv, AtRest
<1>19. ASSUME NEW m \in Member, DeliverToRoot(m) PROVE OwedInv(i)'
  <2>1. UNCHANGED <<run, current, pending, exec, launch, member>> /\ OwedInv(i) BY <1>19 DEF DeliverToRoot, Told, Fails, Refused, Then
  <2>2. \A j \in Job : ending[j] = "check" => ending'[j] = "check" BY <1>19, Within DEF DeliverToRoot, Told, Fails, Refused, Then
  <2>. HIDE DEF GroupInv, TypeInv, TypeOK
  <2>3. QED BY <2>1, <2>2 DEF OwedInv, AtRest
<1>20. ASSUME NEW m \in Member, Finish(m) PROVE OwedInv(i)'
  <2>1. UNCHANGED <<run, current, pending, exec, launch>> /\ OwedInv(i) BY <1>20 DEF Finish
  <2>2. CASE m \in Job /\ Owner[m] = i
    <3>1. ending'[m] = "check" BY <1>20, <2>2, Names, GroupIs DEF Finish
    <3>2. QED BY <2>2, <3>1 DEF OwedInv
  <2>3. CASE ~(m \in Job /\ Owner[m] = i)
    <3>1. \A j \in Job : Owner[j] = i => UNCHANGED <<member[j], ending[j]>> BY <1>20, <2>3, Within DEF Finish
    <3>. HIDE DEF GroupInv, TypeInv, TypeOK
    <3>2. QED BY <2>1, <3>1 DEF OwedInv, AtRest
  <2>4. QED BY <2>2, <2>3
<1>21. ASSUME NEW m \in Member, FinishChecks(m) PROVE OwedInv(i)'
  <2>1. m \in Job /\ Owner[m] \in Child /\ Decide(Owner[m], 0)
    BY <1>21, Names, GroupIs DEF FinishChecks, CheckSettles, LifeInv
  <2>2. UNCHANGED <<run, current, exec, launch, member>> /\ OwedInv(i) BY <1>21 DEF FinishChecks
  <2>3. CASE Owner[m] = i
    <3>1. i \notin pending' \/ ~AtRest(i) BY <2>1, <2>3, QuietIs DEF Decide
    <3>. HIDE DEF GroupInv, TypeInv, TypeOK
    <3>2. QED BY <2>2, <3>1 DEF OwedInv, AtRest
  <2>4. CASE Owner[m] # i
    <3>1. i \in pending' => i \in pending BY <2>1 DEF Decide
    <3>2. \A j \in Job : Owner[j] = i => ending'[j] = ending[j] BY <1>21, <2>4, Within DEF FinishChecks, CheckSettles
    <3>. HIDE DEF GroupInv, TypeInv, TypeOK
    <3>3. QED BY <2>2, <3>1, <3>2 DEF OwedInv, AtRest
  <2>5. QED BY <2>3, <2>4
<1>22. ASSUME NEW c \in Child, NEW o \in Ops, Drain(c, o) PROVE OwedInv(i)'
  <2>1. UNCHANGED <<pending, launch, member, ending>> /\ OwedInv(i) /\ exec[c][o] = "drain" BY <1>22 DEF Drain
  <2>2. CASE c = i
    <3>1. CASE exec' = exec BY <2>1, <2>2, <3>1 DEF OwedInv
    <3>2. CASE Goto(c, o, "release")
      <4>1. exec'[c][o] = "release" BY <3>2, GotoIs DEF Places
      <4>2. QED BY <2>2, <4>1 DEF OwedInv
    <3>3. CASE current'[c] \in NextOp(c)
      <4>1. current'[c] # 0 BY <3>3, Names DEF NextOp
      <4>2. QED BY <2>2, <4>1 DEF OwedInv, AtRest
    <3>4. QED BY <1>22, <3>1, <3>2, <3>3 DEF Drain
  <2>3. CASE c # i
    <3>1. UNCHANGED <<run[i], current[i], exec[i]>> BY <1>22, <2>3 DEF Drain, Goto
    <3>. HIDE DEF GroupInv, TypeInv, TypeOK
    <3>2. QED BY <2>1, <3>1 DEF OwedInv, AtRest
  <2>4. QED BY <2>2, <2>3
<1>23. ASSUME NEW c \in Child, NEW o \in Ops, Install(c, o) PROVE OwedInv(i)'
  <2>1. UNCHANGED <<pending, launch, member, ending, current>> /\ OwedInv(i) BY <1>23 DEF Install
  <2>2. CASE c = i BY <1>23, <2>2 DEF Install, RunInv, OwedInv, AtRest
  <2>3. CASE c # i
    <3>1. UNCHANGED <<run[i], exec[i]>> BY <1>23, <2>3 DEF Install
    <3>. HIDE DEF GroupInv, TypeInv, TypeOK
    <3>2. QED BY <2>1, <3>1 DEF OwedInv, AtRest
  <2>4. QED BY <2>2, <2>3
<1>24. ASSUME NEW c \in Child, NEW o \in Ops, Tail(c, o) PROVE OwedInv(i)'
  <2>1. UNCHANGED <<launch, member, ending, current, run>> /\ OwedInv(i) BY <1>24 DEF Tail
  <2>2. CASE c = i
    <3>1. Decide(c, o) BY <1>24 DEF Tail
    <3>2. i \notin pending' \/ ~AtRest(i) BY <2>2, <3>1, QuietIs DEF Decide
    <3>. HIDE DEF GroupInv, TypeInv, TypeOK
    <3>3. QED BY <2>1, <3>2 DEF OwedInv, AtRest
  <2>3. CASE c # i
    <3>1. exec'[i] = exec[i] /\ (i \in pending' => i \in pending) BY <1>24, <2>3 DEF Tail, Goto, Decide
    <3>. HIDE DEF GroupInv, TypeInv, TypeOK
    <3>2. QED BY <2>1, <3>1 DEF OwedInv, AtRest
  <2>4. QED BY <2>2, <2>3
<1>25. ASSUME NEW m \in Member, NEW c \in Child, DeliversInto(m, c) PROVE OwedInv(i)'
  <2>. HIDE DEF GroupInv, TypeInv, TypeOK, Delivering, Endings
  <2>1. /\ m \in Job /\ Owner[m] = c /\ member[m] = "claimed" /\ launch[c] \notin Unstarted
        /\ UNCHANGED <<bg, member, pending, corrupt, launch, job, canceled, submit, settle, stop>>
        /\ UNCHANGED <<ctx, cast, submits, stops, quieted>>
        /\ ending[m] \in Delivering \cup {"deliver"} /\ ending'[m] \in Delivering \cup {"finish"}
        /\ \A x \in Member : x # m => ending'[x] = ending[x]
        /\ \A d \in Child : d # c => Apart(d)
    BY <1>25, Deliveries
  <2>2. OwedInv(i) BY DEF GroupInv
  <2>3. CASE i # c
    <3>1. \A j \in Job : Owner[j] = i => ending'[j] = ending[j] BY <2>1, <2>3, Names
    <3>2. QED BY <2>1, <2>2, <2>3, <3>1 DEF OwedInv, AtRest, Apart
  <2>4. CASE i = c
    <3>1. ~AtRest(c)' BY <2>1 DEF AtRest, Present
    <3>2. QED BY <2>4, <3>1 DEF OwedInv
  <2>5. QED BY <2>3, <2>4
<1>26. QED BY <1>2, <1>3, <1>4, <1>7, <1>9, <1>10, <1>12, <1>13, <1>14, <1>15, <1>16, <1>17, <1>18, <1>19, <1>20, <1>21,
     <1>22, <1>23, <1>24, <1>25 DEF Next, Launcher, JobStarter, Ending, Execution, Submits, Stopping

(* Every step keeps the root's members captured by its stop. *)
LEMMA RootStep == GroupInv /\ [Next]_vars => RootInv'
<1>. SUFFICES ASSUME GroupInv, [Next]_vars PROVE RootInv' OBVIOUS
<1>. USE DEF GroupInv, TypeInv, TypeOK, Delivering, Endings, cells, procs, env
<1>1. ASSUME NEW c \in Child, AdmitChild(c) PROVE RootInv'
  BY <1>1 DEF AdmitChild, Admits, RootInv, Present
<1>2. ASSUME NEW c \in Child, CommitChild(c) PROVE RootInv'
  BY <1>2 DEF CommitChild, Claim, Fault, RootInv, Present
<1>3. ASSUME NEW c \in Child, HandChild(c) PROVE RootInv'
  BY <1>3 DEF HandChild, HandoffHolds, RootInv, Present
<1>4. ASSUME NEW c \in Child, AdoptChild(c) PROVE RootInv'
  BY <1>4 DEF AdoptChild, Fault, Claim, RootInv, Present
<1>5. ASSUME NEW c \in Child, StartChild(c) PROVE RootInv'
  BY <1>5 DEF StartChild, Goto, RootInv, Present
<1>6. ASSUME NEW c \in Child, SettleRejected(c) PROVE RootInv'
  BY <1>6 DEF SettleRejected, Fault, RootInv, Present
<1>7. ASSUME NEW c \in Child, FinishRejected(c) PROVE RootInv'
  BY <1>7 DEF FinishRejected, Claim, RootInv, Present
<1>8. ASSUME NEW c \in Child, SettleClaims(c) PROVE RootInv'
  BY <1>8 DEF SettleClaims, Claim, RootInv, Present
<1>9. ASSUME NEW c \in Child, SubmitReserves(c) PROVE RootInv'
  BY <1>9 DEF SubmitReserves, RootInv, Present
<1>10. ASSUME NEW c \in Child, SubmitRoutes(c) PROVE RootInv'
  BY <1>10 DEF SubmitRoutes, RootInv, Present
<1>11. ASSUME NEW c \in Child, SubmitAdmits(c) PROVE RootInv'
  BY <1>11 DEF SubmitAdmits, NextOp, Free, RootInv, Present
<1>12. ASSUME NEW c \in Child, SubmitInstalls(c) PROVE RootInv'
  BY <1>12 DEF SubmitInstalls, Goto, RootInv, Present
<1>13. ASSUME NEW c \in Child, SubmitReleases(c) PROVE RootInv'
  BY <1>13 DEF SubmitReleases, RootInv, Present
<1>14. ASSUME NEW j \in Job, ReserveJob(j) PROVE RootInv'
  BY <1>14 DEF ReserveJob, Executing, RootInv, Present
<1>15. ASSUME NEW j \in Job, AdmitJob(j) PROVE RootInv'
  BY <1>15 DEF AdmitJob, Admits, RootInv, Present
<1>16. ASSUME NEW j \in Job, HandJob(j) PROVE RootInv'
  BY <1>16 DEF HandJob, Claim, HandoffHolds, RootInv, Present
<1>17. ASSUME NEW j \in Job, Spawn(j) PROVE RootInv'
  BY <1>17 DEF Spawn, Claim, RootInv, Present
<1>18. ASSUME NEW j \in Job, JobReports(j) PROVE RootInv'
  BY <1>18 DEF JobReports, Claim, RootInv, Present
<1>19. ASSUME NEW j \in Job, JobExits(j) PROVE RootInv'
  BY <1>19 DEF JobExits, RootInv, Present
<1>20. ASSUME NEW m \in Member, DeliverToRoot(m) PROVE RootInv'
  BY <1>20 DEF DeliverToRoot, Told, Fails, Refused, Then, Fault, RootInv, Present
<1>21. ASSUME NEW m \in Member, Finish(m) PROVE RootInv'
  BY <1>21 DEF Finish, RootInv, Present
<1>22. ASSUME NEW m \in Member, FinishChecks(m) PROVE RootInv'
  BY <1>22 DEF FinishChecks, CheckSettles, Decide, Fault, RootInv, Present
<1>23. ASSUME NEW c \in Child, NEW o \in Ops, Enter(c, o) PROVE RootInv'
  BY <1>23 DEF Enter, Goto, RootInv, Present
<1>24. ASSUME NEW c \in Child, NEW o \in Ops, Reserve(c, o) PROVE RootInv'
  BY <1>24 DEF Reserve, Goto, RootInv, Present
<1>25. ASSUME NEW c \in Child, NEW o \in Ops, CommitTerminal(c, o) PROVE RootInv'
  BY <1>25 DEF CommitTerminal, Goto, Fault, RootInv, Present
<1>26. ASSUME NEW c \in Child, NEW o \in Ops, Drain(c, o) PROVE RootInv'
  BY <1>26 DEF Drain, Goto, NextOp, Free, RootInv, Present
<1>27. ASSUME NEW c \in Child, NEW o \in Ops, Install(c, o) PROVE RootInv'
  BY <1>27 DEF Install, RootInv, Present
<1>28. ASSUME NEW c \in Child, NEW o \in Ops, Release(c, o) PROVE RootInv'
  BY <1>28 DEF Release, Goto, RootInv, Present
<1>29. ASSUME NEW c \in Child, NEW o \in Ops, Retire(c, o) PROVE RootInv'
  BY <1>29 DEF Retire, Goto, RootInv, Present
<1>30. ASSUME NEW c \in Child, NEW o \in Ops, Tail(c, o) PROVE RootInv'
  BY <1>30 DEF Tail, Goto, Decide, Fault, RootInv, Present
<1>31. ASSUME NEW c \in Child, NEW o \in Ops, CloseDone(c, o) PROVE RootInv'
  BY <1>31 DEF CloseDone, Goto, RootInv, Present
<1>32. ASSUME NEW c \in Child, NEW o \in Ops, EndRun(c, o) PROVE RootInv'
  BY <1>32 DEF EndRun, Goto, RootInv, Present
<1>33. ASSUME NEW s \in Session, Stop(s) PROVE RootInv'
  <2>1. CASE s = Root
    <3>1. bg'[Root] = "stopping" /\ stop'[Root] = RootStop /\ member' = member
      BY <1>33, <2>1, Within DEF Stop, Begin
    <3>. HIDE DEF GroupInv, TypeInv, TypeOK
    <3>2. QED BY <3>1, GroupIs DEF RootInv, RootStop, Parent
  <2>2. CASE s # Root
    <3>1. UNCHANGED <<bg[Root], stop[Root], member>> /\ RootInv BY <1>33, <2>2, Within DEF Stop, Begin
    <3>. HIDE DEF GroupInv, TypeInv, TypeOK
    <3>2. QED BY <3>1 DEF RootInv, Parent
  <2>3. QED BY <2>1, <2>2
<1>34. ASSUME NEW c \in Child, StopLineage(c) PROVE RootInv'
  BY <1>34 DEF StopLineage, RootInv, Present
<1>35. ASSUME NEW c \in Child, StopHold(c) PROVE RootInv'
  BY <1>35 DEF StopHold, HoldReleased, RootInv, Present
<1>36. ASSUME ChildStopped PROVE RootInv'
  BY <1>36 DEF ChildStopped, RootInv, Present
<1>37. ASSUME NEW c \in Child, StopChild(c) PROVE RootInv'
  <2>1. \A m \in Member : member'[m] \in Present => member[m] \in Present BY <1>37, Within, ClaimStays DEF StopChild
  <2>2. bg'[Root] = bg[Root] /\ stop[Root].at = "members" /\ RootInv BY <1>37, Names DEF StopChild
  <2>3. stop'[Root].joins = stop[Root].joins
    <3>1. stop \in [Session -> Record] /\ stop[Root] \in Record BY Within
    <3>2. CASE stop' = [stop EXCEPT ![Root].todo = @ \ {c}] BY <3>1, <3>2, Within DEF Record
    <3>3. CASE stop' = [stop EXCEPT ![Root] = JoinChild(c)] BY <3>1, <3>3, Within DEF JoinChild
    <3>4. CASE stop' = [stop EXCEPT ![c] = Lineage(c), ![Root] = JoinChild(c)]
      BY <3>1, <3>4, Within DEF JoinChild
    <3>5. QED BY <1>37, <3>2, <3>3, <3>4 DEF StopChild
  <2>. HIDE DEF GroupInv, TypeInv, TypeOK
  <2>4. QED BY <2>1, <2>2, <2>3 DEF RootInv, Parent
<1>38. ASSUME NEW s \in Session, NEW j \in Job, StopJob(s, j) PROVE RootInv'
  <2>1. UNCHANGED <<bg, member>> /\ RootInv BY <1>38 DEF StopJob
  <2>2. stop'[Root].joins = stop[Root].joins /\ stop'[Root].at = stop[Root].at
    <3>1. stop \in [Session -> Record] OBVIOUS
    <3>2. CASE s = Root BY <1>38, <3>1, <3>2, Within DEF StopJob, Record
    <3>3. CASE s # Root BY <1>38, <3>1, <3>3, Within DEF StopJob
    <3>4. QED BY <3>2, <3>3
  <2>. HIDE DEF GroupInv, TypeInv, TypeOK
  <2>3. QED BY <2>1, <2>2 DEF RootInv, Parent
<1>39. ASSUME NEW s \in Session, StopEnds(s) PROVE RootInv'
  <2>1. RootInv /\ member' = member BY <1>39 DEF StopEnds
  <2>2. CASE s = Root BY <1>39, <2>1, <2>2, Within DEF StopEnds, NoStop, RootInv
  <2>3. CASE s # Root
    <3>1. UNCHANGED <<bg[Root], stop[Root]>> BY <1>39, <2>3, Within DEF StopEnds
    <3>. HIDE DEF GroupInv, TypeInv, TypeOK
    <3>2. QED BY <2>1, <3>1 DEF RootInv, Parent
  <2>4. QED BY <2>2, <2>3
<1>40. ASSUME Lose PROVE RootInv'
  BY <1>40 DEF Lose, RootInv, Present
<1>43. ASSUME NEW m \in Member, NEW c \in Child, DeliversInto(m, c) PROVE RootInv'
  <2>. HIDE DEF GroupInv, TypeInv, TypeOK, Delivering, Endings
  <2>1. /\ m \in Job /\ Owner[m] = c /\ member[m] = "claimed" /\ launch[c] \notin Unstarted
        /\ UNCHANGED <<bg, member, pending, corrupt, launch, job, canceled, submit, settle, stop>>
        /\ UNCHANGED <<ctx, cast, submits, stops, quieted>>
        /\ ending[m] \in Delivering \cup {"deliver"} /\ ending'[m] \in Delivering \cup {"finish"}
        /\ \A x \in Member : x # m => ending'[x] = ending[x]
        /\ \A d \in Child : d # c => Apart(d)
    BY <1>43, Deliveries
  <2>2. RootInv BY DEF GroupInv
  <2>3. QED BY <2>1, <2>2 DEF RootInv, Parent
<1>41. CASE UNCHANGED vars BY <1>41 DEF vars, RootInv, Present
<1>42. QED BY <1>1, <1>2, <1>3, <1>4, <1>5, <1>6, <1>7, <1>8, <1>9, <1>10, <1>11, <1>12, <1>13, <1>14,
     <1>15, <1>16, <1>17, <1>18, <1>19, <1>20, <1>21, <1>22, <1>23, <1>24, <1>25, <1>26, <1>27, <1>28,
     <1>29, <1>30, <1>31, <1>32, <1>33, <1>34, <1>35, <1>36, <1>37, <1>38, <1>39, <1>40, <1>41, <1>43 DEF Next,
     Launcher, JobStarter, Ending, Execution, Submits, Stopping

(* Every step keeps a stopped child's group closed and its buffers empty. *)
LEMMA ClosedStep == GroupInv /\ [Next]_vars => \A i \in Child : ClosedInv(i)'
<1>. SUFFICES ASSUME GroupInv, [Next]_vars, NEW i \in Child PROVE ClosedInv(i)' OBVIOUS
<1>. USE DEF GroupInv, TypeInv, TypeOK, Delivering, Endings, cells, procs, env
<1>1. ASSUME NEW c \in Child, AdmitChild(c) PROVE ClosedInv(i)'
  BY <1>1 DEF AdmitChild, Admits, ClosedInv
<1>2. ASSUME NEW c \in Child, CommitChild(c) PROVE ClosedInv(i)'
  BY <1>2 DEF CommitChild, Claim, Fault, ClosedInv
<1>3. ASSUME NEW c \in Child, HandChild(c) PROVE ClosedInv(i)'
  BY <1>3 DEF HandChild, HandoffHolds, ClosedInv
<1>4. ASSUME NEW c \in Child, AdoptChild(c) PROVE ClosedInv(i)'
  BY <1>4 DEF AdoptChild, Fault, Claim, ClosedInv
<1>5. ASSUME NEW c \in Child, StartChild(c) PROVE ClosedInv(i)'
  BY <1>5 DEF StartChild, Goto, ClosedInv
<1>6. ASSUME NEW c \in Child, SettleRejected(c) PROVE ClosedInv(i)'
  BY <1>6 DEF SettleRejected, Fault, ClosedInv
<1>7. ASSUME NEW c \in Child, FinishRejected(c) PROVE ClosedInv(i)'
  BY <1>7 DEF FinishRejected, Claim, ClosedInv
<1>8. ASSUME NEW c \in Child, SettleClaims(c) PROVE ClosedInv(i)'
  BY <1>8 DEF SettleClaims, Claim, ClosedInv
<1>9. ASSUME NEW c \in Child, SubmitReserves(c) PROVE ClosedInv(i)'
  BY <1>9 DEF SubmitReserves, ClosedInv
<1>10. ASSUME NEW c \in Child, SubmitRoutes(c) PROVE ClosedInv(i)'
  BY <1>10 DEF SubmitRoutes, ClosedInv
<1>11. ASSUME NEW c \in Child, SubmitAdmits(c) PROVE ClosedInv(i)'
  BY <1>11 DEF SubmitAdmits, NextOp, Free, ClosedInv
<1>12. ASSUME NEW c \in Child, SubmitInstalls(c) PROVE ClosedInv(i)'
  BY <1>12 DEF SubmitInstalls, Goto, ClosedInv
<1>13. ASSUME NEW c \in Child, SubmitReleases(c) PROVE ClosedInv(i)'
  BY <1>13 DEF SubmitReleases, ClosedInv
<1>14. ASSUME NEW j \in Job, ReserveJob(j) PROVE ClosedInv(i)'
  BY <1>14 DEF ReserveJob, Executing, ClosedInv
<1>15. ASSUME NEW j \in Job, AdmitJob(j) PROVE ClosedInv(i)'
  BY <1>15 DEF AdmitJob, Admits, ClosedInv
<1>16. ASSUME NEW j \in Job, HandJob(j) PROVE ClosedInv(i)'
  BY <1>16 DEF HandJob, Claim, HandoffHolds, ClosedInv
<1>17. ASSUME NEW j \in Job, Spawn(j) PROVE ClosedInv(i)'
  BY <1>17 DEF Spawn, Claim, ClosedInv
<1>18. ASSUME NEW j \in Job, JobReports(j) PROVE ClosedInv(i)'
  BY <1>18 DEF JobReports, Claim, ClosedInv
<1>19. ASSUME NEW j \in Job, JobExits(j) PROVE ClosedInv(i)'
  BY <1>19 DEF JobExits, ClosedInv
<1>20. ASSUME NEW m \in Member, DeliverToRoot(m) PROVE ClosedInv(i)'
  BY <1>20 DEF DeliverToRoot, Told, Fails, Refused, Then, Fault, ClosedInv
<1>21. ASSUME NEW m \in Member, Finish(m) PROVE ClosedInv(i)'
  BY <1>21 DEF Finish, ClosedInv
<1>22. ASSUME NEW m \in Member, FinishChecks(m) PROVE ClosedInv(i)'
  BY <1>22 DEF FinishChecks, CheckSettles, Decide, Fault, ClosedInv
<1>23. ASSUME NEW c \in Child, NEW o \in Ops, Enter(c, o) PROVE ClosedInv(i)'
  BY <1>23 DEF Enter, Goto, ClosedInv
<1>24. ASSUME NEW c \in Child, NEW o \in Ops, Reserve(c, o) PROVE ClosedInv(i)'
  BY <1>24 DEF Reserve, Goto, ClosedInv
<1>25. ASSUME NEW c \in Child, NEW o \in Ops, CommitTerminal(c, o) PROVE ClosedInv(i)'
  BY <1>25 DEF CommitTerminal, Goto, Fault, ClosedInv
<1>26. ASSUME NEW c \in Child, NEW o \in Ops, Drain(c, o) PROVE ClosedInv(i)'
  BY <1>26 DEF Drain, Goto, NextOp, Free, ClosedInv
<1>27. ASSUME NEW c \in Child, NEW o \in Ops, Install(c, o) PROVE ClosedInv(i)'
  BY <1>27 DEF Install, ClosedInv
<1>28. ASSUME NEW c \in Child, NEW o \in Ops, Release(c, o) PROVE ClosedInv(i)'
  BY <1>28 DEF Release, Goto, ClosedInv
<1>29. ASSUME NEW c \in Child, NEW o \in Ops, Retire(c, o) PROVE ClosedInv(i)'
  BY <1>29 DEF Retire, Goto, ClosedInv
<1>30. ASSUME NEW c \in Child, NEW o \in Ops, Tail(c, o) PROVE ClosedInv(i)'
  BY <1>30 DEF Tail, Goto, Decide, Fault, ClosedInv
<1>31. ASSUME NEW c \in Child, NEW o \in Ops, CloseDone(c, o) PROVE ClosedInv(i)'
  BY <1>31 DEF CloseDone, Goto, ClosedInv
<1>32. ASSUME NEW c \in Child, NEW o \in Ops, EndRun(c, o) PROVE ClosedInv(i)'
  BY <1>32 DEF EndRun, Goto, ClosedInv
<1>33. ASSUME NEW s \in Session, Stop(s) PROVE ClosedInv(i)'
  <2>1. UNCHANGED <<stop[i], bg[i], buffer[i]>> \/ Opened(i) BY <1>33, StopMoves
  <2>2. quieted' = quieted /\ ClosedInv(i) BY <1>33 DEF Stop
  <2>. HIDE DEF GroupInv, TypeInv, TypeOK
  <2>3. QED BY <2>1, <2>2 DEF ClosedInv, Opened, Lineage
<1>34. ASSUME NEW c \in Child, StopLineage(c) PROVE ClosedInv(i)'
  BY <1>34 DEF StopLineage, ClosedInv
<1>35. ASSUME NEW c \in Child, StopHold(c) PROVE ClosedInv(i)'
  BY <1>35 DEF StopHold, HoldReleased, ClosedInv
<1>36. ASSUME ChildStopped PROVE ClosedInv(i)'
  BY <1>36 DEF ChildStopped, ClosedInv
<1>37. ASSUME NEW c \in Child, StopChild(c) PROVE ClosedInv(i)'
  <2>1. UNCHANGED <<stop[i], bg[i], buffer[i]>> \/ Opened(i) BY <1>37, StopChildMoves
  <2>2. quieted' = quieted /\ ClosedInv(i) BY <1>37 DEF StopChild
  <2>. HIDE DEF GroupInv, TypeInv, TypeOK
  <2>3. QED BY <2>1, <2>2 DEF ClosedInv, Opened, Lineage
<1>38. ASSUME NEW s \in Session, NEW j \in Job, StopJob(s, j) PROVE ClosedInv(i)'
  <2>1. stop'[i].at = stop[i].at BY <1>38, Within, StopJobMoves
  <2>2. UNCHANGED <<bg, buffer, quieted>> /\ ClosedInv(i) BY <1>38 DEF StopJob
  <2>. HIDE DEF GroupInv, TypeInv, TypeOK
  <2>3. QED BY <2>1, <2>2 DEF ClosedInv
<1>39. ASSUME NEW s \in Session, StopEnds(s) PROVE ClosedInv(i)'
  <2>1. /\ s # i => UNCHANGED <<stop[i], bg[i]>>
        /\ s = i => stop[i].at = "members" /\ bg'[i] = (IF bg[i] = "stopping" THEN "open" ELSE bg[i])
    BY <1>39, Within, StopEndsMoves
  <2>2. buffer' = buffer /\ ClosedInv(i) /\ quieted \subseteq quieted' /\ (s = i => i \in quieted')
    BY <1>39, Names DEF StopEnds
  <2>. HIDE DEF GroupInv, TypeInv, TypeOK
  <2>3. QED BY <2>1, <2>2 DEF ClosedInv
<1>40. ASSUME Lose PROVE ClosedInv(i)'
  BY <1>40 DEF Lose, ClosedInv
<1>43. ASSUME NEW m \in Member, NEW c \in Child, DeliversInto(m, c) PROVE ClosedInv(i)'
  <2>. HIDE DEF GroupInv, TypeInv, TypeOK, Delivering, Endings
  <2>1. /\ m \in Job /\ Owner[m] = c /\ member[m] = "claimed" /\ launch[c] \notin Unstarted
        /\ UNCHANGED <<bg, member, pending, corrupt, launch, job, canceled, submit, settle, stop>>
        /\ UNCHANGED <<ctx, cast, submits, stops, quieted>>
        /\ ending[m] \in Delivering \cup {"deliver"} /\ ending'[m] \in Delivering \cup {"finish"}
        /\ \A x \in Member : x # m => ending'[x] = ending[x]
        /\ \A d \in Child : d # c => Apart(d)
    BY <1>43, Deliveries
  <2>2. ClosedInv(i) BY DEF GroupInv
  <2>3. bg[i] = "closed" => buffer'[i] = buffer[i] BY <1>43, <2>1, DeliveryMoves DEF Apart, Receives
  <2>4. QED BY <2>1, <2>2, <2>3 DEF ClosedInv
<1>41. CASE UNCHANGED vars BY <1>41 DEF vars, ClosedInv
<1>42. QED BY <1>1, <1>2, <1>3, <1>4, <1>5, <1>6, <1>7, <1>8, <1>9, <1>10, <1>11, <1>12, <1>13, <1>14,
     <1>15, <1>16, <1>17, <1>18, <1>19, <1>20, <1>21, <1>22, <1>23, <1>24, <1>25, <1>26, <1>27, <1>28,
     <1>29, <1>30, <1>31, <1>32, <1>33, <1>34, <1>35, <1>36, <1>37, <1>38, <1>39, <1>40, <1>41, <1>43 DEF Next,
     Launcher, JobStarter, Ending, Execution, Submits, Stopping

(* Every step keeps a child's jobs captured by its stop. *)
LEMMA CapturedStep == GroupInv /\ [Next]_vars => \A i \in Child : CapturedInv(i)'
<1>. SUFFICES ASSUME GroupInv, [Next]_vars, NEW i \in Child PROVE CapturedInv(i)' OBVIOUS
<1>. USE DEF GroupInv, TypeInv, TypeOK, Delivering, Endings, cells, procs, env
<1>1. ASSUME NEW c \in Child, AdmitChild(c) PROVE CapturedInv(i)'
  <2>1. stop' = stop /\ CapturedInv(i) BY <1>1 DEF AdmitChild
  <2>2. \A x \in Job : member'[x] \in Present => member[x] \in Present BY <1>1, Names DEF AdmitChild
  <2>. HIDE DEF GroupInv, TypeInv, TypeOK
  <2>3. QED BY <2>1, <2>2 DEF CapturedInv
<1>2. ASSUME NEW c \in Child, CommitChild(c) PROVE CapturedInv(i)'
  <2>1. stop' = stop /\ CapturedInv(i) BY <1>2 DEF CommitChild
  <2>2. \A x \in Job : member'[x] \in Present => member[x] \in Present BY <1>2, Within, ClaimStays DEF CommitChild
  <2>. HIDE DEF GroupInv, TypeInv, TypeOK
  <2>3. QED BY <2>1, <2>2 DEF CapturedInv
<1>3. ASSUME NEW c \in Child, HandChild(c) PROVE CapturedInv(i)'
  BY <1>3 DEF HandChild, HandoffHolds, CapturedInv, Present
<1>4. ASSUME NEW c \in Child, AdoptChild(c) PROVE CapturedInv(i)'
  <2>1. stop' = stop /\ CapturedInv(i) BY <1>4 DEF AdoptChild
  <2>2. \A x \in Job : member'[x] \in Present => member[x] \in Present BY <1>4, Within, ClaimStays DEF AdoptChild
  <2>. HIDE DEF GroupInv, TypeInv, TypeOK
  <2>3. QED BY <2>1, <2>2 DEF CapturedInv
<1>5. ASSUME NEW c \in Child, StartChild(c) PROVE CapturedInv(i)'
  BY <1>5 DEF StartChild, Goto, CapturedInv, Present
<1>6. ASSUME NEW c \in Child, SettleRejected(c) PROVE CapturedInv(i)'
  BY <1>6 DEF SettleRejected, Fault, CapturedInv, Present
<1>7. ASSUME NEW c \in Child, FinishRejected(c) PROVE CapturedInv(i)'
  <2>1. stop' = stop /\ CapturedInv(i) BY <1>7 DEF FinishRejected
  <2>2. \A x \in Job : member'[x] \in Present => member[x] \in Present BY <1>7, Within, ClaimStays DEF FinishRejected
  <2>. HIDE DEF GroupInv, TypeInv, TypeOK
  <2>3. QED BY <2>1, <2>2 DEF CapturedInv
<1>8. ASSUME NEW c \in Child, SettleClaims(c) PROVE CapturedInv(i)'
  <2>1. stop' = stop /\ CapturedInv(i) BY <1>8 DEF SettleClaims
  <2>2. \A x \in Job : member'[x] \in Present => member[x] \in Present BY <1>8, Within, ClaimStays DEF SettleClaims
  <2>. HIDE DEF GroupInv, TypeInv, TypeOK
  <2>3. QED BY <2>1, <2>2 DEF CapturedInv
<1>9. ASSUME NEW c \in Child, SubmitReserves(c) PROVE CapturedInv(i)'
  BY <1>9 DEF SubmitReserves, CapturedInv, Present
<1>10. ASSUME NEW c \in Child, SubmitRoutes(c) PROVE CapturedInv(i)'
  BY <1>10 DEF SubmitRoutes, CapturedInv, Present
<1>11. ASSUME NEW c \in Child, SubmitAdmits(c) PROVE CapturedInv(i)'
  BY <1>11 DEF SubmitAdmits, NextOp, Free, CapturedInv, Present
<1>12. ASSUME NEW c \in Child, SubmitInstalls(c) PROVE CapturedInv(i)'
  BY <1>12 DEF SubmitInstalls, Goto, CapturedInv, Present
<1>13. ASSUME NEW c \in Child, SubmitReleases(c) PROVE CapturedInv(i)'
  BY <1>13 DEF SubmitReleases, CapturedInv, Present
<1>14. ASSUME NEW j \in Job, ReserveJob(j) PROVE CapturedInv(i)'
  BY <1>14 DEF ReserveJob, Executing, CapturedInv, Present
<1>15. ASSUME NEW j \in Job, AdmitJob(j) PROVE CapturedInv(i)'
  <2>1. stop' = stop /\ CapturedInv(i) /\ ClosedInv(i) BY <1>15 DEF AdmitJob
  <2>2. \A x \in Job : x # j => member'[x] = member[x] BY <1>15, Within DEF AdmitJob
  <2>3. Owner[j] = i => bg[i] = "open" \/ member' = member BY <1>15, GroupIs DEF AdmitJob, Admits
  <2>. HIDE DEF GroupInv, TypeInv, TypeOK
  <2>4. QED BY <2>1, <2>2, <2>3 DEF CapturedInv, ClosedInv
<1>16. ASSUME NEW j \in Job, HandJob(j) PROVE CapturedInv(i)'
  <2>1. stop' = stop /\ CapturedInv(i) BY <1>16 DEF HandJob
  <2>2. \A x \in Job : member'[x] \in Present => member[x] \in Present BY <1>16, Within, ClaimStays DEF HandJob
  <2>. HIDE DEF GroupInv, TypeInv, TypeOK
  <2>3. QED BY <2>1, <2>2 DEF CapturedInv
<1>17. ASSUME NEW j \in Job, Spawn(j) PROVE CapturedInv(i)'
  <2>1. stop' = stop /\ CapturedInv(i) BY <1>17 DEF Spawn
  <2>2. \A x \in Job : member'[x] \in Present => member[x] \in Present BY <1>17, Within, ClaimStays DEF Spawn
  <2>. HIDE DEF GroupInv, TypeInv, TypeOK
  <2>3. QED BY <2>1, <2>2 DEF CapturedInv
<1>18. ASSUME NEW j \in Job, JobReports(j) PROVE CapturedInv(i)'
  <2>1. stop' = stop /\ CapturedInv(i) BY <1>18 DEF JobReports
  <2>2. \A x \in Job : member'[x] \in Present => member[x] \in Present BY <1>18, Within, ClaimStays DEF JobReports
  <2>. HIDE DEF GroupInv, TypeInv, TypeOK
  <2>3. QED BY <2>1, <2>2 DEF CapturedInv
<1>19. ASSUME NEW j \in Job, JobExits(j) PROVE CapturedInv(i)'
  BY <1>19 DEF JobExits, CapturedInv, Present
<1>20. ASSUME NEW m \in Member, DeliverToRoot(m) PROVE CapturedInv(i)'
  BY <1>20 DEF DeliverToRoot, Told, Fails, Refused, Then, Fault, CapturedInv, Present
<1>21. ASSUME NEW m \in Member, Finish(m) PROVE CapturedInv(i)'
  BY <1>21 DEF Finish, CapturedInv, Present
<1>22. ASSUME NEW m \in Member, FinishChecks(m) PROVE CapturedInv(i)'
  BY <1>22 DEF FinishChecks, CheckSettles, Decide, Fault, CapturedInv, Present
<1>23. ASSUME NEW c \in Child, NEW o \in Ops, Enter(c, o) PROVE CapturedInv(i)'
  BY <1>23 DEF Enter, Goto, CapturedInv, Present
<1>24. ASSUME NEW c \in Child, NEW o \in Ops, Reserve(c, o) PROVE CapturedInv(i)'
  BY <1>24 DEF Reserve, Goto, CapturedInv, Present
<1>25. ASSUME NEW c \in Child, NEW o \in Ops, CommitTerminal(c, o) PROVE CapturedInv(i)'
  BY <1>25 DEF CommitTerminal, Goto, Fault, CapturedInv, Present
<1>26. ASSUME NEW c \in Child, NEW o \in Ops, Drain(c, o) PROVE CapturedInv(i)'
  BY <1>26 DEF Drain, Goto, NextOp, Free, CapturedInv, Present
<1>27. ASSUME NEW c \in Child, NEW o \in Ops, Install(c, o) PROVE CapturedInv(i)'
  BY <1>27 DEF Install, CapturedInv, Present
<1>28. ASSUME NEW c \in Child, NEW o \in Ops, Release(c, o) PROVE CapturedInv(i)'
  BY <1>28 DEF Release, Goto, CapturedInv, Present
<1>29. ASSUME NEW c \in Child, NEW o \in Ops, Retire(c, o) PROVE CapturedInv(i)'
  BY <1>29 DEF Retire, Goto, CapturedInv, Present
<1>30. ASSUME NEW c \in Child, NEW o \in Ops, Tail(c, o) PROVE CapturedInv(i)'
  BY <1>30 DEF Tail, Goto, Decide, Fault, CapturedInv, Present
<1>31. ASSUME NEW c \in Child, NEW o \in Ops, CloseDone(c, o) PROVE CapturedInv(i)'
  BY <1>31 DEF CloseDone, Goto, CapturedInv, Present
<1>32. ASSUME NEW c \in Child, NEW o \in Ops, EndRun(c, o) PROVE CapturedInv(i)'
  BY <1>32 DEF EndRun, Goto, CapturedInv, Present
<1>33. ASSUME NEW s \in Session, Stop(s) PROVE CapturedInv(i)'
  <2>1. stop'[i] = stop[i] \/ Opened(i) BY <1>33, StopMoves
  <2>2. member' = member /\ CapturedInv(i) BY <1>33 DEF Stop
  <2>. HIDE DEF GroupInv, TypeInv, TypeOK
  <2>3. QED BY <2>1, <2>2, GroupIs DEF CapturedInv, Opened, Lineage
<1>34. ASSUME NEW c \in Child, StopLineage(c) PROVE CapturedInv(i)'
  <2>1. stop'[i].at # "none" => stop[i].at # "none" /\ stop[i].joins \subseteq stop'[i].joins BY <1>34, LineageMoves
  <2>2. member' = member /\ CapturedInv(i) BY <1>34 DEF StopLineage
  <2>. HIDE DEF GroupInv, TypeInv, TypeOK
  <2>3. QED BY <2>1, <2>2 DEF CapturedInv
<1>35. ASSUME NEW c \in Child, StopHold(c) PROVE CapturedInv(i)'
  <2>1. stop'[i].at # "none" => stop[i].at # "none" /\ stop[i].joins \subseteq stop'[i].joins BY <1>35, HoldMoves
  <2>2. member' = member /\ CapturedInv(i) BY <1>35 DEF StopHold
  <2>. HIDE DEF GroupInv, TypeInv, TypeOK
  <2>3. QED BY <2>1, <2>2 DEF CapturedInv
<1>36. ASSUME ChildStopped PROVE CapturedInv(i)'
  BY <1>36 DEF ChildStopped, CapturedInv, Present
<1>37. ASSUME NEW c \in Child, StopChild(c) PROVE CapturedInv(i)'
  <2>1. stop'[i] = stop[i] \/ Opened(i) BY <1>37, StopChildMoves
  <2>2. CapturedInv(i) /\ \A x \in Job : member'[x] \in Present => member[x] \in Present
    BY <1>37, Within, ClaimStays DEF StopChild
  <2>. HIDE DEF GroupInv, TypeInv, TypeOK
  <2>3. QED BY <2>1, <2>2, GroupIs DEF CapturedInv, Opened, Lineage
<1>38. ASSUME NEW s \in Session, NEW j \in Job, StopJob(s, j) PROVE CapturedInv(i)'
  <2>1. stop'[i].at = stop[i].at /\ stop'[i].joins = stop[i].joins BY <1>38, Within, StopJobMoves
  <2>2. member' = member /\ CapturedInv(i) BY <1>38 DEF StopJob
  <2>. HIDE DEF GroupInv, TypeInv, TypeOK
  <2>3. QED BY <2>1, <2>2 DEF CapturedInv
<1>39. ASSUME NEW s \in Session, StopEnds(s) PROVE CapturedInv(i)'
  <2>1. stop'[i] = stop[i] \/ stop'[i].at = "none" BY <1>39, Within, StopEndsMoves DEF NoStop
  <2>2. member' = member /\ CapturedInv(i) BY <1>39 DEF StopEnds
  <2>. HIDE DEF GroupInv, TypeInv, TypeOK
  <2>3. QED BY <2>1, <2>2 DEF CapturedInv
<1>40. ASSUME Lose PROVE CapturedInv(i)'
  BY <1>40 DEF Lose, CapturedInv, Present
<1>43. ASSUME NEW m \in Member, NEW c \in Child, DeliversInto(m, c) PROVE CapturedInv(i)'
  <2>. HIDE DEF GroupInv, TypeInv, TypeOK, Delivering, Endings
  <2>1. /\ m \in Job /\ Owner[m] = c /\ member[m] = "claimed" /\ launch[c] \notin Unstarted
        /\ UNCHANGED <<bg, member, pending, corrupt, launch, job, canceled, submit, settle, stop>>
        /\ UNCHANGED <<ctx, cast, submits, stops, quieted>>
        /\ ending[m] \in Delivering \cup {"deliver"} /\ ending'[m] \in Delivering \cup {"finish"}
        /\ \A x \in Member : x # m => ending'[x] = ending[x]
        /\ \A d \in Child : d # c => Apart(d)
    BY <1>43, Deliveries
  <2>2. CapturedInv(i) BY DEF GroupInv
  <2>3. QED BY <2>1, <2>2 DEF CapturedInv
<1>41. CASE UNCHANGED vars BY <1>41 DEF vars, CapturedInv, Present
<1>42. QED BY <1>1, <1>2, <1>3, <1>4, <1>5, <1>6, <1>7, <1>8, <1>9, <1>10, <1>11, <1>12, <1>13, <1>14,
     <1>15, <1>16, <1>17, <1>18, <1>19, <1>20, <1>21, <1>22, <1>23, <1>24, <1>25, <1>26, <1>27, <1>28,
     <1>29, <1>30, <1>31, <1>32, <1>33, <1>34, <1>35, <1>36, <1>37, <1>38, <1>39, <1>40, <1>41, <1>43 DEF Next,
     Launcher, JobStarter, Ending, Execution, Submits, Stopping

(* Every step keeps a child's run captured by its stop. *)
LEMMA SeenStep == GroupInv /\ [Next]_vars => \A i \in Child : SeenInv(i)'
<1>. SUFFICES ASSUME GroupInv, [Next]_vars, NEW i \in Child PROVE SeenInv(i)' OBVIOUS
<1>. USE DEF GroupInv, TypeInv, TypeOK, Delivering, Endings, cells, procs, env
<1>1. ASSUME NEW c \in Child, AdmitChild(c) PROVE SeenInv(i)'
  BY <1>1 DEF AdmitChild, Admits, SeenInv, Awaited, Fresh
<1>2. ASSUME NEW c \in Child, CommitChild(c) \/ AdoptChild(c) \/ FinishRejected(c) \/ SettleClaims(c) PROVE SeenInv(i)'
  <2>1. UNCHANGED <<stop[i], run[i]>> /\ SeenInv(i) BY <1>2 DEF CommitChild, AdoptChild, FinishRejected, SettleClaims
  <2>2. ASSUME stop[i].at # "none", Fresh(i) PROVE Fresh(i)'
    <3>1. c # i BY <1>2, <2>2 DEF Fresh, CommitChild, AdoptChild, FinishRejected, SettleClaims
    <3>2. UNCHANGED <<launch[i], member[i], settle[i], exec, run, stop, job>>
      BY <1>2, <3>1, Within, ClaimIs DEF CommitChild, AdoptChild, FinishRejected, SettleClaims
    <3>. HIDE DEF GroupInv, TypeInv, TypeOK
    <3>3. QED BY <2>2, <3>2 DEF Fresh
  <2>. HIDE DEF GroupInv, TypeInv, TypeOK
  <2>3. QED BY <2>1, <2>2 DEF SeenInv, Awaited
<1>4. ASSUME NEW j \in Job, ReserveJob(j) \/ AdmitJob(j) \/ HandJob(j) \/ Spawn(j) \/ JobReports(j) PROVE SeenInv(i)'
  <2>1. UNCHANGED <<launch, settle, exec, run, stop>> /\ SeenInv(i) BY <1>4 DEF ReserveJob, AdmitJob, HandJob, Spawn, JobReports
  <2>2. ASSUME stop[i].at # "none", Fresh(i) PROVE Fresh(i)'
    <3>1. Owner[j] # i
      <4>1. Owner[j] = i /\ ReserveJob(j) => \E o \in Ops : exec[i][o] = "running" BY Names DEF ReserveJob, Executing
      <4>2. ~ReserveJob(j) => job[j] \notin {"absent", "none"} BY <1>4 DEF AdmitJob, HandJob, Spawn, JobReports
      <4>3. QED BY <2>2, <4>1, <4>2 DEF Fresh
    <3>2. member'[i] = member[i] /\ \A x \in Job : x # j => job'[x] = job[x]
      BY <1>4, Names, Within, ClaimIs DEF ReserveJob, AdmitJob, HandJob, Spawn, JobReports
    <3>. HIDE DEF GroupInv, TypeInv, TypeOK
    <3>3. QED BY <2>1, <2>2, <3>1, <3>2 DEF Fresh
  <2>. HIDE DEF GroupInv, TypeInv, TypeOK
  <2>3. QED BY <2>1, <2>2 DEF SeenInv, Awaited
<1>7. ASSUME NEW c \in Child, NEW o \in Ops, Reserve(c, o) \/ CommitTerminal(c, o) \/ Release(c, o) \/ CloseDone(c, o) PROVE SeenInv(i)'
  <2>1. UNCHANGED <<stop[i], run[i]>> /\ SeenInv(i) BY <1>7 DEF Reserve, CommitTerminal, Release, CloseDone
  <2>2. ASSUME stop[i].at # "none", Fresh(i) PROVE Fresh(i)'
    <3>1. UNCHANGED <<launch, settle, run, stop, member, job>> BY <1>7 DEF Reserve, CommitTerminal, Release, CloseDone
    <3>2. \E l \in {"settling", "drain", "retire", "done"} : Goto(c, o, l) /\ exec[c][o] \notin {"none", "entry", "running"}
      BY <1>7 DEF Reserve, CommitTerminal, Release, CloseDone
    <3>3. exec'[c][o] \in {"settling", "drain", "retire", "done"} /\ \A p \in Ops : c # i \/ p # o => exec'[i][p] = exec[i][p]
      BY <3>2, GotoIs DEF Places
    <3>4. c = i => o = 1 BY <2>2, <3>2 DEF Fresh
    <3>. HIDE DEF GroupInv, TypeInv, TypeOK
    <3>5. QED BY <2>2, <3>1, <3>3, <3>4, Within DEF Fresh
  <2>. HIDE DEF GroupInv, TypeInv, TypeOK
  <2>3. QED BY <2>1, <2>2 DEF SeenInv, Awaited
<1>3. ASSUME NEW c \in Child, HandChild(c) PROVE SeenInv(i)'
  BY <1>3 DEF HandChild, HandoffHolds, SeenInv, Awaited, Fresh
<1>5. ASSUME NEW c \in Child, StartChild(c) PROVE SeenInv(i)'
  <2>1. UNCHANGED <<stop, job, member, settle>> /\ SeenInv(i) BY <1>5 DEF StartChild
  <2>2. CASE c # i
    <3>1. UNCHANGED <<launch[i], exec[i], run[i]>> BY <1>5, <2>2 DEF StartChild, Goto
    <3>. HIDE DEF GroupInv, TypeInv, TypeOK
    <3>2. QED BY <2>1, <3>1 DEF SeenInv, Awaited, Fresh
  <2>3. CASE c = i
    <3>1. launch[c] = "adopted" /\ launch'[c] = "started" /\ run'[c] = 1 /\ Goto(c, 1, "entry") BY <1>5 DEF StartChild
    <3>2. /\ member[c] = "live" /\ settle[c] = "none" /\ \A o \in Ops : exec[c][o] = "none"
          /\ stop[c].at # "none" => stop[c].at = "lineage" \/ c \in stop[c].joins
      BY <3>1 DEF LaunchInv, Starting, Unstarted, WindowInv
    <3>3. \A j \in Job : Owner[j] = c => job[j] \in {"absent", "none"} BY <3>1 DEF JobInv, Unstarted, Starting
    <3>4. exec'[c][1] = "entry" /\ \A p \in Ops : p # 1 => exec'[c][p] = exec[c][p] BY <3>1, GotoIs, Within DEF Places
    <3>. HIDE DEF GroupInv, TypeInv, TypeOK
    <3>5. QED BY <2>1, <2>3, <3>1, <3>2, <3>3, <3>4 DEF SeenInv, Fresh
  <2>4. QED BY <2>2, <2>3
<1>6. ASSUME NEW c \in Child, SettleRejected(c) PROVE SeenInv(i)'
  BY <1>6 DEF SettleRejected, Fault, SeenInv, Awaited, Fresh
<1>9. ASSUME NEW c \in Child, SubmitReserves(c) PROVE SeenInv(i)'
  BY <1>9 DEF SubmitReserves, SeenInv, Awaited, Fresh
<1>10. ASSUME NEW c \in Child, SubmitRoutes(c) PROVE SeenInv(i)'
  BY <1>10 DEF SubmitRoutes, SeenInv, Awaited, Fresh
<1>11. ASSUME NEW c \in Child, SubmitAdmits(c) PROVE SeenInv(i)'
  BY <1>11 DEF SubmitAdmits, NextOp, Free, SeenInv, Awaited, Fresh
<1>12. ASSUME NEW c \in Child, SubmitInstalls(c) PROVE SeenInv(i)'
  <2>1. UNCHANGED <<stop, job, member, settle, launch>> /\ SeenInv(i) BY <1>12 DEF SubmitInstalls
  <2>2. CASE c # i
    <3>1. UNCHANGED <<exec[i], run[i]>> BY <1>12, <2>2 DEF SubmitInstalls, Goto
    <3>. HIDE DEF GroupInv, TypeInv, TypeOK
    <3>2. QED BY <2>1, <3>1 DEF SeenInv, Awaited, Fresh
  <2>3. CASE c = i
    <3>1. submit[c] = "install" BY <1>12 DEF SubmitInstalls
    <3>2. reserved[i] # 0 BY <2>3, <3>1, Names DEF HoldInv, Admitting
    <3>3. stop[i].at # "none" => stop[i].at \in {"lineage", "hold"} /\ reserved[i] = stop[i].hold
      BY <2>3, <3>1 DEF WindowInv, Admitting
    <3>. HIDE DEF GroupInv, TypeInv, TypeOK
    <3>4. QED BY <2>1, <3>2, <3>3 DEF SeenInv, Awaited
  <2>4. QED BY <2>2, <2>3
<1>13. ASSUME NEW c \in Child, SubmitReleases(c) PROVE SeenInv(i)'
  BY <1>13 DEF SubmitReleases, SeenInv, Awaited, Fresh
<1>19. ASSUME NEW j \in Job, JobExits(j) PROVE SeenInv(i)'
  <2>1. UNCHANGED <<stop[i], run[i]>> /\ SeenInv(i) BY <1>19 DEF JobExits
  <2>2. ASSUME stop[i].at # "none", Fresh(i) PROVE Fresh(i)'
    <3>1. Owner[j] # i BY <1>19, <2>2 DEF Fresh, JobExits
    <3>2. UNCHANGED <<launch, settle, exec, run, stop, member>> /\ \A x \in Job : x # j => job'[x] = job[x] BY <1>19 DEF JobExits
    <3>. HIDE DEF GroupInv, TypeInv, TypeOK
    <3>3. QED BY <2>2, <3>1, <3>2 DEF Fresh
  <2>. HIDE DEF GroupInv, TypeInv, TypeOK
  <2>3. QED BY <2>1, <2>2 DEF SeenInv, Awaited
<1>20. ASSUME NEW m \in Member, DeliverToRoot(m) PROVE SeenInv(i)'
  BY <1>20 DEF DeliverToRoot, Told, Fails, Refused, Then, Fault, SeenInv, Awaited, Fresh
<1>21. ASSUME NEW m \in Member, Finish(m) PROVE SeenInv(i)'
  BY <1>21 DEF Finish, SeenInv, Awaited, Fresh
<1>22. ASSUME NEW m \in Member, FinishChecks(m) PROVE SeenInv(i)'
  <2>1. UNCHANGED <<stop[i], run[i]>> /\ SeenInv(i) BY <1>22 DEF FinishChecks
  <2>2. ASSUME stop[i].at # "none", Fresh(i) PROVE Fresh(i)'
    <3>1. m \in Job /\ Owner[m] \in Child /\ Decide(Owner[m], 0) BY <1>22, Names, GroupIs DEF FinishChecks, CheckSettles, LifeInv
    <3>2. Owner[m] # i
      <4>1. member[m] # "none" BY <1>22 DEF FinishChecks, CheckSettles, LifeInv
      <4>2. job[m] \notin {"absent", "none"} BY <3>1, <4>1 DEF JobInv
      <4>3. QED BY <2>2, <3>1, <4>2 DEF Fresh
    <3>3. settle'[i] = settle[i] BY <3>1, <3>2 DEF Decide
    <3>4. UNCHANGED <<launch, exec, run, stop, member, job>> BY <1>22 DEF FinishChecks
    <3>. HIDE DEF GroupInv, TypeInv, TypeOK
    <3>5. QED BY <2>2, <3>3, <3>4 DEF Fresh
  <2>. HIDE DEF GroupInv, TypeInv, TypeOK
  <2>3. QED BY <2>1, <2>2 DEF SeenInv, Awaited
<1>23. ASSUME NEW c \in Child, NEW o \in Ops, Enter(c, o) PROVE SeenInv(i)'
  <2>1. UNCHANGED <<stop[i], run[i]>> /\ SeenInv(i) BY <1>23 DEF Enter
  <2>2. ASSUME stop[i].at # "none", Fresh(i) PROVE Fresh(i)'
    <3>1. UNCHANGED <<launch, settle, run, stop, member, job>> BY <1>23 DEF Enter
    <3>2. c # i => exec'[i] = exec[i] BY <1>23 DEF Enter, Goto
    <3>3. CASE c = i
      <4>1. o = 1 BY <1>23, <2>2, <3>3 DEF Enter, Fresh
      <4>2. bg[c] = "closed" BY <2>2, <3>3 DEF ClosedInv
      <4>3. Goto(c, 1, "over") BY <1>23, <4>1, <4>2 DEF Enter
      <4>4. exec'[c][1] = "over" /\ \A p \in Ops : p # 1 => exec'[c][p] = exec[c][p] BY <4>3, GotoIs, Within DEF Places
      <4>. HIDE DEF GroupInv, TypeInv, TypeOK
      <4>5. QED BY <2>2, <3>1, <3>3, <4>4 DEF Fresh
    <3>. HIDE DEF GroupInv, TypeInv, TypeOK
    <3>4. QED BY <2>2, <3>1, <3>2, <3>3 DEF Fresh
  <2>. HIDE DEF GroupInv, TypeInv, TypeOK
  <2>3. QED BY <2>1, <2>2 DEF SeenInv, Awaited
<1>26. ASSUME NEW c \in Child, NEW o \in Ops, Drain(c, o) PROVE SeenInv(i)'
  <2>1. UNCHANGED <<stop, job, member, settle, launch>> /\ SeenInv(i) BY <1>26 DEF Drain
  <2>2. CASE c # i
    <3>1. UNCHANGED <<exec[i], run[i]>> BY <1>26, <2>2 DEF Drain, Goto
    <3>. HIDE DEF GroupInv, TypeInv, TypeOK
    <3>2. QED BY <2>1, <3>1 DEF SeenInv, Awaited, Fresh
  <2>3. CASE c = i
    <3>1. run'[i] \in {0, run[i]} BY <1>26, <2>3 DEF Drain
    <3>2. ASSUME stop[i].at # "none", Fresh(i), run'[i] = run[i] PROVE Fresh(i)'
      <4>1. exec[c][o] = "drain" /\ o = 1 BY <1>26, <2>3, <3>2 DEF Drain, Fresh
      <4>2. buffer[c] = 0 /\ buffer[c] \in Nat BY <2>3, <3>2 DEF ClosedInv
      <4>3. Goto(c, o, "release") BY <1>26, <4>2 DEF Drain
      <4>4. exec'[c][o] = "release" /\ \A p \in Ops : p # o => exec'[c][p] = exec[c][p] BY <4>3, GotoIs DEF Places
      <4>. HIDE DEF GroupInv, TypeInv, TypeOK
      <4>5. QED BY <2>1, <2>3, <3>2, <4>1, <4>4 DEF Fresh
    <3>. HIDE DEF GroupInv, TypeInv, TypeOK
    <3>3. QED BY <2>1, <3>1, <3>2 DEF SeenInv, Awaited
  <2>4. QED BY <2>2, <2>3
<1>27. ASSUME NEW c \in Child, NEW o \in Ops, Install(c, o) PROVE SeenInv(i)'
  <2>1. UNCHANGED <<stop, job, member, settle, launch>> /\ SeenInv(i) BY <1>27 DEF Install
  <2>2. CASE c # i
    <3>1. UNCHANGED <<exec[i], run[i]>> BY <1>27, <2>2 DEF Install, Goto
    <3>. HIDE DEF GroupInv, TypeInv, TypeOK
    <3>2. QED BY <2>1, <3>1 DEF SeenInv, Awaited, Fresh
  <2>3. CASE c = i
    <3>1. exec[c][o] = "install" BY <1>27 DEF Install
    <3>2. reserved[i] # 0 BY <2>3, <3>1, Names DEF HoldInv, Admitting
    <3>3. stop[i].at # "none" => stop[i].at \in {"lineage", "hold"} /\ reserved[i] = stop[i].hold
      BY <2>3, <3>1 DEF WindowInv, Admitting
    <3>. HIDE DEF GroupInv, TypeInv, TypeOK
    <3>4. QED BY <2>1, <3>2, <3>3 DEF SeenInv, Awaited
  <2>4. QED BY <2>2, <2>3
<1>29. ASSUME NEW c \in Child, NEW o \in Ops, Retire(c, o) PROVE SeenInv(i)'
  <2>1. UNCHANGED <<stop, job, member, settle, launch>> /\ SeenInv(i) BY <1>29 DEF Retire
  <2>2. CASE c # i
    <3>1. UNCHANGED <<exec[i], run[i]>> BY <1>29, <2>2 DEF Retire, Goto
    <3>. HIDE DEF GroupInv, TypeInv, TypeOK
    <3>2. QED BY <2>1, <3>1 DEF SeenInv, Awaited, Fresh
  <2>3. CASE c = i
    <3>1. run'[i] = (IF run[i] = o THEN 0 ELSE run[i]) /\ exec[i][o] = "retire" BY <1>29, <2>3 DEF Retire
    <3>2. run[i] # o => ~Fresh(i) BY <3>1 DEF Fresh
    <3>. HIDE DEF GroupInv, TypeInv, TypeOK
    <3>3. QED BY <2>1, <3>1, <3>2 DEF SeenInv, Awaited
  <2>4. QED BY <2>2, <2>3
<1>30. ASSUME NEW c \in Child, NEW o \in Ops, Tail(c, o) PROVE SeenInv(i)'
  <2>1. UNCHANGED <<stop[i], run[i]>> /\ SeenInv(i) BY <1>30 DEF Tail
  <2>2. ASSUME stop[i].at # "none", Fresh(i) PROVE Fresh(i)'
    <3>1. UNCHANGED <<launch, run, stop, member, job>> /\ Decide(c, o) /\ exec[c][o] = "tail" BY <1>30 DEF Tail
    <3>2. c # i
      <4>1. run[i] = 1 /\ \A p \in Ops : p # 1 => exec[i][p] = "none" BY <2>2 DEF Fresh
      <4>2. exec[i][1] # "tail" BY <4>1, Within DEF RunInv, Holding
      <4>3. QED BY <3>1, <4>1, <4>2
    <3>3. settle'[i] = settle[i] /\ exec'[i] = exec[i] BY <1>30, <3>1, <3>2 DEF Decide, Tail, Goto
    <3>. HIDE DEF GroupInv, TypeInv, TypeOK
    <3>4. QED BY <2>2, <3>1, <3>3 DEF Fresh
  <2>. HIDE DEF GroupInv, TypeInv, TypeOK
  <2>3. QED BY <2>1, <2>2 DEF SeenInv, Awaited
<1>32. ASSUME NEW c \in Child, NEW o \in Ops, EndRun(c, o) PROVE SeenInv(i)'
  <2>1. UNCHANGED <<stop[i], run[i]>> /\ SeenInv(i) BY <1>32 DEF EndRun
  <2>2. ASSUME stop[i].at # "none", Fresh(i) PROVE Fresh(i)'
    <3>1. UNCHANGED <<launch, settle, run, stop, member, job>> BY <1>32 DEF EndRun
    <3>2. c # i BY <1>32, <2>2 DEF EndRun, Fresh
    <3>3. exec'[i] = exec[i] BY <1>32, <3>2 DEF EndRun, Goto
    <3>. HIDE DEF GroupInv, TypeInv, TypeOK
    <3>4. QED BY <2>2, <3>1, <3>3 DEF Fresh
  <2>. HIDE DEF GroupInv, TypeInv, TypeOK
  <2>3. QED BY <2>1, <2>2 DEF SeenInv, Awaited
<1>33. ASSUME NEW s \in Session, Stop(s) PROVE SeenInv(i)'
  <2>1. stop'[i] = stop[i] \/ Opened(i) BY <1>33, StopMoves
  <2>2. UNCHANGED <<job, member, settle, launch, exec, run>> /\ SeenInv(i) BY <1>33 DEF Stop
  <2>. HIDE DEF GroupInv, TypeInv, TypeOK
  <2>3. QED BY <2>1, <2>2 DEF SeenInv, Awaited, Fresh, Opened, Lineage
<1>34. ASSUME NEW c \in Child, StopLineage(c) PROVE SeenInv(i)'
  <2>1. UNCHANGED <<job, member, settle, launch, exec, run>> /\ SeenInv(i) BY <1>34 DEF StopLineage
  <2>2. \/ stop'[i] = stop[i]
        \/ /\ stop[i].at = "lineage" /\ stop'[i].at = "hold" /\ stop'[i].hold = stop[i].hold
           /\ stop'[i].runs = stop[i].runs /\ stop'[i].joins = stop[i].joins \cup Membership(i)
    BY <1>34, LineageMoves
  <2>. HIDE DEF GroupInv, TypeInv, TypeOK
  <2>3. QED BY <2>1, <2>2 DEF SeenInv, Awaited, Fresh, Membership
<1>35. ASSUME NEW c \in Child, StopHold(c) PROVE SeenInv(i)'
  <2>1. UNCHANGED <<job, member, settle, launch, exec, run>> /\ SeenInv(i) BY <1>35 DEF StopHold
  <2>2. \/ stop'[i] = stop[i]
        \/ /\ stop[i].at = "hold" /\ stop'[i].joins = stop[i].joins
           /\ stop'[i].runs = stop[i].runs \cup (IF stop[i].hold # 0 THEN {run[i]} \ {0} ELSE {})
    BY <1>35, HoldMoves
  <2>. HIDE DEF GroupInv, TypeInv, TypeOK
  <2>3. QED BY <2>1, <2>2 DEF SeenInv, Awaited, Fresh
<1>36. ASSUME ChildStopped PROVE SeenInv(i)'
  BY <1>36 DEF ChildStopped, SeenInv, Awaited, Fresh
<1>37. ASSUME NEW c \in Child, StopChild(c) PROVE SeenInv(i)'
  <2>1. stop'[i] = stop[i] \/ Opened(i) BY <1>37, StopChildMoves
  <2>2. UNCHANGED <<job, settle, launch, exec, run>> /\ SeenInv(i) BY <1>37 DEF StopChild
  <2>3. run[i] = 1 => member'[i] = member[i] BY <1>37, Within, ClaimIs DEF StopChild, LaunchInv, Loadable
  <2>. HIDE DEF GroupInv, TypeInv, TypeOK
  <2>4. QED BY <2>1, <2>2, <2>3 DEF SeenInv, Awaited, Fresh, Opened, Lineage
<1>38. ASSUME NEW s \in Session, NEW j \in Job, StopJob(s, j) PROVE SeenInv(i)'
  <2>1. /\ run' = run /\ SeenInv(i)
        /\ stop'[i].at = stop[i].at /\ stop'[i].runs = stop[i].runs /\ stop'[i].hold = stop[i].hold
    BY <1>38, Within, StopJobMoves DEF StopJob
  <2>2. ASSUME stop[i].at # "none", Fresh(i) PROVE Fresh(i)'
    <3>1. UNCHANGED <<launch, settle, exec, run, member>> BY <1>38 DEF StopJob
    <3>2. stop'[i].at = stop[i].at /\ stop'[i].joins = stop[i].joins BY <1>38, Within, StopJobMoves
    <3>3. \A x \in Job : job[x] \in {"absent", "none"} => job'[x] = job[x] BY <1>38 DEF StopJob
    <3>. HIDE DEF GroupInv, TypeInv, TypeOK
    <3>4. QED BY <2>2, <3>1, <3>2, <3>3 DEF Fresh
  <2>. HIDE DEF GroupInv, TypeInv, TypeOK
  <2>3. QED BY <2>1, <2>2 DEF SeenInv, Awaited
<1>39. ASSUME NEW s \in Session, StopEnds(s) PROVE SeenInv(i)'
  <2>1. stop'[i] = stop[i] \/ stop'[i].at = "none" BY <1>39, Within, StopEndsMoves DEF NoStop
  <2>2. UNCHANGED <<job, member, settle, launch, exec, run>> /\ SeenInv(i) BY <1>39 DEF StopEnds
  <2>. HIDE DEF GroupInv, TypeInv, TypeOK
  <2>3. QED BY <2>1, <2>2 DEF SeenInv, Awaited, Fresh
<1>40. ASSUME Lose PROVE SeenInv(i)'
  BY <1>40 DEF Lose, SeenInv, Awaited, Fresh
<1>43. ASSUME NEW m \in Member, NEW c \in Child, DeliversInto(m, c) PROVE SeenInv(i)'
  <2>. HIDE DEF GroupInv, TypeInv, TypeOK, Delivering, Endings
  <2>1. /\ m \in Job /\ Owner[m] = c /\ member[m] = "claimed" /\ launch[c] \notin Unstarted
        /\ UNCHANGED <<bg, member, pending, corrupt, launch, job, canceled, submit, settle, stop>>
        /\ UNCHANGED <<ctx, cast, submits, stops, quieted>>
        /\ ending[m] \in Delivering \cup {"deliver"} /\ ending'[m] \in Delivering \cup {"finish"}
        /\ \A x \in Member : x # m => ending'[x] = ending[x]
        /\ \A d \in Child : d # c => Apart(d)
    BY <1>43, Deliveries
  <2>2. SeenInv(i) /\ LateInv(i) /\ m # 0 BY <2>1, Names DEF GroupInv
  <2>3. CASE i # c BY <2>1, <2>2, <2>3 DEF SeenInv, Awaited, Fresh, Apart
  <2>4. CASE i = c /\ ending[m] = "install"
    <3>1. reserved[c] = m BY <2>1, <2>4 DEF GroupInv, IntoInv, Delivering
    <3>2. stop[c].at # "none" => Awaited(c) BY <2>1, <2>2, <2>4, <3>1 DEF LateInv, Admitting, Awaited
    <3>3. QED BY <2>1, <2>4, <3>2 DEF SeenInv, Awaited
  <2>5. CASE i = c /\ ending[m] # "install"
    <3>1. UNCHANGED <<run, exec>> BY <1>43, <2>5, DeliveryRuns
    <3>2. QED BY <2>1, <2>2, <3>1 DEF SeenInv, Awaited, Fresh
  <2>6. QED BY <2>3, <2>4, <2>5
<1>41. CASE UNCHANGED vars BY <1>41 DEF vars, SeenInv, Awaited, Fresh
<1>42. QED BY <1>1, <1>2, <1>3, <1>4, <1>5, <1>6, <1>7, <1>9, <1>10, <1>11, <1>12, <1>13, <1>19, <1>20,
     <1>21, <1>22, <1>23, <1>26, <1>27, <1>29, <1>30, <1>32, <1>33, <1>34, <1>35, <1>36, <1>37, <1>38, <1>39,
     <1>40, <1>41, <1>43 DEF Next, Launcher, JobStarter, Ending, Execution, Submits, Stopping

(* Every step keeps what may still start a run captured by a child's stop. *)
LEMMA WindowStep == GroupInv /\ [Next]_vars => \A i \in Child : WindowInv(i)'
<1>. SUFFICES ASSUME GroupInv, [Next]_vars, NEW i \in Child PROVE WindowInv(i)' OBVIOUS
<1>. USE DEF GroupInv, TypeInv, TypeOK, Delivering, Endings, cells, procs, env
<1>1. ASSUME NEW c \in Child, AdmitChild(c) PROVE WindowInv(i)'
  BY <1>1 DEF AdmitChild, Admits, WindowInv, Admitting, Starting
<1>2. ASSUME NEW c \in Child, CommitChild(c) PROVE WindowInv(i)'
  <2>1. UNCHANGED <<stop, submit, exec, reserved>> /\ WindowInv(i) BY <1>2 DEF CommitChild
  <2>2. launch'[i] \in Starting => launch[i] \in Starting \/ stop[i].at = "none"
    <3>1. CASE c = i BY <1>2, <3>1 DEF CommitChild, LaunchInv, ClosedInv
    <3>2. CASE c # i BY <1>2, <3>2 DEF CommitChild
    <3>3. QED BY <3>1, <3>2
  <2>. HIDE DEF GroupInv, TypeInv, TypeOK
  <2>3. QED BY <2>1, <2>2 DEF WindowInv
<1>3. ASSUME NEW c \in Child, HandChild(c) PROVE WindowInv(i)'
  BY <1>3 DEF HandChild, HandoffHolds, WindowInv, Admitting, Starting
<1>4. ASSUME NEW c \in Child, AdoptChild(c) PROVE WindowInv(i)'
  BY <1>4 DEF AdoptChild, Fault, Claim, WindowInv, Admitting, Starting
<1>5. ASSUME NEW c \in Child, StartChild(c) PROVE WindowInv(i)'
  BY <1>5 DEF StartChild, Goto, WindowInv, Admitting, Starting
<1>6. ASSUME NEW c \in Child, SettleRejected(c) PROVE WindowInv(i)'
  BY <1>6 DEF SettleRejected, Fault, WindowInv, Admitting, Starting
<1>7. ASSUME NEW c \in Child, FinishRejected(c) PROVE WindowInv(i)'
  BY <1>7 DEF FinishRejected, Claim, WindowInv, Admitting, Starting
<1>8. ASSUME NEW c \in Child, SettleClaims(c) PROVE WindowInv(i)'
  BY <1>8 DEF SettleClaims, Claim, WindowInv, Admitting, Starting
<1>9. ASSUME NEW c \in Child, SubmitReserves(c) PROVE WindowInv(i)'
  <2>1. UNCHANGED <<stop, launch, exec>> /\ WindowInv(i) BY <1>9 DEF SubmitReserves
  <2>2. UNCHANGED <<submit[i], reserved[i]>> \/ (submit'[i] = "route" /\ reserved[i] = 0) BY <1>9 DEF SubmitReserves
  <2>3. reserved[i] = 0 => submit[i] \notin Admitting /\ \A p \in Ops : exec[i][p] # "install"
    BY Names DEF HoldInv
  <2>. HIDE DEF GroupInv, TypeInv, TypeOK
  <2>4. QED BY <2>1, <2>2, <2>3 DEF WindowInv, Admitting
<1>10. ASSUME NEW c \in Child, SubmitRoutes(c) PROVE WindowInv(i)'
  <2>1. UNCHANGED <<stop, launch, exec, reserved>> /\ WindowInv(i) BY <1>10 DEF SubmitRoutes
  <2>2. submit'[i] \in {submit[i], "release"} \/ bg[i] # "closed" BY <1>10 DEF SubmitRoutes
  <2>3. bg[i] # "closed" => stop[i].at = "none" BY DEF ClosedInv
  <2>. HIDE DEF GroupInv, TypeInv, TypeOK
  <2>4. QED BY <2>1, <2>2, <2>3 DEF WindowInv, Admitting
<1>11. ASSUME NEW c \in Child, SubmitAdmits(c) PROVE WindowInv(i)'
  BY <1>11 DEF SubmitAdmits, NextOp, Free, WindowInv, Admitting, Starting
<1>12. ASSUME NEW c \in Child, SubmitInstalls(c) PROVE WindowInv(i)'
  BY <1>12 DEF SubmitInstalls, Goto, WindowInv, Admitting, Starting
<1>13. ASSUME NEW c \in Child, SubmitReleases(c) PROVE WindowInv(i)'
  <2>1. UNCHANGED <<stop, launch, exec>> /\ WindowInv(i) BY <1>13 DEF SubmitReleases
  <2>2. CASE c # i
    <3>1. UNCHANGED <<submit[i], reserved[i]>> BY <1>13, <2>2 DEF SubmitReleases
    <3>. HIDE DEF GroupInv, TypeInv, TypeOK
    <3>2. QED BY <2>1, <3>1 DEF WindowInv
  <2>3. CASE c = i
    <3>1. submit[i] = "release" /\ submit'[i] = "idle" BY <1>13, <2>3 DEF SubmitReleases
    <3>2. \A p \in Ops : exec[i][p] # "install" BY <3>1, Names DEF HoldInv
    <3>. HIDE DEF GroupInv, TypeInv, TypeOK
    <3>3. QED BY <2>1, <3>1, <3>2 DEF WindowInv, Admitting
  <2>4. QED BY <2>2, <2>3
<1>14. ASSUME NEW j \in Job, ReserveJob(j) PROVE WindowInv(i)'
  BY <1>14 DEF ReserveJob, Executing, WindowInv, Admitting, Starting
<1>15. ASSUME NEW j \in Job, AdmitJob(j) PROVE WindowInv(i)'
  BY <1>15 DEF AdmitJob, Admits, WindowInv, Admitting, Starting
<1>16. ASSUME NEW j \in Job, HandJob(j) PROVE WindowInv(i)'
  BY <1>16 DEF HandJob, Claim, HandoffHolds, WindowInv, Admitting, Starting
<1>17. ASSUME NEW j \in Job, Spawn(j) PROVE WindowInv(i)'
  BY <1>17 DEF Spawn, Claim, WindowInv, Admitting, Starting
<1>18. ASSUME NEW j \in Job, JobReports(j) PROVE WindowInv(i)'
  BY <1>18 DEF JobReports, Claim, WindowInv, Admitting, Starting
<1>19. ASSUME NEW j \in Job, JobExits(j) PROVE WindowInv(i)'
  BY <1>19 DEF JobExits, WindowInv, Admitting, Starting
<1>20. ASSUME NEW m \in Member, DeliverToRoot(m) PROVE WindowInv(i)'
  BY <1>20 DEF DeliverToRoot, Told, Fails, Refused, Then, Fault, WindowInv, Admitting, Starting
<1>21. ASSUME NEW m \in Member, Finish(m) PROVE WindowInv(i)'
  BY <1>21 DEF Finish, WindowInv, Admitting, Starting
<1>22. ASSUME NEW m \in Member, FinishChecks(m) PROVE WindowInv(i)'
  BY <1>22 DEF FinishChecks, CheckSettles, Decide, Fault, WindowInv, Admitting, Starting
<1>23. ASSUME NEW c \in Child, NEW o \in Ops, Enter(c, o) PROVE WindowInv(i)'
  BY <1>23 DEF Enter, Goto, WindowInv, Admitting, Starting
<1>24. ASSUME NEW c \in Child, NEW o \in Ops, Reserve(c, o) PROVE WindowInv(i)'
  <2>1. UNCHANGED <<stop, launch, submit>> /\ WindowInv(i) BY <1>24 DEF Reserve
  <2>2. reserved'[i] = reserved[i] \/ reserved[i] = 0 BY <1>24 DEF Reserve
  <2>3. reserved[i] = 0 => submit[i] \notin Admitting /\ \A p \in Ops : exec[i][p] # "install"
    BY Names DEF HoldInv
  <2>4. \A p \in Ops : exec'[i][p] = "install" => exec[i][p] = "install" BY <1>24, GotoIs DEF Reserve, Places
  <2>. HIDE DEF GroupInv, TypeInv, TypeOK
  <2>5. QED BY <2>1, <2>2, <2>3, <2>4 DEF WindowInv
<1>25. ASSUME NEW c \in Child, NEW o \in Ops, CommitTerminal(c, o) PROVE WindowInv(i)'
  BY <1>25 DEF CommitTerminal, Goto, Fault, WindowInv, Admitting, Starting
<1>26. ASSUME NEW c \in Child, NEW o \in Ops, Drain(c, o) PROVE WindowInv(i)'
  <2>1. UNCHANGED <<stop, launch, submit, reserved>> /\ WindowInv(i) BY <1>26 DEF Drain
  <2>2. CASE c # i
    <3>1. exec'[i] = exec[i] BY <1>26, <2>2 DEF Drain, Goto
    <3>. HIDE DEF GroupInv, TypeInv, TypeOK
    <3>2. QED BY <2>1, <3>1 DEF WindowInv
  <2>3. CASE c = i
    <3>1. exec' = exec \/ Goto(c, o, "release") \/ bg[i] # "closed" BY <1>26, <2>3 DEF Drain
    <3>2. (\A p \in Ops : exec'[i][p] = "install" => exec[i][p] = "install") \/ bg[i] # "closed"
      <4>1. CASE exec' = exec BY <4>1
      <4>2. CASE Goto(c, o, "release")
        <5>1. exec'[c][o] = "release" /\ \A p \in Ops : p # o => exec'[c][p] = exec[c][p] BY <4>2, GotoIs DEF Places
        <5>2. QED BY <2>3, <5>1
      <4>3. QED BY <3>1, <4>1, <4>2
    <3>3. bg[i] # "closed" => stop[i].at = "none" BY DEF ClosedInv
    <3>. HIDE DEF GroupInv, TypeInv, TypeOK
    <3>4. QED BY <2>1, <3>2, <3>3 DEF WindowInv
  <2>4. QED BY <2>2, <2>3
<1>27. ASSUME NEW c \in Child, NEW o \in Ops, Install(c, o) PROVE WindowInv(i)'
  BY <1>27 DEF Install, WindowInv, Admitting, Starting
<1>28. ASSUME NEW c \in Child, NEW o \in Ops, Release(c, o) PROVE WindowInv(i)'
  <2>1. UNCHANGED <<stop, launch, submit>> /\ WindowInv(i) BY <1>28 DEF Release
  <2>2. CASE c # i
    <3>1. UNCHANGED <<exec[i], reserved[i]>> BY <1>28, <2>2 DEF Release, Goto
    <3>. HIDE DEF GroupInv, TypeInv, TypeOK
    <3>2. QED BY <2>1, <3>1 DEF WindowInv
  <2>3. CASE c = i
    <3>1. exec[c][o] = "release" /\ Goto(c, o, "retire") BY <1>28 DEF Release
    <3>2. submit[c] \notin Admitting /\ \A p \in Ops : exec[c][p] # "install" BY <3>1, Names DEF HoldInv
    <3>3. \A p \in Ops : exec'[c][p] # "install"
      <4>1. exec'[c][o] = "retire" /\ \A p \in Ops : p # o => exec'[c][p] = exec[c][p] BY <3>1, GotoIs DEF Places
      <4>2. QED BY <3>2, <4>1
    <3>. HIDE DEF GroupInv, TypeInv, TypeOK
    <3>4. QED BY <2>1, <2>3, <3>2, <3>3 DEF WindowInv
  <2>4. QED BY <2>2, <2>3
<1>29. ASSUME NEW c \in Child, NEW o \in Ops, Retire(c, o) PROVE WindowInv(i)'
  BY <1>29 DEF Retire, Goto, WindowInv, Admitting, Starting
<1>30. ASSUME NEW c \in Child, NEW o \in Ops, Tail(c, o) PROVE WindowInv(i)'
  BY <1>30 DEF Tail, Goto, Decide, Fault, WindowInv, Admitting, Starting
<1>31. ASSUME NEW c \in Child, NEW o \in Ops, CloseDone(c, o) PROVE WindowInv(i)'
  BY <1>31 DEF CloseDone, Goto, WindowInv, Admitting, Starting
<1>32. ASSUME NEW c \in Child, NEW o \in Ops, EndRun(c, o) PROVE WindowInv(i)'
  BY <1>32 DEF EndRun, Goto, WindowInv, Admitting, Starting
<1>33. ASSUME NEW s \in Session, Stop(s) PROVE WindowInv(i)'
  <2>1. stop'[i] = stop[i] \/ Opened(i) BY <1>33, StopMoves
  <2>2. UNCHANGED <<launch, submit, exec, reserved>> /\ WindowInv(i) BY <1>33 DEF Stop
  <2>. HIDE DEF GroupInv, TypeInv, TypeOK
  <2>3. QED BY <2>1, <2>2 DEF WindowInv, Opened, Lineage
<1>34. ASSUME NEW c \in Child, StopLineage(c) PROVE WindowInv(i)'
  <2>1. UNCHANGED <<launch, submit, exec, reserved>> /\ WindowInv(i) BY <1>34 DEF StopLineage
  <2>2. launch[i] \in Starting => i \in Membership(i) BY DEF LaunchInv, Membership
  <2>3. \/ stop'[i] = stop[i]
        \/ /\ stop[i].at = "lineage" /\ stop'[i].at = "hold" /\ stop'[i].hold = stop[i].hold
           /\ stop'[i].joins = stop[i].joins \cup Membership(i)
    BY <1>34, LineageMoves
  <2>. HIDE DEF GroupInv, TypeInv, TypeOK
  <2>4. QED BY <2>1, <2>2, <2>3 DEF WindowInv
<1>35. ASSUME NEW c \in Child, StopHold(c) PROVE WindowInv(i)'
  <2>1. UNCHANGED <<launch, submit, exec, reserved>> /\ WindowInv(i) BY <1>35 DEF StopHold
  <2>2. \/ stop'[i] = stop[i]
        \/ /\ stop[i].at = "hold" /\ stop'[i].at = "members" /\ stop'[i].joins = stop[i].joins
           /\ stop[i].hold = 0 \/ reserved[i] # stop[i].hold
    BY <1>35, HoldMoves DEF HoldReleased
  <2>3. reserved[i] = 0 => submit[i] \notin Admitting /\ \A p \in Ops : exec[i][p] # "install"
    BY Names DEF HoldInv
  <2>. HIDE DEF GroupInv, TypeInv, TypeOK
  <2>4. QED BY <2>1, <2>2, <2>3 DEF WindowInv
<1>36. ASSUME ChildStopped PROVE WindowInv(i)'
  BY <1>36 DEF ChildStopped, WindowInv, Admitting, Starting
<1>37. ASSUME NEW c \in Child, StopChild(c) PROVE WindowInv(i)'
  <2>1. stop'[i] = stop[i] \/ Opened(i) BY <1>37, StopChildMoves
  <2>2. UNCHANGED <<launch, submit, exec, reserved>> /\ WindowInv(i) BY <1>37 DEF StopChild
  <2>. HIDE DEF GroupInv, TypeInv, TypeOK
  <2>3. QED BY <2>1, <2>2 DEF WindowInv, Opened, Lineage
<1>38. ASSUME NEW s \in Session, NEW j \in Job, StopJob(s, j) PROVE WindowInv(i)'
  <2>1. UNCHANGED <<launch, submit, exec, reserved>> /\ WindowInv(i) BY <1>38 DEF StopJob
  <2>2. stop'[i].at = stop[i].at /\ stop'[i].joins = stop[i].joins /\ stop'[i].hold = stop[i].hold
    BY <1>38, Within, StopJobMoves
  <2>. HIDE DEF GroupInv, TypeInv, TypeOK
  <2>3. QED BY <2>1, <2>2 DEF WindowInv
<1>39. ASSUME NEW s \in Session, StopEnds(s) PROVE WindowInv(i)'
  <2>1. UNCHANGED <<launch, submit, exec, reserved>> /\ WindowInv(i) BY <1>39 DEF StopEnds
  <2>2. stop'[i] = stop[i] \/ stop'[i].at = "none" BY <1>39, Within, StopEndsMoves DEF NoStop
  <2>. HIDE DEF GroupInv, TypeInv, TypeOK
  <2>3. QED BY <2>1, <2>2 DEF WindowInv
<1>40. ASSUME Lose PROVE WindowInv(i)'
  BY <1>40 DEF Lose, WindowInv, Admitting, Starting
<1>43. ASSUME NEW m \in Member, NEW c \in Child, DeliversInto(m, c) PROVE WindowInv(i)'
  <2>. HIDE DEF GroupInv, TypeInv, TypeOK, Delivering, Endings
  <2>1. /\ m \in Job /\ Owner[m] = c /\ member[m] = "claimed" /\ launch[c] \notin Unstarted
        /\ UNCHANGED <<bg, member, pending, corrupt, launch, job, canceled, submit, settle, stop>>
        /\ UNCHANGED <<ctx, cast, submits, stops, quieted>>
        /\ ending[m] \in Delivering \cup {"deliver"} /\ ending'[m] \in Delivering \cup {"finish"}
        /\ \A x \in Member : x # m => ending'[x] = ending[x]
        /\ \A d \in Child : d # c => Apart(d)
    BY <1>43, Deliveries
  <2>2. WindowInv(i) /\ HoldInv(i) /\ IntoInv(c) /\ m \notin Int /\ 0 \in Int /\ \A o \in Ops : o # 0 /\ o \in Int
    BY <2>1, Names DEF GroupInv
  <2>3. CASE i # c BY <2>1, <2>2, <2>3 DEF WindowInv, Apart
  <2>4. CASE i = c
    <3>1. \A o \in Ops : exec'[c][o] = "install" => exec[c][o] = "install" BY <1>43, DeliveryRuns
    <3>2. CASE UNCHANGED reserved BY <2>1, <2>2, <2>4, <3>1, <3>2 DEF WindowInv
    <3>3. CASE reserved[c] \in {0, m}
      <4>1. submit[c] \notin Admitting /\ (\A o \in Ops : exec[c][o] # "install")
        BY <2>2, <2>4, <3>3 DEF HoldInv
      <4>2. QED BY <2>1, <2>2, <2>4, <3>1, <4>1 DEF WindowInv
    <3>4. ending[m] = "release" => reserved[c] = m BY <2>1, <2>2 DEF IntoInv, Delivering
    <3>5. QED BY <1>43, <3>2, <3>3, <3>4, DeliveryHolds
  <2>5. QED BY <2>3, <2>4
<1>41. CASE UNCHANGED vars BY <1>41 DEF vars, WindowInv, Admitting, Starting
<1>42. QED BY <1>1, <1>2, <1>3, <1>4, <1>5, <1>6, <1>7, <1>8, <1>9, <1>10, <1>11, <1>12, <1>13, <1>14,
     <1>15, <1>16, <1>17, <1>18, <1>19, <1>20, <1>21, <1>22, <1>23, <1>24, <1>25, <1>26, <1>27, <1>28,
     <1>29, <1>30, <1>31, <1>32, <1>33, <1>34, <1>35, <1>36, <1>37, <1>38, <1>39, <1>40, <1>41, <1>43 DEF Next,
     Launcher, JobStarter, Ending, Execution, Submits, Stopping

(* Every step of a stop keeps what it has captured of a late admission. *)
LEMMA LateStep == GroupInv /\ [Next]_vars => \A i \in Child : LateInv(i)'
<1>. SUFFICES ASSUME GroupInv, [Next]_vars, NEW i \in Child, stop'[i].at # "none",
                     NEW j \in Job, Owner[j] = i, ending'[j] \in Admitting
              PROVE  stop'[i].at \in {"lineage", "hold"} /\ reserved'[i] = stop'[i].hold
  BY DEF LateInv
<1>. DEFINE Good == stop'[i].at \in {"lineage", "hold"} /\ reserved'[i] = stop'[i].hold
<1>. USE DEF cells, procs, env
<1>0. TypeInv /\ stop \in [Session -> Record] /\ j \in Member /\ j # 0 /\ Admitting \subseteq Delivering \ {"idle"}
  BY Within, Names DEF GroupInv, TypeInv, Admitting, Delivering
<1>1. reserved'[i] = j
  <2>1. IntoInv(i)' BY IntoStep
  <2>2. QED BY <1>0, <2>1 DEF IntoInv
<1>2. ending[j] \in Admitting => reserved[i] = j BY <1>0 DEF GroupInv, IntoInv
<1>3. LateInv(i) BY DEF GroupInv
<1>4. ending[j] \in Admitting /\ stop'[i].at = stop[i].at /\ stop'[i].hold = stop[i].hold => Good
  BY <1>1, <1>2, <1>3 DEF LateInv
<1>5. CASE \A m \in Member, c \in Child : ~DeliversInto(m, c)
  <2>1. ending[j] \in Admitting BY <1>0, <1>5, Undelivered
  <2>2. ASSUME NEW c \in Child, AdmitChild(c) \/ Launcher(c) \/ SettleClaims(c) \/ SubmitReserves(c) \/ Submits(c)
        PROVE  Good
    BY <1>4, <2>1, <2>2 DEF AdmitChild, Launcher, CommitChild, HandChild, AdoptChild, StartChild, SettleRejected,
       FinishRejected, SettleClaims, SubmitReserves, Submits, SubmitRoutes, SubmitAdmits, SubmitInstalls, SubmitReleases
  <2>3. ASSUME NEW k \in Job, ReserveJob(k) \/ JobStarter(k) \/ JobExits(k) PROVE Good
    BY <1>4, <2>1, <2>3 DEF ReserveJob, JobStarter, AdmitJob, HandJob, Spawn, JobReports, JobExits
  <2>4. ASSUME NEW m \in Member, DeliverToRoot(m) \/ Finish(m) \/ FinishChecks(m) PROVE Good
    BY <1>4, <2>1, <2>4 DEF DeliverToRoot, Finish, FinishChecks
  <2>5. ASSUME NEW c \in Child, NEW o \in Ops, Execution(c, o) \/ EndRun(c, o) PROVE Good
    BY <1>4, <2>1, <2>5 DEF Execution, Enter, EndRun, Reserve, CommitTerminal, Drain, Install, Release, Retire, Tail, CloseDone
  <2>6. Opened(i) => Good
    <3>1. Opened(i) => stop'[i].at = "lineage" /\ stop'[i].hold = reserved[i] BY DEF Opened, Lineage
    <3>2. QED BY <1>1, <1>2, <2>1, <3>1
  <2>7. ASSUME NEW s \in Session, Stop(s) PROVE Good BY <1>0, <1>4, <2>1, <2>6, <2>7, StopMoves
  <2>8. ASSUME NEW c \in Child, StopChild(c) PROVE Good BY <1>0, <1>4, <2>1, <2>6, <2>8, StopChildMoves
  <2>9. ASSUME NEW c \in Child, StopLineage(c) PROVE Good
    <3>1. CASE c # i BY <1>0, <1>4, <2>1, <2>9, <3>1, LineageMoves
    <3>2. CASE c = i
      <4>1. stop[i].at = "lineage" /\ stop'[i].at = "hold" /\ stop'[i].hold = stop[i].hold BY <1>0, <2>9, <3>2, LineageMoves
      <4>2. QED BY <1>1, <1>2, <1>3, <2>1, <4>1 DEF LateInv
    <3>3. QED BY <3>1, <3>2
  <2>10. ASSUME NEW c \in Child, StopHold(c) PROVE Good
    <3>1. CASE c # i BY <1>0, <1>4, <2>1, <2>10, <3>1, HoldMoves
    <3>2. CASE c = i
      <4>1. stop[i].at = "hold" /\ HoldReleased(i) BY <1>0, <2>10, <3>2, HoldMoves
      <4>2. reserved[i] = stop[i].hold /\ reserved[i] = j BY <1>2, <1>3, <2>1, <4>1 DEF LateInv
      <4>3. QED BY <1>0, <4>1, <4>2 DEF HoldReleased
    <3>3. QED BY <3>1, <3>2
  <2>11. ASSUME NEW s \in Session, NEW k \in Job, StopJob(s, k) PROVE Good
    BY <1>0, <1>4, <2>1, <2>11, Names, StopJobMoves
  <2>12. ASSUME NEW s \in Session, StopEnds(s) PROVE Good
    <3>1. CASE s # i BY <1>0, <1>4, <2>1, <2>12, <3>1, Names, StopEndsMoves
    <3>2. CASE s = i
      <4>1. stop'[i] = NoStop BY <1>0, <2>12, <3>2, StopEndsMoves
      <4>2. QED BY <4>1 DEF NoStop
    <3>3. QED BY <3>1, <3>2
  <2>13. CASE ChildStopped
    <3>1. stop'[i] = stop[i] BY <1>0, <2>13, Names DEF ChildStopped
    <3>2. QED BY <1>4, <2>1, <3>1
  <2>14. CASE Lose \/ UNCHANGED vars
    <3>1. stop' = stop BY <2>14 DEF Lose, vars
    <3>2. QED BY <1>4, <2>1, <3>1
  <2>15. QED BY <1>5, <2>2, <2>3, <2>4, <2>5, <2>7, <2>8, <2>9, <2>10, <2>11, <2>12, <2>13, <2>14
       DEF Next, Ending, Stopping
<1>6. ASSUME NEW m \in Member, NEW c \in Child, DeliversInto(m, c) PROVE Good
  <2>1. Owner[m] = c /\ UNCHANGED <<stop, bg>> /\ \A x \in Member : x # m => ending'[x] = ending[x] BY <1>6, Deliveries
  <2>2. CASE j # m BY <1>0, <1>4, <2>1, <2>2
  <2>3. CASE j = m
    <3>1. bg[i] = "closed" BY <2>1 DEF GroupInv, ClosedInv
    <3>2. ending'[m] # "admit" BY <1>6, <2>1, <2>3, <3>1, DeliveryMoves DEF Receives
    <3>3. ending[m] = "admit" BY <1>6, <2>3, <3>2, DeliveryMoves DEF Admitting
    <3>4. QED BY <1>4, <2>1, <2>3, <3>3 DEF Admitting
  <2>4. QED BY <2>2, <2>3
<1>7. QED BY <1>5, <1>6

(* Every step keeps a stopped child at rest. *)
LEMMA RestStep == GroupInv /\ [Next]_vars => \A i \in Child : RestInv(i)'
<1>. SUFFICES ASSUME GroupInv, [Next]_vars, NEW i \in Child PROVE RestInv(i)' OBVIOUS
<1>. USE DEF GroupInv, TypeInv, TypeOK, Delivering, Endings, cells, procs, env
<1>1. ASSUME NEW c \in Child, AdmitChild(c) PROVE RestInv(i)'
  <2>1. UNCHANGED <<bg, run, submit, quieted>> /\ RestInv(i) BY <1>1 DEF AdmitChild
  <2>2. \A x \in Job : member'[x] \in Present => member[x] \in Present BY <1>1, Names DEF AdmitChild
  <2>3. launch'[i] \in Starting => launch[i] \in Starting BY <1>1 DEF AdmitChild, Starting
  <2>. HIDE DEF GroupInv, TypeInv, TypeOK
  <2>4. QED BY <2>1, <2>2, <2>3 DEF RestInv
<1>2. ASSUME NEW c \in Child, CommitChild(c) PROVE RestInv(i)'
  <2>1. UNCHANGED <<bg, run, submit, quieted>> /\ RestInv(i) BY <1>2 DEF CommitChild
  <2>2. \A x \in Job : member'[x] \in Present => member[x] \in Present BY <1>2, Within, ClaimStays DEF CommitChild
  <2>3. launch'[i] = launch[i] \/ bg[i] = "open"
    <3>1. CASE c = i BY <1>2, <3>1 DEF CommitChild, LaunchInv
    <3>2. CASE c # i BY <1>2, <3>2 DEF CommitChild
    <3>3. QED BY <3>1, <3>2
  <2>. HIDE DEF GroupInv, TypeInv, TypeOK
  <2>4. QED BY <2>1, <2>2, <2>3 DEF RestInv
<1>3. ASSUME NEW c \in Child, HandChild(c) PROVE RestInv(i)'
  BY <1>3 DEF HandChild, HandoffHolds, RestInv, Present, Starting, Admitting
<1>4. ASSUME NEW c \in Child, AdoptChild(c) PROVE RestInv(i)'
  <2>1. UNCHANGED <<bg, run, submit, quieted>> /\ RestInv(i) BY <1>4 DEF AdoptChild
  <2>2. \A x \in Job : member'[x] \in Present => member[x] \in Present BY <1>4, Within, ClaimStays DEF AdoptChild
  <2>3. launch'[i] \in Starting => launch[i] \in Starting BY <1>4 DEF AdoptChild, Starting
  <2>. HIDE DEF GroupInv, TypeInv, TypeOK
  <2>4. QED BY <2>1, <2>2, <2>3 DEF RestInv
<1>5. ASSUME NEW c \in Child, StartChild(c) PROVE RestInv(i)'
  BY <1>5 DEF StartChild, Goto, RestInv, Present, Starting, Admitting
<1>6. ASSUME NEW c \in Child, SettleRejected(c) PROVE RestInv(i)'
  BY <1>6 DEF SettleRejected, Fault, RestInv, Present, Starting, Admitting
<1>7. ASSUME NEW c \in Child, FinishRejected(c) PROVE RestInv(i)'
  <2>1. UNCHANGED <<bg, run, submit, quieted>> /\ RestInv(i) BY <1>7 DEF FinishRejected
  <2>2. \A x \in Job : member'[x] \in Present => member[x] \in Present BY <1>7, Within, ClaimStays DEF FinishRejected
  <2>3. launch'[i] \in Starting => launch[i] \in Starting BY <1>7 DEF FinishRejected, Starting
  <2>. HIDE DEF GroupInv, TypeInv, TypeOK
  <2>4. QED BY <2>1, <2>2, <2>3 DEF RestInv
<1>8. ASSUME NEW c \in Child, SettleClaims(c) PROVE RestInv(i)'
  <2>1. UNCHANGED <<bg, run, submit, quieted>> /\ RestInv(i) BY <1>8 DEF SettleClaims
  <2>2. \A x \in Job : member'[x] \in Present => member[x] \in Present BY <1>8, Within, ClaimStays DEF SettleClaims
  <2>3. launch'[i] \in Starting => launch[i] \in Starting BY <1>8 DEF SettleClaims, Starting
  <2>. HIDE DEF GroupInv, TypeInv, TypeOK
  <2>4. QED BY <2>1, <2>2, <2>3 DEF RestInv
<1>9. ASSUME NEW c \in Child, SubmitReserves(c) PROVE RestInv(i)'
  BY <1>9 DEF SubmitReserves, RestInv, Present, Starting, Admitting
<1>10. ASSUME NEW c \in Child, SubmitRoutes(c) PROVE RestInv(i)'
  BY <1>10 DEF SubmitRoutes, RestInv, Present, Starting, Admitting
<1>11. ASSUME NEW c \in Child, SubmitAdmits(c) PROVE RestInv(i)'
  BY <1>11 DEF SubmitAdmits, NextOp, Free, RestInv, Present, Starting, Admitting
<1>12. ASSUME NEW c \in Child, SubmitInstalls(c) PROVE RestInv(i)'
  BY <1>12 DEF SubmitInstalls, Goto, RestInv, Present, Starting, Admitting
<1>13. ASSUME NEW c \in Child, SubmitReleases(c) PROVE RestInv(i)'
  BY <1>13 DEF SubmitReleases, RestInv, Present, Starting, Admitting
<1>14. ASSUME NEW j \in Job, ReserveJob(j) PROVE RestInv(i)'
  BY <1>14 DEF ReserveJob, Executing, RestInv, Present, Starting, Admitting
<1>15. ASSUME NEW j \in Job, AdmitJob(j) PROVE RestInv(i)'
  <2>1. UNCHANGED <<bg, run, submit, quieted, launch>> /\ RestInv(i) BY <1>15 DEF AdmitJob
  <2>2. \A x \in Job : x # j => member'[x] = member[x] BY <1>15, Within DEF AdmitJob
  <2>3. Owner[j] = i => bg[i] = "open" \/ member' = member BY <1>15, GroupIs DEF AdmitJob, Admits
  <2>. HIDE DEF GroupInv, TypeInv, TypeOK
  <2>4. QED BY <2>1, <2>2, <2>3 DEF RestInv
<1>16. ASSUME NEW j \in Job, HandJob(j) PROVE RestInv(i)'
  <2>1. UNCHANGED <<bg, run, submit, quieted>> /\ RestInv(i) BY <1>16 DEF HandJob
  <2>2. \A x \in Job : member'[x] \in Present => member[x] \in Present BY <1>16, Within, ClaimStays DEF HandJob
  <2>3. launch'[i] \in Starting => launch[i] \in Starting BY <1>16 DEF HandJob, Starting
  <2>. HIDE DEF GroupInv, TypeInv, TypeOK
  <2>4. QED BY <2>1, <2>2, <2>3 DEF RestInv
<1>17. ASSUME NEW j \in Job, Spawn(j) PROVE RestInv(i)'
  <2>1. UNCHANGED <<bg, run, submit, quieted>> /\ RestInv(i) BY <1>17 DEF Spawn
  <2>2. \A x \in Job : member'[x] \in Present => member[x] \in Present BY <1>17, Within, ClaimStays DEF Spawn
  <2>3. launch'[i] \in Starting => launch[i] \in Starting BY <1>17 DEF Spawn, Starting
  <2>. HIDE DEF GroupInv, TypeInv, TypeOK
  <2>4. QED BY <2>1, <2>2, <2>3 DEF RestInv
<1>18. ASSUME NEW j \in Job, JobReports(j) PROVE RestInv(i)'
  <2>1. UNCHANGED <<bg, run, submit, quieted>> /\ RestInv(i) BY <1>18 DEF JobReports
  <2>2. \A x \in Job : member'[x] \in Present => member[x] \in Present BY <1>18, Within, ClaimStays DEF JobReports
  <2>3. launch'[i] \in Starting => launch[i] \in Starting BY <1>18 DEF JobReports, Starting
  <2>. HIDE DEF GroupInv, TypeInv, TypeOK
  <2>4. QED BY <2>1, <2>2, <2>3 DEF RestInv
<1>19. ASSUME NEW j \in Job, JobExits(j) PROVE RestInv(i)'
  BY <1>19 DEF JobExits, RestInv, Present, Starting, Admitting
<1>20. ASSUME NEW m \in Member, DeliverToRoot(m) PROVE RestInv(i)'
  BY <1>20 DEF DeliverToRoot, Told, Fails, Refused, Then, Fault, RestInv, Present, Starting, Admitting
<1>21. ASSUME NEW m \in Member, Finish(m) PROVE RestInv(i)'
  BY <1>21 DEF Finish, RestInv, Present, Starting, Admitting
<1>22. ASSUME NEW m \in Member, FinishChecks(m) PROVE RestInv(i)'
  BY <1>22 DEF FinishChecks, CheckSettles, Decide, Fault, RestInv, Present, Starting, Admitting
<1>23. ASSUME NEW c \in Child, NEW o \in Ops, Enter(c, o) PROVE RestInv(i)'
  BY <1>23 DEF Enter, Goto, RestInv, Present, Starting, Admitting
<1>24. ASSUME NEW c \in Child, NEW o \in Ops, Reserve(c, o) PROVE RestInv(i)'
  BY <1>24 DEF Reserve, Goto, RestInv, Present, Starting, Admitting
<1>25. ASSUME NEW c \in Child, NEW o \in Ops, CommitTerminal(c, o) PROVE RestInv(i)'
  BY <1>25 DEF CommitTerminal, Goto, Fault, RestInv, Present, Starting, Admitting
<1>26. ASSUME NEW c \in Child, NEW o \in Ops, Drain(c, o) PROVE RestInv(i)'
  BY <1>26 DEF Drain, Goto, NextOp, Free, RestInv, Present, Starting, Admitting
<1>27. ASSUME NEW c \in Child, NEW o \in Ops, Install(c, o) PROVE RestInv(i)'
  <2>1. UNCHANGED <<bg, member, submit, quieted, launch>> /\ RestInv(i) BY <1>27 DEF Install
  <2>2. c = i => run[i] # 0 BY <1>27, OwnSlot DEF Install, Holding
  <2>3. c # i => run'[i] = run[i] BY <1>27 DEF Install
  <2>. HIDE DEF GroupInv, TypeInv, TypeOK
  <2>4. QED BY <2>1, <2>2, <2>3 DEF RestInv
<1>28. ASSUME NEW c \in Child, NEW o \in Ops, Release(c, o) PROVE RestInv(i)'
  BY <1>28 DEF Release, Goto, RestInv, Present, Starting, Admitting
<1>29. ASSUME NEW c \in Child, NEW o \in Ops, Retire(c, o) PROVE RestInv(i)'
  BY <1>29 DEF Retire, Goto, RestInv, Present, Starting, Admitting
<1>30. ASSUME NEW c \in Child, NEW o \in Ops, Tail(c, o) PROVE RestInv(i)'
  BY <1>30 DEF Tail, Goto, Decide, Fault, RestInv, Present, Starting, Admitting
<1>31. ASSUME NEW c \in Child, NEW o \in Ops, CloseDone(c, o) PROVE RestInv(i)'
  BY <1>31 DEF CloseDone, Goto, RestInv, Present, Starting, Admitting
<1>32. ASSUME NEW c \in Child, NEW o \in Ops, EndRun(c, o) PROVE RestInv(i)'
  BY <1>32 DEF EndRun, Goto, RestInv, Present, Starting, Admitting
<1>33. ASSUME NEW s \in Session, Stop(s) PROVE RestInv(i)'
  <2>1. bg'[i] = bg[i] \/ bg'[i] = "closed" BY <1>33, StopMoves DEF Opened
  <2>2. UNCHANGED <<run, submit, quieted, launch>> /\ RestInv(i) BY <1>33 DEF Stop
  <2>3. \A x \in Job : member'[x] \in Present => member[x] \in Present BY <1>33, Within, ClaimStays DEF Stop
  <2>. HIDE DEF GroupInv, TypeInv, TypeOK
  <2>4. QED BY <2>1, <2>2, <2>3 DEF RestInv
<1>34. ASSUME NEW c \in Child, StopLineage(c) PROVE RestInv(i)'
  BY <1>34 DEF StopLineage, RestInv, Present, Starting, Admitting
<1>35. ASSUME NEW c \in Child, StopHold(c) PROVE RestInv(i)'
  BY <1>35 DEF StopHold, HoldReleased, RestInv, Present, Starting, Admitting
<1>36. ASSUME ChildStopped PROVE RestInv(i)'
  BY <1>36 DEF ChildStopped, RestInv, Present, Starting, Admitting
<1>37. ASSUME NEW c \in Child, StopChild(c) PROVE RestInv(i)'
  <2>1. bg'[i] = bg[i] \/ bg'[i] = "closed" BY <1>37, StopChildMoves DEF Opened
  <2>2. UNCHANGED <<run, submit, quieted, launch>> /\ RestInv(i) BY <1>37 DEF StopChild
  <2>3. \A x \in Job : member'[x] \in Present => member[x] \in Present BY <1>37, Within, ClaimStays DEF StopChild
  <2>. HIDE DEF GroupInv, TypeInv, TypeOK
  <2>4. QED BY <2>1, <2>2, <2>3 DEF RestInv
<1>38. ASSUME NEW s \in Session, NEW j \in Job, StopJob(s, j) PROVE RestInv(i)'
  BY <1>38 DEF StopJob, RestInv, Present, Starting, Admitting
<1>39. ASSUME NEW s \in Session, StopEnds(s) PROVE RestInv(i)'
  <2>1. UNCHANGED <<run, submit, member, launch>> /\ RestInv(i) BY <1>39 DEF StopEnds
  <2>2. CASE s # i
    <3>1. bg'[i] = bg[i] /\ (i \in quieted' => i \in quieted) BY <1>39, <2>2, Within, StopEndsMoves DEF StopEnds
    <3>. HIDE DEF GroupInv, TypeInv, TypeOK
    <3>2. QED BY <2>1, <3>1 DEF RestInv
  <2>3. CASE s = i
    <3>1. /\ stop[i].at = "members" /\ bg[i] = "closed" /\ bg'[i] = "closed"
          /\ \A m \in stop[i].joins : member[m] = "done"
          /\ \A o \in stop[i].runs : exec[i][o] = "done"
      BY <1>39, <2>3, Within, StopEndsMoves DEF StopEnds, Converged, ClosedInv
    <3>2. SeenInv(i) /\ CapturedInv(i) /\ WindowInv(i) OBVIOUS
    <3>3. run[i] # 0 => exec[i][run[i]] \in Holding \cup {"release", "retire"} BY DEF RunInv
    <3>4. launch[i] \in Starting => member[i] = "live" BY DEF LaunchInv
    <3>. HIDE DEF GroupInv, TypeInv, TypeOK
    <3>5. run[i] = 0 BY <3>1, <3>2, <3>3 DEF SeenInv, Awaited, Fresh, Holding
    <3>6. launch[i] \notin Starting /\ submit[i] \notin Admitting BY <3>1, <3>2, <3>4 DEF WindowInv
    <3>7. \A j \in Job : Owner[j] = i => member[j] \notin Present BY <3>1, <3>2 DEF CapturedInv, Present
    <3>8. QED BY <2>1, <3>1, <3>5, <3>6, <3>7 DEF RestInv
  <2>4. QED BY <2>2, <2>3
<1>40. ASSUME Lose PROVE RestInv(i)'
  BY <1>40 DEF Lose, RestInv, Present, Starting, Admitting
<1>43. ASSUME NEW m \in Member, NEW c \in Child, DeliversInto(m, c) PROVE RestInv(i)'
  <2>. HIDE DEF GroupInv, TypeInv, TypeOK, Delivering, Endings
  <2>1. /\ m \in Job /\ Owner[m] = c /\ member[m] = "claimed" /\ launch[c] \notin Unstarted
        /\ UNCHANGED <<bg, member, pending, corrupt, launch, job, canceled, submit, settle, stop>>
        /\ UNCHANGED <<ctx, cast, submits, stops, quieted>>
        /\ ending[m] \in Delivering \cup {"deliver"} /\ ending'[m] \in Delivering \cup {"finish"}
        /\ \A x \in Member : x # m => ending'[x] = ending[x]
        /\ \A d \in Child : d # c => Apart(d)
    BY <1>43, Deliveries
  <2>2. RestInv(i) BY DEF GroupInv
  <2>3. CASE i # c BY <2>1, <2>2, <2>3 DEF RestInv, Apart
  <2>4. CASE i = c BY <2>1, <2>2, <2>4 DEF RestInv, Present
  <2>5. QED BY <2>3, <2>4
<1>41. CASE UNCHANGED vars BY <1>41 DEF vars, RestInv, Present, Starting, Admitting
<1>42. QED BY <1>1, <1>2, <1>3, <1>4, <1>5, <1>6, <1>7, <1>8, <1>9, <1>10, <1>11, <1>12, <1>13, <1>14,
     <1>15, <1>16, <1>17, <1>18, <1>19, <1>20, <1>21, <1>22, <1>23, <1>24, <1>25, <1>26, <1>27, <1>28,
     <1>29, <1>30, <1>31, <1>32, <1>33, <1>34, <1>35, <1>36, <1>37, <1>38, <1>39, <1>40, <1>41, <1>43 DEF Next,
     Launcher, JobStarter, Ending, Execution, Submits, Stopping

(* The initial state: nothing is launched, nothing runs. *)
LEMMA InitGroup == Init => GroupInv
<1>. SUFFICES ASSUME Init PROVE GroupInv OBVIOUS
<1>1. TypeInv
  <2>1. NoStop \in Record BY Within DEF NoStop, Record, StopPlaces
  <2>2. TypeOK BY Within DEF Init, TypeOK, Delivering
  <2>3. QED BY <2>1, <2>2 DEF Init, TypeInv, Launches, Unstarted, JobPlaces, Submitted, Places, Endings
<1>2. RootInv BY Within DEF Init, RootInv, NoStop
<1>3. ASSUME NEW m \in Member PROVE LifeInv(m) BY DEF Init, LifeInv, Delivering
<1>4. ASSUME NEW j \in Job PROVE JobInv(j) BY Within DEF Init, JobInv, Unspawned
<1>5. ASSUME NEW c \in Child
      PROVE  /\ LaunchInv(c) /\ RunInv(c) /\ HoldInv(c) /\ IntoInv(c) /\ DrainInv(c) /\ TellInv(c)
             /\ ReportInv(c) /\ BufferInv(c) /\ OwedInv(c) /\ ClosedInv(c) /\ CapturedInv(c)
             /\ SeenInv(c) /\ WindowInv(c) /\ LateInv(c) /\ RestInv(c)
  <2>. USE <1>5, Within, Names DEF Init
  <2>1. LaunchInv(c) BY DEF LaunchInv, Starting, Unstarted, Admitting
  <2>2. RunInv(c) /\ HoldInv(c) BY DEF RunInv, HoldInv, Holding, Admitting
  <2>3. IntoInv(c) /\ DrainInv(c) BY DEF IntoInv, DrainInv, Delivering, Admitting
  <2>4. TellInv(c) BY DEF TellInv, Settled
  <2>5. ReportInv(c) /\ BufferInv(c) /\ OwedInv(c) BY DEF ReportInv, Reporting, BufferInv, OwedInv
  <2>6. stop[c].at = "none" /\ bg[c] = "open" /\ c \notin quieted BY DEF NoStop
  <2>7. QED BY <2>1, <2>2, <2>3, <2>4, <2>5, <2>6 DEF ClosedInv, CapturedInv, SeenInv, WindowInv, LateInv, RestInv
<1>6. QED BY <1>1, <1>2, <1>3, <1>4, <1>5 DEF GroupInv

(* The inductive invariant of a root Session and the children, jobs, stops
   and callers of its lineage. *)
THEOREM GroupInvariance == Spec => []GroupInv
<1>1. Init => GroupInv BY InitGroup
<1>2. GroupInv /\ [Next]_vars => GroupInv'
  <2>. SUFFICES ASSUME GroupInv, [Next]_vars PROVE GroupInv' OBVIOUS
  <2>1. TypeInv' /\ RootInv' BY TypesStep, RootStep
  <2>2. \A m \in Member : LifeInv(m)' BY LifeStep
  <2>3. \A j \in Job : JobInv(j)' BY JobStep
  <2>4. \A c \in Child : LaunchInv(c)' /\ RunInv(c)' /\ HoldInv(c)' BY LaunchStep, RunStep, HoldStep
  <2>5. \A c \in Child : IntoInv(c)' /\ DrainInv(c)' /\ BufferInv(c)' BY IntoStep, DrainStep, BufferStep
  <2>6. \A c \in Child : TellInv(c)' /\ ReportInv(c)' /\ OwedInv(c)' BY TellStep, ReportStep, OwedStep
  <2>7. \A c \in Child : ClosedInv(c)' /\ CapturedInv(c)' /\ SeenInv(c)' BY ClosedStep, CapturedStep, SeenStep
  <2>8. \A c \in Child : WindowInv(c)' /\ LateInv(c)' /\ RestInv(c)' BY WindowStep, LateStep, RestStep
  <2>9. QED BY <2>1, <2>2, <2>3, <2>4, <2>5, <2>6, <2>7, <2>8 DEF GroupInv
<1>3. QED BY <1>1, <1>2, PTL DEF Spec

(* A pending completion at rest always has an execution tail or a member's
   finish ahead that settles it (childCompletionSettled's two triggers). *)
THEOREM ObligationIsHeld == Spec => []ObligationHeld
<1>1. GroupInv => ObligationHeld
  <2>. SUFFICES ASSUME GroupInv, NEW c \in pending, Quiet(c)
                PROVE  \/ launch[c] = "adopted"
                       \/ \E o \in Ops : exec[c][o] \in {"retire", "release", "drain", "tail"}
                       \/ \E j \in Job : Owner[j] = c /\ ending[j] = "check"
    BY DEF ObligationHeld, GroupInv, TypeInv
  <2>1. c \in Child BY DEF GroupInv, TypeInv, TypeOK
  <2>2. AtRest(c) BY <2>1, QuietIs
  <2>3. QED BY <2>1, <2>2 DEF GroupInv, OwedInv
<1>2. QED BY <1>1, GroupInvariance, PTL

(* One attempt is made to tell the parent of a member and no second one:
   nobody is told twice or of what was refused, and no child that ran to
   its end without a storage failure is finished without the attempt,
   whichever of its completion, an abandonment and a stop claims it. *)
THEOREM ParentsAreTold == Spec => []ToldOnce
<1>1. GroupInv => ToldOnce
  <2>. SUFFICES ASSUME GroupInv, NEW m \in Member
                PROVE  /\ delivered[m] <= 1 /\ (m \in refused => delivered[m] = 0)
                       /\ faults = 0 /\ m \in Child /\ member[m] = "done" /\ launch[m] = "started" =>
                              delivered[m] = 1 \/ m \in refused
    BY DEF ToldOnce
  <2>1. LifeInv(m) /\ (m \in Child => TellInv(m)) BY DEF GroupInv
  <2>2. QED BY <2>1 DEF LifeInv, TellInv
<1>2. QED BY <1>1, GroupInvariance, PTL

(* Nothing of a child runs from the moment its completion is taken to the
   parent's receipt, when nobody else gave the child input, and on a live
   Harness none of its own jobs' completions is left in its buffer. *)
THEOREM CompletionsReportAtRest == Spec => []ReportsAtRest
<1>1. GroupInv => ReportsAtRest
  <2>. SUFFICES ASSUME GroupInv, submits = 0, NEW c \in Child, Reporting(c)
                PROVE  current[c] = 0 /\ run[c] = 0 /\ Group(c) = {} /\ (ctx = "live" => buffer[c] = 0)
    BY DEF ReportsAtRest
  <2>1. AtRest(c) BY DEF GroupInv, ReportInv
  <2>2. Quiet(c) BY <2>1, QuietIs
  <2>3. ctx = "live" => buffer[c] = 0 BY <2>2 DEF GroupInv, BufferInv, Quiet
  <2>4. QED BY <2>2, <2>3 DEF Quiet
<1>2. QED BY <1>1, GroupInvariance, PTL

(* A child whose stop has returned never runs again. *)
THEOREM StoppedChildrenRest == Spec => []StoppedChildRests
<1>1. GroupInv => StoppedChildRests
  <2>. SUFFICES ASSUME GroupInv, NEW c \in quieted
                PROVE  run[c] = 0 /\ buffer[c] = 0 /\ Group(c) = {} /\ \A o \in Ops : exec[c][o] # "running"
    BY DEF StoppedChildRests
  <2>1. c \in Child BY DEF GroupInv, TypeInv
  <2>2. RestInv(c) /\ ClosedInv(c) /\ RunInv(c) BY <2>1 DEF GroupInv
  <2>3. run[c] = 0 /\ buffer[c] = 0 /\ \A j \in Job : Owner[j] = c => member[j] \notin Present
    BY <2>2 DEF RestInv, ClosedInv
  <2>4. Group(c) = {} BY <2>1, <2>3, GroupIs
  <2>5. \A o \in Ops : exec[c][o] # "running" BY <2>2, <2>3, Names DEF RunInv, Holding
  <2>6. QED BY <2>3, <2>4, <2>5
<1>2. QED BY <1>1, GroupInvariance, PTL

(* A root's stop returns only when its group is empty. *)
THEOREM RootStopsEmpty == Spec => RootStopEmpties
<1>1. ASSUME GroupInv, [Next]_vars, stop[Root].at # "none", stop'[Root].at = "none"
      PROVE  Group(Root)' = {}
  <2>. USE DEF cells, procs, env
  <2>1. TypeInv /\ RootInv /\ stop' # stop BY <1>1 DEF GroupInv
  <2>2. PICK s \in Session : Stop(s) \/ Stopping(s)
    <3>1. \A c \in Child : AdmitChild(c) \/ Launcher(c) \/ SettleClaims(c) \/ SubmitReserves(c) \/ Submits(c) => stop' = stop
      BY DEF AdmitChild, Launcher, CommitChild, HandChild, AdoptChild, StartChild, SettleRejected, FinishRejected,
             SettleClaims, SubmitReserves, Submits, SubmitRoutes, SubmitAdmits, SubmitInstalls, SubmitReleases
    <3>2. \A j \in Job : ReserveJob(j) \/ JobStarter(j) \/ JobExits(j) => stop' = stop
      BY DEF ReserveJob, JobStarter, AdmitJob, HandJob, Spawn, JobReports, JobExits
    <3>3. \A m \in Member : Ending(m) => stop' = stop
      <4>1. \A m \in Member : DeliverToRoot(m) \/ Finish(m) \/ FinishChecks(m) => stop' = stop
        BY DEF DeliverToRoot, Finish, FinishChecks
      <4>2. \A m \in Member : \A c \in Child : DeliversInto(m, c) => stop' = stop
        BY DEF DeliversInto, DeliverRoutes, DeliverReserves, DeliverReroutes, DeliverAdmits, DeliverInstalls, DeliverReleases
      <4>3. QED BY <4>1, <4>2 DEF Ending
    <3>4. \A c \in Child, o \in Ops : Execution(c, o) \/ EndRun(c, o) => stop' = stop
      BY DEF Execution, Enter, Reserve, CommitTerminal, Drain, Install, Release, Retire, Tail, CloseDone, EndRun
    <3>5. Lose => stop' = stop BY DEF Lose
    <3>6. QED BY <1>1, <2>1, <3>1, <3>2, <3>3, <3>4, <3>5 DEF Next, vars
  <2>3. StopEnds(Root)
    <3>1. \A c \in Child : StopLineage(c) \/ StopHold(c) => stop'[Root] = stop[Root]
      BY <2>1, Names DEF StopLineage, StopHold, TypeInv
    <3>2. ChildStopped => stop'[Root].at = "members" BY <2>1, Within DEF ChildStopped, TypeInv, Record
    <3>3. \A c \in Child : StopChild(c) => stop'[Root].at # "none"
      <4>1. ASSUME NEW c \in Child, StopChild(c) PROVE stop'[Root].at # "none"
        <5>1. stop \in [Session -> Record] /\ stop[Root] \in Record /\ stop[Root].at = "members"
          BY <2>1, <4>1, Within DEF TypeInv, StopChild
        <5>2. CASE stop' = [stop EXCEPT ![Root].todo = @ \ {c}] BY <5>1, <5>2, Within DEF Record
        <5>3. CASE stop' = [stop EXCEPT ![Root] = JoinChild(c)] BY <5>1, <5>3, Within DEF JoinChild
        <5>4. CASE stop' = [stop EXCEPT ![c] = Lineage(c), ![Root] = JoinChild(c)]
          BY <5>1, <5>4, Within DEF JoinChild
        <5>5. QED BY <4>1, <5>2, <5>3, <5>4 DEF StopChild
      <4>2. QED BY <4>1
    <3>4. \A j \in Job : StopJob(s, j) => stop'[Root].at = stop[Root].at BY <2>1, Within, StopJobMoves
    <3>5. Stop(s) => stop'[Root] = stop[Root] \/ stop'[Root] = RootStop
      BY <2>1, Names DEF Stop, Begin, TypeInv
    <3>6. StopEnds(s) => s = Root BY <1>1, <2>1, Within, StopEndsMoves
    <3>7. QED BY <1>1, <2>2, <3>1, <3>2, <3>3, <3>4, <3>5, <3>6 DEF Stopping, RootStop
  <2>4. member' = member /\ \A m \in stop[Root].joins : member[m] = "done" BY <2>3 DEF StopEnds, Converged
  <2>5. \A m \in Member : Parent(m) = Root => member[m] \notin Present BY <1>1, <2>1, <2>4 DEF RootInv, Present
  <2>6. QED BY <2>4, <2>5 DEF Group, Present, Parent
<1>2. GroupInv /\ [Next]_vars => [stop[Root].at # "none" /\ stop'[Root].at = "none" => Group(Root)' = {}]_vars
  BY <1>1 DEF vars
<1>3. QED BY <1>2, GroupInvariance, PTL DEF Spec, RootStopEmpties
=============================================================================
