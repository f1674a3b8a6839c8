------------------------------ MODULE NixlProofs ------------------------------
(***************************************************************************)
(* Theorems about Nixl for every number of ranks, engines, workers, groups *)
(* and staging buffers, of versions, and of posts of an update: a buffer   *)
(* keeps what is read out of it, and engines that run hold one whole       *)
(* version.                                                                *)
(*                                                                         *)
(* The statuses carry neither a version nor a group, so the invariant says *)
(* which groups they speak of.  f is the number of groups the master has   *)
(* finished: Everyone was READY for them.  The groups f .. Raised - 1, at  *)
(* most as many as there are staging buffers, are READY, in buffers of     *)
(* their own (groups that share a buffer are a round apart), and hold the  *)
(* present version on every rank.  A worker is in lockstep with f: it      *)
(* reads group f, and it is done with f - 1 once it has seen INITIALIZING. *)
(* L are the workers that a repeated post called when a group was finished *)
(* already: they ask for a group below f and can only read one that has    *)
(* since been staged in its buffer.  They never come to the end of the     *)
(* groups, so that they answer nothing and the update fails.               *)
(* A new version begins with no worker in an update, which the three       *)
(* tables' statuses ensure (Rounds, Posts, Tables), and with L empty.      *)
(***************************************************************************)
EXTENDS Nixl, TLAPS

(* Before a group is staged.                                               *)
Early == {"offer", "acked", "setup", "publish", "opened", "engines"}
Raised == IF pos[Master] < Groups THEN pos[Master] ELSE Groups
Window(f) == f .. (Raised - 1)
Active(w) == doing[w] \in {"await", "fetch", "replay", "acknowledge"}
Transferring(w) == doing[w] \in {"fetch", "replay", "acknowledge"}

(* Where the master is, next to the groups it has raised and finished.     *)
MasterPhase(f) ==
  /\ f \in 0 .. Groups /\ f <= Raised /\ Raised <= f + buffers
  /\ pos[Master] <= Groups + buffers
  /\ at[Master] \in Early \cup {"done"} => pos[Master] = 0 /\ f = 0
  /\ at[Master] \in {"stage", "staged", "raise"} =>
       /\ pos[Master] < Groups
       /\ f = IF pos[Master] < buffers THEN 0 ELSE pos[Master] - buffers + 1
  /\ at[Master] \in {"finish", "drain", "finished"} =>
       /\ buffers <= pos[Master] /\ pos[Master] < Groups + buffers
       /\ f = pos[Master] - buffers + (IF at[Master] = "finish" THEN 0 ELSE 1)
  /\ at[Master] \in {"close", "closing", "end"} => pos[Master] = Groups + buffers /\ f = Groups
  /\ ~Published => pos[Master] = 0 /\ at[Master] \in {"offer", "acked", "setup", "publish", "failed"}
  /\ at[Master] = "setup" => buffers = 0
  /\ buffers = 0 => /\ at[Master] \in {"offer", "acked", "setup", "failed"}
                    /\ pos[Master] = 0 /\ ~Published

(* The other ranks run ahead of the master only up to its next barrier.    *)
RankPhase ==
  \A r \in Rank \ {Master} :
    /\ at[Master] \in Early =>
         pos[r] = 0 /\ at[r] \in (IF buffers = 0 THEN {"setup"} ELSE {"stage", "staged"})
    /\ at[Master] \in {"stage", "staged"} => pos[r] = pos[Master] /\ at[r] \in {"stage", "staged"}
    /\ at[Master] = "raise" =>
         /\ pos[r] = pos[Master] + 1
         /\ at[r] \in (IF pos[r] < buffers THEN {"stage", "staged"} ELSE {"finished"})
    /\ at[Master] \in {"finish", "drain", "finished"} => pos[r] = pos[Master] /\ at[r] = "finished"
    /\ at[Master] \in {"close", "closing", "end"} => at[r] = "end"
    /\ at[Master] \in {"done", "failed"} => at[r] = at[Master]

(* The version, its markers and the orchestrator's part of the handshake.  *)
Idle(w) == doing[w] \in {"idle", "returned"} /\ calls[w] = posts[EngineOf(w)]
Rounds ==
  /\ at[Master] = "offer" => offered = version - 1
  /\ at[Master] # "offer" => offered = version
  /\ acked \in {version - 1, version}
  /\ acked # version => /\ at[Master] \in {"offer", "acked", "failed"} /\ pos[Master] = 0
                        /\ receiver \in {"watch", "settle", "failed"}
                        /\ table["orchestrator"] # "ready"
  /\ at[Master] = "offer" => acked # version
  /\ at[Master] \in {"end", "done"} =>
       receiver \in {"watch", "settle", "failed"} /\ table["orchestrator"] # "ready"
  /\ receiver \in {"announce", "call"} =>
       pos[Master] = 0 /\ at[Master] \in (Early \ {"offer"}) \cup {"failed"}
  /\ receiver # "watch" => acked >= 0
  /\ receiver = "update" => paused
  /\ receiver \in {"watch", "announce", "settle"} => table["orchestrator"] # "ready"
  /\ receiver \in {"call", "update", "retract"} => table["orchestrator"] = "ready"

(* No worker is called while no post is under way, and one that has served *)
(* its engine's posts is left alone.                                       *)
Posts ==
  /\ table["orchestrator"] # "ready" \/ receiver \in {"call", "retract"} =>
       waiting = {} /\ \A w \in Worker : Idle(w)
  /\ receiver \in {"retract", "settle"} => \A w \in Worker : doing[w] = "returned"
  /\ receiver = "update" => \A w \in Worker : EngineOf(w) \in waiting \/ Served(w)
  /\ receiver = "update" \/ waiting # {} => \A e \in Engines : posts[e] > 0
  /\ \A w \in Worker : calls[w] <= posts[EngineOf(w)] /\ (Active(w) => calls[w] > 0)

(* What the workers say of themselves in the table.                        *)
TablesOf(w) ==
  /\ doing[w] = "idle" => count[w] = 0
  /\ doing[w] = "returned" => table[w] = "ready"
  /\ doing[w] = "failed" => table[w] # "ready"
  /\ calls[w] < posts[EngineOf(w)] /\ calls[w] = 0 =>
       /\ doing[w] \in {"idle", "returned"} /\ pos[Master] = 0
       /\ at[Master] \in (Early \ {"offer"}) \cup {"failed"}
  /\ Active(w) => table[w] = "initializing" /\ count[w] > 0
  /\ count[w] > 0 => Published /\ buffers > 0
  /\ count[w] = 0 => /\ table[w] = "none" /\ pos[Master] = 0
                     /\ at[Master] \in Early \cup {"failed"}
Tables == \A w \in Worker : TablesOf(w)

(* The staging buffers that are READY are those of the window.             *)
Statuses(f) ==
  \A b \in 0 .. (MaxCount - 1) :
    buf[b]["trainer"] =
      IF ~Published \/ b >= buffers THEN "none"
      ELSE IF \E g \in Window(f) : g % buffers = b THEN "ready" ELSE "initializing"

(* and they hold the window's groups of the present version.               *)
Stagings(f) ==
  \A r \in Serving :
    /\ \A g \in Window(f) : staging[r][g % buffers] = <<version, g>>
    /\ at[r] = "staged" => staging[r][pos[r] % buffers] = <<version, pos[r]>>
    /\ at[Master] = "raise" => staging[r][pos[Master] % buffers] = <<version, pos[Master]>>

(* The workers L were called again when a group was finished already.  The *)
(* others are in lockstep: the group they read is the next one to be       *)
(* finished, or just has been, by a master that waits for them in drain.   *)
(* For that they are READY: they acknowledged in this call, or, the first  *)
(* group, in an earlier one.                                               *)
InStep(w, f) ==
  \/ f = pull[w].group
  \/ /\ f = pull[w].group + 1 /\ at[Master] \in {"drain", "failed"}
     /\ buf[pull[w].group % buffers][w] = "ready"
     /\ \A r \in Serving : staging[r][pull[w].group % buffers] = <<version, pull[w].group>>

(* Where a worker is in its pull.                                          *)
Shape(w) ==
  LET p == pull[w] IN
  /\ ~Transferring(w) => p.step = "none"
  /\ doing[w] = "fetch" => (p.step = "none" /\ next[w] = Groups) \/ (p.step # "none" /\ p.group = next[w])
  /\ doing[w] = "fetch" /\ count[w] = 1 => p.step # "acked"
  /\ doing[w] = "replay" /\ count[w] = 1 => p.step = "done" /\ p.group = next[w]
  /\ doing[w] = "replay" /\ count[w] = 2 =>
       (p.step = "none" /\ next[w] = Groups - 1) \/ (p.step # "none" /\ p.group = next[w] + 1)
  /\ doing[w] = "acknowledge" => count[w] = 1 /\ p.step \in {"done", "acked"} /\ p.group = next[w]
  /\ p.step \in {"done", "acked"} => p.unread = {}

(* It has seen READY of a buffer, and not yet INITIALIZING.                *)
Midway(w) ==
  pull[w].step \in {"reading", "acked"} \/ (pull[w].step = "done" /\ count[w] = 1)

(* and where it is next to the groups that are finished.                   *)
Abreast(w, f) ==
  /\ doing[w] = "await" => f = 0
  /\ Transferring(w) /\ pull[w].step = "none" => f = Groups
  /\ pull[w].step = "wanted" => f = pull[w].group /\ pull[w].unread = Serving
  /\ pull[w].step = "done" /\ count[w] = 2 => f = pull[w].group + 1
  /\ Midway(w) => pull[w].group < Raised /\ InStep(w, f)

(* A worker is READY for the buffer of the group it has acknowledged.      *)
(* Called again before anything was finished, it may still be READY for    *)
(* the first.                                                              *)
Opening(w) ==
  \/ doing[w] = "await" /\ calls[w] > 1
  \/ calls[w] > 1 /\ pull[w].group = 0 /\ pull[w].step \in {"wanted", "reading"}
  \/ calls[w] > 1 /\ pull[w].group = 0 /\ pull[w].step = "done" /\ count[w] = 1
Acks(w, f) ==
  \A b \in 0 .. (MaxCount - 1) :
    /\ (count[w] = 0 \/ b >= buffers) <=> buf[b][w] = "none"
    /\ pull[w].step = "acked" /\ b = pull[w].group % buffers => buf[b][w] = "ready"
    /\ buf[b][w] = "ready" =>
         \/ pull[w].step = "acked" /\ b = pull[w].group % buffers
         \/ b = 0 /\ Opening(w)
         \/ doing[w] = "failed" /\ (f = 0 => b = 0)

(* A worker of L waits for groups that are finished.  It takes for one of  *)
(* them a later one that shares its buffer, if it comes to be READY, and   *)
(* never gets to the end.                                                  *)
Late(w, f) ==
  /\ doing[w] \notin {"idle", "returned"} /\ calls[w] > 1 /\ f > 0
  /\ Transferring(w) => pull[w].step # "none" /\ pull[w].group < f
  /\ Midway(w) => buf[pull[w].group % buffers]["trainer"] = "ready" \/ f > pull[w].group + 1
  /\ pull[w].step = "done" /\ count[w] = 2 => f > pull[w].group + 1
  /\ pull[w].step = "reading" =>
       \/ buf[pull[w].group % buffers]["trainer"] = "ready"
       \/ /\ at[Master] \in {"drain", "failed"} /\ (f - 1) % buffers = pull[w].group % buffers
          /\ buf[pull[w].group % buffers][w] = "ready"
          /\ \A r \in Serving : staging[r][pull[w].group % buffers] = <<version, f - 1>>

(* The receive buffers: what is read, and what is being replayed.          *)
Filled(w) ==
  pull[w].step # "none" =>
    \A r \in Serving \ pull[w].unread :
      received[w][pull[w].group % count[w]][r] = <<version, pull[w].group>>
Held(w) ==
  doing[w] = "replay" =>
    \A r \in Serving : received[w][next[w] % count[w]][r] = <<version, next[w]>>
Lockstep(w, f) == Abreast(w, f) /\ Acks(w, f) /\ Filled(w) /\ Held(w)
Follows(w, f, L) == Shape(w) /\ IF w \in L THEN Late(w, f) ELSE Lockstep(w, f)

LoadedVersion == IF receiver \in {"announce", "call"} THEN acked - 1 ELSE acked
Holds(w, g, v) == \A r \in Serving : weights[w][g][r] = IF v = -1 THEN Nothing ELSE <<v, g>>
(* The groups a worker has replayed in this update.                        *)
Loaded(w, g) ==
  \/ Transferring(w) /\ g < next[w]
  \/ doing[w] = "acknowledge" /\ g = next[w]
  \/ doing[w] = "returned" /\ calls[w] > 0
Loads(L) ==
  /\ receiver \notin {"update", "failed"} =>
       \A w \in Worker, g \in Group : Holds(w, g, LoadedVersion)
  /\ receiver \in {"update", "failed"} =>
       \A w \in Worker \ L, g \in Group : Loaded(w, g) => Holds(w, g, acked)

(* The invariant, for the number f of groups the master has finished and   *)
(* the workers L that were called again too late.                          *)
Good(f, L) ==
  /\ TypeOK /\ MasterPhase(f) /\ RankPhase /\ Rounds /\ Posts /\ Tables
  /\ Statuses(f) /\ Stagings(f) /\ Loads(L)
  /\ \A w \in Worker : Follows(w, f, L)
IInv == \E f \in 0 .. Groups, L \in SUBSET Worker : Good(f, L)

(* Groups that share a staging buffer are a round of them apart.           *)
LEMMA ModRange ==
  ASSUME NEW n \in Nat \ {0}, NEW g \in Nat
  PROVE  g % n \in 0 .. (n - 1)
OBVIOUS

LEMMA ModShift ==
  ASSUME NEW n \in Nat \ {0}, NEW g \in Nat
  PROVE  (g + n) % n = g % n
<1> DEFINE p == g \div n
           q == (g + n) \div n
           r == g % n
           s == (g + n) % n
<1>1. p \in Int /\ q \in Int /\ r \in 0 .. (n - 1) /\ s \in 0 .. (n - 1)  OBVIOUS
<1>2. g = n * p + r /\ g + n = n * q + s  OBVIOUS
<1> HIDE DEF p, q, r, s
<1>3. n * (q - p - 1) = r - s
  <2>1. n * (q - p - 1) = n * q - n * p - n  BY <1>1
  <2>2. n * p \in Int /\ n * q \in Int  BY <1>1
  <2> QED  BY <1>1, <1>2, <2>1, <2>2
<1>4. CASE q - p - 1 <= -1
  <2>1. n * (q - p - 1) <= -n  BY <1>1, <1>4
  <2> QED  BY <1>1, <1>3, <2>1
<1>5. CASE q - p - 1 >= 1
  <2>1. n * (q - p - 1) >= n  BY <1>1, <1>5
  <2> QED  BY <1>1, <1>3, <2>1
<1>6. CASE q - p - 1 = 0
  <2>1. n * (q - p - 1) = 0  BY <1>6
  <2>2. r = s  BY <1>1, <1>3, <2>1
  <2> QED  BY <2>2 DEF r, s
<1> QED  BY <1>1, <1>4, <1>5, <1>6

LEMMA ModApart ==
  ASSUME NEW n \in Nat \ {0}, NEW g \in Nat, NEW h \in Nat, g < h, h < g + n
  PROVE  g % n # h % n
<1> SUFFICES ASSUME g % n = h % n PROVE FALSE  OBVIOUS
<1> DEFINE p == g \div n
           q == h \div n
<1>1. p \in Int /\ q \in Int  OBVIOUS
<1>2. g = n * p + (g % n) /\ h = n * q + (h % n)  OBVIOUS
<1>3. h - g = n * q - n * p  BY <1>1, <1>2
<1> HIDE DEF p, q
<1>4. n * q - n * p = n * (q - p)  BY <1>1
<1>5. CASE q - p <= 0
  <2>1. n * (q - p) <= 0  BY <1>1, <1>5
  <2> QED  BY <1>3, <1>4, <2>1
<1>6. CASE q - p >= 1
  <2>1. n * (q - p) >= n  BY <1>1, <1>6
  <2> QED  BY <1>3, <1>4, <2>1
<1> QED  BY <1>1, <1>5, <1>6

LEMMA ModSmall ==
  ASSUME NEW n \in Nat \ {0}, NEW g \in Nat, g < n
  PROVE  g % n = g
OBVIOUS

(* A worker is neither the trainer nor the orchestrator.                   *)
LEMMA Names ==
  ASSUME NixlAssumption
  PROVE  \A w \in Worker : w # "trainer" /\ w # "orchestrator"
BY DEF NixlAssumption

(* What most steps need to know of the constants.                          *)
LEMMA Basics ==
  ASSUME NixlAssumption
  PROVE  /\ Master \in Rank /\ Master \in Serving /\ Serving \subseteq Rank
         /\ Groups \in Nat \ {0} /\ MaxVersion \in Nat
BY DEF NixlAssumption

(* Updates of functions, and of nested functions.                          *)
LEMMA Update1 ==
  ASSUME NEW A, NEW C, NEW F \in [A -> C], NEW a \in A, NEW c \in C
  PROVE  /\ [F EXCEPT ![a] = c] \in [A -> C]
         /\ \A x \in A : [F EXCEPT ![a] = c][x] = IF x = a THEN c ELSE F[x]
OBVIOUS

LEMMA Update2 ==
  ASSUME NEW A, NEW B, NEW C, NEW F \in [A -> [B -> C]], NEW a \in A, NEW b \in B, NEW c \in C
  PROVE  /\ [F EXCEPT ![a][b] = c] \in [A -> [B -> C]]
         /\ \A x \in A, y \in B :
              [F EXCEPT ![a][b] = c][x][y] = IF x = a /\ y = b THEN c ELSE F[x][y]
OBVIOUS

(* The staging buffers, and how far the master has raised.                 *)
LEMMA Sizes ==
  ASSUME NixlAssumption, TypeOK
  PROVE  /\ MaxCount \in 1 .. Groups /\ buffers \in 0 .. MaxCount
         /\ buffers \in 0 .. Groups /\ buffers > 0 => buffers \in 1 .. Groups
         /\ Raised \in 0 .. Groups
<1>1. MaxCount \in 1 .. Groups  BY DEF MaxCount, NixlAssumption
<1>2. buffers \in 0 .. MaxCount  BY DEF TypeOK
<1>3. pos[Master] \in Nat
  <2>1. pos[Master] \in 0 .. (Groups + MaxCount)  BY DEF NixlAssumption, TypeOK
  <2> QED  BY <1>1, <2>1
<1> QED  BY <1>1, <1>2, <1>3 DEF Raised, NixlAssumption

(* A position and the position a round later use the same buffer.          *)
LEMMA Positions ==
  ASSUME NixlAssumption, buffers \in 1 .. Groups, NEW i \in Nat
  PROVE  /\ BufferAt(i) = i % buffers
         /\ i < Groups => GroupAt(i) = i
         /\ LastPosition = Groups + buffers - 1
<1>1. CASE i < Groups
  BY <1>1 DEF BufferAt, GroupAt, LastPosition, FirstPending, NixlAssumption
<1>2. CASE i >= Groups
  <2>1. GroupAt(i) = i - buffers  BY <1>2, NixlAssumption DEF GroupAt, FirstPending
  <2>2. i - buffers \in Nat /\ buffers \in Nat \ {0}  BY <1>2, NixlAssumption
  <2>3. ((i - buffers) + buffers) % buffers = (i - buffers) % buffers  BY <2>2, ModShift
  <2>4. (i - buffers) + buffers = i  BY <2>2
  <2> QED  BY <1>2, <2>1, <2>3, <2>4, NixlAssumption DEF BufferAt, LastPosition, FirstPending
<1> QED  BY <1>1, <1>2, NixlAssumption

(* Every worker is in an engine, and in no other.                          *)
LEMMA EngineOfWorker ==
  ASSUME NixlAssumption
  PROVE  /\ \A w \in Worker : EngineOf(w) \in Engines /\ w \in EngineOf(w)
         /\ \A e \in Engines : \A w \in e : w \in Worker
         /\ \E w \in Worker : TRUE
<1>1. \A e \in Engines : \A w \in e : w \in Worker  BY DEF Worker
<1>2. \A w \in Worker : \E e \in Engines : w \in e  BY DEF Worker
<1>3. \A w \in Worker : EngineOf(w) \in Engines /\ w \in EngineOf(w)  BY <1>2 DEF EngineOf
<1>4. \E w \in Worker : TRUE
  <2>1. PICK e \in Engines : e # {}  BY DEF NixlAssumption
  <2> QED  BY <1>1, <2>1
<1> QED  BY <1>1, <1>3, <1>4

(* What every pull under way can rely on.                                  *)
LEMMA PullFacts ==
  ASSUME NixlAssumption, NEW f \in 0 .. Groups, NEW L \in SUBSET Worker, Good(f, L),
         NEW w \in Worker, pull[w].step # "none"
  PROVE  /\ Transferring(w) /\ count[w] \in {1, 2} /\ next[w] \in Nat
         /\ buffers \in 1 .. Groups /\ buffers <= MaxCount /\ buffers \in Nat \ {0}
         /\ pull[w].group \in Nat /\ pull[w].group \in Group
         /\ SessionOf(pull[w].group) = pull[w].group % buffers
         /\ pull[w].group % buffers \in 0 .. (MaxCount - 1) /\ pull[w].group % buffers < buffers
         /\ f = 0 => pull[w].group % buffers = 0 \/ pull[w].group > 0
<1>1. Transferring(w)  BY Zenon DEF Good, Follows, Shape
<1>2. count[w] > 0 /\ buffers > 0  BY <1>1 DEF Good, Tables, TablesOf, Active, Transferring
<1>3. count[w] \in 0 .. 2 /\ next[w] \in 0 .. Groups /\ pull[w] \in Pull  BY DEF Good, TypeOK
<1>4. pull[w].group \in Group /\ pull[w].group \in Nat  BY <1>3 DEF Pull, Group, NixlAssumption
<1>5. buffers \in 1 .. Groups /\ buffers <= MaxCount /\ buffers \in Nat \ {0}
  BY <1>2, Sizes DEF Good
<1>6. pull[w].group % buffers \in 0 .. (buffers - 1)  BY <1>4, <1>5, ModRange
<1>7. pull[w].group % buffers \in 0 .. (MaxCount - 1) /\ pull[w].group % buffers < buffers
  BY <1>5, <1>6, Sizes DEF Good
<1>8. pull[w].group = 0 => pull[w].group % buffers = 0  BY <1>4, <1>5, ModSmall
<1> QED  BY <1>1, <1>2, <1>3, <1>4, <1>5, <1>7, <1>8 DEF SessionOf

(* While a worker serves a call or may be called, an update is under way.  *)
LEMMA BusyFacts ==
  ASSUME NixlAssumption, NEW f \in 0 .. Groups, NEW L \in SUBSET Worker, Good(f, L),
         NEW w \in Worker, ~Idle(w)
  PROVE  /\ receiver \in {"update", "failed"} /\ table["orchestrator"] = "ready"
         /\ acked = version /\ acked \in Nat /\ at[Master] \notin {"offer", "end", "done"}
<1>1. table["orchestrator"] = "ready" /\ receiver \notin {"call", "retract"}  BY DEF Good, Posts
<1>2. receiver \in {"update", "failed"}  BY <1>1 DEF Good, TypeOK, Rounds
<1>3. acked = version /\ at[Master] \notin {"offer", "end", "done"}  BY <1>1 DEF Good, Rounds
<1>4. version \in Nat  BY DEF Good, TypeOK, Version, NixlAssumption
<1> QED  BY <1>1, <1>2, <1>3, <1>4

(* So it is while a post is under way.                                     *)
LEMMA WaitingFacts ==
  ASSUME NEW f \in 0 .. Groups, NEW L \in SUBSET Worker, Good(f, L), waiting # {}
  PROVE  receiver \in {"update", "failed"} /\ table["orchestrator"] = "ready"
<1>1. table["orchestrator"] = "ready" /\ receiver \notin {"call", "retract"}  BY DEF Good, Posts
<1> QED  BY <1>1 DEF Good, TypeOK, Rounds

(* The numbers of calls and posts.                                         *)
LEMMA Counters ==
  ASSUME NixlAssumption, TypeOK, NEW w \in Worker
  PROVE  calls[w] \in Nat /\ posts[EngineOf(w)] \in Nat /\ MaxAttempts \in Nat /\ EngineOf(w) \in Engines
<1>1. EngineOf(w) \in Engines  BY EngineOfWorker
<1>2. MaxAttempts \in Nat /\ calls[w] \in 0 .. MaxAttempts /\ posts[EngineOf(w)] \in 0 .. MaxAttempts
  BY <1>1 DEF TypeOK, NixlAssumption
<1> QED  BY <1>1, <1>2
-----------------------------------------------------------------------------
(* What does not touch a conjunct keeps it.                                *)
LEMMA MasterPhaseFrame ==
  ASSUME NEW f \in Nat, MasterPhase(f), UNCHANGED <<at, pos, buffers>>,
         table'["trainer"] = table["trainer"]
  PROVE  MasterPhase(f)'
BY DEF MasterPhase, Raised, Early, Published

LEMMA RankPhaseFrame ==
  ASSUME RankPhase, UNCHANGED <<at, pos, buffers>>
  PROVE  RankPhase'
BY DEF RankPhase, Early

LEMMA RoundsFrame ==
  ASSUME Rounds, UNCHANGED <<at, pos, version, offered, acked, receiver, paused>>,
         table'["orchestrator"] = table["orchestrator"]
  PROVE  Rounds'
BY DEF Rounds, Early

LEMMA PostsFrame ==
  ASSUME Posts, UNCHANGED <<receiver, waiting, posts, calls, doing>>,
         table'["orchestrator"] = table["orchestrator"]
  PROVE  Posts'
BY DEF Posts, Idle, Served, Active

LEMMA StatusesFrame ==
  ASSUME NEW f \in Nat, Statuses(f), UNCHANGED <<pos, buffers>>,
         table'["trainer"] = table["trainer"],
         \A b \in 0 .. (MaxCount - 1) : buf'[b]["trainer"] = buf[b]["trainer"]
  PROVE  Statuses(f)'
BY DEF Statuses, Raised, Window, Published

LEMMA StagingsFrame ==
  ASSUME NEW f \in Nat, Stagings(f), UNCHANGED <<at, pos, version, buffers, staging>>
  PROVE  Stagings(f)'
BY DEF Stagings, Raised, Window

LEMMA LoadsFrame ==
  ASSUME NEW L \in SUBSET Worker, Loads(L), UNCHANGED <<receiver, acked, calls, doing, next, weights>>
  PROVE  Loads(L)'
BY DEF Loads, Holds, LoadedVersion, Loaded, Transferring

(* What a worker says in the table, when the trainer moves before the      *)
(* first group or after it.                                                *)
LEMMA TablesKept ==
  ASSUME Tables,
         UNCHANGED <<calls, posts, doing, count, buffers>>,
         \A w \in Worker : table'[w] = table[w],
         Published => Published',
         \A w \in Worker :
           /\ count[w] = 0 =>
                pos'[Master] = pos[Master] /\ at'[Master] \in Early \cup {"failed"}
           /\ calls[w] < posts[EngineOf(w)] /\ calls[w] = 0 =>
                /\ pos'[Master] = pos[Master]
                /\ at'[Master] \in (Early \ {"offer"}) \cup {"failed"}
  PROVE  Tables'
<1> SUFFICES ASSUME NEW w \in Worker PROVE TablesOf(w)'  BY DEF Tables
<1>1. TablesOf(w) /\ table'[w] = table[w]  BY DEF Tables
<1> QED  BY <1>1 DEF TablesOf, Active, Early

LEMMA FilledStays ==
  ASSUME NEW w, Filled(w), version' = version, received'[w] = received[w], count'[w] = count[w],
         pull'[w].step # "none" =>
           /\ pull[w].step # "none" /\ pull'[w].group = pull[w].group
           /\ pull'[w].unread = pull[w].unread
  PROVE  Filled(w)'
BY Zenon DEF Filled

LEMMA HeldStays ==
  ASSUME NEW w, Held(w), version' = version, received'[w] = received[w], count'[w] = count[w],
         doing'[w] = "replay" => doing[w] = "replay" /\ next'[w] = next[w]
  PROVE  Held(w)'
BY Zenon DEF Held

(* A worker that does nothing follows on, as long as what it reads stays,  *)
(* what is READY stays so and the master waits in drain.                   *)
LEMMA FollowsKept ==
  ASSUME NEW f \in Nat, NEW L \in SUBSET Worker, NEW w \in Worker, Follows(w, f, L),
         UNCHANGED <<version, buffers>>,
         /\ calls'[w] = calls[w] /\ doing'[w] = doing[w] /\ next'[w] = next[w]
         /\ count'[w] = count[w] /\ pull'[w] = pull[w] /\ received'[w] = received[w],
         pull[w].step # "none" => pull[w].group % buffers \in 0 .. (MaxCount - 1),
         \A b \in 0 .. (MaxCount - 1) :
           /\ buf'[b][w] = buf[b][w]
           /\ buf[b]["trainer"] = "ready" => buf'[b]["trainer"] = "ready",
         \A g \in Group : g < Raised => g < Raised',
         pull[w].group \in Group,
         at[Master] \in {"drain", "failed"} => at'[Master] \in {"drain", "failed"} /\ staging' = staging
  PROVE  Follows(w, f, L)'
<1>1. Shape(w)'  BY DEF Follows, Shape, Transferring
<1>2. ASSUME w \in L PROVE Late(w, f)'
  <2>1. Late(w, f)  BY <1>2 DEF Follows
  <2>2. Midway(w)' = Midway(w) /\ Transferring(w)' = Transferring(w)  BY DEF Midway, Transferring
  <2>3. Midway(w) \/ pull[w].step = "reading" => pull[w].step # "none"  BY DEF Midway
  <2> QED  BY <2>1, <2>2, <2>3 DEF Late
<1>3. ASSUME w \notin L PROVE Lockstep(w, f)'
  <2>1. Lockstep(w, f)  BY <1>3 DEF Follows
  <2>2. Midway(w)' = Midway(w) /\ Transferring(w)' = Transferring(w)  BY DEF Midway, Transferring
  <2>3. Midway(w) => pull[w].step # "none"  BY DEF Midway
  <2>4. Abreast(w, f)'
    <3>1. Midway(w) /\ InStep(w, f) => InStep(w, f)'  BY <2>3 DEF InStep
    <3> QED  BY <2>1, <2>2, <3>1 DEF Lockstep, Abreast
  <2>5. Acks(w, f)'  BY <2>1 DEF Lockstep, Acks, Opening
  <2>6. Filled(w)' /\ Held(w)'  BY <2>1, FilledStays, HeldStays DEF Lockstep
  <2> QED  BY <2>4, <2>5, <2>6 DEF Lockstep
<1> QED  BY <1>1, <1>2, <1>3 DEF Follows

(* A step of the trainer or the orchestrator, for the workers.             *)
LEMMA AllFollow ==
  ASSUME NixlAssumption, NEW f \in 0 .. Groups, NEW L \in SUBSET Worker, Good(f, L),
         UNCHANGED <<version, buffers, calls, doing, next, count, pull, received>>,
         \A b \in 0 .. (MaxCount - 1) :
           /\ \A w \in Worker : buf'[b][w] = buf[b][w]
           /\ buf[b]["trainer"] = "ready" => buf'[b]["trainer"] = "ready",
         \A g \in Group : g < Raised => g < Raised',
         at[Master] \in {"drain", "failed"} => at'[Master] \in {"drain", "failed"} /\ staging' = staging
  PROVE  \A w \in Worker : Follows(w, f, L)'
<1> TAKE w \in Worker
<1>1. Follows(w, f, L) /\ f \in Nat  BY NixlAssumption DEF Good
<1>2. pull[w].step # "none" => pull[w].group % buffers \in 0 .. (MaxCount - 1)  BY NixlAssumption, PullFacts
<1>3. pull[w].group \in Group  BY DEF Good, TypeOK, Pull
<1> QED  BY <1>1, <1>2, <1>3, FollowsKept

(* A step of one worker that serves or is about to serve a call.           *)
LEMMA WorkerStep ==
  ASSUME NixlAssumption, NEW f \in 0 .. Groups, NEW L \in SUBSET Worker, NEW M \in SUBSET Worker,
         Good(f, L), NEW w \in Worker, ~Idle(w), L \subseteq M, M \subseteq L \cup {w},
         UNCHANGED <<trainerVars, offered, acked, receiverVars>>,
         TypeOK',
         table'["trainer"] = table["trainer"], table'["orchestrator"] = table["orchestrator"],
         \A b \in 0 .. (MaxCount - 1) :
           buf'[b]["trainer"] = buf[b]["trainer"] /\ \A q \in Worker \ {w} : buf'[b][q] = buf[b][q],
         \A q \in Worker \ {w} :
           /\ calls'[q] = calls[q] /\ doing'[q] = doing[q] /\ next'[q] = next[q]
           /\ count'[q] = count[q] /\ pull'[q] = pull[q] /\ received'[q] = received[q]
           /\ weights'[q] = weights[q] /\ table'[q] = table[q],
         calls'[w] <= posts[EngineOf(w)], Active(w)' => calls'[w] > 0,
         TablesOf(w)', Follows(w, f, M)',
         w \notin M => \A g \in Group : Loaded(w, g)' => Holds(w, g, acked)'
  PROVE  Good(f, M)'
<1> USE NixlAssumption
<1>0. f \in Nat  OBVIOUS
<1>u. /\ UNCHANGED <<at, pos, version, buffers, staging>> /\ UNCHANGED <<offered, acked>>
      /\ UNCHANGED <<receiver, paused, waiting, posts>>
  BY DEF trainerVars, receiverVars, postVars
<1>b. receiver \in {"update", "failed"} /\ table["orchestrator"] = "ready" /\ acked = version
  BY BusyFacts
<1>1. MasterPhase(f)' /\ RankPhase' /\ Rounds' /\ Statuses(f)' /\ Stagings(f)'
  BY <1>0, <1>u, MasterPhaseFrame, RankPhaseFrame, RoundsFrame, StatusesFrame, StagingsFrame DEF Good
<1>2. Posts'
  <2>1. ASSUME receiver = "update", NEW q \in Worker PROVE EngineOf(q) \in waiting \/ Served(q)'
    <3>1. EngineOf(q) \in waiting \/ Served(q)  BY <2>1 DEF Good, Posts
    <3>2. ~Served(w)  BY DEF Served, Idle
    <3>3. CASE q = w  BY <3>1, <3>2, <3>3
    <3>4. CASE q # w  BY <1>u, <3>1, <3>4 DEF Served
    <3> QED  BY <3>3, <3>4
  <2>2. \A q \in Worker : calls'[q] <= posts[EngineOf(q)] /\ (Active(q)' => calls'[q] > 0)
    <3> TAKE q \in Worker
    <3>1. CASE q = w  BY <3>1
    <3>2. CASE q # w
      <4>1. calls[q] <= posts[EngineOf(q)] /\ (Active(q) => calls[q] > 0)  BY DEF Good, Posts
      <4> QED  BY <3>2, <4>1 DEF Active
    <3> QED  BY <3>1, <3>2
  <2>3. receiver = "update" \/ waiting # {} => \A e \in Engines : posts[e] > 0  BY DEF Good, Posts
  <2> QED  BY <1>b, <1>u, <2>1, <2>2, <2>3 DEF Posts
<1>3. Tables'
  <2> SUFFICES ASSUME NEW q \in Worker, q # w PROVE TablesOf(q)'  BY DEF Tables
  <2>1. TablesOf(q)  BY DEF Good, Tables
  <2> QED  BY <1>u, <2>1 DEF TablesOf, Active, Published
<1>4. Loads(M)'
  <2> SUFFICES ASSUME NEW q \in Worker \ M, NEW g \in Group, Loaded(q, g)' PROVE Holds(q, g, acked)'
    BY <1>b, <1>u DEF Loads
  <2>1. CASE q # w
    <3>1. Loaded(q, g)  BY <2>1 DEF Loaded, Transferring
    <3>2. Holds(q, g, acked)  BY <1>b, <3>1 DEF Good, Loads
    <3> QED  BY <1>u, <2>1, <3>2 DEF Holds
  <2> QED  BY <2>1
<1>5. \A q \in Worker : Follows(q, f, M)'
  <2> SUFFICES ASSUME NEW q \in Worker, q # w PROVE Follows(q, f, M)'  OBVIOUS
  <2>1. Follows(q, f, L)  BY DEF Good
  <2>2. pull[q].step # "none" => pull[q].group % buffers \in 0 .. (MaxCount - 1)  BY PullFacts
  <2>3. pull[q].group \in Group  BY DEF Good, TypeOK, Pull
  <2>4. \A g \in Group : g < Raised => g < Raised'  BY <1>u DEF Raised
  <2>5. Follows(q, f, L)'  BY <1>0, <1>u, <2>1, <2>2, <2>3, <2>4, FollowsKept
  <2> QED  BY <2>5 DEF Follows
<1> QED  BY <1>1, <1>2, <1>3, <1>4, <1>5 DEF Good
-----------------------------------------------------------------------------
(* A step of the trainer that finishes no group and sees no buffer drained.*)
LEMMA TrainerStep ==
  ASSUME NixlAssumption, NEW f \in 0 .. Groups, NEW L \in SUBSET Worker, Good(f, L),
         UNCHANGED <<version, buffers, acked, receiverVars, workerVars>>,
         table'["orchestrator"] = table["orchestrator"], \A w \in Worker : table'[w] = table[w],
         Published => Published',
         \A b \in 0 .. (MaxCount - 1) :
           /\ \A w \in Worker : buf'[b][w] = buf[b][w]
           /\ buf[b]["trainer"] = "ready" => buf'[b]["trainer"] = "ready",
         \A g \in Group : g < Raised => g < Raised',
         at[Master] \in {"drain", "failed"} => at'[Master] \in {"drain", "failed"} /\ staging' = staging,
         \A w \in Worker :
           /\ count[w] = 0 =>
                pos'[Master] = pos[Master] /\ at'[Master] \in Early \cup {"failed"}
           /\ calls[w] < posts[EngineOf(w)] /\ calls[w] = 0 =>
                /\ pos'[Master] = pos[Master]
                /\ at'[Master] \in (Early \ {"offer"}) \cup {"failed"},
         TypeOK', MasterPhase(f)', RankPhase', Rounds', Statuses(f)', Stagings(f)'
  PROVE  Good(f, L)'
<1>u. /\ UNCHANGED <<receiver, paused, waiting, posts>>
      /\ UNCHANGED <<calls, doing, next, count, pull, received, weights>>
  BY DEF receiverVars, postVars, workerVars
<1>1. Posts' /\ Loads(L)'  BY <1>u, PostsFrame, LoadsFrame DEF Good
<1>2. Tables'  BY <1>u, TablesKept DEF Good
<1>3. \A w \in Worker : Follows(w, f, L)'  BY <1>u, AllFollow
<1> QED  BY <1>1, <1>2, <1>3 DEF Good

(* The master: markers, and the handshake before the first group.          *)
LEMMA OfferKeeps ==
  ASSUME NixlAssumption, NEW f \in 0 .. Groups, NEW L \in SUBSET Worker, Good(f, L),
         Offer
  PROVE  Good(f, L)'
<1>0. /\ Master \in Rank /\ Master \in Serving /\ Serving \subseteq Rank
      /\ Groups \in Nat \ {0} /\ MaxVersion \in Nat /\ f \in Nat
  BY Basics
<1> USE <1>0
<1>u. UNCHANGED <<pos, version, buffers, staging, acked, buf, receiverVars, workerVars>>
  BY DEF Offer
<1>r. Raised' = Raised /\ Window(f)' = Window(f)  BY <1>u DEF Raised, Window
<1>1. TypeOK'
  BY <1>0 DEF Good, TypeOK, Offer, trainerVars, receiverVars, postVars, workerVars, Version,
    Status, Place
<1>2. MasterPhase(f)'
  BY <1>0, <1>r DEF Good, TypeOK, MasterPhase, RankPhase, Rounds, Early, Published, Offer
<1>3. RankPhase'
  BY <1>0 DEF Good, TypeOK, MasterPhase, RankPhase, Early, Offer
<1>4. Rounds'
  BY <1>0 DEF Good, TypeOK, MasterPhase, Rounds, Early, Offer, receiverVars, postVars
<1>5. Stagings(f)'
  <2>1. at'[Master] # "raise" /\ \A r \in Serving : at'[r] = "staged" => at[r] = "staged"
    BY <1>0 DEF Good, TypeOK, MasterPhase, Offer
  <2> QED  BY <1>r, <1>u, <2>1 DEF Good, Stagings
<1>6. Statuses(f)'
  BY <1>0, <1>r DEF Good, TypeOK, MasterPhase, Statuses, Published, Offer
<1>7. /\ table'["orchestrator"] = table["orchestrator"] /\ \A w \in Worker : table'[w] = table[w]
      /\ Published => Published'
  BY Names DEF Good, TypeOK, Offer, Published
<1>8. \A w \in Worker :
           /\ count[w] = 0 =>
                pos'[Master] = pos[Master] /\ at'[Master] \in Early \cup {"failed"}
           /\ calls[w] < posts[EngineOf(w)] /\ calls[w] = 0 =>
                /\ pos'[Master] = pos[Master]
                /\ at'[Master] \in (Early \ {"offer"}) \cup {"failed"}
  BY <1>0 DEF Good, TypeOK, Tables, TablesOf, Early, Offer
<1>9. at[Master] \in {"drain", "failed"} => at'[Master] \in {"drain", "failed"} /\ staging' = staging
  BY <1>0, <1>u DEF Offer
<1>10. /\ \A b \in 0 .. (MaxCount - 1) :
             /\ \A w \in Worker : buf'[b][w] = buf[b][w]
             /\ buf[b]["trainer"] = "ready" => buf'[b]["trainer"] = "ready"
       /\ \A g \in Group : g < Raised => g < Raised'
  BY <1>r, <1>u
<1> QED
  BY <1>1, <1>2, <1>3, <1>4, <1>5, <1>6, <1>7, <1>8, <1>9, <1>10, <1>u, TrainerStep

LEMMA SeeAckKeeps ==
  ASSUME NixlAssumption, NEW f \in 0 .. Groups, NEW L \in SUBSET Worker, Good(f, L),
         SeeAck
  PROVE  Good(f, L)'
<1>0. /\ Master \in Rank /\ Master \in Serving /\ Serving \subseteq Rank
      /\ Groups \in Nat \ {0} /\ MaxVersion \in Nat /\ f \in Nat
  BY Basics
<1> USE <1>0
<1>u. UNCHANGED <<pos, version, buffers, staging, acked, buf, receiverVars, workerVars>>
  BY DEF SeeAck
<1>r. Raised' = Raised /\ Window(f)' = Window(f)  BY <1>u DEF Raised, Window
<1>1. TypeOK'
  BY <1>0 DEF Good, TypeOK, SeeAck, Begin, trainerVars, receiverVars, postVars, workerVars, Version,
    Status, Place
<1>2. MasterPhase(f)'
  BY <1>0, <1>r DEF Good, TypeOK, MasterPhase, RankPhase, Rounds, Early, Published, SeeAck, Begin
<1>3. RankPhase'
  BY <1>0 DEF Good, TypeOK, MasterPhase, RankPhase, Early, SeeAck, Begin
<1>4. Rounds'
  BY <1>0 DEF Good, TypeOK, MasterPhase, Rounds, Early, SeeAck, Begin, receiverVars, postVars
<1>5. Stagings(f)'
  <2>1. at'[Master] # "raise" /\ \A r \in Serving : at'[r] = "staged" => at[r] = "staged"
    BY <1>0 DEF Good, TypeOK, MasterPhase, SeeAck, Begin
  <2> QED  BY <1>r, <1>u, <2>1 DEF Good, Stagings
<1>6. Statuses(f)'
  BY <1>0, <1>r DEF Good, TypeOK, MasterPhase, Statuses, Published, SeeAck
<1>7. /\ table'["orchestrator"] = table["orchestrator"] /\ \A w \in Worker : table'[w] = table[w]
      /\ Published => Published'
  BY Names DEF Good, TypeOK, SeeAck, Published
<1>8. \A w \in Worker :
           /\ count[w] = 0 =>
                pos'[Master] = pos[Master] /\ at'[Master] \in Early \cup {"failed"}
           /\ calls[w] < posts[EngineOf(w)] /\ calls[w] = 0 =>
                /\ pos'[Master] = pos[Master]
                /\ at'[Master] \in (Early \ {"offer"}) \cup {"failed"}
  BY <1>0 DEF Good, TypeOK, Tables, TablesOf, Early, SeeAck, Begin
<1>9. at[Master] \in {"drain", "failed"} => at'[Master] \in {"drain", "failed"} /\ staging' = staging
  BY <1>0, <1>u DEF SeeAck
<1>10. /\ \A b \in 0 .. (MaxCount - 1) :
             /\ \A w \in Worker : buf'[b][w] = buf[b][w]
             /\ buf[b]["trainer"] = "ready" => buf'[b]["trainer"] = "ready"
       /\ \A g \in Group : g < Raised => g < Raised'
  BY <1>r, <1>u
<1> QED
  BY <1>1, <1>2, <1>3, <1>4, <1>5, <1>6, <1>7, <1>8, <1>9, <1>10, <1>u, TrainerStep

LEMMA AwaitOrchestratorKeeps ==
  ASSUME NixlAssumption, NEW f \in 0 .. Groups, NEW L \in SUBSET Worker, Good(f, L),
         AwaitOrchestrator
  PROVE  Good(f, L)'
<1>0. /\ Master \in Rank /\ Master \in Serving /\ Serving \subseteq Rank
      /\ Groups \in Nat \ {0} /\ MaxVersion \in Nat /\ f \in Nat
  BY Basics
<1> USE <1>0
<1>u. UNCHANGED <<pos, version, buffers, staging, acked, buf, receiverVars, workerVars>>
  BY DEF AwaitOrchestrator
<1>r. Raised' = Raised /\ Window(f)' = Window(f)  BY <1>u DEF Raised, Window
<1>1. TypeOK'
  BY <1>0 DEF Good, TypeOK, AwaitOrchestrator, trainerVars, receiverVars, postVars, workerVars, Version,
    Status, Place
<1>2. MasterPhase(f)'
  BY <1>0, <1>r DEF Good, TypeOK, MasterPhase, RankPhase, Rounds, Early, Published, AwaitOrchestrator
<1>3. RankPhase'
  BY <1>0 DEF Good, TypeOK, MasterPhase, RankPhase, Early, AwaitOrchestrator
<1>4. Rounds'
  BY <1>0 DEF Good, TypeOK, MasterPhase, Rounds, Early, AwaitOrchestrator, receiverVars, postVars
<1>5. Stagings(f)'
  <2>1. at'[Master] # "raise" /\ \A r \in Serving : at'[r] = "staged" => at[r] = "staged"
    BY <1>0 DEF Good, TypeOK, MasterPhase, AwaitOrchestrator
  <2> QED  BY <1>r, <1>u, <2>1 DEF Good, Stagings
<1>6. Statuses(f)'
  BY <1>0, <1>r DEF Good, TypeOK, MasterPhase, Statuses, Published, AwaitOrchestrator
<1>7. /\ table'["orchestrator"] = table["orchestrator"] /\ \A w \in Worker : table'[w] = table[w]
      /\ Published => Published'
  BY Names DEF Good, TypeOK, AwaitOrchestrator, Published
<1>8. \A w \in Worker :
           /\ count[w] = 0 =>
                pos'[Master] = pos[Master] /\ at'[Master] \in Early \cup {"failed"}
           /\ calls[w] < posts[EngineOf(w)] /\ calls[w] = 0 =>
                /\ pos'[Master] = pos[Master]
                /\ at'[Master] \in (Early \ {"offer"}) \cup {"failed"}
  BY <1>0 DEF Good, TypeOK, Tables, TablesOf, Early, AwaitOrchestrator
<1>9. at[Master] \in {"drain", "failed"} => at'[Master] \in {"drain", "failed"} /\ staging' = staging
  BY <1>0, <1>u DEF AwaitOrchestrator
<1>10. /\ \A b \in 0 .. (MaxCount - 1) :
             /\ \A w \in Worker : buf'[b][w] = buf[b][w]
             /\ buf[b]["trainer"] = "ready" => buf'[b]["trainer"] = "ready"
       /\ \A g \in Group : g < Raised => g < Raised'
  BY <1>r, <1>u
<1> QED
  BY <1>1, <1>2, <1>3, <1>4, <1>5, <1>6, <1>7, <1>8, <1>9, <1>10, <1>u, TrainerStep

(* Everyone has returned: nothing is left to pull.                         *)
LEMMA AwaitAppliedKeeps ==
  ASSUME NixlAssumption, NEW f \in 0 .. Groups, NEW L \in SUBSET Worker, Good(f, L),
         AwaitApplied
  PROVE  Good(f, L)'
<1>0. /\ Master \in Rank /\ Master \in Serving /\ Serving \subseteq Rank
      /\ Groups \in Nat \ {0} /\ MaxVersion \in Nat /\ f \in Nat
  BY Basics
<1> USE <1>0
<1>u. UNCHANGED <<pos, version, buffers, staging, acked, buf, receiverVars, workerVars>>
  BY DEF AwaitApplied
<1>r. Raised' = Raised /\ Window(f)' = Window(f)  BY <1>u DEF Raised, Window
<1>1. TypeOK'
  BY <1>0 DEF Good, TypeOK, AwaitApplied, Everyone, trainerVars, receiverVars, postVars, workerVars, Version,
    Status, Place
<1>2. MasterPhase(f)'
  BY <1>0, <1>r DEF Good, TypeOK, MasterPhase, RankPhase, Rounds, Early, Published, AwaitApplied, Everyone
<1>3. RankPhase'
  BY <1>0 DEF Good, TypeOK, MasterPhase, RankPhase, Early, AwaitApplied, Everyone
<1>4. Rounds'
  BY <1>0 DEF Good, TypeOK, MasterPhase, Rounds, Early, AwaitApplied, Everyone, receiverVars, postVars
<1>5. Stagings(f)'
  <2>1. at'[Master] # "raise" /\ \A r \in Serving : at'[r] = "staged" => at[r] = "staged"
    BY <1>0 DEF Good, TypeOK, MasterPhase, AwaitApplied, Everyone
  <2> QED  BY <1>r, <1>u, <2>1 DEF Good, Stagings
<1>6. Statuses(f)'
  BY <1>0, <1>r DEF Good, TypeOK, MasterPhase, Statuses, Published, AwaitApplied
<1>7. /\ table'["orchestrator"] = table["orchestrator"] /\ \A w \in Worker : table'[w] = table[w]
      /\ Published => Published'
  BY Names DEF Good, TypeOK, AwaitApplied, Published
<1>8. \A w \in Worker :
           /\ count[w] = 0 =>
                pos'[Master] = pos[Master] /\ at'[Master] \in Early \cup {"failed"}
           /\ calls[w] < posts[EngineOf(w)] /\ calls[w] = 0 =>
                /\ pos'[Master] = pos[Master]
                /\ at'[Master] \in (Early \ {"offer"}) \cup {"failed"}
  BY <1>0 DEF Good, TypeOK, Tables, TablesOf, Early, AwaitApplied, Everyone
<1>9. at[Master] \in {"drain", "failed"} => at'[Master] \in {"drain", "failed"} /\ staging' = staging
  BY <1>0, <1>u DEF AwaitApplied
<1>10. /\ \A b \in 0 .. (MaxCount - 1) :
             /\ \A w \in Worker : buf'[b][w] = buf[b][w]
             /\ buf[b]["trainer"] = "ready" => buf'[b]["trainer"] = "ready"
       /\ \A g \in Group : g < Raised => g < Raised'
  BY <1>r, <1>u
<1> QED
  BY <1>1, <1>2, <1>3, <1>4, <1>5, <1>6, <1>7, <1>8, <1>9, <1>10, <1>u, TrainerStep

LEMMA CloseKeeps ==
  ASSUME NixlAssumption, NEW f \in 0 .. Groups, NEW L \in SUBSET Worker, Good(f, L),
         Close
  PROVE  Good(f, L)'
<1>0. /\ Master \in Rank /\ Master \in Serving /\ Serving \subseteq Rank
      /\ Groups \in Nat \ {0} /\ MaxVersion \in Nat /\ f \in Nat
  BY Basics
<1> USE <1>0
<1>a. at[Master] = "closing" /\ Published /\ Published'  BY DEF Good, TypeOK, MasterPhase, Close, Published
<1>u. UNCHANGED <<pos, version, buffers, staging, acked, buf, receiverVars, workerVars>>
  BY DEF Close
<1>r. Raised' = Raised /\ Window(f)' = Window(f)  BY <1>u DEF Raised, Window
<1>1. TypeOK'
  BY <1>0 DEF Good, TypeOK, Close, trainerVars, receiverVars, postVars, workerVars, Version,
    Status, Place
<1>2. MasterPhase(f)'
  BY <1>0, <1>r DEF Good, TypeOK, MasterPhase, RankPhase, Rounds, Early, Published, Close
<1>3. RankPhase'
  BY <1>0 DEF Good, TypeOK, MasterPhase, RankPhase, Early, Close
<1>4. Rounds'
  BY <1>0 DEF Good, TypeOK, MasterPhase, Rounds, Early, Close, receiverVars, postVars
<1>5. Stagings(f)'
  <2>1. at'[Master] # "raise" /\ \A r \in Serving : at'[r] = "staged" => at[r] = "staged"
    BY <1>0 DEF Good, TypeOK, MasterPhase, Close
  <2> QED  BY <1>r, <1>u, <2>1 DEF Good, Stagings
<1>6. Statuses(f)'
  BY <1>0, <1>r DEF Good, TypeOK, MasterPhase, Statuses, Published, Close
<1>7. /\ table'["orchestrator"] = table["orchestrator"] /\ \A w \in Worker : table'[w] = table[w]
      /\ Published => Published'
  BY Names DEF Good, TypeOK, Close, Published
<1>8. \A w \in Worker :
           /\ count[w] = 0 =>
                pos'[Master] = pos[Master] /\ at'[Master] \in Early \cup {"failed"}
           /\ calls[w] < posts[EngineOf(w)] /\ calls[w] = 0 =>
                /\ pos'[Master] = pos[Master]
                /\ at'[Master] \in (Early \ {"offer"}) \cup {"failed"}
  BY <1>0 DEF Good, TypeOK, Tables, TablesOf, Early, Close
<1>9. at[Master] \in {"drain", "failed"} => at'[Master] \in {"drain", "failed"} /\ staging' = staging
  BY <1>0, <1>u DEF Close
<1>10. /\ \A b \in 0 .. (MaxCount - 1) :
             /\ \A w \in Worker : buf'[b][w] = buf[b][w]
             /\ buf[b]["trainer"] = "ready" => buf'[b]["trainer"] = "ready"
       /\ \A g \in Group : g < Raised => g < Raised'
  BY <1>r, <1>u
<1> QED
  BY <1>1, <1>2, <1>3, <1>4, <1>5, <1>6, <1>7, <1>8, <1>9, <1>10, <1>u, TrainerStep

(* A trainer that raises leaves everything as it is.                       *)
LEMMA TrainerRaisesKeeps ==
  ASSUME NixlAssumption, NEW f \in 0 .. Groups, NEW L \in SUBSET Worker, Good(f, L),
         TrainerRaises
  PROVE  Good(f, L)'
<1>0. /\ Master \in Rank /\ Master \in Serving /\ Serving \subseteq Rank
      /\ Groups \in Nat \ {0} /\ MaxVersion \in Nat /\ f \in Nat
  BY Basics
<1> USE <1>0
<1>u. UNCHANGED <<pos, version, buffers, staging, acked, buf, receiverVars, workerVars>>
  BY DEF TrainerRaises
<1>r. Raised' = Raised /\ Window(f)' = Window(f)  BY <1>u DEF Raised, Window
<1>1. TypeOK'
  BY <1>0 DEF Good, TypeOK, TrainerRaises, trainerVars, receiverVars, postVars, workerVars, Version,
    Status, Place
<1>2. MasterPhase(f)'
  BY <1>0, <1>r DEF Good, TypeOK, MasterPhase, RankPhase, Rounds, Early, Published, TrainerRaises
<1>3. RankPhase'
  BY <1>0 DEF Good, TypeOK, MasterPhase, RankPhase, Early, TrainerRaises
<1>4. Rounds'
  BY <1>0 DEF Good, TypeOK, MasterPhase, Rounds, Early, TrainerRaises, receiverVars, postVars
<1>5. Stagings(f)'
  <2>1. at'[Master] # "raise" /\ \A r \in Serving : at'[r] = "staged" => at[r] = "staged"
    BY <1>0 DEF Good, TypeOK, MasterPhase, TrainerRaises
  <2> QED  BY <1>r, <1>u, <2>1 DEF Good, Stagings
<1>6. Statuses(f)'
  BY <1>0, <1>r DEF Good, TypeOK, MasterPhase, Statuses, Published, TrainerRaises
<1>7. /\ table'["orchestrator"] = table["orchestrator"] /\ \A w \in Worker : table'[w] = table[w]
      /\ Published => Published'
  BY Names DEF Good, TypeOK, TrainerRaises, Published
<1>8. \A w \in Worker :
           /\ count[w] = 0 =>
                pos'[Master] = pos[Master] /\ at'[Master] \in Early \cup {"failed"}
           /\ calls[w] < posts[EngineOf(w)] /\ calls[w] = 0 =>
                /\ pos'[Master] = pos[Master]
                /\ at'[Master] \in (Early \ {"offer"}) \cup {"failed"}
  BY <1>0 DEF Good, TypeOK, Tables, TablesOf, Early, TrainerRaises
<1>9. at[Master] \in {"drain", "failed"} => at'[Master] \in {"drain", "failed"} /\ staging' = staging
  BY <1>0, <1>u DEF TrainerRaises
<1>10. /\ \A b \in 0 .. (MaxCount - 1) :
             /\ \A w \in Worker : buf'[b][w] = buf[b][w]
             /\ buf[b]["trainer"] = "ready" => buf'[b]["trainer"] = "ready"
       /\ \A g \in Group : g < Raised => g < Raised'
  BY <1>r, <1>u
<1> QED
  BY <1>1, <1>2, <1>3, <1>4, <1>5, <1>6, <1>7, <1>8, <1>9, <1>10, <1>u, TrainerStep

(* The first READY publishes the buffers too.                              *)
LEMMA OpenKeeps ==
  ASSUME NixlAssumption, NEW f \in 0 .. Groups, NEW L \in SUBSET Worker, Good(f, L),
         Open
  PROVE  Good(f, L)'
<1>0. /\ Master \in Rank /\ Master \in Serving /\ Serving \subseteq Rank
      /\ Groups \in Nat \ {0} /\ MaxVersion \in Nat /\ f \in Nat
  BY Basics
<1> USE <1>0
<1>o. /\ table \in [{"trainer", "orchestrator"} \cup Worker -> Status]
      /\ \/ table' = [table EXCEPT !["trainer"] = "ready"]
         \/ table' = [table EXCEPT !["trainer"] = "initializing"]
  BY DEF Good, TypeOK, Open
<1>a. pos[Master] = 0 /\ f = 0 /\ buffers > 0 /\ buffers \in 1 .. Groups
  BY <1>0, Sizes DEF Good, MasterPhase, Early, Open
<1>b. Published' /\ at'[Master] \in {"publish", "opened"} /\ \A r \in Rank \ {Master} : at'[r] = at[r]
  <2>1. at' = at \/ at' = [at EXCEPT ![Master] = "opened"]  BY DEF Open
  <2>2. at[Master] = "publish" /\ at \in [Rank -> Place]  BY DEF Good, TypeOK, Open
  <2>3. Published'
    <3>1. table'["trainer"] \in {"ready", "initializing"}  BY <1>o
    <3> QED  BY <3>1 DEF Published
  <2> QED  BY <1>0, <2>1, <2>2, <2>3
<1>c. \A w \in Worker : table'[w] = table[w]  BY <1>o, Names
<1>g. Published => buf' = buf  BY DEF Open
<1>h. ~Published => buf' = [b \in 0 .. (MaxCount - 1) |->
              IF b < buffers THEN [buf[b] EXCEPT !["trainer"] = "initializing"] ELSE buf[b]]
  BY DEF Good, TypeOK, Open
<1>i. \A b \in 0 .. (MaxCount - 1) : buf[b] \in [{"trainer"} \cup Worker -> Status]
  BY DEF Good, TypeOK
<1>d. \A b \in 0 .. (MaxCount - 1), w \in Worker : buf'[b][w] = buf[b][w]
  <2>1. CASE Published  BY <1>g, <2>1
  <2>2. CASE ~Published  BY <1>h, <1>i, <2>2, Names
  <2> QED  BY <2>1, <2>2
<1>e. \A b \in 0 .. (MaxCount - 1) :
        buf'[b]["trainer"] = IF b < buffers /\ ~Published THEN "initializing" ELSE buf[b]["trainer"]
  <2>1. CASE Published  BY <1>g, <2>1
  <2>2. CASE ~Published  BY <1>h, <1>i, <2>2
  <2> QED  BY <2>1, <2>2
<1>u. UNCHANGED <<pos, version, buffers, staging, offered, acked, receiverVars, workerVars>>
  BY DEF Open
<1>1. TypeOK'
  <2>1. at' \in [Rank -> Place]
    <3>1. at' = at \/ at' = [at EXCEPT ![Master] = "opened"]  BY DEF Open
    <3>2. at \in [Rank -> Place] /\ "opened" \in Place  BY DEF Good, TypeOK, Place
    <3> QED  BY <3>1, <3>2
  <2>2. table' \in [{"trainer", "orchestrator"} \cup Worker -> Status]
    <3> DEFINE D == {"trainer", "orchestrator"} \cup Worker
    <3>1. "ready" \in Status /\ "initializing" \in Status /\ "trainer" \in D  BY DEF Status
    <3>2. table \in [D -> Status]  BY <1>o
    <3> HIDE DEF D
    <3>3. /\ [table EXCEPT !["trainer"] = "ready"] \in [D -> Status]
          /\ [table EXCEPT !["trainer"] = "initializing"] \in [D -> Status]
      BY <3>1, <3>2, Update1
    <3>4. table' \in [D -> Status]  BY <1>o, <3>3
    <3> QED  BY <3>4 DEF D
  <2>3. buf' \in [0 .. (MaxCount - 1) -> [{"trainer"} \cup Worker -> Status]]
    <3>1. CASE Published  BY <3>1, <1>g DEF Good, TypeOK
    <3>2. CASE ~Published
      <4>1. \A b \in 0 .. (MaxCount - 1) :
              [buf[b] EXCEPT !["trainer"] = "initializing"] \in [{"trainer"} \cup Worker -> Status]
        BY <1>i DEF Status
      <4>2. \A b \in 0 .. (MaxCount - 1) :
              (IF b < buffers THEN [buf[b] EXCEPT !["trainer"] = "initializing"] ELSE buf[b])
                \in [{"trainer"} \cup Worker -> Status]
        BY <1>i, <4>1
      <4>3. buf' = [b \in 0 .. (MaxCount - 1) |->
              IF b < buffers THEN [buf[b] EXCEPT !["trainer"] = "initializing"] ELSE buf[b]]
        BY <3>2, <1>h
      <4> HIDE <1>0
      <4> QED  BY <4>2, <4>3, Zenon
    <3> QED  BY <3>1, <3>2
  <2> QED  BY <1>u, <2>1, <2>2, <2>3 DEF Good, TypeOK, receiverVars, postVars, workerVars
<1>2. MasterPhase(f)'
  BY <1>0 DEF Good, TypeOK, MasterPhase, RankPhase, Rounds, Tables, Raised, Early, Published, Open,
    trainerVars, receiverVars, postVars, workerVars
<1>3. RankPhase'
  BY <1>0 DEF Good, TypeOK, MasterPhase, RankPhase, Raised, Early, Open, trainerVars, receiverVars,
    workerVars
<1>4. Rounds'
  <2>1. at[Master] = "publish" /\ at'[Master] # "offer" /\ at'[Master] \in {"publish", "opened"}
    BY <1>b DEF Open
  <2>2. table'["orchestrator"] = table["orchestrator"]  BY <1>o
  <2> QED  BY <1>a, <1>u, <2>1, <2>2 DEF Good, Rounds, Early, receiverVars, postVars
<1>6. Statuses(f)'
  BY <1>a, <1>b, <1>e, <1>u DEF Good, Statuses, Raised, Window
<1>7. Stagings(f)'
  BY <1>0, <1>a, <1>b, <1>u DEF Good, Stagings, Raised, Window, NixlAssumption
<1>s. \A w \in Worker :
           /\ count[w] = 0 =>
                pos'[Master] = pos[Master] /\ at'[Master] \in Early \cup {"failed"}
           /\ calls[w] < posts[EngineOf(w)] /\ calls[w] = 0 =>
                /\ pos'[Master] = pos[Master]
                /\ at'[Master] \in (Early \ {"offer"}) \cup {"failed"}
  <2>1. at'[Master] \in Early \ {"offer"}  BY <1>b DEF Early
  <2> QED  BY <1>u, <2>1
<1>t. /\ \A g \in Group : g < Raised => g < Raised'
      /\ at[Master] \in {"drain", "failed"} => at'[Master] \in {"drain", "failed"} /\ staging' = staging
  BY <1>0, <1>u DEF Raised, Open
<1>v. /\ table'["orchestrator"] = table["orchestrator"] /\ \A w \in Worker : table'[w] = table[w]
      /\ Published => Published'
      /\ \A b \in 0 .. (MaxCount - 1) :
           /\ \A w \in Worker : buf'[b][w] = buf[b][w]
           /\ buf[b]["trainer"] = "ready" => buf'[b]["trainer"] = "ready"
  <2>1. table'["orchestrator"] = table["orchestrator"]  BY <1>o
  <2>2. ASSUME NEW b \in 0 .. (MaxCount - 1), buf[b]["trainer"] = "ready"
        PROVE  buf'[b]["trainer"] = "ready"
    <3>1. CASE Published  BY <1>e, <2>2, <3>1
    <3>2. CASE ~Published  BY <2>2, <3>2 DEF Good, Statuses
    <3> QED  BY <3>1, <3>2
  <2> QED  BY <1>b, <1>c, <1>d, <2>1, <2>2
<1> QED
  BY <1>1, <1>2, <1>3, <1>4, <1>6, <1>7, <1>s, <1>t, <1>u, <1>v, TrainerStep

LEMMA AwaitEnginesKeeps ==
  ASSUME NixlAssumption, NEW f \in 0 .. Groups, NEW L \in SUBSET Worker, Good(f, L),
         AwaitEngines
  PROVE  Good(f, L)'
<1>0. /\ Master \in Rank /\ Master \in Serving /\ Serving \subseteq Rank
      /\ Groups \in Nat \ {0} /\ MaxVersion \in Nat /\ f \in Nat
  BY Basics
<1> USE <1>0
<1>a. at'[Master] = "stage" /\ \A r \in Rank \ {Master} : at'[r] = at[r]
  BY <1>0, Sizes DEF Good, TypeOK, MasterPhase, AwaitEngines, From, LastPosition, FirstPending,
    Early
<1>1. TypeOK'
  <2>1. at' = [at EXCEPT ![Master] = From(Master, 0)]  BY DEF AwaitEngines
  <2>2. at \in [Rank -> Place] /\ From(Master, 0) \in Place  BY DEF Good, TypeOK, From, Place
  <2>3. at' \in [Rank -> Place]  BY <2>1, <2>2
  <2> QED  BY <2>3 DEF Good, TypeOK, AwaitEngines, receiverVars, postVars, workerVars
<1>2. MasterPhase(f)'
  BY <1>0 DEF Good, TypeOK, MasterPhase, RankPhase, Rounds, Tables, Raised, Early, Published,
    AwaitEngines, Everyone, From, LastPosition, FirstPending, trainerVars, receiverVars, postVars, workerVars
<1>3. RankPhase'
  BY <1>0 DEF Good, TypeOK, MasterPhase, RankPhase, Raised, Early, AwaitEngines, Everyone, From,
    LastPosition, FirstPending, trainerVars, receiverVars, postVars, workerVars
<1>4. Rounds'
  <2>1. at[Master] = "engines"  BY DEF AwaitEngines
  <2>2. UNCHANGED <<pos, version, offered, acked, table, receiver, paused>>
    BY DEF AwaitEngines, receiverVars, postVars
  <2>3. receiver \notin {"announce", "call"}
    <3>1. PICK w \in Worker : TRUE  BY EngineOfWorker
    <3>2. table[w] = "initializing"  BY DEF AwaitEngines, Everyone
    <3>3. ~Idle(w)  BY <3>2 DEF Good, Tables, TablesOf, Idle
    <3> QED  BY <3>3 DEF Good, Posts, Rounds
  <2> QED  BY <1>a, <2>1, <2>2, <2>3 DEF Good, Rounds, Early
<1>5. Stagings(f)'
  BY <1>0, <1>a DEF Good, Stagings, AwaitEngines, Raised, Window
<1>u. UNCHANGED <<pos, version, buffers, staging, acked, table, buf, receiverVars, workerVars>>
  BY DEF AwaitEngines
<1>6. Statuses(f)'
  BY <1>0, <1>u, StatusesFrame DEF Good
<1>s. \A w \in Worker :
           /\ count[w] = 0 =>
                pos'[Master] = pos[Master] /\ at'[Master] \in Early \cup {"failed"}
           /\ calls[w] < posts[EngineOf(w)] /\ calls[w] = 0 =>
                /\ pos'[Master] = pos[Master]
                /\ at'[Master] \in (Early \ {"offer"}) \cup {"failed"}
  <2> SUFFICES ASSUME NEW w \in Worker,
                      count[w] = 0 \/ (calls[w] < posts[EngineOf(w)] /\ calls[w] = 0)
               PROVE  FALSE
    OBVIOUS
  <2>1. table[w] = "initializing"  BY DEF AwaitEngines, Everyone
  <2> QED  BY <2>1 DEF Good, Tables, TablesOf
<1>t. /\ \A g \in Group : g < Raised => g < Raised'
      /\ at[Master] \in {"drain", "failed"} => at'[Master] \in {"drain", "failed"} /\ staging' = staging
  BY <1>0, <1>u DEF Raised, AwaitEngines
<1>v. /\ table'["orchestrator"] = table["orchestrator"] /\ \A w \in Worker : table'[w] = table[w]
      /\ Published => Published'
      /\ \A b \in 0 .. (MaxCount - 1) :
           /\ \A w \in Worker : buf'[b][w] = buf[b][w]
           /\ buf[b]["trainer"] = "ready" => buf'[b]["trainer"] = "ready"
  BY <1>u DEF Published
<1> QED
  BY <1>1, <1>2, <1>3, <1>4, <1>6, <1>5, <1>s, <1>t, <1>u, <1>v, TrainerStep

(* A copy goes to a buffer outside the window.                             *)
LEMMA StageKeeps ==
  ASSUME NixlAssumption, NEW f \in 0 .. Groups, NEW L \in SUBSET Worker, Good(f, L),
         NEW r \in Rank, Stage(r)
  PROVE  Good(f, L)'
<1>0. /\ Master \in Rank /\ Master \in Serving /\ Serving \subseteq Rank
      /\ Groups \in Nat \ {0} /\ MaxVersion \in Nat /\ f \in Nat
  BY Basics
<1> USE <1>0
<1>a. buffers \in 1 .. Groups /\ buffers <= MaxCount /\ buffers \in Nat \ {0}
  <2>1. CASE r = Master  BY <2>1, Sizes DEF Good, MasterPhase, Stage
  <2>2. CASE r # Master
    <3>1. buffers # 0  BY <1>0, <2>2 DEF Good, MasterPhase, RankPhase, Stage, Early
    <3> QED  BY <3>1, Sizes DEF Good
  <2> QED  BY <2>1, <2>2
<1>b. pos[r] \in Nat /\ Raised <= pos[r] /\ pos[r] < f + buffers /\ pos[r] < Groups
  <2>1. pos[r] \in Nat /\ pos[Master] \in Nat  BY <1>0, Sizes DEF Good, TypeOK
  <2> QED  BY <1>0, <1>a, <2>1 DEF Good, TypeOK, Place, MasterPhase, RankPhase, Raised, Stage, Early
<1>c. BufferAt(pos[r]) = pos[r] % buffers /\ GroupAt(pos[r]) = pos[r]
  BY <1>a, <1>b, Positions
<1>d. pos[r] % buffers \in 0 .. (MaxCount - 1)
  <2>1. buffers \in Nat \ {0} /\ pos[r] \in Nat  BY <1>a, <1>b
  <2>2. pos[r] % buffers \in 0 .. (buffers - 1)  BY <2>1, ModRange
  <2> QED  BY <1>a, <2>2, Sizes DEF Good
<1>e. \A g \in Window(f) : g % buffers # pos[r] % buffers
  <2> TAKE g \in Window(f)
  <2>1. g \in Nat /\ g < pos[r] /\ pos[r] < g + buffers  BY <1>0, <1>a, <1>b, Sizes DEF Window, Good
  <2> QED  BY <1>a, <1>b, <2>1, ModApart
<1>g. at[Master] = "raise" => r # Master /\ pos[Master] % buffers # pos[r] % buffers
  <2> SUFFICES ASSUME at[Master] = "raise" PROVE r # Master /\ pos[Master] % buffers # pos[r] % buffers
    OBVIOUS
  <2>1. r # Master /\ pos[r] = pos[Master] + 1 /\ pos[r] < buffers
    BY DEF Good, RankPhase, Stage
  <2>2. pos[Master] \in Nat  BY <1>0, Sizes DEF Good, TypeOK
  <2>3. pos[Master] < pos[r] /\ pos[r] < pos[Master] + buffers  BY <2>1, <2>2, <1>a
  <2> QED  BY <1>a, <1>b, <2>1, <2>2, <2>3, ModApart
<1>h. at'[r] = "staged" /\ \A q \in Rank \ {r} : at'[q] = at[q]
  BY DEF Good, TypeOK, Stage
<1>u. UNCHANGED <<pos, version, buffers, offered, acked, table, buf, receiverVars, workerVars>>
  BY DEF Stage
<1>w. /\ r \in Serving => staging' = [staging EXCEPT ![r][pos[r] % buffers] = <<version, pos[r]>>]
      /\ r \notin Serving => staging' = staging
  BY <1>c DEF Stage
<1>1. TypeOK'
  <2>1. at' \in [Rank -> Place]  BY DEF Good, TypeOK, Stage, Place
  <2>2. <<version, pos[r]>> \in Piece  BY <1>b DEF Good, TypeOK, Piece, Group
  <2>3. staging' \in [Serving -> [0 .. (MaxCount - 1) -> Piece]]
    <3>1. staging \in [Serving -> [0 .. (MaxCount - 1) -> Piece]]  BY DEF Good, TypeOK
    <3>2. CASE r \in Serving
      <4>1. [staging EXCEPT ![r][pos[r] % buffers] = <<version, pos[r]>>]
              \in [Serving -> [0 .. (MaxCount - 1) -> Piece]]
        BY <1>d, <2>2, <3>1, <3>2, Update2
      <4> QED  BY <1>w, <3>2, <4>1
    <3> QED  BY <1>w, <3>1, <3>2
  <2> QED  BY <1>u, <2>1, <2>3 DEF Good, TypeOK, receiverVars, postVars, workerVars
<1>2. MasterPhase(f)'
  BY <1>0 DEF Good, TypeOK, MasterPhase, RankPhase, Rounds, Tables, Raised, Early, Published,
    Stage, trainerVars, receiverVars, postVars, workerVars
<1>3. RankPhase'
  BY <1>0 DEF Good, TypeOK, MasterPhase, RankPhase, Raised, Early, Stage, trainerVars,
    receiverVars, postVars, workerVars
<1>4. Rounds'
  BY <1>0 DEF Good, TypeOK, MasterPhase, Rounds, Tables, Early, Active, Stage, trainerVars,
    receiverVars, postVars, workerVars
<1>6. Stagings(f)'
  <2> SUFFICES ASSUME NEW q \in Serving
               PROVE  /\ \A g \in Window(f)' : staging'[q][g % buffers] = <<version, g>>
                      /\ at'[q] = "staged" => staging'[q][pos[q] % buffers] = <<version, pos[q]>>
                      /\ at'[Master] = "raise" =>
                           staging'[q][pos[Master] % buffers] = <<version, pos[Master]>>
    BY <1>u DEF Stagings
  <2>1. Window(f)' = Window(f)  BY <1>u DEF Window, Raised
  <2>2. at'[Master] = "raise" => at[Master] = "raise"  BY <1>0, <1>h
  <2>3. CASE q # r
    <3>1. staging'[q] = staging[q]  BY <1>w, <2>3 DEF Good, TypeOK
    <3>2. at'[q] = at[q]  BY <1>h, <2>3
    <3> QED  BY <2>1, <2>2, <3>1, <3>2 DEF Good, Stagings
  <2>4. CASE q = r
    <3>1. /\ staging'[r][pos[r] % buffers] = <<version, pos[r]>>
          /\ \A b \in 0 .. (MaxCount - 1) : b # pos[r] % buffers => staging'[r][b] = staging[r][b]
      <4>1. staging \in [Serving -> [0 .. (MaxCount - 1) -> Piece]]  BY DEF Good, TypeOK
      <4>2. staging'[r] = [staging[r] EXCEPT ![pos[r] % buffers] = <<version, pos[r]>>]
        BY <1>w, <2>4, <4>1
      <4> DEFINE b0 == pos[r] % buffers
                 d0 == <<version, pos[r]>>
                 B == 0 .. (MaxCount - 1)
      <4>3. staging[r] \in [B -> Piece] /\ b0 \in B /\ staging'[r] = [staging[r] EXCEPT ![b0] = d0]
        BY <1>d, <2>4, <4>1, <4>2
      <4> HIDE DEF b0, d0, B
      <4>4. staging'[r][b0] = d0 /\ \A b \in B : b # b0 => staging'[r][b] = staging[r][b]  BY <4>3
      <4> QED  BY <4>4 DEF b0, d0, B
    <3>2. \A g \in Window(f) : g % buffers \in 0 .. (MaxCount - 1)
      <4> TAKE g \in Window(f)
      <4>1. g \in Nat  BY <1>0, Sizes DEF Window, Good
      <4>2. g % buffers \in 0 .. (buffers - 1)  BY <1>a, <4>1, ModRange
      <4> QED  BY <1>a, <4>2, Sizes DEF Good
    <3>3. \A g \in Window(f) : staging'[r][g % buffers] = <<version, g>>
      BY <1>e, <2>4, <3>1, <3>2 DEF Good, Stagings
    <3>4. pos[Master] % buffers \in 0 .. (MaxCount - 1)
      <4>1. pos[Master] \in Nat  BY <1>0, Sizes DEF Good, TypeOK
      <4>2. pos[Master] % buffers \in 0 .. (buffers - 1)  BY <1>a, <4>1, ModRange
      <4> QED  BY <1>a, <4>2, Sizes DEF Good
    <3>5. at'[Master] = "raise" => staging'[r][pos[Master] % buffers] = <<version, pos[Master]>>
      BY <1>g, <2>2, <2>4, <3>1, <3>4 DEF Good, Stagings
    <3> QED  BY <2>1, <2>4, <3>1, <3>3, <3>5
  <2> QED  BY <2>3, <2>4
<1>7. Statuses(f)'
  BY <1>0, <1>u, StatusesFrame DEF Good
<1>s. \A w \in Worker :
           /\ count[w] = 0 =>
                pos'[Master] = pos[Master] /\ at'[Master] \in Early \cup {"failed"}
           /\ calls[w] < posts[EngineOf(w)] /\ calls[w] = 0 =>
                /\ pos'[Master] = pos[Master]
                /\ at'[Master] \in (Early \ {"offer"}) \cup {"failed"}
  <2>1. at'[Master] = at[Master] \/ at[Master] = "stage"  BY <1>0, <1>h DEF Stage
  <2> QED  BY <1>u, <2>1 DEF Good, Tables, TablesOf, Early
<1>t. /\ \A g \in Group : g < Raised => g < Raised'
      /\ at[Master] \in {"drain", "failed"} => at'[Master] \in {"drain", "failed"} /\ staging' = staging
  <2>1. at[Master] \notin {"drain", "failed"}
    <3>1. r # Master => at[r] \notin {"finished", "failed"}  BY DEF Stage
    <3> QED  BY <1>0, <3>1 DEF Good, RankPhase, Stage
  <2> QED  BY <1>u, <2>1 DEF Raised
<1>v. /\ table'["orchestrator"] = table["orchestrator"] /\ \A w \in Worker : table'[w] = table[w]
      /\ Published => Published'
      /\ \A b \in 0 .. (MaxCount - 1) :
           /\ \A w \in Worker : buf'[b][w] = buf[b][w]
           /\ buf[b]["trainer"] = "ready" => buf'[b]["trainer"] = "ready"
  BY <1>u DEF Published
<1> QED
  BY <1>1, <1>2, <1>3, <1>4, <1>6, <1>7, <1>s, <1>t, <1>u, <1>v, TrainerStep

(* The two barriers move all ranks together.                               *)
LEMMA FinishedBarrierKeeps ==
  ASSUME NixlAssumption, NEW f \in 0 .. Groups, NEW L \in SUBSET Worker, Good(f, L),
         FinishedBarrier
  PROVE  Good(f, L)'
<1>0. /\ Master \in Rank /\ Master \in Serving /\ Serving \subseteq Rank
      /\ Groups \in Nat \ {0} /\ MaxVersion \in Nat /\ f \in Nat
  BY Basics
<1> USE <1>0
<1>a. buffers \in 1 .. Groups /\ buffers <= MaxCount /\ LastPosition = Groups + buffers - 1
  <2>1. at[Master] = "finished"  BY <1>0 DEF FinishedBarrier
  <2>2. buffers \in 1 .. Groups /\ buffers <= MaxCount  BY <2>1, Sizes DEF Good, MasterPhase
  <2> QED  BY <2>2, Positions
<1>b. /\ at[Master] = "finished" /\ \A r \in Rank : pos[r] = pos[Master]
      /\ pos[Master] \in Nat /\ buffers <= pos[Master] /\ pos[Master] < Groups + buffers
      /\ f = pos[Master] - buffers + 1
  <2>1. at[Master] = "finished" /\ pos[Master] \in Nat  BY <1>0, Sizes DEF FinishedBarrier, Good, TypeOK
  <2>2. \A r \in Rank : pos[r] = pos[Master]  BY <2>1 DEF Good, RankPhase
  <2> QED  BY <1>a, <2>1, <2>2 DEF Good, MasterPhase
<1>c. \A r \in Rank : pos'[r] = IF pos[Master] < Groups THEN pos[Master] ELSE pos[Master] + 1
  <2>1. CASE pos[Master] < Groups  BY <1>b, <2>1 DEF FinishedBarrier
  <2>2. CASE ~(pos[Master] < Groups)  BY <1>b, <2>2 DEF FinishedBarrier
  <2> QED  BY <2>1, <2>2
<1>d. \A r \in Rank : at'[r] =
        IF pos[Master] < Groups THEN "stage"
        ELSE IF pos[Master] + 1 = Groups + buffers THEN IF r = Master THEN "close" ELSE "end"
        ELSE IF r = Master THEN "finish" ELSE "finished"
  <2>1. CASE pos[Master] < Groups  BY <2>1 DEF FinishedBarrier
  <2>2. CASE ~(pos[Master] < Groups)
    <3>1. \A r \in Rank : at'[r] = From(r, pos[Master] + 1)  BY <1>b, <2>2 DEF FinishedBarrier
    <3>2. pos[Master] + 1 > LastPosition <=> pos[Master] + 1 = Groups + buffers  BY <1>a, <1>b
    <3>3. ~(pos[Master] + 1 < buffers)  BY <1>a, <1>b
    <3> QED  BY <2>2, <3>1, <3>2, <3>3, Zenon DEF From
  <2> QED  BY <2>1, <2>2
<1>e. at'[Master] # "raise" /\ \A r \in Rank : at'[r] # "staged"  BY <1>0, <1>d
<1>g. Raised' = Raised /\ Window(f)' = Window(f)
  <2>1. Raised' = Raised  BY <1>0, <1>b, <1>c DEF Raised
  <2> QED  BY <2>1 DEF Window
<1>h. at' \in [Rank -> Place] /\ pos' \in [Rank -> 0 .. (Groups + MaxCount)]
  <2>1. /\ DOMAIN at' = Rank /\ at' = [r \in Rank |-> at'[r]]
        /\ DOMAIN pos' = Rank /\ pos' = [r \in Rank |-> pos'[r]]
    BY DEF FinishedBarrier, Good, TypeOK
  <2>2. \A r \in Rank : pos'[r] \in 0 .. (Groups + MaxCount)  BY <1>a, <1>b, <1>c, Sizes DEF Good
  <2>3. \A r \in Rank : at'[r] \in Place  BY <1>d DEF Place
  <2> QED  BY <2>1, <2>2, <2>3
<1>u. UNCHANGED <<version, buffers, staging, offered, acked, table, buf, receiverVars, workerVars>>
  BY DEF FinishedBarrier
<1>1. TypeOK'
  BY <1>h, <1>u DEF Good, TypeOK, receiverVars, postVars, workerVars
<1>2. MasterPhase(f)'
  BY <1>0, <1>a, <1>b, <1>c, <1>d, <1>g, <1>u DEF Good, MasterPhase, Early, Published
<1>3. RankPhase'
  BY <1>0, <1>a, <1>b, <1>c, <1>d, <1>u DEF Good, RankPhase, Early
<1>4. Rounds'
  BY <1>0, <1>a, <1>b, <1>d, <1>u DEF Good, Rounds, Early, receiverVars, postVars, workerVars
<1>6. Statuses(f)'
  BY <1>g, <1>u DEF Good, Statuses, Published
<1>7. Stagings(f)'
  BY <1>0, <1>e, <1>g, <1>u DEF Good, Stagings
<1>s. \A w \in Worker :
           /\ count[w] = 0 =>
                pos'[Master] = pos[Master] /\ at'[Master] \in Early \cup {"failed"}
           /\ calls[w] < posts[EngineOf(w)] /\ calls[w] = 0 =>
                /\ pos'[Master] = pos[Master]
                /\ at'[Master] \in (Early \ {"offer"}) \cup {"failed"}
  BY <1>b DEF Good, Tables, TablesOf, Early
<1>t. /\ \A g \in Group : g < Raised => g < Raised'
      /\ at[Master] \in {"drain", "failed"} => at'[Master] \in {"drain", "failed"} /\ staging' = staging
  BY <1>b, <1>g
<1>v. /\ table'["orchestrator"] = table["orchestrator"] /\ \A w \in Worker : table'[w] = table[w]
      /\ Published => Published'
      /\ \A b \in 0 .. (MaxCount - 1) :
           /\ \A w \in Worker : buf'[b][w] = buf[b][w]
           /\ buf[b]["trainer"] = "ready" => buf'[b]["trainer"] = "ready"
  BY <1>u DEF Published
<1> QED
  BY <1>1, <1>2, <1>3, <1>4, <1>6, <1>7, <1>s, <1>t, <1>u, <1>v, TrainerStep

LEMMA StagedBarrierKeeps ==
  ASSUME NixlAssumption, NEW f \in 0 .. Groups, NEW L \in SUBSET Worker, Good(f, L),
         StagedBarrier
  PROVE  Good(f, L)'
<1>0. /\ Master \in Rank /\ Master \in Serving /\ Serving \subseteq Rank
      /\ Groups \in Nat \ {0} /\ MaxVersion \in Nat /\ f \in Nat
  BY Basics
<1> USE <1>0
<1>a. buffers \in 1 .. Groups /\ buffers <= MaxCount /\ LastPosition = Groups + buffers - 1
  <2>1. at[Master] = "staged"  BY <1>0 DEF StagedBarrier
  <2>2. buffers \in 1 .. Groups /\ buffers <= MaxCount  BY <2>1, Sizes DEF Good, MasterPhase
  <2> QED  BY <2>2, Positions
<1>b. /\ at[Master] = "staged" /\ \A r \in Rank : pos[r] = pos[Master]
      /\ pos[Master] \in Nat /\ pos[Master] < Groups
  <2>1. at[Master] = "staged" /\ pos[Master] \in Nat  BY <1>0, Sizes DEF StagedBarrier, Good, TypeOK
  <2>2. \A r \in Rank : pos[r] = pos[Master]  BY <2>1 DEF Good, RankPhase
  <2> QED  BY <2>1, <2>2 DEF Good, MasterPhase
<1>c. \A r \in Rank : pos'[r] = IF r = Master THEN pos[Master] ELSE pos[Master] + 1
  BY <1>b DEF StagedBarrier
<1>d. \A r \in Rank : at'[r] =
        IF r = Master THEN "raise" ELSE IF pos[Master] + 1 < buffers THEN "stage" ELSE "finished"
  <2>1. \A r \in Rank : at'[r] = IF r = Master THEN "raise" ELSE From(r, pos[Master] + 1)
    BY <1>b DEF StagedBarrier
  <2>2. ~(pos[Master] + 1 > LastPosition)  BY <1>a, <1>b
  <2>3. \A r \in Rank : r # Master =>
          From(r, pos[Master] + 1) = IF pos[Master] + 1 < buffers THEN "stage" ELSE "finished"
    BY <2>2, Zenon DEF From
  <2> QED  BY <2>1, <2>3
<1>g. Raised' = Raised /\ Window(f)' = Window(f)
  <2>1. Raised' = Raised  BY <1>0, <1>b, <1>c DEF Raised
  <2> QED  BY <2>1 DEF Window
<1>h. at' \in [Rank -> Place] /\ pos' \in [Rank -> 0 .. (Groups + MaxCount)]
  <2>1. /\ DOMAIN at' = Rank /\ at' = [r \in Rank |-> at'[r]]
        /\ DOMAIN pos' = Rank /\ pos' = [r \in Rank |-> pos'[r]]
    BY DEF StagedBarrier
  <2>2. \A r \in Rank : pos'[r] \in 0 .. (Groups + MaxCount)  BY <1>a, <1>b, <1>c, Sizes DEF Good
  <2>3. \A r \in Rank : at'[r] \in Place  BY <1>d DEF Place
  <2> QED  BY <2>1, <2>2, <2>3
<1>u. UNCHANGED <<version, buffers, staging, offered, acked, table, buf, receiverVars, workerVars>>
  BY DEF StagedBarrier
<1>1. TypeOK'
  BY <1>h, <1>u DEF Good, TypeOK, receiverVars, postVars, workerVars
<1>2. MasterPhase(f)'
  BY <1>0, <1>a, <1>b, <1>c, <1>d, <1>g, <1>u DEF Good, MasterPhase, Early, Published
<1>3. RankPhase'
  BY <1>0, <1>a, <1>b, <1>c, <1>d, <1>u DEF Good, RankPhase, Early
<1>4. Rounds'
  BY <1>0, <1>a, <1>b, <1>d, <1>u DEF Good, Rounds, Early, receiverVars, postVars, workerVars
<1>6. Statuses(f)'
  BY <1>g, <1>u DEF Good, Statuses, Published
<1>7. Stagings(f)'
  <2>1. \A r \in Serving : at'[r] # "staged" /\ staging[r][pos[Master] % buffers] = <<version, pos[Master]>>
    <3>1. \A r \in Serving : r \in Rank /\ at[r] = "staged" /\ pos[r] = pos[Master]
      BY <1>b DEF StagedBarrier
    <3> QED  BY <1>d, <3>1 DEF Good, Stagings
  <2>2. pos'[Master] = pos[Master]  BY <1>0, <1>c
  <2> QED  BY <1>g, <1>u, <2>1, <2>2 DEF Good, Stagings
<1>s. \A w \in Worker :
           /\ count[w] = 0 =>
                pos'[Master] = pos[Master] /\ at'[Master] \in Early \cup {"failed"}
           /\ calls[w] < posts[EngineOf(w)] /\ calls[w] = 0 =>
                /\ pos'[Master] = pos[Master]
                /\ at'[Master] \in (Early \ {"offer"}) \cup {"failed"}
  BY <1>b DEF Good, Tables, TablesOf, Early
<1>t. /\ \A g \in Group : g < Raised => g < Raised'
      /\ at[Master] \in {"drain", "failed"} => at'[Master] \in {"drain", "failed"} /\ staging' = staging
  BY <1>b, <1>g
<1>v. /\ table'["orchestrator"] = table["orchestrator"] /\ \A w \in Worker : table'[w] = table[w]
      /\ Published => Published'
      /\ \A b \in 0 .. (MaxCount - 1) :
           /\ \A w \in Worker : buf'[b][w] = buf[b][w]
           /\ buf[b]["trainer"] = "ready" => buf'[b]["trainer"] = "ready"
  BY <1>u DEF Published
<1> QED
  BY <1>1, <1>2, <1>3, <1>4, <1>6, <1>7, <1>s, <1>t, <1>u, <1>v, TrainerStep

(* The window gains the group all ranks have copied.                       *)
LEMMA RaiseKeeps ==
  ASSUME NixlAssumption, NEW f \in 0 .. Groups, NEW L \in SUBSET Worker, Good(f, L),
         Raise
  PROVE  Good(f, L)'
<1>0. /\ Master \in Rank /\ Master \in Serving /\ Serving \subseteq Rank
      /\ Groups \in Nat \ {0} /\ MaxVersion \in Nat /\ f \in Nat
  BY Basics
<1> USE <1>0
<1>a. buffers \in 1 .. Groups /\ buffers <= MaxCount /\ LastPosition = Groups + buffers - 1
  <2>1. buffers \in 1 .. Groups /\ buffers <= MaxCount  BY Sizes DEF Good, MasterPhase, Raise
  <2> QED  BY <2>1, Positions
<1>b. /\ at[Master] = "raise" /\ pos[Master] \in Nat /\ pos[Master] < Groups /\ Raised = pos[Master]
      /\ f = IF pos[Master] < buffers THEN 0 ELSE pos[Master] - buffers + 1
  <2>1. at[Master] = "raise" /\ pos[Master] \in Nat  BY <1>0, Sizes DEF Raise, Good, TypeOK
  <2> QED  BY <2>1 DEF Good, MasterPhase, Raised
<1>c. pos'[Master] = pos[Master] + 1 /\ \A r \in Rank \ {Master} : pos'[r] = pos[r]
  BY <1>0 DEF Good, TypeOK, Raise
<1>d. /\ at'[Master] = IF pos[Master] + 1 < buffers THEN "stage" ELSE "finish"
      /\ \A r \in Rank \ {Master} : at'[r] = at[r]
  <2>1. at'[Master] = From(Master, pos[Master] + 1) /\ \A r \in Rank \ {Master} : at'[r] = at[r]
    BY <1>0 DEF Good, TypeOK, Raise
  <2>2. ~(pos[Master] + 1 > LastPosition)  BY <1>a, <1>b
  <2>3. From(Master, pos[Master] + 1) = IF pos[Master] + 1 < buffers THEN "stage" ELSE "finish"
    BY <2>2, Zenon DEF From
  <2> QED  BY <2>1, <2>3
<1>e. pos[Master] % buffers \in 0 .. (MaxCount - 1) /\ pos[Master] % buffers < buffers
  <2>1. buffers \in Nat \ {0}  BY <1>a
  <2>2. pos[Master] % buffers \in 0 .. (buffers - 1)  BY <1>b, <2>1, ModRange
  <2> QED  BY <1>a, <2>2, Sizes DEF Good
<1>g. Raised' = pos[Master] + 1 /\ Window(f)' = Window(f) \cup {pos[Master]}
  <2>1. Raised' = pos[Master] + 1  BY <1>b, <1>c DEF Raised
  <2>2. f <= pos[Master]  BY <1>a, <1>b
  <2> QED  BY <1>0, <1>b, <2>1, <2>2 DEF Window
<1>h. buf' = [buf EXCEPT ![pos[Master] % buffers]["trainer"] = "ready"]
  <2>1. BufferAt(pos[Master]) = pos[Master] % buffers  BY <1>a, <1>b, Positions
  <2> QED  BY <2>1 DEF Raise
<1>i. buf \in [0 .. (MaxCount - 1) -> [{"trainer"} \cup Worker -> Status]]  BY DEF Good, TypeOK
<1>j. \A b \in 0 .. (MaxCount - 1), p \in {"trainer"} \cup Worker :
        buf'[b][p] = IF b = pos[Master] % buffers /\ p = "trainer" THEN "ready" ELSE buf[b][p]
  BY <1>e, <1>h, <1>i
<1>k. \A b \in 0 .. (MaxCount - 1), w \in Worker : buf'[b][w] = buf[b][w]  BY <1>j, Names
<1>u. UNCHANGED <<version, buffers, staging, offered, acked, table, receiverVars, workerVars>>
  BY DEF Raise
<1>1. TypeOK'
  <2>1. at' \in [Rank -> Place]
    <3>1. at' = [at EXCEPT ![Master] = From(Master, pos[Master] + 1)]  BY DEF Raise
    <3>2. From(Master, pos[Master] + 1) \in Place  BY DEF From, Place
    <3> QED  BY <3>1, <3>2 DEF Good, TypeOK
  <2>2. pos' \in [Rank -> 0 .. (Groups + MaxCount)]
    <3>1. pos[Master] + 1 \in 0 .. (Groups + MaxCount)  BY <1>b, Sizes DEF Good
    <3> QED  BY <1>0, <3>1 DEF Good, TypeOK, Raise
  <2>3. [buf EXCEPT ![pos[Master] % buffers]["trainer"] = "ready"]
          \in [0 .. (MaxCount - 1) -> [{"trainer"} \cup Worker -> Status]]
    <3> DEFINE b0 == pos[Master] % buffers
               D == [{"trainer"} \cup Worker -> Status]
    <3>1. buf[b0] \in D /\ b0 \in 0 .. (MaxCount - 1)  BY <1>e, <1>i
    <3>2. [buf[b0] EXCEPT !["trainer"] = "ready"] \in D  BY <3>1 DEF Status
    <3>3. buf \in [0 .. (MaxCount - 1) -> D]  BY <1>i
    <3> HIDE DEF b0, D
    <3>4. [buf EXCEPT ![b0]["trainer"] = "ready"] \in [0 .. (MaxCount - 1) -> D]
      BY <3>1, <3>2, <3>3
    <3> QED  BY <3>4 DEF b0, D
  <2> QED  BY <1>h, <1>u, <2>1, <2>2, <2>3 DEF Good, TypeOK, receiverVars, postVars, workerVars
<1>2. MasterPhase(f)'
  <2>1. Published /\ Published' /\ buffers' = buffers /\ buffers # 0
    BY <1>a, <1>b, <1>u DEF Good, MasterPhase, Published
  <2>2. pos'[Master] <= Groups + buffers /\ f <= Raised' /\ Raised' <= f + buffers
    BY <1>a, <1>b, <1>c, <1>g
  <2>3. CASE pos[Master] + 1 < buffers
    <3>1. at'[Master] = "stage" /\ f = 0 /\ pos'[Master] < Groups /\ pos'[Master] < buffers
      BY <1>a, <1>b, <1>c, <1>d, <2>3
    <3> QED  BY <2>1, <2>2, <3>1 DEF MasterPhase, Early
  <2>4. CASE ~(pos[Master] + 1 < buffers)
    <3>1. /\ at'[Master] = "finish" /\ buffers <= pos'[Master] /\ pos'[Master] < Groups + buffers
          /\ f = pos'[Master] - buffers
      BY <1>a, <1>b, <1>c, <1>d, <2>4
    <3> QED  BY <2>1, <2>2, <3>1 DEF MasterPhase, Early
  <2> QED  BY <2>3, <2>4
<1>3. RankPhase'
  BY <1>0, <1>a, <1>b, <1>c, <1>d, <1>u DEF Good, RankPhase, Early
<1>4. Rounds'
  BY <1>0, <1>a, <1>b, <1>d, <1>u DEF Good, Rounds, Early, receiverVars, postVars, workerVars
<1>6. Statuses(f)'
  <2>1. Published  BY <1>b DEF Good, MasterPhase
  <2>2. Published' = Published /\ buffers' = buffers  BY <1>u DEF Published
  <2> SUFFICES ASSUME NEW b \in 0 .. (MaxCount - 1)
               PROVE  buf'[b]["trainer"] =
                        IF b >= buffers THEN "none"
                        ELSE IF \E g \in Window(f)' : g % buffers = b THEN "ready"
                        ELSE "initializing"
    BY <2>1, <2>2 DEF Statuses
  <2>3. CASE b = pos[Master] % buffers
    <3>1. ~(b >= buffers) /\ buf'[b]["trainer"] = "ready"  BY <1>a, <1>e, <1>j, <2>3
    <3>2. pos[Master] \in Window(f)'  BY <1>g
    <3> QED  BY <2>3, <3>1, <3>2
  <2>4. CASE b # pos[Master] % buffers
    <3>1. buf'[b]["trainer"] = buf[b]["trainer"]  BY <1>j, <2>4
    <3>2. (\E g \in Window(f)' : g % buffers = b) <=> (\E g \in Window(f) : g % buffers = b)
      BY <1>g, <2>4
    <3> QED  BY <2>1, <3>1, <3>2, Zenon DEF Good, Statuses
  <2> QED  BY <2>3, <2>4
<1>7. Stagings(f)'
  <2>1. \A r \in Serving, g \in Window(f)' : staging[r][g % buffers] = <<version, g>>
    BY <1>b, <1>g DEF Good, Stagings
  <2>2. at'[Master] # "raise" /\ at'[Master] # "staged"  BY <1>d
  <2>3. \A r \in Serving \ {Master} : at'[r] = at[r] /\ pos'[r] = pos[r]  BY <1>c, <1>d
  <2> QED  BY <1>u, <2>1, <2>2, <2>3 DEF Good, Stagings
<1>s. \A w \in Worker :
           /\ count[w] = 0 =>
                pos'[Master] = pos[Master] /\ at'[Master] \in Early \cup {"failed"}
           /\ calls[w] < posts[EngineOf(w)] /\ calls[w] = 0 =>
                /\ pos'[Master] = pos[Master]
                /\ at'[Master] \in (Early \ {"offer"}) \cup {"failed"}
  BY <1>b DEF Good, Tables, TablesOf, Early
<1>t. /\ \A g \in Group : g < Raised => g < Raised'
      /\ at[Master] \in {"drain", "failed"} => at'[Master] \in {"drain", "failed"} /\ staging' = staging
  BY <1>b, <1>g DEF Group
<1>v. /\ table'["orchestrator"] = table["orchestrator"] /\ \A w \in Worker : table'[w] = table[w]
      /\ Published => Published'
      /\ \A b \in 0 .. (MaxCount - 1) :
           /\ \A w \in Worker : buf'[b][w] = buf[b][w]
           /\ buf[b]["trainer"] = "ready" => buf'[b]["trainer"] = "ready"
  BY <1>j, <1>k, <1>u DEF Published
<1> QED
  BY <1>1, <1>2, <1>3, <1>4, <1>6, <1>7, <1>s, <1>t, <1>u, <1>v, TrainerStep

-----------------------------------------------------------------------------
(* The first broadcast: nobody has an agent yet.                           *)
LEMMA SetupKeeps ==
  ASSUME NixlAssumption, NEW f \in 0 .. Groups, NEW L \in SUBSET Worker, Good(f, L),
         Setup
  PROVE  Good(f, L)'
<1>0. /\ Master \in Rank /\ Master \in Serving /\ Serving \subseteq Rank
      /\ Groups \in Nat \ {0} /\ MaxVersion \in Nat /\ f \in Nat
  BY Basics
<1> USE <1>0
<1>a. buffers = 0 /\ ~Published /\ f = 0  BY <1>0 DEF Good, MasterPhase, Early, Setup
<1>b. \A w \in Worker : count[w] = 0 /\ ~Active(w) /\ pull[w].step = "none" /\ w \notin L
  <2> TAKE w \in Worker
  <2>1. count[w] = 0
    <3>1. count[w] \in 0 .. 2  BY DEF Good, TypeOK
    <3>2. ~(count[w] > 0)  BY <1>a DEF Good, Tables, TablesOf
    <3> QED  BY <3>1, <3>2
  <2>2. ~Active(w)  BY <2>1 DEF Good, Tables, TablesOf
  <2>3. pull[w].step = "none"  BY <2>2 DEF Good, Follows, Shape, Active, Transferring
  <2>4. w \notin L  BY <1>a DEF Good, Follows, Late
  <2> QED  BY <2>1, <2>2, <2>3, <2>4
<1>c. MaxCount \in 1 .. Groups  BY Sizes DEF Good
<1>u. UNCHANGED <<pos, version, staging, offered, acked, table, buf, receiverVars, workerVars>>
  BY DEF Setup
<1>v. /\ UNCHANGED <<receiver, paused, waiting, posts>>
      /\ UNCHANGED <<calls, doing, next, count, pull, received, weights>>
  BY <1>u DEF receiverVars, postVars, workerVars
<1>1. TypeOK'
  <2>1. at' \in [Rank -> Place]  BY DEF Setup, Place
  <2>2. buffers' \in 0 .. MaxCount  BY <1>c DEF Setup
  <2> QED  BY <1>u, <1>v, <2>1, <2>2 DEF Good, TypeOK
<1>2. MasterPhase(f)'
  <2>1. /\ pos'[Master] = 0 /\ at'[Master] = "publish" /\ buffers' \in 1 .. MaxCount
        /\ ~Published' /\ Raised' = 0
    BY <1>a, <1>u DEF Good, MasterPhase, Setup, Raised, Published
  <2>2. PICK n \in 1 .. MaxCount : buffers' = n  BY <2>1
  <2>3. n \in Nat /\ n # 0 /\ 0 <= f + n /\ 0 <= Groups + n  BY <1>c, <2>2
  <2> QED  BY <1>a, <2>1, <2>2, <2>3 DEF MasterPhase, Early
<1>3. RankPhase'
  BY <1>a, <1>c, <1>u DEF Good, MasterPhase, RankPhase, Early, Setup
<1>4. Rounds'
  BY <1>u, <1>v DEF Good, Rounds, Early, Setup
<1>5. Posts' /\ Loads(L)'  BY <1>u, <1>v, PostsFrame, LoadsFrame DEF Good
<1>6. Tables'
  <2> SUFFICES ASSUME NEW w \in Worker PROVE TablesOf(w)'  BY DEF Tables
  <2>1. TablesOf(w) /\ count[w] = 0 /\ ~Active(w)  BY <1>b DEF Good, Tables
  <2>2. at'[Master] = "publish"  BY DEF Setup
  <2> QED  BY <1>u, <1>v, <2>1, <2>2 DEF TablesOf, Active, Early
<1>7. Statuses(f)'
  BY <1>a, <1>u DEF Good, Statuses, Published
<1>8. Stagings(f)'
  <2>1. Raised' = 0 /\ at'[Master] # "raise" /\ \A r \in Serving : at'[r] # "staged"
    BY <1>a, <1>u DEF Good, MasterPhase, Raised, Setup
  <2> QED  BY <2>1 DEF Stagings, Window
<1>9. \A w \in Worker : Follows(w, f, L)'
  <2> TAKE w \in Worker
  <2>1. Follows(w, f, L) /\ w \notin L /\ count[w] = 0 /\ ~Active(w) /\ pull[w].step = "none"
    BY <1>b DEF Good
  <2>2. Shape(w)'  BY <1>v, <2>1 DEF Follows, Shape, Transferring
  <2>3. Abreast(w, f)'  BY <1>v, <2>1 DEF Abreast, Active, Transferring, Midway
  <2>4. Acks(w, f)'  BY <1>u, <1>v, <2>1 DEF Follows, Lockstep, Acks
  <2>5. Filled(w)' /\ Held(w)'  BY <1>v, <2>1 DEF Filled, Held, Active
  <2> QED  BY <2>1, <2>2, <2>3, <2>4, <2>5 DEF Follows, Lockstep
<1> QED  BY <1>1, <1>2, <1>3, <1>4, <1>5, <1>6, <1>7, <1>8, <1>9 DEF Good

(* Everyone is READY for group f: who has it in this call waits for the    *)
(* master, who has not begun with it was called again too late.            *)
LEMMA FinishKeeps ==
  ASSUME NixlAssumption, NEW f \in 0 .. Groups, NEW L \in SUBSET Worker, NEW M,
         Good(f, L), Finish,
         M = L \cup {w \in Worker : doing[w] = "await" \/ pull[w].step = "wanted"}
  PROVE  f + 1 \in 0 .. Groups /\ Good(f + 1, M)'
<1>0. /\ Master \in Rank /\ Master \in Serving /\ Serving \subseteq Rank
      /\ Groups \in Nat \ {0} /\ MaxVersion \in Nat /\ f \in Nat
  BY Basics
<1> USE <1>0
<1>a. buffers \in 1 .. Groups /\ buffers <= MaxCount /\ buffers \in Nat \ {0}
  BY Sizes DEF Good, MasterPhase, Finish
<1>b. /\ pos[Master] \in Nat /\ f = pos[Master] - buffers
      /\ f < Raised /\ Raised <= f + buffers
  <2>1. pos[Master] \in Nat  BY <1>0, Sizes DEF Good, TypeOK
  <2> QED  BY <1>a, <2>1 DEF Good, MasterPhase, Finish, Raised
<1>c. BufferAt(pos[Master]) = f % buffers
  <2>1. BufferAt(pos[Master]) = (f + buffers) % buffers  BY <1>a, <1>b, Positions
  <2> QED  BY <1>0, <1>a, <2>1, ModShift
<1>d. f % buffers \in 0 .. (MaxCount - 1) /\ f % buffers < buffers
  <2>1. f % buffers \in 0 .. (buffers - 1)  BY <1>0, <1>a, ModRange
  <2> QED  BY <1>a, <2>1, Sizes DEF Good
<1>e. \A g \in Window(f + 1) : g % buffers # f % buffers
  <2> TAKE g \in Window(f + 1)
  <2>1. g \in Nat /\ f < g /\ g < f + buffers  BY <1>0, <1>a, <1>b, Sizes DEF Window, Good
  <2> QED  BY <1>0, <1>a, <2>1, ModApart
<1>g. at[Master] = "finish" /\ at'[Master] = "drain" /\ \A r \in Rank \ {Master} : at'[r] = at[r]
  BY <1>0 DEF Good, TypeOK, Finish
<1>h. buf' = [buf EXCEPT ![f % buffers]["trainer"] = "initializing"]  BY <1>c DEF Finish
<1>i. buf \in [0 .. (MaxCount - 1) -> [{"trainer"} \cup Worker -> Status]]  BY DEF Good, TypeOK
<1>j. \A b \in 0 .. (MaxCount - 1), p \in {"trainer"} \cup Worker :
        buf'[b][p] = IF b = f % buffers /\ p = "trainer" THEN "initializing" ELSE buf[b][p]
  BY <1>d, <1>h, <1>i
<1>k. \A b \in 0 .. (MaxCount - 1), w \in Worker : buf'[b][w] = buf[b][w]  BY <1>j, Names
<1>r. \A w \in Worker : buf[f % buffers][w] = "ready" /\ buf'[f % buffers][w] = "ready"
  BY <1>c, <1>d, <1>k DEF Finish, Everyone
<1>s. \A r \in Serving : staging[r][f % buffers] = <<version, f>>
  <2>1. f \in Window(f)  BY <1>b, Sizes DEF Window, Good
  <2> QED  BY <2>1 DEF Good, Stagings
<1>u. UNCHANGED <<pos, version, buffers, staging, offered, acked, table, receiverVars, workerVars>>
  BY DEF Finish
<1>v. /\ UNCHANGED <<receiver, paused, waiting, posts>>
      /\ UNCHANGED <<calls, doing, next, count, pull, received, weights>>
  BY <1>u DEF receiverVars, postVars, workerVars
<1>1. TypeOK'
  <2>1. at' \in [Rank -> Place]  BY DEF Good, TypeOK, Finish, Place
  <2>2. "initializing" \in Status  BY DEF Status
  <2>3. [buf EXCEPT ![f % buffers]["trainer"] = "initializing"]
          \in [0 .. (MaxCount - 1) -> [{"trainer"} \cup Worker -> Status]]
    <3> DEFINE n == f % buffers
               P == {"trainer"} \cup Worker
    <3>1. n \in 0 .. (MaxCount - 1) /\ "trainer" \in P  BY <1>d
    <3>2. buf \in [0 .. (MaxCount - 1) -> [P -> Status]]  BY <1>i
    <3> HIDE DEF n, P
    <3>3. [buf EXCEPT ![n]["trainer"] = "initializing"] \in [0 .. (MaxCount - 1) -> [P -> Status]]
      BY <2>2, <3>1, <3>2, Update2
    <3> QED  BY <3>3 DEF n, P
  <2> QED  BY <1>h, <1>u, <1>v, <2>1, <2>3 DEF Good, TypeOK
<1>2. MasterPhase(f + 1)' /\ f + 1 \in 0 .. Groups
  BY <1>0, <1>a, <1>b, <1>g, <1>u, Sizes DEF Good, MasterPhase, Finish, Raised, Published, Early
<1>3. RankPhase'
  BY <1>a, <1>g, <1>u DEF Good, RankPhase, Early
<1>4. Rounds'
  BY <1>g, <1>u, <1>v DEF Good, Rounds, Early
<1>5. Posts'  BY <1>u, <1>v, PostsFrame DEF Good
<1>6. Tables'
  <2>1. pos[Master] # 0  BY <1>a, <1>b
  <2>2. \A w \in Worker : count[w] # 0 /\ ~(calls[w] < posts[EngineOf(w)] /\ calls[w] = 0)
    BY <2>1 DEF Good, Tables, TablesOf
  <2> SUFFICES ASSUME NEW w \in Worker PROVE TablesOf(w)'  BY DEF Tables
  <2>3. TablesOf(w)  BY DEF Good, Tables
  <2> QED  BY <1>u, <1>v, <2>2, <2>3 DEF TablesOf, Active, Published
<1>7. Statuses(f + 1)'
  <2>1. Window(f + 1)' = Window(f + 1)  BY <1>u DEF Window, Raised
  <2>2. SUFFICES ASSUME NEW b \in 0 .. (MaxCount - 1)
                 PROVE  buf'[b]["trainer"] =
                          IF ~Published \/ b >= buffers THEN "none"
                          ELSE IF \E g \in Window(f + 1) : g % buffers = b THEN "ready"
                          ELSE "initializing"
    BY <1>u, <2>1 DEF Statuses, Published
  <2>3. CASE b = f % buffers
    <3>1. Published  BY <1>0 DEF Good, MasterPhase, Finish
    <3>2. ~(b >= buffers) /\ buf'[b]["trainer"] = "initializing"  BY <1>a, <1>d, <1>j, <2>3
    <3> QED  BY <1>e, <2>3, <3>1, <3>2, Zenon
  <2>4. CASE b # f % buffers
    <3>1. \A g \in Window(f) : g % buffers = b => g \in Window(f + 1)
      BY <1>0, <2>4, Sizes DEF Window, Good
    <3>2. \A g \in Window(f + 1) : g \in Window(f)  BY <1>0, Sizes DEF Window, Good
    <3> QED  BY <1>j, <2>4, <3>1, <3>2 DEF Good, Statuses
  <2> QED  BY <2>3, <2>4
<1>8. Stagings(f + 1)'
  <2>1. \A g \in Window(f + 1)' : g \in Window(f)
    <3>1. Window(f + 1)' = Window(f + 1)  BY <1>u DEF Window, Raised
    <3>2. \A g \in Window(f + 1) : g \in Window(f)  BY <1>0, Sizes DEF Window, Good
    <3> QED  BY <3>1, <3>2
  <2>2. at'[Master] # "raise" /\ \A r \in Serving : at'[r] = "staged" => at[r] = "staged"
    BY <1>0, <1>g
  <2>3. version' = version /\ pos' = pos /\ buffers' = buffers /\ staging' = staging  BY <1>u
  <2> QED  BY <2>1, <2>2, <2>3 DEF Good, Stagings
<1>9. Loads(M)'
  BY <1>u, <1>v DEF Good, Loads, Holds, LoadedVersion, Loaded, Transferring
<1>10. \A w \in Worker : Follows(w, f + 1, M)'
  <2> TAKE w \in Worker
  <2>1. Follows(w, f, L) /\ w \in Worker  BY DEF Good
  <2>2. Shape(w)'  BY <1>v, <2>1 DEF Follows, Shape, Transferring
  <2>3. /\ Midway(w)' = Midway(w) /\ Transferring(w)' = Transferring(w)
        /\ Midway(w) => pull[w].step # "none"
    BY <1>v DEF Midway, Transferring
  <2>4. pull[w].step # "none" =>
          /\ pull[w].group % buffers \in 0 .. (MaxCount - 1) /\ pull[w].group \in Nat
          /\ Transferring(w)
    BY PullFacts
  <2>5. doing[w] = "await" => pull[w].step = "none" /\ ~Transferring(w)
    BY <2>1 DEF Follows, Shape, Transferring
  <2>6. ASSUME w \in L PROVE Late(w, f + 1)'
    <3>1. Late(w, f)  BY <2>1, <2>6 DEF Follows
    <3>2. Transferring(w) => pull[w].step # "none" /\ pull[w].group < f + 1 /\ f + 1 > pull[w].group + 1
      BY <2>4, <3>1 DEF Late
    <3>3. pull[w].step \in {"reading", "done"} => Transferring(w)  BY <2>4
    <3>4. ASSUME pull[w].step = "reading"
          PROVE  \/ buf'[pull[w].group % buffers]["trainer"] = "ready"
                 \/ /\ f % buffers = pull[w].group % buffers
                    /\ buf'[pull[w].group % buffers][w] = "ready"
                    /\ \A r \in Serving : staging[r][pull[w].group % buffers] = <<version, f>>
      <4>1. buf[pull[w].group % buffers]["trainer"] = "ready"
        BY <1>g, <3>1, <3>4 DEF Late
      <4>2. CASE pull[w].group % buffers = f % buffers  BY <1>r, <1>s, <4>2
      <4>3. CASE pull[w].group % buffers # f % buffers  BY <1>j, <2>4, <3>4, <4>1, <4>3
      <4> QED  BY <4>2, <4>3
    <3>5. Midway(w) => f + 1 > pull[w].group + 1  BY <2>3, <2>4, <3>2
    <3>6. (f + 1) - 1 = f /\ f + 1 > 0  OBVIOUS
    <3>7. doing[w] \notin {"idle", "returned"} /\ calls[w] > 1  BY <3>1 DEF Late
    <3> QED  BY <1>g, <1>u, <1>v, <2>3, <3>2, <3>3, <3>4, <3>5, <3>6, <3>7 DEF Late
  <2>7. ASSUME w \notin L, w \in M PROVE Late(w, f + 1)'
    <3>1. Lockstep(w, f) /\ (doing[w] = "await" \/ pull[w].step = "wanted")  BY <2>1, <2>7 DEF Follows
    <3>2. pull[w].step \notin {"acked", "reading", "done"} /\ doing[w] # "failed"
      BY <2>1, <2>4, <2>5, <3>1 DEF Transferring
    <3>3. calls[w] > 1
      BY <1>d, <1>r, <3>1, <3>2 DEF Lockstep, Acks, Opening
    <3>4. Transferring(w) => pull[w].step # "none" /\ pull[w].group < f + 1
      BY <2>4, <2>5, <3>1 DEF Lockstep, Abreast
    <3>5. doing[w] \notin {"idle", "returned"}  BY <2>4, <3>1 DEF Transferring
    <3>6. ~Midway(w) /\ f + 1 > 0  BY <3>2 DEF Midway
    <3> QED  BY <1>v, <2>3, <3>2, <3>3, <3>4, <3>5, <3>6 DEF Late
  <2>8. ASSUME w \notin M PROVE Lockstep(w, f + 1)'
    <3>1. Lockstep(w, f) /\ w \notin L /\ doing[w] # "await" /\ pull[w].step # "wanted"
      BY <2>1, <2>8 DEF Follows
    <3>2. doing[w] = "failed" \/ Midway(w)
      BY <1>d, <1>r, <3>1 DEF Lockstep, Acks, Opening, Midway
    <3>3. Midway(w) => f = pull[w].group /\ pull[w].group < Raised
      BY <1>g, <3>1 DEF Lockstep, Abreast, InStep
    <3>4. doing[w] = "failed" => ~Transferring(w) /\ pull[w].step = "none"
      BY <2>1 DEF Follows, Shape, Transferring
    <3>5. Abreast(w, f + 1)'
      <4>1. CASE doing[w] = "failed"
        BY <1>v, <2>3, <3>4, <4>1 DEF Abreast, Midway
      <4>2. CASE Midway(w)
        <5>1. f = pull[w].group /\ pull[w].group < Raised' /\ Transferring(w)
          BY <1>u, <2>3, <2>4, <3>3, <4>2 DEF Raised
        <5>2. InStep(w, f + 1)'
          BY <1>g, <1>r, <1>s, <1>u, <1>v, <5>1 DEF InStep
        <5>3. pull[w].step # "none" /\ pull[w].step # "wanted"  BY <3>1, <4>2 DEF Midway
        <5> QED  BY <1>v, <2>3, <3>1, <5>1, <5>2, <5>3 DEF Abreast
      <4> QED  BY <3>2, <4>1, <4>2
    <3>6. Acks(w, f + 1)'
      BY <1>k, <1>u, <1>v, <3>1 DEF Lockstep, Acks, Opening
    <3>7. Filled(w)' /\ Held(w)'  BY <1>u, <1>v, <3>1, FilledStays, HeldStays DEF Lockstep
    <3> QED  BY <3>5, <3>6, <3>7 DEF Lockstep
  <2> QED  BY <2>2, <2>6, <2>7, <2>8 DEF Follows
<1> QED  BY <1>1, <1>2, <1>3, <1>4, <1>5, <1>6, <1>7, <1>8, <1>9, <1>10 DEF Good

(* Every worker has seen it, so none reads what will be overwritten.       *)
LEMMA DrainKeeps ==
  ASSUME NixlAssumption, NEW f \in 0 .. Groups, NEW L \in SUBSET Worker, Good(f, L),
         Drain
  PROVE  Good(f, L)'
<1>0. /\ Master \in Rank /\ Master \in Serving /\ Serving \subseteq Rank
      /\ Groups \in Nat \ {0} /\ MaxVersion \in Nat /\ f \in Nat
  BY Basics
<1> USE <1>0
<1>a. buffers \in 1 .. Groups /\ buffers <= MaxCount /\ buffers \in Nat \ {0}
  BY Sizes DEF Good, MasterPhase, Drain
<1>b. pos[Master] \in Nat /\ f = pos[Master] - buffers + 1 /\ buffers <= pos[Master] /\ f - 1 \in Nat
  <2>1. pos[Master] \in Nat  BY <1>0, Sizes DEF Good, TypeOK
  <2> QED  BY <1>a, <2>1 DEF Good, MasterPhase, Drain
<1>c. \A w \in Worker : buf[(f - 1) % buffers][w] = "initializing"
  <2>1. pos[Master] = (f - 1) + buffers  BY <1>a, <1>b
  <2>2. BufferAt(pos[Master]) = pos[Master] % buffers  BY <1>a, <1>b, Positions
  <2>3. ((f - 1) + buffers) % buffers = (f - 1) % buffers  BY <1>a, <1>b, ModShift
  <2> QED  BY <2>1, <2>2, <2>3 DEF Drain, Drained, Everyone
<1>g. at[Master] = "drain" /\ at'[Master] = "finished" /\ \A r \in Rank \ {Master} : at'[r] = at[r]
  BY <1>0 DEF Good, TypeOK, Drain
<1>u. UNCHANGED <<pos, version, buffers, staging, offered, acked, table, buf, receiverVars, workerVars>>
  BY DEF Drain
<1>v. /\ UNCHANGED <<receiver, paused, waiting, posts>>
      /\ UNCHANGED <<calls, doing, next, count, pull, received, weights>>
  BY <1>u DEF receiverVars, postVars, workerVars
<1>1. TypeOK'
  <2>1. at' \in [Rank -> Place]  BY DEF Good, TypeOK, Drain, Place
  <2> QED  BY <1>u, <1>v, <2>1 DEF Good, TypeOK
<1>2. MasterPhase(f)'
  BY <1>a, <1>b, <1>g, <1>u DEF Good, MasterPhase, Raised, Published, Early
<1>3. RankPhase'
  BY <1>g, <1>u DEF Good, RankPhase, Early
<1>4. Rounds'
  BY <1>g, <1>u, <1>v DEF Good, Rounds, Early
<1>5. Posts' /\ Loads(L)'  BY <1>u, <1>v, PostsFrame, LoadsFrame DEF Good
<1>6. Tables'
  <2>1. pos[Master] # 0  BY <1>a, <1>b
  <2>2. \A w \in Worker : count[w] # 0 /\ ~(calls[w] < posts[EngineOf(w)] /\ calls[w] = 0)
    BY <2>1 DEF Good, Tables, TablesOf
  <2> SUFFICES ASSUME NEW w \in Worker PROVE TablesOf(w)'  BY DEF Tables
  <2>3. TablesOf(w)  BY DEF Good, Tables
  <2> QED  BY <1>u, <1>v, <2>2, <2>3 DEF TablesOf, Active, Published
<1>7. Statuses(f)'  BY <1>u, StatusesFrame DEF Good
<1>8. Stagings(f)'
  <2>1. at'[Master] # "raise" /\ \A r \in Serving : at'[r] = "staged" => at[r] = "staged"
    BY <1>0, <1>g
  <2> QED  BY <1>u, <2>1 DEF Good, Stagings, Raised, Window
<1>9. \A w \in Worker : Follows(w, f, L)'
  <2> TAKE w \in Worker
  <2>1. Follows(w, f, L)  BY DEF Good
  <2>2. Shape(w)'  BY <1>v, <2>1 DEF Follows, Shape, Transferring
  <2>3. Midway(w)' = Midway(w) /\ Transferring(w)' = Transferring(w)  BY <1>v DEF Midway, Transferring
  <2>4. pull[w].group \in Nat  BY DEF Good, TypeOK, Pull, Group
  <2>5. ASSUME w \in L PROVE Late(w, f)'
    <3>1. Late(w, f)  BY <2>1, <2>5 DEF Follows
    <3>2. pull[w].step = "reading" => buf[pull[w].group % buffers]["trainer"] = "ready"
      BY <1>c, <3>1 DEF Late
    <3> QED  BY <1>u, <1>v, <2>3, <3>1, <3>2 DEF Late
  <2>6. ASSUME w \notin L PROVE Lockstep(w, f)'
    <3>1. Lockstep(w, f)  BY <2>1, <2>6 DEF Follows
    <3>2. Midway(w) => f = pull[w].group
      <4>1. f = pull[w].group + 1 => pull[w].group = f - 1  BY <2>4
      <4> QED  BY <1>c, <3>1, <4>1 DEF Lockstep, Abreast, InStep
    <3>3. Abreast(w, f)'  BY <1>u, <1>v, <2>3, <3>1, <3>2 DEF Lockstep, Abreast, InStep, Raised
    <3>4. Acks(w, f)'  BY <1>u, <1>v, <3>1 DEF Lockstep, Acks, Opening
    <3>5. Filled(w)' /\ Held(w)'  BY <1>u, <1>v, <3>1, FilledStays, HeldStays DEF Lockstep
    <3> QED  BY <3>3, <3>4, <3>5 DEF Lockstep
  <2> QED  BY <2>2, <2>5, <2>6 DEF Follows
<1> QED  BY <1>1, <1>2, <1>3, <1>4, <1>5, <1>6, <1>7, <1>8, <1>9 DEF Good

(* A broadcast ends with no worker in an update.                           *)
LEMMA EndBarrierKeeps ==
  ASSUME NixlAssumption, NEW f \in 0 .. Groups, NEW L \in SUBSET Worker, Good(f, L),
         EndBarrier
  PROVE  Good(0, {})'
<1>0. /\ Master \in Rank /\ Master \in Serving /\ Serving \subseteq Rank
      /\ Groups \in Nat \ {0} /\ MaxVersion \in Nat /\ f \in Nat
  BY Basics
<1> USE <1>0
<1>a. at[Master] = "end" /\ buffers > 0 /\ buffers \in 1 .. Groups /\ Published /\ f = Groups
  <2>1. at[Master] = "end"  BY <1>0 DEF EndBarrier
  <2> QED  BY <2>1, Sizes DEF Good, MasterPhase
<1>b. \A w \in Worker : Idle(w) /\ w \notin L /\ count[w] # 0 /\ pull[w].step = "none"
  <2> TAKE w \in Worker
  <2>1. Idle(w)  BY <1>a DEF Good, Rounds, Posts
  <2>2. Follows(w, f, L) /\ TablesOf(w)  BY DEF Good, Tables
  <2>3. w \notin L /\ pull[w].step = "none"
    BY <2>1, <2>2 DEF Follows, Late, Idle, Shape, Transferring
  <2>4. count[w] # 0  BY <1>a, <2>2 DEF TablesOf, Early
  <2> QED  BY <2>1, <2>3, <2>4
<1>c. \A r \in Rank : at'[r] = IF version < MaxVersion
                              THEN IF r = Master THEN "offer" ELSE "stage" ELSE "done"
  <2>1. \A r \in Rank \ {Master} : Begin(r) = "stage"
    <3>1. LastPosition = Groups + buffers - 1  BY <1>a, Positions
    <3>2. ~(0 > LastPosition) /\ 0 < buffers /\ buffers # 0  BY <1>a, <3>1
    <3> QED  BY <3>2, Zenon DEF Begin, From
  <2>2. CASE version < MaxVersion  BY <2>1, <2>2 DEF EndBarrier
  <2>3. CASE ~(version < MaxVersion)  BY <2>3 DEF EndBarrier
  <2> QED  BY <2>2, <2>3
<1>d. \A r \in Rank : pos'[r] = 0  BY DEF EndBarrier
<1>e. version \in Int /\ version' = IF version < MaxVersion THEN version + 1 ELSE version
  BY DEF Good, TypeOK, Version, EndBarrier
<1>g. Raised' = 0 /\ Window(0)' = {}
  <2>1. Raised' = 0  BY <1>0, <1>d DEF Raised
  <2> QED  BY <2>1 DEF Window
<1>u. UNCHANGED <<buffers, staging, offered, acked, table, buf, receiverVars, workerVars>>
  BY DEF EndBarrier
<1>v. /\ UNCHANGED <<receiver, paused, waiting, posts>>
      /\ UNCHANGED <<calls, doing, next, count, pull, received, weights>>
  BY <1>u DEF receiverVars, postVars, workerVars
<1>1. TypeOK'
  <2>1. at' \in [Rank -> Place]
    <3>1. at' = [r \in Rank |-> at'[r]]  BY DEF EndBarrier
    <3>2. \A r \in Rank : at'[r] \in Place  BY <1>c DEF Place
    <3> QED  BY <3>1, <3>2
  <2>2. pos' \in [Rank -> 0 .. (Groups + MaxCount)]
    <3>1. 0 \in 0 .. (Groups + MaxCount)  BY Sizes DEF Good
    <3> QED  BY <3>1 DEF EndBarrier
  <2>3. version' \in Version  BY <1>e DEF Good, TypeOK, Version
  <2> QED  BY <1>u, <1>v, <2>1, <2>2, <2>3 DEF Good, TypeOK
<1>2. MasterPhase(0)'
  BY <1>0, <1>a, <1>c, <1>d, <1>g, <1>u DEF Good, MasterPhase, Early, Published
<1>3. RankPhase'
  BY <1>0, <1>a, <1>c, <1>d, <1>u DEF Good, RankPhase, Early
<1>4. Rounds'
  <2>1. acked = version /\ offered = version /\ receiver \in {"watch", "settle", "failed"}
    BY <1>a DEF Good, Rounds
  <2> QED
    BY <1>0, <1>a, <1>c, <1>d, <1>e, <1>u, <1>v, <2>1 DEF Good, Rounds, Early
<1>5. Posts' /\ Loads({})'
  <2>1. Loads({})'  BY <1>b, <1>u, <1>v DEF Good, Loads, Holds, LoadedVersion, Loaded, Transferring
  <2> QED  BY <1>u, <1>v, <2>1, PostsFrame DEF Good
<1>6. Tables'
  <2> SUFFICES ASSUME NEW w \in Worker PROVE TablesOf(w)'  BY DEF Tables
  <2>1. TablesOf(w) /\ count[w] # 0 /\ calls[w] = posts[EngineOf(w)] /\ ~Active(w)
    BY <1>b DEF Good, Tables, Idle, Active
  <2>2. posts[EngineOf(w)] \in Nat  BY Counters DEF Good
  <2> QED  BY <1>u, <1>v, <2>1, <2>2 DEF TablesOf, Active, Published
<1>7. Statuses(0)'
  <2>1. Window(f) = {}  BY <1>0, <1>a, Sizes DEF Good, Window, Raised, MasterPhase
  <2> QED  BY <1>a, <1>g, <1>u, <2>1 DEF Good, Statuses, Published
<1>8. Stagings(0)'
  <2>1. at'[Master] # "raise" /\ \A r \in Serving : at'[r] # "staged"  BY <1>0, <1>c
  <2> QED  BY <1>g, <2>1 DEF Stagings
<1>9. \A w \in Worker : Follows(w, 0, {})'
  <2> TAKE w \in Worker
  <2>1. Follows(w, f, L) /\ w \notin L /\ Idle(w) /\ pull[w].step = "none"  BY <1>b DEF Good
  <2>2. Shape(w)'  BY <1>v, <2>1 DEF Follows, Shape, Transferring
  <2>3. Abreast(w, 0)'  BY <1>v, <2>1 DEF Abreast, Idle, Transferring, Midway
  <2>4. Acks(w, 0)'  BY <1>u, <1>v, <2>1 DEF Follows, Lockstep, Acks, Idle, Opening
  <2>5. Filled(w)' /\ Held(w)'  BY <1>v, <2>1 DEF Filled, Held, Idle
  <2> QED  BY <2>2, <2>3, <2>4, <2>5 DEF Follows, Lockstep
<1> QED  BY <1>1, <1>2, <1>3, <1>4, <1>5, <1>6, <1>7, <1>8, <1>9 DEF Good

-----------------------------------------------------------------------------
LEMMA ReceiverTyped ==
  ASSUME TypeOK, UNCHANGED <<at, pos, version, buffers, staging>>, UNCHANGED <<offered, buf>>,
         calls' \in [Worker -> 0 .. MaxAttempts],
         UNCHANGED <<doing, next, count, pull, received, weights>>,
         acked' \in Version \cup {-1},
         table' \in [{"trainer", "orchestrator"} \cup Worker -> Status],
         receiver' \in {"watch", "announce", "call", "update", "retract", "settle", "failed"},
         paused' \in BOOLEAN, waiting' \subseteq Engines,
         posts' \in [Engines -> 0 .. MaxAttempts]
  PROVE  TypeOK'
BY DEF TypeOK

(* The orchestrator's part: it moves no worker.                            *)
LEMMA ReceiverStep ==
  ASSUME NixlAssumption, NEW f \in 0 .. Groups, NEW L \in SUBSET Worker, Good(f, L),
         UNCHANGED <<trainerVars, offered, buf, workerVars>>,
         table'["trainer"] = table["trainer"],
         TypeOK', Rounds', Posts', Tables', Loads(L)'
  PROVE  Good(f, L)'
<1>0. f \in Nat  BY Basics
<1>u. /\ UNCHANGED <<at, pos, version, buffers, staging>>
      /\ UNCHANGED <<calls, doing, next, count, pull, received, weights>>
  BY DEF trainerVars, workerVars
<1>1. MasterPhase(f)' /\ RankPhase' /\ Statuses(f)' /\ Stagings(f)'
  BY <1>0, <1>u, MasterPhaseFrame, RankPhaseFrame, StatusesFrame, StagingsFrame DEF Good
<1>2. \A g \in Group : g < Raised => g < Raised'  BY <1>u DEF Raised
<1>3. \A w \in Worker : Follows(w, f, L)'  BY <1>u, <1>2, AllFollow
<1> QED  BY <1>1, <1>3 DEF Good

LEMMA AckKeeps ==
  ASSUME NixlAssumption, NEW f \in 0 .. Groups, NEW L \in SUBSET Worker, Good(f, L),
         Ack
  PROVE  Good(f, L)'
<1>0. /\ Master \in Rank /\ Master \in Serving /\ Serving \subseteq Rank
      /\ Groups \in Nat \ {0} /\ MaxVersion \in Nat /\ f \in Nat
  BY Basics
<1> USE <1>0
<1>u. /\ UNCHANGED <<trainerVars, offered, buf, workerVars>>
      /\ UNCHANGED <<at, pos, version, buffers, staging>>
      /\ UNCHANGED <<calls, doing, next, count, pull, received, weights>>
      /\ UNCHANGED <<offered, buf, table, paused, waiting, posts>>
  BY DEF Ack, trainerVars, postVars, workerVars
<1>v. table'["trainer"] = table["trainer"] /\ \A w \in Worker : table'[w] = table[w]
  BY <1>u
<1>p. /\ acked = version - 1 /\ acked' = version /\ version \in Nat /\ acked' - 1 = acked
      /\ at[Master] \in {"acked", "failed"} /\ pos[Master] = 0 /\ offered = version
      /\ receiver = "watch" /\ receiver' = "announce" /\ table["orchestrator"] # "ready"
  <2>1. acked \in Int /\ offered \in Int /\ version \in Nat  BY DEF Good, TypeOK, Version
  <2>2. at[Master] # "offer"  BY <2>1 DEF Good, Rounds, Ack
  <2> QED  BY <2>1, <2>2 DEF Good, Rounds, Ack
<1>1. TypeOK'
  <2>1. TypeOK /\ calls \in [Worker -> 0 .. MaxAttempts]  BY DEF Good, TypeOK
  <2>2. acked' \in Version \cup {-1}  BY <1>u DEF Good, TypeOK, Ack
  <2>3. table' \in [{"trainer", "orchestrator"} \cup Worker -> Status]
    BY <1>u DEF Good, TypeOK, Ack, Status
  <2>4. /\ receiver' \in {"watch", "announce", "call", "update", "retract", "settle", "failed"}
        /\ paused' \in BOOLEAN /\ waiting' \subseteq Engines
    BY <1>u DEF Good, TypeOK, Ack
  <2>5. posts' \in [Engines -> 0 .. MaxAttempts]  BY <1>u DEF Good, TypeOK
  <2> QED  BY <1>u, <2>1, <2>2, <2>3, <2>4, <2>5, ReceiverTyped
<1>2. Rounds'
  BY <1>u, <1>p DEF Good, Rounds, Early
<1>3. Posts'
  BY <1>u, <1>p DEF Good, Posts, Rounds, Idle, Active
<1>4. Tables'
  <2> SUFFICES ASSUME NEW w \in Worker PROVE TablesOf(w)'  BY DEF Tables
  <2>1. TablesOf(w) /\ table'[w] = table[w]  BY <1>v DEF Good, Tables
  <2> QED  BY <1>u, <1>v, <2>1 DEF TablesOf, Active, Published
<1>5. Loads(L)'
  BY <1>u, <1>p DEF Good, Loads, Holds, LoadedVersion
<1> QED  BY <1>u, <1>v, <1>1, <1>2, <1>3, <1>4, <1>5, ReceiverStep

LEMMA AnnounceKeeps ==
  ASSUME NixlAssumption, NEW f \in 0 .. Groups, NEW L \in SUBSET Worker, Good(f, L),
         Announce
  PROVE  Good(f, L)'
<1>0. /\ Master \in Rank /\ Master \in Serving /\ Serving \subseteq Rank
      /\ Groups \in Nat \ {0} /\ MaxVersion \in Nat /\ f \in Nat
  BY Basics
<1> USE <1>0
<1>u. /\ UNCHANGED <<trainerVars, offered, buf, workerVars>>
      /\ UNCHANGED <<at, pos, version, buffers, staging>>
      /\ UNCHANGED <<calls, doing, next, count, pull, received, weights>>
      /\ UNCHANGED <<offered, buf, acked, paused, waiting, posts>>
  BY DEF Announce, trainerVars, postVars, workerVars
<1>v. table'["trainer"] = table["trainer"] /\ \A w \in Worker : table'[w] = table[w]
  BY Names DEF Good, TypeOK, Announce
<1>p. /\ receiver = "announce" /\ receiver' = "call" /\ acked = version
      /\ table'["orchestrator"] = "ready" /\ table["orchestrator"] # "ready"
  BY DEF Good, TypeOK, Rounds, Announce
<1>1. TypeOK'
  <2>1. TypeOK /\ calls \in [Worker -> 0 .. MaxAttempts]  BY DEF Good, TypeOK
  <2>2. acked' \in Version \cup {-1}  BY <1>u DEF Good, TypeOK, Announce
  <2>3. table' \in [{"trainer", "orchestrator"} \cup Worker -> Status]
    BY <1>u DEF Good, TypeOK, Announce, Status
  <2>4. /\ receiver' \in {"watch", "announce", "call", "update", "retract", "settle", "failed"}
        /\ paused' \in BOOLEAN /\ waiting' \subseteq Engines
    BY <1>u DEF Good, TypeOK, Announce
  <2>5. posts' \in [Engines -> 0 .. MaxAttempts]  BY <1>u DEF Good, TypeOK
  <2> QED  BY <1>u, <2>1, <2>2, <2>3, <2>4, <2>5, ReceiverTyped
<1>2. Rounds'
  BY <1>u, <1>p DEF Good, Rounds, Early
<1>3. Posts'
  BY <1>u, <1>p DEF Good, Posts, Rounds, Idle, Active
<1>4. Tables'
  <2> SUFFICES ASSUME NEW w \in Worker PROVE TablesOf(w)'  BY DEF Tables
  <2>1. TablesOf(w) /\ table'[w] = table[w]  BY <1>v DEF Good, Tables
  <2> QED  BY <1>u, <1>v, <2>1 DEF TablesOf, Active, Published
<1>5. Loads(L)'
  BY <1>u, <1>p DEF Good, Loads, Holds, LoadedVersion
<1> QED  BY <1>u, <1>v, <1>1, <1>2, <1>3, <1>4, <1>5, ReceiverStep

(* The posts of a version find all workers idle.                           *)
LEMMA CallKeeps ==
  ASSUME NixlAssumption, NEW f \in 0 .. Groups, NEW L \in SUBSET Worker, Good(f, L),
         Call
  PROVE  Good(f, L)'
<1>0. /\ Master \in Rank /\ Master \in Serving /\ Serving \subseteq Rank
      /\ Groups \in Nat \ {0} /\ MaxVersion \in Nat /\ f \in Nat
  BY Basics
<1> USE <1>0
<1>u. /\ UNCHANGED <<at, pos, version, buffers, staging, offered, acked, table, buf>>
      /\ UNCHANGED <<doing, next, count, pull, received, weights>>
  BY DEF Call, trainerVars
<1>p. /\ receiver = "call" /\ receiver' = "update" /\ paused' /\ waiting' = Engines
      /\ table["orchestrator"] = "ready" /\ acked = version /\ acked >= 0
      /\ pos[Master] = 0 /\ at[Master] \in (Early \ {"offer"}) \cup {"failed"}
  BY DEF Good, Rounds, Call
<1>c. /\ \A w \in Worker : calls'[w] = 0 /\ posts'[EngineOf(w)] = 1
      /\ \A e \in Engines : posts'[e] = 1
  BY EngineOfWorker DEF Call
<1>i. \A w \in Worker :
        doing[w] \in {"idle", "returned"} /\ w \notin L /\ pull[w].step = "none" /\ Follows(w, f, L)
  <2> TAKE w \in Worker
  <2>1. Idle(w) /\ Follows(w, f, L)  BY <1>p DEF Good, Posts
  <2> QED  BY <2>1 DEF Idle, Follows, Late, Shape, Transferring
<1>1. TypeOK'
  <2>1. MaxAttempts \in Nat \ {0}  BY DEF NixlAssumption
  <2>2. calls' \in [Worker -> 0 .. MaxAttempts] /\ posts' \in [Engines -> 0 .. MaxAttempts]
    BY <2>1 DEF Call
  <2>3. waiting' \subseteq Engines /\ receiver' = "update" /\ paused' \in BOOLEAN  BY DEF Call
  <2>4. /\ TypeOK /\ acked' \in Version \cup {-1}
        /\ table' \in [{"trainer", "orchestrator"} \cup Worker -> Status]
    BY <1>u DEF Good, TypeOK
  <2> QED  BY <1>u, <2>2, <2>3, <2>4, ReceiverTyped
<1>2. MasterPhase(f)' /\ RankPhase' /\ Statuses(f)' /\ Stagings(f)'
  BY <1>u, MasterPhaseFrame, RankPhaseFrame, StatusesFrame, StagingsFrame DEF Good
<1>3. Rounds'
  BY <1>u, <1>p DEF Good, Rounds, Early
<1>4. Posts'
  <2>1. \A w \in Worker : EngineOf(w) \in Engines /\ ~Active(w)'
    BY <1>u, <1>i, EngineOfWorker DEF Active
  <2> QED  BY <1>u, <1>p, <1>c, <2>1 DEF Posts
<1>5. Tables'
  <2> SUFFICES ASSUME NEW w \in Worker PROVE TablesOf(w)'  BY DEF Tables
  <2>1. TablesOf(w) /\ doing[w] \in {"idle", "returned"}  BY <1>i DEF Good, Tables
  <2> QED  BY <1>u, <1>p, <1>c, <2>1 DEF TablesOf, Active, Published
<1>6. Loads(L)'
  <2>1. \A w \in Worker, g \in Group : ~Loaded(w, g)'  BY <1>u, <1>c, <1>i DEF Loaded, Transferring
  <2> QED  BY <1>p, <2>1 DEF Loads
<1>7. \A w \in Worker : Follows(w, f, L)'
  <2> TAKE w \in Worker
  <2>1. /\ doing[w] \in {"idle", "returned"} /\ w \notin L /\ pull[w].step = "none"
        /\ Shape(w) /\ Lockstep(w, f)
    BY <1>i DEF Follows
  <2>2. Shape(w)'  BY <1>u, <2>1 DEF Shape, Transferring
  <2>3. Abreast(w, f)'  BY <1>u, <2>1 DEF Abreast, Transferring, Midway
  <2>4. Acks(w, f)'  BY <1>u, <2>1 DEF Lockstep, Acks, Opening
  <2>5. Filled(w)' /\ Held(w)'  BY <1>u, <2>1 DEF Filled, Held
  <2> QED  BY <2>1, <2>2, <2>3, <2>4, <2>5 DEF Follows, Lockstep
<1> QED  BY <1>1, <1>2, <1>3, <1>4, <1>5, <1>6, <1>7 DEF Good

LEMMA AnswerKeeps ==
  ASSUME NixlAssumption, NEW f \in 0 .. Groups, NEW L \in SUBSET Worker, Good(f, L),
         NEW e \in Engines, Answer(e)
  PROVE  Good(f, L)'
<1>0. /\ Master \in Rank /\ Master \in Serving /\ Serving \subseteq Rank
      /\ Groups \in Nat \ {0} /\ MaxVersion \in Nat /\ f \in Nat
  BY Basics
<1> USE <1>0
<1>u. /\ UNCHANGED <<trainerVars, offered, buf, workerVars>>
      /\ UNCHANGED <<at, pos, version, buffers, staging>>
      /\ UNCHANGED <<calls, doing, next, count, pull, received, weights>>
      /\ UNCHANGED <<offered, buf, acked, table, receiver, paused, posts>>
  BY DEF Answer, trainerVars, postVars, workerVars
<1>v. table'["trainer"] = table["trainer"] /\ \A w \in Worker : table'[w] = table[w]
  BY <1>u
<1>p. receiver \in {"update", "failed"} /\ table["orchestrator"] = "ready"
  BY WaitingFacts DEF Answer
<1>1. TypeOK'
  <2>1. TypeOK /\ calls \in [Worker -> 0 .. MaxAttempts]  BY DEF Good, TypeOK
  <2>2. acked' \in Version \cup {-1}  BY <1>u DEF Good, TypeOK, Answer
  <2>3. table' \in [{"trainer", "orchestrator"} \cup Worker -> Status]
    BY <1>u DEF Good, TypeOK, Answer, Status
  <2>4. /\ receiver' \in {"watch", "announce", "call", "update", "retract", "settle", "failed"}
        /\ paused' \in BOOLEAN /\ waiting' \subseteq Engines
    BY <1>u DEF Good, TypeOK, Answer
  <2>5. posts' \in [Engines -> 0 .. MaxAttempts]  BY <1>u DEF Good, TypeOK
  <2> QED  BY <1>u, <2>1, <2>2, <2>3, <2>4, <2>5, ReceiverTyped
<1>2. Rounds'
  BY <1>u, RoundsFrame DEF Good
<1>3. Posts'
  <2>1. ASSUME receiver = "update", NEW w \in Worker PROVE EngineOf(w) \in waiting' \/ Served(w)'
    <3>1. EngineOf(w) \in waiting \/ Served(w)  BY <2>1 DEF Good, Posts
    <3>2. EngineOf(w) = e => Served(w)  BY EngineOfWorker DEF Answer
    <3>3. Served(w)' = Served(w)  BY <1>u DEF Served
    <3> QED  BY <3>1, <3>2, <3>3 DEF Answer
  <2>2. waiting # {}  BY DEF Answer
  <2> QED  BY <1>u, <1>p, <2>1, <2>2 DEF Good, Posts, Active
<1>4. Tables'
  <2> SUFFICES ASSUME NEW w \in Worker PROVE TablesOf(w)'  BY DEF Tables
  <2>1. TablesOf(w) /\ table'[w] = table[w]  BY <1>v DEF Good, Tables
  <2> QED  BY <1>u, <1>v, <2>1 DEF TablesOf, Active, Published
<1>5. Loads(L)'
  BY <1>u, LoadsFrame DEF Good
<1> QED  BY <1>u, <1>v, <1>1, <1>2, <1>3, <1>4, <1>5, ReceiverStep

(* An engine whose post is repeated has been posted to before.             *)
LEMMA RetryKeeps ==
  ASSUME NixlAssumption, NEW f \in 0 .. Groups, NEW L \in SUBSET Worker, Good(f, L),
         NEW e \in Engines, Retry(e)
  PROVE  Good(f, L)'
<1>0. /\ Master \in Rank /\ Master \in Serving /\ Serving \subseteq Rank
      /\ Groups \in Nat \ {0} /\ MaxVersion \in Nat /\ f \in Nat
  BY Basics
<1> USE <1>0
<1>u. /\ UNCHANGED <<trainerVars, offered, buf, workerVars>>
      /\ UNCHANGED <<at, pos, version, buffers, staging>>
      /\ UNCHANGED <<calls, doing, next, count, pull, received, weights>>
      /\ UNCHANGED <<offered, buf, acked, table, receiver, paused, waiting>>
  BY DEF Retry, trainerVars, postVars, workerVars
<1>v. table'["trainer"] = table["trainer"] /\ \A w \in Worker : table'[w] = table[w]
  BY <1>u
<1>p. receiver \in {"update", "failed"} /\ table["orchestrator"] = "ready"
  BY WaitingFacts DEF Retry
<1>q. /\ e \in waiting /\ posts[e] \in Nat /\ posts[e] > 0 /\ posts'[e] = posts[e] + 1
      /\ \A d \in Engines \ {e} : posts'[d] = posts[d]
      /\ \A w \in Worker : EngineOf(w) \in Engines
  <2>1. MaxAttempts \in Nat  BY DEF NixlAssumption
  <2>2. posts[e] \in Nat /\ posts \in [Engines -> 0 .. MaxAttempts]  BY <2>1 DEF Good, TypeOK
  <2>3. posts[e] > 0  BY DEF Good, Posts, Retry
  <2> QED  BY <2>2, <2>3, EngineOfWorker DEF Retry
<1>1. TypeOK'
  <2>1. TypeOK /\ calls \in [Worker -> 0 .. MaxAttempts]  BY DEF Good, TypeOK
  <2>2. acked' \in Version \cup {-1}  BY <1>u DEF Good, TypeOK, Retry
  <2>3. table' \in [{"trainer", "orchestrator"} \cup Worker -> Status]
    BY <1>u DEF Good, TypeOK, Retry, Status
  <2>4. /\ receiver' \in {"watch", "announce", "call", "update", "retract", "settle", "failed"}
        /\ paused' \in BOOLEAN /\ waiting' \subseteq Engines
    BY <1>u DEF Good, TypeOK, Retry
  <2>5. posts' \in [Engines -> 0 .. MaxAttempts]
    <3>1. MaxAttempts \in Nat  BY DEF NixlAssumption
    <3> QED  BY <3>1 DEF Good, TypeOK, Retry
  <2> QED  BY <1>u, <2>1, <2>2, <2>3, <2>4, <2>5, ReceiverTyped
<1>2. Rounds'
  BY <1>u, RoundsFrame DEF Good
<1>3. Posts'
  <2>1. ASSUME receiver = "update", NEW w \in Worker PROVE EngineOf(w) \in waiting \/ Served(w)'
    <3>1. EngineOf(w) \in waiting \/ Served(w)  BY <2>1 DEF Good, Posts
    <3>2. EngineOf(w) # e => Served(w)' = Served(w)  BY <1>u, <1>q DEF Served
    <3> QED  BY <1>q, <3>1, <3>2
  <2>2. \A w \in Worker : calls[w] <= posts'[EngineOf(w)] /\ (Active(w) => calls[w] > 0)
    <3> TAKE w \in Worker
    <3>1. calls[w] <= posts[EngineOf(w)] /\ (Active(w) => calls[w] > 0)  BY DEF Good, Posts
    <3>2. calls[w] \in Nat /\ posts[EngineOf(w)] \in Nat  BY Counters DEF Good
    <3> QED  BY <1>q, <3>1, <3>2
  <2>3. \A d \in Engines : posts'[d] > 0  BY <1>q DEF Good, Posts
  <2>4. receiver \notin {"call", "retract", "settle"}  BY <1>p
  <2> QED  BY <1>u, <1>p, <2>1, <2>2, <2>3, <2>4 DEF Posts, Active
<1>4. Tables'
  <2> SUFFICES ASSUME NEW w \in Worker PROVE TablesOf(w)'  BY DEF Tables
  <2>1. TablesOf(w)  BY DEF Good, Tables
  <2>2. calls[w] = 0 /\ calls[w] < posts'[EngineOf(w)] => calls[w] < posts[EngineOf(w)]  BY <1>q
  <2> QED  BY <1>u, <2>1, <2>2 DEF TablesOf, Active, Published
<1>5. Loads(L)'
  BY <1>u, LoadsFrame DEF Good
<1> QED  BY <1>u, <1>v, <1>1, <1>2, <1>3, <1>4, <1>5, ReceiverStep

LEMMA GiveUpKeeps ==
  ASSUME NixlAssumption, NEW f \in 0 .. Groups, NEW L \in SUBSET Worker, Good(f, L),
         NEW e \in Engines, GiveUp(e)
  PROVE  Good(f, L)'
<1>0. /\ Master \in Rank /\ Master \in Serving /\ Serving \subseteq Rank
      /\ Groups \in Nat \ {0} /\ MaxVersion \in Nat /\ f \in Nat
  BY Basics
<1> USE <1>0
<1>u. /\ UNCHANGED <<trainerVars, offered, buf, workerVars>>
      /\ UNCHANGED <<at, pos, version, buffers, staging>>
      /\ UNCHANGED <<calls, doing, next, count, pull, received, weights>>
      /\ UNCHANGED <<offered, buf, acked, table, posts>>
  BY DEF GiveUp, trainerVars, postVars, workerVars
<1>v. table'["trainer"] = table["trainer"] /\ \A w \in Worker : table'[w] = table[w]
  BY <1>u
<1>p. receiver \in {"update", "failed"} /\ table["orchestrator"] = "ready"
  BY WaitingFacts DEF GiveUp
<1>q. receiver' = "failed"  BY DEF GiveUp
<1>1. TypeOK'
  <2>1. TypeOK /\ calls \in [Worker -> 0 .. MaxAttempts]  BY DEF Good, TypeOK
  <2>2. acked' \in Version \cup {-1}  BY <1>u DEF Good, TypeOK, GiveUp
  <2>3. table' \in [{"trainer", "orchestrator"} \cup Worker -> Status]
    BY <1>u DEF Good, TypeOK, GiveUp, Status
  <2>4. /\ receiver' \in {"watch", "announce", "call", "update", "retract", "settle", "failed"}
        /\ paused' \in BOOLEAN /\ waiting' \subseteq Engines
    BY <1>u DEF Good, TypeOK, GiveUp
  <2>5. posts' \in [Engines -> 0 .. MaxAttempts]  BY <1>u DEF Good, TypeOK
  <2> QED  BY <1>u, <2>1, <2>2, <2>3, <2>4, <2>5, ReceiverTyped
<1>2. Rounds'
  BY <1>u, <1>p, <1>q DEF Good, Rounds, Early
<1>3. Posts'
  <2>1. waiting # {}  BY DEF GiveUp
  <2> QED  BY <1>u, <1>p, <1>q, <2>1 DEF Good, Posts, Active
<1>4. Tables'
  <2> SUFFICES ASSUME NEW w \in Worker PROVE TablesOf(w)'  BY DEF Tables
  <2>1. TablesOf(w) /\ table'[w] = table[w]  BY <1>v DEF Good, Tables
  <2> QED  BY <1>u, <1>v, <2>1 DEF TablesOf, Active, Published
<1>5. Loads(L)'
  BY <1>u, <1>p, <1>q DEF Good, Loads, Holds, LoadedVersion, Loaded, Transferring
<1> QED  BY <1>u, <1>v, <1>1, <1>2, <1>3, <1>4, <1>5, ReceiverStep

(* No post is left: every worker has served the last of its engine.        *)
LEMMA ResumeKeeps ==
  ASSUME NixlAssumption, NEW f \in 0 .. Groups, NEW L \in SUBSET Worker, Good(f, L),
         Resume
  PROVE  Good(f, L)'
<1>0. /\ Master \in Rank /\ Master \in Serving /\ Serving \subseteq Rank
      /\ Groups \in Nat \ {0} /\ MaxVersion \in Nat /\ f \in Nat
  BY Basics
<1> USE <1>0
<1>u. /\ UNCHANGED <<trainerVars, offered, buf, workerVars>>
      /\ UNCHANGED <<at, pos, version, buffers, staging>>
      /\ UNCHANGED <<calls, doing, next, count, pull, received, weights>>
      /\ UNCHANGED <<offered, buf, acked, table, waiting, posts>>
  BY DEF Resume, trainerVars, postVars, workerVars
<1>v. table'["trainer"] = table["trainer"] /\ \A w \in Worker : table'[w] = table[w]
  BY <1>u
<1>p. receiver = "update" /\ receiver' = "retract" /\ waiting = {} /\ table["orchestrator"] = "ready"
  BY DEF Good, Rounds, Resume
<1>q. \A w \in Worker :
        Idle(w) /\ doing[w] = "returned" /\ calls[w] > 0 /\ w \notin L
  <2> TAKE w \in Worker
  <2>1. Served(w) /\ posts[EngineOf(w)] > 0 /\ Follows(w, f, L)
    BY <1>p, EngineOfWorker DEF Good, Posts
  <2> QED  BY <2>1 DEF Served, Idle, Follows, Late
<1>1. TypeOK'
  <2>1. TypeOK /\ calls \in [Worker -> 0 .. MaxAttempts]  BY DEF Good, TypeOK
  <2>2. acked' \in Version \cup {-1}  BY <1>u DEF Good, TypeOK, Resume
  <2>3. table' \in [{"trainer", "orchestrator"} \cup Worker -> Status]
    BY <1>u DEF Good, TypeOK, Resume, Status
  <2>4. /\ receiver' \in {"watch", "announce", "call", "update", "retract", "settle", "failed"}
        /\ paused' \in BOOLEAN /\ waiting' \subseteq Engines
    BY <1>u DEF Good, TypeOK, Resume
  <2>5. posts' \in [Engines -> 0 .. MaxAttempts]  BY <1>u DEF Good, TypeOK
  <2> QED  BY <1>u, <2>1, <2>2, <2>3, <2>4, <2>5, ReceiverTyped
<1>2. Rounds'
  BY <1>u, <1>p DEF Good, Rounds, Early
<1>3. Posts'
  BY <1>u, <1>p, <1>q DEF Good, Posts, Idle, Active
<1>4. Tables'
  <2> SUFFICES ASSUME NEW w \in Worker PROVE TablesOf(w)'  BY DEF Tables
  <2>1. TablesOf(w) /\ table'[w] = table[w]  BY <1>v DEF Good, Tables
  <2> QED  BY <1>u, <1>v, <2>1 DEF TablesOf, Active, Published
<1>5. Loads(L)'
  <2>1. \A w \in Worker, g \in Group : Holds(w, g, acked)
    BY <1>p, <1>q DEF Good, Loads, Loaded
  <2> QED  BY <1>u, <1>p, <2>1 DEF Loads, LoadedVersion, Holds
<1> QED  BY <1>u, <1>v, <1>1, <1>2, <1>3, <1>4, <1>5, ReceiverStep

LEMMA RetractKeeps ==
  ASSUME NixlAssumption, NEW f \in 0 .. Groups, NEW L \in SUBSET Worker, Good(f, L),
         Retract
  PROVE  Good(f, L)'
<1>0. /\ Master \in Rank /\ Master \in Serving /\ Serving \subseteq Rank
      /\ Groups \in Nat \ {0} /\ MaxVersion \in Nat /\ f \in Nat
  BY Basics
<1> USE <1>0
<1>u. /\ UNCHANGED <<trainerVars, offered, buf, workerVars>>
      /\ UNCHANGED <<at, pos, version, buffers, staging>>
      /\ UNCHANGED <<calls, doing, next, count, pull, received, weights>>
      /\ UNCHANGED <<offered, buf, acked, paused, waiting, posts>>
  BY DEF Retract, trainerVars, postVars, workerVars
<1>v. table'["trainer"] = table["trainer"] /\ \A w \in Worker : table'[w] = table[w]
  BY Names DEF Good, TypeOK, Retract
<1>p. /\ receiver = "retract" /\ receiver' = "settle" /\ table["orchestrator"] = "ready"
      /\ table'["orchestrator"] = "initializing"
  BY DEF Good, TypeOK, Rounds, Retract
<1>1. TypeOK'
  <2>1. TypeOK /\ calls \in [Worker -> 0 .. MaxAttempts]  BY DEF Good, TypeOK
  <2>2. acked' \in Version \cup {-1}  BY <1>u DEF Good, TypeOK, Retract
  <2>3. table' \in [{"trainer", "orchestrator"} \cup Worker -> Status]
    BY <1>u DEF Good, TypeOK, Retract, Status
  <2>4. /\ receiver' \in {"watch", "announce", "call", "update", "retract", "settle", "failed"}
        /\ paused' \in BOOLEAN /\ waiting' \subseteq Engines
    BY <1>u DEF Good, TypeOK, Retract
  <2>5. posts' \in [Engines -> 0 .. MaxAttempts]  BY <1>u DEF Good, TypeOK
  <2> QED  BY <1>u, <2>1, <2>2, <2>3, <2>4, <2>5, ReceiverTyped
<1>2. Rounds'
  BY <1>u, <1>p DEF Good, Rounds, Early
<1>3. Posts'
  BY <1>u, <1>p DEF Good, Posts, Idle, Active
<1>4. Tables'
  <2> SUFFICES ASSUME NEW w \in Worker PROVE TablesOf(w)'  BY DEF Tables
  <2>1. TablesOf(w) /\ table'[w] = table[w]  BY <1>v DEF Good, Tables
  <2> QED  BY <1>u, <1>v, <2>1 DEF TablesOf, Active, Published
<1>5. Loads(L)'
  BY <1>u, <1>p DEF Good, Loads, Holds, LoadedVersion
<1> QED  BY <1>u, <1>v, <1>1, <1>2, <1>3, <1>4, <1>5, ReceiverStep

LEMMA SettleKeeps ==
  ASSUME NixlAssumption, NEW f \in 0 .. Groups, NEW L \in SUBSET Worker, Good(f, L),
         Settle
  PROVE  Good(f, L)'
<1>0. /\ Master \in Rank /\ Master \in Serving /\ Serving \subseteq Rank
      /\ Groups \in Nat \ {0} /\ MaxVersion \in Nat /\ f \in Nat
  BY Basics
<1> USE <1>0
<1>u. /\ UNCHANGED <<trainerVars, offered, buf, workerVars>>
      /\ UNCHANGED <<at, pos, version, buffers, staging>>
      /\ UNCHANGED <<calls, doing, next, count, pull, received, weights>>
      /\ UNCHANGED <<offered, buf, acked, table, paused, waiting, posts>>
  BY DEF Settle, trainerVars, postVars, workerVars
<1>v. table'["trainer"] = table["trainer"] /\ \A w \in Worker : table'[w] = table[w]
  BY <1>u
<1>p. receiver = "settle" /\ receiver' = "watch" /\ table["orchestrator"] # "ready"
  BY DEF Good, Rounds, Settle
<1>1. TypeOK'
  <2>1. TypeOK /\ calls \in [Worker -> 0 .. MaxAttempts]  BY DEF Good, TypeOK
  <2>2. acked' \in Version \cup {-1}  BY <1>u DEF Good, TypeOK, Settle
  <2>3. table' \in [{"trainer", "orchestrator"} \cup Worker -> Status]
    BY <1>u DEF Good, TypeOK, Settle, Status
  <2>4. /\ receiver' \in {"watch", "announce", "call", "update", "retract", "settle", "failed"}
        /\ paused' \in BOOLEAN /\ waiting' \subseteq Engines
    BY <1>u DEF Good, TypeOK, Settle
  <2>5. posts' \in [Engines -> 0 .. MaxAttempts]  BY <1>u DEF Good, TypeOK
  <2> QED  BY <1>u, <2>1, <2>2, <2>3, <2>4, <2>5, ReceiverTyped
<1>2. Rounds'
  BY <1>u, <1>p DEF Good, Rounds, Early
<1>3. Posts'
  BY <1>u, <1>p DEF Good, Posts, Idle, Active
<1>4. Tables'
  <2> SUFFICES ASSUME NEW w \in Worker PROVE TablesOf(w)'  BY DEF Tables
  <2>1. TablesOf(w) /\ table'[w] = table[w]  BY <1>v DEF Good, Tables
  <2> QED  BY <1>u, <1>v, <2>1 DEF TablesOf, Active, Published
<1>5. Loads(L)'
  BY <1>u, <1>p DEF Good, Loads, Holds, LoadedVersion
<1> QED  BY <1>u, <1>v, <1>1, <1>2, <1>3, <1>4, <1>5, ReceiverStep

LEMMA ReceiverRaisesKeeps ==
  ASSUME NixlAssumption, NEW f \in 0 .. Groups, NEW L \in SUBSET Worker, Good(f, L),
         ReceiverRaises
  PROVE  Good(f, L)'
<1>0. /\ Master \in Rank /\ Master \in Serving /\ Serving \subseteq Rank
      /\ Groups \in Nat \ {0} /\ MaxVersion \in Nat /\ f \in Nat
  BY Basics
<1> USE <1>0
<1>u. /\ UNCHANGED <<trainerVars, offered, buf, workerVars>>
      /\ UNCHANGED <<at, pos, version, buffers, staging>>
      /\ UNCHANGED <<calls, doing, next, count, pull, received, weights>>
      /\ UNCHANGED <<offered, buf, acked, table, paused, waiting, posts>>
  BY DEF ReceiverRaises, trainerVars, postVars, workerVars
<1>v. table'["trainer"] = table["trainer"] /\ \A w \in Worker : table'[w] = table[w]
  BY <1>u
<1>p. receiver = "settle" /\ receiver' = "failed" /\ table["orchestrator"] # "ready"
  BY DEF Good, Rounds, ReceiverRaises
<1>1. TypeOK'
  <2>1. TypeOK /\ calls \in [Worker -> 0 .. MaxAttempts]  BY DEF Good, TypeOK
  <2>2. acked' \in Version \cup {-1}  BY <1>u DEF Good, TypeOK, ReceiverRaises
  <2>3. table' \in [{"trainer", "orchestrator"} \cup Worker -> Status]
    BY <1>u DEF Good, TypeOK, ReceiverRaises, Status
  <2>4. /\ receiver' \in {"watch", "announce", "call", "update", "retract", "settle", "failed"}
        /\ paused' \in BOOLEAN /\ waiting' \subseteq Engines
    BY <1>u DEF Good, TypeOK, ReceiverRaises
  <2>5. posts' \in [Engines -> 0 .. MaxAttempts]  BY <1>u DEF Good, TypeOK
  <2> QED  BY <1>u, <2>1, <2>2, <2>3, <2>4, <2>5, ReceiverTyped
<1>2. Rounds'
  BY <1>u, <1>p DEF Good, Rounds, Early
<1>3. Posts'
  BY <1>u, <1>p DEF Good, Posts, Idle, Active
<1>4. Tables'
  <2> SUFFICES ASSUME NEW w \in Worker PROVE TablesOf(w)'  BY DEF Tables
  <2>1. TablesOf(w) /\ table'[w] = table[w]  BY <1>v DEF Good, Tables
  <2> QED  BY <1>u, <1>v, <2>1 DEF TablesOf, Active, Published
<1>5. Loads(L)'
  BY <1>u, <1>p DEF Good, Loads, Holds, LoadedVersion
<1> QED  BY <1>u, <1>v, <1>1, <1>2, <1>3, <1>4, <1>5, ReceiverStep

-----------------------------------------------------------------------------
(* What a step of a worker may change.                                     *)
LEMMA WorkerTyped ==
  ASSUME TypeOK, UNCHANGED <<trainerVars, offered, acked, receiverVars>>,
         table' \in [{"trainer", "orchestrator"} \cup Worker -> Status],
         buf' \in [0 .. (MaxCount - 1) -> [{"trainer"} \cup Worker -> Status]],
         calls' \in [Worker -> 0 .. MaxAttempts], doing' \in [Worker -> Progress],
         next' \in [Worker -> 0 .. Groups], count' \in [Worker -> 0 .. 2],
         pull' \in [Worker -> Pull], received' \in [Worker -> [0 .. 1 -> [Serving -> Piece]]],
         weights' \in [Worker -> [Group -> [Serving -> Piece]]]
  PROVE  TypeOK'
<1>1. /\ UNCHANGED <<at, pos, version, buffers, staging>> /\ UNCHANGED <<offered, acked>>
      /\ UNCHANGED <<receiver, paused, waiting, posts>>
  BY DEF trainerVars, receiverVars, postVars
<1> QED  BY <1>1 DEF TypeOK

(* A step of a pull changes nothing else of its worker.                    *)
LEMMA PullStep ==
  ASSUME NixlAssumption, NEW f \in 0 .. Groups, NEW L \in SUBSET Worker, Good(f, L),
         NEW w \in Worker, pull[w].step # "none",
         UNCHANGED <<trainerVars, offered, acked, receiverVars>>,
         UNCHANGED <<table, calls, doing, next, count, weights>>,
         buf' \in [0 .. (MaxCount - 1) -> [{"trainer"} \cup Worker -> Status]],
         \A b \in 0 .. (MaxCount - 1) :
           buf'[b]["trainer"] = buf[b]["trainer"] /\ \A q \in Worker \ {w} : buf'[b][q] = buf[b][q],
         pull' \in [Worker -> Pull], \A q \in Worker \ {w} : pull'[q] = pull[q],
         received' \in [Worker -> [0 .. 1 -> [Serving -> Piece]]],
         \A q \in Worker \ {w} : received'[q] = received[q],
         Shape(w)', w \in L => Late(w, f)', w \notin L => Lockstep(w, f)'
  PROVE  Good(f, L)'
<1>1. TypeOK'
  <2>1. /\ TypeOK
        /\ table' \in [{"trainer", "orchestrator"} \cup Worker -> Status]
        /\ calls' \in [Worker -> 0 .. MaxAttempts] /\ doing' \in [Worker -> Progress]
        /\ next' \in [Worker -> 0 .. Groups] /\ count' \in [Worker -> 0 .. 2]
        /\ weights' \in [Worker -> [Group -> [Serving -> Piece]]]
    BY DEF Good, TypeOK
  <2> QED  BY <2>1, WorkerTyped
<1>2. Transferring(w) /\ TablesOf(w) /\ calls[w] <= posts[EngineOf(w)] /\ (Active(w) => calls[w] > 0)
  BY PullFacts DEF Good, Tables, Posts
<1>3. ~Idle(w)  BY <1>2 DEF Transferring, Idle
<1>4. /\ UNCHANGED <<at, pos, version, buffers, staging>> /\ acked' = acked /\ posts' = posts
      /\ receiver \in {"update", "failed"}
  BY <1>3, BusyFacts DEF trainerVars, receiverVars, postVars
<1>5. TablesOf(w)' /\ Active(w)' = Active(w) /\ Follows(w, f, L)'
  BY <1>2, <1>4 DEF TablesOf, Active, Published, Follows
<1>6. w \notin L => \A g \in Group : Loaded(w, g)' => Holds(w, g, acked)'
  <2>1. \A g \in Group : Loaded(w, g)' = Loaded(w, g) /\ Holds(w, g, acked)' = Holds(w, g, acked)
    BY <1>4 DEF Loaded, Transferring, Holds
  <2> QED  BY <1>4, <2>1 DEF Good, Loads
<1> QED  BY <1>1, <1>2, <1>3, <1>5, <1>6, WorkerStep

(* READY is for a group of the window: for f, unless the worker is late.   *)
LEMMA SeeStagedKeeps ==
  ASSUME NixlAssumption, NEW f \in 0 .. Groups, NEW L \in SUBSET Worker, Good(f, L),
         NEW w \in Worker, SeeStaged(w)
  PROVE  Good(f, L)'
<1>0. /\ Master \in Rank /\ Master \in Serving /\ Serving \subseteq Rank
      /\ Groups \in Nat \ {0} /\ MaxVersion \in Nat /\ f \in Nat
  BY Basics
<1> USE <1>0
<1>a. pull' = [pull EXCEPT ![w].step = "reading"] /\ pull[w].step = "wanted"  BY DEF SeeStaged
<1>b. /\ pull'[w].step = "reading" /\ pull'[w].group = pull[w].group /\ pull'[w].unread = pull[w].unread
      /\ \A q \in Worker \ {w} : pull'[q] = pull[q]
  BY <1>a DEF Good, TypeOK, Pull
<1>c. buf[pull[w].group % buffers]["trainer"] = "ready"  BY <1>a, PullFacts DEF SeeStaged
<1>p. /\ Transferring(w) /\ pull[w].group % buffers \in 0 .. (MaxCount - 1)
      /\ Follows(w, f, L)
  BY <1>a, PullFacts DEF Good
<1>u. /\ UNCHANGED <<trainerVars, offered, acked, receiverVars>>
      /\ UNCHANGED <<table, calls, doing, next, count, weights>> /\ UNCHANGED <<buf, received>>
      /\ UNCHANGED <<at, pos, version, buffers, staging>>
  BY DEF SeeStaged, trainerVars
<1>1. /\ pull' \in [Worker -> Pull] /\ buf' \in [0 .. (MaxCount - 1) -> [{"trainer"} \cup Worker -> Status]]
      /\ received' \in [Worker -> [0 .. 1 -> [Serving -> Piece]]]
  <2>1. pull \in [Worker -> Pull]  BY DEF Good, TypeOK
  <2>2. [pull[w] EXCEPT !.step = "reading"] \in Pull  BY <2>1 DEF Pull
  <2>3. pull' \in [Worker -> Pull]  BY <1>a, <2>1, <2>2, Zenon
  <2> QED  BY <1>u, <2>3 DEF Good, TypeOK
<1>2. Shape(w)'
  BY <1>a, <1>b, <1>p, <1>u DEF Follows, Shape, Transferring
<1>3. ASSUME w \in L PROVE Late(w, f)'
  <2>1. Late(w, f)  BY <1>3, <1>p DEF Follows
  <2> QED  BY <1>a, <1>b, <1>c, <1>u, <2>1 DEF Late, Midway, Transferring
<1>4. ASSUME w \notin L PROVE Lockstep(w, f)'
  <2>1. Lockstep(w, f)  BY <1>4, <1>p DEF Follows
  <2>2. pull[w].group = f /\ f < Raised
    <3>1. pull[w].group = f  BY <1>a, <2>1 DEF Lockstep, Abreast
    <3>2. \E g \in Window(f) : TRUE  BY <1>c, <1>p DEF Good, Statuses
    <3> QED  BY <3>1, <3>2, Sizes DEF Window, Good
  <2>3. Abreast(w, f)'
    BY <1>b, <1>p, <1>u, <2>1, <2>2 DEF Lockstep, Abreast, Transferring, Midway, InStep, Raised
  <2>4. Acks(w, f)'  BY <1>a, <1>b, <1>u, <2>1 DEF Lockstep, Acks, Opening
  <2>5. Filled(w)' /\ Held(w)'  BY <1>a, <1>b, <1>u, <2>1, FilledStays, HeldStays DEF Lockstep
  <2> QED  BY <2>3, <2>4, <2>5 DEF Lockstep
<1>5. pull[w].step # "none"  BY <1>a
<1> QED  BY <1>b, <1>u, <1>1, <1>2, <1>3, <1>4, <1>5, PullStep

(* A read fills a receive buffer that is not being replayed.               *)
LEMMA ReadKeeps ==
  ASSUME NixlAssumption, NEW f \in 0 .. Groups, NEW L \in SUBSET Worker, Good(f, L),
         NEW w \in Worker, NEW r \in Serving, Read(w, r)
  PROVE  Good(f, L)'
<1>0. /\ Master \in Rank /\ Master \in Serving /\ Serving \subseteq Rank
      /\ Groups \in Nat \ {0} /\ MaxVersion \in Nat /\ f \in Nat
  BY Basics
<1> USE <1>0
<1>a. /\ pull' = [pull EXCEPT ![w].unread = pull[w].unread \ {r}]
      /\ pull[w].step = "reading" /\ r \in pull[w].unread
  BY DEF Read
<1>b. /\ pull'[w].step = "reading" /\ pull'[w].group = pull[w].group
      /\ pull'[w].unread = pull[w].unread \ {r}
      /\ \A q \in Worker \ {w} : pull'[q] = pull[q]
  BY <1>a DEF Good, TypeOK, Pull
<1>p. /\ Transferring(w) /\ count[w] \in {1, 2} /\ pull[w].group \in Nat /\ next[w] \in Nat
      /\ pull[w].group % buffers \in 0 .. (MaxCount - 1) /\ Follows(w, f, L)
  BY <1>a, PullFacts DEF Good
<1>c. pull[w].group % count[w] \in 0 .. 1
  <2>1. count[w] \in Nat \ {0} /\ count[w] <= 2  BY <1>p
  <2>2. pull[w].group % count[w] \in 0 .. (count[w] - 1)  BY <1>p, <2>1, ModRange
  <2> QED  BY <1>p, <2>2
<1>d. staging[r][pull[w].group % buffers] \in Piece
  <2> DEFINE B == 0 .. (MaxCount - 1)
  <2>1. staging \in [Serving -> [B -> Piece]]  BY DEF Good, TypeOK
  <2> HIDE DEF B
  <2>2. \A b \in B : staging[r][b] \in Piece  BY <2>1
  <2> QED  BY <1>p, <2>2 DEF B
<1>e. received' = [received EXCEPT ![w][pull[w].group % count[w]][r] =
                     staging[r][pull[w].group % buffers]]
  BY <1>a, PullFacts DEF Read
<1>h. received \in [Worker -> [0 .. 1 -> [Serving -> Piece]]]  BY DEF Good, TypeOK
<1>i. /\ received' \in [Worker -> [0 .. 1 -> [Serving -> Piece]]]
      /\ \A x \in Worker, k \in 0 .. 1, q \in Serving :
           received'[x][k][q] = IF x = w /\ k = pull[w].group % count[w] /\ q = r
                                THEN staging[r][pull[w].group % buffers] ELSE received[x][k][q]
      /\ \A x \in Worker \ {w} : received'[x] = received[x]
  <2> DEFINE k0 == pull[w].group % count[w]
             d0 == staging[r][pull[w].group % buffers]
  <2>1. k0 \in 0 .. 1 /\ d0 \in Piece  BY <1>c, <1>d
  <2>2. received' = [received EXCEPT ![w][k0][r] = d0]  BY <1>e
  <2> HIDE DEF k0, d0
  <2>3. /\ [received EXCEPT ![w][k0][r] = d0] \in [Worker -> [0 .. 1 -> [Serving -> Piece]]]
        /\ \A x \in Worker, k \in 0 .. 1, q \in Serving :
             [received EXCEPT ![w][k0][r] = d0][x][k][q] =
               IF x = w /\ k = k0 /\ q = r THEN d0 ELSE received[x][k][q]
        /\ \A x \in Worker \ {w} : [received EXCEPT ![w][k0][r] = d0][x] = received[x]
    <3> DEFINE K == 0 .. 1
    <3>1. received \in [Worker -> [K -> [Serving -> Piece]]] /\ k0 \in K  BY <1>h, <2>1
    <3> HIDE DEF K
    <3>2. /\ [received EXCEPT ![w][k0][r] = d0] \in [Worker -> [K -> [Serving -> Piece]]]
          /\ \A x \in Worker, k \in K, q \in Serving :
               [received EXCEPT ![w][k0][r] = d0][x][k][q] =
                 IF x = w /\ k = k0 /\ q = r THEN d0 ELSE received[x][k][q]
          /\ \A x \in Worker \ {w} : [received EXCEPT ![w][k0][r] = d0][x] = received[x]
      BY <2>1, <3>1
    <3> QED  BY <3>2 DEF K
  <2> QED  BY <2>2, <2>3 DEF k0, d0
<1>j. doing[w] = "replay" =>
        next[w] % count[w] # pull[w].group % count[w] /\ next[w] % count[w] \in 0 .. 1
  <2> SUFFICES ASSUME doing[w] = "replay"
               PROVE  next[w] % count[w] # pull[w].group % count[w] /\ next[w] % count[w] \in 0 .. 1
    OBVIOUS
  <2>1. count[w] = 2 /\ pull[w].group = next[w] + 1
    BY <1>a, <1>p DEF Follows, Shape
  <2>2. next[w] % 2 # (next[w] + 1) % 2 /\ next[w] % 2 \in 0 .. 1  BY <1>p
  <2> QED  BY <2>1, <2>2
<1>u. /\ UNCHANGED <<trainerVars, offered, acked, receiverVars>>
      /\ UNCHANGED <<table, calls, doing, next, count, weights>> /\ buf' = buf
      /\ UNCHANGED <<at, pos, version, buffers, staging>>
  BY DEF Read, trainerVars
<1>1. pull' \in [Worker -> Pull] /\ buf' \in [0 .. (MaxCount - 1) -> [{"trainer"} \cup Worker -> Status]]
  <2>1. pull \in [Worker -> Pull]  BY DEF Good, TypeOK
  <2>2. [pull[w] EXCEPT !.unread = pull[w].unread \ {r}] \in Pull  BY <2>1 DEF Pull
  <2>3. pull' \in [Worker -> Pull]  BY <1>a, <2>1, <2>2, Zenon
  <2> QED  BY <1>u, <2>3 DEF Good, TypeOK
<1>2. Shape(w)'
  BY <1>a, <1>b, <1>p, <1>u DEF Follows, Shape, Transferring
<1>3. ASSUME w \in L PROVE Late(w, f)'
  <2>1. Late(w, f)  BY <1>3, <1>p DEF Follows
  <2> QED  BY <1>a, <1>b, <1>u, <2>1 DEF Late, Midway, Transferring
<1>4. ASSUME w \notin L PROVE Lockstep(w, f)'
  <2>1. Lockstep(w, f)  BY <1>4, <1>p DEF Follows
  <2>2. pull[w].group < Raised /\ InStep(w, f)  BY <1>a, <2>1 DEF Lockstep, Abreast, Midway
  <2>3. staging[r][pull[w].group % buffers] = <<version, pull[w].group>>
    <3>1. CASE f = pull[w].group
      <4>1. pull[w].group \in Window(f)  BY <2>2, <3>1, Sizes DEF Window, Good
      <4> QED  BY <4>1 DEF Good, Stagings
    <3>2. CASE f # pull[w].group  BY <2>2, <3>2 DEF InStep
    <3> QED  BY <3>1, <3>2
  <2>4. Abreast(w, f)'
    <3>1. InStep(w, f)'  BY <1>b, <1>u, <2>2 DEF InStep
    <3> QED
      BY <1>a, <1>b, <1>p, <1>u, <2>2, <3>1 DEF Abreast, Transferring, Midway, Raised
  <2>5. Acks(w, f)'  BY <1>a, <1>b, <1>u, <2>1 DEF Lockstep, Acks, Opening
  <2>6. Filled(w)'
    <3> DEFINE k == pull[w].group % count[w]
               d == <<version, pull[w].group>>
    <3>0. \A j \in 0 .. 1, q \in Serving : received'[w][j][q] =
            IF j = k /\ q = r THEN staging[r][pull[w].group % buffers] ELSE received[w][j][q]
      BY <1>i
    <3>1. \A q \in Serving : received'[w][k][q] = IF q = r THEN d ELSE received[w][k][q]
      <4>1. k \in 0 .. 1 /\ staging[r][pull[w].group % buffers] = d  BY <1>c, <2>3
      <4> HIDE DEF k, d
      <4> QED  BY <3>0, <4>1
    <3>2. \A q \in Serving \ (pull[w].unread \ {r}) : q = r \/ received[w][k][q] = d
      BY <1>a, <2>1, Zenon DEF Lockstep, Filled
    <3>3. version' = version /\ count' = count  BY <1>u
    <3> HIDE DEF k, d
    <3>4. \A q \in Serving \ (pull[w].unread \ {r}) : received'[w][k][q] = d  BY <3>1, <3>2
    <3> QED  BY <1>b, <3>3, <3>4, Zenon DEF Filled, k, d
  <2>7. Held(w)'
    <3>1. doing[w] = "replay" =>
            \A q \in Serving : received[w][next[w] % count[w]][q] = <<version, next[w]>>
      BY <2>1, Zenon DEF Lockstep, Held
    <3>2. doing[w] = "replay" =>
            \A q \in Serving : received'[w][next[w] % count[w]][q] = <<version, next[w]>>
      BY <1>i, <1>j, <3>1
    <3>3. version' = version /\ count' = count /\ doing' = doing /\ next' = next  BY <1>u
    <3> QED  BY <3>2, <3>3, Zenon DEF Held
  <2> QED  BY <2>4, <2>5, <2>6, <2>7 DEF Lockstep
<1>5. pull[w].step # "none"  BY <1>a
<1> QED  BY <1>b, <1>i, <1>u, <1>1, <1>2, <1>3, <1>4, <1>5, PullStep

LEMMA PulledKeeps ==
  ASSUME NixlAssumption, NEW f \in 0 .. Groups, NEW L \in SUBSET Worker, Good(f, L),
         NEW w \in Worker, Pulled(w)
  PROVE  Good(f, L)'
<1>0. /\ Master \in Rank /\ Master \in Serving /\ Serving \subseteq Rank
      /\ Groups \in Nat \ {0} /\ MaxVersion \in Nat /\ f \in Nat
  BY Basics
<1> USE <1>0
<1>a. /\ pull' = [pull EXCEPT ![w].step = "done"] /\ pull[w].step = "reading" /\ pull[w].unread = {}
      /\ ~(count[w] > 1)
  BY DEF Pulled, HaveRead, Pipelined
<1>b. /\ pull'[w].step = "done" /\ pull'[w].group = pull[w].group /\ pull'[w].unread = pull[w].unread
      /\ \A q \in Worker \ {w} : pull'[q] = pull[q]
  BY <1>a DEF Good, TypeOK, Pull
<1>p. Transferring(w) /\ count[w] = 1 /\ Follows(w, f, L)  BY <1>a, PullFacts DEF Good
<1>u. /\ UNCHANGED <<trainerVars, offered, acked, receiverVars>>
      /\ UNCHANGED <<table, calls, doing, next, count, weights>> /\ UNCHANGED <<buf, received>>
      /\ UNCHANGED <<at, pos, version, buffers, staging>>
  BY DEF Pulled, trainerVars
<1>1. /\ pull' \in [Worker -> Pull] /\ buf' \in [0 .. (MaxCount - 1) -> [{"trainer"} \cup Worker -> Status]]
      /\ received' \in [Worker -> [0 .. 1 -> [Serving -> Piece]]]
  <2>1. pull \in [Worker -> Pull]  BY DEF Good, TypeOK
  <2>2. [pull[w] EXCEPT !.step = "done"] \in Pull  BY <2>1 DEF Pull
  <2>3. pull' \in [Worker -> Pull]  BY <1>a, <2>1, <2>2, Zenon
  <2> QED  BY <1>u, <2>3 DEF Good, TypeOK
<1>2. Shape(w)'
  BY <1>a, <1>b, <1>p, <1>u DEF Follows, Shape, Transferring
<1>3. ASSUME w \in L PROVE Late(w, f)'
  <2>1. Late(w, f)  BY <1>3, <1>p DEF Follows
  <2>2. Midway(w) /\ Midway(w)' /\ Transferring(w)' = Transferring(w)
    BY <1>a, <1>b, <1>p, <1>u DEF Midway, Transferring
  <2>3. count'[w] # 2 /\ pull'[w].step # "reading" /\ pull'[w].step # "none"  BY <1>b, <1>p, <1>u
  <2> QED  BY <1>b, <1>u, <2>1, <2>2, <2>3 DEF Late
<1>4. ASSUME w \notin L PROVE Lockstep(w, f)'
  <2>1. Lockstep(w, f)  BY <1>4, <1>p DEF Follows
  <2>2. pull[w].group < Raised /\ InStep(w, f)  BY <1>a, <2>1 DEF Lockstep, Abreast, Midway
  <2>3. Abreast(w, f)'
    <3>1. InStep(w, f)'  BY <1>b, <1>u, <2>2 DEF InStep
    <3> QED
      BY <1>a, <1>b, <1>p, <1>u, <2>2, <3>1 DEF Abreast, Transferring, Midway, Raised
  <2>4. Acks(w, f)'  BY <1>a, <1>b, <1>p, <1>u, <2>1 DEF Lockstep, Acks, Opening
  <2>5. Filled(w)' /\ Held(w)'  BY <1>a, <1>b, <1>u, <2>1, FilledStays, HeldStays DEF Lockstep
  <2> QED  BY <2>3, <2>4, <2>5 DEF Lockstep
<1>5. pull[w].step # "none"  BY <1>a
<1> QED  BY <1>b, <1>u, <1>1, <1>2, <1>3, <1>4, <1>5, PullStep

(* The group acknowledged is f, and stays in the window until all have.    *)
LEMMA AcknowledgeKeeps ==
  ASSUME NixlAssumption, NEW f \in 0 .. Groups, NEW L \in SUBSET Worker, Good(f, L),
         NEW w \in Worker, Acknowledge(w)
  PROVE  Good(f, L)'
<1>0. /\ Master \in Rank /\ Master \in Serving /\ Serving \subseteq Rank
      /\ Groups \in Nat \ {0} /\ MaxVersion \in Nat /\ f \in Nat
  BY Basics
<1> USE <1>0
<1>a. /\ pull' = [pull EXCEPT ![w].step = "acked"] /\ doing' = doing
      /\ \/ pull[w].step = "reading" /\ pull[w].unread = {} /\ count[w] > 1
         \/ doing[w] = "acknowledge" /\ pull[w].step = "done"
  BY DEF Acknowledge, HaveRead, Pipelined
<1>f. pull[w].step \in {"reading", "done"} /\ pull[w].step # "none"  BY <1>a
<1>b. /\ pull'[w].step = "acked" /\ pull'[w].group = pull[w].group /\ pull'[w].unread = pull[w].unread
      /\ \A q \in Worker \ {w} : pull'[q] = pull[q]
  BY <1>a DEF Good, TypeOK, Pull
<1>p. /\ count[w] \in {1, 2} /\ pull[w].group % buffers \in 0 .. (MaxCount - 1)
      /\ pull[w].group % buffers < buffers /\ buffers \in Nat
      /\ Transferring(w) /\ Follows(w, f, L)
      /\ pull[w].group = 0 => pull[w].group % buffers = 0
  <2>1. pull[w].group \in Nat /\ buffers \in Nat \ {0}  BY <1>f, PullFacts
  <2>2. pull[w].group = 0 => pull[w].group % buffers = 0  BY <2>1, ModSmall
  <2> QED  BY <1>f, <2>1, <2>2, PullFacts DEF Good
<1>d. /\ Midway(w) /\ pull[w].unread = {}
      /\ doing[w] \in {"fetch", "replay"} => count[w] = 2
      /\ doing[w] = "acknowledge" => count[w] = 1 /\ pull[w].group = next[w]
  <2>1. Shape(w)  BY <1>p DEF Follows
  <2>2. CASE pull[w].step = "reading" /\ pull[w].unread = {} /\ count[w] > 1
    BY <1>p, <2>1, <2>2 DEF Shape, Midway
  <2>3. CASE doing[w] = "acknowledge" /\ pull[w].step = "done"
    BY <2>1, <2>3 DEF Shape, Midway
  <2> QED  BY <1>a, <2>2, <2>3
<1>h. buf' = [buf EXCEPT ![pull[w].group % buffers][w] = "ready"]
  BY <1>f, PullFacts DEF Acknowledge
<1>i. buf \in [0 .. (MaxCount - 1) -> [{"trainer"} \cup Worker -> Status]]  BY DEF Good, TypeOK
<1>j. \A b \in 0 .. (MaxCount - 1), p \in {"trainer"} \cup Worker :
        buf'[b][p] = IF b = pull[w].group % buffers /\ p = w THEN "ready" ELSE buf[b][p]
  BY <1>p, <1>h, <1>i
<1>k. \A b \in 0 .. (MaxCount - 1) :
        /\ buf'[b]["trainer"] = buf[b]["trainer"] /\ \A q \in Worker \ {w} : buf'[b][q] = buf[b][q]
        /\ buf'[b][w] = IF b = pull[w].group % buffers THEN "ready" ELSE buf[b][w]
  BY <1>j, Names
<1>u. /\ UNCHANGED <<trainerVars, offered, acked, receiverVars>>
      /\ UNCHANGED <<table, calls, doing, next, count, weights>> /\ received' = received
      /\ UNCHANGED <<at, pos, version, buffers, staging>>
  BY <1>a DEF Acknowledge, trainerVars
<1>1. /\ pull' \in [Worker -> Pull] /\ buf' \in [0 .. (MaxCount - 1) -> [{"trainer"} \cup Worker -> Status]]
      /\ received' \in [Worker -> [0 .. 1 -> [Serving -> Piece]]]
  <2>1. pull \in [Worker -> Pull]  BY DEF Good, TypeOK
  <2>2. [pull[w] EXCEPT !.step = "acked"] \in Pull  BY <2>1 DEF Pull
  <2>3. pull' \in [Worker -> Pull]  BY <1>a, <2>1, <2>2, Zenon
  <2>4. [buf EXCEPT ![pull[w].group % buffers][w] = "ready"]
          \in [0 .. (MaxCount - 1) -> [{"trainer"} \cup Worker -> Status]]
    <3> DEFINE n == pull[w].group % buffers
               P == {"trainer"} \cup Worker
    <3>1. "ready" \in Status /\ n \in 0 .. (MaxCount - 1) /\ w \in P  BY <1>p DEF Status
    <3>2. buf \in [0 .. (MaxCount - 1) -> [P -> Status]]  BY <1>i
    <3> HIDE DEF n, P
    <3>3. [buf EXCEPT ![n][w] = "ready"] \in [0 .. (MaxCount - 1) -> [P -> Status]]
      BY <3>1, <3>2, Update2
    <3> QED  BY <3>3 DEF n, P
  <2> QED  BY <1>h, <1>u, <2>3, <2>4 DEF Good, TypeOK
<1>2. Shape(w)'
  <2>1. Shape(w)  BY <1>p DEF Follows
  <2>2. /\ pull'[w].step = "acked" /\ pull'[w].group = pull[w].group /\ pull'[w].unread = {}
        /\ doing' = doing /\ count' = count /\ next' = next /\ pull[w].step # "none"
    BY <1>b, <1>d, <1>f, <1>u
  <2>3. CASE doing[w] = "fetch"  BY <1>d, <2>1, <2>2, <2>3 DEF Shape, Transferring
  <2>4. CASE doing[w] = "replay"  BY <1>d, <2>1, <2>2, <2>4 DEF Shape, Transferring
  <2>5. CASE doing[w] = "acknowledge"  BY <1>d, <2>1, <2>2, <2>5 DEF Shape, Transferring
  <2> QED  BY <1>p, <2>3, <2>4, <2>5 DEF Transferring
<1>3. ASSUME w \in L PROVE Late(w, f)'
  <2>1. Late(w, f)  BY <1>3, <1>p DEF Follows
  <2> QED  BY <1>b, <1>d, <1>k, <1>p, <1>u, <2>1 DEF Late, Midway, Transferring
<1>4. ASSUME w \notin L PROVE Lockstep(w, f)'
  <2>1. Lockstep(w, f)  BY <1>4, <1>p DEF Follows
  <2>2. pull[w].group < Raised /\ InStep(w, f)  BY <1>d, <2>1 DEF Lockstep, Abreast
  <2>3. Abreast(w, f)'
    <3>1. InStep(w, f)'  BY <1>b, <1>k, <1>p, <1>u, <2>2 DEF InStep
    <3> QED  BY <1>b, <1>p, <1>u, <2>2, <3>1 DEF Abreast, Transferring, Midway, Raised
  <2>4. Acks(w, f)'
    <3> SUFFICES ASSUME NEW b \in 0 .. (MaxCount - 1)
                 PROVE  /\ (count[w] = 0 \/ b >= buffers) <=> buf'[b][w] = "none"
                        /\ b = pull[w].group % buffers => buf'[b][w] = "ready"
                        /\ buf'[b][w] = "ready" => b = pull[w].group % buffers
      BY <1>b, <1>u DEF Acks
    <3>1. CASE b = pull[w].group % buffers  BY <1>k, <1>p, <3>1
    <3>2. CASE b # pull[w].group % buffers
      <4>1. buf'[b][w] = buf[b][w]  BY <1>k, <3>2
      <4>2. buf[b][w] # "ready"
        BY <1>f, <1>p, <2>1, <3>2 DEF Lockstep, Acks, Opening, Transferring
      <4> QED  BY <2>1, <3>2, <4>1, <4>2 DEF Lockstep, Acks
    <3> QED  BY <3>1, <3>2
  <2>5. Filled(w)' /\ Held(w)'  BY <1>b, <1>f, <1>u, <2>1, FilledStays, HeldStays DEF Lockstep
  <2> QED  BY <2>3, <2>4, <2>5 DEF Lockstep
<1> QED  BY <1>b, <1>f, <1>k, <1>u, <1>1, <1>2, <1>3, <1>4, PullStep

-----------------------------------------------------------------------------
(* A call begins.  The first of an update finds nothing finished; whoever  *)
(* is called again after that is late.                                     *)
LEMMA JoinKeeps ==
  ASSUME NixlAssumption, NEW f \in 0 .. Groups, NEW L \in SUBSET Worker, Good(f, L),
         NEW w \in Worker, NEW M, M = (IF f > 0 THEN L \cup {w} ELSE L), Join(w)
  PROVE  Good(f, M)'
<1>0. /\ Master \in Rank /\ Master \in Serving /\ Serving \subseteq Rank
      /\ Groups \in Nat \ {0} /\ MaxVersion \in Nat /\ f \in Nat
  BY Basics
<1> USE <1>0
<1>u. /\ UNCHANGED <<trainerVars, offered, acked, receiverVars>>
      /\ UNCHANGED <<next, pull, received, weights>>
      /\ UNCHANGED <<at, pos, version, buffers, staging, posts>>
  BY DEF Join, trainerVars, receiverVars, postVars
<1>n. calls[w] \in Nat /\ posts[EngineOf(w)] \in Nat /\ MaxAttempts \in Nat /\ EngineOf(w) \in Engines
  BY Counters DEF Good
<1>a. /\ \A q \in Worker \ {w} :
           /\ doing'[q] = doing[q] /\ table'[q] = table[q] /\ calls'[q] = calls[q]
           /\ count'[q] = count[q]
      /\ doing'[w] = "await" /\ table'[w] = "initializing" /\ calls'[w] = calls[w] + 1
  <2>1. count' = count \/ \E n \in 0 .. 2 : count' = [count EXCEPT ![w] = n]
    <3>1. \A n : n \in 1 .. (IF buffers = 1 THEN 1 ELSE 2) => n \in 0 .. 2  OBVIOUS
    <3> QED  BY <3>1 DEF Join
  <2>2. \A q \in Worker \ {w} : count'[q] = count[q]
    <3>1. CASE count' = count  BY <3>1
    <3>2. CASE \E n \in 0 .. 2 : count' = [count EXCEPT ![w] = n]  BY <3>2 DEF Good, TypeOK
    <3> QED  BY <2>1, <3>1, <3>2
  <2> QED  BY <2>2 DEF Good, TypeOK, Join
<1>b. /\ doing[w] \in {"idle", "returned", "failed"} /\ calls[w] < posts[EngineOf(w)]
      /\ pull[w].step = "none" /\ Follows(w, f, L) /\ TablesOf(w)
      /\ calls'[w] <= posts[EngineOf(w)] /\ calls'[w] > 0
  <2>1. doing[w] \in {"idle", "returned", "failed"} /\ calls[w] < posts[EngineOf(w)]
    BY DEF Join, Called
  <2>2. pull[w].step = "none" /\ Follows(w, f, L) /\ TablesOf(w)
    BY <2>1 DEF Good, Tables, Follows, Shape, Transferring
  <2> QED  BY <1>a, <1>n, <2>1, <2>2
<1>z. calls[w] = 0 => doing[w] # "failed" /\ f = 0
  <2>1. calls[w] = 0 => doing[w] # "failed" /\ pos[Master] = 0  BY <1>b DEF TablesOf
  <2>2. pos[Master] = 0 => f = 0  BY DEF Good, MasterPhase, Raised
  <2> QED  BY <2>1, <2>2
<1>c. Published /\ buffers \in 1 .. MaxCount /\ count[w] \in 0 .. 2
  <2>1. count[w] \in 0 .. 2  BY DEF Good, TypeOK
  <2>2. Published
    <3>1. CASE count[w] = 0  BY <3>1 DEF Join
    <3>2. CASE count[w] > 0  BY <1>b, <3>2 DEF TablesOf
    <3> QED  BY <2>1, <3>1, <3>2
  <2>3. buffers # 0  BY <2>2 DEF Good, MasterPhase
  <2> QED  BY <2>1, <2>2, <2>3, Sizes DEF Good
<1>d. count'[w] \in 1 .. 2 /\ (count[w] # 0 => count' = count /\ buf' = buf)
  <2>1. CASE count[w] = 0
    <3>1. PICK n \in 1 .. (IF buffers = 1 THEN 1 ELSE 2) : count' = [count EXCEPT ![w] = n]
      BY <2>1 DEF Join
    <3> QED  BY <2>1, <3>1 DEF Good, TypeOK
  <2>2. CASE count[w] # 0  BY <1>c, <2>2 DEF Join
  <2> QED  BY <2>1, <2>2
<1>i. \A b \in 0 .. (MaxCount - 1) : buf[b] \in [{"trainer"} \cup Worker -> Status]
  BY DEF Good, TypeOK
<1>h. count[w] = 0 => buf' = [b \in 0 .. (MaxCount - 1) |->
                                IF b < buffers THEN [buf[b] EXCEPT ![w] = "initializing"] ELSE buf[b]]
  BY DEF Good, TypeOK, Join
<1>j. \A b \in 0 .. (MaxCount - 1), p \in {"trainer"} \cup Worker :
        buf'[b][p] = IF p = w /\ b < buffers /\ count[w] = 0 THEN "initializing" ELSE buf[b][p]
  <2>1. CASE count[w] = 0  BY <1>h, <1>i, <2>1
  <2>2. CASE count[w] # 0  BY <1>d, <2>2
  <2> QED  BY <2>1, <2>2
<1>k. \A b \in 0 .. (MaxCount - 1) :
        buf'[b]["trainer"] = buf[b]["trainer"] /\ \A q \in Worker \ {w} : buf'[b][q] = buf[b][q]
  BY <1>j, Names
<1>t. table'["trainer"] = table["trainer"] /\ table'["orchestrator"] = table["orchestrator"]
  BY Names DEF Good, TypeOK, Join
<1>1. TypeOK'
  <2>1. doing' \in [Worker -> Progress]  BY DEF Good, TypeOK, Join, Progress
  <2>2. table' \in [{"trainer", "orchestrator"} \cup Worker -> Status]
    BY DEF Good, TypeOK, Join, Status
  <2>3. count' \in [Worker -> 0 .. 2]
    <3>1. CASE count[w] = 0
      <4>1. PICK n \in 1 .. (IF buffers = 1 THEN 1 ELSE 2) : count' = [count EXCEPT ![w] = n]
        BY <3>1 DEF Join
      <4>2. n \in 0 .. 2  BY <4>1
      <4> QED  BY <4>1, <4>2 DEF Good, TypeOK
    <3>2. CASE count[w] # 0  BY <1>d, <3>2 DEF Good, TypeOK
    <3> QED  BY <3>1, <3>2
  <2>4. buf' \in [0 .. (MaxCount - 1) -> [{"trainer"} \cup Worker -> Status]]
    <3>1. CASE count[w] = 0
      <4>1. \A b \in 0 .. (MaxCount - 1) :
              [buf[b] EXCEPT ![w] = "initializing"] \in [{"trainer"} \cup Worker -> Status]
        BY <1>i DEF Status
      <4>2. \A b \in 0 .. (MaxCount - 1) :
              (IF b < buffers THEN [buf[b] EXCEPT ![w] = "initializing"] ELSE buf[b])
                \in [{"trainer"} \cup Worker -> Status]
        BY <1>i, <4>1
      <4> DEFINE B == 0 .. (MaxCount - 1)
                 Row(b) == IF b < buffers THEN [buf[b] EXCEPT ![w] = "initializing"] ELSE buf[b]
      <4>3. buf' = [b \in B |-> Row(b)]  BY <3>1, <1>h
      <4>4. \A b \in B : Row(b) \in [{"trainer"} \cup Worker -> Status]  BY <4>2
      <4> HIDE DEF B, Row
      <4>5. buf' \in [B -> [{"trainer"} \cup Worker -> Status]]  BY <4>3, <4>4
      <4> QED  BY <4>5 DEF B
    <3>2. CASE count[w] # 0  BY <1>d, <3>2 DEF Good, TypeOK
    <3> QED  BY <3>1, <3>2
  <2>5. calls' \in [Worker -> 0 .. MaxAttempts]
    <3>1. posts[EngineOf(w)] \in 0 .. MaxAttempts  BY <1>n DEF Good, TypeOK
    <3>2. calls[w] + 1 \in 0 .. MaxAttempts  BY <1>n, <1>b, <3>1
    <3> QED  BY <3>2 DEF Good, TypeOK, Join
  <2>6. /\ TypeOK /\ next' \in [Worker -> 0 .. Groups] /\ pull' \in [Worker -> Pull]
        /\ received' \in [Worker -> [0 .. 1 -> [Serving -> Piece]]]
        /\ weights' \in [Worker -> [Group -> [Serving -> Piece]]]
    BY <1>u DEF Good, TypeOK
  <2> QED  BY <1>u, <2>1, <2>2, <2>3, <2>4, <2>5, <2>6, WorkerTyped
<1>2. TablesOf(w)'
  BY <1>a, <1>b, <1>c, <1>d, <1>t, <1>u DEF TablesOf, Active, Published
<1>3. Shape(w)' /\ ~Transferring(w)' /\ ~Midway(w)' /\ doing'[w] = "await" /\ pull'[w].step = "none"
  BY <1>a, <1>b, <1>u DEF Shape, Transferring, Midway
<1>4. ASSUME w \in M PROVE Late(w, f)'
  <2>1. calls'[w] > 1 /\ f > 0
    <3>1. CASE w \in L
      <4>1. calls[w] > 1 /\ f > 0  BY <1>b, <3>1 DEF Follows, Late
      <4> QED  BY <1>a, <1>n, <4>1
    <3>2. CASE w \notin L
      <4>1. f > 0  BY <1>4, <3>2
      <4> QED  BY <1>a, <1>n, <1>z, <4>1
    <3> QED  BY <3>1, <3>2
  <2> QED  BY <1>3, <2>1 DEF Late
<1>5. ASSUME w \notin M PROVE Lockstep(w, f)'
  <2>1. f = 0 /\ Lockstep(w, f)  BY <1>5, <1>b DEF Follows
  <2>2. Abreast(w, f)'  BY <1>3, <2>1 DEF Abreast
  <2>3. Acks(w, f)'
    <3> SUFFICES ASSUME NEW b \in 0 .. (MaxCount - 1)
                 PROVE  /\ (count'[w] = 0 \/ b >= buffers) <=> buf'[b][w] = "none"
                        /\ buf'[b][w] = "ready" => b = 0 /\ calls'[w] > 1
      BY <1>3, <1>u DEF Acks, Opening
    <3>1. /\ (count[w] = 0 \/ b >= buffers) <=> buf[b][w] = "none"
          /\ buf[b][w] = "ready" => b = 0 /\ doing[w] = "failed"
      BY <1>b, <2>1 DEF Lockstep, Acks, Opening
    <3>2. buf'[b][w] = IF b < buffers /\ count[w] = 0 THEN "initializing" ELSE buf[b][w]  BY <1>j
    <3>3. doing[w] = "failed" => calls'[w] > 1  BY <1>a, <1>n, <1>z
    <3>4. count'[w] # 0 /\ (b < buffers <=> ~(b >= buffers))  BY <1>c, <1>d
    <3> QED  BY <3>1, <3>2, <3>3, <3>4
  <2>4. Filled(w)' /\ Held(w)'  BY <1>3, Zenon DEF Filled, Held
  <2> QED  BY <2>2, <2>3, <2>4 DEF Lockstep
<1>6. \A g \in Group : ~Loaded(w, g)'  BY <1>3 DEF Loaded, Transferring
<1>7. Follows(w, f, M)' /\ Active(w)'  BY <1>3, <1>4, <1>5 DEF Follows, Active
<1>8. ~Idle(w) /\ M \in SUBSET Worker /\ L \subseteq M /\ M \subseteq L \cup {w}
  BY <1>b, <1>n DEF Idle
<1>9. \A q \in Worker \ {w} :
        /\ next'[q] = next[q] /\ pull'[q] = pull[q] /\ received'[q] = received[q]
        /\ weights'[q] = weights[q]
  BY <1>u
<1> QED  BY <1>a, <1>b, <1>k, <1>t, <1>u, <1>1, <1>2, <1>6, <1>7, <1>8, <1>9, WorkerStep

(* The first pull of a call waits for group 0.                             *)
LEMMA StartKeeps ==
  ASSUME NixlAssumption, NEW f \in 0 .. Groups, NEW L \in SUBSET Worker, Good(f, L),
         NEW w \in Worker, Start(w)
  PROVE  Good(f, L)'
<1>0. /\ Master \in Rank /\ Master \in Serving /\ Serving \subseteq Rank
      /\ Groups \in Nat \ {0} /\ MaxVersion \in Nat /\ f \in Nat
  BY Basics
<1> USE <1>0
<1>a. /\ next' = [next EXCEPT ![w] = 0] /\ pull' = [pull EXCEPT ![w] = Wanted(0)]
      /\ doing' = [doing EXCEPT ![w] = "fetch"] /\ doing[w] = "await"
  BY DEF Start
<1>b. /\ next'[w] = 0 /\ pull'[w] = Wanted(0) /\ doing'[w] = "fetch"
      /\ \A q \in Worker \ {w} : next'[q] = next[q] /\ pull'[q] = pull[q] /\ doing'[q] = doing[q]
  BY <1>a DEF Good, TypeOK
<1>c. pull[w].step = "none" /\ Follows(w, f, L) /\ TablesOf(w)
  BY <1>a DEF Good, Tables, Follows, Shape, Transferring
<1>d. /\ Wanted(0).step = "wanted" /\ Wanted(0).group = 0 /\ Wanted(0).unread = Serving
      /\ Wanted(0) \in Pull
  BY DEF Wanted, Pull, Group
<1>u. /\ UNCHANGED <<trainerVars, offered, acked, receiverVars>>
      /\ UNCHANGED <<table, buf, calls, count, received, weights>>
      /\ UNCHANGED <<at, pos, version, buffers, staging, posts>>
  BY DEF Start, trainerVars, receiverVars, postVars
<1>1. TypeOK'
  <2>1. doing' \in [Worker -> Progress]  BY <1>a DEF Good, TypeOK, Progress
  <2>2. next' \in [Worker -> 0 .. Groups]  BY <1>a DEF Good, TypeOK
  <2>3. pull' \in [Worker -> Pull]  BY <1>a, <1>d DEF Good, TypeOK
  <2>4. /\ TypeOK /\ calls' \in [Worker -> 0 .. MaxAttempts] /\ count' \in [Worker -> 0 .. 2]
        /\ table' \in [{"trainer", "orchestrator"} \cup Worker -> Status]
        /\ buf' \in [0 .. (MaxCount - 1) -> [{"trainer"} \cup Worker -> Status]]
        /\ received' \in [Worker -> [0 .. 1 -> [Serving -> Piece]]]
        /\ weights' \in [Worker -> [Group -> [Serving -> Piece]]]
    BY <1>u DEF Good, TypeOK
  <2> QED  BY <1>u, <2>1, <2>2, <2>3, <2>4, WorkerTyped
<1>2. TablesOf(w)'
  BY <1>a, <1>b, <1>c, <1>u DEF TablesOf, Active, Published
<1>3. Shape(w)'  BY <1>b, <1>d DEF Shape, Transferring
<1>4. ASSUME w \in L PROVE Late(w, f)'
  <2>1. Late(w, f)  BY <1>4, <1>c DEF Follows
  <2> QED  BY <1>b, <1>d, <1>u, <2>1 DEF Late, Transferring, Midway
<1>5. ASSUME w \notin L PROVE Lockstep(w, f)'
  <2>1. Lockstep(w, f)  BY <1>5, <1>c DEF Follows
  <2>2. f = 0  BY <1>a, <2>1 DEF Lockstep, Abreast
  <2>3. Abreast(w, f)'  BY <1>b, <1>d, <2>2 DEF Abreast, Transferring, Midway
  <2>4. Acks(w, f)'  BY <1>a, <1>b, <1>c, <1>d, <1>u, <2>1 DEF Lockstep, Acks, Opening
  <2>5. Filled(w)' /\ Held(w)'  BY <1>b, <1>d, Zenon DEF Filled, Held
  <2> QED  BY <2>3, <2>4, <2>5 DEF Lockstep
<1>6. \A g \in Group : ~Loaded(w, g)'
  <2>1. \A g \in Group : ~(g < 0)  BY DEF Group
  <2> QED  BY <1>b, <2>1 DEF Loaded, Transferring
<1>7. Follows(w, f, L)'  BY <1>3, <1>4, <1>5 DEF Follows
<1>8. ~Idle(w) /\ calls[w] <= posts[EngineOf(w)] /\ calls[w] > 0
  BY <1>a DEF Good, Posts, Active, Idle
<1>9. \A q \in Worker \ {w} :
        /\ next'[q] = next[q] /\ pull'[q] = pull[q] /\ received'[q] = received[q]
        /\ weights'[q] = weights[q] /\ calls'[q] = calls[q] /\ doing'[q] = doing[q]
        /\ count'[q] = count[q] /\ table'[q] = table[q]
  BY <1>b, <1>u
<1> QED  BY <1>u, <1>1, <1>2, <1>6, <1>7, <1>8, <1>9, WorkerStep

(* All groups are replayed.                                                *)
LEMMA ReturnKeeps ==
  ASSUME NixlAssumption, NEW f \in 0 .. Groups, NEW L \in SUBSET Worker, Good(f, L),
         NEW w \in Worker, Return(w)
  PROVE  Good(f, L)'
<1>0. /\ Master \in Rank /\ Master \in Serving /\ Serving \subseteq Rank
      /\ Groups \in Nat \ {0} /\ MaxVersion \in Nat /\ f \in Nat
  BY Basics
<1> USE <1>0
<1>a. doing[w] = "fetch" /\ next[w] = Groups /\ pull[w].step = "none" /\ Follows(w, f, L) /\ TablesOf(w)
  <2>1. doing[w] = "fetch" /\ next[w] = Groups  BY DEF Return, Replayed
  <2>2. Follows(w, f, L) /\ TablesOf(w)  BY DEF Good, Tables
  <2>3. pull[w].group # Groups
    <3>1. pull[w].group \in Group  BY DEF Good, TypeOK, Pull
    <3> QED  BY <3>1 DEF Group
  <2> QED  BY <2>1, <2>2, <2>3 DEF Follows, Shape
<1>b. doing'[w] = "returned" /\ \A q \in Worker \ {w} : doing'[q] = doing[q]
  BY DEF Good, TypeOK, Return
<1>c. table'[w] = "ready" /\ \A q \in Worker \ {w} : table'[q] = table[q]
  BY DEF Good, TypeOK, Return
<1>t. table'["trainer"] = table["trainer"] /\ table'["orchestrator"] = table["orchestrator"]
  BY Names DEF Good, TypeOK, Return
<1>u. /\ UNCHANGED <<trainerVars, offered, acked, receiverVars>>
      /\ UNCHANGED <<buf, calls, next, count, pull, received, weights>>
      /\ UNCHANGED <<at, pos, version, buffers, staging, posts>>
  BY DEF Return, trainerVars, receiverVars, postVars
<1>d. ~Idle(w) /\ calls[w] <= posts[EngineOf(w)] /\ calls[w] > 0
  BY <1>a DEF Good, Posts, Active, Idle
<1>m. receiver \in {"update", "failed"} /\ acked = version  BY <1>d, BusyFacts
<1>1. TypeOK'
  <2>1. doing' \in [Worker -> Progress]  BY DEF Good, TypeOK, Return, Progress
  <2>2. table' \in [{"trainer", "orchestrator"} \cup Worker -> Status]
    BY DEF Good, TypeOK, Return, Status
  <2>3. /\ TypeOK /\ calls' \in [Worker -> 0 .. MaxAttempts] /\ count' \in [Worker -> 0 .. 2]
        /\ next' \in [Worker -> 0 .. Groups] /\ pull' \in [Worker -> Pull]
        /\ buf' \in [0 .. (MaxCount - 1) -> [{"trainer"} \cup Worker -> Status]]
        /\ received' \in [Worker -> [0 .. 1 -> [Serving -> Piece]]]
        /\ weights' \in [Worker -> [Group -> [Serving -> Piece]]]
    BY <1>u DEF Good, TypeOK
  <2> QED  BY <1>u, <2>1, <2>2, <2>3, WorkerTyped
<1>2. TablesOf(w)'
  BY <1>a, <1>b, <1>c, <1>d, <1>t, <1>u DEF TablesOf, Active, Published
<1>3. w \notin L /\ Lockstep(w, f)  BY <1>a DEF Follows, Late, Transferring
<1>4. Follows(w, f, L)'
  <2>1. Shape(w)' /\ Abreast(w, f)'
    BY <1>a, <1>b, <1>u DEF Shape, Abreast, Transferring, Midway
  <2>2. Acks(w, f)'  BY <1>a, <1>b, <1>u, <1>3 DEF Lockstep, Acks, Opening
  <2>3. Filled(w)' /\ Held(w)'  BY <1>a, <1>b, <1>u, Zenon DEF Filled, Held
  <2> QED  BY <1>3, <2>1, <2>2, <2>3 DEF Follows, Lockstep
<1>5. \A g \in Group : Holds(w, g, acked)'
  <2> TAKE g \in Group
  <2>1. g < Groups  BY DEF Group
  <2>2. Loaded(w, g)  BY <1>a, <2>1 DEF Loaded, Transferring
  <2>3. Holds(w, g, acked)  BY <1>m, <1>3, <2>2 DEF Good, Loads
  <2> QED  BY <1>u, <2>3 DEF Holds
<1>6. ~Active(w)'  BY <1>b DEF Active
<1>7. \A q \in Worker \ {w} :
        /\ next'[q] = next[q] /\ pull'[q] = pull[q] /\ received'[q] = received[q]
        /\ weights'[q] = weights[q] /\ calls'[q] = calls[q] /\ count'[q] = count[q]
  BY <1>u
<1> QED  BY <1>b, <1>c, <1>d, <1>t, <1>u, <1>1, <1>2, <1>4, <1>5, <1>6, <1>7, WorkerStep

(* A call that fails leaves its buffers' statuses behind.                  *)
LEMMA WorkerRaisesKeeps ==
  ASSUME NixlAssumption, NEW f \in 0 .. Groups, NEW L \in SUBSET Worker, Good(f, L),
         NEW w \in Worker, WorkerRaises(w)
  PROVE  Good(f, L)'
<1>0. /\ Master \in Rank /\ Master \in Serving /\ Serving \subseteq Rank
      /\ Groups \in Nat \ {0} /\ MaxVersion \in Nat /\ f \in Nat
  BY Basics
<1> USE <1>0
<1>n. calls[w] \in Nat /\ posts[EngineOf(w)] \in Nat /\ MaxAttempts \in Nat /\ EngineOf(w) \in Engines
  BY Counters DEF Good
<1>u. /\ UNCHANGED <<trainerVars, offered, acked, receiverVars>>
      /\ UNCHANGED <<table, buf, next, count, received, weights>>
      /\ UNCHANGED <<at, pos, version, buffers, staging, posts>>
  BY DEF WorkerRaises, trainerVars, receiverVars, postVars
<1>b. doing'[w] = "failed" /\ \A q \in Worker \ {w} : doing'[q] = doing[q]
  BY DEF Good, TypeOK, WorkerRaises
<1>c. pull'[w].step = "none" /\ \A q \in Worker \ {w} : pull'[q] = pull[q]
  BY DEF Good, TypeOK, WorkerRaises, NoPull
<1>d. /\ ~Idle(w) /\ calls'[w] <= posts[EngineOf(w)] /\ calls'[w] > 0 /\ calls'[w] >= calls[w]
      /\ table[w] # "ready" /\ calls' \in [Worker -> 0 .. MaxAttempts]
      /\ \A q \in Worker \ {w} : calls'[q] = calls[q]
  <2>0. /\ calls \in [Worker -> 0 .. MaxAttempts] /\ posts[EngineOf(w)] \in 0 .. MaxAttempts
        /\ TablesOf(w)
    BY <1>n DEF Good, TypeOK, Tables
  <2>1. CASE Called(w) /\ count[w] = 0 /\ calls' = [calls EXCEPT ![w] = @ + 1]
    <3>1. calls[w] < posts[EngineOf(w)]  BY <2>1 DEF Called
    <3>2. calls[w] + 1 \in 0 .. MaxAttempts  BY <1>n, <2>0, <3>1
    <3>3. table[w] = "none"  BY <2>0, <2>1 DEF TablesOf
    <3>4. ~Idle(w)  BY <1>n, <3>1 DEF Idle
    <3> QED  BY <1>n, <2>0, <2>1, <3>1, <3>2, <3>3, <3>4
  <2>2. CASE doing[w] \in {"await", "fetch", "acknowledge"} /\ calls' = calls
    <3>1. Active(w) /\ ~Idle(w)  BY <2>2 DEF Active, Idle
    <3>2. calls[w] <= posts[EngineOf(w)] /\ calls[w] > 0  BY <3>1 DEF Good, Posts
    <3>3. table[w] = "initializing"  BY <2>0, <3>1 DEF TablesOf
    <3> QED  BY <1>n, <2>0, <2>2, <3>1, <3>2, <3>3
  <2> QED  BY <2>1, <2>2 DEF WorkerRaises
<1>e. Follows(w, f, L) /\ TablesOf(w)  BY DEF Good, Tables
<1>1. TypeOK'
  <2>1. doing' \in [Worker -> Progress]  BY DEF Good, TypeOK, WorkerRaises, Progress
  <2>2. NoPull \in Pull  BY DEF NoPull, Pull, Group
  <2>3. pull' \in [Worker -> Pull]  BY <2>2 DEF Good, TypeOK, WorkerRaises
  <2>4. /\ TypeOK /\ next' \in [Worker -> 0 .. Groups] /\ count' \in [Worker -> 0 .. 2]
        /\ table' \in [{"trainer", "orchestrator"} \cup Worker -> Status]
        /\ buf' \in [0 .. (MaxCount - 1) -> [{"trainer"} \cup Worker -> Status]]
        /\ received' \in [Worker -> [0 .. 1 -> [Serving -> Piece]]]
        /\ weights' \in [Worker -> [Group -> [Serving -> Piece]]]
    BY <1>u DEF Good, TypeOK
  <2> QED  BY <1>d, <1>u, <2>1, <2>3, <2>4, WorkerTyped
<1>2. TablesOf(w)'
  BY <1>b, <1>d, <1>e, <1>u DEF TablesOf, Active, Published
<1>3. Shape(w)' /\ ~Transferring(w)' /\ ~Midway(w)'
  BY <1>b, <1>c DEF Shape, Transferring, Midway
<1>4. ASSUME w \in L PROVE Late(w, f)'
  <2>1. calls[w] > 1 /\ f > 0  BY <1>4, <1>e DEF Follows, Late
  <2>2. calls'[w] > 1
    <3>1. calls'[w] \in Nat  BY <1>d, <1>n
    <3> QED  BY <1>d, <1>n, <2>1, <3>1
  <2> QED  BY <1>b, <1>c, <1>3, <2>1, <2>2 DEF Late
<1>5. ASSUME w \notin L PROVE Lockstep(w, f)'
  <2>1. Lockstep(w, f)  BY <1>5, <1>e DEF Follows
  <2>2. Abreast(w, f)'  BY <1>b, <1>c, <1>3 DEF Abreast
  <2>3. Acks(w, f)'
    <3>1. pull[w].step = "acked" /\ f = 0 => pull[w].group % buffers = 0
      <4>1. ASSUME pull[w].step = "acked", f = 0 PROVE pull[w].group % buffers = 0
        <5>1. InStep(w, f) /\ pull[w].group \in Nat /\ buffers \in Nat \ {0}
          BY <2>1, <4>1, PullFacts DEF Lockstep, Abreast, Midway
        <5>2. pull[w].group = 0  BY <4>1, <5>1 DEF InStep
        <5> QED  BY <5>1, <5>2, ModSmall
      <4> QED  BY <4>1
    <3> QED  BY <1>b, <1>c, <1>u, <2>1, <3>1 DEF Lockstep, Acks
  <2>4. Filled(w)' /\ Held(w)'  BY <1>b, <1>c, Zenon DEF Filled, Held
  <2> QED  BY <2>2, <2>3, <2>4 DEF Lockstep
<1>6. \A g \in Group : ~Loaded(w, g)'  BY <1>b DEF Loaded, Transferring
<1>7. Follows(w, f, L)' /\ ~Active(w)'  BY <1>b, <1>3, <1>4, <1>5 DEF Follows, Active
<1>8. \A q \in Worker \ {w} :
        /\ next'[q] = next[q] /\ received'[q] = received[q]
        /\ weights'[q] = weights[q] /\ count'[q] = count[q] /\ table'[q] = table[q]
  BY <1>u
<1> QED  BY <1>b, <1>c, <1>d, <1>u, <1>1, <1>2, <1>6, <1>7, <1>8, WorkerStep


(* Its buffer is INITIALIZING: the group was finished.                     *)
LEMMA SeeFinishKeeps ==
  ASSUME NixlAssumption, NEW f \in 0 .. Groups, NEW L \in SUBSET Worker, Good(f, L),
         NEW w \in Worker, SeeFinish(w)
  PROVE  Good(f, L)'
<1>0. /\ Master \in Rank /\ Master \in Serving /\ Serving \subseteq Rank
      /\ Groups \in Nat \ {0} /\ MaxVersion \in Nat /\ f \in Nat
  BY Basics
<1> USE <1>0
<1>a. pull[w].step = "acked" /\ buf[pull[w].group % buffers]["trainer"] = "initializing"
  <2>1. pull[w].step = "acked"  BY DEF SeeFinish
  <2> QED  BY <2>1, PullFacts DEF SeeFinish
<1>b. /\ count[w] \in {1, 2} /\ pull[w].group % buffers \in 0 .. (MaxCount - 1)
      /\ pull[w].group % buffers < buffers /\ pull[w].group \in Group /\ pull[w].group \in Nat
      /\ next[w] \in Nat /\ Transferring(w) /\ pull[w].unread = {} /\ Follows(w, f, L) /\ TablesOf(w)
      /\ pull[w].group < Groups
  <2>1. Follows(w, f, L) /\ TablesOf(w)  BY DEF Good, Tables
  <2>2. pull[w].unread = {}  BY <1>a, <2>1 DEF Follows, Shape
  <2>3. \A g \in Group : g < Groups  BY DEF Group
  <2> QED  BY <1>a, <2>1, <2>2, <2>3, PullFacts
<1>c. /\ w \notin L => f = pull[w].group + 1
      /\ w \in L => f > pull[w].group + 1
  <2>1. ASSUME w \notin L, f # pull[w].group + 1 PROVE FALSE
    <3>1. f = pull[w].group /\ pull[w].group < Raised
      BY <1>a, <1>b, <2>1 DEF Follows, Lockstep, Abreast, Midway, InStep
    <3>2. pull[w].group \in Window(f)  BY <1>b, <3>1, Sizes DEF Window, Good
    <3>3. Published  BY <1>b DEF TablesOf, Transferring, Active
    <3>4. ~(pull[w].group % buffers >= buffers)
      <4>1. pull[w].group % buffers \in Int /\ buffers \in Int  BY <1>a, <1>b, PullFacts
      <4> QED  BY <1>b, <4>1
    <3>5. buf[pull[w].group % buffers]["trainer"] = "ready"
      <4>1. Statuses(f)  BY DEF Good
      <4>2. \E g \in Window(f) : g % buffers = pull[w].group % buffers  BY <3>2
      <4> QED  BY <1>b, <3>3, <3>4, <4>1, <4>2 DEF Statuses
    <3> QED  BY <1>a, <3>5
  <2>2. w \in L => f > pull[w].group + 1  BY <1>a, <1>b DEF Follows, Late, Midway
  <2> QED  BY <2>1, <2>2
<1>d. /\ count[w] = 1 => doing[w] = "acknowledge" /\ next[w] = pull[w].group
      /\ doing[w] = "acknowledge" => count[w] = 1
      /\ doing[w] = "fetch" => pull[w].group = next[w]
      /\ doing[w] = "replay" => pull[w].group = next[w] + 1
  BY <1>a, <1>b DEF Follows, Shape, Transferring
<1>e. /\ doing'[w] = IF count[w] = 1 THEN "fetch" ELSE doing[w]
      /\ next'[w] = IF count[w] = 1 THEN next[w] + 1 ELSE next[w]
      /\ \A q \in Worker \ {w} : doing'[q] = doing[q] /\ next'[q] = next[q]
  <2>1. CASE count[w] = 1  BY <2>1 DEF Good, TypeOK, SeeFinish, Pipelined, Advance
  <2>2. CASE count[w] = 2  BY <2>2 DEF Good, TypeOK, SeeFinish, Pipelined
  <2> QED  BY <1>b, <2>1, <2>2
<1>g. /\ count[w] = 2 => /\ pull' = [pull EXCEPT ![w].step = "done"]
                         /\ pull'[w].step = "done" /\ pull'[w].group = pull[w].group
                         /\ pull'[w].unread = {}
      /\ count[w] = 1 => /\ pull' = [pull EXCEPT ![w] = IF next[w] + 1 < Groups
                                                        THEN Wanted(next[w] + 1) ELSE NoPull]
                         /\ next[w] + 1 < Groups => pull'[w] = Wanted(next[w] + 1)
                         /\ ~(next[w] + 1 < Groups) => pull'[w] = NoPull
      /\ \A q \in Worker \ {w} : pull'[q] = pull[q]
  <2>1. CASE count[w] = 1  BY <2>1 DEF Good, TypeOK, SeeFinish, Pipelined
  <2>2. CASE count[w] = 2
    <3>1. pull' = [pull EXCEPT ![w].step = "done"]  BY <2>2 DEF SeeFinish, Pipelined
    <3> QED  BY <1>b, <2>2, <3>1 DEF Good, TypeOK, Pull
  <2> QED  BY <1>b, <2>1, <2>2
<1>f. /\ Wanted(next[w] + 1).step = "wanted" /\ Wanted(next[w] + 1).group = next[w] + 1
      /\ Wanted(next[w] + 1).unread = Serving /\ NoPull.step = "none"
      /\ next[w] + 1 < Groups => Wanted(next[w] + 1) \in Pull
      /\ NoPull \in Pull
  BY <1>b DEF Wanted, NoPull, Pull, Group
<1>h. buf' = [buf EXCEPT ![pull[w].group % buffers][w] = "initializing"]
  BY <1>a, PullFacts DEF SeeFinish
<1>i. buf \in [0 .. (MaxCount - 1) -> [{"trainer"} \cup Worker -> Status]]  BY DEF Good, TypeOK
<1>j. \A b \in 0 .. (MaxCount - 1), p \in {"trainer"} \cup Worker :
        buf'[b][p] = IF b = pull[w].group % buffers /\ p = w THEN "initializing" ELSE buf[b][p]
  BY <1>b, <1>h, <1>i
<1>k. \A b \in 0 .. (MaxCount - 1) :
        buf'[b]["trainer"] = buf[b]["trainer"] /\ \A q \in Worker \ {w} : buf'[b][q] = buf[b][q]
  BY <1>j, Names
<1>l. next[w] + 1 < Groups \/ next[w] + 1 = Groups \/ count[w] = 2  BY <1>b, <1>d
<1>u. /\ UNCHANGED <<trainerVars, offered, acked, receiverVars>>
      /\ UNCHANGED <<table, calls, count, received, weights>>
      /\ UNCHANGED <<at, pos, version, buffers, staging, posts>>
  BY DEF SeeFinish, trainerVars, receiverVars, postVars
<1>m. /\ ~Idle(w) /\ receiver \in {"update", "failed"}
      /\ calls[w] <= posts[EngineOf(w)] /\ (Active(w) => calls[w] > 0)
  <2>1. ~Idle(w)  BY <1>b DEF Idle, Transferring
  <2> QED  BY <2>1, BusyFacts DEF Good, Posts
<1>1. TypeOK'
  <2>1. pull' \in [Worker -> Pull]
    <3>1. pull \in [Worker -> Pull] /\ pull[w] \in Pull  BY DEF Good, TypeOK
    <3>2. [pull[w] EXCEPT !.step = "done"] \in Pull  BY <3>1 DEF Pull
    <3>3. CASE count[w] = 2  BY <1>g, <3>1, <3>2, <3>3
    <3>4. CASE count[w] = 1  BY <1>f, <1>g, <3>1, <3>4
    <3> QED  BY <1>b, <3>3, <3>4
  <2>2. buf' \in [0 .. (MaxCount - 1) -> [{"trainer"} \cup Worker -> Status]]
    <3>1. "initializing" \in Status  BY DEF Status
    <3> QED  BY <1>b, <1>h, <1>i, <3>1, Update2
  <2>3. doing' \in [Worker -> Progress] /\ next' \in [Worker -> 0 .. Groups]
    <3>1. CASE count[w] = 2  BY <3>1 DEF Good, TypeOK, SeeFinish, Pipelined
    <3>2. CASE count[w] = 1
      <4>1. doing' = [doing EXCEPT ![w] = "fetch"] /\ next' = [next EXCEPT ![w] = next[w] + 1]
        BY <3>2 DEF SeeFinish, Pipelined, Advance
      <4>2. next[w] + 1 \in 0 .. Groups  BY <1>b, <1>d, <3>2
      <4>3. "fetch" \in Progress  BY DEF Progress
      <4> QED  BY <4>1, <4>2, <4>3 DEF Good, TypeOK
    <3> QED  BY <1>b, <3>1, <3>2
  <2>4. /\ TypeOK /\ calls' \in [Worker -> 0 .. MaxAttempts] /\ count' \in [Worker -> 0 .. 2]
        /\ table' \in [{"trainer", "orchestrator"} \cup Worker -> Status]
        /\ received' \in [Worker -> [0 .. 1 -> [Serving -> Piece]]]
        /\ weights' \in [Worker -> [Group -> [Serving -> Piece]]]
    BY <1>u DEF Good, TypeOK
  <2> QED  BY <1>u, <2>1, <2>2, <2>3, <2>4, WorkerTyped
<1>2. TablesOf(w)' /\ Active(w)' = Active(w)
  <2>1. /\ doing[w] \in {"fetch", "replay", "acknowledge"} /\ doing'[w] \in {"fetch", "replay"}
    BY <1>b, <1>d, <1>e DEF Transferring
  <2> QED  BY <1>b, <1>u, <2>1 DEF TablesOf, Active, Published
<1>3. Shape(w)' /\ Transferring(w)' /\ ~Midway(w)' /\ pull'[w].step # "acked"
  <2>1. CASE count[w] = 1
    BY <1>b, <1>d, <1>e, <1>f, <1>g, <1>l, <1>u, <2>1 DEF Shape, Transferring, Midway
  <2>2. CASE count[w] = 2
    BY <1>a, <1>b, <1>d, <1>e, <1>g, <1>u, <2>2 DEF Shape, Transferring, Midway
  <2> QED  BY <1>b, <2>1, <2>2
<1>4. ASSUME w \in L PROVE Late(w, f)'
  <2>1. f > pull[w].group + 1 /\ calls[w] > 1 /\ f > 0  BY <1>4, <1>b, <1>c DEF Follows, Late
  <2>2. pull'[w].step # "none" /\ pull'[w].group < f /\ pull'[w].step # "reading"
        /\ (pull'[w].step = "done" /\ count'[w] = 2 => f > pull'[w].group + 1)
    <3>1. CASE count[w] = 1
      <4>1. next[w] + 1 < Groups  BY <1>b, <1>d, <2>1, <3>1
      <4> QED  BY <1>b, <1>d, <1>f, <1>g, <2>1, <3>1, <4>1
    <3>2. CASE count[w] = 2  BY <1>b, <1>g, <2>1, <3>2
    <3> QED  BY <1>b, <3>1, <3>2
  <2> QED  BY <1>3, <1>u, <2>1, <2>2 DEF Late, Transferring
<1>5. ASSUME w \notin L PROVE Lockstep(w, f)'
  <2>1. Lockstep(w, f) /\ f = pull[w].group + 1  BY <1>5, <1>b, <1>c DEF Follows
  <2>2. Abreast(w, f)'
    <3>1. CASE count[w] = 1
      BY <1>3, <1>b, <1>d, <1>e, <1>f, <1>g, <1>l, <1>u, <2>1, <3>1 DEF Abreast, Transferring
    <3>2. CASE count[w] = 2
      BY <1>3, <1>b, <1>d, <1>e, <1>g, <1>u, <2>1, <3>2 DEF Abreast, Transferring
    <3> QED  BY <1>b, <3>1, <3>2
  <2>3. Acks(w, f)'
    <3> SUFFICES ASSUME NEW b \in 0 .. (MaxCount - 1)
                 PROVE  /\ (count'[w] = 0 \/ b >= buffers) <=> buf'[b][w] = "none"
                        /\ buf'[b][w] # "ready"
      BY <1>3, <1>u DEF Acks
    <3>1. /\ (count[w] = 0 \/ b >= buffers) <=> buf[b][w] = "none"
          /\ buf[b][w] = "ready" => b = pull[w].group % buffers
      BY <1>a, <1>b, <2>1 DEF Lockstep, Acks, Opening, Transferring
    <3>2. buf'[b][w] = IF b = pull[w].group % buffers THEN "initializing" ELSE buf[b][w]  BY <1>j
    <3>3. b = pull[w].group % buffers => ~(b >= buffers)
      <4>1. pull[w].group % buffers \in Int /\ buffers \in Int  BY <1>a, <1>b, PullFacts
      <4> QED  BY <1>b, <4>1
    <3> QED  BY <1>b, <1>u, <3>1, <3>2, <3>3
  <2>4. Filled(w)'
    <3>1. CASE count[w] = 2
      <4>1. pull[w].step # "none" /\ pull'[w].group = pull[w].group /\ pull'[w].unread = pull[w].unread
        BY <1>a, <1>b, <1>g, <3>1
      <4> QED  BY <1>u, <2>1, <4>1, FilledStays DEF Lockstep
    <3>2. CASE count[w] = 1
      <4>1. pull'[w].step = "none" \/ pull'[w].unread = Serving  BY <1>f, <1>g, <3>2
      <4> QED  BY <4>1, Zenon DEF Filled
    <3> QED  BY <1>b, <3>1, <3>2
  <2>5. Held(w)'
    <3>1. doing'[w] = "replay" => doing[w] = "replay" /\ next'[w] = next[w]  BY <1>b, <1>e
    <3> QED  BY <1>u, <2>1, <3>1, HeldStays DEF Lockstep
  <2> QED  BY <2>2, <2>3, <2>4, <2>5 DEF Lockstep
<1>6. ASSUME w \notin L, NEW g \in Group, Loaded(w, g)' PROVE Holds(w, g, acked)'
  <2>1. Loaded(w, g)
    <3>1. CASE count[w] = 2  BY <1>6, <1>b, <1>d, <1>e, <1>u, <3>1 DEF Loaded, Transferring
    <3>2. CASE count[w] = 1
      <4>1. g < next[w] + 1  BY <1>6, <1>e, <1>u, <3>2 DEF Loaded, Transferring
      <4>2. g < next[w] \/ g = next[w]  BY <1>b, <4>1 DEF Group
      <4> QED  BY <1>b, <1>d, <3>2, <4>2 DEF Loaded
    <3> QED  BY <1>b, <3>1, <3>2
  <2>2. Holds(w, g, acked)  BY <1>6, <1>m, <2>1 DEF Good, Loads
  <2> QED  BY <1>u, <2>2 DEF Holds
<1>7. Follows(w, f, L)'  BY <1>3, <1>4, <1>5 DEF Follows
<1>8. \A q \in Worker \ {w} :
        /\ calls'[q] = calls[q] /\ count'[q] = count[q] /\ received'[q] = received[q]
        /\ weights'[q] = weights[q] /\ table'[q] = table[q]
  BY <1>u
<1> QED  BY <1>e, <1>g, <1>k, <1>m, <1>u, <1>1, <1>2, <1>6, <1>7, <1>8, WorkerStep

(* The loop takes the group that is read, and asks for the next.           *)
LEMMA TakeKeeps ==
  ASSUME NixlAssumption, NEW f \in 0 .. Groups, NEW L \in SUBSET Worker, Good(f, L),
         NEW w \in Worker, Take(w)
  PROVE  Good(f, L)'
<1>0. /\ Master \in Rank /\ Master \in Serving /\ Serving \subseteq Rank
      /\ Groups \in Nat \ {0} /\ MaxVersion \in Nat /\ f \in Nat
  BY Basics
<1> USE <1>0
<1>a. pull[w].step = "done" /\ doing[w] = "fetch" /\ next[w] < Groups  BY DEF Take
<1>b. /\ count[w] \in {1, 2} /\ next[w] \in Nat /\ pull[w].group = next[w] /\ pull[w].unread = {}
      /\ Follows(w, f, L) /\ TablesOf(w)
  <2>1. Follows(w, f, L) /\ TablesOf(w)  BY DEF Good, Tables
  <2>2. count[w] \in {1, 2} /\ next[w] \in Nat  BY <1>a, PullFacts
  <2>3. pull[w].group = next[w] /\ pull[w].unread = {}  BY <1>a, <2>1 DEF Follows, Shape
  <2> QED  BY <2>1, <2>2, <2>3
<1>c. doing' = [doing EXCEPT ![w] = "replay"]  BY DEF Take
<1>d. doing'[w] = "replay" /\ \A q \in Worker \ {w} : doing'[q] = doing[q]
  BY <1>c DEF Good, TypeOK
<1>g. /\ count[w] = 1 => pull' = pull
      /\ count[w] = 2 => /\ pull' = [pull EXCEPT ![w] = IF next[w] + 1 < Groups
                                                        THEN Wanted(next[w] + 1) ELSE NoPull]
                         /\ next[w] + 1 < Groups => pull'[w] = Wanted(next[w] + 1)
                         /\ ~(next[w] + 1 < Groups) => pull'[w] = NoPull
      /\ \A q \in Worker \ {w} : pull'[q] = pull[q]
  <2>1. CASE count[w] = 1  BY <2>1 DEF Take, Pipelined
  <2>2. CASE count[w] = 2  BY <2>2 DEF Good, TypeOK, Take, Pipelined
  <2> QED  BY <1>b, <2>1, <2>2
<1>f. /\ Wanted(next[w] + 1).step = "wanted" /\ Wanted(next[w] + 1).group = next[w] + 1
      /\ Wanted(next[w] + 1).unread = Serving /\ NoPull.step = "none"
      /\ next[w] + 1 < Groups => Wanted(next[w] + 1) \in Pull
      /\ NoPull \in Pull
  BY <1>b DEF Wanted, NoPull, Pull, Group
<1>l. next[w] + 1 < Groups \/ next[w] + 1 = Groups  BY <1>a, <1>b
<1>u. /\ UNCHANGED <<trainerVars, offered, acked, receiverVars>>
      /\ UNCHANGED <<table, buf, calls, next, count, received, weights>>
      /\ UNCHANGED <<at, pos, version, buffers, staging, posts>>
  BY DEF Take, trainerVars, receiverVars, postVars
<1>m. /\ ~Idle(w) /\ receiver \in {"update", "failed"}
      /\ calls[w] <= posts[EngineOf(w)] /\ (Active(w) => calls[w] > 0)
  <2>1. ~Idle(w)  BY <1>a DEF Idle
  <2> QED  BY <2>1, BusyFacts DEF Good, Posts
<1>1. TypeOK'
  <2>1. doing' \in [Worker -> Progress]  BY <1>c DEF Good, TypeOK, Progress
  <2>2. pull' \in [Worker -> Pull]
    <3>1. pull \in [Worker -> Pull]  BY DEF Good, TypeOK
    <3>2. CASE count[w] = 1  BY <1>g, <3>1, <3>2
    <3>3. CASE count[w] = 2  BY <1>f, <1>g, <3>1, <3>3
    <3> QED  BY <1>b, <3>2, <3>3
  <2>3. /\ TypeOK /\ calls' \in [Worker -> 0 .. MaxAttempts] /\ count' \in [Worker -> 0 .. 2]
        /\ next' \in [Worker -> 0 .. Groups]
        /\ table' \in [{"trainer", "orchestrator"} \cup Worker -> Status]
        /\ buf' \in [0 .. (MaxCount - 1) -> [{"trainer"} \cup Worker -> Status]]
        /\ received' \in [Worker -> [0 .. 1 -> [Serving -> Piece]]]
        /\ weights' \in [Worker -> [Group -> [Serving -> Piece]]]
    BY <1>u DEF Good, TypeOK
  <2> QED  BY <1>u, <2>1, <2>2, <2>3, WorkerTyped
<1>2. TablesOf(w)' /\ Active(w)' = Active(w)
  BY <1>a, <1>b, <1>d, <1>u DEF TablesOf, Active, Published
<1>3. Shape(w)' /\ Transferring(w)'
  <2>1. CASE count[w] = 1  BY <1>a, <1>b, <1>d, <1>g, <1>u, <2>1 DEF Shape, Transferring
  <2>2. CASE count[w] = 2
    BY <1>a, <1>b, <1>d, <1>f, <1>g, <1>l, <1>u, <2>2 DEF Shape, Transferring
  <2> QED  BY <1>b, <2>1, <2>2
<1>4. ASSUME w \in L PROVE Late(w, f)'
  <2>1. Late(w, f)  BY <1>4, <1>b DEF Follows
  <2>2. CASE count[w] = 1
    BY <1>a, <1>d, <1>g, <1>u, <2>1, <2>2 DEF Late, Transferring, Midway
  <2>3. CASE count[w] = 2
    <3>1. f > next[w] + 1  BY <1>a, <1>b, <2>1, <2>3 DEF Late
    <3>2. pull'[w].step = "wanted" /\ pull'[w].group = next[w] + 1  BY <1>b, <1>f, <1>g, <2>3, <3>1
    <3> QED  BY <1>a, <1>b, <1>d, <1>u, <2>1, <3>1, <3>2 DEF Late, Transferring, Midway
  <2> QED  BY <1>b, <2>2, <2>3
<1>5. ASSUME w \notin L PROVE Lockstep(w, f)'
  <2>1. Lockstep(w, f)  BY <1>5, <1>b DEF Follows
  <2>2. Abreast(w, f)'
    <3>1. CASE count[w] = 1
      BY <1>a, <1>b, <1>d, <1>g, <1>u, <2>1, <3>1 DEF Lockstep, Abreast, Transferring, Midway, InStep,
        Raised
    <3>2. CASE count[w] = 2
      <4>1. f = next[w] + 1  BY <1>a, <1>b, <2>1, <3>2 DEF Lockstep, Abreast
      <4> QED  BY <1>d, <1>f, <1>g, <1>l, <1>u, <3>2, <4>1 DEF Abreast, Transferring, Midway
    <3> QED  BY <1>b, <3>1, <3>2
  <2>3. Acks(w, f)'
    <3>1. CASE count[w] = 1
      BY <1>a, <1>d, <1>g, <1>u, <2>1, <3>1 DEF Lockstep, Acks, Opening
    <3>2. CASE count[w] = 2
      <4>1. pull'[w].step # "acked"  BY <1>f, <1>g, <3>2
      <4>2. \A b \in 0 .. (MaxCount - 1) : buf[b][w] # "ready"
        BY <1>a, <2>1, <3>2 DEF Lockstep, Acks, Opening
      <4> QED  BY <1>u, <2>1, <4>1, <4>2 DEF Lockstep, Acks
    <3> QED  BY <1>b, <3>1, <3>2
  <2>4. Filled(w)'
    <3>1. CASE count[w] = 1
      <4>1. pull' = pull  BY <1>g, <3>1
      <4> QED  BY <1>a, <1>u, <2>1, <4>1, FilledStays DEF Lockstep
    <3>2. CASE count[w] = 2
      <4>1. pull'[w].step = "none" \/ pull'[w].unread = Serving  BY <1>f, <1>g, <3>2
      <4> QED  BY <4>1, Zenon DEF Filled
    <3> QED  BY <1>b, <3>1, <3>2
  <2>5. Held(w)'
    <3>1. pull[w].step # "none" /\ Serving \ pull[w].unread = Serving  BY <1>a, <1>b
    <3>2. \A q \in Serving \ pull[w].unread :
            received[w][pull[w].group % count[w]][q] = <<version, pull[w].group>>
      BY <2>1, <3>1, Zenon DEF Lockstep, Filled
    <3>3. \A q \in Serving : received[w][next[w] % count[w]][q] = <<version, next[w]>>
      BY <1>b, <3>1, <3>2, Zenon
    <3> QED  BY <1>u, <3>3, Zenon DEF Held
  <2> QED  BY <2>2, <2>3, <2>4, <2>5 DEF Lockstep
<1>6. ASSUME w \notin L, NEW g \in Group, Loaded(w, g)' PROVE Holds(w, g, acked)'
  <2>1. Loaded(w, g)  BY <1>6, <1>a, <1>d, <1>u DEF Loaded, Transferring
  <2>2. Holds(w, g, acked)  BY <1>6, <1>m, <2>1 DEF Good, Loads
  <2> QED  BY <1>u, <2>2 DEF Holds
<1>7. Follows(w, f, L)'  BY <1>3, <1>4, <1>5 DEF Follows
<1>8. \A q \in Worker \ {w} :
        /\ calls'[q] = calls[q] /\ next'[q] = next[q] /\ count'[q] = count[q]
        /\ received'[q] = received[q] /\ weights'[q] = weights[q] /\ table'[q] = table[q]
  BY <1>u
<1> QED  BY <1>d, <1>g, <1>m, <1>u, <1>1, <1>2, <1>6, <1>7, <1>8, WorkerStep

(* What is replayed in a first call is whole, and of the present version.  *)
LEMMA ReplayKeeps ==
  ASSUME NixlAssumption, NEW f \in 0 .. Groups, NEW L \in SUBSET Worker, Good(f, L),
         NEW w \in Worker, Replay(w)
  PROVE  Good(f, L)'
<1>0. /\ Master \in Rank /\ Master \in Serving /\ Serving \subseteq Rank
      /\ Groups \in Nat \ {0} /\ MaxVersion \in Nat /\ f \in Nat
  BY Basics
<1> USE <1>0
<1>a. /\ doing[w] = "replay" /\ count[w] \in {1, 2} /\ next[w] \in Group /\ next[w] \in Nat
      /\ next[w] < Groups /\ Follows(w, f, L) /\ TablesOf(w)
  <2>1. doing[w] = "replay" /\ Active(w)  BY DEF Replay, Active
  <2>2. Follows(w, f, L) /\ TablesOf(w)  BY DEF Good, Tables
  <2>3. count[w] \in {1, 2}
    <3>1. count[w] > 0 /\ count[w] \in 0 .. 2  BY <2>1, <2>2 DEF Good, TypeOK, TablesOf
    <3> QED  BY <3>1
  <2>4. next[w] \in 0 .. Groups /\ pull[w].group \in Group  BY DEF Good, TypeOK, Pull
  <2>5. next[w] < Groups
    <3>1. CASE count[w] = 1  BY <2>1, <2>2, <2>4, <3>1 DEF Follows, Shape, Group
    <3>2. CASE count[w] = 2
      <4>1. (pull[w].step = "none" /\ next[w] = Groups - 1) \/ pull[w].group = next[w] + 1
        BY <2>1, <2>2, <3>2 DEF Follows, Shape
      <4> QED  BY <2>4, <4>1 DEF Group
    <3> QED  BY <2>3, <3>1, <3>2
  <2> QED  BY <2>1, <2>2, <2>3, <2>4, <2>5 DEF Group
<1>b. /\ doing'[w] = IF count[w] = 1 THEN "acknowledge" ELSE "fetch"
      /\ next'[w] = IF count[w] = 1 THEN next[w] ELSE next[w] + 1
      /\ \A q \in Worker \ {w} : doing'[q] = doing[q] /\ next'[q] = next[q]
  <2>1. CASE count[w] = 1  BY <2>1 DEF Good, TypeOK, Replay, Pipelined
  <2>2. CASE count[w] = 2  BY <2>2 DEF Good, TypeOK, Replay, Pipelined, Advance
  <2> QED  BY <1>a, <2>1, <2>2
<1>c. next[w] % count[w] \in 0 .. 1
  <2>1. count[w] \in Nat \ {0}  BY <1>a
  <2>2. next[w] % count[w] \in 0 .. (count[w] - 1)  BY <1>a, <2>1, ModRange
  <2> QED  BY <1>a, <2>2
<1>d. weights' = [weights EXCEPT ![w][next[w]] = received[w][next[w] % count[w]]]  BY DEF Replay
<1>e. received[w][next[w] % count[w]] \in [Serving -> Piece]  BY <1>c DEF Good, TypeOK
<1>h. /\ weights' \in [Worker -> [Group -> [Serving -> Piece]]]
      /\ \A q \in Worker, g \in Group :
           weights'[q][g] = IF q = w /\ g = next[w] THEN received[w][next[w] % count[w]]
                            ELSE weights[q][g]
      /\ \A q \in Worker \ {w} : weights'[q] = weights[q]
  <2> DEFINE d0 == received[w][next[w] % count[w]]
             D == [Serving -> Piece]
  <2>1. d0 \in D /\ weights \in [Worker -> [Group -> D]]  BY <1>e DEF Good, TypeOK
  <2>2. weights' = [weights EXCEPT ![w][next[w]] = d0]  BY <1>d
  <2> HIDE DEF d0, D
  <2>3. /\ [weights EXCEPT ![w][next[w]] = d0] \in [Worker -> [Group -> D]]
        /\ \A q \in Worker, g \in Group :
             [weights EXCEPT ![w][next[w]] = d0][q][g] =
               IF q = w /\ g = next[w] THEN d0 ELSE weights[q][g]
    <3>1. w \in Worker /\ next[w] \in Group  BY <1>a
    <3> QED  BY <2>1, <3>1, Update2, SMTT(30)
  <2>4. \A q \in Worker \ {w} : [weights EXCEPT ![w][next[w]] = d0][q] = weights[q]  BY <2>1
  <2> QED  BY <2>2, <2>3, <2>4 DEF d0, D
<1>u. /\ UNCHANGED <<trainerVars, offered, acked, receiverVars>>
      /\ UNCHANGED <<table, buf, calls, count, pull, received>>
      /\ UNCHANGED <<at, pos, version, buffers, staging, posts>>
  BY DEF Replay, trainerVars, receiverVars, postVars
<1>m. /\ ~Idle(w) /\ receiver \in {"update", "failed"} /\ acked = version /\ acked \in Nat
      /\ calls[w] <= posts[EngineOf(w)] /\ (Active(w) => calls[w] > 0)
  <2>1. ~Idle(w)  BY <1>a DEF Idle
  <2> QED  BY <2>1, BusyFacts DEF Good, Posts
<1>1. TypeOK'
  <2>1. doing' \in [Worker -> Progress] /\ next' \in [Worker -> 0 .. Groups]
    <3>1. next[w] + 1 \in 0 .. Groups  BY <1>a
    <3>2. CASE count[w] = 2
      <4>1. doing' = [doing EXCEPT ![w] = "fetch"] /\ next' = [next EXCEPT ![w] = next[w] + 1]
        BY <3>2 DEF Replay, Pipelined, Advance
      <4> QED  BY <3>1, <4>1 DEF Good, TypeOK, Progress
    <3>3. CASE count[w] = 1
      <4>1. doing' = [doing EXCEPT ![w] = "acknowledge"] /\ next' = next
        BY <3>3 DEF Replay, Pipelined
      <4> QED  BY <4>1 DEF Good, TypeOK, Progress
    <3> QED  BY <1>a, <3>2, <3>3
  <2>2. /\ TypeOK /\ calls' \in [Worker -> 0 .. MaxAttempts] /\ count' \in [Worker -> 0 .. 2]
        /\ pull' \in [Worker -> Pull]
        /\ table' \in [{"trainer", "orchestrator"} \cup Worker -> Status]
        /\ buf' \in [0 .. (MaxCount - 1) -> [{"trainer"} \cup Worker -> Status]]
        /\ received' \in [Worker -> [0 .. 1 -> [Serving -> Piece]]]
    BY <1>u DEF Good, TypeOK
  <2> QED  BY <1>h, <1>u, <2>1, <2>2, WorkerTyped
<1>2. TablesOf(w)' /\ Active(w)' = Active(w)
  BY <1>a, <1>b, <1>u DEF TablesOf, Active, Published
<1>3. Shape(w)' /\ Transferring(w) /\ Transferring(w)' /\ Midway(w)' = Midway(w)
  <2>1. CASE count[w] = 1
    BY <1>a, <1>b, <1>u, <2>1 DEF Follows, Shape, Transferring, Midway
  <2>2. CASE count[w] = 2
    <3>1. pull[w].step = "none" /\ next[w] = Groups - 1 => next[w] + 1 = Groups  BY <1>a
    <3> QED  BY <1>a, <1>b, <1>u, <2>2, <3>1 DEF Follows, Shape, Transferring, Midway
  <2> QED  BY <1>a, <2>1, <2>2
<1>4. ASSUME w \in L PROVE Late(w, f)'
  <2>1. Late(w, f)  BY <1>4, <1>a DEF Follows
  <2>2. doing'[w] \notin {"idle", "returned"}  BY <1>b
  <2> QED  BY <1>3, <1>u, <2>1, <2>2 DEF Late
<1>5. ASSUME w \notin L PROVE Lockstep(w, f)'
  <2>1. Lockstep(w, f)  BY <1>5, <1>a DEF Follows
  <2>2. Abreast(w, f)'
    <3>1. InStep(w, f)' = InStep(w, f) /\ Raised' = Raised  BY <1>u DEF InStep, Raised
    <3>2. doing'[w] # "await"  BY <1>b
    <3> QED  BY <1>3, <1>u, <2>1, <3>1, <3>2 DEF Lockstep, Abreast
  <2>3. Acks(w, f)'  BY <1>a, <1>b, <1>u, <2>1 DEF Lockstep, Acks, Opening
  <2>4. Filled(w)' /\ Held(w)'
    <3>1. doing'[w] # "replay"  BY <1>b
    <3> QED  BY <1>u, <2>1, <3>1, FilledStays, HeldStays DEF Lockstep
  <2> QED  BY <2>2, <2>3, <2>4 DEF Lockstep
<1>6. ASSUME w \notin L, NEW g \in Group, Loaded(w, g)' PROVE Holds(w, g, acked)'
  <2>1. CASE g = next[w]
    <3>1. \A r \in Serving : received[w][next[w] % count[w]][r] = <<version, next[w]>>
      BY <1>6, <1>a, Zenon DEF Follows, Lockstep, Held
    <3>2. weights'[w][g] = received[w][next[w] % count[w]]  BY <1>a, <1>h, <2>1
    <3>3. acked' = version /\ acked' # -1  BY <1>m, <1>u
    <3>4. \A r \in Serving : weights'[w][g][r] = <<acked', g>>  BY <2>1, <3>1, <3>2, <3>3
    <3> QED  BY <3>3, <3>4, Zenon DEF Holds
  <2>2. CASE g # next[w]
    <3>1. weights'[w][g] = weights[w][g] /\ acked' = acked  BY <1>h, <1>u, <2>2
    <3>2. g \in Nat  BY DEF Group
    <3>3. g < next[w]
      <4>1. CASE count[w] = 1
        <5>1. g < next'[w] \/ g = next'[w]  BY <1>6, <1>b, <4>1 DEF Loaded
        <5> QED  BY <1>b, <2>2, <4>1, <5>1
      <4>2. CASE count[w] = 2
        <5>1. g < next'[w]  BY <1>6, <1>b, <4>2 DEF Loaded
        <5> QED  BY <1>a, <1>b, <2>2, <3>2, <4>2, <5>1
      <4> QED  BY <1>a, <4>1, <4>2
    <3>4. Loaded(w, g)  BY <1>3, <3>3 DEF Loaded
    <3>5. Holds(w, g, acked)  BY <1>6, <1>m, <3>4 DEF Good, Loads
    <3> QED  BY <3>1, <3>5, Zenon DEF Holds
  <2> QED  BY <2>1, <2>2
<1>7. Follows(w, f, L)'  BY <1>3, <1>4, <1>5 DEF Follows
<1>8. \A q \in Worker \ {w} :
        /\ calls'[q] = calls[q] /\ count'[q] = count[q] /\ pull'[q] = pull[q]
        /\ received'[q] = received[q] /\ table'[q] = table[q]
  BY <1>u
<1>9. \A b \in 0 .. (MaxCount - 1) :
        buf'[b]["trainer"] = buf[b]["trainer"] /\ \A q \in Worker \ {w} : buf'[b][q] = buf[b][q]
  BY <1>u
<1> QED  BY <1>b, <1>h, <1>m, <1>u, <1>1, <1>2, <1>6, <1>7, <1>8, <1>9, WorkerStep
-----------------------------------------------------------------------------
(* The trainer begins with nothing staged and no worker in an update.      *)
LEMMA InitGood ==
  ASSUME NixlAssumption, Init
  PROVE  Good(0, {})
<1>0. /\ Master \in Rank /\ Master \in Serving /\ Serving \subseteq Rank
      /\ Groups \in Nat \ {0} /\ MaxVersion \in Nat
  BY Basics
<1> USE <1>0
<1>c. MaxCount \in 1 .. Groups /\ MaxAttempts \in Nat  BY DEF MaxCount, NixlAssumption
<1>a. /\ at[Master] = "offer" /\ pos[Master] = 0 /\ buffers = 0 /\ ~Published
      /\ \A r \in Rank \ {Master} : at[r] = "setup" /\ pos[r] = 0
      /\ table["orchestrator"] = "initializing"
  BY Names DEF Init, Published
<1>b. /\ \A w \in Worker : /\ doing[w] = "idle" /\ next[w] = 0 /\ count[w] = 0 /\ calls[w] = 0
                           /\ pull[w].step = "none" /\ table[w] = "none"
                           /\ EngineOf(w) \in Engines /\ posts[EngineOf(w)] = 0
      /\ receiver = "watch" /\ version = 0 /\ offered = -1 /\ acked = -1 /\ waiting = {}
  BY Names, EngineOfWorker DEF Init, NoPull
<1>r. Raised = 0 /\ Window(0) = {}
  <2>1. Raised = 0  BY <1>a DEF Raised
  <2> QED  BY <2>1 DEF Window
<1>1. TypeOK
  <2>1. at \in [Rank -> Place]  BY DEF Init, Place
  <2>2. pos \in [Rank -> 0 .. (Groups + MaxCount)]
    <3>1. 0 \in 0 .. (Groups + MaxCount)  BY <1>c
    <3> QED  BY <3>1 DEF Init
  <2>3. version \in Version /\ buffers \in 0 .. MaxCount  BY <1>c DEF Init, Version
  <2>4. Nothing \in Piece  BY DEF Piece
  <2>5. staging \in [Serving -> [0 .. (MaxCount - 1) -> Piece]]  BY <2>4 DEF Init
  <2>6. offered \in Version \cup {-1} /\ acked \in Version \cup {-1}  BY <1>b
  <2>7. table \in [{"trainer", "orchestrator"} \cup Worker -> Status]  BY DEF Init, Status
  <2>8. buf \in [0 .. (MaxCount - 1) -> [{"trainer"} \cup Worker -> Status]]  BY DEF Init, Status
  <2>9. /\ doing \in [Worker -> Progress] /\ next \in [Worker -> 0 .. Groups]
        /\ count \in [Worker -> 0 .. 2]
    BY DEF Init, Progress
  <2>10. pull \in [Worker -> Pull]
    <3>1. NoPull \in Pull  BY DEF NoPull, Pull, Group
    <3> QED  BY <3>1 DEF Init
  <2>11. received \in [Worker -> [0 .. 1 -> [Serving -> Piece]]]  BY <2>4 DEF Init, Blank
  <2>12. weights \in [Worker -> [Group -> [Serving -> Piece]]]  BY <2>4 DEF Init
  <2>13. receiver = "watch" /\ paused \in BOOLEAN /\ waiting \subseteq Engines  BY DEF Init
  <2>14. posts \in [Engines -> 0 .. MaxAttempts] /\ calls \in [Worker -> 0 .. MaxAttempts]
    BY <1>c DEF Init
  <2> QED
    BY <2>1, <2>2, <2>3, <2>5, <2>6, <2>7, <2>8, <2>9, <2>10, <2>11, <2>12, <2>13, <2>14 DEF TypeOK
<1>2. MasterPhase(0)  BY <1>a, <1>r DEF MasterPhase, Early
<1>3. RankPhase  BY <1>a DEF RankPhase, Early
<1>4. Rounds  BY <1>a, <1>b DEF Rounds, Early
<1>5. Posts  BY <1>a, <1>b DEF Posts, Idle, Active
<1>6. Tables  BY <1>a, <1>b DEF Tables, TablesOf, Active, Early
<1>7. Statuses(0)  BY <1>a DEF Statuses, Init
<1>8. Stagings(0)
  <2>1. at[Master] # "raise" /\ \A r \in Serving : at[r] # "staged"  BY <1>a
  <2> QED  BY <1>r, <2>1 DEF Stagings
<1>9. \A w \in Worker : Follows(w, 0, {})
  <2> SUFFICES ASSUME NEW w \in Worker PROVE Shape(w) /\ Lockstep(w, 0)  BY DEF Follows
  <2>1. Shape(w) /\ Abreast(w, 0)  BY <1>b DEF Shape, Abreast, Transferring, Midway
  <2>2. Acks(w, 0)
    <3>1. \A b \in 0 .. (MaxCount - 1) : buf[b][w] = "none"  BY DEF Init
    <3> QED  BY <1>b, <3>1 DEF Acks
  <2>3. Filled(w) /\ Held(w)  BY <1>b DEF Filled, Held
  <2> QED  BY <2>1, <2>2, <2>3 DEF Lockstep
<1>10. Loads({})
  <2>1. \A w \in Worker, g \in Group, r \in Serving : weights[w][g][r] = Nothing  BY DEF Init
  <2> QED  BY <1>b, <2>1 DEF Loads, Holds, LoadedVersion
<1> QED  BY <1>1, <1>2, <1>3, <1>4, <1>5, <1>6, <1>7, <1>8, <1>9, <1>10 DEF Good

(* Steps of nobody.                                                        *)
LEMMA StutterKeeps ==
  ASSUME NixlAssumption, NEW f \in 0 .. Groups, NEW L \in SUBSET Worker, Good(f, L), UNCHANGED vars
  PROVE  Good(f, L)'
<1>0. f \in Nat  BY DEF NixlAssumption
<1>u. /\ UNCHANGED <<at, pos, version, buffers, staging>> /\ UNCHANGED <<offered, acked, table, buf>>
      /\ UNCHANGED <<receiver, paused, waiting, posts>>
      /\ UNCHANGED <<calls, doing, next, count, pull, received, weights>>
  BY DEF vars, trainerVars, receiverVars, postVars, workerVars
<1>1. TypeOK'  BY <1>u DEF Good, TypeOK
<1>2. /\ MasterPhase(f)' /\ RankPhase' /\ Rounds' /\ Posts' /\ Statuses(f)' /\ Stagings(f)' /\ Loads(L)'
  BY <1>0, <1>u, MasterPhaseFrame, RankPhaseFrame, RoundsFrame, PostsFrame, StatusesFrame,
     StagingsFrame, LoadsFrame DEF Good
<1>3. Tables'  BY <1>u DEF Good, Tables, TablesOf, Active, Published
<1>4. \A g \in Group : g < Raised => g < Raised'  BY <1>u DEF Raised
<1>5. \A w \in Worker : Follows(w, f, L)'  BY <1>u, <1>4, AllFollow
<1> QED  BY <1>1, <1>2, <1>3, <1>5 DEF Good

(* A worker's step: it may be late from its call on.                       *)
LEMMA UpdatingKeeps ==
  ASSUME NixlAssumption, NEW f \in 0 .. Groups, NEW L \in SUBSET Worker, Good(f, L),
         NEW w \in Worker, Updating(w)
  PROVE  \E M \in SUBSET Worker : Good(f, M)'
<1>1. CASE Join(w)
  <2> DEFINE M == IF f > 0 THEN L \cup {w} ELSE L
  <2>1. M \in SUBSET Worker  OBVIOUS
  <2>2. Good(f, M)'  BY <1>1, JoinKeeps
  <2> QED  BY <2>1, <2>2
<1>2. CASE Start(w)  BY <1>2, StartKeeps
<1>3. CASE SeeStaged(w)  BY <1>3, SeeStagedKeeps
<1>4. ASSUME NEW r \in Serving, Read(w, r) PROVE Good(f, L)'  BY <1>4, ReadKeeps
<1>5. CASE Pulled(w)  BY <1>5, PulledKeeps
<1>6. CASE Acknowledge(w)  BY <1>6, AcknowledgeKeeps
<1>7. CASE SeeFinish(w)  BY <1>7, SeeFinishKeeps
<1>8. CASE Take(w)  BY <1>8, TakeKeeps
<1>9. CASE Replay(w)  BY <1>9, ReplayKeeps
<1>10. CASE Return(w)  BY <1>10, ReturnKeeps
<1> QED  BY <1>1, <1>2, <1>3, <1>4, <1>5, <1>6, <1>7, <1>8, <1>9, <1>10 DEF Updating

(* A step of the trainer: with a group that is finished, those who still   *)
(* wait for it are late; a version that ends leaves nobody behind.         *)
LEMMA SenderKeeps ==
  ASSUME NixlAssumption, NEW f \in 0 .. Groups, NEW L \in SUBSET Worker, Good(f, L), Sender
  PROVE  \E e \in 0 .. Groups, M \in SUBSET Worker : Good(e, M)'
<1>1. CASE Offer  BY <1>1, OfferKeeps
<1>2. CASE SeeAck  BY <1>2, SeeAckKeeps
<1>3. CASE Setup  BY <1>3, SetupKeeps
<1>4. CASE Open  BY <1>4, OpenKeeps
<1>5. CASE AwaitOrchestrator  BY <1>5, AwaitOrchestratorKeeps
<1>6. CASE AwaitEngines  BY <1>6, AwaitEnginesKeeps
<1>7. ASSUME NEW r \in Rank, Stage(r) PROVE Good(f, L)'  BY <1>7, StageKeeps
<1>8. CASE Finish
  <2>1. PICK M \in SUBSET Worker :
          M = L \cup {w \in Worker : doing[w] = "await" \/ pull[w].step = "wanted"}
    OBVIOUS
  <2>2. f + 1 \in 0 .. Groups /\ Good(f + 1, M)'  BY <1>8, <2>1, FinishKeeps
  <2> QED  BY <2>1, <2>2
<1>9. CASE Drain  BY <1>9, DrainKeeps
<1>10. CASE FinishedBarrier  BY <1>10, FinishedBarrierKeeps
<1>11. CASE StagedBarrier  BY <1>11, StagedBarrierKeeps
<1>12. CASE Raise  BY <1>12, RaiseKeeps
<1>13. CASE AwaitApplied  BY <1>13, AwaitAppliedKeeps
<1>14. CASE Close  BY <1>14, CloseKeeps
<1>15. CASE EndBarrier
  <2>1. Good(0, {})'  BY <1>15, EndBarrierKeeps
  <2>2. 0 \in 0 .. Groups /\ {} \in SUBSET Worker  BY Basics
  <2> QED  BY <2>1, <2>2
<1> QED
  BY <1>1, <1>2, <1>3, <1>4, <1>5, <1>6, <1>7, <1>8, <1>9, <1>10, <1>11, <1>12, <1>13, <1>14, <1>15
  DEF Sender

(* Every step keeps it, for the groups and the late workers after it.      *)
LEMMA StepGood ==
  ASSUME NixlAssumption, IInv, [Next]_vars
  PROVE  IInv'
<1> PICK f \in 0 .. Groups, L \in SUBSET Worker : Good(f, L)  BY DEF IInv
<1> SUFFICES \E e \in 0 .. Groups, M \in SUBSET Worker : Good(e, M)'  BY DEF IInv
<1>1. CASE Sender  BY <1>1, SenderKeeps
<1>2. CASE Receiver
  <2>1. ASSUME NEW e \in Engines, Answer(e) PROVE Good(f, L)'  BY <2>1, AnswerKeeps
  <2> QED
    BY <1>2, <2>1, AckKeeps, AnnounceKeeps, CallKeeps, ResumeKeeps, RetractKeeps, SettleKeeps
    DEF Receiver
<1>3. ASSUME NEW w \in Worker, Updating(w) PROVE \E M \in SUBSET Worker : Good(f, M)'
  BY <1>3, UpdatingKeeps
<1>4. CASE Raises
  <2>1. ASSUME NEW e \in Engines, Retry(e) PROVE Good(f, L)'  BY <2>1, RetryKeeps
  <2>2. ASSUME NEW e \in Engines, GiveUp(e) PROVE Good(f, L)'  BY <2>2, GiveUpKeeps
  <2>3. CASE TrainerRaises  BY <2>3, TrainerRaisesKeeps
  <2>4. CASE ReceiverRaises  BY <2>4, ReceiverRaisesKeeps
  <2>5. ASSUME NEW w \in Worker, WorkerRaises(w) PROVE Good(f, L)'  BY <2>5, WorkerRaisesKeeps
  <2> QED  BY <1>4, <2>1, <2>2, <2>3, <2>4, <2>5 DEF Raises
<1>5. CASE UNCHANGED vars  BY <1>5, StutterKeeps
<1> QED  BY <1>1, <1>2, <1>3, <1>4, <1>5 DEF Next

(* The handshake, the window and the lockstep of the trainer with the      *)
(* workers hold always, for some number of groups that are finished and    *)
(* some workers that are late.                                             *)
THEOREM Invariance == Spec => []IInv
<1>1. Init => IInv
  <2> SUFFICES ASSUME Init PROVE \E f \in 0 .. Groups, L \in SUBSET Worker : Good(f, L)  BY DEF IInv
  <2>1. Good(0, {})  BY NixlAssumption, InitGood
  <2>2. 0 \in 0 .. Groups /\ {} \in SUBSET Worker  BY NixlAssumption
  <2> QED  BY <2>1, <2>2
<1>2. IInv /\ [Next]_vars => IInv'  BY NixlAssumption, StepGood
<1> QED  BY <1>1, <1>2, PTL DEF Spec

(* Every variable keeps its type: no rank runs past its last group, no     *)
(* worker counts past its last, no status is of another kind.              *)
THEOREM NixlTyped == Spec => []TypeOK
<1>1. IInv => TypeOK  BY DEF IInv, Good
<1> QED  BY <1>1, Invariance, PTL

(* While a worker pulls, its buffer holds one group of the version under   *)
(* way from every rank; in a worker's first call it is the group asked     *)
(* for, and what it replays is whole: whatever the order of ranks,         *)
(* workers, failures and repeated posts (nixl.py _broadcast,               *)
(* worker/nixl.py pull_group, clients.py _admin_post).                     *)
THEOREM TransfersHoldAlways == Spec => []TransfersHold
<1>1. IInv => TransfersHold
  <2> SUFFICES ASSUME NEW f \in 0 .. Groups, NEW L \in SUBSET Worker, Good(f, L), NEW w \in Worker
               PROVE  /\ pull[w].step = "reading" => \E g \in Group :
                           /\ SessionOf(g) = SessionOf(pull[w].group)
                           /\ FirstCall(w) => g = pull[w].group
                           /\ \A r \in Serving : staging[r][SessionOf(g)] = <<acked, g>>
                      /\ doing[w] = "replay" /\ FirstCall(w) => \A r \in Serving :
                           received[w][next[w] % count[w]][r] = <<acked, next[w]>>
    BY DEF IInv, TransfersHold
  <2>1. Follows(w, f, L) /\ Statuses(f) /\ Stagings(f)  BY DEF Good
  <2>2. ASSUME pull[w].step = "reading"
        PROVE  \E g \in Group :
                 /\ SessionOf(g) = SessionOf(pull[w].group)
                 /\ FirstCall(w) => g = pull[w].group
                 /\ \A r \in Serving : staging[r][SessionOf(g)] = <<acked, g>>
    <3> DEFINE b == pull[w].group % buffers
    <3>1. /\ Transferring(w) /\ b \in 0 .. (MaxCount - 1) /\ pull[w].group \in Group
          /\ pull[w].group \in Nat
      BY <2>2, NixlAssumption, PullFacts
    <3>2. acked = version  BY <3>1, NixlAssumption, BusyFacts DEF Transferring, Idle
    <3>3. Raised \in 0 .. Groups /\ Groups \in Nat  BY NixlAssumption, Sizes DEF Good
    <3> SUFFICES \E g \in Group : /\ g % buffers = b
                                  /\ w \notin L => g = pull[w].group
                                  /\ \A r \in Serving : staging[r][b] = <<version, g>>
      <4>1. w \in L => ~FirstCall(w)
        <5>1. calls[w] \in Nat  BY NixlAssumption, Counters DEF Good
        <5> QED  BY <2>1, <5>1 DEF Follows, Late, FirstCall
      <4> QED  BY <3>2, <4>1 DEF SessionOf
    <3>4. CASE w \notin L
      <4>1. pull[w].group < Raised /\ InStep(w, f)
        BY <2>1, <2>2, <3>4 DEF Follows, Lockstep, Abreast, Midway
      <4>2. CASE f = pull[w].group
        <5>1. pull[w].group \in Window(f)  BY <3>1, <3>3, <4>1, <4>2 DEF Window
        <5> QED  BY <2>1, <3>1, <5>1 DEF Stagings
      <4>3. CASE f # pull[w].group  BY <3>1, <4>1, <4>3 DEF InStep
      <4> QED  BY <4>2, <4>3
    <3>5. CASE w \in L
      <4>1. Late(w, f) /\ f > 0  BY <2>1, <3>5 DEF Follows, Late
      <4>2. CASE buf[b]["trainer"] = "ready"
        <5>1. PICK g \in Window(f) : g % buffers = b  BY <2>1, <3>1, <4>2 DEF Statuses
        <5>2. g \in Group  BY <3>3 DEF Window, Group
        <5> QED  BY <2>1, <3>5, <5>1, <5>2 DEF Stagings
      <4>3. CASE buf[b]["trainer"] # "ready"
        <5>1. f - 1 \in Group  BY <3>3, <4>1 DEF Group
        <5>2. (f - 1) % buffers = b /\ \A r \in Serving : staging[r][b] = <<version, f - 1>>
          BY <2>2, <4>1, <4>3 DEF Late
        <5> QED  BY <3>5, <5>1, <5>2
      <4> QED  BY <4>2, <4>3
    <3> QED  BY <3>4, <3>5
  <2>3. ASSUME doing[w] = "replay", FirstCall(w)
        PROVE  \A r \in Serving : received[w][next[w] % count[w]][r] = <<acked, next[w]>>
    <3>1. acked = version  BY <2>3, NixlAssumption, BusyFacts DEF Idle
    <3>2. w \notin L  BY <2>1, <2>3 DEF Follows, Late, FirstCall
    <3>3. \A r \in Serving : received[w][next[w] % count[w]][r] = <<version, next[w]>>
      BY <2>1, <2>3, <3>2, Zenon DEF Follows, Lockstep, Held
    <3> QED  BY <3>1, <3>3
  <2> QED  BY <2>2, <2>3
<1> QED  BY <1>1, Invariance, PTL

(* Engines that run have one whole version of all groups and ranks, the    *)
(* same on all workers, unless an update has failed (update_weights).      *)
THEOREM WholeWeightsAlways == Spec => []WholeWeights
<1>1. IInv => WholeWeights
  <2> SUFFICES ASSUME NEW f \in 0 .. Groups, NEW L \in SUBSET Worker, Good(f, L),
                      ~paused, receiver # "failed"
               PROVE  \E v \in Version \cup {-1} : \A w \in Worker, g \in Group, r \in Serving :
                        weights[w][g][r] = IF v = -1 THEN Nothing ELSE <<v, g>>
    BY DEF IInv, WholeWeights
  <2>1. receiver \notin {"update", "failed"}  BY DEF Good, Rounds
  <2>2. LoadedVersion \in Version \cup {-1}
    <3>1. receiver # "watch" => acked >= 0  BY DEF Good, Rounds
    <3>2. acked \in Version \cup {-1}  BY DEF Good, TypeOK
    <3> QED  BY <3>1, <3>2, NixlAssumption DEF LoadedVersion, Version
  <2>3. \A w \in Worker, g \in Group : Holds(w, g, LoadedVersion)  BY <2>1 DEF Good, Loads
  <2> QED  BY <2>2, <2>3, Zenon DEF Holds
<1> QED  BY <1>1, Invariance, PTL
=============================================================================
