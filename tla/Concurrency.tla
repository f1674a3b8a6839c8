----------------------------- MODULE Concurrency -----------------------------
(***************************************************************************)
(* The adaptive cap on in-flight episodes (orchestrator/concurrency.py):   *)
(* observe() judges each poll of the engines' metrics and may cut or trim  *)
(* the cap; record_episode() lets it grow as episodes complete.  Around it *)
(* the pool it steers: the dispatcher admits below the cap, episodes       *)
(* complete, and an overload cancels the excess in a task of its own.      *)
(*                                                                         *)
(* Readings arrive late by nature: a poll shows engines that still work    *)
(* off what an earlier cut cancelled.  The cap is kept in quarters of an   *)
(* episode, what a completion adds to it when the pool is full: the code   *)
(* multiplies it by TURNOVER_GROWTH ** (1 / inflight), between 0.2 and     *)
(* 0.25 of an episode.  Time is left out; the growth gate's 15 s expire    *)
(* only once a poll was missed.                                            *)
(***************************************************************************)
EXTENDS Integers, FiniteSetsExt

CONSTANTS
  Floor, Ceiling,  (* min_inflight, max_inflight                              *)
  Initial,         (* initial_inflight; 0: derived from the KV capacity       *)
  Derived,         (* caps the capacity may give                              *)
  Usages,          (* KV usages a poll may read, in percent                   *)
  Cancels,         (* on_overload is bound: the orchestrator, not the evals   *)
  GroupSize,       (* an overload cancels whole groups                        *)
  QueuePolls, TrimPolls, GracePolls  (* QUEUE_PERSISTENCE_POLLS, ...          *)

ASSUME ConcurrencyAssumption ==
  /\ Floor \in Nat \ {0} /\ Ceiling \in Nat /\ Floor <= Ceiling
  /\ Initial \in 0 .. Ceiling
  /\ Derived \subseteq Nat /\ Derived # {}
  /\ Usages \subseteq 0 .. 100
  /\ Cancels \in BOOLEAN /\ GroupSize \in Nat \ {0}
  /\ QueuePolls \in Nat \ {0} /\ TrimPolls \in Nat /\ GracePolls \in Nat

VARIABLES
  cap,           (* cap, in quarters of an episode                            *)
  maxInflight,   (* max_inflight                                              *)
  limit,         (* the dispatcher's max_inflight                             *)
  bootstrapped,  (* bootstrapped                                              *)
  canGrow, fresh,(* can_grow, and that can_grow_until is still ahead          *)
  waited,        (* prev_waiting                                              *)
  queuePolls,    (* queue_overload_polls                                      *)
  cooldown,      (* trim_cooldown                                             *)
  draining, escalated, grace, (* draining, escalated, escalation_grace        *)
  inflight,      (* permits the dispatcher holds                              *)
  excess,        (* what cancel tasks have yet to cancel                      *)
  missed,        (* a poll was missed since the last one                      *)
  load,          (* history: how loaded the last poll found the engines       *)
  cuts           (* history: cuts since a poll that found the pool within the *)
                 (* cap and the engines without overload                      *)

gateVars == <<canGrow, fresh, waited, queuePolls, cooldown, draining, escalated, grace>>
capVars  == <<cap, maxInflight, limit, bootstrapped>>
vars == <<capVars, gateVars, inflight, excess, missed, load, cuts>>

(* What a poll of the decode engines shows, next to the thresholds.        *)
Reading == [preempted : BOOLEAN,               \* a preemption since the last poll
            queued : {"none", "some", "over"}, \* for capacity; over: QUEUE_RATIO exceeded
            waiting : BOOLEAN,                 \* any request waits
            usage : Usages,
            capacity : BOOLEAN]                \* the engine reports its KV capacity
Readings == {r \in Reading : r.queued # "none" => r.waiting}
LoadOf(r) == IF r.preempted \/ r.queued # "none" \/ r.usage > 60 THEN "pressed"
             ELSE IF r.waiting THEN "waiting" ELSE "idle"
-----------------------------------------------------------------------------
Clamp(n) == IF n < Floor THEN Floor ELSE IF n > Ceiling THEN Ceiling ELSE n

(* apply_limit, with set_limit of the dispatcher.                          *)
ApplyLimit(n) == maxInflight' = n /\ limit' = IF n = maxInflight THEN limit ELSE n

QueuedPolls(r) == IF r.queued = "over" THEN queuePolls + 1 ELSE 0
QueueOverload(r) == QueuedPolls(r) >= QueuePolls
Overload(r) == r.preempted \/ QueueOverload(r)
Clear(r) == ~Overload(r) /\ ~(r.waiting /\ waited) /\ r.usage <= 60

ReleasedByPool(r) == draining /\ inflight <= maxInflight             \* mutant
NeverReleased(r) == FALSE                                            \* mutant
Released(r) == draining /\ inflight <= maxInflight /\ ~Overload(r)
StillDraining(r) == draining /\ ~Released(r)
GraceLeft(r) ==
  LET g == IF Released(r) THEN GracePolls ELSE grace
  IN IF ~StillDraining(r) /\ escalated THEN IF g > 0 THEN g - 1 ELSE 0 ELSE g
StillEscalated(r) == escalated /\ (StillDraining(r) \/ GraceLeft(r) > 0)

(* The caps a poll may start from: capacity / max_model_len, once.         *)
Starts(r) ==
  IF ~bootstrapped /\ r.capacity THEN {Clamp(d) : d \in Derived} ELSE {maxInflight}

MayGrow(r) == Clear(r) /\ r.queued = "none" /\ ~StillDraining(r)

(* What every poll does before it may shed.                                *)
Judge(r) ==
  /\ waited' = r.waiting
  /\ grace' = GraceLeft(r)
  /\ canGrow' = MayGrow(r) /\ fresh' = TRUE
  /\ bootstrapped' = (bootstrapped \/ r.capacity)
  /\ missed' = FALSE /\ load' = LoadOf(r)
  /\ UNCHANGED inflight

CoolDown == IF cooldown > 0 THEN cooldown - 1 ELSE 0
TrimDue(r) == r.usage > 80 /\ inflight > 0 /\ CoolDown = 0
Settled(r) == inflight <= maxInflight /\ ~Overload(r)

(* The poll leaves the cap alone, but for the start it may derive.         *)
Watch(r, s) ==
  /\ Judge(r) /\ s \in Starts(r)
  /\ StillDraining(r) \/ (~Overload(r) /\ ~TrimDue(r))
  /\ cap' = (IF ~bootstrapped /\ r.capacity THEN 4 * s ELSE cap)
  /\ ApplyLimit(s)
  /\ queuePolls' = (IF QueuedPolls(r) > QueuePolls THEN QueuePolls ELSE QueuedPolls(r))
  /\ cooldown' = CoolDown
  /\ draining' = StillDraining(r) /\ escalated' = StillEscalated(r)
  /\ cuts' = (IF Settled(r) THEN 0 ELSE cuts)
  /\ UNCHANGED excess

(* resize_down: never raise the cap; a cancelling one sheds the excess.    *)
Lowered(target, s) == Min({target, s})
ResizeDown(target, s, cancel) ==
  LET t == Lowered(target, s)
  IN /\ cap' = 4 * t
     /\ ApplyLimit(t)
     /\ excess' = (IF cancel /\ Cancels /\ inflight > t
                   THEN Min({excess + inflight - t, Ceiling}) ELSE excess)

Cut(r, s) ==
  /\ Judge(r) /\ s \in Starts(r)
  /\ ~StillDraining(r) /\ Overload(r)
  /\ LET tenths == IF StillEscalated(r) THEN 5 ELSE IF QueueOverload(r) THEN 9 ELSE 8
     IN ResizeDown(Clamp((inflight * tenths) \div 10), s, TRUE)
  /\ queuePolls' = (IF QueueOverload(r) THEN 0 ELSE QueuedPolls(r))
  /\ cooldown' = CoolDown
  /\ draining' = TRUE /\ escalated' = TRUE
  /\ cuts' = Min({cuts + 1, 2})

Trim(r, s) ==
  /\ Judge(r) /\ s \in Starts(r)
  /\ ~StillDraining(r) /\ ~Overload(r) /\ TrimDue(r)
  /\ ResizeDown(Clamp((inflight * 70) \div r.usage), s, r.usage > 90)
  /\ queuePolls' = QueuedPolls(r)
  /\ cooldown' = TrimPolls
  /\ draining' = FALSE /\ escalated' = StillEscalated(r)
  /\ cuts' = (IF Settled(r) THEN 0 ELSE cuts)

(* A poll that no decode engine answered.                                  *)
Miss ==
  /\ ~missed
  /\ missed' = TRUE
  /\ UNCHANGED <<capVars, gateVars, inflight, excess, load, cuts>>

(* can_grow_until passes.                                                  *)
Expire ==
  /\ missed /\ fresh
  /\ fresh' = FALSE
  /\ UNCHANGED <<capVars, canGrow, waited, queuePolls, cooldown, draining, escalated, grace,
                 inflight, excess, missed, load, cuts>>
-----------------------------------------------------------------------------
(* The pool.                                                               *)

Admit ==
  /\ inflight < limit
  /\ inflight' = inflight + 1
  /\ UNCHANGED <<capVars, gateVars, excess, missed, load, cuts>>

Grows(tokens) == tokens /\ canGrow /\ fresh /\ 10 * inflight >= 9 * maxInflight

(* record_episode, after the permit is released: the completing episode is *)
(* added back.  An episode without tokens (an error) grows nothing.        *)
Complete(tokens) ==
  /\ inflight > 0
  /\ inflight' = inflight - 1
  /\ IF Grows(tokens)
     THEN /\ cap' = Min({Max({cap + 1, 4 * Floor}), 4 * Ceiling})
          /\ ApplyLimit(cap' \div 4)
     ELSE UNCHANGED <<cap, maxInflight, limit>>
  /\ UNCHANGED <<bootstrapped, gateVars, excess, missed, load, cuts>>

(* A cancel task: whole groups of train episodes until the excess the poll *)
(* saw is reached; with evals in flight it may find fewer.                 *)
Shed ==
  /\ excess > 0
  /\ \E k \in 0 .. Min({inflight, excess + GroupSize - 1}) : inflight' = inflight - k
  /\ excess' = 0
  /\ UNCHANGED <<capVars, gateVars, missed, load, cuts>>
-----------------------------------------------------------------------------
Init ==
  /\ maxInflight = Clamp(Initial) /\ limit = maxInflight
  /\ cap = IF Initial > 0 THEN 4 * Initial ELSE 4 * Floor
  /\ bootstrapped = (Initial > 0)
  /\ canGrow = FALSE /\ fresh = FALSE /\ waited = FALSE
  /\ queuePolls = 0 /\ cooldown = 0
  /\ draining = FALSE /\ escalated = FALSE /\ grace = 0
  /\ inflight = 0 /\ excess = 0 /\ missed = FALSE /\ load = "idle" /\ cuts = 0

Poll(r) == \E s \in Starts(r) : Watch(r, s) \/ Cut(r, s) \/ Trim(r, s)
Next ==
  \/ \E r \in Readings : Poll(r)
  \/ Miss \/ Expire \/ Admit \/ Shed
  \/ \E tokens \in BOOLEAN : Complete(tokens)

(* Cancel tasks run, episodes complete, also with the pool full, and the   *)
(* collector polls on: a poll of idle engines that would change something  *)
(* is not put off for ever (what Recovers needs, which is about engines    *)
(* that stay idle).                                                        *)
Fairness ==
  /\ WF_vars(\E r \in {q \in Readings : LoadOf(q) = "idle"} : Poll(r))
  /\ WF_vars(Shed)
  /\ SF_vars(inflight = limit /\ Complete(TRUE))
  /\ WF_vars(\E tokens \in BOOLEAN : Complete(tokens))
Spec == Init /\ [][Next]_vars /\ Fairness
-----------------------------------------------------------------------------
(* Types; the cap stays within [min_inflight, max_inflight], the whole     *)
(* episodes of it are what admission goes by, and the dispatcher has it.   *)
TypeOK ==
  /\ cap \in 0 .. 4 * Ceiling /\ maxInflight \in Floor .. Ceiling
  /\ maxInflight = Clamp(cap \div 4) /\ limit = maxInflight
  /\ {bootstrapped, canGrow, fresh, waited, draining, escalated, missed} \subseteq BOOLEAN
  /\ queuePolls \in 0 .. QueuePolls /\ cooldown \in 0 .. TrimPolls
  /\ grace \in 0 .. GracePolls
  /\ inflight \in 0 .. Ceiling /\ excess \in 0 .. Ceiling
  /\ load \in {"idle", "waiting", "pressed"} /\ cuts \in 0 .. 2

(* One overload is cut once: a second cut waits for a poll that finds the  *)
(* pool within the cap and the engines without overload.  Polls that still *)
(* show what the first cut already answered change nothing (the "escalated-*)
(* cut cascade" observe() guards against).                                 *)
OneCutPerOverload == cuts <= 1

(* The cap grows only on evidence that is still good: the last poll found  *)
(* no pressure, it is not stale, and no cut waits to settle; or else the   *)
(* KV capacity became known (record_episode, GROWTH_GATE_TTL_S).           *)
GrowsWhenClear ==
  [][maxInflight' > maxInflight =>
       \/ bootstrapped' /\ ~bootstrapped
       \/ load # "pressed" /\ fresh /\ cuts = 0 /\ 10 * inflight >= 9 * maxInflight]_vars

(* A cut is not for ever: when the engines stay idle and demand fills the  *)
(* pool time and again, the cap is back at max_inflight in the end (the    *)
(* drain is released, escalation fades, the growth gate opens).            *)
Recovers ==
  <>[](load = "idle" /\ ~missed) /\ []<>(inflight = limit) => <>(maxInflight = Ceiling)
=============================================================================
