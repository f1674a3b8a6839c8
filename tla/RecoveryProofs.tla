--------------------------- MODULE RecoveryProofs ---------------------------
(***************************************************************************)
(* A resume is consistent, for every number of steps, every interval, lag  *)
(* and retention and any number of crashes.  All three properties rest on  *)
(* the launcher's cleaning: with no broadcast of the resume step or later  *)
(* in the run directory, the orchestrator cannot pass its rendezvous, and  *)
(* therefore neither send nor save, before the trainer has found its       *)
(* checkpoint and offered that very step; from there on each broadcast     *)
(* waits for the one before it to be joined.                               *)
(*                                                                         *)
(* That retention and saves in place leave a step to resume from rests on  *)
(* the order of a step: the orchestrator saves its half of a step before   *)
(* it sends the batch of the next one, and the trainer saves its own half  *)
(* before it trains on it.                                                 *)
(***************************************************************************)
EXTENDS Recovery, FiniteSetTheorems, WellFoundedInduction, TLAPS

(* The latest checkpoint directory is one of them: their steps have a      *)
(* largest one.                                                            *)
LEMMA LatestExists ==
  ASSUME NEW S \in SUBSET Step, S # {}
  PROVE  Max(S) \in S /\ \A s \in S : Max(S) >= s
<1> DEFINE T == {MaxSteps - s : s \in S}
<1> USE RecoveryAssumption DEF RecoveryAssumption, Step
<1>1. \A s \in S : s \in 1 .. MaxSteps /\ MaxSteps - s \in Nat
  OBVIOUS
<1>2. T \subseteq Nat /\ T # {}
  BY <1>1
<1>3. PICK t \in T : \A u \in T : ~ (<<u, t>> \in OpToRel(<, Nat))
  <2> HIDE DEF T
  <2> QED BY <1>2, NatLessThanWellFounded, WFMin, Zenon
<1>4. \A u \in T : ~ (u < t)
  BY <1>2, <1>3 DEF OpToRel
<1>5. PICK m \in S : t = MaxSteps - m
  BY <1>3
<1>6. \A s \in S : m >= s
  <2> TAKE s \in S
  <2>1. ~(MaxSteps - s < MaxSteps - m)
    BY <1>4, <1>5
  <2> QED BY <2>1, <1>5
<1> QED BY <1>5, <1>6 DEF Max

(* So what a process resolves is a step of the run, or 0.                  *)
LEMMA ResolveType ==
  ASSUME ckptDir \subseteq Step, NEW a \in Version
  PROVE  Resolve(a) \in Version
<1>1. Step \subseteq Version /\ 0 \in Version
  BY RecoveryAssumption DEF RecoveryAssumption, Step, Version
<1>2. ckptDir # {} => Max(ckptDir) \in Step
  BY LatestExists
<1> QED BY <1>1, <1>2 DEF Resolve

-----------------------------------------------------------------------------
(* Where the processes are.                                                *)
Placed ==
  /\ job = "down" => trainer = "off" /\ orch = "off" /\ watcher = "idle"
  /\ job = "up" => trainer # "off" /\ orch # "off" /\ life > 0
  /\ orch = "sending" => ostep \in Step
  /\ orch = "saving" => ostep - 1 \in Step
  /\ trainer \in {"trained", "saving", "saved"} => tstep \in Step

TypeInv == TypeOK /\ Placed

(* Before the trainer's startup broadcast nothing of the resume step or    *)
(* later is offered, and the orchestrator has not passed the rendezvous.   *)
Clean ==
  trainer \in {"setup", "startup"} =>
    /\ watcher = "idle" /\ orch \in {"setup", "sync", "dead"}
    /\ \A v \in Version : v >= base => offeredIn[v] = 0

(* Until the orchestrator answers, the trainer gets no further.            *)
Unanswered ==
  /\ orch = "setup" => watcher = "idle"
  /\ orch \in {"setup", "sync"} /\ watcher = "idle" =>
       /\ trainer \in {"setup", "startup", "offer", "dead"}
       /\ trainer = "offer" => stage[offer] = "offered"

(* The batches of the steps to come are this launch's, or not there.       *)
Own ==
  /\ job = "up" => \A s \in Step : s > base => rollouts[s] \in {0, life}
  /\ trainer \in {"startup", "offer", "transfer", "batch", "trained", "saving", "saved"}
       => tstep > base

(* So are the broadcasts, and none is ahead of the trainer.                *)
Current ==
  /\ job = "up" => \A v \in Version : v >= base => offeredIn[v] \in {0, life}
  /\ trainer \in {"offer", "transfer"} =>
       /\ base <= offer /\ offer <= tstep
       /\ \A v \in Version : v >= base /\ Offered(v) => v <= offer
  /\ trainer = "batch" => \A v \in Version : v >= base /\ Offered(v) => v < tstep
  /\ trainer \in {"trained", "saving", "saved"} =>
       \A v \in Version : v >= base /\ Offered(v) => v <= tstep

(* The version that was joined is the one the orchestrator is receiving.   *)
Joined ==
  /\ trainer = "transfer" => stage[offer] # "offered"
  /\ trainer \in {"offer", "transfer"} /\ stage[offer] # "offered" => target = offer

Receiving ==
  /\ orch \in {"main", "sending", "saving"} => target >= base
  /\ watcher # "idle" => target >= base /\ offeredIn[target] = life

(* The invariant, in three parts that need one another: who may go on, what *)
(* the run directory holds of other launches, and who waits for whom.      *)
Rendezvous == Clean /\ Unanswered /\ ResumeTogether
Leftovers == Own /\ Current
Handshake == Joined /\ Receiving /\ LoadsWhole

ResumeInv == TypeInv /\ Rendezvous /\ Leftovers /\ Handshake

-----------------------------------------------------------------------------
(* A step of the trainer's loop ends at the last step, or at the next one. *)
LEMMA AdvanceType ==
  ASSUME NextStep, tstep \in Step
  PROVE  \/ trainer' = "done" /\ tstep' = tstep
         \/ trainer' = "batch" /\ tstep' = tstep + 1 /\ tstep' \in Step
  BY RecoveryAssumption DEF NextStep, RecoveryAssumption, Step

(* Types: every step saved, sent or offered is a step of the run.          *)
LEMMA TypeStep == TypeInv /\ [Next]_vars => TypeInv'
<1> SUFFICES ASSUME TypeInv, [Next]_vars PROVE TypeInv'
  OBVIOUS
<1> USE RecoveryAssumption DEF RecoveryAssumption, TypeInv, TypeOK, Placed, Step, Version,
        ckptVars, bcastVars, launchVars, trainVars, orchVars, watchVars
<1>1. Resolve(asked) \in Version
  BY ResolveType
<1>2. CASE Launch
  <2>1. asked' \in Version
    BY <1>2 DEF Launch
  <2>2. base' \in Version
    BY <2>1, <1>2, ResolveType DEF Launch
  <2> QED BY <1>2, <2>1, <2>2, SMTT(40) DEF Launch, KeepBroadcasts
<1>3. CASE Down
  BY <1>3 DEF Down
<1>4. CASE TrainerSetup
  <2>1. CASE trainer' = "dead" /\ UNCHANGED <<tstep, known>>
    BY <1>4, <2>1 DEF TrainerSetup
  <2>2. CASE trainer' = "startup" /\ tstep' = Resolve(asked) + 1 /\ known' = KnownSteps
    <3>1. KnownSteps \subseteq Step
      BY DEF KnownSteps
    <3>2. /\ trainer = "setup"
          /\ UNCHANGED <<ckptVars, rollouts, bcastVars, launchVars, offer, orchVars, watchVars>>
      BY <1>4 DEF TrainerSetup
    <3>3. Placed'
      BY <2>2, <3>2
    <3> HIDE DEF TypeInv, TypeOK, Placed
    <3>4. tstep' \in 1 .. MaxSteps + 1 /\ known' \subseteq Step
      BY <1>1, <2>2, <3>1
    <3> HIDE DEF Step, Version, RecoveryAssumption
    <3>5. TypeOK'
      BY <2>2, <3>2, <3>4 DEF TypeInv, TypeOK
    <3> QED BY <3>3, <3>5 DEF TypeInv
  <2> QED BY <1>4, <2>1, <2>2, SMTT(40) DEF TrainerSetup
<1>5. CASE Startup
  BY <1>5, SMTT(40) DEF Startup, Offer
<1>6. CASE Train
  BY <1>6, SMTT(40) DEF Train, Offer
<1>7. CASE Transfer
  BY <1>7 DEF Transfer
<1>8. CASE Finish
  BY <1>8 DEF Finish
<1>9. CASE SkipSave
  <2>1. /\ trainer = "trained" /\ NextStep
        /\ UNCHANGED <<ckptVars, rollouts, bcastVars, launchVars, offer, known, orchVars, watchVars>>
    BY <1>9 DEF SkipSave
  <2>2. tstep \in Step
    BY <2>1
  <2>3. CASE trainer' = "done" /\ tstep' = tstep
    BY <2>1, <2>2, <2>3
  <2>4. CASE trainer' = "batch" /\ tstep' = tstep + 1 /\ tstep' \in Step
    BY <2>1, <2>2, <2>4
  <2> QED BY <2>1, <2>2, <2>3, <2>4, AdvanceType
<1>10. CASE TrainerBeginsSave
  BY <1>10 DEF TrainerBeginsSave
<1>11. CASE TrainerEndsSave
  BY <1>11 DEF TrainerEndsSave
<1>12. CASE Retain
  <2>1. Kept \subseteq known
    BY DEF Kept, Recent
  <2>2. Kept \subseteq Step
    BY <2>1
  <2>3. known' \subseteq Step /\ ckptDir' \subseteq Step /\ orchSaved' \subseteq Step
    BY <1>12, <2>2 DEF Retain
  <2>4. trainSaved' \in [Step -> {"none", "torn", "mixed", "whole"}]
    BY <1>12 DEF Retain
  <2>5. /\ trainer = "saved" /\ NextStep
        /\ UNCHANGED <<rollouts, bcastVars, launchVars, offer, orchVars, watchVars>>
    BY <1>12 DEF Retain
  <2>6. tstep \in Step
    BY <2>5
  <2>7. CASE trainer' = "done" /\ tstep' = tstep
    BY <2>3, <2>4, <2>5, <2>6, <2>7
  <2>8. CASE trainer' = "batch" /\ tstep' = tstep + 1 /\ tstep' \in Step
    BY <2>3, <2>4, <2>5, <2>6, <2>8
  <2> QED BY <2>5, <2>6, <2>7, <2>8, AdvanceType
<1>13. CASE TrainerFails
  BY <1>13 DEF TrainerFails
<1>14. CASE OrchSetup
  <2>1. CASE orch' = "dead" /\ UNCHANGED ostep
    BY <1>14, <2>1 DEF OrchSetup
  <2>2. CASE orch' = "sync" /\ ostep' = Resolve(asked) + 1
    <3>1. ostep' \in 1 .. MaxSteps + 1
      BY <1>1, <2>2
    <3>2. /\ orch = "setup"
          /\ UNCHANGED <<ckptVars, rollouts, bcastVars, launchVars, trainVars, after, watchVars>>
      BY <1>14 DEF OrchSetup
    <3> QED BY <2>2, <3>1, <3>2
  <2> QED BY <1>14, <2>1, <2>2 DEF OrchSetup
<1>15. CASE Send
  BY <1>15 DEF Send
<1>16. CASE Shipped
  <2>1. CASE BeginSave(ostep, "main")
    BY <1>16, <2>1 DEF Shipped, BeginSave
  <2>2. CASE orch' = "main" /\ UNCHANGED <<ckptVars, after>>
    BY <1>16, <2>2 DEF Shipped
  <2> QED BY <1>16, <2>1, <2>2 DEF Shipped
<1>17. CASE EndSave
  BY <1>17 DEF EndSave, LastFinished
<1>18. CASE Leave
  BY <1>18 DEF Leave, BeginSave, LastFinished
<1>19. CASE Raise
  <2>1. CASE ostep > 1 /\ BeginSave(LastFinished, "dead")
    BY <1>19, <2>1 DEF Raise, BeginSave, LastFinished
  <2>2. CASE orch' = "dead" /\ UNCHANGED <<ckptVars, after>>
    BY <1>19, <2>2 DEF Raise
  <2> QED BY <1>19, <2>1, <2>2 DEF Raise
<1>20. CASE SyncStartup
  BY <1>20 DEF SyncStartup
<1>21. CASE SeeOffer
  BY <1>21 DEF SeeOffer
<1>22. CASE Ack
  BY <1>22 DEF Ack
<1>23. CASE Load
  BY <1>23 DEF Load
<1>24. CASE Loaded
  BY <1>24 DEF Loaded
<1>25. CASE SetupFails
  BY <1>25 DEF SetupFails
<1>26. CASE UNCHANGED vars
  BY <1>26 DEF vars
<1> QED
  BY <1>2, <1>3, <1>4, <1>5, <1>6, <1>7, <1>8, <1>9, <1>10, <1>11, <1>12, <1>13, <1>14,
     <1>15, <1>16, <1>17, <1>18, <1>19, <1>20, <1>21, <1>22, <1>23, <1>24, <1>25, <1>26
  DEF Next, LauncherStep, Reap, Killed, TrainerRuns, OrchRuns, UpdateRuns, Fails

(* Who may go on.                                                          *)
LEMMA RendezvousStep ==
  ASSUME ResumeInv, TypeInv', [Next]_vars
  PROVE  Rendezvous'
<1> USE RecoveryAssumption DEF RecoveryAssumption, Step, Version, Offered, ResumeInv,
        TypeInv, TypeOK, Placed, Rendezvous, Leftovers, Handshake, Clean, Unanswered,
        ResumeTogether, Own, Current, Joined, Receiving, LoadsWhole, ckptVars,
        bcastVars, launchVars, trainVars, orchVars, watchVars
<1>1. CASE Launch
  BY <1>1 DEF Launch, KeepBroadcasts, StaleBroadcasts, StaleRollouts, Resolve
<1>2. CASE Down
  BY <1>2 DEF Down, Resolve
<1>3. CASE TrainerSetup
  BY <1>3 DEF TrainerSetup, Resolve
<1>4. CASE Startup
  BY <1>4 DEF Startup, Offer, Resolve
<1>5. CASE Train
  BY <1>5 DEF Train, Offer, Resolve
<1>6. CASE Transfer
  BY <1>6 DEF Transfer, Resolve
<1>7. CASE Finish
  BY <1>7 DEF Finish, Resolve
<1>8. CASE SkipSave
  BY <1>8 DEF SkipSave, NextStep, Resolve
<1>9. CASE TrainerBeginsSave
  BY <1>9 DEF TrainerBeginsSave, Resolve
<1>10. CASE TrainerEndsSave
  BY <1>10 DEF TrainerEndsSave, Resolve
<1>11. CASE Retain
  BY <1>11 DEF Retain, NextStep, Resolve
<1>12. CASE TrainerFails
  BY <1>12 DEF TrainerFails, Resolve
<1>13. CASE OrchSetup
  BY <1>13 DEF OrchSetup, Resolve
<1>14. CASE Send
  BY <1>14 DEF Send, Resolve
<1>15. CASE Shipped
  BY <1>15 DEF Shipped, BeginSave, Resolve
<1>16. CASE EndSave
  BY <1>16 DEF EndSave, Resolve
<1>17. CASE Leave
  BY <1>17 DEF Leave, BeginSave, Resolve
<1>18. CASE Raise
  BY <1>18 DEF Raise, BeginSave, Resolve
<1>19. CASE SyncStartup
  BY <1>19 DEF SyncStartup, Resolve
<1>20. CASE SeeOffer
  BY <1>20 DEF SeeOffer, Resolve
<1>21. CASE Ack
  BY <1>21 DEF Ack, Resolve
<1>22. CASE Load
  BY <1>22 DEF Load, Resolve
<1>23. CASE Loaded
  BY <1>23 DEF Loaded, Resolve
<1>24. CASE SetupFails
  BY <1>24 DEF SetupFails, Resolve
<1>25. CASE UNCHANGED vars
  BY <1>25 DEF vars, Resolve
<1> QED
  BY <1>1, <1>2, <1>3, <1>4, <1>5, <1>6, <1>7, <1>8, <1>9, <1>10, <1>11, <1>12,
     <1>13, <1>14, <1>15, <1>16, <1>17, <1>18, <1>19, <1>20, <1>21, <1>22, <1>23, <1>24,
     <1>25
  DEF Next, LauncherStep, Reap, Killed, TrainerRuns, OrchRuns, UpdateRuns, Fails

(* What other launches left behind.                                        *)
LEMMA LeftoversStep ==
  ASSUME ResumeInv, TypeInv', [Next]_vars
  PROVE  Leftovers'
<1> USE RecoveryAssumption DEF RecoveryAssumption, Step, Version, Offered, ResumeInv,
        TypeInv, TypeOK, Placed, Rendezvous, Leftovers, Handshake, Clean, Unanswered,
        ResumeTogether, Own, Current, Joined, Receiving, LoadsWhole, ckptVars,
        bcastVars, launchVars, trainVars, orchVars, watchVars
<1>1. CASE Launch
  BY <1>1 DEF Launch, KeepBroadcasts, StaleBroadcasts, StaleRollouts
<1>2. CASE Down
  BY <1>2 DEF Down
<1>3. CASE TrainerSetup
  BY <1>3 DEF TrainerSetup
<1>4. CASE Startup
  BY <1>4 DEF Startup, Offer
<1>5. CASE Train
  BY <1>5 DEF Train, Offer
<1>6. CASE Transfer
  BY <1>6 DEF Transfer
<1>7. CASE Finish
  BY <1>7 DEF Finish
<1>8. CASE SkipSave
  BY <1>8 DEF SkipSave, NextStep
<1>9. CASE TrainerBeginsSave
  BY <1>9 DEF TrainerBeginsSave
<1>10. CASE TrainerEndsSave
  BY <1>10 DEF TrainerEndsSave
<1>11. CASE Retain
  BY <1>11 DEF Retain, NextStep
<1>12. CASE TrainerFails
  BY <1>12 DEF TrainerFails
<1>13. CASE OrchSetup
  BY <1>13 DEF OrchSetup
<1>14. CASE Send
  BY <1>14 DEF Send
<1>15. CASE Shipped
  BY <1>15 DEF Shipped, BeginSave
<1>16. CASE EndSave
  BY <1>16 DEF EndSave
<1>17. CASE Leave
  BY <1>17 DEF Leave, BeginSave
<1>18. CASE Raise
  BY <1>18 DEF Raise, BeginSave
<1>19. CASE SyncStartup
  BY <1>19 DEF SyncStartup
<1>20. CASE SeeOffer
  BY <1>20 DEF SeeOffer
<1>21. CASE Ack
  BY <1>21 DEF Ack
<1>22. CASE Load
  BY <1>22 DEF Load
<1>23. CASE Loaded
  BY <1>23 DEF Loaded
<1>24. CASE SetupFails
  BY <1>24 DEF SetupFails
<1>25. CASE UNCHANGED vars
  BY <1>25 DEF vars
<1> QED
  BY <1>1, <1>2, <1>3, <1>4, <1>5, <1>6, <1>7, <1>8, <1>9, <1>10, <1>11, <1>12,
     <1>13, <1>14, <1>15, <1>16, <1>17, <1>18, <1>19, <1>20, <1>21, <1>22, <1>23, <1>24,
     <1>25
  DEF Next, LauncherStep, Reap, Killed, TrainerRuns, OrchRuns, UpdateRuns, Fails

(* Who waits for whom.                                                     *)
LEMMA HandshakeStep ==
  ASSUME ResumeInv, TypeInv', [Next]_vars
  PROVE  Handshake'
<1> USE RecoveryAssumption DEF RecoveryAssumption, Step, Version, Offered, ResumeInv,
        TypeInv, TypeOK, Placed, Rendezvous, Leftovers, Handshake, Clean, Unanswered,
        ResumeTogether, Own, Current, Joined, Receiving, LoadsWhole, ckptVars,
        bcastVars, launchVars, trainVars, orchVars, watchVars
<1>1. CASE Launch
  BY <1>1 DEF Launch, KeepBroadcasts, StaleBroadcasts, StaleRollouts
<1>2. CASE Down
  BY <1>2 DEF Down
<1>3. CASE TrainerSetup
  BY <1>3 DEF TrainerSetup
<1>4. CASE Startup
  BY <1>4 DEF Startup, Offer
<1>5. CASE Train
  BY <1>5 DEF Train, Offer
<1>6. CASE Transfer
  BY <1>6 DEF Transfer
<1>7. CASE Finish
  BY <1>7 DEF Finish
<1>8. CASE SkipSave
  BY <1>8 DEF SkipSave, NextStep
<1>9. CASE TrainerBeginsSave
  BY <1>9 DEF TrainerBeginsSave
<1>10. CASE TrainerEndsSave
  BY <1>10 DEF TrainerEndsSave
<1>11. CASE Retain
  BY <1>11 DEF Retain, NextStep
<1>12. CASE TrainerFails
  BY <1>12 DEF TrainerFails
<1>13. CASE OrchSetup
  BY <1>13 DEF OrchSetup
<1>14. CASE Send
  BY <1>14 DEF Send
<1>15. CASE Shipped
  BY <1>15 DEF Shipped, BeginSave
<1>16. CASE EndSave
  BY <1>16 DEF EndSave
<1>17. CASE Leave
  BY <1>17 DEF Leave, BeginSave
<1>18. CASE Raise
  BY <1>18 DEF Raise, BeginSave
<1>19. CASE SyncStartup
  BY <1>19 DEF SyncStartup
<1>20. CASE SeeOffer
  BY <1>20 DEF SeeOffer
<1>21. CASE Ack
  BY <1>21 DEF Ack
<1>22. CASE Load
  BY <1>22 DEF Load
<1>23. CASE Loaded
  BY <1>23 DEF Loaded
<1>24. CASE SetupFails
  BY <1>24 DEF SetupFails
<1>25. CASE UNCHANGED vars
  BY <1>25 DEF vars
<1> QED
  BY <1>1, <1>2, <1>3, <1>4, <1>5, <1>6, <1>7, <1>8, <1>9, <1>10, <1>11, <1>12,
     <1>13, <1>14, <1>15, <1>16, <1>17, <1>18, <1>19, <1>20, <1>21, <1>22, <1>23, <1>24,
     <1>25
  DEF Next, LauncherStep, Reap, Killed, TrainerRuns, OrchRuns, UpdateRuns, Fails


(* The invariant holds initially ...                                       *)
LEMMA ResumeInit == Init => ResumeInv
  BY RecoveryAssumption
  DEF Init, RecoveryAssumption, Step, Version, ResumeInv, TypeInv, TypeOK, Placed,
      Rendezvous, Leftovers, Handshake, Clean, Unanswered, ResumeTogether, Own,
      Current, Joined, Receiving, LoadsWhole

(* ... and every step keeps it.                                            *)
LEMMA ResumeNext == ResumeInv /\ [Next]_vars => ResumeInv'
<1> SUFFICES ASSUME ResumeInv, [Next]_vars PROVE ResumeInv'
  OBVIOUS
<1>1. TypeInv'
  BY TypeStep DEF ResumeInv
<1> QED BY <1>1, RendezvousStep, LeftoversStep, HandshakeStep DEF ResumeInv

LEMMA ResumeInvariant == Spec => []ResumeInv
  BY ResumeInit, ResumeNext, PTL DEF Spec

(* Every step a crash, a resume or a retention leaves behind is a step of   *)
(* the run, and every process is where the code can be.                    *)
THEOREM RecoveryTyped == Spec => []TypeOK
<1>1. ResumeInv => TypeOK
  BY DEF ResumeInv, TypeInv
<1> QED BY <1>1, ResumeInvariant, PTL

(* Launcher, trainer and orchestrator resume from the same step, although  *)
(* each looks for the latest checkpoint on its own.                        *)
THEOREM ProcessesResumeTogether == Spec => []ResumeTogether
<1>1. ResumeInv => ResumeTogether
  BY DEF ResumeInv, Rendezvous
<1> QED BY <1>1, ResumeInvariant, PTL

(* The engines never load a broadcast that is being rewritten, or that an  *)
(* earlier launch wrote.                                                   *)
THEOREM EnginesLoadWhole == Spec => []LoadsWhole
<1>1. ResumeInv => LoadsWhole
  BY DEF ResumeInv, Handshake
<1> QED BY <1>1, ResumeInvariant, PTL

(* The trainer never trains on a batch of an earlier launch.               *)
THEOREM TrainsOnOwnBatch == Spec => OwnBatch
<1>1. ResumeInv => [Train => rollouts[tstep] = life]_vars
  <2> SUFFICES ASSUME ResumeInv, Train PROVE rollouts[tstep] = life
    OBVIOUS
  <2>1. job = "up"
    BY DEF Train, ResumeInv, TypeInv, TypeOK, Placed
  <2>2. tstep \in Step /\ tstep > base /\ rollouts[tstep] # 0
    BY DEF Train, ResumeInv, Leftovers, Own
  <2> QED BY <2>1, <2>2 DEF ResumeInv, Leftovers, Own
<1> QED BY <1>1, ResumeInvariant, PTL DEF OwnBatch
-----------------------------------------------------------------------------
(* The step a process that trains t can fall back on: the last one due for a *)
(* save before t, or the one the run resumed from.                           *)
Anchor(a, t) ==
  /\ a \in Version
  /\ base <= a /\ a < t
  /\ a = base \/ OnInterval(a)
  /\ \A d \in Step : a < d /\ d < t => ~OnInterval(d)

(* Batch t of this launch is in the run directory.                          *)
Sent(t) == t \in Step /\ t > base /\ rollouts[t] = life
Training == trainer \in {"startup", "offer", "transfer", "batch", "trained", "saving", "saved"}

(* What the trainer made of the checkpoints: a directory holds what was     *)
(* saved, and a run from scratch has only its own saves.                    *)
OwnSaves ==
  /\ \A s \in Step : trainSaved[s] # "none" => s \in ckptDir
  /\ trainer \in {"off", "setup"} => tstep = 1
  /\ trainer = "setup" /\ asked > 0 => asked \in ckptDir
  /\ trainer \in {"saving", "saved"} => TrainerSaveDue
  /\ job = "up" /\ base = 0 =>
       \A s \in Step : trainSaved[s] = "whole" =>
         \/ s < tstep /\ OnInterval(s)
         \/ s = tstep /\ trainer \in {"saved", "done", "dead"}

(* The trainer's half of its anchor is whole, unless it resumed from a mixed *)
(* one, and nothing it knows of is newer but the step it just saved.        *)
TrainerHalf ==
  Training =>
    /\ \A a : Anchor(a, tstep) /\ a > 0 =>
         /\ a \in known /\ a \in ckptDir
         /\ trainSaved[a] = "whole" \/ (a = base /\ trainSaved[a] = "mixed")
    /\ \A u \in known : \/ u <= base
                        \/ u < tstep /\ OnInterval(u)
                        \/ u = tstep /\ trainer = "saved"
    /\ trainer = "saving" => trainSaved[tstep] # "none"
    /\ trainer = "saved" => /\ tstep \in known /\ tstep \in ckptDir
                            /\ trainSaved[tstep] = "whole"

(* Batches are sent in order, and trained only once sent.                   *)
SentInOrder ==
  job = "up" =>
    /\ \A t \in Step : Sent(t) =>
         /\ orch \notin {"setup", "sync"}
         /\ \/ t < ostep
            \/ t = ostep /\ (orch \in {"sending", "dead"} \/ (orch = "saving" /\ after = "dead"))
    /\ trainer \in {"trained", "saving", "saved"} => Sent(tstep)
    /\ trainer \in {"offer", "transfer"} /\ offer = tstep => Sent(tstep)
    /\ orch \in {"main", "sending", "saving"} => base < ostep

(* The orchestrator's half of the anchor of each batch it sends, or has sent *)
(* and the trainer is not past.                                             *)
HasHalf(t) == \A a : Anchor(a, t) /\ a > 0 => a \in orchSaved
OrchHalf ==
  /\ orch = "sync" => base = 0 \/ base \in orchSaved
  /\ orch \in {"main", "sending"} /\ ostep \in Step => HasHalf(ostep)
  /\ orch = "saving" /\ after = "main" => OnInterval(ostep - 1)
  /\ job = "up" => \A t \in Step : Sent(t) /\ t >= tstep => HasHalf(t)

RollInv == OwnSaves /\ TrainerHalf /\ SentInOrder /\ OrchHalf

(* There is a step to fall back on for every step of this launch.           *)
LEMMA AnchorExists ==
  ASSUME base \in Version, NEW t \in Step, base < t
  PROVE  \E a : Anchor(a, t)
<1> USE RecoveryAssumption DEF RecoveryAssumption, Step, Version
<1> DEFINE S == {d \in Step : base < d /\ d < t /\ OnInterval(d)}
<1>1. CASE S = {}
  <2>1. Anchor(base, t)
    BY <1>1 DEF Anchor
  <2> QED BY <2>1
<1>2. CASE S # {}
  <2>1. Max(S) \in S /\ \A s \in S : Max(S) >= s
    BY <1>2, LatestExists
  <2>2. Anchor(Max(S), t)
    BY <2>1 DEF Anchor
  <2> QED BY <2>2
<1> QED BY <1>1, <1>2

(* What a process resolves is 0 only where there is nothing to resume from.  *)
LEMMA ResolveFinds ==
  ASSUME ckptDir \subseteq Step, NEW a \in {0} \cup ckptDir
  PROVE  \/ Resolve(a) = 0 /\ ckptDir = {}
         \/ /\ Resolve(a) \in ckptDir
            /\ a = 0 => \A u \in ckptDir : u <= Resolve(a)
            /\ a # 0 => Resolve(a) = a
<1> USE RecoveryAssumption DEF RecoveryAssumption
<1>1. \A u \in ckptDir : u \in Int /\ u > 0
  BY DEF Step
<1>2. CASE a # 0
  BY <1>1, <1>2 DEF Resolve
<1>3. CASE a = 0 /\ ckptDir = {}
  BY <1>3 DEF Resolve
<1>4. CASE a = 0 /\ ckptDir # {}
  <2>1. Max(ckptDir) \in ckptDir /\ \A u \in ckptDir : Max(ckptDir) >= u
    BY <1>4, LatestExists
  <2>2. Resolve(a) = Max(ckptDir)
    BY <1>4 DEF Resolve
  <2> QED BY <1>1, <1>4, <2>1, <2>2
<1> QED BY <1>2, <1>3, <1>4

(* So a run that starts from scratch finds no checkpoint.                   *)
LEMMA FromScratch ==
  ASSUME TypeInv, OwnSaves, Launch, base' = 0
  PROVE  \A s \in Step : trainSaved[s] = "none"
<1>1. ckptDir \subseteq Step /\ asked' \in {0} \cup ckptDir /\ base' = Resolve(asked')
  BY DEF TypeInv, TypeOK, Launch
<1>2. 0 \notin Step
  BY RecoveryAssumption DEF RecoveryAssumption, Step
<1>3. ckptDir = {}
  BY <1>1, <1>2, ResolveFinds, Zenon
<1> QED BY <1>3 DEF OwnSaves

(* The trainer that has loaded its checkpoint knows the one it resumed from, *)
(* and none later.                                                          *)
LEMMA TrainerFinds ==
  ASSUME TypeInv, ResumeTogether, OwnSaves, TrainerSetup, trainer' # "dead"
  PROVE  /\ tstep' = base + 1
         /\ base > 0 => /\ base \in known' /\ base \in ckptDir
                        /\ trainSaved[base] \in {"mixed", "whole"}
         /\ \A u \in known' : u <= base
<1>1. /\ trainer = "setup" /\ Resolve(asked) = base /\ tstep' = base + 1
      /\ known' = KnownSteps
      /\ base > 0 => trainSaved[base] \in {"mixed", "whole"}
  BY DEF TrainerSetup, ResumeTogether
<1>2. ckptDir \subseteq Step /\ asked \in {0} \cup ckptDir /\ base \in Version
  BY <1>1 DEF TypeInv, TypeOK, OwnSaves, Version
<1>3. \/ base = 0 /\ ckptDir = {}
      \/ /\ base \in ckptDir
         /\ asked = 0 => \A u \in ckptDir : u <= base
         /\ asked # 0 => base = asked
  BY <1>1, <1>2, ResolveFinds
<1>4. \A u \in ckptDir : u \in Int /\ u > 0
  BY <1>2, RecoveryAssumption DEF RecoveryAssumption, Step
<1>5. \A u \in known' : u <= base
  BY <1>1, <1>2, <1>3, <1>4 DEF KnownSteps
<1>6. base > 0 => base \in known' /\ base \in ckptDir
  BY <1>1, <1>3, <1>4 DEF KnownSteps
<1> QED BY <1>1, <1>5, <1>6

(* Past a step that is not due for a save it stays the same one, past a step *)
(* that is due it is that step.                                             *)
LEMMA AnchorMoves ==
  ASSUME base \in Version, NEW t \in Step, base < t, NEW a, Anchor(a, t + 1)
  PROVE  IF OnInterval(t) THEN a = t ELSE Anchor(a, t)
<1> USE RecoveryAssumption DEF RecoveryAssumption, Step, Version
<1>1. a \in Version /\ base <= a /\ a <= t /\ (a = base \/ OnInterval(a))
  BY DEF Anchor
<1>2. \A d \in Step : a < d /\ d <= t => ~OnInterval(d)
  BY DEF Anchor
<1>3. CASE OnInterval(t)
  BY <1>1, <1>2, <1>3
<1>4. CASE ~OnInterval(t)
  <2>1. a < t
    BY <1>1, <1>4
  <2> QED BY <1>1, <1>2, <1>4, <2>1 DEF Anchor
<1> QED BY <1>3, <1>4

(* The one of a later step, if it is earlier still.                         *)
LEMMA AnchorBefore ==
  ASSUME NEW t \in Step, NEW u \in Step, u <= t, NEW a, Anchor(a, t), a < u
  PROVE  Anchor(a, u)
  BY RecoveryAssumption DEF RecoveryAssumption, Step, Version, Anchor

(* Retention keeps the step just saved and the one before it.               *)
LEMMA RecentKept ==
  ASSUME KeepLast # 1, TypeInv, Leftovers, TrainerHalf, trainer = "saved"
  PROVE  /\ tstep \in Kept /\ Kept \subseteq known
         /\ \A a : Anchor(a, tstep) /\ a > 0 => a \in Kept
<1> USE RecoveryAssumption DEF RecoveryAssumption, TypeInv, TypeOK, Placed, Step, Version
<1>1. tstep \in Step /\ tstep \in known
  BY DEF TrainerHalf, Training
<1>2. ASSUME NEW s \in known, {u \in known : u > s} \subseteq {tstep}
      PROVE  s \in Kept
  <2>1. IsFiniteSet({tstep}) /\ Cardinality({tstep}) = 1
    BY FS_Singleton
  <2> DEFINE later == {u \in known : u > s}
  <2>2. IsFiniteSet(later) /\ Cardinality(later) <= 1
    BY <1>2, <2>1, FS_Subset
  <2>3. Cardinality(later) \in Nat
    BY <2>2, FS_CardinalityType
  <2>4. KeepLast > 0 => Cardinality(later) < KeepLast
    BY <2>2, <2>3
  <2>5. KeepLast = 0 => KeepInterval = 0
    OBVIOUS
  <2> QED BY <2>4, <2>5 DEF Kept, Recent
<1>3. \A u \in known : u \in Step /\ (u <= base \/ (u < tstep /\ OnInterval(u)) \/ u = tstep)
  BY DEF TrainerHalf, Training
<1>4. tstep \in Kept
  <2>1. base < tstep
    BY DEF Leftovers, Own
  <2>2. \A u \in known : ~ (u > tstep)
    BY <1>1, <1>3, <2>1
  <2> QED BY <1>1, <1>2, <2>2
<1>5. ASSUME NEW a, Anchor(a, tstep), a > 0 PROVE a \in Kept
  <2>1. a \in known /\ a \in Version /\ base <= a
    BY <1>5 DEF TrainerHalf, Training, Anchor
  <2>2. \A u \in known : u > a => u = tstep
    BY <1>1, <1>3, <1>5, <2>1 DEF Anchor
  <2> QED BY <1>2, <2>1, <2>2
<1>6. Kept \subseteq known
  BY DEF Kept, Recent
<1> QED BY <1>1, <1>2, <1>4, <1>5, <1>6

(* What was saved.                                                          *)
LEMMA OwnSavesStep ==
  ASSUME KeepLast # 1, ResumeInv, ResumeInv', RollInv, [Next]_vars
  PROVE  OwnSaves'
<1> USE RecoveryAssumption DEF RecoveryAssumption, Step, Version, ResumeInv, TypeInv,
        TypeOK, Placed, ckptVars, bcastVars, launchVars, trainVars, orchVars, watchVars,
        RollInv, Rendezvous, ResumeTogether, OwnSaves, TrainerSaveDue
<1>1. CASE Launch
  <2>1. /\ asked' \in {0} \cup ckptDir /\ base' = Resolve(asked')
        /\ job = "down" /\ trainer' = "setup" /\ UNCHANGED <<ckptVars, tstep>>
    BY <1>1 DEF Launch
  <2>2. tstep' = 1
    BY <2>1
  <2>3. base' = 0 => \A s \in Step : trainSaved[s] = "none"
    BY <1>1, FromScratch
  <2>4. \A s \in Step : trainSaved'[s] # "none" => s \in ckptDir'
    BY <2>1
  <2>5. asked' > 0 => asked' \in ckptDir'
    BY <2>1
  <2>6. (base' = 0 => \A s \in Step : trainSaved'[s] # "whole") /\ trainer' = "setup"
    BY <2>1, <2>3
  <2> HIDE DEF ResumeInv, RollInv
  <2> QED BY <2>2, <2>4, <2>5, <2>6
<1>2. CASE Down
  BY <1>2 DEF Down
<1>3. CASE TrainerSetup
  BY <1>3 DEF TrainerSetup
<1>4. CASE Startup
  BY <1>4 DEF Startup, Offer
<1>5. CASE Train
  BY <1>5 DEF Train, Offer
<1>6. CASE Transfer
  BY <1>6 DEF Transfer
<1>7. CASE Finish
  BY <1>7 DEF Finish
<1>8. CASE SkipSave
  BY <1>8 DEF SkipSave, NextStep
<1>9. CASE TrainerBeginsSave
  BY <1>9 DEF TrainerBeginsSave
<1>10. CASE TrainerEndsSave
  BY <1>10 DEF TrainerEndsSave, TrainerHalf, Training
<1>11. CASE Retain
  BY <1>11 DEF Retain, NextStep
<1>12. CASE TrainerFails
  BY <1>12 DEF TrainerFails
<1>13. CASE OrchSetup
  BY <1>13 DEF OrchSetup
<1>14. CASE Send
  BY <1>14 DEF Send
<1>15. CASE Shipped
  BY <1>15 DEF Shipped, BeginSave
<1>16. CASE EndSave
  BY <1>16 DEF EndSave
<1>17. CASE Leave
  BY <1>17 DEF Leave, BeginSave
<1>18. CASE Raise
  BY <1>18 DEF Raise, BeginSave
<1>19. CASE SyncStartup
  BY <1>19 DEF SyncStartup
<1>20. CASE SeeOffer
  BY <1>20 DEF SeeOffer
<1>21. CASE Ack
  BY <1>21 DEF Ack
<1>22. CASE Load
  BY <1>22 DEF Load
<1>23. CASE Loaded
  BY <1>23 DEF Loaded
<1>24. CASE SetupFails
  BY <1>24 DEF SetupFails
<1>25. CASE UNCHANGED vars
  BY <1>25 DEF vars
<1> QED
  BY <1>1, <1>2, <1>3, <1>4, <1>5, <1>6, <1>7, <1>8, <1>9, <1>10, <1>11, <1>12, <1>13,
     <1>14, <1>15, <1>16, <1>17, <1>18, <1>19, <1>20, <1>21, <1>22, <1>23, <1>24, <1>25
  DEF Next, LauncherStep, Reap, Killed, TrainerRuns, OrchRuns, UpdateRuns, Fails

(* The trainer's half.                                                      *)
LEMMA TrainerHalfStep ==
  ASSUME KeepLast # 1, ResumeInv, ResumeInv', RollInv, [Next]_vars
  PROVE  TrainerHalf'
<1> USE RecoveryAssumption DEF RecoveryAssumption, Step, Version, ResumeInv, TypeInv,
        TypeOK, Placed, ckptVars, bcastVars, launchVars, trainVars, orchVars, watchVars,
        RollInv, Rendezvous, ResumeTogether, Leftovers, Own, OwnSaves, TrainerHalf,
        Training, Anchor
<1>1. CASE Launch
  BY <1>1 DEF Launch, KeepBroadcasts, StaleBroadcasts, StaleRollouts, Resolve
<1>2. CASE Down
  BY <1>2 DEF Down
<1>3. CASE TrainerSetup
  <2>1. CASE trainer' = "dead"
    BY <2>1
  <2>2. CASE trainer' # "dead"
    <3>1. /\ trainer' = "startup" /\ tstep' = base + 1
          /\ base > 0 => trainSaved[base] \in {"mixed", "whole"}
          /\ UNCHANGED <<ckptVars, launchVars>>
      BY <1>3, <2>2, TrainerFinds DEF TrainerSetup
    <3>4. base > 0 => base \in ckptDir /\ base \in known'
      BY <1>3, <2>2, TrainerFinds
    <3>5. \A u \in known' : u <= base
      BY <1>3, <2>2, TrainerFinds
    <3>6. \A a : Anchor(a, tstep)' => a = base
      BY <3>1
    <3>7. base > 0 => /\ base \in ckptDir'
                      /\ trainSaved'[base] = "whole" \/ trainSaved'[base] = "mixed"
      BY <3>1, <3>4
    <3>8. base' = base /\ trainer' = "startup"
      BY <3>1
    <3>9. \A a : Anchor(a, tstep)' /\ a > 0 => a \in known' /\ a = base /\ base > 0
      BY <3>4, <3>6
    <3> HIDE DEF Anchor
    <3> QED BY <3>5, <3>7, <3>8, <3>9
  <2> QED BY <2>1, <2>2
<1>4. CASE Startup
  BY <1>4 DEF Startup, Offer
<1>5. CASE Train
  BY <1>5 DEF Train, Offer
<1>6. CASE Transfer
  BY <1>6 DEF Transfer
<1>7. CASE Finish
  BY <1>7 DEF Finish
<1>8. CASE SkipSave
  <2>1. CASE trainer' = "done"
    BY <2>1
  <2>2. CASE trainer' # "done"
    <3>1. /\ trainer = "trained" /\ trainer' = "batch" /\ tstep' = tstep + 1
          /\ ~OnInterval(tstep) /\ UNCHANGED <<ckptVars, launchVars, known>>
      BY <1>8, <2>2 DEF SkipSave, NextStep, TrainerSaveDue
    <3>2. base < tstep /\ tstep \in Step
      BY <3>1
    <3>3. \A a : Anchor(a, tstep)' => Anchor(a, tstep + 1)
      BY <3>1
    <3>4. \A a : Anchor(a, tstep)' => Anchor(a, tstep)
      <4> HIDE DEF Anchor
      <4> QED BY <3>1, <3>2, <3>3, AnchorMoves
    <3>5. \A u \in known : u <= base \/ (u < tstep' /\ OnInterval(u))
      BY <3>1, <3>2
    <3> HIDE DEF Anchor
    <3> QED BY <3>1, <3>4, <3>5
  <2> QED BY <2>1, <2>2
<1>9. CASE TrainerBeginsSave
  BY <1>9 DEF TrainerBeginsSave
<1>10. CASE TrainerEndsSave
  BY <1>10 DEF TrainerEndsSave
<1>11. CASE Retain
  <2>1. CASE trainer' = "done"
    BY <2>1
  <2>2. CASE trainer' # "done"
    <3>1. /\ trainer = "saved" /\ trainer' = "batch" /\ tstep' = tstep + 1
          /\ ckptDir' = ckptDir \ (known \ Kept) /\ known' = Kept
          /\ \A s \in Step : s \notin known \ Kept => trainSaved'[s] = trainSaved[s]
          /\ UNCHANGED launchVars
      BY <1>11, <2>2 DEF Retain, NextStep
    <3>2. base < tstep /\ tstep \in Step /\ OnInterval(tstep)
      BY <1>11, <2>2 DEF Retain, NextStep, TrainerSaveDue
    <3>3. \A a : Anchor(a, tstep)' => a = tstep
      <4>1. \A a : Anchor(a, tstep)' => Anchor(a, tstep + 1)
        BY <3>1
      <4> HIDE DEF Anchor
      <4> QED BY <3>1, <3>2, <4>1, AnchorMoves
    <3>4. tstep \in Kept /\ Kept \subseteq known
      BY <3>1, RecentKept
    <3>5. \A u \in known' : u <= base \/ (u < tstep' /\ OnInterval(u))
      <4>1. \A u \in known : u \in Step /\ (u <= base \/ (u < tstep /\ OnInterval(u)) \/ u = tstep)
        BY <3>1
      <4>2. known' \subseteq known /\ tstep' = tstep + 1 /\ tstep \in Step
        BY <3>1, <3>2, <3>4
      <4> HIDE DEF TrainerHalf, OwnSaves, TypeOK, Placed, Anchor, Rendezvous, Leftovers, OnInterval
      <4> QED BY <3>2, <4>1, <4>2
    <3>6. tstep \in ckptDir' /\ trainSaved'[tstep] = "whole"
      BY <3>1, <3>2, <3>4
    <3> HIDE DEF Anchor
    <3> QED BY <3>1, <3>2, <3>3, <3>4, <3>5, <3>6
  <2> QED BY <2>1, <2>2
<1>12. CASE TrainerFails
  BY <1>12 DEF TrainerFails
<1>13. CASE OrchSetup
  BY <1>13 DEF OrchSetup
<1>14. CASE Send
  BY <1>14 DEF Send
<1>15. CASE Shipped
  BY <1>15 DEF Shipped, BeginSave
<1>16. CASE EndSave
  BY <1>16 DEF EndSave
<1>17. CASE Leave
  BY <1>17 DEF Leave, BeginSave
<1>18. CASE Raise
  BY <1>18 DEF Raise, BeginSave
<1>19. CASE SyncStartup
  BY <1>19 DEF SyncStartup
<1>20. CASE SeeOffer
  BY <1>20 DEF SeeOffer
<1>21. CASE Ack
  BY <1>21 DEF Ack
<1>22. CASE Load
  BY <1>22 DEF Load
<1>23. CASE Loaded
  BY <1>23 DEF Loaded
<1>24. CASE SetupFails
  BY <1>24 DEF SetupFails
<1>25. CASE UNCHANGED vars
  BY <1>25 DEF vars
<1> QED
  BY <1>1, <1>2, <1>3, <1>4, <1>5, <1>6, <1>7, <1>8, <1>9, <1>10, <1>11, <1>12, <1>13,
     <1>14, <1>15, <1>16, <1>17, <1>18, <1>19, <1>20, <1>21, <1>22, <1>23, <1>24, <1>25
  DEF Next, LauncherStep, Reap, Killed, TrainerRuns, OrchRuns, UpdateRuns, Fails

(* The order of the batches.                                                *)
LEMMA SentStep ==
  ASSUME KeepLast # 1, ResumeInv, ResumeInv', RollInv, [Next]_vars
  PROVE  SentInOrder'
<1> USE RecoveryAssumption DEF RecoveryAssumption, Step, Version, ResumeInv, TypeInv,
        TypeOK, Placed, ckptVars, bcastVars, launchVars, trainVars, orchVars, watchVars,
        RollInv, Rendezvous, ResumeTogether, Clean, Unanswered, Leftovers, Own, Current,
        SentInOrder, Sent
<1>1. CASE Launch
  BY <1>1 DEF Launch, KeepBroadcasts, StaleBroadcasts, StaleRollouts, Resolve
<1>2. CASE Down
  BY <1>2 DEF Down
<1>3. CASE TrainerSetup
  BY <1>3 DEF TrainerSetup
<1>4. CASE Startup
  BY <1>4 DEF Startup, Offer
<1>5. CASE Train
  BY <1>5 DEF Train, Offer
<1>6. CASE Transfer
  BY <1>6 DEF Transfer
<1>7. CASE Finish
  BY <1>7 DEF Finish
<1>8. CASE SkipSave
  BY <1>8 DEF SkipSave, NextStep
<1>9. CASE TrainerBeginsSave
  BY <1>9 DEF TrainerBeginsSave
<1>10. CASE TrainerEndsSave
  BY <1>10 DEF TrainerEndsSave
<1>11. CASE Retain
  BY <1>11 DEF Retain, NextStep
<1>12. CASE TrainerFails
  BY <1>12 DEF TrainerFails
<1>13. CASE OrchSetup
  BY <1>13 DEF OrchSetup
<1>14. CASE Send
  BY <1>14 DEF Send
<1>15. CASE Shipped
  BY <1>15 DEF Shipped, BeginSave
<1>16. CASE EndSave
  BY <1>16 DEF EndSave
<1>17. CASE Leave
  BY <1>17 DEF Leave, BeginSave
<1>18. CASE Raise
  BY <1>18 DEF Raise, BeginSave
<1>19. CASE SyncStartup
  BY <1>19 DEF SyncStartup
<1>20. CASE SeeOffer
  BY <1>20 DEF SeeOffer
<1>21. CASE Ack
  BY <1>21 DEF Ack
<1>22. CASE Load
  BY <1>22 DEF Load
<1>23. CASE Loaded
  BY <1>23 DEF Loaded
<1>24. CASE SetupFails
  BY <1>24 DEF SetupFails
<1>25. CASE UNCHANGED vars
  BY <1>25 DEF vars
<1> QED
  BY <1>1, <1>2, <1>3, <1>4, <1>5, <1>6, <1>7, <1>8, <1>9, <1>10, <1>11, <1>12, <1>13,
     <1>14, <1>15, <1>16, <1>17, <1>18, <1>19, <1>20, <1>21, <1>22, <1>23, <1>24, <1>25
  DEF Next, LauncherStep, Reap, Killed, TrainerRuns, OrchRuns, UpdateRuns, Fails

(* The orchestrator's half.                                                 *)
LEMMA OrchHalfStep ==
  ASSUME KeepLast # 1, ResumeInv, ResumeInv', RollInv, [Next]_vars
  PROVE  OrchHalf'
<1> USE RecoveryAssumption DEF RecoveryAssumption, Step, Version, ResumeInv, TypeInv,
        TypeOK, Placed, ckptVars, bcastVars, launchVars, trainVars, orchVars, watchVars,
        RollInv, Rendezvous, ResumeTogether, Clean, Unanswered, Leftovers, Own,
        SentInOrder, Sent, OrchHalf, HasHalf, Anchor
<1>1. CASE Launch
  <2>1. orch' = "setup" /\ life' = life + 1
    BY <1>1 DEF Launch
  <2>2. \A t \in Step : ~Sent(t)'
    BY <1>1, <2>1 DEF Launch, StaleRollouts
  <2> HIDE DEF Sent, HasHalf
  <2> QED BY <2>1, <2>2
<1>2. CASE Down
  BY <1>2 DEF Down
<1>3. CASE TrainerSetup
  <2>1. /\ tstep = 1 /\ tstep' \in Nat \ {0}
        /\ UNCHANGED <<orchSaved, rollouts, launchVars, orchVars>>
    BY <1>3 DEF TrainerSetup, OwnSaves
  <2>2. \A t \in Step : HasHalf(t)' = HasHalf(t) /\ Sent(t)' = Sent(t)
    BY <2>1
  <2>3. \A t \in Step : t >= tstep' => t >= tstep
    <3>1. tstep \in Int /\ tstep' \in Int /\ tstep <= tstep'
      BY <2>1
    <3> HIDE DEF ResumeInv, RollInv
    <3> QED BY <3>1
  <2> HIDE DEF HasHalf, Sent
  <2> QED BY <2>1, <2>2, <2>3
<1>4. CASE Startup
  BY <1>4 DEF Startup, Offer
<1>5. CASE Train
  BY <1>5 DEF Train, Offer
<1>6. CASE Transfer
  BY <1>6 DEF Transfer
<1>7. CASE Finish
  BY <1>7 DEF Finish
<1>8. CASE SkipSave
  <2>1. tstep' \in {tstep, tstep + 1} /\ UNCHANGED <<orchSaved, rollouts, launchVars, orchVars>>
    BY <1>8 DEF SkipSave, NextStep
  <2>2. \A t \in Step : HasHalf(t)' = HasHalf(t) /\ Sent(t)' = Sent(t)
    BY <2>1
  <2>3. \A t \in Step : t >= tstep' => t >= tstep
    <3>1. tstep \in Int /\ tstep' \in Int /\ tstep <= tstep'
      BY <2>1
    <3> HIDE DEF ResumeInv, RollInv
    <3> QED BY <3>1
  <2> HIDE DEF HasHalf, Sent
  <2> QED BY <2>1, <2>2, <2>3
<1>9. CASE TrainerBeginsSave
  BY <1>9 DEF TrainerBeginsSave
<1>10. CASE TrainerEndsSave
  BY <1>10 DEF TrainerEndsSave
<1>11. CASE Retain
  <2>1. /\ trainer = "saved" /\ tstep' \in {tstep, tstep + 1}
        /\ orchSaved' = orchSaved \ (known \ Kept)
        /\ UNCHANGED <<rollouts, launchVars, orchVars>>
    BY <1>11 DEF Retain, NextStep
  <2>2. /\ Sent(tstep) /\ orch \notin {"setup", "sync"} /\ tstep \in Step
        /\ orch \in {"main", "sending"} => tstep <= ostep
    BY <2>1
  <2>3. tstep \in Kept /\ \A a : Anchor(a, tstep) /\ a > 0 => a \in Kept
    BY <2>1, RecentKept
  <2>4. \A u \in known : u <= tstep
    BY <2>1, <2>2 DEF TrainerHalf, Training
  <2>5. ASSUME NEW t \in Step, t >= tstep, HasHalf(t) PROVE HasHalf(t)'
    <3> SUFFICES ASSUME NEW a, Anchor(a, t), a > 0 PROVE a \in orchSaved'
      BY <2>1
    <3>1. a \in orchSaved /\ a \in Version
      BY <2>5
    <3>2. CASE a < tstep
      <4> HIDE DEF Anchor
      <4>1. Anchor(a, tstep)
        BY <2>2, <2>5, <3>2, AnchorBefore
      <4> QED BY <2>1, <2>3, <3>1, <4>1
    <3>3. CASE a >= tstep
      <4>1. a \in known => a = tstep
        BY <2>2, <2>4, <3>1, <3>3
      <4> QED BY <2>1, <2>3, <3>1, <4>1
    <3> QED BY <2>2, <3>1, <3>2, <3>3
  <2>6. \A t \in Step : /\ Sent(t)' = Sent(t)
                        /\ t >= tstep' => t >= tstep
    <3>1. \A t \in Step : Sent(t)' = Sent(t)
      BY <2>1
    <3>2. \A t \in Step : t >= tstep' => t >= tstep
      <4>1. tstep \in Int /\ tstep' \in Int /\ tstep <= tstep'
        BY <2>1, <2>2
      <4> HIDE DEF ResumeInv, RollInv
      <4> QED BY <4>1
    <3> QED BY <3>1, <3>2
  <2>7. CASE orch \in {"main", "sending"} /\ ostep \in Step
    <3> HIDE DEF HasHalf, Sent
    <3> QED BY <2>1, <2>2, <2>5, <2>6, <2>7
  <2>8. CASE ~(orch \in {"main", "sending"} /\ ostep \in Step)
    <3> HIDE DEF HasHalf, Sent
    <3> QED BY <2>1, <2>2, <2>5, <2>6, <2>8
  <2> QED BY <2>7, <2>8
<1>12. CASE TrainerFails
  BY <1>12 DEF TrainerFails
<1>13. CASE OrchSetup
  BY <1>13 DEF OrchSetup
<1>14. CASE Send
  <2>1. /\ orch = "main" /\ orch' = "sending" /\ ostep \in Step
        /\ rollouts' = [rollouts EXCEPT ![ostep] = life]
        /\ UNCHANGED <<orchSaved, launchVars, tstep, ostep, after>>
    BY <1>14 DEF Send
  <2>2. \A t \in Step : HasHalf(t)' = HasHalf(t) /\ (Sent(t)' => Sent(t) \/ t = ostep)
    BY <2>1
  <2> HIDE DEF HasHalf, Sent
  <2> QED BY <2>1, <2>2
<1>15. CASE Shipped
  <2>1. /\ orch = "sending" /\ ostep \in Step /\ ostep' = ostep + 1
        /\ UNCHANGED <<orchSaved, rollouts, launchVars, tstep>>
    BY <1>15 DEF Shipped, BeginSave
  <2>2. \A t \in Step : HasHalf(t)' = HasHalf(t) /\ Sent(t)' = Sent(t)
    BY <2>1
  <2>3. CASE OrchSaveDue /\ BeginSave(ostep, "main")
    <3>1. orch' = "saving" /\ after' = "main" /\ OnInterval(ostep' - 1)
      BY <2>1, <2>3 DEF BeginSave, OrchSaveDue
    <3> HIDE DEF HasHalf, Sent
    <3> QED BY <2>1, <2>2, <3>1
  <2>4. CASE ~OrchSaveDue /\ orch' = "main"
    <3>1. ostep' \in Step => ~OnInterval(ostep)
      BY <2>1, <2>4 DEF OrchSaveDue
    <3>2. base < ostep
      BY <2>1
    <3>3. ostep' \in Step => HasHalf(ostep)'
      <4> SUFFICES ASSUME ostep' \in Step, NEW a, Anchor(a, ostep)', a > 0
                   PROVE  a \in orchSaved'
        OBVIOUS
      <4>1. Anchor(a, ostep + 1)
        BY <2>1
      <4>2. HasHalf(ostep)
        BY <2>1
      <4> HIDE DEF Anchor
      <4>3. Anchor(a, ostep)
        BY <2>1, <3>1, <3>2, <4>1, AnchorMoves
      <4> QED BY <2>1, <4>2, <4>3
    <3> HIDE DEF HasHalf, Sent
    <3> QED BY <2>1, <2>2, <2>4, <3>3
  <2> QED BY <1>15, <2>3, <2>4 DEF Shipped
<1>16. CASE EndSave
  <2>1. /\ orch = "saving" /\ orch' = after
        /\ orchSaved' = orchSaved \cup {ostep - 1}
        /\ UNCHANGED <<rollouts, launchVars, tstep, ostep>>
    BY <1>16 DEF EndSave, LastFinished
  <2>2. \A t \in Step : (HasHalf(t) => HasHalf(t)') /\ Sent(t)' = Sent(t)
    BY <2>1
  <2>3. after = "main" /\ ostep \in Step => HasHalf(ostep)'
    <3>1. after = "main" => OnInterval(ostep - 1) /\ ostep - 1 \in Step
      BY <2>1
    <3>2. after = "main" => \A a : Anchor(a, ostep) => a = ostep - 1
      BY <3>1
    <3> QED BY <2>1, <3>2
  <2>4. orch' \notin {"sync", "sending", "saving"} /\ (orch' = "main" => after = "main")
    BY <2>1
  <2> HIDE DEF HasHalf, Sent
  <2> QED BY <2>1, <2>2, <2>3, <2>4
<1>17. CASE Leave
  BY <1>17 DEF Leave, BeginSave
<1>18. CASE Raise
  BY <1>18 DEF Raise, BeginSave
<1>19. CASE SyncStartup
  BY <1>19 DEF SyncStartup
<1>20. CASE SeeOffer
  BY <1>20 DEF SeeOffer
<1>21. CASE Ack
  BY <1>21 DEF Ack
<1>22. CASE Load
  BY <1>22 DEF Load
<1>23. CASE Loaded
  <2>1. /\ orch' = IF orch = "sync" THEN "main" ELSE orch
        /\ UNCHANGED <<ckptVars, rollouts, launchVars, tstep, ostep, after>>
        /\ orch \in {"sync", "main", "sending"}
    BY <1>23 DEF Loaded, Turn
  <2>2. \A t \in Step : HasHalf(t)' = HasHalf(t) /\ Sent(t)' = Sent(t)
    BY <2>1
  <2>3. orch = "sync" => HasHalf(ostep)
    <3>1. orch = "sync" => ostep = base + 1 /\ (base = 0 \/ base \in orchSaved)
      OBVIOUS
    <3>2. orch = "sync" => \A a : Anchor(a, ostep) => a = base
      BY <3>1
    <3> QED BY <3>1, <3>2
  <2> HIDE DEF HasHalf, Sent
  <2> QED BY <2>1, <2>2, <2>3
<1>24. CASE SetupFails
  BY <1>24 DEF SetupFails
<1>25. CASE UNCHANGED vars
  BY <1>25 DEF vars
<1> QED
  BY <1>1, <1>2, <1>3, <1>4, <1>5, <1>6, <1>7, <1>8, <1>9, <1>10, <1>11, <1>12, <1>13,
     <1>14, <1>15, <1>16, <1>17, <1>18, <1>19, <1>20, <1>21, <1>22, <1>23, <1>24, <1>25
  DEF Next, LauncherStep, Reap, Killed, TrainerRuns, OrchRuns, UpdateRuns, Fails

(* The strengthening holds initially ...                                    *)
LEMMA RollInit == Init => RollInv
  BY RecoveryAssumption
  DEF Init, RecoveryAssumption, Step, Version, RollInv, OwnSaves, TrainerHalf, Training,
      SentInOrder, OrchHalf, Sent

(* ... and every step keeps it.                                             *)
LEMMA RollInvariant == ASSUME KeepLast # 1 PROVE Spec => [](ResumeInv /\ RollInv)
<1>1. Init => ResumeInv /\ RollInv
  BY ResumeInit, RollInit
<1>2. ResumeInv /\ RollInv /\ [Next]_vars => (ResumeInv /\ RollInv)'
  <2> SUFFICES ASSUME ResumeInv, RollInv, [Next]_vars PROVE ResumeInv' /\ RollInv'
    OBVIOUS
  <2>1. ResumeInv'
    BY ResumeNext
  <2>2. OwnSaves'
    BY <2>1, OwnSavesStep
  <2>3. TrainerHalf'
    BY <2>1, TrainerHalfStep
  <2>4. SentInOrder'
    BY <2>1, SentStep
  <2>5. OrchHalf'
    BY <2>1, OrchHalfStep
  <2> QED BY <2>1, <2>2, <2>3, <2>4, <2>5 DEF RollInv
<1> QED BY <1>1, <1>2, PTL DEF Spec

(* While the trainer saves step t and removes old ones, both halves of the   *)
(* step before it are whole, if this launch has one.                        *)
LEMMA FallsBack ==
  ASSUME ResumeInv, RollInv, trainer \in {"trained", "saving", "saved"}
  PROVE  \E a : Anchor(a, tstep) /\ (a > 0 => a \in Whole \/ ResumedMixed)
<1>1. /\ base \in Version /\ tstep \in Step /\ job = "up" /\ tstep \in Int
      /\ base < tstep /\ Training
  BY RecoveryAssumption
  DEF RecoveryAssumption, ResumeInv, TypeInv, TypeOK, Placed, Leftovers, Own, Training,
      Step
<1>2. PICK a : Anchor(a, tstep)
  BY <1>1, AnchorExists
<1>3. HasHalf(tstep)
  BY <1>1 DEF RollInv, SentInOrder, OrchHalf
<1>4. ASSUME a > 0 PROVE a \in Whole \/ ResumedMixed
  <2>1. a \in orchSaved
    BY <1>2, <1>3, <1>4 DEF HasHalf
  <2>2. /\ a \in ckptDir
        /\ trainSaved[a] = "whole" \/ (a = base /\ trainSaved[a] = "mixed")
    BY <1>1, <1>2, <1>4 DEF RollInv, TrainerHalf
  <2> QED BY <1>4, <2>1, <2>2 DEF Whole, ResumedMixed
<1> QED BY <1>2, <1>4

(* Neither a save in place nor a retention ever takes the last step both    *)
(* processes can resume from, where at least two steps are kept: the step    *)
(* before the one being saved is whole, because its batch was sent after the *)
(* orchestrator's save and trained after the trainer's.  With keep_last = 1   *)
(* the trainer removes that step when its own half of the new one is on disk, *)
(* which may be before the orchestrator has saved the other half.            *)
THEOREM RollbackSurvives == ASSUME KeepLast # 1 PROVE Spec => RollbackPoint
<1>1. ASSUME ResumeInv, RollInv, [Next]_vars
      PROVE  Whole # {} => Whole' # {} \/ ResumedMixed
  <2> SUFFICES ASSUME Whole # {}, ~ResumedMixed PROVE Whole' # {}
    OBVIOUS
  <2> DEFINE Fell == trainer \in {"trained", "saving", "saved"}
  <2>1. Fell => \E a : Anchor(a, tstep) /\ (a > 0 => a \in Whole)
    BY <1>1, FallsBack
  <2>2. Fell => tstep \in Step /\ base \in Version /\ job = "up" /\ Training
    BY <1>1 DEF ResumeInv, TypeInv, TypeOK, Placed, Training
  <2>3. Whole \subseteq Step /\ known \subseteq Step /\ trainSaved \in [Step -> {"none",
     "torn", "mixed", "whole"}]
    BY <1>1 DEF Whole, ResumeInv, TypeInv, TypeOK
  <2>4. CASE TrainerBeginsSave
    <3>1. /\ trainer = "trained" /\ ckptDir' = ckptDir \cup {tstep}
          /\ orchSaved' = orchSaved
          /\ \A s \in Step : s # tstep => trainSaved'[s] = trainSaved[s]
      BY <2>2, <2>3, <2>4 DEF TrainerBeginsSave
    <3>2. \A s \in Whole : s # tstep => s \in Whole'
      BY <2>3, <3>1 DEF Whole
    <3>3. PICK a : Anchor(a, tstep) /\ (a > 0 => a \in Whole)
      BY <2>1, <3>1
    <3>4. CASE a > 0
      <4>1. a \in Whole /\ a # tstep
        BY <2>2, <3>3, <3>4, RecoveryAssumption DEF Anchor, RecoveryAssumption, Step,
           Version
      <4> QED BY <3>2, <4>1
    <3>5. CASE ~(a > 0)
      <4>1. a = 0 /\ base = 0
        BY <2>2, <3>1, <3>3, <3>5, RecoveryAssumption DEF Anchor, RecoveryAssumption,
           Version
      <4>2. \A s \in Whole : s < tstep /\ OnInterval(s)
        BY <1>1, <2>2, <2>3, <3>1, <4>1 DEF RollInv, OwnSaves, Whole
      <4>3. \A s \in Whole : s > 0
        BY <2>3, RecoveryAssumption DEF RecoveryAssumption, Step
      <4> QED BY <2>3, <3>3, <4>1, <4>2, <4>3 DEF Anchor
    <3> QED BY <3>4, <3>5
  <2>5. CASE Retain
    <3>1. /\ trainer = "saved" /\ ckptDir' = ckptDir \ (known \ Kept)
          /\ orchSaved' = orchSaved \ (known \ Kept)
          /\ \A s \in Step : s \notin known \ Kept => trainSaved'[s] = trainSaved[s]
      BY <2>5 DEF Retain
    <3>2. \A s \in Whole : s \notin known \ Kept => s \in Whole'
      BY <2>3, <3>1 DEF Whole
    <3>3. PICK a : Anchor(a, tstep) /\ (a > 0 => a \in Whole)
      BY <2>1, <3>1
    <3>4. tstep \in Kept /\ \A b : Anchor(b, tstep) /\ b > 0 => b \in Kept
      BY <1>1, <3>1, RecentKept DEF ResumeInv, RollInv
    <3>5. CASE a > 0
      BY <3>2, <3>3, <3>4, <3>5
    <3>6. CASE ~(a > 0)
      <4>1. a = 0 /\ base = 0
        BY <2>2, <3>1, <3>3, <3>6, RecoveryAssumption DEF Anchor, RecoveryAssumption,
           Version
      <4>2. \A u \in known : u <= 0 \/ (u < tstep /\ OnInterval(u)) \/ u = tstep
        BY <1>1, <2>2, <3>1, <4>1 DEF RollInv, TrainerHalf
      <4>3. \A u \in known : u > 0
        BY <2>3, RecoveryAssumption DEF RecoveryAssumption, Step
      <4>4. \A u \in known : u = tstep
        BY <2>3, <3>3, <4>1, <4>2, <4>3, RecoveryAssumption DEF Anchor,
           RecoveryAssumption, Step
      <4> QED BY <3>2, <3>4, <4>4
    <3> QED BY <3>5, <3>6
  <2>6. CASE TrainerEndsSave
    <3>1. /\ ckptDir' = ckptDir /\ orchSaved' = orchSaved
          /\ trainSaved' = [trainSaved EXCEPT ![tstep] = "whole"]
      BY <2>6 DEF TrainerEndsSave
    <3>2. \A s \in Whole : s \in Whole'
      BY <2>3, <3>1 DEF Whole
    <3> QED BY <3>2
  <2>7. CASE /\ ckptDir \subseteq ckptDir' /\ orchSaved \subseteq orchSaved'
             /\ trainSaved' = trainSaved
    BY <2>7 DEF Whole
  <2> QED
    BY <1>1, <2>4, <2>5, <2>6, <2>7
    DEF Next, LauncherStep, Launch, Reap, Killed, Down, TrainerRuns, TrainerSetup,
       Startup,
        Train, Transfer, Finish, SkipSave, OrchRuns, OrchSetup, Send, Shipped, EndSave, Leave,
        UpdateRuns, SyncStartup, SeeOffer, Ack, Load, Loaded, Fails, TrainerFails, SetupFails,
        Raise, BeginSave, ckptVars, vars
<1>2. Spec => [](ResumeInv /\ RollInv)
  BY RollInvariant
<1>3. ResumeInv /\ RollInv /\ [Next]_vars => [Whole # {} => Whole' # {} \/ ResumedMixed]_vars
  BY <1>1
<1> QED BY <1>2, <1>3, PTL DEF RollbackPoint, Spec
=============================================================================
