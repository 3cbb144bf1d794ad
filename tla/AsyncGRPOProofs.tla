--------------------------- MODULE AsyncGRPOProofs ---------------------------
(***************************************************************************)
(* Theorems about AsyncGRPO, for every number of prompts, window, worker,  *)
(* batch, failure and step.                                                *)
(*                                                                         *)
(* The types, the version the collector knows, the ages of the groups and  *)
(* the reservations come first.  Then the theorems that count: a group     *)
(* that outlives its step, the ValueError it leads to and a push that      *)
(* meets a full buffer all come from a target reserved twice, and a refit  *)
(* misses at most one generation of a worker.                              *)
(***************************************************************************)
EXTENDS AsyncGRPO, FiniteSetTheorems, TLAPS

-----------------------------------------------------------------------------
(* Types *)

LEMMA IdleTypes == Idle \in WorkerState /\ NoBatch \in LocalState
  BY CollectorAssumption DEF Idle, NoBatch, WorkerState, LocalState, WorkerPlaces

LEMMA InitTypes == Init => TypeOK
<1> SUFFICES ASSUME Init PROVE TypeOK
  OBVIOUS
<1>1. StoreTypeOK
  BY DEF Init, StoreInit, StoreTypeOK
<1>2. mailbox \in Seq(Message)
  BY CollectorAssumption DEF Init, CollectorInit, Call, Message, CallKinds
<1>3. CollectorTypeOK
  BY <1>2, IdleTypes, CollectorAssumption
  DEF Init, CollectorInit, CollectorTypeOK, ThreadPlaces
<1> QED
  BY <1>1, <1>3, CollectorAssumption DEF Init, TypeOK, TrainerPlaces

\* A step of the collection thread.
LEMMA ThreadTypes ==
  ASSUME TypeOK, CollectionThread, UNCHANGED trainerVars
  PROVE  TypeOK'
PROOF
<1> USE CollectorAssumption, IdleTypes
    DEF TypeOK, StoreTypeOK, CollectorTypeOK, trainerVars, storeVars, gateVars, actorVars,
        ThreadOnly, At
<1>1. CASE Fetch BY <1>1 DEF Fetch, ThreadPlaces
<1>2. CASE StopCollection BY <1>2 DEF StopCollection, ThreadPlaces
<1>3. CASE RefitGate BY <1>3 DEF RefitGate, ThreadPlaces
<1>4. CASE LimitVersion
  <2>1. local' \in LocalState BY <1>4 DEF LimitVersion, LocalState
  <2> QED BY <1>4, <2>1 DEF LimitVersion, ThreadPlaces
<1>5. CASE LimitLast
  <2>1. local' \in LocalState BY <1>5 DEF LimitLast, LocalState
  <2> QED BY <1>5, <2>1 DEF LimitLast, ThreadPlaces
<1>6. CASE LimitCheck BY <1>6 DEF LimitCheck, ThreadPlaces
<1>7. CASE LimitPause BY <1>7 DEF LimitPause, ThreadPlaces
<1>17. CASE LimitClear BY <1>17 DEF LimitClear, ThreadPlaces
<1>18. CASE LimitTest BY <1>18 DEF LimitTest, ThreadPlaces
<1>8. CASE BatchVersion
  <2>1. local' \in LocalState BY <1>8 DEF BatchVersion, LocalState
  <2> QED BY <1>8, <2>1 DEF BatchVersion, ThreadPlaces
<1>9. CASE BatchLast
  <2>1. local' \in LocalState BY <1>9 DEF BatchLast, LocalState
  <2> QED BY <1>9, <2>1 DEF BatchLast, ThreadPlaces
<1>10. CASE Reserve
  <2>1. PICK t \in OpenTargets(local.ver, local.last) :
          /\ generating' = generating \cup {t}
          /\ local' = [local EXCEPT !.last = -1, !.tgt = t, !.idx = 0]
          /\ made' = made \cup {t}
          /\ dup' = dup \cup (made \cap {t})
    BY <1>10 DEF Reserve
  <2>2. t \in Nat BY DEF LocalState, OpenTargets, TargetWeights
  <2>3. local' = [ver |-> local.ver, last |-> -1, tgt |-> t, idx |-> 0]
    BY <2>1 DEF LocalState
  <2>4. local' \in LocalState BY <2>2, <2>3 DEF LocalState
  <2> QED BY <1>10, <2>1, <2>2, <2>4 DEF Reserve, ThreadPlaces
<1>11. CASE DropBatch BY <1>11 DEF DropBatch, ThreadPlaces
<1>12. CASE PromptGate BY <1>12 DEF PromptGate, ThreadPlaces
<1>13. CASE RereadVersion
  <2>1. local' \in LocalState BY <1>13 DEF RereadVersion, LocalState
  <2> QED BY <1>13, <2>1 DEF RereadVersion, ThreadPlaces
<1>14. ASSUME NEW w \in Workers, Register(w) PROVE TypeOK'
  <2>1. worker' \in [Workers -> WorkerState]
    BY <1>14 DEF Register, WorkerState, LocalState, WorkerPlaces
  <2> QED BY <1>14, <2>1 DEF Register, ThreadPlaces
<1>15. ASSUME NEW w \in Workers, Start(w) PROVE TypeOK'
  <2>1. worker' \in [Workers -> WorkerState]
    BY <1>15 DEF Start, WorkerState, WorkerPlaces
  <2>2. local' \in LocalState
    <3>1. CASE local.idx + 1 < NumPrompts
      <4>1. local' = [local EXCEPT !.idx = @ + 1] BY <1>15, <3>1 DEF Start
      <4>2. local.idx + 1 \in 0 .. NumPrompts - 1 BY <3>1 DEF LocalState
      <4> QED BY <4>1, <4>2 DEF LocalState
    <3>2. CASE ~(local.idx + 1 < NumPrompts) BY <1>15, <3>2 DEF Start
    <3> QED BY <3>1, <3>2
  <2> QED BY <1>15, <2>1, <2>2 DEF Start, ThreadPlaces
<1> QED
  BY <1>1, <1>2, <1>3, <1>4, <1>5, <1>6, <1>7, <1>8, <1>9, <1>10, <1>11, <1>12, <1>13,
     <1>14, <1>15, <1>17, <1>18 DEF CollectionThread

\* A step of a worker thread.
LEMMA WorkerTypes ==
  ASSUME TypeOK, NEW w \in Workers, WorkerThread(w), UNCHANGED trainerVars
  PROVE  TypeOK'
PROOF
<1> USE CollectorAssumption, IdleTypes
    DEF TypeOK, StoreTypeOK, CollectorTypeOK, trainerVars, storeVars, gateVars, actorVars,
        threadVars
<1>1. ASSUME NEW here, NEW there \in WorkerPlaces, Go(w, here, there)
      PROVE  worker' \in [Workers -> WorkerState]
  BY <1>1 DEF Go, WorkerState
<1> USE DEF Go
<1>2. CASE FinishRollout(w) BY <1>1, <1>2 DEF FinishRollout, WorkerPlaces
<1>3. CASE FailRollout(w)
  <2>1. worker' \in [Workers -> WorkerState] BY <1>1, <1>3 DEF FailRollout, WorkerPlaces
  <2>2. failures' \in 0 .. MaxFailures BY <1>3 DEF FailRollout
  <2> QED BY <1>3, <2>1, <2>2 DEF FailRollout
<1>4. CASE PushGroup(w)
  <2>1. worker' \in [Workers -> WorkerState] BY <1>1, <1>4 DEF PushGroup, WorkerPlaces
  <2>2. [n |-> pushed, ver |-> worker[w].ver, tgt |-> worker[w].tgt] \in Group
    BY DEF Group, WorkerState
  <2>3. stored' \subseteq Group /\ pushed' \in Nat
    BY <1>4, <2>2 DEF PushGroup, Push
  <2>4. worker[w].tgt \in Nat BY DEF WorkerState
  <2>5. lastTarget' \in Nat \cup {-1}
    BY <1>4, <2>4 DEF PushGroup, Push
  <2> QED BY <1>4, <2>1, <2>3, <2>5 DEF PushGroup
<1>5. CASE PushFull(w) BY <1>1, <1>5 DEF PushFull, WorkerPlaces
<1>6. CASE Retry(w) BY <1>1, <1>6 DEF Retry, WorkerPlaces
<1>7. CASE ReleaseTarget(w) BY <1>1, <1>7 DEF ReleaseTarget, WorkerPlaces
<1>8. CASE Finally(w) BY <1>8 DEF Finally
<1> QED
  BY <1>2, <1>3, <1>4, <1>5, <1>6, <1>7, <1>8 DEF WorkerThread

\* A remote call of the training loop, taken up by the actor's thread.
LEMMA ActorTypes ==
  ASSUME TypeOK, ActorThread, UNCHANGED trainerVars
  PROVE  TypeOK'
PROOF
<1> USE CollectorAssumption
    DEF TypeOK, StoreTypeOK, CollectorTypeOK, trainerVars, storeVars, gateVars, threadVars
<1>1. ASSUME NEW kind, TakeUp(kind)
      PROVE  mailbox' \in Seq(Message) /\ Head(mailbox) \in Message
  BY <1>1 DEF TakeUp
<1>2. CASE SetWeightVersion
  <2>1. version' \in Nat BY <1>1, <1>2 DEF SetWeightVersion, Message
  <2> QED BY <1>1, <1>2, <2>1 DEF SetWeightVersion
<1>3. CASE OpenLimitGate BY <1>3 DEF OpenLimitGate, ThreadPlaces
<1>4. CASE Pause BY <1>1, <1>4 DEF Pause
<1>5. CASE Resume BY <1>1, <1>5 DEF Resume, ThreadPlaces
<1>6. CASE PrepareForRefit BY <1>1, <1>6 DEF PrepareForRefit
<1>7. CASE PollPending BY <1>7 DEF PollPending
<1>8. CASE ResumeAfterRefit BY <1>1, <1>8 DEF ResumeAfterRefit, ThreadPlaces
<1> QED
  BY <1>2, <1>3, <1>4, <1>5, <1>6, <1>7, <1>8 DEF ActorThread

\* A step of the training loop.
LEMMA TrainerTypes ==
  ASSUME TypeOK, Trainer
  PROVE  TypeOK'
PROOF
<1> USE CollectorAssumption, TrainerAssumption
    DEF TypeOK, StoreTypeOK, CollectorTypeOK, storeVars, gateVars, threadVars,
        OthersUnchanged, NoCall, Turn
<1>1. ASSUME NEW calls \in Seq(Message), Send(calls) PROVE mailbox' \in Seq(Message)
  BY <1>1 DEF Send
<1>2. /\ <<>> \in Seq(Message)
      /\ \A kind \in CallKinds, v \in Nat : <<Call(kind, v)>> \in Seq(Message)
  BY DEF Message, Call
<1>3. CASE FirstRefit
  <2>1. mailbox' \in Seq(Message) BY <1>1, <1>2, <1>3 DEF FirstRefit, CallKinds
  <2> QED BY <1>3, <2>1 DEF FirstRefit, TrainerPlaces
<1>4. CASE FirstRefitFails BY <1>4 DEF FirstRefitFails, TrainerPlaces, Ended
<1>5. CASE EndFirstValidation
  <2>1. mailbox' \in Seq(Message) BY <1>1, <1>2, <1>5 DEF EndFirstValidation, CallKinds
  <2> QED BY <1>5, <2>1 DEF EndFirstValidation, TrainerPlaces
<1>6. CASE BufferFilled BY <1>6 DEF BufferFilled, TrainerPlaces
<1>7. CASE TakeSample BY <1>7 DEF TakeSample, Sample, TrainerPlaces
<1>8. CASE SampleAborts BY <1>8 DEF SampleAborts, TrainerPlaces, Ended
<1>9. CASE Train
  <2>1. mailbox' \in Seq(Message) BY <1>1, <1>2, <1>9 DEF Train, CallKinds
  <2> QED BY <1>9, <2>1 DEF Train, TrainerPlaces
<1>10. CASE BeginRefit BY <1>10 DEF BeginRefit, TrainerPlaces
<1>11. CASE EndRefit
  <2>1. weightVersion + 1 \in Nat OBVIOUS
  <2>2. <<Call("set_weight_version", weightVersion + 1), Call("resume_after_refit", 0)>>
          \in Seq(Message)
    BY <2>1 DEF Message, Call, CallKinds
  <2>3. (IF Validates THEN <<Call("pause", 0)>> ELSE <<>>) \in Seq(Message)
    BY <1>2 DEF CallKinds
  <2> DEFINE calls ==
        <<Call("set_weight_version", weightVersion + 1), Call("resume_after_refit", 0)>>
          \o (IF Validates THEN <<Call("pause", 0)>> ELSE <<>>)
  <2>4. calls \in Seq(Message) BY <2>2, <2>3
  <2>5. Send(calls) BY <1>11 DEF EndRefit
  <2> HIDE DEF calls
  <2>6. mailbox' \in Seq(Message) BY <1>1, <2>4, <2>5
  <2> QED BY <1>11, <2>1, <2>6 DEF EndRefit, TrainerPlaces
<1>12. CASE EndValidation
  <2>1. mailbox' \in Seq(Message) BY <1>1, <1>2, <1>12 DEF EndValidation, CallKinds
  <2> QED BY <1>12, <2>1 DEF EndValidation, TrainerPlaces
<1>13. CASE FinishStep BY <1>13 DEF FinishStep, TrainerPlaces, Ended
<1>14. CASE LoopFails BY <1>14 DEF LoopFails, TrainerPlaces, Ended
<1> QED
  BY <1>3, <1>4, <1>5, <1>6, <1>7, <1>8, <1>9, <1>10, <1>11, <1>12, <1>13, <1>14
  DEF Trainer

LEMMA StutterTypes == ASSUME TypeOK, UNCHANGED vars PROVE TypeOK'
  BY DEF TypeOK, StoreTypeOK, CollectorTypeOK, vars, storeVars, collectorVars, threadVars,
         gateVars, actorVars, trainerVars

\* Every variable keeps its type: in particular the counters stay within their
\* bounds and every call in the mailbox is one the collector understands.
THEOREM TypeCorrect == Spec => []TypeOK
<1>1. TypeOK /\ [Next]_vars => TypeOK'
  BY ThreadTypes, WorkerTypes, ActorTypes, TrainerTypes, StutterTypes
  DEF Next, CollectorStep
<1> QED BY InitTypes, <1>1, PTL DEF Spec

-----------------------------------------------------------------------------
(* The collector's version against the trainer's *)

\* LagsBehindShutGate is kept because set_weight_version is the first call in
\* the mailbox while the collector lags; that, because a refit begins only
\* once the mailbox is empty and the gate shut; and that, because
\* prepare_for_refit is the last call sent before the training loop waits.
SyncInv ==
  /\ \A i \in 1 .. Len(mailbox) :
       mailbox[i].kind = "set_weight_version" => mailbox[i].ver = weightVersion
  /\ \/ version = weightVersion
     \/ /\ version = weightVersion - 1
        /\ ~refitCleared
        /\ mailbox # <<>>
        /\ mailbox[1].kind = "set_weight_version"
  /\ tpc = "preparing" =>
       IF mailbox = <<>> THEN ~refitCleared
       ELSE mailbox[Len(mailbox)].kind = "prepare_for_refit"
  /\ tpc = "refit" => mailbox = <<>> /\ ~refitCleared

syncVars == <<mailbox, version, weightVersion, refitCleared, tpc>>

LEMMA InitSync == Init => SyncInv
  BY CollectorAssumption DEF Init, CollectorInit, SyncInv, Call

LEMMA CollectorKeepsSyncVars ==
  ASSUME \/ CollectionThread
         \/ \E w \in Workers : WorkerThread(w),
         UNCHANGED trainerVars
  PROVE  UNCHANGED syncVars
  BY DEF CollectionThread, WorkerThread, trainerVars, syncVars, gateVars, actorVars,
         ThreadOnly, Fetch, StopCollection, RefitGate, LimitVersion, LimitLast, LimitCheck,
         LimitPause, LimitClear, LimitTest, BatchVersion, BatchLast, Reserve, DropBatch, PromptGate, RereadVersion,
         Register, Start, Go, FinishRollout, FailRollout, PushGroup, PushFull, Retry,
         ReleaseTarget, Finally

\* The first call leaves the mailbox, the others move up.
LEMMA TakesFirst ==
  ASSUME mailbox \in Seq(Message), NEW kind, TakeUp(kind)
  PROVE  /\ mailbox # <<>> /\ mailbox[1].kind = kind
         /\ Len(mailbox') = Len(mailbox) - 1
         /\ \A i \in 1 .. Len(mailbox') : mailbox'[i] = mailbox[i + 1]
         /\ mailbox' = <<>> <=> Len(mailbox) = 1
<1>1. mailbox # <<>> /\ mailbox' = Tail(mailbox) /\ Head(mailbox).kind = kind
  BY DEF TakeUp
<1>2. Head(mailbox) = mailbox[1] BY <1>1
<1>3. Len(Tail(mailbox)) = Len(mailbox) - 1 BY <1>1
<1>4. \A i \in 1 .. Len(Tail(mailbox)) : Tail(mailbox)[i] = mailbox[i + 1]
  BY <1>1
<1>5. Tail(mailbox) \in Seq(Message) BY <1>1
<1>6. Tail(mailbox) = <<>> <=> Len(Tail(mailbox)) = 0
  <2>1. ASSUME NEW s \in Seq(Message) PROVE s = <<>> <=> Len(s) = 0
    OBVIOUS
  <2> QED BY <1>5, <2>1
<1>7. Len(mailbox) \in Nat OBVIOUS
<1> QED BY <1>1, <1>2, <1>3, <1>4, <1>6, <1>7

LEMMA ActorSync ==
  ASSUME TypeOK, SyncInv, ActorThread, UNCHANGED trainerVars
  PROVE  SyncInv'
PROOF
<1> USE DEF trainerVars, threadVars, gateVars
<1>1. mailbox \in Seq(Message) /\ version \in Nat /\ weightVersion \in Nat
  BY DEF TypeOK, CollectorTypeOK
<1>2. ASSUME NEW kind, TakeUp(kind)
      PROVE  /\ mailbox # <<>> /\ mailbox[1].kind = kind
             /\ Len(mailbox') = Len(mailbox) - 1
             /\ \A i \in 1 .. Len(mailbox') : mailbox'[i] = mailbox[i + 1]
             /\ mailbox' = <<>> <=> Len(mailbox) = 1
  BY <1>1, <1>2, TakesFirst
<1>3. ASSUME NEW kind, TakeUp(kind), kind # "set_weight_version",
             UNCHANGED <<version, weightVersion, tpc>>,
             \/ refitCleared' = FALSE
             \/ refitCleared' = refitCleared /\ kind # "prepare_for_refit"
             \/ kind = "resume_after_refit"
      PROVE  SyncInv'
  <2>1. version = weightVersion /\ tpc # "refit"
    BY <1>2, <1>3 DEF SyncInv
  <2>2. \A i \in 1 .. Len(mailbox') :
          mailbox'[i].kind = "set_weight_version" => mailbox'[i].ver = weightVersion'
    BY <1>1, <1>2, <1>3 DEF SyncInv
  <2>3. ASSUME tpc' = "preparing"
        PROVE  IF mailbox' = <<>> THEN ~refitCleared'
               ELSE mailbox'[Len(mailbox')].kind = "prepare_for_refit"
    <3>1. mailbox # <<>> /\ mailbox[Len(mailbox)].kind = "prepare_for_refit"
      BY <1>2, <1>3, <2>3 DEF SyncInv
    <3>2. CASE mailbox' = <<>>
      BY <1>2, <1>3, <3>1, <3>2
    <3>3. CASE mailbox' # <<>>
      <4>1. Len(mailbox') \in 1 .. Len(mailbox') /\ Len(mailbox') + 1 = Len(mailbox)
        BY <1>1, <1>2, <1>3, <3>3
      <4> QED BY <1>2, <1>3, <3>1, <3>3, <4>1
    <3> QED BY <3>2, <3>3
  <2> QED BY <1>3, <2>1, <2>2, <2>3 DEF SyncInv
<1>4. CASE SetWeightVersion
  <2> USE <1>4 DEF SetWeightVersion
  <2>1. version' = weightVersion
    BY <1>1, <1>2 DEF SyncInv, TakeUp
  <2>2. \A i \in 1 .. Len(mailbox') :
          mailbox'[i].kind = "set_weight_version" => mailbox'[i].ver = weightVersion'
    BY <1>1, <1>2 DEF SyncInv
  <2>3. ASSUME tpc' = "preparing"
        PROVE  mailbox' # <<>> /\ mailbox'[Len(mailbox')].kind = "prepare_for_refit"
    <3>1. mailbox # <<>> /\ mailbox[Len(mailbox)].kind = "prepare_for_refit"
      BY <1>2, <2>3 DEF SyncInv
    <3>2. Len(mailbox) > 1
      BY <1>1, <1>2, <3>1
    <3>3. /\ Len(mailbox') \in 1 .. Len(mailbox') /\ Len(mailbox') + 1 = Len(mailbox)
          /\ mailbox' # <<>>
      BY <1>1, <1>2, <3>2
    <3> QED BY <1>2, <3>1, <3>3
  <2>4. tpc # "refit" BY <1>2 DEF SyncInv
  <2> QED BY <2>1, <2>2, <2>3, <2>4 DEF SyncInv
<1>5. CASE OpenLimitGate BY <1>5 DEF OpenLimitGate, SyncInv
<1>6. CASE Pause BY <1>3, <1>6 DEF Pause
<1>7. CASE Resume BY <1>3, <1>7 DEF Resume
<1>8. CASE PrepareForRefit BY <1>3, <1>8 DEF PrepareForRefit
<1>9. CASE PollPending BY <1>9 DEF PollPending, SyncInv
<1>10. CASE ResumeAfterRefit BY <1>3, <1>10 DEF ResumeAfterRefit
<1> QED
  BY <1>4, <1>5, <1>6, <1>7, <1>8, <1>9, <1>10 DEF ActorThread

\* After a refit the collector is told the version before it may resume.
LEMMA RefitMessages ==
  ASSUME TypeOK, SyncInv, EndRefit
  PROVE  LET told == <<Call("set_weight_version", weightVersion + 1),
                       Call("resume_after_refit", 0)>>
         IN  mailbox' = told \/ mailbox' = told \o <<Call("pause", 0)>>
<1> DEFINE told ==
      <<Call("set_weight_version", weightVersion + 1), Call("resume_after_refit", 0)>>
<1>1. mailbox \in Seq(Message) /\ mailbox = <<>> /\ weightVersion \in Nat
  BY DEF EndRefit, Turn, SyncInv, TypeOK, CollectorTypeOK
<1>2. told \in Seq(Message) /\ <<Call("pause", 0)>> \in Seq(Message)
  BY <1>1 DEF Call, Message, CallKinds
<1>3. mailbox' = mailbox \o (told \o (IF Validates THEN <<Call("pause", 0)>> ELSE <<>>))
  BY DEF EndRefit, Send
<1> SUFFICES mailbox' = told \/ mailbox' = told \o <<Call("pause", 0)>>
  OBVIOUS
<1> HIDE DEF told
<1>4. \A s \in Seq(Message) : <<>> \o s = s /\ s \o <<>> = s
  OBVIOUS
<1>5. told \o <<Call("pause", 0)>> \in Seq(Message)
  BY <1>2
<1>6. CASE Validates BY <1>1, <1>3, <1>4, <1>5, <1>6
<1>7. CASE ~Validates BY <1>1, <1>2, <1>3, <1>4, <1>7
<1> QED BY <1>6, <1>7

LEMMA TrainerSync ==
  ASSUME TypeOK, SyncInv, Trainer
  PROVE  SyncInv'
PROOF
<1> USE DEF Turn, OthersUnchanged, gateVars, NoCall, Ended
<1>1. mailbox \in Seq(Message) /\ version \in Nat /\ weightVersion \in Nat
  BY DEF TypeOK, CollectorTypeOK
\* Calls other than set_weight_version, sent at any place but that of a refit.
<1>2. ASSUME NEW kind \in {"pause", "resume", "prepare_for_refit"},
             Send(<<Call(kind, 0)>>), UNCHANGED <<version, weightVersion, refitCleared>>,
             tpc' # "refit", tpc' = "preparing" => kind = "prepare_for_refit"
      PROVE  SyncInv'
  <2>1. /\ mailbox' \in Seq(Message)
        /\ Len(mailbox') = Len(mailbox) + 1
        /\ \A i \in 1 .. Len(mailbox) : mailbox'[i] = mailbox[i]
        /\ mailbox'[Len(mailbox) + 1] = Call(kind, 0)
        /\ mailbox' # <<>>
    BY <1>1, <1>2 DEF Send, Call, Message, CallKinds
  <2>2. \A i \in 1 .. Len(mailbox') :
          mailbox'[i].kind = "set_weight_version" => mailbox'[i].ver = weightVersion'
    BY <1>1, <1>2, <2>1 DEF SyncInv, Call
  <2>3. mailbox # <<>> => mailbox'[1] = mailbox[1]
    BY <1>1, <2>1
  <2> QED BY <1>2, <2>1, <2>2, <2>3 DEF SyncInv, Call
<1>3. ASSUME Send(<<>>), UNCHANGED <<version, weightVersion, refitCleared>>,
             tpc' \notin {"preparing", "refit"}
      PROVE  SyncInv'
  BY <1>1, <1>3 DEF Send, SyncInv
<1>4. ASSUME UNCHANGED mailbox, UNCHANGED <<version, weightVersion, refitCleared>>,
             tpc' \notin {"preparing", "refit"}
      PROVE  SyncInv'
  BY <1>4 DEF SyncInv
<1>5. CASE FirstRefit
  BY <1>2, <1>3, <1>5 DEF FirstRefit
<1>6. CASE EndFirstValidation BY <1>2, <1>6 DEF EndFirstValidation
<1>7. CASE Train BY <1>2, <1>7 DEF Train
<1>8. CASE BeginRefit BY <1>8 DEF BeginRefit, CallsDone, SyncInv
<1>9. CASE EndRefit
  <2>1. mailbox = <<>> /\ ~refitCleared /\ version = weightVersion
    BY <1>9 DEF EndRefit, SyncInv
  <2> DEFINE told ==
        <<Call("set_weight_version", weightVersion + 1), Call("resume_after_refit", 0)>>
  <2>2. mailbox' = told \/ mailbox' = told \o <<Call("pause", 0)>>
    BY <1>9, RefitMessages
  <2>3. /\ mailbox' # <<>> /\ mailbox'[1].kind = "set_weight_version"
        /\ \A i \in 1 .. Len(mailbox') :
             mailbox'[i].kind = "set_weight_version" => mailbox'[i].ver = weightVersion + 1
    BY <2>2 DEF Call
  <2>4. /\ weightVersion' = weightVersion + 1 /\ tpc' \in {"validate", "finish"}
        /\ UNCHANGED <<version, refitCleared>>
    BY <1>9 DEF EndRefit
  <2> QED BY <1>1, <2>1, <2>3, <2>4 DEF SyncInv
<1>10. CASE EndValidation BY <1>2, <1>10 DEF EndValidation
<1>11. CASE FirstRefitFails BY <1>4, <1>11 DEF FirstRefitFails
<1>12. CASE BufferFilled BY <1>4, <1>12 DEF BufferFilled
<1>13. CASE TakeSample BY <1>4, <1>13 DEF TakeSample
<1>14. CASE SampleAborts BY <1>4, <1>14 DEF SampleAborts
<1>15. CASE FinishStep BY <1>4, <1>15 DEF FinishStep
<1>16. CASE LoopFails BY <1>4, <1>16 DEF LoopFails
<1> QED
  BY <1>5, <1>6, <1>7, <1>8, <1>9, <1>10, <1>11, <1>12, <1>13, <1>14, <1>15, <1>16
  DEF Trainer

LEMMA NextSync == TypeOK /\ SyncInv /\ [Next]_vars => SyncInv'
<1> SUFFICES ASSUME TypeOK, SyncInv, [Next]_vars PROVE SyncInv'
  OBVIOUS
<1>1. CASE UNCHANGED syncVars BY <1>1 DEF SyncInv, syncVars
<1>2. CASE UNCHANGED vars
  BY <1>1, <1>2 DEF vars, syncVars, collectorVars, trainerVars, gateVars, actorVars
<1> QED
  BY <1>1, <1>2, CollectorKeepsSyncVars, ActorSync, TrainerSync DEF Next, CollectorStep

THEOREM SyncInvariant == Spec => []SyncInv
  BY InitSync, NextSync, TypeCorrect, PTL DEF Spec

\* The collector never lags more than one version behind the trainer, and while
\* it lags the refit gate is shut (prepare_for_refit to resume_after_refit).
THEOREM GateShutWhileLagging == Spec => []LagsBehindShutGate
<1>1. SyncInv => LagsBehindShutGate BY DEF SyncInv, LagsBehindShutGate
<1> QED BY <1>1, SyncInvariant, PTL
-----------------------------------------------------------------------------
(* Labels *)

LabelOK(g) == g.tgt <= g.ver + MaxAge /\ g.ver <= weightVersion

\* Why AgeWindow is kept: the version that the collection thread read is never
\* ahead of the collector's, so reading it again (RereadVersion) only brings a
\* label closer to its target, and the collector's is never ahead of the trainer's.
AgeInv ==
  /\ StartStep <= version /\ local.ver <= version
  /\ cpc \in Spawning => local.tgt <= local.ver + MaxAge
  /\ \A w \in Carrying : LabelOK(worker[w])
  /\ \A g \in stored : LabelOK(g)
  /\ engine \in {-1, weightVersion}

LEMMA InitAge == Init => AgeInv
  BY CollectorAssumption
  DEF Init, CollectorInit, StoreInit, AgeInv, Spawning, Carrying, Idle, NoBatch

LEMMA CollectorBehindTrainer == TypeOK /\ SyncInv => version <= weightVersion
  BY DEF SyncInv, TypeOK, CollectorTypeOK

LEMMA ThreadAge ==
  ASSUME TypeOK, SyncInv, AgeInv, CollectionThread, UNCHANGED trainerVars
  PROVE  AgeInv'
PROOF
<1> USE CollectorAssumption, CollectorBehindTrainer
    DEF AgeInv, LabelOK, Carrying, Spawning, ThreadOnly, At, trainerVars, storeVars,
        gateVars, actorVars
<1>1. /\ version \in Nat /\ weightVersion \in Nat /\ local \in LocalState
      /\ worker \in [Workers -> WorkerState]
  BY DEF TypeOK, CollectorTypeOK
<1>2. local.ver \in Nat /\ local.tgt \in Nat BY <1>1 DEF LocalState
\* Steps outside the spawning of a batch's workers.
<1>3. ASSUME UNCHANGED <<version, worker, stored>>, cpc' \notin Spawning,
             local' = local \/ local' = NoBatch
      PROVE  AgeInv'
  BY <1>3 DEF NoBatch
<1>4. CASE Fetch BY <1>3, <1>4 DEF Fetch
<1>5. CASE StopCollection BY <1>3, <1>5 DEF StopCollection
<1>6. CASE RefitGate BY <1>3, <1>6 DEF RefitGate
<1>7. CASE LimitVersion BY <1>1, <1>7 DEF LimitVersion, LocalState
<1>8. CASE LimitLast BY <1>1, <1>8 DEF LimitLast, LocalState
<1>9. CASE LimitCheck BY <1>3, <1>9 DEF LimitCheck
<1>10. CASE LimitPause BY <1>3, <1>10 DEF LimitPause
<1>19. CASE LimitClear BY <1>3, <1>19 DEF LimitClear
<1>20. CASE LimitTest BY <1>3, <1>20 DEF LimitTest
<1>11. CASE BatchVersion BY <1>1, <1>11 DEF BatchVersion, LocalState
<1>12. CASE BatchLast BY <1>1, <1>12 DEF BatchLast, LocalState
<1>13. CASE Reserve
  <2>1. PICK t \in OpenTargets(local.ver, local.last) :
          local' = [local EXCEPT !.last = -1, !.tgt = t, !.idx = 0]
    BY <1>13 DEF Reserve
  <2>2. t <= local.ver + MaxAge
    BY <1>2, <2>1 DEF OpenTargets, TargetWeights
  <2>3. local'.ver = local.ver /\ local'.tgt = t
    BY <1>1, <2>1 DEF LocalState
  <2> QED BY <1>1, <1>2, <1>13, <2>2, <2>3 DEF Reserve
<1>14. CASE DropBatch BY <1>3, <1>14 DEF DropBatch
<1>15. CASE PromptGate BY <1>15 DEF PromptGate
<1>16. CASE RereadVersion
  <2>1. local'.ver = version /\ local'.tgt = local.tgt
    BY <1>1, <1>16 DEF RereadVersion, LocalState
  <2> QED BY <1>1, <1>2, <1>16, <2>1 DEF RereadVersion
<1>17. ASSUME NEW w \in Workers, Register(w) PROVE AgeInv'
  <2>1. worker'[w].ver = local.ver /\ worker'[w].tgt = local.tgt
    BY <1>1, <1>17 DEF Register
  <2>2. \A u \in Workers \ {w} : worker'[u] = worker[u]
    BY <1>1, <1>17 DEF Register
  <2>3. local.tgt <= local.ver + MaxAge /\ local.ver <= weightVersion
    BY <1>1, <1>2, <1>17 DEF Register
  <2> QED BY <1>17, <2>1, <2>2, <2>3 DEF Register
<1>18. ASSUME NEW w \in Workers, Start(w) PROVE AgeInv'
  <2>1. /\ worker'[w].ver = worker[w].ver /\ worker'[w].tgt = worker[w].tgt
        /\ w \in Carrying
    BY <1>1, <1>18 DEF Start, WorkerState
  <2>2. \A u \in Workers \ {w} : worker'[u] = worker[u]
    BY <1>1, <1>18 DEF Start
  <2>3. \A u \in Carrying' : LabelOK(worker[u])' 
    BY <1>18, <2>1, <2>2 DEF Start
  <2>4. \/ local'.ver = local.ver /\ local'.tgt = local.tgt
        \/ local' = NoBatch /\ cpc' = "fetch"
    BY <1>1, <1>18 DEF Start, LocalState
  <2> QED BY <1>18, <2>3, <2>4 DEF Start, NoBatch
<1> QED
  BY <1>4, <1>5, <1>6, <1>7, <1>8, <1>9, <1>10, <1>11, <1>12, <1>13, <1>14, <1>15, <1>16,
     <1>17, <1>18, <1>19, <1>20
  DEF CollectionThread

LEMMA WorkerAge ==
  ASSUME TypeOK, AgeInv, NEW w \in Workers, WorkerThread(w), UNCHANGED trainerVars
  PROVE  AgeInv'
PROOF
<1> USE DEF AgeInv, LabelOK, Carrying, Go, trainerVars, threadVars, gateVars, actorVars,
        storeVars
<1>1. worker \in [Workers -> WorkerState] BY DEF TypeOK, CollectorTypeOK
<1>2. /\ UNCHANGED <<threadVars, version>>
      /\ \A u \in Workers \ {w} : worker'[u] = worker[u]
  BY <1>1 DEF WorkerThread, FinishRollout, FailRollout, PushGroup, PushFull, Retry,
     ReleaseTarget, Finally
<1>3. w \in Carrying' => w \in Carrying /\ worker'[w].ver = worker[w].ver
                                       /\ worker'[w].tgt = worker[w].tgt
  BY <1>1 DEF WorkerThread, FinishRollout, FailRollout, PushGroup, PushFull, Retry,
     ReleaseTarget, Finally, WorkerState, Idle
<1>4. \A u \in Carrying' : LabelOK(worker[u])'
  BY <1>2, <1>3
<1>5. stored' = stored \/ PushGroup(w)
  BY DEF WorkerThread, FinishRollout, FailRollout, PushFull, Retry, ReleaseTarget, Finally
<1>6. ASSUME PushGroup(w) PROVE \A g \in stored' : LabelOK(g)'
  BY <1>6 DEF PushGroup, Push
<1> QED BY <1>2, <1>4, <1>5, <1>6

LEMMA ActorAge ==
  ASSUME TypeOK, SyncInv, AgeInv, ActorThread, UNCHANGED trainerVars
  PROVE  AgeInv'
PROOF
<1> USE DEF AgeInv, LabelOK, Carrying, Spawning, trainerVars, threadVars, gateVars, storeVars
<1>1. /\ version \in Nat /\ weightVersion \in Nat /\ local \in LocalState
      /\ mailbox \in Seq(Message)
  BY DEF TypeOK, CollectorTypeOK
<1>2. version <= version'
  <2>1. CASE SetWeightVersion
    <3>1. mailbox # <<>> /\ Head(mailbox).kind = "set_weight_version"
          /\ version' = Head(mailbox).ver
      BY <2>1 DEF SetWeightVersion, TakeUp
    <3>2. Head(mailbox) = mailbox[1] /\ 1 \in 1 .. Len(mailbox)
      BY <1>1, <3>1
    <3> QED BY <1>1, <3>1, <3>2, CollectorBehindTrainer DEF SyncInv
  <2> QED
    BY <1>1, <2>1 DEF ActorThread, OpenLimitGate, Pause, Resume, PrepareForRefit,
       PollPending, ResumeAfterRefit
<1>3. /\ UNCHANGED <<stored, worker, local>>
      /\ cpc' = cpc \/ cpc' \notin Spawning \/ cpc = "gateWait"
  BY DEF ActorThread, SetWeightVersion, OpenLimitGate, Pause, Resume, PrepareForRefit,
     PollPending, ResumeAfterRefit
<1>4. version' \in Nat /\ local.ver \in Nat
  BY <1>1, ActorTypes DEF TypeOK, CollectorTypeOK, LocalState
<1> QED BY <1>1, <1>2, <1>3, <1>4, CollectorAssumption

LEMMA TrainerAge ==
  ASSUME TypeOK, AgeInv, Trainer
  PROVE  AgeInv'
PROOF
<1> USE DEF AgeInv, LabelOK, Carrying, OthersUnchanged, threadVars, storeVars
<1>1. /\ weightVersion \in Nat
      /\ worker \in [Workers -> WorkerState]
      /\ stored \subseteq Group
  BY DEF TypeOK, CollectorTypeOK, StoreTypeOK
<1>2. UNCHANGED <<version, cpc, local, worker>> /\ stored' \subseteq stored
  BY DEF Trainer, FirstRefit, FirstRefitFails, EndFirstValidation, BufferFilled, TakeSample,
     Sample, SampleAborts, Train, BeginRefit, EndRefit, EndValidation, FinishStep, LoopFails
<1>3. \/ weightVersion' = weightVersion /\ engine' \in {engine, weightVersion}
      \/ weightVersion' = weightVersion + 1 /\ engine' = weightVersion + 1
  BY DEF Trainer, FirstRefit, FirstRefitFails, EndFirstValidation, BufferFilled, TakeSample,
     Sample, SampleAborts, Train, BeginRefit, EndRefit, EndValidation, FinishStep, LoopFails
<1>4. weightVersion <= weightVersion' /\ weightVersion' \in Nat BY <1>1, <1>3
<1>5. \A g \in WorkerState \cup Group : LabelOK(g) => LabelOK(g)'
  BY <1>1, <1>4, CollectorAssumption DEF WorkerState, Group
<1>6. \A w \in Carrying' : LabelOK(worker[w])'
  BY <1>1, <1>2, <1>5
<1>7. \A g \in stored' : LabelOK(g)'
  BY <1>1, <1>2, <1>5
<1> QED BY <1>2, <1>3, <1>6, <1>7

LEMMA NextAge == TypeOK /\ SyncInv /\ AgeInv /\ [Next]_vars => AgeInv'
<1>1. TypeOK /\ AgeInv /\ UNCHANGED vars => AgeInv'
  BY DEF AgeInv, LabelOK, Carrying, Spawning, vars, storeVars, collectorVars, threadVars,
     gateVars, actorVars, trainerVars
<1> QED
  BY <1>1, ThreadAge, WorkerAge, ActorAge, TrainerAge DEF Next, CollectorStep

THEOREM AgeInvariant == Spec => []AgeInv
  BY InitAge, NextAge, TypeCorrect, SyncInvariant, PTL DEF Spec

\* No group, in a worker's hands or in the buffer, has a label ahead of the
\* policy or more than MaxAge versions before its target.
THEOREM LabelsWithinWindow == Spec => []AgeWindow
<1>1. TypeOK /\ AgeInv => AgeWindow
  BY DEF AgeInv, AgeWindow, LabelOK, Carried
<1> QED BY <1>1, AgeInvariant, TypeCorrect, PTL

\* The buffer's ValueError (sample) is only ever raised for a group whose
\* target step is over: a group sampled at its target is never too old.
THEOREM OnlyLeftoversAreTooOld ==
  Spec => [](\A g \in TooOld(weightVersion, MaxAge) : g.tgt < weightVersion)
<1> DEFINE OnlyLeftovers == \A g \in TooOld(weightVersion, MaxAge) : g.tgt < weightVersion
<1>1. TypeOK /\ AgeInv => OnlyLeftovers
  <2> SUFFICES ASSUME TypeOK, AgeInv, NEW g \in TooOld(weightVersion, MaxAge)
               PROVE  g.tgt < weightVersion
    OBVIOUS
  <2>1. g \in Group /\ weightVersion \in Nat /\ MaxAge \in Nat
    BY CollectorAssumption DEF TooOld, TypeOK, StoreTypeOK
  <2>2. g.ver < MinValidVersion(weightVersion, MaxAge) /\ g.tgt <= g.ver + MaxAge
    BY DEF TooOld, AgeInv, LabelOK
  <2> QED BY <2>1, <2>2 DEF MinValidVersion, Group
<1> QED BY <1>1, AgeInvariant, TypeCorrect, PTL
-----------------------------------------------------------------------------
(* Reservations *)

\* Why a reservation never leaks: a worker that is registered and not started is
\* the one the collection thread is about to start, for the target it reserved.
ReservationInv ==
  /\ ReservationHasWork
  /\ \A w \in Workers : worker[w].pc = "registered" =>
       cpc = "start" /\ worker[w].tgt = local.tgt
  /\ \A u, w \in Workers :
       worker[u].pc = "registered" /\ worker[w].pc = "registered" => u = w

reservationVars == <<generating, cpc, local, worker>>

LEMMA InitReservation == Init => ReservationInv
  BY DEF Init, CollectorInit, ReservationInv, ReservationHasWork, Idle

LEMMA ThreadReservation ==
  ASSUME TypeOK, ReservationInv, CollectionThread
  PROVE  ReservationInv'
PROOF
<1> USE DEF ReservationInv, ReservationHasWork, Busy, Spawning, ThreadOnly, At
<1>1. worker \in [Workers -> WorkerState] /\ local \in LocalState
  BY DEF TypeOK, CollectorTypeOK
\* Steps outside the spawning of a batch's workers.
<1>2. ASSUME UNCHANGED <<worker, generating>>, cpc \notin Spawning
      PROVE  ReservationInv'
  BY <1>2
<1>3. ASSUME UNCHANGED <<worker, generating>>, local'.tgt = local.tgt,
             cpc \in Spawning \ {"start"}, cpc' \in Spawning
      PROVE  ReservationInv'
  BY <1>3
<1>4. CASE Fetch BY <1>2, <1>4 DEF Fetch
<1>5. CASE StopCollection BY <1>2, <1>5 DEF StopCollection
<1>6. CASE RefitGate BY <1>2, <1>6 DEF RefitGate
<1>7. CASE LimitVersion BY <1>2, <1>7 DEF LimitVersion
<1>8. CASE LimitLast BY <1>2, <1>8 DEF LimitLast
<1>9. CASE LimitCheck BY <1>2, <1>9 DEF LimitCheck
<1>10. CASE LimitPause BY <1>2, <1>10 DEF LimitPause
<1>19. CASE LimitClear BY <1>2, <1>19 DEF LimitClear
<1>20. CASE LimitTest BY <1>2, <1>20 DEF LimitTest
<1>11. CASE BatchVersion BY <1>2, <1>11 DEF BatchVersion
<1>12. CASE BatchLast BY <1>2, <1>12 DEF BatchLast
<1>13. CASE Reserve
  <2>1. PICK t \in OpenTargets(local.ver, local.last) :
          /\ generating' = generating \cup {t}
          /\ local' = [local EXCEPT !.last = -1, !.tgt = t, !.idx = 0]
    BY <1>13 DEF Reserve
  <2>2. local'.tgt = t BY <1>1, <2>1 DEF LocalState
  <2> QED BY <1>13, <2>1, <2>2 DEF Reserve
<1>14. CASE DropBatch BY <1>2, <1>14 DEF DropBatch
<1>15. CASE PromptGate BY <1>3, <1>15 DEF PromptGate
<1>16. CASE RereadVersion
  <2>1. local'.tgt = local.tgt BY <1>1, <1>16 DEF RereadVersion, LocalState
  <2> QED BY <1>3, <1>16, <2>1 DEF RereadVersion
<1>17. ASSUME NEW w \in Workers, Register(w) PROVE ReservationInv'
  <2>1. worker'[w].tgt = local.tgt /\ worker'[w].pc = "registered"
    BY <1>1, <1>17 DEF Register
  <2>2. \A u \in Workers \ {w} : worker'[u] = worker[u] /\ worker[u].pc # "registered"
    BY <1>1, <1>17 DEF Register
  <2>3. Busy \subseteq Busy' /\ \A u \in Busy : worker'[u].tgt = worker[u].tgt
    BY <1>17, <2>1, <2>2 DEF Register
  <2> QED BY <1>17, <2>1, <2>2, <2>3 DEF Register
<1>18. ASSUME NEW w \in Workers, Start(w) PROVE ReservationInv'
  <2>1. /\ worker'[w].tgt = local.tgt /\ worker'[w].pc = "rollout"
        /\ worker[w].tgt = local.tgt
    BY <1>1, <1>18 DEF Start, WorkerState
  <2>2. \A u \in Workers \ {w} : worker'[u] = worker[u] /\ worker[u].pc # "registered"
    BY <1>1, <1>18 DEF Start
  <2>3. Busy \subseteq Busy' /\ \A u \in Busy : worker'[u].tgt = worker[u].tgt
    BY <2>1, <2>2
  <2>4. w \in Busy' BY <2>1
  <2> QED BY <1>18, <2>1, <2>2, <2>3, <2>4 DEF Start
<1> QED
  BY <1>4, <1>5, <1>6, <1>7, <1>8, <1>9, <1>10, <1>11, <1>12, <1>13, <1>14, <1>15, <1>16,
     <1>17, <1>18, <1>19, <1>20
  DEF CollectionThread

LEMMA WorkerReservation ==
  ASSUME TypeOK, ReservationInv, NEW w \in Workers, WorkerThread(w)
  PROVE  ReservationInv'
PROOF
<1> USE DEF ReservationInv, ReservationHasWork, Busy, Spawning, Go, threadVars
<1>1. worker \in [Workers -> WorkerState] BY DEF TypeOK, CollectorTypeOK
<1>2. /\ UNCHANGED <<cpc, local>>
      /\ \A u \in Workers \ {w} : worker'[u] = worker[u]
      /\ worker'[w].pc # "registered"
  BY <1>1 DEF WorkerThread, FinishRollout, FailRollout, PushGroup, PushFull, Retry,
     ReleaseTarget, Finally, Idle, WorkerState
<1>3. CASE Finally(w)
  <2>1. generating' = generating \ {worker[w].tgt} BY <1>3 DEF Finally
  <2> QED BY <1>2, <2>1
<1>4. CASE ~Finally(w)
  <2>1. /\ worker'[w].pc # "free" /\ worker'[w].tgt = worker[w].tgt
        /\ worker[w].pc # "free" /\ generating' \subseteq generating
    BY <1>1, <1>4 DEF WorkerThread, FinishRollout, FailRollout, PushGroup, PushFull, Retry,
       ReleaseTarget, WorkerState
  <2> QED BY <1>2, <2>1
<1> QED BY <1>3, <1>4

LEMMA ActorReservation ==
  ASSUME ReservationInv, ActorThread
  PROVE  ReservationInv'
PROOF
<1>1. /\ UNCHANGED <<generating, worker, local>>
      /\ \/ cpc' = cpc
         \/ cpc \notin Spawning
         \/ cpc = "gateWait" /\ cpc' \in Spawning
  BY DEF ActorThread, SetWeightVersion, OpenLimitGate, Pause, Resume, PrepareForRefit,
     PollPending, ResumeAfterRefit, threadVars, Spawning
<1> QED BY <1>1 DEF ReservationInv, ReservationHasWork, Busy, Spawning

LEMMA NextReservation == TypeOK /\ ReservationInv /\ [Next]_vars => ReservationInv'
<1>1. ReservationInv /\ UNCHANGED reservationVars => ReservationInv'
  BY DEF ReservationInv, ReservationHasWork, Busy, reservationVars
<1>2. Trainer \/ UNCHANGED vars => UNCHANGED reservationVars
  BY DEF Trainer, FirstRefit, FirstRefitFails, EndFirstValidation, BufferFilled, TakeSample,
     SampleAborts, Train, BeginRefit, EndRefit, EndValidation, FinishStep, LoopFails,
     OthersUnchanged, threadVars, reservationVars, vars, collectorVars
<1> QED
  BY <1>1, <1>2, ThreadReservation, WorkerReservation, ActorReservation
  DEF Next, CollectorStep

\* A reserved target is always being worked on, by the collection thread or by a
\* worker: Finally releases what a failed rollout or a refused push leaves.
THEOREM ReservationsHaveWork == Spec => []ReservationHasWork
<1>1. ReservationInv => ReservationHasWork BY DEF ReservationInv
<1> QED BY <1>1, InitReservation, NextReservation, TypeCorrect, PTL DEF Spec

-----------------------------------------------------------------------------
(* The groups meant for a step *)

StoredFor(t) == {g \in stored : g.tgt = t}
CarriedFor(t) == {w \in Carrying : worker[w].tgt = t}

\* The groups of a target that are in the buffer or on their way to it.
Count(t) == Cardinality(StoredFor(t)) + Cardinality(CarriedFor(t))

SpawningFor(t) == cpc \in Spawning /\ local.tgt = t

\* As many as the collection thread has created workers for.
Allowed(t) ==
  IF SpawningFor(t) THEN IF cpc = "start" THEN local.idx + 1 ELSE local.idx
  ELSE NumPrompts

\* The groups of the step were sampled.
Sampled(t) ==
  \/ t < weightVersion
  \/ t = weightVersion /\ tpc \in {"train", "preparing", "refit"}

\* What is about was made for a reserved target, and every step sampled so far
\* had one: it takes groups to sample.
Reserved ==
  /\ StartStep <= local.ver
  /\ \A t \in made : StartStep <= t
  /\ \A g \in Carried : g.tgt \in made
  /\ cpc \in Spawning => local.tgt \in made
  /\ \A t \in StartStep .. weightVersion : Sampled(t) => t \in made

\* Before the collection thread starts a worker, that worker is there.
Registered ==
  cpc = "start" =>
    \E w \in Workers : worker[w].pc = "registered" /\ worker[w].tgt = local.tgt

Arrivals ==
  /\ IsFiniteSet(stored)
  /\ \A g \in stored : g.n < pushed
  /\ \A g, h \in stored : g.n = h.n => g = h

Counted == \A t \in made \ dup : Count(t) <= Allowed(t)

\* Sampling took all there were, and none can come unless reserved again.
UsedUp ==
  \A t \in made \ dup : Sampled(t) =>
    StoredFor(t) = {} /\ CarriedFor(t) = {} /\ ~SpawningFor(t)

CountInv == Reserved /\ Registered /\ Arrivals /\ Counted /\ UsedUp

countVars == <<stored, pushed, made, dup, cpc, local, worker, weightVersion, tpc>>

LEMMA InitCount == Init => CountInv
<1> SUFFICES ASSUME Init PROVE CountInv
  OBVIOUS
<1>1. made = {} /\ dup = {} /\ stored = {} /\ Carrying = {} /\ cpc = "fetch"
  BY DEF Init, CollectorInit, StoreInit, Carrying, Idle
<1>2. weightVersion = StartStep /\ tpc = "boot" /\ local.ver = StartStep
  BY DEF Init, CollectorInit, NoBatch
<1>3. \A t \in StartStep .. weightVersion : ~Sampled(t)
  BY <1>2, CollectorAssumption DEF Sampled
<1>4. Reserved
  BY <1>1, <1>2, <1>3, CollectorAssumption DEF Reserved, Carried, Spawning
<1> QED BY <1>1, <1>4, FS_EmptySet DEF CountInv, Registered, Arrivals, Counted, UsedUp

LEMMA StutterCount == CountInv /\ UNCHANGED countVars => CountInv'
  BY DEF countVars, CountInv, Reserved, Registered, Arrivals, Counted, UsedUp, Carried,
     Carrying, Count, StoredFor, CarriedFor, SpawningFor, Allowed, Sampled, Spawning

-----------------------------------------------------------------------------
(* Counting *)

LEMMA Finite ==
  ASSUME Arrivals, NEW t
  PROVE  /\ IsFiniteSet(StoredFor(t)) /\ Cardinality(StoredFor(t)) \in Nat
         /\ IsFiniteSet(CarriedFor(t)) /\ Cardinality(CarriedFor(t)) \in Nat
<1>1. StoredFor(t) \in SUBSET stored /\ IsFiniteSet(stored) BY DEF StoredFor, Arrivals
<1>2. CarriedFor(t) \in SUBSET Workers /\ IsFiniteSet(Workers)
  BY TrainerAssumption DEF CarriedFor, Carrying
<1>3. IsFiniteSet(StoredFor(t)) BY <1>1, FS_Subset
<1>4. IsFiniteSet(CarriedFor(t)) BY <1>2, FS_Subset
<1> QED BY <1>3, <1>4, FS_CardinalityType

LEMMA CountType == ASSUME Arrivals, NEW t PROVE Count(t) \in Nat
BY Finite DEF Count

LEMMA LocalIdx == ASSUME TypeOK PROVE local.idx \in 0 .. NumPrompts - 1 /\ NumPrompts \in Nat
<1>1. local \in LocalState BY DEF TypeOK, CollectorTypeOK
<1> QED BY <1>1, CollectorAssumption DEF LocalState

\* A step after which a target has no group that it did not have before.
LEMMA CountFalls ==
  ASSUME Arrivals, NEW t,
         StoredFor(t)' \in SUBSET StoredFor(t), CarriedFor(t)' \in SUBSET CarriedFor(t)
  PROVE  Count(t)' <= Count(t)
<1>1. /\ Cardinality(StoredFor(t)') <= Cardinality(StoredFor(t))
      /\ IsFiniteSet(StoredFor(t)')
  BY Finite, FS_Subset
<1>2. /\ Cardinality(CarriedFor(t)') <= Cardinality(CarriedFor(t))
      /\ IsFiniteSet(CarriedFor(t)')
  BY Finite, FS_Subset
<1>3. Cardinality(StoredFor(t)') \in Nat /\ Cardinality(CarriedFor(t)') \in Nat
  BY <1>1, <1>2, FS_CardinalityType
<1> QED BY <1>1, <1>2, <1>3, Finite DEF Count

\* A step that only takes groups away, and what may still come with them.
LEMMA FewerGroups ==
  ASSUME TypeOK', CountInv,
         UNCHANGED <<made, dup, weightVersion, tpc>>,
         stored' \in SUBSET stored,
         \A w \in Carrying' : w \in Carrying /\ worker'[w].tgt = worker[w].tgt,
         \A t \in made : SpawningFor(t)' => SpawningFor(t),
         \A t \in made \ dup : Count(t) <= Allowed(t) => Count(t) <= Allowed(t)'
  PROVE  Counted' /\ UsedUp'
<1>1. ASSUME NEW t \in made \ dup
      PROVE  StoredFor(t)' \in SUBSET StoredFor(t) /\ CarriedFor(t)' \in SUBSET CarriedFor(t)
  BY DEF StoredFor, CarriedFor
<1>2. ASSUME NEW t \in made \ dup PROVE Count(t)' <= Allowed(t)'
  <2>1. Count(t)' <= Count(t) BY <1>1, CountFalls DEF CountInv
  <2>2. Count(t) <= Allowed(t)' BY DEF CountInv, Counted
  <2>3. Count(t) \in Nat BY Finite DEF Count, CountInv
  <2>4. Count(t)' \in Int
    <3>1. IsFiniteSet(StoredFor(t)') /\ IsFiniteSet(CarriedFor(t)')
      BY <1>1, Finite, FS_Subset DEF CountInv
    <3> QED BY <3>1, FS_CardinalityType DEF Count
  <2>5. Allowed(t)' \in Int
    <3>1. local'.idx \in Int BY DEF TypeOK, CollectorTypeOK, LocalState
    <3> QED BY <3>1, CollectorAssumption DEF Allowed
  <2> QED BY <2>1, <2>2, <2>3, <2>4, <2>5
<1>3. ASSUME NEW t \in made \ dup, Sampled(t)'
      PROVE  StoredFor(t)' = {} /\ CarriedFor(t)' = {} /\ ~SpawningFor(t)'
  BY <1>1, <1>3 DEF CountInv, UsedUp, Sampled
<1> QED BY <1>2, <1>3 DEF Counted, UsedUp

-----------------------------------------------------------------------------
(* Workers *)

LEMMA WorkerFrame ==
  ASSUME TypeOK, NEW w \in Workers, WorkerThread(w)
  PROVE  /\ UNCHANGED <<made, dup, cpc, local>>
         /\ \A u \in Workers \ {w} : worker'[u] = worker[u]
         /\ worker'[w].pc # "registered" /\ worker[w].pc # "registered"
         /\ w \in Carrying' => w \in Carrying /\ worker'[w].tgt = worker[w].tgt
<1>1. worker \in [Workers -> WorkerState] BY DEF TypeOK, CollectorTypeOK
<1> QED
  BY <1>1 DEF WorkerThread, FinishRollout, FailRollout, PushGroup, PushFull, Retry,
     ReleaseTarget, Finally, Go, Idle, WorkerState, Carrying, threadVars

LEMMA WorkerKeepsReserved ==
  ASSUME TypeOK, CountInv, NEW w \in Workers, WorkerThread(w), UNCHANGED trainerVars
  PROVE  Reserved' /\ Registered'
<1>1. \A g \in stored' : g.tgt \in made
  <2>1. CASE PushGroup(w)
    <3>1. w \in Carrying BY <2>1 DEF PushGroup, Go, Carrying
    <3>2. worker[w].tgt \in made BY <3>1 DEF CountInv, Reserved, Carried
    <3>3. \A g \in stored' : g \in stored \/ g.tgt = worker[w].tgt
      BY <2>1 DEF PushGroup, Push
    <3> QED BY <3>2, <3>3 DEF CountInv, Reserved, Carried
  <2>2. CASE ~PushGroup(w)
    <3>1. stored' = stored
      BY <2>2 DEF WorkerThread, FinishRollout, FailRollout, PushFull, Retry, ReleaseTarget,
         Finally, storeVars
    <3> QED BY <3>1 DEF CountInv, Reserved, Carried
  <2> QED BY <2>1, <2>2
<1>2. \A u \in Carrying' : worker'[u].tgt \in made
  <2>1. \A u \in Carrying' : u \in Carrying /\ worker'[u].tgt = worker[u].tgt
    BY WorkerFrame DEF Carrying
  <2> QED BY <2>1 DEF CountInv, Reserved, Carried
<1>3. Reserved'
  BY <1>1, <1>2, WorkerFrame DEF CountInv, Reserved, Carried, Sampled, Spawning, trainerVars
<1>4. Registered'
  BY WorkerFrame DEF CountInv, Registered
<1> QED BY <1>3, <1>4

LEMMA PushCounts ==
  ASSUME TypeOK, TypeOK', CountInv, NEW w \in Workers, PushGroup(w), UNCHANGED trainerVars
  PROVE  Arrivals' /\ Counted' /\ UsedUp'
<1> DEFINE r == [n |-> pushed, ver |-> worker[w].ver, tgt |-> worker[w].tgt]
<1>1. stored' = stored \cup {r} /\ pushed' = pushed + 1
  BY DEF PushGroup, Push
<1>2. pushed \in Nat /\ stored \subseteq Group BY DEF TypeOK, StoreTypeOK
<1>3. /\ Carrying' = Carrying \ {w} /\ w \in Carrying
      /\ \A u \in Workers \ {w} : worker'[u] = worker[u]
  <2>1. worker \in [Workers -> WorkerState] BY DEF TypeOK, CollectorTypeOK
  <2> QED BY <2>1 DEF PushGroup, Go, Carrying
<1>4. UNCHANGED <<made, dup, cpc, local>> BY DEF PushGroup, Go, threadVars
<1>5. Arrivals'
  <2>1. IsFiniteSet(stored') BY <1>1, FS_AddElement DEF CountInv, Arrivals
  <2>2. \A g \in stored : g.n < pushed /\ g.n \in Nat
    BY <1>2 DEF CountInv, Arrivals, Group
  <2> QED BY <1>1, <1>2, <2>1, <2>2 DEF CountInv, Arrivals
<1>6. ASSUME NEW t \in made \ dup, t = worker[w].tgt
      PROVE  Count(t)' <= Allowed(t)' /\ ~Sampled(t)'
  <2>1. StoredFor(t)' = StoredFor(t) \cup {r} BY <1>1, <1>6 DEF StoredFor
  <2>2. CarriedFor(t)' = CarriedFor(t) \ {w} /\ w \in CarriedFor(t)
    BY <1>3, <1>6 DEF CarriedFor, Carrying
  <2>3. Cardinality(StoredFor(t)') <= Cardinality(StoredFor(t)) + 1
    <3>1. IsFiniteSet(StoredFor(t)) /\ Cardinality(StoredFor(t)) \in Nat
      BY Finite DEF CountInv
    <3>2. Cardinality(StoredFor(t)') =
            IF r \in StoredFor(t) THEN Cardinality(StoredFor(t))
            ELSE Cardinality(StoredFor(t)) + 1
      BY <2>1, <3>1, FS_AddElement
    <3> QED BY <3>1, <3>2
  <2>4. Cardinality(CarriedFor(t)') = Cardinality(CarriedFor(t)) - 1
    BY <2>2, Finite, FS_RemoveElement DEF CountInv
  <2>5. Cardinality(StoredFor(t)') \in Nat
    BY <1>5, <2>1, Finite, FS_AddElement, FS_CardinalityType DEF CountInv
  <2>6. Count(t)' <= Count(t)
    BY <2>3, <2>4, <2>5, Finite DEF Count, CountInv
  <2>7. Allowed(t)' = Allowed(t) BY <1>4 DEF Allowed, SpawningFor, Spawning
  <2>8. Allowed(t) \in Int
    BY CollectorAssumption DEF Allowed, TypeOK, CollectorTypeOK, LocalState
  <2>9. Count(t) \in Int /\ Count(t)' \in Int
    BY <2>4, <2>5, Finite DEF Count, CountInv
  <2>10. ~Sampled(t)' BY <2>2 DEF CountInv, UsedUp, Sampled, trainerVars
  <2> QED BY <2>6, <2>7, <2>8, <2>9, <2>10 DEF CountInv, Counted
<1>7. ASSUME NEW t \in made \ dup, t # worker[w].tgt
      PROVE  StoredFor(t)' = StoredFor(t) /\ CarriedFor(t)' = CarriedFor(t)
  BY <1>1, <1>3, <1>7 DEF StoredFor, CarriedFor, Carrying
<1>8. ASSUME NEW t \in made \ dup
      PROVE  Allowed(t)' = Allowed(t) /\ SpawningFor(t)' = SpawningFor(t)
             /\ Sampled(t)' = Sampled(t)
  BY <1>4 DEF Allowed, SpawningFor, Spawning, Sampled, trainerVars
<1>9. Counted'
  BY <1>4, <1>6, <1>7, <1>8 DEF Counted, CountInv, Count
<1>10. UsedUp'
  BY <1>4, <1>6, <1>7, <1>8 DEF UsedUp, CountInv
<1> QED BY <1>5, <1>9, <1>10

LEMMA WorkerCount ==
  ASSUME TypeOK, TypeOK', CountInv, NEW w \in Workers, WorkerThread(w), UNCHANGED trainerVars
  PROVE  CountInv'
<1>1. CASE PushGroup(w)
  BY <1>1, PushCounts, WorkerKeepsReserved DEF CountInv
<1>2. CASE ~PushGroup(w)
  <2>1. UNCHANGED <<stored, pushed>>
    BY <1>2 DEF WorkerThread, FinishRollout, FailRollout, PushFull, Retry, ReleaseTarget,
       Finally, storeVars
  <2>2. Arrivals' BY <2>1 DEF CountInv, Arrivals
  <2>3. \A u \in Carrying' : u \in Carrying /\ worker'[u].tgt = worker[u].tgt
    BY WorkerFrame DEF Carrying
  <2>4. \A t : Allowed(t)' = Allowed(t) /\ SpawningFor(t)' = SpawningFor(t)
    BY WorkerFrame DEF Allowed, SpawningFor, Spawning
  <2>5. Counted' /\ UsedUp'
    BY <2>1, <2>3, <2>4, FewerGroups, WorkerFrame DEF trainerVars
  <2> QED BY <2>2, <2>5, WorkerKeepsReserved DEF CountInv
<1> QED BY <1>1, <1>2

-----------------------------------------------------------------------------
(* The collection thread *)

\* Steps that neither choose a target nor create a worker.
LEMMA ThreadMoves ==
  ASSUME TypeOK', CountInv, UNCHANGED trainerVars,
         UNCHANGED <<stored, pushed, made, dup, worker>>,
         StartStep <= local'.ver, cpc' # "start",
         \/ cpc \notin Spawning /\ cpc' \notin Spawning
         \/ /\ {cpc, cpc'} \subseteq Spawning \ {"start"}
            /\ local'.tgt = local.tgt /\ local'.idx = local.idx
  PROVE  CountInv'
<1>1. Carrying' = Carrying BY DEF Carrying
<1>2. Reserved'
  BY <1>1 DEF CountInv, Reserved, Carried, Sampled, trainerVars, Spawning
<1>3. Registered' /\ Arrivals' BY DEF CountInv, Registered, Arrivals
<1>4. \A t \in made : SpawningFor(t)' => SpawningFor(t)
  BY DEF SpawningFor, Spawning
<1>5. ASSUME NEW t \in made \ dup PROVE Allowed(t)' = Allowed(t)
  BY DEF Allowed, SpawningFor, Spawning
<1>6. Counted' /\ UsedUp'
  BY <1>1, <1>4, <1>5, FewerGroups DEF trainerVars
<1> QED BY <1>2, <1>3, <1>6 DEF CountInv

LEMMA ReserveCounts ==
  ASSUME TypeOK, TypeOK', CountInv, UNCHANGED trainerVars, Reserve
  PROVE  CountInv'
<1>1. PICK t \in OpenTargets(local.ver, local.last) :
        /\ local' = [local EXCEPT !.last = -1, !.tgt = t, !.idx = 0]
        /\ made' = made \cup {t}
        /\ dup' = dup \cup (made \cap {t})
  BY DEF Reserve
<1>2. /\ UNCHANGED <<stored, pushed, worker>> /\ cpc = "reserve" /\ cpc' = "gate"
      /\ Carrying' = Carrying
  BY DEF Reserve, At, storeVars, Carrying
<1>3. /\ local'.ver = local.ver /\ local'.tgt = t /\ local'.idx = 0
      /\ local.ver \in Nat
  BY <1>1 DEF TypeOK, CollectorTypeOK, LocalState
<1>4. StartStep <= t /\ t \in Nat
  BY <1>3, CollectorAssumption DEF OpenTargets, TargetWeights, CountInv, Reserved
<1>5. ASSUME t \notin made PROVE ~Sampled(t) /\ StoredFor(t) = {} /\ CarriedFor(t) = {}
  <2>1. ~Sampled(t)
    BY <1>4, <1>5, CollectorAssumption
    DEF CountInv, Reserved, Sampled, TypeOK
  <2> QED BY <1>5, <2>1 DEF CountInv, Reserved, Carried, StoredFor, CarriedFor
<1>6. Reserved'
  <2>1. \A u \in StartStep .. weightVersion' : Sampled(u)' => u \in made'
    BY <1>1 DEF CountInv, Reserved, Sampled, trainerVars
  <2> QED BY <1>1, <1>2, <1>3, <1>4, <2>1 DEF CountInv, Reserved, Carried
<1>7. Registered' /\ Arrivals' BY <1>2 DEF CountInv, Registered, Arrivals
<1>8. \A u : /\ StoredFor(u)' = StoredFor(u) /\ CarriedFor(u)' = CarriedFor(u)
             /\ Sampled(u)' = Sampled(u)
  BY <1>2 DEF StoredFor, CarriedFor, Sampled, trainerVars
<1>9. ASSUME NEW u \in made' \ dup', u = t
      PROVE  Count(u)' <= Allowed(u)' /\ ~Sampled(u)'
  <2>1. t \notin made BY <1>1, <1>9
  <2>2. Allowed(u)' = 0 BY <1>2, <1>3, <1>9 DEF Allowed, SpawningFor, Spawning
  <2>3. Count(u)' = 0 BY <1>5, <1>8, <1>9, <2>1, FS_EmptySet DEF Count
  <2> QED BY <1>5, <1>8, <1>9, <2>1, <2>2, <2>3
<1>10. ASSUME NEW u \in made' \ dup', u # t
       PROVE  /\ u \in made \ dup /\ Count(u)' = Count(u) /\ Allowed(u)' = Allowed(u)
              /\ ~SpawningFor(u)'
  BY <1>1, <1>2, <1>3, <1>8, <1>10 DEF Count, Allowed, SpawningFor, Spawning
<1>11. Counted' BY <1>9, <1>10 DEF CountInv, Counted
<1>12. UsedUp' BY <1>8, <1>9, <1>10 DEF CountInv, UsedUp
<1> QED BY <1>6, <1>7, <1>11, <1>12 DEF CountInv

LEMMA RegisterCounts ==
  ASSUME TypeOK, TypeOK', CountInv, UNCHANGED trainerVars, NEW w \in Workers, Register(w)
  PROVE  CountInv'
<1> DEFINE t == local.tgt
<1>1. /\ UNCHANGED <<stored, pushed, made, dup, local>>
      /\ cpc = "acquire" /\ cpc' = "start"
  BY DEF Register, At, storeVars
<1>2. /\ worker[w].pc = "free"
      /\ worker'[w].pc = "registered" /\ worker'[w].tgt = t
      /\ \A u \in Workers \ {w} : worker'[u] = worker[u]
  BY DEF Register, TypeOK, CollectorTypeOK
<1>3. /\ Carrying' = Carrying \cup {w} /\ w \notin Carrying
      /\ \A u \in Carrying : worker'[u] = worker[u]
  BY <1>2 DEF Carrying
<1>4. t \in made BY <1>1 DEF CountInv, Reserved, Spawning
<1>5. Reserved'
  <2>1. \A g \in Carried' : g.tgt \in made
    BY <1>1, <1>2, <1>3, <1>4 DEF CountInv, Reserved, Carried
  <2> QED BY <1>1, <1>4, <2>1 DEF CountInv, Reserved, Sampled, trainerVars
<1>6. Registered' /\ Arrivals' BY <1>1, <1>2 DEF CountInv, Registered, Arrivals
<1>7. ASSUME NEW u \in made \ dup, u = t
      PROVE  Count(u)' <= Allowed(u)' /\ ~Sampled(u)'
  <2>1. StoredFor(u)' = StoredFor(u) BY <1>1 DEF StoredFor
  <2>2. CarriedFor(u)' = CarriedFor(u) \cup {w} /\ w \notin CarriedFor(u)
    BY <1>2, <1>3, <1>7 DEF CarriedFor
  <2>3. Cardinality(CarriedFor(u)') = Cardinality(CarriedFor(u)) + 1
    BY <2>2, Finite, FS_AddElement DEF CountInv
  <2>4. Count(u)' = Count(u) + 1 BY <2>1, <2>3, Finite DEF Count, CountInv
  <2>5. Allowed(u) = local.idx /\ Allowed(u)' = local.idx + 1
    BY <1>1, <1>7 DEF Allowed, SpawningFor, Spawning
  <2>6. Count(u) \in Int /\ local.idx \in Int BY CountType, LocalIdx DEF CountInv
  <2>7. Count(u) <= Allowed(u) BY DEF CountInv, Counted
  <2>8. ~Sampled(u)'
    BY <1>1, <1>7 DEF CountInv, UsedUp, SpawningFor, Spawning, Sampled, trainerVars
  <2> QED BY <2>4, <2>5, <2>6, <2>7, <2>8
<1>8. ASSUME NEW u \in made \ dup, u # t
      PROVE  /\ StoredFor(u)' = StoredFor(u) /\ CarriedFor(u)' = CarriedFor(u)
             /\ Allowed(u)' = Allowed(u) /\ ~SpawningFor(u)'
             /\ Sampled(u)' = Sampled(u)
  <2>1. StoredFor(u)' = StoredFor(u) /\ Sampled(u)' = Sampled(u)
    BY <1>1 DEF StoredFor, Sampled, trainerVars
  <2>2. CarriedFor(u)' = CarriedFor(u)
    BY <1>2, <1>3, <1>8 DEF CarriedFor
  <2> QED BY <1>1, <1>8, <2>1, <2>2 DEF Allowed, SpawningFor, Spawning
<1>9. Counted' BY <1>1, <1>7, <1>8 DEF CountInv, Counted, Count
<1>10. UsedUp' BY <1>1, <1>7, <1>8 DEF CountInv, UsedUp
<1> QED BY <1>5, <1>6, <1>9, <1>10 DEF CountInv

LEMMA StartCounts ==
  ASSUME TypeOK, TypeOK', CountInv, UNCHANGED trainerVars, NEW w \in Workers, Start(w)
  PROVE  CountInv'
<1>1. UNCHANGED <<stored, pushed, made, dup>> /\ cpc = "start" /\ cpc' \in {"gate", "fetch"}
  BY DEF Start, storeVars
<1>2. /\ worker[w].pc = "registered" /\ worker'[w].pc = "rollout"
      /\ worker'[w].tgt = worker[w].tgt
      /\ \A u \in Workers \ {w} : worker'[u] = worker[u]
  BY DEF Start, TypeOK, CollectorTypeOK, WorkerState
<1>3. /\ Carrying' = Carrying
      /\ \A u \in Carrying : worker'[u].tgt = worker[u].tgt
  BY <1>2 DEF Carrying
<1>4. \/ /\ cpc' = "gate" /\ local'.ver = local.ver /\ local'.tgt = local.tgt
         /\ local'.idx = local.idx + 1
      \/ cpc' = "fetch" /\ local'.ver = StartStep
  <2>1. local \in LocalState BY DEF TypeOK, CollectorTypeOK
  <2>2. CASE local.idx + 1 < NumPrompts
    <3>1. cpc' = "gate" /\ local' = [local EXCEPT !.idx = @ + 1] BY <2>2 DEF Start
    <3> QED BY <2>1, <3>1 DEF LocalState
  <2>3. CASE ~(local.idx + 1 < NumPrompts)
    <3>1. cpc' = "fetch" /\ local' = NoBatch BY <2>3 DEF Start
    <3> QED BY <3>1 DEF NoBatch
  <2> QED BY <2>2, <2>3
<1>5. StartStep <= local'.ver
  BY <1>4, CollectorAssumption DEF CountInv, Reserved
<1>6. \A g \in Carried' : g.tgt \in made
  BY <1>1, <1>3 DEF CountInv, Reserved, Carried
<1>7. Reserved'
  BY <1>1, <1>4, <1>5, <1>6 DEF CountInv, Reserved, Sampled, trainerVars, Spawning
<1>8. Registered' /\ Arrivals' BY <1>1 DEF CountInv, Registered, Arrivals
<1>9. \A t \in made : SpawningFor(t)' => SpawningFor(t)
  BY <1>1, <1>4 DEF SpawningFor, Spawning
<1>10. ASSUME NEW t \in made \ dup, Count(t) <= Allowed(t) PROVE Count(t) <= Allowed(t)'
  <2>1. local.idx \in 0 .. NumPrompts - 1 /\ NumPrompts \in Nat BY LocalIdx
  <2>2. Allowed(t) \in Int /\ Allowed(t)' \in Int /\ Allowed(t) <= Allowed(t)'
    BY <1>1, <1>4, <2>1 DEF Allowed, SpawningFor, Spawning
  <2>3. Count(t) \in Int BY CountType DEF CountInv
  <2> QED BY <1>10, <2>2, <2>3
<1>11. Counted' /\ UsedUp'
  BY <1>1, <1>3, <1>9, <1>10, FewerGroups DEF trainerVars
<1> QED BY <1>7, <1>8, <1>11 DEF CountInv

LEMMA ThreadCount ==
  ASSUME TypeOK, TypeOK', AgeInv, CountInv, CollectionThread, UNCHANGED trainerVars
  PROVE  CountInv'
<1> USE DEF ThreadOnly, At, Spawning, NoBatch, storeVars
<1>1. StartStep <= local.ver /\ StartStep <= version /\ local \in LocalState
  BY DEF CountInv, Reserved, AgeInv, TypeOK, CollectorTypeOK
<1>2. ASSUME UNCHANGED <<stored, pushed, made, dup, worker>>, StartStep <= local'.ver,
             cpc \notin Spawning, cpc' \notin Spawning
      PROVE  CountInv'
  BY <1>2, ThreadMoves
<1>3. StartStep <= NoBatch.ver BY CollectorAssumption
<1>4. CASE Fetch BY <1>1, <1>2, <1>4 DEF Fetch
<1>5. CASE StopCollection BY <1>1, <1>2, <1>5 DEF StopCollection
<1>6. CASE RefitGate BY <1>1, <1>2, <1>6 DEF RefitGate
<1>7. CASE LimitVersion BY <1>1, <1>2, <1>7 DEF LimitVersion, LocalState
<1>8. CASE LimitLast BY <1>1, <1>2, <1>8 DEF LimitLast, LocalState
<1>9. CASE LimitCheck BY <1>2, <1>3, <1>9 DEF LimitCheck
<1>10. CASE LimitPause BY <1>1, <1>2, <1>10 DEF LimitPause
<1>11. CASE LimitClear BY <1>1, <1>2, <1>11 DEF LimitClear
<1>12. CASE LimitTest BY <1>1, <1>2, <1>12 DEF LimitTest
<1>13. CASE BatchVersion BY <1>1, <1>2, <1>13 DEF BatchVersion, LocalState
<1>14. CASE BatchLast BY <1>1, <1>2, <1>14 DEF BatchLast, LocalState
<1>15. CASE Reserve BY <1>15, ReserveCounts
<1>16. CASE DropBatch BY <1>2, <1>3, <1>16 DEF DropBatch
<1>17. CASE PromptGate BY <1>1, <1>17, ThreadMoves DEF PromptGate
<1>18. CASE RereadVersion
  <2>1. local'.ver = version /\ local'.tgt = local.tgt /\ local'.idx = local.idx
    BY <1>1, <1>18 DEF RereadVersion, LocalState
  <2> QED BY <1>1, <1>18, <2>1, ThreadMoves DEF RereadVersion
<1>19. ASSUME NEW w \in Workers, Register(w) PROVE CountInv'
  BY <1>19, RegisterCounts
<1>20. ASSUME NEW w \in Workers, Start(w) PROVE CountInv'
  BY <1>20, StartCounts
<1> QED
  BY <1>4, <1>5, <1>6, <1>7, <1>8, <1>9, <1>10, <1>11, <1>12, <1>13, <1>14, <1>15, <1>16,
     <1>17, <1>18, <1>19, <1>20
  DEF CollectionThread

-----------------------------------------------------------------------------
(* The actor's thread and the training loop *)

LEMMA ActorCount ==
  ASSUME TypeOK', CountInv, ActorThread, UNCHANGED trainerVars
  PROVE  CountInv'
<1>1. /\ UNCHANGED <<stored, pushed, made, dup, worker, local>>
      /\ \/ cpc' = cpc
         \/ cpc \notin Spawning /\ cpc' \notin Spawning
         \/ cpc = "gateWait" /\ cpc' = "reread"
  BY DEF ActorThread, SetWeightVersion, OpenLimitGate, Pause, Resume, PrepareForRefit,
     PollPending, ResumeAfterRefit, threadVars, storeVars, Spawning
<1>2. CASE cpc' = cpc
  BY <1>1, <1>2, StutterCount DEF countVars, trainerVars
<1>3. CASE cpc' # cpc
  <2>1. cpc' # "start" /\ StartStep <= local'.ver
    BY <1>1, <1>3 DEF CountInv, Reserved, Spawning
  <2> QED BY <1>1, <1>3, <2>1, ThreadMoves DEF Spawning
<1> QED BY <1>2, <1>3

\* Of a set of k elements with different arrival numbers, the k earliest are all.
LEMMA EarliestAll ==
  ASSUME NEW S, IsFiniteSet(S), \A g \in S : g.n \in Nat, NEW k \in Nat, Cardinality(S) <= k
  PROVE  Earliest(S, k) = S
<1>1. ASSUME NEW g \in S PROVE Cardinality({h \in S : h.n < g.n}) < k
  <2> DEFINE before == {h \in S : h.n < g.n}
  <2>1. before \in SUBSET (S \ {g})
    <3>1. ~(g.n < g.n) OBVIOUS
    <3> QED BY <3>1
  <2>2. /\ IsFiniteSet(S \ {g}) /\ Cardinality(S \ {g}) = Cardinality(S) - 1
        /\ Cardinality(S) \in Nat
    BY FS_RemoveElement, FS_CardinalityType
  <2>3. Cardinality(before) <= Cardinality(S \ {g}) /\ IsFiniteSet(before)
    BY <2>1, <2>2, FS_Subset
  <2>4. Cardinality(before) \in Nat BY <2>3, FS_CardinalityType
  <2> QED BY <2>2, <2>3, <2>4
<1> QED BY <1>1 DEF Earliest

\* All groups of the step leave the buffer: there are no more than one step's
\* worth, and while some are still to come there are fewer.
LEMMA SampleTakesAll ==
  ASSUME TypeOK, CountInv, TakeSample, weightVersion \in made \ dup
  PROVE  /\ StoredFor(weightVersion)' = {} /\ CarriedFor(weightVersion) = {}
         /\ ~SpawningFor(weightVersion)
<1> DEFINE t == weightVersion
<1> DEFINE S == Intended(t, MaxAge)
<1>1. /\ Cardinality(S) >= NumPrompts
      /\ stored' = stored \ Earliest(S, NumPrompts)
  BY DEF TakeSample, Sample, SampleReady
<1>2. /\ IsFiniteSet(StoredFor(t)) /\ Cardinality(StoredFor(t)) \in Nat
      /\ IsFiniteSet(CarriedFor(t)) /\ Cardinality(CarriedFor(t)) \in Nat
  BY Finite DEF CountInv
<1>3. S \in SUBSET StoredFor(t) BY DEF Intended, StoredFor
<1>4. IsFiniteSet(S) /\ Cardinality(S) \in Nat /\ Cardinality(S) <= Cardinality(StoredFor(t))
  BY <1>2, <1>3, FS_Subset, FS_CardinalityType
<1>5. Cardinality(StoredFor(t)) + Cardinality(CarriedFor(t)) <= Allowed(t)
  BY DEF CountInv, Counted, Count
<1>6. NumPrompts \in Nat /\ local.idx \in 0 .. NumPrompts - 1
  BY CollectorAssumption DEF TypeOK, CollectorTypeOK, LocalState
<1>7. ~SpawningFor(t)
  <2>1. SUFFICES ASSUME SpawningFor(t) PROVE FALSE
    OBVIOUS
  <2>2. cpc = "start"
    BY <1>1, <1>2, <1>4, <1>5, <1>6, <2>1 DEF Allowed
  <2>3. PICK w \in Workers : worker[w].pc = "registered" /\ worker[w].tgt = local.tgt
    BY <2>2 DEF CountInv, Registered
  <2>4. worker[w].tgt = t BY <2>1, <2>3 DEF SpawningFor
  <2>5. w \in CarriedFor(t) BY <2>3, <2>4 DEF CarriedFor, Carrying
  <2>6. Cardinality(CarriedFor(t)) # 0 BY <1>2, <2>5, FS_EmptySet
  <2>7. Allowed(t) <= NumPrompts BY <1>6, <2>1, <2>2 DEF Allowed
  <2>8. Allowed(t) \in Int BY <1>6 DEF Allowed
  <2> QED BY <1>1, <1>2, <1>4, <1>5, <1>6, <2>6, <2>7, <2>8
<1>8. Allowed(t) = NumPrompts BY <1>7 DEF Allowed
<1>9. Cardinality(StoredFor(t)) = Cardinality(S) /\ Cardinality(S) = NumPrompts
      /\ Cardinality(CarriedFor(t)) = 0
  BY <1>1, <1>2, <1>4, <1>5, <1>6, <1>8
<1>10. CarriedFor(t) = {} BY <1>2, <1>9, FS_EmptySet
<1>11. S = StoredFor(t) BY <1>2, <1>3, <1>9, FS_Subset
<1>12. Earliest(S, NumPrompts) = S
  <2>1. \A g \in S : g.n \in Nat
    BY DEF Intended, TypeOK, StoreTypeOK, Group
  <2> QED BY <1>4, <1>6, <1>9, <2>1, EarliestAll
<1>13. StoredFor(t)' = {}
  <2>1. weightVersion' = weightVersion BY DEF TakeSample
  <2> QED BY <1>1, <1>11, <1>12, <2>1 DEF StoredFor
<1> QED BY <1>7, <1>10, <1>13

LEMMA SampleCount ==
  ASSUME TypeOK, TypeOK', CountInv, TakeSample
  PROVE  CountInv'
<1>1. /\ UNCHANGED <<made, dup, cpc, local, worker, weightVersion, pushed>>
      /\ stored' \in SUBSET stored
      /\ tpc = "sample" /\ tpc' = "train"
  BY DEF TakeSample, Turn, Sample, OthersUnchanged, threadVars
<1>2. Carrying' = Carrying BY <1>1 DEF Carrying
<1>3. weightVersion \in made
  <2>1. Cardinality(Intended(weightVersion, MaxAge)) >= NumPrompts
    BY DEF TakeSample, Sample, SampleReady
  <2>2. Intended(weightVersion, MaxAge) # {}
    BY <2>1, FS_EmptySet, CollectorAssumption
  <2>3. PICK g \in stored : g.tgt = weightVersion BY <2>2 DEF Intended
  <2> QED BY <2>3 DEF CountInv, Reserved, Carried
<1>4. Reserved'
  <2>1. \A t \in StartStep .. weightVersion : Sampled(t)' => t \in made
    BY <1>1, <1>3 DEF CountInv, Reserved, Sampled
  <2> QED BY <1>1, <1>2, <2>1 DEF CountInv, Reserved, Carried
<1>5. Registered' BY <1>1 DEF CountInv, Registered
<1>6. Arrivals'
  <2>1. IsFiniteSet(stored') BY <1>1, FS_Subset DEF CountInv, Arrivals
  <2> QED BY <1>1, <2>1 DEF CountInv, Arrivals
<1>7. ASSUME NEW t \in made \ dup
      PROVE  /\ StoredFor(t)' \in SUBSET StoredFor(t) /\ CarriedFor(t)' = CarriedFor(t)
             /\ Allowed(t)' = Allowed(t) /\ SpawningFor(t)' = SpawningFor(t)
  BY <1>1, <1>2 DEF StoredFor, CarriedFor, Allowed, SpawningFor
<1>8. ASSUME NEW t \in made \ dup PROVE Count(t)' <= Allowed(t)'
  <2>1. Count(t)' <= Count(t) BY <1>7, CountFalls DEF CountInv
  <2>2. Count(t) <= Allowed(t)' BY <1>7 DEF CountInv, Counted
  <2>3. Count(t) \in Int /\ Count(t)' \in Int
    BY <1>6, <1>7, Finite, FS_Subset, FS_CardinalityType DEF Count, CountInv
  <2>4. Allowed(t)' \in Int
    BY <1>7, CollectorAssumption DEF Allowed, TypeOK, CollectorTypeOK, LocalState
  <2> QED BY <2>1, <2>2, <2>3, <2>4
<1>9. Counted' BY <1>1, <1>8 DEF Counted
<1>10. ASSUME NEW t \in made \ dup, Sampled(t)'
       PROVE  StoredFor(t)' = {} /\ CarriedFor(t)' = {} /\ ~SpawningFor(t)'
  <2>1. CASE t = weightVersion
    <3>1. StoredFor(weightVersion)' = StoredFor(t)' BY <1>1, <2>1 DEF StoredFor
    <3> QED BY <1>7, <2>1, <3>1, SampleTakesAll
  <2>2. CASE t # weightVersion
    <3>1. Sampled(t) BY <1>1, <1>10, <2>2 DEF Sampled
    <3> QED BY <1>7, <3>1 DEF CountInv, UsedUp
  <2> QED BY <2>1, <2>2
<1>11. UsedUp' BY <1>1, <1>10 DEF UsedUp
<1> QED BY <1>4, <1>5, <1>6, <1>9, <1>11 DEF CountInv

LEMMA TrainerCount ==
  ASSUME TypeOK, TypeOK', CountInv, Trainer
  PROVE  CountInv'
<1>1. CASE TakeSample BY <1>1, SampleCount
<1>2. CASE ~TakeSample
  <2>1. /\ UNCHANGED <<stored, pushed, made, dup, worker, local, cpc>>
        /\ weightVersion' \in Nat /\ weightVersion \in Nat
        /\ \/ weightVersion' = weightVersion
              /\ \/ tpc' \notin {"train", "preparing", "refit"}
                 \/ tpc \in {"train", "preparing", "refit"}
           \/ weightVersion' = weightVersion + 1 /\ tpc = "refit" /\ tpc' \in {"validate", "finish"}
    BY <1>2 DEF Trainer, FirstRefit, FirstRefitFails, EndFirstValidation, BufferFilled,
       SampleAborts, Train, BeginRefit, EndRefit, EndValidation, FinishStep, LoopFails, Turn,
       OthersUnchanged, threadVars, storeVars, TypeOK
  <2>2. \A t \in Nat : Sampled(t)' => Sampled(t)
    BY <2>1 DEF Sampled
  <2>3. Carrying' = Carrying BY <2>1 DEF Carrying
  <2>4. \A t : /\ StoredFor(t)' = StoredFor(t) /\ CarriedFor(t)' = CarriedFor(t)
               /\ Allowed(t)' = Allowed(t) /\ SpawningFor(t)' = SpawningFor(t)
    BY <2>1, <2>3 DEF StoredFor, CarriedFor, Allowed, SpawningFor, Spawning
  <2>5. Reserved'
    <3>1. ASSUME NEW t \in StartStep .. weightVersion', Sampled(t)' PROVE t \in made
      <4>1. t \in Nat /\ Sampled(t) BY <2>1, <2>2, <3>1, CollectorAssumption
      <4>2. t <= weightVersion BY <2>1, <4>1 DEF Sampled
      <4> QED BY <2>1, <3>1, <4>1, <4>2, CollectorAssumption DEF CountInv, Reserved
    <3> QED BY <2>1, <2>3, <3>1 DEF CountInv, Reserved, Carried, Spawning
  <2>6. Registered' /\ Arrivals' BY <2>1 DEF CountInv, Registered, Arrivals
  <2>7. Counted' BY <2>1, <2>4 DEF CountInv, Counted, Count
  <2>8. UsedUp'
    <3>1. made \subseteq Nat BY DEF TypeOK, CollectorTypeOK
    <3> QED BY <2>1, <2>2, <2>4, <3>1 DEF CountInv, UsedUp
  <2> QED BY <2>5, <2>6, <2>7, <2>8 DEF CountInv
<1> QED BY <1>1, <1>2

-----------------------------------------------------------------------------
(* Leftovers *)

\* The books of targets are kept by whatever the collection thread, the workers,
\* the trainer and the collector do: a target reserved once has at most as many
\* groups, stored or carried, as workers were created for it, and none once its
\* step has sampled.
THEOREM CountInvariant == Spec => []CountInv
<1>1. TypeOK /\ TypeOK' /\ AgeInv /\ CountInv /\ [Next]_vars => CountInv'
  <2>1. UNCHANGED vars => UNCHANGED countVars
    BY DEF vars, countVars, storeVars, collectorVars, threadVars, trainerVars
  <2> QED
    BY <2>1, StutterCount, ThreadCount, WorkerCount, ActorCount, TrainerCount
    DEF Next, CollectorStep
<1> QED BY <1>1, InitCount, TypeCorrect, AgeInvariant, PTL DEF Spec

\* A group that outlives the step it was meant for has a target that was
\* reserved twice: whatever threads, refits and failed rollouts do, a target
\* reserved once has no more groups than its step samples.
THEOREM LeftoversAreDuplicates == Spec => []LeftoverMeansDuplicate
<1>1. TypeOK /\ CountInv => LeftoverMeansDuplicate
  <2> SUFFICES ASSUME TypeOK, CountInv, NEW g \in Carried, g.tgt < weightVersion,
                      g.tgt \notin dup
               PROVE  FALSE
    BY DEF LeftoverMeansDuplicate
  <2>1. g.tgt \in made \ dup /\ Sampled(g.tgt) BY DEF CountInv, Reserved, Sampled
  <2>2. StoredFor(g.tgt) = {} /\ CarriedFor(g.tgt) = {} BY <2>1 DEF CountInv, UsedUp
  <2> QED BY <2>2 DEF Carried, StoredFor, CarriedFor
<1> QED BY <1>1, TypeCorrect, CountInvariant, PTL

\* sample raises its ValueError, which ends the run, only for groups whose
\* target was reserved twice.
THEOREM ErrorsAreDuplicates ==
  Spec => [](SampleRaises(weightVersion, MaxAge) => dup # {})
<1>1. /\ LeftoverMeansDuplicate
      /\ \A g \in TooOld(weightVersion, MaxAge) : g.tgt < weightVersion
      => (SampleRaises(weightVersion, MaxAge) => dup # {})
  BY DEF LeftoverMeansDuplicate, SampleRaises, TooOld, Carried
<1> QED BY <1>1, LeftoversAreDuplicates, OnlyLeftoversAreTooOld, PTL

-----------------------------------------------------------------------------
(* The size of the buffer *)

\* The place of a stored group among those of its target, by arrival.
Rank(g) == Cardinality({h \in StoredFor(g.tgt) : h.n < g.n})

LEMMA RankFacts ==
  ASSUME TypeOK, CountInv
  PROVE  /\ \A g \in stored : Rank(g) \in 0 .. Cardinality(StoredFor(g.tgt)) - 1
         /\ \A g, h \in stored : g.tgt = h.tgt /\ Rank(g) = Rank(h) => g = h
<1> DEFINE before(g) == {h \in StoredFor(g.tgt) : h.n < g.n}
<1>1. \A g \in stored : g.n \in Nat BY DEF TypeOK, StoreTypeOK, Group
<1>2. ASSUME NEW g \in stored
      PROVE  /\ before(g) \in SUBSET (StoredFor(g.tgt) \ {g})
             /\ IsFiniteSet(before(g)) /\ Rank(g) \in Nat
             /\ Rank(g) <= Cardinality(StoredFor(g.tgt)) - 1
             /\ Cardinality(StoredFor(g.tgt)) \in Nat
  <2>1. before(g) \in SUBSET (StoredFor(g.tgt) \ {g})
    <3>1. ~(g.n < g.n) BY <1>1
    <3> QED BY <3>1
  <2>2. /\ IsFiniteSet(StoredFor(g.tgt)) /\ Cardinality(StoredFor(g.tgt)) \in Nat
        /\ g \in StoredFor(g.tgt)
    BY Finite DEF CountInv, StoredFor
  <2>3. /\ IsFiniteSet(StoredFor(g.tgt) \ {g})
        /\ Cardinality(StoredFor(g.tgt) \ {g}) = Cardinality(StoredFor(g.tgt)) - 1
    BY <2>2, FS_RemoveElement
  <2>4. IsFiniteSet(before(g)) /\ Cardinality(before(g)) <= Cardinality(StoredFor(g.tgt)) - 1
    BY <2>1, <2>3, FS_Subset
  <2>5. Cardinality(before(g)) \in Nat BY <2>4, FS_CardinalityType
  <2> QED BY <2>1, <2>2, <2>4, <2>5 DEF Rank
<1>3. ASSUME NEW g \in stored, NEW h \in stored, g.tgt = h.tgt, g.n < h.n
      PROVE  Rank(g) # Rank(h)
  <2>1. before(g) \in SUBSET before(h) BY <1>1, <1>3 DEF StoredFor
  <2>2. g \in before(h) /\ g \notin before(g) BY <1>1, <1>3 DEF StoredFor
  <2>3. IsFiniteSet(before(h)) BY <1>2
  <2>4. Cardinality(before(g)) # Cardinality(before(h)) BY <2>1, <2>2, <2>3, FS_Subset
  <2> QED BY <2>4 DEF Rank
<1>4. ASSUME NEW g \in stored, NEW h \in stored, g.tgt = h.tgt, Rank(g) = Rank(h)
      PROVE  g = h
  <2>1. g.n = h.n BY <1>1, <1>3, <1>4
  <2> QED BY <2>1 DEF CountInv, Arrivals
<1>5. ASSUME NEW g \in stored PROVE Rank(g) \in 0 .. Cardinality(StoredFor(g.tgt)) - 1
  <2>1. /\ Rank(g) \in Nat /\ Cardinality(StoredFor(g.tgt)) \in Nat
        /\ Rank(g) <= Cardinality(StoredFor(g.tgt)) - 1
    BY <1>2
  <2> QED BY <2>1
<1> QED BY <1>4, <1>5

\* A worker with a group in hand finds room: targets lie within the window, and
\* each but its own has at most NumPrompts groups in the buffer.
LEMMA RoomForPush ==
  ASSUME TypeOK, SyncInv, AgeInv, CountInv, dup = {},
         NEW w \in Workers, worker[w].pc = "push"
  PROVE  ~Full
<1> DEFINE own == worker[w].tgt
<1> DEFINE window == weightVersion .. weightVersion + MaxAge
<1> DEFINE places == (window \X (0 .. NumPrompts - 1)) \ {<<own, NumPrompts - 1>>}
<1> DEFINE place == [g \in stored |-> <<g.tgt, Rank(g)>>]
<1>1. /\ weightVersion \in Nat /\ MaxAge \in Nat \ {0} /\ NumPrompts \in Nat \ {0}
      /\ local.idx \in 0 .. NumPrompts - 1
  BY CollectorAssumption DEF TypeOK, CollectorTypeOK, LocalState
<1>2. \A t \in made : Count(t) <= NumPrompts
  <2>1. ASSUME NEW t \in made PROVE Allowed(t) <= NumPrompts /\ Allowed(t) \in Int
    BY <1>1 DEF Allowed
  <2>2. \A t \in made : Count(t) \in Int BY Finite DEF Count, CountInv
  <2> QED BY <1>1, <2>1, <2>2 DEF CountInv, Counted
<1>3. ASSUME NEW g \in Carried PROVE g.tgt \in made /\ g.tgt \in window
  <2>1. g.tgt \in made BY DEF CountInv, Reserved
  <2>2. StoredFor(g.tgt) # {} \/ CarriedFor(g.tgt) # {}
    BY DEF Carried, StoredFor, CarriedFor
  <2>3. ~Sampled(g.tgt) BY <2>1, <2>2 DEF CountInv, UsedUp
  <2>4. LabelOK(g) BY DEF AgeInv, Carried
  <2>5. g.tgt \in Nat /\ g.ver \in Nat
    BY DEF Carried, Carrying, TypeOK, StoreTypeOK, CollectorTypeOK, Group, WorkerState
  <2> QED BY <1>1, <2>1, <2>3, <2>4, <2>5 DEF Sampled, LabelOK
<1>4. w \in Carrying /\ worker[w] \in Carried BY DEF Carrying, Carried
<1>5. own \in made /\ own \in window BY <1>3, <1>4
<1>6. ASSUME NEW g \in stored
      PROVE  <<g.tgt, Rank(g)>> \in places
  <2>1. g.tgt \in made /\ g.tgt \in window BY <1>3 DEF Carried
  <2>2. Cardinality(StoredFor(g.tgt)) \in Nat /\ Cardinality(CarriedFor(g.tgt)) \in Nat
        /\ IsFiniteSet(CarriedFor(g.tgt))
    BY Finite DEF CountInv
  <2>3. Cardinality(StoredFor(g.tgt)) + Cardinality(CarriedFor(g.tgt)) <= NumPrompts
    BY <1>2, <2>1 DEF Count
  <2>4. Rank(g) \in 0 .. Cardinality(StoredFor(g.tgt)) - 1 BY RankFacts
  <2>5. Rank(g) \in 0 .. NumPrompts - 1 BY <1>1, <2>2, <2>3, <2>4
  <2>6. g.tgt = own => Rank(g) # NumPrompts - 1
    <3>1. g.tgt = own => w \in CarriedFor(g.tgt) BY <1>4 DEF CarriedFor
    <3>2. g.tgt = own => Cardinality(CarriedFor(g.tgt)) # 0 BY <2>2, <3>1, FS_EmptySet
    <3> QED BY <1>1, <2>2, <2>3, <2>4, <3>2
  <2> QED BY <2>1, <2>5, <2>6
<1>7. place \in Injection(stored, places)
  <2>1. place \in [stored -> places] BY <1>6
  <2>2. \A g, h \in stored : place[g] = place[h] => g = h BY RankFacts
  <2> QED BY <2>1, <2>2 DEF Injection, IsInjective
<1>8. IsFiniteSet(places) /\ Cardinality(places) = (MaxAge + 1) * NumPrompts - 1
  <2> DEFINE ranks == 0 .. NumPrompts - 1
  <2>1. IsFiniteSet(window) /\ Cardinality(window) = MaxAge + 1
    <3> DEFINE first == weightVersion
    <3> DEFINE final == weightVersion + MaxAge
    <3>1. /\ first \in Int /\ final \in Int /\ ~(first > final)
          /\ final - first + 1 = MaxAge + 1 /\ window = first .. final
      BY <1>1
    <3> HIDE DEF first, final, window
    <3>2. /\ IsFiniteSet(first .. final)
          /\ Cardinality(first .. final) = IF first > final THEN 0 ELSE final - first + 1
      BY <3>1, FS_Interval
    <3> QED BY <3>1, <3>2
  <2>2. IsFiniteSet(ranks) /\ Cardinality(ranks) = NumPrompts
    <3>1. /\ 0 \in Int /\ NumPrompts - 1 \in Int /\ ~(0 > NumPrompts - 1)
          /\ NumPrompts - 1 - 0 + 1 = NumPrompts
      BY <1>1
    <3>2. /\ IsFiniteSet(0 .. NumPrompts - 1)
          /\ Cardinality(0 .. NumPrompts - 1) =
               IF 0 > NumPrompts - 1 THEN 0 ELSE NumPrompts - 1 - 0 + 1
      BY <3>1, FS_Interval
    <3> QED BY <3>1, <3>2
  <2> DEFINE last == <<own, NumPrompts - 1>>
  <2>3. last \in window \X ranks BY <1>1, <1>5
  <2>4. places = (window \X ranks) \ {last} OBVIOUS
  <2> HIDE DEF window, ranks, places, last
  <2>5. /\ IsFiniteSet(window \X ranks)
        /\ Cardinality(window \X ranks) = (MaxAge + 1) * NumPrompts
    BY <2>1, <2>2, FS_Product
  <2>6. /\ IsFiniteSet(places)
        /\ Cardinality(places) = Cardinality(window \X ranks) - 1
    BY <2>3, <2>4, <2>5, FS_RemoveElement
  <2> QED BY <2>5, <2>6
<1>9. Cardinality(stored) <= (MaxAge + 1) * NumPrompts - 1
  BY <1>7, <1>8, FS_Injection
<1>10. MaxSize = NumPrompts * MaxAge * 2 BY TrainerAssumption
<1>11. /\ (MaxAge + 1) * NumPrompts = NumPrompts * MaxAge + NumPrompts
       /\ NumPrompts * MaxAge * 2 = NumPrompts * MaxAge + NumPrompts * MaxAge
       /\ NumPrompts <= NumPrompts * MaxAge /\ NumPrompts * MaxAge \in Nat
  BY <1>1
<1>12. Cardinality(stored) \in Nat BY FS_CardinalityType DEF CountInv, Arrivals
<1> QED BY <1>1, <1>9, <1>10, <1>11, <1>12 DEF Full

\* Only a push that is refused makes a worker back off.
LEMMA BackoffFrame ==
  ASSUME TypeOK, [Next]_vars
  PROVE  /\ dup \subseteq dup'
         /\ \A u \in Workers : worker'[u].pc = "backoff" =>
              worker[u].pc = "backoff" \/ PushFull(u)
<1>1. worker \in [Workers -> WorkerState] BY DEF TypeOK, CollectorTypeOK
<1>2. CASE CollectionThread
  <2>1. dup \subseteq dup'
    BY <1>2 DEF CollectionThread, ThreadOnly, Fetch, StopCollection, RefitGate, LimitVersion,
       LimitLast, LimitCheck, LimitPause, LimitClear, LimitTest, BatchVersion, BatchLast,
       Reserve, DropBatch, PromptGate, RereadVersion, Register, Start
  <2>2. \A u \in Workers : worker'[u].pc = "backoff" => worker[u].pc = "backoff"
    <3>1. ASSUME NEW w \in Workers, Register(w) \/ Start(w)
          PROVE  /\ worker'[w].pc \in {"registered", "rollout"}
                 /\ \A u \in Workers \ {w} : worker'[u] = worker[u]
      BY <1>1, <3>1 DEF Register, Start, WorkerState
    <3>2. (\E w \in Workers : Register(w) \/ Start(w)) \/ worker' = worker
      BY <1>2 DEF CollectionThread, ThreadOnly, Fetch, StopCollection, RefitGate,
         LimitVersion, LimitLast, LimitCheck, LimitPause, LimitClear, LimitTest,
         BatchVersion, BatchLast, Reserve, DropBatch, PromptGate, RereadVersion
    <3> QED BY <3>1, <3>2
  <2> QED BY <2>1, <2>2
<1>3. ASSUME NEW w \in Workers, WorkerThread(w)
      PROVE  /\ dup' = dup
             /\ worker'[w].pc = "backoff" => PushFull(w)
             /\ \A u \in Workers \ {w} : worker'[u] = worker[u]
  <2>1. dup' = dup /\ \A u \in Workers \ {w} : worker'[u] = worker[u]
    BY <1>3, WorkerFrame
  <2>2. ASSUME NEW here, NEW there, Go(w, here, there) PROVE worker'[w].pc = there
    BY <1>1, <2>2 DEF Go, WorkerState
  <2>3. CASE Finally(w) BY <1>1, <2>1, <2>3 DEF Finally, Idle
  <2>4. CASE WorkerThread(w) /\ ~Finally(w) /\ ~PushFull(w)
    <3>1. worker'[w].pc # "backoff"
      BY <2>2, <2>4
      DEF WorkerThread, FinishRollout, FailRollout, PushGroup, Retry, ReleaseTarget
    <3> QED BY <2>1, <3>1
  <2> QED BY <1>3, <2>1, <2>3, <2>4
<1>4. CASE ActorThread \/ Trainer \/ UNCHANGED vars
  <2>1. UNCHANGED <<dup, worker>>
    BY <1>4 DEF ActorThread, SetWeightVersion, OpenLimitGate, Pause, Resume, PrepareForRefit,
       PollPending, ResumeAfterRefit, Trainer, FirstRefit, FirstRefitFails,
       EndFirstValidation, BufferFilled, TakeSample, SampleAborts, Train, BeginRefit,
       EndRefit, EndValidation, FinishStep, LoopFails, OthersUnchanged, threadVars, vars,
       collectorVars
  <2> QED BY <2>1
<1> QED BY <1>2, <1>3, <1>4 DEF Next, CollectorStep

\* The buffer, sized for twice the groups of the window, is never full when a
\* worker pushes, unless a target was reserved twice.
THEOREM BackPressureIsDuplicate == Spec => []BackPressureMeansDuplicate
<1> DEFINE Inv == TypeOK /\ SyncInv /\ AgeInv /\ CountInv
<1>1. Init => BackPressureMeansDuplicate
  BY DEF Init, CollectorInit, BackPressureMeansDuplicate, Idle
<1>2. ASSUME Inv, BackPressureMeansDuplicate, [Next]_vars
      PROVE  BackPressureMeansDuplicate'
  <2> SUFFICES ASSUME dup' = {}, NEW u \in Workers, worker'[u].pc = "backoff"
               PROVE  FALSE
    BY DEF BackPressureMeansDuplicate
  <2>1. dup = {} BY <1>2, BackoffFrame
  <2>2. worker[u].pc # "backoff" BY <1>2, <2>1 DEF BackPressureMeansDuplicate
  <2>3. PushFull(u) BY <1>2, <2>2, BackoffFrame
  <2>4. Full /\ worker[u].pc = "push" BY <2>3 DEF PushFull, Go
  <2> QED BY <1>2, <2>1, <2>4, RoomForPush
<1> QED
  BY <1>1, <1>2, TypeCorrect, SyncInvariant, AgeInvariant, CountInvariant, PTL DEF Spec

-----------------------------------------------------------------------------
(* Generations that a refit misses *)

\* The refit gate is shut and the pending generations are being waited for, or
\* they were, and the refit is about to begin or going on.
Draining == apc = "draining"
Drained == apc = "idle" /\ mailbox = <<>> /\ tpc \in {"preparing", "refit"}

\* The workers that no refit waits for: forgotten by a poll that found them not
\* started, or started after the last poll.
Missed ==
  {w \in Workers : /\ worker[w].pc \in {"registered", "rollout"}
                   /\ Drained \/ w \notin inflight}
MissedFrom(t) == {w \in Missed : worker[w].tgt >= t}

\* A prompt is past the gate and its worker is not yet among the missed.
Coming ==
  \/ cpc \in {"reread", "acquire"}
  \/ \E w \in Workers \ Missed : worker[w].pc = "registered"

\* What this refit may have missed so far.
MissedNow == IF (Draining \/ Drained) /\ ~Coming THEN 1 ELSE 0

\* Each refit misses at most one worker, whose target lies within the window of
\* the version at that time: of those with target t or later, only refits to a
\* version from t - MaxAge on missed one.
OnePerRefit ==
  \A t \in 0 .. weightVersion + MaxAge :
    Cardinality(MissedFrom(t)) <= weightVersion + MaxAge - t + MissedNow

\* prepare_for_refit is the last call before a refit, and the only one of its kind.
DrainInv ==
  /\ \A i \in 1 .. Len(mailbox) : mailbox[i].kind = "prepare_for_refit" =>
       tpc = "preparing" /\ i = Len(mailbox)
  /\ Draining => tpc = "preparing" /\ mailbox = <<>>
  /\ tpc = "preparing" /\ mailbox = <<>> => apc # "wake"
  /\ tpc = "refit" => apc = "idle"

MissedInv == tpc \notin Ended => OnePerRefit

LEMMA InitMissed == Init => DrainInv /\ MissedInv
<1> SUFFICES ASSUME Init PROVE DrainInv /\ OnePerRefit
  BY DEF MissedInv
<1>1. DrainInv BY DEF Init, CollectorInit, DrainInv, Draining, Call
<1>2. \A t : MissedFrom(t) = {}
  BY DEF Init, CollectorInit, MissedFrom, Missed, Idle
<1>3. MissedNow \in 0 .. 1 BY DEF MissedNow
<1>4. weightVersion \in Nat /\ MaxAge \in Nat
  BY CollectorAssumption DEF Init
<1>5. ASSUME NEW t \in 0 .. weightVersion + MaxAge
      PROVE  Cardinality(MissedFrom(t)) <= weightVersion + MaxAge - t + MissedNow
  <2>1. Cardinality(MissedFrom(t)) = 0 BY <1>2, FS_EmptySet
  <2> QED BY <1>3, <1>4, <2>1
<1> QED BY <1>1, <1>5 DEF OnePerRefit

LEMMA MissedFinite ==
  ASSUME NEW t
  PROVE  IsFiniteSet(MissedFrom(t)) /\ Cardinality(MissedFrom(t)) \in Nat
<1>1. MissedFrom(t) \in SUBSET Workers /\ IsFiniteSet(Workers)
  BY TrainerAssumption DEF MissedFrom, Missed
<1>2. IsFiniteSet(MissedFrom(t)) BY <1>1, FS_Subset
<1> QED BY <1>2, FS_CardinalityType

-----------------------------------------------------------------------------
(* The calls before a refit *)

LEMMA ActorDrain ==
  ASSUME TypeOK, SyncInv, DrainInv, ActorThread, UNCHANGED trainerVars
  PROVE  DrainInv'
<1>1. mailbox \in Seq(Message) BY DEF TypeOK, CollectorTypeOK
<1>2. Len(mailbox) \in Nat /\ tpc' = tpc BY <1>1 DEF trainerVars
<1>3. ASSUME NEW kind, TakeUp(kind), apc' \in {"idle", "wake", "draining"},
             apc' = "wake" => kind # "prepare_for_refit",
             apc' = "draining" => kind = "prepare_for_refit"
      PROVE  DrainInv'
  <2>1. /\ apc = "idle" /\ mailbox # <<>> /\ mailbox[1].kind = kind
        /\ Len(mailbox') = Len(mailbox) - 1
        /\ \A i \in 1 .. Len(mailbox') : mailbox'[i] = mailbox[i + 1]
        /\ mailbox' = <<>> <=> Len(mailbox) = 1
    BY <1>1, <1>3, TakesFirst DEF TakeUp
  <2>2. Len(mailbox) >= 1 /\ Len(mailbox') \in Nat
    <3>1. \A s \in Seq(Message) : s # <<>> => Len(s) >= 1 OBVIOUS
    <3> QED BY <1>1, <1>2, <2>1, <3>1
  <2>3. \A i \in 1 .. Len(mailbox') : mailbox'[i].kind = "prepare_for_refit" =>
          tpc = "preparing" /\ i = Len(mailbox')
    <3> SUFFICES ASSUME NEW i \in 1 .. Len(mailbox'), mailbox'[i].kind = "prepare_for_refit"
                 PROVE  tpc = "preparing" /\ i = Len(mailbox')
      OBVIOUS
    <3>1. i + 1 \in 1 .. Len(mailbox) /\ mailbox[i + 1].kind = "prepare_for_refit"
      BY <1>2, <2>1, <2>2
    <3>2. tpc = "preparing" /\ i + 1 = Len(mailbox) BY <3>1 DEF DrainInv
    <3> QED BY <1>2, <2>1, <3>2
  <2>4. kind = "prepare_for_refit" => tpc = "preparing" /\ mailbox' = <<>>
    <3>1. 1 \in 1 .. Len(mailbox) BY <1>2, <2>2
    <3>2. kind = "prepare_for_refit" => tpc = "preparing" /\ Len(mailbox) = 1
      BY <2>1, <3>1 DEF DrainInv
    <3> QED BY <2>1, <3>2
  <2>5. tpc = "preparing" /\ mailbox' = <<>> => kind = "prepare_for_refit"
    BY <2>1 DEF SyncInv
  <2>6. tpc # "refit" BY <2>1 DEF SyncInv
  <2> QED BY <1>2, <1>3, <2>3, <2>4, <2>5, <2>6 DEF DrainInv, Draining
<1>4. CASE SetWeightVersion BY <1>3, <1>4 DEF SetWeightVersion
<1>5. CASE Pause BY <1>3, <1>5 DEF Pause, TakeUp
<1>6. CASE Resume BY <1>3, <1>6 DEF Resume, TakeUp
<1>7. CASE PrepareForRefit BY <1>3, <1>7 DEF PrepareForRefit
<1>8. CASE ResumeAfterRefit BY <1>3, <1>8 DEF ResumeAfterRefit, TakeUp
<1>9. CASE OpenLimitGate BY <1>2, <1>9 DEF OpenLimitGate, DrainInv, Draining
<1>10. CASE PollPending BY <1>2, <1>10 DEF PollPending, DrainInv, Draining
<1> QED
  BY <1>4, <1>5, <1>6, <1>7, <1>8, <1>9, <1>10 DEF ActorThread

LEMMA TrainerDrain ==
  ASSUME TypeOK, SyncInv, DrainInv, Trainer
  PROVE  DrainInv'
<1> USE DEF Turn, OthersUnchanged, NoCall, Ended
<1>1. mailbox \in Seq(Message) /\ Len(mailbox) \in Nat
  BY DEF TypeOK, CollectorTypeOK
\* The loop sends calls of another kind, or none, and does not wait.
<1>2. ASSUME tpc # "preparing", tpc' \notin {"preparing", "refit"}, apc' = apc,
             \A i \in 1 .. Len(mailbox') :
               \/ i \in 1 .. Len(mailbox) /\ mailbox'[i] = mailbox[i]
               \/ mailbox'[i].kind # "prepare_for_refit"
      PROVE  DrainInv'
  BY <1>2 DEF DrainInv, Draining
<1>3. ASSUME NEW kind \in CallKinds, Send(<<Call(kind, 0)>>)
      PROVE  /\ Len(mailbox') = Len(mailbox) + 1 /\ mailbox' # <<>>
             /\ \A i \in 1 .. Len(mailbox) : mailbox'[i] = mailbox[i]
             /\ mailbox'[Len(mailbox) + 1].kind = kind
  BY <1>1, <1>3 DEF Send, Call, Message
<1>4. ASSUME NEW kind \in {"pause", "resume"}, Send(<<Call(kind, 0)>>), apc' = apc,
             tpc # "preparing", tpc' \notin {"preparing", "refit"}
      PROVE  DrainInv'
  <2>1. kind \in CallKinds BY DEF CallKinds
  <2>2. /\ Len(mailbox') = Len(mailbox) + 1
        /\ \A i \in 1 .. Len(mailbox) : mailbox'[i] = mailbox[i]
        /\ mailbox'[Len(mailbox) + 1].kind = kind
    BY <1>3, <1>4, <2>1
  <2> QED BY <1>1, <1>2, <1>4, <2>2
<1>5. CASE FirstRefit
  <2>1. Send(<<Call("pause", 0)>>) \/ mailbox' = mailbox
    BY <1>1, <1>5 DEF FirstRefit, Send
  <2> QED BY <1>2, <1>4, <1>5, <2>1 DEF FirstRefit
<1>6. CASE EndFirstValidation BY <1>4, <1>6 DEF EndFirstValidation
<1>7. CASE EndValidation BY <1>4, <1>7 DEF EndValidation
<1>8. CASE Train
  <2>1. "prepare_for_refit" \in CallKinds BY DEF CallKinds
  <2>2. /\ Len(mailbox') = Len(mailbox) + 1 /\ mailbox' # <<>>
        /\ \A i \in 1 .. Len(mailbox) : mailbox'[i] = mailbox[i]
    BY <1>3, <1>8, <2>1 DEF Train
  <2>3. apc' = apc /\ tpc = "train" /\ tpc' = "preparing" BY <1>8 DEF Train
  <2> QED BY <1>1, <2>2, <2>3 DEF DrainInv, Draining
<1>9. CASE BeginRefit BY <1>9 DEF BeginRefit, CallsDone, DrainInv, Draining
<1>10. CASE EndRefit
  <2>1. \A i \in 1 .. Len(mailbox') : mailbox'[i].kind # "prepare_for_refit"
    BY <1>10, RefitMessages DEF Call
  <2> QED BY <1>2, <1>10, <2>1 DEF EndRefit
<1>11. CASE FirstRefitFails BY <1>2, <1>11 DEF FirstRefitFails
<1>12. CASE BufferFilled BY <1>2, <1>12 DEF BufferFilled
<1>13. CASE TakeSample BY <1>2, <1>13 DEF TakeSample
<1>14. CASE SampleAborts BY <1>2, <1>14 DEF SampleAborts
<1>15. CASE FinishStep BY <1>2, <1>15 DEF FinishStep
<1>16. CASE LoopFails BY <1>2, <1>16 DEF LoopFails
<1> QED
  BY <1>5, <1>6, <1>7, <1>8, <1>9, <1>10, <1>11, <1>12, <1>13, <1>14, <1>15, <1>16
  DEF Trainer

LEMMA NextDrain ==
  ASSUME TypeOK, SyncInv, DrainInv, [Next]_vars
  PROVE  DrainInv'
<1>1. ASSUME UNCHANGED <<mailbox, apc, tpc>> PROVE DrainInv'
  BY <1>1 DEF DrainInv, Draining
<1>2. CASE UNCHANGED vars
  BY <1>1, <1>2 DEF vars, collectorVars, actorVars, trainerVars
<1>3. ASSUME CollectionThread \/ \E w \in Workers : WorkerThread(w), UNCHANGED trainerVars
      PROVE  DrainInv'
  <2>1. UNCHANGED <<mailbox, apc>>
    BY <1>3 DEF CollectionThread, WorkerThread, actorVars, ThreadOnly, Fetch,
       StopCollection, RefitGate, LimitVersion, LimitLast, LimitCheck, LimitPause,
       LimitClear, LimitTest, BatchVersion, BatchLast, Reserve, DropBatch, PromptGate,
       RereadVersion, Register, Start, Go, FinishRollout, FailRollout, PushGroup, PushFull,
       Retry, ReleaseTarget, Finally
  <2> QED BY <1>1, <1>3, <2>1 DEF trainerVars
<1> QED BY <1>2, <1>3, ActorDrain, TrainerDrain DEF Next, CollectorStep

-----------------------------------------------------------------------------
(* One for each refit *)

\* A step after which a target has no missed worker that it did not have before.
LEMMA FewerMissed ==
  ASSUME TypeOK, OnePerRefit, weightVersion' = weightVersion,
         MissedNow <= MissedNow',
         \A t : MissedFrom(t)' \subseteq MissedFrom(t)
  PROVE  OnePerRefit'
<1>1. weightVersion \in Nat /\ MaxAge \in Nat /\ MissedNow \in 0 .. 1 /\ MissedNow' \in 0 .. 1
  BY CollectorAssumption DEF TypeOK, MissedNow
<1>2. ASSUME NEW t \in 0 .. weightVersion + MaxAge
      PROVE  Cardinality(MissedFrom(t)') <= weightVersion + MaxAge - t + MissedNow'
  <2>1. Cardinality(MissedFrom(t)') <= Cardinality(MissedFrom(t))
    BY MissedFinite, FS_Subset
  <2>2. IsFiniteSet(MissedFrom(t)') BY MissedFinite, FS_Subset
  <2>3. Cardinality(MissedFrom(t)') \in Nat BY <2>2, FS_CardinalityType
  <2>4. Cardinality(MissedFrom(t)) <= weightVersion + MaxAge - t + MissedNow
    BY DEF OnePerRefit
  <2> QED BY <1>1, <2>1, <2>3, <2>4, MissedFinite
<1> QED BY <1>2 DEF OnePerRefit

\* A step that makes one more worker a missed one, the one that was coming.
LEMMA OneMissed ==
  ASSUME TypeOK, OnePerRefit, weightVersion' = weightVersion,
         MissedNow = 0, MissedNow' = 1, NEW w,
         \A t : MissedFrom(t)' \subseteq MissedFrom(t) \cup {w}
  PROVE  OnePerRefit'
<1>1. weightVersion \in Nat /\ MaxAge \in Nat
  BY CollectorAssumption DEF TypeOK
<1>2. ASSUME NEW t \in 0 .. weightVersion + MaxAge
      PROVE  Cardinality(MissedFrom(t)') <= weightVersion + MaxAge - t + MissedNow'
  <2> DEFINE more == MissedFrom(t) \cup {w}
  <2>1. /\ IsFiniteSet(more)
        /\ Cardinality(more) = Cardinality(MissedFrom(t))
             \/ Cardinality(more) = Cardinality(MissedFrom(t)) + 1
    BY MissedFinite, FS_AddElement
  <2>2. IsFiniteSet(MissedFrom(t)') /\ Cardinality(MissedFrom(t)') <= Cardinality(more)
    BY <2>1, FS_Subset
  <2>3. Cardinality(MissedFrom(t)') \in Nat BY <2>2, FS_CardinalityType
  <2>4. Cardinality(MissedFrom(t)) <= weightVersion + MaxAge - t + MissedNow
    BY DEF OnePerRefit
  <2> HIDE DEF more
  <2> QED BY <1>1, <2>1, <2>2, <2>3, <2>4, MissedFinite
<1> QED BY <1>2 DEF OnePerRefit

LEMMA GateIsShut ==
  ASSUME SyncInv, DrainInv, Draining \/ Drained
  PROVE  ~refitCleared
BY DEF SyncInv, DrainInv, Draining, Drained

LEMMA MissedNowType == MissedNow \in 0 .. 1 /\ MissedNow' \in 0 .. 1
BY DEF MissedNow

\* The gate is shut: who is not past it does not pass it.
LEMMA ThreadMissed ==
  ASSUME TypeOK, SyncInv, ReservationInv, DrainInv, OnePerRefit, CollectionThread,
         UNCHANGED trainerVars
  PROVE  OnePerRefit'
<1>1. /\ UNCHANGED <<apc, mailbox, tpc, weightVersion>>
      /\ worker \in [Workers -> WorkerState]
  BY DEF trainerVars, CollectionThread, actorVars, ThreadOnly, Fetch, StopCollection,
     RefitGate, LimitVersion, LimitLast, LimitCheck, LimitPause, LimitClear, LimitTest,
     BatchVersion, BatchLast, Reserve, DropBatch, PromptGate, RereadVersion, Register, Start,
     TypeOK, CollectorTypeOK
<1>2. Drained' = Drained /\ Draining' = Draining BY <1>1 DEF Drained, Draining
<1>3. ASSUME NEW w \in Workers, Register(w) PROVE OnePerRefit'
  <2>1. /\ cpc = "acquire" /\ cpc' = "start" /\ worker[w].pc = "free"
        /\ inflight' = inflight \cup {w}
        /\ \A u \in Workers \ {w} : worker'[u] = worker[u]
    BY <1>1, <1>3 DEF Register, At
  <2>2. MissedNow = 0 BY <2>1 DEF MissedNow, Coming
  <2>3. CASE Drained
    <3>1. \A t : MissedFrom(t)' \subseteq MissedFrom(t) \cup {w}
      BY <1>2, <2>1, <2>3 DEF MissedFrom, Missed
    <3>2. ~Coming' BY <1>2, <2>1, <2>3 DEF Coming, Missed
    <3>3. MissedNow' = 1 BY <1>2, <2>3, <3>2 DEF MissedNow
    <3> QED BY <1>1, <2>2, <3>1, <3>3, OneMissed
  <2>4. CASE ~Drained
    <3>1. \A t : MissedFrom(t)' \subseteq MissedFrom(t)
      BY <1>2, <2>1, <2>4 DEF MissedFrom, Missed
    <3>2. MissedNow <= MissedNow' BY <2>2, MissedNowType
    <3> QED BY <1>1, <3>1, <3>2, FewerMissed
  <2> QED BY <2>3, <2>4
<1>4. ASSUME NEW w \in Workers, Start(w) PROVE OnePerRefit'
  <2>1. /\ cpc' \in {"gate", "fetch"}
        /\ worker[w].pc = "registered" /\ worker'[w].pc = "rollout"
        /\ worker'[w].tgt = worker[w].tgt
        /\ \A u \in Workers \ {w} : worker'[u] = worker[u] /\ worker[u].pc # "registered"
    BY <1>1, <1>4 DEF Start, ReservationInv, WorkerState
  <2>2. \A u \in Workers : u \in inflight /\ u \notin inflight' => worker'[u].pc = "free"
    BY <1>4, <2>1 DEF Start, NotStarted, Alive
  <2>3. \A t : MissedFrom(t)' \subseteq MissedFrom(t)
    BY <1>2, <2>1, <2>2 DEF MissedFrom, Missed
  <2>4. ~Coming' BY <2>1 DEF Coming
  <2>5. MissedNow <= MissedNow' BY <1>2, <2>4 DEF MissedNow
  <2> QED BY <1>1, <2>3, <2>5, FewerMissed
<1>5. ASSUME ~(\E w \in Workers : Register(w) \/ Start(w)) PROVE OnePerRefit'
  <2>1. UNCHANGED <<worker, inflight>>
    BY <1>5 DEF CollectionThread, ThreadOnly, Fetch, StopCollection, RefitGate,
       LimitVersion, LimitLast, LimitCheck, LimitPause, LimitClear, LimitTest, BatchVersion,
       BatchLast, Reserve, DropBatch, PromptGate, RereadVersion
  <2>2. cpc' \in {"reread", "acquire"} => refitCleared \/ cpc = "reread"
    BY <1>5 DEF CollectionThread, At, Fetch, StopCollection, RefitGate,
       LimitVersion, LimitLast, LimitCheck, LimitPause, LimitClear, LimitTest, BatchVersion,
       BatchLast, Reserve, DropBatch, PromptGate, RereadVersion
  <2>3. Missed' = Missed BY <1>2, <2>1 DEF Missed
  <2>4. \A t : MissedFrom(t)' \subseteq MissedFrom(t) BY <2>1, <2>3 DEF MissedFrom
  <2>5. Draining \/ Drained => (Coming' => Coming)
    BY <2>1, <2>2, <2>3, GateIsShut DEF Coming
  <2>6. MissedNow <= MissedNow' BY <1>2, <2>5 DEF MissedNow
  <2> QED BY <1>1, <2>4, <2>6, FewerMissed
<1> QED BY <1>3, <1>4, <1>5

LEMMA WorkerMissed ==
  ASSUME TypeOK, OnePerRefit, NEW w \in Workers, WorkerThread(w), UNCHANGED trainerVars
  PROVE  OnePerRefit'
<1>1. /\ UNCHANGED <<cpc, apc, mailbox, tpc, weightVersion>>
      /\ worker \in [Workers -> WorkerState]
  BY DEF trainerVars, WorkerThread, actorVars, threadVars, Go, FinishRollout, FailRollout,
     PushGroup, PushFull, Retry, ReleaseTarget, Finally, TypeOK, CollectorTypeOK
<1>2. Drained' = Drained /\ Draining' = Draining BY <1>1 DEF Drained, Draining
<1>3. /\ \A u \in Workers \ {w} : worker'[u] = worker[u] /\ (u \in inflight' <=> u \in inflight)
      /\ worker'[w].pc \notin {"registered", "rollout"}
  <2>1. worker'[w].pc \notin {"registered", "rollout"}
    BY <1>1 DEF WorkerThread, FinishRollout, FailRollout, PushGroup, PushFull, Retry,
       ReleaseTarget, Finally, Go, Idle, WorkerState
  <2>2. inflight' \in {inflight, inflight \ {w}}
    BY DEF WorkerThread, FinishRollout, FailRollout, PushGroup, PushFull, Retry,
       ReleaseTarget, Finally
  <2> QED BY <2>1, <2>2, WorkerFrame
<1>4. \A t : MissedFrom(t)' \subseteq MissedFrom(t)
  BY <1>2, <1>3 DEF MissedFrom, Missed
<1>5. Coming' => Coming BY <1>1, <1>2, <1>3 DEF Coming, Missed
<1>6. MissedNow <= MissedNow' BY <1>2, <1>5 DEF MissedNow
<1> QED BY <1>1, <1>4, <1>6, FewerMissed

\* A poll forgets the worker that is registered and not started: there is one.
LEMMA PollMissed ==
  ASSUME TypeOK, ReservationInv, DrainInv, OnePerRefit, PollPending, UNCHANGED trainerVars
  PROVE  OnePerRefit'
<1>1. /\ Draining /\ ~Drained
      /\ UNCHANGED <<cpc, worker, weightVersion>>
      /\ inflight' = inflight \ NotStarted
  BY DEF PollPending, Draining, Drained, threadVars, trainerVars
<1>2. Draining' \/ Drained'
  BY DEF PollPending, DrainInv, Draining, Drained, trainerVars
<1>3. Drained' => inflight' = {}
  BY DEF PollPending, Drained
<1>4. \A u \in Missed' : u \in Missed \/ worker[u].pc = "registered"
  BY <1>1, <1>3 DEF Missed, NotStarted, Alive
<1>5. \A u \in Workers : worker[u].pc = "registered" => u \in Missed'
  BY <1>1 DEF Missed, NotStarted, Alive
<1>6. CASE \E u \in Workers \ Missed : worker[u].pc = "registered"
  <2>1. PICK u \in Workers \ Missed : worker[u].pc = "registered" BY <1>6
  <2>2. \A t : MissedFrom(t)' \subseteq MissedFrom(t) \cup {u}
    BY <1>1, <1>4, <2>1 DEF MissedFrom, Missed, ReservationInv
  <2>3. MissedNow = 0 BY <2>1 DEF MissedNow, Coming
  <2>4. cpc = "start" BY <2>1 DEF ReservationInv
  <2>5. ~Coming' BY <1>1, <1>5, <2>4 DEF Coming
  <2>6. MissedNow' = 1 BY <1>2, <2>5 DEF MissedNow
  <2> QED BY <1>1, <2>2, <2>3, <2>6, OneMissed
<1>7. CASE ~\E u \in Workers \ Missed : worker[u].pc = "registered"
  <2>1. \A t : MissedFrom(t)' \subseteq MissedFrom(t)
    BY <1>1, <1>4, <1>7 DEF MissedFrom, Missed
  <2>2. Coming' => Coming BY <1>1, <1>5 DEF Coming
  <2>3. MissedNow <= MissedNow' BY <1>1, <1>2, <2>2 DEF MissedNow
  <2> QED BY <1>1, <2>1, <2>3, FewerMissed
<1> QED BY <1>6, <1>7

LEMMA ActorMissed ==
  ASSUME TypeOK, SyncInv, ReservationInv, DrainInv, OnePerRefit, ~InFlight, ActorThread,
         UNCHANGED trainerVars
  PROVE  OnePerRefit'
<1>1. CASE PollPending BY <1>1, PollMissed
<1>2. CASE ~PollPending
  <2>1. UNCHANGED <<worker, inflight, weightVersion, tpc>>
    BY <1>2 DEF ActorThread, SetWeightVersion, OpenLimitGate, Pause, Resume,
       PrepareForRefit, ResumeAfterRefit, trainerVars
  <2>2. ~Draining /\ ~Drained
    BY <1>2 DEF ActorThread, SetWeightVersion, OpenLimitGate, Pause, Resume,
       PrepareForRefit, ResumeAfterRefit, TakeUp, Draining, Drained
  <2>3. ~Drained'
    <3>1. CASE OpenLimitGate
      BY <3>1 DEF OpenLimitGate, DrainInv, Drained, trainerVars
    <3>2. CASE PrepareForRefit BY <3>2 DEF PrepareForRefit, Drained
    <3>3. ASSUME NEW kind, TakeUp(kind), kind # "prepare_for_refit" PROVE ~Drained'
      <4>1. mailbox \in Seq(Message) BY DEF TypeOK, CollectorTypeOK
      <4>2. /\ mailbox # <<>> /\ mailbox[1].kind = kind
            /\ mailbox' = <<>> <=> Len(mailbox) = 1
        BY <3>3, <4>1, TakesFirst
      <4>3. tpc = "preparing" => mailbox' # <<>> BY <3>3, <4>2 DEF SyncInv
      <4>4. tpc # "refit" BY <4>2 DEF SyncInv
      <4> QED BY <2>1, <4>3, <4>4 DEF Drained
    <3> QED
      BY <1>2, <3>1, <3>2, <3>3 DEF ActorThread, SetWeightVersion, Pause, Resume,
         ResumeAfterRefit
  <2>4. Missed' = Missed BY <2>1, <2>2, <2>3 DEF Missed
  <2>5. \A t : MissedFrom(t)' \subseteq MissedFrom(t) BY <2>1, <2>4 DEF MissedFrom
  <2>6. MissedNow <= MissedNow' BY <2>2, MissedNowType DEF MissedNow
  <2> QED BY <2>1, <2>5, <2>6, FewerMissed
<1> QED BY <1>1, <1>2

\* After a refit the next may miss one: those missed so far have targets in
\* the window of the version before.
LEMMA RefitEndsMissed ==
  ASSUME TypeOK, AgeInv, OnePerRefit, EndRefit
  PROVE  OnePerRefit'
<1>1. /\ weightVersion \in Nat /\ MaxAge \in Nat /\ weightVersion' = weightVersion + 1
      /\ worker \in [Workers -> WorkerState]
      /\ UNCHANGED <<worker, inflight>>
  BY CollectorAssumption DEF EndRefit, OthersUnchanged, TypeOK, CollectorTypeOK
<1>2. ~Drained' BY DEF EndRefit, Turn, Drained
<1>3. \A t : MissedFrom(t)' \subseteq MissedFrom(t)
  BY <1>1, <1>2 DEF MissedFrom, Missed
<1>4. MissedFrom(weightVersion + MaxAge + 1) = {}
  <2> SUFFICES ASSUME NEW w \in Missed, worker[w].tgt >= weightVersion + MaxAge + 1
               PROVE  FALSE
    BY DEF MissedFrom
  <2>1. w \in Carrying BY DEF Missed, Carrying
  <2>2. LabelOK(worker[w]) BY <2>1 DEF AgeInv
  <2>3. worker[w].tgt \in Nat /\ worker[w].ver \in Nat
    BY <1>1 DEF Missed, WorkerState
  <2> QED BY <1>1, <2>2, <2>3 DEF LabelOK
<1>5. ASSUME NEW t \in 0 .. weightVersion + 1 + MaxAge
      PROVE  Cardinality(MissedFrom(t)') <= weightVersion + 1 + MaxAge - t + MissedNow'
  <2>1. /\ IsFiniteSet(MissedFrom(t)')
        /\ Cardinality(MissedFrom(t)') <= Cardinality(MissedFrom(t))
    BY <1>3, MissedFinite, FS_Subset
  <2>2. Cardinality(MissedFrom(t)') \in Nat BY <2>1, FS_CardinalityType
  <2>3. CASE t = weightVersion + MaxAge + 1
    <3>1. Cardinality(MissedFrom(t)) = 0 BY <1>4, <2>3, FS_EmptySet
    <3> QED BY <1>1, <2>1, <2>2, <2>3, <3>1, MissedNowType
  <2>4. CASE t # weightVersion + MaxAge + 1
    <3>1. t \in 0 .. weightVersion + MaxAge BY <1>1, <2>4
    <3>2. Cardinality(MissedFrom(t)) <= weightVersion + MaxAge - t + MissedNow
      BY <3>1 DEF OnePerRefit
    <3> QED BY <1>1, <2>1, <2>2, <3>2, MissedNowType, MissedFinite
  <2> QED BY <2>3, <2>4
<1> QED BY <1>1, <1>5 DEF OnePerRefit

LEMMA TrainerMissed ==
  ASSUME TypeOK, AgeInv, DrainInv, OnePerRefit, Trainer, tpc' \notin Ended
  PROVE  OnePerRefit'
<1>1. CASE EndRefit BY <1>1, RefitEndsMissed
<1>2. ASSUME UNCHANGED <<cpc, worker, inflight, apc, weightVersion>>, Drained' = Drained
      PROVE  OnePerRefit'
  <2>1. Missed' = Missed BY <1>2 DEF Missed
  <2>2. \A t : MissedFrom(t)' \subseteq MissedFrom(t) BY <1>2, <2>1 DEF MissedFrom
  <2>3. Coming' = Coming BY <1>2, <2>1 DEF Coming
  <2>4. MissedNow' = MissedNow BY <1>2, <2>3 DEF MissedNow, Draining
  <2>5. MissedNow <= MissedNow' BY <2>4, MissedNowType
  <2> QED BY <1>2, <2>2, <2>5, FewerMissed
<1>3. CASE ~EndRefit
  <2>1. UNCHANGED <<cpc, worker, inflight, apc, weightVersion>>
    BY <1>3 DEF Trainer, FirstRefit, FirstRefitFails, EndFirstValidation, BufferFilled,
       TakeSample, SampleAborts, Train, BeginRefit, EndValidation, FinishStep, LoopFails,
       OthersUnchanged, threadVars
  <2>2. CASE BeginRefit
    BY <1>2, <2>1, <2>2 DEF BeginRefit, Turn, CallsDone, NoCall, Drained
  <2>3. CASE Train
    <3>1. mailbox' # <<>>
      <4>1. mailbox \in Seq(Message) BY DEF TypeOK, CollectorTypeOK
      <4>2. mailbox' = mailbox \o <<Call("prepare_for_refit", 0)>> BY <2>3 DEF Train, Send
      <4> QED BY <4>1, <4>2
    <3> QED BY <1>2, <2>1, <2>3, <3>1 DEF Train, Turn, Drained
  <2>4. CASE ~BeginRefit /\ ~Train
    <3>1. tpc \notin {"preparing", "refit"} /\ tpc' \notin {"preparing", "refit"}
      BY <1>3, <2>4 DEF Trainer, FirstRefit, FirstRefitFails, EndFirstValidation,
         BufferFilled, TakeSample, SampleAborts, EndValidation, FinishStep, LoopFails, Turn,
         Ended
    <3> QED BY <1>2, <2>1, <3>1 DEF Drained
  <2> QED BY <2>2, <2>3, <2>4
<1> QED BY <1>1, <1>3

\* The inductive invariant: each refit has missed at most one worker, and the
\* version that a worker was missed at is within the window before its target.
THEOREM MissedInvariant == ~InFlight => (Spec => [](DrainInv /\ MissedInv))
<1> SUFFICES ASSUME ~InFlight PROVE Spec => [](DrainInv /\ MissedInv)
  OBVIOUS
<1> DEFINE Known == TypeOK /\ SyncInv /\ AgeInv /\ ReservationInv
<1>1. Spec => []ReservationInv
  BY InitReservation, NextReservation, TypeCorrect, PTL DEF Spec
<1>2. ASSUME Known, DrainInv, MissedInv, [Next]_vars PROVE DrainInv' /\ MissedInv'
  <2>1. DrainInv' BY <1>2, NextDrain
  <2>2. CASE UNCHANGED vars
    <3>1. UNCHANGED <<cpc, worker, inflight, apc, mailbox, tpc, weightVersion>>
      BY <2>2 DEF vars, collectorVars, threadVars, actorVars, trainerVars
    <3>2. UNCHANGED <<Drained, Missed>> BY <3>1 DEF Drained, Missed
    <3>3. MissedNow' = MissedNow BY <3>1, <3>2 DEF MissedNow, Draining, Coming
    <3>4. \A t : MissedFrom(t)' = MissedFrom(t) BY <3>1, <3>2 DEF MissedFrom
    <3> QED BY <1>2, <2>1, <3>1, <3>3, <3>4 DEF MissedInv, OnePerRefit
  <2>3. CASE Next
    <3>1. OnePerRefit BY <1>2, <2>3 DEF Next, Live, MissedInv
    <3> SUFFICES ASSUME tpc' \notin Ended PROVE OnePerRefit'
      BY <2>1 DEF MissedInv
    <3> QED
      BY <1>2, <2>3, <3>1, ThreadMissed, WorkerMissed, ActorMissed, TrainerMissed
      DEF Next, CollectorStep
  <2> QED BY <1>2, <2>1, <2>2, <2>3
<1> QED
  BY <1>1, <1>2, InitMissed, TypeCorrect, SyncInvariant, AgeInvariant, PTL DEF Spec

\* A refit that waits for the pending generations meets no more of them than the
\* window has versions, unless a target was reserved twice: each refit misses
\* one at most, and who was missed ends before its target is sampled.
THEOREM RacingIsBounded == Spec => []RacingGenerationsBounded
<1>1. CASE InFlight
  <2>1. RacingGenerationsBounded BY <1>1 DEF RacingGenerationsBounded
  <2> QED BY <2>1, PTL
<1>2. CASE ~InFlight
  <2>1. ASSUME TypeOK, CountInv, DrainInv, MissedInv, SyncInv, tpc = "refit", dup = {}
        PROVE  Cardinality({w \in Workers : worker[w].pc = "rollout"}) <= MaxAge
    <3> DEFINE racing == {w \in Workers : worker[w].pc = "rollout"}
    <3>1. weightVersion \in Nat /\ MaxAge \in Nat \ {0}
      BY <2>1, CollectorAssumption DEF TypeOK
    <3>2. Drained BY <2>1 DEF DrainInv, SyncInv, Drained
    <3>3. ASSUME NEW w \in racing PROVE w \in MissedFrom(weightVersion + 1)
      <4>1. w \in Carrying /\ w \in Missed BY <3>2 DEF Carrying, Missed
      <4>2. worker[w].tgt \in Nat BY <2>1 DEF TypeOK, CollectorTypeOK, WorkerState
      <4>3. worker[w].tgt \in made \ dup
        BY <2>1, <4>1 DEF CountInv, Reserved, Carried
      <4>4. ~Sampled(worker[w].tgt)
        BY <2>1, <4>1, <4>3 DEF CountInv, UsedUp, CarriedFor
      <4>5. worker[w].tgt >= weightVersion + 1
        BY <2>1, <3>1, <4>2, <4>4 DEF Sampled
      <4> QED BY <4>1, <4>5 DEF MissedFrom
    <3>4. racing \subseteq MissedFrom(weightVersion + 1) BY <3>3
    <3>5. Cardinality(racing) <= Cardinality(MissedFrom(weightVersion + 1))
          /\ IsFiniteSet(racing)
      BY <3>4, MissedFinite, FS_Subset
    <3>6. Cardinality(racing) \in Nat BY <3>5, FS_CardinalityType
    <3>7. weightVersion + 1 \in 0 .. weightVersion + MaxAge BY <3>1
    <3>8. OnePerRefit BY <2>1 DEF MissedInv, Ended
    <3>9. Cardinality(MissedFrom(weightVersion + 1))
            <= weightVersion + MaxAge - (weightVersion + 1) + MissedNow
      BY <3>7, <3>8 DEF OnePerRefit
    <3> HIDE DEF racing
    <3>10. Cardinality(racing) <= MaxAge
      BY <3>1, <3>5, <3>6, <3>9, MissedFinite, MissedNowType
    <3> QED BY <3>10 DEF racing
  <2>2. TypeOK /\ CountInv /\ DrainInv /\ MissedInv /\ SyncInv => RacingGenerationsBounded
    BY <2>1 DEF RacingGenerationsBounded
  <2>3. Spec => [](DrainInv /\ MissedInv) BY <1>2, MissedInvariant
  <2> QED BY <2>2, <2>3, TypeCorrect, CountInvariant, SyncInvariant, PTL
<1> QED BY <1>1, <1>2
=============================================================================
