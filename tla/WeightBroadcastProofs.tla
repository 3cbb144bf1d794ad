----------------------- MODULE WeightBroadcastProofs -----------------------
(***************************************************************************)
(* Theorems about WeightBroadcast, for any number of parameters, members,  *)
(* buffers, refits and failures.                                           *)
(***************************************************************************)
EXTENDS WeightBroadcast, TLAPS

-----------------------------------------------------------------------------
(* Types *)

LEMMA TypeInit == Init => TypeOK
  BY BroadcastAssumption DEF Init, TypeOK, Members

\* What queueing a group does to the member that queues it, and to nothing else.
LEMMA QueueType ==
  ASSUME TypeOK, NEW m \in Members, NEW last \in Params, Queue(m, last)
  PROVE  /\ groups' \in [Members -> Seq(Group)] /\ at' \in [Members -> 0..NParams]
         /\ UNCHANGED <<size, target, refit, driver, base, delivered, swallowed>>
<1> DEFINE new == [refit |-> refit, first |-> at[m] + 1, last |-> last]
<1>1. new \in Group
  BY BroadcastAssumption DEF Queue, TypeOK, Group, Params
<1>2. groups[m] \in Seq(Group) /\ Append(groups[m], new) \in Seq(Group)
  BY <1>1 DEF TypeOK
<1>3. groups' = [groups EXCEPT ![m] = Append(groups[m], new)] /\ at' = [at EXCEPT ![m] = last]
  BY DEF Queue
<1> HIDE DEF new
<1> QED BY <1>2, <1>3, BroadcastAssumption DEF TypeOK, Queue, Params, fixed

LEMMA TypeStep == TypeOK /\ [Next]_vars => TypeOK'
<1> SUFFICES ASSUME TypeOK, [Next]_vars PROVE TypeOK'
  OBVIOUS
<1> USE BroadcastAssumption
<1>1. ASSUME NEW m \in Members, Pack(m) PROVE TypeOK'
  <2>1. PICK last \in Params : Queue(m, last)
    BY <1>1 DEF Pack
  <2>2. /\ pc' \in [Members -> {"pack", "returned", "failed"}]
        /\ loading' \in [Ranks -> SUBSET Nat] /\ faults' = faults
    BY <1>1 DEF Pack, QueueLoads, TypeOK
  <2> QED BY <2>1, <2>2, QueueType DEF TypeOK
<1>2. ASSUME NEW r \in Ranks, PackFails(r) PROVE TypeOK'
  <2>1. PICK last \in Params : Queue(r, last)
    BY <1>2 DEF PackFails
  <2>2. r \in Members
    BY DEF Members
  <2>3. /\ pc' \in [Members -> {"pack", "returned", "failed"}]
        /\ loading' = loading /\ faults' \in 0..MaxFaults
    BY <1>2, <2>2 DEF PackFails, TypeOK
  <2> QED BY <2>1, <2>2, <2>3, QueueType DEF TypeOK
<1>3. ASSUME NEW m \in Members, Stop(m) PROVE TypeOK'
  BY <1>3 DEF Stop, TypeOK, fixed
<1>4. CASE Deliver
  BY <1>4 DEF Deliver, TypeOK, fixed
<1>5. ASSUME NEW r \in Ranks, Load(r) PROVE TypeOK'
  BY <1>5 DEF Load, TypeOK, fixed
<1>6. CASE StartRefit
  BY <1>6 DEF StartRefit, TypeOK, fixed
<1>7. CASE Wait
  BY <1>7 DEF Wait, TypeOK, fixed
<1>8. CASE UNCHANGED vars
  BY <1>8 DEF vars, fixed, TypeOK
<1> QED BY <1>1, <1>2, <1>3, <1>4, <1>5, <1>6, <1>7, <1>8 DEF Next

\* Every variable keeps its type, in runs without end and any failures.
THEOREM TypeCorrect == Spec => []TypeOK
  BY TypeInit, TypeStep, PTL DEF Spec

-----------------------------------------------------------------------------
(* What may be left to load *)

\* All but the last groups of the refit, one for each buffer, were waited for.
Waited ==
  \A r \in Ranks : \A k \in 1..Len(groups[r]) :
    k > base[r] /\ k <= Len(groups[r]) - NumBuffers =>
      k <= delivered /\ k \notin loading[r]

LEMMA WaitedStep == TypeOK /\ Waited /\ [Next]_vars => Waited'
<1> SUFFICES ASSUME TypeOK, Waited, [Next]_vars PROVE Waited'
  OBVIOUS
<1> USE BroadcastAssumption DEF fixed
<1>0. /\ \A r \in Ranks : r \in Members /\ groups[r] \in Seq(Group) /\ Len(groups[r]) \in Nat
      /\ \A m \in Members : base[m] \in Nat
      /\ delivered \in Nat /\ loading \in [Ranks -> SUBSET Nat]
  BY DEF TypeOK, Members
<1>1. ASSUME NEW m \in Members, NEW last \in Params, Queue(m, last),
             \/ UNCHANGED loading
             \/ m \in Ranks /\ loading' = [loading EXCEPT ![m] = @ \cup {Len(groups[m]) + 1}]
      PROVE  Waited'
  <2> SUFFICES ASSUME NEW r \in Ranks, NEW k \in 1..Len(groups'[r]),
                      k > base'[r], k <= Len(groups'[r]) - NumBuffers
               PROVE  k <= delivered' /\ k \notin loading'[r]
    BY DEF Waited
  <2>1. UNCHANGED <<base, delivered>> /\ Synchronized(m)
    BY <1>1 DEF Queue
  <2>2. CASE r # m
    <3>1. groups'[r] = groups[r] /\ loading'[r] = loading[r]
      BY <1>0, <1>1, <2>2 DEF Queue, TypeOK
    <3> QED BY <1>0, <2>1, <3>1 DEF Waited
  <2>3. CASE r = m
    <3>1. Len(groups'[r]) = Len(groups[r]) + 1
      BY <1>0, <1>1, <2>3 DEF Queue, TypeOK
    <3>2. loading'[r] \subseteq loading[r] \cup {Len(groups[r]) + 1}
      BY <1>0, <1>1, <2>3
    <3>3. k # Len(groups[r]) + 1
      BY <1>0, <3>1
    <3>4. CASE k = Len(groups[r]) + 1 - NumBuffers
      BY <1>0, <2>1, <2>3, <3>2, <3>3, <3>4 DEF Synchronized
    <3>5. CASE k <= Len(groups[r]) - NumBuffers
      BY <1>0, <2>1, <3>1, <3>2, <3>3, <3>5 DEF Waited
    <3>6. k \in Nat /\ k <= Len(groups[r]) + 1 - NumBuffers
      BY <1>0, <3>1
    <3>7. Len(groups[r]) \in Nat /\ NumBuffers \in Nat
      BY <1>0
    <3>8. k = Len(groups[r]) + 1 - NumBuffers \/ k <= Len(groups[r]) - NumBuffers
      BY <3>6, <3>7
    <3> QED BY <3>4, <3>5, <3>8
  <2> QED BY <2>2, <2>3
<1>2. ASSUME NEW m \in Members, Pack(m) PROVE Waited'
  BY <1>1, <1>2 DEF Pack, QueueLoads
<1>3. ASSUME NEW r \in Ranks, PackFails(r) PROVE Waited'
  BY <1>0, <1>1, <1>3 DEF PackFails
<1>4. ASSUME NEW m \in Members, Stop(m) PROVE Waited'
  BY <1>4 DEF Stop, Waited
<1>5. CASE Deliver
  BY <1>0, <1>5 DEF Deliver, Waited
<1>6. ASSUME NEW r \in Ranks, Load(r) PROVE Waited'
  BY <1>0, <1>6 DEF Load, Waited
<1>7. CASE StartRefit
  BY <1>0, <1>7 DEF StartRefit, Waited
<1>8. CASE Wait
  BY <1>8 DEF Wait, Waited
<1>9. CASE UNCHANGED vars
  BY <1>9 DEF vars, Waited
<1> QED BY <1>2, <1>3, <1>4, <1>5, <1>6, <1>7, <1>8, <1>9 DEF Next

\* After a refit, what a rank may still have to load is one group per buffer.
THEOREM TailIsBounded == Spec => []TailBounded
<1>1. Init => Waited
  BY DEF Init, Waited, Members
<1>2. Waited => TailBounded
  BY DEF Waited, TailBounded
<1> QED BY <1>1, <1>2, WaitedStep, TypeCorrect, PTL DEF Spec

-----------------------------------------------------------------------------
(* Groups agree *)

\* A cut is determined by what was packed before it.
LEMMA CutIsUnique ==
  ASSUME NEW m, NEW n, target[m] = target[n], NEW done \in Nat,
         NEW a \in Params, NEW b \in Params, IsCut(m, done, a), IsCut(n, done, b)
  PROVE  a = b
  BY BroadcastAssumption DEF IsCut, Exceeds, Params

\* A member's groups of this refit follow each other, and each is a cut.
Chained ==
  \A m \in Members :
    /\ base[m] <= Len(groups[m])
    /\ at[m] = IF Len(groups[m]) = base[m] THEN 0 ELSE groups[m][Len(groups[m])].last
    /\ \A k \in base[m] + 1 .. Len(groups[m]) :
         /\ groups[m][k].refit = refit
         /\ groups[m][k].first = IF k = base[m] + 1 THEN 1 ELSE groups[m][k - 1].last + 1
         /\ IsCut(m, groups[m][k].first - 1, groups[m][k].last)
    /\ pc[m] = "returned" /\ refit > 0 => at[m] = NParams

\* Nobody failed in a refit that succeeded, and all members made as many groups
\* before this refit.
Level ==
  /\ \A m \in Members : pc[m] = "failed" => m \in Ranks
  /\ driver = "idle" => /\ refit = 0
                         /\ \A m \in Members : groups[m] = <<>> /\ pc[m] = "returned"
  /\ driver # "idle" => refit > 0
  /\ driver = "ok" /\ swallowed = {} => \A m \in Members : pc[m] = "returned"
  /\ Uniform /\ swallowed = {} => \A m, n \in Members : base[m] = base[n]

Agree == Chained /\ Level /\ GroupsAgree

LEMMA AgreeInit == Init => Agree
  BY BroadcastAssumption DEF Init, Agree, Chained, Level, GroupsAgree, Members

LEMMA CutStays ==
  ASSUME UNCHANGED fixed, NEW m, NEW done, NEW last
  PROVE  IsCut(m, done, last)' <=> IsCut(m, done, last)
  BY DEF fixed, IsCut, Exceeds, Bytes, Total

LEMMA GroupTypes ==
  ASSUME TypeOK, NEW m \in Members, NEW k \in 1..Len(groups[m])
  PROVE  groups[m][k] \in Group
  BY DEF TypeOK

\* Members that have come to the end made equally many groups.
LEMMA SameLength ==
  ASSUME TypeOK, Agree, Uniform, swallowed = {}, refit > 0,
         NEW m \in Members, NEW n \in Members, pc[m] = "returned"
  PROVE  Len(groups[n]) <= Len(groups[m])
<1> SUFFICES ASSUME Len(groups[m]) < Len(groups[n]) PROVE FALSE
  BY DEF TypeOK
<1> DEFINE a == Len(groups[m])
<1>1. /\ a \in Nat /\ Len(groups[n]) \in Nat /\ base[m] \in Nat /\ base[n] = base[m]
      /\ NParams \in Nat \ {0}
  BY BroadcastAssumption DEF TypeOK, Agree, Level
<1>2. a > base[m] /\ groups[m][a].last = NParams
  BY <1>1 DEF Agree, Chained
<1>3. a \in 1..Len(groups[m]) /\ a \in 1..Len(groups[n]) /\ a + 1 \in 1..Len(groups[n])
  BY <1>1, <1>2
<1>4. groups[n][a] = groups[m][a]
  BY <1>3 DEF Agree, GroupsAgree
<1>5. groups[n][a + 1].first = groups[n][a].last + 1
  <2>1. a + 1 \in base[n] + 1 .. Len(groups[n]) /\ a + 1 # base[n] + 1 /\ (a + 1) - 1 = a
    BY <1>1, <1>2
  <2> QED BY <2>1 DEF Agree, Chained
<1>6. groups[n][a + 1].first \in Params
  BY <1>3, GroupTypes DEF Group
<1> QED BY <1>1, <1>2, <1>4, <1>5, <1>6 DEF Params

LEMMA AgreeQueue ==
  ASSUME TypeOK, Agree, NEW m \in Members, NEW last \in Params,
         IsCut(m, at[m], last), Queue(m, last),
         \/ pc' = [pc EXCEPT ![m] = IF Exceeds(m, at[m], last) THEN "pack" ELSE "returned"]
         \/ m \in Ranks /\ pc' = [pc EXCEPT ![m] = "failed"]
  PROVE  Agree'
<1> DEFINE new == [refit |-> refit, first |-> at[m] + 1, last |-> last]
<1> DEFINE k0 == Len(groups[m]) + 1
<1>1. /\ \A n \in Members : groups[n] \in Seq(Group) /\ Len(groups[n]) \in Nat /\ base[n] \in Nat
      /\ at[m] \in Nat /\ at[m] < NParams /\ NParams \in Nat /\ refit \in Nat
      /\ pc[m] = "pack" /\ Len(groups[m]) \in Nat /\ base[m] \in Nat
  BY BroadcastAssumption DEF TypeOK, Queue
<1>2. /\ groups' = [groups EXCEPT ![m] = Append(groups[m], new)]
      /\ at' = [at EXCEPT ![m] = last]
      /\ UNCHANGED <<size, target, fixed, refit, driver, base, delivered, swallowed>>
  BY DEF Queue, fixed
<1>3. new \in Group
  BY <1>1, BroadcastAssumption DEF Group, Params, TypeOK
<1>4. /\ \A n \in Members : n # m => groups'[n] = groups[n]
      /\ Len(groups'[m]) = k0 /\ groups'[m][k0] = new
      /\ \A k \in 1..Len(groups[m]) : groups'[m][k] = groups[m][k]
  <2> HIDE DEF new
  <2> QED BY <1>1, <1>2, <1>3 DEF TypeOK
<1> HIDE DEF new
<1>5. new.refit = refit /\ new.first = at[m] + 1 /\ new.last = last
  BY DEF new
<1>6. Chained'
  <2> SUFFICES ASSUME NEW n \in Members
               PROVE  /\ base'[n] <= Len(groups'[n])
                      /\ at'[n] = IF Len(groups'[n]) = base'[n] THEN 0
                                  ELSE groups'[n][Len(groups'[n])].last
                      /\ \A k \in base'[n] + 1 .. Len(groups'[n]) :
                           /\ groups'[n][k].refit = refit'
                           /\ groups'[n][k].first = IF k = base'[n] + 1 THEN 1
                                                    ELSE groups'[n][k - 1].last + 1
                           /\ IsCut(n, groups'[n][k].first - 1, groups'[n][k].last)
                      /\ pc'[n] = "returned" /\ refit' > 0 => at'[n] = NParams
    BY <1>2, CutStays DEF Chained
  <2>1. CASE n # m
    BY <1>2, <1>4, <2>1 DEF Agree, Chained, TypeOK
  <2>2. CASE n = m
    <3>1. base[m] <= Len(groups[m])
      BY DEF Agree, Chained
    <3>2. at'[m] = last /\ base'[m] = base[m] /\ refit' = refit
      BY <1>2 DEF TypeOK
    <3>3. base[m] < k0
      BY <1>1, <3>1
    <3>4. pc'[m] = "returned" => last = NParams
      BY DEF IsCut, TypeOK
    <3>5. ASSUME NEW k \in base[m] + 1 .. k0
          PROVE  /\ groups'[m][k].refit = refit
                 /\ groups'[m][k].first = IF k = base[m] + 1 THEN 1
                                          ELSE groups'[m][k - 1].last + 1
                 /\ IsCut(m, groups'[m][k].first - 1, groups'[m][k].last)
      <4>1. CASE k = k0
        <5>1. new.first - 1 = at[m]
          BY <1>1, <1>5
        <5>2. CASE k = base[m] + 1
          <6>1. at[m] = 0
            BY <1>1, <4>1, <5>2 DEF Agree, Chained
          <6> QED BY <1>4, <1>5, <4>1, <5>1, <5>2, <6>1
        <5>3. CASE k # base[m] + 1
          <6>1. at[m] = groups[m][Len(groups[m])].last
            BY <1>1, <4>1, <5>3 DEF Agree, Chained
          <6>2. k - 1 = Len(groups[m]) /\ k - 1 \in 1..Len(groups[m])
            BY <1>1, <3>1, <4>1, <5>3
          <6> QED BY <1>4, <1>5, <4>1, <5>1, <5>3, <6>1, <6>2
        <5> QED BY <5>2, <5>3
      <4>2. CASE k # k0
        <5>1. k \in base[m] + 1 .. Len(groups[m]) /\ k \in 1..Len(groups[m])
          <6>1. k \in base[m] + 1 .. k0 /\ k # k0 /\ k0 = Len(groups[m]) + 1
            BY <4>2
          <6>2. Len(groups[m]) \in Nat /\ base[m] \in Nat
            BY <1>1
          <6> QED BY <6>1, <6>2
        <5>2. k # base[m] + 1 => k - 1 \in 1..Len(groups[m])
          BY <1>1, <5>1
        <5>3. /\ groups[m][k].refit = refit
              /\ groups[m][k].first = IF k = base[m] + 1 THEN 1 ELSE groups[m][k - 1].last + 1
              /\ IsCut(m, groups[m][k].first - 1, groups[m][k].last)
          BY <5>1 DEF Agree, Chained
        <5>4. groups'[m][k] = groups[m][k]
          BY <1>4, <5>1
        <5>5. k # base[m] + 1 => groups'[m][k - 1] = groups[m][k - 1]
          BY <1>4, <5>2
        <5> QED BY <5>3, <5>4, <5>5
      <4> QED BY <4>1, <4>2
    <3> QED BY <1>1, <1>4, <1>5, <2>2, <3>2, <3>3, <3>4, <3>5
  <2> QED BY <2>1, <2>2
<1>7. Level'
  <2>1. driver # "idle"
    <3>1. driver = "idle" => pc[m] # "pack"
      BY DEF Agree, Level
    <3> QED BY <1>1, <3>1
  <2>2. ~(driver = "ok" /\ swallowed = {})
    BY <1>1 DEF Agree, Level
  <2>3. \A n \in Members : pc'[n] = "failed" => n \in Ranks
    BY DEF Agree, Level, TypeOK
  <2> QED BY <1>2, <2>1, <2>2, <2>3 DEF Agree, Level, Uniform
<1>8. GroupsAgree'
  <2> SUFFICES ASSUME Uniform, swallowed = {}, NEW n \in Members, NEW l \in Members,
                      NEW k \in 1..Len(groups'[n]) \cap 1..Len(groups'[l])
               PROVE  groups'[n][k] = groups'[l][k]
    BY <1>2 DEF GroupsAgree, Uniform
  <2>1. ASSUME NEW o \in Members, o # m, k0 \in 1..Len(groups[o])
        PROVE  groups[o][k0] = new
    <3>1. base[o] = base[m] /\ base[m] <= Len(groups[m])
      BY DEF Agree, Level, Chained
    <3>2. k0 \in base[o] + 1 .. Len(groups[o])
      BY <1>1, <2>1, <3>1
    <3>3. groups[o][k0].refit = refit
      BY <3>2 DEF Agree, Chained
    <3>4. groups[o][k0].first = at[m] + 1
      <4>1. CASE k0 = base[o] + 1
        BY <1>1, <3>1, <3>2, <4>1 DEF Agree, Chained
      <4>2. CASE k0 # base[o] + 1
        <5>1. k0 - 1 = Len(groups[m]) /\ Len(groups[m]) \in 1..Len(groups[o])
              /\ Len(groups[m]) \in 1..Len(groups[m]) /\ Len(groups[m]) # base[m]
          BY <1>1, <3>1, <3>2, <4>2
        <5>2. groups[o][k0].first = groups[o][Len(groups[m])].last + 1
          BY <3>2, <4>2, <5>1 DEF Agree, Chained
        <5>3. groups[o][Len(groups[m])] = groups[m][Len(groups[m])]
          BY <5>1 DEF Agree, GroupsAgree
        <5>4. at[m] = groups[m][Len(groups[m])].last
          BY <5>1 DEF Agree, Chained
        <5> QED BY <5>2, <5>3, <5>4
      <4> QED BY <4>1, <4>2
    <3>5. groups[o][k0] \in Group
      BY <2>1, GroupTypes
    <3>6. groups[o][k0].last = last
      <4>1. IsCut(o, at[m], groups[o][k0].last)
        <5>1. IsCut(o, groups[o][k0].first - 1, groups[o][k0].last)
          BY <3>2 DEF Agree, Chained
        <5> QED BY <1>1, <3>4, <5>1
      <4>2. target[o] = target[m]
        BY DEF Uniform
      <4>3. groups[o][k0].last \in Params
        BY <3>5 DEF Group
      <4> QED BY <1>1, <4>1, <4>2, <4>3, CutIsUnique
    <3> QED BY <3>3, <3>4, <3>5, <3>6 DEF Group, new
  <2>2. CASE n # m /\ l # m
    BY <1>4, <2>2 DEF Agree, GroupsAgree
  <2>3. ASSUME NEW o \in Members, o # m,
               NEW j \in 1..Len(groups'[m]) \cap 1..Len(groups'[o])
        PROVE  groups'[m][j] = groups'[o][j]
    <3>1. groups'[o] = groups[o] /\ j \in 1..Len(groups[o])
      BY <1>4, <2>3
    <3>2. CASE j = k0
      BY <1>4, <2>1, <2>3, <3>1, <3>2
    <3>3. CASE j # k0
      <4>1. j \in 1..k0 /\ k0 = Len(groups[m]) + 1 /\ Len(groups[m]) \in Nat
        BY <1>1, <1>4, <2>3
      <4>2. j \in 1..Len(groups[m])
        BY <3>3, <4>1
      <4>3. groups[m][j] = groups[o][j]
        BY <3>1, <4>2 DEF Agree, GroupsAgree
      <4> QED BY <1>4, <3>1, <4>2, <4>3
    <3> QED BY <3>2, <3>3
  <2> QED BY <2>2, <2>3
<1> QED BY <1>6, <1>7, <1>8 DEF Agree

LEMMA AgreeStep == TypeOK /\ Agree /\ [Next]_vars => Agree'
<1> SUFFICES ASSUME TypeOK, Agree, [Next]_vars PROVE Agree'
  OBVIOUS
<1>1. ASSUME NEW m \in Members, Pack(m) PROVE Agree'
  BY <1>1, AgreeQueue DEF Pack
<1>2. ASSUME NEW r \in Ranks, PackFails(r) PROVE Agree'
  BY <1>2, AgreeQueue DEF PackFails, Members
<1>3. ASSUME UNCHANGED <<fixed, refit, driver, at, groups, base, swallowed>>,
             \/ UNCHANGED pc
             \/ \E m \in Members : /\ pc[m] = "pack" /\ at[m] = NParams
                                   /\ pc' = [pc EXCEPT ![m] = "returned"]
      PROVE  Agree'
  <2>1. Chained'
    BY <1>3, CutStays DEF Agree, Chained, TypeOK
  <2>2. Level' /\ GroupsAgree'
    BY <1>3 DEF Agree, Level, GroupsAgree, Uniform, TypeOK, fixed
  <2> QED BY <2>1, <2>2 DEF Agree
<1>4. CASE (\E m \in Members : Stop(m)) \/ Deliver \/ (\E r \in Ranks : Load(r)) \/ UNCHANGED vars
  BY <1>3, <1>4 DEF Stop, Deliver, Load, vars
<1>5. CASE Wait
  <2>1. Chained'
    BY <1>5, CutStays DEF Wait, Agree, Chained
  <2>2. Level'
    <3>1. driver' = "ok" /\ swallowed' = {} => \A m \in Members : pc'[m] = "returned"
      BY <1>5 DEF Wait, Agree, Level, EverybodyReturned, TypeOK
    <3> QED BY <1>5, <3>1 DEF Wait, Agree, Level, Uniform, fixed
  <2>3. GroupsAgree'
    BY <1>5 DEF Wait, Agree, GroupsAgree, Uniform, fixed
  <2> QED BY <2>1, <2>2, <2>3 DEF Agree
<1>6. CASE StartRefit
  <2>0. \A m \in Members : Len(groups[m]) \in Nat
    BY DEF TypeOK
  <2>1. /\ base' = [m \in Members |-> Len(groups[m])] /\ pc' = [m \in Members |-> "pack"]
        /\ at' = [m \in Members |-> 0] /\ driver' = "waiting" /\ refit' = refit + 1
        /\ UNCHANGED <<size, target, groups, swallowed>>
    BY <1>6 DEF StartRefit, fixed
  <2>2. Chained'
    BY <2>0, <2>1 DEF Chained
  <2>3. ASSUME Uniform, swallowed = {}, NEW m \in Members, NEW n \in Members
        PROVE  Len(groups[m]) = Len(groups[n])
    <3>1. CASE driver = "idle"
      BY <3>1 DEF Agree, Level
    <3>2. CASE driver = "ok"
      <4>1. pc[m] = "returned" /\ pc[n] = "returned" /\ refit > 0
        BY <2>3, <3>2 DEF Agree, Level
      <4> QED BY <2>0, <2>3, <4>1, SameLength
    <3> QED BY <1>6, <3>1, <3>2 DEF StartRefit
  <2>4. Level'
    BY <2>1, <2>3, BroadcastAssumption DEF Level, Uniform, TypeOK
  <2>5. GroupsAgree'
    BY <2>1 DEF Agree, GroupsAgree, Uniform
  <2> QED BY <2>2, <2>4, <2>5 DEF Agree
<1> QED BY <1>1, <1>2, <1>4, <1>5, <1>6 DEF Next

\* The kth broadcast carries the same parameters of the same refit for everybody.
THEOREM MembersAgree == Spec => []GroupsAgree
<1>1. Agree => GroupsAgree
  BY DEF Agree
<1> QED BY <1>1, AgreeInit, AgreeStep, TypeCorrect, PTL DEF Spec
=============================================================================
