--------------------------- MODULE BfCodeGenProofs ---------------------------
(* Theorems about BfCodeGen, for any modules, builds and threads.           *)
EXTENDS BfCodeGen, FiniteSetTheorems, SequenceTheorems, TLAPS

(***************************************************************************)
(* The inductive invariant.                                                *)
(***************************************************************************)

(* The places of a thread that are inside the loop of RunLoop, and those    *)
(* between taking a request and letting go of it.                           *)
Holding == {"work", "store", "copy"}
Looping == {"test", "take"} \cup Holding

(* No two entries of a list are the same.                                   *)
Distinct(s) == \A i, k \in DOMAIN s : s[i] = s[k] => i = k

(* A thread object is in mThreads, or in mOldThreads, or deleted; between   *)
(* builds mThreads and mRequests are empty.                                 *)
Created == {t \in Threads : pc[t] # "none"}
Listed == ToSet(mThreads) \cup ToSet(mOldThreads)

ThreadInv ==
  /\ Distinct(mThreads) /\ Distinct(mOldThreads)
  /\ ToSet(mThreads) \cap ToSet(mOldThreads) = {}
  /\ Listed \cap freed.threads = {}
  /\ Created = Listed \cup freed.threads
  /\ \A t \in Threads : mRunning[t] <=> pc[t] \in Looping
  /\ \A t \in freed.threads : ~mRunning[t]
  /\ mpc \in {"idle", "clear", "errors", "destroy", "gone"} =>
       mThreads = <<>> /\ mRequests = <<>>
  /\ mpc = "gone" => mOldThreads = <<>>
  /\ mpc = "scan" => mRequests # <<>>
  /\ mpc \in {"compile", "loop", "finish", "scan", "update"} => build > 0

(* No more threads than requests have been made.                            *)
CountInv ==
  /\ IsFiniteSet(freed.requests)
  /\ Cardinality(Created) <= Cardinality(freed.requests) + Len(mRequests)

(* A request is in mRequests, then deleted; those of earlier builds have    *)
(* been deleted.                                                            *)
ListInv ==
  /\ Distinct(mRequests) /\ Distinct(mPendingRequests)
  /\ ToSet(mRequests) \cap freed.requests = {}
  /\ ToSet(mPendingRequests) \subseteq ToSet(mRequests)
  /\ \A r \in ToSet(mRequests) : r[2] = build /\ r[1] \in written
  /\ \A r \in freed.requests :
       r[2] <= build /\ (r[2] = build => r[1] \in written)

(* A request is pending, or one thread holds it, or nobody does.  One that  *)
(* is held although it has a result or has been deleted is being copied     *)
(* from, or was aborted under a thread of an earlier build.                 *)
HoldInv ==
  /\ \A r \in Reqs :
       r \notin ToSet(mRequests) \/ r \in ToSet(mPendingRequests) =>
         mResult[r] = "NotDone"
  /\ \A t \in Threads :
       /\ req[t] # NoReq <=> pc[t] \in Holding
       /\ req[t] # NoReq =>
            req[t] \in (ToSet(mRequests) \cup freed.requests)
                         \ ToSet(mPendingRequests)
  /\ \A t, u \in Threads : req[t] = req[u] /\ req[t] # NoReq => t = u
  /\ \A t \in Threads :
       req[t] # NoReq
         /\ (req[t] \in freed.requests \/ mResult[req[t]] # "NotDone") =>
         \/ pc[t] = "copy"
         \/ req[t] \in aborted /\ t \notin ToSet(mThreads)

(* During a build a module that was written has a request, or one of the    *)
(* two outcomes; then mHadBuildError stands for the second.                 *)
OutcomeInv ==
  IF mpc \in {"idle", "destroy", "gone"}
    THEN \A m \in written : m \in mCodeGenFiles <=> m \notin mHadBuildError
    ELSE /\ mCodeGenFiles \cap mFailedRequests = {}
         /\ mCodeGenFiles \cup mFailedRequests \subseteq written
         /\ \A m \in written :
              /\ m \notin mHadBuildError
              /\ m \in mCodeGenFiles \cup mFailedRequests <=>
                   <<m, build>> \notin ToSet(mRequests)

(* The object file is there from the moment the back end has run until the  *)
(* module is in mCodeGenFiles, wherever the result is on its way.           *)
HasObject(m) == disk[m] = build \/ <<m, disk[m]>> \in aborted

ObjectInv ==
  /\ \A m \in mCodeGenFiles : HasObject(m)
  /\ \A r \in ToSet(mRequests) : mResult[r] = "Done" => HasObject(r[1])
  /\ \A t \in Threads :
       pc[t] \in {"store", "copy"} /\ result[t] = "Done" /\ req[t][2] = build =>
         HasObject(req[t][1])

IInv ==
  /\ TypeOK /\ ThreadInv /\ CountInv /\ ListInv /\ HoldInv /\ OutcomeInv
  /\ ObjectInv

(***************************************************************************)
(* Lists without duplicates.                                               *)
(***************************************************************************)

(* A list that a new element is appended to.                                *)
LEMMA AppendList ==
  ASSUME NEW S, NEW s \in Seq(S), NEW e \in S
  PROVE  /\ Append(s, e) \in Seq(S) /\ Len(Append(s, e)) = Len(s) + 1
         /\ ToSet(Append(s, e)) = ToSet(s) \cup {e}
         /\ Distinct(s) /\ e \notin ToSet(s) => Distinct(Append(s, e))
<1>1. /\ Append(s, e) \in Seq(S) /\ Len(Append(s, e)) = Len(s) + 1
      /\ DOMAIN Append(s, e) = 1..Len(s) + 1 /\ DOMAIN s = 1..Len(s)
      /\ Len(s) \in Nat
      /\ \A i \in 1..Len(s) : Append(s, e)[i] = s[i]
      /\ Append(s, e)[Len(s) + 1] = e
  BY AppendProperties
<1>2. ToSet(Append(s, e)) = ToSet(s) \cup {e}
  BY <1>1 DEF ToSet
<1>3. ASSUME Distinct(s), e \notin ToSet(s)
      PROVE  Distinct(Append(s, e))
  <2>1. \A i \in 1..Len(s) : s[i] # e
    BY <1>1, <1>3 DEF ToSet
  <2> QED BY <1>1, <1>3, <2>1 DEF Distinct
<1> QED BY <1>1, <1>2, <1>3

(* A list that its first element is taken out of.                           *)
LEMMA TailList ==
  ASSUME NEW S, NEW s \in Seq(S), s # <<>>, Distinct(s)
  PROVE  /\ Tail(s) \in Seq(S) /\ Head(s) \in S /\ Head(s) \in ToSet(s)
         /\ ToSet(Tail(s)) = ToSet(s) \ {Head(s)}
         /\ Distinct(Tail(s))
<1>1. /\ Tail(s) \in Seq(S) /\ Len(Tail(s)) = Len(s) - 1 /\ Head(s) = s[1]
      /\ DOMAIN Tail(s) = 1..Len(s) - 1 /\ DOMAIN s = 1..Len(s)
      /\ Len(s) \in Nat \ {0} /\ s[1] \in S
      /\ \A i \in 1..Len(s) - 1 : Tail(s)[i] = s[i + 1]
  BY HeadTailProperties
<1>2. ToSet(Tail(s)) = ToSet(s) \ {s[1]}
  <2>1. \A i \in 2..Len(s) : s[i] # s[1]
    BY <1>1 DEF Distinct
  <2>2. \A x : x \in ToSet(Tail(s)) => x \in ToSet(s) \ {s[1]}
    BY <1>1, <2>1 DEF ToSet
  <2>3. ASSUME NEW i \in 1..Len(s), s[i] # s[1]
        PROVE  s[i] \in ToSet(Tail(s))
    <3>1. i - 1 \in 1..Len(s) - 1 /\ s[i] = Tail(s)[i - 1]
      BY <1>1, <2>3
    <3> QED BY <1>1, <3>1 DEF ToSet
  <2>4. \A x : x \in ToSet(s) \ {s[1]} => x \in ToSet(Tail(s))
    BY <1>1, <2>3 DEF ToSet
  <2> QED BY <2>2, <2>4
<1>3. Distinct(Tail(s))
  BY <1>1 DEF Distinct
<1> QED BY <1>1, <1>2, <1>3 DEF ToSet

(* Two lists, one after the other.                                          *)
LEMMA ConcatList ==
  ASSUME NEW S, NEW s \in Seq(S), NEW t \in Seq(S),
         Distinct(s), Distinct(t), ToSet(s) \cap ToSet(t) = {}
  PROVE  /\ s \o t \in Seq(S) /\ ToSet(s \o t) = ToSet(s) \cup ToSet(t)
         /\ Distinct(s \o t)
<1>1. /\ s \o t \in Seq(S) /\ Len(s \o t) = Len(s) + Len(t)
      /\ DOMAIN (s \o t) = 1..Len(s) + Len(t)
      /\ DOMAIN s = 1..Len(s) /\ DOMAIN t = 1..Len(t)
      /\ Len(s) \in Nat /\ Len(t) \in Nat
      /\ \A i \in 1..Len(s) + Len(t) :
           (s \o t)[i] = IF i <= Len(s) THEN s[i] ELSE t[i - Len(s)]
  BY ConcatProperties
<1>2. \A i \in 1..Len(s) : (s \o t)[i] = s[i]
  BY <1>1
<1>3. \A i \in 1..Len(t) : (s \o t)[i + Len(s)] = t[i]
  BY <1>1
<1>4. \A x : x \in ToSet(s) \cup ToSet(t) => x \in ToSet(s \o t)
  <2>1. ASSUME NEW i \in 1..Len(t)
        PROVE  t[i] \in ToSet(s \o t)
    <3>1. i + Len(s) \in 1..Len(s) + Len(t)
      BY <1>1
    <3> QED BY <1>1, <1>3, <3>1 DEF ToSet
  <2>2. ASSUME NEW i \in 1..Len(s)
        PROVE  s[i] \in ToSet(s \o t)
    <3>1. i \in 1..Len(s) + Len(t)
      BY <1>1
    <3> QED BY <1>1, <1>2, <3>1 DEF ToSet
  <2> QED BY <1>1, <2>1, <2>2 DEF ToSet
<1>5. \A i \in 1..Len(s) + Len(t) :
        i \notin 1..Len(s) => i - Len(s) \in 1..Len(t)
  BY <1>1
<1>6. \A x : x \in ToSet(s \o t) => x \in ToSet(s) \cup ToSet(t)
  <2>1. ASSUME NEW i \in 1..Len(s) + Len(t)
        PROVE  (s \o t)[i] \in ToSet(s) \cup ToSet(t)
    <3>1. CASE i \in 1..Len(s)
      BY <1>1, <1>2, <3>1 DEF ToSet
    <3>2. CASE i \notin 1..Len(s)
      <4>1. (s \o t)[i] = t[i - Len(s)] /\ i - Len(s) \in 1..Len(t)
        BY <1>1, <1>5, <3>2
      <4> QED BY <1>1, <4>1 DEF ToSet
    <3> QED BY <3>1, <3>2
  <2> QED BY <1>1, <2>1 DEF ToSet
<1>7. Distinct(s \o t)
  <2> SUFFICES ASSUME NEW i \in 1..Len(s) + Len(t),
                      NEW k \in 1..Len(s) + Len(t), (s \o t)[i] = (s \o t)[k]
               PROVE  i = k
    BY <1>1 DEF Distinct
  <2>1. \A j \in 1..Len(s), l \in 1..Len(t) : s[j] # t[l]
    BY <1>1 DEF ToSet
  <2>2. CASE i \in 1..Len(s) /\ k \in 1..Len(s)
    BY <1>1, <2>2 DEF Distinct
  <2>3. CASE i \notin 1..Len(s) /\ k \notin 1..Len(s)
    <3>1. t[i - Len(s)] = t[k - Len(s)]
      BY <1>1, <2>3
    <3>2. i - Len(s) = k - Len(s)
      BY <1>1, <1>5, <2>3, <3>1 DEF Distinct
    <3> QED BY <1>1, <3>2
  <2>4. CASE i \in 1..Len(s) /\ k \notin 1..Len(s)
    BY <1>1, <1>5, <2>1, <2>4
  <2>5. CASE i \notin 1..Len(s) /\ k \in 1..Len(s)
    BY <1>1, <1>5, <2>1, <2>5
  <2> QED BY <2>2, <2>3, <2>4, <2>5
<1> QED BY <1>1, <1>4, <1>6, <1>7

(***************************************************************************)
(* The steps of the code generation threads.                               *)
(***************************************************************************)

(* A thread that holds no request goes on, or ends when told to.            *)
LEMMA ThreadMoves ==
  ASSUME IInv, NEW t \in Threads,
         TestShuttingDown(t) \/ EndRunning(t) \/ LastSignal(t)
  PROVE  IInv'
<1> DEFINE to == pc'[t]
<1>1. /\ pc[t] \in {"test", "signal"} /\ to \in {"take", "signal", "ended"}
      /\ pc' = [pc EXCEPT ![t] = to]
      /\ mRunning' = [mRunning EXCEPT ![t] = to = "take"]
      /\ UNCHANGED <<mpc, buildVars, requestVars, listVars, resultVars,
                     memoryVars, workVars, mShuttingDown>>
  <2>1. DOMAIN pc = Threads /\ mRunning \in [Threads -> BOOLEAN]
        /\ pc = [u \in Threads |-> pc[u]]
    BY DEF IInv, TypeOK
  <2>2. mRunning[t] <=> pc[t] \in Looping
    BY DEF IInv, ThreadInv
  <2>3. CASE TestShuttingDown(t)
    BY <2>1, <2>2, <2>3 DEF TestShuttingDown, Goto, Looping
  <2>4. CASE EndRunning(t)
    BY <2>1, <2>2, <2>4 DEF EndRunning, Goto, Looping
  <2>5. CASE LastSignal(t)
    BY <2>1, <2>2, <2>5 DEF LastSignal, Goto, Looping, Holding
  <2> QED BY <2>3, <2>4, <2>5
<1>2. TypeOK'
  BY <1>1 DEF IInv, TypeOK, buildVars, requestVars, listVars, resultVars,
     memoryVars, workVars
<1>3. Created' = Created /\ Listed' = Listed
  BY <1>1 DEF IInv, TypeOK, Created, Listed, listVars
<1>4. ThreadInv'
  <2>1. \A u \in Threads : mRunning'[u] <=> pc'[u] \in Looping
    BY <1>1 DEF IInv, ThreadInv, TypeOK, Looping, Holding
  <2>2. \A u \in freed.threads : u \in Threads /\ ~mRunning'[u]
    <3>1. freed.threads \subseteq Threads
      BY DEF IInv, TypeOK
    <3>2. t \in freed.threads => to # "take"
      BY <1>1 DEF IInv, ThreadInv, TypeOK, TestShuttingDown, EndRunning,
         LastSignal, Goto, Looping
    <3> QED BY <1>1, <3>1, <3>2 DEF IInv, ThreadInv, TypeOK
  <2> QED BY <1>1, <1>3, <2>1, <2>2
      DEF IInv, ThreadInv, buildVars, requestVars, listVars, memoryVars
<1>5. CountInv' /\ ListInv'
  BY <1>1, <1>3 DEF IInv, CountInv, ListInv, buildVars, requestVars, memoryVars
<1>6. HoldInv'
  BY <1>1 DEF IInv, HoldInv, TypeOK, Holding, requestVars, listVars, memoryVars,
     workVars
<1>7. OutcomeInv'
  BY <1>1 DEF IInv, OutcomeInv, buildVars, requestVars, resultVars
<1>8. ObjectInv'
  BY <1>1 DEF IInv, ObjectInv, HasObject, TypeOK, buildVars, requestVars,
     resultVars, memoryVars, workVars
<1> QED BY <1>2, <1>4, <1>5, <1>6, <1>7, <1>8 DEF IInv

(* A thread in the loop takes the first pending request, or none.           *)
LEMMA ThreadTakes ==
  ASSUME IInv, NEW t \in Threads, TakeRequest(t)
  PROVE  IInv'
<1>1. /\ pc[t] = "take"
      /\ UNCHANGED <<mpc, buildVars, mRequests, mRequestIdx, listVars,
                     resultVars, memoryVars, result, disk, mRunning,
                     mShuttingDown>>
  BY DEF TakeRequest, Goto
<1> DEFINE to == pc'[t]
<1>2. /\ to \in {"test", "work"} /\ pc' = [pc EXCEPT ![t] = to]
      /\ to = "work" <=> mPendingRequests # <<>>
  BY DEF TakeRequest, Goto, IInv, TypeOK
<1>3. Created' = Created /\ Listed' = Listed
  BY <1>1, <1>2 DEF IInv, TypeOK, Created, Listed, listVars
<1>4. ThreadInv'
  <2>1. \A u \in Threads : mRunning'[u] <=> pc'[u] \in Looping
    BY <1>1, <1>2 DEF IInv, ThreadInv, TypeOK, Looping, Holding
  <2> QED BY <1>1, <1>3, <2>1
      DEF IInv, ThreadInv, buildVars, listVars, memoryVars
<1>5. CountInv'
  BY <1>1, <1>3 DEF IInv, CountInv, memoryVars
<1>6. OutcomeInv'
  BY <1>1 DEF IInv, OutcomeInv, buildVars, resultVars
<1>7. ObjectInv'
  <2>1. \A u \in Threads : pc'[u] \in {"store", "copy"} =>
          pc'[u] = pc[u] /\ req'[u] = req[u]
    BY <1>1, <1>2 DEF TakeRequest, IInv, TypeOK
  <2> QED BY <1>1, <2>1
      DEF IInv, ObjectInv, HasObject, buildVars, resultVars, memoryVars
<1>8. CASE mPendingRequests = <<>>
  <2>1. UNCHANGED <<mPendingRequests, req>>
    BY <1>8 DEF TakeRequest
  <2>2. TypeOK'
    BY <1>1, <1>2, <2>1 DEF IInv, TypeOK, buildVars, listVars, resultVars,
       memoryVars
  <2>3. ListInv'
    BY <1>1, <2>1 DEF IInv, ListInv, buildVars, memoryVars
  <2>4. HoldInv'
    BY <1>1, <1>2, <1>8, <2>1
    DEF IInv, HoldInv, TypeOK, Holding, listVars, memoryVars
  <2> QED BY <1>4, <1>5, <1>6, <1>7, <2>2, <2>3, <2>4 DEF IInv
<1>9. CASE mPendingRequests # <<>>
  <2> DEFINE r == Head(mPendingRequests)
  <2>1. /\ mPendingRequests' = Tail(mPendingRequests)
        /\ req' = [req EXCEPT ![t] = r] /\ to = "work"
    BY <1>2, <1>9 DEF TakeRequest
  <2>2. /\ mPendingRequests' \in Seq(Reqs) /\ r \in Reqs
        /\ r \in ToSet(mPendingRequests)
        /\ ToSet(mPendingRequests') = ToSet(mPendingRequests) \ {r}
        /\ Distinct(mPendingRequests')
    BY <1>9, <2>1, TailList DEF IInv, TypeOK, ListInv
  <2> HIDE DEF r
  <2>3. TypeOK'
    BY <1>1, <1>2, <2>1, <2>2 DEF IInv, TypeOK, buildVars, listVars, resultVars,
       memoryVars
  <2>4. ListInv'
    BY <1>1, <2>2 DEF IInv, ListInv, buildVars, memoryVars
  <2>5. HoldInv'
    <3>1. /\ r # NoReq /\ r \in ToSet(mRequests) /\ r \notin freed.requests
          /\ mResult[r] = "NotDone" /\ \A u \in Threads : req[u] # r
      BY <2>2, CodeGenAssumption DEF IInv, HoldInv, ListInv, Reqs, MaxBuilds
    <3>2. /\ UNCHANGED <<mRequests, mThreads, freed, mResult, aborted>>
          /\ req'[t] = r /\ pc'[t] = "work"
          /\ \A u \in Threads : u # t => req'[u] = req[u] /\ pc'[u] = pc[u]
      BY <1>1, <1>2, <2>1 DEF IInv, TypeOK, listVars, memoryVars
    <3> QED BY <2>2, <3>1, <3>2 DEF IInv, HoldInv, Holding
  <2> QED BY <1>4, <1>5, <1>6, <1>7, <2>3, <2>4, <2>5 DEF IInv
<1> QED BY <1>8, <1>9

(* The back end has run.  If the request is one of an earlier build, it has *)
(* been aborted.                                                            *)
LEMMA ThreadGenerates ==
  ASSUME IInv, NEW t \in Threads, NEW outcome \in Outcomes,
         Generate(t, outcome)
  PROVE  IInv'
<1>1. /\ pc[t] = "work" /\ pc' = [pc EXCEPT ![t] = "store"]
      /\ result' = [result EXCEPT ![t] = outcome]
      /\ disk' = IF outcome = "Done" THEN [disk EXCEPT ![req[t][1]] = req[t][2]]
                                     ELSE disk
      /\ UNCHANGED <<mpc, buildVars, requestVars, listVars, resultVars,
                     memoryVars, req, mRunning, mShuttingDown>>
  BY DEF Generate, Goto
<1>2. req[t] \in Reqs /\ req[t] # NoReq
  BY <1>1 DEF IInv, HoldInv, Holding, TypeOK
<1>3. /\ req[t][1] \in Modules /\ req[t][2] \in 1..MaxBuilds
      /\ req[t] = <<req[t][1], req[t][2]>>
  BY <1>2 DEF Reqs
<1>4. TypeOK'
  BY <1>1, <1>3 DEF IInv, TypeOK, buildVars, requestVars, listVars, resultVars,
     memoryVars
<1>5. Created' = Created /\ Listed' = Listed
  BY <1>1 DEF IInv, TypeOK, Created, Listed, listVars
<1>6. ThreadInv'
  <2>1. \A u \in Threads : mRunning'[u] <=> pc'[u] \in Looping
    BY <1>1 DEF IInv, ThreadInv, TypeOK, Looping, Holding
  <2> QED BY <1>1, <1>5, <2>1
      DEF IInv, ThreadInv, buildVars, requestVars, listVars, memoryVars
<1>7. CountInv' /\ ListInv' /\ OutcomeInv'
  BY <1>1, <1>5 DEF IInv, CountInv, ListInv, OutcomeInv, buildVars, requestVars,
     resultVars, memoryVars
<1>8. HoldInv'
  BY <1>1 DEF IInv, HoldInv, TypeOK, Holding, requestVars, listVars, memoryVars
<1>9. ObjectInv'
  <2>1. req[t][2] = build \/ req[t] \in aborted
    BY <1>1, <1>2 DEF IInv, HoldInv, ListInv
  <2>2. \A m \in Modules : HasObject(m) => HasObject(m)'
    BY <1>1, <1>3, <2>1 DEF HasObject, IInv, TypeOK, buildVars, memoryVars
  <2>3. outcome = "Done" => HasObject(req[t][1])'
    BY <1>1, <1>3, <2>1 DEF HasObject, IInv, TypeOK, buildVars, memoryVars
  <2>4. mCodeGenFiles \subseteq Modules
    BY DEF IInv, TypeOK
  <2>5. \A r \in ToSet(mRequests) : r[1] \in Modules
    BY DEF IInv, ListInv, TypeOK
  <2>6. \A u \in Threads : pc[u] \in {"store", "copy"} => req[u][1] \in Modules
    BY DEF IInv, HoldInv, Holding, TypeOK, Reqs
  <2>7. /\ UNCHANGED <<mCodeGenFiles, mRequests, mResult, req, build>>
        /\ \A u \in Threads : u # t => pc'[u] = pc[u] /\ result'[u] = result[u]
        /\ result'[t] = outcome
    BY <1>1 DEF IInv, TypeOK, buildVars, requestVars, resultVars, memoryVars
  <2>8. \A m \in mCodeGenFiles' : HasObject(m)'
    BY <2>2, <2>4, <2>7 DEF IInv, ObjectInv
  <2>9. \A r \in ToSet(mRequests)' : mResult'[r] = "Done" => HasObject(r[1])'
    BY <2>2, <2>5, <2>7 DEF IInv, ObjectInv
  <2>10. \A u \in Threads :
           pc'[u] \in {"store", "copy"} /\ result'[u] = "Done"
             /\ req'[u][2] = build' => HasObject(req[u][1])'
    BY <2>2, <2>3, <2>6, <2>7 DEF IInv, ObjectInv
  <2> QED BY <2>8, <2>9, <2>10 DEF ObjectInv
<1> QED BY <1>4, <1>6, <1>7, <1>8, <1>9 DEF IInv

(* A thread stores its result; a request that has been deleted is not one   *)
(* that anybody reads.                                                      *)
LEMMA ThreadStores ==
  ASSUME IInv, NEW t \in Threads, StoreResult(t)
  PROVE  IInv'
<1> DEFINE r == req[t]
<1>1. /\ pc[t] = "store" /\ pc' = [pc EXCEPT ![t] = "copy"]
      /\ mResult' = [mResult EXCEPT ![r] = IF r \in freed.requests
                                             THEN "NotDone" ELSE result[t]]
      /\ UNCHANGED <<mpc, buildVars, requestVars, listVars, resultVars, freed,
                     aborted, workVars, mRunning, mShuttingDown>>
  BY DEF StoreResult, Goto
<1>2. r \in Reqs /\ r # NoReq /\ r \notin ToSet(mPendingRequests)
  BY <1>1 DEF IInv, HoldInv, Holding, TypeOK
<1> HIDE DEF r
<1>3. TypeOK'
  <2>1. result[t] \in Outcomes \cup {"NotDone"}
    BY DEF IInv, TypeOK
  <2> QED BY <1>1, <1>2, <2>1 DEF IInv, TypeOK, buildVars, requestVars,
     listVars, resultVars, workVars
<1>4. Created' = Created /\ Listed' = Listed
  BY <1>1 DEF IInv, TypeOK, Created, Listed, listVars
<1>5. ThreadInv'
  <2>1. \A u \in Threads : mRunning'[u] <=> pc'[u] \in Looping
    BY <1>1 DEF IInv, ThreadInv, TypeOK, Looping, Holding
  <2> QED BY <1>1, <1>4, <2>1
      DEF IInv, ThreadInv, buildVars, requestVars, listVars
<1>6. CountInv' /\ ListInv' /\ OutcomeInv'
  BY <1>1, <1>4 DEF IInv, CountInv, ListInv, OutcomeInv, buildVars, requestVars,
     resultVars
<1>7. /\ \A q \in Reqs : q # r => mResult'[q] = mResult[q]
      /\ \A u \in Threads : u # t => pc'[u] = pc[u]
      /\ pc'[t] = "copy"
      /\ UNCHANGED <<req, mRequests, mPendingRequests, freed, aborted,
                     mThreads>>
  BY <1>1 DEF IInv, TypeOK, requestVars, listVars, workVars
<1>8. HoldInv'
  <2>1. r \in ToSet(mRequests) \/ mResult'[r] = "NotDone"
    <3>1. r \in ToSet(mRequests) \/ r \in freed.requests
      BY <1>2 DEF IInv, HoldInv, r
    <3> QED BY <1>1, <1>2, <3>1 DEF IInv, TypeOK
  <2>2. \A u \in Threads :
          /\ req[u] # NoReq <=> pc'[u] \in Holding
          /\ req[u] # NoReq => req[u] \in Reqs
    BY <1>1, <1>7 DEF IInv, HoldInv, Holding, TypeOK
  <2>3. \A u \in Threads : u # t /\ req[u] # NoReq => req[u] # r
    BY <1>2 DEF IInv, HoldInv, r
  <2> QED BY <1>2, <1>7, <2>1, <2>2, <2>3 DEF IInv, HoldInv
<1>9. ObjectInv'
  <2>1. UNCHANGED <<mCodeGenFiles, build, disk, aborted, result>>
    BY <1>1 DEF buildVars, resultVars, workVars
  <2>2. \A u \in Threads : pc'[u] \in {"store", "copy"} =>
          pc[u] \in {"store", "copy"}
    BY <1>1, <1>7
  <2>3. ASSUME r \in ToSet(mRequests), mResult'[r] = "Done"
        PROVE  HasObject(r[1])
    <3>1. r[2] = build /\ r \notin freed.requests
      BY <2>3 DEF IInv, ListInv
    <3>2. result[t] = "Done"
      BY <1>1, <1>2, <2>3, <3>1 DEF IInv, TypeOK
    <3> QED BY <1>1, <3>1, <3>2 DEF IInv, ObjectInv, r
  <2>4. ToSet(mRequests) \subseteq Reqs
    BY DEF IInv, TypeOK, ToSet
  <2> QED BY <1>7, <2>1, <2>2, <2>3, <2>4 DEF IInv, ObjectInv, HasObject
<1> QED BY <1>3, <1>5, <1>6, <1>8, <1>9 DEF IInv

(* ... and lets go of the request.                                          *)
LEMMA ThreadLetsGo ==
  ASSUME IInv, NEW t \in Threads, CopyDone(t)
  PROVE  IInv'
<1>1. /\ pc[t] = "copy" /\ pc' = [pc EXCEPT ![t] = "test"]
      /\ req' = [req EXCEPT ![t] = NoReq]
      /\ result' = [result EXCEPT ![t] = "NotDone"]
      /\ UNCHANGED <<mpc, buildVars, requestVars, listVars, resultVars,
                     memoryVars, disk, mRunning, mShuttingDown>>
  BY DEF CopyDone, Goto
<1>2. TypeOK'
  BY <1>1 DEF IInv, TypeOK, buildVars, requestVars, listVars, resultVars,
     memoryVars
<1>3. Created' = Created /\ Listed' = Listed
  BY <1>1 DEF IInv, TypeOK, Created, Listed, listVars
<1>4. ThreadInv'
  <2>1. \A u \in Threads : mRunning'[u] <=> pc'[u] \in Looping
    BY <1>1 DEF IInv, ThreadInv, TypeOK, Looping, Holding
  <2> QED BY <1>1, <1>3, <2>1
      DEF IInv, ThreadInv, buildVars, requestVars, listVars, memoryVars
<1>5. CountInv' /\ ListInv' /\ OutcomeInv'
  BY <1>1, <1>3 DEF IInv, CountInv, ListInv, OutcomeInv, buildVars, requestVars,
     resultVars, memoryVars
<1>6. /\ \A u \in Threads : u # t =>
           pc'[u] = pc[u] /\ req'[u] = req[u] /\ result'[u] = result[u]
      /\ req'[t] = NoReq /\ pc'[t] = "test"
  BY <1>1 DEF IInv, TypeOK
<1>7. HoldInv'
  BY <1>1, <1>6 DEF IInv, HoldInv, Holding, requestVars, listVars, memoryVars
<1>8. ObjectInv'
  BY <1>1, <1>6 DEF IInv, ObjectInv, HasObject, buildVars, requestVars,
     resultVars, memoryVars
<1> QED BY <1>2, <1>4, <1>5, <1>7, <1>8 DEF IInv

(***************************************************************************)
(* The steps of the compiler's thread.                                     *)
(***************************************************************************)

Building == {"compile", "loop", "finish", "scan", "update"}

(* Steps that only test something, cancel, or tell threads to end.          *)
LEMMA CompilerMoves ==
  ASSUME IInv,
         CompileDone \/ CompilerCancel \/ TestCancel \/ FinishNotDone
           \/ FinishWaits \/ FinishDone
  PROVE  IInv'
<1>1. /\ UNCHANGED <<build, written, mRequests, mPendingRequests, listVars,
                     resultVars, memoryVars, workVars, pc, mRunning>>
      /\ mCanceling' \in BOOLEAN /\ mShuttingDown' \in [Threads -> BOOLEAN]
      /\ mRequestIdx' \in Nat
      /\ \/ mpc' = mpc
         \/ {mpc, mpc'} \subseteq Building
              /\ (mpc' = "scan" => mRequests # <<>>)
         \/ mpc = "clear" /\ mpc' = "errors"
  <2>1. /\ AllShuttingDown \in [Threads -> BOOLEAN]
        /\ mShuttingDown \in [Threads -> BOOLEAN] /\ mCanceling \in BOOLEAN
        /\ mRequestIdx \in Nat
    BY DEF IInv, TypeOK, AllShuttingDown
  <2> HIDE DEF AllShuttingDown
  <2>2. CASE CompileDone \/ FinishNotDone \/ FinishWaits
    BY <2>1, <2>2 DEF IInv, ThreadInv, CompileDone, FinishNotDone, FinishWaits,
       Building, buildVars, requestVars, threadVars
  <2>3. CASE CompilerCancel
    BY <2>1, <2>3 DEF CompilerCancel, requestVars, threadVars
  <2>4. CASE TestCancel
    BY <2>1, <2>4 DEF TestCancel, Building, buildVars, requestVars
  <2>5. CASE FinishDone
    BY <2>1, <2>5 DEF FinishDone, buildVars, threadVars
  <2> QED BY <2>2, <2>3, <2>4, <2>5
<1>2. TypeOK'
  BY <1>1 DEF IInv, TypeOK, Building, listVars, resultVars, memoryVars, workVars
<1>3. Created' = Created /\ Listed' = Listed
  BY <1>1 DEF Created, Listed, listVars
<1>4. ThreadInv'
  BY <1>1, <1>3 DEF IInv, ThreadInv, Building, listVars, memoryVars
<1>5. CountInv' /\ ListInv' /\ HoldInv'
  BY <1>1, <1>3
  DEF IInv, CountInv, ListInv, HoldInv, listVars, memoryVars, workVars
<1>6. OutcomeInv'
  BY <1>1 DEF IInv, OutcomeInv, Building, resultVars
<1>7. ObjectInv'
  BY <1>1 DEF IInv, ObjectInv, HasObject, resultVars, memoryVars, workVars
<1> QED BY <1>2, <1>4, <1>5, <1>6, <1>7 DEF IInv

(* There are as many thread objects as there may be requests.               *)
LEMMA CreatedIsFinite ==
  /\ IsFiniteSet(Threads) /\ Cardinality(Threads) = MaxRequests
  /\ IsFiniteSet(Created)
<1>1. IsFiniteSet(Threads) /\ Cardinality(Threads) = MaxRequests
  BY FS_Interval, CodeGenAssumption DEF Threads
<1> QED BY <1>1, FS_Subset DEF Created

(* While fewer requests than MaxRequests have been made, a thread is left   *)
(* that has not been created.                                               *)
LEMMA ThreadIsLeft ==
  ASSUME IInv, Cardinality(freed.requests) + Len(mRequests) < MaxRequests
  PROVE  NewThread \in Threads /\ pc[NewThread] = "none"
<1>1. Created # Threads
  <2>1. /\ Cardinality(Created) <= Cardinality(freed.requests) + Len(mRequests)
        /\ Cardinality(freed.requests) \in Nat /\ Len(mRequests) \in Nat
    BY FS_CardinalityType DEF IInv, CountInv, TypeOK
  <2> QED BY <2>1, CreatedIsFinite, CodeGenAssumption
<1>2. \E t \in Threads : pc[t] = "none"
  BY <1>1 DEF Created
<1> QED BY <1>2 DEF NewThread

(* A module is given a request that is like no other, and may be a thread.  *)
LEMMA RequestIsWritten ==
  ASSUME IInv, NEW m \in Modules, WriteObjectFile(m)
  PROVE  IInv'
<1> DEFINE r == <<m, build>>
<1> DEFINE new == NewThread
<1>1. /\ mpc = "compile" /\ m \notin written
      /\ Cardinality(freed.requests) + Len(mRequests) < MaxRequests
      /\ written' = written \cup {m} /\ mHadBuildError' = mHadBuildError \ {m}
      /\ mRequests' = Append(mRequests, r)
      /\ mPendingRequests' = Append(mPendingRequests, r)
      /\ mRequestIdx' = mRequestIdx + 1
      /\ UNCHANGED <<mpc, build, mCanceling, mOldThreads, mFailedRequests,
                     mCodeGenFiles, memoryVars, workVars, mShuttingDown>>
  BY DEF WriteObjectFile
<1>2. new \in Threads /\ pc[new] = "none"
  BY <1>1, ThreadIsLeft
<1>3. \/ /\ mThreads' = Append(mThreads, new)
         /\ mRunning' = [mRunning EXCEPT ![new] = TRUE]
         /\ pc' = [pc EXCEPT ![new] = "test"]
      \/ UNCHANGED <<mThreads, mRunning, pc>>
  BY DEF WriteObjectFile
<1> HIDE DEF new
<1>4. r \in Reqs /\ r[1] = m /\ r[2] = build
  BY <1>1 DEF IInv, TypeOK, ThreadInv, Reqs, MaxBuilds
<1>5. /\ r \notin ToSet(mRequests) /\ r \notin freed.requests
      /\ r \notin ToSet(mPendingRequests)
  BY <1>1, <1>4 DEF IInv, ListInv
<1>6. \A t \in Threads : req[t] # r
  BY <1>4, <1>5, CodeGenAssumption DEF IInv, HoldInv, Reqs, MaxBuilds
<1> HIDE DEF r
<1>7. /\ mRequests' \in Seq(Reqs) /\ Len(mRequests') = Len(mRequests) + 1
      /\ ToSet(mRequests') = ToSet(mRequests) \cup {r} /\ Distinct(mRequests')
  BY <1>1, <1>4, <1>5, AppendList DEF IInv, TypeOK, ListInv
<1>8. /\ mPendingRequests' \in Seq(Reqs)
      /\ ToSet(mPendingRequests') = ToSet(mPendingRequests) \cup {r}
      /\ Distinct(mPendingRequests')
  BY <1>1, <1>4, <1>5, AppendList DEF IInv, TypeOK, ListInv
<1>9. new \notin Listed /\ new \notin freed.threads
  BY <1>2 DEF IInv, ThreadInv, Created
<1>10. /\ mThreads' \in Seq(Threads) /\ Distinct(mThreads')
       /\ \/ /\ UNCHANGED <<pc, mRunning>>
             /\ ToSet(mThreads') = ToSet(mThreads)
          \/ /\ ToSet(mThreads') = ToSet(mThreads) \cup {new}
             /\ mRunning' = [mRunning EXCEPT ![new] = TRUE]
             /\ pc' = [pc EXCEPT ![new] = "test"]
  <2>1. /\ mThreads \in Seq(Threads) /\ Distinct(mThreads)
        /\ new \notin ToSet(mThreads)
    BY <1>9 DEF IInv, TypeOK, ThreadInv, Listed
  <2>2. CASE mThreads' = Append(mThreads, new)
    BY <1>2, <1>3, <2>1, <2>2, AppendList
  <2>3. CASE mThreads' # Append(mThreads, new)
    BY <1>3, <2>1, <2>3
  <2> QED BY <2>2, <2>3
<1>11. TypeOK'
  <2>1. pc' \in [Threads -> {"none", "test", "take", "work", "store", "copy",
                             "signal", "ended"}]
    BY <1>2, <1>10 DEF IInv, TypeOK
  <2>2. mRunning' \in [Threads -> BOOLEAN]
    BY <1>2, <1>10 DEF IInv, TypeOK
  <2>3. UNCHANGED <<mResult, freed, aborted, req, result, disk>>
    BY <1>1 DEF memoryVars, workVars
  <2> QED BY <1>1, <1>7, <1>8, <1>10, <2>1, <2>2, <2>3 DEF IInv, TypeOK
<1>12. /\ Created' \subseteq Created \cup {new}
       /\ Created' = Listed' \cup freed.threads
  BY <1>1, <1>2, <1>10 DEF IInv, TypeOK, ThreadInv, Created, Listed
<1>13. ThreadInv'
  <2>1. /\ ToSet(mThreads') \cap ToSet(mOldThreads) = {}
        /\ Listed' \cap freed.threads = {}
    BY <1>1, <1>9, <1>10 DEF IInv, ThreadInv, Listed
  <2>2. \A t \in Threads : mRunning'[t] <=> pc'[t] \in Looping
    BY <1>2, <1>10 DEF IInv, ThreadInv, TypeOK, Looping
  <2>3. \A t \in freed.threads : ~mRunning'[t]
    BY <1>9, <1>10 DEF IInv, ThreadInv, TypeOK
  <2> QED BY <1>1, <1>10, <1>12, <2>1, <2>2, <2>3
      DEF IInv, ThreadInv, memoryVars
<1>14. CountInv'
  <2>1. IsFiniteSet(Created)
    BY CreatedIsFinite
  <2>2. /\ IsFiniteSet(Created \cup {new})
        /\ \/ Cardinality(Created \cup {new}) = Cardinality(Created)
           \/ Cardinality(Created \cup {new}) = Cardinality(Created) + 1
    BY <2>1, FS_AddElement
  <2>3. Cardinality(Created') <= Cardinality(Created \cup {new})
    BY <1>12, <2>2, FS_Subset
  <2>4. /\ Cardinality(Created) \in Nat /\ Cardinality(Created') \in Nat
        /\ Cardinality(freed.requests) \in Nat /\ Len(mRequests) \in Nat
    BY <1>12, <2>1, <2>2, FS_Subset, FS_CardinalityType
    DEF IInv, CountInv, TypeOK
  <2> QED BY <1>1, <1>7, <2>2, <2>3, <2>4 DEF IInv, CountInv, memoryVars
<1>15. ListInv'
  BY <1>1, <1>4, <1>5, <1>7, <1>8 DEF IInv, ListInv, memoryVars
<1>16. HoldInv'
  <2>1. UNCHANGED <<req, freed, mResult, aborted>>
    BY <1>1 DEF memoryVars, workVars
  <2>2. mResult[r] = "NotDone"
    BY <1>4, <1>5 DEF IInv, HoldInv
  <2>3. \A t \in Threads : pc'[t] \in Holding <=> pc[t] \in Holding
    BY <1>2, <1>10 DEF IInv, TypeOK, Holding
  <2>4. \A t \in Threads : req[t] # NoReq => t # new
    BY <1>2 DEF IInv, HoldInv, Holding
  <2>5. \A q \in Reqs :
          q \notin ToSet(mRequests') \/ q \in ToSet(mPendingRequests') =>
            mResult[q] = "NotDone"
    BY <1>7, <1>8, <2>2 DEF IInv, HoldInv
  <2>6. \A t \in Threads :
          /\ req[t] # NoReq <=> pc'[t] \in Holding
          /\ req[t] # NoReq =>
               req[t] \in (ToSet(mRequests') \cup freed.requests)
                            \ ToSet(mPendingRequests')
    BY <1>6, <1>7, <1>8, <2>3 DEF IInv, HoldInv
  <2>7. \A t \in Threads :
          req[t] # NoReq
            /\ (req[t] \in freed.requests \/ mResult[req[t]] # "NotDone") =>
            \/ pc'[t] = "copy"
            \/ req[t] \in aborted /\ t \notin ToSet(mThreads')
    <3>1. \A t \in Threads : pc[t] = "copy" => pc'[t] = "copy"
      BY <1>2, <1>10 DEF IInv, TypeOK
    <3>2. \A t \in Threads : t # new /\ t \notin ToSet(mThreads) =>
            t \notin ToSet(mThreads')
      BY <1>10
    <3> QED BY <2>4, <3>1, <3>2 DEF IInv, HoldInv
  <2> QED BY <2>1, <2>5, <2>6, <2>7 DEF IInv, HoldInv
<1>17. OutcomeInv'
  <2>1. /\ mCodeGenFiles \cap mFailedRequests = {}
        /\ mCodeGenFiles \cup mFailedRequests \subseteq written
        /\ \A n \in written :
             /\ n \notin mHadBuildError
             /\ n \in mCodeGenFiles \cup mFailedRequests <=>
                  <<n, build>> \notin ToSet(mRequests)
    BY <1>1 DEF IInv, OutcomeInv
  <2>2. \A n \in written' :
          /\ n \notin mHadBuildError'
          /\ n \in mCodeGenFiles \cup mFailedRequests <=>
               <<n, build>> \notin ToSet(mRequests')
    BY <1>1, <1>7, <2>1 DEF r
  <2> QED BY <1>1, <2>1, <2>2 DEF OutcomeInv
<1>18. ObjectInv'
  <2>1. mResult[r] = "NotDone"
    BY <1>4, <1>5 DEF IInv, HoldInv
  <2>2. \A t \in Threads : pc'[t] \in {"store", "copy"} => pc'[t] = pc[t]
    BY <1>2, <1>10 DEF IInv, TypeOK
  <2> QED BY <1>1, <1>7, <2>1, <2>2
      DEF IInv, ObjectInv, HasObject, memoryVars, workVars
<1> QED BY <1>11, <1>13, <1>14, <1>15, <1>16, <1>17, <1>18 DEF IInv

(* The first request has a result: it is counted and deleted.  A thread     *)
(* that still holds it is copying, or the request has been aborted.         *)
LEMMA HeadIsCompleted ==
  ASSUME IInv, HeadIsDone, CompleteHead,
         mpc \in Building \ {"scan"}, mpc' \in Building \ {"scan"},
         UNCHANGED <<buildVars, mPendingRequests, mRequestIdx, listVars,
                     mHadBuildError, aborted, workVars, threadVars>>
  PROVE  IInv'
<1> DEFINE r == Head(mRequests)
<1>1. /\ mRequests # <<>> /\ mResult[r] # "NotDone"
      /\ IF mResult[r] \in {"Failed", "Aborted"}
           THEN /\ mFailedRequests' = mFailedRequests \cup {r[1]}
                /\ UNCHANGED mCodeGenFiles
           ELSE /\ mCodeGenFiles' = mCodeGenFiles \cup {r[1]}
                /\ UNCHANGED mFailedRequests
      /\ freed' = [freed EXCEPT !.requests = @ \cup {r}]
      /\ mResult' = [mResult EXCEPT ![r] = "NotDone"]
      /\ mRequests' = Tail(mRequests)
  BY DEF HeadIsDone, CompleteHead
<1>2. /\ mRequests' \in Seq(Reqs) /\ r \in Reqs /\ r \in ToSet(mRequests)
      /\ ToSet(mRequests') = ToSet(mRequests) \ {r} /\ Distinct(mRequests')
  BY <1>1, TailList DEF IInv, TypeOK, ListInv
<1>3. Len(mRequests') = Len(mRequests) - 1 /\ Len(mRequests) \in Nat \ {0}
  BY <1>1, HeadTailProperties DEF IInv, TypeOK
<1> HIDE DEF r
<1>4. /\ r[2] = build /\ r[1] \in written /\ r \notin freed.requests
      /\ r \notin ToSet(mPendingRequests) /\ r[1] \in Modules
      /\ r = <<r[1], build>>
  BY <1>1, <1>2 DEF IInv, ListInv, HoldInv, Reqs
<1>5. /\ freed'.requests = freed.requests \cup {r}
      /\ freed'.threads = freed.threads
      /\ freed' \in [requests : SUBSET Reqs, threads : SUBSET Threads]
  BY <1>1, <1>2 DEF IInv, TypeOK
<1>6. TypeOK'
  <2>1. mFailedRequests' \subseteq Modules /\ mCodeGenFiles' \subseteq Modules
    BY <1>1, <1>4 DEF IInv, TypeOK
  <2>2. mResult' \in [Reqs -> Outcomes \cup {"NotDone", "Aborted"}]
    BY <1>1 DEF IInv, TypeOK
  <2> QED BY <1>2, <1>5, <2>1, <2>2 DEF IInv, TypeOK, Building, buildVars,
     listVars, workVars, threadVars
<1>7. Created' = Created /\ Listed' = Listed
  BY DEF Created, Listed, listVars, threadVars
<1>8. ThreadInv'
  BY <1>5, <1>7
  DEF IInv, ThreadInv, Building, buildVars, listVars, threadVars
<1>9. CountInv'
  <2>1. /\ IsFiniteSet(freed.requests \cup {r})
        /\ Cardinality(freed.requests \cup {r}) =
             Cardinality(freed.requests) + 1
    BY <1>4, FS_AddElement DEF IInv, CountInv
  <2>2. Cardinality(freed.requests) \in Nat
    BY FS_CardinalityType DEF IInv, CountInv
  <2> QED BY <1>3, <1>5, <1>7, <2>1, <2>2 DEF IInv, CountInv
<1>10. ListInv'
  <2>1. r[2] <= build
    BY <1>4 DEF IInv, TypeOK
  <2> QED BY <1>2, <1>4, <1>5, <2>1 DEF IInv, ListInv, buildVars
<1>11. /\ mResult'[r] = "NotDone"
       /\ \A q \in Reqs : q # r => mResult'[q] = mResult[q]
       /\ UNCHANGED <<build, written, mPendingRequests, mThreads,
                      mHadBuildError, aborted, req, result, disk, pc>>
  BY <1>1, <1>2
  DEF IInv, TypeOK, buildVars, listVars, workVars, threadVars
<1>12. HoldInv'
  <2>1. \A t \in Threads : req[t] # NoReq => req[t] \in Reqs
    BY DEF IInv, TypeOK
  <2>2. \A q \in Reqs :
          q \notin ToSet(mRequests') \/ q \in ToSet(mPendingRequests) =>
            mResult'[q] = "NotDone"
    BY <1>2, <1>11 DEF IInv, HoldInv
  <2>3. \A t \in Threads :
          req[t] # NoReq
            /\ (req[t] \in freed'.requests \/ mResult'[req[t]] # "NotDone") =>
            \/ pc[t] = "copy"
            \/ req[t] \in aborted /\ t \notin ToSet(mThreads)
    BY <1>1, <1>5, <1>11, <2>1 DEF IInv, HoldInv
  <2> QED BY <1>2, <1>5, <1>11, <2>2, <2>3 DEF IInv, HoldInv
<1>13. OutcomeInv'
  <2>1. /\ mCodeGenFiles \cap mFailedRequests = {}
        /\ mCodeGenFiles \cup mFailedRequests \subseteq written
        /\ \A n \in written :
             /\ n \notin mHadBuildError
             /\ n \in mCodeGenFiles \cup mFailedRequests <=>
                  <<n, build>> \notin ToSet(mRequests)
    BY DEF IInv, OutcomeInv, Building
  <2>2. r[1] \notin mCodeGenFiles \cup mFailedRequests
    BY <1>2, <1>4, <2>1
  <2>3. /\ mCodeGenFiles' \cup mFailedRequests' =
             mCodeGenFiles \cup mFailedRequests \cup {r[1]}
        /\ mCodeGenFiles' \cap mFailedRequests' = {}
    BY <1>1, <2>1, <2>2
  <2>4. \A n \in written : <<n, build>> \in ToSet(mRequests') <=>
          <<n, build>> \in ToSet(mRequests) /\ n # r[1]
    BY <1>2, <1>4
  <2> QED BY <1>4, <1>11, <2>1, <2>3, <2>4 DEF OutcomeInv, Building
<1>14. ObjectInv'
  <2>1. mResult[r] \in {"Failed", "Aborted", "Done"}
    BY <1>1, <1>2 DEF IInv, TypeOK, Outcomes
  <2>2. \A m \in mCodeGenFiles' : HasObject(m)
    BY <1>1, <1>2, <2>1 DEF IInv, ObjectInv
  <2>3. ToSet(mRequests) \subseteq Reqs
    BY DEF IInv, TypeOK, ToSet
  <2>4. \A q \in ToSet(mRequests') : mResult'[q] = "Done" => HasObject(q[1])
    BY <1>2, <1>11, <2>3 DEF IInv, ObjectInv
  <2>5. \A m : HasObject(m)' <=> HasObject(m)
    BY <1>11 DEF HasObject
  <2> QED BY <1>11, <2>2, <2>4, <2>5 DEF IInv, ObjectInv
<1> QED BY <1>6, <1>8, <1>9, <1>10, <1>12, <1>13, <1>14 DEF IInv

(* Finish gives up the first request when no thread of this build runs: a   *)
(* thread that holds it is one that an earlier build has left behind.       *)
LEMMA RequestIsAborted ==
  ASSUME IInv, FinishAborts
  PROVE  IInv'
<1> DEFINE r == Head(mRequests)
<1>1. /\ mpc = "scan" /\ mpc' = "finish" /\ mPendingRequests' = <<>>
      /\ mResult' = [mResult EXCEPT ![r] = "Aborted"]
      /\ aborted' = aborted \cup {r}
      /\ UNCHANGED <<build, written, mCanceling, mRequests, mRequestIdx,
                     mThreads, mOldThreads, resultVars, freed, req, result,
                     disk, pc, mRunning, mShuttingDown>>
  BY DEF FinishAborts, buildVars, listVars, workVars, threadVars
<1>2. r \in Reqs /\ r \in ToSet(mRequests)
  BY <1>1, TailList DEF IInv, TypeOK, ListInv, ThreadInv
<1> HIDE DEF r
<1>3. <<>> \in Seq(Reqs) /\ ToSet(<<>>) = {} /\ Distinct(<<>>)
  BY DEF ToSet, Distinct
<1>4. TypeOK'
  <2>1. mPendingRequests' \in Seq(Reqs)
    BY <1>1, <1>3
  <2>2. mResult' \in [Reqs -> Outcomes \cup {"NotDone", "Aborted"}]
    BY <1>1 DEF IInv, TypeOK
  <2> QED BY <1>1, <1>2, <2>1, <2>2 DEF IInv, TypeOK, resultVars
<1>5. Created' = Created /\ Listed' = Listed
  BY <1>1 DEF Created, Listed
<1>6. ThreadInv' /\ CountInv'
  BY <1>1, <1>5 DEF IInv, ThreadInv, CountInv
<1>7. ListInv'
  BY <1>1, <1>3 DEF IInv, ListInv
<1>8. /\ mResult'[r] = "Aborted"
      /\ \A q \in Reqs : q # r => mResult'[q] = mResult[q]
  BY <1>1, <1>2 DEF IInv, TypeOK
<1>9. HoldInv'
  <2>1. \A t \in ToSet(mThreads) : t \in Threads /\ req[t] = NoReq
    <3>1. ToSet(mThreads) \subseteq Threads
      BY DEF IInv, TypeOK, ToSet
    <3> QED BY <3>1 DEF IInv, HoldInv, ThreadInv, Looping, FinishAborts,
           HasRunningThreads
  <2>2. \A t \in Threads : req[t] # NoReq => req[t] \in Reqs
    BY DEF IInv, TypeOK
  <2>3. \A q \in Reqs :
          q \notin ToSet(mRequests) \/ q \in ToSet(mPendingRequests') =>
            mResult'[q] = "NotDone"
    BY <1>1, <1>2, <1>3, <1>8 DEF IInv, HoldInv
  <2>4. \A t \in Threads :
          req[t] # NoReq
            /\ (req[t] \in freed.requests \/ mResult'[req[t]] # "NotDone") =>
            \/ pc[t] = "copy"
            \/ req[t] \in aborted' /\ t \notin ToSet(mThreads)
    BY <1>1, <1>8, <2>1, <2>2 DEF IInv, HoldInv
  <2> QED BY <1>1, <1>3, <2>3, <2>4 DEF IInv, HoldInv
<1>10. OutcomeInv'
  BY <1>1 DEF IInv, OutcomeInv, resultVars
<1>11. ObjectInv'
  <2>1. \A m : HasObject(m) => HasObject(m)'
    BY <1>1 DEF HasObject
  <2>2. ToSet(mRequests) \subseteq Reqs
    BY DEF IInv, TypeOK, ToSet
  <2>3. \A q \in ToSet(mRequests) : mResult'[q] = "Done" => mResult[q] = "Done"
    BY <1>8, <2>2
  <2> QED BY <1>1, <2>1, <2>3 DEF IInv, ObjectInv, resultVars
<1> QED BY <1>4, <1>6, <1>7, <1>9, <1>10, <1>11 DEF IInv

(* The last request is done: the threads are told to end and set aside.     *)
LEMMA ThreadsAreSetAside ==
  ASSUME IInv, FinishShutsDown
  PROVE  IInv'
<1>1. /\ mpc = "finish" /\ mRequests = <<>> /\ mpc' = "clear"
      /\ mShuttingDown' = AllShuttingDown
      /\ mOldThreads' = mOldThreads \o mThreads /\ mThreads' = <<>>
      /\ UNCHANGED <<buildVars, requestVars, resultVars, memoryVars, workVars,
                     pc, mRunning>>
  BY DEF FinishShutsDown
<1>2. /\ mOldThreads' \in Seq(Threads) /\ Distinct(mOldThreads')
      /\ ToSet(mOldThreads') = ToSet(mOldThreads) \cup ToSet(mThreads)
  BY <1>1, ConcatList DEF IInv, TypeOK, ThreadInv
<1>3. <<>> \in Seq(Threads) /\ ToSet(<<>>) = {} /\ Distinct(<<>>)
  BY DEF ToSet, Distinct
<1>4. TypeOK'
  <2>1. AllShuttingDown \in [Threads -> BOOLEAN]
    BY DEF IInv, TypeOK, AllShuttingDown
  <2>2. mThreads' \in Seq(Threads)
    BY <1>1, <1>3
  <2> QED BY <1>1, <1>2, <2>1, <2>2 DEF IInv, TypeOK, buildVars, requestVars,
     resultVars, memoryVars, workVars
<1>5. Created' = Created /\ Listed' = Listed
  BY <1>1, <1>2, <1>3 DEF Created, Listed
<1>6. ThreadInv'
  BY <1>1, <1>2, <1>3, <1>5
  DEF IInv, ThreadInv, buildVars, requestVars, memoryVars
<1>7. CountInv' /\ ListInv' /\ OutcomeInv'
  BY <1>1, <1>5 DEF IInv, CountInv, ListInv, OutcomeInv, buildVars, requestVars,
     resultVars, memoryVars
<1>8. HoldInv'
  BY <1>1, <1>3 DEF IInv, HoldInv, requestVars, memoryVars, workVars
<1>9. ObjectInv'
  BY <1>1 DEF IInv, ObjectInv, HasObject, buildVars, requestVars, resultVars,
     memoryVars, workVars
<1> QED BY <1>4, <1>6, <1>7, <1>8, <1>9 DEF IInv

(* The compiler's thread waits for old threads or deletes the first one,    *)
(* after a build or for good.                                               *)
LEMMA ThreadsAreCleared ==
  ASSUME IInv, ClearOldThread \/ Destroy
  PROVE  IInv'
<1>1. /\ UNCHANGED <<buildVars, requestVars, mThreads, resultVars, mResult,
                     aborted, workVars, pc, mRunning>>
      /\ mpc \in {"clear", "idle", "destroy"}
      /\ \/ mpc' = mpc
         \/ mpc \in {"idle", "destroy"} /\ mpc' = "destroy"
         \/ mpc \in {"idle", "destroy"} /\ mpc' = "gone" /\ mOldThreads' = <<>>
  BY DEF ClearOldThread, Destroy, threadVars
<1>2. mShuttingDown' \in [Threads -> BOOLEAN]
  <2>1. CASE mShuttingDown' = mShuttingDown
    BY <2>1 DEF IInv, TypeOK
  <2>2. CASE mShuttingDown' = [mShuttingDown EXCEPT ![Head(mOldThreads)] = TRUE]
    BY <2>2 DEF IInv, TypeOK
  <2> QED BY <2>1, <2>2 DEF ClearOldThread, Destroy, threadVars
<1>3. \/ UNCHANGED <<mOldThreads, freed>>
      \/ /\ mOldThreads # <<>> /\ ~mRunning[Head(mOldThreads)]
         /\ DeleteOldThread
  BY DEF ClearOldThread, Destroy
<1>4. /\ mOldThreads' \in Seq(Threads) /\ Distinct(mOldThreads')
      /\ freed' \in [requests : SUBSET Reqs, threads : SUBSET Threads]
      /\ freed'.requests = freed.requests
      /\ ToSet(mOldThreads') \subseteq ToSet(mOldThreads)
      /\ ToSet(mOldThreads') \cap freed'.threads = {}
      /\ ToSet(mOldThreads') \cup freed'.threads =
           ToSet(mOldThreads) \cup freed.threads
      /\ \A t \in freed'.threads : ~mRunning[t]
  <2>1. /\ mOldThreads \in Seq(Threads) /\ Distinct(mOldThreads)
        /\ ToSet(mOldThreads) \cap freed.threads = {}
        /\ \A t \in freed.threads : ~mRunning[t]
    BY DEF IInv, TypeOK, ThreadInv, Listed
  <2>2. CASE UNCHANGED <<mOldThreads, freed>>
    BY <2>1, <2>2 DEF IInv, TypeOK
  <2>3. CASE /\ mOldThreads # <<>> /\ ~mRunning[Head(mOldThreads)]
             /\ DeleteOldThread
    <3> DEFINE t == Head(mOldThreads)
    <3>1. /\ mOldThreads' = Tail(mOldThreads) /\ ~mRunning[t]
          /\ freed' = [freed EXCEPT !.threads = @ \cup {t}]
      BY <2>3 DEF DeleteOldThread
    <3>2. /\ mOldThreads' \in Seq(Threads) /\ t \in Threads
          /\ t \in ToSet(mOldThreads)
          /\ ToSet(mOldThreads') = ToSet(mOldThreads) \ {t}
          /\ Distinct(mOldThreads')
      BY <2>1, <2>3, <3>1, TailList
    <3> HIDE DEF t
    <3>3. /\ freed'.requests = freed.requests
          /\ freed'.threads = freed.threads \cup {t}
          /\ freed' \in [requests : SUBSET Reqs, threads : SUBSET Threads]
      BY <3>1, <3>2 DEF IInv, TypeOK
    <3> QED BY <2>1, <3>1, <3>2, <3>3
  <2> QED BY <1>3, <2>2, <2>3
<1>5. TypeOK'
  BY <1>1, <1>2, <1>4 DEF IInv, TypeOK, buildVars, requestVars, resultVars,
     workVars
<1>6. /\ Created' = Created
      /\ Listed' \cup freed'.threads = Listed \cup freed.threads
  BY <1>1, <1>4 DEF Created, Listed
<1>7. ThreadInv'
  <2>1. mThreads = <<>> /\ mRequests = <<>> /\ ToSet(mThreads) = {}
    BY <1>1 DEF IInv, ThreadInv, ToSet
  <2> QED BY <1>1, <1>4, <1>6, <2>1
      DEF IInv, ThreadInv, Listed, buildVars, requestVars
<1>8. CountInv' /\ ListInv'
  BY <1>1, <1>4, <1>6 DEF IInv, CountInv, ListInv, buildVars, requestVars
<1>9. HoldInv'
  BY <1>1, <1>4 DEF IInv, HoldInv, requestVars, workVars
<1>10. OutcomeInv' /\ ObjectInv'
  BY <1>1 DEF IInv, OutcomeInv, ObjectInv, HasObject, buildVars, requestVars,
     resultVars, workVars
<1> QED BY <1>5, <1>7, <1>8, <1>9, <1>10 DEF IInv

(* A build begins, and ends.                                                *)
LEMMA BuildBeginsAndEnds ==
  ASSUME IInv, StartCompile \/ ProcessErrors
  PROVE  IInv'
<1>1. /\ UNCHANGED <<requestVars, listVars, memoryVars, workVars, threadVars>>
      /\ mpc \in {"idle", "errors"} /\ mRequests = <<>>
      /\ Created' = Created /\ Listed' = Listed
  BY DEF StartCompile, ProcessErrors, IInv, ThreadInv, Created, Listed,
     listVars, threadVars
<1>2. CountInv' /\ HoldInv'
  BY <1>1 DEF IInv, CountInv, HoldInv, requestVars, listVars, memoryVars,
     workVars, threadVars
<1>3. ToSet(mRequests) = {} /\ ToSet(mPendingRequests) = {}
  BY <1>1 DEF IInv, ListInv, ToSet
<1>4. CASE StartCompile
  <2>1. /\ mpc = "idle" /\ mpc' = "compile" /\ build' = build + 1
        /\ written' = {} /\ build < MaxBuilds /\ mCanceling' = FALSE
        /\ mFailedRequests' = {} /\ mCodeGenFiles' = {}
        /\ mHadBuildError' = mHadBuildError
    BY <1>4 DEF StartCompile
  <2>2. build \in Nat /\ MaxBuilds \in Nat
    <3>1. MaxBuilds \in Nat
      BY CodeGenAssumption DEF MaxBuilds
    <3> QED BY <3>1 DEF IInv, TypeOK
  <2>3. TypeOK' /\ ThreadInv'
    <3>1. build' \in 0..MaxBuilds /\ build' > 0
      BY <2>1, <2>2
    <3>2. TypeOK'
      BY <1>1, <2>1, <3>1 DEF IInv, TypeOK, requestVars, listVars, memoryVars,
         workVars, threadVars
    <3>3. ThreadInv'
      BY <1>1, <2>1, <3>1 DEF IInv, ThreadInv, listVars, memoryVars, threadVars
    <3> QED BY <3>2, <3>3
  <2>4. \A r \in freed.requests : r[2] \in Nat /\ r[2] <= build
    BY DEF IInv, TypeOK, ListInv, Reqs
  <2>5. ListInv'
    BY <1>1, <1>3, <2>1, <2>2, <2>4 DEF IInv, ListInv, requestVars, memoryVars
  <2>6. OutcomeInv'
    BY <2>1 DEF OutcomeInv
  <2>7. ObjectInv'
    <3>1. \A t \in Threads : pc[t] \in {"store", "copy"} => req[t][2] <= build
                                                     /\ req[t][2] \in Nat
      BY <1>3, <2>4 DEF IInv, HoldInv, Holding
    <3> QED BY <1>1, <1>3, <2>1, <2>2, <3>1
        DEF IInv, ObjectInv, requestVars, workVars, threadVars
  <2> QED BY <1>2, <2>3, <2>5, <2>6, <2>7 DEF IInv
<1>5. CASE ProcessErrors
  <2>1. /\ mpc = "errors" /\ mpc' = "idle"
        /\ mHadBuildError' = mHadBuildError \cup mFailedRequests
        /\ mFailedRequests' = {}
        /\ UNCHANGED <<buildVars, mCodeGenFiles>>
    BY <1>5 DEF ProcessErrors
  <2>2. TypeOK' /\ ThreadInv' /\ ListInv'
    BY <1>1, <2>1 DEF IInv, TypeOK, ThreadInv, ListInv, buildVars, requestVars,
       listVars, memoryVars, workVars, threadVars
  <2>3. OutcomeInv'
    BY <1>3, <2>1 DEF IInv, OutcomeInv, buildVars
  <2>4. ObjectInv'
    BY <1>1, <2>1 DEF IInv, ObjectInv, HasObject, buildVars, requestVars,
       memoryVars, workVars, threadVars
  <2> QED BY <1>2, <2>2, <2>3, <2>4 DEF IInv
<1> QED BY <1>4, <1>5

(* The compiler starts without anything.                                    *)
LEMMA CodeGenInit ==
  ASSUME Init
  PROVE  IInv
<1>1. /\ <<>> \in Seq(Reqs) /\ <<>> \in Seq(Threads) /\ Len(<<>>) = 0
      /\ ToSet(<<>>) = {} /\ Distinct(<<>>)
  BY DEF ToSet, Distinct
<1>2. TypeOK
  <2>1. MaxBuilds \in Nat
    BY CodeGenAssumption DEF MaxBuilds
  <2>2. mRequests \in Seq(Reqs) /\ mPendingRequests \in Seq(Reqs)
    BY <1>1 DEF Init
  <2>3. mThreads \in Seq(Threads) /\ mOldThreads \in Seq(Threads)
    BY <1>1 DEF Init
  <2>4. /\ mpc = "idle" /\ build = 0 /\ 0 \in 0..MaxBuilds /\ mCanceling = FALSE
        /\ mRequestIdx = 0
    BY <2>1 DEF Init
  <2>5. /\ written \subseteq Modules
        /\ mFailedRequests \subseteq Modules /\ mCodeGenFiles \subseteq Modules
        /\ mHadBuildError \subseteq Modules /\ aborted \subseteq Reqs
    BY DEF Init
  <2>6. /\ mResult \in [Reqs -> Outcomes \cup {"NotDone", "Aborted"}]
        /\ freed \in [requests : SUBSET Reqs, threads : SUBSET Threads]
        /\ disk \in [Modules -> 0..MaxBuilds]
    BY <2>1 DEF Init
  <2>7. /\ pc \in [Threads -> {"none", "test", "take", "work", "store", "copy",
                               "signal", "ended"}]
        /\ req \in [Threads -> Reqs \cup {NoReq}]
        /\ result \in [Threads -> Outcomes \cup {"NotDone"}]
    BY DEF Init
  <2>8. /\ mRunning \in [Threads -> BOOLEAN]
        /\ mShuttingDown \in [Threads -> BOOLEAN]
    BY DEF Init
  <2> QED BY <2>2, <2>3, <2>4, <2>5, <2>6, <2>7, <2>8 DEF TypeOK
<1>3. Created = {} /\ Listed = {}
  BY <1>1 DEF Init, Created, Listed
<1>4. ThreadInv
  BY <1>1, <1>3 DEF Init, ThreadInv, Looping, Holding
<1>5. CountInv
  BY <1>1, <1>3, FS_EmptySet DEF Init, CountInv
<1>6. ListInv /\ OutcomeInv
  BY <1>1 DEF Init, ListInv, OutcomeInv
<1>7. HoldInv /\ ObjectInv
  BY <1>1 DEF Init, HoldInv, ObjectInv, Holding
<1> QED BY <1>2, <1>4, <1>5, <1>6, <1>7 DEF IInv

(* Every step keeps the invariant.                                          *)
LEMMA CodeGenStep ==
  ASSUME IInv, [Next]_vars
  PROVE  IInv'
<1>1. CASE StartCompile \/ ProcessErrors
  BY <1>1, BuildBeginsAndEnds
<1>2. CASE UpdateStats
  BY <1>2, HeadIsCompleted DEF UpdateStats, Building
<1>3. CASE FinishOne
  BY <1>3, HeadIsCompleted DEF FinishOne, Building
<1>4. CASE UpdateCompletion
  <2>1. CASE HeadIsDone
    BY <1>4, <2>1, HeadIsCompleted DEF UpdateCompletion, Building
  <2>2. CASE ~HeadIsDone
    <3>1. /\ mpc = "update" /\ mpc' = "loop"
          /\ UNCHANGED <<buildVars, requestVars, listVars, resultVars,
                         memoryVars, workVars, threadVars>>
      BY <1>4, <2>2
      DEF UpdateCompletion, requestVars, resultVars, memoryVars
    <3> QED BY <3>1 DEF IInv, TypeOK, ThreadInv, Created, Listed, CountInv,
           ListInv, HoldInv, OutcomeInv, ObjectInv, HasObject, buildVars,
           requestVars, listVars, resultVars, memoryVars, workVars, threadVars
  <2> QED BY <2>1, <2>2
<1>5. CASE \/ CompileDone \/ CompilerCancel \/ TestCancel \/ FinishNotDone
           \/ FinishWaits \/ FinishDone
  BY <1>5, CompilerMoves
<1>6. CASE FinishAborts
  BY <1>6, RequestIsAborted
<1>7. CASE FinishShutsDown
  BY <1>7, ThreadsAreSetAside
<1>8. CASE ClearOldThread \/ Destroy
  BY <1>8, ThreadsAreCleared
<1>9. ASSUME NEW m \in Modules, WriteObjectFile(m)
      PROVE  IInv'
  BY <1>9, RequestIsWritten
<1>10. ASSUME NEW t \in Threads, RunLoop(t)
       PROVE  IInv'
  BY <1>10, ThreadMoves, ThreadTakes, ThreadGenerates, ThreadStores,
     ThreadLetsGo DEF RunLoop
<1>11. CASE UNCHANGED vars
  BY <1>11 DEF IInv, TypeOK, ThreadInv, Created, Listed, CountInv, ListInv,
     HoldInv, OutcomeInv, ObjectInv, HasObject, vars, buildVars, requestVars,
     listVars, resultVars, memoryVars, workVars, threadVars
<1> QED BY <1>1, <1>2, <1>3, <1>4, <1>5, <1>6, <1>7, <1>8, <1>9, <1>10, <1>11
    DEF Next, Finishing

(***************************************************************************)
(* The theorems.                                                           *)
(***************************************************************************)

(* Requests, threads, outcomes and object files are related as IInv says,   *)
(* however the threads and the compiler's polling interleave.               *)
THEOREM RequestsAndThreads == Spec => []IInv
BY CodeGenInit, CodeGenStep, PTL DEF Spec

(* The compiler's thread deletes a request that a thread works on only      *)
(* while the result is being copied, or after Finish has aborted it under   *)
(* a thread that an earlier build left behind.                              *)
THEOREM RequestsAreDeletedLate == Spec => []RequestInUse
<1>1. IInv => RequestInUse
  <2>1. NoReq \notin Reqs
    BY CodeGenAssumption DEF Reqs, MaxBuilds
  <2> QED BY <2>1 DEF IInv, TypeOK, HoldInv, RequestInUse
<1> QED BY RequestsAndThreads, <1>1, PTL

(* ClearOldThreads and ~BfCodeGen delete no thread that has more to do than *)
(* its last signal.                                                         *)
THEOREM ThreadsAreDeletedLate == Spec => []ThreadInUse
<1>1. IInv => ThreadInUse
  <2> SUFFICES ASSUME IInv, NEW t \in Threads,
                      t \in freed.threads \/ mpc = "gone"
               PROVE  pc[t] \in {"none", "signal", "ended"}
    BY DEF ThreadInUse
  <2>1. CASE t \in freed.threads
    BY <2>1 DEF IInv, TypeOK, ThreadInv, Looping, Holding
  <2>2. CASE t \notin freed.threads /\ mpc = "gone"
    <3>1. Listed = {}
      BY <2>2 DEF IInv, ThreadInv, Listed, ToSet
    <3> QED BY <2>2, <3>1 DEF IInv, ThreadInv, Created
  <2> QED BY <2>1, <2>2
<1> QED BY RequestsAndThreads, <1>1, PTL

(* Every module that was written is in mCodeGenFiles or will be built       *)
(* again, whatever was canceled, failed or aborted.                         *)
THEOREM ModulesAreAccountedFor == Spec => []NoModuleIsLost
<1>1. IInv => NoModuleIsLost
  BY DEF IInv, OutcomeInv, NoModuleIsLost
<1> QED BY RequestsAndThreads, <1>1, PTL

(* The object file of a module that the build reports is this build's, or   *)
(* was overwritten by a left-behind thread for an aborted request.          *)
THEOREM ReportedObjectsAreCurrent == Spec => []ObjectIsCurrent
<1>1. IInv => ObjectIsCurrent
  BY DEF IInv, ObjectInv, HasObject, ObjectIsCurrent
<1> QED BY RequestsAndThreads, <1>1, PTL
==============================================================================
