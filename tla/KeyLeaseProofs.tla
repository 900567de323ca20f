--------------------------- MODULE KeyLeaseProofs ---------------------------
(***************************************************************************)
(* Proofs about KeyLease, for every number of sessions, requests, accounts *)
(* and leases.                                                             *)
(***************************************************************************)
EXTENDS KeyLease, FiniteSetTheorems, SequenceTheorems, TLAPS

\* Every task that is created is a task.
LEMMA NewTaskType ==
    ASSUME TypeOK, NEW k \in Keys, NEW rk \in RequestKey,
           NEW exclude \in Accounts \cup {NoAccount}, NEW excluded \in SUBSET Accounts,
           NEW who \in SUBSET Requests
    PROVE  /\ NewTask(k, rk, exclude, excluded, who) \in Task
           /\ NewTask(k, rk, exclude, excluded, who).post.rkey = rk
           /\ NewTask(k, rk, exclude, excluded, who).waiters = who
           /\ NewTask(k, rk, exclude, excluded, who).answer = NoLease
           /\ NewTask(k, rk, exclude, excluded, who).captured = leases[k].id
  <1>1. leases[k].id \in 0..MaxLease
    BY KeyLeaseAssumption DEF TypeOK, LeaseOrNone, Lease, NoLease
  <1> QED
    BY <1>1 DEF NewTask, Task, Post, LeaseOrNone

\* Joining or starting a task keeps tasks well-typed, one per request key, and adds
\* exactly the given waiters, none of whom waited before.
LEMMA JoinOrStartTasks ==
    ASSUME inFlight \in SUBSET Task, NEW task \in Task,
           \A t, u \in inFlight :
               t # u => t.post.rkey # u.post.rkey /\ t.waiters \cap u.waiters = {},
           \A t \in inFlight : t.waiters \cap task.waiters = {}
    PROVE  LET joined == JoinOrStart(task) IN
           /\ joined \in SUBSET Task
           /\ \A t, u \in joined :
                 t # u => t.post.rkey # u.post.rkey /\ t.waiters \cap u.waiters = {}
           /\ \A r \in Requests :
                 (\E t \in joined : r \in t.waiters)
                 <=> (r \in task.waiters \/ \E t \in inFlight : r \in t.waiters)
  <1>1. CASE \E t \in inFlight : t.post.rkey = task.post.rkey
    <2> DEFINE Joins(t) == IF t.post.rkey = task.post.rkey
                           THEN [t EXCEPT !.waiters = @ \cup task.waiters] ELSE t
    <2>1. JoinOrStart(task) = {Joins(t) : t \in inFlight}
      BY <1>1 DEF JoinOrStart
    <2>2. ASSUME NEW t \in inFlight
          PROVE  /\ Joins(t) \in Task
                 /\ Joins(t).post = t.post
                 /\ Joins(t).waiters = IF t.post.rkey = task.post.rkey
                                       THEN t.waiters \cup task.waiters ELSE t.waiters
      BY DEF Task
    <2>3. JoinOrStart(task) \in SUBSET Task
      BY <2>1, <2>2
    <2>4. ASSUME NEW t \in inFlight, NEW u \in inFlight, Joins(t) # Joins(u)
          PROVE  /\ Joins(t).post.rkey # Joins(u).post.rkey
                 /\ Joins(t).waiters \cap Joins(u).waiters = {}
      <3>1. t # u
        BY <2>4
      <3>2. t.post.rkey # u.post.rkey /\ t.waiters \cap u.waiters = {}
        BY <3>1
      <3> HIDE DEF Joins
      <3> QED BY <2>2, <3>2
    <2>5. PICK j \in inFlight : j.post.rkey = task.post.rkey
      BY <1>1
    <2> HIDE DEF Joins
    <2>6. ASSUME NEW r \in Requests
          PROVE  (\E t \in JoinOrStart(task) : r \in t.waiters)
                 <=> (r \in task.waiters \/ \E t \in inFlight : r \in t.waiters)
      <3>1. ASSUME NEW t \in inFlight, r \in Joins(t).waiters
            PROVE  r \in task.waiters \/ \E u \in inFlight : r \in u.waiters
        BY <3>1, <2>2
      <3>2. ASSUME r \in task.waiters PROVE r \in Joins(j).waiters
        BY <3>2, <2>2, <2>5
      <3>3. ASSUME NEW t \in inFlight, r \in t.waiters PROVE r \in Joins(t).waiters
        BY <3>3, <2>2
      <3> QED BY <2>1, <3>1, <3>2, <3>3
    <2> QED BY <2>1, <2>3, <2>4, <2>6
  <1>2. CASE ~ \E t \in inFlight : t.post.rkey = task.post.rkey
    <2>1. JoinOrStart(task) = inFlight \cup {task}
      BY <1>2 DEF JoinOrStart
    <2> QED BY <1>2, <2>1
  <1> QED BY <1>1, <1>2

\* A caller that leaves is the only change to the waiters.
LEMMA LeaveTasks ==
    ASSUME inFlight \in SUBSET Task, NEW r \in Requests,
           \A t, u \in inFlight :
               t # u => t.post.rkey # u.post.rkey /\ t.waiters \cap u.waiters = {}
    PROVE  /\ Leave(r) \in SUBSET Task
           /\ \A t, u \in Leave(r) :
                 t # u => t.post.rkey # u.post.rkey /\ t.waiters \cap u.waiters = {}
           /\ \A s \in Requests :
                 (\E t \in Leave(r) : s \in t.waiters)
                 <=> (s # r /\ \E t \in inFlight : s \in t.waiters)
  <1> DEFINE Left(t) == [t EXCEPT !.waiters = @ \ {r}]
  <1>1. Leave(r) = {Left(t) : t \in inFlight}
    BY DEF Leave
  <1>2. ASSUME NEW t \in inFlight
        PROVE  Left(t) \in Task /\ Left(t).post = t.post /\ Left(t).waiters = t.waiters \ {r}
    BY DEF Task
  <1>3. ASSUME NEW t \in inFlight, NEW u \in inFlight, Left(t) # Left(u)
        PROVE  /\ Left(t).post.rkey # Left(u).post.rkey
               /\ Left(t).waiters \cap Left(u).waiters = {}
    <2>1. t # u
      BY <1>3
    <2> HIDE DEF Left
    <2> QED BY <1>2, <2>1
  <1> HIDE DEF Left
  <1>4. ASSUME NEW s \in Requests
        PROVE  (\E t \in Leave(r) : s \in t.waiters)
               <=> (s # r /\ \E t \in inFlight : s \in t.waiters)
    BY <1>1, <1>2
  <1> QED BY <1>1, <1>2, <1>3, <1>4

-----------------------------------------------------------------------------
(***************************************************************************)
(* Type correctness and the bookkeeping of waiters hold each other up: a   *)
(* request that awaits is typed as waiting only because no second task     *)
(* still lists it.                                                         *)
(***************************************************************************)
Sound == TypeOK /\ NoStrandedWaiter

\* The request keys of a session's lease and renewal tasks (acquireInternal).
LEMMA KeyTypes ==
    ASSUME NEW k \in Keys
    PROVE  LeaseKey(k) \in RequestKey /\ RenewKey(k) \in RequestKey
  BY KeyLeaseAssumption DEF LeaseKey, RenewKey, RequestKey

\* What a cached lease and an issued lease consist of.
LEMMA LeaseFacts ==
    /\ NoLease \notin Lease
    /\ \A l \in LeaseOrNone : l.id \in 0..MaxLease /\ (l # NoLease => l \in Lease)
    /\ \A l \in Lease : l.id \in 1..MaxLease /\ l.account \in Accounts
  BY KeyLeaseAssumption DEF NoLease, Lease, LeaseOrNone

\* The manager's initial state is sound.
LEMMA SoundInit == Init => Sound
  <1> SUFFICES ASSUME Init PROVE Sound
    OBVIOUS
  <1>1. TypeOK
    BY KeyLeaseAssumption DEF Init, TypeOK, LeaseOrNone, PC
  <1>2. NoStrandedWaiter
    BY DEF Init, NoStrandedWaiter
  <1> QED BY <1>1, <1>2 DEF Sound

\* resolve(): a caller that starts waiting is listed by the task it joins or starts.
LEMMA SoundResolve ==
    ASSUME Sound, NEW r \in Requests, ResolveCached(r) \/ ResolveUncached(r)
    PROVE  Sound'
  <1> DEFINE k == KeyOf[r]
  <1> USE DEF Sound
  <1>0. k \in Keys /\ LeaseKey(k) \in RequestKey /\ RenewKey(k) \in RequestKey
    BY KeyLeaseAssumption, KeyTypes
  <1>1. CASE ResolveCached(r)
    <2>1. held'[r] \in Lease
      BY <1>0, <1>1, LeaseFacts DEF TypeOK, ResolveCached
    <2>2. /\ inFlight' \in SUBSET Task
          /\ renewalAfter' \subseteq Keys
          /\ \A t, u \in inFlight' :
                 t # u => t.post.rkey # u.post.rkey /\ t.waiters \cap u.waiters = {}
          /\ \A s \in Requests : (\E t \in inFlight' : s \in t.waiters)
                                 <=> (\E t \in inFlight : s \in t.waiters)
      <3>1. CASE UNCHANGED <<renewalAfter, inFlight>>
        BY <3>1 DEF TypeOK, NoStrandedWaiter
      <3>2. CASE /\ renewalAfter' = renewalAfter \cup {k}
                 /\ inFlight' = JoinOrStart(NewTask(k, RenewKey(k), NoAccount, {}, {}))
        <4> DEFINE task == NewTask(k, RenewKey(k), NoAccount, {}, {})
        <4>1. task \in Task /\ task.waiters = {}
          BY <1>0, NewTaskType
        <4>2. inFlight' = JoinOrStart(task) /\ inFlight \in SUBSET Task
          BY <3>2 DEF TypeOK
        <4> HIDE DEF task
        <4>3. renewalAfter' \subseteq Keys
          BY <1>0, <3>2 DEF TypeOK
        <4> QED BY <4>1, <4>2, <4>3, JoinOrStartTasks DEF NoStrandedWaiter
      <3> QED BY <1>1, <3>1, <3>2 DEF ResolveCached
    <2>3. TypeOK'
      BY <1>1, <2>1, <2>2, LeaseFacts
         DEF TypeOK, ResolveCached, PC, LeaseOrNone, routerVars, historyVars
    <2>4. NoStrandedWaiter'
      BY <1>1, <2>2 DEF NoStrandedWaiter, ResolveCached, TypeOK
    <2> QED BY <2>3, <2>4
  <1>2. CASE ResolveUncached(r)
    <2> DEFINE task == NewTask(k, LeaseKey(k), NoAccount, {}, {r})
    <2>1. task \in Task /\ task.waiters = {r}
      BY <1>0, NewTaskType
    <2>2. inFlight' = JoinOrStart(task) /\ pc[r] = "idle"
      BY <1>2 DEF ResolveUncached
    <2>3. \A t \in inFlight : r \notin t.waiters
      BY <2>2 DEF NoStrandedWaiter
    <2> HIDE DEF task
    <2>4. inFlight \in SUBSET Task
      BY DEF TypeOK
    <2>5. /\ inFlight' \in SUBSET Task
          /\ \A t, u \in inFlight' :
                 t # u => t.post.rkey # u.post.rkey /\ t.waiters \cap u.waiters = {}
          /\ \A s \in Requests : (\E t \in inFlight' : s \in t.waiters)
                                 <=> (s = r \/ \E t \in inFlight : s \in t.waiters)
      BY <2>1, <2>2, <2>3, <2>4, JoinOrStartTasks DEF NoStrandedWaiter
    <2>6. TypeOK'
      BY <1>2, <2>5 DEF TypeOK, ResolveUncached, PC, routerVars, historyVars
    <2>7. pc' = [pc EXCEPT ![r] = "leasing"] /\ pc \in [Requests -> PC]
      BY <1>2 DEF ResolveUncached, TypeOK
    <2>8. NoStrandedWaiter'
      BY <2>5, <2>7 DEF NoStrandedWaiter
    <2> QED BY <2>6, <2>8
  <1> QED BY <1>1, <1>2

\* Steps of one request that leave the tasks alone.
LEMMA SoundCall ==
    ASSUME Sound, NEW r \in Requests,
           BeginCall(r) \/ Response(r) \/ Resume(r) \/ Finish(r)
    PROVE  Sound'
  <1> USE DEF Sound
  <1>1. CASE BeginCall(r)
    <2>1. CurrentLease(r) \in Lease
      BY <1>1, KeyLeaseAssumption, LeaseFacts DEF BeginCall, CurrentLease, TypeOK
    <2>2. calls[r] + 1 \in 0..MaxCalls
      BY <1>1, KeyLeaseAssumption DEF BeginCall, TypeOK
    <2>3. TypeOK'
      BY <1>1, <2>1, <2>2 DEF TypeOK, BeginCall, PC, LeaseOrNone, routerVars, historyVars
    <2>4. NoStrandedWaiter'
      BY <1>1 DEF NoStrandedWaiter, BeginCall, TypeOK
    <2> QED BY <2>3, <2>4
  <1>2. CASE Response(r)
    <2>1. held[r].id \in 0..MaxLease
      BY LeaseFacts DEF TypeOK
    <2>2. TypeOK'
      BY <1>2, <2>1 DEF TypeOK, Response, EndCall, PC, routerVars
    <2>3. NoStrandedWaiter'
      BY <1>2 DEF NoStrandedWaiter, Response, EndCall, TypeOK
    <2> QED BY <2>2, <2>3
  <1>3. CASE Resume(r)
    <2>1. granted[r] \in Lease
      BY <1>3 DEF Resume, TypeOK
    <2>2. TypeOK'
      BY <1>3, <2>1 DEF TypeOK, Resume, EndCall, PC, LeaseOrNone, routerVars, historyVars
    <2>3. NoStrandedWaiter'
      BY <1>3 DEF NoStrandedWaiter, Resume, EndCall, TypeOK
    <2> QED BY <2>2, <2>3
  <1>4. CASE Finish(r)
    <2>1. held[r].id \in 0..MaxLease
      BY LeaseFacts DEF TypeOK
    <2>2. reports' \subseteq [req : Requests, lease : 0..MaxLease,
                              status : {"completed", "failed"}]
      BY <1>4, <2>1 DEF TypeOK, Finish, UsageReport
    <2>3. TypeOK'
      BY <1>4, <2>2 DEF TypeOK, Finish, PC, LeaseOrNone, routerVars
    <2>4. NoStrandedWaiter'
      BY <1>4 DEF NoStrandedWaiter, Finish, TypeOK
    <2> QED BY <2>3, <2>4
  <1> QED BY <1>1, <1>2, <1>3, <1>4

\* A rejection starts waiting only in its third case, and then for a rotation.
LEMMA SoundRejected ==
    ASSUME Sound, NEW r \in Requests, Rejected(r)
    PROVE  Sound'
  <1> USE DEF Sound
  <1> DEFINE k == KeyOf[r]
             tried == attempted[r] \cup {held[r].account}
  <1>1. /\ k \in Keys /\ held[r] \in Lease /\ pc[r] = "sending" /\ inFlight \in SUBSET Task
        /\ held[r].id \in 1..MaxLease /\ held[r].account \in Accounts
        /\ tried \in SUBSET Accounts
    BY KeyLeaseAssumption, LeaseFacts DEF Rejected, TypeOK
  <1>2. /\ failed' \subseteq 1..MaxLease
        /\ rejectedBy' \in [Requests -> SUBSET Accounts]
        /\ UNCHANGED <<leases, order, renewalAfter, held, calls, reports, routerVars, served>>
    BY <1>1 DEF Rejected, TypeOK
  <1>3. CASE EndCall(r, "rejection") /\ UNCHANGED <<inFlight, granted>>
    <2>1. TypeOK'
      BY <1>1, <1>2, <1>3 DEF TypeOK, EndCall, PC, routerVars
    <2>2. NoStrandedWaiter'
      BY <1>1, <1>3 DEF NoStrandedWaiter, EndCall, TypeOK
    <2> QED BY <2>1, <2>2
  <1>4. CASE /\ AlreadyReplaced(r)
             /\ attempted' = [attempted EXCEPT ![r] = tried]
             /\ granted' = [granted EXCEPT ![r] = leases[k]]
             /\ pc' = [pc EXCEPT ![r] = "granted"]
             /\ UNCHANGED <<inFlight, outcome>>
    <2>1. leases[k] \in Lease
      BY <1>1, <1>4, LeaseFacts DEF AlreadyReplaced, TypeOK
    <2>2. TypeOK'
      BY <1>1, <1>2, <1>4, <2>1 DEF TypeOK, PC, LeaseOrNone, routerVars
    <2>3. NoStrandedWaiter'
      BY <1>1, <1>4 DEF NoStrandedWaiter, TypeOK
    <2> QED BY <2>2, <2>3
  <1>5. ASSUME NEW reset \in Resets,
               attempted' = [attempted EXCEPT ![r] = tried],
               inFlight' = JoinOrStart(
                   NewTask(k, RotateKey(k, held[r], reset), held[r].account, tried, {r})),
               pc' = [pc EXCEPT ![r] = "rotating"],
               UNCHANGED <<granted, outcome>>
        PROVE  Sound'
    <2> DEFINE task == NewTask(k, RotateKey(k, held[r], reset), held[r].account, tried, {r})
    <2>1. RotateKey(k, held[r], reset) \in RequestKey
      BY <1>1 DEF RotateKey, RequestKey
    <2>2. task \in Task /\ task.waiters = {r}
      BY <1>1, <2>1, NewTaskType
    <2>3. \A t \in inFlight : r \notin t.waiters
      BY <1>1 DEF NoStrandedWaiter
    <2>4. inFlight' = JoinOrStart(task)
      BY <1>5
    <2> HIDE DEF task
    <2>5. /\ inFlight' \in SUBSET Task
          /\ \A t, u \in inFlight' :
                 t # u => t.post.rkey # u.post.rkey /\ t.waiters \cap u.waiters = {}
          /\ \A s \in Requests : (\E t \in inFlight' : s \in t.waiters)
                                 <=> (s = r \/ \E t \in inFlight : s \in t.waiters)
      BY <1>1, <2>2, <2>3, <2>4, JoinOrStartTasks DEF NoStrandedWaiter
    <2>6. TypeOK'
      BY <1>1, <1>2, <1>5, <2>5 DEF TypeOK, PC, routerVars
    <2>7. pc' = [pc EXCEPT ![r] = "rotating"] /\ pc \in [Requests -> PC]
      BY <1>5 DEF TypeOK
    <2>8. NoStrandedWaiter'
      BY <2>5, <2>7 DEF NoStrandedWaiter
    <2> QED BY <2>6, <2>8
  <1> QED BY <1>3, <1>4, <1>5 DEF Rejected

\* An abort takes the caller off its task's list.
LEMMA SoundAbort ==
    ASSUME Sound, NEW r \in Requests, AbortResolve(r) \/ AbortCall(r)
    PROVE  Sound'
  <1> USE DEF Sound
  <1>1. /\ inFlight' \in SUBSET Task
        /\ \A t, u \in inFlight' :
               t # u => t.post.rkey # u.post.rkey /\ t.waiters \cap u.waiters = {}
        /\ \A s \in Requests : (\E t \in inFlight' : s \in t.waiters)
                               <=> (s # r /\ \E t \in inFlight : s \in t.waiters)
    <2>1. inFlight' = Leave(r) /\ inFlight \in SUBSET Task
      BY DEF AbortResolve, AbortCall, TypeOK
    <2> QED BY <2>1, LeaveTasks DEF NoStrandedWaiter
  <1>2. /\ pc \in [Requests -> PC]
        /\ pc' = [pc EXCEPT ![r] = "ended"] \/ pc' = [pc EXCEPT ![r] = "ready"]
    BY DEF AbortResolve, AbortCall, EndCall, TypeOK
  <1>3. NoStrandedWaiter'
    BY <1>1, <1>2 DEF NoStrandedWaiter
  <1>4. CASE AbortResolve(r)
    <2>1. TypeOK'
      BY <1>1, <1>4 DEF TypeOK, AbortResolve, PC, routerVars, historyVars
    <2> QED BY <1>3, <2>1
  <1>5. CASE AbortCall(r)
    <2>1. held' \in [Requests -> LeaseOrNone] /\ held'[r] \in Lease
          /\ \A s \in Requests : s # r => held'[s] = held[s]
      BY <1>5 DEF TypeOK, AbortCall, LeaseOrNone
    <2>2. granted' = [granted EXCEPT ![r] = NoLease]
      BY <1>5 DEF AbortCall
    <2>3. TypeOK'
      BY <1>1, <1>5, <2>1, <2>2
         DEF TypeOK, AbortCall, EndCall, PC, LeaseOrNone, routerVars, historyVars
    <2> QED BY <1>3, <2>3
  <1> QED BY <1>4, <1>5

\* The router's answers are leases it can issue.
LEMMA HandlesType ==
    ASSUME TypeOK, NEW post \in Post, NEW lease \in Lease, Handles(post, lease)
    PROVE  active' \in [Keys -> LeaseOrNone] /\ issued' \in 0..MaxLease
  <1>1. post.rkey.key \in Keys
    BY DEF Post, RequestKey
  <1>2. CASE UNCHANGED <<active, issued>>
    BY <1>2 DEF TypeOK
  <1>3. CASE /\ issued < MaxLease
             /\ issued' = issued + 1
             /\ active' = [active EXCEPT ![post.rkey.key] = lease]
    <2>1. issued' \in 0..MaxLease
      BY <1>3, KeyLeaseAssumption DEF TypeOK
    <2>2. active' \in [Keys -> LeaseOrNone]
      BY <1>1, <1>3 DEF TypeOK, LeaseOrNone
    <2> QED BY <2>1, <2>2
  <1> QED BY <1>2, <1>3 DEF Handles

\* The router's steps change a task's answer, never its waiters.
LEMMA SoundRouter ==
    ASSUME Sound, (\E t \in inFlight : Serve(t)) \/ (\E post \in orphans : ServeOrphan(post))
    PROVE  Sound'
  <1> USE DEF Sound
  <1>1. ASSUME NEW t \in inFlight, Serve(t) PROVE Sound'
    <2>1. PICK lease \in Lease :
             Handles(t.post, lease)
             /\ inFlight' = (inFlight \ {t}) \cup {[t EXCEPT !.answer = lease]}
      BY <1>1 DEF Serve
    <2> DEFINE served_t == [t EXCEPT !.answer = lease]
    <2>2. /\ served_t \in Task /\ served_t.waiters = t.waiters
          /\ served_t.post = t.post /\ t.post \in Post /\ inFlight \in SUBSET Task
      BY DEF TypeOK, Task, LeaseOrNone
    <2>3. inFlight' = (inFlight \ {t}) \cup {served_t}
      BY <2>1
    <2> HIDE DEF served_t
    <2>4. active' \in [Keys -> LeaseOrNone] /\ issued' \in 0..MaxLease
      BY <2>1, <2>2, HandlesType
    <2>5. UNCHANGED <<leases, order, renewalAfter, requestVars, orphans, historyVars>>
      BY <1>1 DEF Serve
    <2>6. TypeOK'
      BY <2>2, <2>3, <2>4, <2>5 DEF TypeOK, requestVars, historyVars
    <2>7. pc' = pc
      BY <2>5 DEF requestVars
    <2>8. NoStrandedWaiter'
      BY <2>2, <2>3, <2>7 DEF NoStrandedWaiter
    <2> QED BY <2>6, <2>8
  <1>2. ASSUME NEW post \in orphans, ServeOrphan(post) PROVE Sound'
    <2>1. active' \in [Keys -> LeaseOrNone] /\ issued' \in 0..MaxLease
      BY <1>2, HandlesType DEF ServeOrphan, TypeOK
    <2>2. TypeOK'
      BY <1>2, <2>1 DEF TypeOK, ServeOrphan, requestVars, historyVars
    <2>3. NoStrandedWaiter'
      BY <1>2 DEF NoStrandedWaiter, ServeOrphan, requestVars
    <2> QED BY <2>2, <2>3
  <1> QED BY <1>1, <1>2

\* What a task hands its waiters is a lease, and storing it keeps the cache typed.
LEMMA AnswerTypes ==
    ASSUME TypeOK, NEW t \in inFlight, t.answer # NoLease
    PROVE  /\ t.post.rkey.key \in Keys
           /\ t.answer \in Lease
           /\ ResultOf(t) \in Lease
           /\ Store(t.post.rkey.key, t.answer) \in [Keys -> LeaseOrNone]
           /\ OrderAfter(t.post.rkey.key) \in Seq(Keys)
           /\ RenewalAfterStore(t.post.rkey.key) \subseteq Keys
  <1> DEFINE k == t.post.rkey.key
  <1>1. t \in Task /\ k \in Keys /\ t.answer \in LeaseOrNone
    BY DEF TypeOK, Task, Post, RequestKey
  <1>2. t.answer \in Lease
    BY <1>1, LeaseFacts
  <1>3. ResultOf(t) \in Lease
    BY <1>1, <1>2, LeaseFacts DEF ResultOf, Overtaken, TypeOK
  <1>4. Store(k, t.answer) \in [Keys -> LeaseOrNone]
    BY <1>1 DEF Store, TypeOK, LeaseOrNone
  <1>5. EvictsFor(k) => order # <<>>
    BY KeyLeaseAssumption DEF EvictsFor, TypeOK
  <1>6. OrderAfter(k) \in Seq(Keys)
    BY <1>1, <1>5 DEF OrderAfter, TypeOK
  <1>7. RenewalAfterStore(k) \subseteq Keys
    BY DEF RenewalAfterStore, TypeOK
  <1> QED BY <1>1, <1>2, <1>3, <1>4, <1>6, <1>7

\* A task that ends takes exactly its own waiters out of waiting.
LEMMA SoundTaskEnds ==
    ASSUME Sound, NEW t \in inFlight, TaskAnswered(t) \/ TaskFails(t)
    PROVE  Sound'
  <1> USE DEF Sound
  <1>1. /\ inFlight' = inFlight \ {t} /\ inFlight \in SUBSET Task
        /\ \A r \in Requests : r \in t.waiters => pc[r] \in {"leasing", "rotating"}
    BY DEF TaskAnswered, TaskFails, TypeOK, NoStrandedWaiter
  <1>2. ASSUME NEW r \in Requests
        PROVE  (\E u \in inFlight' : r \in u.waiters)
               <=> (r \notin t.waiters /\ \E u \in inFlight : r \in u.waiters)
    BY <1>1 DEF NoStrandedWaiter
  <1>4. CASE TaskAnswered(t)
    <2> DEFINE k == t.post.rkey.key
               result == ResultOf(t)
    <2>1. /\ k \in Keys /\ result \in Lease
          /\ Store(k, t.answer) \in [Keys -> LeaseOrNone]
          /\ OrderAfter(k) \in Seq(Keys)
          /\ RenewalAfterStore(k) \subseteq Keys
      BY <1>4, AnswerTypes DEF TaskAnswered
    <2>2. /\ leases' \in [Keys -> LeaseOrNone] /\ order' \in Seq(Keys)
          /\ renewalAfter' \subseteq Keys
      BY <1>4, <2>1 DEF TaskAnswered, TypeOK
    <2>3. /\ held' = [r \in Requests |->
                         IF r \in t.waiters /\ pc[r] = "leasing" THEN result ELSE held[r]]
          /\ granted' = [r \in Requests |->
                         IF r \in t.waiters /\ pc[r] = "rotating" THEN result ELSE granted[r]]
          /\ pc' = [r \in Requests |->
                      IF r \in t.waiters /\ pc[r] = "leasing" THEN "ready"
                      ELSE IF r \in t.waiters /\ pc[r] = "rotating" THEN "granted" ELSE pc[r]]
          /\ UNCHANGED <<attempted, calls, outcome, reports, routerVars, historyVars>>
      BY <1>4 DEF TaskAnswered
    <2> HIDE DEF result
    <2>4. TypeOK'
      BY <1>1, <2>1, <2>2, <2>3 DEF TypeOK, PC, LeaseOrNone, routerVars, historyVars
    <2>5. NoStrandedWaiter'
      BY <1>1, <1>2, <2>3 DEF NoStrandedWaiter
    <2> QED BY <2>4, <2>5
  <1>5. CASE TaskFails(t)
    <2>1. orphans' \subseteq Post
      BY <1>1, <1>5 DEF TaskFails, TypeOK, Task
    <2>2. pc' = [r \in Requests |-> IF r \notin t.waiters THEN pc[r]
                                   ELSE IF pc[r] = "leasing" THEN "ended" ELSE "ready"]
      BY <1>5 DEF TaskFails
    <2>3. TypeOK'
      BY <1>1, <1>5, <2>1, <2>2 DEF TypeOK, TaskFails, PC, historyVars
    <2>4. NoStrandedWaiter'
      BY <1>1, <1>2, <2>2 DEF NoStrandedWaiter
    <2> QED BY <2>3, <2>4
  <1> QED BY <1>4, <1>5

\* Soundness reads nothing but the variables.
LEMMA SoundStutter == Sound /\ UNCHANGED vars => Sound'
  BY DEF Sound, TypeOK, NoStrandedWaiter, vars, requestVars, routerVars, historyVars

\* Soundness is inductive: one case per group of actions.
LEMMA SoundNext == Sound /\ [Next]_vars => Sound'
  <1> SUFFICES ASSUME Sound, [Next]_vars PROVE Sound'
    OBVIOUS
  <1>1. CASE UNCHANGED vars
    BY <1>1, SoundStutter
  <1>2. ASSUME NEW r \in Requests, ResolveCached(r) \/ ResolveUncached(r) PROVE Sound'
    BY <1>2, SoundResolve
  <1>3. ASSUME NEW r \in Requests,
               BeginCall(r) \/ Response(r) \/ Resume(r) \/ Finish(r)
        PROVE  Sound'
    BY <1>3, SoundCall
  <1>4. ASSUME NEW r \in Requests, Rejected(r) PROVE Sound'
    BY <1>4, SoundRejected
  <1>5. ASSUME NEW r \in Requests, AbortResolve(r) \/ AbortCall(r) PROVE Sound'
    BY <1>5, SoundAbort
  <1>6. ASSUME NEW k \in Keys, RenewalDue(k) PROVE Sound'
    BY <1>6 DEF RenewalDue, Sound, TypeOK, NoStrandedWaiter, requestVars, routerVars,
                historyVars
  <1>7. ASSUME NEW t \in inFlight, TaskAnswered(t) \/ TaskFails(t) PROVE Sound'
    BY <1>7, SoundTaskEnds
  <1>8. CASE (\E t \in inFlight : Serve(t)) \/ (\E post \in orphans : ServeOrphan(post))
    BY <1>8, SoundRouter
  <1>9. CASE Idle
    BY <1>9, SoundStutter DEF Idle
  <1> QED
    BY <1>1, <1>2, <1>3, <1>4, <1>5, <1>6, <1>7, <1>8, <1>9 DEF Next

\* Type correctness (TypeOK): every request past resolve() holds a real lease, and
\* every record of the manager has its shape, in every reachable state.
THEOREM TypeCorrect == Spec => []TypeOK
  <1>1. Sound => TypeOK
    BY DEF Sound
  <1> QED BY SoundInit, SoundNext, <1>1, PTL DEF Spec

\* NoStrandedWaiter: awaitLease lets a caller leave a shared task without taking it
\* from the others, so a waiting request is listed by exactly one task.
THEOREM WaitersServed == Spec => []NoStrandedWaiter
  <1>1. Sound => NoStrandedWaiter
    BY DEF Sound
  <1> QED BY SoundInit, SoundNext, <1>1, PTL DEF Spec

-----------------------------------------------------------------------------
(***************************************************************************)
(* With a router that compares the expected lease, the leases of a session *)
(* form a chain: each is older than the active one only because Command    *)
(* Code rejected it.  Everything the client knows of the session (the      *)
(* cache, the lease a task captured, an answer on the wire) is on it.      *)
(***************************************************************************)
OnChain(k, n) ==
    \/ n = 0
    \/ n = active[k].id
    \/ n < active[k].id /\ n \in failed

PostJustified(post) == post.rkey.kind = "rotate" => post.rkey.expected \in failed

TaskOnChain(t) ==
    /\ OnChain(t.post.rkey.key, t.captured)
    /\ PostJustified(t.post)
    /\ t.answer # NoLease => /\ OnChain(t.post.rkey.key, t.answer.id)
                             /\ t.captured <= t.answer.id

Chained ==
    /\ \A k \in Keys : active[k].id <= issued /\ OnChain(k, leases[k].id)
    /\ \A t \in inFlight : TaskOnChain(t)
    /\ \A post \in orphans : PostJustified(post)

\* Nothing is leased initially.
LEMMA ChainedInit == Init => Chained
  BY DEF Init, Chained, OnChain, NoLease

\* Waiters come and go without touching what a task asked for or was told.
SameTask(t, u) == t.post = u.post /\ t.captured = u.captured /\ t.answer = u.answer

\* A task after JoinOrStart is an old one or the new one, up to its waiters.
LEMMA JoinOrStartShape ==
    ASSUME inFlight \in SUBSET Task, NEW task \in Task, NEW u \in JoinOrStart(task)
    PROVE  u = task \/ \E t \in inFlight : SameTask(t, u)
  <1>1. ASSUME NEW t \in inFlight
        PROVE  SameTask(t, [t EXCEPT !.waiters = @ \cup task.waiters]) /\ SameTask(t, t)
    BY DEF Task, SameTask
  <1> QED BY <1>1 DEF JoinOrStart

\* A task after an abort is an old one, up to its waiters.
LEMMA LeaveShape ==
    ASSUME inFlight \in SUBSET Task, NEW r, NEW u \in Leave(r)
    PROVE  \E t \in inFlight : SameTask(t, u)
  BY DEF Task, SameTask, Leave

\* The chain only grows where nothing but rejections and waiters change.
LEMMA ChainedFrame ==
    ASSUME Chained, UNCHANGED <<active, issued, leases, orphans>>, failed \subseteq failed',
           \A u \in inFlight' : (\E t \in inFlight : SameTask(t, u)) \/ TaskOnChain(u)'
    PROVE  Chained'
  <1>1. \A k \in Keys : active[k].id <= issued /\ OnChain(k, leases[k].id)'
    BY DEF Chained, OnChain
  <1>2. ASSUME NEW u \in inFlight', NEW t \in inFlight, SameTask(t, u)
        PROVE  TaskOnChain(u)'
    <2>1. TaskOnChain(t)
      BY DEF Chained
    <2>2. t.post = u.post /\ t.captured = u.captured /\ t.answer = u.answer
      BY <1>2 DEF SameTask
    <2> QED BY <2>1, <2>2 DEF TaskOnChain, OnChain, PostJustified
  <1>3. \A post \in orphans : PostJustified(post)'
    BY DEF Chained, PostJustified
  <1> QED BY <1>1, <1>2, <1>3 DEF Chained

\* A task that is created captures the cached lease and rotates a rejected one.
LEMMA NewTaskOnChain ==
    ASSUME Chained, NEW task \in Task, task.answer = NoLease,
           task.captured = leases[task.post.rkey.key].id,
           UNCHANGED <<active, leases>>, failed \subseteq failed',
           task.post.rkey.kind = "rotate" => task.post.rkey.expected \in failed'
    PROVE  TaskOnChain(task)'
  <1>1. OnChain(task.post.rkey.key, task.captured)
    BY DEF Chained, Task, Post, RequestKey
  <1>2. OnChain(task.post.rkey.key, task.captured)'
    BY <1>1 DEF OnChain
  <1> QED BY <1>2 DEF TaskOnChain, PostJustified

\* A request's steps start tasks on the chain and only add rejections.
LEMMA ChainedRequest ==
    ASSUME Sound, Chained, NEW r \in Requests,
           \/ ResolveCached(r) \/ ResolveUncached(r)
           \/ BeginCall(r) \/ Response(r) \/ Rejected(r) \/ Resume(r)
           \/ AbortResolve(r) \/ AbortCall(r) \/ Finish(r)
    PROVE  Chained'
  <1> DEFINE k == KeyOf[r]
  <1>0. /\ TypeOK /\ k \in Keys /\ inFlight \in SUBSET Task
        /\ LeaseKey(k) \in RequestKey /\ RenewKey(k) \in RequestKey
    BY KeyLeaseAssumption, KeyTypes DEF Sound, TypeOK
  <1>1. UNCHANGED <<active, issued, leases, orphans>> /\ failed \subseteq failed'
    BY DEF ResolveCached, ResolveUncached, BeginCall, Response, Rejected, Resume,
           AbortResolve, AbortCall, Finish, routerVars, historyVars
  <1>2. ASSUME NEW rk \in RequestKey, rk.key = k, rk.kind = "rotate" => rk.expected \in failed',
               NEW exclude \in Accounts \cup {NoAccount}, NEW excluded \in SUBSET Accounts,
               NEW who \in SUBSET Requests,
               inFlight' = JoinOrStart(NewTask(k, rk, exclude, excluded, who))
        PROVE  Chained'
    <2> HIDE DEF k
    <2>0. /\ NewTask(k, rk, exclude, excluded, who) \in Task
          /\ NewTask(k, rk, exclude, excluded, who).post.rkey = rk
          /\ NewTask(k, rk, exclude, excluded, who).answer = NoLease
          /\ NewTask(k, rk, exclude, excluded, who).captured = leases[k].id
      BY <1>0, NewTaskType
    <2>1. PICK task \in Task : task = NewTask(k, rk, exclude, excluded, who)
      BY <2>0
    <2>2. /\ task.post.rkey = rk /\ task.answer = NoLease /\ task.captured = leases[k].id
      BY <2>0, <2>1
    <2>3. TaskOnChain(task)'
      BY <1>1, <1>2, <2>2, NewTaskOnChain
    <2>4. inFlight' = JoinOrStart(task)
      BY <1>2, <2>1
    <2> QED BY <1>0, <1>1, <2>3, <2>4, JoinOrStartShape, ChainedFrame
  <1>3. CASE UNCHANGED inFlight
    BY <1>1, <1>3, ChainedFrame DEF SameTask
  <1>4. CASE inFlight' = Leave(r)
    BY <1>0, <1>1, <1>4, LeaveShape, ChainedFrame
  <1>5. CASE inFlight' = JoinOrStart(NewTask(k, RenewKey(k), NoAccount, {}, {}))
    <2>1. RenewKey(k).key = k /\ RenewKey(k).kind # "rotate"
      BY DEF RenewKey, LeaseKey
    <2> QED BY <1>0, <1>2, <1>5, <2>1
  <1>6. CASE inFlight' = JoinOrStart(NewTask(k, LeaseKey(k), NoAccount, {}, {r}))
    <2>1. LeaseKey(k).key = k /\ LeaseKey(k).kind # "rotate"
      BY DEF LeaseKey
    <2> QED BY <1>0, <1>2, <1>6, <2>1
  <1>7. CASE Rejected(r)
    <2> DEFINE tried == attempted[r] \cup {held[r].account}
    <2>1. held[r] \in Lease /\ attempted[r] \in SUBSET Accounts
      BY <1>0, <1>7 DEF Rejected, TypeOK
    <2>2. held[r].id \in failed' /\ held[r].account \in Accounts /\ tried \in SUBSET Accounts
      BY <1>7, <2>1, LeaseFacts DEF Rejected
    <2>3. ASSUME NEW reset \in Resets,
                 inFlight' = JoinOrStart(
                     NewTask(k, RotateKey(k, held[r], reset), held[r].account, tried, {r}))
          PROVE  Chained'
      <3>1. /\ RotateKey(k, held[r], reset) \in RequestKey
            /\ RotateKey(k, held[r], reset).key = k
            /\ RotateKey(k, held[r], reset).expected = held[r].id
        BY <1>0, <2>1, LeaseFacts DEF RotateKey, RequestKey
      <3> HIDE DEF tried
      <3> QED BY <1>2, <2>2, <2>3, <3>1
    <2> QED BY <1>3, <1>7, <2>3 DEF Rejected
  <1>8. \/ UNCHANGED inFlight
        \/ inFlight' = Leave(r)
        \/ inFlight' = JoinOrStart(NewTask(k, RenewKey(k), NoAccount, {}, {}))
        \/ inFlight' = JoinOrStart(NewTask(k, LeaseKey(k), NoAccount, {}, {r}))
        \/ Rejected(r)
    BY DEF ResolveCached, ResolveUncached, BeginCall, Response, Resume, AbortResolve,
           AbortCall, Finish
  <1> QED BY <1>3, <1>4, <1>5, <1>6, <1>7, <1>8

\* The router's step: a new active lease is issued only over none or over a rejected
\* one, so whatever was on the chain stays on it.
LEMMA HandlesOnChain ==
    ASSUME RouterChecksLease, TypeOK, Chained, NEW post \in Post, PostJustified(post),
           NEW lease \in Lease, Handles(post, lease), failed' = failed
    PROVE  LET k == post.rkey.key IN
           /\ \A j \in Keys, n \in Nat : OnChain(j, n) => OnChain(j, n)'
           /\ \A j \in Keys : (active[j].id <= issued)'
           /\ \A n \in Nat : OnChain(k, n) => n <= lease.id
           /\ OnChain(k, lease.id)'
  <1> DEFINE k == post.rkey.key
  <1>1. /\ k \in Keys /\ lease.id \in 1..MaxLease /\ issued \in Nat /\ failed \subseteq 1..MaxLease
        /\ active \in [Keys -> LeaseOrNone] /\ MaxLease \in Nat
    BY KeyLeaseAssumption, LeaseFacts DEF Post, RequestKey, TypeOK
  <1>2. \A j \in Keys : active[j].id \in 0..MaxLease /\ active[j].id <= issued
    BY <1>1, LeaseFacts DEF Chained
  <1>3. CASE /\ lease = active[k] /\ UNCHANGED <<active, issued>>
    BY <1>1, <1>2, <1>3 DEF OnChain
  <1>4. CASE /\ ~KeepsActive(post)
             /\ lease.id = issued + 1
             /\ issued' = issued + 1
             /\ active' = [active EXCEPT ![k] = lease]
    <2>1. active[k].id = 0 \/ active[k].id \in failed
      BY <1>1, <1>4 DEF KeepsActive, PostJustified, NoLease
    <2>2. ASSUME NEW j \in Keys, NEW n \in Nat, OnChain(j, n) PROVE OnChain(j, n)'
      <3>1. CASE j = k
        BY <1>1, <1>2, <1>4, <2>1, <2>2, <3>1 DEF OnChain
      <3>2. CASE j # k
        BY <1>1, <1>4, <2>2, <3>2 DEF OnChain
      <3> QED BY <3>1, <3>2
    <2>3. \A j \in Keys : (active[j].id <= issued)'
      BY <1>1, <1>2, <1>4
    <2>4. \A n \in Nat : OnChain(k, n) => n <= lease.id
      BY <1>1, <1>2, <1>4 DEF OnChain
    <2>5. OnChain(k, lease.id)'
      BY <1>1, <1>4 DEF OnChain
    <2> QED BY <2>2, <2>3, <2>4, <2>5
  <1> QED BY <1>3, <1>4 DEF Handles

\* The router's steps keep every task, cached lease and lost POST on the chain.
LEMMA ChainedRouter ==
    ASSUME RouterChecksLease, Sound, Chained,
           (\E t \in inFlight : Serve(t)) \/ (\E post \in orphans : ServeOrphan(post))
    PROVE  Chained'
  <1> USE DEF Sound
  <1>0. /\ inFlight \in SUBSET Task /\ MaxLease \in Nat
        /\ \A k \in Keys : leases[k].id \in Nat
        /\ \A t \in inFlight : /\ t.post.rkey.key \in Keys /\ t.captured \in Nat
                              /\ t.answer.id \in Nat /\ t.post \in Post
    BY KeyLeaseAssumption, LeaseFacts DEF TypeOK, Task, Post, RequestKey
  <1>1. ASSUME NEW t \in inFlight, Serve(t) PROVE Chained'
    <2>1. PICK lease \in Lease :
             Handles(t.post, lease)
             /\ inFlight' = (inFlight \ {t}) \cup {[t EXCEPT !.answer = lease]}
      BY <1>1 DEF Serve
    <2>2. UNCHANGED <<leases, orphans, failed>> /\ TaskOnChain(t)
      BY <1>1 DEF Serve, historyVars, Chained
    <2>3. LET k == t.post.rkey.key IN
          /\ \A j \in Keys, n \in Nat : OnChain(j, n) => OnChain(j, n)'
          /\ \A j \in Keys : (active[j].id <= issued)'
          /\ \A n \in Nat : OnChain(k, n) => n <= lease.id
          /\ OnChain(k, lease.id)'
      BY <1>0, <2>1, <2>2, HandlesOnChain DEF TaskOnChain
    <2>4. \A k \in Keys : (active[k].id <= issued /\ OnChain(k, leases[k].id))'
      BY <1>0, <2>2, <2>3 DEF Chained
    <2>5. ASSUME NEW u \in inFlight PROVE TaskOnChain(u)'
      BY <1>0, <2>2, <2>3 DEF Chained, TaskOnChain, PostJustified
    <2>6. PICK served_t \in Task : served_t = [t EXCEPT !.answer = lease]
      BY <1>0 DEF Task, LeaseOrNone
    <2>7. /\ served_t.post = t.post /\ served_t.captured = t.captured
          /\ served_t.answer = lease
      BY <1>0, <2>6 DEF Task
    <2>8. TaskOnChain(served_t)'
      BY <1>0, <2>2, <2>3, <2>7 DEF TaskOnChain, PostJustified
    <2>9. \A u \in inFlight' : TaskOnChain(u)'
      BY <2>1, <2>5, <2>6, <2>8
    <2>10. \A post \in orphans' : PostJustified(post)'
      BY <2>2 DEF Chained, PostJustified
    <2> QED BY <2>4, <2>9, <2>10 DEF Chained
  <1>2. ASSUME NEW post \in orphans, ServeOrphan(post) PROVE Chained'
    <2>1. PICK lease \in Lease : Handles(post, lease)
      BY <1>2 DEF ServeOrphan
    <2>2. UNCHANGED <<leases, inFlight, failed>> /\ orphans' \subseteq orphans
          /\ PostJustified(post) /\ post \in Post
      BY <1>2 DEF ServeOrphan, historyVars, Chained, TypeOK
    <2>3. /\ \A j \in Keys, n \in Nat : OnChain(j, n) => OnChain(j, n)'
          /\ \A j \in Keys : (active[j].id <= issued)'
      BY <2>1, <2>2, HandlesOnChain
    <2>4. \A k \in Keys : (active[k].id <= issued /\ OnChain(k, leases[k].id))'
      BY <1>0, <2>2, <2>3 DEF Chained
    <2>5. ASSUME NEW u \in inFlight PROVE TaskOnChain(u)'
      BY <1>0, <2>2, <2>3 DEF Chained, TaskOnChain, PostJustified
    <2>6. \A p \in orphans' : PostJustified(p)'
      BY <2>2 DEF Chained, PostJustified
    <2> QED BY <2>2, <2>4, <2>5, <2>6 DEF Chained
  <1> QED BY <1>1, <1>2

\* A task that ends stores its answer only over what it captured.
LEMMA ChainedTaskEnds ==
    ASSUME Sound, Chained, NEW t \in inFlight, TaskAnswered(t) \/ TaskFails(t)
    PROVE  Chained'
  <1> USE DEF Sound
  <1>1. /\ inFlight' \subseteq inFlight /\ UNCHANGED <<active, issued, failed>>
        /\ t.post.rkey.key \in Keys /\ leases \in [Keys -> LeaseOrNone] /\ order \in Seq(Keys)
    BY DEF TaskAnswered, TaskFails, TypeOK, Task, Post, RequestKey, routerVars, historyVars
  <1>2. \A k \in Keys : leases'[k] \in {leases[k], NoLease}
                        \/ (TaskAnswered(t) /\ k = t.post.rkey.key /\ leases'[k] = t.answer)
    BY <1>1 DEF TaskAnswered, TaskFails, Store
  <1>3. TaskOnChain(t)
    BY DEF Chained
  <1>4. \A k \in Keys : (active[k].id <= issued /\ OnChain(k, leases[k].id))'
    BY <1>1, <1>2, <1>3 DEF Chained, OnChain, TaskOnChain, NoLease, TaskAnswered
  <1>5. \A u \in inFlight' : TaskOnChain(u)'
    BY <1>1 DEF Chained, TaskOnChain, OnChain, PostJustified
  <1>6. orphans' \subseteq orphans \cup {t.post}
    BY DEF TaskAnswered, TaskFails, routerVars
  <1>7. \A post \in orphans' : PostJustified(post)'
    BY <1>1, <1>3, <1>6 DEF Chained, PostJustified, TaskOnChain
  <1> QED BY <1>4, <1>5, <1>7 DEF Chained

\* The chain reads nothing but the variables.
LEMMA ChainedStutter == Chained /\ UNCHANGED vars => Chained'
  <1> SUFFICES ASSUME Chained, UNCHANGED vars PROVE Chained'
    OBVIOUS
  <1>1. UNCHANGED <<active, issued, leases, orphans, inFlight, failed>>
    BY DEF vars, routerVars, historyVars
  <1> QED BY <1>1, ChainedFrame DEF SameTask

\* The chain is inductive, given soundness.
LEMMA ChainedNext ==
    ASSUME RouterChecksLease, Sound, Chained, [Next]_vars
    PROVE  Chained'
  <1>1. CASE UNCHANGED vars
    BY <1>1, ChainedStutter
  <1>2. ASSUME NEW r \in Requests,
               \/ ResolveCached(r) \/ ResolveUncached(r)
               \/ BeginCall(r) \/ Response(r) \/ Rejected(r) \/ Resume(r)
               \/ AbortResolve(r) \/ AbortCall(r) \/ Finish(r)
        PROVE  Chained'
    BY <1>2, ChainedRequest
  <1>3. ASSUME NEW k \in Keys, RenewalDue(k) PROVE Chained'
    <2>1. UNCHANGED <<active, issued, leases, orphans, inFlight, failed>>
      BY <1>3 DEF RenewalDue, routerVars, historyVars
    <2> QED BY <2>1, ChainedFrame DEF SameTask
  <1>4. ASSUME NEW t \in inFlight, TaskAnswered(t) \/ TaskFails(t) PROVE Chained'
    BY <1>4, ChainedTaskEnds
  <1>5. CASE (\E t \in inFlight : Serve(t)) \/ (\E post \in orphans : ServeOrphan(post))
    BY <1>5, ChainedRouter
  <1>6. CASE Idle
    BY <1>6, ChainedStutter DEF Idle
  <1> QED
    BY <1>1, <1>2, <1>3, <1>4, <1>5, <1>6 DEF Next

\* Only a task's answer is ever stored over another lease, and the one it replaces is
\* the one it captured.
LEMMA StoreAdvances ==
    ASSUME Sound, Chained, NEW t \in inFlight, TaskAnswered(t)
    PROVE  LeaseAdvances
  <1> DEFINE k == t.post.rkey.key
  <1>1. /\ k \in Keys /\ t.answer \in Lease /\ leases \in [Keys -> LeaseOrNone]
        /\ t.captured \in Nat /\ active[k].id \in Nat
    BY AnswerTypes, KeyLeaseAssumption, LeaseFacts DEF Sound, TaskAnswered, TypeOK, Task
  <1>2. CASE Overtaken(t)
    BY <1>2 DEF TaskAnswered, LeaseAdvances
  <1>3. CASE ~Overtaken(t)
    <2>1. leases' = Store(k, t.answer)
      BY <1>3 DEF TaskAnswered
    <2>2. \A j \in Keys : j # k => leases'[j] \in {leases[j], NoLease}
      BY <1>1, <2>1 DEF Store
    <2>3. leases'[k] = t.answer
      BY <1>1, <2>1 DEF Store
    <2>4. ASSUME leases[k] # NoLease, t.answer.id # leases[k].id
          PROVE  t.answer.id > leases[k].id /\ leases[k].id \in failed
      <3>1. leases[k].id = t.captured /\ leases[k].id \in 1..MaxLease /\ t.answer.id \in 1..MaxLease
        BY <1>1, <1>3, <2>4, LeaseFacts DEF Overtaken
      <3>2. /\ OnChain(k, t.captured) /\ OnChain(k, t.answer.id)
            /\ t.captured <= t.answer.id
        BY LeaseFacts DEF Chained, TaskOnChain, TaskAnswered
      <3> QED BY <1>1, <2>4, <3>1, <3>2, KeyLeaseAssumption DEF OnChain
    <2> QED BY <2>2, <2>3, <2>4 DEF LeaseAdvances
  <1> QED BY <1>2, <1>3

\* No step of the system puts an earlier lease over a cached one.
LEMMA StepAdvances == Sound /\ Chained /\ [Next]_vars => [LeaseAdvances]_vars
  <1> SUFFICES ASSUME Sound, Chained, Next PROVE LeaseAdvances
    BY DEF LeaseAdvances
  <1>1. CASE UNCHANGED leases
    BY <1>1 DEF LeaseAdvances
  <1>2. ASSUME NEW t \in inFlight, TaskAnswered(t) PROVE LeaseAdvances
    BY <1>2, StoreAdvances
  <1>3. ASSUME NEW t \in inFlight, Serve(t) \/ TaskFails(t) PROVE UNCHANGED leases
    BY <1>3 DEF Serve, TaskFails
  <1>4. ASSUME NEW post \in orphans, ServeOrphan(post) PROVE UNCHANGED leases
    BY <1>4 DEF ServeOrphan
  <1>5. ASSUME NEW r \in Requests,
               \/ ResolveCached(r) \/ ResolveUncached(r)
               \/ BeginCall(r) \/ Response(r) \/ Rejected(r) \/ Resume(r)
               \/ AbortResolve(r) \/ AbortCall(r) \/ Finish(r)
        PROVE  UNCHANGED leases
    BY <1>5 DEF ResolveCached, ResolveUncached, BeginCall, Response, Rejected, Resume,
                AbortResolve, AbortCall, Finish
  <1>6. (\E k \in Keys : RenewalDue(k)) \/ Idle => UNCHANGED leases
    BY DEF RenewalDue, Idle, vars
  <1> QED BY <1>1, <1>2, <1>3, <1>4, <1>5, <1>6 DEF Next

\* CachedLeaseAdvances, for any number of sessions, requests, accounts and evictions:
\* with a router that compares the expected lease, a store over a cached lease puts a
\* later one, and only after Command Code rejected the one it replaces.
THEOREM CacheAdvances ==
    ASSUME RouterChecksLease
    PROVE  Spec => CachedLeaseAdvances
  <1>1. Init => Sound /\ Chained
    BY SoundInit, ChainedInit
  <1>2. Sound /\ Chained /\ [Next]_vars => (Sound /\ Chained)'
    BY SoundNext, ChainedNext
  <1> QED BY <1>1, <1>2, StepAdvances, PTL DEF Spec, CachedLeaseAdvances

-----------------------------------------------------------------------------
(***************************************************************************)
(* The walk of one fetch call over the accounts.                           *)
(***************************************************************************)
\* While a fetch call walks, it may try at least one more account, and the one it
\* sends to is new to it.
WalkBounded ==
    \A r \in Requests :
        /\ pc[r] \in {"sending", "rotating", "granted"} => Cardinality(attempted[r]) < AttemptCap
        /\ pc[r] = "sending" => held[r].account \notin attempted[r]

\* One request's part of WalkBounded reads only that request's variables.
LEMMA WalkFrame ==
    ASSUME WalkBounded,
           \A r \in Requests :
               \/ pc'[r] \notin {"sending", "rotating", "granted"}
               \/ UNCHANGED <<pc[r], held[r], attempted[r]>>
               \/ /\ pc'[r] # "sending"
                  /\ Cardinality(attempted'[r]) < AttemptCap
               \/ /\ pc'[r] = "sending"
                  /\ Cardinality(attempted'[r]) < AttemptCap
                  /\ held'[r].account \notin attempted'[r]
    PROVE  WalkBounded'
  BY DEF WalkBounded

\* The steps of the request that walks.
LEMMA WalkRequest ==
    ASSUME Sound, WalkBounded, NEW r \in Requests,
           \/ ResolveCached(r) \/ ResolveUncached(r)
           \/ BeginCall(r) \/ Response(r) \/ Rejected(r) \/ Resume(r)
           \/ AbortResolve(r) \/ AbortCall(r) \/ Finish(r)
    PROVE  WalkBounded'
  <1>0. /\ pc \in [Requests -> PC] /\ held \in [Requests -> LeaseOrNone]
        /\ attempted \in [Requests -> SUBSET Accounts]
        /\ AttemptCap \in Nat \ {0}
    BY KeyLeaseAssumption DEF Sound, TypeOK
  <1>1. CASE \/ ResolveCached(r) \/ ResolveUncached(r) \/ Response(r)
             \/ AbortResolve(r) \/ AbortCall(r) \/ Finish(r)
    <2>1. /\ \A s \in Requests : s # r => pc'[s] = pc[s]
          /\ pc'[r] \in {"ready", "leasing", "ended"}
      BY <1>0, <1>1
         DEF ResolveCached, ResolveUncached, Response, EndCall, AbortResolve, AbortCall, Finish
    <2>2. \A s \in Requests : s # r => attempted'[s] = attempted[s]
      BY <1>0, <1>1
         DEF ResolveCached, ResolveUncached, Response, EndCall, AbortResolve, AbortCall, Finish
    <2>3. \A s \in Requests : s # r => held'[s] = held[s]
      BY <1>0, <1>1
         DEF ResolveCached, ResolveUncached, Response, AbortResolve, AbortCall, Finish
    <2>4. \A s \in Requests : s # r => UNCHANGED <<pc[s], held[s], attempted[s]>>
      BY <2>1, <2>2, <2>3
    <2> QED BY <2>1, <2>4, WalkFrame
  <1>2. CASE BeginCall(r)
    <2>1. /\ \A s \in Requests : s # r => UNCHANGED <<pc[s], held[s], attempted[s]>>
          /\ pc'[r] = "sending" /\ attempted'[r] = {}
      BY <1>0, <1>2 DEF BeginCall
    <2>2. Cardinality(attempted'[r]) < AttemptCap
      <3>1. Cardinality(attempted'[r]) = 0
        BY <2>1, FS_EmptySet
      <3> QED BY <1>0, <3>1
    <2>3. held'[r].account \notin attempted'[r]
      BY <2>1
    <2> QED BY <2>1, <2>2, <2>3, WalkFrame
  <1>3. CASE Rejected(r)
    <2>1. /\ \A s \in Requests : s # r => UNCHANGED <<pc[s], held[s], attempted[s]>>
          /\ \/ pc'[r] = "ready"
             \/ pc'[r] \in {"granted", "rotating"} /\ Cardinality(attempted'[r]) < AttemptCap
      BY <1>0, <1>3 DEF Rejected, EndCall
    <2> QED BY <2>1, WalkFrame
  <1>4. CASE Resume(r)
    <2>1. /\ \A s \in Requests : s # r => UNCHANGED <<pc[s], held[s], attempted[s]>>
          /\ pc[r] = "granted"
          /\ \/ pc'[r] = "ready"
             \/ /\ pc'[r] = "sending" /\ attempted' = attempted
                /\ held'[r].account \notin attempted[r]
      BY <1>0, <1>4 DEF Resume, EndCall, TriedBefore
    <2>2. Cardinality(attempted[r]) < AttemptCap
      BY <2>1 DEF WalkBounded
    <2> QED BY <2>1, <2>2, WalkFrame
  <1> QED BY <1>1, <1>2, <1>3, <1>4

\* A task that ends lets its waiters rest or look at their replacement.
LEMMA WalkTaskEnds ==
    ASSUME Sound, WalkBounded, NEW t \in inFlight, TaskAnswered(t) \/ TaskFails(t)
    PROVE  WalkBounded'
  <1>0. pc \in [Requests -> PC] /\ held \in [Requests -> LeaseOrNone]
    BY DEF Sound, TypeOK
  <1>1. CASE TaskAnswered(t)
    <2>1. ASSUME NEW s \in Requests
          PROVE  \/ pc'[s] = "ready"
                 \/ UNCHANGED <<pc[s], held[s], attempted[s]>>
                 \/ pc[s] = "rotating" /\ pc'[s] = "granted" /\ attempted' = attempted
      BY <1>0, <1>1 DEF TaskAnswered
    <2>2. \A s \in Requests : pc[s] = "rotating" => Cardinality(attempted[s]) < AttemptCap
      BY DEF WalkBounded
    <2> QED BY <2>1, <2>2, WalkFrame
  <1>2. CASE TaskFails(t)
    <2>1. ASSUME NEW s \in Requests
          PROVE  pc'[s] \in {"ready", "ended"} \/ UNCHANGED <<pc[s], held[s], attempted[s]>>
      BY <1>0, <1>2 DEF TaskFails
    <2> QED BY <2>1, WalkFrame
  <1> QED BY <1>1, <1>2

\* Steps that leave the requests alone: the router's, a renewal coming due, stuttering.
LEMMA QuietSteps ==
    ASSUME \/ UNCHANGED vars \/ Idle
           \/ \E k \in Keys : RenewalDue(k)
           \/ \E t \in inFlight : Serve(t)
           \/ \E post \in orphans : ServeOrphan(post)
    PROVE  /\ UNCHANGED <<pc, held, attempted, granted, calls, outcome, reports, leases, order>>
           /\ UNCHANGED <<failed, rejectedBy, served>>
           /\ renewalAfter' \subseteq renewalAfter
  BY DEF Idle, vars, RenewalDue, Serve, ServeOrphan, requestVars, historyVars

\* The steps of the system, by what they do to the requests.
LEMMA StepKinds ==
    ASSUME [Next]_vars
    PROVE  \/ \E r \in Requests :
                 \/ ResolveCached(r) \/ ResolveUncached(r)
                 \/ BeginCall(r) \/ Response(r) \/ Rejected(r) \/ Resume(r)
                 \/ AbortResolve(r) \/ AbortCall(r) \/ Finish(r)
           \/ \E t \in inFlight : TaskAnswered(t) \/ TaskFails(t)
           \/ \/ UNCHANGED vars \/ Idle
              \/ \E k \in Keys : RenewalDue(k)
              \/ \E t \in inFlight : Serve(t)
              \/ \E post \in orphans : ServeOrphan(post)
  BY DEF Next

\* The walk's bounds are inductive, given soundness.
LEMMA WalkNext == Sound /\ WalkBounded /\ [Next]_vars => WalkBounded'
  <1> SUFFICES ASSUME Sound, WalkBounded, [Next]_vars PROVE WalkBounded'
    OBVIOUS
  <1>1. UNCHANGED <<pc, held, attempted>> => WalkBounded'
    BY DEF WalkBounded
  <1> QED BY <1>1, StepKinds, WalkRequest, WalkTaskEnds, QuietSteps

\* WalkVisitsDistinctAccounts, for every cap on the attempts: however rotations, shared
\* tasks and aborts interleave, one fetch call sends to an account once only.
THEOREM WalksDistinct == Spec => []WalkVisitsDistinctAccounts
  <1>1. Init => Sound /\ WalkBounded
    BY SoundInit DEF Init, WalkBounded
  <1>2. Sound /\ WalkBounded /\ [Next]_vars => (Sound /\ WalkBounded)'
    BY SoundNext, WalkNext
  <1>3. WalkBounded => WalkVisitsDistinctAccounts
    BY DEF WalkBounded, WalkVisitsDistinctAccounts
  <1> QED BY <1>1, <1>2, <1>3, PTL DEF Spec

-----------------------------------------------------------------------------
(***************************************************************************)
(* The cache: a Map of leases, its insertion order and the renewal marks.  *)
(***************************************************************************)
Distinct(s) == \A i, j \in 1..Len(s) : s[i] = s[j] => i = j
Members(s) == {s[i] : i \in 1..Len(s)}

\* A new key goes to the end of the order.
LEMMA AppendOrdered ==
    ASSUME NEW S, NEW s \in Seq(S), NEW x \in S, Distinct(s), x \notin Members(s)
    PROVE  /\ Append(s, x) \in Seq(S)
           /\ Len(Append(s, x)) = Len(s) + 1
           /\ Distinct(Append(s, x))
           /\ Members(Append(s, x)) = Members(s) \cup {x}
  <1> DEFINE u == Append(s, x)
  <1>1. /\ u \in Seq(S) /\ Len(s) \in Nat /\ Len(u) = Len(s) + 1
        /\ \A i \in 1..Len(s) : u[i] = s[i]
        /\ u[Len(s) + 1] = x
    OBVIOUS
  <1> HIDE DEF u
  <1>2. ASSUME NEW i \in 1..Len(u), NEW j \in 1..Len(u), u[i] = u[j] PROVE i = j
    <2>1. (i \in 1..Len(s) \/ i = Len(s) + 1) /\ (j \in 1..Len(s) \/ j = Len(s) + 1)
      BY <1>1
    <2>2. \A n \in 1..Len(s) : s[n] # x
      BY DEF Members
    <2> QED BY <1>1, <1>2, <2>1, <2>2 DEF Distinct
  <1>3. Members(u) = Members(s) \cup {x}
    <2>1. ASSUME NEW y \in Members(u) PROVE y \in Members(s) \cup {x}
      BY <1>1 DEF Members
    <2>2. Len(s) + 1 \in 1..Len(u) /\ \A i \in 1..Len(s) : i \in 1..Len(u)
      BY <1>1
    <2>3. ASSUME NEW y \in Members(s) \cup {x} PROVE y \in Members(u)
      BY <1>1, <2>2 DEF Members
    <2> QED BY <2>1, <2>3
  <1> QED BY <1>1, <1>2, <1>3 DEF Distinct, u

\* Eviction takes the oldest key off the order.
LEMMA TailOrdered ==
    ASSUME NEW S, NEW s \in Seq(S), s # <<>>, Distinct(s)
    PROVE  /\ Tail(s) \in Seq(S)
           /\ Len(Tail(s)) = Len(s) - 1
           /\ Distinct(Tail(s))
           /\ Head(s) \in Members(s)
           /\ Members(Tail(s)) = Members(s) \ {Head(s)}
  <1> DEFINE u == Tail(s)
  <1>1. /\ u \in Seq(S) /\ Len(s) \in Nat \ {0} /\ Len(u) = Len(s) - 1
        /\ \A i \in 1..Len(u) : u[i] = s[i + 1]
        /\ Head(s) = s[1]
    OBVIOUS
  <1> HIDE DEF u
  <1>2. \A i \in 1..Len(u) : i + 1 \in 1..Len(s) /\ i + 1 # 1
    BY <1>1
  <1>3. \A i, j \in 1..Len(u) : u[i] = u[j] => i = j
    BY <1>1, <1>2 DEF Distinct
  <1>4. 1 \in 1..Len(s)
    BY <1>1
  <1>5. ASSUME NEW y \in Members(u) PROVE y \in Members(s) \ {Head(s)}
    <2>1. PICK i \in 1..Len(u) : y = s[i + 1]
      BY <1>1 DEF Members
    <2> QED BY <1>1, <1>2, <1>4, <2>1 DEF Members, Distinct
  <1>6. ASSUME NEW y \in Members(s) \ {Head(s)} PROVE y \in Members(u)
    <2>1. PICK i \in 1..Len(s) : y = s[i] /\ i # 1
      BY <1>1 DEF Members
    <2>2. i - 1 \in 1..Len(u) /\ (i - 1) + 1 = i
      BY <1>1, <2>1
    <2>3. u[i - 1] = s[i]
      BY <1>1, <2>2
    <2> QED BY <2>1, <2>2, <2>3 DEF Members
  <1> QED BY <1>1, <1>3, <1>4, <1>5, <1>6 DEF Distinct, Members, u

\* Storing a lease keeps the cache, its order and its marks in step.
LEMMA StoreIndexed ==
    ASSUME TypeOK, CacheIndexed, NEW k \in Keys, NEW lease \in Lease,
           leases' = Store(k, lease), order' = OrderAfter(k),
           renewalAfter' = RenewalAfterStore(k)
    PROVE  CacheIndexed'
  <1>0. /\ leases \in [Keys -> LeaseOrNone] /\ order \in Seq(Keys) /\ lease # NoLease
        /\ CacheCap \in Nat \ {0} /\ renewalAfter \subseteq Keys /\ Len(order) \in Nat
    BY KeyLeaseAssumption, LeaseFacts DEF TypeOK
  <1>1. /\ Distinct(order) /\ Members(order) = {j \in Keys : leases[j] # NoLease}
        /\ Len(order) <= CacheCap
        /\ \A j \in renewalAfter : leases[j] # NoLease
    BY DEF CacheIndexed, Distinct, Members
  <1>2. SUFFICES /\ Distinct(order') /\ Members(order') = {j \in Keys : leases'[j] # NoLease}
                 /\ Len(order') <= CacheCap
                 /\ \A j \in renewalAfter' : leases'[j] # NoLease
    BY DEF CacheIndexed, Distinct, Members
  <1>3. CASE leases[k] # NoLease
    <2>1. /\ leases' = [leases EXCEPT ![k] = lease] /\ order' = order
          /\ renewalAfter' = renewalAfter
      BY <1>3 DEF Store, OrderAfter, RenewalAfterStore, EvictsFor
    <2> QED BY <1>0, <1>1, <1>3, <2>1
  <1>4. CASE leases[k] = NoLease /\ Len(order) < CacheCap
    <2>0. ~EvictsFor(k)
      BY <1>0, <1>4 DEF EvictsFor
    <2>1. /\ leases' = [leases EXCEPT ![k] = lease] /\ order' = Append(order, k)
          /\ renewalAfter' = renewalAfter
      BY <1>4, <2>0 DEF Store, OrderAfter, RenewalAfterStore
    <2>2. k \notin Members(order)
      BY <1>1, <1>4
    <2>3. /\ Len(order') = Len(order) + 1 /\ Distinct(order')
          /\ Members(order') = Members(order) \cup {k}
      BY <1>0, <1>1, <2>1, <2>2, AppendOrdered
    <2> QED BY <1>0, <1>1, <1>4, <2>1, <2>3
  <1>5. CASE leases[k] = NoLease /\ ~(Len(order) < CacheCap)
    <2> DEFINE oldest == Head(order)
    <2>0. EvictsFor(k)
      BY <1>0, <1>5 DEF EvictsFor
    <2>1. /\ leases' = [[leases EXCEPT ![oldest] = NoLease] EXCEPT ![k] = lease]
          /\ order' = Append(Tail(order), k)
          /\ renewalAfter' = renewalAfter \ {oldest}
      BY <1>5, <2>0 DEF Store, OrderAfter, RenewalAfterStore
    <2>2. order # <<>>
      BY <1>0, <1>5
    <2>3. /\ Tail(order) \in Seq(Keys) /\ Len(Tail(order)) = Len(order) - 1
          /\ Distinct(Tail(order)) /\ oldest \in Members(order)
          /\ Members(Tail(order)) = Members(order) \ {oldest}
      BY <1>0, <1>1, <2>2, TailOrdered
    <2>4. oldest \in Keys /\ oldest # k /\ k \notin Members(order)
      BY <1>1, <1>5, <2>3
    <2>5. /\ Len(order') = Len(Tail(order)) + 1 /\ Distinct(order')
          /\ Members(order') = Members(Tail(order)) \cup {k}
      <3>1. k \notin Members(Tail(order))
        BY <2>3, <2>4
      <3>2. PICK rest \in Seq(Keys) : rest = Tail(order)
        BY <2>3
      <3>3. Distinct(rest) /\ k \notin Members(rest)
        BY <2>3, <3>1, <3>2
      <3>4. /\ Len(Append(rest, k)) = Len(rest) + 1
            /\ Distinct(Append(rest, k))
            /\ Members(Append(rest, k)) = Members(rest) \cup {k}
        BY <3>3, AppendOrdered
      <3> QED BY <2>1, <3>2, <3>4
    <2> HIDE DEF oldest
    <2>6. \A j \in Keys : leases'[j] = IF j = k THEN lease
                                      ELSE IF j = oldest THEN NoLease ELSE leases[j]
      BY <1>0, <2>1, <2>4
    <2>7. Members(order') = {j \in Keys : leases'[j] # NoLease}
      BY <1>0, <1>1, <2>3, <2>4, <2>5, <2>6
    <2>8. Len(order') <= CacheCap
      BY <1>0, <1>1, <2>3, <2>5
    <2>9. \A j \in renewalAfter' : leases'[j] # NoLease
      BY <1>0, <1>1, <2>1, <2>6
    <2> QED BY <2>5, <2>7, <2>8, <2>9
  <1> QED BY <1>3, <1>4, <1>5

\* Only an answered task changes the cache; a mark is put on a cached key only.
LEMMA IndexedNext == Sound /\ CacheIndexed /\ [Next]_vars => CacheIndexed'
  <1> SUFFICES ASSUME Sound, CacheIndexed, [Next]_vars PROVE CacheIndexed'
    OBVIOUS
  <1>1. ASSUME UNCHANGED <<leases, order>>, \A k \in renewalAfter' : leases[k] # NoLease
        PROVE  CacheIndexed'
    BY <1>1 DEF CacheIndexed
  <1>2. \A k \in renewalAfter : leases[k] # NoLease
    BY DEF CacheIndexed
  <1>3. ASSUME NEW r \in Requests,
               \/ ResolveCached(r) \/ ResolveUncached(r)
               \/ BeginCall(r) \/ Response(r) \/ Rejected(r) \/ Resume(r)
               \/ AbortResolve(r) \/ AbortCall(r) \/ Finish(r)
        PROVE  UNCHANGED <<leases, order>> /\ \A k \in renewalAfter' : leases[k] # NoLease
    BY <1>2, <1>3 DEF ResolveCached, ResolveUncached, BeginCall, Response, Rejected, Resume,
                      AbortResolve, AbortCall, Finish
  <1>4. ASSUME NEW t \in inFlight, TaskAnswered(t) PROVE CacheIndexed'
    <2>1. CASE Overtaken(t)
      <3>1. UNCHANGED <<leases, order, renewalAfter>>
        BY <1>4, <2>1 DEF TaskAnswered
      <3> QED BY <1>1, <1>2, <3>1
    <2>2. CASE ~Overtaken(t)
      <3>1. /\ leases' = Store(t.post.rkey.key, t.answer)
            /\ order' = OrderAfter(t.post.rkey.key)
            /\ renewalAfter' = RenewalAfterStore(t.post.rkey.key)
        BY <1>4, <2>2 DEF TaskAnswered
      <3>2. t.post.rkey.key \in Keys /\ t.answer \in Lease /\ TypeOK
        BY <1>4, AnswerTypes DEF TaskAnswered, Sound
      <3> QED BY <3>1, <3>2, StoreIndexed
    <2> QED BY <2>1, <2>2
  <1>5. ASSUME NEW t \in inFlight, TaskFails(t) PROVE CacheIndexed'
    <2>1. UNCHANGED <<leases, order, renewalAfter>>
      BY <1>5 DEF TaskFails
    <2> QED BY <1>1, <1>2, <2>1
  <1> QED BY <1>1, <1>2, <1>3, <1>4, <1>5, StepKinds, QuietSteps

\* CacheIndexed, for every cap: the Map, its size and the renewal marks stay in step
\* through every interleaving of stores, overtaken answers and evictions.
THEOREM CacheStaysIndexed == Spec => []CacheIndexed
  <1>1. Init => Sound /\ CacheIndexed
    <2>1. Init => CacheIndexed
      BY KeyLeaseAssumption DEF Init, CacheIndexed
    <2> QED BY <2>1, SoundInit
  <1>2. Sound /\ CacheIndexed /\ [Next]_vars => (Sound /\ CacheIndexed)'
    BY SoundNext, IndexedNext
  <1> QED BY <1>1, <1>2, PTL DEF Spec

-----------------------------------------------------------------------------
(***************************************************************************)
(* The usage reports.                                                      *)
(***************************************************************************)
\* Between a response and the report about it the request keeps the lease that got the
\* response, and nothing serves a request that has reported.
Attributed ==
    /\ \A r \in Requests :
          /\ pc[r] \in {"idle", "leasing"} => outcome[r] = "none"
          /\ pc[r] = "ready" /\ outcome[r] = "response" => served[r] = held[r].id
    /\ \A u \in reports :
          pc[u.req] = "ended" /\ (u.status = "completed" => u.lease = served[u.req])

\* What a step may do to one request while the reports stay.
LEMMA AttributedFrame ==
    ASSUME Sound, Attributed, reports' = reports,
           \A r \in Requests :
               \/ UNCHANGED <<pc[r], outcome[r], served[r], held[r]>>
               \/ /\ pc[r] # "ended"
                  /\ pc'[r] \in {"idle", "leasing"} => outcome'[r] = "none"
                  /\ pc'[r] = "ready" /\ outcome'[r] = "response" => served'[r] = held'[r].id
    PROVE  Attributed'
  <1>1. \A u \in reports : u.req \in Requests
    BY DEF Sound, TypeOK
  <1> QED BY <1>1 DEF Attributed

\* The steps of one request.
LEMMA AttributedRequest ==
    ASSUME Sound, Attributed, NEW r \in Requests,
           \/ ResolveCached(r) \/ ResolveUncached(r)
           \/ BeginCall(r) \/ Response(r) \/ Rejected(r) \/ Resume(r)
           \/ AbortResolve(r) \/ AbortCall(r) \/ Finish(r)
    PROVE  Attributed'
  <1>0. /\ pc \in [Requests -> PC] /\ held \in [Requests -> LeaseOrNone]
        /\ outcome \in [Requests -> {"none", "response", "rejection", "abort"}]
        /\ served \in [Requests -> 0..MaxLease]
        /\ \A u \in reports : u.req \in Requests
    BY DEF Sound, TypeOK
  <1>1. CASE \/ ResolveCached(r) \/ ResolveUncached(r) \/ BeginCall(r) \/ Response(r)
             \/ Rejected(r) \/ Resume(r) \/ AbortResolve(r) \/ AbortCall(r)
    <2>1. \A s \in Requests : s # r => pc'[s] = pc[s] /\ outcome'[s] = outcome[s]
      BY <1>0, <1>1 DEF ResolveCached, ResolveUncached, BeginCall, Response, Rejected, Resume,
                        AbortResolve, AbortCall, EndCall
    <2>2. \A s \in Requests : s # r => served'[s] = served[s]
      BY <1>0, <1>1 DEF ResolveCached, ResolveUncached, BeginCall, Response, Rejected, Resume,
                        AbortResolve, AbortCall, historyVars
    <2>3. \A s \in Requests : s # r => held'[s] = held[s]
      BY <1>0, <1>1 DEF ResolveCached, ResolveUncached, BeginCall, Response, Rejected, Resume,
                        AbortResolve, AbortCall
    <2>4. pc[r] # "ended"
      BY <1>1 DEF ResolveCached, ResolveUncached, BeginCall, Response, Rejected, Resume,
                  AbortResolve, AbortCall
    <2>5. pc'[r] \in {"idle", "leasing"} => outcome'[r] = "none"
      BY <1>0, <1>1 DEF ResolveCached, ResolveUncached, BeginCall, Response, Rejected, Resume,
                        AbortResolve, AbortCall, EndCall, Attributed
    <2>6. pc'[r] = "ready" /\ outcome'[r] = "response" => served'[r] = held'[r].id
      BY <1>0, <1>1 DEF ResolveCached, ResolveUncached, BeginCall, Response, Rejected, Resume,
                        AbortResolve, AbortCall, EndCall, Attributed
    <2>7. reports' = reports
      BY <1>1 DEF ResolveCached, ResolveUncached, BeginCall, Response, Rejected, Resume,
                  AbortResolve, AbortCall
    <2>8. \A s \in Requests : s # r => UNCHANGED <<pc[s], outcome[s], served[s], held[s]>>
      BY <2>1, <2>2, <2>3
    <2> QED BY <2>4, <2>5, <2>6, <2>7, <2>8, AttributedFrame
  <1>2. CASE Finish(r)
    <2>1. PICK status \in {"completed", "failed"} :
             /\ status = "completed" => outcome[r] = "response"
             /\ reports' = reports \cup {[req |-> r, lease |-> held[r].id, status |-> status]}
      BY <1>2 DEF Finish, UsageReport
    <2>2. /\ pc[r] = "ready" /\ pc' = [pc EXCEPT ![r] = "ended"]
          /\ outcome' = [outcome EXCEPT ![r] = "none"]
          /\ held' = [held EXCEPT ![r] = NoLease] /\ served' = served
      BY <1>2 DEF Finish
    <2>3. status = "completed" => held[r].id = served[r]
      BY <2>1, <2>2 DEF Attributed
    <2>4. ASSUME NEW u \in reports'
          PROVE  pc'[u.req] = "ended" /\ (u.status = "completed" => u.lease = served[u.req])
      <3>1. CASE u \in reports
        BY <1>0, <2>2, <3>1 DEF Attributed
      <3>2. CASE u = [req |-> r, lease |-> held[r].id, status |-> status]
        BY <1>0, <2>2, <2>3, <3>2
      <3> QED BY <2>1, <3>1, <3>2
    <2>5. ASSUME NEW s \in Requests
          PROVE  /\ pc'[s] \in {"idle", "leasing"} => outcome'[s] = "none"
                 /\ pc'[s] = "ready" /\ outcome'[s] = "response" => served[s] = held'[s].id
      BY <1>0, <2>2 DEF Attributed
    <2> QED BY <2>2, <2>4, <2>5 DEF Attributed
  <1> QED BY <1>1, <1>2

\* A task that ends moves its waiters only, none of whom has a response to report.
LEMMA AttributedTaskEnds ==
    ASSUME Sound, Attributed, NEW t \in inFlight, TaskAnswered(t) \/ TaskFails(t)
    PROVE  Attributed'
  <1>0. /\ pc \in [Requests -> PC] /\ held \in [Requests -> LeaseOrNone]
        /\ outcome \in [Requests -> {"none", "response", "rejection", "abort"}]
        /\ \A r \in Requests : r \in t.waiters => pc[r] \in {"leasing", "rotating"}
        /\ \A r \in Requests : pc[r] = "leasing" => outcome[r] = "none"
    BY DEF Sound, TypeOK, NoStrandedWaiter, Attributed
  <1>1. CASE TaskAnswered(t)
    <2>1. UNCHANGED <<outcome, reports, served>>
      BY <1>1 DEF TaskAnswered, historyVars
    <2>2. ASSUME NEW r \in Requests
          PROVE  \/ pc'[r] = pc[r] /\ held'[r] = held[r]
                 \/ pc[r] = "leasing" /\ pc'[r] = "ready" /\ outcome[r] = "none"
                 \/ pc[r] = "rotating" /\ pc'[r] = "granted"
      BY <1>0, <1>1 DEF TaskAnswered
    <2> QED BY <2>1, <2>2, AttributedFrame
  <1>2. CASE TaskFails(t)
    <2>1. UNCHANGED <<held, reports, served>>
      BY <1>2 DEF TaskFails, historyVars
    <2>2. ASSUME NEW r \in Requests
          PROVE  \/ pc'[r] = pc[r] /\ outcome'[r] = outcome[r]
                 \/ pc[r] = "leasing" /\ pc'[r] = "ended"
                 \/ pc[r] = "rotating" /\ pc'[r] = "ready" /\ outcome'[r] = "rejection"
      BY <1>0, <1>2 DEF TaskFails
    <2> QED BY <2>1, <2>2, AttributedFrame
  <1> QED BY <1>1, <1>2

\* Attribution is inductive, given soundness.
LEMMA AttributedNext == Sound /\ Attributed /\ [Next]_vars => Attributed'
  <1> SUFFICES ASSUME Sound, Attributed, [Next]_vars PROVE Attributed'
    OBVIOUS
  <1>1. UNCHANGED <<pc, outcome, served, held, reports>> => Attributed'
    BY DEF Attributed
  <1> QED BY <1>1, StepKinds, AttributedRequest, AttributedTaskEnds, QuietSteps

\* CompletedUsageNamesServingLease: whatever rotates, expires or is evicted between a
\* response and the end of its stream, the completed report names the lease that served.
THEOREM UsageAttributed == Spec => []CompletedUsageNamesServingLease
  <1>1. Init => Sound /\ Attributed
    BY SoundInit DEF Init, Attributed
  <1>2. Sound /\ Attributed /\ [Next]_vars => (Sound /\ Attributed)'
    BY SoundNext, AttributedNext
  <1>3. Attributed => CompletedUsageNamesServingLease
    BY DEF Attributed, CompletedUsageNamesServingLease
  <1> QED BY <1>1, <1>2, <1>3, PTL DEF Spec

-----------------------------------------------------------------------------
(***************************************************************************)
(* The leases the router issued.                                           *)
(***************************************************************************)
Leased == {k \in Keys : active[k] # NoLease}

\* Every issued lease is a session's active one or was rejected, and no two sessions
\* share an active lease.
Accounted ==
    /\ \A n \in 1..issued : n \in failed \/ \E k \in Keys : active[k].id = n
    /\ \A j, k \in Leased : active[j].id = active[k].id => j = k

\* The router replaces none or a rejected lease by one nobody has.
LEMMA HandlesAccounted ==
    ASSUME RouterChecksLease, TypeOK, Chained, Accounted, NEW post \in Post,
           PostJustified(post), NEW lease \in Lease, Handles(post, lease), failed' = failed
    PROVE  Accounted'
  <1> DEFINE k == post.rkey.key
  <1>1. /\ k \in Keys /\ lease.id \in 1..MaxLease /\ issued \in Nat /\ MaxLease \in Nat
        /\ active \in [Keys -> LeaseOrNone] /\ lease # NoLease
        /\ \A j \in Keys : active[j].id \in Nat /\ active[j].id <= issued
    BY KeyLeaseAssumption, LeaseFacts DEF Post, RequestKey, TypeOK, Chained
  <1>2. CASE UNCHANGED <<active, issued>>
    BY <1>2 DEF Accounted, Leased
  <1>3. CASE /\ ~KeepsActive(post)
             /\ lease.id = issued + 1
             /\ issued' = issued + 1
             /\ active' = [active EXCEPT ![k] = lease]
    <2>1. active[k].id = 0 \/ active[k].id \in failed
      BY <1>1, <1>3 DEF KeepsActive, PostJustified, NoLease
    <2>2. \A j \in Keys : active'[j] = IF j = k THEN lease ELSE active[j]
      BY <1>1, <1>3
    <2> HIDE DEF k
    <2>3. ASSUME NEW n \in 1..issued'
          PROVE  n \in failed \/ \E j \in Keys : active'[j].id = n
      <3>1. CASE n = issued + 1
        BY <1>1, <1>3, <2>2, <3>1
      <3>2. CASE n # issued + 1
        <4>1. n \in 1..issued
          BY <1>1, <1>3, <3>2
        <4>2. n \in failed \/ \E j \in Keys : active[j].id = n
          BY <4>1 DEF Accounted
        <4> QED BY <1>1, <2>1, <2>2, <4>1, <4>2
      <3> QED BY <3>1, <3>2
    <2>4. ASSUME NEW i \in Keys, NEW j \in Keys, active'[i] # NoLease, active'[j] # NoLease,
                 active'[i].id = active'[j].id
          PROVE  i = j
      <3>1. active[i].id # issued + 1 /\ active[j].id # issued + 1
        BY <1>1
      <3>2. CASE i = k \/ j = k
        BY <1>3, <2>2, <2>4, <3>1, <3>2
      <3>3. CASE i # k /\ j # k
        BY <2>2, <2>4, <3>3 DEF Accounted, Leased
      <3> QED BY <3>2, <3>3
    <2> QED BY <2>3, <2>4 DEF Accounted, Leased
  <1> QED BY <1>2, <1>3 DEF Handles

\* Only the router issues, and rejections are never forgotten.
LEMMA AccountedNext ==
    ASSUME RouterChecksLease, Sound, Chained, Accounted, [Next]_vars
    PROVE  Accounted'
  <1>0. TypeOK /\ inFlight \in SUBSET Task /\ orphans \in SUBSET Post
    BY DEF Sound, TypeOK
  <1>1. ASSUME UNCHANGED <<active, issued>>, failed \subseteq failed' PROVE Accounted'
    BY <1>1 DEF Accounted, Leased
  <1>2. ASSUME NEW r \in Requests,
               \/ ResolveCached(r) \/ ResolveUncached(r)
               \/ BeginCall(r) \/ Response(r) \/ Rejected(r) \/ Resume(r)
               \/ AbortResolve(r) \/ AbortCall(r) \/ Finish(r)
        PROVE  UNCHANGED <<active, issued>> /\ failed \subseteq failed'
    BY <1>2 DEF ResolveCached, ResolveUncached, BeginCall, Response, Rejected, Resume,
                AbortResolve, AbortCall, Finish, routerVars, historyVars
  <1>3. ASSUME NEW t \in inFlight, TaskAnswered(t) \/ TaskFails(t)
        PROVE  UNCHANGED <<active, issued, failed>>
    BY <1>3 DEF TaskAnswered, TaskFails, routerVars, historyVars
  <1>4. ASSUME UNCHANGED vars \/ Idle \/ \E k \in Keys : RenewalDue(k)
        PROVE  UNCHANGED <<active, issued, failed>>
    BY <1>4 DEF Idle, vars, RenewalDue, routerVars, historyVars
  <1>5. ASSUME NEW t \in inFlight, Serve(t) PROVE Accounted'
    <2>1. PICK lease \in Lease : Handles(t.post, lease)
      BY <1>5 DEF Serve
    <2>2. t.post \in Post /\ PostJustified(t.post) /\ failed' = failed
      BY <1>0, <1>5 DEF Task, Chained, TaskOnChain, Serve, historyVars
    <2> QED BY <1>0, <2>1, <2>2, HandlesAccounted
  <1>6. ASSUME NEW post \in orphans, ServeOrphan(post) PROVE Accounted'
    <2>1. PICK lease \in Lease : Handles(post, lease)
      BY <1>6 DEF ServeOrphan
    <2>2. post \in Post /\ PostJustified(post) /\ failed' = failed
      BY <1>0, <1>6 DEF Chained, ServeOrphan, historyVars
    <2> QED BY <1>0, <2>1, <2>2, HandlesAccounted
  <1> QED BY <1>1, <1>2, <1>3, <1>4, <1>5, <1>6, StepKinds

\* The count follows: the issued ids are covered by the failed ones and by the active
\* ones, of which there are as many as sessions that hold a lease.
LEMMA AccountedCount == Sound /\ Chained /\ Accounted => OneRotationPerFailure
  <1> SUFFICES ASSUME Sound, Chained, Accounted PROVE OneRotationPerFailure
    OBVIOUS
  <1> DEFINE id == [k \in Leased |-> active[k].id]
             ids == {id[k] : k \in Leased}
  <1>1. /\ issued \in Nat /\ MaxLease \in Nat /\ failed \subseteq 1..MaxLease
        /\ \A k \in Leased : active[k].id \in 1..MaxLease
    BY KeyLeaseAssumption, LeaseFacts DEF Sound, TypeOK, Leased
  <1>2. IsFiniteSet(1..MaxLease) /\ IsFiniteSet(failed) /\ Cardinality(1..issued) = issued
    <2>1. IsFiniteSet(1..MaxLease)
      BY <1>1, FS_Interval
    <2>2. failed \in SUBSET (1..MaxLease)
      BY <1>1
    <2>3. IsFiniteSet(failed)
      BY <2>1, <2>2, FS_Subset
    <2>4. Cardinality(1..issued) = issued
      <3>1. Cardinality(1..issued) = IF 1 > issued THEN 0 ELSE issued - 1 + 1
        BY <1>1, FS_Interval
      <3> QED BY <1>1, <3>1
    <2> QED BY <2>1, <2>3, <2>4
  <1>3. id \in Injection(Leased, 1..MaxLease)
    <2>1. id \in [Leased -> 1..MaxLease]
      BY <1>1
    <2>2. \A i, j \in Leased : id[i] = id[j] => i = j
      BY DEF Accounted
    <2> QED BY <2>1, <2>2 DEF Injection, IsInjective
  <1>4. IsFiniteSet(Leased)
    BY <1>2, <1>3, FS_Injection
  <1>5. id \in Surjection(Leased, ids)
    BY DEF Surjection
  <1>6. IsFiniteSet(ids) /\ Cardinality(ids) <= Cardinality(Leased)
    BY <1>4, <1>5, FS_Surjection
  <1>7. 1..issued \subseteq ids \cup failed
    <2>1. ASSUME NEW n \in 1..issued, n \notin failed PROVE n \in ids
      <3>1. PICK k \in Keys : active[k].id = n
        BY <2>1 DEF Accounted
      <3>2. k \in Leased
        BY <1>1, <2>1, <3>1 DEF Leased, NoLease
      <3> QED BY <3>1, <3>2
    <2> QED BY <2>1
  <1>8. /\ IsFiniteSet(ids \cup failed)
        /\ Cardinality(ids \cup failed) <= Cardinality(ids) + Cardinality(failed)
    <2>1. /\ IsFiniteSet(ids \cup failed)
          /\ Cardinality(ids \cup failed)
                = Cardinality(ids) + Cardinality(failed) - Cardinality(ids \cap failed)
      BY <1>2, <1>6, FS_Union
    <2>2. Cardinality(ids \cap failed) \in Nat
      BY <1>6, FS_Intersection, FS_CardinalityType
    <2>3. Cardinality(ids) \in Nat /\ Cardinality(failed) \in Nat
      BY <1>2, <1>6, FS_CardinalityType
    <2> QED BY <2>1, <2>2, <2>3
  <1>9. issued <= Cardinality(ids \cup failed)
    <2> DEFINE covered == ids \cup failed
    <2>1. IsFiniteSet(covered) /\ 1..issued \in SUBSET covered
      BY <1>7, <1>8
    <2> HIDE DEF covered
    <2>2. Cardinality(1..issued) <= Cardinality(covered)
      BY <2>1, FS_Subset
    <2> QED BY <1>2, <2>2 DEF covered
  <1>10. /\ Cardinality(ids) \in Nat /\ Cardinality(failed) \in Nat
         /\ Cardinality(Leased) \in Nat /\ Cardinality(ids \cup failed) \in Nat
    BY <1>2, <1>4, <1>6, <1>8, FS_CardinalityType
  <1> HIDE DEF ids
  <1>11. issued <= Cardinality(Leased) + Cardinality(failed)
    BY ONLY <1>1, <1>6, <1>8, <1>9, <1>10
  <1> QED BY <1>11 DEF OneRotationPerFailure, Leased

\* OneRotationPerFailure, for any number of sessions, requests and leases: with a router
\* that compares the expected lease, concurrent, delayed and lost failures together cost
\* a session one new lease for each lease that Command Code rejected.
THEOREM RotationsAccounted ==
    ASSUME RouterChecksLease
    PROVE  Spec => []OneRotationPerFailure
  <1>1. Init => Sound /\ Chained /\ Accounted
    <2>1. Init => Accounted
      BY DEF Init, Accounted, Leased
    <2> QED BY <2>1, SoundInit, ChainedInit
  <1>2. Sound /\ Chained /\ Accounted /\ [Next]_vars => (Sound /\ Chained /\ Accounted)'
    BY SoundNext, ChainedNext, AccountedNext
  <1> QED BY <1>1, <1>2, AccountedCount, PTL DEF Spec
=============================================================================
