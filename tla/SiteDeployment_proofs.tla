----------------------- MODULE SiteDeployment_proofs -----------------------
(***************************************************************************)
(* Type correctness of the deployment of sites, the ownership of what is   *)
(* DEPLOYING or doing and, while the administrator asks for nothing, that  *)
(* nothing disturbs a deployment or undoes it, for every value of the      *)
(* constants.                                                              *)
(***************************************************************************)
EXTENDS SiteDeployment, TLAPS

\* The tuples of the UNCHANGED clauses.
USE DEF orderRows, taskRows, others, requests, counters

-----------------------------------------------------------------------------
(* Types. What is written into a row has been read from a row that exists.  *)

PreparesDeployment == {"validate", "order", "resetOrder", "resetStatus", "generate", "link",
                       "doingTask", "doingOrder", "doingStatus", "config", "failing"}

\* What a dispatcher has read of an order's user.
RunFits(run) ==
    /\ run.deploy # NoId => deployUser[run.deploy] \in Users
    /\ run.pc \in PreparesDeployment => run.user \in Users
    /\ run.pc = "resetOrder" => run.order \in DeployOrderIds /\ deployUser[run.order] \in Users

OrdersHaveUsers ==
    /\ \A o \in DeployOrderIds : deployState[o] = "pending" => deployUser[o] \in Users
    /\ \A r \in DeployRequests :
        /\ InFlight(r) => request[r].user \in Users
        /\ request[r].pc = "save" => /\ request[r].order \in DeployOrderIds
                                     /\ deployUser[request[r].order] \in Users
    /\ \A d \in Dispatchers : RunFits(disp[d])

TypeInv == TypeOK /\ OrdersHaveUsers

\* The oldest of some rows is one of them, or none.
LEMMA FirstIsOption ==
    ASSUME NEW options, NEW createdAt, NEW none
    PROVE  First(options, createdAt, none) \in options \union {none}
BY DEF First

LEMMA NoIdIsNoRow == NoId \notin DeployOrderIds /\ NoId \notin DeployTaskIds
BY BoundsAssumption DEF NoId, DeployOrderIds, DeployTaskIds

\* The three updates at the end of a job write constants.
LEMMA EndTypes ==
    ASSUME TypeInv, NEW t \in DeployTaskIds, NEW from \in JobState, NEW to \in JobState,
           NEW state \in RowState \ {"pending"}, NEW status \in SiteStatus
    PROVE  EndTask(t, from, to, state) \/ EndOrder(t, from, to, state) \/ EndStatus(t, from, to, status)
             => TypeInv'
<1>1. CASE EndTask(t, from, to, state)
  BY <1>1 DEF EndTask, AdvanceJob, TypeInv, TypeOK, OrdersHaveUsers, RunFits, InFlight
<1>2. CASE EndOrder(t, from, to, state)
  BY <1>2 DEF EndOrder, AdvanceJob, TypeInv, TypeOK, OrdersHaveUsers, RunFits, InFlight
<1>3. CASE EndStatus(t, from, to, status)
  BY <1>3 DEF EndStatus, AdvanceJob, TypeInv, TypeOK, OrdersHaveUsers, RunFits, InFlight
<1>4. QED
  BY <1>1, <1>2, <1>3

LEMMA IdleRuns == Idle \in DispatcherRun /\ Idle.pc = "idle" /\ Idle.deploy = NoId
BY DEF Idle, DispatcherRun, DispatcherPc, SiteStatus

LEMMA IdleFits == RunFits(Idle)
BY IdleRuns DEF RunFits, PreparesDeployment

\* A dispatcher goes on to another step, and changes nothing else.
LEMMA Moved ==
    ASSUME NEW run \in DispatcherRun, NEW p \in DispatcherPc
    PROVE  LET next == [run EXCEPT !.pc = p] IN
           /\ next \in DispatcherRun /\ next.pc = p /\ next.deploy = run.deploy
           /\ next.user = run.user /\ next.order = run.order /\ next.task = run.task
BY DEF DispatcherRun

\* The dispatchers keep their type if one of them holds what fits.
LEMMA DispatcherMoves ==
    ASSUME TypeInv, NEW d \in Dispatchers, NEW run \in DispatcherRun, RunFits(run),
           disp' = [disp EXCEPT ![d] = run], UNCHANGED deployUser
    PROVE  /\ disp' \in [Dispatchers -> DispatcherRun]
           /\ (\A e \in Dispatchers : RunFits(disp[e]))'
<1>1. disp \in [Dispatchers -> DispatcherRun] /\ \A e \in Dispatchers : RunFits(disp[e])
  BY DEF TypeInv, TypeOK, OrdersHaveUsers
<1>2. \A e \in Dispatchers : disp'[e] = IF e = d THEN run ELSE disp[e]
  BY <1>1
<1>3. \A e \in Dispatchers : RunFits(disp'[e])
  BY <1>1, <1>2
<1>4. QED
  BY <1>1, <1>3 DEF RunFits

\* The same for a step that only changes the dispatcher's own place.
LEMMA AdvanceFits ==
    ASSUME TypeInv, NEW d \in Dispatchers, NEW from \in PreparesDeployment,
           NEW to \in PreparesDeployment \ {"resetOrder"},
           Advance(d, from, to), UNCHANGED deployUser
    PROVE  /\ disp' \in [Dispatchers -> DispatcherRun]
           /\ (\A e \in Dispatchers : RunFits(disp[e]))'
           /\ disp[d] \in DispatcherRun /\ disp[d].user \in Users
<1> DEFINE next == [disp[d] EXCEPT !.pc = to]
<1>1. disp[d] \in DispatcherRun /\ RunFits(disp[d]) /\ to \in DispatcherPc
  BY DEF TypeInv, TypeOK, OrdersHaveUsers, PreparesDeployment, DispatcherPc
<1>2. next \in DispatcherRun /\ next.pc = to /\ next.deploy = disp[d].deploy /\ next.user = disp[d].user
  BY <1>1, Moved
<1>3. disp' = [disp EXCEPT ![d] = next]
  BY DEF Advance
<1> HIDE DEF next
<1>4. RunFits(next) /\ disp[d].user \in Users
  BY <1>1, <1>2 DEF RunFits, Advance
<1>5. QED
  BY <1>1, <1>2, <1>3, <1>4, DispatcherMoves

LEMMA InitTypes == Init => TypeInv
<1> SUFFICES ASSUME Init PROVE TypeInv
  OBVIOUS
<1>1. TypeOK
  BY IdleRuns, NoIdIsNoRow DEF Init, TypeOK, NoRequest, RequestRun, RequestPc, JobState, RowState,
     SiteStatus,
     PublishState
<1>2. OrdersHaveUsers
  BY IdleFits DEF Init, OrdersHaveUsers, InFlight, NoRequest
<1>3. QED
  BY <1>1, <1>2 DEF TypeInv

LEMMA NextTypes == TypeInv /\ [Next]_vars => TypeInv'
<1> SUFFICES ASSUME TypeInv, [Next]_vars PROVE TypeInv'
  OBVIOUS
<1>1. ASSUME NEW r \in DeployRequests, NEW u \in Users, RequestDeploy(r, u)
      PROVE  TypeInv'
  <2> DEFINE run == [request[r] EXCEPT !.pc = "find", !.user = u, !.status = siteStatus[u]]
  <2>1. request[r] \in RequestRun /\ siteStatus[u] \in SiteStatus
    BY DEF TypeInv, TypeOK
  <2>2. run \in RequestRun /\ run.pc = "find" /\ run.user = u
    BY <2>1 DEF RequestRun, RequestPc
  <2>3. request' = [request EXCEPT ![r] = run]
    BY <1>1 DEF RequestDeploy
  <2>4. UNCHANGED <<siteStatus, deployUser, deployState, deployTaskId, deployCreatedAt, taskUser, taskState, job,
                  postState, postCreatedAt, publishCreatedAt, publishing, clock, configuring, disp, faults,
                  crashes, dispatchRequests>>
    BY <1>1 DEF RequestDeploy
  <2> HIDE DEF run
  <2>5. TypeOK'
    BY <2>2, <2>3, <2>4 DEF TypeInv, TypeOK
  <2>6. \A q \in DeployRequests : request'[q] = IF q = r THEN run ELSE request[q]
    BY <2>3 DEF TypeInv, TypeOK
  <2>7. OrdersHaveUsers'
    BY <2>2, <2>4, <2>6 DEF TypeInv, OrdersHaveUsers, RunFits, InFlight
  <2>8. QED
    BY <2>7, <2>5 DEF TypeInv
<1>2. ASSUME NEW r \in DeployRequests, NEW again \in BOOLEAN, Found(r, again)
      PROVE  TypeInv'
  <2>1. request[r] \in RequestRun /\ request[r].pc = "find" /\ request[r].user \in Users
    BY <1>2 DEF Found, TypeInv, TypeOK, OrdersHaveUsers, InFlight
  <2>2. UNCHANGED <<siteStatus, deployUser, deployState, deployTaskId, deployCreatedAt, taskUser, taskState, job,
                  postState, postCreatedAt, publishCreatedAt, publishing, clock, disp, faults, crashes, dispatchRequests>>
    BY <1>2 DEF Found
  <2>3. CASE \E pc \in {"create", "done"} :
               request' = [request EXCEPT ![r].pc = pc] /\ UNCHANGED configuring
    <3>1. PICK pc \in {"create", "done"} :
               request' = [request EXCEPT ![r].pc = pc] /\ UNCHANGED configuring
      BY <2>3
    <3> DEFINE next == [request[r] EXCEPT !.pc = pc]
    <3>2. next \in RequestRun /\ next.pc = pc /\ next.user = request[r].user
      BY <2>1 DEF RequestRun, RequestPc
    <3>3. request' = [request EXCEPT ![r] = next]
      BY <3>1
    <3> HIDE DEF next
    <3>4. TypeOK'
      BY <2>2, <3>1, <3>2, <3>3 DEF TypeInv, TypeOK
    <3>5. \A q \in DeployRequests : request'[q] = IF q = r THEN next ELSE request[q]
      BY <3>3 DEF TypeInv, TypeOK
    <3>6. OrdersHaveUsers'
      BY <2>2, <2>1, <3>1, <3>2, <3>5 DEF TypeInv, OrdersHaveUsers, RunFits, InFlight
    <3>7. QED
      BY <3>4, <3>6 DEF TypeInv
  <2>4. CASE /\ configuring' = [configuring EXCEPT ![r] = request[r].user]
             /\ \E o \in DeployOrderIds : /\ deployUser[o] = request[r].user
                   /\ request' = [request EXCEPT ![r].pc = "save", ![r].order = o, ![r].task = deployTaskId[o]]
    <3>1. PICK o \in DeployOrderIds : /\ deployUser[o] = request[r].user
             /\ request' = [request EXCEPT ![r].pc = "save", ![r].order = o, ![r].task = deployTaskId[o]]
      BY <2>4
    <3> DEFINE next == [request[r] EXCEPT !.pc = "save", !.order = o, !.task = deployTaskId[o]]
    <3>2. deployTaskId[o] \in DeployTaskIds \union {NoId}
      BY DEF TypeInv, TypeOK
    <3>3. next \in RequestRun /\ next.pc = "save" /\ next.user = request[r].user /\ next.order = o
      BY <2>1, <3>2 DEF RequestRun, RequestPc
    <3>4. request' = [request EXCEPT ![r] = next]
      BY <3>1
    <3> HIDE DEF next
    <3>5. configuring' \in [DeployRequests -> Users \union {NoUser}]
      BY <2>1, <2>4 DEF TypeInv, TypeOK
    <3>6. TypeOK'
      BY <2>2, <3>3, <3>4, <3>5 DEF TypeInv, TypeOK
    <3>7. \A q \in DeployRequests : request'[q] = IF q = r THEN next ELSE request[q]
      BY <3>4 DEF TypeInv, TypeOK
    <3>8. (\A d \in Dispatchers : RunFits(disp[d]))'
      BY <2>2 DEF TypeInv, OrdersHaveUsers, RunFits
    <3>9. OrdersHaveUsers'
      BY <2>2, <2>1, <3>1, <3>3, <3>7, <3>8 DEF TypeInv, OrdersHaveUsers, InFlight
    <3>10. QED
      BY <3>6, <3>9 DEF TypeInv
  <2>5. QED
    BY <1>2, <2>3, <2>4 DEF Found
<1>3. ASSUME NEW r \in DeployRequests, CreateOrder(r)
      PROVE  TypeInv'
  <2> DEFINE next == [request[r] EXCEPT !.pc = "done"]
  <2>1. request[r] \in RequestRun /\ request[r].user \in Users
    BY <1>3 DEF CreateOrder, TypeInv, TypeOK, OrdersHaveUsers, InFlight
  <2>2. next \in RequestRun /\ next.pc = "done"
    BY <2>1 DEF RequestRun, RequestPc
  <2>3. request' = [request EXCEPT ![r] = next]
    BY <1>3 DEF CreateOrder
  <2> HIDE DEF next
  <2>4. PICK o \in DeployOrderIds :
           /\ deployUser' = [deployUser EXCEPT ![o] = request[r].user]
           /\ deployState' = [deployState EXCEPT ![o] = "pending"]
           /\ deployCreatedAt' = [deployCreatedAt EXCEPT ![o] = clock]
    BY <1>3 DEF CreateOrder
  <2>5. /\ deployUser' \in [DeployOrderIds -> Users \union {NoUser}]
        /\ deployState' \in [DeployOrderIds -> RowState]
        /\ deployCreatedAt' \in [DeployOrderIds -> Nat]
        /\ clock' \in Nat \ {0}
    BY <1>3, <2>1, <2>4 DEF CreateOrder, TypeInv, TypeOK, RowState
  <2>6. \A p \in DeployOrderIds : deployUser[p] \in Users => deployUser'[p] \in Users
    BY <2>1, <2>4 DEF TypeInv, TypeOK
  <2>7. \A p \in DeployOrderIds : deployState'[p] = "pending" => deployUser'[p] \in Users
    BY <2>1, <2>4 DEF TypeInv, TypeOK, OrdersHaveUsers
  <2>8. TypeOK'
    BY <1>3, <2>2, <2>3, <2>5 DEF CreateOrder, TypeInv, TypeOK
  <2>9. \A q \in DeployRequests : request'[q] = IF q = r THEN next ELSE request[q]
    BY <2>3 DEF TypeInv, TypeOK
  <2>10. \A d \in Dispatchers : RunFits(disp[d])'
    <3>1. TAKE d \in Dispatchers
    <3>2. disp[d] \in DispatcherRun /\ RunFits(disp[d]) /\ disp'[d] = disp[d]
      BY <1>3 DEF CreateOrder, TypeInv, TypeOK, OrdersHaveUsers
    <3>3. disp[d].deploy \in DeployOrderIds \union {NoId}
      BY <3>2 DEF DispatcherRun
    <3>4. QED
      BY <2>6, <3>2, <3>3 DEF RunFits
  <2>11. OrdersHaveUsers'
    BY <1>3, <2>2, <2>6, <2>7, <2>9, <2>10 DEF CreateOrder, TypeInv, OrdersHaveUsers, InFlight
  <2>12. QED
    BY <2>8, <2>11 DEF TypeInv
<1>4. ASSUME NEW r \in DeployRequests, RetryOrder(r)
      PROVE  TypeInv'
  <2> DEFINE next == [request[r] EXCEPT !.pc = "done"]
  <2>1. /\ request[r] \in RequestRun /\ request[r].order \in DeployOrderIds
        /\ deployUser[request[r].order] \in Users
    BY <1>4 DEF RetryOrder, TypeInv, TypeOK, OrdersHaveUsers
  <2>2. request[r].task \in DeployTaskIds \union {NoId} /\ next \in RequestRun /\ next.pc = "done"
    BY <2>1 DEF RequestRun, RequestPc
  <2>3. request' = [request EXCEPT ![r] = next]
    BY <1>4 DEF RetryOrder
  <2> HIDE DEF next
  <2>4. TypeOK'
    BY <1>4, <2>2, <2>3 DEF RetryOrder, TypeInv, TypeOK, RowState
  <2>5. \A q \in DeployRequests : request'[q] = IF q = r THEN next ELSE request[q]
    BY <2>3 DEF TypeInv, TypeOK
  <2>6. OrdersHaveUsers'
    BY <1>4, <2>1, <2>2, <2>5 DEF RetryOrder, TypeInv, TypeOK, OrdersHaveUsers, RunFits, InFlight
  <2>7. QED
    BY <2>4, <2>6 DEF TypeInv
<1>5. ASSUME NEW r \in DeployRequests, ConfigureSite(r)
      PROVE  TypeInv'
  BY <1>5 DEF ConfigureSite, TypeInv, TypeOK, OrdersHaveUsers, RunFits, InFlight, RequestRun, RequestPc,
         JobState, RowState, SiteStatus, PublishState
<1>6. ASSUME NEW u \in Users, SavePost(u)
      PROVE  TypeInv'
  BY <1>6 DEF SavePost, TypeInv, TypeOK, OrdersHaveUsers, RunFits, InFlight, RequestRun, RequestPc,
         JobState, RowState, SiteStatus, PublishState
<1>7. ASSUME NEW u \in Users, PostJobEnds(u)
      PROVE  TypeInv'
  <2>1. PublishOrder(u) => /\ publishCreatedAt' \in [Users -> Nat]
                           /\ clock' \in Nat \ {0}
    BY DEF PublishOrder, TypeInv, TypeOK
  <2>2. TypeOK'
    BY <1>7, <2>1 DEF PostJobEnds, TypeInv, TypeOK, RowState
  <2>3. OrdersHaveUsers'
    BY <1>7 DEF PostJobEnds, TypeInv, OrdersHaveUsers, RunFits, InFlight
  <2>4. QED
    BY <2>2, <2>3 DEF TypeInv
<1>8. ASSUME NEW u \in Users, PublishJobEnds(u)
      PROVE  TypeInv'
  BY <1>8 DEF PublishJobEnds, TypeInv, TypeOK, OrdersHaveUsers, RunFits, InFlight, RequestRun, RequestPc,
         JobState, RowState, SiteStatus, PublishState
<1>9. ASSUME NEW u \in Users, SetPublished(u)
      PROVE  TypeInv'
  BY <1>9 DEF SetPublished, TypeInv, TypeOK, OrdersHaveUsers, RunFits, InFlight, RequestRun, RequestPc,
         JobState, RowState, SiteStatus, PublishState
<1>10. ASSUME NEW d \in Dispatchers, DispatchNextTask(d) \/ NextTask(d)
      PROVE  TypeInv'
  <2>1. disp[d] \in DispatcherRun /\ RunFits(disp[d])
    BY DEF TypeInv, TypeOK, OrdersHaveUsers
  <2> DEFINE next == [disp[d] EXCEPT !.pc = "deploy"]
  <2>2. next \in DispatcherRun /\ next.pc = "deploy" /\ next.deploy = disp[d].deploy
    <3>1. "deploy" \in DispatcherPc
      BY DEF DispatcherPc
    <3>2. QED
      BY <2>1, <3>1, Moved
  <2>3. disp' = [disp EXCEPT ![d] = next] /\ UNCHANGED deployUser
    BY <1>10 DEF DispatchNextTask, NextTask, BelowWipLimit
  <2> HIDE DEF next
  <2>4. RunFits(next)
    BY <2>1, <2>2 DEF RunFits, PreparesDeployment
  <2>5. /\ disp' \in [Dispatchers -> DispatcherRun]
        /\ (\A e \in Dispatchers : RunFits(disp[e]))'
    BY <2>2, <2>3, <2>4, DispatcherMoves
  <2>6. QED
    BY <1>10, <2>5 DEF DispatchNextTask, NextTask, BelowWipLimit, AdministratorAsks, TypeInv, TypeOK,
       OrdersHaveUsers, InFlight
<1>11. ASSUME NEW d \in Dispatchers, ReadDeploy(d)
      PROVE  TypeInv'
  <2>1. disp[d] \in DispatcherRun /\ RunFits(disp[d])
    BY DEF TypeInv, TypeOK, OrdersHaveUsers
  <2>2. PICK o \in DeployOptions \union {NoId} :
           disp' = [disp EXCEPT ![d].pc = "publish", ![d].deploy = o]
    BY <1>11, FirstIsOption DEF ReadDeploy
  <2> DEFINE next == [disp[d] EXCEPT !.pc = "publish", !.deploy = o]
  <2>3. o = NoId \/ (o \in DeployOrderIds /\ deployUser[o] \in Users)
    BY <2>2 DEF DeployOptions, TypeInv, OrdersHaveUsers
  <2>4. next \in DispatcherRun /\ next.pc = "publish" /\ next.deploy = o
    BY <2>1, <2>3 DEF DispatcherRun, DispatcherPc
  <2>5. disp' = [disp EXCEPT ![d] = next] /\ UNCHANGED deployUser
    BY <1>11, <2>2 DEF ReadDeploy
  <2> HIDE DEF next
  <2>6. RunFits(next)
    BY <2>3, <2>4 DEF RunFits, PreparesDeployment
  <2>7. /\ disp' \in [Dispatchers -> DispatcherRun]
        /\ (\A e \in Dispatchers : RunFits(disp[e]))'
    BY <2>4, <2>5, <2>6, DispatcherMoves
  <2>8. QED
    BY <1>11, <2>7 DEF ReadDeploy, TypeInv, TypeOK, OrdersHaveUsers, InFlight
<1>12. ASSUME NEW d \in Dispatchers, ReadPublish(d)
      PROVE  TypeInv'
  <2>1. disp[d] \in DispatcherRun /\ RunFits(disp[d])
    BY DEF TypeInv, TypeOK, OrdersHaveUsers
  <2>2. PICK u \in Users \union {NoUser} :
           disp' = [disp EXCEPT ![d].pc = "post", ![d].publish = u]
    BY <1>12, FirstIsOption DEF ReadPublish, PublishOptions
  <2> DEFINE next == [disp[d] EXCEPT !.pc = "post", !.publish = u]
  <2>3. next \in DispatcherRun /\ next.pc = "post" /\ next.deploy = disp[d].deploy
    BY <2>1 DEF DispatcherRun, DispatcherPc
  <2>4. disp' = [disp EXCEPT ![d] = next] /\ UNCHANGED deployUser
    BY <1>12, <2>2 DEF ReadPublish
  <2> HIDE DEF next
  <2>5. RunFits(next)
    BY <2>1, <2>3 DEF RunFits, PreparesDeployment
  <2>6. /\ disp' \in [Dispatchers -> DispatcherRun]
        /\ (\A e \in Dispatchers : RunFits(disp[e]))'
    BY <2>3, <2>4, <2>5, DispatcherMoves
  <2>7. QED
    BY <1>12, <2>6 DEF ReadPublish, TypeInv, TypeOK, OrdersHaveUsers, InFlight
<1>13. ASSUME NEW d \in Dispatchers, DispatchOldestOrder(d)
      PROVE  TypeInv'
  <2>1. disp[d] \in DispatcherRun /\ RunFits(disp[d])
    BY DEF TypeInv, TypeOK, OrdersHaveUsers
  <2> DEFINE post == First(PostOptions, postCreatedAt, NoUser)
             created == (IF disp[d].deploy = NoId THEN {} ELSE {deployCreatedAt[disp[d].deploy]})
                          \union (IF disp[d].publish = NoUser THEN {} ELSE {publishCreatedAt[disp[d].publish]})
                          \union (IF post = NoUser THEN {} ELSE {postCreatedAt[post]})
             Oldest(at) == \A c \in created : at <= c
             next == CASE disp[d].deploy # NoId /\ Oldest(deployCreatedAt[disp[d].deploy]) ->
                            [Idle EXCEPT !.pc = "validate", !.user = deployUser[disp[d].deploy]]
                       [] disp[d].publish # NoUser /\ Oldest(publishCreatedAt[disp[d].publish]) ->
                            [Idle EXCEPT !.pc = "publishSite", !.user = disp[d].publish]
                       [] post # NoUser /\ Oldest(postCreatedAt[post]) ->
                            [Idle EXCEPT !.pc = "createPosts", !.user = post]
                       [] OTHER -> Idle
  <2>2. disp' = [disp EXCEPT ![d] = next] /\ UNCHANGED deployUser
    BY <1>13 DEF DispatchOldestOrder
  <2>3. post \in Users \union {NoUser}
    BY FirstIsOption DEF PostOptions
  <2>4. disp[d].publish \in Users \union {NoUser}
    BY <2>1 DEF DispatcherRun
  <2>5. disp[d].deploy # NoId => deployUser[disp[d].deploy] \in Users
    BY <2>1 DEF RunFits
  <2> HIDE DEF post, Oldest
  <2>6. \/ \E u \in Users : next = [Idle EXCEPT !.pc = "validate", !.user = u]
        \/ \E u \in Users \union {NoUser}, p \in {"publishSite", "createPosts"} :
              next = [Idle EXCEPT !.pc = p, !.user = u]
        \/ next = Idle
    <3>1. \/ /\ disp[d].deploy # NoId
             /\ next = [Idle EXCEPT !.pc = "validate", !.user = deployUser[disp[d].deploy]]
          \/ next = [Idle EXCEPT !.pc = "publishSite", !.user = disp[d].publish]
          \/ next = [Idle EXCEPT !.pc = "createPosts", !.user = post]
          \/ next = Idle
      OBVIOUS
    <3> HIDE DEF next
    <3>2. QED
      BY <2>3, <2>4, <2>5, <3>1
  <2>7. "validate" \in DispatcherPc /\ "publishSite" \in DispatcherPc /\ "createPosts" \in DispatcherPc
    BY DEF DispatcherPc
  <2> HIDE DEF next
  <2>8. next \in DispatcherRun /\ RunFits(next)
    <3>1. ASSUME NEW u \in Users \union {NoUser}, NEW p \in DispatcherPc, next = [Idle EXCEPT !.pc = p, !.user = u]
          PROVE  next \in DispatcherRun /\ next.pc = p /\ next.user = u /\ next.deploy = NoId
      BY <3>1, IdleRuns DEF DispatcherRun
    <3>2. CASE \E u \in Users : next = [Idle EXCEPT !.pc = "validate", !.user = u]
      BY <2>7, <3>1, <3>2 DEF RunFits
    <3>3. CASE \E u \in Users \union {NoUser}, p \in {"publishSite", "createPosts"} :
                  next = [Idle EXCEPT !.pc = p, !.user = u]
      BY <2>7, <3>1, <3>3 DEF PreparesDeployment, RunFits
    <3>4. CASE next = Idle
      BY <3>4, IdleRuns, IdleFits
    <3>5. QED
      BY <2>6, <3>2, <3>3, <3>4
  <2>9. /\ disp' \in [Dispatchers -> DispatcherRun]
        /\ (\A e \in Dispatchers : RunFits(disp[e]))'
    BY <2>2, <2>8, DispatcherMoves
  <2>10. QED
    BY <1>13, <2>9 DEF DispatchOldestOrder, TypeInv, TypeOK, OrdersHaveUsers, InFlight
<1>14. ASSUME NEW d \in Dispatchers, ReadSite(d)
      PROVE  TypeInv'
  <2>1. disp[d] \in DispatcherRun /\ RunFits(disp[d])
    BY DEF TypeInv, TypeOK, OrdersHaveUsers
  <2> DEFINE next == [disp[d] EXCEPT !.pc = "order", !.status = siteStatus[disp[d].user]]
  <2>2. disp[d].pc = "validate" /\ disp[d].user \in Users
    BY <1>14, <2>1 DEF ReadSite, RunFits, PreparesDeployment
  <2>3. /\ next \in DispatcherRun /\ next.pc = "order"
        /\ next.deploy = disp[d].deploy /\ next.user = disp[d].user
    BY <2>1, <2>2 DEF DispatcherRun, DispatcherPc, TypeInv, TypeOK
  <2>4. disp' = [disp EXCEPT ![d] = next] /\ UNCHANGED deployUser
    BY <1>14 DEF ReadSite
  <2> HIDE DEF next
  <2>5. RunFits(next)
    BY <2>1, <2>2, <2>3 DEF RunFits
  <2>6. /\ disp' \in [Dispatchers -> DispatcherRun]
        /\ (\A e \in Dispatchers : RunFits(disp[e]))'
    BY <2>3, <2>4, <2>5, DispatcherMoves
  <2>7. QED
    BY <1>14, <2>6 DEF ReadSite, TypeInv, TypeOK, OrdersHaveUsers, InFlight
<1>15. ASSUME NEW d \in Dispatchers, ReadOrder(d)
      PROVE  TypeInv'
  <2>1. disp[d] \in DispatcherRun /\ RunFits(disp[d])
    BY DEF TypeInv, TypeOK, OrdersHaveUsers
  <2>2. disp[d].user \in Users
    BY <1>15, <2>1 DEF ReadOrder, RunFits, PreparesDeployment
  <2>3. CASE disp' = [disp EXCEPT ![d] = Idle]
    <3>1. /\ disp' \in [Dispatchers -> DispatcherRun]
          /\ (\A e \in Dispatchers : RunFits(disp[e]))'
      BY <1>15, <2>3, IdleRuns, IdleFits, DispatcherMoves DEF ReadOrder
    <3>2. QED
      BY <1>15, <3>1 DEF ReadOrder, TypeInv, TypeOK, OrdersHaveUsers, InFlight
  <2>4. CASE \E p \in {"resetOrder", "generate"}, o \in DeployOrderIds :
               /\ deployUser[o] = disp[d].user
               /\ disp' = [disp EXCEPT ![d].pc = p, ![d].order = o]
    <3>1. PICK p \in {"resetOrder", "generate"}, o \in DeployOrderIds :
               /\ deployUser[o] = disp[d].user
               /\ disp' = [disp EXCEPT ![d].pc = p, ![d].order = o]
      BY <2>4
    <3> DEFINE next == [disp[d] EXCEPT !.pc = p, !.order = o]
    <3>2. /\ next \in DispatcherRun /\ next.pc = p /\ next.order = o
          /\ next.deploy = disp[d].deploy /\ next.user = disp[d].user
      BY <2>1 DEF DispatcherRun, DispatcherPc
    <3>3. disp' = [disp EXCEPT ![d] = next] /\ UNCHANGED deployUser
      BY <1>15, <3>1 DEF ReadOrder
    <3> HIDE DEF next
    <3>4. RunFits(next)
      BY <2>1, <2>2, <3>1, <3>2 DEF RunFits
    <3>5. /\ disp' \in [Dispatchers -> DispatcherRun]
          /\ (\A e \in Dispatchers : RunFits(disp[e]))'
      BY <3>2, <3>3, <3>4, DispatcherMoves
    <3>6. QED
      BY <1>15, <3>5 DEF ReadOrder, TypeInv, TypeOK, OrdersHaveUsers, InFlight
  <2>5. QED
    <3> DEFINE found == {o \in DeployOrderIds : deployUser[o] = disp[d].user}
               place == CASE disp[d].status = "DEPLOY_FAILED" -> "resetOrder"
                          [] disp[d].status = "CONFIGURED" -> "generate"
                          [] OTHER -> "idle"
    <3>1. place \in {"resetOrder", "generate", "idle"}
      OBVIOUS
    <3>2. \/ disp' = [disp EXCEPT ![d] = Idle]
          \/ /\ place # "idle"
             /\ \E o \in found : disp' = [disp EXCEPT ![d].pc = place, ![d].order = o]
      BY <1>15 DEF ReadOrder
    <3> HIDE DEF place
    <3>3. QED
      BY <2>3, <2>4, <3>1, <3>2
<1>16. ASSUME NEW d \in Dispatchers, ResetOrder(d)
      PROVE  TypeInv'
  <2>1. Advance(d, "resetOrder", "resetStatus") /\ UNCHANGED deployUser
    BY <1>16 DEF ResetOrder
  <2>2. /\ disp' \in [Dispatchers -> DispatcherRun]
        /\ (\A e \in Dispatchers : RunFits(disp[e]))'
        /\ disp[d] \in DispatcherRun /\ disp[d].user \in Users
    BY <2>1, AdvanceFits DEF PreparesDeployment
  <2>3. TypeOK'
    BY <1>16, <2>2 DEF ResetOrder, DispatcherRun, TypeInv, TypeOK, RowState, SiteStatus
  <2>4. OrdersHaveUsers'
    BY <1>16, <2>1, <2>2 DEF Advance, ResetOrder, TypeInv, TypeOK, OrdersHaveUsers, InFlight, RunFits
  <2>5. QED
    BY <2>3, <2>4 DEF TypeInv
<1>17. ASSUME NEW d \in Dispatchers, ResetStatus(d)
      PROVE  TypeInv'
  <2>1. Advance(d, "resetStatus", "generate") /\ UNCHANGED deployUser
    BY <1>17 DEF ResetStatus
  <2>2. /\ disp' \in [Dispatchers -> DispatcherRun]
        /\ (\A e \in Dispatchers : RunFits(disp[e]))'
        /\ disp[d] \in DispatcherRun /\ disp[d].user \in Users
    BY <2>1, AdvanceFits DEF PreparesDeployment
  <2>3. TypeOK'
    BY <1>17, <2>2 DEF ResetStatus, DispatcherRun, TypeInv, TypeOK, RowState, SiteStatus
  <2>4. OrdersHaveUsers'
    BY <1>17, <2>2 DEF ResetStatus, TypeInv, TypeOK, OrdersHaveUsers, InFlight
  <2>5. QED
    BY <2>3, <2>4 DEF TypeInv
<1>18. ASSUME NEW d \in Dispatchers, GenerateTask(d)
      PROVE  TypeInv'
  <2>1. disp[d] \in DispatcherRun /\ RunFits(disp[d])
    BY DEF TypeInv, TypeOK, OrdersHaveUsers
  <2>2. PICK t \in DeployTaskIds :
           /\ taskState' = [taskState EXCEPT ![t] = "pending"]
           /\ taskUser' = [taskUser EXCEPT ![t] = disp[d].user]
           /\ disp' = [disp EXCEPT ![d].pc = "link", ![d].task = t]
    BY <1>18 DEF GenerateTask
  <2> DEFINE next == [disp[d] EXCEPT !.pc = "link", !.task = t]
  <2>3. disp[d].user \in Users
    BY <1>18, <2>1 DEF GenerateTask, RunFits, PreparesDeployment
  <2>4. /\ next \in DispatcherRun /\ next.pc = "link"
        /\ next.deploy = disp[d].deploy /\ next.user = disp[d].user
    BY <2>1 DEF DispatcherRun, DispatcherPc
  <2>5. disp' = [disp EXCEPT ![d] = next] /\ UNCHANGED deployUser
    <3>1. UNCHANGED deployUser
      BY <1>18 DEF GenerateTask
    <3>2. QED
      BY <2>2, <3>1
  <2> HIDE DEF next
  <2>6. RunFits(next)
    BY <2>1, <2>3, <2>4 DEF RunFits
  <2>7. /\ disp' \in [Dispatchers -> DispatcherRun]
        /\ (\A e \in Dispatchers : RunFits(disp[e]))'
    BY <2>4, <2>5, <2>6, DispatcherMoves
  <2>8. TypeOK'
    BY <1>18, <2>2, <2>3, <2>7 DEF GenerateTask, TypeInv, TypeOK, RowState
  <2>9. OrdersHaveUsers'
    BY <1>18, <2>7 DEF GenerateTask, TypeInv, OrdersHaveUsers, InFlight
  <2>10. QED
    BY <2>8, <2>9 DEF TypeInv
<1>19. ASSUME NEW d \in Dispatchers, LinkOrder(d)
      PROVE  TypeInv'
  <2>1. Advance(d, "link", "doingTask") /\ UNCHANGED deployUser
    BY <1>19 DEF LinkOrder
  <2>2. /\ disp' \in [Dispatchers -> DispatcherRun]
        /\ (\A e \in Dispatchers : RunFits(disp[e]))'
        /\ disp[d] \in DispatcherRun /\ disp[d].user \in Users
    BY <2>1, AdvanceFits DEF PreparesDeployment
  <2>3. TypeOK'
    BY <1>19, <2>2 DEF LinkOrder, DispatcherRun, TypeInv, TypeOK, RowState, SiteStatus
  <2>4. OrdersHaveUsers'
    BY <1>19, <2>2 DEF LinkOrder, TypeInv, TypeOK, OrdersHaveUsers, InFlight
  <2>5. QED
    BY <2>3, <2>4 DEF TypeInv
<1>20. ASSUME NEW d \in Dispatchers, DoingTask(d)
      PROVE  TypeInv'
  <2>1. Advance(d, "doingTask", "doingOrder") /\ UNCHANGED deployUser
    BY <1>20 DEF DoingTask
  <2>2. /\ disp' \in [Dispatchers -> DispatcherRun]
        /\ (\A e \in Dispatchers : RunFits(disp[e]))'
        /\ disp[d] \in DispatcherRun /\ disp[d].user \in Users
    BY <2>1, AdvanceFits DEF PreparesDeployment
  <2>3. TypeOK'
    BY <1>20, <2>2 DEF DoingTask, DispatcherRun, TypeInv, TypeOK, RowState, SiteStatus
  <2>4. OrdersHaveUsers'
    BY <1>20, <2>2 DEF DoingTask, TypeInv, TypeOK, OrdersHaveUsers, InFlight
  <2>5. QED
    BY <2>3, <2>4 DEF TypeInv
<1>21. ASSUME NEW d \in Dispatchers, DoingOrder(d)
      PROVE  TypeInv'
  <2>1. Advance(d, "doingOrder", "doingStatus") /\ UNCHANGED deployUser
    BY <1>21 DEF DoingOrder
  <2>2. /\ disp' \in [Dispatchers -> DispatcherRun]
        /\ (\A e \in Dispatchers : RunFits(disp[e]))'
        /\ disp[d] \in DispatcherRun /\ disp[d].user \in Users
    BY <2>1, AdvanceFits DEF PreparesDeployment
  <2>3. TypeOK'
    BY <1>21, <2>2 DEF DoingOrder, DispatcherRun, TypeInv, TypeOK, RowState, SiteStatus
  <2>4. OrdersHaveUsers'
    BY <1>21, <2>2 DEF DoingOrder, TypeInv, TypeOK, OrdersHaveUsers, InFlight
  <2>5. QED
    BY <2>3, <2>4 DEF TypeInv
<1>22. ASSUME NEW d \in Dispatchers, DoingStatus(d)
      PROVE  TypeInv'
  <2>1. Advance(d, "doingStatus", "config") /\ UNCHANGED deployUser
    BY <1>22 DEF DoingStatus
  <2>2. /\ disp' \in [Dispatchers -> DispatcherRun]
        /\ (\A e \in Dispatchers : RunFits(disp[e]))'
        /\ disp[d] \in DispatcherRun /\ disp[d].user \in Users
    BY <2>1, AdvanceFits DEF PreparesDeployment
  <2>3. TypeOK'
    BY <1>22, <2>2 DEF DoingStatus, DispatcherRun, TypeInv, TypeOK, RowState, SiteStatus
  <2>4. OrdersHaveUsers'
    BY <1>22, <2>2 DEF DoingStatus, TypeInv, TypeOK, OrdersHaveUsers, InFlight
  <2>5. QED
    BY <2>3, <2>4 DEF TypeInv
<1>23. ASSUME NEW d \in Dispatchers, DispatchDeploy(d)
      PROVE  TypeInv'
  <2>1. /\ disp' \in [Dispatchers -> DispatcherRun]
        /\ (\A e \in Dispatchers : RunFits(disp[e]))'
    <3>1. CASE disp' = [disp EXCEPT ![d] = Idle]
      BY <1>23, <3>1, IdleRuns, IdleFits, DispatcherMoves DEF DispatchDeploy
    <3>2. CASE Advance(d, "config", "failing")
      BY <1>23, <3>2, AdvanceFits DEF DispatchDeploy, PreparesDeployment
    <3>3. QED
      BY <1>23, <3>1, <3>2 DEF DispatchDeploy, Advance
  <2>2. TypeOK'
    BY <1>23, <2>1 DEF DispatchDeploy, TypeInv, TypeOK, JobState
  <2>3. OrdersHaveUsers'
    BY <1>23, <2>1 DEF DispatchDeploy, TypeInv, OrdersHaveUsers, InFlight
  <2>4. QED
    BY <2>2, <2>3 DEF TypeInv
<1>24. ASSUME NEW d \in Dispatchers, DispatchFailed(d)
      PROVE  TypeInv'
  <2>1. /\ disp' \in [Dispatchers -> DispatcherRun]
        /\ (\A e \in Dispatchers : RunFits(disp[e]))'
    BY <1>24, IdleRuns, IdleFits, DispatcherMoves DEF DispatchFailed
  <2>2. TypeOK'
    BY <1>24, <2>1 DEF DispatchFailed, TypeInv, TypeOK
  <2>3. OrdersHaveUsers'
    BY <1>24, <2>1 DEF DispatchFailed, TypeInv, OrdersHaveUsers, InFlight
  <2>4. QED
    BY <2>2, <2>3 DEF TypeInv
<1>25. ASSUME NEW d \in Dispatchers, CreatePosts(d)
      PROVE  TypeInv'
  <2>1. /\ disp' \in [Dispatchers -> DispatcherRun]
        /\ (\A e \in Dispatchers : RunFits(disp[e]))'
    BY <1>25, IdleRuns, IdleFits, DispatcherMoves DEF CreatePosts
  <2>2. TypeOK'
    BY <1>25, <2>1 DEF CreatePosts, TypeInv, TypeOK, RowState
  <2>3. OrdersHaveUsers'
    BY <1>25, <2>1 DEF CreatePosts, TypeInv, OrdersHaveUsers, InFlight
  <2>4. QED
    BY <2>2, <2>3 DEF TypeInv
<1>26. ASSUME NEW d \in Dispatchers, PublishSite(d)
      PROVE  TypeInv'
  <2>1. /\ disp' \in [Dispatchers -> DispatcherRun]
        /\ (\A e \in Dispatchers : RunFits(disp[e]))'
    BY <1>26, IdleRuns, IdleFits, DispatcherMoves DEF PublishSite
  <2>2. TypeOK'
    BY <1>26, <2>1 DEF PublishSite, TypeInv, TypeOK, SiteStatus, PublishState
  <2>3. OrdersHaveUsers'
    BY <1>26, <2>1 DEF PublishSite, TypeInv, OrdersHaveUsers, InFlight
  <2>4. QED
    BY <2>2, <2>3 DEF TypeInv
<1>27. ASSUME NEW t \in DeployTaskIds, DeployCompleted(t)
      PROVE  TypeInv'
  BY <1>27 DEF DeployCompleted, AdvanceJob, TypeInv, TypeOK, OrdersHaveUsers, RunFits, InFlight,
     RequestRun, RequestPc,
         JobState, RowState, SiteStatus, PublishState
<1>28. ASSUME NEW t \in DeployTaskIds, DeployFailed(t)
      PROVE  TypeInv'
  BY <1>28 DEF DeployFailed, AdvanceJob, TypeInv, TypeOK, OrdersHaveUsers, RunFits, InFlight,
     RequestRun, RequestPc,
         JobState, RowState, SiteStatus, PublishState
<1>29. ASSUME NEW t \in DeployTaskIds, FinishDeploySiteTask(t)
      PROVE  TypeInv'
  <2>1. \A from, to \in JobState, state \in RowState \ {"pending"}, status \in SiteStatus :
           EndTask(t, from, to, state) \/ EndOrder(t, from, to, state) \/ EndStatus(t, from, to, status)
             => TypeInv'
    BY EndTypes
  <2>2. QED
    BY <1>29, <2>1 DEF FinishDeploySiteTask, JobState, RowState, SiteStatus
<1>30. ASSUME NEW t \in DeployTaskIds, FailDeploySiteTask(t)
      PROVE  TypeInv'
  <2>1. \A from, to \in JobState, state \in RowState \ {"pending"}, status \in SiteStatus :
           EndTask(t, from, to, state) \/ EndOrder(t, from, to, state) \/ EndStatus(t, from, to, status)
             => TypeInv'
    BY EndTypes
  <2>2. QED
    BY <1>30, <2>1 DEF FailDeploySiteTask, JobState, RowState, SiteStatus
<1>31. ASSUME NEW t \in DeployTaskIds, GeneratePublishSiteOrder(t)
      PROVE  TypeInv'
  BY <1>31 DEF GeneratePublishSiteOrder, PublishOrder, AdvanceJob, TypeInv, TypeOK, OrdersHaveUsers,
     RunFits, InFlight, RequestRun, RequestPc,
         JobState, RowState, SiteStatus, PublishState
<1>32. CASE Restart
  <2>1. disp' = [d \in Dispatchers |-> Idle]
    BY <1>32 DEF Restart
  <2>2. disp' \in [Dispatchers -> DispatcherRun] /\ \A d \in Dispatchers : disp'[d] = Idle
    BY <2>1, IdleRuns
  <2>3. \A r \in DeployRequests : request'[r] = IF InFlight(r) THEN [request[r] EXCEPT !.pc = "lost"] ELSE request[r]
    BY <1>32 DEF Restart
  <2>4. \A r \in DeployRequests : /\ request'[r] \in RequestRun
                                  /\ request'[r] = request[r] \/ request'[r].pc = "lost"
    <3>1. SUFFICES ASSUME NEW r \in DeployRequests
                   PROVE  /\ request'[r] \in RequestRun
                          /\ request'[r] = request[r] \/ request'[r].pc = "lost"
      OBVIOUS
    <3>2. request[r] \in RequestRun
      BY DEF TypeInv, TypeOK
    <3>3. [request[r] EXCEPT !.pc = "lost"] \in RequestRun /\ [request[r] EXCEPT !.pc = "lost"].pc = "lost"
      BY <3>2 DEF RequestRun, RequestPc
    <3>4. QED
      BY <2>3, <3>2, <3>3
  <2>5. TypeOK'
    <3>1. request' \in [DeployRequests -> RequestRun]
      BY <1>32, <2>4 DEF Restart
    <3>2. QED
      BY <1>32, <2>2, <3>1 DEF Restart, TypeInv, TypeOK, JobState, PublishState
  <2>6. (\A d \in Dispatchers : RunFits(disp[d]))'
    BY <2>2, IdleRuns DEF RunFits, PreparesDeployment
  <2>7. OrdersHaveUsers'
    <3>1. UNCHANGED <<deployState, deployUser>>
      BY <1>32 DEF Restart
    <3>2. QED
      BY <2>4, <2>6, <3>1 DEF TypeInv, OrdersHaveUsers, InFlight
  <2>8. QED
    BY <2>5, <2>7 DEF TypeInv
<1>33. CASE UNCHANGED vars
  BY <1>33 DEF vars, TypeInv, TypeOK, OrdersHaveUsers, RunFits, InFlight, RequestRun, RequestPc,
         JobState, RowState, SiteStatus, PublishState
<1>34. ASSUME NEW d \in Dispatchers, NEW u \in Users, DeploySite(d, u)
      PROVE  TypeInv'
  <2>1. disp[d] \in DispatcherRun /\ RunFits(disp[d])
    BY DEF TypeInv, TypeOK, OrdersHaveUsers
  <2> DEFINE next == [disp[d] EXCEPT !.pc = "validate", !.user = u]
  <2>2. next \in DispatcherRun /\ next.pc = "validate" /\ next.deploy = disp[d].deploy /\ next.user = u
    BY <2>1 DEF DispatcherRun, DispatcherPc
  <2>3. disp' = [disp EXCEPT ![d] = next] /\ UNCHANGED deployUser
    BY <1>34 DEF DeploySite
  <2> HIDE DEF next
  <2>4. RunFits(next)
    BY <2>1, <2>2 DEF RunFits
  <2>5. /\ disp' \in [Dispatchers -> DispatcherRun]
        /\ (\A e \in Dispatchers : RunFits(disp[e]))'
    BY <2>2, <2>3, <2>4, DispatcherMoves
  <2>6. QED
    BY <1>34, <2>5 DEF DeploySite, AdministratorAsks, TypeInv, TypeOK, OrdersHaveUsers, InFlight
<1>35. QED
  BY <1>34, <1>1, <1>2, <1>3, <1>4, <1>5, <1>6, <1>7, <1>8, <1>9, <1>10, <1>11, <1>12, <1>13, <1>14,
     <1>15, <1>16, <1>17, <1>18, <1>19, <1>20, <1>21, <1>22, <1>23, <1>24, <1>25, <1>26, <1>27, <1>28,
     <1>29, <1>30, <1>31, <1>32, <1>33 DEF RequestStep, FindOrder, OtherStep, DispatchStep,
     DeployJobStep, Next

\* TypeOK holds in every reachable state of any number of users, orders, tasks
\* and requests, whatever they do and wherever a restart hits.
THEOREM TypeCorrect == Spec => []TypeOK
<1>1. Init => TypeInv
  BY InitTypes
<1>2. TypeInv /\ [Next]_vars => TypeInv'
  BY NextTypes
<1>3. TypeInv => TypeOK
  BY DEF TypeInv
<1>4. QED
  BY <1>1, <1>2, <1>3, PTL DEF Spec

-----------------------------------------------------------------------------
(* Ownership. *)

HoldsTask == {"link", "doingTask", "doingOrder", "doingStatus", "config", "failing"}

\* The task a dispatcher works for is a task of the user it works for.
HasTask(run) ==
    run.pc \in HoldsTask => /\ run.task \in DeployTaskIds
                            /\ taskState[run.task] # "absent"
                            /\ taskUser[run.task] = run.user

DispatcherHasTask == \A d \in Dispatchers : HasTask(disp[d])

JobsHaveTasks == \A t \in DeployTaskIds : job[t] # "none" => taskState[t] # "absent"

OwnershipInv ==
    TypeInv /\ DispatcherHasTask /\ JobsHaveTasks /\ DeployingIsOwned /\ DeployOrderIsOwned

LEMMA InitOwned == Init => OwnershipInv
<1> SUFFICES ASSUME Init PROVE OwnershipInv
  OBVIOUS
<1>1. DispatcherHasTask
  BY IdleRuns DEF Init, DispatcherHasTask, HasTask, HoldsTask
<1>2. QED
  BY <1>1, InitTypes DEF Init, OwnershipInv, JobsHaveTasks, DeployingIsOwned, DeployOrderIsOwned

PreparingPc == {"link", "doingTask", "doingOrder", "doingStatus", "config"}

\* A dispatcher that prepares no job neither owns nor disowns anything, and what
\* else happens adds nothing that needs an owner.
LEMMA NothingPrepared ==
    ASSUME OwnershipInv, TypeInv', NEW d \in Dispatchers, NEW run,
           disp' = [disp EXCEPT ![d] = run],
           disp[d].pc \notin PreparingPc, run.pc \notin HoldsTask,
           UNCHANGED <<taskUser, taskState, job, deployTaskId>>,
           \A o \in DeployOrderIds : deployState'[o] = "doing" => deployState[o] = "doing",
           \A u \in Users : siteStatus'[u] = "DEPLOYING" => siteStatus[u] = "DEPLOYING"
    PROVE  OwnershipInv'
<1>1. \A e \in Dispatchers : disp'[e] = IF e = d THEN run ELSE disp[e]
  BY DEF OwnershipInv, TypeInv, TypeOK
<1>2. DispatcherHasTask'
  BY <1>1 DEF OwnershipInv, DispatcherHasTask, HasTask
<1>3. \A t \in DeployTaskIds : Preparing(t) => Preparing(t)'
  BY <1>1 DEF Preparing, PreparingPc
<1>4. DeployOrderIsOwned'
  BY <1>3 DEF OwnershipInv, DeployOrderIsOwned
<1>5. DeployingIsOwned'
  BY <1>1 DEF OwnershipInv, DeployingIsOwned, PreparingPc
<1>6. QED
  BY <1>2, <1>4, <1>5 DEF OwnershipInv, JobsHaveTasks

\* A dispatcher that goes on preparing its job still owns what it owned.
LEMMA StillPreparing ==
    ASSUME OwnershipInv, NEW d \in Dispatchers,
           NEW from \in PreparingPc \ {"config"}, NEW to \in PreparingPc, Advance(d, from, to)
    PROVE  /\ \A t \in DeployTaskIds : Preparing(t) => Preparing(t)'
           /\ \A e \in Dispatchers : /\ disp'[e].task = disp[e].task /\ disp'[e].user = disp[e].user
                                     /\ disp[e].pc = "config" => disp'[e].pc = "config"
                                     /\ disp'[e].pc \in HoldsTask => disp[e].pc \in HoldsTask
           /\ disp[d].pc = from /\ disp'[d].pc = to
           /\ Preparing(disp[d].task) /\ Preparing(disp[d].task)'
           /\ disp[d].task \in DeployTaskIds /\ disp[d].user = taskUser[disp[d].task]
           /\ taskState[disp[d].task] # "absent"
<1> DEFINE next == [disp[d] EXCEPT !.pc = to]
<1>1. /\ \A e \in Dispatchers : disp[e] \in DispatcherRun
      /\ HasTask(disp[d]) /\ disp[d].pc = from
  BY DEF OwnershipInv, TypeInv, TypeOK, DispatcherHasTask, Advance
<1>2. next.pc = to /\ next.user = disp[d].user /\ next.task = disp[d].task
  BY <1>1, Moved DEF PreparingPc, DispatcherPc
<1>3. \A e \in Dispatchers : disp'[e] = IF e = d THEN next ELSE disp[e]
  BY DEF Advance, OwnershipInv, TypeInv, TypeOK
<1> HIDE DEF next
<1>4. \A e \in Dispatchers : /\ disp'[e].task = disp[e].task /\ disp'[e].user = disp[e].user
                             /\ disp[e].pc = "config" => disp'[e].pc = "config"
                             /\ disp'[e].pc \in HoldsTask => disp[e].pc \in HoldsTask
                             /\ disp[e].pc \in PreparingPc => disp'[e].pc \in PreparingPc
  BY <1>1, <1>2, <1>3 DEF PreparingPc, HoldsTask
<1>5. \A t \in DeployTaskIds : Preparing(t) => Preparing(t)'
  BY <1>4 DEF Preparing, PreparingPc
<1>6. disp[d].pc = from /\ disp'[d].pc = to
  BY <1>1, <1>2, <1>3
<1>7. Preparing(disp[d].task) /\ Preparing(disp[d].task)'
  BY <1>4, <1>6 DEF Preparing, PreparingPc
<1>8. /\ disp[d].task \in DeployTaskIds /\ disp[d].user = taskUser[disp[d].task]
      /\ taskState[disp[d].task] # "absent"
  BY <1>1 DEF HasTask, HoldsTask, PreparingPc
<1>9. QED
  BY <1>4, <1>5, <1>6, <1>7, <1>8

\* What does not concern the owners when the place of one job changes.
LEMMA JobMoves ==
    ASSUME OwnershipInv, NEW t \in DeployTaskIds, NEW from \in JobState \ {"none"}, NEW to \in JobState,
           AdvanceJob(t, from, to), UNCHANGED <<taskUser, disp>>,
           \A s \in DeployTaskIds : taskState[s] # "absent" => taskState'[s] # "absent"
    PROVE  /\ DispatcherHasTask' /\ JobsHaveTasks'
           /\ \A s \in DeployTaskIds : job'[s] = IF s = t THEN to ELSE job[s]
           /\ \A s \in DeployTaskIds : Preparing(s)' <=> Preparing(s)
           /\ job[t] = from /\ taskState[t] # "absent"
<1>1. /\ \A s \in DeployTaskIds : job'[s] = IF s = t THEN to ELSE job[s]
      /\ job[t] = from /\ taskState[t] # "absent"
  BY DEF AdvanceJob, OwnershipInv, TypeInv, TypeOK, JobsHaveTasks
<1>2. DispatcherHasTask'
  BY DEF OwnershipInv, DispatcherHasTask, HasTask
<1>3. JobsHaveTasks'
  BY <1>1 DEF OwnershipInv, JobsHaveTasks
<1>4. \A s \in DeployTaskIds : Preparing(s)' <=> Preparing(s)
  BY DEF Preparing
<1>5. QED
  BY <1>1, <1>2, <1>3, <1>4

\* The first update at the end of a job is of the task,
LEMMA EndTaskOwned ==
    ASSUME OwnershipInv, TypeInv', NEW t \in DeployTaskIds, NEW state \in {"finished", "failed"},
           NEW from \in {"finishTask", "failTask"}, NEW to \in {"finishOrder", "failOrder"},
           EndTask(t, from, to, state)
    PROVE  OwnershipInv'
<1>1. /\ AdvanceJob(t, from, to)
      /\ UNCHANGED <<siteStatus, deployState, deployTaskId, taskUser, disp>>
      /\ \A s \in DeployTaskIds : taskState[s] # "absent" => taskState'[s] # "absent"
  BY DEF EndTask, OwnershipInv, TypeInv, TypeOK
<1>2. /\ DispatcherHasTask' /\ JobsHaveTasks'
      /\ \A s \in DeployTaskIds : job'[s] = IF s = t THEN to ELSE job[s]
      /\ \A s \in DeployTaskIds : Preparing(s)' <=> Preparing(s)
  BY <1>1, JobMoves DEF JobState
<1>3. DeployOrderIsOwned'
  BY <1>1, <1>2 DEF OwnershipInv, DeployOrderIsOwned
<1>4. DeployingIsOwned'
  BY <1>1, <1>2 DEF OwnershipInv, DeployingIsOwned
<1>5. QED
  BY <1>2, <1>3, <1>4 DEF OwnershipInv

\* the second of its orders, none of which is doing any more,
LEMMA EndOrderOwned ==
    ASSUME OwnershipInv, TypeInv', NEW t \in DeployTaskIds, NEW state \in {"finished", "failed"},
           NEW from \in {"finishOrder", "failOrder"}, NEW to \in {"finishStatus", "failStatus"},
           EndOrder(t, from, to, state)
    PROVE  OwnershipInv'
<1>1. /\ AdvanceJob(t, from, to)
      /\ UNCHANGED <<siteStatus, deployTaskId, taskUser, taskState, disp>>
      /\ \A o \in DeployOrderIds : deployState'[o] = IF deployTaskId[o] = t THEN state ELSE deployState[o]
  BY DEF EndOrder
<1>2. /\ DispatcherHasTask' /\ JobsHaveTasks'
      /\ \A s \in DeployTaskIds : job'[s] = IF s = t THEN to ELSE job[s]
      /\ \A s \in DeployTaskIds : Preparing(s)' <=> Preparing(s)
  BY <1>1, JobMoves DEF JobState
<1>3. DeployOrderIsOwned'
  BY <1>1, <1>2 DEF OwnershipInv, DeployOrderIsOwned
<1>4. DeployingIsOwned'
  BY <1>1, <1>2 DEF OwnershipInv, DeployingIsOwned
<1>5. QED
  BY <1>2, <1>3, <1>4 DEF OwnershipInv

\* and the third of its site, which is not DEPLOYING any more.
LEMMA EndStatusOwned ==
    ASSUME OwnershipInv, TypeInv', NEW t \in DeployTaskIds, NEW status \in SiteStatus \ {"DEPLOYING"},
           NEW from \in {"finishStatus", "failStatus"}, NEW to \in {"publish", "done"},
           EndStatus(t, from, to, status)
    PROVE  OwnershipInv'
<1>1. /\ AdvanceJob(t, from, to)
      /\ UNCHANGED <<deployState, deployTaskId, taskUser, taskState, disp>>
      /\ \A u \in Users : siteStatus'[u] = IF u = taskUser[t] THEN status ELSE siteStatus[u]
  BY DEF EndStatus, OwnershipInv, TypeInv, TypeOK
<1>2. /\ DispatcherHasTask' /\ JobsHaveTasks'
      /\ \A s \in DeployTaskIds : job'[s] = IF s = t THEN to ELSE job[s]
      /\ \A s \in DeployTaskIds : Preparing(s)' <=> Preparing(s)
      /\ job[t] = from
  BY <1>1, JobMoves DEF JobState
<1>3. DeployOrderIsOwned'
  BY <1>1, <1>2 DEF OwnershipInv, DeployOrderIsOwned
<1>4. DeployingIsOwned'
  BY <1>1, <1>2 DEF OwnershipInv, DeployingIsOwned
<1>5. QED
  BY <1>2, <1>3, <1>4 DEF OwnershipInv

LEMMA NextOwned == OwnershipInv /\ [Next]_vars => OwnershipInv'
<1> SUFFICES ASSUME OwnershipInv, [Next]_vars PROVE OwnershipInv'
  OBVIOUS
<1> USE NextTypes
<1>1. ASSUME NEW r \in DeployRequests, NEW u \in Users, RequestDeploy(r, u)
      PROVE  OwnershipInv'
  BY <1>1 DEF RequestDeploy, TypeInv, TypeOK, OwnershipInv, DispatcherHasTask, HasTask, JobsHaveTasks,
     DeployingIsOwned,
         DeployOrderIsOwned, Preparing, HoldsTask
<1>2. ASSUME NEW r \in DeployRequests, NEW again \in BOOLEAN, Found(r, again)
      PROVE  OwnershipInv'
  <2>1. UNCHANGED <<siteStatus, deployState, deployTaskId, taskUser, taskState, job, disp>>
    BY <1>2 DEF Found
  <2>2. QED
    BY <2>1 DEF OwnershipInv, DispatcherHasTask, HasTask, JobsHaveTasks, DeployingIsOwned,
       DeployOrderIsOwned,
                Preparing
<1>3. ASSUME NEW r \in DeployRequests, CreateOrder(r)
      PROVE  OwnershipInv'
  BY <1>3 DEF CreateOrder, TypeInv, TypeOK, OwnershipInv, DispatcherHasTask, HasTask, JobsHaveTasks,
     DeployingIsOwned,
         DeployOrderIsOwned, Preparing, HoldsTask
<1>4. ASSUME NEW r \in DeployRequests, RetryOrder(r)
      PROVE  OwnershipInv'
  BY <1>4 DEF RetryOrder, TypeInv, TypeOK, OwnershipInv, DispatcherHasTask, HasTask, JobsHaveTasks,
     DeployingIsOwned,
         DeployOrderIsOwned, Preparing, HoldsTask
<1>5. ASSUME NEW r \in DeployRequests, ConfigureSite(r)
      PROVE  OwnershipInv'
  BY <1>5 DEF ConfigureSite, TypeInv, TypeOK, OwnershipInv, DispatcherHasTask, HasTask, JobsHaveTasks,
     DeployingIsOwned,
         DeployOrderIsOwned, Preparing, HoldsTask
<1>6. ASSUME NEW u \in Users, SavePost(u)
      PROVE  OwnershipInv'
  BY <1>6 DEF SavePost, TypeInv, TypeOK, OwnershipInv, DispatcherHasTask, HasTask, JobsHaveTasks,
     DeployingIsOwned,
         DeployOrderIsOwned, Preparing, HoldsTask
<1>7. ASSUME NEW u \in Users, PostJobEnds(u)
      PROVE  OwnershipInv'
  BY <1>7 DEF PostJobEnds, PublishOrder, TypeInv, TypeOK, OwnershipInv, DispatcherHasTask, HasTask,
     JobsHaveTasks, DeployingIsOwned,
         DeployOrderIsOwned, Preparing, HoldsTask
<1>8. ASSUME NEW u \in Users, PublishJobEnds(u)
      PROVE  OwnershipInv'
  BY <1>8 DEF PublishJobEnds, TypeInv, TypeOK, OwnershipInv, DispatcherHasTask, HasTask, JobsHaveTasks,
     DeployingIsOwned,
         DeployOrderIsOwned, Preparing, HoldsTask
<1>9. ASSUME NEW u \in Users, SetPublished(u)
      PROVE  OwnershipInv'
  BY <1>9 DEF SetPublished, TypeInv, TypeOK, OwnershipInv, DispatcherHasTask, HasTask, JobsHaveTasks,
     DeployingIsOwned,
         DeployOrderIsOwned, Preparing, HoldsTask
<1>10. ASSUME NEW d \in Dispatchers, DispatchNextTask(d) \/ NextTask(d)
      PROVE  OwnershipInv'
  <2> DEFINE next == [disp[d] EXCEPT !.pc = "deploy"]
  <2>1. disp[d] \in DispatcherRun /\ disp[d].pc \notin PreparingPc
    BY <1>10 DEF DispatchNextTask, NextTask, BelowWipLimit, PreparingPc, OwnershipInv, TypeInv, TypeOK
  <2>2. next.pc \notin HoldsTask /\ disp' = [disp EXCEPT ![d] = next]
    BY <1>10, <2>1 DEF DispatchNextTask, NextTask, BelowWipLimit, DispatcherRun, HoldsTask
  <2> HIDE DEF next
  <2>3. TypeInv'
    BY NextTypes DEF OwnershipInv
  <2>4. QED
    BY <1>10, <2>1, <2>2, <2>3, NothingPrepared DEF DispatchNextTask, NextTask, BelowWipLimit,
       OwnershipInv, TypeInv, TypeOK
<1>11. ASSUME NEW d \in Dispatchers, ReadDeploy(d)
      PROVE  OwnershipInv'
  <2> DEFINE next == [disp[d] EXCEPT !.pc = "publish", !.deploy = First(DeployOptions, deployCreatedAt, NoId)]
  <2>1. disp[d] \in DispatcherRun /\ disp[d].pc \notin PreparingPc
    BY <1>11 DEF ReadDeploy, PreparingPc, OwnershipInv, TypeInv, TypeOK
  <2>2. next.pc \notin HoldsTask /\ disp' = [disp EXCEPT ![d] = next]
    BY <1>11, <2>1 DEF ReadDeploy, DispatcherRun, HoldsTask
  <2> HIDE DEF next
  <2>3. TypeInv'
    BY NextTypes DEF OwnershipInv
  <2>4. QED
    BY <1>11, <2>1, <2>2, <2>3, NothingPrepared DEF ReadDeploy, OwnershipInv, TypeInv, TypeOK
<1>12. ASSUME NEW d \in Dispatchers, ReadPublish(d)
      PROVE  OwnershipInv'
  <2> DEFINE next == [disp[d] EXCEPT !.pc = "post", !.publish = First(PublishOptions, publishCreatedAt, NoUser)]
  <2>1. disp[d] \in DispatcherRun /\ disp[d].pc \notin PreparingPc
    BY <1>12 DEF ReadPublish, PreparingPc, OwnershipInv, TypeInv, TypeOK
  <2>2. next.pc \notin HoldsTask /\ disp' = [disp EXCEPT ![d] = next]
    BY <1>12, <2>1 DEF ReadPublish, DispatcherRun, HoldsTask
  <2> HIDE DEF next
  <2>3. TypeInv'
    BY NextTypes DEF OwnershipInv
  <2>4. QED
    BY <1>12, <2>1, <2>2, <2>3, NothingPrepared DEF ReadPublish, OwnershipInv, TypeInv, TypeOK
<1>13. ASSUME NEW d \in Dispatchers, DispatchOldestOrder(d)
      PROVE  OwnershipInv'
  <2>1. disp[d].pc \notin PreparingPc
    BY <1>13 DEF DispatchOldestOrder, PreparingPc
  <2>2. PICK next : /\ disp' = [disp EXCEPT ![d] = next]
                    /\ \/ next = Idle
                       \/ \E u : \E p \in {"validate", "publishSite", "createPosts"} : next = [Idle EXCEPT !.pc = p, !.user = u]
    <3> DEFINE post == First(PostOptions, postCreatedAt, NoUser)
               created == (IF disp[d].deploy = NoId THEN {} ELSE {deployCreatedAt[disp[d].deploy]})
                            \union (IF disp[d].publish = NoUser THEN {} ELSE {publishCreatedAt[disp[d].publish]})
                            \union (IF post = NoUser THEN {} ELSE {postCreatedAt[post]})
               Oldest(at) == \A c \in created : at <= c
               place == CASE disp[d].deploy # NoId /\ Oldest(deployCreatedAt[disp[d].deploy]) ->
                               [Idle EXCEPT !.pc = "validate", !.user = deployUser[disp[d].deploy]]
                          [] disp[d].publish # NoUser /\ Oldest(publishCreatedAt[disp[d].publish]) ->
                               [Idle EXCEPT !.pc = "publishSite", !.user = disp[d].publish]
                          [] post # NoUser /\ Oldest(postCreatedAt[post]) ->
                               [Idle EXCEPT !.pc = "createPosts", !.user = post]
                          [] OTHER -> Idle
    <3>1. disp' = [disp EXCEPT ![d] = place]
      BY <1>13 DEF DispatchOldestOrder
    <3> HIDE DEF post, Oldest
    <3>2. \/ place = [Idle EXCEPT !.pc = "validate", !.user = deployUser[disp[d].deploy]]
          \/ place = [Idle EXCEPT !.pc = "publishSite", !.user = disp[d].publish]
          \/ place = [Idle EXCEPT !.pc = "createPosts", !.user = post]
          \/ place = Idle
      OBVIOUS
    <3> HIDE DEF place
    <3>3. QED
      BY <3>1, <3>2
  <2>3. next.pc \notin HoldsTask
    <3>1. ASSUME NEW q \in {"validate", "publishSite", "createPosts"}, NEW v, next = [Idle EXCEPT !.pc = q, !.user = v]
          PROVE  next.pc \notin HoldsTask
      BY <3>1 DEF Idle, HoldsTask
    <3>2. CASE next = Idle
      BY <3>2, IdleRuns DEF HoldsTask
    <3>3. QED
      BY <2>2, <3>1, <3>2
  <2>4. TypeInv'
    BY NextTypes DEF OwnershipInv
  <2>5. QED
    BY <1>13, <2>1, <2>2, <2>3, <2>4, NothingPrepared DEF DispatchOldestOrder
<1>14. ASSUME NEW d \in Dispatchers, ReadSite(d)
      PROVE  OwnershipInv'
  <2> DEFINE next == [disp[d] EXCEPT !.pc = "order", !.status = siteStatus[disp[d].user]]
  <2>1. disp[d] \in DispatcherRun /\ disp[d].pc \notin PreparingPc
    BY <1>14 DEF ReadSite, PreparingPc, OwnershipInv, TypeInv, TypeOK
  <2>2. next.pc \notin HoldsTask /\ disp' = [disp EXCEPT ![d] = next]
    BY <1>14, <2>1 DEF ReadSite, DispatcherRun, HoldsTask
  <2> HIDE DEF next
  <2>3. TypeInv'
    BY NextTypes DEF OwnershipInv
  <2>4. QED
    BY <1>14, <2>1, <2>2, <2>3, NothingPrepared DEF ReadSite, OwnershipInv, TypeInv, TypeOK
<1>15. ASSUME NEW d \in Dispatchers, ReadOrder(d)
      PROVE  OwnershipInv'
  <2>1. disp[d] \in DispatcherRun /\ disp[d].pc \notin PreparingPc
    BY <1>15 DEF ReadOrder, PreparingPc, OwnershipInv, TypeInv, TypeOK
  <2>2. \E next : next.pc \notin HoldsTask /\ disp' = [disp EXCEPT ![d] = next]
    <3> DEFINE place == CASE disp[d].status = "DEPLOY_FAILED" -> "resetOrder"
                          [] disp[d].status = "CONFIGURED" -> "generate"
                          [] OTHER -> "idle"
    <3>1. place \in {"resetOrder", "generate", "idle"}
      OBVIOUS
    <3>2. \/ disp' = [disp EXCEPT ![d] = Idle]
          \/ \E o \in DeployOrderIds : disp' = [disp EXCEPT ![d].pc = place, ![d].order = o]
      BY <1>15 DEF ReadOrder
    <3> HIDE DEF place
    <3>3. CASE disp' = [disp EXCEPT ![d] = Idle]
      BY <3>3, IdleRuns DEF HoldsTask
    <3>4. ASSUME NEW o \in DeployOrderIds, disp' = [disp EXCEPT ![d].pc = place, ![d].order = o]
          PROVE  \E next : next.pc \notin HoldsTask /\ disp' = [disp EXCEPT ![d] = next]
      <4> DEFINE run == [disp[d] EXCEPT !.pc = place, !.order = o]
      <4>1. run.pc \notin HoldsTask
        BY <2>1, <3>1 DEF DispatcherRun, HoldsTask
      <4>2. disp' = [disp EXCEPT ![d] = run]
        BY <3>4
      <4>3. QED
        BY <4>1, <4>2
    <3>5. QED
      BY <3>2, <3>3, <3>4
  <2>3. TypeInv'
    BY NextTypes DEF OwnershipInv
  <2>4. QED
    BY <1>15, <2>1, <2>2, <2>3, NothingPrepared DEF ReadOrder
<1>16. ASSUME NEW d \in Dispatchers, ResetOrder(d)
      PROVE  OwnershipInv'
  <2> DEFINE next == [disp[d] EXCEPT !.pc = "resetStatus"]
  <2>1. disp[d] \in DispatcherRun /\ disp[d].pc \notin PreparingPc
    BY <1>16 DEF ResetOrder, Advance, PreparingPc, OwnershipInv, TypeInv, TypeOK
  <2>2. next.pc \notin HoldsTask /\ disp' = [disp EXCEPT ![d] = next]
    BY <1>16, <2>1 DEF ResetOrder, Advance, DispatcherRun, HoldsTask
  <2> HIDE DEF next
  <2>3. TypeInv'
    BY NextTypes DEF OwnershipInv
  <2>4. QED
    BY <1>16, <2>1, <2>2, <2>3, NothingPrepared DEF ResetOrder, Advance, OwnershipInv, TypeInv, TypeOK
<1>17. ASSUME NEW d \in Dispatchers, ResetStatus(d)
      PROVE  OwnershipInv'
  <2> DEFINE next == [disp[d] EXCEPT !.pc = "generate"]
  <2>1. disp[d] \in DispatcherRun /\ disp[d].pc \notin PreparingPc
    BY <1>17 DEF ResetStatus, Advance, PreparingPc, OwnershipInv, TypeInv, TypeOK
  <2>2. next.pc \notin HoldsTask /\ disp' = [disp EXCEPT ![d] = next]
    BY <1>17, <2>1 DEF ResetStatus, Advance, DispatcherRun, HoldsTask
  <2> HIDE DEF next
  <2>3. TypeInv'
    BY NextTypes DEF OwnershipInv
  <2>4. QED
    BY <1>17, <2>1, <2>2, <2>3, NothingPrepared DEF ResetStatus, Advance, OwnershipInv, TypeInv, TypeOK
<1>18. ASSUME NEW d \in Dispatchers, GenerateTask(d)
      PROVE  OwnershipInv'
  <2>1. PICK t \in DeployTaskIds :
           /\ taskState[t] = "absent"
           /\ taskState' = [taskState EXCEPT ![t] = "pending"]
           /\ taskUser' = [taskUser EXCEPT ![t] = disp[d].user]
           /\ disp' = [disp EXCEPT ![d].pc = "link", ![d].task = t]
    BY <1>18 DEF GenerateTask
  <2> DEFINE next == [disp[d] EXCEPT !.pc = "link", !.task = t]
  <2>2. disp[d] \in DispatcherRun /\ disp[d].pc = "generate"
    BY <1>18 DEF GenerateTask, OwnershipInv, TypeInv, TypeOK
  <2>3. next.pc = "link" /\ next.task = t /\ next.user = disp[d].user
    BY <2>2 DEF DispatcherRun
  <2>4. \A e \in Dispatchers : disp'[e] = IF e = d THEN next ELSE disp[e]
    BY <2>1 DEF OwnershipInv, TypeInv, TypeOK
  <2> HIDE DEF next
  <2>5. UNCHANGED <<siteStatus, deployState, deployTaskId, job>>
    BY <1>18 DEF GenerateTask
  <2>6. /\ taskState'[t] = "pending" /\ taskUser'[t] = disp[d].user
        /\ \A s \in DeployTaskIds \ {t} : taskState'[s] = taskState[s] /\ taskUser'[s] = taskUser[s]
    BY <2>1 DEF OwnershipInv, TypeInv, TypeOK
  <2>7. job[t] = "none"
    BY <2>1 DEF OwnershipInv, JobsHaveTasks
  <2>8. DispatcherHasTask'
    <3>1. ASSUME NEW e \in Dispatchers
          PROVE  HasTask(disp[e])'
      <4>1. HasTask(disp[e])
        BY DEF OwnershipInv, DispatcherHasTask
      <4>2. CASE e = d
        BY <2>3, <2>4, <2>6, <4>2 DEF HasTask
      <4>3. CASE e # d
        <5>1. disp'[e] = disp[e]
          BY <2>4, <4>3
        <5>2. \A s \in DeployTaskIds : taskState[s] # "absent" => taskState'[s] = taskState[s] /\ taskUser'[s] = taskUser[s]
          BY <2>1, <2>6
        <5>3. QED
          BY <4>1, <5>1, <5>2 DEF HasTask
      <4>4. QED
        BY <4>2, <4>3
    <3>2. QED
      BY <3>1 DEF DispatcherHasTask
  <2>9. \A s \in DeployTaskIds : Preparing(s) => Preparing(s)'
    BY <2>2, <2>4 DEF Preparing
  <2>10. DeployOrderIsOwned'
    BY <2>5, <2>9 DEF OwnershipInv, DeployOrderIsOwned
  <2>11. DeployingIsOwned'
    <3>1. \A e \in Dispatchers : disp[e].pc = "config" => disp'[e] = disp[e]
      BY <2>2, <2>4
    <3>2. QED
      BY <2>5, <2>6, <2>7, <3>1 DEF OwnershipInv, DeployingIsOwned
  <2>12. JobsHaveTasks'
    BY <2>5, <2>6 DEF OwnershipInv, JobsHaveTasks
  <2>13. TypeInv'
    BY NextTypes DEF OwnershipInv
  <2>14. QED
    BY <2>8, <2>10, <2>11, <2>12, <2>13 DEF OwnershipInv
<1>19. ASSUME NEW d \in Dispatchers, LinkOrder(d)
      PROVE  OwnershipInv'
  <2>1. Advance(d, "link", "doingTask")
    BY <1>19 DEF LinkOrder
  <2>2. /\ \A t \in DeployTaskIds : Preparing(t) => Preparing(t)'
        /\ \A e \in Dispatchers : /\ disp'[e].task = disp[e].task /\ disp'[e].user = disp[e].user
                                  /\ disp[e].pc = "config" => disp'[e].pc = "config"
                                  /\ disp'[e].pc \in HoldsTask => disp[e].pc \in HoldsTask
        /\ disp'[d].pc = "doingTask"
        /\ Preparing(disp[d].task)'
        /\ disp[d].task \in DeployTaskIds /\ disp[d].user = taskUser[disp[d].task]
        /\ taskState[disp[d].task] # "absent"
    BY <2>1, StillPreparing DEF PreparingPc
  <2>3. UNCHANGED <<taskUser, job>> /\ \A t \in DeployTaskIds : taskState[t] # "absent" => taskState'[t] # "absent"
    BY <1>19 DEF LinkOrder, OwnershipInv, TypeInv, TypeOK
  <2>4. DispatcherHasTask' /\ JobsHaveTasks'
    BY <2>2, <2>3 DEF OwnershipInv, DispatcherHasTask, HasTask, JobsHaveTasks
  <2>5. DeployOrderIsOwned'
    <3>1. \A o \in DeployOrderIds : deployTaskId'[o] \in {deployTaskId[o], disp[d].task}
      BY <1>19 DEF LinkOrder, OwnershipInv, TypeInv, TypeOK
    <3>2. UNCHANGED deployState
      BY <1>19 DEF LinkOrder
    <3>3. QED
      BY <2>2, <2>3, <3>1, <3>2 DEF OwnershipInv, DeployOrderIsOwned
  <2>6. DeployingIsOwned'
    BY <1>19, <2>2, <2>3 DEF LinkOrder, OwnershipInv, DeployingIsOwned
  <2>7. TypeInv'
    BY NextTypes DEF OwnershipInv
  <2>8. QED
    BY <2>4, <2>5, <2>6, <2>7 DEF OwnershipInv
<1>20. ASSUME NEW d \in Dispatchers, DoingTask(d)
      PROVE  OwnershipInv'
  <2>1. Advance(d, "doingTask", "doingOrder")
    BY <1>20 DEF DoingTask
  <2>2. /\ \A t \in DeployTaskIds : Preparing(t) => Preparing(t)'
        /\ \A e \in Dispatchers : /\ disp'[e].task = disp[e].task /\ disp'[e].user = disp[e].user
                                  /\ disp[e].pc = "config" => disp'[e].pc = "config"
                                  /\ disp'[e].pc \in HoldsTask => disp[e].pc \in HoldsTask
        /\ disp'[d].pc = "doingOrder"
        /\ Preparing(disp[d].task)'
        /\ disp[d].task \in DeployTaskIds /\ disp[d].user = taskUser[disp[d].task]
        /\ taskState[disp[d].task] # "absent"
    BY <2>1, StillPreparing DEF PreparingPc
  <2>3. UNCHANGED <<taskUser, job>> /\ \A t \in DeployTaskIds : taskState[t] # "absent" => taskState'[t] # "absent"
    BY <1>20 DEF DoingTask, OwnershipInv, TypeInv, TypeOK
  <2>4. DispatcherHasTask' /\ JobsHaveTasks'
    BY <2>2, <2>3 DEF OwnershipInv, DispatcherHasTask, HasTask, JobsHaveTasks
  <2>5. DeployOrderIsOwned'
    BY <1>20, <2>2, <2>3 DEF DoingTask, OwnershipInv, DeployOrderIsOwned
  <2>6. DeployingIsOwned'
    BY <1>20, <2>2, <2>3 DEF DoingTask, OwnershipInv, DeployingIsOwned
  <2>7. TypeInv'
    BY NextTypes DEF OwnershipInv
  <2>8. QED
    BY <2>4, <2>5, <2>6, <2>7 DEF OwnershipInv
<1>21. ASSUME NEW d \in Dispatchers, DoingOrder(d)
      PROVE  OwnershipInv'
  <2>1. Advance(d, "doingOrder", "doingStatus")
    BY <1>21 DEF DoingOrder
  <2>2. /\ \A t \in DeployTaskIds : Preparing(t) => Preparing(t)'
        /\ \A e \in Dispatchers : /\ disp'[e].task = disp[e].task /\ disp'[e].user = disp[e].user
                                  /\ disp[e].pc = "config" => disp'[e].pc = "config"
                                  /\ disp'[e].pc \in HoldsTask => disp[e].pc \in HoldsTask
        /\ disp'[d].pc = "doingStatus"
        /\ Preparing(disp[d].task)'
        /\ disp[d].task \in DeployTaskIds /\ disp[d].user = taskUser[disp[d].task]
        /\ taskState[disp[d].task] # "absent"
    BY <2>1, StillPreparing DEF PreparingPc
  <2>3. UNCHANGED <<taskUser, job>> /\ \A t \in DeployTaskIds : taskState[t] # "absent" => taskState'[t] # "absent"
    BY <1>21 DEF DoingOrder, OwnershipInv, TypeInv, TypeOK
  <2>4. DispatcherHasTask' /\ JobsHaveTasks'
    BY <2>2, <2>3 DEF OwnershipInv, DispatcherHasTask, HasTask, JobsHaveTasks
  <2>5. DeployOrderIsOwned'
    <3>1. \A o \in DeployOrderIds : deployState'[o] = "doing" => deployState[o] = "doing" \/ deployTaskId[o] = disp[d].task
      BY <1>21 DEF DoingOrder
    <3>2. UNCHANGED deployTaskId
      BY <1>21 DEF DoingOrder
    <3>3. QED
      BY <2>2, <2>3, <3>1, <3>2 DEF OwnershipInv, DeployOrderIsOwned
  <2>6. DeployingIsOwned'
    BY <1>21, <2>2, <2>3 DEF DoingOrder, OwnershipInv, DeployingIsOwned
  <2>7. TypeInv'
    BY NextTypes DEF OwnershipInv
  <2>8. QED
    BY <2>4, <2>5, <2>6, <2>7 DEF OwnershipInv
<1>22. ASSUME NEW d \in Dispatchers, DoingStatus(d)
      PROVE  OwnershipInv'
  <2>1. Advance(d, "doingStatus", "config")
    BY <1>22 DEF DoingStatus
  <2>2. /\ \A t \in DeployTaskIds : Preparing(t) => Preparing(t)'
        /\ \A e \in Dispatchers : /\ disp'[e].task = disp[e].task /\ disp'[e].user = disp[e].user
                                  /\ disp[e].pc = "config" => disp'[e].pc = "config"
                                  /\ disp'[e].pc \in HoldsTask => disp[e].pc \in HoldsTask
        /\ disp'[d].pc = "config"
        /\ Preparing(disp[d].task)'
        /\ disp[d].task \in DeployTaskIds /\ disp[d].user = taskUser[disp[d].task]
        /\ taskState[disp[d].task] # "absent"
    BY <2>1, StillPreparing DEF PreparingPc
  <2>3. UNCHANGED <<taskUser, job>> /\ \A t \in DeployTaskIds : taskState[t] # "absent" => taskState'[t] # "absent"
    BY <1>22 DEF DoingStatus, OwnershipInv, TypeInv, TypeOK
  <2>4. DispatcherHasTask' /\ JobsHaveTasks'
    BY <2>2, <2>3 DEF OwnershipInv, DispatcherHasTask, HasTask, JobsHaveTasks
  <2>5. DeployOrderIsOwned'
    BY <1>22, <2>2, <2>3 DEF DoingStatus, OwnershipInv, DeployOrderIsOwned
  <2>6. DeployingIsOwned'
    <3>1. \A u \in Users : siteStatus'[u] = "DEPLOYING" => siteStatus[u] = "DEPLOYING" \/ u = disp[d].user
      BY <1>22 DEF DoingStatus, OwnershipInv, TypeInv, TypeOK
    <3>2. QED
      BY <2>2, <2>3, <3>1 DEF OwnershipInv, DeployingIsOwned
  <2>7. TypeInv'
    BY NextTypes DEF OwnershipInv
  <2>8. QED
    BY <2>4, <2>5, <2>6, <2>7 DEF OwnershipInv
<1>23. ASSUME NEW d \in Dispatchers, DispatchDeploy(d)
      PROVE  OwnershipInv'
  <2>1. /\ disp[d] \in DispatcherRun /\ disp[d].pc = "config"
        /\ disp[d].task \in DeployTaskIds /\ taskUser[disp[d].task] = disp[d].user
        /\ taskState[disp[d].task] # "absent"
    BY <1>23 DEF DispatchDeploy, OwnershipInv, TypeInv, TypeOK, DispatcherHasTask, HasTask, HoldsTask
  <2>2. UNCHANGED <<siteStatus, deployState, deployTaskId, taskUser, taskState>>
    BY <1>23 DEF DispatchDeploy
  <2>3. PICK next : /\ disp' = [disp EXCEPT ![d] = next]
                    /\ \/ next.pc = "idle"
                       \/ next.pc = "failing" /\ next.task = disp[d].task /\ next.user = disp[d].user
    <3>1. CASE disp' = [disp EXCEPT ![d] = Idle]
      BY <3>1, IdleRuns
    <3>2. CASE disp' = [disp EXCEPT ![d].pc = "failing"]
      <4> DEFINE run == [disp[d] EXCEPT !.pc = "failing"]
      <4>1. run.pc = "failing" /\ run.task = disp[d].task /\ run.user = disp[d].user
        BY <2>1, Moved DEF DispatcherPc
      <4>2. disp' = [disp EXCEPT ![d] = run]
        BY <3>2
      <4>3. QED
        BY <4>1, <4>2
    <3>3. QED
      BY <1>23, <3>1, <3>2 DEF DispatchDeploy
  <2>4. \A e \in Dispatchers : disp'[e] = IF e = d THEN next ELSE disp[e]
    BY <2>3 DEF OwnershipInv, TypeInv, TypeOK
  <2>5. /\ job'[disp[d].task] \in {"active", "failTask"}
        /\ \A t \in DeployTaskIds \ {disp[d].task} : job'[t] = job[t]
    BY <1>23, <2>1 DEF DispatchDeploy, OwnershipInv, TypeInv, TypeOK
  <2>6. DispatcherHasTask'
    BY <2>1, <2>2, <2>3, <2>4 DEF OwnershipInv, DispatcherHasTask, HasTask, HoldsTask
  <2>7. JobsHaveTasks'
    BY <2>1, <2>2, <2>5 DEF OwnershipInv, JobsHaveTasks
  <2>8. \A t \in DeployTaskIds : Preparing(t) => Preparing(t)' \/ t = disp[d].task
    BY <2>4 DEF Preparing
  <2>9. DeployOrderIsOwned'
    BY <2>2, <2>5, <2>8 DEF OwnershipInv, DeployOrderIsOwned
  <2>10. DeployingIsOwned'
    BY <2>1, <2>2, <2>4, <2>5 DEF OwnershipInv, DeployingIsOwned
  <2>11. TypeInv'
    BY NextTypes DEF OwnershipInv
  <2>12. QED
    BY <2>6, <2>7, <2>9, <2>10, <2>11 DEF OwnershipInv
<1>24. ASSUME NEW d \in Dispatchers, DispatchFailed(d)
      PROVE  OwnershipInv'
  <2> DEFINE next == Idle
  <2>1. disp[d] \in DispatcherRun /\ disp[d].pc \notin PreparingPc
    BY <1>24 DEF DispatchFailed, Idle, PreparingPc, OwnershipInv, TypeInv, TypeOK
  <2>2. next.pc \notin HoldsTask /\ disp' = [disp EXCEPT ![d] = next]
    BY <1>24, <2>1 DEF DispatchFailed, Idle, DispatcherRun, HoldsTask
  <2> HIDE DEF next
  <2>3. TypeInv'
    BY NextTypes DEF OwnershipInv
  <2>4. QED
    BY <1>24, <2>1, <2>2, <2>3, NothingPrepared DEF DispatchFailed, Idle, OwnershipInv, TypeInv, TypeOK
<1>25. ASSUME NEW d \in Dispatchers, CreatePosts(d)
      PROVE  OwnershipInv'
  <2> DEFINE next == Idle
  <2>1. disp[d] \in DispatcherRun /\ disp[d].pc \notin PreparingPc
    BY <1>25 DEF CreatePosts, Idle, PreparingPc, OwnershipInv, TypeInv, TypeOK
  <2>2. next.pc \notin HoldsTask /\ disp' = [disp EXCEPT ![d] = next]
    BY <1>25, <2>1 DEF CreatePosts, Idle, DispatcherRun, HoldsTask
  <2> HIDE DEF next
  <2>3. TypeInv'
    BY NextTypes DEF OwnershipInv
  <2>4. QED
    BY <1>25, <2>1, <2>2, <2>3, NothingPrepared DEF CreatePosts, Idle, OwnershipInv, TypeInv, TypeOK
<1>26. ASSUME NEW d \in Dispatchers, PublishSite(d)
      PROVE  OwnershipInv'
  <2> DEFINE next == Idle
  <2>1. disp[d] \in DispatcherRun /\ disp[d].pc \notin PreparingPc
    BY <1>26 DEF PublishSite, Idle, PreparingPc, OwnershipInv, TypeInv, TypeOK
  <2>2. next.pc \notin HoldsTask /\ disp' = [disp EXCEPT ![d] = next]
    BY <1>26, <2>1 DEF PublishSite, Idle, DispatcherRun, HoldsTask
  <2> HIDE DEF next
  <2>3. TypeInv'
    BY NextTypes DEF OwnershipInv
  <2>4. QED
    BY <1>26, <2>1, <2>2, <2>3, NothingPrepared DEF PublishSite, Idle, OwnershipInv, TypeInv, TypeOK
<1>27. ASSUME NEW t \in DeployTaskIds, DeployCompleted(t)
      PROVE  OwnershipInv'
  BY <1>27 DEF DeployCompleted, AdvanceJob, TypeInv, TypeOK, OwnershipInv, DispatcherHasTask, HasTask,
     JobsHaveTasks, DeployingIsOwned,
         DeployOrderIsOwned, Preparing, HoldsTask
<1>28. ASSUME NEW t \in DeployTaskIds, DeployFailed(t)
      PROVE  OwnershipInv'
  BY <1>28 DEF DeployFailed, AdvanceJob, TypeInv, TypeOK, OwnershipInv, DispatcherHasTask, HasTask,
     JobsHaveTasks, DeployingIsOwned,
         DeployOrderIsOwned, Preparing, HoldsTask
<1>29. ASSUME NEW t \in DeployTaskIds, FinishDeploySiteTask(t)
      PROVE  OwnershipInv'
  <2>1. TypeInv'
    BY NextTypes DEF OwnershipInv
  <2>2. \/ EndTask(t, "finishTask", "finishOrder", "finished")
        \/ EndOrder(t, "finishOrder", "finishStatus", "finished")
        \/ EndStatus(t, "finishStatus", "publish", "DEPLOYED")
    BY <1>29 DEF FinishDeploySiteTask
  <2>3. QED
    BY <2>1, <2>2, EndTaskOwned, EndOrderOwned, EndStatusOwned DEF SiteStatus
<1>30. ASSUME NEW t \in DeployTaskIds, FailDeploySiteTask(t)
      PROVE  OwnershipInv'
  <2>1. TypeInv'
    BY NextTypes DEF OwnershipInv
  <2>2. \/ EndTask(t, "failTask", "failOrder", "failed")
        \/ EndOrder(t, "failOrder", "failStatus", "failed")
        \/ EndStatus(t, "failStatus", "done", "DEPLOY_FAILED")
    BY <1>30 DEF FailDeploySiteTask
  <2>3. QED
    BY <2>1, <2>2, EndTaskOwned, EndOrderOwned, EndStatusOwned DEF SiteStatus
<1>31. ASSUME NEW t \in DeployTaskIds, GeneratePublishSiteOrder(t)
      PROVE  OwnershipInv'
  <2>1. /\ AdvanceJob(t, "publish", "done")
        /\ UNCHANGED <<siteStatus, deployState, deployTaskId, taskUser, taskState, disp>>
    BY <1>31 DEF GeneratePublishSiteOrder
  <2>2. /\ DispatcherHasTask' /\ JobsHaveTasks'
        /\ \A s \in DeployTaskIds : job'[s] = IF s = t THEN "done" ELSE job[s]
        /\ \A s \in DeployTaskIds : Preparing(s)' <=> Preparing(s)
        /\ job[t] = "publish"
    BY <2>1, JobMoves DEF JobState
  <2>3. DeployOrderIsOwned' /\ DeployingIsOwned'
    BY <2>1, <2>2 DEF OwnershipInv, DeployOrderIsOwned, DeployingIsOwned
  <2>4. TypeInv'
    BY NextTypes DEF OwnershipInv
  <2>5. QED
    BY <2>2, <2>3, <2>4 DEF OwnershipInv
<1>32. CASE Restart
  <2>1. disp' = [d \in Dispatchers |-> Idle]
    BY <1>32 DEF Restart
  <2>2. DispatcherHasTask'
    BY <2>1, IdleRuns DEF DispatcherHasTask, HasTask, HoldsTask
  <2>3. UNCHANGED <<siteStatus, deployState, deployTaskId, taskUser, taskState>>
    BY <1>32 DEF Restart
  <2>4. \A t \in DeployTaskIds :
           job'[t] = IF Preparing(t) \/ job[t] \notin {"none", "active", "done"} THEN "lost" ELSE job[t]
    BY <1>32 DEF Restart
  <2>5. \A d \in Dispatchers : disp[d].pc = "config" =>
           disp[d].task \in DeployTaskIds /\ Preparing(disp[d].task) /\ taskUser[disp[d].task] = disp[d].user
    BY DEF OwnershipInv, DispatcherHasTask, HasTask, HoldsTask, Preparing
  <2>6. JobsHaveTasks'
    BY <2>3, <2>4 DEF OwnershipInv, JobsHaveTasks, DispatcherHasTask, HasTask, HoldsTask, Preparing
  <2>7. DeployOrderIsOwned'
    <3>1. ASSUME NEW o \in DeployOrderIds, deployState'[o] = "doing"
          PROVE  \E t \in DeployTaskIds : t = deployTaskId'[o] /\ job'[t] \in {"active", "lost"}
      <4>1. PICK t \in DeployTaskIds :
               /\ t = deployTaskId[o]
               /\ Preparing(t) \/ job[t] \in {"active", "finishTask", "finishOrder", "failTask", "failOrder", "lost"}
        BY <2>3, <3>1 DEF OwnershipInv, DeployOrderIsOwned
      <4>2. job'[t] \in {"active", "lost"}
        BY <2>4, <4>1
      <4>3. QED
        BY <2>3, <4>1, <4>2
    <3>2. QED
      BY <3>1 DEF DeployOrderIsOwned
  <2>8. DeployingIsOwned'
    <3>1. ASSUME NEW u \in Users, siteStatus'[u] = "DEPLOYING"
          PROVE  \E t \in DeployTaskIds : taskUser'[t] = u /\ job'[t] \in {"active", "lost"}
      <4>1. CASE \E d \in Dispatchers : disp[d].user = u /\ disp[d].pc = "config"
        BY <2>3, <2>4, <2>5, <4>1
      <4>2. CASE \E t \in DeployTaskIds : taskUser[t] = u /\
                    job[t] \in {"active", "finishTask", "finishOrder", "finishStatus",
                                "failTask", "failOrder", "failStatus", "lost"}
        BY <2>3, <2>4, <4>2
      <4>3. QED
        BY <2>3, <3>1, <4>1, <4>2 DEF OwnershipInv, DeployingIsOwned
    <3>2. QED
      BY <3>1 DEF DeployingIsOwned
  <2>9. TypeInv'
    BY NextTypes DEF OwnershipInv
  <2>10. QED
    BY <2>2, <2>6, <2>7, <2>8, <2>9 DEF OwnershipInv
<1>33. CASE UNCHANGED vars
  BY <1>33 DEF vars, TypeInv, TypeOK, OwnershipInv, DispatcherHasTask, HasTask, JobsHaveTasks,
     DeployingIsOwned,
         DeployOrderIsOwned, Preparing, HoldsTask
<1>34. ASSUME NEW d \in Dispatchers, (\E u \in Users : DeploySite(d, u))
      PROVE  OwnershipInv'
  <2>1. PICK u \in Users : DeploySite(d, u)
    BY <1>34
  <2> DEFINE next == [disp[d] EXCEPT !.pc = "validate", !.user = u]
  <2>2. disp[d] \in DispatcherRun /\ disp[d].pc \notin PreparingPc
    BY <2>1 DEF DeploySite, PreparingPc, OwnershipInv, TypeInv, TypeOK
  <2>3. next.pc \notin HoldsTask /\ disp' = [disp EXCEPT ![d] = next]
    BY <2>1, <2>2 DEF DeploySite, DispatcherRun, HoldsTask
  <2> HIDE DEF next
  <2>4. TypeInv'
    BY NextTypes DEF OwnershipInv
  <2>5. QED
    BY <2>1, <2>2, <2>3, <2>4, NothingPrepared DEF DeploySite
<1>35. QED
  BY <1>34, <1>1, <1>2, <1>3, <1>4, <1>5, <1>6, <1>7, <1>8, <1>9, <1>10, <1>11, <1>12, <1>13, <1>14,
     <1>15, <1>16, <1>17, <1>18, <1>19, <1>20, <1>21, <1>22, <1>23, <1>24, <1>25, <1>26, <1>27, <1>28,
     <1>29, <1>30, <1>31, <1>32, <1>33 DEF RequestStep, FindOrder, OtherStep, DispatchStep,
     DeployJobStep, Next

\* A site that is DEPLOYING always has a dispatcher or a job whose end will set
\* another status, and a deploy order that is doing is linked to a task whose
\* handlers will end it, or would have when the backend restarted.
THEOREM DeploymentOwned == Spec => []DeploymentIsOwned
<1>1. Init => OwnershipInv
  BY InitOwned
<1>2. OwnershipInv /\ [Next]_vars => OwnershipInv'
  BY NextOwned
<1>3. OwnershipInv => DeploymentIsOwned
  BY DEF OwnershipInv, DeploymentIsOwned
<1>4. QED
  BY <1>1, <1>2, <1>3, PTL DEF Spec

-----------------------------------------------------------------------------
(* While the administrator asks for nothing, nobody disturbs a deployment.  *)

\* Jobs whose worker or handler is at work,
Live == {"active", "finishTask", "finishOrder", "finishStatus", "failTask", "failOrder", "failStatus"}
Ending == {"finishTask", "finishOrder", "finishStatus"}

\* and the state of the order meanwhile.
StateAt(place) ==
    CASE place = "finishStatus" -> "finished" [] place = "failStatus" -> "failed" [] OTHER -> "doing"

\* A site that is neither deployed nor about to be by a job.
Undeployed(u) ==
    /\ siteStatus[u] \notin Deployed
    /\ \A t \in DeployTaskIds : job[t] \in Live => taskUser[t] # u

OthersIdle == \A d \in Dispatchers \ {Consumer} : disp[d].pc = "idle"

\* A user has one order, and an order is only linked to tasks of its user.
OrdersApart ==
    /\ \A o \in DeployOrderIds : deployState[o] = "absent" <=> deployUser[o] = NoUser
    /\ \A o, p \in DeployOrderIds : deployUser[o] # NoUser /\ deployUser[o] = deployUser[p] => o = p
    /\ \A o \in DeployOrderIds : deployTaskId[o] # NoId =>
          /\ taskState[deployTaskId[o]] # "absent"
          /\ taskUser[deployTaskId[o]] = deployUser[o] /\ deployUser[o] # NoUser

\* What the status of a site says of its order, its post and its publication.
SitesFit ==
    /\ \A u \in Users : siteStatus[u] # "CONFIGURED" => \E o \in DeployOrderIds : deployUser[o] = u
    /\ \A o \in DeployOrderIds : deployState[o] \in {"pending", "doing"} => siteStatus[deployUser[o]] \notin Deployed
    /\ \A u \in Users : postState[u] = "doing" \/ publishing[u] \in {"active", "finish", "fail"} =>
          siteStatus[u] \in Deployed

\* A request is at work, or what it has not awaited is.
Working(r) == InFlight(r) \/ configuring[r] # NoUser

\* What a request has read of a site still holds, and nothing overtakes the
\* update it does not await but a job that fails.
RequestFits(r) ==
    /\ configuring[r] # NoUser => configuring[r] = request[r].user /\ request[r].pc \in {"save", "done"}
    /\ Working(r) => \A q \in DeployRequests : Working(q) /\ request[q].user = request[r].user => q = r
    /\ InFlight(r) => \A o \in DeployOrderIds :
          deployUser[o] = request[r].user => deployState[o] \notin {"pending", "doing"}
    /\ request[r].pc = "create" => \A o \in DeployOrderIds : deployUser[o] # request[r].user
    /\ request[r].pc = "find" /\ request[r].status = "DEPLOY_FAILED" => Undeployed(request[r].user)
    /\ request[r].pc = "save" =>
          /\ Undeployed(request[r].user)
          /\ deployUser[request[r].order] = request[r].user
          /\ request[r].task = deployTaskId[request[r].order]
    /\ configuring[r] # NoUser =>
          /\ siteStatus[configuring[r]] \notin Deployed
          /\ \A t \in DeployTaskIds : taskUser[t] = configuring[r] => job[t] \notin Ending

RequestsFit == \A r \in DeployRequests : RequestFits(r)

\* A job is the only one of its user, and ends the user's order.
JobFits(t) ==
    /\ siteStatus[taskUser[t]] \in {"DEPLOYING", "CONFIGURED"}
    /\ \A s \in DeployTaskIds : job[s] \in Live /\ taskUser[s] = taskUser[t] => s = t
    /\ \E o \in DeployOrderIds :
          deployUser[o] = taskUser[t] /\ deployTaskId[o] = t /\ deployState[o] = StateAt(job[t])

JobsFit == \A t \in DeployTaskIds : job[t] \in Live => JobFits(t)

\* The order that the consumer has read stays pending until it makes it doing.
PendingPc == {"validate", "order", "resetOrder", "resetStatus", "generate", "link", "doingTask", "doingOrder"}
OrderPc == {"resetOrder", "resetStatus", "generate", "link", "doingTask", "doingOrder", "doingStatus", "config"}
LinkedPc == {"doingTask", "doingOrder", "doingStatus", "config"}
DoingPc == {"doingStatus", "config"}

Serves(c) ==
    /\ c.pc \in {"publish", "post"} /\ c.deploy # NoId => deployState[c.deploy] = "pending"
    /\ c.pc \in PendingPc => \E o \in DeployOrderIds : deployUser[o] = c.user /\ deployState[o] = "pending"
    /\ c.pc \in OrderPc => c.order \in DeployOrderIds /\ deployUser[c.order] = c.user
    /\ c.pc \in LinkedPc => deployTaskId[c.order] = c.task
    /\ c.pc \in DoingPc => deployState[c.order] = "doing" /\ Undeployed(c.user)
    /\ c.pc = "config" => siteStatus[c.user] \in {"DEPLOYING", "CONFIGURED"}

\* The inductive invariant.
AloneInv ==
    OthersIdle /\ OrdersApart /\ SitesFit /\ RequestsFit /\ JobsFit /\ Serves(disp[Consumer])

LEMMA InitAlone == Init => AloneInv
<1> SUFFICES ASSUME Init PROVE AloneInv
  OBVIOUS
<1>1. disp[Consumer] = Idle /\ OthersIdle
  BY IdleRuns, DispatchersAssumption DEF Init, OthersIdle
<1>2. Serves(disp[Consumer])
  BY <1>1, IdleRuns DEF Serves, PendingPc, OrderPc, LinkedPc, DoingPc
<1>3. OrdersApart /\ SitesFit
  BY DEF Init, OrdersApart, SitesFit
<1>4. RequestsFit /\ JobsFit
  BY DEF Init, RequestsFit, RequestFits, Working, InFlight, NoRequest, JobsFit, Live
<1>5. QED
  BY <1>1, <1>2, <1>3, <1>4 DEF AloneInv

\* The order of a live job is the only one of its user.
LEMMA LiveFits ==
    ASSUME TypeInv, AloneInv, NEW t \in DeployTaskIds, job[t] \in Live
    PROVE  /\ taskUser[t] \in Users /\ siteStatus[taskUser[t]] \in {"DEPLOYING", "CONFIGURED"}
           /\ \E o \in DeployOrderIds : deployUser[o] = taskUser[t]
           /\ \A o \in DeployOrderIds : deployUser[o] = taskUser[t] =>
                 deployTaskId[o] = t /\ deployState[o] = StateAt(job[t])
           /\ \A s \in DeployTaskIds : job[s] \in Live /\ taskUser[s] = taskUser[t] => s = t
<1>1. JobFits(t)
  BY DEF AloneInv, JobsFit
<1>2. PICK o \in DeployOrderIds :
         deployUser[o] = taskUser[t] /\ deployTaskId[o] = t /\ deployState[o] = StateAt(job[t])
  BY <1>1 DEF JobFits
<1>3. StateAt(job[t]) # "absent"
  BY DEF StateAt
<1>4. deployUser[o] # NoUser /\ deployUser[o] \in Users \union {NoUser}
  BY <1>2, <1>3 DEF AloneInv, OrdersApart, TypeInv, TypeOK
<1>5. \A p \in DeployOrderIds : deployUser[p] = taskUser[t] => p = o
  BY <1>2, <1>4 DEF AloneInv, OrdersApart
<1>6. QED
  BY <1>1, <1>2, <1>4, <1>5 DEF JobFits

AtWork == PendingPc \union DoingPc

\* The user whose deployment the consumer prepares has an open order and nothing else.
LEMMA ServesOne ==
    ASSUME TypeInv, AloneInv, disp[Consumer].pc \in AtWork
    PROVE  LET u == disp[Consumer].user IN
           /\ u \in Users /\ Undeployed(u)
           /\ \A o \in DeployOrderIds : deployUser[o] = u => deployState[o] \in {"pending", "doing"}
           /\ \E o \in DeployOrderIds : deployUser[o] = u
           /\ \A r \in DeployRequests : InFlight(r) => request[r].user # u
<1> DEFINE u == disp[Consumer].user
<1>1. Serves(disp[Consumer]) /\ Consumer \in Dispatchers /\ RunFits(disp[Consumer])
  BY DispatchersAssumption DEF AloneInv, TypeInv, OrdersHaveUsers
<1>2. u \in Users
  BY <1>1 DEF RunFits, PreparesDeployment, AtWork, PendingPc, DoingPc
<1>3. PICK o \in DeployOrderIds : deployUser[o] = u /\ deployState[o] \in {"pending", "doing"}
                                  /\ (disp[Consumer].pc \in PendingPc => deployState[o] = "pending")
  <2>1. CASE disp[Consumer].pc \in PendingPc
    BY <1>1, <2>1 DEF Serves
  <2>2. CASE disp[Consumer].pc \in DoingPc
    BY <1>1, <2>2 DEF Serves, OrderPc, DoingPc, PendingPc
  <2>3. QED
    BY <2>1, <2>2 DEF AtWork
<1>4. \A p \in DeployOrderIds : deployUser[p] = u => p = o
  BY <1>2, <1>3, UsersAssumption DEF AloneInv, OrdersApart
<1>5. Undeployed(u)
  <2>1. CASE disp[Consumer].pc \in PendingPc
    <3>1. siteStatus[u] \notin Deployed
      BY <1>3 DEF AloneInv, SitesFit
    <3>2. \A t \in DeployTaskIds : job[t] \in Live => taskUser[t] # u
      BY <1>3, <2>1, LiveFits DEF StateAt
    <3>3. QED
      BY <3>1, <3>2 DEF Undeployed
  <2>2. CASE disp[Consumer].pc \in DoingPc
    BY <1>1, <2>2 DEF Serves
  <2>3. QED
    BY <2>1, <2>2 DEF AtWork
<1>6. \A r \in DeployRequests : InFlight(r) => request[r].user # u
  BY <1>3 DEF AloneInv, RequestsFit, RequestFits
<1>7. QED
  BY <1>2, <1>3, <1>4, <1>5, <1>6

\* A request still fits if no other begins for its user, and nothing opens an
\* order or deploys a site of that user.
LEMMA RequestStays ==
    ASSUME TypeInv, NEW r \in DeployRequests, RequestFits(r),
           request'[r] = request[r], configuring'[r] = configuring[r],
           Working(r) => \A q \in DeployRequests :
              Working(q)' /\ request'[q].user = request[r].user => q = r,
           InFlight(r) => \A o \in DeployOrderIds :
              /\ deployUser'[o] = request[r].user <=> deployUser[o] = request[r].user
              /\ deployUser[o] = request[r].user =>
                    /\ deployState'[o] \in {"pending", "doing"} => deployState[o] \in {"pending", "doing"}
                    /\ deployTaskId'[o] = deployTaskId[o],
           InFlight(r) /\ Undeployed(request[r].user) => Undeployed(request[r].user)',
           configuring[r] # NoUser =>
              /\ siteStatus'[configuring[r]] \notin Deployed
              /\ \A t \in DeployTaskIds : taskUser'[t] = configuring[r] => job'[t] \notin Ending
    PROVE  RequestFits(r)'
<1>1. InFlight(r)' = InFlight(r) /\ Working(r)' = Working(r)
  BY DEF InFlight, Working
<1>2. request[r].pc \in {"find", "create", "save"} => InFlight(r)
  BY DEF InFlight
<1>3. request[r].pc = "save" => request[r].order \in DeployOrderIds
  BY DEF TypeInv, OrdersHaveUsers
<1>4. request[r].pc = "save" => Undeployed(request[r].user)'
  BY <1>2 DEF RequestFits
<1>5. request[r].pc = "find" /\ request[r].status = "DEPLOY_FAILED" => Undeployed(request[r].user)'
  BY <1>2 DEF RequestFits
<1>6. InFlight(r) => \A o \in DeployOrderIds :
         deployUser'[o] = request[r].user => deployState'[o] \notin {"pending", "doing"}
  BY DEF RequestFits
<1>7. request[r].pc = "save" => /\ deployUser'[request[r].order] = request[r].user
                                /\ request[r].task = deployTaskId'[request[r].order]
  BY <1>2, <1>3 DEF RequestFits
<1>8. request[r].pc = "create" => \A o \in DeployOrderIds : deployUser'[o] # request[r].user
  BY <1>2 DEF RequestFits
<1>9. QED
  BY <1>1, <1>4, <1>5, <1>6, <1>7, <1>8 DEF RequestFits, Undeployed

\* So do all, if none moves.
LEMMA RequestsStay ==
    ASSUME TypeInv, AloneInv, UNCHANGED <<request, configuring, deployUser>>,
           \A r \in DeployRequests : \A o \in DeployOrderIds :
              InFlight(r) /\ deployUser[o] = request[r].user =>
                 /\ deployState'[o] \in {"pending", "doing"} => deployState[o] \in {"pending", "doing"}
                 /\ deployTaskId'[o] = deployTaskId[o],
           \A r \in DeployRequests :
              InFlight(r) /\ Undeployed(request[r].user) => Undeployed(request[r].user)',
           \A r \in DeployRequests : configuring[r] # NoUser =>
              /\ siteStatus'[configuring[r]] \notin Deployed
              /\ \A t \in DeployTaskIds : taskUser'[t] = configuring[r] => job'[t] \notin Ending
    PROVE  RequestsFit'
<1> SUFFICES ASSUME NEW r \in DeployRequests PROVE RequestFits(r)'
  BY DEF RequestsFit
<1>1. RequestFits(r)
  BY DEF AloneInv, RequestsFit
<1>2. \A q \in DeployRequests : Working(q)' = Working(q)
  BY DEF InFlight, Working
<1>3. Working(r) => \A q \in DeployRequests : Working(q)' /\ request'[q].user = request[r].user => q = r
  BY <1>1, <1>2 DEF RequestFits
<1>4. QED
  BY <1>1, <1>3, RequestStays

\* A job still fits if its order, its site and its place go together.
LEMMA JobsStay ==
    ASSUME TypeInv, AloneInv,
           \A t \in DeployTaskIds : job'[t] \in Live =>
              job[t] \in Live /\ StateAt(job'[t]) = StateAt(job[t]) /\ taskUser'[t] = taskUser[t],
           \A t \in DeployTaskIds : job'[t] \in Live =>
              siteStatus'[taskUser[t]] \in {"DEPLOYING", "CONFIGURED"},
           \A t \in DeployTaskIds, o \in DeployOrderIds : job'[t] \in Live /\ deployUser[o] = taskUser[t] =>
              /\ deployUser'[o] = deployUser[o] /\ deployTaskId'[o] = deployTaskId[o]
              /\ deployState'[o] = deployState[o]
    PROVE  JobsFit'
<1> SUFFICES ASSUME NEW t \in DeployTaskIds, job'[t] \in Live PROVE JobFits(t)'
  BY DEF JobsFit
<1>1. JobFits(t)
  BY DEF AloneInv, JobsFit
<1>2. PICK o \in DeployOrderIds :
         deployUser[o] = taskUser[t] /\ deployTaskId[o] = t /\ deployState[o] = StateAt(job[t])
  BY <1>1 DEF JobFits
<1>3. deployUser'[o] = taskUser'[t] /\ deployTaskId'[o] = t /\ deployState'[o] = StateAt(job'[t])
  BY <1>2
<1>4. \A s \in DeployTaskIds : job'[s] \in Live /\ taskUser'[s] = taskUser'[t] => s = t
  BY <1>1 DEF JobFits
<1>5. siteStatus'[taskUser'[t]] \in {"DEPLOYING", "CONFIGURED"}
  OBVIOUS
<1>6. QED
  BY <1>3, <1>4, <1>5 DEF JobFits

\* What the consumer's row in memory says is about the rows of its user only.
LEMMA ServesStays ==
    ASSUME NEW c, Serves(c),
           \A o \in DeployOrderIds : deployUser[o] # NoUser => deployUser'[o] = deployUser[o],
           c.pc \in {"publish", "post"} /\ c.deploy # NoId => deployState'[c.deploy] = "pending",
           c.pc \in AtWork => c.user # NoUser,
           \A o \in DeployOrderIds : c.pc \in AtWork /\ deployUser[o] = c.user =>
              deployState'[o] = deployState[o] /\ deployTaskId'[o] = deployTaskId[o],
           c.pc \in DoingPc => Undeployed(c.user)',
           c.pc = "config" => siteStatus'[c.user] \in {"DEPLOYING", "CONFIGURED"}
    PROVE  Serves(c)'
<1>1. c.pc \in PendingPc => \E o \in DeployOrderIds : deployUser'[o] = c.user /\ deployState'[o] = "pending"
  BY DEF Serves, AtWork
<1>2. c.pc \in OrderPc => c.order \in DeployOrderIds /\ deployUser'[c.order] = c.user
  BY DEF Serves, AtWork, OrderPc, PendingPc, DoingPc
<1>3. c.pc \in LinkedPc => deployTaskId'[c.order] = c.task
  BY DEF Serves, AtWork, OrderPc, PendingPc, DoingPc, LinkedPc
<1>4. c.pc \in DoingPc => deployState'[c.order] = "doing"
  BY DEF Serves, AtWork, OrderPc, PendingPc, DoingPc
<1>5. QED
  BY <1>1, <1>2, <1>3, <1>4 DEF Serves

deploymentRows == <<deployUser, deployState, deployTaskId, taskUser, taskState, job, request, configuring>>

\* Posts and publications change no more than the status of a deployed site,
\* and the consumer may go on with what fits.
LEMMA OthersMove ==
    ASSUME TypeInv, AloneInv, UNCHANGED deploymentRows, OthersIdle', NEW run, disp'[Consumer] = run,
           \A u \in Users : siteStatus'[u] = siteStatus[u]
                            \/ (siteStatus[u] \in Deployed /\ siteStatus'[u] \in Deployed),
           \A u \in Users : postState'[u] = "doing" \/ publishing'[u] \in {"active", "finish", "fail"} =>
              siteStatus'[u] \in Deployed,
           Serves(run), run.pc \in AtWork => run.user \in Users
    PROVE  AloneInv'
<1> USE DEF deploymentRows
<1>1. /\ \A u \in Users : siteStatus[u] \notin Deployed => siteStatus'[u] = siteStatus[u]
      /\ \A u \in Users : siteStatus[u] = "CONFIGURED" => siteStatus'[u] = siteStatus[u]
  BY DEF Deployed
<1>2. OrdersApart'
  BY DEF AloneInv, OrdersApart
<1>3. SitesFit'
  <2>1. \A o \in DeployOrderIds : deployState[o] \in {"pending", "doing"} => deployUser[o] \in Users
    BY DEF AloneInv, OrdersApart, TypeInv, TypeOK
  <2>2. \A o \in DeployOrderIds : deployState[o] \in {"pending", "doing"} => siteStatus'[deployUser[o]] \notin Deployed
    BY <1>1, <2>1 DEF AloneInv, SitesFit
  <2>3. \A u \in Users : siteStatus'[u] # "CONFIGURED" => \E o \in DeployOrderIds : deployUser[o] = u
    BY <1>1 DEF AloneInv, SitesFit
  <2>4. QED
    BY <2>2, <2>3 DEF SitesFit
<1>4. RequestsFit'
  <2>1. \A r \in DeployRequests : InFlight(r) /\ Undeployed(request[r].user) => Undeployed(request[r].user)'
    BY <1>1 DEF Undeployed, TypeInv, OrdersHaveUsers
  <2>2. \A r \in DeployRequests : configuring[r] # NoUser =>
           /\ siteStatus'[configuring[r]] \notin Deployed
           /\ \A t \in DeployTaskIds : taskUser'[t] = configuring[r] => job'[t] \notin Ending
    BY <1>1 DEF AloneInv, RequestsFit, RequestFits, TypeInv, TypeOK
  <2>3. QED
    BY <2>1, <2>2, RequestsStay
<1>5. JobsFit'
  <2>1. \A t \in DeployTaskIds : job'[t] \in Live =>
           siteStatus'[taskUser[t]] \in {"DEPLOYING", "CONFIGURED"}
    BY <1>1, LiveFits DEF Deployed
  <2>2. QED
    BY <2>1, JobsStay
<1>6. Serves(run)'
  <2>1. /\ run.pc \in DoingPc => Undeployed(run.user)'
        /\ run.pc = "config" => siteStatus'[run.user] \in {"DEPLOYING", "CONFIGURED"}
    BY <1>1 DEF Serves, Undeployed, AtWork, DoingPc, Deployed
  <2>2. /\ run.pc \in {"publish", "post"} /\ run.deploy # NoId => deployState'[run.deploy] = "pending"
        /\ run.pc \in AtWork => run.user # NoUser
    BY UsersAssumption DEF Serves
  <2>3. QED
    BY <2>1, <2>2, ServesStays
<1>7. Serves(disp[Consumer])'
  BY <1>6 DEF Serves
<1>8. QED
  BY <1>2, <1>3, <1>4, <1>5, <1>7 DEF AloneInv

\* The consumer goes on, and changes nothing but its own place.
LEMMA ConsumerMoves ==
    ASSUME TypeInv, AloneInv, NEW run, disp' = [disp EXCEPT ![Consumer] = run],
           UNCHANGED deploymentRows, UNCHANGED <<siteStatus, postState, publishing>>,
           Serves(run), run.pc \in AtWork => run.user \in Users
    PROVE  AloneInv'
<1>1. \A d \in Dispatchers : disp'[d] = IF d = Consumer THEN run ELSE disp[d]
  BY DEF TypeInv, TypeOK
<1>2. disp'[Consumer] = run
  BY <1>1, DispatchersAssumption
<1>3. OthersIdle'
  BY <1>1 DEF AloneInv, OthersIdle
<1>4. \A u \in Users : postState'[u] = "doing" \/ publishing'[u] \in {"active", "finish", "fail"} =>
         siteStatus'[u] \in Deployed
  BY DEF AloneInv, SitesFit
<1>5. \A u \in Users : siteStatus'[u] = siteStatus[u]
                         \/ (siteStatus[u] \in Deployed /\ siteStatus'[u] \in Deployed)
  OBVIOUS
<1>6. QED
  BY <1>2, <1>3, <1>4, <1>5, OthersMove

LEMMA IdleServes == Serves(Idle) /\ Idle.pc \notin AtWork
BY IdleRuns DEF Serves, AtWork, PendingPc, OrderPc, LinkedPc, DoingPc

\* A dispatcher that has read nothing, and works for nobody, serves.
LEMMA RestServes ==
    ASSUME NEW run, run.pc \notin AtWork \union {"publish", "post"}
    PROVE  Serves(run)
BY DEF Serves, AtWork, PendingPc, OrderPc, LinkedPc, DoingPc

\* The consumer reads: it keeps the order it has found.
LEMMA ReadsAlone ==
    ASSUME TypeInv, AloneInv,
           DispatchNextTask(Consumer) \/ ReadDeploy(Consumer) \/ ReadPublish(Consumer)
    PROVE  AloneInv'
<1> DEFINE c == disp[Consumer]
<1>1. c \in DispatcherRun /\ Serves(c)
  BY DispatchersAssumption DEF TypeInv, TypeOK, AloneInv
<1>2. UNCHANGED deploymentRows /\ UNCHANGED <<siteStatus, postState, publishing>>
  BY DEF deploymentRows, DispatchNextTask, BelowWipLimit, ReadDeploy, ReadPublish
<1>3. CASE DispatchNextTask(Consumer)
  <2> DEFINE run == [c EXCEPT !.pc = "deploy"]
  <2>1. disp' = [disp EXCEPT ![Consumer] = run]
    BY <1>3 DEF DispatchNextTask, BelowWipLimit
  <2>2. run.pc = "deploy"
    BY <1>1 DEF DispatcherRun
  <2> HIDE DEF run
  <2>3. run.pc \notin AtWork \union {"publish", "post"}
    BY <2>2 DEF AtWork, PendingPc, DoingPc
  <2>4. QED
    BY <1>2, <2>1, <2>3, RestServes, ConsumerMoves
<1>4. CASE ReadDeploy(Consumer)
  <2> DEFINE run == [c EXCEPT !.pc = "publish", !.deploy = First(DeployOptions, deployCreatedAt, NoId)]
  <2>1. disp' = [disp EXCEPT ![Consumer] = run]
    BY <1>4 DEF ReadDeploy
  <2>2. run.pc = "publish" /\ run.deploy = First(DeployOptions, deployCreatedAt, NoId)
    BY <1>1 DEF DispatcherRun
  <2> HIDE DEF run
  <2>3. run.deploy # NoId => deployState[run.deploy] = "pending"
    BY <2>2, FirstIsOption DEF DeployOptions
  <2>4. Serves(run) /\ run.pc \notin AtWork
    BY <2>2, <2>3 DEF Serves, AtWork, PendingPc, OrderPc, LinkedPc, DoingPc
  <2>5. QED
    BY <1>2, <2>1, <2>4, ConsumerMoves
<1>5. CASE ReadPublish(Consumer)
  <2> DEFINE run == [c EXCEPT !.pc = "post", !.publish = First(PublishOptions, publishCreatedAt, NoUser)]
  <2>1. disp' = [disp EXCEPT ![Consumer] = run] /\ c.pc = "publish"
    BY <1>5 DEF ReadPublish
  <2>2. run.pc = "post" /\ run.deploy = c.deploy
    BY <1>1 DEF DispatcherRun
  <2> HIDE DEF run
  <2>3. Serves(run) /\ run.pc \notin AtWork
    BY <1>1, <2>1, <2>2 DEF Serves, AtWork, PendingPc, OrderPc, LinkedPc, DoingPc
  <2>4. QED
    BY <1>2, <2>1, <2>3, ConsumerMoves
<1>6. QED
  BY <1>3, <1>4, <1>5

\* The order it dispatches is still pending.
LEMMA OldestAlone ==
    ASSUME TypeInv, AloneInv, DispatchOldestOrder(Consumer) PROVE AloneInv'
<1> DEFINE c == disp[Consumer]
           post == First(PostOptions, postCreatedAt, NoUser)
           created == (IF c.deploy = NoId THEN {} ELSE {deployCreatedAt[c.deploy]})
                        \union (IF c.publish = NoUser THEN {} ELSE {publishCreatedAt[c.publish]})
                        \union (IF post = NoUser THEN {} ELSE {postCreatedAt[post]})
           Oldest(at) == \A x \in created : at <= x
           place == CASE c.deploy # NoId /\ Oldest(deployCreatedAt[c.deploy]) ->
                           [Idle EXCEPT !.pc = "validate", !.user = deployUser[c.deploy]]
                      [] c.publish # NoUser /\ Oldest(publishCreatedAt[c.publish]) ->
                           [Idle EXCEPT !.pc = "publishSite", !.user = c.publish]
                      [] post # NoUser /\ Oldest(postCreatedAt[post]) ->
                           [Idle EXCEPT !.pc = "createPosts", !.user = post]
                      [] OTHER -> Idle
<1>1. c \in DispatcherRun /\ Serves(c) /\ c.pc = "post"
  BY DispatchersAssumption DEF TypeInv, TypeOK, AloneInv, DispatchOldestOrder
<1>2. UNCHANGED deploymentRows /\ UNCHANGED <<siteStatus, postState, publishing>>
  BY DEF deploymentRows, DispatchOldestOrder
<1>3. disp' = [disp EXCEPT ![Consumer] = place]
  BY DEF DispatchOldestOrder
<1> HIDE DEF post, created, Oldest
<1>4. \/ c.deploy # NoId /\ place = [Idle EXCEPT !.pc = "validate", !.user = deployUser[c.deploy]]
      \/ place = [Idle EXCEPT !.pc = "publishSite", !.user = c.publish]
      \/ place = [Idle EXCEPT !.pc = "createPosts", !.user = post]
      \/ place = Idle
  OBVIOUS
<1> HIDE DEF place
<1>5. CASE c.deploy # NoId /\ place = [Idle EXCEPT !.pc = "validate", !.user = deployUser[c.deploy]]
  <2>1. c.deploy \in DeployOrderIds /\ deployState[c.deploy] = "pending"
    BY <1>1, <1>5 DEF DispatcherRun, Serves
  <2>2. place.pc = "validate" /\ place.user = deployUser[c.deploy]
    BY <1>5 DEF Idle
  <2>3. place.user \in Users
    BY <2>1, <2>2 DEF TypeInv, OrdersHaveUsers
  <2>4. Serves(place)
    BY <2>1, <2>2 DEF Serves, PendingPc, OrderPc, LinkedPc, DoingPc
  <2>5. QED
    BY <1>2, <1>3, <2>3, <2>4, ConsumerMoves
<1>6. CASE \/ place = [Idle EXCEPT !.pc = "publishSite", !.user = c.publish]
           \/ place = [Idle EXCEPT !.pc = "createPosts", !.user = post]
           \/ place = Idle
  <2>1. place.pc \in {"publishSite", "createPosts", "idle"}
    <3>1. ASSUME NEW q \in {"publishSite", "createPosts"}, NEW v, place = [Idle EXCEPT !.pc = q, !.user = v]
          PROVE  place.pc = q
      BY <3>1 DEF Idle
    <3>2. QED
      BY <1>6, <3>1, IdleRuns
  <2>2. place.pc \notin AtWork \union {"publish", "post"}
    BY <2>1 DEF AtWork, PendingPc, DoingPc
  <2>3. QED
    BY <1>2, <1>3, <2>2, RestServes, ConsumerMoves
<1>7. QED
  BY <1>4, <1>5, <1>6

\* It reads the site and the order of its user.
LEMMA ReadSiteAlone ==
    ASSUME TypeInv, AloneInv, ReadSite(Consumer) PROVE AloneInv'
<1> DEFINE c == disp[Consumer]
           run == [c EXCEPT !.pc = "order", !.status = siteStatus[c.user]]
<1>1. c \in DispatcherRun /\ Serves(c) /\ c.pc = "validate"
  BY DispatchersAssumption DEF TypeInv, TypeOK, AloneInv, ReadSite
<1>2. UNCHANGED deploymentRows /\ UNCHANGED <<siteStatus, postState, publishing>>
  BY DEF deploymentRows, ReadSite
<1>3. disp' = [disp EXCEPT ![Consumer] = run]
  BY DEF ReadSite
<1>4. run.pc = "order" /\ run.user = c.user
  BY <1>1 DEF DispatcherRun
<1> HIDE DEF run
<1>5. Serves(run)
  BY <1>1, <1>4 DEF Serves, PendingPc, OrderPc, LinkedPc, DoingPc
<1>6. run.user \in Users
  BY <1>1, <1>4, ServesOne DEF AtWork, PendingPc
<1>7. QED
  BY <1>2, <1>3, <1>5, <1>6, ConsumerMoves

LEMMA ReadOrderAlone ==
    ASSUME TypeInv, AloneInv, ReadOrder(Consumer) PROVE AloneInv'
<1> DEFINE c == disp[Consumer]
           place == CASE c.status = "DEPLOY_FAILED" -> "resetOrder"
                      [] c.status = "CONFIGURED" -> "generate"
                      [] OTHER -> "idle"
<1>1. c \in DispatcherRun /\ Serves(c) /\ c.pc = "order"
  BY DispatchersAssumption DEF TypeInv, TypeOK, AloneInv, ReadOrder
<1>2. UNCHANGED deploymentRows /\ UNCHANGED <<siteStatus, postState, publishing>>
  BY DEF deploymentRows, ReadOrder
<1>3. \/ disp' = [disp EXCEPT ![Consumer] = Idle]
      \/ /\ place # "idle"
         /\ \E o \in DeployOrderIds : /\ deployUser[o] = c.user
                                      /\ disp' = [disp EXCEPT ![Consumer].pc = place, ![Consumer].order = o]
  BY DEF ReadOrder
<1>4. place \in {"resetOrder", "generate", "idle"}
  OBVIOUS
<1> HIDE DEF place
<1>5. CASE disp' = [disp EXCEPT ![Consumer] = Idle]
  BY <1>2, <1>5, IdleServes, ConsumerMoves
<1>6. ASSUME place # "idle", NEW o \in DeployOrderIds, deployUser[o] = c.user,
             disp' = [disp EXCEPT ![Consumer].pc = place, ![Consumer].order = o]
      PROVE  AloneInv'
  <2> DEFINE run == [c EXCEPT !.pc = place, !.order = o]
  <2>1. disp' = [disp EXCEPT ![Consumer] = run]
    BY <1>6
  <2>2. run.pc = place /\ run.order = o /\ run.user = c.user
    BY <1>1 DEF DispatcherRun
  <2> HIDE DEF run
  <2>3. Serves(run)
    BY <1>1, <1>4, <1>6, <2>2 DEF Serves, PendingPc, OrderPc, LinkedPc, DoingPc
  <2>4. run.user \in Users
    BY <1>1, <2>2, ServesOne DEF AtWork, PendingPc
  <2>5. QED
    BY <1>2, <2>1, <2>3, <2>4, ConsumerMoves
<1>7. QED
  BY <1>3, <1>5, <1>6

\* Posts and publications: only the site of a deployed user is concerned.
LEMMA OthersAlone ==
    ASSUME TypeInv, AloneInv, NEW u \in Users,
           SavePost(u) \/ PostJobEnds(u) \/ PublishJobEnds(u) \/ SetPublished(u)
    PROVE  AloneInv'
<1> DEFINE c == disp[Consumer]
<1>1. Serves(c) /\ (c.pc \in AtWork => c.user \in Users)
  BY ServesOne DEF AloneInv
<1>2. UNCHANGED deploymentRows /\ UNCHANGED disp
  BY DEF deploymentRows, SavePost, PostJobEnds, PublishJobEnds, SetPublished
<1>3. \A v \in Users : siteStatus'[v] = siteStatus[v]
                         \/ (siteStatus[v] \in Deployed /\ siteStatus'[v] \in Deployed)
  <2>1. CASE SavePost(u) \/ PostJobEnds(u) \/ PublishJobEnds(u)
    BY <2>1 DEF SavePost, PostJobEnds, PublishJobEnds
  <2>2. CASE SetPublished(u)
    BY <2>2 DEF SetPublished, AloneInv, SitesFit, TypeInv, TypeOK, Deployed
  <2>3. QED
    BY <2>1, <2>2
<1>4. \A v \in Users : postState'[v] = "doing" \/ publishing'[v] \in {"active", "finish", "fail"} =>
         postState[v] = "doing" \/ publishing[v] \in {"active", "finish", "fail"}
  <2>1. CASE SavePost(u) \/ PostJobEnds(u)
    BY <2>1 DEF SavePost, PostJobEnds, TypeInv, TypeOK
  <2>2. CASE PublishJobEnds(u)
    BY <2>2 DEF PublishJobEnds, TypeInv, TypeOK
  <2>3. CASE SetPublished(u)
    BY <2>3 DEF SetPublished, TypeInv, TypeOK
  <2>4. QED
    BY <2>1, <2>2, <2>3
<1>5. \A v \in Users : postState'[v] = "doing" \/ publishing'[v] \in {"active", "finish", "fail"} =>
         siteStatus'[v] \in Deployed
  BY <1>3, <1>4 DEF AloneInv, SitesFit
<1>6. OthersIdle' /\ disp'[Consumer] = c
  BY <1>2 DEF AloneInv, OthersIdle
<1>7. QED
  BY <1>1, <1>2, <1>3, <1>5, <1>6, OthersMove

\* The consumer's dispatch of posts or of a publication, and the end of a failed one.
LEMMA DispatchOthersAlone ==
    ASSUME TypeInv, AloneInv,
           CreatePosts(Consumer) \/ PublishSite(Consumer) \/ DispatchFailed(Consumer)
    PROVE  AloneInv'
<1>1. disp' = [disp EXCEPT ![Consumer] = Idle] /\ UNCHANGED deploymentRows
  BY DEF deploymentRows, CreatePosts, PublishSite, DispatchFailed
<1>2. \A d \in Dispatchers : disp'[d] = IF d = Consumer THEN Idle ELSE disp[d]
  BY <1>1 DEF TypeInv, TypeOK
<1>3. OthersIdle' /\ disp'[Consumer] = Idle
  BY <1>2, DispatchersAssumption DEF AloneInv, OthersIdle
<1>4. \A v \in Users : siteStatus'[v] = siteStatus[v]
                         \/ (siteStatus[v] \in Deployed /\ siteStatus'[v] \in Deployed)
  <2>1. CASE CreatePosts(Consumer) \/ DispatchFailed(Consumer)
    BY <2>1 DEF CreatePosts, DispatchFailed
  <2>2. CASE PublishSite(Consumer)
    BY <2>2 DEF PublishSite, TypeInv, TypeOK, Deployed, AtRest
  <2>3. QED
    BY <2>1, <2>2
<1>5. \A v \in Users : postState'[v] = "doing" \/ publishing'[v] \in {"active", "finish", "fail"} =>
         siteStatus'[v] \in Deployed
  <2>1. \A v \in Users : postState[v] = "doing" \/ publishing[v] \in {"active", "finish", "fail"} =>
           siteStatus[v] \in Deployed
    BY DEF AloneInv, SitesFit
  <2>2. CASE DispatchFailed(Consumer)
    BY <2>1, <2>2 DEF DispatchFailed
  <2>3. CASE CreatePosts(Consumer)
    BY <2>1, <2>3 DEF CreatePosts, TypeInv, TypeOK, Deployed, AtRest
  <2>4. CASE PublishSite(Consumer)
    <3>1. \A v \in Users : postState'[v] = "doing" \/ publishing'[v] \in {"active", "finish", "fail"} =>
             siteStatus[v] \in Deployed
      BY <2>1, <2>4 DEF PublishSite, TypeInv, TypeOK, Deployed, AtRest
    <3>2. QED
      BY <1>4, <3>1
  <2>5. QED
    BY <2>2, <2>3, <2>4
<1>6. QED
  BY <1>1, <1>3, <1>4, <1>5, IdleServes, OthersMove

\* Whatever the consumer writes of the order and the site it works for, nobody
\* else has anything to do with them.
LEMMA ServedRows ==
    ASSUME TypeInv, AloneInv, disp[Consumer].pc \in AtWork,
           NEW u, u = disp[Consumer].user,
           UNCHANGED <<deployUser, job, request, configuring, postState, publishing>>,
           \A o \in DeployOrderIds :
              IF deployUser[o] = u THEN deployState'[o] \in {"pending", "doing"}
              ELSE deployState'[o] = deployState[o] /\ deployTaskId'[o] = deployTaskId[o],
           \A o \in DeployOrderIds : deployTaskId'[o] # NoId =>
              /\ taskState'[deployTaskId'[o]] # "absent"
              /\ taskUser'[deployTaskId'[o]] = deployUser[o] /\ deployUser[o] # NoUser,
           \A t \in DeployTaskIds : job[t] # "none" => taskUser'[t] = taskUser[t],
           \A v \in Users : v # u => siteStatus'[v] = siteStatus[v],
           siteStatus'[u] \notin Deployed
    PROVE  /\ OrdersApart' /\ SitesFit' /\ RequestsFit' /\ JobsFit' /\ Undeployed(u)'
<1>1. /\ u \in Users /\ Undeployed(u)
      /\ \A o \in DeployOrderIds : deployUser[o] = u => deployState[o] \in {"pending", "doing"}
      /\ \E o \in DeployOrderIds : deployUser[o] = u
      /\ \A r \in DeployRequests : InFlight(r) => request[r].user # u
  BY ServesOne
<1>2. \A t \in DeployTaskIds : job[t] \in Live \union Ending => job[t] # "none"
  BY DEF Live, Ending
<1>3. OrdersApart'
  <2>1. \A o \in DeployOrderIds : deployState'[o] = "absent" <=> deployUser'[o] = NoUser
    BY <1>1 DEF AloneInv, OrdersApart
  <2>2. QED
    BY <2>1 DEF AloneInv, OrdersApart
<1>4. SitesFit'
  <2>1. \A o \in DeployOrderIds : deployState[o] \in {"pending", "doing"} => deployUser[o] \in Users
    BY DEF AloneInv, OrdersApart, TypeInv, TypeOK
  <2>2. \A o \in DeployOrderIds : deployState'[o] \in {"pending", "doing"} => siteStatus'[deployUser[o]] \notin Deployed
    BY <1>1, <2>1 DEF AloneInv, SitesFit
  <2>3. \A v \in Users : siteStatus'[v] # "CONFIGURED" => \E o \in DeployOrderIds : deployUser[o] = v
    BY <1>1 DEF AloneInv, SitesFit
  <2>4. \A v \in Users : postState[v] = "doing" \/ publishing[v] \in {"active", "finish", "fail"} =>
           siteStatus'[v] \in Deployed
    BY <1>1 DEF AloneInv, SitesFit, Undeployed
  <2>5. QED
    BY <2>2, <2>3, <2>4 DEF SitesFit
<1>5. RequestsFit'
  <2>1. \A r \in DeployRequests : InFlight(r) /\ Undeployed(request[r].user) => Undeployed(request[r].user)'
    BY <1>1, <1>2 DEF Undeployed, TypeInv, OrdersHaveUsers
  <2>2. \A r \in DeployRequests : configuring[r] # NoUser =>
           /\ siteStatus'[configuring[r]] \notin Deployed
           /\ \A t \in DeployTaskIds : taskUser'[t] = configuring[r] => job'[t] \notin Ending
    BY <1>1, <1>2 DEF AloneInv, RequestsFit, RequestFits, TypeInv, TypeOK
  <2>3. \A r \in DeployRequests : \A o \in DeployOrderIds :
           InFlight(r) /\ deployUser[o] = request[r].user =>
              deployState'[o] = deployState[o] /\ deployTaskId'[o] = deployTaskId[o]
    BY <1>1
  <2>4. QED
    BY <2>1, <2>2, <2>3, RequestsStay
<1>6. JobsFit'
  <2>1. \A t \in DeployTaskIds : job[t] \in Live => taskUser[t] # u
    BY <1>1 DEF Undeployed
  <2>2. \A t \in DeployTaskIds : job'[t] \in Live => siteStatus'[taskUser[t]] \in {"DEPLOYING", "CONFIGURED"}
    BY <2>1, LiveFits
  <2>3. \A t \in DeployTaskIds : job'[t] \in Live => job[t] \in Live /\ taskUser'[t] = taskUser[t]
    BY <1>2
  <2>4. \A t \in DeployTaskIds, o \in DeployOrderIds : job'[t] \in Live /\ deployUser[o] = taskUser[t] =>
           /\ deployUser'[o] = deployUser[o] /\ deployTaskId'[o] = deployTaskId[o]
           /\ deployState'[o] = deployState[o]
    BY <2>1
  <2>5. QED
    BY <2>2, <2>3, <2>4, JobsStay
<1>7. Undeployed(u)'
  BY <1>1, <1>2 DEF Undeployed
<1>8. QED
  BY <1>3, <1>4, <1>5, <1>6, <1>7

\* The consumer goes on to its next statement.
LEMMA ConsumerAdvances ==
    ASSUME TypeInv, AloneInv, NEW from \in DispatcherPc, NEW to \in DispatcherPc, Advance(Consumer, from, to)
    PROVE  LET c == disp[Consumer] IN
           /\ c \in DispatcherRun /\ c.pc = from /\ Serves(c)
           /\ disp'[Consumer].pc = to /\ disp'[Consumer].user = c.user
           /\ disp'[Consumer].order = c.order /\ disp'[Consumer].task = c.task
           /\ OthersIdle'
<1> DEFINE c == disp[Consumer]
           next == [c EXCEPT !.pc = to]
<1>1. c \in DispatcherRun /\ c.pc = from /\ Serves(c)
  BY DispatchersAssumption DEF TypeInv, TypeOK, AloneInv, Advance
<1>2. next.pc = to /\ next.user = c.user /\ next.order = c.order /\ next.task = c.task
  BY <1>1, Moved
<1>3. \A d \in Dispatchers : disp'[d] = IF d = Consumer THEN next ELSE disp[d]
  BY DEF Advance, TypeInv, TypeOK
<1> HIDE DEF next
<1>4. OthersIdle'
  BY <1>3 DEF AloneInv, OthersIdle
<1>5. QED
  BY <1>1, <1>2, <1>3, <1>4, DispatchersAssumption

LEMMA ResetOrderAlone ==
    ASSUME TypeInv, AloneInv, ResetOrder(Consumer) PROVE AloneInv'
<1> DEFINE c == disp[Consumer]
<1>1. Advance(Consumer, "resetOrder", "resetStatus")
  BY DEF ResetOrder
<1>2. /\ c.pc = "resetOrder" /\ Serves(c) /\ OthersIdle' /\ c \in DispatcherRun
      /\ disp'[Consumer].pc = "resetStatus" /\ disp'[Consumer].user = c.user /\ disp'[Consumer].order = c.order
  BY <1>1, ConsumerAdvances DEF DispatcherPc
<1>3. c.order \in DeployOrderIds /\ deployUser[c.order] = c.user
  BY <1>2 DEF Serves, OrderPc
<1>4. c.pc \in AtWork /\ c.user \in Users /\ Undeployed(c.user)
      /\ \A o \in DeployOrderIds : deployUser[o] = c.user => deployState[o] \in {"pending", "doing"}
  BY <1>2, ServesOne DEF AtWork, PendingPc
<1>5. \A o \in DeployOrderIds : deployState'[o] = IF o = c.order THEN "pending" ELSE deployState[o]
  BY DEF ResetOrder, TypeInv, TypeOK
<1>6. /\ UNCHANGED <<deployUser, job, request, configuring, postState, publishing>>
      /\ UNCHANGED <<deployTaskId, taskUser, taskState, siteStatus>>
  BY DEF ResetOrder
<1>7. \A o \in DeployOrderIds :
         IF deployUser[o] = c.user THEN deployState'[o] \in {"pending", "doing"}
         ELSE deployState'[o] = deployState[o] /\ deployTaskId'[o] = deployTaskId[o]
  BY <1>3, <1>4, <1>5, <1>6
<1>8. \A o \in DeployOrderIds : deployTaskId'[o] # NoId =>
              /\ taskState'[deployTaskId'[o]] # "absent"
              /\ taskUser'[deployTaskId'[o]] = deployUser[o] /\ deployUser[o] # NoUser
  BY <1>6 DEF AloneInv, OrdersApart
<1>9. siteStatus'[c.user] \notin Deployed
  BY <1>4, <1>6 DEF Undeployed
<1>10. OrdersApart' /\ SitesFit' /\ RequestsFit' /\ JobsFit'
  BY <1>4, <1>6, <1>7, <1>8, <1>9, ServedRows
<1>11. Serves(disp[Consumer])'
  BY <1>2, <1>3, <1>5, <1>6 DEF Serves, PendingPc, OrderPc, LinkedPc, DoingPc
<1>12. QED
  BY <1>2, <1>10, <1>11 DEF AloneInv

LEMMA ResetStatusAlone ==
    ASSUME TypeInv, AloneInv, ResetStatus(Consumer) PROVE AloneInv'
<1> DEFINE c == disp[Consumer]
<1>1. Advance(Consumer, "resetStatus", "generate")
  BY DEF ResetStatus
<1>2. /\ c.pc = "resetStatus" /\ Serves(c) /\ OthersIdle'
      /\ disp'[Consumer].pc = "generate" /\ disp'[Consumer].user = c.user /\ disp'[Consumer].order = c.order
  BY <1>1, ConsumerAdvances DEF DispatcherPc
<1>3. c.pc \in AtWork /\ c.user \in Users /\ Undeployed(c.user)
      /\ \A o \in DeployOrderIds : deployUser[o] = c.user => deployState[o] \in {"pending", "doing"}
  BY <1>2, ServesOne DEF AtWork, PendingPc
<1>4. \A v \in Users : siteStatus'[v] = IF v = c.user THEN "CONFIGURED" ELSE siteStatus[v]
  BY DEF ResetStatus, TypeInv, TypeOK
<1>5. /\ UNCHANGED <<deployUser, job, request, configuring, postState, publishing>>
      /\ UNCHANGED <<deployState, deployTaskId, taskUser, taskState>>
  BY DEF ResetStatus
<1>6. \A o \in DeployOrderIds :
         IF deployUser[o] = c.user THEN deployState'[o] \in {"pending", "doing"}
         ELSE deployState'[o] = deployState[o] /\ deployTaskId'[o] = deployTaskId[o]
  BY <1>3, <1>5
<1>7. \A o \in DeployOrderIds : deployTaskId'[o] # NoId =>
              /\ taskState'[deployTaskId'[o]] # "absent"
              /\ taskUser'[deployTaskId'[o]] = deployUser[o] /\ deployUser[o] # NoUser
  BY <1>5 DEF AloneInv, OrdersApart
<1>8. siteStatus'[c.user] \notin Deployed
  BY <1>3, <1>4 DEF Deployed
<1>9. OrdersApart' /\ SitesFit' /\ RequestsFit' /\ JobsFit'
  BY <1>3, <1>4, <1>5, <1>6, <1>7, <1>8, ServedRows
<1>10. Serves(disp[Consumer])'
  BY <1>2, <1>5 DEF Serves, PendingPc, OrderPc, LinkedPc, DoingPc
<1>11. QED
  BY <1>2, <1>9, <1>10 DEF AloneInv

\* A new task is linked to no order and has no job.
LEMMA GenerateTaskAlone ==
    ASSUME OwnershipInv, AloneInv, GenerateTask(Consumer) PROVE AloneInv'
<1> DEFINE c == disp[Consumer]
<1>1. TypeInv /\ c \in DispatcherRun /\ Serves(c) /\ c.pc = "generate"
  BY DispatchersAssumption DEF OwnershipInv, TypeInv, TypeOK, AloneInv, GenerateTask
<1>2. PICK t \in DeployTaskIds :
         /\ taskState[t] = "absent"
         /\ taskState' = [taskState EXCEPT ![t] = "pending"]
         /\ taskUser' = [taskUser EXCEPT ![t] = c.user]
         /\ disp' = [disp EXCEPT ![Consumer].pc = "link", ![Consumer].task = t]
  BY DEF GenerateTask
<1> DEFINE next == [c EXCEPT !.pc = "link", !.task = t]
<1>3. next.pc = "link" /\ next.user = c.user /\ next.order = c.order
  BY <1>1 DEF DispatcherRun
<1>4. \A d \in Dispatchers : disp'[d] = IF d = Consumer THEN next ELSE disp[d]
  BY <1>1, <1>2 DEF TypeInv, TypeOK
<1> HIDE DEF next
<1>5. OthersIdle' /\ disp'[Consumer] = next
  BY <1>4, DispatchersAssumption DEF AloneInv, OthersIdle
<1>6. c.pc \in AtWork /\ c.user \in Users /\ Undeployed(c.user)
      /\ \A o \in DeployOrderIds : deployUser[o] = c.user => deployState[o] \in {"pending", "doing"}
  BY <1>1, ServesOne DEF AtWork, PendingPc
<1>7. /\ UNCHANGED <<deployUser, job, request, configuring, postState, publishing>>
      /\ UNCHANGED <<deployState, deployTaskId, siteStatus>>
  BY DEF GenerateTask
<1>8. /\ \A s \in DeployTaskIds : s # t => taskState'[s] = taskState[s] /\ taskUser'[s] = taskUser[s]
      /\ job[t] = "none"
  BY <1>1, <1>2 DEF TypeInv, TypeOK, OwnershipInv, JobsHaveTasks
<1>9. \A o \in DeployOrderIds :
         IF deployUser[o] = c.user THEN deployState'[o] \in {"pending", "doing"}
         ELSE deployState'[o] = deployState[o] /\ deployTaskId'[o] = deployTaskId[o]
  BY <1>6, <1>7
<1>10. \A o \in DeployOrderIds : deployTaskId'[o] # NoId =>
              /\ taskState'[deployTaskId'[o]] # "absent"
              /\ taskUser'[deployTaskId'[o]] = deployUser[o] /\ deployUser[o] # NoUser
  <2>1. ASSUME NEW o \in DeployOrderIds, deployTaskId[o] # NoId
        PROVE  /\ deployTaskId[o] \in DeployTaskIds /\ deployTaskId[o] # t
               /\ taskState[deployTaskId[o]] # "absent"
               /\ taskUser[deployTaskId[o]] = deployUser[o] /\ deployUser[o] # NoUser
    BY <1>1, <1>2, <2>1 DEF AloneInv, OrdersApart, TypeInv, TypeOK
  <2>2. QED
    BY <1>7, <1>8, <2>1
<1>11. siteStatus'[c.user] \notin Deployed
  BY <1>6, <1>7 DEF Undeployed
<1>12. OrdersApart' /\ SitesFit' /\ RequestsFit' /\ JobsFit'
  BY <1>1, <1>6, <1>7, <1>8, <1>9, <1>10, <1>11, ServedRows
<1>13. Serves(disp[Consumer])'
  BY <1>1, <1>3, <1>5, <1>7 DEF Serves, PendingPc, OrderPc, LinkedPc, DoingPc
<1>14. QED
  BY <1>5, <1>12, <1>13 DEF AloneInv

LEMMA LinkOrderAlone ==
    ASSUME OwnershipInv, AloneInv, LinkOrder(Consumer) PROVE AloneInv'
<1> DEFINE c == disp[Consumer]
<1>1. TypeInv /\ Advance(Consumer, "link", "doingTask")
  BY DEF OwnershipInv, LinkOrder
<1>2. /\ c.pc = "link" /\ Serves(c) /\ OthersIdle'
      /\ disp'[Consumer].pc = "doingTask" /\ disp'[Consumer].user = c.user
      /\ disp'[Consumer].order = c.order /\ disp'[Consumer].task = c.task
  BY <1>1, ConsumerAdvances DEF DispatcherPc
<1>3. c.pc \in AtWork /\ c.user \in Users /\ Undeployed(c.user)
      /\ \A o \in DeployOrderIds : deployUser[o] = c.user => deployState[o] \in {"pending", "doing"}
  BY <1>1, <1>2, ServesOne DEF AtWork, PendingPc
<1>4. c.order \in DeployOrderIds /\ deployUser[c.order] = c.user
  BY <1>2 DEF Serves, OrderPc
<1>5. taskState[c.task] # "absent" /\ taskUser[c.task] = c.user
  BY <1>2, DispatchersAssumption DEF OwnershipInv, DispatcherHasTask, HasTask, HoldsTask
<1>6. \A o \in DeployOrderIds : deployTaskId'[o] = IF o = c.order THEN c.task ELSE deployTaskId[o]
  BY <1>1 DEF LinkOrder, TypeInv, TypeOK
<1>7. /\ UNCHANGED <<deployUser, job, request, configuring, postState, publishing>>
      /\ UNCHANGED <<deployState, taskUser, taskState, siteStatus>>
  BY DEF LinkOrder
<1>8. \A o \in DeployOrderIds :
         IF deployUser[o] = c.user THEN deployState'[o] \in {"pending", "doing"}
         ELSE deployState'[o] = deployState[o] /\ deployTaskId'[o] = deployTaskId[o]
  BY <1>3, <1>4, <1>6, <1>7
<1>9. \A o \in DeployOrderIds : deployTaskId'[o] # NoId =>
              /\ taskState'[deployTaskId'[o]] # "absent"
              /\ taskUser'[deployTaskId'[o]] = deployUser[o] /\ deployUser[o] # NoUser
  BY <1>3, <1>4, <1>5, <1>6, <1>7, UsersAssumption DEF AloneInv, OrdersApart
<1>10. siteStatus'[c.user] \notin Deployed
  BY <1>3, <1>7 DEF Undeployed
<1>11. OrdersApart' /\ SitesFit' /\ RequestsFit' /\ JobsFit'
  BY <1>1, <1>3, <1>7, <1>8, <1>9, <1>10, ServedRows
<1>12. Serves(disp[Consumer])'
  BY <1>2, <1>4, <1>6, <1>7 DEF Serves, PendingPc, OrderPc, LinkedPc, DoingPc
<1>13. QED
  BY <1>2, <1>11, <1>12 DEF AloneInv

LEMMA DoingTaskAlone ==
    ASSUME OwnershipInv, AloneInv, DoingTask(Consumer) PROVE AloneInv'
<1> DEFINE c == disp[Consumer]
<1>1. TypeInv /\ Advance(Consumer, "doingTask", "doingOrder")
  BY DEF OwnershipInv, DoingTask
<1>2. /\ c.pc = "doingTask" /\ Serves(c) /\ OthersIdle'
      /\ disp'[Consumer].pc = "doingOrder" /\ disp'[Consumer].user = c.user
      /\ disp'[Consumer].order = c.order /\ disp'[Consumer].task = c.task
  BY <1>1, ConsumerAdvances DEF DispatcherPc
<1>3. c.pc \in AtWork /\ c.user \in Users /\ Undeployed(c.user)
      /\ \A o \in DeployOrderIds : deployUser[o] = c.user => deployState[o] \in {"pending", "doing"}
  BY <1>1, <1>2, ServesOne DEF AtWork, PendingPc
<1>4. \A t \in DeployTaskIds : taskState'[t] = IF t = c.task THEN "doing" ELSE taskState[t]
  BY <1>1 DEF DoingTask, TypeInv, TypeOK
<1>5. /\ UNCHANGED <<deployUser, job, request, configuring, postState, publishing>>
      /\ UNCHANGED <<deployState, deployTaskId, taskUser, siteStatus>>
  BY DEF DoingTask
<1>6. \A o \in DeployOrderIds :
         IF deployUser[o] = c.user THEN deployState'[o] \in {"pending", "doing"}
         ELSE deployState'[o] = deployState[o] /\ deployTaskId'[o] = deployTaskId[o]
  BY <1>3, <1>5
<1>7. \A o \in DeployOrderIds : deployTaskId'[o] # NoId =>
              /\ taskState'[deployTaskId'[o]] # "absent"
              /\ taskUser'[deployTaskId'[o]] = deployUser[o] /\ deployUser[o] # NoUser
  BY <1>1, <1>4, <1>5 DEF AloneInv, OrdersApart, TypeInv, TypeOK
<1>8. siteStatus'[c.user] \notin Deployed
  BY <1>3, <1>5 DEF Undeployed
<1>9. OrdersApart' /\ SitesFit' /\ RequestsFit' /\ JobsFit'
  BY <1>1, <1>3, <1>5, <1>6, <1>7, <1>8, ServedRows
<1>10. Serves(disp[Consumer])'
  BY <1>2, <1>5 DEF Serves, PendingPc, OrderPc, LinkedPc, DoingPc
<1>11. QED
  BY <1>2, <1>9, <1>10 DEF AloneInv

LEMMA DoingOrderAlone ==
    ASSUME OwnershipInv, AloneInv, DoingOrder(Consumer) PROVE AloneInv'
<1> DEFINE c == disp[Consumer]
<1>1. TypeInv /\ Advance(Consumer, "doingOrder", "doingStatus")
  BY DEF OwnershipInv, DoingOrder
<1>2. /\ c.pc = "doingOrder" /\ Serves(c) /\ OthersIdle'
      /\ disp'[Consumer].pc = "doingStatus" /\ disp'[Consumer].user = c.user
      /\ disp'[Consumer].order = c.order /\ disp'[Consumer].task = c.task
  BY <1>1, ConsumerAdvances DEF DispatcherPc
<1>3. c.pc \in AtWork /\ c.user \in Users /\ Undeployed(c.user)
      /\ \A o \in DeployOrderIds : deployUser[o] = c.user => deployState[o] \in {"pending", "doing"}
  BY <1>1, <1>2, ServesOne DEF AtWork, PendingPc
<1>4. c.order \in DeployOrderIds /\ deployUser[c.order] = c.user /\ deployTaskId[c.order] = c.task
  BY <1>2 DEF Serves, OrderPc, LinkedPc
<1>5. taskUser[c.task] = c.user /\ c.task \in DeployTaskIds /\ c.task # NoId
  BY <1>2, DispatchersAssumption, NoIdIsNoRow DEF OwnershipInv, DispatcherHasTask, HasTask, HoldsTask
<1>6. \A o \in DeployOrderIds : deployState'[o] = IF deployTaskId[o] = c.task THEN "doing" ELSE deployState[o]
  BY DEF DoingOrder
<1>7. /\ UNCHANGED <<deployUser, job, request, configuring, postState, publishing>>
      /\ UNCHANGED <<deployTaskId, taskUser, taskState, siteStatus>>
  BY DEF DoingOrder
<1>8. \A o \in DeployOrderIds : deployTaskId[o] = c.task => deployUser[o] = c.user
  BY <1>5 DEF AloneInv, OrdersApart
<1>9. \A o \in DeployOrderIds :
         IF deployUser[o] = c.user THEN deployState'[o] \in {"pending", "doing"}
         ELSE deployState'[o] = deployState[o] /\ deployTaskId'[o] = deployTaskId[o]
  BY <1>3, <1>6, <1>7, <1>8
<1>10. \A o \in DeployOrderIds : deployTaskId'[o] # NoId =>
              /\ taskState'[deployTaskId'[o]] # "absent"
              /\ taskUser'[deployTaskId'[o]] = deployUser[o] /\ deployUser[o] # NoUser
  BY <1>7 DEF AloneInv, OrdersApart
<1>11. siteStatus'[c.user] \notin Deployed
  BY <1>3, <1>7 DEF Undeployed
<1> PICK u : u = c.user
  OBVIOUS
<1>12. OrdersApart' /\ SitesFit' /\ RequestsFit' /\ JobsFit' /\ Undeployed(u)'
  BY <1>1, <1>3, <1>7, <1>9, <1>10, <1>11, ServedRows
<1>13. deployState'[c.order] = "doing"
  BY <1>4, <1>6
<1>14. Serves(disp[Consumer])'
  BY <1>2, <1>4, <1>7, <1>12, <1>13 DEF Serves, Undeployed, PendingPc, OrderPc, LinkedPc, DoingPc
<1>15. QED
  BY <1>2, <1>12, <1>14 DEF AloneInv

LEMMA DoingStatusAlone ==
    ASSUME OwnershipInv, AloneInv, DoingStatus(Consumer) PROVE AloneInv'
<1> DEFINE c == disp[Consumer]
<1>1. TypeInv /\ Advance(Consumer, "doingStatus", "config")
  BY DEF OwnershipInv, DoingStatus
<1>2. /\ c.pc = "doingStatus" /\ Serves(c) /\ OthersIdle'
      /\ disp'[Consumer].pc = "config" /\ disp'[Consumer].user = c.user
      /\ disp'[Consumer].order = c.order /\ disp'[Consumer].task = c.task
  BY <1>1, ConsumerAdvances DEF DispatcherPc
<1>3. c.pc \in AtWork /\ c.user \in Users /\ Undeployed(c.user)
      /\ \A o \in DeployOrderIds : deployUser[o] = c.user => deployState[o] \in {"pending", "doing"}
  BY <1>1, <1>2, ServesOne DEF AtWork, DoingPc
<1>4. \A v \in Users : siteStatus'[v] = IF v = c.user THEN "DEPLOYING" ELSE siteStatus[v]
  BY <1>1 DEF DoingStatus, TypeInv, TypeOK
<1>5. /\ UNCHANGED <<deployUser, job, request, configuring, postState, publishing>>
      /\ UNCHANGED <<deployState, deployTaskId, taskUser, taskState>>
  BY DEF DoingStatus
<1>6. \A o \in DeployOrderIds :
         IF deployUser[o] = c.user THEN deployState'[o] \in {"pending", "doing"}
         ELSE deployState'[o] = deployState[o] /\ deployTaskId'[o] = deployTaskId[o]
  BY <1>3, <1>5
<1>7. \A o \in DeployOrderIds : deployTaskId'[o] # NoId =>
              /\ taskState'[deployTaskId'[o]] # "absent"
              /\ taskUser'[deployTaskId'[o]] = deployUser[o] /\ deployUser[o] # NoUser
  BY <1>5 DEF AloneInv, OrdersApart
<1>8. siteStatus'[c.user] = "DEPLOYING" /\ siteStatus'[c.user] \notin Deployed
  BY <1>3, <1>4 DEF Deployed
<1> PICK u : u = c.user
  OBVIOUS
<1>9. OrdersApart' /\ SitesFit' /\ RequestsFit' /\ JobsFit' /\ Undeployed(u)'
  BY <1>1, <1>3, <1>4, <1>5, <1>6, <1>7, <1>8, ServedRows
<1>10. Serves(disp[Consumer])'
  BY <1>2, <1>5, <1>8, <1>9 DEF Serves, Undeployed, PendingPc, OrderPc, LinkedPc, DoingPc
<1>11. QED
  BY <1>2, <1>9, <1>10 DEF AloneInv

\* The job of the deployment is queued, or its failure begins: it is the only
\* live job of the user.
LEMMA DispatchDeployAlone ==
    ASSUME OwnershipInv, AloneInv, DispatchDeploy(Consumer) PROVE AloneInv'
<1> DEFINE c == disp[Consumer]
           t == c.task
           u == c.user
<1>1. TypeInv /\ c \in DispatcherRun /\ Serves(c) /\ c.pc = "config"
  BY DispatchersAssumption DEF OwnershipInv, TypeInv, TypeOK, AloneInv, DispatchDeploy
<1>2. t \in DeployTaskIds /\ taskUser[t] = u
  BY <1>1, DispatchersAssumption DEF OwnershipInv, DispatcherHasTask, HasTask, HoldsTask
<1>3. /\ u \in Users /\ Undeployed(u)
      /\ \A r \in DeployRequests : InFlight(r) => request[r].user # u
  BY <1>1, ServesOne DEF AtWork, DoingPc
<1>4. /\ UNCHANGED <<siteStatus, deployUser, deployState, deployTaskId, taskUser, taskState>>
      /\ UNCHANGED <<postState, publishing, request, configuring>>
  BY DEF DispatchDeploy
<1>5. job'[t] \in {"active", "failTask"} /\ \A s \in DeployTaskIds : s # t => job'[s] = job[s]
  BY <1>1, <1>2 DEF DispatchDeploy, TypeInv, TypeOK
<1>6. PICK run : disp' = [disp EXCEPT ![Consumer] = run] /\ run.pc \in {"idle", "failing"}
  <2>1. CASE disp' = [disp EXCEPT ![Consumer] = Idle]
    BY <2>1, IdleRuns
  <2>2. CASE disp' = [disp EXCEPT ![Consumer].pc = "failing"]
    <3> DEFINE next == [c EXCEPT !.pc = "failing"]
    <3>1. next.pc = "failing" /\ disp' = [disp EXCEPT ![Consumer] = next]
      BY <1>1, <2>2, Moved DEF DispatcherPc
    <3>2. QED
      BY <3>1
  <2>3. QED
    BY <2>1, <2>2 DEF DispatchDeploy
<1>7. \A d \in Dispatchers : disp'[d] = IF d = Consumer THEN run ELSE disp[d]
  BY <1>1, <1>6 DEF TypeInv, TypeOK
<1>8. OthersIdle' /\ disp'[Consumer] = run
  BY <1>7, DispatchersAssumption DEF AloneInv, OthersIdle
<1>9. Serves(disp[Consumer])'
  BY <1>6, <1>8 DEF Serves, PendingPc, OrderPc, LinkedPc, DoingPc
<1>10. OrdersApart' /\ SitesFit'
  BY <1>4 DEF AloneInv, OrdersApart, SitesFit
<1>11. RequestsFit'
  <2>1. \A r \in DeployRequests : InFlight(r) /\ Undeployed(request[r].user) => Undeployed(request[r].user)'
    BY <1>2, <1>3, <1>4, <1>5 DEF Undeployed
  <2>2. \A r \in DeployRequests : configuring[r] # NoUser =>
           /\ siteStatus'[configuring[r]] \notin Deployed
           /\ \A s \in DeployTaskIds : taskUser'[s] = configuring[r] => job'[s] \notin Ending
    BY <1>4, <1>5 DEF AloneInv, RequestsFit, RequestFits, Ending
  <2>3. QED
    BY <1>1, <1>4, <2>1, <2>2, RequestsStay
<1>12. JobsFit'
  <2> SUFFICES ASSUME NEW s \in DeployTaskIds, job'[s] \in Live PROVE JobFits(s)'
    BY DEF JobsFit
  <2>1. \A q \in DeployTaskIds : q # t /\ job'[q] \in Live => job[q] \in Live /\ taskUser[q] # u
    BY <1>3, <1>5 DEF Undeployed
  <2>2. CASE s = t
    <3>1. siteStatus[u] \in {"DEPLOYING", "CONFIGURED"}
      BY <1>1 DEF Serves
    <3>2. \A q \in DeployTaskIds : job'[q] \in Live /\ taskUser[q] = u => q = t
      BY <2>1
    <3>3. /\ c.order \in DeployOrderIds /\ deployUser[c.order] = u /\ deployTaskId[c.order] = t
          /\ deployState[c.order] = "doing"
      BY <1>1 DEF Serves, OrderPc, LinkedPc, DoingPc
    <3>4. StateAt(job'[t]) = "doing"
      BY <1>5 DEF StateAt
    <3>5. QED
      BY <1>2, <1>4, <2>2, <3>1, <3>2, <3>3, <3>4 DEF JobFits
  <2>3. CASE s # t
    <3>1. job[s] \in Live /\ job'[s] = job[s] /\ taskUser[s] # u
      BY <1>5, <2>1, <2>3
    <3>2. JobFits(s)
      BY <3>1 DEF AloneInv, JobsFit
    <3>3. \A q \in DeployTaskIds : job'[q] \in Live /\ taskUser[q] = taskUser[s] => q = s
      BY <1>2, <2>1, <3>1, <3>2 DEF JobFits
    <3>4. QED
      BY <1>4, <3>1, <3>2, <3>3 DEF JobFits
  <2>4. QED
    BY <2>2, <2>3
<1>13. QED
  BY <1>8, <1>9, <1>10, <1>11, <1>12 DEF AloneInv

\* A job that moves on, and leaves its order and its site as they are, is no
\* concern of anybody.
LEMMA JobAdvances ==
    ASSUME TypeInv, AloneInv, NEW t \in DeployTaskIds, NEW from, NEW to,
           AdvanceJob(t, from, to), UNCHANGED <<siteStatus, deployUser, deployState, deployTaskId, taskUser>>,
           UNCHANGED <<postState, publishing, request, configuring, disp>>,
           \A s \in DeployTaskIds : taskState[s] # "absent" => taskState'[s] # "absent",
           to \in Live => from \in Live /\ StateAt(to) = StateAt(from),
           \A r \in DeployRequests : configuring[r] = taskUser[t] /\ configuring[r] # NoUser => to \notin Ending
    PROVE  AloneInv'
<1>1. job[t] = from /\ \A s \in DeployTaskIds : job'[s] = IF s = t THEN to ELSE job[s]
  BY DEF AdvanceJob, TypeInv, TypeOK
<1>2. OthersIdle' /\ SitesFit'
  BY DEF AloneInv, OthersIdle, SitesFit
<1>3. OrdersApart'
  BY DEF AloneInv, OrdersApart, TypeInv, TypeOK
<1>4. \A s \in DeployTaskIds : job'[s] \in Live => job[s] \in Live /\ StateAt(job'[s]) = StateAt(job[s])
  BY <1>1
<1>5. JobsFit'
  BY <1>4, LiveFits, JobsStay
<1>6. \A v : Undeployed(v) => siteStatus'[v] \notin Deployed
                                /\ \A s \in DeployTaskIds : job'[s] \in Live => taskUser'[s] # v
  BY <1>4 DEF Undeployed
<1>7. RequestsFit'
  <2>1. \A r \in DeployRequests : InFlight(r) /\ Undeployed(request[r].user) => Undeployed(request[r].user)'
    BY <1>6 DEF Undeployed
  <2>2. \A r \in DeployRequests : configuring[r] # NoUser =>
           /\ siteStatus'[configuring[r]] \notin Deployed
           /\ \A s \in DeployTaskIds : taskUser'[s] = configuring[r] => job'[s] \notin Ending
    BY <1>1 DEF AloneInv, RequestsFit, RequestFits
  <2>3. QED
    BY <2>1, <2>2, RequestsStay
<1>8. Serves(disp[Consumer])'
  BY <1>6 DEF AloneInv, Serves, Undeployed
<1>9. QED
  BY <1>2, <1>3, <1>5, <1>7, <1>8 DEF AloneInv

\* A job does not end well while an update of its site is on its way.
LEMMA JobEndsAlone ==
    ASSUME TypeInv, AloneInv, NEW t \in DeployTaskIds,
           \/ DeployCompleted(t) \/ DeployFailed(t) \/ GeneratePublishSiteOrder(t)
           \/ EndTask(t, "finishTask", "finishOrder", "finished") \/ EndTask(t, "failTask", "failOrder", "failed")
    PROVE  AloneInv'
<1>1. CASE DeployCompleted(t)
  <2>1. \A r \in DeployRequests : configuring[r] # taskUser[t]
    BY <1>1 DEF DeployCompleted, Served
  <2>2. AdvanceJob(t, "active", "finishTask") /\ StateAt("finishTask") = StateAt("active")
    BY <1>1 DEF DeployCompleted, StateAt
  <2>3. QED
    BY <1>1, <2>1, <2>2, JobAdvances DEF DeployCompleted, Live
<1>2. CASE DeployFailed(t)
  <2>1. AdvanceJob(t, "active", "failTask") /\ StateAt("failTask") = StateAt("active")
    BY <1>2 DEF DeployFailed, StateAt
  <2>2. QED
    BY <1>2, <2>1, JobAdvances DEF DeployFailed, Live, Ending
<1>3. CASE GeneratePublishSiteOrder(t)
  <2>1. AdvanceJob(t, "publish", "done") /\ "done" \notin Live \union Ending
    BY <1>3 DEF GeneratePublishSiteOrder, Live, Ending
  <2>2. QED
    BY <1>3, <2>1, JobAdvances DEF GeneratePublishSiteOrder
<1>4. CASE EndTask(t, "finishTask", "finishOrder", "finished")
  <2>1. /\ AdvanceJob(t, "finishTask", "finishOrder") /\ StateAt("finishTask") = StateAt("finishOrder")
        /\ \A s \in DeployTaskIds : taskState[s] # "absent" => taskState'[s] # "absent"
    BY <1>4 DEF EndTask, StateAt, TypeInv, TypeOK
  <2>2. \A r \in DeployRequests : ~(configuring[r] = taskUser[t] /\ configuring[r] # NoUser)
    BY <2>1 DEF AdvanceJob, AloneInv, RequestsFit, RequestFits, Ending
  <2>3. QED
    BY <1>4, <2>1, <2>2, JobAdvances DEF EndTask, Live
<1>5. CASE EndTask(t, "failTask", "failOrder", "failed")
  <2>1. /\ AdvanceJob(t, "failTask", "failOrder") /\ StateAt("failTask") = StateAt("failOrder")
        /\ \A s \in DeployTaskIds : taskState[s] # "absent" => taskState'[s] # "absent"
    BY <1>5 DEF EndTask, StateAt, TypeInv, TypeOK
  <2>2. QED
    BY <1>5, <2>1, JobAdvances DEF EndTask, Live, Ending
<1>6. QED
  BY <1>1, <1>2, <1>3, <1>4, <1>5

\* A job ends the order of its user, which is doing, and no other.
LEMMA EndOrderAlone ==
    ASSUME TypeInv, AloneInv, NEW t \in DeployTaskIds, NEW from, NEW to, NEW state,
           \/ from = "finishOrder" /\ to = "finishStatus" /\ state = "finished"
           \/ from = "failOrder" /\ to = "failStatus" /\ state = "failed",
           EndOrder(t, from, to, state)
    PROVE  AloneInv'
<1>1. /\ job[t] = from /\ \A s \in DeployTaskIds : job'[s] = IF s = t THEN to ELSE job[s]
      /\ \A o \in DeployOrderIds : deployState'[o] = IF deployTaskId[o] = t THEN state ELSE deployState[o]
      /\ UNCHANGED <<siteStatus, deployUser, deployTaskId, taskUser, taskState>>
      /\ UNCHANGED <<postState, publishing, request, configuring, disp>>
  BY DEF EndOrder, AdvanceJob, TypeInv, TypeOK
<1>2. /\ from \in Live /\ to \in Live /\ StateAt(from) = "doing" /\ StateAt(to) = state
      /\ (from \in Ending <=> to \in Ending) /\ state \in {"finished", "failed"}
  BY DEF Live, Ending, StateAt
<1>3. /\ taskUser[t] \in Users /\ siteStatus[taskUser[t]] \in {"DEPLOYING", "CONFIGURED"}
      /\ \A o \in DeployOrderIds : deployUser[o] = taskUser[t] => deployTaskId[o] = t /\ deployState[o] = "doing"
      /\ \A s \in DeployTaskIds : job[s] \in Live /\ taskUser[s] = taskUser[t] => s = t
  BY <1>1, <1>2, LiveFits
<1>4. \A o \in DeployOrderIds : deployTaskId[o] = t => deployUser[o] = taskUser[t] /\ deployUser[o] # NoUser
  BY NoIdIsNoRow DEF AloneInv, OrdersApart
<1>5. OthersIdle' /\ OrdersApart'
  BY <1>1, <1>2, <1>4 DEF AloneInv, OthersIdle, OrdersApart
<1>6. SitesFit'
  <2>1. \A o \in DeployOrderIds : deployState'[o] \in {"pending", "doing"} => deployState[o] \in {"pending", "doing"}
    BY <1>1, <1>2
  <2>2. QED
    BY <1>1, <2>1 DEF AloneInv, SitesFit
<1>7. \A s \in DeployTaskIds : job'[s] \in Live => job[s] \in Live
  BY <1>1, <1>2
<1>8. RequestsFit'
  <2>1. \A r \in DeployRequests : InFlight(r) /\ Undeployed(request[r].user) => Undeployed(request[r].user)'
    BY <1>1, <1>7 DEF Undeployed
  <2>2. \A r \in DeployRequests : configuring[r] # NoUser =>
           /\ siteStatus'[configuring[r]] \notin Deployed
           /\ \A s \in DeployTaskIds : taskUser'[s] = configuring[r] => job'[s] \notin Ending
    BY <1>1, <1>2 DEF AloneInv, RequestsFit, RequestFits
  <2>3. QED
    BY <1>1, <1>2, <2>1, <2>2, RequestsStay
<1>9. JobsFit'
  <2> SUFFICES ASSUME NEW s \in DeployTaskIds, job'[s] \in Live PROVE JobFits(s)'
    BY DEF JobsFit
  <2>1. JobFits(s)
    BY <1>7 DEF AloneInv, JobsFit
  <2>2. PICK o \in DeployOrderIds :
           deployUser[o] = taskUser[s] /\ deployTaskId[o] = s /\ deployState[o] = StateAt(job[s])
    BY <2>1 DEF JobFits
  <2>3. deployState'[o] = StateAt(job'[s])
    BY <1>1, <1>2, <2>2
  <2>4. \A q \in DeployTaskIds : job'[q] \in Live /\ taskUser[q] = taskUser[s] => q = s
    BY <1>7, <2>1 DEF JobFits
  <2>5. QED
    BY <1>1, <2>1, <2>2, <2>3, <2>4 DEF JobFits
<1>10. Serves(disp[Consumer])'
  <2> PICK c : c = disp[Consumer]
    OBVIOUS
  <2>1. Serves(c) /\ c \in DispatcherRun
    BY DispatchersAssumption DEF AloneInv, TypeInv, TypeOK
  <2>2. c.pc \in AtWork => c.user \in Users /\ Undeployed(c.user)
    BY ServesOne
  <2>3. c.pc \in AtWork => c.user # NoUser /\ c.user # taskUser[t]
    BY <1>1, <1>2, <2>2, UsersAssumption DEF Undeployed
  <2>4. \A o \in DeployOrderIds : c.pc \in AtWork /\ deployUser[o] = c.user =>
           deployState'[o] = deployState[o] /\ deployTaskId'[o] = deployTaskId[o]
    BY <1>1, <1>4, <2>3
  <2>5. c.pc \in {"publish", "post"} /\ c.deploy # NoId => deployState'[c.deploy] = "pending"
    <3>1. c.deploy # NoId => c.deploy \in DeployOrderIds
      BY <2>1 DEF DispatcherRun
    <3>2. QED
      BY <1>1, <1>3, <1>4, <2>1, <3>1 DEF Serves
  <2>6. c.pc \in DoingPc => Undeployed(c.user)'
    BY <1>1, <1>7, <2>2 DEF AtWork, Undeployed
  <2>7. c.pc = "config" => siteStatus'[c.user] \in {"DEPLOYING", "CONFIGURED"}
    BY <1>1, <2>1 DEF Serves
  <2>8. Serves(c)'
    BY <1>1, <2>1, <2>3, <2>4, <2>5, <2>6, <2>7, ServesStays
  <2>9. QED
    BY <1>1, <2>8 DEF Serves, Undeployed
<1>11. QED
  BY <1>5, <1>6, <1>8, <1>9, <1>10 DEF AloneInv

\* It sets the status when no other job, no request and no update is about the site.
LEMMA EndStatusAlone ==
    ASSUME TypeInv, AloneInv, NEW t \in DeployTaskIds, NEW from, NEW to, NEW status,
           \/ from = "finishStatus" /\ to = "publish" /\ status = "DEPLOYED"
           \/ from = "failStatus" /\ to = "done" /\ status = "DEPLOY_FAILED",
           EndStatus(t, from, to, status)
    PROVE  AloneInv'
<1> PICK u : u = taskUser[t]
  OBVIOUS
<1>1. /\ job[t] = from /\ \A s \in DeployTaskIds : job'[s] = IF s = t THEN to ELSE job[s]
      /\ \A v \in Users : siteStatus'[v] = IF v = u THEN status ELSE siteStatus[v]
      /\ UNCHANGED <<deployState, deployUser, deployTaskId, taskUser, taskState>>
      /\ UNCHANGED <<postState, publishing, request, configuring, disp>>
  BY DEF EndStatus, AdvanceJob, TypeInv, TypeOK
<1>2. from \in Live /\ to \notin Live \union Ending /\ StateAt(from) \in {"finished", "failed"}
  BY DEF Live, Ending, StateAt
<1>3. /\ u \in Users /\ siteStatus[u] \in {"DEPLOYING", "CONFIGURED"}
      /\ \E o \in DeployOrderIds : deployUser[o] = u
      /\ \A o \in DeployOrderIds : deployUser[o] = u => deployState[o] \in {"finished", "failed"}
      /\ \A s \in DeployTaskIds : job[s] \in Live /\ taskUser[s] = u => s = t
  BY <1>1, <1>2, LiveFits
<1>4. OthersIdle' /\ OrdersApart'
  BY <1>1 DEF AloneInv, OthersIdle, OrdersApart
<1>5. SitesFit'
  <2>1. \A o \in DeployOrderIds : deployState[o] \in {"pending", "doing"} =>
           deployUser[o] \in Users /\ deployUser[o] # u
    BY <1>3 DEF AloneInv, OrdersApart, TypeInv, TypeOK
  <2>2. \A o \in DeployOrderIds : deployState[o] \in {"pending", "doing"} => siteStatus'[deployUser[o]] \notin Deployed
    BY <1>1, <2>1 DEF AloneInv, SitesFit
  <2>3. \A v \in Users : siteStatus'[v] # "CONFIGURED" => \E o \in DeployOrderIds : deployUser[o] = v
    BY <1>1, <1>3 DEF AloneInv, SitesFit
  <2>4. siteStatus[u] \notin Deployed
    BY <1>3 DEF Deployed
  <2>5. \A v \in Users : postState[v] = "doing" \/ publishing[v] \in {"active", "finish", "fail"} =>
           siteStatus'[v] \in Deployed
    BY <1>1, <2>4 DEF AloneInv, SitesFit
  <2>6. QED
    BY <1>1, <2>2, <2>3, <2>5 DEF SitesFit
<1>6. \A s \in DeployTaskIds : job'[s] \in Live => job[s] \in Live /\ job'[s] = job[s] /\ taskUser[s] # u
  BY <1>1, <1>2, <1>3
<1>7. RequestsFit'
  <2>1. \A r \in DeployRequests : InFlight(r) /\ Undeployed(request[r].user) =>
           request[r].user # u /\ request[r].user \in Users
    BY <1>1, <1>2 DEF Undeployed, TypeInv, OrdersHaveUsers
  <2>2. \A r \in DeployRequests : InFlight(r) /\ Undeployed(request[r].user) => Undeployed(request[r].user)'
    BY <1>1, <1>6, <2>1 DEF Undeployed
  <2>3. ASSUME NEW r \in DeployRequests, configuring[r] # NoUser
        PROVE  /\ siteStatus'[configuring[r]] \notin Deployed
               /\ \A s \in DeployTaskIds : taskUser'[s] = configuring[r] => job'[s] \notin Ending
    <3>1. /\ siteStatus[configuring[r]] \notin Deployed /\ configuring[r] \in Users
          /\ \A s \in DeployTaskIds : taskUser[s] = configuring[r] => job[s] \notin Ending
      BY <2>3 DEF AloneInv, RequestsFit, RequestFits, TypeInv, TypeOK
    <3>2. configuring[r] = u => status \notin Deployed
      BY <1>1, <3>1 DEF Ending, Deployed
    <3>3. QED
      BY <1>1, <1>2, <3>1, <3>2
  <2>4. QED
    BY <1>1, <2>2, <2>3, RequestsStay
<1>8. JobsFit'
  <2>1. \A s \in DeployTaskIds : job'[s] \in Live => siteStatus'[taskUser[s]] \in {"DEPLOYING", "CONFIGURED"}
    BY <1>1, <1>6, LiveFits
  <2>2. QED
    BY <1>1, <1>6, <2>1, JobsStay
<1>9. Serves(disp[Consumer])'
  <2> PICK c : c = disp[Consumer]
    OBVIOUS
  <2>1. Serves(c)
    BY DEF AloneInv
  <2>2. c.pc \in AtWork => c.user \in Users /\ Undeployed(c.user)
    BY ServesOne
  <2>3. c.pc \in AtWork => c.user # NoUser /\ c.user # u
    BY <1>1, <1>2, <2>2, UsersAssumption DEF Undeployed
  <2>4. c.pc \in DoingPc => Undeployed(c.user)'
    BY <1>1, <1>6, <2>2, <2>3 DEF AtWork, Undeployed
  <2>5. c.pc = "config" => siteStatus'[c.user] \in {"DEPLOYING", "CONFIGURED"}
    BY <1>1, <2>1, <2>2, <2>3 DEF Serves, AtWork, DoingPc
  <2>6. c.pc \in {"publish", "post"} /\ c.deploy # NoId => deployState'[c.deploy] = "pending"
    BY <1>1, <2>1 DEF Serves
  <2>7. Serves(c)'
    BY <1>1, <2>1, <2>3, <2>4, <2>5, <2>6, ServesStays
  <2>8. QED
    BY <1>1, <2>7 DEF Serves, Undeployed
<1>10. QED
  BY <1>4, <1>5, <1>7, <1>8, <1>9 DEF AloneInv

\* A restart leaves the rows and the jobs that workers have.
LEMMA RestartAlone ==
    ASSUME TypeInv, AloneInv, Restart PROVE AloneInv'
<1>1. /\ disp' = [d \in Dispatchers |-> Idle] /\ UNCHANGED <<siteStatus, deployUser, deployState, deployTaskId>>
      /\ UNCHANGED <<taskUser, taskState, postState>>
      /\ \A t \in DeployTaskIds : job'[t] \in {"none", "active", "done", "lost"}
                                    /\ (job'[t] # "lost" => job'[t] = job[t])
      /\ configuring' = [r \in DeployRequests |-> NoUser]
  BY DEF Restart
<1>2. disp'[Consumer] = Idle /\ OthersIdle'
  BY <1>1, IdleRuns, DispatchersAssumption DEF OthersIdle
<1>3. Serves(disp[Consumer])'
  BY <1>2, IdleRuns DEF Serves, PendingPc, OrderPc, LinkedPc, DoingPc
<1>4. OrdersApart'
  BY <1>1 DEF AloneInv, OrdersApart
<1>5. SitesFit'
  <2>1. \A u \in Users : publishing'[u] \in {"active", "finish", "fail"} => publishing'[u] = publishing[u]
    BY DEF Restart
  <2>2. QED
    BY <1>1, <2>1 DEF AloneInv, SitesFit
<1>6. RequestsFit'
  <2>1. \A r \in DeployRequests : request'[r] = IF InFlight(r) THEN [request[r] EXCEPT !.pc = "lost"] ELSE request[r]
    BY DEF Restart
  <2>2. \A r \in DeployRequests : request'[r].pc \notin {"find", "create", "save"}
    BY <2>1 DEF InFlight, TypeInv, TypeOK, RequestRun
  <2>3. QED
    BY <1>1, <2>2 DEF RequestsFit, RequestFits, Working, InFlight
<1>7. JobsFit'
  <2>1. \A t \in DeployTaskIds : job'[t] \in Live => job[t] \in Live /\ StateAt(job'[t]) = StateAt(job[t])
    BY <1>1 DEF Live
  <2>2. \A t \in DeployTaskIds : job'[t] \in Live => siteStatus'[taskUser[t]] \in {"DEPLOYING", "CONFIGURED"}
    BY <1>1, <2>1, LiveFits
  <2>3. QED
    BY <1>1, <2>1, <2>2, JobsStay
<1>8. QED
  BY <1>2, <1>3, <1>4, <1>5, <1>6, <1>7 DEF AloneInv

\* A request that moves on without writing rows, and meets no other of its user.
LEMMA RequestMoves ==
    ASSUME TypeInv, AloneInv, NEW r \in DeployRequests,
           UNCHANGED <<siteStatus, deployUser, deployState, deployTaskId, taskUser, taskState, job>>,
           UNCHANGED <<postState, publishing, disp>>,
           \A q \in DeployRequests : q # r => request'[q] = request[q] /\ configuring'[q] = configuring[q],
           Working(r)' => \A q \in DeployRequests : Working(q) /\ request[q].user = request'[r].user => q = r,
           RequestFits(r)'
    PROVE  AloneInv'
<1>1. OthersIdle' /\ OrdersApart' /\ SitesFit' /\ JobsFit' /\ Serves(disp[Consumer])'
  BY DEF AloneInv, OthersIdle, OrdersApart, SitesFit, JobsFit, JobFits, Serves, Undeployed
<1>2. ASSUME NEW q \in DeployRequests, q # r
      PROVE  RequestFits(q)'
  <2>1. RequestFits(q)
    BY DEF AloneInv, RequestsFit
  <2>2. \A p \in DeployRequests : p # r => (Working(p)' <=> Working(p)) /\ request'[p] = request[p]
    BY DEF Working, InFlight
  <2>3. Working(q) => \A p \in DeployRequests : Working(p)' /\ request'[p].user = request[q].user => p = q
    BY <1>2, <2>1, <2>2 DEF RequestFits
  <2>4. /\ Undeployed(request[q].user) => Undeployed(request[q].user)'
        /\ configuring[q] # NoUser =>
              /\ siteStatus'[configuring[q]] \notin Deployed
              /\ \A t \in DeployTaskIds : taskUser'[t] = configuring[q] => job'[t] \notin Ending
    BY <1>2, <2>1 DEF Undeployed, RequestFits
  <2>5. QED
    BY <1>2, <2>1, <2>3, <2>4, RequestStays
<1>3. QED
  BY <1>1, <1>2 DEF AloneInv, RequestsFit

\* A request begins when its user waits for nothing.
LEMMA RequestDeployAlone ==
    ASSUME TypeInv, AloneInv, ~Overlapping, NEW r \in DeployRequests, NEW u \in Users, RequestDeploy(r, u)
    PROVE  AloneInv'
<1>1. WaitsForNothing(u) /\ request[r].pc = "new"
  BY DEF RequestDeploy
<1>2. /\ UNCHANGED <<siteStatus, deployUser, deployState, deployTaskId, taskUser, taskState, job>>
      /\ UNCHANGED <<postState, publishing, disp, configuring>>
      /\ \A q \in DeployRequests : q # r => request'[q] = request[q]
      /\ request'[r].pc = "find" /\ request'[r].user = u /\ request'[r].status = siteStatus[u]
  BY DEF RequestDeploy, TypeInv, TypeOK, RequestRun
<1>3. \A q \in DeployRequests : RequestFits(q)
  BY DEF AloneInv, RequestsFit
<1>4. configuring[r] = NoUser
  BY <1>1, <1>3 DEF RequestFits
<1>5. \A q \in DeployRequests : Working(q) => request[q].user # u
  BY <1>1, <1>3 DEF Working, WaitsForNothing, Served, RequestFits
<1>6. siteStatus[u] = "DEPLOY_FAILED" => Undeployed(u)
  BY LiveFits DEF Undeployed, Deployed
<1>7. RequestFits(r)'
  <2>1. \A q \in DeployRequests : Working(q)' /\ request'[q].user = u => q = r
    BY <1>2, <1>5 DEF Working, InFlight
  <2>2. \A o \in DeployOrderIds : deployUser[o] = u => deployState[o] \notin {"pending", "doing"}
    BY <1>1 DEF WaitsForNothing
  <2>3. siteStatus[u] = "DEPLOY_FAILED" => Undeployed(u)'
    BY <1>2, <1>6 DEF Undeployed
  <2>4. QED
    BY <1>2, <1>4, <2>1, <2>2, <2>3 DEF RequestFits, Undeployed
<1>8. QED
  BY <1>2, <1>5, <1>7, RequestMoves

\* What the query of a request finds.
LEMMA FoundOne ==
    ASSUME TypeInv, NEW r \in DeployRequests, FindOrder(r)
    PROVE  LET u == request[r].user
               Goes(p) == request'[r].user = u /\ request'[r].pc = p
           IN
           \/ /\ Goes("create") /\ UNCHANGED configuring
              /\ \A o \in DeployOrderIds : deployUser[o] # u
           \/ Goes("done") /\ UNCHANGED configuring
           \/ \E o \in DeployOrderIds :
                 /\ request[r].status = "DEPLOY_FAILED" /\ deployUser[o] = u
                 /\ Goes("save") /\ request'[r].order = o /\ request'[r].task = deployTaskId[o]
                 /\ configuring' = [configuring EXCEPT ![r] = u]
<1> DEFINE found == {o \in DeployOrderIds : deployUser[o] = request[r].user}
<1>1. request \in [DeployRequests -> RequestRun] /\ deployTaskId \in [DeployOrderIds -> DeployTaskIds \union {NoId}]
  BY DEF TypeInv, TypeOK
<1>2. CASE found = {} /\ request' = [request EXCEPT ![r].pc = "create"] /\ UNCHANGED configuring
  BY <1>1, <1>2 DEF RequestRun
<1>3. CASE request' = [request EXCEPT ![r].pc = "done"] /\ UNCHANGED configuring
  BY <1>1, <1>3 DEF RequestRun
<1>4. ASSUME request[r].status = "DEPLOY_FAILED", NEW o \in found,
             request' = [request EXCEPT ![r].pc = "save", ![r].order = o, ![r].task = deployTaskId[o]],
             configuring' = [configuring EXCEPT ![r] = request[r].user]
      PROVE  \E p \in DeployOrderIds :
                 /\ request[r].status = "DEPLOY_FAILED" /\ deployUser[p] = request[r].user
                 /\ request'[r].user = request[r].user /\ request'[r].pc = "save"
                 /\ request'[r].order = p /\ request'[r].task = deployTaskId[p]
                 /\ configuring' = [configuring EXCEPT ![r] = request[r].user]
  <2>1. /\ request'[r].user = request[r].user /\ request'[r].pc = "save"
        /\ request'[r].order = o /\ request'[r].task = deployTaskId[o]
    BY <1>1, <1>4 DEF RequestRun
  <2>2. QED
    BY <1>4, <2>1
<1>5. QED
  BY <1>2, <1>3, <1>4 DEF FindOrder, Found

LEMMA FindOrderAlone ==
    ASSUME TypeInv, AloneInv, NEW r \in DeployRequests, FindOrder(r)
    PROVE  AloneInv'
<1> PICK u : u = request[r].user
  OBVIOUS
<1>1. /\ UNCHANGED <<siteStatus, deployUser, deployState, deployTaskId, taskUser, taskState, job>>
      /\ UNCHANGED <<postState, publishing, disp>>
      /\ request[r].pc = "find" /\ request[r] \in RequestRun /\ u \in Users
      /\ \A q \in DeployRequests : q # r => request'[q] = request[q] /\ configuring'[q] = configuring[q]
  BY DEF FindOrder, Found, TypeInv, TypeOK, OrdersHaveUsers, InFlight
<1>2. RequestFits(r) /\ InFlight(r) /\ Working(r)
  BY <1>1 DEF AloneInv, RequestsFit, InFlight, Working
<1>3. configuring[r] = NoUser
  BY <1>1, <1>2 DEF RequestFits
<1>4. request'[r].user = u
  BY FoundOne
<1>5. \A q \in DeployRequests : Working(q) /\ request[q].user = u => q = r
  BY <1>2 DEF RequestFits
<1>6. \A q \in DeployRequests : Working(q)' /\ request'[q].user = u => q = r
  BY <1>1, <1>5 DEF Working, InFlight
<1>7. RequestFits(r)'
  <2>1. CASE /\ \A o \in DeployOrderIds : deployUser[o] # u
             /\ request'[r].pc = "create" /\ configuring'[r] = NoUser
    BY <1>1, <1>4, <1>6, <2>1 DEF RequestFits
  <2>2. CASE request'[r].pc = "done" /\ configuring'[r] = NoUser
    BY <2>2 DEF RequestFits, Working, InFlight
  <2>3. ASSUME request[r].status = "DEPLOY_FAILED", NEW o \in DeployOrderIds, deployUser[o] = u,
               request'[r].pc = "save", request'[r].order = o, request'[r].task = deployTaskId[o],
               configuring'[r] = u
        PROVE  RequestFits(r)'
    <3>1. Undeployed(u)
      BY <1>1, <1>2, <2>3 DEF RequestFits
    <3>2. Undeployed(u)'
      BY <1>1, <3>1 DEF Undeployed
    <3>3. \A t \in DeployTaskIds : taskUser[t] = u => job[t] \notin Ending
      BY <3>1 DEF Undeployed, Live, Ending
    <3>4. siteStatus[u] \notin Deployed
      BY <3>1 DEF Undeployed
    <3>5. \A p \in DeployOrderIds : deployUser[p] = u => deployState[p] \notin {"pending", "doing"}
      BY <1>2 DEF RequestFits
    <3>6. QED
      BY <1>1, <1>4, <1>6, <2>3, <3>2, <3>3, <3>4, <3>5 DEF RequestFits, Undeployed
  <2>4. \/ /\ \A o \in DeployOrderIds : deployUser[o] # u
           /\ request'[r].pc = "create" /\ configuring'[r] = NoUser
        \/ request'[r].pc = "done" /\ configuring'[r] = NoUser
        \/ \E o \in DeployOrderIds :
              /\ request[r].status = "DEPLOY_FAILED" /\ deployUser[o] = u
              /\ request'[r].pc = "save" /\ request'[r].order = o /\ request'[r].task = deployTaskId[o]
              /\ configuring'[r] = u
    BY <1>1, <1>3, FoundOne DEF TypeInv, TypeOK
  <2>5. QED
    BY <2>1, <2>2, <2>3, <2>4
<1>8. QED
  BY <1>1, <1>4, <1>5, <1>7, RequestMoves

\* The first order of a user, whose site nobody has touched.
LEMMA CreateOrderAlone ==
    ASSUME TypeInv, AloneInv, NEW r \in DeployRequests, CreateOrder(r)
    PROVE  AloneInv'
<1> PICK u : u = request[r].user
  OBVIOUS
<1>1. PICK o \in DeployOrderIds :
         /\ deployState[o] = "absent"
         /\ deployUser' = [deployUser EXCEPT ![o] = u]
         /\ deployState' = [deployState EXCEPT ![o] = "pending"]
  BY DEF CreateOrder
<1>2. /\ UNCHANGED <<siteStatus, deployTaskId, taskUser, taskState, job>>
      /\ UNCHANGED <<postState, publishing, disp, configuring>>
      /\ request[r].pc = "create" /\ request[r] \in RequestRun /\ u \in Users
      /\ \A q \in DeployRequests : q # r => request'[q] = request[q]
      /\ request'[r].pc = "done" /\ request'[r].user = u
  BY DEF CreateOrder, TypeInv, TypeOK, RequestRun, OrdersHaveUsers, InFlight
<1>3. /\ \A p \in DeployOrderIds : deployUser'[p] = IF p = o THEN u ELSE deployUser[p]
      /\ \A p \in DeployOrderIds : deployState'[p] = IF p = o THEN "pending" ELSE deployState[p]
  BY <1>1 DEF TypeInv, TypeOK
<1>4. RequestFits(r) /\ InFlight(r) /\ Working(r)
  BY <1>2 DEF AloneInv, RequestsFit, InFlight, Working
<1>5. /\ configuring[r] = NoUser /\ deployUser[o] = NoUser /\ u # NoUser
      /\ \A p \in DeployOrderIds : deployUser[p] # u
  BY <1>1, <1>2, <1>4, UsersAssumption DEF RequestFits, AloneInv, OrdersApart
<1>6. siteStatus[u] = "CONFIGURED" /\ siteStatus[u] \notin Deployed
  BY <1>2, <1>5 DEF AloneInv, SitesFit, Deployed
<1>7. OthersIdle' /\ OrdersApart'
  <2>1. deployTaskId[o] = NoId
    BY <1>5 DEF AloneInv, OrdersApart
  <2>2. \A p \in DeployOrderIds : deployState'[p] = "absent" <=> deployUser'[p] = NoUser
    BY <1>3, <1>5 DEF AloneInv, OrdersApart
  <2>3. \A p, q \in DeployOrderIds : deployUser'[p] # NoUser /\ deployUser'[p] = deployUser'[q] => p = q
    BY <1>3, <1>5 DEF AloneInv, OrdersApart
  <2>4. QED
    BY <1>2, <1>3, <2>1, <2>2, <2>3 DEF AloneInv, OthersIdle, OrdersApart
<1>8. SitesFit'
  <2>1. \A p \in DeployOrderIds : deployState'[p] \in {"pending", "doing"} =>
           siteStatus'[deployUser'[p]] \notin Deployed
    BY <1>2, <1>3, <1>6 DEF AloneInv, SitesFit
  <2>2. \A v \in Users : (\E p \in DeployOrderIds : deployUser[p] = v) =>
           \E p \in DeployOrderIds : deployUser'[p] = v
    BY <1>3, <1>5, UsersAssumption
  <2>3. \A v \in Users : siteStatus'[v] # "CONFIGURED" => \E p \in DeployOrderIds : deployUser'[p] = v
    BY <1>2, <2>2 DEF AloneInv, SitesFit
  <2>4. \A v \in Users : postState'[v] = "doing" \/ publishing'[v] \in {"active", "finish", "fail"} =>
           siteStatus'[v] \in Deployed
    BY <1>2 DEF AloneInv, SitesFit
  <2>5. QED
    BY <2>1, <2>3, <2>4 DEF SitesFit
<1>9. \A v : Undeployed(v) => siteStatus'[v] \notin Deployed
                                /\ \A s \in DeployTaskIds : job'[s] \in Live => taskUser'[s] # v
  BY <1>2 DEF Undeployed
<1>10. RequestsFit'
  <2> SUFFICES ASSUME NEW q \in DeployRequests PROVE RequestFits(q)'
    BY DEF RequestsFit
  <2>1. CASE q = r
    BY <1>2, <1>5, <2>1 DEF RequestFits, Working, InFlight
  <2>2. CASE q # r
    <3>1. RequestFits(q) /\ request'[q] = request[q] /\ configuring'[q] = configuring[q]
      BY <1>2, <2>2 DEF AloneInv, RequestsFit
    <3>2. \A p \in DeployRequests : Working(p)' => Working(p) /\ request'[p].user = request[p].user
      BY <1>2, <1>4 DEF Working, InFlight
    <3>3. Working(q) => request[q].user # u
      BY <1>4, <2>2 DEF RequestFits
    <3>4. InFlight(q) => Working(q)
      BY DEF Working
    <3>5. Working(q) => \A p \in DeployRequests : Working(p)' /\ request'[p].user = request[q].user => p = q
      BY <3>1, <3>2 DEF RequestFits
    <3>6. InFlight(q) => \A p \in DeployOrderIds :
              /\ deployUser'[p] = request[q].user <=> deployUser[p] = request[q].user
              /\ deployUser[p] = request[q].user =>
                    /\ deployState'[p] \in {"pending", "doing"} => deployState[p] \in {"pending", "doing"}
                    /\ deployTaskId'[p] = deployTaskId[p]
      <4>1. ASSUME InFlight(q) PROVE request[q].user # u /\ request[q].user # NoUser
        BY <3>3, <3>4, <4>1, UsersAssumption DEF TypeInv, OrdersHaveUsers
      <4>2. QED
        BY <1>2, <1>3, <1>5, <4>1
    <3>7. Undeployed(request[q].user) => Undeployed(request[q].user)'
      BY <1>9, <3>1 DEF Undeployed
    <3>8. configuring[q] # NoUser =>
              /\ siteStatus'[configuring[q]] \notin Deployed
              /\ \A t \in DeployTaskIds : taskUser'[t] = configuring[q] => job'[t] \notin Ending
      BY <1>2, <3>1 DEF RequestFits
    <3>9. QED
      BY <3>1, <3>5, <3>6, <3>7, <3>8, RequestStays
  <2>3. QED
    BY <2>1, <2>2
<1>11. JobsFit'
  <2>1. \A t \in DeployTaskIds : job'[t] \in Live => taskUser[t] # u /\ taskUser[t] # NoUser
    BY <1>2, <1>5, LiveFits, UsersAssumption
  <2>2. \A t \in DeployTaskIds : job'[t] \in Live => siteStatus'[taskUser[t]] \in {"DEPLOYING", "CONFIGURED"}
    BY <1>2, LiveFits
  <2>3. \A t \in DeployTaskIds, p \in DeployOrderIds : job'[t] \in Live /\ deployUser[p] = taskUser[t] =>
           /\ deployUser'[p] = deployUser[p] /\ deployTaskId'[p] = deployTaskId[p]
           /\ deployState'[p] = deployState[p]
    BY <1>2, <1>3, <1>5, <2>1
  <2>4. QED
    BY <1>2, <2>2, <2>3, JobsStay
<1>12. Serves(disp[Consumer])'
  <2> PICK c : c = disp[Consumer]
    OBVIOUS
  <2>1. Serves(c) /\ c \in DispatcherRun
    BY DispatchersAssumption DEF AloneInv, TypeInv, TypeOK
  <2>2. c.pc \in AtWork => c.user \in Users /\ c.user # NoUser /\ Undeployed(c.user)
    BY ServesOne, UsersAssumption
  <2>3. c.pc \in {"publish", "post"} /\ c.deploy # NoId => deployState'[c.deploy] = "pending"
    <3>1. c.deploy # NoId => c.deploy \in DeployOrderIds
      BY <2>1 DEF DispatcherRun
    <3>2. QED
      BY <1>3, <2>1, <3>1 DEF Serves
  <2>4. \A p \in DeployOrderIds : deployUser[p] # NoUser =>
           /\ deployUser'[p] = deployUser[p]
           /\ deployState'[p] = deployState[p] /\ deployTaskId'[p] = deployTaskId[p]
    BY <1>2, <1>3, <1>5
  <2>5. c.pc \in DoingPc => Undeployed(c.user)'
    BY <1>9, <2>2 DEF AtWork, Undeployed
  <2>6. c.pc = "config" => siteStatus'[c.user] \in {"DEPLOYING", "CONFIGURED"}
    BY <1>2, <2>1 DEF Serves
  <2>7. Serves(c)'
    BY <2>1, <2>2, <2>3, <2>4, <2>5, <2>6, ServesStays
  <2>8. QED
    BY <1>2, <2>7 DEF Serves, Undeployed
<1>13. QED
  BY <1>7, <1>8, <1>10, <1>11, <1>12 DEF AloneInv

\* A retry opens the order it has read, which is closed, of a user whose site
\* is not deployed.
LEMMA RetryOrderAlone ==
    ASSUME TypeInv, AloneInv, NEW r \in DeployRequests, RetryOrder(r)
    PROVE  AloneInv'
<1> PICK u : u = request[r].user
  OBVIOUS
<1> PICK o : o = request[r].order
  OBVIOUS
<1>1. /\ UNCHANGED <<siteStatus, deployUser, taskUser, taskState, job, postState, publishing, disp, configuring>>
      /\ request[r].pc = "save" /\ o \in DeployOrderIds /\ u \in Users
      /\ request' = [request EXCEPT ![r].pc = "done"]
  BY DEF RetryOrder, TypeInv, TypeOK, OrdersHaveUsers, InFlight
<1>2. RequestFits(r) /\ InFlight(r) /\ Working(r)
  BY <1>1 DEF AloneInv, RequestsFit, InFlight, Working
<1>3. /\ Undeployed(u) /\ deployUser[o] = u /\ request[r].task = deployTaskId[o]
      /\ \A q \in DeployRequests : Working(q) /\ request[q].user = u => q = r
  BY <1>1, <1>2 DEF RequestFits
<1>4. /\ \A p \in DeployOrderIds : deployState'[p] = IF p = o THEN "pending" ELSE deployState[p]
      /\ \A p \in DeployOrderIds : deployTaskId'[p] = deployTaskId[p]
  BY <1>1, <1>3 DEF RetryOrder, TypeInv, TypeOK
<1>5. /\ \A q \in DeployRequests : q # r => request'[q] = request[q]
      /\ request'[r].pc = "done" /\ request'[r].user = u
  BY <1>1 DEF TypeInv, TypeOK, RequestRun
<1>6. u # NoUser /\ siteStatus[u] \notin Deployed
  BY <1>1, <1>3, UsersAssumption DEF Undeployed
<1>7. OthersIdle' /\ OrdersApart'
  BY <1>1, <1>3, <1>4, <1>6 DEF AloneInv, OthersIdle, OrdersApart
<1>8. SitesFit'
  BY <1>1, <1>3, <1>4, <1>6 DEF AloneInv, SitesFit
<1>9. \A v : Undeployed(v) => Undeployed(v)'
  BY <1>1 DEF Undeployed
<1>10. \A q \in DeployRequests : Working(q)' => Working(q) /\ request'[q].user = request[q].user
  BY <1>1, <1>2, <1>5 DEF Working, InFlight
<1>11. RequestsFit'
  <2> SUFFICES ASSUME NEW q \in DeployRequests PROVE RequestFits(q)'
    BY DEF RequestsFit
  <2>1. /\ RequestFits(q) /\ configuring'[q] = configuring[q]
        /\ configuring[q] # NoUser =>
              /\ siteStatus'[configuring[q]] \notin Deployed
              /\ \A t \in DeployTaskIds : taskUser'[t] = configuring[q] => job'[t] \notin Ending
    BY <1>1 DEF AloneInv, RequestsFit, RequestFits
  <2>2. \A p \in DeployRequests : Working(q) /\ Working(p)' /\ request'[p].user = request[q].user => p = q
    BY <1>10, <2>1 DEF RequestFits
  <2>3. CASE q = r
    <3>1. ~InFlight(q)' /\ request'[q].user = request[q].user
      BY <1>5, <2>3 DEF InFlight
    <3>2. Working(q)' => \A p \in DeployRequests : Working(p)' /\ request'[p].user = request'[q].user => p = q
      BY <1>10, <2>2, <3>1
    <3>3. configuring'[q] # NoUser => configuring'[q] = request'[q].user /\ request'[q].pc \in {"save", "done"}
      BY <1>5, <2>1, <2>3 DEF RequestFits
    <3>4. QED
      BY <1>5, <2>1, <2>3, <3>1, <3>2, <3>3 DEF RequestFits
  <2>4. CASE q # r
    <3>1. InFlight(q) => request[q].user # u
      BY <1>3, <2>4 DEF Working
    <3>2. InFlight(q) => \A p \in DeployOrderIds :
              /\ deployUser'[p] = request[q].user <=> deployUser[p] = request[q].user
              /\ deployUser[p] = request[q].user =>
                    /\ deployState'[p] \in {"pending", "doing"} => deployState[p] \in {"pending", "doing"}
                    /\ deployTaskId'[p] = deployTaskId[p]
      BY <1>1, <1>3, <1>4, <3>1
    <3>3. Undeployed(request[q].user) => Undeployed(request[q].user)'
      BY <1>5, <1>9, <2>4 DEF Undeployed
    <3>4. QED
      BY <1>5, <2>1, <2>2, <2>4, <3>2, <3>3, RequestStays
  <2>5. QED
    BY <2>3, <2>4
<1>12. JobsFit'
  <2>1. \A t \in DeployTaskIds : job'[t] \in Live => taskUser[t] # u
    BY <1>1, <1>3 DEF Undeployed
  <2>2. \A t \in DeployTaskIds : job'[t] \in Live => siteStatus'[taskUser[t]] \in {"DEPLOYING", "CONFIGURED"}
    BY <1>1, LiveFits
  <2>3. \A t \in DeployTaskIds, p \in DeployOrderIds : job'[t] \in Live /\ deployUser[p] = taskUser[t] =>
           /\ deployUser'[p] = deployUser[p] /\ deployTaskId'[p] = deployTaskId[p]
           /\ deployState'[p] = deployState[p]
    BY <1>1, <1>3, <1>4, <2>1
  <2>4. QED
    BY <1>1, <2>2, <2>3, JobsStay
<1>13. Serves(disp[Consumer])'
  <2> PICK c : c = disp[Consumer]
    OBVIOUS
  <2>1. Serves(c) /\ c \in DispatcherRun
    BY DispatchersAssumption DEF AloneInv, TypeInv, TypeOK
  <2>2. c.pc \in AtWork => c.user # NoUser /\ c.user # u /\ Undeployed(c.user)
    BY <1>2, ServesOne, UsersAssumption
  <2>3. c.pc \in {"publish", "post"} /\ c.deploy # NoId => deployState'[c.deploy] = "pending"
    <3>1. c.deploy # NoId => c.deploy \in DeployOrderIds
      BY <2>1 DEF DispatcherRun
    <3>2. QED
      BY <1>4, <2>1, <3>1 DEF Serves
  <2>4. \A p \in DeployOrderIds : c.pc \in AtWork /\ deployUser[p] = c.user =>
           deployState'[p] = deployState[p] /\ deployTaskId'[p] = deployTaskId[p]
    BY <1>3, <1>4, <2>2
  <2>5. c.pc \in DoingPc => Undeployed(c.user)'
    BY <1>9, <2>2 DEF AtWork, Undeployed
  <2>6. c.pc = "config" => siteStatus'[c.user] \in {"DEPLOYING", "CONFIGURED"}
    BY <1>1, <2>1 DEF Serves
  <2>7. Serves(c)'
    BY <1>1, <2>1, <2>2, <2>3, <2>4, <2>5, <2>6, ServesStays
  <2>8. QED
    BY <1>1, <2>7 DEF Serves, Undeployed
<1>14. QED
  BY <1>7, <1>8, <1>11, <1>12, <1>13 DEF AloneInv

\* The update that a retry has not awaited meets a site that is not deployed.
LEMMA ConfigureSiteAlone ==
    ASSUME TypeInv, AloneInv, NEW r \in DeployRequests, ConfigureSite(r)
    PROVE  AloneInv'
<1> PICK u : u = configuring[r]
  OBVIOUS
<1>1. /\ UNCHANGED <<deployUser, deployState, deployTaskId, taskUser, taskState, job>>
      /\ UNCHANGED <<postState, publishing, disp, request>>
      /\ u # NoUser /\ u \in Users
      /\ \A v \in Users : siteStatus'[v] = IF v = u THEN "CONFIGURED" ELSE siteStatus[v]
      /\ \A q \in DeployRequests : configuring'[q] = IF q = r THEN NoUser ELSE configuring[q]
  BY DEF ConfigureSite, TypeInv, TypeOK
<1>2. RequestFits(r)
  BY DEF AloneInv, RequestsFit
<1>3. siteStatus[u] \notin Deployed
  BY <1>1, <1>2 DEF RequestFits
<1>4. \A v \in Users : Undeployed(v) => Undeployed(v)'
  BY <1>1 DEF Undeployed, Deployed
<1>5. OthersIdle' /\ OrdersApart'
  BY <1>1 DEF AloneInv, OthersIdle, OrdersApart
<1>6. SitesFit'
  <2>1. \A p \in DeployOrderIds : deployState[p] \in {"pending", "doing"} => deployUser[p] \in Users
    BY DEF AloneInv, OrdersApart, TypeInv, TypeOK
  <2>2. \A p \in DeployOrderIds : deployState[p] \in {"pending", "doing"} => siteStatus'[deployUser[p]] \notin Deployed
    BY <1>1, <2>1 DEF AloneInv, SitesFit, Deployed
  <2>3. \A v \in Users : siteStatus'[v] # "CONFIGURED" => \E p \in DeployOrderIds : deployUser[p] = v
    BY <1>1 DEF AloneInv, SitesFit
  <2>4. \A v \in Users : postState[v] = "doing" \/ publishing[v] \in {"active", "finish", "fail"} =>
           siteStatus'[v] \in Deployed
    BY <1>1, <1>3 DEF AloneInv, SitesFit
  <2>5. QED
    BY <1>1, <2>2, <2>3, <2>4 DEF SitesFit
<1>7. RequestsFit'
  <2> SUFFICES ASSUME NEW q \in DeployRequests PROVE RequestFits(q)'
    BY DEF RequestsFit
  <2>1. RequestFits(q)
    BY DEF AloneInv, RequestsFit
  <2>2. \A p \in DeployRequests : InFlight(p)' = InFlight(p) /\ (Working(p)' => Working(p))
    BY <1>1 DEF Working, InFlight
  <2>3. Working(q) => \A p \in DeployRequests : Working(p)' /\ request'[p].user = request[q].user => p = q
    BY <1>1, <2>1, <2>2 DEF RequestFits
  <2>4. InFlight(q) /\ Undeployed(request[q].user) => Undeployed(request[q].user)'
    BY <1>1, <1>4 DEF TypeInv, OrdersHaveUsers, Undeployed
  <2>5. configuring[q] # NoUser =>
           /\ siteStatus'[configuring[q]] \notin Deployed
           /\ \A t \in DeployTaskIds : taskUser'[t] = configuring[q] => job'[t] \notin Ending
    <3>1. configuring[q] \in Users \union {NoUser}
      BY DEF TypeInv, TypeOK
    <3>2. QED
      BY <1>1, <2>1, <3>1 DEF RequestFits, Deployed
  <2>6. CASE q = r
    <3>1. configuring'[q] = NoUser /\ request'[q] = request[q]
      BY <1>1, <2>6
    <3>2. request[q].pc \in {"find", "create", "save"} => InFlight(q)
      BY DEF InFlight
    <3>3. Working(q)' => \A p \in DeployRequests : Working(p)' /\ request'[p].user = request'[q].user => p = q
      BY <2>2, <2>3, <3>1
    <3>4. /\ request[q].pc = "find" /\ request[q].status = "DEPLOY_FAILED" => Undeployed(request[q].user)'
          /\ request[q].pc = "save" => Undeployed(request[q].user)'
      BY <2>1, <2>4, <3>2 DEF RequestFits
    <3>5. QED
      BY <1>1, <2>1, <2>2, <3>1, <3>3, <3>4 DEF RequestFits, Undeployed
  <2>7. CASE q # r
    <3>1. request'[q] = request[q] /\ configuring'[q] = configuring[q]
      BY <1>1, <2>7
    <3>2. QED
      BY <1>1, <2>1, <2>3, <2>4, <2>5, <3>1, RequestStays
  <2>8. QED
    BY <2>6, <2>7
<1>8. JobsFit'
  <2>1. \A t \in DeployTaskIds : job'[t] \in Live => siteStatus'[taskUser[t]] \in {"DEPLOYING", "CONFIGURED"}
    BY <1>1, LiveFits
  <2>2. QED
    BY <1>1, <2>1, JobsStay
<1>9. Serves(disp[Consumer])'
  <2> PICK c : c = disp[Consumer]
    OBVIOUS
  <2>1. Serves(c)
    BY DEF AloneInv
  <2>2. c.pc \in AtWork => c.user \in Users /\ c.user # NoUser /\ Undeployed(c.user)
    BY ServesOne, UsersAssumption
  <2>3. c.pc \in DoingPc => Undeployed(c.user)'
    BY <1>4, <2>2 DEF AtWork, Undeployed
  <2>4. c.pc = "config" => siteStatus'[c.user] \in {"DEPLOYING", "CONFIGURED"}
    BY <1>1, <2>1, <2>2 DEF Serves, AtWork, DoingPc
  <2>5. c.pc \in {"publish", "post"} /\ c.deploy # NoId => deployState'[c.deploy] = "pending"
    BY <1>1, <2>1 DEF Serves
  <2>6. Serves(c)'
    BY <1>1, <2>1, <2>2, <2>3, <2>4, <2>5, ServesStays
  <2>7. QED
    BY <1>1, <2>6 DEF Serves, Undeployed
<1>10. QED
  BY <1>5, <1>6, <1>7, <1>8, <1>9 DEF AloneInv

\* One dispatcher at work, the queue's consumer.
LEMMA OnlyConsumer ==
    ASSUME AloneInv, NEW d \in Dispatchers, DispatchStep(d)
    PROVE  d = Consumer
<1>1. disp[d].pc # "idle" \/ d = Consumer
  BY DEF DispatchStep, DispatchNextTask, ReadDeploy, ReadPublish, DispatchOldestOrder, ReadSite, ReadOrder,
         ResetOrder, ResetStatus, GenerateTask, LinkOrder, DoingTask, DoingOrder, DoingStatus, Advance,
         DispatchDeploy, DispatchFailed, CreatePosts, PublishSite
<1>2. QED
  BY <1>1 DEF AloneInv, OthersIdle

\* The number of the administrator's requests only grows, with NextTask and
\* DeploySite.
LEMMA NobodyAsked ==
    ASSUME TypeInv, [Next]_vars, dispatchRequests' = 0
    PROVE  /\ dispatchRequests = 0
           /\ \A d \in Dispatchers : ~NextTask(d) /\ \A u \in Users : ~DeploySite(d, u)
<1>1. dispatchRequests \in Nat
  BY DEF TypeInv, TypeOK
<1>2. \A d \in Dispatchers : ~NextTask(d) /\ \A u \in Users : ~DeploySite(d, u)
  BY <1>1 DEF NextTask, DeploySite, AdministratorAsks
<1>3. CASE UNCHANGED vars
  BY <1>2, <1>3 DEF vars
<1>4. CASE \E r \in DeployRequests : (\E u \in Users : RequestDeploy(r, u)) \/ RequestStep(r) \/ ConfigureSite(r)
  BY <1>2, <1>4 DEF RequestDeploy, RequestStep, FindOrder, Found, CreateOrder, RetryOrder, ConfigureSite
<1>5. CASE \E u \in Users : SavePost(u) \/ OtherStep(u)
  BY <1>2, <1>5 DEF SavePost, OtherStep, PostJobEnds, PublishJobEnds, SetPublished
<1>6. ASSUME NEW d \in Dispatchers, DispatchStep(d)
      PROVE  dispatchRequests' = dispatchRequests
  <2>1. CASE \/ DispatchNextTask(d) \/ ReadDeploy(d) \/ ReadPublish(d) \/ DispatchOldestOrder(d)
             \/ ReadSite(d) \/ ReadOrder(d) \/ ResetOrder(d) \/ ResetStatus(d) \/ GenerateTask(d)
    BY <2>1 DEF DispatchNextTask, ReadDeploy, ReadPublish, DispatchOldestOrder, ReadSite, ReadOrder,
                ResetOrder, ResetStatus, GenerateTask
  <2>2. CASE \/ LinkOrder(d) \/ DoingTask(d) \/ DoingOrder(d) \/ DoingStatus(d) \/ DispatchDeploy(d)
             \/ DispatchFailed(d) \/ CreatePosts(d) \/ PublishSite(d)
    BY <2>2 DEF LinkOrder, DoingTask, DoingOrder, DoingStatus, DispatchDeploy, DispatchFailed,
                CreatePosts, PublishSite
  <2>3. QED
    BY <1>6, <2>1, <2>2 DEF DispatchStep
<1>7. CASE \E t \in DeployTaskIds : DeployJobStep(t)
  BY <1>2, <1>7 DEF DeployJobStep, DeployCompleted, DeployFailed, FinishDeploySiteTask, FailDeploySiteTask,
                    EndTask, EndOrder, EndStatus, GeneratePublishSiteOrder
<1>8. CASE Restart
  BY <1>2, <1>8 DEF Restart
<1>9. QED
  BY <1>2, <1>3, <1>4, <1>5, <1>6, <1>7, <1>8 DEF Next

\* Every step keeps it, as long as nobody asks.
LEMMA StepAlone ==
    ASSUME OwnershipInv, AloneInv, ~Overlapping, [Next]_vars, dispatchRequests' = 0
    PROVE  AloneInv'
<1>1. TypeInv
  BY DEF OwnershipInv
<1>2. CASE UNCHANGED vars
  BY <1>2 DEF vars, AloneInv, OthersIdle, OrdersApart, SitesFit, RequestsFit, RequestFits, Working, InFlight,
              Undeployed, JobsFit, JobFits, Serves
<1>3. ASSUME NEW r \in DeployRequests, NEW u \in Users, RequestDeploy(r, u) PROVE AloneInv'
  BY <1>1, <1>3, RequestDeployAlone
<1>4. ASSUME NEW r \in DeployRequests, RequestStep(r) PROVE AloneInv'
  BY <1>1, <1>4, FindOrderAlone, CreateOrderAlone, RetryOrderAlone DEF RequestStep
<1>5. ASSUME NEW r \in DeployRequests, ConfigureSite(r) PROVE AloneInv'
  BY <1>1, <1>5, ConfigureSiteAlone
<1>6. ASSUME NEW u \in Users, SavePost(u) \/ OtherStep(u) PROVE AloneInv'
  BY <1>1, <1>6, OthersAlone DEF OtherStep
<1>7. ASSUME NEW d \in Dispatchers, DispatchStep(d) PROVE AloneInv'
  <2>1. d = Consumer
    BY <1>7, OnlyConsumer
  <2>2. CASE DispatchNextTask(d) \/ ReadDeploy(d) \/ ReadPublish(d) \/ DispatchOldestOrder(d)
    BY <1>1, <2>1, <2>2, ReadsAlone, OldestAlone
  <2>3. CASE ReadSite(d) \/ ReadOrder(d) \/ ResetOrder(d) \/ ResetStatus(d) \/ GenerateTask(d) \/ LinkOrder(d)
    BY <1>1, <2>1, <2>3, ReadSiteAlone, ReadOrderAlone, ResetOrderAlone, ResetStatusAlone, GenerateTaskAlone,
       LinkOrderAlone
  <2>4. CASE DoingTask(d) \/ DoingOrder(d) \/ DoingStatus(d) \/ DispatchDeploy(d)
    BY <1>1, <2>1, <2>4, DoingTaskAlone, DoingOrderAlone, DoingStatusAlone, DispatchDeployAlone
  <2>5. CASE DispatchFailed(d) \/ CreatePosts(d) \/ PublishSite(d)
    BY <1>1, <2>1, <2>5, DispatchOthersAlone
  <2>6. QED
    BY <1>7, <2>2, <2>3, <2>4, <2>5 DEF DispatchStep
<1>8. ASSUME NEW t \in DeployTaskIds, DeployJobStep(t) PROVE AloneInv'
  <2>1. CASE FinishDeploySiteTask(t)
    BY <1>1, <2>1, JobEndsAlone, EndOrderAlone, EndStatusAlone DEF FinishDeploySiteTask
  <2>2. CASE FailDeploySiteTask(t)
    BY <1>1, <2>2, JobEndsAlone, EndOrderAlone, EndStatusAlone DEF FailDeploySiteTask
  <2>3. CASE DeployCompleted(t) \/ DeployFailed(t) \/ GeneratePublishSiteOrder(t)
    BY <1>1, <2>3, JobEndsAlone
  <2>4. QED
    BY <1>8, <2>1, <2>2, <2>3 DEF DeployJobStep
<1>9. CASE Restart
  BY <1>1, <1>9, RestartAlone
<1>10. QED
  BY <1>1, <1>2, <1>3, <1>4, <1>5, <1>6, <1>7, <1>8, <1>9, NobodyAsked DEF Next

UnaskedInv == OwnershipInv /\ (dispatchRequests = 0 => AloneInv)

LEMMA InitUnasked == Init => UnaskedInv
BY InitOwned, InitAlone DEF UnaskedInv

LEMMA NextUnasked == ASSUME ~Overlapping, UnaskedInv, [Next]_vars PROVE UnaskedInv'
<1>1. OwnershipInv'
  BY NextOwned DEF UnaskedInv
<1>2. ASSUME dispatchRequests' = 0 PROVE AloneInv'
  BY <1>2, NobodyAsked, StepAlone DEF UnaskedInv, OwnershipInv
<1>3. QED
  BY <1>1, <1>2 DEF UnaskedInv

\* If users only ask to deploy while they wait for nothing, and the administrator
\* dispatches nothing, the repository of a site that is being made is touched by
\* no second deployment, no post job and no publish job, whatever fails and
\* whenever the backend restarts.
THEOREM DeploysAlone ==
    ASSUME ~Overlapping
    PROVE  Spec => []DeployAlone
<1>1. Init => UnaskedInv
  BY InitUnasked
<1>2. UnaskedInv /\ [Next]_vars => UnaskedInv'
  BY NextUnasked
<1>3. UnaskedInv => DeployAlone
  <2> SUFFICES ASSUME UnaskedInv, dispatchRequests = 0, NEW t \in DeployTaskIds, job[t] = "active"
               PROVE  /\ \A s \in DeployTaskIds : taskUser[s] = taskUser[t] /\ job[s] = "active" => s = t
                      /\ postState[taskUser[t]] # "doing" /\ publishing[taskUser[t]] # "active"
    BY DEF DeployAlone
  <2>1. TypeInv /\ AloneInv /\ job[t] \in Live /\ \A s \in DeployTaskIds : job[s] = "active" => job[s] \in Live
    BY DEF UnaskedInv, OwnershipInv, Live
  <2>2. /\ taskUser[t] \in Users /\ siteStatus[taskUser[t]] \notin Deployed
        /\ \A s \in DeployTaskIds : job[s] \in Live /\ taskUser[s] = taskUser[t] => s = t
    BY <2>1, LiveFits DEF Deployed
  <2>3. postState[taskUser[t]] # "doing" /\ publishing[taskUser[t]] # "active"
    BY <2>1, <2>2 DEF AloneInv, SitesFit
  <2>4. QED
    BY <2>1, <2>2, <2>3
<1>4. QED
  BY <1>1, <1>2, <1>3, PTL DEF Spec

\* Whoever writes the status of a site that is deployed writes one of a deployed site.
LEMMA StepDeployed ==
    ASSUME UnaskedInv, Next, dispatchRequests = 0, NEW u \in Users, siteStatus[u] \in Deployed
    PROVE  siteStatus'[u] \in Deployed
<1>1. TypeInv /\ AloneInv /\ siteStatus \in [Users -> SiteStatus]
  BY DEF UnaskedInv, OwnershipInv, TypeInv, TypeOK
<1>2. ASSUME NEW r \in DeployRequests, ConfigureSite(r) PROVE siteStatus'[u] \in Deployed
  <2>1. configuring[r] # u
    BY <1>1, <1>2, UsersAssumption DEF ConfigureSite, AloneInv, RequestsFit, RequestFits
  <2>2. QED
    BY <1>1, <1>2, <2>1 DEF ConfigureSite
<1>3. ASSUME NEW d \in Dispatchers, ResetStatus(d) \/ DoingStatus(d) PROVE siteStatus'[u] \in Deployed
  <2>1. d = Consumer /\ disp[Consumer].pc \in AtWork
    <3>1. d = Consumer
      BY <1>1, <1>3, OnlyConsumer DEF DispatchStep
    <3>2. QED
      BY <1>3, <3>1 DEF ResetStatus, DoingStatus, Advance, AtWork, PendingPc, DoingPc
  <2>2. disp[d].user # u
    BY <1>1, <2>1, ServesOne DEF Undeployed
  <2>3. QED
    BY <1>1, <1>3, <2>2 DEF ResetStatus, DoingStatus
<1>4. ASSUME NEW d \in Dispatchers, PublishSite(d) PROVE siteStatus'[u] \in Deployed
  BY <1>1, <1>4 DEF PublishSite, Deployed
<1>5. ASSUME NEW v \in Users, SetPublished(v) PROVE siteStatus'[u] \in Deployed
  BY <1>1, <1>5 DEF SetPublished, Deployed
<1>6. ASSUME NEW t \in DeployTaskIds, DeployJobStep(t) PROVE siteStatus'[u] \in Deployed
  <2>1. CASE EndStatus(t, "finishStatus", "publish", "DEPLOYED")
    BY <1>1, <2>1 DEF EndStatus, Deployed
  <2>2. CASE EndStatus(t, "failStatus", "done", "DEPLOY_FAILED")
    <3>1. job[t] \in Live
      BY <2>2 DEF EndStatus, AdvanceJob, Live
    <3>2. taskUser[t] # u
      BY <1>1, <3>1, LiveFits DEF Deployed
    <3>3. QED
      BY <1>1, <2>2, <3>2 DEF EndStatus
  <2>3. CASE siteStatus' = siteStatus
    BY <2>3
  <2>4. QED
    BY <1>6, <2>1, <2>2, <2>3 DEF DeployJobStep, FinishDeploySiteTask, FailDeploySiteTask, DeployCompleted,
                                  DeployFailed, GeneratePublishSiteOrder, EndTask, EndOrder
<1>7. ASSUME NEW r \in DeployRequests, NEW v \in Users, RequestDeploy(r, v) \/ RequestStep(r) PROVE siteStatus'[u] \in Deployed
  BY <1>7 DEF RequestDeploy, RequestStep, FindOrder, Found, CreateOrder, RetryOrder
<1>8. ASSUME NEW v \in Users, SavePost(v) \/ OtherStep(v) PROVE siteStatus'[u] \in Deployed
  BY <1>5, <1>8 DEF SavePost, OtherStep, PostJobEnds, PublishJobEnds
<1>9. ASSUME NEW d \in Dispatchers, DispatchStep(d) PROVE siteStatus'[u] \in Deployed
  <2>1. CASE \/ DispatchNextTask(d) \/ ReadDeploy(d) \/ ReadPublish(d) \/ DispatchOldestOrder(d)
             \/ ReadSite(d) \/ ReadOrder(d) \/ ResetOrder(d) \/ GenerateTask(d)
    BY <2>1 DEF DispatchNextTask, BelowWipLimit, ReadDeploy, ReadPublish, DispatchOldestOrder, ReadSite,
                ReadOrder, ResetOrder, GenerateTask
  <2>2. CASE LinkOrder(d) \/ DoingTask(d) \/ DoingOrder(d) \/ DispatchDeploy(d) \/ DispatchFailed(d) \/ CreatePosts(d)
    BY <2>2 DEF LinkOrder, DoingTask, DoingOrder, DispatchDeploy, DispatchFailed, CreatePosts
  <2>3. QED
    BY <1>3, <1>4, <1>9, <2>1, <2>2 DEF DispatchStep
<1>10. ASSUME NEW d \in Dispatchers, NEW v \in Users, NextTask(d) \/ DeploySite(d, v) PROVE siteStatus'[u] \in Deployed
  BY <1>10 DEF NextTask, BelowWipLimit, DeploySite
<1>11. CASE Restart
  BY <1>11 DEF Restart
<1>12. QED
  BY <1>2, <1>6, <1>7, <1>8, <1>9, <1>10, <1>11 DEF Next

\* Under the same conditions no status written late, no deployment dispatched from
\* stale rows and no failed job takes a deployed site back to CONFIGURED, DEPLOYING
\* or DEPLOY_FAILED.
THEOREM StaysDeployed ==
    ASSUME ~Overlapping
    PROVE  Spec => DeployedForGood
<1>1. Init => UnaskedInv
  BY InitUnasked
<1>2. UnaskedInv /\ [Next]_vars => UnaskedInv'
  BY NextUnasked
<1>3. UnaskedInv /\ [Next]_vars =>
         [dispatchRequests = 0 =>
            \A u \in Users : siteStatus[u] \in Deployed => siteStatus'[u] \in Deployed]_vars
  BY StepDeployed
<1>4. QED
  BY <1>1, <1>2, <1>3, PTL DEF Spec, DeployedForGood
=============================================================================
