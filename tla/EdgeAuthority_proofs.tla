------------------------- MODULE EdgeAuthority_proofs -------------------------
(***************************************************************************)
(* Theorems about EdgeAuthority, for any connections, grounds, messages,   *)
(* command ids and plans.                                                  *)
(***************************************************************************)
EXTENDS EdgeAuthority, SequenceTheorems, TLAPS

Answer3 == {"ack", "nack", None}

\* None is none of the values it stands for the absence of.
LEMMA NoneIsNothing ==
    /\ None \notin Nodes /\ None \notin Conns /\ None \notin Plans /\ None \notin Nat
    /\ None \notin Conn /\ None \notin Handover /\ None \notin Plan /\ None \notin Commands
    /\ None \notin Loop /\ None # Adopted /\ Adopted \notin Loop
<1>1. Adopted \notin Loop
  BY DEF Adopted, Loop
<1>. QED
  BY <1>1, AuthorityAssumption

\* Appending an entry and evicting the oldest keeps the cache well typed.
LEMMA RememberType ==
    ASSUME cache \in Seq(Entry), NEW m \in Commands, NEW p \in Plans \cup {None}, NEW r \in Answer3,
           Remember(m, p, r)
    PROVE  cache' \in Seq(Entry)
<1> DEFINE e == [cmd |-> m.cmd, type |-> m.type, epoch |-> m.epoch, plan |-> p, reply |-> r]
           longer == Append(cache, e)
<1>1. e \in Entry
  BY AuthorityAssumption DEF Entry, Command, Answer3
<1>2. cache' = IF Len(longer) > CacheSize THEN Tail(longer) ELSE longer
  BY DEF Remember
<1> HIDE DEF e
<1>3. longer \in Seq(Entry) /\ Len(longer) = Len(cache) + 1 /\ Len(cache) \in Nat
  BY <1>1, AppendProperties, LenProperties
<1>4. longer # <<>>
  BY <1>3, EmptySeq
<1>5. Tail(longer) \in Seq(Entry)
  BY <1>3, <1>4, HeadTailProperties
<1>. QED
  BY <1>2, <1>3, <1>5

\* Rewriting the replies of some entries keeps the cache well typed.
LEMMA RewriteType ==
    ASSUME cache \in Seq(Entry), NEW r \in Answer3, NEW S \in SUBSET (DOMAIN cache)
    PROVE  [i \in DOMAIN cache |-> IF i \in S THEN [cache[i] EXCEPT !.reply = r]
                                              ELSE cache[i]] \in Seq(Entry)
<1>1. PICK n \in Nat : cache \in [1..n -> Entry]
  BY SeqDef
<1> DEFINE new(i) == IF i \in S THEN [cache[i] EXCEPT !.reply = r] ELSE cache[i]
<1>2. \A i \in 1..n : new(i) \in Entry
  <2> SUFFICES ASSUME NEW i \in 1..n PROVE new(i) \in Entry
    OBVIOUS
  <2>1. cache[i] \in Entry
    BY <1>1
  <2>. QED
    BY <2>1 DEF Entry, Answer3
<1>3. DOMAIN cache = 1..n
  BY <1>1
<1>4. [i \in DOMAIN cache |-> new(i)] \in [1..n -> Entry]
  BY <1>2, <1>3
<1>. QED
  BY <1>4, SeqDef

\* Adopting, rebinding and ignoring a leader keep the authority well typed.
LEMMA TryAdoptType ==
    ASSUME TypeOK, NEW k \in Conns, NEW e \in Nat, NEW n \in Nodes, TryAdopt(k, e, n)
    PROVE  /\ epochSeen' \in Nat /\ authorityLeader' \in Nodes \cup {None}
           /\ authorityKey' \in Conns \cup {None} /\ handover' \in Handover \cup {None}
           /\ plan' \in Plan \cup {None} /\ loop' \in {Adopted, None}
<1>1. CASE Adopts(e, n)
  BY <1>1 DEF TryAdopt, Forget, TypeOK
<1>2. CASE ~Adopts(e, n)
  BY <1>2 DEF TryAdopt, Forget, TypeOK
<1>. QED
  BY <1>1, <1>2

\* Every step keeps the types.
LEMMA TypeStep == TypeOK /\ [Next]_vars => TypeOK'
<1> SUFFICES ASSUME TypeOK, [Next]_vars PROVE TypeOK'
  OBVIOUS
<1> USE NoneIsNothing DEF authority, executor, replies
<1>1. ASSUME NEW k \in Conns, Opened(k) PROVE TypeOK'
  BY <1>1 DEF TypeOK, Opened, Release, FreshConn, Conn
<1>2. ASSUME NEW k \in Conns, Closed(k) PROVE TypeOK'
  BY <1>2 DEF TypeOK, Closed, Release
<1>3. ASSUME NEW k \in Conns, BeforeHello(k) PROVE TypeOK'
  <2>1. conns[k] \in Conn
    BY <1>3 DEF TypeOK, BeforeHello
  <2>2. [conns[k] EXCEPT !.v1 = TRUE] \in Conn
    BY <2>1 DEF Conn
  <2>. QED
    BY <1>3, <2>2 DEF TypeOK, BeforeHello
<1>4. ASSUME NEW k \in Conns, NEW m \in Hellos \cup Controls, Sample(k, m) PROVE TypeOK'
  <2>1. loop' \in Loop
    BY <1>4, AuthorityAssumption DEF TypeOK, Sample, Loop
  <2>. QED
    BY <1>4, <2>1 DEF TypeOK, Sample
<1>5. ASSUME NEW k \in Conns, NEW m \in Commands, AcceptCommand(k, m) PROVE TypeOK'
  <2>1. m.plan \in Plans \cup {None}
    BY AuthorityAssumption DEF Command
  <2>2. cache' \in Seq(Entry)
    BY <1>5, <2>1, RememberType DEF TypeOK, AcceptCommand, Answer3
  <2>. QED
    BY <1>5, <2>2 DEF TypeOK, AcceptCommand
<1>6. ASSUME NEW k \in Conns, NEW m \in Commands, HandoverCommand(k, m) PROVE TypeOK'
  <2>1. cache' \in Seq(Entry)
    BY <1>6, RememberType DEF TypeOK, HandoverCommand, Answer3
  <2>2. handover' \in Handover
    BY <1>6, AuthorityAssumption DEF HandoverCommand, Handover, Command
  <2>. QED
    BY <1>6, <2>1, <2>2 DEF TypeOK, HandoverCommand
<1>7. ASSUME NEW k \in Conns, NEW m \in Commands, RefuseCommand(k, m) PROVE TypeOK'
  <2>1. cache' \in Seq(Entry)
    BY <1>7, RememberType DEF TypeOK, RefuseCommand, Answer3
  <2>. QED
    BY <1>7, <2>1 DEF TypeOK, RefuseCommand
<1>8. CASE SampleBusy
  <2>1. loop \in Loop
    BY <1>8 DEF TypeOK, SampleBusy, Adopted
  <2>2. loop' = [at |-> "busy_read", conn |-> loop.conn, msg |-> loop.msg,
                 active |-> (loop.active \/ exec # "idle"), moved |-> loop.moved]
    BY <1>8, <2>1 DEF SampleBusy, Loop
  <2>3. (loop.active \/ exec # "idle") \in BOOLEAN
    OBVIOUS
  <2>4. loop' \in Loop
    BY <2>1, <2>2, <2>3 DEF Loop
  <2>. QED
    BY <1>8, <2>4 DEF TypeOK, SampleBusy
<1>9. CASE OnHello
  <2> DEFINE k == loop.conn
             m == loop.msg
  <2>1. k \in Conns /\ m \in Hellos /\ m \in Hello
    BY <1>9, AuthorityAssumption DEF TypeOK, OnHello, Loop, Adopted, IsHello
  <2>2. CASE HelloRefused(conns[k], m)
    BY <1>9, <2>2 DEF TypeOK, OnHello
  <2>3. CASE ~HelloRefused(conns[k], m)
    <3>1. [node |-> m.node, role |-> m.role, epoch |-> m.epoch, proto |-> m.proto, v1 |-> FALSE] \in Conn
      BY <2>1 DEF Hello, Conn
    <3>2. conns' \in [Conns -> Conn \cup {None}]
      BY <1>9, <2>1, <2>3, <3>1 DEF TypeOK, OnHello
    <3>3. CASE m.role = "leader" /\ TryAdopt(k, m.epoch, m.node)
      <4>1. m.epoch \in Nat /\ m.node \in Nodes
        BY <2>1 DEF Hello
      <4>. QED
        BY <1>9, <2>1, <3>2, <3>3, <4>1, TryAdoptType DEF TypeOK, OnHello
    <3>4. CASE m.role # "leader"
      BY <1>9, <2>1, <2>3, <3>2, <3>4 DEF TypeOK, OnHello, Release
    <3>. QED
      BY <1>9, <2>3, <3>3, <3>4 DEF OnHello
  <2>. QED
    BY <2>2, <2>3
<1>10. CASE OnHeartbeat
  <2> DEFINE k == loop.conn
             m == loop.msg
  <2>1. k \in Conns /\ m.epoch \in Nat /\ m.leader \in Nodes
    BY <1>10, AuthorityAssumption DEF TypeOK, OnHeartbeat, Loop, Adopted, IsHello, Control
  <2>2. CASE TryAdopt(k, m.epoch, m.leader)
    BY <1>10, <2>1, <2>2, TryAdoptType DEF TypeOK, OnHeartbeat
  <2>3. CASE ~TryAdopt(k, m.epoch, m.leader)
    BY <1>10, <2>3 DEF TypeOK, OnHeartbeat
  <2>. QED
    BY <2>2, <2>3
<1>11. CASE InvalidatePlan
  BY <1>11 DEF TypeOK, InvalidatePlan
<1>12. CASE Landing
  BY <1>12 DEF TypeOK, Landing
<1>13. ASSUME EndDispatch PROVE loop' \in Loop \cup {Adopted, None}
  BY <1>13 DEF TypeOK, EndDispatch, Loop
<1>14. CASE DispatchNothing
  BY <1>13, <1>14 DEF TypeOK, DispatchNothing
<1>15. ASSUME NEW m \in Commands, BeginDispatch(m, Stamp(m)) PROVE TypeOK'
  BY <1>13, <1>15 DEF TypeOK, BeginDispatch
<1>16. ASSUME NEW m \in Commands, DropAtDispatch(m, Stamp(m)) PROVE TypeOK'
  <2> DEFINE S == {i \in DOMAIN cache : cache[i].cmd = m.cmd}
  <2>1. cache' = [i \in DOMAIN cache |-> IF i \in S THEN [cache[i] EXCEPT !.reply = "nack"]
                                                   ELSE cache[i]]
    BY <1>16 DEF DropAtDispatch
  <2>2. cache' \in Seq(Entry)
    BY <2>1, RewriteType DEF TypeOK, Answer3
  <2>. QED
    BY <1>13, <1>16, <2>2 DEF TypeOK, DropAtDispatch
<1>17. CASE ExecStorePlan
  <2>1. execPlan' \in Plan
    BY <1>17, AuthorityAssumption DEF TypeOK, ExecStorePlan, Plan, Command, Dispatching
  <2>. QED
    BY <1>17, <2>1 DEF TypeOK, ExecStorePlan, Dispatching
<1>18. CASE ExecLaunch \/ ExecEndLinkHold
  BY <1>18 DEF TypeOK, ExecLaunch, ExecEndLinkHold, Dispatching
<1>19. CASE ExecTakeoff \/ ExecEnd \/ ExecLand \/ ExecLanded
  BY <1>19 DEF TypeOK, ExecTakeoff, ExecEnd, ExecLand, ExecLanded
<1>20. ASSUME NEW m \in Commands, NEW reply \in {"ack", "nack"}, Outcome(m, reply) PROVE TypeOK'
  <2> DEFINE S == {i \in DOMAIN cache : cache[i].cmd = m.cmd /\ cache[i].type = m.type
                                           /\ cache[i].reply = None}
  <2>1. cache' = [i \in DOMAIN cache |-> IF i \in S THEN [cache[i] EXCEPT !.reply = reply]
                                                   ELSE cache[i]]
    BY <1>20 DEF Outcome
  <2>2. cache' \in Seq(Entry)
    <3>1. cache \in Seq(Entry) /\ reply \in Answer3 /\ S \in SUBSET (DOMAIN cache)
      BY DEF TypeOK, Answer3
    <3>. HIDE DEF S
    <3>. QED
      BY <2>1, <3>1, RewriteType
  <2>3. plan' \in Plan \cup {None}
    <3>1. ASSUME NEW i \in DOMAIN cache, AcksPlan(m, cache[i])
          PROVE  [epoch |-> cache[i].epoch, id |-> cache[i].plan] \in Plan
      <4>1. cache[i] \in Entry
        BY ElementOfSeq, LenProperties DEF TypeOK
      <4>. QED
        BY <3>1, <4>1 DEF TypeOK, AcksPlan, Plan, Entry
    <3>. QED
      BY <1>20, <3>1 DEF TypeOK, Outcome
  <2>. QED
    BY <1>20, <2>2, <2>3 DEF TypeOK, Outcome
<1>21. CASE UNCHANGED vars
  BY <1>21 DEF TypeOK, vars
<1>. QED
  BY <1>1, <1>2, <1>3, <1>4, <1>5, <1>6, <1>7, <1>8, <1>9, <1>10, <1>11, <1>12, <1>14, <1>15,
     <1>16, <1>17, <1>18, <1>19, <1>20, <1>21 DEF Next, LoopNext, ExecNext

\* The state of the authority and of what surrounds it keeps its types.
THEOREM Typed == Spec => []TypeOK
<1>1. Init => TypeOK
  <2> SUFFICES ASSUME Init PROVE TypeOK
    OBVIOUS
  <2>1. cache \in Seq(Entry)
    BY EmptySeq DEF Init
  <2>. QED
    BY <2>1 DEF Init, TypeOK
<1>. QED
  BY <1>1, TypeStep, PTL DEF Spec

----------------------------------------------------------------------------
(* Who holds the authority.                                                *)

\* A connection that agreed a version is no v1 link; the connection whose
\* message is being decided is open and said hello before anything else; and
\* there is no key without a leader.
KeyInv ==
    /\ \A k \in Conns : conns[k] # None /\ conns[k].proto # None => ~conns[k].v1
    /\ loop \in Loop => /\ conns[loop.conn] # None
                        /\ IsHello(loop.msg) \/ conns[loop.conn].proto # None
    /\ authorityKey # None => authorityLeader # None
    /\ AuthorityIsLeader

\* The steps that touch neither connections, nor the authority, nor the event
\* loop's place in on_message.
Quiet == UNCHANGED <<conns, epochSeen, authorityLeader, authorityKey, loop>>

\* The executor, a landing and a command's frame are among those steps.
LEMMA QuietSteps ==
    ASSUME \/ ExecNext \/ Landing \/ UNCHANGED vars
           \/ \E k \in Conns, m \in Commands :
                 AcceptCommand(k, m) \/ HandoverCommand(k, m) \/ RefuseCommand(k, m)
    PROVE  Quiet
<1> USE DEF Quiet, authority, executor, replies, vars
<1>1. CASE ExecNext
  BY <1>1 DEF ExecNext, ExecStorePlan, ExecLaunch, ExecEndLinkHold, ExecTakeoff, ExecEnd, ExecLand, ExecLanded,
              Outcome
<1>2. CASE Landing
  BY <1>2 DEF Landing
<1>3. CASE UNCHANGED vars
  BY <1>3
<1>4. ASSUME NEW k \in Conns, NEW m \in Commands,
             AcceptCommand(k, m) \/ HandoverCommand(k, m) \/ RefuseCommand(k, m)
      PROVE  Quiet
  BY <1>4 DEF AcceptCommand, HandoverCommand, RefuseCommand
<1>. QED
  BY <1>1, <1>2, <1>3, <1>4

\* A begin_dispatch leaves the connections and the authority alone, and of the
\* event loop's sample only its moved mark.
LEMMA DispatchSteps ==
    ASSUME TypeOK,
           \/ DispatchNothing
           \/ \E m \in Commands : Offered(m) /\ (BeginDispatch(m, Stamp(m)) \/ DropAtDispatch(m, Stamp(m)))
    PROVE  /\ UNCHANGED <<conns, authority>>
           /\ loop' \in Loop => /\ loop \in Loop /\ loop'.conn = loop.conn /\ loop'.msg = loop.msg
                                /\ loop'.at = loop.at /\ loop'.active = loop.active
                                /\ loop'.moved = (loop.moved \/ Dispatching)
           /\ loop \in Loop => loop' \in Loop
           /\ loop \notin Loop => loop' = loop
<1>1. EndDispatch /\ UNCHANGED <<conns, authority>>
  BY DEF DispatchNothing, BeginDispatch, DropAtDispatch, authority
<1>2. CASE Dispatching /\ loop \in Loop
  <2>1. loop' = [at |-> loop.at, conn |-> loop.conn, msg |-> loop.msg,
                 active |-> loop.active, moved |-> TRUE]
    BY <1>1, <1>2 DEF EndDispatch, Loop
  <2>2. loop' \in Loop
    BY <1>2, <2>1 DEF Loop
  <2>. QED
    BY <1>1, <1>2, <2>1, <2>2
<1>3. CASE ~Dispatching /\ loop \in Loop
  <2>1. loop' = loop /\ loop.moved \in BOOLEAN
    BY <1>1, <1>3 DEF EndDispatch, Loop
  <2>. QED
    BY <1>1, <1>3, <2>1
<1>4. CASE loop \notin Loop
  BY <1>1, <1>4 DEF EndDispatch
<1>. QED
  BY <1>2, <1>3, <1>4

\* What _try_adopt does to the authority, for a connection of the leader it names.
LEMMA TryAdoptKey ==
    ASSUME TypeOK, KeyInv, NEW k \in Conns, NEW e \in Nat, NEW n \in Nodes, TryAdopt(k, e, n)
    PROVE  /\ \/ authorityKey' = k /\ authorityLeader' = n
              \/ UNCHANGED <<authorityKey, authorityLeader>>
           /\ authorityKey' # None => authorityLeader' # None
           /\ loop' \notin Loop
<1>1. CASE Adopts(e, n)
  BY <1>1, NoneIsNothing DEF TryAdopt
<1>2. CASE ~Adopts(e, n)
  BY <1>2, NoneIsNothing DEF TryAdopt, Rebinds, KeyInv
<1>. QED
  BY <1>1, <1>2

\* Every step keeps the key with the leader's connection.
LEMMA KeyStep == TypeOK /\ TypeOK' /\ KeyInv /\ [Next]_vars => KeyInv'
<1> SUFFICES ASSUME TypeOK, TypeOK', KeyInv, [Next]_vars PROVE KeyInv'
  OBVIOUS
<1> USE NoneIsNothing DEF authority, executor, replies
<1>1. CASE Quiet
  BY <1>1 DEF Quiet, KeyInv, AuthorityIsLeader
<1>2. ASSUME \/ DispatchNothing
             \/ \E m \in Commands : Offered(m) /\ (BeginDispatch(m, Stamp(m)) \/ DropAtDispatch(m, Stamp(m)))
      PROVE  KeyInv'
  BY <1>2, DispatchSteps DEF KeyInv, AuthorityIsLeader, IsHello
<1>3. ASSUME NEW k \in Conns, Opened(k) \/ Closed(k) PROVE KeyInv'
  <2>1. loop' = None /\ authorityLeader' = authorityLeader
    BY <1>3 DEF Opened, Closed
  <2>2. authorityKey' # None => authorityKey' = authorityKey /\ authorityKey # k
    BY <1>3 DEF Opened, Closed, Release
  <2>3. \A j \in Conns : j # k => conns'[j] = conns[j]
    BY <1>3 DEF Opened, Closed, TypeOK
  <2>4. conns'[k] # None => conns'[k].proto = None
    BY <1>3 DEF Opened, Closed, TypeOK, FreshConn
  <2>. QED
    BY <2>1, <2>2, <2>3, <2>4 DEF KeyInv, AuthorityIsLeader, TypeOK
<1>4. ASSUME NEW k \in Conns, BeforeHello(k) PROVE KeyInv'
  <2>1. conns[k] \in Conn /\ conns'[k].proto = None
    BY <1>4 DEF BeforeHello, TypeOK, Conn
  <2>2. \A j \in Conns : j # k => conns'[j] = conns[j]
    BY <1>4 DEF BeforeHello, TypeOK
  <2>3. UNCHANGED <<authorityKey, authorityLeader, loop>> /\ loop = None /\ authorityKey # k
    BY <1>4 DEF BeforeHello, KeyInv, AuthorityIsLeader
  <2>. QED
    BY <2>1, <2>2, <2>3 DEF KeyInv, AuthorityIsLeader, TypeOK
<1>5. ASSUME NEW k \in Conns, NEW m \in Hellos \cup Controls, Sample(k, m) PROVE KeyInv'
  <2>1. loop'.conn = k /\ loop'.msg = m /\ UNCHANGED <<conns, authorityKey, authorityLeader>>
    BY <1>5 DEF Sample
  <2>2. conns[k] # None /\ (IsHello(m) \/ conns[k].proto # None)
    BY <1>5 DEF Sample
  <2>. QED
    BY <2>1, <2>2 DEF KeyInv, AuthorityIsLeader, IsHello
<1>6. CASE SampleBusy
  <2>1. loop \in Loop
    BY <1>6 DEF SampleBusy, TypeOK, Adopted
  <2>2. loop'.conn = loop.conn /\ loop'.msg = loop.msg /\ UNCHANGED <<conns, authorityKey, authorityLeader>>
    BY <1>6, <2>1 DEF SampleBusy, Loop
  <2>. QED
    BY <2>1, <2>2 DEF KeyInv, AuthorityIsLeader, IsHello
<1>7. CASE OnHello
  <2> DEFINE k == loop.conn
             m == loop.msg
  <2>1. k \in Conns /\ m \in Hello /\ conns[k] # None
    BY <1>7, AuthorityAssumption DEF TypeOK, OnHello, Loop, Adopted, IsHello, KeyInv
  <2>2. CASE HelloRefused(conns[k], m)
    BY <1>7, <2>2 DEF OnHello, KeyInv, AuthorityIsLeader, HelloRefused
  <2>3. CASE ~HelloRefused(conns[k], m)
    <3>1. /\ conns'[k] = [node |-> m.node, role |-> m.role, epoch |-> m.epoch,
                          proto |-> m.proto, v1 |-> FALSE]
          /\ \A j \in Conns : j # k => conns'[j] = conns[j]
      BY <1>7, <2>1, <2>3 DEF OnHello, TypeOK
    <3>2. conns'[k] # None /\ conns'[k].proto # None /\ ~conns'[k].v1
          /\ conns'[k].node = m.node /\ conns'[k].role = m.role
      <4>1. m.proto \in {1, 2}
        BY <2>1 DEF Hello
      <4>2. [node |-> m.node, role |-> m.role, epoch |-> m.epoch, proto |-> m.proto,
             v1 |-> FALSE] \in Conn
        BY <2>1 DEF Hello, Conn
      <4>3. conns'[k] # None
        BY <3>1, <4>2, NoneIsNothing
      <4>4. conns'[k].proto # None
        BY <3>1, <4>1, NoneIsNothing
      <4>. QED
        BY <3>1, <4>3, <4>4
    <3>3. \A j \in Conns : conns'[j] # None /\ conns'[j].proto # None => ~conns'[j].v1
      BY <3>1, <3>2 DEF KeyInv
    <3>4. CASE m.role = "leader" /\ TryAdopt(k, m.epoch, m.node)
      <4>1. m.epoch \in Nat /\ m.node \in Nodes
        BY <2>1 DEF Hello
      <4>2. /\ \/ authorityKey' = k /\ authorityLeader' = m.node
               \/ UNCHANGED <<authorityKey, authorityLeader>>
            /\ authorityKey' # None => authorityLeader' # None
            /\ loop' \notin Loop
        BY <2>1, <3>4, <4>1, TryAdoptKey
      <4>3. authorityKey = k => m.node = authorityLeader
        BY <2>1, <2>3 DEF HelloRefused, KeyInv, AuthorityIsLeader
      <4>. QED
        BY <2>1, <3>1, <3>2, <3>3, <3>4, <4>2, <4>3 DEF KeyInv, AuthorityIsLeader, TypeOK
    <3>5. CASE m.role # "leader" /\ Release(k) /\ loop' = None /\ UNCHANGED authorityLeader
      BY <2>1, <3>1, <3>3, <3>5 DEF KeyInv, AuthorityIsLeader, TypeOK, Release
    <3>. QED
      BY <1>7, <2>3, <3>4, <3>5 DEF OnHello
  <2>. QED
    BY <2>2, <2>3
<1>8. CASE OnHeartbeat
  <2> DEFINE k == loop.conn
             m == loop.msg
  <2>1. k \in Conns /\ m.epoch \in Nat /\ m.leader \in Nodes
    BY <1>8, AuthorityAssumption DEF TypeOK, OnHeartbeat, Loop, Adopted, IsHello, Control
  <2>2. conns[k] # None /\ conns[k].proto # None /\ ~conns[k].v1
    BY <1>8, <2>1 DEF TypeOK, OnHeartbeat, Adopted, KeyInv
  <2>3. CASE m.leader = conns[k].node /\ conns[k].role = "leader" /\ TryAdopt(k, m.epoch, m.leader)
    <3>1. /\ \/ authorityKey' = k /\ authorityLeader' = m.leader
             \/ UNCHANGED <<authorityKey, authorityLeader>>
          /\ authorityKey' # None => authorityLeader' # None
          /\ loop' \notin Loop /\ UNCHANGED conns
      BY <1>8, <2>1, <2>3, TryAdoptKey DEF OnHeartbeat
    <3>. QED
      BY <2>2, <2>3, <3>1 DEF KeyInv, AuthorityIsLeader
  <2>4. CASE loop' = None /\ UNCHANGED <<conns, authority>>
    BY <2>4 DEF KeyInv, AuthorityIsLeader
  <2>. QED
    BY <1>8, <2>3, <2>4 DEF OnHeartbeat
<1>9. CASE InvalidatePlan
  BY <1>9 DEF InvalidatePlan, KeyInv, AuthorityIsLeader
<1>. QED
  BY <1>1, <1>2, <1>3, <1>4, <1>5, <1>6, <1>7, <1>8, <1>9, QuietSteps DEF Next, LoopNext

\* The connection that holds the authority is open, agreed a version and is the
\* obeyed leader's (closed, opened, _hello, _try_adopt).
THEOREM KeyIsLeaders == Spec => []AuthorityIsLeader
<1>1. Init => KeyInv
  BY NoneIsNothing DEF Init, KeyInv, AuthorityIsLeader
<1>2. KeyInv => AuthorityIsLeader
  BY DEF KeyInv
<1>. QED
  BY <1>1, <1>2, KeyStep, Typed, PTL DEF Spec

----------------------------------------------------------------------------
(* What changes hands, and when.                                           *)

\* An epoch is adopted by a step that decides a message, under the conditions
\* of Adopts; every other step leaves the epoch and its leader alone.
Adoption ==
    /\ loop \in Loop /\ loop.at = "busy_read"
    /\ Adopts(epochSeen', authorityLeader')
    /\ epochSeen' \in Nat /\ authorityLeader' \in Nodes
    /\ loop' = Adopted /\ plan' = None /\ handover' = None
    /\ UNCHANGED <<current, executor>>

\* A hello or a heartbeat adopts its epoch, or leaves the authority as it was.
LEMMA TryAdoptEpoch ==
    ASSUME TypeOK, NEW k \in Conns, NEW e \in Nat, NEW n \in Nodes, TryAdopt(k, e, n),
           loop \in Loop, loop.at = "busy_read", UNCHANGED <<current, executor>>
    PROVE  \/ Adoption
           \/ UNCHANGED <<epochSeen, authorityLeader, handover, plan>> /\ loop' = None
<1>1. CASE Adopts(e, n)
  BY <1>1 DEF TryAdopt, Forget, Adoption
<1>2. CASE ~Adopts(e, n)
  BY <1>2 DEF TryAdopt
<1>. QED
  BY <1>1, <1>2

\* A message decided without an adoption.
Decision ==
    /\ loop \in Loop /\ loop' = None
    /\ UNCHANGED <<epochSeen, authorityLeader, handover, plan, current, executor>>

\* What the handlers of hellos and heartbeats decide is an adoption or a refusal.
LEMMA DecideSteps ==
    ASSUME TypeOK, OnHello \/ OnHeartbeat
    PROVE  Adoption \/ Decision
<1> DEFINE k == loop.conn
           m == loop.msg
<1> USE DEF authority, executor
<1>1. loop \in Loop /\ loop.at = "busy_read" /\ k \in Conns
  BY DEF TypeOK, OnHello, OnHeartbeat, Loop, Adopted
<1>2. UNCHANGED <<current, executor>>
  BY DEF OnHello, OnHeartbeat
<1>3. CASE OnHello
  <2>1. m.epoch \in Nat /\ m.node \in Nodes
    BY <1>3, AuthorityAssumption DEF OnHello, IsHello, Hello
  <2>2. CASE TryAdopt(k, m.epoch, m.node)
    BY <1>1, <1>2, <2>1, <2>2, TryAdoptEpoch DEF Decision
  <2>3. CASE loop' = None /\ UNCHANGED <<epochSeen, authorityLeader, handover, plan>>
    BY <1>1, <1>2, <2>3 DEF Decision
  <2>. QED
    BY <1>3, <2>2, <2>3 DEF OnHello
<1>4. CASE OnHeartbeat
  <2>1. m.epoch \in Nat /\ m.leader \in Nodes
    BY <1>1, <1>4, AuthorityAssumption DEF OnHeartbeat, IsHello, Control, Loop
  <2>2. CASE TryAdopt(k, m.epoch, m.leader)
    BY <1>1, <1>2, <2>1, <2>2, TryAdoptEpoch DEF Decision
  <2>3. CASE loop' = None /\ UNCHANGED <<authority, plan>>
    BY <1>1, <1>2, <2>3 DEF Decision
  <2>. QED
    BY <1>4, <2>2, <2>3 DEF OnHeartbeat
<1>. QED
  BY <1>3, <1>4

\* The steps that leave the epoch, what depends on it and the executor alone.
Aside == UNCHANGED <<epochSeen, authorityLeader, handover, plan, current, executor>>

\* Frames and connections outside a decision leave the epoch and its plan alone.
LEMMA AsideSteps ==
    ASSUME TypeOK,
           \/ \E k \in Conns :
                 \/ Opened(k) \/ Closed(k) \/ BeforeHello(k)
                 \/ \E m \in Hellos \cup Controls : Sample(k, m)
                 \/ \E m \in Commands : AcceptCommand(k, m) \/ RefuseCommand(k, m)
           \/ SampleBusy \/ UNCHANGED vars
    PROVE  Aside /\ (loop = Adopted <=> loop' = Adopted)
<1> USE NoneIsNothing DEF Aside, authority, executor, replies, vars
<1>1. ASSUME NEW k \in Conns, Opened(k) \/ Closed(k) \/ BeforeHello(k)
      PROVE  Aside /\ UNCHANGED loop
  BY <1>1 DEF Opened, Closed, BeforeHello
<1>2. ASSUME NEW k \in Conns, NEW m \in Hellos \cup Controls, Sample(k, m)
      PROVE  Aside /\ loop # Adopted /\ loop' # Adopted
  <2>1. loop' \in [at : {"busy_read", "flying_read"}, conn : Conns, msg : Hellos \cup Controls,
                   active : BOOLEAN, moved : BOOLEAN]
    BY <1>2 DEF Sample, TypeOK
  <2>. QED
    BY <1>2, <2>1 DEF Sample, Loop
<1>3. ASSUME NEW k \in Conns, NEW m \in Commands, AcceptCommand(k, m) \/ RefuseCommand(k, m)
      PROVE  Aside /\ UNCHANGED loop
  BY <1>3 DEF AcceptCommand, RefuseCommand
<1>4. CASE SampleBusy
  <2>1. loop \in Loop
    BY <1>4 DEF SampleBusy, TypeOK, Adopted
  <2>2. loop'.at = "busy_read"
    BY <1>4, <2>1 DEF SampleBusy, Loop
  <2>. QED
    BY <1>4, <2>1, <2>2 DEF SampleBusy, Adopted
<1>5. CASE UNCHANGED vars
  BY <1>5
<1>. QED
  BY <1>1, <1>2, <1>3, <1>4, <1>5

\* A plan and a handover are of the epoch obeyed; unless handovers in flight are
\* allowed, so is the command being dispatched, and an adoption whose post
\* action has not run saw none.
EpochInv ==
    /\ current # None => authorityLeader # None
    /\ flying \/ exec = "sequence" => authorityLeader # None
    /\ ~InflightHandover /\ Dispatching =>
          /\ current.epoch = epochSeen /\ current.leader = authorityLeader
          /\ loop # Adopted
    /\ NothingOutlivesItsEpoch

\* Every step keeps what is fenced with the epoch it belongs to.
LEMMA EpochStep == TypeOK /\ TypeOK' /\ EpochInv /\ [Next]_vars => EpochInv'
<1> SUFFICES ASSUME TypeOK, TypeOK', EpochInv, [Next]_vars PROVE EpochInv'
  OBVIOUS
<1> USE NoneIsNothing DEF authority, executor, replies, EpochInv, NothingOutlivesItsEpoch, Dispatching
<1>1. CASE Aside /\ (loop = Adopted <=> loop' = Adopted)
  BY <1>1 DEF Aside
<1>2. CASE Adoption
  <2>1. epochSeen' \in Nat /\ authorityLeader' \in Nodes /\ UNCHANGED <<current, executor>>
        /\ plan' = None /\ handover' = None /\ loop' = Adopted
    BY <1>2 DEF Adoption
  <2>2. ~InflightHandover => current = None
    BY <1>2 DEF Adoption, Adopts
  <2>. QED
    BY <2>1, <2>2
<1>3. CASE Decision
  BY <1>3 DEF Decision
<1>4. CASE InvalidatePlan
  BY <1>4 DEF InvalidatePlan
<1>5. CASE Landing
  BY <1>5 DEF Landing
<1>6. ASSUME NEW k \in Conns, NEW m \in Commands, HandoverCommand(k, m) PROVE EpochInv'
  <2>1. handover'.from = epochSeen
    BY <1>6 DEF HandoverCommand, Obeyed, Current
  <2>. QED
    BY <1>6, <2>1 DEF HandoverCommand
<1>7. CASE DispatchNothing
  <2>1. UNCHANGED <<conns, authority>> /\ (loop' = Adopted <=> loop = Adopted)
    BY <1>7, DispatchSteps DEF TypeOK
  <2>. QED
    BY <1>7, <2>1 DEF DispatchNothing
<1>8. ASSUME NEW m \in Commands, Offered(m), BeginDispatch(m, Stamp(m)) PROVE EpochInv'
  <2>1. UNCHANGED <<conns, authority>> /\ (loop' = Adopted <=> loop = Adopted)
    BY <1>8, DispatchSteps DEF TypeOK
  <2>2. m.epoch = epochSeen /\ m.leader = authorityLeader
    BY <1>8 DEF BeginDispatch, Stale, Stamp
  <2>3. m.leader \in Nodes
    BY AuthorityAssumption DEF Command
  <2>4. loop # Adopted
    BY <1>8, <2>2 DEF Offered
  <2>. QED
    BY <1>8, <2>1, <2>2, <2>3, <2>4 DEF BeginDispatch
<1>9. ASSUME NEW m \in Commands, Offered(m), DropAtDispatch(m, Stamp(m)) PROVE EpochInv'
  <2>1. UNCHANGED <<conns, authority>> /\ (loop' = Adopted <=> loop = Adopted)
    BY <1>9, DispatchSteps DEF TypeOK
  <2>. QED
    BY <1>9, <2>1 DEF DropAtDispatch
<1>10. CASE ExecStorePlan
  BY <1>10 DEF ExecStorePlan
<1>11. CASE ExecLaunch \/ ExecEndLinkHold
  BY <1>11 DEF ExecLaunch, ExecEndLinkHold
<1>12. CASE ExecTakeoff \/ ExecEnd \/ ExecLand \/ ExecLanded
  BY <1>12 DEF ExecTakeoff, ExecEnd, ExecLand, ExecLanded
<1>13. ASSUME NEW m \in Commands, NEW reply \in {"ack", "nack"}, Outcome(m, reply) PROVE EpochInv'
  <2>1. UNCHANGED <<conns, authority, current, loop, executor>>
    BY <1>13 DEF Outcome
  <2>2. UNCHANGED plan \/ plan'.epoch = epochSeen
    BY <1>13 DEF Outcome, AcksPlan
  <2>. QED
    BY <2>1, <2>2
<1>. QED
  <2>1. ASSUME OnHello \/ OnHeartbeat PROVE EpochInv'
    BY <1>2, <1>3, <2>1, DecideSteps
  <2>2. ASSUME \/ \E k \in Conns :
                     \/ Opened(k) \/ Closed(k) \/ BeforeHello(k)
                     \/ \E m \in Hellos \cup Controls : Sample(k, m)
                     \/ \E m \in Commands : AcceptCommand(k, m) \/ RefuseCommand(k, m)
               \/ SampleBusy \/ UNCHANGED vars
        PROVE  EpochInv'
    BY <1>1, <2>2, AsideSteps
  <2>. HIDE DEF EpochInv
  <2>. QED
    BY <1>4, <1>5, <1>6, <1>7, <1>8, <1>9, <1>10, <1>11, <1>12, <1>13, <2>1, <2>2
    DEF Next, LoopNext, ExecNext

\* The plan, the announced handover and the executor's valid plan are of the
\* epoch obeyed (_try_adopt, _complete_reply, invalidate_plan).
THEOREM EpochsStayApart == Spec => []NothingOutlivesItsEpoch
<1>1. Init => EpochInv
  BY NoneIsNothing DEF Init, EpochInv, NothingOutlivesItsEpoch, Dispatching
<1>2. EpochInv => NothingOutlivesItsEpoch
  BY DEF EpochInv
<1>. QED
  BY <1>1, <1>2, EpochStep, Typed, PTL DEF Spec

\* Every step adopts an epoch or leaves the epoch and its leader alone.
LEMMA EpochChanges ==
    ASSUME TypeOK, [Next]_vars
    PROVE  Adoption \/ UNCHANGED <<epochSeen, authorityLeader>>
<1> USE DEF authority, executor, replies
<1>1. ASSUME OnHello \/ OnHeartbeat PROVE Adoption \/ UNCHANGED <<epochSeen, authorityLeader>>
  BY <1>1, DecideSteps DEF Decision
<1>2. ASSUME \/ \E k \in Conns :
                   \/ Opened(k) \/ Closed(k) \/ BeforeHello(k)
                   \/ \E m \in Hellos \cup Controls : Sample(k, m)
                   \/ \E m \in Commands : AcceptCommand(k, m) \/ RefuseCommand(k, m)
             \/ SampleBusy \/ UNCHANGED vars
      PROVE  UNCHANGED <<epochSeen, authorityLeader>>
  BY <1>2, AsideSteps DEF Aside
<1>3. ASSUME \/ DispatchNothing
             \/ \E m \in Commands : Offered(m) /\ (BeginDispatch(m, Stamp(m)) \/ DropAtDispatch(m, Stamp(m)))
      PROVE  UNCHANGED <<epochSeen, authorityLeader>>
  BY <1>3, DispatchSteps
<1>4. ASSUME \/ ExecNext \/ Landing
             \/ \E k \in Conns, m \in Commands : HandoverCommand(k, m)
      PROVE  UNCHANGED <<epochSeen, authorityLeader>>
  BY <1>4, QuietSteps DEF Quiet
<1>5. CASE InvalidatePlan
  BY <1>5 DEF InvalidatePlan
<1>. QED
  BY <1>1, <1>2, <1>3, <1>4, <1>5 DEF Next, LoopNext

\* Epochs only grow, and each has one leader: the first to be adopted.
THEOREM FirstLeaderWins == Spec => OneLeaderPerEpoch
<1> DEFINE Grows == /\ epochSeen' >= epochSeen
                    /\ authorityLeader' # authorityLeader => epochSeen' > epochSeen
<1>1. ASSUME TypeOK, [Next]_vars PROVE Grows
  <2>1. CASE Adoption
    BY <1>1, <2>1 DEF Adoption, Adopts, TypeOK
  <2>2. CASE UNCHANGED <<epochSeen, authorityLeader>>
    BY <1>1, <2>2 DEF TypeOK
  <2>. QED
    BY <1>1, <2>1, <2>2, EpochChanges
<1>2. TypeOK /\ [Next]_vars => [Grows]_vars
  BY <1>1
<1>. QED
  BY <1>2, Typed, PTL DEF Spec, OneLeaderPerEpoch

\* A live connection loses the authority to another only with its epoch.
THEOREM NobodyStealsAuthority == Spec => NoStolenAuthority
<1> DEFINE Stolen == /\ authorityKey # None /\ authorityKey' # None
                     /\ authorityKey' # authorityKey
<1>1. ASSUME TypeOK, [Next]_vars, Stolen PROVE epochSeen' > epochSeen
  <2> USE DEF authority, executor, replies
  <2>1. ASSUME NEW k \in Conns, NEW e \in Nat, NEW n \in Nodes, TryAdopt(k, e, n)
        PROVE  epochSeen' > epochSeen
    <3>1. CASE Adopts(e, n)
      BY <2>1, <3>1 DEF TryAdopt, Adopts, TypeOK
    <3>2. CASE ~Adopts(e, n)
      BY <1>1, <2>1, <3>2 DEF TryAdopt, Rebinds
    <3>. QED
      BY <3>1, <3>2
  <2>2. ASSUME OnHello \/ OnHeartbeat
        PROVE  \E k \in Conns, e \in Nat, n \in Nodes : TryAdopt(k, e, n)
    <3> DEFINE k == loop.conn
               m == loop.msg
    <3>1. k \in Conns /\ m \in Hellos \cup Controls
      BY <1>1, <2>2 DEF TypeOK, OnHello, OnHeartbeat, Loop, Adopted
    <3>2. CASE OnHello
      <4>1. m.epoch \in Nat /\ m.node \in Nodes
        BY <3>2, AuthorityAssumption DEF OnHello, IsHello, Hello
      <4>2. authorityKey' # authorityKey /\ ~Release(k)
        BY <1>1 DEF Release
      <4>3. ~UNCHANGED <<conns, authority, plan>>
        BY <4>2
      <4>4. TryAdopt(k, m.epoch, m.node)
        BY <3>2, <4>2, <4>3 DEF OnHello
      <4>. QED
        BY <3>1, <4>1, <4>4
    <3>3. CASE OnHeartbeat
      <4>1. m.epoch \in Nat /\ m.leader \in Nodes
        BY <3>1, <3>3, AuthorityAssumption DEF OnHeartbeat, IsHello, Control
      <4>2. TryAdopt(k, m.epoch, m.leader)
        BY <1>1, <3>3 DEF OnHeartbeat
      <4>. QED
        BY <3>1, <4>1, <4>2
    <3>. QED
      BY <2>2, <3>2, <3>3
  <2>3. ~(ExecNext \/ Landing \/ UNCHANGED vars)
    BY <1>1, QuietSteps DEF Quiet
  <2>4. ~\E k \in Conns, m \in Commands :
            AcceptCommand(k, m) \/ HandoverCommand(k, m) \/ RefuseCommand(k, m)
    BY <1>1, QuietSteps DEF Quiet
  <2>5. ~\/ DispatchNothing
         \/ \E m \in Commands : Offered(m) /\ (BeginDispatch(m, Stamp(m)) \/ DropAtDispatch(m, Stamp(m)))
    BY <1>1, DispatchSteps
  <2>6. ~\E k \in Conns : \/ Opened(k) \/ Closed(k) \/ BeforeHello(k)
                          \/ \E m \in Hellos \cup Controls : Sample(k, m)
    BY <1>1 DEF Opened, Closed, Release, BeforeHello, Sample
  <2>7. ~SampleBusy /\ ~InvalidatePlan
    BY <1>1 DEF SampleBusy, InvalidatePlan
  <2>. QED
    BY <1>1, <2>1, <2>2, <2>3, <2>4, <2>5, <2>6, <2>7 DEF Next, LoopNext
<1>2. TypeOK /\ [Next]_vars => [Stolen => epochSeen' > epochSeen]_vars
  BY <1>1
<1>. QED
  BY <1>2, Typed, PTL DEF Spec, NoStolenAuthority

----------------------------------------------------------------------------
(* No drone changes hands while it flies.                                  *)

\* With atomic reads of is_active, a sample that saw nothing, with no dispatch
\* then or since, was taken of a drone that is still on the ground.
Grounded == ~flying /\ exec # "sequence"
ProbeInv ==
    AtomicProbe /\ loop \in Loop =>
        /\ loop.at = "busy_read"
        /\ ~loop.active /\ ~loop.moved /\ ~Dispatching => Grounded

\* Between an atomic probe and the decision it is for, nothing takes off.
LEMMA ProbeStep == TypeOK /\ TypeOK' /\ ProbeInv /\ [Next]_vars => ProbeInv'
<1> SUFFICES ASSUME TypeOK, TypeOK', ProbeInv, [Next]_vars, AtomicProbe, loop' \in Loop
             PROVE  /\ loop'.at = "busy_read"
                    /\ ~loop'.active /\ ~loop'.moved /\ ~Dispatching' => Grounded'
  BY DEF ProbeInv
<1> USE NoneIsNothing DEF authority, executor, replies, ProbeInv, Dispatching, Grounded
<1>1. CASE UNCHANGED <<loop, current, flying, exec>>
  BY <1>1
<1>2. ASSUME \/ Landing \/ UNCHANGED vars
             \/ \E k \in Conns :
                   \/ Opened(k) \/ Closed(k) \/ BeforeHello(k)
                   \/ \E m \in Commands :
                         AcceptCommand(k, m) \/ HandoverCommand(k, m) \/ RefuseCommand(k, m)
             \/ \E m \in Commands, reply \in {"ack", "nack"} : Outcome(m, reply)
      PROVE  UNCHANGED <<loop, current, flying, exec>>
  BY <1>2 DEF Landing, Opened, Closed, BeforeHello, AcceptCommand, HandoverCommand,
              RefuseCommand, Outcome, vars
<1>3. ASSUME NEW k \in Conns, NEW m \in Hellos \cup Controls, Sample(k, m)
      PROVE  loop'.at = "busy_read" /\ (~loop'.active => Grounded')
  <2>1. /\ loop'.at = "busy_read" /\ loop'.active = (flying \/ exec # "idle")
        /\ UNCHANGED <<flying, exec>>
    BY <1>3 DEF Sample
  <2>. QED
    BY <2>1 DEF TypeOK
<1>4. ~SampleBusy
  BY DEF SampleBusy, TypeOK, Adopted
<1>5. ~(OnHello \/ OnHeartbeat \/ InvalidatePlan)
  BY DecideSteps DEF Adoption, Decision, InvalidatePlan
<1>6. ASSUME \/ DispatchNothing
             \/ \E m \in Commands : Offered(m) /\ (BeginDispatch(m, Stamp(m)) \/ DropAtDispatch(m, Stamp(m)))
      PROVE  /\ loop'.at = "busy_read"
             /\ ~loop'.active /\ ~loop'.moved /\ ~Dispatching' => Grounded'
  <2>1. /\ loop \in Loop /\ loop'.at = loop.at /\ loop'.active = loop.active
        /\ loop'.moved = (loop.moved \/ Dispatching)
    BY <1>6, DispatchSteps
  <2>2. UNCHANGED <<flying, exec>>
    BY <1>6 DEF DispatchNothing, BeginDispatch, DropAtDispatch
  <2>. QED
    BY <2>1, <2>2
<1>7. ASSUME \/ ExecStorePlan \/ ExecLaunch \/ ExecEndLinkHold \/ ExecTakeoff \/ ExecEnd \/ ExecLand \/ ExecLanded
      PROVE  /\ loop'.at = "busy_read"
             /\ ~loop'.active /\ ~loop'.moved /\ ~Dispatching' => Grounded'
  BY <1>7 DEF ExecStorePlan, ExecLaunch, ExecEndLinkHold, ExecTakeoff, ExecEnd, ExecLand, ExecLanded
<1>. HIDE DEF ProbeInv, Grounded
<1>. QED
  BY <1>1, <1>2, <1>3, <1>4, <1>5, <1>6, <1>7 DEF Next, LoopNext, ExecNext

\* The invariant of the activity probe holds of every state.
LEMMA AlwaysProbed == Spec => []ProbeInv
<1>1. Init => ProbeInv
  BY NoneIsNothing DEF Init, ProbeInv
<1>. QED
  BY <1>1, ProbeStep, Typed, PTL DEF Spec

\* An adoption finds the drone on the ground, or is an announced handover.
LEMMA AdoptionGrounded ==
    ASSUME TypeOK, ProbeInv, AtomicProbe, Adoption
    PROVE  \/ ~Dispatching /\ Grounded
           \/ InflightHandover /\ Announced(epochSeen', authorityLeader')
<1>1. CASE Active \/ Dispatching
  BY <1>1 DEF Adoption, Adopts
<1>2. CASE ~(Active \/ Dispatching)
  BY <1>2 DEF Adoption, ProbeInv, Active
<1>. QED
  BY <1>1, <1>2

\* With atomic reads, an adoption whose post action has not run left the drone
\* where it was: on the ground, with no sequence.
AdoptedInv == AtomicProbe /\ ~InflightHandover /\ loop = Adopted => Grounded

\* Between an adoption and its post action nothing takes off either.
LEMMA AdoptedStep ==
    TypeOK /\ TypeOK' /\ EpochInv /\ ProbeInv /\ AdoptedInv /\ [Next]_vars => AdoptedInv'
<1> SUFFICES ASSUME TypeOK, TypeOK', EpochInv, ProbeInv, AdoptedInv, [Next]_vars,
                    AtomicProbe, ~InflightHandover, loop' = Adopted
             PROVE  Grounded'
  BY DEF AdoptedInv
<1> USE NoneIsNothing DEF authority, executor, replies, Grounded
<1>1. CASE loop = Adopted /\ UNCHANGED <<flying, exec>>
  BY <1>1 DEF AdoptedInv
<1>2. CASE Adoption
  BY <1>2, AdoptionGrounded DEF Adoption
<1>3. ASSUME OnHello \/ OnHeartbeat PROVE Adoption
  BY <1>3, DecideSteps DEF Decision
<1>4. ASSUME \/ \E k \in Conns :
                   \/ Opened(k) \/ Closed(k) \/ BeforeHello(k)
                   \/ \E m \in Hellos \cup Controls : Sample(k, m)
                   \/ \E m \in Commands : AcceptCommand(k, m) \/ RefuseCommand(k, m)
             \/ SampleBusy \/ UNCHANGED vars
      PROVE  loop = Adopted /\ UNCHANGED <<flying, exec>>
  BY <1>4, AsideSteps DEF Aside
<1>5. ~(InvalidatePlan \/ Landing)
  BY DEF InvalidatePlan, Landing
<1>6. ASSUME \/ DispatchNothing
             \/ \E m \in Commands : Offered(m) /\ (BeginDispatch(m, Stamp(m)) \/ DropAtDispatch(m, Stamp(m)))
      PROVE  loop = Adopted /\ UNCHANGED <<flying, exec>>
  <2>1. loop = Adopted
    BY <1>6, DispatchSteps
  <2>. QED
    BY <1>6, <2>1 DEF DispatchNothing, BeginDispatch, DropAtDispatch
<1>7. ASSUME NEW m \in Commands,
             \/ \E k \in Conns : HandoverCommand(k, m)
             \/ \E reply \in {"ack", "nack"} : Outcome(m, reply)
      PROVE  loop = Adopted /\ UNCHANGED <<flying, exec>>
  BY <1>7 DEF HandoverCommand, Outcome
<1>8. ASSUME \/ ExecStorePlan \/ ExecLaunch \/ ExecEndLinkHold \/ ExecTakeoff \/ ExecEnd \/ ExecLand
             \/ ExecLanded
      PROVE  Grounded'
  <2>1. loop = Adopted
    BY <1>8, QuietSteps DEF Quiet, ExecNext
  <2>2. Grounded /\ ~Dispatching
    BY <2>1 DEF AdoptedInv, EpochInv
  <2>. QED
    BY <1>8, <2>2 DEF ExecStorePlan, ExecLaunch, ExecEndLinkHold, ExecTakeoff, ExecEnd, ExecLand,
                      ExecLanded
<1>. HIDE DEF Grounded
<1>. QED
  BY <1>1, <1>2, <1>3, <1>4, <1>5, <1>6, <1>7, <1>8 DEF Next, LoopNext, ExecNext

\* A flight is launched by a command of the epoch obeyed, or continues a plan of it
\* after a link hold; with atomic reads that holds up to the post action too.
THEOREM LaunchedUnderAuthority == Spec => LaunchesUnderAuthority
<1> DEFINE Launch == ~InflightHandover /\ exec = "idle" /\ exec' = "sequence"
           Authorised == IF begun' # begun THEN Commanded ELSE Continued
<1>1. ASSUME TypeOK, EpochInv, AdoptedInv, [Next]_vars, Launch PROVE Authorised
  <2> USE DEF authority, executor, replies, Commanded, Continued
  <2>1. ExecLaunch \/ ExecStorePlan \/ ExecEndLinkHold
    <3>1. ~(OnHello \/ OnHeartbeat)
      BY <1>1, DecideSteps DEF Adoption, Decision
    <3>2. ~\/ \E k \in Conns :
                 \/ Opened(k) \/ Closed(k) \/ BeforeHello(k)
                 \/ \E m \in Hellos \cup Controls : Sample(k, m)
                 \/ \E m \in Commands : AcceptCommand(k, m) \/ RefuseCommand(k, m)
           \/ SampleBusy \/ UNCHANGED vars
      BY <1>1, AsideSteps DEF Aside
    <3>3. ~\/ InvalidatePlan \/ Landing \/ DispatchNothing
           \/ ExecTakeoff \/ ExecEnd \/ ExecLand \/ ExecLanded
      BY <1>1 DEF InvalidatePlan, Landing, DispatchNothing, ExecTakeoff, ExecEnd, ExecLand,
                  ExecLanded
    <3>4. ASSUME NEW m \in Commands
          PROVE  /\ ~BeginDispatch(m, Stamp(m)) /\ ~DropAtDispatch(m, Stamp(m))
                 /\ \A reply \in {"ack", "nack"} : ~Outcome(m, reply)
                 /\ \A k \in Conns : ~HandoverCommand(k, m)
      BY <1>1 DEF BeginDispatch, DropAtDispatch, Outcome, HandoverCommand
    <3>. QED
      BY <1>1, <3>1, <3>2, <3>3, <3>4 DEF Next, LoopNext, ExecNext
  <2>2. CASE ExecLaunch \/ ExecStorePlan
    <3>1. Dispatching /\ (current.type = "start_at" => execPlan # None)
      BY <2>2 DEF ExecLaunch, ExecStorePlan
    <3>2. begun' # begun
      BY <2>2 DEF ExecLaunch, ExecStorePlan
    <3>3. Commanded
      BY <1>1, <3>1 DEF EpochInv, NothingOutlivesItsEpoch
    <3>. QED
      BY <3>2, <3>3
  <2>3. CASE ExecEndLinkHold
    <3>1. flying /\ execPlan # None /\ begun' = begun
      BY <2>3 DEF ExecEndLinkHold
    <3>2. AtomicProbe => loop # Adopted
      BY <1>1, <3>1 DEF AdoptedInv, Grounded
    <3>. QED
      BY <1>1, <3>1, <3>2 DEF EpochInv, NothingOutlivesItsEpoch
  <2>. QED
    BY <2>1, <2>2, <2>3
<1>2. TypeOK /\ EpochInv /\ AdoptedInv /\ [Next]_vars => [Launch => Authorised]_vars
  BY <1>1
<1>3. Init => EpochInv
  BY NoneIsNothing DEF Init, EpochInv, NothingOutlivesItsEpoch, Dispatching
<1>4. Init => AdoptedInv
  BY NoneIsNothing DEF Init, AdoptedInv
<1>. QED
  BY <1>2, <1>3, <1>4, EpochStep, AlwaysProbed, AdoptedStep, Typed, PTL
  DEF Spec, LaunchesUnderAuthority

\* While is_active reads atomically, the epoch changes under a flying, starting
\* or commanded drone only by an announced handover in flight.
THEOREM AdoptedOnTheGround == AtomicProbe => (Spec => AdoptsOnlyGrounded)
<1> DEFINE Midair    == epochSeen' # epochSeen /\ (flying \/ exec = "sequence" \/ Dispatching)
           HandedOver == InflightHandover /\ Announced(epochSeen', authorityLeader')
<1> SUFFICES ASSUME AtomicProbe PROVE Spec => AdoptsOnlyGrounded
  OBVIOUS
<1>1. ASSUME TypeOK, ProbeInv, [Next]_vars, Midair PROVE HandedOver
  <2>1. Adoption
    BY <1>1, EpochChanges
  <2>. QED
    BY <1>1, <2>1, AdoptionGrounded DEF Grounded
<1>2. TypeOK /\ ProbeInv /\ [Next]_vars => [Midair => HandedOver]_vars
  BY <1>1
<1>. QED
  BY <1>2, AlwaysProbed, Typed, PTL DEF Spec, AdoptsOnlyGrounded

\* The epoch the flight under way belongs to.
pilot == IF flying \/ exec = "sequence" THEN epochSeen ELSE None

\* Every step is a step of FencedFlight, or changes nothing it sees.
LEMMA FlightStep ==
    ASSUME TypeOK, TypeOK', EpochInv, ProbeInv, AtomicProbe, [Next]_vars
    PROVE  [Flight!Next]_(Flight!vars)
<1> USE NoneIsNothing DEF authority, executor, replies
<1>1. CASE Adoption
  <2>1. epochSeen' \in Nat /\ epochSeen' > epochSeen /\ authorityLeader' \in Nodes
        /\ UNCHANGED <<flying, exec>>
    BY <1>1 DEF Adoption, Adopts
  <2>2. Grounded \/ InflightHandover
    BY <1>1, AdoptionGrounded
  <2>. QED
    BY <2>1, <2>2 DEF Flight!Next, Flight!Lead, Grounded
<1>2. CASE UNCHANGED <<epochSeen, authorityLeader, flying, exec>>
  BY <1>2 DEF Flight!vars
<1>3. ASSUME \/ ExecStorePlan \/ ExecLaunch \/ ExecEndLinkHold \/ ExecTakeoff \/ ExecEnd \/ ExecLand \/ ExecLanded
      PROVE  [Flight!Next]_(Flight!vars)
  <2>1. UNCHANGED <<epochSeen, authorityLeader>> /\ epochSeen \in Nat
    BY <1>3 DEF ExecStorePlan, ExecLaunch, ExecEndLinkHold, ExecTakeoff, ExecEnd, ExecLand, ExecLanded, TypeOK
  <2>2. pilot' # pilot => \/ authorityLeader # None /\ pilot = None /\ pilot' = epochSeen
                          \/ pilot # None /\ pilot' = None
    BY <1>3, <2>1 DEF ExecStorePlan, ExecLaunch, ExecEndLinkHold, ExecTakeoff, ExecEnd, ExecLand, ExecLanded,
                      TypeOK, EpochInv, Dispatching, pilot
  <2>. QED
    BY <2>1, <2>2 DEF Flight!Next, Flight!Fly, Flight!Land, Flight!vars, pilot
<1>4. ASSUME OnHello \/ OnHeartbeat
      PROVE  Adoption \/ UNCHANGED <<epochSeen, authorityLeader, flying, exec>>
  BY <1>4, DecideSteps DEF Decision
<1>5. ASSUME \/ \E k \in Conns :
                   \/ Opened(k) \/ Closed(k) \/ BeforeHello(k)
                   \/ \E m \in Hellos \cup Controls : Sample(k, m)
                   \/ \E m \in Commands : AcceptCommand(k, m) \/ RefuseCommand(k, m)
             \/ SampleBusy \/ UNCHANGED vars
      PROVE  UNCHANGED <<epochSeen, authorityLeader, flying, exec>>
  BY <1>5, AsideSteps DEF Aside
<1>6. CASE InvalidatePlan \/ Landing \/ DispatchNothing
  BY <1>2, <1>6 DEF InvalidatePlan, Landing, DispatchNothing
<1>7. ASSUME NEW m \in Commands,
             \/ \E k \in Conns : HandoverCommand(k, m)
             \/ BeginDispatch(m, Stamp(m)) \/ DropAtDispatch(m, Stamp(m))
             \/ \E reply \in {"ack", "nack"} : Outcome(m, reply)
      PROVE  UNCHANGED <<epochSeen, authorityLeader, flying, exec>>
  BY <1>7 DEF HandoverCommand, BeginDispatch, DropAtDispatch, Outcome
<1>. QED
  BY <1>1, <1>2, <1>3, <1>4, <1>5, <1>6, <1>7 DEF Next, LoopNext, ExecNext

\* The authority implements FencedFlight: a flight begins under a leader, stays
\* with its epoch, and passes to the next leader only as FencedFlight allows.
THEOREM AuthorityImplementsFencedFlight == AtomicProbe => (Spec => ImplementsFencedFlight)
<1> SUFFICES ASSUME AtomicProbe PROVE Spec => ImplementsFencedFlight
  OBVIOUS
<1>1. Init => EpochInv
  BY NoneIsNothing DEF Init, EpochInv, NothingOutlivesItsEpoch, Dispatching
<1>2. Init => Flight!Init
  BY DEF Init, Flight!Init
<1>3. TypeOK /\ TypeOK' /\ EpochInv /\ ProbeInv /\ [Next]_vars => [Flight!Next]_(Flight!vars)
  BY FlightStep
<1>. QED
  BY <1>1, <1>2, <1>3, EpochStep, AlwaysProbed, Typed, PTL
  DEF Spec, ImplementsFencedFlight, Flight!Spec
=============================================================================
