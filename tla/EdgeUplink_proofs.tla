-------------------------- MODULE EdgeUplink_proofs --------------------------
(***************************************************************************)
(* Theorems about EdgeUplink: its queue makes every step a step of         *)
(* EdgeAuthority, and while cmd_ids are remembered no command is handed    *)
(* out twice and none that an emergency landing discarded.                 *)
(***************************************************************************)
EXTENDS EdgeUplink, EdgeAuthority_proofs, FiniteSetTheorems, SetInduction

\* A queued command carries its own fence as its stamp; the fence is no newer than
\* the authority, and older while an adoption has yet to invalidate the plan.
Fenced(x, epoch, at) ==
    x.kind = "command" =>
        /\ x.msg \in Commands /\ x.admitted = Stamp(x.msg)
        /\ x.msg.epoch <= epoch
        /\ at = Adopted => x.msg.epoch < epoch

FenceInv ==
    /\ \A i \in DOMAIN inbox : Fenced(inbox[i], epochSeen, loop)
    /\ held # None => Fenced(held, epochSeen, loop)

UplinkInv == UplinkTypeOK /\ FenceInv

\* The cache knows every cmd_id once.
CacheInv == \A i, j \in DOMAIN cache : cache[i].cmd = cache[j].cmd => i = j

Carries(x, c) == x.kind = "command" /\ x.msg.cmd = c

\* A cmd_id is cached from its acceptance on, waits in one place, and is handed
\* out only from there.
OnceInv ==
    \A c \in CmdIds :
        /\ handed[c] <= 1
        /\ handed[c] = 1 \/ c \in condemned => Cached(c)
        /\ c \in condemned => handed[c] = 0
        /\ held # None /\ Carries(held, c) => Cached(c) /\ handed[c] = 0 /\ c \notin condemned
        /\ \A i \in DOMAIN inbox : Carries(inbox[i], c) =>
              /\ Cached(c) /\ handed[c] = 0 /\ c \notin condemned
              /\ held # None => ~Carries(held, c)
              /\ \A j \in DOMAIN inbox : Carries(inbox[j], c) => i = j

----------------------------------------------------------------------------
(* What an emergency landing leaves of the inbox.                          *)

\* One item more: it stays unless the landing supersedes it.
StayingStep(f, n) ==
    IF n = 0 THEN <<>>
    ELSE IF IsSuperseded(inbox[n]) THEN f[n - 1] ELSE Append(f[n - 1], inbox[n])

\* The recursion defines a function.
LEMMA StayingExists ==
    ASSUME inbox \in Seq(Item)
    PROVE  \E f : f = [n \in 0..Len(inbox) |-> StayingStep(f, n)]
<1> DEFINE N == Len(inbox)
           S == {m \in 0..N : \E f \in [0..m -> Seq(Item)] : \A n \in 0..m : f[n] = StayingStep(f, n)}
<1>1. N \in Nat
  BY LenProperties
<1>2. 0 \in S
  <2> DEFINE f == [n \in 0..0 |-> <<>>]
  <2>1. f \in [0..0 -> Seq(Item)]
    BY EmptySeq
  <2>2. ASSUME NEW n \in 0..0 PROVE f[n] = StayingStep(f, n)
    <3>1. n = 0 /\ f[0] = <<>>
      OBVIOUS
    <3>. QED
      BY <3>1, Zenon DEF StayingStep
  <2>3. \E f_ \in [0..0 -> Seq(Item)] : \A n \in 0..0 : f_[n] = StayingStep(f_, n)
    BY <2>1, <2>2
  <2>. QED
    BY <1>1, <2>3
<1>3. ASSUME NEW m \in 0..N, m \in S, m < N PROVE m + 1 \in S
  <2>1. PICK f \in [0..m -> Seq(Item)] : \A n \in 0..m : f[n] = StayingStep(f, n)
    BY <1>3
  <2>2. m + 1 \in 1..Len(inbox) /\ inbox[m + 1] \in Item
    BY <1>3, ElementOfSeq
  <2> DEFINE e == IF IsSuperseded(inbox[m + 1]) THEN f[m] ELSE Append(f[m], inbox[m + 1])
             g == [n \in 0..(m + 1) |-> IF n = m + 1 THEN e ELSE f[n]]
  <2>3. e \in Seq(Item)
    BY <2>2, AppendProperties
  <2>4. g \in [0..(m + 1) -> Seq(Item)]
    BY <2>3
  <2>5. ASSUME NEW n \in 0..(m + 1) PROVE g[n] = StayingStep(g, n)
    <3>1. CASE n = m + 1
      BY <3>1 DEF StayingStep
    <3>2. CASE n # m + 1
      <4>1. n \in 0..m /\ (n # 0 => n - 1 \in 0..m)
        BY <3>2
      <4>2. g[n] = f[n] /\ (n # 0 => g[n - 1] = f[n - 1])
        BY <4>1
      <4> HIDE DEF g
      <4>. QED
        BY <4>1, <4>2, <2>1 DEF StayingStep
    <3>. QED
      BY <3>1, <3>2
  <2> HIDE DEF g
  <2>. QED
    BY <2>4, <2>5, <2>2
<1> HIDE DEF S
<1>4. N \in S
  <2>1. \A n \in 0..N : n \in S
    BY <1>1, <1>2, <1>3, UpTo
  <2>. QED
    BY <1>1, <2>1
<1>5. PICK f \in [0..N -> Seq(Item)] : \A n \in 0..N : f[n] = StayingStep(f, n)
  BY <1>4 DEF S
<1>6. f = [n \in 0..N |-> StayingStep(f, n)]
  BY <1>5
<1>. QED
  BY <1>6

\* Staying is that function.
LEMMA StayingDef ==
    ASSUME inbox \in Seq(Item)
    PROVE  Staying = [n \in 0..Len(inbox) |-> StayingStep(Staying, n)]
<1>1. PICK f : f = [n \in 0..Len(inbox) |-> StayingStep(f, n)]
  BY StayingExists
<1> DEFINE P(f_) == f_ = [n \in 0..Len(inbox) |-> StayingStep(f_, n)]
<1>2. Staying = CHOOSE f_ : P(f_)
  BY Zenon DEF Staying, StayingStep
<1>. QED
  BY <1>1, <1>2, Zenon

\* s is some of the first n items of the inbox, each once and none superseded.
TakenBy(g, s, n) ==
    /\ g \in [1..Len(s) -> 1..n]
    /\ \A j \in 1..Len(s) : s[j] = inbox[g[j]] /\ ~IsSuperseded(inbox[g[j]])
    /\ \A i, j \in 1..Len(s) : g[i] = g[j] => i = j

\* What stays is a part of the inbox with nothing that is superseded.
LEMMA StayingIsTaken ==
    ASSUME inbox \in Seq(Item)
    PROVE  /\ Staying[Len(inbox)] \in Seq(Item)
           /\ \E g : TakenBy(g, Staying[Len(inbox)], Len(inbox))
<1> DEFINE N == Len(inbox)
           S == {n \in 0..N : Staying[n] \in Seq(Item) /\ \E g : TakenBy(g, Staying[n], n)}
<1>1. N \in Nat
  BY LenProperties
<1>2. \A n \in 0..N : Staying[n] = StayingStep(Staying, n)
  BY StayingDef, Zenon
<1>3. 0 \in S
  <2>1. Staying[0] = <<>>
    BY <1>1, <1>2 DEF StayingStep
  <2>2. <<>> \in Seq(Item) /\ Len(<<>>) = 0
    BY EmptySeq
  <2> DEFINE g == [j \in 1..0 |-> 0]
  <2>3. TakenBy(g, <<>>, 0)
    <3>1. g \in [1..Len(<<>>) -> 1..0]
      BY <2>2
    <3>2. 1..Len(<<>>) = {}
      BY <2>2
    <3>. QED
      BY <3>1, <3>2 DEF TakenBy
  <2> HIDE DEF g
  <2>4. Staying[0] \in Seq(Item) /\ \E g_ : TakenBy(g_, Staying[0], 0)
    BY <2>1, <2>2, <2>3
  <2>. QED
    BY <1>1, <2>4
<1>4. ASSUME NEW n \in 0..N, n \in S, n < N PROVE n + 1 \in S
  <2> DEFINE s == Staying[n]
             x == inbox[n + 1]
             t == Staying[n + 1]
  <2>1. s \in Seq(Item)
    BY <1>4
  <2>2. n \in Nat /\ n + 1 \in 1..N /\ n + 1 \in 0..N /\ x \in Item
    BY <1>1, <1>4, ElementOfSeq
  <2>3. t = IF IsSuperseded(x) THEN s ELSE Append(s, x)
    BY <1>2, <2>2 DEF StayingStep
  <2>4. PICK g : TakenBy(g, s, n)
    BY <1>4
  <2> HIDE DEF s, t, x
  <2>5. CASE IsSuperseded(x)
    <3>1. g \in [1..Len(s) -> 1..(n + 1)]
      BY <2>2, <2>4 DEF TakenBy
    <3>2. TakenBy(g, s, n + 1)
      BY <2>4, <3>1 DEF TakenBy
    <3>3. Staying[n + 1] \in Seq(Item) /\ \E g_ : TakenBy(g_, Staying[n + 1], n + 1)
      BY <2>1, <2>3, <2>5, <3>2 DEF t
    <3>. QED
      BY <2>2, <3>3
  <2>6. CASE ~IsSuperseded(x)
    <3>1. t \in Seq(Item) /\ Len(t) = Len(s) + 1 /\ Len(s) \in Nat /\ t[Len(t)] = x
           /\ \A j \in 1..Len(s) : t[j] = s[j]
      BY <2>1, <2>2, <2>3, <2>6, AppendProperties, LenProperties
    <3> DEFINE h == [j \in 1..Len(t) |-> IF j = Len(t) THEN n + 1 ELSE g[j]]
    <3>2. h \in [1..Len(t) -> 1..(n + 1)]
      BY <2>2, <2>4, <3>1 DEF TakenBy
    <3>3. \A j \in 1..Len(t) : t[j] = inbox[h[j]] /\ ~IsSuperseded(inbox[h[j]])
      BY <2>4, <2>6, <3>1 DEF TakenBy, x
    <3>4. ASSUME NEW i \in 1..Len(t), NEW j \in 1..Len(t), h[i] = h[j] PROVE i = j
      <4>1. \A k \in 1..Len(s) : g[k] \in 1..n /\ g[k] # n + 1
        BY <2>2, <2>4 DEF TakenBy
      <4>2. \A k \in 1..Len(t) : k = Len(t) \/ k \in 1..Len(s)
        BY <3>1
      <4>. QED
        BY <2>4, <3>4, <4>1, <4>2 DEF TakenBy
    <3> HIDE DEF h
    <3>5. TakenBy(h, t, n + 1)
      BY <3>2, <3>3, <3>4 DEF TakenBy
    <3>. QED
      BY <2>2, <3>1, <3>5 DEF t
  <2>. QED
    BY <2>5, <2>6
<1> HIDE DEF S
<1>5. N \in S
  <2>1. \A n \in 0..N : n \in S
    BY <1>1, <1>3, <1>4, UpTo
  <2>. QED
    BY <1>1, <2>1
<1>. QED
  BY <1>5 DEF S

\* What an emergency landing leaves: itself, then a part of what was waiting.
LEMMA Jumped ==
    ASSUME inbox \in Seq(Item)
    PROVE  /\ JumpQueue \in Seq(Item)
           /\ \E g \in [2..Len(JumpQueue) -> 1..Len(inbox)] :
                 /\ \A j \in 2..Len(JumpQueue) : /\ JumpQueue[j] = inbox[g[j]]
                                                /\ ~IsSuperseded(inbox[g[j]])
                 /\ \A i, j \in 2..Len(JumpQueue) : g[i] = g[j] => i = j
           /\ JumpQueue[1] = Landed("emergency_land_all")
<1> DEFINE s == Staying[Len(inbox)]
           l == Landed("emergency_land_all")
<1>1. s \in Seq(Item) /\ \E g : TakenBy(g, s, Len(inbox))
  BY StayingIsTaken
<1>2. l \in Item
  BY DEF Landed, Item
<1>3. JumpQueue = <<l>> \o s
  BY DEF JumpQueue
<1> HIDE DEF s, l
<1>4. /\ JumpQueue \in Seq(Item) /\ Len(s) \in Nat /\ Len(JumpQueue) = Len(s) + 1
      /\ JumpQueue[1] = l
      /\ \A j \in 2..Len(JumpQueue) : JumpQueue[j] = s[j - 1]
  <2>1. <<l>> \in Seq(Item) /\ Len(<<l>>) = 1 /\ Len(s) \in Nat
    BY <1>1, <1>2, LenProperties
  <2>2. JumpQueue \in Seq(Item) /\ Len(JumpQueue) = 1 + Len(s)
    BY <1>1, <1>3, <2>1, ConcatProperties
  <2>3. \A j \in 1..(1 + Len(s)) : JumpQueue[j] = IF j <= 1 THEN <<l>>[j] ELSE s[j - 1]
    BY <1>1, <1>3, <2>1, ConcatProperties
  <2>. QED
    BY <2>1, <2>2, <2>3
<1>5. PICK f : TakenBy(f, s, Len(inbox))
  BY <1>1
<1> DEFINE g == [j \in 2..Len(JumpQueue) |-> f[j - 1]]
<1>6. \A j \in 2..Len(JumpQueue) : j - 1 \in 1..Len(s) /\ g[j] = f[j - 1]
  BY <1>4
<1>7. g \in [2..Len(JumpQueue) -> 1..Len(inbox)]
  BY <1>5, <1>6 DEF TakenBy
<1>8. \A j \in 2..Len(JumpQueue) : JumpQueue[j] = inbox[g[j]] /\ ~IsSuperseded(inbox[g[j]])
  BY <1>4, <1>5, <1>6 DEF TakenBy
<1>9. \A i, j \in 2..Len(JumpQueue) : g[i] = g[j] => i = j
  BY <1>5, <1>6 DEF TakenBy
<1> HIDE DEF g
<1>. QED
  BY <1>4, <1>7, <1>8, <1>9 DEF l

----------------------------------------------------------------------------
(* Every step of the uplink is a step of the authority.                    *)

\* The epoch only grows, and an adoption whose post action waits has raised it.
LEMMA EpochGrows ==
    ASSUME TypeOK, [Next]_vars
    PROVE  /\ epochSeen' >= epochSeen
           /\ loop' = Adopted => loop = Adopted \/ epochSeen' > epochSeen
<1> USE NoneIsNothing
<1>1. CASE Adoption
  BY <1>1 DEF Adoption, Adopts, TypeOK
<1>2. ASSUME ~Adoption PROVE /\ epochSeen' >= epochSeen
                             /\ loop' = Adopted => loop = Adopted
  <2>1. epochSeen' = epochSeen
    BY <1>2, EpochChanges
  <2>2. ASSUME OnHello \/ OnHeartbeat PROVE loop' # Adopted
    BY <1>2, <2>2, DecideSteps DEF Decision
  <2>3. ASSUME \/ \E k \in Conns :
                     \/ Opened(k) \/ Closed(k) \/ BeforeHello(k)
                     \/ \E m \in Hellos \cup Controls : Sample(k, m)
                     \/ \E m \in Commands : AcceptCommand(k, m) \/ RefuseCommand(k, m)
               \/ SampleBusy \/ UNCHANGED vars
        PROVE  loop' = Adopted => loop = Adopted
    BY <2>3, AsideSteps
  <2>4. ASSUME \/ DispatchNothing
               \/ \E m \in Commands : Offered(m) /\ (BeginDispatch(m, Stamp(m)) \/ DropAtDispatch(m, Stamp(m)))
        PROVE  loop' = Adopted => loop = Adopted
    BY <2>4, DispatchSteps
  <2>5. ASSUME \/ ExecNext \/ Landing
               \/ \E k \in Conns, m \in Commands : HandoverCommand(k, m)
        PROVE  UNCHANGED loop
    BY <2>5, QuietSteps DEF Quiet
  <2>6. CASE InvalidatePlan
    BY <2>1, <2>6 DEF InvalidatePlan, TypeOK
  <2>7. loop' = Adopted => loop = Adopted
    BY <2>2, <2>3, <2>4, <2>5, <2>6 DEF Next, LoopNext
  <2>. QED
    BY <2>1, <2>7 DEF TypeOK
<1>. QED
  BY <1>1, <1>2

\* The refinement of one step: what is handed out is what the authority's
\* environment offers, a command under its own fence.
LEMMA UplinkStepIsAuthority ==
    ASSUME UplinkInv, [UplinkNext]_uplinkVars
    PROVE  [Next]_vars
<1> USE DEF uplink, history
<1>1. CASE UNCHANGED uplinkVars
  BY <1>1 DEF uplinkVars
<1>2. ASSUME NEW k \in Conns, LinkOpened(k) \/ LinkClosed(k) \/ FrameBeforeHello(k) PROVE Next
  BY <1>2 DEF LinkOpened, LinkClosed, FrameBeforeHello, Next, LoopNext
<1>3. ASSUME NEW k \in Conns, NEW m \in Hellos \cup Controls, SampleFrame(k, m) PROVE Next
  BY <1>3 DEF SampleFrame, Next, LoopNext
<1>4. ASSUME NEW k \in Conns, NEW m \in Commands, CommandFrame(k, m) PROVE Next
  BY <1>4 DEF CommandFrame, Next, LoopNext
<1>5. CASE DecideHello \/ FinishFrame \/ LandFrame \/ EmergencyFrame
  BY <1>5 DEF DecideHello, FinishFrame, LandFrame, EmergencyFrame, Next, LoopNext
<1>6. CASE RecvBegins
  BY <1>6 DEF RecvBegins, Next
<1>7. CASE RecvTakes
  BY <1>7 DEF RecvTakes
<1>8. CASE HandOutCommand
  <2>1. held.msg \in Commands /\ held.admitted = Stamp(held.msg)
    BY <1>8 DEF HandOutCommand, UplinkInv, FenceInv, Fenced
  <2>2. Offered(held.msg)
    <3>1. held.msg.epoch \in Nat /\ epochSeen \in Nat
      BY <2>1, AuthorityAssumption DEF Command, UplinkInv, UplinkTypeOK, TypeOK
    <3>. QED
      BY <1>8, <3>1 DEF HandOutCommand, UplinkInv, FenceInv, Fenced, Offered
  <2>3. BeginDispatch(held.msg, Stamp(held.msg)) \/ DropAtDispatch(held.msg, Stamp(held.msg))
    BY <1>8, <2>1 DEF HandOutCommand
  <2>. QED
    BY <2>1, <2>2, <2>3 DEF Next
<1>9. CASE HandOutLanding
  BY <1>9 DEF HandOutLanding, Next, ExecNext
<1>10. CASE ExecutorStep
  BY <1>10 DEF ExecutorStep, Next
<1>. QED
  BY <1>1, <1>2, <1>3, <1>4, <1>5, <1>6, <1>7, <1>8, <1>9, <1>10 DEF UplinkNext

\* A command that is accepted carries the authority as its fence.
LEMMA AcceptedIsFenced ==
    ASSUME UplinkTypeOK, NEW k \in Conns, NEW m \in Commands, AcceptCommand(k, m),
           NEW x, x = [kind |-> "command", msg |-> m, admitted |-> Admitted]
    PROVE  x \in Item /\ Fenced(x, epochSeen', loop')
<1>1. m.epoch = epochSeen /\ m.leader = authorityLeader /\ loop = None
  BY DEF AcceptCommand, NewCommand, Accepted, Obeyed, Current
<1>2. UNCHANGED <<epochSeen, authorityLeader, loop>> /\ epochSeen \in Nat
      /\ authorityLeader \in Nodes \cup {None}
  BY DEF AcceptCommand, authority, UplinkTypeOK, TypeOK
<1>3. x \in Item
  BY <1>2 DEF Item, Admitted
<1>4. x.msg = m /\ x.admitted = Stamp(m)
  BY <1>1 DEF Admitted, Stamp
<1>. QED
  BY <1>1, <1>2, <1>3, <1>4, NoneIsNothing DEF Fenced

\* A fence that held before a step holds after it.
LEMMA FenceStays ==
    ASSUME TypeOK, TypeOK', [Next]_vars, NEW x, Fenced(x, epochSeen, loop)
    PROVE  Fenced(x, epochSeen', loop')
<1> SUFFICES ASSUME x.kind = "command"
             PROVE  /\ x.msg \in Commands /\ x.admitted = Stamp(x.msg)
                    /\ x.msg.epoch <= epochSeen'
                    /\ loop' = Adopted => x.msg.epoch < epochSeen'
  BY DEF Fenced
<1>1. x.msg \in Commands /\ x.msg.epoch \in Nat /\ epochSeen \in Nat /\ epochSeen' \in Nat
  BY AuthorityAssumption DEF Fenced, Command, TypeOK
<1>. QED
  BY <1>1, EpochGrows DEF Fenced

\* How the steps write the inbox and the item recv has taken.
QueueSame == UNCHANGED <<inbox, held>>
Enqueues(x) == inbox' = Append(inbox, x) /\ UNCHANGED held
Takes == inbox # <<>> /\ held = None /\ held' = Head(inbox) /\ inbox' = Tail(inbox)
HandsOut == UNCHANGED inbox /\ held # None /\ held' = None

\* What a step of the uplink does with its queue.
LEMMA QueueWrites ==
    ASSUME UplinkTypeOK, [UplinkNext]_uplinkVars
    PROVE  \/ QueueSame \/ Takes \/ HandsOut
           \/ EmergencyFrame
           \/ \E x \in Item : Enqueues(x) /\ Fenced(x, epochSeen', loop')
<1> USE DEF uplink, history
<1>1. CASE UNCHANGED uplinkVars
  BY <1>1 DEF uplinkVars, QueueSame
<1>2. ASSUME NEW k \in Conns, LinkOpened(k) \/ LinkClosed(k) \/ FrameBeforeHello(k) PROVE QueueSame
  BY <1>2 DEF LinkOpened, LinkClosed, FrameBeforeHello, QueueSame
<1>3. ASSUME NEW k \in Conns, NEW m \in Hellos \cup Controls, SampleFrame(k, m) PROVE QueueSame
  BY <1>3 DEF SampleFrame, QueueSame
<1>4. ASSUME NEW k \in Conns, NEW m \in Commands, CommandFrame(k, m)
      PROVE  QueueSame \/ \E x \in Item : Enqueues(x) /\ Fenced(x, epochSeen', loop')
  BY <1>4, AcceptedIsFenced DEF CommandFrame, QueueSame, Enqueues
<1>5. CASE DecideHello \/ FinishFrame \/ RecvBegins \/ ExecutorStep
  BY <1>5 DEF DecideHello, FinishFrame, RecvBegins, ExecutorStep, QueueSame
<1>6. CASE LandFrame
  <2>1. Landed("land") \in Item /\ Fenced(Landed("land"), epochSeen', loop')
    BY DEF Landed, Item, Fenced
  <2>. QED
    BY <1>6, <2>1 DEF LandFrame, Enqueues
<1>7. CASE RecvTakes
  BY <1>7 DEF RecvTakes, Takes
<1>8. CASE HandOutCommand \/ HandOutLanding
  BY <1>8 DEF HandOutCommand, HandOutLanding, HandsOut
<1>. QED
  BY <1>1, <1>2, <1>3, <1>4, <1>5, <1>6, <1>7, <1>8 DEF UplinkNext

\* Every item of the inbox is an item.
LEMMA InboxItems ==
    ASSUME UplinkTypeOK
    PROVE  \A i \in DOMAIN inbox : inbox[i] \in Item
BY ElementOfSeq, LenProperties DEF UplinkTypeOK

\* The queue stays typed and every queued command keeps a fence that held.
LEMMA QueueStep ==
    ASSUME UplinkInv, TypeOK', [UplinkNext]_uplinkVars
    PROVE  /\ inbox' \in Seq(Item) /\ held' \in Item \cup {None}
           /\ FenceInv'
<1>1. UplinkTypeOK /\ FenceInv /\ TypeOK /\ [Next]_vars
  BY UplinkStepIsAuthority DEF UplinkInv, UplinkTypeOK
<1>2. \A x : Fenced(x, epochSeen, loop) => Fenced(x, epochSeen', loop')
  BY <1>1, FenceStays
<1>3. inbox \in Seq(Item) /\ held \in Item \cup {None} /\ Len(inbox) \in Nat
      /\ DOMAIN inbox = 1..Len(inbox) /\ \A i \in DOMAIN inbox : inbox[i] \in Item
  BY <1>1, LenProperties, InboxItems DEF UplinkTypeOK
<1>4. CASE QueueSame \/ HandsOut
  BY <1>1, <1>2, <1>3, <1>4 DEF QueueSame, HandsOut, FenceInv
<1>5. CASE Takes
  <2>1. Head(inbox) \in Item /\ Tail(inbox) \in Seq(Item) /\ Len(Tail(inbox)) = Len(inbox) - 1
        /\ \A i \in 1..Len(Tail(inbox)) : Tail(inbox)[i] = inbox[i + 1]
    BY <1>3, <1>5, HeadTailProperties DEF Takes
  <2>2. DOMAIN Tail(inbox) = 1..Len(Tail(inbox)) /\ Len(inbox) >= 1 /\ Head(inbox) = inbox[1]
    BY <1>3, <1>5, <2>1, LenProperties, EmptySeq DEF Takes
  <2>3. \A i \in DOMAIN inbox : Fenced(inbox[i], epochSeen', loop')
    BY <1>1, <1>2 DEF FenceInv
  <2>4. /\ Fenced(inbox[1], epochSeen', loop')
        /\ \A i \in 1..Len(Tail(inbox)) : Fenced(inbox[i + 1], epochSeen', loop')
    BY <1>3, <2>1, <2>2, <2>3
  <2>5. /\ Fenced(Head(inbox), epochSeen', loop')
        /\ \A i \in DOMAIN Tail(inbox) : Fenced(Tail(inbox)[i], epochSeen', loop')
    BY <2>1, <2>2, <2>4
  <2>. QED
    BY <1>5, <2>1, <2>5 DEF Takes, FenceInv
<1>6. ASSUME NEW x \in Item, Enqueues(x), Fenced(x, epochSeen', loop')
      PROVE  /\ inbox' \in Seq(Item) /\ held' \in Item \cup {None} /\ FenceInv'
  <2>1. inbox' \in Seq(Item) /\ Len(inbox') = Len(inbox) + 1 /\ inbox'[Len(inbox')] = x
        /\ \A i \in 1..Len(inbox) : inbox'[i] = inbox[i]
    BY <1>3, <1>6, AppendProperties DEF Enqueues
  <2>2. DOMAIN inbox' = 1..Len(inbox')
    BY <2>1, LenProperties
  <2>3. \A i \in DOMAIN inbox' : Fenced(inbox'[i], epochSeen', loop')
    BY <1>1, <1>2, <1>3, <1>6, <2>1, <2>2 DEF FenceInv
  <2>. QED
    BY <1>1, <1>2, <1>3, <1>6, <2>1, <2>3 DEF Enqueues, FenceInv
<1>7. CASE EmergencyFrame
  <2>1. inbox' = JumpQueue /\ UNCHANGED held
    BY <1>7 DEF EmergencyFrame
  <2>2. /\ JumpQueue \in Seq(Item) /\ JumpQueue[1] = Landed("emergency_land_all")
        /\ \A j \in 2..Len(JumpQueue) : \E i \in 1..Len(inbox) : JumpQueue[j] = inbox[i]
    BY <1>3, Jumped
  <2>3. DOMAIN inbox' = 1..Len(JumpQueue) /\ Len(JumpQueue) \in Nat
    BY <2>1, <2>2, LenProperties
  <2>4. Fenced(JumpQueue[1], epochSeen', loop')
    BY <2>2 DEF Fenced, Landed
  <2>5. ASSUME NEW j \in 1..Len(JumpQueue), j # 1 PROVE Fenced(JumpQueue[j], epochSeen', loop')
    <3>1. j \in 2..Len(JumpQueue)
      BY <2>3, <2>5
    <3>2. PICK i \in 1..Len(inbox) : JumpQueue[j] = inbox[i]
      BY <2>2, <3>1
    <3>. QED
      BY <1>1, <1>2, <1>3, <3>2 DEF FenceInv
  <2>6. \A j \in DOMAIN inbox' : Fenced(inbox'[j], epochSeen', loop')
    BY <2>1, <2>3, <2>4, <2>5
  <2>. QED
    BY <1>1, <1>2, <1>3, <2>1, <2>2, <2>6 DEF FenceInv
<1>. QED
  BY <1>1, <1>4, <1>5, <1>6, <1>7, QueueWrites

\* The connections being closed and the history stay typed.
LEMMA HistoryStep ==
    ASSUME UplinkInv, [UplinkNext]_uplinkVars
    PROVE  /\ closing' \subseteq Conns /\ handed' \in [CmdIds -> Nat] /\ condemned' \subseteq CmdIds
<1> USE DEF uplink, history
<1>1. closing \subseteq Conns /\ handed \in [CmdIds -> Nat] /\ condemned \subseteq CmdIds
  BY DEF UplinkInv, UplinkTypeOK
<1>2. CASE UNCHANGED <<closing, handed, condemned>>
  BY <1>1, <1>2
<1>3. ASSUME NEW k \in Conns, LinkOpened(k) \/ LinkClosed(k) \/ FrameBeforeHello(k)
      PROVE  closing' \subseteq Conns /\ UNCHANGED history
  BY <1>1, <1>3 DEF LinkOpened, LinkClosed, FrameBeforeHello
<1>4. ASSUME \/ \E k \in Conns : \/ \E m \in Hellos \cup Controls : SampleFrame(k, m)
                                \/ \E m \in Commands : CommandFrame(k, m)
             \/ FinishFrame \/ LandFrame \/ RecvBegins \/ RecvTakes \/ HandOutLanding
             \/ ExecutorStep \/ UNCHANGED uplinkVars
      PROVE  UNCHANGED <<closing, handed, condemned>>
  BY <1>4 DEF SampleFrame, CommandFrame, FinishFrame, LandFrame, RecvBegins, RecvTakes,
              HandOutLanding, ExecutorStep, uplinkVars
<1>5. CASE DecideHello
  <2>1. loop.conn \in Conns
    BY <1>5 DEF DecideHello, OnHello, UplinkInv, UplinkTypeOK, TypeOK, Loop, Adopted
  <2>. QED
    BY <1>1, <1>5, <2>1 DEF DecideHello
<1>6. CASE EmergencyFrame
  <2>1. \A i \in DOMAIN inbox : IsSuperseded(inbox[i]) => inbox[i].msg.cmd \in CmdIds
    BY AuthorityAssumption DEF IsSuperseded, UplinkInv, FenceInv, Fenced, Command
  <2>2. condemned' \subseteq CmdIds
    BY <1>1, <1>6, <2>1 DEF EmergencyFrame
  <2>. QED
    BY <1>1, <1>6, <2>2 DEF EmergencyFrame
<1>7. CASE HandOutCommand
  <2>1. \/ handed' = [handed EXCEPT ![held.msg.cmd] = @ + 1]
        \/ UNCHANGED handed
    BY <1>7 DEF HandOutCommand
  <2>2. handed' \in [CmdIds -> Nat]
    BY <1>1, <2>1
  <2>. QED
    BY <1>1, <1>7, <2>2 DEF HandOutCommand
<1>. QED
  BY <1>2, <1>3, <1>4, <1>5, <1>6, <1>7, <1>1 DEF UplinkNext

\* The inductive invariant behind the types and the refinement.
LEMMA UplinkStep == UplinkInv /\ [UplinkNext]_uplinkVars => UplinkInv'
<1> SUFFICES ASSUME UplinkInv, [UplinkNext]_uplinkVars PROVE UplinkInv'
  OBVIOUS
<1>1. TypeOK'
  BY UplinkStepIsAuthority, TypeStep DEF UplinkInv, UplinkTypeOK
<1>. QED
  BY <1>1, QueueStep, HistoryStep DEF UplinkInv, UplinkTypeOK

\* It holds at the start.
LEMMA UplinkStarts == UplinkInit => UplinkInv
<1> SUFFICES ASSUME UplinkInit PROVE UplinkInv
  OBVIOUS
<1>1. <<>> \in Seq(Item) /\ cache \in Seq(Entry) /\ DOMAIN <<>> = {}
  BY EmptySeq DEF UplinkInit, Init
<1>2. TypeOK
  BY <1>1 DEF UplinkInit, Init, TypeOK
<1>. QED
  BY <1>1, <1>2 DEF UplinkInit, UplinkInv, UplinkTypeOK, FenceInv

\* It holds for ever.
LEMMA UplinkAlways == UplinkSpec => []UplinkInv
BY UplinkStarts, UplinkStep, PTL DEF UplinkSpec

\* The inbox, the item recv has taken and the history keep their types.
THEOREM UplinkTyped == UplinkSpec => []UplinkTypeOK
<1>1. UplinkInv => UplinkTypeOK
  BY DEF UplinkInv
<1>. QED
  BY <1>1, UplinkAlways, PTL

\* The uplink with its queue implements the authority with its arbitrary
\* environment: what is proved of every behaviour of EdgeAuthority holds of the
\* uplink's.
THEOREM UplinkImplementsAuthority == UplinkSpec => ImplementsAuthority
<1>1. UplinkInit => Init
  BY DEF UplinkInit
<1>2. UplinkInv /\ [UplinkNext]_uplinkVars => [Next]_vars
  BY UplinkStepIsAuthority
<1>. QED
  BY <1>1, <1>2, UplinkAlways, PTL DEF UplinkSpec, ImplementsAuthority, Spec

\* So a flight launched by the uplink's commands is launched under the epoch
\* obeyed, however long its command waited in the inbox.
THEOREM QueuedLaunchesUnderAuthority == UplinkSpec => LaunchesUnderAuthority
BY UplinkImplementsAuthority, LaunchedUnderAuthority, PTL DEF ImplementsAuthority

\* And with an atomic activity probe the uplink, queue and all, flies the drone as
\* FencedFlight allows.
THEOREM QueuedFlightIsFenced == AtomicProbe => (UplinkSpec => ImplementsFencedFlight)
BY UplinkImplementsAuthority, AuthorityImplementsFencedFlight, PTL DEF ImplementsAuthority

----------------------------------------------------------------------------
(* The cache, while it has room for every cmd_id.                          *)

Roomy == IsFiniteSet(CmdIds) /\ Cardinality(CmdIds) <= CacheSize

\* The entries of the cache.
LEMMA CacheEntries ==
    ASSUME TypeOK
    PROVE  /\ DOMAIN cache = 1..Len(cache) /\ Len(cache) \in Nat
           /\ \A i \in DOMAIN cache : cache[i] \in Entry /\ cache[i].cmd \in CmdIds
<1>1. DOMAIN cache = 1..Len(cache) /\ Len(cache) \in Nat
  BY LenProperties DEF TypeOK
<1>2. \A i \in DOMAIN cache : cache[i] \in Entry
  BY ElementOfSeq, <1>1 DEF TypeOK
<1>. QED
  BY <1>1, <1>2 DEF Entry

\* A new cmd_id finds a free place: the cached ones are distinct.
LEMMA CacheHasRoom ==
    ASSUME TypeOK, CacheInv, IsFiniteSet(CmdIds), NEW c \in CmdIds, ~Cached(c)
    PROVE  Len(cache) + 1 <= Cardinality(CmdIds)
<1> DEFINE N == Len(cache) + 1
           f == [i \in 1..N |-> IF i = N THEN c ELSE cache[i].cmd]
<1>1. Len(cache) \in Nat /\ \A i \in 1..N : i # N => i \in DOMAIN cache
  BY CacheEntries
<1>2. f \in [1..N -> CmdIds]
  BY <1>1, CacheEntries
<1>3. ASSUME NEW i \in 1..N, NEW j \in 1..N, f[i] = f[j] PROVE i = j
  <2>1. CASE i # N /\ j # N
    BY <1>1, <1>3, <2>1 DEF CacheInv
  <2>2. CASE i = N \/ j = N
    BY <1>1, <1>3, <2>2 DEF Cached
  <2>. QED
    BY <2>1, <2>2
<1> HIDE DEF f
<1>4. f \in Injection(1..N, CmdIds)
  BY <1>2, <1>3 DEF Injection, IsInjective
<1>5. Cardinality(1..N) <= Cardinality(CmdIds)
  BY <1>4, FS_Injection
<1>6. Cardinality(1..N) = N
  BY <1>1, FS_Interval
<1>. QED
  BY <1>5, <1>6

\* Remembering a new command evicts nothing.
LEMMA Remembered ==
    ASSUME TypeOK, CacheInv, Roomy, NEW m \in Commands, NEW p \in Plans \cup {None},
           NEW r \in Answer3, ~Cached(m.cmd), Remember(m, p, r)
    PROVE  /\ CacheInv' /\ Cached(m.cmd)'
           /\ \A c \in CmdIds : Cached(c) => Cached(c)'
<1> DEFINE e == [cmd |-> m.cmd, type |-> m.type, epoch |-> m.epoch, plan |-> p, reply |-> r]
           longer == Append(cache, e)
<1>1. e \in Entry /\ e.cmd = m.cmd /\ m.cmd \in CmdIds
  BY AuthorityAssumption DEF Entry, Command, Answer3
<1>2. cache' = IF Len(longer) > CacheSize THEN Tail(longer) ELSE longer
  BY DEF Remember
<1> HIDE DEF e
<1>3. /\ longer \in Seq(Entry) /\ Len(longer) = Len(cache) + 1 /\ longer[Len(cache) + 1] = e
      /\ \A i \in 1..Len(cache) : longer[i] = cache[i]
  BY <1>1, AppendProperties DEF TypeOK
<1>4. ~(Len(longer) > CacheSize)
  <2>1. Len(cache) + 1 <= Cardinality(CmdIds) /\ Cardinality(CmdIds) <= CacheSize
    BY <1>1, CacheHasRoom DEF Roomy
  <2>2. Cardinality(CmdIds) \in Nat /\ CacheSize \in Nat /\ Len(cache) \in Nat
    BY FS_CardinalityType, AuthorityAssumption, CacheEntries DEF Roomy
  <2>. QED
    BY <1>3, <2>1, <2>2
<1> HIDE DEF longer
<1>5. cache' = longer
  BY <1>2, <1>4
<1>6. DOMAIN cache' = 1..(Len(cache) + 1)
  BY <1>3, <1>5, LenProperties
<1>7. DOMAIN cache = 1..Len(cache) /\ Len(cache) \in Nat
  BY CacheEntries
<1>8. \A i \in DOMAIN cache' : i \in DOMAIN cache \/ i = Len(cache) + 1
  BY <1>6, <1>7
<1>9. CacheInv'
  <2> SUFFICES ASSUME NEW i \in DOMAIN cache', NEW j \in DOMAIN cache', cache'[i].cmd = cache'[j].cmd
               PROVE  i = j
    BY DEF CacheInv
  <2>1. CASE i \in DOMAIN cache /\ j \in DOMAIN cache
    BY <1>3, <1>5, <1>7, <2>1 DEF CacheInv
  <2>2. CASE i = Len(cache) + 1 \/ j = Len(cache) + 1
    BY <1>1, <1>3, <1>5, <1>7, <1>8, <2>2 DEF Cached
  <2>. QED
    BY <1>8, <2>1, <2>2
<1>10. Cached(m.cmd)'
  BY <1>1, <1>3, <1>5, <1>6, <1>7 DEF Cached
<1>11. \A c \in CmdIds : Cached(c) => Cached(c)'
  BY <1>3, <1>5, <1>6, <1>7 DEF Cached
<1>. QED
  BY <1>9, <1>10, <1>11

\* The other steps that write the cache write replies.
Rewrites ==
    DOMAIN cache' = DOMAIN cache /\ \A i \in DOMAIN cache : cache'[i].cmd = cache[i].cmd
Remembers ==
    \E m \in Commands, p \in Plans \cup {None}, r \in Answer3 : ~Cached(m.cmd) /\ Remember(m, p, r)

\* A step leaves the cached cmd_ids alone, or remembers a new one.
LEMMA CacheWrites ==
    ASSUME TypeOK, [Next]_vars
    PROVE  Rewrites \/ Remembers
<1> USE DEF authority, executor, replies
<1>1. CASE UNCHANGED cache
  BY <1>1 DEF Rewrites
<1>2. ASSUME NEW k \in Conns, NEW m \in Commands,
             AcceptCommand(k, m) \/ HandoverCommand(k, m) \/ RefuseCommand(k, m)
      PROVE  UNCHANGED cache \/ Remembers
  <2>1. ~Cached(m.cmd)
    BY <1>2 DEF AcceptCommand, HandoverCommand, RefuseCommand, NewCommand
  <2>2. m.plan \in Plans \cup {None}
    BY AuthorityAssumption DEF Command
  <2>. QED
    BY <1>2, <2>1, <2>2 DEF AcceptCommand, HandoverCommand, RefuseCommand, Remembers, Answer3
<1>3. ASSUME NEW m \in Commands, DropAtDispatch(m, Stamp(m)) PROVE Rewrites
  <2>1. \A i \in DOMAIN cache : [cache[i] EXCEPT !.reply = "nack"].cmd = cache[i].cmd
    BY CacheEntries DEF Entry
  <2>. QED
    BY <1>3, <2>1 DEF DropAtDispatch, Rewrites
<1>4. ASSUME NEW m \in Commands, NEW reply \in {"ack", "nack"}, Outcome(m, reply) PROVE Rewrites
  <2>1. \A i \in DOMAIN cache : [cache[i] EXCEPT !.reply = reply].cmd = cache[i].cmd
    BY CacheEntries DEF Entry
  <2>. QED
    BY <1>4, <2>1 DEF Outcome, Rewrites
<1>5. ASSUME \/ \E k \in Conns : \/ Opened(k) \/ Closed(k) \/ BeforeHello(k)
                                \/ \E m \in Hellos \cup Controls : Sample(k, m)
             \/ SampleBusy \/ OnHello \/ OnHeartbeat \/ InvalidatePlan \/ Landing
             \/ DispatchNothing \/ UNCHANGED vars
             \/ \E m \in Commands : BeginDispatch(m, Stamp(m))
      PROVE  UNCHANGED cache
  BY <1>5 DEF Opened, Closed, BeforeHello, Sample, SampleBusy, OnHello, OnHeartbeat,
              InvalidatePlan, Landing, DispatchNothing, BeginDispatch, vars
<1>6. ASSUME ExecStorePlan \/ ExecLaunch \/ ExecEndLinkHold \/ ExecTakeoff \/ ExecEnd \/ ExecLand \/ ExecLanded
      PROVE  UNCHANGED cache
  BY <1>6 DEF ExecStorePlan, ExecLaunch, ExecEndLinkHold, ExecTakeoff, ExecEnd, ExecLand, ExecLanded
<1>. QED
  BY <1>1, <1>2, <1>3, <1>4, <1>5, <1>6 DEF Next, LoopNext, ExecNext

\* No cmd_id is forgotten.
LEMMA CacheStep ==
    ASSUME TypeOK, CacheInv, Roomy, [Next]_vars
    PROVE  CacheInv' /\ \A c \in CmdIds : Cached(c) => Cached(c)'
<1>1. CASE Rewrites
  BY <1>1 DEF Rewrites, CacheInv, Cached
<1>2. CASE Remembers
  BY <1>2, Remembered DEF Remembers
<1>. QED
  BY <1>1, <1>2, CacheWrites

----------------------------------------------------------------------------
(* At most once.                                                           *)

\* A new command joins the inbox and the cache.
Joins == \E k \in Conns, m \in Commands :
            /\ AcceptCommand(k, m)
            /\ Enqueues([kind |-> "command", msg |-> m, admitted |-> Admitted])

\* How a step writes the queue together with the history.
LEMMA OnceWrites ==
    ASSUME UplinkTypeOK, [UplinkNext]_uplinkVars
    PROVE  \/ (QueueSame \/ Takes \/ HandsOut \/ Joins \/ Enqueues(Landed("land"))) /\ UNCHANGED history
           \/ HandOutCommand \/ EmergencyFrame
<1> USE DEF uplink, history
<1>1. CASE UNCHANGED uplinkVars
  BY <1>1 DEF uplinkVars, QueueSame
<1>2. ASSUME NEW k \in Conns, \/ LinkOpened(k) \/ LinkClosed(k) \/ FrameBeforeHello(k)
                              \/ \E m \in Hellos \cup Controls : SampleFrame(k, m)
      PROVE  QueueSame /\ UNCHANGED history
  BY <1>2 DEF LinkOpened, LinkClosed, FrameBeforeHello, SampleFrame, QueueSame
<1>3. ASSUME NEW k \in Conns, NEW m \in Commands, CommandFrame(k, m)
      PROVE  (QueueSame \/ Joins) /\ UNCHANGED history
  <2>1. UNCHANGED history /\ UNCHANGED held
    BY <1>3 DEF CommandFrame
  <2>2. CASE AcceptCommand(k, m) /\ inbox' = Append(inbox, [kind |-> "command", msg |-> m, admitted |-> Admitted])
    BY <2>1, <2>2 DEF Joins, Enqueues
  <2>3. CASE UNCHANGED inbox
    BY <2>1, <2>3 DEF QueueSame
  <2>. QED
    BY <1>3, <2>2, <2>3, <2>1 DEF CommandFrame
<1>4. CASE DecideHello \/ FinishFrame \/ RecvBegins \/ ExecutorStep
  BY <1>4 DEF DecideHello, FinishFrame, RecvBegins, ExecutorStep, QueueSame
<1>5. CASE LandFrame
  BY <1>5 DEF LandFrame, Enqueues
<1>6. CASE RecvTakes
  BY <1>6 DEF RecvTakes, Takes
<1>7. CASE HandOutLanding
  BY <1>7 DEF HandOutLanding, HandsOut
<1>. QED
  BY <1>1, <1>2, <1>3, <1>4, <1>5, <1>6, <1>7 DEF UplinkNext

\* What OnceInv says of one cmd_id: of the commands that wait, and of those that
\* were handed out or discarded.
Waits(x, c) == Carries(x, c) => Cached(c) /\ handed[c] = 0 /\ c \notin condemned
OnePlace(c) ==
    /\ held # None => Waits(held, c)
    /\ \A i \in DOMAIN inbox :
          /\ Waits(inbox[i], c)
          /\ Carries(inbox[i], c) =>
                /\ held # None => ~Carries(held, c)
                /\ \A j \in DOMAIN inbox : Carries(inbox[j], c) => i = j
Answered(c) ==
    /\ handed[c] <= 1 /\ (handed[c] = 1 \/ c \in condemned => Cached(c))
    /\ c \in condemned => handed[c] = 0

\* The invariant, taken apart by what a step can disturb.
LEMMA OnceParts == OnceInv <=> \A c \in CmdIds : OnePlace(c) /\ Answered(c)
BY DEF OnceInv, OnePlace, Answered, Waits

\* While nothing is handed out or discarded, each cmd_id stays in one place.
LEMMA OneUnchanged ==
    ASSUME UplinkTypeOK, UNCHANGED history, NEW c \in CmdIds, OnePlace(c) /\ Answered(c),
           Cached(c) => Cached(c)',
           \/ QueueSame \/ Takes \/ HandsOut
           \/ \E x \in Item : Enqueues(x) /\ (Carries(x, c) => ~Cached(c) /\ Cached(c)')
    PROVE  OnePlace(c)' /\ Answered(c)'
<1> USE DEF history
<1>1. Answered(c)'
  BY DEF Answered
<1>2. inbox \in Seq(Item) /\ Len(inbox) \in Nat /\ DOMAIN inbox = 1..Len(inbox)
  BY LenProperties DEF UplinkTypeOK
<1>3. CASE QueueSame
  BY <1>1, <1>3 DEF QueueSame, OnePlace, Waits, Carries
<1>4. CASE HandsOut
  BY <1>1, <1>4 DEF HandsOut, OnePlace, Waits, Carries
<1>5. CASE Takes
  <2>1. /\ Tail(inbox) \in Seq(Item) /\ Len(Tail(inbox)) = Len(inbox) - 1 /\ Head(inbox) = inbox[1]
        /\ \A i \in 1..Len(Tail(inbox)) : Tail(inbox)[i] = inbox[i + 1]
        /\ Len(inbox) >= 1
    BY <1>2, <1>5, HeadTailProperties, EmptySeq DEF Takes
  <2>2. DOMAIN inbox' = 1..(Len(inbox) - 1) /\ held = None /\ held' = inbox[1]
        /\ \A i \in DOMAIN inbox' : inbox'[i] = inbox[i + 1] /\ i + 1 \in DOMAIN inbox /\ i + 1 # 1
    BY <1>2, <1>5, <2>1, LenProperties DEF Takes
  <2>3. 1 \in DOMAIN inbox
    BY <1>2, <2>1
  <2>4. Waits(inbox[1], c) /\ \A i \in DOMAIN inbox' : Waits(inbox[i + 1], c)
    BY <2>2, <2>3 DEF OnePlace
  <2>5. \A i, j \in DOMAIN inbox' : Carries(inbox[i + 1], c) /\ Carries(inbox[j + 1], c) => i = j
    <3>1. \A i, j \in DOMAIN inbox' : Carries(inbox[i + 1], c) /\ Carries(inbox[j + 1], c) => i + 1 = j + 1
      BY <2>2 DEF OnePlace
    <3>. QED
      BY <3>1, <2>2, <1>2
  <2>6. \A i \in DOMAIN inbox' : ~(Carries(inbox[i + 1], c) /\ Carries(inbox[1], c))
    BY <2>2, <2>3 DEF OnePlace
  <2>. QED
    BY <1>1, <2>2, <2>4, <2>5, <2>6 DEF OnePlace, Waits
<1>6. ASSUME NEW x \in Item, Enqueues(x), Carries(x, c) => ~Cached(c) /\ Cached(c)'
      PROVE  OnePlace(c)'
  <2>1. /\ DOMAIN inbox' = 1..(Len(inbox) + 1) /\ held' = held
        /\ inbox'[Len(inbox) + 1] = x /\ \A i \in DOMAIN inbox : inbox'[i] = inbox[i]
    BY <1>2, <1>6, AppendProperties, LenProperties DEF Enqueues
  <2>2. \A i \in DOMAIN inbox' : i \in DOMAIN inbox \/ i = Len(inbox) + 1
    BY <1>2, <2>1
  <2>3. \A i \in DOMAIN inbox : Waits(inbox[i], c)
    BY DEF OnePlace
  <2>4. Carries(x, c) => /\ handed[c] = 0 /\ c \notin condemned
                         /\ held # None => ~Carries(held, c)
                         /\ \A i \in DOMAIN inbox : ~Carries(inbox[i], c)
    <3>1. handed[c] \in Nat
      BY DEF UplinkTypeOK
    <3>. QED
      BY <1>6, <2>3, <3>1 DEF OnePlace, Answered, Waits
  <2>5. ASSUME NEW i \in DOMAIN inbox', Carries(inbox'[i], c)
        PROVE  /\ Cached(c)' /\ handed[c] = 0 /\ c \notin condemned
               /\ held # None => ~Carries(held, c)
               /\ \A j \in DOMAIN inbox' : Carries(inbox'[j], c) => i = j
    <3>1. CASE i = Len(inbox) + 1
      BY <1>6, <2>1, <2>2, <2>4, <2>5, <3>1
    <3>2. CASE i \in DOMAIN inbox
      <4>1. ~Carries(x, c)
        BY <2>1, <2>4, <2>5, <3>2
      <4>. QED
        BY <2>1, <2>2, <2>3, <2>5, <3>2, <4>1 DEF OnePlace, Waits
    <3>. QED
      BY <2>2, <3>1, <3>2
  <2>6. held' # None => Waits(held, c)'
    BY <2>1 DEF OnePlace, Waits, Carries
  <2>. QED
    BY <2>1, <2>5, <2>6 DEF OnePlace, Waits
<1>. QED
  BY <1>1, <1>3, <1>4, <1>5, <1>6

\* An emergency landing leaves each cmd_id in one place or condemns it.
LEMMA OneCondemned ==
    ASSUME UplinkTypeOK, EmergencyFrame, NEW c \in CmdIds, OnePlace(c) /\ Answered(c),
           Cached(c) => Cached(c)'
    PROVE  OnePlace(c)' /\ Answered(c)'
<1>1. inbox' = JumpQueue /\ UNCHANGED <<held, handed>>
      /\ condemned' = condemned \cup {inbox[i].msg.cmd : i \in {j \in DOMAIN inbox : IsSuperseded(inbox[j])}}
  BY DEF EmergencyFrame
<1>2. inbox \in Seq(Item) /\ Len(inbox) \in Nat /\ DOMAIN inbox = 1..Len(inbox)
  BY LenProperties DEF UplinkTypeOK
<1>3. PICK g \in [2..Len(JumpQueue) -> 1..Len(inbox)] :
         /\ \A j \in 2..Len(JumpQueue) : JumpQueue[j] = inbox[g[j]] /\ ~IsSuperseded(inbox[g[j]])
         /\ \A i, j \in 2..Len(JumpQueue) : g[i] = g[j] => i = j
  BY <1>2, Jumped
<1>4. JumpQueue \in Seq(Item) /\ DOMAIN JumpQueue = 1..Len(JumpQueue) /\ Len(JumpQueue) \in Nat
      /\ ~Carries(JumpQueue[1], c)
  BY <1>2, Jumped, LenProperties DEF Carries, Landed
<1>5. \A j \in DOMAIN inbox' : Carries(inbox'[j], c) =>
          /\ j \in 2..Len(JumpQueue) /\ inbox'[j] = inbox[g[j]] /\ g[j] \in DOMAIN inbox
          /\ ~IsSuperseded(inbox[g[j]])
  <2>1. \A j \in DOMAIN inbox' : j = 1 \/ j \in 2..Len(JumpQueue)
    BY <1>1, <1>4
  <2>. QED
    BY <1>1, <1>2, <1>3, <1>4, <2>1
<1>6. c \in condemned' => \/ c \in condemned
                         \/ \E i \in DOMAIN inbox : IsSuperseded(inbox[i]) /\ Carries(inbox[i], c)
  BY <1>1 DEF IsSuperseded, Carries
<1>7. Answered(c)'
  BY <1>1, <1>6 DEF Answered, OnePlace, Waits
<1>8. ASSUME Carries(held, c), held # None PROVE Cached(c)' /\ handed[c] = 0 /\ c \notin condemned'
  BY <1>6, <1>8 DEF OnePlace, Waits
<1>9. ASSUME NEW j \in DOMAIN inbox', Carries(inbox'[j], c)
      PROVE  /\ Cached(c)' /\ handed[c] = 0 /\ c \notin condemned'
             /\ held # None => ~Carries(held, c)
             /\ \A k \in DOMAIN inbox' : Carries(inbox'[k], c) => j = k
  <2>1. Carries(inbox[g[j]], c) /\ g[j] \in DOMAIN inbox /\ ~IsSuperseded(inbox[g[j]])
        /\ j \in 2..Len(JumpQueue)
    BY <1>5, <1>9
  <2>2. \A i \in DOMAIN inbox : Carries(inbox[i], c) => i = g[j]
    BY <2>1 DEF OnePlace
  <2>3. \A k \in DOMAIN inbox' : Carries(inbox'[k], c) => g[k] = g[j] /\ k \in 2..Len(JumpQueue)
    BY <1>5, <2>2
  <2>4. \A k \in DOMAIN inbox' : Carries(inbox'[k], c) => j = k
    BY <1>3, <2>1, <2>3
  <2>5. c \notin condemned'
    BY <1>6, <2>1, <2>2 DEF OnePlace, Waits
  <2>. QED
    BY <2>1, <2>4, <2>5 DEF OnePlace, Waits
<1>10. OnePlace(c)'
  BY <1>1, <1>8, <1>9 DEF OnePlace, Waits
<1>. QED
  BY <1>7, <1>10

\* A command that is handed out is gone from where it waited.
LEMMA OneHandedOut ==
    ASSUME UplinkInv, HandOutCommand, NEW c \in CmdIds, OnePlace(c) /\ Answered(c),
           Cached(c) => Cached(c)'
    PROVE  OnePlace(c)' /\ Answered(c)'
<1>1. held # None /\ held' = None /\ UNCHANGED <<inbox, condemned>> /\ held.kind = "command"
  BY DEF HandOutCommand
<1>2. held.msg.cmd \in CmdIds /\ handed \in [CmdIds -> Nat]
  BY <1>1, AuthorityAssumption DEF UplinkInv, UplinkTypeOK, FenceInv, Fenced, Command
<1>3. handed'[c] = handed[c] \/ (handed'[c] = handed[c] + 1 /\ Carries(held, c))
  BY <1>1, <1>2 DEF HandOutCommand, Carries
<1>4. CASE Carries(held, c)
  <2>1. Cached(c)' /\ handed[c] = 0 /\ c \notin condemned
        /\ \A i \in DOMAIN inbox : ~Carries(inbox[i], c)
    BY <1>1, <1>4 DEF OnePlace, Waits
  <2>. QED
    BY <1>1, <1>2, <1>3, <2>1 DEF OnePlace, Answered, Waits
<1>5. CASE ~Carries(held, c)
  BY <1>1, <1>2, <1>3, <1>5 DEF OnePlace, Answered, Waits
<1>. QED
  BY <1>4, <1>5

\* Every step keeps each cmd_id in one place.
LEMMA OnceStep ==
    ASSUME Roomy, UplinkInv, CacheInv, OnceInv, [UplinkNext]_uplinkVars
    PROVE  CacheInv' /\ OnceInv'
<1>1. UplinkTypeOK /\ TypeOK /\ [Next]_vars
  BY UplinkStepIsAuthority DEF UplinkInv, UplinkTypeOK
<1>2. CacheInv' /\ \A c \in CmdIds : Cached(c) => Cached(c)'
  BY <1>1, CacheStep
<1> SUFFICES ASSUME NEW c \in CmdIds PROVE OnePlace(c)' /\ Answered(c)'
  <2>1. OnceInv' <=> \A c \in CmdIds : OnePlace(c)' /\ Answered(c)'
    BY DEF OnceInv, OnePlace, Answered, Waits
  <2>. QED
    BY <1>2, <2>1
<1>3. OnePlace(c) /\ Answered(c)
  BY OnceParts
<1>4. ASSUME UNCHANGED history, QueueSame \/ Takes \/ HandsOut PROVE OnePlace(c)' /\ Answered(c)'
  BY <1>1, <1>2, <1>3, <1>4, OneUnchanged
<1>5. ASSUME UNCHANGED history, Enqueues(Landed("land")) PROVE OnePlace(c)' /\ Answered(c)'
  <2>1. Landed("land") \in Item /\ ~Carries(Landed("land"), c)
    BY DEF Landed, Item, Carries
  <2>. QED
    BY <1>1, <1>2, <1>3, <1>5, <2>1, OneUnchanged
<1>6. ASSUME UNCHANGED history, Joins PROVE OnePlace(c)' /\ Answered(c)'
  <2>1. PICK k \in Conns, m \in Commands :
           AcceptCommand(k, m) /\ Enqueues([kind |-> "command", msg |-> m, admitted |-> Admitted])
    BY <1>6 DEF Joins
  <2> DEFINE x == [kind |-> "command", msg |-> m, admitted |-> Admitted]
  <2>2. x \in Item
    BY <1>1, NoneIsNothing DEF Item, Admitted, UplinkTypeOK, TypeOK
  <2>3. ~Cached(m.cmd) /\ Remember(m, m.plan, None) /\ m.plan \in Plans \cup {None}
    BY <2>1, AuthorityAssumption DEF AcceptCommand, NewCommand, Command
  <2>4. Cached(m.cmd)'
    BY <1>1, <2>3, Remembered DEF Answer3
  <2>5. Carries(x, c) => ~Cached(c) /\ Cached(c)'
    BY <2>3, <2>4 DEF Carries
  <2> HIDE DEF x
  <2>6. Enqueues(x)
    BY <2>1 DEF x
  <2>. QED
    BY <1>1, <1>2, <1>3, <1>6, <2>2, <2>5, <2>6, OneUnchanged
<1>7. CASE EmergencyFrame
  BY <1>1, <1>2, <1>3, <1>7, OneCondemned
<1>8. CASE HandOutCommand
  BY <1>1, <1>2, <1>3, <1>8, OneHandedOut
<1>. QED
  BY <1>1, <1>4, <1>5, <1>6, <1>7, <1>8, OnceWrites

\* The two hold together for ever while the cache has room.
LEMMA OnceAlways == Roomy => (UplinkSpec => [](CacheInv /\ OnceInv))
<1> SUFFICES ASSUME Roomy PROVE UplinkSpec => [](CacheInv /\ OnceInv)
  OBVIOUS
<1>1. UplinkInit => CacheInv /\ OnceInv
  BY DEF UplinkInit, Init, CacheInv, OnceInv
<1>2. UplinkInv /\ CacheInv /\ OnceInv /\ [UplinkNext]_uplinkVars => CacheInv' /\ OnceInv'
  BY OnceStep
<1>. QED
  BY <1>1, <1>2, UplinkAlways, PTL DEF UplinkSpec

\* For a finite set of cmd_ids, which is what the cache can remember, no command
\* reaches the executor twice.
THEOREM HandedOutOnce == IsFiniteSet(CmdIds) => (UplinkSpec => []AtMostOnce)
<1> SUFFICES ASSUME IsFiniteSet(CmdIds) PROVE UplinkSpec => []AtMostOnce
  OBVIOUS
<1>1. CASE Roomy
  <2>1. OnceInv => AtMostOnce
    BY DEF OnceInv, AtMostOnce
  <2>. QED
    BY <1>1, <2>1, OnceAlways, PTL
<1>2. CASE ~Roomy
  <2>1. AtMostOnce
    BY <1>2 DEF Roomy, AtMostOnce
  <2>. QED
    BY <2>1, PTL
<1>. QED
  BY <1>1, <1>2

\* And none that an emergency landing found waiting ever does.
THEOREM EmergencyIsFinal == IsFiniteSet(CmdIds) => (UplinkSpec => []EmergencySticks)
<1> SUFFICES ASSUME IsFiniteSet(CmdIds) PROVE UplinkSpec => []EmergencySticks
  OBVIOUS
<1>1. CASE Roomy
  <2>1. UplinkInv /\ OnceInv => EmergencySticks
    BY DEF OnceInv, EmergencySticks, UplinkInv, UplinkTypeOK
  <2>. QED
    BY <1>1, <2>1, OnceAlways, UplinkAlways, PTL
<1>2. CASE ~Roomy
  <2>1. EmergencySticks
    BY <1>2 DEF Roomy, EmergencySticks
  <2>. QED
    BY <2>1, PTL
<1>. QED
  BY <1>1, <1>2
=============================================================================
