---------------------- MODULE WebhookDeliveries_proofs ----------------------
(* Theorems about WebhookDeliveries, for every value of its constants.      *)
EXTENDS WebhookDeliveries, TLAPS

-----------------------------------------------------------------------------
(* Type correctness.                                                        *)

ActorState == [pc : ActorPc, todo : SUBSET Hooks, queue : SUBSET Copy, cur : Copy]
RowState == [status : Status, attempts : Nat, next : NextAt, error : Error, hook : Hooks]

LEMMA NoCopyType == NoCopy \in Copy
BY WebhookAssumption DEF NoCopy, Copy, Deliveries

LEMMA IdleType == Idle \in ActorState
BY NoCopyType DEF Idle, ActorState, ActorPc

LEMMA TypeInit == Init => TypeOK
<1> SUFFICES ASSUME Init PROVE TypeOK
    OBVIOUS
<1>1. act \in [Actors -> ActorState]
  BY IdleType DEF Init
<1>2. row \in [Deliveries -> RowState]
  BY DEF Init, RowState, Status, NextAt, Error
<1>3. created \in 0..MaxDeliveries
  BY WebhookAssumption DEF Init
<1> QED
  BY <1>1, <1>2, <1>3 DEF Init, TypeOK, ActorState, RowState

\* The store's update keeps the table well typed.
LEMMA PatchType ==
    ASSUME TypeOK, NEW d \in Deliveries, NEW st \in Status, NEW n \in Nat,
           NEW nx \in NextAt, NEW er \in Error, Patch(d, st, n, nx, er)
    PROVE  row' \in [Deliveries -> RowState]
BY DEF TypeOK, Patch, RowState

LEMMA CopyOfType == TypeOK => \A d \in Deliveries : CopyOf(d) \in Copy
BY DEF TypeOK, CopyOf, Copy

\* An actor that moves on is well typed and holds only what it held.
LEMMA ContinueType ==
    ASSUME TypeOK, NEW a \in Actors, Continue(a)
    PROVE  act' \in [Actors -> ActorState]
BY NoCopyType DEF TypeOK, Continue, ActorPc, ActorState

\* Every step keeps the variables in their types.
LEMMA TypeStep == TypeOK /\ [Next]_vars => TypeOK'
<1> SUFFICES ASSUME TypeOK, [Next]_vars PROVE TypeOK'
    OBVIOUS
<1> USE DEF TypeOK, ActorState, RowState
<1>1. ASSUME NEW a \in Actors, Fire(a) \/ WriteLost(a) PROVE TypeOK'
  <2>0. act[a].cur.del \in Deliveries /\ act[a].cur.attempts + 1 \in Nat
    BY DEF Copy
  <2>1. CASE Post(a)
    <3>1. act' \in [Actors -> ActorState]
      <4>1. PICK pc \in ActorPc : act' = [act EXCEPT ![a].pc = pc]
        BY <2>1 DEF Post, Goto, ActorPc
      <4> QED
        BY <4>1
    <3>3. acked' \subseteq Deliveries
      BY <2>0, <2>1 DEF Post
    <3>2. posts' \in [Deliveries -> Nat]
      BY <2>0, <2>1 DEF Post
    <3> QED
      BY <2>1, <3>1, <3>2, <3>3 DEF Post
  <2>2. CASE WriteSuccess(a)
    <3>1. row' \in [Deliveries -> RowState]
      BY <2>0, <2>2, PatchType DEF WriteSuccess, Status, NextAt, Error
    <3> QED
      BY <2>2, <3>1, ContinueType DEF WriteSuccess
  <2>3. CASE WriteRetry(a)
    <3>1. row' \in [Deliveries -> RowState]
      BY <2>0, <2>3, PatchType DEF WriteRetry, Status, NextAt, Error
    <3> QED
      BY <2>3, <3>1, ContinueType DEF WriteRetry
  <2>4. CASE WriteFailed(a)
    <3>1. row' \in [Deliveries -> RowState]
      BY <2>0, <2>4, PatchType DEF WriteFailed, Status, NextAt, Error
    <3> QED
      BY <2>4, <3>1, ContinueType DEF WriteFailed
  <2>5. CASE WriteLost(a)
    BY <2>5, ContinueType DEF WriteLost
  <2>6. CASE PostRaises(a)
    BY <2>6, ContinueType DEF PostRaises
  <2> QED
    BY <1>1, <2>1, <2>2, <2>3, <2>4, <2>5, <2>6 DEF Fire
<1>2. ASSUME NEW a \in Actors, NEW pc \in ActorPc, NEW c \in act[a].queue, Take(a, c, pc)
      PROVE  TypeOK'
  BY <1>2 DEF Take
<1>3. ASSUME NEW w \in Workers, WorkerStep(w) PROVE TypeOK'
  <2>0. w \in Actors
    BY DEF Actors
  <2>1. ASSUME NEW matched \in SUBSET Hooks, DispatchMatch(w, matched) PROVE TypeOK'
    BY <2>0, <2>1, NoCopyType DEF DispatchMatch, ActorPc
  <2>2. CASE DispatchCreate(w)
    <3>1. PICK h \in act[w].todo :
            /\ row' = [row EXCEPT ![created + 1] =
                         [status |-> "pending", attempts |-> 0, next |-> "due",
                          error |-> "null", hook |-> h]]
            /\ act' = [act EXCEPT
                 ![w] = [pc    |-> IF act[w].todo = {h} THEN "queue" ELSE "creating",
                         todo  |-> act[w].todo \ {h},
                         queue |-> act[w].queue
                                     \union {[del |-> created + 1, attempts |-> 0]},
                         cur   |-> NoCopy]]
      BY <2>2 DEF DispatchCreate
    <3>2. h \in Hooks /\ created + 1 \in Deliveries /\ created' = created + 1
      BY <2>0, <2>2 DEF DispatchCreate
    <3>3. created' \in 0..MaxDeliveries
      BY <3>2, WebhookAssumption DEF Deliveries
    <3>4. row' \in [Deliveries -> RowState]
      BY <3>1, <3>2 DEF Status, NextAt, Error
    <3>5. [del |-> created + 1, attempts |-> 0] \in Copy
      BY <3>2 DEF Copy
    <3>6. act' \in [Actors -> ActorState]
      BY <2>0, <3>1, <3>2, <3>5, NoCopyType DEF ActorPc
    <3> QED
      BY <2>2, <3>3, <3>4, <3>6 DEF DispatchCreate
  <2>3. CASE DispatchTake(w)
    BY <1>2, <2>0, <2>3 DEF DispatchTake, ActorPc
  <2>4. ASSUME NEW d \in Deliveries, ReplayBegin(w, d) PROVE TypeOK'
    BY <2>0, <2>4, CopyOfType DEF ReplayBegin, ActorPc
  <2>5. CASE ReplayReset(w)
    <3>1. act[w].cur.del \in Deliveries
      BY <2>0 DEF Copy
    <3>2. row' \in [Deliveries -> RowState]
      BY <2>5, <3>1, PatchType DEF ReplayReset, Status, NextAt, Error
    <3> QED
      BY <2>0, <2>5, <3>2 DEF ReplayReset, Goto, ActorPc
  <2>6. CASE ReplayReread(w)
    <3>1. CopyOf(act[w].cur.del) \in Copy
      BY <2>0, CopyOfType DEF Copy
    <3> QED
      BY <2>0, <2>6, <3>1 DEF ReplayReread, ActorPc
  <2> QED
    BY <1>1, <1>3, <2>0, <2>1, <2>2, <2>3, <2>4, <2>5, <2>6 DEF WorkerStep
<1>4. CASE LoopStep
  <2>0. Loop \in Actors
    BY DEF Actors
  <2>1. CASE LoopSelect
    <3>1. {CopyOf(d) : d \in Rows} \subseteq Copy
      BY CopyOfType, WebhookAssumption DEF Rows, Deliveries
    <3> QED
      BY <2>0, <2>1, <3>1, NoCopyType DEF LoopSelect, ActorPc
  <2>2. CASE LoopTake
    BY <1>2, <2>0, <2>2 DEF LoopTake, ActorPc
  <2>3. CASE LoopDrop
    <3>1. act[Loop].cur.del \in Deliveries
      BY <2>0 DEF Copy
    <3>2. row' \in [Deliveries -> RowState]
      BY <2>3, <3>1, PatchType DEF LoopDrop, Status, NextAt, Error
    <3> QED
      BY <2>0, <2>3, <3>2, ContinueType DEF LoopDrop
  <2> QED
    BY <1>1, <1>4, <2>0, <2>1, <2>2, <2>3 DEF LoopStep
<1>5. ASSUME NEW h \in Hooks, SetActive(h) PROVE TypeOK'
  BY <1>5 DEF SetActive
<1>6. ASSUME NEW d \in Deliveries, TimePasses(d) PROVE TypeOK'
  BY <1>6 DEF TimePasses, NextAt
<1>7. ASSUME NEW d \in Deliveries, CallsChange(d) PROVE TypeOK'
  BY <1>7 DEF CallsChange
<1>8. CASE Crash \/ \E a \in Actors : CallRaises(a)
  BY <1>8, IdleType DEF Crash, CallRaises
<1>9. CASE UNCHANGED vars
  BY <1>9 DEF vars
<1> QED
  BY <1>1, <1>3, <1>4, <1>5, <1>6, <1>7, <1>8, <1>9 DEF Next

\* The variables stay in their types in every behaviour.
THEOREM TypeCorrect == Spec => []TypeOK
BY TypeInit, TypeStep, PTL DEF Spec

-----------------------------------------------------------------------------
(* The inductive invariant: no copy an actor holds counts a POST that was   *)
(* not made.                                                                *)

Holding == {"resetting", "reread", "posting", "acked", "refused", "dropping"}

\* A copy of an inserted row whose attempts were really made.
Real(c) == c.del \in Rows /\ c.attempts <= posts[c.del]

QueuedReal == \A a \in Actors : \A c \in act[a].queue : Real(c)

HeldReal == \A a \in Actors : act[a].pc \in Holding => Real(act[a].cur)

\* After its POST the actor's copy is one behind.
PostedReal ==
    \A a \in Actors :
        act[a].pc \in {"acked", "refused"} => act[a].cur.attempts < posts[act[a].cur.del]

AckedReal == \A a \in Actors : act[a].pc = "acked" => act[a].cur.del \in acked

CopiesReal == QueuedReal /\ HeldReal /\ PostedReal /\ AckedReal

IInv ==
    /\ TypeOK
    /\ CopiesReal
    /\ AttemptsAreReal /\ NeverGivesUpEarly /\ SuccessWasAcked

LEMMA IInvInit == Init => IInv
<1> SUFFICES ASSUME Init PROVE IInv
    OBVIOUS
<1>1. TypeOK
  BY TypeInit
<1>2. Rows = {}
  BY DEF Init, Rows
<1>3. CopiesReal
  BY DEF Init, Idle, CopiesReal, QueuedReal, HeldReal, PostedReal, AckedReal, Holding
<1> QED
  BY <1>1, <1>2, <1>3 DEF IInv, AttemptsAreReal, NeverGivesUpEarly, SuccessWasAcked

\* Rows are only inserted, POSTs and acknowledgements only added.
LEMMA Grows ==
    ASSUME TypeOK, [Next]_vars
    PROVE  /\ Rows \subseteq Rows' /\ Rows' \subseteq Deliveries
           /\ acked \subseteq acked'
           /\ \A d \in Deliveries : posts[d] <= posts'[d]
<1>0. TypeOK'
  BY TypeStep
<1>1. created <= created'
  <2>1. created' = created \/ \E w \in Workers : DispatchCreate(w)
    BY DEF Next, WorkerStep, LoopStep, Fire, DispatchMatch, DispatchTake, Take,
       ReplayBegin, ReplayReset, ReplayReread, LoopSelect, LoopTake, LoopDrop, Post,
       PostRaises, WriteSuccess, WriteRetry, WriteFailed, WriteLost, CallRaises,
       CallsChange, SetActive, TimePasses, Crash, vars
  <2>2. ASSUME NEW w \in Workers, DispatchCreate(w) PROVE created' = created + 1
    BY <2>2 DEF DispatchCreate
  <2> QED
    BY <2>1, <2>2 DEF TypeOK
<1>2. Rows \subseteq Rows' /\ Rows' \subseteq Deliveries
  BY <1>0, <1>1, WebhookAssumption DEF TypeOK, Rows, Deliveries
<1>3. acked \subseteq acked'
  <2>1. acked' = acked \/ \E a \in Actors : Post(a)
    BY DEF Next, WorkerStep, LoopStep, Fire, DispatchMatch, DispatchCreate, DispatchTake,
       Take, ReplayBegin, ReplayReset, ReplayReread, LoopSelect, LoopTake, LoopDrop,
       PostRaises, WriteSuccess, WriteRetry, WriteFailed, WriteLost, CallRaises,
       CallsChange, SetActive, TimePasses, Crash, vars, Actors
  <2>2. ASSUME NEW a \in Actors, Post(a) PROVE acked \subseteq acked'
    BY <2>2 DEF Post
  <2> QED
    BY <2>1, <2>2
<1>4. ASSUME NEW a \in Actors, Post(a)
      PROVE  \A d \in Deliveries : posts[d] <= posts'[d]
  BY <1>4 DEF Post, TypeOK
<1>5. posts' = posts \/ \E a \in Actors : Post(a)
  BY DEF Next, WorkerStep, LoopStep, Fire, DispatchMatch, DispatchCreate, DispatchTake,
     Take, ReplayBegin, ReplayReset, ReplayReread, LoopSelect, LoopTake, LoopDrop,
     PostRaises, WriteSuccess, WriteRetry, WriteFailed, WriteLost, CallRaises, CallsChange,
     SetActive, TimePasses, Crash, vars, Actors
<1> QED
  BY <1>2, <1>3, <1>4, <1>5 DEF TypeOK

\* What the actor a that moves may hold afterwards: copies it held already,
\* fresh copies of rows, or the row it has just inserted.
LEMMA Fresh ==
    ASSUME IInv, NEW d \in Rows
    PROVE  Real(CopyOf(d))
BY DEF IInv, AttemptsAreReal, Real, CopyOf

LEMMA RealGrows ==
    ASSUME TypeOK, [Next]_vars, NEW c \in Copy, Real(c)
    PROVE  Real(c)'
BY Grows, TypeStep DEF Real, TypeOK, Copy

\* To keep the copies real it is enough to look at the actor that moved.
LEMMA CopiesRealIfMoved ==
    ASSUME IInv, [Next]_vars, NEW a \in Actors,
           \A b \in Actors \ {a} : act'[b] = act[b],
           \A c \in act'[a].queue : Real(c)',
           act'[a].pc \in Holding => Real(act[a].cur)',
           act'[a].pc \in {"acked", "refused"} =>
               act'[a].cur.attempts < posts'[act'[a].cur.del],
           act'[a].pc = "acked" => act'[a].cur.del \in acked'
    PROVE  CopiesReal'
<1> USE DEF CopiesReal, QueuedReal, HeldReal, PostedReal, AckedReal
<1>1. ASSUME NEW b \in Actors, b # a
      PROVE  /\ act'[b] = act[b]
             /\ act[b].queue \subseteq Copy
             /\ act[b].cur \in Copy
  BY <1>1 DEF IInv, TypeOK
<1>2. QueuedReal'
  BY <1>1, RealGrows DEF IInv
<1>3. HeldReal'
  BY <1>1, RealGrows DEF IInv
<1>4. ASSUME NEW b \in Actors, act'[b].pc \in {"acked", "refused"}
      PROVE  act'[b].cur.attempts < posts'[act'[b].cur.del]
  <2>1. CASE b = a
    BY <1>4, <2>1
  <2>2. CASE b # a
    <3>1. act[b].cur.attempts < posts[act[b].cur.del]
      BY <1>1, <1>4, <2>2 DEF IInv
    <3>2. posts[act[b].cur.del] <= posts'[act[b].cur.del]
      BY <1>1, <2>2, Grows DEF IInv, Copy
    <3> QED
      BY <1>1, <2>2, <3>1, <3>2, TypeStep DEF IInv, TypeOK, Copy
  <2> QED
    BY <2>1, <2>2
<1>5. PostedReal'
  BY <1>4
<1>6. AckedReal'
  BY <1>1, Grows DEF IInv
<1> QED
  BY <1>2, <1>3, <1>5, <1>6

\* An actor that moves on keeps its queue and holds nothing.
LEMMA ContinueReal ==
    ASSUME IInv, [Next]_vars, NEW a \in Actors, Continue(a)
    PROVE  CopiesReal'
<1>1. /\ \A b \in Actors \ {a} : act'[b] = act[b]
      /\ act'[a].queue = act[a].queue
      /\ act'[a].pc \in {"idle", "queue"}
  BY DEF Continue, IInv, TypeOK
<1>2. \A c \in act[a].queue : c \in Copy /\ Real(c)
  BY DEF IInv, TypeOK, CopiesReal, QueuedReal
<1>3. \A c \in act'[a].queue : Real(c)'
  BY <1>1, <1>2, RealGrows DEF IInv
<1> QED
  BY <1>1, <1>3, CopiesRealIfMoved DEF Holding

\* Taking a copy from the queue to fire or drop it.
LEMMA TakeReal ==
    ASSUME IInv, [Next]_vars, NEW a \in Actors, NEW c \in act[a].queue,
           NEW pc \in {"posting", "dropping"}, Take(a, c, pc)
    PROVE  CopiesReal'
<1>1. /\ \A b \in Actors \ {a} : act'[b] = act[b]
      /\ act'[a].queue \subseteq act[a].queue
      /\ act'[a].pc = pc
      /\ act'[a].cur = c
  BY DEF Take, IInv, TypeOK
<1>2. \A e \in act[a].queue : e \in Copy /\ Real(e)
  BY DEF IInv, TypeOK, CopiesReal, QueuedReal
<1>3. \A e \in act[a].queue : Real(e)'
  BY <1>2, RealGrows DEF IInv
<1>4. Real(act[a].cur)'
  BY <1>1, <1>3
<1> QED
  BY <1>1, <1>3, <1>4, CopiesRealIfMoved

\* A POST puts the copy one behind.
LEMMA PostReal ==
    ASSUME IInv, [Next]_vars, NEW a \in Actors, Post(a)
    PROVE  CopiesReal'
<1>1. /\ \A b \in Actors \ {a} : act'[b] = act[b]
      /\ act'[a].queue = act[a].queue
      /\ act'[a].pc \in {"acked", "refused"}
      /\ act'[a].cur = act[a].cur
      /\ act'[a].pc = "acked" => act[a].cur.del \in acked'
  BY DEF Post, Goto, IInv, TypeOK
<1>2. act[a].cur \in Copy /\ Real(act[a].cur)
  BY DEF Post, At, Holding, IInv, TypeOK, CopiesReal, HeldReal
<1>3. \A c \in act[a].queue : c \in Copy /\ Real(c)
  BY DEF IInv, TypeOK, CopiesReal, QueuedReal
<1>4. act[a].cur.attempts < posts'[act[a].cur.del]
  <2>1. posts'[act[a].cur.del] = posts[act[a].cur.del] + 1
    BY <1>2 DEF Post, IInv, TypeOK, Copy
  <2> QED
    BY <1>2, <2>1 DEF Real, IInv, TypeOK, Copy
<1>5. \A c \in act[a].queue : Real(c)'
  BY <1>3, RealGrows DEF IInv
<1>6. Real(act[a].cur)'
  BY <1>1, <1>2, RealGrows DEF IInv
<1> QED
  BY <1>1, <1>4, <1>5, <1>6, CopiesRealIfMoved

\* Every step keeps the copies real.
LEMMA CopiesStep == IInv /\ [Next]_vars => CopiesReal'
<1> SUFFICES ASSUME IInv, [Next]_vars PROVE CopiesReal'
    OBVIOUS
<1>0. TypeOK /\ TypeOK' /\ CopiesReal
  BY TypeStep DEF IInv
<1>1. ASSUME NEW a \in Actors, Fire(a) \/ WriteLost(a) PROVE CopiesReal'
  BY <1>1, PostReal, ContinueReal DEF Fire, PostRaises, WriteSuccess, WriteRetry, WriteFailed, WriteLost
<1>2. ASSUME NEW w \in Workers, WorkerStep(w) PROVE CopiesReal'
  <2>0. w \in Actors
    BY DEF Actors
  <2>1. ASSUME NEW matched \in SUBSET Hooks, DispatchMatch(w, matched) PROVE CopiesReal'
    <3>1. /\ \A b \in Actors \ {w} : act'[b] = act[b]
          /\ act'[w].queue = {} /\ act'[w].pc = "creating"
      BY <1>0, <2>0, <2>1 DEF DispatchMatch, TypeOK
    <3> QED
      BY <2>0, <3>1, CopiesRealIfMoved DEF Holding
  <2>2. CASE DispatchCreate(w)
    <3>1. PICK new \in Copy : new.del = created + 1 /\ new.attempts = 0
      <4>1. [del |-> created + 1, attempts |-> 0] \in Copy
        BY <2>2 DEF DispatchCreate, Copy
      <4> QED
        BY <4>1
    <3>2. /\ \A b \in Actors \ {w} : act'[b] = act[b]
          /\ act'[w].queue = act[w].queue \union {new}
          /\ act'[w].pc \in {"queue", "creating"}
      <4>1. new = [del |-> created + 1, attempts |-> 0]
        BY <3>1 DEF Copy
      <4> QED
        BY <1>0, <2>0, <2>2, <4>1 DEF DispatchCreate, TypeOK
    <3>3. \A c \in act[w].queue : c \in Copy /\ Real(c)
      BY <1>0, <2>0 DEF TypeOK, CopiesReal, QueuedReal
    <3>4. \A c \in act[w].queue : Real(c)'
      BY <1>0, <3>3, RealGrows
    <3>5. created' = created + 1 /\ new.del \in Rows'
      BY <1>0, <2>2, <3>1 DEF DispatchCreate, Rows, TypeOK
    <3>6. new.attempts <= posts'[new.del]
      BY <1>0, <3>1 DEF TypeOK, Copy
    <3>7. \A c \in act'[w].queue : Real(c)'
      BY <3>2, <3>4, <3>5, <3>6 DEF Real
    <3> QED
      BY <2>0, <3>2, <3>7, CopiesRealIfMoved DEF Holding
  <2>3. CASE DispatchTake(w)
    BY <2>0, <2>3, TakeReal DEF DispatchTake
  <2>4. ASSUME NEW d \in Deliveries, ReplayBegin(w, d) PROVE CopiesReal'
    <3>1. /\ \A b \in Actors \ {w} : act'[b] = act[b]
          /\ act'[w].queue = {} /\ act'[w].pc = "resetting" /\ act'[w].cur = CopyOf(d)
      BY <1>0, <2>0, <2>4 DEF ReplayBegin, TypeOK
    <3>2. CopyOf(d) \in Copy /\ Real(CopyOf(d))
      BY <1>0, <2>4, CopyOfType, Fresh DEF ReplayBegin
    <3>3. Real(act[w].cur)'
      BY <1>0, <3>1, <3>2, RealGrows
    <3> QED
      BY <2>0, <3>1, <3>3, CopiesRealIfMoved
  <2>5. CASE ReplayReset(w)
    <3>1. /\ \A b \in Actors \ {w} : act'[b] = act[b]
          /\ act'[w].queue = act[w].queue
          /\ act'[w].pc = "reread" /\ act'[w].cur = act[w].cur
      BY <1>0, <2>0, <2>5 DEF ReplayReset, Goto, TypeOK
    <3>2. act[w].cur \in Copy /\ Real(act[w].cur)
      BY <1>0, <2>0, <2>5 DEF ReplayReset, At, Holding, TypeOK, CopiesReal, HeldReal
    <3>3. \A c \in act[w].queue : c \in Copy /\ Real(c)
      BY <1>0, <2>0 DEF TypeOK, CopiesReal, QueuedReal
    <3>4. Real(act[w].cur)' /\ \A c \in act[w].queue : Real(c)'
      BY <1>0, <3>1, <3>2, <3>3, RealGrows
    <3> QED
      BY <2>0, <3>1, <3>4, CopiesRealIfMoved
  <2>6. CASE ReplayReread(w)
    <3> DEFINE c == CopyOf(act[w].cur.del)
    <3>1. /\ \A b \in Actors \ {w} : act'[b] = act[b]
          /\ act'[w].queue = {} /\ act'[w].pc = "posting" /\ act'[w].cur = c
      BY <1>0, <2>0, <2>6 DEF ReplayReread, TypeOK
    <3>2. act[w].cur.del \in Rows
      BY <2>0, <2>6, <1>0 DEF ReplayReread, At, Holding, CopiesReal, HeldReal, Real
    <3>3. c \in Copy /\ Real(c)
      BY <1>0, <2>0, <3>2, CopyOfType, Fresh DEF TypeOK, Copy
    <3>4. Real(act[w].cur)'
      BY <1>0, <3>1, <3>3, RealGrows
    <3> QED
      BY <2>0, <3>1, <3>4, CopiesRealIfMoved
  <2> QED
    BY <1>1, <1>2, <2>0, <2>1, <2>2, <2>3, <2>4, <2>5, <2>6 DEF WorkerStep
<1>3. CASE LoopStep
  <2>0. Loop \in Actors
    BY DEF Actors
  <2>1. CASE LoopSelect
    <3>1. /\ \A b \in Actors \ {Loop} : act'[b] = act[b]
          /\ act'[Loop].queue \subseteq {CopyOf(d) : d \in Rows}
          /\ act'[Loop].pc = "queue"
      BY <1>0, <2>0, <2>1 DEF LoopSelect, TypeOK
    <3>2. ASSUME NEW d \in Rows PROVE CopyOf(d) \in Copy /\ Real(CopyOf(d))
      <4>1. d \in Deliveries
        BY <1>0, WebhookAssumption DEF TypeOK, Rows, Deliveries
      <4> QED
        BY <1>0, <4>1, CopyOfType, Fresh
    <3>3. ASSUME NEW c \in act'[Loop].queue PROVE Real(c)'
      <4>1. PICK d \in Rows : c = CopyOf(d)
        BY <3>1
      <4>2. c \in Copy /\ Real(c)
        BY <3>2, <4>1
      <4> QED
        BY <1>0, <4>2, RealGrows
    <3> QED
      BY <2>0, <3>1, <3>3, CopiesRealIfMoved DEF Holding
  <2>2. CASE LoopTake
    BY <2>0, <2>2, TakeReal DEF LoopTake
  <2>3. CASE LoopDrop
    BY <2>0, <2>3, ContinueReal DEF LoopDrop
  <2> QED
    BY <1>1, <1>3, <2>0, <2>1, <2>2, <2>3 DEF LoopStep
<1>4. CASE \/ \E h \in Hooks : SetActive(h)
           \/ \E d \in Deliveries : CallsChange(d) \/ TimePasses(d)
           \/ UNCHANGED vars
  BY <1>0, <1>4 DEF SetActive, CallsChange, TimePasses, vars, CopiesReal, QueuedReal, HeldReal,
     PostedReal, AckedReal, Real, Rows
<1>5. CASE Crash
  BY <1>5 DEF Crash, Idle, CopiesReal, QueuedReal, HeldReal, PostedReal, AckedReal, Holding
<1>6. ASSUME NEW a \in Actors, CallRaises(a) PROVE CopiesReal'
  <2>1. /\ \A b \in Actors \ {a} : act'[b] = act[b]
        /\ act'[a].queue = {} /\ act'[a].pc = "idle"
    BY <1>0, <1>6 DEF CallRaises, Idle, TypeOK
  <2> QED
    BY <2>1, CopiesRealIfMoved DEF Holding
<1> QED
  BY <1>1, <1>2, <1>3, <1>4, <1>5, <1>6 DEF Next

-----------------------------------------------------------------------------
(* What a row may say.                                                      *)

Honest(d, r) ==
    /\ r.attempts <= posts[d]
    /\ r.status = "failed" /\ r.error = "http" => posts[d] >= MaxAttempts
    /\ r.status = "success" => d \in acked

HonestRows == \A d \in Rows : Honest(d, row[d])

LEMMA HonestIsEnough ==
    HonestRows <=> AttemptsAreReal /\ NeverGivesUpEarly /\ SuccessWasAcked
BY DEF HonestRows, Honest, AttemptsAreReal, NeverGivesUpEarly, SuccessWasAcked

\* A row no step writes stays honest.
LEMMA HonestGrows ==
    ASSUME IInv, [Next]_vars, NEW d \in Rows, Honest(d, row[d]), row'[d] = row[d]
    PROVE  Honest(d, row[d])'
<1>1. /\ posts[d] \in Nat /\ posts'[d] \in Nat /\ posts[d] <= posts'[d]
      /\ acked \subseteq acked' /\ row[d].attempts \in Nat
  BY Grows, TypeStep DEF IInv, TypeOK
<1> QED
  BY <1>1 DEF Honest, MaxAttempts

\* It is enough to look at the row a step patches, after the step.
LEMMA HonestPatch ==
    ASSUME IInv, HonestRows, [Next]_vars, Rows' = Rows,
           NEW d \in Deliveries, NEW st, NEW n, NEW nx, NEW er,
           Patch(d, st, n, nx, er),
           n <= posts'[d],
           st = "failed" /\ er = "http" => posts'[d] >= MaxAttempts,
           st = "success" => d \in acked'
    PROVE  HonestRows'
<1>1. /\ \A e \in Deliveries \ {d} : row'[e] = row[e]
      /\ row'[d].attempts = n /\ row'[d].status = st /\ row'[d].error = er
  BY DEF Patch, IInv, TypeOK
<1>2. ASSUME NEW e \in Rows' PROVE Honest(e, row[e])'
  <2>1. CASE e = d
    BY <1>1, <2>1 DEF Honest
  <2>2. CASE e # d
    <3>1. e \in Rows /\ row'[e] = row[e]
      BY <1>1, <1>2, <2>2, Grows DEF IInv
    <3> QED
      BY <3>1, HonestGrows DEF HonestRows
  <2> QED
    BY <2>1, <2>2
<1> QED
  BY <1>2 DEF HonestRows

\* A failure is written only when the copy's budget is spent.
LEMMA BudgetSpent == \A n \in Nat : NextDelay(n) = 0 => n >= MaxAttempts
BY DEF NextDelay, RetryBackoff, MaxAttempts

\* The writes of fire_delivery keep the rows honest.
LEMMA WriteHonest ==
    ASSUME IInv, HonestRows, [Next]_vars, NEW a \in Actors,
           WriteSuccess(a) \/ WriteRetry(a) \/ WriteFailed(a)
    PROVE  HonestRows'
<1> DEFINE d == act[a].cur.del
           n == act[a].cur.attempts + 1
<1>1. d \in Deliveries /\ n \in Nat /\ posts[d] \in Nat /\ n <= posts[d]
  BY DEF WriteSuccess, WriteRetry, WriteFailed, At, IInv, TypeOK, Copy, CopiesReal,
     PostedReal
<1>2. posts' = posts /\ acked' = acked /\ Rows' = Rows
  BY DEF WriteSuccess, WriteRetry, WriteFailed, Rows
<1>3. CASE WriteSuccess(a)
  <2>1. d \in acked
    BY <1>3 DEF WriteSuccess, At, IInv, CopiesReal, AckedReal
  <2>2. Patch(d, "success", n, "null", "null")
    BY <1>3 DEF WriteSuccess
  <2> HIDE DEF d, n
  <2> QED
    BY <1>1, <1>2, <2>1, <2>2, HonestPatch
<1>4. CASE WriteRetry(a)
  <2>1. Patch(d, "retry", n, "later", "http")
    BY <1>4 DEF WriteRetry
  <2> HIDE DEF d, n
  <2> QED
    BY <1>1, <1>2, <2>1, HonestPatch
<1>5. CASE WriteFailed(a)
  <2>1. Patch(d, "failed", n, "null", "http") /\ NextDelay(n) = 0
    BY <1>5 DEF WriteFailed
  <2> HIDE DEF d, n
  <2>2. posts[d] >= MaxAttempts
    BY <1>1, <2>1, BudgetSpent DEF MaxAttempts
  <2> QED
    BY <1>1, <1>2, <2>1, <2>2, HonestPatch
<1> QED
  BY <1>3, <1>4, <1>5

\* Every step keeps the rows honest.
LEMMA HonestStep == IInv /\ [Next]_vars => HonestRows'
<1> SUFFICES ASSUME IInv, [Next]_vars PROVE HonestRows'
    OBVIOUS
<1>0. TypeOK /\ TypeOK' /\ HonestRows /\ CopiesReal
  BY TypeStep, HonestIsEnough DEF IInv
<1>1. ASSUME row' = row, Rows' = Rows PROVE HonestRows'
  BY <1>0, <1>1, HonestGrows DEF HonestRows
<1>2. ASSUME NEW a \in Actors, Fire(a) \/ WriteLost(a) PROVE HonestRows'
  <2>1. CASE Post(a) \/ PostRaises(a) \/ WriteLost(a)
    BY <1>1, <2>1 DEF Post, PostRaises, WriteLost, Rows
  <2> QED
    BY <1>0, <1>2, <2>1, WriteHonest DEF Fire
<1>3. ASSUME NEW w \in Workers, WorkerStep(w) PROVE HonestRows'
  <2>0. w \in Actors
    BY DEF Actors
  <2>1. CASE \/ \E matched \in SUBSET Hooks : DispatchMatch(w, matched)
             \/ DispatchTake(w)
             \/ \E d \in Deliveries : ReplayBegin(w, d)
             \/ ReplayReread(w)
    BY <1>1, <2>1 DEF DispatchMatch, DispatchTake, Take, ReplayBegin, ReplayReread, Rows
  <2>2. CASE DispatchCreate(w)
    <3>1. /\ created' = created + 1 /\ created + 1 \in Deliveries
          /\ \A d \in Deliveries \ {created + 1} : row'[d] = row[d]
          /\ row'[created + 1].attempts = 0 /\ row'[created + 1].status = "pending"
      BY <1>0, <2>2 DEF DispatchCreate, TypeOK
    <3>2. ASSUME NEW d \in Rows' PROVE Honest(d, row[d])'
      <4>1. CASE d = created + 1
        BY <1>0, <3>1, <4>1 DEF Honest, TypeOK
      <4>2. CASE d # created + 1
        <5>1. d \in Rows /\ row'[d] = row[d]
          BY <1>0, <3>1, <3>2, <4>2, Grows DEF Rows, TypeOK
        <5> QED
          BY <1>0, <5>1, HonestGrows DEF HonestRows
      <4> QED
        BY <4>1, <4>2
    <3> QED
      BY <3>2 DEF HonestRows
  <2>3. CASE ReplayReset(w)
    <3> DEFINE d == act[w].cur.del
    <3>1. d \in Rows /\ d \in Deliveries
      BY <1>0, <2>0, <2>3 DEF ReplayReset, At, Holding, TypeOK, Copy, CopiesReal, HeldReal, Real
    <3>2. Patch(d, "pending", row[d].attempts, "null", "null") /\ posts' = posts /\ Rows' = Rows
      BY <2>3 DEF ReplayReset, Rows
    <3>3. row[d].attempts <= posts'[d]
      BY <1>0, <3>1, <3>2 DEF HonestRows, Honest
    <3> HIDE DEF d
    <3> QED
      BY <1>0, <3>1, <3>2, <3>3, HonestPatch
  <2> QED
    BY <1>2, <1>3, <2>0, <2>1, <2>2, <2>3 DEF WorkerStep
<1>4. CASE LoopStep
  <2>0. Loop \in Actors
    BY DEF Actors
  <2>1. CASE LoopSelect \/ LoopTake
    BY <1>1, <2>1 DEF LoopSelect, LoopTake, Take, Rows
  <2>2. CASE LoopDrop
    <3> DEFINE d == act[Loop].cur.del
    <3>1. d \in Rows /\ d \in Deliveries
      BY <1>0, <2>0, <2>2 DEF LoopDrop, At, Holding, TypeOK, Copy, CopiesReal, HeldReal, Real
    <3>2. Patch(d, "failed", row[d].attempts, "null", "inactive") /\ posts' = posts /\ Rows' = Rows
      BY <2>2 DEF LoopDrop, Rows
    <3>3. row[d].attempts <= posts'[d]
      BY <1>0, <3>1, <3>2 DEF HonestRows, Honest
    <3> HIDE DEF d
    <3> QED
      BY <1>0, <3>1, <3>2, <3>3, HonestPatch
  <2> QED
    BY <1>2, <1>4, <2>0, <2>1, <2>2 DEF LoopStep
<1>5. ASSUME NEW d \in Deliveries, TimePasses(d) PROVE HonestRows'
  <2>1. /\ \A e \in Deliveries : /\ row'[e].status = row[e].status
                                 /\ row'[e].attempts = row[e].attempts
                                 /\ row'[e].error = row[e].error
        /\ Rows' = Rows /\ posts' = posts /\ acked' = acked
    BY <1>0, <1>5 DEF TimePasses, TypeOK, Rows
  <2>2. Rows \subseteq Deliveries
    BY <1>0, WebhookAssumption DEF TypeOK, Rows, Deliveries
  <2> QED
    BY <1>0, <2>1, <2>2 DEF HonestRows, Honest
<1>6. CASE \/ \E a \in Actors : CallRaises(a)
           \/ \E h \in Hooks : SetActive(h)
           \/ \E d \in Deliveries : CallsChange(d)
           \/ Crash \/ UNCHANGED vars
  BY <1>1, <1>6 DEF CallRaises, SetActive, CallsChange, Crash, vars, Rows
<1> QED
  BY <1>2, <1>3, <1>4, <1>5, <1>6 DEF Next

LEMMA IInvStep == IInv /\ [Next]_vars => IInv'
<1> SUFFICES ASSUME IInv, [Next]_vars PROVE IInv'
    OBVIOUS
<1>1. TypeOK' /\ CopiesReal' /\ HonestRows'
  BY TypeStep, CopiesStep, HonestStep DEF IInv
<1> QED
  BY <1>1 DEF IInv, HonestRows, Honest, AttemptsAreReal, NeverGivesUpEarly, SuccessWasAcked

LEMMA Invariance == Spec => []IInv
BY IInvInit, IInvStep, PTL DEF Spec

\* The attempts column never counts a POST that was not made.
THEOREM AttemptsAlwaysReal == Spec => []AttemptsAreReal
<1>1. IInv => AttemptsAreReal
  BY DEF IInv
<1> QED
  BY <1>1, Invariance, PTL

\* No delivery is given up before its budget is spent, unless its webhook was
\* inactive: a stale copy can only lengthen the budget, never shorten it.
THEOREM NeverGivesUpEarlyHolds == Spec => []NeverGivesUpEarly
<1>1. IInv => NeverGivesUpEarly
  BY DEF IInv
<1> QED
  BY <1>1, Invariance, PTL

\* A delivery that reads "success" was answered 2xx at least once.
THEOREM SuccessAlwaysAcked == Spec => []SuccessWasAcked
<1>1. IInv => SuccessWasAcked
  BY DEF IInv
<1> QED
  BY <1>1, Invariance, PTL

-----------------------------------------------------------------------------
(* What is settled stays settled.                                           *)

\* No retry time is left in a settled row.
QuietRow(r) == r.status \in Settled => r.next = "null"
SettledIsQuiet == \A d \in Deliveries : QuietRow(row[d])

LEMMA PatchQuiet ==
    ASSUME TypeOK, SettledIsQuiet, NEW d, NEW st, NEW n, NEW nx, NEW er,
           Patch(d, st, n, nx, er), st \in Settled => nx = "null"
    PROVE  SettledIsQuiet'
BY DEF TypeOK, SettledIsQuiet, QuietRow, Patch

LEMMA QuietStep == TypeOK /\ SettledIsQuiet /\ [Next]_vars => SettledIsQuiet'
<1> SUFFICES ASSUME TypeOK, SettledIsQuiet, [Next]_vars PROVE SettledIsQuiet'
    OBVIOUS
<1>1. CASE UNCHANGED row
  BY <1>1 DEF SettledIsQuiet
<1>2. ASSUME NEW a \in Actors, WriteSuccess(a) \/ WriteRetry(a) \/ WriteFailed(a)
      PROVE  SettledIsQuiet'
  BY <1>2, PatchQuiet DEF WriteSuccess, WriteRetry, WriteFailed, Settled
<1>3. ASSUME NEW w \in Workers, ReplayReset(w) PROVE SettledIsQuiet'
  BY <1>3, PatchQuiet DEF ReplayReset, Settled
<1>4. CASE LoopDrop
  BY <1>4, PatchQuiet DEF LoopDrop
<1>5. ASSUME NEW w \in Workers, DispatchCreate(w) PROVE SettledIsQuiet'
  BY <1>5 DEF DispatchCreate, SettledIsQuiet, QuietRow, Settled, TypeOK
<1>6. ASSUME NEW d \in Deliveries, TimePasses(d) PROVE SettledIsQuiet'
  BY <1>6 DEF TimePasses, SettledIsQuiet, QuietRow, TypeOK
<1> QED
  BY <1>1, <1>2, <1>3, <1>4, <1>5, <1>6 DEF Next, WorkerStep, LoopStep, Fire, DispatchMatch,
     DispatchTake, Take, ReplayBegin, ReplayReread, LoopSelect, LoopTake, Post, PostRaises,
     WriteLost, CallRaises, CallsChange, SetActive, Crash, vars, Actors

\* What the actor holds of d: a copy in its queue, or the one in its hands.
HeldBy(a, d) ==
    \/ \E c \in act[a].queue : c.del = d
    \/ act[a].pc \in Holding /\ act[a].cur.del = d

LEMMA HeldIsHeldBy == \A d : Held(d) <=> \E a \in Actors : HeldBy(a, d)
BY DEF Held, HeldBy, Holding

\* If only a moves, and not towards d, nobody comes to hold d.
LEMMA NobodyTakes ==
    ASSUME NEW d, ~Held(d), NEW a \in Actors,
           \A b \in Actors \ {a} : act'[b] = act[b], ~HeldBy(a, d)'
    PROVE  ~Held(d)'
BY HeldIsHeldBy DEF Held, HeldBy, Holding

\* An actor that goes on to its next copy, or takes it, holds nothing new.
LEMMA ContinueTakesNothing ==
    ASSUME TypeOK, NEW d, ~Held(d), NEW a \in Actors, Continue(a)
    PROVE  ~Held(d)'
<1>1. /\ \A b \in Actors \ {a} : act'[b] = act[b]
      /\ act'[a].queue = act[a].queue /\ act'[a].pc \in {"idle", "queue"}
  BY DEF Continue, TypeOK
<1> QED
  BY <1>1, HeldIsHeldBy, NobodyTakes DEF HeldBy, Holding

LEMMA TakeTakesNothing ==
    ASSUME TypeOK, NEW d, ~Held(d), NEW a \in Actors, NEW c \in act[a].queue, NEW pc,
           Take(a, c, pc)
    PROVE  ~Held(d)'
<1>1. /\ \A b \in Actors \ {a} : act'[b] = act[b]
      /\ act'[a].queue \subseteq act[a].queue /\ act'[a].cur = c
  BY DEF Take, TypeOK
<1> QED
  BY <1>1, HeldIsHeldBy, NobodyTakes DEF HeldBy

\* An actor's own copy is held: the row it writes is not one nobody holds.
LEMMA PatchElsewhere ==
    ASSUME TypeOK, NEW d \in Deliveries, ~Held(d), NEW a \in Actors, act[a].pc \in Holding,
           NEW st, NEW n, NEW nx, NEW er, Patch(act[a].cur.del, st, n, nx, er)
    PROVE  row'[d] = row[d]
<1>1. act[a].cur.del # d
  BY HeldIsHeldBy DEF HeldBy
<1> QED
  BY <1>1 DEF Patch, TypeOK

\* The steps of fire_delivery, done or lost.
LEMMA SettledFire ==
    ASSUME TypeOK, NEW d \in Deliveries, ~Held(d), NEW a \in Actors, Fire(a) \/ WriteLost(a)
    PROVE  row'[d] = row[d] /\ posts'[d] = posts[d] /\ ~Held(d)'
<1>1. CASE Post(a)
  <2>1. act[a].cur.del # d
    BY <1>1, HeldIsHeldBy DEF Post, At, HeldBy, Holding
  <2>2. row' = row /\ posts'[d] = posts[d]
    BY <1>1, <2>1 DEF Post, TypeOK
  <2>3. /\ \A b \in Actors \ {a} : act'[b] = act[b]
        /\ act'[a].queue = act[a].queue /\ act'[a].cur = act[a].cur
    BY <1>1 DEF Post, Goto, TypeOK
  <2> QED
    BY <2>1, <2>2, <2>3, HeldIsHeldBy, NobodyTakes DEF HeldBy
<1>2. CASE WriteSuccess(a) \/ WriteRetry(a) \/ WriteFailed(a)
  <2>1. act[a].pc \in Holding /\ posts' = posts /\ Continue(a)
    BY <1>2 DEF WriteSuccess, WriteRetry, WriteFailed, At, Holding
  <2>2. row'[d] = row[d]
    BY <1>2, <2>1, PatchElsewhere DEF WriteSuccess, WriteRetry, WriteFailed
  <2> QED
    BY <2>1, <2>2, ContinueTakesNothing
<1>3. CASE PostRaises(a) \/ WriteLost(a)
  BY <1>3, ContinueTakesNothing DEF PostRaises, WriteLost
<1> QED
  BY <1>1, <1>2, <1>3 DEF Fire

\* The steps of a dispatch or a replay.
LEMMA SettledWorker ==
    ASSUME TypeOK, NEW d \in Rows, d \in Deliveries, ~Held(d), NEW w \in Workers, WorkerStep(w)
    PROVE  row'[d] = row[d] /\ posts'[d] = posts[d] /\ (Held(d)' => replays' > replays)
<1>0. w \in Actors
  BY DEF Actors
<1>1. ASSUME NEW matched \in SUBSET Hooks, DispatchMatch(w, matched)
      PROVE  row' = row /\ posts' = posts /\ ~Held(d)'
  <2>1. /\ \A b \in Actors \ {w} : act'[b] = act[b]
        /\ act'[w].queue = {} /\ act'[w].pc = "creating"
    BY <1>0, <1>1 DEF DispatchMatch, TypeOK
  <2> QED
    BY <1>0, <1>1, <2>1, NobodyTakes DEF DispatchMatch, HeldBy, Holding
<1>2. CASE DispatchCreate(w)
  <2>1. d # created + 1
    BY DEF Rows, TypeOK
  <2>2. /\ \A b \in Actors \ {w} : act'[b] = act[b]
        /\ act'[w].queue = act[w].queue \union {[del |-> created + 1, attempts |-> 0]}
        /\ act'[w].pc \in {"queue", "creating"}
    BY <1>0, <1>2 DEF DispatchCreate, TypeOK
  <2>3. ~HeldBy(w, d)'
    BY <1>0, <2>1, <2>2, HeldIsHeldBy DEF HeldBy, Holding
  <2> QED
    BY <1>0, <1>2, <2>1, <2>2, <2>3, NobodyTakes DEF DispatchCreate, TypeOK
<1>3. CASE DispatchTake(w)
  BY <1>0, <1>3, TakeTakesNothing DEF DispatchTake, Take
<1>4. ASSUME NEW e \in Deliveries, ReplayBegin(w, e)
      PROVE  row' = row /\ posts' = posts /\ replays' > replays
  BY <1>4 DEF ReplayBegin, TypeOK
<1>5. CASE ReplayReset(w)
  <2>1. act[w].pc \in Holding /\ act[w].cur.del # d
    BY <1>0, <1>5, HeldIsHeldBy DEF ReplayReset, At, HeldBy, Holding
  <2>2. /\ \A b \in Actors \ {w} : act'[b] = act[b]
        /\ act'[w].queue = act[w].queue /\ act'[w].cur = act[w].cur
    BY <1>0, <1>5 DEF ReplayReset, Goto, TypeOK
  <2>3. row'[d] = row[d]
    BY <1>0, <1>5, <2>1, PatchElsewhere DEF ReplayReset
  <2> QED
    BY <1>0, <1>5, <2>1, <2>2, <2>3, HeldIsHeldBy, NobodyTakes DEF ReplayReset, HeldBy
<1>6. CASE ReplayReread(w)
  <2>1. act[w].cur.del # d
    BY <1>0, <1>6, HeldIsHeldBy DEF ReplayReread, At, HeldBy, Holding
  <2>2. /\ \A b \in Actors \ {w} : act'[b] = act[b]
        /\ act'[w].queue = {} /\ act'[w].cur.del = act[w].cur.del
    BY <1>0, <1>6 DEF ReplayReread, CopyOf, TypeOK
  <2> QED
    BY <1>0, <1>6, <2>1, <2>2, NobodyTakes DEF ReplayReread, HeldBy
<1> QED
  BY <1>0, <1>1, <1>2, <1>3, <1>4, <1>5, <1>6, SettledFire DEF WorkerStep

\* The steps of the retry loop: a settled row is not due.
LEMMA SettledLoop ==
    ASSUME TypeOK, NEW d \in Deliveries, row[d].status \in Settled, ~Held(d), LoopStep
    PROVE  row'[d] = row[d] /\ posts'[d] = posts[d] /\ ~Held(d)'
<1>0. Loop \in Actors
  BY DEF Actors
<1>1. CASE LoopSelect
  <2>1. /\ \A b \in Actors \ {Loop} : act'[b] = act[b]
        /\ act'[Loop].queue \subseteq {CopyOf(e) : e \in {f \in Rows : Due(f)}}
        /\ act'[Loop].pc = "queue"
    BY <1>0, <1>1 DEF LoopSelect, TypeOK
  <2>2. ~Due(d)
    BY DEF Due, Open, Settled
  <2>3. ~HeldBy(Loop, d)'
    BY <2>1, <2>2 DEF HeldBy, Holding, CopyOf
  <2> QED
    BY <1>0, <1>1, <2>1, <2>3, NobodyTakes DEF LoopSelect
<1>2. CASE LoopTake
  BY <1>0, <1>2, TakeTakesNothing DEF LoopTake, Take
<1>3. CASE LoopDrop
  <2>1. act[Loop].pc \in Holding
    BY <1>3 DEF LoopDrop, At, Holding
  <2>2. row'[d] = row[d]
    BY <1>0, <1>3, <2>1, PatchElsewhere DEF LoopDrop
  <2> QED
    BY <1>0, <1>3, <2>2, ContinueTakesNothing DEF LoopDrop
<1> QED
  BY <1>0, <1>1, <1>2, <1>3, SettledFire DEF LoopStep

\* Nothing but a replay comes back to a delivery that is settled and that no
\* actor holds.
LEMMA SettledStep ==
    ASSUME TypeOK, SettledIsQuiet, [Next]_vars,
           NEW d \in Rows, row[d].status \in Settled, ~Held(d)
    PROVE  row'[d] = row[d] /\ posts'[d] = posts[d] /\ (Held(d)' => replays' > replays)
<1>0. d \in Deliveries
  BY WebhookAssumption DEF TypeOK, Rows, Deliveries
<1>1. ASSUME NEW a \in Actors, CallRaises(a)
      PROVE  row' = row /\ posts' = posts /\ ~Held(d)'
  <2>1. /\ \A b \in Actors \ {a} : act'[b] = act[b]
        /\ act'[a].queue = {} /\ act'[a].pc = "idle"
    BY <1>1 DEF CallRaises, Idle, TypeOK
  <2> QED
    BY <1>1, <2>1, NobodyTakes DEF CallRaises, HeldBy, Holding
<1>2. CASE Crash
  BY <1>2 DEF Crash, Idle, Held
<1>3. ASSUME NEW e \in Deliveries, TimePasses(e)
      PROVE  row'[d] = row[d] /\ posts' = posts /\ act' = act
  <2>1. e # d
    BY <1>0, <1>3 DEF TimePasses, SettledIsQuiet, QuietRow
  <2> QED
    BY <1>3, <2>1 DEF TimePasses, TypeOK
<1>4. CASE \/ \E h \in Hooks : SetActive(h)
           \/ \E e \in Deliveries : CallsChange(e)
           \/ UNCHANGED vars
  BY <1>4 DEF SetActive, CallsChange, vars, Held
<1>5. ASSUME act' = act PROVE ~Held(d)'
  BY <1>5 DEF Held
<1> QED
  BY <1>0, <1>1, <1>2, <1>3, <1>4, <1>5, SettledFire, SettledWorker, SettledLoop DEF Next

\* Once a delivery is settled and no actor holds a copy of it, it is neither
\* posted nor rewritten, whatever else is dispatched, retried, deactivated,
\* lost or restarted; only an operator's replay picks it up again.
THEOREM SettledAlwaysStaysSettled == Spec => SettledStaysSettled
<1>1. Init => SettledIsQuiet
  BY DEF Init, SettledIsQuiet, QuietRow, Settled
<1>2. TypeOK /\ SettledIsQuiet /\ [Next]_vars =>
        [\A d \in Rows :
           row[d].status \in Settled /\ ~Held(d) =>
             /\ row'[d] = row[d]
             /\ posts'[d] = posts[d]
             /\ Held(d)' => replays' > replays]_vars
  BY SettledStep
<1> QED
  BY <1>1, <1>2, TypeCorrect, QuietStep, PTL DEF Spec, SettledStaysSettled
=============================================================================
