------------------------------- MODULE Project -------------------------------
(***************************************************************************)
(* The scheduler of project.rs: scripts (hat blocks) that start processes, *)
(* the slot map of processes, and the round-robin queue of process keys.   *)
(* A call of the public interface (input, step, add_script) is one action. *)
(*                                                                         *)
(* What an instruction does inside a process is left to the process: the   *)
(* model lets a process take any step ProcessStep can name.  Of a process  *)
(* only what the scheduler depends on is kept, among it the barrier it     *)
(* holds (as receiver of a broadcast) and whether it waits on a barrier    *)
(* (as sender).  A barrier is named by the key of the process that made    *)
(* it, which waits on at most one barrier at a time.                       *)
(*                                                                         *)
(* A process key is an opaque value.  Module SlotMap shows that insert()   *)
(* never returns a key that was issued before; here it returns a key that  *)
(* nothing in the project holds any longer.                                *)
(***************************************************************************)
EXTENDS Integers, Sequences, FiniteSets, SequencesExt, IndexOrder

CONSTANTS
  Key,          \* process keys
  NoKey,        \* Option::None, of a key or a barrier
  Data,         \* what network messages carry
  Locals,       \* what the host passes to custom events
  NoData,       \* what the default context carries
  KeyCode,      \* keyboard keys
  Name,         \* names of messages and custom events
  AnyName,      \* the filter of a hat that takes every key or message
  InitScripts,  \* the scripts of the project: a sequence of [event, entity]
  Originals,    \* the number of entities that are not clones
  NewHats,      \* the [event, entity] the host may add scripts for
  MaxQueues,    \* the max_queue values the host passes to custom events
  MaxScripts,   \* bound: scripts, those of clones included
  MaxLength,    \* bound: process queue length at which nothing new is begun
  MaxPending,   \* bound: contexts a script holds when a message is delivered
  MaxOthers,    \* bound: processes that are no script's when one is forked
  MaxTargets    \* bound: entities a broadcast lists, unless it goes to all

EventType ==
  {"OnFlag", "OnKey", "OnClone", "LocalMessage", "NetworkMessage", "Custom"}
Event == [type : EventType, name : Name \union KeyCode \union {AnyName}]
Hat == [event : Event, entity : 1 .. MaxScripts]

ASSUME ScriptAssumption ==
  /\ MaxScripts \in Nat
  /\ InitScripts \in Seq(Hat)
  /\ Len(InitScripts) <= MaxScripts
ASSUME MessageAssumption ==   \* a hat of network messages names its messages
  \A i \in DOMAIN InitScripts :
    InitScripts[i].event.type = "NetworkMessage" =>
      InitScripts[i].event.name # AnyName
ASSUME NewHatsAssumption == NewHats \subseteq Hat
ASSUME OriginalsAssumption ==   \* a project comes without clones
  /\ Originals \in 1 .. MaxScripts
  /\ \A i \in DOMAIN InitScripts : InitScripts[i].entity <= Originals
ASSUME KeyAssumption == IsFiniteSet(Key) /\ Key \subseteq Nat /\ NoKey \notin Key
ASSUME DataAssumption == NoData \notin Data
ASSUME QueueAssumption == MaxQueues \subseteq Nat /\ MaxQueues # {}

VARIABLES
  proj,   \* Project: slot map of processes, queue of keys, scripts
  roots   \* the entities: the root of a clone, an original itself

vars == <<proj, roots>>

Payload == Data \union Locals \union Name \union {NoData}
Context == [data : Payload, barrier : Key \union {NoKey}]
Process == [entity : Nat, running : BOOLEAN, waiting : BOOLEAN,
            data : Payload, barrier : Key \union {NoKey}]
Script == [event : Event, entity : Nat, process : Key \union {NoKey},
           context_queue : Seq(Context)]

DefaultContext == [data |-> NoData, barrier |-> NoKey]

\* Process::new: idle until it is initialized.
NewProcess(entity) ==
  [entity |-> entity, running |-> FALSE, waiting |-> FALSE,
   data |-> NoData, barrier |-> NoKey]

\* Mutant of Initialized: forgets to set running.
NotRunning(p, context) ==
  [p EXCEPT !.waiting = FALSE, !.data = context.data, !.barrier = context.barrier]

\* Process::initialize: whatever the process was is wiped.
Initialized(p, context) ==
  [p EXCEPT !.running = TRUE, !.waiting = FALSE,
            !.data = context.data, !.barrier = context.barrier]

NewScript(hat) ==
  [event |-> hat.event, entity |-> hat.entity,
   process |-> NoKey, context_queue |-> <<>>]
-----------------------------------------------------------------------------
(* The slot map: live keys, and the keys its insertions may return.        *)

Live(s) == DOMAIN s.processes

Held(s) ==
  Live(s) \union Range(s.queue)
    \union {s.scripts[i].process : i \in DOMAIN s.scripts}
    \union {s.processes[k].barrier : k \in Live(s)}
    \union UNION {{c.barrier : c \in Range(s.scripts[i].context_queue)} :
                    i \in DOMAIN s.scripts}

Free(s) == Key \ Held(s)

\* Keys one call may be given: one per script when pending contexts are
\* consumed, one per script for what the call starts, one for a fork.
KeySupply(s) ==
  LET free == InOrder(Free(s))
  IN  [consume |-> [i \in 1 .. MaxScripts |-> free[i]],
       start   |-> [i \in 1 .. MaxScripts |-> free[MaxScripts + i]],
       fork    |-> free[2 * MaxScripts + 1]]

KeysSuffice == Cardinality(Free(proj)) >= 2 * MaxScripts + 1

InsertProcess(s, k, p) ==
  [s EXCEPT !.processes = [j \in Live(s) \union {k} |->
                             IF j = k THEN p ELSE s.processes[j]]]

RemoveProcesses(s, K) ==
  [s EXCEPT !.processes = [j \in Live(s) \ K |-> s.processes[j]]]

\* SlotMap::get_mut and a write: nothing happens to a key that is stale.
SetWaiting(s, k, waiting) ==
  [s EXCEPT !.processes = [j \in Live(s) |->
     IF j = k THEN [s.processes[j] EXCEPT !.waiting = waiting]
              ELSE s.processes[j]]]
-----------------------------------------------------------------------------
(* Operations on scripts.  The loops of the code run these one script at a *)
(* time, in script order; no iteration reads what another one writes       *)
(* except the queue, which therefore grows in script order.                *)

IsRunning(s, i) ==
  LET k == s.scripts[i].process
  IN  k \in Live(s) /\ s.processes[k].running

\* Scripts whose consume_context does not return early.
Ready(s) ==
  {i \in DOMAIN s.scripts :
     ~ IsRunning(s, i) /\ s.scripts[i].context_queue # <<>>}

\* Mutant of TargetKey: without a new key when the remembered one is stale.
RememberedKey(s, i, keys) == s.scripts[i].process

\* The key under which consume_context runs a script: its live process is
\* initialized anew, and without one a new process is inserted.
TargetKey(s, i, keys) ==
  IF s.scripts[i].process \in Live(s) THEN s.scripts[i].process ELSE keys[i]

\* consume_context on each script of R, all of them ready.
ConsumeContexts(s, R, keys) ==
  LET order  == InOrder(R)
      target == [i \in R |-> TargetKey(s, i, keys)]
      origin(k) == CHOOSE i \in R : target[i] = k
      begun(i) == Initialized(NewProcess(s.scripts[i].entity),
                              Head(s.scripts[i].context_queue))
      started == {target[i] : i \in R}
  IN  [processes |-> [k \in Live(s) \union started |->
                        IF k \in started THEN begun(origin(k))
                                         ELSE s.processes[k]],
       queue |-> s.queue \o [n \in DOMAIN order |-> target[order[n]]],
       scripts |-> [i \in DOMAIN s.scripts |->
                      IF i \in R
                        THEN [s.scripts[i] EXCEPT !.process = target[i],
                                                  !.context_queue = Tail(@)]
                        ELSE s.scripts[i]]]

\* AllContextsConsumer::do_once, when it has not been called yet.
ConsumeAll(s, keys) == ConsumeContexts(s, Ready(s), keys)

DoOnce(s, did_it, keys) == IF did_it THEN s ELSE ConsumeAll(s, keys)

\* stop_all on each script of R; the queue keeps the keys, now stale.
StopAll(s, R) ==
  [RemoveProcesses(s, {s.scripts[i].process : i \in R}) EXCEPT !.scripts =
     [i \in DOMAIN s.scripts |->
        IF i \in R THEN [s.scripts[i] EXCEPT !.process = NoKey,
                                             !.context_queue = <<>>]
                   ELSE s.scripts[i]]]

\* Mutant of PushContexts: last in, first out.
PushContextsInFront(s, R, context) ==
  [s EXCEPT !.scripts = [i \in DOMAIN s.scripts |->
     IF i \in R THEN [s.scripts[i] EXCEPT !.context_queue = <<context>> \o @]
                ELSE s.scripts[i]]]

PushContexts(s, R, context) ==
  [s EXCEPT !.scripts = [i \in DOMAIN s.scripts |->
     IF i \in R THEN [s.scripts[i] EXCEPT !.context_queue = Append(@, context)]
                ELSE s.scripts[i]]]

\* Mutant of DropBeyond: off by one.
DropBeyondNext(s, R, max_queue) ==
  [s EXCEPT !.scripts = [i \in DOMAIN s.scripts |->
     LET q == s.scripts[i].context_queue
     IN  IF i \in R /\ Len(q) > max_queue + 1
           THEN [s.scripts[i] EXCEPT !.context_queue = Front(q)]
           ELSE s.scripts[i]]]

DropBeyond(s, R, max_queue) ==
  [s EXCEPT !.scripts = [i \in DOMAIN s.scripts |->
     LET q == s.scripts[i].context_queue
     IN  IF i \in R /\ Len(q) > max_queue
           THEN [s.scripts[i] EXCEPT !.context_queue = Front(q)]
           ELSE s.scripts[i]]]

\* schedule() on each script of R with usize::MAX as max_queue.
ScheduleUnlimited(s, R, context, keys) ==
  LET pushed == PushContexts(s, R, context)
  IN  ConsumeContexts(pushed, Ready(pushed) \intersect R, keys)

\* Mutant of Schedule: forgets the limit.
ScheduleWithoutDrop(s, R, context, max_queue, keys) ==
  ScheduleUnlimited(s, R, context, keys)

\* schedule() on each script of R: beyond max_queue the new context is lost.
Schedule(s, R, context, max_queue, keys) ==
  DropBeyond(ScheduleUnlimited(s, R, context, keys), R, max_queue)

\* Mutant of Restart: receivers are not stopped.
QueueInstead(s, R, context, did_it, supply) ==
  IF R = {} THEN s
  ELSE ScheduleUnlimited(DoOnce(s, did_it, supply.consume), R, context, supply.start)

\* Mutant of Restart: forgets the contexts that wait.
RestartWithoutConsume(s, R, context, did_it, supply) ==
  IF R = {} THEN s ELSE Schedule(StopAll(s, R), R, context, 0, supply.start)

\* stop_all and schedule(.., 0) on each script of R, after do_once.
Restart(s, R, context, did_it, supply) ==
  IF R = {} THEN s
  ELSE Schedule(StopAll(DoOnce(s, did_it, supply.consume), R), R, context, 0,
                supply.start)

PushFront(s, k) == [s EXCEPT !.queue = <<k>> \o @]
PushBack(s, k) == [s EXCEPT !.queue = Append(@, k)]
-----------------------------------------------------------------------------
(* Public interface: construction and input from the user.                 *)

\* from_init: the scripts of every entity, none of them started.
Init ==
  /\ proj = [processes |-> [k \in {} |-> NewProcess(0)],
             queue |-> <<>>,
             scripts |-> [i \in DOMAIN InitScripts |-> NewScript(InitScripts[i])]]
  /\ roots = [e \in 1 .. Originals |-> e]

\* The scripts whose hat is of a type and takes a given name.
Hats(s, type, name) ==
  {i \in DOMAIN s.scripts : /\ s.scripts[i].event.type = type
                            /\ s.scripts[i].event.name \in {name, AnyName}}

MayBegin == Len(proj.queue) <= MaxLength   \* bound on the process queue

MayFork ==   \* bound on the processes that belong to no script
  /\ MayBegin
  /\ Cardinality(Live(proj) \ {proj.scripts[i].process : i \in DOMAIN proj.scripts})
       < MaxOthers

\* Mutant of InputStart: stops all scripts.
StartStopsAll ==
  /\ MayBegin
  /\ proj' = Restart(StopAll(proj, DOMAIN proj.scripts),
                     Hats(proj, "OnFlag", AnyName), DefaultContext, FALSE,
                     KeySupply(proj))
  /\ UNCHANGED roots

\* Input::Start
InputStart ==
  /\ MayBegin
  /\ proj' = Restart(proj, Hats(proj, "OnFlag", AnyName), DefaultContext, FALSE,
                     KeySupply(proj))
  /\ UNCHANGED roots

\* Input::KeyDown: a script that still handles an earlier press ignores it.
InputKeyDown(key) ==
  LET R      == Hats(proj, "OnKey", key)
      supply == KeySupply(proj)
  IN  /\ MayBegin
      /\ R # {}
      /\ proj' = Schedule(ConsumeAll(proj, supply.consume), R, DefaultContext, 0,
                          supply.start)
      /\ UNCHANGED roots

\* Input::CustomEvent
InputCustomEvent(name, data, interrupt, max_queue) ==
  LET R       == Hats(proj, "Custom", name)
      supply  == KeySupply(proj)
      drained == ConsumeAll(proj, supply.consume)
  IN  /\ MayBegin
      /\ R # {}
      /\ proj' = Schedule(IF interrupt THEN StopAll(drained, R) ELSE drained, R,
                          [data |-> data, barrier |-> NoKey], max_queue,
                          supply.start)
      /\ UNCHANGED roots

\* Input::Stop
InputStop ==
  /\ proj' = [processes |-> [k \in {} |-> NewProcess(0)],
              queue |-> <<>>,
              scripts |-> StopAll(proj, DOMAIN proj.scripts).scripts]
  /\ UNCHANGED roots

\* add_script(.., None): a process of its own, which is never initialized.
AddProcess(entity) ==
  LET supply   == KeySupply(proj)
      inserted == InsertProcess(proj, supply.fork, NewProcess(entity))
  IN  /\ MayFork
      /\ proj' = PushBack(ConsumeAll(inserted, supply.consume), supply.fork)
      /\ UNCHANGED roots

\* add_script(.., Some(event))
AddScript(hat) ==
  /\ Len(proj.scripts) < MaxScripts
  /\ proj' = [proj EXCEPT !.scripts = Append(@, NewScript(hat))]
  /\ UNCHANGED roots
-----------------------------------------------------------------------------
(* Project::step: at most one message is received, then the first live     *)
(* process of the queue takes a step, whose outcome is handled.            *)

Message == [name : Name, data : Data]
NoMessage == [name |-> AnyName, data |-> NoData]

Receivers(s, msg) ==
  {i \in DOMAIN s.scripts : /\ s.scripts[i].event.type = "NetworkMessage"
                            /\ s.scripts[i].event.name = msg.name}

\* did_it, once the message has been handed out.
Delivered(msg) == Receivers(proj, msg) # {}

Received(msg, supply) ==
  IF Delivered(msg)
    THEN ScheduleUnlimited(ConsumeAll(proj, supply.consume),
                           Receivers(proj, msg),
                           [data |-> msg.data, barrier |-> NoKey], supply.start)
    ELSE proj

MayReceive(msg) ==   \* bound on the contexts a script holds
  \A i \in Receivers(proj, msg) :
    Len(proj.scripts[i].context_queue) < MaxPending

\* The position of the process that gets the turn: stale keys are skipped.
FirstLive(s) ==
  {n \in DOMAIN s.queue : /\ s.queue[n] \in Live(s)
                          /\ \A a \in 1 .. n - 1 : s.queue[a] \notin Live(s)}

\* A barrier is complete when no process and no context holds it any more.
BarrierHeld(s, k) ==
  \/ \E j \in Live(s) : s.processes[j].barrier = k
  \/ \E i \in DOMAIN s.scripts :
       \E c \in Range(s.scripts[i].context_queue) : c.barrier = k

\* Mutant of Blocked: the end of the barrier goes unnoticed.
BlockedForever(s, k) == s.processes[k].waiting

Blocked(s, k) == s.processes[k].waiting /\ BarrierHeld(s, k)

\* Mutant of Turn: peeks at the queue instead of popping it.
TurnWithoutPop(s, n) ==
  SetWaiting([s EXCEPT !.queue = SubSeq(@, n, Len(@))], s.queue[n], FALSE)

\* Mutant of Turn: swap_remove instead of pop_front.
TurnBySwapRemove(s, n) ==
  SetWaiting([s EXCEPT !.queue = IF Len(@) = n THEN <<>>
                                 ELSE <<Last(@)>> \o SubSeq(@, n + 1, Len(@) - 1)],
             s.queue[n], FALSE)

\* Process k is taken off the queue for its turn and waits no longer.
Turn(s, n) ==
  SetWaiting([s EXCEPT !.queue = SubSeq(@, n + 1, Len(@))], s.queue[n], FALSE)

StepIdle(msg) ==
  LET r == Received(msg, KeySupply(proj))
  IN  /\ FirstLive(r) = {}
      /\ proj' = [r EXCEPT !.queue = <<>>]
      /\ UNCHANGED roots

\* ProcessStep::Yield of a process that still waits on its barrier.
StepWait(msg) ==
  LET supply == KeySupply(proj)
      r      == Received(msg, supply)
  IN  \E n \in FirstLive(r) :
        LET k == r.queue[n]
            s == SetWaiting(Turn(r, n), k, TRUE)
        IN  /\ Blocked(r, k)
            /\ proj' = PushBack(DoOnce(s, Delivered(msg), supply.consume), k)
            /\ UNCHANGED roots

\* Mutant of StepYield: pushed to the wrong end of the queue.
StepYieldToItself(msg) ==
  LET supply == KeySupply(proj)
      r      == Received(msg, supply)
  IN  \E n \in FirstLive(r) :
        LET k == r.queue[n]
        IN  /\ ~ Blocked(r, k)
            /\ proj' = PushFront(DoOnce(Turn(r, n), Delivered(msg), supply.consume), k)
            /\ UNCHANGED roots

\* ProcessStep::Yield
StepYield(msg) ==
  LET supply == KeySupply(proj)
      r      == Received(msg, supply)
  IN  \E n \in FirstLive(r) :
        LET k == r.queue[n]
        IN  /\ ~ Blocked(r, k)
            /\ proj' = PushBack(DoOnce(Turn(r, n), Delivered(msg), supply.consume), k)
            /\ UNCHANGED roots

\* ProcessStep::Normal, ProcessStep::Watcher, ProcessStep::Pause
StepNormal(msg) ==
  LET r == Received(msg, KeySupply(proj))
  IN  \E n \in FirstLive(r) :
        LET k == r.queue[n]
        IN  /\ ~ Blocked(r, k)
            /\ proj' = PushFront(Turn(r, n), k)
            /\ UNCHANGED roots

\* ProcessStep::Fork
StepFork(msg, entity) ==
  LET supply == KeySupply(proj)
      r      == Received(msg, supply)
      child  == supply.fork
  IN  \E n \in FirstLive(r) :
        LET k        == r.queue[n]
            inserted == InsertProcess(Turn(r, n), child,
                          Initialized(NewProcess(entity), DefaultContext))
            drained  == DoOnce(inserted, Delivered(msg), supply.consume)
        IN  /\ MayFork
            /\ ~ Blocked(r, k)
            /\ proj' = PushFront(PushBack(drained, child), k)
            /\ UNCHANGED roots

\* Mutant of ScriptsToCopy: those of the root's other clones as well.
ScriptsOfTheFamily(s, root) ==
  {i \in DOMAIN s.scripts : roots[s.scripts[i].entity] = root}

ScriptsToCopy(s, root) == {i \in DOMAIN s.scripts : s.scripts[i].entity = root}

\* ProcessStep::CreatedClone: the new entity gets its root's scripts.
StepClone(msg, root) ==
  LET supply == KeySupply(proj)
      r      == Received(msg, supply)
      old    == Len(r.scripts)
      copied == InOrder(ScriptsToCopy(r, root))
      added  == [c \in DOMAIN copied |->
                   NewScript([event  |-> r.scripts[copied[c]].event,
                              entity |-> Len(roots) + 1])]
      R      == {i \in old + 1 .. old + Len(added) :
                   added[i - old].event.type = "OnClone"}
  IN  \E n \in FirstLive(r) :
        LET k       == r.queue[n]
            s       == Turn(r, n)
            drained == IF R = {} THEN s
                       ELSE DoOnce(s, Delivered(msg), supply.consume)
            grown   == [drained EXCEPT !.scripts = @ \o added]
        IN  /\ MayBegin
            /\ old + Len(added) <= MaxScripts
            /\ Len(roots) < MaxScripts
            /\ ~ Blocked(r, k)
            /\ proj' = PushFront(Schedule(grown, R, DefaultContext, 0,
                                          supply.start), k)
            /\ roots' = Append(roots, root)

\* ProcessStep::Broadcast: every receiver is restarted; with wait, receivers
\* hold a barrier of the sender, which waits.  A sender that is a receiver
\* itself is stopped like the others, and a stale key returns to the queue.
StepBroadcast(msg, name, targets, wait) ==
  LET supply == KeySupply(proj)
      r      == Received(msg, supply)
  IN  \E n \in FirstLive(r) :
        LET k       == r.queue[n]
            s       == SetWaiting(Turn(r, n), k, wait)
            R       == {i \in Hats(s, "LocalMessage", name) :
                          s.scripts[i].entity \in targets}
            context == [data |-> name, barrier |-> IF wait THEN k ELSE NoKey]
        IN  /\ MayBegin
            /\ ~ Blocked(r, k)
            /\ proj' = PushFront(Restart(s, R, context, Delivered(msg), supply), k)
            /\ UNCHANGED roots

\* ProcessStep::Terminate and Err: the process is removed, its barrier dropped.
StepEnd(msg) ==
  LET supply == KeySupply(proj)
      r      == Received(msg, supply)
  IN  \E n \in FirstLive(r) :
        LET k == r.queue[n]
        IN  /\ ~ Blocked(r, k)
            /\ proj' = DoOnce(RemoveProcesses(Turn(r, n), {k}), Delivered(msg),
                              supply.consume)
            /\ UNCHANGED roots

Entities == 1 .. Len(roots)
TargetSets ==
  {Entities} \union {Range(list) : list \in SeqOf(Entities, MaxTargets)}

Input ==
  \/ InputStart
  \/ InputStop
  \/ \E key \in KeyCode : InputKeyDown(key)
  \/ \E name \in Name, data \in Locals, interrupt \in BOOLEAN, max \in MaxQueues :
       InputCustomEvent(name, data, interrupt, max)
  \/ \E e \in Entities : AddProcess(e)

Step(msg) ==
  /\ MayReceive(msg)
  /\ \/ StepIdle(msg)
     \/ StepWait(msg)
     \/ StepYield(msg)
     \/ StepNormal(msg)
     \/ \E e \in Entities : StepFork(msg, e) \/ StepClone(msg, roots[e])
     \/ \E name \in Name, targets \in TargetSets, wait \in BOOLEAN :
          StepBroadcast(msg, name, targets, wait)
     \/ StepEnd(msg)

Next ==
  /\ KeysSuffice
  /\ \/ Input
     \/ \E hat \in NewHats : hat.entity \in Entities /\ AddScript(hat)
     \/ \E msg \in Message \union {NoMessage} : Step(msg)

Spec == Init /\ [][Next]_vars

\* The process whose turn it is gives it up: it yields, waits or ends.
GiveUpTurn ==
  /\ KeysSuffice
  /\ \E msg \in Message \union {NoMessage} :
       /\ MayReceive(msg)
       /\ StepWait(msg) \/ StepYield(msg) \/ StepEnd(msg)

\* The host calls step() for ever, and no process runs for ever without
\* yielding (compiled loops yield once an iteration, outside warp blocks).
FairSpec == Spec /\ WF_vars(GiveUpTurn)
-----------------------------------------------------------------------------
\* The fields hold what the structs' fields may hold.
TypeOK ==
  /\ proj.processes \in [Live(proj) -> Process]
  /\ Live(proj) \subseteq Key
  /\ proj.queue \in Seq(Key)
  /\ proj.scripts \in Seq(Script)
  /\ Len(proj.scripts) <= MaxScripts
  /\ DOMAIN proj = {"processes", "queue", "scripts"}
  /\ roots \in Seq(1 .. MaxScripts)

\* Between calls every process of the slot map has exactly one place in the
\* process queue: none is forgotten by the loops that push keys to the front
\* or to the back, and none gets two turns a round.
EveryProcessQueuedOnce ==
  /\ Live(proj) \subseteq Range(proj.queue)
  /\ IsInjective(proj.queue)

\* The process a script remembers is its own: no two scripts share one (a
\* stale key never comes back to life as somebody else's process), it runs on
\* the script's entity, and while it lives it is running, so that the branch
\* of consume_context that initializes a live process anew is never taken.
ScriptsOwnTheirProcesses ==
  \A i \in DOMAIN proj.scripts :
    LET k == proj.scripts[i].process
    IN  k # NoKey =>
          /\ \A j \in DOMAIN proj.scripts : proj.scripts[j].process = k => i = j
          /\ k \in Live(proj) => /\ proj.processes[k].running
                                 /\ proj.processes[k].entity = proj.scripts[i].entity

\* Contexts only wait at scripts of custom events and network messages: what
\* is scheduled with max_queue 0 runs at once or is dropped.
OnlyEventsAndMessagesWait ==
  \A i \in DOMAIN proj.scripts :
    proj.scripts[i].context_queue # <<>> =>
      proj.scripts[i].event.type \in {"Custom", "NetworkMessage"}

\* A custom event's backlog never outgrows the largest max_queue of the host
\* (CustomEvent's doc), across interrupts, restarts and other events.
BacklogBounded ==
  \A i \in DOMAIN proj.scripts :
    proj.scripts[i].event.type = "Custom" =>
      \E max \in MaxQueues : Len(proj.scripts[i].context_queue) <= max

\* Some live process can go on: broadcasts that wait, on receivers that
\* broadcast and wait themselves or that restart their sender, never leave
\* every process waiting for another.
SomeProcessCanGoOn ==
  Live(proj) # {} => \E k \in Live(proj) : ~ Blocked(proj, k)

\* A clone has the hats its original had when the clone was created, once each
\* and in their order: at least those the project came with, and none that the
\* original does not have (what the host adds to it later is not copied), unless
\* the host adds some to the clone itself.
HatsOf(e) ==
  LET own == InOrder({i \in DOMAIN proj.scripts : proj.scripts[i].entity = e})
  IN  [n \in DOMAIN own |-> proj.scripts[own[n]].event]

InitHatsOf(e) ==
  LET own == InOrder({i \in DOMAIN InitScripts : InitScripts[i].entity = e})
  IN  [n \in DOMAIN own |-> InitScripts[own[n]].event]

ClonesMirrorRoots ==
  \A e \in DOMAIN roots :
    /\ roots[roots[e]] = roots[e]
    /\ IsPrefix(InitHatsOf(roots[e]), HatsOf(e))
    /\ (\A hat \in NewHats : hat.entity # e) =>
         IsPrefix(HatsOf(e), HatsOf(roots[e]))

\* debug_assert! of step(): when no process is left to run, no script is left
\* with a context to consume.
NoContextLeftIdle ==
  FirstLive(proj) = {} =>
    \A i \in DOMAIN proj.scripts : proj.scripts[i].context_queue = <<>>

Before(q, a, b) ==
  \E m, n \in DOMAIN q : m < n /\ q[m] = a /\ q[n] = b

\* Round robin: in no call does a process pass another one in the queue,
\* unless the one it passes was the first, whose turn it was.
OnlyTheFirstIsPassed ==
  [][\A a, b \in Live(proj) \intersect Live(proj') :
       Before(proj.queue, a, b) /\ Before(proj'.queue, b, a) =>
         \E n \in FirstLive(proj) : proj.queue[n] = a]_vars

\* An event that interrupts a script drops what waits there and begins it anew.
Interrupted(i) ==
  \E name \in Name, data \in Locals, max \in MaxQueues :
    /\ i \in Hats(proj, "Custom", name)
    /\ InputCustomEvent(name, data, TRUE, max)

\* Process k is begun in this call, by a context that waited before it.
BegunByWaiting(k) ==
  \E i \in DOMAIN proj.scripts :
    /\ proj.scripts[i].context_queue # <<>>
    /\ proj'.scripts[i].process = k
    /\ ~ Interrupted(i)

HasTurnAtOnce(i) == FirstLive(proj) = {} /\ \A j \in Ready(proj) : i <= j

\* "need to consume all contexts before scheduling things in the future": a
\* call that begins anything newer, be it a fork or a process of a new context,
\* leaves no context waiting at an idle script.  It begins a process for each
\* of them, and puts that process into the queue before the newer one.  Where
\* no process was live, the first of them has its turn in this very call.
WaitingContextsGoFirst ==
  [][\A i \in Ready(proj), k \in Live(proj') \ Live(proj) :
       ~ Interrupted(i) /\ ~ BegunByWaiting(k) =>
         LET first == proj'.scripts[i].process
         IN  /\ first \notin {NoKey, proj.scripts[i].process}
             /\ HasTurnAtOnce(i) \/ Before(proj'.queue, first, k)]_vars

\* "Any other running processes are not affected" (Input::Start's doc): a
\* start neither stops, restarts nor rewrites a process that is not the
\* process of an "on start" script.
StartSparesOthers ==
  [][InputStart =>
       \A k \in Live(proj) :
         (\A i \in Hats(proj, "OnFlag", AnyName) : proj.scripts[i].process # k) =>
           k \in Live(proj') /\ proj'.processes[k] = proj.processes[k]]_vars

\* Network messages are handled in order, once each and one at a time.
NetworkScripts ==
  {i \in DOMAIN InitScripts : InitScripts[i].event.type = "NetworkMessage"}

Handled(i) ==
  LET k == proj.scripts[i].process
  IN  IF k \in Live(proj) THEN proj.processes[k].data ELSE NoData

Network == INSTANCE Inboxes WITH
  Box      <- NetworkScripts,
  Listens  <- [i \in NetworkScripts |-> InitScripts[i].event.name],
  None     <- NoData,
  pending  <- [i \in NetworkScripts |->
                 [n \in DOMAIN proj.scripts[i].context_queue |->
                    proj.scripts[i].context_queue[n].data]],
  handling <- [i \in NetworkScripts |-> Handled(i)]
HandlesInOrder == Network!Spec

\* Every process gets its turn, or is stopped before.
HasTurn(k) == \E n \in FirstLive(proj) : proj.queue[n] = k

TurnComes ==
  \A k \in Key : k \in Live(proj) ~> (k \notin Live(proj) \/ HasTurn(k))

\* A sender whose receivers have all let go of its barrier (they ended, or were
\* stopped or restarted) goes on, unless it is stopped: it waits no longer, or
\* already for the receivers of its next broadcast.
Released(k) ==
  k \in Live(proj) /\ proj.processes[k].waiting /\ ~ BarrierHeld(proj, k)

ReleasedSendersResume == \A k \in Key : Released(k) ~> ~ Released(k)
=============================================================================
