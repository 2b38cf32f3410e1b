---------------------------- MODULE RepliesProofs ----------------------------
(***************************************************************************)
(* Proofs about module Replies: the table of replies, for any number of    *)
(* processes, scripts and requests and any time-out.                       *)
(***************************************************************************)
EXTENDS Replies, TLAPS

\* Every process that waits has an entry of its own, or a reply it failed on,
\* and no other does.  A panic comes of such a reply.
Waiters ==
  /\ \A p \in Process : defer[p] # NoId =>
       fate[defer[p]] = IF defer[p] \in Known THEN "waiting" ELSE "failed"
  /\ \A p, q \in Process : defer[p] # NoId /\ defer[p] = defer[q] => p = q
  /\ \A id \in Known : fate[id] = "stopped" \/ \E p \in Process : defer[p] = id
  /\ panicked => \E p \in Process : defer[p] # NoId /\ fate[defer[p]] = "failed"

\* An identifier that was not given out is nowhere.
Unused ==
  \A id \in RequestId : fate[id] = "unused" =>
    /\ id \notin Known
    /\ first[id] = NoValue
    /\ \A m \in network : m.id # id
    /\ \A s \in Script : <<s, id>> \notin keys /\ replied[<<s, id>>] = 0

\* Nobody has heard of a request or replied to it while it is on its way.
Unheard(id) ==
  \A s \in Script : <<s, id>> \notin keys /\ replied[<<s, id>>] = 0

OnTheWay ==
  /\ \A p \in Process : sending = {p} =>
       Unheard(defer[p]) /\ Request(defer[p]) \notin network
  /\ \A id \in RequestId : Request(id) \in network => Unheard(id)

\* Who holds a key has not replied; whose reply is read, or on its way, has
\* replied once.
Replied ==
  /\ \A s \in Script, id \in RequestId : <<s, id>> \in keys => replied[<<s, id>>] = 0
  /\ \A s \in Script, id \in RequestId : Reply(id, s) \in network => replied[<<s, id>>] = 1
  /\ \A id \in RequestId : first[id] # NoValue => replied[<<first[id], id>>] = 1

\* An entry has the reply that was read first.
Filled == \A id \in Known : message_replies[id].value = first[id]

IInv == TypeOK /\ Waiters /\ Unused /\ OnTheWay /\ Replied /\ Filled
-----------------------------------------------------------------------------
LEMMA MessageForms ==
  ASSUME NEW m \in Message
  PROVE  /\ m.type = "request" => m = Request(m.id)
         /\ m.type = "reply" => m = Reply(m.id, m.value) /\ m.value \in Script
         /\ m.type \in {"request", "reply"}
         /\ m.id \in RequestId
<1>1. CASE m \in [type : {"request"}, id : RequestId]
  BY <1>1 DEF Request
<1>2. CASE m \in [type : {"reply"}, id : RequestId, value : Script]
  <2>1. m = [type |-> m.type, id |-> m.id, value |-> m.value]
    BY <1>2
  <2> QED
    BY <1>2, <2>1 DEF Reply
<1> QED
  BY <1>1, <1>2 DEF Message

LEMMA MessagesDiffer ==
  ASSUME NEW id, NEW jd, NEW s, NEW t
  PROVE  /\ Request(id) # Reply(jd, s)
         /\ Request(id) = Request(jd) => id = jd
         /\ Reply(id, s) = Reply(jd, t) => id = jd /\ s = t
         /\ Request(id).id = id /\ Reply(id, s).id = id
         /\ Request(id).type = "request" /\ Reply(id, s).type = "reply"
         /\ Reply(id, s).value = s
<1>1. Request(id).type # Reply(jd, s).type
  BY DEF Request, Reply
<1> QED
  BY <1>1 DEF Request, Reply

LEMMA MessageTypes ==
  ASSUME NEW id \in RequestId, NEW s \in Script
  PROVE  Request(id) \in Message /\ Reply(id, s) \in Message
BY DEF Message, Request, Reply

USE NoneAssumption, TimeoutAssumption

LEMMA InitInv == Init => IInv
<1> SUFFICES ASSUME Init PROVE IInv
  OBVIOUS
<1> USE DEF Init
<1>1. TypeOK
  BY DEF TypeOK, Known, Fate, Entry
<1>2. Waiters /\ Filled
  BY DEF Waiters, Filled, Known
<1>3. Unused /\ OnTheWay /\ Replied
  BY DEF Unused, OnTheWay, Unheard, Replied, Known
<1> QED
  BY <1>1, <1>2, <1>3 DEF IInv

LEMMA InsertEntryStep ==
  ASSUME IInv, NEW p \in Process, InsertEntry(p)
  PROVE  IInv'
<1> USE DEF IInv
<1>1. PICK id \in RequestId :
        /\ fate[id] = "unused"
        /\ message_replies' = [i \in Known \union {id} |->
             IF i = id THEN [age |-> 0, value |-> NoValue] ELSE message_replies[i]]
        /\ defer' = [defer EXCEPT ![p] = id]
        /\ fate' = [fate EXCEPT ![id] = "waiting"]
  BY DEF InsertEntry
<1>2. /\ ~panicked /\ sending = {} /\ sending' = {p} /\ defer[p] = NoId
      /\ UNCHANGED <<panicked, network, keys, first, got, replied>>
  BY DEF InsertEntry, Free
<1>3. /\ Known' = Known \union {id}
      /\ message_replies'[id] = [age |-> 0, value |-> NoValue]
      /\ \A i \in Known \ {id} : message_replies'[i] = message_replies[i]
  BY <1>1 DEF Known
<1>4. id \notin Known /\ first[id] = NoValue /\ Unheard(id)
      /\ \A m \in network : m.id # id
  BY <1>1 DEF Unused, Unheard
<1>5. /\ defer'[p] = id /\ \A q \in Process \ {p} : defer'[q] = defer[q]
      /\ fate'[id] = "waiting" /\ \A i \in RequestId \ {id} : fate'[i] = fate[i]
  BY <1>1 DEF TypeOK
<1>6. \A q \in Process : defer[q] # id
  BY <1>1 DEF Waiters
<1>7. TypeOK'
  BY <1>1, <1>2, <1>3, <1>5 DEF TypeOK, Entry, Fate, Known
<1>8. Waiters'
  <2>1. \A q \in Process : defer'[q] # NoId =>
          fate'[defer'[q]] = IF defer'[q] \in Known' THEN "waiting" ELSE "failed"
    BY <1>3, <1>5, <1>6 DEF Waiters, TypeOK
  <2>2. \A q, r \in Process : defer'[q] # NoId /\ defer'[q] = defer'[r] => q = r
    BY <1>5, <1>6 DEF Waiters
  <2>3. \A i \in Known' : fate'[i] = "stopped" \/ \E q \in Process : defer'[q] = i
    BY <1>2, <1>3, <1>4, <1>5 DEF Waiters, TypeOK
  <2> QED
    BY <1>2, <2>1, <2>2, <2>3 DEF Waiters
<1>9. Unused'
  BY <1>2, <1>3, <1>5 DEF Unused
<1>10. OnTheWay'
  <2>1. Request(id) \notin network
    BY <1>4, MessagesDiffer
  <2>2. ASSUME NEW q \in Process, sending' = {q}
        PROVE  Unheard(defer[q])' /\ (Request(defer[q]) \notin network)'
    <3>1. q = p
      BY <1>2, <2>2
    <3> QED
      BY <1>2, <1>4, <1>5, <2>1, <3>1 DEF Unheard
  <2>3. ASSUME NEW i \in RequestId, Request(i) \in network'
        PROVE  Unheard(i)'
    BY <1>2, <2>3 DEF OnTheWay, Unheard
  <2> QED
    BY <2>2, <2>3 DEF OnTheWay
<1>11. Replied' /\ Filled'
  BY <1>2, <1>3, <1>4 DEF Replied, Filled
<1> QED
  BY <1>7, <1>8, <1>9, <1>10, <1>11

LEMMA SendRequestStep ==
  ASSUME IInv, NEW p \in Process, SendRequest(p)
  PROVE  IInv'
<1> USE DEF IInv
<1>1. /\ sending = {p} /\ sending' = {}
      /\ network' = network \union {Request(defer[p])}
      /\ UNCHANGED <<message_replies, defer, panicked, keys, first, fate, got, replied>>
  BY DEF SendRequest, history
<1>2. defer[p] # NoId /\ defer[p] \in RequestId /\ fate[defer[p]] # "unused"
  <2>1. defer[p] # NoId /\ defer[p] \in RequestId
    BY <1>1 DEF TypeOK
  <2>2. fate[defer[p]] \in {"waiting", "failed"}
    BY <2>1 DEF Waiters
  <2> QED
    BY <2>1, <2>2
<1>3. Unheard(defer[p])
  BY <1>1 DEF OnTheWay
<1>4. TypeOK'
  BY <1>1, <1>2, MessageTypes, NoneAssumption DEF TypeOK, Known, Message, Request
<1>5. Waiters' /\ Filled'
  BY <1>1 DEF Waiters, Filled, Known
<1>6. Unused'
  BY <1>1, <1>2, MessagesDiffer DEF Unused, Known
<1>7. OnTheWay'
  <2>1. ASSUME NEW i \in RequestId, Request(i) \in network'
        PROVE  Unheard(i)'
    <3>1. i = defer[p] \/ Request(i) \in network
      BY <1>1, <2>1, MessagesDiffer
    <3>2. Unheard(i)
      BY <1>3, <3>1 DEF OnTheWay
    <3> QED
      BY <1>1, <3>2 DEF Unheard
  <2>2. \A q \in Process : sending' # {q}
    BY <1>1
  <2> QED
    BY <2>1, <2>2 DEF OnTheWay
<1>8. Replied'
  BY <1>1, MessagesDiffer DEF Replied
<1> QED
  BY <1>4, <1>5, <1>6, <1>7, <1>8

\* What a wait that ends leaves, with its entry or without.  A process that
\* failed on the reply may go on waiting.
LEMMA EndOfWait ==
  ASSUME IInv, NEW p \in Process, Free, defer[p] # NoId,
         NEW K \in SUBSET Known,
         message_replies' = [i \in K |-> message_replies[i]],
         NEW end \in {"answered", "failed", "empty", "stopped"},
         fate' = [fate EXCEPT ![defer[p]] = end],
         \/ defer' = [defer EXCEPT ![p] = NoId]
         \/ defer' = defer /\ end = "failed",
         got' \in [RequestId -> Script \union {NoValue}],
         Known \ {defer[p]} \subseteq K,
         end # "stopped" => defer[p] \notin K,
         UNCHANGED <<sending, panicked, network, keys, first, replied>>
  PROVE  IInv'
<1> DEFINE id == defer[p]
<1> USE DEF IInv, Free
<1>1. id \in RequestId /\ fate[id] \in {"waiting", "failed"}
  BY DEF Waiters, TypeOK
<1>2. /\ Known' = K
      /\ \A i \in K : message_replies'[i] = message_replies[i]
  BY DEF Known
<1>3. /\ defer'[p] = NoId \/ (defer'[p] = id /\ end = "failed")
      /\ \A q \in Process \ {p} : defer'[q] = defer[q] /\ defer[q] # id
      /\ fate'[id] = end /\ \A i \in RequestId \ {id} : fate'[i] = fate[i]
  BY <1>1 DEF TypeOK, Waiters
<1>4. TypeOK'
  BY <1>1, <1>2 DEF TypeOK, Fate, Known
<1>5. Waiters'
  <2>1. ASSUME NEW q \in Process, defer'[q] # NoId
        PROVE  fate'[defer'[q]] = IF defer'[q] \in Known' THEN "waiting" ELSE "failed"
    <3>1. CASE q = p
      BY <1>2, <1>3, <2>1, <3>1
    <3>2. CASE q # p
      <4>1. /\ defer'[q] = defer[q] /\ defer[q] \in RequestId \ {id}
            /\ fate'[defer[q]] = fate[defer[q]]
        BY <1>3, <2>1, <3>2 DEF TypeOK
      <4>2. defer[q] \in Known' <=> defer[q] \in Known
        BY <1>2, <4>1
      <4> QED
        BY <2>1, <4>1, <4>2 DEF Waiters
    <3> QED
      BY <3>1, <3>2
  <2>2. \A q, r \in Process : defer'[q] # NoId /\ defer'[q] = defer'[r] => q = r
    BY <1>3 DEF Waiters
  <2>3. \A i \in Known' : fate'[i] = "stopped" \/ \E q \in Process : defer'[q] = i
    BY <1>2, <1>3 DEF Waiters, TypeOK
  <2> QED
    BY <2>1, <2>2, <2>3 DEF Waiters
<1>6. Unused'
  BY <1>2, <1>3 DEF Unused
<1>7. OnTheWay' /\ Replied' /\ Filled'
  BY <1>2 DEF OnTheWay, Unheard, Replied, Filled
<1> QED
  BY <1>4, <1>5, <1>6, <1>7

LEMMA PollReplyStep ==
  ASSUME IInv, NEW p \in Process, PollReply(p)
  PROVE  IInv'
<1> DEFINE id == defer[p]
           K == Known \ {id}
<1>1. /\ Free /\ id # NoId /\ id \in Known /\ id \in RequestId
      /\ message_replies' = [i \in K |-> message_replies[i]]
      /\ UNCHANGED <<sending, panicked, network, keys, first, replied>>
  BY DEF PollReply, Remove, IInv, TypeOK
<1>2. message_replies[id].value \in Script \union {NoValue}
  BY <1>1 DEF IInv, TypeOK, Entry
<1>3. PICK end \in {"answered", "failed", "empty"} :
        /\ fate' = [fate EXCEPT ![id] = end]
        /\ got' \in [RequestId -> Script \union {NoValue}]
        /\ \/ defer' = [defer EXCEPT ![p] = NoId]
           \/ defer' = defer /\ end = "failed"
  BY <1>1, <1>2 DEF PollReply, Answered, Failed, TimedOut, IInv, TypeOK
<1> QED
  BY <1>1, <1>3, EndOfWait

LEMMA PollPanicsStep ==
  ASSUME IInv, NEW p \in Process, PollPanics(p)
  PROVE  IInv'
<1>1. /\ defer[p] # NoId /\ defer[p] \notin Known /\ panicked' = TRUE
      /\ UNCHANGED <<message_replies, defer, sending, network, keys,
                     first, fate, got, replied>>
  BY DEF PollPanics, history
<1>2. fate[defer[p]] = "failed"
  BY <1>1 DEF IInv, Waiters
<1>3. Waiters' /\ TypeOK'
  BY <1>1, <1>2 DEF IInv, Waiters, TypeOK, Known
<1> QED
  BY <1>1, <1>3 DEF IInv, Unused, OnTheWay, Unheard, Replied, Filled, Known

LEMMA StopStep ==
  ASSUME IInv, NEW p \in Process, Stop(p)
  PROVE  IInv'
<1> DEFINE id == defer[p]
           end == IF fate[id] = "waiting" THEN "stopped" ELSE "failed"
<1>1. /\ Free /\ id # NoId
      /\ message_replies' = [i \in Known |-> message_replies[i]]
      /\ defer' = [defer EXCEPT ![p] = NoId]
      /\ fate' = [fate EXCEPT ![id] = IF @ = "waiting" THEN "stopped" ELSE @]
      /\ got' \in [RequestId -> Script \union {NoValue}]
      /\ UNCHANGED <<sending, panicked, network, keys, first, replied>>
  BY DEF Stop, IInv, TypeOK, Known
<1>2. /\ id \in RequestId /\ end \in {"stopped", "failed"}
      /\ end # "stopped" => id \notin Known
      /\ fate' = [fate EXCEPT ![id] = end]
  BY <1>1 DEF IInv, Waiters, TypeOK
<1> HIDE DEF end
<1> QED
  BY <1>1, <1>2, EndOfWait

LEMMA ReceiveReplyStep ==
  ASSUME IInv, NEW m \in network, ReceiveReply(m)
  PROVE  IInv'
<1> DEFINE id == m.id
           s == m.value
<1> USE DEF IInv
<1>1. /\ m.type = "reply" /\ network' = network \ {m}
      /\ message_replies' = [i \in Known |->
           IF i = id /\ message_replies[i].value = NoValue
             THEN [message_replies[i] EXCEPT !.value = s]
             ELSE message_replies[i]]
      /\ first' = IF first[id] = NoValue THEN [first EXCEPT ![id] = s] ELSE first
      /\ UNCHANGED <<defer, sending, panicked, keys, fate, got, replied>>
  BY DEF ReceiveReply
<1>2. m = Reply(id, s) /\ s \in Script /\ id \in RequestId
  BY <1>1, MessageForms DEF TypeOK
<1>3. replied[<<s, id>>] = 1 /\ fate[id] # "unused"
  BY <1>2 DEF Replied, Unused
<1>4. Known' = Known
  BY <1>1 DEF Known
<1>5. /\ \A i \in RequestId \ {id} : first'[i] = first[i]
      /\ first'[id] = IF first[id] = NoValue THEN s ELSE first[id]
  BY <1>1, <1>2 DEF TypeOK
<1>6. \A i \in Known :
        /\ message_replies'[i] \in Entry
        /\ message_replies'[i].value = first'[i]
  <2> TAKE i \in Known
  <2>1. message_replies[i] \in Entry /\ message_replies[i].value = first[i]
        /\ i \in RequestId
    BY DEF TypeOK, Filled
  <2>2. message_replies'[i] =
          IF i = id /\ message_replies[i].value = NoValue
            THEN [message_replies[i] EXCEPT !.value = s]
            ELSE message_replies[i]
    BY <1>1
  <2> QED
    BY <1>2, <1>5, <2>1, <2>2 DEF Entry
<1>7. TypeOK'
  BY <1>1, <1>2, <1>4, <1>6 DEF TypeOK, Known
<1>8. Waiters' /\ Filled'
  BY <1>1, <1>4, <1>6 DEF Waiters, Filled
<1>9. Unused'
  BY <1>1, <1>3, <1>4, <1>5 DEF Unused
<1>10. OnTheWay'
  BY <1>1 DEF OnTheWay, Unheard
<1>11. Replied'
  BY <1>1, <1>2, <1>3, <1>5 DEF Replied
<1> QED
  BY <1>7, <1>8, <1>9, <1>10, <1>11

LEMMA ReceiveRequestStep ==
  ASSUME IInv, NEW m \in network, ReceiveRequest(m)
  PROVE  IInv'
<1> DEFINE id == m.id
<1> USE DEF IInv
<1>1. /\ m.type = "request" /\ network' = network \ {m}
      /\ keys' = keys \union (Script \X {id})
      /\ UNCHANGED <<message_replies, defer, sending, panicked, first, fate, got, replied>>
  BY DEF ReceiveRequest, history
<1>2. m = Request(id) /\ id \in RequestId
  BY <1>1, MessageForms DEF TypeOK
<1>3. Unheard(id) /\ fate[id] # "unused"
  BY <1>2 DEF OnTheWay, Unused
<1>4. \A s \in Script, i \in RequestId : <<s, i>> \in keys' => <<s, i>> \in keys \/ i = id
  BY <1>1
<1>5. TypeOK'
  BY <1>1, <1>2 DEF TypeOK, Known
<1>6. Waiters' /\ Filled'
  BY <1>1 DEF Waiters, Filled, Known
<1>7. Unused'
  BY <1>1, <1>3, <1>4 DEF Unused, Known
<1>8. OnTheWay'
  <2>1. ASSUME NEW q \in Process, sending' = {q}
        PROVE  Unheard(defer[q])' /\ (Request(defer[q]) \notin network)'
    <3>1. defer[q] \in RequestId
      BY <1>1, <2>1 DEF TypeOK
    <3>2. Unheard(defer[q]) /\ Request(defer[q]) \notin network
      BY <1>1, <2>1 DEF OnTheWay
    <3>3. defer[q] # id
      BY <1>2, <3>2
    <3> QED
      BY <1>1, <1>4, <3>1, <3>2, <3>3 DEF Unheard
  <2>2. ASSUME NEW i \in RequestId, Request(i) \in network'
        PROVE  Unheard(i)'
    <3>1. Unheard(i) /\ i # id
      BY <1>1, <1>2, <2>2 DEF OnTheWay
    <3> QED
      BY <1>1, <1>4, <3>1 DEF Unheard
  <2> QED
    BY <2>1, <2>2 DEF OnTheWay
<1>9. Replied'
  BY <1>1, <1>3, <1>4 DEF Replied, Unheard
<1> QED
  BY <1>5, <1>6, <1>7, <1>8, <1>9

LEMMA SendReplyStep ==
  ASSUME IInv, NEW s \in Script, NEW id \in RequestId, SendReply(s, id)
  PROVE  IInv'
<1> USE DEF IInv
<1>1. /\ <<s, id>> \in keys /\ keys' = keys \ {<<s, id>>}
      /\ network' = network \union {Reply(id, s)}
      /\ replied' = [replied EXCEPT ![<<s, id>>] = @ + 1]
      /\ UNCHANGED <<message_replies, defer, sending, panicked, first, fate, got>>
  BY DEF SendReply
<1>2. replied[<<s, id>>] = 0 /\ ~ Unheard(id) /\ fate[id] # "unused"
  BY <1>1 DEF Replied, Unheard, Unused
<1>3. /\ replied'[<<s, id>>] = 1
      /\ \A t \in Script, i \in RequestId :
           <<t, i>> # <<s, id>> => replied'[<<t, i>>] = replied[<<t, i>>]
  BY <1>1, <1>2 DEF TypeOK
<1>4. TypeOK'
  BY <1>1, <1>2, MessageTypes DEF TypeOK, Known
<1>5. Waiters' /\ Filled'
  BY <1>1 DEF Waiters, Filled, Known
<1>6. Unused'
  BY <1>1, <1>2, <1>3, MessagesDiffer DEF Unused, Known
<1>7. OnTheWay'
  <2>1. \A i \in RequestId : Unheard(i) => Unheard(i)' /\ i # id
    BY <1>1, <1>2, <1>3 DEF Unheard
  <2>2. \A i \in RequestId : Request(i) \in network' => Request(i) \in network
    BY <1>1, MessagesDiffer
  <2>3. \A q \in Process : sending = {q} => defer[q] \in RequestId
    BY DEF TypeOK
  <2> QED
    BY <1>1, <2>1, <2>2, <2>3 DEF OnTheWay
<1>8. Replied'
  <2>1. \A t \in Script, i \in RequestId : <<t, i>> \in keys' => replied'[<<t, i>>] = 0
    BY <1>1, <1>3 DEF Replied
  <2>2. \A t \in Script, i \in RequestId : Reply(i, t) \in network' => replied'[<<t, i>>] = 1
    BY <1>1, <1>3, MessagesDiffer DEF Replied
  <2>3. \A i \in RequestId : first'[i] # NoValue => replied'[<<first'[i], i>>] = 1
    BY <1>1, <1>3 DEF Replied, TypeOK
  <2> QED
    BY <2>1, <2>2, <2>3 DEF Replied
<1> QED
  BY <1>4, <1>5, <1>6, <1>7, <1>8

LEMMA TickStep ==
  ASSUME IInv, Tick
  PROVE  IInv'
<1> USE DEF IInv
<1>1. /\ message_replies' = [id \in Known |->
           [message_replies[id] EXCEPT !.age = IF @ < Timeout THEN @ + 1 ELSE @]]
      /\ UNCHANGED <<defer, sending, panicked, network, keys, first, fate, got, replied>>
  BY DEF Tick, history
<1>2. Known' = Known
  BY <1>1 DEF Known
<1>3. \A id \in Known : /\ message_replies'[id] \in Entry
                        /\ message_replies'[id].value = message_replies[id].value
  BY <1>1, TimeoutAssumption DEF TypeOK, Entry
<1>4. TypeOK'
  BY <1>1, <1>2, <1>3 DEF TypeOK, Known
<1>5. Waiters' /\ Unused' /\ OnTheWay' /\ Replied' /\ Filled'
  BY <1>1, <1>2, <1>3 DEF Waiters, Unused, OnTheWay, Unheard, Replied, Filled
<1> QED
  BY <1>4, <1>5

LEMMA StepInv == IInv /\ [Next]_vars => IInv'
<1> SUFFICES ASSUME IInv, [Next]_vars PROVE IInv'
  OBVIOUS
<1>1. ASSUME NEW p \in Process,
             \/ InsertEntry(p) \/ SendRequest(p)
             \/ PollReply(p) \/ PollPanics(p) \/ Stop(p)
      PROVE  IInv'
  BY <1>1, InsertEntryStep, SendRequestStep, PollReplyStep, PollPanicsStep, StopStep
<1>2. ASSUME NEW m \in network, ReceiveReply(m) \/ ReceiveRequest(m)
      PROVE  IInv'
  BY <1>2, ReceiveReplyStep, ReceiveRequestStep
<1>3. ASSUME NEW s \in Script, NEW id \in RequestId, SendReply(s, id)
      PROVE  IInv'
  BY <1>3, SendReplyStep
<1>4. ASSUME Tick PROVE IInv'
  BY <1>4, TickStep
<1>5. ASSUME UNCHANGED vars PROVE IInv'
  BY <1>5 DEF IInv, vars, TypeOK, Waiters, Unused, OnTheWay, Unheard, Replied,
              Filled, Known
<1> QED
  BY <1>1, <1>2, <1>3, <1>4, <1>5 DEF Next

THEOREM RepliesInvariant == Spec => []IInv
BY InitInv, StepInv, PTL DEF Spec

-----------------------------------------------------------------------------
(* What the runs check, for every instance.                                *)

\* The fields of the table, the network and the histories keep their types.
THEOREM TypeCorrect == Spec => []TypeOK
BY RepliesInvariant, PTL DEF IInv

\* A process that waits finds an entry, which is its own, unless it caught the
\* error of a reply that could not be converted: the unwrap of the lookup in
\* poll_reply fails there and nowhere else.
THEOREM WaitersKnown == Spec => []WaitersAreKnown
<1>1. IInv => WaitersAreKnown
  BY DEF IInv, Waiters, WaitersAreKnown
<1> QED
  BY <1>1, RepliesInvariant, PTL

\* The table keeps no entry but those that are waited for and those of
\* processes that were stopped while they waited.
THEOREM TableKeepsOnlyTheStopped == Spec => []OnlyTheStoppedLinger
<1>1. IInv => OnlyTheStoppedLinger
  BY DEF IInv, Waiters, OnlyTheStoppedLinger
<1> QED
  BY <1>1, RepliesInvariant, PTL

\* Only a poll ends a request with a reply, an error or the time-out.
LEMMA OnlyPollsEnd ==
  ASSUME IInv, [Next]_vars, NEW id \in RequestId,
         fate'[id] \in {"answered", "failed", "empty"}, fate'[id] # fate[id]
  PROVE  \E p \in Process : PollReply(p) /\ defer[p] = id
<1> USE DEF IInv
<1>1. \A p \in Process : InsertEntry(p) => fate'[id] \in {fate[id], "waiting"}
  BY DEF InsertEntry, TypeOK
<1>2. \A p \in Process : SendRequest(p) => fate' = fate
  BY DEF SendRequest, history
<1>3. \A p \in Process : Stop(p) => fate'[id] \in {fate[id], "stopped"}
  BY DEF Stop, TypeOK
<1>4. \A p \in Process : PollReply(p) => fate'[id] = fate[id] \/ defer[p] = id
  BY DEF PollReply, Answered, Failed, TimedOut, TypeOK
<1>5. \A m \in network : ReceiveReply(m) \/ ReceiveRequest(m) => fate' = fate
  BY DEF ReceiveReply, ReceiveRequest, history
<1>6. \A s \in Script, i \in RequestId : SendReply(s, i) => fate' = fate
  BY DEF SendReply
<1>7. Tick \/ UNCHANGED vars \/ (\E p \in Process : PollPanics(p)) => fate' = fate
  BY DEF Tick, PollPanics, vars, history
<1> QED
  BY <1>1, <1>2, <1>3, <1>4, <1>5, <1>6, <1>7 DEF Next

\* What a poll finds is the reply that was read first.
LEMMA PollFindsFirst ==
  ASSUME IInv, NEW p \in Process, PollReply(p)
  PROVE  LET id == defer[p] IN
         /\ id \in RequestId /\ fate[id] = "waiting"
         /\ UNCHANGED replied
         /\ \/ /\ first[id] # NoValue
               /\ fate' = [fate EXCEPT ![id] = "answered"]
               /\ got' = [got EXCEPT ![id] = first[id]]
            \/ /\ first[id] # NoValue
               /\ fate' = [fate EXCEPT ![id] = "failed"]
               /\ UNCHANGED got
            \/ /\ first[id] = NoValue
               /\ fate' = [fate EXCEPT ![id] = "empty"]
               /\ UNCHANGED got
<1> USE DEF IInv
<1>1. defer[p] \in RequestId /\ defer[p] \in Known /\ fate[defer[p]] = "waiting"
  BY DEF PollReply, Waiters, TypeOK
<1>2. message_replies[defer[p]].value = first[defer[p]]
  BY <1>1 DEF Filled
<1> QED
  BY <1>1, <1>2 DEF PollReply, Answered, Failed, TimedOut

\* A request ends with the reply that was read first, fails only on one that
\* was read, and ends without one only if none was read before the poll: no
\* reply that beat the poll is lost to the time-out.
THEOREM FirstReplyIsKept == Spec => FirstReplyWins
<1> DEFINE Wins ==
      \A id \in RequestId : fate'[id] # fate[id] =>
        /\ fate'[id] = "answered" => got'[id] = first[id]
        /\ fate'[id] \in {"answered", "failed"} => first[id] # NoValue
        /\ fate'[id] = "empty" => first[id] = NoValue
<1>1. IInv /\ [Next]_vars => Wins
  <2> SUFFICES ASSUME IInv, [Next]_vars, NEW id \in RequestId,
                      fate'[id] \in {"answered", "failed", "empty"}, fate'[id] # fate[id]
               PROVE  /\ fate'[id] = "answered" => got'[id] = first[id]
                      /\ fate'[id] \in {"answered", "failed"} => first[id] # NoValue
                      /\ fate'[id] = "empty" => first[id] = NoValue
    OBVIOUS
  <2>1. PICK p \in Process : PollReply(p) /\ defer[p] = id
    BY OnlyPollsEnd
  <2> QED
    BY <2>1, PollFindsFirst DEF IInv, TypeOK
<1>2. [][Wins]_vars <=> FirstReplyWins
  BY DEF FirstReplyWins
<1> HIDE DEF Wins
<1> QED
  BY <1>1, <1>2, RepliesInvariant, PTL DEF Spec

\* The scripts get what module Promises says: a request ends at most once, with
\* a reply that a receiver gave to it, with an error or with none, and a receiver replies to
\* it at most once, whatever is lost or overtaken.
THEOREM RepliesImplementPromises == Spec => ImplementsPromise
<1>1. Init => Promise!Init
  BY DEF Init, Promise!Init
<1>2. ASSUME IInv, [Next]_vars
      PROVE  [Promise!Next]_(Promise!vars)
  <2> USE <1>2 DEF IInv
  <2> DEFINE Same == UNCHANGED <<fate, got, replied>>
  <2>1. Same => [Promise!Next]_(Promise!vars)
    BY DEF Promise!vars
  <2>2. ASSUME NEW p \in Process, InsertEntry(p)
        PROVE  Promise!Next
    <3>1. PICK id \in RequestId : Promise!Ask(id)
      BY <2>2 DEF InsertEntry, Promise!Ask
    <3> QED
      BY <3>1 DEF Promise!Next
  <2>3. ASSUME NEW p \in Process, PollReply(p)
        PROVE  Promise!Next
    <3> DEFINE id == defer[p]
    <3>1. id \in RequestId /\ fate[id] = "waiting" /\ UNCHANGED replied
      BY <2>3, PollFindsFirst
    <3>2. CASE first[id] # NoValue
      <4>1. first[id] \in Script /\ replied[<<first[id], id>>] = 1
        BY <3>1, <3>2 DEF TypeOK, Replied
      <4>2. CASE fate' = [fate EXCEPT ![id] = "answered"]
                 /\ got' = [got EXCEPT ![id] = first[id]]
        <5>1. Promise!Answer(first[id], id)
          BY <3>1, <4>1, <4>2 DEF Promise!Answer
        <5> QED
          BY <3>1, <4>1, <5>1 DEF Promise!Next
      <4>3. CASE fate' = [fate EXCEPT ![id] = "failed"] /\ UNCHANGED got
        <5>1. Promise!Fail(first[id], id)
          BY <3>1, <4>1, <4>3 DEF Promise!Fail
        <5> QED
          BY <3>1, <4>1, <5>1 DEF Promise!Next
      <4> QED
        BY <2>3, <3>2, <4>2, <4>3, PollFindsFirst
    <3>3. CASE first[id] = NoValue
      <4>1. fate' = [fate EXCEPT ![id] = "empty"] /\ UNCHANGED got
        BY <2>3, <3>3, PollFindsFirst
      <4>2. Promise!GiveUp(id, "empty")
        BY <3>1, <4>1 DEF Promise!GiveUp
      <4> QED
        BY <3>1, <4>2 DEF Promise!Next
    <3> QED
      BY <3>2, <3>3
  <2>4. ASSUME NEW p \in Process, Stop(p)
        PROVE  Promise!Next \/ Same
    <3>1. /\ defer[p] \in RequestId /\ UNCHANGED <<got, replied>>
          /\ fate' = [fate EXCEPT ![defer[p]] = IF @ = "waiting" THEN "stopped" ELSE @]
      BY <2>4 DEF Stop, TypeOK
    <3>2. CASE fate[defer[p]] = "waiting"
      <4>1. Promise!GiveUp(defer[p], "stopped")
        BY <3>1, <3>2 DEF Promise!GiveUp
      <4> QED
        BY <3>1, <4>1 DEF Promise!Next
    <3>3. CASE fate[defer[p]] # "waiting"
      BY <3>1, <3>3 DEF TypeOK
    <3> QED
      BY <3>2, <3>3
  <2>5. ASSUME NEW s \in Script, NEW id \in RequestId, SendReply(s, id)
        PROVE  Promise!Next
    <3>1. replied[<<s, id>>] = 0 /\ fate[id] # "unused"
      BY <2>5 DEF SendReply, Replied, Unused
    <3>2. replied' = [replied EXCEPT ![<<s, id>>] = 1]
      BY <2>5, <3>1 DEF SendReply, TypeOK
    <3>3. Promise!Reply(s, id)
      BY <2>5, <3>1, <3>2 DEF SendReply, Promise!Reply
    <3> QED
      BY <3>3 DEF Promise!Next
  <2>6. \A p \in Process : SendRequest(p) => Same
    BY DEF SendRequest, history
  <2>7. \A m \in network : ReceiveReply(m) \/ ReceiveRequest(m) => Same
    BY DEF ReceiveReply, ReceiveRequest, history
  <2>8. Tick \/ UNCHANGED vars \/ (\E p \in Process : PollPanics(p)) => Same
    BY DEF Tick, PollPanics, vars, history
  <2> HIDE DEF Same
  <2> QED
    BY <2>1, <2>2, <2>3, <2>4, <2>5, <2>6, <2>7, <2>8 DEF Next
<1> QED
  BY <1>1, <1>2, RepliesInvariant, PTL DEF Spec, ImplementsPromise, Promise!Spec
=============================================================================
