------------------------------- MODULE Replies -------------------------------
(***************************************************************************)
(* Messages that wait for a reply (std_system.rs): the reply table, shared *)
(* by the thread that runs the project and the thread that reads the web   *)
(* socket.  A process of the project sends a request and polls the table   *)
(* until the first reply or the time-out; meanwhile it may be stopped.     *)
(*                                                                         *)
(* The receiver runs the same code: every script that hears the message    *)
(* holds a clone of its reply key.  A reply carries the script it is from. *)
(* In between is the NetsBlox server, of which only this is assumed: it    *)
(* does not repeat a message.  It may reorder, delay and lose messages.    *)
(***************************************************************************)
EXTENDS Integers, FiniteSets

CONSTANTS
  Process,    \* the processes of the project that sends
  Script,     \* the scripts of the project that receives
  RequestId,  \* the identifiers that requests are given
  NoId,       \* no request
  NoValue,    \* Option::None, of a reply
  Timeout     \* MESSAGE_REPLY_TIMEOUT_MS, in ticks of the clock

ASSUME NoneAssumption == NoId \notin RequestId /\ NoValue \notin Script
ASSUME TimeoutAssumption == Timeout \in Nat \ {0}

VARIABLES
  message_replies,  \* the reply table: an entry under each request it knows
  defer,            \* what each process waits for: a request, or nothing
  sending,          \* the process between the two steps of send_message
  panicked,         \* the thread of the project panicked, holding the table
  network,          \* the messages on their way
  keys,             \* the reply keys held by scripts that heard a request
  first,            \* history: the reply to a request that was read first
  fate,             \* history: what became of a request
  got,              \* history: the reply a request ended with
  replied           \* history: how often a script replied to a request

vars == <<message_replies, defer, sending, panicked, network, keys,
          first, fate, got, replied>>
history == <<first, fate, got, replied>>

Entry == [age : 0 .. Timeout, value : Script \union {NoValue}]
Message == [type : {"request"}, id : RequestId]
             \union [type : {"reply"}, id : RequestId, value : Script]
Fate == {"unused", "waiting", "answered", "failed", "empty", "stopped"}

Request(id) == [type |-> "request", id |-> id]

Reply(id, s) == [type |-> "reply", id |-> id, value |-> s]
-----------------------------------------------------------------------------
Known == DOMAIN message_replies

\* Mutant of Remove: the entry stays.
RemoveNothing(id) == message_replies

Remove(id) == [i \in Known \ {id} |-> message_replies[i]]

Init ==
  /\ message_replies = [id \in {} |-> [age |-> 0, value |-> NoValue]]
  /\ defer = [p \in Process |-> NoId]
  /\ sending = {}
  /\ panicked = FALSE
  /\ network = {}
  /\ keys = {}
  /\ first = [id \in RequestId |-> NoValue]
  /\ fate = [id \in RequestId |-> "unused"]
  /\ got = [id \in RequestId |-> NoValue]
  /\ replied = [x \in Script \X RequestId |-> 0]

\* The thread of the project is between two operations.
Free == ~panicked /\ sending = {}

\* send_message, up to the release of the table's lock: a new entry.
InsertEntry(p) ==
  /\ Free
  /\ defer[p] = NoId
  /\ \E id \in RequestId :
       /\ fate[id] = "unused"
       /\ message_replies' = [i \in Known \union {id} |->
            IF i = id THEN [age |-> 0, value |-> NoValue] ELSE message_replies[i]]
       /\ defer' = [defer EXCEPT ![p] = id]
       /\ fate' = [fate EXCEPT ![id] = "waiting"]
  /\ sending' = {p}
  /\ UNCHANGED <<panicked, network, keys, first, got, replied>>

\* The rest of send_message: the request goes out.
SendRequest(p) ==
  /\ sending = {p}
  /\ network' = network \union {Request(defer[p])}
  /\ sending' = {}
  /\ UNCHANGED <<message_replies, defer, panicked, keys, history>>

\* poll_reply finds a reply, or none and the time is over; the process goes on
\* with what it found.
Answered(p, id) ==
  /\ message_replies[id].value # NoValue
  /\ defer' = [defer EXCEPT ![p] = NoId]
  /\ fate' = [fate EXCEPT ![id] = "answered"]
  /\ got' = [got EXCEPT ![id] = message_replies[id].value]

TimedOut(p, id) ==
  /\ message_replies[id].value = NoValue
  /\ message_replies[id].age >= Timeout
  /\ defer' = [defer EXCEPT ![p] = NoId]
  /\ fate' = [fate EXCEPT ![id] = "empty"]
  /\ UNCHANGED got

\* poll_reply finds a reply that from_json does not convert (a null).  The
\* error ends the process; or a handler catches it, and defer stays as it was.
Failed(p, id) ==
  /\ message_replies[id].value # NoValue
  /\ defer' \in {[defer EXCEPT ![p] = NoId], defer}
  /\ fate' = [fate EXCEPT ![id] = "failed"]
  /\ UNCHANGED got

\* Mutant of PollReply: a poll that times out sweeps all old entries.
PollReplySweeping(p) ==
  /\ Free
  /\ defer[p] \in Known
  /\ LET id    == defer[p]
         young == {i \in Known : message_replies[i].age < Timeout}
     IN  \/ (Answered(p, id) \/ Failed(p, id)) /\ message_replies' = Remove(id)
         \/ TimedOut(p, id) /\ message_replies' = [i \in young |-> message_replies[i]]
  /\ UNCHANGED <<sending, panicked, network, keys, first, replied>>

\* Mutant of PollReply: a poll that finds no reply starts the time-out anew.
PollReplyRefreshing(p) ==
  /\ Free
  /\ defer[p] \in Known
  /\ LET id    == defer[p]
         entry == message_replies[id]
         ends  == entry.value # NoValue \/ entry.age >= Timeout
     IN  /\ message_replies' = IF ends THEN Remove(id)
                                      ELSE [message_replies EXCEPT ![id].age = 0]
         /\ defer' = [defer EXCEPT ![p] = IF ends THEN NoId ELSE @]
  /\ UNCHANGED <<sending, panicked, network, keys, history>>

\* poll_reply on a known request, and what the process does with its result.
PollReply(p) ==
  /\ Free
  /\ defer[p] \in Known
  /\ Answered(p, defer[p]) \/ Failed(p, defer[p]) \/ TimedOut(p, defer[p])
  /\ message_replies' = Remove(defer[p])
  /\ UNCHANGED <<sending, panicked, network, keys, first, replied>>

\* poll_reply on a request that it does not know: the unwrap of the lookup
\* panics under the table's lock, which is poisoned for the reader thread too.
PollPanics(p) ==
  /\ Free
  /\ defer[p] \notin Known \union {NoId}
  /\ panicked' = TRUE
  /\ UNCHANGED <<message_replies, defer, sending, network, keys, history>>

\* The process is stopped or restarted while it waits, or before it polls a
\* second time; nobody tells the system.
Stop(p) ==
  /\ Free
  /\ defer[p] # NoId
  /\ defer' = [defer EXCEPT ![p] = NoId]
  /\ fate' = [fate EXCEPT ![defer[p]] = IF @ = "waiting" THEN "stopped" ELSE @]
  /\ UNCHANGED <<message_replies, sending, panicked, network, keys,
                 first, got, replied>>

\* Mutant of ReceiveReply: a later reply replaces an earlier one.
ReceiveReplyOverwriting(m) ==
  /\ ~panicked
  /\ m \in network
  /\ m.type = "reply"
  /\ network' = network \ {m}
  /\ message_replies' = [i \in Known |->
       IF i = m.id THEN [message_replies[i] EXCEPT !.value = m.value]
                   ELSE message_replies[i]]
  /\ first' = IF first[m.id] = NoValue THEN [first EXCEPT ![m.id] = m.value]
                                       ELSE first
  /\ UNCHANGED <<defer, sending, panicked, keys, fate, got, replied>>

\* The reader thread gets a reply: it fills the entry, if there is one to fill.
ReceiveReply(m) ==
  /\ ~panicked
  /\ m \in network
  /\ m.type = "reply"
  /\ network' = network \ {m}
  /\ message_replies' = [i \in Known |->
       IF i = m.id /\ message_replies[i].value = NoValue
         THEN [message_replies[i] EXCEPT !.value = m.value]
         ELSE message_replies[i]]
  /\ first' = IF first[m.id] = NoValue THEN [first EXCEPT ![m.id] = m.value]
                                       ELSE first
  /\ UNCHANGED <<defer, sending, panicked, keys, fate, got, replied>>

\* The receiving project steps on a request: each script gets the reply key.
ReceiveRequest(m) ==
  /\ m \in network
  /\ m.type = "request"
  /\ network' = network \ {m}
  /\ keys' = keys \union (Script \X {m.id})
  /\ UNCHANGED <<message_replies, defer, sending, panicked, history>>

\* Mutant of SendReply: the key is used without being taken.
SendReplyKeepingKey(s, id) ==
  /\ <<s, id>> \in keys
  /\ network' = network \union {Reply(id, s)}
  /\ replied' = [replied EXCEPT ![<<s, id>>] = @ + 1]
  /\ UNCHANGED <<message_replies, defer, sending, panicked, keys, first, fate, got>>

\* Instruction::SendNetworkReply and send_reply: the key is taken, then used.
SendReply(s, id) ==
  /\ <<s, id>> \in keys
  /\ keys' = keys \ {<<s, id>>}
  /\ network' = network \union {Reply(id, s)}
  /\ replied' = [replied EXCEPT ![<<s, id>>] = @ + 1]
  /\ UNCHANGED <<message_replies, defer, sending, panicked, first, fate, got>>

\* Time passes.  An age of Timeout stands for every later one.
Tick ==
  /\ \E id \in Known : message_replies[id].age < Timeout
  /\ message_replies' = [id \in Known |->
       [message_replies[id] EXCEPT !.age = IF @ < Timeout THEN @ + 1 ELSE @]]
  /\ UNCHANGED <<defer, sending, panicked, network, keys, history>>

Next ==
  \/ \E p \in Process :
       \/ InsertEntry(p) \/ SendRequest(p)
       \/ PollReply(p) \/ PollPanics(p) \/ Stop(p)
  \/ \E m \in network : ReceiveReply(m) \/ ReceiveRequest(m)
  \/ \E s \in Script, id \in RequestId : SendReply(s, id)
  \/ Tick

\* The project goes on stepping the process, and time goes on.  Nothing is
\* assumed of the receiver and of the network.
Fairness ==
  /\ \A p \in Process :
       WF_vars(SendRequest(p)) /\ WF_vars(PollReply(p)) /\ WF_vars(PollPanics(p))
  /\ WF_vars(Tick)

Spec == Init /\ [][Next]_vars
FairSpec == Spec /\ Fairness
-----------------------------------------------------------------------------
TypeOK ==
  /\ Known \subseteq RequestId
  /\ message_replies \in [Known -> Entry]
  /\ defer \in [Process -> RequestId \union {NoId}]
  /\ sending = {} \/ \E p \in Process : sending = {p} /\ defer[p] # NoId
  /\ panicked \in BOOLEAN
  /\ network \subseteq Message
  /\ keys \subseteq Script \X RequestId
  /\ first \in [RequestId -> Script \union {NoValue}]
  /\ fate \in [RequestId -> Fate]
  /\ got \in [RequestId -> Script \union {NoValue}]
  /\ replied \in [Script \X RequestId -> Nat]

\* A process that waits finds its entry in the table, which is its own,
\* whatever has arrived late, timed out or been stopped meanwhile.  There is
\* one exception: a process that caught the error of a reply that could not be
\* converted still waits, for an entry that is gone.  So the unwrap of the
\* lookup in poll_reply can fail, and only there.
WaitersAreKnown ==
  /\ \A p \in Process : defer[p] # NoId =>
       /\ fate[defer[p]] = IF defer[p] \in Known THEN "waiting" ELSE "failed"
       /\ \A q \in Process \ {p} : defer[q] # defer[p]
  /\ panicked => \E p \in Process : defer[p] # NoId /\ fate[defer[p]] = "failed"

\* The table keeps no entry of a request that has ended with a reply, an error
\* or the time-out, even if replies to it go on coming in.  What it does keep
\* for ever is the entry of a process that was stopped while it waited.
OnlyTheStoppedLinger ==
  \A id \in Known :
    \/ \E p \in Process : defer[p] = id
    \/ fate[id] = "stopped"

\* A request ends with the reply that was read first, fails only on a reply
\* that was read, and ends without one only if none was read before the poll:
\* no reply that beat the poll is lost to the time-out, and no later reply
\* replaces an earlier one.
FirstReplyWins ==
  [][\A id \in RequestId : fate'[id] # fate[id] =>
       /\ fate'[id] = "answered" => got'[id] = first[id]
       /\ fate'[id] \in {"answered", "failed"} => first[id] # NoValue
       /\ fate'[id] = "empty" => first[id] = NoValue]_vars

\* Whoever waits for a reply stops waiting, though nobody may ever reply: this
\* takes only that the process is polled and that time passes.  The only thing
\* that can prevent it is the panic of the thread, see WaitersAreKnown.
EveryWaitEnds ==
  \A p \in Process, id \in RequestId :
    defer[p] = id ~> defer[p] # id \/ panicked

\* Scripts get what module Promises says of requests and replies.
Promise == INSTANCE Promises
ImplementsPromise == Promise!Spec
=============================================================================
