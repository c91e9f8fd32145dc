------------------------------ MODULE DbChannel ------------------------------
(***************************************************************************)
(* A worker's access to the blob server's database: DbProxy in the worker, *)
(* installDbBridge on the main thread, one MessagePort between them.  Calls *)
(* are numbered; the bridge's handler is async, so queries run side by     *)
(* side and answers come back in any order.                                *)
(***************************************************************************)
EXTENDS Naturals, Sequences

CONSTANTS
    DbOp,     \* operations a worker asks for
    MaxCalls  \* bound on the calls of one behaviour

VARIABLES
    counter,   \* DbProxy.counter
    waiting,   \* DbProxy.pending: calls whose promise is not settled
    toBridge,  \* messages on the port, in order
    querying,  \* requests whose query is running on the main thread
    toProxy,   \* answers on the port, in order
    settled    \* history: what each settled promise asked and was told

channelVars == <<counter, waiting, toBridge, querying, toProxy, settled>>

ChannelInit ==
    /\ counter = 0 /\ waiting = {} /\ querying = {} /\ settled = {}
    /\ toBridge = <<>> /\ toProxy = <<>>

\* call: number the request, remember the promise, post.
CallDb(op) ==
    /\ counter < MaxCalls
    /\ counter' = counter + 1
    /\ waiting' = waiting \cup {[id |-> counter', op |-> op]}
    /\ toBridge' = Append(toBridge, [id |-> counter', op |-> op])
    /\ UNCHANGED <<querying, toProxy, settled>>

\* The bridge's handler up to its await: the query starts.
TakeRequest ==
    /\ toBridge # <<>>
    /\ querying' = querying \cup {Head(toBridge)}
    /\ toBridge' = Tail(toBridge)
    /\ UNCHANGED <<counter, waiting, toProxy, settled>>

\* The query ends: its result, or the error it threw, under the request's number.
PostAnswer(m) ==
    /\ querying' = querying \ {m}
    /\ \E told \in {m.op, "error"} : toProxy' = Append(toProxy, [id |-> m.id, told |-> told])
    /\ UNCHANGED <<counter, waiting, toBridge, settled>>

\* Bug: answers are taken to come in the order of the calls.
AwaitingInOrder(id) == {w \in waiting : \A v \in waiting : w.id <= v.id}
\* port.onmessage in the worker: settle the promise of that number, if any.
Awaiting(id) == {w \in waiting : w.id = id}
SettleCall ==
    /\ toProxy # <<>>
    /\ LET answer == Head(toProxy)
           mine == Awaiting(answer.id) IN
         /\ waiting' = waiting \ mine
         /\ settled' = settled \cup
              {[id |-> w.id, op |-> w.op, told |-> answer.told] : w \in mine}
    /\ toProxy' = Tail(toProxy)
    /\ UNCHANGED <<counter, toBridge, querying>>

ChannelNext ==
    \/ \E op \in DbOp : CallDb(op)
    \/ TakeRequest
    \/ \E m \in querying : PostAnswer(m)
    \/ SettleCall

ChannelSpec == ChannelInit /\ [][ChannelNext]_channelVars

-----------------------------------------------------------------------------
(***************************************************************************)
(* Whatever order the queries finish in, a worker's promise is settled     *)
(* once, with the answer to its own request or that request's error, and   *)
(* the promises still pending are the ones a message is under way for      *)
(* (DbProxy's port.onmessage and pending map, the bridge's reqId).         *)
(***************************************************************************)
AnswersMatch ==
    /\ \A s \in settled : s.told \in {s.op, "error"}
    /\ \A s \in settled : \A w \in waiting : s.id # w.id
    /\ \A s, t \in settled : s.id = t.id => s = t
    /\ {w.id : w \in waiting} =
          {toBridge[i].id : i \in DOMAIN toBridge} \cup {m.id : m \in querying}
          \cup {toProxy[i].id : i \in DOMAIN toProxy}
=============================================================================
