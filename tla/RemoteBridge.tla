---------------------------- MODULE RemoteBridge ----------------------------
(***************************************************************************)
(* The real-time bridge: the simulation calls RemoteAgent::act once a step  *)
(* and never waits; a bridge thread moves observations and actions between  *)
(* the two queues of the RemoteAgent and a TCP connection.                  *)
(*                                                                          *)
(* An action frame is 84 bytes, a header of 56 and a payload of 28.  The    *)
(* thread's reads may be cut off by their timeout inside a frame, so the    *)
(* stream is a sequence of 28-byte parts: two for a header, one for a       *)
(* payload.  An observation is the number of its step.                      *)
(***************************************************************************)
EXTENDS Integers, Sequences

CONSTANTS
    Entities, Own,        \* entity ids an action may name; the controlled entity
    Commands, NoCommand,  \* action payloads; ActionTensor::default()
    MaxActionAge,         \* MAX_ACTION_AGE
    Steps,                \* bound: fixed steps the simulation runs
    Room,                 \* bound: observations the socket's buffers hold
    MayDie                \* TRUE: the controlled entity may die

ASSUME BridgeAssumption ==
    /\ Own \in Entities
    /\ NoCommand \in Commands
    /\ MaxActionAge \in Nat
    /\ Steps \in Nat
    /\ Room \in Nat \ {0}
    /\ MayDie \in BOOLEAN

NoStep == -1

\* An action frame as the client encodes it; `decodes` is FALSE for a frame of
\* the same size that decode_action refuses (another version or kind).
Frame == [entity : Entities, step : Nat, command : Commands, decodes : BOOLEAN]
Part == [part : 1..3, frame : Frame]
Action == [entity : Entities, step : Nat, command : Commands]

VARIABLES
    \* the simulation
    tick,      \* SimClock::step
    wpc,       \* where the simulation is
    agent,     \* the controlled entity and its RemoteAgent
    last,      \* RemoteAgent::last_action
    decided,   \* what the last step applied, with the debt of that moment
    \* the queues of the RemoteAgent
    queued,    \* observation in the bounded queue, NoStep when it is empty
    actions,   \* actions in the unbounded queue
    \* the bridge thread
    bpc,       \* where the thread is
    held,      \* observation the thread has received and not written yet
    got,       \* parts of the frame that read_frame has read so far
    \* the connection
    client,    \* the client's end
    down,      \* observations written and not read by the client
    up,        \* parts written by the client and not read by the thread
    \* history
    debt       \* reads that timed out and whose reply is still to come

worldVars == <<tick, wpc, agent, last, decided>>
threadVars == <<bpc, held, got>>
socketVars == <<client, down, up>>
bridgeVars == <<worldVars, queued, actions, threadVars, socketVars, debt>>

NoAction == [step |-> NoStep, command |-> NoCommand]
Nothing == [from |-> NoStep, command |-> NoCommand, debt |-> 0]

BridgeTypeOK ==
    /\ tick \in 0..Steps
    /\ wpc \in {"offer", "collect", "over"}
    /\ agent \in {"alive", "dead", "dropped"}
    /\ last \in [step : Nat \cup {NoStep}, command : Commands]
    /\ decided \in [from : Nat \cup {NoStep}, command : Commands, debt : Int]
    /\ queued \in Nat \cup {NoStep}
    /\ actions \in Seq(Action)
    /\ bpc \in {"hello", "recv", "write", "read", "gone"}
    /\ held \in Nat \cup {NoStep}
    /\ got \in Seq(Part) /\ Len(got) < 3
    /\ client \in {"open", "closed"}
    /\ down \in Seq(Nat) /\ Len(down) <= Room
    /\ up \in Seq(Part)
    /\ debt \in Int

BridgeInit ==
    /\ tick = 0
    /\ wpc = "offer"
    /\ agent = "alive"
    /\ last = NoAction
    /\ decided = Nothing
    /\ queued = NoStep
    /\ actions = <<>>
    /\ bpc = "hello"
    /\ held = NoStep
    /\ got = <<>>
    /\ client = "open"
    /\ down = <<>>
    /\ up = <<>>
    /\ debt = 0

-----------------------------------------------------------------------------
(* The simulation: RemoteAgent::act in two steps, because the thread may run *)
(* between its two queue operations                                          *)

\* A slip: send instead of try_send.
OfferBlocking ==
    /\ wpc = "offer" /\ agent = "alive" /\ tick < Steps
    /\ queued = NoStep \/ bpc = "gone"
    /\ wpc' = "collect"
    /\ queued' = IF bpc # "gone" THEN tick ELSE queued
    /\ UNCHANGED <<tick, agent, last, decided, actions, threadVars, socketVars, debt>>

\* try_send drops the new observation when one is queued, or the thread is gone.
Offer ==
    /\ wpc = "offer" /\ agent = "alive" /\ tick < Steps
    /\ wpc' = "collect"
    /\ queued' = IF queued = NoStep /\ bpc # "gone" THEN tick ELSE queued
    /\ UNCHANGED <<tick, agent, last, decided, actions, threadVars, socketVars, debt>>

\* A slip: the entity of an action is not compared.
TakesAnyEntity(a) == a.step <= tick

Takes(a) == a.entity = Own /\ a.step <= tick
Taken == {i \in 1..Len(actions) : Takes(actions[i])}

\* A slip: if let instead of while let receives one action per step.
DrainOne ==
    /\ actions' = IF actions = <<>> THEN <<>> ELSE Tail(actions)
    /\ last' = IF actions # <<>> /\ Takes(Head(actions))
               THEN [step |-> Head(actions).step, command |-> Head(actions).command]
               ELSE last

\* The queue is emptied; the last action that is taken is kept.
Drain ==
    /\ actions' = <<>>
    /\ \/ Taken = {} /\ last' = last
       \/ \E i \in Taken :
            /\ \A j \in Taken : j <= i
            /\ last' = [step |-> actions[i].step, command |-> actions[i].command]

\* A slip: the last action is applied whatever its age.
IsFreshForever(action) == action.step # NoStep

IsFresh(action) == action.step # NoStep /\ tick - action.step <= MaxActionAge

Collect ==
    /\ wpc = "collect"
    /\ Drain
    /\ decided' = IF IsFresh(last')
                  THEN [from |-> last'.step, command |-> last'.command, debt |-> debt]
                  ELSE Nothing
    /\ tick' = tick + 1
    /\ wpc' = "offer"
    /\ agent' \in {"alive"} \cup (IF MayDie THEN {"dead"} ELSE {})
    /\ UNCHANGED <<queued, threadVars, socketVars, debt>>

\* The RemoteAgent is dropped, and its ends of both queues with it.
DropsAgent ==
    /\ agent' = "dropped"
    /\ actions' = <<>>
    /\ last' = NoAction
    /\ UNCHANGED <<queued, threadVars, socketVars, debt>>

\* The first gather after a death retains only the controllers of the living.
Retain ==
    /\ wpc = "offer" /\ agent = "dead" /\ tick < Steps
    /\ DropsAgent
    /\ tick' = tick + 1
    /\ decided' = Nothing
    /\ UNCHANGED wpc

\* A step of a world without the agent.
StepAlone ==
    /\ wpc = "offer" /\ agent = "dropped" /\ tick < Steps
    /\ tick' = tick + 1
    /\ decided' = Nothing
    /\ UNCHANGED <<wpc, agent, last, queued, actions, threadVars, socketVars, debt>>

\* The steps are done and the world is dropped with its controllers.
Finish ==
    /\ wpc = "offer" /\ tick = Steps
    /\ wpc' = "over"
    /\ DropsAgent
    /\ UNCHANGED <<tick, decided>>

World == Offer \/ Collect \/ Retain \/ StepAlone \/ Finish

-----------------------------------------------------------------------------
(* The bridge thread *)

\* The thread ends and drops the stream and its ends of the queues; actions it
\* has sent stay readable.
Gone ==
    /\ bpc' = "gone"
    /\ queued' = NoStep
    /\ held' = NoStep
    /\ got' = <<>>
    /\ UNCHANGED <<worldVars, actions, client, down>>

\* A write on a connection that the client has closed may fail.
WriteHello ==
    /\ bpc = "hello"
    /\ bpc' = "recv"
    /\ UNCHANGED <<worldVars, queued, actions, held, got, socketVars, debt>>

HelloFails ==
    /\ bpc = "hello" /\ client = "closed"
    /\ Gone
    /\ UNCHANGED <<up, debt>>

\* A slip: what waits in the socket is discarded, whole frames or not.
ReceiveDiscarding ==
    /\ bpc = "recv" /\ queued # NoStep
    /\ bpc' = "write"
    /\ held' = queued
    /\ queued' = NoStep
    /\ up' = <<>>
    /\ UNCHANGED <<worldVars, actions, got, client, down, debt>>

Receive ==
    /\ bpc = "recv" /\ queued # NoStep
    /\ bpc' = "write"
    /\ held' = queued
    /\ queued' = NoStep
    /\ UNCHANGED <<worldVars, actions, got, socketVars, debt>>

\* recv fails once the queue is empty and its sender is dropped.
ReceiveFails ==
    /\ bpc = "recv" /\ queued = NoStep /\ agent = "dropped"
    /\ Gone
    /\ UNCHANGED <<up, debt>>

WriteObservation ==
    /\ bpc = "write" /\ Len(down) < Room
    /\ bpc' = "read"
    /\ down' = IF client = "open" THEN Append(down, held) ELSE down
    /\ held' = NoStep
    /\ UNCHANGED <<worldVars, queued, actions, got, client, up, debt>>

\* The write times out on a connection the client does not read, or the client
\* has closed it.
WriteFails ==
    /\ bpc = "write" /\ (client = "closed" \/ Len(down) = Room)
    /\ Gone
    /\ UNCHANGED <<up, debt>>

\* What read_frame has once the next part has arrived.
Arrived == Append(got, Head(up))

\* A slip: the first word of a header is not compared.
BadHeaderNever(parts) == FALSE

\* A header whose first word is not the magic number: read from inside a frame.
BadHeader(parts) == Len(parts) = 2 /\ parts[1].part # 1

ReadPart ==
    /\ bpc = "read" /\ up # <<>>
    /\ Len(Arrived) < 3 /\ ~BadHeader(Arrived)
    /\ got' = Arrived
    /\ up' = Tail(up)
    /\ UNCHANGED <<worldVars, queued, actions, bpc, held, client, down, debt>>

RejectHeader ==
    /\ bpc = "read" /\ up # <<>>
    /\ BadHeader(Arrived)
    /\ up' = Tail(up)
    /\ Gone
    /\ UNCHANGED debt

\* decode_action takes the identities from the header and the command from the
\* payload.
Decoded(parts) ==
    [entity |-> parts[1].frame.entity, step |-> parts[1].frame.step,
     command |-> parts[3].frame.command]

\* A slip: the frame buffer is kept for the next frame.
ReadReplyKeepingBuffer ==
    /\ bpc = "read" /\ up # <<>>
    /\ Len(Arrived) = 3
    /\ actions' = IF Arrived[1].frame.decodes /\ agent # "dropped"
                  THEN Append(actions, Decoded(Arrived)) ELSE actions
    /\ bpc' = "recv"
    /\ got' = Arrived
    /\ up' = Tail(up)
    /\ UNCHANGED <<worldVars, queued, held, client, down, debt>>

\* The frame is complete.  Nobody receives the action once the RemoteAgent is
\* dropped.
ReadReply ==
    /\ bpc = "read" /\ up # <<>>
    /\ Len(Arrived) = 3
    /\ actions' = IF Arrived[1].frame.decodes /\ agent # "dropped"
                  THEN Append(actions, Decoded(Arrived)) ELSE actions
    /\ bpc' = "recv"
    /\ got' = <<>>
    /\ up' = Tail(up)
    /\ UNCHANGED <<worldVars, queued, held, client, down, debt>>

\* A frame of which the head has been read is lost with what was read.
HeadRead(parts) == parts # <<>> /\ parts[1].part = 1

\* A slip: a read that times out is tried again.
ReadTimesOutRetrying == bpc = "read" /\ UNCHANGED bridgeVars

\* 100 ms without a byte: the thread goes on to the next observation, what it
\* has read of a frame is dropped, and the rest will be read as a header.
ReadTimesOut ==
    /\ bpc = "read"
    /\ bpc' = "recv"
    /\ got' = <<>>
    /\ debt' = IF HeadRead(got) THEN debt ELSE debt + 1
    /\ UNCHANGED <<worldVars, queued, actions, held, socketVars>>

ReadFails ==
    /\ bpc = "read" /\ client = "closed" /\ up = <<>>
    /\ Gone
    /\ UNCHANGED <<up, debt>>

Thread ==
    \/ WriteHello \/ HelloFails
    \/ Receive \/ ReceiveFails
    \/ WriteObservation \/ WriteFails
    \/ ReadPart \/ RejectHeader \/ ReadReply \/ ReadTimesOut \/ ReadFails
=============================================================================
