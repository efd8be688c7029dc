---------------------------- MODULE RemoteProofs ----------------------------
(***************************************************************************)
(* Proofs about the real-time bridge, for every number of steps, age of     *)
(* actions, buffer size, entity and command: the commands that are applied  *)
(* are fresh, the debt of a timed-out read is never paid, it mutes the      *)
(* client, and the newest command wins.                                     *)
(***************************************************************************)
EXTENDS RemoteSystem, SequenceTheorems, FiniteSetTheorems, TLAPS

-----------------------------------------------------------------------------
(* Sequences of parts *)

\* A queue is empty when its length is zero.
LEMMA EmptyByLength ==
    ASSUME NEW S, NEW q \in Seq(S)
    PROVE  q = <<>> <=> Len(q) = 0
  BY EmptySeq

\* What Head and Tail of a non-empty queue are.
LEMMA HeadAndTail ==
    ASSUME NEW S, NEW q \in Seq(S), q # <<>>
    PROVE  /\ Len(q) \in Nat \ {0}
           /\ Head(q) = q[1] /\ Head(q) \in S
           /\ Tail(q) \in Seq(S) /\ Len(Tail(q)) = Len(q) - 1
           /\ \A i \in 1..(Len(q) - 1) : Tail(q)[i] = q[i + 1]
           /\ Tail(q) = <<>> <=> Len(q) = 1
<1>1. Len(q) \in Nat \ {0}
  BY EmptySeq
<1>2. Head(q) = q[1]
  OBVIOUS
<1>3. /\ Head(q) \in S /\ Tail(q) \in Seq(S) /\ Len(Tail(q)) = Len(q) - 1
      /\ \A i \in 1..Len(Tail(q)) : Tail(q)[i] = q[i + 1]
  BY HeadTailProperties
<1>4. Tail(q) = <<>> <=> Len(Tail(q)) = 0
  BY <1>3, EmptyByLength
<1>5. QED
  BY <1>1, <1>2, <1>3, <1>4

\* What Append adds to a queue.
LEMMA Appended ==
    ASSUME NEW S, NEW q \in Seq(S), NEW e \in S
    PROVE  /\ Len(q) \in Nat
           /\ Append(q, e) \in Seq(S) /\ Append(q, e) # <<>>
           /\ Len(Append(q, e)) = Len(q) + 1
           /\ \A i \in 1..Len(q) : Append(q, e)[i] = q[i]
           /\ Append(q, e)[Len(q) + 1] = e
  BY AppendProperties, LenProperties

\* The rest of a contiguous stream is contiguous, and its first part follows
\* the one that was taken.
LEMMA ContiguousTail ==
    ASSUME NEW q \in Seq(Part), q # <<>>, Contiguous(q)
    PROVE  /\ Contiguous(Tail(q))
           /\ Tail(q) # <<>> => /\ Follows(Head(q), Tail(q)[1])
                                /\ Tail(q)[Len(Tail(q))] = q[Len(q)]
           /\ Tail(q) = <<>> => Head(q) = q[Len(q)]
<1>1. /\ Len(q) \in Nat \ {0} /\ Head(q) = q[1] /\ Len(Tail(q)) = Len(q) - 1
      /\ \A i \in 1..(Len(q) - 1) : Tail(q)[i] = q[i + 1]
      /\ Tail(q) = <<>> <=> Len(q) = 1
  BY HeadAndTail
<1>2. Contiguous(Tail(q))
  <2>. SUFFICES ASSUME NEW i \in 1..(Len(Tail(q)) - 1)
                PROVE  Follows(Tail(q)[i], Tail(q)[i + 1])
    BY DEF Contiguous
  <2>1. i + 1 \in 1..(Len(q) - 1) /\ i \in 1..(Len(q) - 1)
    BY <1>1
  <2>2. Tail(q)[i] = q[i + 1] /\ Tail(q)[i + 1] = q[(i + 1) + 1]
    BY <1>1, <2>1
  <2>3. Follows(q[i + 1], q[(i + 1) + 1])
    BY <2>1 DEF Contiguous
  <2>4. QED
    BY <2>2, <2>3
<1>3. ASSUME Tail(q) # <<>>
      PROVE  Follows(Head(q), Tail(q)[1]) /\ Tail(q)[Len(Tail(q))] = q[Len(q)]
  <2>1. 1 \in 1..(Len(q) - 1) /\ Len(q) - 1 \in 1..(Len(q) - 1)
    BY <1>1, <1>3
  <2>2. Tail(q)[1] = q[1 + 1] /\ Tail(q)[Len(q) - 1] = q[(Len(q) - 1) + 1]
    BY <1>1, <2>1
  <2>3. Follows(q[1], q[1 + 1])
    BY <2>1 DEF Contiguous
  <2>4. Tail(q)[1] = q[1 + 1] /\ Head(q) = q[1]
    BY <1>1, <2>2
  <2>5. Tail(q)[Len(Tail(q))] = q[Len(q)]
    <3>1. (Len(q) - 1) + 1 = Len(q) /\ Len(Tail(q)) = Len(q) - 1
      BY <1>1
    <3>2. QED
      BY <2>2, <3>1, Zenon
  <2>6. QED
    BY <2>3, <2>4, <2>5, Zenon
<1>4. QED
  BY <1>1, <1>2, <1>3

\* A contiguous stream grows by a part that follows its last one.
LEMMA ContiguousAppend ==
    ASSUME NEW q \in Seq(Part), NEW p \in Part, Contiguous(q),
           q # <<>> => Follows(q[Len(q)], p)
    PROVE  Contiguous(Append(q, p))
<1>1. /\ Len(q) \in Nat /\ Len(Append(q, p)) = Len(q) + 1
      /\ \A i \in 1..Len(q) : Append(q, p)[i] = q[i]
      /\ Append(q, p)[Len(q) + 1] = p
  BY Appended
<1>. SUFFICES ASSUME NEW i \in 1..Len(q)
              PROVE  Follows(Append(q, p)[i], Append(q, p)[i + 1])
  BY <1>1 DEF Contiguous
<1>2. CASE i = Len(q)
  <2>1. q # <<>>
    BY EmptySeq
  <2>2. QED
    BY <1>1, <1>2, <2>1
<1>3. CASE i # Len(q)
  <2>1. i \in 1..(Len(q) - 1) /\ i + 1 \in 1..Len(q)
    BY <1>1, <1>3
  <2>2. QED
    BY <1>1, <2>1 DEF Contiguous
<1>4. QED
  BY <1>2, <1>3

\* A prefix of a stream is a stream, and contiguous if the whole one is.
LEMMA Prefix ==
    ASSUME NEW q \in Seq(Part), NEW n \in 0..Len(q)
    PROVE  /\ SubSeq(q, 1, n) \in Seq(Part)
           /\ Len(SubSeq(q, 1, n)) = n
           /\ \A i \in 1..n : SubSeq(q, 1, n)[i] = q[i]
           /\ Contiguous(q) => Contiguous(SubSeq(q, 1, n))
<1>1. Len(q) \in Nat
  BY LenProperties
<1>2. \A i \in 1..n : q[i] \in Part
  BY <1>1, ElementOfSeq
<1>3. /\ SubSeq(q, 1, n) \in Seq(Part) /\ Len(SubSeq(q, 1, n)) = n
      /\ \A i \in 1..n : SubSeq(q, 1, n)[i] = q[i]
  BY <1>1, <1>2, SubSeqProperties
<1>4. QED
  BY <1>1, <1>3 DEF Contiguous

\* A frame written after whole frames keeps the stream contiguous, and ends it.
LEMMA ContiguousWrite ==
    ASSUME NEW q \in Seq(Part), NEW f \in Frame, Contiguous(q),
           q # <<>> => q[Len(q)].part = 3
    PROVE  /\ Written(q, f) \in Seq(Part)
           /\ Contiguous(Written(q, f))
           /\ Len(Written(q, f)) = Len(q) + 3
           /\ \A i \in 1..Len(q) : Written(q, f)[i] = q[i]
           /\ \A i \in 1..3 : Written(q, f)[Len(q) + i] = PartOf(f, i)
<1>1. /\ PartOf(f, 1) \in Part /\ PartOf(f, 2) \in Part /\ PartOf(f, 3) \in Part
      /\ PartOf(f, 1).part = 1 /\ PartOf(f, 2).part = 2 /\ PartOf(f, 3).part = 3
      /\ PartOf(f, 1).frame = f /\ PartOf(f, 2).frame = f /\ PartOf(f, 3).frame = f
  BY DEF PartOf, Part
<1>. DEFINE s == Append(q, PartOf(f, 1))
            t == Append(s, PartOf(f, 2))
            r == Append(t, PartOf(f, 3))
<1>2. /\ Len(q) \in Nat /\ s \in Seq(Part) /\ Len(s) = Len(q) + 1
      /\ \A i \in 1..Len(q) : s[i] = q[i]
      /\ s[Len(q) + 1] = PartOf(f, 1) /\ s # <<>>
  BY <1>1, Appended
<1>3. /\ t \in Seq(Part) /\ Len(t) = Len(s) + 1
      /\ \A i \in 1..Len(s) : t[i] = s[i]
      /\ t[Len(s) + 1] = PartOf(f, 2) /\ t # <<>>
  BY <1>1, <1>2, Appended
<1>4. /\ r \in Seq(Part) /\ Len(r) = Len(t) + 1
      /\ \A i \in 1..Len(t) : r[i] = t[i]
      /\ r[Len(t) + 1] = PartOf(f, 3)
  BY <1>1, <1>3, Appended
<1>5. Contiguous(s)
  <2>1. q # <<>> => Follows(q[Len(q)], PartOf(f, 1))
    BY <1>1 DEF Follows
  <2>2. QED
    BY <1>1, <2>1, ContiguousAppend
<1>6. Contiguous(t)
  <2>1. s[Len(s)] = PartOf(f, 1)
    BY <1>2, <1>3
  <2>2. Follows(PartOf(f, 1), PartOf(f, 2))
    BY <1>1 DEF Follows
  <2>3. QED
    BY <1>1, <1>2, <1>5, <2>1, <2>2, ContiguousAppend
<1>7. Contiguous(r)
  <2>1. t[Len(t)] = PartOf(f, 2)
    BY <1>2, <1>3
  <2>2. Follows(PartOf(f, 2), PartOf(f, 3))
    BY <1>1 DEF Follows
  <2>3. QED
    BY <1>1, <1>3, <1>6, <2>1, <2>2, ContiguousAppend
<1>8. Written(q, f) = r
  BY DEF Written
<1>. HIDE DEF s, t, r
<1>9. \A i \in 1..Len(q) : r[i] = q[i]
  BY <1>2, <1>3, <1>4
<1>10. r[Len(q) + 1] = PartOf(f, 1) /\ r[Len(q) + 2] = PartOf(f, 2) /\ r[Len(q) + 3] = PartOf(f, 3)
  BY <1>2, <1>3, <1>4
<1>11. \A i \in 1..3 : r[Len(q) + i] = PartOf(f, i)
  <2>. TAKE i \in 1..3
  <2>1. i = 1 \/ i = 2 \/ i = 3
    OBVIOUS
  <2>2. QED
    BY <1>10, <2>1
<1>12. Len(r) = Len(q) + 3
  BY <1>2, <1>3, <1>4
<1>13. QED
  BY <1>4, <1>7, <1>8, <1>9, <1>11, <1>12

-----------------------------------------------------------------------------
(* Type correctness *)

\* What read_frame has with the next part: what it had, and the part.
LEMMA ArrivedParts ==
    ASSUME BridgeTypeOK, up # <<>>
    PROVE  /\ Head(up) = up[1] /\ Head(up) \in Part /\ Tail(up) \in Seq(Part)
           /\ Len(got) \in Nat /\ Arrived \in Seq(Part) /\ Len(Arrived) = Len(got) + 1
           /\ \A i \in 1..Len(got) : Arrived[i] = got[i]
           /\ Arrived[Len(got) + 1] = up[1]
<1>1. Head(up) = up[1] /\ Head(up) \in Part /\ Tail(up) \in Seq(Part)
  BY HeadAndTail DEF BridgeTypeOK
<1>2. QED
  BY <1>1, Appended DEF BridgeTypeOK, Arrived

\* An action in the queue has the types of its fields.
LEMMA ActionFields ==
    ASSUME BridgeTypeOK, NEW i \in 1..Len(actions)
    PROVE  actions[i] \in Action /\ actions[i].step \in Nat /\ actions[i].command \in Commands
<1>1. actions[i] \in Action
  BY ElementOfSeq DEF BridgeTypeOK
<1>2. QED
  BY <1>1 DEF Action

\* Draining the queue leaves a well-typed last action.
LEMMA DrainType ==
    ASSUME BridgeTypeOK, Drain
    PROVE  last' \in [step : Nat \cup {NoStep}, command : Commands]
<1>1. CASE last' = last
  BY <1>1 DEF BridgeTypeOK
<1>2. ASSUME NEW i \in Taken,
             last' = [step |-> actions[i].step, command |-> actions[i].command]
      PROVE  last' \in [step : Nat \cup {NoStep}, command : Commands]
  BY <1>2, ActionFields DEF Taken
<1>3. QED
  BY <1>1, <1>2 DEF Drain

\* A step of the simulation keeps every type.
LEMMA WorldType ==
    ASSUME BridgeTypeOK, ControlOK, World
    PROVE  BridgeTypeOK'
<1>. USE BridgeAssumption
<1>. USE DEF worldVars, threadVars, socketVars
<1>1. NoAction \in [step : Nat \cup {NoStep}, command : Commands]
  BY DEF NoAction
<1>2. Nothing \in [from : Nat \cup {NoStep}, command : Commands, debt : Int]
  BY DEF Nothing
<1>3. <<>> \in Seq(Action)
  BY EmptySeq
<1>4. CASE Offer
  BY <1>4 DEF Offer, BridgeTypeOK
<1>5. CASE Collect
  <2>1. last' \in [step : Nat \cup {NoStep}, command : Commands]
    BY <1>5, DrainType DEF Collect
  <2>2. decided' \in [from : Nat \cup {NoStep}, command : Commands, debt : Int]
    <3>1. [from |-> last'.step, command |-> last'.command, debt |-> debt]
             \in [from : Nat \cup {NoStep}, command : Commands, debt : Int]
      BY <2>1 DEF BridgeTypeOK
    <3>2. QED
      BY <1>2, <1>5, <3>1 DEF Collect
  <2>3. tick' \in 0..Steps
    BY <1>5 DEF Collect, ControlOK, BridgeTypeOK
  <2>4. actions' \in Seq(Action)
    BY <1>3, <1>5 DEF Collect, Drain
  <2>5. agent' \in {"alive", "dead", "dropped"} /\ wpc' \in {"offer", "collect", "over"}
    BY <1>5 DEF Collect
  <2>6. UNCHANGED <<queued, threadVars, socketVars, debt>>
    BY <1>5 DEF Collect
  <2>7. QED
    BY <2>1, <2>2, <2>3, <2>4, <2>5, <2>6 DEF BridgeTypeOK
<1>6. CASE Retain
  BY <1>1, <1>2, <1>3, <1>6 DEF Retain, DropsAgent, BridgeTypeOK
<1>7. CASE StepAlone
  BY <1>2, <1>7 DEF StepAlone, BridgeTypeOK
<1>8. CASE Finish
  BY <1>1, <1>3, <1>8 DEF Finish, DropsAgent, BridgeTypeOK
<1>9. QED
  BY <1>4, <1>5, <1>6, <1>7, <1>8 DEF World

\* The end of the thread keeps every type.
LEMMA GoneType ==
    ASSUME BridgeTypeOK, Gone, up' \in Seq(Part), UNCHANGED debt
    PROVE  BridgeTypeOK'
<1>1. <<>> \in Seq(Part) /\ Len(<<>>) = 0
  BY EmptySeq
<1>2. QED
  BY <1>1 DEF Gone, BridgeTypeOK, worldVars

\* A step of the thread keeps every type.
LEMMA ThreadType ==
    ASSUME BridgeTypeOK, ControlOK, Thread
    PROVE  BridgeTypeOK'
<1>. USE DEF worldVars, threadVars, socketVars
<1>1. <<>> \in Seq(Part) /\ Len(<<>>) = 0
  BY EmptySeq
<1>2. CASE WriteHello
  BY <1>2 DEF WriteHello, BridgeTypeOK
<1>3. CASE HelloFails \/ ReceiveFails \/ WriteFails \/ ReadFails
  BY <1>3, GoneType DEF HelloFails, ReceiveFails, WriteFails, ReadFails, BridgeTypeOK
<1>4. CASE Receive
  BY <1>4 DEF Receive, BridgeTypeOK
<1>5. CASE WriteObservation
  <2>1. held \in Nat
    BY <1>5 DEF WriteObservation, ControlOK, BridgeTypeOK
  <2>2. Append(down, held) \in Seq(Nat) /\ Len(Append(down, held)) = Len(down) + 1 /\ Len(down) \in Nat
    BY <2>1, Appended DEF BridgeTypeOK
  <2>3. down' \in Seq(Nat) /\ Len(down') <= Room
    BY <1>5, <2>2, BridgeAssumption DEF WriteObservation, BridgeTypeOK
  <2>4. QED
    BY <1>5, <2>3 DEF WriteObservation, BridgeTypeOK
<1>6. CASE ReadPart
  <2>1. Tail(up) \in Seq(Part) /\ Arrived \in Seq(Part)
    BY <1>6, ArrivedParts DEF ReadPart
  <2>2. QED
    BY <1>6, <2>1 DEF ReadPart, BridgeTypeOK
<1>7. CASE RejectHeader
  <2>1. up' \in Seq(Part)
    BY <1>7, ArrivedParts DEF RejectHeader
  <2>2. QED
    BY <1>7, <2>1, GoneType DEF RejectHeader
<1>8. CASE ReadReply
  <2>1. /\ Tail(up) \in Seq(Part) /\ Arrived \in Seq(Part) /\ Len(Arrived) = 3
    BY <1>8, ArrivedParts DEF ReadReply
  <2>2. Arrived[1] \in Part /\ Arrived[3] \in Part
    <3>1. 1 \in 1..Len(Arrived) /\ 3 \in 1..Len(Arrived)
      BY <2>1
    <3>2. QED
      BY <2>1, <3>1, ElementOfSeq, Zenon
  <2>3. Decoded(Arrived) \in Action
    BY <2>2 DEF Decoded, Action, Part, Frame
  <2>4. Append(actions, Decoded(Arrived)) \in Seq(Action)
    BY <2>3, Appended DEF BridgeTypeOK
  <2>5. actions' \in Seq(Action)
    BY <1>8, <2>4 DEF ReadReply, BridgeTypeOK
  <2>6. got' \in Seq(Part) /\ Len(got') < 3 /\ up' \in Seq(Part)
    BY <1>1, <1>8, <2>1 DEF ReadReply
  <2>7. QED
    BY <1>8, <2>5, <2>6 DEF ReadReply, BridgeTypeOK
<1>9. CASE ReadTimesOut
  <2>1. debt' \in Int
    BY <1>9 DEF ReadTimesOut, BridgeTypeOK
  <2>2. QED
    BY <1>1, <1>9, <2>1 DEF ReadTimesOut, BridgeTypeOK
<1>10. QED
  BY <1>2, <1>3, <1>4, <1>5, <1>6, <1>7, <1>8, <1>9 DEF Thread

\* The frame an answer puts together is a frame.
LEMMA ReplyType ==
    ASSUME NEW r \in Replies, NEW step \in Nat, NEW lead \in 0..MaxLead
    PROVE  Reply(r, step + lead) \in Frame
<1>1. r \in [entity : Entities, command : Commands, decodes : BOOLEAN]
  BY ReplyAssumption
<1>2. step + lead \in Nat
  BY ReplyAssumption
<1>3. QED
  BY <1>1, <1>2 DEF Reply, Frame
\* What an answer writes: a whole frame, recorded among the sent ones.
LEMMA AnswerWrites ==
    ASSUME BridgeTypeOK, Answer
    PROVE  \E f \in Frame : Writes(f)
<1>1. PICK r \in Replies, lead \in 0..MaxLead : Writes(Reply(r, Head(down) + lead))
  BY DEF Answer
<1>2. Head(down) \in Nat
  BY HeadAndTail DEF Answer, BridgeTypeOK
<1>3. QED
  BY <1>1, <1>2, ReplyType

\* A frame written behind whole frames leaves a stream of parts.
LEMMA WrittenType ==
    ASSUME NEW q \in Seq(Part), NEW f \in Frame
    PROVE  Written(q, f) \in Seq(Part)
<1>1. PartOf(f, 1) \in Part /\ PartOf(f, 2) \in Part /\ PartOf(f, 3) \in Part
  BY DEF PartOf, Part
<1>2. Append(q, PartOf(f, 1)) \in Seq(Part)
  BY <1>1, Appended
<1>3. Append(Append(q, PartOf(f, 1)), PartOf(f, 2)) \in Seq(Part)
  BY <1>1, <1>2, Appended
<1>4. QED
  BY <1>1, <1>3, Appended DEF Written

\* A step of the client keeps every type.
LEMMA ClientType ==
    ASSUME TypeOK, Client
    PROVE  TypeOK'
<1>. USE DEF worldVars, threadVars
<1>1. ASSUME down # <<>>
      PROVE  Tail(down) \in Seq(Nat) /\ Len(Tail(down)) <= Room
  <2>1. Tail(down) \in Seq(Nat) /\ Len(Tail(down)) = Len(down) - 1 /\ Len(down) \in Nat
    BY <1>1, HeadAndTail DEF TypeOK, BridgeTypeOK
  <2>2. QED
    BY <2>1, BridgeAssumption DEF TypeOK, BridgeTypeOK
<1>2. CASE Answer
  <2>1. PICK f \in Frame : Writes(f)
    BY <1>2, AnswerWrites DEF TypeOK
  <2>2. up' \in Seq(Part) /\ sent' \subseteq Frame
    BY <2>1, WrittenType DEF Writes, TypeOK, BridgeTypeOK
  <2>3. down' \in Seq(Nat) /\ Len(down') <= Room
    BY <1>1, <1>2 DEF Answer
  <2>4. QED
    BY <1>2, <2>2, <2>3 DEF Answer, TypeOK, BridgeTypeOK
<1>3. CASE Skip
  <2>1. down' \in Seq(Nat) /\ Len(down') <= Room
    BY <1>1, <1>3 DEF Skip
  <2>2. debt' \in Int
    BY <1>3 DEF Skip, TypeOK, BridgeTypeOK
  <2>3. QED
    BY <1>3, <2>1, <2>2 DEF Skip, TypeOK, BridgeTypeOK
<1>4. CASE Close
  <2>1. up' \in Seq(Part)
    BY <1>4, Prefix DEF Close, TypeOK, BridgeTypeOK
  <2>2. down' \in Seq(Nat) /\ Len(down') <= Room
    <3>1. <<>> \in Seq(Nat) /\ Len(<<>>) = 0
      BY EmptySeq
    <3>2. QED
      BY <1>4, <3>1, BridgeAssumption DEF Close
  <2>3. QED
    BY <1>4, <2>1, <2>2 DEF Close, TypeOK, BridgeTypeOK
<1>5. QED
  BY <1>2, <1>3, <1>4 DEF Client

\* Every step keeps every type.
LEMMA TypeStep ==
    ASSUME TypeOK, ControlOK, [Next]_vars
    PROVE  TypeOK'
<1>1. CASE WorldStep
  BY <1>1, WorldType DEF WorldStep, TypeOK
<1>2. CASE ThreadStep
  BY <1>2, ThreadType DEF ThreadStep, TypeOK
<1>3. CASE Client
  BY <1>3, ClientType
<1>4. CASE UNCHANGED vars
  BY <1>4 DEF TypeOK, BridgeTypeOK, vars, bridgeVars, worldVars, threadVars, socketVars
<1>5. QED
  BY <1>1, <1>2, <1>3, <1>4 DEF Next, Finished

-----------------------------------------------------------------------------
(* Control *)

\* The simulation drains only inside a step that it still had to take, and the
\* thread writes only what it has received.
LEMMA ControlStep ==
    ASSUME TypeOK, ControlOK, [Next]_vars
    PROVE  ControlOK'
<1>. USE DEF ControlOK, worldVars, threadVars, socketVars
<1>1. CASE WorldStep
  BY <1>1 DEF WorldStep, World, Offer, Collect, Retain, StepAlone, Finish, DropsAgent
<1>2. CASE ThreadStep
  BY <1>2 DEF ThreadStep, Thread, WriteHello, HelloFails, Receive, ReceiveFails, WriteObservation,
     WriteFails, ReadPart, RejectHeader, ReadReply, ReadTimesOut, ReadFails, Gone
<1>3. CASE Client
  BY <1>3 DEF Client, Answer, Skip, Close
<1>4. CASE UNCHANGED vars
  BY <1>4 DEF vars, bridgeVars
<1>5. QED
  BY <1>1, <1>2, <1>3, <1>4 DEF Next, Finished

-----------------------------------------------------------------------------
(* The stream *)

\* Steps that read or write no part leave the stream as it is.
LEMMA StreamUnchanged ==
    ASSUME StreamOK, UNCHANGED <<client, up, got>>
    PROVE  StreamOK'
  BY DEF StreamOK, Contiguous

\* No parts read: what was left to read is contiguous still.
LEMMA StreamFresh ==
    ASSUME TypeOK, StreamOK, got' = <<>>, UNCHANGED client,
           up' = up \/ (up # <<>> /\ up' = Tail(up))
    PROVE  StreamOK'
<1>1. Len(<<>>) = 0
  BY EmptySeq
<1>2. Contiguous(got') /\ Len(got') = 0
  BY <1>1 DEF Contiguous
<1>3. Contiguous(up')
  BY ContiguousTail DEF StreamOK, TypeOK, BridgeTypeOK
<1>4. up' # <<>> => up'[Len(up')] = up[Len(up)] /\ up # <<>>
  <2>1. CASE up' = up
    BY <2>1
  <2>2. CASE up # <<>> /\ up' = Tail(up)
    <3>1. Tail(up) # <<>> => Tail(up)[Len(Tail(up))] = up[Len(up)]
      BY <2>2, ContiguousTail DEF StreamOK, TypeOK, BridgeTypeOK
    <3>2. QED
      BY <2>2, <3>1
  <2>3. QED
    BY <2>1, <2>2
<1>5. client' = "open" => \/ up' # <<>> /\ up'[Len(up')].part = 3
                          \/ up' = <<>> /\ got' = <<>>
  BY <1>4 DEF StreamOK
<1>6. QED
  BY <1>2, <1>3, <1>5 DEF StreamOK

\* Reading a part moves it behind what was read.
LEMMA StreamRead ==
    ASSUME TypeOK, StreamOK, ReadPart
    PROVE  StreamOK'
<1>1. /\ up # <<>> /\ got' = Append(got, up[1]) /\ up' = Tail(up)
      /\ client' = client /\ ~BadHeader(got') /\ up[1] \in Part /\ Head(up) = up[1]
  BY ArrivedParts DEF ReadPart, Arrived, TypeOK
<1>2. /\ Len(got) \in Nat /\ got' \in Seq(Part) /\ Len(got') = Len(got) + 1
      /\ got' # <<>> /\ got'[Len(got')] = up[1]
  BY <1>1, Appended DEF TypeOK, BridgeTypeOK
<1>3. Contiguous(got')
  BY <1>1, ContiguousAppend DEF StreamOK, TypeOK, BridgeTypeOK
<1>4. /\ Contiguous(up')
      /\ up' # <<>> => Follows(up[1], up'[1]) /\ up'[Len(up')] = up[Len(up)]
      /\ up' = <<>> => up[1] = up[Len(up)]
  BY <1>1, ContiguousTail DEF StreamOK, TypeOK, BridgeTypeOK
<1>5. Len(got') = 2 => got'[1].part = 1
  BY <1>1 DEF BadHeader
<1>6. client' = "open" => \/ up' # <<>> /\ up'[Len(up')].part = 3
                          \/ up' = <<>> /\ got'[Len(got')].part = 3
  BY <1>1, <1>2, <1>4 DEF StreamOK
<1>7. QED
  BY <1>2, <1>3, <1>4, <1>5, <1>6 DEF StreamOK

\* A frame is written behind whole frames.
LEMMA StreamAnswer ==
    ASSUME TypeOK, StreamOK, Answer
    PROVE  StreamOK'
<1>1. PICK f \in Frame : Writes(f)
  BY AnswerWrites DEF TypeOK
<1>2. client = "open" /\ client' = client /\ got' = got
  BY DEF Answer, threadVars
<1>3. up \in Seq(Part) /\ up' = Written(up, f) /\ Len(up) \in Nat
  BY <1>1, LenProperties DEF Writes, TypeOK, BridgeTypeOK
<1>4. up # <<>> => up[Len(up)].part = 3
  BY <1>2 DEF StreamOK
<1>5. /\ up' \in Seq(Part) /\ Contiguous(up') /\ Len(up') = Len(up) + 3
      /\ \A i \in 1..Len(up) : up'[i] = up[i]
      /\ \A i \in 1..3 : up'[Len(up) + i] = PartOf(f, i)
  BY <1>3, <1>4, ContiguousWrite DEF StreamOK
<1>6. up' # <<>> /\ up'[Len(up')].part = 3
  <2>1. up'[Len(up')] = PartOf(f, 3)
    BY <1>5
  <2>2. QED
    BY <1>3, <1>5, <2>1, EmptySeq DEF PartOf
<1>7. got # <<>> => Follows(got[Len(got)], up'[1])
  <2>1. CASE up # <<>>
    <3>1. 1 \in 1..Len(up)
      BY <1>3, <2>1, EmptySeq
    <3>2. up'[1] = up[1]
      BY <1>5, <3>1
    <3>3. QED
      BY <2>1, <3>2 DEF StreamOK
  <2>2. CASE up = <<>>
    <3>1. Len(up) + 1 = 1
      BY <2>2, EmptySeq
    <3>2. up'[1] = PartOf(f, 1)
      BY <1>5, <3>1
    <3>3. got # <<>> => got[Len(got)].part = 3
      BY <1>2, <2>2 DEF StreamOK
    <3>4. QED
      BY <3>2, <3>3 DEF Follows, PartOf
  <2>3. QED
    BY <2>1, <2>2
<1>8. Contiguous(got') /\ (Len(got') = 2 => got'[1].part = 1)
  BY <1>2 DEF StreamOK
<1>9. QED
  BY <1>2, <1>5, <1>6, <1>7, <1>8 DEF StreamOK

\* What a closing connection still delivers is a prefix of what was written.
LEMMA StreamClose ==
    ASSUME TypeOK, StreamOK, Close
    PROVE  StreamOK'
<1>1. PICK n \in 0..Len(up) : up' = SubSeq(up, 1, n)
  BY DEF Close
<1>2. client' = "closed" /\ got' = got
  BY DEF Close, threadVars
<1>3. /\ up' \in Seq(Part) /\ Len(up') = n /\ Contiguous(up')
      /\ \A i \in 1..n : up'[i] = up[i]
  BY <1>1, Prefix DEF StreamOK, TypeOK, BridgeTypeOK
<1>4. up' # <<>> => up # <<>> /\ up'[1] = up[1]
  <2>. HAVE up' # <<>>
  <2>1. Len(up) \in Nat /\ n \in Nat \ {0}
    BY <1>3, EmptySeq, LenProperties DEF TypeOK, BridgeTypeOK
  <2>2. 1 \in 1..n /\ Len(up) # 0
    BY <2>1
  <2>3. QED
    BY <1>3, <2>2, EmptySeq
<1>5. Contiguous(got') /\ (Len(got') = 2 => got'[1].part = 1)
  BY <1>2 DEF StreamOK
<1>6. got' # <<>> /\ up' # <<>> => Follows(got'[Len(got')], up'[1])
  BY <1>2, <1>4 DEF StreamOK
<1>7. QED
  BY <1>2, <1>3, <1>5, <1>6 DEF StreamOK

\* Every step keeps the stream in order.
LEMMA StreamStep ==
    ASSUME TypeOK, StreamOK, [Next]_vars
    PROVE  StreamOK'
<1>. USE DEF worldVars, threadVars, socketVars
<1>1. CASE WorldStep
  <2>1. UNCHANGED <<client, up, got>>
    BY <1>1 DEF WorldStep, World, Offer, Collect, Retain, StepAlone, Finish, DropsAgent
  <2>2. QED
    BY <2>1, StreamUnchanged
<1>2. CASE ThreadStep
  <2>1. CASE WriteHello \/ Receive \/ WriteObservation
    <3>1. UNCHANGED <<client, up, got>>
      BY <2>1 DEF WriteHello, Receive, WriteObservation
    <3>2. QED
      BY <3>1, StreamUnchanged
  <2>2. CASE HelloFails \/ ReceiveFails \/ WriteFails \/ ReadFails
    BY <2>2, StreamFresh DEF HelloFails, ReceiveFails, WriteFails, ReadFails, Gone
  <2>3. CASE ReadPart
    BY <2>3, StreamRead
  <2>4. CASE RejectHeader \/ ReadReply \/ ReadTimesOut
    BY <2>4, StreamFresh DEF RejectHeader, ReadReply, ReadTimesOut, Gone
  <2>5. QED
    BY <1>2, <2>1, <2>2, <2>3, <2>4 DEF ThreadStep, Thread
<1>3. CASE Client
  BY <1>3, StreamAnswer, StreamClose, StreamUnchanged DEF Client, Skip
<1>4. CASE UNCHANGED vars
  BY <1>4, StreamUnchanged DEF vars, bridgeVars
<1>5. QED
  BY <1>1, <1>2, <1>3, <1>4 DEF Next, Finished
-----------------------------------------------------------------------------
(* Parts and actions come from frames the client wrote *)

\* The frames the client has written are only added to, and so are the offers.
LEMMA SentGrows ==
    ASSUME [Next]_vars
    PROVE  sent \subseteq sent' /\ Offers \subseteq Offers'
<1>1. sent \subseteq sent'
  BY DEF Next, WorldStep, ThreadStep, Client, Answer, Skip, Close, Writes, Finished, vars
<1>2. QED
  BY <1>1 DEF Offers

\* Fewer parts, or none, come from the frames that were written.
LEMMA PartsKept ==
    ASSUME TypeOK, PartsSent, sent \subseteq sent',
           got' = <<>> \/ got' = got,
           up' = up \/ (up # <<>> /\ up' = Tail(up))
    PROVE  PartsSent'
<1>1. \A i \in 1..Len(got') : got'[i].frame \in sent'
  BY EmptySeq DEF PartsSent
<1>2. \A i \in 1..Len(up') : up'[i].frame \in sent'
  <2>1. CASE up' = up
    BY <2>1 DEF PartsSent
  <2>2. CASE up # <<>> /\ up' = Tail(up)
    <3>1. /\ Len(up) \in Nat /\ Len(Tail(up)) = Len(up) - 1
          /\ \A i \in 1..(Len(up) - 1) : Tail(up)[i] = up[i + 1]
      BY <2>2, HeadAndTail DEF TypeOK, BridgeTypeOK
    <3>2. \A i \in 1..(Len(up) - 1) : i + 1 \in 1..Len(up)
      BY <3>1
    <3>3. QED
      BY <2>2, <3>1, <3>2 DEF PartsSent
  <2>3. QED
    BY <2>1, <2>2
<1>3. QED
  BY <1>1, <1>2 DEF PartsSent

\* A part that is read comes from a frame that was written.
LEMMA PartsRead ==
    ASSUME TypeOK, PartsSent, ReadPart, UNCHANGED sent
    PROVE  PartsSent'
<1>1. /\ Len(got) \in Nat /\ Len(got') = Len(got) + 1
      /\ \A i \in 1..Len(got) : got'[i] = got[i]
      /\ got'[Len(got) + 1] = up[1]
  BY ArrivedParts DEF ReadPart, TypeOK
<1>2. /\ Len(up) \in Nat \ {0} /\ Len(up') = Len(up) - 1
      /\ \A i \in 1..(Len(up) - 1) : up'[i] = up[i + 1]
  BY HeadAndTail DEF ReadPart, TypeOK, BridgeTypeOK
<1>3. up[1].frame \in sent
  <2>1. 1 \in 1..Len(up)
    BY <1>2
  <2>2. QED
    BY <2>1 DEF PartsSent
<1>4. \A i \in 1..Len(got') : got'[i].frame \in sent'
  <2>. TAKE i \in 1..Len(got')
  <2>1. CASE i \in 1..Len(got)
    BY <1>1, <2>1 DEF PartsSent
  <2>2. CASE i = Len(got) + 1
    BY <1>1, <1>3, <2>2
  <2>3. QED
    BY <1>1, <2>1, <2>2
<1>5. \A i \in 1..Len(up') : up'[i].frame \in sent'
  <2>. TAKE i \in 1..Len(up')
  <2>1. i + 1 \in 1..Len(up) /\ up'[i] = up[i + 1]
    BY <1>2
  <2>2. QED
    BY <2>1 DEF PartsSent
<1>6. QED
  BY <1>4, <1>5 DEF PartsSent

\* The parts of an answer come from the frame it wrote.
LEMMA PartsAnswered ==
    ASSUME TypeOK, StreamOK, PartsSent, Answer
    PROVE  PartsSent'
<1>1. PICK f \in Frame : Writes(f)
  BY AnswerWrites DEF TypeOK
<1>2. up # <<>> => up[Len(up)].part = 3
  BY DEF StreamOK, Answer
<1>3. /\ up' = Written(up, f) /\ sent' = sent \cup {f} /\ got' = got /\ Len(up) \in Nat
  BY <1>1, LenProperties DEF Writes, Answer, threadVars, TypeOK, BridgeTypeOK
<1>4. /\ Len(up') = Len(up) + 3
      /\ \A i \in 1..Len(up) : up'[i] = up[i]
      /\ \A i \in 1..3 : up'[Len(up) + i] = PartOf(f, i)
  BY <1>2, <1>3, ContiguousWrite DEF StreamOK, TypeOK, BridgeTypeOK
<1>5. \A i \in 1..Len(up') : up'[i].frame \in sent'
  <2>. TAKE i \in 1..Len(up')
  <2>1. CASE i \in 1..Len(up)
    BY <1>3, <1>4, <2>1 DEF PartsSent
  <2>2. CASE i \notin 1..Len(up)
    <3>1. i - Len(up) \in 1..3 /\ Len(up) + (i - Len(up)) = i
      BY <1>3, <1>4, <2>2
    <3>2. up'[i] = PartOf(f, i - Len(up))
      BY <1>4, <3>1
    <3>3. QED
      BY <1>3, <3>2 DEF PartOf
  <2>3. QED
    BY <2>1, <2>2
<1>6. QED
  BY <1>3, <1>5 DEF PartsSent

\* A closing connection loses parts and adds none.
LEMMA PartsClosed ==
    ASSUME TypeOK, PartsSent, Close
    PROVE  PartsSent'
<1>1. PICK n \in 0..Len(up) : up' = SubSeq(up, 1, n)
  BY DEF Close
<1>2. Len(up') = n /\ (\A i \in 1..n : up'[i] = up[i]) /\ Len(up) \in Nat
  BY <1>1, Prefix, LenProperties DEF TypeOK, BridgeTypeOK
<1>3. QED
  BY <1>2 DEF Close, PartsSent, threadVars

\* Every step leaves parts of written frames only.
LEMMA PartsStep ==
    ASSUME TypeOK, StreamOK, PartsSent, [Next]_vars
    PROVE  PartsSent'
<1>. USE DEF worldVars, threadVars, socketVars
<1>0. sent \subseteq sent'
  BY SentGrows
<1>1. CASE WorldStep
  <2>1. got' = got /\ up' = up
    BY <1>1 DEF WorldStep, World, Offer, Collect, Retain, StepAlone, Finish, DropsAgent
  <2>2. QED
    BY <1>0, <2>1, PartsKept
<1>2. CASE ThreadStep
  <2>1. CASE ReadPart
    BY <1>2, <2>1, PartsRead DEF ThreadStep
  <2>2. CASE ~ReadPart
    <3>1. /\ got' = <<>> \/ got' = got
          /\ up' = up \/ (up # <<>> /\ up' = Tail(up))
      BY <1>2, <2>2 DEF ThreadStep, Thread, WriteHello, HelloFails, Receive, ReceiveFails,
         WriteObservation, WriteFails, RejectHeader, ReadReply, ReadTimesOut, ReadFails, Gone
    <3>2. QED
      BY <1>0, <3>1, PartsKept
  <2>3. QED
    BY <2>1, <2>2
<1>3. CASE Client
  <2>1. CASE Skip
    BY <1>0, <2>1, PartsKept DEF Skip
  <2>2. QED
    BY <1>3, <2>1, PartsAnswered, PartsClosed DEF Client
<1>4. CASE UNCHANGED vars
  <2>1. got' = got /\ up' = up
    BY <1>4 DEF vars, bridgeVars
  <2>2. QED
    BY <1>0, <2>1, PartsKept
<1>5. QED
  BY <1>1, <1>2, <1>3, <1>4 DEF Next, Finished

\* A frame that is complete carries one frame's identities and command: no
\* timeout makes the thread join the header of one to the payload of another.
LEMMA ReplyIsOneFrame ==
    ASSUME TypeOK, StreamOK, PartsSent, ReadReply
    PROVE  \E f \in sent : /\ Arrived[1].frame = f
                            /\ Decoded(Arrived) =
                                 [entity |-> f.entity, step |-> f.step, command |-> f.command]
<1>1. /\ up # <<>> /\ Len(got) = 2 /\ Arrived[1] = got[1] /\ Arrived[3] = up[1]
  <2>1. up # <<>> /\ Len(Arrived) = 3
    BY DEF ReadReply
  <2>2. /\ Len(got) \in Nat /\ Len(Arrived) = Len(got) + 1
        /\ \A i \in 1..Len(got) : Arrived[i] = got[i]
        /\ Arrived[Len(got) + 1] = up[1]
    BY <2>1, ArrivedParts DEF TypeOK
  <2>3. Len(got) = 2 /\ 1 \in 1..Len(got) /\ Len(got) + 1 = 3
    <3>1. Len(got) \in Nat /\ 3 = Len(got) + 1
      BY <2>1, <2>2, Zenon
    <3>2. \A n \in Nat : 3 = n + 1 => n = 2 /\ 1 \in 1..n /\ n + 1 = 3
      OBVIOUS
    <3>3. QED
      BY <3>1, <3>2, Zenon
  <2>4. QED
    BY <2>1, <2>2, <2>3, Zenon
<1>2. got[1].part = 1
  BY <1>1 DEF StreamOK
<1>3. Follows(got[1], got[2])
  <2>1. Follows(got[1], got[1 + 1])
    BY <1>1 DEF StreamOK, Contiguous
  <2>2. QED
    BY <2>1
<1>4. Follows(got[2], up[1])
  <2>1. Len(got) # 0 /\ got \in Seq(Part)
    BY <1>1 DEF TypeOK, BridgeTypeOK
  <2>2. got # <<>>
    BY <2>1, EmptyByLength, Zenon
  <2>3. QED
    BY <1>1, <2>2 DEF StreamOK
<1>5. got[2].part = 2 /\ got[2].frame = got[1].frame
  <2>1. 1 + 1 = 2
    OBVIOUS
  <2>2. QED
    BY <1>2, <1>3, <2>1 DEF Follows
<1>6. up[1].frame = got[1].frame
  BY <1>4, <1>5 DEF Follows
<1>7. got[1].frame \in sent
  BY <1>1 DEF PartsSent
<1>8. Decoded(Arrived) = [entity |-> got[1].frame.entity, step |-> got[1].frame.step,
                          command |-> got[1].frame.command]
  BY <1>1, <1>6 DEF Decoded
<1>9. QED
  BY <1>1, <1>7, <1>8

\* What is drained was offered, for a step that has come.
LEMMA DrainOffered ==
    ASSUME TypeOK, ActionsOffered, Drain
    PROVE  last' # NoAction => last' \in Offers /\ last'.step <= tick
<1>1. CASE last' = last
  BY <1>1 DEF ActionsOffered
<1>2. ASSUME NEW i \in Taken,
             last' = [step |-> actions[i].step, command |-> actions[i].command]
      PROVE  last' \in Offers /\ last'.step <= tick
  BY <1>2 DEF Taken, Takes, ActionsOffered
<1>3. QED
  BY <1>1, <1>2 DEF Drain

\* Every step leaves offered actions only.
LEMMA ActionsStep ==
    ASSUME TypeOK, StreamOK, PartsSent, ActionsOffered, [Next]_vars
    PROVE  ActionsOffered'
<1>. USE DEF worldVars, threadVars, socketVars
<1>1. Offers \subseteq Offers'
  BY SentGrows
<1>2. tick \in Nat /\ tick' \in {tick, tick + 1}
  BY BridgeAssumption DEF TypeOK, BridgeTypeOK, Next, WorldStep, World, Offer, Collect, Retain,
     StepAlone, Finish, ThreadStep, Thread, WriteHello, HelloFails, Receive, ReceiveFails,
     WriteObservation, WriteFails, ReadPart, RejectHeader, ReadReply, ReadTimesOut, ReadFails,
     Gone, Client, Answer, Skip, Close, Finished, vars, bridgeVars
<1>3. last.step \in Nat \cup {NoStep}
  BY DEF TypeOK, BridgeTypeOK
<1>4. CASE UNCHANGED <<actions, last>>
  BY <1>1, <1>2, <1>3, <1>4 DEF ActionsOffered, NoStep
<1>5. CASE actions' = <<>> /\ last' = NoAction
  BY <1>5, EmptySeq DEF ActionsOffered
<1>6. CASE Collect
  <2>1. last' # NoAction => last' \in Offers /\ last'.step <= tick
    BY <1>6, DrainOffered DEF Collect
  <2>2. last'.step \in Nat \cup {NoStep}
    BY <1>6, DrainType DEF Collect, TypeOK
  <2>3. actions' = <<>> /\ tick' = tick + 1
    BY <1>6 DEF Collect, Drain
  <2>4. QED
    BY <1>1, <1>2, <2>1, <2>2, <2>3, EmptySeq DEF ActionsOffered, NoStep
<1>7. CASE ReadReply /\ UNCHANGED sent
  <2>1. PICK f \in sent : /\ Arrived[1].frame = f
                          /\ Decoded(Arrived) =
                               [entity |-> f.entity, step |-> f.step, command |-> f.command]
    BY <1>7, ReplyIsOneFrame
  <2>2. f \in Frame
    BY DEF TypeOK
  <2>3. last' = last /\ tick' = tick /\ Offers' = Offers
    BY <1>7 DEF ReadReply, Offers
  <2>4. CASE actions' = actions
    BY <2>3, <2>4 DEF ActionsOffered
  <2>5. CASE f.decodes /\ actions' = Append(actions, Decoded(Arrived))
    <3>1. Decoded(Arrived) \in Action
      BY <2>1, <2>2 DEF Action, Frame
    <3>2. /\ Len(actions) \in Nat /\ Len(actions') = Len(actions) + 1
          /\ \A i \in 1..Len(actions) : actions'[i] = actions[i]
          /\ actions'[Len(actions) + 1] = Decoded(Arrived)
      BY <2>5, <3>1, Appended DEF TypeOK, BridgeTypeOK
    <3>3. f.entity = Own => [step |-> f.step, command |-> f.command] \in Offers
      BY <2>5 DEF Offers
    <3>4. ASSUME NEW i \in 1..Len(actions'), actions'[i].entity = Own
          PROVE  [step |-> actions'[i].step, command |-> actions'[i].command] \in Offers
      <4>1. CASE i \in 1..Len(actions)
        BY <3>2, <3>4, <4>1 DEF ActionsOffered
      <4>2. CASE i = Len(actions) + 1
        BY <2>1, <3>2, <3>3, <3>4, <4>2
      <4>3. QED
        BY <3>2, <4>1, <4>2
    <3>5. QED
      BY <2>3, <3>4 DEF ActionsOffered
  <2>6. QED
    BY <1>7, <2>1, <2>4, <2>5 DEF ReadReply
<1>8. CASE WorldStep
  BY <1>4, <1>5, <1>6, <1>8 DEF WorldStep, World, Offer, Retain, StepAlone, Finish, DropsAgent
<1>9. CASE ThreadStep
  BY <1>4, <1>7, <1>9 DEF ThreadStep, Thread, WriteHello, HelloFails, Receive, ReceiveFails,
     WriteObservation, WriteFails, ReadPart, RejectHeader, ReadTimesOut, ReadFails, Gone
<1>10. CASE Client
  BY <1>4, <1>10 DEF Client, Answer, Skip, Close
<1>11. CASE UNCHANGED vars
  BY <1>4, <1>11 DEF vars, bridgeVars
<1>12. QED
  BY <1>8, <1>9, <1>10, <1>11 DEF Next, Finished
-----------------------------------------------------------------------------
(* The theorems *)

\* The initial state satisfies the invariant.
LEMMA InitIInv == Init => IInv
<1>. SUFFICES ASSUME Init PROVE IInv
  OBVIOUS
<1>1. <<>> \in Seq(Part) /\ <<>> \in Seq(Action) /\ <<>> \in Seq(Nat) /\ Len(<<>>) = 0
  BY EmptySeq
<1>2. TypeOK
  BY <1>1, BridgeAssumption DEF Init, BridgeInit, TypeOK, BridgeTypeOK, NoAction, Nothing
<1>3. ControlOK
  BY DEF Init, BridgeInit, ControlOK
<1>4. StreamOK
  BY <1>1 DEF Init, BridgeInit, StreamOK, Contiguous
<1>5. PartsSent /\ ActionsOffered
  BY <1>1 DEF Init, BridgeInit, PartsSent, ActionsOffered
<1>6. QED
  BY <1>2, <1>3, <1>4, <1>5 DEF IInv

\* Every step preserves the invariant.
LEMMA NextIInv == IInv /\ [Next]_vars => IInv'
  BY TypeStep, ControlStep, StreamStep, PartsStep, ActionsStep DEF IInv

\* The stream between client and thread stays in order, everything in it and
\* in the queue was written by the client, whatever the timeouts cut off.
THEOREM InductiveInvariant == Spec => []IInv
  BY InitIInv, NextIInv, PTL DEF Spec

\* The RemoteAgent, its thread and the socket keep their types; the socket
\* never holds more observations than its buffers do (RemoteAgent::new).
THEOREM TypeCorrect == Spec => []TypeOK
<1>1. IInv => TypeOK
  BY DEF IInv
<1>2. QED
  BY <1>1, InductiveInvariant, PTL

\* The offers are commands for steps.
LEMMA OffersType ==
    ASSUME TypeOK
    PROVE  Offers \subseteq [step : Nat, command : Commands]
  BY DEF TypeOK, Offers, Frame

\* A step of the simulation applies a fresh offer or nothing.
LEMMA CollectApplies ==
    ASSUME IInv, Collect, UNCHANGED sent
    PROVE  Contract!Apply
<1>. DEFINE applied == [step |-> decided.from, command |-> decided.command]
<1>1. tick' = tick + 1 /\ Offers' = Offers
  BY DEF Collect, Offers
<1>2. last' # NoAction => last' \in Offers /\ last'.step <= tick
  BY DrainOffered DEF Collect, IInv
<1>3. last' \in [step : Nat \cup {NoStep}, command : Commands]
  BY DrainType DEF Collect, IInv, TypeOK
<1>4. CASE IsFresh(last')
  <2>1. last' # NoAction /\ tick - last'.step <= MaxActionAge
    BY <1>4 DEF IsFresh, NoAction
  <2>2. applied' = last'
    <3>1. decided' = [from |-> last'.step, command |-> last'.command, debt |-> debt]
      BY <1>4 DEF Collect
    <3>2. QED
      BY <1>3, <3>1
  <2>3. applied' \in Contract!Fresh
    BY <1>2, <2>1, <2>2 DEF Contract!Fresh
  <2>4. QED
    BY <1>1, <2>3 DEF Contract!Apply
<1>5. CASE ~IsFresh(last')
  <2>1. decided' = Nothing
    BY <1>5 DEF Collect
  <2>2. applied' = NoAction
    BY <2>1 DEF Nothing, NoAction
  <2>3. QED
    BY <1>1, <2>2 DEF Contract!Apply
<1>6. QED
  BY <1>4, <1>5

\* A step of a world without the agent applies nothing.
LEMMA AloneApplies ==
    ASSUME Retain \/ StepAlone, UNCHANGED sent
    PROVE  Contract!Apply
<1>1. tick' = tick + 1 /\ decided' = Nothing /\ Offers' = Offers
  BY DEF Retain, StepAlone, Offers
<1>2. QED
  BY <1>1 DEF Contract!Apply, Nothing, NoAction

\* What leaves the simulation alone makes offers or changes nothing the
\* contract speaks of.
LEMMA OthersOffer ==
    ASSUME IInv, IInv', [Next]_vars, UNCHANGED <<tick, decided>>
    PROVE  Contract!Make
<1>1. Offers \subseteq Offers' /\ Offers' \subseteq [step : Nat, command : Commands]
  <2>1. Offers \subseteq Offers'
    BY SentGrows
  <2>2. TypeOK'
    BY DEF IInv
  <2>3. Offers' \subseteq [step : Nat, command : Commands]
    BY <2>2 DEF TypeOK, Offers, Frame
  <2>4. QED
    BY <2>1, <2>3
<1>2. QED
  BY <1>1 DEF Contract!Make

\* Every step of the system is a step of the contract.
LEMMA StepContract ==
    ASSUME IInv, IInv', [Next]_vars
    PROVE  [Contract!CommandsNext]_(Contract!commandVars)
<1>. USE DEF worldVars, threadVars, socketVars
<1>1. CASE UNCHANGED <<tick, decided>>
  BY <1>1, OthersOffer DEF Contract!CommandsNext
<1>2. CASE WorldStep
  <2>1. CASE Offer \/ Finish
    <3>1. UNCHANGED <<tick, decided>>
      BY <2>1 DEF Offer, Finish
    <3>2. QED
      BY <1>1, <3>1
  <2>2. CASE Collect
    BY <1>2, <2>2, CollectApplies DEF WorldStep, Contract!CommandsNext
  <2>3. CASE Retain \/ StepAlone
    BY <1>2, <2>3, AloneApplies DEF WorldStep, Contract!CommandsNext
  <2>4. QED
    BY <1>2, <2>1, <2>2, <2>3 DEF WorldStep, World
<1>3. CASE ThreadStep
  <2>1. UNCHANGED <<tick, decided>>
    BY <1>3 DEF ThreadStep, Thread, WriteHello, HelloFails, Receive, ReceiveFails, WriteObservation,
       WriteFails, ReadPart, RejectHeader, ReadReply, ReadTimesOut, ReadFails, Gone
  <2>2. QED
    BY <1>1, <2>1
<1>4. CASE Client
  BY <1>1, <1>4 DEF Client, Answer, Skip, Close
<1>5. CASE UNCHANGED vars
  BY <1>1, <1>5 DEF vars, bridgeVars
<1>6. QED
  BY <1>2, <1>3, <1>4, <1>5 DEF Next, Finished

\* Real-time mode implements its contract for every number of steps and every
\* maximal age: whatever the thread, the timeouts and the client do, a step
\* applies a command written whole for this entity and for one of the last
\* steps, or nothing (RemoteAgent::new, RemoteAgent::act).
THEOREM FreshCommandsOnly == Spec => KeepsFresh
<1>1. Init => Contract!CommandsInit
  BY DEF Init, BridgeInit, Contract!CommandsInit, Offers, Nothing, NoAction
<1>2. QED
  BY <1>1, InductiveInvariant, StepContract, PTL DEF Spec, KeepsFresh, Contract!CommandsSpec

-----------------------------------------------------------------------------
(* The heads in a stream *)

\* The number of frame heads among the first n parts of a stream.
Heads(q, n) == Cardinality({j \in 1..n : q[j].part = 1})

\* How many frame heads a part counts for.
HeadAt(q, n) == IF q[n].part = 1 THEN 1 ELSE 0

\* There are finitely many heads among finitely many parts, and none in none.
LEMMA HeadsFinite ==
    ASSUME NEW q, NEW n \in Nat
    PROVE  /\ IsFiniteSet({j \in 1..n : q[j].part = 1})
           /\ Heads(q, n) \in Nat
           /\ Heads(q, 0) = 0
<1>1. IsFiniteSet(1..n)
  BY FS_Interval
<1>2. IsFiniteSet({j \in 1..n : q[j].part = 1})
  BY <1>1, FS_Subset
<1>3. {j \in 1..0 : q[j].part = 1} = {}
  OBVIOUS
<1>4. QED
  BY <1>2, <1>3, FS_CardinalityType, FS_EmptySet DEF Heads

\* Streams with the same first parts have the same heads among them.
LEMMA HeadsSame ==
    ASSUME NEW q, NEW r, NEW n \in Nat, \A j \in 1..n : r[j] = q[j]
    PROVE  Heads(r, n) = Heads(q, n)
<1>1. {j \in 1..n : r[j].part = 1} = {j \in 1..n : q[j].part = 1}
  OBVIOUS
<1>2. QED
  BY <1>1 DEF Heads

\* One more part is one more head or none.
LEMMA HeadsNext ==
    ASSUME NEW q, NEW n \in Nat
    PROVE  Heads(q, n + 1) = Heads(q, n) + HeadAt(q, n + 1)
<1>. DEFINE S == {j \in 1..n : q[j].part = 1}
            T == {j \in 1..(n + 1) : q[j].part = 1}
<1>1. IsFiniteSet(S) /\ n + 1 \notin S /\ Cardinality(S) \in Nat
  <2>1. n + 1 \notin S
    OBVIOUS
  <2>2. QED
    BY <2>1, HeadsFinite, FS_CardinalityType
<1>2. CASE q[n + 1].part = 1
  <2>1. T = S \cup {n + 1}
    BY <1>2
  <2>2. Cardinality(T) = Cardinality(S) + 1
    <3>. HIDE DEF S, T
    <3>1. QED
      BY <1>1, <2>1, FS_AddElement
  <2>3. QED
    BY <1>2, <2>2 DEF Heads, HeadAt
<1>3. CASE q[n + 1].part # 1
  <2>1. T = S
    BY <1>3
  <2>2. Heads(q, n + 1) = Cardinality(T) /\ Heads(q, n) = Cardinality(S)
    BY DEF Heads
  <2>3. HeadAt(q, n + 1) = 0
    BY <1>3 DEF HeadAt
  <2>. HIDE DEF S, T
  <2>4. QED
    BY <1>1, <2>1, <2>2, <2>3
<1>4. QED
  BY <1>2, <1>3

\* The first part is one head or none, the others are the heads of the rest.
LEMMA HeadsShift ==
    ASSUME NEW q, NEW r, NEW n \in Nat, \A j \in 1..n : r[j] = q[j + 1]
    PROVE  Heads(q, n + 1) = Heads(r, n) + HeadAt(q, 1)
<1>. DEFINE S == {j \in 1..n : r[j].part = 1}
            T == {j \in 1..(n + 1) : q[j].part = 1}
            U == {j \in 2..(n + 1) : q[j].part = 1}
            f == [j \in S |-> j + 1]
<1>1. IsFiniteSet(S) /\ IsFiniteSet(T) /\ Cardinality(S) \in Nat
  <2>1. n + 1 \in Nat
    OBVIOUS
  <2>2. QED
    BY <2>1, HeadsFinite, FS_CardinalityType
<1>2. f \in Bijection(S, U)
  <2>1. ASSUME NEW j \in S PROVE j + 1 \in U
    BY <2>1
  <2>2. ASSUME NEW u \in U PROVE u - 1 \in S /\ f[u - 1] = u
    <3>1. u - 1 \in 1..n /\ (u - 1) + 1 = u
      OBVIOUS
    <3>2. r[u - 1] = q[(u - 1) + 1]
      BY <3>1
    <3>3. QED
      BY <3>1, <3>2
  <2>3. f \in [S -> U]
    BY <2>1
  <2>4. \A a, b \in S : f[a] = f[b] => a = b
    OBVIOUS
  <2>5. QED
    BY <2>2, <2>3, <2>4, Zenon DEF Bijection, Injection, Surjection, IsInjective
<1>3. IsFiniteSet(U) /\ Cardinality(U) = Cardinality(S)
  <2>1. ExistsBijection(S, U)
    BY <1>2 DEF ExistsBijection
  <2>. HIDE DEF S, U
  <2>2. QED
    BY <1>1, <2>1, FS_Bijection
<1>4. CASE q[1].part = 1
  <2>1. T = U \cup {1} /\ 1 \notin U
    BY <1>4
  <2>2. Cardinality(T) = Cardinality(U) + 1
    <3>. HIDE DEF T, U
    <3>1. QED
      BY <1>3, <2>1, FS_AddElement
  <2>3. QED
    BY <1>1, <1>3, <1>4, <2>2 DEF Heads, HeadAt
<1>5. CASE q[1].part # 1
  <2>1. T = U
    BY <1>5
  <2>2. Heads(q, n + 1) = Cardinality(T) /\ Heads(r, n) = Cardinality(S)
    BY DEF Heads
  <2>3. HeadAt(q, 1) = 0
    BY <1>5 DEF HeadAt
  <2>. HIDE DEF S, T, U
  <2>4. QED
    BY <1>1, <1>3, <2>1, <2>2, <2>3
<1>6. QED
  BY <1>4, <1>5

\* Reading the first part of a stream takes its head out of every count.
LEMMA HeadsTail ==
    ASSUME NEW q \in Seq(Part), q # <<>>, NEW n \in 0..(Len(q) - 1)
    PROVE  Heads(q, n + 1) = Heads(Tail(q), n) + HeadAt(q, 1)
<1>1. Len(q) \in Nat \ {0} /\ \A i \in 1..(Len(q) - 1) : Tail(q)[i] = q[i + 1]
  BY HeadAndTail
<1>2. n \in Nat /\ \A j \in 1..n : Tail(q)[j] = q[j + 1]
  BY <1>1
<1>3. QED
  BY <1>2, HeadsShift

\* A frame that is written adds one head, its first part.
LEMMA HeadsWritten ==
    ASSUME NEW q \in Seq(Part), NEW f \in Frame, Contiguous(q),
           q # <<>> => q[Len(q)].part = 3
    PROVE  /\ \A n \in 0..Len(q) : Heads(Written(q, f), n) = Heads(q, n)
           /\ Heads(Written(q, f), Len(q) + 1) = Heads(q, Len(q)) + 1
           /\ Heads(Written(q, f), Len(q) + 3) = Heads(q, Len(q)) + 1
<1>. DEFINE r == Written(q, f)
            n == Len(q)
<1>1. /\ n \in Nat
      /\ \A i \in 1..n : r[i] = q[i]
      /\ \A i \in 1..3 : r[n + i] = PartOf(f, i)
  BY ContiguousWrite, LenProperties
<1>2. r[n + 1].part = 1 /\ r[n + 2].part = 2 /\ r[n + 3].part = 3
  BY <1>1 DEF PartOf
<1>. HIDE DEF r, n
<1>3. ASSUME NEW k \in 0..n PROVE Heads(r, k) = Heads(q, k)
  BY <1>1, HeadsSame
<1>4. Heads(r, n + 1) = Heads(r, n) + 1
  BY <1>1, <1>2, HeadsNext DEF HeadAt
<1>5. Heads(r, (n + 1) + 1) = Heads(r, n + 1) + HeadAt(r, (n + 1) + 1)
  <2>1. n + 1 \in Nat
    BY <1>1
  <2>2. QED
    BY <2>1, HeadsNext
<1>6. Heads(r, (n + 2) + 1) = Heads(r, n + 2) + HeadAt(r, (n + 2) + 1)
  <2>1. n + 2 \in Nat
    BY <1>1
  <2>2. QED
    BY <2>1, HeadsNext
<1>7. HeadAt(r, (n + 1) + 1) = 0 /\ HeadAt(r, (n + 2) + 1) = 0
  <2>1. (n + 1) + 1 = n + 2 /\ (n + 2) + 1 = n + 3
    BY <1>1
  <2>2. QED
    BY <1>2, <2>1 DEF HeadAt
<1>8. (n + 1) + 1 = n + 2 /\ (n + 2) + 1 = n + 3 /\ Heads(r, n) = Heads(q, n) /\ Heads(q, n) \in Nat
  <2>1. n \in 0..n
    BY <1>1
  <2>2. Heads(r, n) = Heads(q, n)
    BY <1>3, <2>1
  <2>3. Heads(q, n) \in Nat
    BY <1>1, HeadsFinite
  <2>4. QED
    BY <1>1, <2>2, <2>3
<1>9. Heads(r, n + 1) = Heads(q, n) + 1 /\ Heads(r, n + 3) = Heads(q, n) + 1
  BY <1>4, <1>5, <1>6, <1>7, <1>8
<1>10. QED
  BY <1>3, <1>9 DEF r, n

-----------------------------------------------------------------------------
(* Observations are written in the order of their steps *)

\* The least observation that may still be written: the one the thread holds,
\* the one in the queue, or the next one that the simulation offers.
NextOffer == IF wpc = "offer" THEN tick ELSE tick + 1
Coming == IF held # NoStep THEN held ELSE IF queued # NoStep THEN queued ELSE NextOffer

\* The observations on their way are in the order of their steps.
OrderOK ==
    /\ held # NoStep => held < NextOffer /\ bpc = "write"
    /\ queued # NoStep => queued < NextOffer
    /\ held # NoStep /\ queued # NoStep => held < queued
    /\ bpc = "gone" => held = NoStep /\ queued = NoStep
    /\ client = "closed" => down = <<>>
    /\ \A i \in 1..Len(down) : down[i] < Coming
    /\ \A i, j \in 1..Len(down) : i < j => down[i] < down[j]

\* Before and after a step, what is still to be written is the number of a step.
LEMMA ComingType ==
    ASSUME TypeOK, TypeOK'
    PROVE  /\ tick \in Nat /\ held \in Nat \cup {NoStep} /\ queued \in Nat \cup {NoStep}
           /\ Coming \in Nat /\ Coming' \in Nat
<1>1. /\ tick \in 0..Steps /\ held \in Nat \cup {NoStep} /\ queued \in Nat \cup {NoStep}
      /\ tick' \in 0..Steps /\ held' \in Nat \cup {NoStep} /\ queued' \in Nat \cup {NoStep}
  BY DEF TypeOK, BridgeTypeOK
<1>2. tick \in Nat /\ tick' \in Nat
  BY <1>1, BridgeAssumption
<1>3. Coming \in Nat
  BY <1>1, <1>2 DEF Coming, NextOffer
<1>4. Coming' \in Nat
  <2>1. NextOffer' \in Nat
    <3>1. NextOffer' = IF wpc' = "offer" THEN tick' ELSE tick' + 1
      BY DEF NextOffer
    <3>2. \A n \in Nat : n + 1 \in Nat
      OBVIOUS
    <3>3. QED
      BY <1>2, <3>1, <3>2, Zenon
  <2>2. Coming' = IF held' # NoStep THEN held' ELSE IF queued' # NoStep THEN queued' ELSE NextOffer'
    BY DEF Coming
  <2>3. QED
    BY <1>1, <2>1, <2>2
<1>5. QED
  BY <1>1, <1>2, <1>3, <1>4

\* What is to be written is never behind what was to be written.
LEMMA ComingGrows ==
    ASSUME TypeOK, ControlOK, OrderOK, [Next]_vars
    PROVE  Coming <= Coming'
<1>. USE BridgeAssumption DEF TypeOK, BridgeTypeOK, OrderOK, Coming, NextOffer, NoStep, worldVars,
        threadVars, socketVars
<1>1. CASE WorldStep
  BY <1>1 DEF WorldStep, World, Offer, Collect, Retain, StepAlone, Finish, DropsAgent
<1>2. CASE ThreadStep
  <2>1. CASE HelloFails \/ ReceiveFails \/ WriteFails \/ RejectHeader \/ ReadFails
    BY <2>1 DEF HelloFails, ReceiveFails, WriteFails, RejectHeader, ReadFails, Gone
  <2>2. CASE WriteHello \/ Receive \/ WriteObservation \/ ReadPart \/ ReadReply \/ ReadTimesOut
    BY <2>2 DEF WriteHello, Receive, WriteObservation, ReadPart, ReadReply, ReadTimesOut
  <2>3. QED
    BY <1>2, <2>1, <2>2 DEF ThreadStep, Thread
<1>3. CASE Client
  BY <1>3 DEF Client, Answer, Skip, Close
<1>4. CASE UNCHANGED vars
  BY <1>4 DEF vars, bridgeVars
<1>5. QED
  BY <1>1, <1>2, <1>3, <1>4 DEF Next, Finished

\* A write takes the observation held; what comes next is newer.
LEMMA ComingWritten ==
    ASSUME TypeOK, ControlOK, OrderOK, WriteObservation
    PROVE  Coming = held /\ held \in Nat /\ held < Coming'
  BY BridgeAssumption DEF TypeOK, BridgeTypeOK, ControlOK, OrderOK, Coming, NextOffer, NoStep,
     WriteObservation, worldVars

\* The observations the client has not read stay in order when it reads the first.
LEMMA DownTail ==
    ASSUME TypeOK, TypeOK', OrderOK, down # <<>>, down' = Tail(down), Coming <= Coming'
    PROVE  /\ \A i \in 1..Len(down') : down'[i] < Coming'
           /\ \A i, j \in 1..Len(down') : i < j => down'[i] < down'[j]
<1>1. /\ Len(down) \in Nat \ {0} /\ Len(down') = Len(down) - 1
      /\ \A i \in 1..(Len(down) - 1) : down'[i] = down[i + 1]
  BY HeadAndTail DEF TypeOK, BridgeTypeOK
<1>2. \A i \in 1..Len(down) : down[i] \in Nat
  BY ElementOfSeq DEF TypeOK, BridgeTypeOK
<1>3. Coming \in Nat /\ Coming' \in Nat
  BY ComingType
<1>4. ASSUME NEW i \in 1..Len(down')
      PROVE  /\ i + 1 \in 1..Len(down) /\ down'[i] = down[i + 1]
             /\ down[i + 1] \in Nat /\ down[i + 1] < Coming
  <2>1. i + 1 \in 1..Len(down) /\ i \in 1..(Len(down) - 1)
    BY <1>1
  <2>2. QED
    BY <1>1, <1>2, <2>1 DEF OrderOK
<1>5. ASSUME NEW i \in 1..Len(down'), NEW j \in 1..Len(down'), i < j
      PROVE  down'[i] < down'[j]
  <2>1. /\ i + 1 \in 1..Len(down) /\ down'[i] = down[i + 1]
        /\ j + 1 \in 1..Len(down) /\ down'[j] = down[j + 1]
    BY <1>4
  <2>2. i + 1 < j + 1
    BY <1>5
  <2>3. QED
    BY <2>1, <2>2 DEF OrderOK
<1>6. ASSUME NEW i \in 1..Len(down') PROVE down'[i] < Coming'
  BY <1>4, <1>3
<1>7. QED
  BY <1>5, <1>6

\* Every step leaves the observations in order.
LEMMA OrderStep ==
    ASSUME TypeOK, TypeOK', ControlOK, OrderOK, [Next]_vars
    PROVE  OrderOK'
<1>. USE DEF worldVars, threadVars, socketVars
<1>1. Coming <= Coming' /\ Coming \in Nat /\ Coming' \in Nat
  BY ComingType, ComingGrows
<1>2. \A i \in 1..Len(down) : down[i] \in Nat
  BY ElementOfSeq DEF TypeOK, BridgeTypeOK
<1>. DEFINE Pending ==
              /\ held # NoStep => held < NextOffer /\ bpc = "write"
              /\ queued # NoStep => queued < NextOffer
              /\ held # NoStep /\ queued # NoStep => held < queued
              /\ bpc = "gone" => held = NoStep /\ queued = NoStep
            Unread ==
              /\ client = "closed" => down = <<>>
              /\ \A i \in 1..Len(down) : down[i] < Coming
              /\ \A i, j \in 1..Len(down) : i < j => down[i] < down[j]
<1>3. Pending'
  <2>0. tick \in Nat /\ held \in Nat \cup {NoStep} /\ queued \in Nat \cup {NoStep}
    BY ComingType
  <2>. USE <2>0 DEF OrderOK, NextOffer, NoStep
  <2>1. CASE WorldStep
    <3>1. CASE Offer
      BY <3>1 DEF Offer
    <3>2. CASE Collect
      BY <3>2 DEF Collect
    <3>3. CASE Retain \/ StepAlone \/ Finish
      BY <3>3 DEF Retain, StepAlone, Finish, DropsAgent
    <3>4. QED
      BY <2>1, <3>1, <3>2, <3>3 DEF WorldStep, World
  <2>2. CASE ThreadStep
    <3>1. CASE HelloFails \/ ReceiveFails \/ WriteFails \/ RejectHeader \/ ReadFails
      BY <3>1 DEF HelloFails, ReceiveFails, WriteFails, RejectHeader, ReadFails, Gone
    <3>2. CASE WriteHello \/ Receive \/ WriteObservation \/ ReadPart \/ ReadReply \/ ReadTimesOut
      BY <3>2 DEF WriteHello, Receive, WriteObservation, ReadPart, ReadReply, ReadTimesOut
    <3>3. QED
      BY <2>2, <3>1, <3>2 DEF ThreadStep, Thread
  <2>3. CASE Client
    BY <2>3 DEF Client, Answer, Skip, Close
  <2>4. CASE UNCHANGED vars
    BY <2>4 DEF vars, bridgeVars
  <2>5. QED
    BY <2>1, <2>2, <2>3, <2>4 DEF Next, Finished
<1>4. CASE UNCHANGED <<client, down>>
  <2>1. Unread'
    BY <1>1, <1>2, <1>4 DEF OrderOK
  <2>2. QED
    BY <1>3, <2>1 DEF OrderOK
<1>5. CASE down # <<>> /\ down' = Tail(down) /\ client = "open" /\ UNCHANGED client
  <2>1. Unread'
    BY <1>1, <1>5, DownTail
  <2>2. QED
    BY <1>3, <2>1 DEF OrderOK
<1>6. CASE down' = <<>>
  <2>1. Len(down') = 0
    BY <1>6, EmptySeq
  <2>2. Unread'
    BY <1>6, <2>1
  <2>3. QED
    BY <1>3, <2>2 DEF OrderOK
<1>7. CASE WriteObservation /\ client = "open"
  <2>1. Coming = held /\ held \in Nat /\ held < Coming' /\ client' = client
    BY <1>7, ComingWritten DEF WriteObservation
  <2>2. /\ Len(down) \in Nat /\ Len(down') = Len(down) + 1
        /\ \A i \in 1..Len(down) : down'[i] = down[i]
        /\ down'[Len(down) + 1] = held
    <3>1. down' = Append(down, held)
      BY <1>7 DEF WriteObservation
    <3>2. QED
      BY <2>1, <3>1, Appended DEF TypeOK, BridgeTypeOK
  <2>3. \A i \in 1..Len(down') : down'[i] <= held /\ down'[i] \in Nat
    BY <1>2, <2>1, <2>2 DEF OrderOK
  <2>4. \A i, j \in 1..Len(down') : i < j => down'[i] < down'[j]
    BY <1>2, <2>1, <2>2 DEF OrderOK
  <2>5. Unread'
    BY <1>1, <1>7, <2>1, <2>3, <2>4
  <2>6. QED
    BY <1>3, <2>5 DEF OrderOK
<1>8. CASE WorldStep
  <2>1. UNCHANGED <<client, down>>
    BY <1>8 DEF WorldStep, World, Offer, Collect, Retain, StepAlone, Finish, DropsAgent
  <2>2. QED
    BY <1>4, <2>1
<1>9. CASE ThreadStep
  <2>1. CASE WriteObservation
    BY <1>4, <1>7, <2>1 DEF WriteObservation, TypeOK, BridgeTypeOK
  <2>2. CASE ~WriteObservation
    <3>1. UNCHANGED <<client, down>>
      BY <1>9, <2>2 DEF ThreadStep, Thread, WriteHello, HelloFails, Receive, ReceiveFails,
         WriteFails, ReadPart, RejectHeader, ReadReply, ReadTimesOut, ReadFails, Gone
    <3>2. QED
      BY <1>4, <3>1
  <2>3. QED
    BY <2>1, <2>2
<1>10. CASE Client
  BY <1>5, <1>6, <1>10 DEF Client, Answer, Skip, Close
<1>11. CASE UNCHANGED vars
  BY <1>4, <1>11 DEF vars, bridgeVars
<1>12. QED
  BY <1>8, <1>9, <1>10, <1>11 DEF Next, Finished

-----------------------------------------------------------------------------
(* The debt *)

\* The replies the thread waits for, with the one that it is reading.
Due == debt + (IF bpc = "read" THEN 1 ELSE 0)
HeadHeld == IF HeadRead(got) THEN 1 ELSE 0

\* What an empty buffer holds.
LEMMA NothingHeld ==
    ASSUME got' = <<>>
    PROVE  HeadHeld' = 0
  BY DEF HeadHeld, HeadRead

\* The numbers the debt is made of.
LEMMA DebtTypes ==
    ASSUME TypeOK, TypeOK'
    PROVE  /\ debt \in Int /\ debt' \in Int /\ Due \in Int /\ Due' \in Int
           /\ HeadHeld \in {0, 1} /\ HeadHeld' \in {0, 1}
           /\ Len(down) \in Nat /\ Len(up) \in Nat /\ Len(got) \in Nat
           /\ Heads(up, Len(up)) \in Nat
<1>1. debt \in Int /\ debt' \in Int
  BY DEF TypeOK, BridgeTypeOK
<1>2. Due \in Int
  BY <1>1 DEF Due
<1>3. Due' \in Int
  <2>1. \A n \in Int : n + 1 \in Int /\ n + 0 \in Int
    OBVIOUS
  <2>2. Due' = debt' + (IF bpc' = "read" THEN 1 ELSE 0)
    BY DEF Due
  <2>3. CASE bpc' = "read"
    BY <1>1, <2>1, <2>2, <2>3, Zenon
  <2>4. CASE bpc' # "read"
    BY <1>1, <2>1, <2>2, <2>4, Zenon
  <2>5. QED
    BY <2>3, <2>4
<1>4. Len(down) \in Nat /\ Len(up) \in Nat /\ Len(got) \in Nat
  BY LenProperties DEF TypeOK, BridgeTypeOK
<1>5. HeadHeld \in {0, 1} /\ HeadHeld' \in {0, 1}
  BY DEF HeadHeld
<1>6. QED
  BY <1>1, <1>2, <1>3, <1>4, <1>5, HeadsFinite

\* A part that is read is one of the same frames: the heads read and to be read
\* are as many as before.
LEMMA ReadPartHeads ==
    ASSUME TypeOK, TypeOK', StreamOK, ReadPart
    PROVE  /\ Len(up) \in Nat \ {0} /\ Len(up') = Len(up) - 1
           /\ \A i \in 1..Len(up') : up'[i] = up[i + 1]
           /\ \A n \in 0..Len(up') : HeadHeld' + Heads(up', n) = HeadHeld + Heads(up, n + 1)
           /\ HeadRead(got') => \/ HeadRead(got) /\ got'[1] = got[1]
                                \/ ~HeadRead(got) /\ got'[1] = up[1] /\ up[1].part = 1
<1>1. /\ up # <<>> /\ up' = Tail(up) /\ got' = Arrived /\ Len(Arrived) < 3 /\ ~BadHeader(Arrived)
  BY DEF ReadPart
<1>2. /\ Len(up) \in Nat \ {0} /\ Len(up') = Len(up) - 1
      /\ \A i \in 1..(Len(up) - 1) : up'[i] = up[i + 1]
  BY <1>1, HeadAndTail DEF TypeOK, BridgeTypeOK
<1>3. /\ Len(got) \in Nat /\ Arrived \in Seq(Part) /\ Len(Arrived) = Len(got) + 1
      /\ \A i \in 1..Len(got) : Arrived[i] = got[i]
      /\ Arrived[Len(got) + 1] = up[1]
  BY <1>1, ArrivedParts DEF TypeOK
<1>4. got' # <<>>
  <2>1. Len(got') # 0
    BY <1>1, <1>3
  <2>2. QED
    BY <2>1, EmptySeq
<1>5. HeadHeld' = HeadHeld + HeadAt(up, 1)
  <2>1. CASE got = <<>>
    <3>1. Len(got) = 0
      BY <2>1, EmptySeq
    <3>2. got'[1] = up[1]
      BY <1>1, <1>3, <3>1
    <3>3. QED
      BY <1>4, <2>1, <3>2 DEF HeadHeld, HeadRead, HeadAt
  <2>2. CASE got # <<>>
    <3>1. Len(got) = 1
      <4>1. Len(got) # 0
        BY <2>2, EmptyByLength DEF TypeOK, BridgeTypeOK
      <4>2. \A n \in Nat : n # 0 /\ n + 1 < 3 => n = 1
        OBVIOUS
      <4>3. Len(got) \in Nat /\ Len(got) + 1 < 3
        <5>1. Len(Arrived) < 3 /\ Len(Arrived) = Len(got) + 1 /\ Len(got) \in Nat
          BY <1>1, <1>3
        <5>2. QED
          BY <5>1, Zenon
      <4>4. QED
        BY <4>1, <4>2, <4>3, Zenon
    <3>2. Arrived[1] = got[1] /\ Len(Arrived) = 2
      BY <1>3, <3>1
    <3>3. got[1].part = 1 /\ got'[1] = got[1]
      BY <1>1, <3>2 DEF BadHeader
    <3>4. Follows(got[1], up[1])
      BY <1>1, <2>2, <3>1 DEF StreamOK
    <3>5. up[1].part = 2
      BY <3>3, <3>4 DEF Follows
    <3>6. QED
      BY <1>4, <2>2, <3>3, <3>5 DEF HeadHeld, HeadRead, HeadAt
  <2>3. QED
    BY <2>1, <2>2
<1>6. ASSUME NEW n \in 0..Len(up')
      PROVE  HeadHeld' + Heads(up', n) = HeadHeld + Heads(up, n + 1)
  <2>1. n \in 0..(Len(up) - 1) /\ n \in Nat /\ n + 1 \in Nat
    BY <1>2
  <2>2. Heads(up, n + 1) = Heads(up', n) + HeadAt(up, 1)
    BY <1>1, <2>1, HeadsTail DEF TypeOK, BridgeTypeOK
  <2>3. Heads(up', n) \in Nat /\ HeadAt(up, 1) \in {0, 1} /\ HeadHeld \in {0, 1}
    BY <2>1, HeadsFinite DEF HeadAt, HeadHeld
  <2>4. QED
    BY <1>5, <2>2, <2>3
<1>7. HeadRead(got') => \/ HeadRead(got) /\ got'[1] = got[1]
                        \/ ~HeadRead(got) /\ got'[1] = up[1] /\ up[1].part = 1
  <2>1. CASE got = <<>>
    <3>1. Len(got) = 0
      BY <2>1, EmptySeq
    <3>2. got'[1] = up[1]
      BY <1>1, <1>3, <3>1
    <3>3. QED
      BY <2>1, <3>2 DEF HeadRead
  <2>2. CASE got # <<>>
    <3>1. 1 \in 1..Len(got)
      <4>1. Len(got) # 0
        BY <2>2, EmptyByLength DEF TypeOK, BridgeTypeOK
      <4>2. QED
        BY <1>3, <4>1
    <3>2. got'[1] = got[1]
      BY <1>1, <1>3, <3>1
    <3>3. QED
      BY <2>2, <3>2 DEF HeadRead
  <2>3. QED
    BY <2>1, <2>2
<1>8. QED
  BY <1>2, <1>6, <1>7

\* A reply that is read is one whole frame: its head was held and its end is no
\* head.
LEMMA ReadReplyHeads ==
    ASSUME TypeOK, TypeOK', StreamOK, ReadReply
    PROVE  /\ Len(up) \in Nat \ {0} /\ Len(up') = Len(up) - 1
           /\ \A i \in 1..Len(up') : up'[i] = up[i + 1]
           /\ HeadRead(got) /\ HeadHeld = 1 /\ HeadHeld' = 0
           /\ \A n \in 0..Len(up') : Heads(up', n) = Heads(up, n + 1)
           /\ Arrived[1] = got[1]
<1>1. /\ up # <<>> /\ up' = Tail(up) /\ got' = <<>> /\ Len(Arrived) = 3
  BY DEF ReadReply
<1>2. /\ Len(up) \in Nat \ {0} /\ Len(up') = Len(up) - 1
      /\ \A i \in 1..(Len(up) - 1) : up'[i] = up[i + 1]
  BY <1>1, HeadAndTail DEF TypeOK, BridgeTypeOK
<1>3. /\ Len(got) \in Nat /\ Len(Arrived) = Len(got) + 1
      /\ \A i \in 1..Len(got) : Arrived[i] = got[i]
  BY <1>1, ArrivedParts DEF TypeOK
<1>4. Len(got) = 2 /\ 1 \in 1..Len(got)
  <2>1. Len(got) \in Nat /\ 3 = Len(got) + 1
    BY <1>1, <1>3, Zenon
  <2>2. \A n \in Nat : 3 = n + 1 => n = 2 /\ 1 \in 1..n
    OBVIOUS
  <2>3. QED
    BY <2>1, <2>2, Zenon
<1>5. got # <<>> /\ got[1].part = 1
  <2>1. Len(got) # 0
    BY <1>4
  <2>2. QED
    BY <1>4, <2>1, EmptySeq DEF StreamOK
<1>6. up[1].part = 3
  <2>1. Follows(got[1], got[1 + 1])
    BY <1>4 DEF StreamOK, Contiguous
  <2>2. 1 + 1 = 2
    OBVIOUS
  <2>3. got[2].part = 2
    BY <1>5, <2>1, <2>2 DEF Follows
  <2>4. Follows(got[2], up[1])
    BY <1>1, <1>4, <1>5 DEF StreamOK
  <2>5. QED
    BY <2>3, <2>4 DEF Follows
<1>7. ASSUME NEW n \in 0..Len(up')
      PROVE  Heads(up', n) = Heads(up, n + 1)
  <2>1. n \in 0..(Len(up) - 1) /\ n \in Nat
    BY <1>2
  <2>2. Heads(up, n + 1) = Heads(up', n) + HeadAt(up, 1)
    BY <1>1, <2>1, HeadsTail DEF TypeOK, BridgeTypeOK
  <2>3. HeadAt(up, 1) = 0
    BY <1>6 DEF HeadAt
  <2>4. Heads(up', n) \in Nat
    BY <2>1, HeadsFinite
  <2>5. QED
    BY <2>2, <2>3, <2>4
<1>8. HeadRead(got) /\ HeadHeld = 1 /\ HeadHeld' = 0
  BY <1>1, <1>5, NothingHeld DEF HeadHeld, HeadRead
<1>9. QED
  BY <1>2, <1>3, <1>4, <1>7, <1>8

\* An answer takes the first observation and writes one head, for the step of
\* that observation or up to MaxLead steps more.
LEMMA AnswerHeads ==
    ASSUME TypeOK, TypeOK', StreamOK, Answer
    PROVE  /\ Len(down) \in Nat \ {0} /\ Len(down') = Len(down) - 1
           /\ \A i \in 1..Len(down') : down'[i] = down[i + 1] /\ i + 1 \in 1..Len(down)
           /\ Len(up) \in Nat /\ Len(up') = Len(up) + 3
           /\ \A i \in 1..Len(up) : up'[i] = up[i]
           /\ \A i \in 1..Len(up) : Heads(up', i) = Heads(up, i)
           /\ Heads(up', Len(up) + 1) = Heads(up, Len(up)) + 1
           /\ Heads(up', Len(up')) = Heads(up, Len(up)) + 1
           /\ \A i \in (Len(up) + 1)..Len(up') :
                /\ up'[i].part = 1 => i = Len(up) + 1
                /\ down[1] <= up'[i].frame.step /\ up'[i].frame.step <= down[1] + MaxLead
                /\ up'[i].frame.step \in Nat
           /\ \A i, j \in (Len(up) + 1)..Len(up') : up'[i].frame = up'[j].frame
<1>1. PICK r \in Replies, lead \in 0..MaxLead : Writes(Reply(r, Head(down) + lead))
  BY DEF Answer
<1>2. /\ Len(down) \in Nat \ {0} /\ Len(down') = Len(down) - 1
      /\ Head(down) = down[1] /\ down[1] \in Nat
      /\ \A i \in 1..(Len(down) - 1) : down'[i] = down[i + 1]
  <2>1. down \in Seq(Nat) /\ down # <<>> /\ down' = Tail(down)
    BY DEF Answer, TypeOK, BridgeTypeOK
  <2>2. QED
    BY <2>1, HeadAndTail
<1>. DEFINE f == Reply(r, Head(down) + lead)
<1>3. f \in Frame
  BY <1>2, ReplyType
<1>4. f.step = down[1] + lead
  BY <1>2 DEF Reply
<1>5. up # <<>> => up[Len(up)].part = 3
  BY DEF StreamOK, Answer
<1>6. up' = Written(up, f)
  BY <1>1 DEF Writes
<1>. HIDE DEF f
<1>7. /\ Len(up') = Len(up) + 3 /\ Len(up) \in Nat
      /\ \A i \in 1..Len(up) : up'[i] = up[i]
      /\ \A i \in 1..3 : up'[Len(up) + i] = PartOf(f, i)
  <2>1. up \in Seq(Part) /\ Contiguous(up) /\ Len(up) \in Nat
    BY LenProperties DEF StreamOK, TypeOK, BridgeTypeOK
  <2>2. QED
    BY <1>3, <1>5, <1>6, <2>1, ContiguousWrite
<1>8. /\ \A n \in 0..Len(up) : Heads(up', n) = Heads(up, n)
      /\ Heads(up', Len(up) + 1) = Heads(up, Len(up)) + 1
      /\ Heads(up', Len(up) + 3) = Heads(up, Len(up)) + 1
  BY <1>3, <1>5, <1>6, HeadsWritten DEF StreamOK, TypeOK, BridgeTypeOK
<1>9. ASSUME NEW i \in (Len(up) + 1)..Len(up')
      PROVE  up'[i].frame = f /\ (up'[i].part = 1 => i = Len(up) + 1)
  <2>1. i - Len(up) \in 1..3 /\ Len(up) + (i - Len(up)) = i
    BY <1>7
  <2>2. up'[i] = PartOf(f, i - Len(up))
    BY <1>7, <2>1
  <2>3. up'[i].frame = f /\ up'[i].part = i - Len(up)
    BY <2>2 DEF PartOf
  <2>4. QED
    BY <1>7, <2>3
<1>10. lead \in Nat /\ lead <= MaxLead
  BY ReplyAssumption
<1>11. down[1] <= f.step /\ f.step <= down[1] + MaxLead /\ f.step \in Nat
  BY <1>2, <1>4, <1>10, ReplyAssumption
<1>12. \A i \in 1..Len(down') : down'[i] = down[i + 1] /\ i + 1 \in 1..Len(down)
  BY <1>2
<1>13. \A i \in 1..Len(up) : Heads(up', i) = Heads(up, i)
  BY <1>7, <1>8
<1>14. QED
  BY <1>2, <1>7, <1>8, <1>9, <1>11, <1>12, <1>13

\* The debt, in the numbers it is made of.
Balanced == client = "open" /\ bpc # "gone" => Len(down) + Heads(up, Len(up)) + HeadHeld = Due

\* DebtKept says that the numbers balance.
LEMMA BalancedIsKept == Balanced <=> DebtKept
  BY DEF Balanced, DebtKept, Owed, Heads, HeadHeld, Due

\* Every step keeps the balance.
LEMMA BalancedStep ==
    ASSUME TypeOK, TypeOK', ControlOK, StreamOK, OrderOK, Balanced, [Next]_vars
    PROVE  Balanced'
<1>. USE DEF worldVars, threadVars, socketVars
<1>1. /\ debt \in Int /\ debt' \in Int /\ Due \in Int /\ Due' \in Int
      /\ HeadHeld \in {0, 1} /\ HeadHeld' \in {0, 1}
      /\ Len(down) \in Nat /\ Len(up) \in Nat
      /\ Heads(up, Len(up)) \in Nat
  BY DebtTypes
<1>2. CASE ~(client' = "open" /\ bpc' # "gone")
  BY <1>2 DEF Balanced
<1>3. CASE UNCHANGED <<client, down, up, got, debt>> /\ (bpc = "gone" <=> bpc' = "gone")
           /\ (bpc = "read" <=> bpc' = "read")
  <2>1. HeadHeld' = HeadHeld /\ Due' = Due
    BY <1>3 DEF HeadHeld, Due
  <2>2. Heads(up', Len(up')) = Heads(up, Len(up)) /\ Len(down') = Len(down)
    BY <1>3
  <2>3. QED
    BY <1>3, <2>1, <2>2 DEF Balanced
<1>4. CASE WorldStep
  <2>1. UNCHANGED <<client, down, up, got, debt, bpc>>
    BY <1>4 DEF WorldStep, World, Offer, Collect, Retain, StepAlone, Finish, DropsAgent
  <2>2. QED
    BY <1>3, <2>1
<1>5. CASE ThreadStep
  <2>1. CASE HelloFails \/ ReceiveFails \/ WriteFails \/ RejectHeader \/ ReadFails
    BY <1>2, <2>1 DEF HelloFails, ReceiveFails, WriteFails, RejectHeader, ReadFails, Gone
  <2>2. CASE WriteHello \/ Receive
    BY <1>3, <2>2 DEF WriteHello, Receive
  <2>3. CASE WriteObservation
    <3>. SUFFICES ASSUME client' = "open" PROVE Balanced'
      BY DEF Balanced
    <3>1. Len(down') = Len(down) + 1
      <4>1. held \in Nat /\ down \in Seq(Nat)
        BY <2>3, ComingWritten DEF TypeOK, BridgeTypeOK
      <4>2. down' = Append(down, held)
        BY <2>3 DEF WriteObservation
      <4>3. QED
        BY <4>1, <4>2, Appended
    <3>2. HeadHeld' = HeadHeld /\ Due' = Due + 1 /\ Heads(up', Len(up')) = Heads(up, Len(up))
      BY <1>1, <2>3 DEF WriteObservation, HeadHeld, Due
    <3>3. client = "open" /\ bpc # "gone"
      BY <2>3 DEF WriteObservation
    <3>4. QED
      BY <1>1, <3>1, <3>2, <3>3 DEF Balanced
  <2>4. CASE ReadPart
    <3>1. /\ Len(up) \in Nat \ {0} /\ Len(up') = Len(up) - 1
          /\ \A n \in 0..Len(up') : HeadHeld' + Heads(up', n) = HeadHeld + Heads(up, n + 1)
      BY <2>4, ReadPartHeads
    <3>2. Len(up') \in 0..Len(up') /\ Len(up') + 1 = Len(up)
      BY <3>1
    <3>3. HeadHeld' + Heads(up', Len(up')) = HeadHeld + Heads(up, Len(up))
      BY <3>1, <3>2
    <3>4. Due' = Due /\ UNCHANGED <<client, down, bpc>>
      BY <2>4 DEF ReadPart, Due
    <3>5. Heads(up', Len(up')) \in Nat
      <4>1. Len(up') \in Nat
        BY <3>2
      <4>2. QED
        BY <4>1, HeadsFinite
    <3>6. QED
      BY <1>1, <3>3, <3>4, <3>5 DEF Balanced
  <2>5. CASE ReadReply
    <3>1. /\ Len(up) \in Nat \ {0} /\ Len(up') = Len(up) - 1
          /\ HeadHeld = 1 /\ HeadHeld' = 0
          /\ \A n \in 0..Len(up') : Heads(up', n) = Heads(up, n + 1)
      BY <2>5, ReadReplyHeads
    <3>2. Len(up') \in 0..Len(up') /\ Len(up') + 1 = Len(up)
      BY <3>1
    <3>3. Heads(up', Len(up')) = Heads(up, Len(up))
      BY <3>1, <3>2
    <3>4. Due' = Due - 1 /\ UNCHANGED <<client, down>> /\ bpc # "gone"
      BY <1>1, <2>5 DEF ReadReply, Due
    <3>5. Len(down') = Len(down)
      BY <3>4
    <3>6. client = "open" => Len(down) + Heads(up, Len(up)) + HeadHeld = Due
      BY <3>4 DEF Balanced
    <3>7. client' = "open" => Len(down') + Heads(up', Len(up')) + HeadHeld' = Due'
      <4>1. \A a, h \in Nat : \A d \in Int : a + h + 1 = d => a + h + 0 = d - 1
        OBVIOUS
      <4>2. client = "open" => Len(down) + Heads(up, Len(up)) + 1 = Due
        BY <3>1, <3>6, Zenon
      <4>3. client = "open" => Len(down) + Heads(up, Len(up)) + 0 = Due - 1
        BY <1>1, <4>1, <4>2, Zenon
      <4>4. QED
        BY <3>1, <3>3, <3>4, <3>5, <4>3, Zenon
    <3>8. QED
      BY <3>7 DEF Balanced
  <2>6. CASE ReadTimesOut
    <3>1. HeadHeld' = 0 /\ UNCHANGED <<client, down, up>> /\ bpc # "gone"
      BY <2>6, NothingHeld DEF ReadTimesOut
    <3>2. Due' = Due - HeadHeld
      BY <1>1, <2>6 DEF ReadTimesOut, Due, HeadHeld
    <3>3. Heads(up', Len(up')) = Heads(up, Len(up)) /\ Len(down') = Len(down)
      BY <3>1
    <3>4. QED
      BY <1>1, <3>1, <3>2, <3>3 DEF Balanced
  <2>7. QED
    BY <1>5, <2>1, <2>2, <2>3, <2>4, <2>5, <2>6 DEF ThreadStep, Thread
<1>6. CASE Answer
  <2>1. /\ Len(down) \in Nat \ {0} /\ Len(down') = Len(down) - 1
        /\ Heads(up', Len(up')) = Heads(up, Len(up)) + 1
    BY <1>6, AnswerHeads
  <2>2. HeadHeld' = HeadHeld /\ Due' = Due /\ UNCHANGED <<client, bpc>>
    BY <1>6 DEF Answer, HeadHeld, Due
  <2>3. QED
    BY <1>1, <2>1, <2>2 DEF Balanced
<1>7. CASE Skip
  <2>1. Len(down') = Len(down) - 1
    BY <1>7, HeadAndTail DEF Skip, TypeOK, BridgeTypeOK
  <2>2. HeadHeld' = HeadHeld /\ Due' = Due - 1 /\ UNCHANGED <<client, bpc, up>>
    BY <1>1, <1>7 DEF Skip, HeadHeld, Due
  <2>3. Heads(up', Len(up')) = Heads(up, Len(up))
    BY <2>2
  <2>4. QED
    BY <1>1, <2>1, <2>2, <2>3 DEF Balanced
<1>8. CASE Close
  BY <1>2, <1>8 DEF Close
<1>9. CASE UNCHANGED vars
  BY <1>3, <1>9 DEF vars, bridgeVars
<1>10. QED
  BY <1>4, <1>5, <1>6, <1>7, <1>8, <1>9 DEF Next, Client, Finished

-----------------------------------------------------------------------------
(* How late the commands are *)

\* The replies that have arrived answer observations below this one: as many of
\* the newest observations as there are replies due are still unanswered.
Reach == Coming - Due

\* Every reply is at least as many observations late as there are replies due:
\* the ones that have been read, the one that is being read, those on their way
\* by their place in the line, and those that are still to be written.
LateOK ==
    /\ \A i \in 1..Len(actions) : actions[i].step < Reach + MaxLead
    /\ last.step # NoStep => last.step < Reach + MaxLead
    /\ bpc # "gone" =>
         /\ HeadRead(got) => got[1].frame.step < Reach + 1 + MaxLead
         /\ \A i \in 1..Len(up) :
              up[i].part = 1 => up[i].frame.step < Reach + HeadHeld + Heads(up, i) + MaxLead
         /\ \A i \in 1..Len(down) : down[i] < Reach + HeadHeld + Heads(up, Len(up)) + i

\* An observation is not answered sooner for a step of the simulation, the
\* thread or the client.
LEMMA ReachGrows ==
    ASSUME TypeOK, TypeOK', ControlOK, OrderOK, [Next]_vars
    PROVE  /\ Reach \in Int /\ Reach' \in Int
           /\ Reach <= Reach'
           /\ ReadReply \/ Skip => Reach + 1 <= Reach'
           /\ ReadTimesOut => Reach + HeadHeld <= Reach'
<1>. USE DEF worldVars, threadVars, socketVars
<1>1. /\ debt \in Int /\ debt' \in Int /\ Due \in Int /\ Due' \in Int
      /\ HeadHeld \in {0, 1} /\ Coming \in Nat /\ Coming' \in Nat /\ Coming <= Coming'
  BY DebtTypes, ComingType, ComingGrows
<1>2. Reach = Coming - Due /\ Reach' = Coming' - Due'
  BY DEF Reach
<1>3. Reach \in Int /\ Reach' \in Int
  <2>1. \A a, b \in Int : a - b \in Int
    OBVIOUS
  <2>2. Coming \in Int /\ Coming' \in Int
    BY <1>1
  <2>3. QED
    BY <1>1, <1>2, <2>1, <2>2, Zenon
<1>4. \A a, b, c, d \in Int : \A k \in {0, 1} : a <= b /\ d = c - k => a - c <= b - d /\ (a - c) + k <= b - d
  OBVIOUS
<1>5. \A a, b, c \in Int : a < b => a - c <= b - (c + 1)
  OBVIOUS
<1>6. ASSUME NEW k \in {0, 1}, Due' = Due - k
      PROVE  Reach <= Reach' /\ Reach + k <= Reach'
  <2>1. Coming \in Int /\ Coming' \in Int
    BY <1>1
  <2>2. QED
    BY <1>1, <1>2, <1>4, <1>6, <2>1, Zenon
<1>7. ASSUME ReadReply \/ Skip
      PROVE  Reach + 1 <= Reach' /\ Reach <= Reach'
  <2>1. ReadReply => Due' = Due - 1
    BY <1>1 DEF ReadReply, Due
  <2>2. Skip => Due' = Due - 1
    BY <1>1 DEF Skip, Due
  <2>3. QED
    BY <1>6, <1>7, <2>1, <2>2
<1>8. ASSUME ReadTimesOut
      PROVE  Reach + HeadHeld <= Reach' /\ Reach <= Reach'
  <2>1. Due' = Due - HeadHeld
    BY <1>1, <1>8 DEF ReadTimesOut, Due, HeadHeld
  <2>2. QED
    BY <1>1, <1>6, <2>1
<1>9. CASE WriteObservation
  <2>1. Coming < Coming' /\ Due' = Due + 1
    BY <1>1, <1>9, ComingWritten DEF WriteObservation, Due
  <2>2. Coming \in Int /\ Coming' \in Int
    BY <1>1
  <2>3. QED
    BY <1>1, <1>2, <1>3, <1>5, <1>7, <1>8, <2>1, <2>2, Zenon
<1>10. CASE Due' = Due
  <2>1. Due' = Due - 0
    BY <1>1, <1>10
  <2>2. QED
    BY <1>3, <1>6, <1>7, <1>8, <2>1
<1>11. CASE bpc = "read" /\ bpc' # "read" /\ UNCHANGED debt
  <2>1. Due' = Due - 1
    BY <1>1, <1>11 DEF Due
  <2>2. QED
    BY <1>3, <1>6, <1>7, <1>8, <2>1
<1>12. CASE WorldStep
  <2>1. UNCHANGED <<bpc, debt>>
    BY <1>12 DEF WorldStep, World, Offer, Collect, Retain, StepAlone, Finish, DropsAgent
  <2>2. QED
    BY <1>10, <2>1 DEF Due
<1>13. CASE ThreadStep
  <2>1. CASE HelloFails \/ ReceiveFails \/ WriteFails \/ WriteHello \/ Receive \/ ReadPart
    <3>1. UNCHANGED debt /\ (bpc = "read" <=> bpc' = "read")
      BY <2>1 DEF HelloFails, ReceiveFails, WriteFails, Gone, WriteHello, Receive, ReadPart
    <3>2. QED
      BY <1>10, <3>1 DEF Due
  <2>2. CASE RejectHeader \/ ReadFails
    BY <1>11, <2>2 DEF RejectHeader, ReadFails, Gone
  <2>3. QED
    BY <1>3, <1>7, <1>8, <1>9, <1>13, <2>1, <2>2 DEF ThreadStep, Thread
<1>14. CASE Answer \/ Close \/ UNCHANGED vars
  <2>1. UNCHANGED <<bpc, debt>>
    BY <1>14 DEF Answer, Close, vars, bridgeVars
  <2>2. QED
    BY <1>10, <2>1 DEF Due
<1>15. QED
  BY <1>3, <1>7, <1>8, <1>12, <1>13, <1>14 DEF Next, Client, Finished

\* What a reply that is read is decoded to: the step is the step of its head.
LEMMA DecodedStep ==
    ASSUME TypeOK, TypeOK', StreamOK, ReadReply
    PROVE  /\ actions' = actions \/ actions' = Append(actions, Decoded(Arrived))
           /\ Decoded(Arrived) \in Action /\ Decoded(Arrived).step = got[1].frame.step
<1>1. up # <<>> /\ Len(Arrived) = 3 /\ (actions' = actions \/ actions' = Append(actions, Decoded(Arrived)))
  BY DEF ReadReply
<1>2. Arrived \in Seq(Part)
  BY <1>1, ArrivedParts DEF TypeOK
<1>3. Arrived[1] \in Part /\ Arrived[3] \in Part
  <2>1. 1 \in 1..Len(Arrived) /\ 3 \in 1..Len(Arrived)
    BY <1>1
  <2>2. QED
    BY <1>2, <2>1, ElementOfSeq, Zenon
<1>4. Decoded(Arrived) \in Action /\ Decoded(Arrived).step = Arrived[1].frame.step
  BY <1>3 DEF Decoded, Action, Part, Frame
<1>5. Arrived[1] = got[1]
  BY ReadReplyHeads
<1>6. QED
  BY <1>1, <1>4, <1>5

\* The actions that are received stay as late as they are.
LEMMA LateActions ==
    ASSUME TypeOK, TypeOK', ControlOK, StreamOK, OrderOK, LateOK, [Next]_vars
    PROVE  \A i \in 1..Len(actions') : actions'[i].step < Reach' + MaxLead
<1>. USE DEF worldVars, threadVars, socketVars
<1>1. /\ Reach \in Int /\ Reach' \in Int /\ MaxLead \in Nat
      /\ Reach <= Reach' /\ (ReadReply => Reach + 1 <= Reach')
  BY ReachGrows, ReplyAssumption
<1>2. \A i \in 1..Len(actions) : actions[i].step \in Nat /\ actions[i].step < Reach + MaxLead
  BY ActionFields DEF TypeOK, LateOK
<1>3. \A n \in Int : n < Reach + MaxLead => n < Reach' + MaxLead
  <2>1. \A n, a, b \in Int : \A m \in Nat : n < a + m /\ a <= b => n < b + m
    OBVIOUS
  <2>2. QED
    BY <1>1, <2>1, Zenon
<1>4. CASE UNCHANGED actions
  <2>1. Len(actions') = Len(actions) /\ \A i \in 1..Len(actions) : actions'[i] = actions[i]
    BY <1>4
  <2>2. \A n \in Nat : n \in Int
    OBVIOUS
  <2>3. QED
    BY <1>2, <1>3, <2>1, <2>2, Zenon
<1>5. CASE actions' = <<>>
  BY <1>5, EmptySeq
<1>6. CASE ReadReply
  <2>1. CASE actions' = Append(actions, Decoded(Arrived))
    <3>1. Decoded(Arrived) \in Action /\ Decoded(Arrived).step = got[1].frame.step
      BY <1>6, DecodedStep
    <3>2. /\ Len(actions) \in Nat /\ Len(actions') = Len(actions) + 1
          /\ \A i \in 1..Len(actions) : actions'[i] = actions[i]
          /\ actions'[Len(actions) + 1] = Decoded(Arrived)
      BY <2>1, <3>1, Appended DEF TypeOK, BridgeTypeOK
    <3>3. HeadRead(got) /\ bpc # "gone"
      BY <1>6, ReadReplyHeads DEF ReadReply
    <3>4. got[1].frame.step < Reach + 1 + MaxLead
      BY <3>3 DEF LateOK
    <3>5. Decoded(Arrived).step \in Int
      BY <3>1 DEF Action
    <3>6. Decoded(Arrived).step < Reach' + MaxLead
      <4>1. \A n, a, b \in Int : \A m \in Nat : n < a + 1 + m /\ a + 1 <= b => n < b + m
        OBVIOUS
      <4>2. QED
        BY <1>1, <1>6, <3>1, <3>4, <3>5, <4>1, Zenon
    <3>. TAKE i \in 1..Len(actions')
    <3>7. CASE i \in 1..Len(actions)
      <4>1. actions[i].step \in Int /\ actions[i].step < Reach + MaxLead
        BY <1>2, <3>7
      <4>2. QED
        BY <1>3, <3>2, <3>7, <4>1, Zenon
    <3>8. CASE i = Len(actions) + 1
      BY <3>2, <3>6, <3>8, Zenon
    <3>9. QED
      BY <3>2, <3>7, <3>8
  <2>2. QED
    BY <1>4, <1>6, <2>1 DEF ReadReply
<1>7. CASE WorldStep
  BY <1>4, <1>5, <1>7 DEF WorldStep, World, Offer, Collect, Drain, Retain, StepAlone, Finish, DropsAgent
<1>8. CASE ThreadStep
  BY <1>4, <1>6, <1>8 DEF ThreadStep, Thread, WriteHello, HelloFails, Receive, ReceiveFails,
     WriteObservation, WriteFails, ReadPart, RejectHeader, ReadTimesOut, ReadFails, Gone
<1>9. CASE Client
  BY <1>4, <1>9 DEF Client, Answer, Skip, Close
<1>10. CASE UNCHANGED vars
  BY <1>4, <1>10 DEF vars, bridgeVars
<1>11. QED
  BY <1>7, <1>8, <1>9, <1>10 DEF Next, Finished

\* Only the simulation changes the last action.
LEMMA LastChanges ==
    ASSUME [Next]_vars
    PROVE  last' = last \/ last' = NoAction \/ Collect
<1>. USE DEF worldVars, threadVars, socketVars
<1>1. CASE WorldStep
  BY <1>1 DEF WorldStep, World, Offer, Retain, StepAlone, Finish, DropsAgent
<1>2. CASE ThreadStep
  BY <1>2 DEF ThreadStep, Thread, WriteHello, HelloFails, Receive, ReceiveFails,
     WriteObservation, WriteFails, ReadPart, RejectHeader, ReadReply, ReadTimesOut, ReadFails, Gone
<1>3. CASE Client
  BY <1>3 DEF Client, Answer, Skip, Close
<1>4. CASE UNCHANGED vars
  BY <1>4 DEF vars, bridgeVars
<1>5. QED
  BY <1>1, <1>2, <1>3, <1>4 DEF Next, Finished

\* The action that is remembered stays as late as it is.
LEMMA LateLast ==
    ASSUME TypeOK, TypeOK', ControlOK, OrderOK, LateOK, [Next]_vars
    PROVE  last'.step # NoStep => last'.step < Reach' + MaxLead
<1>1. /\ Reach \in Int /\ Reach' \in Int /\ MaxLead \in Nat /\ Reach <= Reach'
  BY ReachGrows, ReplyAssumption
<1>2. \A n \in Int : n < Reach + MaxLead => n < Reach' + MaxLead
  <2>1. \A n, a, b \in Int : \A m \in Nat : n < a + m /\ a <= b => n < b + m
    OBVIOUS
  <2>2. QED
    BY <1>1, <2>1, Zenon
<1>3. last.step \in Int
  BY DEF TypeOK, BridgeTypeOK, NoStep
<1>4. CASE last' = last
  BY <1>2, <1>3, <1>4, Zenon DEF LateOK
<1>5. CASE last' = NoAction
  BY <1>5 DEF NoAction
<1>6. CASE Collect
  <2>1. ASSUME NEW i \in Taken, last' = [step |-> actions[i].step, command |-> actions[i].command]
        PROVE  last'.step < Reach' + MaxLead
    <3>1. i \in 1..Len(actions)
      BY <2>1 DEF Taken
    <3>2. actions[i].step \in Nat /\ actions[i].step < Reach + MaxLead
      BY <3>1, ActionFields DEF TypeOK, LateOK
    <3>3. actions[i].step \in Int /\ last'.step = actions[i].step
      BY <2>1, <3>2
    <3>4. QED
      BY <1>2, <3>2, <3>3, Zenon
  <2>2. QED
    BY <1>4, <1>6, <2>1 DEF Collect, Drain
<1>7. QED
  BY <1>4, <1>5, <1>6, LastChanges

\* Every step leaves the replies that are read, on their way or to be written as
\* late as their place in the line says.
LEMMA LateStream ==
    ASSUME TypeOK, TypeOK', ControlOK, StreamOK, OrderOK, Balanced, LateOK, [Next]_vars, bpc' # "gone"
    PROVE  /\ HeadRead(got') => got'[1].frame.step < Reach' + 1 + MaxLead
           /\ \A i \in 1..Len(up') : up'[i].part = 1 =>
                up'[i].frame.step < Reach' + HeadHeld' + Heads(up', i) + MaxLead
           /\ \A i \in 1..Len(down') : down'[i] < Reach' + HeadHeld' + Heads(up', Len(up')) + i
<1>. DEFINE HeadLate == HeadRead(got) => got[1].frame.step < Reach + 1 + MaxLead
            UpLate == \A i \in 1..Len(up) : up[i].part = 1 =>
                        up[i].frame.step < Reach + HeadHeld + Heads(up, i) + MaxLead
            DownLate == \A i \in 1..Len(down) : down[i] < Reach + HeadHeld + Heads(up, Len(up)) + i
<1>. SUFFICES HeadLate' /\ UpLate' /\ DownLate'
  OBVIOUS
<1>1. bpc # "gone"
  BY DEF Next, WorldStep, World, Offer, Collect, Retain, StepAlone, Finish, DropsAgent, ThreadStep,
     Thread, WriteHello, HelloFails, Receive, ReceiveFails, WriteObservation, WriteFails, ReadPart,
     RejectHeader, ReadReply, ReadTimesOut, ReadFails, Gone, Client, Answer, Skip, Close, Finished,
     vars, bridgeVars, worldVars, threadVars
<1>2. HeadLate /\ UpLate /\ DownLate
  BY <1>1 DEF LateOK
<1>3. /\ Reach \in Int /\ Reach' \in Int /\ MaxLead \in Nat /\ MaxLead \in Int
      /\ Reach <= Reach'
      /\ HeadHeld \in {0, 1} /\ HeadHeld' \in {0, 1}
      /\ Len(up) \in Nat /\ Len(down) \in Nat
  BY ReachGrows, ReplyAssumption, DebtTypes
<1>4. ASSUME NEW i \in 1..Len(got) PROVE got[i].frame.step \in Int
  <2>1. got[i] \in Part
    BY <1>4, ElementOfSeq DEF TypeOK, BridgeTypeOK
  <2>2. QED
    BY <2>1 DEF Part, Frame
<1>5. ASSUME NEW i \in 1..Len(up) PROVE up[i].frame.step \in Int
  <2>1. up[i] \in Part
    BY <1>5, ElementOfSeq DEF TypeOK, BridgeTypeOK
  <2>2. QED
    BY <2>1 DEF Part, Frame
<1>6. ASSUME NEW i \in 1..Len(down) PROVE down[i] \in Int
  <2>1. down[i] \in Nat
    BY <1>6, ElementOfSeq DEF TypeOK, BridgeTypeOK
  <2>2. QED
    BY <2>1
<1>7. HeadRead(got) => got[1].frame.step \in Int
  <2>1. got # <<>> => 1 \in 1..Len(got)
    <3>1. got # <<>> => Len(got) # 0
      BY EmptyByLength DEF TypeOK, BridgeTypeOK
    <3>2. Len(got) \in Nat
      BY DebtTypes
    <3>3. QED
      BY <3>1, <3>2
  <2>2. QED
    BY <1>4, <2>1 DEF HeadRead
<1>8. HeadHeld \in Int /\ HeadHeld' \in Int /\ Heads(up, Len(up)) \in Int
  <2>1. Heads(up, Len(up)) \in Nat
    BY DebtTypes
  <2>2. QED
    BY <1>3, <2>1
<1>9. ASSUME NEW i \in 1..Len(up) PROVE Heads(up, i) \in Int
  <2>1. i \in Nat
    OBVIOUS
  <2>2. Heads(up, i) \in Nat
    BY <2>1, HeadsFinite
  <2>3. QED
    BY <2>2
\* A bound that grows by as much as another shrinks is kept.
<1>10. \A s, a, b, h, k, c, d, m \in Int : s < a + h + c + m /\ a + h + c <= b + k + d => s < b + k + d + m
  OBVIOUS
<1>11. CASE UNCHANGED <<got, up>>
  <2>1. HeadHeld' = HeadHeld
    BY <1>11 DEF HeadHeld
  <2>2. HeadLate'
    <3>1. \A s, a, b, m \in Int : s < a + 1 + m /\ a <= b => s < b + 1 + m
      OBVIOUS
    <3>2. QED
      BY <1>2, <1>3, <1>7, <1>11, <3>1, Zenon
  <2>3. UpLate'
    <3>. SUFFICES ASSUME NEW i \in 1..Len(up), up[i].part = 1
                  PROVE  up[i].frame.step < Reach' + HeadHeld + Heads(up, i) + MaxLead
      BY <1>11, <2>1
    <3>1. Heads(up, i) \in Int /\ HeadHeld \in Int
      BY <1>8, <1>9
    <3>2. Reach + HeadHeld + Heads(up, i) <= Reach' + HeadHeld + Heads(up, i)
      <4>1. \A a, b, h, c \in Int : a <= b => a + h + c <= b + h + c
        OBVIOUS
      <4>2. QED
        BY <1>3, <3>1, <4>1, Zenon
    <3>3. up[i].frame.step < Reach + HeadHeld + Heads(up, i) + MaxLead
      BY <1>2
    <3>4. QED
      BY <1>3, <1>5, <1>10, <3>1, <3>2, <3>3, Zenon
  <2>4. CASE UNCHANGED down
    <3>1. DownLate'
      <4>. SUFFICES ASSUME NEW i \in 1..Len(down)
                    PROVE  down[i] < Reach' + HeadHeld + Heads(up, Len(up)) + i
        BY <1>11, <2>1, <2>4
      <4>1. Heads(up, Len(up)) \in Int /\ HeadHeld \in Int /\ i \in Int
        BY <1>8
      <4>2. Reach + HeadHeld + Heads(up, Len(up)) <= Reach' + HeadHeld + Heads(up, Len(up))
        <5>1. \A a, b, h, c \in Int : a <= b => a + h + c <= b + h + c
          OBVIOUS
        <5>2. QED
          BY <1>3, <4>1, <5>1, Zenon
      <4>3. down[i] < Reach + HeadHeld + Heads(up, Len(up)) + i
        BY <1>2
      <4>4. QED
        BY <1>3, <1>6, <1>10, <4>1, <4>2, <4>3, Zenon
    <3>2. QED
      BY <2>2, <2>3, <3>1
  <2>5. CASE WriteObservation /\ client = "open"
    <3>1. Coming = held /\ held \in Nat /\ held < Coming'
      BY <2>5, ComingWritten
    <3>2. /\ Len(down) \in Nat /\ Len(down') = Len(down) + 1
          /\ \A i \in 1..Len(down) : down'[i] = down[i]
          /\ down'[Len(down) + 1] = held
      <4>1. down' = Append(down, held)
        BY <2>5 DEF WriteObservation
      <4>2. QED
        BY <3>1, <4>1, Appended DEF TypeOK, BridgeTypeOK
    <3>3. Heads(up, Len(up)) \in Int /\ HeadHeld \in Int /\ Due \in Int /\ Coming' \in Int /\ held \in Int
      <4>1. Coming' \in Nat /\ Due \in Int
        BY ComingType, DebtTypes
      <4>2. QED
        BY <1>8, <3>1, <4>1
    <3>4. Reach' = Coming' - (Due + 1)
      <4>1. Due' = Due + 1
        BY <2>5, DebtTypes DEF WriteObservation, Due
      <4>2. QED
        BY <4>1, Zenon DEF Reach
    <3>5. Len(down) + Heads(up, Len(up)) + HeadHeld = Due
      BY <2>5 DEF Balanced, WriteObservation
    <3>6. held < Reach' + HeadHeld + Heads(up, Len(up)) + (Len(down) + 1)
      <4>1. \A c, h, u, d, n \in Int : d + u + h = n => (c - (n + 1)) + h + u + (d + 1) = c
        OBVIOUS
      <4>2. Len(down) \in Int
        BY <1>3
      <4>3. (Coming' - (Due + 1)) + HeadHeld + Heads(up, Len(up)) + (Len(down) + 1) = Coming'
        BY <3>3, <3>5, <4>1, <4>2
      <4>4. QED
        BY <3>1, <3>4, <4>3, Zenon
    <3>7. DownLate'
      <4>. SUFFICES ASSUME NEW i \in 1..Len(down')
                    PROVE  down'[i] < Reach' + HeadHeld + Heads(up, Len(up)) + i
        BY <1>11, <2>1
      <4>1. CASE i = Len(down) + 1
        BY <3>2, <3>6, <4>1, Zenon
      <4>2. CASE i \in 1..Len(down)
        <5>1. i \in Int
          BY <4>2
        <5>2. Reach + HeadHeld + Heads(up, Len(up)) <= Reach' + HeadHeld + Heads(up, Len(up))
          <6>1. \A a, b, h, c \in Int : a <= b => a + h + c <= b + h + c
            OBVIOUS
          <6>2. QED
            BY <1>3, <3>3, <6>1, Zenon
        <5>3. down[i] < Reach + HeadHeld + Heads(up, Len(up)) + i
          BY <1>2, <4>2
        <5>4. down[i] \in Int
          BY <1>6, <4>2
        <5>5. down[i] < Reach' + HeadHeld + Heads(up, Len(up)) + i
          BY <1>3, <1>10, <3>3, <5>1, <5>2, <5>3, <5>4, Zenon
        <5>6. QED
          BY <3>2, <4>2, <5>5, Zenon
      <4>3. QED
        BY <3>2, <4>1, <4>2
    <3>8. QED
      BY <2>2, <2>3, <3>7
  <2>6. CASE down # <<>> /\ down' = Tail(down) /\ Reach + 1 <= Reach'
    <3>1. /\ Len(down) \in Nat \ {0} /\ Len(down') = Len(down) - 1
          /\ \A i \in 1..(Len(down) - 1) : down'[i] = down[i + 1]
      <4>1. down \in Seq(Nat)
        BY DEF TypeOK, BridgeTypeOK
      <4>2. QED
        BY <2>6, <4>1, HeadAndTail
    <3>2. DownLate'
      <4>. SUFFICES ASSUME NEW i \in 1..Len(down')
                    PROVE  down'[i] < Reach' + HeadHeld + Heads(up, Len(up)) + i
        BY <1>11, <2>1
      <4>1. i + 1 \in 1..Len(down) /\ down'[i] = down[i + 1] /\ i \in Int
        BY <3>1
      <4>2. down[i + 1] < Reach + HeadHeld + Heads(up, Len(up)) + (i + 1) /\ down[i + 1] \in Int
        BY <1>2, <1>6, <4>1
      <4>3. \A s, a, b, h, c, n \in Int : s < a + h + c + (n + 1) /\ a + 1 <= b => s < b + h + c + n
        OBVIOUS
      <4>4. Heads(up, Len(up)) \in Int /\ HeadHeld \in Int
        BY <1>8
      <4>5. QED
        BY <1>3, <2>6, <4>1, <4>2, <4>3, <4>4, Zenon
    <3>3. QED
      BY <2>2, <2>3, <3>2
  <2>7. CASE down' = <<>>
    <3>1. Len(down') = 0
      BY <2>7, EmptySeq
    <3>2. DownLate'
      BY <3>1
    <3>3. QED
      BY <2>2, <2>3, <3>2
  <2>8. CASE ~UNCHANGED down
    <3>1. (WriteObservation /\ client = "open") \/ Skip \/ down' = <<>> \/ Answer
      BY <1>11, <2>8 DEF Next, WorldStep, World, Offer, Collect, Retain, StepAlone, Finish, DropsAgent,
         ThreadStep, Thread, WriteHello, HelloFails, Receive, ReceiveFails, WriteObservation,
         WriteFails, ReadPart, RejectHeader, ReadReply, ReadTimesOut, ReadFails, Gone, Client,
         Answer, Skip, Close, Finished, vars, bridgeVars, worldVars, threadVars, socketVars
    <3>2. ~Answer
      <4>1. Answer => Len(up') = Len(up) + 3
        BY AnswerHeads
      <4>2. Len(up') = Len(up) /\ Len(up) # Len(up) + 3
        BY <1>3, <1>11
      <4>3. QED
        BY <4>1, <4>2
    <3>3. QED
      BY <2>5, <2>6, <2>7, <3>1, <3>2, ReachGrows DEF Skip
  <2>9. QED
    BY <2>4, <2>8

<1>12. CASE ReadPart
  <2>1. /\ Len(up) \in Nat \ {0} /\ Len(up') = Len(up) - 1
        /\ \A i \in 1..Len(up') : up'[i] = up[i + 1]
        /\ \A n \in 0..Len(up') : HeadHeld' + Heads(up', n) = HeadHeld + Heads(up, n + 1)
        /\ HeadRead(got') => \/ HeadRead(got) /\ got'[1] = got[1]
                             \/ ~HeadRead(got) /\ got'[1] = up[1] /\ up[1].part = 1
    BY <1>12, ReadPartHeads
  <2>2. down' = down
    BY <1>12 DEF ReadPart
  <2>3. HeadLate'
    <3>1. \A s, a, b, m \in Int : s < a + 1 + m /\ a <= b => s < b + 1 + m
      OBVIOUS
    <3>2. CASE HeadRead(got) /\ got'[1] = got[1]
      BY <1>2, <1>3, <1>7, <3>1, <3>2, Zenon
    <3>3. CASE ~HeadRead(got) /\ got'[1] = up[1] /\ up[1].part = 1
      <4>1. 1 \in 1..Len(up)
        BY <2>1
      <4>2. up[1].frame.step < Reach + HeadHeld + Heads(up, 1) + MaxLead /\ up[1].frame.step \in Int
        BY <1>2, <1>5, <3>3, <4>1
      <4>3. HeadHeld = 0
        BY <3>3 DEF HeadHeld
      <4>4. Heads(up, 1) = 1
        <5>1. Heads(up, 0 + 1) = Heads(up, 0) + HeadAt(up, 0 + 1) /\ Heads(up, 0) = 0
          BY HeadsNext, HeadsFinite
        <5>2. 0 + 1 = 1
          OBVIOUS
        <5>3. QED
          BY <3>3, <5>1, <5>2 DEF HeadAt
      <4>5. \A s, a, b, m \in Int : s < a + 0 + 1 + m /\ a <= b => s < b + 1 + m
        OBVIOUS
      <4>6. QED
        BY <1>3, <3>3, <4>2, <4>3, <4>4, <4>5, Zenon
    <3>4. QED
      BY <2>1, <3>2, <3>3
  <2>4. ASSUME NEW n \in 0..Len(up')
        PROVE  /\ Heads(up', n) \in Int /\ Heads(up, n + 1) \in Int
               /\ Reach + HeadHeld + Heads(up, n + 1) <= Reach' + HeadHeld' + Heads(up', n)
    <3>1. n \in Nat /\ n + 1 \in Nat
      BY <2>1
    <3>2. Heads(up', n) \in Nat /\ Heads(up, n + 1) \in Nat
      BY <3>1, HeadsFinite
    <3>3. HeadHeld' + Heads(up', n) = HeadHeld + Heads(up, n + 1)
      BY <2>1
    <3>4. \A a, b \in Int : \A h, k \in {0, 1} : \A c, d \in Nat :
            k + d = h + c /\ a <= b => a + h + c <= b + k + d
      OBVIOUS
    <3>5. \A c \in Nat : c \in Int
      OBVIOUS
    <3>6. QED
      BY <1>3, <3>2, <3>3, <3>4, <3>5, Zenon
  <2>5. UpLate'
    <3>. SUFFICES ASSUME NEW i \in 1..Len(up'), up'[i].part = 1
                  PROVE  up'[i].frame.step < Reach' + HeadHeld' + Heads(up', i) + MaxLead
      OBVIOUS
    <3>1. up'[i] = up[i + 1] /\ i + 1 \in 1..Len(up) /\ i \in 0..Len(up')
      BY <2>1
    <3>2. up[i + 1].frame.step < Reach + HeadHeld + Heads(up, i + 1) + MaxLead
          /\ up[i + 1].frame.step \in Int
      BY <1>2, <1>5, <3>1
    <3>3. /\ Heads(up', i) \in Int /\ Heads(up, i + 1) \in Int
          /\ Reach + HeadHeld + Heads(up, i + 1) <= Reach' + HeadHeld' + Heads(up', i)
      BY <2>4, <3>1
    <3>4. up[i + 1].frame.step < Reach' + HeadHeld' + Heads(up', i) + MaxLead
      BY <1>3, <1>10, <1>8, <3>2, <3>3, Zenon
    <3>5. QED
      BY <3>1, <3>4, Zenon
  <2>6. DownLate'
    <3>. SUFFICES ASSUME NEW i \in 1..Len(down)
                  PROVE  down[i] < Reach' + HeadHeld' + Heads(up', Len(up')) + i
      BY <2>2
    <3>1. Len(up') \in 0..Len(up') /\ Len(up') + 1 = Len(up) /\ i \in Int
      BY <2>1
    <3>2. down[i] < Reach + HeadHeld + Heads(up, Len(up)) + i /\ down[i] \in Int
      BY <1>2, <1>6
    <3>3. HeadHeld \in Int /\ HeadHeld' \in Int
      BY <1>8
    <3>4. /\ Heads(up', Len(up')) \in Int /\ Heads(up, Len(up)) \in Int
          /\ Reach + HeadHeld + Heads(up, Len(up)) <= Reach' + HeadHeld' + Heads(up', Len(up'))
      BY <2>4, <3>1
    <3>5. PICK d \in Int : d = Heads(up', Len(up'))
      BY <3>4
    <3>6. Reach + HeadHeld + Heads(up, Len(up)) <= Reach' + HeadHeld' + d
      BY <3>4, <3>5, Zenon
    <3>7. down[i] < Reach' + HeadHeld' + d + i
      <4>1. /\ Reach \in Int /\ Reach' \in Int /\ HeadHeld \in Int /\ HeadHeld' \in Int
            /\ Heads(up, Len(up)) \in Int /\ d \in Int /\ i \in Int /\ down[i] \in Int
        BY <1>3, <1>8, <3>1, <3>2, <3>5
      <4>2. down[i] < Reach + HeadHeld + Heads(up, Len(up)) + i
        BY <3>2
      <4>3. QED
        BY <1>10, <3>6, <4>1, <4>2, Zenon
    <3>8. QED
      BY <3>5, <3>7, Zenon
  <2>7. QED
    BY <2>3, <2>5, <2>6
<1>13. CASE got' = <<>> /\ UNCHANGED down /\ Reach + HeadHeld <= Reach'
            /\ (UNCHANGED up \/ ReadReply)
  <2>1. HeadHeld' = 0 /\ HeadLate'
    BY <1>13, NothingHeld DEF HeadRead
  <2>2. UpLate'
    <3>. SUFFICES ASSUME NEW i \in 1..Len(up'), up'[i].part = 1
                  PROVE  up'[i].frame.step < Reach' + 0 + Heads(up', i) + MaxLead
      BY <2>1
    <3>1. PICK j \in 1..Len(up) : up'[i] = up[j] /\ Heads(up', i) = Heads(up, j)
      <4>1. CASE UNCHANGED up
        BY <4>1
      <4>2. CASE ReadReply
        <5>1. /\ Len(up) \in Nat \ {0} /\ Len(up') = Len(up) - 1
              /\ up'[i] = up[i + 1] /\ Heads(up', i) = Heads(up, i + 1)
          <6>1. /\ Len(up) \in Nat \ {0} /\ Len(up') = Len(up) - 1
                /\ \A k \in 1..Len(up') : up'[k] = up[k + 1]
                /\ \A n \in 0..Len(up') : Heads(up', n) = Heads(up, n + 1)
            BY <4>2, ReadReplyHeads
          <6>2. i \in 0..Len(up')
            BY <6>1
          <6>3. QED
            BY <6>1, <6>2
        <5>2. i + 1 \in 1..Len(up)
          BY <5>1
        <5>3. QED
          BY <5>1, <5>2
      <4>3. QED
        BY <1>13, <4>1, <4>2
    <3>2. up[j].frame.step < Reach + HeadHeld + Heads(up, j) + MaxLead /\ up[j].frame.step \in Int
      BY <1>2, <1>5, <3>1
    <3>3. Heads(up, j) \in Int /\ HeadHeld \in Int
      BY <1>8, <1>9
    <3>4. \A s, a, b, h, c, m \in Int : s < a + h + c + m /\ a + h <= b => s < b + 0 + c + m
      OBVIOUS
    <3>5. QED
      BY <1>3, <1>13, <3>1, <3>2, <3>3, <3>4, Zenon
  <2>3. Heads(up', Len(up')) = Heads(up, Len(up))
    <3>1. CASE UNCHANGED up
      BY <3>1
    <3>2. CASE ReadReply
      <4>1. /\ Len(up) \in Nat \ {0} /\ Len(up') = Len(up) - 1
            /\ \A n \in 0..Len(up') : Heads(up', n) = Heads(up, n + 1)
        BY <3>2, ReadReplyHeads
      <4>2. Len(up') \in 0..Len(up') /\ Len(up') + 1 = Len(up)
        BY <4>1
      <4>3. QED
        BY <4>1, <4>2
    <3>3. QED
      BY <1>13, <3>1, <3>2
  <2>4. DownLate'
    <3>. SUFFICES ASSUME NEW i \in 1..Len(down)
                  PROVE  down[i] < Reach' + 0 + Heads(up, Len(up)) + i
      BY <1>13, <2>1, <2>3
    <3>1. down[i] < Reach + HeadHeld + Heads(up, Len(up)) + i /\ down[i] \in Int /\ i \in Int
      BY <1>2, <1>6
    <3>2. Heads(up, Len(up)) \in Int /\ HeadHeld \in Int
      BY <1>8
    <3>3. \A s, a, b, h, c, m \in Int : s < a + h + c + m /\ a + h <= b => s < b + 0 + c + m
      OBVIOUS
    <3>4. QED
      BY <1>3, <1>13, <3>1, <3>2, <3>3, Zenon
  <2>5. QED
    BY <2>1, <2>2, <2>4
<1>14. CASE Answer
  <2>1. got' = got /\ HeadHeld' = HeadHeld
    BY <1>14 DEF Answer, threadVars, HeadHeld
  <2>2. HeadLate'
    <3>1. \A s, a, b, m \in Int : s < a + 1 + m /\ a <= b => s < b + 1 + m
      OBVIOUS
    <3>2. QED
      BY <1>2, <1>3, <1>7, <2>1, <3>1, Zenon
  <2>3. /\ Len(down) \in Nat \ {0} /\ Len(down') = Len(down) - 1
        /\ \A i \in 1..Len(down') : down'[i] = down[i + 1] /\ i + 1 \in 1..Len(down)
        /\ Len(up) \in Nat /\ Len(up') = Len(up) + 3
        /\ \A i \in 1..Len(up) : up'[i] = up[i] /\ Heads(up', i) = Heads(up, i)
        /\ Heads(up', Len(up) + 1) = Heads(up, Len(up)) + 1
        /\ Heads(up', Len(up')) = Heads(up, Len(up)) + 1
        /\ \A i \in (Len(up) + 1)..Len(up') :
             /\ up'[i].part = 1 => i = Len(up) + 1
             /\ up'[i].frame.step <= down[1] + MaxLead /\ up'[i].frame.step \in Nat
    BY <1>14, AnswerHeads
  <2>4. Heads(up, Len(up)) \in Int /\ HeadHeld \in Int
    BY <1>8
  <2>5. \A a, b, h, c \in Int : a <= b => a + h + c <= b + h + c
    OBVIOUS
  <2>6. UpLate'
    <3>. SUFFICES ASSUME NEW i \in 1..Len(up'), up'[i].part = 1
                  PROVE  up'[i].frame.step < Reach' + HeadHeld + Heads(up', i) + MaxLead
      BY <2>1
    <3>1. CASE i \in 1..Len(up)
      <4>1. Heads(up, i) \in Int
        BY <1>9, <3>1
      <4>2. Reach + HeadHeld + Heads(up, i) <= Reach' + HeadHeld + Heads(up, i)
        BY <1>3, <2>4, <2>5, <4>1, Zenon
      <4>3. up[i].frame.step < Reach + HeadHeld + Heads(up, i) + MaxLead /\ up[i].frame.step \in Int
        BY <1>2, <1>5, <2>3, <3>1
      <4>4. up'[i] = up[i] /\ Heads(up', i) = Heads(up, i)
        BY <2>3, <3>1
      <4>5. QED
        BY <1>3, <1>10, <2>4, <4>1, <4>2, <4>3, <4>4, Zenon
    <3>2. CASE i \in (Len(up) + 1)..Len(up')
      <4>1. Heads(up', i) = Heads(up, Len(up)) + 1
        BY <2>3, <3>2
      <4>2. 1 \in 1..Len(down)
        BY <2>3
      <4>3. down[1] < Reach + HeadHeld + Heads(up, Len(up)) + 1 /\ down[1] \in Int
        BY <1>2, <1>6, <4>2
      <4>4. up'[i].frame.step <= down[1] + MaxLead /\ up'[i].frame.step \in Int
        BY <2>3, <3>2
      <4>5. \A s, t, a, b, h, c, m \in Int :
              t < a + h + c + 1 /\ s <= t + m /\ a <= b => s < b + h + (c + 1) + m
        OBVIOUS
      <4>6. QED
        BY <1>3, <2>4, <4>1, <4>3, <4>4, <4>5, Zenon
    <3>3. QED
      BY <2>3, <3>1, <3>2
  <2>7. DownLate'
    <3>. SUFFICES ASSUME NEW i \in 1..Len(down')
                  PROVE  down'[i] < Reach' + HeadHeld + (Heads(up, Len(up)) + 1) + i
      BY <2>1, <2>3
    <3>1. i + 1 \in 1..Len(down) /\ down'[i] = down[i + 1] /\ i \in Int
      BY <2>3
    <3>2. down[i + 1] < Reach + HeadHeld + Heads(up, Len(up)) + (i + 1) /\ down[i + 1] \in Int
      BY <1>2, <1>6, <3>1
    <3>3. \A s, a, b, h, c, n \in Int :
            s < a + h + c + (n + 1) /\ a <= b => s < b + h + (c + 1) + n
      OBVIOUS
    <3>4. QED
      BY <1>3, <2>4, <3>1, <3>2, <3>3, Zenon
  <2>8. QED
    BY <2>2, <2>6, <2>7
<1>15. CASE Close
  <2>1. got' = got /\ HeadHeld' = HeadHeld /\ Len(down') = 0
    BY <1>15, EmptySeq DEF Close, threadVars, HeadHeld
  <2>2. HeadLate'
    <3>1. \A s, a, b, m \in Int : s < a + 1 + m /\ a <= b => s < b + 1 + m
      OBVIOUS
    <3>2. QED
      BY <1>2, <1>3, <1>7, <2>1, <3>1, Zenon
  <2>3. PICK n \in 0..Len(up) : up' = SubSeq(up, 1, n)
    BY <1>15 DEF Close
  <2>4. Len(up') = n /\ \A i \in 1..n : up'[i] = up[i]
    BY <2>3, Prefix DEF TypeOK, BridgeTypeOK
  <2>5. UpLate'
    <3>. SUFFICES ASSUME NEW i \in 1..Len(up'), up'[i].part = 1
                  PROVE  up'[i].frame.step < Reach' + HeadHeld + Heads(up', i) + MaxLead
      BY <2>1
    <3>1. i \in 1..Len(up) /\ i \in Nat /\ up'[i] = up[i] /\ \A j \in 1..i : up'[j] = up[j]
      BY <1>3, <2>4
    <3>2. Heads(up', i) = Heads(up, i) /\ Heads(up, i) \in Nat
      BY <3>1, HeadsSame, HeadsFinite
    <3>3. Heads(up, i) \in Int /\ HeadHeld \in Int
      BY <1>3, <3>2
    <3>4. Reach + HeadHeld + Heads(up, i) <= Reach' + HeadHeld + Heads(up, i)
      <4>1. \A a, b, h, c \in Int : a <= b => a + h + c <= b + h + c
        OBVIOUS
      <4>2. QED
        BY <1>3, <3>3, <4>1, Zenon
    <3>5. up[i].frame.step < Reach + HeadHeld + Heads(up, i) + MaxLead /\ up[i].frame.step \in Int
      BY <1>2, <1>5, <3>1
    <3>6. QED
      BY <1>3, <1>10, <3>1, <3>2, <3>3, <3>4, <3>5, Zenon
  <2>6. DownLate'
    BY <2>1
  <2>7. QED
    BY <2>2, <2>5, <2>6
<1>16. CASE ReadReply \/ ReadTimesOut
  <2>1. CASE ReadReply
    <3>1. HeadHeld = 1 /\ Reach + 1 <= Reach' /\ got' = <<>> /\ UNCHANGED down
      BY <2>1, ReadReplyHeads, ReachGrows DEF ReadReply
    <3>2. QED
      BY <1>13, <2>1, <3>1
  <2>2. CASE ReadTimesOut
    <3>1. Reach + HeadHeld <= Reach' /\ got' = <<>> /\ UNCHANGED <<down, up>>
      BY <2>2, ReachGrows DEF ReadTimesOut, socketVars
    <3>2. QED
      BY <1>13, <3>1
  <2>3. QED
    BY <1>16, <2>1, <2>2
<1>17. UNCHANGED <<got, up>> \/ ReadPart \/ ReadReply \/ ReadTimesOut \/ Answer \/ Close
  BY DEF Next, WorldStep, World, Offer, Collect, Retain, StepAlone, Finish, DropsAgent, ThreadStep,
     Thread, WriteHello, HelloFails, Receive, ReceiveFails, WriteObservation, WriteFails,
     RejectHeader, ReadFails, Gone, Client, Skip, Finished, vars, bridgeVars, threadVars, socketVars
<1>18. QED
  BY <1>11, <1>12, <1>14, <1>15, <1>16, <1>17

-----------------------------------------------------------------------------
(* Theorems about the debt *)

\* Order, balance and lateness: what the debt rests on beside IInv.
TimingInv == OrderOK /\ Balanced /\ LateOK

\* Initially nothing is on its way and nothing is due.
LEMMA InitTiming == Init => TimingInv
<1>. SUFFICES ASSUME Init PROVE TimingInv
  OBVIOUS
<1>1. Len(down) = 0 /\ Len(up) = 0 /\ Len(actions) = 0 /\ Heads(up, 0) = 0
  BY EmptySeq, HeadsFinite DEF Init, BridgeInit
<1>2. OrderOK
  BY <1>1 DEF Init, BridgeInit, OrderOK, NoStep
<1>3. HeadHeld = 0 /\ Due = 0
  BY DEF Init, BridgeInit, HeadHeld, HeadRead, Due
<1>4. Balanced
  BY <1>1, <1>3 DEF Balanced
<1>5. LateOK
  BY <1>1 DEF Init, BridgeInit, LateOK, HeadRead, NoAction
<1>6. QED
  BY <1>2, <1>4, <1>5 DEF TimingInv

\* Every step keeps order, balance and lateness.
LEMMA TimingStep == IInv /\ IInv' /\ TimingInv /\ [Next]_vars => TimingInv'
<1>. SUFFICES ASSUME IInv, IInv', TimingInv, [Next]_vars PROVE TimingInv'
  OBVIOUS
<1>1. TypeOK /\ TypeOK' /\ ControlOK /\ StreamOK /\ OrderOK /\ Balanced /\ LateOK
  BY DEF IInv, TimingInv
<1>2. OrderOK'
  BY <1>1, OrderStep
<1>3. Balanced'
  BY <1>1, BalancedStep
<1>4. \A i \in 1..Len(actions') : actions'[i].step < Reach' + MaxLead
  BY <1>1, LateActions
<1>5. last'.step # NoStep => last'.step < Reach' + MaxLead
  BY <1>1, LateLast
<1>6. bpc' # "gone" =>
        /\ HeadRead(got') => got'[1].frame.step < Reach' + 1 + MaxLead
        /\ \A i \in 1..Len(up') : up'[i].part = 1 =>
             up'[i].frame.step < Reach' + HeadHeld' + Heads(up', i) + MaxLead
        /\ \A i \in 1..Len(down') : down'[i] < Reach' + HeadHeld' + Heads(up', Len(up')) + i
  BY <1>1, LateStream
<1>7. LateOK'
  BY <1>4, <1>5, <1>6, Zenon DEF LateOK
<1>8. QED
  BY <1>2, <1>3, <1>7 DEF TimingInv

\* The simulation, the thread, the socket and the client keep them always.
LEMMA TimingInvariant == Spec => []TimingInv
  BY InitTiming, InductiveInvariant, TimingStep, PTL DEF Spec

\* The replies on their way and to be written are exactly the ones the thread
\* waits for and the ones its timed-out reads left behind: no schedule and no
\* timeout makes it catch up (read_frame in RemoteAgent::new).
THEOREM DebtIsNeverPaid == Spec => []DebtKept
<1>1. TimingInv => DebtKept
  BY BalancedIsKept DEF TimingInv
<1>2. QED
  BY <1>1, TimingInvariant, PTL

\* A step that applies a command finds it no later than the debt allows.
LEMMA CollectMuted ==
    ASSUME TypeOK, TypeOK', ControlOK, OrderOK, OrderOK', LateOK, [Next]_vars, Collect,
           decided'.from # NoStep
    PROVE  decided'.debt <= MaxActionAge + MaxLead
<1>1. /\ IsFresh(last') /\ decided'.debt = debt
  <2>1. CASE IsFresh(last')
    <3>1. decided' = [from |-> last'.step, command |-> last'.command, debt |-> debt]
      BY <2>1 DEF Collect
    <3>2. QED
      BY <2>1, <3>1
  <2>2. CASE ~IsFresh(last')
    <3>1. decided' = Nothing
      BY <2>2 DEF Collect
    <3>2. QED
      BY <3>1 DEF Nothing
  <2>3. QED
    BY <2>1, <2>2
<1>2. last'.step # NoStep /\ tick - last'.step <= MaxActionAge
  BY <1>1 DEF IsFresh
<1>3. last'.step < Reach' + MaxLead
  BY <1>2, LateLast
<1>4. Coming' <= tick + 1
  <2>1. wpc' = "offer" /\ tick' = tick + 1 /\ UNCHANGED <<held, queued>>
    BY DEF Collect, threadVars
  <2>2. NextOffer' = tick + 1 /\ NextOffer' = tick'
    BY <2>1 DEF NextOffer
  <2>3. /\ held # NoStep => held < tick + 1
        /\ queued # NoStep => queued < tick + 1
    BY <2>1, <2>2 DEF OrderOK
  <2>4. Coming' = IF held # NoStep THEN held ELSE IF queued # NoStep THEN queued ELSE tick + 1
    BY <2>1, <2>2, Zenon DEF Coming
  <2>5. tick \in Nat /\ held \in Nat \cup {NoStep} /\ queued \in Nat \cup {NoStep}
    BY ComingType
  <2>6. QED
    BY <2>3, <2>4, <2>5
<1>5. Reach' = Coming' - Due' /\ Due' = Due
  BY DEF Reach, Due, Collect, threadVars
<1>6. debt \in Int /\ Due \in Int /\ debt <= Due
  BY DebtTypes DEF Due
<1>7. PICK c \in Int : c = Coming'
  BY ComingType
<1>8. PICK l \in Int : l = last'.step
  BY DrainType DEF Collect, TypeOK, NoStep
<1>9. l < (c - Due) + MaxLead /\ c <= tick + 1 /\ tick - l <= MaxActionAge
  BY <1>2, <1>3, <1>4, <1>5, <1>7, <1>8, Zenon
<1>10. tick \in Int /\ MaxLead \in Int /\ MaxActionAge \in Int
  BY ComingType, ReplyAssumption, BridgeAssumption
<1>11. debt <= MaxActionAge + MaxLead
  BY <1>6, <1>9, <1>10
<1>12. QED
  BY <1>1, <1>11, Zenon

\* A step applies a command only while the debt is at most the age of actions
\* and the lead: after that the client that answers every observation is mute.
LEMMA MutedStep ==
    IInv /\ IInv' /\ TimingInv /\ TimingInv' /\ MutedByDebt /\ [Next]_vars => MutedByDebt'
<1>. SUFFICES ASSUME IInv, IInv', TimingInv, TimingInv', MutedByDebt, [Next]_vars
              PROVE  MutedByDebt'
  OBVIOUS
<1>1. CASE UNCHANGED decided
  BY <1>1 DEF MutedByDebt
<1>2. CASE decided' = Nothing
  BY <1>2 DEF MutedByDebt, Nothing
<1>3. CASE Collect
  BY <1>3, CollectMuted DEF MutedByDebt, IInv, TimingInv
<1>4. UNCHANGED decided \/ decided' = Nothing \/ Collect
  BY DEF Next, WorldStep, World, Offer, Retain, StepAlone, Finish, DropsAgent, ThreadStep,
     Thread, WriteHello, HelloFails, Receive, ReceiveFails, WriteObservation, WriteFails, ReadPart,
     RejectHeader, ReadReply, ReadTimesOut, ReadFails, Gone, Client, Answer, Skip, Close, Finished,
     vars, bridgeVars, worldVars, threadVars, socketVars
<1>5. QED
  BY <1>1, <1>2, <1>3, <1>4

\* MAX_ACTION_AGE + 1 reads that time out mute a client that answers every
\* observation, whatever its speed (RemoteAgent::new, RemoteAgent::act).
THEOREM DebtMutes == Spec => []MutedByDebt
<1>1. Init => MutedByDebt
  BY DEF Init, BridgeInit, Nothing, MutedByDebt
<1>2. QED
  BY <1>1, InductiveInvariant, TimingInvariant, MutedStep, PTL DEF Spec

-----------------------------------------------------------------------------
(* Commands arrive in the order of their steps *)

\* A step is before what is still to be written, before the parts to be read, and
\* before the parts of the frame that is being read.
BeforeNew(step) == step <= Coming /\ \A i \in 1..Len(down) : step <= down[i]
BeforeUp(step) == \A i \in 1..Len(up) : step <= up[i].frame.step
BeforeGot(step) == \A i \in 1..Len(got) : step <= got[i].frame.step
BeforeStream(step) == BeforeGot(step) /\ BeforeUp(step) /\ BeforeNew(step)

\* With a client at most one step ahead, the frames are in the order of their
\* steps: on their way, read, received and remembered.
SortedOK ==
    /\ \A i \in 1..Len(up) :
         /\ BeforeNew(up[i].frame.step)
         /\ \A j \in i..Len(up) : up[i].frame.step <= up[j].frame.step
    /\ \A i \in 1..Len(got) :
         BeforeUp(got[i].frame.step) /\ BeforeNew(got[i].frame.step)
    /\ \A i \in 1..Len(actions) :
         /\ BeforeStream(actions[i].step)
         /\ \A j \in i..Len(actions) : actions[i].step <= actions[j].step
    /\ last.step # NoStep =>
         /\ BeforeStream(last.step)
         /\ \A i \in 1..Len(actions) : last.step <= actions[i].step

\* The steps of frames, actions and observations are integers.
LEMMA StepTypes ==
    ASSUME TypeOK
    PROVE  /\ \A i \in 1..Len(up) : up[i].frame.step \in Int
           /\ \A i \in 1..Len(got) : got[i].frame.step \in Int
           /\ \A i \in 1..Len(actions) : actions[i].step \in Int
           /\ \A i \in 1..Len(down) : down[i] \in Int
           /\ last.step \in Int
<1>1. ASSUME NEW i \in 1..Len(up) PROVE up[i].frame.step \in Int
  <2>1. up[i] \in Part
    BY ElementOfSeq DEF TypeOK, BridgeTypeOK
  <2>2. QED
    BY <2>1 DEF Part, Frame
<1>2. ASSUME NEW i \in 1..Len(got) PROVE got[i].frame.step \in Int
  <2>1. got[i] \in Part
    BY ElementOfSeq DEF TypeOK, BridgeTypeOK
  <2>2. QED
    BY <2>1 DEF Part, Frame
<1>3. ASSUME NEW i \in 1..Len(actions) PROVE actions[i].step \in Int
  BY ActionFields DEF TypeOK
<1>4. ASSUME NEW i \in 1..Len(down) PROVE down[i] \in Int
  <2>1. down[i] \in Nat
    BY ElementOfSeq DEF TypeOK, BridgeTypeOK
  <2>2. QED
    BY <2>1
<1>5. last.step \in Int
  BY DEF TypeOK, BridgeTypeOK, NoStep
<1>6. QED
  BY <1>1, <1>2, <1>3, <1>4, <1>5

\* What changes the observations on their way.
LEMMA DownChanges ==
    ASSUME [Next]_vars
    PROVE  \/ UNCHANGED down
           \/ down' = <<>>
           \/ down # <<>> /\ down' = Tail(down)
           \/ WriteObservation /\ down' = Append(down, held)
  BY DEF Next, WorldStep, World, Offer, Collect, Retain, StepAlone, Finish, DropsAgent, ThreadStep,
     Thread, WriteHello, HelloFails, Receive, ReceiveFails, WriteObservation, WriteFails, ReadPart,
     RejectHeader, ReadReply, ReadTimesOut, ReadFails, Gone, Client, Answer, Skip, Close, Finished,
     vars, bridgeVars, worldVars, threadVars, socketVars

\* What changes the parts that the client has written and those that are read.
LEMMA UpChanges ==
    ASSUME [Next]_vars
    PROVE  /\ \/ UNCHANGED up
              \/ up # <<>> /\ up' = Tail(up)
              \/ Answer
              \/ \E n \in 0..Len(up) : up' = SubSeq(up, 1, n)
           /\ UNCHANGED got \/ got' = <<>> \/ ReadPart
  BY DEF Next, WorldStep, World, Offer, Collect, Retain, StepAlone, Finish, DropsAgent, ThreadStep,
     Thread, WriteHello, HelloFails, Receive, ReceiveFails, WriteObservation, WriteFails,
     RejectHeader, ReadPart, ReadReply, ReadTimesOut, ReadFails, Gone, Client, Answer, Skip, Close,
     Finished, vars, bridgeVars, worldVars, threadVars, socketVars

\* What is before everything still to be written stays so.
LEMMA BeforeNewKept ==
    ASSUME TypeOK, TypeOK', ControlOK, OrderOK, [Next]_vars, NEW s \in Int, BeforeNew(s)
    PROVE  s <= Coming' /\ \A i \in 1..Len(down') : s <= down'[i]
<1>1. s <= Coming'
  <2>1. Coming \in Int /\ Coming' \in Int /\ s <= Coming /\ Coming <= Coming'
    BY ComingType, ComingGrows DEF BeforeNew
  <2>2. \A a, b, c \in Int : a <= b /\ b <= c => a <= c
    OBVIOUS
  <2>3. QED
    BY <2>1, <2>2, Zenon
<1>2. CASE UNCHANGED down
  BY <1>1, <1>2 DEF BeforeNew
<1>3. CASE down' = <<>>
  BY <1>1, <1>3, EmptySeq
<1>4. CASE down # <<>> /\ down' = Tail(down)
  <2>1. /\ Len(down) \in Nat \ {0} /\ Len(down') = Len(down) - 1
        /\ \A i \in 1..(Len(down) - 1) : down'[i] = down[i + 1]
    BY <1>4, HeadAndTail DEF TypeOK, BridgeTypeOK
  <2>2. \A i \in 1..Len(down') : down'[i] = down[i + 1] /\ i + 1 \in 1..Len(down)
    BY <2>1
  <2>3. QED
    BY <1>1, <2>2 DEF BeforeNew
<1>5. CASE WriteObservation /\ down' = Append(down, held)
  <2>1. Coming = held /\ held \in Nat
    BY <1>5, ComingWritten
  <2>2. /\ Len(down) \in Nat /\ Len(down') = Len(down) + 1
        /\ \A i \in 1..Len(down) : down'[i] = down[i]
        /\ down'[Len(down) + 1] = held
    BY <1>5, <2>1, Appended DEF TypeOK, BridgeTypeOK
  <2>3. \A i \in 1..Len(down') : i \in 1..Len(down) \/ i = Len(down) + 1
    BY <2>2
  <2>4. QED
    BY <1>1, <2>1, <2>2, <2>3, Zenon DEF BeforeNew
<1>6. QED
  BY <1>2, <1>3, <1>4, <1>5, DownChanges

\* What is before all the parts to be read stays so.
LEMMA BeforeUpKept ==
    ASSUME TypeOK, TypeOK', StreamOK, [Next]_vars, NEW s \in Int, BeforeUp(s), BeforeNew(s)
    PROVE  \A i \in 1..Len(up') : s <= up'[i].frame.step
<1>1. CASE UNCHANGED up
  BY <1>1 DEF BeforeUp
<1>2. CASE up # <<>> /\ up' = Tail(up)
  <2>1. /\ Len(up) \in Nat \ {0} /\ Len(up') = Len(up) - 1
        /\ \A i \in 1..(Len(up) - 1) : up'[i] = up[i + 1]
    BY <1>2, HeadAndTail DEF TypeOK, BridgeTypeOK
  <2>2. \A i \in 1..Len(up') : up'[i] = up[i + 1] /\ i + 1 \in 1..Len(up)
    BY <2>1
  <2>3. QED
    BY <2>2 DEF BeforeUp
<1>3. CASE Answer
  <2>1. /\ Len(down) \in Nat \ {0} /\ Len(up) \in Nat
        /\ \A i \in 1..Len(up) : up'[i] = up[i]
        /\ \A i \in (Len(up) + 1)..Len(up') : down[1] <= up'[i].frame.step /\ up'[i].frame.step \in Nat
    BY <1>3, AnswerHeads
  <2>2. 1 \in 1..Len(down)
    BY <2>1
  <2>3. s <= down[1] /\ down[1] \in Int
    BY <2>2, StepTypes DEF BeforeNew
  <2>. TAKE i \in 1..Len(up')
  <2>4. CASE i \in 1..Len(up)
    BY <2>1, <2>4 DEF BeforeUp
  <2>5. CASE i \in (Len(up) + 1)..Len(up')
    <3>1. down[1] <= up'[i].frame.step /\ up'[i].frame.step \in Int
      BY <2>1, <2>5
    <3>2. \A a, b, c \in Int : a <= b /\ b <= c => a <= c
      OBVIOUS
    <3>3. QED
      BY <2>3, <3>1, <3>2, Zenon
  <2>6. QED
    BY <2>1, <2>4, <2>5
<1>4. ASSUME NEW n \in 0..Len(up), up' = SubSeq(up, 1, n)
      PROVE  \A i \in 1..Len(up') : s <= up'[i].frame.step
  <2>1. Len(up') = n /\ (\A i \in 1..n : up'[i] = up[i]) /\ Len(up) \in Nat
    BY <1>4, Prefix, LenProperties DEF TypeOK, BridgeTypeOK
  <2>2. \A i \in 1..Len(up') : i \in 1..Len(up) /\ up'[i] = up[i]
    BY <2>1
  <2>3. QED
    BY <2>2 DEF BeforeUp
<1>5. QED
  BY <1>1, <1>2, <1>3, <1>4, UpChanges

\* What a read adds to the parts of the frame.
LEMMA GotGrows ==
    ASSUME TypeOK, ReadPart
    PROVE  /\ \A i \in 1..Len(got') : (i \in 1..Len(got) /\ got'[i] = got[i]) \/ got'[i] = up[1]
           /\ 1 \in 1..Len(up) /\ Len(up) \in Nat /\ Len(up') = Len(up) - 1
           /\ \A i \in 1..Len(up') : i + 1 \in 1..Len(up) /\ up'[i] = up[i + 1]
<1>1. /\ Len(got) \in Nat /\ Len(got') = Len(got) + 1
      /\ \A i \in 1..Len(got) : got'[i] = got[i]
      /\ got'[Len(got) + 1] = up[1]
  BY ArrivedParts DEF ReadPart, TypeOK
<1>2. /\ Len(up) \in Nat \ {0} /\ Len(up') = Len(up) - 1
      /\ \A i \in 1..(Len(up) - 1) : up'[i] = up[i + 1]
  BY HeadAndTail DEF ReadPart, TypeOK, BridgeTypeOK
<1>3. \A i \in 1..Len(got') : i \in 1..Len(got) \/ i = Len(got) + 1
  BY <1>1
<1>4. \A i \in 1..Len(got') : (i \in 1..Len(got) /\ got'[i] = got[i]) \/ got'[i] = up[1]
  BY <1>1, <1>3, Zenon
<1>5. QED
  BY <1>2, <1>4

\* What is before everything on its way and to be written stays so.
LEMMA BeforeStreamKept ==
    ASSUME TypeOK, TypeOK', ControlOK, StreamOK, OrderOK, [Next]_vars,
           NEW s \in Int, BeforeStream(s)
    PROVE  BeforeStream(s)'
<1>1. s <= Coming' /\ \A i \in 1..Len(down') : s <= down'[i]
  BY BeforeNewKept DEF BeforeStream
<1>2. \A i \in 1..Len(up') : s <= up'[i].frame.step
  BY BeforeUpKept DEF BeforeStream
<1>3. \A i \in 1..Len(got') : s <= got'[i].frame.step
  <2>1. CASE UNCHANGED got
    BY <2>1 DEF BeforeStream, BeforeGot
  <2>2. CASE got' = <<>>
    BY <2>2, EmptySeq
  <2>3. CASE ReadPart
    BY <2>3, GotGrows DEF BeforeStream, BeforeGot, BeforeUp
  <2>4. QED
    BY <2>1, <2>2, <2>3, UpChanges
<1>4. QED
  BY <1>1, <1>2, <1>3 DEF BeforeStream, BeforeNew, BeforeUp, BeforeGot

\* The parts to be read stay in the order of their steps.
LEMMA SortedUp ==
    ASSUME MaxLead <= 1, TypeOK, TypeOK', ControlOK, StreamOK, OrderOK, SortedOK, [Next]_vars
    PROVE  \A i \in 1..Len(up') :
             /\ BeforeNew(up[i].frame.step)'
             /\ \A j \in i..Len(up') : up'[i].frame.step <= up'[j].frame.step
<1>1. ASSUME NEW i \in 1..Len(up)
      PROVE  up[i].frame.step <= Coming' /\ \A k \in 1..Len(down') : up[i].frame.step <= down'[k]
  <2>1. up[i].frame.step \in Int /\ BeforeNew(up[i].frame.step)
    BY StepTypes DEF SortedOK
  <2>2. QED
    BY <2>1, BeforeNewKept
<1>. DEFINE New(i) == up'[i].frame.step <= Coming' /\ \A k \in 1..Len(down') : up'[i].frame.step <= down'[k]
            Up(i) == \A j \in i..Len(up') : up'[i].frame.step <= up'[j].frame.step
<1>. SUFFICES ASSUME NEW i \in 1..Len(up') PROVE New(i) /\ Up(i)
  BY DEF BeforeNew
<1>2. CASE UNCHANGED up
  BY <1>1, <1>2 DEF SortedOK
<1>3. CASE up # <<>> /\ up' = Tail(up)
  <2>1. /\ Len(up) \in Nat \ {0} /\ Len(up') = Len(up) - 1
        /\ \A k \in 1..(Len(up) - 1) : up'[k] = up[k + 1]
    BY <1>3, HeadAndTail DEF TypeOK, BridgeTypeOK
  <2>2. i + 1 \in 1..Len(up) /\ up'[i] = up[i + 1]
    BY <2>1
  <2>3. New(i)
    BY <1>1, <2>2
  <2>4. ASSUME NEW j \in i..Len(up') PROVE up'[i].frame.step <= up'[j].frame.step
    <3>1. j + 1 \in (i + 1)..Len(up) /\ up'[j] = up[j + 1]
      BY <2>1
    <3>2. QED
      BY <2>2, <3>1 DEF SortedOK
  <2>5. QED
    BY <2>3, <2>4
<1>4. CASE Answer
  <2>1. /\ Len(down) \in Nat \ {0} /\ Len(down') = Len(down) - 1
        /\ \A k \in 1..Len(down') : down'[k] = down[k + 1] /\ k + 1 \in 1..Len(down)
        /\ Len(up) \in Nat /\ Len(up') = Len(up) + 3
        /\ \A k \in 1..Len(up) : up'[k] = up[k]
        /\ \A k \in (Len(up) + 1)..Len(up') :
             /\ down[1] <= up'[k].frame.step /\ up'[k].frame.step <= down[1] + MaxLead
             /\ up'[k].frame.step \in Nat
        /\ \A k, j \in (Len(up) + 1)..Len(up') : up'[k].frame = up'[j].frame
    BY <1>4, AnswerHeads
  <2>2. 1 \in 1..Len(down) /\ down[1] \in Int
    <3>1. 1 \in 1..Len(down)
      BY <2>1
    <3>2. QED
      BY <3>1, StepTypes
  <2>3. down[1] + 1 <= Coming' /\ \A k \in 1..Len(down') : down[1] + 1 <= down'[k]
    <3>1. down[1] < Coming /\ Coming \in Int /\ Coming' \in Int /\ Coming <= Coming'
      BY <2>2, ComingType, ComingGrows DEF OrderOK
    <3>2. \A a, b, c \in Int : a < b /\ b <= c => a + 1 <= c
      OBVIOUS
    <3>3. down[1] + 1 <= Coming'
      BY <2>2, <3>1, <3>2, Zenon
    <3>4. ASSUME NEW k \in 1..Len(down') PROVE down[1] + 1 <= down'[k]
      <4>1. down'[k] = down[k + 1] /\ k + 1 \in 1..Len(down) /\ 1 < k + 1
        BY <2>1
      <4>2. down[1] < down[k + 1] /\ down[k + 1] \in Int
        BY <2>2, <4>1, StepTypes DEF OrderOK
      <4>3. QED
        BY <2>2, <4>1, <4>2
    <3>5. QED
      BY <3>3, <3>4
  <2>4. CASE i \in 1..Len(up)
    <3>1. New(i)
      BY <1>1, <2>1, <2>4
    <3>2. ASSUME NEW j \in i..Len(up') PROVE up'[i].frame.step <= up'[j].frame.step
      <4>1. CASE j \in 1..Len(up)
        <5>1. j \in i..Len(up)
          BY <4>1
        <5>2. QED
          BY <2>1, <2>4, <4>1, <5>1 DEF SortedOK
      <4>2. CASE j \in (Len(up) + 1)..Len(up')
        <5>1. up[i].frame.step <= down[1] /\ up[i].frame.step \in Int
          BY <2>2, <2>4, StepTypes DEF SortedOK, BeforeNew
        <5>2. down[1] <= up'[j].frame.step /\ up'[j].frame.step \in Int
          BY <2>1, <4>2
        <5>3. \A a, b, c \in Int : a <= b /\ b <= c => a <= c
          OBVIOUS
        <5>4. QED
          BY <2>1, <2>2, <2>4, <5>1, <5>2, <5>3, Zenon
      <4>3. QED
        BY <2>1, <4>1, <4>2
    <3>3. QED
      BY <3>1, <3>2
  <2>5. CASE i \in (Len(up) + 1)..Len(up')
    <3>1. PICK n \in Nat : n = up'[i].frame.step
      BY <2>1, <2>5
    <3>2. n <= down[1] + MaxLead
      BY <2>1, <2>5, <3>1, Zenon
    <3>3. n <= down[1] + 1
      BY <2>2, <3>2, ReplyAssumption
    <3>4. \A a \in Int : down[1] + 1 <= a => n <= a
      BY <2>2, <3>3
    <3>5. Coming' \in Int /\ \A k \in 1..Len(down') : down'[k] \in Int
      <4>1. ASSUME NEW k \in 1..Len(down') PROVE down'[k] \in Int
        <5>1. down'[k] = down[k + 1] /\ k + 1 \in 1..Len(down)
          BY <2>1
        <5>2. QED
          BY <5>1, StepTypes
      <4>2. QED
        BY <4>1, ComingType
    <3>6. n <= Coming' /\ \A k \in 1..Len(down') : n <= down'[k]
      BY <2>3, <3>4, <3>5, Zenon
    <3>7. New(i)
      BY <3>1, <3>6, Zenon
    <3>8. ASSUME NEW j \in i..Len(up') PROVE up'[i].frame.step <= up'[j].frame.step
      <4>1. j \in (Len(up) + 1)..Len(up')
        BY <2>1, <2>5
      <4>2. up'[j].frame = up'[i].frame
        BY <2>1, <2>5, <4>1
      <4>3. n <= n
        OBVIOUS
      <4>4. QED
        BY <3>1, <4>2, <4>3, Zenon
    <3>9. QED
      BY <3>7, <3>8
  <2>6. i \in 1..Len(up) \/ i \in (Len(up) + 1)..Len(up')
    <3>1. Len(up) \in Nat /\ i \in 1..Len(up')
      BY <2>1
    <3>2. QED
      BY <3>1
  <2>7. QED
    BY <2>4, <2>5, <2>6
<1>5. ASSUME NEW n \in 0..Len(up), up' = SubSeq(up, 1, n)
      PROVE  New(i) /\ Up(i)
  <2>1. Len(up') = n /\ (\A k \in 1..n : up'[k] = up[k]) /\ Len(up) \in Nat
    BY <1>5, Prefix, LenProperties DEF TypeOK, BridgeTypeOK
  <2>2. i \in 1..Len(up) /\ up'[i] = up[i]
    BY <2>1
  <2>3. \A j \in i..Len(up') : j \in i..Len(up) /\ up'[j] = up[j]
    BY <2>1
  <2>4. New(i)
    BY <1>1, <2>2
  <2>5. Up(i)
    BY <2>2, <2>3 DEF SortedOK
  <2>6. QED
    BY <2>4, <2>5
<1>6. QED
  BY <1>2, <1>3, <1>4, <1>5, UpChanges

\* The parts of the frame that is being read stay before what comes.
LEMMA SortedGot ==
    ASSUME TypeOK, TypeOK', ControlOK, StreamOK, OrderOK, SortedOK, [Next]_vars
    PROVE  \A i \in 1..Len(got') : BeforeUp(got[i].frame.step)' /\ BeforeNew(got[i].frame.step)'
<1>. DEFINE Up(i) == \A k \in 1..Len(up') : got'[i].frame.step <= up'[k].frame.step
            New(i) == got'[i].frame.step <= Coming' /\ \A k \in 1..Len(down') : got'[i].frame.step <= down'[k]
<1>. SUFFICES ASSUME NEW i \in 1..Len(got') PROVE Up(i) /\ New(i)
  BY DEF BeforeUp, BeforeNew
<1>1. CASE UNCHANGED got
  <2>1. i \in 1..Len(got) /\ got'[i] = got[i] /\ got[i].frame.step \in Int
    BY <1>1, StepTypes
  <2>2. BeforeUp(got[i].frame.step) /\ BeforeNew(got[i].frame.step)
    BY <2>1 DEF SortedOK
  <2>3. \A k \in 1..Len(up') : got[i].frame.step <= up'[k].frame.step
    BY <2>1, <2>2, BeforeUpKept
  <2>4. got[i].frame.step <= Coming' /\ \A k \in 1..Len(down') : got[i].frame.step <= down'[k]
    BY <2>1, <2>2, BeforeNewKept
  <2>5. QED
    BY <2>1, <2>3, <2>4
<1>2. CASE got' = <<>>
  BY <1>2, EmptySeq
<1>3. CASE ReadPart
  <2>1. /\ (i \in 1..Len(got) /\ got'[i] = got[i]) \/ got'[i] = up[1]
        /\ 1 \in 1..Len(up)
        /\ \A k \in 1..Len(up') : k + 1 \in 1..Len(up) /\ up'[k] = up[k + 1]
    BY <1>3, GotGrows
  <2>2. CASE i \in 1..Len(got) /\ got'[i] = got[i]
    <3>1. got[i].frame.step \in Int /\ BeforeUp(got[i].frame.step) /\ BeforeNew(got[i].frame.step)
      BY <2>2, StepTypes DEF SortedOK
    <3>2. \A k \in 1..Len(up') : got[i].frame.step <= up'[k].frame.step
      BY <3>1, BeforeUpKept
    <3>3. got[i].frame.step <= Coming' /\ \A k \in 1..Len(down') : got[i].frame.step <= down'[k]
      BY <3>1, BeforeNewKept
    <3>4. QED
      BY <2>2, <3>2, <3>3
  <2>3. CASE got'[i] = up[1]
    <3>1. up[1].frame.step \in Int /\ BeforeNew(up[1].frame.step)
      BY <2>1, StepTypes DEF SortedOK
    <3>2. up[1].frame.step <= Coming' /\ \A k \in 1..Len(down') : up[1].frame.step <= down'[k]
      BY <3>1, BeforeNewKept
    <3>3. ASSUME NEW k \in 1..Len(up') PROVE up[1].frame.step <= up'[k].frame.step
      <4>1. k + 1 \in 1..Len(up) /\ up'[k] = up[k + 1]
        BY <2>1
      <4>2. k + 1 \in 1..Len(up) /\ k + 1 >= 1
        BY <4>1
      <4>3. \A j \in 1..Len(up) : up[1].frame.step <= up[j].frame.step
        BY <2>1 DEF SortedOK
      <4>4. QED
        BY <4>1, <4>3
    <3>4. QED
      BY <2>3, <3>2, <3>3
  <2>4. QED
    BY <2>1, <2>2, <2>3
<1>4. QED
  BY <1>1, <1>2, <1>3, UpChanges

\* What changes the actions that the RemoteAgent has not received.
LEMMA ActionsChange ==
    ASSUME [Next]_vars
    PROVE  UNCHANGED <<actions, last>> \/ (actions' = <<>> /\ last' = NoAction) \/ Collect
           \/ (ReadReply /\ last' = last)
  BY DEF Next, WorldStep, World, Offer, Retain, StepAlone, Finish, DropsAgent, ThreadStep,
     Thread, WriteHello, HelloFails, Receive, ReceiveFails, WriteObservation, WriteFails,
     RejectHeader, ReadPart, ReadReply, ReadTimesOut, ReadFails, Gone, Client, Answer, Skip, Close,
     Finished, vars, bridgeVars, worldVars, threadVars, socketVars

\* The actions received and remembered stay in the order of their steps.
LEMMA SortedActions ==
    ASSUME TypeOK, TypeOK', ControlOK, StreamOK, OrderOK, SortedOK, [Next]_vars
    PROVE  /\ \A i \in 1..Len(actions') :
                /\ BeforeStream(actions[i].step)'
                /\ \A j \in i..Len(actions') : actions'[i].step <= actions'[j].step
           /\ last'.step # NoStep =>
                /\ BeforeStream(last.step)'
                /\ \A i \in 1..Len(actions') : last'.step <= actions'[i].step
<1>1. ASSUME NEW s \in Int, BeforeStream(s) PROVE BeforeStream(s)'
  BY <1>1, BeforeStreamKept
<1>2. \A i \in 1..Len(actions) : actions[i].step \in Int /\ BeforeStream(actions[i].step)
  BY StepTypes DEF SortedOK
<1>3. last.step \in Int /\ (last.step # NoStep => BeforeStream(last.step))
  BY StepTypes DEF SortedOK
<1>4. CASE UNCHANGED <<actions, last>>
  <2>1. ASSUME NEW i \in 1..Len(actions) PROVE BeforeStream(actions[i].step)'
    <3>1. PICK s \in Int : s = actions[i].step
      BY <1>2
    <3>2. BeforeStream(s)'
      BY <1>1, <1>2, <3>1
    <3>3. QED
      BY <1>4, <3>1, <3>2 DEF BeforeStream, BeforeNew, BeforeUp, BeforeGot
  <2>2. last'.step # NoStep => BeforeStream(last.step)'
    <3>1. PICK s \in Int : s = last.step
      BY <1>3
    <3>2. s # NoStep => BeforeStream(s)'
      BY <1>1, <1>3, <3>1
    <3>3. QED
      BY <1>4, <3>1, <3>2 DEF BeforeStream, BeforeNew, BeforeUp, BeforeGot
  <2>3. QED
    BY <1>4, <2>1, <2>2 DEF SortedOK
<1>5. CASE actions' = <<>> /\ last' = NoAction
  BY <1>5, EmptySeq DEF NoAction
<1>6. CASE Collect
  <2>1. Len(actions') = 0
    BY <1>6, EmptySeq DEF Collect, Drain
  <2>2. ASSUME NEW s \in Int, BeforeStream(s), last'.step = s PROVE BeforeStream(last.step)'
    <3>1. BeforeStream(s)'
      BY <1>1, <2>2
    <3>2. QED
      BY <2>2, <3>1 DEF BeforeStream, BeforeNew, BeforeUp, BeforeGot
  <2>3. last'.step # NoStep => \E s \in Int : BeforeStream(s) /\ last'.step = s
    <3>1. CASE last' = last
      BY <1>3, <3>1
    <3>2. ASSUME NEW i \in Taken, last' = [step |-> actions[i].step, command |-> actions[i].command]
          PROVE  \E s \in Int : BeforeStream(s) /\ last'.step = s
      <4>1. i \in 1..Len(actions) /\ last'.step = actions[i].step
        BY <3>2 DEF Taken
      <4>2. QED
        BY <1>2, <4>1
    <3>3. QED
      BY <1>6, <3>1, <3>2 DEF Collect, Drain
  <2>4. QED
    BY <2>1, <2>2, <2>3
<1>7. CASE ReadReply /\ last' = last
  <2>1. /\ actions' = actions \/ actions' = Append(actions, Decoded(Arrived))
        /\ Decoded(Arrived) \in Action /\ Decoded(Arrived).step = got[1].frame.step
    BY <1>7, DecodedStep
  <2>2. CASE actions' = actions
    BY <1>4, <1>7, <2>2
  <2>3. CASE actions' = Append(actions, Decoded(Arrived))
    <3>1. /\ Len(actions) \in Nat /\ Len(actions') = Len(actions) + 1
          /\ \A i \in 1..Len(actions) : actions'[i] = actions[i]
          /\ actions'[Len(actions) + 1] = Decoded(Arrived)
      BY <2>1, <2>3, Appended DEF TypeOK, BridgeTypeOK
    <3>2. 1 \in 1..Len(got)
      <4>1. got # <<>>
        BY <1>7, ReadReplyHeads DEF HeadRead
      <4>2. Len(got) \in Nat /\ Len(got) # 0
        BY <4>1, EmptyByLength, DebtTypes DEF TypeOK, BridgeTypeOK
      <4>3. QED
        BY <4>2
    <3>3. PICK g \in Int : g = got[1].frame.step
      BY <3>2, StepTypes
    <3>4. BeforeUp(g) /\ BeforeNew(g)
      BY <3>2, <3>3 DEF SortedOK
    <3>5. BeforeStream(g)'
      <4>1. Len(got') = 0
        BY <1>7, EmptySeq DEF ReadReply
      <4>2. \A k \in 1..Len(up') : g <= up'[k].frame.step
        BY <3>4, BeforeUpKept
      <4>3. g <= Coming' /\ \A k \in 1..Len(down') : g <= down'[k]
        BY <3>4, BeforeNewKept
      <4>4. QED
        BY <4>1, <4>2, <4>3 DEF BeforeStream, BeforeNew, BeforeUp, BeforeGot
    <3>6. \A i \in 1..Len(actions) : actions[i].step <= g
      BY <1>2, <3>2, <3>3 DEF BeforeStream, BeforeGot
    <3>7. last.step # NoStep => last.step <= g
      BY <1>3, <3>2, <3>3 DEF BeforeStream, BeforeGot
    <3>8. actions'[Len(actions) + 1].step = g
      BY <2>1, <3>1, <3>3, Zenon
    <3>9. \A i \in 1..Len(actions') : i \in 1..Len(actions) \/ i = Len(actions) + 1
      BY <3>1
    <3>10. ASSUME NEW i \in 1..Len(actions')
           PROVE  /\ BeforeStream(actions[i].step)'
                  /\ \A j \in i..Len(actions') : actions'[i].step <= actions'[j].step
      <4>1. CASE i \in 1..Len(actions)
        <5>1. PICK s \in Int : s = actions[i].step
          BY <1>2, <4>1
        <5>2. BeforeStream(s)' /\ actions'[i].step = s
          BY <1>1, <1>2, <3>1, <4>1, <5>1
        <5>3. BeforeStream(actions[i].step)'
          BY <5>2 DEF BeforeStream, BeforeNew, BeforeUp, BeforeGot
        <5>4. ASSUME NEW j \in i..Len(actions') PROVE s <= actions'[j].step
          <6>1. CASE j \in 1..Len(actions)
            <7>1. j \in i..Len(actions)
              BY <4>1, <6>1
            <7>2. QED
              BY <3>1, <4>1, <5>1, <6>1, <7>1 DEF SortedOK
          <6>2. CASE j = Len(actions) + 1
            BY <3>6, <3>8, <4>1, <5>1, <6>2
          <6>3. j \in 1..Len(actions')
            BY <4>1, <3>1
          <6>4. QED
            BY <3>9, <6>1, <6>2, <6>3
        <5>5. QED
          BY <5>2, <5>3, <5>4
      <4>2. CASE i = Len(actions) + 1
        <5>1. BeforeStream(actions[i].step)'
          BY <3>5, <3>8, <4>2 DEF BeforeStream, BeforeNew, BeforeUp, BeforeGot
        <5>2. \A j \in i..Len(actions') : j = i
          BY <3>1, <4>2
        <5>3. actions'[i].step <= actions'[i].step
          <6>1. g <= g
            OBVIOUS
          <6>2. QED
            BY <3>8, <4>2, <6>1, Zenon
        <5>4. QED
          BY <5>1, <5>2, <5>3
      <4>3. QED
        BY <3>9, <4>1, <4>2
    <3>11. ASSUME last'.step # NoStep
           PROVE  /\ BeforeStream(last.step)'
                  /\ \A i \in 1..Len(actions') : last'.step <= actions'[i].step
      <4>1. PICK s \in Int : s = last.step
        BY <1>3
      <4>2. last'.step = s /\ BeforeStream(s)
        BY <1>3, <1>7, <3>11, <4>1
      <4>3. BeforeStream(s)'
        BY <1>1, <4>2
      <4>4. BeforeStream(last.step)'
        BY <4>2, <4>3 DEF BeforeStream, BeforeNew, BeforeUp, BeforeGot
      <4>5. s <= g /\ \A i \in 1..Len(actions) : s <= actions[i].step
        BY <1>7, <3>7, <3>11, <4>1 DEF SortedOK
      <4>6. \A i \in 1..Len(actions') : s <= actions'[i].step
        BY <3>1, <3>8, <3>9, <4>5, Zenon
      <4>7. QED
        BY <4>2, <4>4, <4>6, Zenon
    <3>12. QED
      BY <3>10, <3>11
  <2>4. QED
    BY <2>1, <2>2, <2>3
<1>8. QED
  BY <1>4, <1>5, <1>6, <1>7, ActionsChange

\* Every step keeps the commands in order, for a client at most one step ahead.
LEMMA SortedStep ==
    MaxLead <= 1 /\ IInv /\ IInv' /\ TimingInv /\ SortedOK /\ [Next]_vars => SortedOK'
<1>. SUFFICES ASSUME MaxLead <= 1, IInv, IInv', TimingInv, SortedOK, [Next]_vars PROVE SortedOK'
  OBVIOUS
<1>1. TypeOK /\ TypeOK' /\ ControlOK /\ StreamOK /\ OrderOK
  BY DEF IInv, TimingInv
<1>2. \A i \in 1..Len(up') : /\ BeforeNew(up[i].frame.step)'
                             /\ \A j \in i..Len(up') : up'[i].frame.step <= up'[j].frame.step
  BY <1>1, SortedUp
<1>3. \A i \in 1..Len(got') : BeforeUp(got[i].frame.step)' /\ BeforeNew(got[i].frame.step)'
  BY <1>1, SortedGot
<1>4. /\ \A i \in 1..Len(actions') :
           /\ BeforeStream(actions[i].step)'
           /\ \A j \in i..Len(actions') : actions'[i].step <= actions'[j].step
      /\ last'.step # NoStep =>
           /\ BeforeStream(last.step)'
           /\ \A i \in 1..Len(actions') : last'.step <= actions'[i].step
  BY <1>1, SortedActions
<1>5. QED
  BY <1>2, <1>3, <1>4 DEF SortedOK

\* Initially there is nothing to be in order.
LEMMA InitSorted == Init => SortedOK
<1>. SUFFICES ASSUME Init PROVE SortedOK
  OBVIOUS
<1>1. Len(up) = 0 /\ Len(got) = 0 /\ Len(actions) = 0
  BY EmptySeq DEF Init, BridgeInit
<1>2. QED
  BY <1>1 DEF Init, BridgeInit, SortedOK, NoAction

\* A step that drains the queue applies the newest of what it has received.
LEMMA DrainNewest ==
    IInv /\ SortedOK /\ [Next]_vars =>
      [Collect => \A a \in Received : IsFresh(a) => decided'.from >= a.step]_vars
<1>. SUFFICES ASSUME IInv, SortedOK, Collect, NEW a \in Received, IsFresh(a)
              PROVE  decided'.from >= a.step
  OBVIOUS
<1>1. TypeOK /\ tick \in Int /\ MaxActionAge \in Int
  BY BridgeAssumption DEF IInv, TypeOK, BridgeTypeOK
<1>2. \A i \in 1..Len(actions) : actions[i].step \in Int
  BY <1>1, StepTypes
<1>3. last.step \in Int
  BY <1>1, StepTypes
<1>4. a.step \in Int /\ a.step # NoStep /\ tick - a.step <= MaxActionAge
  <2>1. a = last \/ \E i \in 1..Len(actions) : a = actions[i]
    BY DEF Received, Taken
  <2>2. a.step \in Int
    BY <1>2, <1>3, <2>1
  <2>3. QED
    BY <2>2 DEF IsFresh
<1>5. PICK l \in Int : last'.step = l /\ a.step <= l /\ l # NoStep
  <2>1. CASE Taken = {} /\ last' = last
    <3>1. a = last
      BY <2>1 DEF Received
    <3>2. last'.step = a.step /\ a.step <= a.step
      BY <1>4, <2>1, <3>1
    <3>3. QED
      BY <1>4, <3>2
  <2>2. ASSUME NEW i \in Taken, \A j \in Taken : j <= i,
               last' = [step |-> actions[i].step, command |-> actions[i].command]
        PROVE  \E l \in Int : last'.step = l /\ a.step <= l /\ l # NoStep
    <3>1. i \in 1..Len(actions) /\ last'.step = actions[i].step /\ actions[i].step \in Nat
      <4>1. i \in 1..Len(actions)
        BY DEF Taken
      <4>2. QED
        BY <1>1, <2>2, <4>1, ActionFields DEF TypeOK
    <3>2. a.step <= actions[i].step
      <4>1. CASE a = last
        BY <1>4, <3>1, <4>1 DEF SortedOK
      <4>2. ASSUME NEW j \in Taken, a = actions[j] PROVE a.step <= actions[i].step
        <5>1. j \in 1..Len(actions) /\ j <= i
          BY <2>2 DEF Taken
        <5>2. i \in j..Len(actions)
          BY <3>1, <5>1
        <5>3. QED
          BY <4>2, <5>1, <5>2 DEF SortedOK
      <4>3. QED
        BY <4>1, <4>2 DEF Received
    <3>3. actions[i].step \in Int /\ actions[i].step # NoStep
      BY <3>1 DEF NoStep
    <3>4. QED
      BY <3>1, <3>2, <3>3
  <2>3. QED
    BY <2>1, <2>2 DEF Collect, Drain
<1>6. IsFresh(last')
  <2>1. tick - l <= MaxActionAge
    BY <1>1, <1>4, <1>5
  <2>2. QED
    BY <1>5, <2>1, Zenon DEF IsFresh
<1>7. decided'.from = l
  <2>1. decided' = [from |-> last'.step, command |-> last'.command, debt |-> debt]
    BY <1>6 DEF Collect
  <2>2. QED
    BY <1>5, <2>1
<1>8. l >= a.step
  BY <1>4, <1>5
<1>9. QED
  BY <1>7, <1>8, Zenon

\* A step applies the newest command that has reached the RemoteAgent: a reply that
\* was delayed never displaces a newer one, for every client that is at most one
\* step ahead of the observations it answers (RemoteAgent::act).
THEOREM NewestCommandWins == MaxLead <= 1 => (Spec => NewestWins)
<1>. SUFFICES ASSUME MaxLead <= 1 PROVE Spec => NewestWins
  OBVIOUS
<1>1. IInv /\ IInv' /\ TimingInv /\ SortedOK /\ [Next]_vars => SortedOK'
  BY SortedStep
<1>2. Spec => []SortedOK
  BY <1>1, InitSorted, InductiveInvariant, TimingInvariant, PTL DEF Spec
<1>3. QED
  BY <1>2, InductiveInvariant, DrainNewest, PTL DEF Spec, NewestWins
=============================================================================
