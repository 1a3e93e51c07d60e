--------------------------- MODULE SendPathProofs ---------------------------
(***************************************************************************)
(* Proofs about SendPath, for every set of messages, sessions and engines, *)
(* every kind and number of faults and every bound, save where a theorem   *)
(* says otherwise.  In this order:                                         *)
(*   Shape, Slots      the rows in flight and the slots                    *)
(*   Truth             what is said of a message anywhere is backed by     *)
(*                     what the engine did with it                         *)
(*   Rest, Traced      the other types; what was sent, row by row and pipe *)
(*                     by pipe                                             *)
(*   Distinct, Given   a session's line holds each message once            *)
(*   HoldsPromises     what an obliging engine took it keeps               *)
(*   Passed, Ordered   what may pass what, on the way and in the line      *)
(*   Unsaid            the steps as the contract sees them                 *)
(***************************************************************************)
EXTENDS SendPath, FiniteSetTheorems, TLAPS

(* What the variables these proofs speak of look like, and that the pane   *)
(* is typed into only for a message at the head of its chain.              *)
Shape ==
    /\ up \in [Engines -> Seq(Msgs)]
    /\ down \in [Engines -> Seq(Frames)]
    /\ held \in [Engines -> Seq(Msgs)]
    /\ live \in [Msgs -> RowStates]
    /\ disk \in [Msgs -> RowStates]
    /\ bubble \in [Msgs -> Bubbles]
    /\ slot \in [Sessions -> Msgs \cup {"none"}]
    /\ tapped \in [Msgs -> Taps]
    /\ chain \in [Sessions -> Seq([id : Msgs, open : BOOLEAN])]
    /\ chat \in [Sessions -> Seq(Msgs)]
    /\ promised \subseteq Msgs
    /\ typed \subseteq {s \in Sessions : chain[s] # <<>>}

(* What a step of the send path is: its actions, with the half of the      *)
(* state that each leaves alone.                                           *)
LEMMA Steps ==
    ASSUME [Next]_vars
    PROVE  \/ \E m \in Msgs :
                /\ \/ SendText(m) \/ RetrySend(m) \/ DiscardSend(m)
                   \/ AckTimeout(m) \/ TransferResult(m) \/ Flush(m)
                   \/ Age(m) \/ (Committed(m) /\ AdmitRow(m))
                /\ UNCHANGED intakeVars
           \/ \E e \in Engines :
                /\ \/ DrainSend(e) \/ DrainIdle(e) \/ RetryTimer(e)
                   \/ Receive(e) \/ Seal(e) \/ Settle(e) \/ NoteDown(e)
                /\ UNCHANGED intakeVars
           \/ \E e \in Engines : Take(e) /\ UNCHANGED outboxVars
           \/ \E s \in Sessions : /\ \/ TypeHead(s) \/ DropHead(s) \/ ForgetHead(s)
                                     \/ Commit(s) \/ SessionFlips(s)
                                  /\ UNCHANGED outboxVars
           \/ \E e \in Engines : PipeDrops(e) /\ UNCHANGED outboxVars
           \/ \E e \in Engines : EngineDies(e) /\ UNCHANGED outboxVars
           \/ \E e \in Engines : LoseFrame(e) /\ UNCHANGED <<outboxVars, intakeVars>>
           \/ PageDies
           \/ UNCHANGED vars
  BY DEF Next, App, Engine, Interference

-----------------------------------------------------------------------------
\* Sequences: the head and the tail of one that is not empty.
LEMMA HeadAndTail ==
    ASSUME NEW S, NEW q \in Seq(S), q # <<>>
    PROVE  Head(q) \in S /\ Tail(q) \in Seq(S)
  OBVIOUS

\* Sequences: one element more.
LEMMA Appended ==
    ASSUME NEW S, NEW q \in Seq(S), NEW x \in S
    PROVE  Append(q, x) \in Seq(S)
  OBVIOUS

\* Sequences: one element more is not none.
LEMMA NeverEmpty ==
    ASSUME NEW S, NEW q \in Seq(S), NEW x \in S
    PROVE  Append(q, x) # <<>>
  <1>1. Len(Append(q, x)) = Len(q) + 1 /\ Len(q) \in Nat
    OBVIOUS
  <1>2. Len(<<>>) = 0
    OBVIOUS
  <1> QED BY <1>1, <1>2

\* Sequences: the empty one is one of any set.
LEMMA EmptyType ==
    ASSUME NEW S
    PROVE  <<>> \in Seq(S)
  OBVIOUS

\* Sequences: the elements are of the set.
LEMMA ElementOf ==
    ASSUME NEW S, NEW q \in Seq(S), NEW i \in DOMAIN q
    PROVE  q[i] \in S
  OBVIOUS

\* Sequences: one that is not empty has its head at 1.
LEMMA HasElement ==
    ASSUME NEW S, NEW q \in Seq(S)
    PROVE  /\ q # <<>> <=> DOMAIN q # {}
           /\ q # <<>> => 1 \in DOMAIN q /\ Head(q) = q[1]
  OBVIOUS

\* A pipe that hands over its first frame.
LEMMA FramesTail ==
    ASSUME Shape, NEW e \in Engines, down[e] # <<>>
    PROVE  /\ Head(down[e]) \in Frames
           /\ [down EXCEPT ![e] = Tail(@)] \in [Engines -> Seq(Frames)]
  BY HeadAndTail DEF Shape

\* Freeing a slot leaves slots.
LEMMA ReleasedType ==
    ASSUME Shape, NEW m \in Msgs
    PROVE  Released(m) \in [Sessions -> Msgs \cup {"none"}]
  BY DEF Shape, Released

\* The initial states have their shape.
LEMMA ShapeInit == Init => Shape
  <1> SUFFICES ASSUME Init PROVE Shape
    OBVIOUS
  <1> USE DEF Init, WireInit, OutboxInit, IntakeInit
  <1>1. Shape
    BY DEF Shape, Frames, RowStates, Bubbles, Taps
  <1> QED BY <1>1

\* The app's steps about one message keep the shape.
LEMMA ShapeOfMsgSteps ==
    ASSUME Shape, NEW m \in Msgs, UNCHANGED intakeVars,
           \/ SendText(m) \/ RetrySend(m) \/ DiscardSend(m)
           \/ AckTimeout(m) \/ TransferResult(m) \/ Flush(m)
           \/ Age(m) \/ AdmitRow(m)
    PROVE  Shape'
  <1> USE DEF Shape, wireVars, intakeVars, RowStates, Bubbles, Taps
  <1>1. CASE SendText(m)
    BY <1>1 DEF SendText
  <1>2. CASE RetrySend(m)
    BY <1>2 DEF RetrySend
  <1>3. CASE DiscardSend(m)
    BY <1>3 DEF DiscardSend, Settled, Released
  <1>4. CASE AckTimeout(m)
    <2>1. \/ UNCHANGED <<slot, live>>
          \/ slot' = Released(m) /\ live' = [live EXCEPT ![m] = IF @ = "inflight" THEN "queued" ELSE @]
      BY <1>4 DEF AckTimeout
    <2>2. UNCHANGED <<up, down, held, disk, bubble, tapped>>
      BY <1>4 DEF AckTimeout
    <2>3. live' \in [Msgs -> RowStates]
      <3>1. live' = live \/ live' = [live EXCEPT ![m] = "queued"]
        <4>1. CASE live[m] = "inflight"
          BY <2>1, <4>1
        <4>2. CASE live[m] # "inflight"
          BY <2>1, <4>2
        <4> QED BY <4>1, <4>2
      <3> QED BY <3>1
    <2>4. slot' \in [Sessions -> Msgs \cup {"none"}]
      BY <2>1, ReleasedType
    <2> QED BY <2>2, <2>3, <2>4
  <1>5. CASE TransferResult(m)
    BY <1>5 DEF TransferResult
  <1>6. CASE Flush(m)
    BY <1>6 DEF Flush
  <1>7. CASE Age(m)
    BY <1>7 DEF Age
  <1>8. CASE AdmitRow(m)
    BY <1>8 DEF AdmitRow, Adopt, Settled, Released
  <1> QED BY <1>1, <1>2, <1>3, <1>4, <1>5, <1>6, <1>7, <1>8

\* The app's steps about one engine keep the shape.
LEMMA ShapeOfEngineSteps ==
    ASSUME Shape, NEW e \in Engines, UNCHANGED intakeVars,
           \/ DrainSend(e) \/ DrainIdle(e) \/ RetryTimer(e)
           \/ Receive(e) \/ Seal(e) \/ Settle(e) \/ NoteDown(e)
    PROVE  Shape'
  <1> USE WireAssumption DEF Shape, wireVars, intakeVars, RowStates, Bubbles, Taps
  <1>1. CASE DrainSend(e)
    <2>1. PICK m \in Msgs : Expire(m) \/ Write(m, e) \/ Hold(m, e)
      BY <1>1 DEF DrainSend
    <2>2. UNCHANGED <<disk, tapped>>
      BY <1>1 DEF DrainSend
    <2>3. CASE Expire(m)
      BY <2>2, <2>3 DEF Expire
    <2> Painted(m) \in [Msgs -> Bubbles]
      BY DEF Painted
    <2>4. CASE Write(m, e)
      <3>1. /\ live' = [live EXCEPT ![m] = "inflight"]
            /\ slot' = [slot EXCEPT ![SessionOf[m]] = m]
            /\ up' = [up EXCEPT ![e] = Append(@, m)]
            /\ bubble' = Painted(m)
            /\ UNCHANGED <<down, held>>
        BY <2>4 DEF Write
      <3>2. up' \in [Engines -> Seq(Msgs)]
        BY <3>1
      <3> QED BY <2>2, <3>1, <3>2
    <2>5. CASE Hold(m, e)
      <3>1. /\ held' = [held EXCEPT ![e] = Append(@, m)]
            /\ bubble' = Painted(m)
            /\ UNCHANGED <<up, down, live, slot>>
        BY <2>5 DEF Hold
      <3>2. held' \in [Engines -> Seq(Msgs)]
        BY <3>1
      <3> QED BY <2>2, <3>1, <3>2
    <2> QED BY <2>1, <2>3, <2>4, <2>5
  <1>2. CASE DrainIdle(e)
    BY <1>2 DEF DrainIdle
  <1>3. CASE RetryTimer(e)
    BY <1>3 DEF RetryTimer
  <1>4. CASE Receive(e)
    <2>1. /\ down[e] # <<>> /\ down' = [down EXCEPT ![e] = Tail(@)]
          /\ UNCHANGED <<up, disk, held, tapped>>
      BY <1>4 DEF Receive
    <2>2. PICK c \in Msgs : OnAck(c) \/ OnRefusal(c) \/ Adopt(c)
      BY <1>4, <2>1, FramesTail DEF Receive, Frames
    <2>3. live' \in [Msgs -> RowStates]
      BY <2>2 DEF OnAck, OnRefusal, Adopt, Settled, Failed
    <2>4. bubble' \in [Msgs -> Bubbles]
      <3>1. \E w \in Bubbles : bubble' = [bubble EXCEPT ![c] = w]
        <4>1. CASE OnAck(c)
          BY <4>1 DEF OnAck
        <4>2. CASE OnRefusal(c)
          BY <4>2 DEF OnRefusal
        <4>3. CASE Adopt(c)
          BY <4>3 DEF Adopt
        <4> QED BY <2>2, <4>1, <4>2, <4>3
      <3> QED BY <3>1
    <2>5. slot' \in [Sessions -> Msgs \cup {"none"}]
      <3>1. slot' = Released(c)
        BY <2>2 DEF OnAck, OnRefusal, Adopt, Settled, Failed
      <3> QED BY <3>1, ReleasedType
    <2>6. down' \in [Engines -> Seq(Frames)]
      BY <2>1, FramesTail
    <2> QED BY <2>1, <2>3, <2>4, <2>5, <2>6
  <1>5. CASE Seal(e)
    <2>1. /\ up' = [up EXCEPT ![e] = held[e]]
          /\ held' = [held EXCEPT ![e] = <<>>]
          /\ UNCHANGED <<down, live, disk, bubble, slot, tapped>>
      BY <1>5 DEF Seal
    <2>2. held' \in [Engines -> Seq(Msgs)] /\ up' \in [Engines -> Seq(Msgs)]
      BY <2>1
    <2> QED BY <2>1, <2>2
  <1>6. CASE Settle(e)
    BY <1>6 DEF Settle
  <1>7. CASE NoteDown(e)
    BY <1>7 DEF NoteDown, OwedAgain
  <1> QED BY <1>1, <1>2, <1>3, <1>4, <1>5, <1>6, <1>7

\* The engine's answer leaves a pipe of frames.
LEMMA AnswerType ==
    ASSUME Shape, NEW e \in Engines, NEW open \in BOOLEAN, NEW m \in Msgs,
           NEW t \in {"ack", "nack", "send-failed", "echo"}, Answer(e, open, t, m)
    PROVE  down' \in [Engines -> Seq(Frames)]
  <1> DEFINE f == [t |-> t, cid |-> m]
  <1>1. f \in Frames
    BY DEF Frames
  <1>2. down' = down \/ down' = [down EXCEPT ![e] = Append(@, f)]
    BY DEF Answer
  <1>3. down[e] \in Seq(Frames)
    BY DEF Shape
  <1> HIDE DEF f
  <1>4. Append(down[e], f) \in Seq(Frames)
    BY <1>1, <1>3, Appended
  <1> QED BY <1>2, <1>4 DEF Shape

\* The head of a chain, and the chain without it.
LEMMA HeadOfChain ==
    ASSUME Shape, NEW s \in Sessions, chain[s] # <<>>
    PROVE  /\ Head(chain[s]) \in [id : Msgs, open : BOOLEAN]
           /\ Dequeued(s) \in [Sessions -> Seq([id : Msgs, open : BOOLEAN])]
  <1>1. chain[s] \in Seq([id : Msgs, open : BOOLEAN])
    BY DEF Shape
  <1>2. Head(chain[s]) \in [id : Msgs, open : BOOLEAN] /\ Tail(chain[s]) \in Seq([id : Msgs, open : BOOLEAN])
    BY <1>1, HeadAndTail
  <1> QED BY <1>2 DEF Shape, Dequeued

\* A closed socket changes no chain's messages.
LEMMA ClosedChains ==
    ASSUME Shape, NEW closed, SocketsClosed(closed)
    PROVE  /\ chain' \in [Sessions -> Seq([id : Msgs, open : BOOLEAN])]
           /\ \A s \in Sessions :
                /\ DOMAIN chain'[s] = DOMAIN chain[s]
                /\ \A i \in DOMAIN chain[s] : chain'[s][i].id = chain[s][i].id
                /\ chain[s] # <<>> => chain'[s] # <<>>
  <1> DEFINE C == [id : Msgs, open : BOOLEAN]
             shut(s) == [i \in DOMAIN chain[s] |-> [chain[s][i] EXCEPT !.open = FALSE]]
  <1>1. ASSUME NEW s \in Sessions
        PROVE  /\ shut(s) \in Seq(C) /\ DOMAIN shut(s) = DOMAIN chain[s]
               /\ \A i \in DOMAIN chain[s] : shut(s)[i].id = chain[s][i].id
    <2>1. chain[s] \in Seq(C)
      BY DEF Shape
    <2>2. DOMAIN chain[s] = 1..Len(chain[s]) /\ Len(chain[s]) \in Nat
      BY <2>1
    <2>3. ASSUME NEW i \in DOMAIN chain[s]
          PROVE  shut(s)[i] \in C /\ shut(s)[i].id = chain[s][i].id
      <3>1. chain[s][i] \in C
        BY <2>1, ElementOf
      <3>2. [chain[s][i] EXCEPT !.open = FALSE] \in C
            /\ [chain[s][i] EXCEPT !.open = FALSE].id = chain[s][i].id
        BY <3>1
      <3> QED BY <3>2
    <2>4. shut(s) \in [1..Len(chain[s]) -> C]
      BY <2>2, <2>3
    <2>5. shut(s) \in Seq(C)
      BY <2>2, <2>4
    <2> QED BY <2>3, <2>5
  <1>2. chain' = [s \in Sessions |-> IF EngineOf[s] \notin closed THEN chain[s] ELSE shut(s)]
    BY DEF SocketsClosed
  <1>3. \A s \in Sessions : chain[s] \in Seq(C)
    BY DEF Shape
  <1>4. ASSUME NEW s \in Sessions
        PROVE  /\ chain'[s] \in Seq(C) /\ DOMAIN chain'[s] = DOMAIN chain[s]
               /\ \A i \in DOMAIN chain[s] : chain'[s][i].id = chain[s][i].id
    <2> HIDE DEF shut, C
    <2>1. chain'[s] = chain[s] \/ chain'[s] = shut(s)
      BY <1>2
    <2> QED BY <1>1, <1>3, <2>1
  <1>5. ASSUME NEW s \in Sessions, chain[s] # <<>>
        PROVE  chain'[s] # <<>>
    <2>1. DOMAIN chain'[s] # {} /\ chain'[s] \in Seq(C)
      BY <1>3, <1>4, <1>5, HasElement
    <2> QED BY <2>1, HasElement
  <1> QED BY <1>2, <1>4, <1>5

\* onUtterance keeps the shape.
LEMMA ShapeOfTake ==
    ASSUME Shape, NEW e \in Engines, Take(e), UNCHANGED outboxVars
    PROVE  Shape'
  <1> DEFINE m == Head(up[e])
             s == SessionOf[m]
             C == [id : Msgs, open : BOOLEAN]
  <1>1. up[e] # <<>> /\ up' = [up EXCEPT ![e] = Tail(@)] /\ UNCHANGED <<typed, chat>>
    BY DEF Take
  <1>2. m \in Msgs /\ up' \in [Engines -> Seq(Msgs)] /\ s \in Sessions
    BY <1>1, HeadAndTail, WireAssumption DEF Shape
  <1>3. \E t \in {"ack", "nack", "send-failed", "echo"} : Answer(e, TRUE, t, m)
    BY DEF Take
  <1>4. down' \in [Engines -> Seq(Frames)]
    BY <1>2, <1>3, AnswerType
  <1>5. promised' \subseteq Msgs
    BY <1>2 DEF Shape, Take
  <1>6. chain' = chain \/ chain' = [chain EXCEPT ![s] = Append(@, [id |-> m, open |-> TRUE])]
    BY DEF Take
  <1>7. chain[s] \in Seq(C) /\ [id |-> m, open |-> TRUE] \in C
    BY <1>2 DEF Shape
  <1>8. Append(chain[s], [id |-> m, open |-> TRUE]) \in Seq(C) \ {<<>>}
    BY <1>7, Appended, NeverEmpty
  <1>9. chain' \in [Sessions -> Seq(C)] /\ \A r \in Sessions : chain[r] # <<>> => chain'[r] # <<>>
    BY <1>2, <1>6, <1>8 DEF Shape
  <1> QED BY <1>1, <1>2, <1>4, <1>5, <1>9 DEF Shape, outboxVars

\* The steps of a session's chain keep the shape.
LEMMA ShapeOfChainSteps ==
    ASSUME Shape, NEW s \in Sessions, UNCHANGED outboxVars,
           \/ TypeHead(s) \/ DropHead(s) \/ ForgetHead(s)
           \/ Commit(s) \/ SessionFlips(s)
    PROVE  Shape'
  <1> USE DEF outboxVars
  <1>e. EngineOf[s] \in Engines
    BY WireAssumption
  <1>1. CASE TypeHead(s)
    BY <1>1 DEF TypeHead, Shape, wireVars
  <1>2. CASE DropHead(s)
    <2>1. /\ chain[s] # <<>> /\ s \notin typed
          /\ Answer(EngineOf[s], Head(chain[s]).open, "send-failed", Head(chain[s]).id)
          /\ chain' = Dequeued(s)
          /\ UNCHANGED <<up, typed, chat, promised>>
      BY <1>2 DEF DropHead
    <2>2. Head(chain[s]).open \in BOOLEAN /\ Head(chain[s]).id \in Msgs
      BY <2>1, HeadOfChain
    <2>3. down' \in [Engines -> Seq(Frames)]
      BY <1>e, <2>1, <2>2, AnswerType
    <2>4. chain' \in [Sessions -> Seq([id : Msgs, open : BOOLEAN])]
      BY <2>1, HeadOfChain
    <2>5. \A r \in typed : chain'[r] = chain[r]
      BY <2>1 DEF Dequeued, Shape
    <2> QED BY <2>1, <2>3, <2>4, <2>5 DEF Shape
  <1>3. CASE ForgetHead(s)
    <2>1. /\ chain[s] # <<>> /\ s \notin typed
          /\ chain' = Dequeued(s)
          /\ UNCHANGED <<up, down, typed, chat, promised>>
      BY <1>3 DEF ForgetHead, wireVars
    <2>2. chain' \in [Sessions -> Seq([id : Msgs, open : BOOLEAN])]
      BY <2>1, HeadOfChain
    <2>3. \A r \in typed : chain'[r] = chain[r]
      BY <2>1 DEF Dequeued, Shape
    <2> QED BY <2>1, <2>2, <2>3 DEF Shape
  <1>4. CASE Commit(s)
    <2> DEFINE m == Head(chain[s]).id
    <2>1. /\ s \in typed /\ typed' = typed \ {s}
          /\ chat' = [chat EXCEPT ![s] = Append(@, m)]
          /\ chain' = Dequeued(s)
          /\ Answer(EngineOf[s], PipeUp(EngineOf[s]), "echo", m)
          /\ UNCHANGED <<up, promised>>
      BY <1>4 DEF Commit
    <2>2. chain[s] # <<>>
      BY <2>1 DEF Shape
    <2>3. m \in Msgs
      BY <2>2, HeadOfChain
    <2>4. PipeUp(EngineOf[s]) \in BOOLEAN
      BY DEF PipeUp
    <2>5. down' \in [Engines -> Seq(Frames)]
      BY <1>e, <2>1, <2>3, <2>4, AnswerType
    <2>6. chain' \in [Sessions -> Seq([id : Msgs, open : BOOLEAN])]
      BY <2>1, <2>2, HeadOfChain
    <2>7. \A r \in typed' : chain'[r] = chain[r]
      BY <2>1 DEF Dequeued, Shape
    <2>8. Append(chat[s], m) \in Seq(Msgs)
      BY <2>3, Appended DEF Shape
    <2>9. chat' \in [Sessions -> Seq(Msgs)]
      BY <2>1, <2>8 DEF Shape
    <2> QED BY <2>1, <2>5, <2>6, <2>7, <2>9 DEF Shape
  <1>5. CASE SessionFlips(s)
    BY <1>5 DEF SessionFlips, Shape
  <1> QED BY <1>1, <1>2, <1>3, <1>4, <1>5

\* A pipe that closes keeps the shape of the pipes.
LEMMA ShapeOfCut ==
    ASSUME Shape, NEW e \in Engines, Cut(e)
    PROVE  up' \in [Engines -> Seq(Msgs)] /\ down' \in [Engines -> Seq(Frames)]
  BY DEF Shape, Cut

\* What interferes keeps the shape.
LEMMA ShapeOfInterference ==
    ASSUME Shape,
           \/ \E e \in Engines : PipeDrops(e) /\ UNCHANGED outboxVars
           \/ \E e \in Engines : EngineDies(e) /\ UNCHANGED outboxVars
           \/ \E e \in Engines : LoseFrame(e) /\ UNCHANGED <<outboxVars, intakeVars>>
           \/ PageDies
    PROVE  Shape'
  <1>1. ASSUME NEW e \in Engines, PipeDrops(e), UNCHANGED outboxVars
        PROVE  Shape'
    BY <1>1, ShapeOfCut, ClosedChains DEF PipeDrops, Shape, outboxVars
  <1>2. ASSUME NEW e \in Engines, EngineDies(e), UNCHANGED outboxVars
        PROVE  Shape'
    <2>1. up' \in [Engines -> Seq(Msgs)] /\ down' \in [Engines -> Seq(Frames)]
      BY <1>2, ShapeOfCut DEF EngineDies, Shape
    <2>2. /\ chain' = [s \in Sessions |-> IF EngineOf[s] = e THEN <<>> ELSE chain[s]]
          /\ typed' = {s \in typed : EngineOf[s] # e}
          /\ UNCHANGED <<chat, promised>>
      BY <1>2 DEF EngineDies
    <2> DEFINE C == [id : Msgs, open : BOOLEAN]
    <2>e. chain \in [Sessions -> Seq(C)]
      BY DEF Shape
    <2> HIDE DEF C
    <2>f. chain' \in [Sessions -> Seq(C)]
      BY <2>2, <2>e, EmptyType
    <2>3. chain' \in [Sessions -> Seq([id : Msgs, open : BOOLEAN])]
      BY <2>f DEF C
    <2>4. \A r \in typed' : chain'[r] = chain[r]
      BY <2>2 DEF Shape
    <2> QED BY <1>2, <2>1, <2>2, <2>3, <2>4 DEF Shape, outboxVars
  <1>3. ASSUME NEW e \in Engines, LoseFrame(e), UNCHANGED <<outboxVars, intakeVars>>
        PROVE  Shape'
    <2>1. up' \in [Engines -> Seq(Msgs)] /\ down' \in [Engines -> Seq(Frames)]
      <3>1. CASE up[e] # <<>> /\ up' = [up EXCEPT ![e] = Tail(@)] /\ UNCHANGED down
        <4>1. Tail(up[e]) \in Seq(Msgs)
          BY <3>1, HeadAndTail DEF Shape
        <4> QED BY <3>1, <4>1 DEF Shape
      <3>2. CASE down[e] # <<>> /\ down' = [down EXCEPT ![e] = Tail(@)] /\ UNCHANGED up
        BY <3>2, FramesTail DEF Shape
      <3> QED BY <1>3, <3>1, <3>2 DEF LoseFrame
    <2> QED BY <1>3, <2>1 DEF Shape, outboxVars, intakeVars
  <1>4. ASSUME PageDies
        PROVE  Shape'
    <2>1. SocketsClosed(Engines) /\ UNCHANGED <<typed, chat, promised>>
      BY <1>4 DEF PageDies
    <2>2. /\ live' = Hydrated
          /\ bubble' = [m \in Msgs |-> CASE Hydrated[m] = "queued" -> "sending"
                                          [] Hydrated[m] = "failed" -> "failed"
                                          [] OTHER -> "none"]
          /\ slot' = [s \in Sessions |-> "none"]
          /\ held' = [e \in Engines |-> <<>>]
          /\ up' = [e \in Engines |-> <<>>]
          /\ down' = [e \in Engines |-> <<>>]
          /\ UNCHANGED <<disk, tapped>>
      BY <1>4 DEF PageDies, TabDies
    <2>3. live' \in [Msgs -> RowStates]
      BY <2>2 DEF Hydrated, Shape, RowStates
    <2>4. bubble' \in [Msgs -> Bubbles]
      BY <2>2 DEF Bubbles
    <2>5. /\ up' \in [Engines -> Seq(Msgs)] /\ down' \in [Engines -> Seq(Frames)]
          /\ held' \in [Engines -> Seq(Msgs)]
          /\ slot' \in [Sessions -> Msgs \cup {"none"}]
      BY <2>2
    <2>6. /\ chain' \in [Sessions -> Seq([id : Msgs, open : BOOLEAN])]
          /\ typed' \subseteq {s \in Sessions : chain'[s] # <<>>}
      BY <2>1, ClosedChains DEF Shape
    <2> QED BY <2>1, <2>2, <2>3, <2>4, <2>5, <2>6 DEF Shape
  <1> QED BY <1>1, <1>2, <1>3, <1>4

\* Shape is inductive.
LEMMA ShapeKept ==
    ASSUME Shape, [Next]_vars
    PROVE  Shape'
  <1>1. CASE UNCHANGED vars
    BY <1>1 DEF vars, Shape, wireVars, outboxVars, intakeVars
  <1> QED BY <1>1, Steps, ShapeOfMsgSteps, ShapeOfEngineSteps, ShapeOfTake,
             ShapeOfChainSteps, ShapeOfInterference

-----------------------------------------------------------------------------
(* Slots and rows in flight.  Beside InflightHoldsSlot itself the induction *)
(* needs that a slot is its message's own session's, and that no failed    *)
(* bubble, which a tap could requeue, has its row in flight.               *)
Slots ==
    /\ InflightHoldsSlot
    /\ \A s \in Sessions : slot[s] # "none" => SessionOf[slot[s]] = s
    /\ \A m \in Msgs : bubble[m] = "failed" => live[m] # "inflight"

\* A row leaves its flight as its slot is released.
LEMMA SlotsReleased ==
    ASSUME Shape, Slots, NEW m \in Msgs, slot' = Released(m),
           live' \in [Msgs -> RowStates], live'[m] # "inflight",
           \A n \in Msgs \ {m} : live'[n] = live[n]
    PROVE  /\ InflightHoldsSlot'
           /\ \A s \in Sessions : slot'[s] # "none" => SessionOf[slot'[s]] = s
  <1>1. \A s \in Sessions : slot'[s] = IF slot[s] = m THEN "none" ELSE slot[s]
    BY DEF Released
  <1>2. "none" \notin Msgs /\ \A n \in Msgs : SessionOf[n] \in Sessions
    BY WireAssumption
  <1>3. \A s \in Sessions : slot'[s] # "none" => SessionOf[slot'[s]] = s
    BY <1>1 DEF Slots
  <1>4. ASSUME NEW n \in Msgs
        PROVE  live'[n] = "inflight" <=> slot'[SessionOf[n]] = n
    <2>1. CASE n = m
      BY <1>1, <1>2, <2>1
    <2>2. CASE n # m
      BY <1>1, <1>2, <2>2 DEF Slots, InflightHoldsSlot
    <2> QED BY <2>1, <2>2
  <1> QED BY <1>3, <1>4 DEF InflightHoldsSlot

\* Steps that leave rows, slots and bubbles alone.
LEMMA SlotsUntouched ==
    ASSUME Slots, UNCHANGED <<live, slot, bubble>>
    PROVE  Slots'
  BY DEF Slots, InflightHoldsSlot

\* One row changes from one state outside the flight to another.
LEMMA SlotsAside ==
    ASSUME Shape, Slots, UNCHANGED slot, NEW m \in Msgs, NEW w \in RowStates \ {"inflight"},
           live[m] # "inflight", live' = [live EXCEPT ![m] = w],
           \A n \in Msgs \ {m} : bubble'[n] = bubble[n]
    PROVE  Slots'
  <1>1. \A n \in Msgs : live'[n] = "inflight" <=> live[n] = "inflight"
    BY DEF Shape
  <1>2. InflightHoldsSlot'
    BY <1>1 DEF Slots, InflightHoldsSlot
  <1>3. live'[m] # "inflight"
    BY DEF Shape
  <1> QED BY <1>1, <1>2, <1>3 DEF Slots

\* The app's steps about one message keep slots and rows in step.
LEMMA SlotsOfMsgSteps ==
    ASSUME Shape, Shape', Slots, NEW m \in Msgs,
           \/ SendText(m) \/ RetrySend(m) \/ DiscardSend(m)
           \/ AckTimeout(m) \/ TransferResult(m) \/ Flush(m)
           \/ Age(m) \/ AdmitRow(m)
    PROVE  Slots'
  <1>1. CASE SendText(m)
    <2>1. /\ live[m] # "inflight" /\ live' = [live EXCEPT ![m] = "queued"]
          /\ UNCHANGED slot /\ bubble' = [bubble EXCEPT ![m] = "sending"]
      BY <1>1 DEF SendText
    <2> QED BY <2>1, SlotsAside DEF Shape, RowStates
  <1>2. CASE RetrySend(m)
    <2>1. /\ live[m] # "inflight" /\ live' = [live EXCEPT ![m] = "queued"]
          /\ UNCHANGED slot /\ bubble' = [bubble EXCEPT ![m] = "sending"]
      BY <1>2 DEF RetrySend, Slots
    <2> QED BY <2>1, SlotsAside DEF Shape, RowStates
  <1>3. CASE DiscardSend(m)
    <2>1. /\ slot' = Released(m) /\ live' = [live EXCEPT ![m] = "absent"]
          /\ bubble' = [bubble EXCEPT ![m] = "none"]
      BY <1>3 DEF DiscardSend, Settled
    <2>2. live'[m] = "absent" /\ \A n \in Msgs \ {m} : live'[n] = live[n] /\ bubble'[n] = bubble[n]
      BY <2>1 DEF Shape
    <2>3. /\ InflightHoldsSlot'
          /\ \A s \in Sessions : slot'[s] # "none" => SessionOf[slot'[s]] = s
      BY <2>1, <2>2, SlotsReleased DEF Shape
    <2> QED BY <2>2, <2>3 DEF Slots
  <1>4. CASE AckTimeout(m)
    <2>1. CASE bubble[m] = "sending"
      <3>1. /\ slot' = Released(m) /\ UNCHANGED bubble
            /\ live' = [live EXCEPT ![m] = IF @ = "inflight" THEN "queued" ELSE @]
        BY <1>4, <2>1 DEF AckTimeout
      <3>2. live'[m] # "inflight" /\ \A n \in Msgs \ {m} : live'[n] = live[n]
        BY <3>1 DEF Shape
      <3>3. /\ InflightHoldsSlot'
            /\ \A s \in Sessions : slot'[s] # "none" => SessionOf[slot'[s]] = s
        BY <3>1, <3>2, SlotsReleased DEF Shape
      <3> QED BY <3>1, <3>2, <3>3 DEF Slots
    <2>2. CASE bubble[m] # "sending"
      BY <1>4, <2>2, SlotsUntouched DEF AckTimeout
    <2> QED BY <2>1, <2>2
  <1>5. CASE TransferResult(m)
    BY <1>5, SlotsUntouched DEF TransferResult
  <1>6. CASE Flush(m)
    BY <1>6, SlotsUntouched DEF Flush
  <1>7. CASE Age(m)
    BY <1>7, SlotsUntouched DEF Age
  <1>8. CASE AdmitRow(m)
    <2>1. /\ slot' = Released(m) /\ live' = [live EXCEPT ![m] = "absent"]
          /\ bubble' = [bubble EXCEPT ![m] = "delivered"]
      BY <1>8 DEF AdmitRow, Adopt, Settled
    <2>2. live'[m] = "absent" /\ \A n \in Msgs \ {m} : live'[n] = live[n] /\ bubble'[n] = bubble[n]
      BY <2>1 DEF Shape
    <2>3. /\ InflightHoldsSlot'
          /\ \A s \in Sessions : slot'[s] # "none" => SessionOf[slot'[s]] = s
      BY <2>1, <2>2, SlotsReleased DEF Shape
    <2> QED BY <2>2, <2>3 DEF Slots
  <1> QED BY <1>1, <1>2, <1>3, <1>4, <1>5, <1>6, <1>7, <1>8

\* The app's steps about one engine keep slots and rows in step.
LEMMA SlotsOfEngineSteps ==
    ASSUME Shape, Shape', Slots, NEW e \in Engines,
           \/ DrainSend(e) \/ DrainIdle(e) \/ RetryTimer(e)
           \/ Receive(e) \/ Seal(e) \/ Settle(e) \/ NoteDown(e)
    PROVE  Slots'
  <1>a. "none" \notin Msgs /\ \A n \in Msgs : SessionOf[n] \in Sessions
    BY WireAssumption
  <1>1. CASE DrainSend(e)
    <2>1. PICK m \in Msgs : Eligible(m) /\ (Expire(m) \/ Write(m, e) \/ Hold(m, e))
      BY <1>1 DEF DrainSend
    <2>2. live[m] = "queued" /\ slot[SessionOf[m]] = "none"
      BY <2>1 DEF Eligible
    <2>3. CASE Expire(m)
      BY <2>2, <2>3, SlotsAside DEF Expire, RowStates
    <2>4. CASE Write(m, e)
      <3>1. /\ live' = [live EXCEPT ![m] = "inflight"]
            /\ slot' = [slot EXCEPT ![SessionOf[m]] = m]
            /\ bubble' = Painted(m)
        BY <2>4 DEF Write
      <3>2. bubble'[m] # "failed" /\ \A n \in Msgs \ {m} : bubble'[n] = bubble[n] /\ live'[n] = live[n]
        BY <3>1 DEF Painted, Shape
      <3>3. live'[m] = "inflight" /\ slot'[SessionOf[m]] = m
        BY <1>a, <3>1 DEF Shape
      <3>4. \A s \in Sessions \ {SessionOf[m]} : slot'[s] = slot[s]
        BY <3>1 DEF Shape
      <3>5. ASSUME NEW n \in Msgs
            PROVE  live'[n] = "inflight" <=> slot'[SessionOf[n]] = n
        BY <1>a, <2>2, <3>2, <3>3, <3>4 DEF Slots, InflightHoldsSlot
      <3>6. \A s \in Sessions : slot'[s] # "none" => SessionOf[slot'[s]] = s
        BY <3>3, <3>4 DEF Slots
      <3> QED BY <3>2, <3>5, <3>6 DEF Slots, InflightHoldsSlot
    <2>5. CASE Hold(m, e)
      <3>1. bubble' = Painted(m) /\ UNCHANGED <<live, slot>>
        BY <2>5 DEF Hold
      <3>2. \A n \in Msgs : bubble'[n] = "failed" => bubble[n] = "failed"
        BY <3>1 DEF Painted, Shape
      <3> QED BY <3>1, <3>2 DEF Slots, InflightHoldsSlot
    <2> QED BY <2>1, <2>3, <2>4, <2>5
  <1>2. CASE DrainIdle(e)
    BY <1>2, SlotsUntouched DEF DrainIdle
  <1>3. CASE RetryTimer(e)
    BY <1>3, SlotsUntouched DEF RetryTimer
  <1>4. CASE Receive(e)
    <2>1. PICK c \in Msgs : OnAck(c) \/ OnRefusal(c) \/ Adopt(c)
      BY <1>4, FramesTail DEF Receive, Frames
    <2>2. slot' = Released(c)
      BY <2>1 DEF OnAck, OnRefusal, Adopt, Settled, Failed
    <2>3. \/ live' = [live EXCEPT ![c] = "absent"]
          \/ live' = [live EXCEPT ![c] = IF Owed(@) THEN "failed" ELSE @]
      BY <2>1 DEF OnAck, OnRefusal, Adopt, Settled, Failed
    <2>4. live'[c] # "inflight" /\ \A n \in Msgs \ {c} : live'[n] = live[n]
      BY <2>3 DEF Shape, Owed
    <2>5. \A n \in Msgs \ {c} : bubble'[n] = bubble[n]
      <3>1. CASE OnAck(c)
        BY <3>1 DEF OnAck, Shape
      <3>2. CASE OnRefusal(c)
        BY <3>2 DEF OnRefusal, Shape
      <3>3. CASE Adopt(c)
        BY <3>3 DEF Adopt, Shape
      <3> QED BY <2>1, <3>1, <3>2, <3>3
    <2>6. /\ InflightHoldsSlot'
          /\ \A s \in Sessions : slot'[s] # "none" => SessionOf[slot'[s]] = s
      BY <2>2, <2>4, SlotsReleased DEF Shape
    <2> QED BY <2>4, <2>5, <2>6 DEF Slots
  <1>5. CASE Seal(e)
    BY <1>5, SlotsUntouched DEF Seal
  <1>6. CASE Settle(e)
    BY <1>6, SlotsUntouched DEF Settle
  <1>7. CASE NoteDown(e)
    <2>1. OwedAgain(e) /\ UNCHANGED bubble
      BY <1>7 DEF NoteDown
    <2>2. \A s \in Sessions : slot'[s] = IF EngineOf[s] = e THEN "none" ELSE slot[s]
      BY <2>1 DEF OwedAgain
    <2>3. ASSUME NEW m \in Msgs
          PROVE  live'[m] = IF EngineOf[SessionOf[m]] = e /\ slot[SessionOf[m]] = m THEN "queued" ELSE live[m]
      BY <2>1 DEF OwedAgain, EngineOfMsg, Slots, InflightHoldsSlot, Owed
    <2>4. ASSUME NEW m \in Msgs
          PROVE  live'[m] = "inflight" <=> slot'[SessionOf[m]] = m
      BY <1>a, <2>2, <2>3 DEF Slots, InflightHoldsSlot
    <2>5. \A s \in Sessions : slot'[s] # "none" => SessionOf[slot'[s]] = s
      BY <2>2 DEF Slots
    <2>6. \A m \in Msgs : live'[m] = "inflight" => live[m] = "inflight"
      BY <2>3
    <2> QED BY <2>1, <2>4, <2>5, <2>6 DEF Slots, InflightHoldsSlot
  <1> QED BY <1>1, <1>2, <1>3, <1>4, <1>5, <1>6, <1>7

\* Slots is inductive, given the shapes.
LEMMA SlotsKept ==
    ASSUME Shape, Shape', Slots, [Next]_vars
    PROVE  Slots'
  <1>1. CASE UNCHANGED <<live, slot, bubble>>
    BY <1>1, SlotsUntouched
  <1>2. CASE PageDies
    <2>1. /\ live' = Hydrated
          /\ slot' = [s \in Sessions |-> "none"]
      BY <1>2 DEF PageDies, TabDies
    <2>2. \A m \in Msgs : live'[m] # "inflight"
      BY <2>1 DEF Hydrated
    <2>3. \A m \in Msgs : slot'[SessionOf[m]] # m
      BY <2>1, WireAssumption
    <2> QED BY <2>1, <2>2, <2>3 DEF Slots, InflightHoldsSlot
  <1> QED BY <1>1, <1>2, Steps, SlotsOfMsgSteps, SlotsOfEngineSteps
          DEF vars, outboxVars

(* InflightHoldsSlot: slots and rows in flight agree, so no session's      *)
(* queue stops on a slot nobody frees and no row is forgotten in flight.   *)
THEOREM SlotsAgree == Spec => []InflightHoldsSlot
  <1>1. Init => Shape /\ Slots
    <2>1. Init => Slots
      BY WireAssumption DEF Init, OutboxInit, Slots, InflightHoldsSlot
    <2> QED BY <2>1, ShapeInit
  <1>2. Shape /\ Slots /\ [Next]_vars => (Shape /\ Slots)'
    BY ShapeKept, SlotsKept
  <1>3. Slots => InflightHoldsSlot
    BY DEF Slots
  <1> QED BY <1>1, <1>2, <1>3, PTL DEF Spec

-----------------------------------------------------------------------------
(* The ticks tell the truth, and a message stays on the app's disk until   *)
(* the engine took it.  Both rest on one invariant, Truth: what is said of *)
(* a message anywhere - in a frame, a chain, a row, a bubble - is backed   *)
(* by what the engine did with it.                                         *)

\* An ack or an echo speaks of a message taken, an echo of one in the chat.
FrameTrue(f) ==
    /\ f.t \in {"ack", "echo"} => f.cid \in promised
    /\ f.t = "echo" => Committed(f.cid)

FramesTrue == \A e \in Engines : \A i \in DOMAIN down[e] : FrameTrue(down[e][i])

\* Chains hold what was taken, each message in its own session's.
ChainsTrue ==
    \A s \in Sessions : \A i \in DOMAIN chain[s] :
        chain[s][i].id \in promised /\ SessionOf[chain[s][i].id] = s

ChatTrue == \A m \in Msgs : Committed(m) => m \in promised

\* Of the messages not taken yet, only a discarded one is in no row, and it
\* has no bubble to be retried from.
RowsKept ==
    \A m \in Msgs \ promised :
        /\ disk[m] = "absent" => live[m] = "absent"
        /\ live[m] = "absent" => tapped[m] = "discarded" /\ bubble[m] = "none"

Truth == FramesTrue /\ ChainsTrue /\ ChatTrue /\ RowsKept /\ HonestTicks

-----------------------------------------------------------------------------
\* What the engine took and wrote stays taken and written.
LEMMA Monotone ==
    ASSUME Shape, [Next]_vars
    PROVE  /\ promised \subseteq promised'
           /\ \A m \in Msgs : Committed(m) => Committed(m)'
  <1>1. CASE UNCHANGED chat /\ promised \subseteq promised'
    BY <1>1 DEF Committed
  <1>2. CASE \E s \in Sessions : Commit(s)
    <2>1. PICK s \in Sessions : Commit(s)
      BY <1>2
    <2> DEFINE n == Head(chain[s]).id
    <2>2. chat' = [chat EXCEPT ![s] = Append(@, n)] /\ promised' = promised
      BY <2>1 DEF Commit
    <2>3. chain[s] # <<>>
      BY <2>1 DEF Commit, Shape
    <2>4. n \in Msgs
      BY <2>3, HeadOfChain
    <2> HIDE DEF n
    <2>5. ASSUME NEW m \in Msgs, Committed(m)
          PROVE  Committed(m)'
      <3>1. PICK i \in DOMAIN chat[SessionOf[m]] : chat[SessionOf[m]][i] = m
        BY <2>5 DEF Committed
      <3>2. CASE SessionOf[m] = s
        <4>1. chat[s] \in Seq(Msgs) /\ chat'[s] = Append(chat[s], n)
          BY <2>2 DEF Shape
        <4>2. i \in DOMAIN Append(chat[s], n) /\ Append(chat[s], n)[i] = m
          BY <2>4, <3>1, <3>2, <4>1
        <4> QED BY <3>2, <4>1, <4>2 DEF Committed
      <3>3. CASE SessionOf[m] # s
        BY <2>2, <3>1, <3>3, WireAssumption DEF Committed, Shape
      <3> QED BY <3>2, <3>3
    <2> QED BY <2>2, <2>5
  <1>3. CASE \E e \in Engines : Take(e)
    BY <1>3, <1>1 DEF Take
  <1> QED
    BY <1>1, <1>2, <1>3, Steps
       DEF vars, intakeVars, TypeHead, DropHead, ForgetHead, SessionFlips,
           PipeDrops, EngineDies, PageDies

-----------------------------------------------------------------------------
(* The frames. *)

\* A pipe that keeps, loses or drops its frames, or takes a true one.
Onward(e) ==
    \/ down'[e] = down[e]
    \/ down'[e] = <<>>
    \/ down[e] # <<>> /\ down'[e] = Tail(down[e])
    \/ \E f \in Frames : down'[e] = Append(down[e], f) /\ FrameTrue(f)'

\* A pipe that went onward holds true frames only.
LEMMA FramesOnward ==
    ASSUME Shape, FramesTrue, [Next]_vars, NEW e \in Engines, Onward(e),
           NEW i \in DOMAIN down'[e]
    PROVE  FrameTrue(down[e][i])'
  <1>1. ASSUME NEW f \in Frames, FrameTrue(f)
        PROVE  FrameTrue(f)'
    BY <1>1, Monotone DEF FrameTrue, Frames
  <1>2. down[e] \in Seq(Frames)
    BY DEF Shape
  <1>3. ASSUME NEW j \in DOMAIN down[e]
        PROVE  down[e][j] \in Frames /\ FrameTrue(down[e][j])
    BY <1>2, ElementOf DEF FramesTrue
  <1>4. CASE down'[e] = down[e]
    BY <1>1, <1>3, <1>4 DEF FrameTrue
  <1>5. CASE down'[e] = <<>>
    BY <1>5
  <1>6. CASE down[e] # <<>> /\ down'[e] = Tail(down[e])
    <2>1. i + 1 \in DOMAIN down[e] /\ down'[e][i] = down[e][i + 1]
      BY <1>2, <1>6
    <2>2. PICK g \in Frames : g = down[e][i + 1] /\ FrameTrue(g)'
      BY <1>1, <1>3, <2>1
    <2> QED BY <2>1, <2>2 DEF FrameTrue
  <1>7. CASE \E f \in Frames : down'[e] = Append(down[e], f) /\ FrameTrue(f)'
    <2>1. PICK f \in Frames : down'[e] = Append(down[e], f) /\ FrameTrue(f)'
      BY <1>7
    <2>2. \/ i \in DOMAIN down[e] /\ down'[e][i] = down[e][i]
          \/ down'[e][i] = f
      BY <1>2, <2>1
    <2>3. PICK g \in Frames : g = down'[e][i] /\ FrameTrue(g)'
      BY <1>1, <1>3, <2>1, <2>2
    <2> QED BY <2>3 DEF FrameTrue
  <1> QED BY <1>4, <1>5, <1>6, <1>7 DEF Onward

\* What a chain's head is, when the pane has taken it.
LEMMA TypedHead ==
    ASSUME Shape, ChainsTrue, NEW s \in Sessions, Commit(s)
    PROVE  \E n \in Msgs : /\ n = Head(chain[s]).id
                           /\ n \in promised /\ SessionOf[n] = s
                           /\ Committed(n)'
  <1>1. chain[s] # <<>> /\ chat' = [chat EXCEPT ![s] = Append(@, Head(chain[s]).id)]
    BY DEF Commit, Shape
  <1>2. 1 \in DOMAIN chain[s] /\ Head(chain[s]) = chain[s][1]
    BY <1>1, HasElement DEF Shape
  <1>3. PICK n \in Msgs : n = Head(chain[s]).id
    BY <1>1, HeadOfChain
  <1>4. n \in promised /\ SessionOf[n] = s
    BY <1>2, <1>3 DEF ChainsTrue
  <1>5. chat[s] \in Seq(Msgs) /\ chat'[s] = Append(chat[s], n)
    BY <1>1, <1>3 DEF Shape
  <1>6. Len(chat[s]) + 1 \in DOMAIN Append(chat[s], n) /\ Append(chat[s], n)[Len(chat[s]) + 1] = n
    BY <1>5
  <1>7. Committed(n)'
    BY <1>4, <1>5, <1>6 DEF Committed
  <1> QED BY <1>3, <1>4, <1>7

\* The engine's answer is a true frame, if what it says is so.
LEMMA AnswerOnward ==
    ASSUME Shape, NEW d \in Engines, NEW open \in BOOLEAN, NEW m \in Msgs,
           NEW t \in {"ack", "nack", "send-failed", "echo"}, Answer(d, open, t, m),
           t \in {"ack", "echo"} => m \in promised',
           t = "echo" => Committed(m)',
           NEW e \in Engines
    PROVE  Onward(e)
  <1> DEFINE f == [t |-> t, cid |-> m]
  <1>1. f \in Frames /\ f.t = t /\ f.cid = m
    BY DEF Frames
  <1>2. down' = down \/ down' = [down EXCEPT ![d] = Append(@, f)]
    BY DEF Answer
  <1> HIDE DEF f
  <1>3. PICK g \in Frames : g = f /\ FrameTrue(g)'
    BY <1>1 DEF FrameTrue
  <1>4. down'[e] = down[e] \/ down'[e] = Append(down[e], g)
    BY <1>2, <1>3 DEF Shape
  <1> QED BY <1>3, <1>4 DEF Onward

\* Every step moves every pipe onward.
LEMMA PipesOnward ==
    ASSUME Shape, ChainsTrue, [Next]_vars, NEW e \in Engines
    PROVE  Onward(e)
  <1>1. CASE UNCHANGED down
    BY <1>1 DEF Onward
  <1>2. ASSUME NEW d \in Engines, Take(d)
        PROVE  Onward(e)
    <2> DEFINE m == Head(up[d])
    <2>1. up[d] # <<>>
      BY <1>2 DEF Take
    <2>2. m \in Msgs
      BY <2>1, HeadAndTail DEF Shape
    <2>3. \E t \in {"ack", "nack", "send-failed"} :
             Answer(d, TRUE, t, m) /\ (t = "ack" => m \in promised')
      BY <1>2 DEF Take
    <2> QED BY <2>2, <2>3, AnswerOnward
  <1>3. ASSUME NEW s \in Sessions, DropHead(s)
        PROVE  Onward(e)
    <2>1. /\ chain[s] # <<>>
          /\ Answer(EngineOf[s], Head(chain[s]).open, "send-failed", Head(chain[s]).id)
      BY <1>3 DEF DropHead
    <2>2. Head(chain[s]).open \in BOOLEAN /\ Head(chain[s]).id \in Msgs
      BY <2>1, HeadOfChain
    <2> QED BY <2>1, <2>2, AnswerOnward, WireAssumption
  <1>4. ASSUME NEW s \in Sessions, Commit(s)
        PROVE  Onward(e)
    <2>1. /\ Answer(EngineOf[s], PipeUp(EngineOf[s]), "echo", Head(chain[s]).id)
          /\ chain[s] # <<>> /\ promised' = promised
      BY <1>4 DEF Commit, Shape
    <2>2. PipeUp(EngineOf[s]) \in BOOLEAN
      BY DEF PipeUp
    <2>3. PICK n \in Msgs : n = Head(chain[s]).id /\ n \in promised /\ Committed(n)'
      BY <1>4, TypedHead
    <2> QED BY <2>1, <2>2, <2>3, AnswerOnward, WireAssumption
  <1>5. ASSUME NEW d \in Engines, Receive(d) \/ LoseFrame(d)
        PROVE  Onward(e)
    <2>1. \/ UNCHANGED down
          \/ down[d] # <<>> /\ down' = [down EXCEPT ![d] = Tail(@)]
      BY <1>5 DEF Receive, LoseFrame
    <2> QED BY <2>1 DEF Onward, Shape
  <1>6. ASSUME NEW d \in Engines, PipeDrops(d) \/ EngineDies(d)
        PROVE  Onward(e)
    <2>1. UNCHANGED down \/ down' = [down EXCEPT ![d] = <<>>]
      BY <1>6 DEF PipeDrops, EngineDies, Cut
    <2> QED BY <2>1 DEF Onward, Shape
  <1>7. CASE PageDies
    BY <1>7 DEF PageDies, TabDies, Onward
  <1>8. ASSUME NEW d \in Engines, \/ DrainSend(d) \/ DrainIdle(d) \/ RetryTimer(d)
                                  \/ Seal(d) \/ Settle(d) \/ NoteDown(d)
        PROVE  UNCHANGED down
    BY <1>8 DEF DrainSend, Expire, Write, Hold, DrainIdle, RetryTimer, Seal, Settle,
                NoteDown, wireVars
  <1>9. ASSUME NEW m \in Msgs, \/ SendText(m) \/ RetrySend(m) \/ DiscardSend(m)
                               \/ AckTimeout(m) \/ TransferResult(m) \/ Flush(m)
                               \/ Age(m) \/ AdmitRow(m)
        PROVE  UNCHANGED down
    BY <1>9 DEF SendText, RetrySend, DiscardSend, AckTimeout, TransferResult, Flush,
                Age, AdmitRow, wireVars
  <1>10. ASSUME NEW s \in Sessions, TypeHead(s) \/ ForgetHead(s) \/ SessionFlips(s)
         PROVE  UNCHANGED down
    BY <1>10 DEF TypeHead, ForgetHead, SessionFlips, wireVars
  <1> QED
    BY <1>1, <1>2, <1>3, <1>4, <1>5, <1>6, <1>7, <1>8, <1>9, <1>10, Steps
       DEF vars, wireVars

\* No step puts an untrue frame on a pipe.
LEMMA FramesKept ==
    ASSUME Shape, Truth, [Next]_vars
    PROVE  FramesTrue'
  <1>1. ASSUME NEW e \in Engines, NEW i \in DOMAIN down'[e]
        PROVE  FrameTrue(down[e][i])'
    BY FramesOnward, PipesOnward DEF Truth
  <1> QED BY <1>1 DEF FramesTrue

-----------------------------------------------------------------------------
(* The chains and the chat. *)

\* No step puts a message into a chain that was not taken.
LEMMA ChainsKept ==
    ASSUME Shape, Truth, [Next]_vars
    PROVE  ChainsTrue'
  <1>a. \A s \in Sessions : \A i \in DOMAIN chain[s] :
            chain[s][i].id \in promised' /\ SessionOf[chain[s][i].id] = s
    BY Monotone DEF Truth, ChainsTrue
  <1>1. CASE UNCHANGED chain
    BY <1>a, <1>1 DEF ChainsTrue
  <1>2. ASSUME NEW e \in Engines, Take(e)
        PROVE  ChainsTrue'
    <2> DEFINE m == Head(up[e])
               s == SessionOf[m]
               C == [id : Msgs, open : BOOLEAN]
    <2>1. up[e] # <<>>
      BY <1>2 DEF Take
    <2>2. m \in Msgs /\ s \in Sessions
      BY <2>1, HeadAndTail, WireAssumption DEF Shape
    <2>3. PICK x \in C : x = [id |-> m, open |-> TRUE]
      BY <2>2
    <2>4. CASE m \in promised' /\ chain' = [chain EXCEPT ![s] = Append(@, x)]
      <3>1. chain[s] \in Seq(C) /\ chain'[s] = Append(chain[s], x)
        BY <2>2, <2>4 DEF Shape
      <3>2. ASSUME NEW i \in DOMAIN chain'[s]
            PROVE  chain'[s][i].id \in promised' /\ SessionOf[chain'[s][i].id] = s
        <4>1. (i \in DOMAIN chain[s] /\ chain'[s][i] = chain[s][i]) \/ chain'[s][i] = x
          BY <3>1, <3>2
        <4> QED BY <1>a, <2>2, <2>3, <2>4, <4>1
      <3>3. \A r \in Sessions \ {s} : chain'[r] = chain[r]
        BY <2>4 DEF Shape
      <3> QED BY <1>a, <3>2, <3>3 DEF ChainsTrue
    <2>5. \/ UNCHANGED chain
          \/ m \in promised' /\ chain' = [chain EXCEPT ![s] = Append(@, [id |-> m, open |-> TRUE])]
      BY <1>2 DEF Take
    <2> QED BY <1>1, <2>3, <2>4, <2>5
  <1>3. ASSUME NEW s \in Sessions, chain[s] # <<>>, chain' = Dequeued(s)
        PROVE  ChainsTrue'
    <2>1. chain'[s] = Tail(chain[s]) /\ \A r \in Sessions \ {s} : chain'[r] = chain[r]
      BY <1>3 DEF Dequeued, Shape
    <2>2. \A i \in DOMAIN chain'[s] : i + 1 \in DOMAIN chain[s] /\ chain'[s][i] = chain[s][i + 1]
      BY <1>3, <2>1 DEF Shape
    <2>3. \A i \in DOMAIN chain'[s] :
             chain'[s][i].id \in promised' /\ SessionOf[chain'[s][i].id] = s
      BY <1>a, <2>2
    <2>4. \A r \in Sessions \ {s} : \A i \in DOMAIN chain'[r] :
             chain'[r][i].id \in promised' /\ SessionOf[chain'[r][i].id] = r
      BY <1>a, <2>1
    <2> QED BY <2>3, <2>4 DEF ChainsTrue
  <1>4. ASSUME NEW closed, SocketsClosed(closed)
        PROVE  ChainsTrue'
    BY <1>a, <1>4, ClosedChains DEF ChainsTrue
  <1>5. ASSUME NEW e \in Engines, EngineDies(e)
        PROVE  ChainsTrue'
    BY <1>a, <1>5 DEF EngineDies, ChainsTrue
  <1>6. ASSUME NEW s \in Sessions, DropHead(s) \/ ForgetHead(s) \/ Commit(s)
        PROVE  chain[s] # <<>> /\ chain' = Dequeued(s)
    BY <1>6 DEF DropHead, ForgetHead, Commit, Shape
  <1>7. ASSUME NEW s \in Sessions, TypeHead(s) \/ SessionFlips(s)
        PROVE  UNCHANGED chain
    BY <1>7 DEF TypeHead, SessionFlips
  <1> QED
    BY <1>1, <1>2, <1>3, <1>4, <1>5, <1>6, <1>7, Steps
       DEF vars, intakeVars, PipeDrops, PageDies

\* No step writes a message to the chat that was not taken.
LEMMA ChatKept ==
    ASSUME Shape, Truth, [Next]_vars
    PROVE  ChatTrue'
  <1>1. CASE UNCHANGED chat
    BY <1>1, Monotone DEF Truth, ChatTrue, Committed
  <1>2. ASSUME NEW s \in Sessions, Commit(s)
        PROVE  ChatTrue'
    <2>1. PICK n \in Msgs : n = Head(chain[s]).id /\ n \in promised
      BY <1>2, TypedHead DEF Truth
    <2>2. chat' = [chat EXCEPT ![s] = Append(@, n)]
      BY <1>2, <2>1 DEF Commit
    <2>3. ASSUME NEW m \in Msgs, Committed(m)'
          PROVE  Committed(m) \/ m = n
      <3>1. PICK i \in DOMAIN chat'[SessionOf[m]] : chat'[SessionOf[m]][i] = m
        BY <2>3 DEF Committed
      <3>2. CASE SessionOf[m] = s
        <4>1. chat[s] \in Seq(Msgs) /\ chat'[s] = Append(chat[s], n)
          BY <2>2 DEF Shape
        <4>2. (i \in DOMAIN chat[s] /\ chat[s][i] = m) \/ m = n
          BY <3>1, <3>2, <4>1
        <4> QED BY <3>2, <4>2 DEF Committed
      <3>3. CASE SessionOf[m] # s
        BY <2>2, <3>1, <3>3, WireAssumption DEF Committed, Shape
      <3> QED BY <3>2, <3>3
    <2> QED BY <2>1, <2>3, Monotone DEF Truth, ChatTrue
  <1> QED
    BY <1>1, <1>2, Steps
       DEF vars, intakeVars, Take, TypeHead, DropHead, ForgetHead, SessionFlips,
           PipeDrops, EngineDies, PageDies

-----------------------------------------------------------------------------
(* The rows and the ticks. *)

\* A step of the app's that touches one message's row and bubble at most.
LEMMA OneMessage ==
    ASSUME Shape, Truth, [Next]_vars, NEW m \in Msgs,
           \A n \in Msgs \ {m} : /\ live'[n] = live[n] /\ disk'[n] = disk[n]
                                 /\ bubble'[n] = bubble[n] /\ tapped'[n] = tapped[n],
           m \notin promised' =>
                /\ disk'[m] = "absent" => live'[m] = "absent"
                /\ live'[m] = "absent" => tapped'[m] = "discarded" /\ bubble'[m] = "none",
           bubble'[m] = "sent" => m \in promised',
           bubble'[m] = "delivered" => Committed(m)'
    PROVE  RowsKept' /\ HonestTicks'
  <1>1. promised \subseteq promised' /\ \A n \in Msgs : Committed(n) => Committed(n)'
    BY Monotone
  <1>2. RowsKept'
    BY <1>1 DEF Truth, RowsKept
  <1>3. HonestTicks'
    BY <1>1 DEF Truth, HonestTicks
  <1> QED BY <1>2, <1>3

\* Taps, deadlines, transfers, flushes and pages keep rows and ticks true.
LEMMA RowsOfMsgSteps ==
    ASSUME Shape, Truth, [Next]_vars, NEW m \in Msgs, UNCHANGED intakeVars,
           \/ SendText(m) \/ RetrySend(m) \/ DiscardSend(m)
           \/ AckTimeout(m) \/ TransferResult(m) \/ Flush(m)
           \/ Age(m) \/ (Committed(m) /\ AdmitRow(m))
    PROVE  RowsKept' /\ HonestTicks'
  <1>a. /\ disk[m] = "absent" /\ m \notin promised => live[m] = "absent"
        /\ live[m] = "absent" /\ m \notin promised => tapped[m] = "discarded" /\ bubble[m] = "none"
        /\ bubble[m] = "sent" => m \in promised
        /\ bubble[m] = "delivered" => Committed(m)
        /\ Committed(m) => m \in promised
    BY DEF Truth, RowsKept, HonestTicks, ChatTrue
  <1>b. promised' = promised /\ (Committed(m) => Committed(m)')
    BY Monotone DEF intakeVars
  <1>1. CASE SendText(m)
    BY <1>1, <1>a, <1>b, OneMessage DEF SendText, Shape
  <1>2. CASE RetrySend(m)
    BY <1>2, <1>a, <1>b, OneMessage DEF RetrySend, Shape
  <1>3. CASE DiscardSend(m)
    BY <1>3, <1>a, <1>b, OneMessage DEF DiscardSend, Settled, Shape
  <1>4. CASE AckTimeout(m)
    <2>1. /\ live' = live \/ live' = [live EXCEPT ![m] = IF @ = "inflight" THEN "queued" ELSE @]
          /\ UNCHANGED <<disk, bubble, tapped>>
      BY <1>4 DEF AckTimeout
    <2> QED BY <2>1, <1>a, <1>b, OneMessage DEF Shape
  <1>5. CASE TransferResult(m) \/ Age(m)
    BY <1>5, <1>a, <1>b, OneMessage DEF TransferResult, Age
  <1>6. CASE Flush(m)
    BY <1>6, <1>a, <1>b, OneMessage DEF Flush, Shape
  <1>7. CASE Committed(m) /\ AdmitRow(m)
    BY <1>7, <1>a, <1>b, OneMessage DEF AdmitRow, Adopt, Settled, Shape
  <1> QED BY <1>1, <1>2, <1>3, <1>4, <1>5, <1>6, <1>7

\* So do the drain, the engine's frames and the connection's edges.
LEMMA RowsOfEngineSteps ==
    ASSUME Shape, Truth, [Next]_vars, NEW e \in Engines, UNCHANGED intakeVars,
           \/ DrainSend(e) \/ DrainIdle(e) \/ RetryTimer(e)
           \/ Receive(e) \/ Seal(e) \/ Settle(e) \/ NoteDown(e)
    PROVE  RowsKept' /\ HonestTicks'
  <1>a. ASSUME NEW m \in Msgs
        PROVE  /\ disk[m] = "absent" /\ m \notin promised => live[m] = "absent"
               /\ live[m] = "absent" /\ m \notin promised => tapped[m] = "discarded" /\ bubble[m] = "none"
               /\ bubble[m] = "sent" => m \in promised
               /\ bubble[m] = "delivered" => Committed(m)
               /\ Committed(m) => m \in promised
    BY DEF Truth, RowsKept, HonestTicks, ChatTrue
  <1>b. promised' = promised /\ \A m \in Msgs : Committed(m) => Committed(m)'
    BY Monotone DEF intakeVars
  <1>1. CASE DrainSend(e)
    <2>1. PICK m \in Msgs : Eligible(m) /\ (Expire(m) \/ Write(m, e) \/ Hold(m, e))
      BY <1>1 DEF DrainSend
    <2>2. live[m] = "queued" /\ UNCHANGED <<disk, tapped>>
      BY <1>1, <2>1 DEF DrainSend, Eligible
    <2>3. live' = live \/ \E w \in {"failed", "inflight"} : live' = [live EXCEPT ![m] = w]
      BY <2>1 DEF Expire, Write, Hold
    <2>4. bubble' = bubble \/ bubble' = Painted(m)
      BY <2>1 DEF Expire, Write, Hold
    <2>5. bubble'[m] \in {"none", "sending", bubble[m]} /\ \A n \in Msgs \ {m} : bubble'[n] = bubble[n]
      BY <2>4 DEF Painted, Shape
    <2>6. live'[m] # "absent" /\ \A n \in Msgs \ {m} : live'[n] = live[n]
      BY <2>2, <2>3 DEF Shape
    <2> QED BY <2>2, <2>5, <2>6, <1>a, <1>b, OneMessage
  <1>2. CASE Receive(e)
    <2>1. down[e] # <<>> /\ UNCHANGED <<disk, tapped>>
      BY <1>2 DEF Receive
    <2>2. PICK f \in Frames : f = Head(down[e]) /\ FrameTrue(f)
      <3>1. 1 \in DOMAIN down[e] /\ Head(down[e]) = down[e][1]
        BY <2>1, HasElement DEF Shape
      <3> QED BY <2>1, <3>1, FramesTail DEF Truth, FramesTrue
    <2>3. PICK m \in Msgs : m = f.cid
      BY DEF Frames
    <2>4. CASE f.t = "ack"
      <3>1. OnAck(m) /\ m \in promised
        BY <1>2, <2>2, <2>3, <2>4 DEF Receive, FrameTrue
      <3>2. /\ live' = [live EXCEPT ![m] = "absent"]
            /\ bubble' = [bubble EXCEPT ![m] = IF @ = "sending" THEN "sent" ELSE @]
        BY <3>1 DEF OnAck, Settled
      <3>3. bubble'[m] \in {"sent", bubble[m]}
            /\ \A n \in Msgs \ {m} : live'[n] = live[n] /\ bubble'[n] = bubble[n]
        BY <3>2 DEF Shape
      <3> QED BY <2>1, <3>1, <3>3, <1>a, <1>b, OneMessage
    <2>5. CASE f.t \in {"nack", "send-failed"}
      <3>1. OnRefusal(m)
        BY <1>2, <2>2, <2>3, <2>5 DEF Receive
      <3>2. /\ live' = [live EXCEPT ![m] = IF Owed(@) THEN "failed" ELSE @]
            /\ bubble' = [bubble EXCEPT ![m] = IF @ = "none" THEN @ ELSE "failed"]
        BY <3>1 DEF OnRefusal, Failed
      <3>3. /\ bubble'[m] \in {"none", "failed"} /\ (bubble[m] = "none" => bubble'[m] = "none")
            /\ live'[m] = "absent" <=> live[m] = "absent"
            /\ \A n \in Msgs \ {m} : live'[n] = live[n] /\ bubble'[n] = bubble[n]
        BY <3>2 DEF Shape, Owed
      <3> QED BY <2>1, <3>3, <1>a, <1>b, OneMessage
    <2>6. CASE f.t = "echo"
      <3>1. Adopt(m) /\ m \in promised /\ Committed(m)
        BY <1>2, <2>2, <2>3, <2>6 DEF Receive, FrameTrue
      <3>2. /\ live' = [live EXCEPT ![m] = "absent"]
            /\ bubble' = [bubble EXCEPT ![m] = "delivered"]
        BY <3>1 DEF Adopt, Settled
      <3>3. /\ bubble'[m] = "delivered"
            /\ \A n \in Msgs \ {m} : live'[n] = live[n] /\ bubble'[n] = bubble[n]
        BY <3>2 DEF Shape
      <3> QED BY <2>1, <3>1, <3>3, <1>a, <1>b, OneMessage
    <2> QED BY <2>4, <2>5, <2>6 DEF Frames
  <1>3. CASE NoteDown(e)
    <2>1. OwedAgain(e) /\ UNCHANGED <<disk, bubble, tapped>>
      BY <1>3 DEF NoteDown
    <2>2. \A m \in Msgs : live'[m] = live[m] \/ (Owed(live[m]) /\ live'[m] = "queued")
      BY <2>1 DEF OwedAgain
    <2>3. RowsKept'
      BY <1>a, <1>b, <2>1, <2>2 DEF RowsKept, Owed
    <2>4. HonestTicks'
      BY <1>a, <1>b, <2>1 DEF HonestTicks
    <2> QED BY <2>3, <2>4
  <1>4. CASE DrainIdle(e) \/ RetryTimer(e) \/ Seal(e) \/ Settle(e)
    <2>1. UNCHANGED <<live, disk, bubble, tapped>>
      BY <1>4 DEF DrainIdle, RetryTimer, Seal, Settle
    <2> QED BY <1>a, <1>b, <2>1 DEF RowsKept, HonestTicks
  <1> QED BY <1>1, <1>2, <1>3, <1>4

\* So does every step, the page's death among them.
LEMMA RowsStand ==
    ASSUME Shape, Truth, [Next]_vars
    PROVE  RowsKept' /\ HonestTicks'
  <1>a. promised \subseteq promised' /\ \A m \in Msgs : Committed(m) => Committed(m)'
    BY Monotone
  <1>1. CASE UNCHANGED <<live, disk, bubble, tapped>>
    BY <1>1, <1>a DEF Truth, RowsKept, HonestTicks
  <1>2. CASE PageDies
    <2>1. /\ live' = Hydrated /\ UNCHANGED <<disk, tapped>>
          /\ bubble' = [m \in Msgs |-> CASE Hydrated[m] = "queued" -> "sending"
                                          [] Hydrated[m] = "failed" -> "failed"
                                          [] OTHER -> "none"]
      BY <1>2 DEF PageDies, TabDies
    <2>2. \A m \in Msgs : live'[m] = "absent" <=> disk[m] = "absent"
      BY <2>1 DEF Hydrated
    <2>3. \A m \in Msgs : /\ bubble'[m] \in {"none", "sending", "failed"}
                          /\ disk[m] = "absent" => bubble'[m] = "none"
      BY <2>1 DEF Hydrated
    <2>4. RowsKept'
      BY <1>a, <2>1, <2>2, <2>3 DEF Truth, RowsKept
    <2>5. HonestTicks'
      BY <2>3 DEF HonestTicks
    <2> QED BY <2>4, <2>5
  <1> QED BY <1>1, <1>2, Steps, RowsOfMsgSteps, RowsOfEngineSteps DEF vars, outboxVars

-----------------------------------------------------------------------------
\* At the start nothing is claimed.
LEMMA TruthInit == Init => Truth
  <1> SUFFICES ASSUME Init PROVE Truth
    OBVIOUS
  <1> USE DEF Init, WireInit, OutboxInit, IntakeInit
  <1>1. FramesTrue
    BY DEF FramesTrue
  <1>2. ChainsTrue
    BY DEF ChainsTrue
  <1>3. ChatTrue
    BY WireAssumption DEF ChatTrue, Committed
  <1>4. RowsKept /\ HonestTicks
    BY DEF RowsKept, HonestTicks
  <1> QED BY <1>1, <1>2, <1>3, <1>4 DEF Truth

\* Truth is inductive, given the shapes.
LEMMA TruthKept ==
    ASSUME Shape, Truth, [Next]_vars
    PROVE  Truth'
  BY FramesKept, ChainsKept, ChatKept, RowsStand DEF Truth

\* Truth is an invariant.
LEMMA TruthHolds == Spec => []Truth
  <1>1. Init => Shape /\ Truth
    BY ShapeInit, TruthInit
  <1>2. Shape /\ Truth /\ [Next]_vars => (Shape /\ Truth)'
    BY ShapeKept, TruthKept
  <1> QED BY <1>1, <1>2, PTL DEF Spec

(* HonestTicks: one tick only for what the engine took, two only for what  *)
(* it wrote to the chat, through every loss, retry, refusal and reload.    *)
THEOREM TicksHonest == Spec => []HonestTicks
  <1>1. Truth => HonestTicks
    BY DEF Truth
  <1> QED BY <1>1, TruthHolds, PTL

(* KeptUntilTaken: the app's disk holds a message until the engine has     *)
(* said that it took it, unless the user discarded it.                     *)
THEOREM DiskKeeps == Spec => []KeptUntilTaken
  <1>1. Truth => KeptUntilTaken
    BY DEF Truth, RowsKept, KeptUntilTaken
  <1> QED BY <1>1, TruthHolds, PTL

-----------------------------------------------------------------------------
(* Types.  Shape speaks of the variables the other proofs use; these are   *)
(* the rest.                                                               *)
Rest ==
    /\ link \in [Engines -> LinkStates]
    /\ status \in [Sessions -> Statuses]
    /\ reached \in [Msgs -> Nat]
    /\ fifo \in Seq(Msgs)
    /\ old \subseteq Msgs /\ acks \subseteq Msgs /\ moving \subseteq Msgs
    /\ kicked \subseteq Engines
    /\ faults \in Nat /\ taps \in Nat /\ loads \in Nat

\* A row written again leaves a queue of messages.
LEMMA ToBackType ==
    ASSUME fifo \in Seq(Msgs), NEW m \in Msgs
    PROVE  ToBack(m) \in Seq(Msgs) /\ DOMAIN ToBack(m) = DOMAIN fifo
  <1> DEFINE k == CHOOSE i \in DOMAIN fifo : fifo[i] = m
             at(i) == IF i = Len(fifo) THEN m ELSE fifo[IF i < k THEN i ELSE i + 1]
  <1>1. DOMAIN fifo = 1..Len(fifo) /\ Len(fifo) \in Nat /\ \A i \in 1..Len(fifo) : fifo[i] \in Msgs
    OBVIOUS
  <1>2. ASSUME NEW i \in DOMAIN fifo
        PROVE  at(i) \in Msgs
    <2>1. CASE i = Len(fifo)
      BY <2>1
    <2>2. CASE i # Len(fifo)
      <3>1. i \in 1..Len(fifo) /\ i + 1 \in 1..Len(fifo)
        BY <1>1, <1>2, <2>2
      <3>2. at(i) = fifo[i] \/ at(i) = fifo[i + 1]
        BY <2>2
      <3> HIDE DEF at
      <3> QED BY <1>1, <3>1, <3>2
    <2> QED BY <2>1, <2>2
  <1>3. ToBack(m) = [i \in DOMAIN fifo |-> at(i)]
    BY DEF ToBack
  <1> HIDE DEF at
  <1>4. ToBack(m) \in [1..Len(fifo) -> Msgs]
    BY <1>1, <1>2, <1>3
  <1>5. ToBack(m) \in Seq(Msgs)
    BY <1>1, <1>4
  <1> QED BY <1>3, <1>5

\* The rest of the types, under the app's steps about one message.
LEMMA RestOfMsgSteps ==
    ASSUME Shape, Rest, NEW m \in Msgs, UNCHANGED intakeVars,
           \/ SendText(m) \/ RetrySend(m) \/ DiscardSend(m)
           \/ AckTimeout(m) \/ TransferResult(m) \/ Flush(m)
           \/ Age(m) \/ AdmitRow(m)
    PROVE  Rest'
  <1>a. EngineOfMsg(m) \in Engines
    BY WireAssumption DEF EngineOfMsg
  <1>b. UNCHANGED <<link, status, reached>>
    BY DEF intakeVars, wireVars, SendText, RetrySend, DiscardSend, AckTimeout, TransferResult,
           Flush, Age, AdmitRow
  <1>c. faults' = faults \/ faults' = faults + 1
    BY DEF wireVars, SendText, RetrySend, DiscardSend, AckTimeout, TransferResult,
           Flush, Age, AdmitRow, Fault
  <1>d. fifo' \in Seq(Msgs)
    <2>1. CASE SendText(m)
      BY <2>1, Appended DEF SendText, Rest
    <2>2. CASE RetrySend(m)
      BY <2>2, ToBackType DEF RetrySend, Rest
    <2>3. CASE ~SendText(m) /\ ~RetrySend(m)
      BY <2>3 DEF DiscardSend, AckTimeout, TransferResult, Flush, Age, AdmitRow, Rest
    <2> QED BY <2>1, <2>2, <2>3
  <1>e. kicked' \subseteq Engines
    BY <1>a DEF SendText, RetrySend, DiscardSend, AckTimeout, TransferResult, Flush, Age, AdmitRow,
           Kick, Settled, Adopt, Rest
  <1>f. old' \subseteq Msgs /\ acks' \subseteq Msgs /\ moving' \subseteq Msgs
    BY DEF SendText, RetrySend, DiscardSend, AckTimeout, TransferResult, Flush, Age, AdmitRow,
           Settled, Adopt, Rest
  <1>g. taps' \in Nat /\ loads' = loads
    BY DEF SendText, RetrySend, DiscardSend, AckTimeout, TransferResult, Flush, Age, AdmitRow, Rest
  <1> QED BY <1>b, <1>c, <1>d, <1>e, <1>f, <1>g DEF Rest

\* The rest of the types, under the app's steps about one engine.
LEMMA RestOfEngineSteps ==
    ASSUME Shape, Rest, NEW e \in Engines, UNCHANGED intakeVars,
           \/ DrainSend(e) \/ DrainIdle(e) \/ RetryTimer(e)
           \/ Receive(e) \/ Seal(e) \/ Settle(e) \/ NoteDown(e)
    PROVE  Rest'
  <1>a. \A m \in Msgs : EngineOfMsg(m) \in Engines
    BY WireAssumption DEF EngineOfMsg
  <1>b. UNCHANGED <<status, reached, fifo, old, moving, taps, loads>>
    BY DEF intakeVars, DrainSend, DrainIdle, RetryTimer, Receive, Seal, Settle, NoteDown
  <1>c. link' = link \/ \E w \in LinkStates : link' = [link EXCEPT ![e] = w]
    BY DEF wireVars, DrainSend, Expire, Write, Hold, DrainIdle, RetryTimer, Receive, Seal, Settle,
           NoteDown, LinkStates
  <1>d. faults' = faults
    BY DEF wireVars, DrainSend, Expire, Write, Hold, DrainIdle, RetryTimer, Receive, Seal, Settle,
           NoteDown
  <1>1. CASE Receive(e)
    <2>1. PICK c \in Msgs : OnAck(c) \/ OnRefusal(c) \/ Adopt(c)
      BY <1>1, FramesTail DEF Receive, Frames
    <2>2. acks' \subseteq Msgs /\ kicked' \subseteq Engines
      BY <1>a, <2>1 DEF OnAck, OnRefusal, Adopt, Settled, Failed, Kick, Rest
    <2> QED BY <1>b, <1>c, <1>d, <2>2 DEF Rest
  <1>2. CASE ~Receive(e)
    <2>1. acks' \subseteq Msgs /\ kicked' \subseteq Engines
      BY <1>2 DEF DrainSend, Expire, Write, Hold, DrainIdle, RetryTimer, Seal, Settle,
                  NoteDown, Kick, Rest
    <2> QED BY <1>b, <1>c, <1>d, <2>1 DEF Rest
  <1> QED BY <1>1, <1>2

\* The rest of the types, under the engine's steps and what interferes.
LEMMA RestOfOthers ==
    ASSUME Shape, Rest,
           \/ \E e \in Engines : Take(e) /\ UNCHANGED outboxVars
           \/ \E s \in Sessions : /\ \/ TypeHead(s) \/ DropHead(s) \/ ForgetHead(s)
                                     \/ Commit(s) \/ SessionFlips(s)
                                  /\ UNCHANGED outboxVars
           \/ \E e \in Engines : PipeDrops(e) /\ UNCHANGED outboxVars
           \/ \E e \in Engines : EngineDies(e) /\ UNCHANGED outboxVars
           \/ \E e \in Engines : LoseFrame(e) /\ UNCHANGED <<outboxVars, intakeVars>>
           \/ PageDies
    PROVE  Rest'
  <1>1. CASE \E e \in Engines : (Take(e) \/ PipeDrops(e) \/ EngineDies(e)) /\ UNCHANGED outboxVars
    <2>1. PICK e \in Engines : (Take(e) \/ PipeDrops(e) \/ EngineDies(e)) /\ UNCHANGED outboxVars
      BY <1>1
    <2>2. link' = link \/ \E w \in LinkStates : link' = [link EXCEPT ![e] = w]
      <3>1. CASE Take(e)
        BY <3>1 DEF Take
      <3>2. CASE PipeDrops(e) \/ EngineDies(e)
        <4>1. link' = link \/ link' = [link EXCEPT ![e] = IF @ = "settled" THEN "closing" ELSE "down"]
          BY <3>2 DEF PipeDrops, EngineDies, Cut
        <4> QED BY <4>1 DEF LinkStates
      <3> QED BY <2>1, <3>1, <3>2
    <2>3. faults' \in Nat
      <3>1. faults' = faults \/ faults' = faults + 1
        BY <2>1 DEF Take, PipeDrops, EngineDies, Fault
      <3> QED BY <3>1 DEF Rest
    <2>4. UNCHANGED <<status, reached, outboxVars>>
      BY <2>1 DEF Take, PipeDrops, EngineDies
    <2> QED BY <2>2, <2>3, <2>4 DEF Rest, outboxVars
  <1>2. ASSUME NEW s \in Sessions, UNCHANGED outboxVars,
               \/ TypeHead(s) \/ DropHead(s) \/ ForgetHead(s)
               \/ Commit(s) \/ SessionFlips(s)
        PROVE  Rest'
    <2>1. link' = link
      BY <1>2 DEF TypeHead, DropHead, ForgetHead, Commit, SessionFlips, wireVars
    <2>2. faults' \in Nat
      BY <1>2 DEF TypeHead, DropHead, ForgetHead, Commit, SessionFlips, wireVars, Fault, Rest
    <2>3. status' \in [Sessions -> Statuses]
      BY <1>2 DEF TypeHead, DropHead, ForgetHead, Commit, SessionFlips, Rest
    <2>4. reached' \in [Msgs -> Nat]
      <3>1. CASE TypeHead(s)
        <4>1. chain[s] # <<>> /\ reached' = [reached EXCEPT ![Head(chain[s]).id] = @ + 1]
          BY <3>1 DEF TypeHead
        <4>2. PICK m \in Msgs : m = Head(chain[s]).id
          BY <4>1, HeadOfChain
        <4> QED BY <4>1, <4>2 DEF Rest
      <3>2. CASE ~TypeHead(s)
        BY <1>2, <3>2 DEF DropHead, ForgetHead, Commit, SessionFlips, Rest
      <3> QED BY <3>1, <3>2
    <2> QED BY <1>2, <2>1, <2>2, <2>3, <2>4 DEF Rest, outboxVars
  <1>3. ASSUME NEW e \in Engines, LoseFrame(e), UNCHANGED <<outboxVars, intakeVars>>
        PROVE  Rest'
    BY <1>3 DEF LoseFrame, Fault, Rest, outboxVars, intakeVars
  <1>4. CASE PageDies
    <2>1. /\ faults' \in Nat /\ link' = [e \in Engines |-> "down"] /\ acks' = {} /\ kicked' = {}
          /\ loads' = loads + 1
          /\ UNCHANGED <<status, reached, fifo, old, moving, taps>>
      BY <1>4 DEF PageDies, TabDies, Fault, Rest
    <2> QED BY <2>1 DEF Rest, LinkStates
  <1> QED BY <1>1, <1>2, <1>3, <1>4

\* Rest is inductive, given the shapes.
LEMMA RestKept ==
    ASSUME Shape, Rest, [Next]_vars
    PROVE  Rest'
  <1>1. CASE UNCHANGED vars
    BY <1>1 DEF vars, Rest, wireVars, outboxVars, intakeVars
  <1> QED BY <1>1, Steps, RestOfMsgSteps, RestOfEngineSteps, RestOfOthers

LEMMA RestInit == Init => Rest
  <1> SUFFICES ASSUME Init PROVE Rest
    OBVIOUS
  <1>1. fifo \in Seq(Msgs)
    BY EmptyType DEF Init, OutboxInit
  <1> QED BY <1>1, OutboxAssumption DEF Init, WireInit, OutboxInit, IntakeInit, Rest, LinkStates, Statuses

\* Every variable keeps its type.
LEMMA Shapely == Spec => [](Shape /\ Rest)
  <1>1. Init => Rest
    BY RestInit
  <1>2. Init => Shape
    BY ShapeInit
  <1>3. Shape /\ Rest /\ [Next]_vars => (Shape /\ Rest)'
    BY ShapeKept, RestKept
  <1> QED BY <1>1, <1>2, <1>3, PTL DEF Spec

(* TypeOK: the values of every variable are the ones declared for it.      *)
THEOREM SendTypes == Spec => []TypeOK
  <1>1. Shape /\ Rest => TypeOK
    BY DEF Shape, Rest, TypeOK, WireTypeOK, OutboxTypeOK, IntakeTypeOK
  <1> QED BY <1>1, Shapely, PTL

-----------------------------------------------------------------------------
(* The queue the user filled.  Every message stands in it once, and only   *)
(* what stands in it has a row, a bubble, a frame or a promise.            *)
SentOnce == \A i, j \in DOMAIN fifo : fifo[i] = fifo[j] => i = j

UnsentBlank ==
    \A m \in Msgs : ~Sent(m) => live[m] = "draft" /\ disk[m] = "draft" /\ bubble[m] = "none"

PipesSent ==
    \A e \in Engines :
        /\ \A i \in DOMAIN up[e] : Sent(up[e][i]) /\ EngineOfMsg(up[e][i]) = e
        /\ \A i \in DOMAIN held[e] : Sent(held[e][i]) /\ EngineOfMsg(held[e][i]) = e

TakenSent == \A m \in promised : Sent(m)

\* A row that went back to the composer was never written to the disk.
DraftsAgree == \A m \in Msgs : live[m] = "draft" => disk[m] = "draft"

Traced == SentOnce /\ UnsentBlank /\ PipesSent /\ TakenSent /\ DraftsAgree

\* A message sent again goes behind the others, which keep their order.
LEMMA ToBackKeeps ==
    ASSUME fifo \in Seq(Msgs), SentOnce, NEW m \in Msgs, Sent(m)
    PROVE  /\ \A i, j \in DOMAIN fifo : ToBack(m)[i] = ToBack(m)[j] => i = j
           /\ \A i \in DOMAIN fifo : \E j \in DOMAIN fifo : ToBack(m)[j] = fifo[i]
           /\ \A i, j \in DOMAIN fifo :
                 i < j /\ ToBack(m)[i] # m /\ ToBack(m)[j] # m
                 => \E p, q \in DOMAIN fifo : p < q /\ fifo[p] = ToBack(m)[i] /\ fifo[q] = ToBack(m)[j]
  <1> DEFINE b == ToBack(m)
             src(i, k) == IF i < k THEN i ELSE i + 1
  <1>0. PICK n \in Nat : n = Len(fifo) /\ DOMAIN fifo = 1..n
    OBVIOUS
  <1>1. PICK k \in 1..n : fifo[k] = m
    BY <1>0 DEF Sent
  <1>2. k = CHOOSE i \in DOMAIN fifo : fifo[i] = m
    BY <1>0, <1>1 DEF SentOnce
  <1>4. b = [i \in 1..n |-> IF i = n THEN m ELSE fifo[src(i, k)]]
    BY <1>0, <1>2 DEF ToBack
  <1>5. ASSUME NEW i \in 1..n, i # n
        PROVE  src(i, k) \in 1..n /\ src(i, k) # k
    BY <1>5
  <1>6. ASSUME NEW i \in 1..n, NEW j \in 1..n, i < j
        PROVE  src(i, k) < src(j, k)
    BY <1>6
  <1>7. \A i \in 1..n : b[i] = IF i = n THEN m ELSE fifo[src(i, k)]
    BY <1>4
  <1>a. ASSUME NEW i \in 1..n, i # k
        PROVE  \E j \in 1..n : j # n /\ src(j, k) = i
    <2>1. CASE i < k
      <3>1. i # n /\ src(i, k) = i
        BY <2>1
      <3> QED BY <3>1
    <2>2. CASE i > k
      <3>1. i - 1 \in 1..n /\ i - 1 # n /\ src(i - 1, k) = i
        BY <2>2
      <3> HIDE DEF src
      <3> QED BY <3>1
    <2> QED BY <1>a, <2>1, <2>2
  <1> HIDE DEF b, src
  <1>s. \A i, j \in 1..n : fifo[i] = fifo[j] => i = j
    BY <1>0 DEF SentOnce
  <1>8. \A i \in 1..n : b[i] = m <=> i = n
    BY <1>1, <1>5, <1>7, <1>s
  <1>9. ASSUME NEW i \in 1..n, NEW j \in 1..n, i < j
        PROVE  b[i] # b[j]
    <2>1. i # n
      BY <1>9
    <2>2. CASE j = n
      BY <1>8, <2>1, <2>2
    <2>3. CASE j # n
      <3>1. b[i] = fifo[src(i, k)] /\ b[j] = fifo[src(j, k)]
        BY <1>7, <2>1, <2>3
      <3>2. src(i, k) \in 1..n /\ src(j, k) \in 1..n
        BY <1>5, <2>1, <2>3
      <3>3. src(i, k) # src(j, k)
        BY <1>6, <1>9, <3>2
      <3> QED BY <1>s, <3>1, <3>2, <3>3
    <2> QED BY <2>2, <2>3
  <1>10. \A i, j \in DOMAIN fifo : b[i] = b[j] => i = j
    BY <1>0, <1>9
  <1>11. \A i \in DOMAIN fifo : \E j \in DOMAIN fifo : b[j] = fifo[i]
    <2>1. SUFFICES ASSUME NEW i \in 1..n
                   PROVE  \E j \in 1..n : b[j] = fifo[i]
      BY <1>0
    <2>2. CASE i = k
      <3>1. n \in 1..n
        BY <1>1
      <3> QED BY <1>1, <1>8, <2>2, <3>1
    <2>3. CASE i # k
      BY <1>7, <1>a, <2>3
    <2> QED BY <2>2, <2>3
  <1>12. ASSUME NEW i \in 1..n, NEW j \in 1..n, i < j, b[i] # m, b[j] # m
         PROVE  \E p, q \in 1..n : p < q /\ fifo[p] = b[i] /\ fifo[q] = b[j]
    <2>2. i # n /\ j # n
      BY <1>8, <1>12
    <2>3. /\ src(i, k) \in 1..n /\ src(j, k) \in 1..n /\ src(i, k) < src(j, k)
          /\ fifo[src(i, k)] = b[i] /\ fifo[src(j, k)] = b[j]
      BY <1>5, <1>6, <1>7, <1>12, <2>2
    <2> QED BY <2>3
  <1>13. ASSUME NEW i \in DOMAIN fifo, NEW j \in DOMAIN fifo, i < j, b[i] # m, b[j] # m
         PROVE  \E p, q \in DOMAIN fifo : p < q /\ fifo[p] = b[i] /\ fifo[q] = b[j]
    <2>1. i \in 1..n /\ j \in 1..n
      BY <1>0, <1>13
    <2>2. PICK p \in 1..n, q \in 1..n : p < q /\ fifo[p] = b[i] /\ fifo[q] = b[j]
      BY <1>12, <1>13, <2>1
    <2> QED BY <1>0, <2>2
  <1> QED BY <1>10, <1>11, <1>13 DEF b

\* How the queue moves: a first send, a retry, or not at all.
LEMMA QueueSteps ==
    ASSUME Shape, Rest, UnsentBlank, [Next]_vars
    PROVE  \/ UNCHANGED <<fifo, tapped>>
           \/ \E m \in Msgs : DiscardSend(m) /\ fifo' = fifo /\ tapped' = [tapped EXCEPT ![m] = "discarded"]
           \/ \E m \in Msgs : SendText(m) /\ ~Sent(m) /\ fifo' = Append(fifo, m) /\ tapped' = tapped
           \/ \E m \in Msgs : /\ RetrySend(m) /\ Sent(m) /\ fifo' = ToBack(m)
                              /\ tapped' = [tapped EXCEPT ![m] = "retried"]
  <1>1. ASSUME NEW m \in Msgs, SendText(m)
        PROVE  ~Sent(m) /\ fifo' = Append(fifo, m) /\ tapped' = tapped
    BY <1>1 DEF SendText, Sent
  <1>2. ASSUME NEW m \in Msgs, RetrySend(m)
        PROVE  Sent(m) /\ fifo' = ToBack(m) /\ tapped' = [tapped EXCEPT ![m] = "retried"]
    BY <1>2 DEF RetrySend, UnsentBlank
  <1>3. ASSUME NEW m \in Msgs, DiscardSend(m)
        PROVE  fifo' = fifo /\ tapped' = [tapped EXCEPT ![m] = "discarded"]
    BY <1>3 DEF DiscardSend
  <1>4. ASSUME NEW m \in Msgs, AckTimeout(m) \/ TransferResult(m) \/ Flush(m) \/ Age(m) \/ AdmitRow(m)
        PROVE  UNCHANGED <<fifo, tapped>>
    BY <1>4 DEF AckTimeout, TransferResult, Flush, Age, AdmitRow
  <1>5. ASSUME NEW e \in Engines, \/ DrainSend(e) \/ DrainIdle(e) \/ RetryTimer(e)
                                  \/ Receive(e) \/ Seal(e) \/ Settle(e) \/ NoteDown(e)
        PROVE  UNCHANGED <<fifo, tapped>>
    BY <1>5 DEF DrainSend, DrainIdle, RetryTimer, Receive, Seal, Settle, NoteDown
  <1>6. CASE PageDies
    BY <1>6 DEF PageDies, TabDies
  <1>7. CASE UNCHANGED outboxVars
    BY <1>7 DEF outboxVars
  <1> QED BY <1>1, <1>2, <1>3, <1>4, <1>5, <1>6, <1>7, Steps DEF vars

\* The queue keeps every message once and loses none.
LEMMA QueueKept ==
    ASSUME Shape, Rest, SentOnce, UnsentBlank, [Next]_vars
    PROVE  SentOnce' /\ \A n \in Msgs : Sent(n) => Sent(n)'
  <1>0. fifo \in Seq(Msgs)
    BY DEF Rest
  <1>1. CASE fifo' = fifo
    BY <1>1 DEF SentOnce, Sent
  <1>2. ASSUME NEW m \in Msgs, ~Sent(m), fifo' = Append(fifo, m)
        PROVE  SentOnce' /\ \A n \in Msgs : Sent(n) => Sent(n)'
    <2>1. /\ DOMAIN fifo' = 1..(Len(fifo) + 1) /\ DOMAIN fifo = 1..Len(fifo) /\ Len(fifo) \in Nat
          /\ fifo'[Len(fifo) + 1] = m /\ \A i \in DOMAIN fifo : fifo'[i] = fifo[i]
      BY <1>0, <1>2
    <2> QED BY <1>2, <2>1 DEF SentOnce, Sent
  <1>3. ASSUME NEW m \in Msgs, Sent(m), fifo' = ToBack(m)
        PROVE  SentOnce' /\ \A n \in Msgs : Sent(n) => Sent(n)'
    <2>1. DOMAIN fifo' = DOMAIN fifo
      BY <1>0, <1>3, ToBackType
    <2>2. SentOnce'
      BY <1>0, <1>3, <2>1, ToBackKeeps DEF SentOnce
    <2>3. ASSUME NEW n \in Msgs, Sent(n)
          PROVE  Sent(n)'
      BY <1>0, <1>3, <2>1, <2>3, ToBackKeeps DEF Sent
    <2> QED BY <2>2, <2>3
  <1> QED BY <1>1, <1>2, <1>3, QueueSteps

-----------------------------------------------------------------------------
(* Rows and bubbles.  What one step may do to one message's.               *)
Unrefused == \A e \in Engines : \A i \in DOMAIN down[e] : down[e][i].t \in {"ack", "echo"}

RowMoves(m) ==
    \/ live'[m] = live[m] /\ disk'[m] = disk[m] /\ bubble'[m] = bubble[m]
    \/ live'[m] = live[m] /\ disk'[m] = live[m] /\ bubble'[m] = bubble[m]
    \/ /\ disk'[m] = disk[m]
       /\ \/ SendText(m) /\ live'[m] = "queued" /\ bubble'[m] = "sending"
          \/ RetrySend(m) /\ live'[m] = "queued" /\ bubble'[m] = "sending"
          \/ /\ bubble[m] # "none" /\ bubble'[m] = "none"
             /\ live'[m] = "absent" /\ tapped'[m] = "discarded"
          \/ m \in promised /\ live'[m] = "absent"
          \/ /\ ~Unrefused
             /\ live'[m] = (IF Owed(live[m]) THEN "failed" ELSE live[m])
             /\ bubble'[m] = (IF bubble[m] = "none" THEN "none" ELSE "failed")
          \/ live[m] = "queued" /\ m \in old /\ live'[m] = "failed" /\ bubble'[m] = bubble[m]
          \/ /\ live[m] = "queued" /\ live'[m] \in {"queued", "inflight"}
             /\ bubble'[m] = (IF bubble[m] = "none" THEN "none" ELSE "sending")
          \/ live[m] = "inflight" /\ live'[m] = "queued" /\ bubble'[m] = bubble[m]
    \/ /\ PageDies /\ disk'[m] = disk[m]
       /\ live'[m] = IF disk[m] \in {"queued", "inflight"}
                     THEN IF m \in old THEN "failed" ELSE "queued"
                     ELSE disk[m]
       /\ bubble'[m] = CASE live'[m] = "queued" -> "sending"
                         [] live'[m] = "failed" -> "failed"
                         [] OTHER -> "none"

\* Every step moves every row that way.
LEMMA RowSteps ==
    ASSUME Shape, Slots, Truth, [Next]_vars, NEW m \in Msgs
    PROVE  RowMoves(m)
  <1>a. /\ live \in [Msgs -> RowStates] /\ disk \in [Msgs -> RowStates]
        /\ bubble \in [Msgs -> Bubbles] /\ tapped \in [Msgs -> Taps]
    BY DEF Shape
  <1>b. \A n \in Msgs : Committed(n) => n \in promised
    BY DEF Truth, ChatTrue
  <1>1. CASE UNCHANGED <<live, disk, bubble>>
    BY <1>1 DEF RowMoves
  <1>2. ASSUME NEW n \in Msgs, SendText(n)
        PROVE  RowMoves(m)
    <2>1. /\ live' = [live EXCEPT ![n] = "queued"] /\ disk' = disk
          /\ bubble' = [bubble EXCEPT ![n] = "sending"]
      BY <1>2 DEF SendText
    <2>2. CASE n = m
      <3>1. live'[m] = "queued" /\ disk'[m] = disk[m] /\ bubble'[m] = "sending"
        BY <1>a, <2>1, <2>2
      <3> QED BY <1>2, <2>2, <3>1 DEF RowMoves
    <2>3. CASE n # m
      BY <1>a, <2>1, <2>3 DEF RowMoves
    <2> QED BY <2>2, <2>3
  <1>3. ASSUME NEW n \in Msgs, RetrySend(n)
        PROVE  RowMoves(m)
    <2>1. /\ live' = [live EXCEPT ![n] = "queued"] /\ disk' = disk
          /\ bubble' = [bubble EXCEPT ![n] = "sending"]
      BY <1>3 DEF RetrySend
    <2>2. CASE n = m
      <3>1. live'[m] = "queued" /\ disk'[m] = disk[m] /\ bubble'[m] = "sending"
        BY <1>a, <2>1, <2>2
      <3> QED BY <1>3, <2>2, <3>1 DEF RowMoves
    <2>3. CASE n # m
      BY <1>a, <2>1, <2>3 DEF RowMoves
    <2> QED BY <2>2, <2>3
  <1>4. ASSUME NEW n \in Msgs, DiscardSend(n)
        PROVE  RowMoves(m)
    <2>1. /\ live' = [live EXCEPT ![n] = "absent"] /\ disk' = disk
          /\ bubble' = [bubble EXCEPT ![n] = "none"] /\ bubble[n] # "none"
          /\ tapped' = [tapped EXCEPT ![n] = "discarded"]
      BY <1>4 DEF DiscardSend, Settled
    <2>2. CASE n = m
      <3>1. live'[m] = "absent" /\ disk'[m] = disk[m] /\ bubble'[m] = "none" /\ tapped'[m] = "discarded"
        BY <1>a, <2>1, <2>2
      <3> QED BY <2>1, <2>2, <3>1 DEF RowMoves
    <2>3. CASE n # m
      BY <1>a, <2>1, <2>3 DEF RowMoves
    <2> QED BY <2>2, <2>3
  <1>5. ASSUME NEW n \in Msgs, AckTimeout(n)
        PROVE  RowMoves(m)
    <2>1. /\ live' = live \/ live' = [live EXCEPT ![n] = IF @ = "inflight" THEN "queued" ELSE @]
          /\ disk' = disk /\ bubble' = bubble
      BY <1>5 DEF AckTimeout
    <2>2. live'[m] = live[m] \/ (live[m] = "inflight" /\ live'[m] = "queued")
      BY <1>a, <2>1
    <2> QED BY <2>1, <2>2 DEF RowMoves
  <1>6. ASSUME NEW n \in Msgs, Flush(n)
        PROVE  RowMoves(m)
    <2>1. disk' = [disk EXCEPT ![n] = live[n]] /\ live' = live /\ bubble' = bubble
      BY <1>6 DEF Flush
    <2>2. disk'[m] = disk[m] \/ disk'[m] = live[m]
      BY <1>a, <2>1
    <2> QED BY <2>1, <2>2 DEF RowMoves
  <1>7. ASSUME NEW n \in Msgs, n \in promised, disk' = disk, live' = [live EXCEPT ![n] = "absent"],
               \E w : bubble' = [bubble EXCEPT ![n] = w]
        PROVE  RowMoves(m)
    <2>1. CASE n = m
      <3>1. live'[m] = "absent" /\ disk'[m] = disk[m] /\ m \in promised
        BY <1>a, <1>7, <2>1
      <3> QED BY <3>1 DEF RowMoves
    <2>2. CASE n # m
      <3>1. live'[m] = live[m] /\ disk'[m] = disk[m] /\ bubble'[m] = bubble[m]
        BY <1>a, <1>7, <2>2
      <3> QED BY <3>1 DEF RowMoves
    <2> QED BY <2>1, <2>2
  <1>8. ASSUME NEW n \in Msgs, Committed(n), AdmitRow(n)
        PROVE  RowMoves(m)
    BY <1>b, <1>7, <1>8 DEF AdmitRow, Adopt, Settled
  <1>9. ASSUME NEW e \in Engines, Receive(e)
        PROVE  RowMoves(m)
    <2>1. down[e] # <<>> /\ disk' = disk
      BY <1>9 DEF Receive
    <2>2. PICK f \in Frames : f = Head(down[e]) /\ FrameTrue(f) /\ (Unrefused => f.t \in {"ack", "echo"})
      <3>1. 1 \in DOMAIN down[e] /\ Head(down[e]) = down[e][1]
        BY <2>1, HasElement DEF Shape
      <3> QED BY <2>1, <3>1, FramesTail DEF Truth, FramesTrue, Unrefused
    <2>3. PICK n \in Msgs : n = f.cid
      BY DEF Frames
    <2>4. CASE f.t = "ack"
      <3>1. OnAck(n) /\ n \in promised
        BY <1>9, <2>2, <2>3, <2>4 DEF Receive, FrameTrue
      <3> QED BY <1>7, <2>1, <3>1 DEF OnAck, Settled
    <2>5. CASE f.t = "echo"
      <3>1. Adopt(n) /\ n \in promised
        BY <1>9, <2>2, <2>3, <2>5 DEF Receive, FrameTrue
      <3> QED BY <1>7, <2>1, <3>1 DEF Adopt, Settled
    <2>6. CASE f.t \in {"nack", "send-failed"}
      <3>1. OnRefusal(n) /\ ~Unrefused
        BY <1>9, <2>2, <2>3, <2>6 DEF Receive
      <3>2. /\ live' = [live EXCEPT ![n] = IF Owed(@) THEN "failed" ELSE @]
            /\ bubble' = [bubble EXCEPT ![n] = IF @ = "none" THEN @ ELSE "failed"]
        BY <3>1 DEF OnRefusal, Failed
      <3>3. CASE n = m
        <4>1. /\ live'[m] = (IF Owed(live[m]) THEN "failed" ELSE live[m])
              /\ bubble'[m] = (IF bubble[m] = "none" THEN "none" ELSE "failed")
          BY <1>a, <3>2, <3>3 DEF Owed
        <4> QED BY <2>1, <3>1, <4>1 DEF RowMoves
      <3>4. CASE n # m
        <4>1. live'[m] = live[m] /\ disk'[m] = disk[m] /\ bubble'[m] = bubble[m]
          BY <1>a, <2>1, <3>2, <3>4
        <4> QED BY <4>1 DEF RowMoves
      <3> QED BY <3>3, <3>4
    <2> QED BY <2>4, <2>5, <2>6 DEF Frames
  <1>10. ASSUME NEW e \in Engines, DrainSend(e)
         PROVE  RowMoves(m)
    <2>1. PICK n \in Msgs : Eligible(n) /\ (Expire(n) \/ Write(n, e) \/ Hold(n, e))
      BY <1>10 DEF DrainSend
    <2>2. live[n] = "queued" /\ disk' = disk
      BY <1>10, <2>1 DEF DrainSend, Eligible
    <2>3. CASE Expire(n)
      <3>1. n \in old /\ live' = [live EXCEPT ![n] = "failed"] /\ bubble' = bubble
        BY <2>3 DEF Expire
      <3>2. \/ live'[m] = live[m]
            \/ live[m] = "queued" /\ m \in old /\ live'[m] = "failed"
        BY <1>a, <2>2, <3>1
      <3> QED BY <2>2, <3>1, <3>2 DEF RowMoves
    <2>4. CASE Write(n, e) \/ Hold(n, e)
      <3>1. /\ live' = live \/ live' = [live EXCEPT ![n] = "inflight"]
            /\ bubble' = [bubble EXCEPT ![n] = IF @ = "none" THEN @ ELSE "sending"]
        BY <2>4 DEF Write, Hold, Painted
      <3>2. CASE n = m
        <4>1. /\ live[m] = "queued" /\ live'[m] \in {"queued", "inflight"}
              /\ bubble'[m] = (IF bubble[m] = "none" THEN "none" ELSE "sending")
          BY <1>a, <2>2, <3>1, <3>2
        <4> QED BY <2>2, <4>1 DEF RowMoves
      <3>3. CASE n # m
        <4>1. live'[m] = live[m] /\ disk'[m] = disk[m] /\ bubble'[m] = bubble[m]
          BY <1>a, <2>2, <3>1, <3>3
        <4> QED BY <4>1 DEF RowMoves
      <3> QED BY <3>2, <3>3
    <2> QED BY <2>1, <2>3, <2>4
  <1>11. ASSUME NEW e \in Engines, NoteDown(e)
         PROVE  RowMoves(m)
    <2>1. disk' = disk /\ bubble' = bubble /\ OwedAgain(e)
      BY <1>11 DEF NoteDown
    <2>2. live'[m] = live[m] \/ (live[m] = "inflight" /\ live'[m] = "queued")
      BY <1>a, <2>1 DEF OwedAgain, Slots, InflightHoldsSlot
    <2> QED BY <2>1, <2>2 DEF RowMoves
  <1>12. CASE PageDies
    <2>1. /\ live' = Hydrated /\ UNCHANGED disk
          /\ bubble' = [n \in Msgs |-> CASE Hydrated[n] = "queued" -> "sending"
                                          [] Hydrated[n] = "failed" -> "failed"
                                          [] OTHER -> "none"]
      BY <1>12 DEF PageDies, TabDies
    <2>2. /\ live'[m] = Hydrated[m]
          /\ Hydrated[m] = IF disk[m] \in {"queued", "inflight"}
                           THEN IF m \in old THEN "failed" ELSE "queued"
                           ELSE disk[m]
      BY <2>1 DEF Hydrated
    <2>3. bubble'[m] = (CASE Hydrated[m] = "queued" -> "sending"
                          [] Hydrated[m] = "failed" -> "failed"
                          [] OTHER -> "none")
      BY <2>1
    <2> QED BY <1>12, <2>1, <2>2, <2>3 DEF RowMoves
  <1>13. ASSUME NEW n \in Msgs, TransferResult(n) \/ Age(n)
         PROVE  UNCHANGED <<live, disk, bubble>>
    BY <1>13 DEF TransferResult, Age
  <1>14. ASSUME NEW e \in Engines, DrainIdle(e) \/ RetryTimer(e) \/ Seal(e) \/ Settle(e)
         PROVE  UNCHANGED <<live, disk, bubble>>
    BY <1>14 DEF DrainIdle, RetryTimer, Seal, Settle
  <1> QED BY <1>1, <1>2, <1>3, <1>4, <1>5, <1>6, <1>8, <1>9, <1>10, <1>11, <1>12, <1>13, <1>14, Steps
          DEF vars, outboxVars

\* The queue's messages keep to it, and the composer's to the composer.
LEMMA BlankKept ==
    ASSUME Shape, Rest, Slots, Truth, Traced, [Next]_vars
    PROVE  UnsentBlank' /\ DraftsAgree'
  <1>1. ASSUME NEW m \in Msgs, ~Sent(m)'
        PROVE  live'[m] = "draft" /\ disk'[m] = "draft" /\ bubble'[m] = "none"
    <2>1. ~Sent(m)
      BY <1>1, QueueKept DEF Traced
    <2>2. live[m] = "draft" /\ disk[m] = "draft" /\ bubble[m] = "none" /\ m \notin promised
      BY <2>1 DEF Traced, UnsentBlank, TakenSent
    <2>3. ~SendText(m)
      <3>1. SUFFICES ASSUME SendText(m) PROVE FALSE
        OBVIOUS
      <3>2. fifo' = Append(fifo, m) /\ fifo \in Seq(Msgs)
        BY <3>1 DEF SendText, Rest
      <3>3. Len(fifo) + 1 \in DOMAIN Append(fifo, m) /\ Append(fifo, m)[Len(fifo) + 1] = m
        BY <3>2
      <3> QED BY <1>1, <3>2, <3>3 DEF Sent
    <2>4. ~RetrySend(m)
      BY <2>2 DEF RetrySend
    <2>5. RowMoves(m)
      BY RowSteps
    <2> QED BY <2>2, <2>3, <2>4, <2>5 DEF RowMoves, Owed
  <1>2. ASSUME NEW m \in Msgs, live'[m] = "draft"
        PROVE  disk'[m] = "draft"
    <2>1. live[m] = "draft" => disk[m] = "draft"
      BY DEF Traced, DraftsAgree
    <2>2. RowMoves(m)
      BY RowSteps
    <2> QED BY <1>2, <2>1, <2>2 DEF RowMoves, Owed
  <1> QED BY <1>1, <1>2 DEF UnsentBlank, DraftsAgree

-----------------------------------------------------------------------------
(* The way up: what is on a pipe, and what the client holds for the next.  *)
(* There is never something on both.                                       *)
Apart ==
    \A e \in Engines :
        /\ up[e] # <<>> => link[e] \in {"sealed", "settled"}
        /\ held[e] # <<>> => link[e] \in {"closing", "down"}

PipeMoves(e) ==
    \/ up'[e] = up[e] /\ held'[e] = held[e]
    \/ up'[e] = <<>> /\ held'[e] \in {held[e], <<>>}
    \/ up[e] # <<>> /\ up'[e] = Tail(up[e]) /\ held'[e] = held[e]
    \/ up'[e] = held[e] /\ held'[e] = <<>>
    \/ \E m \in Msgs :
          /\ EngineOfMsg(m) = e /\ Eligible(m) /\ m \notin old
          /\ UNCHANGED <<fifo, tapped, old, promised>>
          /\ \/ up'[e] = Append(up[e], m) /\ held'[e] = held[e]
             \/ up'[e] = up[e] /\ held'[e] = Append(held[e], m)

\* Every step moves every way up like that.
LEMMA PipeSteps ==
    ASSUME Shape, [Next]_vars, NEW e \in Engines
    PROVE  PipeMoves(e)
  <1>a. up \in [Engines -> Seq(Msgs)] /\ held \in [Engines -> Seq(Msgs)]
    BY DEF Shape
  <1>1. CASE UNCHANGED <<up, held>>
    BY <1>1 DEF PipeMoves
  <1>2. ASSUME NEW d \in Engines, DrainSend(d), UNCHANGED intakeVars
        PROVE  PipeMoves(e)
    <2>1. PICK m \in Msgs : EngineOfMsg(m) = d /\ Eligible(m) /\ (Expire(m) \/ Write(m, d) \/ Hold(m, d))
      BY <1>2 DEF DrainSend
    <2>2. UNCHANGED <<fifo, tapped, old, promised>>
      BY <1>2 DEF DrainSend, intakeVars
    <2>3. CASE Expire(m)
      BY <1>1, <2>3 DEF Expire, wireVars
    <2>4. CASE Write(m, d)
      <3>1. m \notin old /\ up' = [up EXCEPT ![d] = Append(@, m)] /\ held' = held
        BY <2>4 DEF Write
      <3>2. CASE d = e
        <4>1. up'[e] = Append(up[e], m) /\ held'[e] = held[e]
          BY <1>a, <3>1, <3>2
        <4> QED BY <2>1, <2>2, <3>1, <3>2, <4>1 DEF PipeMoves
      <3>3. CASE d # e
        <4>1. up'[e] = up[e] /\ held'[e] = held[e]
          BY <1>a, <3>1, <3>3
        <4> QED BY <4>1 DEF PipeMoves
      <3> QED BY <3>2, <3>3
    <2>5. CASE Hold(m, d)
      <3>1. m \notin old /\ held' = [held EXCEPT ![d] = Append(@, m)] /\ up' = up
        BY <2>5 DEF Hold, wireVars
      <3>2. CASE d = e
        <4>1. held'[e] = Append(held[e], m) /\ up'[e] = up[e]
          BY <1>a, <3>1, <3>2
        <4> QED BY <2>1, <2>2, <3>1, <3>2, <4>1 DEF PipeMoves
      <3>3. CASE d # e
        <4>1. up'[e] = up[e] /\ held'[e] = held[e]
          BY <1>a, <3>1, <3>3
        <4> QED BY <4>1 DEF PipeMoves
      <3> QED BY <3>2, <3>3
    <2> QED BY <2>1, <2>3, <2>4, <2>5
  <1>3. ASSUME NEW d \in Engines, Seal(d)
        PROVE  PipeMoves(e)
    <2>1. up' = [up EXCEPT ![d] = held[d]] /\ held' = [held EXCEPT ![d] = <<>>]
      BY <1>3 DEF Seal
    <2>2. \/ up'[e] = held[e] /\ held'[e] = <<>>
          \/ up'[e] = up[e] /\ held'[e] = held[e]
      BY <1>a, <2>1
    <2> QED BY <2>2 DEF PipeMoves
  <1>4. ASSUME NEW d \in Engines, held' = held,
               \/ up' = up
               \/ up' = [up EXCEPT ![d] = <<>>]
               \/ up[d] # <<>> /\ up' = [up EXCEPT ![d] = Tail(@)]
        PROVE  PipeMoves(e)
    <2>1. \/ up'[e] = up[e]
          \/ up'[e] = <<>>
          \/ up[e] # <<>> /\ up'[e] = Tail(up[e])
      BY <1>a, <1>4
    <2> QED BY <1>4, <2>1 DEF PipeMoves
  <1>5. ASSUME NEW d \in Engines, UNCHANGED outboxVars,
               Take(d) \/ PipeDrops(d) \/ EngineDies(d) \/ LoseFrame(d)
        PROVE  PipeMoves(e)
    <2>1. held' = held
      BY <1>5 DEF outboxVars
    <2>2. \/ up' = up
          \/ up' = [up EXCEPT ![d] = <<>>]
          \/ up[d] # <<>> /\ up' = [up EXCEPT ![d] = Tail(@)]
      BY <1>5 DEF Take, PipeDrops, EngineDies, LoseFrame, Cut
    <2> QED BY <1>4, <2>1, <2>2
  <1>6. CASE PageDies
    <2>1. up'[e] = <<>> /\ held'[e] = <<>>
      BY <1>6 DEF PageDies, TabDies
    <2> QED BY <2>1 DEF PipeMoves
  <1>7. ASSUME NEW d \in Engines, \/ DrainIdle(d) \/ RetryTimer(d) \/ Receive(d)
                                  \/ Settle(d) \/ NoteDown(d)
        PROVE  UNCHANGED <<up, held>>
    BY <1>7 DEF DrainIdle, RetryTimer, Receive, Settle, NoteDown, wireVars
  <1>8. ASSUME NEW m \in Msgs, \/ SendText(m) \/ RetrySend(m) \/ DiscardSend(m)
                               \/ AckTimeout(m) \/ TransferResult(m) \/ Flush(m)
                               \/ Age(m) \/ AdmitRow(m)
        PROVE  UNCHANGED <<up, held>>
    BY <1>8 DEF SendText, RetrySend, DiscardSend, AckTimeout, TransferResult, Flush,
                Age, AdmitRow, wireVars
  <1>9. ASSUME NEW s \in Sessions, UNCHANGED outboxVars,
               TypeHead(s) \/ DropHead(s) \/ ForgetHead(s) \/ Commit(s) \/ SessionFlips(s)
        PROVE  UNCHANGED <<up, held>>
    BY <1>9 DEF TypeHead, DropHead, ForgetHead, Commit, SessionFlips, wireVars, outboxVars
  <1> QED
    BY <1>1, <1>2, <1>3, <1>5, <1>6, <1>7, <1>8, <1>9, Steps
       DEF vars, wireVars, outboxVars

\* Frames wait in the client only while there is no pipe.
LEMMA ApartKept ==
    ASSUME Shape, Rest, Apart, [Next]_vars
    PROVE  Apart'
  <1>a. /\ up \in [Engines -> Seq(Msgs)] /\ held \in [Engines -> Seq(Msgs)]
        /\ link \in [Engines -> LinkStates]
    BY DEF Shape, Rest
  <1>1. CASE UNCHANGED <<link, up, held>>
    BY <1>1 DEF Apart
  <1>2. ASSUME NEW d \in Engines, DrainSend(d)
        PROVE  Apart'
    <2>1. PICK m \in Msgs : Expire(m) \/ Write(m, d) \/ Hold(m, d)
      BY <1>2 DEF DrainSend
    <2> QED BY <1>a, <2>1 DEF Apart, Expire, Write, Hold, wireVars
  <1>3. ASSUME NEW d \in Engines, Seal(d) \/ Settle(d) \/ NoteDown(d)
        PROVE  Apart'
    BY <1>a, <1>3 DEF Seal, Settle, NoteDown, Apart
  <1>4. ASSUME NEW d \in Engines, UNCHANGED outboxVars,
               Take(d) \/ PipeDrops(d) \/ EngineDies(d) \/ LoseFrame(d)
        PROVE  Apart'
    <2>1. held' = held
      BY <1>4 DEF outboxVars
    <2>2. \/ link' = link /\ (up' = up \/ (up[d] # <<>> /\ up' = [up EXCEPT ![d] = Tail(@)]))
          \/ /\ PipeUp(d) /\ up' = [up EXCEPT ![d] = <<>>]
             /\ link' = [link EXCEPT ![d] = IF @ = "settled" THEN "closing" ELSE "down"]
      <3>1. CASE Take(d)
        BY <3>1 DEF Take
      <3>2. CASE LoseFrame(d)
        BY <3>2 DEF LoseFrame
      <3>3. CASE PipeDrops(d) \/ EngineDies(d)
        <4>1. UNCHANGED <<link, up>> \/ Cut(d)
          BY <3>3 DEF PipeDrops, EngineDies
        <4>2. CASE Cut(d)
          BY <4>2 DEF Cut
        <4> QED BY <4>1, <4>2
      <3> QED BY <1>4, <3>1, <3>2, <3>3
    <2>3. CASE link' = link /\ (up' = up \/ (up[d] # <<>> /\ up' = [up EXCEPT ![d] = Tail(@)]))
      BY <1>a, <2>1, <2>3 DEF Apart
    <2>4. CASE /\ PipeUp(d) /\ up' = [up EXCEPT ![d] = <<>>]
               /\ link' = [link EXCEPT ![d] = IF @ = "settled" THEN "closing" ELSE "down"]
      BY <1>a, <2>1, <2>4 DEF Apart
    <2> QED BY <2>2, <2>3, <2>4
  <1>5. CASE PageDies
    BY <1>5 DEF PageDies, TabDies, Apart
  <1>6. ASSUME NEW d \in Engines, DrainIdle(d) \/ RetryTimer(d) \/ Receive(d)
        PROVE  UNCHANGED <<link, up, held>>
    BY <1>6 DEF DrainIdle, RetryTimer, Receive, wireVars
  <1>7. ASSUME NEW m \in Msgs, \/ SendText(m) \/ RetrySend(m) \/ DiscardSend(m)
                               \/ AckTimeout(m) \/ TransferResult(m) \/ Flush(m)
                               \/ Age(m) \/ AdmitRow(m)
        PROVE  UNCHANGED <<link, up, held>>
    BY <1>7 DEF SendText, RetrySend, DiscardSend, AckTimeout, TransferResult, Flush,
                Age, AdmitRow, wireVars
  <1>8. ASSUME NEW s \in Sessions, UNCHANGED outboxVars,
               TypeHead(s) \/ DropHead(s) \/ ForgetHead(s) \/ Commit(s) \/ SessionFlips(s)
        PROVE  UNCHANGED <<link, up, held>>
    BY <1>8 DEF TypeHead, DropHead, ForgetHead, Commit, SessionFlips, wireVars, outboxVars
  <1> QED
    BY <1>1, <1>2, <1>3, <1>4, <1>5, <1>6, <1>7, <1>8, Steps
       DEF vars, wireVars, outboxVars

\* Where a message sits in a queue that moved on, it sat before, or it is new.
LEMMA TailOnly ==
    ASSUME NEW S, NEW q \in Seq(S), q # <<>>, NEW i \in DOMAIN Tail(q)
    PROVE  i + 1 \in DOMAIN q /\ Tail(q)[i] = q[i + 1]
  OBVIOUS

LEMMA AppendOnly ==
    ASSUME NEW S, NEW q \in Seq(S), NEW x \in S, NEW i \in DOMAIN Append(q, x)
    PROVE  \/ i \in DOMAIN q /\ Append(q, x)[i] = q[i]
           \/ i = Len(q) + 1 /\ Append(q, x)[i] = x
  OBVIOUS

\* Only what was sent is on its way, each message to its own engine.
LEMMA PipesKept ==
    ASSUME Shape, Rest, Traced, [Next]_vars
    PROVE  PipesSent'
  <1>1. \A n \in Msgs : Sent(n) => Sent(n)'
    BY QueueKept DEF Traced
  <1>2. ASSUME NEW e \in Engines
        PROVE  /\ \A i \in DOMAIN up'[e] : Sent(up[e][i])' /\ EngineOfMsg(up'[e][i]) = e
               /\ \A i \in DOMAIN held'[e] : Sent(held[e][i])' /\ EngineOfMsg(held'[e][i]) = e
    <2> DEFINE G == {n \in Msgs : Sent(n)' /\ EngineOfMsg(n) = e}
    <2>1. up[e] \in Seq(Msgs) /\ held[e] \in Seq(Msgs)
      BY DEF Shape
    <2>2. /\ \A i \in DOMAIN up[e] : up[e][i] \in G
          /\ \A i \in DOMAIN held[e] : held[e][i] \in G
      <3>1. ASSUME NEW n \in Msgs, Sent(n), EngineOfMsg(n) = e
            PROVE  n \in G
        BY <1>1, <3>1
      <3>2. ASSUME NEW i \in DOMAIN up[e]
            PROVE  up[e][i] \in G
        <4>1. PICK n \in Msgs : n = up[e][i]
          BY <2>1, ElementOf
        <4>2. Sent(n) /\ EngineOfMsg(n) = e
          BY <4>1 DEF Traced, PipesSent
        <4> QED BY <3>1, <4>1, <4>2
      <3>3. ASSUME NEW i \in DOMAIN held[e]
            PROVE  held[e][i] \in G
        <4>1. PICK n \in Msgs : n = held[e][i]
          BY <2>1, ElementOf
        <4>2. Sent(n) /\ EngineOfMsg(n) = e
          BY <4>1 DEF Traced, PipesSent
        <4> QED BY <3>1, <4>1, <4>2
      <3> QED BY <3>2, <3>3
    <2>3. PipeMoves(e)
      BY PipeSteps
    <2>4. ASSUME NEW m \in Msgs, EngineOfMsg(m) = e, Eligible(m)
          PROVE  m \in G
      <3>1. Sent(m)
        BY <2>4 DEF Eligible, Traced, UnsentBlank
      <3> QED BY <1>1, <2>4, <3>1
    <2> HIDE DEF G
    <2>5. ASSUME NEW q \in Seq(Msgs), \A i \in DOMAIN q : q[i] \in G, NEW m \in Msgs, m \in G
          PROVE  \A i \in DOMAIN Append(q, m) : Append(q, m)[i] \in G
      BY <2>5, AppendOnly
    <2>6. ASSUME NEW q \in Seq(Msgs), \A i \in DOMAIN q : q[i] \in G, q # <<>>
          PROVE  \A i \in DOMAIN Tail(q) : Tail(q)[i] \in G
      BY <2>6, TailOnly
    <2> DEFINE All(q) == \A i \in DOMAIN q : q[i] \in G
    <2>a. All(<<>>)
      OBVIOUS
    <2>b. All(up[e]) /\ All(held[e])
      BY <2>2
    <2>c. \A q \in Seq(Msgs) : All(q) => /\ \A m \in Msgs : m \in G => All(Append(q, m))
                                         /\ q # <<>> => All(Tail(q))
      BY <2>5, <2>6
    <2> HIDE DEF All
    <2>8. All(up'[e]) /\ All(held'[e])
      BY <2>1, <2>3, <2>4, <2>a, <2>b, <2>c DEF PipeMoves
    <2> QED BY <2>8 DEF All, G
  <1> QED BY <1>2 DEF PipesSent

\* Only what was sent is taken.
LEMMA TakenKept ==
    ASSUME Shape, Rest, Traced, [Next]_vars
    PROVE  TakenSent'
  <1>1. \A n \in Msgs : Sent(n) => Sent(n)'
    BY QueueKept DEF Traced
  <1>2. promised' = promised \/ \E e \in Engines : Take(e)
    BY Steps DEF vars, intakeVars, TypeHead, DropHead, ForgetHead, Commit, SessionFlips,
                 PipeDrops, EngineDies, PageDies
  <1>3. ASSUME NEW e \in Engines, Take(e)
        PROVE  TakenSent'
    <2>1. up[e] # <<>> /\ promised' \subseteq promised \cup {Head(up[e])}
      BY <1>3 DEF Take
    <2>2. 1 \in DOMAIN up[e] /\ Head(up[e]) = up[e][1] /\ Head(up[e]) \in Msgs
      BY <2>1, HasElement, HeadAndTail DEF Shape
    <2>3. Sent(Head(up[e]))
      BY <2>2 DEF Traced, PipesSent
    <2> QED BY <1>1, <2>1, <2>2, <2>3 DEF Traced, TakenSent, Shape
  <1> QED BY <1>1, <1>2, <1>3 DEF Traced, TakenSent, Shape

\* Traced is inductive, given the rest.
LEMMA TracedKept ==
    ASSUME Shape, Rest, Slots, Truth, Traced, [Next]_vars
    PROVE  Traced'
  <1>1. SentOnce'
    BY QueueKept DEF Traced
  <1> QED BY <1>1, BlankKept, PipesKept, TakenKept DEF Traced

\* What every behaviour keeps, whatever the faults.
Sound == Shape /\ Rest /\ Slots /\ Truth /\ Traced /\ Apart

LEMMA SoundInit == Init => Sound
  <1> SUFFICES ASSUME Init PROVE Sound
    OBVIOUS
  <1>1. Shape /\ Truth
    BY ShapeInit, TruthInit
  <1>2. Slots
    BY WireAssumption DEF Init, OutboxInit, Slots, InflightHoldsSlot
  <1>3. Rest
    BY RestInit
  <1>4. Traced
    BY DEF Init, WireInit, OutboxInit, IntakeInit, Traced, SentOnce, UnsentBlank, PipesSent,
           TakenSent, DraftsAgree
  <1>5. Apart
    BY DEF Init, WireInit, OutboxInit, Apart
  <1> QED BY <1>1, <1>2, <1>3, <1>4, <1>5 DEF Sound

LEMMA SoundKept ==
    ASSUME Sound, [Next]_vars
    PROVE  Sound'
  BY ShapeKept, RestKept, SlotsKept, TruthKept, TracedKept, ApartKept DEF Sound

-----------------------------------------------------------------------------
(* The line of a session: the messages of its chain, behind those of its   *)
(* chat.                                                                   *)
Ids(s) == [i \in DOMAIN chain[s] |-> chain[s][i].id]

LineMoves(s) ==
    \/ /\ Ids(s)' = Ids(s) /\ chat'[s] = chat[s] /\ (s \in typed' <=> s \in typed)
       /\ reached' = reached \/ \E r \in Sessions \ {s} : TypeHead(r)
    \/ TypeHead(s) /\ Ids(s)' = Ids(s) /\ chat'[s] = chat[s]
    \/ "enginedies" \in Faults /\ Ids(s)' = <<>> /\ chat'[s] = chat[s]
    \/ \E m \in Msgs :
          /\ SessionOf[m] = s /\ ~Known(m) /\ reached' = reached
          /\ \E e \in Engines : up[e] # <<>> /\ m = Head(up[e])
          /\ Ids(s)' = Append(Ids(s), m)
          /\ chat'[s] = chat[s] /\ typed' = typed
    \/ /\ Ids(s) # <<>> /\ s \notin typed
       /\ status[s] # "live" \/ "refuse" \in Faults
       /\ Ids(s)' = Tail(Ids(s)) /\ chat'[s] = chat[s]
       /\ typed' = typed /\ reached' = reached
    \/ /\ Ids(s) # <<>> /\ s \in typed
       /\ Ids(s)' = Tail(Ids(s)) /\ chat'[s] = Append(chat[s], Head(Ids(s)))
       /\ typed' = typed \ {s} /\ reached' = reached

\* What is in a chain, said with the ids.
LEMMA IdsOf ==
    ASSUME Shape, NEW s \in Sessions
    PROVE  /\ Ids(s) \in Seq(Msgs) /\ DOMAIN Ids(s) = DOMAIN chain[s]
           /\ \A i \in DOMAIN chain[s] : Ids(s)[i] = chain[s][i].id
           /\ Ids(s) # <<>> <=> chain[s] # <<>>
           /\ chain[s] # <<>> => /\ Head(Ids(s)) = Head(chain[s]).id
                                 /\ Tail(Ids(s)) = [i \in DOMAIN Tail(chain[s]) |-> Tail(chain[s])[i].id]
  <1> DEFINE C == [id : Msgs, open : BOOLEAN]
  <1>1. PICK c \in Seq(C) : c = chain[s]
    BY DEF Shape
  <1>2. PICK n \in Nat : n = Len(c) /\ DOMAIN c = 1..n
    OBVIOUS
  <1>3. \A i \in 1..n : c[i].id \in Msgs
    <2> TAKE i \in 1..n
    <2>1. c[i] \in C
      BY <1>2, ElementOf
    <2> QED BY <2>1
  <1>4. Ids(s) = [i \in 1..n |-> c[i].id]
    BY <1>1, <1>2 DEF Ids
  <1>5. Ids(s) \in Seq(Msgs) /\ Len(Ids(s)) = n /\ DOMAIN Ids(s) = 1..n
    BY <1>3, <1>4
  <1>6. \A i \in 1..n : Ids(s)[i] = c[i].id
    BY <1>4
  <1>7. Ids(s) # <<>> <=> c # <<>>
    BY <1>2, <1>5, HasElement
  <1>8. ASSUME c # <<>>
        PROVE  /\ Head(Ids(s)) = Head(c).id
               /\ Tail(Ids(s)) = [i \in DOMAIN Tail(c) |-> Tail(c)[i].id]
    <2>1. 1 \in 1..n /\ Head(c) = c[1] /\ Head(Ids(s)) = Ids(s)[1]
      BY <1>2, <1>5, <1>7, <1>8, HasElement
    <2>2. n >= 1
      BY <2>1
    <2>q. PICK q \in Seq(Msgs) : q = Ids(s)
      BY <1>5
    <2>3. Len(q) = n /\ q # <<>>
      BY <1>5, <1>7, <1>8, <2>q
    <2>4. /\ Tail(q) \in Seq(Msgs) /\ DOMAIN Tail(q) = 1..(n - 1)
          /\ \A i \in 1..(n - 1) : Tail(q)[i] = q[i + 1]
      BY <2>2, <2>3
    <2>5. DOMAIN Tail(c) = 1..(n - 1) /\ \A i \in 1..(n - 1) : Tail(c)[i] = c[i + 1]
      BY <1>2, <2>2
    <2>6. \A i \in 1..(n - 1) : i + 1 \in 1..n
      BY <2>2
    <2>7. \A i \in 1..(n - 1) : Tail(q)[i] = Tail(c)[i].id
      BY <1>6, <2>4, <2>5, <2>6, <2>q
    <2>8. Tail(q) = [i \in 1..(n - 1) |-> Tail(q)[i]]
      <3>1. PICK t \in Seq(Msgs) : t = Tail(q)
        BY <2>4
      <3>2. Len(t) = n - 1
        BY <2>3, <3>1
      <3>3. t \in [1..(n - 1) -> Msgs]
        BY <3>2
      <3>4. t = [i \in 1..(n - 1) |-> t[i]]
        BY <3>3
      <3> QED BY <3>1, <3>4
    <2>9. Tail(q) = [i \in 1..(n - 1) |-> Tail(c)[i].id]
      BY <2>7, <2>8
    <2> QED BY <1>6, <2>1, <2>5, <2>9, <2>q
  <1> QED BY <1>1, <1>2, <1>5, <1>6, <1>7, <1>8

\* A chain with one message more.
LEMMA IdsAppended ==
    ASSUME Shape, NEW s \in Sessions, NEW x \in [id : Msgs, open : BOOLEAN]
    PROVE  [i \in DOMAIN Append(chain[s], x) |-> Append(chain[s], x)[i].id] = Append(Ids(s), x.id)
  <1> DEFINE C == [id : Msgs, open : BOOLEAN]
  <1>1. PICK c \in Seq(C) : c = chain[s]
    BY DEF Shape
  <1>2. PICK n \in Nat : n = Len(c) /\ DOMAIN c = 1..n
    OBVIOUS
  <1>3. /\ DOMAIN Append(c, x) = 1..(n + 1) /\ Append(c, x)[n + 1] = x
        /\ \A i \in 1..n : Append(c, x)[i] = c[i]
    BY <1>2
  <1>4. PICK q \in Seq(Msgs) : q = Ids(s) /\ DOMAIN q = 1..n /\ \A i \in 1..n : q[i] = c[i].id
    BY <1>1, <1>2, IdsOf
  <1>5. Len(q) = n
    BY <1>2, <1>4
  <1>6. Append(q, x.id) = [i \in 1..(n + 1) |-> IF i = n + 1 THEN x.id ELSE q[i]]
    BY <1>5
  <1>7. \A i \in 1..(n + 1) : Append(c, x)[i].id = IF i = n + 1 THEN x.id ELSE q[i]
    <2> TAKE i \in 1..(n + 1)
    <2>1. i = n + 1 \/ i \in 1..n
      BY <1>2
    <2> QED BY <1>3, <1>4, <2>1
  <1> QED BY <1>1, <1>3, <1>4, <1>6, <1>7

\* InChain and the ids.
LEMMA InChainIds ==
    ASSUME Shape, NEW m \in Msgs
    PROVE  InChain(m) <=> \E i \in DOMAIN Ids(SessionOf[m]) : Ids(SessionOf[m])[i] = m
  BY IdsOf, WireAssumption DEF InChain

\* Every step moves every line like that.
LEMMA LineSteps ==
    ASSUME Shape, Truth, [Next]_vars, NEW s \in Sessions
    PROVE  LineMoves(s)
  <1> DEFINE C == [id : Msgs, open : BOOLEAN]
  <1>a. /\ chain \in [Sessions -> Seq(C)] /\ chat \in [Sessions -> Seq(Msgs)] /\ typed \subseteq Sessions
    BY DEF Shape
  <1>1. ASSUME UNCHANGED <<chain, chat, typed, reached>>
        PROVE  LineMoves(s)
    BY <1>1 DEF LineMoves, Ids
  <1>2. ASSUME NEW e \in Engines, Take(e)
        PROVE  LineMoves(s)
    <2>1. PICK m \in Msgs : m = Head(up[e]) /\ up[e] # <<>>
      BY <1>2, HeadAndTail DEF Take, Shape
    <2>2. UNCHANGED <<typed, chat, reached>>
      BY <1>2 DEF Take
    <2>3. PICK x \in C : x = [id |-> m, open |-> TRUE]
      OBVIOUS
    <2>4. \/ chain' = chain
          \/ ~Known(m) /\ chain' = [chain EXCEPT ![SessionOf[m]] = Append(@, x)]
      BY <1>2, <2>1, <2>3 DEF Take
    <2>5. CASE ~Known(m) /\ chain' = [chain EXCEPT ![SessionOf[m]] = Append(@, x)]
      <3>1. CASE SessionOf[m] = s
        <4>1. chain'[s] = Append(chain[s], x)
          BY <1>a, <2>5, <3>1
        <4>2. Ids(s)' = Append(Ids(s), m)
          BY <2>3, <4>1, IdsAppended DEF Ids
        <4> QED BY <2>1, <2>2, <2>5, <3>1, <4>2 DEF LineMoves
      <3>2. CASE SessionOf[m] # s
        <4>1. chain'[s] = chain[s]
          BY <1>a, <2>5, <3>2
        <4>2. Ids(s)' = Ids(s)
          BY <4>1 DEF Ids
        <4> QED BY <2>2, <4>2 DEF LineMoves
      <3> QED BY <3>1, <3>2
    <2> QED BY <1>1, <2>2, <2>4, <2>5
  <1>3. ASSUME NEW r \in Sessions, TypeHead(r)
        PROVE  LineMoves(s)
    <2>1. UNCHANGED <<chain, chat>> /\ typed' = typed \cup {r}
      BY <1>3 DEF TypeHead
    <2>2. Ids(s)' = Ids(s)
      BY <2>1 DEF Ids
    <2>3. CASE r = s
      BY <1>3, <2>1, <2>2, <2>3 DEF LineMoves
    <2>4. CASE r # s
      BY <1>3, <2>1, <2>2, <2>4 DEF LineMoves
    <2> QED BY <2>3, <2>4
  <1>4. ASSUME NEW r \in Sessions, chain[r] # <<>>, chain' = Dequeued(r)
        PROVE  /\ r # s => Ids(s)' = Ids(s)
               /\ r = s => Ids(s) # <<>> /\ Ids(s)' = Tail(Ids(s))
    <2>1. chain'[r] = Tail(chain[r]) /\ (r # s => chain'[s] = chain[s])
      BY <1>a, <1>4 DEF Dequeued
    <2>2. Ids(s)' = [i \in DOMAIN chain'[s] |-> chain'[s][i].id]
      BY DEF Ids
    <2>3. CASE r = s
      <3>1. Ids(s) # <<>> /\ Tail(Ids(s)) = [i \in DOMAIN Tail(chain[s]) |-> Tail(chain[s])[i].id]
        BY <1>4, <2>3, IdsOf
      <3> QED BY <2>1, <2>2, <2>3, <3>1
    <2>4. CASE r # s
      BY <2>1, <2>4 DEF Ids
    <2> QED BY <2>3, <2>4
  <1>5. ASSUME NEW r \in Sessions, DropHead(r) \/ ForgetHead(r)
        PROVE  LineMoves(s)
    <2>1. /\ chain[r] # <<>> /\ r \notin typed /\ chain' = Dequeued(r)
          /\ status[r] # "live" \/ "refuse" \in Faults
          /\ UNCHANGED <<typed, chat, reached>>
      BY <1>5 DEF DropHead, ForgetHead, Fault
    <2> QED BY <1>4, <2>1 DEF LineMoves
  <1>6. ASSUME NEW r \in Sessions, Commit(r)
        PROVE  LineMoves(s)
    <2>1. /\ chain[r] # <<>> /\ r \in typed /\ chain' = Dequeued(r)
          /\ typed' = typed \ {r} /\ reached' = reached
          /\ chat' = [chat EXCEPT ![r] = Append(@, Head(chain[r]).id)]
      BY <1>6 DEF Commit, Shape
    <2>2. CASE r = s
      <3>1. chat'[s] = Append(chat[s], Head(Ids(s)))
        BY <1>a, <2>1, <2>2, IdsOf
      <3> QED BY <1>4, <2>1, <2>2, <3>1 DEF LineMoves
    <2>3. CASE r # s
      <3>1. chat'[s] = chat[s] /\ (s \in typed' <=> s \in typed)
        BY <1>a, <2>1, <2>3
      <3> QED BY <1>4, <2>1, <2>3, <3>1 DEF LineMoves
    <2> QED BY <2>2, <2>3
  <1>7. ASSUME NEW closed, SocketsClosed(closed), UNCHANGED <<typed, chat, reached>>
        PROVE  LineMoves(s)
    <2>1. DOMAIN chain'[s] = DOMAIN chain[s] /\ \A i \in DOMAIN chain[s] : chain'[s][i].id = chain[s][i].id
      BY <1>7, ClosedChains
    <2>2. Ids(s)' = Ids(s)
      BY <2>1 DEF Ids
    <2> QED BY <1>7, <2>2 DEF LineMoves
  <1>8. ASSUME NEW e \in Engines, EngineDies(e)
        PROVE  LineMoves(s)
    <2>1. /\ "enginedies" \in Faults /\ UNCHANGED <<chat, reached>>
          /\ chain' = [r \in Sessions |-> IF EngineOf[r] = e THEN <<>> ELSE chain[r]]
          /\ typed' = {r \in typed : EngineOf[r] # e}
      BY <1>8 DEF EngineDies, Fault
    <2>2. CASE EngineOf[s] = e
      <3>1. chain'[s] = <<>>
        BY <2>1, <2>2
      <3>2. Ids(s)' = [i \in DOMAIN chain'[s] |-> chain'[s][i].id]
        BY DEF Ids
      <3>3. Ids(s)' = <<>>
        BY <3>1, <3>2
      <3> QED BY <2>1, <3>3 DEF LineMoves
    <2>3. CASE EngineOf[s] # e
      <3>1. chain'[s] = chain[s] /\ (s \in typed' <=> s \in typed)
        BY <2>1, <2>3
      <3>2. Ids(s)' = Ids(s)
        BY <3>1 DEF Ids
      <3> QED BY <2>1, <3>1, <3>2 DEF LineMoves
    <2> QED BY <2>2, <2>3
  <1>9. ASSUME NEW r \in Sessions, SessionFlips(r)
        PROVE  UNCHANGED <<chain, chat, typed, reached>>
    BY <1>9 DEF SessionFlips
  <1> QED BY <1>1, <1>2, <1>3, <1>5, <1>6, <1>7, <1>8, <1>9, Steps
          DEF vars, intakeVars, PipeDrops, PageDies

-----------------------------------------------------------------------------
(* No session has more messages than the engine remembers of it: the bound *)
(* under which a frame written again is always recognised.                 *)
Own(s) == {m \in Msgs : SessionOf[m] = s}
Roomy == \A s \in Sessions : IsFiniteSet(Own(s)) /\ Cardinality(Own(s)) <= CidsKept

(* A line holds each message once: q is what is in its chain, c its chat.  *)
Single(q, c) ==
    /\ \A i, j \in DOMAIN q : q[i] = q[j] => i = j
    /\ \A i, j \in DOMAIN c : c[i] = c[j] => i = j
    /\ \A i \in DOMAIN q : \A j \in DOMAIN c : q[i] # c[j]

LEMMA SingleTail ==
    ASSUME NEW q \in Seq(Msgs), NEW c \in Seq(Msgs), Single(q, c), q # <<>>
    PROVE  Single(Tail(q), c)
  <1>1. \A i \in DOMAIN Tail(q) : i + 1 \in DOMAIN q /\ Tail(q)[i] = q[i + 1] /\ i \in Nat
    OBVIOUS
  <1> QED BY <1>1 DEF Single

LEMMA SingleAppend ==
    ASSUME NEW q \in Seq(Msgs), NEW c \in Seq(Msgs), Single(q, c), NEW m \in Msgs,
           \A i \in DOMAIN q : q[i] # m, \A i \in DOMAIN c : c[i] # m
    PROVE  Single(Append(q, m), c)
  <1>1. \A i \in DOMAIN Append(q, m) : \/ i \in DOMAIN q /\ Append(q, m)[i] = q[i]
                                       \/ i = Len(q) + 1 /\ Append(q, m)[i] = m
    BY AppendOnly
  <1> QED BY <1>1 DEF Single

LEMMA SingleMoved ==
    ASSUME NEW q \in Seq(Msgs), NEW c \in Seq(Msgs), Single(q, c), q # <<>>
    PROVE  Single(Tail(q), Append(c, Head(q)))
  <1>1. \A i \in DOMAIN Tail(q) : i + 1 \in DOMAIN q /\ Tail(q)[i] = q[i + 1] /\ i \in Nat /\ i + 1 # 1
    OBVIOUS
  <1>2. PICK h \in Msgs : h = Head(q) /\ 1 \in DOMAIN q /\ q[1] = h
    BY HasElement, HeadAndTail
  <1>3. \A i \in DOMAIN Append(c, h) : \/ i \in DOMAIN c /\ Append(c, h)[i] = c[i]
                                       \/ i = Len(c) + 1 /\ Append(c, h)[i] = h
    BY AppendOnly
  <1>4. \A i, j \in DOMAIN Tail(q) : Tail(q)[i] = Tail(q)[j] => i = j
    BY <1>1 DEF Single
  <1>5. \A i, j \in DOMAIN Append(c, h) : Append(c, h)[i] = Append(c, h)[j] => i = j
    BY <1>2, <1>3 DEF Single
  <1>6. \A i \in DOMAIN Tail(q) : \A j \in DOMAIN Append(c, h) : Tail(q)[i] # Append(c, h)[j]
    <2> TAKE i \in DOMAIN Tail(q)
    <2> TAKE j \in DOMAIN Append(c, h)
    <2>1. Tail(q)[i] # h
      BY <1>1, <1>2 DEF Single
    <2>2. j \in DOMAIN c => Tail(q)[i] # c[j]
      BY <1>1 DEF Single
    <2> QED BY <1>3, <2>1, <2>2
  <1> QED BY <1>2, <1>4, <1>5, <1>6 DEF Single

(* Every session's line holds each of its messages once.                   *)
Distinct ==
    \A s \in Sessions : /\ Single(Ids(s), chat[s])
                        /\ \A i \in DOMAIN chat[s] : SessionOf[chat[s][i]] = s

\* So nothing in the chat is forgotten.
LEMMA NoneForgotten ==
    ASSUME Roomy, Shape, Distinct, NEW m \in Msgs, Committed(m)
    PROVE  Remembered(m)
  <1> DEFINE s == SessionOf[m]
  <1>1. s \in Sessions /\ CidsKept \in Nat
    BY WireAssumption, IntakeAssumption
  <1>2. PICK c \in Seq(Msgs) : c = chat[s]
    BY <1>1 DEF Shape
  <1>3. PICK n \in Nat : n = Len(c) /\ DOMAIN c = 1..n
    OBVIOUS
  <1>4. c \in Injection(1..n, Own(s))
    <2>1. \A i \in 1..n : c[i] \in Own(s)
      BY <1>1, <1>2, <1>3 DEF Distinct, Own
    <2>2. c \in [1..n -> Own(s)]
      BY <1>3, <2>1
    <2>3. \A i, j \in 1..n : c[i] = c[j] => i = j
      BY <1>1, <1>2, <1>3 DEF Distinct, Single
    <2> QED BY <1>3, <2>2, <2>3 DEF Injection, IsInjective
  <1>5. IsFiniteSet(Own(s)) /\ Cardinality(Own(s)) <= CidsKept /\ Cardinality(Own(s)) \in Nat
    BY <1>1, FS_CardinalityType DEF Roomy
  <1>6. Cardinality(1..n) <= Cardinality(Own(s))
    BY <1>4, <1>5, FS_Injection
  <1>7. Cardinality(1..n) = n
    BY FS_Interval
  <1>8. n <= CidsKept
    BY <1>1, <1>5, <1>6, <1>7
  <1>9. PICK i \in 1..n : c[i] = m
    BY <1>2, <1>3 DEF Committed
  <1>10. i + CidsKept > n
    BY <1>1, <1>8
  <1> QED BY <1>2, <1>3, <1>9, <1>10 DEF Remembered

\* Distinct is inductive, given the rest.
LEMMA DistinctKept ==
    ASSUME Roomy, Sound, Distinct, [Next]_vars
    PROVE  Distinct'
  <1>1. SUFFICES ASSUME NEW s \in Sessions
                 PROVE  /\ Single(Ids(s), chat[s])'
                        /\ \A i \in DOMAIN chat'[s] : SessionOf[chat'[s][i]] = s
    BY DEF Distinct
  <1>2. PICK q \in Seq(Msgs), c \in Seq(Msgs) : q = Ids(s) /\ c = chat[s]
    BY IdsOf DEF Sound, Shape
  <1>3. Single(q, c) /\ \A i \in DOMAIN c : SessionOf[c[i]] = s
    BY <1>2 DEF Distinct
  <1>4. LineMoves(s)
    BY LineSteps DEF Sound
  <1>5. ASSUME Ids(s)' = q, chat'[s] = c
        PROVE  Single(Ids(s)', chat'[s]) /\ \A i \in DOMAIN chat'[s] : SessionOf[chat'[s][i]] = s
    BY <1>3, <1>5
  <1>6. ASSUME Ids(s)' = <<>>, chat'[s] = c
        PROVE  Single(Ids(s)', chat'[s]) /\ \A i \in DOMAIN chat'[s] : SessionOf[chat'[s][i]] = s
    <2>1. Single(<<>>, c)
      BY <1>3 DEF Single
    <2> QED BY <1>3, <1>6, <2>1
  <1>7. ASSUME NEW m \in Msgs, SessionOf[m] = s, ~Known(m), Ids(s)' = Append(q, m), chat'[s] = c
        PROVE  Single(Ids(s)', chat'[s]) /\ \A i \in DOMAIN chat'[s] : SessionOf[chat'[s][i]] = s
    <2>1. ~Committed(m) /\ ~InChain(m)
      BY <1>7, NoneForgotten DEF Known, Sound
    <2>2. \A i \in DOMAIN q : q[i] # m
      BY <1>2, <1>7, <2>1, InChainIds DEF Sound
    <2>3. \A i \in DOMAIN c : c[i] # m
      BY <1>2, <1>7, <2>1 DEF Committed
    <2>4. Single(Append(q, m), c)
      BY <1>3, <2>2, <2>3, SingleAppend
    <2> QED BY <1>3, <1>7, <2>4
  <1>8. ASSUME q # <<>>, Ids(s)' = Tail(q), chat'[s] = c
        PROVE  Single(Ids(s)', chat'[s]) /\ \A i \in DOMAIN chat'[s] : SessionOf[chat'[s][i]] = s
    BY <1>3, <1>8, SingleTail
  <1>9. ASSUME q # <<>>, Ids(s)' = Tail(q), chat'[s] = Append(c, Head(q))
        PROVE  Single(Ids(s)', chat'[s]) /\ \A i \in DOMAIN chat'[s] : SessionOf[chat'[s][i]] = s
    <2>1. Single(Tail(q), Append(c, Head(q)))
      BY <1>3, <1>9, SingleMoved
    <2>2. PICK h \in Msgs : h = Head(q)
      BY <1>9, HeadAndTail
    <2>3. SessionOf[h] = s
      <3>1. 1 \in DOMAIN q /\ q[1] = h
        BY <1>9, <2>2, HasElement
      <3>2. 1 \in DOMAIN chain[s] /\ q[1] = chain[s][1].id
        BY <1>2, <3>1, IdsOf DEF Sound
      <3> QED BY <3>1, <3>2 DEF Sound, Truth, ChainsTrue
    <2>4. \A i \in DOMAIN Append(c, h) : SessionOf[Append(c, h)[i]] = s
      BY <1>3, <2>3, AppendOnly
    <2> QED BY <1>9, <2>1, <2>2, <2>4
  <1>10. Single(Ids(s)', chat'[s]) /\ \A i \in DOMAIN chat'[s] : SessionOf[chat'[s][i]] = s
    BY <1>2, <1>4, <1>5, <1>6, <1>7, <1>8, <1>9 DEF LineMoves
  <1> QED BY <1>10

-----------------------------------------------------------------------------
(* The agent is given each message once while the engine lives: what it    *)
(* was given is in the chat, or at the head of its chain and in the pane.  *)
Handed(m) == Committed(m) \/ (SessionOf[m] \in typed /\ Head(Ids(SessionOf[m])) = m)

Given == \A m \in Msgs : reached[m] <= 1 /\ (reached[m] = 1 => Handed(m))

\* Who is typed is the head of his session's chain.
LEMMA TypedOnes ==
    ASSUME Sound, NEW r \in Sessions, TypeHead(r)
    PROVE  \E h \in Msgs : /\ SessionOf[h] = r /\ h = Head(Ids(r)) /\ InChain(h)
                           /\ reached' = [reached EXCEPT ![h] = @ + 1]
  <1>1. chain[r] # <<>> /\ reached' = [reached EXCEPT ![Head(chain[r]).id] = @ + 1]
    BY DEF TypeHead
  <1>2. 1 \in DOMAIN chain[r] /\ Head(chain[r]) = chain[r][1]
    BY <1>1, HasElement DEF Sound, Shape
  <1>3. PICK h \in Msgs : h = Head(chain[r]).id
    BY <1>1, HeadOfChain DEF Sound
  <1>4. SessionOf[h] = r
    BY <1>2, <1>3 DEF Sound, Truth, ChainsTrue
  <1>5. InChain(h)
    BY <1>2, <1>3, <1>4 DEF InChain
  <1>6. h = Head(Ids(r))
    BY <1>1, <1>3, IdsOf DEF Sound
  <1> QED BY <1>1, <1>3, <1>4, <1>5, <1>6

\* Nobody is on both ends of his session's line.
LEMMA OneEnd ==
    ASSUME Shape, Distinct, NEW m \in Msgs, InChain(m)
    PROVE  ~Committed(m)
  <1>1. PICK i \in DOMAIN Ids(SessionOf[m]) : Ids(SessionOf[m])[i] = m
    BY InChainIds
  <1> QED BY <1>1, WireAssumption DEF Committed, Distinct, Single

LEMMA GivenKept ==
    ASSUME "enginedies" \notin Faults, Sound, Distinct, Given, [Next]_vars
    PROVE  Given'
  <1> SUFFICES ASSUME NEW m \in Msgs
               PROVE  reached'[m] <= 1 /\ (reached'[m] = 1 => Handed(m)')
    BY DEF Given
  <1>1. PICK s \in Sessions : s = SessionOf[m]
    BY WireAssumption
  <1>2. PICK q \in Seq(Msgs), c \in Seq(Msgs) : q = Ids(s) /\ c = chat[s]
    BY IdsOf DEF Sound, Shape
  <1>3. reached[m] \in Nat /\ reached[m] <= 1 /\ (reached[m] = 1 => Handed(m))
    BY DEF Given, Sound, Rest
  <1>4. LineMoves(s)
    BY LineSteps DEF Sound
  <1>5. Handed(m) <=> (\E i \in DOMAIN c : c[i] = m) \/ (s \in typed /\ Head(q) = m)
    BY <1>1, <1>2 DEF Handed, Committed
  <1>6. Handed(m)' <=> (\E i \in DOMAIN chat'[s] : chat'[s][i] = m) \/ (s \in typed' /\ Head(Ids(s)') = m)
    BY <1>1 DEF Handed, Committed
  <1>7. s \in typed => q # <<>>
    BY <1>2, IdsOf DEF Sound, Shape
  <1>8. ASSUME NEW r \in Sessions \ {s}, TypeHead(r)
        PROVE  reached'[m] = reached[m]
    <2>1. PICK h \in Msgs : SessionOf[h] = r /\ reached' = [reached EXCEPT ![h] = @ + 1]
      BY <1>8, TypedOnes
    <2> QED BY <1>1, <1>8, <2>1 DEF Sound, Rest
  <1>9. CASE /\ Ids(s)' = q /\ chat'[s] = c /\ (s \in typed' <=> s \in typed)
             /\ reached' = reached \/ \E r \in Sessions \ {s} : TypeHead(r)
    BY <1>3, <1>5, <1>6, <1>8, <1>9
  <1>10. CASE TypeHead(s) /\ Ids(s)' = q /\ chat'[s] = c
    <2>1. PICK h \in Msgs : /\ SessionOf[h] = s /\ h = Head(q) /\ InChain(h)
                            /\ reached' = [reached EXCEPT ![h] = @ + 1]
      BY <1>2, <1>10, TypedOnes
    <2>2. s \notin typed /\ typed' = typed \cup {s}
      BY <1>10 DEF TypeHead
    <2>3. CASE h = m
      <3>1. reached[m] # 1
        BY <1>1, <2>1, <2>2, <2>3, <1>3, OneEnd DEF Handed, Sound
      <3>2. reached'[m] = reached[m] + 1
        BY <2>1, <2>3 DEF Sound, Rest
      <3>3. Handed(m)'
        BY <1>6, <1>10, <2>1, <2>2, <2>3
      <3> QED BY <1>3, <3>1, <3>2, <3>3
    <2>4. CASE h # m
      <3>1. reached'[m] = reached[m]
        BY <2>1, <2>4 DEF Sound, Rest
      <3> QED BY <1>3, <1>5, <1>6, <1>10, <2>2, <3>1
    <2> QED BY <2>3, <2>4
  <1>11. ASSUME NEW k \in Msgs, Ids(s)' = Append(q, k), chat'[s] = c, typed' = typed, reached' = reached
         PROVE  reached'[m] <= 1 /\ (reached'[m] = 1 => Handed(m)')
    <2>1. q # <<>> => Head(Append(q, k)) = Head(q)
      OBVIOUS
    <2> QED BY <1>3, <1>5, <1>6, <1>7, <1>11, <2>1
  <1>12. CASE s \notin typed /\ chat'[s] = c /\ reached' = reached
    BY <1>3, <1>5, <1>6, <1>12
  <1>13. CASE q # <<>> /\ chat'[s] = Append(c, Head(q)) /\ reached' = reached
    <2>1. PICK h \in Msgs : h = Head(q)
      BY <1>13, HeadAndTail
    <2>2. /\ \A i \in DOMAIN c : i \in DOMAIN Append(c, h) /\ Append(c, h)[i] = c[i]
          /\ Len(c) + 1 \in DOMAIN Append(c, h) /\ Append(c, h)[Len(c) + 1] = h
      OBVIOUS
    <2>3. Handed(m) => Handed(m)'
      BY <1>5, <1>6, <1>13, <2>1, <2>2
    <2> QED BY <1>3, <1>13, <2>3
  <1> QED BY <1>2, <1>4, <1>9, <1>10, <1>11, <1>12, <1>13 DEF LineMoves

(* AtMostOnce: the agent is given no message twice, whatever is lost,      *)
(* repeated, timed out, refused, reloaded or retried, as long as the       *)
(* engine itself lives and remembers what it has taken.                    *)
THEOREM NeverTwice == Roomy /\ "enginedies" \notin Faults => (Spec => []AtMostOnce)
  <1> SUFFICES ASSUME Roomy, "enginedies" \notin Faults PROVE Spec => []AtMostOnce
    OBVIOUS
  <1>1. Init => Distinct
    BY DEF Init, IntakeInit, Distinct, Single, Ids
  <1>2. ASSUME Init PROVE Given
    <2>1. \A m \in Msgs : reached[m] = 0
      BY <1>2 DEF Init, IntakeInit
    <2> SUFFICES ASSUME NEW m \in Msgs
                 PROVE  reached[m] <= 1 /\ (reached[m] = 1 => Handed(m))
      BY DEF Given
    <2>2. PICK n \in Nat : n = 0 /\ reached[m] = n
      BY <2>1
    <2>3. n <= 1 /\ n # 1
      BY <2>2
    <2> QED BY <2>2, <2>3
  <1>3. Sound /\ Distinct /\ Given /\ [Next]_vars => (Sound /\ Distinct /\ Given)'
    BY SoundKept, DistinctKept, GivenKept
  <1>4. Given => AtMostOnce
    BY DEF Given, AtMostOnce
  <1> QED BY <1>1, <1>2, <1>3, <1>4, SoundInit, PTL DEF Spec

-----------------------------------------------------------------------------
(* An engine that keeps its word: it is not restarted, its panes take what *)
(* they are given and no session goes offline or leaves the registry.      *)
Obliging == {"enginedies", "refuse", "offline", "prune"} \cap Faults = {}

AllLive == \A s \in Sessions : status[s] = "live"

LEMMA AllLiveKept ==
    ASSUME Obliging, AllLive, [Next]_vars
    PROVE  AllLive'
  <1>1. ASSUME NEW s \in Sessions
        PROVE  ~SessionFlips(s)
    BY DEF SessionFlips, Fault, Obliging
  <1>2. UNCHANGED status
    BY <1>1, Steps DEF vars, intakeVars, Take, TypeHead, DropHead, ForgetHead, Commit, PipeDrops,
                       EngineDies, PageDies
  <1> QED BY <1>2 DEF AllLive

(* Such an engine answers acks and echoes, nothing else.                   *)
LEMMA AnswersKindly ==
    ASSUME Shape, Unrefused, NEW d \in Engines, NEW open \in BOOLEAN, NEW m \in Msgs,
           NEW t \in {"ack", "echo"}, Answer(d, open, t, m)
    PROVE  Unrefused'
  <1>1. PICK f \in Frames : f = [t |-> t, cid |-> m]
    BY DEF Frames
  <1>2. down' = down \/ down' = [down EXCEPT ![d] = Append(@, f)]
    BY <1>1 DEF Answer
  <1>3. CASE down' = [down EXCEPT ![d] = Append(@, f)]
    <2> SUFFICES ASSUME NEW e \in Engines, NEW i \in DOMAIN down'[e]
                 PROVE  down'[e][i].t \in {"ack", "echo"}
      BY DEF Unrefused
    <2>1. down[e] \in Seq(Frames)
      BY DEF Shape
    <2>2. CASE d = e
      <3>1. down'[e] = Append(down[e], f)
        BY <1>3, <2>2 DEF Shape
      <3>2. down'[e][i] = f \/ (i \in DOMAIN down[e] /\ down'[e][i] = down[e][i])
        BY <2>1, <3>1, AppendOnly
      <3> QED BY <1>1, <3>2 DEF Unrefused
    <2>3. CASE d # e
      <3>1. down'[e] = down[e]
        BY <1>3, <2>3 DEF Shape
      <3> QED BY <3>1 DEF Unrefused
    <2> QED BY <2>2, <2>3
  <1> QED BY <1>2, <1>3 DEF Unrefused

LEMMA UnrefusedKept ==
    ASSUME Obliging, Shape, AllLive, Unrefused, [Next]_vars
    PROVE  Unrefused'
  <1>1. CASE UNCHANGED down
    BY <1>1 DEF Unrefused
  <1>2. ASSUME NEW d \in Engines, down[d] # <<>>, down' = [down EXCEPT ![d] = Tail(@)]
        PROVE  Unrefused'
    <2> SUFFICES ASSUME NEW e \in Engines, NEW i \in DOMAIN down'[e]
                 PROVE  down'[e][i].t \in {"ack", "echo"}
      BY DEF Unrefused
    <2>1. down[e] \in Seq(Frames)
      BY DEF Shape
    <2>2. CASE d = e
      <3>1. down'[e] = Tail(down[e])
        BY <1>2, <2>2 DEF Shape
      <3>2. i + 1 \in DOMAIN down[e] /\ down'[e][i] = down[e][i + 1]
        BY <1>2, <2>1, <2>2, <3>1, TailOnly
      <3> QED BY <3>2 DEF Unrefused
    <2>3. CASE d # e
      <3>1. down'[e] = down[e]
        BY <1>2, <2>3 DEF Shape
      <3> QED BY <3>1 DEF Unrefused
    <2> QED BY <2>2, <2>3
  <1>3. ASSUME NEW d \in Engines, Cut(d)
        PROVE  Unrefused'
    BY <1>3 DEF Cut, Unrefused, Shape
  <1>4. CASE PageDies
    BY <1>4 DEF PageDies, TabDies, Unrefused
  <1>5. ASSUME NEW e \in Engines, Take(e)
        PROVE  Unrefused'
    <2>1. PICK m \in Msgs : m = Head(up[e])
      BY <1>5, HeadAndTail DEF Take, Shape
    <2>2. status[SessionOf[m]] = "live"
      BY WireAssumption DEF AllLive
    <2>3. Answer(e, TRUE, "ack", m)
      BY <1>5, <2>1, <2>2 DEF Take
    <2> QED BY <2>3, AnswersKindly
  <1>6. ASSUME NEW s \in Sessions, Commit(s)
        PROVE  Unrefused'
    <2>1. chain[s] # <<>>
      BY <1>6 DEF Commit, Shape
    <2>2. PICK m \in Msgs : m = Head(chain[s]).id
      BY <2>1, HeadOfChain
    <2>3. Answer(EngineOf[s], PipeUp(EngineOf[s]), "echo", m)
      BY <1>6, <2>2 DEF Commit
    <2>4. EngineOf[s] \in Engines /\ PipeUp(EngineOf[s]) \in BOOLEAN
      BY WireAssumption DEF PipeUp
    <2> QED BY <2>3, <2>4, AnswersKindly
  <1>7. ASSUME NEW s \in Sessions
        PROVE  ~DropHead(s)
    BY DEF DropHead, Fault, Obliging, AllLive
  <1>8. ASSUME NEW e \in Engines, LoseFrame(e) \/ PipeDrops(e) \/ EngineDies(e) \/ Receive(e)
        PROVE  Unrefused'
    <2>1. \/ UNCHANGED down
          \/ down[e] # <<>> /\ down' = [down EXCEPT ![e] = Tail(@)]
          \/ Cut(e)
      BY <1>8 DEF LoseFrame, PipeDrops, EngineDies, Receive
    <2> QED BY <1>1, <1>2, <1>3, <2>1
  <1>9. ASSUME NEW s \in Sessions, TypeHead(s) \/ ForgetHead(s) \/ SessionFlips(s)
        PROVE  UNCHANGED down
    BY <1>9 DEF TypeHead, ForgetHead, SessionFlips, wireVars
  <1>10. ASSUME NEW m \in Msgs, \/ SendText(m) \/ RetrySend(m) \/ DiscardSend(m)
                                \/ AckTimeout(m) \/ TransferResult(m) \/ Flush(m)
                                \/ Age(m) \/ AdmitRow(m)
         PROVE  UNCHANGED down
    BY <1>10 DEF SendText, RetrySend, DiscardSend, AckTimeout, TransferResult, Flush, Age,
                 AdmitRow, wireVars
  <1>11. ASSUME NEW e \in Engines, DrainSend(e) \/ DrainIdle(e) \/ RetryTimer(e)
                                   \/ Seal(e) \/ Settle(e) \/ NoteDown(e)
         PROVE  UNCHANGED down
    BY <1>11 DEF DrainSend, Expire, Write, Hold, DrainIdle, RetryTimer, Seal, Settle, NoteDown, wireVars
  <1> QED BY <1>1, <1>4, <1>5, <1>6, <1>7, <1>8, <1>9, <1>10, <1>11, Steps DEF vars, wireVars

(* What such an engine took is in its session's line until it is in the    *)
(* chat, and there it stays.                                               *)
HoldsPromises == \A m \in promised : InChain(m) \/ Committed(m)

LEMMA LineHolds ==
    ASSUME Obliging, Shape, Truth, AllLive, [Next]_vars, NEW m \in Msgs, InChain(m) \/ Committed(m)
    PROVE  InChain(m)' \/ Committed(m)'
  <1>1. PICK s \in Sessions : s = SessionOf[m]
    BY WireAssumption
  <1>2. PICK q \in Seq(Msgs), c \in Seq(Msgs) : q = Ids(s) /\ c = chat[s]
    BY IdsOf DEF Shape
  <1>3. (\E i \in DOMAIN q : q[i] = m) \/ Committed(m)
    BY <1>1, <1>2, InChainIds
  <1>4. InChain(m)' <=> \E i \in DOMAIN Ids(s)' : Ids(s)'[i] = m
    <2>1. Shape'
      BY ShapeKept
    <2>2. (InChain(m) <=> \E i \in DOMAIN Ids(SessionOf[m]) : Ids(SessionOf[m])[i] = m)'
      BY <2>1, InChainIds, PTL
    <2> QED BY <1>1, <2>2
  <1>5. Committed(m) => Committed(m)'
    BY Monotone
  <1>6. LineMoves(s)
    BY LineSteps
  <1>7. ASSUME NEW k \in Msgs, Ids(s)' = Append(q, k)
        PROVE  InChain(m)' \/ Committed(m)'
    <2>1. \A i \in DOMAIN q : i \in DOMAIN Append(q, k) /\ Append(q, k)[i] = q[i]
      OBVIOUS
    <2> QED BY <1>3, <1>4, <1>5, <1>7, <2>1
  <1>8. CASE q # <<>> /\ Ids(s)' = Tail(q) /\ chat'[s] = Append(c, Head(q))
    <2>1. PICK h \in Msgs : h = Head(q) /\ q[1] = h
      BY <1>8, HasElement, HeadAndTail
    <2>2. Len(c) + 1 \in DOMAIN Append(c, h) /\ Append(c, h)[Len(c) + 1] = h
      OBVIOUS
    <2>3. h = m => Committed(m)'
      BY <1>1, <1>8, <2>1, <2>2 DEF Committed
    <2>4. \A i \in DOMAIN q : i = 1 \/ (i - 1 \in DOMAIN Tail(q) /\ Tail(q)[i - 1] = q[i])
      BY <1>8
    <2> QED BY <1>3, <1>4, <1>5, <1>8, <2>1, <2>3, <2>4
  <1>9. ~("enginedies" \in Faults) /\ ~(status[s] # "live" \/ "refuse" \in Faults)
    BY DEF Obliging, AllLive
  <1>10. Ids(s)' = q => InChain(m)' \/ Committed(m)'
    BY <1>3, <1>4, <1>5
  <1> QED BY <1>2, <1>6, <1>7, <1>8, <1>9, <1>10 DEF LineMoves

LEMMA PromisesKept ==
    ASSUME Obliging, Shape, Truth, AllLive, HoldsPromises, [Next]_vars
    PROVE  HoldsPromises'
  <1>1. \A m \in promised : InChain(m)' \/ Committed(m)'
    BY LineHolds DEF HoldsPromises, Shape
  <1>2. promised' = promised \/ \E e \in Engines : Take(e)
    BY Steps DEF vars, intakeVars, TypeHead, DropHead, ForgetHead, Commit, SessionFlips,
                 PipeDrops, EngineDies, PageDies
  <1>3. ASSUME NEW e \in Engines, Take(e)
        PROVE  HoldsPromises'
    <2>1. PICK m \in Msgs : m = Head(up[e])
      BY <1>3, HeadAndTail DEF Take, Shape
    <2>2. status[SessionOf[m]] = "live" /\ SessionOf[m] \in Sessions
      BY WireAssumption DEF AllLive
    <2>3. /\ promised' = promised \cup {m}
          /\ chain' = IF Known(m) THEN chain
                      ELSE [chain EXCEPT ![SessionOf[m]] = Append(@, [id |-> m, open |-> TRUE])]
      BY <1>3, <2>1, <2>2 DEF Take
    <2>4. CASE Known(m)
      <3>1. InChain(m) \/ Committed(m)
        BY <2>4 DEF Known, Remembered, Committed
      <3> QED BY <1>1, <2>3, <3>1, LineHolds DEF HoldsPromises
    <2>5. CASE ~Known(m)
      <3> DEFINE C == [id : Msgs, open : BOOLEAN]
      <3>1. PICK c \in Seq(C), x \in C : c = chain[SessionOf[m]] /\ x = [id |-> m, open |-> TRUE]
        BY <2>2 DEF Shape
      <3>2. chain'[SessionOf[m]] = Append(c, x)
        BY <2>2, <2>3, <2>5, <3>1 DEF Shape
      <3>3. Len(c) + 1 \in DOMAIN Append(c, x) /\ Append(c, x)[Len(c) + 1] = x
        OBVIOUS
      <3>4. InChain(m)'
        BY <3>1, <3>2, <3>3 DEF InChain
      <3> QED BY <1>1, <2>3, <3>4 DEF HoldsPromises
    <2> QED BY <2>4, <2>5
  <1> QED BY <1>1, <1>2, <1>3 DEF HoldsPromises

LEMMA ObligingInit == Init => AllLive /\ Unrefused /\ HoldsPromises
  BY DEF Init, WireInit, IntakeInit, AllLive, Unrefused, HoldsPromises

(* AllAccountedFor: while the engine keeps its word, every message shown   *)
(* as sent is on its way to the agent, and none the user sent and did not  *)
(* discard is nowhere, through drops, losses, reloads and taps.            *)
THEOREM NoneLost == Obliging => (Spec => []AllAccountedFor)
  <1> SUFFICES ASSUME Obliging PROVE Spec => []AllAccountedFor
    OBVIOUS
  <1>1. /\ Sound /\ AllLive /\ HoldsPromises /\ [Next]_vars
        => (Sound /\ AllLive /\ HoldsPromises)'
    BY SoundKept, AllLiveKept, PromisesKept DEF Sound
  <1>2. Sound /\ HoldsPromises => AllAccountedFor
    BY DEF Sound, Truth, HonestTicks, RowsKept, HoldsPromises, AllAccountedFor, SentIsOwed,
           NothingVanishes
  <1> QED BY <1>1, <1>2, SoundInit, ObligingInit, PTL DEF Spec

-----------------------------------------------------------------------------
(* Order.  Paced: m and n are of one session, the user touched neither     *)
(* again, and m is owed before n.  Parted: m is not written any more       *)
(* before the user touches it, having waited too long or having lost its   *)
(* row.                                                                    *)
Paced(m, n) ==
    SessionOf[m] = SessionOf[n] /\ tapped[m] = "none" /\ tapped[n] = "none" /\ Before(m, n)

Parted(m) == m \in old \/ live[m] = "draft"

Within(u, m) == \E i \in DOMAIN u : u[i] = m
OnWay(m) == Within(up[EngineOfMsg(m)], m) \/ Within(held[EngineOfMsg(m)], m)

Precede(u, m, n) == \A i, j \in DOMAIN u : u[i] = m /\ u[j] = n => i < j

(* An untouched row not taken is failed for its age only.                  *)
Aged ==
    \A m \in Msgs : tapped[m] = "none" /\ m \notin promised
                    => (live[m] = "failed" \/ disk[m] = "failed" => m \in old)

(* What may have passed what: n is taken before m, or is on its way while  *)
(* m is not taken, only if m is parted.  The frames on the way up are      *)
(* repeated, but in order.                                                 *)
Passed ==
    \A m \in Msgs \ promised, n \in Msgs :
        Paced(m, n) =>
            /\ n \in promised => ~OnWay(m) /\ Parted(m)
            /\ OnWay(n) => Parted(m)
            /\ Precede(up[EngineOfMsg(m)], m, n)
            /\ Precede(held[EngineOfMsg(m)], m, n)

\* No step makes m owed before an n that was sent already.
LEMMA PacedBefore ==
    ASSUME Sound, [Next]_vars, NEW m \in Msgs, NEW n \in Msgs, Paced(m, n)', Sent(n)
    PROVE  Paced(m, n)
  <1>0. /\ SessionOf[m] = SessionOf[n] /\ tapped'[m] = "none" /\ tapped'[n] = "none"
        /\ Before(m, n)'
    BY DEF Paced
  <1>1. PICK i \in DOMAIN fifo', j \in DOMAIN fifo' : i < j /\ fifo'[i] = m /\ fifo'[j] = n
    BY <1>0 DEF Before
  <1>a. fifo \in Seq(Msgs) /\ tapped \in [Msgs -> Taps] /\ SentOnce
    BY DEF Sound, Shape, Rest, Traced
  <1>2. CASE UNCHANGED <<fifo, tapped>>
    BY <1>0, <1>2 DEF Paced, Before
  <1>3. ASSUME NEW k \in Msgs, fifo' = fifo, tapped' = [tapped EXCEPT ![k] = "discarded"]
        PROVE  Paced(m, n)
    <2>1. tapped[m] = "none" /\ tapped[n] = "none"
      BY <1>0, <1>a, <1>3
    <2> QED BY <1>0, <1>3, <2>1 DEF Paced, Before
  <1>4. ASSUME NEW k \in Msgs, ~Sent(k), fifo' = Append(fifo, k), tapped' = tapped
        PROVE  Paced(m, n)
    <2>1. PICK l \in Nat : l = Len(fifo) /\ DOMAIN fifo = 1..l
      BY <1>a
    <2>2. /\ DOMAIN fifo' = 1..(l + 1) /\ fifo'[l + 1] = k
          /\ \A p \in 1..l : fifo'[p] = fifo[p]
      BY <1>a, <1>4, <2>1
    <2>3. j # l + 1
      BY <1>1, <1>4, <2>2
    <2>4. i \in 1..l /\ j \in 1..l
      BY <1>1, <2>1, <2>2, <2>3
    <2>5. Before(m, n)
      BY <1>1, <2>1, <2>2, <2>4 DEF Before
    <2> QED BY <1>0, <1>4, <2>5 DEF Paced
  <1>5. ASSUME NEW k \in Msgs, Sent(k), fifo' = ToBack(k), tapped' = [tapped EXCEPT ![k] = "retried"]
        PROVE  Paced(m, n)
    <2>1. tapped[m] = "none" /\ tapped[n] = "none" /\ m # k /\ n # k
      BY <1>0, <1>a, <1>5
    <2>2. DOMAIN fifo' = DOMAIN fifo
      BY <1>a, <1>5, ToBackType
    <2>3. ToBack(k)[i] = m /\ ToBack(k)[j] = n
      BY <1>1, <1>5
    <2>4. \E p, q \in DOMAIN fifo : p < q /\ fifo[p] = m /\ fifo[q] = n
      BY <1>1, <1>a, <1>5, <2>1, <2>2, <2>3, ToBackKeeps
    <2>5. Before(m, n)
      BY <2>4 DEF Before
    <2> QED BY <1>0, <2>1, <2>5 DEF Paced
  <1> QED BY <1>2, <1>3, <1>4, <1>5, QueueSteps DEF Sound, Traced

\* An untouched row that failed for its age stays old, and a parted one parted.
LEMMA StaysOld ==
    ASSUME [Next]_vars, NEW m \in Msgs, m \in old, ~RetrySend(m)
    PROVE  m \in old'
  <1>1. ASSUME NEW n \in Msgs, RetrySend(n)
        PROVE  m \in old'
    BY <1>1 DEF RetrySend
  <1>2. ASSUME NEW n \in Msgs, \/ SendText(n) \/ DiscardSend(n) \/ AckTimeout(n) \/ TransferResult(n)
                               \/ Flush(n) \/ Age(n) \/ AdmitRow(n)
        PROVE  m \in old'
    BY <1>2 DEF SendText, DiscardSend, AckTimeout, TransferResult, Flush, Age, AdmitRow
  <1>3. ASSUME NEW e \in Engines, \/ DrainSend(e) \/ DrainIdle(e) \/ RetryTimer(e)
                                  \/ Receive(e) \/ Seal(e) \/ Settle(e) \/ NoteDown(e)
        PROVE  m \in old'
    BY <1>3 DEF DrainSend, DrainIdle, RetryTimer, Receive, Seal, Settle, NoteDown
  <1>4. CASE PageDies
    BY <1>4 DEF PageDies, TabDies
  <1>5. CASE UNCHANGED outboxVars
    BY <1>5 DEF outboxVars
  <1> QED BY <1>1, <1>2, <1>3, <1>4, <1>5, Steps DEF vars

LEMMA Untouched ==
    ASSUME Shape, NEW m \in Msgs, tapped'[m] = "none"
    PROVE  ~RetrySend(m)
  BY DEF RetrySend, Shape

LEMMA PartedStays ==
    ASSUME Sound, Unrefused, [Next]_vars, NEW m \in Msgs, Sent(m), m \notin promised',
           tapped'[m] = "none", Parted(m)
    PROVE  Parted(m)'
  <1>1. ~RetrySend(m)
    BY Untouched DEF Sound
  <1>2. m \in old => m \in old'
    BY <1>1, StaysOld
  <1>3. m \notin promised
    BY Monotone DEF Sound
  <1>4. ~SendText(m)
    BY DEF SendText, Sent
  <1>5. RowMoves(m)
    BY RowSteps DEF Sound
  <1>6. ASSUME live[m] = "draft"
        PROVE  live'[m] = "draft"
    <2>1. disk[m] = "draft"
      BY <1>6 DEF Sound, Traced, DraftsAgree
    <2> QED BY <1>1, <1>3, <1>4, <1>5, <1>6, <2>1 DEF RowMoves, Owed
  <1> QED BY <1>2, <1>6 DEF Parted

LEMMA AgedKept ==
    ASSUME Sound, Unrefused, Aged, [Next]_vars
    PROVE  Aged'
  <1> SUFFICES ASSUME NEW m \in Msgs, tapped'[m] = "none", m \notin promised',
                      live'[m] = "failed" \/ disk'[m] = "failed"
               PROVE  m \in old'
    BY DEF Aged
  <1>1. ~RetrySend(m)
    BY Untouched DEF Sound
  <1>2. m \notin promised
    BY Monotone DEF Sound
  <1>3. tapped[m] = "none"
    <2>1. tapped \in [Msgs -> Taps]
      BY DEF Sound, Shape
    <2> QED BY <2>1, QueueSteps DEF Sound, Traced
  <1>4. live[m] = "failed" \/ disk[m] = "failed" => m \in old
    BY <1>2, <1>3 DEF Aged
  <1>5. RowMoves(m)
    BY RowSteps DEF Sound
  <1>6. m \in old
    BY <1>1, <1>2, <1>4, <1>5 DEF RowMoves, Owed
  <1> QED BY <1>1, <1>6, StaysOld

-----------------------------------------------------------------------------
(* Queues and order. *)
LEMMA PrecedeTail ==
    ASSUME NEW u \in Seq(Msgs), u # <<>>, NEW m, NEW n, Precede(u, m, n)
    PROVE  Precede(Tail(u), m, n)
  <1>1. \A i \in DOMAIN Tail(u) : i \in Nat /\ i + 1 \in DOMAIN u /\ Tail(u)[i] = u[i + 1]
    OBVIOUS
  <1> QED BY <1>1 DEF Precede

LEMMA PrecedeAppend ==
    ASSUME NEW u \in Seq(Msgs), NEW m, NEW n, m # n, Precede(u, m, n), NEW k \in Msgs,
           k = m => ~Within(u, n)
    PROVE  Precede(Append(u, k), m, n)
  <1>1. PICK l \in Nat : l = Len(u) /\ DOMAIN u = 1..l
    OBVIOUS
  <1>2. /\ DOMAIN Append(u, k) = 1..(l + 1) /\ Append(u, k)[l + 1] = k
        /\ \A i \in 1..l : Append(u, k)[i] = u[i]
    BY <1>1
  <1> SUFFICES ASSUME NEW i \in 1..(l + 1), NEW j \in 1..(l + 1),
                      Append(u, k)[i] = m, Append(u, k)[j] = n
               PROVE  i < j
    BY <1>2 DEF Precede
  <1>3. CASE i = l + 1
    <2>1. k = m /\ j \in 1..l
      BY <1>2, <1>3
    <2> QED BY <1>1, <1>2, <2>1 DEF Within
  <1>4. CASE i \in 1..l /\ j = l + 1
    BY <1>4
  <1>5. CASE i \in 1..l /\ j \in 1..l
    BY <1>1, <1>2, <1>5 DEF Precede
  <1> QED BY <1>3, <1>4, <1>5

LEMMA WithinTail ==
    ASSUME NEW u \in Seq(Msgs), u # <<>>, NEW m, Within(Tail(u), m)
    PROVE  Within(u, m)
  BY TailOnly DEF Within

LEMMA WithinAppend ==
    ASSUME NEW u \in Seq(Msgs), NEW k \in Msgs, NEW m, Within(Append(u, k), m)
    PROVE  Within(u, m) \/ k = m
  BY AppendOnly DEF Within

\* What is written now: the oldest queued send of a session with none in flight.
Written(k) == Eligible(k) /\ k \notin old /\ UNCHANGED <<fifo, tapped, old, promised>>

\* What is on its way was before, or is written now.
LEMMA WayBefore ==
    ASSUME Sound, [Next]_vars, NEW m \in Msgs, OnWay(m)'
    PROVE  OnWay(m) \/ Written(m)
  <1>1. PICK e \in Engines : e = EngineOfMsg(m)
    BY WireAssumption DEF EngineOfMsg
  <1>2. PICK u \in Seq(Msgs), h \in Seq(Msgs) : u = up[e] /\ h = held[e]
    BY DEF Sound, Shape
  <1>3. Within(up'[e], m) \/ Within(held'[e], m)
    BY <1>1 DEF OnWay
  <1>4. SUFFICES ASSUME ~Written(m) PROVE Within(u, m) \/ Within(h, m)
    BY <1>1, <1>2 DEF OnWay
  <1>5. PipeMoves(e)
    BY PipeSteps DEF Sound
  <1>6. ~Within(<<>>, m)
    BY DEF Within
  <1>7. ASSUME NEW k \in Msgs, Written(k), \/ up'[e] = Append(u, k) /\ held'[e] = h
                                           \/ up'[e] = u /\ held'[e] = Append(h, k)
        PROVE  Within(u, m) \/ Within(h, m)
    <2>1. k # m
      BY <1>4, <1>7
    <2>2. CASE up'[e] = Append(u, k) /\ held'[e] = h
      BY <1>3, <2>1, <2>2, WithinAppend
    <2>3. CASE up'[e] = u /\ held'[e] = Append(h, k)
      BY <1>3, <2>1, <2>3, WithinAppend
    <2> QED BY <1>7, <2>2, <2>3
  <1>8. ASSUME u # <<>>, up'[e] = Tail(u), held'[e] = h
        PROVE  Within(u, m) \/ Within(h, m)
    <2>1. CASE Within(Tail(u), m)
      BY <1>8, <2>1, WithinTail
    <2>2. CASE Within(h, m)
      BY <2>2
    <2> QED BY <1>3, <1>8, <2>1, <2>2
  <1>9. CASE \E k \in Msgs : /\ Written(k)
                             /\ \/ up'[e] = Append(u, k) /\ held'[e] = h
                                \/ up'[e] = u /\ held'[e] = Append(h, k)
    BY <1>7, <1>9
  <1>10. CASE \/ up'[e] = u /\ held'[e] = h
              \/ up'[e] = <<>> /\ held'[e] \in {h, <<>>}
              \/ up'[e] = h /\ held'[e] = <<>>
    BY <1>3, <1>6, <1>10
  <1> QED BY <1>2, <1>5, <1>8, <1>9, <1>10 DEF PipeMoves, Written

\* What is on its way or taken was sent.
LEMMA WaySent ==
    ASSUME Sound, NEW m \in Msgs, OnWay(m) \/ m \in promised
    PROVE  Sent(m)
  <1>1. EngineOfMsg(m) \in Engines
    BY WireAssumption DEF EngineOfMsg
  <1> QED BY <1>1 DEF OnWay, Within, Sound, Traced, PipesSent, TakenSent

\* What an engine takes anew it takes from the pipe.
LEMMA TakenNow ==
    ASSUME Sound, [Next]_vars, NEW n \in Msgs, n \in promised', n \notin promised
    PROVE  up[EngineOfMsg(n)] # <<>> /\ up[EngineOfMsg(n)][1] = n
  <1>1. promised' = promised \/ \E e \in Engines : Take(e)
    BY Steps DEF vars, intakeVars, TypeHead, DropHead, ForgetHead, Commit, SessionFlips,
                 PipeDrops, EngineDies, PageDies
  <1>2. PICK e \in Engines : Take(e)
    BY <1>1
  <1>3. up[e] # <<>> /\ promised' \subseteq promised \cup {Head(up[e])}
    BY <1>2 DEF Take
  <1>4. n = Head(up[e]) /\ 1 \in DOMAIN up[e] /\ Head(up[e]) = up[e][1]
    BY <1>3, HasElement DEF Sound, Shape
  <1>5. EngineOfMsg(n) = e
    BY <1>4 DEF Sound, Traced, PipesSent
  <1> QED BY <1>3, <1>4, <1>5

\* Two messages of one queue are two.
LEMMA PacedApart ==
    ASSUME Sound, NEW m \in Msgs, NEW n \in Msgs, Paced(m, n)
    PROVE  m # n /\ EngineOfMsg(m) = EngineOfMsg(n) /\ Sent(m) /\ Sent(n)
  <1>1. PICK i \in DOMAIN fifo, j \in DOMAIN fifo : i < j /\ fifo[i] = m /\ fifo[j] = n
    BY DEF Paced, Before
  <1>2. i \in Nat /\ j \in Nat
    BY <1>1 DEF Sound, Rest
  <1>3. m # n
    BY <1>1, <1>2 DEF Sound, Traced, SentOnce
  <1> QED BY <1>1, <1>3 DEF Paced, EngineOfMsg, Sent

\* A message is written past an untouched one of its session if that is parted.
LEMMA PassesParted ==
    ASSUME Sound, Aged, NEW m \in Msgs \ promised, NEW n \in Msgs, Paced(m, n), Eligible(n)
    PROVE  Parted(m)
  <1>1. SessionOf[m] = SessionOf[n] /\ tapped[m] = "none" /\ Before(m, n)
    BY DEF Paced
  <1>2. live[m] # "queued" /\ slot[SessionOf[n]] = "none"
    BY <1>1 DEF Eligible
  <1>3. live[m] # "inflight"
    BY <1>1, <1>2, WireAssumption DEF Sound, Slots, InflightHoldsSlot
  <1>4. live[m] # "absent"
    BY <1>1 DEF Sound, Truth, RowsKept
  <1>5. live[m] = "failed" => m \in old
    BY <1>1 DEF Aged
  <1>6. live[m] \in RowStates
    BY DEF Sound, Shape
  <1> QED BY <1>2, <1>3, <1>4, <1>5, <1>6 DEF RowStates, Parted

\* The order on the way up, through one step.
LEMMA WayOrder ==
    ASSUME Sound, [Next]_vars, NEW m \in Msgs, NEW n \in Msgs, m # n, NEW e \in Engines,
           Precede(up[e], m, n), Precede(held[e], m, n),
           Written(m) => ~Within(up[e], n) /\ ~Within(held[e], n)
    PROVE  Precede(up'[e], m, n) /\ Precede(held'[e], m, n)
  <1>1. PICK u \in Seq(Msgs), h \in Seq(Msgs) : u = up[e] /\ h = held[e]
    BY DEF Sound, Shape
  <1>2. PipeMoves(e)
    BY PipeSteps DEF Sound
  <1>3. Precede(<<>>, m, n) /\ Precede(u, m, n) /\ Precede(h, m, n)
    BY <1>1 DEF Precede
  <1>4. ASSUME NEW k \in Msgs, Written(k)
        PROVE  Precede(Append(u, k), m, n) /\ Precede(Append(h, k), m, n)
    <2>1. k = m => ~Within(u, n) /\ ~Within(h, n)
      BY <1>1, <1>4
    <2> QED BY <1>3, <2>1, PrecedeAppend
  <1>5. u # <<>> => Precede(Tail(u), m, n)
    BY <1>3, PrecedeTail
  <1>6. CASE \E k \in Msgs : /\ Written(k)
                             /\ \/ up'[e] = Append(u, k) /\ held'[e] = h
                                \/ up'[e] = u /\ held'[e] = Append(h, k)
    BY <1>3, <1>4, <1>6
  <1>7. CASE \/ up'[e] = u /\ held'[e] = h
             \/ up'[e] = <<>> /\ held'[e] \in {h, <<>>}
             \/ up'[e] = h /\ held'[e] = <<>>
             \/ u # <<>> /\ up'[e] = Tail(u) /\ held'[e] = h
    BY <1>3, <1>5, <1>7
  <1> QED BY <1>1, <1>2, <1>6, <1>7 DEF PipeMoves, Written

\* Passed is inductive, given the rest.
LEMMA PassedKept ==
    ASSUME Sound, Unrefused, Aged, Passed, [Next]_vars
    PROVE  Passed'
  <1> SUFFICES ASSUME NEW m \in Msgs, m \notin promised', NEW n \in Msgs, Paced(m, n)'
               PROVE  /\ n \in promised' => ~OnWay(m)' /\ Parted(m)'
                      /\ OnWay(n)' => Parted(m)'
                      /\ Precede(up[EngineOfMsg(m)], m, n)'
                      /\ Precede(held[EngineOfMsg(m)], m, n)'
    BY DEF Passed
  <1>1. PICK e \in Engines : e = EngineOfMsg(m)
    BY WireAssumption DEF EngineOfMsg
  <1>2. m \notin promised
    BY Monotone DEF Sound
  <1>3. tapped'[m] = "none" /\ SessionOf[m] = SessionOf[n] /\ EngineOfMsg(n) = e
    BY <1>1 DEF Paced, EngineOfMsg
  <1>s. Precede(up[EngineOfMsg(m)], m, n)' <=> Precede(up'[e], m, n)
    BY <1>1 DEF Precede, EngineOfMsg
  <1>t. Precede(held[EngineOfMsg(m)], m, n)' <=> Precede(held'[e], m, n)
    BY <1>1 DEF Precede, EngineOfMsg
  <1>u. OnWay(n)' <=> Within(up'[e], n) \/ Within(held'[e], n)
    BY <1>3 DEF OnWay, EngineOfMsg, Within
  <1>a. up[e] \in Seq(Msgs) /\ held[e] \in Seq(Msgs)
    BY DEF Sound, Shape
  <1>4. CASE ~Sent(n)
    <2>1. n \notin promised /\ ~OnWay(n)
      BY <1>4, WaySent
    <2>2. ~OnWay(n)'
      <3>1. ~Written(n)
        BY <1>4 DEF Written, Eligible, Sound, Traced, UnsentBlank
      <3> QED BY <2>1, <3>1, WayBefore
    <2>3. n \notin promised'
      <3> SUFFICES ASSUME n \in promised' PROVE FALSE
        OBVIOUS
      <3>1. up[e] # <<>> /\ up[e][1] = n
        BY <1>3, <2>1, TakenNow
      <3>2. OnWay(n)
        BY <1>3, <1>a, <3>1, HasElement DEF OnWay, Within
      <3> QED BY <2>1, <3>2
    <2>4. Precede(up'[e], m, n) /\ Precede(held'[e], m, n)
      BY <1>u, <2>2 DEF Precede, Within
    <2> QED BY <1>s, <1>t, <2>2, <2>3, <2>4
  <1>5. CASE Sent(n)
    <2>1. Paced(m, n)
      BY <1>5, PacedBefore
    <2>2. m # n /\ Sent(m)
      BY <2>1, PacedApart
    <2>3. /\ n \in promised => ~OnWay(m) /\ Parted(m)
          /\ OnWay(n) => Parted(m)
          /\ Precede(up[e], m, n) /\ Precede(held[e], m, n)
      BY <1>1, <1>2, <2>1 DEF Passed
    <2>4. Parted(m) => Parted(m)'
      BY <1>3, <2>2, PartedStays
    <2>5. Written(m) => ~Parted(m)
      BY DEF Written, Eligible, Parted
    <2>6. n \in promised' => ~OnWay(m)' /\ Parted(m)
      <3> SUFFICES ASSUME n \in promised' PROVE ~OnWay(m)' /\ Parted(m)
        OBVIOUS
      <3>1. ~OnWay(m) /\ Parted(m)
        <4>1. CASE n \in promised
          BY <2>3, <4>1
        <4>2. CASE n \notin promised
          <5>1. up[e] # <<>> /\ up[e][1] = n
            BY <1>3, <4>2, TakenNow
          <5>2. OnWay(n)
            BY <1>3, <1>a, <5>1, HasElement DEF OnWay, Within
          <5>3. ~Within(up[e], m)
            <6>1. 1 \in DOMAIN up[e] /\ \A i \in DOMAIN up[e] : ~(i < 1)
              BY <1>a, <5>1, HasElement
            <6> QED BY <2>3, <5>1, <6>1 DEF Precede, Within
          <5>4. held[e] = <<>>
            BY <5>1 DEF Sound, Apart
          <5>5. ~Within(held[e], m)
            BY <5>4 DEF Within
          <5> QED BY <1>1, <2>3, <5>2, <5>3, <5>5 DEF OnWay
        <4> QED BY <4>1, <4>2
      <3>2. ~OnWay(m)'
        BY <2>5, <3>1, WayBefore
      <3> QED BY <3>1, <3>2
    <2>7. OnWay(n)' => Parted(m)
      <3>1. Written(n) => Parted(m)
        BY <1>2, <2>1, PassesParted DEF Written
      <3> QED BY <2>3, <3>1, WayBefore
    <2>8. Precede(up'[e], m, n) /\ Precede(held'[e], m, n)
      <3>1. Written(m) => ~Within(up[e], n) /\ ~Within(held[e], n)
        BY <1>3, <2>3, <2>5 DEF OnWay
      <3> QED BY <2>2, <2>3, <3>1, WayOrder
    <2> QED BY <1>s, <1>t, <2>4, <2>6, <2>7, <2>8
  <1> QED BY <1>4, <1>5

-----------------------------------------------------------------------------
(* The line keeps the order.  R[m] is what m is paced before, q a chain,   *)
(* c a chat.                                                               *)
Lined(R, q, c) ==
    /\ \A i, j \in DOMAIN q : q[j] \in R[q[i]] => i < j
    /\ \A i, j \in DOMAIN c : c[j] \in R[c[i]] => i < j
    /\ \A i \in DOMAIN q : \A j \in DOMAIN c : c[j] \notin R[q[i]]

LEMMA LinedTail ==
    ASSUME NEW R, NEW q \in Seq(Msgs), NEW c \in Seq(Msgs), Lined(R, q, c), q # <<>>
    PROVE  Lined(R, Tail(q), c)
  <1>1. \A i \in DOMAIN Tail(q) : i \in Nat /\ i + 1 \in DOMAIN q /\ Tail(q)[i] = q[i + 1]
    OBVIOUS
  <1> QED BY <1>1 DEF Lined

LEMMA LinedAppend ==
    ASSUME NEW R, NEW q \in Seq(Msgs), NEW c \in Seq(Msgs), Lined(R, q, c), NEW m \in Msgs,
           m \notin R[m], \A i \in DOMAIN q : q[i] \notin R[m], \A i \in DOMAIN c : c[i] \notin R[m]
    PROVE  Lined(R, Append(q, m), c)
  <1>1. PICK l \in Nat : l = Len(q) /\ DOMAIN q = 1..l
    OBVIOUS
  <1>2. /\ DOMAIN Append(q, m) = 1..(l + 1) /\ Append(q, m)[l + 1] = m
        /\ \A i \in 1..l : Append(q, m)[i] = q[i]
    BY <1>1
  <1>3. ASSUME NEW i \in 1..(l + 1), NEW j \in 1..(l + 1), Append(q, m)[j] \in R[Append(q, m)[i]]
        PROVE  i < j
    <2>1. CASE i = l + 1
      <3>1. j = l + 1 \/ j \in 1..l
        OBVIOUS
      <3> QED BY <1>1, <1>2, <1>3, <2>1, <3>1
    <2>2. CASE i \in 1..l /\ j = l + 1
      BY <2>2
    <2>3. CASE i \in 1..l /\ j \in 1..l
      BY <1>1, <1>2, <1>3, <2>3 DEF Lined
    <2> QED BY <2>1, <2>2, <2>3
  <1>4. ASSUME NEW i \in 1..(l + 1), NEW j \in DOMAIN c
        PROVE  c[j] \notin R[Append(q, m)[i]]
    <2>1. i = l + 1 \/ i \in 1..l
      OBVIOUS
    <2> QED BY <1>1, <1>2, <2>1 DEF Lined
  <1> QED BY <1>2, <1>3, <1>4 DEF Lined

LEMMA LinedMoved ==
    ASSUME NEW R, NEW q \in Seq(Msgs), NEW c \in Seq(Msgs), Lined(R, q, c), q # <<>>
    PROVE  Lined(R, Tail(q), Append(c, Head(q)))
  <1>1. \A i \in DOMAIN Tail(q) : i \in Nat /\ i + 1 \in DOMAIN q /\ Tail(q)[i] = q[i + 1] /\ ~(i + 1 < 1)
    OBVIOUS
  <1>2. PICK h \in Msgs : h = Head(q) /\ 1 \in DOMAIN q /\ q[1] = h
    BY HasElement, HeadAndTail
  <1>3. PICK l \in Nat : l = Len(c) /\ DOMAIN c = 1..l
    OBVIOUS
  <1>4. /\ DOMAIN Append(c, h) = 1..(l + 1) /\ Append(c, h)[l + 1] = h
        /\ \A i \in 1..l : Append(c, h)[i] = c[i]
    BY <1>3
  <1>5. \A i, j \in DOMAIN Tail(q) : Tail(q)[j] \in R[Tail(q)[i]] => i < j
    BY <1>1 DEF Lined
  <1>6. ASSUME NEW i \in 1..(l + 1), NEW j \in 1..(l + 1), Append(c, h)[j] \in R[Append(c, h)[i]]
        PROVE  i < j
    <2>1. h \notin R[h]
      BY <1>2 DEF Lined
    <2>2. CASE i = l + 1
      <3>1. j = l + 1 \/ j \in 1..l
        OBVIOUS
      <3> QED BY <1>2, <1>3, <1>4, <1>6, <2>1, <2>2, <3>1 DEF Lined
    <2>3. CASE i \in 1..l /\ j = l + 1
      BY <2>3
    <2>4. CASE i \in 1..l /\ j \in 1..l
      BY <1>3, <1>4, <1>6, <2>4 DEF Lined
    <2> QED BY <2>2, <2>3, <2>4
  <1>7. ASSUME NEW i \in DOMAIN Tail(q), NEW j \in 1..(l + 1)
        PROVE  Append(c, h)[j] \notin R[Tail(q)[i]]
    <2>1. i + 1 \in DOMAIN q /\ Tail(q)[i] = q[i + 1] /\ ~(i + 1 < 1)
      BY <1>1
    <2>2. h \notin R[q[i + 1]]
      BY <1>2, <2>1 DEF Lined
    <2>3. j = l + 1 \/ j \in 1..l
      OBVIOUS
    <2> QED BY <1>3, <1>4, <2>1, <2>2, <2>3 DEF Lined
  <1>8. Lined(R, Tail(q), Append(c, h))
    BY <1>4, <1>5, <1>6, <1>7 DEF Lined
  <1> QED BY <1>2, <1>8

\* What is paced behind whom, and every line in that order.
Ahead == [m \in Msgs |-> {n \in Msgs : Paced(m, n)}]
Ordered == \A s \in Sessions : Lined(Ahead, Ids(s), chat[s])

\* Whoever stands in a line was taken.
Vouched ==
    \A s \in Sessions : /\ \A i \in DOMAIN Ids(s) : Ids(s)[i] \in promised
                        /\ \A i \in DOMAIN chat[s] : chat[s][i] \in promised

LEMMA LineVouched == Sound /\ Distinct => Vouched
  <1> SUFFICES ASSUME Sound, Distinct, NEW s \in Sessions
               PROVE  /\ \A i \in DOMAIN Ids(s) : Ids(s)[i] \in promised
                      /\ \A i \in DOMAIN chat[s] : chat[s][i] \in promised
    BY DEF Vouched
  <1>1. \A i \in DOMAIN Ids(s) : Ids(s)[i] \in promised
    BY IdsOf DEF Sound, Truth, ChainsTrue
  <1>2. ASSUME NEW i \in DOMAIN chat[s]
        PROVE  chat[s][i] \in promised
    <2>1. PICK n \in Msgs : n = chat[s][i]
      BY ElementOf DEF Sound, Shape
    <2>2. SessionOf[n] = s
      BY <2>1 DEF Distinct
    <2>3. Committed(n)
      BY <2>1, <2>2 DEF Committed
    <2> QED BY <2>1, <2>3 DEF Sound, Truth, ChatTrue
  <1> QED BY <1>1, <1>2

\* Who is taken was sent before.
LEMMA TakenWasSent ==
    ASSUME Sound, [Next]_vars, NEW n \in Msgs, n \in promised'
    PROVE  Sent(n)
  <1>1. CASE n \in promised
    BY <1>1, WaySent
  <1>2. CASE n \notin promised
    <2>1. up[EngineOfMsg(n)] # <<>> /\ up[EngineOfMsg(n)][1] = n
      BY <1>2, TakenNow
    <2>2. EngineOfMsg(n) \in Engines
      BY WireAssumption DEF EngineOfMsg
    <2>3. OnWay(n)
      BY <2>1, <2>2, HasElement DEF OnWay, Within, Sound, Shape
    <2> QED BY <2>3, WaySent
  <1> QED BY <1>1, <1>2

\* Ordered is inductive, given the rest.
LEMMA OrderedKept ==
    ASSUME Roomy, Sound, Distinct, HoldsPromises, Passed, Ordered, [Next]_vars
    PROVE  Ordered'
  <1> SUFFICES ASSUME NEW s \in Sessions
               PROVE  Lined(Ahead, Ids(s), chat[s])'
    BY DEF Ordered
  <1>1. PICK q \in Seq(Msgs), c \in Seq(Msgs) : q = Ids(s) /\ c = chat[s]
    BY IdsOf DEF Sound, Shape
  <1>2. PICK R : R = Ahead
    OBVIOUS
  <1>3. \A m, n \in Msgs : n \in R[m] <=> Paced(m, n)
    BY <1>2 DEF Ahead
  <1>4. Lined(R, q, c)
    BY <1>1, <1>2 DEF Ordered
  <1>5. Vouched
    BY LineVouched
  <1>6. ASSUME NEW m \in Msgs, ~Known(m), NEW e \in Engines, up[e] # <<>>, m = Head(up[e])
        PROVE  \A n \in promised : n \notin R[m]
    <2>1. m \notin promised
      BY <1>6, NoneForgotten DEF HoldsPromises, Known, Sound
    <2>2. 1 \in DOMAIN up[e] /\ up[e][1] = m
      BY <1>6, HasElement DEF Sound, Shape
    <2>3. EngineOfMsg(m) = e
      BY <2>2 DEF Sound, Traced, PipesSent
    <2>4. OnWay(m)
      BY <2>2, <2>3 DEF OnWay, Within
    <2>5. promised \subseteq Msgs
      BY DEF Sound, Shape
    <2> QED BY <1>3, <2>1, <2>4, <2>5 DEF Passed
  <1>7. ASSUME NEW m \in Msgs, ~Known(m), \E e \in Engines : up[e] # <<>> /\ m = Head(up[e])
        PROVE  Lined(R, Append(q, m), c)
    <2>1. \A n \in promised : n \notin R[m]
      BY <1>6, <1>7
    <2>2. m \notin R[m]
      BY <1>3, PacedApart
    <2>3. (\A i \in DOMAIN q : q[i] \notin R[m]) /\ (\A i \in DOMAIN c : c[i] \notin R[m])
      BY <1>1, <1>5, <2>1 DEF Vouched
    <2> QED BY <1>4, <2>2, <2>3, LinedAppend
  <1>8. LineMoves(s)
    BY LineSteps DEF Sound
  <1>9. PICK a, b : a = Ids(s)' /\ b = chat'[s]
    OBVIOUS
  <1>10. Lined(R, a, b)
    <2>1. Lined(R, <<>>, c)
      BY <1>4 DEF Lined
    <2>2. q # <<>> => Lined(R, Tail(q), c) /\ Lined(R, Tail(q), Append(c, Head(q)))
      BY <1>4, LinedTail, LinedMoved
    <2>3. CASE \E m \in Msgs : /\ ~Known(m) /\ (\E e \in Engines : up[e] # <<>> /\ m = Head(up[e]))
                               /\ a = Append(q, m) /\ b = c
      BY <1>7, <2>3
    <2>4. CASE \/ a = q /\ b = c
               \/ a = <<>> /\ b = c
               \/ q # <<>> /\ a = Tail(q) /\ b \in {c, Append(c, Head(q))}
      BY <1>4, <2>1, <2>2, <2>4
    <2> QED BY <1>1, <1>8, <1>9, <2>3, <2>4 DEF LineMoves
  <1>11. Vouched'
    <2>1. Sound' /\ Distinct'
      BY SoundKept, DistinctKept
    <2> QED BY <2>1, LineVouched, PTL
  <1>12. /\ \A i \in DOMAIN a : a[i] \in Msgs /\ Sent(a[i])
         /\ \A i \in DOMAIN b : b[i] \in Msgs /\ Sent(b[i])
    <2>1. (\A i \in DOMAIN a : a[i] \in promised') /\ (\A i \in DOMAIN b : b[i] \in promised')
      BY <1>9, <1>11 DEF Vouched
    <2>2. promised' \subseteq Msgs
      <3>1. Sound'
        BY SoundKept
      <3> QED BY <3>1 DEF Sound, Shape
    <2> QED BY <2>1, <2>2, TakenWasSent
  <1>13. PICK Q : Q = Ahead'
    OBVIOUS
  <1>14. \A m, n \in Msgs : Sent(n) /\ n \in Q[m] => n \in R[m]
    <2> SUFFICES ASSUME NEW m \in Msgs, NEW n \in Msgs, Sent(n), n \in Q[m]
                 PROVE  n \in R[m]
      OBVIOUS
    <2>1. Paced(m, n)'
      BY <1>13 DEF Ahead
    <2> QED BY <1>3, <2>1, PacedBefore
  <1>15. Lined(Q, a, b)
    BY <1>10, <1>12, <1>14 DEF Lined
  <1> QED BY <1>9, <1>13, <1>15

(* InOrder: while the engine keeps its word, a session's chat holds what   *)
(* was sent in the order it was sent, whatever is dropped, lost, reloaded  *)
(* or timed out, save for what the user touched again.                     *)
THEOREM OrderKept == Roomy /\ Obliging => (Spec => []InOrder)
  <1> SUFFICES ASSUME Roomy, Obliging PROVE Spec => []InOrder
    OBVIOUS
  <1> DEFINE I == /\ Sound /\ Distinct /\ AllLive /\ Unrefused /\ HoldsPromises
                  /\ Aged /\ Passed /\ Ordered
  <1>1. ASSUME Init PROVE I
    <2>1. Sound /\ AllLive /\ Unrefused /\ HoldsPromises
      BY <1>1, SoundInit, ObligingInit
    <2>2. Distinct
      BY <1>1 DEF Init, IntakeInit, Distinct, Single, Ids
    <2>3. Aged
      BY <1>1 DEF Init, OutboxInit, Aged
    <2>4. Passed
      <3> SUFFICES ASSUME NEW m \in Msgs, NEW n \in Msgs, Paced(m, n) PROVE FALSE
        BY DEF Passed
      <3>1. Sent(m)
        BY <2>1, PacedApart
      <3> QED BY <1>1, <3>1 DEF Init, OutboxInit, Sent
    <2>5. Ordered
      BY <1>1 DEF Init, IntakeInit, Ordered, Lined, Ids
    <2> QED BY <2>1, <2>2, <2>3, <2>4, <2>5
  <1>2. I /\ [Next]_vars => I'
    BY SoundKept, DistinctKept, AllLiveKept, UnrefusedKept, PromisesKept, AgedKept, PassedKept,
       OrderedKept DEF Sound
  <1>3. ASSUME I PROVE InOrder
    <2> SUFFICES ASSUME NEW s \in Sessions, NEW i \in DOMAIN chat[s], NEW j \in DOMAIN chat[s],
                        i < j, tapped[chat[s][i]] = "none", tapped[chat[s][j]] = "none"
                 PROVE  Before(chat[s][i], chat[s][j])
      BY DEF InOrder
    <2>1. PICK c \in Seq(Msgs), m \in Msgs, n \in Msgs : c = chat[s] /\ m = c[i] /\ n = c[j]
      BY <1>3, ElementOf DEF Sound, Shape
    <2>2. i \in Nat /\ j \in Nat
      BY <2>1
    <2>3. m # n
      BY <1>3, <2>1, <2>2 DEF Distinct, Single
    <2>4. SessionOf[m] = s /\ SessionOf[n] = s
      BY <1>3, <2>1 DEF Distinct
    <2>5. Sent(m) /\ Sent(n)
      <3>1. Vouched
        BY <1>3, LineVouched
      <3> QED BY <1>3, <2>1, <3>1 DEF Vouched, Sound, Traced, TakenSent
    <2>6. PICK x \in DOMAIN fifo, y \in DOMAIN fifo : fifo[x] = m /\ fifo[y] = n
      BY <2>5 DEF Sent
    <2>7. x \in Nat /\ y \in Nat /\ x # y
      BY <1>3, <2>3, <2>6 DEF Sound, Rest
    <2>8. ~Paced(n, m)
      <3> SUFFICES ASSUME Paced(n, m) PROVE FALSE
        OBVIOUS
      <3>1. m \in Ahead[n]
        BY DEF Ahead
      <3>2. j < i
        BY <1>3, <2>1, <3>1 DEF Ordered, Lined
      <3> QED BY <2>2, <3>2
    <2>9. ~(y < x)
      BY <2>1, <2>4, <2>6, <2>8 DEF Paced, Before
    <2>10. x < y
      BY <2>7, <2>9
    <2> QED BY <2>1, <2>6, <2>10 DEF Before
  <1> HIDE DEF I
  <1> QED BY <1>1, <1>2, <1>3, PTL DEF Spec

-----------------------------------------------------------------------------
(* The contract.  A row that is still to be written is not shown as taken, *)
(* so that painting it again takes nothing back.                           *)
Unsaid == \A m \in Msgs : live[m] \in {"queued", "inflight"} => bubble[m] \notin {"sent", "delivered"}

LEMMA UnsaidKept ==
    ASSUME Sound, Unsaid, [Next]_vars
    PROVE  Unsaid'
  <1> SUFFICES ASSUME NEW m \in Msgs, live'[m] \in {"queued", "inflight"}
               PROVE  bubble'[m] \notin {"sent", "delivered"}
    BY DEF Unsaid
  <1>1. RowMoves(m)
    BY RowSteps DEF Sound
  <1>2. live[m] \in {"queued", "inflight"} => bubble[m] \notin {"sent", "delivered"}
    BY DEF Unsaid
  <1> QED BY <1>1, <1>2 DEF RowMoves, Owed

\* The messages sent, as the contract sees them.
Posted == {fifo[i] : i \in DOMAIN fifo}

LEMMA PostedSteps ==
    ASSUME Sound, [Next]_vars
    PROVE  \/ Posted' = Posted
           \/ \E m \in Msgs : SendText(m) /\ m \notin Posted /\ Posted' = Posted \cup {m}
  <1>1. fifo \in Seq(Msgs) /\ SentOnce
    BY DEF Sound, Rest, Traced
  <1>2. CASE fifo' = fifo
    BY <1>2 DEF Posted
  <1>3. ASSUME NEW m \in Msgs, SendText(m), ~Sent(m), fifo' = Append(fifo, m)
        PROVE  m \notin Posted /\ Posted' = Posted \cup {m}
    <2>1. PICK l \in Nat : l = Len(fifo) /\ DOMAIN fifo = 1..l
      BY <1>1
    <2>2. /\ DOMAIN fifo' = 1..(l + 1) /\ fifo'[l + 1] = m
          /\ \A p \in 1..l : fifo'[p] = fifo[p]
      BY <1>1, <1>3, <2>1
    <2>3. \A p \in 1..(l + 1) : p = l + 1 \/ p \in 1..l
      OBVIOUS
    <2>4. l + 1 \in 1..(l + 1) /\ \A p \in 1..l : p \in 1..(l + 1)
      OBVIOUS
    <2> QED BY <1>3, <2>1, <2>2, <2>3, <2>4 DEF Posted, Sent
  <1>4. ASSUME NEW m \in Msgs, Sent(m), fifo' = ToBack(m)
        PROVE  Posted' = Posted
    <2>1. DOMAIN fifo' = DOMAIN fifo
      BY <1>1, <1>4, ToBackType
    <2>2. \A i \in DOMAIN fifo : \E j \in DOMAIN fifo : fifo'[j] = fifo[i]
      BY <1>1, <1>4, ToBackKeeps
    <2>3. ASSUME NEW i \in DOMAIN fifo
          PROVE  \E j \in DOMAIN fifo : fifo[j] = fifo'[i]
      <3>1. PICK k : k = CHOOSE j \in DOMAIN fifo : fifo[j] = m
        OBVIOUS
      <3>2. fifo'[i] = IF i = Len(fifo) THEN m ELSE fifo[IF i < k THEN i ELSE i + 1]
        BY <1>4, <3>1 DEF ToBack
      <3>3. i # Len(fifo) => i + 1 \in DOMAIN fifo
        BY <1>1
      <3>4. fifo'[i] = m \/ fifo'[i] = fifo[i] \/ (i # Len(fifo) /\ fifo'[i] = fifo[i + 1])
        BY <3>2
      <3> QED BY <1>4, <3>3, <3>4 DEF Sent
    <2> QED BY <2>1, <2>2, <2>3 DEF Posted
  <1> QED BY <1>2, <1>3, <1>4, QueueSteps, <1>1 DEF Sound, Traced

\* One bubble changes to what the contract allows, or not at all.
LEMMA OneTold ==
    ASSUME Sound, NEW m \in Msgs, NEW w \in Bubbles, bubble' = [bubble EXCEPT ![m] = w],
           Posted' = Posted, UNCHANGED <<promised, chat, loads>>,
           \/ w = bubble[m]
           \/ w = "sent" /\ bubble[m] = "sending" /\ m \in promised
           \/ w = "delivered" /\ Committed(m)
           \/ w = "failed" /\ bubble[m] \in {"sending", "sent", "delivered"}
           \/ w = "sending" /\ bubble[m] = "failed"
           \/ w = "none" /\ bubble[m] \in {"sending", "failed"}
    PROVE  [Contract!Next]_(Contract!contractVars)
  <1>1. bubble \in [Msgs -> Bubbles]
    BY DEF Sound, Shape
  <1>2. CASE w = bubble[m]
    <2>1. bubble' = bubble
      BY <1>1, <1>2
    <2> QED BY <2>1 DEF Contract!contractVars, Posted
  <1>3. CASE w # bubble[m]
    <2>1. w \in Contract!Words
      BY DEF Bubbles, Contract!Words
    <2>2. Contract!MayTell(m, w)
      BY <1>3 DEF Contract!MayTell, Contract!Logged, Committed
    <2>3. Contract!Tell(m)
      BY <2>1, <2>2 DEF Contract!Tell, Posted
    <2> QED BY <2>3 DEF Contract!Next
  <1> QED BY <1>2, <1>3

\* A step that leaves the bubbles, the chat and the promises alone is none.
LEMMA Unseen ==
    ASSUME UNCHANGED <<bubble, promised, chat, loads>>, Posted' = Posted
    PROVE  [Contract!Next]_(Contract!contractVars)
  BY DEF Contract!contractVars, Posted

\* The app's steps about one message.
LEMMA ContractOfMsgSteps ==
    ASSUME Sound, [Next]_vars, NEW m \in Msgs, UNCHANGED intakeVars,
           \/ SendText(m) \/ RetrySend(m) \/ DiscardSend(m)
           \/ AckTimeout(m) \/ TransferResult(m) \/ Flush(m)
           \/ Age(m) \/ (Committed(m) /\ AdmitRow(m))
    PROVE  [Contract!Next]_(Contract!contractVars)
  <1>0. UNCHANGED <<promised, chat>> /\ bubble \in [Msgs -> Bubbles]
    BY DEF intakeVars, Sound, Shape
  <1>1. CASE SendText(m)
    <2>1. ~Sent(m) /\ bubble' = [bubble EXCEPT ![m] = "sending"] /\ loads' = loads /\ fifo' # fifo
      <3>1. fifo' = Append(fifo, m) /\ fifo \in Seq(Msgs)
        BY <1>1 DEF SendText, Sound, Rest
      <3>2. Len(Append(fifo, m)) # Len(fifo)
        BY <3>1
      <3> QED BY <1>1, <3>1, <3>2 DEF SendText, Sent
    <2>2. m \notin Posted /\ Posted' = Posted \cup {m}
      <3>1. PICK l \in Nat : l = Len(fifo) /\ DOMAIN fifo = 1..l /\ fifo \in Seq(Msgs)
        BY DEF Sound, Rest
      <3>2. fifo' = Append(fifo, m)
        BY <1>1 DEF SendText
      <3>3. /\ DOMAIN fifo' = 1..(l + 1) /\ fifo'[l + 1] = m
            /\ \A p \in 1..l : fifo'[p] = fifo[p]
        BY <3>1, <3>2
      <3>4. \A p \in 1..(l + 1) : p = l + 1 \/ p \in 1..l
        OBVIOUS
      <3>5. l + 1 \in 1..(l + 1) /\ \A p \in 1..l : p \in 1..(l + 1)
        OBVIOUS
      <3> QED BY <2>1, <3>1, <3>3, <3>4, <3>5 DEF Posted, Sent
    <2>3. Contract!Send(m)
      BY <1>0, <2>1, <2>2 DEF Contract!Send, Posted
    <2> QED BY <2>3 DEF Contract!Next
  <1>2. CASE ~SendText(m)
    <2>1. Posted' = Posted
      <3>1. ASSUME NEW n \in Msgs, SendText(n) PROVE FALSE
        <4>1. fifo' = Append(fifo, n) /\ fifo \in Seq(Msgs)
          BY <3>1 DEF SendText, Sound, Rest
        <4>2. Len(fifo') # Len(fifo) /\ tapped' = tapped
          BY <3>1, <4>1 DEF SendText
        <4>3. CASE RetrySend(m)
          <5>1. taps' = taps + 1 /\ taps' = taps /\ taps \in Nat
            BY <3>1, <4>3 DEF RetrySend, SendText, Sound, Rest
          <5> QED BY <5>1
        <4>4. CASE ~RetrySend(m)
          BY <1>2, <4>2, <4>4 DEF DiscardSend, AckTimeout, TransferResult, Flush, Age, AdmitRow
        <4> QED BY <4>3, <4>4
      <3> QED BY <3>1, PostedSteps
    <2>2. CASE RetrySend(m)
      <3>1. bubble[m] = "failed" /\ bubble' = [bubble EXCEPT ![m] = "sending"] /\ loads' = loads
        BY <2>2 DEF RetrySend
      <3> QED BY <1>0, <2>1, <3>1, OneTold DEF Bubbles
    <2>3. CASE DiscardSend(m)
      <3>1. bubble[m] \in {"sending", "failed"} /\ bubble' = [bubble EXCEPT ![m] = "none"] /\ loads' = loads
        BY <2>3 DEF DiscardSend
      <3> QED BY <1>0, <2>1, <3>1, OneTold DEF Bubbles
    <2>4. CASE Committed(m) /\ AdmitRow(m)
      <3>1. bubble' = [bubble EXCEPT ![m] = "delivered"] /\ loads' = loads
        BY <2>4 DEF AdmitRow, Adopt
      <3> QED BY <1>0, <2>1, <2>4, <3>1, OneTold DEF Bubbles
    <2>5. CASE AckTimeout(m) \/ TransferResult(m) \/ Flush(m) \/ Age(m)
      <3>1. UNCHANGED <<bubble, loads>>
        BY <2>5 DEF AckTimeout, TransferResult, Flush, Age
      <3> QED BY <1>0, <2>1, <3>1, Unseen
    <2> QED BY <1>2, <2>2, <2>3, <2>4, <2>5
  <1> QED BY <1>1, <1>2

\* The app's steps about one engine.
LEMMA ContractOfEngineSteps ==
    ASSUME Sound, Unsaid, NEW e \in Engines, UNCHANGED intakeVars,
           \/ DrainSend(e) \/ DrainIdle(e) \/ RetryTimer(e)
           \/ Receive(e) \/ Seal(e) \/ Settle(e) \/ NoteDown(e)
    PROVE  [Contract!Next]_(Contract!contractVars)
  <1>0. /\ UNCHANGED <<promised, chat, loads>> /\ Posted' = Posted
        /\ bubble \in [Msgs -> Bubbles]
    BY DEF intakeVars, Sound, Shape, Posted, DrainSend, DrainIdle, RetryTimer, Receive, Seal, Settle,
           NoteDown
  <1>1. CASE DrainSend(e)
    <2>1. PICK m \in Msgs : Eligible(m) /\ (Expire(m) \/ Write(m, e) \/ Hold(m, e))
      BY <1>1 DEF DrainSend
    <2>2. CASE Expire(m)
      BY <1>0, <2>2, Unseen DEF Expire
    <2>3. CASE Write(m, e) \/ Hold(m, e)
      <3>1. bubble' = [bubble EXCEPT ![m] = IF bubble[m] = "none" THEN "none" ELSE "sending"]
        BY <2>3 DEF Write, Hold, Painted
      <3>2. bubble[m] \in {"none", "sending", "failed"}
        BY <1>0, <2>1 DEF Eligible, Unsaid, Bubbles
      <3>3. PICK w \in Bubbles : w = IF bubble[m] = "none" THEN "none" ELSE "sending"
        BY DEF Bubbles
      <3> QED BY <1>0, <3>1, <3>2, <3>3, OneTold
    <2> QED BY <2>1, <2>2, <2>3
  <1>2. CASE Receive(e)
    <2>1. down[e] # <<>>
      BY <1>2 DEF Receive
    <2>2. PICK f \in Frames : f = Head(down[e]) /\ FrameTrue(f)
      <3>1. 1 \in DOMAIN down[e] /\ Head(down[e]) = down[e][1]
        BY <2>1, HasElement DEF Sound, Shape
      <3> QED BY <2>1, <3>1, FramesTail DEF Sound, Truth, FramesTrue
    <2>3. PICK m \in Msgs : m = f.cid
      BY DEF Frames
    <2>4. CASE f.t = "ack"
      <3>1. m \in promised /\ bubble' = [bubble EXCEPT ![m] = IF bubble[m] = "sending" THEN "sent" ELSE bubble[m]]
        BY <1>2, <2>2, <2>3, <2>4 DEF Receive, FrameTrue, OnAck
      <3>2. PICK w \in Bubbles : w = IF bubble[m] = "sending" THEN "sent" ELSE bubble[m]
        BY <1>0 DEF Bubbles
      <3> QED BY <1>0, <3>1, <3>2, OneTold
    <2>5. CASE f.t = "echo"
      <3>1. Committed(m) /\ bubble' = [bubble EXCEPT ![m] = "delivered"]
        BY <1>2, <2>2, <2>3, <2>5 DEF Receive, FrameTrue, Adopt
      <3> QED BY <1>0, <3>1, OneTold DEF Bubbles
    <2>6. CASE f.t \in {"nack", "send-failed"}
      <3>1. bubble' = [bubble EXCEPT ![m] = IF bubble[m] = "none" THEN bubble[m] ELSE "failed"]
        BY <1>2, <2>2, <2>3, <2>6 DEF Receive, OnRefusal
      <3>2. PICK w \in Bubbles : w = IF bubble[m] = "none" THEN bubble[m] ELSE "failed"
        BY <1>0 DEF Bubbles
      <3>3. bubble[m] \in {"none", "sending", "sent", "delivered", "failed"}
        BY <1>0 DEF Bubbles
      <3> QED BY <1>0, <3>1, <3>2, <3>3, OneTold
    <2> QED BY <2>4, <2>5, <2>6 DEF Frames
  <1>3. CASE DrainIdle(e) \/ RetryTimer(e) \/ Seal(e) \/ Settle(e) \/ NoteDown(e)
    <2>1. bubble' = bubble
      BY <1>3 DEF DrainIdle, RetryTimer, Seal, Settle, NoteDown
    <2> QED BY <1>0, <2>1, Unseen
  <1> QED BY <1>1, <1>2, <1>3

\* The engine's steps and what interferes.
LEMMA ContractOfOthers ==
    ASSUME Sound, Distinct,
           \/ \E e \in Engines : Take(e) /\ UNCHANGED outboxVars
           \/ \E s \in Sessions : /\ \/ TypeHead(s) \/ DropHead(s) \/ ForgetHead(s)
                                     \/ Commit(s) \/ SessionFlips(s)
                                  /\ UNCHANGED outboxVars
           \/ \E e \in Engines : PipeDrops(e) /\ UNCHANGED outboxVars
           \/ \E e \in Engines : EngineDies(e) /\ UNCHANGED outboxVars
           \/ \E e \in Engines : LoseFrame(e) /\ UNCHANGED <<outboxVars, intakeVars>>
           \/ PageDies
    PROVE  [Contract!Next]_(Contract!contractVars)
  <1>0. UNCHANGED outboxVars => UNCHANGED <<bubble, loads>> /\ Posted' = Posted
    BY DEF outboxVars, Posted
  <1>1. ASSUME NEW e \in Engines, Take(e), UNCHANGED outboxVars
        PROVE  [Contract!Next]_(Contract!contractVars)
    <2>1. up[e] # <<>> /\ chat' = chat /\ promised' \in {promised, promised \cup {Head(up[e])}}
      BY <1>1 DEF Take
    <2>2. PICK m \in Msgs : m = Head(up[e]) /\ 1 \in DOMAIN up[e] /\ up[e][1] = m
      BY <2>1, HeadAndTail, HasElement DEF Sound, Shape
    <2>3. m \in Posted
      BY <2>2 DEF Sound, Traced, PipesSent, Sent, Posted
    <2>4. CASE promised' = promised
      BY <1>0, <1>1, <2>1, <2>4, Unseen
    <2>5. CASE promised' = promised \cup {m}
      <3>1. Contract!Take(m)
        BY <1>0, <1>1, <2>1, <2>3, <2>5 DEF Contract!Take, Posted
      <3> QED BY <3>1 DEF Contract!Next
    <2> QED BY <2>1, <2>2, <2>4, <2>5
  <1>2. ASSUME NEW s \in Sessions, Commit(s), UNCHANGED outboxVars
        PROVE  [Contract!Next]_(Contract!contractVars)
    <2>1. /\ chain[s] # <<>> /\ promised' = promised
          /\ chat' = [chat EXCEPT ![s] = Append(@, Head(chain[s]).id)]
      BY <1>2 DEF Commit, Sound, Shape
    <2>2. 1 \in DOMAIN chain[s] /\ Head(chain[s]) = chain[s][1]
      BY <2>1, HasElement DEF Sound, Shape
    <2>3. PICK m \in Msgs : m = Head(chain[s]).id
      BY <2>1, HeadOfChain DEF Sound
    <2>4. m \in promised /\ SessionOf[m] = s
      BY <2>2, <2>3 DEF Sound, Truth, ChainsTrue
    <2>5. InChain(m)
      BY <2>2, <2>3, <2>4 DEF InChain
    <2>6. ~Contract!Logged(m)
      BY <2>5, OneEnd DEF Sound, Committed, Contract!Logged
    <2>7. Contract!Log(m)
      BY <1>0, <1>2, <2>1, <2>3, <2>4, <2>6 DEF Contract!Log, Posted
    <2> QED BY <2>7 DEF Contract!Next
  <1>3. ASSUME UNCHANGED outboxVars, UNCHANGED <<promised, chat>>
        PROVE  [Contract!Next]_(Contract!contractVars)
    BY <1>0, <1>3, Unseen
  <1>4. CASE PageDies
    <2>1. /\ loads' = loads + 1 /\ UNCHANGED <<promised, chat>> /\ Posted' = Posted
          /\ bubble' = [m \in Msgs |-> CASE Hydrated[m] = "queued" -> "sending"
                                         [] Hydrated[m] = "failed" -> "failed"
                                         [] OTHER -> "none"]
      BY <1>4 DEF PageDies, TabDies, Posted
    <2>2. bubble' \in [Msgs -> {"none", "sending", "failed"}]
      BY <2>1
    <2>3. \A m \in Msgs : m \notin Posted => bubble'[m] = "none"
      BY <2>1 DEF Hydrated, Sound, Traced, UnsentBlank, Sent, Posted
    <2>4. Contract!Reload
      BY <2>1, <2>2, <2>3 DEF Contract!Reload, Posted
    <2> QED BY <2>4 DEF Contract!Next
  <1>5. ASSUME NEW s \in Sessions, TypeHead(s) \/ DropHead(s) \/ ForgetHead(s) \/ SessionFlips(s)
        PROVE  UNCHANGED <<promised, chat>>
    BY <1>5 DEF TypeHead, DropHead, ForgetHead, SessionFlips
  <1>6. ASSUME NEW e \in Engines, PipeDrops(e) \/ EngineDies(e)
        PROVE  UNCHANGED <<promised, chat>>
    BY <1>6 DEF PipeDrops, EngineDies
  <1> QED BY <1>1, <1>2, <1>3, <1>4, <1>5, <1>6 DEF intakeVars

\* Every step of the send path is a step of the contract, or none.
LEMMA ContractSteps ==
    ASSUME Sound, Distinct, Unsaid, [Next]_vars
    PROVE  [Contract!Next]_(Contract!contractVars)
  <1>1. CASE UNCHANGED vars
    <2>1. UNCHANGED <<bubble, promised, chat, loads>> /\ Posted' = Posted
      BY <1>1 DEF vars, outboxVars, intakeVars, Posted
    <2> QED BY <2>1, Unseen
  <1> QED BY <1>1, Steps, ContractOfMsgSteps, ContractOfEngineSteps, ContractOfOthers

(* KeepsContract: the send path implements the chat's contract, whatever   *)
(* fails, is restarted or is refused, while no session has more messages   *)
(* than the engine remembers.                                              *)
THEOREM ContractKept == Roomy => (Spec => KeepsContract)
  <1> SUFFICES ASSUME Roomy PROVE Spec => KeepsContract
    OBVIOUS
  <1>1. Init => Contract!Init
    BY DEF Init, OutboxInit, IntakeInit, Contract!Init
  <1>2. Init => Distinct
    BY DEF Init, IntakeInit, Distinct, Single, Ids
  <1>3. Init => Unsaid
    BY DEF Init, OutboxInit, Unsaid
  <1>4. Sound /\ Distinct /\ Unsaid /\ [Next]_vars => (Sound /\ Distinct /\ Unsaid)'
    BY SoundKept, DistinctKept, UnsaidKept
  <1>5. Sound /\ Distinct /\ Unsaid /\ [Next]_vars => [Contract!Next]_(Contract!contractVars)
    BY ContractSteps
  <1> QED BY <1>1, <1>2, <1>3, <1>4, <1>5, SoundInit, PTL DEF Spec, KeepsContract, Contract!Spec
=============================================================================
