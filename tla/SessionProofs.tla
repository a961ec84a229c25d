--------------------------- MODULE SessionProofs ---------------------------
(***************************************************************************)
(* The safety of the session layer, for every set of frames, number of     *)
(* tries, window and line.  IInv is inductive: TypeOK needs the bound of   *)
(* TryBound (trycnt stays below MaxTry), TryBound needs to know that a     *)
(* queued frame has not been written yet, and that needs the shape of the  *)
(* queue: no frame twice, the frame in flight nowhere but at its head.     *)
(***************************************************************************)
EXTENDS Session, TLAPS

(* Queued frames that are not in flight have not been written.             *)
QueuedIsFresh == \A f \in QueueSet : f # frameSend => sent[f] = 0

IInv ==
  /\ TypeOK
  /\ IdleMeansDrained
  /\ NoFreedFrame
  /\ InFlightIsHeadOrGone
  /\ TryBound
  /\ QueuedIsFresh

-----------------------------------------------------------------------------
(* What the two pops of session_send_over_callback leave of the queue.     *)
LEMMA PopProperties ==
  ASSUME NEW S, NEW q \in Seq(S)
  PROVE  /\ Pop(q) \in Seq(S)
         /\ Len(Pop(q)) = IF q = <<>> THEN 0 ELSE Len(q) - 1
         /\ \A i \in 1..Len(Pop(q)) : i + 1 \in 1..Len(q) /\ Pop(q)[i] = q[i + 1]
  BY DEF Pop

LEMMA WriteFrameType ==
  ASSUME toModule \in Seq(Frames), NEW f \in Frames, WriteFrame(f)
  PROVE  toModule' \in Seq(Frames)
<1>1. Append(toModule, f) \in Seq(Frames)
  OBVIOUS
<1> QED
  BY <1>1 DEF WriteFrame

LEMMA InitIInv == Init => IInv
<1> SUFFICES ASSUME Init PROVE IInv
  OBVIOUS
<1> USE MaxTryAssumption DEF Init
<1>1. TypeOK
  <2>1. qSend \in Seq(Frames) /\ toModule \in Seq(Frames) /\ toHost \in Seq(Answers)
    OBVIOUS
  <2>2. /\ trycnt \in [Frames -> 0..MaxTry] /\ sent \in [Frames -> Nat]
        /\ outcome \in [Frames -> Errors \cup {"NONE"}]
    OBVIOUS
  <2> QED
    BY <2>1, <2>2 DEF TypeOK
<1>2. QueueSet = {} /\ DOMAIN qSend = {}
  BY DEF QueueSet
<1>3. IdleMeansDrained /\ TryBound
  BY DEF IdleMeansDrained, TryBound
<1>4. NoFreedFrame /\ InFlightIsHeadOrGone /\ QueuedIsFresh
  BY <1>2 DEF NoFreedFrame, InFlightIsHeadOrGone, QueuedIsFresh
<1> QED
  BY <1>1, <1>3, <1>4 DEF IInv

-----------------------------------------------------------------------------
(* A frame handed in: it joins the tail of the queue and, on an idle line, *)
(* which by the invariant has an empty queue, is written at once.          *)
LEMMA HandInKeepsIInv ==
  ASSUME IInv, NEW f \in Frames, session_send(f)
  PROVE  IInv'
<1> USE DEF IInv
<1>1. /\ f \notin held /\ held' = held \cup {f}
      /\ qSend' = Append(qSend, f) /\ got' = got \ {f} /\ toHost' = toHost
      /\ outcome' = [outcome EXCEPT ![f] = "NONE"]
      /\ trycnt' = [trycnt EXCEPT ![f] = 0]
  BY DEF session_send, Push
<1>2. /\ qSend' \in Seq(Frames) /\ Len(qSend') = Len(qSend) + 1
      /\ \A i \in 1..Len(qSend) : qSend'[i] = qSend[i]
      /\ qSend'[Len(qSend) + 1] = f
      /\ DOMAIN qSend = 1..Len(qSend) /\ DOMAIN qSend' = 1..Len(qSend')
      /\ Len(qSend) \in Nat
  BY <1>1 DEF TypeOK
<1>3. QueueSet' = QueueSet \cup {f} /\ f \notin QueueSet
  <2>1. QueueSet' = QueueSet \cup {f}
    BY <1>2 DEF QueueSet
  <2>2. f \notin QueueSet
    BY <1>1 DEF NoFreedFrame
  <2> QED
    BY <2>1, <2>2
<1>4. \A i, j \in DOMAIN qSend' : qSend'[i] = qSend'[j] => i = j
  <2>1. \A i \in 1..Len(qSend) : qSend[i] # f
    BY <1>2, <1>3 DEF QueueSet
  <2>2. \A i, j \in 1..Len(qSend) : qSend[i] = qSend[j] => i = j
    BY <1>2 DEF NoFreedFrame
  <2> QED
    BY <1>2, <2>1, <2>2
<1>5. CASE stateSend = "READY" /\ Transmit(f) /\ sent' = [sent EXCEPT ![f] = 1]
  <2>1. frameSend' = f /\ stateSend' = "WAIT_ACK_NAK" /\ timerSend' = TRUE
    BY <1>5 DEF Transmit
  <2>2. qSend = <<>> /\ QueueSet = {} /\ Head(qSend') = f
    <3>1. qSend = <<>> /\ Len(qSend) = 0
      BY <1>5 DEF IdleMeansDrained
    <3>2. Head(qSend') = qSend'[1]
      BY <1>2, <3>1
    <3> QED
      BY <1>2, <3>1, <3>2 DEF QueueSet
  <2>3. toModule' \in Seq(Frames)
    BY <1>5, WriteFrameType DEF Transmit, TypeOK
  <2>4. TypeOK'
    BY <1>1, <1>2, <1>5, <2>1, <2>3, MaxTryAssumption DEF TypeOK
  <2>5. IdleMeansDrained'
    BY <2>1, NoFrameAssumption DEF IdleMeansDrained
  <2>6. NoFreedFrame'
    BY <1>1, <1>3, <1>4, <2>1, <2>2 DEF NoFreedFrame
  <2>7. InFlightIsHeadOrGone' /\ QueuedIsFresh'
    BY <1>3, <2>1, <2>2 DEF InFlightIsHeadOrGone, QueuedIsFresh
  <2>8. TryBound'
    BY <1>1, <1>5, <2>1, MaxTryAssumption DEF TryBound, TypeOK
  <2> QED
    BY <2>4, <2>5, <2>6, <2>7, <2>8
<1>6. CASE /\ stateSend # "READY" /\ sent' = [sent EXCEPT ![f] = 0]
           /\ UNCHANGED <<stateSend, frameSend, timerSend, toModule>>
  <2>1. frameSend # NoFrame /\ frameSend \in held /\ frameSend # f
    BY <1>1, <1>6 DEF IdleMeansDrained, NoFreedFrame
  <2>2. TypeOK'
    BY <1>1, <1>2, <1>6, MaxTryAssumption DEF TypeOK
  <2>3. IdleMeansDrained'
    BY <1>6 DEF IdleMeansDrained
  <2>4. NoFreedFrame'
    BY <1>1, <1>3, <1>4, <1>6 DEF NoFreedFrame
  <2>5. InFlightIsHeadOrGone'
    <3> SUFFICES ASSUME frameSend \in QueueSet PROVE frameSend = Head(qSend')
      BY <1>3, <1>6, <2>1 DEF InFlightIsHeadOrGone
    <3>1. qSend # <<>> /\ Head(qSend') = Head(qSend)
      BY <1>1, <1>2 DEF QueueSet, TypeOK
    <3> QED
      BY <3>1 DEF InFlightIsHeadOrGone
  <2>6. TryBound'
    BY <1>1, <1>6, <2>1, MaxTryAssumption DEF TryBound, TypeOK
  <2>7. QueuedIsFresh'
    BY <1>1, <1>3, <1>6, <2>1 DEF QueuedIsFresh, TypeOK, QueueSet, NoFreedFrame
  <2> QED
    BY <2>2, <2>3, <2>4, <2>5, <2>6, <2>7
<1> QED
  BY <1>5, <1>6 DEF session_send

-----------------------------------------------------------------------------
(* The frame in flight is written once more.                               *)
LEMMA RetryKeepsIInv ==
  ASSUME IInv, frameSend # NoFrame, NEW e \in Errors, Retry(frameSend, e),
         got' \in SUBSET Frames, toHost' \in Seq(Answers)
  PROVE  IInv'
<1> USE DEF IInv
<1>1. /\ frameSend \in Frames /\ frameSend' = frameSend /\ qSend' = qSend
      /\ held' = held /\ outcome' = outcome /\ QueueSet' = QueueSet
      /\ stateSend' = "WAIT_ACK_NAK" /\ timerSend' = TRUE
      /\ trycnt' = [trycnt EXCEPT ![frameSend] = @ + 1]
      /\ sent' = [sent EXCEPT ![frameSend] = @ + 1]
      /\ trycnt[frameSend] + 1 < MaxTry
  BY MaxTryAssumption DEF Retry, LastTry, Transmit, TypeOK, QueueSet
<1>2. toModule' \in Seq(Frames)
  BY WriteFrameType DEF Retry, Transmit, TypeOK
<1>3. trycnt[frameSend] \in Nat /\ sent[frameSend] = trycnt[frameSend] + 1
  BY <1>1, MaxTryAssumption DEF TypeOK, TryBound
<1>4. TypeOK'
  BY <1>1, <1>2, <1>3, MaxTryAssumption DEF TypeOK
<1>5. IdleMeansDrained'
  BY <1>1 DEF IdleMeansDrained
<1>6. NoFreedFrame' /\ InFlightIsHeadOrGone'
  BY <1>1 DEF NoFreedFrame, InFlightIsHeadOrGone
<1>7. TryBound'
  BY <1>1, <1>3, MaxTryAssumption DEF TryBound, TypeOK
<1>8. QueuedIsFresh'
  BY <1>1 DEF QueuedIsFresh, TypeOK, QueueSet
<1> QED
  BY <1>4, <1>5, <1>6, <1>7, <1>8

(* The frame in flight is over.  One pop takes it off the queue, if it is  *)
(* still there, the other takes the frame that is written next.            *)
LEMMA OverKeepsIInv ==
  ASSUME IInv, frameSend # NoFrame, NEW e \in Errors, Over(frameSend, e),
         got' \in SUBSET Frames, toHost' \in Seq(Answers)
  PROVE  IInv'
<1> DEFINE f == frameSend
           rest == Pop(qSend)
<1> USE DEF IInv
<1>1. /\ f \in Frames /\ held' = held \ {f} /\ qSend' = Pop(rest)
      /\ outcome' = [outcome EXCEPT ![f] = e]
      /\ qSend \in Seq(Frames)
  BY DEF Over, GiveBack, TypeOK
<1>2. /\ trycnt[f] \in Nat /\ sent[f] = trycnt[f] + 1 /\ trycnt[f] + 1 <= MaxTry
  BY <1>1, MaxTryAssumption DEF TypeOK, TryBound
<1>3. /\ rest \in Seq(Frames) /\ Len(rest) \in Nat
      /\ DOMAIN rest = 1..Len(rest)
      /\ \A i \in 1..Len(rest) : /\ i + 1 \in DOMAIN qSend
                                 /\ rest[i] = qSend[i + 1]
  BY <1>1, PopProperties
<1>4. /\ qSend' \in Seq(Frames) /\ Len(qSend') \in Nat
      /\ DOMAIN qSend' = 1..Len(qSend')
      /\ \A i \in 1..Len(qSend') : /\ i + 1 \in DOMAIN rest
                                   /\ qSend'[i] = rest[i + 1]
  BY <1>1, <1>3, PopProperties
<1>5. \A i \in DOMAIN rest : rest[i] \in QueueSet /\ rest[i] # f
  <2> SUFFICES ASSUME NEW i \in DOMAIN rest PROVE rest[i] \in QueueSet /\ rest[i] # f
    OBVIOUS
  <2>1. rest[i] \in QueueSet /\ i + 1 \in DOMAIN qSend /\ rest[i] = qSend[i + 1]
    BY <1>3 DEF QueueSet
  <2>2. 1 \in DOMAIN qSend /\ Head(qSend) = qSend[1] /\ i + 1 # 1
    BY <1>1, <1>3, <2>1
  <2>3. rest[i] # Head(qSend)
    BY <2>1, <2>2 DEF NoFreedFrame
  <2> QED
    BY <2>1, <2>3 DEF InFlightIsHeadOrGone
<1>6. \A i, j \in DOMAIN rest : rest[i] = rest[j] => i = j
  BY <1>3 DEF NoFreedFrame
<1>7. \A i \in DOMAIN qSend' : /\ qSend'[i] \in QueueSet /\ qSend'[i] # f
                              /\ qSend'[i] # rest[1]
  <2> SUFFICES ASSUME NEW i \in DOMAIN qSend'
               PROVE  /\ qSend'[i] \in QueueSet /\ qSend'[i] # f
                      /\ qSend'[i] # rest[1]
    OBVIOUS
  <2>1. i + 1 \in DOMAIN rest /\ qSend'[i] = rest[i + 1] /\ 1 \in DOMAIN rest
    BY <1>3, <1>4
  <2>2. i + 1 # 1
    BY <1>4
  <2> QED
    BY <1>5, <1>6, <2>1, <2>2
<1>8. \A i, j \in DOMAIN qSend' : qSend'[i] = qSend'[j] => i = j
  BY <1>4, <1>6
<1>9. QueueSet' \subseteq QueueSet /\ f \notin QueueSet'
  BY <1>7 DEF QueueSet
<1>10. QueueSet' \subseteq held'
  BY <1>1, <1>9 DEF NoFreedFrame
<1>11. CASE rest = <<>> /\ LineIdle /\ trycnt' = [trycnt EXCEPT ![f] = @ + 1]
            /\ sent' = sent
  <2>1. /\ frameSend' = NoFrame /\ stateSend' = "READY" /\ timerSend' = FALSE
        /\ toModule' = toModule
    BY <1>11 DEF LineIdle
  <2>2. qSend' = <<>> /\ QueueSet' = {}
    BY <1>1, <1>11 DEF Pop, QueueSet
  <2>3. TypeOK'
    <3>1. trycnt' \in [Frames -> 0..MaxTry]
      BY <1>1, <1>2, <1>11, MaxTryAssumption DEF TypeOK
    <3>2. outcome' \in [Frames -> Errors \cup {"NONE"}]
      BY <1>1 DEF TypeOK
    <3> QED
      BY <1>1, <1>4, <1>11, <2>1, <3>1, <3>2 DEF TypeOK
  <2>4. IdleMeansDrained' /\ InFlightIsHeadOrGone' /\ QueuedIsFresh'
    BY <2>1, <2>2 DEF IdleMeansDrained, InFlightIsHeadOrGone, QueuedIsFresh
  <2>5. NoFreedFrame'
    BY <1>8, <1>10, <2>1 DEF NoFreedFrame
  <2>6. TryBound'
    BY <1>11, <2>1 DEF TryBound
  <2> QED
    BY <2>3, <2>4, <2>5, <2>6
<1>12. CASE /\ rest # <<>> /\ Transmit(Head(rest))
            /\ trycnt' = [trycnt EXCEPT ![f] = @ + 1, ![Head(rest)] = 0]
            /\ sent' = [sent EXCEPT ![Head(rest)] = @ + 1]
  <2>1. /\ 1 \in DOMAIN rest /\ Head(rest) = rest[1] /\ rest[1] \in Frames
        /\ rest[1] # f /\ rest[1] \in QueueSet
    BY <1>3, <1>5, <1>12
  <2>2. /\ frameSend' = rest[1] /\ stateSend' = "WAIT_ACK_NAK" /\ timerSend' = TRUE
    BY <1>12, <2>1 DEF Transmit
  <2>3. toModule' \in Seq(Frames)
    BY <1>12, <2>1, WriteFrameType DEF Transmit, TypeOK
  <2>4. sent[rest[1]] = 0
    BY <2>1 DEF QueuedIsFresh
  <2>5. rest[1] \notin QueueSet'
    BY <1>7 DEF QueueSet
  <2>6. TypeOK'
    <3>1. trycnt' \in [Frames -> 0..MaxTry]
      <4>1. /\ trycnt[f] + 1 \in 0..MaxTry /\ 0 \in 0..MaxTry
            /\ trycnt \in [Frames -> 0..MaxTry]
        BY <1>2, MaxTryAssumption DEF TypeOK
      <4>2. [trycnt EXCEPT ![f] = @ + 1] \in [Frames -> 0..MaxTry]
        BY <1>1, <4>1
      <4>3. [trycnt EXCEPT ![f] = @ + 1, ![Head(rest)] = 0] \in [Frames -> 0..MaxTry]
        BY <2>1, <4>1, <4>2
      <4> QED
        BY <1>12, <4>3
    <3>2. sent' \in [Frames -> Nat]
      BY <1>12, <2>1 DEF TypeOK
    <3>3. outcome' \in [Frames -> Errors \cup {"NONE"}]
      BY <1>1 DEF TypeOK
    <3> QED
      BY <1>1, <1>4, <2>1, <2>2, <2>3, <3>1, <3>2, <3>3 DEF TypeOK
  <2>7. IdleMeansDrained'
    BY <2>1, <2>2, NoFrameAssumption DEF IdleMeansDrained
  <2>8. NoFreedFrame'
    BY <1>1, <1>8, <1>10, <2>1, <2>2 DEF NoFreedFrame
  <2>9. InFlightIsHeadOrGone'
    BY <2>2, <2>5 DEF InFlightIsHeadOrGone
  <2>10. TryBound'
    BY <1>12, <2>1, <2>2, <2>4, MaxTryAssumption DEF TryBound, TypeOK
  <2>11. QueuedIsFresh'
    <3> SUFFICES ASSUME NEW g \in QueueSet' PROVE sent'[g] = 0
      BY DEF QueuedIsFresh
    <3>1. g \in QueueSet /\ g # f /\ g # rest[1]
      BY <1>9, <2>5
    <3> QED
      BY <1>12, <2>1, <3>1 DEF QueuedIsFresh, TypeOK, QueueSet
  <2> QED
    BY <2>6, <2>7, <2>8, <2>9, <2>10, <2>11
<1> QED
  BY <1>11, <1>12 DEF Over, SendNext

LEMMA SendOverKeepsIInv ==
  ASSUME IInv, NEW e \in Errors, send_over(e),
         got' \in SUBSET Frames, toHost' \in Seq(Answers)
  PROVE  IInv'
<1>1. CASE frameSend = NoFrame /\ LineIdle /\ UNCHANGED <<qSend, trycnt, histVars>>
  <2> USE DEF IInv, histVars, LineIdle
  <2>1. qSend = <<>> /\ qSend' = qSend /\ QueueSet' = {}
    BY <1>1 DEF IdleMeansDrained, QueueSet
  <2>2. TypeOK'
    <3>1. /\ stateSend' = "READY" /\ frameSend' = NoFrame /\ timerSend' = FALSE
          /\ toModule' = toModule /\ qSend' = qSend /\ trycnt' = trycnt
          /\ held' = held /\ outcome' = outcome /\ sent' = sent
      BY <1>1
    <3> QED
      BY <3>1 DEF TypeOK
  <2>3. IdleMeansDrained' /\ InFlightIsHeadOrGone' /\ QueuedIsFresh'
    BY <1>1, <2>1 DEF IdleMeansDrained, InFlightIsHeadOrGone, QueuedIsFresh
  <2>4. NoFreedFrame' /\ TryBound'
    BY <1>1, <2>1 DEF NoFreedFrame, TryBound
  <2> QED
    BY <2>2, <2>3, <2>4
<1>2. CASE frameSend # NoFrame /\ Retry(frameSend, e)
  BY <1>2, RetryKeepsIInv
<1>3. CASE frameSend # NoFrame /\ Over(frameSend, e)
  BY <1>3, OverKeepsIInv
<1> QED
  BY <1>1, <1>2, <1>3 DEF send_over

-----------------------------------------------------------------------------
LEMMA NextKeepsIInv == IInv /\ [Next]_vars => IInv'
<1> SUFFICES ASSUME IInv, [Next]_vars PROVE IInv'
  OBVIOUS
<1>1. ASSUME NEW f \in Frames, session_send(f) PROVE IInv'
  BY <1>1, HandInKeepsIInv
<1>2. CASE frame_receive_answer
  <2>1. toHost # <<>> /\ toHost \in Seq(Answers) /\ got \in SUBSET Frames
    BY <1>2 DEF frame_receive_answer, IInv, TypeOK
  <2>2. Head(toHost) \in Errors /\ Tail(toHost) \in Seq(Answers)
    BY <2>1 DEF Errors
  <2> QED
    BY <1>2, <2>1, <2>2, SendOverKeepsIInv DEF frame_receive_answer
<1>3. CASE frame_send_timer_callback
  <2>1. toHost \in Seq(Answers) /\ got \in SUBSET Frames /\ "TIMEOUT" \in Errors
    BY DEF IInv, TypeOK, Errors
  <2> QED
    BY <1>3, <2>1, SendOverKeepsIInv DEF frame_send_timer_callback
<1>4. CASE ModuleAnswers
  <2> USE DEF IInv
  <2>1. UNCHANGED <<codeVars, histVars>> /\ QueueSet' = QueueSet
    BY <1>4 DEF ModuleAnswers, codeVars, QueueSet
  <2>2. toModule' \in Seq(Frames) /\ got' \in SUBSET Frames
    BY <1>4 DEF ModuleAnswers, TypeOK
  <2>3. toHost' \in Seq(Answers)
    <3>1. \A a \in Answers : Append(toHost, a) \in Seq(Answers)
      BY DEF TypeOK
    <3> QED
      BY <1>4, <3>1 DEF ModuleAnswers, TypeOK
  <2>4. TypeOK'
    BY <2>1, <2>2, <2>3 DEF TypeOK, codeVars, histVars
  <2>5. IdleMeansDrained' /\ NoFreedFrame' /\ InFlightIsHeadOrGone'
    BY <2>1 DEF IdleMeansDrained, NoFreedFrame, InFlightIsHeadOrGone, codeVars, histVars
  <2>6. TryBound' /\ QueuedIsFresh'
    BY <2>1 DEF TryBound, QueuedIsFresh, codeVars, histVars
  <2> QED
    BY <2>4, <2>5, <2>6
<1>5. CASE UNCHANGED vars
  BY <1>5 DEF IInv, TypeOK, IdleMeansDrained, NoFreedFrame, InFlightIsHeadOrGone,
              TryBound, QueuedIsFresh, QueueSet, vars, codeVars, histVars
<1> QED
  BY <1>1, <1>2, <1>3, <1>4, <1>5 DEF Next

(* The inductive invariant holds of every behaviour of the session layer.  *)
THEOREM SessionInvariant == Spec => []IInv
<1>1. Init => IInv
  BY InitIInv
<1>2. IInv /\ [Next]_vars => IInv'
  BY NextKeepsIInv
<1> QED
  BY <1>1, <1>2, PTL DEF Spec

(* Every state of the session layer is well typed; in particular trycnt of *)
(* session_send_over_callback never passes SESSION_MAX_SEND_TRY_CNT.       *)
THEOREM SessionTypes == Spec => []TypeOK
<1>1. IInv => TypeOK
  BY DEF IInv
<1> QED
  BY <1>1, SessionInvariant, PTL

(* An idle line has an empty queue and a frame in flight has its timer: no *)
(* frame waits that nothing will ever send.                                *)
THEOREM QueueIsDrained == Spec => []IdleMeansDrained
<1>1. IInv => IdleMeansDrained
  BY DEF IInv
<1> QED
  BY <1>1, SessionInvariant, PTL

(* Neither the queue nor frame.c keeps a frame that send_cb has freed, and *)
(* no frame is queued twice.                                               *)
THEOREM FreedFramesAreGone == Spec => []NoFreedFrame
<1>1. IInv => NoFreedFrame
  BY DEF IInv
<1> QED
  BY <1>1, SessionInvariant, PTL

(* A frame is written at most SESSION_MAX_SEND_TRY_CNT times.              *)
THEOREM TriesAreBounded == Spec => []TryBound
<1>1. IInv => TryBound
  BY DEF IInv
<1> QED
  BY <1>1, SessionInvariant, PTL

(* The frame in flight is at the head of the queue, or no longer in it.    *)
THEOREM InFlightAtHead == Spec => []InFlightIsHeadOrGone
<1>1. IInv => InFlightIsHeadOrGone
  BY DEF IInv
<1> QED
  BY <1>1, SessionInvariant, PTL

(* A frame is given back only when it is the one on the line, and as       *)
(* failed only when all its tries are used up.                             *)
LEMMA SendOverReports ==
  ASSUME IInv, NEW e \in Errors, send_over(e), NEW f \in held \ held'
  PROVE  f = frameSend /\ (outcome'[f] # "ACK" => sent[f] = MaxTry)
<1>1. frameSend # NoFrame /\ Over(frameSend, e)
  BY DEF send_over, Retry, histVars
<1>2. f = frameSend /\ f \in Frames /\ outcome'[f] = e
  BY <1>1 DEF Over, GiveBack, IInv, TypeOK
<1>3. /\ trycnt[f] \in 0..MaxTry /\ sent[f] = trycnt[f] + 1 /\ sent[f] <= MaxTry
      /\ e = "ACK" \/ trycnt[f] + 1 >= MaxTry
  BY <1>1, <1>2 DEF Over, LastTry, IInv, TypeOK, TryBound
<1> QED
  BY <1>2, <1>3, MaxTryAssumption

THEOREM OnlyTheLineReports == Spec => ReportedFromLine
<1> DEFINE Reported == \A f \in held \ held' :
                         /\ f = frameSend
                         /\ outcome'[f] # "ACK" => sent[f] = MaxTry
<1>1. IInv /\ [Next]_vars => [Reported]_vars
  <2> SUFFICES ASSUME IInv, Next PROVE Reported
    OBVIOUS
  <2>1. ASSUME NEW f \in Frames, session_send(f) PROVE Reported
    BY <2>1 DEF session_send
  <2>2. CASE frame_receive_answer
    <3>1. Head(toHost) \in Errors
      BY <2>2 DEF frame_receive_answer, Errors, IInv, TypeOK
    <3> QED
      BY <2>2, <3>1, SendOverReports DEF frame_receive_answer
  <2>3. CASE frame_send_timer_callback
    BY <2>3, SendOverReports DEF frame_send_timer_callback, Errors
  <2>4. CASE ModuleAnswers
    BY <2>4 DEF ModuleAnswers, histVars
  <2> QED
    BY <2>1, <2>2, <2>3, <2>4 DEF Next
<1> QED
  BY <1>1, SessionInvariant, PTL DEF Spec, ReportedFromLine

-----------------------------------------------------------------------------
(***************************************************************************)
(* Refinement.  Over a prompt module the line holds at most one frame or   *)
(* answer, of the frame in flight, and an ACK on it means that the module  *)
(* has that frame.  So every step of the link is a step of SendService.    *)
(***************************************************************************)
OneOnTheLine ==
  /\ Len(toModule) + Len(toHost) <= 1
  /\ frameSend = NoFrame => toModule = <<>> /\ toHost = <<>>
  /\ toModule # <<>> => Head(toModule) = frameSend
  /\ toHost # <<>> /\ Head(toHost) = "ACK" => frameSend \in got

LEMMA OneOfTwo ==
  ASSUME NEW m \in Nat, NEW n \in Nat, m + n <= 1 \/ n + m <= 1, m >= 1
  PROVE  m = 1 /\ n = 0 /\ m - 1 = 0
  OBVIOUS

LEMMA ShortSequences ==
  ASSUME NEW S, NEW q \in Seq(S)
  PROVE  /\ Len(q) \in Nat /\ (Len(q) = 0 => q = <<>>)
         /\ q # <<>> => Len(q) >= 1 /\ Len(Tail(q)) = Len(q) - 1
         /\ q # <<>> => Tail(q) \in Seq(S)
  OBVIOUS

(* A frame that is written is all there is on a line that was empty.       *)
LEMMA WrittenIsAlone ==
  ASSUME toModule = <<>>, NEW f \in Frames, WriteFrame(f)
  PROVE  /\ Len(toModule') <= 1 /\ Len(toModule') \in Nat
         /\ toModule' # <<>> => Head(toModule') = f
<1>1. Append(toModule, f) = <<f>>
  OBVIOUS
<1>2. /\ Len(<<f>>) = 1 /\ Head(<<f>>) = f /\ Len(<<>>) = 0
  OBVIOUS
<1>3. toModule' = <<>> \/ toModule' = <<f>>
  BY <1>1 DEF WriteFrame
<1> QED
  BY <1>2, <1>3

LEMMA SendOverOnTheLine ==
  ASSUME IInv, NEW e \in Errors, send_over(e), toModule = <<>>, toHost' = <<>>
  PROVE  OneOnTheLine'
<1>1. CASE LineIdle
  BY <1>1 DEF LineIdle, OneOnTheLine
<1>2. ASSUME NEW f \in Frames, Transmit(f) PROVE OneOnTheLine'
  <2>1. frameSend' = f /\ WriteFrame(f)
    BY <1>2 DEF Transmit
  <2> QED
    BY <2>1, WrittenIsAlone, NoFrameAssumption DEF OneOnTheLine
<1>3. CASE frameSend # NoFrame /\ Retry(frameSend, e)
  BY <1>2, <1>3 DEF Retry, IInv, TypeOK
<1>4. CASE frameSend # NoFrame /\ Over(frameSend, e)
  <2>1. Pop(qSend) \in Seq(Frames)
    BY PopProperties DEF IInv, TypeOK
  <2>2. CASE Pop(qSend) = <<>> /\ LineIdle
    BY <1>1, <2>2
  <2>3. CASE Pop(qSend) # <<>> /\ Transmit(Head(Pop(qSend)))
    BY <1>2, <2>1, <2>3
  <2> QED
    BY <1>4, <2>2, <2>3 DEF Over, SendNext
<1> QED
  BY <1>1, <1>3, <1>4 DEF send_over

(* With the answer or the timeout that is handled the line is empty.       *)
LEMMA AnswerIsAlone ==
  ASSUME IInv, OneOnTheLine, frame_receive_answer
  PROVE  /\ toModule = <<>> /\ toHost' = <<>> /\ Head(toHost) \in Errors
         /\ send_over(Head(toHost)) /\ frameSend # NoFrame
<1>1. toHost # <<>> /\ toHost' = Tail(toHost) /\ send_over(Head(toHost))
  BY DEF frame_receive_answer
<1>2. toHost \in Seq(Answers) /\ toModule \in Seq(Frames)
  BY DEF IInv, TypeOK
<1>3. Len(toHost) = 1 /\ Len(toModule) = 0 /\ Tail(toHost) = <<>> /\ toModule = <<>>
  <2>1. Len(toHost) + Len(toModule) <= 1 /\ Len(toHost) >= 1
    BY <1>1, <1>2, ShortSequences DEF OneOnTheLine
  <2>2. Len(toHost) = 1 /\ Len(toModule) = 0 /\ Len(Tail(toHost)) = 0
    <3>1. Len(toHost) \in Nat /\ Len(toModule) \in Nat
          /\ Len(Tail(toHost)) = Len(toHost) - 1
      BY <1>1, <1>2, ShortSequences
    <3> QED
      BY <2>1, <3>1, OneOfTwo
  <2> QED
    BY <1>1, <1>2, <2>2, ShortSequences
<1> QED
  BY <1>1, <1>2, <1>3 DEF OneOnTheLine, Errors

LEMMA NextKeepsOneOnTheLine ==
  ASSUME Prompt, IInv, OneOnTheLine, [Next]_vars
  PROVE  OneOnTheLine'
<1>1. ASSUME NEW f \in Frames, session_send(f) PROVE OneOnTheLine'
  <2>1. f \notin held /\ UNCHANGED toHost /\ got' = got \ {f}
    BY <1>1 DEF session_send
  <2>2. CASE stateSend = "READY" /\ Transmit(f)
    <3>1. toModule = <<>> /\ toHost = <<>> /\ frameSend' = f /\ WriteFrame(f)
      BY <2>2 DEF IInv, IdleMeansDrained, OneOnTheLine, Transmit
    <3> QED
      BY <2>1, <3>1, WrittenIsAlone, NoFrameAssumption DEF OneOnTheLine
  <2>3. CASE UNCHANGED <<stateSend, frameSend, timerSend, toModule>>
    <3>1. frameSend # NoFrame => frameSend # f
      BY <2>1 DEF IInv, NoFreedFrame
    <3> QED
      BY <2>1, <2>3, <3>1 DEF OneOnTheLine
  <2> QED
    BY <1>1, <2>2, <2>3 DEF session_send
<1>2. CASE frame_receive_answer
  BY <1>2, AnswerIsAlone, SendOverOnTheLine
<1>3. CASE frame_send_timer_callback
  BY <1>3, SendOverOnTheLine DEF frame_send_timer_callback, Errors
<1>4. CASE ModuleAnswers
  <2>1. toModule # <<>> /\ toModule' = Tail(toModule)
        /\ UNCHANGED <<frameSend, held>>
    BY <1>4 DEF ModuleAnswers, codeVars, histVars
  <2>2. Len(toModule) = 1 /\ toHost = <<>> /\ toModule' = <<>>
    <3>1. toModule \in Seq(Frames) /\ toHost \in Seq(Answers)
      BY DEF IInv, TypeOK
    <3>2. Len(toModule) + Len(toHost) <= 1 /\ Len(toModule) >= 1
      BY <2>1, <3>1, ShortSequences DEF OneOnTheLine
    <3>3. Len(toModule) = 1 /\ Len(toHost) = 0 /\ Len(Tail(toModule)) = 0
      <4>1. Len(toModule) \in Nat /\ Len(toHost) \in Nat
            /\ Len(Tail(toModule)) = Len(toModule) - 1
        BY <2>1, <3>1, ShortSequences
      <4> QED
        BY <3>2, <4>1, OneOfTwo
    <3> QED
      BY <2>1, <3>1, <3>3, ShortSequences
  <2>3. Head(toModule) = frameSend /\ frameSend # NoFrame /\ frameSend \in held
    BY <2>1 DEF OneOnTheLine, IInv, NoFreedFrame
  <2>4. PICK a \in Answers :
          /\ got' = IF a = "ACK" THEN got \cup ({Head(toModule)} \cap held) ELSE got
          /\ UNCHANGED toHost \/ toHost' = Append(toHost, a)
    BY <1>4 DEF ModuleAnswers
  <2>5. toHost' = <<>> \/ toHost' = <<a>>
    BY <2>2, <2>4
  <2>6. toHost' # <<>> /\ Head(toHost') = "ACK" => frameSend \in got'
    BY <2>3, <2>4, <2>5
  <2>7. Len(toModule') + Len(toHost') <= 1
    <3>1. Len(toModule') = 0 /\ (Len(toHost') = 0 \/ Len(toHost') = 1)
      BY <2>2, <2>5
    <3>2. \A m, n : m = 0 /\ (n = 0 \/ n = 1) => m + n <= 1
      OBVIOUS
    <3> QED
      BY ONLY <3>1, <3>2, Zenon
  <2> QED
    BY <2>1, <2>2, <2>3, <2>6, <2>7 DEF OneOnTheLine
<1>5. CASE UNCHANGED vars
  BY <1>5 DEF vars, codeVars, OneOnTheLine
<1> QED
  BY <1>1, <1>2, <1>3, <1>4, <1>5 DEF Next

(* What the service sees of a frame.                                       *)
Status(f) == IF f \notin held THEN "idle"
             ELSE IF f \in got THEN "delivered" ELSE "accepted"

(* A step of the link that changes only what the service sees of f.        *)
LEMMA ServiceMove ==
  ASSUME NEW f \in Frames, NEW from, NEW to,
         Status(f) \in from, Status(f)' = to,
         \A g \in Frames \ {f} : Status(g)' = Status(g)
  PROVE  Service!Move(f, from, to)
<1> DEFINE before == [g \in Frames |-> Status(g)]
           after  == [g \in Frames |-> Status(g)']
<1>1. before[f] \in from /\ after = [before EXCEPT ![f] = to]
  OBVIOUS
<1> QED
  BY <1>1 DEF Service!Move, Status

LEMMA OverIsServed ==
  ASSUME IInv, NEW e \in Errors, send_over(e), UNCHANGED got,
         e = "ACK" /\ frameSend # NoFrame => frameSend \in got
  PROVE  [Service!SNext]_(Service!svars)
<1>1. CASE UNCHANGED <<held, outcome>>
  BY <1>1 DEF Service!svars
<1>2. CASE frameSend # NoFrame /\ Over(frameSend, e)
  <2>0. PICK f \in Frames : f = frameSend
    BY <1>2 DEF IInv, TypeOK
  <2>1. /\ f \in held /\ held' = held \ {f}
        /\ outcome' = [outcome EXCEPT ![f] = e]
    BY <1>2, <2>0 DEF Over, GiveBack, IInv, NoFreedFrame
  <2>2. /\ Status(f) \in {"accepted", "delivered"} /\ Status(f)' = "idle"
        /\ e = "ACK" => Status(f) \in {"delivered"}
        /\ \A g \in Frames \ {f} : Status(g)' = Status(g)
    BY <1>2, <2>0, <2>1 DEF Status
  <2>3. CASE e = "ACK"
    <3>1. Service!Move(f, {"delivered"}, "idle")
      BY <2>1, <2>2, <2>3, ServiceMove
    <3> QED
      BY <2>1, <2>3, <3>1 DEF Service!SNext, Service!Acknowledge
  <2>4. CASE e # "ACK"
    <3>1. Service!Move(f, {"accepted", "delivered"}, "idle")
      BY <2>1, <2>2, ServiceMove
    <3>2. e \in {"TIMEOUT", "NAK", "CAN"}
      BY <2>4 DEF Errors, Answers
    <3> QED
      BY <2>1, <3>1, <3>2 DEF Service!SNext, Service!GiveUp
  <2> QED
    BY <2>3, <2>4
<1> QED
  BY <1>1, <1>2 DEF send_over, Retry, histVars

LEMMA NextIsServed ==
  ASSUME Prompt, IInv, OneOnTheLine, [Next]_vars
  PROVE  [Service!SNext]_(Service!svars)
<1>1. ASSUME NEW f \in Frames, session_send(f)
      PROVE  [Service!SNext]_(Service!svars)
  <2>1. /\ f \notin held /\ held' = held \cup {f} /\ got' = got \ {f}
        /\ outcome' = [outcome EXCEPT ![f] = "NONE"]
    BY <1>1 DEF session_send
  <2>2. /\ Status(f) \in {"idle"} /\ Status(f)' = "accepted"
        /\ \A g \in Frames \ {f} : Status(g)' = Status(g)
    BY <2>1 DEF Status
  <2>3. Service!Move(f, {"idle"}, "accepted")
    BY <2>2, ServiceMove
  <2> QED
    BY <2>1, <2>3 DEF Service!SNext, Service!Accept
<1>2. CASE frame_receive_answer
  <2>1. toHost # <<>> /\ UNCHANGED got
    BY <1>2 DEF frame_receive_answer
  <2> QED
    BY <1>2, <2>1, AnswerIsAlone, OverIsServed DEF OneOnTheLine
<1>3. CASE frame_send_timer_callback
  BY <1>3, OverIsServed DEF frame_send_timer_callback, Errors
<1>4. CASE ModuleAnswers
  <2>1. UNCHANGED <<held, outcome>>
    BY <1>4 DEF ModuleAnswers, histVars
  <2>2. CASE got' = got
    BY <2>1, <2>2 DEF Service!svars
  <2>3. CASE got' # got
    <3>0. PICK f : f = Head(toModule)
      OBVIOUS
    <3>1. got' = got \cup ({f} \cap held)
      BY <1>4, <2>3, <3>0 DEF ModuleAnswers
    <3>2. f \in held /\ f \notin got /\ f \in Frames
      BY <2>3, <3>1 DEF IInv, TypeOK
    <3>3. /\ Status(f) \in {"accepted"} /\ Status(f)' = "delivered"
          /\ \A g \in Frames \ {f} : Status(g)' = Status(g)
      BY <2>1, <3>1, <3>2 DEF Status
    <3>4. Service!Move(f, {"accepted"}, "delivered")
      BY <3>2, <3>3, ServiceMove
    <3> QED
      BY <2>1, <3>2, <3>4 DEF Service!SNext, Service!Deliver
  <2> QED
    BY <2>2, <2>3
<1>5. CASE UNCHANGED vars
  BY <1>5 DEF vars, histVars, Service!svars
<1> QED
  BY <1>1, <1>2, <1>3, <1>4, <1>5 DEF Next

(* Over a module that answers before the timer every step of session.c and *)
(* frame.c is a step of SendService or leaves it alone: whatever the line  *)
(* loses, however many frames wait, a frame handed in is given back at     *)
(* most once, and as acknowledged only if the module has it.               *)
THEOREM PromptLinkIsService == ASSUME Prompt PROVE Spec => Service!SSpec
<1>1. Init => OneOnTheLine
  BY DEF Init, OneOnTheLine
<1>2. IInv /\ OneOnTheLine /\ [Next]_vars => OneOnTheLine'
  BY NextKeepsOneOnTheLine
<1>3. Init => Service!SInit
  BY DEF Init, Service!SInit
<1>4. IInv /\ OneOnTheLine /\ [Next]_vars => [Service!SNext]_(Service!svars)
  BY NextIsServed
<1> QED
  BY <1>1, <1>2, <1>3, <1>4, SessionInvariant, PTL DEF Spec, Service!SSpec
=============================================================================
