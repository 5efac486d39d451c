------------------------ MODULE RbxcrateCalls_proofs ------------------------
(***************************************************************************)
(* Proofs about RbxcrateCalls, for any number of calls and of attempts.    *)
(***************************************************************************)
EXTENDS RbxcrateCalls, TLAPS

Requests == [op : {"create", "cancel"}, preorder : BOOLEAN, by : Calls]
CallTypes ==
    {Idle} \cup [pc : {"told"}, result : Results]
        \cup [pc : {"send", "wait", "answered"}, op : {"create", "cancel"},
              preorder : BOOLEAN, attempt : 1 .. MAX_ATTEMPTS, answer : Answers]

\* What a call has been told, or is about to be told, is about its own request.
Sound(c) ==
    /\ Told(c, "accepted") => order.by = c /\ ~order.preorder
    /\ Told(c, "preordered") => order.by = c /\ order.preorder
    /\ Told(c, "cancelled") => order.status = "cancelled" /\ order.cancelledBy = c
    /\ call[c].pc = "answered" /\ call[c].answer = "done" =>
        IF call[c].op = "create"
        THEN order.by = c /\ order.preorder = call[c].preorder
        ELSE order.status = "cancelled" /\ order.cancelledBy = c

\* What a step may do to RBXCrate's order.
OrderStep ==
    \/ UNCHANGED order
    \/ \E r \in Requests : Accepts(r) \/ Cancels(r)
    \/ /\ order.status = "active"
       /\ \E s \in {"completed", "cancelled"} : order' = [order EXCEPT !.status = s]

\* The invariant, call by call.
LEMMA SoundCalls ==
    IInv <=> TypeOK /\ AbsentHasNoBuyer /\ \A c \in Calls : Sound(c)
BY DEF IInv, AcceptedIsOurs, CancelledIsOurs, DoneIsOurs, Sound

\* Whose order it is, of what kind, and who cancelled it stays as it is.
LEMMA OrderKept ==
    ASSUME TypeOK, AbsentHasNoBuyer, OrderStep
    PROVE  /\ order' \in [status : {"absent", "active", "completed", "cancelled"},
                          preorder : BOOLEAN, by : Calls \cup {NoCall},
                          cancelledBy : Calls \cup {NoCall}]
           /\ AbsentHasNoBuyer'
           /\ \A c \in Calls :
                /\ order.by = c => order'.by = c /\ order'.preorder = order.preorder
                /\ order.status = "cancelled" /\ order.cancelledBy = c =>
                    order'.status = "cancelled" /\ order'.cancelledBy = c
<1> USE NoCallAssumption DEF TypeOK, AbsentHasNoBuyer
<1>1. CASE UNCHANGED order
  BY <1>1
<1>2. ASSUME NEW r \in Requests, Accepts(r)
      PROVE  order' = [status |-> "active", preorder |-> r.preorder, by |-> r.by,
                       cancelledBy |-> NoCall] /\ order.status = "absent"
  BY <1>2 DEF Accepts, Absent
<1>3. CASE \E r \in Requests : Accepts(r)
  BY <1>2, <1>3 DEF Requests
<1>4. CASE \E r \in Requests : Cancels(r)
  BY <1>4 DEF Requests, Cancels
<1>5. CASE /\ order.status = "active"
           /\ \E s \in {"completed", "cancelled"} : order' = [order EXCEPT !.status = s]
  BY <1>5
<1> QED BY <1>1, <1>3, <1>4, <1>5 DEF OrderStep

\* A step of one call keeps the invariant if it leaves that call sound.
LEMMA OneCallMoves ==
    ASSUME IInv, NEW c \in Calls, NEW k, call' = [call EXCEPT ![c] = k],
           k \in CallTypes, late' \subseteq Requests, OrderStep, Sound(c)'
    PROVE  IInv'
<1>1. TypeOK /\ AbsentHasNoBuyer /\ \A d \in Calls : Sound(d)
  BY SoundCalls
<1>2. TypeOK'
  BY <1>1, OrderKept DEF TypeOK, CallTypes, Requests
<1>3. ASSUME NEW d \in Calls PROVE Sound(d)'
  <2>1. CASE d = c
    BY <2>1
  <2>2. CASE d # c
    <3>1. call'[d] = call[d]
      BY <1>1, <2>2 DEF TypeOK
    <3> QED BY <1>1, <3>1, OrderKept DEF Sound, Told
  <2> QED BY <2>1, <2>2
<1> QED BY <1>1, <1>2, <1>3, OrderKept
     DEF IInv, AcceptedIsOurs, CancelledIsOurs, DoneIsOurs, Sound

\* The stray requests are requests, also when a connection is given up.
LEMMA LateRequests ==
    ASSUME TypeOK, NEW c \in Calls, Running(c), GiveUpConnection(c)
    PROVE  late' \subseteq Requests
<1>1. call[c] \in [pc : {"send", "wait", "answered"}, op : {"create", "cancel"},
                   preorder : BOOLEAN, attempt : 1 .. MAX_ATTEMPTS, answer : Answers]
  BY DEF TypeOK, Running, Idle
<1> QED BY <1>1 DEF TypeOK, GiveUpConnection, Request, Requests

\* A call that asks, or asks again, or is told of a failure is sound.
LEMMA Asking ==
    ASSUME IInv, NEW c \in Calls, NEW op \in {"create", "cancel"}, NEW preorder \in BOOLEAN,
           NEW attempt \in 1 .. MAX_ATTEMPTS, Ask(c, op, preorder, attempt),
           UNCHANGED order, late' \subseteq Requests
    PROVE  IInv'
<1> DEFINE k == [pc |-> "send", op |-> op, preorder |-> preorder, attempt |-> attempt,
                 answer |-> "none"]
<1>1. call' = [call EXCEPT ![c] = k] /\ k \in CallTypes
  BY DEF Ask, CallTypes, Answers
<1>2. call'[c] = k
  BY <1>1 DEF IInv, TypeOK
<1>3. Sound(c)'
  BY <1>2 DEF Sound, Told
<1> QED BY <1>1, <1>3, OneCallMoves DEF OrderStep

\* A call that is told of a failure keeps the invariant.
LEMMA Failing ==
    ASSUME IInv, NEW c \in Calls, Tell(c, "error"), UNCHANGED order, late' \subseteq Requests
    PROVE  IInv'
<1> DEFINE k == [pc |-> "told", result |-> "error"]
<1>1. call' = [call EXCEPT ![c] = k] /\ k \in CallTypes
  BY DEF Tell, CallTypes, Results
<1>2. call'[c] = k
  BY <1>1 DEF IInv, TypeOK
<1>3. Sound(c)'
  BY <1>2 DEF Sound, Told
<1> QED BY <1>1, <1>3, OneCallMoves DEF OrderStep

\* A call that sends its request once more, or has done so too often, keeps the invariant.
LEMMA Retrying ==
    ASSUME IInv, NEW c \in Calls, Running(c), Retry(c), UNCHANGED order,
           late' \subseteq Requests
    PROVE  IInv'
<1>1. /\ call[c].op \in {"create", "cancel"}
      /\ call[c].preorder \in BOOLEAN
      /\ call[c].attempt \in 1 .. MAX_ATTEMPTS
  BY DEF IInv, TypeOK, Running, Idle
<1>2. CASE call[c].attempt < MAX_ATTEMPTS
  <2>1. call[c].attempt + 1 \in 1 .. MAX_ATTEMPTS
    BY <1>1, <1>2, AttemptsAssumption
  <2>2. Ask(c, call[c].op, call[c].preorder, call[c].attempt + 1)
    BY <1>2 DEF Retry
  <2> QED BY <1>1, <2>1, <2>2, Asking
<1>3. CASE ~(call[c].attempt < MAX_ATTEMPTS)
  BY <1>3, Failing DEF Retry
<1> QED BY <1>2, <1>3

-----------------------------------------------------------------------------
\* At the beginning there are no calls and no order.
LEMMA InitIInv == Init => IInv
<1> SUFFICES ASSUME Init PROVE IInv
  OBVIOUS
<1>1. \A c \in Calls : call[c] = Idle
  BY DEF Init
<1>2. TypeOK /\ AbsentHasNoBuyer
  BY DEF Init, TypeOK, AbsentHasNoBuyer, Absent
<1>3. ASSUME NEW c \in Calls PROVE Sound(c)
  <2>1. call[c].pc = "idle"
    BY <1>1 DEF Idle
  <2> QED BY <2>1 DEF Sound, Told
<1> QED BY <1>2, <1>3, SoundCalls

\* An answer of RBXCrate, with or without effect.
LEMMA ServeIInv ==
    ASSUME IInv, NEW c \in Calls, Serve(c)
    PROVE  IInv'
<1>1. call[c] \in [pc : {"send", "wait", "answered"}, op : {"create", "cancel"},
                   preorder : BOOLEAN, attempt : 1 .. MAX_ATTEMPTS, answer : Answers]
  BY DEF Serve, IInv, TypeOK, Idle
<1>2. Request(c) \in Requests /\ Request(c).by = c /\ Request(c).op = call[c].op
        /\ Request(c).preorder = call[c].preorder
  BY <1>1 DEF Request, Requests
<1>3. late' \subseteq Requests
  BY DEF Serve, IInv, TypeOK, Requests
<1>4. ASSUME NEW a \in Answers, Answer(c, a), OrderStep,
             a = "done" => Accepts(Request(c)) \/ Cancels(Request(c))
      PROVE  IInv'
  <2> DEFINE k == [call[c] EXCEPT !.pc = "answered", !.answer = a]
  <2>1. call' = [call EXCEPT ![c] = k] /\ k \in CallTypes
    BY <1>1, <1>4 DEF Answer, CallTypes
  <2>2. call'[c] = k /\ k.pc = "answered" /\ k.answer = a /\ k.op = call[c].op
          /\ k.preorder = call[c].preorder
    BY <1>1, <2>1 DEF IInv, TypeOK
  <2>3. CASE a # "done"
    <3>1. Sound(c)'
      BY <2>2, <2>3 DEF Sound, Told
    <3> QED BY <1>3, <1>4, <2>1, <3>1, OneCallMoves
  <2>4. CASE Accepts(Request(c))
    <3>1. call[c].op = "create" /\ order'.by = c /\ order'.preorder = call[c].preorder
      BY <1>2, <2>4 DEF Accepts, Absent
    <3>2. Sound(c)'
      BY <2>2, <3>1 DEF Sound, Told
    <3> QED BY <1>3, <1>4, <2>1, <3>2, OneCallMoves
  <2>5. CASE Cancels(Request(c))
    <3>1. call[c].op = "cancel" /\ order'.status = "cancelled" /\ order'.cancelledBy = c
      BY <1>2, <2>5 DEF Cancels, IInv, TypeOK
    <3>2. Sound(c)'
      BY <2>2, <3>1 DEF Sound, Told
    <3> QED BY <1>3, <1>4, <2>1, <3>2, OneCallMoves
  <2> QED BY <1>4, <2>3, <2>4, <2>5
<1>5. CASE /\ Accepts(Request(c)) \/ Cancels(Request(c))
           /\ \E a \in AnswersOfEffect : Answer(c, a)
  <2>1. PICK a \in AnswersOfEffect : Answer(c, a)
    BY <1>5
  <2>2. a \in Answers /\ OrderStep
    BY <1>2, <1>5 DEF AnswersOfEffect, Answers, OrderStep
  <2> QED BY <1>4, <1>5, <2>1, <2>2
<1>6. CASE (\E a \in Refusals(Request(c)) : Answer(c, a)) /\ UNCHANGED order
  <2>1. PICK a \in Refusals(Request(c)) : Answer(c, a)
    BY <1>6
  <2>2. a \in Answers /\ a # "done" /\ OrderStep
    BY <1>6 DEF Refusals, Answers, OrderStep
  <2> QED BY <1>4, <2>1, <2>2
<1> QED BY <1>5, <1>6 DEF Serve

\* The caller is told what its answer says.
LEMMA ReturnIInv ==
    ASSUME IInv, NEW c \in Calls, Return(c)
    PROVE  IInv'
<1>1. call[c] \in [pc : {"send", "wait", "answered"}, op : {"create", "cancel"},
                   preorder : BOOLEAN, attempt : 1 .. MAX_ATTEMPTS, answer : Answers]
  BY DEF Return, IInv, TypeOK, Idle
<1> DEFINE outcome == Outcome(call[c].op, call[c].preorder, call[c].answer)
           k == [pc |-> "told", result |-> outcome]
<1>2. call' = [call EXCEPT ![c] = k] /\ k \in CallTypes
  BY <1>1 DEF Return, Tell, CallTypes, Results, Outcome
<1>3. call'[c] = k
  BY <1>2 DEF IInv, TypeOK
<1>4. UNCHANGED <<order, late>> /\ call[c].pc = "answered" /\ Sound(c)
  BY SoundCalls DEF Return
<1>5. Sound(c)'
  <2>1. outcome \in {"accepted", "preordered", "cancelled"} => call[c].answer = "done"
    BY DEF Outcome
  <2>2. /\ outcome = "accepted" => call[c].op = "create" /\ ~call[c].preorder
        /\ outcome = "preordered" => call[c].op = "create" /\ call[c].preorder
        /\ outcome = "cancelled" => call[c].op = "cancel"
    BY <1>1 DEF Outcome
  <2> HIDE DEF outcome
  <2> QED BY <1>3, <1>4, <2>1, <2>2 DEF Sound, Told
<1>6. late' \subseteq Requests /\ OrderStep
  BY <1>4 DEF IInv, TypeOK, Requests, OrderStep
<1> QED BY <1>2, <1>5, <1>6, OneCallMoves

\* A step of one caller, without RBXCrate, keeps the invariant.
LEMMA ProceedIInv ==
    ASSUME IInv, NEW c \in Calls, Proceed(c)
    PROVE  IInv'
<1>1. ASSUME UNCHANGED late PROVE late' \subseteq Requests
  BY <1>1 DEF IInv, TypeOK, Requests
<1>2. 1 \in 1 .. MAX_ATTEMPTS
  BY AttemptsAssumption
<1>3. CASE Send(c)
  <2> DEFINE k == [call[c] EXCEPT !.pc = "wait"]
  <2>1. call[c] \in [pc : {"send", "wait", "answered"}, op : {"create", "cancel"},
                     preorder : BOOLEAN, attempt : 1 .. MAX_ATTEMPTS, answer : Answers]
    BY <1>3 DEF Send, IInv, TypeOK, Idle
  <2>2. call' = [call EXCEPT ![c] = k] /\ k \in CallTypes /\ k.pc = "wait"
    BY <1>3, <2>1 DEF Send, CallTypes
  <2>3. call'[c] = k
    BY <2>2 DEF IInv, TypeOK
  <2>4. Sound(c)'
    BY <2>2, <2>3 DEF Sound, Told
  <2> QED BY <1>1, <1>3, <2>2, <2>4, OneCallMoves DEF Send, OrderStep
<1>4. CASE ConnectFails(c)
  BY <1>1, <1>4, Retrying DEF ConnectFails, Running
<1>5. CASE TimesOut(c)
  BY <1>5, LateRequests, Retrying DEF TimesOut, Running, IInv
<1>6. CASE Breaks(c)
  BY <1>6, LateRequests, Failing DEF Breaks, IInv
<1>7. CASE ServerFailed(c)
  BY <1>1, <1>7, Retrying DEF ServerFailed, Running
<1>8. CASE FallBack(c)
  BY <1>1, <1>2, <1>8, Asking DEF FallBack
<1>9. CASE Return(c)
  BY <1>9, ReturnIInv
<1> QED BY <1>3, <1>4, <1>5, <1>6, <1>7, <1>8, <1>9 DEF Proceed

\* A step of RBXCrate that no call takes part in.
LEMMA OrderMovesAlone ==
    ASSUME IInv, OrderStep, UNCHANGED call, late' \subseteq late
    PROVE  IInv'
<1>1. TypeOK /\ AbsentHasNoBuyer /\ \A c \in Calls : Sound(c)
  BY SoundCalls
<1>2. TypeOK' /\ AbsentHasNoBuyer'
  BY <1>1, OrderKept DEF TypeOK
<1>3. \A c \in Calls : Sound(c)'
  BY <1>1, OrderKept DEF Sound, Told
<1> QED BY <1>2, <1>3
     DEF IInv, AcceptedIsOurs, CancelledIsOurs, DoneIsOurs, Sound

\* Every step keeps the invariant.
LEMMA NextIInv == IInv /\ [Next]_vars => IInv'
<1> SUFFICES ASSUME IInv, [Next]_vars PROVE IInv'
  OBVIOUS
<1>1. 1 \in 1 .. MAX_ATTEMPTS
  BY AttemptsAssumption
<1>2. ASSUME NEW c \in Calls, BeginCreate(c) PROVE IInv'
  <2>1. late' \subseteq Requests
    BY <1>2 DEF BeginCreate, IInv, TypeOK, Requests
  <2> QED BY <1>1, <1>2, <2>1, Asking DEF BeginCreate
<1>3. ASSUME NEW c \in Calls, BeginCancel(c) PROVE IInv'
  <2>1. late' \subseteq Requests
    BY <1>3 DEF BeginCancel, IInv, TypeOK, Requests
  <2> QED BY <1>1, <1>3, <2>1, Asking DEF BeginCancel
<1>4. ASSUME NEW c \in Calls, Proceed(c) PROVE IInv'
  BY <1>4, ProceedIInv
<1>5. ASSUME NEW c \in Calls, Serve(c) PROVE IInv'
  BY <1>5, ServeIInv
<1>6. ASSUME NEW r \in late, ServeLate(r) PROVE IInv'
  <2>1. r \in Requests
    BY DEF IInv, TypeOK, Requests
  <2> QED BY <1>6, <2>1, OrderMovesAlone DEF ServeLate, OrderStep
<1>7. CASE Works
  BY <1>7, OrderMovesAlone DEF Works, OrderStep
<1>8. CASE UNCHANGED vars
  BY <1>8, OrderMovesAlone DEF vars, OrderStep
<1> QED BY <1>2, <1>3, <1>4, <1>5, <1>6, <1>7, <1>8 DEF Next

-----------------------------------------------------------------------------
\* The invariant holds however many calls are made about an id and however often each is
\* repeated.
THEOREM CallsInvariant == Spec => []IInv
BY InitIInv, NextIInv, PTL DEF Spec

\* RBXCrate's order, the calls and the stray requests keep their types, and the number of
\* requests of one create or cancel its bound.
THEOREM CallTypesCorrect == Spec => []TypeOK
<1>1. IInv => TypeOK
  BY DEF IInv
<1> QED BY <1>1, CallsInvariant, PTL

\* Who is told that an order was accepted made RBXCrate take it, and knows of which kind it
\* is.
THEOREM Accepted == Spec => []AcceptedIsOurs
<1>1. IInv => AcceptedIsOurs
  BY DEF IInv
<1> QED BY <1>1, CallsInvariant, PTL

\* Who is told that an order is cancelled cancelled it.
THEOREM Cancelled == Spec => []CancelledIsOurs
<1>1. IInv => CancelledIsOurs
  BY DEF IInv
<1> QED BY <1>1, CallsInvariant, PTL

=============================================================================
