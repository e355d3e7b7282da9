------------------------- MODULE PlatformCallsProofs -------------------------
(***************************************************************************)
(* Theorems about PlatformCalls, for any calls of any of the methods.      *)
(***************************************************************************)
EXTENDS PlatformCalls, FiniteSetTheorems, TLAPS

(* The inductive invariant *)

\* Before it is sent, and when it never was, a request has left no trace.
Untouched(c) == flight[c] = "none" /\ arrivals[c] = 0 /\ served[c] = 0

Exchange ==
  \A c \in Calls :
    /\ stage[c] \in {"idle", "checking", "ready"} => Untouched(c) /\ outcome[c] = "none"
    /\ stage[c] = "sent" => outcome[c] = "none"
    /\ outcome[c] \in {"unchecked", "rejected"} => Untouched(c)
    /\ flight[c] = "request" => /\ arrivals[c] = 0 /\ served[c] = 0
                                /\ outcome[c] \in {"none", "unreachable"}
    /\ arrivals[c] <= 1

\* An answer on its way tells what the platform did.
AnswerTellsEffect ==
  \A c \in Calls :
    flight[c] = "answer" =>
      /\ stage[c] = "sent"
      /\ answer[c].status \in {200, 201} => served[c] = 1
      /\ answer[c].status >= 400 /\ answer[c].status < 500 => served[c] = 0
      /\ answer[c].status \notin {200, 201} => answer[c].body = "text"

\* Who says, or is about to say, that the call created the event.
Claims(c) == \/ outcome[c] = "created"
             \/ flight[c] = "answer" /\ answer[c].status = 201

OneClaim ==
  /\ \A c, d \in Calls : Claims(c) /\ Claims(d) => c = d
  /\ \A c \in Calls : Claims(c) \/ outcome[c] = "replayed" => recorded
  /\ \A c \in Calls : /\ flight[c] = "answer" /\ answer[c].status \in {200, 201}
                      /\ Shape[method[c]] = "event"
                      => recorded

IInv == TypeOK /\ Exchange /\ AnswerTellsEffect /\ OutcomeTellsEffect

-----------------------------------------------------------------------------
(* Decoding                                                                *)

\* Only a method that does not look at its answer takes a body that is no JSON.
LEMMA DecodeText ==
  ASSUME NEW m, NEW a, a.body = "text", Shape[m] # "nothing"
  PROVE  Decode(m, a) = "foreign"
BY DEF Decode, Accepted, Misread, Bodies

LEMMA DecodeOutcome ==
  ASSUME NEW m, NEW a
  PROVE  /\ Decode(m, a) \in Results \cup {"misread", "foreign"}
         /\ Decode(m, a) = "created" => Shape[m] = "event" /\ a.status = 201
         /\ Decode(m, a) = "replayed" => Shape[m] = "event" /\ a.status # 201
BY DEF Decode, EventResult, Results

LEMMA ErrorClassOutcome ==
  ASSUME NEW n \in Statuses, n >= 400
  PROVE  /\ ErrorClass(n) \in Refusals \cup {"server"}
         /\ ErrorClass(n) \in Refusals => n < 500
BY DEF ErrorClass, Statuses, Refusals

-----------------------------------------------------------------------------
(* Invariance                                                              *)

LEMMA TypeStep == TypeOK /\ [Next]_vars => TypeOK'
<1> SUFFICES ASSUME TypeOK, [Next]_vars PROVE TypeOK'
  OBVIOUS
<1> USE CallsAssumption DEF TypeOK, GoTo, End, platform
<1>1. ASSUME NEW c \in Calls, Call(c) \/ Reject(c) \/ CheckEnds(c) PROVE TypeOK'
  BY <1>1 DEF Call, Reject, CheckEnds, Outcomes
<1>2. ASSUME NEW c \in Calls, Send(c) PROVE TypeOK'
  BY <1>2 DEF Send
<1>3. ASSUME NEW c \in Calls, Receive(c) PROVE TypeOK'
  <2>1. answer[c].status \in Statuses \cup {0}
    BY DEF NoAnswer
  <2>2. (IF answer[c].status >= 400 THEN ErrorClass(answer[c].status)
         ELSE Decode(method[c], answer[c])) \in Outcomes
    BY <2>1, ErrorClassOutcome, DecodeOutcome DEF Outcomes
  <2>3. outcome' \in [Calls -> Outcomes]
    BY <1>3, <2>2 DEF Receive
  <2> QED
    BY <1>3, <2>3 DEF Receive, Taken
<1>4. ASSUME NEW c \in Calls, GiveUp(c) PROVE TypeOK'
  BY <1>4 DEF GiveUp, Taken, Outcomes
<1>5. ASSUME NEW c \in Calls, NEW n \in Statuses, NEW b \in Bodies, Reply(c, n, b)
      PROVE  /\ answer' \in [Calls -> [status : Statuses, body : Bodies] \cup {NoAnswer}]
             /\ flight' \in [Calls -> {"none", "request", "answer"}]
             /\ arrivals' \in [Calls -> Nat]
  BY <1>5 DEF Reply
<1>6. ASSUME NEW c \in Calls, Serve(c) PROVE TypeOK'
  <2>1. recorded' \in BOOLEAN
    BY <1>6, Zenon DEF Serve
  <2>2. \E n \in Statuses, b \in Bodies : Reply(c, n, b)
    BY <1>6 DEF Serve, Statuses
  <2> QED
    BY <1>5, <1>6, <2>1, <2>2 DEF Serve
<1>7. ASSUME NEW c \in Calls, Refuse(c) PROVE TypeOK'
  <2>1. \E n \in Statuses, b \in Bodies : Reply(c, n, b)
    BY <1>7 DEF Refuse, Statuses, Bodies
  <2> QED
    BY <1>5, <1>7, <2>1 DEF Refuse
<1>8. ASSUME NEW c \in Calls, Break(c) PROVE TypeOK'
  <2>1. recorded' \in BOOLEAN
    BY <1>8, Zenon DEF Break
  <2>2. \E n \in Statuses, b \in Bodies : Reply(c, n, b)
    BY <1>8 DEF Break, Statuses, Bodies
  <2> QED
    BY <1>5, <1>8, <2>1, <2>2 DEF Break
<1>9. CASE UNCHANGED vars
  BY <1>9 DEF vars
<1> QED
  BY <1>1, <1>2, <1>3, <1>4, <1>6, <1>7, <1>8, <1>9 DEF Next

LEMMA Step == IInv /\ [Next]_vars => IInv'
<1> SUFFICES ASSUME IInv, [Next]_vars PROVE IInv'
  OBVIOUS
<1>0. TypeOK'
  BY TypeStep DEF IInv
<1> USE <1>0 DEF IInv, Exchange, AnswerTellsEffect, OutcomeTellsEffect, Untouched, GoTo,
                 End, platform
<1>1. ASSUME NEW c \in Calls, Call(c) PROVE IInv'
  BY <1>1 DEF Call, TypeOK, Results, Refusals
<1>2. ASSUME NEW c \in Calls, Reject(c) PROVE IInv'
  BY <1>2 DEF Reject, TypeOK, Results, Refusals
<1>3. ASSUME NEW c \in Calls, CheckEnds(c) PROVE IInv'
  BY <1>3 DEF CheckEnds, TypeOK, Results, Refusals
<1>4. ASSUME NEW c \in Calls, Send(c) PROVE IInv'
  BY <1>4 DEF Send, TypeOK, Results, Refusals
<1>5. ASSUME NEW c \in Calls, Receive(c) PROVE IInv'
  <2>1. CASE answer[c].status >= 400
    <3>1. answer[c].status \in Statuses
      BY <2>1 DEF TypeOK, NoAnswer
    <3>2. outcome'[c] = ErrorClass(answer[c].status)
      BY <1>5, <2>1 DEF Receive, TypeOK
    <3>3. /\ outcome'[c] \in Refusals \cup {"server"}
          /\ outcome'[c] \in Refusals => served[c] = 0
      BY <1>5, <2>1, <3>1, <3>2, ErrorClassOutcome DEF Receive
    <3> QED
      BY <1>5, <3>3 DEF Receive, Taken, TypeOK, Results, Refusals
  <2>2. CASE ~(answer[c].status >= 400)
    <3>1. outcome'[c] = Decode(method[c], answer[c])
      BY <1>5, <2>2 DEF Receive, TypeOK
    <3>2. outcome'[c] \in Results \cup {"misread", "foreign"}
      BY <3>1, DecodeOutcome
    <3>3. outcome'[c] \in Results /\ Shape[method[c]] # "nothing" => served[c] = 1
      BY <1>5, <3>1, DecodeText DEF Receive, Results
    <3> QED
      BY <1>5, <3>2, <3>3 DEF Receive, Taken, TypeOK, Results, Refusals
  <2> QED
    BY <2>1, <2>2
<1>6. ASSUME NEW c \in Calls, GiveUp(c) PROVE IInv'
  BY <1>6 DEF GiveUp, Taken, TypeOK, Results, Refusals
<1>7. ASSUME NEW c \in Calls, Serve(c) PROVE IInv'
  BY <1>7 DEF Serve, Reply, TypeOK, Results, Refusals
<1>8. ASSUME NEW c \in Calls, Refuse(c) PROVE IInv'
  BY <1>8 DEF Refuse, Reply, TypeOK, Results, Refusals
<1>9. ASSUME NEW c \in Calls, Break(c) PROVE IInv'
  BY <1>9 DEF Break, Reply, TypeOK, Results, Refusals
<1>10. CASE UNCHANGED vars
  BY <1>10 DEF vars, TypeOK
<1> QED
  BY <1>1, <1>2, <1>3, <1>4, <1>5, <1>6, <1>7, <1>8, <1>9, <1>10 DEF Next

LEMMA Start == Init => IInv
<1> SUFFICES ASSUME Init PROVE IInv
  OBVIOUS
<1>1. recorded \in BOOLEAN
  BY Zenon DEF Init
<1> QED
  BY <1>1, CallsAssumption
  DEF Init, IInv, TypeOK, Exchange, AnswerTellsEffect, OutcomeTellsEffect, Untouched,
      Outcomes, Results, Refusals

LEMMA Invariance == Spec => []IInv
<1>1. Init => IInv
  BY Start
<1>2. IInv /\ [Next]_vars => IInv'
  BY Step
<1> QED
  BY <1>1, <1>2, PTL DEF Spec

\* Every variable of the model always has its type.
THEOREM TypeCorrect == Spec => []TypeOK
  BY Invariance, PTL DEF IInv

\* No method sends its request twice, whatever the answer (client.py:224-236).
THEOREM CallsAreNotReplayed == Spec => []NeverReplayed
<1>1. IInv => NeverReplayed
  BY DEF IInv, Exchange, NeverReplayed
<1> QED
  BY <1>1, Invariance, PTL

\* A result of a method that reads its answer means that the platform carried
\* the request out, a refusal that it did not (client.py:234-287).
THEOREM OutcomesAreTrue == Spec => []OutcomeTellsEffect
  BY Invariance, PTL DEF IInv

-----------------------------------------------------------------------------
(* Events                                                                  *)

\* A step that touches call c only, takes no claim from nowhere and does not
\* forget the event keeps the claims in order.
LEMMA OneClaimKept ==
  ASSUME OneClaim, NEW c \in Calls,
         \A d \in Calls : d # c => /\ outcome'[d] = outcome[d] /\ flight'[d] = flight[d]
                                   /\ answer'[d] = answer[d],
         Claims(c)' => Claims(c),
         outcome'[c] = "replayed" => recorded,
         flight'[c] = "answer" => flight[c] = "answer" /\ answer'[c] = answer[c],
         method' = method,
         recorded => recorded'
  PROVE  OneClaim'
<1>1. \A d \in Calls : Claims(d)' => Claims(d)
  BY DEF Claims
<1>2. \A d, e \in Calls : Claims(d)' /\ Claims(e)' => d = e
  BY <1>1 DEF OneClaim
<1>3. \A d \in Calls : Claims(d)' \/ outcome'[d] = "replayed" => recorded'
  BY <1>1 DEF OneClaim
<1>4. \A d \in Calls : /\ flight'[d] = "answer" /\ answer'[d].status \in {200, 201}
                       /\ Shape[method'[d]] = "event"
                       => recorded'
  BY DEF OneClaim
<1> QED
  BY <1>2, <1>3, <1>4 DEF OneClaim, Claims

\* The answer of the platform to call c.
LEMMA OneClaimReply ==
  ASSUME IInv, OneClaim, NEW c \in Calls, NEW n \in Statuses, NEW b, Reply(c, n, b),
         flight[c] = "request", UNCHANGED <<method, outcome>>,
         recorded => recorded',
         n \in {200, 201} /\ Shape[method[c]] = "event" => recorded',
         n = 201 => recorded' /\ ~recorded
  PROVE  OneClaim'
<1>1. \A d \in Calls : d # c => flight'[d] = flight[d] /\ answer'[d] = answer[d]
  BY DEF Reply, IInv, TypeOK
<1>2. \A d \in Calls : d # c /\ Claims(d)' => Claims(d)
  BY <1>1 DEF Claims
<1>3. Claims(c)' => n = 201
  BY DEF Claims, Reply, IInv, TypeOK, Exchange
<1>4. \A d, e \in Calls : Claims(d)' /\ Claims(e)' => d = e
  BY <1>2, <1>3 DEF OneClaim
<1>5. \A d \in Calls : Claims(d)' \/ outcome'[d] = "replayed" => recorded'
  BY <1>2, <1>3 DEF OneClaim
<1>6. \A d \in Calls : /\ flight'[d] = "answer" /\ answer'[d].status \in {200, 201}
                       /\ Shape[method'[d]] = "event"
                       => recorded'
  BY <1>1 DEF Reply, IInv, TypeOK, OneClaim
<1> QED
  BY <1>4, <1>5, <1>6 DEF OneClaim, Claims

LEMMA OneClaimStep == IInv /\ OneClaim /\ [Next]_vars => OneClaim'
<1> SUFFICES ASSUME IInv, OneClaim, [Next]_vars PROVE OneClaim'
  OBVIOUS
<1> USE DEF GoTo, End, platform
<1>1. ASSUME NEW c \in Calls, Call(c) \/ Reject(c) \/ CheckEnds(c) \/ Send(c) \/ GiveUp(c)
      PROVE  OneClaim'
  <2>1. /\ \A d \in Calls : d # c => /\ outcome'[d] = outcome[d]
                                      /\ flight'[d] = flight[d]
                                      /\ answer'[d] = answer[d]
        /\ outcome'[c] \in {outcome[c], "rejected", "unchecked", "unreachable"}
        /\ flight'[c] = "answer" => flight[c] = "answer" /\ answer'[c] = answer[c]
        /\ method' = method /\ recorded' = recorded
    BY <1>1 DEF Call, Reject, CheckEnds, Send, GiveUp, Taken, IInv, TypeOK
  <2>2. Claims(c)' => Claims(c)
    BY <2>1 DEF Claims
  <2>3. outcome'[c] = "replayed" => recorded
    BY <2>1 DEF OneClaim
  <2> QED
    BY <2>1, <2>2, <2>3, OneClaimKept
<1>2. ASSUME NEW c \in Calls, Receive(c) PROVE OneClaim'
  <2>1. /\ flight[c] = "answer"
        /\ outcome'[c] = IF answer[c].status >= 400 THEN ErrorClass(answer[c].status)
                         ELSE Decode(method[c], answer[c])
        /\ flight'[c] = "none"
    BY <1>2 DEF Receive, Taken, IInv, TypeOK
  <2>2. answer[c].status \in Statuses \cup {0}
    BY DEF IInv, TypeOK, NoAnswer
  <2>3. outcome'[c] = "created" => answer[c].status = 201
    BY <2>1, <2>2, ErrorClassOutcome, DecodeOutcome DEF Refusals
  <2>4. outcome'[c] = "replayed" => /\ Shape[method[c]] = "event"
                                    /\ answer[c].status \in {0, 200, 302}
                                    /\ ~(answer[c].status >= 400)
    BY <2>1, <2>2, ErrorClassOutcome, DecodeOutcome DEF Refusals, Statuses
  <2>5. outcome'[c] = "replayed" => answer[c].status = 200
    BY <2>1, <2>4, DecodeText DEF IInv, AnswerTellsEffect
  <2>6. outcome'[c] = "replayed" => recorded
    BY <2>1, <2>4, <2>5 DEF OneClaim
  <2>7. Claims(c)' => Claims(c)
    BY <2>1, <2>3 DEF Claims
  <2> QED
    BY <1>2, <2>1, <2>6, <2>7, OneClaimKept DEF Receive, Taken, IInv, TypeOK
<1>3. ASSUME NEW c \in Calls, Serve(c) PROVE OneClaim'
  <2>1. PICK b \in Bodies : Reply(c, IF Shape[method[c]] = "event" /\ ~recorded THEN 201 ELSE 200, b)
    BY <1>3 DEF Serve
  <2>2. recorded' = (recorded \/ (Shape[method[c]] = "event" /\ ~recorded))
    BY <1>3, Zenon DEF Serve
  <2>3. Shape[method[c]] = "event" => recorded'
    BY <2>2, Zenon
  <2>4. recorded => recorded'
    BY <2>2, Zenon
  <2>5. flight[c] = "request" /\ UNCHANGED <<method, outcome>>
    BY <1>3 DEF Serve
  <2>6. CASE Shape[method[c]] = "event" /\ ~recorded
    BY <2>1, <2>3, <2>4, <2>5, <2>6, OneClaimReply DEF Statuses
  <2>7. CASE ~(Shape[method[c]] = "event" /\ ~recorded)
    BY <2>1, <2>3, <2>4, <2>5, <2>7, OneClaimReply DEF Statuses
  <2> QED
    BY <2>6, <2>7
<1>4. ASSUME NEW c \in Calls, Refuse(c) PROVE OneClaim'
  BY <1>4, OneClaimReply DEF Refuse, Statuses
<1>5. ASSUME NEW c \in Calls, Break(c) PROVE OneClaim'
  <2>1. recorded => recorded'
    BY <1>5, Zenon DEF Break
  <2> QED
    BY <1>5, <2>1, OneClaimReply DEF Break, Statuses
<1>6. CASE UNCHANGED vars
  BY <1>6 DEF vars, OneClaim, Claims
<1> QED
  BY <1>1, <1>2, <1>3, <1>4, <1>5, <1>6 DEF Next

\* However often the event is emitted and whatever is lost, one call at most
\* reports was_created, and only once the event is recorded (client.py:777-778).
THEOREM EventCreatedOnce == Spec => []CreatedOnce
<1>1. Init => OneClaim
  BY DEF Init, OneClaim, Claims
<1>2. IInv /\ OneClaim /\ [Next]_vars => OneClaim'
  BY OneClaimStep
<1>3. OneClaim => CreatedOnce
  <2> SUFFICES ASSUME OneClaim PROVE CreatedOnce
    OBVIOUS
  <2> DEFINE S == {c \in Calls : outcome[c] = "created"}
  <2>1. S = {} \/ \E c \in Calls : S = {c}
    BY DEF OneClaim, Claims
  <2>2. Cardinality(S) <= 1
    <3>1. CASE S = {}
      BY <3>1, FS_EmptySet
    <3>2. ASSUME NEW c \in Calls, S = {c} PROVE Cardinality(S) <= 1
      <4>1. Cardinality({c}) = 1
        BY FS_Singleton
      <4> QED
        BY <3>2, <4>1
    <3> QED
      BY <2>1, <3>1, <3>2
  <2> QED
    BY <2>2 DEF CreatedOnce, OneClaim, Claims
<1> QED
  BY <1>1, <1>2, <1>3, Invariance, PTL DEF Spec

=============================================================================
