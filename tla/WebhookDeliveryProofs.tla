------------------------- MODULE WebhookDeliveryProofs -------------------------
(***************************************************************************)
(* Theorems about WebhookDelivery, for any organizations, producers,       *)
(* clocks and windows, and any number of events, retries and envelopes.    *)
(***************************************************************************)
EXTENDS WebhookDelivery, TLAPS

\* A signature is stamped while its event is still sent again.
SignedInSpan ==
  \A d \in signed :
    /\ d.event \in Sent
    /\ events[d.event].first <= d.sent_at
    /\ d.sent_at <= events[d.event].first + RetrySpan

\* No event is stamped in the platform's future.
EmittedByNow == \A e \in Sent : events[e].first <= Stamp

\* The host acts on what was sent, not before the window opened, and remembers.
ActedInWindow ==
  \A e \in Events :
    /\ acts[e] = 0 <=> acted[e] = Never
    /\ acted[e] # Never => e \in Sent /\ acted[e] >= events[e].first - Window

IInv == TypeOK /\ SignedInSpan /\ EmittedByNow /\ ActedInWindow /\ ActsOnce

\* An envelope of an event that the host acted on is remembered as long as it
\* is verified.
LEMMA VerifiedIsRemembered ==
  ASSUME IInv, NEW d \in signed, NEW e \in Sent, NEW sent_at \in Int,
         Verified(d, e, sent_at), acted[e] # Never
  PROVE  Remembers(e)
<1>1. d.event = e /\ d.sent_at = sent_at
  BY DEF Verified, Matches
<1>2. e \in Events /\ acted[e] \in Nat /\ now \in Nat
  BY DEF Sent, IInv, TypeOK, Never
<1>3. events[e].first \in Int
  BY DEF Sent, IInv, TypeOK, Event
<1>4. now <= sent_at + Window
  BY <1>2, WebhookAssumption DEF Verified, InWindow
<1>5. sent_at <= events[e].first + RetrySpan
  BY <1>1 DEF IInv, SignedInSpan
<1>6. acted[e] >= events[e].first - Window
  BY <1>2 DEF IInv, ActedInWindow
<1> QED
  BY <1>2, <1>3, <1>4, <1>5, <1>6, WebhookAssumption, RetentionAssumption DEF Remembers

\* Acting for the first time, the host does so after the window has opened.
LEMMA ActStep ==
  ASSUME IInv, NEW d \in signed, NEW e \in Sent, NEW sent_at \in Int,
         Receive(d, e, sent_at)
  PROVE  IInv'
<1> USE WebhookAssumption
<1>1. e \in Events /\ d \in [event : Events, sent_at : Int, secret : Nat]
  BY DEF Sent, IInv, TypeOK
<1>2. acted[e] = Never /\ acts[e] = 0
  BY <1>1, VerifiedIsRemembered DEF Receive, IInv, ActedInWindow
<1>3. now >= events[e].first - Window
  <2>1. d.event = e /\ d.sent_at = sent_at
    BY DEF Receive, Verified, Matches
  <2>2. now >= sent_at - Window
    BY DEF Receive, Verified, InWindow, IInv, TypeOK
  <2>3. sent_at >= events[e].first /\ events[e].first \in Int
    BY <2>1 DEF IInv, SignedInSpan, TypeOK, Sent, Event
  <2> QED
    BY <2>2, <2>3 DEF IInv, TypeOK
<1>4. /\ acted' = [acted EXCEPT ![e] = now]
      /\ acts' = [acts EXCEPT ![e] = @ + 1]
      /\ UNCHANGED <<now, events, signed, signing, held>>
  BY DEF Receive, Act
<1>5. TypeOK'
  BY <1>1, <1>4 DEF IInv, TypeOK, Sent
<1>6. SignedInSpan' /\ EmittedByNow'
  BY <1>4 DEF IInv, SignedInSpan, EmittedByNow, Sent, Stamp
<1>7. now # Never
  BY DEF IInv, TypeOK, Never
<1>8. ActedInWindow'
  BY <1>1, <1>2, <1>3, <1>4, <1>7 DEF IInv, TypeOK, ActedInWindow, Sent
<1>9. ActsOnce'
  BY <1>1, <1>2, <1>4 DEF IInv, TypeOK, ActsOnce
<1> QED
  BY <1>5, <1>6, <1>8, <1>9 DEF IInv

LEMMA EmitStep ==
  ASSUME IInv, NEW e \in Events, NEW o \in Organizations, NEW a \in Apps, Emit(e, o, a)
  PROVE  IInv'
<1> USE WebhookAssumption
<1> DEFINE new == [organization |-> o, producer |-> a, first |-> Stamp]
<1>1. Stamp \in Int /\ now \in Nat /\ signing[o] \in Nat
  BY DEF Stamp, IInv, TypeOK
<1>2. new \in Event /\ new # Unsent
  BY <1>1 DEF Event, Unsent
<1>3. /\ events' = [events EXCEPT ![e] = new]
      /\ signed' = signed \cup {Sign(e, o)}
      /\ e \notin Sent
      /\ UNCHANGED <<now, signing, held, acted, acts>>
  BY DEF Emit, Sent
<1> HIDE DEF new
<1>4. TypeOK'
  <2>1. events' \in [Events -> Event \cup {Unsent}]
    BY <1>2, <1>3 DEF IInv, TypeOK
  <2>2. Sign(e, o) \in [event : Events, sent_at : Int, secret : Nat]
    BY <1>1 DEF Sign
  <2>3. signed' \subseteq [event : Events, sent_at : Int, secret : Nat]
    BY <1>3, <2>2 DEF IInv, TypeOK
  <2> QED
    BY <1>3, <2>1, <2>3 DEF IInv, TypeOK
<1>5. /\ Sent' = Sent \cup {e}
      /\ events'[e] = new
      /\ \A n \in Sent : events'[n] = events[n]
  BY <1>2, <1>3 DEF IInv, TypeOK, Sent
<1>6. new.first = Stamp
  BY DEF new
<1>7. SignedInSpan'
  <2>1. Sign(e, o).event = e /\ Sign(e, o).sent_at = Stamp
    BY DEF Sign
  <2>2. Stamp <= Stamp + RetrySpan
    BY <1>1
  <2>3. ASSUME NEW d \in signed
        PROVE  /\ d.event \in Sent'
               /\ events'[d.event].first <= d.sent_at
               /\ d.sent_at <= events'[d.event].first + RetrySpan
    BY <1>5, <2>3 DEF IInv, SignedInSpan
  <2>4. /\ Sign(e, o).event \in Sent'
        /\ events'[Sign(e, o).event].first = Stamp
    BY <1>5, <1>6, <2>1
  <2> QED
    BY <1>1, <1>3, <2>1, <2>2, <2>3, <2>4 DEF SignedInSpan
<1>8. EmittedByNow'
  BY <1>1, <1>3, <1>5, <1>6 DEF IInv, EmittedByNow, Stamp
<1>9. ActedInWindow' /\ ActsOnce'
  BY <1>3, <1>5 DEF IInv, ActedInWindow, ActsOnce
<1> QED
  BY <1>4, <1>7, <1>8, <1>9 DEF IInv

LEMMA ResendStep ==
  ASSUME IInv, NEW e \in Events, Resend(e)
  PROVE  IInv'
<1> DEFINE d == Sign(e, events[e].organization)
<1>1. /\ e \in Sent /\ Stamp <= events[e].first + RetrySpan
      /\ signed' = signed \cup {d}
      /\ UNCHANGED <<now, events, signing, held, acted, acts>>
  BY DEF Resend
<1>2. d.event = e /\ d.sent_at = Stamp /\ d \in [event : Events, sent_at : Int, secret : Nat]
  <2>1. Stamp \in Int
    BY WebhookAssumption DEF Stamp, IInv, TypeOK
  <2>2. signing[events[e].organization] \in Nat
    BY <1>1 DEF IInv, TypeOK, Sent, Event
  <2> QED
    BY <2>1, <2>2 DEF Sign
<1>3. TypeOK'
  BY <1>1, <1>2 DEF IInv, TypeOK
<1>4. SignedInSpan'
  BY <1>1, <1>2 DEF IInv, SignedInSpan, EmittedByNow, Sent
<1> QED
  BY <1>1, <1>3, <1>4 DEF IInv, EmittedByNow, ActedInWindow, ActsOnce, Sent, Stamp

\* One step keeps the invariant.
LEMMA Step == IInv /\ [Next]_vars => IInv'
<1> SUFFICES ASSUME IInv, [Next]_vars PROVE IInv'
  OBVIOUS
<1>1. ASSUME NEW d \in signed, NEW e \in Sent, NEW sent_at \in Stamps, Receive(d, e, sent_at)
      PROVE  IInv'
  <2>1. sent_at \in Int
    BY DEF Stamps, IInv, TypeOK
  <2> QED
    BY <1>1, <2>1, ActStep
<1>2. ASSUME NEW o \in Organizations, NewSecret(o) PROVE IInv'
  BY <1>2 DEF NewSecret, IInv, TypeOK, SignedInSpan, EmittedByNow, ActedInWindow,
              ActsOnce, Sent, Stamp
<1>3. ASSUME NEW o \in Organizations, NEW n \in 0 .. signing[o], Configure(o, n) PROVE IInv'
  BY <1>3 DEF Configure, IInv, TypeOK, SignedInSpan, EmittedByNow, ActedInWindow,
              ActsOnce, Sent, Stamp
<1>4. ASSUME NEW e \in Events, NEW o \in Organizations, NEW a \in Apps, Emit(e, o, a)
      PROVE  IInv'
  BY <1>4, EmitStep
<1>5. ASSUME NEW e \in Events, Resend(e) PROVE IInv'
  BY <1>5, ResendStep
<1>6. CASE Tick
  <2>1. TypeOK'
    BY <1>6, WebhookAssumption DEF Tick, IInv, TypeOK
  <2>2. EmittedByNow'
    BY <1>6, WebhookAssumption DEF Tick, IInv, TypeOK, EmittedByNow, Sent, Stamp, Event
  <2> QED
    BY <1>6, <2>1, <2>2 DEF Tick, IInv, SignedInSpan, ActedInWindow, ActsOnce, Sent
<1>7. CASE UNCHANGED vars
  BY <1>7 DEF vars, IInv, TypeOK, SignedInSpan, EmittedByNow, ActedInWindow, ActsOnce,
              Sent, Stamp
<1> QED
  BY <1>1, <1>2, <1>3, <1>4, <1>5, <1>6, <1>7 DEF Next

LEMMA Start == Init => IInv
  BY WebhookAssumption
  DEF Init, IInv, TypeOK, SignedInSpan, EmittedByNow, ActedInWindow, ActsOnce,
      Sent, Stamp, Never

LEMMA Invariance == Spec => []IInv
<1>1. Init => IInv
  BY Start
<1>2. IInv /\ [Next]_vars => IInv'
  BY Step
<1> QED
  BY <1>1, <1>2, PTL DEF Spec

\* Every variable of WebhookDelivery always has its type (webhooks.py:28-64).
THEOREM TypeCorrect == Spec => []TypeOK
  BY Invariance, PTL DEF IInv

\* Whatever the clocks, a host that remembers an event for twice the window and
\* the span of its retries acts on it once (webhooks.py:40-41, 53).
THEOREM ActedOnce == Spec => []ActsOnce
  BY Invariance, PTL DEF IInv

\* The host acts on what the platform signed for the event's organization under
\* the secret the host holds, and on nothing else (webhooks.py:48-63).
THEOREM ActedOnSigned == Spec => ActsAreAuthentic
<1> DEFINE Authentic ==
      \A e \in Events : acts'[e] # acts[e] =>
        /\ events[e].producer = Expected
        /\ \E d \in signed :
             /\ d.event = e
             /\ d.secret = held[events[e].organization] /\ d.secret # 0
<1>1. IInv /\ [Next]_vars => Authentic
  <2> SUFFICES ASSUME IInv, [Next]_vars, NEW n \in Events, acts'[n] # acts[n]
      PROVE  /\ events[n].producer = Expected
             /\ \E d \in signed :
                  /\ d.event = n
                  /\ d.secret = held[events[n].organization] /\ d.secret # 0
    OBVIOUS
  <2>1. ASSUME NEW d \in signed, NEW e \in Sent, NEW sent_at \in Stamps, Receive(d, e, sent_at)
        PROVE  /\ events[n].producer = Expected
               /\ d.event = n
               /\ d.secret = held[events[n].organization] /\ d.secret # 0
    <3>1. n = e
      BY <2>1 DEF Receive, Act, IInv, TypeOK
    <3> QED
      BY <2>1, <3>1 DEF Receive, Verified, Matches
  <2>2. \E d \in signed, e \in Sent, sent_at \in Stamps : Receive(d, e, sent_at)
    BY DEF Next, NewSecret, Configure, Emit, Resend, Tick, vars
  <2> QED
    BY <2>1, <2>2
<1>2. IInv /\ [Next]_vars => [Authentic]_vars
  BY <1>1
<1> QED
  BY <1>2, Invariance, PTL DEF Spec, ActsAreAuthentic

=============================================================================
