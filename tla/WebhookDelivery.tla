---------------------------- MODULE WebhookDelivery ----------------------------
(***************************************************************************)
(* verify_webhook (webhooks.py) between the platform, which signs events   *)
(* and sends them again, and a host that acts on what is verified.         *)
(*                                                                         *)
(* verify_webhook keeps nothing: "Consumers must also make their business  *)
(* operations idempotent" (webhooks.py:40-41).  The host here does that    *)
(* the plain way: it remembers the events it acted on for some time.  The  *)
(* module answers how long that has to be.                                 *)
(***************************************************************************)
EXTENDS Integers

CONSTANTS Organizations,  \* keys of the mapping "secrets"
          Apps,           \* producers of events
          Expected,       \* expected_app_id
          Window,         \* 300, in seconds
          Skew,           \* the platform's clock less the host's
          RetrySpan,      \* how long after its first sending an event is sent again
          Retention,      \* how long the host remembers an event
          MaxEvents,      \* bound: events
          MaxSecrets,     \* bound: secrets of an organization
          MaxTime         \* bound: the host's clock

ASSUME WebhookAssumption ==
  /\ Expected \in Apps
  /\ "none" \notin Organizations
  /\ {Window, RetrySpan, Retention, MaxEvents, MaxSecrets, MaxTime} \subseteq Nat
  /\ Skew \in Int

\* A host remembers long enough if it does so for both halves of the window and
\* for as long as an event is sent again.
ASSUME RetentionAssumption == Retention >= 2 * Window + RetrySpan

VARIABLES
  now,       \* time.time() at the host
  events,    \* the events so far: organization, producer, first sending
  signed,    \* signatures the platform has made; each may arrive at any time,
             \* never, or again and again
  signing,   \* the platform's secret of each subscription; 0 is none
  held,      \* the host's secret of each organization; 0 is none or empty
  acted,     \* when the host acted on each event last; Never
  acts       \* how often it did

vars == <<now, events, signed, signing, held, acted, acts>>

Events   == 1 .. MaxEvents
Never    == -1
Unsent   == [organization |-> "none", producer |-> "none", first |-> 0]
Event    == [organization : Organizations, producer : Apps, first : Int]
Sent     == {e \in Events : events[e] # Unsent}

TypeOK ==
  /\ now \in Nat
  /\ events \in [Events -> Event \cup {Unsent}]
  /\ signed \subseteq [event : Events, sent_at : Int, secret : Nat]
  /\ signing \in [Organizations -> Nat]
  /\ held \in [Organizations -> Nat]
  /\ acted \in [Events -> {Never} \cup (0 .. now)]
  /\ acts \in [Events -> Nat]

Init ==
  /\ now = 0
  /\ events = [e \in Events |-> Unsent]
  /\ signed = {}
  /\ signing = [o \in Organizations |-> 0]
  /\ held = [o \in Organizations |-> 0]
  /\ acted = [e \in Events |-> Never]
  /\ acts = [e \in Events |-> 0]

-----------------------------------------------------------------------------
(* verify_webhook                                                          *)

\* Mutant: only what is too old is refused.
NotTooOld(sent_at) == now - sent_at <= Window

InWindow(sent_at) == now - sent_at <= Window /\ sent_at - now <= Window

\* Mutant: a secret once held still verifies after it was replaced.
MatchesAnOldOne(d, e, sent_at) ==
  \E secret \in 1 .. held[events[e].organization] :
    d = [event |-> e, sent_at |-> sent_at, secret |-> secret]

\* hmac.compare_digest: the digest of timestamp and body under the secret of
\* the organization the body names.
Matches(d, e, sent_at) ==
  LET secret == held[events[e].organization] IN
  secret # 0 /\ d = [event |-> e, sent_at |-> sent_at, secret |-> secret]

\* The envelope of event e, stamped sent_at and signed by d, is verified.
Verified(d, e, sent_at) ==
  /\ events[e].producer = Expected
  /\ InWindow(sent_at)
  /\ Matches(d, e, sent_at)

-----------------------------------------------------------------------------
(* The host                                                                *)

Remembers(e) == acted[e] # Never /\ now - acted[e] <= Retention

\* Mutant: the host remembers the stamp of the event, not its own time.
ActStamped(e, sent_at) ==
  /\ acted' = [acted EXCEPT ![e] = sent_at]
  /\ acts' = [acts EXCEPT ![e] = @ + 1]

Act(e, sent_at) ==
  /\ acted' = [acted EXCEPT ![e] = now]
  /\ acts' = [acts EXCEPT ![e] = @ + 1]

\* An envelope arrives, whole or with its event or stamp exchanged on the way.
\* What is not verified, or is remembered, changes nothing.
Receive(d, e, sent_at) ==
  /\ Verified(d, e, sent_at)
  /\ ~Remembers(e)
  /\ Act(e, sent_at)
  /\ UNCHANGED <<now, events, signed, signing, held>>

\* The host is given one of the secrets the subscription has had, or none.
Configure(o, n) ==
  /\ n \in 0 .. signing[o] /\ n # held[o]
  /\ held' = [held EXCEPT ![o] = n]
  /\ UNCHANGED <<now, events, signed, signing, acted, acts>>

-----------------------------------------------------------------------------
(* The platform                                                            *)

Stamp == now + Skew

Sign(e, o) == [event |-> e, sent_at |-> Stamp, secret |-> signing[o]]

Emit(e, o, a) ==
  /\ events[e] = Unsent /\ e - 1 \in Sent \cup {0} /\ signing[o] # 0
  /\ events' = [events EXCEPT ![e] =
                  [organization |-> o, producer |-> a, first |-> Stamp]]
  /\ signed' = signed \cup {Sign(e, o)}
  /\ UNCHANGED <<now, signing, held, acted, acts>>

\* A retry is signed anew, with the secret and the time of now.
Resend(e) ==
  /\ e \in Sent /\ Stamp <= events[e].first + RetrySpan
  /\ signed' = signed \cup {Sign(e, events[e].organization)}
  /\ UNCHANGED <<now, events, signing, held, acted, acts>>

\* A subscription is made, or gets a new secret.
NewSecret(o) ==
  /\ signing[o] < MaxSecrets
  /\ signing' = [signing EXCEPT ![o] = @ + 1]
  /\ UNCHANGED <<now, events, signed, held, acted, acts>>

Tick ==
  /\ now < MaxTime
  /\ now' = now + 1
  /\ UNCHANGED <<events, signed, signing, held, acted, acts>>

-----------------------------------------------------------------------------
(* The specification                                                       *)

Stamps == {d.sent_at : d \in signed}

Next ==
  \/ \E d \in signed, e \in Sent, sent_at \in Stamps : Receive(d, e, sent_at)
  \/ \E o \in Organizations : NewSecret(o) \/ \E n \in 0 .. signing[o] : Configure(o, n)
  \/ \E e \in Events, o \in Organizations, a \in Apps : Emit(e, o, a)
  \/ \E e \in Events : Resend(e)
  \/ Tick

Spec == Init /\ [][Next]_vars

-----------------------------------------------------------------------------
(* Properties                                                              *)

\* However often an event is sent again, and however late or often an envelope
\* arrives, the host acts on the event once: remembering for twice the window
\* and the span of retries is enough, though a stamp from the host's future is
\* accepted first and one from its past last (webhooks.py:53).
ActsOnce == \A e \in Events : acts[e] <= 1

\* The host acts on an event of the expected producer only, on the strength of
\* an envelope signed for that event under the secret which the host holds at
\* that time for the event's own organization: one that was signed before the
\* host changed the secret is dead from then on (webhooks.py:48-63).
ActsAreAuthentic ==
  [][\A e \in Events : acts'[e] # acts[e] =>
       /\ events[e].producer = Expected
       /\ \E d \in signed :
            /\ d.event = e
            /\ d.secret = held[events[e].organization] /\ d.secret # 0]_vars

=============================================================================
