---------------------------- MODULE PlatformCalls ----------------------------
(***************************************************************************)
(* The API methods of one client (client.py, mail.py, purchases.py): the   *)
(* check before the request, one exchange, and what becomes of the answer. *)
(* Calls run concurrently with each other.  What the check does, and the   *)
(* credential that the request then carries, are in CredentialRotation.    *)
(*                                                                         *)
(* Of a method only its way to the platform and the shape it decodes       *)
(* matter; arguments, paths and schemas are left out.  All events of the   *)
(* model have one idempotency key.                                         *)
(***************************************************************************)
EXTENDS Naturals, FiniteSets, TLC

CONSTANTS Calls,        \* calls the host makes, each of one method
          Methods,      \* the methods it calls
          HasStore      \* whether the client has a token file

-----------------------------------------------------------------------------
(* The methods and the shape of answer each decodes                        *)

Session == [mint_delegation_token |-> "object", service_token_status |-> "object"]

Identity == [resolve_identity |-> "object", get_user_profile |-> "object",
             list_organization_members |-> "list", check_permission |-> "object",
             list_accessible_jars |-> "list", search_jars |-> "list"]

EntityRecords == [create_entity |-> "object", get_entity_record |-> "entity",
                  put_entity_record |-> "entity", get_entity |-> "object",
                  search_entities |-> "list"]

Entities == [get_entity_type |-> "object", suggest_entities |-> "list",
             patch_entity_fields |-> "object", get_entity_fields |-> "fields",
             create_relationship |-> "object"]

Events == [emit_event |-> "event"]

Packs == [list_packs |-> "list", get_pack |-> "object", list_pack_items |-> "items",
          list_pack_installations |-> "list", install_pack |-> "object",
          upgrade_pack |-> "object", uninstall_pack |-> "nothing"]

Subscriptions == [create_subscription |-> "object", list_subscriptions |-> "list",
                  delete_subscription |-> "nothing"]

Documents == [list_documents |-> "page", get_document |-> "object",
              get_document_requirements |-> "object", list_document_kinds |-> "list",
              discover_documents |-> "page", update_document_classification |-> "object"]

Mail == [get_mail_settings |-> "object", list_mail_jars |-> "list",
         get_mail_account |-> "object", save_mail_account |-> "object",
         delete_mail_account |-> "nothing", test_mail_account |-> "connected",
         fetch_mail_account |-> "nothing", get_mail_rule |-> "object",
         save_mail_rule |-> "object", delete_mail_rule |-> "nothing",
         import_mail_account |-> "object", import_mail_sender |-> "object"]

Purchases == [get_purchase_extraction_options |-> "object",
              latest_purchase_extraction |-> "optional",
              start_purchase_extraction |-> "object", get_purchase_extraction |-> "object"]

Shape == Session @@ Identity @@ EntityRecords @@ Entities @@ Events @@ Packs
         @@ Subscriptions @@ Documents @@ Mail @@ Purchases

ASSUME CallsAssumption ==
  Methods \subseteq DOMAIN Shape /\ HasStore \in BOOLEAN

\* _request of a client with a token file checks the credential first, except
\* for service_token_status, on the way to the token itself, and for
\* mint_delegation_token, which carries no service token.
Checked(m) == HasStore /\ m \notin DOMAIN Session

-----------------------------------------------------------------------------
(* Answers                                                                 *)

\* What may be in an answer's body under "data": the other ones have none, or
\* are no JSON at all.
Bodies == {"object", "wrong", "list", "null", "bare", "text"}

\* The bodies that a method of shape s accepts; "items" and "fields" do not
\* look into them, "nothing" does not look at them.
Accepted(s) ==
  {b \in Bodies :
     \/ s = "nothing"
     \/ b = "object" /\ s \notin {"list", "page"}
     \/ b = "list" /\ s \in {"list", "page", "items"}
     \/ b = "null" /\ s = "optional"
     \/ b = "wrong" /\ s \in {"fields", "items"}}

\* The bodies it refuses with a TapestryClientError; any other exception is
\* the JSON decoder's, the validator's or the interpreter's.
Misread(s) == {"bare"} \cup (IF s = "fields" THEN {"list", "null"} ELSE {})

Statuses == {200, 201, 302, 400, 401, 403, 404, 409, 422, 429, 503}

\* Mutant: no class of its own for the errors of the server.
ErrorClassFlat(status) == IF status \in {401, 403} THEN "auth" ELSE "client"

\* _raise_for_response
ErrorClass(status) ==
  CASE status \in {401, 403} -> "auth"
    [] status = 404 -> "not_found"
    [] status = 409 -> "conflict"
    [] status = 422 -> "validation"
    [] status = 429 -> "rate_limit"
    [] status >= 500 -> "server"
    [] OTHER -> "client"

Refusals == {"auth", "not_found", "conflict", "validation", "rate_limit", "client"}
Results  == {"value", "created", "replayed"}

\* Mutant: was_created keeps the default of its schema.
EventResultDefault(status) == "created"

EventResult(status) == IF status = 201 THEN "created" ELSE "replayed"

\* Mutant: an answer that reads is handed over as it came.
DecodeNothing(m, answer) ==
  IF answer.body \in Accepted(Shape[m]) THEN answer.body ELSE "foreign"

\* _unwrap and the decoding of each method.
Decode(m, answer) ==
  LET s == Shape[m] IN
  IF answer.body \in Accepted(s)
  THEN IF s = "event" THEN EventResult(answer.status) ELSE "value"
  ELSE IF answer.body \in Misread(s) THEN "misread" ELSE "foreign"

Outcomes == Results \cup Refusals
            \cup {"none", "server", "misread", "foreign", "unreachable",
                "unchecked", "rejected"}

-----------------------------------------------------------------------------
VARIABLES
  stage,     \* where each call is
  method,    \* what it calls
  flight,    \* what of its exchange is travelling
  answer,    \* the platform's answer
  arrivals,  \* requests the platform received for it
  served,    \* requests the platform carried out for it
  recorded,  \* whether the platform has recorded the event
  outcome    \* what the host got from the call

vars == <<stage, method, flight, answer, arrivals, served, recorded, outcome>>
platform == <<flight, answer, arrivals, served, recorded>>

NoAnswer == [status |-> 0, body |-> "text"]

TypeOK ==
  /\ stage \in [Calls -> {"idle", "checking", "ready", "sent", "done"}]
  /\ method \in [Calls -> Methods]
  /\ flight \in [Calls -> {"none", "request", "answer"}]
  /\ answer \in [Calls -> [status : Statuses, body : Bodies] \cup {NoAnswer}]
  /\ arrivals \in [Calls -> Nat]
  /\ served \in [Calls -> Nat]
  /\ recorded \in BOOLEAN
  /\ outcome \in [Calls -> Outcomes]

Init ==
  /\ stage = [c \in Calls |-> "idle"]
  /\ method \in [Calls -> Methods]
  /\ flight = [c \in Calls |-> "none"]
  /\ answer = [c \in Calls |-> NoAnswer]
  /\ arrivals = [c \in Calls |-> 0]
  /\ served = [c \in Calls |-> 0]
  /\ recorded = FALSE
  /\ outcome = [c \in Calls |-> "none"]

-----------------------------------------------------------------------------
(* The client                                                              *)

GoTo(c, s) == stage' = [stage EXCEPT ![c] = s]

End(c, o) ==
  /\ GoTo(c, "done")
  /\ outcome' = [outcome EXCEPT ![c] = o]

\* The answer to c has been read.
Taken(c) ==
  /\ answer' = [answer EXCEPT ![c] = NoAnswer]
  /\ flight' = [flight EXCEPT ![c] = "none"]
  /\ UNCHANGED <<method, arrivals, served, recorded>>

\* The method builds its headers and enters _request.
Call(c) ==
  /\ stage[c] = "idle"
  /\ GoTo(c, IF Checked(method[c]) THEN "checking" ELSE "ready")
  /\ UNCHANGED <<method, platform, outcome>>

\* A page limit outside 1 .. 100 is an error at once, in list_documents
\* (client.py:988-989) and in discover_documents alike.
Reject(c) ==
  /\ stage[c] = "idle" /\ Shape[method[c]] = "page"
  /\ End(c, "rejected")
  /\ UNCHANGED <<method, platform>>

\* maybe_refresh_service_token returns or raises.
CheckEnds(c) ==
  /\ stage[c] = "checking"
  /\ \/ GoTo(c, "ready") /\ UNCHANGED outcome
     \/ End(c, "unchecked")
  /\ UNCHANGED <<method, platform>>

\* The request goes out, with the credential of this moment in its headers.
Send(c) ==
  /\ stage[c] = "ready"
  /\ flight' = [flight EXCEPT ![c] = "request"]
  /\ GoTo(c, "sent")
  /\ UNCHANGED <<method, answer, arrivals, served, recorded, outcome>>

\* Mutant: a call that was refused for its credential is sent again.
ReceiveAgain(c) ==
  /\ stage[c] = "sent" /\ flight[c] = "answer"
  /\ IF answer[c].status = 401
     THEN GoTo(c, "ready") /\ UNCHANGED outcome
     ELSE End(c, IF answer[c].status >= 400 THEN ErrorClass(answer[c].status)
                 ELSE Decode(method[c], answer[c]))
  /\ Taken(c)

Receive(c) ==
  /\ stage[c] = "sent" /\ flight[c] = "answer"
  /\ End(c, IF answer[c].status >= 400 THEN ErrorClass(answer[c].status)
            ELSE Decode(method[c], answer[c]))
  /\ Taken(c)

\* httpx gives up: an answer is lost, a request may still be travelling.
GiveUp(c) ==
  /\ stage[c] = "sent"
  /\ End(c, "unreachable")
  /\ IF flight[c] = "answer" THEN Taken(c)
     ELSE UNCHANGED <<method, platform>>

-----------------------------------------------------------------------------
(* The platform                                                            *)

\* A request arrives and is answered, if there is still somebody to answer.
Reply(c, status, body) ==
  /\ arrivals' = [arrivals EXCEPT ![c] = @ + 1]
  /\ IF stage[c] = "sent"
     THEN /\ answer' = [answer EXCEPT ![c] = [status |-> status, body |-> body]]
          /\ flight' = [flight EXCEPT ![c] = "answer"]
     ELSE flight' = [flight EXCEPT ![c] = "none"] /\ UNCHANGED answer

\* It carries the request out, and records an event once per idempotency key.
Serve(c) ==
  /\ flight[c] = "request"
  /\ served' = [served EXCEPT ![c] = @ + 1]
  /\ LET new == Shape[method[c]] = "event" /\ ~recorded IN
       /\ recorded' = (recorded \/ new)
       /\ \E b \in Bodies : Reply(c, IF new THEN 201 ELSE 200, b)
  /\ UNCHANGED <<stage, method, outcome>>

\* It, or a proxy before it, does not: an error, or a redirection.
Refuse(c) ==
  /\ flight[c] = "request"
  /\ \E s \in {302, 400, 401, 403, 404, 409, 422, 429, 503} : Reply(c, s, "text")
  /\ UNCHANGED <<stage, method, served, recorded, outcome>>

\* It fails after the request has had its effect.
Break(c) ==
  /\ flight[c] = "request"
  /\ served' = [served EXCEPT ![c] = @ + 1]
  /\ recorded' = (recorded \/ Shape[method[c]] = "event")
  /\ Reply(c, 503, "text")
  /\ UNCHANGED <<stage, method, outcome>>

-----------------------------------------------------------------------------
(* The specification                                                       *)

Next == \E c \in Calls :
  \/ Call(c) \/ Reject(c) \/ CheckEnds(c) \/ Send(c) \/ Receive(c) \/ GiveUp(c)
  \/ Serve(c) \/ Refuse(c) \/ Break(c)

Spec == Init /\ [][Next]_vars

-----------------------------------------------------------------------------
(* Properties                                                              *)

\* However a call ends, the platform got its request once at most: the library
\* never "replays a write after auth failure" (src/README.md:26; client.py:224-236).
NeverReplayed == \A c \in Calls : arrivals[c] <= 1

\* What a call of a method that reads its answer ends with is true: a result
\* means that the platform carried the request out, a refusal that it did not
\* (client.py:234-287 and the decoding of each method).
OutcomeTellsEffect ==
  \A c \in Calls :
    /\ outcome[c] \in Results /\ Shape[method[c]] # "nothing" => served[c] = 1
    /\ outcome[c] \in Refusals \cup {"unchecked", "rejected"} => served[c] = 0

\* However often an event is emitted, and whatever is lost on the way, one call
\* at most says that it created it, and no call says so or the contrary before
\* the event is recorded (client.py:752-754, 777-778).
CreatedOnce ==
  /\ Cardinality({c \in Calls : outcome[c] = "created"}) <= 1
  /\ \A c \in Calls : outcome[c] \in {"created", "replayed"} => recorded

=============================================================================
