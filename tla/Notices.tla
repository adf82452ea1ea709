-------------------------------- MODULE Notices --------------------------------
(***************************************************************************)
(* How a provider hears of a payment (webhooks.service.ts, notify, and the *)
(* handlers of packages/notifications): a row for its feed, a message in   *)
(* memory, and a signed webhook with up to three attempts that carry one   *)
(* body and one event id.  Nobody waits for it.  The receiver is           *)
(* external: it handles an event whose id it has not seen.                 *)
(***************************************************************************)
EXTENDS Naturals

CONSTANT Retries    \* retryCount: 3

VARIABLES
    notice,     \* [pc, attempt, channels]
    seen,       \* the event ids the receiver has kept
    handled     \* how often the receiver has acted on this event

notices == <<notice, seen, handled>>

NoticesInit ==
    /\ notice = [pc |-> "none", attempt |-> 0, channels |-> {}]
    /\ seen = {} /\ handled = 0

(* The id of an attempt that stamps its body with its own time.            *)
deriveEventId_PerAttempt(n) == n.attempt

(* A hash over event, provider and data, the same for every attempt.       *)
deriveEventId(n) == 1

(* notify: the row may be lost, the message in memory is not.              *)
notify ==
    /\ notice.pc = "none"
    /\ notice' = [notice EXCEPT !.pc = "look up", !.channels = {"in_app"}]
    /\ UNCHANGED <<seen, handled>>

(* The provider's URL is read and its host resolved again; without one, or *)
(* with one that is refused, no webhook is sent.                           *)
findWebhook ==
    /\ notice.pc = "look up"
    /\ notice' \in {[notice EXCEPT !.pc = "done"],
                    [notice EXCEPT !.pc = "send", !.attempt = 1]}
    /\ UNCHANGED <<seen, handled>>

(* A request of sendWithSignature arrives or does not.                     *)
Arrives ==
    /\ seen' = seen \union {deriveEventId(notice)}
    /\ handled' = IF deriveEventId(notice) \in seen THEN handled ELSE handled + 1

(* What was not answered with a 2xx in ten seconds is tried again.         *)
Again == IF notice.attempt < Retries
         THEN [notice EXCEPT !.attempt = @ + 1] ELSE [notice EXCEPT !.pc = "done"]

sendWithSignature ==
    /\ notice.pc = "send"
    /\ \/ Arrives /\ notice' = [notice EXCEPT !.pc = "done", !.channels = @ \union {"webhook"}]
       \/ Arrives /\ notice' = Again
       \/ UNCHANGED <<seen, handled>> /\ notice' = Again

SendNotice == findWebhook \/ sendWithSignature

-------------------------------------------------------------------------------
(* packages/notifications, sendWithSignature: attempts whose answers are   *)
(* lost repeat the event, and a receiver that drops ids it has seen acts   *)
(* on it once; a webhook that is reported sent was received.               *)
HandledOnce == handled <= 1 /\ ("webhook" \in notice.channels => handled = 1)

===============================================================================
