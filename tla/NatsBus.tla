------------------------------ MODULE NatsBus -------------------------------
(***************************************************************************)
(* The NATS JetStream bus: Publish waits for the server's ack; Subscribe   *)
(* creates a durable consumer and its delivery loop; a message is acked    *)
(* after its handler succeeded, sent again later after it failed, and      *)
(* terminated if it cannot be decoded; Close drains the subscriptions.     *)
(* The stream keeps a message for MaxAge and no longer.                    *)
(*                                                                         *)
(* The server and the handlers are external: an ack may be lost, or come   *)
(* after AckWait, which is the same to the server: it delivers the message *)
(* again.  What Publish answers its caller is the dispatcher's affair, in  *)
(* Outbox; here a message lands in the stream or does not, and one whose   *)
(* Publish returned an error may have landed.                              *)
(***************************************************************************)
EXTENDS Integers, FiniteSets

CONSTANTS
    NatMessages,  \* envelopes published
    NatPoison,    \* those of them that cannot be decoded
    NatSubs,      \* calls of Subscribe, all for topics of the messages
    NatMaxDeliver \* bound: deliveries of a message to a subscription

ASSUME NatsBusAssumption == NatPoison \subseteq NatMessages /\ NatMaxDeliver \in Nat \ {0}

VARIABLES
    natPublished, \* messages whose Publish was called
    natSub,       \* per subscription: position of Subscribe, of its delivery
                  \* loop, and what unsubscribe has done
    natDurable,   \* external: per subscription, the messages that reached it,
                  \* those of them still due, and the deliveries of each
    natHand,      \* per subscription, the message in its callback and the
                  \* answer the callback has come to
    natHandled,   \* history: per subscription, messages handled successfully
    natExpired,   \* external: messages that grew older than MaxAge
    natClosed     \* closed

natVars == <<natPublished, natSub, natDurable, natHand, natHandled, natExpired, natClosed>>

NatInit ==
    /\ natPublished = {}
    /\ natSub = [s \in NatSubs |-> [at |-> "idle", loop |-> "none"]]
    /\ natDurable = [s \in NatSubs |-> [exists |-> FALSE, landed |-> {}, due |-> {},
                                        tries |-> [m \in NatMessages |-> 0]]]
    /\ natHand = [s \in NatSubs |-> {}]
    /\ natHandled = [s \in NatSubs |-> {}]
    /\ natExpired = {}
    /\ natClosed = FALSE

(***************************************************************************)
(* Publish.                                                                *)
(***************************************************************************)
\* The message reaches every durable that exists (DeliverNewPolicy).
NatPublish(m, lands) ==
    /\ m \notin natPublished
    /\ natPublished' = natPublished \cup {m}
    /\ natDurable' = [s \in NatSubs |-> IF lands /\ natDurable[s].exists
                                        THEN [natDurable[s] EXCEPT !.landed = @ \cup {m}, !.due = @ \cup {m}]
                                        ELSE natDurable[s]]
    /\ UNCHANGED <<natSub, natHand, natHandled, natExpired, natClosed>>

\* The stream's limit: a message older than MaxAge goes, from every durable it
\* is still due to.
NatExpire(m) ==
    /\ \E s \in NatSubs : m \in natDurable[s].due
    /\ natExpired' = natExpired \cup {m}
    /\ natDurable' = [s \in NatSubs |-> [natDurable[s] EXCEPT !.due = @ \ {m}]]
    /\ UNCHANGED <<natPublished, natSub, natHand, natHandled, natClosed>>

(***************************************************************************)
(* Subscribe and unsubscribe.                                              *)
(***************************************************************************)
NatSubscribe(s) ==
    /\ natSub[s].at = "idle"
    /\ natSub' = [natSub EXCEPT ![s].at = IF natClosed THEN "error" ELSE "create"]
    /\ UNCHANGED <<natPublished, natDurable, natHand, natHandled, natExpired, natClosed>>

\* The durable is created and its delivery loop started; either may fail.
NatCreate(s, creates, consumes) ==
    /\ natSub[s].at = "create" /\ (consumes => creates)
    /\ natDurable' = [natDurable EXCEPT ![s].exists = creates]
    /\ natSub' = [natSub EXCEPT ![s] = IF consumes THEN [at |-> "register", loop |-> "runs"]
                                                   ELSE [at |-> "error", loop |-> "none"]]
    /\ UNCHANGED <<natPublished, natHand, natHandled, natExpired, natClosed>>

\* A bug: Subscribe does not look at closed again before it registers.
NatRegisterUnchecked(s) ==
    /\ natSub[s].at = "register"
    /\ natSub' = [natSub EXCEPT ![s] = [at |-> "subscribed", loop |-> "runs"]]
    /\ UNCHANGED <<natPublished, natDurable, natHand, natHandled, natExpired, natClosed>>

\* Under the lock again: a driver closed in the meantime stops the loop.
NatRegister(s) ==
    /\ natSub[s].at = "register"
    /\ natSub' = [natSub EXCEPT ![s] = IF natClosed THEN [at |-> "returned", loop |-> "stopped"]
                                                    ELSE [at |-> "subscribed", loop |-> "runs"]]
    /\ UNCHANGED <<natPublished, natDurable, natHand, natHandled, natExpired, natClosed>>

\* The function Subscribe returned: it stops a loop that is still in subs.
NatUnsubscribe(s) ==
    /\ natSub[s].at = "subscribed"
    /\ natSub' = [natSub EXCEPT ![s] = [at |-> "returned", loop |-> "stopped"]]
    /\ UNCHANGED <<natPublished, natDurable, natHand, natHandled, natExpired, natClosed>>

(***************************************************************************)
(* deliver.                                                                *)
(***************************************************************************)
\* The loop hands the next message to the callback; a draining loop handles
\* what it has received.
NatDeliver(s, m) ==
    /\ natSub[s].loop \in {"runs", "drains"} /\ natHand[s] = {}
    /\ m \in natDurable[s].due /\ natDurable[s].tries[m] < NatMaxDeliver
    /\ natHand' = [natHand EXCEPT ![s] = {[msg |-> m, answer |-> "none"]}]
    /\ natDurable' = [natDurable EXCEPT ![s].tries[m] = @ + 1]
    /\ UNCHANGED <<natPublished, natSub, natHandled, natExpired, natClosed>>

\* What the callback answers: term for a poison message, which no handler
\* sees, ack for a success, nak for a failure.
NatAnswerOf(m, ok) == IF m \in NatPoison THEN "term" ELSE IF ok THEN "ack" ELSE "nak"

\* The handler returns.
NatHandle(s, ok) ==
    \E h \in natHand[s] :
        /\ h.answer = "none" /\ (ok => h.msg \notin NatPoison)
        /\ natHand' = [natHand EXCEPT ![s] = {[msg |-> h.msg, answer |-> NatAnswerOf(h.msg, ok)]}]
        /\ natHandled' = [natHandled EXCEPT ![s] = IF ok THEN @ \cup {h.msg} ELSE @]
        /\ UNCHANGED <<natPublished, natSub, natDurable, natExpired, natClosed>>

\* The answer is sent; it may be lost, and its error is ignored.  An ack or a
\* term takes the message from the durable, a nak leaves it due.
NatAnswer(s, heard) ==
    \E h \in natHand[s] :
        /\ h.answer # "none"
        /\ natHand' = [natHand EXCEPT ![s] = {}]
        /\ natDurable' = IF heard /\ h.answer # "nak" THEN [natDurable EXCEPT ![s].due = @ \ {h.msg}] ELSE natDurable
        /\ UNCHANGED <<natPublished, natSub, natHandled, natExpired, natClosed>>

\* Close: every subscription drains, then the connection.
NatClose ==
    /\ ~natClosed
    /\ natClosed' = TRUE
    /\ natSub' = [s \in NatSubs |-> IF natSub[s].at = "subscribed"
                                    THEN [at |-> "returned", loop |-> "drains"] ELSE natSub[s]]
    /\ UNCHANGED <<natPublished, natDurable, natHand, natHandled, natExpired>>

\* A draining loop has handled what it had received.
NatDrained(s) ==
    /\ natSub[s].loop = "drains" /\ natHand[s] = {}
    /\ natSub' = [natSub EXCEPT ![s].loop = "stopped"]
    /\ UNCHANGED <<natPublished, natDurable, natHand, natHandled, natExpired, natClosed>>

NatNext ==
    \/ \E m \in NatMessages : NatExpire(m) \/ \E lands \in BOOLEAN : NatPublish(m, lands)
    \/ \E s \in NatSubs :
        \/ NatSubscribe(s) \/ NatRegister(s) \/ NatUnsubscribe(s) \/ NatDrained(s)
        \/ \E creates, consumes \in BOOLEAN : NatCreate(s, creates, consumes)
        \/ \E m \in NatMessages : NatDeliver(s, m)
        \/ (\E ok \in BOOLEAN : NatHandle(s, ok)) \/ (\E heard \in BOOLEAN : NatAnswer(s, heard))
    \/ NatClose

NatSpec == NatInit /\ [][NatNext]_natVars

(***************************************************************************)
(* Properties.                                                             *)
(***************************************************************************)
\* A driver that is closed leaves no loop running behind it, also when Close
\* fell into the middle of a Subscribe.
NatClosedMeansStopped ==
    natClosed => \A s \in NatSubs : natSub[s].loop = "runs" => natSub[s].at = "register"

\* A message that reached a durable is still due there, or a handler of this
\* subscription succeeded on it, or it can never be decoded, or it grew older
\* than MaxAge: a failed or repeated delivery, a lost answer, an unsubscribe or
\* a Close while the handler runs loses none.
NatLeavesHandled ==
    \A s \in NatSubs :
        natDurable[s].landed \subseteq natDurable[s].due \cup natHandled[s] \cup NatPoison \cup natExpired

\* What a subscription promises: no message is lost within MaxAge, and none is
\* pulled for a driver that is gone.
NatSubscriptionKept == NatLeavesHandled /\ NatClosedMeansStopped
=============================================================================
