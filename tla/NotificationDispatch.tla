------------------------ MODULE NotificationDispatch ------------------------
(***************************************************************************)
(* What becomes of the notices an alert engine hands to one channel        *)
(* (internal/notifications/alert_engine.go from dispatchToChannel on,      *)
(* retry.go, ratelimit.go; internal/api/handlers/notification_dlq.go): the *)
(* token bucket, the goroutine with its three attempts under a context of  *)
(* 60 seconds that a shutdown cancels, and the dead-letter queue with its  *)
(* replays.                                                                *)
(***************************************************************************)
EXTENDS Integers, FiniteSets

CONSTANTS
    Notice,      \* what is dispatched
    Burst,       \* ChannelRateLimitBurst
    Attempts,    \* 1 + Len(RetrySchedule)
    Operator,    \* requests on the dead-letter queue at a time
    MaxTroubles  \* bound: database statements that fail

VARIABLES
    channel,  \* the channel's row is enabled
    tokens,   \* of the channel's bucket
    stopped,  \* shutdownCtx is cancelled
    send,     \* Notice -> the goroutine that sends it
    dlq,      \* Notice -> the state of its row of notification_dlq
    replay,   \* Operator -> the notices ReplayDLQ is sending for it
    got,      \* Notice -> copies the channel received
    spent

vars == <<channel, tokens, stopped, send, dlq, replay, got, spent>>

\* off: no channel to send to.  expired: sendCtx is over.  done: the goroutine
\* returned, having delivered the notice or asked for its row.
Send == [pc : {"none", "off", "sending", "done"}, tries : 0 .. Attempts - 1, expired : BOOLEAN]
Rows == {"none", "pending", "rate_limited", "resolved", "dismissed", "deleted"}

TypeOK ==
    /\ channel \in BOOLEAN /\ stopped \in BOOLEAN
    /\ tokens \in 0 .. Burst
    /\ send \in [Notice -> Send]
    /\ dlq \in [Notice -> Rows]
    /\ replay \in [Operator -> SUBSET Notice]
    /\ got \in [Notice -> Nat]
    /\ spent \in 0 .. MaxTroubles

Init ==
    /\ channel = TRUE /\ stopped = FALSE
    /\ tokens = Burst
    /\ send = [n \in Notice |-> [pc |-> "none", tries |-> 0, expired |-> FALSE]]
    /\ dlq = [n \in Notice |-> "none"]
    /\ replay = [o \in Operator |-> {}]
    /\ got = [n \in Notice |-> 0]
    /\ spent = 0

Trouble == spent < MaxTroubles /\ spent' = spent + 1

\* writeDLQ under a context that is cut (expired or cancelled) or not: the row is
\* written, or the error is only logged.
writeDLQ(n, row, cut) ==
    \/ ~cut /\ dlq' = [dlq EXCEPT ![n] = row] /\ UNCHANGED spent
    \/ cut /\ UNCHANGED <<dlq, spent>>
    \/ ~cut /\ Trouble /\ UNCHANGED dlq

\* A token comes back, every ChannelRateLimitRefillSeconds.
Refill == tokens < Burst /\ tokens' = tokens + 1
          /\ UNCHANGED <<channel, stopped, send, dlq, replay, got, spent>>

\* dispatchToChannel: a channel that is off, or whose row cannot be read, takes
\* nothing, an empty bucket or a configuration that cannot be decrypted leaves a
\* row, and otherwise a goroutine starts.
dispatchToChannel(n) ==
    /\ send[n].pc = "none" /\ ~stopped
    /\ \/ /\ IF channel THEN Trouble ELSE UNCHANGED spent
          /\ send' = [send EXCEPT ![n].pc = "off"]
          /\ UNCHANGED <<tokens, dlq>>
       \/ /\ channel /\ tokens = 0
          /\ writeDLQ(n, "rate_limited", FALSE)
          /\ send' = [send EXCEPT ![n].pc = "done"]
          /\ UNCHANGED tokens
       \/ /\ channel
          /\ writeDLQ(n, "pending", FALSE)
          /\ send' = [send EXCEPT ![n].pc = "done"]
          /\ UNCHANGED tokens
       \/ /\ channel /\ tokens > 0
          /\ tokens' = tokens - 1
          /\ send' = [send EXCEPT ![n].pc = "sending"]
          /\ UNCHANGED <<dlq, spent>>
    /\ UNCHANGED <<channel, stopped, replay, got>>

UnderWay(n) == send[n].pc = "sending"
CtxDone(n) == stopped \/ send[n].expired

\* One attempt of retryableSend.  An attempt under a live context may succeed; the
\* first failure after the context is done, or the last one, ends the schedule.
Attempt(n) ==
    /\ UnderWay(n)
    /\ \/ /\ ~CtxDone(n)
          /\ got' = [got EXCEPT ![n] = @ + 1]
          /\ send' = [send EXCEPT ![n].pc = "done"]
          /\ UNCHANGED <<dlq, spent>>
       \/ /\ ~CtxDone(n) /\ send[n].tries + 1 < Attempts
          /\ send' = [send EXCEPT ![n].tries = @ + 1]
          /\ UNCHANGED <<dlq, got, spent>>
       \/ /\ CtxDone(n) \/ send[n].tries + 1 = Attempts
          /\ send' = [send EXCEPT ![n].pc = "done"]
          /\ writeDLQ(n, "pending", CtxDone(n))
          /\ UNCHANGED got
    /\ UNCHANGED <<channel, tokens, stopped, replay>>

\* The attempts together take longer than sendCtx's 60 seconds.
SendExpires(n) ==
    /\ UnderWay(n) /\ ~send[n].expired
    /\ send' = [send EXCEPT ![n].expired = TRUE]
    /\ UNCHANGED <<channel, tokens, stopped, dlq, replay, got, spent>>

\* SIGTERM: the goroutines see their context cancelled.
Shutdown ==
    /\ ~stopped /\ stopped' = TRUE
    /\ UNCHANGED <<channel, tokens, send, dlq, replay, got, spent>>

\* ReplayDLQ: a row that is neither resolved nor dismissed, on a channel that is on.
ReplayDLQ(o, n) ==
    /\ ~stopped /\ channel /\ replay[o] = {}
    /\ dlq[n] \in {"pending", "rate_limited"}
    /\ replay' = [replay EXCEPT ![o] = {n}]
    /\ UNCHANGED <<channel, tokens, stopped, send, dlq, got, spent>>

\* Its end writes over whatever state the row is in by then, unless it was deleted;
\* the error of that write is ignored.
ReplayEnds(o, n) ==
    /\ n \in replay[o]
    /\ replay' = [replay EXCEPT ![o] = {}]
    /\ \E row \in {"resolved", "pending"} :
         /\ \/ /\ dlq' = IF dlq[n] = "deleted" THEN dlq ELSE [dlq EXCEPT ![n] = row]
               /\ UNCHANGED spent
            \/ Trouble /\ UNCHANGED dlq
         /\ got' = IF row = "resolved" THEN [got EXCEPT ![n] = @ + 1] ELSE got
    /\ UNCHANGED <<channel, tokens, stopped, send>>

Dismiss(n) ==
    /\ dlq[n] \in Rows \ {"none", "deleted"}
    /\ \E row \in {"dismissed", "deleted"} : dlq' = [dlq EXCEPT ![n] = row]
    /\ UNCHANGED <<channel, tokens, stopped, send, replay, got, spent>>

SwitchChannel ==
    /\ channel' = ~channel
    /\ UNCHANGED <<tokens, stopped, send, dlq, replay, got, spent>>

Next ==
    \/ Refill \/ Shutdown \/ SwitchChannel
    \/ \E n \in Notice : \/ dispatchToChannel(n) \/ Attempt(n) \/ SendExpires(n) \/ Dismiss(n)
                         \/ \E o \in Operator : ReplayDLQ(o, n) \/ ReplayEnds(o, n)

Spec == Init /\ [][Next]_vars

\* A notice the channel did not take is in the dead-letter queue (or was, before an
\* operator deleted it): "A notification that cannot be delivered is not lost."
NotificationNotLost ==
    \A n \in Notice : send[n].pc = "done" => got[n] > 0 \/ dlq[n] # "none"
=============================================================================
