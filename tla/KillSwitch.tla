------------------------------ MODULE KillSwitch ------------------------------
(***************************************************************************)
(* The distributed kill switch (@adjudicate/audit): operators SET a Redis  *)
(* key, replicas copy it into their RuntimeContext by polling              *)
(* (startDistributedKillSwitch, v1), and in                                *)
(* startDistributedKillSwitchPubSub (v2) also hear of it on a channel.     *)
(*                                                                         *)
(* A transition is known by its place in the order of the SETs, so that    *)
(* the key holds the number `version` and a replica's snapshot the number  *)
(* of the transition it shows; 0 stands for an absent key and an untouched *)
(* snapshot.  Redis answers a GET at one instant and the replica acts on   *)
(* the answer at a later one; the channel is a second connection, so the   *)
(* two may overtake each other.                                            *)
(***************************************************************************)
EXTENDS Naturals, Sequences

CONSTANTS
    Replicas,
    Operators, \* calls of trip() and clear()
    PubSub,    \* the replicas and operators that run v2
    Faults     \* faults a run admits

FaultKinds == {"redis_io", "lossy", "stop"}

ASSUME ConstantsAssumption ==
    /\ PubSub \subseteq Replicas \cup Operators
    /\ Faults \subseteq FaultKinds

VARIABLES
    version, \* the transition the key holds
    op,      \* where each operator's call stands
    stamp,   \* the transition an operator's call made, 0 before its SET
    phase,   \* each replica's switch
    sub,     \* its subscription
    inbox,   \* messages on their way to it
    replies, \* answers to its GETs that it has not acted on
    local    \* its snapshot

vars == <<version, op, stamp, phase, sub, inbox, replies, local>>

Phases == {"down", "boot", "polling", "stopping", "stopped"}
Subscriptions == {"none", "asked", "on", "off", "leaked"}
Stopped(r) == phase[r] \in {"stopping", "stopped"}

TypeOK ==
    /\ version \in Nat
    /\ op \in [Operators -> {"idle", "publish", "done"}]
    /\ stamp \in [Operators -> Nat]
    /\ phase \in [Replicas -> Phases]
    /\ sub \in [Replicas -> Subscriptions]
    /\ inbox \in [Replicas -> Seq(Nat)]
    /\ replies \in [Replicas -> SUBSET Nat]
    /\ local \in [Replicas -> Nat]
    \* v1 neither boots nor subscribes.
    /\ \A r \in Replicas \ PubSub : phase[r] # "boot" /\ sub[r] = "none"

Init ==
    /\ version = 0
    /\ op = [o \in Operators |-> "idle"]
    /\ stamp = [o \in Operators |-> 0]
    /\ phase = [r \in Replicas |-> "down"]
    /\ sub = [r \in Replicas |-> "none"]
    /\ inbox = [r \in Replicas |-> <<>>]
    /\ replies = [r \in Replicas |-> {}]
    /\ local = [r \in Replicas |-> 0]

-------------------------------------------------------------------------------
(* Operators *)

\* trip() and clear(): SET the key.
SetKey(o) ==
    /\ op[o] = "idle"
    /\ version' = version + 1
    /\ stamp' = [stamp EXCEPT ![o] = version + 1]
    /\ op' = [op EXCEPT ![o] = IF o \in PubSub THEN "publish" ELSE "done"]
    /\ UNCHANGED <<phase, sub, inbox, replies, local>>

\* A version of v2 that publishes first and loses its SET.
PublishesUnset(o) == version + 1
Published(o) == stamp[o]

Listening(r) == sub[r] \in {"on", "leaked"}

\* PUBLISH after the SET.  A failed publish is swallowed, and a lossy channel
\* reaches some of the listeners only.
Publish(o, heard) ==
    /\ op[o] = "publish"
    /\ \A r \in heard : Listening(r)
    /\ "lossy" \in Faults \/ \A r \in Replicas : Listening(r) => r \in heard
    /\ op' = [op EXCEPT ![o] = "done"]
    /\ inbox' = [r \in Replicas |->
                   IF r \in heard THEN Append(inbox[r], Published(o))
                   ELSE inbox[r]]
    /\ UNCHANGED <<version, stamp, phase, sub, replies, local>>

-------------------------------------------------------------------------------
(* Replicas *)

FirstPhase(r) == IF r \in PubSub THEN "boot" ELSE "polling"

\* The process constructs the switch: v1 goes straight to polling, v2 reads
\* the key before it subscribes.
Start(r) ==
    /\ phase[r] = "down"
    /\ phase' = [phase EXCEPT ![r] = FirstPhase(r)]
    /\ UNCHANGED <<version, op, stamp, sub, inbox, replies, local>>

\* The next poll is scheduled when the previous one has settled.
PollsOnce(r) == local[r] = 0 /\ replies[r] = {}
PollsOverlap(r) == replies[r] = {} \/ \A v \in replies[r] : v < version
Settled(r) == replies[r] = {}

\* Redis answers a GET.  A GET that fails while polling changes nothing.
Get(r) ==
    /\ phase[r] = "polling" \/ (phase[r] = "boot" /\ sub[r] = "none")
    /\ Settled(r)
    /\ replies' = [replies EXCEPT ![r] = @ \cup {version}]
    /\ UNCHANGED <<version, op, stamp, phase, sub, inbox, local>>

\* After the boot read, v2 subscribes unless it was stopped meanwhile.
AfterRead(r) == IF phase[r] = "boot" THEN "asked" ELSE sub[r]

\* An absent key leaves the snapshot as it is.
Shows(r, v) == IF v = 0 THEN local[r] ELSE v

\* The replica acts on the answer, stopped or not.
Answer(r, v) ==
    /\ v \in replies[r]
    /\ replies' = [replies EXCEPT ![r] = @ \ {v}]
    /\ local' = [local EXCEPT ![r] = Shows(r, v)]
    /\ sub' = [sub EXCEPT ![r] = AfterRead(r)]
    /\ UNCHANGED <<version, op, stamp, phase, inbox>>

\* The boot read fails and is swallowed.
BootReadFails(r) ==
    /\ "redis_io" \in Faults
    /\ phase[r] = "boot" /\ sub[r] = "none"
    /\ replies' = [replies EXCEPT ![r] = {}]
    /\ sub' = [sub EXCEPT ![r] = "asked"]
    /\ UNCHANGED <<version, op, stamp, phase, inbox, local>>

PollingForgotten(r) == phase[r]
AfterSubscribe(r) == IF phase[r] = "boot" THEN "polling" ELSE phase[r]

\* SUBSCRIBE takes effect, or fails and is swallowed; then the poll loop starts.
Subscribe(r) ==
    /\ sub[r] = "asked"
    /\ \/ sub' = [sub EXCEPT ![r] = "on"]
       \/ "redis_io" \in Faults /\ sub' = [sub EXCEPT ![r] = "off"]
    /\ phase' = [phase EXCEPT ![r] = AfterSubscribe(r)]
    /\ UNCHANGED <<version, op, stamp, inbox, replies, local>>

\* pubsubHandler.
Hear(r) ==
    /\ Listening(r)
    /\ inbox[r] # <<>>
    /\ local' = [local EXCEPT ![r] = Shows(r, Head(inbox[r]))]
    /\ inbox' = [inbox EXCEPT ![r] = Tail(@)]
    /\ UNCHANGED <<version, op, stamp, phase, sub, replies>>

\* stop(): v1 waits for the poll in flight, v2 for its unsubscription.
StopWaitsForNothing(r) == FALSE
StopWaits(r) == IF r \in PubSub THEN sub[r] = "on" ELSE replies[r] # {}

Stop(r) ==
    /\ "stop" \in Faults
    /\ phase[r] \in {"boot", "polling"}
    /\ phase' = [phase EXCEPT ![r] = IF StopWaits(r) THEN "stopping"
                                                     ELSE "stopped"]
    /\ UNCHANGED <<version, op, stamp, sub, inbox, replies, local>>

\* What stop() waited for has happened, and it resolves.
StopResolves(r) ==
    /\ phase[r] = "stopping"
    /\ ~StopWaits(r)
    /\ phase' = [phase EXCEPT ![r] = "stopped"]
    /\ UNCHANGED <<version, op, stamp, sub, inbox, replies, local>>

\* stop(), or the boot sequence that finds itself stopped after its SUBSCRIBE,
\* unsubscribes; a failure is swallowed and the handler stays.
Unsubscribe(r) ==
    /\ Stopped(r) /\ sub[r] = "on"
    /\ \/ sub' = [sub EXCEPT ![r] = "off"]
       \/ "redis_io" \in Faults /\ sub' = [sub EXCEPT ![r] = "leaked"]
    /\ UNCHANGED <<version, op, stamp, phase, inbox, replies, local>>

\* The subscriber connection drops; messages on their way are gone.
Disconnect(r) ==
    /\ "lossy" \in Faults
    /\ inbox[r] # <<>>
    /\ inbox' = [inbox EXCEPT ![r] = <<>>]
    /\ UNCHANGED <<version, op, stamp, phase, sub, replies, local>>

-------------------------------------------------------------------------------
\* What the event loop does without being asked.
Proceeds(r) ==
    \/ Get(r)
    \/ \E v \in replies[r] : Answer(r, v)
    \/ Subscribe(r)

Next ==
    \/ \E o \in Operators :
        SetKey(o) \/ \E heard \in SUBSET Replicas : Publish(o, heard)
    \/ \E r \in Replicas :
        \/ Start(r) \/ Proceeds(r) \/ BootReadFails(r) \/ Hear(r)
        \/ Stop(r) \/ StopResolves(r) \/ Unsubscribe(r) \/ Disconnect(r)

Spec == Init /\ [][Next]_vars

\* Timers fire and Redis answers, again and again; nobody need transition,
\* start or stop, and no message need arrive.
Fairness == \A r \in Replicas : WF_vars(Proceeds(r))

FairSpec == Spec /\ Fairness

-------------------------------------------------------------------------------
(* Properties *)

\* A replica that runs ends up showing the key, and stays there, whatever was
\* lost on the channel or went by before it started.  (the poll loop, "The
\* poller guarantees eventual consistency")
Converges ==
    \A r \in Replicas :
        <>[](phase[r] \in {"boot", "polling"} => local[r] = version)

\* A replica shows only transitions that the key has already held: the SET comes
\* before the PUBLISH, so a replica that restarts cannot know less than one that
\* listened.  (publishTransition)
ShowsDurable ==
    \A r \in Replicas :
        /\ local[r] <= version
        /\ \A v \in replies[r] : v <= version
        /\ \A i \in 1..Len(inbox[r]) : inbox[r][i] <= version

\* By polling alone a replica never returns to an earlier transition: no poll
\* starts before the last one settled.  (runPoll().finally(loop))
PollersNeverRegress ==
    [][\A r \in Replicas \ PubSub : local'[r] >= local[r]]_vars

\* Once v1's stop() has resolved the snapshot is left alone.  (inFlightPoll)
PollersStayQuiet ==
    [][\A r \in Replicas \ PubSub :
        phase[r] = "stopped" => local'[r] = local[r]]_vars
===============================================================================
