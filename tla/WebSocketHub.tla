----------------------------- MODULE WebSocketHub -----------------------------
(***************************************************************************)
(* The WebSocket bridge of src/crates/api-gateway/src/ws.rs: a task that   *)
(* polls the bus and sends what is new into a broadcast channel, and per   *)
(* connection a receiver of that channel, a filter the client may change   *)
(* and a task that reads what the client sends.  The channel keeps the     *)
(* newest Capacity messages; a receiver further behind loses the oldest.   *)
(***************************************************************************)
EXTENDS MessageBus, FiniteSets

CONSTANTS Clients,
          Capacity,      \* HUB_CHANNEL_CAPACITY
          Channels,
          ChannelsOf,    \* ChannelsOf[type]: the channels that match the type
          MaxControls    \* bound on what the clients send and open

ASSUME HubAssumption == Capacity \in Nat \ {0} /\ MaxControls \in Nat

VARIABLES hubIndex,    \* how much of the log poll_bus has sent
          sent,        \* all that went into the channel
          open,        \* the connections being served
          reading,     \* those whose read task runs
          pos,         \* how much of sent each receiver has passed
          active,      \* each connection's filter; {} stands for none
          (* history *)
          start,       \* where each receiver began
          got,         \* the messages each client was sent, by place in sent
          spoiled,     \* clients that lagged or set a filter
          controls

hvars == <<hubIndex, sent, open, reading, pos, active, start, got, spoiled, controls>>

HubTypeOK ==
    /\ hubIndex \in 0..Len(log)
    /\ open \subseteq Clients /\ reading \subseteq open
    /\ \A c \in Clients : start[c] \in 0..pos[c] /\ pos[c] \in 0..Len(sent)
    /\ active \in [Clients -> SUBSET Channels]
    /\ got \in [Clients -> Seq(1..Len(sent))]
    /\ spoiled \subseteq Clients

HubInit ==
    /\ hubIndex = 0 /\ sent = <<>>
    /\ open = {} /\ reading = {}
    /\ pos = [c \in Clients |-> 0] /\ start = [c \in Clients |-> 0]
    /\ active = [c \in Clients |-> {}]
    /\ got = [c \in Clients |-> <<>>]
    /\ spoiled = {} /\ controls = 0

(* HubMessage: an event carries its place in the log.                      *)
Event(i) == [kind |-> "event", event |-> i, type |-> log[i].type]
Notice(kind) == [kind |-> kind, event |-> 0, type |-> "none"]

Control == controls < MaxControls /\ controls' = controls + 1

-----------------------------------------------------------------------------
(* Mutant: the last of the events is left for the next tick.               *)
PollBus_OffByOne ==
    /\ Len(log) > hubIndex + 1
    /\ sent' = Append(sent, Event(hubIndex + 1))
    /\ hubIndex' = hubIndex + 1
    /\ UNCHANGED <<log, open, reading, pos, active, start, got, spoiled, controls>>

(* poll_bus sends the next of the events it found at a tick, one at a time *)
(* beside everyone else; a later tick may only be later.                   *)
PollBus ==
    /\ Len(log) > hubIndex
    /\ sent' = Append(sent, Event(hubIndex + 1))
    /\ hubIndex' = hubIndex + 1
    /\ UNCHANGED <<log, open, reading, pos, active, start, got, spoiled, controls>>

(* Mutant: the welcome is sent before the receiver exists.                 *)
Connect_Late(c) ==
    /\ c \notin open /\ Control
    /\ open' = open \cup {c} /\ reading' = reading \cup {c}
    /\ start' = [start EXCEPT ![c] = Len(sent)]
    /\ pos' = [pos EXCEPT ![c] = Len(sent) + 1]
    /\ sent' = Append(sent, Notice("welcome"))
    /\ active' = [active EXCEPT ![c] = {}]
    /\ got' = [got EXCEPT ![c] = <<>>]
    /\ spoiled' = spoiled \ {c}
    /\ UNCHANGED <<log, hubIndex>>

(* serve: the receiver first, then a welcome that goes to everyone.        *)
Connect(c) ==
    /\ c \notin open /\ Control
    /\ open' = open \cup {c} /\ reading' = reading \cup {c}
    /\ start' = [start EXCEPT ![c] = Len(sent)]
    /\ pos' = [pos EXCEPT ![c] = Len(sent)]
    /\ sent' = Append(sent, Notice("welcome"))
    /\ active' = [active EXCEPT ![c] = {}]
    /\ got' = [got EXCEPT ![c] = <<>>]
    /\ spoiled' = spoiled \ {c}
    /\ UNCHANGED <<log, hubIndex>>

(* A ping frame: the pong goes to everyone too.                            *)
Ping(c) ==
    /\ c \in reading /\ Control
    /\ sent' = Append(sent, Notice("pong"))
    /\ UNCHANGED <<log, hubIndex, open, reading, pos, active, start, got, spoiled>>

(* apply_control.  A text ping changes nothing; dropping the last channel, *)
(* like subscribing to none, lifts the filter.                             *)
ApplyControl(c) ==
    /\ c \in reading /\ Control
    /\ \/ active' = [active EXCEPT ![c] = {}]
       \/ \E ch \in Channels : active' = [active EXCEPT ![c] = @ \cup {ch}]
       \/ \E ch \in Channels : active' = [active EXCEPT ![c] = @ \ {ch}]
    /\ spoiled' = spoiled \cup {c}
    /\ UNCHANGED <<log, hubIndex, sent, open, reading, pos, start, got>>

(* The client closes: the read task ends, the forwarding loop goes on.     *)
Close(c) ==
    /\ c \in reading
    /\ reading' = reading \ {c}
    /\ UNCHANGED <<log, hubIndex, sent, open, pos, active, start, got, spoiled, controls>>

(* passes_filter.                                                          *)
PassesFilter(c, message) ==
    \/ active[c] = {}
    \/ message.kind # "event"
    \/ ChannelsOf[message.type] \cap active[c] # {}

(* recv finds its next message overwritten: it goes on with the oldest.    *)
Lag(c) ==
    /\ c \in open /\ Len(sent) - pos[c] > Capacity
    /\ pos' = [pos EXCEPT ![c] = Len(sent) - Capacity]
    /\ spoiled' = spoiled \cup {c}
    /\ UNCHANGED <<log, hubIndex, sent, open, reading, active, start, got, controls>>

(* The forwarding loop: a write to a connection that is gone ends it.      *)
Forward(c) ==
    /\ c \in open /\ pos[c] < Len(sent) /\ Len(sent) - pos[c] <= Capacity
    /\ pos' = [pos EXCEPT ![c] = @ + 1]
    /\ IF PassesFilter(c, sent[pos[c] + 1])
       THEN /\ open' = IF c \in reading THEN open ELSE open \ {c}
            /\ got' = IF c \in reading THEN [got EXCEPT ![c] = Append(@, pos[c] + 1)] ELSE got
       ELSE UNCHANGED <<open, got>>
    /\ UNCHANGED <<log, hubIndex, sent, reading, active, start, spoiled, controls>>

HubNext ==
    \/ PollBus
    \/ \E c \in Clients : \/ Connect(c) \/ Ping(c) \/ ApplyControl(c) \/ Close(c)
                          \/ Lag(c) \/ Forward(c)

HubRestart ==
    /\ hubIndex' = 0 /\ sent' = <<>> /\ open' = {} /\ reading' = {}
    /\ pos' = [c \in Clients |-> 0] /\ start' = [c \in Clients |-> 0]
    /\ active' = [c \in Clients |-> {}]
    /\ got' = [c \in Clients |-> <<>>]
    /\ spoiled' = {} /\ UNCHANGED controls

HubFair == /\ WF_<<log, hvars>>(PollBus)
           /\ \A c \in Clients : WF_<<log, hvars>>(Lag(c) \/ Forward(c))
-----------------------------------------------------------------------------
(* A client that kept up and set no filter has been sent everything since  *)
(* it connected.                                                           *)
Reachable(c) == c \in (open \cap reading) \ spoiled
NothingSkipped ==
    \A c \in Clients : Reachable(c) =>
        got[c] = [k \in 1..(pos[c] - start[c]) |-> start[c] + k]

===============================================================================
