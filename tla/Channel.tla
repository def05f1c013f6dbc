------------------------------- MODULE Channel -------------------------------
(* The mpsc::channel::<Intent>(256) of main.rs that the watcher and the       *)
(* reconciler send into and the writer receives from: FIFO, bounded, and      *)
(* send() waits while it is full.                                             *)
EXTENDS Intents, Sequences, Naturals

CONSTANT Capacity

ASSUME ChannelAssumption == Capacity \in Nat \ {0}

VARIABLE queue

ChannelTypeOK == queue \in Seq(Intent) /\ Len(queue) <= Capacity

ChannelInit == queue = << >>

\* Broken: room for one more than the capacity.
SendOverfull(i) ==
    /\ Len(queue) <= Capacity
    /\ queue' = Append(queue, i)

Send(i) ==
    /\ Len(queue) < Capacity
    /\ queue' = Append(queue, i)

Receive ==
    /\ queue # << >>
    /\ queue' = Tail(queue)
=============================================================================
