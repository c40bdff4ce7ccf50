-------------------------------- MODULE Qos1 --------------------------------
(***************************************************************************)
(* One direction of an MQTT connection at QoS 1 over a persistent session, *)
(* as the robot's client (emulator/robot/mqtt_client.py) and AWS IoT Core  *)
(* use it.                                                                 *)
(*                                                                         *)
(* A channel is a sequence of messages, the first done of which the        *)
(* receiver has handled but whose acknowledgements may still be on their   *)
(* way: when the connection drops, any suffix of those is sent again, in   *)
(* order.                                                                  *)
(***************************************************************************)
EXTENDS Naturals, Sequences

CONSTANT Window   \* how many handled messages can be unacknowledged

ASSUME WindowAssumption == Window \in Nat

ChannelOf(M) == [msgs : Seq(M), done : Nat]

EmptyChannel == [msgs |-> <<>>, done |-> 0]
Put(ch, m) == [ch EXCEPT !.msgs = Append(@, m)]
HasNext(ch) == ch.done < Len(ch.msgs)
NextOf(ch) == ch.msgs[ch.done + 1]

\* The next message is handled; the oldest acknowledgement arrives at the latest
\* when the window is full.
Handled(ch) ==
    IF ch.done = Window THEN [ch EXCEPT !.msgs = Tail(@)] ELSE [ch EXCEPT !.done = @ + 1]

\* The channel after a drop: the messages whose acknowledgement did not arrive follow.
Resent(ch) ==
    {[msgs |-> SubSeq(ch.msgs, k + 1, Len(ch.msgs)), done |-> 0] : k \in 0..ch.done}

\* What the receiver has still to handle.
Unhandled(ch) == {ch.msgs[i] : i \in (ch.done + 1)..Len(ch.msgs)}
=============================================================================
