--------------------------- MODULE CommandsProofs ---------------------------
(***************************************************************************)
(* For any number of commands, drops, expiries, crashes and unacknowledged *)
(* messages: Commands is type correct and settles on the last command.     *)
(*                                                                         *)
(* SettlesOnLast is not inductive: it needs that the session, once there,  *)
(* keeps what is published, that its last message is the latest command,   *)
(* and that a robot that has just started is idle.  What StopWorks,        *)
(* HeardAgain and CommandsArrive rest on is proved here too.               *)
(***************************************************************************)
EXTENDS Commands, Qos1Proofs

Messages == [number : 1..MaxCommands, command : Kinds]
Faults == [drops : 0..MaxDrops, expiries : 0..MaxExpiries, crashes : 0..MaxCrashes]

\* As long as no session has expired.
SessionKept ==
    /\ process \in {"running", "resubscribing"} => subscribed
    /\ shown # None => subscribed
    /\ latest \in {"STOP_CLEANING", "RETURN_TO_DOCK"} => subscribed
    /\ ~subscribed => inbox.msgs = <<>>
    /\ inbox.msgs # <<>> => LastOf(inbox) = Message(issued, latest)

StartsIdle == process \in {"off", "starting"} => status = "IDLE" /\ ~entering

IInv ==
    /\ faults.expiries = 0 => SessionKept
    /\ StartsIdle
    /\ SettlesOnLast

Assumptions ==
    /\ WindowAssumption
    /\ None \notin Kinds
    /\ MaxCommands \in Nat /\ MaxDrops \in Nat /\ MaxExpiries \in Nat /\ MaxCrashes \in Nat

LEMMA Assumed == Assumptions
BY WindowAssumption, CommandsNone, CommandsBounds DEF Assumptions, Kinds

LifecycleTyped ==
    /\ status \in Statuses /\ low \in BOOLEAN
    /\ acting \in Statuses \cup {Robot!Asleep} /\ entering \in BOOLEAN

\* TypeOK, by names.
Typed ==
    /\ WellFormed(inbox, Messages) /\ faults \in Faults /\ LifecycleTyped
    /\ subscribed \in BOOLEAN /\ link \in BOOLEAN
    /\ process \in {"off", "starting", "running", "resubscribing"}
    /\ shown \in [status : Statuses, low : BOOLEAN] \cup {None}
    /\ issued \in 0..MaxCommands /\ latest \in Kinds \cup {None}
    /\ heard \subseteq 1..MaxCommands /\ lost \subseteq 1..MaxCommands

LEMMA TypeFacts == TypeOK <=> Typed
BY DEF TypeOK, Typed, WellFormed, Messages, Faults, LifecycleTyped

----------------------------------------------------------------------------
\* The counters of the faults stay within their bounds, and only an expiry counts as one.
LEMMA FaultsFacts ==
    ASSUME NEW f \in Faults
    PROVE  /\ f.drops < MaxDrops =>
                 /\ [f EXCEPT !.drops = @ + 1] \in Faults
                 /\ [f EXCEPT !.drops = @ + 1].expiries = f.expiries
           /\ f.crashes < MaxCrashes =>
                 /\ [f EXCEPT !.crashes = @ + 1] \in Faults
                 /\ [f EXCEPT !.crashes = @ + 1].expiries = f.expiries
           /\ f.expiries < MaxExpiries =>
                 /\ [f EXCEPT !.expiries = @ + 1] \in Faults
                 /\ [f EXCEPT !.expiries = @ + 1].expiries # 0
BY Assumed DEF Assumptions, Faults

LEMMA MessageFacts ==
    ASSUME NEW n \in 1..MaxCommands, NEW c \in Kinds
    PROVE  Message(n, c) \in Messages /\ Message(n, c).command = c
BY DEF Message, Messages

\* The inbox after each of the four things that happen to it.
LEMMA InboxFacts ==
    ASSUME TypeOK
    PROVE  /\ HasNext(inbox) =>
                 /\ WellFormed(Handled(inbox), Messages)
                 /\ NextOf(inbox).number \in 1..MaxCommands
                 /\ NextOf(inbox).command \in Kinds
                 /\ inbox.msgs # <<>>
                 /\ ~HasNext(Handled(inbox)) => NextOf(inbox) = LastOf(inbox)
                 /\ Handled(inbox).msgs # <<>> => LastOf(Handled(inbox)) = LastOf(inbox)
           /\ \A p \in Resent(inbox) :
                 /\ WellFormed(p, Messages)
                 /\ ~HasNext(p) => ~HasNext(inbox)
                 /\ p.msgs # <<>> => inbox.msgs # <<>> /\ LastOf(p) = LastOf(inbox)
<1>1. WellFormed(inbox, Messages)
  BY TypeFacts DEF Typed
<1>2. HasNext(inbox) => NextOf(inbox) \in Messages
  BY <1>1, HandledFacts, Assumed DEF Assumptions
<1>3. HasNext(inbox) => NextOf(inbox).number \in 1..MaxCommands
                        /\ NextOf(inbox).command \in Kinds
  BY <1>2 DEF Messages
<1>4. QED
  BY <1>1, <1>3, HandledFacts, ResentFacts, Assumed DEF Assumptions

----------------------------------------------------------------------------
(* Type correctness, by the part of the state that a step changes.         *)

LEMMA LifecycleKeepsTypes ==
    ASSUME LifecycleTyped, Robot!Next \/ UNCHANGED lifecycle
    PROVE  LifecycleTyped'
<1> USE DEF LifecycleTyped, Statuses, Robot!Asleep
<1>1. CASE Robot!Tick
  BY <1>1 DEF Robot!Tick, Robot!BeginTick, Robot!EndTick, Robot!Return, Robot!RunLow,
              Robot!EndRoom, Robot!GoHome, Robot!Drain, Robot!ReachDock, Robot!Charge
<1>2. CASE Robot!Callback
  BY <1>2 DEF Robot!Callback, Robot!Start, Robot!AcceptStart, Robot!Enter, Robot!Stop,
              Robot!HeadHome, Robot!Update
<1>3. CASE UNCHANGED lifecycle
  BY <1>3 DEF lifecycle
<1>4. QED
  BY <1>1, <1>2, <1>3 DEF Robot!Next

\* A command changes the robot as the robot's own step for it does, or not at all.
LEMMA ObeyFacts ==
    ASSUME NEW c \in Kinds, IF Accepts(c) THEN Obey(c) ELSE UNCHANGED lifecycle
    PROVE  Robot!Callback \/ UNCHANGED lifecycle
BY DEF Kinds, Obey, Robot!Callback

\* What every step leaves of the variables that are plain enough.
LEMMA NextKeepsTypes == TypeOK /\ [Next]_vars => TypeOK'
<1> USE Assumed DEF Assumptions
<1> SUFFICES ASSUME TypeOK, [Next]_vars
             PROVE  Typed'
  BY DEF TypeOK, Typed, WellFormed, Messages, Faults, LifecycleTyped
<1>1. Typed
  BY TypeFacts
<1> USE DEF cloud, session, history, lifecycle, WellFormed, LifecycleTyped
<1>3. ASSUME NEW c \in Kinds, Publish(c)
      PROVE  Typed'
  <2>1. issued' \in 1..MaxCommands /\ Message(issued', c) \in Messages
    BY <1>1, <1>3, MessageFacts DEF Publish, Typed
  <2>2. WellFormed(Put(inbox, Message(issued', c)), Messages)
    BY <1>1, <2>1, PutFacts DEF Typed
  <2>3. WellFormed(inbox, Messages)' /\ lost' \subseteq 1..MaxCommands
    BY <1>1, <1>3, <2>1, <2>2 DEF Publish, Typed
  <2>4. QED
    BY <1>1, <1>3, <2>1, <2>3
       DEF Publish, Typed
<1>4. CASE Refresh
  BY <1>1, <1>4 DEF Refresh, Typed
<1>5. CASE OnCommandReceived
  <2>1. /\ WellFormed(Handled(inbox), Messages) /\ NextOf(inbox).number \in 1..MaxCommands
        /\ NextOf(inbox).command \in Kinds
    BY <1>5, InboxFacts DEF OnCommandReceived
  <2>2. LifecycleTyped'
    BY <1>1, <1>5, <2>1, ObeyFacts, LifecycleKeepsTypes DEF OnCommandReceived, Typed, Robot!Next
  <2>3. QED
    BY <1>1, <1>5, <2>1, <2>2
       DEF OnCommandReceived, Typed
<1>6. CASE Tick \/ EnterRoom \/ ApplyOta
  <2>1. LifecycleTyped'
    BY <1>1, <1>6, LifecycleKeepsTypes
       DEF Tick, EnterRoom, ApplyOta, Typed, Robot!Next, Robot!Callback
  <2>2. QED
    BY <1>1, <1>6, <2>1 DEF Tick, EnterRoom, ApplyOta, Typed
<1>7. CASE Connect \/ SubscribeCommands \/ OnConnectionResumed
  BY <1>1, <1>7 DEF Connect, SubscribeCommands, OnConnectionResumed, Typed
<1>8. CASE Unheard
  <2>1. WellFormed(Handled(inbox), Messages) /\ NextOf(inbox).number \in 1..MaxCommands
    BY <1>8, InboxFacts DEF Unheard
  <2>2. QED
    BY <1>1, <1>8, <2>1 DEF Unheard, Typed
<1>9. ASSUME LoseProcess, faults' \in Faults
      PROVE  Typed'
  <2>1. WellFormed(inbox, Messages)'
    BY <1>9, InboxFacts DEF LoseProcess
  <2>2. LifecycleTyped'
    BY <1>9 DEF LoseProcess, Statuses
  <2>3. QED
    BY <1>1, <1>9, <2>1, <2>2
       DEF LoseProcess, Typed
<1>10. CASE DropLink
  <2>1. faults' \in Faults
    BY <1>1, <1>10, FaultsFacts DEF DropLink, Typed
  <2>2. CASE process = "starting"
    BY <1>9, <1>10, <2>1, <2>2 DEF DropLink
  <2>3. CASE process # "starting"
    <3>1. inbox' \in Resent(inbox)
      BY <1>10, <2>3 DEF DropLink
    <3>2. WellFormed(inbox, Messages)'
      BY <3>1, InboxFacts
    <3>3. QED
      BY <1>1, <1>10, <2>1, <2>3, <3>2
         DEF DropLink, Typed
  <2>4. QED
    BY <2>2, <2>3
<1>11. CASE ExpireSession
  <2>1. faults' \in Faults
    BY <1>1, <1>11, FaultsFacts DEF ExpireSession, Typed
  <2>2. WellFormed(inbox, Messages)'
    BY <1>11, EmptyFacts DEF ExpireSession
  <2>3. \A i \in 1..Len(inbox.msgs) : inbox.msgs[i] \in Messages
    BY <1>1 DEF Typed, ChannelOf
  <2>4. \A m \in Messages : m.number \in 1..MaxCommands
    BY DEF Messages
  <2>5. lost' \subseteq 1..MaxCommands
    BY <1>1, <1>11, <2>3, <2>4 DEF ExpireSession, Typed
  <2>6. QED
    BY <1>1, <1>11, <2>1, <2>2, <2>5
       DEF ExpireSession, Typed
<1>12. CASE Crash
  BY <1>1, <1>9, <1>12, FaultsFacts DEF Crash, Typed
<1>13. CASE UNCHANGED vars
  BY <1>1, <1>13 DEF vars, Typed
<1>14. QED
  BY <1>3, <1>4, <1>5, <1>6, <1>7, <1>8, <1>10, <1>11, <1>12, <1>13
     DEF Next, SendCommand, TriggerStart, Kinds

\* The variables keep their types, and no more is handled than was sent.
THEOREM TypeCorrect == Spec => []TypeOK
<1>1. Init => TypeOK
  <2>1. WellFormed(EmptyChannel, Messages)
    BY EmptyFacts
  <2>2. Init => faults \in Faults
    BY Assumed DEF Assumptions, Init, Faults
  <2>3. Init => LifecycleTyped
    BY DEF Init, Robot!Init, Robot!Asleep, LifecycleTyped, Statuses
  <2>4. Init => WellFormed(inbox, Messages)
    BY <2>1 DEF Init
  <2>5. Init => Typed
    <3>1. 0 \in 0..MaxCommands
      BY Assumed DEF Assumptions
    <3>2. QED
      BY <2>2, <2>3, <2>4, <3>1, Zenon DEF Init, Typed
  <2>6. QED
    BY <2>5, TypeFacts
<1>2. QED
  BY <1>1, NextKeepsTypes, PTL DEF Spec

----------------------------------------------------------------------------
(* The last command.                                                       *)

Settled == latest \in {"STOP_CLEANING", "RETURN_TO_DOCK"} => status # "CLEANING" /\ ~entering

\* Once a command has been handled, the robot does what it says, or did so before.
LEMMA ObeyedCommandSettles ==
    ASSUME NEW c \in Kinds, latest = c, ~entering, UNCHANGED latest,
           IF Accepts(c) THEN Obey(c) ELSE UNCHANGED lifecycle
    PROVE  Settled'
<1>1. CASE c = "START_CLEANING"
  BY <1>1 DEF Settled
<1>2. CASE c = "STOP_CLEANING"
  BY <1>2 DEF Settled, Accepts, Obey, lifecycle, Robot!Stop
<1>3. CASE c = "RETURN_TO_DOCK"
  BY <1>3 DEF Settled, Accepts, Obey, lifecycle, Robot!HeadHome
<1>4. QED
  BY <1>1, <1>2, <1>3 DEF Kinds

\* A tick, whatever status it has read and however late it writes, starts no room; nor does
\* an OTA job, nor the end of a callback that has accepted no START_CLEANING.
LEMMA RobotKeepsSettled ==
    ASSUME UNCHANGED latest, Settled, Robot!Tick \/ Robot!Update \/ Robot!Enter
    PROVE  Settled'
<1>1. CASE Robot!Tick
  BY <1>1 DEF Settled, Robot!Tick, Robot!BeginTick, Robot!EndTick, Robot!Return, Robot!RunLow,
              Robot!EndRoom, Robot!GoHome, Robot!Drain, Robot!ReachDock, Robot!Charge
<1>2. CASE Robot!Update \/ Robot!Enter
  BY <1>2 DEF Settled, Robot!Update, Robot!Enter
<1>3. QED
  BY <1>1, <1>2

\* What the settling rests on, whatever is dropped, resent, restarted and commanded.
LEMMA CommandsInvariant == Spec => []IInv
<1> USE Assumed DEF Assumptions
<1>1. Init => IInv
  BY EmptyFacts
     DEF Init, Robot!Init, Robot!Asleep, IInv, SessionKept, StartsIdle, SettlesOnLast, Kinds
<1>2. TypeOK /\ IInv /\ [Next]_vars => IInv'
  <2> SUFFICES ASSUME TypeOK, IInv, [Next]_vars
               PROVE  IInv'
    OBVIOUS
  <2>1. /\ WellFormed(inbox, Messages) /\ faults \in Faults /\ faults.expiries \in Nat
        /\ issued \in Nat
    BY TypeFacts DEF Typed, Faults
  <2>2. /\ faults.expiries = 0 => SessionKept
        /\ StartsIdle
        /\ ~HasNext(inbox) /\ faults.expiries = 0 => Settled
    BY DEF IInv, SettlesOnLast, Settled
  <2> USE DEF cloud, session, history
  \* A step that publishes nothing and expires no session.
  <2>3. ASSUME faults'.expiries = faults.expiries, UNCHANGED <<issued, latest, subscribed>>,
               faults.expiries = 0 =>
                 /\ process' \in {"running", "resubscribing"} => subscribed
                 /\ shown' # None => subscribed,
               inbox'.msgs # <<>> => inbox.msgs # <<>> /\ LastOf(inbox') = LastOf(inbox),
               StartsIdle',
               faults.expiries = 0 /\ ~HasNext(inbox') => Settled'
        PROVE  IInv'
    BY <2>2, <2>3 DEF IInv, SessionKept, SettlesOnLast, Settled, LastOf, HasNext
  <2>4. ASSUME NEW c \in Kinds, Publish(c), shown # None \/ c = "START_CLEANING"
        PROVE  IInv'
    <3>1. issued' \in 1..MaxCommands
      BY <2>1, <2>4 DEF Publish
    <3>2. Message(issued', c) \in Messages /\ Message(issued', c).command = c
      BY <3>1, MessageFacts
    <3>3. CASE subscribed
      <4>1. inbox' = Put(inbox, Message(issued', c))
        BY <2>4, <3>3 DEF Publish
      <4>2. HasNext(inbox') /\ inbox'.msgs # <<>> /\ LastOf(inbox') = Message(issued', c)
        BY <2>1, <3>2, <4>1, PutFacts
      <4>3. HasNext(inbox)' /\ LastOf(inbox)' = Message(issued', c)
        BY <4>2 DEF HasNext, LastOf
      <4>4. LastOf(inbox)' = Message(issued, latest)'
        BY <2>4, <4>3 DEF Publish
      <4>5. SessionKept'
        BY <2>4, <3>2, <3>3, <4>2, <4>4 DEF Publish, SessionKept
      <4>6. QED
        BY <2>2, <2>4, <4>3, <4>5 DEF Publish, IInv, StartsIdle, SettlesOnLast, lifecycle
    <3>4. CASE ~subscribed
      <4>1. faults.expiries = 0 => inbox'.msgs = <<>> /\ c = "START_CLEANING"
        BY <2>2, <2>4, <3>4 DEF Publish, SessionKept
      <4>2. QED
        BY <2>2, <2>4, <3>4, <4>1
           DEF Publish, IInv, SessionKept, StartsIdle, SettlesOnLast, lifecycle
    <3>5. QED
      BY <3>3, <3>4
  <2>5. CASE Refresh
    BY <2>2, <2>3, <2>5 DEF Refresh, SessionKept, StartsIdle, Settled, lifecycle
  <2>6. CASE OnCommandReceived
    <3>1. /\ HasNext(inbox) /\ inbox' = Handled(inbox) /\ process' = process
          /\ process = "running" /\ ~entering /\ UNCHANGED latest
          /\ IF Accepts(NextOf(inbox).command) THEN Obey(NextOf(inbox).command)
                                               ELSE UNCHANGED lifecycle
      BY <2>6 DEF OnCommandReceived
    <3>2. /\ NextOf(inbox).command \in Kinds /\ inbox.msgs # <<>>
          /\ ~HasNext(inbox') => NextOf(inbox) = LastOf(inbox)
          /\ inbox'.msgs # <<>> => LastOf(inbox') = LastOf(inbox)
      BY <3>1, InboxFacts
    <3>3. faults.expiries = 0 /\ ~HasNext(inbox') => latest = NextOf(inbox).command
      BY <2>2, <3>2 DEF SessionKept, Message
    <3>4. faults.expiries = 0 /\ ~HasNext(inbox') => Settled'
      BY <3>1, <3>2, <3>3, ObeyedCommandSettles
    <3>5. StartsIdle'
      BY <3>1 DEF StartsIdle
    <3>6. QED
      BY <2>2, <2>3, <2>6, <3>2, <3>4, <3>5 DEF OnCommandReceived, SessionKept
  <2>7. CASE Tick \/ EnterRoom \/ ApplyOta
    <3>1. Settled => Settled'
      BY <2>7, RobotKeepsSettled DEF Tick, EnterRoom, ApplyOta
    <3>2. StartsIdle'
      BY <2>2, <2>7 DEF Tick, EnterRoom, ApplyOta, StartsIdle, Robot!Enter
    <3>3. QED
      BY <2>2, <2>3, <2>7, <3>1, <3>2 DEF Tick, EnterRoom, ApplyOta, SessionKept
  <2>8. CASE Connect \/ OnConnectionResumed
    BY <2>2, <2>3, <2>8
       DEF Connect, OnConnectionResumed, SessionKept, StartsIdle, Settled, lifecycle
  <2>9. CASE Unheard
    <3>1. status = "IDLE" /\ ~entering
      BY <2>2, <2>9 DEF Unheard, StartsIdle
    <3>2. /\ inbox.msgs # <<>>
          /\ inbox'.msgs # <<>> => LastOf(inbox') = LastOf(inbox)
      BY <2>9, InboxFacts DEF Unheard
    <3>3. QED
      BY <2>2, <2>3, <2>9, <3>1, <3>2
         DEF Unheard, SessionKept, StartsIdle, Settled, lifecycle
  <2>10. CASE SubscribeCommands
    BY <2>2, <2>10
       DEF SubscribeCommands, IInv, SessionKept, StartsIdle, SettlesOnLast, lifecycle
  <2>11. ASSUME LoseProcess, faults'.expiries = faults.expiries
         PROVE  IInv'
    <3>1. inbox'.msgs # <<>> => inbox.msgs # <<>> /\ LastOf(inbox') = LastOf(inbox)
      BY <2>11, InboxFacts DEF LoseProcess
    <3>2. QED
      BY <2>2, <2>3, <2>11, <3>1 DEF LoseProcess, SessionKept, StartsIdle, Settled
  <2>12. CASE DropLink
    <3>1. faults'.expiries = faults.expiries
      BY <2>1, <2>12, FaultsFacts DEF DropLink
    <3>2. CASE process = "starting"
      BY <2>11, <2>12, <3>1, <3>2 DEF DropLink
    <3>3. CASE process # "starting"
      <4>1. /\ inbox'.msgs # <<>> => inbox.msgs # <<>> /\ LastOf(inbox') = LastOf(inbox)
            /\ ~HasNext(inbox') => ~HasNext(inbox)
        BY <2>12, <3>3, InboxFacts DEF DropLink
      <4>2. QED
        BY <2>2, <2>3, <2>12, <3>1, <3>3, <4>1
           DEF DropLink, SessionKept, StartsIdle, Settled, lifecycle
    <3>4. QED
      BY <3>2, <3>3
  <2>13. CASE ExpireSession
    <3>1. faults'.expiries # 0
      BY <2>1, <2>13, FaultsFacts DEF ExpireSession
    <3>2. QED
      BY <2>2, <2>13, <3>1 DEF ExpireSession, IInv, StartsIdle, SettlesOnLast, lifecycle
  <2>14. CASE Crash
    BY <2>1, <2>11, <2>14, FaultsFacts DEF Crash
  <2>15. CASE UNCHANGED vars
    BY <2>2, <2>3, <2>15 DEF vars, SessionKept, StartsIdle, Settled, lifecycle
  <2>16. QED
    BY <2>4, <2>5, <2>6, <2>7, <2>8, <2>9, <2>10, <2>12, <2>13, <2>14, <2>15
       DEF Next, SendCommand, TriggerStart, Kinds
<1>3. QED
  BY <1>1, <1>2, TypeCorrect, PTL DEF Spec

\* Whatever is dropped, resent, restarted and commanded, in whatever order, and wherever in a
\* tick the callback meets it: once everything published has been handled, a robot that was
\* last told to stop or to go home does not clean, and is not about to.
THEOREM LastCommandSettles == Spec => []SettlesOnLast
<1>1. IInv => SettlesOnLast
  BY DEF IInv
<1>2. QED
  BY <1>1, CommandsInvariant, PTL

\* As long as the session lives, a robot that cleans, or is about to, against the last
\* command is still to be handed that very command.
LastWordComes ==
    faults.expiries = 0 /\ ~Settled => Message(issued, latest) \in Unhandled(inbox)

\* The safety core of StopWorks: whatever is dropped and restarted, and however late its
\* ticks write, a robot that cleans on after a STOP_CLEANING or a RETURN_TO_DOCK has that
\* message waiting in its session, and not only an older one.
THEOREM LastWordIsComing == Spec => []LastWordComes
<1>1. TypeOK /\ IInv => LastWordComes
  <2> SUFFICES ASSUME TypeOK, IInv, faults.expiries = 0, ~Settled
               PROVE  Message(issued, latest) \in Unhandled(inbox)
    BY DEF LastWordComes
  <2>1. WellFormed(inbox, Messages)
    BY TypeFacts DEF Typed
  <2>2. HasNext(inbox)
    BY DEF IInv, SettlesOnLast, Settled
  <2>3. /\ inbox.msgs # <<>> /\ Len(inbox.msgs) \in Nat /\ inbox.done \in Nat
        /\ Len(inbox.msgs) \in (inbox.done + 1)..Len(inbox.msgs)
    BY <2>1, <2>2 DEF WellFormed, ChannelOf, HasNext
  <2>4. LastOf(inbox) = Message(issued, latest)
    BY <2>3 DEF IInv, SessionKept
  <2>5. QED
    BY <2>3, <2>4 DEF LastOf, Unhandled
<1>2. QED
  BY <1>1, CommandsInvariant, TypeCorrect, PTL

----------------------------------------------------------------------------
(* Who is connected and ready hears.                                       *)

\* The callback that finds the session gone makes the robot ready only once it has
\* subscribed again.
NeverDeaf == link /\ process = "running" => subscribed

\* The safety core of HeardAgain: a robot that is connected and ready is subscribed, however
\* it lost its connection, its session or its process.
THEOREM ReadyIsSubscribed == Spec => []NeverDeaf
<1>1. Init => NeverDeaf
  BY DEF Init, NeverDeaf
<1>2. NeverDeaf /\ [Next]_vars => NeverDeaf'
  <2> SUFFICES ASSUME NeverDeaf, [Next]_vars
               PROVE  NeverDeaf'
    OBVIOUS
  <2> USE DEF NeverDeaf, session
  <2>1. ASSUME UNCHANGED <<subscribed, link, process>>
        PROVE  NeverDeaf'
    BY <2>1
  <2>2. ASSUME NEW c \in Kinds, Publish(c)
        PROVE  NeverDeaf'
    BY <2>1, <2>2 DEF Publish
  <2>3. CASE Refresh \/ OnCommandReceived \/ Tick \/ EnterRoom \/ ApplyOta \/ Unheard
             \/ UNCHANGED vars
    BY <2>1, <2>3 DEF Refresh, OnCommandReceived, Tick, EnterRoom, ApplyOta, Unheard, vars
  <2>4. CASE Connect \/ SubscribeCommands \/ OnConnectionResumed
    BY <2>4 DEF Connect, SubscribeCommands, OnConnectionResumed
  <2>5. CASE DropLink \/ ExpireSession \/ Crash
    BY <2>5 DEF DropLink, ExpireSession, Crash, LoseProcess
  <2>6. QED
    BY <2>2, <2>3, <2>4, <2>5 DEF Next, SendCommand, TriggerStart, Kinds
<1>3. QED
  BY <1>1, <1>2, PTL DEF Spec

\* No step loses a command while the robot is connected and ready: neither one that is
\* published then nor one that the session still keeps from before.
KeptWhileReady == [][link /\ process = "running" => UNCHANGED lost]_vars

\* A command can be lost only while the robot starts, is disconnected or waits for its
\* subscription, as CommandsArrive has it.
THEOREM NothingLostWhileReady == Spec => KeptWhileReady
<1>1. NeverDeaf /\ [Next]_vars => (link /\ process = "running" => UNCHANGED lost)
  <2> SUFFICES ASSUME NeverDeaf, [Next]_vars, link, process = "running"
               PROVE  UNCHANGED lost
    OBVIOUS
  <2> USE DEF history
  <2>1. ASSUME NEW c \in Kinds, Publish(c)
        PROVE  UNCHANGED lost
    BY <2>1 DEF Publish, NeverDeaf
  <2>2. ~Unheard /\ ~ExpireSession
    BY DEF Unheard, ExpireSession
  <2>3. CASE Refresh \/ OnCommandReceived \/ Tick \/ EnterRoom \/ ApplyOta \/ UNCHANGED vars
    BY <2>3 DEF Refresh, OnCommandReceived, Tick, EnterRoom, ApplyOta, vars
  <2>4. CASE Connect \/ SubscribeCommands \/ OnConnectionResumed \/ DropLink \/ Crash
    BY <2>4 DEF Connect, SubscribeCommands, OnConnectionResumed, DropLink, Crash, LoseProcess
  <2>5. QED
    BY <2>1, <2>2, <2>3, <2>4 DEF Next, SendCommand, TriggerStart, Kinds
<1>2. QED
  BY <1>1, ReadyIsSubscribed, PTL DEF Spec, KeptWhileReady
----------------------------------------------------------------------------
(* No command vanishes.                                                    *)

\* The numbers of the commands that the session still has to hand over.
ToBeHeard == {m.number : m \in Unhandled(inbox)}
Accounted == 1..issued \subseteq heard \cup lost \cup ToBeHeard

\* Handling takes one command out of those to be heard, sending again takes none, and one
\* that is published while the session is there comes to them.
LEMMA ToBeHeardFacts ==
    ASSUME TypeOK
    PROVE  /\ HasNext(inbox) /\ inbox' = Handled(inbox) =>
                 ToBeHeard \subseteq ToBeHeard' \cup {NextOf(inbox).number}
           /\ inbox' \in Resent(inbox) => ToBeHeard \subseteq ToBeHeard'
           /\ \A m \in Messages : inbox' = Put(inbox, m) =>
                 ToBeHeard \cup {m.number} \subseteq ToBeHeard'
<1>1. WellFormed(inbox, Messages)
  BY TypeFacts DEF Typed
<1>2. ASSUME HasNext(inbox), inbox' = Handled(inbox)
      PROVE  ToBeHeard \subseteq ToBeHeard' \cup {NextOf(inbox).number}
  <2>1. Unhandled(inbox) \subseteq Unhandled(inbox') \cup {NextOf(inbox)}
    BY <1>1, <1>2, HandledUnhandled, Assumed DEF Assumptions
  <2>2. QED
    BY <2>1 DEF ToBeHeard, Unhandled
<1>3. ASSUME inbox' \in Resent(inbox)
      PROVE  ToBeHeard \subseteq ToBeHeard'
  <2>1. Unhandled(inbox) \subseteq Unhandled(inbox')
    BY <1>1, <1>3, ResentUnhandled
  <2>2. QED
    BY <2>1 DEF ToBeHeard, Unhandled
<1>4. ASSUME NEW m \in Messages, inbox' = Put(inbox, m)
      PROVE  ToBeHeard \cup {m.number} \subseteq ToBeHeard'
  <2>1. Unhandled(inbox) \cup {m} \subseteq Unhandled(inbox')
    BY <1>1, <1>4, PutUnhandled
  <2>2. QED
    BY <2>1 DEF ToBeHeard, Unhandled
<1>5. QED
  BY <1>2, <1>3, <1>4

\* The safety core of CommandsArrive: however the link drops and the process restarts, each
\* command published has been heard, is counted as lost for one of the reasons named there,
\* or is still to be handed over by the session.
THEOREM NoCommandVanishes == Spec => []Accounted
<1>1. Init => Accounted
  BY DEF Init, Accounted
<1>2. TypeOK /\ Accounted /\ [Next]_vars => Accounted'
  <2> SUFFICES ASSUME TypeOK, Accounted, [Next]_vars
               PROVE  Accounted'
    OBVIOUS
  <2> USE DEF cloud, session, history
  <2>1. ASSUME UNCHANGED issued, heard \subseteq heard', lost \subseteq lost',
               ToBeHeard \subseteq heard' \cup lost' \cup ToBeHeard'
        PROVE  Accounted'
    BY <2>1 DEF Accounted
  <2>2. ASSUME UNCHANGED <<issued, heard, lost, inbox>>
        PROVE  Accounted'
    BY <2>2 DEF Accounted, ToBeHeard, Unhandled
  <2>3. ASSUME NEW c \in Kinds, Publish(c)
        PROVE  Accounted'
    <3>1. issued \in Nat /\ issued' = issued + 1 /\ issued' \in 1..MaxCommands
          /\ UNCHANGED heard
      BY <2>3, TypeFacts, Assumed DEF Publish, Typed, Assumptions
    <3>2. 1..issued' = 1..issued \cup {issued'}
      BY <3>1
    <3>3. Message(issued', c) \in Messages /\ Message(issued', c).number = issued'
      BY <3>1, MessageFacts DEF Message
    <3>4. CASE subscribed
      <4>1. inbox' = Put(inbox, Message(issued', c)) /\ UNCHANGED lost
        BY <2>3, <3>4 DEF Publish
      <4>2. ToBeHeard \cup {issued'} \subseteq ToBeHeard'
        BY <3>3, <4>1, ToBeHeardFacts
      <4>3. QED
        BY <3>1, <3>2, <4>1, <4>2 DEF Accounted
    <3>5. CASE ~subscribed
      <4>1. lost' = lost \cup {issued'} /\ UNCHANGED inbox
        BY <2>3, <3>5 DEF Publish
      <4>2. ToBeHeard' = ToBeHeard
        BY <4>1 DEF ToBeHeard, Unhandled
      <4>3. QED
        BY <3>1, <3>2, <4>1, <4>2 DEF Accounted
    <3>6. QED
      BY <3>4, <3>5
  <2>4. CASE OnCommandReceived
    BY <2>1, <2>4, ToBeHeardFacts DEF OnCommandReceived
  <2>5. CASE Unheard
    BY <2>1, <2>5, ToBeHeardFacts DEF Unheard
  <2>6. ASSUME inbox' \in Resent(inbox), UNCHANGED <<issued, heard, lost>>
        PROVE  Accounted'
    BY <2>1, <2>6, ToBeHeardFacts
  <2>7. CASE DropLink \/ Crash
    BY <2>6, <2>7 DEF DropLink, Crash, LoseProcess
  <2>8. CASE ExpireSession
    <3>1. inbox.done \in Nat
      BY TypeFacts DEF Typed, WellFormed, ChannelOf
    <3>2. (inbox.done + 1)..Len(inbox.msgs) \subseteq 1..Len(inbox.msgs)
      BY <3>1
    <3>3. ToBeHeard \subseteq {inbox.msgs[i].number : i \in 1..Len(inbox.msgs)}
      BY <3>2 DEF ToBeHeard, Unhandled
    <3>4. QED
      BY <2>1, <2>8, <3>3 DEF ExpireSession
  <2>9. CASE Refresh \/ Tick \/ EnterRoom \/ ApplyOta \/ Connect \/ SubscribeCommands
             \/ OnConnectionResumed \/ UNCHANGED vars
    BY <2>2, <2>9
       DEF Refresh, Tick, EnterRoom, ApplyOta, Connect, SubscribeCommands,
           OnConnectionResumed, vars
  <2>10. QED
    BY <2>3, <2>4, <2>5, <2>7, <2>8, <2>9 DEF Next, SendCommand, TriggerStart, Kinds
<1>3. QED
  BY <1>1, <1>2, TypeCorrect, PTL DEF Spec
=============================================================================
