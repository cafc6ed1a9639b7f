------------------------------ MODULE SdkDrive ------------------------------
(***************************************************************************)
(* From the velocity command to the robot: the UDP client and the SDK      *)
(* proxy on two hosts, the direct bridge that replaces them, the owner     *)
(* lock, and the robot behind HighLevel::move, where the last command      *)
(* stands until the next one.  A command is zero or "go".  The network     *)
(* loses, duplicates and reorders packets; processes stop in order or die; *)
(* the system clock of the ROS nodes may be set back (the proxy reads a    *)
(* steady clock).  A tick is the period of the senders; in every tick a    *)
(* running process serves its timer and the proxy empties its socket.      *)
(***************************************************************************)
EXTENDS SdkOwnerLock, Integers, Sequences

CONSTANTS Bridge, Proxy,          \* the two owners
          AutoStand, RequireStanding, \* auto_stand, require_standing_before_move
          SendZeroOnStart,        \* send_zero_on_start
          CmdTimeout,             \* cmd_timeout of all three, in ticks
          CheckPeriod, RetryPeriod,   \* standup_check_period, standup_retry_period
          MaxDelay,               \* ticks a packet may be on its way
          MaxInit,                \* ticks initRobot and standUp may take
          MaxSock,                \* packets the socket's buffer keeps
          ClockStep, MaxSteps     \* how far, how often the clock is set back

ASSUME DriveAssumption ==
  /\ Owners = {Bridge, Proxy} /\ Bridge # Proxy /\ "nobody" \notin Owners
  /\ {AutoStand, RequireStanding, SendZeroOnStart} \subseteq BOOLEAN
  /\ {CmdTimeout, CheckPeriod, RetryPeriod} \subseteq Nat \ {0}
  /\ {MaxDelay, MaxInit, MaxSock, ClockStep, MaxSteps} \subseteq Nat

VARIABLES sdk,        \* what each owner keeps
          client,     \* the UDP client
          net, sock,  \* packets on their way; in the buffer of the proxy's socket
          robot,      \* the last command and the posture
          go_age,     \* ticks since "go" was last published on cmd_vel
          steps       \* how often the clock was set back

driveVars == <<sdk, client, net, sock, robot, go_age, steps>>
vars == <<lockVars, driveVars>>

(* An age stops counting where no step of the clock brings it back.        *)
Longest(period) == period + ClockStep * MaxSteps
Waits(period)   == -(ClockStep * MaxSteps)..Longest(period)
UpTo(limit, n) == IF n < limit THEN n + 1 ELSE n

(* How old the motion may be: watchdogs, clock and network each add their  *)
(* share, and so does a packet that waits while the proxy initialises.     *)
MaxMotion ==
  (CmdTimeout + ClockStep * MaxSteps) + MaxDelay + MaxInit + CmdTimeout + 1

Command == {"zero", "go"}

(* A command not received yet is a zero, and the age of a zero does not    *)
(* matter; nor do the periods of the stand-up once it is over.             *)
FreshOwner ==
  [ready |-> FALSE, init |-> 0, waiting |-> FALSE, cmd |-> "zero", age |-> 0,
   check |-> 0, request |-> 0, served |-> FALSE, stood |-> FALSE]
DownClient == [up |-> FALSE, cmd |-> "zero", age |-> 0, served |-> FALSE]

SdkTypeOK ==
  /\ path \in Inodes \cup {NoInode}
  /\ fd \in [Owners -> Inodes \cup {NoInode}] /\ pc \in [Owners -> Stages]
  /\ sdk \in [Owners -> [ready : BOOLEAN, init : 0..MaxInit, waiting : BOOLEAN,
                         cmd : Command, age : Waits(CmdTimeout + 1),
                         check : Waits(CheckPeriod), request : Waits(RetryPeriod),
                         served : BOOLEAN, stood : BOOLEAN]]
  /\ client \in [up : BOOLEAN, cmd : Command, age : Waits(CmdTimeout + 1), served : BOOLEAN]
  /\ net \subseteq [cmd : Command, age : 0..MaxDelay]
  /\ sock \in Seq(Command) /\ Len(sock) <= MaxSock
  /\ robot \in [standing : BOOLEAN, asked : BOOLEAN, move : Command,
                by : Owners \cup {"nobody"}]
  /\ go_age \in 0..(MaxMotion + 1) /\ steps \in 0..MaxSteps
  /\ \A o \in Owners : pc[o] # "owned" => sdk[o] = FreshOwner

Init ==
  /\ LockInit
  /\ sdk = [o \in Owners |-> FreshOwner] /\ client = DownClient
  /\ net = {} /\ sock = << >>
  /\ robot \in [standing : BOOLEAN, asked : {FALSE}, move : {"zero"}, by : {"nobody"}]
  /\ go_age = MaxMotion + 1 /\ steps = 0

-----------------------------------------------------------------------------
(* The robot behind the SDK.                                               *)
Moved(r, o, v) == [r EXCEPT !.move = v, !.by = IF v = "go" THEN o ELSE "nobody"]
Asked(r)       == [r EXCEPT !.asked = TRUE]

RobotStands ==
  /\ robot.asked
  /\ robot' = [robot EXCEPT !.asked = FALSE, !.standing = TRUE]
  /\ sdk' = [o \in Owners |-> IF pc[o] = "owned" THEN [sdk[o] EXCEPT !.stood = TRUE]
                              ELSE sdk[o]]
  /\ UNCHANGED <<lockVars, client, net, sock, go_age, steps>>

RobotIgnores ==
  /\ robot.asked /\ robot' = [robot EXCEPT !.asked = FALSE]
  /\ UNCHANGED <<lockVars, sdk, client, net, sock, go_age, steps>>

RobotDrops ==
  /\ robot.standing /\ robot' = [robot EXCEPT !.standing = FALSE]
  /\ UNCHANGED <<lockVars, sdk, client, net, sock, go_age, steps>>

-----------------------------------------------------------------------------
(* What bridge and proxy do alike.                                         *)

(* While the stand-up is awaited: the control mode confirms it, or the     *)
(* request is repeated.                                                    *)
StandupCheck(o, s, r, zero) ==
  IF ~s.waiting \/ s.check < CheckPeriod THEN [s |-> s, r |-> r]
  ELSE IF r.standing
  THEN [s |-> [s EXCEPT !.waiting = FALSE, !.check = 0, !.request = 0],
        r |-> IF zero THEN Moved(r, o, "zero") ELSE r]
  ELSE IF s.request >= RetryPeriod
  THEN [s |-> [s EXCEPT !.check = 0, !.request = 0], r |-> Asked(r)]
  ELSE [s |-> [s EXCEPT !.check = 0], r |-> r]

(* Faulty variant: a command stands until it is replaced.                  *)
WatchedUntilReplaced(s) == s.cmd

(* The command that is sent on: zero when the watchdog has expired.        *)
Watched(s) == IF s.age <= CmdTimeout THEN s.cmd ELSE "zero"

Received(s, v) == [s EXCEPT !.cmd = v, !.age = 0]

Using(o) == pc[o] = "owned" /\ sdk[o].ready

(* Faulty variant: moves are enabled at once.                              *)
StartDriveUngated(o) ==
  /\ pc[o] = "owned" /\ ~sdk[o].ready
  /\ sdk' = [sdk EXCEPT ![o].ready = TRUE, ![o].stood = @ \/ robot.standing]
  /\ robot' = IF AutoStand THEN Asked(robot) ELSE robot
  /\ UNCHANGED <<lockVars, client, net, sock, go_age, steps>>

(* The SDK is initialised and asked to stand up; moves stay blocked until  *)
(* it does.  The bridge alone sends a zero when it need not wait.          *)
StartDrive(o) ==
  LET wait == AutoStand /\ RequireStanding
      r    == IF AutoStand THEN Asked(robot) ELSE robot
  IN  /\ pc[o] = "owned" /\ ~sdk[o].ready
      /\ sdk' = [sdk EXCEPT ![o].ready = TRUE, ![o].waiting = wait,
                            ![o].check = IF wait THEN Longest(CheckPeriod) ELSE 0,
                            ![o].stood = @ \/ robot.standing]
      /\ robot' = IF o = Bridge /\ SendZeroOnStart /\ ~wait THEN Moved(r, o, "zero") ELSE r
      /\ UNCHANGED <<lockVars, client, net, sock, go_age, steps>>

(* Faulty variant: what the process kept survives it.                      *)
ClosedKeeps(o) ==
  /\ ReleaseLock(o) /\ UNCHANGED sdk
  /\ sock' = IF o = Proxy THEN << >> ELSE sock

Closed(o) ==
  /\ ReleaseLock(o)
  /\ sdk' = [sdk EXCEPT ![o] = FreshOwner]
  /\ sock' = IF o = Proxy THEN << >> ELSE sock

(* Faulty variant: the last command is left standing.                      *)
StopDriveMoving(o) ==
  /\ Using(o) /\ Closed(o)
  /\ UNCHANGED <<robot, client, net, go_age, steps>>

(* Leaving in order, with a zero unless moves are still blocked: the end   *)
(* of the proxy's loop, and the destructor of the bridge, which an         *)
(* exception reaches as well.                                              *)
StopDrive(o) ==
  /\ Using(o) /\ Closed(o)
  /\ robot' = IF sdk[o].waiting THEN robot ELSE Moved(robot, o, "zero")
  /\ UNCHANGED <<client, net, go_age, steps>>

(* Death, or an exception of the SDK in the proxy's loop, in its           *)
(* initialisation, or in the bridge's last move: no zero is sent.          *)
LoseOwner(o) ==
  /\ Closed(o)
  /\ robot' = IF robot.by = o THEN [robot EXCEPT !.by = "nobody"] ELSE robot
  /\ UNCHANGED <<client, net, go_age, steps>>

-----------------------------------------------------------------------------
(* The bridge's timer: the stand-up is awaited, or a command sent.         *)
BridgeTimer ==
  LET s == [sdk[Bridge] EXCEPT !.served = TRUE]
      w == StandupCheck(Bridge, s, robot, SendZeroOnStart)
  IN  /\ Using(Bridge) /\ ~sdk[Bridge].served
      /\ sdk' = [sdk EXCEPT ![Bridge] = w.s]
      /\ robot' = IF s.waiting THEN w.r ELSE Moved(robot, Bridge, Watched(s))
      /\ UNCHANGED <<lockVars, client, net, sock, go_age, steps>>

(* The control mode cannot be read: the next period tries again.           *)
BridgeQueryFails ==
  /\ Using(Bridge) /\ ~sdk[Bridge].served
  /\ sdk[Bridge].waiting /\ sdk[Bridge].check >= CheckPeriod
  /\ sdk' = [sdk EXCEPT ![Bridge].served = TRUE, ![Bridge].check = 0]
  /\ UNCHANGED <<lockVars, client, net, sock, robot, go_age, steps>>

(* One round of the proxy's loop: at most one datagram, the stand-up       *)
(* check, and a command once per period.  The sequence number of a packet  *)
(* is read and not compared, and its age counts from here.                 *)
ProxyLoop ==
  LET heard == IF sock = << >> THEN sdk[Proxy] ELSE Received(sdk[Proxy], Head(sock))
      w     == StandupCheck(Proxy, heard, robot, TRUE)
      sends == ~w.s.waiting /\ ~w.s.served
  IN  /\ Using(Proxy) /\ (sock # << >> \/ ~sdk[Proxy].served)
      /\ sock' = IF sock = << >> THEN sock ELSE Tail(sock)
      /\ sdk' = [sdk EXCEPT ![Proxy] = [w.s EXCEPT !.served = TRUE]]
      /\ robot' = IF sends THEN Moved(w.r, Proxy, Watched(w.s)) ELSE w.r
      /\ UNCHANGED <<lockVars, client, net, go_age, steps>>

-----------------------------------------------------------------------------
(* The client and the network.                                             *)
StartClient ==
  /\ ~client.up /\ client' = [DownClient EXCEPT !.up = TRUE]
  /\ UNCHANGED <<lockVars, sdk, net, sock, robot, go_age, steps>>

SendPacket(v) == net' = net \cup {[cmd |-> v, age |-> 0]}

ClientTimer ==
  /\ client.up /\ ~client.served
  /\ client' = [client EXCEPT !.served = TRUE]
  /\ SendPacket(Watched(client))
  /\ UNCHANGED <<lockVars, sdk, sock, robot, go_age, steps>>

StopClient ==
  /\ client.up /\ client' = DownClient /\ SendPacket("zero")
  /\ UNCHANGED <<lockVars, sdk, sock, robot, go_age, steps>>

LoseClient ==
  /\ client.up /\ client' = DownClient
  /\ UNCHANGED <<lockVars, sdk, net, sock, robot, go_age, steps>>

(* The socket is bound as soon as the proxy owns the SDK: packets wait in  *)
(* its buffer while the SDK initialises.  A packet on its way may arrive   *)
(* in any order, more than once, or not before it is lost.                 *)
Deliver ==
  /\ pc[Proxy] = "owned" /\ Len(sock) < MaxSock
  /\ \E m \in net : sock' = Append(sock, m.cmd)
  /\ UNCHANGED <<lockVars, sdk, client, net, robot, go_age, steps>>

(* A command on cmd_vel reaches whoever has subscribed.                    *)
PublishCommand ==
  /\ \E v \in Command :
       /\ client' = IF client.up THEN Received(client, v) ELSE client
       /\ sdk' = IF Using(Bridge) THEN [sdk EXCEPT ![Bridge] = Received(@, v)] ELSE sdk
       /\ go_age' = IF v = "go" THEN 0 ELSE go_age
  /\ UNCHANGED <<lockVars, net, sock, robot, steps>>

-----------------------------------------------------------------------------
(* Time.                                                                   *)
SetBack(s) == IF s.cmd = "go" THEN [s EXCEPT !.age = @ - ClockStep] ELSE s

OwnerSetBack(s) ==
  IF ~s.waiting THEN SetBack(s)
  ELSE [SetBack(s) EXCEPT !.check = @ - ClockStep, !.request = @ - ClockStep]

SetClockBack ==
  /\ steps < MaxSteps /\ steps' = steps + 1
  /\ client' = SetBack(client)
  /\ sdk' = [sdk EXCEPT ![Bridge] = OwnerSetBack(@)]
  /\ UNCHANGED <<lockVars, net, sock, robot, go_age>>

Older(s) ==
  [s EXCEPT !.age = IF s.cmd = "go" THEN UpTo(Longest(CmdTimeout + 1), @) ELSE 0, !.served = FALSE]

OwnerOlder(s) ==
  IF ~s.waiting THEN Older(s)
  ELSE [Older(s) EXCEPT !.check   = UpTo(Longest(CheckPeriod), @),
                        !.request = UpTo(Longest(RetryPeriod), @)]

Tick ==
  /\ client.up => client.served
  /\ \A o \in Owners : pc[o] = "owned" =>
       IF sdk[o].ready THEN sdk[o].served ELSE sdk[o].init < MaxInit
  /\ Using(Proxy) => sock = << >>
  /\ client' = Older(client)
  /\ sdk' = [o \in Owners |-> IF Using(o) THEN OwnerOlder(sdk[o])
                              ELSE IF pc[o] = "owned" THEN [sdk[o] EXCEPT !.init = @ + 1]
                              ELSE sdk[o]]
  /\ net' = {[m EXCEPT !.age = @ + 1] : m \in {n \in net : n.age < MaxDelay}}
  /\ go_age' = UpTo(MaxMotion + 1, go_age)
  /\ UNCHANGED <<lockVars, sock, robot, steps>>

-----------------------------------------------------------------------------
LockStep ==
  /\ CleanUp \/ \E o \in Owners : OpenLock(o) \/ TakeLock(o) \/ OwnLock(o)
  /\ UNCHANGED driveVars

OwnerStep == \E o \in Owners : StartDrive(o) \/ StopDrive(o) \/ LoseOwner(o)

Next ==
  \/ LockStep \/ OwnerStep
  \/ BridgeTimer \/ BridgeQueryFails \/ ProxyLoop
  \/ StartClient \/ ClientTimer \/ StopClient \/ LoseClient
  \/ Deliver \/ PublishCommand
  \/ RobotStands \/ RobotIgnores \/ RobotDrops
  \/ SetClockBack \/ Tick

Spec == Init /\ [][Next]_vars

-----------------------------------------------------------------------------
(* Properties.                                                             *)

(* The robot moves on no command older than both watchdogs, the network,   *)
(* the proxy's initialisation and the clock together allow, as long as the *)
(* process that sent it is alive.                                          *)
StaleMotionBounded ==
  robot.move = "go" /\ robot.by \in Owners => go_age <= MaxMotion

(* A process that leaves in order leaves the robot stopped: what moves is  *)
(* commanded by a process that runs, or by one that died.                  *)
OrderlyStop == robot.move = "go" /\ robot.by \in Owners => Using(robot.by)

(* With stand-up required, an owner moves the robot only once it has stood *)
(* in that owner's time, whatever packets waited for it.                   *)
StandsBeforeMoving ==
  \A o \in Owners : AutoStand /\ RequireStanding /\ robot.move = "go" /\ robot.by = o
                      => sdk[o].stood
=============================================================================
