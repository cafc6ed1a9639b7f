--------------------------- MODULE SdkDrive_proofs ---------------------------
(***************************************************************************)
(* Proofs about SdkDrive for every timeout, delay, clock step and set of   *)
(* lock files: one owner of the SDK, no motion that an owner has not       *)
(* earned, and the age a motion may reach.  The invariants stand on each   *)
(* other in this order: the lock, the types, who moves the robot, how old  *)
(* the commands on their way are.                                          *)
(***************************************************************************)
EXTENDS SdkDrive, TLAPS

-----------------------------------------------------------------------------
(* The owner lock.                                                         *)

LockTypeOK ==
  /\ path \in Inodes \cup {NoInode}
  /\ fd \in [Owners -> Inodes \cup {NoInode}]
  /\ pc \in [Owners -> Stages]

Held(o) == pc[o] \in {"locked", "owned"}

(* Who has begun has a file open, a file is held by nobody else, and the   *)
(* file of an owner is still the one the path names: it cannot be cleaned  *)
(* up while it is held.                                                    *)
LockInv ==
  /\ LockTypeOK
  /\ \A o \in Owners : pc[o] # "off" => fd[o] # NoInode
  /\ \A o, p \in Owners : Held(o) /\ Held(p) /\ fd[o] = fd[p] => o = p
  /\ \A o \in Owners : pc[o] = "owned" => fd[o] = path

LEMMA OneOwner ==
  ASSUME LockInv  PROVE  SingleOwner
BY DEF LockInv, SingleOwner, Held

LEMMA OpenLockInv ==
  ASSUME LockInv, NEW o \in Owners, OpenLock(o)  PROVE  LockInv'
<1>1. path' \in Inodes /\ (path # NoInode => path' = path)
  BY DEF OpenLock, LockInv, LockTypeOK
<1>2. /\ fd' = [fd EXCEPT ![o] = path'] /\ pc' = [pc EXCEPT ![o] = "opened"]
      /\ pc[o] = "off"
  BY DEF OpenLock, Enter
<1>3. \A p \in Owners : Held(p)' => p # o /\ Held(p) /\ fd'[p] = fd[p] /\ pc'[p] = pc[p]
  BY <1>2 DEF Held, LockInv, LockTypeOK
<1>4. LockTypeOK'
  BY <1>1, <1>2 DEF LockInv, LockTypeOK, Stages
<1>5. \A p \in Owners : pc'[p] = "owned" => pc[p] = "owned" /\ Held(p) /\ Held(p)'
  BY <1>2 DEF Held, LockInv, LockTypeOK
<1>6. \A p \in Owners : pc'[p] = "owned" => fd'[p] = path'
  BY <1>1, <1>3, <1>5, LockAssumption DEF LockInv
<1>7. \A p \in Owners : pc'[p] # "off" => fd'[p] # NoInode
  BY <1>1, <1>2, LockAssumption DEF LockInv, LockTypeOK
<1> QED
  BY <1>3, <1>4, <1>6, <1>7 DEF LockInv

LEMMA TakeLockInv ==
  ASSUME LockInv, NEW o \in Owners, TakeLock(o)  PROVE  LockInv'
<1>1. CASE Holders(fd[o]) = {}
  <2>1. fd' = fd /\ pc' = [pc EXCEPT ![o] = "locked"] /\ path' = path
    BY <1>1 DEF TakeLock, Enter, LockInv, LockTypeOK
  <2>2. \A p \in Owners : Held(p) => fd[p] # fd[o]
    BY <1>1 DEF Holders, Held
  <2>3. \A p \in Owners : p # o => (Held(p)' <=> Held(p))
    BY <2>1 DEF Held, LockInv, LockTypeOK
  <2>4. pc[o] = "opened"
    BY DEF TakeLock
  <2> QED
    BY <2>1, <2>2, <2>3, <2>4 DEF LockInv, LockTypeOK, Stages
<1>2. CASE Holders(fd[o]) # {}
  BY <1>2 DEF TakeLock, Enter, LockInv, LockTypeOK, Held, Stages
<1> QED
  BY <1>1, <1>2

LEMMA OwnLockInv ==
  ASSUME LockInv, NEW o \in Owners, OwnLock(o)  PROVE  LockInv'
<1>1. fd' = fd /\ pc' = [pc EXCEPT ![o] = "owned"] /\ path' = path
  BY DEF OwnLock, Enter, LockInv, LockTypeOK
<1>2. pc[o] = "locked" /\ fd[o] = path
  BY DEF OwnLock
<1>3. \A p \in Owners : Held(p)' <=> Held(p)
  BY <1>1, <1>2 DEF Held, LockInv, LockTypeOK
<1> QED
  BY <1>1, <1>2, <1>3 DEF LockInv, LockTypeOK, Stages

LEMMA ReleaseLockInv ==
  ASSUME LockInv, NEW o \in Owners, ReleaseLock(o)  PROVE  LockInv'
<1>1. /\ fd' = [fd EXCEPT ![o] = NoInode] /\ pc' = [pc EXCEPT ![o] = "off"]
      /\ path' = path
  BY DEF ReleaseLock, Enter
<1>2. \A p \in Owners : Held(p)' => p # o /\ Held(p) /\ fd'[p] = fd[p] /\ pc'[p] = pc[p]
  BY <1>1 DEF Held, LockInv, LockTypeOK
<1> QED
  BY <1>1, <1>2 DEF LockInv, LockTypeOK, Stages

LEMMA CleanUpInv ==
  ASSUME LockInv, CleanUp  PROVE  LockInv'
<1>1. \A o \in Owners : ~ (Held(o) /\ fd[o] = path)
  BY DEF CleanUp, Holders, Held
<1>2. \A o \in Owners : pc[o] # "owned"
  BY <1>1 DEF LockInv, Held
<1> QED
  BY <1>2 DEF CleanUp, LockInv, LockTypeOK, Held

-----------------------------------------------------------------------------
(* What the proofs keep about the drive.                                   *)

OwnerStates ==
  [ready : BOOLEAN, init : 0..MaxInit, waiting : BOOLEAN, cmd : Command,
   age : Waits(CmdTimeout + 1), check : Waits(CheckPeriod), request : Waits(RetryPeriod),
   served : BOOLEAN, stood : BOOLEAN]

ClientStates == [up : BOOLEAN, cmd : Command, age : Waits(CmdTimeout + 1), served : BOOLEAN]

RobotStates ==
  [standing : BOOLEAN, asked : BOOLEAN, move : Command, by : Owners \cup {"nobody"}]

(* Whoever moves the robot runs and is not waiting for it to stand.        *)
Mover ==
  \A o \in Owners : robot.move = "go" /\ robot.by = o => Using(o) /\ ~sdk[o].waiting

(* An owner that sees the robot stand, or waits no longer for it to stand, *)
(* has seen it stand.                                                      *)
SeenStanding ==
  \A o \in Owners :
    Using(o) /\ (robot.standing \/ (AutoStand /\ RequireStanding /\ ~sdk[o].waiting))
      => sdk[o].stood

(* How far n steps of the clock go back, and how old a command may be that *)
(* the watchdog of a node lets pass.                                       *)
Back(n) == ClockStep * n
Allowed == CmdTimeout + Back(MaxSteps)
Relayed == Allowed + MaxDelay + MaxInit

(* The age a node reads off the system clock: short of the truth by no     *)
(* more than the clock was set back, unless it has stopped counting, and   *)
(* then no step of the clock that is left makes the command fresh again.   *)
AgeKept(s) ==
  s.cmd = "go" => \/ go_age <= s.age + Back(steps)
                  \/ s.age + Back(steps) > Allowed

(* How old "go" is wherever it may be on its way to the robot.             *)
AgeInv ==
  /\ AgeKept(client) /\ AgeKept(sdk[Bridge])
  /\ \A o \in Owners : sdk[o].cmd = "go" => sdk[o].ready
  /\ \A m \in net : m.cmd = "go" => go_age <= Allowed + m.age
  /\ sock # << >> => pc[Proxy] = "owned"
  /\ \A i \in 1..Len(sock) : sock[i] = "go" => go_age <= Allowed + MaxDelay + sdk[Proxy].init
  /\ sdk[Proxy].cmd = "go" => \/ go_age <= Relayed + sdk[Proxy].age
                              \/ sdk[Proxy].age > CmdTimeout
  /\ \A o \in Owners :
       robot.move = "go" /\ robot.by = o
         => go_age <= IF sdk[o].served THEN Relayed + CmdTimeout ELSE MaxMotion

(* What is read off a clock that is set back lies no farther back than the *)
(* clock was set.                                                          *)
NotFartherBack ==
  /\ client.age >= -Back(steps)
  /\ \A o \in Owners : /\ sdk[o].age >= -Back(steps)
                        /\ sdk[o].check >= -Back(steps)
                        /\ sdk[o].request >= -Back(steps)

Packets == [cmd : Command, age : 0..MaxDelay]

TypeInv ==
  /\ sdk \in [Owners -> OwnerStates] /\ client \in ClientStates
  /\ net \subseteq Packets /\ sock \in Seq(Command) /\ Len(sock) <= MaxSock
  /\ robot \in RobotStates
  /\ go_age \in 0..(MaxMotion + 1) /\ steps \in 0..MaxSteps
  /\ \A o \in Owners : pc[o] # "owned" => sdk[o] = FreshOwner
  /\ NotFartherBack

Kept == TypeInv /\ Mover /\ SeenStanding /\ AgeInv
DriveInv == LockInv /\ Kept

-----------------------------------------------------------------------------
(* Lemmas about the operators.                                             *)

(* Steps of the clock add up.                                              *)
LEMMA BackFacts ==
  /\ ClockStep \in Nat /\ MaxSteps \in Nat
  /\ \A n \in Nat : Back(n) \in Nat /\ Back(n + 1) = Back(n) + ClockStep
  /\ \A n \in 0..MaxSteps : Back(n) \in Nat /\ Back(n) <= Back(MaxSteps)
  /\ Back(0) = 0
<1>1. ClockStep \in Nat /\ MaxSteps \in Nat
  BY DriveAssumption
<1>2. \A n \in Nat : Back(n) \in Nat /\ Back(n + 1) = Back(n) + ClockStep
  BY <1>1 DEF Back
<1>3. \A n \in 0..MaxSteps : Back(n) \in Nat /\ Back(n) <= Back(MaxSteps)
  BY <1>1 DEF Back
<1> QED
  BY <1>1, <1>2, <1>3 DEF Back

LEMMA WaitsFacts ==
  ASSUME NEW period \in Nat
  PROVE  /\ Waits(period) = -Back(MaxSteps)..(period + Back(MaxSteps))
         /\ Longest(period) = period + Back(MaxSteps)
         /\ Longest(period) \in Waits(period) /\ 0 \in Waits(period)
<1>1. Back(MaxSteps) \in Nat
  BY BackFacts
<1>2. /\ Waits(period) = -Back(MaxSteps)..(period + Back(MaxSteps))
      /\ Longest(period) = period + Back(MaxSteps)
  BY DEF Waits, Longest, Back
<1> QED
  BY <1>1, <1>2

LEMMA ZeroWaits ==
  0 \in Waits(CmdTimeout + 1) /\ 0 \in Waits(CheckPeriod) /\ 0 \in Waits(RetryPeriod)
<1>1. CmdTimeout + 1 \in Nat /\ CheckPeriod \in Nat /\ RetryPeriod \in Nat
  BY DriveAssumption
<1>2. 0 \in Waits(CmdTimeout + 1)
  BY <1>1, WaitsFacts
<1>3. 0 \in Waits(CheckPeriod)
  BY <1>1, WaitsFacts
<1>4. 0 \in Waits(RetryPeriod)
  BY <1>1, WaitsFacts
<1> QED
  BY <1>2, <1>3, <1>4

LEMMA MovedEffect ==
  ASSUME NEW r \in RobotStates, NEW o \in Owners, NEW v \in Command
  PROVE  /\ Moved(r, o, v) \in RobotStates
         /\ Moved(r, o, v).standing = r.standing
         /\ Moved(r, o, v).move = v
         /\ v = "go" => Moved(r, o, v).by = o
BY DEF Moved, RobotStates

LEMMA AskedEffect ==
  ASSUME NEW r \in RobotStates
  PROVE  /\ Asked(r) \in RobotStates
         /\ Asked(r).standing = r.standing /\ Asked(r).move = r.move /\ Asked(r).by = r.by
BY DEF Asked, RobotStates

LEMMA FreshType == FreshOwner \in OwnerStates
<1>1. 0 \in 0..MaxInit
  BY DriveAssumption
<1>2. 0 \in Waits(CmdTimeout + 1) /\ 0 \in Waits(CheckPeriod) /\ 0 \in Waits(RetryPeriod)
  BY ZeroWaits
<1> QED
  BY <1>1, <1>2 DEF FreshOwner, OwnerStates, Command

(* A check of the stand-up changes nothing of a command, ends the waiting  *)
(* only when the robot stands, and moves the robot by a zero alone.        *)
LEMMA StandupCheckEffect ==
  ASSUME NEW o \in Owners, NEW s \in OwnerStates, NEW r \in RobotStates, NEW zero \in BOOLEAN,
         NEW w, w = StandupCheck(o, s, r, zero)
  PROVE  /\ w.s \in OwnerStates /\ w.r \in RobotStates
         /\ w.s.cmd = s.cmd /\ w.s.age = s.age /\ w.s.init = s.init
         /\ w.s.ready = s.ready /\ w.s.served = s.served /\ w.s.stood = s.stood
         /\ w.s.check \in {s.check, 0} /\ w.s.request \in {s.request, 0}
         /\ w.r.standing = r.standing
         /\ w.r.move = "go" => w.r.move = r.move /\ w.r.by = r.by
         /\ ~s.waiting => w.s = s /\ w.r = r
         /\ w.s.waiting => s.waiting
         /\ s.waiting /\ ~w.s.waiting => r.standing
<1>1. 0 \in Waits(CheckPeriod) /\ 0 \in Waits(RetryPeriod)
  BY ZeroWaits
<1>2. "zero" \in Command
  BY DEF Command
<1> DEFINE stands == [s EXCEPT !.waiting = FALSE, !.check = 0, !.request = 0]
           asks   == [s EXCEPT !.check = 0, !.request = 0]
           waits  == [s EXCEPT !.check = 0]
<1>3. CASE ~s.waiting \/ s.check < CheckPeriod
  <2>1. w = [s |-> s, r |-> r]
    BY <1>3 DEF StandupCheck
  <2> QED
    BY <2>1, <1>3
<1>4. CASE ~(~s.waiting \/ s.check < CheckPeriod) /\ r.standing
  <2>1. w = [s |-> stands, r |-> IF zero THEN Moved(r, o, "zero") ELSE r]
    BY <1>4 DEF StandupCheck
  <2>2. /\ stands \in OwnerStates /\ ~stands.waiting
        /\ stands.cmd = s.cmd /\ stands.age = s.age /\ stands.init = s.init
        /\ stands.ready = s.ready /\ stands.served = s.served /\ stands.stood = s.stood
        /\ stands.check = 0 /\ stands.request = 0
    BY <1>1 DEF OwnerStates
  <2>3. w.s = stands /\ w.r = IF zero THEN Moved(r, o, "zero") ELSE r
    BY <2>1
  <2>4. /\ w.r \in RobotStates /\ w.r.standing = r.standing
        /\ w.r.move = "go" => w.r.move = r.move /\ w.r.by = r.by
    BY <2>3, <1>2, MovedEffect
  <2> HIDE DEF stands
  <2> QED
    BY <2>2, <2>3, <2>4, <1>4
<1>5. CASE ~(~s.waiting \/ s.check < CheckPeriod) /\ ~r.standing /\ s.request >= RetryPeriod
  <2>1. w = [s |-> asks, r |-> Asked(r)]
    BY <1>5 DEF StandupCheck
  <2>2. /\ asks \in OwnerStates /\ asks.waiting = s.waiting
        /\ asks.cmd = s.cmd /\ asks.age = s.age /\ asks.init = s.init
        /\ asks.ready = s.ready /\ asks.served = s.served /\ asks.stood = s.stood
        /\ asks.check = 0 /\ asks.request = 0
    BY <1>1 DEF OwnerStates
  <2>3. w.s = asks /\ w.r = Asked(r)
    BY <2>1
  <2> HIDE DEF asks
  <2> QED
    BY <2>2, <2>3, <1>5, AskedEffect
<1>6. CASE ~(~s.waiting \/ s.check < CheckPeriod) /\ ~r.standing /\ ~(s.request >= RetryPeriod)
  <2>1. w = [s |-> waits, r |-> r]
    BY <1>6 DEF StandupCheck
  <2>2. /\ waits \in OwnerStates /\ waits.waiting = s.waiting
        /\ waits.cmd = s.cmd /\ waits.age = s.age /\ waits.init = s.init
        /\ waits.ready = s.ready /\ waits.served = s.served /\ waits.stood = s.stood
        /\ waits.check = 0 /\ waits.request = s.request
    BY <1>1 DEF OwnerStates
  <2>3. w.s = waits /\ w.r = r
    BY <2>1
  <2> HIDE DEF waits
  <2> QED
    BY <2>2, <2>3, <1>6
<1> QED
  BY <1>3, <1>4, <1>5, <1>6

(* In a tick an age grows by one or has stopped counting.                  *)
LEMMA UpToEffect ==
  ASSUME NEW limit \in Int, NEW n \in Int, n <= limit
  PROVE  /\ UpTo(limit, n) \in Int /\ n <= UpTo(limit, n) /\ UpTo(limit, n) <= limit
         /\ UpTo(limit, n) = n + 1 \/ (n = limit /\ UpTo(limit, n) = n)
BY DEF UpTo

LEMMA MaxMotionFacts ==
  /\ Back(MaxSteps) \in Nat /\ Allowed \in Nat /\ Relayed \in Nat /\ MaxMotion \in Nat
  /\ Allowed = CmdTimeout + Back(MaxSteps) /\ Relayed = Allowed + MaxDelay + MaxInit
  /\ MaxMotion = Relayed + CmdTimeout + 1
  /\ CmdTimeout \in Nat /\ CheckPeriod \in Nat /\ RetryPeriod \in Nat
  /\ MaxDelay \in Nat /\ MaxInit \in Nat /\ MaxSock \in Nat
  /\ ClockStep \in Nat /\ MaxSteps \in Nat
<1>1. Back(MaxSteps) \in Nat
  BY BackFacts
<1>2. Allowed = CmdTimeout + Back(MaxSteps) /\ Relayed = Allowed + MaxDelay + MaxInit
  BY DEF Allowed, Relayed
<1>3. MaxMotion = Relayed + CmdTimeout + 1
  BY <1>1, <1>2, DriveAssumption DEF MaxMotion, Back
<1> QED
  BY <1>1, <1>2, <1>3, DriveAssumption

(* What a tick does to a command that is kept, with the age a number in    *)
(* the range the watchdog's period gives it.                               *)
LEMMA OlderEffect ==
  ASSUME NEW s \in OwnerStates \cup ClientStates, NEW t, t = Older(s)
  PROVE  /\ s \in OwnerStates => t \in OwnerStates
         /\ s \in ClientStates => t \in ClientStates
         /\ t.cmd = s.cmd /\ ~t.served
         /\ s.age >= 0 \/ t.age >= s.age
         /\ s.age >= 0 => t.age >= 0
         /\ s.cmd = "go" => \/ t.age = s.age + 1
                            \/ t.age = s.age /\ s.age = CmdTimeout + 1 + Back(MaxSteps)
         /\ s \in OwnerStates => /\ t.ready = s.ready /\ t.waiting = s.waiting
                                 /\ t.stood = s.stood /\ t.init = s.init
                                 /\ t.check = s.check /\ t.request = s.request
<1> DEFINE age == IF s.cmd = "go" THEN UpTo(Longest(CmdTimeout + 1), s.age) ELSE 0
<1>1. CmdTimeout + 1 \in Nat /\ Back(MaxSteps) \in Nat
  BY MaxMotionFacts
<1>2. /\ Waits(CmdTimeout + 1) = -Back(MaxSteps)..(CmdTimeout + 1 + Back(MaxSteps))
      /\ Longest(CmdTimeout + 1) = CmdTimeout + 1 + Back(MaxSteps)
  BY <1>1, WaitsFacts
<1>3. s.age \in Waits(CmdTimeout + 1)
  BY DEF OwnerStates, ClientStates
<1>4. /\ age \in Waits(CmdTimeout + 1)
      /\ s.age >= 0 \/ age >= s.age
      /\ s.age >= 0 => age >= 0
      /\ s.cmd = "go" => \/ age = s.age + 1
                         \/ age = s.age /\ s.age = CmdTimeout + 1 + Back(MaxSteps)
  BY <1>1, <1>2, <1>3 DEF UpTo
<1>5. t = [s EXCEPT !.age = age, !.served = FALSE]
  BY DEF Older
<1> HIDE DEF age
<1> QED
  BY <1>4, <1>5 DEF OwnerStates, ClientStates

LEMMA OwnerOlderEffect ==
  ASSUME NEW s \in OwnerStates, NEW t, t = OwnerOlder(s)
  PROVE  /\ t \in OwnerStates
         /\ t.cmd = s.cmd /\ ~t.served /\ t.age = Older(s).age
         /\ t.ready = s.ready /\ t.waiting = s.waiting /\ t.stood = s.stood /\ t.init = s.init
         /\ t.check >= s.check /\ t.request >= s.request
<1> DEFINE c == UpTo(Longest(CheckPeriod), s.check)
           r == UpTo(Longest(RetryPeriod), s.request)
           u == Older(s)
<1>1. /\ u \in OwnerStates /\ u.cmd = s.cmd /\ ~u.served /\ u.ready = s.ready
      /\ u.waiting = s.waiting /\ u.stood = s.stood /\ u.init = s.init
      /\ u.check = s.check /\ u.request = s.request
  BY OlderEffect
<1>2. CheckPeriod \in Nat /\ RetryPeriod \in Nat /\ Back(MaxSteps) \in Nat
  BY MaxMotionFacts
<1>3. /\ Waits(CheckPeriod) = -Back(MaxSteps)..(CheckPeriod + Back(MaxSteps))
      /\ Longest(CheckPeriod) = CheckPeriod + Back(MaxSteps)
      /\ Waits(RetryPeriod) = -Back(MaxSteps)..(RetryPeriod + Back(MaxSteps))
      /\ Longest(RetryPeriod) = RetryPeriod + Back(MaxSteps)
  BY <1>2, WaitsFacts
<1>4. s.check \in Waits(CheckPeriod) /\ s.request \in Waits(RetryPeriod)
  BY DEF OwnerStates
<1>5. c \in Waits(CheckPeriod) /\ c >= s.check /\ r \in Waits(RetryPeriod) /\ r >= s.request
  BY <1>2, <1>3, <1>4 DEF UpTo
<1>6. s.check \in Int /\ s.request \in Int
  BY <1>2, <1>3, <1>4
<1>7. /\ t \in OwnerStates
      /\ t.cmd = s.cmd /\ ~t.served /\ t.age = u.age
      /\ t.ready = s.ready /\ t.waiting = s.waiting /\ t.stood = s.stood /\ t.init = s.init
      /\ t.check >= s.check /\ t.request >= s.request
  <2>1. CASE ~s.waiting
    <3>1. t = u
      BY <2>1 DEF OwnerOlder
    <3> HIDE DEF u
    <3> QED
      BY <3>1, <1>1, <1>6
  <2>2. CASE s.waiting
    <3>1. t = [u EXCEPT !.check = c, !.request = r]
      BY <1>1, <2>2 DEF OwnerOlder
    <3> HIDE DEF u, c, r
    <3> QED
      BY <3>1, <1>1, <1>5 DEF OwnerStates
  <2> QED
    BY <2>1, <2>2
<1> QED
  BY <1>7

LEMMA SetBackEffect ==
  ASSUME NEW s, s.age \in Int, NEW t, t = SetBack(s),
         s \in OwnerStates \/ s \in ClientStates, NEW low \in Int, s.age >= low,
         low - ClockStep >= -Back(MaxSteps)
  PROVE  /\ s \in OwnerStates => t \in OwnerStates
         /\ s \in ClientStates => t \in ClientStates
         /\ t.age >= low - ClockStep
         /\ t.cmd = s.cmd /\ t.served = s.served
         /\ s.cmd = "go" => t.age = s.age - ClockStep
         /\ s \in OwnerStates => /\ t.ready = s.ready /\ t.waiting = s.waiting
                                 /\ t.stood = s.stood /\ t.init = s.init
                                 /\ t.check = s.check /\ t.request = s.request
<1>1. ClockStep \in Nat /\ Back(MaxSteps) \in Nat /\ CmdTimeout + 1 \in Nat
  BY MaxMotionFacts
<1>2. Waits(CmdTimeout + 1) = -Back(MaxSteps)..(CmdTimeout + 1 + Back(MaxSteps))
  BY <1>1, WaitsFacts
<1>3. s.age \in Waits(CmdTimeout + 1)
  BY DEF OwnerStates, ClientStates
<1>4. s.age - ClockStep \in Waits(CmdTimeout + 1) /\ s.age - ClockStep >= low - ClockStep
  BY <1>1, <1>2, <1>3
<1>5. CASE s.cmd = "go"
  <2>1. t = [s EXCEPT !.age = s.age - ClockStep]
    BY <1>5 DEF SetBack
  <2> QED
    BY <2>1, <1>4 DEF OwnerStates, ClientStates
<1>6. CASE s.cmd # "go"
  BY <1>1, <1>6 DEF SetBack
<1> QED
  BY <1>5, <1>6

LEMMA ReceivedEffect ==
  ASSUME NEW s \in OwnerStates \cup ClientStates, NEW v \in Command, NEW t, t = Received(s, v)
  PROVE  /\ s \in OwnerStates => t \in OwnerStates
         /\ s \in ClientStates => t \in ClientStates
         /\ t.cmd = v /\ t.age = 0 /\ t.served = s.served
         /\ s \in OwnerStates => /\ t.ready = s.ready /\ t.waiting = s.waiting
                                 /\ t.stood = s.stood /\ t.init = s.init
                                 /\ t.check = s.check /\ t.request = s.request
<1>1. 0 \in Waits(CmdTimeout + 1)
  BY ZeroWaits
<1> QED
  BY <1>1 DEF Received, OwnerStates, ClientStates

LEMMA WatchedEffect ==
  ASSUME NEW s, s.cmd \in Command
  PROVE  Watched(s) \in Command /\ (Watched(s) = "go" => s.cmd = "go" /\ s.age <= CmdTimeout)
BY DEF Watched, Command

(* Numbers the invariants speak of, in one place.                          *)
LEMMA KeptNumbers ==
  ASSUME TypeInv
  PROVE  /\ steps \in 0..MaxSteps /\ Back(steps) \in Nat /\ Back(steps) <= Back(MaxSteps)
         /\ go_age \in Nat /\ client.age \in Int
         /\ \A o \in Owners : /\ sdk[o] \in OwnerStates /\ sdk[o].age \in Int
                              /\ sdk[o].check \in Int /\ sdk[o].request \in Int
                              /\ sdk[o].init \in 0..MaxInit /\ sdk[o].cmd \in Command
         /\ Bridge \in Owners /\ Proxy \in Owners /\ Bridge # Proxy
<1>1. steps \in 0..MaxSteps /\ Back(steps) \in Nat /\ Back(steps) <= Back(MaxSteps)
  BY BackFacts DEF TypeInv
<1>2. go_age \in Nat
  BY MaxMotionFacts DEF TypeInv
<1>3. /\ Waits(CmdTimeout + 1) \subseteq Int
      /\ Waits(CheckPeriod) \subseteq Int /\ Waits(RetryPeriod) \subseteq Int
  <2>1. \A n \in Nat : Waits(n) \subseteq Int
    BY DEF Waits
  <2>2. CmdTimeout + 1 \in Nat /\ CheckPeriod \in Nat /\ RetryPeriod \in Nat
    BY MaxMotionFacts
  <2> QED
    BY <2>1, <2>2
<1> QED
  BY <1>1, <1>2, <1>3, DriveAssumption DEF TypeInv, OwnerStates, ClientStates

-----------------------------------------------------------------------------
(* What each action keeps.                                                 *)

LEMMA LockStepKeeps ==
  ASSUME LockInv, Kept, LockStep  PROVE  Kept'
<1>1. UNCHANGED <<sdk, client, net, sock, robot, go_age, steps>>
  BY DEF LockStep, driveVars
<1>2. \A o \in Owners : pc[o] = "owned" => pc'[o] = "owned"
  BY DEF LockStep, CleanUp, OpenLock, TakeLock, OwnLock, Enter, LockInv, LockTypeOK
<1>3. \A o \in Owners : sdk[o].ready => pc[o] = "owned"
  BY DEF Kept, TypeInv, FreshOwner
<1>4. \A o \in Owners : Using(o)' <=> Using(o)
  BY <1>1, <1>2, <1>3 DEF Using
<1>5. TypeInv'
  BY <1>1, <1>2 DEF Kept, TypeInv, NotFartherBack
<1>6. Mover' /\ SeenStanding'
  BY <1>1, <1>4 DEF Kept, Mover, SeenStanding
<1>7. AgeInv'
  <2>1. AgeInv
    BY DEF Kept
  <2>2. sock' # << >> => pc'[Proxy] = "owned"
    BY <2>1, <1>1, <1>2, DriveAssumption DEF AgeInv
  <2> QED
    BY <2>1, <2>2, <1>1 DEF AgeInv, AgeKept
<1> QED
  BY <1>5, <1>6, <1>7 DEF Kept

LEMMA StartDriveKeeps ==
  ASSUME LockInv, Kept, NEW o \in Owners, StartDrive(o)  PROVE  Kept'
<1> DEFINE wait  == AutoStand /\ RequireStanding
           check == IF wait THEN Longest(CheckPeriod) ELSE 0
           stood == sdk[o].stood \/ robot.standing
           s     == [sdk[o] EXCEPT !.ready = TRUE, !.waiting = wait, !.check = check,
                                   !.stood = stood]
<1>1. /\ pc[o] = "owned" /\ ~sdk[o].ready
      /\ UNCHANGED <<lockVars, client, net, sock, go_age, steps>>
  BY DEF StartDrive
<1>2. sdk' = [sdk EXCEPT ![o] = s]
  BY DEF StartDrive, Kept, TypeInv
<1>3. /\ robot' \in RobotStates /\ robot'.standing = robot.standing
      /\ robot'.move = "go" => robot.move = "go" /\ robot'.by = robot.by
  <2>1. robot \in RobotStates /\ "zero" \in Command /\ "zero" # "go"
    BY DEF Kept, TypeInv, Command
  <2> QED
    BY <2>1, MovedEffect, AskedEffect DEF StartDrive
<1>4. /\ s \in OwnerStates /\ s.ready /\ s.waiting = wait /\ s.stood = stood /\ s.init = sdk[o].init
      /\ s.cmd = sdk[o].cmd /\ s.age = sdk[o].age /\ s.served = sdk[o].served
      /\ s.check >= -Back(steps) /\ s.request >= -Back(steps)
  <2>1. sdk[o] \in OwnerStates /\ robot \in RobotStates /\ sdk[o].request >= -Back(steps)
    BY DEF Kept, TypeInv, NotFartherBack
  <2>2. wait \in BOOLEAN /\ stood \in BOOLEAN
    BY <2>1, DriveAssumption DEF OwnerStates, RobotStates
  <2>3. check \in Waits(CheckPeriod) /\ check >= -Back(steps)
    <3> CheckPeriod \in Nat /\ Back(MaxSteps) \in Nat
      BY MaxMotionFacts
    <3>1. Longest(CheckPeriod) \in Waits(CheckPeriod) /\ 0 \in Waits(CheckPeriod)
      BY WaitsFacts
    <3>2. Longest(CheckPeriod) = CheckPeriod + Back(MaxSteps)
      BY WaitsFacts
    <3>3. Back(steps) \in Nat
      BY KeptNumbers DEF Kept
    <3>4. CASE wait
      BY <3>1, <3>2, <3>3, <3>4
    <3>5. CASE ~wait
      BY <3>1, <3>3, <3>5
    <3> QED
      BY <3>4, <3>5
  <2> HIDE DEF wait, check, stood
  <2> QED
    BY <2>1, <2>2, <2>3 DEF OwnerStates
<1> HIDE DEF s
<1>5. /\ \A p \in Owners : p # o => sdk'[p] = sdk[p]
      /\ sdk'[o] = s /\ sdk \in [Owners -> OwnerStates] /\ sdk' \in [Owners -> OwnerStates]
  BY <1>2, <1>4 DEF Kept, TypeInv
<1>6. TypeInv'
  BY <1>1, <1>3, <1>4, <1>5 DEF Kept, TypeInv, NotFartherBack, lockVars
<1>7. Mover' /\ SeenStanding'
  BY <1>1, <1>3, <1>4, <1>5 DEF Kept, Mover, SeenStanding, Using, lockVars
<1>8. AgeInv'
  <2>1. AgeInv /\ Bridge \in Owners /\ Proxy \in Owners
    BY DriveAssumption DEF Kept
  <2>2. \A p \in Owners : /\ sdk'[p].cmd = sdk[p].cmd /\ sdk'[p].age = sdk[p].age
                           /\ sdk'[p].init = sdk[p].init /\ sdk'[p].served = sdk[p].served
    BY <1>4, <1>5
  <2>3. \A p \in Owners : sdk'[p].cmd = "go" => sdk'[p].ready
    BY <1>4, <1>5, <2>1 DEF AgeInv
  <2> QED
    BY <1>1, <1>3, <2>1, <2>2, <2>3 DEF AgeInv, AgeKept, lockVars
<1> QED
  BY <1>6, <1>7, <1>8 DEF Kept

(* A process that leaves or dies takes its state and the proxy's socket    *)
(* with it.                                                                *)
LEMMA ClosedEffect ==
  ASSUME LockInv, Kept, NEW o \in Owners, Closed(o), UNCHANGED <<client, net, go_age, steps>>,
         robot' \in RobotStates, robot'.standing = robot.standing,
         robot'.move = "go" =>
           \/ robot.move = "go" /\ robot'.by = robot.by /\ robot.by # o
           \/ robot'.by \notin Owners
  PROVE  Kept'
<1>1. /\ pc' = [pc EXCEPT ![o] = "off"] /\ sdk' = [sdk EXCEPT ![o] = FreshOwner]
      /\ sock' = IF o = Proxy THEN << >> ELSE sock
  BY DEF Closed, ReleaseLock, Enter
<1>2. /\ \A p \in Owners : p # o => sdk'[p] = sdk[p] /\ pc'[p] = pc[p]
      /\ sdk'[o] = FreshOwner /\ pc'[o] = "off" /\ sdk' \in [Owners -> OwnerStates]
  BY <1>1, FreshType DEF Kept, TypeInv, LockInv, LockTypeOK
<1>3. /\ FreshOwner.age = 0 /\ FreshOwner.check = 0 /\ FreshOwner.request = 0
      /\ ~FreshOwner.ready /\ FreshOwner.cmd = "zero"
  BY DEF FreshOwner
<1>4. Back(steps) \in Nat
  BY KeptNumbers DEF Kept
<1>5. sock' \in Seq(Command) /\ Len(sock') <= MaxSock
  BY <1>1, MaxMotionFacts DEF Kept, TypeInv
<1>6. TypeInv'
  BY <1>2, <1>3, <1>4, <1>5 DEF Kept, TypeInv, NotFartherBack
<1>7. Mover' /\ SeenStanding'
  BY <1>2, <1>3 DEF Kept, Mover, SeenStanding, Using
<1>8. AgeInv'
  <2>1. AgeInv /\ Bridge \in Owners /\ Proxy \in Owners
    BY DriveAssumption DEF Kept
  <2>2. AgeKept(client)' /\ AgeKept(sdk[Bridge])'
    BY <1>2, <1>3, <2>1 DEF AgeInv, AgeKept
  <2>3. /\ sock' # << >> => pc'[Proxy] = "owned"
        /\ \A i \in 1..Len(sock') :
             sock'[i] = "go" => go_age' <= Allowed + MaxDelay + sdk'[Proxy].init
    <3>1. CASE o = Proxy
      BY <3>1, <1>1
    <3>2. CASE o # Proxy
      BY <3>2, <1>1, <1>2, <2>1 DEF AgeInv
    <3> QED
      BY <3>1, <3>2
  <2>4. sdk'[Proxy].cmd = "go" => \/ go_age' <= Relayed + sdk'[Proxy].age
                                 \/ sdk'[Proxy].age > CmdTimeout
    BY <1>2, <1>3, <2>1 DEF AgeInv
  <2>5. \A p \in Owners :
          robot'.move = "go" /\ robot'.by = p
            => go_age' <= IF sdk'[p].served THEN Relayed + CmdTimeout ELSE MaxMotion
    BY <1>2, <2>1 DEF AgeInv
  <2> QED
    BY <1>2, <1>3, <2>1, <2>2, <2>3, <2>4, <2>5 DEF AgeInv
<1> QED
  BY <1>6, <1>7, <1>8 DEF Kept

LEMMA StopDriveKeeps ==
  ASSUME LockInv, Kept, NEW o \in Owners, StopDrive(o)  PROVE  Kept'
<1>1. robot \in RobotStates /\ "zero" \in Command
  BY DEF Kept, TypeInv, Command
<1>2. CASE sdk[o].waiting
  <2>1. robot' = robot
    BY <1>2 DEF StopDrive
  <2>2. ~ (robot.move = "go" /\ robot.by = o)
    BY <1>2 DEF Kept, Mover
  <2> QED
    BY <1>1, <2>1, <2>2, ClosedEffect DEF StopDrive
<1>3. CASE ~sdk[o].waiting
  <2>1. robot' = Moved(robot, o, "zero")
    BY <1>3 DEF StopDrive
  <2>2. robot' \in RobotStates /\ robot'.standing = robot.standing /\ robot'.move # "go"
    BY <1>1, <2>1, MovedEffect
  <2> QED
    BY <2>2, ClosedEffect DEF StopDrive
<1> QED
  BY <1>2, <1>3

LEMMA LoseOwnerKeeps ==
  ASSUME LockInv, Kept, NEW o \in Owners, LoseOwner(o)  PROVE  Kept'
<1>1. robot \in RobotStates /\ "nobody" \notin Owners
  BY DriveAssumption DEF Kept, TypeInv
<1>2. /\ robot' \in RobotStates /\ robot'.standing = robot.standing
      /\ robot.by = o => robot'.by = "nobody"
      /\ robot.by # o => robot' = robot
  BY <1>1 DEF LoseOwner, RobotStates
<1> QED
  BY <1>1, <1>2, ClosedEffect DEF LoseOwner

(* A timer of an owner: it keeps its command and its age, and has served   *)
(* the period; it moves the robot only when it need not wait, and then by  *)
(* a command the watchdog lets pass.                                       *)
LEMMA ServedKeeps ==
  ASSUME LockInv, Kept, NEW o \in Owners, Using(o), NEW s \in OwnerStates,
         sdk' = [sdk EXCEPT ![o] = s], UNCHANGED <<lockVars, client, net, go_age, steps>>,
         s.ready, s.served, s.init = sdk[o].init, s.stood = sdk[o].stood,
         s.check >= -Back(steps), s.request >= -Back(steps), s.age >= -Back(steps),
         s.waiting => sdk[o].waiting, sdk[o].waiting /\ ~s.waiting => robot.standing,
         sock' \in Seq(Command), Len(sock') <= MaxSock,
         \A i \in 1..Len(sock') : \E j \in 1..Len(sock) : sock'[i] = sock[j],
         o = Bridge => AgeKept(s),
         o = Proxy /\ s.cmd = "go" => \/ go_age <= Relayed + s.age
                                      \/ s.age > CmdTimeout,
         robot' \in RobotStates, robot'.standing = robot.standing,
         robot'.move = "go" =>
            \/ robot.move = "go" /\ robot'.by = robot.by /\ (robot.by = o => sdk[o].served)
            \/ ~s.waiting /\ robot'.by = o /\ go_age <= Relayed + CmdTimeout
  PROVE  Kept'
<1>1. /\ \A p \in Owners : p # o => sdk'[p] = sdk[p]
      /\ sdk'[o] = s /\ sdk' \in [Owners -> OwnerStates] /\ pc' = pc
  BY DEF Kept, TypeInv, lockVars
<1>2. /\ pc[o] = "owned" /\ sdk[o].ready
  BY DEF Using
<1>3. TypeInv'
  BY <1>1, <1>2 DEF Kept, TypeInv, NotFartherBack
<1>4. Mover' /\ SeenStanding'
  BY <1>1, <1>2 DEF Kept, Mover, SeenStanding, Using
<1>5. AgeInv'
  <2>1. AgeInv /\ Bridge \in Owners /\ Proxy \in Owners
    BY DriveAssumption DEF Kept
  <2>2. AgeKept(client)' /\ AgeKept(sdk[Bridge])'
    BY <1>1, <2>1 DEF AgeInv, AgeKept
  <2>3. /\ sock' # << >> => pc'[Proxy] = "owned"
        /\ \A i \in 1..Len(sock') :
             sock'[i] = "go" => go_age' <= Allowed + MaxDelay + sdk'[Proxy].init
    <3>1. sdk'[Proxy].init = sdk[Proxy].init
      BY <1>1, <2>1
    <3>2. sock' # << >> => sock # << >>
      BY DEF Kept, TypeInv
    <3> QED
      BY <1>1, <2>1, <3>1, <3>2 DEF AgeInv
  <2>4. sdk'[Proxy].cmd = "go" => \/ go_age' <= Relayed + sdk'[Proxy].age
                                 \/ sdk'[Proxy].age > CmdTimeout
    BY <1>1, <2>1 DEF AgeInv
  <2>5. \A p \in Owners :
          robot'.move = "go" /\ robot'.by = p
            => go_age' <= IF sdk'[p].served THEN Relayed + CmdTimeout ELSE MaxMotion
    <3>1. CASE robot'.move = "go" /\ ~ (robot.move = "go" /\ robot'.by = robot.by)
      BY <1>1, <3>1
    <3>2. CASE robot'.move = "go" /\ robot.move = "go" /\ robot'.by = robot.by
      BY <1>1, <2>1, <3>2 DEF AgeInv
    <3> QED
      BY <3>1, <3>2
  <2> QED
    BY <1>1, <2>1, <2>2, <2>3, <2>4, <2>5 DEF AgeInv
<1> QED
  BY <1>3, <1>4, <1>5 DEF Kept

LEMMA BridgeTimerKeeps ==
  ASSUME LockInv, Kept, BridgeTimer  PROVE  Kept'
<1> DEFINE s == [sdk[Bridge] EXCEPT !.served = TRUE]
           w == StandupCheck(Bridge, s, robot, SendZeroOnStart)
<1>1. /\ Using(Bridge) /\ ~sdk[Bridge].served
      /\ sdk' = [sdk EXCEPT ![Bridge] = w.s]
      /\ robot' = IF s.waiting THEN w.r ELSE Moved(robot, Bridge, Watched(s))
      /\ UNCHANGED <<lockVars, client, net, sock, go_age, steps>>
  BY DEF BridgeTimer
<1>2. /\ Bridge \in Owners /\ Bridge # Proxy /\ sdk[Bridge] \in OwnerStates
      /\ robot \in RobotStates /\ SendZeroOnStart \in BOOLEAN
  BY DriveAssumption DEF Kept, TypeInv
<1>3. /\ s \in OwnerStates /\ s.served /\ s.cmd = sdk[Bridge].cmd /\ s.age = sdk[Bridge].age
      /\ s.init = sdk[Bridge].init /\ s.ready = sdk[Bridge].ready /\ s.stood = sdk[Bridge].stood
      /\ s.waiting = sdk[Bridge].waiting /\ s.check = sdk[Bridge].check
      /\ s.request = sdk[Bridge].request
  BY <1>2 DEF OwnerStates
<1> HIDE DEF s
<1>4. /\ w.s \in OwnerStates /\ w.r \in RobotStates
      /\ w.s.cmd = s.cmd /\ w.s.age = s.age /\ w.s.init = s.init
      /\ w.s.ready = s.ready /\ w.s.served = s.served /\ w.s.stood = s.stood
      /\ w.s.check \in {s.check, 0} /\ w.s.request \in {s.request, 0}
      /\ w.r.standing = robot.standing
      /\ w.r.move = "go" => w.r.move = robot.move /\ w.r.by = robot.by
      /\ ~s.waiting => w.s = s /\ w.r = robot
      /\ w.s.waiting => s.waiting
      /\ s.waiting /\ ~w.s.waiting => robot.standing
  BY <1>2, <1>3, StandupCheckEffect
<1> HIDE DEF w
<1>5. /\ AgeKept(sdk[Bridge]) /\ sdk[Bridge].age \in Int /\ go_age \in Nat /\ Back(steps) \in Nat
      /\ Back(steps) <= Back(MaxSteps)
  BY <1>2, KeptNumbers DEF Kept, AgeInv
<1>6. AgeKept(w.s)
  BY <1>3, <1>4, <1>5 DEF AgeKept
<1>7. Watched(s) \in Command /\ (Watched(s) = "go" => s.cmd = "go" /\ s.age <= CmdTimeout)
  BY <1>3, WatchedEffect DEF OwnerStates
<1>8. Watched(s) = "go" => go_age <= Relayed + CmdTimeout
  BY <1>3, <1>5, <1>7, MaxMotionFacts DEF AgeKept
<1>9. /\ robot' \in RobotStates /\ robot'.standing = robot.standing
      /\ robot'.move = "go" =>
            \/ robot.move = "go" /\ robot'.by = robot.by /\ (robot.by = Bridge => sdk[Bridge].served)
            \/ ~w.s.waiting /\ robot'.by = Bridge /\ go_age <= Relayed + CmdTimeout
  <2>1. CASE s.waiting
    <3>1. ~ (robot.move = "go" /\ robot.by = Bridge)
      BY <2>1, <1>2, <1>3 DEF Kept, Mover
    <3> QED
      BY <2>1, <3>1, <1>1, <1>4
  <2>2. CASE ~s.waiting
    BY <2>2, <1>1, <1>2, <1>4, <1>7, <1>8, MovedEffect
  <2> QED
    BY <2>1, <2>2
<1>10. /\ w.s.check >= -Back(steps) /\ w.s.request >= -Back(steps) /\ w.s.age >= -Back(steps)
  BY <1>2, <1>3, <1>4, <1>5 DEF Kept, TypeInv, NotFartherBack
<1>11. sock' \in Seq(Command) /\ Len(sock') <= MaxSock
       /\ \A i \in 1..Len(sock') : \E j \in 1..Len(sock) : sock'[i] = sock[j]
  BY <1>1 DEF Kept, TypeInv
<1>12. sdk[Bridge].ready
  BY <1>1 DEF Using
<1> QED
  BY <1>1, <1>2, <1>3, <1>4, <1>6, <1>9, <1>10, <1>11, <1>12, ServedKeeps

LEMMA BridgeQueryFailsKeeps ==
  ASSUME LockInv, Kept, BridgeQueryFails  PROVE  Kept'
<1> DEFINE s == [sdk[Bridge] EXCEPT !.served = TRUE, !.check = 0]
<1>1. /\ Using(Bridge) /\ sdk[Bridge].waiting
      /\ UNCHANGED <<lockVars, client, net, sock, robot, go_age, steps>>
  BY DEF BridgeQueryFails
<1>2. /\ Bridge \in Owners /\ Bridge # Proxy /\ sdk[Bridge] \in OwnerStates
      /\ robot \in RobotStates /\ sdk \in [Owners -> OwnerStates]
      /\ 0 \in Waits(CheckPeriod)
  BY DriveAssumption, ZeroWaits DEF Kept, TypeInv
<1>3. /\ s \in OwnerStates /\ s.served /\ s.cmd = sdk[Bridge].cmd /\ s.age = sdk[Bridge].age
      /\ s.init = sdk[Bridge].init /\ s.ready = sdk[Bridge].ready /\ s.stood = sdk[Bridge].stood
      /\ s.waiting = sdk[Bridge].waiting /\ s.check = 0
      /\ s.request = sdk[Bridge].request
  BY <1>2 DEF OwnerStates
<1>4. sdk' = [sdk EXCEPT ![Bridge] = s]
  BY <1>2 DEF BridgeQueryFails
<1> HIDE DEF s
<1>5. AgeKept(s) /\ Back(steps) \in Nat
  BY <1>3, KeptNumbers DEF Kept, AgeInv, AgeKept
<1>6. s.check >= -Back(steps) /\ s.request >= -Back(steps) /\ s.age >= -Back(steps)
  BY <1>2, <1>3, <1>5 DEF Kept, TypeInv, NotFartherBack
<1>7. ~ (robot.move = "go" /\ robot.by = Bridge)
  BY <1>1, <1>2 DEF Kept, Mover
<1>8. sock' \in Seq(Command) /\ Len(sock') <= MaxSock
      /\ \A i \in 1..Len(sock') : \E j \in 1..Len(sock) : sock'[i] = sock[j]
  BY <1>1 DEF Kept, TypeInv
<1>9. sdk[Bridge].ready
  BY <1>1 DEF Using
<1> QED
  BY <1>1, <1>2, <1>3, <1>4, <1>5, <1>6, <1>7, <1>8, <1>9, ServedKeeps

LEMMA ProxyLoopKeeps ==
  ASSUME LockInv, Kept, ProxyLoop  PROVE  Kept'
<1> DEFINE heard == IF sock = << >> THEN sdk[Proxy] ELSE Received(sdk[Proxy], Head(sock))
           w     == StandupCheck(Proxy, heard, robot, TRUE)
           sends == ~w.s.waiting /\ ~w.s.served
           s     == [w.s EXCEPT !.served = TRUE]
<1>1. /\ Using(Proxy)
      /\ sock' = IF sock = << >> THEN sock ELSE Tail(sock)
      /\ sdk' = [sdk EXCEPT ![Proxy] = s]
      /\ robot' = IF sends THEN Moved(w.r, Proxy, Watched(w.s)) ELSE w.r
      /\ UNCHANGED <<lockVars, client, net, go_age, steps>>
  BY DEF ProxyLoop
<1>2. /\ Proxy \in Owners /\ Bridge # Proxy /\ sdk[Proxy] \in OwnerStates
      /\ robot \in RobotStates /\ sdk \in [Owners -> OwnerStates]
      /\ sock \in Seq(Command) /\ Len(sock) <= MaxSock
  BY DriveAssumption DEF Kept, TypeInv
<1>3. /\ go_age \in Nat /\ Back(steps) \in Nat /\ sdk[Proxy].init \in 0..MaxInit
      /\ sdk[Proxy].age \in Int
  BY <1>2, KeptNumbers DEF Kept
<1>4. /\ heard \in OwnerStates /\ heard.waiting = sdk[Proxy].waiting
      /\ heard.served = sdk[Proxy].served /\ heard.ready = sdk[Proxy].ready
      /\ heard.init = sdk[Proxy].init /\ heard.stood = sdk[Proxy].stood
      /\ heard.check = sdk[Proxy].check /\ heard.request = sdk[Proxy].request
      /\ heard.age \in Int /\ heard.age >= -Back(steps)
      /\ heard.cmd = "go" => \/ go_age <= Relayed + heard.age
                             \/ heard.age > CmdTimeout
  <2>1. CASE sock = << >>
    <3>1. heard = sdk[Proxy]
      BY <2>1
    <3> HIDE DEF heard
    <3> QED
      BY <3>1, <1>2, <1>3 DEF Kept, TypeInv, AgeInv, NotFartherBack
  <2>2. CASE sock # << >>
    <3>1. heard = Received(sdk[Proxy], Head(sock)) /\ Head(sock) \in Command
      BY <2>2, <1>2
    <3>2. Head(sock) = sock[1] /\ 1 \in 1..Len(sock)
      BY <2>2, <1>2
    <3>3. Head(sock) = "go" => go_age <= Allowed + MaxDelay + sdk[Proxy].init
      BY <3>2 DEF Kept, AgeInv
    <3>4. Head(sock) = "go" => go_age <= Relayed
      BY <3>3, <1>3, MaxMotionFacts
    <3> HIDE DEF heard
    <3>5. /\ heard \in OwnerStates /\ heard.cmd = Head(sock) /\ heard.age = 0
          /\ heard.served = sdk[Proxy].served /\ heard.ready = sdk[Proxy].ready
          /\ heard.waiting = sdk[Proxy].waiting
          /\ heard.init = sdk[Proxy].init /\ heard.stood = sdk[Proxy].stood
          /\ heard.check = sdk[Proxy].check /\ heard.request = sdk[Proxy].request
      BY <3>1, <1>2, ReceivedEffect
    <3> QED
      BY <3>4, <3>5, <1>3, MaxMotionFacts
  <2> QED
    BY <2>1, <2>2
<1> HIDE DEF heard
<1>5. /\ w.s \in OwnerStates /\ w.r \in RobotStates
      /\ w.s.cmd = heard.cmd /\ w.s.age = heard.age /\ w.s.init = heard.init
      /\ w.s.ready = heard.ready /\ w.s.served = heard.served /\ w.s.stood = heard.stood
      /\ w.s.check \in {heard.check, 0} /\ w.s.request \in {heard.request, 0}
      /\ w.r.standing = robot.standing
      /\ w.r.move = "go" => w.r.move = robot.move /\ w.r.by = robot.by
      /\ ~heard.waiting => w.s = heard /\ w.r = robot
      /\ w.s.waiting => heard.waiting
      /\ heard.waiting /\ ~w.s.waiting => robot.standing
  BY <1>2, <1>4, StandupCheckEffect
<1> HIDE DEF w
<1>6. /\ s \in OwnerStates /\ s.served /\ s.cmd = w.s.cmd /\ s.age = w.s.age
      /\ s.init = w.s.init /\ s.ready = w.s.ready /\ s.stood = w.s.stood
      /\ s.waiting = w.s.waiting /\ s.check = w.s.check /\ s.request = w.s.request
  BY <1>5 DEF OwnerStates
<1> HIDE DEF s
<1>7. Watched(w.s) \in Command /\ (Watched(w.s) = "go" => w.s.cmd = "go" /\ w.s.age <= CmdTimeout)
  BY <1>5, WatchedEffect DEF OwnerStates
<1>8. Watched(w.s) = "go" => go_age <= Relayed + CmdTimeout
  BY <1>3, <1>4, <1>5, <1>7, MaxMotionFacts
<1>9. /\ robot' \in RobotStates /\ robot'.standing = robot.standing
      /\ robot'.move = "go" =>
            \/ robot.move = "go" /\ robot'.by = robot.by /\ (robot.by = Proxy => sdk[Proxy].served)
            \/ ~s.waiting /\ robot'.by = Proxy /\ go_age <= Relayed + CmdTimeout
  <2>1. robot.move = "go" /\ robot.by = Proxy => ~sdk[Proxy].waiting
    BY <1>2 DEF Kept, Mover
  <2>2. CASE sends
    BY <2>2, <1>1, <1>2, <1>5, <1>6, <1>7, <1>8, MovedEffect
  <2>3. CASE ~sends
    BY <2>1, <2>3, <1>1, <1>4, <1>5
  <2> QED
    BY <2>2, <2>3
<1>10. /\ s.check >= -Back(steps) /\ s.request >= -Back(steps) /\ s.age >= -Back(steps)
  BY <1>2, <1>3, <1>4, <1>5, <1>6 DEF Kept, TypeInv, NotFartherBack
<1>11. sock' \in Seq(Command) /\ Len(sock') <= MaxSock
       /\ \A i \in 1..Len(sock') : \E j \in 1..Len(sock) : sock'[i] = sock[j]
  <2>1. CASE sock = << >>
    BY <2>1, <1>1, <1>2
  <2>2. CASE sock # << >>
    <3>1. sock' = Tail(sock)
      BY <2>2, <1>1
    <3>2. /\ Len(sock) \in Nat /\ Len(sock') = Len(sock) - 1 /\ sock' \in Seq(Command)
          /\ \A i \in 1..Len(sock') : sock'[i] = sock[i + 1]
      BY <3>1, <2>2, <1>2
    <3>3. \A i \in 1..Len(sock') : i + 1 \in 1..Len(sock)
      BY <3>2
    <3>4. \A i \in 1..Len(sock') : \E j \in 1..Len(sock) : sock'[i] = sock[j]
      <4>1. ASSUME NEW i \in 1..Len(sock')
            PROVE  \E j \in 1..Len(sock) : sock'[i] = sock[j]
        <5>1. i + 1 \in 1..Len(sock) /\ sock'[i] = sock[i + 1]
          BY <3>2, <3>3
        <5> QED
          BY <5>1
      <4> QED
        BY <4>1
    <3>5. Len(sock') <= MaxSock
      BY <3>2, <1>2, MaxMotionFacts
    <3> QED
      BY <3>2, <3>4, <3>5
  <2> QED
    BY <2>1, <2>2
<1>12. sdk[Proxy].ready
  BY <1>1 DEF Using
<1>13. s.cmd = "go" => \/ go_age <= Relayed + s.age
                       \/ s.age > CmdTimeout
  BY <1>4, <1>5, <1>6
<1> QED
  BY <1>1, <1>2, <1>4, <1>5, <1>6, <1>9, <1>10, <1>11, <1>12, <1>13, ServedKeeps

LEMMA DownEffect ==
  ASSUME NEW c, c = DownClient \/ c = [DownClient EXCEPT !.up = TRUE]
  PROVE  c \in ClientStates /\ c.age = 0 /\ c.cmd = "zero"
<1>1. 0 \in Waits(CmdTimeout + 1)
  BY ZeroWaits
<1>2. DownClient \in ClientStates /\ DownClient.age = 0 /\ DownClient.cmd = "zero"
  BY <1>1 DEF DownClient, ClientStates, Command
<1> QED
  BY <1>2 DEF ClientStates

LEMMA SendEffect ==
  ASSUME Kept, NEW v \in Command, v = "go" => go_age <= Allowed, SendPacket(v)
  PROVE  /\ net' \subseteq Packets
         /\ \A m \in net' : m.cmd = "go" => go_age <= Allowed + m.age
<1> DEFINE n == [cmd |-> v, age |-> 0]
<1>1. net' = net \cup {n}
  BY Zenon DEF SendPacket
<1>2. n \in Packets /\ n.cmd = v /\ n.age = 0
  <2>1. 0 \in 0..MaxDelay
    BY MaxMotionFacts
  <2> QED
    BY <2>1 DEF Packets
<1> HIDE DEF n
<1>3. n.cmd = "go" => go_age <= Allowed + n.age
  <2>1. Allowed \in Nat
    BY MaxMotionFacts
  <2> QED
    BY <1>2, <2>1
<1> QED
  BY <1>1, <1>2, <1>3 DEF Kept, TypeInv, AgeInv

LEMMA ClientKeeps ==
  ASSUME LockInv, Kept, StartClient \/ ClientTimer \/ StopClient \/ LoseClient  PROVE  Kept'
<1>1. /\ client \in ClientStates /\ client.age \in Int /\ go_age \in Nat
      /\ Back(steps) \in Nat /\ Back(steps) <= Back(MaxSteps)
      /\ AgeKept(client) /\ client.age >= -Back(steps) /\ client.cmd \in Command
  BY KeptNumbers DEF Kept, TypeInv, NotFartherBack, AgeInv, ClientStates
<1>2. UNCHANGED <<lockVars, sdk, sock, robot, go_age, steps>>
  BY DEF StartClient, ClientTimer, StopClient, LoseClient
<1>5. /\ client' \in ClientStates /\ client'.age >= -Back(steps)
      /\ client'.cmd = "go" => client'.cmd = client.cmd /\ client'.age = client.age
  <2>1. CASE ClientTimer
    <3>1. client' = [client EXCEPT !.served = TRUE]
      BY <2>1 DEF ClientTimer
    <3> QED
      BY <3>1, <1>1 DEF ClientStates
  <2>2. CASE StartClient \/ StopClient \/ LoseClient
    <3>1. client' = DownClient \/ client' = [DownClient EXCEPT !.up = TRUE]
      BY <2>2 DEF StartClient, StopClient, LoseClient
    <3>2. /\ client' \in ClientStates /\ client'.age = 0 /\ client'.cmd = "zero"
      BY <3>1, DownEffect
    <3>3. Back(steps) \in Nat
      BY <1>1
    <3> QED
      BY <3>2, <3>3
  <2> QED
    BY <2>1, <2>2, <1>2 DEF StartClient, ClientTimer, StopClient, LoseClient
<1>6. /\ net' \subseteq Packets
      /\ \A m \in net' : m.cmd = "go" => go_age <= Allowed + m.age
  <2>1. /\ net \subseteq Packets
        /\ \A m \in net : m.cmd = "go" => go_age <= Allowed + m.age
    BY DEF Kept, TypeInv, AgeInv
  <2>2. Watched(client) \in Command /\ (Watched(client) = "go" => go_age <= Allowed)
    BY <1>1, WatchedEffect, MaxMotionFacts DEF AgeKept
  <2>3. net' = net \/ \E v \in Command : SendPacket(v) /\ (v = "go" => go_age <= Allowed)
    BY <2>2 DEF StartClient, ClientTimer, StopClient, LoseClient, Command
  <2> QED
    BY <2>1, <2>3, SendEffect
<1>7. TypeInv'
  BY <1>2, <1>5, <1>6 DEF Kept, TypeInv, NotFartherBack, lockVars
<1>8. Mover' /\ SeenStanding'
  BY <1>2 DEF Kept, Mover, SeenStanding, Using, lockVars
<1>9. AgeInv'
  BY <1>1, <1>2, <1>5, <1>6 DEF Kept, AgeInv, AgeKept, lockVars
<1> QED
  BY <1>7, <1>8, <1>9 DEF Kept

LEMMA DeliverKeeps ==
  ASSUME LockInv, Kept, Deliver  PROVE  Kept'
<1>1. PICK m \in net : sock' = Append(sock, m.cmd)
  BY DEF Deliver
<1>2. /\ pc[Proxy] = "owned" /\ Len(sock) < MaxSock
      /\ UNCHANGED <<lockVars, sdk, client, net, robot, go_age, steps>>
  BY DEF Deliver
<1>3. /\ m \in Packets /\ sock \in Seq(Command) /\ sdk[Proxy].init \in 0..MaxInit
      /\ go_age \in Nat
  BY KeptNumbers DEF Kept, TypeInv
<1>4. m.cmd = "go" => go_age <= Allowed + MaxDelay + sdk[Proxy].init
  <2>1. m.cmd = "go" => go_age <= Allowed + m.age
    BY DEF Kept, AgeInv
  <2>2. m.age \in 0..MaxDelay
    BY <1>3 DEF Packets
  <2>3. Allowed \in Nat /\ MaxDelay \in Nat /\ MaxInit \in Nat
    BY MaxMotionFacts
  <2>4. go_age \in Nat /\ sdk[Proxy].init \in 0..MaxInit
    BY <1>3
  <2> QED
    BY <2>1, <2>2, <2>3, <2>4
<1>5. /\ sock' \in Seq(Command) /\ Len(sock') = Len(sock) + 1 /\ Len(sock) \in Nat
      /\ sock'[Len(sock) + 1] = m.cmd
      /\ \A i \in 1..Len(sock) : sock'[i] = sock[i]
  BY <1>1, <1>3 DEF Packets
<1>6. \A i \in 1..Len(sock') :
        sock'[i] = "go" => go_age <= Allowed + MaxDelay + sdk[Proxy].init
  <2>1. \A i \in 1..Len(sock) : sock[i] = "go" => go_age <= Allowed + MaxDelay + sdk[Proxy].init
    BY DEF Kept, AgeInv
  <2>2. \A i \in 1..Len(sock') : i \in 1..Len(sock) \/ i = Len(sock) + 1
    BY <1>5
  <2>3. ASSUME NEW i \in 1..Len(sock'), sock'[i] = "go"
        PROVE  go_age <= Allowed + MaxDelay + sdk[Proxy].init
    BY <2>1, <2>2, <2>3, <1>4, <1>5
  <2> QED
    BY <2>3
<1>7. TypeInv'
  <2>1. Len(sock') <= MaxSock
    BY <1>2, <1>5, MaxMotionFacts
  <2> QED
    BY <2>1, <1>2, <1>5 DEF Kept, TypeInv, NotFartherBack, lockVars
<1>8. Mover' /\ SeenStanding'
  BY <1>2 DEF Kept, Mover, SeenStanding, Using, lockVars
<1>9. AgeInv'
  BY <1>2, <1>6 DEF Kept, AgeInv, AgeKept, lockVars
<1> QED
  BY <1>7, <1>8, <1>9 DEF Kept

LEMMA RobotKeeps ==
  ASSUME LockInv, Kept, RobotStands \/ RobotIgnores \/ RobotDrops  PROVE  Kept'
<1>1. /\ robot' \in RobotStates /\ robot'.move = robot.move /\ robot'.by = robot.by
      /\ RobotStands \/ (robot'.standing => robot.standing)
  BY DEF Kept, TypeInv, RobotStates, RobotStands, RobotIgnores, RobotDrops
<1>2. UNCHANGED <<lockVars, client, net, sock, go_age, steps>>
  BY DEF RobotStands, RobotIgnores, RobotDrops
<1>3. /\ sdk' \in [Owners -> OwnerStates]
      /\ \A o \in Owners :
           /\ sdk'[o].ready = sdk[o].ready /\ sdk'[o].waiting = sdk[o].waiting
           /\ sdk'[o].init = sdk[o].init /\ sdk'[o].served = sdk[o].served
           /\ sdk'[o].cmd = sdk[o].cmd /\ sdk'[o].age = sdk[o].age
           /\ sdk'[o].check = sdk[o].check /\ sdk'[o].request = sdk[o].request
           /\ pc[o] # "owned" => sdk'[o] = sdk[o]
           /\ sdk'[o].stood = sdk[o].stood \/ sdk'[o].stood
           /\ RobotStands /\ pc[o] = "owned" => sdk'[o].stood
  <2>1. sdk \in [Owners -> OwnerStates]
    BY DEF Kept, TypeInv
  <2>2. CASE RobotStands
    <3>1. sdk' = [o \in Owners |-> IF pc[o] = "owned" THEN [sdk[o] EXCEPT !.stood = TRUE]
                                   ELSE sdk[o]]
      BY <2>2 DEF RobotStands
    <3> QED
      BY <2>1, <2>2, <3>1 DEF OwnerStates
  <2>3. CASE ~RobotStands
    <3>1. sdk' = sdk
      BY <2>3 DEF RobotIgnores, RobotDrops
    <3> QED
      BY <2>1, <2>3, <3>1
  <2> QED
    BY <2>2, <2>3
<1>4. TypeInv'
  BY <1>1, <1>2, <1>3 DEF Kept, TypeInv, NotFartherBack, lockVars
<1>5. Mover'
  BY <1>1, <1>2, <1>3 DEF Kept, Mover, Using, lockVars
<1>6. SeenStanding'
  <2>1. SeenStanding
    BY DEF Kept
  <2>2. \A o \in Owners : Using(o)' <=> Using(o)
    BY <1>2, <1>3 DEF Using, lockVars
  <2>3. CASE RobotStands
    BY <2>2, <2>3, <1>3 DEF SeenStanding, Using
  <2>4. CASE ~RobotStands
    BY <2>1, <2>2, <2>4, <1>1, <1>3 DEF SeenStanding
  <2> QED
    BY <2>3, <2>4
<1>7. AgeInv'
  <2>1. Bridge \in Owners /\ Proxy \in Owners
    BY DriveAssumption
  <2> QED
    BY <2>1, <1>1, <1>2, <1>3 DEF Kept, AgeInv, AgeKept, lockVars
<1> QED
  BY <1>4, <1>5, <1>6, <1>7 DEF Kept

(* A command of another node on cmd_vel is new to whoever has subscribed.  *)
LEMMA PublishKeeps ==
  ASSUME LockInv, Kept, PublishCommand  PROVE  Kept'
<1>1. PICK v \in Command :
        /\ client' = IF client.up THEN Received(client, v) ELSE client
        /\ sdk' = IF Using(Bridge) THEN [sdk EXCEPT ![Bridge] = Received(@, v)] ELSE sdk
        /\ go_age' = IF v = "go" THEN 0 ELSE go_age
  BY DEF PublishCommand
<1>2. UNCHANGED <<lockVars, net, sock, robot, steps>>
  BY DEF PublishCommand
<1>3. /\ Bridge \in Owners /\ Proxy \in Owners /\ Bridge # Proxy
      /\ client \in ClientStates /\ sdk \in [Owners -> OwnerStates]
  BY KeptNumbers DEF Kept, TypeInv
<1>4. /\ go_age \in Nat /\ Back(steps) \in Nat /\ client.age \in Int
      /\ \A o \in Owners : sdk[o].age \in Int /\ sdk[o].init \in Nat
  BY KeptNumbers, MaxMotionFacts DEF Kept
<1>5. go_age' \in Nat /\ go_age' <= go_age /\ go_age' \in 0..(MaxMotion + 1)
  <2>1. go_age' = 0 \/ go_age' = go_age
    BY <1>1
  <2>2. MaxMotion \in Nat /\ go_age \in 0..(MaxMotion + 1)
    BY MaxMotionFacts DEF Kept, TypeInv
  <2> QED
    BY <2>1, <2>2
<1>6. /\ client' \in ClientStates /\ client'.age >= -Back(steps)
      /\ client' = client \/ (client'.cmd = v /\ client'.age = 0)
  <2>1. CASE client.up
    BY <2>1, <1>1, <1>3, <1>4, ReceivedEffect
  <2>2. CASE ~client.up
    BY <2>2, <1>1, <1>3 DEF Kept, TypeInv, NotFartherBack
  <2> QED
    BY <2>1, <2>2
<1>7. /\ sdk' \in [Owners -> OwnerStates]
      /\ \A o \in Owners :
           /\ sdk'[o].ready = sdk[o].ready /\ sdk'[o].waiting = sdk[o].waiting
           /\ sdk'[o].init = sdk[o].init /\ sdk'[o].served = sdk[o].served
           /\ sdk'[o].check = sdk[o].check /\ sdk'[o].request = sdk[o].request
           /\ sdk'[o].stood = sdk[o].stood
           /\ pc[o] # "owned" => sdk'[o] = sdk[o]
           /\ sdk'[o] = sdk[o] \/ (o = Bridge /\ sdk'[o].cmd = v /\ sdk'[o].age = 0)
  <2>1. CASE Using(Bridge)
    <3> DEFINE s == Received(sdk[Bridge], v)
    <3>1. sdk' = [sdk EXCEPT ![Bridge] = s]
      BY <1>1, <2>1, <1>3
    <3>2. /\ s \in OwnerStates /\ s.cmd = v /\ s.age = 0 /\ s.served = sdk[Bridge].served
          /\ s.ready = sdk[Bridge].ready /\ s.waiting = sdk[Bridge].waiting
          /\ s.stood = sdk[Bridge].stood /\ s.init = sdk[Bridge].init
          /\ s.check = sdk[Bridge].check /\ s.request = sdk[Bridge].request
      BY <1>3, ReceivedEffect
    <3>3. pc[Bridge] = "owned"
      BY <2>1 DEF Using
    <3> HIDE DEF s
    <3> QED
      BY <3>1, <3>2, <3>3, <1>3
  <2>2. CASE ~Using(Bridge)
    <3>1. sdk' = sdk
      BY <1>1, <2>2
    <3> QED
      BY <3>1, <1>3
  <2> QED
    BY <2>1, <2>2
<1>8. \A o \in Owners : sdk'[o].age >= -Back(steps)
  BY <1>4, <1>7 DEF Kept, TypeInv, NotFartherBack
<1>9. TypeInv'
  BY <1>2, <1>5, <1>6, <1>7, <1>8 DEF Kept, TypeInv, NotFartherBack, lockVars
<1>10. Mover' /\ SeenStanding'
  BY <1>2, <1>7 DEF Kept, Mover, SeenStanding, Using, lockVars
<1>11. AgeInv'
  <2>1. AgeInv
    BY DEF Kept
  <2>2. v = "go" => go_age' = 0
    BY <1>1
  <2>3. AgeKept(client)'
    BY <2>1, <2>2, <1>2, <1>4, <1>5, <1>6 DEF AgeInv, AgeKept
  <2>4. AgeKept(sdk[Bridge])'
    BY <2>1, <2>2, <1>2, <1>3, <1>4, <1>5, <1>7 DEF AgeInv, AgeKept
  <2>5. \A m \in net' : m.cmd = "go" => go_age' <= Allowed + m.age
    <3>1. \A m \in net : m.age \in Nat
      BY MaxMotionFacts DEF Kept, TypeInv, Packets
    <3>2. Allowed \in Nat
      BY MaxMotionFacts
    <3> QED
      BY <3>1, <3>2, <2>1, <1>2, <1>4, <1>5 DEF AgeInv
  <2>6. /\ sock' # << >> => pc'[Proxy] = "owned"
        /\ \A i \in 1..Len(sock') :
             sock'[i] = "go" => go_age' <= Allowed + MaxDelay + sdk'[Proxy].init
    <3>1. Allowed + MaxDelay + sdk[Proxy].init \in Int
      BY <1>3, <1>4, MaxMotionFacts
    <3> QED
      BY <3>1, <2>1, <1>2, <1>3, <1>4, <1>5, <1>7 DEF AgeInv, lockVars
  <2>7. sdk'[Proxy].cmd = "go" => \/ go_age' <= Relayed + sdk'[Proxy].age
                                 \/ sdk'[Proxy].age > CmdTimeout
    <3>1. Relayed + sdk[Proxy].age \in Int /\ sdk'[Proxy] = sdk[Proxy]
      BY <1>3, <1>4, <1>7, MaxMotionFacts
    <3> QED
      BY <3>1, <2>1, <1>4, <1>5 DEF AgeInv
  <2>8. \A o \in Owners :
          robot'.move = "go" /\ robot'.by = o
            => go_age' <= IF sdk'[o].served THEN Relayed + CmdTimeout ELSE MaxMotion
    <3>1. Relayed + CmdTimeout \in Int /\ MaxMotion \in Int
      BY MaxMotionFacts
    <3> QED
      BY <3>1, <2>1, <1>2, <1>4, <1>5, <1>7 DEF AgeInv
  <2>9. \A o \in Owners : sdk'[o].cmd = "go" => sdk'[o].ready
    <3>1. sdk'[Bridge] = sdk[Bridge] \/ sdk[Bridge].ready
      BY <1>1, <1>3 DEF Using
    <3> QED
      BY <3>1, <2>1, <1>3, <1>7 DEF AgeInv
  <2> QED
    BY <2>1, <2>3, <2>4, <2>5, <2>6, <2>7, <2>8, <2>9 DEF AgeInv
<1> QED
  BY <1>9, <1>10, <1>11 DEF Kept

(* A step of the clock: what is read off it falls back as far as it does.  *)
LEMMA SetClockBackKeeps ==
  ASSUME LockInv, Kept, SetClockBack  PROVE  Kept'
<1> DEFINE b == sdk[Bridge]
           u == SetBack(b)
           s == IF ~b.waiting THEN u
                ELSE [u EXCEPT !.check = b.check - ClockStep, !.request = b.request - ClockStep]
<1>1. /\ steps < MaxSteps /\ steps' = steps + 1 /\ client' = SetBack(client)
      /\ UNCHANGED <<lockVars, net, sock, robot, go_age>>
  BY DEF SetClockBack
<1>2. /\ Bridge \in Owners /\ Proxy \in Owners /\ Bridge # Proxy
      /\ client \in ClientStates /\ sdk \in [Owners -> OwnerStates]
      /\ b \in OwnerStates /\ go_age \in Nat /\ steps \in 0..MaxSteps
      /\ client.age \in Int /\ b.age \in Int /\ b.check \in Int /\ b.request \in Int
      /\ Back(steps) \in Nat
  BY KeptNumbers DEF Kept, TypeInv
<1>3. /\ steps' \in 0..MaxSteps /\ Back(steps') = Back(steps) + ClockStep
      /\ Back(steps') \in Nat /\ Back(steps') <= Back(MaxSteps) /\ ClockStep \in Nat
      /\ Back(MaxSteps) \in Nat
  <2>1. steps \in Nat /\ steps + 1 \in 0..MaxSteps
    BY <1>1, <1>2, MaxMotionFacts
  <2> QED
    BY <2>1, <1>1, BackFacts
<1>4. /\ client.age >= -Back(steps)
      /\ \A o \in Owners : /\ sdk[o].age >= -Back(steps) /\ sdk[o].check >= -Back(steps)
                           /\ sdk[o].request >= -Back(steps)
  BY DEF Kept, TypeInv, NotFartherBack
<1>5. -Back(steps) \in Int /\ -Back(steps) - ClockStep = -Back(steps')
      /\ -Back(steps) - ClockStep >= -Back(MaxSteps)
  BY <1>2, <1>3
<1>6. /\ client' \in ClientStates /\ client'.age >= -Back(steps') /\ client'.cmd = client.cmd
      /\ client.cmd = "go" => client'.age = client.age - ClockStep
  BY <1>1, <1>2, <1>4, <1>5, SetBackEffect
<1>7. /\ u \in OwnerStates /\ u.age >= -Back(steps') /\ u.cmd = b.cmd /\ u.served = b.served
      /\ b.cmd = "go" => u.age = b.age - ClockStep
      /\ u.ready = b.ready /\ u.waiting = b.waiting /\ u.stood = b.stood /\ u.init = b.init
      /\ u.check = b.check /\ u.request = b.request
  BY <1>2, <1>4, <1>5, SetBackEffect
<1>8. sdk' = [sdk EXCEPT ![Bridge] = s]
  <2>1. sdk' = [sdk EXCEPT ![Bridge] = OwnerSetBack(b)]
    BY <1>2 DEF SetClockBack
  <2>2. OwnerSetBack(b) = IF ~b.waiting THEN u
                          ELSE [u EXCEPT !.check = u.check - ClockStep,
                                         !.request = u.request - ClockStep]
    BY DEF OwnerSetBack
  <2> HIDE DEF u
  <2> QED
    BY <2>1, <2>2, <1>7
<1> HIDE DEF u
<1>9. /\ s \in OwnerStates /\ s.age = u.age /\ s.cmd = b.cmd /\ s.served = b.served
      /\ s.ready = b.ready /\ s.waiting = b.waiting /\ s.stood = b.stood /\ s.init = b.init
      /\ s.check >= -Back(steps') /\ s.request >= -Back(steps')
  <2>1. CASE ~b.waiting
    <3>1. s = u
      BY <2>1
    <3> HIDE DEF s
    <3> QED
      BY <3>1, <1>2, <1>3, <1>4, <1>7
  <2>2. CASE b.waiting
    <3> DEFINE c == b.check - ClockStep
               r == b.request - ClockStep
    <3>1. s = [u EXCEPT !.check = c, !.request = r]
      BY <2>2
    <3>2. c >= -Back(steps') /\ r >= -Back(steps')
      BY <1>2, <1>3, <1>4, <1>5
    <3>3. c \in Waits(CheckPeriod) /\ r \in Waits(RetryPeriod)
      <4>1. CheckPeriod \in Nat /\ RetryPeriod \in Nat
        BY MaxMotionFacts
      <4>2. Waits(CheckPeriod) = -Back(MaxSteps)..(CheckPeriod + Back(MaxSteps))
        BY <4>1, WaitsFacts
      <4>3. Waits(RetryPeriod) = -Back(MaxSteps)..(RetryPeriod + Back(MaxSteps))
        BY <4>1, WaitsFacts
      <4>4. b.check \in Waits(CheckPeriod) /\ b.request \in Waits(RetryPeriod)
        BY <1>2 DEF OwnerStates
      <4> QED
        <5>1. b.check <= CheckPeriod + Back(MaxSteps) /\ b.request <= RetryPeriod + Back(MaxSteps)
          BY <4>1, <4>2, <4>3, <4>4, <1>3
        <5>2. c <= CheckPeriod + Back(MaxSteps) /\ r <= RetryPeriod + Back(MaxSteps)
          BY <5>1, <4>1, <1>2, <1>3
        <5>3. c \in Int /\ r \in Int /\ c >= -Back(MaxSteps) /\ r >= -Back(MaxSteps)
          BY <3>2, <1>2, <1>3
        <5> HIDE DEF c, r
        <5> QED
          BY <5>2, <5>3, <4>1, <4>2, <4>3, <1>3
    <3> HIDE DEF s, c, r
    <3> QED
      BY <3>1, <3>2, <3>3, <1>7 DEF OwnerStates
  <2> QED
    BY <2>1, <2>2
<1> HIDE DEF s
<1>10. /\ \A o \in Owners : o # Bridge => sdk'[o] = sdk[o]
       /\ sdk'[Bridge] = s /\ sdk' \in [Owners -> OwnerStates]
  BY <1>2, <1>8, <1>9
<1>11. \A o \in Owners : pc'[o] # "owned" => sdk'[o] = FreshOwner
  <2>1. pc[Bridge] # "owned" => sdk'[Bridge] = FreshOwner
    <3>1. ASSUME b = FreshOwner  PROVE  s = FreshOwner
      <4>1. FreshOwner.cmd # "go" /\ ~FreshOwner.waiting
        BY DEF FreshOwner
      <4> QED
        BY <3>1, <4>1 DEF s, u, SetBack
    <3> QED
      BY <3>1, <1>2, <1>10 DEF Kept, TypeInv
  <2> QED
    BY <2>1, <1>1, <1>10 DEF Kept, TypeInv, lockVars
<1>12. NotFartherBack'
  <2>1. \A o \in Owners : o # Bridge => /\ sdk'[o].age >= -Back(steps')
                                       /\ sdk'[o].check >= -Back(steps')
                                       /\ sdk'[o].request >= -Back(steps')
    <3>1. \A o \in Owners : sdk[o].age \in Int /\ sdk[o].check \in Int /\ sdk[o].request \in Int
      BY KeptNumbers DEF Kept
    <3> QED
      BY <3>1, <1>2, <1>3, <1>4, <1>10
  <2> QED
    BY <2>1, <1>6, <1>7, <1>9, <1>10 DEF NotFartherBack
<1>13. TypeInv'
  BY <1>1, <1>3, <1>6, <1>10, <1>11, <1>12 DEF Kept, TypeInv
<1>14. Mover' /\ SeenStanding'
  BY <1>1, <1>9, <1>10 DEF Kept, Mover, SeenStanding, Using, lockVars
<1>15. AgeInv'
  <2>1. AgeInv /\ Allowed \in Nat
    BY MaxMotionFacts DEF Kept
  <2>2. client.cmd = "go" => client'.age + Back(steps') = client.age + Back(steps)
    BY <1>2, <1>3, <1>6
  <2>3. AgeKept(client)'
    BY <2>1, <2>2, <1>1, <1>6 DEF AgeInv, AgeKept
  <2>4. b.cmd = "go" => u.age + Back(steps') = b.age + Back(steps)
    BY <1>2, <1>3, <1>7
  <2>5. AgeKept(sdk[Bridge])'
    BY <2>1, <2>4, <1>1, <1>9, <1>10 DEF AgeInv, AgeKept
  <2>6. /\ sdk'[Proxy] = sdk[Proxy]
        /\ \A o \in Owners : sdk'[o].served = sdk[o].served
    BY <1>2, <1>9, <1>10
  <2>7. \A o \in Owners : sdk'[o].cmd = "go" => sdk'[o].ready
    BY <2>1, <1>9, <1>10 DEF AgeInv
  <2> QED
    BY <2>1, <2>3, <2>5, <2>6, <2>7, <1>1 DEF AgeInv, lockVars
<1> QED
  BY <1>13, <1>14, <1>15 DEF Kept

(* A tick adds one to every age; what moves the robot was served in the    *)
(* tick that ends, and what waits in the socket waits for a proxy that     *)
(* initialises.                                                            *)
LEMMA TickKeeps ==
  ASSUME LockInv, Kept, Tick  PROVE  Kept'
<1>1. /\ \A o \in Owners : pc[o] = "owned" =>
           IF sdk[o].ready THEN sdk[o].served ELSE sdk[o].init < MaxInit
      /\ Using(Proxy) => sock = << >>
      /\ client' = Older(client)
      /\ net' = {[m EXCEPT !.age = @ + 1] : m \in {n \in net : n.age < MaxDelay}}
      /\ go_age' = UpTo(MaxMotion + 1, go_age)
      /\ UNCHANGED <<lockVars, sock, robot, steps>>
  BY DEF Tick
<1>2. /\ Bridge \in Owners /\ Proxy \in Owners
      /\ client \in ClientStates /\ sdk \in [Owners -> OwnerStates]
      /\ Back(steps) \in Nat /\ Back(steps) <= Back(MaxSteps) /\ client.age \in Int
      /\ \A o \in Owners : /\ sdk[o] \in OwnerStates /\ sdk[o].age \in Int
                           /\ sdk[o].check \in Int /\ sdk[o].request \in Int
                           /\ sdk[o].init \in 0..MaxInit
  BY KeptNumbers DEF Kept, TypeInv
<1>3. /\ go_age \in Nat /\ go_age' \in Nat /\ go_age' <= go_age + 1
      /\ go_age' \in 0..(MaxMotion + 1)
  <2>1. MaxMotion \in Nat /\ go_age \in 0..(MaxMotion + 1)
    BY MaxMotionFacts DEF Kept, TypeInv
  <2>2. go_age' = UpTo(MaxMotion + 1, go_age)
    BY <1>1
  <2> QED
    BY <2>1, <2>2 DEF UpTo
<1>4. /\ client.age >= -Back(steps)
      /\ \A o \in Owners : /\ sdk[o].age >= -Back(steps) /\ sdk[o].check >= -Back(steps)
                           /\ sdk[o].request >= -Back(steps)
  BY DEF Kept, TypeInv, NotFartherBack
<1>5. /\ client' \in ClientStates /\ client'.age >= -Back(steps) /\ client'.cmd = client.cmd
      /\ client.cmd = "go" =>
           \/ client'.age = client.age + 1
           \/ client'.age = client.age /\ client.age = CmdTimeout + 1 + Back(MaxSteps)
  <2>1. /\ client' \in ClientStates /\ client'.cmd = client.cmd
        /\ client.age >= 0 \/ client'.age >= client.age
        /\ client.age >= 0 => client'.age >= 0
        /\ client.cmd = "go" =>
             \/ client'.age = client.age + 1
             \/ client'.age = client.age /\ client.age = CmdTimeout + 1 + Back(MaxSteps)
    BY <1>1, <1>2, OlderEffect
  <2>2. client'.age \in Int
    BY <2>1 DEF ClientStates, Waits
  <2> QED
    BY <2>1, <2>2, <1>2, <1>4
<1>6. ASSUME NEW o \in Owners, Using(o)
      PROVE  /\ sdk'[o] \in OwnerStates
             /\ sdk'[o].cmd = sdk[o].cmd /\ ~sdk'[o].served /\ sdk'[o].ready = sdk[o].ready
             /\ sdk'[o].waiting = sdk[o].waiting /\ sdk'[o].stood = sdk[o].stood
             /\ sdk'[o].init = sdk[o].init
             /\ sdk'[o].age >= -Back(steps) /\ sdk'[o].check >= -Back(steps)
             /\ sdk'[o].request >= -Back(steps)
             /\ sdk[o].cmd = "go" =>
                  \/ sdk'[o].age = sdk[o].age + 1
                  \/ sdk'[o].age = sdk[o].age /\ sdk[o].age = CmdTimeout + 1 + Back(MaxSteps)
  <2> DEFINE s == sdk[o]
             t == OwnerOlder(s)
             u == Older(s)
  <2>1. sdk'[o] = t
    BY <1>6 DEF Tick
  <2>2. s \in OwnerStates
    BY <1>2
  <2>3. /\ s.age >= 0 \/ u.age >= s.age
        /\ s.age >= 0 => u.age >= 0
        /\ s.cmd = "go" => \/ u.age = s.age + 1
                           \/ u.age = s.age /\ s.age = CmdTimeout + 1 + Back(MaxSteps)
    BY <2>2, OlderEffect
  <2>4. /\ t \in OwnerStates
        /\ t.cmd = s.cmd /\ ~t.served /\ t.age = u.age
        /\ t.ready = s.ready /\ t.waiting = s.waiting /\ t.stood = s.stood /\ t.init = s.init
        /\ t.check >= s.check /\ t.request >= s.request
    BY <2>2, OwnerOlderEffect
  <2>5. t.age \in Int /\ t.check \in Int /\ t.request \in Int
    BY <2>4 DEF OwnerStates, Waits
  <2> HIDE DEF t, u
  <2> QED
    BY <2>1, <2>3, <2>4, <2>5, <1>2, <1>4
<1>7. ASSUME NEW o \in Owners, ~Using(o)
      PROVE  /\ sdk'[o] \in OwnerStates
             /\ sdk'[o].cmd = sdk[o].cmd /\ sdk'[o].ready = sdk[o].ready
             /\ sdk'[o].waiting = sdk[o].waiting /\ sdk'[o].age = sdk[o].age
             /\ sdk'[o].check = sdk[o].check /\ sdk'[o].request = sdk[o].request
             /\ sdk'[o].served = sdk[o].served /\ sdk'[o].stood = sdk[o].stood
             /\ pc[o] = "owned" => sdk'[o].init = sdk[o].init + 1
             /\ pc[o] # "owned" => sdk'[o] = sdk[o]
  <2>1. CASE pc[o] = "owned"
    <3>1. sdk'[o] = [sdk[o] EXCEPT !.init = sdk[o].init + 1]
      BY <1>7, <2>1 DEF Tick
    <3>2. sdk[o].init + 1 \in 0..MaxInit
      <4>1. sdk[o].init < MaxInit
        BY <1>1, <1>7, <2>1 DEF Using
      <4>2. sdk[o].init \in 0..MaxInit /\ MaxInit \in Nat
        BY <1>2, MaxMotionFacts
      <4> QED
        BY <4>1, <4>2
    <3> QED
      BY <3>1, <3>2, <2>1, <1>2 DEF OwnerStates
  <2>2. CASE pc[o] # "owned"
    <3>1. sdk'[o] = sdk[o]
      BY <1>7, <2>2 DEF Tick
    <3> QED
      BY <3>1, <2>2, <1>2
  <2> QED
    BY <2>1, <2>2
<1>8. sdk' \in [Owners -> OwnerStates]
  <2>1. sdk' = [o \in Owners |-> sdk'[o]]
    BY DEF Tick
  <2> QED
    BY <2>1, <1>6, <1>7
<1>9. /\ net' \subseteq Packets
      /\ \A m \in net' : m.cmd = "go" => go_age' <= Allowed + m.age
  <2> SUFFICES ASSUME NEW n \in net'
               PROVE  n \in Packets /\ (n.cmd = "go" => go_age' <= Allowed + n.age)
    OBVIOUS
  <2>1. PICK m \in net : m.age < MaxDelay /\ n = [m EXCEPT !.age = m.age + 1]
    BY <1>1
  <2>2. m \in Packets /\ (m.cmd = "go" => go_age <= Allowed + m.age)
    BY DEF Kept, TypeInv, AgeInv
  <2>3. MaxDelay \in Nat /\ Allowed \in Nat
    BY MaxMotionFacts
  <2>4. m.age \in 0..MaxDelay /\ m.age + 1 \in 0..MaxDelay
    BY <2>1, <2>2, <2>3 DEF Packets
  <2>5. n \in Packets /\ n.cmd = m.cmd /\ n.age = m.age + 1
    BY <2>1, <2>2, <2>4 DEF Packets
  <2> QED
    BY <2>2, <2>3, <2>4, <2>5, <1>3
<1>10. TypeInv'
  <2>1. NotFartherBack'
    BY <1>1, <1>4, <1>5, <1>6, <1>7 DEF NotFartherBack
  <2>2. \A o \in Owners : pc'[o] # "owned" => sdk'[o] = FreshOwner
    BY <1>1, <1>7 DEF Kept, TypeInv, Using, lockVars
  <2> QED
    BY <2>1, <2>2, <1>1, <1>3, <1>5, <1>8, <1>9 DEF Kept, TypeInv
<1>11. \A o \in Owners : Using(o)' <=> Using(o)
  BY <1>1, <1>6, <1>7 DEF Using, lockVars
<1>12. Mover' /\ SeenStanding'
  BY <1>1, <1>6, <1>11 DEF Kept, Mover, SeenStanding
<1>13. AgeInv'
  <2>1. AgeInv
    BY DEF Kept
  <2>7. \A o \in Owners : /\ sdk'[o].cmd = "go" => sdk'[o].ready
                          /\ ~Using(o) => sdk'[o].cmd # "go"
    <3> SUFFICES ASSUME NEW o \in Owners, sdk'[o].cmd = "go"
                 PROVE  sdk'[o].ready /\ Using(o)
      OBVIOUS
    <3>1. sdk'[o].cmd = sdk[o].cmd /\ sdk'[o].ready = sdk[o].ready
      BY <1>6, <1>7
    <3>2. sdk[o].ready
      BY <2>1, <3>1 DEF AgeInv
    <3>3. pc[o] = "owned"
      BY <3>2 DEF Kept, TypeInv, FreshOwner
    <3> QED
      BY <3>1, <3>2, <3>3 DEF Using
  <2>2. AgeKept(client)'
    <3>1. CmdTimeout \in Nat /\ Back(MaxSteps) \in Nat /\ Allowed = CmdTimeout + Back(MaxSteps)
      BY MaxMotionFacts
    <3> QED
      BY <3>1, <2>1, <1>1, <1>2, <1>3, <1>5 DEF AgeInv, AgeKept
  <2>3. AgeKept(sdk[Bridge])'
    <3>1. CmdTimeout \in Nat /\ Back(MaxSteps) \in Nat /\ Allowed = CmdTimeout + Back(MaxSteps)
      BY MaxMotionFacts
    <3>2. CASE Using(Bridge)
      <4>1. /\ sdk'[Bridge].cmd = sdk[Bridge].cmd
            /\ sdk[Bridge].cmd = "go" =>
                 \/ sdk'[Bridge].age = sdk[Bridge].age + 1
                 \/ /\ sdk'[Bridge].age = sdk[Bridge].age
                    /\ sdk[Bridge].age = CmdTimeout + 1 + Back(MaxSteps)
        BY <3>2, <1>2, <1>6
      <4>2. /\ sdk[Bridge].cmd = "go" => \/ go_age <= sdk[Bridge].age + Back(steps)
                                         \/ sdk[Bridge].age + Back(steps) > Allowed
            /\ sdk[Bridge].age \in Int
        BY <2>1, <1>2 DEF AgeInv, AgeKept
      <4>3. sdk'[Bridge].cmd = "go" => \/ go_age' <= sdk'[Bridge].age + Back(steps)
                                      \/ sdk'[Bridge].age + Back(steps) > Allowed
        <5>1. CASE sdk'[Bridge].age = sdk[Bridge].age + 1
          BY <5>1, <4>1, <4>2, <3>1, <1>2, <1>3
        <5>2. CASE sdk[Bridge].cmd = "go" /\ sdk'[Bridge].age # sdk[Bridge].age + 1
          BY <5>2, <4>1, <3>1, <1>2
        <5> QED
          BY <5>1, <5>2, <4>1
      <4> QED
        BY <4>3, <1>1 DEF AgeKept
    <3>3. CASE ~Using(Bridge)
      BY <3>3, <2>7, <1>2 DEF AgeKept
    <3> QED
      BY <3>2, <3>3
  <2>4. /\ sock' # << >> => pc'[Proxy] = "owned"
        /\ \A i \in 1..Len(sock') :
             sock'[i] = "go" => go_age' <= Allowed + MaxDelay + sdk'[Proxy].init
    <3>1. CASE sock = << >>
      BY <3>1, <1>1
    <3>2. CASE sock # << >>
      <4>1. pc[Proxy] = "owned" /\ ~Using(Proxy)
        BY <3>2, <2>1, <1>1 DEF AgeInv
      <4>2. sdk'[Proxy].init = sdk[Proxy].init + 1
        BY <4>1, <1>2, <1>7
      <4>3. \A i \in 1..Len(sock) : sock[i] = "go" => go_age <= Allowed + MaxDelay + sdk[Proxy].init
        BY <2>1 DEF AgeInv
      <4>4. Allowed \in Nat /\ MaxDelay \in Nat /\ sdk[Proxy].init \in Nat
        BY <1>2, MaxMotionFacts
      <4> QED
        BY <4>1, <4>2, <4>3, <4>4, <1>1, <1>3 DEF lockVars
    <3> QED
      BY <3>1, <3>2
  <2>5. sdk'[Proxy].cmd = "go" => \/ go_age' <= Relayed + sdk'[Proxy].age
                                 \/ sdk'[Proxy].age > CmdTimeout
    <3>1. CmdTimeout \in Nat /\ Back(MaxSteps) \in Nat /\ Relayed \in Nat
      BY MaxMotionFacts
    <3>2. sdk[Proxy].cmd = "go" => \/ go_age <= Relayed + sdk[Proxy].age
                                  \/ sdk[Proxy].age > CmdTimeout
      BY <2>1 DEF AgeInv
    <3>3. CASE Using(Proxy)
      <4>1. /\ sdk'[Proxy].cmd = sdk[Proxy].cmd
            /\ sdk[Proxy].cmd = "go" =>
                 \/ sdk'[Proxy].age = sdk[Proxy].age + 1
                 \/ /\ sdk'[Proxy].age = sdk[Proxy].age
                    /\ sdk[Proxy].age = CmdTimeout + 1 + Back(MaxSteps)
        BY <3>3, <1>2, <1>6
      <4>2. sdk[Proxy].age \in Int
        BY <1>2
      <4> QED
        BY <4>1, <4>2, <3>1, <3>2, <1>3
    <3>4. CASE ~Using(Proxy)
      BY <3>4, <2>7, <1>2
    <3> QED
      BY <3>3, <3>4
  <2>6. ASSUME NEW o \in Owners, robot'.move = "go", robot'.by = o
        PROVE  go_age' <= IF sdk'[o].served THEN Relayed + CmdTimeout ELSE MaxMotion
    <3>1. robot.move = "go" /\ robot.by = o
      BY <2>6, <1>1
    <3>2. Using(o)
      BY <3>1 DEF Kept, Mover
    <3>3. sdk[o].served /\ ~sdk'[o].served
      BY <3>2, <1>1, <1>6 DEF Using
    <3>4. go_age <= Relayed + CmdTimeout
      BY <3>1, <3>3, <2>1 DEF AgeInv
    <3>5. Relayed \in Nat /\ CmdTimeout \in Nat /\ MaxMotion = Relayed + CmdTimeout + 1
      BY MaxMotionFacts
    <3> QED
      BY <3>3, <3>4, <3>5, <1>3
  <2> QED
    BY <2>2, <2>3, <2>4, <2>5, <2>6, <2>7, <1>9 DEF AgeInv
<1> QED
  BY <1>10, <1>12, <1>13 DEF Kept

-----------------------------------------------------------------------------
(* The invariant and what follows from it.                                 *)

LEMMA InitDriveInv == Init => DriveInv
<1> SUFFICES ASSUME Init  PROVE  DriveInv
  OBVIOUS
<1>1. LockInv
  BY DEF Init, LockInit, LockInv, LockTypeOK, Held, Stages
<1>2. sdk = [o \in Owners |-> FreshOwner] /\ client = DownClient /\ net = {} /\ sock = << >>
      /\ robot \in [standing : BOOLEAN, asked : {FALSE}, move : {"zero"}, by : {"nobody"}]
      /\ go_age = MaxMotion + 1 /\ steps = 0
  BY DEF Init
<1>3. /\ FreshOwner \in OwnerStates /\ FreshOwner.age = 0 /\ FreshOwner.check = 0
      /\ FreshOwner.request = 0 /\ ~FreshOwner.ready /\ FreshOwner.cmd = "zero"
  BY FreshType DEF FreshOwner
<1>4. client \in ClientStates /\ client.age = 0 /\ client.cmd = "zero"
  BY <1>2, DownEffect
<1>5. robot \in RobotStates /\ robot.move # "go"
  BY <1>2 DEF RobotStates, Command
<1>6. MaxMotion \in Nat /\ MaxSock \in Nat /\ MaxSteps \in Nat /\ Back(0) = 0
  BY BackFacts, MaxMotionFacts
<1>7. TypeInv
  <2>1. NotFartherBack
    BY <1>2, <1>3, <1>4, <1>6 DEF NotFartherBack
  <2>2. sock \in Seq(Command) /\ Len(sock) <= MaxSock
    BY <1>2, <1>6
  <2> QED
    BY <2>1, <2>2, <1>2, <1>3, <1>4, <1>5, <1>6 DEF TypeInv
<1>8. Mover /\ SeenStanding /\ AgeInv
  <2>1. Bridge \in Owners /\ Proxy \in Owners
    BY DriveAssumption
  <2> QED
    BY <2>1, <1>2, <1>3, <1>4, <1>5 DEF Mover, SeenStanding, AgeInv, AgeKept, Using
<1> QED
  BY <1>1, <1>7, <1>8 DEF DriveInv, Kept

LEMMA LockKeeps ==
  ASSUME LockInv, [Next]_vars  PROVE  LockInv'
<1>1. CASE LockStep
  BY <1>1, OpenLockInv, TakeLockInv, OwnLockInv, CleanUpInv DEF LockStep
<1>2. CASE OwnerStep
  <2>1. PICK o \in Owners : StartDrive(o) \/ StopDrive(o) \/ LoseOwner(o)
    BY <1>2 DEF OwnerStep
  <2>2. CASE StartDrive(o)
    BY <2>2 DEF StartDrive, lockVars, LockInv, LockTypeOK, Held
  <2>3. CASE StopDrive(o) \/ LoseOwner(o)
    BY <2>3, ReleaseLockInv DEF StopDrive, LoseOwner, Closed
  <2> QED
    BY <2>1, <2>2, <2>3
<1>3. CASE UNCHANGED lockVars
  BY <1>3 DEF lockVars, LockInv, LockTypeOK, Held
<1>4. [Next]_vars => LockStep \/ OwnerStep \/ UNCHANGED lockVars
  BY DEF Next, vars, BridgeTimer, BridgeQueryFails, ProxyLoop, StartClient, ClientTimer,
         StopClient, LoseClient, Deliver, PublishCommand, RobotStands, RobotIgnores,
         RobotDrops, SetClockBack, Tick
<1> QED
  BY <1>1, <1>2, <1>3, <1>4

LEMMA NextDriveInv ==
  ASSUME DriveInv, [Next]_vars  PROVE  DriveInv'
<1>1. LockInv /\ Kept
  BY DEF DriveInv
<1>2. LockInv'
  BY <1>1, LockKeeps
<1> SUFFICES Kept'
  BY <1>2 DEF DriveInv
<1>3. CASE LockStep
  BY <1>1, <1>3, LockStepKeeps
<1>4. CASE OwnerStep
  BY <1>1, <1>4, StartDriveKeeps, StopDriveKeeps, LoseOwnerKeeps DEF OwnerStep
<1>5. CASE BridgeTimer
  BY <1>1, <1>5, BridgeTimerKeeps
<1>6. CASE BridgeQueryFails
  BY <1>1, <1>6, BridgeQueryFailsKeeps
<1>7. CASE ProxyLoop
  BY <1>1, <1>7, ProxyLoopKeeps
<1>8. CASE StartClient \/ ClientTimer \/ StopClient \/ LoseClient
  BY <1>1, <1>8, ClientKeeps
<1>9. CASE Deliver
  BY <1>1, <1>9, DeliverKeeps
<1>10. CASE PublishCommand
  BY <1>1, <1>10, PublishKeeps
<1>11. CASE RobotStands \/ RobotIgnores \/ RobotDrops
  BY <1>1, <1>11, RobotKeeps
<1>12. CASE SetClockBack
  BY <1>1, <1>12, SetClockBackKeeps
<1>13. CASE Tick
  BY <1>1, <1>13, TickKeeps
<1>14. CASE UNCHANGED vars
  BY <1>1, <1>14 DEF vars, lockVars, driveVars, Kept, TypeInv, NotFartherBack, Mover,
                     SeenStanding, AgeInv, AgeKept, Using
<1> QED
  BY <1>3, <1>4, <1>5, <1>6, <1>7, <1>8, <1>9, <1>10, <1>11, <1>12, <1>13, <1>14 DEF Next

LEMMA DriveInvHolds == Spec => []DriveInv
<1>1. Init => DriveInv
  BY InitDriveInv
<1>2. DriveInv /\ [Next]_vars => DriveInv'
  BY NextDriveInv
<1> QED
  BY <1>1, <1>2, PTL DEF Spec

(* Every variable of the drive keeps its type, and a process that does not *)
(* own the SDK keeps nothing (udp_cmd_vel_client.cpp, zsibot_sdk_proxy.cpp,*)
(* zsibot_robot_bridge.cpp).                                               *)
THEOREM DriveTypes == Spec => []SdkTypeOK
<1>1. DriveInv => SdkTypeOK
  BY DEF DriveInv, LockInv, LockTypeOK, Kept, TypeInv, SdkTypeOK, OwnerStates, ClientStates,
         Packets, RobotStates
<1> QED
  BY <1>1, DriveInvHolds, PTL

(* Never two owners of the SDK, however many lock files, crashes and       *)
(* clean-ups there are (sdk_owner_lock.hpp).                               *)
THEOREM OneOwnerOfTheSdk == Spec => []SingleOwner
<1>1. DriveInv => SingleOwner
  BY OneOwner DEF DriveInv
<1> QED
  BY <1>1, DriveInvHolds, PTL

(* What moves at the command of a live process is commanded by an owner    *)
(* that runs: who leaves in order leaves the robot stopped.                *)
THEOREM MotionHasOwner == Spec => []OrderlyStop
<1>1. DriveInv => OrderlyStop
  BY DEF DriveInv, Kept, Mover, OrderlyStop
<1> QED
  BY <1>1, DriveInvHolds, PTL

(* With stand-up required, whoever moves the robot has seen it stand.      *)
THEOREM MovesOnlyAfterStanding == Spec => []StandsBeforeMoving
<1>1. DriveInv => StandsBeforeMoving
  BY DEF DriveInv, Kept, Mover, SeenStanding, StandsBeforeMoving
<1> QED
  BY <1>1, DriveInvHolds, PTL

(* A motion is never older than both watchdogs, the network, the proxy's   *)
(* initialisation and the steps of the clock allow together, for every     *)
(* value of each.                                                          *)
THEOREM MotionAgeBounded == Spec => []StaleMotionBounded
<1>1. DriveInv => StaleMotionBounded
  <2> SUFFICES ASSUME DriveInv, robot.move = "go", robot.by \in Owners
               PROVE  go_age <= MaxMotion
    BY DEF StaleMotionBounded
  <2>1. go_age <= IF sdk[robot.by].served THEN Relayed + CmdTimeout ELSE MaxMotion
    BY DEF DriveInv, Kept, AgeInv
  <2>2. go_age \in Nat
    BY KeptNumbers DEF DriveInv, Kept
  <2> QED
    BY <2>1, <2>2, MaxMotionFacts
<1> QED
  BY <1>1, DriveInvHolds, PTL
=============================================================================
