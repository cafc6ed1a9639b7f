---------------------------- MODULE SdkOwnerLock ----------------------------
(***************************************************************************)
(* The advisory lock that makes one process of a host the owner of the     *)
(* vendor SDK (sdk_owner_lock.hpp): open the lock file, flock it without   *)
(* waiting, then see whether the file that was locked is still the one in  *)
(* the directory.  A clean-up of the directory, which is not part of the   *)
(* repository, removes a lock file that nobody holds; the kernel drops the *)
(* lock of a process that dies.                                            *)
(***************************************************************************)
EXTENDS FiniteSets

CONSTANTS Owners,     \* the processes that may own the SDK
          Inodes,     \* files the lock path may name, one after the other
          NoInode

ASSUME LockAssumption == NoInode \notin Inodes

VARIABLES path,       \* the file the lock path names
          fd,         \* the file each process has open
          pc          \* how far each process has come

lockVars == <<path, fd, pc>>

Stages == {"off", "opened", "locked", "owned"}

LockInit ==
  /\ path = NoInode
  /\ fd = [o \in Owners |-> NoInode]
  /\ pc = [o \in Owners |-> "off"]

Enter(o, file, stage) ==
  fd' = [fd EXCEPT ![o] = file] /\ pc' = [pc EXCEPT ![o] = stage]

Holders(file) == {o \in Owners : fd[o] = file /\ pc[o] \in {"locked", "owned"}}

(* O_CREAT: the file is made when the path names none.                     *)
OpenLock(o) ==
  /\ pc[o] = "off"
  /\ path' \in IF path # NoInode THEN {path}
               ELSE {i \in Inodes : \A p \in Owners : fd[p] # i}
  /\ Enter(o, path', "opened")

(* LOCK_EX | LOCK_NB: a file that is held is refused at once.              *)
TakeLock(o) ==
  /\ pc[o] = "opened"
  /\ IF Holders(fd[o]) = {} THEN Enter(o, fd[o], "locked") ELSE Enter(o, NoInode, "off")
  /\ UNCHANGED path

(* Faulty variant: the links of the file are not counted.                  *)
OwnLockUnlinked(o) == pc[o] = "locked" /\ Enter(o, fd[o], "owned") /\ UNCHANGED path

(* One link, and the identity could be written.                            *)
OwnLock(o) ==
  /\ pc[o] = "locked" /\ fd[o] = path
  /\ Enter(o, fd[o], "owned") /\ UNCHANGED path

(* The file is no safe file, the identity cannot be written, the owner is  *)
(* done, or the process dies.                                              *)
ReleaseLock(o) ==
  /\ pc[o] # "off"
  /\ Enter(o, NoInode, "off") /\ UNCHANGED path

CleanUp ==
  /\ path # NoInode /\ Holders(path) = {}
  /\ path' = NoInode /\ UNCHANGED <<fd, pc>>

-----------------------------------------------------------------------------
(* Property.                                                               *)

(* Never two owners of the SDK on a host, though the lock file is removed  *)
(* and made again while processes are between opening and locking it.      *)
SingleOwner == \A o, p \in Owners : pc[o] = "owned" /\ pc[p] = "owned" => o = p
=============================================================================
