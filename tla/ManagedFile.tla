---------------------------- MODULE ManagedFile ----------------------------
(***************************************************************************)
(* One replacement of a Target's configuration file, a system call a step, *)
(* while the operator's editor saves to the same path.  The new bytes are  *)
(* written to a temporary name beside the file and the two names are       *)
(* exchanged, so that whatever the exchange displaced can be looked at,    *)
(* and put back, before it is deleted.                                     *)
(***************************************************************************)
EXTENDS Naturals

CONSTANT MaxSaves  \* bound: saves and removals the editor makes

ASSUME MaxSavesAssumption == MaxSaves \in Nat

Absent == [inode |-> 0, bytes |-> 0]
(* Contents: the editor's n-th save is n, the file as it was read is 0.     *)
Muxvia == MaxSaves + 1 \* the bytes to install
Empty == MaxSaves + 2  \* a temporary file before it is written

Original == [inode |-> 1, bytes |-> 0]
Written == [inode |-> 2, bytes |-> Muxvia]

VARIABLES
  target,    \* what the configuration path names
  temporary, \* what the temporary name names
  expected,  \* the identity the caller read
  remove,    \* the caller wants the file gone (remove_file)
  pc,        \* the next system call
  displaced, \* displaced_identity
  installed, \* installed_identity
  result,    \* what replace_with_mode will return
  handle,    \* the inode the editor has open, or 0
  saves,     \* saves and removals made
  newest,    \* the operator's file: the last save, or Absent once removed
  renamed    \* what the path named when the rename replaced it, or "none"

program == <<expected, remove>>
editor == <<handle, saves, newest>>
vars == <<target, temporary, expected, remove, pc, displaced, installed, result,
          handle, saves, newest, renamed>>

Files == [inode : 0 .. (MaxSaves + 2), bytes : 0 .. MaxSaves \cup {Muxvia, Empty}]
Steps == {"check", "write", "recheck", "rename", "displaced", "installed", "rollBack",
          "rolledBack", "unlink", "sync", "undo", "undone", "cleanup", "done", "crashed"}

TypeOK ==
  /\ {target, temporary, expected, displaced, installed, newest} \subseteq Files
  /\ target.inode = temporary.inode => target = Absent
  /\ remove \in BOOLEAN
  /\ pc \in Steps
  /\ result \in {"none", "ok", "writeFailed", "recoveryRequired"}
  /\ handle \in 0 .. (MaxSaves + 2)
  /\ saves \in 0 .. MaxSaves
  /\ renamed \in Files \cup {[inode |-> 0, bytes |-> Empty]}

NotRenamed == [inode |-> 0, bytes |-> Empty]

(* The caller has read the file; it may have changed since.                 *)
Init ==
  /\ expected \in {Original, Absent} /\ remove \in BOOLEAN
  /\ target = expected /\ temporary = Absent /\ newest = expected
  /\ pc = "check" /\ result = "none"
  /\ displaced = Absent /\ installed = Absent
  /\ handle = 0 /\ saves = 0 /\ renamed = NotRenamed

-----------------------------------------------------------------------------
Goto(step) == pc' = step /\ UNCHANGED <<program, editor>>
(* Slip: the error returns before the cleanup. *)
ReturnAtOnce(r) == Goto("done") /\ result' = r

(* The closure returns with the temporary file still to be cleaned up...    *)
Return(r) == Goto("cleanup") /\ result' = r

(* ... or, retain_temporary being set, at once.                             *)
Retain == Goto("done") /\ result' = "recoveryRequired"

Check ==
  /\ pc = "check"
  /\ \/ target = expected /\ temporary' = [Written EXCEPT !.bytes = Empty]
        /\ Goto("write") /\ UNCHANGED result
     \/ Goto("done") /\ result' = "writeFailed"
        /\ temporary' \in {Absent, [Written EXCEPT !.bytes = Empty]}
  /\ UNCHANGED <<target, displaced, installed, renamed>>

Write ==
  /\ pc = "write"
  /\ \/ temporary' = Written /\ Goto("recheck") /\ UNCHANGED result
     \/ Return("writeFailed") /\ UNCHANGED temporary
  /\ UNCHANGED <<target, displaced, installed, renamed>>

Recheck ==
  /\ pc = "recheck"
  /\ \/ temporary = Written /\ target = expected /\ Goto("rename") /\ UNCHANGED result
     \/ Return("writeFailed")
  /\ UNCHANGED <<target, temporary, displaced, installed, renamed>>

Exchange == target' = temporary /\ temporary' = target

(* RENAME_EXCHANGE wants both names; RENAME_NOREPLACE wants one of them.    *)
BothNames == target # Absent /\ temporary # Absent

Rename ==
  /\ pc = "rename"
  /\ \/ /\ IF expected # Absent THEN BothNames ELSE target = Absent
        /\ Exchange /\ renamed' = target
        /\ Goto(IF expected # Absent THEN "displaced" ELSE "installed")
        /\ UNCHANGED result
     \/ Return("writeFailed") /\ UNCHANGED <<target, temporary, renamed>>
  /\ UNCHANGED <<displaced, installed>>

LookDisplaced ==
  /\ pc = "displaced"
  /\ \/ displaced' = temporary /\ Goto("installed") /\ UNCHANGED result
     \/ Retain /\ UNCHANGED displaced
  /\ UNCHANGED <<target, temporary, installed, renamed>>

(* Only a displaced file that was edited in place is put back.              *)
Installed(file) ==
  IF expected = Absent THEN IF file = Written THEN "sync" ELSE "done"
  ELSE IF displaced = expected /\ file = Written
       THEN IF remove THEN "unlink" ELSE "sync"
       ELSE IF displaced.inode = expected.inode THEN "rollBack" ELSE "done"

LookInstalled ==
  /\ pc = "installed"
  /\ \/ /\ installed' = target /\ Goto(Installed(target))
        /\ result' = IF Installed(target) = "done" THEN "recoveryRequired" ELSE result
     \/ Retain /\ UNCHANGED installed
  /\ UNCHANGED <<target, temporary, displaced, renamed>>

RollBack ==
  /\ pc = "rollBack"
  /\ \/ BothNames /\ Exchange /\ Goto("rolledBack") /\ UNCHANGED result
     \/ Retain /\ UNCHANGED <<target, temporary>>
  /\ UNCHANGED <<displaced, installed, renamed>>

RolledBack ==
  /\ pc = "rolledBack"
  /\ \/ target = displaced /\ temporary = installed /\ Return("writeFailed")
     \/ Retain
  /\ UNCHANGED <<target, temporary, displaced, installed, renamed>>

Unlink ==
  /\ pc = "unlink"
  /\ \/ target # Absent /\ target' = Absent /\ Goto("sync") /\ UNCHANGED result
     \/ Retain /\ UNCHANGED target
  /\ UNCHANGED <<temporary, displaced, installed, renamed>>

Sync ==
  /\ pc = "sync"
  /\ \/ Return("ok")
     \/ Goto("undo") /\ UNCHANGED result
  /\ UNCHANGED <<target, temporary, displaced, installed, renamed>>

(* Which names the undoing rename wants: it renames the removed file back,  *)
(* exchanges the two again, or takes the created file away.                 *)
CanUndo ==
  IF expected = Absent THEN target # Absent
  ELSE IF remove THEN target = Absent ELSE BothNames

Undo ==
  /\ pc = "undo"
  /\ \/ CanUndo /\ Exchange /\ Goto("undone") /\ UNCHANGED result
     \/ Retain /\ UNCHANGED <<target, temporary>>
  /\ UNCHANGED <<displaced, installed, renamed>>

Undone ==
  /\ pc = "undone"
  /\ \/ /\ target = expected
        /\ temporary = (IF remove /\ expected # Absent THEN Absent ELSE Written)
        /\ Return("writeFailed")
     \/ Retain
  /\ UNCHANGED <<target, temporary, displaced, installed, renamed>>

(* cleanup_temporary: the result stands only if the name is durably gone.   *)
Cleanup ==
  /\ pc = "cleanup"
  /\ \/ temporary' = Absent /\ Goto("done") /\ UNCHANGED result
     \/ temporary' \in {Absent, temporary} /\ Retain
  /\ UNCHANGED <<target, displaced, installed, renamed>>

-----------------------------------------------------------------------------
(* The service is killed.                                                   *)
Crash ==
  /\ pc \notin {"done", "crashed"}
  /\ pc' = "crashed"
  /\ UNCHANGED <<target, temporary, program, displaced, installed, result, editor, renamed>>

(* An editor opens the file and later saves through the handle, which keeps *)
(* its inode whatever name that has by then...                              *)
Open ==
  /\ target # Absent /\ handle' = target.inode
  /\ UNCHANGED <<target, temporary, program, pc, displaced, installed, result, saves,
                 newest, renamed>>

Saved(file) == saves' = saves + 1 /\ newest' = file

SaveInPlace ==
  /\ handle # 0 /\ saves < MaxSaves
  /\ LET file == [inode |-> handle, bytes |-> saves + 1] IN
     /\ handle \in {target.inode, temporary.inode}
     /\ target' = IF target.inode = handle THEN file ELSE target
     /\ temporary' = IF temporary.inode = handle THEN file ELSE temporary
     /\ Saved(file)
  /\ handle' = 0
  /\ UNCHANGED <<program, pc, displaced, installed, result, renamed>>

(* ... or writes a file of its own and renames it over the path.            *)
SaveByRename ==
  /\ saves < MaxSaves
  /\ LET file == [inode |-> saves + 3, bytes |-> saves + 1] IN
     target' = file /\ Saved(file)
  /\ UNCHANGED <<temporary, program, pc, displaced, installed, result, handle, renamed>>

Remove ==
  /\ target # Absent /\ saves < MaxSaves
  /\ target' = Absent /\ Saved(Absent)
  /\ UNCHANGED <<temporary, program, pc, displaced, installed, result, handle, renamed>>

Replacing ==
  \/ Check \/ Write \/ Recheck \/ Rename \/ LookDisplaced \/ LookInstalled
  \/ RollBack \/ RolledBack \/ Unlink \/ Sync \/ Undo \/ Undone \/ Cleanup

Next == Replacing \/ Crash \/ Open \/ SaveInPlace \/ SaveByRename \/ Remove

Spec == Init /\ [][Next]_vars

-----------------------------------------------------------------------------
Linked(file) == file \in {target, temporary}
Finished(r) == pc = "done" /\ result = r

(* The file the rename moved away stays under one of the two names, unless  *)
(* the operator saved over it or it is the file the caller read and the     *)
(* replacement went through: no failure, no save that slipped in before the *)
(* rename and no crash loses it.                                            *)
Replaced == renamed = expected /\ target \in {Written, Absent}

NothingLostByRename == newest = renamed /\ newest # Absent => Linked(newest) \/ Replaced

(* WriteFailed means that nothing was changed: none of the bytes, which     *)
(* hold a credential, are in the directory.                                 *)
FailureLeavesNoBytes ==
  Finished("writeFailed") => Muxvia \notin {target.bytes, temporary.bytes}

(* A call that succeeded replaced exactly what the caller had read, and has *)
(* left no copy of it behind.                                               *)
SuccessReplacesWhatWasRead ==
  Finished("ok") => renamed = expected /\ temporary = Absent

(* What a replacement says is what it did, whatever an editor saved and     *)
(* wherever it stopped (atomic_replace).                                    *)
ReplacementIsHonest ==
  TypeOK /\ NothingLostByRename /\ FailureLeavesNoBytes /\ SuccessReplacesWhatWasRead
=============================================================================
