----------------------------- MODULE FileMapping -----------------------------
(***************************************************************************)
(* rgm_vm_map_file and rgm_vm_release of src/rg_arena.c, system call by    *)
(* system call, on either platform: how a file comes to be mapped, what a  *)
(* failure half way leaves behind, and when a temporary file loses its     *)
(* name.  The OS may refuse any call, and the process may die between any  *)
(* two of them.                                                            *)
(*                                                                         *)
(* One path and one arena; sizes are in the arena's units.                 *)
(***************************************************************************)
EXTENDS Integers

CONSTANT AddrLimit       \* SIZE_MAX + 1: a 32-bit build maps no larger file

ASSUME AddrLimitAssumption == AddrLimit \in Nat \ {0}

VARIABLES
  windows,    \* the platform of the build
  dir,        \* the file at the path; stuck: the OS would not remove it, or
              \* the process died before it could (history)
  open,       \* what the process holds of it: "file", "section", "view"
  handle,     \* m_file # 0: the arena keeps the file handle (Windows)
  call        \* the rgm_vm_map_file under way

fileVars == <<windows, dir, open, handle, call>>

Absent        == [size |-> -1, temp |-> FALSE, stuck |-> FALSE]
NewFile(temp) == [size |-> 0, temp |-> temp, stuck |-> FALSE]
Idle == [at |-> "idle", mode |-> "existing", size |-> 0, readOnly |-> FALSE,
         before |-> Absent]

FileInit ==
  /\ windows \in BOOLEAN
  /\ dir = Absent /\ open = {} /\ handle = FALSE /\ call = Idle

GoTo(step) == call' = [call EXCEPT !.at = step]

\* Mutant: a plain file where delete-on-close is refused.
DirWithPlain(left) == dir

\* What is left of the file when the process holds `left`: Windows deletes a
\* delete-on-close file with its last handle, section and view.
DirWith(left) == IF windows /\ dir.temp /\ left = {} THEN Absent ELSE dir

-----------------------------------------------------------------------------
(* The call: _openExisting is mode "existing", _deleteOnClose "temp".      *)

MapFile(mode, size, readOnly) ==
  /\ call = Idle
  /\ call' = [at |-> "open", mode |-> mode, size |-> size, readOnly |-> readOnly,
              before |-> dir]
  /\ UNCHANGED <<windows, dir, open, handle>>

\* CREATE_ALWAYS and O_TRUNC empty a file that is there, CREATE_NEW and O_EXCL
\* refuse it.
OpenFile ==
  /\ call.at = "open"
  /\ \/ call.mode = "existing" /\ dir # Absent /\ UNCHANGED dir
     \/ call.mode = "keep" /\ dir' = NewFile(FALSE)
     \/ call.mode = "temp" /\ dir = Absent /\ dir' = NewFile(TRUE)
  /\ open' = {"file"}
  /\ GoTo(IF call.mode = "temp" /\ ~windows THEN "unlink" ELSE "size")
  /\ UNCHANGED <<windows, handle>>

\* POSIX: a temporary's name goes at once; the result of unlink is not looked at.
UnlinkTemp ==
  /\ call.at = "unlink"
  /\ dir' \in {Absent, [dir EXCEPT !.stuck = TRUE]}
  /\ GoTo("size")
  /\ UNCHANGED <<windows, open, handle>>

\* An existing file is as large as it is and must not be empty; POSIX sizes a
\* new one, whether or not it still has a name.
SizeFile ==
  /\ call.at = "size"
  /\ IF call.mode = "existing"
       THEN /\ dir.size > 0
            /\ call' = [call EXCEPT !.at = "section", !.size = dir.size]
            /\ UNCHANGED dir
       ELSE /\ GoTo("section")
            /\ dir' = IF windows \/ dir = Absent THEN dir
                                                 ELSE [dir EXCEPT !.size = call.size]
  /\ UNCHANGED <<windows, open, handle>>

\* The check against SIZE_MAX and, on Windows, the section, which gives a new file
\* its size and cannot be empty.
MakeSection ==
  /\ call.at = "section"
  /\ call.size < AddrLimit
  /\ windows => call.size > 0
  /\ open' = IF windows THEN open \cup {"section"} ELSE open
  /\ dir' = IF windows THEN [dir EXCEPT !.size = call.size] ELSE dir
  /\ GoTo("view")
  /\ UNCHANGED <<windows, handle>>

\* Mutant: the file handle is closed with the section's.
MapViewClosesAll ==
  /\ call.at = "view" /\ call.size > 0
  /\ open' = {"view"}
  /\ handle' = (windows /\ ~call.readOnly)
  /\ GoTo("mapped")
  /\ UNCHANGED <<windows, dir>>

\* The view, which keeps the file mapped: all else is closed, but for the file
\* handle of a writable view on Windows.
MapView ==
  /\ call.at = "view" /\ call.size > 0
  /\ open' = {"view"} \cup (IF windows /\ ~call.readOnly THEN {"file"} ELSE {})
  /\ handle' = (windows /\ ~call.readOnly)
  /\ GoTo("mapped")
  /\ UNCHANGED <<windows, dir>>

\* Mutant: a failed create leaves what it made.
FailLeavesFile ==
  /\ call.at \in {"open", "size", "section", "view"}
  /\ open' = {} /\ dir' = DirWith({})
  /\ call' = Idle
  /\ UNCHANGED <<windows, handle>>

\* A step refused: everything is closed, and a file made to be kept is removed.
Fail ==
  /\ call.at \in {"open", "size", "section", "view"}
  /\ open' = {} /\ dir' = DirWith({})
  /\ IF call.mode = "keep" /\ call.at # "open" THEN GoTo("remove") ELSE call' = Idle
  /\ UNCHANGED <<windows, handle>>

RemoveFile ==
  /\ call.at = "remove"
  /\ dir' \in {Absent, [dir EXCEPT !.stuck = TRUE]}
  /\ call' = Idle
  /\ UNCHANGED <<windows, open, handle>>

MapFileStep ==
  OpenFile \/ UnlinkTemp \/ SizeFile \/ MakeSection \/ MapView \/ Fail \/ RemoveFile

\* rgm_vm_release of a file-backed arena: the view, and the handle it kept.
ReleaseFile ==
  LET left == open \ ({"view"} \cup IF handle THEN {"file"} ELSE {}) IN
  /\ open' = left /\ dir' = DirWith(left)
  /\ handle' = FALSE
  /\ UNCHANGED <<windows, call>>

\* The end of the process, wherever it is: the OS closes what it held.
CloseAll ==
  /\ call.at # "dead"
  /\ dir' = IF call.at = "unlink" THEN [dir EXCEPT !.stuck = TRUE] ELSE DirWith({})
  /\ open' = {} /\ handle' = FALSE /\ call' = [Idle EXCEPT !.at = "dead"]
  /\ UNCHANGED windows

Restart ==
  /\ call.at = "dead"
  /\ call' = Idle
  /\ UNCHANGED <<windows, dir, open, handle>>

\* Others use the path while the process does not: the file is removed, or one of
\* any size is put there.
OthersWrite(size) ==
  /\ call = Idle /\ open = {}
  /\ dir' \in {Absent, [NewFile(FALSE) EXCEPT !.size = size]}
  /\ UNCHANGED <<windows, open, handle, call>>

-----------------------------------------------------------------------------
(* Properties.                                                             *)

FileTypeOK ==
  /\ {windows, handle} \subseteq BOOLEAN
  /\ dir.size \in Nat \cup {-1} /\ {dir.temp, dir.stuck} \subseteq BOOLEAN
  /\ open \subseteq {"file", "section", "view"}
  /\ call.mode \in {"existing", "keep", "temp"} /\ call.size \in Nat
  /\ call.at \in {"idle", "open", "unlink", "size", "section", "view", "mapped", "remove", "dead"}

\* A call that returns with a failure, whichever step was refused, leaves the path
\* as it found it or, if it had begun to make a file to be kept, with none: never
\* with an empty or half-made file, unless the OS would not remove it.  A temporary
\* never harms a file that was there.
FailedCallsTidy ==
  [][call.at \notin {"idle", "dead", "mapped"} /\ call' = Idle
       => \/ dir' = call.before
          \/ call.mode = "keep" /\ dir' = Absent
          \/ dir'.stuck]_fileVars

\* A temporary file has a name only while the process holds it, however it lets go
\* of it, unless the OS would not remove it or the process died before it could.
TempStaysScratch == dir.temp /\ ~dir.stuck => open # {}
==============================================================================
