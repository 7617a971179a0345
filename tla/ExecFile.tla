------------------------------ MODULE ExecFile ------------------------------
(***************************************************************************)
(* Memory for closures where static trampolines are not supported and no   *)
(* page may be both writable and executable: dlmmap_locked of closures.c   *)
(* maps each segment twice from one temporary file.                        *)
(*                                                                         *)
(* open_temp_exec_file_mutex, and the allocator's lock around it, let one  *)
(* call run at a time; pc is the next system call it makes, and every      *)
(* system call may fail.  Offsets and lengths are in pages.                *)
(***************************************************************************)
EXTENDS Integers, Sequences

CONSTANTS
  Repeat,    \* repeat field of each of open_temp_exec_file_opts: only the
             \* mounts files repeat, and a platform without HAVE_MNTENT has none
  MaxMounts, \* most directories that a mounts file lists
  Lengths,   \* segment lengths that the allocator asks for
  MaxPages   \* most pages written to the file

ASSUME ExecAssumption ==
  /\ Repeat \in Seq(BOOLEAN) /\ Repeat # <<>>
  /\ MaxMounts \in Nat /\ MaxPages \in Nat
  /\ Lengths \subseteq Nat \ {0}

VARIABLES
  pc,        \* what dlmmap_locked does next; "idle" between calls
  length,    \* its parameter
  idx,       \* open_temp_exec_file_opts_idx, from 1
  mounts,    \* entries of the mounts file that were read already
  execfd,    \* whether the temporary file is open
  file,      \* its length, its file offset and the blocks it has on disk
  execsize,  \* the space allocated from the file
  segments   \* segments mapped from it, at their offsets

vars == <<pc, length, idx, mounts, execfd, file, execsize, segments>>

NewFile == [size |-> 0, pos |-> 0, blocks |-> {}]

\* write() of n pages: at the file offset, which moves on.
Written(f, n) ==
  LET end == f.pos + n IN
  [size |-> IF end > f.size THEN end ELSE f.size,
   pos |-> end,
   blocks |-> f.blocks \cup f.pos .. end - 1]

\* Mutant: the file is emptied.
Emptied(f, off) == [f EXCEPT !.size = 0, !.blocks = {}]

\* ftruncate(): the file offset stays.
Truncated(f, off) == [f EXCEPT !.size = off, !.blocks = @ \cap 0 .. off - 1]

\* Mutant: after the last option comes the first one, for ever.
NeverLast(i) == FALSE

\* open_temp_exec_file_opts_next: is option i the last, and which is next.
Last(i) == i = Len(Repeat)
NextOpt(i) == IF i = Len(Repeat) THEN 1 ELSE i + 1

-----------------------------------------------------------------------------
\* A call of dlmmap_locked begins.
Call(n) ==
  /\ pc = "idle"
  /\ file.pos + n <= MaxPages
  /\ length' = n
  /\ IF execfd THEN pc' = "allocate_space" /\ UNCHANGED idx
               ELSE pc' = "open" /\ idx' = 1
  /\ UNCHANGED <<mounts, execfd, file, execsize, segments>>

\* open_temp_exec_file: the current option yields a file.  A mounts file is
\* asked again next time.
Open ==
  /\ pc = "open"
  /\ IF Repeat[idx] THEN mounts < MaxMounts /\ mounts' = mounts + 1 /\ UNCHANGED idx
                    ELSE idx' = NextOpt(idx) /\ UNCHANGED mounts
  /\ execfd' = TRUE
  /\ file' = NewFile
  /\ pc' = "allocate_space"
  /\ UNCHANGED <<length, execsize, segments>>

\* open_temp_exec_file: the current option yields none; a mounts file is
\* closed, and after the last option the call fails.
OpenFails ==
  /\ pc = "open"
  /\ mounts' = IF Repeat[idx] THEN 0 ELSE mounts
  /\ idx' = NextOpt(idx)
  /\ pc' = IF Last(idx) THEN "idle" ELSE "open"
  /\ UNCHANGED <<length, execfd, file, execsize, segments>>

\* allocate_space writes page by page; the disk may be full at any of them.
AllocateSpace ==
  /\ pc = "allocate_space"
  /\ \E n \in 0 .. length :
       /\ file' = Written(file, n)
       /\ pc' = IF n = length THEN "map_exec" ELSE "idle"
  /\ UNCHANGED <<length, idx, mounts, execfd, execsize, segments>>

MapExec ==
  /\ pc = "map_exec"
  /\ IF execsize = 0 /\ Repeat[idx]
     THEN mounts' = 0 /\ idx' = NextOpt(idx)
     ELSE UNCHANGED <<mounts, idx>>
  /\ pc' = "map_data"
  /\ UNCHANGED <<length, execfd, file, execsize, segments>>

\* The result of ftruncate() is ignored.
Undo == file' \in {file, Truncated(file, execsize)}

\* The executable mapping fails: a file that never worked is closed, and the
\* search goes on; otherwise the call fails.
MapExecFails ==
  /\ pc = "map_exec"
  /\ IF execsize = 0
     THEN execfd' = FALSE /\ pc' = "open" /\ file' = NewFile
     ELSE pc' = "idle" /\ Undo /\ UNCHANGED execfd
  /\ UNCHANGED <<length, idx, mounts, execsize, segments>>

\* Mutant: execsize is not advanced.
SizeKept(n) == execsize

SizeAfter(n) == execsize + n

MapData ==
  /\ pc = "map_data"
  /\ segments' = segments \cup {[off |-> execsize, len |-> length]}
  /\ execsize' = SizeAfter(length)
  /\ pc' = "idle"
  /\ UNCHANGED <<length, idx, mounts, execfd, file>>

\* The writable mapping fails: the executable one is undone.
MapDataFails ==
  /\ pc = "map_data"
  /\ Undo
  /\ pc' = "idle"
  /\ UNCHANGED <<length, idx, mounts, execfd, execsize, segments>>

\* dlmunmap: "We don't bother decreasing execsize or truncating the file".
Unmap(s) ==
  /\ pc = "idle"
  /\ segments' = segments \ {s}
  /\ UNCHANGED <<pc, length, idx, mounts, execfd, file, execsize>>

Init ==
  /\ pc = "idle" /\ length = 0
  /\ idx = 1 /\ mounts = 0
  /\ execfd = FALSE /\ file = NewFile /\ execsize = 0
  /\ segments = {}

Step == \/ Open \/ OpenFails \/ AllocateSpace
        \/ MapExec \/ MapExecFails \/ MapData \/ MapDataFails

Next == Step \/ (\E n \in Lengths : Call(n)) \/ \E s \in segments : Unmap(s)

\* The thread inside dlmmap_locked goes on.
Spec == Init /\ [][Next]_vars
FairSpec == Spec /\ WF_vars(Step)

-----------------------------------------------------------------------------
TypeOK ==
  /\ pc \in {"idle", "open", "allocate_space", "map_exec", "map_data"}
  /\ length \in Lengths \cup {0}
  /\ idx \in 1 .. Len(Repeat) /\ mounts \in 0 .. MaxMounts
  /\ execfd \in BOOLEAN
  /\ file \in [size : 0 .. MaxPages, pos : 0 .. MaxPages, blocks : SUBSET (0 .. MaxPages)]
  /\ execsize \in 0 .. MaxPages
  /\ segments \subseteq [off : 0 .. MaxPages, len : Lengths]

Pages(s) == s.off .. s.off + s.len - 1

\* Whatever fails in between, no two segments share a page of the file: a
\* closure written through one would change the code of the other.
SegmentsDisjoint ==
  \A s, t \in segments : s # t => Pages(s) \cap Pages(t) = {}

\* Undoing a failed call never cuts the file under a mapped segment, which
\* would end in SIGBUS at the next closure call.
SegmentsInFile == \A s \in segments : s.off + s.len <= file.size

\* The retry loop always ends, with a segment or with a failure.
CallsReturn == pc # "idle" ~> pc = "idle"
=============================================================================
