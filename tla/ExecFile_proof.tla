--------------------------- MODULE ExecFile_proof ---------------------------
(***************************************************************************)
(* For every list of places and every length: whatever system calls fail,  *)
(* segments never share a page of the file, nor lie beyond its end.        *)
(*                                                                         *)
(* Neither is inductive.  Both follow from where execsize stands: behind   *)
(* every segment, and neither beyond the end of the file nor beyond the    *)
(* offset at which the next call writes.                                   *)
(***************************************************************************)
EXTENDS ExecFile, TLAPS

\* Every segment ends where execsize stands, or before.
Behind == \A s \in segments : s.off + s.len <= execsize

\* execsize only counts what was written to the open file, and the rest of
\* what the call asked for fits into the bound.
Grown ==
  /\ execsize <= file.size /\ execsize <= file.pos
  /\ ~execfd => execsize = 0
  /\ pc \in {"open", "allocate_space"} => file.pos + length <= MaxPages
  /\ pc = "open" => ~execfd
  /\ pc \in {"allocate_space", "map_exec", "map_data"} => execfd
  /\ pc \in {"map_exec", "map_data"} =>
       execsize + length <= file.size /\ execsize + length <= file.pos
  /\ pc # "idle" => length \in Lengths

IInv == TypeOK /\ Behind /\ SegmentsDisjoint /\ Grown

-----------------------------------------------------------------------------
\* Lengths are positive.
LEMMA LengthsPositive == \A n \in Lengths : n \in Nat
BY ExecAssumption

\* The index of open_temp_exec_file_opts_next stays inside the list.
LEMMA NextOptInside ==
  ASSUME NEW i \in 1 .. Len(Repeat)
  PROVE  NextOpt(i) \in 1 .. Len(Repeat)
<1>1. Len(Repeat) \in Nat
  BY ExecAssumption
<1> QED
  BY <1>1 DEF NextOpt

\* The list of places is not empty, so the search has where to begin.
LEMMA FirstOpt == Len(Repeat) \in Nat /\ 1 \in 1 .. Len(Repeat)
<1>1. Repeat \in Seq(BOOLEAN) /\ Repeat # <<>>
  BY ExecAssumption
<1>2. Len(Repeat) \in Nat /\ Len(Repeat) > 0
  BY <1>1
<1> QED
  BY <1>2

\* An offset that leaves room for n more pages still does after write().
LEMMA WriteGrows ==
  ASSUME NEW f \in [size : 0 .. MaxPages, pos : 0 .. MaxPages, blocks : SUBSET (0 .. MaxPages)],
         NEW n \in Nat, f.pos + n <= MaxPages
  PROVE  /\ Written(f, n) \in [size : 0 .. MaxPages, pos : 0 .. MaxPages,
                               blocks : SUBSET (0 .. MaxPages)]
         /\ Written(f, n).pos = f.pos + n
         /\ Written(f, n).size >= f.size /\ Written(f, n).size >= f.pos + n
<1>1. MaxPages \in Nat /\ f.size \in 0 .. MaxPages /\ f.pos \in 0 .. MaxPages
       /\ f.blocks \subseteq 0 .. MaxPages
  BY ExecAssumption
<1>2. f.pos .. f.pos + n - 1 \subseteq 0 .. MaxPages
  BY <1>1
<1>3. f.blocks \cup f.pos .. f.pos + n - 1 \in SUBSET (0 .. MaxPages)
  BY <1>1, <1>2
<1> QED
  BY <1>1, <1>3 DEF Written

\* A file cut at or before its end keeps its offset and ends there.
LEMMA CutKeepsOffset ==
  ASSUME NEW f \in [size : 0 .. MaxPages, pos : 0 .. MaxPages, blocks : SUBSET (0 .. MaxPages)],
         NEW off \in 0 .. MaxPages
  PROVE  /\ Truncated(f, off) \in [size : 0 .. MaxPages, pos : 0 .. MaxPages,
                                   blocks : SUBSET (0 .. MaxPages)]
         /\ Truncated(f, off).pos = f.pos /\ Truncated(f, off).size = off
<1>1. f.blocks \cap 0 .. off - 1 \in SUBSET (0 .. MaxPages)
  OBVIOUS
<1> QED
  BY <1>1 DEF Truncated

\* A fresh file fits the bound.
LEMMA FreshFile ==
  NewFile \in [size : 0 .. MaxPages, pos : 0 .. MaxPages, blocks : SUBSET (0 .. MaxPages)]
BY ExecAssumption DEF NewFile

\* At the start there is no file and no segment.
LEMMA InitIInv == Init => IInv
<1> SUFFICES ASSUME Init PROVE IInv
  OBVIOUS
<1>t. MaxPages \in Nat /\ MaxMounts \in Nat
  BY ExecAssumption
<1>f. file \in [size : 0 .. MaxPages, pos : 0 .. MaxPages, blocks : SUBSET (0 .. MaxPages)]
  BY FreshFile DEF Init
<1>i. idx \in 1 .. Len(Repeat)
  BY FirstOpt DEF Init
<1>1. TypeOK
  <2>1. execsize \in 0 .. MaxPages /\ mounts \in 0 .. MaxMounts
    BY <1>t DEF Init
  <2>2. segments \subseteq [off : 0 .. MaxPages, len : Lengths]
    BY DEF Init
  <2>3. pc = "idle" /\ length = 0 /\ execfd = FALSE
    BY DEF Init
  <2> QED
    BY <1>f, <1>i, <2>1, <2>2, <2>3 DEF TypeOK
<1>2. Behind /\ SegmentsDisjoint
  BY DEF Init, Behind, SegmentsDisjoint
<1>3. Grown
  BY DEF Init, Grown, NewFile
<1> QED
  BY <1>1, <1>2, <1>3 DEF IInv

-----------------------------------------------------------------------------
\* No system call and no failure breaks the invariant.
LEMMA NextIInv == IInv /\ [Next]_vars => IInv'
<1> SUFFICES ASSUME IInv, [Next]_vars PROVE IInv'
  OBVIOUS
<1> USE DEF IInv
<1>n. MaxPages \in Nat /\ MaxMounts \in Nat /\ Lengths \subseteq Nat \ {0}
  BY ExecAssumption
<1>t. /\ file \in [size : 0 .. MaxPages, pos : 0 .. MaxPages, blocks : SUBSET (0 .. MaxPages)]
      /\ execsize \in 0 .. MaxPages /\ mounts \in 0 .. MaxMounts
      /\ idx \in 1 .. Len(Repeat) /\ length \in Nat
      /\ file.size \in 0 .. MaxPages /\ file.pos \in 0 .. MaxPages
  BY <1>n DEF TypeOK
\* What an action that leaves execsize and the segments alone has to show.
<1>k. ASSUME UNCHANGED <<execsize, segments>> PROVE (Behind /\ SegmentsDisjoint)'
  BY <1>k DEF Behind, SegmentsDisjoint, Pages
<1>1. ASSUME NEW n \in Lengths, Call(n) PROVE IInv'
  <2>1. TypeOK'
    BY <1>1, <1>n, <1>t, FirstOpt DEF Call, TypeOK
  <2>2. Grown'
    BY <1>1, <1>n, <1>t DEF Call, Grown
  <2> QED
    BY <1>1, <1>k, <2>1, <2>2 DEF Call
<1>2. CASE Open
  <2>1. TypeOK'
    <3>1. file' \in [size : 0 .. MaxPages, pos : 0 .. MaxPages, blocks : SUBSET (0 .. MaxPages)]
      BY <1>2, FreshFile DEF Open
    <3>2. idx' \in 1 .. Len(Repeat) /\ mounts' \in 0 .. MaxMounts
      BY <1>2, <1>n, <1>t, NextOptInside DEF Open
    <3> QED
      BY <1>2, <1>n, <3>1, <3>2 DEF Open, TypeOK
  <2>2. execsize = 0 /\ length \in Lengths /\ length \in Nat /\ length <= MaxPages
    BY <1>2, <1>n, <1>t DEF Open, Grown
  <2>3. Grown'
    BY <1>2, <1>n, <1>t, <2>2 DEF Open, Grown, NewFile
  <2> QED
    BY <1>2, <1>k, <2>1, <2>3 DEF Open
<1>3. CASE OpenFails
  <2>1. TypeOK'
    BY <1>3, <1>n, <1>t, NextOptInside DEF OpenFails, TypeOK
  <2>2. Grown'
    BY <1>3, <1>t DEF OpenFails, Grown
  <2> QED
    BY <1>3, <1>k, <2>1, <2>2 DEF OpenFails
<1>4. CASE AllocateSpace
  <2>1. PICK n \in 0 .. length :
          /\ file' = Written(file, n)
          /\ pc' = IF n = length THEN "map_exec" ELSE "idle"
    BY <1>4 DEF AllocateSpace
  <2>2. n \in Nat /\ n <= length /\ file.pos + n <= MaxPages
    BY <1>4, <1>n, <1>t, <2>1 DEF AllocateSpace, Grown
  <2>3. /\ file' \in [size : 0 .. MaxPages, pos : 0 .. MaxPages, blocks : SUBSET (0 .. MaxPages)]
        /\ file'.pos = file.pos + n /\ file'.size >= file.size /\ file'.size >= file.pos + n
    BY <1>t, <2>1, <2>2, WriteGrows
  <2>4. file'.size \in 0 .. MaxPages /\ file'.pos \in 0 .. MaxPages
    BY <2>3
  <2>5. TypeOK'
    BY <1>4, <2>1, <2>3 DEF AllocateSpace, TypeOK
  <2>6. Grown'
    BY <1>4, <1>n, <1>t, <2>1, <2>2, <2>3, <2>4 DEF AllocateSpace, Grown
  <2> QED
    BY <1>4, <1>k, <2>5, <2>6 DEF AllocateSpace
<1>5. CASE MapExec
  <2>1. TypeOK'
    BY <1>5, <1>n, <1>t, NextOptInside DEF MapExec, TypeOK
  <2>2. Grown'
    BY <1>5, <1>t DEF MapExec, Grown
  <2> QED
    BY <1>5, <1>k, <2>1, <2>2 DEF MapExec
<1>u. ASSUME Undo, UNCHANGED execsize
      PROVE  /\ file' \in [size : 0 .. MaxPages, pos : 0 .. MaxPages, blocks : SUBSET (0 .. MaxPages)]
             /\ file'.pos = file.pos /\ file'.size >= execsize
  <2>1. Truncated(file, execsize) \in [size : 0 .. MaxPages, pos : 0 .. MaxPages,
                                       blocks : SUBSET (0 .. MaxPages)]
        /\ Truncated(file, execsize).pos = file.pos
        /\ Truncated(file, execsize).size = execsize
    BY <1>t, CutKeepsOffset
  <2>2. file.size >= execsize
    BY <1>t DEF Grown
  <2> QED
    BY <1>t, <1>u, <2>1, <2>2 DEF Undo
<1>6. CASE MapExecFails
  <2>1. CASE execsize = 0
    <3>1. TypeOK'
      BY <1>6, <2>1, <1>n, <1>t, FreshFile DEF MapExecFails, TypeOK
    <3>2. length \in Lengths /\ length <= MaxPages
      BY <1>6, <1>n, <1>t, <2>1 DEF MapExecFails, Grown
    <3>3. Grown'
      BY <1>6, <1>n, <1>t, <2>1, <3>2 DEF MapExecFails, Grown, NewFile
    <3> QED
      BY <1>6, <1>k, <3>1, <3>3 DEF MapExecFails
  <2>2. CASE execsize # 0
    <3>1. Undo /\ pc' = "idle" /\ UNCHANGED <<length, idx, mounts, execfd, execsize, segments>>
      BY <1>6, <2>2 DEF MapExecFails
    <3>2. TypeOK'
      BY <1>u, <3>1 DEF TypeOK
    <3>3. Grown'
      BY <1>t, <1>u, <3>1 DEF Grown
    <3> QED
      BY <1>k, <3>1, <3>2, <3>3
  <2> QED
    BY <2>1, <2>2
<1>7. CASE MapData
  <2>1. execsize + length <= file.size /\ execsize + length <= file.pos /\ length \in Lengths
    BY <1>7 DEF MapData, Grown
  <2>2. execsize' = execsize + length /\ execsize' \in 0 .. MaxPages
    BY <1>7, <1>n, <1>t, <2>1 DEF MapData, SizeAfter
  <2>3. segments' = segments \cup {[off |-> execsize, len |-> length]}
    BY <1>7 DEF MapData
  <2>4. TypeOK'
    BY <1>7, <1>t, <2>1, <2>2, <2>3 DEF MapData, TypeOK
  <2>5. \A s \in segments : s.off \in Nat /\ s.len \in Nat /\ s.off + s.len <= execsize
    <3>1. \A s \in segments : s \in [off : 0 .. MaxPages, len : Lengths]
      BY DEF TypeOK
    <3>2. \A s \in segments : s.off \in 0 .. MaxPages /\ s.len \in Lengths
      BY <3>1
    <3>3. \A s \in segments : s.len \in Nat
      BY <3>2, LengthsPositive
    <3>4. \A s \in segments : s.off \in Nat
      BY <3>2
    <3>5. \A s \in segments : s.off + s.len <= execsize
      BY DEF Behind
    <3> QED
      BY <3>3, <3>4, <3>5
  <2>6. Behind'
    BY <1>t, <2>2, <2>3, <2>5 DEF Behind
  <2>7. \A s \in segments : Pages(s) \cap execsize .. execsize + length - 1 = {}
    <3>1. ASSUME NEW s \in segments, NEW page \in Pages(s) PROVE page < execsize
      <4>1. s.off \in Nat /\ s.len \in Nat /\ s.off + s.len <= execsize /\ execsize \in Nat
        BY <1>t, <2>5
      <4>2. page \in s.off .. s.off + s.len - 1
        BY DEF Pages
      <4> QED
        BY <4>1, <4>2
    <3> QED
      BY <1>t, <3>1
  <2>8. Pages([off |-> execsize, len |-> length]) = execsize .. execsize + length - 1
    BY DEF Pages
  <2>9. SegmentsDisjoint'
    BY <2>3, <2>7, <2>8 DEF SegmentsDisjoint
  <2>10. Grown'
    BY <1>7, <1>t, <2>1, <2>2 DEF MapData, Grown
  <2> QED
    BY <2>4, <2>6, <2>9, <2>10
<1>8. CASE MapDataFails
  <2>1. TypeOK'
    BY <1>8, <1>u DEF MapDataFails, TypeOK
  <2>2. Grown'
    BY <1>8, <1>t, <1>u DEF MapDataFails, Grown
  <2> QED
    BY <1>8, <1>k, <2>1, <2>2 DEF MapDataFails
<1>9. ASSUME NEW s \in segments, Unmap(s) PROVE IInv'
  <2>1. TypeOK' /\ Behind' /\ SegmentsDisjoint'
    BY <1>9 DEF Unmap, TypeOK, Behind, SegmentsDisjoint, Pages
  <2>2. Grown'
    BY <1>9 DEF Unmap, Grown
  <2> QED
    BY <2>1, <2>2
<1>10. CASE UNCHANGED vars
  <2>1. TypeOK' /\ Grown'
    BY <1>10 DEF vars, TypeOK, Grown
  <2> QED
    BY <1>10, <1>k, <2>1 DEF vars
<1> QED
  BY <1>1, <1>2, <1>3, <1>4, <1>5, <1>6, <1>7, <1>8, <1>9, <1>10 DEF Next, Step

\* Every reachable state of the temporary file satisfies the invariant.
THEOREM Invariance == Spec => []IInv
<1> QED
  BY InitIInv, NextIInv, PTL DEF Spec

\* Whatever fails in dlmmap_locked, two segments never share a page of the
\* file: writing one closure never changes the code of another.
THEOREM NoSharedPages == Spec => []SegmentsDisjoint
<1>1. IInv => SegmentsDisjoint
  BY DEF IInv
<1> QED
  BY <1>1, Invariance, PTL

\* ftruncate never cuts the file under a segment that is still mapped.
THEOREM NeverCutShort == Spec => []SegmentsInFile
<1>1. IInv => SegmentsInFile
  <2> SUFFICES ASSUME IInv, NEW s \in segments PROVE s.off + s.len <= file.size
    BY DEF SegmentsInFile
  <2>1. /\ s \in [off : 0 .. MaxPages, len : Lengths]
        /\ file \in [size : 0 .. MaxPages, pos : 0 .. MaxPages, blocks : SUBSET (0 .. MaxPages)]
        /\ execsize \in 0 .. MaxPages
    BY DEF IInv, TypeOK
  <2>2. s.off \in 0 .. MaxPages /\ s.len \in Lengths /\ file.size \in 0 .. MaxPages
    BY <2>1
  <2>3. s.off \in Int /\ s.len \in Int
    BY <2>2, LengthsPositive
  <2>4. execsize \in Int /\ file.size \in Int
    BY <2>1, <2>2
  <2>5. s.off + s.len <= execsize /\ execsize <= file.size
    BY DEF IInv, Behind, Grown
  <2> QED
    BY <2>3, <2>4, <2>5
<1> QED
  BY <1>1, Invariance, PTL

\* The index into the list of places stays in the list, and no counter passes
\* its bound.
THEOREM TypeCorrect == Spec => []TypeOK
<1>1. IInv => TypeOK
  BY DEF IInv
<1> QED
  BY <1>1, Invariance, PTL
=============================================================================
