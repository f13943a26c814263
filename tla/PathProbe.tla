------------------------------- MODULE PathProbe -------------------------------
(***************************************************************************)
(* rgVmPathSupportsSparse of src/rg_arena.c on Linux and macOS: which      *)
(* prefix of a path, that need not exist yet, is asked about.  A path is a *)
(* sequence of "/" and "c" (any other character).                          *)
(***************************************************************************)
EXTENDS Integers, Sequences, FiniteSetsExt

\* The components of a path: where each begins, and how many there are.
Starts(path)     == {j \in DOMAIN path : path[j] # "/" /\ (j = 1 \/ path[j - 1] = "/")}
Components(path) == Cardinality(Starts(path))

\* The OS knows the first `known` components of the path.
Exists(path, known) == Components(path) <= known

\* while (len > least && (buf[len - 1] == '/') == slash) --len;
Back(path, len, least, slash) ==
  IF len <= least THEN len
  ELSE Min({l \in least..len : \A m \in (l + 1)..len : (path[m] = "/") = slash})

\* Mutant: the slash of the root goes with the last component.
DropLastAndRoot(path) ==
  LET l1 == Back(path, Len(path), 0, TRUE)
      l2 == Back(path, l1, 0, FALSE)
  IN  SubSeq(path, 1, Back(path, l2, 0, TRUE))

\* The last component goes, with the slashes around it.
DropLast(path) ==
  LET l1 == Back(path, Len(path), 0, TRUE)
      l2 == Back(path, l1, 0, FALSE)
  IN  SubSeq(path, 1, Back(path, l2, 1, TRUE))

\* What is left when the OS knows the path, << >> standing for ".": every round that
\* goes on drops a component, so there are no more rounds than characters.
Round(path, known) == IF path = << >> \/ Exists(path, known) THEN path ELSE DropLast(path)
Probe(path, known) ==
  LET after[n \in 0..Len(path)] == IF n = 0 THEN path ELSE Round(after[n - 1], known)
  IN  after[Len(path)]
==============================================================================
