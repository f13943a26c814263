----------------------------- MODULE ArenaProofs -----------------------------
(***************************************************************************)
(* The arena, for every size of word, page, request and block: what it     *)
(* holds of its file at each system call, and where its blocks are.        *)
(*                                                                         *)
(* Three invariants, each built on the one before: FileInv (the calls of   *)
(* FileMapping and the handles), SpaceInv (position, commit and pages) and *)
(* BlockInv (the client's blocks and save points).                         *)
(***************************************************************************)
EXTENDS Arena, SequenceTheorems, TLAPS

-----------------------------------------------------------------------------
(* Arithmetic.                                                             *)

\* What division leaves.
LEMMA Division ==
  ASSUME NEW x \in Int, NEW n \in Nat \ {0}
  PROVE  /\ x \div n \in Int /\ x % n \in 0..(n - 1)
         /\ x = n * (x \div n) + (x % n)
OBVIOUS

LEMMA MultipleLeavesZero ==
  ASSUME NEW q \in Int, NEW n \in Nat \ {0} PROVE (n * q) % n = 0
OBVIOUS

LEMMA RemainderBounds ==
  ASSUME NEW x \in Nat, NEW n \in Nat \ {0}
  PROVE  /\ x % n <= x
         /\ x < n => x % n = x
         /\ x >= n => x % n <= x - n
<1> DEFINE q == x \div n
<1>1. q \in Int /\ x % n \in 0..(n - 1) /\ x = n * q + (x % n)
  BY Division
<1>2. q >= 0
  <2>1. q < 0 => n * q <= -n
    BY <1>1
  <2> QED BY <1>1, <2>1
<1>3. q >= 1 => n * q >= n
  BY <1>1
<1>4. q = 0 \/ q >= 1
  BY <1>1, <1>2
<1>5. q = 0 => x % n = x
  BY <1>1
<1> QED BY <1>1, <1>3, <1>4, <1>5

\* Two multiples are a step apart.
LEMMA MultiplesApart ==
  ASSUME NEW n \in Nat \ {0}, NEW p \in Int, NEW q \in Int, p % n = 0, q % n = 0, p < q
  PROVE  p + n <= q
<1>1. p = n * (p \div n) /\ q = n * (q \div n) /\ p \div n \in Int /\ q \div n \in Int
  BY Division
<1>2. p \div n < q \div n
  BY <1>1
<1> QED BY <1>1, <1>2

LEMMA SumOfMultiples ==
  ASSUME NEW n \in Nat \ {0}, NEW p \in Int, NEW q \in Int, p % n = 0, q % n = 0
  PROVE  (p + q) % n = 0
<1>1. p = n * (p \div n) /\ q = n * (q \div n) /\ p \div n \in Int /\ q \div n \in Int
  BY Division
<1>2. p + q = n * ((p \div n) + (q \div n))
  BY <1>1
<1> DEFINE k == (p \div n) + (q \div n)
<1>3. k \in Int /\ p + q = n * k
  BY <1>1, <1>2
<1>4. (n * k) % n = 0
  <2> HIDE DEF k
  <2> QED BY <1>3, MultipleLeavesZero
<1> HIDE DEF k
<1> QED BY <1>3, <1>4

LEMMA RoundDown ==
  ASSUME NEW x \in Nat, NEW n \in Nat \ {0}
  PROVE  /\ x - (x % n) \in 0..x /\ (x - (x % n)) % n = 0
         /\ x < (x - (x % n)) + n
<1>1. x - (x % n) = n * (x \div n) /\ x \div n \in Int
  BY Division
<1>2. (x - (x % n)) % n = 0
  BY <1>1, MultipleLeavesZero
<1> QED BY <1>2, RemainderBounds, Division

\* rgm_arena_align_padding pads to a multiple.
LEMMA PaddingAligns ==
  ASSUME NEW x \in Nat, NEW a \in Nat \ {0}
  PROVE  Padding(x, a) \in Nat /\ (x + Padding(x, a)) % a = 0
<1>1. /\ -x = a * ((-x) \div a) + Padding(x, a) /\ (-x) \div a \in Int
      /\ Padding(x, a) \in Nat
  BY Division DEF Padding
<1>2. PICK m \in Int : x + Padding(x, a) = a * m
  <2> WITNESS -((-x) \div a) \in Int
  <2> QED BY <1>1
<1>3. (a * m) % a = 0
  BY MultipleLeavesZero
<1> QED BY <1>1, <1>2, <1>3

\* Aligned to a multiple of d is aligned to d.
LEMMA AlignedToDivisor ==
  ASSUME NEW x \in Nat, NEW a \in Nat \ {0}, NEW d \in Nat \ {0}, x % a = 0, a % d = 0
  PROVE  x % d = 0
<1>1. /\ x = a * (x \div a) /\ a = d * (a \div d)
      /\ x \div a \in Int /\ a \div d \in Int
  BY Division
<1>2. PICK m \in Int, n \in Int : x = a * m /\ a = d * n
  BY <1>1
<1>3. x = d * (n * m) /\ n * m \in Int
  BY <1>2
<1>4. (d * (n * m)) % d = 0
  BY <1>3, MultipleLeavesZero
<1> QED BY <1>3, <1>4

LEMMA Constants ==
  /\ Word \in Nat \ {0} /\ PageSize \in Nat \ {0} /\ MinChunk \in Nat \ {0}
  /\ MaxStep \in Nat \ {0} /\ MinAlign \in Nat \ {0} /\ DefaultAlign \in Nat \ {0}
  /\ MaxStep % PageSize = 0 /\ MinChunk <= MaxStep /\ PageSize <= MaxStep
  /\ AddrLimit \in Nat \ {0} /\ AddrLimit <= Word
<1>1. MaxStep >= PageSize
  BY ArenaAssumption, MultiplesApart
<1> QED BY <1>1, ArenaAssumption, AddrLimitAssumption

LEMMA Inputs ==
  /\ \A b \in Bases : b \in Nat \ {0}
  /\ \A n \in Requests \cup FileSizes \cup Sizes \cup Aligns : n \in Nat /\ n < Word
BY ArenaAssumption

USE Constants

\* Rounding up, wrapped or not.
LEMMA AlignUpBounds ==
  ASSUME NEW v \in Nat
  PROVE  /\ AlignUp(v, PageSize) \in Nat /\ AlignUp(v, PageSize) < Word
         /\ AlignUp(v, PageSize) % PageSize = 0
         /\ AlignUp(v, PageSize) < v + PageSize
<1> DEFINE w == v + (PageSize - 1)
           u == w % Word
<1>1. u \in 0..(Word - 1) /\ u <= w
  <2>1. w \in Nat
    OBVIOUS
  <2> HIDE DEF w
  <2>2. u \in 0..(Word - 1)
    BY <2>1, Division
  <2>3. u <= w
    BY <2>1, RemainderBounds
  <2> QED BY <2>2, <2>3
<1>2. u - (u % PageSize) \in 0..u /\ (u - (u % PageSize)) % PageSize = 0
  <2> HIDE DEF u
  <2> QED BY <1>1, RoundDown
<1>3. AlignUp(v, PageSize) = u - (u % PageSize)
  BY DEF AlignUp
<1> HIDE DEF u
<1> QED BY <1>1, <1>2, <1>3

\* Rounding up that does not wrap.
LEMMA AlignUpRounds ==
  ASSUME NEW v \in Nat, v + PageSize <= Word
  PROVE  /\ AlignUp(v, PageSize) >= v /\ AlignUp(v, PageSize) < v + PageSize
         /\ AlignUp(v, PageSize) % PageSize = 0
<1> DEFINE u == v + (PageSize - 1)
<1>1. u \in Nat /\ u < Word
  OBVIOUS
<1>2. u - (u % PageSize) \in 0..u /\ (u - (u % PageSize)) % PageSize = 0
      /\ u < (u - (u % PageSize)) + PageSize
  <2> HIDE DEF u
  <2> QED BY <1>1, RoundDown
<1>3. u % Word = u
  <2> HIDE DEF u
  <2> QED BY <1>1, RemainderBounds
<1>4. AlignUp(v, PageSize) = u - (u % PageSize)
  BY <1>3 DEF AlignUp
<1> QED BY <1>2, <1>4

LEMMA AlignUpFixes ==
  ASSUME NEW v \in Nat, v + PageSize <= Word, v % PageSize = 0
  PROVE  AlignUp(v, PageSize) = v
<1>1. AlignUp(v, PageSize) \in Nat
  BY AlignUpBounds
<1> QED BY <1>1, AlignUpRounds, MultiplesApart

LEMMA MaxOfTwo ==
  ASSUME NEW a \in Int, NEW b \in Int
  PROVE  Max({a, b}) \in {a, b} /\ Max({a, b}) >= a /\ Max({a, b}) >= b
<1>1. \E x \in {a, b} : \A y \in {a, b} : x >= y
  OBVIOUS
<1> QED BY <1>1 DEF Max

LEMMA MaxOfThree ==
  ASSUME NEW a \in Int, NEW b \in Int, NEW c \in Int
  PROVE  /\ Max({a, b, c}) \in {a, b, c}
         /\ Max({a, b, c}) >= a /\ Max({a, b, c}) >= b /\ Max({a, b, c}) >= c
<1>1. \E x \in {a, b, c} : \A y \in {a, b, c} : x >= y
  OBVIOUS
<1> QED BY <1>1 DEF Max

LEMMA MinOfTwo ==
  ASSUME NEW a \in Int, NEW b \in Int
  PROVE  Min({a, b}) \in {a, b} /\ Min({a, b}) <= a /\ Min({a, b}) <= b
<1>1. \E x \in {a, b} : \A y \in {a, b} : x <= y
  OBVIOUS
<1> QED BY <1>1 DEF Min

-----------------------------------------------------------------------------
(* The file.                                                               *)

Files == [size : Nat \cup {-1}, temp : BOOLEAN, stuck : BOOLEAN]
Calls == [at : {"idle", "open", "unlink", "size", "section", "view", "mapped", "remove",
                "dead"},
          mode : {"existing", "keep", "temp"}, size : Nat, readOnly : BOOLEAN,
          before : Files]

FileShape ==
  /\ windows \in BOOLEAN /\ handle \in BOOLEAN /\ file \in BOOLEAN /\ readOnly \in BOOLEAN
  /\ dir \in Files /\ call \in Calls

\* A call runs while there is no arena; an arena on no file is writable.
OneAtATime ==
  /\ call.at = "idle" => call = Idle
  /\ call # Idle => base = 0
  /\ base = 0 => ~file /\ ~readOnly
  /\ ~file => ~readOnly

\* What the process holds at each step of a call, and between two.
Holding ==
  /\ call.at \in {"idle", "dead"} =>
       /\ open = IF file THEN {"view"} \cup (IF handle THEN {"file"} ELSE {}) ELSE {}
       /\ handle <=> windows /\ file /\ ~readOnly
  /\ call.at = "mapped" =>
       /\ open = {"view"} \cup (IF handle THEN {"file"} ELSE {})
       /\ handle <=> windows /\ ~call.readOnly
  /\ call.at \in {"open", "remove"} => open = {} /\ ~handle
  /\ call.at \in {"unlink", "size", "section"} => open = {"file"} /\ ~handle
  /\ call.at = "view" =>
       open = {"file"} \cup (IF windows THEN {"section"} ELSE {}) /\ ~handle

\* When a file bears the mark of a temporary, and still has its name.
Named ==
  /\ windows => ~(dir.temp /\ dir.stuck)
  /\ dir.temp /\ ~dir.stuck => IF windows THEN open # {} ELSE call.at = "unlink"

\* How far a call has changed the path.
Progress ==
  /\ call.at = "open" => dir = call.before
  /\ call.at = "unlink" => ~windows /\ call.mode = "temp" /\ call.before = Absent
  /\ call.at = "remove" => call.mode = "keep"
  /\ call.mode = "keep" /\ call.at \in {"size", "section", "view", "remove"} => ~dir.temp
  /\ call.mode = "temp" /\ call.at \in {"size", "section", "view"} =>
       call.before = Absent /\ IF windows THEN dir.temp ELSE dir = Absent \/ dir.stuck
  /\ call.mode = "existing" /\ call.at \in {"size", "section", "view"} =>
       dir = call.before /\ dir # Absent /\ (windows => ~dir.temp)
  /\ call.mode = "existing" /\ call.at = "section" => call.size = dir.size
  /\ call.at \in {"view", "mapped"} => call.size < AddrLimit

FileInv == FileShape /\ OneAtATime /\ Holding /\ Named /\ Progress

LEMMA FileInitial == Init => FileInv
<1> SUFFICES ASSUME Init PROVE FileInv
  OBVIOUS
<1> USE DEF Init, ArenaInert, FileInit
<1>1. Absent \in Files
  BY DEF Absent, Files
<1>2. Idle \in Calls
  BY <1>1 DEF Idle, Calls
<1>3. FileShape
  BY <1>1, <1>2 DEF FileShape
<1>4. OneAtATime /\ Holding /\ Named /\ Progress
  BY DEF OneAtATime, Holding, Named, Progress, Idle, Absent
<1> QED BY <1>3, <1>4 DEF FileInv

LEMMA SizedFile ==
  ASSUME NEW n \in Nat
  PROVE  LET f == [NewFile(FALSE) EXCEPT !.size = n] IN f \in Files /\ ~f.temp
BY DEF NewFile, Files

\* A step of a call.
LEMMA FileCallStep == ASSUME FileInv, FileStep PROVE FileInv'
<1>0. UNCHANGED <<base, file, readOnly>> /\ base = 0 /\ ~file /\ ~readOnly
  BY DEF FileStep, arenaVars, Live, OneAtATime, FileInv
<1>a. FileShape /\ OneAtATime /\ Holding /\ Named /\ Progress
  BY DEF FileInv
<1>b. Absent \in Files /\ \A temp \in BOOLEAN : NewFile(temp) \in Files
  BY DEF Absent, NewFile, Files
<1>c. Idle \in Calls
  BY <1>b DEF Idle, Calls
<1>1. CASE OpenFile
  <2> USE <1>0, <1>a, <1>1 DEF OpenFile, DirWith, GoTo
  <2>1. dir' \in Files
    BY <1>b DEF FileShape, Files, Calls
  <2>2. call' \in Calls
    BY <1>c DEF FileShape, Calls
  <2>3. FileShape'
    BY <2>1, <2>2 DEF FileShape
  <2>4. OneAtATime'
    BY DEF FileShape, Calls, OneAtATime, Idle
  <2>5. Holding'
    BY DEF FileShape, Files, Calls, Holding, Idle
  <2>6. Named'
    BY DEF FileShape, Files, Calls, Holding, Named, Progress, Idle, Absent, NewFile
  <2>7. Progress'
    BY DEF FileShape, Files, Calls, Holding, Named, Progress, Idle, Absent, NewFile
  <2> QED BY <2>3, <2>4, <2>5, <2>6, <2>7 DEF FileInv
<1>2. CASE UnlinkTemp
  <2> USE <1>0, <1>a, <1>2 DEF UnlinkTemp, DirWith, GoTo
  <2>1. dir' \in Files
    BY <1>b DEF FileShape, Files, Calls
  <2>2. call' \in Calls
    BY <1>c DEF FileShape, Calls
  <2>3. FileShape'
    BY <2>1, <2>2 DEF FileShape
  <2>4. OneAtATime'
    BY DEF FileShape, Calls, OneAtATime, Idle
  <2>5. Holding'
    BY DEF FileShape, Files, Calls, Holding, Idle
  <2>6. Named'
    BY DEF FileShape, Files, Calls, Holding, Named, Progress, Idle, Absent, NewFile
  <2>7. Progress'
    BY DEF FileShape, Files, Calls, Holding, Named, Progress, Idle, Absent, NewFile
  <2> QED BY <2>3, <2>4, <2>5, <2>6, <2>7 DEF FileInv
<1>3. CASE SizeFile
  <2> USE <1>0, <1>a, <1>3 DEF SizeFile, DirWith, GoTo
  <2>1. dir' \in Files
    BY <1>b DEF FileShape, Files, Calls
  <2>2. call' \in Calls
    <3>1. dir.size > 0 => dir.size \in Nat
      BY DEF FileShape, Files
    <3>2. CASE call.mode = "existing"
      BY <3>1, <3>2 DEF FileShape, Calls
    <3>3. CASE call.mode # "existing"
      BY <3>3 DEF FileShape, Calls
    <3> QED BY <3>2, <3>3
  <2>3. FileShape'
    BY <2>1, <2>2 DEF FileShape
  <2>4. OneAtATime'
    BY DEF FileShape, Calls, OneAtATime, Idle
  <2>5. Holding'
    <3>1. call'.at = "section" /\ open = {"file"} /\ ~handle
      BY DEF FileShape, Calls, Holding
    <3>2. UNCHANGED <<open, handle>>
      OBVIOUS
    <3> HIDE <1>0, <1>3
    <3> QED BY <3>1, <3>2 DEF Holding
  <2>6. Named'
    BY DEF FileShape, Files, Calls, Holding, Named, Progress, Idle, Absent, NewFile
  <2>7. Progress'
    <3>1. CASE call.mode = "existing"
      <4>1. call' = [call EXCEPT !.at = "section", !.size = dir.size] /\ UNCHANGED dir
        BY <3>1
      <4>2. /\ call'.at = "section" /\ call'.mode = "existing"
            /\ call'.size = dir'.size /\ call'.before = call.before
        BY <4>1, <3>1 DEF FileShape, Calls
      <4>3. dir' = call.before /\ dir' # Absent /\ (windows' => ~dir'.temp)
        BY <3>1, <4>1 DEF Progress
      <4> HIDE <1>0, <1>a, <1>3
      <4> QED BY <4>2, <4>3 DEF Progress
    <3>2. CASE call.mode # "existing"
      <4>1. call' = [call EXCEPT !.at = "section"]
        BY <3>2
      <4>2. \/ dir' = dir
            \/ ~windows /\ dir # Absent /\ dir' = [dir EXCEPT !.size = call.size]
        BY <3>2
      <4> QED BY <3>2, <4>1, <4>2 DEF FileShape, Files, Calls, Progress
    <3> QED BY <3>1, <3>2
  <2> QED BY <2>3, <2>4, <2>5, <2>6, <2>7 DEF FileInv
<1>4. CASE MakeSection
  <2> USE <1>0, <1>a, <1>4 DEF MakeSection, DirWith, GoTo
  <2>1. dir' \in Files
    BY <1>b DEF FileShape, Files, Calls
  <2>2. call' \in Calls
    BY <1>c DEF FileShape, Calls
  <2>3. FileShape'
    BY <2>1, <2>2 DEF FileShape
  <2>4. OneAtATime'
    BY DEF FileShape, Calls, OneAtATime, Idle
  <2>5. Holding'
    BY DEF FileShape, Files, Calls, Holding, Idle
  <2>6. Named'
    BY DEF FileShape, Files, Calls, Holding, Named, Progress, Idle, Absent, NewFile
  <2>7. Progress'
    BY DEF FileShape, Files, Calls, Holding, Named, Progress, Idle, Absent, NewFile
  <2> QED BY <2>3, <2>4, <2>5, <2>6, <2>7 DEF FileInv
<1>5. CASE MapView
  <2> USE <1>0, <1>a, <1>5 DEF MapView, DirWith, GoTo
  <2>1. dir' \in Files
    BY <1>b DEF FileShape, Files, Calls
  <2>2. call' \in Calls
    BY <1>c DEF FileShape, Calls
  <2>3. FileShape'
    BY <2>1, <2>2 DEF FileShape
  <2>4. OneAtATime'
    BY DEF FileShape, Calls, OneAtATime, Idle
  <2>5. Holding'
    BY DEF FileShape, Files, Calls, Holding, Idle
  <2>6. Named'
    BY DEF FileShape, Files, Calls, Holding, Named, Progress, Idle, Absent, NewFile
  <2>7. Progress'
    BY DEF FileShape, Files, Calls, Holding, Named, Progress, Idle, Absent, NewFile
  <2> QED BY <2>3, <2>4, <2>5, <2>6, <2>7 DEF FileInv
<1>6. CASE Fail
  <2> USE <1>0, <1>a, <1>6 DEF Fail, DirWith, GoTo
  <2>1. dir' \in Files
    BY <1>b DEF FileShape, Files, Calls
  <2>2. call' \in Calls
    BY <1>c DEF FileShape, Calls
  <2>3. FileShape'
    BY <2>1, <2>2 DEF FileShape
  <2>4. OneAtATime'
    BY DEF FileShape, Calls, OneAtATime, Idle
  <2>5. Holding'
    BY DEF FileShape, Files, Calls, Holding, Idle
  <2>6. Named'
    BY DEF FileShape, Files, Calls, Holding, Named, Progress, Idle, Absent, NewFile
  <2>7. Progress'
    BY DEF FileShape, Files, Calls, Holding, Named, Progress, Idle, Absent, NewFile
  <2> QED BY <2>3, <2>4, <2>5, <2>6, <2>7 DEF FileInv
<1>7. CASE RemoveFile
  <2> USE <1>0, <1>a, <1>7 DEF RemoveFile, DirWith, GoTo
  <2>1. dir' \in Files
    BY <1>b DEF FileShape, Files, Calls
  <2>2. call' \in Calls
    BY <1>c DEF FileShape, Calls
  <2>3. FileShape'
    BY <2>1, <2>2 DEF FileShape
  <2>4. OneAtATime'
    BY DEF FileShape, Calls, OneAtATime, Idle
  <2>5. Holding'
    BY DEF FileShape, Files, Calls, Holding, Idle
  <2>6. Named'
    BY DEF FileShape, Files, Calls, Holding, Named, Progress, Idle, Absent, NewFile
  <2>7. Progress'
    BY DEF FileShape, Files, Calls, Holding, Named, Progress, Idle, Absent, NewFile
  <2> QED BY <2>3, <2>4, <2>5, <2>6, <2>7 DEF FileInv
<1> QED BY <1>1, <1>2, <1>3, <1>4, <1>5, <1>6, <1>7 DEF FileStep, MapFileStep

\* The end of the process.
LEMMA FileExit == ASSUME FileInv, Exit PROVE FileInv'
<1> USE DEF FileInv, Exit, Release, CloseAll
<1>1. Absent \in Files /\ [Idle EXCEPT !.at = "dead"] \in Calls
  BY DEF Absent, Files, Idle, Calls
<1>2. FileShape'
  BY <1>1 DEF FileShape, Files, DirWith
<1>3. OneAtATime' /\ Holding' /\ Progress'
  BY DEF FileShape, OneAtATime, Holding, Progress, Idle
<1>4. Named'
  BY DEF FileShape, Files, Holding, Named, Progress, DirWith, Absent, Idle
<1> QED BY <1>2, <1>3, <1>4

\* The arena lets go of its file.
LEMMA FileDestroy == ASSUME FileInv, Destroy PROVE FileInv'
<1> USE DEF FileInv, Destroy, Release, Live
<1>1. call = Idle /\ call.at = "idle"
  BY DEF OneAtATime, Idle
<1>2. CASE file
  <2> USE <1>1, <1>2 DEF ReleaseFile
  <2>1. open \ ({"view"} \cup IF handle THEN {"file"} ELSE {}) = {}
    BY DEF Holding
  <2>2. open' = {} /\ dir' = DirWith({}) /\ ~handle' /\ UNCHANGED <<windows, call>>
    BY <2>1
  <2>3. dir' \in Files /\ Named'
    BY <2>2 DEF FileShape, Files, Named, Holding, DirWith, Absent
  <2> QED BY <2>2, <2>3 DEF FileShape, OneAtATime, Holding, Progress
<1>3. CASE ~file
  BY <1>1, <1>3 DEF fileVars, FileShape, OneAtATime, Holding, Named, Progress
<1> QED BY <1>2, <1>3

LEMMA FileNext == FileInv /\ [Next]_vars => FileInv'
<1> SUFFICES ASSUME FileInv, [Next]_vars PROVE FileInv'
  OBVIOUS
<1> USE DEF FileInv
<1>i. call.at = "idle" => call = Idle
  BY DEF OneAtATime
<1>1. ASSUME NEW b, NEW r \in Requests, NEW eager, b \in Bases, CreateEx(b, r, eager)
      PROVE  FileInv'
  <2>1. /\ UNCHANGED fileVars /\ UNCHANGED readOnly /\ file' = FALSE /\ ~file /\ ~readOnly
        /\ call = Idle /\ base = 0
    BY <1>1 DEF CreateEx, Map, Live, OneAtATime
  <2>2. FileShape' /\ OneAtATime'
    BY <2>1 DEF FileShape, OneAtATime, fileVars
  <2>3. Holding'
    BY <2>1 DEF Holding, fileVars
  <2>4. Named' /\ Progress'
    BY <2>1 DEF Named, Progress, fileVars
  <2> QED BY <2>2, <2>3, <2>4
<1>2. ASSUME NEW r \in Requests, NEW mode \in {"keep", "temp"}, CreateShared(r, mode)
      PROVE  FileInv'
  <2>1. AlignUp(r, PageSize) \in Nat
    BY Inputs, AlignUpBounds
  <2> QED BY <1>2, <2>1 DEF CreateShared, MapFile, arenaVars, Live, FileShape, Calls,
                            OneAtATime, Holding, Named, Progress, Idle
<1>3. ASSUME NEW asReadOnly \in BOOLEAN, OpenShared(asReadOnly) PROVE FileInv'
  BY <1>3 DEF OpenShared, MapFile, arenaVars, Live, FileShape, Calls,
              OneAtATime, Holding, Named, Progress, Idle
<1>4. CASE FileStep
  BY <1>4, FileCallStep
<1>5. ASSUME NEW b \in Bases, Adopt(b) PROVE FileInv'
  <2> USE <1>5 DEF Adopt, Map
  <2>1. b # 0 /\ Idle \in Calls
    BY Inputs DEF Idle, Absent, Calls, Files
  <2>2. FileShape'
    BY <2>1 DEF FileShape, Calls
  <2>3. OneAtATime' /\ Named' /\ Progress'
    BY <2>1 DEF OneAtATime, Named, Progress, Idle
  <2>4. Holding'
    BY DEF Holding, Idle
  <2> QED BY <2>2, <2>3, <2>4
<1>6. CASE Exit
  BY <1>6, FileExit
<1>7. CASE Elsewhere
  <2>1. CASE Restart
    BY <1>7, <2>1 DEF Elsewhere, Restart, arenaVars, FileShape, Calls, OneAtATime,
                      Holding, Named, Progress, Idle, Absent, Files
  <2>2. ASSUME NEW size \in FileSizes, ~Live, OthersWrite(size) PROVE FileInv'
    <3> USE <1>7, <2>2 DEF Elsewhere, OthersWrite, arenaVars
    <3>1. dir' \in Files /\ ~dir'.temp
      <4>1. size \in Nat
        BY Inputs
      <4>2. Absent \in Files /\ ~Absent.temp
        BY DEF Absent, Files
      <4>3. LET f == [NewFile(FALSE) EXCEPT !.size = size] IN f \in Files /\ ~f.temp
        BY <4>1, SizedFile
      <4>4. dir' = Absent \/ dir' = [NewFile(FALSE) EXCEPT !.size = size]
        OBVIOUS
      <4> QED BY <4>2, <4>3, <4>4
    <3>2. UNCHANGED <<base, file, readOnly, windows, open, handle, call>> /\ call = Idle
      OBVIOUS
    <3> QED BY <3>1, <3>2 DEF FileShape, OneAtATime, Holding, Named, Progress, Idle
  <2> QED BY <1>7, <2>1, <2>2 DEF Elsewhere
<1>8. CASE Destroy
  BY <1>8, FileDestroy
<1>9. ASSUME UNCHANGED <<base, file, readOnly, fileVars>> PROVE FileInv'
  BY <1>9 DEF fileVars, FileShape, OneAtATime, Holding, Named, Progress
<1>10. ASSUME NEW s, NEW a, NEW asked, Bump(s, a, asked)
       PROVE  UNCHANGED <<base, file, readOnly, fileVars>>
  BY <1>10 DEF Bump
<1>11. ASSUME NEW s \in Sizes, Alloc(s) \/ ShrinkKeep(s) \/ \E a \in Aligns : AllocAligned(s, a)
       PROVE  FileInv'
  BY <1>9, <1>10, <1>11 DEF Alloc, AllocAligned, ShrinkKeep
<1>12. CASE Pop \/ Save \/ Restore \/ Clear
  BY <1>9, <1>12 DEF Pop, Save, Restore, Clear, os
<1>13. ASSUME NEW u, DecommitFront(u) PROVE FileInv'
  BY <1>9, <1>13 DEF DecommitFront
<1>14. CASE UNCHANGED vars
  BY <1>9, <1>14 DEF vars, os
<1> QED BY <1>1, <1>2, <1>3, <1>4, <1>5, <1>6, <1>7, <1>8, <1>11, <1>12, <1>13, <1>14
        DEF Next

\* A call that fails leaves the path as it found it, or clean.
LEMMA FailureTidies ==
  ASSUME FileInv, [Next]_vars,
         call.at \notin {"idle", "dead", "mapped"}, call' = Idle
  PROVE  dir' = call.before \/ (call.mode = "keep" /\ dir' = Absent) \/ dir'.stuck
<1> USE DEF FileInv
<1>1. base = 0 /\ call # Idle /\ call'.at = "idle" /\ call' # call
  BY DEF OneAtATime, Idle
<1>2. Fail \/ RemoveFile
  <2>1. CASE FileStep
    BY <1>1, <2>1 DEF FileStep, MapFileStep, OpenFile, UnlinkTemp, SizeFile, MakeSection,
                      MapView, GoTo, FileShape, Calls
  <2>2. ~Exit /\ ~Elsewhere /\ ~(\E b \in Bases : Adopt(b))
    BY <1>1 DEF Exit, CloseAll, Idle, Elsewhere, Restart, OthersWrite, Adopt
  <2>3. UNCHANGED call \/ FileStep
    BY <1>1, <2>2 DEF Next, vars, os, fileVars, Live, Usable, CreateEx, CreateShared, MapFile,
       OpenShared, Alloc, AllocAligned, Bump, ShrinkKeep, Pop, Save, Restore, Clear,
       Destroy, DecommitFront
  <2> QED BY <1>1, <2>1, <2>3
<1>3. CASE Fail
  <2> USE <1>1, <1>3 DEF Fail, DirWith, GoTo, FileShape, Calls, Idle
  <2>1. ~(call.mode = "keep" /\ call.at # "open")
    OBVIOUS
  <2>2. call.at = "open" => dir' = call.before
    BY DEF Holding, Named, Progress
  <2>3. call.at # "open" /\ call.mode = "existing" => dir' = call.before
    BY DEF Progress
  <2>4. call.at # "open" /\ call.mode = "temp" => dir' = call.before \/ dir'.stuck
    BY DEF Progress
  <2> QED BY <2>1, <2>2, <2>3, <2>4
<1>4. CASE RemoveFile
  BY <1>4 DEF RemoveFile, Progress, FileShape, Files
<1> QED BY <1>2, <1>3, <1>4

\* No failed system call and no death of the process leaks a handle.
THEOREM HandlesStayHeld == Spec => []HandlesHeld
<1>1. FileInv => HandlesHeld
  BY DEF FileInv, Holding, HandlesHeld
<1> QED BY <1>1, FileInitial, FileNext, PTL DEF Spec

\* A temporary file has no name but while it is held.
THEOREM TempIsScratch == Spec => []TempStaysScratch
<1>1. FileInv => TempStaysScratch
  BY DEF FileInv, Holding, Named, TempStaysScratch
<1> QED BY <1>1, FileInitial, FileNext, PTL DEF Spec

\* Whichever system call is refused, the path is left tidy.
THEOREM FailuresStayTidy == Spec => FailedCallsTidy
<1>1. FileInv /\ [Next]_vars =>
        [call.at \notin {"idle", "dead", "mapped"} /\ call' = Idle
           => \/ dir' = call.before
              \/ call.mode = "keep" /\ dir' = Absent
              \/ dir'.stuck]_fileVars
  BY FailureTidies
<1> QED BY <1>1, FileInitial, FileNext, PTL DEF Spec, FailedCallsTidy

-----------------------------------------------------------------------------
(* The space.                                                              *)

Inert == /\ reserved = 0 /\ committed = 0 /\ pos = 0 /\ mapped = {}
         /\ front = 0 /\ demand = 0

Bounded ==
  /\ base \in Bases \cup {0} /\ (base = 0 => Inert)
  /\ pos \in Nat /\ committed \in Nat /\ reserved \in Nat /\ front \in Nat /\ demand \in Nat
  /\ pos <= committed /\ committed <= reserved /\ pos <= demand
  /\ reserved < Word /\ front < Word /\ demand < Word

\* A file is in use as a whole; other memory is reserved and committed by pages.
Paged ==
  /\ file => committed = reserved /\ demand = committed /\ front = 0
  /\ base # 0 /\ ~file => /\ committed % PageSize = 0 /\ reserved % PageSize = 0
                          /\ reserved + MaxStep + PageSize <= Word

\* What is committed may be touched, but for the pages given back in front.
Backed ==
  /\ mapped \subseteq Pages(reserved)
  /\ \A p \in Pages(committed) : p + PageSize > front => p \in mapped

SpaceInv == Bounded /\ Paged /\ Backed /\ WasteBounded

\* An allocation that is not refused starts at or after the position, aligned, and
\* ends where the position goes.
LEMMA BumpPlaces ==
  ASSUME SpaceInv, NEW s \in Nat, s < Word, NEW a \in Nat \ {0},
         NewPos(s, a) >= UserOff(a)
  PROVE  /\ UserOff(a) \in Nat /\ pos <= UserOff(a)
         /\ NewPos(s, a) = UserOff(a) + s /\ NewPos(s, a) < Word
         /\ (base + UserOff(a)) % a = 0
<1>0. base \in Nat /\ pos \in Nat
  BY Inputs DEF SpaceInv, Bounded
<1>1. Padding(base + pos, a) \in Nat /\ (base + pos + Padding(base + pos, a)) % a = 0
  <2>1. base + pos \in Nat
    BY <1>0
  <2> QED BY <2>1, PaddingAligns
<1>2. UserOff(a) = pos + Padding(base + pos, a)
  BY DEF UserOff
<1>3. UserOff(a) \in Nat /\ pos <= UserOff(a) /\ (base + UserOff(a)) % a = 0
  <2>1. base + UserOff(a) = base + pos + Padding(base + pos, a)
    BY <1>0, <1>1, <1>2
  <2> QED BY <1>0, <1>1, <1>2, <2>1
<1>4. NewPos(s, a) = (UserOff(a) + s) % Word
  BY DEF NewPos
<1>5. UserOff(a) + s < Word
  <2> SUFFICES ASSUME UserOff(a) + s >= Word PROVE FALSE
    BY <1>3
  <2>1. UserOff(a) + s \in Nat
    BY <1>3
  <2>2. (UserOff(a) + s) % Word <= (UserOff(a) + s) - Word
    BY <2>1, RemainderBounds
  <2>3. (UserOff(a) + s) % Word \in Int
    BY <2>1, Division
  <2> QED BY <1>3, <1>4, <2>2, <2>3
<1>6. (UserOff(a) + s) % Word = UserOff(a) + s
  <2>1. UserOff(a) + s \in Nat
    BY <1>3
  <2> QED BY <1>5, <2>1, RemainderBounds
<1> QED BY <1>3, <1>4, <1>5, <1>6

\* A commit covers what was asked for, and little more.
LEMMA CommitCovers ==
  ASSUME SpaceInv, base # 0, NEW required \in Nat,
         required > committed, required <= reserved
  PROVE  /\ CommitTarget(required) \in required..reserved
         /\ CommitTarget(required) % PageSize = 0
         /\ CommitTarget(required) < required + MaxStep
<1> DEFINE D == Min({2 * committed, committed + MaxStep})
           X == Max({D, required, MinChunk})
<1>0. /\ committed \in Nat /\ reserved \in Nat /\ ~file
      /\ committed % PageSize = 0 /\ reserved % PageSize = 0
      /\ committed <= reserved /\ reserved + MaxStep + PageSize <= Word
  BY DEF SpaceInv, Bounded, Paged
<1>1. D \in {2 * committed, committed + MaxStep} /\ D <= committed + MaxStep
  <2>1. 2 * committed \in Int /\ committed + MaxStep \in Int
    BY <1>0
  <2> QED BY <2>1, MinOfTwo
<1>2. D \in Nat /\ D % PageSize = 0
  <2>0. /\ committed \in Int /\ MaxStep \in Int /\ PageSize \in Nat \ {0}
        /\ committed % PageSize = 0 /\ MaxStep % PageSize = 0
    BY <1>0
  <2>1. (committed + committed) % PageSize = 0 /\ (committed + MaxStep) % PageSize = 0
    <3> HIDE Constants
    <3> QED BY <2>0, SumOfMultiples
  <2>2. 2 * committed = committed + committed
    BY <1>0
  <2> QED BY <1>0, <1>1, <2>1, <2>2
<1>3. X \in {D, required, MinChunk} /\ X >= required
  <2> HIDE DEF D
  <2> QED BY <1>2, MaxOfThree
<1>4. X \in Nat /\ X + PageSize <= Word
  <2> HIDE DEF D, X
  <2> QED BY <1>0, <1>1, <1>2, <1>3
<1>5. /\ AlignUp(X, PageSize) \in Nat
      /\ AlignUp(X, PageSize) >= X /\ AlignUp(X, PageSize) < X + PageSize
      /\ AlignUp(X, PageSize) % PageSize = 0
  <2> HIDE DEF D, X
  <2> QED BY <1>4, AlignUpBounds, AlignUpRounds
<1>6. AlignUp(X, PageSize) < required + MaxStep
  <2> HIDE DEF D, X
  <2>1. CASE X = required
    BY <1>5, <2>1
  <2>2. CASE X = MinChunk
    <3>1. ~(MaxStep < AlignUp(X, PageSize))
      <4> SUFFICES ASSUME MaxStep < AlignUp(X, PageSize) PROVE FALSE
        OBVIOUS
      <4>1. MaxStep + PageSize <= AlignUp(X, PageSize)
        BY <1>5, MultiplesApart
      <4> QED BY <1>5, <2>2, <4>1
    <3> QED BY <1>0, <1>5, <3>1
  <2>3. CASE X = D
    <3>1. AlignUp(X, PageSize) = X
      BY <1>2, <1>4, <2>3, AlignUpFixes
    <3> QED BY <1>0, <1>1, <1>2, <2>3, <3>1
  <2> QED BY <1>3, <2>1, <2>2, <2>3
<1>7. CommitTarget(required) = Min({AlignUp(X, PageSize), reserved})
  BY DEF CommitTarget
<1> HIDE DEF D, X
<1>8. /\ CommitTarget(required) \in {AlignUp(X, PageSize), reserved}
      /\ CommitTarget(required) <= AlignUp(X, PageSize)
      /\ CommitTarget(required) <= reserved
  BY <1>0, <1>5, <1>7, MinOfTwo
<1> QED BY <1>0, <1>3, <1>4, <1>5, <1>6, <1>8

LEMMA SpaceInitial == Init => SpaceInv
BY DEF Init, ArenaInert, SpaceInv, Bounded, Inert, Paged, Backed, Pages, WasteBounded

LEMMA SpaceReleased == ASSUME Release PROVE SpaceInv'
BY DEF Release, SpaceInv, Bounded, Inert, Paged, Backed, Pages, WasteBounded

\* Alloc and AllocAligned.
LEMMA SpaceBump ==
  ASSUME SpaceInv, NEW s \in Nat, s < Word, NEW a \in Nat \ {0}, NEW asked,
         base # 0, Bump(s, a, asked)
  PROVE  SpaceInv'
<1> DEFINE q == NewPos(s, a)
<1>a. Bounded /\ Paged /\ Backed /\ WasteBounded
  BY DEF SpaceInv
<1>0. /\ q \in Nat /\ q < Word /\ pos' = q /\ q <= reserved
      /\ demand' = Max({demand, q}) /\ EnsureCommitted(q)
      /\ UNCHANGED <<base, reserved, file, front>>
  <2>1. q \in Nat /\ q < Word
    BY BumpPlaces DEF Bump
  <2> QED BY <2>1 DEF Bump
<1> HIDE DEF q
<1>1. demand' \in Nat /\ demand' >= q /\ demand' >= demand /\ demand' \in {demand, q}
  <2>1. demand \in Int /\ q \in Int /\ demand \in Nat
    BY <1>a, <1>0 DEF Bounded
  <2>2. /\ Max({demand, q}) \in {demand, q}
        /\ Max({demand, q}) >= demand /\ Max({demand, q}) >= q
    BY <2>1, MaxOfTwo
  <2> QED BY <1>0, <2>1, <2>2
<1>2. demand' < Word
  BY <1>a, <1>0, <1>1 DEF Bounded
<1>3. CASE q <= committed
  <2>1. UNCHANGED <<committed, mapped>>
    BY <1>a, <1>0, <1>3 DEF EnsureCommitted, Bounded
  <2>2. Bounded'
    BY <1>a, <1>0, <1>1, <1>2, <1>3, <2>1 DEF Bounded
  <2>3. Paged'
    BY <1>a, <1>0, <1>1, <1>3, <2>1 DEF Bounded, Paged
  <2>4. Backed'
    BY <1>a, <1>0, <2>1 DEF Backed
  <2>5. WasteBounded'
    BY <1>a, <1>0, <1>1, <1>3, <2>1 DEF Bounded, WasteBounded
  <2> QED BY <2>2, <2>3, <2>4, <2>5 DEF SpaceInv
<1>4. CASE q > committed
  <2>1. /\ committed' = CommitTarget(q)
        /\ mapped' = mapped \cup (Pages(CommitTarget(q)) \ Pages(committed))
    BY <1>a, <1>0, <1>4 DEF EnsureCommitted, Bounded
  <2>2. /\ committed' \in q..reserved /\ committed' % PageSize = 0
        /\ committed' < q + MaxStep
    BY <1>0, <1>4, <2>1, CommitCovers
  <2>3. ~file
    BY <1>a, <1>0, <1>4 DEF Bounded, Paged
  <2>4. Bounded'
    BY <1>a, <1>0, <1>1, <1>2, <2>2 DEF Bounded
  <2>5. Paged'
    BY <1>a, <1>0, <2>2, <2>3 DEF Paged
  <2>6. WasteBounded'
    BY <1>0, <1>1, <2>2 DEF WasteBounded
  <2>7. Backed'
    <3>1. Pages(CommitTarget(q)) \subseteq Pages(reserved)
      BY <1>a, <2>1, <2>2 DEF Bounded, Pages
    <3> QED BY <1>a, <1>0, <2>1, <3>1 DEF Backed
  <2> QED BY <2>4, <2>5, <2>6, <2>7 DEF SpaceInv
<1> QED BY <1>a, <1>0, <1>3, <1>4 DEF Bounded

\* Creation, on memory or on a file.
LEMMA SpaceMapped ==
  ASSUME SpaceInv, NEW b \in Bases, NEW size \in Nat, size < Word,
         NEW backed \in {0, size}, NEW isFile \in BOOLEAN,
         Map(b, size, backed, isFile), pos' \in {0, backed},
         IF isFile THEN backed = size
                   ELSE size % PageSize = 0 /\ size + MaxStep + PageSize <= Word
  PROVE  SpaceInv'
<1>1. base = 0 /\ front = 0 /\ b # 0
  BY Inputs DEF SpaceInv, Bounded, Inert, Map, Live
<1>2. backed \in Nat /\ (0 % PageSize = 0)
  BY RemainderBounds
<1>3. Bounded' /\ Paged' /\ WasteBounded'
  BY <1>1, <1>2 DEF Map, Bounded, Paged, WasteBounded
<1>4. Backed'
  BY <1>1 DEF Map, Backed, Pages
<1> QED BY <1>3, <1>4 DEF SpaceInv

LEMMA SpaceShrink ==
  ASSUME SpaceInv, NEW slack \in Sizes, ShrinkKeep(slack) PROVE SpaceInv'
<1> DEFINE kept == AlignUp(pos + slack, PageSize)
<1>a. Bounded /\ Paged /\ Backed
  BY DEF SpaceInv
<1>1. /\ pos + slack \in Nat /\ pos + slack < Word
      /\ kept >= pos /\ kept < committed
      /\ committed' = kept /\ mapped' = mapped \cap Pages(kept) /\ demand' = pos + slack
      /\ ~file /\ base # 0 /\ slack \in Nat
      /\ UNCHANGED <<base, reserved, pos, file, front>>
  BY <1>a, Inputs DEF ShrinkKeep, Usable, Live, Bounded
<1>2. kept \in Nat /\ kept % PageSize = 0 /\ kept < pos + slack + PageSize
  BY <1>1, AlignUpBounds
<1> HIDE DEF kept
<1>3. Bounded'
  BY <1>a, <1>1, <1>2 DEF Bounded
<1>4. Paged'
  BY <1>a, <1>1, <1>2 DEF Paged
<1>5. WasteBounded'
  BY <1>1, <1>2 DEF WasteBounded
<1>6. Backed'
  <2>1. Pages(kept) \subseteq Pages(committed)
    BY <1>a, <1>1, <1>2 DEF Bounded, Pages
  <2> QED BY <1>a, <1>1, <2>1 DEF Backed
<1> QED BY <1>3, <1>4, <1>5, <1>6 DEF SpaceInv

LEMMA SpaceFront ==
  ASSUME SpaceInv, NEW u \in Nat, u < Word, DecommitFront(u) PROVE SpaceInv'
<1> DEFINE d == u - (u % PageSize)
<1>a. Bounded /\ Paged /\ Backed /\ WasteBounded
  BY DEF SpaceInv
<1>1. d \in 0..u /\ d % PageSize = 0
  BY RoundDown
<1>2. FrontEnd(u) = Min({d, committed})
  BY DEF FrontEnd
<1> HIDE DEF d
<1>3. FrontEnd(u) <= d /\ FrontEnd(u) \in Int /\ d \in Int
  <2>1. d \in Int /\ committed \in Int
    BY <1>a, <1>1 DEF Bounded
  <2>2. Min({d, committed}) \in {d, committed} /\ Min({d, committed}) <= d
    BY <2>1, MinOfTwo
  <2> QED BY <1>2, <2>1, <2>2
<1>4. /\ front' = Max({front, u}) /\ mapped' = mapped \ Pages(FrontEnd(u))
      /\ ~file /\ base # 0
      /\ UNCHANGED <<base, reserved, committed, pos, file, demand>>
  BY DEF DecommitFront, Live
<1>5. front' \in Nat /\ front' >= front /\ front' >= u /\ front' < Word
  <2>1. front \in Int /\ u \in Int /\ front \in Nat /\ front < Word
    BY <1>a DEF Bounded
  <2>2. /\ Max({front, u}) \in {front, u}
        /\ Max({front, u}) >= front /\ Max({front, u}) >= u
    BY <2>1, MaxOfTwo
  <2> QED BY <1>4, <2>1, <2>2
<1>6. Bounded' /\ Paged' /\ WasteBounded'
  BY <1>a, <1>4, <1>5 DEF Bounded, Paged, WasteBounded
<1>7. ASSUME NEW p \in Pages(committed), p + PageSize > front' PROVE p \in mapped'
  <2>1. p \in Nat /\ p % PageSize = 0
    BY <1>7, <1>a DEF Pages, Bounded
  <2>2. p \in mapped
    BY <1>a, <1>5, <1>7, <2>1 DEF Bounded, Backed
  <2>3. p < d => p + PageSize <= d
    BY <1>1, <1>3, <2>1, MultiplesApart
  <2>4. ~(p < FrontEnd(u))
    BY <1>1, <1>3, <1>5, <1>7, <2>1, <2>3
  <2>5. p \notin Pages(FrontEnd(u))
    BY <1>3, <2>1, <2>4 DEF Pages
  <2> QED BY <1>4, <2>2, <2>5
<1> QED BY <1>a, <1>4, <1>6, <1>7 DEF SpaceInv, Backed

-----------------------------------------------------------------------------
(* The blocks.                                                             *)

Block     == [off : Nat, size : Nat, align : Nat]
SavePoint == [at : Nat, kept : Nat]

\* The blocks a save point keeps lie below it, and an older one keeps no more.
SavesInOrder ==
  /\ \A i \in DOMAIN saves :
       /\ saves[i].kept <= Len(blocks)
       /\ \A j \in 1..saves[i].kept : EndOf(blocks[j]) <= saves[i].at
  /\ \A i, j \in DOMAIN saves : i < j => saves[i].kept <= saves[j].kept

BlockInv ==
  /\ blocks \in Seq(Block) /\ saves \in Seq(SavePoint)
  /\ base = 0 => blocks = << >> /\ saves = << >>
  /\ BlocksDisjoint
  /\ SavesInOrder

LEMMA BlockInitial == Init => BlockInv
BY DEF Init, ArenaInert, BlockInv, BlocksDisjoint, SavesInOrder

LEMMA BlockReleased == ASSUME Release PROVE BlockInv'
BY DEF Release, BlockInv, BlocksDisjoint, SavesInOrder

LEMMA SavesTyped ==
  ASSUME BlockInv
  PROVE  /\ \A i \in DOMAIN saves : saves[i] \in SavePoint /\ saves[i].kept \in Nat
         /\ DOMAIN saves = 1..Len(saves) /\ Len(saves) \in Nat
<1>1. saves \in Seq(SavePoint)
  BY DEF BlockInv
<1>2. \A i \in 1..Len(saves) : saves[i] \in SavePoint
  BY <1>1, ElementOfSeq
<1>3. DOMAIN saves = 1..Len(saves) /\ Len(saves) \in Nat
  BY <1>1
<1> QED BY <1>2, <1>3 DEF SavePoint

LEMMA BlockBump ==
  ASSUME SpaceInv, BlockInv, NEW s \in Nat, s < Word, NEW a \in Nat \ {0}, NEW asked \in Nat,
         base # 0, Bump(s, a, asked),
         asked # 0 => (base + UserOff(a)) % asked = 0
  PROVE  BlockInv'
<1> DEFINE b == [off |-> UserOff(a), size |-> s, align |-> asked]
<1>1. /\ b \in Block /\ pos \in Nat /\ pos <= b.off /\ EndOf(b) = pos'
      /\ blocks' = Append(blocks, b) /\ UNCHANGED <<base, saves>>
  BY BumpPlaces DEF SpaceInv, Bounded, Bump, Block, EndOf
<1>2. b.align # 0 => (base + b.off) % b.align = 0
  OBVIOUS
<1> HIDE DEF b
<1>3. /\ blocks' \in Seq(Block) /\ Len(blocks') = Len(blocks) + 1
      /\ \A i \in 1..Len(blocks) : blocks'[i] = blocks[i]
      /\ blocks'[Len(blocks) + 1] = b /\ DOMAIN blocks' = 1..(Len(blocks) + 1)
      /\ Len(blocks) \in Nat /\ DOMAIN blocks = 1..Len(blocks)
  BY <1>1, AppendProperties DEF BlockInv
<1>4. \A i \in DOMAIN blocks : blocks[i] \in Block /\ EndOf(blocks[i]) <= pos
  BY DEF BlockInv, BlocksDisjoint
<1>5. BlocksDisjoint'
  <2>1. ASSUME NEW i \in DOMAIN blocks' PROVE EndOf(blocks'[i]) <= pos'
    <3>1. pos <= pos' /\ pos' \in Nat
      BY <1>1 DEF EndOf, Block
    <3>2. CASE i = Len(blocks) + 1
      BY <1>1, <1>3, <3>1, <3>2
    <3>3. CASE i \in DOMAIN blocks
      <4>1. blocks'[i] = blocks[i] /\ EndOf(blocks[i]) <= pos /\ EndOf(blocks[i]) \in Nat
        <5>1. blocks'[i] = blocks[i] /\ EndOf(blocks[i]) <= pos /\ blocks[i] \in Block
          BY <1>3, <1>4, <3>3
        <5> HIDE Constants
        <5> QED BY <5>1 DEF EndOf, Block
      <4> QED BY <1>1, <3>1, <4>1
    <3> QED BY <1>3, <3>2, <3>3
  <2>2. ASSUME NEW i \in DOMAIN blocks', blocks'[i].align # 0
        PROVE  (base' + blocks'[i].off) % blocks'[i].align = 0
    BY <1>1, <1>2, <1>3, <2>2 DEF BlockInv, BlocksDisjoint
  <2>3. ASSUME NEW i \in DOMAIN blocks', NEW j \in DOMAIN blocks', i < j
        PROVE  EndOf(blocks'[i]) <= blocks'[j].off
    <3>1. i \in DOMAIN blocks /\ blocks'[i] = blocks[i]
      BY <1>3, <2>3
    <3>2. CASE j = Len(blocks) + 1
      BY <1>1, <1>3, <1>4, <3>1, <3>2 DEF EndOf, Block
    <3>3. CASE j \in DOMAIN blocks
      BY <1>3, <2>3, <3>1, <3>3 DEF BlockInv, BlocksDisjoint
    <3> QED BY <1>3, <3>2, <3>3
  <2> QED BY <2>1, <2>2, <2>3 DEF BlocksDisjoint, EndOf
<1>6. SavesInOrder'
  <2>1. \A i \in DOMAIN saves : saves[i].kept \in Nat /\ saves[i].kept <= Len(blocks)
    BY SavesTyped DEF BlockInv, SavesInOrder, SavePoint
  <2>2. \A i \in DOMAIN saves : \A j \in 1..saves[i].kept : blocks'[j] = blocks[j]
    BY <1>3, <2>1
  <2> QED BY <1>1, <1>3, <2>1, <2>2 DEF BlockInv, SavesInOrder, EndOf
<1> QED BY <1>1, <1>3, <1>5, <1>6 DEF BlockInv, SpaceInv, Bounded

\* The client keeps its n oldest blocks, all below the new position.
LEMMA BlocksKept ==
  ASSUME BlockInv, NEW n \in 0..Len(blocks), blocks' = SubSeq(blocks, 1, n),
         UNCHANGED base, pos' \in Nat, \A j \in 1..n : EndOf(blocks[j]) <= pos'
  PROVE  /\ blocks' \in Seq(Block) /\ Len(blocks') = n /\ BlocksDisjoint'
         /\ \A i \in 1..n : blocks'[i] = blocks[i]
<1>1. /\ blocks' \in Seq(Block) /\ Len(blocks') = n /\ DOMAIN blocks' = 1..n
      /\ \A i \in 1..n : blocks'[i] = blocks[i] /\ i \in DOMAIN blocks
  BY SubSeqProperties DEF BlockInv
<1> QED BY <1>1 DEF BlockInv, BlocksDisjoint, EndOf

\* Its save points keep no more of them.
LEMMA SavesAreCapped ==
  ASSUME BlockInv, NEW n \in 0..Len(blocks), saves' = Capped(n), Len(blocks') = n,
         \A i \in 1..n : blocks'[i] = blocks[i]
  PROVE  saves' \in Seq(SavePoint) /\ SavesInOrder'
<1>1. \A i \in DOMAIN saves : saves[i] \in SavePoint /\ saves[i].kept \in Nat
  BY SavesTyped
<1>2. \A i \in DOMAIN saves :
        /\ Min({saves[i].kept, n}) \in Nat
        /\ Min({saves[i].kept, n}) <= n /\ Min({saves[i].kept, n}) <= saves[i].kept
        /\ Min({saves[i].kept, n}) \in {saves[i].kept, n}
  <2> TAKE i \in DOMAIN saves
  <2>1. saves[i].kept \in Int /\ n \in Int
    BY <1>1
  <2>2. /\ Min({saves[i].kept, n}) \in {saves[i].kept, n}
        /\ Min({saves[i].kept, n}) <= saves[i].kept /\ Min({saves[i].kept, n}) <= n
    BY <2>1, MinOfTwo
  <2> QED BY <1>1, <2>2
<1>3. /\ DOMAIN saves' = DOMAIN saves
      /\ \A i \in DOMAIN saves : /\ saves'[i] \in SavePoint
                                 /\ saves'[i].at = saves[i].at
                                 /\ saves'[i].kept = Min({saves[i].kept, n})
  BY <1>1, <1>2 DEF Capped, SavePoint
<1>4. saves' \in Seq(SavePoint)
  <2>1. saves' = [i \in 1..Len(saves) |-> saves'[i]] /\ Len(saves) \in Nat
    BY <1>3, SavesTyped DEF Capped
  <2>2. \A i \in 1..Len(saves) : saves'[i] \in SavePoint
    BY <1>3, SavesTyped
  <2> QED BY <2>1, <2>2, SeqDef
<1>5. ASSUME NEW i \in DOMAIN saves'
      PROVE  /\ saves'[i].kept <= n
             /\ \A j \in 1..saves'[i].kept : EndOf(blocks'[j]) <= saves'[i].at
  <2>0. i \in DOMAIN saves
    BY <1>3
  <2>1. /\ saves'[i].at = saves[i].at /\ saves'[i].kept \in Nat
        /\ saves'[i].kept <= n /\ saves'[i].kept <= saves[i].kept
    BY <1>2, <1>3, <2>0
  <2>2. ASSUME NEW j \in 1..saves'[i].kept PROVE EndOf(blocks'[j]) <= saves'[i].at
    <3>1. j \in 1..n /\ j \in 1..saves[i].kept
      BY <1>1, <2>0, <2>1
    <3>2. EndOf(blocks[j]) <= saves[i].at /\ blocks'[j] = blocks[j]
      BY <2>0, <3>1 DEF BlockInv, SavesInOrder
    <3> QED BY <2>1, <3>2 DEF EndOf
  <2> QED BY <2>1, <2>2
<1>6. ASSUME NEW i \in DOMAIN saves', NEW j \in DOMAIN saves', i < j
      PROVE  saves'[i].kept <= saves'[j].kept
  <2>0. i \in DOMAIN saves /\ j \in DOMAIN saves
    BY <1>3
  <2>1. saves[i].kept <= saves[j].kept
    BY <1>6, <2>0 DEF BlockInv, SavesInOrder
  <2>2. /\ saves'[i].kept = Min({saves[i].kept, n})
        /\ saves'[j].kept = Min({saves[j].kept, n})
    BY <1>3, <2>0
  <2> QED BY <1>1, <1>2, <2>0, <2>1, <2>2
<1> QED BY <1>4, <1>5, <1>6 DEF SavesInOrder, EndOf

LEMMA BlockPop == ASSUME SpaceInv, BlockInv, Pop PROVE BlockInv'
<1> DEFINE n == Len(blocks) - 1
<1>1. /\ Len(blocks) \in Nat \ {0} /\ n \in 0..Len(blocks) /\ blocks[Len(blocks)] \in Block
      /\ DOMAIN blocks = 1..Len(blocks)
  BY ElementOfSeq, EmptySeq DEF BlockInv, Pop
<1>2. /\ pos' = pos - blocks[Len(blocks)].size /\ blocks' = SubSeq(blocks, 1, n)
      /\ saves' = Capped(n) /\ UNCHANGED base /\ base # 0
  BY DEF Pop, Keep, Newest, Usable, Live
<1>3. /\ pos' \in Nat /\ blocks[Len(blocks)].off <= pos'
  <2>1. EndOf(blocks[Len(blocks)]) <= pos /\ pos \in Nat
    BY <1>1 DEF BlockInv, BlocksDisjoint, SpaceInv, Bounded
  <2> QED BY <1>1, <1>2, <2>1 DEF EndOf, Block
<1>4. ASSUME NEW j \in 1..n PROVE EndOf(blocks[j]) <= pos'
  <2>1. EndOf(blocks[j]) <= blocks[Len(blocks)].off
    BY <1>1 DEF BlockInv, BlocksDisjoint
  <2>2. blocks[j] \in Block
    BY <1>1, ElementOfSeq DEF BlockInv
  <2> QED BY <1>1, <1>3, <2>1, <2>2 DEF EndOf, Block
<1> HIDE DEF n
<1>5. /\ blocks' \in Seq(Block) /\ Len(blocks') = n /\ BlocksDisjoint'
      /\ \A i \in 1..n : blocks'[i] = blocks[i]
  BY <1>1, <1>2, <1>3, <1>4, BlocksKept
<1>6. saves' \in Seq(SavePoint) /\ SavesInOrder'
  BY <1>1, <1>2, <1>5, SavesAreCapped
<1> QED BY <1>2, <1>5, <1>6 DEF BlockInv

LEMMA BlockClear == ASSUME SpaceInv, BlockInv, Clear PROVE BlockInv'
<1>1. /\ 0 \in 0..Len(blocks) /\ blocks' = SubSeq(blocks, 1, 0) /\ saves' = Capped(0)
      /\ UNCHANGED base /\ base # 0 /\ pos' = 0
  BY LenProperties DEF BlockInv, Clear, Keep, Usable, Live
<1>2. /\ blocks' \in Seq(Block) /\ Len(blocks') = 0 /\ BlocksDisjoint'
      /\ \A i \in 1..0 : blocks'[i] = blocks[i]
  BY <1>1, BlocksKept
<1>3. saves' \in Seq(SavePoint) /\ SavesInOrder'
  BY <1>1, <1>2, SavesAreCapped
<1> QED BY <1>1, <1>2, <1>3 DEF BlockInv

LEMMA BlockSave == ASSUME SpaceInv, BlockInv, Save PROVE BlockInv'
<1> DEFINE e == [at |-> pos, kept |-> Len(blocks)]
<1>1. /\ pos \in Nat /\ Len(blocks) \in Nat /\ DOMAIN blocks = 1..Len(blocks)
      /\ UNCHANGED <<base, pos, blocks>> /\ saves' = Append(saves, e) /\ base # 0
  BY LenProperties DEF SpaceInv, Bounded, BlockInv, Save, Usable, Live
<1>2. e \in SavePoint
  BY <1>1 DEF SavePoint
<1>3. /\ saves' \in Seq(SavePoint) /\ DOMAIN saves' = 1..(Len(saves) + 1)
      /\ \A i \in 1..Len(saves) : saves'[i] = saves[i]
      /\ saves'[Len(saves) + 1] = e
      /\ Len(saves) \in Nat /\ DOMAIN saves = 1..Len(saves)
  BY <1>1, <1>2, AppendProperties, LenProperties DEF BlockInv
<1>4. BlocksDisjoint'
  BY <1>1 DEF BlockInv, BlocksDisjoint
<1>5. \A j \in DOMAIN blocks : EndOf(blocks[j]) <= pos
  BY DEF BlockInv, BlocksDisjoint
<1>6. \A i \in DOMAIN saves : saves[i].kept <= Len(blocks)
  BY DEF BlockInv, SavesInOrder
<1>7. SavesInOrder'
  <2>1. ASSUME NEW i \in DOMAIN saves'
        PROVE  /\ saves'[i].kept <= Len(blocks)
               /\ \A j \in 1..saves'[i].kept : EndOf(blocks[j]) <= saves'[i].at
    BY <1>1, <1>3, <1>5 DEF BlockInv, SavesInOrder
  <2>2. ASSUME NEW i \in DOMAIN saves', NEW j \in DOMAIN saves', i < j
        PROVE  saves'[i].kept <= saves'[j].kept
    <3>1. i \in DOMAIN saves /\ saves'[i] = saves[i]
      BY <1>3, <2>2
    <3>2. CASE j = Len(saves) + 1
      BY <1>3, <1>6, <3>1, <3>2
    <3>3. CASE j \in DOMAIN saves
      BY <1>3, <2>2, <3>1, <3>3 DEF BlockInv, SavesInOrder
    <3> QED BY <1>3, <3>2, <3>3
  <2> QED BY <1>1, <2>1, <2>2 DEF SavesInOrder, EndOf
<1> QED BY <1>1, <1>3, <1>4, <1>7 DEF BlockInv

LEMMA BlockRestore == ASSUME SpaceInv, BlockInv, Restore PROVE BlockInv'
<1> DEFINE m == Len(saves)
           n == saves[m].kept
<1>1. /\ m \in Nat \ {0} /\ saves[m] \in SavePoint /\ DOMAIN saves = 1..m
      /\ n \in 0..Len(blocks) /\ saves[m].at \in Nat
      /\ \A j \in 1..n : EndOf(blocks[j]) <= saves[m].at
  <2>1. saves # << >> /\ saves \in Seq(SavePoint)
    BY DEF Restore, BlockInv
  <2>2. m \in Nat \ {0} /\ DOMAIN saves = 1..m
    BY <2>1, EmptySeq, LenProperties
  <2>3. saves[m] \in SavePoint
    BY <2>1, <2>2, ElementOfSeq
  <2>4. n \in Nat /\ saves[m].at \in Nat
    BY <2>3 DEF SavePoint
  <2>5. m \in DOMAIN saves
    BY <2>2
  <2>6. n <= Len(blocks) /\ \A j \in 1..n : EndOf(blocks[j]) <= saves[m].at
    BY <2>5 DEF BlockInv, SavesInOrder
  <2>7. Len(blocks) \in Nat
    BY LenProperties DEF BlockInv
  <2> QED BY <2>2, <2>3, <2>4, <2>6, <2>7
<1>2. /\ UNCHANGED base /\ base # 0 /\ saves' = SubSeq(saves, 1, m - 1)
      /\ \/ pos' = saves[m].at /\ blocks' = SubSeq(blocks, 1, n)
         \/ UNCHANGED <<pos, blocks>>
  BY DEF Restore, Keep, Newest, Usable, Live
<1>3. \A i \in 1..(m - 1) : saves[i] \in SavePoint /\ i \in DOMAIN saves
  BY <1>1, ElementOfSeq DEF BlockInv
<1>4. /\ saves' \in Seq(SavePoint) /\ DOMAIN saves' = 1..(m - 1)
      /\ \A i \in 1..(m - 1) : saves'[i] = saves[i]
  BY <1>1, <1>2, <1>3, SubSeqProperties, LenProperties
<1>5. \A i \in 1..(m - 1) : /\ saves[i].kept \in Nat
                            /\ saves[i].kept <= n /\ saves[i].kept <= Len(blocks)
  <2> TAKE i \in 1..(m - 1)
  <2>1. i \in DOMAIN saves /\ m \in DOMAIN saves /\ i < m
    BY <1>1, <1>3
  <2> HIDE DEF m
  <2>2. saves[i].kept <= saves[m].kept /\ saves[i].kept <= Len(blocks)
    BY <2>1 DEF BlockInv, SavesInOrder
  <2> QED BY <1>3, <2>2 DEF SavePoint
<1>6. /\ blocks' \in Seq(Block) /\ BlocksDisjoint'
      /\ \A i \in 1..(m - 1) : /\ saves[i].kept <= Len(blocks')
                               /\ \A j \in 1..saves[i].kept : blocks'[j] = blocks[j]
  <2>1. CASE pos' = saves[m].at /\ blocks' = SubSeq(blocks, 1, n)
    <3> HIDE DEF n, m
    <3>1. /\ blocks' \in Seq(Block) /\ Len(blocks') = n /\ BlocksDisjoint'
          /\ \A i \in 1..n : blocks'[i] = blocks[i]
      BY <1>1, <1>2, <2>1, BlocksKept
    <3> QED BY <1>1, <1>5, <3>1
  <2>2. CASE UNCHANGED <<pos, blocks>>
    BY <1>2, <1>5, <2>2 DEF BlockInv, BlocksDisjoint
  <2> QED BY <1>2, <2>1, <2>2
<1>7. SavesInOrder'
  <2> HIDE DEF n, m
  <2>1. ASSUME NEW i \in DOMAIN saves'
        PROVE  /\ saves'[i].kept <= Len(blocks')
               /\ \A j \in 1..saves'[i].kept : EndOf(blocks'[j]) <= saves'[i].at
    BY <1>3, <1>4, <1>6 DEF BlockInv, SavesInOrder
  <2>2. ASSUME NEW i \in DOMAIN saves', NEW j \in DOMAIN saves', i < j
        PROVE  saves'[i].kept <= saves'[j].kept
    BY <1>3, <1>4, <2>2 DEF BlockInv, SavesInOrder
  <2> QED BY <2>1, <2>2 DEF SavesInOrder, EndOf
<1> QED BY <1>2, <1>4, <1>6, <1>7 DEF BlockInv

-----------------------------------------------------------------------------
(* All together.                                                           *)

ArenaInv == FileInv /\ SpaceInv /\ BlockInv

LEMMA ArenaInitial == Init => ArenaInv
BY FileInitial, SpaceInitial, BlockInitial DEF ArenaInv

\* What leaves the struct, its pages and the client alone.
LEMMA Untouched == ASSUME SpaceInv, BlockInv, UNCHANGED arenaVars PROVE SpaceInv' /\ BlockInv'
BY DEF arenaVars, client, SpaceInv, Bounded, Inert, Paged, Backed, WasteBounded,
       BlockInv, BlocksDisjoint, SavesInOrder

LEMMA Allocates ==
  ASSUME SpaceInv, BlockInv, NEW s \in Sizes,
         Alloc(s) \/ \E a \in Aligns : AllocAligned(s, a)
  PROVE  SpaceInv' /\ BlockInv'
<1>1. s \in Nat /\ s < Word
  BY Inputs
<1>2. CASE Alloc(s)
  <2>1. base # 0 /\ Bump(s, DefaultAlign, DefaultAlign)
    BY <1>2 DEF Alloc, Usable, Live
  <2>2. (base + UserOff(DefaultAlign)) % DefaultAlign = 0
    BY <1>1, <2>1, BumpPlaces DEF Bump
  <2> QED BY <1>1, <2>1, <2>2, SpaceBump, BlockBump
<1>3. ASSUME NEW asked \in Aligns, AllocAligned(s, asked) PROVE SpaceInv' /\ BlockInv'
  <2> DEFINE a == Max({asked, MinAlign})
  <2>1. asked \in Nat /\ base # 0 /\ Bump(s, a, asked) /\ (asked = 0 \/ IsPow2(asked))
    BY <1>3, Inputs DEF AllocAligned, Usable, Live
  <2>2. a \in {asked, MinAlign} /\ a >= asked /\ a >= MinAlign
    <3>1. asked \in Int /\ MinAlign \in Int
      BY <2>1
    <3> QED BY <3>1, MaxOfTwo
  <2> HIDE DEF a
  <2>3. a \in Nat \ {0}
    BY <2>1, <2>2
  <2>4. UserOff(a) \in Nat /\ (base + UserOff(a)) % a = 0
    BY <1>1, <2>1, <2>3, BumpPlaces DEF Bump
  <2>5. asked # 0 => a % asked = 0
    <3>1. CASE a = asked
      <4>1. asked # 0 => (asked * 1) % asked = 0
        BY <2>1, MultipleLeavesZero
      <4> QED BY <2>1, <3>1, <4>1
    <3>2. CASE a = MinAlign /\ asked # 0
      <4>1. asked \in 1..MinAlign /\ \E n \in 0..asked : asked = 2^n
        BY <2>1, <2>2, <3>2 DEF IsPow2
      <4> QED BY <3>2, <4>1, ArenaAssumption
    <3> QED BY <2>2, <3>1, <3>2
  <2>6. asked # 0 => (base + UserOff(a)) % asked = 0
    <3>1. base + UserOff(a) \in Nat
      BY <2>4, Inputs DEF SpaceInv, Bounded
    <3> QED BY <2>1, <2>3, <2>4, <2>5, <3>1, AlignedToDivisor
  <2> QED BY <1>1, <2>1, <2>3, <2>6, SpaceBump, BlockBump
<1> QED BY <1>2, <1>3

\* A file just mapped: all of an existing one is one block.
LEMMA Adopts ==
  ASSUME FileInv, SpaceInv, BlockInv, NEW b \in Bases, Adopt(b)
  PROVE  SpaceInv' /\ BlockInv'
<1> DEFINE size == call.size
           whole == [off |-> 0, size |-> size, align |-> PageSize]
<1>1. size \in Nat /\ size < Word
  BY DEF FileInv, FileShape, Calls, Progress, Adopt
<1>2. /\ Map(b, size, size, TRUE) /\ base = 0 /\ base' = b
      /\ \/ pos' = size /\ blocks' = <<whole>>
         \/ pos' = 0 /\ blocks' = << >>
  BY DEF Adopt, Map, Live
<1>3. b \in Nat \ {0} /\ b % PageSize = 0
  BY ArenaAssumption
<1>4. whole \in Block /\ EndOf(whole) = size /\ (b + 0) % PageSize = 0
  BY <1>1, <1>3 DEF Block, EndOf
<1>5. saves' = << >>
  BY <1>2 DEF Map, BlockInv
<1> HIDE DEF size, whole
<1>6. SpaceInv'
  BY <1>1, <1>2, SpaceMapped
<1>7. CASE pos' = size /\ blocks' = <<whole>>
  <2>1. blocks' \in Seq(Block) /\ DOMAIN blocks' = {1} /\ blocks'[1] = whole
    BY <1>4, <1>7
  <2>2. BlocksDisjoint'
    <3>1. whole.off = 0 /\ whole.align = PageSize
      BY DEF whole
    <3> QED BY <1>1, <1>2, <1>4, <1>7, <2>1, <3>1 DEF BlocksDisjoint, EndOf
  <2> QED BY <1>2, <1>3, <1>5, <1>6, <2>1, <2>2 DEF BlockInv, SavesInOrder
<1>8. CASE blocks' = << >>
  BY <1>2, <1>3, <1>5, <1>6, <1>8 DEF BlockInv, BlocksDisjoint, SavesInOrder
<1> QED BY <1>2, <1>6, <1>7, <1>8

LEMMA Creates ==
  ASSUME SpaceInv, BlockInv, NEW b \in Bases, NEW r \in Requests, NEW eager \in BOOLEAN,
         CreateEx(b, r, eager)
  PROVE  SpaceInv' /\ BlockInv'
<1> DEFINE size == AlignUp(r, PageSize)
<1>1. size \in Nat /\ size < Word /\ size % PageSize = 0
  BY Inputs, AlignUpBounds
<1>2. /\ Map(b, size, IF eager THEN size ELSE 0, FALSE) /\ base = 0 /\ base' = b
      /\ size + MaxStep + PageSize <= Word /\ pos' = 0 /\ UNCHANGED blocks
  BY DEF CreateEx, Map, Live
<1> HIDE DEF size
<1>3. SpaceInv'
  BY <1>1, <1>2, SpaceMapped
<1>4. blocks' = << >> /\ saves' = << >> /\ b # 0
  BY <1>2, Inputs DEF Map, BlockInv
<1> QED BY <1>2, <1>3, <1>4 DEF BlockInv, BlocksDisjoint, SavesInOrder

\* What moves the position down touches no page.
LEMMA SpaceLowered ==
  ASSUME SpaceInv, UNCHANGED <<base, reserved, committed, file, mapped, front, demand>>,
         pos' \in 0..pos, base # 0
  PROVE  SpaceInv'
BY DEF SpaceInv, Bounded, Paged, Backed, WasteBounded

LEMMA ArenaNext == ArenaInv /\ [Next]_vars => ArenaInv'
<1> SUFFICES ASSUME FileInv, SpaceInv, BlockInv, [Next]_vars
             PROVE  SpaceInv' /\ BlockInv'
  BY FileNext DEF ArenaInv
<1>1. ASSUME NEW r \in Requests, NEW b \in Bases, NEW eager \in BOOLEAN,
             CreateEx(b, r, eager)
      PROVE  SpaceInv' /\ BlockInv'
  BY <1>1, Creates
<1>2. ASSUME UNCHANGED arenaVars PROVE SpaceInv' /\ BlockInv'
  BY <1>2, Untouched
<1>3. ASSUME NEW r \in Requests, NEW mode \in {"keep", "temp"}, CreateShared(r, mode)
      PROVE  SpaceInv' /\ BlockInv'
  BY <1>2, <1>3 DEF CreateShared
<1>4. ASSUME NEW asReadOnly \in BOOLEAN, OpenShared(asReadOnly)
      PROVE  SpaceInv' /\ BlockInv'
  BY <1>2, <1>4 DEF OpenShared
<1>5. CASE FileStep \/ Elsewhere
  BY <1>2, <1>5 DEF FileStep, Elsewhere
<1>6. ASSUME NEW b \in Bases, Adopt(b) PROVE SpaceInv' /\ BlockInv'
  BY <1>6, Adopts
<1>7. CASE Exit \/ Destroy
  BY <1>7, SpaceReleased, BlockReleased DEF Exit, Destroy
<1>8. ASSUME NEW s \in Sizes, Alloc(s) \/ \E a \in Aligns : AllocAligned(s, a)
      PROVE  SpaceInv' /\ BlockInv'
  BY <1>8, Allocates
<1>9. ASSUME NEW s \in Sizes, ShrinkKeep(s) PROVE SpaceInv' /\ BlockInv'
  BY <1>9, SpaceShrink DEF ShrinkKeep, BlockInv, BlocksDisjoint, SavesInOrder
<1>10. ASSUME NEW u \in {blocks[i].off : i \in DOMAIN blocks} \cup {Word - 1},
              DecommitFront(u)
       PROVE  SpaceInv' /\ BlockInv'
  <2>1. u \in Nat /\ u < Word
    <3>1. \A i \in DOMAIN blocks : blocks[i] \in Block /\ EndOf(blocks[i]) <= pos
      BY ElementOfSeq, LenProperties DEF BlockInv, BlocksDisjoint
    <3> QED BY <3>1 DEF Block, EndOf, SpaceInv, Bounded
  <2> QED BY <1>10, <2>1, SpaceFront DEF DecommitFront, BlockInv, BlocksDisjoint,
                                         SavesInOrder
<1>11. ASSUME BlockInv', UNCHANGED <<base, reserved, committed, file, mapped, front, demand>>,
              pos' \in 0..pos, base # 0
       PROVE  SpaceInv' /\ BlockInv'
  BY <1>11, SpaceLowered
<1>12. CASE Pop
  <2>1. base # 0 /\ UNCHANGED <<base, reserved, committed, file, mapped, front, demand>>
    BY <1>12 DEF Pop, os, Usable, Live
  <2>2. pos' \in 0..pos
    <3>1. blocks[Len(blocks)] \in Block /\ EndOf(blocks[Len(blocks)]) <= pos
      BY <1>12, ElementOfSeq, EmptySeq, LenProperties
      DEF Pop, BlockInv, BlocksDisjoint
    <3>2. pos \in Nat
      BY DEF SpaceInv, Bounded
    <3> QED BY <1>12, <3>1, <3>2 DEF Pop, Newest, Block, EndOf
  <2> QED BY <1>11, <1>12, <2>1, <2>2, BlockPop
<1>13. CASE Save
  BY <1>11, <1>13, BlockSave DEF Save, os, Usable, Live, SpaceInv, Bounded
<1>14. CASE Restore
  <2>1. base # 0 /\ UNCHANGED <<base, reserved, committed, file, mapped, front, demand>>
    BY <1>14 DEF Restore, os, Usable, Live
  <2>2. pos' \in 0..pos
    <3>1. saves[Len(saves)] \in SavePoint /\ pos \in Nat
      BY <1>14, ElementOfSeq, EmptySeq DEF Restore, BlockInv, SpaceInv, Bounded
    <3> QED BY <1>14, <3>1 DEF Restore, Newest, SavePoint
  <2> QED BY <1>11, <1>14, <2>1, <2>2, BlockRestore
<1>15. CASE Clear
  BY <1>11, <1>15, BlockClear DEF Clear, os, Usable, Live, SpaceInv, Bounded
<1>16. CASE UNCHANGED vars
  BY <1>2, <1>16 DEF vars, os, arenaVars
<1> QED BY <1>1, <1>3, <1>4, <1>5, <1>6, <1>7, <1>8, <1>9, <1>10, <1>12, <1>13, <1>14,
           <1>15, <1>16 DEF Next

\* The position stays within what is committed, that within the reservation, and the
\* pages given to the process within both.
THEOREM ArenaTyped == Spec => []TypeOK
<1>1. ArenaInv => TypeOK
  <2> SUFFICES ASSUME FileInv, SpaceInv PROVE TypeOK
    BY DEF ArenaInv
  <2>1. FileTypeOK /\ file \in BOOLEAN /\ readOnly \in BOOLEAN
    <3>1. /\ windows \in BOOLEAN /\ handle \in BOOLEAN /\ file \in BOOLEAN
          /\ readOnly \in BOOLEAN /\ dir \in Files /\ call \in Calls
      BY DEF FileInv, FileShape
    <3>2. open \subseteq {"file", "section", "view"}
      BY <3>1 DEF FileInv, Holding, Calls
    <3>3. /\ dir.size \in Nat \cup {-1} /\ dir.temp \in BOOLEAN /\ dir.stuck \in BOOLEAN
      BY <3>1 DEF Files
    <3>4. /\ call.mode \in {"existing", "keep", "temp"} /\ call.size \in Nat
          /\ call.at \in {"idle", "open", "unlink", "size", "section", "view", "mapped",
                          "remove", "dead"}
      BY <3>1 DEF Calls
    <3> QED BY <3>1, <3>2, <3>3, <3>4 DEF FileTypeOK
  <2>2. ~file => committed % PageSize = 0
    <3>1. 0 % PageSize = 0
      BY RemainderBounds
    <3> QED BY <3>1 DEF SpaceInv, Bounded, Inert, Paged
  <2> QED BY <2>1, <2>2 DEF TypeOK, SpaceInv, Bounded, Backed
<1> QED BY <1>1, ArenaInitial, ArenaNext, PTL DEF Spec

\* Whatever is allocated, popped, restored, cleared and shrunk, in whatever sizes and
\* alignments, the blocks the client holds do not overlap and are where it asked.
THEOREM BlocksStayDisjoint == Spec => []BlocksDisjoint
<1>1. ArenaInv => BlocksDisjoint
  BY DEF ArenaInv, BlockInv
<1> QED BY <1>1, ArenaInitial, ArenaNext, PTL DEF Spec

\* Every byte of them that the client may still read is on a committed page.
THEOREM BlocksStayReadable == Spec => []BlocksReadable
<1>1. ArenaInv => BlocksReadable
  <2> SUFFICES ASSUME SpaceInv, BlockInv, NEW i \in DOMAIN blocks,
                      NEW u \in blocks[i].off..(EndOf(blocks[i]) - 1), u >= front
               PROVE  u - (u % PageSize) \in mapped
    BY DEF ArenaInv, BlocksReadable
  <2>1. blocks[i] \in Block /\ EndOf(blocks[i]) <= pos
    BY ElementOfSeq, LenProperties DEF BlockInv, BlocksDisjoint
  <2>2. u \in Nat /\ u < committed /\ committed \in Nat /\ front \in Nat
    BY <2>1 DEF Block, EndOf, SpaceInv, Bounded
  <2> DEFINE p == u - (u % PageSize)
  <2>3. p \in 0..u /\ p % PageSize = 0 /\ u < p + PageSize
    BY <2>2, RoundDown
  <2> HIDE DEF p
  <2>4. p \in Pages(committed) /\ p + PageSize > front
    BY <2>2, <2>3 DEF Pages
  <2>5. p \in mapped
    BY <2>4 DEF SpaceInv, Backed
  <2> QED BY <2>5 DEF p
<1> QED BY <1>1, ArenaInitial, ArenaNext, PTL DEF Spec

\* Growth by doubling wastes less than one step.
THEOREM WasteStaysBounded == Spec => []WasteBounded
<1>1. ArenaInv => WasteBounded
  BY DEF ArenaInv, SpaceInv
<1> QED BY <1>1, ArenaInitial, ArenaNext, PTL DEF Spec
==============================================================================
