----------------------------- MODULE HostProofs -----------------------------
(***************************************************************************)
(* What the simulator keeps about a run is right, for instances of any     *)
(* size: a dump restores what it was taken of, whatever was killed on the  *)
(* way; the perf map names all live code; and the instruction count, the  *)
(* guest's clock and the SimPoints log are right however the instructions  *)
(* are divided between the engines.                                        *)
(***************************************************************************)
EXTENDS Checkpoint, PerfMap, Counting, FiniteSetTheorems, WellFoundedInduction, TLAPS

-----------------------------------------------------------------------------
(***************************************************************************)
(* Dumps: proved from an invariant on the file and on what dumpState has   *)
(* still to write.                                                         *)
(***************************************************************************)
Header == [pc: Pc, reg: Value, icnt: 0 .. MaxIcnt, nPages: Nat]

Pages == UNION {[S -> [Word -> Value]] : S \in SUBSET Page}

Machine == [s: State, el: BOOLEAN]

CheckpointType ==
  /\ phase \in {"off", "restored", "up", "dumping"}
  /\ s \in State
  /\ el \in BOOLEAN
  /\ blob \in [head: Header \cup {None}, pages: Pages]
  /\ left \in SUBSET Page
  /\ was \in Machine

(* The pages in the file are pages of the machine, and the header counts   *)
(* them all, written or not.                                               *)
BlobOfWas ==
  /\ DOMAIN blob.pages \subseteq NonZero(was.s.mem)
  /\ \A p \in DOMAIN blob.pages : blob.pages[p] = was.s.mem[p]
  /\ blob.head # None =>
       /\ blob.head.reg = was.s.reg
       /\ blob.head.nPages = Cardinality(NonZero(was.s.mem))

(* While a dump is written the machine stands still.                       *)
Dumping ==
  phase = "dumping" =>
    /\ s = was.s
    /\ left \subseteq NonZero(s.mem)
    /\ blob.head = None => left = NonZero(s.mem)

CheckpointInv == CheckpointType /\ BlobOfWas /\ Dumping /\ RestoredAsSaved

-----------------------------------------------------------------------------
(* Finitely many pages are not zero.                                       *)
LEMMA NonZeroFinite ==
  ASSUME NEW mem
  PROVE  /\ IsFiniteSet(NonZero(mem))
         /\ Cardinality(NonZero(mem)) \in Nat
         /\ NonZero(mem) \subseteq Page
<1>1. NonZero(mem) \subseteq Page
  BY DEF NonZero
<1>2. IsFiniteSet(NonZero(mem))
  BY <1>1, FS_Subset, CheckpointAssumption
<1> QED BY <1>1, <1>2, FS_CardinalityType

(* Writing the monitor vectors keeps a memory a memory, and every other    *)
(* word of it.                                                             *)
LEMMA VectorsOK ==
  ASSUME NEW mem \in Memory, NEW e \in BOOLEAN
  PROVE  /\ mkMonitorVectors(mem, e) \in Memory
         /\ \A p \in Page, w \in Word :
              <<p, w>> \notin Vectors => mkMonitorVectors(mem, e)[p][w] = mem[p][w]
<1>1. Vector(e) \in Value
  <2>1. CASE e = TRUE
    BY <2>1, CheckpointAssumption
  <2>2. CASE e = FALSE
    BY <2>2, CheckpointAssumption
  <2> QED BY <2>1, <2>2
<1> QED BY <1>1 DEF mkMonitorVectors, Memory

(* A page that is zero reads as zero.                                      *)
LEMMA ZeroElsewhere ==
  ASSUME NEW mem \in Memory, NEW p \in Page, p \notin NonZero(mem), NEW w \in Word
  PROVE  mem[p][w] = ZeroPage[w]
BY DEF NonZero, ZeroPage, Memory

(* The machine that is booted first, with or without text, is a machine.   *)
LEMMA InitStateOK == InitState \in State
BY CheckpointAssumption DEF InitState, State, ZeroMemory, ZeroPage, Memory

(* An empty file holds no page.                                            *)
LEMMA NoBlobOK ==
  /\ NoBlob \in [head: Header \cup {None}, pages: Pages]
  /\ NoBlob.head = None
  /\ DOMAIN NoBlob.pages = {}
<1>1. [p \in {} |-> ZeroPage] \in [{} -> [Word -> Value]]
  OBVIOUS
<1>2. [{} -> [Word -> Value]] \in {[S -> [Word -> Value]] : S \in SUBSET Page}
  OBVIOUS
<1>3. [p \in {} |-> ZeroPage] \in Pages
  BY <1>1, <1>2 DEF Pages
<1> QED BY <1>3 DEF NoBlob

LEMMA CheckpointInitOK == CheckpointInit => CheckpointInv
<1> SUFFICES ASSUME CheckpointInit PROVE CheckpointInv
  OBVIOUS
<1>1. CheckpointType
  BY InitStateOK, NoBlobOK DEF CheckpointInit, CheckpointType, Machine
<1>2. BlobOfWas
  BY NoBlobOK DEF CheckpointInit, BlobOfWas
<1>3. Dumping /\ RestoredAsSaved
  BY DEF CheckpointInit, Dumping, RestoredAsSaved
<1> QED BY <1>1, <1>2, <1>3 DEF CheckpointInv

-----------------------------------------------------------------------------
(* A file that is complete gives back the memory it was written from: the  *)
(* pages it holds are all the nonzero ones, as there are as many.          *)
LEMMA CompleteRestores ==
  ASSUME CheckpointType, BlobOfWas, Complete(blob)
  PROVE  /\ loadState(blob) \in State
         /\ loadState(blob).reg = was.s.reg
         /\ loadState(blob).mem = was.s.mem
<1> DEFINE mem0 == was.s.mem
<1>1. mem0 \in Memory
  BY DEF CheckpointType, Machine, State
<1>2. DOMAIN blob.pages = NonZero(mem0)
  BY NonZeroFinite, FS_Subset DEF BlobOfWas, Complete
<1>3. [p \in Page |-> IF p \in DOMAIN blob.pages THEN blob.pages[p] ELSE ZeroPage]
        = mem0
  <2>1. ASSUME NEW p \in Page
        PROVE  (IF p \in DOMAIN blob.pages THEN blob.pages[p] ELSE ZeroPage) = mem0[p]
    <3>1. CASE p \in DOMAIN blob.pages
      BY <3>1 DEF BlobOfWas
    <3>2. CASE p \notin DOMAIN blob.pages
      <4>1. p \notin NonZero(mem0)
        BY <3>2, <1>2
      <4>2. mem0[p] = ZeroPage
        BY <1>1, <4>1, ZeroElsewhere DEF Memory, ZeroPage
      <4> QED BY <3>2, <4>2
    <3> QED BY <3>1, <3>2
  <2> QED BY <1>1, <2>1 DEF Memory
<1>4. blob.head \in Header
  BY DEF CheckpointType, Complete
<1>5. blob.head.reg = was.s.reg
  BY DEF BlobOfWas, Complete
<1> QED BY <1>1, <1>3, <1>4, <1>5 DEF loadState, State, Header

LEMMA BootOK == CheckpointInv /\ Boot => CheckpointInv'
<1> SUFFICES ASSUME CheckpointInv, Boot PROVE CheckpointInv'
  OBVIOUS
<1>1. PICK entry \in EntryPoint, p \in Page, text \in [Word -> Value] :
        s' = [InitState EXCEPT
                !.pc = entry,
                !.mem = mkMonitorVectors([@ EXCEPT ![p] = text], el')]
  BY DEF Boot
<1>2. [ZeroMemory EXCEPT ![p] = text] \in Memory
  BY CheckpointAssumption DEF ZeroMemory, ZeroPage, Memory
<1>3. mkMonitorVectors([ZeroMemory EXCEPT ![p] = text], el') \in Memory
  BY <1>2, VectorsOK DEF Boot
<1>4. s' \in State
  <2>1. s' = [pc |-> entry, reg |-> 0, icnt |-> 0,
              mem |-> mkMonitorVectors([ZeroMemory EXCEPT ![p] = text], el')]
    BY <1>1 DEF InitState
  <2>2. entry \in Pc /\ 0 \in Value /\ 0 \in 0 .. MaxIcnt
    BY CheckpointAssumption
  <2> QED BY <2>1, <2>2, <1>3 DEF State
<1>5. CheckpointType'
  BY <1>4 DEF CheckpointInv, CheckpointType, Boot
<1>6. BlobOfWas'
  BY DEF CheckpointInv, BlobOfWas, Boot, NonZero
<1> QED BY <1>5, <1>6 DEF CheckpointInv, Dumping, RestoredAsSaved, Boot

LEMMA ResumeOK == CheckpointInv /\ Resume => CheckpointInv'
<1> SUFFICES ASSUME CheckpointInv, Resume PROVE CheckpointInv'
  OBVIOUS
<1> DEFINE l == loadState(blob)
<1>1. l \in State /\ l.reg = was.s.reg /\ l.mem = was.s.mem
  BY CompleteRestores DEF CheckpointInv, Resume
<1>2. /\ mkMonitorVectors(l.mem, FALSE) \in Memory
      /\ \A p \in Page, w \in Word :
           <<p, w>> \notin Vectors =>
             mkMonitorVectors(l.mem, FALSE)[p][w] = l.mem[p][w]
  BY <1>1, VectorsOK DEF State
<1>3. s' = [pc |-> 0, reg |-> l.reg, icnt |-> 0, mem |-> mkMonitorVectors(l.mem, FALSE)]
  <2>1. s' = [l EXCEPT !.icnt = 0, !.pc = 0, !.mem = mkMonitorVectors(l.mem, FALSE)]
    BY DEF Resume
  <2> HIDE DEF l
  <2> QED BY <1>1, <2>1 DEF State
<1> HIDE DEF l
<1>4. CheckpointType'
  <2>1. 0 \in Pc /\ 0 \in 0 .. MaxIcnt /\ l.reg \in Value
    BY <1>1, CheckpointAssumption DEF State
  <2>2. s' \in State
    BY <1>2, <1>3, <2>1 DEF State
  <2> QED BY <2>2 DEF CheckpointInv, CheckpointType, Resume
<1>5. BlobOfWas'
  BY DEF CheckpointInv, BlobOfWas, Resume, NonZero
<1>6. RestoredAsSaved'
  <2>1. was' = was
    BY DEF Resume
  <2>2. s'.reg = was'.s.reg /\ s'.mem = mkMonitorVectors(was'.s.mem, FALSE)
    BY <1>1, <1>3, <2>1
  <2>3. \A p \in Page, w \in Word :
          <<p, w>> \notin Vectors => s'.mem[p][w] = was'.s.mem[p][w]
    BY <1>1, <1>2, <2>1, <2>2
  <2> QED BY <2>2, <2>3 DEF RestoredAsSaved
<1> QED BY <1>4, <1>5, <1>6 DEF CheckpointInv, Dumping, Resume

LEMMA GuestStepOK == CheckpointInv /\ GuestStep => CheckpointInv'
<1> SUFFICES ASSUME CheckpointInv, GuestStep PROVE CheckpointInv'
  OBVIOUS
<1>1. s \in State /\ s.icnt \in 0 .. MaxIcnt /\ s.icnt < MaxIcnt /\ MaxIcnt \in Nat
  BY CheckpointAssumption DEF GuestStep, CheckpointInv, CheckpointType, State
<1>2. s.icnt + 1 \in 0 .. MaxIcnt
  BY <1>1
<1>3. s' \in State
  <2>1. PICK q \in Pc, v \in Value :
          \/ s' = [s EXCEPT !.pc = q, !.icnt = @ + 1, !.reg = v]
          \/ \E p \in Page, w \in Word :
               s' = [s EXCEPT !.pc = q, !.icnt = @ + 1, !.mem[p][w] = v]
    BY DEF GuestStep
  <2>2. CASE s' = [s EXCEPT !.pc = q, !.icnt = @ + 1, !.reg = v]
    BY <1>1, <1>2, <2>2 DEF State
  <2>3. CASE \E p \in Page, w \in Word :
               s' = [s EXCEPT !.pc = q, !.icnt = @ + 1, !.mem[p][w] = v]
    <3>1. PICK p \in Page, w \in Word :
            s' = [s EXCEPT !.pc = q, !.icnt = @ + 1, !.mem[p][w] = v]
      BY <2>3
    <3>2. [s.mem EXCEPT ![p][w] = v] \in Memory
      BY <1>1 DEF State, Memory
    <3>3. s' = [pc |-> q, reg |-> s.reg, icnt |-> s.icnt + 1,
                mem |-> [s.mem EXCEPT ![p][w] = v]]
      BY <1>1, <3>1 DEF State
    <3> QED BY <1>1, <1>2, <3>2, <3>3 DEF State
  <2> QED BY <2>1, <2>2, <2>3
<1>4. CheckpointType'
  BY <1>3 DEF CheckpointInv, CheckpointType, GuestStep
<1>5. BlobOfWas'
  BY DEF CheckpointInv, BlobOfWas, GuestStep, NonZero
<1> QED BY <1>4, <1>5 DEF CheckpointInv, Dumping, RestoredAsSaved, GuestStep

(* Beginning a dump of any machine.                                        *)
LEMMA BeginDumpOK ==
  ASSUME CheckpointInv, NEW m \in State, BeginDump(m)
  PROVE  CheckpointInv'
<1>1. NonZero(m.mem) \subseteq Page
  BY NonZeroFinite
<1>2. CheckpointType'
  BY <1>1, NoBlobOK DEF CheckpointInv, CheckpointType, BeginDump, Machine
<1>3. BlobOfWas'
  BY NoBlobOK DEF BlobOfWas, BeginDump
<1>4. Dumping'
  BY DEF Dumping, BeginDump, NonZero
<1> QED BY <1>2, <1>3, <1>4 DEF CheckpointInv, RestoredAsSaved, BeginDump

LEMMA SyscallOK == CheckpointInv /\ Syscall => CheckpointInv'
<1> SUFFICES ASSUME CheckpointInv, Syscall PROVE CheckpointInv'
  OBVIOUS
<1>1. PICK q \in Pc : BeginDump([s EXCEPT !.icnt = @ + 1, !.pc = q])
  BY DEF Syscall
<1>2. s.icnt + 1 \in 0 .. MaxIcnt
  <2>1. s.icnt \in 0 .. MaxIcnt /\ s.icnt < MaxIcnt /\ MaxIcnt \in Nat
    BY CheckpointAssumption DEF Syscall, CheckpointInv, CheckpointType, State
  <2> QED BY <2>1
<1>3. [s EXCEPT !.icnt = @ + 1, !.pc = q] \in State
  BY <1>2 DEF CheckpointInv, CheckpointType, State
<1> QED BY <1>1, <1>3, BeginDumpOK

LEMMA RegionDumpOK == CheckpointInv /\ RegionDump => CheckpointInv'
BY BeginDumpOK DEF RegionDump, CheckpointInv, CheckpointType

LEMMA WriteHeaderOK == CheckpointInv /\ WriteHeader => CheckpointInv'
<1> SUFFICES ASSUME CheckpointInv, WriteHeader PROVE CheckpointInv'
  OBVIOUS
<1> DEFINE h == [pc |-> s.pc, reg |-> s.reg, icnt |-> s.icnt,
                 nPages |-> Cardinality(left)]
<1>1. left = NonZero(was.s.mem) /\ s = was.s
  BY DEF CheckpointInv, Dumping, WriteHeader
<1>2. h \in Header
  BY <1>1, NonZeroFinite DEF CheckpointInv, CheckpointType, State, Header
<1>3. blob' = [head |-> h, pages |-> blob.pages]
  BY DEF WriteHeader, CheckpointInv, CheckpointType
<1>4. CheckpointType'
  BY <1>2, <1>3 DEF CheckpointInv, CheckpointType, WriteHeader
<1>5. BlobOfWas'
  <2>1. was' = was /\ blob'.head = h /\ blob'.pages = blob.pages
    BY <1>3 DEF WriteHeader
  <2>2. h.reg = was.s.reg /\ h.nPages = Cardinality(NonZero(was.s.mem))
    BY <1>1
  <2> HIDE DEF h
  <2> QED BY <2>1, <2>2 DEF CheckpointInv, BlobOfWas, NonZero
<1>6. Dumping'
  BY <1>1 DEF CheckpointInv, Dumping, WriteHeader, NonZero
<1> QED BY <1>4, <1>5, <1>6 DEF CheckpointInv, RestoredAsSaved, WriteHeader

LEMMA WritePageOK == CheckpointInv /\ WritePage => CheckpointInv'
<1> SUFFICES ASSUME CheckpointInv, WritePage PROVE CheckpointInv'
  OBVIOUS
<1>1. PICK p \in left :
        /\ blob' = [blob EXCEPT !.pages =
                      [q \in DOMAIN @ \cup {p} |-> IF q = p THEN s.mem[p] ELSE @[q]]]
        /\ left' = left \ {p}
  BY DEF WritePage
<1> DEFINE D == DOMAIN blob.pages \cup {p}
           pp == [q \in D |-> IF q = p THEN s.mem[p] ELSE blob.pages[q]]
<1>2. blob' = [head |-> blob.head, pages |-> pp]
  BY <1>1 DEF CheckpointInv, CheckpointType
<1>3. /\ s = was.s /\ p \in NonZero(was.s.mem) /\ left \subseteq NonZero(s.mem)
      /\ p \in Page
  BY <1>1 DEF CheckpointInv, Dumping, WritePage, CheckpointType
<1>4. pp \in Pages
  <2>1. blob.pages \in Pages
    BY DEF CheckpointInv, CheckpointType
  <2>2. D \in SUBSET Page /\ blob.pages \in [DOMAIN blob.pages -> [Word -> Value]]
    BY <2>1, <1>3 DEF Pages
  <2>3. s.mem[p] \in [Word -> Value]
    BY <1>3 DEF CheckpointInv, CheckpointType, State, Memory
  <2>4. pp \in [D -> [Word -> Value]]
    BY <2>2, <2>3
  <2> QED BY <2>2, <2>4 DEF Pages
<1>5. CheckpointType'
  BY <1>1, <1>2, <1>4 DEF CheckpointInv, CheckpointType, WritePage
<1>6. BlobOfWas'
  BY <1>2, <1>3 DEF CheckpointInv, BlobOfWas, WritePage, NonZero
<1>7. Dumping'
  BY <1>1, <1>2, <1>3 DEF CheckpointInv, Dumping, WritePage, NonZero
<1> QED BY <1>5, <1>6, <1>7 DEF CheckpointInv, RestoredAsSaved, WritePage

LEMMA CheckpointStopOK == CheckpointInv /\ Stop => CheckpointInv'
BY DEF CheckpointInv, CheckpointType, BlobOfWas, Dumping, RestoredAsSaved, Stop, NonZero

LEMMA CheckpointStepOK == CheckpointInv /\ [CheckpointNext]_checkpointVars => CheckpointInv'
<1> SUFFICES ASSUME CheckpointInv, [CheckpointNext]_checkpointVars PROVE CheckpointInv'
  OBVIOUS
<1>1. CASE UNCHANGED checkpointVars
  BY <1>1 DEF checkpointVars, CheckpointInv, CheckpointType, BlobOfWas, Dumping,
              RestoredAsSaved, NonZero
<1> QED BY <1>1, BootOK, ResumeOK, GuestStepOK, SyscallOK, RegionDumpOK,
           WriteHeaderOK, WritePageOK, CheckpointStopOK DEF CheckpointNext

(* What loadState brings back is what dumpState was called on, for any     *)
(* number of pages, words and values, and any history of dumps and kills.  *)
THEOREM DumpsRestore == CheckpointSpec => []RestoredAsSaved
<1>1. CheckpointInv => RestoredAsSaved
  BY DEF CheckpointInv
<1> QED BY CheckpointInitOK, CheckpointStepOK, <1>1, PTL DEF CheckpointSpec

-----------------------------------------------------------------------------
(***************************************************************************)
(* The perf map: the references are as many as the regions, so the log     *)
(* goes with the last.                                                     *)
(***************************************************************************)
Log == Seq([addr: CodeAddr, name: Heads])

PerfInv ==
  /\ theInstance \in [refs: Nat, perfLog: Log]
  /\ IsFiniteSet(DOMAIN cfgs)
  /\ theInstance.refs = Cardinality(DOMAIN cfgs)
  /\ LogNamesCode

(* A new entry names its code ...                                          *)
LEMMA NewEntry ==
  ASSUME NEW log \in Log, NEW a \in CodeAddr, NEW h \in Heads
  PROVE  Names(Append(log, Entry(a, h)), a, h)
<1> DEFINE e == Entry(a, h)
<1>1. e \in [addr: CodeAddr, name: Heads]
  BY DEF Entry
<1> HIDE DEF e
<1>2. /\ Len(Append(log, e)) = Len(log) + 1
      /\ Append(log, e)[Len(log) + 1] = e
      /\ Len(log) \in Nat
  BY <1>1 DEF Log
<1>3. \A j \in Len(log) + 1 + 1 .. Len(log) + 1 : FALSE
  BY <1>2
<1> QED BY <1>2, <1>3 DEF Names, e

(* ... and leaves the names of other code alone.                           *)
LEMMA OtherEntries ==
  ASSUME NEW log \in Log, NEW a \in CodeAddr, NEW h \in Heads,
         NEW b, NEW x, Names(log, b, x), a # b
  PROVE  Names(Append(log, Entry(a, h)), b, x)
<1> DEFINE e == Entry(a, h)
           app == Append(log, e)
<1>1. e \in [addr: CodeAddr, name: Heads] /\ e.addr = a
  BY DEF Entry
<1> HIDE DEF e
<1>2. /\ Len(app) = Len(log) + 1 /\ Len(log) \in Nat
      /\ app[Len(log) + 1] = e
      /\ \A i \in 1 .. Len(log) : app[i] = log[i]
  BY <1>1 DEF Log
<1> HIDE DEF app
<1>3. PICK i \in 1 .. Len(log) :
        log[i] = Entry(b, x) /\ \A j \in i + 1 .. Len(log) : log[j].addr # b
  BY DEF Names
<1>4. i \in 1 .. Len(app) /\ app[i] = Entry(b, x)
  BY <1>2, <1>3
<1>5. ASSUME NEW j \in i + 1 .. Len(app) PROVE app[j].addr # b
  <2>1. CASE j = Len(log) + 1
    BY <2>1, <1>1, <1>2
  <2>2. CASE j # Len(log) + 1
    <3>1. j \in i + 1 .. Len(log) /\ j \in 1 .. Len(log)
      BY <2>2, <1>2, <1>3
    <3> QED BY <3>1, <1>2, <1>3
  <2> QED BY <2>1, <2>2
<1> QED BY <1>4, <1>5 DEF Names, app, e

LEMMA PerfInitOK == PerfInit => PerfInv
<1> SUFFICES ASSUME PerfInit PROVE PerfInv
  OBVIOUS
<1>1. DOMAIN cfgs = {} /\ theInstance = [refs |-> 0, perfLog |-> <<>>]
  BY DEF PerfInit, NoInstance
<1>2. IsFiniteSet({}) /\ Cardinality({}) = 0
  BY FS_EmptySet
<1> QED BY <1>1, <1>2 DEF PerfInv, LogNamesCode, Log

(* Where the last reference goes there is no code left to name.            *)
LEMMA RelReferenceOK ==
  ASSUME NEW i \in [refs: Nat \ {0}, perfLog: Log], relReference(i),
         IsFiniteSet(DOMAIN cfgs'), i.refs = Cardinality(DOMAIN cfgs') + 1,
         \A h \in DOMAIN cfgs' : Names(i.perfLog, cfgs'[h], h)
  PROVE  PerfInv'
<1>1. CASE IsLast(i)
  <2>1. theInstance' = [refs |-> 0, perfLog |-> <<>>]
    BY <1>1 DEF relReference, NoInstance
  <2>2. Cardinality(DOMAIN cfgs') \in Nat
    BY FS_CardinalityType
  <2>3. Cardinality(DOMAIN cfgs') = 0
    BY <1>1, <2>2 DEF IsLast
  <2>4. DOMAIN cfgs' = {}
    BY <2>3, FS_EmptySet
  <2> QED BY <2>1, <2>3, <2>4 DEF PerfInv, LogNamesCode, Log
<1>2. CASE ~IsLast(i)
  <2>1. theInstance' = [refs |-> i.refs - 1, perfLog |-> i.perfLog]
    BY <1>2 DEF relReference
  <2>2. i.refs - 1 = Cardinality(DOMAIN cfgs') /\ i.refs - 1 \in Nat
    BY FS_CardinalityType
  <2> QED BY <2>1, <2>2 DEF PerfInv, LogNamesCode
<1> QED BY <1>1, <1>2

LEMMA CompileOK ==
  ASSUME PerfInv, NEW h \in Heads, NEW a \in CodeAddr, Compile(h, a)
  PROVE  PerfInv'
<1> DEFINE log == theInstance.perfLog
           e == Entry(a, h)
<1>1. log \in Log /\ theInstance.refs \in Nat
  BY DEF PerfInv
<1>2. theInstance' = [refs |-> theInstance.refs + 1, perfLog |-> Append(log, e)]
  BY DEF Compile, addEntry, getReference, PerfInv
<1>3. DOMAIN cfgs' = DOMAIN cfgs \cup {h} /\ h \notin DOMAIN cfgs
  BY DEF Compile
<1>4. /\ IsFiniteSet(DOMAIN cfgs')
      /\ Cardinality(DOMAIN cfgs') = theInstance.refs + 1
  BY <1>3, FS_AddElement DEF PerfInv
<1>5. theInstance' \in [refs: Nat, perfLog: Log]
  BY <1>1, <1>2 DEF Log, Entry
<1>6. ASSUME NEW x \in DOMAIN cfgs' PROVE Names(Append(log, e), cfgs'[x], x)
  <2>1. CASE x = h
    BY <2>1, <1>1, NewEntry DEF Compile
  <2>2. CASE x # h
    <3>1. x \in DOMAIN cfgs /\ cfgs'[x] = cfgs[x] /\ cfgs[x] # a
      BY <2>2, <1>3 DEF Compile, Free
    <3>2. Names(log, cfgs[x], x)
      BY <3>1 DEF PerfInv, LogNamesCode
    <3> QED BY <1>1, <3>1, <3>2, OtherEntries
  <2> QED BY <2>1, <2>2
<1>7. LogNamesCode'
  BY <1>2, <1>6 DEF LogNamesCode
<1> QED BY <1>2, <1>4, <1>5, <1>7 DEF PerfInv

LEMMA CompileFailsOK == PerfInv /\ CompileFails => PerfInv'
<1> SUFFICES ASSUME PerfInv, CompileFails PROVE PerfInv'
  OBVIOUS
<1> DEFINE i == getReference(theInstance)
<1>1. /\ i \in [refs: Nat \ {0}, perfLog: Log]
      /\ i.refs = theInstance.refs + 1 /\ i.perfLog = theInstance.perfLog
  BY DEF getReference, PerfInv
<1>2. relReference(i) /\ cfgs' = cfgs
  BY DEF CompileFails
<1> HIDE DEF i
<1> QED BY <1>1, <1>2, RelReferenceOK DEF PerfInv, LogNamesCode

LEMMA DropOK ==
  ASSUME PerfInv, NEW h \in DOMAIN cfgs, Drop(h)
  PROVE  PerfInv'
<1>1. DOMAIN cfgs' = DOMAIN cfgs \ {h} /\ relReference(theInstance)
  BY DEF Drop
<1>2. /\ IsFiniteSet(DOMAIN cfgs')
      /\ Cardinality(DOMAIN cfgs') = theInstance.refs - 1
      /\ Cardinality(DOMAIN cfgs') \in Nat
  BY <1>1, FS_RemoveElement, FS_CardinalityType DEF PerfInv
<1>3. theInstance \in [refs: Nat \ {0}, perfLog: Log]
  BY <1>2 DEF PerfInv
<1>4. \A x \in DOMAIN cfgs' : Names(theInstance.perfLog, cfgs'[x], x)
  BY DEF Drop, PerfInv, LogNamesCode
<1> QED BY <1>1, <1>2, <1>3, <1>4, RelReferenceOK

(* Every region whose code can run is named by the log perf will get, for  *)
(* all heads and addresses, addresses that are used again included.        *)
THEOREM MapNamesCode == PerfSpec => []LogNamesCode
<1>1. PerfInv /\ [PerfNext]_perfVars => PerfInv'
  <2> SUFFICES ASSUME PerfInv, [PerfNext]_perfVars PROVE PerfInv'
    OBVIOUS
  <2>1. CASE UNCHANGED perfVars
    BY <2>1 DEF perfVars, PerfInv, LogNamesCode
  <2> QED BY <2>1, CompileOK, CompileFailsOK, DropOK DEF PerfNext
<1>2. PerfInv => LogNamesCode
  BY DEF PerfInv
<1> QED BY PerfInitOK, <1>1, <1>2, PTL DEF PerfSpec

-----------------------------------------------------------------------------
(***************************************************************************)
(* The count: proved from what each engine's count is when it hands over   *)
(* to another.                                                             *)
(***************************************************************************)
(* The time the guest read last is that of an earlier count.               *)
ClockWas == \E k \in 0 .. icnt : clock = gettimeofday(k)

CountingInv ==
  /\ options.countInsns \in BOOLEAN
  /\ icnt \in Nat /\ iCnt \in Nat /\ retired \in Nat
  /\ CountsRetired
  /\ where = "region" /\ options.countInsns => icnt <= iCnt
  /\ ClockWas

-----------------------------------------------------------------------------
(* Division by mips is monotone, and carries whole seconds out.            *)
LEMMA DivMonotone ==
  ASSUME NEW m \in Nat \ {0}, NEW a \in Nat, NEW b \in Nat, a <= b
  PROVE  a \div m <= b \div m /\ a \div m \in Nat
<1> DEFINE p == a \div m
           q == b \div m
<1>1. p \in Nat /\ q \in Nat /\ a = (m * p) + (a % m) /\ b = (m * q) + (b % m)
      /\ a % m \in 0 .. m - 1 /\ b % m \in 0 .. m - 1
  BY Z3
<1> HIDE DEF p, q
<1>2. CASE p > q
  <2>1. p >= q + 1
    BY <1>1, <1>2
  <2>2. m * p >= m * (q + 1)
    BY <2>1, <1>1, Z3
  <2> QED BY <2>2, <1>1, Z3
<1> QED BY <1>1, <1>2 DEF p, q

LEMMA DivCarries ==
  ASSUME NEW m \in Nat \ {0}, NEW a \in Nat, NEW b \in Nat
  PROVE  (m * a + b) \div m = a + b \div m
  BY Z3

(* Seconds and microseconds are the count's time, rounded down once.       *)
LEMMA ClockExact ==
  ASSUME NEW n \in Nat
  PROVE  /\ Micros(gettimeofday(n)) = (n * Micro) \div mips
         /\ gettimeofday(n).tv_usec < Micro
<1> DEFINE q == n \div mips
           r == n % mips
           t == gettimeofday(n)
<1>1. mips \in Nat \ {0} /\ Micro \in Nat \ {0}
  BY CountingAssumption
<1>2. q \in Nat /\ r \in 0 .. mips - 1 /\ n = (mips * q) + r
  BY <1>1, Z3
<1>3. t.tv_sec = q /\ t.tv_usec = (r * Micro) \div mips
  BY DEF gettimeofday
<1> HIDE DEF q, r, t
<1>4. n * Micro = (mips * (q * Micro)) + (r * Micro)
  BY <1>1, <1>2, Z3
<1>5. q * Micro \in Nat /\ r * Micro \in Nat
  BY <1>1, <1>2, Z3
<1>6. (n * Micro) \div mips = (q * Micro) + ((r * Micro) \div mips)
  <2> DEFINE a == q * Micro
             b == r * Micro
  <2>1. a \in Nat /\ b \in Nat /\ n * Micro = (mips * a) + b
    BY <1>4, <1>5
  <2> HIDE DEF a, b
  <2>2. ((mips * a) + b) \div mips = a + (b \div mips)
    BY <1>1, <2>1, DivCarries
  <2>3. (n * Micro) \div mips = a + (b \div mips)
    BY <2>1, <2>2
  <2> QED BY <2>3 DEF a, b
<1>7. (r * Micro) \div mips < Micro
  <2>1. r * Micro < mips * Micro
    BY <1>1, <1>2, Z3
  <2> QED BY <2>1, <1>1, <1>5, Z3
<1> QED BY <1>3, <1>6, <1>7 DEF Micros, t

(* A later count is a later time.                                          *)
LEMMA ClockMonotone ==
  ASSUME NEW k \in Nat, NEW n \in Nat, k <= n
  PROVE  Micros(gettimeofday(k)) <= Micros(gettimeofday(n))
<1>1. mips \in Nat \ {0} /\ Micro \in Nat \ {0}
  BY CountingAssumption
<1>2. k * Micro \in Nat /\ n * Micro \in Nat /\ k * Micro <= n * Micro
  BY <1>1, Z3
<1> QED BY <1>1, <1>2, ClockExact, DivMonotone

-----------------------------------------------------------------------------
LEMMA CountingInitOK ==
  ASSUME CountingInit
  PROVE  CountingInv
<1>1. options.countInsns \in BOOLEAN
  BY DEF CountingInit
<1>2. CountsRetired
  BY DEF CountingInit, CountsRetired, Count
<1>3. clock = gettimeofday(0)
  <2>1. mips \in Nat \ {0} /\ Micro \in Nat \ {0}
    BY CountingAssumption
  <2>2. 0 \div mips = 0 /\ ((0 % mips) * Micro) \div mips = 0
    BY <2>1, Z3
  <2> QED BY <2>2 DEF CountingInit, gettimeofday
<1> QED BY <1>1, <1>2, <1>3 DEF CountingInit, CountingInv, ClockWas

(* The interpreter counts what it executes, and shows the count to a       *)
(* monitor call.                                                           *)
LEMMA InterpreterCounts ==
  ASSUME CountingInv, NEW end, execMips(end), where # "region", where # "stopped",
         where' # "region", where' # "stopped", UNCHANGED <<options, iCnt>>
  PROVE  CountingInv'
<1>1. PICK n \in {1, 2} : icnt' = icnt + n /\ retired' = retired + n
  BY DEF execMips, Executes
<1>2. icnt' \in Nat /\ retired' \in Nat /\ iCnt' \in Nat /\ icnt <= icnt'
  BY <1>1 DEF CountingInv
<1>3. CountsRetired'
  BY <1>1, <1>2 DEF CountingInv, CountsRetired, Count
<1>4. ClockWas'
  <2>1. CASE end = "monitor"
    <3>1. clock' = gettimeofday(icnt') /\ icnt' \in 0 .. icnt'
      BY <2>1, <1>2 DEF execMips
    <3> QED BY <3>1 DEF ClockWas, gettimeofday
  <2>2. CASE end # "monitor"
    <3>1. PICK k \in 0 .. icnt : clock = gettimeofday(k)
      BY DEF CountingInv, ClockWas
    <3>2. k \in 0 .. icnt' /\ clock' = gettimeofday(k)
      BY <2>2, <3>1, <1>2 DEF CountingInv, execMips
    <3> QED BY <3>2 DEF ClockWas, gettimeofday
  <2> QED BY <2>1, <2>2
<1> QED BY <1>2, <1>3, <1>4 DEF CountingInv

(* A block of compiled code counts what it executes in iCnt, which was the *)
(* count when the region was entered.                                      *)
LEMMA CodeCounts ==
  ASSUME CountingInv, NEW b, ExecutedBy(b) \in Nat, NEW n \in Nat, EnterBlock(b, n),
         where' = "region",
         options.countInsns => n = retired /\ icnt <= n
  PROVE  CountingInv'
<1>1. /\ iCnt' = IF options.countInsns THEN n + ExecutedBy(b) ELSE n
      /\ retired' = retired + ExecutedBy(b)
      /\ UNCHANGED <<options, icnt, clock>>
  BY DEF EnterBlock, incrIcnt, Insns, ExecutedBy
<1>2. iCnt' \in Nat /\ retired' \in Nat /\ icnt' \in Nat
  BY <1>1 DEF CountingInv
<1>3. options.countInsns => iCnt' = retired' /\ icnt' <= iCnt'
  BY <1>1 DEF CountingInv
<1>4. CountsRetired'
  BY <1>1, <1>3 DEF CountsRetired, Count
<1>5. ClockWas'
  BY <1>1 DEF CountingInv, ClockWas, gettimeofday
<1> QED BY <1>1, <1>2, <1>3, <1>4, <1>5 DEF CountingInv

LEMMA CountingNextOK ==
  ASSUME CountingInv, [CountingNext]_countingVars
  PROVE  CountingInv'
<1>1. ASSUME NEW b \in Blocks PROVE ExecutedBy(b) \in Nat
  BY <1>1, CountingAssumption DEF ExecutedBy
<1>2. CASE Build
  BY <1>2, InterpreterCounts DEF Build
<1>3. CASE RunBlock
  BY <1>3 DEF RunBlock, CountingInv, CountsRetired, Count, ClockWas, gettimeofday
<1>4. CASE Interpret
  <2> DEFINE end == IF todo = 1 THEN block.end ELSE "plain"
  <2>1. execMips(end) /\ where = "block" /\ where' \in {"loop", "block"}
        /\ UNCHANGED <<options, iCnt>>
    BY <1>4 DEF Interpret
  <2> HIDE DEF end
  <2> QED BY <2>1, InterpreterCounts
<1>5. CASE EnterRegion
  <2>1. PICK b \in Compilable : EnterBlock(b, icnt)
    BY <1>5 DEF EnterRegion
  <2>2. ExecutedBy(b) \in Nat /\ icnt \in Nat
    BY <1>1 DEF Compilable, CountingInv
  <2>3. where' = "region" /\ (options.countInsns => icnt = retired)
    BY <1>5 DEF EnterRegion, CountingInv, CountsRetired, Count
  <2> QED BY <2>1, <2>2, <2>3, CodeCounts DEF CountingInv
<1>6. ASSUME where = "region", where' = "region", NEW b, ExecutedBy(b) \in Nat,
             EnterBlock(b, iCnt)
      PROVE  CountingInv'
  <2>1. iCnt \in Nat /\ (options.countInsns => iCnt = retired /\ icnt <= iCnt)
    BY <1>6 DEF CountingInv, CountsRetired, Count
  <2> QED BY <1>6, <2>1, CodeCounts
<1>7. CASE NextBlock
  <2>1. PICK b \in Compilable : EnterBlock(b, iCnt)
    BY <1>7 DEF NextBlock
  <2>2. ExecutedBy(b) \in Nat
    BY <1>1 DEF Compilable
  <2> QED BY <1>6, <1>7, <2>1, <2>2 DEF NextBlock
<1>8. CASE LikelyIsTaken
  <2>1. ExecutedBy(PatchOf(block)) \in Nat
    BY DEF ExecutedBy, PatchOf
  <2> QED BY <1>6, <1>8, <2>1 DEF LikelyIsTaken
<1>9. CASE Abort
  <2>1. icnt' \in Nat /\ icnt <= icnt' /\ UNCHANGED <<options, iCnt, retired, clock>>
    BY <1>9 DEF Abort, CountingInv
  <2>2. CountsRetired'
    BY <1>9 DEF Abort, CountingInv, CountsRetired, Count
  <2>3. ClockWas'
    <3>1. PICK k \in 0 .. icnt : clock = gettimeofday(k)
      BY DEF CountingInv, ClockWas
    <3>2. k \in 0 .. icnt' /\ clock' = gettimeofday(k)
      BY <2>1, <3>1 DEF CountingInv
    <3> QED BY <3>2 DEF ClockWas, gettimeofday
  <2> QED BY <1>9, <2>1, <2>2, <2>3 DEF Abort, CountingInv
<1>10. CASE Quit
  <2>1. CountsRetired'
    BY <1>10 DEF Quit, CountingInv, CountsRetired, Count
  <2> QED BY <1>10, <2>1 DEF Quit, CountingInv, ClockWas, gettimeofday
<1>11. CASE UNCHANGED countingVars
  BY <1>11 DEF countingVars, CountingInv, CountsRetired, Count, ClockWas, gettimeofday
<1> QED BY <1>2, <1>3, <1>4, <1>5, <1>7, <1>8, <1>9, <1>10, <1>11 DEF CountingNext

(* Only a monitor call reads the clock, and it reads the count.            *)
LEMMA ClockOK ==
  ASSUME CountingInv, CountingInv', [CountingNext]_countingVars
  PROVE  ClockTells
<1> SUFFICES ASSUME clock' # clock PROVE ClockTells
  BY DEF ClockTells
<1>1. \/ Build
      \/ Interpret
  BY DEF CountingNext, RunBlock, EnterRegion, NextBlock, LikelyIsTaken, Abort, Quit,
         EnterBlock, countingVars
<1>2. PICK end : execMips(end)
  BY <1>1 DEF Build, Interpret
<1>3. clock' = gettimeofday(icnt')
  BY <1>2 DEF execMips
<1>4. PICK k \in 0 .. icnt : clock = gettimeofday(k)
  BY DEF CountingInv, ClockWas
<1>5. icnt' \in Nat /\ k \in Nat /\ k <= icnt'
  BY <1>2, <1>4 DEF execMips, Executes, CountingInv
<1>6. Micros(clock') >= Micros(clock)
  <2>1. Micros(gettimeofday(k)) <= Micros(gettimeofday(icnt'))
    BY <1>5, ClockMonotone
  <2> QED BY <1>3, <1>4, <2>1
<1>7. Micros(clock') = (icnt' * Micro) \div mips /\ clock'.tv_usec < Micro
  BY <1>3, <1>5, ClockExact
<1>8. options.countInsns => icnt' = retired'
  <2>1. where' \in {"loop", "block"} /\ UNCHANGED options
    BY <1>1 DEF Build, Interpret
  <2> QED BY <2>1 DEF CountingInv, CountsRetired, Count
<1> QED BY <1>6, <1>7, <1>8 DEF ClockTells

-----------------------------------------------------------------------------
LEMMA Counted == CountingSpec => []CountingInv
<1>1. CountingInit => CountingInv
  BY CountingInitOK
<1>2. CountingInv /\ [CountingNext]_countingVars => CountingInv'
  BY CountingNextOK
<1> QED BY <1>1, <1>2, PTL DEF CountingSpec

(* With countInsns the count is right whichever engine keeps it, for all   *)
(* blocks, slices and speeds.                                              *)
THEOREM CountIsRight == CountingSpec => []CountsRetired
<1>1. CountingInv => CountsRetired
  BY DEF CountingInv
<1> QED BY <1>1, Counted, PTL

(* The guest's clock shows the time of the instructions executed, rounded  *)
(* down to the microsecond, and never goes back.                           *)
THEOREM ClockIsRight == CountingSpec => GuestClock
<1>1. CountingInv /\ CountingInv' /\ [CountingNext]_countingVars => [ClockTells]_countingVars
  BY ClockOK
<1> QED BY <1>1, Counted, PTL DEF CountingSpec, GuestClock
-----------------------------------------------------------------------------
(***************************************************************************)
(* The SimPoints log: proved from its being the sum of the counts logged.  *)
(* The library says nothing of sums: the lemmas that follow are by the     *)
(* least number of elements there could be a counterexample with.          *)
(***************************************************************************)
(* Every set of numbers that has any has a least one.                     *)
LEMMA LeastNumber ==
  ASSUME NEW T \in SUBSET Nat, T # {}
  PROVE  \E n \in T : \A m \in T : n <= m
<1> DEFINE R == OpToRel(<, Nat)
<1>1. IsWellFoundedOn(R, Nat)
  BY NatLessThanWellFounded
<1>2. \A x, y \in Nat : <<x, y>> \in R <=> x < y
  BY DEF OpToRel
<1> HIDE DEF R
<1>3. PICK n \in T : \A m \in T : <<m, n>> \notin R
  BY <1>1, WFMin
<1>4. n \in Nat /\ \A m \in T : m \in Nat /\ ~(m < n)
  BY <1>2, <1>3
<1> QED BY <1>4

(* SumFunctionOnSet adds up what it takes out, one at a time.              *)
Some(K) == CHOOSE x \in K : TRUE

Sums(f, I, sum) ==
  sum = [K \in SUBSET I |-> IF K = {} THEN 0 ELSE f[Some(K)] + sum[K \ {Some(K)}]]

LEMMA SomeIn == ASSUME NEW K, K # {} PROVE Some(K) \in K
BY DEF Some

LEMMA SumsStep ==
  ASSUME NEW f, NEW I, NEW u, Sums(f, I, u), NEW K \in SUBSET I, K # {}
  PROVE  /\ Some(K) \in K /\ K \ {Some(K)} \in SUBSET I
         /\ u[K] = f[Some(K)] + u[K \ {Some(K)}]
BY SomeIn DEF Sums

(* Such sums agree where the functions do, whatever they are sums over ... *)
LEMMA SumsAgree ==
  ASSUME NEW f, NEW g, NEW I, NEW J, NEW u, NEW v, Sums(f, I, u), Sums(g, J, v),
         NEW K \in SUBSET (I \cap J), IsFiniteSet(K), \A k \in K : f[k] = g[k]
  PROVE  u[K] = v[K]
<1> DEFINE T == {n \in Nat : \E r \in SUBSET K : Cardinality(r) = n /\ u[r] # v[r]}
<1> SUFFICES ASSUME T # {} PROVE FALSE
  <2>1. Cardinality(K) \in Nat
    BY FS_CardinalityType
  <2> QED BY <2>1
<1>1. T \in SUBSET Nat
  OBVIOUS
<1>2. PICK n \in T : \A m \in T : n <= m
  BY <1>1, LeastNumber
<1>3. PICK r \in SUBSET K : n \in Nat /\ Cardinality(r) = n /\ u[r] # v[r]
  BY <1>2
<1>4. r # {}
  BY <1>3 DEF Sums
<1> PICK x : x = Some(r)
  OBVIOUS
<1>5. x \in r /\ u[r] = f[x] + u[r \ {x}] /\ v[r] = g[x] + v[r \ {x}]
  <2>1. r \in SUBSET I /\ r \in SUBSET J
    OBVIOUS
  <2> QED BY <1>4, <2>1, SumsStep
<1>6. IsFiniteSet(r) /\ Cardinality(r \ {x}) = n - 1 /\ n - 1 \in Nat
  <2>1. IsFiniteSet(r)
    BY FS_Subset
  <2>2. Cardinality(r \ {x}) = n - 1 /\ IsFiniteSet(r \ {x})
    BY <1>3, <1>5, <2>1, FS_RemoveElement
  <2> PICK c : c = Cardinality(r \ {x})
    OBVIOUS
  <2>3. c = n - 1 /\ c \in Nat
    BY <2>2, FS_CardinalityType
  <2>4. n - 1 \in Nat
    BY ONLY <2>3
  <2> QED BY ONLY <2>1, <2>2, <2>4
<1>7. u[r \ {x}] = v[r \ {x}]
  <2>1. n - 1 \notin T
    BY <1>2, <1>3, <1>6
  <2> QED BY <1>6, <2>1
<1> QED BY <1>3, <1>5, <1>7

(* ... and exist over a finite set.                                        *)
LEMMA SumsExist ==
  ASSUME NEW f, NEW I, IsFiniteSet(I)
  PROVE  \E u : Sums(f, I, u)
<1> DEFINE Step(u, K) == IF K = {} THEN 0 ELSE f[Some(K)] + u[K \ {Some(K)}]
           IsUpTo(u, n) == \A K \in SUBSET I : Cardinality(K) <= n => u[K] = Step(u, K)
           T == {n \in Nat : ~ \E u : IsUpTo(u, n)}
<1>1. \A K \in SUBSET I : IsFiniteSet(K) /\ Cardinality(K) \in Nat
                            /\ Cardinality(K) <= Cardinality(I)
  BY FS_Subset, FS_CardinalityType
<1>2. T = {}
  <2> SUFFICES ASSUME T # {} PROVE FALSE
    OBVIOUS
  <2>1. T \in SUBSET Nat
    OBVIOUS
  <2>2. PICK n \in T : \A m \in T : n <= m
    BY <2>1, LeastNumber
  <2>3. n \in Nat /\ ~ \E u : IsUpTo(u, n)
    BY <2>2
  <2>4. n # 0
    <3> DEFINE z == [K \in SUBSET I |-> 0]
    <3>1. \A K \in SUBSET I : Cardinality(K) <= 0 => K = {}
      BY <1>1, FS_EmptySet
    <3>2. IsUpTo(z, 0)
      BY <3>1
    <3> QED BY <2>3, <3>2
  <2>5. n - 1 \in Nat /\ n - 1 \notin T
    <3> HIDE DEF T
    <3>1. n - 1 \in Nat
      BY <2>3, <2>4
    <3>2. ~(n <= n - 1)
      BY <2>3
    <3> QED BY <2>2, <3>1, <3>2
  <2>6. PICK u : IsUpTo(u, n - 1)
    BY <2>5
  <2> DEFINE e == [K \in SUBSET I |-> IF Cardinality(K) = n THEN Step(u, K) ELSE u[K]]
  <2>7. ASSUME NEW K \in SUBSET I, Cardinality(K) <= n
        PROVE  e[K] = Step(e, K)
    <3>1. e[K] = Step(u, K)
      <4>1. CASE Cardinality(K) = n
        BY <4>1
      <4>2. CASE Cardinality(K) # n
        <5>1. Cardinality(K) <= n - 1
          BY <1>1, <2>3, <2>7, <4>2
        <5> QED BY <2>6, <4>2, <5>1
      <4> QED BY <4>1, <4>2
    <3>2. CASE K = {}
      BY <3>1, <3>2
    <3>3. CASE K # {}
      <4> PICK r : r = K \ {Some(K)}
        OBVIOUS
      <4>1. r \in SUBSET I /\ Cardinality(r) = Cardinality(K) - 1
        <5>1. Some(K) \in K
          BY <3>3, SomeIn
        <5> QED BY <1>1, <5>1, FS_RemoveElement
      <4>2. Cardinality(r) # n
        BY <1>1, <2>3, <2>7, <4>1
      <4>3. e[r] = u[r]
        BY <4>1, <4>2
      <4> QED BY <3>1, <3>3, <4>3
    <3> QED BY <3>2, <3>3
  <2> HIDE DEF e
  <2>8. IsUpTo(e, n)
    BY <2>7
  <2> QED BY <2>3, <2>8
<1>3. PICK u : IsUpTo(u, Cardinality(I))
  <2>1. Cardinality(I) \in Nat
    BY FS_CardinalityType
  <2> QED BY <1>2, <2>1
<1> DEFINE v == [K \in SUBSET I |-> u[K]]
<1>4. ASSUME NEW K \in SUBSET I
      PROVE  v[K] = Step(v, K)
  <2>1. v[K] = Step(u, K)
    BY <1>1, <1>3
  <2>2. K # {} => v[K \ {Some(K)}] = u[K \ {Some(K)}]
    OBVIOUS
  <2> QED BY <2>1, <2>2
<1>5. Sums(f, I, v)
  BY <1>4 DEF Sums
<1> QED BY <1>5

LEMMA SumIs ==
  ASSUME NEW f, NEW I, IsFiniteSet(I)
  PROVE  \E u : Sums(f, I, u) /\ SumFunctionOnSet(f, I) = u[I]
<1> DEFINE u == CHOOSE u : Sums(f, I, u)
<1>1. Sums(f, I, u)
  BY SumsExist
<1>2. SumFunctionOnSet(f, I) = u[I]
  BY DEF SumFunctionOnSet, FoldFunctionOnSet, MapThenFoldSet, Sums, Some
<1> QED BY <1>1, <1>2

(* What a sum depends on.                                                  *)
LEMMA SameSum ==
  ASSUME NEW f, NEW g, NEW I, IsFiniteSet(I), \A k \in I : f[k] = g[k]
  PROVE  SumFunctionOnSet(f, I) = SumFunctionOnSet(g, I)
<1>1. PICK u : Sums(f, I, u) /\ SumFunctionOnSet(f, I) = u[I]
  BY SumIs
<1>2. PICK v : Sums(g, I, v) /\ SumFunctionOnSet(g, I) = v[I]
  BY SumIs
<1>3. I \in SUBSET (I \cap I)
  OBVIOUS
<1>4. u[I] = v[I]
  BY <1>1, <1>2, <1>3, SumsAgree
<1> QED BY <1>1, <1>2, <1>4

LEMMA SumUnfolds ==
  ASSUME NEW f, NEW I, IsFiniteSet(I), I # {}
  PROVE  /\ Some(I) \in I
         /\ SumFunctionOnSet(f, I) = f[Some(I)] + SumFunctionOnSet(f, I \ {Some(I)})
<1> PICK x : x = Some(I)
  OBVIOUS
<1> PICK J : J = I \ {x}
  OBVIOUS
<1>1. IsFiniteSet(J) /\ J \in SUBSET (I \cap J)
  BY FS_RemoveElement
<1>2. PICK u : Sums(f, I, u) /\ SumFunctionOnSet(f, I) = u[I]
  BY SumIs
<1>3. PICK v : Sums(f, J, v) /\ SumFunctionOnSet(f, J) = v[J]
  BY <1>1, SumIs
<1>4. I \in SUBSET I
  OBVIOUS
<1>5. x \in I /\ u[I] = f[x] + u[J]
  BY <1>2, <1>4, SumsStep
<1>6. u[J] = v[J]
  BY <1>1, <1>2, <1>3, SumsAgree
<1> QED BY <1>2, <1>3, <1>5, <1>6

LEMMA EmptySum ==
  ASSUME NEW f
  PROVE  SumFunctionOnSet(f, {}) = 0
<1>1. PICK u : Sums(f, {}, u) /\ SumFunctionOnSet(f, {}) = u[{}]
  BY FS_EmptySet, SumIs
<1> QED BY <1>1 DEF Sums

(* Any element may be taken out of a sum, not only the one it was defined  *)
(* to take.                                                                *)
LEMMA SumWithout ==
  ASSUME NEW f, NEW I, IsFiniteSet(I), \A k \in I : f[k] \in Int
  PROVE  /\ SumFunctionOnSet(f, I) \in Int
         /\ \A k \in I : SumFunctionOnSet(f, I) = f[k] + SumFunctionOnSet(f, I \ {k})
<1> DEFINE Fine(K) == /\ SumFunctionOnSet(f, K) \in Int
                      /\ \A k \in K : SumFunctionOnSet(f, K) = f[k] + SumFunctionOnSet(f, K \ {k})
           T == {n \in Nat : \E K \in SUBSET I : Cardinality(K) = n /\ ~Fine(K)}
<1>1. \A K \in SUBSET I : IsFiniteSet(K) /\ Cardinality(K) \in Nat
  BY FS_Subset, FS_CardinalityType
<1> SUFFICES ASSUME T # {} PROVE FALSE
  BY <1>1
<1>2. T \in SUBSET Nat
  OBVIOUS
<1>3. PICK n \in T : \A m \in T : n <= m
  BY <1>2, LeastNumber
<1>4. PICK K \in SUBSET I : n \in Nat /\ Cardinality(K) = n /\ ~Fine(K)
  BY <1>3
<1>5. ASSUME NEW r \in SUBSET I, Cardinality(r) < n
      PROVE  Fine(r)
  BY <1>1, <1>3, <1>5
<1> HIDE DEF T
<1>6. K # {}
  BY <1>4, EmptySum
<1> PICK x : x = Some(K)
  OBVIOUS
<1>7. x \in K /\ SumFunctionOnSet(f, K) = f[x] + SumFunctionOnSet(f, K \ {x})
  BY <1>1, <1>6, SumUnfolds
<1>8. ASSUME NEW k \in K
      PROVE  Fine(K \ {k})
  <2> PICK r : r = K \ {k}
    OBVIOUS
  <2>1. Cardinality(r) = n - 1 /\ n \in Nat
    BY <1>1, <1>4, FS_RemoveElement
  <2>2. Cardinality(r) < n
    BY ONLY <2>1
  <2>3. r \in SUBSET I
    OBVIOUS
  <2>4. Fine(r)
    BY <1>5, <2>2, <2>3
  <2> QED BY <2>4
<1>9. ASSUME NEW k \in K, k # x
      PROVE  SumFunctionOnSet(f, K) = f[k] + SumFunctionOnSet(f, K \ {k})
  <2> PICK r : r = (K \ {x}) \ {k}
    OBVIOUS
  <2>1. r = (K \ {k}) \ {x} /\ k \in K \ {x} /\ x \in K \ {k}
    BY <1>7, <1>9
  <2>2. SumFunctionOnSet(f, K \ {x}) = f[k] + SumFunctionOnSet(f, r)
    BY <1>7, <1>8, <2>1
  <2>3. SumFunctionOnSet(f, K \ {k}) = f[x] + SumFunctionOnSet(f, r)
    BY <1>7, <1>8, <2>1
  <2>4. SumFunctionOnSet(f, r) \in Int
    <3> PICK q : q = K \ {x}
      OBVIOUS
    <3>1. Cardinality(q) = n - 1 /\ IsFiniteSet(q)
      BY <1>1, <1>4, <1>7, FS_RemoveElement
    <3>2. k \in q /\ r = q \ {k}
      BY <2>1
    <3>3. Cardinality(r) = n - 1 - 1
      BY ONLY <3>1, <3>2, FS_RemoveElement
    <3>4. Cardinality(r) < n
      BY ONLY <3>3, <1>4
    <3>5. r \in SUBSET I
      OBVIOUS
    <3> QED BY <1>5, <3>4, <3>5
  <2>5. f[k] \in Int /\ f[x] \in Int
    BY <1>7
  <2> QED BY <1>7, <2>2, <2>3, <2>4, <2>5
<1>10. SumFunctionOnSet(f, K) \in Int
  BY <1>7, <1>8
<1> QED BY <1>4, <1>7, <1>9, <1>10

-----------------------------------------------------------------------------
(* What log_bb is given and gives back: a finite log of counts, which sum  *)
(* up to the last count logged.                                            *)
LogOf(m) ==
  /\ m.last_icnt \in Nat
  /\ IsFiniteSet(DOMAIN m.simLog)
  /\ \A k \in DOMAIN m.simLog : m.simLog[k] \in Nat
  /\ SumFunction(m.simLog) = m.last_icnt

LogInv ==
  /\ LogOf(sim)
  /\ IF options.simPoints THEN options.countInsns ELSE sim.last_icnt = 0
  /\ LogAccounts

LEMMA SumOfAll == ASSUME NEW f PROVE SumFunction(f) = SumFunctionOnSet(f, DOMAIN f)
BY DEF SumFunction, SumFunctionOnSet, FoldFunction

(* Logging a block at a later count keeps the log the sum of the counts.   *)
LEMMA LogBlock ==
  ASSUME NEW m, LogOf(m), NEW a, NEW n \in Nat, m.last_icnt <= n
  PROVE  LogOf(log_bb(m, a, n)) /\ log_bb(m, a, n).last_icnt = n
<1> PICK f : f = m.simLog
  OBVIOUS
<1> PICK D : D = DOMAIN f
  OBVIOUS
<1> DEFINE slice == IF n >= m.last_slice + simPointsSlice THEN n ELSE m.last_slice
<1> PICK k : k = <<slice, a>>
  OBVIOUS
<1> PICK old : old = IF k \in D THEN f[k] ELSE 0
  OBVIOUS
<1> PICK d : d = n - m.last_icnt
  OBVIOUS
<1> PICK E : E = D \cup {k}
  OBVIOUS
<1> PICK g : g = [j \in E |-> IF j = k THEN old + d ELSE f[j]]
  OBVIOUS
<1>1. log_bb(m, a, n) = [last_icnt |-> n, last_slice |-> slice, simLog |-> g]
  BY DEF log_bb
<1> HIDE DEF slice
<1>2. /\ m.last_icnt \in Nat /\ IsFiniteSet(D) /\ \A j \in D : f[j] \in Nat
      /\ SumFunctionOnSet(f, D) = m.last_icnt
  BY SumOfAll DEF LogOf
<1>3. d \in Nat /\ m.last_icnt + d = n
  BY <1>2
<1>4. old \in Nat /\ DOMAIN g = E /\ g[k] = old + d /\ k \in E
      /\ \A j \in D \ {k} : g[j] = f[j]
  BY <1>2
<1>5. \A j \in E : g[j] \in Nat
  BY <1>2, <1>3, <1>4
<1>6. IsFiniteSet(E) /\ IsFiniteSet(D \ {k}) /\ E \ {k} = D \ {k}
  BY <1>2, FS_AddElement, FS_Subset
<1> PICK r : r = SumFunctionOnSet(f, D \ {k})
  OBVIOUS
<1>7. SumFunctionOnSet(g, D \ {k}) = r
  BY <1>4, <1>6, SameSum
<1>8. SumFunctionOnSet(g, E) = (old + d) + r
  <2>1. \A j \in E : g[j] \in Int
    BY ONLY <1>5
  <2> QED BY ONLY <2>1, <1>4, <1>6, <1>7, SumWithout
<1>9. r \in Int /\ m.last_icnt = old + r
  <2>1. \A j \in D : f[j] \in Int
    BY <1>2
  <2>2. \A j \in D \ {k} : f[j] \in Int
    BY <2>1
  <2>3. r \in Int
    BY ONLY <2>2, <1>6, SumWithout, r = SumFunctionOnSet(f, D \ {k})
  <2>4. CASE k \in D
    <3>1. SumFunctionOnSet(f, D) = f[k] + r
      BY <1>2, <2>1, <2>4, SumWithout
    <3> QED BY <1>2, <2>3, <2>4, <3>1
  <2>5. CASE k \notin D
    <3>1. D \ {k} = D /\ old = 0
      BY <2>5
    <3>2. r = m.last_icnt
      BY <1>2, <3>1
    <3> QED BY ONLY <2>3, <3>1, <3>2
  <2> QED BY <2>4, <2>5
<1>10. SumFunctionOnSet(g, E) = n
  BY ONLY <1>2, <1>3, <1>4, <1>8, <1>9
<1>11. SumFunction(g) = n
  BY ONLY <1>4, <1>10, SumOfAll
<1> PICK l : l = log_bb(m, a, n)
  OBVIOUS
<1>12. l.last_icnt = n /\ l.simLog = g
  BY <1>1
<1> QED BY ONLY <1>4, <1>5, <1>6, <1>11, <1>12, n \in Nat, l = log_bb(m, a, n) DEF LogOf

LEMMA LogInitOK ==
  ASSUME CountingInit
  PROVE  LogInv
<1> PICK f : f = [k \in {} |-> 0]
  OBVIOUS
<1>1. sim.simLog = f /\ sim.last_icnt = 0 /\ DOMAIN f = {}
  BY DEF CountingInit
<1>2. SumFunction(f) = 0
  BY <1>1, SumOfAll, EmptySum
<1>3. LogOf(sim)
  BY <1>1, <1>2, FS_EmptySet DEF LogOf
<1>4. LogAccounts
  BY <1>1, <1>2 DEF LogAccounts, CountingInit, Count
<1> QED BY <1>1, <1>3, <1>4 DEF LogInv, CountingInit

(* A step that logs nothing, or that logs a block at a count between the   *)
(* last one logged and the number executed, keeps the log right.           *)
LEMMA LogStays ==
  ASSUME LogInv, CountingInv, CountingInv', options' = options, sim' = sim,
         retired' >= retired,
         where' # "stopped" => (options.simPoints => sim.last_icnt <= Count')
  PROVE  LogInv'
<1>1. LogOf(sim) /\ sim.last_icnt \in Nat /\ sim.last_icnt <= retired
  BY DEF LogInv, LogOf, LogAccounts
<1>2. LogOf(sim')
  BY <1>1
<1>3. icnt' \in Nat /\ iCnt' \in Nat /\ retired' \in Nat
  BY DEF CountingInv
<1>4. Count' \in Nat
  BY <1>3 DEF Count
<1>5. sim.last_icnt <= retired'
  <2>1. retired \in Nat
    BY DEF CountingInv
  <2> QED BY <1>1, <1>3, <2>1
<1>6. where' # "stopped" => sim.last_icnt <= Count'
  BY <1>1, <1>4 DEF LogInv
<1>7. LogAccounts'
  BY <1>1, <1>5, <1>6 DEF LogAccounts, LogInv
<1> QED BY <1>2, <1>7 DEF LogInv

LEMMA BlockIsLogged ==
  ASSUME LogInv, CountingInv, CountingInv', options' = options, NEW a, NEW n \in Nat,
         sim' = Logged(a, n), retired' >= retired,
         options.simPoints => /\ sim.last_icnt <= n /\ n <= retired'
                              /\ n <= Count'
  PROVE  LogInv'
<1>1. CASE ~options.simPoints
  <2>1. sim' = sim
    BY <1>1 DEF Logged
  <2> QED BY <1>1, <2>1, LogStays
<1>2. CASE options.simPoints
  <2> PICK l : l = log_bb(sim, a, n)
    OBVIOUS
  <2>1. LogOf(l) /\ l.last_icnt = n
    BY <1>2, LogBlock DEF LogInv
  <2>2. sim' = l
    BY <1>2 DEF Logged
  <2>3. LogOf(sim') /\ sim'.last_icnt = n
    BY <2>1, <2>2
  <2>4. LogAccounts'
    <3>1. \A k \in DOMAIN sim'.simLog : sim'.simLog[k] >= 0
      BY <2>3 DEF LogOf
    <3>2. SumFunction(sim'.simLog) = sim'.last_icnt
      BY <2>3 DEF LogOf
    <3> QED BY <1>2, <2>3, <3>1, <3>2 DEF LogAccounts
  <2> QED BY <1>2, <2>3, <2>4 DEF LogInv
<1> QED BY <1>1, <1>2

LEMMA LogNextOK ==
  ASSUME LogInv, CountingInv, CountingInv', [CountingNext]_countingVars
  PROVE  LogInv'
<1>1. /\ icnt \in Nat /\ iCnt \in Nat /\ retired \in Nat
      /\ icnt' \in Nat /\ iCnt' \in Nat /\ retired' \in Nat
      /\ sim.last_icnt \in Nat
      /\ sim.last_icnt <= retired
      /\ where # "stopped" => sim.last_icnt <= Count
  BY DEF CountingInv, LogInv, LogOf, LogAccounts
<1>2. options.simPoints => options.countInsns
  BY DEF LogInv
<1>3. ASSUME where \in {"loop", "block"}, where' \in {"loop", "block"}, NEW end,
             execMips(end), UNCHANGED <<options, sim>>
      PROVE  LogInv'
  <2>1. icnt' >= icnt /\ retired' >= retired
    BY <1>1, <1>3 DEF execMips, Executes
  <2>2. Count = icnt /\ Count' = icnt'
    BY <1>3 DEF Count
  <2>3. sim.last_icnt <= Count'
    BY <1>1, <1>3, <2>1, <2>2
  <2> QED BY <1>3, <2>1, <2>3, LogStays
<1>4. CASE Build
  BY <1>3, <1>4 DEF Build
<1>5. CASE Interpret
  BY <1>3, <1>5 DEF Interpret
<1>6. CASE RunBlock
  <2>1. PICK b \in Blocks : sim' = Logged(b.pc, icnt)
    BY <1>6 DEF RunBlock
  <2>2. Count = icnt /\ Count' = icnt /\ retired' = retired /\ options' = options
        /\ where = "loop"
    BY <1>6 DEF RunBlock, Count
  <2>3. options.simPoints => icnt = retired
    BY <1>2, <2>2 DEF CountingInv, CountsRetired
  <2>4. options.simPoints => sim.last_icnt <= icnt /\ icnt <= retired' /\ icnt <= Count'
    BY <1>1, <2>2, <2>3
  <2>5. retired' >= retired
    BY <1>1, <2>2
  <2> QED BY <1>1, <2>1, <2>2, <2>4, <2>5, BlockIsLogged
<1>7. ASSUME where # "stopped", where' = "region", NEW b, NEW n,
             EnterBlock(b, n), ExecutedBy(b) \in Nat
      PROVE  LogInv'
  <2>1. sim' = Logged(b.pc, iCnt') /\ options' = options
        /\ retired' = retired + ExecutedBy(b)
    BY <1>7 DEF EnterBlock
  <2>2. Count' = iCnt' /\ retired' >= retired
    BY <1>1, <1>7, <2>1 DEF Count
  <2>3. options.simPoints => iCnt' = retired'
    BY <1>2, <1>7, <2>1, <2>2 DEF CountingInv, CountsRetired
  <2>4. options.simPoints => sim.last_icnt <= iCnt' /\ iCnt' <= retired' /\ iCnt' <= Count'
    BY <1>1, <2>2, <2>3
  <2> QED BY <1>1, <2>1, <2>2, <2>4, BlockIsLogged
<1>8. ASSUME NEW b \in Blocks PROVE ExecutedBy(b) \in Nat
  BY <1>8, CountingAssumption DEF ExecutedBy
<1>9. CASE EnterRegion
  <2>1. PICK b \in Compilable : EnterBlock(b, icnt)
    BY <1>9 DEF EnterRegion
  <2>2. ExecutedBy(b) \in Nat
    BY <1>8 DEF Compilable
  <2> QED BY <1>7, <1>9, <2>1, <2>2 DEF EnterRegion
<1>10. CASE NextBlock
  <2>1. PICK b \in Compilable : EnterBlock(b, iCnt)
    BY <1>10 DEF NextBlock
  <2>2. ExecutedBy(b) \in Nat
    BY <1>8 DEF Compilable
  <2>3. where # "stopped" /\ where' = "region"
    BY <1>10 DEF NextBlock
  <2> QED BY <1>7, <2>1, <2>2, <2>3
<1>11. CASE LikelyIsTaken
  <2>1. ExecutedBy(PatchOf(block)) \in Nat
    BY DEF ExecutedBy, PatchOf
  <2>2. where # "stopped" /\ where' = "region" /\ EnterBlock(PatchOf(block), iCnt)
    BY <1>11 DEF LikelyIsTaken
  <2> QED BY <1>7, <2>1, <2>2
<1>12. CASE Abort
  <2>1. /\ where = "region" /\ where' = "loop"
        /\ options' = options /\ sim' = sim /\ retired' = retired
        /\ options.countInsns => icnt' = iCnt
    BY <1>12 DEF Abort
  <2>2. Count = iCnt /\ Count' = icnt' /\ retired' >= retired
    BY <1>1, <2>1 DEF Count
  <2>3. options.simPoints => sim.last_icnt <= Count'
    BY <1>1, <1>2, <2>1, <2>2
  <2> QED BY <2>1, <2>2, <2>3, LogStays
<1>13. CASE Quit
  <2>1. where' = "stopped" /\ options' = options /\ sim' = sim /\ retired' >= retired
    BY <1>1, <1>13 DEF Quit
  <2> QED BY <2>1, LogStays
<1>14. CASE UNCHANGED countingVars
  <2>1. /\ options' = options /\ sim' = sim /\ retired' >= retired
        /\ where' = where /\ Count' = Count
    BY <1>1, <1>14 DEF countingVars, Count
  <2> QED BY <1>1, <2>1, LogStays
<1> QED BY <1>4, <1>5, <1>6, <1>9, <1>10, <1>11, <1>12, <1>13, <1>14 DEF CountingNext

(* SimPoints' log accounts for every instruction up to the last block      *)
(* logged once, for all blocks and slices.                                 *)
THEOREM LogIsRight == CountingSpec => []LogAccounts
<1>1. CountingInit => LogInv
  BY LogInitOK
<1>2. LogInv /\ CountingInv /\ CountingInv' /\ [CountingNext]_countingVars => LogInv'
  BY LogNextOK
<1>3. LogInv => LogAccounts
  BY DEF LogInv
<1> QED BY <1>1, <1>2, <1>3, Counted, PTL DEF CountingSpec
=============================================================================
