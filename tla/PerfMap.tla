------------------------------ MODULE PerfMap ------------------------------
(***************************************************************************)
(* The map for Linux perf that names compiled code (perfmap.cc).  Every    *)
(* regionCFG holds a reference to the one perfmap object: it comes with    *)
(* the first of them, goes with the last, and writes its log to the file   *)
(* as it goes, over what an earlier one may have written.                  *)
(* A region is named by its head; an address whose code was freed may be   *)
(* given to other code later.                                              *)
(***************************************************************************)
EXTENDS Naturals, Sequences

CONSTANTS
  Heads,       \* entry addresses of region heads
  CodeAddr,    \* host addresses code can be placed at
  MaxLog       \* bound: entries of one log

VARIABLES
  theInstance, \* the perfmap object's refs and perfLog; no object if refs is 0
  cfgs,        \* the regionCFGs that live: code addresses by head
  perfFile     \* the file

perfVars == <<theInstance, cfgs, perfFile>>

Entry(a, h) == [addr |-> a, name |-> h]

NoInstance == [refs |-> 0, perfLog |-> <<>>]

PerfInit ==
  /\ theInstance = NoInstance
  /\ cfgs = [h \in {} |-> 0]
  /\ perfFile = <<>>

getReference(i) == [i EXCEPT !.refs = @ + 1]

addEntry(i, e) == [i EXCEPT !.perfLog = Append(@, e)]

(* Mutant: the last reference but one is taken for the last.               *)
IsLastEarly(i) == i.refs <= 2

IsLast(i) == i.refs = 1

(* perfmap::relReference: the destructor writes the file.                  *)
relReference(i) ==
  \/ IsLast(i) /\ theInstance' = NoInstance /\ perfFile' = i.perfLog
  \/ ~IsLast(i) /\ theInstance' = [i EXCEPT !.refs = @ - 1] /\ UNCHANGED perfFile

Free(a) == \A h \in DOMAIN cfgs : cfgs[h] # a

(* executeJIT compiles a region: the code is placed and named ...          *)
Compile(h, a) ==
  /\ Len(theInstance.perfLog) < MaxLog
  /\ h \notin DOMAIN cfgs /\ Free(a)
  /\ theInstance' = addEntry(getReference(theInstance), Entry(a, h))
  /\ cfgs' = [x \in DOMAIN cfgs \cup {h} |-> IF x = h THEN a ELSE cfgs[x]]
  /\ UNCHANGED perfFile

(* ... or buildCFG refuses it, and the regionCFG is deleted.               *)
CompileFails ==
  /\ relReference(getReference(theInstance))
  /\ UNCHANGED cfgs

(* dropCompiledCode, and each block dropAllBBs deletes.                    *)
Drop(h) ==
  /\ cfgs' = [x \in DOMAIN cfgs \ {h} |-> cfgs[x]]
  /\ relReference(theInstance)

PerfNext ==
  \/ \E h \in Heads, a \in CodeAddr : Compile(h, a)
  \/ CompileFails
  \/ \E h \in DOMAIN cfgs : Drop(h)

PerfSpec == PerfInit /\ [][PerfNext]_perfVars

-----------------------------------------------------------------------------
(* The latest entry of log for address a names h.                          *)
Names(log, a, h) ==
  \E i \in 1 .. Len(log) :
    /\ log[i] = Entry(a, h)
    /\ \A j \in i + 1 .. Len(log) : log[j].addr # a

(* perf can name all the code there is: the log that is going to be        *)
(* written is not given up while code it names can run, however many       *)
(* regions were compiled, refused or dropped in between.                   *)
LogNamesCode ==
  \A h \in DOMAIN cfgs : Names(theInstance.perfLog, cfgs[h], h)
=============================================================================
