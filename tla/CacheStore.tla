----------------------------- MODULE CacheStore ----------------------------
(***************************************************************************)
(* The files under a store's root: `SolveCache` and `PayloadStepCache`     *)
(* (plan/cache.py), which publish a blob by renaming a finished temporary  *)
(* file over the path, and the calibration records (calib/store.py), which *)
(* are written in place.  Callers are threads and processes with no lock   *)
(* between them; any of them may be killed, and any write may fail.        *)
(*                                                                         *)
(* A blob is Parts pieces of text, each written and read on its own; the   *)
(* directory maps a path to an inode, so a reader keeps the file it opened *)
(* when a rename replaces the path.                                        *)
(***************************************************************************)
EXTENDS Naturals, FiniteSets

CONSTANTS
  Keys, Values, Procs,
  Records,            \* the keys of the calibration store
  Holds,              \* Holds[k]: what may be put under k
  Inodes, NoFile,     \* bound: the files the disk can hold
  Parts,              \* pieces of a blob
  Blank, Binary,      \* a piece not written yet; bytes that are not text
  Damages,            \* what may befall a stored file: subset of {Blank, Binary}
  MaxCalls,           \* bound: the calls made
  NoBlob, NotTaken, NoCall, Miss, Done, Raised, Pending

ASSUME StoreAssumption ==
  /\ Records \subseteq Keys /\ Parts \in Nat \ {0} /\ MaxCalls \in Nat
  /\ Damages \subseteq {Blank, Binary} /\ Blank # Binary
  /\ NoFile \notin Inodes
  /\ Holds \in [Keys -> SUBSET Values]
  /\ \A k \in Records : \A v, w \in Holds[k] : v = w   \* a record's digest is its content
  /\ Values \cap {Blank, Binary, NoBlob, NotTaken, Miss, Done, Raised, Pending} = {}
  /\ NoBlob # NotTaken /\ Raised \notin {Pending, Miss}

VARIABLES
  path,    \* path[k]: the inode of `<root>/<k>.json`, or NoFile
  temps,   \* the inodes under a `.<name>.*.tmp` name
  data,    \* data[i]: the pieces of file i
  call,    \* call[p]: the put or the get p is in, or NoCall
  pc,      \* where p is inside its call
  file,    \* file[p]: the file p holds open
  at,      \* at[p]: the piece p writes or reads next
  got,     \* got[p]: what p has read
  answer,  \* answer[p][k]: what p's last call on k returned
  cut,     \* history: the keys a write of which was cut short, or whose file was damaged
  begun    \* bound: the calls begun

disk == <<path, temps, data>>
vars == <<disk, call, pc, file, at, got, answer, cut, begun>>

Calls ==
  (UNION {[op : {"put"}, key : {k}, value : Holds[k]] : k \in Keys}) \cup [op : {"get"}, key : Keys]
ASSUME NoCallAssumption == NoCall \notin Calls

Pieces == [1..Parts -> Values \cup {Blank, Binary}]
Filled(v) == [j \in 1..Parts |-> v]

Init ==
  /\ path = [k \in Keys |-> NoFile]
  /\ temps = {}
  /\ data = [i \in Inodes |-> Filled(Blank)]
  /\ call = [p \in Procs |-> NoCall]
  /\ pc = [p \in Procs |-> "idle"]
  /\ file = [p \in Procs |-> NoFile]
  /\ at = [p \in Procs |-> 1]
  /\ got = [p \in Procs |-> Filled(Blank)]
  /\ answer = [p \in Procs |-> [k \in Keys |-> Pending]]
  /\ cut = {}
  /\ begun = 0

\* Inodes under no name and held open by nobody.
Free == {i \in Inodes : i \notin temps /\ (\A k \in Keys : path[k] # i) /\ (\A p \in Procs : file[p] # i)}

Key(p) == call[p].key

\* The call of p ends with answer a; its file is closed.
Return(p, a) ==
  /\ call' = [call EXCEPT ![p] = NoCall]
  /\ pc' = [pc EXCEPT ![p] = "idle"]
  /\ file' = [file EXCEPT ![p] = NoFile]
  /\ at' = [at EXCEPT ![p] = 1]
  /\ got' = [got EXCEPT ![p] = Filled(Blank)]
  /\ answer' = [answer EXCEPT ![p][Key(p)] = a]
  /\ UNCHANGED begun

\* p goes on, from position n of file i.
Goto(p, label, i, n) ==
  /\ pc' = [pc EXCEPT ![p] = label]
  /\ file' = [file EXCEPT ![p] = i]
  /\ at' = [at EXCEPT ![p] = n]
  /\ UNCHANGED <<call, answer, begun>>

Begin(p, c) ==
  /\ pc[p] = "idle" /\ begun < MaxCalls
  /\ begun' = begun + 1
  /\ call' = [call EXCEPT ![p] = c]
  /\ pc' = [pc EXCEPT ![p] = IF c.op = "get" THEN "exists"
                             ELSE IF c.key \in Records THEN "create" ELSE "make"]
  /\ answer' = [answer EXCEPT ![p][c.key] = Pending]
  /\ UNCHANGED <<disk, file, at, got, cut>>

----------------------------------------------------------------------------
(* put: _atomic_write_text; write_record for the calibration records         *)

\* Mutant of MakeTemp: one temporary name per key.
SharedTemp(p) ==
  /\ pc[p] = "make"
  /\ \E i \in Free \cup {file[q] : q \in {q \in Procs : pc[q] = "write" /\ Key(q) = Key(p)}} :
       /\ temps' = temps \cup {i}
       /\ data' = [data EXCEPT ![i] = Filled(Blank)]
       /\ Goto(p, "write", i, 1)
  /\ UNCHANGED <<path, got, cut>>

\* mkstemp: a fresh file under a name of its own.
MakeTemp(p) ==
  /\ pc[p] = "make"
  /\ \E i \in Free :
       /\ temps' = temps \cup {i}
       /\ data' = [data EXCEPT ![i] = Filled(Blank)]
       /\ Goto(p, "write", i, 1)
  /\ UNCHANGED <<path, got, cut>>

\* write_text opens the path itself: an existing file is cut to nothing.
OpenInPlace(p) ==
  /\ pc[p] = "create"
  /\ \E i \in IF path[Key(p)] = NoFile THEN Free ELSE {path[Key(p)]} :
       /\ path' = [path EXCEPT ![Key(p)] = i]
       /\ data' = [data EXCEPT ![i] = Filled(Blank)]
       /\ Goto(p, "write", i, 1)
  /\ UNCHANGED <<temps, got, cut>>

WritePart(p) ==
  /\ pc[p] = "write" /\ at[p] <= Parts
  /\ data' = [data EXCEPT ![file[p]][at[p]] = call[p].value]
  /\ Goto(p, "write", file[p], at[p] + 1)
  /\ UNCHANGED <<path, temps, got, cut>>

\* Mutant of Replace: copied to the path, the temporary keeps its name.
ReplaceByLink(p) ==
  /\ pc[p] = "write" /\ at[p] = Parts + 1 /\ Key(p) \notin Records
  /\ path' = [path EXCEPT ![Key(p)] = file[p]]
  /\ Return(p, Done)
  /\ UNCHANGED <<temps, data, cut>>

\* The text is written and the file closed: os.replace publishes it.
Replace(p) ==
  /\ pc[p] = "write" /\ at[p] = Parts + 1 /\ Key(p) \notin Records
  /\ path' = [path EXCEPT ![Key(p)] = file[p]]
  /\ temps' = temps \ {file[p]}
  /\ Return(p, Done)
  /\ UNCHANGED <<data, cut>>

\* Mutant of WroteInPlace: it returns with the last piece still in a buffer.
DoneUnflushed(p) ==
  /\ pc[p] = "write" /\ at[p] = Parts /\ Key(p) \in Records
  /\ Return(p, Done)
  /\ UNCHANGED <<disk, cut>>

WroteInPlace(p) ==
  /\ pc[p] = "write" /\ at[p] = Parts + 1 /\ Key(p) \in Records
  /\ Return(p, Done)
  /\ UNCHANGED <<disk, cut>>

\* An exception before the file is there, or with no cleanup to do.
PutFails(p) ==
  /\ \/ pc[p] \in {"make", "create"} /\ UNCHANGED cut
     \/ pc[p] = "write" /\ Key(p) \in Records /\ cut' = cut \cup {Key(p)}
  /\ Return(p, Raised)
  /\ UNCHANGED disk

\* An exception in the write or in os.replace: the temporary is unlinked, and
\* the exception goes on, also when the unlinking failed.
WriteFails(p) ==
  /\ pc[p] = "write" /\ Key(p) \notin Records
  /\ Goto(p, "unlink", file[p], at[p])
  /\ UNCHANGED <<disk, got, cut>>

Unlink(p) ==
  /\ pc[p] = "unlink"
  /\ temps' \in {temps, temps \ {file[p]}}
  /\ Return(p, Raised)
  /\ UNCHANGED <<path, data, cut>>

----------------------------------------------------------------------------
(* get: SolveCache.get, PayloadStepCache.get with _load_cache_json;          *)
(* read_record for the calibration records                                   *)

Exists(p) ==
  /\ pc[p] = "exists"
  /\ \/ path[Key(p)] = NoFile /\ Return(p, Miss)
     \/ path[Key(p)] # NoFile /\ Goto(p, "open", NoFile, 1) /\ UNCHANGED got
  /\ UNCHANGED <<disk, cut>>

Open(p) ==
  /\ pc[p] = "open"
  /\ Goto(p, "read", path[Key(p)], 1)
  /\ UNCHANGED <<disk, got, cut>>

ReadPart(p) ==
  /\ pc[p] = "read" /\ at[p] <= Parts
  /\ got' = [got EXCEPT ![p][at[p]] = data[file[p]][at[p]]]
  /\ Goto(p, "read", file[p], at[p] + 1)
  /\ UNCHANGED <<disk, cut>>

\* Mutant of Loaded: parsed without the except clause.
LoadedUnguarded(p, text) ==
  IF \E v \in Values : text = Filled(v) THEN text[1] ELSE Raised

\* What a get makes of the text: read_text decodes it, json.loads parses it.
\* _load_cache_json turns an OSError and a JSONDecodeError into a miss;
\* read_record lets both out.
Unreadable(p) == IF Key(p) \in Records THEN Raised ELSE Miss
Loaded(p, text) ==
  IF \E j \in 1..Parts : text[j] = Binary THEN Raised
  ELSE IF \E v \in Values : text = Filled(v) THEN text[1]
  ELSE Unreadable(p)

Load(p) ==
  /\ pc[p] = "read" /\ at[p] = Parts + 1
  /\ Return(p, Loaded(p, got[p]))
  /\ UNCHANGED <<disk, cut>>

ReadFails(p) ==
  /\ pc[p] \in {"open", "read"} /\ at[p] <= Parts
  /\ Return(p, Unreadable(p))
  /\ UNCHANGED <<disk, cut>>

----------------------------------------------------------------------------
(* The environment                                                           *)

\* The process is killed: no handler runs, a temporary file stays.
Kill(p) ==
  /\ pc[p] # "idle"
  /\ cut' = IF pc[p] = "write" THEN cut \cup {Key(p)} ELSE cut
  /\ Return(p, Pending)
  /\ UNCHANGED disk

\* A file at rest is damaged: cut, or overwritten with other bytes.
Damage(k) ==
  /\ path[k] # NoFile /\ \A p \in Procs : file[p] # path[k]
  /\ \E d \in Damages : data' = [data EXCEPT ![path[k]] = Filled(d)]
  /\ cut' = cut \cup {k}
  /\ UNCHANGED <<path, temps, call, pc, file, at, got, answer, begun>>

Step(p) ==
  \/ \E c \in Calls : Begin(p, c)
  \/ MakeTemp(p) \/ OpenInPlace(p) \/ WritePart(p) \/ Replace(p) \/ WroteInPlace(p)
  \/ PutFails(p) \/ WriteFails(p) \/ Unlink(p)
  \/ Exists(p) \/ Open(p) \/ ReadPart(p) \/ Load(p) \/ ReadFails(p)
  \/ Kill(p)

Next ==
  \/ \E p \in Procs : Step(p)
  \/ \E k \in Keys : Damage(k)

Spec == Init /\ [][Next]_vars

----------------------------------------------------------------------------
(* Properties                                                                *)

(* Types, and the rename moves a file: what a path names is under no         *)
(* temporary name (os.replace).                                              *)
TypeOK ==
  /\ path \in [Keys -> Inodes \cup {NoFile}]
  /\ temps \in SUBSET Inodes
  /\ data \in [Inodes -> Pieces]
  /\ call \in [Procs -> Calls \cup {NoCall}]
  /\ pc \in [Procs -> {"idle", "make", "create", "write", "unlink", "exists", "open", "read"}]
  /\ file \in [Procs -> Inodes \cup {NoFile}]
  /\ at \in [Procs -> 1..(Parts + 1)]
  /\ got \in [Procs -> Pieces]
  /\ answer \in [Procs -> [Keys -> Values \cup {Miss, Done, Raised, Pending}]]
  /\ cut \subseteq Keys /\ begun \in 0..MaxCalls
  /\ \A k \in Keys : path[k] \notin temps

\* The value of a whole file; a file cut short holds nothing.
ValueIn(text) == IF \E v \in Values : text = Filled(v) THEN text[1] ELSE NoBlob

Caches == Keys \ Records
InCache(p) == call[p] # NoCall /\ Key(p) \in Caches

\* What the map of BlobStore is, seen from the files: the calls on the caches,
\* the blobs their paths lead to, and the file an opened get holds.
blobBar   == [k \in Caches |-> IF path[k] = NoFile THEN NoBlob ELSE ValueIn(data[path[k]])]
callBar   == [p \in Procs |-> IF InCache(p) THEN call[p] ELSE NoCall]
takenBar  == [p \in Procs |-> IF InCache(p) /\ pc[p] = "read" THEN ValueIn(data[file[p]]) ELSE NotTaken]
answerBar == [p \in Procs |-> [k \in Caches |-> answer[p][k]]]

Blobs == INSTANCE BlobStore WITH
  Keys <- Caches, blob <- blobBar, call <- callBar, taken <- takenBar, answer <- answerBar

(* _atomic_write_text, "readers see either the old content or the whole new  *)
(* content, never a partial write" (cache.py:56-60): with writers of one key *)
(* running together, failing and being killed at any step, the caches'       *)
(* directory behaves as an atomic map and a get answers a blob the key       *)
(* really held.                                                              *)
ActsAsBlobStore == Blobs!Spec

(* "A malformed blob must never crash a solve that could simply recompute"   *)
(* (_load_cache_json, cache.py:78-90).  It does not catch UnicodeDecodeError:*)
(* a get of a cache raises over bytes that are not text, and over nothing    *)
(* else, whatever writers, kills and truncation made of the file.            *)
CacheReadsRaiseOnBytesOnly ==
  [][\A p \in Procs :
       InCache(p) /\ call[p].op = "get" /\ answer'[p][Key(p)] = Raised
         => \E j \in 1..Parts : got[p][j] = Binary]_vars

(* Writers that rewrite one record together, cutting each other's file to    *)
(* nothing, leave it whole when the last of them is gone, unless a write of  *)
(* it was cut short or the file was damaged (write_record).                  *)
RecordsWholeAtRest ==
  \A k \in Records \ cut :
    path[k] # NoFile /\ (\A p \in Procs : pc[p] = "write" => Key(p) # k)
      => \E v \in Values : data[path[k]] = Filled(v)
============================================================================
