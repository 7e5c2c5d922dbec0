-------------------------- MODULE CacheStoreProofs -------------------------
(***************************************************************************)
(* That the caches' directory is an atomic map for any number of keys,     *)
(* processes, files and pieces of a blob, and that rewritten records end   *)
(* up whole.  The argument is about files: a writer's temporary file is    *)
(* its own until the rename (OwnTemp), a reader's file is out of every     *)
(* writer's reach (Settled), so a file a path of a cache names never       *)
(* changes except by damage, and the rename is the instant of the put and  *)
(* the open the instant of the get.                                        *)
(***************************************************************************)
EXTENDS CacheStore, TLAPS

(* Where a process is in its call, and the call it is in.                    *)
Phase(p) ==
  /\ pc[p] = "idle" <=> call[p] = NoCall
  /\ pc[p] # "idle" => answer[p][Key(p)] = Pending
  /\ pc[p] \in {"make", "create", "write", "unlink"} => call[p].op = "put"
  /\ pc[p] \in {"exists", "open", "read"} => call[p].op = "get"
  /\ pc[p] \in {"make", "unlink"} => Key(p) \notin Records
  /\ pc[p] = "create" => Key(p) \in Records
  /\ pc[p] = "open" => path[Key(p)] # NoFile
  /\ pc[p] \in {"write", "read"} => file[p] \in Inodes

(* A file has one path.                                                      *)
OnePath == \A k, l \in Keys : k # l /\ path[k] # NoFile => path[k] # path[l]

(* The temporary file a cache's put writes is held by nobody else, and holds *)
(* the pieces written so far.                                                *)
OwnTemp(p) ==
  pc[p] = "write" /\ Key(p) \notin Records =>
    /\ file[p] \in temps
    /\ \A q \in Procs : q # p => file[q] # file[p]
    /\ \A j \in 1..Parts : j < at[p] => data[file[p]][j] = call[p].value

(* A record's put writes the file the path names.                            *)
InPlace(p) == pc[p] = "write" /\ Key(p) \in Records => file[p] = path[Key(p)]

(* The file a cache's get reads is neither a temporary file nor a record's,  *)
(* and what was read of it is what it holds.                                 *)
Settled(p) ==
  pc[p] = "read" /\ Key(p) \notin Records =>
    /\ file[p] \notin temps
    /\ \A k \in Records : path[k] # file[p]
    /\ \A j \in 1..Parts : j < at[p] => got[p][j] = data[file[p]][j]

(* A piece of an unharmed record is its content, or some writer has still to *)
(* write it.                                                                 *)
Refilled(k) ==
  path[k] # NoFile => \A j \in 1..Parts :
    \/ data[path[k]][j] \in Holds[k]
    \/ \E p \in Procs : pc[p] = "write" /\ Key(p) = k /\ at[p] <= j

IInv ==
  /\ TypeOK
  /\ OnePath
  /\ \A p \in Procs : Phase(p) /\ OwnTemp(p) /\ InPlace(p) /\ Settled(p)
  /\ \A k \in Records \ cut : Refilled(k)

----------------------------------------------------------------------------
(* The step lemmas: each step keeps IInv.                                    *)

USE StoreAssumption, NoCallAssumption

(* What a call is.                                                           *)
LEMMA CallShape ==
  ASSUME NEW c \in Calls
  PROVE  /\ c.key \in Keys
         /\ c.op \in {"put", "get"}
         /\ c.op = "put" => c.value \in Holds[c.key] /\ c.value \in Values
  BY DEF Calls

(* A fresh text is a text.                                                   *)
LEMMA FilledIsText ==
  ASSUME NEW v \in Values \cup {Blank, Binary}
  PROVE  Filled(v) \in Pieces /\ \A j \in 1..Parts : Filled(v)[j] = v
  BY DEF Filled, Pieces

(* Initially every process is idle and the directory empty.                  *)
LEMMA InitInv == Init => IInv
  <1> SUFFICES ASSUME Init PROVE IInv
    OBVIOUS
  <1>1. TypeOK
    BY FilledIsText DEF Init, TypeOK
  <1>2. QED
    BY <1>1 DEF Init, IInv, OnePath, Phase, OwnTemp, InPlace, Settled, Refilled

(* A call that begins has no file yet.                                       *)
LEMMA BeginStep ==
  ASSUME IInv, NEW p \in Procs, NEW c \in Calls, Begin(p, c)
  PROVE  IInv'
  <1> USE DEF IInv, Begin, disk
  <1>1. TypeOK'
    BY CallShape DEF TypeOK
  <1>2. OnePath'
    BY DEF OnePath
  <1>3. \A q \in Procs : Phase(q)'
    BY CallShape DEF Phase, TypeOK, Key
  <1>4. \A q \in Procs : OwnTemp(q)' /\ InPlace(q)' /\ Settled(q)'
    BY DEF OwnTemp, InPlace, Settled, TypeOK, Key
  <1>5. \A k \in Records \ cut' : Refilled(k)'
    BY DEF Refilled, TypeOK, Key
  <1>6. QED BY <1>1, <1>2, <1>3, <1>4, <1>5

(* mkstemp hands out a file that no path, no name and no process has.        *)
LEMMA MakeTempStep ==
  ASSUME IInv, NEW p \in Procs, MakeTemp(p)
  PROVE  IInv'
  <1> USE DEF IInv, MakeTemp, Goto
  <1>0. PICK i \in Free : /\ temps' = temps \cup {i}
                         /\ data' = [data EXCEPT ![i] = Filled(Blank)]
                         /\ Goto(p, "write", i, 1)
    OBVIOUS
  <1>1. TypeOK'
    BY <1>0, FilledIsText DEF TypeOK, Free
  <1>2. OnePath'
    BY DEF OnePath
  <1>3. \A q \in Procs : Phase(q)'
    BY <1>0 DEF Phase, TypeOK, Key, Free
  <1>4. \A q \in Procs : OwnTemp(q)'
    BY <1>0 DEF OwnTemp, TypeOK, Key, Free
  <1>5. \A q \in Procs : InPlace(q)' /\ Settled(q)'
    BY <1>0 DEF Phase, InPlace, Settled, TypeOK, Key, Free
  <1>6. \A k \in Records \ cut' : Refilled(k)'
    BY <1>0 DEF Refilled, Phase, TypeOK, Key, Free
  <1>7. QED BY <1>1, <1>2, <1>3, <1>4, <1>5, <1>6

(* A record cut to nothing has a writer that will write every piece again.   *)
LEMMA OpenInPlaceStep ==
  ASSUME IInv, NEW p \in Procs, OpenInPlace(p)
  PROVE  IInv'
  <1> USE DEF IInv, OpenInPlace, Goto
  <1>a. Key(p) \in Records /\ Key(p) \in Keys
    BY CallShape DEF Phase, TypeOK, Key
  <1>0. PICK i \in Inodes : /\ i \in Free \/ i = path[Key(p)]
                           /\ path' = [path EXCEPT ![Key(p)] = i]
                           /\ data' = [data EXCEPT ![i] = Filled(Blank)]
                           /\ Goto(p, "write", i, 1)
    <2>1. CASE path[Key(p)] = NoFile
      BY <2>1 DEF Free
    <2>2. CASE path[Key(p)] # NoFile
      BY <1>a, <2>2 DEF TypeOK
    <2>3. QED BY <2>1, <2>2
  <1>1. TypeOK'
    BY <1>0, <1>a, FilledIsText DEF TypeOK, Free
  <1>2. OnePath'
    BY <1>0, <1>a DEF OnePath, TypeOK, Free
  <1>3. \A q \in Procs : Phase(q)'
    BY <1>0, <1>a DEF Phase, TypeOK, Key, Free
  <1>4. \A q \in Procs : OwnTemp(q)' /\ InPlace(q)'
    BY <1>0, <1>a DEF OwnTemp, InPlace, Phase, TypeOK, Key, Free
  <1>5. \A q \in Procs : Settled(q)'
    BY <1>0, <1>a DEF Phase, Settled, TypeOK, Key, Free
  <1>6. \A k \in Records \ cut' : Refilled(k)'
    <2> SUFFICES ASSUME NEW k \in Records \ cut, path'[k] # NoFile, NEW j \in 1..Parts
                 PROVE  \/ data'[path'[k]][j] \in Holds[k]
                        \/ \E q \in Procs : pc'[q] = "write" /\ Key(q)' = k /\ at'[q] <= j
      BY DEF Refilled
    <2>1. CASE k = Key(p)
      <3>1. pc'[p] = "write" /\ Key(p)' = k /\ at'[p] <= j
        BY <1>0, <2>1 DEF TypeOK, Key
      <3>2. QED BY <3>1
    <2>2. CASE k # Key(p)
      <3>1. path'[k] = path[k] /\ path[k] # i
        BY <1>0, <1>a, <2>2 DEF OnePath, TypeOK, Free
      <3>2. data'[path'[k]] = data[path[k]]
        BY <1>0, <3>1 DEF TypeOK
      <3>3. \A q \in Procs : pc[q] = "write" /\ Key(q) = k =>
              pc'[q] = "write" /\ Key(q)' = k /\ at'[q] = at[q]
        BY <1>0, <2>2 DEF TypeOK, Key
      <3>4. QED BY <3>1, <3>2, <3>3 DEF Refilled
    <2>3. QED BY <2>1, <2>2
  <1>7. QED BY <1>1, <1>2, <1>3, <1>4, <1>5, <1>6

(* A piece lands in the writer's own temporary file, or in its record.       *)
LEMMA WritePartStep ==
  ASSUME IInv, NEW p \in Procs, WritePart(p)
  PROVE  IInv'
  <1> USE DEF IInv, WritePart, Goto
  <1>a. /\ call[p] \in Calls /\ Key(p) \in Keys
        /\ call[p].value \in Holds[Key(p)] /\ call[p].value \in Values
        /\ file[p] \in Inodes /\ at[p] \in 1..Parts
    BY CallShape DEF Phase, TypeOK, Key
  <1>1. TypeOK'
    BY <1>a DEF TypeOK, Pieces
  <1>2. OnePath'
    BY DEF OnePath
  <1>3. \A q \in Procs : Phase(q)'
    BY <1>a DEF Phase, TypeOK, Key
  <1>4. \A q \in Procs : OwnTemp(q)'
    BY <1>a DEF OwnTemp, TypeOK, Key, Pieces
  <1>5. \A q \in Procs : InPlace(q)'
    BY <1>a DEF InPlace, TypeOK, Key
  <1>6. \A q \in Procs : Settled(q)'
    BY <1>a DEF OwnTemp, InPlace, Settled, TypeOK, Key
  <1>7. \A k \in Records \ cut' : Refilled(k)'
    <2> SUFFICES ASSUME NEW k \in Records \ cut, path[k] # NoFile, NEW j \in 1..Parts
                 PROVE  \/ data'[path[k]][j] \in Holds[k]
                        \/ \E q \in Procs : pc'[q] = "write" /\ Key(q)' = k /\ at'[q] <= j
      BY DEF Refilled
    <2>1. CASE file[p] # path[k]
      <3>1. data'[path[k]] = data[path[k]]
        BY <2>1 DEF TypeOK
      <3>2. \A q \in Procs : pc[q] = "write" /\ Key(q) = k => q # p
        BY <2>1 DEF InPlace
      <3>3. \A q \in Procs : pc[q] = "write" /\ Key(q) = k =>
              pc'[q] = "write" /\ Key(q)' = k /\ at'[q] = at[q]
        BY <3>2 DEF TypeOK, Key
      <3>4. QED BY <3>1, <3>3 DEF Refilled
    <2>2. CASE file[p] = path[k]
      <3>1. Key(p) = k
        BY <1>a, <2>2 DEF InPlace, OwnTemp, OnePath, TypeOK
      <3>2. CASE j = at[p]
        BY <1>a, <2>2, <3>1, <3>2 DEF TypeOK, Pieces
      <3>3. CASE j # at[p]
        <4>1. data'[path[k]][j] = data[path[k]][j]
          BY <1>a, <2>2, <3>3 DEF TypeOK, Pieces
        <4>2. CASE data[path[k]][j] \in Holds[k]
          BY <4>1, <4>2
        <4>3. ASSUME NEW q \in Procs, pc[q] = "write", Key(q) = k, at[q] <= j
              PROVE  pc'[q] = "write" /\ Key(q)' = k /\ at'[q] <= j
          <5>1. CASE q = p
            <6>1. pc'[p] = "write" /\ Key(p)' = Key(p) /\ at'[p] = at[p] + 1
              BY DEF TypeOK, Key
            <6>2. at[p] < j
              BY <1>a, <3>3, <4>3, <5>1
            <6>3. QED BY <1>a, <3>1, <5>1, <6>1, <6>2
          <5>2. CASE q # p
            BY <4>3, <5>2 DEF TypeOK, Key
          <5>3. QED BY <5>1, <5>2
        <4>4. QED BY <4>2, <4>3 DEF Refilled
      <3>4. QED BY <3>2, <3>3
    <2>3. QED BY <2>1, <2>2
  <1>8. QED BY <1>1, <1>2, <1>3, <1>4, <1>5, <1>6, <1>7

(* The rename moves a file from the temporary names to a path.               *)
LEMMA ReplaceStep ==
  ASSUME IInv, NEW p \in Procs, Replace(p)
  PROVE  IInv'
  <1> USE DEF IInv, Replace, Return
  <1>a. Key(p) \in Keys \ Records /\ file[p] \in Inodes /\ file[p] \in temps
    BY CallShape DEF Phase, OwnTemp, TypeOK, Key
  <1>1. TypeOK'
    BY <1>a, FilledIsText DEF TypeOK
  <1>2. OnePath'
    BY <1>a DEF OnePath, TypeOK
  <1>3. \A q \in Procs : Phase(q)'
    BY <1>a DEF Phase, TypeOK, Key
  <1>4. \A q \in Procs : OwnTemp(q)' /\ InPlace(q)'
    BY <1>a DEF OwnTemp, InPlace, Phase, TypeOK, Key
  <1>5. \A q \in Procs : Settled(q)'
    BY <1>a DEF Settled, TypeOK, Key
  <1>6. \A k \in Records \ cut' : Refilled(k)'
    BY <1>a DEF Refilled, TypeOK, Key
  <1>7. QED BY <1>1, <1>2, <1>3, <1>4, <1>5, <1>6

(* A call that ends without touching a path or a file, whatever it answers.  *)
LEMMA ReturnStep ==
  ASSUME IInv, NEW p \in Procs, pc[p] # "idle",
         NEW a \in Values \cup {Miss, Done, Raised, Pending}, Return(p, a),
         UNCHANGED <<path, data>>, temps' \in {temps, temps \ {file[p]}},
         cut \subseteq cut', cut' \subseteq Keys,
         pc[p] = "write" /\ Key(p) \in Records /\ at[p] <= Parts => Key(p) \in cut'
  PROVE  IInv'
  <1> USE DEF IInv, Return
  <1>a. Key(p) \in Keys
    BY CallShape DEF Phase, TypeOK, Key
  <1>1. TypeOK'
    BY <1>a, FilledIsText DEF TypeOK
  <1>2. OnePath'
    BY DEF OnePath
  <1>3. \A q \in Procs : Phase(q)'
    BY <1>a DEF Phase, TypeOK, Key
  <1>4. \A q \in Procs : OwnTemp(q)' /\ InPlace(q)' /\ Settled(q)'
    BY <1>a DEF OwnTemp, InPlace, Settled, Phase, TypeOK, Key
  <1>5. \A k \in Records \ cut' : Refilled(k)'
    <2> SUFFICES ASSUME NEW k \in Records \ cut', path[k] # NoFile, NEW j \in 1..Parts,
                        NEW q \in Procs, pc[q] = "write", Key(q) = k, at[q] <= j
                 PROVE  pc'[q] = "write" /\ Key(q)' = k /\ at'[q] <= j
      BY DEF Refilled
    <2>1. q # p
      BY DEF TypeOK
    <2>2. QED BY <2>1 DEF TypeOK, Key
  <1>6. QED BY <1>1, <1>2, <1>3, <1>4, <1>5

(* The steps inside a call that write nothing.                               *)
LEMMA GotoStep ==
  ASSUME IInv, NEW p \in Procs, WriteFails(p) \/ Open(p) \/ ReadPart(p)
                               \/ (Exists(p) /\ path[Key(p)] # NoFile)
  PROVE  IInv'
  <1> USE DEF IInv
  <1>a. call[p] \in Calls /\ Key(p) \in Keys
    BY CallShape DEF Phase, TypeOK, Key, WriteFails, Open, ReadPart, Exists
  <1>1. CASE WriteFails(p)
    <2> USE <1>1 DEF WriteFails, Goto, disk
    <2>1. TypeOK'
      BY <1>a DEF TypeOK
    <2>2. OnePath'
      BY DEF OnePath
    <2>3. \A q \in Procs : Phase(q)'
      BY <1>a DEF Phase, TypeOK, Key
    <2>4. \A q \in Procs : OwnTemp(q)' /\ InPlace(q)' /\ Settled(q)'
      BY <1>a DEF OwnTemp, InPlace, Settled, TypeOK, Key
    <2>5. \A k \in Records \ cut' : Refilled(k)'
      <3>1. \A q \in Procs : pc[q] = "write" /\ Key(q) \in Records =>
              pc'[q] = "write" /\ Key(q)' = Key(q) /\ at'[q] = at[q]
        BY DEF TypeOK, Key
      <3>2. QED BY <3>1 DEF Refilled
    <2>6. QED BY <2>1, <2>2, <2>3, <2>4, <2>5
  <1>2. CASE Open(p)
    <2> USE <1>2 DEF Open, Goto, disk
    <2>1. TypeOK'
      BY <1>a DEF TypeOK
    <2>2. OnePath'
      BY DEF OnePath
    <2>3. \A q \in Procs : Phase(q)'
      BY <1>a DEF Phase, TypeOK, Key
    <2>4. \A q \in Procs : OwnTemp(q)' /\ InPlace(q)'
      BY <1>a DEF OwnTemp, InPlace, TypeOK, Key
    <2>5. \A q \in Procs : Settled(q)'
      BY <1>a DEF Phase, OnePath, Settled, TypeOK, Key
    <2>6. \A k \in Records \ cut' : Refilled(k)'
      BY DEF Refilled, TypeOK, Key
    <2>7. QED BY <2>1, <2>2, <2>3, <2>4, <2>5, <2>6
  <1>3. CASE ReadPart(p)
    <2> USE <1>3 DEF ReadPart, Goto, disk
    <2>0. file[p] \in Inodes /\ at[p] \in 1..Parts
      BY DEF Phase, TypeOK
    <2>1. TypeOK'
      BY <2>0 DEF TypeOK, Pieces
    <2>2. OnePath'
      BY DEF OnePath
    <2>3. \A q \in Procs : Phase(q)'
      BY <2>0 DEF Phase, TypeOK, Key
    <2>4. \A q \in Procs : OwnTemp(q)' /\ InPlace(q)'
      BY DEF OwnTemp, InPlace, TypeOK, Key
    <2>5. \A q \in Procs : Settled(q)'
      BY <2>0 DEF Settled, TypeOK, Pieces, Key
    <2>6. \A k \in Records \ cut' : Refilled(k)'
      BY DEF Refilled, TypeOK, Key
    <2>7. QED BY <2>1, <2>2, <2>3, <2>4, <2>5, <2>6
  <1>4. CASE Exists(p) /\ path[Key(p)] # NoFile
    <2>0. /\ pc[p] = "exists"
          /\ Goto(p, "open", NoFile, 1)
          /\ path[Key(p)] # NoFile
          /\ UNCHANGED <<path, temps, data, got, cut>>
      BY <1>4 DEF Exists, disk
    <2> USE <2>0, <1>4 DEF Goto
    <2>1. TypeOK'
      BY <1>a DEF TypeOK
    <2>2. OnePath'
      BY DEF OnePath
    <2>3. \A q \in Procs : Phase(q)'
      BY <1>a DEF Phase, TypeOK, Key
    <2>4. \A q \in Procs : OwnTemp(q)' /\ InPlace(q)' /\ Settled(q)'
      BY <1>a DEF OwnTemp, InPlace, Settled, TypeOK, Key
    <2>5. \A k \in Records \ cut' : Refilled(k)'
      <3>1. \A q \in Procs : pc[q] = "write" /\ Key(q) \in Records =>
              pc'[q] = "write" /\ Key(q)' = Key(q) /\ at'[q] = at[q]
        BY DEF TypeOK, Key
      <3>2. QED BY <3>1 DEF Refilled
    <2>6. QED BY <2>1, <2>2, <2>3, <2>4, <2>5
  <1>5. QED BY <1>1, <1>2, <1>3, <1>4

(* Damage befalls a file nobody holds, and takes its record out of account.  *)
LEMMA DamageStep ==
  ASSUME IInv, NEW k \in Keys, Damage(k)
  PROVE  IInv'
  <1> USE DEF IInv, Damage
  <1>0. PICK d \in Damages : data' = [data EXCEPT ![path[k]] = Filled(d)]
    OBVIOUS
  <1>1. TypeOK'
    BY <1>0, FilledIsText DEF TypeOK
  <1>2. OnePath'
    BY DEF OnePath
  <1>3. \A q \in Procs : Phase(q)'
    BY DEF Phase, Key
  <1>4. \A q \in Procs : OwnTemp(q)' /\ InPlace(q)' /\ Settled(q)'
    BY <1>0 DEF OwnTemp, InPlace, Settled, TypeOK, Key
  <1>5. \A l \in Records \ cut' : Refilled(l)'
    BY <1>0 DEF Refilled, OnePath, TypeOK, Key
  <1>6. QED BY <1>1, <1>2, <1>3, <1>4, <1>5

(* What a get returns is a value, a miss or an exception.                    *)
LEMMA LoadedAnswer ==
  ASSUME IInv, NEW p \in Procs
  PROVE  Loaded(p, got[p]) \in Values \cup {Miss, Raised}
  <1>1. ASSUME NEW v \in Values, got[p] = Filled(v) PROVE got[p][1] = v
    BY <1>1, FilledIsText
  <1>2. QED BY <1>1 DEF Loaded, Unreadable

(* Every step keeps the invariant.                                           *)
LEMMA NextStep == IInv /\ [Next]_vars => IInv'
  <1> SUFFICES ASSUME IInv, [Next]_vars PROVE IInv'
    OBVIOUS
  <1>0. cut \subseteq Keys /\ \A p \in Procs : at[p] \in 1..(Parts + 1)
    BY DEF IInv, TypeOK
  <1>k. \A p \in Procs : pc[p] # "idle" => Key(p) \in Keys
    BY CallShape DEF IInv, Phase, TypeOK, Key
  <1>1. ASSUME NEW p \in Procs,
               WroteInPlace(p) \/ PutFails(p) \/ Unlink(p) \/ Load(p) \/ ReadFails(p) \/ Kill(p)
               \/ (Exists(p) /\ path[Key(p)] = NoFile)
        PROVE  IInv'
    <2>1. CASE WroteInPlace(p)
      BY <2>1, <1>0, ReturnStep DEF WroteInPlace, disk
    <2>2. CASE PutFails(p)
      BY <2>2, <1>0, <1>k, ReturnStep DEF PutFails, disk
    <2>3. CASE Unlink(p)
      BY <2>3, <1>0, ReturnStep DEF Unlink
    <2>4. CASE Load(p)
      BY <2>4, <1>0, ReturnStep, LoadedAnswer DEF Load, disk
    <2>5. CASE ReadFails(p)
      BY <2>5, <1>0, ReturnStep DEF ReadFails, Unreadable, disk
    <2>6. CASE Kill(p)
      BY <2>6, <1>0, <1>k, ReturnStep DEF Kill, disk
    <2>7. CASE Exists(p) /\ path[Key(p)] = NoFile
      BY <2>7, <1>0, ReturnStep DEF Exists, disk
    <2>8. QED BY <1>1, <2>1, <2>2, <2>3, <2>4, <2>5, <2>6, <2>7
  <1>2. ASSUME NEW p \in Procs, NEW c \in Calls, Begin(p, c) PROVE IInv'
    BY <1>2, BeginStep
  <1>3. ASSUME NEW p \in Procs, MakeTemp(p) \/ OpenInPlace(p) \/ WritePart(p) \/ Replace(p)
        PROVE  IInv'
    BY <1>3, MakeTempStep, OpenInPlaceStep, WritePartStep, ReplaceStep
  <1>4. ASSUME NEW p \in Procs, WriteFails(p) \/ Open(p) \/ ReadPart(p)
                                \/ (Exists(p) /\ path[Key(p)] # NoFile)
        PROVE  IInv'
    BY <1>4, GotoStep
  <1>5. ASSUME NEW k \in Keys, Damage(k) PROVE IInv'
    BY <1>5, DamageStep
  <1>6. CASE UNCHANGED vars
    BY <1>6 DEF vars, disk, IInv, TypeOK, OnePath, Phase, OwnTemp, InPlace, Settled, Refilled, Key
  <1>7. QED BY <1>1, <1>2, <1>3, <1>4, <1>5, <1>6 DEF Next, Step

(* Types hold in every state, for any keys, processes, files and pieces.     *)
THEOREM TypeCorrect == Spec => []TypeOK
  <1>1. IInv => TypeOK
    BY DEF IInv
  <1>2. QED BY InitInv, NextStep, <1>1, PTL DEF Spec

(* The invariant the other theorems rest on.                                 *)
LEMMA Invariance == Spec => []IInv
  BY InitInv, NextStep, PTL DEF Spec

----------------------------------------------------------------------------
(* The records and the answers.                                              *)

(* write_record: a record nobody is writing, no write of which was cut short *)
(* and whose file is undamaged, is whole.                                    *)
THEOREM RecordsWhole == Spec => []RecordsWholeAtRest
  <1>1. IInv => RecordsWholeAtRest
    <2> SUFFICES ASSUME IInv, NEW k \in Records \ cut, path[k] # NoFile,
                        \A p \in Procs : pc[p] = "write" => Key(p) # k
                 PROVE  \E v \in Values : data[path[k]] = Filled(v)
      BY DEF RecordsWholeAtRest
    <2> DEFINE text == data[path[k]]
    <2>1. text \in Pieces /\ k \in Keys /\ 1 \in 1..Parts
      BY DEF IInv, TypeOK
    <2>2. \A j \in 1..Parts : text[j] \in Holds[k]
      BY DEF IInv, Refilled
    <2>3. text[1] \in Values /\ \A j \in 1..Parts : text[j] = text[1]
      BY <2>1, <2>2
    <2>4. text = Filled(text[1])
      BY <2>1, <2>3 DEF Pieces, Filled
    <2>5. QED BY <2>3, <2>4
  <1>2. QED BY Invariance, <1>1, PTL

(* A step of one process leaves the answers of the others alone.             *)
LEMMA OthersAnswers ==
  ASSUME IInv, NEW p \in Procs, NEW q \in Procs, q # p, Step(q)
  PROVE  answer'[p] = answer[p]
  BY DEF IInv, TypeOK, Step, Begin, MakeTemp, OpenInPlace, WritePart, Replace, WroteInPlace,
         PutFails, WriteFails, Unlink, Exists, Open, ReadPart, Load, ReadFails, Kill, Goto, Return

(* _load_cache_json: a get of a cache raises over bytes that are no text and *)
(* over nothing else.                                                        *)
THEOREM ReadsRaiseOnBytesOnly == Spec => CacheReadsRaiseOnBytesOnly
  <1>1. ASSUME IInv, [Next]_vars, NEW p \in Procs, InCache(p), call[p].op = "get",
               answer'[p][Key(p)] = Raised
        PROVE  \E j \in 1..Parts : got[p][j] = Binary
    <2>1. answer[p][Key(p)] = Pending /\ Pending # Raised /\ pc[p] # "idle"
      BY <1>1 DEF IInv, Phase, InCache
    <2>2. answer'[p] # answer[p]
      BY <1>1, <2>1
    <2>3. PICK q \in Procs : Step(q)
      BY <1>1, <2>2 DEF Next, Damage, vars
    <2>4. q = p
      BY <1>1, <2>2, <2>3, OthersAnswers
    <2>5. Exists(p) \/ Open(p) \/ ReadPart(p) \/ Load(p) \/ ReadFails(p) \/ Kill(p)
      BY <1>1, <2>1, <2>3, <2>4
         DEF IInv, Phase, Step, Begin, MakeTemp, OpenInPlace, WritePart, Replace, WroteInPlace,
             PutFails, WriteFails, Unlink
    <2>6. answer \in [Procs -> [Keys -> Values \cup {Miss, Done, Raised, Pending}]]
          /\ Key(p) \in Keys \ Records
      BY <1>1, CallShape DEF IInv, TypeOK, InCache, Caches, Key
    <2>7. CASE Exists(p) \/ Open(p) \/ ReadPart(p) \/ ReadFails(p) \/ Kill(p)
      BY <1>1, <2>2, <2>6, <2>7 DEF Exists, Open, ReadPart, ReadFails, Kill, Unreadable, Goto, Return
    <2>8. CASE Load(p)
      <3>1. Loaded(p, got[p]) = Raised
        BY <1>1, <2>6, <2>8 DEF Load, Return
      <3>2. \A v \in Values : got[p] = Filled(v) => got[p][1] # Raised
        BY FilledIsText
      <3>3. QED BY <2>6, <3>1, <3>2 DEF Loaded, Unreadable
    <2>9. QED BY <2>5, <2>7, <2>8
  <1>2. IInv /\ [Next]_vars =>
          [\A p \in Procs :
             InCache(p) /\ call[p].op = "get" /\ answer'[p][Key(p)] = Raised
               => \E j \in 1..Parts : got[p][j] = Binary]_vars
    BY <1>1
  <1>3. QED BY Invariance, <1>2, PTL DEF Spec, CacheReadsRaiseOnBytesOnly

----------------------------------------------------------------------------
(* The refinement.                                                           *)

(* What the map holds stays while the paths of the caches and the files they *)
(* name stay.                                                                *)
LEMMA BlobsStay ==
  ASSUME \A k \in Caches : path'[k] = path[k] /\ (path[k] # NoFile => data'[path[k]] = data[path[k]])
  PROVE  blobBar' = blobBar
  BY DEF blobBar, ValueIn

(* A call on a cache that ends is a return of the map's call, one on a       *)
(* record is nothing to it.                                                  *)
LEMMA ReturnRefines ==
  ASSUME IInv, NEW p \in Procs, pc[p] # "idle", NEW a, Return(p, a), UNCHANGED data
  PROVE  /\ InCache(p) => callBar[p] = call[p] /\ Blobs!Return(p, a)
         /\ ~ InCache(p) => UNCHANGED <<callBar, takenBar, answerBar>>
  <1> USE DEF Return
  <1>a. Key(p) \in Keys /\ call[p] # NoCall
    BY CallShape DEF IInv, Phase, TypeOK, Key
  <1>1. callBar' = [callBar EXCEPT ![p] = NoCall]
    BY <1>a DEF IInv, TypeOK, callBar, InCache, Key
  <1>2. takenBar' = [takenBar EXCEPT ![p] = NotTaken]
    BY <1>a DEF IInv, TypeOK, takenBar, InCache, Key
  <1>3. CASE InCache(p)
    <2>1. callBar[p] = call[p] /\ Key(p) \in Caches
      BY <1>3 DEF callBar, InCache
    <2>2. answerBar' = [answerBar EXCEPT ![p][call[p].key] = a]
      BY <1>a, <2>1 DEF IInv, TypeOK, answerBar, Caches, Key
    <2>3. QED BY <1>1, <1>2, <1>3, <2>1, <2>2 DEF Blobs!Return
  <1>4. CASE ~ InCache(p)
    <2>1. Key(p) \notin Caches /\ callBar[p] = NoCall /\ takenBar[p] = NotTaken
      BY <1>a, <1>4 DEF InCache, callBar, takenBar
    <2>2. callBar' = callBar /\ takenBar' = takenBar
      BY <1>1, <1>2, <2>1 DEF callBar, takenBar
    <2>3. answerBar' = answerBar
      BY <1>a, <2>1 DEF IInv, TypeOK, answerBar, Caches
    <2>4. QED BY <1>4, <2>2, <2>3
  <1>5. QED BY <1>3, <1>4

(* A step inside a call leaves the calls and the answers of the map.         *)
LEMMA GotoRefines ==
  ASSUME IInv, NEW p \in Procs, NEW label, NEW i, NEW n, Goto(p, label, i, n)
  PROVE  UNCHANGED <<callBar, answerBar>>
  BY DEF Goto, callBar, answerBar, InCache, Key

(* What the gets have seen stays while no reader moves and no file that is   *)
(* being read changes.                                                       *)
LEMMA TakenStays ==
  ASSUME \A q \in Procs :
           /\ InCache(q)' = InCache(q)
           /\ pc'[q] = "read" <=> pc[q] = "read"
           /\ InCache(q) /\ pc[q] = "read" => file'[q] = file[q] /\ data'[file[q]] = data[file[q]]
  PROVE  takenBar' = takenBar
  BY DEF takenBar, ValueIn

(* The steps of a put before it ends, and of a get before and after it opens *)
(* its file, are nothing to the map.                                         *)
LEMMA WriterRefines ==
  ASSUME IInv, NEW p \in Procs,
         MakeTemp(p) \/ OpenInPlace(p) \/ WritePart(p) \/ WriteFails(p) \/ ReadPart(p)
  PROVE  UNCHANGED Blobs!vars
  <1> USE DEF IInv
  <1>a. Key(p) \in Keys /\ (WritePart(p) => file[p] \in Inodes)
    BY CallShape DEF Phase, TypeOK, Key, MakeTemp, OpenInPlace, WritePart, WriteFails, ReadPart
  <1>1. PICK label, i, n : Goto(p, label, i, n) /\ (label = "read" <=> pc[p] = "read")
                           /\ (pc[p] = "read" => i = file[p])
    BY DEF MakeTemp, OpenInPlace, WritePart, WriteFails, ReadPart
  <1>2. UNCHANGED <<callBar, answerBar>>
    BY <1>1, GotoRefines
  <1>3. \A k \in Caches : path'[k] = path[k] /\ (path[k] # NoFile => data'[path[k]] = data[path[k]])
    <2>1. CASE MakeTemp(p)
      BY <2>1 DEF MakeTemp, Free, TypeOK, Caches
    <2>2. CASE OpenInPlace(p)
      BY <2>2 DEF OpenInPlace, Free, TypeOK, Caches, OnePath, Phase
    <2>3. CASE WritePart(p)
      BY <1>a, <2>3 DEF WritePart, TypeOK, Caches, OnePath, OwnTemp, InPlace
    <2>4. CASE WriteFails(p) \/ ReadPart(p)
      BY <2>4 DEF WriteFails, ReadPart, disk
    <2>5. QED BY <2>1, <2>2, <2>3, <2>4
  <1>4. \A q \in Procs : InCache(q) /\ pc[q] = "read" => data'[file[q]] = data[file[q]]
    <2> SUFFICES ASSUME NEW q \in Procs, Key(q) \in Caches, pc[q] = "read"
                 PROVE  data'[file[q]] = data[file[q]]
      BY DEF InCache
    <2>0. file[q] \in Inodes /\ file[q] \notin temps /\ \A k \in Records : path[k] # file[q]
      BY DEF Phase, Settled, Caches
    <2>1. CASE MakeTemp(p)
      BY <2>0, <2>1 DEF MakeTemp, Free, TypeOK
    <2>2. CASE OpenInPlace(p)
      BY <2>0, <2>2 DEF OpenInPlace, Free, TypeOK, Phase
    <2>3. CASE WritePart(p)
      BY <2>0, <2>3 DEF WritePart, TypeOK, OwnTemp, InPlace
    <2>4. CASE WriteFails(p) \/ ReadPart(p)
      BY <2>4 DEF WriteFails, ReadPart, disk
    <2>5. QED BY <2>1, <2>2, <2>3, <2>4
  <1>5. takenBar' = takenBar
    <2>1. \A q \in Procs : /\ InCache(q)' = InCache(q)
                           /\ pc'[q] = "read" <=> pc[q] = "read"
                           /\ pc[q] = "read" => file'[q] = file[q]
      BY <1>1 DEF Goto, TypeOK, InCache, Key
    <2>2. QED BY <1>4, <2>1, TakenStays
  <1>6. QED BY <1>2, <1>3, <1>5, BlobsStay DEF Blobs!vars

(* The rename is the instant of a put.                                       *)
LEMMA ReplaceRefines ==
  ASSUME IInv, NEW p \in Procs, Replace(p)
  PROVE  Blobs!Commit(p)
  <1> USE DEF IInv, Replace
  <1>1. /\ Key(p) \in Caches /\ InCache(p) /\ pc[p] # "idle" /\ file[p] \in Inodes
        /\ call[p].op = "put" /\ call[p].value \in Values
    BY CallShape DEF Phase, TypeOK, Caches, InCache, Key
  <1>2. callBar[p] = call[p] /\ Blobs!Return(p, Done)
    BY <1>1, ReturnRefines
  <1>3. ValueIn(data[file[p]]) = call[p].value
    <2>1. data[file[p]] \in Pieces /\ \A j \in 1..Parts : data[file[p]][j] = call[p].value
      BY <1>1 DEF OwnTemp, TypeOK, Caches
    <2>2. data[file[p]] = Filled(call[p].value)
      BY <2>1 DEF Pieces, Filled
    <2>3. QED BY <1>1, <2>1, <2>2 DEF ValueIn
  <1>4. blobBar' = [blobBar EXCEPT ![call[p].key] = call[p].value]
    <2>1. path' = [path EXCEPT ![Key(p)] = file[p]] /\ data' = data /\ file[p] # NoFile
      BY <1>1
    <2>2. QED BY <1>1, <1>3, <2>1 DEF blobBar, TypeOK, Caches, Key, ValueIn
  <1>5. QED BY <1>1, <1>2, <1>4 DEF Blobs!Commit, InCache

(* Opening the file is the instant of a get.                                 *)
LEMMA OpenRefines ==
  ASSUME IInv, NEW p \in Procs, Open(p)
  PROVE  Blobs!Take(p) \/ UNCHANGED Blobs!vars
  <1> USE DEF IInv, Open, disk
  <1>1. /\ Key(p) \in Keys /\ call[p] # NoCall /\ call[p].op = "get" /\ path[Key(p)] # NoFile
        /\ Goto(p, "read", path[Key(p)], 1)
    BY CallShape DEF Phase, TypeOK, Key
  <1>2. UNCHANGED <<callBar, answerBar>>
    BY <1>1, GotoRefines
  <1>3. blobBar' = blobBar
    BY BlobsStay
  <1>4. CASE InCache(p)
    <2>1. callBar[p] = call[p] /\ takenBar[p] = NotTaken /\ blobBar[call[p].key] = ValueIn(data[path[Key(p)]])
      BY <1>1, <1>4 DEF callBar, takenBar, blobBar, InCache, Key
    <2>2. takenBar' = [takenBar EXCEPT ![p] = ValueIn(data[path[Key(p)]])]
      BY <1>1, <1>4 DEF takenBar, TypeOK, Goto, InCache, Key, ValueIn
    <2>3. QED BY <1>1, <1>2, <1>3, <2>1, <2>2 DEF Blobs!Take
  <1>5. CASE ~ InCache(p)
    <2>1. takenBar' = takenBar
      BY <1>1, <1>5 DEF takenBar, TypeOK, Goto, InCache, Key, ValueIn
    <2>2. QED BY <1>2, <1>3, <2>1 DEF Blobs!vars
  <1>6. QED BY <1>4, <1>5

(* A call that fails, finds nothing or dies.                                 *)
LEMMA EndRefines ==
  ASSUME IInv, NEW p \in Procs,
         WroteInPlace(p) \/ PutFails(p) \/ Unlink(p) \/ ReadFails(p) \/ Kill(p)
         \/ (Exists(p) /\ path[Key(p)] = NoFile)
  PROVE  Blobs!Refuse(p) \/ Blobs!ReplyMiss(p) \/ Blobs!Die(p) \/ UNCHANGED Blobs!vars
  <1>1. /\ UNCHANGED <<path, data>> /\ pc[p] # "idle"
        /\ \/ Return(p, Done) /\ Key(p) \in Records
           \/ Return(p, Raised)
           \/ Return(p, Miss) /\ call[p].op = "get"
           \/ Return(p, Pending)
    <2>1. CASE WroteInPlace(p)
      BY <2>1 DEF WroteInPlace, disk
    <2>2. CASE PutFails(p) \/ Unlink(p)
      BY <2>2 DEF PutFails, Unlink, disk
    <2>3. CASE ReadFails(p)
      BY <2>3 DEF ReadFails, Unreadable, disk, IInv, Phase
    <2>4. CASE Kill(p)
      BY <2>4 DEF Kill, disk
    <2>5. CASE Exists(p) /\ path[Key(p)] = NoFile
      BY <2>5 DEF Exists, disk, IInv, Phase
    <2>6. QED BY <2>1, <2>2, <2>3, <2>4, <2>5
  <1>2. blobBar' = blobBar
    BY <1>1, BlobsStay
  <1>3. CASE InCache(p)
    <2>1. callBar[p] = call[p] /\ callBar[p] # NoCall /\ Key(p) \notin Records
      BY <1>3 DEF InCache, Caches, callBar
    <2>2. CASE Return(p, Raised)
      BY <1>1, <1>2, <1>3, <2>1, <2>2, ReturnRefines DEF Blobs!Refuse
    <2>3. CASE Return(p, Miss) /\ call[p].op = "get"
      BY <1>1, <1>2, <1>3, <2>1, <2>3, ReturnRefines DEF Blobs!ReplyMiss
    <2>4. CASE Return(p, Pending)
      BY <1>1, <1>2, <1>3, <2>1, <2>4, ReturnRefines DEF Blobs!Die
    <2>5. QED BY <1>1, <2>1, <2>2, <2>3, <2>4
  <1>4. CASE ~ InCache(p)
    <2>1. UNCHANGED <<callBar, takenBar, answerBar>>
      BY <1>1, <1>4, ReturnRefines
    <2>2. QED BY <1>2, <2>1 DEF Blobs!vars
  <1>5. QED BY <1>3, <1>4

(* What a get of a cache returns is what the key held when it opened the     *)
(* file, a miss, or an exception.                                            *)
LEMMA LoadRefines ==
  ASSUME IInv, NEW p \in Procs, Load(p)
  PROVE  Blobs!Reply(p) \/ Blobs!ReplyMiss(p) \/ Blobs!Refuse(p) \/ UNCHANGED Blobs!vars
  <1> DEFINE a == Loaded(p, got[p])
  <1> USE DEF IInv, Load, disk
  <1>1. pc[p] # "idle" /\ call[p].op = "get" /\ Return(p, a) /\ file[p] \in Inodes
    BY DEF Phase
  <1>2. blobBar' = blobBar
    BY BlobsStay
  <1>3. CASE ~ InCache(p)
    BY <1>1, <1>2, <1>3, ReturnRefines DEF Blobs!vars
  <1>4. CASE InCache(p)
    <2>1. /\ callBar[p] = call[p] /\ callBar[p] # NoCall /\ Blobs!Return(p, a)
          /\ takenBar[p] = ValueIn(data[file[p]]) /\ Key(p) \notin Records
      <3>1. callBar[p] = call[p] /\ Blobs!Return(p, a)
        BY <1>1, <1>4, ReturnRefines
      <3>2. call[p] # NoCall /\ Key(p) \notin Records
        BY <1>4 DEF InCache, Caches
      <3>3. takenBar[p] = ValueIn(data[file[p]])
        BY <1>4 DEF takenBar
      <3>4. QED BY <3>1, <3>2, <3>3
    <2>2. got[p] = data[file[p]]
      <3>1. got[p] \in Pieces /\ data[file[p]] \in Pieces
        BY <1>1 DEF TypeOK
      <3>2. \A j \in 1..Parts : got[p][j] = data[file[p]][j]
        BY <2>1 DEF Settled
      <3>3. QED BY <3>1, <3>2 DEF Pieces
    <2>3. CASE \E v \in Values : got[p] = Filled(v)
      <3>1. PICK v \in Values : got[p] = Filled(v)
        BY <2>3
      <3>2. got[p][1] = v /\ \A j \in 1..Parts : got[p][j] # Binary
        BY <3>1, FilledIsText
      <3>3. a = v
        BY <3>1, <3>2 DEF Loaded
      <3>4. takenBar[p] = v /\ v \notin {NotTaken, NoBlob}
        BY <2>1, <2>2, <3>1, <3>2 DEF ValueIn
      <3>5. QED BY <1>1, <1>2, <2>1, <3>3, <3>4 DEF Blobs!Reply
    <2>4. CASE ~ \E v \in Values : got[p] = Filled(v)
      <3>1. a = Raised \/ a = Miss
        BY <2>1, <2>4 DEF Loaded, Unreadable
      <3>2. QED BY <1>1, <1>2, <2>1, <3>1 DEF Blobs!ReplyMiss, Blobs!Refuse
    <2>5. QED BY <2>3, <2>4
  <1>5. QED BY <1>3, <1>4

(* A call on a cache begins a call on the map.                               *)
LEMMA BeginRefines ==
  ASSUME IInv, NEW p \in Procs, NEW c \in Calls, Begin(p, c)
  PROVE  (c \in Blobs!Calls /\ Blobs!Call(p, c)) \/ UNCHANGED Blobs!vars
  <1> USE DEF IInv, Begin, disk
  <1>1. c.key \in Keys /\ call[p] = NoCall /\ c # NoCall /\ ~ InCache(p)
    BY CallShape DEF Phase, InCache
  <1>2. blobBar' = blobBar
    BY BlobsStay
  <1>3. takenBar' = takenBar
    BY <1>1 DEF takenBar, TypeOK, InCache, Key, ValueIn
  <1>4. CASE c.key \in Caches
    <2>1. c \in Blobs!Calls
      BY <1>4 DEF Calls, Blobs!Calls
    <2>2. callBar[p] = NoCall /\ callBar' = [callBar EXCEPT ![p] = c]
      BY <1>1, <1>4 DEF callBar, TypeOK, InCache, Key
    <2>3. answerBar' = [answerBar EXCEPT ![p][c.key] = Pending]
      BY <1>1, <1>4 DEF answerBar, TypeOK, Caches
    <2>4. QED BY <1>2, <1>3, <2>1, <2>2, <2>3 DEF Blobs!Call
  <1>5. CASE c.key \notin Caches
    <2>1. callBar' = callBar
      BY <1>1, <1>5 DEF callBar, TypeOK, InCache, Key
    <2>2. answerBar' = answerBar
      BY <1>1, <1>5 DEF answerBar, TypeOK, Caches
    <2>3. QED BY <1>2, <1>3, <2>1, <2>2 DEF Blobs!vars
  <1>6. QED BY <1>4, <1>5

(* Damage to a cache's file loses the blob.                                  *)
LEMMA DamageRefines ==
  ASSUME IInv, NEW k \in Keys, Damage(k)
  PROVE  (k \in Caches /\ Blobs!Lose(k)) \/ UNCHANGED Blobs!vars
  <1> USE DEF IInv, Damage
  <1>0. PICK d \in Damages : data' = [data EXCEPT ![path[k]] = Filled(d)]
    OBVIOUS
  <1>1. UNCHANGED <<callBar, answerBar>>
    BY DEF callBar, answerBar, InCache, Key
  <1>2. takenBar' = takenBar
    <2>1. \A q \in Procs : file[q] # path[k] => data'[file[q]] = data[file[q]]
                           \/ file[q] \notin Inodes
      BY <1>0 DEF TypeOK
    <2>2. QED BY <2>1, TakenStays DEF Phase, InCache, Key
  <1>3. CASE k \in Caches
    <2>1. ValueIn(Filled(d)) = NoBlob
      <3>1. \A v \in Values : Filled(d) # Filled(v)
        BY FilledIsText
      <3>2. QED BY <3>1 DEF ValueIn
    <2>2. blobBar' = [blobBar EXCEPT ![k] = NoBlob]
      <3>1. \A l \in Caches : l # k /\ path[l] # NoFile => data'[path[l]] = data[path[l]]
        BY <1>0 DEF OnePath, TypeOK, Caches
      <3>2. data'[path[k]] = Filled(d)
        BY <1>0 DEF TypeOK
      <3>3. QED BY <1>3, <2>1, <3>1, <3>2 DEF blobBar, ValueIn
    <2>3. QED BY <1>1, <1>2, <1>3, <2>2 DEF Blobs!Lose
  <1>4. CASE k \notin Caches
    <2>1. blobBar' = blobBar
      BY <1>0, <1>4, BlobsStay DEF OnePath, TypeOK, Caches
    <2>2. QED BY <1>1, <1>2, <2>1 DEF Blobs!vars
  <1>5. QED BY <1>3, <1>4

(* Every step of the files is a step of the map, or nothing to it.           *)
LEMMA StepRefines == IInv /\ [Next]_vars => [Blobs!Next]_Blobs!vars
  <1> SUFFICES ASSUME IInv, [Next]_vars PROVE Blobs!Next \/ UNCHANGED Blobs!vars
    BY DEF Blobs!vars
  <1>1. ASSUME NEW p \in Procs, NEW c \in Calls, Begin(p, c)
        PROVE  Blobs!Next \/ UNCHANGED Blobs!vars
    BY <1>1, BeginRefines DEF Blobs!Next
  <1>2. ASSUME NEW p \in Procs,
               MakeTemp(p) \/ OpenInPlace(p) \/ WritePart(p) \/ WriteFails(p) \/ ReadPart(p)
        PROVE  UNCHANGED Blobs!vars
    BY <1>2, WriterRefines
  <1>3. ASSUME NEW p \in Procs, Replace(p) \/ Open(p) \/ Load(p)
        PROVE  Blobs!Next \/ UNCHANGED Blobs!vars
    BY <1>3, ReplaceRefines, OpenRefines, LoadRefines DEF Blobs!Next
  <1>4. ASSUME NEW p \in Procs,
               WroteInPlace(p) \/ PutFails(p) \/ Unlink(p) \/ ReadFails(p) \/ Kill(p)
               \/ (Exists(p) /\ path[Key(p)] = NoFile)
        PROVE  Blobs!Next \/ UNCHANGED Blobs!vars
    BY <1>4, EndRefines DEF Blobs!Next
  <1>5. ASSUME NEW p \in Procs, Exists(p), path[Key(p)] # NoFile
        PROVE  UNCHANGED Blobs!vars
    <2>1. Goto(p, "open", NoFile, 1) /\ UNCHANGED <<path, data>> /\ pc[p] = "exists"
      BY <1>5 DEF Exists, disk
    <2>2. UNCHANGED <<callBar, answerBar>> /\ blobBar' = blobBar
      BY <2>1, GotoRefines, BlobsStay
    <2>3. takenBar' = takenBar
      BY <2>1, TakenStays DEF Goto, IInv, TypeOK, InCache, Key
    <2>4. QED BY <2>2, <2>3 DEF Blobs!vars
  <1>6. ASSUME NEW k \in Keys, Damage(k) PROVE Blobs!Next \/ UNCHANGED Blobs!vars
    BY <1>6, DamageRefines DEF Blobs!Next
  <1>7. CASE UNCHANGED vars
    BY <1>7 DEF vars, disk, Blobs!vars, blobBar, callBar, takenBar, answerBar, InCache, Key, ValueIn
  <1>8. QED BY <1>1, <1>2, <1>3, <1>4, <1>5, <1>6, <1>7 DEF Next, Step

(* _atomic_write_text, with os.replace and mkstemp for any number of callers *)
(* of any number of keys: the caches' directory implements the atomic map.   *)
THEOREM ImplementsBlobStore == Spec => ActsAsBlobStore
  <1>1. Init => Blobs!Init
    BY DEF Init, Blobs!Init, blobBar, callBar, takenBar, answerBar, InCache, Caches
  <1>2. QED BY Invariance, StepRefines, <1>1, PTL DEF Spec, ActsAsBlobStore, Blobs!Spec
============================================================================
