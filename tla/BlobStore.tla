----------------------------- MODULE BlobStore -----------------------------
(***************************************************************************)
(* What a flat content-addressed store promises its callers: a map from    *)
(* keys to blobs.  A put takes effect in one instant between its call and  *)
(* its return or, if it raises or its process dies, maybe not at all; a    *)
(* get answers a blob that the key really held at some instant of the      *)
(* call, or a miss.  A cache may lose a blob; it may never make one up.    *)
(***************************************************************************)
CONSTANTS
  Keys, Values, Procs,
  Holds,              \* Holds[k]: what may be put under k
  NoBlob,             \* the key holds nothing
  NotTaken,           \* the get has not looked yet
  NoCall,             \* the process is not inside the store
  Miss, Done, Raised, \* answers other than a value
  Pending             \* no answer yet, or the process died before it

VARIABLES
  blob,    \* blob[k]: a value or NoBlob
  call,    \* call[p]: the put or the get p is in, or NoCall
  taken,   \* taken[p]: what the get of p saw
  answer   \* answer[p][k]: what p's last call on k returned

vars == <<blob, call, taken, answer>>

Calls ==
  (UNION {[op : {"put"}, key : {k}, value : Holds[k]] : k \in Keys}) \cup [op : {"get"}, key : Keys]

Init ==
  /\ blob = [k \in Keys |-> NoBlob]
  /\ call = [p \in Procs |-> NoCall]
  /\ taken = [p \in Procs |-> NotTaken]
  /\ answer = [p \in Procs |-> [k \in Keys |-> Pending]]

Call(p, c) ==
  /\ call[p] = NoCall
  /\ call' = [call EXCEPT ![p] = c]
  /\ answer' = [answer EXCEPT ![p][c.key] = Pending]
  /\ UNCHANGED <<blob, taken>>

Return(p, a) ==
  /\ call' = [call EXCEPT ![p] = NoCall]
  /\ taken' = [taken EXCEPT ![p] = NotTaken]
  /\ answer' = [answer EXCEPT ![p][call[p].key] = a]

Commit(p) ==
  /\ call[p] # NoCall /\ call[p].op = "put"
  /\ blob' = [blob EXCEPT ![call[p].key] = call[p].value]
  /\ Return(p, Done)

\* A call that raises: no room, no permission, or bytes that are no text.
Refuse(p) ==
  /\ call[p] # NoCall
  /\ Return(p, Raised)
  /\ UNCHANGED blob

Take(p) ==
  /\ call[p] # NoCall /\ call[p].op = "get" /\ taken[p] = NotTaken
  /\ taken' = [taken EXCEPT ![p] = blob[call[p].key]]
  /\ UNCHANGED <<blob, call, answer>>

Reply(p) ==
  /\ call[p] # NoCall /\ call[p].op = "get" /\ taken[p] \notin {NotTaken, NoBlob}
  /\ Return(p, taken[p])
  /\ UNCHANGED blob

\* Nothing under the key, or the file could not be read.
ReplyMiss(p) ==
  /\ call[p] # NoCall /\ call[p].op = "get"
  /\ Return(p, Miss)
  /\ UNCHANGED blob

Die(p) ==
  /\ call[p] # NoCall
  /\ Return(p, Pending)
  /\ UNCHANGED blob

Lose(k) ==
  /\ blob' = [blob EXCEPT ![k] = NoBlob]
  /\ UNCHANGED <<call, taken, answer>>

Next ==
  \/ \E p \in Procs :
       \/ \E c \in Calls : Call(p, c)
       \/ Commit(p) \/ Refuse(p) \/ Take(p) \/ Reply(p) \/ ReplyMiss(p) \/ Die(p)
  \/ \E k \in Keys : Lose(k)

Spec == Init /\ [][Next]_vars
============================================================================
