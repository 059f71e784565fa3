------------------------------ MODULE TensorShm ------------------------------
(***************************************************************************)
(* kachedb.tensor: attach_shm, read_tensor and detach_all, called by       *)
(* threads that share the module's _shm_cache and, through it, the mapped  *)
(* files.                                                                  *)
(*                                                                         *)
(* An mmap object has one file position, which seek sets and read          *)
(* advances, whichever thread calls them.  close raises while an array     *)
(* shows the mapping, and an object nobody refers to is collected.         *)
(*                                                                         *)
(* Memory is in units of 64 bytes, the size of a descriptor.  The server   *)
(* (outside) makes the file of a core, takes it away when it stops, and    *)
(* makes another one when it starts again; files are numbered in the order *)
(* they were made.  A view is an array read_tensor returned.               *)
(***************************************************************************)
EXTENDS Integers, FiniteSets, FiniteSetsExt, Functions

CONSTANTS
  Threads,    \* the threads that read
  Closer,     \* the one of them that also calls detach_all
  Cores,      \* core_id
  Calls,      \* the arguments of read_tensor: [core, offset, size]
  Blocks,     \* Blocks[o]: units of the payload behind the descriptor at o
  FileUnits,  \* units of a file
  Maps,       \* identities of mmap objects
  None,
  MaxFiles    \* bound: files the server makes

ASSUME ShmAssumption ==
  /\ Closer \in Threads /\ IsFiniteSet(Cores)
  /\ Calls \subseteq [core : Cores, offset : DOMAIN Blocks, size : Nat]
  /\ FileUnits \in Nat /\ MaxFiles \in Nat
  /\ \A o \in DOMAIN Blocks : o \in Nat /\ Blocks[o] \in Nat \ {0}
  /\ None \notin Maps /\ None \notin Cores
  \* There is always an object that nobody refers to.
  /\ IsFiniteSet(Threads) /\ IsFiniteSet(Maps)
  /\ Cardinality(Maps) > Cardinality(Cores) + 2 * Cardinality(Threads)

VARIABLES
  file,    \* file[c]: the file at /dev/shm/kachedb_{c}, 0 if there is none
  made,    \* how many files the server has made
  cache,   \* _shm_cache: a function on the cores with an entry
  map,     \* map[m]: the state of mmap object m
  pc,      \* pc[t]: the next step of thread t
  call,    \* call[t]: the arguments of t's read_tensor
  fd,      \* fd[t]: the file t has opened, 0 if none
  shm,     \* shm[t]: the local variable
  header,  \* header[t]: header_bytes: the place they were read at
  view,    \* view[t]: the mapping shown by the array t's last call returned
  left,    \* the cores detach_all has still to close
  count,   \* the entries _shm_cache had when detach_all began its loop
  raised,  \* history: detach_all's loop raised, the cache was not cleared since
  floor,   \* history: the oldest file of a core that may be shown
  late     \* history: threads whose call runs since before the cache was cleared

vars ==
  <<file, made, cache, map, pc, call, fd, shm, header, view, left, count, raised, floor, late>>

server == <<file, made>>
closing == <<left, count, raised>>

NoCall == [core |-> None, offset |-> None, size |-> None]

Unmapped == [file |-> 0, size |-> 0, pos |-> 0, open |-> FALSE]

Viewed == Range(view) \ {None}

Referenced == (Range(cache) \cup Range(shm) \cup Viewed) \ {None}

Init ==
  /\ file = [c \in Cores |-> 0] /\ made = 0
  /\ cache = <<>>
  /\ map = [m \in Maps |-> Unmapped]
  /\ pc = [t \in Threads |-> "idle"]
  /\ call = [t \in Threads |-> NoCall]
  /\ fd = [t \in Threads |-> 0]
  /\ shm = [t \in Threads |-> None]
  /\ header = [t \in Threads |-> None]
  /\ view = [t \in Threads |-> None]
  /\ left = {} /\ count = 0 /\ raised = FALSE
  /\ floor = [c \in Cores |-> 0] /\ late = {}

-----------------------------------------------------------------------------
(* the server and the application *)

MakeFile(c) ==
  /\ file[c] = 0 /\ made < MaxFiles
  /\ made' = made + 1
  /\ file' = [file EXCEPT ![c] = made + 1]
  /\ UNCHANGED <<cache, map, pc, call, fd, shm, header, view, closing, floor, late>>

RemoveFile(c) ==
  /\ file[c] # 0
  /\ file' = [file EXCEPT ![c] = 0]
  /\ UNCHANGED <<made, cache, map, pc, call, fd, shm, header, view, closing, floor, late>>

\* The application drops an array.
DropView(t) ==
  /\ pc[t] = "idle" /\ view[t] # None
  /\ view' = [view EXCEPT ![t] = None]
  /\ UNCHANGED <<server, cache, map, pc, call, fd, shm, header, closing, floor, late>>

-----------------------------------------------------------------------------
(* attach_shm *)

Goto(t, label) == pc' = [pc EXCEPT ![t] = label]

\* The call is over: it returned the array v, or it raised and the array of the
\* call before is still there.
Over(t, v) ==
  /\ Goto(t, "idle")
  /\ call' = [call EXCEPT ![t] = NoCall]
  /\ shm' = [shm EXCEPT ![t] = None]
  /\ header' = [header EXCEPT ![t] = None]
  /\ fd' = [fd EXCEPT ![t] = 0]
  /\ late' = late \ {t}
  /\ view' = [view EXCEPT ![t] = v]

Raise(t) == Over(t, view[t]) /\ UNCHANGED <<server, cache, map, closing, floor>>

\* read_tensor is called, and attach_shm asks whether the path has an entry.  The
\* path is the whole key: the size of the mapping is not compared.
Lookup(t) ==
  /\ pc[t] = "idle"
  /\ \E a \in Calls :
       /\ call' = [call EXCEPT ![t] = a]
       /\ Goto(t, IF a.core \in DOMAIN cache THEN "cached" ELSE "open")
  /\ UNCHANGED <<server, cache, map, fd, shm, header, view, closing, floor, late>>

\* The entry is read again to be returned.
Cached(t) ==
  /\ pc[t] = "cached"
  /\ call[t].core \in DOMAIN cache
  /\ shm' = [shm EXCEPT ![t] = cache[call[t].core]]
  /\ Goto(t, "seek")
  /\ UNCHANGED <<server, cache, map, call, fd, header, view, closing, floor, late>>

\* detach_all has cleared the cache in between: KeyError.
CachedGone(t) ==
  /\ pc[t] = "cached"
  /\ call[t].core \notin DOMAIN cache
  /\ Raise(t)

\* FileNotFoundError: attach_shm's own, or os.open's when the file has gone since
\* attach_shm asked.
NotFound(t) ==
  /\ pc[t] = "open"
  /\ file[call[t].core] = 0
  /\ Raise(t)

\* Mutant: os.open creates a file that is missing.
OpenCreating(t) ==
  /\ pc[t] = "open"
  /\ fd' = [fd EXCEPT ![t] = file[call[t].core]]
  /\ Goto(t, "map")
  /\ UNCHANGED <<server, cache, map, call, shm, header, view, closing, floor, late>>

Open(t) ==
  /\ pc[t] = "open"
  /\ file[call[t].core] # 0
  /\ fd' = [fd EXCEPT ![t] = file[call[t].core]]
  /\ Goto(t, "map")
  /\ UNCHANGED <<server, cache, map, call, shm, header, view, closing, floor, late>>

\* The opened file is mapped, whether it is still at the path or not.
Map(t) ==
  /\ pc[t] = "map"
  /\ call[t].size <= FileUnits
  /\ LET m == CHOOSE n \in Maps : n \notin Referenced
     IN  /\ map' = [map EXCEPT ![m] = [file |-> fd[t], size |-> call[t].size, pos |-> 0, open |-> TRUE]]
         /\ shm' = [shm EXCEPT ![t] = m]
  /\ Goto(t, "store")
  /\ UNCHANGED <<server, cache, call, fd, header, view, closing, floor, late>>

\* mmap raises: the file is shorter than size_bytes.
MapFails(t) ==
  /\ pc[t] = "map"
  /\ call[t].size > FileUnits
  /\ Raise(t)

\* The mapping becomes the path's entry, also if another thread has made one.
Store(t) ==
  /\ pc[t] = "store"
  /\ cache' = [c \in DOMAIN cache \cup {call[t].core} |->
                 IF c = call[t].core THEN shm[t] ELSE cache[c]]
  /\ fd' = [fd EXCEPT ![t] = 0]
  /\ Goto(t, "seek")
  /\ UNCHANGED <<server, map, call, shm, header, view, closing, floor, late>>

-----------------------------------------------------------------------------
(* read_tensor *)

Seek(t) ==
  /\ pc[t] = "seek"
  /\ map[shm[t]].open /\ call[t].offset <= map[shm[t]].size
  /\ map' = [map EXCEPT ![shm[t]].pos = call[t].offset]
  /\ Goto(t, "read")
  /\ UNCHANGED <<server, cache, call, fd, shm, header, view, closing, floor, late>>

\* The mapping is closed, or ends before the offset.
SeekFails(t) ==
  /\ pc[t] = "seek"
  /\ ~map[shm[t]].open \/ call[t].offset > map[shm[t]].size
  /\ Raise(t)

\* The descriptor is read at the mapping's position, wherever that is by now.
ReadHeader(t) ==
  /\ pc[t] = "read"
  /\ map[shm[t]].open /\ map[shm[t]].pos < map[shm[t]].size
  /\ header' = [header EXCEPT ![t] = map[shm[t]].pos]
  /\ map' = [map EXCEPT ![shm[t]].pos = @ + 1]
  /\ Goto(t, "view")
  /\ UNCHANGED <<server, cache, call, fd, shm, view, closing, floor, late>>

\* A closed mapping, or fewer than 64 bytes before its end.
ReadHeaderFails(t) ==
  /\ pc[t] = "read"
  /\ ~map[shm[t]].open \/ map[shm[t]].pos >= map[shm[t]].size
  /\ Raise(t)

\* Only a descriptor has the magic, and only what the mapping holds is shown.
Valid(t) ==
  /\ header[t] \in DOMAIN Blocks
  /\ map[shm[t]].open
  /\ call[t].offset + 1 + Blocks[header[t]] <= map[shm[t]].size

\* The array shows the payload behind the caller's offset, as long as the header
\* says.
View(t) ==
  /\ pc[t] = "view"
  /\ Valid(t)
  /\ Over(t, shm[t])
  /\ UNCHANGED <<server, cache, map, closing, floor>>

\* ValueError: no magic, a closed mapping, a payload longer than the mapping.
ViewFails(t) ==
  /\ pc[t] = "view"
  /\ ~Valid(t)
  /\ Raise(t)

-----------------------------------------------------------------------------
(* detach_all *)

Detach ==
  /\ pc[Closer] = "idle"
  /\ Goto(Closer, "detach")
  /\ left' = DOMAIN cache
  /\ count' = Cardinality(DOMAIN cache)
  /\ UNCHANGED <<server, cache, map, call, fd, shm, header, view, raised, floor, late>>

\* Mutant: what close raises is not suppressed.
DetachNextUnsuppressed ==
  /\ pc[Closer] = "detach"
  /\ Cardinality(DOMAIN cache) = count
  /\ \E c \in left :
       IF cache[c] \in Viewed
         THEN Goto(Closer, "idle") /\ left' = {} /\ UNCHANGED map
         ELSE map' = [map EXCEPT ![cache[c]].open = FALSE] /\ left' = left \ {c} /\ UNCHANGED pc
  /\ UNCHANGED <<server, cache, call, fd, shm, header, view, count, raised, floor, late>>

\* One turn of the loop: close, which raises and does nothing while an array
\* shows the mapping.
DetachNext ==
  /\ pc[Closer] = "detach"
  /\ Cardinality(DOMAIN cache) = count
  /\ \E c \in left :
       /\ map' = IF cache[c] \in Viewed THEN map ELSE [map EXCEPT ![cache[c]].open = FALSE]
       /\ left' = left \ {c}
  /\ UNCHANGED <<server, cache, pc, call, fd, shm, header, view, count, raised, floor, late>>

DetachLast ==
  /\ pc[Closer] = "detach"
  /\ Cardinality(DOMAIN cache) = count /\ left = {}
  /\ Goto(Closer, "clear")
  /\ UNCHANGED <<server, cache, map, call, fd, shm, header, view, closing, floor, late>>

\* Another thread has stored an entry: RuntimeError, the dictionary changed size.
DetachRaises ==
  /\ pc[Closer] = "detach"
  /\ Cardinality(DOMAIN cache) # count
  /\ Goto(Closer, "idle")
  /\ left' = {} /\ count' = 0 /\ raised' = TRUE
  /\ UNCHANGED <<server, cache, map, call, fd, shm, header, view, floor, late>>

\* The files that threads have opened and not stored the mapping of.
InTheMaking(c) == {fd[t] : t \in {u \in Threads : fd[u] # 0 /\ call[u].core = c}}

\* Mutant: the entries are closed and kept.
ClearForgotten ==
  /\ pc[Closer] = "clear"
  /\ raised' = FALSE /\ count' = 0
  /\ floor' = [c \in Cores |->
                 Min({IF file[c] = 0 THEN made + 1 ELSE file[c]} \cup InTheMaking(c))]
  /\ late' = {t \in Threads \ {Closer} : pc[t] # "idle"}
  /\ Goto(Closer, "idle")
  /\ UNCHANGED <<server, cache, map, call, fd, shm, header, view, left>>

Clear ==
  /\ pc[Closer] = "clear"
  /\ cache' = <<>>
  /\ raised' = FALSE /\ count' = 0
  /\ floor' = [c \in Cores |->
                 Min({IF file[c] = 0 THEN made + 1 ELSE file[c]} \cup InTheMaking(c))]
  /\ late' = {t \in Threads \ {Closer} : pc[t] # "idle"}
  /\ Goto(Closer, "idle")
  /\ UNCHANGED <<server, map, call, fd, shm, header, view, left>>

-----------------------------------------------------------------------------
ReadTensor(t) ==
  \/ Lookup(t) \/ Cached(t) \/ CachedGone(t) \/ NotFound(t) \/ Open(t)
  \/ Map(t) \/ MapFails(t) \/ Store(t) \/ Seek(t) \/ SeekFails(t)
  \/ ReadHeader(t) \/ ReadHeaderFails(t) \/ View(t) \/ ViewFails(t)

DetachAll == Detach \/ DetachNext \/ DetachLast \/ DetachRaises \/ Clear

Next ==
  \/ \E t \in Threads : ReadTensor(t) \/ DropView(t)
  \/ DetachAll
  \/ \E c \in Cores : MakeFile(c) \/ RemoveFile(c)

Spec == Init /\ [][Next]_vars

-----------------------------------------------------------------------------
\* The state is well formed; a mapping that an array shows is mapped, whatever
\* detach_all has done.
TypeOK ==
  /\ made \in 0 .. MaxFiles /\ \A c \in Cores : file[c] \in 0 .. made
  /\ DOMAIN cache \subseteq Cores
  /\ \A c \in DOMAIN cache : cache[c] \in Maps /\ map[cache[c]].file # 0
  /\ \A t \in Threads : shm[t] \in Maps \cup {None} /\ fd[t] \in 0 .. made
  /\ \A m \in Maps : map[m].pos \in 0 .. map[m].size
  /\ \A m \in Viewed : map[m].open

\* A call made after detach_all shows no file older than the one that was there then
\* (or that some thread was mapping at that moment): how a client gets at the
\* memory of a server that was started again.
ShowsPresentFile ==
  [][\A t \in Threads : View(t) /\ t \notin late => map[shm[t]].file >= floor[call[t].core]]_vars

\* A closed mapping is an entry only while detach_all runs, and after it has
\* raised because of an entry stored meanwhile: otherwise every read of the core
\* would raise until the next detach_all.
ClosedIsForgotten ==
  \A c \in DOMAIN cache :
    map[cache[c]].open \/ raised \/ pc[Closer] \in {"detach", "clear"}

\* detach_all closes all mappings and leaves none in the cache, as its description has
\* it: a closed mapping is an entry only while it runs.
NoneLeftClosed ==
  \A c \in DOMAIN cache : map[cache[c]].open \/ pc[Closer] \in {"detach", "clear"}

\* The array that a call returns is described by the descriptor at the caller's own
\* offset, as read_tensor's description has it.
OwnDescriptor == [][\A t \in Threads : View(t) => header[t] = call[t].offset]_vars

\* An attached mapping has the size that was asked for: the comment on _shm_cache
\* has the size in its key.
SizeAsAsked ==
  \A t \in Threads : pc[t] \in {"seek", "read", "view"} => map[shm[t]].size = call[t].size
=============================================================================
