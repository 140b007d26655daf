----------------------------- MODULE BufferPool -----------------------------
(***************************************************************************)
(* libavutil/buffer.c: reference-counted buffers, and pools that get the   *)
(* data of their buffers back when the last reference is dropped.  Threads *)
(* share a pool and pass references to one another; counts are atomic,     *)
(* and the list of a pool is under its mutex.                              *)
(*                                                                         *)
(* A step is an access to a count or a critical section, with what the     *)
(* thread does to memory that is its own.                                  *)
(***************************************************************************)
EXTENDS Integers, Sequences, FiniteSets

CONSTANTS Threads,
          MaxBuffers,  \* bound: AVBuffers that exist at once
          MaxRefs,     \* bound: references to one AVBuffer
          MaxBlocks    \* bound: blocks of memory that are allocated at once

ASSUME BufferAssumption == /\ IsFiniteSet(Threads)
                           /\ MaxBuffers \in Nat \ {0} /\ MaxRefs \in Nat \ {0}
                           /\ MaxBlocks \in Nat \ {0}

Buffers == 1 .. MaxBuffers
Data == 1 .. MaxBlocks   \* addresses of blocks, which are used again

VARIABLES
  pc,        \* pc[t]: where thread t is
  arg,       \* arg[t]: the AVBuffer it works on
  refs,      \* refs[t][b]: references to b that t owns
  buffer,    \* the AVBuffers
  allocated, \* the blocks of memory that have not been freed
  handle,    \* the users' pointer to the pool has not been passed to uninit
  alive,     \* the pool has not been freed
  refcount,  \* pool->refcount
  listed     \* pool->pool, the entries that wait to be used again

vars == <<pc, arg, refs, buffer, allocated, handle, alive, refcount, listed>>
pool == <<handle, alive, refcount, listed>>

None == [data |-> 0, refcount |-> 0, pooled |-> FALSE, flags |-> {}]
Flags == {{}, {"READONLY"}, {"REALLOCATABLE"}}

Init == /\ pc = [t \in Threads |-> "idle"]
        /\ arg = [t \in Threads |-> 0]
        /\ refs = [t \in Threads |-> [b \in Buffers |-> 0]]
        /\ buffer = [b \in Buffers |-> None]
        /\ allocated = {}
        /\ handle = TRUE /\ alive = TRUE /\ refcount = 1 /\ listed = <<>>

(* Memory for a buffer and for its data, where there is some. *)
Unused == {b \in Buffers : buffer[b] = None}
Slot == CHOOSE b \in Buffers : b \in Unused
Block == CHOOSE d \in Data : d \notin allocated
Listed == {listed[k] : k \in DOMAIN listed}
Goto(t, label, b) == pc' = [pc EXCEPT ![t] = label] /\ arg' = [arg EXCEPT ![t] = b]
-----------------------------------------------------------------------------
(* A new AVBuffer in the place of an unused one, with its first reference. *)
Born(data, pooled, flags) ==
  buffer' = [buffer EXCEPT ![Slot] = [data |-> data, refcount |-> 1,
                                      pooled |-> pooled, flags |-> flags]]

(* av_buffer_create and _alloc, and av_buffer_realloc of nothing. *)
Create(t, flags) ==
  /\ pc[t] = "idle" /\ Unused # {} /\ Data # allocated
  /\ allocated' = allocated \cup {Block}
  /\ Born(Block, FALSE, flags)
  /\ refs' = [refs EXCEPT ![t][Slot] = 1]
  /\ UNCHANGED <<pc, arg, pool>>

(* av_buffer_ref. *)
Ref(t, b) ==
  /\ pc[t] = "idle" /\ refs[t][b] > 0 /\ buffer[b].refcount < MaxRefs
  /\ refs' = [refs EXCEPT ![t][b] = @ + 1]
  /\ buffer' = [buffer EXCEPT ![b].refcount = @ + 1]
  /\ UNCHANGED <<pc, arg, allocated, pool>>

(* A reference is handed to another thread, in a frame or in a packet. *)
Pass(t, u, b) ==
  /\ pc[t] = "idle" /\ refs[t][b] > 0 /\ u # t
  /\ refs' = [refs EXCEPT ![t][b] = @ - 1, ![u][b] = @ + 1]
  /\ UNCHANGED <<pc, arg, buffer, allocated, pool>>

(* buffer_replace with nothing: the last reference frees the data.  Only   *)
(* the value that the decrement returns says which one was the last.       *)
DropCount(t, b) == Goto(t, IF buffer[b].refcount = 1 THEN "free" ELSE "idle", b)

Unref(t, b) ==
  /\ pc[t] = "idle" /\ refs[t][b] > 0
  /\ refs' = [refs EXCEPT ![t][b] = @ - 1]
  /\ buffer' = [buffer EXCEPT ![b].refcount = @ - 1]
  /\ DropCount(t, b)
  /\ UNCHANGED <<allocated, pool>>

(* Mutant of IsWritable: two references are few enough. *)
IsWritableShared(b) == "READONLY" \notin buffer[b].flags /\ buffer[b].refcount <= 2

(* av_buffer_is_writable. *)
IsWritable(b) == "READONLY" \notin buffer[b].flags /\ buffer[b].refcount = 1

(* av_buffer_make_writable; a caller that gets a writable buffer writes to *)
(* it afterwards.                                                          *)
MakeWritable(t, b) ==
  /\ pc[t] = "idle" /\ refs[t][b] > 0
  /\ Goto(t, IF IsWritable(b) THEN "write" ELSE "copy", b)
  /\ UNCHANGED <<refs, buffer, allocated, pool>>

(* av_buffer_realloc: the block itself is moved only when nobody else      *)
(* looks at it and it came from av_realloc, and not when the reference is  *)
(* to a part of it.                                                        *)
Realloc(t, b) ==
  /\ pc[t] = "idle" /\ refs[t][b] > 0
  /\ \/ /\ IsWritable(b) /\ "REALLOCATABLE" \in buffer[b].flags
        /\ Goto(t, "move", b)
     \/ Goto(t, "recopy", b)
  /\ UNCHANGED <<refs, buffer, allocated, pool>>

(* Both, when the buffer is shared: a copy takes the place of the          *)
(* reference, which by then may be the last one.                           *)
Replace(t) ==
  LET b == arg[t] IN
  /\ pc[t] \in {"copy", "recopy"} /\ Unused # {} /\ Data # allocated
  /\ allocated' = allocated \cup {Block}
  /\ refs' = [refs EXCEPT ![t][b] = @ - 1, ![t][Slot] = 1]
  /\ buffer' = [buffer EXCEPT ![b].refcount = @ - 1,
                  ![Slot] = [data |-> Block, refcount |-> 1, pooled |-> FALSE,
                             flags |-> IF pc[t] = "recopy" THEN {"REALLOCATABLE"} ELSE {}]]
  /\ DropCount(t, b)
  /\ UNCHANGED pool

(* There is no memory for the copy, or for the block in its new size. *)
NoMemory(t) == /\ pc[t] \in {"copy", "recopy", "move"} /\ Goto(t, "idle", 0)
               /\ UNCHANGED <<refs, buffer, allocated, pool>>

Write(t) == /\ pc[t] = "write" /\ Goto(t, "idle", 0)
            /\ UNCHANGED <<refs, buffer, allocated, pool>>

Move(t) == /\ pc[t] = "move" /\ Data # allocated
           /\ allocated' = (allocated \ {buffer[arg[t]].data}) \cup {Block}
           /\ buffer' = [buffer EXCEPT ![arg[t]].data = Block]
           /\ Goto(t, "idle", 0)
           /\ UNCHANGED <<refs, pool>>

-----------------------------------------------------------------------------
(* What b->free does: av_buffer_default_free, ... *)
FreeData(t) ==
  /\ pc[t] = "free" /\ ~buffer[arg[t]].pooled
  /\ allocated' = allocated \ {buffer[arg[t]].data}
  /\ buffer' = [buffer EXCEPT ![arg[t]] = None]
  /\ Goto(t, "idle", 0)
  /\ UNCHANGED <<refs, pool>>

(* ... or pool_release_buffer: the entry goes back to the list, ... *)
ReturnEntry(t) ==
  /\ pc[t] = "free" /\ buffer[arg[t]].pooled
  /\ listed' = <<buffer[arg[t]].data>> \o listed
  /\ Goto(t, "returned", arg[t])
  /\ UNCHANGED <<refs, buffer, allocated, handle, alive, refcount>>

(* ... and then the count of the pool goes down. *)

(* Mutant of LastOfPool: the value after the decrement is expected. *)
LastOfPoolLate == refcount = 0

LastOfPool == refcount = 1

DropPool(t, b) ==
  /\ refcount' = refcount - 1
  /\ Goto(t, IF LastOfPool THEN "pool_free" ELSE "idle", 0)

ReleaseEntry(t) ==
  /\ pc[t] = "returned"
  /\ DropPool(t, 0)
  /\ buffer' = [buffer EXCEPT ![arg[t]] = None]
  /\ UNCHANGED <<refs, allocated, handle, alive, listed>>

(* buffer_pool_free: only the entries of the list are freed. *)
PoolFree(t) ==
  /\ pc[t] = "pool_free"
  /\ allocated' = allocated \ Listed
  /\ listed' = <<>> /\ alive' = FALSE
  /\ Goto(t, "idle", 0)
  /\ UNCHANGED <<refs, buffer, handle, refcount>>

(* av_buffer_pool_get: an entry of the list, or a new one; the pool's      *)
(* count goes up after the mutex has been released.  The users' pointer is *)
(* theirs during the call.                                                 *)
PoolGet(t) ==
  /\ pc[t] = "idle" /\ handle /\ Unused # {}
  /\ \/ /\ listed # <<>> /\ listed' = Tail(listed)
        /\ Born(Head(listed), TRUE, {})
        /\ UNCHANGED allocated
     \/ /\ listed = <<>> /\ Data # allocated
        /\ allocated' = allocated \cup {Block}
        /\ Born(Block, TRUE, {})
        /\ UNCHANGED listed
  /\ Goto(t, "got", Slot)
  /\ UNCHANGED <<refs, handle, alive, refcount>>

(* Mutant of Got: the pool does not count the buffer. *)
GotUncounted(t) ==
  /\ pc[t] = "got"
  /\ refs' = [refs EXCEPT ![t][arg[t]] = 1]
  /\ Goto(t, "idle", 0)
  /\ UNCHANGED <<buffer, allocated, pool>>

Got(t) ==
  /\ pc[t] = "got"
  /\ refcount' = refcount + 1
  /\ refs' = [refs EXCEPT ![t][arg[t]] = 1]
  /\ Goto(t, "idle", 0)
  /\ UNCHANGED <<buffer, allocated, handle, alive, listed>>

(* av_buffer_pool_uninit, once, when no thread is asking for a buffer. *)
PoolUninit(t) ==
  /\ pc[t] = "idle" /\ handle /\ \A u \in Threads : pc[u] # "got"
  /\ handle' = FALSE
  /\ DropPool(t, 0)
  /\ UNCHANGED <<refs, buffer, allocated, alive, listed>>

Finish(t) == Write(t) \/ Replace(t) \/ NoMemory(t) \/ Move(t) \/ FreeData(t) \/ ReturnEntry(t)
             \/ ReleaseEntry(t) \/ PoolFree(t) \/ Got(t)

Next == \E t \in Threads :
          \/ \E flags \in Flags : Create(t, flags)
          \/ \E b \in Buffers : \/ Ref(t, b) \/ Unref(t, b) \/ MakeWritable(t, b)
                                \/ Realloc(t, b) \/ \E u \in Threads : Pass(t, u, b)
          \/ PoolGet(t) \/ PoolUninit(t) \/ Finish(t)

Spec == Init /\ [][Next]_vars
-----------------------------------------------------------------------------
(* The references to a buffer, and how many there are. *)
References(b) == {r \in Threads \X (1 .. MaxRefs) : r[2] <= refs[r[1]][b]}
Owned(b) == Cardinality(References(b))
Live == {b \in Buffers : buffer[b] # None}

(* Nothing is used after it has been freed: the data of every buffer that  *)
(* somebody refers to or is getting, and every entry of the pool's list,   *)
(* are allocated and belong to one place, and the pool is there for every  *)
(* thread that is inside one of its functions and for every buffer that    *)
(* will be returned to it; the thread that frees it is alone.              *)
InPool == {t \in Threads : pc[t] \in {"got", "returned", "pool_free"}}
NoUseAfterFree ==
  /\ \A b \in Live : (Owned(b) > 0 \/ \E t \in Threads : pc[t] = "got" /\ arg[t] = b) =>
       /\ buffer[b].data \in allocated \ Listed
       /\ \A c \in Live : c # b => buffer[c].data # buffer[b].data
                                  \/ Owned(c) = 0
       /\ buffer[b].pooled => alive /\ refcount > 0
  /\ Listed \subseteq allocated /\ Cardinality(Listed) = Len(listed)
  /\ handle \/ InPool # {} => alive
  /\ \A t \in Threads : pc[t] = "pool_free" => InPool = {t} /\ ~handle

(* A thread that has found its buffer writable is the only one with a      *)
(* reference to it until it has written: the check is made without a lock, *)
(* and other threads take and drop references in the meantime.             *)
WritableExclusive ==
  \A t \in Threads : pc[t] \in {"write", "move"} =>
    /\ refs[t][arg[t]] = 1 /\ Owned(arg[t]) = 1
    /\ buffer[arg[t]].data \in allocated \ Listed

(* When the references are gone and the pool has been given up, all the    *)
(* memory has been freed, in whatever order uninit and the releases came;  *)
(* until then the pool is kept.                                            *)
Quiet == \A t \in Threads : pc[t] = "idle" /\ \A b \in Buffers : refs[t][b] = 0
AllFreed == Quiet => IF handle THEN alive /\ allocated = Listed
                     ELSE ~alive /\ allocated = {}
=============================================================================
