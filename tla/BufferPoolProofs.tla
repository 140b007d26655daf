-------------------------- MODULE BufferPoolProofs --------------------------
(***************************************************************************)
(* Theorems about BufferPool for any set of threads, and any number of     *)
(* buffers, references and blocks of memory.                               *)
(*                                                                         *)
(* The count of a buffer is the number of references to it, except that    *)
(* the one that av_buffer_pool_get is about to hand out counts already;    *)
(* the count of the pool is the number of its buffers, except the ones     *)
(* that are being got, and one for the users' pointer.                     *)
(***************************************************************************)
EXTENDS BufferPool, FiniteSetTheorems, TLAPS

Flag == {"READONLY", "REALLOCATABLE"}
Label == {"idle", "write", "copy", "recopy", "move", "free", "returned", "pool_free", "got"}
AVBuffers == [data : 0 .. MaxBlocks, refcount : 0 .. MaxRefs, pooled : BOOLEAN,
              flags : SUBSET Flag]

(* The ranges: no count leaves its bound. *)
TypeOK ==
  /\ pc \in [Threads -> Label] /\ arg \in [Threads -> 0 .. MaxBuffers]
  /\ refs \in [Threads -> [Buffers -> 0 .. MaxRefs]]
  /\ buffer \in [Buffers -> AVBuffers]
  /\ allocated \subseteq Data
  /\ handle \in BOOLEAN /\ alive \in BOOLEAN /\ refcount \in Nat /\ listed \in Seq(Data)

(* Who has taken b out of the pool, dropped its last reference, or given   *)
(* its data back, and has not finished yet.                                *)
Getting(t, b) == pc[t] = "got" /\ arg[t] = b
Dying(t, b) == pc[t] \in {"free", "returned"} /\ arg[t] = b
Gone(t, b) == pc[t] = "returned" /\ arg[t] = b
BeingGot(b) == \E t \in Threads : Getting(t, b)

(* A thread that works on a buffer finds it as it left it. *)
ThreadInv(t) ==
  /\ pc[t] \notin {"idle", "pool_free"} => arg[t] \in Buffers /\ buffer[arg[t]].data # 0
  /\ pc[t] \in {"copy", "recopy"} => refs[t][arg[t]] > 0
  /\ pc[t] \in {"write", "move"} => refs[t][arg[t]] = 1 /\ buffer[arg[t]].refcount = 1
  /\ pc[t] \in {"free", "returned"} => buffer[arg[t]].refcount = 0
  /\ pc[t] = "returned" => buffer[arg[t]].pooled
  /\ pc[t] = "got" => /\ handle /\ buffer[arg[t]].pooled
                      /\ buffer[arg[t]].refcount = 1 /\ Owned(arg[t]) = 0
  /\ pc[t] = "pool_free" => refcount = 0 /\ alive

(* Only one thread frees a buffer, gets a buffer, or frees the pool. *)
ApartInv(t, u) ==
  t # u => /\ pc[t] \in {"free", "returned", "got"} /\ pc[u] \in {"free", "returned", "got"}
                => arg[t] # arg[u]
           /\ ~(pc[t] = "pool_free" /\ pc[u] = "pool_free")

(* The count of a buffer, and who sees to it that a buffer without         *)
(* references is freed.                                                    *)
CountInv(b) ==
  /\ buffer[b].refcount = Owned(b) \/ BeingGot(b)
  /\ buffer[b].data = 0 => buffer[b] = None
  /\ buffer[b].data # 0 /\ buffer[b].refcount = 0 => \E t \in Threads : Dying(t, b)

(* The data of b is in use: the list of the pool does not have it. *)
Held(b) == buffer[b].data # 0 /\ \A t \in Threads : ~Gone(t, b)
DataInv(b, c) ==
  Held(b) => /\ buffer[b].data \in allocated \ Listed
             /\ Held(c) /\ b # c => buffer[b].data # buffer[c].data
ListInv == /\ Listed \subseteq allocated
           /\ \A j, k \in DOMAIN listed : listed[j] = listed[k] => j = k

(* No block is forgotten. *)
MemoryInv == \A d \in allocated : d \in Listed \/ \E b \in Buffers : Held(b) /\ buffer[b].data = d

(* What keeps the pool. *)
Lent == {b \in Buffers : buffer[b].pooled /\ ~BeingGot(b)}
PoolInv == /\ refcount = Cardinality(Lent) + (IF handle THEN 1 ELSE 0)
           /\ refcount > 0 => alive
           /\ alive \/ listed = <<>>
           /\ refcount = 0 /\ alive => \E t \in Threads : pc[t] = "pool_free"

BufInv == /\ TypeOK
          /\ \A t \in Threads : ThreadInv(t) /\ \A u \in Threads : ApartInv(t, u)
          /\ \A b \in Buffers : CountInv(b) /\ \A c \in Buffers : DataInv(b, c)
          /\ ListInv /\ MemoryInv /\ PoolInv
-----------------------------------------------------------------------------
(* Counting references.                                                    *)
LEMMA ReferencesFinite ==
  ASSUME NEW b \in Buffers
  PROVE  IsFiniteSet(References(b)) /\ Owned(b) \in Nat
<1>1. IsFiniteSet(1 .. MaxRefs) /\ IsFiniteSet(Threads)
  BY BufferAssumption, FS_Interval DEF BufferAssumption
<1>2. IsFiniteSet(Threads \X (1 .. MaxRefs)) /\ References(b) \subseteq Threads \X (1 .. MaxRefs)
  BY <1>1, FS_Product DEF References
<1> QED BY <1>2, FS_Subset, FS_CardinalityType DEF Owned

(* The references of one thread. *)
Its(t, n) == {<<t, k>> : k \in 1 .. n}

LEMMA ItsCount ==
  ASSUME NEW t, NEW n \in Nat
  PROVE  IsFiniteSet(Its(t, n)) /\ Cardinality(Its(t, n)) = n
<1>1. IsFiniteSet(1 .. n) /\ Cardinality(1 .. n) = n
  BY FS_Interval
<1> DEFINE f == [k \in 1 .. n |-> <<t, k>>]
<1>2. f \in Bijection(1 .. n, Its(t, n))
  <2>1. f \in [1 .. n -> Its(t, n)]
    BY DEF Its
  <2>2. \A j, k \in 1 .. n : f[j] = f[k] => j = k
    OBVIOUS
  <2>3. \A x \in Its(t, n) : \E k \in 1 .. n : f[k] = x
    BY DEF Its
  <2> QED BY <2>1, <2>2, <2>3 DEF Bijection, Injection, Surjection, IsInjective
<1>3. ExistsBijection(1 .. n, Its(t, n))
  BY <1>2 DEF ExistsBijection
<1> QED BY <1>1, <1>3, FS_Bijection

LEMMA TwoOwn ==
  ASSUME TypeOK, NEW b \in Buffers, NEW t \in Threads, NEW u \in Threads, t # u
  PROVE  refs[t][b] + refs[u][b] <= Owned(b)
<1>1. refs[t][b] \in 0 .. MaxRefs /\ refs[u][b] \in 0 .. MaxRefs /\ MaxRefs \in Nat
  BY BufferAssumption DEF TypeOK, BufferAssumption
<1> DEFINE A == Its(t, refs[t][b])
           B == Its(u, refs[u][b])
<1>2. /\ IsFiniteSet(A) /\ Cardinality(A) = refs[t][b]
      /\ IsFiniteSet(B) /\ Cardinality(B) = refs[u][b]
  BY <1>1, ItsCount
<1>3. A \cap B = {} /\ A \cup B \subseteq References(b)
  BY <1>1 DEF Its, References
<1> HIDE DEF A, B
<1>4. Cardinality(A \cup B) = refs[t][b] + refs[u][b]
  <2>1. Cardinality(A \cup B) = Cardinality(A) + Cardinality(B) - Cardinality(A \cap B)
    BY <1>2, FS_Union
  <2>2. Cardinality(A \cap B) = 0
    BY <1>3, FS_EmptySet
  <2> QED BY <1>1, <1>2, <2>1, <2>2
<1> QED BY <1>3, <1>4, ReferencesFinite, FS_Subset DEF Owned

LEMMA OneOwns ==
  ASSUME TypeOK, NEW b \in Buffers, NEW t \in Threads
  PROVE  refs[t][b] <= Owned(b)
<1>1. refs[t][b] \in 0 .. MaxRefs /\ MaxRefs \in Nat
  BY BufferAssumption DEF TypeOK, BufferAssumption
<1>2. IsFiniteSet(Its(t, refs[t][b])) /\ Cardinality(Its(t, refs[t][b])) = refs[t][b]
  BY <1>1, ItsCount
<1>3. Its(t, refs[t][b]) \subseteq References(b)
  BY <1>1 DEF Its, References
<1> QED BY <1>2, <1>3, ReferencesFinite, FS_Subset DEF Owned

LEMMA NoneOwns ==
  ASSUME TypeOK, NEW b \in Buffers, \A t \in Threads : refs[t][b] = 0
  PROVE  Owned(b) = 0
<1>1. References(b) = {}
  BY DEF References
<1> QED BY <1>1, FS_EmptySet DEF Owned

LEMMA OwnedSame ==
  ASSUME NEW b \in Buffers, \A u \in Threads : refs'[u][b] = refs[u][b]
  PROVE  Owned(b)' = Owned(b)
<1>1. References(b)' = References(b)
  BY DEF References
<1> QED BY <1>1 DEF Owned

LEMMA OwnedMore ==
  ASSUME TypeOK, NEW b \in Buffers, NEW t \in Threads, refs[t][b] < MaxRefs,
         refs'[t][b] = refs[t][b] + 1, \A u \in Threads \ {t} : refs'[u][b] = refs[u][b]
  PROVE  Owned(b)' = Owned(b) + 1
<1>1. refs[t][b] \in Nat /\ MaxRefs \in Nat
  BY BufferAssumption DEF TypeOK, BufferAssumption
<1> DEFINE new == <<t, refs[t][b] + 1>>
<1>2. new \notin References(b)
  BY <1>1 DEF References
<1>3. References(b)' = References(b) \cup {new}
  BY <1>1 DEF References
<1> HIDE DEF new
<1> QED BY <1>2, <1>3, ReferencesFinite, FS_AddElement DEF Owned

LEMMA OwnedLess ==
  ASSUME TypeOK, NEW b \in Buffers, NEW t \in Threads, refs[t][b] > 0,
         refs'[t][b] = refs[t][b] - 1, \A u \in Threads \ {t} : refs'[u][b] = refs[u][b]
  PROVE  Owned(b)' = Owned(b) - 1
<1>1. refs[t][b] \in 1 .. MaxRefs /\ MaxRefs \in Nat
  BY BufferAssumption DEF TypeOK, BufferAssumption
<1> DEFINE old == <<t, refs[t][b]>>
<1>2. old \in References(b)
  BY <1>1 DEF References
<1>3. References(b)' = References(b) \ {old}
  BY <1>1 DEF References
<1> HIDE DEF old
<1> QED BY <1>2, <1>3, ReferencesFinite, FS_RemoveElement DEF Owned

LEMMA OwnedMoved ==
  ASSUME TypeOK, NEW b \in Buffers, NEW t \in Threads, NEW u \in Threads, t # u,
         refs[t][b] > 0, refs[u][b] < MaxRefs,
         refs'[t][b] = refs[t][b] - 1, refs'[u][b] = refs[u][b] + 1,
         \A v \in Threads \ {t, u} : refs'[v][b] = refs[v][b]
  PROVE  Owned(b)' = Owned(b)
<1>1. refs[t][b] \in 1 .. MaxRefs /\ refs[u][b] \in Nat /\ MaxRefs \in Nat
  BY BufferAssumption DEF TypeOK, BufferAssumption
<1> DEFINE old == <<t, refs[t][b]>>
           new == <<u, refs[u][b] + 1>>
           rest == References(b) \ {old}
<1>2. old \in References(b) /\ new \notin References(b)
  BY <1>1 DEF References
<1>3. References(b)' = rest \cup {new}
  BY <1>1 DEF References
<1> HIDE DEF old, new
<1>4. IsFiniteSet(rest) /\ Cardinality(rest) = Owned(b) - 1
  BY <1>2, ReferencesFinite, FS_RemoveElement DEF Owned
<1>5. Cardinality(References(b)') = Owned(b) - 1 + 1
  BY <1>2, <1>3, <1>4, FS_AddElement
<1> QED BY <1>5, ReferencesFinite DEF Owned

-----------------------------------------------------------------------------
(* What the invariant says of a buffer to which somebody has a reference,  *)
(* and of a free place.                                                    *)
LEMMA Referenced ==
  ASSUME BufInv, NEW t \in Threads, NEW b \in Buffers, refs[t][b] > 0
  PROVE  /\ buffer[b].refcount = Owned(b) /\ Owned(b) > 0 /\ buffer[b].refcount \in 1 .. MaxRefs
         /\ buffer[b].data # 0 /\ ~BeingGot(b)
         /\ \A u \in Threads : ~Dying(u, b)
         /\ \A u \in Threads : u # t /\ pc[u] \in {"write", "move"} => arg[u] # b
<1>1. /\ TypeOK /\ CountInv(b) /\ refs[t][b] \in 1 .. MaxRefs /\ MaxRefs \in Nat
      /\ \A u \in Threads : ThreadInv(u)
  BY BufferAssumption DEF BufInv, TypeOK, BufferAssumption
<1>2. Owned(b) > 0 /\ Owned(b) \in Nat
  BY <1>1, OneOwns, ReferencesFinite
<1>3. ~BeingGot(b)
  BY <1>1, <1>2 DEF BeingGot, Getting, ThreadInv
<1>4. buffer[b].refcount = Owned(b) /\ buffer[b].refcount \in 1 .. MaxRefs
  BY <1>1, <1>2, <1>3 DEF CountInv, TypeOK, AVBuffers
<1>5. buffer[b].data # 0
  BY <1>1, <1>2, <1>4 DEF CountInv, None
<1>6. \A u \in Threads : ~Dying(u, b)
  BY <1>1, <1>2, <1>4 DEF Dying, ThreadInv
<1>7. ASSUME NEW u \in Threads, u # t, pc[u] \in {"write", "move"}, arg[u] = b
      PROVE  FALSE
  <2>1. refs[u][b] = 1 /\ buffer[b].refcount = 1
    BY <1>1, <1>7 DEF ThreadInv
  <2>2. refs[t][b] + refs[u][b] <= Owned(b)
    BY <1>1, <1>7, TwoOwn
  <2> QED BY <1>1, <1>4, <2>1, <2>2
<1> QED BY <1>2, <1>3, <1>4, <1>5, <1>6, <1>7

LEMMA FreeSlot ==
  ASSUME BufInv, Unused # {}
  PROVE  /\ Slot \in Buffers /\ buffer[Slot] = None /\ Owned(Slot) = 0
         /\ \A t \in Threads : /\ refs[t][Slot] = 0
                               /\ pc[t] \notin {"idle", "pool_free"} => arg[t] # Slot
<1>1. Slot \in Buffers /\ buffer[Slot] = None
  BY DEF Slot, Unused
<1> DEFINE b == Slot
<1> HIDE DEF b
<1>2. b \in Buffers /\ buffer[b] = None
  BY <1>1 DEF b
<1>3. TypeOK /\ CountInv(b) /\ \A u \in Threads : ThreadInv(u)
  BY <1>2 DEF BufInv
<1>4. \A t \in Threads : pc[t] \notin {"idle", "pool_free"} => arg[t] # b
  BY <1>2, <1>3 DEF ThreadInv, None
<1>5. Owned(b) = 0
  BY <1>2, <1>3, <1>4 DEF CountInv, BeingGot, Getting, None
<1>6. \A t \in Threads : refs[t][b] = 0
  <2> TAKE t \in Threads
  <2>1. refs[t][b] \in Nat /\ refs[t][b] <= Owned(b)
    BY <1>2, <1>3, OneOwns, BufferAssumption DEF TypeOK, BufferAssumption
  <2> QED BY <1>5, <2>1
<1> QED BY <1>2, <1>4, <1>5, <1>6 DEF b

LEMMA FreeBlock == ASSUME Data # allocated, TypeOK PROVE Block \in Data \ allocated
  BY DEF Block, TypeOK

-----------------------------------------------------------------------------
(* The parts of the invariant that a step leaves alone.                    *)
LEMMA MemoryAlone ==
  ASSUME BufInv, allocated' = allocated, listed' = listed,
         \A b \in Buffers : /\ Held(b)' <=> Held(b)
                            /\ Held(b) => buffer'[b].data = buffer[b].data
  PROVE  ((\A b, c \in Buffers : DataInv(b, c)) /\ ListInv /\ MemoryInv)'
<1>1. Listed' = Listed
  BY DEF Listed
<1>2. (\A b, c \in Buffers : DataInv(b, c))'
  <2>1. \A b, c \in Buffers : DataInv(b, c)
    BY DEF BufInv
  <2> QED BY <1>1, <2>1 DEF DataInv
<1>3. ListInv'
  BY <1>1 DEF BufInv, ListInv
<1>4. MemoryInv'
  BY <1>1 DEF BufInv, MemoryInv
<1> QED BY <1>2, <1>3, <1>4

LEMMA PoolAlone ==
  ASSUME BufInv, UNCHANGED pool,
         \A b \in Buffers :
           \/ ~buffer[b].pooled /\ ~buffer'[b].pooled
           \/ /\ buffer'[b].pooled = buffer[b].pooled
              /\ \A t \in Threads : Getting(t, b)' <=> Getting(t, b),
         \A t \in Threads : pc[t] = "pool_free" => pc'[t] = "pool_free"
  PROVE  PoolInv'
<1>1. Lent' = Lent
  BY DEF Lent, BeingGot
<1> QED BY <1>1 DEF BufInv, PoolInv, pool

(* A thread between its steps. *)
LEMMA OthersAlone ==
  ASSUME BufInv, NEW u \in Threads, pc'[u] = pc[u], arg'[u] = arg[u],
         handle' = handle, refcount' = refcount, alive' = alive,
         pc[u] \notin {"idle", "pool_free"} =>
           LET b == arg[u] IN
           /\ buffer'[b] = buffer[b] /\ refs'[u][b] = refs[u][b]
           /\ \A t \in Threads : refs'[t][b] = refs[t][b]
  PROVE  ThreadInv(u)'
<1>1. ThreadInv(u)
  BY DEF BufInv
<1>2. pc[u] \notin {"idle", "pool_free"} => Owned(arg[u])' = Owned(arg[u])
  BY <1>1, OwnedSame DEF ThreadInv
<1> QED BY <1>1, <1>2 DEF ThreadInv

LEMMA PairAlone ==
  ASSUME BufInv, NEW t \in Threads, NEW u \in Threads,
         pc'[t] = pc[t], arg'[t] = arg[t], pc'[u] = pc[u], arg'[u] = arg[u]
  PROVE  ApartInv(t, u)'
  BY DEF BufInv, ApartInv

(* Steps that only look at a buffer, or fail. *)
LEMMA LooksKeep ==
  ASSUME BufInv, NEW t \in Threads, NEW b \in 0 .. MaxBuffers,
         NEW label \in {"idle", "write", "copy", "recopy", "move"},
         pc[t] \in {"idle", "write", "copy", "recopy", "move"}, Goto(t, label, b),
         UNCHANGED <<refs, buffer, allocated, pool>>, ThreadInv(t)'
  PROVE  BufInv'
<1>1. /\ pc' = [pc EXCEPT ![t] = label] /\ arg' = [arg EXCEPT ![t] = b]
      /\ pc \in [Threads -> Label] /\ arg \in [Threads -> 0 .. MaxBuffers]
  BY DEF Goto, BufInv, TypeOK
<1>2. TypeOK'
  BY <1>1 DEF BufInv, TypeOK, pool, Label
<1>3. /\ pc'[t] = label /\ \A u \in Threads \ {t} : pc'[u] = pc[u] /\ arg'[u] = arg[u]
      /\ \A u \in Threads, c \in Buffers : /\ Getting(u, c)' <=> Getting(u, c)
                                           /\ Dying(u, c)' <=> Dying(u, c)
                                           /\ Gone(u, c)' <=> Gone(u, c)
  BY <1>1 DEF Getting, Dying, Gone
<1>4. (\A u \in Threads : ThreadInv(u))'
  BY <1>3, OthersAlone DEF pool
<1>5. (\A u, v \in Threads : ApartInv(u, v))'
  <2> SUFFICES ASSUME NEW u \in Threads, NEW v \in Threads PROVE ApartInv(u, v)'
    OBVIOUS
  <2>1. CASE u = t \/ v = t
    BY <1>3, <2>1 DEF ApartInv
  <2>2. CASE u # t /\ v # t
    BY <1>3, <2>2, PairAlone
  <2> QED BY <2>1, <2>2
<1>6. (\A c \in Buffers : CountInv(c))'
  <2> SUFFICES ASSUME NEW c \in Buffers PROVE CountInv(c)'
    OBVIOUS
  <2>1. CountInv(c) /\ Owned(c)' = Owned(c) /\ BeingGot(c)' = BeingGot(c)
    BY <1>3, OwnedSame DEF BufInv, BeingGot
  <2> QED BY <1>3, <2>1 DEF CountInv
<1>7. (\A c, d \in Buffers : DataInv(c, d))' /\ ListInv' /\ MemoryInv'
  BY <1>3, MemoryAlone DEF pool, Held
<1>8. PoolInv'
  BY <1>1, <1>3, PoolAlone
<1> QED BY <1>2, <1>4, <1>5, <1>6, <1>7, <1>8 DEF BufInv
LEMMA MakeWritableKeeps ==
  ASSUME BufInv, NEW t \in Threads, NEW b \in Buffers, MakeWritable(t, b)
  PROVE  BufInv'
<1>1. /\ pc[t] = "idle" /\ refs[t][b] > 0 /\ UNCHANGED <<refs, buffer, allocated, pool>>
      /\ \/ IsWritable(b) /\ Goto(t, "write", b)
         \/ Goto(t, "copy", b)
  BY DEF MakeWritable
<1>2. PICK label \in {"write", "copy"} : Goto(t, label, b) /\ (label = "write" => IsWritable(b))
  BY <1>1
<1>3. pc'[t] = label /\ arg'[t] = b /\ b \in 0 .. MaxBuffers
  BY <1>2 DEF Goto, BufInv, TypeOK, Buffers
<1>4. /\ buffer[b].data # 0 /\ buffer[b].refcount = Owned(b)
      /\ refs[t][b] \in Nat /\ refs[t][b] <= Owned(b)
  BY <1>1, Referenced, OneOwns, BufferAssumption DEF BufInv, TypeOK, BufferAssumption
<1>5. ThreadInv(t)'
  <2>1. label = "write" => refs[t][b] = 1 /\ buffer[b].refcount = 1
    BY <1>1, <1>2, <1>4 DEF IsWritable
  <2> QED BY <1>1, <1>2, <1>3, <1>4, <2>1 DEF ThreadInv
<1> QED BY <1>1, <1>2, <1>3, <1>5, LooksKeep

LEMMA ReallocKeeps ==
  ASSUME BufInv, NEW t \in Threads, NEW b \in Buffers, Realloc(t, b)
  PROVE  BufInv'
<1>1. pc[t] = "idle" /\ refs[t][b] > 0 /\ UNCHANGED <<refs, buffer, allocated, pool>>
  BY DEF Realloc
<1>2. PICK label \in {"move", "recopy"} : Goto(t, label, b) /\ (label = "move" => IsWritable(b))
  BY DEF Realloc
<1>3. pc'[t] = label /\ arg'[t] = b /\ b \in 0 .. MaxBuffers
  BY <1>2 DEF Goto, BufInv, TypeOK, Buffers
<1>4. /\ buffer[b].data # 0 /\ buffer[b].refcount = Owned(b)
      /\ refs[t][b] \in Nat /\ refs[t][b] <= Owned(b)
  BY <1>1, Referenced, OneOwns, BufferAssumption DEF BufInv, TypeOK, BufferAssumption
<1>5. ThreadInv(t)'
  <2>1. label = "move" => refs[t][b] = 1 /\ buffer[b].refcount = 1
    BY <1>1, <1>2, <1>4 DEF IsWritable
  <2> QED BY <1>1, <1>2, <1>3, <1>4, <2>1 DEF ThreadInv
<1> QED BY <1>1, <1>2, <1>3, <1>5, LooksKeep

LEMMA GivesUpKeeps ==
  ASSUME BufInv, NEW t \in Threads, Write(t) \/ NoMemory(t)
  PROVE  BufInv'
<1>1. /\ pc[t] \in {"write", "copy", "recopy", "move"} /\ Goto(t, "idle", 0)
      /\ UNCHANGED <<refs, buffer, allocated, pool>>
  BY DEF Write, NoMemory
<1>2. pc'[t] = "idle" /\ 0 \in 0 .. MaxBuffers
  BY <1>1, BufferAssumption DEF Goto, BufInv, TypeOK, BufferAssumption
<1>3. ThreadInv(t)'
  BY <1>2 DEF ThreadInv
<1> QED BY <1>1, <1>2, <1>3, LooksKeep

-----------------------------------------------------------------------------
(* Steps that make, hand on and drop references.                           *)
LEMMA RefKeeps ==
  ASSUME BufInv, NEW t \in Threads, NEW b \in Buffers, Ref(t, b)
  PROVE  BufInv'
<1>1. /\ pc[t] = "idle" /\ refs[t][b] > 0 /\ buffer[b].refcount < MaxRefs
      /\ refs' = [refs EXCEPT ![t][b] = @ + 1] /\ buffer' = [buffer EXCEPT ![b].refcount = @ + 1]
      /\ UNCHANGED <<pc, arg, allocated, pool>>
  BY DEF Ref
<1>2. TypeOK /\ MaxRefs \in Nat /\ buffer[b] \in AVBuffers /\ refs[t][b] \in 1 .. MaxRefs
  BY <1>1, BufferAssumption DEF BufInv, TypeOK, BufferAssumption
<1>3. /\ buffer[b].refcount = Owned(b) /\ Owned(b) > 0 /\ buffer[b].refcount \in 1 .. MaxRefs
      /\ buffer[b].data # 0 /\ ~BeingGot(b)
      /\ \A u \in Threads : ~Dying(u, b) /\ (u # t /\ pc[u] \in {"write", "move"} => arg[u] # b)
  BY <1>1, Referenced
<1>4. refs[t][b] < MaxRefs
  BY <1>1, <1>2, <1>3, OneOwns
<1>5. /\ refs'[t][b] = refs[t][b] + 1
      /\ \A u \in Threads, c \in Buffers : u # t \/ c # b => refs'[u][c] = refs[u][c]
      /\ refs' \in [Threads -> [Buffers -> 0 .. MaxRefs]]
  BY <1>1, <1>2, <1>4 DEF TypeOK
<1>6. /\ buffer'[b].refcount = buffer[b].refcount + 1 /\ buffer'[b].data = buffer[b].data
      /\ buffer'[b].pooled = buffer[b].pooled
      /\ \A c \in Buffers \ {b} : buffer'[c] = buffer[c]
      /\ buffer' \in [Buffers -> AVBuffers]
  <2>1. [buffer[b] EXCEPT !.refcount = @ + 1] \in AVBuffers
    BY <1>1, <1>2 DEF AVBuffers
  <2>2. buffer' = [buffer EXCEPT ![b] = [buffer[b] EXCEPT !.refcount = @ + 1]]
    BY <1>1, <1>2 DEF TypeOK
  <2>3. buffer' \in [Buffers -> AVBuffers]
    BY <1>2, <2>1, <2>2 DEF TypeOK
  <2> QED BY <1>2, <2>2, <2>3 DEF TypeOK, AVBuffers
<1>7. TypeOK'
  BY <1>1, <1>2, <1>5, <1>6 DEF TypeOK, pool
<1>8. /\ Owned(b)' = Owned(b) + 1
      /\ \A c \in Buffers \ {b} : Owned(c)' = Owned(c)
  BY <1>2, <1>4, <1>5, OwnedMore, OwnedSame
<1>9. \A u \in Threads, c \in Buffers : /\ Getting(u, c)' <=> Getting(u, c)
                                        /\ Dying(u, c)' <=> Dying(u, c)
                                        /\ Gone(u, c)' <=> Gone(u, c)
  BY <1>1 DEF Getting, Dying, Gone
<1>10. (\A u \in Threads : ThreadInv(u))'
  <2> SUFFICES ASSUME NEW u \in Threads PROVE ThreadInv(u)'
    OBVIOUS
  <2>1. ThreadInv(u) /\ pc'[u] = pc[u] /\ arg'[u] = arg[u]
    BY <1>1 DEF BufInv
  <2>2. CASE u = t
    BY <1>1, <2>2 DEF ThreadInv
  <2>3. CASE u # t /\ arg[u] = b
    <3>1. pc[u] \notin {"write", "move", "free", "returned", "got"}
      BY <1>3, <2>3 DEF BeingGot, Getting, Dying
    <3> QED BY <1>1, <1>3, <1>5, <1>6, <2>1, <2>3, <3>1 DEF ThreadInv, pool
  <2>4. CASE u # t /\ arg[u] # b
    BY <1>1, <1>5, <1>6, <2>1, <2>4, OthersAlone DEF pool
  <2> QED BY <2>2, <2>3, <2>4
<1>11. (\A u, v \in Threads : ApartInv(u, v))'
  BY <1>1, PairAlone
<1>12. (\A c \in Buffers : CountInv(c))'
  <2> SUFFICES ASSUME NEW c \in Buffers PROVE CountInv(c)'
    OBVIOUS
  <2>1. CountInv(c) /\ BeingGot(c)' = BeingGot(c)
    BY <1>9 DEF BufInv, BeingGot
  <2>2. CASE c = b
    BY <1>3, <1>6, <1>8, <2>2 DEF CountInv
  <2>3. CASE c # b
    BY <1>6, <1>8, <1>9, <2>1, <2>3 DEF CountInv
  <2> QED BY <2>2, <2>3
<1>13. (\A c, d \in Buffers : DataInv(c, d))' /\ ListInv' /\ MemoryInv'
  BY <1>1, <1>6, <1>9, MemoryAlone DEF pool, Held
<1>14. PoolInv'
  BY <1>1, <1>6, <1>9, PoolAlone
<1> QED BY <1>7, <1>10, <1>11, <1>12, <1>13, <1>14 DEF BufInv

LEMMA PassKeeps ==
  ASSUME BufInv, NEW t \in Threads, NEW w \in Threads, NEW b \in Buffers, Pass(t, w, b)
  PROVE  BufInv'
<1>1. /\ pc[t] = "idle" /\ refs[t][b] > 0 /\ w # t
      /\ refs' = [refs EXCEPT ![t][b] = @ - 1, ![w][b] = @ + 1]
      /\ UNCHANGED <<pc, arg, buffer, allocated, pool>>
  BY DEF Pass
<1>2. TypeOK /\ MaxRefs \in Nat /\ refs[t][b] \in 1 .. MaxRefs /\ refs[w][b] \in 0 .. MaxRefs
  BY <1>1, BufferAssumption DEF BufInv, TypeOK, BufferAssumption
<1>3. /\ buffer[b].refcount = Owned(b) /\ Owned(b) \in 1 .. MaxRefs /\ ~BeingGot(b)
      /\ \A u \in Threads : ~Dying(u, b) /\ (u # t /\ pc[u] \in {"write", "move"} => arg[u] # b)
  BY <1>1, Referenced
<1>4. refs[w][b] < MaxRefs
  BY <1>1, <1>2, <1>3, TwoOwn
<1>5. /\ refs'[t][b] = refs[t][b] - 1 /\ refs'[w][b] = refs[w][b] + 1
      /\ \A u \in Threads, c \in Buffers : u \notin {t, w} \/ c # b => refs'[u][c] = refs[u][c]
      /\ refs' \in [Threads -> [Buffers -> 0 .. MaxRefs]]
  <2> DEFINE Rows == [Buffers -> 0 .. MaxRefs]
             minus == [refs[t] EXCEPT ![b] = @ - 1]
             plus == [refs[w] EXCEPT ![b] = @ + 1]
  <2>1. refs[t] \in Rows /\ refs[w] \in Rows /\ refs \in [Threads -> Rows]
    BY <1>2 DEF TypeOK
  <2>2. /\ minus \in Rows /\ minus[b] = refs[t][b] - 1
        /\ \A c \in Buffers \ {b} : minus[c] = refs[t][c]
    BY <1>2, <2>1
  <2>3. /\ plus \in Rows /\ plus[b] = refs[w][b] + 1
        /\ \A c \in Buffers \ {b} : plus[c] = refs[w][c]
    BY <1>2, <1>4, <2>1
  <2>4. refs' = [refs EXCEPT ![t] = minus, ![w] = plus]
    BY <1>1, <2>1
  <2> HIDE DEF minus, plus, Rows
  <2>5. /\ refs'[t] = minus /\ refs'[w] = plus /\ \A u \in Threads \ {t, w} : refs'[u] = refs[u]
        /\ refs' \in [Threads -> Rows]
    BY <1>1, <2>1, <2>2, <2>3, <2>4
  <2> QED BY <2>2, <2>3, <2>5 DEF Rows
<1>6. TypeOK'
  BY <1>1, <1>2, <1>5 DEF TypeOK, pool
<1>7. \A c \in Buffers : Owned(c)' = Owned(c)
  <2>1. Owned(b)' = Owned(b)
    BY <1>1, <1>2, <1>4, <1>5, OwnedMoved
  <2>2. \A c \in Buffers \ {b} : Owned(c)' = Owned(c)
    BY <1>5, OwnedSame
  <2> QED BY <2>1, <2>2
<1>8. \A u \in Threads, c \in Buffers : /\ Getting(u, c)' <=> Getting(u, c)
                                        /\ Dying(u, c)' <=> Dying(u, c)
                                        /\ Gone(u, c)' <=> Gone(u, c)
  BY <1>1 DEF Getting, Dying, Gone
<1>9. (\A u \in Threads : ThreadInv(u))'
  <2> SUFFICES ASSUME NEW u \in Threads PROVE ThreadInv(u)'
    OBVIOUS
  <2>1. ThreadInv(u) /\ pc'[u] = pc[u] /\ arg'[u] = arg[u]
    BY <1>1 DEF BufInv
  <2>2. CASE u = t
    BY <1>1, <2>2 DEF ThreadInv
  <2>3. CASE u # t /\ arg[u] = b
    <3>1. pc[u] \notin {"write", "move", "free", "returned", "got"}
      BY <1>3, <2>3 DEF BeingGot, Getting, Dying
    <3>2. refs[u][b] > 0 => refs'[u][b] > 0
      <4>1. refs[u][b] \in Nat
        BY <1>2, BufferAssumption DEF TypeOK, BufferAssumption
      <4>2. refs'[u][b] = refs[u][b] \/ refs'[u][b] = refs[u][b] + 1
        BY <1>5, <2>3
      <4> QED BY <4>1, <4>2
    <3>3. /\ pc'[u] \in {"copy", "recopy"} => refs'[u][b] > 0
          /\ arg'[u] = b /\ pc'[u] \notin {"write", "move", "free", "returned", "got"}
      BY <2>1, <2>3, <3>1, <3>2 DEF ThreadInv
    <3>4. buffer'[b].data # 0 /\ (pc'[u] = "pool_free" => refcount' = 0 /\ alive')
      BY <1>1, <1>3, <2>1, Referenced DEF ThreadInv, pool
    <3> QED BY <2>3, <3>3, <3>4 DEF ThreadInv
  <2>4. CASE u # t /\ arg[u] # b
    <3>1. pc[u] \notin {"idle", "pool_free"} => arg[u] \in Buffers \ {b}
      BY <2>1, <2>4 DEF ThreadInv
    <3> QED BY <1>1, <1>5, <2>1, <3>1, OthersAlone DEF pool
  <2> QED BY <2>2, <2>3, <2>4
<1>10. (\A u, v \in Threads : ApartInv(u, v))'
  BY <1>1, PairAlone
<1>11. (\A c \in Buffers : CountInv(c))'
  <2> SUFFICES ASSUME NEW c \in Buffers PROVE CountInv(c)'
    OBVIOUS
  <2>1. CountInv(c) /\ BeingGot(c)' = BeingGot(c)
    BY <1>8 DEF BufInv, BeingGot
  <2> QED BY <1>1, <1>7, <1>8, <2>1 DEF CountInv
<1>12. (\A c, d \in Buffers : DataInv(c, d))' /\ ListInv' /\ MemoryInv'
  BY <1>1, <1>8, MemoryAlone DEF pool, Held
<1>13. PoolInv'
  BY <1>1, <1>8, PoolAlone
<1> QED BY <1>6, <1>9, <1>10, <1>11, <1>12, <1>13 DEF BufInv
(* The last reference leaves the data to the thread that drops it. *)
LEMMA UnrefKeeps ==
  ASSUME BufInv, NEW t \in Threads, NEW b \in Buffers, Unref(t, b)
  PROVE  BufInv'
<1> DEFINE last == buffer[b].refcount = 1
<1>1. /\ pc[t] = "idle" /\ refs[t][b] > 0
      /\ refs' = [refs EXCEPT ![t][b] = @ - 1] /\ buffer' = [buffer EXCEPT ![b].refcount = @ - 1]
      /\ pc' = [pc EXCEPT ![t] = IF last THEN "free" ELSE "idle"]
      /\ arg' = [arg EXCEPT ![t] = b]
      /\ UNCHANGED <<allocated, pool>>
  BY DEF Unref, DropCount, Goto
<1>2. TypeOK /\ MaxRefs \in Nat /\ buffer[b] \in AVBuffers /\ refs[t][b] \in 1 .. MaxRefs
  BY <1>1, BufferAssumption DEF BufInv, TypeOK, BufferAssumption
<1>3. /\ buffer[b].refcount = Owned(b) /\ Owned(b) > 0 /\ buffer[b].refcount \in 1 .. MaxRefs
      /\ buffer[b].data # 0 /\ ~BeingGot(b)
      /\ \A u \in Threads : ~Dying(u, b) /\ (u # t /\ pc[u] \in {"write", "move"} => arg[u] # b)
  BY <1>1, Referenced
<1>4. /\ refs'[t][b] = refs[t][b] - 1
      /\ \A u \in Threads, c \in Buffers : u # t \/ c # b => refs'[u][c] = refs[u][c]
      /\ refs' \in [Threads -> [Buffers -> 0 .. MaxRefs]]
  BY <1>1, <1>2 DEF TypeOK
<1>5. /\ buffer'[b].refcount = buffer[b].refcount - 1 /\ buffer'[b].data = buffer[b].data
      /\ buffer'[b].pooled = buffer[b].pooled
      /\ \A c \in Buffers \ {b} : buffer'[c] = buffer[c]
      /\ buffer' \in [Buffers -> AVBuffers]
  <2>1. [buffer[b] EXCEPT !.refcount = @ - 1] \in AVBuffers
    BY <1>2, <1>3 DEF AVBuffers
  <2>2. buffer' = [buffer EXCEPT ![b] = [buffer[b] EXCEPT !.refcount = @ - 1]]
    BY <1>1, <1>2 DEF TypeOK
  <2>3. buffer' \in [Buffers -> AVBuffers]
    BY <1>2, <2>1, <2>2 DEF TypeOK
  <2> QED BY <1>2, <2>2, <2>3 DEF TypeOK, AVBuffers
<1>6. /\ pc'[t] = (IF last THEN "free" ELSE "idle") /\ arg'[t] = b
      /\ \A u \in Threads \ {t} : pc'[u] = pc[u] /\ arg'[u] = arg[u]
      /\ pc' \in [Threads -> Label] /\ arg' \in [Threads -> 0 .. MaxBuffers]
  BY <1>1, <1>2 DEF TypeOK, Label, Buffers
<1>7. TypeOK'
  BY <1>1, <1>2, <1>4, <1>5, <1>6 DEF TypeOK, pool
<1>8. Owned(b)' = Owned(b) - 1 /\ \A c \in Buffers \ {b} : Owned(c)' = Owned(c)
  BY <1>2, <1>4, OwnedLess, OwnedSame
<1>9. \A u \in Threads, c \in Buffers : /\ Getting(u, c)' <=> Getting(u, c)
                                        /\ Dying(u, c) => Dying(u, c)'
                                        /\ Gone(u, c)' <=> Gone(u, c)
  BY <1>1, <1>6 DEF Getting, Dying, Gone
<1>10. (\A u \in Threads : ThreadInv(u))'
  <2> SUFFICES ASSUME NEW u \in Threads PROVE ThreadInv(u)'
    OBVIOUS
  <2>1. ThreadInv(u)
    BY DEF BufInv
  <2>2. CASE u = t
    <3>1. last => buffer'[b].refcount = 0
      BY <1>5
    <3> QED BY <1>3, <1>5, <1>6, <2>2, <3>1 DEF ThreadInv
  <2>3. CASE u # t /\ arg[u] = b
    <3>1. pc[u] \notin {"write", "move", "free", "returned", "got"}
      BY <1>3, <2>3 DEF BeingGot, Getting, Dying
    <3> QED BY <1>1, <1>3, <1>4, <1>5, <1>6, <2>1, <2>3, <3>1 DEF ThreadInv, pool
  <2>4. CASE u # t /\ arg[u] # b
    <3>1. pc[u] \notin {"idle", "pool_free"} => arg[u] \in Buffers \ {b}
      BY <2>1, <2>4 DEF ThreadInv
    <3> QED BY <1>1, <1>4, <1>5, <1>6, <2>4, <3>1, OthersAlone DEF pool
  <2> QED BY <2>2, <2>3, <2>4
<1>11. (\A u, v \in Threads : ApartInv(u, v))'
  <2> SUFFICES ASSUME NEW u \in Threads, NEW v \in Threads PROVE ApartInv(u, v)'
    OBVIOUS
  <2>1. \A x \in Threads \ {t} : pc[x] \in {"free", "returned", "got"} => arg[x] # b
    BY <1>3 DEF BeingGot, Getting, Dying
  <2>2. CASE u # t /\ v # t
    BY <1>6, <2>2, PairAlone
  <2>3. CASE u = t \/ v = t
    BY <1>6, <2>1, <2>3 DEF ApartInv
  <2> QED BY <2>2, <2>3
<1>12. (\A c \in Buffers : CountInv(c))'
  <2> SUFFICES ASSUME NEW c \in Buffers PROVE CountInv(c)'
    OBVIOUS
  <2>1. CountInv(c) /\ BeingGot(c)' = BeingGot(c)
    BY <1>9 DEF BufInv, BeingGot
  <2>2. CASE c = b
    <3>1. buffer'[b].refcount = Owned(b)' /\ buffer'[b].data # 0
      BY <1>3, <1>5, <1>8
    <3>2. buffer'[b].refcount = 0 => Dying(t, b)'
      BY <1>3, <1>5, <1>6 DEF Dying
    <3> QED BY <2>2, <3>1, <3>2 DEF CountInv
  <2>3. CASE c # b
    BY <1>5, <1>8, <1>9, <2>1, <2>3 DEF CountInv
  <2> QED BY <2>2, <2>3
<1>13. (\A c, d \in Buffers : DataInv(c, d))' /\ ListInv' /\ MemoryInv'
  BY <1>1, <1>5, <1>9, MemoryAlone DEF pool, Held
<1>14. PoolInv'
  <2>1. \A u \in Threads : pc[u] = "pool_free" => pc'[u] = "pool_free"
    BY <1>1, <1>6
  <2> QED BY <1>1, <1>5, <1>9, <2>1, PoolAlone
<1> QED BY <1>7, <1>10, <1>11, <1>12, <1>13, <1>14 DEF BufInv

-----------------------------------------------------------------------------
(* New memory.                                                             *)
LEMMA NewBlock ==
  ASSUME BufInv, NEW b \in Buffers, NEW d \in Data \ allocated,
         buffer[b].data = 0, buffer'[b].data = d,
         allocated' = allocated \cup {d}, listed' = listed, Held(b)',
         \A c \in Buffers \ {b} : /\ Held(c)' <=> Held(c)
                                  /\ Held(c) => buffer'[c].data = buffer[c].data
  PROVE  ((\A a, c \in Buffers : DataInv(a, c)) /\ ListInv /\ MemoryInv)'
<1>1. Listed' = Listed /\ Listed \subseteq allocated
  BY DEF Listed, BufInv, ListInv
<1>2. \A a, c \in Buffers : DataInv(a, c)
  BY DEF BufInv
<1>3. \A a \in Buffers : a # b /\ Held(a) => buffer'[a].data \in allocated \ Listed
  BY <1>2 DEF DataInv
<1>4. (\A a, c \in Buffers : DataInv(a, c))'
  <2> SUFFICES ASSUME NEW a \in Buffers, NEW c \in Buffers PROVE DataInv(a, c)'
    OBVIOUS
  <2>1. CASE a # b /\ c # b
    BY <1>1, <1>2, <2>1 DEF DataInv
  <2>2. CASE a = b
    BY <1>1, <1>3, <2>2 DEF DataInv
  <2>3. CASE a # b /\ c = b
    BY <1>1, <1>3, <2>3 DEF DataInv
  <2> QED BY <2>1, <2>2, <2>3
<1>5. ListInv'
  BY <1>1 DEF BufInv, ListInv
<1>6. MemoryInv'
  <2> SUFFICES ASSUME NEW x \in allocated'
               PROVE  x \in Listed \/ \E c \in Buffers : Held(c)' /\ buffer'[c].data = x
    BY <1>1 DEF MemoryInv
  <2>1. CASE x = d
    BY <2>1
  <2>2. CASE x \in allocated /\ x \notin Listed
    <3>1. PICK c \in Buffers : Held(c) /\ buffer[c].data = x
      BY <2>2 DEF BufInv, MemoryInv
    <3>2. c # b
      BY <3>1 DEF Held
    <3> QED BY <3>1, <3>2
  <2> QED BY <2>1, <2>2
<1> QED BY <1>4, <1>5, <1>6

LEMMA CreateKeeps ==
  ASSUME BufInv, NEW t \in Threads, NEW flags \in Flags, Create(t, flags)
  PROVE  BufInv'
<1> DEFINE new == [data |-> Block, refcount |-> 1, pooled |-> FALSE, flags |-> flags]
<1>1. /\ pc[t] = "idle" /\ Unused # {} /\ Data # allocated
      /\ allocated' = allocated \cup {Block}
      /\ buffer' = [buffer EXCEPT ![Slot] = new]
      /\ refs' = [refs EXCEPT ![t][Slot] = 1]
      /\ UNCHANGED <<pc, arg, pool>>
  BY DEF Create, Born
<1>2. TypeOK /\ MaxRefs \in Nat \ {0} /\ MaxBlocks \in Nat
  BY BufferAssumption DEF BufInv, BufferAssumption
<1>3. PICK b \in Buffers :
        /\ b = Slot /\ buffer[b] = None /\ Owned(b) = 0
        /\ \A u \in Threads : refs[u][b] = 0 /\ (pc[u] \notin {"idle", "pool_free"} => arg[u] # b)
  BY <1>1, FreeSlot
<1>4. PICK d \in Data \ allocated : d = Block
  BY <1>1, <1>2, FreeBlock
<1>5. /\ refs'[t][b] = refs[t][b] + 1
      /\ \A u \in Threads, c \in Buffers : u # t \/ c # b => refs'[u][c] = refs[u][c]
      /\ refs' \in [Threads -> [Buffers -> 0 .. MaxRefs]]
  BY <1>1, <1>2, <1>3 DEF TypeOK
<1>6. /\ buffer'[b] = [data |-> d, refcount |-> 1, pooled |-> FALSE, flags |-> flags]
      /\ \A c \in Buffers \ {b} : buffer'[c] = buffer[c]
      /\ buffer' \in [Buffers -> AVBuffers]
  <2>1. new \in AVBuffers
    BY <1>2, <1>4 DEF AVBuffers, Data, Flags, Flag
  <2> QED BY <1>1, <1>2, <1>3, <1>4, <2>1 DEF TypeOK
<1>7. TypeOK'
  BY <1>1, <1>2, <1>4, <1>5, <1>6 DEF TypeOK, pool
<1>8. Owned(b)' = 1 /\ \A c \in Buffers \ {b} : Owned(c)' = Owned(c)
  <2>1. Owned(b)' = Owned(b) + 1
    BY <1>2, <1>3, <1>5, OwnedMore
  <2> QED BY <1>3, <1>5, <2>1, OwnedSame
<1>9. \A u \in Threads, c \in Buffers : /\ Getting(u, c)' <=> Getting(u, c)
                                        /\ Dying(u, c)' <=> Dying(u, c)
                                        /\ Gone(u, c)' <=> Gone(u, c)
  BY <1>1 DEF Getting, Dying, Gone
<1>10. (\A u \in Threads : ThreadInv(u))'
  <2> SUFFICES ASSUME NEW u \in Threads PROVE ThreadInv(u)'
    OBVIOUS
  <2>1. pc[u] \notin {"idle", "pool_free"} => arg[u] \in Buffers \ {b}
    BY <1>3 DEF BufInv, ThreadInv
  <2> QED BY <1>1, <1>5, <1>6, <2>1, OthersAlone DEF pool
<1>11. (\A u, v \in Threads : ApartInv(u, v))'
  BY <1>1, PairAlone
<1>12. (\A c \in Buffers : CountInv(c))'
  <2> SUFFICES ASSUME NEW c \in Buffers PROVE CountInv(c)'
    OBVIOUS
  <2>1. CountInv(c) /\ BeingGot(c)' = BeingGot(c)
    BY <1>9 DEF BufInv, BeingGot
  <2>2. CASE c = b
    BY <1>4, <1>6, <1>8, <2>2 DEF CountInv, Data
  <2>3. CASE c # b
    BY <1>6, <1>8, <1>9, <2>1, <2>3 DEF CountInv
  <2> QED BY <2>2, <2>3
<1>13. (\A c, a \in Buffers : DataInv(c, a))' /\ ListInv' /\ MemoryInv'
  <2>1. \A u \in Threads : ~Gone(u, b)
    BY <1>3 DEF Gone
  <2>2. Held(b)' /\ \A c \in Buffers \ {b} : Held(c)' <=> Held(c)
    BY <1>4, <1>6, <1>9, <2>1 DEF Held, Data
  <2>3. buffer[b].data = 0 /\ buffer'[b].data = d
    BY <1>3, <1>6 DEF None
  <2> QED BY <1>1, <1>4, <1>6, <2>2, <2>3, NewBlock DEF pool
<1>14. PoolInv'
  <2>1. ~buffer[b].pooled /\ ~buffer'[b].pooled
    BY <1>3, <1>6 DEF None
  <2> QED BY <1>1, <1>6, <1>9, <2>1, PoolAlone
<1> QED BY <1>7, <1>10, <1>11, <1>12, <1>13, <1>14 DEF BufInv
(* A copy takes the place of a reference, perhaps of the last one by now. *)
LEMMA ReplaceKeeps ==
  ASSUME BufInv, NEW t \in Threads, Replace(t)
  PROVE  BufInv'
<1>1. /\ pc[t] \in {"copy", "recopy"} /\ Unused # {} /\ Data # allocated
      /\ TypeOK /\ MaxRefs \in Nat \ {0} /\ MaxBlocks \in Nat
      /\ UNCHANGED pool /\ allocated' = allocated \cup {Block}
  BY BufferAssumption DEF Replace, BufInv, BufferAssumption
<1>2. PICK b \in Buffers : b = arg[t] /\ refs[t][b] > 0
  BY <1>1 DEF BufInv, ThreadInv
<1>3. PICK n \in Buffers :
        /\ n = Slot /\ buffer[n] = None /\ Owned(n) = 0
        /\ \A u \in Threads : refs[u][n] = 0 /\ (pc[u] \notin {"idle", "pool_free"} => arg[u] # n)
  BY <1>1, FreeSlot
<1>4. PICK d \in Data \ allocated : d = Block
  BY <1>1, FreeBlock
<1>5. n # b
  BY <1>1, <1>2, <1>3
<1> DEFINE last == buffer[b].refcount = 1
           flags == IF pc[t] = "recopy" THEN {"REALLOCATABLE"} ELSE {}
           new == [data |-> d, refcount |-> 1, pooled |-> FALSE, flags |-> flags]
<1>6. /\ refs' = [refs EXCEPT ![t][b] = @ - 1, ![t][n] = 1]
      /\ buffer' = [buffer EXCEPT ![b].refcount = @ - 1, ![n] = new]
      /\ pc' = [pc EXCEPT ![t] = IF last THEN "free" ELSE "idle"]
      /\ arg' = [arg EXCEPT ![t] = b]
  BY <1>2, <1>3, <1>4 DEF Replace, DropCount, Goto
<1>7. /\ buffer[b].refcount = Owned(b) /\ Owned(b) > 0 /\ buffer[b].refcount \in 1 .. MaxRefs
      /\ buffer[b].data # 0 /\ ~BeingGot(b) /\ buffer[b] \in AVBuffers /\ refs[t][b] \in 1 .. MaxRefs
      /\ \A u \in Threads : ~Dying(u, b) /\ (u # t /\ pc[u] \in {"write", "move"} => arg[u] # b)
  BY <1>1, <1>2, Referenced DEF TypeOK
<1>8. /\ refs'[t][b] = refs[t][b] - 1 /\ refs'[t][n] = refs[t][n] + 1
      /\ \A u \in Threads, c \in Buffers : u # t \/ c \notin {b, n} => refs'[u][c] = refs[u][c]
      /\ refs' \in [Threads -> [Buffers -> 0 .. MaxRefs]]
  <2> DEFINE Rows == [Buffers -> 0 .. MaxRefs]
             row == [refs[t] EXCEPT ![b] = @ - 1, ![n] = 1]
  <2>1. refs[t] \in Rows /\ refs \in [Threads -> Rows]
    BY <1>1 DEF TypeOK
  <2>2. /\ row[b] = refs[t][b] - 1 /\ row[n] = 1
        /\ \A c \in Buffers \ {b, n} : row[c] = refs[t][c]
    BY <1>5, <2>1
  <2>3. row \in Rows
    <3>1. refs[t][b] - 1 \in 0 .. MaxRefs /\ 1 \in 0 .. MaxRefs
      BY <1>1, <1>7
    <3> QED BY <2>1, <3>1
  <2>4. refs' = [refs EXCEPT ![t] = row]
    BY <1>6, <2>1
  <2> HIDE DEF row, Rows
  <2>5. /\ refs'[t] = row /\ \A u \in Threads \ {t} : refs'[u] = refs[u]
        /\ refs' \in [Threads -> Rows]
    BY <2>1, <2>3, <2>4
  <2> QED BY <1>3, <2>2, <2>5 DEF Rows
<1>9. /\ buffer'[b].refcount = buffer[b].refcount - 1 /\ buffer'[b].data = buffer[b].data
      /\ buffer'[b].pooled = buffer[b].pooled /\ buffer'[n] = new
      /\ \A c \in Buffers \ {b, n} : buffer'[c] = buffer[c]
      /\ buffer' \in [Buffers -> AVBuffers]
  <2> DEFINE less == [buffer[b] EXCEPT !.refcount = @ - 1]
  <2>1. /\ less \in AVBuffers /\ less.refcount = buffer[b].refcount - 1
        /\ less.data = buffer[b].data /\ less.pooled = buffer[b].pooled
    BY <1>1, <1>7 DEF AVBuffers
  <2>2. new \in AVBuffers
    BY <1>1, <1>4 DEF AVBuffers, Data, Flag
  <2>3. buffer' = [buffer EXCEPT ![b] = less, ![n] = new]
    BY <1>1, <1>6 DEF TypeOK
  <2> HIDE DEF less, new
  <2> QED BY <1>1, <1>5, <2>1, <2>2, <2>3 DEF TypeOK
<1>10. /\ pc'[t] = (IF last THEN "free" ELSE "idle") /\ arg'[t] = b
       /\ \A u \in Threads \ {t} : pc'[u] = pc[u] /\ arg'[u] = arg[u]
       /\ pc' \in [Threads -> Label] /\ arg' \in [Threads -> 0 .. MaxBuffers]
  BY <1>1, <1>6 DEF TypeOK, Label, Buffers
<1>11. TypeOK'
  BY <1>1, <1>4, <1>8, <1>9, <1>10 DEF TypeOK, pool
<1>12. /\ Owned(b)' = Owned(b) - 1 /\ Owned(n)' = 1
       /\ \A c \in Buffers \ {b, n} : Owned(c)' = Owned(c)
  <2>1. Owned(b)' = Owned(b) - 1
    BY <1>1, <1>2, <1>8, OwnedLess
  <2>2. Owned(n)' = Owned(n) + 1
    BY <1>1, <1>3, <1>8, OwnedMore
  <2> QED BY <1>3, <1>8, <2>1, <2>2, OwnedSame
<1>13. \A u \in Threads, c \in Buffers : /\ Getting(u, c)' <=> Getting(u, c)
                                         /\ Dying(u, c) => Dying(u, c)'
                                         /\ Gone(u, c)' <=> Gone(u, c)
  BY <1>1, <1>10 DEF Getting, Dying, Gone
<1>14. (\A u \in Threads : ThreadInv(u))'
  <2> SUFFICES ASSUME NEW u \in Threads PROVE ThreadInv(u)'
    OBVIOUS
  <2>1. ThreadInv(u)
    BY DEF BufInv
  <2>2. CASE u = t
    <3>1. last => buffer'[b].refcount = 0
      BY <1>9
    <3> QED BY <1>7, <1>9, <1>10, <2>2, <3>1 DEF ThreadInv
  <2>3. CASE u # t /\ arg[u] = b
    <3>1. pc[u] \notin {"write", "move", "free", "returned", "got"}
      BY <1>7, <2>3 DEF BeingGot, Getting, Dying
    <3> QED BY <1>1, <1>7, <1>8, <1>9, <1>10, <2>1, <2>3, <3>1 DEF ThreadInv, pool
  <2>4. CASE u # t /\ arg[u] # b
    <3>1. pc[u] \notin {"idle", "pool_free"} => arg[u] \in Buffers \ {b, n}
      BY <1>3, <2>1, <2>4 DEF ThreadInv
    <3> QED BY <1>1, <1>8, <1>9, <1>10, <2>4, <3>1, OthersAlone DEF pool
  <2> QED BY <2>2, <2>3, <2>4
<1>15. (\A u, v \in Threads : ApartInv(u, v))'
  <2> SUFFICES ASSUME NEW u \in Threads, NEW v \in Threads PROVE ApartInv(u, v)'
    OBVIOUS
  <2>1. \A x \in Threads \ {t} : pc[x] \in {"free", "returned", "got"} => arg[x] # b
    BY <1>7 DEF BeingGot, Getting, Dying
  <2>2. CASE u # t /\ v # t
    BY <1>10, <2>2, PairAlone
  <2>3. CASE u = t \/ v = t
    BY <1>10, <2>1, <2>3 DEF ApartInv
  <2> QED BY <2>2, <2>3
<1>16. (\A c \in Buffers : CountInv(c))'
  <2> SUFFICES ASSUME NEW c \in Buffers PROVE CountInv(c)'
    OBVIOUS
  <2>1. CountInv(c) /\ BeingGot(c)' = BeingGot(c)
    BY <1>13 DEF BufInv, BeingGot
  <2>2. CASE c = b
    <3>1. buffer'[b].refcount = Owned(b)' /\ buffer'[b].data # 0
      BY <1>7, <1>9, <1>12
    <3>2. buffer'[b].refcount = 0 => Dying(t, b)'
      BY <1>7, <1>9, <1>10 DEF Dying
    <3> QED BY <2>2, <3>1, <3>2 DEF CountInv
  <2>3. CASE c = n
    BY <1>4, <1>9, <1>12, <2>3 DEF CountInv, Data
  <2>4. CASE c \notin {b, n}
    BY <1>9, <1>12, <1>13, <2>1, <2>4 DEF CountInv
  <2> QED BY <2>2, <2>3, <2>4
<1>17. (\A c, a \in Buffers : DataInv(c, a))' /\ ListInv' /\ MemoryInv'
  <2>1. \A u \in Threads : ~Gone(u, n)
    BY <1>3 DEF Gone
  <2>2. Held(n)' /\ \A c \in Buffers \ {n} : /\ Held(c)' <=> Held(c)
                                             /\ buffer'[c].data = buffer[c].data
    BY <1>4, <1>9, <1>13, <2>1 DEF Held, Data
  <2>3. buffer[n].data = 0 /\ buffer'[n].data = d
    BY <1>3, <1>9 DEF None
  <2> QED BY <1>1, <1>4, <2>2, <2>3, NewBlock DEF pool
<1>18. PoolInv'
  <2>1. ~buffer[n].pooled /\ ~buffer'[n].pooled
    BY <1>3, <1>9 DEF None
  <2>2. \A u \in Threads : pc[u] = "pool_free" => pc'[u] = "pool_free"
    BY <1>1, <1>10
  <2> QED BY <1>1, <1>9, <1>13, <2>1, <2>2, PoolAlone
<1> QED BY <1>11, <1>14, <1>15, <1>16, <1>17, <1>18 DEF BufInv

-----------------------------------------------------------------------------
(* The end of a buffer.  The thread that dropped its last reference is     *)
(* alone with it.                                                          *)
LEMMA AloneWith ==
  ASSUME BufInv, NEW t \in Threads, NEW b \in Buffers, b = arg[t],
         pc[t] \in {"free", "returned", "got"}
  PROVE  /\ Owned(b) = 0 /\ buffer[b].data # 0
         /\ \A u \in Threads : refs[u][b] = 0
         /\ \A u \in Threads \ {t} : pc[u] \notin {"idle", "pool_free"} => arg[u] # b
<1>1. /\ TypeOK /\ CountInv(b) /\ ThreadInv(t)
      /\ \A u \in Threads : ThreadInv(u) /\ ApartInv(t, u)
  BY DEF BufInv
<1>2. Owned(b) = 0
  BY <1>1 DEF CountInv, ThreadInv, BeingGot, Getting, ApartInv
<1>3. \A u \in Threads : refs[u][b] = 0
  <2> TAKE u \in Threads
  <2>1. refs[u][b] \in Nat /\ refs[u][b] <= Owned(b)
    BY <1>1, OneOwns, BufferAssumption DEF TypeOK, BufferAssumption
  <2> QED BY <1>2, <2>1
<1>4. ASSUME NEW u \in Threads \ {t}, pc[u] \notin {"idle", "pool_free"}, arg[u] = b
      PROVE  FALSE
  <2>1. pc[u] \in {"write", "copy", "recopy", "move", "free", "returned", "got"}
    BY <1>1, <1>4 DEF TypeOK, Label
  <2>2. refs[u][b] = 0 /\ ThreadInv(u) /\ ApartInv(t, u)
    BY <1>1, <1>3, <1>4
  <2> QED BY <1>4, <2>1, <2>2 DEF ThreadInv, ApartInv
<1> QED BY <1>1, <1>2, <1>3, <1>4 DEF ThreadInv
LEMMA MoveKeeps ==
  ASSUME BufInv, NEW t \in Threads, Move(t)
  PROVE  BufInv'
<1>1. /\ pc[t] = "move" /\ Data # allocated /\ TypeOK /\ MaxBlocks \in Nat
      /\ UNCHANGED <<refs, pool>>
      /\ pc' = [pc EXCEPT ![t] = "idle"] /\ arg' = [arg EXCEPT ![t] = 0]
  BY BufferAssumption DEF Move, Goto, BufInv, BufferAssumption
<1>2. PICK b \in Buffers : b = arg[t] /\ refs[t][b] > 0 /\ buffer[b].data # 0
  BY <1>1 DEF BufInv, ThreadInv
<1>3. PICK d \in Data \ allocated : d = Block
  BY <1>1, FreeBlock
<1>4. /\ allocated' = (allocated \ {buffer[b].data}) \cup {d}
      /\ buffer' = [buffer EXCEPT ![b].data = d]
  BY <1>2, <1>3 DEF Move
<1>5. /\ ~BeingGot(b) /\ buffer[b].refcount > 0
      /\ \A u \in Threads : ~Dying(u, b) /\ (u # t /\ pc[u] \in {"write", "move"} => arg[u] # b)
  BY <1>2, Referenced
<1>6. /\ buffer'[b].data = d /\ buffer'[b].refcount = buffer[b].refcount
      /\ buffer'[b].pooled = buffer[b].pooled
      /\ \A c \in Buffers \ {b} : buffer'[c] = buffer[c]
      /\ buffer' \in [Buffers -> AVBuffers]
  <2> DEFINE moved == [buffer[b] EXCEPT !.data = d]
  <2>1. /\ moved \in AVBuffers /\ moved.data = d /\ moved.refcount = buffer[b].refcount
        /\ moved.pooled = buffer[b].pooled
    <3>1. buffer[b] \in AVBuffers /\ d \in 0 .. MaxBlocks
      BY <1>1, <1>3 DEF TypeOK, Data
    <3> QED BY <3>1 DEF AVBuffers
  <2>2. buffer' = [buffer EXCEPT ![b] = moved]
    BY <1>1, <1>4 DEF TypeOK
  <2> HIDE DEF moved
  <2> QED BY <1>1, <2>1, <2>2 DEF TypeOK
<1>7. /\ pc'[t] = "idle" /\ \A u \in Threads \ {t} : pc'[u] = pc[u] /\ arg'[u] = arg[u]
      /\ pc' \in [Threads -> Label] /\ arg' \in [Threads -> 0 .. MaxBuffers]
  BY <1>1, BufferAssumption DEF TypeOK, Label, BufferAssumption
<1>8. TypeOK'
  BY <1>1, <1>4, <1>6, <1>7 DEF TypeOK, pool
<1>9. \A u \in Threads, c \in Buffers : /\ Getting(u, c)' <=> Getting(u, c)
                                        /\ Dying(u, c)' <=> Dying(u, c)
                                        /\ Gone(u, c)' <=> Gone(u, c)
  BY <1>1, <1>7 DEF Getting, Dying, Gone
<1>10. (\A u \in Threads : ThreadInv(u))'
  <2> SUFFICES ASSUME NEW u \in Threads PROVE ThreadInv(u)'
    OBVIOUS
  <2>1. ThreadInv(u)
    BY DEF BufInv
  <2>2. CASE u = t
    BY <1>7, <2>2 DEF ThreadInv
  <2>3. CASE u # t /\ arg[u] = b
    <3>1. pc[u] \notin {"write", "move", "free", "returned", "got"}
      BY <1>5, <2>3 DEF BeingGot, Getting, Dying
    <3> QED BY <1>1, <1>3, <1>6, <1>7, <2>1, <2>3, <3>1 DEF ThreadInv, pool, Data
  <2>4. CASE u # t /\ arg[u] # b
    <3>1. pc[u] \notin {"idle", "pool_free"} => arg[u] \in Buffers \ {b}
      BY <2>1, <2>4 DEF ThreadInv
    <3> QED BY <1>1, <1>6, <1>7, <2>4, <3>1, OthersAlone DEF pool
  <2> QED BY <2>2, <2>3, <2>4
<1>11. (\A u, v \in Threads : ApartInv(u, v))'
  <2> SUFFICES ASSUME NEW u \in Threads, NEW v \in Threads PROVE ApartInv(u, v)'
    OBVIOUS
  <2>1. CASE u # t /\ v # t
    BY <1>7, <2>1, PairAlone
  <2>2. CASE u = t \/ v = t
    BY <1>7, <2>2 DEF ApartInv
  <2> QED BY <2>1, <2>2
<1>12. (\A c \in Buffers : CountInv(c))'
  <2> SUFFICES ASSUME NEW c \in Buffers PROVE CountInv(c)'
    OBVIOUS
  <2>1. CountInv(c) /\ BeingGot(c)' = BeingGot(c) /\ Owned(c)' = Owned(c)
    BY <1>1, <1>9, OwnedSame DEF BufInv, BeingGot
  <2>2. CASE c = b
    BY <1>3, <1>5, <1>6, <2>1, <2>2 DEF CountInv, Data
  <2>3. CASE c # b
    BY <1>6, <1>9, <2>1, <2>3 DEF CountInv
  <2> QED BY <2>2, <2>3
<1>13. Listed' = Listed /\ Listed \subseteq allocated /\ listed' = listed
  BY <1>1 DEF Listed, BufInv, ListInv, pool
<1>14. \A c \in Buffers : /\ Held(c)' <=> Held(c)
                          /\ Held(b)
                          /\ c # b /\ Held(c) => /\ buffer[c].data \in allocated \ Listed
                                                 /\ buffer[c].data # buffer[b].data
                                                 /\ buffer'[c].data = buffer[c].data
  <2>1. Held(b) /\ Held(b)'
    BY <1>2, <1>3, <1>5, <1>6, <1>9 DEF Held, Dying, Gone, Data
  <2>2. \A c \in Buffers : DataInv(c, b)
    BY DEF BufInv
  <2> QED BY <1>6, <1>9, <2>1, <2>2 DEF Held, DataInv
<1>15. buffer[b].data \in allocated \ Listed
  BY <1>14 DEF BufInv, DataInv
<1>16. (\A c, a \in Buffers : DataInv(c, a))'
  <2> SUFFICES ASSUME NEW c \in Buffers, NEW a \in Buffers PROVE DataInv(c, a)'
    OBVIOUS
  <2>1. DataInv(c, a)
    BY DEF BufInv
  <2>2. CASE c = b
    BY <1>3, <1>4, <1>6, <1>13, <1>14, <2>2 DEF DataInv
  <2>3. CASE c # b
    BY <1>3, <1>4, <1>6, <1>13, <1>14, <2>1, <2>3 DEF DataInv
  <2> QED BY <2>2, <2>3
<1>17. ListInv'
  BY <1>4, <1>13, <1>15 DEF BufInv, ListInv
<1>18. MemoryInv'
  <2> SUFFICES ASSUME NEW x \in allocated'
               PROVE  x \in Listed \/ \E c \in Buffers : Held(c)' /\ buffer'[c].data = x
    BY <1>13 DEF MemoryInv
  <2>1. CASE x = d
    BY <1>6, <1>14, <2>1
  <2>2. CASE x \in allocated \ {buffer[b].data} /\ x \notin Listed
    <3>1. PICK c \in Buffers : Held(c) /\ buffer[c].data = x
      BY <2>2 DEF BufInv, MemoryInv
    <3> QED BY <1>14, <2>2, <3>1
  <2> QED BY <1>4, <2>1, <2>2
<1>19. PoolInv'
  <2>1. \A u \in Threads : pc[u] = "pool_free" => pc'[u] = "pool_free"
    BY <1>1, <1>7
  <2> QED BY <1>1, <1>6, <1>9, <2>1, PoolAlone
<1> QED BY <1>8, <1>10, <1>11, <1>12, <1>16, <1>17, <1>18, <1>19 DEF BufInv

(* Blocks that leave the memory or the list of the pool, once b does not   *)
(* hold its own any more.                                                  *)
LEMMA Released ==
  ASSUME BufInv, NEW b \in Buffers, Held(b), ~Held(b)',
         \A c \in Buffers \ {b} : (Held(c)' <=> Held(c)) /\ buffer'[c].data = buffer[c].data
  PROVE  /\ buffer[b].data \in allocated \ Listed
         /\ \A c \in Buffers : Held(c)' => /\ Held(c) /\ c # b /\ buffer'[c].data = buffer[c].data
                                           /\ buffer[c].data \in allocated \ Listed
                                           /\ buffer[c].data # buffer[b].data
         /\ \A x \in allocated \ Listed :
              x # buffer[b].data => \E c \in Buffers : Held(c)' /\ buffer'[c].data = x
<1>1. \A c, a \in Buffers : DataInv(c, a)
  BY DEF BufInv
<1>2. ASSUME NEW x \in allocated \ Listed, x # buffer[b].data
      PROVE  \E c \in Buffers : Held(c)' /\ buffer'[c].data = x
  <2>1. PICK c \in Buffers : Held(c) /\ buffer[c].data = x
    BY <1>2 DEF BufInv, MemoryInv
  <2> QED BY <1>2, <2>1
<1> QED BY <1>1, <1>2 DEF DataInv

LEMMA FreeDataKeeps ==
  ASSUME BufInv, NEW t \in Threads, FreeData(t)
  PROVE  BufInv'
<1>1. /\ pc[t] = "free" /\ TypeOK /\ UNCHANGED <<refs, pool>>
      /\ pc' = [pc EXCEPT ![t] = "idle"] /\ arg' = [arg EXCEPT ![t] = 0]
  BY DEF FreeData, Goto, BufInv
<1>2. PICK b \in Buffers : b = arg[t]
  BY <1>1 DEF BufInv, ThreadInv
<1>3. /\ ~buffer[b].pooled /\ allocated' = allocated \ {buffer[b].data}
      /\ buffer' = [buffer EXCEPT ![b] = None]
  BY <1>2 DEF FreeData
<1>4. /\ Owned(b) = 0 /\ buffer[b].data # 0
      /\ \A u \in Threads \ {t} : pc[u] \notin {"idle", "pool_free"} => arg[u] # b
  BY <1>1, <1>2, AloneWith
<1>5. /\ buffer'[b] = None /\ \A c \in Buffers \ {b} : buffer'[c] = buffer[c]
      /\ buffer' \in [Buffers -> AVBuffers]
  <2>1. None \in AVBuffers
    BY BufferAssumption DEF None, AVBuffers, BufferAssumption
  <2> QED BY <1>1, <1>3, <2>1 DEF TypeOK
<1>6. /\ pc'[t] = "idle" /\ \A u \in Threads \ {t} : pc'[u] = pc[u] /\ arg'[u] = arg[u]
      /\ pc' \in [Threads -> Label] /\ arg' \in [Threads -> 0 .. MaxBuffers]
  BY <1>1, BufferAssumption DEF TypeOK, Label, BufferAssumption
<1>7. TypeOK'
  BY <1>1, <1>3, <1>5, <1>6 DEF TypeOK, pool
<1>8. \A u \in Threads, c \in Buffers : /\ Getting(u, c)' <=> Getting(u, c)
                                        /\ c # b => (Dying(u, c)' <=> Dying(u, c))
                                        /\ Gone(u, c)' <=> Gone(u, c)
                                        /\ ~Gone(u, b)
  BY <1>1, <1>2, <1>4, <1>6 DEF Getting, Dying, Gone
<1>9. (\A u \in Threads : ThreadInv(u))'
  <2> SUFFICES ASSUME NEW u \in Threads PROVE ThreadInv(u)'
    OBVIOUS
  <2>1. CASE u = t
    BY <1>6, <2>1 DEF ThreadInv
  <2>2. CASE u # t
    <3>1. pc[u] \notin {"idle", "pool_free"} => arg[u] \in Buffers \ {b}
      BY <1>4, <2>2 DEF BufInv, ThreadInv
    <3> QED BY <1>1, <1>5, <1>6, <2>2, <3>1, OthersAlone DEF pool
  <2> QED BY <2>1, <2>2
<1>10. (\A u, v \in Threads : ApartInv(u, v))'
  <2> SUFFICES ASSUME NEW u \in Threads, NEW v \in Threads PROVE ApartInv(u, v)'
    OBVIOUS
  <2>1. CASE u # t /\ v # t
    BY <1>6, <2>1, PairAlone
  <2>2. CASE u = t \/ v = t
    BY <1>6, <2>2 DEF ApartInv
  <2> QED BY <2>1, <2>2
<1>11. (\A c \in Buffers : CountInv(c))'
  <2> SUFFICES ASSUME NEW c \in Buffers PROVE CountInv(c)'
    OBVIOUS
  <2>1. CountInv(c) /\ BeingGot(c)' = BeingGot(c) /\ Owned(c)' = Owned(c)
    BY <1>1, <1>8, OwnedSame DEF BufInv, BeingGot
  <2>2. CASE c = b
    BY <1>4, <1>5, <2>1, <2>2 DEF CountInv, None
  <2>3. CASE c # b
    BY <1>5, <1>8, <2>1, <2>3 DEF CountInv
  <2> QED BY <2>2, <2>3
<1>12. Listed' = Listed /\ Listed \subseteq allocated /\ listed' = listed
  BY <1>1 DEF Listed, BufInv, ListInv, pool
<1>13. /\ Held(b) /\ ~Held(b)'
       /\ \A c \in Buffers \ {b} : (Held(c)' <=> Held(c)) /\ buffer'[c].data = buffer[c].data
  BY <1>4, <1>5, <1>8 DEF Held, None
<1>14. (\A c, a \in Buffers : DataInv(c, a))'
  <2> SUFFICES ASSUME NEW c \in Buffers, NEW a \in Buffers PROVE DataInv(c, a)'
    OBVIOUS
  <2>1. DataInv(c, a)
    BY DEF BufInv
  <2> QED BY <1>3, <1>12, <1>13, <2>1, Released DEF DataInv
<1>15. ListInv'
  BY <1>3, <1>12, <1>13, Released DEF BufInv, ListInv
<1>16. MemoryInv'
  BY <1>3, <1>12, <1>13, Released DEF MemoryInv
<1>17. PoolInv'
  <2>1. ~buffer[b].pooled /\ ~buffer'[b].pooled
    BY <1>3, <1>5 DEF None
  <2>2. \A u \in Threads : pc[u] = "pool_free" => pc'[u] = "pool_free"
    BY <1>1, <1>6
  <2> QED BY <1>1, <1>5, <1>8, <2>1, <2>2, PoolAlone
<1> QED BY <1>7, <1>9, <1>10, <1>11, <1>14, <1>15, <1>16, <1>17 DEF BufInv
-----------------------------------------------------------------------------
(* The pool.                                                               *)
LEMMA LentFinite == IsFiniteSet(Lent) /\ Cardinality(Lent) \in Nat
<1>1. IsFiniteSet(Buffers) /\ Lent \subseteq Buffers
  BY BufferAssumption, FS_Interval DEF BufferAssumption, Buffers, Lent
<1> QED BY <1>1, FS_Subset, FS_CardinalityType

(* As long as a buffer of the pool or the users' pointer is out, the pool  *)
(* exists and nobody frees it.                                             *)
LEMMA PoolKept ==
  ASSUME BufInv, handle \/ Lent # {}
  PROVE  refcount > 0 /\ alive /\ \A t \in Threads : pc[t] # "pool_free"
<1>1. Lent # {} => Cardinality(Lent) > 0
  BY LentFinite, FS_EmptySet
<1>2. refcount > 0 /\ alive
  BY <1>1, LentFinite DEF BufInv, PoolInv
<1> QED BY <1>2 DEF BufInv, ThreadInv

(* The list of the pool with one entry more, or one less. *)
LEMMA Pushed ==
  ASSUME listed \in Seq(Data), NEW d \in Data, listed' = <<d>> \o listed,
         \A j, k \in DOMAIN listed : listed[j] = listed[k] => j = k, d \notin Listed
  PROVE  /\ listed' \in Seq(Data) /\ Listed' = Listed \cup {d}
         /\ \A j, k \in DOMAIN listed' : listed'[j] = listed'[k] => j = k
<1>1. /\ listed' \in Seq(Data) /\ Len(listed') = Len(listed) + 1 /\ listed'[1] = d
      /\ \A k \in 2 .. Len(listed) + 1 : listed'[k] = listed[k - 1]
      /\ Len(listed) \in Nat
  OBVIOUS
<1>2. DOMAIN listed = 1 .. Len(listed) /\ DOMAIN listed' = 1 .. Len(listed) + 1
  BY <1>1
<1>3. \A k \in 2 .. Len(listed) + 1 : k - 1 \in 1 .. Len(listed)
  BY <1>1
<1>4. \A k \in 1 .. Len(listed) : k + 1 \in 2 .. Len(listed) + 1 /\ listed'[k + 1] = listed[k]
  BY <1>1
<1>5. Listed' = Listed \cup {d}
  <2>1. Listed' \subseteq Listed \cup {d}
    BY <1>1, <1>2, <1>3 DEF Listed
  <2>2. Listed \subseteq Listed'
    <3> SUFFICES ASSUME NEW k \in 1 .. Len(listed) PROVE listed[k] \in Listed'
      BY <1>2 DEF Listed
    <3>1. k + 1 \in 1 .. Len(listed) + 1 /\ listed'[k + 1] = listed[k]
      BY <1>1, <1>4
    <3> QED BY <1>2, <3>1 DEF Listed
  <2>3. d \in Listed'
    BY <1>1, <1>2 DEF Listed
  <2> QED BY <2>1, <2>2, <2>3
<1>6. \A j, k \in DOMAIN listed' : listed'[j] = listed'[k] => j = k
  <2> SUFFICES ASSUME NEW j \in 1 .. Len(listed) + 1, NEW k \in 1 .. Len(listed) + 1,
                      listed'[j] = listed'[k]
               PROVE  j = k
    BY <1>2
  <2>1. \A m \in 1 .. Len(listed) + 1 :
          m # 1 => m - 1 \in 1 .. Len(listed) /\ listed'[m] = listed[m - 1] /\ listed'[m] # d
    BY <1>1, <1>2, <1>3 DEF Listed
  <2>2. CASE j = 1 \/ k = 1
    BY <1>1, <2>1, <2>2
  <2>3. CASE j # 1 /\ k # 1
    <3>1. j - 1 = k - 1
      BY <1>2, <2>1, <2>3
    <3> QED BY <1>1, <3>1
  <2> QED BY <2>2, <2>3
<1> QED BY <1>1, <1>5, <1>6

LEMMA Popped ==
  ASSUME listed \in Seq(Data), listed # <<>>, listed' = Tail(listed),
         \A j, k \in DOMAIN listed : listed[j] = listed[k] => j = k
  PROVE  /\ listed' \in Seq(Data) /\ Head(listed) \in Listed /\ Listed' = Listed \ {Head(listed)}
         /\ \A j, k \in DOMAIN listed' : listed'[j] = listed'[k] => j = k
<1>1. /\ listed' \in Seq(Data) /\ Len(listed') = Len(listed) - 1 /\ Head(listed) = listed[1]
      /\ \A k \in 1 .. Len(listed) - 1 : listed'[k] = listed[k + 1]
      /\ Len(listed) \in Nat /\ Len(listed) >= 1
  OBVIOUS
<1>2. DOMAIN listed = 1 .. Len(listed) /\ DOMAIN listed' = 1 .. Len(listed) - 1
  BY <1>1
<1>3. \A k \in 1 .. Len(listed) - 1 : k + 1 \in 1 .. Len(listed) /\ k + 1 # 1
  BY <1>1
<1>4. \A k \in 2 .. Len(listed) : k - 1 \in 1 .. Len(listed) - 1 /\ listed'[k - 1] = listed[k]
  BY <1>1
<1>5. Listed' = Listed \ {Head(listed)}
  <2>1. Listed' \subseteq Listed \ {Head(listed)}
    BY <1>1, <1>2, <1>3 DEF Listed
  <2>2. Listed \ {Head(listed)} \subseteq Listed'
    <3> SUFFICES ASSUME NEW k \in 1 .. Len(listed), k # 1 PROVE listed[k] \in Listed'
      BY <1>1, <1>2 DEF Listed
    <3>1. k - 1 \in 1 .. Len(listed) - 1 /\ listed'[k - 1] = listed[k]
      BY <1>1, <1>4
    <3> QED BY <1>2, <3>1 DEF Listed
  <2> QED BY <2>1, <2>2
<1>6. \A j, k \in DOMAIN listed' : listed'[j] = listed'[k] => j = k
  BY <1>1, <1>2, <1>3
<1>7. Head(listed) \in Listed
  BY <1>1, <1>2 DEF Listed
<1> QED BY <1>1, <1>5, <1>6, <1>7

LEMMA ReturnEntryKeeps ==
  ASSUME BufInv, NEW t \in Threads, ReturnEntry(t)
  PROVE  BufInv'
<1>1. /\ pc[t] = "free" /\ TypeOK /\ UNCHANGED <<refs, buffer, allocated, handle, alive, refcount>>
      /\ pc' = [pc EXCEPT ![t] = "returned"] /\ arg' = [arg EXCEPT ![t] = arg[t]]
  BY DEF ReturnEntry, Goto, BufInv
<1>2. PICK b \in Buffers : b = arg[t]
  BY <1>1 DEF BufInv, ThreadInv
<1>3. buffer[b].pooled /\ listed' = <<buffer[b].data>> \o listed
  BY <1>2 DEF ReturnEntry
<1>4. /\ Owned(b) = 0 /\ buffer[b].data # 0
      /\ \A u \in Threads \ {t} : pc[u] \notin {"idle", "pool_free"} => arg[u] # b
  BY <1>1, <1>2, AloneWith
<1>5. /\ pc'[t] = "returned" /\ \A u \in Threads \ {t} : pc'[u] = pc[u]
      /\ arg' = arg /\ pc' \in [Threads -> Label]
  BY <1>1 DEF TypeOK, Label
<1>6. \A u \in Threads, c \in Buffers : /\ Getting(u, c)' <=> Getting(u, c)
                                        /\ Dying(u, c)' <=> Dying(u, c)
                                        /\ c # b => (Gone(u, c)' <=> Gone(u, c))
                                        /\ ~Gone(u, b) /\ ~Getting(u, b)
  BY <1>1, <1>2, <1>4, <1>5 DEF Getting, Dying, Gone
<1>7. /\ Held(b) /\ ~Held(b)' /\ Gone(t, b)'
      /\ \A c \in Buffers \ {b} : (Held(c)' <=> Held(c)) /\ buffer'[c].data = buffer[c].data
  BY <1>1, <1>2, <1>4, <1>5, <1>6 DEF Held, Gone
<1>8. buffer[b].data \in Data /\ buffer[b].data \in allocated \ Listed
  BY <1>1, <1>7, Released DEF TypeOK
<1>9. /\ listed' \in Seq(Data) /\ Listed' = Listed \cup {buffer[b].data}
      /\ \A j, k \in DOMAIN listed' : listed'[j] = listed'[k] => j = k
  BY <1>1, <1>3, <1>8, Pushed DEF BufInv, ListInv, TypeOK
<1>10. TypeOK'
  BY <1>1, <1>5, <1>9 DEF TypeOK
<1>11. (\A u \in Threads : ThreadInv(u))'
  <2> SUFFICES ASSUME NEW u \in Threads PROVE ThreadInv(u)'
    OBVIOUS
  <2>1. CASE u = t
    <3>1. buffer[b].refcount = 0
      BY <1>1, <1>2 DEF BufInv, ThreadInv
    <3> QED BY <1>1, <1>2, <1>3, <1>4, <1>5, <2>1, <3>1 DEF ThreadInv
  <2>2. CASE u # t
    BY <1>1, <1>5, <2>2, OthersAlone
  <2> QED BY <2>1, <2>2
<1>12. (\A u, v \in Threads : ApartInv(u, v))'
  <2> SUFFICES ASSUME NEW u \in Threads, NEW v \in Threads PROVE ApartInv(u, v)'
    OBVIOUS
  <2>1. CASE u # t /\ v # t
    BY <1>5, <2>1, PairAlone
  <2>2. CASE u = t \/ v = t
    BY <1>2, <1>4, <1>5, <2>2 DEF ApartInv
  <2> QED BY <2>1, <2>2
<1>13. (\A c \in Buffers : CountInv(c))'
  <2> SUFFICES ASSUME NEW c \in Buffers PROVE CountInv(c)'
    OBVIOUS
  <2>1. CountInv(c) /\ BeingGot(c)' = BeingGot(c) /\ Owned(c)' = Owned(c)
    BY <1>1, <1>6, OwnedSame DEF BufInv, BeingGot
  <2> QED BY <1>1, <1>6, <2>1 DEF CountInv
<1>14. (\A c, a \in Buffers : DataInv(c, a))'
  <2> SUFFICES ASSUME NEW c \in Buffers, NEW a \in Buffers PROVE DataInv(c, a)'
    OBVIOUS
  <2>1. DataInv(c, a)
    BY DEF BufInv
  <2> QED BY <1>1, <1>7, <1>9, <2>1, Released DEF DataInv
<1>15. ListInv'
  BY <1>1, <1>8, <1>9 DEF BufInv, ListInv
<1>16. MemoryInv'
  BY <1>1, <1>7, <1>9, Released DEF MemoryInv
<1>17. PoolInv'
  <2>1. Lent' = Lent /\ b \in Lent
    BY <1>1, <1>3, <1>6 DEF Lent, BeingGot
  <2>2. refcount > 0 /\ alive
    BY <2>1, PoolKept
  <2> QED BY <1>1, <2>1, <2>2 DEF BufInv, PoolInv
<1> QED BY <1>10, <1>11, <1>12, <1>13, <1>14, <1>15, <1>16, <1>17 DEF BufInv
LEMMA ReleaseEntryKeeps ==
  ASSUME BufInv, NEW t \in Threads, ReleaseEntry(t)
  PROVE  BufInv'
<1>1. /\ pc[t] = "returned" /\ TypeOK /\ UNCHANGED <<refs, allocated, handle, alive, listed>>
      /\ refcount' = refcount - 1
      /\ pc' = [pc EXCEPT ![t] = IF refcount = 1 THEN "pool_free" ELSE "idle"]
      /\ arg' = [arg EXCEPT ![t] = 0]
  BY DEF ReleaseEntry, DropPool, LastOfPool, Goto, BufInv
<1>2. PICK b \in Buffers : b = arg[t] /\ buffer[b].pooled
  BY <1>1 DEF BufInv, ThreadInv
<1>3. buffer' = [buffer EXCEPT ![b] = None]
  BY <1>2 DEF ReleaseEntry
<1>4. /\ Owned(b) = 0 /\ buffer[b].data # 0
      /\ \A u \in Threads \ {t} : pc[u] \notin {"idle", "pool_free"} => arg[u] # b
  BY <1>1, <1>2, AloneWith
<1>5. /\ buffer'[b] = None /\ \A c \in Buffers \ {b} : buffer'[c] = buffer[c]
      /\ buffer' \in [Buffers -> AVBuffers]
  <2>1. None \in AVBuffers
    BY BufferAssumption DEF None, AVBuffers, BufferAssumption
  <2> QED BY <1>1, <1>3, <2>1 DEF TypeOK
<1>6. /\ pc'[t] = (IF refcount = 1 THEN "pool_free" ELSE "idle")
      /\ \A u \in Threads \ {t} : pc'[u] = pc[u] /\ arg'[u] = arg[u]
      /\ pc' \in [Threads -> Label] /\ arg' \in [Threads -> 0 .. MaxBuffers]
  BY <1>1, BufferAssumption DEF TypeOK, Label, BufferAssumption
<1>7. \A u \in Threads, c \in Buffers : /\ Getting(u, c)' <=> Getting(u, c)
                                        /\ c # b => (Dying(u, c)' <=> Dying(u, c))
                                        /\ c # b => (Gone(u, c)' <=> Gone(u, c))
                                        /\ ~Getting(u, b)
  BY <1>1, <1>2, <1>4, <1>6 DEF Getting, Dying, Gone
<1>8. /\ b \in Lent /\ Lent' = Lent \ {b}
      /\ Cardinality(Lent') = Cardinality(Lent) - 1
      /\ refcount > 0 /\ alive /\ \A u \in Threads : pc[u] # "pool_free"
  <2>1. b \in Lent /\ Lent' = Lent \ {b}
    BY <1>2, <1>5, <1>7 DEF Lent, BeingGot, None
  <2> QED BY <2>1, LentFinite, FS_RemoveElement, PoolKept
<1>9. TypeOK'
  BY <1>1, <1>5, <1>6, <1>8 DEF TypeOK
<1>10. (\A u \in Threads : ThreadInv(u))'
  <2> SUFFICES ASSUME NEW u \in Threads PROVE ThreadInv(u)'
    OBVIOUS
  <2>1. CASE u = t
    <3>1. refcount \in Nat /\ alive'
      BY <1>1, <1>8 DEF TypeOK
    <3>2. pc'[u] = "pool_free" => refcount' = 0
      BY <1>1, <1>6, <2>1, <3>1
    <3> QED BY <1>6, <2>1, <3>1, <3>2 DEF ThreadInv
  <2>2. CASE u # t
    <3>1. ThreadInv(u) /\ pc[u] # "pool_free"
      BY <1>8 DEF BufInv
    <3>2. pc[u] \notin {"idle", "pool_free"} =>
            arg[u] \in Buffers \ {b} /\ Owned(arg[u])' = Owned(arg[u])
      BY <1>1, <1>4, <2>2, <3>1, OwnedSame DEF ThreadInv
    <3> QED BY <1>1, <1>5, <1>6, <2>2, <3>1, <3>2 DEF ThreadInv
  <2> QED BY <2>1, <2>2
<1>11. (\A u, v \in Threads : ApartInv(u, v))'
  <2> SUFFICES ASSUME NEW u \in Threads, NEW v \in Threads PROVE ApartInv(u, v)'
    OBVIOUS
  <2>1. CASE u # t /\ v # t
    BY <1>6, <2>1, PairAlone
  <2>2. CASE u = t \/ v = t
    BY <1>6, <1>8, <2>2 DEF ApartInv
  <2> QED BY <2>1, <2>2
<1>12. (\A c \in Buffers : CountInv(c))'
  <2> SUFFICES ASSUME NEW c \in Buffers PROVE CountInv(c)'
    OBVIOUS
  <2>1. CountInv(c) /\ BeingGot(c)' = BeingGot(c) /\ Owned(c)' = Owned(c)
    BY <1>1, <1>7, OwnedSame DEF BufInv, BeingGot
  <2>2. CASE c = b
    BY <1>4, <1>5, <2>1, <2>2 DEF CountInv, None
  <2>3. CASE c # b
    BY <1>5, <1>7, <2>1, <2>3 DEF CountInv
  <2> QED BY <2>2, <2>3
<1>13. (\A c, a \in Buffers : DataInv(c, a))' /\ ListInv' /\ MemoryInv'
  <2>1. ~Held(b) /\ ~Held(b)'
    BY <1>1, <1>2, <1>5 DEF Held, Gone, None
  <2> QED BY <1>1, <1>5, <1>7, <2>1, MemoryAlone DEF Held
<1>14. PoolInv'
  <2>1. refcount = Cardinality(Lent) + (IF handle THEN 1 ELSE 0) /\ refcount \in Nat
    BY <1>1 DEF BufInv, PoolInv, TypeOK
  <2>2. refcount' = Cardinality(Lent') + (IF handle' THEN 1 ELSE 0)
    BY <1>1, <1>8, <2>1, LentFinite
  <2>3. refcount' = 0 => \E u \in Threads : pc'[u] = "pool_free"
    BY <1>1, <1>6, <2>1
  <2> QED BY <1>1, <1>8, <2>2, <2>3 DEF PoolInv
<1> QED BY <1>9, <1>10, <1>11, <1>12, <1>13, <1>14 DEF BufInv

LEMMA PoolFreeKeeps ==
  ASSUME BufInv, NEW t \in Threads, PoolFree(t)
  PROVE  BufInv'
<1>1. /\ pc[t] = "pool_free" /\ TypeOK /\ UNCHANGED <<refs, buffer, handle, refcount>>
      /\ allocated' = allocated \ Listed /\ listed' = <<>> /\ alive' = FALSE
      /\ pc' = [pc EXCEPT ![t] = "idle"] /\ arg' = [arg EXCEPT ![t] = 0]
  BY DEF PoolFree, Goto, BufInv
<1>2. refcount = 0 /\ \A u \in Threads \ {t} : pc[u] # "pool_free"
  BY <1>1 DEF BufInv, ThreadInv, ApartInv
<1>3. /\ pc'[t] = "idle" /\ \A u \in Threads \ {t} : pc'[u] = pc[u] /\ arg'[u] = arg[u]
      /\ pc' \in [Threads -> Label] /\ arg' \in [Threads -> 0 .. MaxBuffers]
  BY <1>1, BufferAssumption DEF TypeOK, Label, BufferAssumption
<1>4. TypeOK'
  <2>1. <<>> \in Seq(Data)
    OBVIOUS
  <2>2. allocated' \subseteq Data
    BY <1>1 DEF TypeOK
  <2> QED BY <1>1, <1>3, <2>1, <2>2 DEF TypeOK
<1>5. \A u \in Threads, c \in Buffers : /\ Getting(u, c)' <=> Getting(u, c)
                                        /\ Dying(u, c)' <=> Dying(u, c)
                                        /\ Gone(u, c)' <=> Gone(u, c)
  BY <1>1, <1>3 DEF Getting, Dying, Gone
<1>6. (\A u \in Threads : ThreadInv(u))'
  <2> SUFFICES ASSUME NEW u \in Threads PROVE ThreadInv(u)'
    OBVIOUS
  <2>1. CASE u = t
    BY <1>3, <2>1 DEF ThreadInv
  <2>2. CASE u # t
    <3>1. ThreadInv(u) /\ pc[u] # "pool_free"
      BY <1>2, <2>2 DEF BufInv
    <3>2. pc[u] \notin {"idle", "pool_free"} => Owned(arg[u])' = Owned(arg[u])
      BY <1>1, <3>1, OwnedSame DEF ThreadInv
    <3> QED BY <1>1, <1>3, <2>2, <3>1, <3>2 DEF ThreadInv
  <2> QED BY <2>1, <2>2
<1>7. (\A u, v \in Threads : ApartInv(u, v))'
  <2> SUFFICES ASSUME NEW u \in Threads, NEW v \in Threads PROVE ApartInv(u, v)'
    OBVIOUS
  <2>1. CASE u # t /\ v # t
    BY <1>3, <2>1, PairAlone
  <2>2. CASE u = t \/ v = t
    BY <1>3, <2>2 DEF ApartInv
  <2> QED BY <2>1, <2>2
<1>8. (\A c \in Buffers : CountInv(c))'
  <2> SUFFICES ASSUME NEW c \in Buffers PROVE CountInv(c)'
    OBVIOUS
  <2>1. CountInv(c) /\ BeingGot(c)' = BeingGot(c) /\ Owned(c)' = Owned(c)
    BY <1>1, <1>5, OwnedSame DEF BufInv, BeingGot
  <2> QED BY <1>1, <1>5, <2>1 DEF CountInv
<1>9. Listed' = {}
  BY <1>1 DEF Listed
<1>10. \A c \in Buffers : Held(c)' <=> Held(c)
  BY <1>1, <1>5 DEF Held
<1>11. (\A c, a \in Buffers : DataInv(c, a))'
  <2>1. \A c, a \in Buffers : DataInv(c, a)
    BY DEF BufInv
  <2> QED BY <1>1, <1>9, <1>10, <2>1 DEF DataInv
<1>12. ListInv'
  BY <1>1, <1>9 DEF ListInv
<1>13. MemoryInv'
  BY <1>1, <1>9, <1>10 DEF BufInv, MemoryInv
<1>14. PoolInv'
  <2>1. Lent' = Lent
    BY <1>1, <1>5 DEF Lent, BeingGot
  <2> QED BY <1>1, <1>2, <2>1 DEF BufInv, PoolInv
<1> QED BY <1>4, <1>6, <1>7, <1>8, <1>11, <1>12, <1>13, <1>14 DEF BufInv

LEMMA PoolGetKeeps ==
  ASSUME BufInv, NEW t \in Threads, PoolGet(t)
  PROVE  BufInv'
<1>1. /\ pc[t] = "idle" /\ handle /\ Unused # {} /\ TypeOK
      /\ MaxRefs \in Nat \ {0} /\ MaxBlocks \in Nat
      /\ UNCHANGED <<refs, handle, alive, refcount>>
      /\ pc' = [pc EXCEPT ![t] = "got"] /\ arg' = [arg EXCEPT ![t] = Slot]
  BY BufferAssumption DEF PoolGet, Goto, BufInv, BufferAssumption
<1>2. PICK b \in Buffers :
        /\ b = Slot /\ buffer[b] = None /\ Owned(b) = 0
        /\ \A u \in Threads : refs[u][b] = 0 /\ (pc[u] \notin {"idle", "pool_free"} => arg[u] # b)
  BY <1>1, FreeSlot
<1>3. PICK d \in Data :
        /\ buffer' = [buffer EXCEPT ![b] = [data |-> d, refcount |-> 1, pooled |-> TRUE, flags |-> {}]]
        /\ \/ /\ listed # <<>> /\ listed' = Tail(listed) /\ d = Head(listed)
              /\ allocated' = allocated
           \/ /\ d \notin allocated /\ allocated' = allocated \cup {d} /\ listed' = listed
  <2>1. CASE listed # <<>> /\ listed' = Tail(listed) /\ Born(Head(listed), TRUE, {})
             /\ allocated' = allocated
    <3>1. Head(listed) \in Data
      BY <1>1, <2>1 DEF TypeOK
    <3> QED BY <1>2, <2>1, <3>1 DEF Born
  <2>2. CASE Data # allocated /\ allocated' = allocated \cup {Block} /\ Born(Block, TRUE, {})
             /\ listed' = listed
    <3>1. Block \in Data \ allocated
      BY <1>1, <2>2, FreeBlock
    <3> QED BY <1>2, <2>2, <3>1 DEF Born
  <2> QED BY <2>1, <2>2 DEF PoolGet
<1>4. /\ buffer'[b] = [data |-> d, refcount |-> 1, pooled |-> TRUE, flags |-> {}]
      /\ \A c \in Buffers \ {b} : buffer'[c] = buffer[c]
      /\ buffer' \in [Buffers -> AVBuffers]
  <2> DEFINE new == [data |-> d, refcount |-> 1, pooled |-> TRUE, flags |-> {}]
  <2>1. new \in AVBuffers
    BY <1>1 DEF AVBuffers, Data
  <2> QED BY <1>1, <1>3, <2>1 DEF TypeOK
<1>5. /\ pc'[t] = "got" /\ arg'[t] = b
      /\ \A u \in Threads \ {t} : pc'[u] = pc[u] /\ arg'[u] = arg[u]
      /\ pc' \in [Threads -> Label] /\ arg' \in [Threads -> 0 .. MaxBuffers]
  BY <1>1, <1>2 DEF TypeOK, Label, Buffers
<1>6. /\ \A u \in Threads, c \in Buffers : /\ c # b => (Getting(u, c)' <=> Getting(u, c))
                                           /\ Dying(u, c)' <=> Dying(u, c)
                                           /\ Gone(u, c)' <=> Gone(u, c)
                                           /\ ~Gone(u, b)
      /\ Getting(t, b)' /\ BeingGot(b)'
  BY <1>1, <1>2, <1>5 DEF Getting, Dying, Gone, BeingGot
<1>7. \A c \in Buffers : Owned(c)' = Owned(c)
  BY <1>1, OwnedSame
<1>8. /\ Listed \subseteq allocated
      /\ \A j, k \in DOMAIN listed : listed[j] = listed[k] => j = k
  BY DEF BufInv, ListInv
<1>9. refcount > 0 /\ alive /\ \A u \in Threads : pc[u] # "pool_free"
  BY <1>1, PoolKept
<1>10. Held(b)' /\ ~Held(b) /\ \A c \in Buffers \ {b} : /\ Held(c)' <=> Held(c)
                                                        /\ buffer'[c].data = buffer[c].data
  BY <1>2, <1>4, <1>6 DEF Held, Data, None
<1>11. listed' \in Seq(Data) /\ ((\A c, a \in Buffers : DataInv(c, a)) /\ ListInv /\ MemoryInv)'
  <2>1. CASE d \notin allocated /\ allocated' = allocated \cup {d} /\ listed' = listed
    <3>1. buffer[b].data = 0 /\ buffer'[b].data = d
      BY <1>2, <1>4 DEF None
    <3> QED BY <1>1, <1>10, <2>1, <3>1, NewBlock DEF TypeOK
  <2>2. CASE listed # <<>> /\ listed' = Tail(listed) /\ d = Head(listed) /\ allocated' = allocated
    <3>1. /\ listed' \in Seq(Data) /\ d \in Listed /\ Listed' = Listed \ {d}
          /\ \A j, k \in DOMAIN listed' : listed'[j] = listed'[k] => j = k
      BY <1>1, <1>8, <2>2, Popped DEF TypeOK
    <3>2. ASSUME NEW c \in Buffers, NEW a \in Buffers PROVE DataInv(c, a)'
      <4>1. DataInv(c, a)
        BY DEF BufInv
      <4>2. \A e \in Buffers : Held(e) => buffer[e].data # d
        BY <3>1 DEF BufInv, DataInv
      <4>3. CASE c = b
        BY <1>4, <1>8, <1>10, <2>2, <3>1, <4>2, <4>3 DEF DataInv
      <4>4. CASE c # b
        BY <1>4, <1>10, <2>2, <3>1, <4>1, <4>2, <4>4 DEF DataInv
      <4> QED BY <4>3, <4>4
    <3>3. ListInv'
      BY <1>8, <2>2, <3>1 DEF ListInv
    <3>4. MemoryInv'
      <4> SUFFICES ASSUME NEW x \in allocated, x \notin Listed \ {d}
                   PROVE  \E c \in Buffers : Held(c)' /\ buffer'[c].data = x
        BY <2>2, <3>1 DEF MemoryInv
      <4>1. CASE x = d
        BY <1>4, <1>10, <4>1
      <4>2. CASE x # d
        <5>1. PICK c \in Buffers : Held(c) /\ buffer[c].data = x
          BY <4>2 DEF BufInv, MemoryInv
        <5> QED BY <1>10, <5>1
      <4> QED BY <4>1, <4>2
    <3> QED BY <3>1, <3>2, <3>3, <3>4
  <2> QED BY <1>3, <2>1, <2>2
<1>12. TypeOK'
  BY <1>1, <1>3, <1>4, <1>5, <1>11 DEF TypeOK
<1>13. (\A u \in Threads : ThreadInv(u))'
  <2> SUFFICES ASSUME NEW u \in Threads PROVE ThreadInv(u)'
    OBVIOUS
  <2>1. CASE u = t
    BY <1>1, <1>2, <1>4, <1>5, <1>7, <2>1 DEF ThreadInv, Data
  <2>2. CASE u # t
    <3>1. pc[u] \notin {"idle", "pool_free"} => arg[u] \in Buffers \ {b}
      BY <1>2 DEF BufInv, ThreadInv
    <3> QED BY <1>1, <1>4, <1>5, <2>2, <3>1, OthersAlone
  <2> QED BY <2>1, <2>2
<1>14. (\A u, v \in Threads : ApartInv(u, v))'
  <2> SUFFICES ASSUME NEW u \in Threads, NEW v \in Threads PROVE ApartInv(u, v)'
    OBVIOUS
  <2>1. CASE u # t /\ v # t
    BY <1>5, <2>1, PairAlone
  <2>2. CASE u = t \/ v = t
    BY <1>2, <1>5, <1>9, <2>2 DEF ApartInv
  <2> QED BY <2>1, <2>2
<1>15. (\A c \in Buffers : CountInv(c))'
  <2> SUFFICES ASSUME NEW c \in Buffers PROVE CountInv(c)'
    OBVIOUS
  <2>1. CASE c = b
    BY <1>4, <1>6, <2>1 DEF CountInv, Data
  <2>2. CASE c # b
    <3>1. CountInv(c) /\ BeingGot(c)' = BeingGot(c)
      BY <1>6, <2>2 DEF BufInv, BeingGot
    <3> QED BY <1>4, <1>6, <1>7, <2>2, <3>1 DEF CountInv
  <2> QED BY <2>1, <2>2
<1>16. PoolInv'
  <2>1. b \notin Lent /\ b \notin Lent'
    BY <1>2, <1>6 DEF Lent, None
  <2>2. Lent' = Lent
    BY <1>4, <1>6, <2>1 DEF Lent, BeingGot
  <2> QED BY <1>1, <1>9, <2>2 DEF BufInv, PoolInv
<1> QED BY <1>11, <1>12, <1>13, <1>14, <1>15, <1>16 DEF BufInv
LEMMA GotKeeps ==
  ASSUME BufInv, NEW t \in Threads, Got(t)
  PROVE  BufInv'
<1>1. /\ pc[t] = "got" /\ TypeOK /\ UNCHANGED <<buffer, allocated, handle, alive, listed>>
      /\ refcount' = refcount + 1 /\ MaxRefs \in Nat \ {0}
      /\ pc' = [pc EXCEPT ![t] = "idle"] /\ arg' = [arg EXCEPT ![t] = 0]
  BY BufferAssumption DEF Got, Goto, BufInv, BufferAssumption
<1>2. PICK b \in Buffers : /\ b = arg[t] /\ handle /\ buffer[b].pooled /\ buffer[b].refcount = 1
                           /\ buffer[b].data # 0
  BY <1>1 DEF BufInv, ThreadInv
<1>3. refs' = [refs EXCEPT ![t][b] = 1]
  BY <1>2 DEF Got
<1>4. /\ Owned(b) = 0 /\ \A u \in Threads : refs[u][b] = 0
      /\ \A u \in Threads \ {t} : pc[u] \notin {"idle", "pool_free"} => arg[u] # b
  BY <1>1, <1>2, AloneWith
<1>5. /\ refs'[t][b] = refs[t][b] + 1
      /\ \A u \in Threads, c \in Buffers : u # t \/ c # b => refs'[u][c] = refs[u][c]
      /\ refs' \in [Threads -> [Buffers -> 0 .. MaxRefs]]
  BY <1>1, <1>3, <1>4 DEF TypeOK
<1>6. /\ pc'[t] = "idle" /\ \A u \in Threads \ {t} : pc'[u] = pc[u] /\ arg'[u] = arg[u]
      /\ pc' \in [Threads -> Label] /\ arg' \in [Threads -> 0 .. MaxBuffers]
  BY <1>1, BufferAssumption DEF TypeOK, Label, BufferAssumption
<1>7. Owned(b)' = 1 /\ \A c \in Buffers \ {b} : Owned(c)' = Owned(c)
  <2>1. Owned(b)' = Owned(b) + 1
    BY <1>1, <1>4, <1>5, OwnedMore
  <2> QED BY <1>4, <1>5, <2>1, OwnedSame
<1>8. \A u \in Threads, c \in Buffers : /\ c # b => (Getting(u, c)' <=> Getting(u, c))
                                        /\ Dying(u, c)' <=> Dying(u, c)
                                        /\ Gone(u, c)' <=> Gone(u, c)
                                        /\ ~Getting(u, b)'
  BY <1>1, <1>2, <1>4, <1>6 DEF Getting, Dying, Gone
<1>9. BeingGot(b) /\ ~BeingGot(b)' /\ \A c \in Buffers \ {b} : BeingGot(c)' = BeingGot(c)
  BY <1>1, <1>2, <1>8 DEF BeingGot, Getting
<1>10. refcount > 0 /\ refcount \in Nat /\ alive /\ \A u \in Threads : pc[u] # "pool_free"
  BY <1>1, <1>2, PoolKept DEF TypeOK
<1>11. TypeOK'
  BY <1>1, <1>5, <1>6, <1>10 DEF TypeOK
<1>12. (\A u \in Threads : ThreadInv(u))'
  <2> SUFFICES ASSUME NEW u \in Threads PROVE ThreadInv(u)'
    OBVIOUS
  <2>1. CASE u = t
    BY <1>6, <2>1 DEF ThreadInv
  <2>2. CASE u # t
    <3>1. ThreadInv(u) /\ pc[u] # "pool_free"
      BY <1>10 DEF BufInv
    <3>2. pc[u] \notin {"idle", "pool_free"} =>
            arg[u] \in Buffers \ {b} /\ Owned(arg[u])' = Owned(arg[u])
      <4>1. pc[u] \notin {"idle", "pool_free"} => arg[u] \in Buffers \ {b}
        BY <1>4, <2>2, <3>1 DEF ThreadInv
      <4> QED BY <1>6, <1>7, <2>2, <4>1
    <3> QED BY <1>1, <1>5, <1>6, <2>2, <3>1, <3>2 DEF ThreadInv
  <2> QED BY <2>1, <2>2
<1>13. (\A u, v \in Threads : ApartInv(u, v))'
  <2> SUFFICES ASSUME NEW u \in Threads, NEW v \in Threads PROVE ApartInv(u, v)'
    OBVIOUS
  <2>1. CASE u # t /\ v # t
    BY <1>6, <2>1, PairAlone
  <2>2. CASE u = t \/ v = t
    BY <1>6, <2>2 DEF ApartInv
  <2> QED BY <2>1, <2>2
<1>14. (\A c \in Buffers : CountInv(c))'
  <2> SUFFICES ASSUME NEW c \in Buffers PROVE CountInv(c)'
    OBVIOUS
  <2>1. CASE c = b
    BY <1>1, <1>2, <1>7, <2>1 DEF CountInv
  <2>2. CASE c # b
    <3>1. CountInv(c)
      BY DEF BufInv
    <3> QED BY <1>1, <1>7, <1>8, <1>9, <2>2, <3>1 DEF CountInv
  <2> QED BY <2>1, <2>2
<1>15. (\A c, a \in Buffers : DataInv(c, a))' /\ ListInv' /\ MemoryInv'
  BY <1>1, <1>8, MemoryAlone DEF Held
<1>16. PoolInv'
  <2>1. b \notin Lent /\ Lent' = Lent \cup {b}
    BY <1>1, <1>2, <1>9 DEF Lent
  <2>2. Cardinality(Lent') = Cardinality(Lent) + 1
    BY <2>1, LentFinite, FS_AddElement
  <2>3. refcount = Cardinality(Lent) + 1
    BY <1>2 DEF BufInv, PoolInv
  <2> QED BY <1>1, <1>2, <1>10, <2>2, <2>3, LentFinite DEF PoolInv
<1> QED BY <1>11, <1>12, <1>13, <1>14, <1>15, <1>16 DEF BufInv

LEMMA PoolUninitKeeps ==
  ASSUME BufInv, NEW t \in Threads, PoolUninit(t)
  PROVE  BufInv'
<1>1. /\ pc[t] = "idle" /\ handle /\ (\A u \in Threads : pc[u] # "got") /\ TypeOK
      /\ handle' = FALSE /\ UNCHANGED <<refs, buffer, allocated, alive, listed>>
      /\ refcount' = refcount - 1
      /\ pc' = [pc EXCEPT ![t] = IF refcount = 1 THEN "pool_free" ELSE "idle"]
      /\ arg' = [arg EXCEPT ![t] = 0]
  BY DEF PoolUninit, DropPool, LastOfPool, Goto, BufInv
<1>2. refcount > 0 /\ refcount \in Nat /\ alive /\ \A u \in Threads : pc[u] # "pool_free"
  BY <1>1, PoolKept DEF TypeOK
<1>3. /\ pc'[t] = (IF refcount = 1 THEN "pool_free" ELSE "idle")
      /\ \A u \in Threads \ {t} : pc'[u] = pc[u] /\ arg'[u] = arg[u]
      /\ pc' \in [Threads -> Label] /\ arg' \in [Threads -> 0 .. MaxBuffers]
  BY <1>1, BufferAssumption DEF TypeOK, Label, BufferAssumption
<1>4. TypeOK'
  <2>1. refcount' = refcount - 1 /\ handle' = FALSE
    BY <1>1
  <2>2. refcount' \in Nat
    BY <1>2, <2>1
  <2> QED BY <1>1, <1>3, <2>1, <2>2 DEF TypeOK
<1>5. \A u \in Threads, c \in Buffers : /\ Getting(u, c)' <=> Getting(u, c)
                                        /\ Dying(u, c)' <=> Dying(u, c)
                                        /\ Gone(u, c)' <=> Gone(u, c)
  BY <1>1, <1>3 DEF Getting, Dying, Gone
<1>6. (\A u \in Threads : ThreadInv(u))'
  <2> SUFFICES ASSUME NEW u \in Threads PROVE ThreadInv(u)'
    OBVIOUS
  <2>1. CASE u = t
    <3>1. pc'[u] = "pool_free" => refcount' = 0
      BY <1>1, <1>3, <2>1
    <3> QED BY <1>1, <1>2, <1>3, <2>1, <3>1 DEF ThreadInv
  <2>2. CASE u # t
    <3>1. ThreadInv(u) /\ pc[u] \notin {"got", "pool_free"}
      BY <1>1, <1>2 DEF BufInv
    <3> QED BY <1>1, <1>3, <2>2, <3>1 DEF ThreadInv
  <2> QED BY <2>1, <2>2
<1>7. (\A u, v \in Threads : ApartInv(u, v))'
  <2> SUFFICES ASSUME NEW u \in Threads, NEW v \in Threads PROVE ApartInv(u, v)'
    OBVIOUS
  <2>1. CASE u # t /\ v # t
    BY <1>3, <2>1, PairAlone
  <2>2. CASE u = t \/ v = t
    BY <1>2, <1>3, <2>2 DEF ApartInv
  <2> QED BY <2>1, <2>2
<1>8. (\A c \in Buffers : CountInv(c))'
  <2> SUFFICES ASSUME NEW c \in Buffers PROVE CountInv(c)'
    OBVIOUS
  <2>1. CountInv(c) /\ BeingGot(c)' = BeingGot(c) /\ Owned(c)' = Owned(c)
    BY <1>1, <1>5, OwnedSame DEF BufInv, BeingGot
  <2> QED BY <1>1, <1>5, <2>1 DEF CountInv
<1>9. (\A c, a \in Buffers : DataInv(c, a))' /\ ListInv' /\ MemoryInv'
  BY <1>1, <1>5, MemoryAlone DEF Held
<1>10. PoolInv'
  <2>1. Lent' = Lent
    BY <1>1, <1>5 DEF Lent, BeingGot
  <2>2. refcount = Cardinality(Lent) + 1
    BY <1>1 DEF BufInv, PoolInv
  <2>3. refcount' = Cardinality(Lent') + 0
    BY <1>1, <2>1, <2>2, LentFinite
  <2>4. refcount' = 0 => \E u \in Threads : pc'[u] = "pool_free"
    BY <1>1, <1>2, <1>3
  <2> QED BY <1>1, <1>2, <2>3, <2>4 DEF PoolInv
<1> QED BY <1>4, <1>6, <1>7, <1>8, <1>9, <1>10 DEF BufInv

-----------------------------------------------------------------------------
(* The invariant is inductive. *)
LEMMA BufInitially == Init => BufInv
<1> SUFFICES ASSUME Init PROVE BufInv
  OBVIOUS
<1>1. /\ pc = [t \in Threads |-> "idle"] /\ arg = [t \in Threads |-> 0]
      /\ refs = [t \in Threads |-> [b \in Buffers |-> 0]]
      /\ buffer = [b \in Buffers |-> None]
      /\ allocated = {} /\ handle = TRUE /\ alive = TRUE /\ refcount = 1 /\ listed = <<>>
  BY DEF Init
<1>2. MaxBuffers \in Nat /\ MaxRefs \in Nat /\ MaxBlocks \in Nat
  BY BufferAssumption DEF BufferAssumption
<1>3. TypeOK
  <2>1. None \in AVBuffers
    BY <1>2 DEF None, AVBuffers
  <2>2. listed \in Seq(Data)
    BY <1>1
  <2> QED BY <1>1, <1>2, <2>1, <2>2 DEF TypeOK, Label
<1>4. \A t \in Threads : ThreadInv(t) /\ \A u \in Threads : ApartInv(t, u)
  BY <1>1 DEF ThreadInv, ApartInv
<1>5. \A b \in Buffers : CountInv(b) /\ \A c \in Buffers : DataInv(b, c)
  <2> TAKE b \in Buffers
  <2>1. Owned(b) = 0
    BY <1>1, <1>3, NoneOwns
  <2> QED BY <1>1, <2>1 DEF CountInv, DataInv, Held, None
<1>6. ListInv /\ MemoryInv
  BY <1>1 DEF ListInv, MemoryInv, Listed
<1>7. PoolInv
  <2>1. Lent = {}
    BY <1>1 DEF Lent, None
  <2> QED BY <1>1, <2>1, FS_EmptySet DEF PoolInv
<1> QED BY <1>3, <1>4, <1>5, <1>6, <1>7 DEF BufInv

LEMMA BufStep == BufInv /\ [Next]_vars => BufInv'
<1> SUFFICES ASSUME BufInv, [Next]_vars PROVE BufInv'
  OBVIOUS
<1>1. CASE UNCHANGED vars
  <2>1. /\ UNCHANGED <<pc, arg, refs, buffer, allocated, pool>>
        /\ \A b \in Buffers : Owned(b)' = Owned(b)
    BY <1>1, OwnedSame DEF vars, pool
  <2>2. \A u \in Threads, c \in Buffers : /\ Getting(u, c)' <=> Getting(u, c)
                                          /\ Dying(u, c)' <=> Dying(u, c)
                                          /\ Gone(u, c)' <=> Gone(u, c)
    BY <2>1 DEF Getting, Dying, Gone
  <2>3. TypeOK'
    BY <2>1 DEF BufInv, TypeOK, pool
  <2>4. (\A t \in Threads : ThreadInv(t) /\ \A u \in Threads : ApartInv(t, u))'
    BY <2>1, OthersAlone, PairAlone DEF pool
  <2>5. (\A b \in Buffers : CountInv(b))'
    BY <2>1, <2>2 DEF BufInv, CountInv, BeingGot
  <2>6. ((\A b, c \in Buffers : DataInv(b, c)) /\ ListInv /\ MemoryInv)'
    BY <2>1, <2>2, MemoryAlone DEF pool, Held
  <2>7. PoolInv'
    BY <2>1, <2>2, PoolAlone
  <2> QED BY <2>3, <2>4, <2>5, <2>6, <2>7 DEF BufInv
<1>2. CASE Next
  <2>1. PICK t \in Threads :
          \/ \E flags \in Flags : Create(t, flags)
          \/ \E b \in Buffers : \/ Ref(t, b) \/ Unref(t, b) \/ MakeWritable(t, b)
                                \/ Realloc(t, b) \/ \E u \in Threads : Pass(t, u, b)
          \/ PoolGet(t) \/ PoolUninit(t) \/ Finish(t)
    BY <1>2 DEF Next
  <2>2. CASE \E flags \in Flags : Create(t, flags)
    BY <2>2, CreateKeeps
  <2>3. CASE \E b \in Buffers : \/ Ref(t, b) \/ Unref(t, b) \/ MakeWritable(t, b)
                                \/ Realloc(t, b) \/ \E u \in Threads : Pass(t, u, b)
    BY <2>3, RefKeeps, UnrefKeeps, MakeWritableKeeps, ReallocKeeps, PassKeeps
  <2>4. CASE PoolGet(t) \/ PoolUninit(t)
    BY <2>4, PoolGetKeeps, PoolUninitKeeps
  <2>5. CASE Finish(t)
    BY <2>5, GivesUpKeeps, ReplaceKeeps, MoveKeeps, FreeDataKeeps, ReturnEntryKeeps,
       ReleaseEntryKeeps, PoolFreeKeeps, GotKeeps DEF Finish
  <2> QED BY <2>1, <2>2, <2>3, <2>4, <2>5
<1> QED BY <1>1, <1>2

(* The invariant holds always, for any set of threads and any bounds.      *)
THEOREM PoolCounts == Spec => []BufInv
  BY BufInitially, BufStep, PTL DEF Spec

-----------------------------------------------------------------------------
(* The entries of the list are as many as it is long. *)
LEMMA ListLength ==
  ASSUME listed \in Seq(Data), \A j, k \in DOMAIN listed : listed[j] = listed[k] => j = k
  PROVE  Cardinality(Listed) = Len(listed)
<1>1. Len(listed) \in Nat /\ DOMAIN listed = 1 .. Len(listed)
  OBVIOUS
<1>2. IsFiniteSet(1 .. Len(listed)) /\ Cardinality(1 .. Len(listed)) = Len(listed)
  BY <1>1, FS_Interval
<1>3. listed \in Bijection(1 .. Len(listed), Listed)
  <2>1. listed \in [1 .. Len(listed) -> Listed]
    BY <1>1 DEF Listed
  <2>2. \A x \in Listed : \E k \in 1 .. Len(listed) : listed[k] = x
    BY <1>1 DEF Listed
  <2> QED BY <1>1, <2>1, <2>2 DEF Bijection, Injection, Surjection, IsInjective
<1>4. ExistsBijection(1 .. Len(listed), Listed)
  BY <1>3 DEF ExistsBijection
<1> QED BY <1>2, <1>4, FS_Bijection

LEMMA InvariantImpliesNoUse == BufInv => NoUseAfterFree
<1> SUFFICES ASSUME BufInv PROVE NoUseAfterFree
  OBVIOUS
<1>1. /\ TypeOK /\ \A t \in Threads : ThreadInv(t) /\ \A u \in Threads : ApartInv(t, u)
      /\ \A b \in Buffers : CountInv(b) /\ Owned(b) \in Nat
  BY ReferencesFinite DEF BufInv
<1>2. ASSUME NEW b \in Buffers, Owned(b) > 0 PROVE Held(b) /\ ~BeingGot(b)
  <2>1. \A t \in Threads : ~Gone(t, b) /\ ~Getting(t, b)
    <3> TAKE t \in Threads
    <3>1. pc[t] \in {"returned", "got"} /\ arg[t] = b => Owned(b) = 0
      BY AloneWith
    <3> QED BY <1>2, <3>1 DEF Gone, Getting
  <2>2. buffer[b].data # 0
    BY <1>1, <1>2, <2>1 DEF CountInv, BeingGot, None
  <2> QED BY <2>1, <2>2 DEF Held, BeingGot
<1>3. ASSUME NEW b \in Buffers, BeingGot(b) PROVE Held(b) /\ handle
  <2>1. PICK t \in Threads : pc[t] = "got" /\ arg[t] = b
    BY <1>3 DEF BeingGot, Getting
  <2>2. buffer[b].data # 0 /\ handle
    BY <1>1, <2>1 DEF ThreadInv
  <2>3. \A u \in Threads : ~Gone(u, b)
    BY <1>1, <2>1 DEF Gone, ApartInv
  <2> QED BY <2>2, <2>3 DEF Held
<1>4. ASSUME NEW b \in Live, Owned(b) > 0 \/ \E t \in Threads : pc[t] = "got" /\ arg[t] = b
      PROVE  /\ buffer[b].data \in allocated \ Listed
             /\ \A c \in Live : c # b => buffer[c].data # buffer[b].data \/ Owned(c) = 0
             /\ buffer[b].pooled => alive /\ refcount > 0
  <2>1. b \in Buffers /\ Live \subseteq Buffers
    BY DEF Live
  <2>2. Held(b) /\ (BeingGot(b) \/ Owned(b) > 0)
    BY <1>2, <1>3, <1>4, <2>1 DEF BeingGot, Getting
  <2>3. \A c \in Buffers : DataInv(b, c) /\ (Owned(c) = 0 \/ Held(c))
    BY <1>1, <1>2, <2>1 DEF BufInv
  <2>4. buffer[b].pooled => handle \/ b \in Lent
    BY <1>2, <1>3, <2>1, <2>2 DEF Lent
  <2>5. buffer[b].pooled => alive /\ refcount > 0
    BY <2>4, PoolKept
  <2> QED BY <2>1, <2>2, <2>3, <2>5 DEF DataInv
<1>5. Listed \subseteq allocated /\ Cardinality(Listed) = Len(listed)
  BY <1>1, ListLength DEF BufInv, ListInv, TypeOK
<1>6. ASSUME NEW t \in Threads, pc[t] = "returned" PROVE arg[t] \in Lent
  <2>1. arg[t] \in Buffers /\ buffer[arg[t]].pooled
    BY <1>1, <1>6 DEF ThreadInv
  <2>2. ~BeingGot(arg[t])
    BY <1>1, <1>6 DEF BeingGot, Getting, ApartInv
  <2> QED BY <2>1, <2>2 DEF Lent
<1>7. handle \/ InPool # {} => alive
  <2>1. ASSUME NEW t \in InPool PROVE alive
    <3>1. CASE pc[t] = "got"
      BY <1>1, <3>1, PoolKept DEF ThreadInv, InPool
    <3>2. CASE pc[t] = "returned"
      BY <1>6, <3>2, PoolKept DEF InPool
    <3>3. CASE pc[t] = "pool_free"
      BY <1>1, <3>3 DEF ThreadInv, InPool
    <3> QED BY <3>1, <3>2, <3>3 DEF InPool
  <2> QED BY <2>1, PoolKept
<1>8. ASSUME NEW t \in Threads, pc[t] = "pool_free" PROVE InPool = {t} /\ ~handle
  <2>1. ~handle /\ Lent = {}
    BY <1>8, PoolKept
  <2>2. \A u \in InPool : u = t
    BY <1>1, <1>6, <1>8, <2>1 DEF InPool, ThreadInv, ApartInv
  <2> QED BY <1>8, <2>1, <2>2 DEF InPool
<1> QED BY <1>4, <1>5, <1>7, <1>8 DEF NoUseAfterFree

(* No access to freed memory, for any number of threads, references,       *)
(* buffers and blocks: the counts of buffer.c free a buffer, an entry and  *)
(* the pool when nobody has a way to them any more.                        *)
THEOREM NothingUsedAfterFree == Spec => []NoUseAfterFree
  BY PoolCounts, InvariantImpliesNoUse, PTL

LEMMA InvariantImpliesExclusive == BufInv => WritableExclusive
<1> SUFFICES ASSUME BufInv, NEW t \in Threads, pc[t] \in {"write", "move"}
             PROVE  /\ refs[t][arg[t]] = 1 /\ Owned(arg[t]) = 1
                    /\ buffer[arg[t]].data \in allocated \ Listed
  BY DEF WritableExclusive
<1>1. PICK b \in Buffers : b = arg[t] /\ refs[t][b] = 1 /\ buffer[b].refcount = 1
  BY DEF BufInv, ThreadInv
<1>2. Owned(b) = 1 /\ buffer[b].data # 0 /\ \A u \in Threads : ~Dying(u, b)
  BY <1>1, Referenced
<1>3. Held(b)
  BY <1>2 DEF Held, Dying, Gone
<1> QED BY <1>1, <1>2, <1>3 DEF BufInv, DataInv

(* Whoever has found a buffer writable has the only reference to it until  *)
(* it has written or moved it, although the check takes no lock.           *)
THEOREM WritersAreAlone == Spec => []WritableExclusive
  BY PoolCounts, InvariantImpliesExclusive, PTL

LEMMA InvariantImpliesFreed == BufInv => AllFreed
<1> SUFFICES ASSUME BufInv, Quiet PROVE IF handle THEN alive /\ allocated = Listed
                                        ELSE ~alive /\ allocated = {}
  BY DEF AllFreed
<1>1. \A t \in Threads : pc[t] = "idle" /\ \A b \in Buffers : refs[t][b] = 0
  BY DEF Quiet
<1>2. \A b \in Buffers : buffer[b] = None
  <2> TAKE b \in Buffers
  <2>1. Owned(b) = 0 /\ ~BeingGot(b) /\ \A t \in Threads : ~Dying(t, b)
    BY <1>1, NoneOwns DEF BufInv, BeingGot, Getting, Dying
  <2> QED BY <2>1 DEF BufInv, CountInv
<1>3. allocated = Listed
  BY <1>2 DEF BufInv, MemoryInv, ListInv, Held, None
<1>4. handle => alive
  BY PoolKept
<1>5. ~handle => ~alive /\ allocated = {}
  <2>1. Lent = {}
    BY <1>2 DEF Lent, None
  <2>2. ~handle => refcount = 0
    BY <2>1, FS_EmptySet DEF BufInv, PoolInv
  <2>3. ~handle => ~alive /\ listed = <<>>
    BY <1>1, <2>2 DEF BufInv, PoolInv
  <2> QED BY <1>3, <2>3 DEF Listed
<1> QED BY <1>3, <1>4, <1>5

(* Nothing is left behind: when the references are gone and the users have *)
(* given up the pool it has been freed, with every entry.                  *)
THEOREM NothingLeftBehind == Spec => []AllFreed
  BY PoolCounts, InvariantImpliesFreed, PTL
=============================================================================
