------------------------------ MODULE KVBuffer ------------------------------
(***************************************************************************)
(* KVBuffer of src/stkvbuffer/kvbuffer.go, opened with NewLRUKVBuffer over *)
(* a data region that outlives the process (a mapped file or shared        *)
(* memory). The region is a header and ChunkSize-byte chunks. A chunk      *)
(* begins with the uint32 index of the next chunk of its node (0 when      *)
(* free, its own index when last); a node's first chunk also holds         *)
(* keySize and valSize, then the key and value bytes follow across the     *)
(* node's chunks.                                                          *)
(*                                                                         *)
(* data[i][o] is byte o of chunk i: 0 (never written), a byte of a key or  *)
(* value (a number from 100 up), or a uint32 written at o, which fills     *)
(* o..o+3 (the value at o, W in the other three; the uint32s the code     *)
(* writes are indices and sizes below 100). The header (magic, chunkSize, *)
(* size) is magic and hsize, sizes counted in chunks.                      *)
(*                                                                         *)
(* The LRU type the package uses (NewLRU, Get, Add, Remove, removeOldest)  *)
(* is not in the repository; its calls are modelled by the contract they  *)
(* rely on: a recency list, Get and Add make a key the newest, and the     *)
(* eviction callback (delNode) runs on removeOldest and Remove.            *)
(***************************************************************************)
EXTENDS Integers, Sequences, SequencesExt, Functions, FiniteSets

CONSTANTS
  ChunkSize,  \* the chunkSize argument (bytes per chunk)
  DataLens,   \* the lengths, in chunks, the data region may have
  Keys,       \* keys Set, Get and Del are called with (byte sequences)
  Vals,       \* values Set is called with
  OpenLru,    \* NewLRUKVBuffer (TRUE) or NewKVBuffer (FALSE)
  MaxOps,     \* bound: Set, Get and Del calls
  MaxCrashes  \* bound: process restarts

MaxLen == Max(DataLens)
ChunkIds == 1..MaxLen
Offsets == 0..(ChunkSize - 1)
W == -2
Bytes == UNION {ToSet(s) : s \in Keys \cup Vals}

VARIABLES
  data,    \* the region's chunks: ChunkIds -> Offsets -> cell
  magic,   \* the header's 0xFEDCBA98 is written
  hsize,   \* the size the header records, in chunks
  dlen,    \* the region's length, in chunks
  st,      \* the process: "down", "up", "failed" (NewKVBuffer error), "hung"
  num,     \* buff.chunkNum
  free,    \* buff.freeChunk: chunk indices
  lru,     \* buff.lru: [k, n] entries, oldest first; n is the Node
  ops,     \* Set, Get and Del calls made
  crashes, \* restarts made
  lastOp   \* the call the last step made (for the refinement of KVCache)

vars == <<data, magic, hsize, dlen, st, num, free, lru, ops, crashes, lastOp>>

Node == [chunks : Seq(ChunkIds), ksz : Nat, vsz : Nat]

TypeOK ==
  /\ data \in [ChunkIds -> [Offsets -> {W} \cup 0..99 \cup Bytes]]
  /\ magic \in BOOLEAN /\ hsize \in 0..MaxLen /\ dlen \in DataLens
  /\ st \in {"down", "up", "failed", "hung"} /\ num \in 0..MaxLen
  /\ free \in Seq(1..num)
  /\ lru \in Seq([k : Keys, n : Node])
  /\ ops \in 0..MaxOps /\ crashes \in 0..MaxCrashes

(***************************************************************************)
(* Bytes: util.go's read_uint32/write_uint32 and copy.                     *)
(***************************************************************************)

\* data[c][a:b]
Slice(d, c, a, b) == [j \in 1..(b - a) |-> d[c][a + j - 1]]

\* write_uint32(data[c][o:], x)
write_uint32(d, c, o, x) ==
  [d EXCEPT ![c] = [p \in Offsets |-> CASE p = o -> x
                                        [] p \in (o + 1)..(o + 3) -> W
                                        [] OTHER -> d[c][p]]]

\* read_uint32(data[c][o:]): the uint32 written at o (0 where nothing was
\* written); key or value bytes there read as some other number, -1.
read_uint32(d, c, o) ==
  IF d[c][o] \in 0..99 /\ \A p \in (o + 1)..(o + 3) : d[c][p] \in {W, 0}
  THEN d[c][o] ELSE -1

\* copy(data[c][start:], src): as many bytes as fit.
Copy(d, c, start, src) ==
  LET n == Min({ChunkSize - start, Len(src)})
  IN [d EXCEPT ![c] = [p \in Offsets |-> IF p >= start /\ p < start + n
                                           THEN src[p - start + 1] ELSE d[c][p]]]

\* src[from:], from 0-based as in the code
Tail0(src, from) == SubSeq(src, from + 1, Len(src))

(***************************************************************************)
(* Node layout: GetKey, getValPos, GetVal. The code's loops that step     *)
(* rest down by chunkSize-4 are written as the division they compute.     *)
(***************************************************************************)

GetKey(d, n) ==
  LET c == n.chunks
  IN IF n.ksz <= ChunkSize - 12 THEN Slice(d, c[1], 12, 12 + n.ksz)
     ELSE LET r == n.ksz + 12 - ChunkSize
              q == r \div (ChunkSize - 4)
              m == r % (ChunkSize - 4)
          IN Slice(d, c[1], 12, ChunkSize)
             \o FlattenSeq([j \in 1..q |-> Slice(d, c[1 + j], 4, ChunkSize)])
             \o (IF m > 0 THEN Slice(d, c[q + 2], 4, 4 + m) ELSE <<>>)

\* The chunk (0-based) and offset where the value starts.
getValPos(n) ==
  IF n.ksz < ChunkSize - 12 THEN [idx |-> 0, start |-> 12 + n.ksz]
  ELSE LET r == n.ksz + 12 - ChunkSize
       IN [idx |-> 1 + r \div (ChunkSize - 4), start |-> (r % (ChunkSize - 4)) + 4]

\* What GetVal gives where it indexes past the node's chunks: a panic.
IndexOutOfRange == [panic |-> "index out of range"]

\* GetVal
GetVal(d, n) ==
  LET p == getValPos(n)
      c == n.chunks
      i == p.idx + 1
      s == p.start
      r == n.vsz + s - ChunkSize
      q == r \div (ChunkSize - 4)
      m == r % (ChunkSize - 4)
  IN IF i > Len(c) THEN IndexOutOfRange
     ELSE IF n.vsz <= ChunkSize - s THEN Slice(d, c[i], s, s + n.vsz)
     ELSE IF i + q + (IF m > 0 THEN 1 ELSE 0) > Len(c) THEN IndexOutOfRange
     ELSE Slice(d, c[i], s, ChunkSize)
          \o FlattenSeq([j \in 1..q |-> Slice(d, c[i + j], 4, ChunkSize)])
          \o (IF m > 0 THEN Slice(d, c[i + q + 1], 4, 4 + m) ELSE <<>>)

(***************************************************************************)
(* The free list and the LRU. S is [d, free, lru]: the data, the free list *)
(* and the recency list a step works on.                                   *)
(***************************************************************************)

\* delChunk that pushes the chunk free but leaves its next index.
delChunkNoZero(S, c) ==
  LET after == {p \in 1..Len(S.free) : S.free[p] >= c}
  IN [S EXCEPT !.free = IF after = {} THEN Append(S.free, c)
                        ELSE InsertAt(S.free, Min(after), c)]

\* delChunk: next = 0 in the chunk, then insert it before the first free
\* chunk whose index is not below its own (at the back if none).
delChunk(S, c) ==
  LET after == {p \in 1..Len(S.free) : S.free[p] >= c}
  IN [S EXCEPT !.d = write_uint32(S.d, c, 0, 0),
               !.free = IF after = {} THEN Append(S.free, c)
                        ELSE InsertAt(S.free, Min(after), c)]

RECURSIVE delChunks(_, _)
delChunks(S, cs) == IF cs = <<>> THEN S ELSE delChunks(delChunk(S, Head(cs)), Tail(cs))

\* delNode, the eviction callback newLRU installs (onLruDel left out: it
\* only reads).
delNode(S, n) == delChunks(S, n.chunks)

KeysOf(l) == [i \in 1..Len(l) |-> l[i].k]
Entry(l, k) == l[CHOOSE i \in 1..Len(l) : l[i].k = k]
Without(l, k) == SelectSeq(l, LAMBDA e : e.k # k)

\* lru.removeOldest: drop the oldest entry, run the callback.
removeOldest(S) ==
  IF S.lru = <<>> THEN S ELSE delNode([S EXCEPT !.lru = Tail(@)], Head(S.lru).n)

\* lru.Get: a present key becomes the newest.
lruGet(l, k) == IF k \in ToSet(KeysOf(l)) THEN Append(Without(l, k), Entry(l, k)) ELSE l

\* lru.Add: store as the newest; past size entries, removeOldest.
lruAdd(S, k, n, size) ==
  LET S1 == [S EXCEPT !.lru = Append(Without(@, k), [k |-> k, n |-> n])]
  IN IF Len(S1.lru) > size THEN removeOldest(S1) ELSE S1

\* lru.Remove: drop the entry, run the callback.
lruRemove(S, k) ==
  IF k \in ToSet(KeysOf(S.lru))
  THEN delNode([S EXCEPT !.lru = Without(@, k)], Entry(S.lru, k).n)
  ELSE S

(***************************************************************************)
(* Set. S also carries ch, the chunks of the node being built, and res:   *)
(* "ok", "full" (buffer is full) or "hang" (a loop that cannot end).      *)
(***************************************************************************)

\* Existing key: take free chunks while chNeed > chNow, evicting the
\* oldest when none is free; or fail when the LRU is off.
RECURSIVE growChunks(_, _)
growChunks(S, chNeed) ==
  IF chNeed <= Len(S.ch) THEN S
  ELSE IF S.free = <<>>
       THEN IF ~OpenLru THEN [S EXCEPT !.res = "full"]
            ELSE IF S.lru = <<>> THEN [S EXCEPT !.res = "hang"]
            ELSE growChunks(removeOldest(S), chNeed)
       ELSE growChunks([S EXCEPT !.ch = Append(@, Head(S.free)), !.free = Tail(@)], chNeed)

\* The shrink loop dropping the last chunk without delChunk.
RECURSIVE shrinkChunksNoFree(_, _)
shrinkChunksNoFree(S, chNeed) ==
  IF chNeed >= Len(S.ch) THEN S
  ELSE shrinkChunksNoFree([S EXCEPT !.ch = SubSeq(@, 1, Len(@) - 1)], chNeed)

\* while chNeed < chNow: delChunk the last chunk and drop it.
RECURSIVE shrinkChunks(_, _)
shrinkChunks(S, chNeed) ==
  IF chNeed >= Len(S.ch) THEN S
  ELSE shrinkChunks([delChunk(S, S.ch[Len(S.ch)]) EXCEPT !.ch = SubSeq(@, 1, Len(@) - 1)], chNeed)

\* The rewrite loop without start = 4 after the first chunk.
RECURSIVE writeValNoReset(_, _, _, _, _, _)
writeValNoReset(d, ch, i, start, wv, v) ==
  IF i > Len(ch) THEN d
  ELSE LET c == ch[i]
           d1 == write_uint32(d, c, 0, IF i = Len(ch) THEN c ELSE ch[i + 1])
           d2 == IF wv > 0 THEN Copy(d1, c, start, Tail0(v, Len(v) - wv)) ELSE d1
       IN writeValNoReset(d2, ch, i + 1, start, IF wv > ChunkSize - start THEN wv - (ChunkSize - start) ELSE wv, v)

\* The rewrite loop from the value's chunk i (1-based) on: each chunk's
\* next index (its own for the last), then the rest of the value at start;
\* writeVLen goes down only when the value runs past the chunk.
RECURSIVE writeVal(_, _, _, _, _, _)
writeVal(d, ch, i, start, wv, v) ==
  IF i > Len(ch) THEN d
  ELSE LET c == ch[i]
           d1 == write_uint32(d, c, 0, IF i = Len(ch) THEN c ELSE ch[i + 1])
           d2 == IF wv > 0 THEN Copy(d1, c, start, Tail0(v, Len(v) - wv)) ELSE d1
       IN writeVal(d2, ch, i + 1, 4, IF wv > ChunkSize - start THEN wv - (ChunkSize - start) ELSE wv, v)

setExisting(k, v, chNeed) ==
  LET n0 == Entry(lru, k).n
      p == getValPos(n0)
      S0 == [d |-> data, free |-> free, lru |-> lruGet(lru, k), ch |-> n0.chunks, res |-> "ok"]
      S1 == shrinkChunks(growChunks(S0, chNeed), chNeed)
      n1 == [n0 EXCEPT !.chunks = S1.ch, !.vsz = Len(v)]
      d1 == writeVal(write_uint32(S1.d, S1.ch[1], 8, Len(v)), S1.ch, p.idx + 1, p.start, Len(v), v)
  IN IF S1.res # "ok" THEN S1 ELSE lruAdd([S1 EXCEPT !.d = d1], k, n1, num)

\* New key: while chNeed exceeds the free list, evict the oldest (or fail
\* when the LRU is off).
RECURSIVE makeRoom(_, _)
makeRoom(S, chNeed) ==
  IF chNeed <= Len(S.free) THEN S
  ELSE IF ~OpenLru THEN [S EXCEPT !.res = "full"]
  ELSE IF S.lru = <<>> THEN [S EXCEPT !.res = "hang"]
  ELSE makeRoom(removeOldest(S), chNeed)

\* The write loop of a new node over chunk i (1-based): sizes in the first
\* chunk, the next index, the rest of the key, then as much of the value
\* as fits; it breaks once the value is written.
RECURSIVE writeNew(_, _, _, _, _, _, _)
writeNew(d, ch, i, wk, wv, k, v) ==
  IF i > Len(ch) THEN d
  ELSE LET c == ch[i]
           s0 == IF i = 1 THEN 12 ELSE 4
           d0 == IF i = 1 THEN write_uint32(write_uint32(d, c, 4, Len(k)), c, 8, Len(v)) ELSE d
           d1 == write_uint32(d0, c, 0, IF i = Len(ch) THEN c ELSE ch[i + 1])
           d2 == IF wk > 0 THEN Copy(d1, c, s0, Tail0(k, Len(k) - wk)) ELSE d1
           s1 == IF wk = 0 THEN s0 ELSE IF wk > ChunkSize - s0 THEN ChunkSize ELSE s0 + wk
           wk1 == IF wk > ChunkSize - s0 THEN wk - (ChunkSize - s0) ELSE 0
           cv == wv > 0 /\ s1 < ChunkSize
           d3 == IF cv THEN Copy(d2, c, s1, Tail0(v, Len(v) - wv)) ELSE d2
       IN IF cv /\ wv <= ChunkSize - s1 THEN d3
          ELSE writeNew(d3, ch, i + 1, wk1, IF cv THEN wv - (ChunkSize - s1) ELSE wv, k, v)

setNew(k, v, chNeed) ==
  LET S1 == makeRoom([d |-> data, free |-> free, lru |-> lru, ch |-> <<>>, res |-> "ok"], chNeed)
      ch == SubSeq(S1.free, 1, chNeed)
      n == [chunks |-> ch, ksz |-> Len(k), vsz |-> Len(v)]
      S2 == [S1 EXCEPT !.free = SubSeq(@, chNeed + 1, Len(@)),
                       !.d = writeNew(@, ch, 1, Len(k), Len(v), k, v)]
  IN IF S1.res # "ok" THEN S1 ELSE lruAdd(S2, k, n, num)

Call(op, k, v) == [op |-> op, k |-> k, v |-> v]

\* KVBuffer.Set: the size check, then the existing-key or new-key path.
\* An error return keeps what the path did before it.
Set(k, v) ==
  /\ st = "up" /\ ops < MaxOps /\ ops' = ops + 1
  /\ LET need == Len(k) + Len(v) + 8
         chNeed == need \div (ChunkSize - 4) + (IF need % (ChunkSize - 4) > 0 THEN 1 ELSE 0)
     IN IF need > (ChunkSize - 4) * num
        THEN lastOp' = Call("reject", k, v) /\ UNCHANGED <<data, free, lru, st>>
        ELSE \E S \in {IF k \in ToSet(KeysOf(lru)) THEN setExisting(k, v, chNeed)
                       ELSE setNew(k, v, chNeed)} :
               /\ data' = S.d /\ free' = S.free /\ lru' = S.lru
               /\ lastOp' = Call(IF S.res = "ok" THEN "set" ELSE "reject", k, v)
               /\ st' = IF S.res = "hang" THEN "hung" ELSE st
  /\ UNCHANGED <<magic, hsize, dlen, num, crashes>>

\* KVBuffer.Get: lru.Get, then GetVal; an index out of range panics and
\* the process dies (the region stays).
Get(k) ==
  /\ st = "up"
  /\ lru' = lruGet(lru, k)
  /\ st' = IF k \in ToSet(KeysOf(lru)) /\ GetVal(data, Entry(lru, k).n) = IndexOutOfRange
           THEN "down" ELSE st
  /\ lastOp' = Call("get", k, <<>>)
  /\ UNCHANGED <<data, magic, hsize, dlen, num, free, ops, crashes>>

\* KVBuffer.Del: lru.Remove, whose callback frees the node's chunks.
Del(k) ==
  /\ st = "up" /\ ops < MaxOps /\ ops' = ops + 1
  /\ \E S \in {lruRemove([d |-> data, free |-> free, lru |-> lru], k)} :
       data' = S.d /\ free' = S.free /\ lru' = S.lru
  /\ lastOp' = Call("del", k, <<>>)
  /\ UNCHANGED <<magic, hsize, dlen, st, num, crashes>>

(***************************************************************************)
(* NewKVBuffer over the region, and the process's life.                    *)
(***************************************************************************)

RECURSIVE zeroNext(_, _)
zeroNext(d, cs) == IF cs = <<>> THEN d ELSE zeroNext(write_uint32(d, Head(cs), 0, 0), Tail(cs))

\* The scan of an inited region over the size its header records: free
\* chunks (next 0), node ends (next = own index), and mpChunkPrev, where a
\* later chunk pointing at the same next wins.
Nxt(i) == read_uint32(data, i, 0)
Scanned == [i \in 1..hsize |-> i]
ScanFree == SelectSeq(Scanned, LAMBDA i : Nxt(i) = 0)
ScanEnds == SelectSeq(Scanned, LAMBDA i : Nxt(i) = i)
PrevOf(x) == {i \in 1..hsize : Nxt(i) = x /\ i # x}

\* Follows mpChunkPrev back from a node's end. It cannot cycle: each
\* chunk has one next index, and an end's next is itself.
RECURSIVE chainBack(_)
chainBack(acc) ==
  IF PrevOf(Head(acc)) = {} THEN acc
  ELSE chainBack(<<Max(PrevOf(Head(acc)))>> \o acc)

ScanNode(e) ==
  LET c == chainBack(<<e>>)
  IN [chunks |-> c, ksz |-> read_uint32(data, c[1], 4), vsz |-> read_uint32(data, c[1], 8)]

\* keySize+valSize must fit the node's chunks (bytes that are not a
\* uint32, -1 here, are taken as failing it).
ScanValid(n) ==
  n.ksz >= 0 /\ n.vsz >= 0 /\ n.ksz + n.vsz <= Len(n.chunks) * (ChunkSize - 4) - 8

\* The nodes rebuilt in ScanEnds order, each lru.Add-ed under GetKey.
RECURSIVE addNodes(_, _)
addNodes(S, es) ==
  IF es = <<>> THEN S
  ELSE LET n == ScanNode(Head(es)) IN
       IF ~ScanValid(n) THEN [S EXCEPT !.res = "failed"]
       ELSE addNodes(lruAdd(S, GetKey(data, n), n, hsize), Tail(es))

Recover == addNodes([d |-> data, free |-> ScanFree, lru |-> <<>>, res |-> "ok"], ScanEnds)

\* NewKVBuffer over a region without the magic: chunkSize below 32 is an
\* error; otherwise the header is written and every chunk is zeroed and
\* pushed free in index order.
FormatNoChunkNum ==
  IF ChunkSize < 32
  THEN st' = "failed" /\ UNCHANGED <<data, magic, hsize, num, free, lru>>
  ELSE /\ data' = zeroNext(data, [i \in 1..dlen |-> i])
       /\ magic' = TRUE /\ hsize' = dlen /\ UNCHANGED num
       /\ free' = [i \in 1..dlen |-> i] /\ lru' = <<>> /\ st' = "up"

Format ==
  IF ChunkSize < 32
  THEN st' = "failed" /\ UNCHANGED <<data, magic, hsize, num, free, lru>>
  ELSE /\ data' = zeroNext(data, [i \in 1..dlen |-> i])
       /\ magic' = TRUE /\ hsize' = dlen /\ num' = dlen
       /\ free' = [i \in 1..dlen |-> i] /\ lru' = <<>> /\ st' = "up"

\* NewKVBuffer over an inited region: rebuilt from its chunks (an error
\* when a node's sizes do not fit it); then, if the region grew, the
\* chunks past the recorded size are zeroed and pushed free, and the size
\* in the header is the new one.
Reopen ==
  \E R \in {Recover} :
    IF R.res # "ok" THEN st' = R.res /\ UNCHANGED <<data, magic, hsize, num, free, lru>>
    ELSE LET new == [i \in 1..(dlen - hsize) |-> hsize + i]
         IN /\ data' = zeroNext(data, new)
            /\ free' = R.free \o new /\ lru' = R.lru
            /\ hsize' = dlen /\ num' = dlen /\ st' = "up"
            /\ UNCHANGED magic

\* NewLRUKVBuffer (or NewKVBuffer) called by a process starting over the
\* region.
Open ==
  /\ st = "down"
  /\ IF magic THEN Reopen ELSE Format
  /\ lastOp' = Call("open", <<>>, <<>>)
  /\ UNCHANGED <<dlen, ops, crashes>>

\* The process dies between two calls; the region keeps its bytes.
Crash ==
  /\ st = "up" /\ crashes < MaxCrashes /\ crashes' = crashes + 1
  /\ st' = "down" /\ lastOp' = Call("crash", <<>>, <<>>)
  /\ UNCHANGED <<data, magic, hsize, dlen, num, free, lru, ops>>

\* While no process has it open, the region's file is made longer.
Extend ==
  /\ st = "down" /\ \E m \in DataLens : m > dlen /\ dlen' = m
  /\ UNCHANGED <<data, magic, hsize, st, num, free, lru, ops, crashes, lastOp>>

\* A region of zero bytes, not opened yet.
Init ==
  /\ data = [i \in ChunkIds |-> [o \in Offsets |-> 0]]
  /\ magic = FALSE /\ hsize = 0 /\ dlen \in DataLens
  /\ st = "down" /\ num = 0 /\ free = <<>> /\ lru = <<>>
  /\ ops = 0 /\ crashes = 0 /\ lastOp = Call("open", <<>>, <<>>)

Next ==
  \/ \E k \in Keys, v \in Vals : Set(k, v)
  \/ \E k \in Keys : Get(k) \/ Del(k)
  \/ Open \/ Crash \/ Extend

Spec == Init /\ [][Next]_vars

(***************************************************************************)
(* Properties                                                              *)
(***************************************************************************)

UsedChunks == FlattenSeq([i \in 1..Len(lru) |-> lru[i].n.chunks])

\* While the buffer is open, every chunk is either on the free list or in
\* exactly one place of exactly one node: Set's grow and shrink loops, the
\* eviction callback and delChunk neither lose nor share a chunk.
ChunksPartitioned ==
  st = "up" => /\ IsInjective(free \o UsedChunks)
               /\ ToSet(free \o UsedChunks) = 1..num

\* The region always says what memory holds: rebuilding it as NewKVBuffer
\* would after a crash gives the same free chunks and the same nodes under
\* the same keys. Every next index, size and key byte Set and delChunk
\* write must be in place for this.
RecoveryMatchesMemory ==
  st = "up" => LET R == Recover
               IN /\ R.res = "ok"
                  /\ ToSet(R.free) = ToSet(free)
                  /\ ToSet(R.lru) = ToSet(lru)

\* The values the region's bytes hold, read by GetVal, and the recency
\* order: KVBuffer behaves as KVCache, a map that evicts only the oldest
\* keys, only on Set, and keeps its contents across restarts.
Contents == [k \in ToSet(KeysOf(lru)) |-> GetVal(data, Entry(lru, k).n)]

Abs == INSTANCE KVCache WITH store <- Contents, order <- KeysOf(lru), call <- lastOp

ImplementsKVCache == Abs!Spec

=============================================================================
