--------------------------- MODULE Segments_proofs ---------------------------
(***************************************************************************)
(* For every file that a linker lays out, every size of the address space  *)
(* and every block the heap returns: the segments lie in the block, as far *)
(* from each other as they asked to be, hold the file's image, and are     *)
(* what the instruction fetch sees.                                        *)
(***************************************************************************)
EXTENDS Segments, TLAPS

\* What SegmentsAssumption says of the file at hand.
LEMMA LayoutFacts ==
  ASSUME segs \in Layouts
  PROVE  /\ Word \in Nat \ {0} /\ MinAlign \in Nat \ {0}
         /\ Len(segs) \in Nat \ {0}
         /\ \A k \in Index :
              /\ segs[k].vaddr_req \in Nat /\ segs[k].size \in Nat /\ segs[k].file_size \in Nat
              /\ segs[k].alignment \in Nat \ {0}
              /\ segs[k].file_size <= segs[k].size
              /\ segs[k].vaddr_req + segs[k].size < Word
<1>1. segs \in Seq(Segment) /\ segs # <<>>
  BY SegmentsAssumption
<1>2. Len(segs) \in Nat \ {0}
  BY <1>1
<1>3. \A k \in Index : segs[k] \in Segment
  BY <1>1 DEF Index
<1> QED
  BY <1>2, <1>3, SegmentsAssumption DEF Segment, Index

\* An offset is a size_t, wrapped around or not.
LEMMA OffsetIsAddress ==
  ASSUME NEW m \in Address, NEW low \in Address, Word \in Nat
  PROVE  Sub(m, low) \in Address
BY DEF Sub, Address

\* size_t arithmetic undoes its own wrap-around: an address of the block is found
\* again from the offset, whether the block lies above or below min_va.
LEMMA OffsetCancels ==
  ASSUME NEW m \in Address, NEW low \in Address, NEW v \in Address,
         low <= v, v - low + m < Word, Word \in Nat
  PROVE  /\ Add(v, Sub(m, low)) = v - low + m
         /\ Add(v, Sub(m, low)) \in Address
BY DEF Sub, Add, Address

\* A range inside the block is a range of addresses.
LEMMA InBlock ==
  ASSUME IInv, Placed
  PROVE  \A k \in Index : Bytes(laddr[k], segs[k].size) \subseteq Address
<1> TAKE k \in Index
<1>1. /\ laddr[k] = segs[k].vaddr_req - min_va + memory
      /\ segs[k].vaddr_req + segs[k].size <= max_va
      /\ BlockEnd < Word
  BY DEF IInv, TypeOK, Placed, PlacedUpTo, Scanned, Index
<1>2. /\ segs[k].vaddr_req \in Nat /\ segs[k].size \in Nat /\ Word \in Nat
      /\ laddr[k] \in Nat /\ min_va \in Nat /\ max_va \in Nat /\ memory \in Nat
  <2>1. laddr[k] \in Address /\ min_va \in Address /\ max_va \in Address /\ memory \in Address
    BY DEF IInv, TypeOK
  <2> QED
    BY <2>1, LayoutFacts DEF IInv, TypeOK, Address
<1>3. laddr[k] + segs[k].size < Word
  BY <1>1, <1>2 DEF BlockEnd
<1> QED
  BY <1>2, <1>3 DEF Address, Bytes

\* The load starts in the invariant.
LEMMA InitIInv == Init => IInv
<1> SUFFICES ASSUME Init PROVE IInv
  OBVIOUS
<1> QED
  BY LayoutFacts DEF Init, IInv, TypeOK, Placed, Scanned, Index, Address

\* kbelfx_seg_alloc's first loop: the bounds take in one more segment.
LEMMA ScanStep ==
  ASSUME IInv, Scan
  PROVE  IInv'
<1> USE DEF Index, Address
<1>1. /\ segs[i].vaddr_req \in Nat /\ segs[i].size \in Nat /\ segs[i].alignment \in Nat \ {0}
      /\ segs[i].vaddr_req + segs[i].size < Word /\ Len(segs) \in Nat \ {0} /\ Word \in Nat
  BY LayoutFacts DEF IInv, TypeOK
<1>2. /\ min_va' \in Address /\ min_va' <= min_va /\ min_va' <= segs[i].vaddr_req
      /\ max_va' \in Address /\ max_va <= max_va' /\ segs[i].vaddr_req + segs[i].size <= max_va'
      /\ min_align' \in Nat \ {0}
  <2>1. min_va \in Address /\ max_va \in Address /\ min_align \in Nat \ {0}
    BY DEF IInv, TypeOK
  <2>2. /\ min_va' = Least(min_va, segs[i].vaddr_req)
        /\ max_va' = Greatest(max_va, segs[i].vaddr_req + segs[i].size)
        /\ min_align' = Greatest(min_align, segs[i].alignment)
    BY DEF Scan, End, Alignment
  <2>3. min_va' \in Address /\ min_va' <= min_va /\ min_va' <= segs[i].vaddr_req
    BY <1>1, <2>1, <2>2 DEF Least
  <2>4. max_va' \in Address /\ max_va <= max_va' /\ segs[i].vaddr_req + segs[i].size <= max_va'
    BY <1>1, <2>1, <2>2 DEF Greatest
  <2>5. min_align' \in Nat \ {0}
    BY <1>1, <2>1, <2>2 DEF Greatest
  <2>6. QED
    BY <2>3, <2>4, <2>5
<1>3. \A k \in 1..i : min_va' <= segs[k].vaddr_req /\ segs[k].vaddr_req + segs[k].size <= max_va'
  <2> TAKE k \in 1..i
  <2>1. i \in 1..Len(segs) /\ segs \in Layouts
    BY DEF IInv, TypeOK
  <2>2. k \in 1..Len(segs)
    BY <1>1, <2>1
  <2>3. segs[k].vaddr_req \in Nat /\ segs[k].size \in Nat
    BY <2>1, <2>2, LayoutFacts
  <2>4. CASE k = i
    BY <2>4, <1>2
  <2>5. CASE k # i
    <3>1. min_va <= segs[k].vaddr_req /\ segs[k].vaddr_req + segs[k].size <= max_va
      BY <2>5 DEF IInv, TypeOK, Scan, Turn, Scanned
    <3> QED
      BY <3>1, <2>3, <1>2 DEF IInv, TypeOK
  <2> QED
    BY <2>4, <2>5
<1>4. UNCHANGED <<segs, laddr, memory, offset, bytes, dirty, stale>> /\ pc = "scan"
  BY DEF Scan, Turn, blockVars, cacheVars
<1>5. CASE i = Len(segs)
  <2>1. i' = 1 /\ pc' = "alloc"
    BY <1>5 DEF Scan, Turn
  <2> QED
    BY <2>1, <1>1, <1>2, <1>3, <1>4, <1>5 DEF IInv, TypeOK, Placed, Scanned
<1>6. CASE i # Len(segs)
  <2>1. i' = i + 1 /\ pc' = pc
    BY <1>6 DEF Scan, Turn
  <2> QED
    BY <2>1, <1>1, <1>2, <1>3, <1>4, <1>6 DEF IInv, TypeOK, Placed, Scanned
<1> QED
  BY <1>5, <1>6

\* aligned_alloc: the block takes all the segments in, and its offset is a size_t.
LEMMA AllocateStep ==
  ASSUME IInv, Allocate
  PROVE  IInv'
<1> USE DEF Index, Address
<1>1. Len(segs) \in Nat \ {0} /\ Word \in Nat
  BY LayoutFacts DEF IInv, TypeOK
<1>2. UNCHANGED <<segs, laddr, min_va, max_va, min_align, bytes, dirty, stale>> /\ pc = "alloc" /\ i' = 1
  BY DEF Allocate, scanVars, cacheVars
<1>3. CASE pc' = "place"
  <2>1. memory' \in Address /\ memory' + (max_va - min_va) < Word /\ offset' = Sub(memory', min_va)
    BY <1>3 DEF Allocate
  <2>2. min_va \in Address /\ memory' \in Address
    BY <2>1 DEF IInv, TypeOK
  <2>3. Sub(memory', min_va) \in Address
    BY <2>2, <1>1, OffsetIsAddress
  <2> QED
    BY <2>1, <2>3, <1>1, <1>2, <1>3 DEF IInv, TypeOK, Placed, Scanned, PlacedUpTo, BlockEnd
<1>4. CASE pc' = "done"
  <2>1. UNCHANGED <<memory, offset>>
    BY <1>4 DEF Allocate, blockVars
  <2> QED
    BY <2>1, <1>1, <1>2, <1>4 DEF IInv, TypeOK, Placed, Scanned
<1> QED
  BY <1>3, <1>4 DEF Allocate

\* kbelfx_seg_alloc's second loop: one more segment gets its place.
LEMMA PlaceStep ==
  ASSUME IInv, Place
  PROVE  IInv'
<1> USE DEF Index, Address
<1>1. /\ segs[i].vaddr_req \in Nat /\ segs[i].size \in Nat
      /\ segs[i].vaddr_req + segs[i].size < Word /\ Len(segs) \in Nat \ {0} /\ Word \in Nat
  BY LayoutFacts DEF IInv, TypeOK
<1>2. UNCHANGED <<segs, min_va, max_va, min_align, memory, offset, bytes, dirty, stale>> /\ pc = "place"
  BY DEF Place, Turn, scanVars, blockVars, cacheVars
<1>3. /\ min_va <= segs[i].vaddr_req /\ segs[i].vaddr_req + segs[i].size <= max_va
      /\ offset = Sub(memory, min_va) /\ BlockEnd < Word
  BY <1>2 DEF IInv, TypeOK, Scanned
<1>4. /\ Add(segs[i].vaddr_req, offset) = segs[i].vaddr_req - min_va + memory
      /\ Add(segs[i].vaddr_req, offset) \in Address
  <2>1. segs[i].vaddr_req - min_va + memory < Word
    BY <1>1, <1>3 DEF BlockEnd, IInv, TypeOK
  <2>2. segs[i].vaddr_req \in Address
    BY <1>1
  <2> QED
    BY <2>1, <2>2, <1>1, <1>3, OffsetCancels DEF IInv, TypeOK
<1>5. laddr' \in [Index -> Address] /\ laddr'[i] = segs[i].vaddr_req - min_va + memory
  BY <1>4 DEF Place, IInv, TypeOK
<1>6. \A k \in 1..i : laddr'[k] = segs[k].vaddr_req - min_va + memory
  BY <1>2, <1>5 DEF Place, IInv, TypeOK, PlacedUpTo
<1>7. CASE i = Len(segs)
  <2>1. i' = 1 /\ pc' = "load"
    BY <1>7 DEF Place, Turn
  <2> QED
    BY <2>1, <1>1, <1>2, <1>5, <1>6, <1>7 DEF IInv, TypeOK, Placed, Scanned, PlacedUpTo, BlockEnd
<1>8. CASE i # Len(segs)
  <2>1. i' = i + 1 /\ pc' = pc
    BY <1>8 DEF Place, Turn
  <2> QED
    BY <2>1, <1>1, <1>2, <1>5, <1>6, <1>8 DEF IInv, TypeOK, Placed, Scanned, PlacedUpTo, BlockEnd
<1> QED
  BY <1>7, <1>8

\* From then on nothing moves: a step that leaves the block and the segments
\* where they are, and the bytes and caches within the address space, keeps the
\* invariant.
LEMMA LaterStep ==
  ASSUME IInv, Placed \/ pc = "done", Placed' \/ pc' = "done", ~ (pc = "done" /\ Placed'),
         UNCHANGED <<segs, laddr, min_va, max_va, min_align, memory, offset>>,
         i' \in Index, DOMAIN bytes' = Address, dirty' \subseteq Address, stale' \subseteq Address
  PROVE  IInv'
BY DEF IInv, TypeOK, Placed, Scanned, PlacedUpTo, BlockEnd, Index, Address

\* kbelfx_load, whole or short.
LEMMA LoadStep ==
  ASSUME IInv, Load \/ LoadShort
  PROVE  IInv'
<1>1. pc = "load" /\ Placed /\ Placed' /\ i \in Index
  BY DEF Load, LoadShort, Turn, Placed, IInv, TypeOK
<1>2. DOMAIN bytes' = Address
  BY DEF Load, LoadShort, Fill
<1>3. dirty' \subseteq Address
  BY <1>1, InBlock DEF Load, LoadShort, IInv, TypeOK
<1>4. i' \in Index
  BY <1>1, LayoutFacts DEF Load, LoadShort, Turn, Index, IInv, TypeOK
<1> QED
  BY <1>1, <1>2, <1>3, <1>4, LaterStep
  DEF Load, LoadShort, scanVars, blockVars, IInv, TypeOK

\* Relocation, kbelfx_cache_sync, the app's return and kbelfx_seg_free.
LEMMA EndStep ==
  ASSUME IInv, Relocate \/ CacheSync \/ Return \/ SegFree
  PROVE  IInv'
<1>1. Placed /\ (Placed' \/ pc' = "done")
  BY DEF Relocate, CacheSync, Return, SegFree, Turn, Placed
<1>2. DOMAIN bytes' = Address /\ stale' \subseteq Address
  BY DEF Relocate, CacheSync, Return, SegFree, WritebackInvalidate, cacheVars, IInv, TypeOK
<1>3. dirty' \subseteq Address
  BY <1>1, InBlock
  DEF Relocate, CacheSync, Return, SegFree, WritebackInvalidate, cacheVars, IInv, TypeOK
<1>4. i' \in Index
  BY LayoutFacts DEF Relocate, CacheSync, Return, SegFree, Turn, Index, IInv, TypeOK
<1>5. UNCHANGED <<segs, laddr, min_va, max_va, min_align, memory, offset>>
  BY DEF Relocate, CacheSync, Return, SegFree, scanVars, blockVars
<1>6. ~ (pc = "done" /\ Placed')
  BY <1>1 DEF Placed
<1> QED
  BY <1>1, <1>2, <1>3, <1>4, <1>5, <1>6, LaterStep

\* The invariant is inductive.
LEMMA NextIInv == IInv /\ [Next]_vars => IInv'
<1> SUFFICES ASSUME IInv, [Next]_vars PROVE IInv'
  OBVIOUS
<1>1. CASE UNCHANGED vars
  BY <1>1 DEF vars, scanVars, blockVars, cacheVars, IInv, TypeOK, Placed, Scanned, PlacedUpTo,
              BlockEnd, Index, Address
<1> QED
  BY <1>1, ScanStep, AllocateStep, PlaceStep, LoadStep, EndStep DEF Next

\* The invariant says where every segment is, which is what Placement asks.
LEMMA IInvPlacement == IInv => Placement
<1> SUFFICES ASSUME IInv, Placed PROVE Placement
  BY DEF Placement
<1>1. \A k \in Index : /\ laddr[k] = segs[k].vaddr_req - min_va + memory
                       /\ min_va <= segs[k].vaddr_req
                       /\ segs[k].vaddr_req + segs[k].size <= max_va
  BY DEF IInv, TypeOK, Placed, PlacedUpTo, Scanned, Index
<1>2. \A k \in Index : segs[k].vaddr_req \in Nat /\ segs[k].size \in Nat
  BY LayoutFacts DEF IInv, TypeOK
<1>3. min_va \in Nat /\ max_va \in Nat /\ memory \in Nat
  BY LayoutFacts DEF IInv, TypeOK, Address
<1>4. \A k \in Index : memory <= laddr[k] /\ laddr[k] + segs[k].size <= BlockEnd
  BY <1>1, <1>2, <1>3 DEF BlockEnd
<1>5. \A j, k \in Index : laddr[k] - laddr[j] = segs[k].vaddr_req - segs[j].vaddr_req
  BY <1>1, <1>2, <1>3
<1> QED
  BY <1>4, <1>5 DEF Placement

\* Every reachable state of the load is one of the invariant (kbelfx_seg_alloc
\* and the callbacks after it).
THEOREM SegmentsInvariant == Spec => []IInv
BY InitIInv, NextIInv, PTL DEF Spec

\* The state is well formed, and no fill or relocation leaves the address space.
THEOREM SegmentsTypeOK == Spec => []TypeOK
<1>1. IInv => TypeOK
  BY DEF IInv
<1> QED
  BY <1>1, SegmentsInvariant, PTL

\* The segments lie in the block, as far from each other as they asked to be, for
\* every width of size_t, file and block (kbelfx_seg_alloc).
THEOREM SegmentsPlacement == Spec => []Placement
BY IInvPlacement, SegmentsInvariant, PTL
-----------------------------------------------------------------------------
(* The bytes of the image *)

\* Segment k holds its image; no cache stands between it and the instruction fetch.
Image(k) ==
  \A b \in 0..segs[k].size - 1 :
    bytes[laddr[k] + b] = IF b < segs[k].file_size THEN <<k, b>> ELSE Zero
Visible(k) == Bytes(laddr[k], segs[k].size) \cap (dirty \cup stale) = {}

\* Each loop has done its work for the segments before i.
FillIInv ==
  /\ pc = "load" => \A k \in 1..i - 1 : Image(k)
  /\ pc \in {"relocate", "sync", "run"} => \A k \in Index : Image(k)
  /\ pc = "relocate" => i = 1
  /\ pc = "sync" => \A k \in 1..i - 1 : Visible(k)
  /\ pc = "run" => \A k \in Index : Visible(k)

\* No segment lies over another.
LEMMA Apart ==
  ASSUME IInv, Placed, NEW j \in Index, NEW k \in Index, j # k
  PROVE  Bytes(laddr[j], segs[j].size) \cap Bytes(laddr[k], segs[k].size) = {}
<1>1. \/ segs[j].vaddr_req + segs[j].size <= segs[k].vaddr_req
      \/ segs[k].vaddr_req + segs[k].size <= segs[j].vaddr_req
  <2>1. segs \in Layouts /\ j \in Nat /\ k \in Nat
    BY DEF IInv, TypeOK, Index
  <2>2. CASE j < k
    BY <2>1, <2>2, SegmentsAssumption DEF Index
  <2>3. CASE k < j
    BY <2>1, <2>3, SegmentsAssumption DEF Index
  <2>4. QED
    BY <2>1, <2>2, <2>3
<1>2. laddr[k] - laddr[j] = segs[k].vaddr_req - segs[j].vaddr_req
  BY IInvPlacement DEF Placement
<1>3. /\ segs[j].vaddr_req \in Nat /\ segs[j].size \in Nat
      /\ segs[k].vaddr_req \in Nat /\ segs[k].size \in Nat
      /\ laddr[j] \in Int /\ laddr[k] \in Int
  BY LayoutFacts DEF IInv, TypeOK, Address
<1>4. QED
  BY <1>1, <1>2, <1>3 DEF Bytes

\* A whole load fills its own segment.
LEMMA FillsOwn ==
  ASSUME IInv, pc = "load", bytes' = Fill(laddr[i], segs[i], segs[i].file_size),
         UNCHANGED <<segs, laddr>>
  PROVE  \A b \in 0..segs[i].size - 1 :
           bytes'[laddr[i] + b] = IF b < segs[i].file_size THEN <<i, b>> ELSE Zero
<1> TAKE b \in 0..segs[i].size - 1
<1> DEFINE a == laddr[i] + b
           s == segs[i]
<1>1. i \in Index /\ s.size \in Nat /\ s.file_size \in Nat /\ s.file_size <= s.size /\ laddr[i] \in Nat
  BY LayoutFacts DEF IInv, TypeOK, Address
<1>2. a \in Address
  BY <1>1, InBlock DEF Placed, Bytes
<1>3. b < s.file_size <=> a \in Bytes(laddr[i], s.file_size)
  BY <1>1 DEF Bytes
<1>4. b >= s.file_size => a \in ZeroRange(laddr[i], s)
  BY <1>1 DEF Bytes, ZeroRange
<1>5. a - laddr[i] = b
  BY <1>1
<1> HIDE DEF a
<1>6. bytes'[a] = IF a \in Bytes(laddr[i], s.file_size) THEN <<i, b>>
                  ELSE IF a \in ZeroRange(laddr[i], s) THEN Zero ELSE bytes[a]
  BY <1>2, <1>5 DEF Fill
<1>7. bytes'[a] = IF b < s.file_size THEN <<i, b>> ELSE Zero
  BY <1>1, <1>3, <1>4, <1>6
<1>8. QED
  BY <1>7 DEF a

\* It touches no other one.
LEMMA FillKeepsOthers ==
  ASSUME IInv, pc = "load", bytes' = Fill(laddr[i], segs[i], segs[i].file_size),
         UNCHANGED <<segs, laddr>>, NEW k \in Index, k # i, Image(k)
  PROVE  Image(k)'
<1>1. SUFFICES ASSUME NEW b \in 0..segs[k].size - 1 PROVE bytes'[laddr[k] + b] = bytes[laddr[k] + b]
  BY DEF Image
<1> DEFINE a == laddr[k] + b
<1>2. /\ i \in Index /\ segs[i].size \in Nat /\ segs[i].file_size \in Nat /\ segs[i].file_size <= segs[i].size
      /\ segs[k].size \in Nat /\ laddr[i] \in Nat /\ laddr[k] \in Nat
  BY LayoutFacts DEF IInv, TypeOK, Address
<1>3. a \in Bytes(laddr[k], segs[k].size)
  BY <1>2 DEF Bytes
<1>4. a \in Address /\ a \notin Bytes(laddr[i], segs[i].size)
  BY <1>2, <1>3, InBlock, Apart DEF Placed
<1> HIDE DEF a
<1>5. a \notin Bytes(laddr[i], segs[i].file_size) /\ a \notin ZeroRange(laddr[i], segs[i])
  <2>1. Bytes(laddr[i], segs[i].file_size) \subseteq Bytes(laddr[i], segs[i].size)
    BY <1>2 DEF Bytes
  <2>2. ZeroRange(laddr[i], segs[i]) \subseteq Bytes(laddr[i], segs[i].size)
    BY <1>2 DEF Bytes, ZeroRange
  <2>3. QED
    BY <1>4, <2>1, <2>2
<1>6. bytes'[a] = bytes[a]
  BY <1>4, <1>5 DEF Fill
<1>7. QED
  BY <1>6 DEF a

\* kbelfx_load: one more segment has its image.
LEMMA LoadFill == ASSUME IInv, FillIInv, Load PROVE FillIInv'
<1>1. /\ pc = "load" /\ UNCHANGED <<segs, laddr>> /\ i \in Index /\ Len(segs) \in Nat
      /\ bytes' = Fill(laddr[i], segs[i], segs[i].file_size)
  BY LayoutFacts DEF Load, Turn, IInv, TypeOK
<1>2. \A k \in 1..i - 1 : k \in Index /\ k # i
  BY <1>1 DEF Index
<1>3. \A k \in 1..i - 1 : Image(k)'
  BY <1>1, <1>2, FillKeepsOthers DEF FillIInv
<1>4. ASSUME NEW k, k = i PROVE Image(k)'
  <2>1. \A b \in 0..segs[i].size - 1 :
          bytes'[laddr[i] + b] = IF b < segs[i].file_size THEN <<i, b>> ELSE Zero
    BY <1>1, FillsOwn
  <2>2. QED
    BY <1>1, <1>4, <2>1 DEF Image
<1>5. ASSUME NEW k \in 1..i PROVE Image(k)'
  <2>1. k = i \/ k \in 1..i - 1
    BY <1>1 DEF Index
  <2>2. QED
    BY <1>3, <1>4, <2>1
<1>6. CASE i = Len(segs)
  BY <1>1, <1>5, <1>6 DEF Load, Turn, FillIInv, Index
<1>7. CASE i # Len(segs)
  BY <1>1, <1>5, <1>7 DEF Load, Turn, FillIInv, Index
<1>8. QED
  BY <1>6, <1>7

\* kbelfx_cache_sync: one more segment is out of the one cache and fetched anew by the other.
LEMMA SyncFill == ASSUME IInv, FillIInv, CacheSync PROVE FillIInv'
<1>1. /\ pc = "sync" /\ UNCHANGED <<segs, laddr, bytes>> /\ i \in Index /\ Len(segs) \in Nat
      /\ dirty' = dirty \ Bytes(laddr[i], segs[i].size) /\ stale' = stale \ Bytes(laddr[i], segs[i].size)
  BY LayoutFacts DEF CacheSync, WritebackInvalidate, Turn, IInv, TypeOK
<1>2. \A k : k = i \/ Visible(k) => Visible(k)'
  BY <1>1 DEF Visible
<1>3. \A k \in 1..i : Visible(k)'
  BY <1>1, <1>2 DEF FillIInv, Index
<1>4. \A k \in Index : Image(k)'
  BY <1>1 DEF FillIInv, Image, Index
<1>5. CASE i = Len(segs)
  BY <1>1, <1>3, <1>4, <1>5 DEF CacheSync, Turn, FillIInv, Index
<1>6. CASE i # Len(segs)
  BY <1>1, <1>3, <1>4, <1>6 DEF CacheSync, Turn, FillIInv, Index
<1>7. QED
  BY <1>5, <1>6

\* The other steps begin a loop, or leave the image alone.
LEMMA NextFill == ASSUME IInv, FillIInv, [Next]_vars PROVE FillIInv'
<1>1. CASE Scan \/ Allocate \/ Place
  <2>1. pc' \in {"scan", "alloc", "place", "load", "done"} /\ (pc' = "load" => i' = 1)
    BY <1>1 DEF Scan, Allocate, Place, Turn
  <2>2. QED
    BY <2>1 DEF FillIInv
<1>2. CASE LoadShort \/ Return \/ SegFree
  BY <1>2 DEF LoadShort, Return, SegFree, FillIInv
<1>3. CASE Relocate
  <2>1. pc = "relocate" /\ i = 1 /\ i' = i /\ UNCHANGED <<segs, laddr, bytes>> /\ pc' \in {"sync", "free"}
    BY <1>3 DEF Relocate, FillIInv
  <2>2. QED
    BY <2>1 DEF FillIInv, Image, Index
<1>4. CASE UNCHANGED vars
  BY <1>4 DEF vars, cacheVars, FillIInv, Image, Visible, Index
<1>5. QED
  BY <1>1, <1>2, <1>3, <1>4, LoadFill, SyncFill DEF Next

\* On every run.
LEMMA AlwaysFill == Spec => []FillIInv
<1>1. Init => FillIInv
  BY DEF Init, FillIInv
<1>2. QED
  BY <1>1, NextFill, SegmentsInvariant, PTL DEF Spec

\* What kbelf relocates and the app runs is the file's image: the load of a segment writes
\* all of it, zeroes included, and nothing of another (kbelfx_load).
THEOREM SegmentsImageLoaded == Spec => []ImageLoaded
<1>1. FillIInv => ImageLoaded
  BY DEF FillIInv, Image, ImageLoaded
<1>2. QED
  BY <1>1, AlwaysFill, PTL

\* When the app runs, no byte of it is only in the D-cache or old in the I-cache
\* (kbelfx_cache_sync).
THEOREM SegmentsFetchSeesCode == Spec => []FetchSeesCode
<1>1. FillIInv => FetchSeesCode
  BY DEF FillIInv, Visible, FetchSeesCode
<1>2. QED
  BY <1>1, AlwaysFill, PTL

-----------------------------------------------------------------------------
(* Alignment *)

\* Division leaves a remainder, and only one.
LEMMA Remainder ==
  ASSUME NEW a \in Nat \ {0}, NEW x \in Int
  PROVE  (x % a) \in 0..a - 1 /\ x = a * (x \div a) + (x % a) /\ (x \div a) \in Int
OBVIOUS

LEMMA RemainderUnique ==
  ASSUME NEW a \in Nat \ {0}, NEW q \in Int, NEW r \in 0..a - 1
  PROVE  (a * q + r) % a = r
OBVIOUS

\* What divides b divides the multiples of b, and adding them changes no remainder.
LEMMA AddMultiple ==
  ASSUME NEW a \in Nat \ {0}, NEW b \in Nat \ {0}, NEW c \in Int, NEW x \in Int,
         b % a = 0, c % b = 0
  PROVE  (x + c) % a = x % a
<1>1. b = a * (b \div a) /\ (b \div a) \in Int
  <2>1. b = a * (b \div a) + (b % a) /\ (b \div a) \in Int
    BY Remainder
  <2> QED
    BY <2>1
<1>2. c = b * (c \div b) /\ (c \div b) \in Int
  <2>1. c = b * (c \div b) + (c % b) /\ (c \div b) \in Int
    BY Remainder
  <2> QED
    BY <2>1
<1>3. x = a * (x \div a) + (x % a) /\ (x \div a) \in Int /\ (x % a) \in 0..a - 1
  BY Remainder
<1> DEFINE m == b \div a
           n == c \div b
           q == (x \div a) + m * n
<1>4. q \in Int /\ x + c = a * q + (x % a)
  <2> DEFINE d == x \div a
             r == x % a
  <2>1. a \in Int /\ m \in Int /\ n \in Int /\ d \in Int /\ r \in Int /\ c = (a * m) * n /\ x = a * d + r
    BY <1>1, <1>2, <1>3
  <2> HIDE DEF m, n, d, r
  <2>2. (a * m) * n = a * (m * n) /\ m * n \in Int
    BY <2>1
  <2>3. a * (d + m * n) = a * d + a * (m * n)
    BY <2>1, <2>2
  <2>4. x + c = a * (d + m * n) + r
    BY <2>1, <2>2, <2>3
  <2> QED
    BY <2>1, <2>2, <2>4 DEF m, d, r, n
<1> HIDE DEF q
<1>5. (a * q + (x % a)) % a = x % a
  BY <1>3, <1>4, RemainderUnique, Zenon
<1> QED
  BY <1>4, <1>5, Zenon

\* The block is aligned for the segments seen so far, by one of their alignments.
AlignIInv ==
  /\ min_align \in {MinAlign} \cup {segs[k].alignment : k \in Index}
  /\ pc = "scan" => \A k \in 1..i - 1 : segs[k].alignment <= min_align
  /\ pc # "scan" => \A k \in Index : segs[k].alignment <= min_align
  /\ pc = "place" \/ Placed => memory % min_align = 0

LEMMA NextAlign == ASSUME IInv, AlignIInv, [Next]_vars PROVE AlignIInv'
<1>1. CASE Scan
  <2>1. /\ i \in Index /\ i \in Nat /\ min_align \in Nat /\ Len(segs) \in Nat
        /\ \A k \in Index : segs[k].alignment \in Nat
    BY LayoutFacts DEF IInv, TypeOK, Index
  <2>2. segs' = segs /\ pc = "scan" /\ min_align' = Greatest(min_align, segs[i].alignment)
    BY <1>1 DEF Scan, Turn, Alignment
  <2>3. min_align <= min_align' /\ segs[i].alignment <= min_align' /\ min_align' \in {min_align, segs[i].alignment}
    BY <2>1, <2>2 DEF Greatest
  <2>4. \A k \in 1..i : segs'[k].alignment <= min_align'
    BY <2>1, <2>2, <2>3 DEF AlignIInv, Index
  <2>5. \/ i = Len(segs) /\ pc' = "alloc"
        \/ i' = i + 1 /\ pc' = "scan"
    BY <1>1 DEF Scan, Turn
  <2> QED
    BY <2>1, <2>2, <2>3, <2>4, <2>5 DEF AlignIInv, Placed, Index
<1>2. CASE Allocate
  BY <1>2 DEF Allocate, scanVars, AlignIInv, Placed, Index
<1>3. CASE Place
  BY <1>3 DEF Place, Turn, scanVars, blockVars, AlignIInv, Placed, Index
<1>4. CASE Load \/ LoadShort \/ Relocate \/ CacheSync \/ Return \/ SegFree
  <2>1. UNCHANGED <<segs, scanVars, blockVars>> /\ pc # "scan" /\ pc' # "scan" /\ pc' # "place"
        /\ (Placed' => Placed)
    BY <1>4 DEF Load, LoadShort, Relocate, CacheSync, Return, SegFree, Turn, Placed
  <2> QED
    BY <2>1 DEF scanVars, blockVars, AlignIInv, Index
<1>5. CASE UNCHANGED vars
  BY <1>5 DEF vars, scanVars, blockVars, AlignIInv, Placed, Index
<1> QED
  BY <1>1, <1>2, <1>3, <1>4, <1>5 DEF Next

\* If alignments nest, as powers of two do, a file whose lowest address is as aligned
\* as its most aligned segment keeps every alignment (kbelfx_seg_alloc).
THEOREM SegmentsAligned == ASSUME AlignmentsNest PROVE Spec => []Aligned
<1>1. Init => AlignIInv
  BY LayoutFacts DEF Init, AlignIInv, Placed, Index
<1>2. ASSUME IInv, AlignIInv PROVE Aligned
  <2> SUFFICES ASSUME Placed, min_va % min_align = 0, NEW k \in Index
               PROVE  laddr[k] % segs[k].alignment = segs[k].vaddr_req % segs[k].alignment
    BY DEF Aligned
  <2> DEFINE a == segs[k].alignment
             v == segs[k].vaddr_req
  <2>1. a \in Nat \ {0} /\ v \in Nat /\ min_align \in Nat \ {0}
        /\ min_va \in Nat /\ memory \in Nat
    BY <1>2, LayoutFacts DEF IInv, TypeOK, Address
  <2>2. laddr[k] = (v - min_va) + memory
    BY <1>2 DEF IInv, PlacedUpTo, Index
  <2>3. a <= min_align /\ segs \in Layouts
    BY <1>2 DEF AlignIInv, IInv, TypeOK, Placed
  <2>4. min_align % a = 0
    BY <1>2, <2>3 DEF AlignmentsNest, AlignIInv, Index
  <2>5. memory % min_align = 0
    BY <1>2 DEF AlignIInv
  <2> HIDE DEF a, v
  <2>0. v - min_va \in Int /\ memory \in Int /\ min_va \in Int
    BY <2>1
  <2>6. ((v - min_va) + memory) % a = (v - min_va) % a
    BY <2>0, <2>1, <2>4, <2>5, AddMultiple, Zenon
  <2>7. ((v - min_va) + min_va) % a = (v - min_va) % a
    BY <2>0, <2>1, <2>4, AddMultiple, Zenon
  <2>8. (v - min_va) + min_va = v
    BY <2>1
  <2> QED
    BY <2>2, <2>6, <2>7, <2>8, Zenon DEF a, v
<1> QED
  BY <1>1, <1>2, NextAlign, SegmentsInvariant, PTL DEF Spec
=============================================================================
