------------------------------ MODULE Segments ------------------------------
(***************************************************************************)
(* The loader's memory callbacks, components/kbelf/src/kbelfx.c: the       *)
(* segments of an ELF file are placed in one block of the heap             *)
(* (kbelfx_seg_alloc), filled (kbelfx_load), relocated by kbelf, made      *)
(* visible to instruction fetch (kbelfx_cache_sync) and freed.  A size_t   *)
(* has Word values.                                                        *)
(***************************************************************************)
EXTENDS Integers, Sequences

CONSTANTS Word,      \* 2^32
          MinAlign,  \* 16 in the code
          Layouts    \* what the files may ask for: sequences of segments

Segment == [vaddr_req : Nat, size : Nat, file_size : Nat, alignment : Nat \ {0}]

\* What a linker lays out: at least one segment, none past the end of the address
\* space, no two over each other.
ASSUME SegmentsAssumption ==
  /\ Word \in Nat \ {0} /\ MinAlign \in Nat \ {0}
  /\ \A segs \in Layouts :
       /\ segs \in Seq(Segment) /\ segs # <<>>
       /\ \A k \in 1..Len(segs) : segs[k].file_size <= segs[k].size
                               /\ segs[k].vaddr_req + segs[k].size < Word
       /\ \A j, k \in 1..Len(segs) : j < k =>
            \/ segs[j].vaddr_req + segs[j].size <= segs[k].vaddr_req
            \/ segs[k].vaddr_req + segs[k].size <= segs[j].vaddr_req

\* Alignments are powers of two, so that of any two the larger is a multiple of the
\* smaller.
AlignmentsNest ==
  \A segs \in Layouts :
    LET all == {MinAlign} \cup {segs[k].alignment : k \in 1..Len(segs)}
    IN  \A a, b \in all : a <= b => b % a = 0

VARIABLES
  segs,                      \* vaddr_req, size and alignment, and p_filesz
  laddr,                     \* of each segment: its place, and vaddr_real
  pc, i,                     \* where the load stands; the loops' index
  min_va, max_va, min_align, \* what the first loop has found
  memory, offset,            \* the block, which is segs[0].alloc_cookie too
  bytes,                     \* what a load from each address yields
  dirty,                     \* addresses whose newest value is in the D-cache
  stale                      \* addresses that the I-cache may hold an old value of

scanVars == <<min_va, max_va, min_align>>
blockVars == <<memory, offset>>
cacheVars == <<bytes, dirty, stale>>
vars == <<segs, laddr, pc, i, scanVars, blockVars, cacheVars>>

Address == 0..Word - 1
Index == 1..Len(segs)
Junk == <<>>
Zero == <<0>>

\* The bytes from a on, n of them.
Bytes(a, n) == a..a + n - 1

TypeOK ==
  /\ segs \in Layouts /\ laddr \in [Index -> Address]
  /\ pc \in {"scan", "alloc", "place", "load", "relocate", "sync", "run", "free", "done"}
  /\ i \in Index
  /\ min_va \in Address /\ max_va \in Address /\ min_align \in Nat \ {0}
  /\ memory \in Address /\ offset \in Address
  /\ DOMAIN bytes = Address /\ dirty \subseteq Address /\ stale \subseteq Address

Init ==
  /\ segs \in Layouts /\ laddr = [k \in Index |-> 0] /\ pc = "scan" /\ i = 1
  /\ min_va = Word - 1 /\ max_va = 0 /\ min_align = MinAlign
  /\ memory = 0 /\ offset = 0
  /\ bytes = [a \in Address |-> Junk] /\ dirty = {} /\ stale = Address

\* size_t arithmetic
Sub(a, b) == IF b <= a THEN a - b ELSE a - b + Word
\* Mutant: a sum of 64 bits.
AddWide(a, b) == a + b
Add(a, b) == IF a + b < Word THEN a + b ELSE a + b - Word

Least(a, b) == IF a < b THEN a ELSE b
Greatest(a, b) == IF a < b THEN b ELSE a

\* One turn of a loop over the segments; after the last one, pc is next.
Turn(here, next) ==
  /\ pc = here
  /\ IF i = Len(segs) THEN i' = 1 /\ pc' = next ELSE i' = i + 1 /\ UNCHANGED pc

-----------------------------------------------------------------------------
(* kbelfx_seg_alloc                                                        *)

\* Mutant: the last segment is taken for the one that ends last.
LastEnd(s) == s.vaddr_req + s.size
End(s) == Greatest(max_va, s.vaddr_req + s.size)

\* Mutant: the block has the alignment of the last segment.
LastAlign(s) == s.alignment
Alignment(s) == Greatest(min_align, s.alignment)

Scan ==
  /\ Turn("scan", "alloc")
  /\ min_align' = Alignment(segs[i]) /\ max_va' = End(segs[i])
  /\ min_va' = Least(min_va, segs[i].vaddr_req)
  /\ UNCHANGED <<segs, laddr, blockVars, cacheVars>>

\* aligned_alloc finds a block, below the top of the address space, or it does not.
Allocate ==
  /\ pc = "alloc" /\ i' = 1
  /\ \/ /\ memory' \in {a \in Address \ {0} : a % min_align = 0 /\ a + (max_va - min_va) < Word}
        /\ offset' = Sub(memory', min_va) /\ pc' = "place"
     \/ pc' = "done" /\ UNCHANGED blockVars
  /\ UNCHANGED <<segs, laddr, scanVars, cacheVars>>

Place ==
  /\ Turn("place", "load") /\ laddr' = [laddr EXCEPT ![i] = Add(segs[i].vaddr_req, offset)]
  /\ UNCHANGED <<segs, scanVars, blockVars, cacheVars>>

-----------------------------------------------------------------------------
(* kbelfx_load, kbelfx_cache_sync, kbelfx_seg_free, and kbelf between them *)

\* Mutant: the zeroes go to the start of the segment.
ZeroFirst(a, s) == Bytes(a, s.size - s.file_size)
ZeroRange(a, s) == Bytes(a + s.file_size, s.size - s.file_size)

\* memset, then fread of as much as the file gives.
Fill(a, s, got) ==
  LET zeroed == [b \in Address |-> IF b \in ZeroRange(a, s) THEN Zero ELSE bytes[b]]
  IN  [b \in Address |-> IF b \in Bytes(a, got) THEN <<i, b - a>> ELSE zeroed[b]]

Load ==
  /\ bytes' = Fill(laddr[i], segs[i], segs[i].file_size)
  /\ dirty' = dirty \cup Bytes(laddr[i], segs[i].size)
  /\ Turn("load", "relocate") /\ UNCHANGED <<segs, laddr, scanVars, blockVars, stale>>

\* The file ends early, or cannot be read: kbelf gives up.
LoadShort ==
  /\ pc = "load" /\ pc' = "free"
  /\ \E got \in 0..segs[i].file_size - 1 : bytes' = Fill(laddr[i], segs[i], got)
  /\ dirty' = dirty \cup Bytes(laddr[i], segs[i].size)
  /\ UNCHANGED <<segs, laddr, i, scanVars, blockVars, stale>>

\* kbelf writes relocated words through the D-cache, where it likes.
Relocate ==
  /\ pc = "relocate" /\ pc' \in {"sync", "free"}
  /\ dirty' = dirty \cup UNION {Bytes(laddr[k], segs[k].size) : k \in Index}
  /\ UNCHANGED <<segs, laddr, i, scanVars, blockVars, bytes, stale>>

\* Mutant: written back, not invalidated.
WritebackOnly(range) == dirty' = dirty \ range /\ UNCHANGED stale
WritebackInvalidate(range) == dirty' = dirty \ range /\ stale' = stale \ range

CacheSync ==
  /\ WritebackInvalidate(Bytes(laddr[i], segs[i].size))
  /\ Turn("sync", "run") /\ UNCHANGED <<segs, laddr, scanVars, blockVars, bytes>>

\* The app runs, and may return.
Return ==
  /\ pc = "run" /\ pc' = "free"
  /\ UNCHANGED <<segs, laddr, i, scanVars, blockVars, cacheVars>>

SegFree ==
  /\ pc = "free" /\ pc' = "done"
  /\ UNCHANGED <<segs, laddr, i, scanVars, blockVars, cacheVars>>

Next ==
  \/ Scan \/ Allocate \/ Place
  \/ Load \/ LoadShort \/ Relocate \/ CacheSync \/ Return \/ SegFree

Spec == Init /\ [][Next]_vars

-----------------------------------------------------------------------------
(* Properties                                                              *)

Placed == pc \in {"load", "relocate", "sync", "run", "free"}
BlockEnd == memory + (max_va - min_va)

\* Every segment lies in the block that was allocated, past neither end, and the
\* segments are as far from each other as they asked to be, so that code finds
\* its data and none lies over another, although the offset may wrap around
\* (kbelfx_seg_alloc).
Placement ==
  Placed =>
    /\ \A k \in Index : memory <= laddr[k] /\ laddr[k] + segs[k].size <= BlockEnd
    /\ \A j, k \in Index : laddr[k] - laddr[j] = segs[k].vaddr_req - segs[j].vaddr_req

\* If the file's lowest address has the alignment of its most aligned segment, as
\* linkers see to, no segment loses the alignment of the address it asked for
\* (kbelfx_seg_alloc).
Aligned ==
  Placed /\ min_va % min_align = 0 =>
    \A k \in Index : laddr[k] % segs[k].alignment = segs[k].vaddr_req % segs[k].alignment

\* What kbelf relocates is the file's image: each segment's bytes from the file,
\* then zeroes, none of them lost to the load of another segment (kbelfx_load).
ImageLoaded ==
  pc \in {"relocate", "sync", "run"} =>
    \A k \in Index : \A b \in 0..segs[k].size - 1 :
      bytes[laddr[k] + b] = IF b < segs[k].file_size THEN <<k, b>> ELSE Zero

\* No byte of the app is still in the D-cache only, or old in the I-cache, when
\* the app runs (kbelfx_cache_sync, called for each segment).
FetchSeesCode ==
  pc = "run" =>
    \A k \in Index : Bytes(laddr[k], segs[k].size) \cap (dirty \cup stale) = {}

-----------------------------------------------------------------------------
(* The inductive invariant                                                 *)

\* The first s segments have been looked at.
Scanned(s) ==
  \A k \in 1..s : min_va <= segs[k].vaddr_req /\ segs[k].vaddr_req + segs[k].size <= max_va

\* The first s segments are in place.
PlacedUpTo(s) == \A k \in 1..s : laddr[k] = segs[k].vaddr_req - min_va + memory

IInv ==
  /\ TypeOK
  /\ pc = "scan" => Scanned(i - 1)
  /\ pc # "scan" => Scanned(Len(segs))
  /\ pc \in {"place", "load", "relocate", "sync", "run", "free"} =>
       offset = Sub(memory, min_va) /\ BlockEnd < Word
  /\ pc = "place" => PlacedUpTo(i - 1)
  /\ Placed => PlacedUpTo(Len(segs))
=============================================================================
