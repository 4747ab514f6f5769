----------------------------- MODULE SlabParam -----------------------------
(***************************************************************************)
(* The geometry of the slab allocator (page/page-kmcache.c): how large a   *)
(* slab is and where its objects lie, for a given size of an object.       *)
(***************************************************************************)
EXTENDS Integers

CONSTANTS
  FrameSize,
  Orders,        \* PAGE_POOL_MAX_ORDER
  SlabHdr,       \* sizeof(slab)
  ObjHdr,        \* sizeof(slab_obj_head)
  Word,          \* sizeof(void *), the default alignment
  CacheLine,     \* DEFAULT_L1_CACHE_BYTE
  TypeDivisor    \* KM_SLAB_TYPE_DIVISOR

ASSUME SlabParamAssumption ==
  /\ FrameSize \in Nat \ {0} /\ Orders \in Nat \ {0}
  /\ SlabHdr \in Nat /\ ObjHdr \in Nat
  /\ CacheLine \in Nat \ {0} /\ TypeDivisor \in Nat \ {0}

\* The number of pages that hold n bytes
PagesFor(n) == (n + FrameSize - 1) \div FrameSize

\* calc_page_order: the highest bit of the number of pages below the maximal
\* order, 0 (what every caller preset) if there is none.  It rounds down.
CalcPageOrder(size) ==
  LET bits == {o \in 0 .. Orders - 1 : (PagesFor(size) \div 2^o) % 2 = 1}
  IN IF bits = {} THEN 0 ELSE CHOOSE o \in bits : \A k \in bits : k <= o

\* _kmem_calc_align_offset
AlignOffset(size, align) == IF size % align = 0 THEN 0 ELSE align - (size % align)

\* calc_slab_data_size: an object with its header
DataSize(size, align) == ObjHdr + AlignOffset(size, align) + size

\* _kmem_is_off_slab
IsOffSlab(size) == FrameSize \div TypeDivisor <= size

\* The bytes that a slab of order o leaves unused
Remains(o, size, align) == (FrameSize * 2^o - SlabHdr) % DataSize(size, align)

\* calc_off_slab_size: the first order, from the smallest that is considered,
\* that wastes least
CalcOffSlabSize(size, align) ==
  LET min == CalcPageOrder(SlabHdr + DataSize(size, align))
      R(o) == Remains(o, size, align)
  IN FrameSize * 2^(CHOOSE o \in min .. Orders - 1 :
       /\ \A k \in min .. Orders - 1 : R(o) <= R(k)
       /\ \A k \in min .. o - 1 : R(o) < R(k))

\* calc_slab_param: slab_size
SlabSize(size, align) == IF IsOffSlab(size) THEN CalcOffSlabSize(size, align) ELSE FrameSize

\* calc_slab_param: objs_per_slab
ObjsPerSlab(size, align) == (SlabSize(size, align) - SlabHdr) \div DataSize(size, align)

\* Mutant: the header of the slab is not subtracted.
ColorAreaNoHeader(size, align) ==
  SlabSize(size, align) - ObjsPerSlab(size, align) * DataSize(size, align)

\* setup_color_param: the bytes that are left for the colours
ColorArea(size, align) ==
  SlabSize(size, align) - SlabHdr - ObjsPerSlab(size, align) * DataSize(size, align)

\* setup_color_param: color_num
ColorNum(size, align) ==
  IF ColorArea(size, align) < CacheLine THEN 0 ELSE ColorArea(size, align) \div CacheLine + 1

\* update_color_offset: the offset of a slab and the next colour
ColorOffset(next) == next * CacheLine
NextColor(next, num) == IF num = 0 THEN next ELSE (next + 1) % num

\* refer_object_head and kmem_cache_alloc: where object i lies in its slab
ObjectOffset(size, align, color, i) ==
  color + SlabHdr + i * DataSize(size, align) + ObjHdr + AlignOffset(size, align)

\* The per objects of a slab of bytes bytes lie behind one another and inside
\* of it when the next colour of the cache is next.
ObjectsFit(size, align, next, per, bytes) ==
  LET Start(i) == ObjectOffset(size, align, ColorOffset(next), i)
  IN \A i \in 1 .. per : Start(i - 1) + size <= IF i = per THEN bytes ELSE Start(i) - ObjHdr
=============================================================================
