------------------------------- MODULE SecMem -------------------------------
(* util-secmem.c, memory for secrets between guard pages, and the checked sizes
   of util-malloc.c.  Memory is a row of pages as the kernel keeps them; sizes
   are computed in words of SizeValues values, so they wrap. *)
EXTENDS Naturals, Sequences, FiniteSets

CONSTANTS
  Page,         \* bytes of a page: 4096
  Header,       \* bytes before the caller's memory: 64
  SizeValues,   \* values of a size_t: 2^64
  MaxNum,       \* 2^32, the square root of SizeValues
  Pages,        \* bound: pages of the address space
  Requests,     \* sizes the caller asks for
  Counts        \* numbers REALLOCARRAY() and CALLOC() are called with

ASSUME SecMemAssumption ==
  /\ Page \in Nat \ {0} /\ Pages \in Nat /\ Header \in 2 .. Page   \* room for the two sizes
  /\ MaxNum \in Nat \ {0} /\ SizeValues = MaxNum * MaxNum
  /\ Requests \subseteq 1 .. SizeValues - 1 /\ Counts \subseteq 0 .. SizeValues - 1

VARIABLES
  access,    \* of each page: "free", "rw" or "none"
  locked,    \* pages that cannot be swapped out
  regions,   \* live allocations: [start, full, size], start and full in bytes
  dirty,     \* bytes that hold something the caller or the allocator wrote
  asked,     \* bytes the last REALLOCARRAY() or CALLOC() asked the heap for
  wanted     \* the count and size it was given, or <<>>

secmemVars == <<access, locked, regions, dirty, asked, wanted>>

AllPages == 0 .. Pages - 1
PageOf(a) == a \div Page
PagesOf(start, bytes) == {PageOf(a) : a \in start .. start + bytes - 1}

FullSizeOneGuard(size) ==   \* Mutation: room for the guard page in front only.
  LET sum == size + Header + Page
  IN IF sum % Page = 0 THEN sum ELSE sum + (Page - (sum % Page))

\* The caller's bytes, two guard pages and the header, rounded up to pages.
FullSize(size) ==
  LET sum == (size + Header + 2 * Page) % SizeValues
  IN IF sum % Page = 0 THEN sum ELSE (sum + (Page - (sum % Page))) % SizeValues

User(r)   == r.start + Page + Header
Inside(r) == PagesOf(r.start + Page, r.full - 2 * Page)

SecMemInit ==
  /\ access = [g \in AllPages |-> "free"] /\ locked = {} /\ regions = {} /\ dirty = {}
  /\ asked = 0 /\ wanted = <<>>

\* util_secmem_alloc(): mmap(), two mprotect(), mlock() (madvise() may fail), and
\* the two sizes stored just before the caller's memory.
Alloc ==
  /\ \E size \in Requests, g \in AllPages :
       LET full == FullSize(size)
           r    == [start |-> g * Page, full |-> full, size |-> size]
       IN /\ full > 0 /\ r.start + full <= Pages * Page
          /\ \A h \in PagesOf(r.start, full) : access[h] = "free"
          /\ access' = [h \in AllPages |->
                          IF h \in Inside(r) THEN "rw"
                          ELSE IF h \in PagesOf(r.start, full) THEN "none" ELSE access[h]]
          /\ locked' = locked \cup Inside(r)
          /\ dirty' = dirty \cup (User(r) - 2 .. User(r) - 1)
          /\ regions' = regions \cup {r}
  /\ UNCHANGED <<asked, wanted>>

\* A call fails: the pages, if any, are unmapped again and NULL is returned.
\* MAP_FAILED, which is not NULL, is given to mprotect() and munmap(), and both fail.
AllocFails == UNCHANGED secmemVars

\* The caller fills its memory with a secret.
Fill ==
  /\ \E r \in regions : dirty' = dirty \cup (User(r) .. User(r) + r.size - 1)
  /\ UNCHANGED <<access, locked, regions, asked, wanted>>

WipedUser(r) == User(r) .. User(r) + r.size - 1   \* Mutation: only the caller's bytes.

\* What util_secmem_free() wipes: (p - 64, full_size - 2 * page_size).
Wiped(r) == User(r) - Header .. User(r) - Header + r.full - 2 * Page - 1

Free ==
  /\ \E r \in regions :
       /\ dirty' = dirty \ Wiped(r)
       /\ access' = [h \in AllPages |-> IF h \in PagesOf(r.start, r.full) THEN "free" ELSE access[h]]
       /\ locked' = locked \ PagesOf(r.start, r.full)
       /\ regions' = regions \ {r}
  /\ UNCHANGED <<asked, wanted>>

TooLargeBoth(count, size) ==   \* Mutation: && for ||.
  /\ count >= MaxNum /\ size >= MaxNum
  /\ size # 0 /\ count >= (SizeValues - 1) \div size

\* REALLOCARRAY(), CALLOC(): the test that comes before count * size is computed.
TooLarge(count, size) ==
  /\ count >= MaxNum \/ size >= MaxNum
  /\ size # 0 /\ count >= (SizeValues - 1) \div size

\* Where the test is true, or the heap has no memory, the program is aborted.
Reallocarray ==
  /\ \E count, size \in Counts :
       /\ ~TooLarge(count, size)
       /\ asked' = (count * size) % SizeValues
       /\ wanted' = <<count, size>>
  /\ UNCHANGED <<access, locked, regions, dirty>>

\* MALLOC() and MALLOCDUP() never ask for nothing; REALLOC() asks for what it is told.
Malloc ==
  /\ \E size \in Counts :
       asked' = (IF size = 0 THEN 1 ELSE size) /\ wanted' = <<1, IF size = 0 THEN 1 ELSE size>>
  /\ UNCHANGED <<access, locked, regions, dirty>>

Realloc ==
  /\ \E size \in Counts \ {0} : asked' = size /\ wanted' = <<1, size>>
  /\ UNCHANGED <<access, locked, regions, dirty>>

SecMemNext == Alloc \/ AllocFails \/ Fill \/ Free \/ Reallocarray \/ Malloc \/ Realloc

SecMemSpec == SecMemInit /\ [][SecMemNext]_secmemVars

\* util_secmem_memcmp(): 1 exactly when no byte is the same in both.
Memcmp(lhs, rhs) == IF {i \in DOMAIN lhs : lhs[i] = rhs[i]} = {} THEN 1 ELSE 0

-----------------------------------------------------------------------------
\* Every allocation that was granted has the caller's bytes and the header in
\* accessible, locked pages of its own, directly between two pages that nobody
\* can touch ("surrounded by guard pages"): running off either end stops before
\* it leaves the mapping.  No page is kept for an allocation that is gone.
\* (Requests is bounded away from the sizes whose sum wraps.)
Guarded ==
  /\ \A r \in regions :
       /\ User(r) + r.size <= r.start + r.full - Page
       /\ \A h \in Inside(r) : access[h] = "rw" /\ h \in locked
       /\ access[PageOf(r.start)] = "none" /\ access[PageOf(r.start + r.full - 1)] = "none"
       /\ PageOf(r.start) + 1 \in Inside(r) /\ PageOf(r.start + r.full - 1) - 1 \in Inside(r)
  /\ \A r, q \in regions : r # q => PagesOf(r.start, r.full) \cap PagesOf(q.start, q.full) = {}
  /\ {h \in AllPages : access[h] # "free"} = UNION {PagesOf(r.start, r.full) : r \in regions}

\* No byte of a page that was given back to the system holds anything the
\* caller or the allocator wrote ("The contents will be wiped before returned
\* to the operating system").
FreedIsClean == \A a \in dirty : access[PageOf(a)] = "rw"

\* The heap is never asked for fewer bytes than count times size: whenever the
\* product does not fit a size_t the program is aborted first.
NoWrap == wanted # <<>> => asked = wanted[1] * wanted[2]
=============================================================================
