---------------------------- MODULE MemoryProofs ----------------------------
(***************************************************************************)
(* Proofs about the user-memory allocator and the pools.  SysMem: as long  *)
(* as no request reaches the end of the 32-bit address space, the blocks   *)
(* handed out are disjoint, lie in the heap and go where they fit first,   *)
(* for every heap, granule, table size and set of requests.  Vpl: the      *)
(* accounting is exact for any number of threads, pools, blocks and        *)
(* places, and any sizes.                                                  *)
(***************************************************************************)
EXTENDS Memory, SetLemmas


(* The remainder as the provers need it. *)
LEMMA Remainder ==
    ASSUME NEW n \in Nat, NEW m \in Nat, 0 < m
    PROVE  n % m \in Nat /\ n % m < m /\ n % m <= n /\ (n < m => n % m = n)
OBVIOUS

(* What aligning does, away from the end of the address space. *)
LEMMA Aligning ==
    ASSUME NEW n \in Nat, NEW m \in Nat, 0 < m
    PROVE  /\ AlignDown(n, m) \in Nat
           /\ AlignDown(n, m) <= n
           /\ n + m < Word => /\ AlignUp(n, m) \in Nat
                              /\ n <= AlignUp(n, m)
                              /\ AlignUp(n, m) < n + m
<1>1. n % m \in Nat /\ n % m <= n
  BY Remainder
<1>2. AlignDown(n, m) \in Nat /\ AlignDown(n, m) <= n
  BY <1>1 DEF AlignDown
<1>3. ASSUME n + m < Word
      PROVE  AlignUp(n, m) \in Nat /\ n <= AlignUp(n, m) /\ AlignUp(n, m) < n + m
  <2> DEFINE k == n + m - 1
  <2>1. k \in Nat /\ k < Word
    BY <1>3, SysMemAssumption
  <2>2. k % Word = k
    BY <2>1, SysMemAssumption, Remainder
  <2>3. k % m \in Nat /\ k % m < m
    BY <2>1, Remainder
  <2>4. AlignUp(n, m) = k - (k % m)
    BY <2>2 DEF AlignUp, AlignDown, Wrap
  <2> QED
    BY <2>1, <2>3, <2>4
<1> QED
  BY <1>2, <1>3

(* What a caller asks for, rounded, stays away from the end of the address space. *)
LEMMA Rounding ==
    ASSUME NoWrap, NEW n \in Size
    PROVE  /\ n \in Nat /\ Rounded(n) \in Nat /\ 0 < Rounded(n) /\ n <= Rounded(n)
           /\ \A m \in Align \cup {Granule} : /\ m \in Nat /\ 0 < m
                                              /\ Hi + m + Rounded(n) < Word
           /\ \A a \in Want : a \in Nat /\ a + Rounded(n) < Word
<1>1. n \in Nat /\ Granule \in Nat /\ 0 < Granule /\ Hi \in Nat /\ Word \in Nat
  BY SysMemAssumption
<1>2. \A m \in Align \cup {Granule} : m \in Nat /\ 0 < m /\ Hi + n + m + Granule < Word
  BY SysMemAssumption DEF NoWrap
<1>3. n + Granule < Word
  BY <1>1, <1>2
<1>4. AlignUp(n, Granule) \in Nat /\ n <= AlignUp(n, Granule) /\ AlignUp(n, Granule) < n + Granule
  BY <1>1, <1>3, Aligning
<1>5. Rounded(n) \in Nat /\ 0 < Rounded(n) /\ n <= Rounded(n) /\ Rounded(n) <= n + Granule
  BY <1>1, <1>4 DEF Rounded
<1>6. \A m \in Align \cup {Granule} : Hi + m + Rounded(n) < Word
  BY <1>1, <1>2, <1>5
<1>7. \A a \in Want : a \in Nat /\ a + Rounded(n) < Word
  BY <1>1, <1>5, SysMemAssumption DEF NoWrap
<1> QED
  BY <1>1, <1>2, <1>5, <1>6, <1>7

(* psp_sysmem_reset establishes the invariant. *)
LEMMA InitIInv == Init => IInv
<1> SUFFICES ASSUME Init PROVE IInv
  OBVIOUS
<1>1. TypeOK
  BY DEF Init, TypeOK, Unused, Idle
<1>2. InUse = {}
  BY DEF Init, InUse, Unused
<1>3. SearchInHeap
  BY DEF Init, Idle, SearchInHeap
<1> QED
  BY <1>1, <1>2, <1>3 DEF IInv, BlocksApart, BlocksInHeap, BlockLargeEnough

(* A block placed where nothing is in the way keeps the blocks apart: the one step
   behind every way of placing one. *)
LEMMA PlaceKeeps ==
    ASSUME IInv, NEW a \in Nat, NEW n \in Nat, NEW asked \in Nat,
           0 < n, asked <= n, Lo <= a, a + n <= Hi, ~Overlaps(a, n), Place(a, n, asked)
    PROVE  /\ block' \in [Slot -> [used : BOOLEAN, addr : Nat, size : Nat, asked : Nat]]
           /\ BlocksApart' /\ BlocksInHeap' /\ BlockLargeEnough'
<1>1. CASE FreeSlots = {}
  BY <1>1 DEF IInv, TypeOK, Place, BlocksApart, BlocksInHeap, BlockLargeEnough, InUse
<1>2. CASE FreeSlots # {}
  <2> DEFINE f == Min(FreeSlots)
             b == [used |-> TRUE, addr |-> a, size |-> n, asked |-> asked]
  <2>1. block' = [block EXCEPT ![f] = b]
    BY <1>2 DEF Place
  <2> HIDE DEF f
  <2>2. block' \in [Slot -> [used : BOOLEAN, addr : Nat, size : Nat, asked : Nat]]
    BY <2>1 DEF IInv, TypeOK
  <2>3. \A s \in InUse' : \/ s \in InUse /\ block'[s] = block[s]
                          \/ s = f /\ block'[s] = b
    BY <2>1 DEF IInv, TypeOK, InUse
  <2>4. \A s \in InUse : /\ s \in Slot /\ block[s].addr \in Nat /\ block[s].size \in Nat
                         /\ Lo <= block[s].addr /\ block[s].addr + block[s].size <= Hi
    BY DEF IInv, TypeOK, BlocksInHeap, InUse
  <2>5. Hi \in Nat /\ Word \in Nat /\ Hi < Word /\ Lo \in Nat /\ 0 < Word
    BY SysMemAssumption
  <2>6. Wrap(a + n) = a + n
    BY <2>5, Remainder DEF Wrap
  <2>7. \A s \in InUse : EndOf(s) = block[s].addr + block[s].size
    BY <2>4, <2>5, Remainder DEF EndOf, Wrap
  <2>8. \A s \in InUse : \/ block[s].addr + block[s].size <= a
                         \/ a + n <= block[s].addr
    BY <2>4, <2>6, <2>7 DEF Overlaps, InTheWay
  <2>9. BlocksApart'
    <3> SUFFICES ASSUME NEW s \in InUse', NEW t \in InUse', s # t
                 PROVE  \/ block'[s].addr + block'[s].size <= block'[t].addr
                        \/ block'[t].addr + block'[t].size <= block'[s].addr
      BY DEF BlocksApart
    <3>1. CASE s \in InUse /\ t \in InUse /\ block'[s] = block[s] /\ block'[t] = block[t]
      BY <3>1 DEF IInv, BlocksApart
    <3>2. CASE s \in InUse /\ block'[s] = block[s] /\ block'[t] = b
      BY <3>2, <2>8
    <3>3. CASE t \in InUse /\ block'[t] = block[t] /\ block'[s] = b
      BY <3>3, <2>8
    <3> QED
      BY <2>3, <3>1, <3>2, <3>3
  <2>10. BlocksInHeap'
    BY <2>3 DEF IInv, BlocksInHeap
  <2>11. BlockLargeEnough'
    BY <2>3 DEF IInv, BlockLargeEnough
  <2> QED
    BY <2>2, <2>9, <2>10, <2>11
<1> QED
  BY <1>1, <1>2

(* The blocks a search has in its way bound where it looks next. *)
LEMMA NextCandidate ==
    ASSUME IInv
    PROVE  /\ NextLow \in Nat /\ Lo <= NextLow /\ NextLow <= Hi
           /\ NextHigh \in Nat /\ NextHigh <= Hi
<1>1. \A s \in InUse : /\ block[s].addr \in Nat /\ block[s].size \in Nat
                       /\ Lo <= block[s].addr /\ block[s].addr + block[s].size <= Hi
  BY DEF IInv, TypeOK, BlocksInHeap, InUse
<1>2. Hi \in Nat /\ Word \in Nat /\ Hi < Word /\ Lo \in Nat /\ Lo < Hi
  BY SysMemAssumption
<1>3. \A s \in InUse : EndOf(s) = block[s].addr + block[s].size
  BY <1>1, <1>2, Remainder DEF EndOf, Wrap
<1>4. InTheWay(search.at, search.size) \subseteq InUse
  BY DEF InTheWay
<1> DEFINE L == {Hi} \cup {EndOf(s) : s \in InTheWay(search.at, search.size)}
           H == {Lo} \cup {block[s].addr : s \in InTheWay(search.at, search.size)}
<1>5. L \subseteq Lo..Hi /\ H \subseteq Lo..Hi
  BY <1>1, <1>2, <1>3, <1>4
<1>6. L \in SUBSET Nat /\ L # {} /\ H \in SUBSET (0..Hi) /\ H # {}
  BY <1>2, <1>5
<1>7. NextLow = Min(L) /\ NextHigh = Max(H)
  BY DEF NextLow, NextHigh
<1> HIDE DEF L, H
<1>8. Min(L) \in L
  BY <1>6, MinIsLeast
<1>9. Max(H) \in H
  BY <1>2, <1>6, MaxIsGreatest
<1>10. NextLow \in Lo..Hi /\ NextHigh \in Lo..Hi
  BY <1>5, <1>7, <1>8, <1>9, Zenon
<1> QED
  BY <1>2, <1>10

(* A step that leaves the blocks alone. *)
LEMMA BlocksUnchanged ==
    ASSUME IInv, UNCHANGED block
    PROVE  BlocksApart' /\ BlocksInHeap' /\ BlockLargeEnough'
BY DEF IInv, BlocksApart, BlocksInHeap, BlockLargeEnough, InUse

(* Nothing is being searched: an idle search satisfies its part. *)
LEMMA IdleInHeap ==
    ASSUME search' = Idle
    PROVE  /\ SearchInHeap'
           /\ search' \in [dir : {"idle", "low", "high"}, at : Nat, size : Nat, align : Nat,
                           asked : Nat]
BY DEF Idle, SearchInHeap

(* Every step of an allocation and every release keeps the invariant, as long as no
   request reaches the end of the 32-bit space. *)
LEMMA NextIInv == ASSUME NoWrap, IInv, [Next]_vars PROVE IInv'
<1> USE DEF IInv
<1>1. ASSUME NEW n \in Size, NEW m \in Align \cup {Granule}, AskLow(n, m)
      PROVE  IInv'
  <2>1. /\ n \in Nat /\ Rounded(n) \in Nat /\ 0 < Rounded(n) /\ n <= Rounded(n)
        /\ m \in Nat /\ 0 < m /\ Hi + m + Rounded(n) < Word
    BY Rounding
  <2>2. Lo \in Nat /\ Hi \in Nat /\ Lo < Hi /\ Word \in Nat
    BY SysMemAssumption
  <2>3. Lo + m < Word
    BY <2>1, <2>2
  <2>4. AlignUp(Lo, m) \in Nat /\ Lo <= AlignUp(Lo, m) /\ AlignUp(Lo, m) < Lo + m
    BY <2>1, <2>2, <2>3, Aligning
  <2>5. TypeOK' /\ SearchInHeap'
    BY <1>1, <2>1, <2>2, <2>4 DEF AskLow, TypeOK, SearchInHeap
  <2> QED
    BY <1>1, <2>5, BlocksUnchanged DEF AskLow
<1>2. ASSUME NEW n \in Size, NEW m \in Align \cup {Granule}, AskHigh(n, m)
      PROVE  IInv'
  <2>1. /\ n \in Nat /\ Rounded(n) \in Nat /\ 0 < Rounded(n) /\ n <= Rounded(n)
        /\ m \in Nat /\ 0 < m /\ Hi + m + Rounded(n) < Word
    BY Rounding
  <2>2. Lo \in Nat /\ Hi \in Nat /\ Lo < Hi /\ Word \in Nat /\ Rounded(n) <= Hi - Lo
    BY <1>2, SysMemAssumption DEF AskHigh
  <2> DEFINE a == AlignDown(Hi - Rounded(n), m)
  <2>3. a \in Nat /\ a <= Hi - Rounded(n)
    <3>1. Hi - Rounded(n) \in Nat
      BY <2>1, <2>2
    <3> QED
      BY <2>1, <3>1, Aligning
  <2>4. search' = [dir |-> "high", at |-> a, size |-> Rounded(n), align |-> m, asked |-> n]
    BY <1>2 DEF AskHigh
  <2> HIDE DEF a
  <2>5. TypeOK' /\ SearchInHeap'
    BY <1>2, <2>1, <2>2, <2>3, <2>4 DEF AskHigh, TypeOK, SearchInHeap
  <2> QED
    BY <1>2, <2>5, BlocksUnchanged DEF AskHigh
<1>3. ASSUME NEW n \in Size, NEW a \in Want, AskAddr(n, a)
      PROVE  IInv'
  <2>1. /\ n \in Nat /\ Rounded(n) \in Nat /\ 0 < Rounded(n) /\ n <= Rounded(n)
        /\ a \in Nat /\ a + Rounded(n) < Word
    BY Rounding
  <2>2. Word \in Nat /\ 0 < Word
    BY SysMemAssumption
  <2>3. Wrap(a + Rounded(n)) = a + Rounded(n)
    BY <2>1, <2>2, Remainder DEF Wrap
  <2>4. Lo <= a /\ a + Rounded(n) <= Hi /\ ~Overlaps(a, Rounded(n)) /\ Place(a, Rounded(n), n)
    BY <1>3, <2>3 DEF AskAddr
  <2>5. /\ block' \in [Slot -> [used : BOOLEAN, addr : Nat, size : Nat, asked : Nat]]
        /\ BlocksApart' /\ BlocksInHeap' /\ BlockLargeEnough'
    BY <2>1, <2>4, PlaceKeeps
  <2>6. search' = Idle
    BY <1>3 DEF AskAddr
  <2> QED
    BY <2>5, <2>6, IdleInHeap DEF TypeOK
<1>4. CASE Found
  <2> DEFINE a == search.at
             n == search.size
  <2>1. a \in Nat /\ n \in Nat /\ search.align \in Nat /\ search.asked \in Nat
    BY DEF TypeOK
  <2>2. Word \in Nat /\ 0 < Word /\ Hi \in Nat /\ Lo \in Nat
    BY SysMemAssumption
  <2>3. 0 < n /\ search.asked <= n
    BY <1>4 DEF Found, SearchInHeap
  <2>4. Lo <= a /\ a + n <= Hi
    <3>1. CASE search.dir = "low"
      <4>1. a + n < Word
        BY <3>1, <2>1, <2>2 DEF SearchInHeap
      <4>2. Wrap(a + n) = a + n
        BY <4>1, <2>1, <2>2, Remainder DEF Wrap
      <4> QED
        BY <3>1, <4>2, <1>4 DEF Found, SearchInHeap
    <3>2. CASE search.dir = "high"
      BY <3>2, <1>4 DEF Found, SearchInHeap
    <3> QED
      BY <1>4, <3>1, <3>2 DEF Found
  <2>5. ~Overlaps(a, n) /\ Place(a, n, search.asked)
    BY <1>4 DEF Found
  <2>6. /\ block' \in [Slot -> [used : BOOLEAN, addr : Nat, size : Nat, asked : Nat]]
        /\ BlocksApart' /\ BlocksInHeap' /\ BlockLargeEnough'
    BY <2>1, <2>3, <2>4, <2>5, PlaceKeeps
  <2>7. search' = Idle
    BY <1>4 DEF Found
  <2> QED
    BY <2>6, <2>7, IdleInHeap DEF TypeOK
<1>5. CASE SkipUp
  <2>1. NextLow \in Nat /\ Lo <= NextLow /\ NextLow <= Hi
    BY NextCandidate
  <2>2. /\ search.align \in Nat /\ 0 < search.align /\ search.size \in Nat
        /\ Hi + search.align + search.size < Word
    BY <1>5 DEF SkipUp, TypeOK, SearchInHeap
  <2>3. Hi \in Nat /\ Lo \in Nat /\ Word \in Nat
    BY SysMemAssumption
  <2>4. NextLow + search.align < Word
    BY <2>1, <2>2, <2>3
  <2> DEFINE a == AlignUp(NextLow, search.align)
  <2>5. a \in Nat /\ NextLow <= a /\ a < NextLow + search.align
    BY <2>1, <2>2, <2>4, Aligning
  <2>6. search' = [search EXCEPT !.at = a]
    BY <1>5 DEF SkipUp
  <2> HIDE DEF a
  <2>7. TypeOK' /\ SearchInHeap'
    BY <1>5, <2>1, <2>2, <2>3, <2>5, <2>6 DEF SkipUp, TypeOK, SearchInHeap
  <2> QED
    BY <1>5, <2>7, BlocksUnchanged DEF SkipUp
<1>6. CASE SkipDown
  <2>1. NextHigh \in Nat /\ NextHigh <= Hi /\ NextHigh >= search.size
    BY <1>6, NextCandidate DEF SkipDown
  <2>2. search.align \in Nat /\ 0 < search.align /\ search.size \in Nat
    BY <1>6 DEF SkipDown, TypeOK, SearchInHeap
  <2>3. Hi \in Nat
    BY SysMemAssumption
  <2> DEFINE a == AlignDown(NextHigh - search.size, search.align)
  <2>4. a \in Nat /\ a <= NextHigh - search.size
    BY <2>1, <2>2, Aligning
  <2>5. search' = [search EXCEPT !.at = a]
    BY <1>6 DEF SkipDown
  <2> HIDE DEF a
  <2>6. TypeOK' /\ SearchInHeap'
    BY <1>6, <2>1, <2>2, <2>3, <2>4, <2>5 DEF SkipDown, TypeOK, SearchInHeap
  <2> QED
    BY <1>6, <2>6, BlocksUnchanged DEF SkipDown
<1>7. CASE NotFound
  BY <1>7, BlocksUnchanged, IdleInHeap DEF NotFound, TypeOK
<1>8. ASSUME NEW s, Free(s)
      PROVE  IInv'
  <2>1. /\ s \in Slot
        /\ block' = [block EXCEPT ![s] = Unused]
        /\ search' = Idle
    BY <1>8 DEF Free, InUse
  <2>2. block' \in [Slot -> [used : BOOLEAN, addr : Nat, size : Nat, asked : Nat]]
    BY <2>1 DEF TypeOK, Unused
  <2>3. \A t \in InUse' : t \in InUse /\ block'[t] = block[t]
    BY <2>1 DEF TypeOK, Unused, InUse
  <2>4. BlocksApart' /\ BlocksInHeap' /\ BlockLargeEnough'
    BY <2>3 DEF BlocksApart, BlocksInHeap, BlockLargeEnough
  <2> QED
    BY <2>1, <2>2, <2>4, IdleInHeap DEF TypeOK
<1>9. ASSUME NEW a, Release(a)
      PROVE  IInv'
  BY <1>8, <1>9 DEF Release
<1>10. CASE UNCHANGED vars
  <2>1. UNCHANGED block /\ search' = search
    BY <1>10 DEF vars
  <2>2. TypeOK' /\ SearchInHeap'
    BY <2>1 DEF TypeOK, SearchInHeap
  <2> QED
    BY <2>1, <2>2, BlocksUnchanged
<1> QED
  BY <1>1, <1>2, <1>3, <1>4, <1>5, <1>6, <1>7, <1>8, <1>9, <1>10 DEF Next

(* The invariant of sysmem.c's table and of its searches. *)
LEMMA SysMemInvariant == ASSUME NoWrap PROVE Spec => []IInv
<1>1. Init => IInv
  BY InitIInv
<1>2. IInv /\ [Next]_vars => IInv'
  BY NextIInv
<1> QED
  BY <1>1, <1>2, PTL DEF Spec

(* For every heap, granule, table size and set of requests that do not reach the end
   of the address space: whatever is allocated, low, high or at an address, and freed
   in whatever order, no two blocks of sysmem.c share a byte. *)
THEOREM BlocksStayApart == ASSUME NoWrap PROVE Spec => []BlocksApart
<1>1. IInv => BlocksApart
  BY DEF IInv
<1> QED
  BY <1>1, SysMemInvariant, PTL

(* Under the same condition every block lies between g_heap_lo and g_heap_hi, and is at
   least as large as its caller asked for. *)
THEOREM BlocksAlwaysServe == ASSUME NoWrap PROVE Spec => []BlocksServe
<1>1. IInv => BlocksServe
  BY DEF IInv, BlocksServe
<1> QED
  BY <1>1, SysMemInvariant, PTL

-----------------------------------------------------------------------------
(* Two multiples of m are at least m apart. *)
LEMMA Multiples ==
    ASSUME NEW x \in Nat, NEW y \in Nat, NEW m \in Nat, 0 < m, x % m = 0, y % m = 0, x < y
    PROVE  x + m <= y
<1> DEFINE p == x \div m
           q == y \div m
<1>1. p \in Nat /\ q \in Nat /\ x = m * p /\ y = m * q
  BY SMT
<1> HIDE DEF p, q
<1>2. p < q
  <2> SUFFICES ASSUME q <= p PROVE FALSE
    BY <1>1
  <2>1. PICK d \in Nat : p = q + d
    BY <1>1
  <2>2. m * p = m * q + m * d /\ m * d \in Nat /\ m * q \in Nat
    BY <1>1, <2>1
  <2> QED
    BY <1>1, <2>2
<1>3. PICK d \in Nat : q = p + 1 + d
  <2>1. q - p - 1 \in Nat /\ q = p + 1 + (q - p - 1)
    BY <1>1, <1>2
  <2> QED
    BY <2>1
<1>4. m * q = m * p + m + m * d /\ m * d \in Nat /\ m * p \in Nat
  BY <1>1, <1>3
<1> QED
  BY <1>1, <1>4

(* Aligning goes to the nearest multiple. *)
LEMMA Nearest ==
    ASSUME NEW n \in Nat, NEW m \in Nat, 0 < m
    PROVE  /\ AlignDown(n, m) \in Nat /\ AlignDown(n, m) % m = 0
           /\ \A a \in Nat : a % m = 0 /\ a <= n => a <= AlignDown(n, m)
           /\ n + m < Word => /\ AlignUp(n, m) \in Nat /\ AlignUp(n, m) % m = 0
                              /\ \A a \in Nat : a % m = 0 /\ n <= a => AlignUp(n, m) <= a
<1>1. ASSUME NEW k \in Nat
      PROVE  /\ k % m \in 0..m - 1 /\ k - (k % m) \in Nat /\ (k - (k % m)) % m = 0
             /\ \A a \in Nat : a % m = 0 /\ a <= k => a <= k - (k % m)
  <2>1. k % m \in 0..m - 1 /\ k - (k % m) \in Nat
    BY Remainder
  <2>a. (k - (k % m)) % m = 0
    OBVIOUS
  <2>2. ASSUME NEW a \in Nat, a % m = 0, a <= k PROVE a <= k - (k % m)
    <3> DEFINE d == k - (k % m)
    <3>1. d \in Nat /\ d % m = 0 /\ k < d + m
      BY <2>1, <2>a
    <3> HIDE DEF d
    <3>2. d < a => d + m <= a
      BY <2>2, <3>1, Multiples
    <3>3. a <= d
      BY <2>2, <3>1, <3>2
    <3> QED
      BY <3>3 DEF d
  <2> QED
    BY <2>1, <2>a, <2>2
<1>2. /\ AlignDown(n, m) \in Nat /\ AlignDown(n, m) % m = 0
      /\ \A a \in Nat : a % m = 0 /\ a <= n => a <= AlignDown(n, m)
  BY <1>1 DEF AlignDown
<1>3. ASSUME n + m < Word
      PROVE  /\ AlignUp(n, m) \in Nat /\ AlignUp(n, m) % m = 0
             /\ \A a \in Nat : a % m = 0 /\ n <= a => AlignUp(n, m) <= a
  <2> DEFINE k == n + m - 1
             u == k - (k % m)
  <2>1. k \in Nat /\ k < Word /\ k % Word = k
    BY <1>3, SysMemAssumption, Remainder
  <2>2. AlignUp(n, m) = u
    BY <2>1 DEF AlignUp, AlignDown, Wrap
  <2>3. k % m \in 0..m - 1 /\ u \in Nat /\ u % m = 0 /\ u < n + m
    BY <1>1, <2>1
  <2> HIDE DEF u, k
  <2>4. ASSUME NEW a \in Nat, a % m = 0, n <= a PROVE u <= a
    <3>1. a < u => a + m <= u
      BY <2>3, <2>4, Multiples
    <3> QED
      BY <2>3, <2>4, <3>1
  <2> QED
    BY <2>2, <2>3, <2>4
<1> QED
  BY <1>2, <1>3

(* The blocks, as intervals. *)
LEMMA BlockBounds ==
    ASSUME FitInv, NEW s \in InUse
    PROVE  /\ block[s].addr \in Nat /\ block[s].size \in Nat /\ 0 < block[s].size
           /\ Lo <= block[s].addr /\ block[s].addr + block[s].size <= Hi
           /\ EndOf(s) = block[s].addr + block[s].size
<1>1. /\ block[s].addr \in Nat /\ block[s].size \in Nat /\ 0 < block[s].size
      /\ Lo <= block[s].addr /\ block[s].addr + block[s].size <= Hi
  BY DEF FitInv, IInv, TypeOK, InUse, BlocksInHeap
<1>2. Hi \in Nat /\ Word \in Nat /\ Hi < Word
  BY SysMemAssumption
<1> QED
  BY <1>1, <1>2, Remainder DEF EndOf, Wrap

(* A search that goes on, as numbers. *)
LEMMA SearchBounds ==
    ASSUME FitInv, search.dir # "idle"
    PROVE  /\ search.at \in Nat /\ search.size \in Nat /\ search.align \in Nat
           /\ 0 < search.size /\ 0 < search.align /\ search.dir \in {"low", "high"}
           /\ Hi + search.align + search.size < Word
           /\ Wrap(search.at + search.size) = search.at + search.size
           /\ Lo \in Nat /\ Hi \in Nat /\ Word \in Nat /\ Lo < Hi /\ Hi < Word
<1>1. /\ search.at \in Nat /\ search.size \in Nat /\ search.align \in Nat
      /\ 0 < search.size /\ 0 < search.align /\ search.dir \in {"low", "high"}
      /\ Hi + search.align + search.size < Word
  BY DEF FitInv, IInv, TypeOK, SearchInHeap
<1>2. Lo \in Nat /\ Hi \in Nat /\ Word \in Nat /\ Lo < Hi /\ Hi < Word
  BY SysMemAssumption
<1>3. search.at + search.size < Word
  BY <1>1, <1>2 DEF FitInv, IInv, SearchInHeap
<1>4. Wrap(search.at + search.size) = search.at + search.size
  BY <1>1, <1>2, <1>3, Remainder DEF Wrap
<1> QED
  BY <1>1, <1>2, <1>4

(* Where the block fits, no block is. *)
LEMMA FitsApart ==
    ASSUME FitInv, search.dir # "idle", NEW a
    PROVE  a \in Fits <=>
              /\ a \in Nat /\ Lo <= a /\ a + search.size <= Hi /\ a % search.align = 0
              /\ \A s \in InUse : \/ block[s].addr + block[s].size <= a
                                  \/ a + search.size <= block[s].addr
<1> DEFINE n == search.size
<1>1. n \in Nat /\ 0 < n /\ Lo \in Nat /\ Hi \in Nat
  BY SearchBounds
<1>2. a \in Lo..Hi - n <=> a \in Nat /\ Lo <= a /\ a + n <= Hi
  BY <1>1
<1>3. ASSUME NEW s \in InUse, a \in Nat
      PROVE  Bytes(s) \cap (a..a + n - 1) = {} <=>
                \/ block[s].addr + block[s].size <= a \/ a + n <= block[s].addr
  <2> DEFINE b == block[s].addr
             k == block[s].size
  <2>1. b \in Nat /\ k \in Nat /\ 0 < k
    BY BlockBounds
  <2>2. Bytes(s) = b..b + k - 1
    BY DEF Bytes
  <2> HIDE DEF b, k, n
  <2>3. b + k <= a \/ a + n <= b => (b..b + k - 1) \cap (a..a + n - 1) = {}
    BY <1>1, <1>3, <2>1
  <2>4. ~(b + k <= a) /\ ~(a + n <= b) =>
           IF a <= b THEN b \in (b..b + k - 1) \cap (a..a + n - 1)
                     ELSE a \in (b..b + k - 1) \cap (a..a + n - 1)
    BY <1>1, <1>3, <2>1
  <2> QED
    BY <2>2, <2>3, <2>4 DEF b, k, n
<1> QED
  BY <1>2, <1>3 DEF Fits

(* What the test of overlaps says of the candidate. *)
LEMMA WayApart ==
    ASSUME FitInv, search.dir # "idle", NEW s \in InUse
    PROVE  s \in InTheWay(search.at, search.size) <=>
              /\ search.at < block[s].addr + block[s].size
              /\ block[s].addr < search.at + search.size
BY BlockBounds, SearchBounds DEF InTheWay

(* place_low: nothing fits between a candidate and the next. *)
LEMMA SkipUpPasses ==
    ASSUME FitInv, SkipUp
    PROVE  /\ search'.at \in Nat /\ search'.at % search.align = 0
           /\ \A a \in Fits : search'.at <= a
<1> DEFINE way == InTheWay(search.at, search.size)
           L == {Hi} \cup {EndOf(s) : s \in way}
           m == search.align
<1>1. search.dir = "low" /\ way # {} /\ search'.at = AlignUp(NextLow, m)
  BY DEF SkipUp, Overlaps, FitInv, IInv, TypeOK
<1>2. /\ search.at \in Nat /\ search.size \in Nat /\ m \in Nat /\ 0 < m /\ Hi \in Nat /\ Word \in Nat
      /\ Hi + m + search.size < Word
  BY <1>1, SearchBounds
<1>3. way \subseteq InUse
  BY DEF InTheWay
<1>4. L \in SUBSET Nat /\ L # {}
  BY <1>2, <1>3, BlockBounds
<1>5. NextLow = Min(L)
  BY DEF NextLow
<1>6. NextLow \in Nat /\ NextLow <= Hi /\ \A s \in way : NextLow <= EndOf(s)
  <2> HIDE DEF L
  <2>1. Min(L) \in L /\ \A y \in L : Min(L) <= y
    BY <1>4, MinIsLeast
  <2>2. Min(L) \in Nat
    BY <1>4, <2>1
  <2>3. Hi \in L /\ \A s \in way : EndOf(s) \in L
    BY DEF L
  <2> QED
    BY <1>5, <2>1, <2>2, <2>3
<1>7. ASSUME NEW a \in Fits PROVE a \in Nat /\ a % m = 0 /\ NextLow <= a
  <2>1. /\ a \in Nat /\ a % m = 0
        /\ \A s \in InUse : \/ block[s].addr + block[s].size <= a
                            \/ a + search.size <= block[s].addr
    BY <1>1, FitsApart
  <2>2. search.at <= a
    BY <1>1 DEF FitInv
  <2>3. PICK s \in way : TRUE
    BY <1>1
  <2>4. s \in InUse /\ block[s].addr < search.at + search.size
    BY <1>1, <1>3, WayApart
  <2>5. block[s].addr \in Nat /\ block[s].size \in Nat /\ EndOf(s) = block[s].addr + block[s].size
    BY <2>4, BlockBounds
  <2>6. EndOf(s) <= a
    BY <1>2, <2>1, <2>2, <2>4, <2>5
  <2> QED
    BY <1>6, <2>1, <2>5, <2>6
<1>8. NextLow + m < Word
  BY <1>2, <1>6
<1>9. /\ AlignUp(NextLow, m) \in Nat /\ AlignUp(NextLow, m) % m = 0
      /\ \A a \in Nat : a % m = 0 /\ NextLow <= a => AlignUp(NextLow, m) <= a
  BY <1>2, <1>6, <1>8, Nearest
<1> QED
  BY <1>1, <1>7, <1>9

(* place_high: what fits below a candidate with something in its way lies below that. *)
LEMMA BelowTheWay ==
    ASSUME FitInv, search.dir = "high", Overlaps(search.at, search.size), NEW a \in Fits
    PROVE  NextHigh \in Nat /\ a + search.size <= NextHigh
<1> DEFINE way == InTheWay(search.at, search.size)
           H == {Lo} \cup {block[s].addr : s \in way}
<1>1. way # {} /\ way \subseteq InUse /\ NextHigh = Max(H)
  BY DEF Overlaps, InTheWay, NextHigh
<1>2. search.at \in Nat /\ search.size \in Nat /\ Lo \in Nat /\ Hi \in Nat /\ Lo < Hi
  BY SearchBounds
<1>3. H \in SUBSET (0..Hi) /\ H # {}
  <2>1. \A s \in way : block[s].addr \in 0..Hi
    BY <1>1, <1>2, BlockBounds
  <2> QED
    BY <1>2, <2>1
<1>4. PICK s \in way : TRUE
  BY <1>1
<1>5. NextHigh \in Nat /\ block[s].addr <= NextHigh
  <2>1. block[s].addr \in H
    OBVIOUS
  <2> HIDE DEF H
  <2>2. Max(H) \in H /\ Max(H) >= block[s].addr
    BY <1>2, <1>3, <2>1, MaxIsGreatest
  <2>3. Max(H) \in Nat
    <3>1. Max(H) \in 0..Hi
      BY <1>3, <2>2, Zenon
    <3> QED
      BY <3>1
  <2>4. block[s].addr \in Nat
    BY <1>1, BlockBounds
  <2> QED
    BY <1>1, <2>2, <2>3, <2>4
<1>6. search.at < block[s].addr + block[s].size
  BY <1>1, WayApart
<1>7. /\ a \in Nat /\ a <= search.at
      /\ \/ block[s].addr + block[s].size <= a
         \/ a + search.size <= block[s].addr
  BY <1>1, FitsApart DEF FitInv
<1>8. block[s].addr \in Nat /\ block[s].size \in Nat
  BY <1>1, BlockBounds
<1> QED
  BY <1>2, <1>5, <1>6, <1>7, <1>8

LEMMA SkipDownPasses ==
    ASSUME FitInv, SkipDown
    PROVE  /\ search'.at \in Nat /\ search'.at % search.align = 0
           /\ \A a \in Fits : a <= search'.at
<1> DEFINE m == search.align
           k == NextHigh - search.size
<1>1. search.dir = "high" /\ Overlaps(search.at, search.size) /\ search'.at = AlignDown(k, m)
  BY DEF SkipDown, FitInv, IInv, TypeOK
<1>2. search.size \in Nat /\ m \in Nat /\ 0 < m
  BY <1>1, SearchBounds
<1>3. k \in Nat /\ NextHigh \in Nat
  BY <1>2, NextCandidate DEF SkipDown, FitInv
<1>4. \A a \in Fits : a \in Nat /\ a % m = 0 /\ a <= k
  BY <1>1, <1>2, <1>3, FitsApart, BelowTheWay
<1> HIDE DEF k
<1>5. AlignDown(k, m) \in Nat /\ AlignDown(k, m) % m = 0
      /\ \A a \in Nat : a % m = 0 /\ a <= k => a <= AlignDown(k, m)
  BY <1>2, <1>3, Nearest
<1> QED
  BY <1>1, <1>4, <1>5

(* The sizes of blocks are positive because the sizes that are placed are. *)
LEMMA PlaceSizes ==
    ASSUME TypeOK, \A s \in InUse : 0 < block[s].size, NEW a, NEW n \in Nat, NEW asked, 0 < n,
           Place(a, n, asked)
    PROVE  \A s \in InUse' : 0 < block'[s].size
BY DEF Place, InUse, TypeOK

LEMMA InitFitInv == Init => FitInv
BY InitIInv DEF Init, FitInv, InUse, Unused, Idle

LEMMA NextFitInv == ASSUME NoWrap, FitInv, [Next]_vars PROVE FitInv'
<1>0. IInv /\ TypeOK /\ IInv' /\ TypeOK'
  BY NextIInv DEF FitInv, IInv
<1> DEFINE Sized == \A s \in InUse : 0 < block[s].size
           Aligned == search.dir # "idle" => search.at % search.align = 0
           Passed == /\ search.dir = "low" => \A a \in Fits : search.at <= a
                     /\ search.dir = "high" => \A a \in Fits : a <= search.at
<1>a. Sized /\ Aligned /\ Passed
  BY DEF FitInv
<1>b. SUFFICES Sized' /\ Aligned' /\ Passed'
  BY <1>0 DEF FitInv
<1>c. ASSUME UNCHANGED block PROVE Sized'
  BY <1>a, <1>c DEF InUse
<1>d. ASSUME search' = Idle PROVE Aligned' /\ Passed'
  BY <1>d DEF Idle
<1>1. ASSUME NEW n \in Size, NEW m \in Align \cup {Granule}, AskLow(n, m)
      PROVE  Sized' /\ Aligned' /\ Passed'
  <2>1. m \in Nat /\ 0 < m /\ Hi + m + Rounded(n) < Word /\ Rounded(n) \in Nat
    BY Rounding
  <2>2. Lo \in Nat /\ Hi \in Nat /\ Lo < Hi /\ Word \in Nat /\ Lo + m < Word
    BY <2>1, SysMemAssumption
  <2>3. /\ AlignUp(Lo, m) % m = 0
        /\ \A a \in Nat : a % m = 0 /\ Lo <= a => AlignUp(Lo, m) <= a
    BY <2>1, <2>2, Nearest
  <2>4. search'.dir = "low" /\ search'.at = AlignUp(Lo, m) /\ search'.align = m
    BY <1>1 DEF AskLow
  <2>5. \A a \in Fits' : a \in Nat /\ a % m = 0 /\ Lo <= a
    <3>1. search'.size = Rounded(n)
      BY <1>1 DEF AskLow
    <3> QED
      BY <2>1, <2>2, <2>4, <3>1 DEF Fits
  <2> QED
    BY <1>1, <1>c, <2>3, <2>4, <2>5 DEF AskLow
<1>2. ASSUME NEW n \in Size, NEW m \in Align \cup {Granule}, AskHigh(n, m)
      PROVE  Sized' /\ Aligned' /\ Passed'
  <2> DEFINE k == Hi - Rounded(n)
  <2>1. m \in Nat /\ 0 < m /\ Rounded(n) \in Nat
    BY Rounding
  <2>2. Lo \in Nat /\ Hi \in Nat /\ k \in Nat
    BY <1>2, <2>1, SysMemAssumption DEF AskHigh
  <2>3. search'.dir = "high" /\ search'.at = AlignDown(k, m) /\ search'.align = m
    BY <1>2 DEF AskHigh
  <2>4. \A a \in Fits' : a \in Nat /\ a % m = 0 /\ a <= k
    <3>1. search'.size = Rounded(n)
      BY <1>2 DEF AskHigh
    <3> QED
      BY <2>1, <2>2, <2>3, <3>1 DEF Fits
  <2> HIDE DEF k
  <2>5. /\ AlignDown(k, m) % m = 0
        /\ \A a \in Nat : a % m = 0 /\ a <= k => a <= AlignDown(k, m)
    BY <2>1, <2>2, Nearest
  <2> QED
    BY <1>2, <1>c, <2>3, <2>4, <2>5 DEF AskHigh
<1>3. ASSUME NEW n \in Size, NEW a \in Want, AskAddr(n, a)
      PROVE  Sized' /\ Aligned' /\ Passed'
  <2>1. Rounded(n) \in Nat /\ 0 < Rounded(n)
    BY Rounding
  <2>2. Place(a, Rounded(n), n) /\ search' = Idle
    BY <1>3 DEF AskAddr
  <2> QED
    BY <1>0, <1>a, <1>d, <2>1, <2>2, PlaceSizes
<1>4. CASE Found
  <2>1. search.dir # "idle"
    BY <1>4 DEF Found
  <2>2. search.size \in Nat /\ 0 < search.size
    BY <2>1, SearchBounds
  <2>3. Place(search.at, search.size, search.asked) /\ search' = Idle
    BY <1>4 DEF Found
  <2> QED
    BY <1>0, <1>a, <1>d, <2>2, <2>3, PlaceSizes
<1>5. CASE SkipUp
  <2>1. /\ search'.at % search.align = 0 /\ \A a \in Fits : search'.at <= a
    BY <1>5, SkipUpPasses
  <2>2. /\ search.dir = "low" /\ UNCHANGED block
        /\ search'.dir = search.dir /\ search'.align = search.align /\ search'.size = search.size
    BY <1>0, <1>5 DEF SkipUp, TypeOK
  <2>3. Fits' = Fits
    BY <2>2 DEF Fits, InUse, Bytes
  <2> QED
    BY <1>c, <2>1, <2>2, <2>3
<1>6. CASE SkipDown
  <2>1. /\ search'.at % search.align = 0 /\ \A a \in Fits : a <= search'.at
    BY <1>6, SkipDownPasses
  <2>2. /\ search.dir = "high" /\ UNCHANGED block
        /\ search'.dir = search.dir /\ search'.align = search.align /\ search'.size = search.size
    BY <1>0, <1>6 DEF SkipDown, TypeOK
  <2>3. Fits' = Fits
    BY <2>2 DEF Fits, InUse, Bytes
  <2> QED
    BY <1>c, <2>1, <2>2, <2>3
<1>7. CASE NotFound
  BY <1>7, <1>c, <1>d DEF NotFound
<1>8. ASSUME NEW s, Free(s) PROVE Sized' /\ Aligned' /\ Passed'
  <2>1. s \in Slot /\ block' = [block EXCEPT ![s] = Unused] /\ search' = Idle
    BY <1>8 DEF Free, InUse
  <2>2. \A t \in InUse' : t \in InUse /\ block'[t] = block[t]
    BY <1>0, <2>1 DEF TypeOK, Unused, InUse
  <2> QED
    BY <1>a, <1>d, <2>1, <2>2
<1>9. ASSUME NEW a, Release(a) PROVE Sized' /\ Aligned' /\ Passed'
  BY <1>8, <1>9 DEF Release
<1>10. CASE UNCHANGED vars
  <2>1. UNCHANGED <<block, search>>
    BY <1>10 DEF vars
  <2>2. Fits' = Fits
    BY <2>1 DEF Fits, InUse, Bytes
  <2> QED
    BY <1>a, <1>c, <2>1, <2>2
<1> QED
  BY <1>1, <1>2, <1>3, <1>4, <1>5, <1>6, <1>7, <1>8, <1>9, <1>10 DEF Next

(* The step from which the next theorem follows: a search ends at the best place, or
   where there is none. *)
LEMMA EndsAtBest ==
    ASSUME FitInv, [Next]_vars, search # Idle, search' = Idle, FreeSlots # {}
    PROVE  IF Fits = {} THEN block' = block
           ELSE LET s == Min(FreeSlots)
                IN /\ block'[s].used
                   /\ block'[s].addr = IF search.dir = "low" THEN Min(Fits) ELSE Max(Fits)
<1>0. TypeOK
  BY DEF FitInv, IInv
<1>1. CASE Found
  <2> DEFINE s == Min(FreeSlots)
  <2>1. search.dir # "idle" /\ ~Overlaps(search.at, search.size)
    BY <1>1 DEF Found
  <2>2. /\ search.at \in Nat /\ search.size \in Nat /\ Lo \in Nat /\ Hi \in Nat
        /\ Wrap(search.at + search.size) = search.at + search.size
        /\ search.dir \in {"low", "high"}
    BY <2>1, SearchBounds
  <2>3. Lo <= search.at /\ search.at + search.size <= Hi /\ search.at % search.align = 0
    BY <1>1, <2>1, <2>2 DEF Found, FitInv, IInv, SearchInHeap
  <2>4. ASSUME NEW t \in InUse
        PROVE  \/ block[t].addr + block[t].size <= search.at
               \/ search.at + search.size <= block[t].addr
    <3>1. block[t].addr \in Nat /\ block[t].size \in Nat
      BY BlockBounds
    <3>2. t \notin InTheWay(search.at, search.size)
      BY <2>1 DEF Overlaps
    <3> QED
      BY <2>1, <2>2, <3>1, <3>2, WayApart
  <2>5. search.at \in Fits
    BY <2>1, <2>2, <2>3, <2>4, FitsApart
  <2>6. Fits \in SUBSET (0..Hi) /\ Fits \in SUBSET Nat
    <3>1. \A a \in Fits : a \in Nat /\ a <= Hi
      BY <2>1, <2>2, FitsApart
    <3> QED
      BY <2>2, <3>1
  <2>7. s \in Slot
    <3>1. FreeSlots \in SUBSET Nat
      BY DEF FreeSlots, Slot
    <3>2. s \in FreeSlots
      BY <3>1, MinIsLeast
    <3> QED
      BY <3>2 DEF FreeSlots
  <2>8. block'[s].used /\ block'[s].addr = search.at
    BY <1>0, <1>1, <2>7 DEF Found, Place, TypeOK
  <2>9. CASE search.dir = "low"
    <3>1. \A a \in Fits : search.at <= a
      BY <2>9 DEF FitInv
    <3>2. Min(Fits) \in Fits /\ \A y \in Fits : Min(Fits) <= y
      BY <2>5, <2>6, MinIsLeast
    <3>3. Min(Fits) = search.at
      <4>1. Min(Fits) \in Nat
        BY <2>6, <3>2
      <4> QED
        BY <2>2, <2>5, <3>1, <3>2, <4>1
    <3> QED
      BY <2>5, <2>8, <2>9, <3>3
  <2>10. CASE search.dir = "high"
    <3>1. \A a \in Fits : a <= search.at
      BY <2>10 DEF FitInv
    <3>2. Max(Fits) \in Fits /\ \A y \in Fits : Max(Fits) >= y
      BY <2>2, <2>5, <2>6, MaxIsGreatest
    <3>3. Max(Fits) = search.at
      <4>1. Max(Fits) \in Nat
        BY <2>6, <3>2
      <4> QED
        BY <2>2, <2>5, <3>1, <3>2, <4>1
    <3> QED
      BY <2>5, <2>8, <2>10, <3>3
  <2> QED
    BY <2>2, <2>9, <2>10
<1>2. CASE NotFound
  <2>1. search.dir # "idle" /\ UNCHANGED block
    BY <1>2 DEF NotFound
  <2>2. /\ search.at \in Nat /\ search.size \in Nat /\ 0 < search.size /\ Lo \in Nat /\ Hi \in Nat
        /\ Wrap(search.at + search.size) = search.at + search.size
    BY <2>1, SearchBounds
  <2>3. ASSUME NEW a \in Fits PROVE FALSE
    <3>1. a \in Nat /\ Lo <= a /\ a + search.size <= Hi
      BY <2>1, FitsApart
    <3>2. CASE search.dir = "low" /\ search.at + search.size > Hi
      BY <2>2, <3>1, <3>2 DEF FitInv
    <3>3. CASE search.dir = "high" /\ search.at < Lo
      BY <2>2, <3>1, <3>3 DEF FitInv
    <3>4. CASE /\ search.dir = "high" /\ Overlaps(search.at, search.size)
               /\ NextHigh <= Lo \/ NextHigh < search.size
      <4>1. NextHigh \in Nat /\ a + search.size <= NextHigh
        BY <3>4, BelowTheWay
      <4> QED
        BY <2>2, <3>1, <3>4, <4>1
    <3> QED
      BY <1>2, <2>2, <3>2, <3>3, <3>4 DEF NotFound
  <2> QED
    BY <2>1, <2>3
<1>3. Found \/ NotFound
  <2>1. \A n, m : ~AskLow(n, m) /\ ~AskHigh(n, m)
    BY DEF AskLow, AskHigh
  <2>2. \A n, a : ~AskAddr(n, a)
    BY DEF AskAddr
  <2>3. \A s : ~Free(s)
    BY DEF Free
  <2>4. \A a : ~Release(a)
    BY <2>3 DEF Release
  <2>5. ~SkipUp
    <3>1. SkipUp => search'.dir = "low"
      BY <1>0 DEF SkipUp, TypeOK
    <3> QED
      BY <3>1 DEF Idle
  <2>6. ~SkipDown
    <3>1. SkipDown => search'.dir = "high"
      BY <1>0 DEF SkipDown, TypeOK
    <3> QED
      BY <3>1 DEF Idle
  <2>7. ~UNCHANGED vars
    BY DEF vars
  <2> QED
    BY <2>1, <2>2, <2>3, <2>4, <2>5, <2>6, <2>7 DEF Next
<1> QED
  BY <1>1, <1>2, <1>3

(* place_low and place_high, for every heap, alignment and table, under the same
   condition: a low block goes to the lowest aligned address where it fits and a high
   one to the highest, and NO_MEMORY is the answer only when there is none. *)
THEOREM SearchesFindFirstFit == ASSUME NoWrap PROVE Spec => FirstFit
<1>1. Init => FitInv
  BY InitFitInv
<1>2. FitInv /\ [Next]_vars => FitInv'
  BY NextFitInv
<1>3. FitInv /\ [Next]_vars =>
          [search # Idle /\ search' = Idle /\ FreeSlots # {} =>
             IF Fits = {} THEN block' = block
             ELSE LET s == Min(FreeSlots)
                  IN /\ block'[s].used
                     /\ block'[s].addr = IF search.dir = "low" THEN Min(Fits) ELSE Max(Fits)]_vars
  BY EndsAtBest
<1> QED
  BY <1>1, <1>2, <1>3, PTL DEF Spec, FirstFit

-----------------------------------------------------------------------------
(* The pools. *)
Handed(v) == V!HandedOut(v)
Owned(v)  == V!BlocksOf(v)

(* The types, without the bounds that only finite models need. *)
PoolsTyped == /\ vpl \in [V!Pool -> [used : BOOLEAN, uid : Nat, pool_size : Nat, free_size : Nat]]
              /\ blk \in [V!Block -> [used : BOOLEAN, vpl : Nat, addr : Nat, size : Nat]]
              /\ mem \in SUBSET V!Addr
              /\ want \in [Thread -> [v : 0..NVpls, size : Nat]]
              /\ nextUid \in Nat \ {0}

(* A pool is known by its uid, which no other record has had since it was created: a
   waiter that takes a block from a deleted pool takes it from no other. *)
UidsApart == /\ \A v \in V!Pool : vpl[v].uid < nextUid /\ (vpl[v].used => vpl[v].uid # 0)
             /\ \A v, w \in V!Pool : v # w /\ vpl[v].uid = vpl[w].uid => vpl[v].uid = 0
             /\ \A b \in V!Block : blk[b].used => blk[b].vpl < nextUid

(* The memory is that of the blocks, no two of them share it. *)
MemoryOfBlocks == /\ \A a : a \in mem <=> \E b \in V!Block : blk[b].used /\ blk[b].addr = a
                  /\ \A b, c \in V!Block : blk[b].used /\ blk[c].used /\ b # c =>
                                               blk[b].addr # blk[c].addr

Balanced == \A v \in V!Pool : vpl[v].used =>
                /\ IsFiniteSet(Handed(v))
                /\ vpl[v].free_size + Cardinality(Handed(v)) = vpl[v].pool_size

PoolInv == PoolsTyped /\ UidsApart /\ MemoryOfBlocks /\ Balanced

LEMMA Counts == NVpls \in Nat /\ NVplBlocks \in Nat /\ NAddrs \in Nat /\ Sizes \in SUBSET Nat
BY PoolAssumption

LEMMA Slots == V!Pool = 1..NVpls /\ V!Block = 1..NVplBlocks /\ V!Addr = 1..NAddrs
BY DEF V!Pool, V!Block, V!Addr

LEMMA InitPoolInv == MemoryInit => PoolInv
<1> SUFFICES ASSUME V!Init PROVE PoolInv
  BY DEF MemoryInit
<1>1. PoolsTyped
  BY Counts DEF V!Init, PoolsTyped, V!NoPool, V!NoBlock, V!NoWant
<1>2. UidsApart
  BY DEF V!Init, UidsApart, V!NoPool, V!NoBlock
<1>3. MemoryOfBlocks
  BY DEF V!Init, MemoryOfBlocks, V!NoBlock
<1>4. Balanced
  BY DEF V!Init, Balanced, V!NoPool
<1> QED
  BY <1>1, <1>2, <1>3, <1>4 DEF PoolInv

-----------------------------------------------------------------------------
(* The bytes of a pool are those of its blocks. *)
LEMMA HandedBytes ==
    ASSUME NEW v, NEW p
    PROVE  p \in Handed(v) <=> \E b \in Owned(v) : p \in {b} \X (1..blk[b].size)
BY DEF Handed, Owned, V!HandedOut

LEMMA Owning ==
    ASSUME NEW v, NEW b
    PROVE  b \in Owned(v) <=> b \in V!Block /\ blk[b].used /\ blk[b].vpl = vpl[v].uid
BY DEF Owned, V!BlocksOf

(* take_vpl_block: a record that is free and memory that is nobody's. *)
LEMMA TakeBlockKeeps ==
    ASSUME PoolInv, NEW v \in V!Pool, NEW size \in Nat, V!Room(v, size), V!TakeBlock(v, size),
           want' \in [Thread -> [v : 0..NVpls, size : Nat]], UNCHANGED nextUid
    PROVE  PoolInv'
<1>1. CASE UNCHANGED <<vpl, blk, mem>>
  BY <1>1 DEF PoolInv, PoolsTyped, UidsApart, MemoryOfBlocks, Balanced, Handed, V!HandedOut,
              V!BlocksOf
<1>2. CASE ~(mem = V!Addr \/ \A b \in V!Block : blk[b].used)
  <2> DEFINE a == Min(V!Addr \ mem)
             f == Min({b \in V!Block : ~blk[b].used})
             r == [used |-> TRUE, vpl |-> vpl[v].uid, addr |-> a, size |-> size]
             free == vpl[v].free_size - size
  <2>1. a \in V!Addr /\ a \notin mem /\ a \in Nat
    <3> DEFINE S == V!Addr \ mem
    <3>1. S \in SUBSET Nat
      BY Counts, Slots
    <3>2. S # {}
      BY <1>2 DEF PoolInv, PoolsTyped
    <3>3. Min(S) \in S
      BY <3>1, <3>2, MinIsLeast
    <3> QED
      BY <3>1, <3>3
  <2>2. f \in V!Block /\ ~blk[f].used
    <3> DEFINE S == {b \in V!Block : ~blk[b].used}
    <3>1. S \in SUBSET Nat
      BY Counts, Slots
    <3>2. S # {}
      BY <1>2
    <3>3. Min(S) \in S
      BY <3>1, <3>2, MinIsLeast
    <3> QED
      BY <3>3
  <2>3. /\ mem' = mem \cup {a}
        /\ blk' = [blk EXCEPT ![f] = r]
        /\ vpl' = [vpl EXCEPT ![v].free_size = free]
    BY <1>2 DEF V!TakeBlock, V!Min, Min
  <2> HIDE DEF a, f
  <2>4. /\ vpl[v].free_size \in Nat /\ free \in Nat /\ free + size = vpl[v].free_size
        /\ vpl[v].uid \in Nat /\ vpl[v] \in [used : BOOLEAN, uid : Nat, pool_size : Nat, free_size : Nat]
    BY DEF V!Room, PoolInv, PoolsTyped
  <2> HIDE DEF free
  <2>5. /\ r \in [used : BOOLEAN, vpl : Nat, addr : Nat, size : Nat]
        /\ r.used /\ r.vpl = vpl[v].uid /\ r.addr = a /\ r.size = size
    BY <2>1, <2>4
  <2> HIDE DEF r
  <2>6. PoolsTyped'
    <3>1. vpl' \in [V!Pool -> [used : BOOLEAN, uid : Nat, pool_size : Nat, free_size : Nat]]
      BY <2>3, <2>4 DEF PoolInv, PoolsTyped
    <3>2. blk' \in [V!Block -> [used : BOOLEAN, vpl : Nat, addr : Nat, size : Nat]]
      BY <2>3, <2>5 DEF PoolInv, PoolsTyped
    <3>3. mem' \in SUBSET V!Addr
      BY <2>1, <2>3 DEF PoolInv, PoolsTyped
    <3> QED
      BY <3>1, <3>2, <3>3 DEF PoolInv, PoolsTyped
  <2>7. /\ \A w \in V!Pool : /\ vpl'[w].uid = vpl[w].uid /\ vpl'[w].used = vpl[w].used
                              /\ vpl'[w].pool_size = vpl[w].pool_size
                              /\ vpl'[w].free_size = IF w = v THEN free ELSE vpl[w].free_size
        /\ \A b \in V!Block : blk'[b] = IF b = f THEN r ELSE blk[b]
    BY <2>3 DEF PoolInv, PoolsTyped
  <2>8. UidsApart'
    BY <2>5, <2>7 DEF PoolInv, UidsApart
  <2>9. MemoryOfBlocks'
    <3>1. \A c : c \in mem' <=> \E b \in V!Block : blk'[b].used /\ blk'[b].addr = c
      <4> TAKE c
      <4>1. CASE c = a
        BY <2>2, <2>3, <2>5, <2>7, <4>1
      <4>2. CASE c # a
        BY <2>2, <2>3, <2>5, <2>7, <4>2 DEF PoolInv, MemoryOfBlocks
      <4> QED
        BY <4>1, <4>2
    <3>2. ASSUME NEW b \in V!Block, NEW c \in V!Block, blk'[b].used, blk'[c].used, b # c
          PROVE  blk'[b].addr # blk'[c].addr
      BY <2>1, <2>5, <2>7, <3>2 DEF PoolInv, MemoryOfBlocks
    <3> QED
      BY <3>1, <3>2 DEF MemoryOfBlocks
  <2>10. ASSUME NEW w \in V!Pool, vpl'[w].used
         PROVE  /\ IsFiniteSet(Handed(w)')
                /\ vpl'[w].free_size + Cardinality(Handed(w)') = vpl'[w].pool_size
    <3>1. /\ IsFiniteSet(Handed(w)) /\ vpl[w].free_size + Cardinality(Handed(w)) = vpl[w].pool_size
          /\ vpl[w].used
      BY <2>7, <2>10 DEF PoolInv, Balanced
    <3>2. CASE w = v
      <4>1. Owned(w)' = Owned(w) \cup {f}
        BY <2>2, <2>5, <2>7, <3>2 DEF Owned, V!BlocksOf
      <4> DEFINE new == {f} \X (1..size)
      <4>2. Handed(w)' = Handed(w) \cup new
        <5>1. \A p : p \in Handed(w)' <=> \E b \in Owned(w)' : p \in {b} \X (1..blk'[b].size)
          BY DEF Handed, Owned, V!HandedOut
        <5>2. \A b \in Owned(w) : b \in V!Block /\ b # f
          BY <2>2, Owning
        <5>3. blk'[f].size = size /\ \A b \in Owned(w) : blk'[b].size = blk[b].size
          BY <2>2, <2>5, <2>7, <5>2
        <5>4. \A p : p \in Handed(w)' <=> p \in Handed(w) \/ p \in new
          BY <4>1, <5>1, <5>3, HandedBytes
        <5> QED
          BY <5>4
      <4>3. Handed(w) \cap new = {}
        <5>1. ASSUME NEW p, p \in Handed(w), p \in new PROVE FALSE
          <6>1. PICK b \in Owned(w) : p \in {b} \X (1..blk[b].size)
            BY <5>1, HandedBytes
          <6>2. b = f
            BY <5>1, <6>1
          <6> QED
            BY <2>2, <6>2, Owning
        <5> QED
          BY <5>1
      <4>4. IsFiniteSet(new) /\ Cardinality(new) = size
        BY Parts
      <4> HIDE DEF new
      <4>5. /\ IsFiniteSet(Handed(w) \cup new) /\ Cardinality(Handed(w)) \in Nat
            /\ Cardinality(Handed(w) \cup new) = Cardinality(Handed(w)) + size
        BY <3>1, <4>3, <4>4, DisjointSum
      <4>6. free + (Cardinality(Handed(w)) + size) = vpl[w].pool_size
        BY <2>4, <3>1, <3>2, <4>5
      <4> QED
        BY <2>7, <3>2, <4>2, <4>5, <4>6
    <3>3. CASE w # v
      <4>1. vpl[w].uid # vpl[v].uid
        BY <3>1, <3>3 DEF PoolInv, UidsApart
      <4>2. Owned(w)' = Owned(w)
        BY <2>2, <2>5, <2>7, <4>1 DEF Owned, V!BlocksOf
      <4>3. \A b \in Owned(w) : blk'[b] = blk[b]
        BY <2>2, <2>7, Owning
      <4>4. Handed(w)' = Handed(w)
        BY <4>2, <4>3 DEF Handed, Owned, V!HandedOut
      <4> QED
        BY <2>7, <3>1, <3>3, <4>4
    <3> QED
      BY <3>2, <3>3
  <2>11. Balanced'
    BY <2>10 DEF Balanced
  <2> QED
    BY <2>6, <2>8, <2>9, <2>11 DEF PoolInv
<1> QED
  BY <1>1, <1>2 DEF V!TakeBlock

(* hle_CreateVpl: a new uid, so no block is the new pool's. *)
LEMMA CreateVplKeeps ==
    ASSUME PoolInv, NEW t \in Thread, NEW size \in Nat, V!CreateVpl(t, size)
    PROVE  PoolInv'
<1> DEFINE f == Min({v \in V!Pool : ~vpl[v].used})
           r == [used |-> TRUE, uid |-> nextUid, pool_size |-> size, free_size |-> size]
<1>1. f \in V!Pool
  <2> DEFINE S == {v \in V!Pool : ~vpl[v].used}
  <2>1. S \in SUBSET Nat
    BY Counts, Slots
  <2>2. S # {}
    BY DEF V!CreateVpl
  <2>3. Min(S) \in S
    BY <2>1, <2>2, MinIsLeast
  <2> QED
    BY <2>3
<1>2. vpl' = [vpl EXCEPT ![f] = r] /\ nextUid' = nextUid + 1 /\ UNCHANGED <<blk, mem, want>>
  BY DEF V!CreateVpl, V!Min, Min
<1> HIDE DEF f
<1>3. /\ r \in [used : BOOLEAN, uid : Nat, pool_size : Nat, free_size : Nat]
      /\ r.used /\ r.uid = nextUid /\ r.pool_size = size /\ r.free_size = size
  BY DEF PoolInv, PoolsTyped
<1> HIDE DEF r
<1>4. PoolsTyped'
  <2>1. vpl' \in [V!Pool -> [used : BOOLEAN, uid : Nat, pool_size : Nat, free_size : Nat]]
    BY <1>2, <1>3 DEF PoolInv, PoolsTyped
  <2>2. nextUid' \in Nat \ {0}
    BY <1>2 DEF PoolInv, PoolsTyped
  <2> QED
    BY <1>2, <2>1, <2>2 DEF PoolInv, PoolsTyped
<1>5. \A v \in V!Pool : vpl'[v] = IF v = f THEN r ELSE vpl[v]
  BY <1>2 DEF PoolInv, PoolsTyped
<1>6. nextUid \in Nat \ {0} /\ \A v \in V!Pool : vpl[v].uid \in Nat
  BY DEF PoolInv, PoolsTyped
<1>7. UidsApart'
  <2>1. ASSUME NEW v \in V!Pool PROVE vpl'[v].uid < nextUid' /\ (vpl'[v].used => vpl'[v].uid # 0)
    BY <1>2, <1>3, <1>5, <1>6 DEF PoolInv, UidsApart
  <2>2. ASSUME NEW v \in V!Pool, NEW w \in V!Pool, v # w, vpl'[v].uid = vpl'[w].uid
        PROVE  vpl'[v].uid = 0
    BY <1>3, <1>5, <1>6, <2>2 DEF PoolInv, UidsApart
  <2>3. ASSUME NEW b \in V!Block, blk'[b].used PROVE blk'[b].vpl < nextUid'
    BY <1>2, <1>6, <2>3 DEF PoolInv, PoolsTyped, UidsApart
  <2> QED
    BY <2>1, <2>2, <2>3 DEF UidsApart
<1>8. MemoryOfBlocks'
  BY <1>2 DEF PoolInv, MemoryOfBlocks
<1>9. ASSUME NEW v \in V!Pool, vpl'[v].used
      PROVE  /\ IsFiniteSet(Handed(v)')
             /\ vpl'[v].free_size + Cardinality(Handed(v)') = vpl'[v].pool_size
  <2>1. CASE v = f
    <3>1. Handed(v)' = {}
      <4>1. \A b \in V!Block : blk'[b].used => blk'[b].vpl # vpl'[v].uid
        BY <1>2, <1>3, <1>5, <1>6, <2>1 DEF PoolInv, PoolsTyped, UidsApart
      <4>2. Owned(v)' = {}
        BY <4>1 DEF Owned, V!BlocksOf
      <4> QED
        BY <4>2 DEF Handed, Owned, V!HandedOut
    <3>2. size + 0 = size
      OBVIOUS
    <3> QED
      BY <1>3, <1>5, <2>1, <3>1, <3>2, FS_EmptySet
  <2>2. CASE v # f
    <3>1. Handed(v)' = Handed(v) /\ vpl'[v] = vpl[v]
      BY <1>2, <1>5, <2>2 DEF Handed, V!HandedOut, V!BlocksOf
    <3> QED
      BY <1>9, <3>1 DEF PoolInv, Balanced
  <2> QED
    BY <2>1, <2>2
<1>10. Balanced'
  BY <1>9 DEF Balanced
<1> QED
  BY <1>4, <1>7, <1>8, <1>10 DEF PoolInv

LEMMA NoBlockTyped == V!NoBlock \in [used : BOOLEAN, vpl : Nat, addr : Nat, size : Nat] /\ ~V!NoBlock.used
BY DEF V!NoBlock

(* What DeleteVpl and FreeVpl have in common: some blocks go, and their memory. *)
LEMMA DropBlocks ==
    ASSUME PoolInv, NEW D \in SUBSET V!Block, \A b \in D : blk[b].used,
           mem' = mem \ {blk[b].addr : b \in D},
           \A b \in V!Block : blk'[b] = IF b \in D THEN V!NoBlock ELSE blk[b]
    PROVE  MemoryOfBlocks'
<1>1. ASSUME NEW a PROVE a \in mem' <=> \E b \in V!Block : blk'[b].used /\ blk'[b].addr = a
  <2>1. ASSUME a \in mem' PROVE \E b \in V!Block : blk'[b].used /\ blk'[b].addr = a
    <3>1. PICK b \in V!Block : blk[b].used /\ blk[b].addr = a
      BY <2>1 DEF PoolInv, MemoryOfBlocks
    <3>2. b \notin D
      BY <2>1, <3>1
    <3> QED
      BY <3>1, <3>2
  <2>2. ASSUME NEW b \in V!Block, blk'[b].used, blk'[b].addr = a PROVE a \in mem'
    <3>1. b \notin D /\ blk[b].used /\ blk[b].addr = a
      BY <2>2, NoBlockTyped
    <3>2. \A c \in D : blk[c].addr # a
      BY <3>1 DEF PoolInv, MemoryOfBlocks
    <3>3. a \in mem
      BY <3>1 DEF PoolInv, MemoryOfBlocks
    <3> QED
      BY <3>2, <3>3
  <2> QED
    BY <2>1, <2>2
<1>2. ASSUME NEW b \in V!Block, NEW c \in V!Block, blk'[b].used, blk'[c].used, b # c
      PROVE  blk'[b].addr # blk'[c].addr
  BY <1>2, NoBlockTyped DEF PoolInv, MemoryOfBlocks
<1> QED
  BY <1>1, <1>2 DEF MemoryOfBlocks

LEMMA DeleteVplKeeps ==
    ASSUME PoolInv, NEW t \in Thread, NEW v \in V!Pool, V!DeleteVpl(t, v)
    PROVE  PoolInv'
<1>1. /\ vpl[v].used /\ mem' = mem \ {blk[b].addr : b \in Owned(v)}
      /\ blk' = [b \in V!Block |-> IF b \in Owned(v) THEN V!NoBlock ELSE blk[b]]
      /\ vpl' = [vpl EXCEPT ![v].used = FALSE] /\ UNCHANGED <<want, nextUid>>
  BY DEF V!DeleteVpl, Owned
<1>2. \A b \in V!Block : blk'[b] = IF b \in Owned(v) THEN V!NoBlock ELSE blk[b]
  BY <1>1
<1>3. \A w \in V!Pool : /\ vpl'[w].uid = vpl[w].uid /\ vpl'[w].pool_size = vpl[w].pool_size
                        /\ vpl'[w].free_size = vpl[w].free_size
                        /\ vpl'[w].used <=> vpl[w].used /\ w # v
  BY <1>1 DEF PoolInv, PoolsTyped
<1>4. PoolsTyped'
  <2>1. vpl' \in [V!Pool -> [used : BOOLEAN, uid : Nat, pool_size : Nat, free_size : Nat]]
    BY <1>1 DEF PoolInv, PoolsTyped
  <2>2. blk' \in [V!Block -> [used : BOOLEAN, vpl : Nat, addr : Nat, size : Nat]]
    BY <1>1, NoBlockTyped DEF PoolInv, PoolsTyped
  <2> QED
    BY <1>1, <2>1, <2>2 DEF PoolInv, PoolsTyped
<1>5. UidsApart'
  BY <1>1, <1>2, <1>3, NoBlockTyped DEF PoolInv, UidsApart
<1>6. MemoryOfBlocks'
  <2>1. Owned(v) \in SUBSET V!Block /\ \A b \in Owned(v) : blk[b].used
    BY Owning
  <2> QED
    BY <1>1, <1>2, <2>1, DropBlocks
<1>7. ASSUME NEW w \in V!Pool, vpl'[w].used
      PROVE  /\ IsFiniteSet(Handed(w)')
             /\ vpl'[w].free_size + Cardinality(Handed(w)') = vpl'[w].pool_size
  <2>1. w # v /\ vpl[w].used
    BY <1>3, <1>7
  <2>2. vpl[w].uid # vpl[v].uid
    BY <2>1 DEF PoolInv, UidsApart
  <2>3. \A b \in Owned(w) : blk'[b] = blk[b]
    BY <1>2, <2>2, Owning
  <2>4. Owned(w)' = Owned(w)
    <3>1. \A b : b \in Owned(w)' <=> b \in V!Block /\ blk'[b].used /\ blk'[b].vpl = vpl'[w].uid
      BY DEF Owned, V!BlocksOf
    <3>2. \A b : b \in Owned(w)' => b \in Owned(w)
      BY <1>2, <1>3, <3>1, NoBlockTyped, Owning
    <3>3. \A b : b \in Owned(w) => b \in Owned(w)'
      BY <1>3, <2>3, <3>1, Owning
    <3> QED
      BY <3>2, <3>3
  <2>5. Handed(w)' = Handed(w)
    BY <2>3, <2>4 DEF Handed, Owned, V!HandedOut
  <2> QED
    BY <1>3, <2>1, <2>5 DEF PoolInv, Balanced
<1>8. Balanced'
  BY <1>7 DEF Balanced
<1> QED
  BY <1>4, <1>5, <1>6, <1>8 DEF PoolInv

LEMMA FreeVplKeeps ==
    ASSUME PoolInv, NEW t \in Thread, NEW v \in V!Pool, NEW b \in V!Block, V!FreeVpl(t, v, b)
    PROVE  PoolInv'
<1> DEFINE size == blk[b].size
           free == vpl[v].free_size + size
<1>1. /\ vpl[v].used /\ b \in Owned(v) /\ mem' = mem \ {blk[b].addr}
      /\ blk' = [blk EXCEPT ![b] = V!NoBlock]
      /\ vpl' = [vpl EXCEPT ![v].free_size = free] /\ UNCHANGED <<want, nextUid>>
  BY DEF V!FreeVpl, Owned
<1>2. size \in Nat /\ vpl[v].free_size \in Nat /\ free \in Nat
  BY DEF PoolInv, PoolsTyped
<1>3. \A c \in V!Block : blk'[c] = IF c \in {b} THEN V!NoBlock ELSE blk[c]
  BY <1>1 DEF PoolInv, PoolsTyped
<1> HIDE DEF free
<1>4. \A w \in V!Pool : /\ vpl'[w].uid = vpl[w].uid /\ vpl'[w].pool_size = vpl[w].pool_size
                        /\ vpl'[w].free_size = IF w = v THEN free ELSE vpl[w].free_size
                        /\ vpl'[w].used = vpl[w].used
  BY <1>1 DEF PoolInv, PoolsTyped
<1>5. PoolsTyped'
  <2>1. vpl' \in [V!Pool -> [used : BOOLEAN, uid : Nat, pool_size : Nat, free_size : Nat]]
    BY <1>1, <1>2 DEF PoolInv, PoolsTyped
  <2>2. blk' \in [V!Block -> [used : BOOLEAN, vpl : Nat, addr : Nat, size : Nat]]
    BY <1>1, NoBlockTyped DEF PoolInv, PoolsTyped
  <2> QED
    BY <1>1, <2>1, <2>2 DEF PoolInv, PoolsTyped
<1>6. UidsApart'
  BY <1>1, <1>3, <1>4, NoBlockTyped DEF PoolInv, UidsApart
<1>7. MemoryOfBlocks'
  <2>1. mem' = mem \ {blk[c].addr : c \in {b}}
    BY <1>1
  <2>2. \A c \in {b} : blk[c].used
    BY <1>1, Owning
  <2> QED
    BY <1>3, <2>1, <2>2, DropBlocks
<1>8. ASSUME NEW w \in V!Pool, vpl'[w].used
      PROVE  /\ IsFiniteSet(Handed(w)')
             /\ vpl'[w].free_size + Cardinality(Handed(w)') = vpl'[w].pool_size
  <2>1. /\ IsFiniteSet(Handed(w)) /\ vpl[w].free_size + Cardinality(Handed(w)) = vpl[w].pool_size
        /\ vpl[w].used
    BY <1>4, <1>8 DEF PoolInv, Balanced
  <2>2. Owned(w)' = Owned(w) \ {b}
    BY <1>3, <1>4, NoBlockTyped DEF Owned, V!BlocksOf
  <2>3. \A c \in Owned(w) \ {b} : blk'[c] = blk[c]
    BY <1>3, Owning
  <2>4. \A p : p \in Handed(w)' <=> \E c \in Owned(w) \ {b} : p \in {c} \X (1..blk[c].size)
    <3>1. \A p : p \in Handed(w)' <=> \E c \in Owned(w)' : p \in {c} \X (1..blk'[c].size)
      BY DEF Handed, Owned, V!HandedOut
    <3> QED
      BY <2>2, <2>3, <3>1
  <2>5. CASE w = v
    <3> DEFINE old == {b} \X (1..size)
               rest == Handed(w)'
    <3>1. Handed(w) = rest \cup old
      <4>1. \A p : p \in Handed(w) <=> p \in rest \/ p \in old
        BY <1>1, <2>4, <2>5, HandedBytes
      <4> QED
        BY <4>1
    <3>2. rest \cap old = {}
      <4>1. ASSUME NEW p, p \in rest, p \in old PROVE FALSE
        <5>1. PICK c \in Owned(w) \ {b} : p \in {c} \X (1..blk[c].size)
          BY <2>4, <4>1
        <5> QED
          BY <4>1, <5>1
      <4> QED
        BY <4>1
    <3>3. IsFiniteSet(old) /\ Cardinality(old) = size
      BY <1>2, Parts
    <3> HIDE DEF old, rest
    <3>4. IsFiniteSet(rest)
      BY <2>1, <3>1, FS_Subset
    <3>5. Cardinality(rest) \in Nat /\ Cardinality(Handed(w)) = Cardinality(rest) + size
      BY <3>1, <3>2, <3>3, <3>4, DisjointSum
    <3>6. free + Cardinality(rest) = vpl[w].pool_size
      BY <1>2, <2>1, <2>5, <3>5 DEF free
    <3> QED
      BY <1>4, <2>5, <3>4, <3>6 DEF rest
  <2>6. CASE w # v
    <3>1. vpl[w].uid # vpl[v].uid
      BY <1>1, <2>1, <2>6 DEF PoolInv, UidsApart
    <3>2. b \notin Owned(w)
      BY <1>1, <3>1, Owning
    <3>3. Handed(w)' = Handed(w)
      <4>1. \A p : p \in Handed(w)' <=> p \in Handed(w)
        BY <2>4, <3>2, HandedBytes
      <4> QED
        BY <4>1
    <3> QED
      BY <1>4, <2>1, <2>6, <3>3
  <2> QED
    BY <2>5, <2>6
<1>9. Balanced'
  BY <1>8 DEF Balanced
<1> QED
  BY <1>5, <1>6, <1>7, <1>9 DEF PoolInv

-----------------------------------------------------------------------------
LEMMA Kept ==
    ASSUME PoolInv, UNCHANGED <<vpl, blk, mem, nextUid>>,
           want' \in [Thread -> [v : 0..NVpls, size : Nat]]
    PROVE  PoolInv'
BY DEF PoolInv, PoolsTyped, UidsApart, MemoryOfBlocks, Balanced, Handed, V!HandedOut, V!BlocksOf

LEMMA AtLeastOne == ASSUME NEW size \in Nat PROVE V!Max({size, 1}) \in Nat
<1>1. {size, 1} \in SUBSET (0..size + 1) /\ {size, 1} # {}
  OBVIOUS
<1>2. Max({size, 1}) \in {size, 1}
  BY <1>1, MaxIsGreatest
<1>3. V!Max({size, 1}) = Max({size, 1})
  BY DEF V!Max, Max
<1> QED
  BY <1>2, <1>3

LEMMA NextPoolInv == ASSUME PoolInv, [MemoryNext]_memVars PROVE PoolInv'
<1> DEFINE Wants == [Thread -> [v : 0..NVpls, size : Nat]]
<1>0. want \in Wants /\ V!NoWant \in [v : 0..NVpls, size : Nat]
  BY Counts DEF PoolInv, PoolsTyped, V!NoWant
<1>1. CASE UNCHANGED poolVars
  BY <1>0, <1>1, Kept DEF poolVars
<1>2. ASSUME V!Next PROVE PoolInv'
  <2>1. PICK t \in Thread : V!Call(t) \/ V!Loop(t) \/ V!Schedule(t)
    BY <1>2 DEF V!Next
  <2>2. ASSUME NEW size \in Sizes, V!CreateVpl(t, size) PROVE PoolInv'
    BY <2>2, Counts, CreateVplKeeps
  <2>3. ASSUME NEW v \in V!Pool, V!DeleteVpl(t, v) PROVE PoolInv'
    BY <2>3, DeleteVplKeeps
  <2>4. ASSUME NEW v \in V!Pool, NEW b \in V!Block, V!FreeVpl(t, v, b) PROVE PoolInv'
    BY <2>4, FreeVplKeeps
  <2>5. ASSUME NEW v \in V!Pool, NEW size \in Nat, V!TryAllocateVpl(t, v, size) PROVE PoolInv'
    BY <1>0, <2>5, TakeBlockKeeps DEF V!TryAllocateVpl
  <2>6. ASSUME NEW v \in V!Pool, NEW size \in Nat, NEW timeout, V!AllocateVpl(t, v, size, timeout)
        PROVE  PoolInv'
    <3>1. v \in 0..NVpls
      BY Counts, Slots
    <3>2. want' \in Wants
      BY <1>0, <2>6, <3>1 DEF V!AllocateVpl
    <3> QED
      BY <2>6, <3>2, Kept DEF V!AllocateVpl
  <2>7. CASE V!Call(t)
    <3>1. \A size \in Sizes : size \in Nat /\ V!Max({size, 1}) \in Nat
      BY Counts, AtLeastOne
    <3> QED
      BY <2>2, <2>3, <2>4, <2>5, <2>6, <2>7, <3>1 DEF V!Call
  <2>8. CASE V!VplOk(t)
    <3>1. want[t].v \in V!Pool /\ want[t].size \in Nat
      <4>1. want[t].v \in 0..NVpls /\ want[t].size \in Nat
        BY <1>0
      <4>2. want[t].v # 0
        BY <2>8 DEF V!VplOk, V!WaitOk, V!VplRoom
      <4> QED
        BY <4>1, <4>2, Counts, Slots
    <3>2. V!Room(want[t].v, want[t].size) /\ V!TakeBlock(want[t].v, want[t].size)
          /\ UNCHANGED nextUid
      BY <2>8 DEF V!VplOk, V!WaitOk, V!VplRoom
    <3>3. want' \in Wants
      BY <1>0, <2>8 DEF V!VplOk
    <3> QED
      BY <3>1, <3>2, <3>3, TakeBlockKeeps
  <2>9. CASE V!VplFails(t)
    <3>1. want' \in Wants
      BY <1>0, <2>9 DEF V!VplFails
    <3> QED
      BY <2>9, <3>1, Kept DEF V!VplFails
  <2>10. CASE V!VplParks(t) \/ V!Schedule(t)
    BY <1>0, <2>10, Kept DEF V!VplParks, V!Schedule
  <2> QED
    BY <2>1, <2>7, <2>8, <2>9, <2>10 DEF V!Loop
<1> QED
  BY <1>1, <1>2 DEF MemoryNext, memVars

(* hle_CreateVpl, hle_DeleteVpl, hle_FreeVpl and take_vpl_block, called by any number of
   threads and with any of them waiting for a pool that is deleted, or whose record
   has become another's: every block's memory is its own and is released once, and the
   free size that ReferVplStatus reports is the pool's size less what it has handed
   out. *)
THEOREM PoolsStayExact == MemorySpec => []BlockMemoryExact
<1>1. MemoryInit => PoolInv
  BY InitPoolInv
<1>2. PoolInv /\ [MemoryNext]_memVars => PoolInv'
  BY NextPoolInv
<1>3. PoolInv => BlockMemoryExact
  <2> SUFFICES ASSUME PoolInv PROVE V!BlockMemoryExact
    BY DEF BlockMemoryExact
  <2>1. \A a : a \in mem <=> a \in {blk[b].addr : b \in {c \in V!Block : blk[c].used}}
    BY DEF PoolInv, MemoryOfBlocks
  <2>2. mem = {blk[b].addr : b \in {c \in V!Block : blk[c].used}}
    BY <2>1
  <2>3. V!FreeSizeTrue
    <3>1. \A v \in V!Pool : vpl[v].free_size >= 0
      BY DEF PoolInv, PoolsTyped
    <3>2. \A S : V!Cardinality(S) = Cardinality(S)
      BY DEF V!Cardinality, Cardinality
    <3> QED
      BY <3>1, <3>2 DEF PoolInv, Balanced, Handed, V!FreeSizeTrue
  <2> QED
    BY <2>2, <2>3 DEF PoolInv, MemoryOfBlocks, V!BlockMemoryExact
<1> QED
  BY <1>1, <1>2, <1>3, PTL DEF MemorySpec
=============================================================================
