----------------------------- MODULE CaptureProofs -----------------------------
(***************************************************************************)
(* Proofs about the captures: the evidence bundle and the fixture that is  *)
(* exported from it, and the WSS probe with its report, for every server,  *)
(* every limit and every write that fails.  What a loop over messages does *)
(* and what a sum over files or frames is are facts about recursion; they  *)
(* come first.  Last comes the wire format that frames are read in: what   *)
(* is written in it is read again, whatever the numbers, the bytes and the *)
(* responses.                                                              *)
(***************************************************************************)
EXTENDS MCEvidenceCapture, FiniteSetTheorems, SequenceTheorems, WellFoundedInduction, TLAPS

-----------------------------------------------------------------------------
(* Induction and sums. *)

\* Induction over the natural numbers, as a fact about a set: the minimal number
\* outside of it would be no successor.
LEMMA NatSetInduction ==
  ASSUME NEW S, 0 \in S, \A n \in Nat : n \in S => n + 1 \in S
  PROVE  \A n \in Nat : n \in S
<1> DEFINE T == Nat \ S
<1> SUFFICES ASSUME T # {} PROVE FALSE
  OBVIOUS
<1>1. PICK m \in T : \A k \in T : ~(<<k, m>> \in OpToRel(<, Nat))
  BY NatLessThanWellFounded, WFMin
<1>2. \A k \in Nat : k < m => k \in S
  BY <1>1 DEF OpToRel
<1>3. m \in Nat /\ m # 0
  OBVIOUS
<1>4. m - 1 \in Nat /\ m - 1 < m
  BY <1>3
<1>5. m - 1 \in S
  BY <1>2, <1>4
<1>6. (m - 1) + 1 \in S
  BY <1>4, <1>5
<1> QED BY <1>3, <1>6

AnyOf(s) == CHOOSE x \in s : TRUE
Adds(f, S, iter) ==
  iter = [s \in SUBSET S |-> IF s = {} THEN 0 ELSE f[AnyOf(s)] + iter[s \ {AnyOf(s)}]]
Iter(f, S) == CHOOSE iter : Adds(f, S, iter)

\* A sum is the value of the library's recursion on the whole set.
LEMMA SumIsIter ==
  ASSUME NEW f, NEW S
  PROVE  SumFunctionOnSet(f, S) = Iter(f, S)[S]
BY DEF SumFunctionOnSet, FoldFunctionOnSet, MapThenFoldSet, Iter, Adds, AnyOf

\* The element taken next leaves a smaller set.
LEMMA Removes ==
  ASSUME NEW s, IsFiniteSet(s), s # {}
  PROVE  /\ AnyOf(s) \in s /\ IsFiniteSet(s \ {AnyOf(s)})
         /\ Cardinality(s) \in Nat \ {0} /\ Cardinality(s \ {AnyOf(s)}) = Cardinality(s) - 1
BY FS_RemoveElement, FS_CardinalityType, FS_EmptySet DEF AnyOf

\* The recursion defines a function: it does on the subsets with up to n elements,
\* for every n.
LEMMA IterExists ==
  ASSUME NEW f, NEW S, IsFiniteSet(S)
  PROVE  Adds(f, S, Iter(f, S))
<1> DEFINE Small(n) == {s \in SUBSET S : Cardinality(s) <= n}
           Good(n, g) == \A s \in Small(n) :
              g[s] = IF s = {} THEN 0 ELSE f[AnyOf(s)] + g[s \ {AnyOf(s)}]
           Upto == {n \in Nat : \E g : Good(n, g)}
<1>1. \A s \in SUBSET S : IsFiniteSet(s) /\ Cardinality(s) \in Nat /\ Cardinality(s) <= Cardinality(S)
  BY FS_Subset, FS_CardinalityType
<1>2. 0 \in Upto
  <2>1. \A s \in Small(0) : s = {}
    BY <1>1, FS_EmptySet
  <2>2. Good(0, [s \in {{}} |-> 0])
    BY <2>1
  <2> HIDE DEF Good
  <2> QED BY <2>2
<1>3. ASSUME NEW n \in Nat, n \in Upto PROVE n + 1 \in Upto
  <2>1. PICK g : Good(n, g)
    BY <1>3
  <2> DEFINE h == [s \in Small(n + 1) |->
                    IF s \in Small(n) THEN g[s] ELSE f[AnyOf(s)] + g[s \ {AnyOf(s)}]]
  <2>2. Good(n + 1, h)
    <3> SUFFICES ASSUME NEW s \in Small(n + 1)
                 PROVE  h[s] = IF s = {} THEN 0 ELSE f[AnyOf(s)] + h[s \ {AnyOf(s)}]
      OBVIOUS
    <3>1. CASE s = {}
      <4>1. s \in Small(n)
        BY <3>1, FS_EmptySet
      <4> QED BY <2>1, <3>1, <4>1
    <3>2. CASE s # {}
      <4> DEFINE t == s \ {AnyOf(s)}
      <4>1. t \in Small(n) /\ t \in Small(n + 1)
        BY <1>1, <3>2, Removes
      <4>2. h[t] = g[t]
        BY <4>1
      <4>3. h[s] = f[AnyOf(s)] + g[t]
        BY <2>1, <3>2
      <4> QED BY <3>2, <4>2, <4>3
    <3> QED BY <3>1, <3>2
  <2> HIDE DEF Good, h
  <2> QED BY <2>2
<1> HIDE DEF Upto
<1>4. Cardinality(S) \in Upto
  BY <1>1, <1>2, <1>3, NatSetInduction, FS_CardinalityType
<1>5. PICK g : Good(Cardinality(S), g)
  BY <1>4 DEF Upto
<1>6. \A s \in SUBSET S : g[s] = IF s = {} THEN 0 ELSE f[AnyOf(s)] + g[s \ {AnyOf(s)}]
  BY <1>1, <1>5
<1>7. Adds(f, S, [s \in SUBSET S |-> g[s]])
  <2> DEFINE k == [s \in SUBSET S |-> g[s]]
  <2>1. ASSUME NEW s \in SUBSET S, s # {} PROVE k[s \ {AnyOf(s)}] = g[s \ {AnyOf(s)}]
    OBVIOUS
  <2>2. \A s \in SUBSET S : k[s] = IF s = {} THEN 0 ELSE f[AnyOf(s)] + k[s \ {AnyOf(s)}]
    BY <1>6, <2>1
  <2>3. k = [s \in SUBSET S |-> k[s]]
    OBVIOUS
  <2> HIDE DEF k
  <2>4. k = [s \in SUBSET S |-> IF s = {} THEN 0 ELSE f[AnyOf(s)] + k[s \ {AnyOf(s)}]]
    BY <2>2, <2>3
  <2> QED BY <2>4 DEF Adds, k
<1> QED BY <1>7 DEF Iter

\* So its value follows from that of a smaller set.
LEMMA IterStep ==
  ASSUME NEW f, NEW S, IsFiniteSet(S), NEW T \in SUBSET S
  PROVE  Iter(f, S)[T] = IF T = {} THEN 0 ELSE f[AnyOf(T)] + Iter(f, S)[T \ {AnyOf(T)}]
<1> DEFINE iter == Iter(f, S)
<1>1. Adds(f, S, iter)
  BY IterExists
<1> HIDE DEF iter
<1>2. iter = [s \in SUBSET S |-> IF s = {} THEN 0 ELSE f[AnyOf(s)] + iter[s \ {AnyOf(s)}]]
  BY <1>1 DEF Adds
<1>3. iter[T] = IF T = {} THEN 0 ELSE f[AnyOf(T)] + iter[T \ {AnyOf(T)}]
  BY <1>2
<1> QED BY <1>3 DEF iter

\* A sum does not depend on the set whose subsets it runs over.
LEMMA IterAgrees ==
  ASSUME NEW f, NEW S, IsFiniteSet(S), NEW T \in SUBSET S
  PROVE  Iter(f, S)[T] = SumFunctionOnSet(f, T)
<1> DEFINE Same == {n \in Nat : \A U \in SUBSET T :
                       Cardinality(U) = n => Iter(f, S)[U] = Iter(f, T)[U]}
<1>1. /\ IsFiniteSet(T) /\ \A U \in SUBSET T : IsFiniteSet(U) /\ U \in SUBSET S
  BY FS_Subset
<1>2. /\ \A U \in SUBSET T :
            /\ Iter(f, T)[U] = IF U = {} THEN 0 ELSE f[AnyOf(U)] + Iter(f, T)[U \ {AnyOf(U)}]
            /\ Iter(f, S)[U] = IF U = {} THEN 0 ELSE f[AnyOf(U)] + Iter(f, S)[U \ {AnyOf(U)}]
  BY <1>1, IterStep
<1>3. 0 \in Same
  <2>1. ASSUME NEW U \in SUBSET T, Cardinality(U) = 0 PROVE U = {}
    BY <1>1, <2>1, FS_EmptySet
  <2> QED BY <1>2, <2>1
<1>4. ASSUME NEW n \in Nat, n \in Same PROVE n + 1 \in Same
  <2> SUFFICES ASSUME NEW U \in SUBSET T, Cardinality(U) = n + 1
               PROVE  Iter(f, S)[U] = Iter(f, T)[U]
    OBVIOUS
  <2>1. U # {}
    BY FS_EmptySet
  <2>2. U \ {AnyOf(U)} \in SUBSET T /\ Cardinality(U \ {AnyOf(U)}) = n
    BY <1>1, <2>1, Removes
  <2>3. Iter(f, S)[U \ {AnyOf(U)}] = Iter(f, T)[U \ {AnyOf(U)}]
    BY <1>4, <2>2
  <2> QED BY <1>2, <2>1, <2>3
<1> HIDE DEF Same
<1>5. Cardinality(T) \in Same
  BY <1>1, <1>3, <1>4, NatSetInduction, FS_CardinalityType
<1> QED BY <1>1, <1>5, SumIsIter, FS_CardinalityType DEF Same

\* A sum takes away the element that CHOOSE names.
LEMMA SumStep ==
  ASSUME NEW f, NEW S, IsFiniteSet(S)
  PROVE  /\ S = {} => SumFunctionOnSet(f, S) = 0
         /\ S # {} => SumFunctionOnSet(f, S)
                        = f[AnyOf(S)] + SumFunctionOnSet(f, S \ {AnyOf(S)})
<1>1. Iter(f, S)[S] = IF S = {} THEN 0 ELSE f[AnyOf(S)] + Iter(f, S)[S \ {AnyOf(S)}]
  BY IterStep
<1>2. Iter(f, S)[S \ {AnyOf(S)}] = SumFunctionOnSet(f, S \ {AnyOf(S)})
  BY IterAgrees
<1> QED BY <1>1, <1>2, SumIsIter

\* A sum of natural numbers is one.
LEMMA SumType ==
  ASSUME NEW f, NEW S, IsFiniteSet(S), \A x \in S : f[x] \in Nat
  PROVE  SumFunctionOnSet(f, S) \in Nat
<1> DEFINE Fine == {n \in Nat : \A T \in SUBSET S : Cardinality(T) = n => SumFunctionOnSet(f, T) \in Nat}
<1>1. \A T \in SUBSET S : IsFiniteSet(T) /\ Cardinality(T) \in Nat
  BY FS_Subset, FS_CardinalityType
<1>2. 0 \in Fine
  <2>1. ASSUME NEW T \in SUBSET S, Cardinality(T) = 0 PROVE T = {}
    BY <1>1, <2>1, FS_EmptySet
  <2>2. SumFunctionOnSet(f, {}) = 0
    BY SumStep, FS_EmptySet
  <2> QED BY <2>1, <2>2
<1>3. ASSUME NEW n \in Nat, n \in Fine PROVE n + 1 \in Fine
  <2> SUFFICES ASSUME NEW T \in SUBSET S, Cardinality(T) = n + 1
               PROVE  SumFunctionOnSet(f, T) \in Nat
    OBVIOUS
  <2>1. T # {}
    BY FS_EmptySet
  <2>2. /\ AnyOf(T) \in S /\ T \ {AnyOf(T)} \in SUBSET S
        /\ Cardinality(T \ {AnyOf(T)}) = n
    BY <1>1, <2>1, Removes
  <2>3. SumFunctionOnSet(f, T \ {AnyOf(T)}) \in Nat
    BY <1>3, <2>2
  <2> QED BY <1>1, <2>1, <2>2, <2>3, SumStep
<1> HIDE DEF Fine
<1>4. Cardinality(S) \in Fine
  BY <1>1, <1>2, <1>3, NatSetInduction
<1> QED BY <1>1, <1>4 DEF Fine

\* Any element may come last.
LEMMA SumRemoves ==
  ASSUME NEW f, NEW S, IsFiniteSet(S), \A x \in S : f[x] \in Nat, NEW e \in S
  PROVE  SumFunctionOnSet(f, S) = f[e] + SumFunctionOnSet(f, S \ {e})
<1> DEFINE SumOf(T) == SumFunctionOnSet(f, T)
           Fine == {n \in Nat : \A T \in SUBSET S : Cardinality(T) = n =>
                      \A y \in T : SumOf(T) = f[y] + SumOf(T \ {y})}
<1>1. \A T \in SUBSET S : IsFiniteSet(T) /\ Cardinality(T) \in Nat /\ SumOf(T) \in Nat
  BY FS_Subset, FS_CardinalityType, SumType
<1>2. 0 \in Fine
  <2>1. ASSUME NEW T \in SUBSET S, Cardinality(T) = 0 PROVE T = {}
    BY <1>1, <2>1, FS_EmptySet
  <2> HIDE DEF SumOf
  <2> QED BY <2>1
<1>3. ASSUME NEW n \in Nat, n \in Fine PROVE n + 1 \in Fine
  <2> SUFFICES ASSUME NEW T \in SUBSET S, Cardinality(T) = n + 1
               PROVE  \A y \in T : SumOf(T) = f[y] + SumOf(T \ {y})
    OBVIOUS
  <2>1. T # {}
    BY FS_EmptySet
  <2> DEFINE x == AnyOf(T)
  <2>2. x \in T /\ T \ {x} \in SUBSET S
    BY <1>1, <2>1, Removes
  <2>3. SumOf(T) = f[x] + SumOf(T \ {x})
    BY <1>1, <2>1, SumStep
  <2>4. ASSUME NEW y \in T PROVE T \ {y} \in SUBSET S /\ Cardinality(T \ {y}) = n
    <3>1. Cardinality(T \ {y}) = Cardinality(T) - 1
      BY <1>1, FS_RemoveElement
    <3> QED BY <3>1
  <2> HIDE DEF SumOf, x
  <2>5. \A y \in T : \A z \in T \ {y} : SumOf(T \ {y}) = f[z] + SumOf((T \ {y}) \ {z})
    BY <1>3, <2>4
  <2>7. ASSUME NEW y \in T, y # x PROVE SumOf(T) = f[y] + SumOf(T \ {y})
    <3>1. SumOf(T \ {x}) = f[y] + SumOf((T \ {x}) \ {y})
      BY <2>2, <2>5, <2>7
    <3>2. SumOf(T \ {y}) = f[x] + SumOf((T \ {y}) \ {x})
      BY <2>2, <2>5, <2>7
    <3>3. (T \ {x}) \ {y} = (T \ {y}) \ {x}
      OBVIOUS
    <3>4. SumOf((T \ {x}) \ {y}) \in Nat /\ f[x] \in Nat /\ f[y] \in Nat
      <4>1. (T \ {x}) \ {y} \in SUBSET S
        OBVIOUS
      <4> QED BY <1>1, <2>2, <4>1
    <3>5. \A a, b, k \in Nat : a + (b + k) = b + (a + k)
      OBVIOUS
    <3>6. SumOf(T) = f[x] + (f[y] + SumOf((T \ {x}) \ {y}))
      BY <2>3, <3>1
    <3>7. SumOf(T \ {y}) = f[x] + SumOf((T \ {x}) \ {y})
      BY <3>2, <3>3
    <3> QED BY <3>4, <3>5, <3>6, <3>7
  <2> QED BY <2>3, <2>7
<1> HIDE DEF Fine
<1>4. Cardinality(S) \in Fine
  BY <1>1, <1>2, <1>3, NatSetInduction
<1> QED BY <1>1, <1>4 DEF Fine

\* Only the summands count.
LEMMA SumSame ==
  ASSUME NEW f, NEW g, NEW S, IsFiniteSet(S), \A x \in S : f[x] = g[x] /\ f[x] \in Nat
  PROVE  SumFunctionOnSet(f, S) = SumFunctionOnSet(g, S)
<1> DEFINE Same == {n \in Nat : \A T \in SUBSET S : Cardinality(T) = n =>
                       SumFunctionOnSet(f, T) = SumFunctionOnSet(g, T)}
<1>1. \A T \in SUBSET S : IsFiniteSet(T) /\ Cardinality(T) \in Nat
  BY FS_Subset, FS_CardinalityType
<1>2. 0 \in Same
  <2>1. ASSUME NEW T \in SUBSET S, Cardinality(T) = 0 PROVE T = {}
    BY <1>1, <2>1, FS_EmptySet
  <2>2. SumFunctionOnSet(f, {}) = 0 /\ SumFunctionOnSet(g, {}) = 0
    BY SumStep, FS_EmptySet
  <2> QED BY <2>1, <2>2
<1>3. ASSUME NEW n \in Nat, n \in Same PROVE n + 1 \in Same
  <2> SUFFICES ASSUME NEW T \in SUBSET S, Cardinality(T) = n + 1
               PROVE  SumFunctionOnSet(f, T) = SumFunctionOnSet(g, T)
    OBVIOUS
  <2>1. T # {}
    BY FS_EmptySet
  <2>2. /\ AnyOf(T) \in S /\ T \ {AnyOf(T)} \in SUBSET S
        /\ Cardinality(T \ {AnyOf(T)}) = n
    BY <1>1, <2>1, Removes
  <2>3. SumFunctionOnSet(f, T \ {AnyOf(T)}) = SumFunctionOnSet(g, T \ {AnyOf(T)})
    BY <1>3, <2>2
  <2> QED BY <1>1, <2>1, <2>2, <2>3, SumStep
<1> HIDE DEF Same
<1>4. Cardinality(S) \in Same
  BY <1>1, <1>2, <1>3, NatSetInduction
<1> QED BY <1>1, <1>4 DEF Same

-----------------------------------------------------------------------------
(* The evidence bundle. *)

Contents == CapturedFrame \cup CapturedMessage
Paths == {"frames", "target-payloads"} \X Nat \X Nat
Entry == [path : Paths, content : Contents]
Bundle == [frames : Seq(Entry), targets : Seq(Entry), total : Nat, methods : Nat,
           decoded : Nat, undecoded : Nat, unparsed : Nat]
Disks == UNION {[D -> Contents] : D \in SUBSET Paths}
Files(d) == d \in Disks /\ IsFiniteSet(DOMAIN d)
Captures == [b : Bundle, d : Disks, err : {NULL, "EvidenceError", "OSError", "EOFError"}, n : Nat]

\* What a disk is, by its files.
LEMMA DiskFiles ==
  ASSUME NEW d
  PROVE  d \in Disks <=> /\ d = [p \in DOMAIN d |-> d[p]] /\ DOMAIN d \subseteq Paths
                         /\ \A p \in DOMAIN d : d[p] \in Contents
<1>1. ASSUME d \in Disks
      PROVE  /\ d = [p \in DOMAIN d |-> d[p]] /\ DOMAIN d \subseteq Paths
             /\ \A p \in DOMAIN d : d[p] \in Contents
  <2>1. PICK D \in SUBSET Paths : d \in [D -> Contents]
    BY <1>1 DEF Disks
  <2> QED BY <2>1
<1>2. ASSUME d = [p \in DOMAIN d |-> d[p]], DOMAIN d \subseteq Paths,
             \A p \in DOMAIN d : d[p] \in Contents
      PROVE  d \in Disks
  <2>1. d \in [DOMAIN d -> Contents] /\ DOMAIN d \in SUBSET Paths
    BY <1>2
  <2> QED BY <2>1 DEF Disks
<1> QED BY <1>1, <1>2

\* Bytes are counted in natural numbers.
LEMMA FilesBytes ==
  ASSUME NEW d, Files(d)
  PROVE  Bytes(d) \in Nat
<1> DEFINE f == [p \in DOMAIN d |-> d[p].size]
<1>1. \A p \in DOMAIN d : d[p].size \in Nat
  BY DiskFiles DEF Files, Contents, CapturedFrame, CapturedMessage
<1>2. DOMAIN f = DOMAIN d /\ \A p \in DOMAIN d : f[p] \in Nat
  BY <1>1
<1> HIDE DEF f
<1>3. SumFunctionOnSet(f, DOMAIN d) \in Nat
  BY <1>2, SumType DEF Files
<1> QED BY <1>2, <1>3 DEF Bytes, SumFunction, f

\* A new file adds its size to the bytes there are.
LEMMA BytesAdd ==
  ASSUME NEW d, Files(d), NEW path \in Paths \ DOMAIN d, NEW content \in Contents, NEW e,
         e = [p \in DOMAIN d \cup {path} |-> IF p = path THEN content ELSE d[p]]
  PROVE  /\ Files(e) /\ Bytes(d) \in Nat /\ Bytes(e) = Bytes(d) + content.size
<1> DEFINE f == [p \in DOMAIN d |-> d[p].size]
           g == [p \in DOMAIN e |-> e[p].size]
<1>0. \A c \in Contents : c.size \in Nat
  BY DEF Contents, CapturedFrame, CapturedMessage
<1>1. /\ DOMAIN e = DOMAIN d \cup {path} /\ e[path] = content
      /\ \A p \in DOMAIN d : e[p] = d[p]
  OBVIOUS
<1>2. IsFiniteSet(DOMAIN e)
  BY <1>1, FS_AddElement DEF Files
<1>3. Files(e) /\ \A p \in DOMAIN d : d[p] \in Contents
  <2>1. \A p \in DOMAIN d : d[p] \in Contents /\ DOMAIN d \subseteq Paths
    BY DiskFiles DEF Files
  <2>2. e = [p \in DOMAIN e |-> e[p]] /\ DOMAIN e \subseteq Paths
        /\ \A p \in DOMAIN e : e[p] \in Contents
    BY <1>1, <2>1
  <2> QED BY <1>2, <2>1, <2>2, DiskFiles DEF Files
<1>4. /\ DOMAIN f = DOMAIN d /\ DOMAIN g = DOMAIN e /\ g[path] = content.size
      /\ \A p \in DOMAIN d : f[p] = g[p] /\ f[p] \in Nat
      /\ \A p \in DOMAIN e : g[p] \in Nat
  BY <1>0, <1>1, <1>3 DEF Files
<1> HIDE DEF f, g
<1>5. SumFunctionOnSet(g, DOMAIN e) = g[path] + SumFunctionOnSet(g, DOMAIN e \ {path})
  BY <1>1, <1>2, <1>4, SumRemoves
<1>6. DOMAIN e \ {path} = DOMAIN d
  BY <1>1
<1>7. SumFunctionOnSet(g, DOMAIN d) = SumFunctionOnSet(f, DOMAIN d)
  BY <1>4, SumSame DEF Files
<1>8. SumFunctionOnSet(f, DOMAIN d) \in Nat
  BY <1>4, SumType DEF Files
<1>9. Bytes(d) = SumFunctionOnSet(f, DOMAIN d) /\ Bytes(e) = SumFunctionOnSet(g, DOMAIN e)
  BY <1>4 DEF Bytes, SumFunction, f, g
<1> QED BY <1>0, <1>3, <1>4, <1>5, <1>6, <1>7, <1>8, <1>9

\* A loop over messages computes what its steps say (capture_binary_frame).
Rounds(g, written, f, sequence, bad) ==
  g = [i \in 0 .. Len(f.messages) |->
         IF i = 0 THEN written ELSE Message(g[i - 1], f.messages[i], sequence, i, bad)]
After(written, f, sequence, bad) == CHOOSE g : Rounds(g, written, f, sequence, bad)
\* Such a function exists: the loop over the messages is defined.
LEMMA LoopDefined ==
  ASSUME NEW written, NEW f, Len(f.messages) \in Nat, NEW sequence, NEW bad
  PROVE  Rounds(After(written, f, sequence, bad), written, f, sequence, bad)
<1> DEFINE Step(s, i) == Message(s, f.messages[i], sequence, i, bad)
           Good(k, g) == g = [i \in 0 .. k |-> IF i = 0 THEN written ELSE Step(g[i - 1], i)]
           Upto == {k \in Nat : \E g : Good(k, g)}
<1> HIDE DEF Step
<1>1. 0 \in Upto
  <2>1. Good(0, [i \in 0 .. 0 |-> written])
    OBVIOUS
  <2> QED BY <2>1
<1>2. ASSUME NEW k \in Nat, k \in Upto PROVE k + 1 \in Upto
  <2>1. PICK g : Good(k, g)
    BY <1>2
  <2> DEFINE h == [i \in 0 .. k + 1 |-> IF i = k + 1 THEN Step(g[k], k + 1) ELSE g[i]]
  <2>2. Good(k + 1, h)
    <3>1. \A i \in 0 .. k : g[i] = IF i = 0 THEN written ELSE Step(g[i - 1], i)
      BY <2>1
    <3>2. ASSUME NEW i \in 0 .. k + 1 PROVE h[i] = IF i = 0 THEN written ELSE Step(h[i - 1], i)
      <4>1. CASE i = k + 1
        <5>1. k \in 0 .. k + 1 /\ k # k + 1 /\ i - 1 = k /\ i # 0
          BY <4>1
        <5>2. h[k] = g[k]
          BY <5>1
        <5> QED BY <4>1, <5>1, <5>2
      <4>2. CASE i \in 0 .. k
        BY <3>1, <4>2
      <4> QED BY <4>1, <4>2
    <3>3. h = [i \in 0 .. k + 1 |-> h[i]]
      OBVIOUS
    <3> HIDE DEF h
    <3> QED BY <3>2, <3>3
  <2> HIDE DEF Good
  <2> QED BY <2>2
<1> HIDE DEF Upto
<1>3. Len(f.messages) \in Upto
  BY <1>1, <1>2, NatSetInduction
<1>4. \E g : Good(Len(f.messages), g)
  BY <1>3 DEF Upto
<1>5. \E g : Rounds(g, written, f, sequence, bad)
  BY <1>4 DEF Step, Rounds
<1> QED BY <1>5 DEF After

\* What the first state of the loop has and every message keeps, the last one has.
LEMMA MessagesKeep ==
  ASSUME NEW written, NEW f, f.messages \in Seq(CapturedMessage), NEW sequence, NEW bad,
         NEW Ok, written \in Ok,
         \A i \in 1 .. Len(f.messages) : \A s \in Ok :
            Message(s, f.messages[i], sequence, i, bad) \in Ok
  PROVE  Messages(written, f, sequence, bad) \in Ok
<1> DEFINE n == Len(f.messages)
           after == After(written, f, sequence, bad)
           Kept == {k \in Nat : k <= n => after[k] \in Ok}
<1>1. n \in Nat
  OBVIOUS
<1>0. Rounds(after, written, f, sequence, bad)
  BY <1>1, LoopDefined
<1> HIDE DEF after
<1>2. after = [i \in 0 .. n |->
                 IF i = 0 THEN written ELSE Message(after[i - 1], f.messages[i], sequence, i, bad)]
  BY <1>0 DEF Rounds
<1>3. 0 \in Kept
  BY <1>1, <1>2
<1>4. ASSUME NEW k \in Nat, k \in Kept PROVE k + 1 \in Kept
  <2> SUFFICES ASSUME k + 1 <= n PROVE after[k + 1] \in Ok
    OBVIOUS
  <2>1. k + 1 \in 0 .. n /\ k + 1 # 0 /\ (k + 1) - 1 = k /\ k + 1 \in 1 .. n
    BY <1>1
  <2>2. after[k + 1] = Message(after[k], f.messages[k + 1], sequence, k + 1, bad)
    BY <1>2, <2>1
  <2>3. after[k] \in Ok
    BY <1>1, <1>4
  <2> QED BY <2>1, <2>2, <2>3
<1> HIDE DEF Kept
<1>5. n \in Kept
  BY <1>1, <1>3, <1>4, NatSetInduction
<1>6. after[n] \in Ok
  BY <1>1, <1>5 DEF Kept
<1> QED BY <1>6 DEF Messages, after, After, Rounds

\* An entry that names a message of frames fs, of the target method.
Names(t, fs) ==
  \E k \in DOMAIN fs : \E j \in DOMAIN fs[k].messages :
     /\ t.path = <<"target-payloads", k, j>> /\ t.content = fs[k].messages[j]
     /\ t.content.target

\* What is so while a frame is being captured: its bytes are accounted for, its
\* record is still to come, and each target belongs to a frame received.
Capturing(frames, fs) ==
  {s \in Captures :
     /\ Files(s.d) /\ s.b.frames = frames /\ s.b.total <= MaxTotalBytes
     /\ Bytes(s.d) <= s.b.total /\ (s.err = NULL => Bytes(s.d) = s.b.total)
     /\ \A i \in DOMAIN s.b.targets : Names(s.b.targets[i], fs)}

\* A file is written under a name that was free, or nothing changes.
LEMMA WriteEffect ==
  ASSUME NEW s \in Captures, Files(s.d), s.err = NULL, NEW path \in Paths,
         NEW content \in Contents, NEW bad, NEW r, r = Write(s, path, content, bad)
  PROVE  /\ r \in Captures /\ Files(r.d) /\ r.b = s.b /\ r.err \in {NULL, "OSError"}
         /\ Bytes(s.d) \in Nat
         /\ r.err = NULL => Bytes(r.d) = Bytes(s.d) + content.size
         /\ r.err # NULL => r.d = s.d
<1>1. CASE path \in DOMAIN s.d \/ s.n + 1 = bad
  <2>1. r = [s EXCEPT !.err = "OSError"]
    BY <1>1 DEF Write
  <2> QED BY <2>1, FilesBytes, EvidenceAssumption DEF Captures
<1>2. CASE path \notin DOMAIN s.d /\ s.n + 1 # bad
  <2> DEFINE e == [p \in DOMAIN s.d \cup {path} |-> IF p = path THEN content ELSE s.d[p]]
  <2>1. r = [s EXCEPT !.d = e, !.n = s.n + 1]
    BY <1>2 DEF Write
  <2>2. Files(e) /\ Bytes(s.d) \in Nat /\ Bytes(e) = Bytes(s.d) + content.size
    BY <1>2, BytesAdd
  <2> HIDE DEF e
  <2>3. r.b = s.b /\ r.d = e /\ r.err = NULL
    BY <2>1 DEF Captures
  <2>4. r \in Captures
    <3>1. r = [b |-> s.b, d |-> e, err |-> s.err, n |-> s.n + 1]
      BY <2>1 DEF Captures
    <3>2. s.b \in Bundle /\ e \in Disks /\ s.n + 1 \in Nat
      BY <2>2 DEF Captures, Files
    <3> QED BY <3>1, <3>2 DEF Captures
  <2> QED BY <2>2, <2>3, <2>4
<1> QED BY <1>1, <1>2

\* Each message is counted, and a target's bytes are counted before its file is
\* there and its record after it (capture_binary_frame).
LEMMA MessageKeeps ==
  ASSUME NEW frames, NEW fs, NEW s \in Capturing(frames, fs), NEW sequence \in DOMAIN fs,
         sequence \in Nat, NEW index \in DOMAIN fs[sequence].messages, index \in Nat,
         NEW m \in CapturedMessage, m = fs[sequence].messages[index], NEW bad
  PROVE  Message(s, m, sequence, index, bad) \in Capturing(frames, fs)
<1> DEFINE counted == [s EXCEPT !.b.methods = @ + 1]
           reserved == [counted EXCEPT !.b = Reserve(@, m.size)]
           path == <<"target-payloads", sequence, index>>
           written == Write(reserved, path, m, bad)
           listed == [written EXCEPT !.b.targets = Append(@, [path |-> path, content |-> m]),
                             !.b.decoded = @ + (IF m.decodes THEN 1 ELSE 0),
                             !.b.undecoded = @ + (IF m.decodes THEN 0 ELSE 1)]
<1>1. /\ s \in Captures /\ Files(s.d) /\ s.b.frames = frames /\ s.b.total <= MaxTotalBytes
      /\ Bytes(s.d) <= s.b.total /\ (s.err = NULL => Bytes(s.d) = s.b.total)
      /\ \A i \in DOMAIN s.b.targets : Names(s.b.targets[i], fs)
  BY DEF Capturing
<1>2. /\ s.b \in Bundle /\ Bytes(s.d) \in Nat /\ m.size \in Nat /\ m.target \in BOOLEAN
      /\ path \in Paths /\ m \in Contents /\ s.b.total \in Nat
  BY <1>1, FilesBytes DEF Captures, Paths, Contents, CapturedMessage, Bundle
<1>3. /\ counted \in Captures /\ counted.d = s.d /\ counted.err = s.err
      /\ counted.b.frames = s.b.frames /\ counted.b.total = s.b.total
      /\ counted.b.targets = s.b.targets
  <2> DEFINE x == s.b.methods + 1
             nb == [s.b EXCEPT !.methods = x]
  <2>0. x \in Nat
    BY <1>2 DEF Bundle
  <2>1. /\ nb \in Bundle /\ nb.frames = s.b.frames /\ nb.total = s.b.total
        /\ nb.targets = s.b.targets
    <3> HIDE DEF x
    <3> QED BY <1>2, <2>0 DEF Bundle
  <2>2. counted = [s EXCEPT !.b = nb]
    BY <1>1 DEF Captures
  <2> HIDE DEF nb, counted
  <2> QED BY <1>1, <2>1, <2>2 DEF Captures
<1>4. counted \in Capturing(frames, fs)
  BY <1>1, <1>3 DEF Capturing
<1>5. [counted EXCEPT !.err = "EvidenceError"] \in Capturing(frames, fs)
  <2> HIDE DEF counted
  <2> DEFINE r == [counted EXCEPT !.err = "EvidenceError"]
  <2>1. r \in Captures /\ r.d = s.d /\ r.b = counted.b /\ r.err = "EvidenceError"
    BY <1>3 DEF Captures
  <2> HIDE DEF r
  <2>2. r \in Capturing(frames, fs)
    BY <1>1, <1>3, <2>1, EvidenceAssumption DEF Capturing
  <2> QED BY <2>2 DEF r
<1>6. ASSUME s.err = NULL, m.target, Fits(s.b, m.size)
      PROVE  /\ reserved \in Captures /\ reserved.d = s.d /\ reserved.err = NULL
             /\ reserved.b.frames = frames /\ reserved.b.targets = s.b.targets
             /\ reserved.b.total = s.b.total + m.size /\ reserved.b.total <= MaxTotalBytes
  <2> HIDE DEF counted
  <2>1. counted.b \in Bundle /\ counted.b.total + m.size \in Nat
    BY <1>2, <1>3 DEF Captures
  <2>2. Reserve(counted.b, m.size) \in Bundle
    BY <2>1 DEF Reserve, Bundle
  <2>3. /\ Reserve(counted.b, m.size).frames = frames
        /\ Reserve(counted.b, m.size).targets = s.b.targets
        /\ Reserve(counted.b, m.size).total = s.b.total + m.size
    BY <1>1, <1>3, <2>1 DEF Reserve, Bundle
  <2> QED BY <1>3, <1>6, <2>2, <2>3 DEF Captures, Fits
<1>7. ASSUME s.err = NULL, m.target, Fits(s.b, m.size)
      PROVE  /\ written \in Captures /\ Files(written.d) /\ written.b = reserved.b
             /\ written.err \in {NULL, "OSError"}
             /\ written.err = NULL => Bytes(written.d) = reserved.b.total
             /\ Bytes(written.d) <= reserved.b.total
  <2> HIDE DEF counted, path
  <2>1. /\ reserved \in Captures /\ Files(reserved.d) /\ reserved.err = NULL
        /\ reserved.d = s.d /\ reserved.b.total = s.b.total + m.size
    BY <1>1, <1>6, <1>7
  <2> HIDE DEF reserved
  <2>2. /\ written \in Captures /\ Files(written.d) /\ written.b = reserved.b
        /\ written.err \in {NULL, "OSError"}
        /\ written.err = NULL => Bytes(written.d) = Bytes(reserved.d) + m.size
        /\ written.err # NULL => written.d = reserved.d
    BY <1>2, <2>1, WriteEffect
  <2> HIDE DEF written
  <2> QED BY <1>1, <1>2, <1>7, <2>1, <2>2
<1> HIDE DEF counted, reserved, path, written
<1>8. ASSUME s.err = NULL, m.target, Fits(s.b, m.size)
      PROVE  written \in Capturing(frames, fs)
  BY <1>1, <1>6, <1>7, <1>8 DEF Capturing
<1>9. ASSUME s.err = NULL, m.target, Fits(s.b, m.size), written.err = NULL
      PROVE  listed \in Capturing(frames, fs)
  <2> DEFINE t == [path |-> path, content |-> m]
  <2>1. t \in Entry
    BY <1>2 DEF Entry
  <2>2. Names(t, fs)
    BY <1>9 DEF Names, path
  <2> HIDE DEF t
  <2>3. written.b \in Bundle /\ written.b.targets = s.b.targets /\ written.b.frames = frames
    BY <1>6, <1>7, <1>9 DEF Captures
  <2>4. /\ listed \in Captures /\ listed.d = written.d /\ listed.err = NULL
        /\ listed.b.frames = frames /\ listed.b.total = written.b.total
        /\ listed.b.targets = Append(written.b.targets, t)
    <3> DEFINE d == IF m.decodes THEN 1 ELSE 0
               u == IF m.decodes THEN 0 ELSE 1
               nb == [written.b EXCEPT !.targets = Append(@, t), !.decoded = @ + d, !.undecoded = @ + u]
    <3>1. d \in Nat /\ u \in Nat
      OBVIOUS
    <3> HIDE DEF d, u
    <3>0. /\ written.b.targets \in Seq(Entry) /\ written.b.decoded \in Nat
          /\ written.b.undecoded \in Nat
      BY <2>3 DEF Bundle
    <3>4. Append(written.b.targets, t) \in Seq(Entry)
      BY <2>1, <3>0
    <3>5. nb = [written.b EXCEPT !.targets = Append(written.b.targets, t),
                  !.decoded = written.b.decoded + d, !.undecoded = written.b.undecoded + u]
      BY <2>3 DEF Bundle
    <3>2. nb \in Bundle /\ nb.frames = frames /\ nb.total = written.b.total
          /\ nb.targets = Append(written.b.targets, t)
      <4> DEFINE ts == Append(written.b.targets, t)
                 x == written.b.decoded + d
                 y == written.b.undecoded + u
      <4>1. ts \in Seq(Entry) /\ x \in Nat /\ y \in Nat
        BY <3>0, <3>1, <3>4
      <4> HIDE DEF ts, x, y
      <4>2. nb = [written.b EXCEPT !.targets = ts, !.decoded = x, !.undecoded = y]
        BY <3>5 DEF ts, x, y
      <4> HIDE DEF nb
      <4>3. /\ nb \in Bundle /\ nb.frames = frames /\ nb.total = written.b.total
            /\ nb.targets = ts
        BY <2>3, <4>1, <4>2 DEF Bundle
      <4> QED BY <4>3 DEF ts
    <3>3. listed = [written EXCEPT !.b = nb]
      BY <1>7, <1>9, <2>3 DEF Captures, Bundle, t, d, u
    <3> HIDE DEF nb, listed
    <3> QED BY <1>7, <1>9, <3>2, <3>3 DEF Captures
  <2>5. \A i \in DOMAIN listed.b.targets : Names(listed.b.targets[i], fs)
    <3> HIDE DEF listed
    <3>1. written.b.targets \in Seq(Entry) /\ \A i \in DOMAIN written.b.targets : Names(written.b.targets[i], fs)
      BY <1>1, <2>3 DEF Bundle
    <3> QED BY <2>1, <2>2, <2>4, <3>1
  <2> HIDE DEF listed
  <2> QED BY <1>6, <1>7, <1>9, <2>4, <2>5 DEF Capturing
<1> HIDE DEF listed
<1>10. Message(s, m, sequence, index, bad) =
         IF s.err # NULL THEN s ELSE IF ~m.target THEN counted
         ELSE IF ~Fits(s.b, m.size) THEN [counted EXCEPT !.err = "EvidenceError"]
         ELSE IF written.err # NULL THEN written ELSE listed
  BY DEF Message, counted, reserved, path, written, listed
<1> QED BY <1>4, <1>5, <1>8, <1>9, <1>10

ContentsOf(entries) == [i \in DOMAIN entries |-> entries[i].content]

\* The next record says what the next frame is.
LEMMA OneMoreRecord ==
  ASSUME NEW entries \in Seq(Entry), NEW fs \in Seq(Frames), ContentsOf(entries) = fs,
         NEW t \in Entry
  PROVE  ContentsOf(Append(entries, t)) = Append(fs, t.content)
<1> DEFINE more == Append(entries, t)
           n == Len(entries)
<1>1. /\ n \in Nat /\ DOMAIN entries = 1 .. n /\ DOMAIN more = 1 .. n + 1
      /\ more[n + 1] = t /\ \A i \in 1 .. n : more[i] = entries[i]
  OBVIOUS
<1>2. Len(fs) = n /\ \A i \in 1 .. n : fs[i] = entries[i].content
  BY <1>1, LenProperties DEF ContentsOf
<1>3. /\ Append(fs, t.content) = [i \in 1 .. n + 1 |-> IF i = n + 1 THEN t.content ELSE fs[i]]
  BY <1>2
<1> HIDE DEF more
<1>4. ContentsOf(more) = [i \in 1 .. n + 1 |-> more[i].content]
  BY <1>1 DEF ContentsOf
<1>5. \A i \in 1 .. n + 1 : more[i].content = IF i = n + 1 THEN t.content ELSE fs[i]
  BY <1>1, <1>2
<1> QED BY <1>3, <1>4, <1>5 DEF more

\* A frame is recorded whole, or the capture ends; what is counted covers what is
\* on disk either way (capture_binary_frame).
LEMMA CaptureEffect ==
  ASSUME NEW b \in Bundle, NEW d, Files(d), b.total <= MaxTotalBytes, Bytes(d) = b.total,
         NEW fs \in Seq(Frames), ContentsOf(b.frames) = fs,
         \A i \in DOMAIN b.targets : Names(b.targets[i], fs),
         NEW f \in Frames, NEW bad, NEW s, s = capture_binary_frame(b, d, f, bad)
  PROVE  LET all == Append(fs, f)
         IN /\ s.b \in Bundle /\ Files(s.d) /\ s.b.total <= MaxTotalBytes
            /\ Bytes(s.d) <= s.b.total /\ (s.err = NULL => Bytes(s.d) = s.b.total)
            /\ \A i \in DOMAIN s.b.targets : Names(s.b.targets[i], all)
            /\ s.err \in {NULL, "EvidenceError", "OSError", "EOFError"}
            /\ ContentsOf(s.b.frames) = IF s.err = NULL THEN all ELSE fs
<1> DEFINE all == Append(fs, f)
           sequence == Len(b.frames) + 1
           path == <<"frames", sequence, 0>>
           begun == Start(Reserve(b, f.size), d)
           written == Write(begun, path, f, bad)
           parsed == Messages(written, f, sequence, bad)
           done == CASE f.body = "sound" -> parsed
                     [] f.body = "malformed" -> written
                     [] f.body = "corrupt" -> [written EXCEPT !.err = "EOFError"]
<1>1. /\ f \in CapturedFrame /\ f.size \in Nat /\ f.body \in Bodies
      /\ f.messages \in Seq(CapturedMessage) /\ f \in Contents
  BY FramesAssumption DEF CapturedFrame, Contents
<1>2. /\ b.frames \in Seq(Entry) /\ b.total \in Nat /\ Bytes(d) \in Nat
      /\ sequence \in Nat /\ path \in Paths /\ sequence = Len(all) /\ sequence \in DOMAIN all
      /\ all[sequence] = f /\ all \in Seq(Frames)
  <2>1. b.frames \in Seq(Entry) /\ b.total \in Nat
    BY DEF Bundle
  <2>2. Len(fs) = Len(b.frames)
    BY <2>1, LenProperties DEF ContentsOf
  <2> QED BY <2>1, <2>2 DEF Paths
<1>3. \A t : Names(t, fs) => Names(t, all)
  <2>1. \A k \in DOMAIN fs : k \in DOMAIN all /\ all[k] = fs[k]
    OBVIOUS
  <2> QED BY <2>1 DEF Names
<1>4. CASE Len(b.frames) >= MaxFrames \/ ~Fits(b, f.size)
  <2>1. s = [Start(b, d) EXCEPT !.err = "EvidenceError"]
    BY <1>4 DEF capture_binary_frame
  <2>2. s.b = b /\ s.d = d /\ s.err = "EvidenceError"
    BY <2>1 DEF Start
  <2> QED BY <1>2, <1>3, <2>2, EvidenceAssumption
<1>5. CASE ~(Len(b.frames) >= MaxFrames \/ ~Fits(b, f.size))
  <2>1. s = IF written.err # NULL THEN written ELSE IF done.err # NULL THEN done
            ELSE Recorded(done, path, f)
    BY <1>5 DEF capture_binary_frame
  <2>2. /\ begun \in Captures /\ begun.d = d /\ begun.err = NULL
        /\ begun.b.frames = b.frames /\ begun.b.targets = b.targets
        /\ begun.b.total = b.total + f.size /\ begun.b.total <= MaxTotalBytes
    <3> DEFINE x == b.total + f.size
               nb == [b EXCEPT !.total = x]
    <3>1. x \in Nat /\ x <= MaxTotalBytes
      BY <1>1, <1>2, <1>5 DEF Fits
    <3>2. /\ nb \in Bundle /\ nb.frames = b.frames /\ nb.targets = b.targets /\ nb.total = x
      <4> HIDE DEF x
      <4> QED BY <3>1 DEF Bundle
    <3>3. begun = [b |-> nb, d |-> d, err |-> NULL, n |-> 0]
      BY DEF Start, Reserve, Bundle
    <3> HIDE DEF nb, begun
    <3> QED BY <3>1, <3>2, <3>3 DEF Captures, Files
  <2> HIDE DEF begun, path
  <2>3. /\ written \in Captures /\ Files(written.d) /\ written.b = begun.b
        /\ written.err \in {NULL, "OSError"}
        /\ written.err = NULL => Bytes(written.d) = b.total + f.size
        /\ written.err # NULL => written.d = d
    BY <1>1, <1>2, <2>2, WriteEffect
  <2> HIDE DEF written
  <2>4. written \in Capturing(b.frames, all)
    BY <1>1, <1>2, <1>3, <2>2, <2>3 DEF Capturing
  <2>5. parsed \in Capturing(b.frames, all)
    <3>1. ASSUME NEW i \in 1 .. Len(f.messages), NEW r \in Capturing(b.frames, all)
          PROVE  Message(r, f.messages[i], sequence, i, bad) \in Capturing(b.frames, all)
      <4>1. i \in Nat /\ i \in DOMAIN f.messages /\ f.messages[i] \in CapturedMessage
        BY <1>1
      <4> HIDE DEF all, sequence
      <4> QED BY <1>2, <4>1, MessageKeeps
    <3> HIDE DEF all, sequence
    <3> QED BY <1>1, <2>4, <3>1, MessagesKeep
  <2> HIDE DEF parsed
  <2>6. done \in Capturing(b.frames, all)
    <3>1. CASE f.body = "sound"
      BY <2>5, <3>1
    <3>2. CASE f.body = "malformed"
      BY <2>4, <3>2
    <3>3. CASE f.body = "corrupt"
      <4> DEFINE r == [written EXCEPT !.err = "EOFError"]
      <4>1. /\ r \in Captures /\ r.d = written.d /\ r.b = written.b /\ r.err = "EOFError"
        BY <2>3 DEF Captures
      <4> HIDE DEF r
      <4>2. r \in Capturing(b.frames, all)
        BY <2>4, <4>1, EvidenceAssumption DEF Capturing
      <4>3. done = r
        BY <3>3 DEF r
      <4> QED BY <4>2, <4>3
    <3> QED BY <1>1, <3>1, <3>2, <3>3 DEF Bodies
  <2> HIDE DEF done
  <2>7. ASSUME s = written \/ s = done, s.err # NULL
        PROVE  /\ s \in Capturing(b.frames, all)
               /\ ContentsOf(s.b.frames) = IF s.err = NULL THEN all ELSE fs
    BY <2>4, <2>6, <2>7 DEF Capturing
  <2>8. ASSUME s = Recorded(done, path, f), done.err = NULL
        PROVE  /\ s.b \in Bundle /\ s.d = done.d /\ s.err = NULL /\ s.b.total = done.b.total
               /\ s.b.targets = done.b.targets /\ ContentsOf(s.b.frames) = all
    <3> DEFINE t == [path |-> path, content |-> f]
               more == Append(b.frames, t)
               x == done.b.unparsed + (IF f.body = "sound" THEN 0 ELSE 1)
               nb == [done.b EXCEPT !.frames = more, !.unparsed = x]
    <3>1. t \in Entry /\ t.content = f
      BY <1>1, <1>2 DEF Entry
    <3>2. done \in Captures /\ done.b \in Bundle /\ done.b.frames = b.frames
      BY <2>6 DEF Capturing, Captures
    <3>3. x \in Nat
      BY <3>2 DEF Bundle
    <3> HIDE DEF x, t
    <3>4. more \in Seq(Entry)
      BY <1>2, <3>1
    <3>5. ContentsOf(more) = all
      BY <1>2, <3>1, OneMoreRecord
    <3> HIDE DEF more
    <3>6. /\ nb \in Bundle /\ nb.frames = more /\ nb.total = done.b.total
          /\ nb.targets = done.b.targets
      BY <3>2, <3>3, <3>4 DEF Bundle
    <3>7. s = [done EXCEPT !.b = nb]
      BY <2>8, <3>2 DEF Recorded, Captures, Bundle, more, t, x
    <3> HIDE DEF nb
    <3> QED BY <2>8, <3>2, <3>5, <3>6, <3>7 DEF Captures
  <2>9. CASE s = Recorded(done, path, f) /\ done.err = NULL
    BY <2>6, <2>8, <2>9 DEF Capturing
  <2>10. CASE (s = written \/ s = done) /\ s.err # NULL
    <3>1. /\ s \in Capturing(b.frames, all)
          /\ ContentsOf(s.b.frames) = IF s.err = NULL THEN all ELSE fs
      BY <2>7, <2>10
    <3> QED BY <3>1 DEF Capturing, Captures
  <2> QED BY <2>1, <2>9, <2>10
<1> QED BY <1>4, <1>5

-----------------------------------------------------------------------------
(* What waits in the queue. *)

\* Awaited and Waiting of any events, for any sockets that are accepted.
AwaitedIn(events, sockets, i) ==
  /\ events[i].kind = "frame"
  /\ \/ events[i].request \in sockets
     \/ \E j \in 1 .. i - 1 : /\ events[j].kind = "created" /\ events[j].request = events[i].request
                              /\ sanitize_websocket_url(events[j].request)
Collects(g, events, sockets) ==
  g = [k \in 0 .. Len(events) |->
         IF k = 0 THEN <<>>
         ELSE IF AwaitedIn(events, sockets, k) THEN Append(g[k - 1], events[k].frame) ELSE g[k - 1]]
Collected(events, sockets) == CHOOSE g : Collects(g, events, sockets)
WaitingIn(events, sockets) == Collected(events, sockets)[Len(events)]

\* Waiting is what is so collected from the queue.
LEMMA WaitingIs ==
  /\ Waiting = WaitingIn(queue, accepted)
  /\ Waiting' = WaitingIn(queue', accepted')
<1>1. Waiting = WaitingIn(queue, accepted)
  BY DEF Waiting, WaitingIn, Collected, Collects, Awaited, AwaitedIn
<1>2. Waiting' = WaitingIn(queue', accepted')
  BY DEF Waiting, WaitingIn, Collected, Collects, Awaited, AwaitedIn
<1> QED BY <1>1, <1>2

\* Such a function exists: the frames that wait are defined.
LEMMA CollectedDefined ==
  ASSUME NEW events, Len(events) \in Nat, NEW sockets
  PROVE  Collects(Collected(events, sockets), events, sockets)
<1> DEFINE Step(s, i) == IF AwaitedIn(events, sockets, i) THEN Append(s, events[i].frame) ELSE s
           Good(k, g) == g = [i \in 0 .. k |-> IF i = 0 THEN <<>> ELSE Step(g[i - 1], i)]
           Upto == {k \in Nat : \E g : Good(k, g)}
<1> HIDE DEF Step
<1>1. 0 \in Upto
  <2>1. Good(0, [i \in 0 .. 0 |-> <<>>])
    OBVIOUS
  <2> QED BY <2>1
<1>2. ASSUME NEW k \in Nat, k \in Upto PROVE k + 1 \in Upto
  <2>1. PICK g : Good(k, g)
    BY <1>2
  <2> DEFINE h == [i \in 0 .. k + 1 |-> IF i = k + 1 THEN Step(g[k], k + 1) ELSE g[i]]
  <2>2. Good(k + 1, h)
    <3>1. \A i \in 0 .. k : g[i] = IF i = 0 THEN <<>> ELSE Step(g[i - 1], i)
      BY <2>1
    <3>2. ASSUME NEW i \in 0 .. k + 1 PROVE h[i] = IF i = 0 THEN <<>> ELSE Step(h[i - 1], i)
      <4>1. CASE i = k + 1
        <5>1. k \in 0 .. k + 1 /\ k # k + 1 /\ i - 1 = k /\ i # 0
          BY <4>1
        <5>2. h[k] = g[k]
          BY <5>1
        <5> QED BY <4>1, <5>1, <5>2
      <4>2. CASE i \in 0 .. k
        BY <3>1, <4>2
      <4> QED BY <4>1, <4>2
    <3>3. h = [i \in 0 .. k + 1 |-> h[i]]
      OBVIOUS
    <3> HIDE DEF h
    <3> QED BY <3>2, <3>3
  <2> HIDE DEF Good
  <2> QED BY <2>2
<1> HIDE DEF Upto
<1>3. Len(events) \in Upto
  BY <1>1, <1>2, NatSetInduction
<1>4. \E g : Good(Len(events), g)
  BY <1>3 DEF Upto
<1>5. \E g : Collects(g, events, sockets)
  BY <1>4 DEF Step, Collects
<1> QED BY <1>5 DEF Collected

\* One event after the other: each is awaited, and its frame comes last, or not.
LEMMA CollectedSteps ==
  ASSUME NEW events \in Seq(Events), NEW sockets
  PROVE  LET g == Collected(events, sockets)
         IN /\ g[0] = <<>>
            /\ \A k \in 1 .. Len(events) :
                  g[k] = IF AwaitedIn(events, sockets, k) THEN Append(g[k - 1], events[k].frame) ELSE g[k - 1]
            /\ \A k \in 0 .. Len(events) : g[k] \in Seq(Frames)
<1> DEFINE g == Collected(events, sockets)
           n == Len(events)
           Kept == {k \in Nat : k <= n => g[k] \in Seq(Frames)}
<1>1. n \in Nat
  OBVIOUS
<1>2. Collects(g, events, sockets)
  BY <1>1, CollectedDefined
<1> HIDE DEF g
<1>3. g = [k \in 0 .. n |->
             IF k = 0 THEN <<>>
             ELSE IF AwaitedIn(events, sockets, k) THEN Append(g[k - 1], events[k].frame) ELSE g[k - 1]]
  BY <1>2 DEF Collects
<1>4. g[0] = <<>>
  BY <1>1, <1>3
<1>5. ASSUME NEW k \in 1 .. n
      PROVE  g[k] = IF AwaitedIn(events, sockets, k) THEN Append(g[k - 1], events[k].frame) ELSE g[k - 1]
  <2>1. k \in 0 .. n /\ k # 0
    BY <1>1
  <2> QED BY <1>3, <2>1
<1>6. 0 \in Kept
  <2>1. g[0] \in Seq(Frames)
    BY <1>4
  <2> QED BY <2>1
<1>7. ASSUME NEW k \in Nat, k \in Kept PROVE k + 1 \in Kept
  <2> SUFFICES ASSUME k + 1 <= n PROVE g[k + 1] \in Seq(Frames)
    OBVIOUS
  <2>1. k + 1 \in 1 .. n /\ (k + 1) - 1 = k /\ g[k] \in Seq(Frames)
    BY <1>1, <1>7
  <2>2. AwaitedIn(events, sockets, k + 1) => events[k + 1].frame \in Frames
    <3>1. events[k + 1] \in Events
      BY <2>1
    <3> QED BY <3>1 DEF AwaitedIn, Events
  <2>3. g[k + 1] = IF AwaitedIn(events, sockets, k + 1) THEN Append(g[k], events[k + 1].frame) ELSE g[k]
    BY <1>5, <2>1
  <2> QED BY <2>1, <2>2, <2>3
<1> HIDE DEF Kept
<1>8. \A k \in Nat : k \in Kept
  BY <1>6, <1>7, NatSetInduction
<1>9. \A k \in 0 .. n : g[k] \in Seq(Frames)
  BY <1>1, <1>8 DEF Kept
<1> QED BY <1>4, <1>5, <1>9 DEF g

\* What waits is frames.
LEMMA WaitingType ==
  ASSUME NEW events \in Seq(Events), NEW sockets
  PROVE  WaitingIn(events, sockets) \in Seq(Frames)
<1>1. Len(events) \in 0 .. Len(events)
  OBVIOUS
<1> QED BY <1>1, CollectedSteps DEF WaitingIn

\* An event that arrives adds its frame, if that is awaited.
LEMMA WaitingGrows ==
  ASSUME NEW events \in Seq(Events), NEW e \in Events, NEW sockets
  PROVE  LET more == Append(events, e)
         IN /\ WaitingIn(events, sockets) \in Seq(Frames)
            /\ WaitingIn(more, sockets) =
                  IF AwaitedIn(more, sockets, Len(more))
                  THEN Append(WaitingIn(events, sockets), e.frame) ELSE WaitingIn(events, sockets)
<1> DEFINE more == Append(events, e)
           n == Len(events)
           g == Collected(events, sockets)
           h == Collected(more, sockets)
           Same == {k \in Nat : k <= n => h[k] = g[k]}
<1>1. /\ n \in Nat /\ more \in Seq(Events) /\ Len(more) = n + 1 /\ more[n + 1] = e
      /\ \A i \in 1 .. n : more[i] = events[i]
  OBVIOUS
<1>2. /\ g[0] = <<>> /\ \A k \in 0 .. n : g[k] \in Seq(Frames)
      /\ \A k \in 1 .. n :
            g[k] = IF AwaitedIn(events, sockets, k) THEN Append(g[k - 1], events[k].frame) ELSE g[k - 1]
  BY CollectedSteps
<1> HIDE DEF more
<1>3. /\ h[0] = <<>>
      /\ \A k \in 1 .. n + 1 :
            h[k] = IF AwaitedIn(more, sockets, k) THEN Append(h[k - 1], more[k].frame) ELSE h[k - 1]
  BY <1>1, CollectedSteps
<1>4. \A k \in 1 .. n : AwaitedIn(more, sockets, k) <=> AwaitedIn(events, sockets, k)
  BY <1>1 DEF AwaitedIn
<1> HIDE DEF g, h
<1>5. 0 \in Same
  BY <1>2, <1>3
<1>6. ASSUME NEW k \in Nat, k \in Same PROVE k + 1 \in Same
  <2> SUFFICES ASSUME k + 1 <= n PROVE h[k + 1] = g[k + 1]
    OBVIOUS
  <2>1. k + 1 \in 1 .. n /\ k + 1 \in 1 .. n + 1 /\ (k + 1) - 1 = k /\ h[k] = g[k]
    BY <1>1, <1>6
  <2>2. more[k + 1] = events[k + 1] /\ (AwaitedIn(more, sockets, k + 1) <=> AwaitedIn(events, sockets, k + 1))
    BY <1>1, <1>4, <2>1
  <2>3. h[k + 1] = IF AwaitedIn(more, sockets, k + 1) THEN Append(h[k], more[k + 1].frame) ELSE h[k]
    BY <1>3, <2>1
  <2>4. g[k + 1] = IF AwaitedIn(events, sockets, k + 1) THEN Append(g[k], events[k + 1].frame) ELSE g[k]
    BY <1>2, <2>1
  <2> QED BY <2>1, <2>2, <2>3, <2>4
<1> HIDE DEF Same
<1>7. n \in Same
  BY <1>1, <1>5, <1>6, NatSetInduction
<1>8. h[n] = g[n]
  BY <1>1, <1>7 DEF Same
<1>9. h[n + 1] = IF AwaitedIn(more, sockets, n + 1) THEN Append(h[n], e.frame) ELSE h[n]
  <2>1. n + 1 \in 1 .. n + 1 /\ (n + 1) - 1 = n
    BY <1>1
  <2> QED BY <1>1, <1>3, <2>1
<1>10. g[n] \in Seq(Frames)
  BY <1>1, <1>2
<1> QED BY <1>1, <1>8, <1>9, <1>10 DEF WaitingIn, g, h, more

\* What is appended to a concatenation is appended to its second part.
LEMMA AppendsLast ==
  ASSUME NEW s \in Seq(Frames), NEW t \in Seq(Frames), NEW x \in Frames
  PROVE  Append(s \o t, x) = s \o Append(t, x)
<1>1. s \o t \in Seq(Frames) /\ <<x>> \in Seq(Frames)
  BY ConcatProperties
<1>2. Append(s \o t, x) = (s \o t) \o <<x>> /\ Append(t, x) = t \o <<x>>
  BY <1>1, AppendIsConcat
<1> QED BY <1>1, <1>2, ConcatAssociative

\* When the first event is taken its frame, if that was awaited, comes first.
LEMMA WaitingShrinks ==
  ASSUME NEW events \in Seq(Events), events # <<>>, NEW sockets, NEW later,
         \A i \in 1 .. Len(events) - 1 : AwaitedIn(Tail(events), later, i) <=> AwaitedIn(events, sockets, i + 1)
  PROVE  /\ WaitingIn(Tail(events), later) \in Seq(Frames)
         /\ WaitingIn(events, sockets) =
              (IF AwaitedIn(events, sockets, 1) THEN <<Head(events).frame>> ELSE <<>>)
                 \o WaitingIn(Tail(events), later)
<1> DEFINE rest == Tail(events)
           n == Len(rest)
           one == IF AwaitedIn(events, sockets, 1) THEN <<Head(events).frame>> ELSE <<>>
           g == Collected(events, sockets)
           h == Collected(rest, later)
           Shifted == {k \in Nat : k <= n => g[k + 1] = one \o h[k]}
<1>1. /\ n \in Nat /\ rest \in Seq(Events) /\ Len(events) = n + 1 /\ events[1] = Head(events)
      /\ \A i \in 1 .. n : rest[i] = events[i + 1]
  OBVIOUS
<1>2. /\ g[0] = <<>>
      /\ \A k \in 1 .. n + 1 :
            g[k] = IF AwaitedIn(events, sockets, k) THEN Append(g[k - 1], events[k].frame) ELSE g[k - 1]
  BY <1>1, CollectedSteps
<1>3. \A i \in 1 .. n : AwaitedIn(rest, later, i) <=> AwaitedIn(events, sockets, i + 1)
  BY <1>1
<1> HIDE DEF rest
<1>4. /\ h[0] = <<>> /\ \A k \in 0 .. n : h[k] \in Seq(Frames)
      /\ \A k \in 1 .. n :
            h[k] = IF AwaitedIn(rest, later, k) THEN Append(h[k - 1], rest[k].frame) ELSE h[k - 1]
  BY <1>1, CollectedSteps
<1>5. \A k \in 1 .. n + 1 : AwaitedIn(events, sockets, k) => events[k].frame \in Frames
  <2>1. \A k \in 1 .. n + 1 : events[k] \in Events
    BY <1>1
  <2> QED BY <2>1 DEF AwaitedIn, Events
<1>6. one \in Seq(Frames)
  <2>1. 1 \in 1 .. n + 1
    BY <1>1
  <2> QED BY <1>1, <1>5, <2>1
<1> HIDE DEF g, h
<1>7. 0 \in Shifted
  <2>1. 1 \in 1 .. n + 1 /\ 1 - 1 = 0
    BY <1>1
  <2>2. g[1] = IF AwaitedIn(events, sockets, 1) THEN Append(<<>>, events[1].frame) ELSE <<>>
    BY <1>2, <2>1
  <2>3. g[1] = one
    BY <1>1, <2>2
  <2> HIDE DEF one
  <2>4. one \o <<>> = one
    BY <1>6
  <2>5. g[0 + 1] = one \o h[0]
    BY <1>4, <2>3, <2>4
  <2> QED BY <2>5
<1> HIDE DEF one
<1>8. ASSUME NEW k \in Nat, k \in Shifted PROVE k + 1 \in Shifted
  <2> SUFFICES ASSUME k + 1 <= n PROVE g[k + 2] = one \o h[k + 1]
    OBVIOUS
  <2>1. /\ k + 1 \in 1 .. n /\ k + 2 \in 1 .. n + 1 /\ (k + 1) - 1 = k /\ (k + 2) - 1 = k + 1
        /\ (k + 1) + 1 = k + 2 /\ k \in 0 .. n /\ g[k + 1] = one \o h[k]
    BY <1>1, <1>8
  <2>2. rest[k + 1] = events[k + 2] /\ (AwaitedIn(rest, later, k + 1) <=> AwaitedIn(events, sockets, k + 2))
    BY <1>1, <1>3, <2>1
  <2>3. h[k + 1] = IF AwaitedIn(rest, later, k + 1) THEN Append(h[k], rest[k + 1].frame) ELSE h[k]
    BY <1>4, <2>1
  <2>4. g[k + 2] = IF AwaitedIn(events, sockets, k + 2) THEN Append(g[k + 1], events[k + 2].frame) ELSE g[k + 1]
    BY <1>2, <2>1
  <2>5. h[k] \in Seq(Frames)
    BY <1>4, <2>1
  <2>6. AwaitedIn(events, sockets, k + 2) => events[k + 2].frame \in Frames
    BY <1>5, <2>1
  <2>7. \A x \in Frames : Append(one \o h[k], x) = one \o Append(h[k], x)
    BY <1>6, <2>5, AppendsLast
  <2> QED BY <2>1, <2>2, <2>3, <2>4, <2>6, <2>7
<1> HIDE DEF Shifted
<1>9. n \in Shifted
  BY <1>1, <1>7, <1>8, NatSetInduction
<1>10. g[n + 1] = one \o h[n]
  BY <1>1, <1>9 DEF Shifted
<1>11. h[n] \in Seq(Frames)
  BY <1>1, <1>4
<1> QED BY <1>1, <1>10, <1>11 DEF WaitingIn, g, h, one, rest

-----------------------------------------------------------------------------
(* The capture. *)

\* What a fixture says was captured, and what a capture keeps at every stage.
Supported(f) ==
  \A e \in f.events :
    /\ e.path[2] \in DOMAIN seen /\ e.path[3] \in DOMAIN seen[e.path[2]].messages
    /\ e.content = seen[e.path[2]].messages[e.path[3]] /\ e.content.target /\ e.content.decodes

\* What has arrived is what is recorded and what waits, and one frame more if the
\* queue was full.
InStep ==
  /\ ContentsOf(bundle.frames) \in Seq(Frames)
  /\ \E refused \in Refused : seen = ContentsOf(bundle.frames) \o Waiting \o refused
CaptureInv ==
  /\ phase \in {"connect", "run", "finalize", "closed", "crashed"}
  /\ queue \in Seq(Events) /\ bundle \in Bundle /\ Files(disk)
  /\ BundleIsAccounted /\ FramesAreRecorded
  /\ phase \in {"connect", "run"} =>
        /\ Bytes(disk) = bundle.total /\ InStep
        /\ \A i \in DOMAIN bundle.targets : Names(bundle.targets[i], ContentsOf(bundle.frames))
  /\ \A i \in DOMAIN bundle.targets : Names(bundle.targets[i], seen)
  /\ manifest = NULL \/ manifest.targets = bundle.targets
  /\ phase # "closed" => manifest = NULL /\ fixture = NULL
  /\ fixture = NULL \/ Supported(fixture)

\* At most one frame: none, or one if there may be one.
LEMMA AtMostOne ==
  /\ SeqOf(Frames, 0) = {<<>>}
  /\ \A n \in {0, 1} : <<>> \in SeqOf(Frames, n) /\ SeqOf(Frames, n) \subseteq Seq(Frames)
  /\ \A f \in Frames : <<f>> \in SeqOf(Frames, 1)
<1>1. \A n \in {0, 1} : SeqOf(Frames, n) = UNION {[1 .. m -> Frames] : m \in 0 .. n}
  BY DEF SeqOf
<1>2. \A s \in [1 .. 0 -> Frames] : s = <<>>
  OBVIOUS
<1>3. <<>> \in [1 .. 0 -> Frames]
  OBVIOUS
<1>4. SeqOf(Frames, 0) = {<<>>}
  <2>1. \A m \in 0 .. 0 : m = 0
    OBVIOUS
  <2>2. \A s : s \in SeqOf(Frames, 0) <=> \E m \in 0 .. 0 : s \in [1 .. m -> Frames]
    BY DEF SeqOf
  <2>3. 0 \in 0 .. 0
    OBVIOUS
  <2>4. \A s : s \in SeqOf(Frames, 0) <=> s \in [1 .. 0 -> Frames]
    BY <2>1, <2>2, <2>3, Zenon
  <2> QED BY <1>2, <1>3, <2>4, Zenon
<1>5. \A n \in {0, 1} : <<>> \in SeqOf(Frames, n)
  <2>1. \A n \in {0, 1} : 0 \in 0 .. n
    OBVIOUS
  <2> QED BY <1>1, <1>3, <2>1
<1>6. \A n \in {0, 1} : SeqOf(Frames, n) \subseteq Seq(Frames)
  <2>1. \A n \in {0, 1} : \A m \in 0 .. n : m \in Nat
    OBVIOUS
  <2>2. \A m \in Nat : [1 .. m -> Frames] \subseteq Seq(Frames)
    OBVIOUS
  <2>3. ASSUME NEW n \in {0, 1}, NEW s \in SeqOf(Frames, n) PROVE s \in Seq(Frames)
    <3>1. PICK m \in 0 .. n : s \in [1 .. m -> Frames]
      BY <2>3 DEF SeqOf
    <3> QED BY <2>1, <2>2, <3>1
  <2> QED BY <2>3
<1>7. ASSUME NEW f \in Frames PROVE <<f>> \in SeqOf(Frames, 1)
  <2>1. <<f>> \in [1 .. 1 -> Frames] /\ 1 \in 0 .. 1
    OBVIOUS
  <2> QED BY <1>1, <2>1
<1> QED BY <1>4, <1>5, <1>6, <1>7

\* Of these are the frame that failed and the one that was refused.
LEMMA Missing ==
  /\ <<>> \in Failed /\ Failed \subseteq Seq(Frames)
  /\ <<>> \in Refused /\ Refused \subseteq Seq(Frames)
  /\ <<>> \in Failed' /\ Refused' \subseteq Seq(Frames) /\ <<>> \in Refused'
BY AtMostOne DEF Failed, Refused

\* What names a message of some frames names it when more frames follow.
LEMMA NamesOn ==
  ASSUME NEW fs \in Seq(Frames), NEW more \in Seq(Frames), NEW t, Names(t, fs)
  PROVE  Names(t, fs \o more)
<1>1. \A k \in DOMAIN fs : k \in DOMAIN (fs \o more) /\ (fs \o more)[k] = fs[k]
  BY ConcatProperties
<1> QED BY <1>1 DEF Names

\* The parts of what arrived: all of it is frames, and what names a message of the
\* first part names one of the whole.
LEMMA PartsOf ==
  ASSUME NEW recorded \in Seq(Frames), NEW waits \in Seq(Frames), NEW refused \in Seq(Frames)
  PROVE  /\ recorded \o waits \o refused = recorded \o <<>> \o waits \o refused
         /\ \A t : Names(t, recorded) => Names(t, recorded \o waits \o refused)
<1>1. recorded \o <<>> = recorded /\ waits \o refused \in Seq(Frames)
  BY ConcatEmptySeq, ConcatProperties
<1>2. recorded \o waits \o refused = recorded \o (waits \o refused)
  BY ConcatAssociative
<1> QED BY <1>1, <1>2, NamesOn

\* Nothing is captured, counted or written at first.
LEMMA CaptureStarts == Init => CaptureInv
<1> SUFFICES ASSUME Init PROVE CaptureInv
  OBVIOUS
<1>1. /\ bundle = Empty /\ disk = <<>> /\ seen = <<>> /\ queue = <<>> /\ phase = "connect"
      /\ manifest = NULL /\ fixture = NULL
  BY DEF Init
<1>2. bundle \in Bundle /\ bundle.total = 0 /\ bundle.frames = <<>> /\ bundle.targets = <<>>
  BY <1>1 DEF Empty, Bundle
<1>3. DOMAIN disk = {}
  BY <1>1
<1>4. Files(disk)
  <2>1. disk \in [{} -> Contents]
    BY <1>1
  <2>2. disk \in Disks
    BY <2>1 DEF Disks
  <2> QED BY <1>3, <2>2, FS_EmptySet DEF Files
<1>5. Bytes(disk) = 0
  <2> DEFINE f == [p \in DOMAIN disk |-> disk[p].size]
  <2>1. DOMAIN f = {}
    BY <1>3
  <2> HIDE DEF f
  <2>2. SumFunctionOnSet(f, {}) = 0
    BY SumStep, FS_EmptySet
  <2> QED BY <2>1, <2>2 DEF Bytes, SumFunction, f
<1>6. ContentsOf(bundle.frames) = <<>>
  BY <1>2 DEF ContentsOf
<1>7. Waiting = <<>>
  <2>1. queue \in Seq(Events) /\ Len(queue) = 0
    BY <1>1
  <2>2. WaitingIn(queue, accepted) = <<>>
    BY <2>1, CollectedSteps DEF WaitingIn
  <2> QED BY <2>2, WaitingIs
<1>8. InStep
  BY <1>1, <1>6, <1>7, Missing DEF InStep
<1>9. FramesAreRecorded
  <2>1. seen = ContentsOf(bundle.frames) \o <<>> \o Waiting \o <<>>
    BY <1>1, <1>6, <1>7
  <2> QED BY <2>1, Missing DEF FramesAreRecorded, ContentsOf
<1> QED BY <1>1, <1>2, <1>4, <1>5, <1>8, <1>9, EvidenceAssumption DEF CaptureInv, BundleIsAccounted

\* The probe goes on, or stops with its bundle as it is.
LEMMA StageKeeps ==
  ASSUME CaptureInv, phase \in {"connect", "run"}, queue' \in Seq(Events),
         UNCHANGED <<bundle, disk, manifest, fixture>>,
         phase' \in {"connect", "run", "finalize", "crashed"}, InStep'
  PROVE  CaptureInv'
<1>1. bundle' = bundle /\ disk' = disk /\ manifest' = manifest /\ fixture' = fixture
  OBVIOUS
<1>2. /\ bundle \in Bundle /\ Files(disk)
      /\ bundle.total <= MaxTotalBytes /\ Bytes(disk) = bundle.total
      /\ \A i \in DOMAIN bundle.targets : Names(bundle.targets[i], ContentsOf(bundle.frames))
      /\ manifest = NULL /\ fixture = NULL
  BY DEF CaptureInv, BundleIsAccounted
<1>3. BundleIsAccounted'
  <2>1. bundle.total \in Nat
    BY <1>2 DEF Bundle
  <2> QED BY <1>1, <1>2, <2>1 DEF BundleIsAccounted
<1>4. ContentsOf(bundle.frames)' = ContentsOf(bundle.frames) /\ ContentsOf(bundle.frames) \in Seq(Frames)
  BY <1>1 DEF InStep, ContentsOf
<1>5. PICK refused \in Refused' : seen' = ContentsOf(bundle.frames) \o Waiting' \o refused
  BY <1>1, <1>4 DEF InStep
<1>6. Waiting' \in Seq(Frames) /\ refused \in Seq(Frames)
  BY <1>5, WaitingIs, WaitingType, Missing
<1>7. /\ seen' = ContentsOf(bundle.frames) \o <<>> \o Waiting' \o refused
      /\ \A t : Names(t, ContentsOf(bundle.frames)) => Names(t, seen')
  <2> DEFINE recorded == ContentsOf(bundle.frames)
  <2>1. recorded \in Seq(Frames) /\ seen' = recorded \o Waiting' \o refused
    BY <1>4, <1>5
  <2> HIDE DEF recorded
  <2>2. /\ recorded \o Waiting' \o refused = recorded \o <<>> \o Waiting' \o refused
        /\ \A t : Names(t, recorded) => Names(t, recorded \o Waiting' \o refused)
    BY <1>6, <2>1, PartsOf
  <2>3. seen' = recorded \o <<>> \o Waiting' \o refused /\ \A t : Names(t, recorded) => Names(t, seen')
    BY <2>1, <2>2, Zenon
  <2> QED BY <2>3 DEF recorded
<1>8. FramesAreRecorded'
  <2>1. seen' = ContentsOf(bundle'.frames) \o <<>> \o Waiting' \o refused
    BY <1>1, <1>7
  <2> QED BY <1>5, <2>1, Missing DEF FramesAreRecorded, ContentsOf
<1> QED BY <1>1, <1>2, <1>3, <1>4, <1>7, <1>8 DEF CaptureInv

\* Nothing arrives and nothing is taken.
LEMMA IdleKeeps ==
  ASSUME CaptureInv, phase \in {"connect", "run"}, UNCHANGED <<queue, accepted, seen>>,
         UNCHANGED <<bundle, disk, manifest, fixture>>, reader = "failed" => reader' = "failed",
         phase' \in {"connect", "run", "finalize", "crashed"}
  PROVE  CaptureInv'
<1>1. Waiting' = Waiting
  BY WaitingIs
<1>2. queue' \in Seq(Events) /\ InStep
  BY DEF CaptureInv
<1>3. Refused \subseteq Refused'
  BY AtMostOne DEF Refused
<1>4. InStep'
  BY <1>1, <1>2, <1>3 DEF InStep, ContentsOf
<1> QED BY <1>2, <1>4, StageKeeps

\* An event arrives: it waits, or finds the queue full.
LEMMA ArrivalKeeps ==
  ASSUME CaptureInv, event_arrives
  PROVE  CaptureInv'
<1>1. PICK e \in Events :
        /\ seen' = IF Awaited(Append(queue, e), Len(Append(queue, e))) THEN Append(seen, e.frame) ELSE seen
        /\ IF Len(queue) = QueueSize THEN reader' = "failed" /\ UNCHANGED queue
           ELSE queue' = Append(queue, e) /\ UNCHANGED reader
  BY DEF event_arrives
<1> DEFINE more == Append(queue, e)
           recorded == ContentsOf(bundle.frames)
           awaits == AwaitedIn(more, accepted, Len(more))
<1>2. /\ phase = "run" /\ reader = "reading" /\ queue \in Seq(Events) /\ InStep
      /\ UNCHANGED <<phase, accepted, bundle, disk, manifest, fixture>>
  BY DEF event_arrives, outputs, CaptureInv
<1>3. more \in Seq(Events) /\ Len(more) = Len(queue) + 1 /\ more[Len(more)] = e
  BY <1>2
<1>4. awaits => e.frame \in Frames
  BY <1>3 DEF AwaitedIn, Events
<1>5. seen' = IF awaits THEN Append(seen, e.frame) ELSE seen
  BY <1>1 DEF Awaited, AwaitedIn
<1>6. /\ Waiting = WaitingIn(queue, accepted) /\ Waiting \in Seq(Frames)
      /\ WaitingIn(more, accepted) = IF awaits THEN Append(Waiting, e.frame) ELSE Waiting
  BY <1>2, WaitingIs, WaitingGrows
<1> HIDE DEF more, awaits
<1>7. recorded \in Seq(Frames) /\ seen = recorded \o Waiting
  <2>1. /\ recorded \in Seq(Frames) /\ seen = recorded \o Waiting \o <<>>
    <3>1. Refused = {<<>>}
      BY <1>2, AtMostOne DEF Refused
    <3> QED BY <1>2, <3>1 DEF InStep
  <2>2. recorded \o Waiting \in Seq(Frames)
    BY <1>6, <2>1, ConcatProperties
  <2> QED BY <2>1, <2>2, ConcatEmptySeq
<1>8. recorded' = recorded
  BY <1>2 DEF ContentsOf
<1> HIDE DEF recorded
<1>9. CASE Len(queue) = QueueSize
  <2>1. Waiting' = Waiting /\ reader' = "failed" /\ queue' = queue
    BY <1>1, <1>2, <1>9, WaitingIs
  <2> DEFINE refused == IF awaits THEN <<e.frame>> ELSE <<>>
  <2>2. refused \in Refused'
    BY <1>4, <2>1, AtMostOne DEF Refused
  <2>3. seen' = recorded \o Waiting \o refused
    <3>1. recorded \o Waiting \in Seq(Frames)
      BY <1>6, <1>7, ConcatProperties
    <3> QED BY <1>4, <1>5, <1>7, <3>1, AppendIsConcat, ConcatEmptySeq
  <2> HIDE DEF refused
  <2>4. InStep'
    BY <1>7, <1>8, <2>1, <2>2, <2>3 DEF InStep, recorded
  <2> QED BY <1>2, <2>1, <2>4, StageKeeps
<1>10. CASE Len(queue) # QueueSize
  <2>1. queue' = more /\ Waiting' = WaitingIn(more, accepted)
    BY <1>1, <1>2, <1>10, WaitingIs DEF more
  <2>2. seen' = recorded \o Waiting'
    BY <1>4, <1>5, <1>6, <1>7, <2>1, AppendsLast
  <2>3. Waiting' \in Seq(Frames)
    BY <1>4, <1>6, <2>1
  <2>4. seen' = recorded \o Waiting' \o <<>>
    <3>1. recorded \o Waiting' \in Seq(Frames)
      BY <1>7, <2>3, ConcatProperties
    <3> QED BY <2>2, <3>1, ConcatEmptySeq
  <2>5. InStep'
    BY <1>7, <1>8, <2>4, Missing DEF InStep, recorded
  <2> QED BY <1>2, <1>3, <2>1, <2>5, StageKeeps
<1> QED BY <1>9, <1>10

\* The events behind the first one are awaited as before when that one is gone:
\* if it let a socket be accepted, that has happened.
LEMMA AwaitedBehind ==
  ASSUME NEW events \in Seq(Events), events # <<>>, NEW sockets, NEW later,
         later = IF Head(events).kind = "created" /\ sanitize_websocket_url(Head(events).request)
                 THEN sockets \cup {Head(events).request} ELSE sockets
  PROVE  \A i \in 1 .. Len(events) - 1 :
            AwaitedIn(Tail(events), later, i) <=> AwaitedIn(events, sockets, i + 1)
<1> DEFINE rest == Tail(events)
           n == Len(events) - 1
           Opens(e, r) == e.kind = "created" /\ e.request = r /\ sanitize_websocket_url(e.request)
<1>1. /\ n \in Nat /\ Len(events) = n + 1 /\ events[1] = Head(events)
      /\ \A i \in 1 .. n : rest[i] = events[i + 1]
  OBVIOUS
<1> HIDE DEF rest
<1>2. \A r : r \in later <=> (r \in sockets \/ Opens(events[1], r))
  BY <1>1
<1> HIDE DEF Opens
<1>3. ASSUME NEW i \in 1 .. n, NEW r
      PROVE  (\E j \in 1 .. i : Opens(events[j], r))
                <=> (Opens(events[1], r) \/ \E j \in 1 .. i - 1 : Opens(rest[j], r))
  <2>1. ASSUME NEW j \in 1 .. i, Opens(events[j], r), j # 1
        PROVE  \E k \in 1 .. i - 1 : Opens(rest[k], r)
    <3>1. j - 1 \in 1 .. i - 1 /\ rest[j - 1] = events[j]
      BY <1>1, <2>1
    <3> QED BY <2>1, <3>1
  <2>2. ASSUME NEW j \in 1 .. i - 1, Opens(rest[j], r) PROVE \E k \in 1 .. i : Opens(events[k], r)
    <3>1. j + 1 \in 1 .. i /\ rest[j] = events[j + 1]
      BY <1>1
    <3> QED BY <2>2, <3>1
  <2>3. 1 \in 1 .. i
    BY <1>1
  <2> QED BY <2>1, <2>2, <2>3
<1>4. ASSUME NEW i \in 1 .. n PROVE AwaitedIn(rest, later, i) <=> AwaitedIn(events, sockets, i + 1)
  <2>1. rest[i] = events[i + 1] /\ (i + 1) - 1 = i
    BY <1>1
  <2>2. AwaitedIn(rest, later, i) <=>
          /\ rest[i].kind = "frame"
          /\ rest[i].request \in later \/ \E j \in 1 .. i - 1 : Opens(rest[j], rest[i].request)
    BY DEF AwaitedIn, Opens
  <2>3. AwaitedIn(events, sockets, i + 1) <=>
          /\ rest[i].kind = "frame"
          /\ rest[i].request \in sockets \/ \E j \in 1 .. i : Opens(events[j], rest[i].request)
    BY <2>1 DEF AwaitedIn, Opens
  <2> QED BY <1>2, <1>3, <2>2, <2>3
<1> QED BY <1>4 DEF rest

\* An event is taken that is no frame of an accepted socket.
LEMMA TakenKeeps ==
  ASSUME CaptureInv, phase = "run", queue # <<>>, queue' = Tail(queue), UNCHANGED <<seen, reader>>,
         UNCHANGED <<bundle, disk, manifest, fixture>>,
         phase' \in {"connect", "run", "finalize", "crashed"},
         accepted' = IF Head(queue).kind = "created" /\ sanitize_websocket_url(Head(queue).request)
                     THEN accepted \cup {Head(queue).request} ELSE accepted,
         Head(queue).kind = "frame" => Head(queue).request \notin accepted
  PROVE  CaptureInv'
<1>1. queue \in Seq(Events) /\ InStep
  BY DEF CaptureInv
<1>2. queue' \in Seq(Events) /\ queue[1] = Head(queue)
  BY <1>1
<1>3. ~AwaitedIn(queue, accepted, 1)
  BY <1>2 DEF AwaitedIn
<1>4. /\ WaitingIn(queue', accepted') \in Seq(Frames)
      /\ WaitingIn(queue, accepted) = <<>> \o WaitingIn(queue', accepted')
  <2>1. \A i \in 1 .. Len(queue) - 1 :
           AwaitedIn(Tail(queue), accepted', i) <=> AwaitedIn(queue, accepted, i + 1)
    BY <1>1, AwaitedBehind
  <2>2. /\ WaitingIn(Tail(queue), accepted') \in Seq(Frames)
        /\ WaitingIn(queue, accepted)
              = (IF AwaitedIn(queue, accepted, 1) THEN <<Head(queue).frame>> ELSE <<>>)
                   \o WaitingIn(Tail(queue), accepted')
    BY <1>1, <2>1, WaitingShrinks
  <2> QED BY <1>3, <2>2
<1>5. Waiting' = Waiting
  BY <1>4, WaitingIs, ConcatEmptySeq
<1>6. InStep'
  <2>1. Refused' = Refused
    BY DEF Refused
  <2> QED BY <1>1, <1>5, <2>1 DEF InStep, ContentsOf
<1> QED BY <1>2, <1>6, StageKeeps

\* A frame of a trusted socket is taken.
LEMMA FrameKeeps ==
  ASSUME CaptureInv, frame_received
  PROVE  CaptureInv'
<1> DEFINE f == Head(queue).frame
           recorded == ContentsOf(bundle.frames)
<1>1. /\ phase = "run" /\ queue \in Seq(Events) /\ queue # <<>> /\ Head(queue).kind = "frame"
      /\ queue' = Tail(queue) /\ UNCHANGED <<manifest, fixture, seen, reader, accepted>> /\ InStep
  BY DEF frame_received, Take, CaptureInv, outputs
<1>2. queue' \in Seq(Events) /\ f \in Frames
  <2>1. Head(queue) \in Events
    BY <1>1
  <2> QED BY <1>1, <2>1 DEF Events
<1>3. CASE Head(queue).request \notin accepted
  BY <1>1, <1>2, <1>3, TakenKeeps DEF frame_received
<1>4. CASE Head(queue).request \in accepted
  <2>1. PICK bad : LET s == capture_binary_frame(bundle, disk, f, bad)
                   IN /\ bundle' = s.b /\ disk' = s.d
                      /\ IF s.err # NULL THEN Fail(s.err)
                         ELSE IF Len(s.b.frames) >= MaxFrames
                              THEN phase' = "finalize" /\ status' = Observed
                              ELSE UNCHANGED <<phase, status>>
    BY <1>4 DEF frame_received
  <2> DEFINE s == capture_binary_frame(bundle, disk, f, bad)
             all == Append(recorded, f)
  <2>2. recorded \in Seq(Frames)
    BY <1>1 DEF InStep
  <2>3. /\ s.b \in Bundle /\ Files(s.d) /\ s.b.total <= MaxTotalBytes
        /\ Bytes(s.d) <= s.b.total /\ (s.err = NULL => Bytes(s.d) = s.b.total)
        /\ \A i \in DOMAIN s.b.targets : Names(s.b.targets[i], all)
        /\ s.err \in {NULL, "EvidenceError", "OSError", "EOFError"}
        /\ ContentsOf(s.b.frames) = IF s.err = NULL THEN all ELSE recorded
    <3>1. /\ bundle \in Bundle /\ Files(disk) /\ bundle.total <= MaxTotalBytes
          /\ Bytes(disk) = bundle.total
          /\ \A i \in DOMAIN bundle.targets : Names(bundle.targets[i], recorded)
      BY <1>1 DEF CaptureInv, BundleIsAccounted
    <3> HIDE DEF recorded
    <3>2. recorded = ContentsOf(bundle.frames)
      BY DEF recorded
    <3> QED BY <1>2, <2>2, <3>1, <3>2, CaptureEffect
  <2>4. PICK refused \in Refused : seen = recorded \o Waiting \o refused
    BY <1>1 DEF InStep
  <2>5. Waiting' \in Seq(Frames) /\ Waiting = <<f>> \o Waiting'
    <3>1. AwaitedIn(queue, accepted, 1)
      <4>1. queue[1] = Head(queue)
        BY <1>1
      <4> QED BY <1>1, <1>4, <4>1 DEF AwaitedIn
    <3>2. \A i \in 1 .. Len(queue) - 1 :
             AwaitedIn(Tail(queue), accepted, i) <=> AwaitedIn(queue, accepted, i + 1)
      BY <1>1, AwaitedBehind
    <3>3. /\ WaitingIn(Tail(queue), accepted) \in Seq(Frames)
          /\ WaitingIn(queue, accepted) = <<f>> \o WaitingIn(Tail(queue), accepted)
      BY <1>1, <3>1, <3>2, WaitingShrinks
    <3> QED BY <1>1, <3>3, WaitingIs
  <2>6. /\ all \in Seq(Frames) /\ all = recorded \o <<f>>
        /\ refused \in Seq(Frames) /\ refused \in Refused'
        /\ seen = all \o Waiting' \o refused
    <3>0. refused \in Seq(Frames) /\ refused \in Refused'
      <4>1. Refused' = Refused
        BY <1>1 DEF Refused
      <4> QED BY <2>4, <4>1, Missing
    <3>1. <<f>> \in Seq(Frames)
      BY <1>2
    <3>2. all \in Seq(Frames) /\ all = recorded \o <<f>>
      BY <1>2, <2>2, AppendIsConcat
    <3>3. recorded \o (<<f>> \o Waiting') = (recorded \o <<f>>) \o Waiting'
      BY <2>2, <2>5, <3>1, ConcatAssociative
    <3>4. recorded \o Waiting = all \o Waiting'
      BY <2>5, <3>2, <3>3
    <3> HIDE DEF all, recorded, f
    <3>5. seen = all \o Waiting' \o refused
      BY <2>4, <3>4
    <3> QED BY <3>0, <3>2, <3>5
  <2>7. /\ seen = all \o <<>> \o Waiting' \o refused
        /\ \A t : Names(t, all) => Names(t, seen)
    <3> HIDE DEF all
    <3>1. /\ all \o Waiting' \o refused = all \o <<>> \o Waiting' \o refused
          /\ \A t : Names(t, all) => Names(t, all \o Waiting' \o refused)
      BY <2>5, <2>6, PartsOf
    <3> QED BY <2>6, <3>1, Zenon
  <2>8. phase' \in {"run", "finalize", "crashed"}
    BY <1>1, <2>1, <2>3 DEF Fail
  <2>9. s.err = NULL \/ (phase' # "run" /\ (status' \in Failures \/ phase' = "crashed"))
    BY <2>1, <2>3, EvidenceAssumption DEF Fail, Failures
  <2> HIDE DEF s
  <2>10. bundle' = s.b /\ disk' = s.d
    BY <2>1 DEF s
  <2>11. manifest' = NULL /\ fixture' = NULL
    BY <1>1 DEF CaptureInv
  <2>12. BundleIsAccounted' /\ (phase' = "run" => Bytes(disk') = bundle'.total)
    BY <2>3, <2>9, <2>10 DEF BundleIsAccounted
  <2>13. ContentsOf(bundle'.frames) = IF s.err = NULL THEN all ELSE recorded
    BY <2>3, <2>10
  <2> HIDE DEF all, recorded
  <2>14. FramesAreRecorded' /\ (phase' = "run" => InStep' /\ ContentsOf(bundle'.frames) = all)
    <3>1. seen' = seen
      BY <1>1
    <3>2. CASE s.err = NULL
      <4>1. /\ seen' = ContentsOf(bundle'.frames) \o <<>> \o Waiting' \o refused
            /\ seen' = ContentsOf(bundle'.frames) \o Waiting' \o refused
            /\ ContentsOf(bundle'.frames) = all
        BY <2>6, <2>7, <2>13, <3>1, <3>2
      <4>2. FramesAreRecorded'
        BY <2>6, <4>1, Missing DEF FramesAreRecorded, ContentsOf
      <4>3. InStep'
        BY <2>6, <4>1 DEF InStep
      <4> QED BY <4>1, <4>2, <4>3
    <3>3. CASE s.err # NULL
      <4>1. /\ seen' = ContentsOf(bundle'.frames) \o <<f>> \o Waiting' \o refused
            /\ phase' # "run" /\ (status' \in Failures \/ phase' = "crashed")
        BY <2>6, <2>9, <2>13, <3>1, <3>3
      <4>2. <<f>> \in Failed'
        BY <1>2, <4>1, AtMostOne DEF Failed
      <4> HIDE DEF f
      <4>3. FramesAreRecorded'
        BY <2>6, <4>1, <4>2 DEF FramesAreRecorded, ContentsOf
      <4> QED BY <4>1, <4>3
    <3> QED BY <3>2, <3>3
  <2>15. \A i \in DOMAIN bundle'.targets : /\ Names(bundle'.targets[i], seen')
                                          /\ Names(bundle'.targets[i], all)
    BY <1>1, <2>3, <2>7, <2>10
  <2> QED BY <1>2, <2>3, <2>8, <2>10, <2>11, <2>12, <2>14, <2>15 DEF CaptureInv
<1> QED BY <1>3, <1>4

\* After the capture: a file that is changed, and the export, touch no frame.
LEMMA ClosedKeeps ==
  ASSUME CaptureInv, payload_changes \/ export
  PROVE  CaptureInv'
<1>1. phase = "closed" /\ fixture = NULL
  BY DEF payload_changes, export, export_approved_fixture
<1>2. CASE payload_changes
  <2>1. UNCHANGED <<phase, queue, bundle, status, manifest, fixture, seen, reader, accepted>>
    BY <1>2 DEF payload_changes, outputs
  <2>2. Files(disk')
    <3>1. PICK p \in DOMAIN disk :
            \/ \E m \in Payloads : disk' = [disk EXCEPT ![p] = m]
            \/ disk' = [q \in DOMAIN disk \ {p} |-> disk[q]]
      BY <1>2 DEF payload_changes
    <3>2. /\ disk = [q \in DOMAIN disk |-> disk[q]] /\ DOMAIN disk \subseteq Paths
          /\ \A q \in DOMAIN disk : disk[q] \in Contents
          /\ IsFiniteSet(DOMAIN disk)
      BY DiskFiles DEF CaptureInv, Files
    <3>3. Payloads \subseteq Contents
      <4>1. ASSUME NEW f \in Frames, NEW m \in ToSet(f.messages) PROVE m \in CapturedMessage
        <5>1. f.messages \in Seq(CapturedMessage)
          BY FramesAssumption DEF CapturedFrame
        <5> QED BY <5>1 DEF ToSet
      <4> QED BY <4>1 DEF Payloads, Contents
    <3>4. CASE \E m \in Payloads : disk' = [disk EXCEPT ![p] = m]
      <4>1. PICK m \in Payloads : disk' = [disk EXCEPT ![p] = m]
        BY <3>4
      <4>2. /\ DOMAIN disk' = DOMAIN disk /\ disk' = [q \in DOMAIN disk |-> disk'[q]]
            /\ \A q \in DOMAIN disk : disk'[q] \in Contents
        BY <3>2, <3>3, <4>1
      <4> QED BY <3>2, <4>2, DiskFiles DEF Files
    <3>5. CASE disk' = [q \in DOMAIN disk \ {p} |-> disk[q]]
      <4>1. /\ DOMAIN disk' = DOMAIN disk \ {p} /\ disk' = [q \in DOMAIN disk' |-> disk'[q]]
            /\ \A q \in DOMAIN disk' : disk'[q] \in Contents
        BY <3>2, <3>5
      <4>2. IsFiniteSet(DOMAIN disk')
        BY <3>2, <4>1, FS_RemoveElement
      <4> QED BY <3>2, <4>1, <4>2, DiskFiles DEF Files
    <3> QED BY <3>1, <3>4, <3>5
  <2>3. Waiting' = Waiting
    BY <2>1, WaitingIs
  <2> QED BY <1>1, <2>1, <2>2, <2>3
          DEF CaptureInv, BundleIsAccounted, FramesAreRecorded, Failed, Refused, Failures, Supported
<1>3. CASE export
  <2>1. PICK reviewed, of, contract, aliases, approved :
          export_approved_fixture(reviewed, of, contract, approved, aliases)
    BY <1>3 DEF export
  <2>2. /\ UNCHANGED <<phase, queue, bundle, disk, status, manifest, seen, reader, accepted>>
        /\ manifest # NULL
        /\ \A p \in approved : \E t \in ToSet(manifest.targets) : t.path = p /\ Approvable(t, aliases)
        /\ fixture' = [events |-> {[path |-> p, content |-> disk[p]] : p \in approved},
                       contract |-> contract]
    BY <2>1 DEF export_approved_fixture
  <2>3. manifest.targets = bundle.targets
    BY <2>2 DEF CaptureInv
  <2>4. ASSUME NEW p \in approved
        PROVE  /\ p[2] \in DOMAIN seen /\ p[3] \in DOMAIN seen[p[2]].messages
               /\ disk[p] = seen[p[2]].messages[p[3]] /\ disk[p].target /\ disk[p].decodes
    <3>1. PICK i \in DOMAIN bundle.targets : /\ bundle.targets[i].path = p
                                            /\ Approvable(bundle.targets[i], aliases)
      BY <2>2, <2>3 DEF ToSet
    <3>2. /\ disk[p] = bundle.targets[i].content /\ disk[p].decodes
          /\ Names(bundle.targets[i], seen)
      BY <3>1 DEF Approvable, CaptureInv
    <3>3. PICK k \in DOMAIN seen : \E j \in DOMAIN seen[k].messages :
             /\ p = <<"target-payloads", k, j>> /\ disk[p] = seen[k].messages[j] /\ disk[p].target
      BY <3>1, <3>2 DEF Names
    <3> QED BY <3>2, <3>3
  <2>5. Supported(fixture)'
    BY <2>2, <2>4 DEF Supported
  <2>6. Waiting' = Waiting
    BY <2>2, WaitingIs
  <2> QED BY <1>1, <2>2, <2>5, <2>6 DEF CaptureInv, BundleIsAccounted, FramesAreRecorded, Failed, Refused
<1> QED BY <1>2, <1>3

\* Each step keeps the invariant.
LEMMA CaptureStep == CaptureInv /\ [Next]_vars => CaptureInv'
<1> SUFFICES ASSUME CaptureInv, [Next]_vars PROVE CaptureInv'
  OBVIOUS
<1>1. CASE connected
  BY <1>1, IdleKeeps DEF connected, Fail, outputs
<1>2. CASE event_arrives
  BY <1>2, ArrivalKeeps
<1>3. CASE connection_ends
  BY <1>3, IdleKeeps DEF connection_ends, outputs
<1>4. CASE reader_failed
  BY <1>4, IdleKeeps DEF reader_failed, Fail, outputs
<1>5. CASE websocket_created
  BY <1>5, TakenKeeps DEF websocket_created, Take, outputs
<1>6. CASE frame_navigated
  BY <1>6, TakenKeeps DEF frame_navigated, Take, Fail, outputs
<1>7. CASE frame_received
  BY <1>7, FrameKeeps
<1>8. CASE deadline
  BY <1>8, IdleKeeps DEF deadline, outputs
<1>9. CASE finalize
  <2>1. /\ phase = "finalize" /\ phase' = "closed"
        /\ UNCHANGED <<queue, bundle, disk, status, fixture, seen, reader, accepted>>
        /\ manifest' = NULL \/ manifest'.targets = bundle.targets
    BY <1>9 DEF finalize, Manifest
  <2>2. Waiting' = Waiting
    BY <2>1, WaitingIs
  <2> QED BY <2>1, <2>2 DEF CaptureInv, BundleIsAccounted, FramesAreRecorded, Failed, Refused, Failures, Supported
<1>10. CASE payload_changes \/ export
  BY <1>10, ClosedKeeps
<1>11. CASE UNCHANGED vars
  <2>1. Waiting' = Waiting
    BY <1>11, WaitingIs DEF vars
  <2> QED BY <1>11, <2>1 DEF vars, outputs, CaptureInv, BundleIsAccounted, FramesAreRecorded, Failed, Refused, InStep,
                             ContentsOf, Supported
<1> QED BY <1>1, <1>2, <1>3, <1>4, <1>5, <1>6, <1>7, <1>8, <1>9, <1>10, <1>11 DEF Next

\* The invariant holds at all times.
LEMMA CaptureAlways == Spec => []CaptureInv
BY CaptureStarts, CaptureStep, PTL DEF Spec

\* What arrived of the trusted sockets is in the manifest, in order, but for the
\* frame a capture failed on, those that still waited in the queue and one that
\* found it full; and the bytes that are counted against the limit are those on
\* disk (EvidenceBundle).
THEOREM BundlesAreComplete == Spec => []BundleIsComplete
<1>1. CaptureInv => BundleIsComplete
  BY DEF CaptureInv, BundleIsComplete
<1> QED BY <1>1, CaptureAlways, PTL

\* An exported event is a message that was captured, whatever was done to the
\* files in between (export_approved_fixture).
THEOREM FixturesAreEvidence == Spec => []FixtureIsEvidence
<1>1. CaptureInv => FixtureIsEvidence
  BY DEF CaptureInv, FixtureIsEvidence, Supported
<1> QED BY <1>1, CaptureAlways, PTL

-----------------------------------------------------------------------------
(* The probe's report. *)

\* One more summand at the end.
LEMMA SumAppends ==
  ASSUME NEW n \in Nat, NEW a, NEW b, DOMAIN a = 1 .. n, DOMAIN b = 1 .. n + 1,
         \A i \in 1 .. n : a[i] \in Nat /\ b[i] = a[i], b[n + 1] \in Nat
  PROVE  SumFunction(a) \in Nat /\ SumFunction(b) = SumFunction(a) + b[n + 1]
<1>1. IsFiniteSet(1 .. n) /\ IsFiniteSet(1 .. n + 1)
  BY FS_Interval
<1>2. (1 .. n + 1) \ {n + 1} = 1 .. n
  OBVIOUS
<1>3. \A i \in 1 .. n + 1 : b[i] \in Nat
  <2>1. \A i \in 1 .. n + 1 : i = n + 1 \/ i \in 1 .. n
    OBVIOUS
  <2> QED BY <2>1
<1>4. SumFunctionOnSet(a, 1 .. n) \in Nat
  BY <1>1, SumType
<1>5. SumFunctionOnSet(b, 1 .. n + 1) = b[n + 1] + SumFunctionOnSet(b, (1 .. n + 1) \ {n + 1})
  <2>1. n + 1 \in 1 .. n + 1
    OBVIOUS
  <2> QED BY <1>1, <1>3, <2>1, SumRemoves
<1>6. SumFunctionOnSet(b, 1 .. n) = SumFunctionOnSet(a, 1 .. n)
  BY <1>1, SumSame
<1>7. SumFunction(a) = SumFunctionOnSet(a, 1 .. n) /\ SumFunction(b) = SumFunctionOnSet(b, 1 .. n + 1)
  BY DEF SumFunction
<1>8. SumFunction(b) = b[n + 1] + SumFunction(a) /\ SumFunction(a) \in Nat
  BY <1>2, <1>4, <1>5, <1>6, <1>7
<1> QED BY <1>8

\* A total over frames, of what a function says of each.
Total(w, fs) == SumFunction([i \in DOMAIN fs |-> w[fs[i]]])

\* It grows by what the function says of the frame that is added.
LEMMA TotalAppends ==
  ASSUME NEW w, \A g \in ProbeFrame : w[g] \in Nat, NEW fs \in Seq(ProbeFrame), NEW f \in ProbeFrame
  PROVE  Total(w, fs) \in Nat /\ Total(w, Append(fs, f)) = Total(w, fs) + w[f]
<1> DEFINE a == [i \in DOMAIN fs |-> w[fs[i]]]
           b == [i \in DOMAIN Append(fs, f) |-> w[Append(fs, f)[i]]]
           n == Len(fs)
<1>1. /\ n \in Nat /\ DOMAIN fs = 1 .. n /\ DOMAIN Append(fs, f) = 1 .. n + 1
      /\ \A i \in 1 .. n : fs[i] \in ProbeFrame /\ Append(fs, f)[i] = fs[i]
      /\ Append(fs, f)[n + 1] = f
  OBVIOUS
<1>2. /\ DOMAIN a = 1 .. n /\ DOMAIN b = 1 .. n + 1
      /\ \A i \in 1 .. n : a[i] \in Nat /\ b[i] = a[i]
      /\ b[n + 1] = w[f] /\ w[f] \in Nat
  <2>1. \A i \in 1 .. n : i \in 1 .. n + 1 /\ n + 1 \in 1 .. n + 1
    BY <1>1
  <2>2. n + 1 \in 1 .. n + 1
    BY <1>1
  <2> QED BY <1>1, <2>1, <2>2
<1>3. Total(w, fs) = SumFunction(a) /\ Total(w, Append(fs, f)) = SumFunction(b)
  BY DEF Total
<1> HIDE DEF a, b, n
<1>4. SumFunction(a) \in Nat /\ SumFunction(b) = SumFunction(a) + b[n + 1]
  BY <1>1, <1>2, SumAppends
<1> QED BY <1>2, <1>3, <1>4

\* The target messages among the first n of a frame, by what became of them.
Targets(f, n) == {i \in 1 .. n : f.messages[i].target}
Decoded(f, n) == {i \in 1 .. n : f.messages[i].target /\ f.messages[i].decodes}
Undecoded(f, n) == {i \in 1 .. n : f.messages[i].target /\ ~f.messages[i].decodes}

\* What one frame adds to each counter of a report.
Share(f) ==
  LET Is(b) == IF b THEN 1 ELSE 0
      Of(n) == IF f.body = "sound" THEN n ELSE 0
      all == Len(f.messages)
  IN  [frame |-> 1, rows |-> 1, binary |-> Is(f.body # "text"),
       parse_error |-> Is(f.body = "malformed"), message |-> Of(all),
       target |-> Of(Cardinality(Targets(f, all))), decoded |-> Of(Cardinality(Decoded(f, all))),
       failed |-> Of(Cardinality(Undecoded(f, all))), ack |-> Is(Sends(f))]
Weight(k) == [f \in ProbeFrame |-> Share(f)[k]]
Summed == {"binary", "parse_error", "message", "target", "decoded", "failed", "ack"}

\* The counters of a report.
LEMMA CounterNames == Counters = Summed \cup {"frame", "rows"}
BY DEF Counters, NoCounts, Summed

\* Messages are counted in natural numbers, one at a time.
LEMMA MessageSets ==
  ASSUME NEW f \in ProbeFrame, NEW n \in Nat
  PROVE  /\ Cardinality(Targets(f, n)) \in Nat /\ Cardinality(Decoded(f, n)) \in Nat
         /\ Cardinality(Undecoded(f, n)) \in Nat
         /\ Cardinality(Targets(f, 0)) = 0 /\ Cardinality(Decoded(f, 0)) = 0
         /\ Cardinality(Undecoded(f, 0)) = 0
         /\ n < Len(f.messages) =>
              LET m == f.messages[n + 1]
                  One(b) == IF b THEN 1 ELSE 0
              IN  /\ Cardinality(Targets(f, n + 1)) = Cardinality(Targets(f, n)) + One(m.target)
                  /\ Cardinality(Decoded(f, n + 1))
                       = Cardinality(Decoded(f, n)) + One(m.target /\ m.decodes)
                  /\ Cardinality(Undecoded(f, n + 1))
                       = Cardinality(Undecoded(f, n)) + One(m.target /\ ~m.decodes)
<1>1. ASSUME NEW S \in SUBSET (1 .. n) PROVE IsFiniteSet(S) /\ Cardinality(S) \in Nat
  <2>1. IsFiniteSet(1 .. n)
    BY FS_Interval
  <2>2. IsFiniteSet(S)
    BY <2>1, FS_Subset
  <2> QED BY <2>2, FS_CardinalityType
<1>2. ASSUME NEW S \in SUBSET (1 .. n), NEW T, NEW b \in BOOLEAN,
             T = IF b THEN S \cup {n + 1} ELSE S
      PROVE  Cardinality(T) = Cardinality(S) + IF b THEN 1 ELSE 0
  <2>1. n + 1 \notin S /\ IsFiniteSet(S) /\ Cardinality(S) \in Nat
    BY <1>1
  <2>2. CASE b
    <3>1. Cardinality(S \cup {n + 1}) = Cardinality(S) + 1
      BY <2>1, FS_AddElement
    <3> QED BY <1>2, <2>2, <3>1
  <2>3. CASE ~b
    BY <1>2, <2>1, <2>3
  <2> QED BY <2>2, <2>3
<1>3. \A i : i \in 1 .. n + 1 <=> i \in 1 .. n \/ i = n + 1
  OBVIOUS
<1> DEFINE m == f.messages[n + 1]
<1>4. /\ Targets(f, n) \in SUBSET (1 .. n) /\ Decoded(f, n) \in SUBSET (1 .. n)
      /\ Undecoded(f, n) \in SUBSET (1 .. n)
  BY DEF Targets, Decoded, Undecoded
<1>5. Targets(f, 0) = {} /\ Decoded(f, 0) = {} /\ Undecoded(f, 0) = {}
  <2>1. 1 .. 0 = {}
    OBVIOUS
  <2> QED BY <2>1 DEF Targets, Decoded, Undecoded
<1>6. ASSUME n < Len(f.messages)
      PROVE  /\ Cardinality(Targets(f, n + 1)) = Cardinality(Targets(f, n)) + IF m.target THEN 1 ELSE 0
             /\ Cardinality(Decoded(f, n + 1))
                  = Cardinality(Decoded(f, n)) + IF m.target /\ m.decodes THEN 1 ELSE 0
             /\ Cardinality(Undecoded(f, n + 1))
                  = Cardinality(Undecoded(f, n)) + IF m.target /\ ~m.decodes THEN 1 ELSE 0
  <2>1. m.target \in BOOLEAN /\ m.decodes \in BOOLEAN
    <3>1. f.messages \in Seq(ProbeMessage)
      BY DEF ProbeFrame
    <3>2. m \in ProbeMessage
      BY <1>6, <3>1
    <3> QED BY <3>2 DEF ProbeMessage
  <2>2. /\ Targets(f, n + 1) = IF m.target THEN Targets(f, n) \cup {n + 1} ELSE Targets(f, n)
        /\ Decoded(f, n + 1)
             = IF m.target /\ m.decodes THEN Decoded(f, n) \cup {n + 1} ELSE Decoded(f, n)
        /\ Undecoded(f, n + 1)
             = IF m.target /\ ~m.decodes THEN Undecoded(f, n) \cup {n + 1} ELSE Undecoded(f, n)
    BY <1>3 DEF Targets, Decoded, Undecoded
  <2>3. (m.target /\ m.decodes) \in BOOLEAN /\ (m.target /\ ~m.decodes) \in BOOLEAN
    BY <2>1
  <2> HIDE DEF m
  <2>4. Cardinality(Targets(f, n + 1)) = Cardinality(Targets(f, n)) + IF m.target THEN 1 ELSE 0
    BY <1>2, <1>4, <2>1, <2>2
  <2>5. Cardinality(Decoded(f, n + 1))
          = Cardinality(Decoded(f, n)) + IF m.target /\ m.decodes THEN 1 ELSE 0
    BY <1>2, <1>4, <2>3, <2>2
  <2>6. Cardinality(Undecoded(f, n + 1))
          = Cardinality(Undecoded(f, n)) + IF m.target /\ ~m.decodes THEN 1 ELSE 0
    BY <1>2, <1>4, <2>3, <2>2
  <2> QED BY <2>4, <2>5, <2>6
<1> QED BY <1>1, <1>4, <1>5, <1>6, FS_EmptySet

\* A report on frames is a total over them.
LEMMA ReportedIsTotal ==
  ASSUME NEW fs \in Seq(ProbeFrame)
  PROVE  /\ \A k \in Summed : Reported(fs)[k] = Total(Weight(k), fs)
         /\ Reported(fs).frame = Len(fs) /\ Reported(fs).rows = Len(fs)
<1>1. ASSUME NEW i \in DOMAIN fs
      PROVE  /\ fs[i] \in ProbeFrame /\ DOMAIN fs[i].messages = 1 .. Len(fs[i].messages)
             /\ Cardinality({j \in DOMAIN fs[i].messages : TRUE}) = Len(fs[i].messages)
  <2>0. fs[i] \in ProbeFrame
    OBVIOUS
  <2>1. fs[i].messages \in Seq(ProbeMessage)
    BY <2>0 DEF ProbeFrame
  <2>2. Cardinality(1 .. Len(fs[i].messages)) = Len(fs[i].messages)
    BY <2>1, FS_Interval
  <2>3. {j \in DOMAIN fs[i].messages : TRUE} = 1 .. Len(fs[i].messages)
    BY <2>1
  <2> QED BY <2>0, <2>1, <2>2, <2>3
<1>2. Reported(fs).binary = Total(Weight("binary"), fs)
  <2>1. \A i \in DOMAIN fs : Weight("binary")[fs[i]] = IF fs[i].body # "text" THEN 1 ELSE 0
    BY <1>1 DEF Weight, Share
  <2> QED BY <2>1 DEF Reported, Total, Sum
<1>3. Reported(fs).parse_error = Total(Weight("parse_error"), fs)
  <2>1. \A i \in DOMAIN fs : Weight("parse_error")[fs[i]] = IF fs[i].body = "malformed" THEN 1 ELSE 0
    BY <1>1 DEF Weight, Share
  <2> QED BY <2>1 DEF Reported, Total, Sum
<1>4. Reported(fs).ack = Total(Weight("ack"), fs)
  <2>1. \A i \in DOMAIN fs : Weight("ack")[fs[i]] = IF Sends(fs[i]) THEN 1 ELSE 0
    BY <1>1 DEF Weight, Share
  <2> QED BY <2>1 DEF Reported, Total, Sum
<1>5. Reported(fs).message = Total(Weight("message"), fs)
  <2>1. \A i \in DOMAIN fs : Weight("message")[fs[i]] = IF fs[i].body # "sound" THEN 0
                               ELSE Cardinality({j \in DOMAIN fs[i].messages : TRUE})
    BY <1>1 DEF Weight, Share
  <2> QED BY <2>1 DEF Reported, Total, Sum
<1>6. Reported(fs).target = Total(Weight("target"), fs)
  <2>1. \A i \in DOMAIN fs : Weight("target")[fs[i]] = IF fs[i].body # "sound" THEN 0
          ELSE Cardinality({j \in DOMAIN fs[i].messages : fs[i].messages[j].target})
    BY <1>1 DEF Weight, Share, Targets
  <2> QED BY <2>1 DEF Reported, Total, Sum
<1>7. Reported(fs).decoded = Total(Weight("decoded"), fs)
  <2>1. \A i \in DOMAIN fs : Weight("decoded")[fs[i]] = IF fs[i].body # "sound" THEN 0
          ELSE Cardinality({j \in DOMAIN fs[i].messages :
                              fs[i].messages[j].target /\ fs[i].messages[j].decodes})
    BY <1>1 DEF Weight, Share, Decoded
  <2> QED BY <2>1 DEF Reported, Total, Sum
<1>8. Reported(fs).failed = Total(Weight("failed"), fs)
  <2>1. \A i \in DOMAIN fs : Weight("failed")[fs[i]] = IF fs[i].body # "sound" THEN 0
          ELSE Cardinality({j \in DOMAIN fs[i].messages :
                              fs[i].messages[j].target /\ ~fs[i].messages[j].decodes})
    BY <1>1 DEF Weight, Share, Undecoded
  <2> QED BY <2>1 DEF Reported, Total, Sum
<1>9. Reported(fs).frame = Len(fs) /\ Reported(fs).rows = Len(fs)
  BY DEF Reported
<1> QED BY <1>2, <1>3, <1>4, <1>5, <1>6, <1>7, <1>8, <1>9 DEF Summed

\* What a frame adds to a counter is a number.
LEMMA ShareType ==
  ASSUME NEW f \in ProbeFrame, NEW k \in Counters
  PROVE  Share(f)[k] \in Nat
<1>1. f.messages \in Seq(ProbeMessage)
  BY DEF ProbeFrame
<1>2. Len(f.messages) \in Nat
  BY <1>1
<1>3. /\ Cardinality(Targets(f, Len(f.messages))) \in Nat
      /\ Cardinality(Decoded(f, Len(f.messages))) \in Nat
      /\ Cardinality(Undecoded(f, Len(f.messages))) \in Nat
  BY <1>2, MessageSets
<1> QED BY <1>2, <1>3, CounterNames DEF Share, Summed

\* A report on one frame more says what the frame adds.
LEMMA ReportedAppends ==
  ASSUME NEW fs \in Seq(ProbeFrame), NEW k \in Counters
  PROVE  /\ Reported(fs)[k] \in Nat
         /\ \A f \in ProbeFrame : Reported(Append(fs, f))[k] = Reported(fs)[k] + Share(f)[k]
<1>1. \A f \in ProbeFrame : Append(fs, f) \in Seq(ProbeFrame) /\ Len(Append(fs, f)) = Len(fs) + 1
  OBVIOUS
<1>2. CASE k \in {"frame", "rows"}
  <2>1. Reported(fs)[k] = Len(fs) /\ Len(fs) \in Nat
    BY <1>2, ReportedIsTotal
  <2>2. ASSUME NEW f \in ProbeFrame
        PROVE  Reported(Append(fs, f))[k] = Len(fs) + 1 /\ Share(f)[k] = 1
    <3> DEFINE gs == Append(fs, f)
    <3>1. gs \in Seq(ProbeFrame) /\ Len(gs) = Len(fs) + 1
      BY <1>1
    <3> HIDE DEF gs
    <3>2. Reported(gs)[k] = Len(gs)
      BY <1>2, <3>1, ReportedIsTotal
    <3> QED BY <1>2, <3>1, <3>2 DEF gs, Share
  <2> QED BY <2>1, <2>2
<1>3. CASE k \in Summed
  <2>1. \A g \in ProbeFrame : Weight(k)[g] \in Nat /\ Weight(k)[g] = Share(g)[k]
    BY ShareType DEF Weight
  <2>2. ASSUME NEW f \in ProbeFrame
        PROVE  /\ Total(Weight(k), fs) \in Nat
               /\ Total(Weight(k), Append(fs, f)) = Total(Weight(k), fs) + Share(f)[k]
    BY <2>1, TotalAppends
  <2>3. Total(Weight(k), fs) \in Nat
    <3>1. CASE fs = <<>>
      <4> DEFINE a == [i \in DOMAIN fs |-> Weight(k)[fs[i]]]
      <4>1. DOMAIN a = {}
        BY <3>1
      <4> HIDE DEF a
      <4>2. SumFunctionOnSet(a, {}) = 0
        BY SumStep, FS_EmptySet
      <4> QED BY <4>1, <4>2 DEF Total, SumFunction, a
    <3>2. CASE fs # <<>>
      BY <2>2, <3>2
    <3> QED BY <3>1, <3>2
  <2>4. \A f \in ProbeFrame : Reported(Append(fs, f))[k] = Total(Weight(k), Append(fs, f))
    BY <1>1, <1>3, ReportedIsTotal
  <2>5. Reported(fs)[k] = Total(Weight(k), fs)
    BY <1>3, ReportedIsTotal
  <2> QED BY <2>2, <2>3, <2>4, <2>5
<1> QED BY <1>2, <1>3, CounterNames

\* Nothing is reported of no frames.
LEMMA ReportedEmpty == \A k \in Counters : Reported(<<>>)[k] = 0
<1>1. <<>> \in Seq(ProbeFrame) /\ Len(<<>>) = 0
  OBVIOUS
<1>2. ASSUME NEW k PROVE Total(Weight(k), <<>>) = 0
  <2> DEFINE a == [i \in DOMAIN <<>> |-> Weight(k)[(<<>>)[i]]]
  <2>1. DOMAIN a = {}
    OBVIOUS
  <2> HIDE DEF a
  <2>2. SumFunctionOnSet(a, {}) = 0
    BY SumStep, FS_EmptySet
  <2> QED BY <2>1, <2>2 DEF Total, SumFunction, a
<1> QED BY <1>1, <1>2, ReportedIsTotal, CounterNames

-----------------------------------------------------------------------------
(* A frame of the probe. *)

Tally == [frame : Nat, binary : Nat, parse_error : Nat, message : Nat, target : Nat,
          decoded : Nat, failed : Nat, ack : Nat, rows : Nat, files : Seq(Nat \X Nat)]
Payload == UNION {[D -> ProbeMessage] : D \in SUBSET (Nat \X Nat)}

\* The files a report lists are those on disk, each a message of frames fs.
Filed(c, d, fs) ==
  /\ Len(c.files) = c.decoded + c.failed /\ ToSet(c.files) = DOMAIN d
  /\ \A p \in DOMAIN d : p[1] \in DOMAIN fs /\ d[p] = fs[p[1]].messages[p[2]]

\* A loop over the messages of a frame computes what its steps say (run_probe).
ProbeRounds(g, sound, f, n, bad) ==
  g = [i \in 0 .. Len(f.messages) |->
         IF i = 0 THEN sound ELSE TargetMessage(g[i - 1], f.messages[i], n, i, bad)]
ProbeAfter(sound, f, n, bad) == CHOOSE g : ProbeRounds(g, sound, f, n, bad)
\* It exists for the probe as well.
LEMMA ProbeLoopDefined ==
  ASSUME NEW sound, NEW f, Len(f.messages) \in Nat, NEW n, NEW bad
  PROVE  ProbeRounds(ProbeAfter(sound, f, n, bad), sound, f, n, bad)
<1> DEFINE Step(s, i) == TargetMessage(s, f.messages[i], n, i, bad)
           Good(k, g) == g = [i \in 0 .. k |-> IF i = 0 THEN sound ELSE Step(g[i - 1], i)]
           Upto == {k \in Nat : \E g : Good(k, g)}
<1> HIDE DEF Step
<1>1. 0 \in Upto
  <2>1. Good(0, [i \in 0 .. 0 |-> sound])
    OBVIOUS
  <2> QED BY <2>1
<1>2. ASSUME NEW k \in Nat, k \in Upto PROVE k + 1 \in Upto
  <2>1. PICK g : Good(k, g)
    BY <1>2
  <2> DEFINE h == [i \in 0 .. k + 1 |-> IF i = k + 1 THEN Step(g[k], k + 1) ELSE g[i]]
  <2>2. Good(k + 1, h)
    <3>1. \A i \in 0 .. k : g[i] = IF i = 0 THEN sound ELSE Step(g[i - 1], i)
      BY <2>1
    <3>2. ASSUME NEW i \in 0 .. k + 1 PROVE h[i] = IF i = 0 THEN sound ELSE Step(h[i - 1], i)
      <4>1. CASE i = k + 1
        <5>1. k \in 0 .. k + 1 /\ k # k + 1 /\ i - 1 = k /\ i # 0
          BY <4>1
        <5>2. h[k] = g[k]
          BY <5>1
        <5> QED BY <4>1, <5>1, <5>2
      <4>2. CASE i \in 0 .. k
        BY <3>1, <4>2
      <4> QED BY <4>1, <4>2
    <3>3. h = [i \in 0 .. k + 1 |-> h[i]]
      OBVIOUS
    <3> HIDE DEF h
    <3> QED BY <3>2, <3>3
  <2> HIDE DEF Good
  <2> QED BY <2>2
<1> HIDE DEF Upto
<1>3. Len(f.messages) \in Upto
  BY <1>1, <1>2, NatSetInduction
<1>4. \E g : Good(Len(f.messages), g)
  BY <1>3 DEF Upto
<1>5. \E g : ProbeRounds(g, sound, f, n, bad)
  BY <1>4 DEF Step, ProbeRounds
<1> QED BY <1>5 DEF ProbeAfter

\* What holds before the first message, and after each when before it, holds at
\* the end; Ok[i] is what holds after message i.
LEMMA TargetsKeep ==
  ASSUME NEW sound, NEW f, Len(f.messages) \in Nat, NEW n, NEW bad, NEW Ok, sound \in Ok[0],
         \A i \in 1 .. Len(f.messages) : \A s \in Ok[i - 1] :
            TargetMessage(s, f.messages[i], n, i, bad) \in Ok[i]
  PROVE  TargetMessages(sound, f, n, bad) \in Ok[Len(f.messages)]
<1> DEFINE all == Len(f.messages)
           after == ProbeAfter(sound, f, n, bad)
           Kept == {k \in Nat : k <= all => after[k] \in Ok[k]}
<1>0. ProbeRounds(after, sound, f, n, bad)
  BY ProbeLoopDefined
<1> HIDE DEF after
<1>2. after = [i \in 0 .. all |->
                 IF i = 0 THEN sound ELSE TargetMessage(after[i - 1], f.messages[i], n, i, bad)]
  BY <1>0 DEF ProbeRounds
<1>3. 0 \in Kept
  BY <1>2
<1>4. ASSUME NEW k \in Nat, k \in Kept PROVE k + 1 \in Kept
  <2> SUFFICES ASSUME k + 1 <= all PROVE after[k + 1] \in Ok[k + 1]
    OBVIOUS
  <2>1. k + 1 \in 0 .. all /\ k + 1 # 0 /\ (k + 1) - 1 = k /\ k + 1 \in 1 .. all
    OBVIOUS
  <2>2. after[k + 1] = TargetMessage(after[k], f.messages[k + 1], n, k + 1, bad)
    BY <1>2, <2>1
  <2>3. after[k] \in Ok[k]
    BY <1>4
  <2> QED BY <2>1, <2>2, <2>3
<1> HIDE DEF Kept
<1>5. all \in Kept
  BY <1>3, <1>4, NatSetInduction
<1>6. after[all] \in Ok[all]
  BY <1>5 DEF Kept
<1> QED BY <1>6 DEF TargetMessages, after, ProbeAfter, ProbeRounds

\* Counter now has grown from then by at most n, by n exactly when all went well.
Grown(then, now, n, ok) == then <= now /\ now <= then + n /\ (ok => now = then + n)

\* Both sides of it move on together.
LEMMA GrowsOn ==
  ASSUME NEW then \in Nat, NEW now \in Nat, NEW n \in Nat, NEW x \in Nat, NEW y \in Nat, y <= x,
         NEW ok \in BOOLEAN, NEW well \in BOOLEAN, Grown(then, now, n, ok), well => ok /\ y = x
  PROVE  Grown(then, now + y, n + x, well)
<1>1. then <= now /\ now <= then + n /\ (ok => now = then + n)
  BY DEF Grown
<1>2. then <= now + y /\ now + y <= then + (n + x)
  BY <1>1
<1>3. well => now + y = then + (n + x)
  BY <1>1
<1> QED BY <1>2, <1>3 DEF Grown

\* What is so after i messages of f, the last of frames fs, when the counters
\* were c before the first.
Handling(c, f, fs, i) ==
  {s \in [c : Tally, d : Payload, ok : BOOLEAN] :
     /\ Filed(s.c, s.d, fs)
     /\ \A k \in Counters \ {"target", "decoded", "failed"} : s.c[k] = c[k]
     /\ Grown(c.target, s.c.target, Cardinality(Targets(f, i)), s.ok)
     /\ Grown(c.decoded, s.c.decoded, Cardinality(Decoded(f, i)), s.ok)
     /\ Grown(c.failed, s.c.failed, Cardinality(Undecoded(f, i)), s.ok)}

\* One message.
LEMMA TargetMessageKeeps ==
  ASSUME NEW c \in Tally, NEW f \in ProbeFrame, NEW fs \in Seq(ProbeFrame), NEW n \in DOMAIN fs,
         fs[n] = f, NEW i \in 1 .. Len(f.messages), NEW bad, NEW s \in Handling(c, f, fs, i - 1)
  PROVE  TargetMessage(s, f.messages[i], n, i, bad) \in Handling(c, f, fs, i)
<1> DEFINE m == f.messages[i]
           path == <<n, i>>
           t == TargetMessage(s, m, n, i, bad)
           One(b) == IF b THEN 1 ELSE 0
<1>1. /\ s = [c |-> s.c, d |-> s.d, ok |-> s.ok] /\ s.c \in Tally /\ s.d \in Payload
      /\ s.ok \in BOOLEAN /\ Filed(s.c, s.d, fs)
      /\ \A k \in Counters \ {"target", "decoded", "failed"} : s.c[k] = c[k]
      /\ Grown(c.target, s.c.target, Cardinality(Targets(f, i - 1)), s.ok)
      /\ Grown(c.decoded, s.c.decoded, Cardinality(Decoded(f, i - 1)), s.ok)
      /\ Grown(c.failed, s.c.failed, Cardinality(Undecoded(f, i - 1)), s.ok)
  BY DEF Handling
<1>2. /\ i \in Nat /\ i - 1 \in Nat /\ (i - 1) + 1 = i /\ i - 1 < Len(f.messages)
      /\ f.messages \in Seq(ProbeMessage)
  BY DEF ProbeFrame
<1>3. m \in ProbeMessage /\ m.target \in BOOLEAN /\ m.decodes \in BOOLEAN
  <2>1. m \in ProbeMessage
    BY <1>2
  <2> QED BY <2>1 DEF ProbeMessage
<1> DEFINE tn == One(m.target)
           dn == One(m.target /\ m.decodes)
           un == One(m.target /\ ~m.decodes)
           T == Cardinality(Targets(f, i - 1))
           D == Cardinality(Decoded(f, i - 1))
           U == Cardinality(Undecoded(f, i - 1))
<1>4. /\ T \in Nat /\ D \in Nat /\ U \in Nat
      /\ Cardinality(Targets(f, i)) = T + tn /\ Cardinality(Decoded(f, i)) = D + dn
      /\ Cardinality(Undecoded(f, i)) = U + un
  <2> DEFINE k == i - 1
  <2>1. k \in Nat /\ k + 1 = i /\ k < Len(f.messages)
    BY <1>2
  <2> HIDE DEF k
  <2>2. f.messages[k + 1] = m
    BY <2>1
  <2>3. /\ Cardinality(Targets(f, k)) \in Nat /\ Cardinality(Decoded(f, k)) \in Nat
        /\ Cardinality(Undecoded(f, k)) \in Nat
        /\ Cardinality(Targets(f, k + 1)) = Cardinality(Targets(f, k)) + tn
        /\ Cardinality(Decoded(f, k + 1)) = Cardinality(Decoded(f, k)) + dn
        /\ Cardinality(Undecoded(f, k + 1)) = Cardinality(Undecoded(f, k)) + un
    BY <2>1, <2>2, MessageSets
  <2> QED BY <2>1, <2>3 DEF k
<1>10. /\ tn \in Nat /\ dn \in Nat /\ un \in Nat
       /\ ~m.target => tn = 0 /\ dn = 0 /\ un = 0
       /\ m.target => tn = 1 /\ dn + un = 1
       /\ (m.target /\ m.decodes) => dn = 1 /\ un = 0
       /\ (m.target /\ ~m.decodes) => dn = 0 /\ un = 1
  <2>1. CASE ~m.target
    BY <2>1
  <2>2. CASE m.target /\ m.decodes
    BY <2>2
  <2>3. CASE m.target /\ ~m.decodes
    BY <2>3
  <2> QED BY <2>1, <2>2, <2>3, <1>3
<1>5. /\ Grown(c.target, s.c.target, T, s.ok) /\ Grown(c.decoded, s.c.decoded, D, s.ok)
      /\ Grown(c.failed, s.c.failed, U, s.ok)
  BY <1>1
<1> HIDE DEF T, D, U, tn, dn, un
<1>6. /\ s.c.target \in Nat /\ s.c.decoded \in Nat /\ s.c.failed \in Nat
      /\ s.c.files \in Seq(Nat \X Nat) /\ c.target \in Nat /\ c.decoded \in Nat /\ c.failed \in Nat
  BY <1>1 DEF Tally
<1> HIDE DEF m
<1>7. CASE ~s.ok \/ ~m.target
  <2>1. t = s
    BY <1>7 DEF TargetMessage
  <2> HIDE DEF t
  <2>2. /\ Grown(c.target, s.c.target, T + tn, s.ok) /\ Grown(c.decoded, s.c.decoded, D + dn, s.ok)
        /\ Grown(c.failed, s.c.failed, U + un, s.ok)
    <3>1. /\ c.target <= s.c.target /\ s.c.target <= c.target + T
          /\ c.decoded <= s.c.decoded /\ s.c.decoded <= c.decoded + D
          /\ c.failed <= s.c.failed /\ s.c.failed <= c.failed + U
      BY <1>5 DEF Grown
    <3>2. tn \in Nat /\ dn \in Nat /\ un \in Nat
      BY <1>10
    <3>3. /\ s.c.target <= c.target + (T + tn) /\ s.c.decoded <= c.decoded + (D + dn)
          /\ s.c.failed <= c.failed + (U + un)
      <4>1. /\ c.target \in Nat /\ c.decoded \in Nat /\ c.failed \in Nat
            /\ s.c.target \in Nat /\ s.c.decoded \in Nat /\ s.c.failed \in Nat
        BY <1>6
      <4>2. T \in Nat /\ D \in Nat /\ U \in Nat
        BY <1>4
      <4>3. \A a, b, p, q \in Nat : b <= a + p => b <= a + (p + q)
        OBVIOUS
      <4> QED BY <3>1, <3>2, <4>1, <4>2, <4>3
    <3>4. ASSUME s.ok
          PROVE  /\ s.c.target = c.target + (T + tn) /\ s.c.decoded = c.decoded + (D + dn)
                 /\ s.c.failed = c.failed + (U + un)
      <4>1. tn = 0 /\ dn = 0 /\ un = 0
        BY <1>7, <1>10, <3>4
      <4>2. s.c.target = c.target + T /\ s.c.decoded = c.decoded + D /\ s.c.failed = c.failed + U
        BY <1>5, <3>4 DEF Grown
      <4> QED BY <1>4, <1>6, <4>1, <4>2
    <3> QED BY <3>1, <3>3, <3>4 DEF Grown
  <2>3. t \in Handling(c, f, fs, i)
    BY <1>1, <1>4, <2>1, <2>2 DEF Handling
  <2> QED BY <2>3 DEF m, t
<1>8. CASE s.ok /\ m.target /\ i = bad
  <2> DEFINE x == s.c.target + 1
             b == [s.c EXCEPT !.target = x]
  <2>1. t = [c |-> b, d |-> s.d, ok |-> FALSE]
    BY <1>1, <1>8 DEF TargetMessage, Listed
  <2>2. x \in Nat /\ x = s.c.target + 1
    BY <1>6
  <2> HIDE DEF x
  <2>3. /\ b \in Tally /\ b.target = x /\ b.decoded = s.c.decoded /\ b.failed = s.c.failed
        /\ b.files = s.c.files /\ \A k \in Counters \ {"target", "decoded", "failed"} : b[k] = c[k]
    BY <1>1, <2>2, CounterNames DEF Tally, Summed
  <2> HIDE DEF b
  <2>4. Filed(b, s.d, fs)
    BY <1>1, <2>3 DEF Filed
  <2>5. /\ Grown(c.target, b.target, T + tn, FALSE) /\ Grown(c.decoded, b.decoded, D + dn, FALSE)
        /\ Grown(c.failed, b.failed, U + un, FALSE)
    <3>1. s.ok \in BOOLEAN /\ tn = 1 /\ 0 \in Nat /\ 1 \in Nat
      BY <1>1, <1>8, <1>10
    <3>2. 1 <= tn /\ 0 <= dn /\ 0 <= un
      BY <1>10, <3>1
    <3>3. /\ Grown(c.target, s.c.target + 1, T + tn, FALSE)
          /\ Grown(c.decoded, s.c.decoded + 0, D + dn, FALSE)
          /\ Grown(c.failed, s.c.failed + 0, U + un, FALSE)
      BY <1>4, <1>5, <1>6, <1>10, <3>1, <3>2, GrowsOn
    <3>4. b.target = s.c.target + 1 /\ b.decoded = s.c.decoded + 0 /\ b.failed = s.c.failed + 0
      BY <1>6, <2>2, <2>3
    <3> QED BY <3>3, <3>4
  <2> HIDE DEF t
  <2>6. t.c = b /\ t.d = s.d /\ t.ok = FALSE /\ t \in [c : Tally, d : Payload, ok : BOOLEAN]
    BY <1>1, <2>1, <2>3
  <2>7. t \in Handling(c, f, fs, i)
    BY <1>4, <2>3, <2>4, <2>5, <2>6 DEF Handling
  <2> QED BY <2>7 DEF m, t
<1>9. CASE s.ok /\ m.target /\ i # bad
  <2> DEFINE x == s.c.target + 1
             y == s.c.decoded + dn
             z == s.c.failed + un
             fl == Append(s.c.files, path)
             b == t.c
             e == [p \in DOMAIN s.d \cup {path} |-> IF p = path THEN m ELSE s.d[p]]
  <2>2. /\ x \in Nat /\ x = s.c.target + 1 /\ y \in Nat /\ z \in Nat
        /\ y = s.c.decoded + dn /\ z = s.c.failed + un /\ y + z = s.c.decoded + s.c.failed + 1
    <3>1. dn + un = 1 /\ dn \in Nat /\ un \in Nat
      BY <1>9, <1>10
    <3> DEFINE p == s.c.decoded
               q == s.c.failed
    <3>2. p \in Nat /\ q \in Nat
      BY <1>6
    <3> HIDE DEF p, q
    <3>3. (p + dn) + (q + un) = p + q + 1 /\ p + dn \in Nat /\ q + un \in Nat
      BY <3>1, <3>2
    <3>4. x \in Nat /\ x = s.c.target + 1
      BY <1>6
    <3> QED BY <3>3, <3>4 DEF p, q
  <2>3. n \in Nat /\ path \in Nat \X Nat
    BY <1>2
  <2>4. fl \in Seq(Nat \X Nat)
    BY <1>6, <2>3
  <2>1. /\ t.d = e /\ t = [c |-> t.c, d |-> t.d, ok |-> t.ok]
        /\ b \in Tally /\ b.target = x /\ b.decoded = y /\ b.failed = z
        /\ b.files = fl /\ \A k \in Counters \ {"target", "decoded", "failed"} : b[k] = c[k]
    <3> DEFINE well == i # bad
               met == [s EXCEPT !.c.target = x, !.ok = well, !.d = e]
               listed == [met EXCEPT !.c = Listed(met, path)]
    <3>1. well
      BY <1>9
    <3>2. t = IF m.decodes THEN [listed EXCEPT !.c.decoded = @ + 1]
              ELSE [listed EXCEPT !.c.failed = @ + 1]
      BY <1>1, <1>9 DEF TargetMessage
    <3>3. x = s.c.target + 1 /\ fl = Append(s.c.files, path) /\ y = s.c.decoded + dn /\ z = s.c.failed + un
      OBVIOUS
    <3> HIDE DEF b
    <3> HIDE DEF t, well, x, y, z, fl, e
    <3>4. /\ met.c = [s.c EXCEPT !.target = x] /\ met.d = e /\ met.ok = well
          /\ met = [c |-> met.c, d |-> met.d, ok |-> met.ok]
      <4> DEFINE sc == s.c
                 sd == s.d
                 sk == s.ok
      <4>1. s = [c |-> sc, d |-> sd, ok |-> sk] /\ sc = s.c
        BY <1>1
      <4>3. met = [s EXCEPT !.c.target = x, !.ok = well, !.d = e]
        OBVIOUS
      <4> HIDE DEF sc, sd, sk, met
      <4>2. /\ met.c = [sc EXCEPT !.target = x] /\ met.d = e /\ met.ok = well
            /\ met = [c |-> met.c, d |-> met.d, ok |-> met.ok]
        BY <4>1, <4>3
      <4> QED BY <4>1, <4>2
    <3> HIDE DEF met
    <3>5. Listed(met, path) = [s.c EXCEPT !.target = x, !.files = fl]
      BY <1>1, <3>1, <3>3, <3>4 DEF Listed, Tally
    <3>6. /\ listed.c = [s.c EXCEPT !.target = x, !.files = fl] /\ listed.d = e /\ listed.ok = well
          /\ listed = [c |-> listed.c, d |-> listed.d, ok |-> listed.ok]
      BY <3>4, <3>5
    <3> HIDE DEF listed
    <3>9. /\ listed.c \in Tally /\ listed.c.target = x /\ listed.c.files = fl
          /\ listed.c.decoded = s.c.decoded /\ listed.c.failed = s.c.failed
          /\ \A k \in Counters \ {"target", "decoded", "failed"} : listed.c[k] = c[k]
      BY <1>1, <2>2, <2>4, <3>6, CounterNames DEF Tally, Summed
    <3>7. CASE m.decodes
      <4>1. y = s.c.decoded + 1 /\ z = s.c.failed
        BY <1>6, <1>9, <1>10, <3>3, <3>7
      <4>2. t = [listed EXCEPT !.c.decoded = @ + 1]
        BY <3>2, <3>7
      <4> DEFINE lc == listed.c
                 v == lc.decoded + 1
      <4>3. /\ t.c = [lc EXCEPT !.decoded = v] /\ t.d = e
            /\ t = [c |-> t.c, d |-> t.d, ok |-> t.ok]
        BY <3>6, <4>2
      <4>4. v \in Nat /\ v = s.c.decoded + 1
        BY <1>6, <3>9
      <4> HIDE DEF v
      <4>5. /\ t.c \in Tally /\ t.c.decoded = v /\ t.c.files = lc.files
            /\ \A k \in Counters \ {"decoded"} : t.c[k] = lc[k]
        BY <3>9, <4>3, <4>4, CounterNames DEF Tally, Summed
      <4> QED BY <3>9, <4>1, <4>3, <4>4, <4>5, CounterNames DEF Summed, b
    <3>8. CASE ~m.decodes
      <4>1. y = s.c.decoded /\ z = s.c.failed + 1
        BY <1>6, <1>9, <1>10, <3>3, <3>8
      <4>2. t = [listed EXCEPT !.c.failed = @ + 1]
        BY <3>2, <3>8
      <4> DEFINE lc == listed.c
                 v == lc.failed + 1
      <4>3. /\ t.c = [lc EXCEPT !.failed = v] /\ t.d = e
            /\ t = [c |-> t.c, d |-> t.d, ok |-> t.ok]
        BY <3>6, <4>2
      <4>4. v \in Nat /\ v = s.c.failed + 1
        BY <1>6, <3>9
      <4> HIDE DEF v
      <4>5. /\ t.c \in Tally /\ t.c.failed = v /\ t.c.files = lc.files
            /\ \A k \in Counters \ {"failed"} : t.c[k] = lc[k]
        BY <3>9, <4>3, <4>4, CounterNames DEF Tally, Summed
      <4> QED BY <3>9, <4>1, <4>3, <4>4, <4>5, CounterNames DEF Summed, b
    <3> QED BY <3>7, <3>8
  <2> HIDE DEF x, y, z, b
  <2>6. e \in Payload /\ Filed(b, e, fs)
    <3>1. m = fs[n].messages[i]
      BY DEF m
    <3>2. b.files = Append(s.c.files, path)
      BY <2>1 DEF fl
    <3>3. b.decoded + b.failed = s.c.decoded + s.c.failed + 1
      BY <2>2, <2>1
    <3>4. /\ DOMAIN e = DOMAIN s.d \cup {path} /\ e[path] = m
          /\ \A p \in DOMAIN s.d : p # path => e[p] = s.d[p]
      OBVIOUS
    <3>5. e \in Payload
      <4>1. PICK S \in SUBSET (Nat \X Nat) : s.d \in [S -> ProbeMessage]
        BY <1>1 DEF Payload
      <4>2. S \cup {path} \in SUBSET (Nat \X Nat) /\ e \in [S \cup {path} -> ProbeMessage]
        BY <1>3, <2>3, <4>1
      <4> QED BY <4>2 DEF Payload
    <3>6. path = <<n, i>> /\ n \in DOMAIN fs /\ n \in Nat /\ i \in Nat /\ s.c \in Tally /\ b \in Tally
      BY <1>1, <1>2, <2>3, <2>1
    <3>7. Filed(s.c, s.d, fs)
      BY <1>1
    <3> HIDE DEF e, path
    <3>8. e[path] = fs[n].messages[i]
      BY <3>1, <3>4
    <3>9. Filed(b, e, fs)
      <4>1. /\ s.c.files \in Seq(Nat \X Nat) /\ Len(s.c.files) = s.c.decoded + s.c.failed
            /\ ToSet(s.c.files) = DOMAIN s.d /\ path \in Nat \X Nat
        BY <1>6, <2>3, <3>7 DEF Filed
      <4> DEFINE old == s.c.files
                 new == b.files
      <4>7. old \in Seq(Nat \X Nat) /\ new = Append(old, path) /\ path \in Nat \X Nat
        BY <3>2, <4>1
      <4> HIDE DEF old, new
      <4>8. /\ Len(old) \in Nat /\ DOMAIN old = 1 .. Len(old) /\ DOMAIN new = 1 .. Len(old) + 1
            /\ new[Len(old) + 1] = path /\ Len(new) = Len(old) + 1
            /\ \A j \in 1 .. Len(old) : new[j] = old[j]
        BY <4>7
      <4>2. /\ Len(s.c.files) \in Nat /\ DOMAIN s.c.files = 1 .. Len(s.c.files)
            /\ DOMAIN b.files = 1 .. Len(s.c.files) + 1
            /\ b.files[Len(s.c.files) + 1] = path /\ Len(b.files) = Len(s.c.files) + 1
            /\ \A j \in 1 .. Len(s.c.files) : b.files[j] = s.c.files[j]
        BY <4>8 DEF old, new
      <4>3. \A j : j \in 1 .. Len(s.c.files) + 1 <=> j \in 1 .. Len(s.c.files) \/ j = Len(s.c.files) + 1
        BY <4>2
      <4>4. ToSet(b.files) = ToSet(s.c.files) \cup {path}
        BY <4>2, <4>3 DEF ToSet
      <4>5. Len(b.files) = b.decoded + b.failed
        BY <3>3, <4>1, <4>2
      <4>6. ASSUME NEW p \in DOMAIN e PROVE p[1] \in DOMAIN fs /\ e[p] = fs[p[1]].messages[p[2]]
        <5>1. CASE p = path
          BY <3>6, <3>8, <5>1
        <5>2. CASE p # path /\ p \in DOMAIN s.d
          BY <3>4, <3>7, <5>2 DEF Filed
        <5> QED BY <3>4, <5>1, <5>2
      <4> QED BY <3>4, <4>1, <4>4, <4>5, <4>6 DEF Filed
    <3> QED BY <3>5, <3>9
  <2> HIDE DEF e
  <2>7. /\ Grown(c.target, b.target, T + tn, TRUE) /\ Grown(c.decoded, b.decoded, D + dn, TRUE)
        /\ Grown(c.failed, b.failed, U + un, TRUE)
    <3>1. s.ok = TRUE /\ tn = 1
      BY <1>1, <1>9, <1>10
    <3>2. 1 <= tn /\ dn <= dn /\ un <= un
      BY <1>10, <3>1
    <3>3. /\ Grown(c.target, s.c.target + 1, T + tn, TRUE)
          /\ Grown(c.decoded, s.c.decoded + dn, D + dn, TRUE)
          /\ Grown(c.failed, s.c.failed + un, U + un, TRUE)
      BY <1>4, <1>5, <1>6, <1>10, <3>1, <3>2, GrowsOn
    <3> QED BY <2>2, <2>1, <3>3
  <2> HIDE DEF t
  <2>8. t.c = b /\ t.d = e /\ t.ok = TRUE /\ t \in [c : Tally, d : Payload, ok : BOOLEAN]
    <3>1. t.ok = TRUE
      BY <1>1, <1>9 DEF TargetMessage, t
    <3>2. t.ok \in BOOLEAN
      BY <3>1
    <3> QED BY <2>1, <2>6, <3>1, <3>2 DEF b
  <2>9. t \in Handling(c, f, fs, i)
    BY <1>4, <2>1, <2>6, <2>7, <2>8 DEF Handling
  <2> QED BY <2>9 DEF m, t
<1> QED BY <1>3, <1>7, <1>8, <1>9 DEF m, t

\* A frame is handled, up to its row or its acknowledgement or the write that
\* fails: its counters lie between those before it and those with it, and are
\* the latter when all went well.
LEMMA HandledEffect ==
  ASSUME NEW f \in ProbeFrame, NEW bad \in Nat, counts \in Tally, payloads \in Payload,
         received \in Seq(ProbeFrame), Filed(counts, payloads, received)
  PROVE  LET s == Handled(f, Len(received) + 1, bad)
             fs == Append(received, f)
         IN  /\ s.c \in Tally /\ s.d \in Payload /\ s.ok \in BOOLEAN /\ Filed(s.c, s.d, fs)
             /\ s.c.frame = counts.frame + 1
             /\ \A k \in Counters : counts[k] <= s.c[k] /\ s.c[k] <= counts[k] + Share(f)[k]
             /\ (s.ok /\ f.body # "corrupt" /\ ~Sends(f)) =>
                  \A k \in Counters : s.c[k] = counts[k] + Share(f)[k]
             /\ (s.ok /\ f.body # "corrupt" /\ Sends(f)) =>
                  /\ \A k \in Counters \ {"ack", "rows"} : s.c[k] = counts[k] + Share(f)[k]
                  /\ s.c.ack = counts.ack /\ s.c.rows = counts.rows
<1> DEFINE n == Len(received) + 1
           fs == Append(received, f)
           all == Len(f.messages)
           one == IF f.body = "text" THEN 0 ELSE 1
           x == counts.frame + 1
           y == counts.binary + one
           new == [counts EXCEPT !.frame = x, !.binary = y]
           well == f.body = "text" \/ bad # 0
           begun == [c |-> new, d |-> payloads, ok |-> well]
           sound == [begun EXCEPT !.c.message = @ + all]
           parsed == CASE ~begun.ok \/ f.body \in {"text", "corrupt"} -> begun
                       [] begun.ok /\ f.body = "malformed" -> [begun EXCEPT !.c.parse_error = @ + 1]
                       [] begun.ok /\ f.body = "sound" -> TargetMessages(sound, f, n, bad)
           Rest == Counters \ {"ack", "rows"}
<1>1. /\ f.body \in {"text", "sound", "malformed", "corrupt"} /\ f.messages \in Seq(ProbeMessage)
      /\ all \in Nat /\ fs \in Seq(ProbeFrame) /\ n \in DOMAIN fs /\ fs[n] = f /\ n \in Nat
  BY DEF ProbeFrame
<1>2. \A k \in Counters : counts[k] \in Nat /\ Share(f)[k] \in Nat
  BY ShareType, CounterNames DEF Tally, Summed
<1>3. Filed(counts, payloads, fs)
  <2>1. \A i \in DOMAIN received : i \in DOMAIN fs /\ fs[i] = received[i]
    OBVIOUS
  <2> QED BY <2>1 DEF Filed
<1>4. /\ Share(f).frame = 1 /\ Share(f).rows = 1 /\ Share(f).binary = one
      /\ f.body # "malformed" => Share(f).parse_error = 0
      /\ f.body = "malformed" => Share(f).parse_error = 1
      /\ f.body # "sound" => /\ Share(f).message = 0 /\ Share(f).target = 0 /\ Share(f).decoded = 0
                            /\ Share(f).failed = 0 /\ Share(f).ack = 0
      /\ f.body = "sound" => /\ Share(f).message = all
                            /\ Share(f).target = Cardinality(Targets(f, all))
                            /\ Share(f).decoded = Cardinality(Decoded(f, all))
                            /\ Share(f).failed = Cardinality(Undecoded(f, all))
      /\ ~Sends(f) => Share(f).ack = 0
  BY DEF Share, Sends
<1>5. /\ new \in Tally /\ new.frame = counts.frame + 1 /\ new.binary = counts.binary + Share(f).binary
      /\ new.files = counts.files
      /\ \A k \in Counters \ {"frame", "binary"} : new[k] = counts[k]
  <2>1. x \in Nat /\ y \in Nat /\ x = counts.frame + 1 /\ y = counts.binary + Share(f).binary
    BY <1>2, <1>4, CounterNames DEF Summed
  <2> HIDE DEF x, y
  <2> QED BY <2>1, CounterNames DEF Tally, Summed
<1>6. /\ begun.c = new /\ begun.d = payloads /\ begun.ok = well
      /\ begun = [c |-> begun.c, d |-> begun.d, ok |-> begun.ok]
  <2> HIDE DEF well, new
  <2> QED OBVIOUS
<1>7. Filed(new, payloads, fs)
  BY <1>3, <1>5, CounterNames DEF Filed, Summed
<1> HIDE DEF new, begun
<1>8. /\ parsed.c \in Tally /\ parsed.d \in Payload /\ parsed.ok \in BOOLEAN
      /\ Filed(parsed.c, parsed.d, fs) /\ parsed.c.frame = counts.frame + 1
      /\ parsed.c.rows = counts.rows /\ parsed.c.ack = counts.ack
      /\ \A k \in Rest : counts[k] <= parsed.c[k] /\ parsed.c[k] <= counts[k] + Share(f)[k]
      /\ (parsed.ok /\ f.body # "corrupt") => \A k \in Rest : parsed.c[k] = counts[k] + Share(f)[k]
      /\ parsed = [c |-> parsed.c, d |-> parsed.d, ok |-> parsed.ok]
  <2>1. CASE ~well \/ f.body \in {"text", "corrupt"}
    <3>1. parsed = begun
      BY <1>6, <2>1
    <3>2. \A k \in Rest : counts[k] <= new[k] /\ new[k] <= counts[k] + Share(f)[k]
      <4> SUFFICES ASSUME NEW k \in Rest PROVE counts[k] <= new[k] /\ new[k] <= counts[k] + Share(f)[k]
        OBVIOUS
      <4> DEFINE c == counts[k]
                 share == Share(f)[k]
      <4>1. c \in Nat /\ share \in Nat
        BY <1>2
      <4>2. new[k] \in {c, c + share}
        <5>1. CASE k \in {"frame", "binary"}
          BY <1>4, <1>5, <5>1
        <5>2. CASE k \notin {"frame", "binary"}
          BY <1>5, <5>2
        <5> QED BY <5>1, <5>2
      <4> HIDE DEF c, share
      <4>3. c <= new[k] /\ new[k] <= c + share
        BY <4>1, <4>2
      <4> QED BY <4>3 DEF c, share
    <3>3. ASSUME f.body = "text" PROVE \A k \in Rest : new[k] = counts[k] + Share(f)[k]
      BY <1>2, <1>4, <1>5, <3>3, CounterNames DEF Summed
    <3>4. new.rows = counts.rows /\ new.ack = counts.ack
      BY <1>5, CounterNames DEF Summed
    <3>5. (well /\ f.body # "corrupt") => f.body = "text"
      BY <2>1
    <3>6. well \in BOOLEAN
      OBVIOUS
    <3> HIDE DEF parsed, well
    <3> QED BY <1>5, <1>6, <1>7, <3>1, <3>2, <3>3, <3>4, <3>5, <3>6
  <2>2. CASE well /\ f.body = "malformed"
    <3> DEFINE v == counts.parse_error + 1
               nc == [new EXCEPT !.parse_error = v]
    <3>1. parsed = [begun EXCEPT !.c.parse_error = @ + 1]
      BY <1>6, <2>2
    <3>2. v \in Nat /\ v = new.parse_error + 1 /\ v = counts.parse_error + Share(f).parse_error
      BY <1>2, <1>4, <1>5, <2>2, CounterNames DEF Summed
    <3> HIDE DEF parsed, well, v
    <3>3. /\ parsed.c = nc /\ parsed.d = payloads /\ parsed.ok = well
          /\ parsed = [c |-> parsed.c, d |-> parsed.d, ok |-> parsed.ok]
      BY <1>6, <3>1, <3>2
    <3>4. /\ nc \in Tally /\ nc.frame = counts.frame + 1 /\ nc.files = new.files
          /\ nc.parse_error = counts.parse_error + Share(f).parse_error
          /\ nc.decoded = new.decoded /\ nc.failed = new.failed
          /\ \A k \in Counters \ {"parse_error"} : nc[k] = new[k]
      BY <1>5, <3>2, CounterNames DEF Tally, Summed
    <3> HIDE DEF nc
    <3>5. Filed(nc, payloads, fs)
      BY <1>7, <3>4 DEF Filed
    <3>6. \A k \in Rest : nc[k] = counts[k] + Share(f)[k]
      BY <1>2, <1>4, <1>5, <2>2, <3>4, CounterNames DEF Summed
    <3>7. \A k \in Rest : counts[k] <= nc[k] /\ nc[k] <= counts[k] + Share(f)[k]
      BY <1>2, <3>6
    <3>8. nc.rows = counts.rows /\ nc.ack = counts.ack
      BY <1>5, <3>4, CounterNames DEF Summed
    <3>9. well \in BOOLEAN
      BY DEF well
    <3> QED BY <3>3, <3>4, <3>5, <3>6, <3>7, <3>8, <3>9
  <2>3. CASE well /\ f.body = "sound"
    <3> DEFINE v == counts.message + all
               nc == [new EXCEPT !.message = v]
               Ok == [i \in 0 .. all |-> Handling(nc, f, fs, i)]
    <3>1. parsed = TargetMessages(sound, f, n, bad)
      BY <1>6, <2>3
    <3>2. v \in Nat /\ v = new.message + all /\ v = counts.message + Share(f).message
      <4>1. /\ counts.message \in Nat /\ new.message = counts.message
            /\ Share(f).message = all /\ all \in Nat
        BY <1>1, <1>2, <1>4, <1>5, <2>3, CounterNames DEF Summed
      <4> HIDE DEF all
      <4> QED BY <4>1
    <3> HIDE DEF parsed, v
    <3>3. /\ sound.c = nc /\ sound.d = payloads /\ sound.ok = well
          /\ sound = [c |-> sound.c, d |-> sound.d, ok |-> sound.ok]
      <4> HIDE DEF well, all
      <4> QED BY <1>6, <3>2
    <3>4. /\ nc \in Tally /\ nc.frame = counts.frame + 1 /\ nc.files = new.files
          /\ nc.message = counts.message + Share(f).message
          /\ nc.decoded = new.decoded /\ nc.failed = new.failed /\ nc.target = new.target
          /\ \A k \in Counters \ {"message"} : nc[k] = new[k]
      BY <1>5, <3>2, CounterNames DEF Tally, Summed
    <3> HIDE DEF nc, sound
    <3>5. Filed(nc, payloads, fs)
      BY <1>7, <3>4 DEF Filed
    <3>6. sound \in Handling(nc, f, fs, 0)
      <4>1. /\ Grown(nc.target, nc.target, 0, well) /\ Grown(nc.decoded, nc.decoded, 0, well)
            /\ Grown(nc.failed, nc.failed, 0, well)
        <5>1. nc.target \in Nat /\ nc.decoded \in Nat /\ nc.failed \in Nat
          BY <3>4 DEF Tally
        <5>2. \A a \in Nat : a <= a /\ a <= a + 0 /\ a = a + 0
          OBVIOUS
        <5> HIDE DEF well
        <5> QED BY <5>1, <5>2 DEF Grown
      <4>2. /\ Cardinality(Targets(f, 0)) = 0 /\ Cardinality(Decoded(f, 0)) = 0
            /\ Cardinality(Undecoded(f, 0)) = 0
        BY MessageSets
      <4>3. well \in BOOLEAN
        OBVIOUS
      <4> HIDE DEF well
      <4>4. sound \in [c : Tally, d : Payload, ok : BOOLEAN]
        BY <3>3, <3>4, <4>3
      <4> QED BY <3>3, <3>5, <4>1, <4>2, <4>4 DEF Handling
    <3>7. \A i \in 1 .. all : \A s \in Ok[i - 1] : TargetMessage(s, f.messages[i], n, i, bad) \in Ok[i]
      <4>1. ASSUME NEW i \in 1 .. all, NEW s \in Ok[i - 1]
            PROVE  TargetMessage(s, f.messages[i], n, i, bad) \in Ok[i]
        <5>1. Ok[i - 1] = Handling(nc, f, fs, i - 1) /\ Ok[i] = Handling(nc, f, fs, i)
          BY <1>1
        <5>2. /\ nc \in Tally /\ fs \in Seq(ProbeFrame) /\ n \in DOMAIN fs /\ fs[n] = f
              /\ i \in 1 .. Len(f.messages) /\ s \in Handling(nc, f, fs, i - 1)
          BY <1>1, <3>4, <5>1
        <5> HIDE DEF Ok, fs, n
        <5>3. TargetMessage(s, f.messages[i], n, i, bad) \in Handling(nc, f, fs, i)
          BY <5>2, TargetMessageKeeps
        <5> QED BY <5>1, <5>3
      <4> QED BY <4>1
    <3>8. sound \in Ok[0]
      BY <1>1, <3>6
    <3>9. parsed \in Ok[all]
      <4> HIDE DEF Ok
      <4> QED BY <1>1, <3>1, <3>7, <3>8, TargetsKeep
    <3>10. parsed \in Handling(nc, f, fs, all)
      BY <1>1, <3>9
    <3>11. /\ parsed.c \in Tally /\ parsed.d \in Payload /\ parsed.ok \in BOOLEAN
           /\ parsed = [c |-> parsed.c, d |-> parsed.d, ok |-> parsed.ok]
           /\ Filed(parsed.c, parsed.d, fs)
           /\ \A k \in Counters \ {"target", "decoded", "failed"} : parsed.c[k] = nc[k]
           /\ Grown(nc.target, parsed.c.target, Share(f).target, parsed.ok)
           /\ Grown(nc.decoded, parsed.c.decoded, Share(f).decoded, parsed.ok)
           /\ Grown(nc.failed, parsed.c.failed, Share(f).failed, parsed.ok)
      BY <1>4, <2>3, <3>10 DEF Handling
    <3>12. nc.target = counts.target /\ nc.decoded = counts.decoded /\ nc.failed = counts.failed
      BY <1>5, <3>4, CounterNames DEF Summed
    <3>13. ASSUME NEW k \in Rest
           PROVE  /\ counts[k] <= parsed.c[k] /\ parsed.c[k] <= counts[k] + Share(f)[k]
                  /\ parsed.ok => parsed.c[k] = counts[k] + Share(f)[k]
      <4>1. CASE k \in {"target", "decoded", "failed"}
        BY <3>11, <3>12, <4>1 DEF Grown
      <4>2. CASE k \in {"frame", "binary", "message", "parse_error"}
        <5>1. parsed.c[k] = counts[k] + Share(f)[k]
          <6>1. parsed.c[k] = nc[k]
            BY <3>11, <4>2
          <6>2. CASE k = "message"
            BY <3>4, <6>1, <6>2
          <6>3. CASE k # "message"
            BY <1>2, <1>4, <1>5, <2>3, <3>4, <4>2, <6>1, <6>3
          <6> QED BY <6>2, <6>3
        <5>2. counts[k] \in Nat /\ Share(f)[k] \in Nat
          BY <1>2
        <5>3. counts[k] <= parsed.c[k] /\ parsed.c[k] <= counts[k] + Share(f)[k]
          BY <5>1, <5>2
        <5> QED BY <5>1, <5>3
      <4> QED BY <4>1, <4>2, CounterNames DEF Summed
    <3>14. parsed.c.frame = counts.frame + 1
      BY <3>4, <3>11, CounterNames
    <3>15. parsed.c.rows = counts.rows /\ parsed.c.ack = counts.ack
      BY <1>5, <3>4, <3>11, CounterNames DEF Summed
    <3> HIDE DEF Rest
    <3> QED BY <3>11, <3>13, <3>14, <3>15
  <2> QED BY <1>1, <2>1, <2>2, <2>3
<1> DEFINE s == Handled(f, n, bad)
<1>9. s = IF ~parsed.ok \/ f.body = "corrupt" \/ Sends(f) THEN parsed
          ELSE IF bad = all + 1 THEN [parsed EXCEPT !.ok = FALSE]
          ELSE [parsed EXCEPT !.c = Row(@, f)]
  BY DEF Handled, begun, new
<1> HIDE DEF s, parsed
<1>10. Share(f).rows = 1 /\ Share(f).rows \in Nat /\ Share(f).ack \in Nat /\ counts.rows \in Nat /\ counts.ack \in Nat
  BY <1>2, <1>4, CounterNames DEF Summed
<1>11. \A k \in Counters : k \in Rest \/ k = "rows" \/ k = "ack"
  OBVIOUS
<1>12. \A k \in Counters : counts[k] <= parsed.c[k] /\ parsed.c[k] <= counts[k] + Share(f)[k]
  <2>1. /\ counts.rows <= parsed.c.rows /\ parsed.c.rows <= counts.rows + Share(f).rows
        /\ counts.ack <= parsed.c.ack /\ parsed.c.ack <= counts.ack + Share(f).ack
    BY <1>8, <1>10
  <2> QED BY <1>8, <1>11, <2>1
<1>13. CASE ~parsed.ok \/ f.body = "corrupt" \/ Sends(f)
  <2>1. s = parsed
    BY <1>9, <1>13
  <2>2. ~(s.ok /\ f.body # "corrupt" /\ ~Sends(f))
    BY <1>13, <2>1
  <2> HIDE DEF Rest
  <2>3. (s.ok /\ f.body # "corrupt" /\ Sends(f)) => \A k \in Rest : s.c[k] = counts[k] + Share(f)[k]
    BY <1>8, <2>1
  <2> QED BY <1>8, <1>12, <2>1, <2>2, <2>3 DEF Rest, s
<1>14. CASE parsed.ok /\ f.body # "corrupt" /\ ~Sends(f) /\ bad = all + 1
  <2>1. s = [parsed EXCEPT !.ok = FALSE]
    BY <1>9, <1>14
  <2>2. s.c = parsed.c /\ s.d = parsed.d /\ s.ok = FALSE
    BY <1>8, <2>1
  <2> QED BY <1>8, <1>12, <2>2 DEF s
<1>15. CASE parsed.ok /\ f.body # "corrupt" /\ ~Sends(f) /\ bad # all + 1
  <2> DEFINE v == counts.rows + 1
             nc == [parsed.c EXCEPT !.rows = v]
  <2>1. s = [parsed EXCEPT !.c = Row(@, f)]
    BY <1>9, <1>15
  <2>2. Row(parsed.c, f) = nc /\ v \in Nat /\ v = counts.rows + 1
    BY <1>8, <1>10 DEF Row
  <2> HIDE DEF v
  <2>3. /\ nc \in Tally /\ nc.files = parsed.c.files /\ nc.rows = v
        /\ \A k \in Counters \ {"rows"} : nc[k] = parsed.c[k]
    BY <1>8, <2>2, CounterNames DEF Tally, Summed
  <2> HIDE DEF nc
  <2>4. s.c = nc /\ s.d = parsed.d /\ s.ok = parsed.ok
    BY <1>8, <2>1, <2>2
  <2>5. Filed(nc, parsed.d, fs)
    BY <1>8, <2>3, CounterNames DEF Filed, Summed
  <2>6. \A k \in Counters : nc[k] = counts[k] + Share(f)[k]
    <3>1. nc.rows = counts.rows + Share(f).rows
      BY <1>10, <2>2, <2>3
    <3>2. nc.ack = counts.ack + Share(f).ack
      BY <1>4, <1>8, <1>10, <1>15, <2>3, CounterNames DEF Summed
    <3>3. \A k \in Rest : nc[k] = counts[k] + Share(f)[k]
      BY <1>8, <1>15, <2>3
    <3> QED BY <1>11, <3>1, <3>2, <3>3
  <2>7. \A k \in Counters : counts[k] <= nc[k] /\ nc[k] <= counts[k] + Share(f)[k]
    BY <1>2, <2>6
  <2>8. nc.frame = counts.frame + 1
    BY <1>8, <2>3, CounterNames
  <2> QED BY <1>8, <1>15, <2>3, <2>4, <2>5, <2>6, <2>7, <2>8 DEF s
<1> QED BY <1>13, <1>14, <1>15

-----------------------------------------------------------------------------
(* The probe's loop, its heartbeat and its report. *)

\* The counters are those of the frames received; those but for an
\* acknowledgement and a row; or anything between without and with the last.
Exact == \A k \in Counters : counts[k] = Reported(received)[k]
Unacked ==
  /\ received # <<>> /\ Sends(Last(received))
  /\ \A k \in Counters \ {"ack", "rows"} : counts[k] = Reported(received)[k]
  /\ \A k \in {"ack", "rows"} : counts[k] = Reported(Front(received))[k]
Within ==
  /\ received # <<>> /\ counts.frame = Reported(received).frame
  /\ \A k \in Counters : Reported(Front(received))[k] <= counts[k] /\ counts[k] <= Reported(received)[k]

ProbeInv ==
  /\ at \in {"connecting", "receiving", "acking", "leaving", "finally", "reporting", "returned", "raised"}
  /\ transport_error \in {"none", "refused", "OSError", "ConnectionClosed", "uncaught"}
  /\ counts \in Tally /\ payloads \in Payload /\ received \in Seq(ProbeFrame)
  /\ Filed(counts, payloads, received)
  /\ at \in {"connecting", "receiving", "acking"} => transport_error = "none"
  /\ at = "acking" => Unacked
  /\ at # "acking" /\ transport_error \in {"none", "refused"} => Exact
  /\ transport_error \in {"OSError", "ConnectionClosed"} => Within
  /\ at \in {"reporting", "returned"} => transport_error # "uncaught"
  /\ websocket = "none" => received = <<>> /\ at \notin {"receiving", "acking"}
  /\ heartbeat_counter \in Nat /\ pings \in Nat
  /\ heartbeat_counter <= pings /\ pings <= heartbeat_counter + 1
  /\ heartbeat_task \in {"none", "asleep"} => pings = heartbeat_counter
  /\ heartbeat_task = "sending" => pings = heartbeat_counter + 1
  /\ at = "connecting" => heartbeat_task = "none"
  /\ at # "returned" => probe_report = <<>>
  /\ ReportIsHonest

\* The last frame and those before it.
LEMMA LastFrame ==
  ASSUME NEW fs \in Seq(ProbeFrame)
  PROVE  /\ fs # <<>> => /\ Front(fs) \in Seq(ProbeFrame) /\ Last(fs) \in ProbeFrame
                         /\ fs = Append(Front(fs), Last(fs))
         /\ \A f \in ProbeFrame : /\ Append(fs, f) \in Seq(ProbeFrame) /\ Append(fs, f) # <<>>
                                  /\ Front(Append(fs, f)) = fs /\ Last(Append(fs, f)) = f
<1>1. ASSUME fs # <<>>
      PROVE  /\ Front(fs) \in Seq(ProbeFrame) /\ Last(fs) \in ProbeFrame
             /\ fs = Append(Front(fs), Last(fs))
  <2> DEFINE n == Len(fs)
             front == SubSeq(fs, 1, n - 1)
  <2>1. n \in Nat \ {0} /\ DOMAIN fs = 1 .. n /\ fs = [i \in 1 .. n |-> fs[i]]
    BY <1>1
  <2>2. fs[n] \in ProbeFrame
    BY <2>1
  <2>3. front \in Seq(ProbeFrame) /\ Len(front) = n - 1 /\ \A i \in 1 .. n - 1 : front[i] = fs[i]
    BY <2>1
  <2>4. Front(fs) = front /\ Last(fs) = fs[n]
    BY DEF Front, Last
  <2> HIDE DEF n, front
  <2>5. /\ Append(front, fs[n]) \in Seq(ProbeFrame) /\ Len(Append(front, fs[n])) = n
        /\ \A i \in 1 .. n : Append(front, fs[n])[i] = fs[i]
    BY <2>1, <2>2, <2>3
  <2>6. Append(front, fs[n]) = fs
    BY <2>1, <2>5
  <2> QED BY <2>2, <2>3, <2>4, <2>6
<1>2. ASSUME NEW f \in ProbeFrame
      PROVE  /\ Append(fs, f) \in Seq(ProbeFrame) /\ Append(fs, f) # <<>>
             /\ Front(Append(fs, f)) = fs /\ Last(Append(fs, f)) = f
  <2> DEFINE gs == Append(fs, f)
  <2>1. gs \in Seq(ProbeFrame) /\ Len(gs) = Len(fs) + 1 /\ gs[Len(fs) + 1] = f /\ gs # <<>>
    OBVIOUS
  <2>2. SubSeq(gs, 1, Len(fs)) = fs
    OBVIOUS
  <2>3. Len(gs) - 1 = Len(fs)
    BY <2>1
  <2> HIDE DEF gs
  <2> QED BY <2>1, <2>2, <2>3 DEF Front, Last, gs
<1> QED BY <1>1, <1>2

\* A report on the same frames, under the same options, says the same.
LEMMA SameReport ==
  ASSUME UNCHANGED <<options, received>>
  PROVE  /\ Reported(received)' = Reported(received)
         /\ Reported(Front(received))' = Reported(Front(received))
         /\ Sends(Last(received))' = Sends(Last(received))
BY DEF Reported, Sends, Sum, SumFunction

\* So does what a report's counters should be.
LEMMA SameCounts ==
  ASSUME UNCHANGED <<options, received, counts>>
  PROVE  (Exact => Exact') /\ (Unacked => Unacked') /\ (Within => Within')
BY SameReport DEF Exact, Unacked, Within

\* A report that is written stays honest while nothing it speaks of changes.
LEMMA SameHonesty ==
  ASSUME UNCHANGED <<options, received, payloads, pings, probe_report>>, ReportIsHonest
  PROVE  ReportIsHonest'
BY SameReport DEF ReportIsHonest

\* There is nothing to be honest about before a report is written.
LEMMA NoReport ==
  ASSUME probe_report' = <<>>
  PROVE  ReportIsHonest'
BY DEF ReportIsHonest

\* The probe starts with nothing.
LEMMA ProbeStarts == ProbeInit => ProbeInv
<1> SUFFICES ASSUME ProbeInit PROVE ProbeInv
  OBVIOUS
<1>1. /\ at = "connecting" /\ websocket = "none" /\ heartbeat_task = "none" /\ heartbeat_counter = 0
      /\ pings = 0 /\ counts = NoCounts /\ payloads = <<>> /\ received = <<>>
      /\ transport_error = "none" /\ probe_report = <<>>
  BY DEF ProbeInit
<1>2. counts \in Tally /\ counts.files = <<>> /\ counts.decoded = 0 /\ counts.failed = 0
  BY <1>1 DEF NoCounts, Tally
<1>3. payloads \in Payload
  <2>1. payloads \in [{} -> ProbeMessage]
    BY <1>1
  <2> QED BY <2>1 DEF Payload
<1>4. Filed(counts, payloads, received)
  <2>1. DOMAIN payloads = {}
    BY <1>1
  <2> QED BY <1>1, <1>2, <2>1 DEF Filed, ToSet
<1>5. \A k \in Counters : counts[k] = 0
  BY <1>1, CounterNames DEF NoCounts, Summed
<1>6. Exact
  BY <1>1, <1>5, ReportedEmpty DEF Exact
<1>7. ReportIsHonest
  BY <1>1 DEF ReportIsHonest
<1> QED BY <1>1, <1>2, <1>3, <1>4, <1>6, <1>7 DEF ProbeInv

\* A step that counts nothing.
LEMMA CountsNothing ==
  ASSUME ProbeInv, UNCHANGED <<options, counts, payloads, received>>
  PROVE  /\ counts' \in Tally /\ payloads' \in Payload /\ received' \in Seq(ProbeFrame)
         /\ Filed(counts, payloads, received)'
         /\ (Exact => Exact') /\ (Unacked => Unacked') /\ (Within => Within')
BY SameCounts DEF ProbeInv, Filed

\* The handshake, the heartbeat and the end of the loop count no frame.
LEMMA ConnectionKeeps ==
  ASSUME ProbeInv, connect \/ loop_ends \/ connection_lost \/ leave \/ finally
  PROVE  ProbeInv'
<1>1. UNCHANGED <<options, counts, payloads, received, heartbeat_counter, pings, probe_report>>
  BY DEF connect, loop_ends, connection_lost, leave, finally, kept, transport
<1>2. /\ counts' \in Tally /\ payloads' \in Payload /\ received' \in Seq(ProbeFrame)
      /\ Filed(counts, payloads, received)'
      /\ (Exact => Exact') /\ (Unacked => Unacked') /\ (Within => Within')
  BY <1>1, CountsNothing
<1>3. ReportIsHonest'
  BY <1>1, SameHonesty DEF ProbeInv
<1>4. CASE connect
  <2>1. /\ at = "connecting" /\ transport_error = "none" /\ Exact /\ heartbeat_task = "none"
    BY <1>4 DEF connect, ProbeInv
  <2>2. \/ /\ at' = "receiving" /\ websocket' = "open" /\ heartbeat_task' \in {"none", "asleep"}
           /\ transport_error' = "none"
        \/ /\ at' = "leaving" /\ transport_error' = "refused" /\ websocket' = websocket
           /\ heartbeat_task' = "none"
    BY <1>4, <2>1 DEF connect, Leaves
  <2> QED BY <1>1, <1>2, <1>3, <2>1, <2>2 DEF ProbeInv
<1>5. CASE loop_ends
  <2>1. /\ at = "receiving" /\ at' = "leaving"
        /\ UNCHANGED <<websocket, heartbeat_task, transport_error>>
    BY <1>5 DEF loop_ends, transport
  <2> QED BY <1>1, <1>2, <1>3, <2>1 DEF ProbeInv
<1>6. CASE connection_lost
  <2>1. websocket' = "closed" /\ UNCHANGED <<at, heartbeat_task, transport_error>>
    BY <1>6 DEF connection_lost
  <2> QED BY <1>1, <1>2, <1>3, <2>1 DEF ProbeInv
<1>7. CASE leave
  <2>1. /\ at = "leaving" /\ at' = "finally" /\ UNCHANGED <<heartbeat_task, transport_error>>
        /\ websocket' = IF websocket = "open" THEN "closed" ELSE websocket
    BY <1>7 DEF leave
  <2> QED BY <1>1, <1>2, <1>3, <2>1 DEF ProbeInv
<1>8. CASE finally
  <2>1. /\ at = "finally" /\ UNCHANGED <<websocket, transport_error>>
        /\ at' = "raised" \/ (at' = "reporting" /\ transport_error # "uncaught")
        /\ heartbeat_task' = heartbeat_task \/ heartbeat_task' = "cancelled"
    BY <1>8 DEF finally
  <2> QED BY <1>1, <1>2, <1>3, <2>1 DEF ProbeInv
<1> QED BY <1>4, <1>5, <1>6, <1>7, <1>8

\* The heartbeat counts a ping once it is sent.
LEMMA HeartbeatKeeps ==
  ASSUME ProbeInv, heartbeat
  PROVE  ProbeInv'
<1>1. /\ UNCHANGED <<at, options, websocket, counts, payloads, received, transport_error, probe_report>>
      /\ at \notin {"returned", "raised"}
  BY DEF heartbeat, kept
<1>2. /\ counts' \in Tally /\ payloads' \in Payload /\ received' \in Seq(ProbeFrame)
      /\ Filed(counts, payloads, received)'
      /\ (Exact => Exact') /\ (Unacked => Unacked') /\ (Within => Within')
  BY <1>1, CountsNothing
<1>3. ReportIsHonest'
  BY <1>1, NoReport DEF ProbeInv
<1>4. /\ heartbeat_counter' \in Nat /\ pings' \in Nat
      /\ heartbeat_counter' <= pings' /\ pings' <= heartbeat_counter' + 1
      /\ heartbeat_task' \in {"none", "asleep"} => pings' = heartbeat_counter'
      /\ heartbeat_task' = "sending" => pings' = heartbeat_counter' + 1
      /\ at # "connecting"
  <2>1. /\ heartbeat_counter \in Nat /\ pings \in Nat
        /\ heartbeat_counter <= pings /\ pings <= heartbeat_counter + 1
        /\ heartbeat_task \in {"none", "asleep"} => pings = heartbeat_counter
        /\ heartbeat_task = "sending" => pings = heartbeat_counter + 1
        /\ at = "connecting" => heartbeat_task = "none"
    BY DEF ProbeInv
  <2>2. CASE heartbeat_task = "asleep" /\ heartbeat_task' = "sending" /\ pings' = pings + 1
             /\ heartbeat_counter' = heartbeat_counter
    BY <2>1, <2>2
  <2>3. CASE heartbeat_task \in {"asleep", "sending"} /\ heartbeat_task' = "failed"
             /\ pings' = pings /\ heartbeat_counter' = heartbeat_counter
    BY <2>1, <2>3
  <2>4. CASE heartbeat_task = "sending" /\ heartbeat_task' = "asleep" /\ pings' = pings
             /\ heartbeat_counter' = heartbeat_counter + 1
    BY <2>1, <2>4
  <2> QED BY <2>2, <2>3, <2>4 DEF heartbeat
<1> QED BY <1>1, <1>2, <1>3, <1>4 DEF ProbeInv

\* A report of all frames but the last, and of the last, whose counters a step
\* may still change.
LEMMA FrontShares ==
  ASSUME received \in Seq(ProbeFrame), received # <<>>
  PROVE  \A k \in Counters :
           /\ Reported(Front(received))[k] \in Nat /\ Share(Last(received))[k] \in Nat
           /\ Reported(received)[k] = Reported(Front(received))[k] + Share(Last(received))[k]
<1>1. /\ Front(received) \in Seq(ProbeFrame) /\ Last(received) \in ProbeFrame
      /\ received = Append(Front(received), Last(received))
  BY LastFrame
<1> DEFINE fs == Front(received)
           f == Last(received)
<1> HIDE DEF fs, f
<1>2. fs \in Seq(ProbeFrame) /\ f \in ProbeFrame /\ received = Append(fs, f)
  BY <1>1 DEF fs, f
<1>3. \A k \in Counters : /\ Reported(fs)[k] \in Nat /\ Share(f)[k] \in Nat
                          /\ Reported(Append(fs, f))[k] = Reported(fs)[k] + Share(f)[k]
  BY <1>2, ReportedAppends, ShareType
<1> QED BY <1>2, <1>3 DEF fs, f

\* An acknowledgement, and the row of its frame.
LEMMA AckKeeps ==
  ASSUME ProbeInv, ack
  PROVE  ProbeInv'
<1>1. /\ at = "acking" /\ Unacked /\ transport_error = "none" /\ counts \in Tally
      /\ received \in Seq(ProbeFrame) /\ received # <<>> /\ Sends(Last(received))
      /\ Filed(counts, payloads, received) /\ probe_report = <<>>
  BY DEF ack, ProbeInv, Unacked
<1>2. UNCHANGED <<options, websocket, heartbeat_task, heartbeat_counter, pings, payloads,
                 received, probe_report>>
  BY DEF ack, transport
<1>3. at' \in {"receiving", "leaving"}
  BY DEF ack, Again, Leaves
<1> DEFINE v == counts.ack + 1
           w == counts.rows + 1
           once == [counts EXCEPT !.ack = v]
           both == [once EXCEPT !.rows = w]
<1>4. v \in Nat /\ w \in Nat /\ v = counts.ack + 1 /\ w = counts.rows + 1
  BY <1>1 DEF Tally
<1>5. \/ counts' = both /\ transport_error' = "none"
      \/ counts' = once /\ transport_error' = "OSError"
      \/ counts' = counts /\ transport_error' = "ConnectionClosed"
  <2>1. Row(once, Last(received)) = both
    BY <1>1 DEF Row, Tally
  <2> QED BY <1>1, <2>1 DEF ack, Leaves
<1> HIDE DEF v, w
<1>6. /\ once \in Tally /\ once.files = counts.files /\ once.ack = v
      /\ \A k \in Counters \ {"ack"} : once[k] = counts[k]
  BY <1>1, <1>4, CounterNames DEF Tally, Summed
<1>7. /\ both \in Tally /\ both.files = counts.files /\ both.ack = v /\ both.rows = w
      /\ \A k \in Counters \ {"ack", "rows"} : both[k] = counts[k]
  <2> HIDE DEF once
  <2>1. /\ both \in Tally /\ both.files = once.files /\ both.rows = w
        /\ \A k \in Counters \ {"rows"} : both[k] = once[k]
    BY <1>4, <1>6, CounterNames DEF Tally, Summed
  <2> QED BY <1>6, <2>1, CounterNames DEF Summed
<1> HIDE DEF once, both
<1>8. \A k \in Counters :
        /\ Reported(Front(received))[k] \in Nat /\ Share(Last(received))[k] \in Nat
        /\ Reported(received)[k] = Reported(Front(received))[k] + Share(Last(received))[k]
  BY <1>1, FrontShares
<1>9. /\ Reported(received).ack = v /\ Reported(received).rows = w
      /\ counts.ack = Reported(Front(received)).ack /\ counts.rows = Reported(Front(received)).rows
  <2>1. Share(Last(received)).ack = 1 /\ Share(Last(received)).rows = 1
    BY <1>1 DEF Share
  <2>2. counts.ack = Reported(Front(received)).ack /\ counts.rows = Reported(Front(received)).rows
    BY <1>1 DEF Unacked
  <2> QED BY <1>4, <1>8, <2>1, <2>2, CounterNames DEF Summed
<1>10. \A k \in Counters \ {"ack", "rows"} : counts[k] = Reported(received)[k]
  BY <1>1 DEF Unacked
<1>11. /\ Reported(received)' = Reported(received) /\ Front(received)' = Front(received)
       /\ Reported(Front(received))' = Reported(Front(received))
  BY <1>2, SameReport
<1>12. \A k \in Counters : k \in Counters \ {"ack", "rows"} \/ k = "ack" \/ k = "rows"
  OBVIOUS
<1>13. counts' = both => Exact'
  BY <1>7, <1>9, <1>10, <1>11, <1>12 DEF Exact
<1>14. ASSUME counts' = once \/ counts' = counts PROVE Within'
  <2>1. /\ counts.ack <= Reported(received).ack /\ counts.rows <= Reported(received).rows
        /\ counts.ack <= v /\ v <= Reported(received).ack
        /\ Reported(Front(received)).ack <= counts.ack
        /\ Reported(Front(received)).ack <= v
        /\ Reported(Front(received)).rows <= counts.rows
    <3>1. counts.ack \in Nat /\ counts.rows \in Nat
      BY <1>1 DEF Tally
    <3> QED BY <1>4, <1>9, <3>1
  <2>2. \A k \in Counters \ {"ack", "rows"} :
          Reported(Front(received))[k] <= counts[k] /\ counts[k] <= Reported(received)[k]
    BY <1>8, <1>10
  <2>3. \A k \in Counters : Reported(Front(received))[k] <= counts'[k] /\ counts'[k] <= Reported(received)[k]
    <3>1. CASE counts' = counts
      BY <1>12, <2>1, <2>2, <3>1
    <3>2. CASE counts' = once
      BY <1>6, <1>12, <2>1, <2>2, <3>2
    <3> QED BY <1>14, <3>1, <3>2
  <2>4. counts'.frame = Reported(received).frame
    BY <1>6, <1>10, <1>14, CounterNames
  <2> QED BY <1>1, <1>2, <1>11, <2>3, <2>4 DEF Within
<1>15. counts' \in Tally /\ Filed(counts, payloads, received)'
  <2>1. /\ counts' \in Tally /\ counts'.files = counts.files
        /\ counts'.decoded = counts.decoded /\ counts'.failed = counts.failed
    BY <1>1, <1>5, <1>6, <1>7, CounterNames DEF Summed
  <2> QED BY <1>1, <1>2, <2>1 DEF Filed
<1>16. ReportIsHonest'
  BY <1>1, <1>2, NoReport
<1>17. /\ transport_error' \in {"none", "OSError", "ConnectionClosed"}
       /\ transport_error' = "none" => Exact'
       /\ transport_error' \in {"OSError", "ConnectionClosed"} => Within'
       /\ at' = "receiving" => transport_error' = "none"
  <2>1. at' = "receiving" => transport_error' = "none"
    BY <1>1 DEF ack, Leaves
  <2> QED BY <1>5, <1>13, <1>14, <2>1
<1>18. payloads' \in Payload /\ received' \in Seq(ProbeFrame) /\ websocket' # "none"
  BY <1>1, <1>2 DEF ProbeInv
<1> QED BY <1>1, <1>2, <1>3, <1>15, <1>16, <1>17, <1>18 DEF ProbeInv

\* A frame that is received.
LEMMA ProbeFrameKeeps ==
  ASSUME ProbeInv, frame
  PROVE  ProbeInv'
<1>1. /\ at = "receiving" /\ Exact /\ transport_error = "none" /\ counts \in Tally
      /\ payloads \in Payload /\ received \in Seq(ProbeFrame) /\ Filed(counts, payloads, received)
      /\ probe_report = <<>> /\ websocket # "none"
  BY DEF frame, ProbeInv
<1>2. UNCHANGED <<options, websocket, heartbeat_task, heartbeat_counter, pings, probe_report>>
  BY DEF frame, transport
<1>3. PICK f \in ProbeFrames : \E bad \in 0 .. Len(f.messages) + 2 :
        LET s == Handled(f, Len(received) + 1, bad) IN
        /\ received' = Append(received, f) /\ counts' = s.c /\ payloads' = s.d
        /\ IF ~s.ok THEN Leaves("OSError")
           ELSE IF f.body = "corrupt" THEN Leaves("uncaught")
           ELSE at' = (IF Sends(f) THEN "acking" ELSE Again(s.c)) /\ UNCHANGED transport_error
  BY DEF frame
<1>14. PICK bad \in 0 .. Len(f.messages) + 2 :
        LET s == Handled(f, Len(received) + 1, bad) IN
        /\ received' = Append(received, f) /\ counts' = s.c /\ payloads' = s.d
        /\ IF ~s.ok THEN Leaves("OSError")
           ELSE IF f.body = "corrupt" THEN Leaves("uncaught")
           ELSE at' = (IF Sends(f) THEN "acking" ELSE Again(s.c)) /\ UNCHANGED transport_error
  BY <1>3
<1> DEFINE s == Handled(f, Len(received) + 1, bad)
           fs == Append(received, f)
<1>4. f \in ProbeFrame /\ bad \in Nat
  BY ProbeFramesAssumption
<1>5. /\ s.c \in Tally /\ s.d \in Payload /\ s.ok \in BOOLEAN /\ Filed(s.c, s.d, fs)
      /\ s.c.frame = counts.frame + 1
      /\ \A k \in Counters : counts[k] <= s.c[k] /\ s.c[k] <= counts[k] + Share(f)[k]
      /\ (s.ok /\ f.body # "corrupt" /\ ~Sends(f)) =>
           \A k \in Counters : s.c[k] = counts[k] + Share(f)[k]
      /\ (s.ok /\ f.body # "corrupt" /\ Sends(f)) =>
           /\ \A k \in Counters \ {"ack", "rows"} : s.c[k] = counts[k] + Share(f)[k]
           /\ s.c.ack = counts.ack /\ s.c.rows = counts.rows
  BY <1>1, <1>4, HandledEffect
<1>6. /\ received' = fs /\ counts' = s.c /\ payloads' = s.d
      /\ IF ~s.ok THEN at' = "leaving" /\ transport_error' = "OSError"
         ELSE IF f.body = "corrupt" THEN at' = "leaving" /\ transport_error' = "uncaught"
         ELSE at' = (IF Sends(f) THEN "acking" ELSE Again(s.c)) /\ transport_error' = "none"
  BY <1>1, <1>14 DEF Leaves
<1> HIDE DEF s
<1>7. fs \in Seq(ProbeFrame) /\ fs # <<>> /\ Front(fs) = received /\ Last(fs) = f
  BY <1>1, <1>4, LastFrame
<1>8. \A k \in Counters : /\ counts[k] = Reported(received)[k] /\ counts[k] \in Nat
                          /\ Share(f)[k] \in Nat
                          /\ Reported(fs)[k] = counts[k] + Share(f)[k]
  BY <1>1, <1>4, ReportedAppends, ShareType DEF Exact
<1> HIDE DEF fs
<1>9. /\ Reported(received)' = Reported(fs) /\ Reported(Front(received))' = Reported(received)
      /\ Sends(Last(received))' = Sends(f)
  <2>1. /\ Reported(received)' = Reported(fs) /\ Reported(Front(received))' = Reported(Front(fs))
        /\ Sends(Last(received))' = Sends(Last(fs))
    BY <1>2, <1>6 DEF Reported, Sends, Sum, SumFunction
  <2> QED BY <1>7, <2>1
<1>10. CASE ~s.ok
  <2>1. \A k \in Counters : Reported(received)[k] <= counts'[k] /\ counts'[k] <= Reported(fs)[k]
    BY <1>5, <1>6, <1>8
  <2>2. counts'.frame = Reported(fs).frame
    <3>1. Share(f).frame = 1
      BY DEF Share
    <3> QED BY <1>5, <1>6, <1>8, <3>1, CounterNames
  <2>3. Within'
    BY <1>6, <1>7, <1>9, <2>1, <2>2 DEF Within
  <2>4. at' = "leaving" /\ transport_error' = "OSError"
    BY <1>6, <1>10
  <2>5. ReportIsHonest' /\ Filed(counts, payloads, received)'
    BY <1>1, <1>2, <1>5, <1>6, NoReport DEF Filed
  <2> QED BY <1>1, <1>2, <1>5, <1>6, <1>7, <2>3, <2>4, <2>5 DEF ProbeInv
<1>11. CASE s.ok /\ f.body = "corrupt"
  <2>1. at' = "leaving" /\ transport_error' = "uncaught"
    BY <1>6, <1>11
  <2>2. ReportIsHonest' /\ Filed(counts, payloads, received)'
    BY <1>1, <1>2, <1>5, <1>6, NoReport DEF Filed
  <2> QED BY <1>1, <1>2, <1>5, <1>6, <1>7, <2>1, <2>2 DEF ProbeInv
<1>12. CASE s.ok /\ f.body # "corrupt" /\ ~Sends(f)
  <2>1. Exact'
    BY <1>5, <1>6, <1>8, <1>9, <1>12 DEF Exact
  <2>2. at' \in {"receiving", "leaving"} /\ transport_error' = "none"
    BY <1>6, <1>12 DEF Again
  <2>3. ReportIsHonest' /\ Filed(counts, payloads, received)'
    BY <1>1, <1>2, <1>5, <1>6, NoReport DEF Filed
  <2> QED BY <1>1, <1>2, <1>5, <1>6, <1>7, <2>1, <2>2, <2>3 DEF ProbeInv
<1>13. CASE s.ok /\ f.body # "corrupt" /\ Sends(f)
  <2>1. Unacked'
    BY <1>5, <1>6, <1>7, <1>8, <1>9, <1>13, CounterNames DEF Unacked, Summed
  <2>2. at' = "acking" /\ transport_error' = "none"
    BY <1>6, <1>13
  <2>3. ReportIsHonest' /\ Filed(counts, payloads, received)'
    BY <1>1, <1>2, <1>5, <1>6, NoReport DEF Filed
  <2> QED BY <1>1, <1>2, <1>5, <1>6, <1>7, <2>1, <2>2, <2>3 DEF ProbeInv
<1> QED BY <1>10, <1>11, <1>12, <1>13, <1>5

\* The report.
LEMMA ReportKeeps ==
  ASSUME ProbeInv, write_report
  PROVE  ProbeInv'
<1>1. /\ at = "reporting"
      /\ UNCHANGED <<options, websocket, heartbeat_task, heartbeat_counter, pings, counts, payloads,
                    received, transport_error>>
      /\ \/ at' = "returned" /\ probe_report' = <<ProbeReport>>
         \/ at' = "raised" /\ probe_report' = probe_report
  BY DEF write_report, transport
<1>2. /\ counts' \in Tally /\ payloads' \in Payload /\ received' \in Seq(ProbeFrame)
      /\ Filed(counts, payloads, received)'
      /\ (Exact => Exact') /\ (Unacked => Unacked') /\ (Within => Within')
  BY <1>1, CountsNothing
<1>3. ReportIsHonest'
  <2>1. CASE probe_report' = probe_report
    BY <1>1, <2>1, SameHonesty DEF ProbeInv
  <2>2. CASE probe_report' = <<ProbeReport>>
    <3> DEFINE r == ProbeReport
               all == Reported(received)
               done == IF transport_error = "OSError" \/ transport_error = "ConnectionClosed"
                       THEN Reported(Front(received)) ELSE all
    <3>1. /\ r.counts = counts /\ r.connected = (websocket # "none") /\ r.error = transport_error
          /\ r.heartbeats = heartbeat_counter
      BY DEF ProbeReport
    <3>2. \A k \in Counters : done[k] <= counts[k] /\ counts[k] <= all[k]
      <4>1. CASE transport_error \in {"OSError", "ConnectionClosed"}
        BY <4>1 DEF ProbeInv, Within
      <4>2. CASE transport_error \in {"none", "refused"}
        <5>1. \A k \in Counters : counts[k] = all[k] /\ all[k] \in Nat
          BY <1>1, <4>2, ReportedAppends DEF ProbeInv, Exact
        <5> QED BY <4>2, <5>1
      <4> QED BY <1>1, <4>1, <4>2 DEF ProbeInv
    <3>3. counts.frame = all.frame
      BY <1>1, CounterNames DEF ProbeInv, Exact, Within
    <3>4. /\ Filed(counts, payloads, received)
          /\ heartbeat_counter <= pings /\ pings <= heartbeat_counter + 1
          /\ websocket = "none" => received = <<>>
      BY DEF ProbeInv
    <3>5. /\ Reported(received)' = Reported(received)
          /\ Reported(Front(received))' = Reported(Front(received))
      BY <1>1, SameReport
    <3>6. DOMAIN probe_report' = {1} /\ probe_report'[1] = r
      BY <2>2
    <3> HIDE DEF r, all, done
    <3>7. LET q == probe_report'[1]
              every == Reported(received)'
              before == IF q.error = "OSError" \/ q.error = "ConnectionClosed"
                        THEN Reported(Front(received))' ELSE every
          IN  /\ \A k \in Counters : before[k] <= q.counts[k] /\ q.counts[k] <= every[k]
              /\ q.counts.frame = every.frame
      BY <3>1, <3>2, <3>3, <3>5, <3>6 DEF all, done
    <3>8. LET q == probe_report'[1]
          IN  /\ Len(q.counts.files) = q.counts.decoded + q.counts.failed
              /\ ToSet(q.counts.files) = DOMAIN payloads'
              /\ \A p \in DOMAIN payloads' : payloads'[p] = received'[p[1]].messages[p[2]]
              /\ q.heartbeats <= pings' /\ pings' <= q.heartbeats + 1
              /\ ~q.connected => received' = <<>>
      BY <1>1, <3>1, <3>4, <3>6 DEF Filed
    <3> QED BY <3>6, <3>7, <3>8 DEF ReportIsHonest
  <2> QED BY <1>1, <2>1, <2>2
<1> QED BY <1>1, <1>2, <1>3 DEF ProbeInv

\* Each step of the probe keeps the invariant.
LEMMA ProbeStep == ProbeInv /\ [ProbeNext]_pvars => ProbeInv'
<1> SUFFICES ASSUME ProbeInv, [ProbeNext]_pvars PROVE ProbeInv'
  OBVIOUS
<1>1. CASE UNCHANGED pvars
  <2>1. UNCHANGED <<at, options, websocket, heartbeat_task, heartbeat_counter, pings, counts, payloads,
                   received, transport_error, probe_report>>
    BY <1>1 DEF pvars, transport, kept
  <2>2. ReportIsHonest'
    BY <2>1, SameHonesty DEF ProbeInv
  <2> QED BY <2>1, <2>2, CountsNothing DEF ProbeInv
<1>2. CASE ProbeNext
  BY <1>2, ConnectionKeeps, HeartbeatKeeps, AckKeeps, ProbeFrameKeeps, ReportKeeps DEF ProbeNext
<1> QED BY <1>1, <1>2

\* The report agrees with the frames that came in, with the files on disk and,
\* but for one ping, with what was sent, whatever the server sends, whichever
\* write fails and wherever the connection is lost (run_probe).
THEOREM ReportsAreHonest == ProbeSpec => []ReportIsHonest
<1>1. ProbeInv => ReportIsHonest
  BY DEF ProbeInv
<1> QED BY <1>1, ProbeStarts, ProbeStep, PTL DEF ProbeSpec

-----------------------------------------------------------------------------
(* The wire format: the digits of a number.  What a recursive function is    *)
(* follows from the facts about steps.                                       *)

\* A set of natural numbers has a least element.
LEMMA LeastOf ==
  ASSUME NEW S \in SUBSET Nat, S # {}
  PROVE  Min(S) \in S /\ \A x \in S : Min(S) <= x
<1>1. PICK m \in S : \A k \in S : ~(<<k, m>> \in OpToRel(<, Nat))
  BY NatLessThanWellFounded, WFMin
<1>2. \A k \in Nat : k < m => k \notin S
  BY <1>1 DEF OpToRel
<1>3. \A k \in S : m <= k
  BY <1>2
<1> QED BY <1>3 DEF Min

-----------------------------------------------------------------------------
(* Recursion. *)

\* The first n steps of an iteration from z.
Steps(f, n, z, S) == f[0] = z /\ \A k \in 0 .. n - 1 : f[k + 1] = S[<<k, f[k]>>]

\* Two iterations from the same start agree.
LEMMA StepsAgree ==
  ASSUME NEW z, NEW S, NEW n \in Nat, NEW f, Steps(f, n, z, S), NEW g, Steps(g, n, z, S)
  PROVE  \A k \in 0 .. n : f[k] = g[k]
<1> DEFINE P == {k \in Nat : k \in 0 .. n => f[k] = g[k]}
<1>1. 0 \in P
  BY DEF Steps
<1>2. ASSUME NEW k \in Nat, k \in P PROVE k + 1 \in P
  <2> SUFFICES ASSUME k + 1 \in 0 .. n PROVE f[k + 1] = g[k + 1]
    OBVIOUS
  <2>1. k \in 0 .. n - 1 /\ k \in 0 .. n
    OBVIOUS
  <2>2. f[k] = g[k]
    BY <1>2, <2>1
  <2> QED BY <2>1, <2>2 DEF Steps
<1> HIDE DEF P
<1>3. \A k \in Nat : k \in P
  BY <1>1, <1>2, NatSetInduction
<1> QED BY <1>3 DEF P

Iteration(f, z, S) == f[0] = z /\ \A n \in Nat : f[n + 1] = S[<<n, f[n]>>]

\* What a step function does to a start, over and over, is a function.
LEMMA Iterates ==
  ASSUME NEW D, NEW z \in D, NEW S \in [Nat \X D -> D]
  PROVE  \E f \in [Nat -> D] : Iteration(f, z, S)
<1> DEFINE P == {n \in Nat : \E g \in [0 .. n -> D] : Steps(g, n, z, S)}
<1>1. 0 \in P
  <2> DEFINE g == [k \in 0 .. 0 |-> z]
  <2>1. g \in [0 .. 0 -> D] /\ g[0] = z
    OBVIOUS
  <2> HIDE DEF g
  <2>2. Steps(g, 0, z, S)
    BY <2>1 DEF Steps
  <2> QED BY <2>1, <2>2
<1>2. ASSUME NEW n \in Nat, n \in P PROVE n + 1 \in P
  <2>1. PICK g \in [0 .. n -> D] : Steps(g, n, z, S)
    BY <1>2
  <2> DEFINE last == S[<<n, g[n]>>]
             h == [k \in 0 .. n + 1 |-> IF k = n + 1 THEN last ELSE g[k]]
  <2>2. last \in D
    OBVIOUS
  <2>3. h \in [0 .. n + 1 -> D] /\ h[n + 1] = last /\ \A k \in 0 .. n : h[k] = g[k]
    BY <2>2
  <2> HIDE DEF h
  <2>4. h[0] = z
    BY <2>1, <2>3 DEF Steps
  <2>5. ASSUME NEW k \in 0 .. (n + 1) - 1 PROVE h[k + 1] = S[<<k, h[k]>>]
    <3>1. CASE k = n
      <4>1. h[k + 1] = S[<<n, g[n]>>] /\ h[k] = g[n]
        BY <2>3, <3>1
      <4> QED BY <3>1, <4>1
    <3>2. CASE k # n
      <4>1. k \in 0 .. n - 1 /\ k + 1 \in 0 .. n /\ k \in 0 .. n
        BY <3>2
      <4> QED BY <2>1, <2>3, <4>1 DEF Steps
    <3> QED BY <3>1, <3>2
  <2>6. Steps(h, n + 1, z, S)
    BY <2>4, <2>5 DEF Steps
  <2> QED BY <2>3, <2>6
<1> HIDE DEF P
<1>3. \A n \in Nat : n \in P
  BY <1>1, <1>2, NatSetInduction
<1> DEFINE G(n) == CHOOSE g \in [0 .. n -> D] : Steps(g, n, z, S)
           f == [n \in Nat |-> G(n)[n]]
<1>4. ASSUME NEW n \in Nat PROVE G(n) \in [0 .. n -> D] /\ Steps(G(n), n, z, S)
  <2>1. \E g \in [0 .. n -> D] : Steps(g, n, z, S)
    BY <1>3 DEF P
  <2> QED BY <2>1
<1> HIDE DEF G
<1>5. f \in [Nat -> D]
  BY <1>4
<1>6. f[0] = z
  BY <1>4 DEF Steps
<1>7. ASSUME NEW n \in Nat PROVE f[n + 1] = S[<<n, f[n]>>]
  <2>1. Steps(G(n), n, z, S) /\ Steps(G(n + 1), n + 1, z, S)
    BY <1>4
  <2>2. Steps(G(n + 1), n, z, S) /\ G(n + 1)[n + 1] = S[<<n, G(n + 1)[n]>>]
    BY <2>1 DEF Steps
  <2>3. G(n + 1)[n] = G(n)[n]
    <3>1. n \in 0 .. n
      OBVIOUS
    <3> QED BY <2>1, <2>2, <3>1, StepsAgree
  <2> QED BY <2>2, <2>3
<1> HIDE DEF f
<1> QED BY <1>5, <1>6, <1>7 DEF Iteration

-----------------------------------------------------------------------------
(* Numbers. *)

\* The places are powers of Half.
LEMMA Places ==
  /\ Place[0] = 1
  /\ \A k \in Nat : Place[k] \in Nat /\ Place[k] > 0 /\ Place[k + 1] = Half * Place[k]
<1>1. Half \in Nat /\ Half > 1
  BY WireAssumption
<1> DEFINE S == [p \in Nat \X Nat |-> Half * p[2]]
<1>2. S \in [Nat \X Nat -> Nat] /\ \A n, x \in Nat : S[<<n, x>>] = Half * x
  BY <1>1
<1> HIDE DEF S
<1> DEFINE one == 1
           D == Nat
<1>3. one \in D /\ S \in [Nat \X D -> D]
  BY <1>2
<1> HIDE DEF one, D
<1>31. PICK f \in [Nat -> D] : Iteration(f, one, S)
  BY <1>3, Iterates
<1>4. f[0] = 1 /\ \A n \in Nat : f[n + 1] = Half * f[n]
  BY <1>2, <1>31 DEF one, D, Iteration
<1>5. f = [k \in Nat |-> IF k = 0 THEN 1 ELSE Half * f[k - 1]]
  <2>1. ASSUME NEW k \in Nat PROVE f[k] = IF k = 0 THEN 1 ELSE Half * f[k - 1]
    <3>1. CASE k = 0
      BY <1>4, <3>1
    <3>2. CASE k # 0
      <4>1. k - 1 \in Nat /\ (k - 1) + 1 = k
        BY <3>2
      <4> QED BY <1>4, <3>2, <4>1
    <3> QED BY <3>1, <3>2
  <2> QED BY <2>1
<1>6. Place = [k \in Nat |-> IF k = 0 THEN 1 ELSE Half * Place[k - 1]]
  BY <1>5 DEF Place
<1>7. Place[0] = 1 /\ \A k \in Nat : Place[k + 1] = Half * Place[k]
  <2>1. \A k \in Nat : Place[k] = IF k = 0 THEN 1 ELSE Half * Place[k - 1]
    BY <1>6
  <2> QED BY <2>1
<1> DEFINE P == {k \in Nat : Place[k] \in Nat /\ Place[k] > 0}
<1>8. 0 \in P
  BY <1>7
<1>9. ASSUME NEW k \in Nat, k \in P PROVE k + 1 \in P
  <2> DEFINE p == Place[k]
  <2>1. p \in Nat /\ p > 0
    BY <1>9
  <2> HIDE DEF p
  <2>2. Half * p \in Nat /\ Half * p > 0
    BY <1>1, <2>1
  <2> QED BY <1>7, <2>2 DEF p
<1> HIDE DEF P
<1>10. \A k \in Nat : k \in P
  BY <1>8, <1>9, NatSetInduction
<1> QED BY <1>7, <1>10 DEF P

\* Division with remainder, and that there is one way to do it.
LEMMA Euclid ==
  ASSUME NEW n \in Nat, NEW h \in Nat, h > 0
  PROVE  /\ \A q, r : q = n \div h /\ r = n % h => q \in Nat /\ r \in 0 .. h - 1 /\ n = h * q + r
         /\ \A q \in Nat, r \in 0 .. h - 1 : n = h * q + r => q = n \div h /\ r = n % h
<1>1. n \div h \in Int /\ n % h \in Int
  OBVIOUS
<1>2. n % h >= 0 /\ n % h < h
  OBVIOUS
<1>3. n \div h >= 0
  OBVIOUS
<1>4. n - h * (n \div h) = n % h
  BY Z3
<1> DEFINE a == n \div h
           b == n % h
<1>5. a \in Int /\ b \in Int /\ 0 <= b /\ b < h /\ a >= 0 /\ n - h * a = b
  BY <1>1, <1>2, <1>3, <1>4
<1> HIDE DEF a, b
<1>6. n = h * a + b /\ a \in Nat /\ b \in 0 .. h - 1
  BY <1>5
<1>7. ASSUME NEW q \in Nat, NEW r \in 0 .. h - 1, n = h * q + r PROVE q = a /\ r = b
  <2>1. h * a + b = h * q + r
    BY <1>6, <1>7
  <2>2. a = q
    BY <1>5, <2>1
  <2> QED BY <1>5, <2>1, <2>2
<1>8. \A q \in Nat, r \in 0 .. h - 1 : n = h * q + r => q = n \div h /\ r = n % h
  BY <1>7, Zenon DEF a, b
<1>9. \A q, r : q = n \div h /\ r = n % h => q \in Nat /\ r \in 0 .. h - 1 /\ n = h * q + r
  BY <1>6, Zenon DEF a, b
<1> QED BY <1>8, <1>9, Zenon

\* The remainder of a negative number is taken from above.
LEMMA NegativeModulo ==
  ASSUME NEW h \in Nat, NEW n \in -h .. -1
  PROVE  n % h = n + h
<1>1. h > 0
  OBVIOUS
<1>2. n \div h \in Int /\ n % h \in Int
  BY <1>1
<1>3. n % h >= 0 /\ n % h < h
  BY <1>1
<1>4. n - h * (n \div h) = n % h
  BY <1>1, Z3
<1> DEFINE q == n \div h
           r == n % h
<1>5. q \in Int /\ r \in Int /\ 0 <= r /\ r < h /\ n - h * q = r
  BY <1>2, <1>3, <1>4
<1> HIDE DEF q, r
<1>6. h * q \in Int /\ (q >= 0 => h * q >= 0) /\ (q <= -2 => h * q <= h * (-2))
  BY <1>1, <1>5
<1>7. q = -1
  <2> DEFINE p == h * q
  <2>1. p \in Int /\ (q >= 0 => p >= 0) /\ (q <= -2 => p <= -2 * h) /\ n - p = r
    BY <1>5, <1>6
  <2> HIDE DEF p
  <2> QED BY <1>5, <2>1
<1>8. r = n + h
  BY <1>5, <1>7
<1> QED BY <1>8 DEF r

\* Dividing twice.
LEMMA DivDiv ==
  ASSUME NEW n \in Nat, NEW p \in Nat, p > 0, NEW h \in Nat, h > 0
  PROVE  n \div (h * p) = (n \div p) \div h
<1> DEFINE q == n \div p
           r == n % p
           a == q \div h
           b == q % h
<1>1. q \in Nat /\ r \in 0 .. p - 1 /\ n = p * q + r
  BY Euclid
<1> HIDE DEF q, r
<1>2. a \in Nat /\ b \in 0 .. h - 1 /\ q = h * a + b
  BY <1>1, Euclid
<1> HIDE DEF a, b
<1> DEFINE s == p * b + r
           hp == h * p
<1>3. hp \in Nat /\ hp > 0
  OBVIOUS
<1>4. p * b \in Nat /\ p * b <= p * (h - 1)
  BY <1>2
<1>5. p * (h - 1) = hp - p
  OBVIOUS
<1>6. s \in 0 .. hp - 1
  BY <1>1, <1>3, <1>4, <1>5
<1>7. n = hp * a + s
  <2>1. p * q = p * (h * a) + p * b
    BY <1>1, <1>2
  <2>2. p * (h * a) = hp * a
    BY <1>2
  <2> HIDE DEF hp
  <2> QED BY <1>1, <1>3, <1>2, <1>4, <2>1, <2>2
<1> HIDE DEF hp, s
<1>8. a = n \div hp
  BY <1>2, <1>3, <1>6, <1>7, Euclid
<1> QED BY <1>8 DEF a, q, hp

\* The sum that Number adds up.
Sums(u, digits) ==
  /\ u \in [0 .. Len(digits) -> Nat] /\ u[0] = 0
  /\ \A k \in 1 .. Len(digits) : u[k] = u[k - 1] + digits[k] * Place[k - 1]

\* Number is defined by such a sum, whatever the digits.
LEMMA NumberDefined ==
  ASSUME NEW digits \in Seq(Nat)
  PROVE  \E u : Sums(u, digits) /\ Number(digits) = u[Len(digits)]
<1> DEFINE n == Len(digits)
           UpTo(u) == u = [k \in 0 .. Len(digits) |->
                            IF k = 0 THEN 0 ELSE u[k - 1] + digits[k] * Place[k - 1]]
           S == [p \in Nat \X Nat |-> IF p[1] + 1 \in 1 .. n
                                      THEN p[2] + digits[p[1] + 1] * Place[p[1]] ELSE 0]
<1>1. n \in Nat /\ \A k \in 1 .. n : digits[k] \in Nat
  OBVIOUS
<1>2. /\ S \in [Nat \X Nat -> Nat]
      /\ \A k, x \in Nat : k + 1 \in 1 .. n => S[<<k, x>>] = x + digits[k + 1] * Place[k]
  <2>1. ASSUME NEW k \in Nat, NEW x \in Nat, k + 1 \in 1 .. n
        PROVE  x + digits[k + 1] * Place[k] \in Nat
    <3> DEFINE d == digits[k + 1]
               p == Place[k]
    <3>1. d \in Nat /\ p \in Nat
      BY <1>1, <2>1, Places
    <3> HIDE DEF d, p
    <3>2. x + d * p \in Nat
      BY <3>1
    <3> QED BY <3>2 DEF d, p
  <2> HIDE DEF n
  <2> QED BY <2>1
<1> HIDE DEF S
<1> DEFINE D == Nat
           zero == 0
<1>3. zero \in D /\ S \in [Nat \X D -> D]
  BY <1>2
<1> HIDE DEF D, zero
<1>4. PICK f \in [Nat -> D] : Iteration(f, zero, S)
  BY <1>3, Iterates
<1>5. f \in [Nat -> Nat] /\ f[0] = 0 /\ \A k \in Nat : f[k + 1] = S[<<k, f[k]>>]
  BY <1>4 DEF D, zero, Iteration
<1> DEFINE g == [k \in 0 .. n |-> f[k]]
<1>6. g \in [0 .. n -> Nat] /\ g[0] = 0
  BY <1>1, <1>5
<1>7. ASSUME NEW k \in 1 .. n PROVE g[k] = g[k - 1] + digits[k] * Place[k - 1]
  <2>1. k - 1 \in Nat /\ (k - 1) + 1 = k /\ k \in 0 .. n /\ k - 1 \in 0 .. n
    BY <1>1
  <2>2. f[k] = f[k - 1] + digits[k] * Place[k - 1]
    BY <1>2, <1>5, <2>1
  <2> QED BY <2>1, <2>2
<1>8. UpTo(g)
  <2>1. ASSUME NEW k \in 0 .. n
        PROVE  g[k] = IF k = 0 THEN 0 ELSE g[k - 1] + digits[k] * Place[k - 1]
    <3>1. CASE k = 0
      BY <1>6, <3>1
    <3>2. CASE k # 0
      <4>1. k \in 1 .. n
        BY <1>1, <3>2
      <4> QED BY <1>7, <3>2, <4>1
    <3> QED BY <3>1, <3>2
  <2>2. g = [k \in 0 .. n |-> g[k]]
    OBVIOUS
  <2> HIDE DEF g
  <2> QED BY <2>1, <2>2
<1> HIDE DEF g
<1> DEFINE u == CHOOSE v : UpTo(v)
<1>9. UpTo(u)
  BY <1>8
<1>10. Number(digits) = u[n]
  BY DEF Number
<1> HIDE DEF u
<1>11. u[0] = 0 /\ DOMAIN u = 0 .. n
  BY <1>1, <1>9
<1>12. \A k \in 1 .. n : u[k] = u[k - 1] + digits[k] * Place[k - 1]
  <2> SUFFICES ASSUME NEW k \in 1 .. n PROVE u[k] = u[k - 1] + digits[k] * Place[k - 1]
    OBVIOUS
  <2>1. k \in 0 .. n /\ k # 0
    BY <1>1
  <2> QED BY <1>9, <2>1
<1> DEFINE P == {k \in Nat : k \in 0 .. n => u[k] = g[k]}
<1>13. 0 \in P
  BY <1>6, <1>11
<1>14. ASSUME NEW k \in Nat, k \in P PROVE k + 1 \in P
  <2> SUFFICES ASSUME k + 1 \in 0 .. n PROVE u[k + 1] = g[k + 1]
    OBVIOUS
  <2>1. k + 1 \in 1 .. n /\ (k + 1) - 1 = k /\ u[k] = g[k]
    BY <1>1, <1>14
  <2> QED BY <1>7, <1>12, <2>1
<1> HIDE DEF P
<1>15. \A k \in Nat : k \in P
  BY <1>13, <1>14, NatSetInduction
<1>16. \A k \in 0 .. n : u[k] = g[k]
  BY <1>15 DEF P
<1>17. u = [k \in 0 .. n |-> u[k]]
  BY <1>9
<1>18. u \in [0 .. n -> Nat]
  BY <1>6, <1>16, <1>17
<1>19. Sums(u, digits)
  BY <1>11, <1>12, <1>18 DEF Sums
<1> QED BY <1>10, <1>19

\* A number is below the place after its last digit.
LEMMA NumberBound ==
  ASSUME NEW digits \in Seq(0 .. Half - 1)
  PROVE  Number(digits) \in Nat /\ Number(digits) < Place[Len(digits)]
<1> DEFINE n == Len(digits)
<1>1. Half \in Nat /\ Half > 1
  BY WireAssumption
<1>2. n \in Nat /\ digits \in Seq(Nat) /\ \A k \in 1 .. n : digits[k] \in 0 .. Half - 1
  BY <1>1
<1>3. PICK u : Sums(u, digits) /\ Number(digits) = u[n]
  BY <1>2, NumberDefined
<1> HIDE DEF n
<1>4. /\ \A k \in 0 .. n : u[k] \in Nat
      /\ u[0] = 0 /\ \A k \in 1 .. n : u[k] = u[k - 1] + digits[k] * Place[k - 1]
  BY <1>3 DEF Sums, n
<1> DEFINE P == {k \in Nat : k \in 0 .. n => u[k] < Place[k]}
<1>5. 0 \in P
  BY <1>4, Places
<1>6. ASSUME NEW k \in Nat, k \in P PROVE k + 1 \in P
  <2> SUFFICES ASSUME k + 1 \in 0 .. n PROVE u[k + 1] < Place[k + 1]
    OBVIOUS
  <2>1. k \in 0 .. n /\ k + 1 \in 1 .. n /\ (k + 1) - 1 = k
    BY <1>2
  <2> DEFINE a == u[k]
             p == Place[k]
             d == digits[k + 1]
  <2>2. a \in Nat /\ a < p /\ p \in Nat /\ d \in Nat /\ d <= Half - 1
    <3>1. a \in Nat /\ a < p
      BY <1>4, <1>6, <2>1
    <3>2. p \in Nat
      BY Places
    <3>3. d \in 0 .. Half - 1
      BY <1>2, <2>1
    <3> HIDE DEF a, p, d
    <3> QED BY <1>1, <3>1, <3>2, <3>3
  <2>3. u[k + 1] = a + d * p /\ Place[k + 1] = Half * p
    BY <1>4, <2>1, Places
  <2> HIDE DEF a, p, d
  <2>4. d * p <= (Half - 1) * p
    BY <1>1, <2>2
  <2>5. a + d * p < Half * p
    BY <1>1, <2>2, <2>4
  <2> QED BY <2>3, <2>5
<1> HIDE DEF P
<1>7. n \in P
  BY <1>2, <1>5, <1>6, NatSetInduction
<1>8. u[n] < Place[n] /\ u[n] \in Nat
  BY <1>2, <1>4, <1>7 DEF P
<1> QED BY <1>3, <1>8 DEF n

\* Divided by the places, a number gives its digits.
LEMMA NumberOf ==
  ASSUME NEW n \in Nat, NEW l \in Nat, n < Place[l],
         NEW digits, digits = [i \in 1 .. l |-> (n \div Place[i - 1]) % Half]
  PROVE  digits \in Seq(0 .. Half - 1) /\ Len(digits) = l /\ Number(digits) = n
<1>1. Half \in Nat /\ Half > 1 /\ Half > 0
  BY WireAssumption
<1>2. \A k \in Nat : Place[k] \in Nat /\ Place[k] > 0 /\ Place[k + 1] = Half * Place[k]
  BY Places
<1> DEFINE q(k) == n \div Place[k]
           d(k) == q(k) % Half
<1>3. ASSUME NEW k \in Nat
      PROVE  q(k) \in Nat /\ d(k) \in 0 .. Half - 1 /\ q(k) = Half * q(k + 1) + d(k)
  <2> DEFINE p == Place[k]
             q1 == q(k)
             q2 == q(k + 1)
             e == d(k)
  <2>1. p \in Nat /\ p > 0 /\ Place[k + 1] = Half * p
    BY <1>2
  <2>2. q1 = n \div p /\ q2 = n \div (Half * p)
    BY <2>1
  <2>3. e = q1 % Half
    OBVIOUS
  <2> HIDE DEF p, q1, q2, e
  <2>4. q1 \in Nat
    BY <2>1, <2>2, Euclid
  <2>5. q2 = q1 \div Half
    <3>1. n \div (Half * p) = (n \div p) \div Half
      BY <1>1, <2>1, DivDiv
    <3> QED BY <2>2, <3>1
  <2>6. q1 = Half * q2 + e /\ e \in 0 .. Half - 1
    <3>1. \A x, r : x = q1 \div Half /\ r = q1 % Half
                      => x \in Nat /\ r \in 0 .. Half - 1 /\ q1 = Half * x + r
      BY <1>1, <2>4, Euclid
    <3> QED BY <2>3, <2>5, <3>1
  <2> QED BY <2>4, <2>6 DEF p, q1, q2, e
<1> HIDE DEF q, d
<1>4. digits = [i \in 1 .. l |-> d(i - 1)]
  BY DEF q, d
<1>5. ASSUME NEW i \in 1 .. l PROVE digits[i] = d(i - 1) /\ d(i - 1) \in 0 .. Half - 1
  <2>1. i - 1 \in Nat
    OBVIOUS
  <2>2. digits[i] = d(i - 1)
    BY <1>4
  <2> QED BY <1>3, <2>1, <2>2
<1>6. digits \in Seq(0 .. Half - 1) /\ Len(digits) = l /\ digits \in Seq(Nat)
  <2>1. digits \in [1 .. l -> 0 .. Half - 1]
    BY <1>4, <1>5
  <2> QED BY <1>1, <2>1
<1>7. PICK u : Sums(u, digits) /\ Number(digits) = u[l]
  BY <1>6, NumberDefined
<1>8. /\ \A k \in 0 .. l : u[k] \in Nat
      /\ u[0] = 0 /\ \A k \in 1 .. l : u[k] = u[k - 1] + digits[k] * Place[k - 1]
  BY <1>6, <1>7 DEF Sums
<1> DEFINE P == {k \in Nat : k \in 0 .. l => n = u[k] + Place[k] * q(k)}
<1>9. 0 \in P
  <2>1. Place[0] = 1
    BY Places
  <2>2. q(0) = n
    BY <2>1 DEF q
  <2> QED BY <1>8, <2>1, <2>2
<1>10. ASSUME NEW k \in Nat, k \in P PROVE k + 1 \in P
  <2> SUFFICES ASSUME k + 1 \in 0 .. l PROVE n = u[k + 1] + Place[k + 1] * q(k + 1)
    OBVIOUS
  <2>1. k \in 0 .. l /\ k + 1 \in 1 .. l /\ (k + 1) - 1 = k
    OBVIOUS
  <2> DEFINE a == u[k]
             p == Place[k]
             e == d(k)
             q1 == q(k)
             q2 == q(k + 1)
  <2>2. a \in Nat /\ p \in Nat /\ e \in Nat /\ q1 \in Nat /\ q2 \in Nat
    <3>1. a \in Nat /\ p \in Nat
      BY <1>2, <1>8, <2>1
    <3>2. k + 1 \in Nat
      OBVIOUS
    <3>3. e \in 0 .. Half - 1 /\ q1 \in Nat /\ q2 \in Nat
      BY <1>3, <3>2
    <3> HIDE DEF a, p, e, q1, q2
    <3> QED BY <1>1, <3>1, <3>3
  <2>3. n = a + p * q1 /\ q1 = Half * q2 + e
    BY <1>3, <1>10, <2>1
  <2>4. u[k + 1] = a + e * p /\ Place[k + 1] = Half * p
    <3>1. u[k + 1] = u[(k + 1) - 1] + digits[k + 1] * Place[(k + 1) - 1]
      BY <1>8, <2>1
    <3>2. digits[k + 1] = d((k + 1) - 1)
      BY <1>5, <2>1
    <3>3. u[k + 1] = u[k] + d(k) * Place[k]
      BY <2>1, <3>1, <3>2
    <3> QED BY <1>2, <3>3
  <2> HIDE DEF a, p, e, q1, q2
  <2>5. p * q1 = p * (Half * q2) + p * e
    BY <1>1, <2>2, <2>3
  <2>6. p * (Half * q2) = (Half * p) * q2
    BY <1>1, <2>2
  <2>7. n = (a + e * p) + (Half * p) * q2
    BY <1>1, <2>2, <2>3, <2>5, <2>6
  <2> QED BY <2>4, <2>7 DEF q2
<1> HIDE DEF P
<1>11. l \in P
  BY <1>9, <1>10, NatSetInduction
<1>12. n = u[l] + Place[l] * q(l)
  BY <1>11 DEF P
<1>13. q(l) = 0
  <2> DEFINE p == Place[l]
             z == q(l)
  <2>1. p \in Nat /\ n < p /\ z \in Nat /\ u[l] \in Nat /\ n = u[l] + p * z
    <3>1. l \in 0 .. l
      OBVIOUS
    <3>2. u[l] \in Nat
      BY <1>8, <3>1
    <3> QED BY <1>2, <1>3, <1>12, <3>2
  <2> HIDE DEF p, z
  <2>2. z >= 1 => p * z >= p
    BY <2>1
  <2>4. p * z \in Nat
    BY <2>1
  <2> DEFINE pz == p * z
             v == u[l]
  <2>5. v \in Nat /\ pz \in Nat /\ n = v + pz /\ (z >= 1 => pz >= p)
    BY <2>1, <2>2, <2>4
  <2> HIDE DEF pz, v
  <2>3. z = 0
    BY <2>1, <2>5
  <2> QED BY <2>3 DEF z
<1>14. u[l] = n
  <2> DEFINE p == Place[l]
             v == u[l]
  <2>1. l \in 0 .. l
    OBVIOUS
  <2>2. p \in Nat /\ v \in Nat /\ n = v + p * 0
    BY <1>2, <1>8, <1>12, <1>13, <2>1
  <2> HIDE DEF p, v
  <2>3. v = n
    BY <2>2
  <2> QED BY <2>3 DEF v
<1> QED BY <1>6, <1>7, <1>14

\* A later place is worth as much or more.
LEMMA PlacesGrow ==
  ASSUME NEW i \in Nat, NEW j \in Nat, i <= j
  PROVE  Place[i] <= Place[j]
<1> DEFINE P == {k \in Nat : Place[i] <= Place[i + k]}
<1>1. 0 \in P
  <2>1. Place[i] \in Nat /\ i + 0 = i
    BY Places
  <2> QED BY <2>1
<1>2. ASSUME NEW k \in Nat, k \in P PROVE k + 1 \in P
  <2>1. i + k \in Nat /\ i + (k + 1) = (i + k) + 1
    OBVIOUS
  <2> DEFINE a == Place[i]
             b == Place[i + k]
  <2>2. a \in Nat /\ b \in Nat /\ Place[(i + k) + 1] = Half * b /\ a <= b
    BY <1>2, <2>1, Places
  <2>3. Half \in Nat /\ Half >= 1
    BY WireAssumption
  <2> HIDE DEF a, b
  <2>4. Half * b >= b
    BY <2>2, <2>3
  <2>5. a <= Half * b
    BY <2>2, <2>3, <2>4
  <2> QED BY <2>1, <2>2, <2>5 DEF a
<1> HIDE DEF P
<1>3. \A k \in Nat : k \in P
  BY <1>1, <1>2, NatSetInduction
<1>4. j - i \in Nat /\ i + (j - i) = j
  OBVIOUS
<1>5. j - i \in P
  BY <1>3, <1>4
<1> QED BY <1>4, <1>5 DEF P

-----------------------------------------------------------------------------
(* Varints. *)

\* A varint lies at an offset and is k + 1 bytes long.
VarintAt(data, offset, k) ==
  /\ k \in 0 .. MaxBytes - 1 /\ offset + k <= Len(data) /\ data[offset + k] < Half
  /\ \A i \in 0 .. k - 1 : ~(data[offset + i] < Half)
Digits(data, offset, k) == [i \in 1 .. k + 1 |-> data[offset + i - 1] % Half]

\* What decode_varint reads is the one varint that lies there.
LEMMA DecodeIs ==
  ASSUME NEW data, Len(data) \in Nat, NEW offset \in Int, NEW v
  PROVE  v \in decode_varint(data, offset)
           <=> \E k \in Int : /\ VarintAt(data, offset, k)
                              /\ v = [value |-> Number(Digits(data, offset, k)), next |-> offset + k + 1]
<1>0. MaxBytes \in Nat
  BY WireAssumption
<1>1. ASSUME NEW k PROVE (k \in Ends(data, offset) /\ \A i \in Ends(data, offset) : k <= i)
                           <=> k \in Int /\ VarintAt(data, offset, k)
  <2>1. ASSUME k \in Ends(data, offset), \A i \in Ends(data, offset) : k <= i
        PROVE  k \in Int /\ VarintAt(data, offset, k)
    <3>1. k \in 0 .. MaxBytes - 1 /\ offset + k <= Len(data) /\ data[offset + k] < Half
      BY <2>1 DEF Ends
    <3>2. ASSUME NEW i \in 0 .. k - 1, data[offset + i] < Half PROVE FALSE
      <4>1. i \in 0 .. MaxBytes - 1 /\ offset + i <= Len(data) /\ i < k
        BY <1>0, <3>1
      <4>2. i \in Ends(data, offset)
        BY <3>2, <4>1 DEF Ends
      <4> QED BY <2>1, <3>1, <4>1, <4>2
    <3>3. \A i \in 0 .. k - 1 : ~(data[offset + i] < Half)
      BY <3>2
    <3>4. k \in Int
      BY <1>0, <3>1
    <3> QED BY <3>1, <3>3, <3>4 DEF VarintAt
  <2>2. ASSUME k \in Int, VarintAt(data, offset, k)
        PROVE  k \in Ends(data, offset) /\ \A i \in Ends(data, offset) : k <= i
    <3>1. k \in Ends(data, offset)
      BY <2>2 DEF Ends, VarintAt
    <3>2. ASSUME NEW i \in Ends(data, offset) PROVE k <= i
      <4>1. i \in 0 .. MaxBytes - 1 /\ data[offset + i] < Half
        BY <3>2 DEF Ends
      <4>2. i \notin 0 .. k - 1
        BY <2>2, <4>1 DEF VarintAt
      <4> QED BY <1>0, <2>2, <4>1, <4>2
    <3> QED BY <3>1, <3>2
  <2> QED BY <2>1, <2>2
<1> DEFINE K == {j \in Ends(data, offset) : \A i \in Ends(data, offset) : j <= i}
           read(k) == [value |-> Number([i \in 1 .. k + 1 |-> data[offset + i - 1] % Half]),
                       next |-> offset + k + 1]
<1>2. \A k : k \in K <=> k \in Int /\ VarintAt(data, offset, k)
  BY <1>1
<1>3. decode_varint(data, offset) = {read(k) : k \in K}
  BY DEF decode_varint
<1>4. \A k : read(k) = [value |-> Number(Digits(data, offset, k)), next |-> offset + k + 1]
  BY DEF Digits
<1> HIDE DEF K, read
<1>5. v \in decode_varint(data, offset) <=> \E k \in K : v = read(k)
  BY <1>3
<1> QED BY <1>2, <1>4, <1>5

\* A varint has one reading, and it lies inside the data.
LEMMA DecodeType ==
  ASSUME NEW data \in Seq(Byte), NEW offset \in Nat \ {0}, NEW v \in decode_varint(data, offset)
  PROVE  /\ v.value \in Nat /\ v.value < Place[MaxBytes]
         /\ v.next \in Nat /\ offset < v.next /\ v.next <= Len(data) + 1
         /\ v = [value |-> v.value, next |-> v.next]
<1>0. MaxBytes \in Nat /\ Half \in Nat /\ Half > 1
  BY WireAssumption
<1>1. PICK k \in Int : /\ VarintAt(data, offset, k)
                       /\ v = [value |-> Number(Digits(data, offset, k)), next |-> offset + k + 1]
  BY DecodeIs
<1>2. k \in 0 .. MaxBytes - 1 /\ offset + k <= Len(data)
  BY <1>1 DEF VarintAt
<1>3. Digits(data, offset, k) \in Seq(0 .. Half - 1) /\ Len(Digits(data, offset, k)) = k + 1
  <2> DEFINE d == Digits(data, offset, k)
  <2>1. ASSUME NEW i \in 1 .. k + 1 PROVE data[offset + i - 1] % Half \in 0 .. Half - 1
    <3>1. offset + i - 1 \in 1 .. Len(data)
      BY <1>2
    <3>2. data[offset + i - 1] \in Nat
      BY <1>0, <3>1 DEF Byte
    <3> QED BY <1>0, <3>2
  <2>2. d \in [1 .. k + 1 -> 0 .. Half - 1]
    BY <2>1 DEF Digits
  <2> DEFINE U == 0 .. Half - 1
             m == k + 1
  <2>3. m \in Nat /\ d \in [1 .. m -> U]
    BY <1>0, <1>2, <2>2
  <2> HIDE DEF d, U, m
  <2>4. d \in Seq(U) /\ Len(d) = m
    BY <2>3
  <2> QED BY <2>4 DEF d, U, m
<1>4. v.value \in Nat /\ v.value < Place[k + 1]
  BY <1>1, <1>3, NumberBound
<1>5. Place[k + 1] <= Place[MaxBytes] /\ Place[k + 1] \in Nat /\ Place[MaxBytes] \in Nat
  <2>1. k + 1 \in Nat /\ k + 1 <= MaxBytes
    BY <1>0, <1>2
  <2> QED BY <1>0, <2>1, PlacesGrow, Places
<1>6. v.next = offset + k + 1
  BY <1>1
<1>7. v = [value |-> v.value, next |-> v.next]
  BY <1>1
<1>8. v.value < Place[MaxBytes]
  BY <1>4, <1>5
<1> QED BY <1>2, <1>4, <1>6, <1>7, <1>8

\* A varint has one reading.
LEMMA DecodeUnique ==
  ASSUME NEW data, Len(data) \in Nat, NEW offset \in Int,
         NEW v \in decode_varint(data, offset), NEW w \in decode_varint(data, offset)
  PROVE  v = w
<1>1. PICK k \in Int : /\ VarintAt(data, offset, k)
                       /\ v = [value |-> Number(Digits(data, offset, k)), next |-> offset + k + 1]
  BY DecodeIs
<1>2. PICK l \in Int : /\ VarintAt(data, offset, l)
                       /\ w = [value |-> Number(Digits(data, offset, l)), next |-> offset + l + 1]
  BY DecodeIs
<1>3. k >= 0 /\ l >= 0 /\ l \notin 0 .. k - 1 /\ k \notin 0 .. l - 1
  BY <1>1, <1>2, WireAssumption DEF VarintAt
<1>4. k = l
  BY <1>3
<1> QED BY <1>1, <1>2, <1>4

\* The same bytes say the same elsewhere.
Same(data, other, from, to, move) == \A x \in from .. to : other[x + move] = data[x]

\* A varint is read the same wherever its bytes lie.
LEMMA DecodeMoves ==
  ASSUME NEW data, Len(data) \in Nat, NEW offset \in Int, NEW v \in decode_varint(data, offset),
         NEW other, Len(other) \in Nat, NEW move \in Int,
         Same(data, other, offset, v.next - 1, move), v.next - 1 + move <= Len(other)
  PROVE  [value |-> v.value, next |-> v.next + move] \in decode_varint(other, offset + move)
<1>1. PICK k \in Int : /\ VarintAt(data, offset, k)
                       /\ v = [value |-> Number(Digits(data, offset, k)), next |-> offset + k + 1]
  BY DecodeIs
<1>2. k \in 0 .. MaxBytes - 1 /\ k \in Nat /\ MaxBytes \in Nat
  BY <1>1, WireAssumption DEF VarintAt
<1>3. v.next = offset + k + 1 /\ v.value = Number(Digits(data, offset, k))
  BY <1>1
<1>4. ASSUME NEW i \in 0 .. k PROVE other[(offset + move) + i] = data[offset + i]
  <2>1. offset + i \in offset .. v.next - 1 /\ (offset + i) + move = (offset + move) + i
    BY <1>2, <1>3
  <2> QED BY <2>1 DEF Same
<1>5. VarintAt(other, offset + move, k)
  <2>1. (offset + move) + k <= Len(other)
    BY <1>2, <1>3
  <2>2. other[(offset + move) + k] = data[offset + k]
    BY <1>2, <1>4
  <2>3. ASSUME NEW i \in 0 .. k - 1 PROVE other[(offset + move) + i] = data[offset + i]
    <3>1. i \in 0 .. k
      BY <1>2
    <3> QED BY <1>4, <3>1
  <2> QED BY <1>1, <2>1, <2>2, <2>3 DEF VarintAt
<1>6. Digits(other, offset + move, k) = Digits(data, offset, k)
  <2>1. ASSUME NEW i \in 1 .. k + 1 PROVE other[(offset + move) + i - 1] = data[offset + i - 1]
    <3>1. i - 1 \in 0 .. k /\ (offset + move) + i - 1 = (offset + move) + (i - 1)
          /\ offset + i - 1 = offset + (i - 1)
      BY <1>2
    <3> QED BY <1>4, <3>1
  <2> QED BY <2>1 DEF Digits
<1>7. v.next + move = (offset + move) + k + 1
  BY <1>2, <1>3
<1> HIDE DEF Same
<1>8. offset + move \in Int
  OBVIOUS
<1> QED BY <1>3, <1>5, <1>6, <1>7, <1>8, DecodeIs

\* A number that fits comes back from its varint.
LEMMA Encodes ==
  ASSUME NEW n \in Nat, n < Place[MaxBytes]
  PROVE  /\ encode_varint(n) \in Seq(Byte) /\ Len(encode_varint(n)) \in Nat \ {0}
         /\ decode_varint(encode_varint(n), 1) = {[value |-> n, next |-> Len(encode_varint(n)) + 1]}
<1>0. MaxBytes \in Nat \ {0} /\ Half \in Nat /\ Half > 1
  BY WireAssumption
<1> DEFINE S == {l \in 1 .. MaxBytes + 1 : n < Place[l]}
           length == Min(S)
           digits == [i \in 1 .. length |-> (n \div Place[i - 1]) % Half]
           bytes == [i \in 1 .. length |-> ((n \div Place[i - 1]) % Half) + (IF i < length THEN Half ELSE 0)]
<1>1. encode_varint(n) = bytes
  <2>1. (IF n < 0 THEN n % Modulus ELSE n) = n
    OBVIOUS
  <2> QED BY <2>1, Zenon DEF encode_varint
<1>2. MaxBytes \in S /\ S \in SUBSET Nat
  BY <1>0
<1> HIDE DEF S
<1>3. length \in S /\ length <= MaxBytes
  BY <1>2, LeastOf
<1>4. length \in 1 .. MaxBytes /\ n < Place[length]
  BY <1>0, <1>3 DEF S
<1> HIDE DEF length
<1>5. digits \in Seq(0 .. Half - 1) /\ Len(digits) = length /\ Number(digits) = n
  <2>1. length \in Nat
    BY <1>4
  <2>2. digits = [i \in 1 .. length |-> (n \div Place[i - 1]) % Half]
    OBVIOUS
  <2> HIDE DEF digits
  <2> QED BY <1>4, <2>1, <2>2, NumberOf
<1>6. \A i \in 1 .. length : bytes[i] = digits[i] + (IF i < length THEN Half ELSE 0)
  OBVIOUS
<1>7. \A i \in 1 .. length : digits[i] \in 0 .. Half - 1
  <2> DEFINE U == 0 .. Half - 1
  <2>1. digits \in Seq(U) /\ Len(digits) = length
    BY <1>5
  <2> HIDE DEF U, digits
  <2>2. \A i \in 1 .. length : digits[i] \in U
    BY <2>1
  <2> QED BY <2>2 DEF U
<1>8. DOMAIN bytes = 1 .. length /\ bytes = [i \in 1 .. length |-> bytes[i]]
  OBVIOUS
<1> HIDE DEF digits, bytes
<1>9. \A i \in 1 .. length : bytes[i] \in Byte
  BY <1>0, <1>6, <1>7 DEF Byte
<1>10. bytes \in Seq(Byte) /\ Len(bytes) = length
  <2>1. bytes \in [1 .. length -> Byte] /\ length \in Nat
    BY <1>4, <1>8, <1>9
  <2> QED BY <2>1
<1>11. VarintAt(bytes, 1, length - 1)
  <2> DEFINE k == length - 1
  <2>1. k \in 0 .. MaxBytes - 1 /\ 1 + k = length
    BY <1>0, <1>4
  <2>2. bytes[length] < Half
    BY <1>0, <1>4, <1>6, <1>7
  <2>3. ASSUME NEW i \in 0 .. k - 1 PROVE ~(bytes[1 + i] < Half)
    <3>1. 1 + i \in 1 .. length /\ 1 + i < length
      BY <1>4
    <3>2. bytes[1 + i] = digits[1 + i] + Half /\ digits[1 + i] \in 0 .. Half - 1
      BY <1>6, <1>7, <3>1
    <3> QED BY <1>0, <3>2
  <2> HIDE DEF k
  <2>4. VarintAt(bytes, 1, k)
    BY <1>10, <2>1, <2>2, <2>3 DEF VarintAt
  <2> QED BY <2>4 DEF k
<1>12. Digits(bytes, 1, length - 1) = digits
  <2>1. ASSUME NEW i \in 1 .. length PROVE bytes[1 + i - 1] % Half = digits[i]
    <3>1. 1 + i - 1 = i
      BY <1>4
    <3> DEFINE d == digits[i]
    <3>2. d \in 0 .. Half - 1 /\ bytes[i] = d + (IF i < length THEN Half ELSE 0)
      BY <1>6, <1>7
    <3> HIDE DEF d
    <3>3. bytes[i] \in Nat /\ (bytes[i] = Half * 1 + d \/ bytes[i] = Half * 0 + d)
      BY <1>0, <3>2
    <3>4. ASSUME NEW x \in Nat, NEW q \in Nat, x = Half * q + d PROVE d = x % Half
      <4>1. Half \in Nat /\ Half > 0
        BY <1>0
      <4>2. \A a \in Nat, r \in 0 .. Half - 1 : x = Half * a + r => a = x \div Half /\ r = x % Half
        BY <4>1, Euclid
      <4> QED BY <3>2, <3>4, <4>2
    <3>5. d = bytes[i] % Half
      BY <3>3, <3>4
    <3> QED BY <3>1, <3>5 DEF d
  <2>2. (length - 1) + 1 = length
    BY <1>4
  <2>3. digits = [i \in 1 .. length |-> digits[i]]
    BY DEF digits
  <2> QED BY <2>1, <2>2, <2>3 DEF Digits
<1> DEFINE v == [value |-> n, next |-> length + 1]
<1>13. v \in decode_varint(bytes, 1)
  <2>1. length - 1 \in Int /\ 1 + (length - 1) + 1 = length + 1
    BY <1>4
  <2>2. v = [value |-> Number(Digits(bytes, 1, length - 1)), next |-> 1 + (length - 1) + 1]
    BY <1>5, <1>12, <2>1
  <2> HIDE DEF v
  <2>3. Len(bytes) \in Nat /\ 1 \in Int
    BY <1>4, <1>10
  <2> QED BY <1>11, <2>1, <2>2, <2>3, DecodeIs
<1> HIDE DEF v
<1>14. decode_varint(bytes, 1) = {v}
  <2>1. Len(bytes) \in Nat /\ 1 \in Int
    BY <1>4, <1>10
  <2>2. \A w \in decode_varint(bytes, 1) : v = w
    BY <1>13, <2>1, DecodeUnique
  <2> QED BY <1>13, <2>2
<1>15. Len(bytes) \in Nat \ {0}
  BY <1>4, <1>10
<1> QED BY <1>1, <1>10, <1>14, <1>15 DEF v

\* A number comes back, a negative one as its two's complement
\* (encode_varint, decode_varint).
THEOREM VarintsSurvive ==
  ASSUME NEW n \in -Modulus .. Place[MaxBytes] - 1
  PROVE  VarintSurvives(n)
<1>0. Modulus \in Nat /\ Modulus <= Place[MaxBytes] /\ Modulus > Place[MaxBytes - 1]
      /\ MaxBytes \in Nat \ {0}
  BY WireAssumption
<1>1. Place[MaxBytes] \in Nat /\ Place[MaxBytes - 1] \in Nat /\ Modulus > 0
  BY <1>0, Places
<1> DEFINE u == IF n < 0 THEN n + Modulus ELSE n
<1>2. u \in Nat /\ u < Place[MaxBytes]
  BY <1>0, <1>1
<1>3. encode_varint(n) = encode_varint(u)
  <2>1. CASE n < 0
    <3>1. n % Modulus = n + Modulus
      <4>1. Modulus \in Nat /\ n \in -Modulus .. -1
        BY <1>0, <2>1
      <4> QED BY <4>1, NegativeModulo
    <3>2. u = n + Modulus /\ ~(u < 0)
      BY <1>2, <2>1
    <3> HIDE DEF u
    <3>3. (IF n < 0 THEN n % Modulus ELSE n) = u /\ (IF u < 0 THEN u % Modulus ELSE u) = u
      BY <2>1, <3>1, <3>2
    <3> QED BY <3>3, Zenon DEF encode_varint
  <2>2. CASE n >= 0
    <3>1. u = n
      BY <1>0, <1>1, <2>2
    <3> QED BY <3>1
  <2> QED BY <1>0, <1>1, <2>1, <2>2
<1> HIDE DEF u
<1>4. decode_varint(encode_varint(n), 1) = {[value |-> u, next |-> Len(encode_varint(n)) + 1]}
  BY <1>2, <1>3, Encodes
<1> QED BY <1>4 DEF VarintSurvives, u

-----------------------------------------------------------------------------
(* Fields. *)

\* The field with a key, and what its wire type says of the rest of it.
Made(key, value, bytes, c, e) ==
  [number |-> key.value \div 8, type |-> key.value % 8, value |-> value, bytes |-> bytes,
   start |-> c, end |-> e]
Spans(data, here, size, value, bytes, e) ==
  value = 0 /\ bytes = SubSeq(data, here, here + size - 1) /\ e = here + size /\ here + size - 1 <= Len(data)
Body(data, key, value, bytes, e) ==
  \/ key.value % 8 = 0 /\ bytes = <<>>
       /\ \E v \in decode_varint(data, key.next) : value = v.value /\ e = v.next
  \/ key.value % 8 = 1 /\ Spans(data, key.next, Fixed64, value, bytes, e)
  \/ key.value % 8 = 5 /\ Spans(data, key.next, Fixed32, value, bytes, e)
  \/ key.value % 8 = 2
       /\ \E l \in decode_varint(data, key.next) : Spans(data, l.next, l.value, value, bytes, e)

\* A field of a given size is in the data or there is none.
LEMMA SizedIs ==
  ASSUME NEW data, NEW c, NEW key, NEW here, NEW size, NEW f
  PROVE  f \in Sized(data, c, key, here, size)
           <=> \E value, bytes, e : Spans(data, here, size, value, bytes, e)
                                      /\ f = Made(key, value, bytes, c, e)
<1> DEFINE row(n) == [number |-> key.value \div 8, type |-> key.value % 8, value |-> 0,
                      bytes |-> SubSeq(data, here, here + n - 1), start |-> c, end |-> here + n]
<1>1. Sized(data, c, key, here, size) = {row(n) : n \in {m \in {size} : here + m - 1 <= Len(data)}}
  BY DEF Sized
<1>2. row(size) = Made(key, 0, SubSeq(data, here, here + size - 1), c, here + size)
  BY DEF Made
<1> HIDE DEF row
<1>3. f \in Sized(data, c, key, here, size) <=> here + size - 1 <= Len(data) /\ f = row(size)
  BY <1>1
<1> QED BY <1>2, <1>3 DEF Spans

\* A field is its key and what its wire type says of the rest.
LEMMA FieldIs ==
  ASSUME NEW data, NEW c, NEW f, \A key \in decode_varint(data, c) : key.value \in Nat
  PROVE  f \in Field(data, c)
           <=> \E key \in decode_varint(data, c) : /\ key.value >= 8
                 /\ \E value, bytes, e : Body(data, key, value, bytes, e) /\ f = Made(key, value, bytes, c, e)
<1>1. ASSUME NEW key \in decode_varint(data, c)
      PROVE  f \in FieldWithKey(data, c, key)
               <=> key.value >= 8 /\ \E value, bytes, e : Body(data, key, value, bytes, e)
                                                            /\ f = Made(key, value, bytes, c, e)
  <2> DEFINE n == key.value
             t == n % 8
             F == FieldWithKey(data, c, key)
             B == \E value, bytes, e : Body(data, key, value, bytes, e)
                                         /\ f = Made(key, value, bytes, c, e)
  <2>1. n \in Nat /\ t \in 0 .. 7
    OBVIOUS
  <2>2. CASE n < 8
    <3>1. F = {}
      BY <2>1, <2>2 DEF FieldWithKey
    <3> QED BY <2>1, <2>2, <3>1
  <2>3. CASE n >= 8 /\ t = 0
    <3> DEFINE row(v) == [number |-> n \div 8, type |-> 0, value |-> v.value, bytes |-> <<>>,
                          start |-> c, end |-> v.next]
    <3>1. F = {row(v) : v \in decode_varint(data, key.next)}
      BY <2>1, <2>3 DEF FieldWithKey
    <3>2. \A v : row(v) = Made(key, v.value, <<>>, c, v.next)
      BY <2>3 DEF Made
    <3> HIDE DEF row, F
    <3>3. f \in F <=> \E v \in decode_varint(data, key.next) : f = Made(key, v.value, <<>>, c, v.next)
      BY <3>1, <3>2
    <3>4. B <=> \E v \in decode_varint(data, key.next) : f = Made(key, v.value, <<>>, c, v.next)
      BY <2>3 DEF Body
    <3> QED BY <2>3, <3>3, <3>4 DEF F
  <2>4. CASE n >= 8 /\ t = 1
    <3>1. F = Sized(data, c, key, key.next, Fixed64)
      BY <2>1, <2>4 DEF FieldWithKey
    <3> HIDE DEF F
    <3>2. f \in F <=> \E value, bytes, e : Spans(data, key.next, Fixed64, value, bytes, e)
                                             /\ f = Made(key, value, bytes, c, e)
      BY <3>1, SizedIs
    <3>3. B <=> \E value, bytes, e : Spans(data, key.next, Fixed64, value, bytes, e)
                                       /\ f = Made(key, value, bytes, c, e)
      BY <2>4 DEF Body
    <3> QED BY <2>4, <3>2, <3>3 DEF F
  <2>5. CASE n >= 8 /\ t = 5
    <3>1. F = Sized(data, c, key, key.next, Fixed32)
      BY <2>1, <2>5 DEF FieldWithKey
    <3> HIDE DEF F
    <3>2. f \in F <=> \E value, bytes, e : Spans(data, key.next, Fixed32, value, bytes, e)
                                             /\ f = Made(key, value, bytes, c, e)
      BY <3>1, SizedIs
    <3>3. B <=> \E value, bytes, e : Spans(data, key.next, Fixed32, value, bytes, e)
                                       /\ f = Made(key, value, bytes, c, e)
      BY <2>5 DEF Body
    <3> QED BY <2>5, <3>2, <3>3 DEF F
  <2>6. CASE n >= 8 /\ t = 2
    <3>1. F = UNION {Sized(data, c, key, l.next, l.value) : l \in decode_varint(data, key.next)}
      BY <2>1, <2>6 DEF FieldWithKey
    <3> HIDE DEF F
    <3>2. f \in F <=> \E l \in decode_varint(data, key.next) : f \in Sized(data, c, key, l.next, l.value)
      BY <3>1
    <3>3. \A l : f \in Sized(data, c, key, l.next, l.value)
                   <=> \E value, bytes, e : Spans(data, l.next, l.value, value, bytes, e)
                                              /\ f = Made(key, value, bytes, c, e)
      BY SizedIs
    <3>4. B <=> \E l \in decode_varint(data, key.next) :
                   \E value, bytes, e : Spans(data, l.next, l.value, value, bytes, e)
                                          /\ f = Made(key, value, bytes, c, e)
      BY <2>6 DEF Body
    <3> QED BY <2>6, <3>2, <3>3, <3>4 DEF F
  <2>7. CASE n >= 8 /\ t \notin {0, 1, 2, 5}
    <3>1. F = {}
      BY <2>1, <2>7 DEF FieldWithKey
    <3>2. ~B
      BY <2>7 DEF Body
    <3> QED BY <3>1, <3>2
  <2> QED BY <2>1, <2>2, <2>3, <2>4, <2>5, <2>6, <2>7
<1>2. f \in Field(data, c) <=> \E key \in decode_varint(data, c) : f \in FieldWithKey(data, c, key)
  BY DEF Field
<1> QED BY <1>1, <1>2

\* A field read has one reading.
LEMMA FieldUnique ==
  ASSUME NEW data \in Seq(Byte), NEW c \in Nat \ {0},
         NEW f \in Field(data, c), NEW g \in Field(data, c)
  PROVE  f = g
<1>1. \A key \in decode_varint(data, c) : key.value \in Nat /\ key.next \in Nat \ {0}
  BY DecodeType
<1>2. PICK k \in decode_varint(data, c) : k.value >= 8
                 /\ \E value, bytes, e : Body(data, k, value, bytes, e) /\ f = Made(k, value, bytes, c, e)
  BY <1>1, FieldIs
<1>3. PICK l \in decode_varint(data, c) : l.value >= 8
                 /\ \E value, bytes, e : Body(data, l, value, bytes, e) /\ g = Made(l, value, bytes, c, e)
  BY <1>1, FieldIs
<1>4. Len(data) \in Nat /\ c \in Int
  OBVIOUS
<1>5. k = l
  BY <1>4, DecodeUnique
<1>6. PICK v1, b1, e1 : Body(data, k, v1, b1, e1) /\ f = Made(k, v1, b1, c, e1)
  BY <1>2
<1>7. PICK v2, b2, e2 : Body(data, k, v2, b2, e2) /\ g = Made(k, v2, b2, c, e2)
  BY <1>3, <1>5
<1>8. \A v, w \in decode_varint(data, k.next) : v = w
  <2>1. k.next \in Int
    BY <1>1
  <2> QED BY <1>4, <2>1, DecodeUnique
<1>9. v1 = v2 /\ b1 = b2 /\ e1 = e2
  <2> DEFINE t == k.value % 8
  <2>1. CASE t = 0
    BY <1>6, <1>7, <1>8, <2>1 DEF Body
  <2>2. CASE t = 1
    <3>1. Spans(data, k.next, Fixed64, v1, b1, e1) /\ Spans(data, k.next, Fixed64, v2, b2, e2)
      BY <1>6, <1>7, <2>2 DEF Body
    <3> QED BY <3>1 DEF Spans
  <2>3. CASE t = 5
    <3>1. Spans(data, k.next, Fixed32, v1, b1, e1) /\ Spans(data, k.next, Fixed32, v2, b2, e2)
      BY <1>6, <1>7, <2>3 DEF Body
    <3> QED BY <3>1 DEF Spans
  <2>4. CASE t = 2
    <3>1. PICK n \in decode_varint(data, k.next) : Spans(data, n.next, n.value, v1, b1, e1)
      BY <1>6, <2>4 DEF Body
    <3>2. PICK m \in decode_varint(data, k.next) : Spans(data, m.next, m.value, v2, b2, e2)
      BY <1>7, <2>4 DEF Body
    <3>3. n = m
      BY <1>8
    <3> QED BY <3>1, <3>2, <3>3 DEF Spans
  <2>5. t \in {0, 1, 2, 5}
    BY <1>6 DEF Body
  <2> QED BY <2>1, <2>2, <2>3, <2>4, <2>5
<1> QED BY <1>6, <1>7, <1>9

\* What a field says, and when it can be written.
Item == [number : Nat \ {0}, type : {0, 1, 2, 5}, value : Nat, bytes : Seq(Byte)]
Writable(item) ==
  /\ item \in Item /\ item.number * 8 + item.type < Place[MaxBytes]
  /\ item.type = 0 => item.value < Place[MaxBytes] /\ item.bytes = <<>>
  /\ item.type # 0 => item.value = 0
  /\ item.type = 1 => Len(item.bytes) = Fixed64
  /\ item.type = 5 => Len(item.bytes) = Fixed32
  /\ item.type = 2 => Len(item.bytes) < Place[MaxBytes]
Says(f) == [number |-> f.number, type |-> f.type, value |-> f.value, bytes |-> f.bytes]
At(item, c, e) == [number |-> item.number, type |-> item.type, value |-> item.value,
                   bytes |-> item.bytes, start |-> c, end |-> e]

\* The bytes of a field that lies inside the data.
LEMMA Slices ==
  ASSUME NEW data \in Seq(Byte), NEW here \in Nat \ {0}, NEW size \in Nat, here + size - 1 <= Len(data)
  PROVE  SubSeq(data, here, here + size - 1) \in Seq(Byte) /\ Len(SubSeq(data, here, here + size - 1)) = size
OBVIOUS

\* A field that lies in the data says what can be written, and ends behind its start.
LEMMA FieldType ==
  ASSUME NEW data \in Seq(Byte), NEW c \in Nat \ {0}, NEW f \in Field(data, c)
  PROVE  /\ Writable(Says(f)) /\ f = At(Says(f), c, f.end)
         /\ f.end \in Nat /\ c < f.end /\ f.end <= Len(data) + 1
<1>1. \A key \in decode_varint(data, c) : key.value \in Nat
  BY DecodeType
<1>2. PICK k \in decode_varint(data, c) : k.value >= 8
                 /\ \E value, bytes, e : Body(data, k, value, bytes, e) /\ f = Made(k, value, bytes, c, e)
  BY <1>1, FieldIs
<1>3. PICK v, b, e : Body(data, k, v, b, e) /\ f = Made(k, v, b, c, e)
  BY <1>2
<1>4. /\ k.value \in Nat /\ k.value < Place[MaxBytes] /\ k.next \in Nat
      /\ c < k.next /\ k.next <= Len(data) + 1
  BY DecodeType
<1> DEFINE number == k.value \div 8
           type == k.value % 8
           item == [number |-> number, type |-> type, value |-> v, bytes |-> b]
<1>5. number \in Nat \ {0} /\ type \in 0 .. 7 /\ number * 8 + type = k.value
  BY <1>2, <1>4
<1>6. Says(f) = item /\ f.end = e /\ f = At(item, c, e)
  BY <1>3 DEF Says, Made, At
<1>7. k.next \in Nat \ {0} /\ Place[MaxBytes] \in Nat
  <2>1. MaxBytes \in Nat
    BY WireAssumption
  <2>2. Place[MaxBytes] \in Nat
    BY <2>1, Places
  <2> QED BY <1>4, <2>2
<1>8. ASSUME NEW here \in Nat \ {0}, NEW size \in Nat, k.next <= here, Spans(data, here, size, v, b, e)
      PROVE  v = 0 /\ b \in Seq(Byte) /\ Len(b) = size /\ e \in Nat /\ c < e /\ e <= Len(data) + 1
  <2>1. v = 0 /\ b = SubSeq(data, here, here + size - 1) /\ e = here + size /\ here + size - 1 <= Len(data)
    BY <1>8 DEF Spans
  <2>2. b \in Seq(Byte) /\ Len(b) = size
    BY <2>1, Slices
  <2>3. e \in Nat /\ c < e /\ e <= Len(data) + 1
    BY <1>4, <1>8, <2>1
  <2> QED BY <2>1, <2>2, <2>3
<1>9. type \in {0, 1, 2, 5}
  BY <1>3 DEF Body
<1>10. /\ v \in Nat /\ b \in Seq(Byte) /\ e \in Nat /\ c < e /\ e <= Len(data) + 1
       /\ type = 0 => v < Place[MaxBytes] /\ b = <<>>
       /\ type # 0 => v = 0
       /\ type = 1 => Len(b) = Fixed64
       /\ type = 5 => Len(b) = Fixed32
       /\ type = 2 => Len(b) < Place[MaxBytes]
  <2>1. CASE type = 0
    <3>1. PICK w \in decode_varint(data, k.next) : v = w.value /\ e = w.next
      BY <1>3, <2>1 DEF Body
    <3>2. b = <<>>
      BY <1>3, <2>1 DEF Body
    <3>3. w.value \in Nat /\ w.value < Place[MaxBytes] /\ w.next \in Nat
          /\ k.next < w.next /\ w.next <= Len(data) + 1
      BY <1>7, DecodeType
    <3>4. v \in Nat /\ v < Place[MaxBytes] /\ e \in Nat /\ c < e /\ e <= Len(data) + 1
      BY <1>4, <3>1, <3>3
    <3>5. b \in Seq(Byte)
      BY <3>2
    <3> QED BY <2>1, <3>2, <3>4, <3>5
  <2>2. CASE type = 1
    <3>1. Spans(data, k.next, Fixed64, v, b, e) /\ Fixed64 \in Nat
      BY <1>3, <2>2, WireAssumption DEF Body
    <3> QED BY <1>7, <1>8, <2>2, <3>1
  <2>3. CASE type = 5
    <3>1. Spans(data, k.next, Fixed32, v, b, e) /\ Fixed32 \in Nat
      BY <1>3, <2>3, WireAssumption DEF Body
    <3> QED BY <1>7, <1>8, <2>3, <3>1
  <2>4. CASE type = 2
    <3>1. PICK l \in decode_varint(data, k.next) : Spans(data, l.next, l.value, v, b, e)
      BY <1>3, <2>4 DEF Body
    <3>2. l.value \in Nat /\ l.value < Place[MaxBytes] /\ l.next \in Nat \ {0} /\ k.next <= l.next
      BY <1>7, DecodeType
    <3>3. v = 0 /\ b \in Seq(Byte) /\ Len(b) = l.value /\ e \in Nat /\ c < e /\ e <= Len(data) + 1
      BY <1>8, <3>1, <3>2
    <3> QED BY <2>4, <3>2, <3>3
  <2> QED BY <1>9, <2>1, <2>2, <2>3, <2>4
<1> HIDE DEF number, type
<1>11. item \in Item
  BY <1>5, <1>9, <1>10 DEF Item
<1>12. Writable(item)
  BY <1>4, <1>5, <1>10, <1>11 DEF Writable
<1> QED BY <1>6, <1>10, <1>12

\* A field says the same where the same bytes stand.
LEMMA FieldMoves ==
  ASSUME NEW data \in Seq(Byte), NEW c \in Nat \ {0}, NEW f \in Field(data, c),
         NEW other \in Seq(Byte), NEW move \in Int, c + move > 0,
         Same(data, other, c, f.end - 1, move), f.end - 1 + move <= Len(other)
  PROVE  At(Says(f), c + move, f.end + move) \in Field(other, c + move)
<1>1. \A key \in decode_varint(data, c) : key.value \in Nat
  BY DecodeType
<1>2. PICK k \in decode_varint(data, c) : k.value >= 8
                 /\ \E value, bytes, e : Body(data, k, value, bytes, e) /\ f = Made(k, value, bytes, c, e)
  BY <1>1, FieldIs
<1>3. PICK v, b, e : Body(data, k, v, b, e) /\ f = Made(k, v, b, c, e)
  BY <1>2
<1>4. /\ k.value \in Nat /\ k.next \in Nat \ {0} /\ c < k.next /\ k.next <= Len(data) + 1
  BY DecodeType
<1>5. f.end = e
  BY <1>3 DEF Made
<1>6. Len(data) \in Nat /\ Len(other) \in Nat /\ c + move \in Nat \ {0} /\ c + move \in Int
  OBVIOUS
<1> DEFINE key == [value |-> k.value, next |-> k.next + move]
<1>7. ASSUME NEW o \in Nat \ {0}, c <= o, NEW w \in decode_varint(data, o), w.next <= e, e \in Nat
      PROVE  [value |-> w.value, next |-> w.next + move] \in decode_varint(other, o + move)
  <2>1. w.next \in Nat /\ o < w.next
    BY DecodeType
  <2>2. Same(data, other, o, w.next - 1, move)
    <3> SUFFICES ASSUME NEW x \in o .. w.next - 1 PROVE other[x + move] = data[x]
      BY DEF Same
    <3>1. x \in c .. f.end - 1
      BY <1>5, <1>7, <2>1
    <3> QED BY <3>1 DEF Same
  <2>3. w.next - 1 + move <= Len(other)
    BY <1>5, <1>6, <1>7, <2>1
  <2>4. o \in Int
    OBVIOUS
  <2> QED BY <1>6, <2>2, <2>3, <2>4, DecodeMoves
<1>8. ASSUME NEW here \in Nat \ {0}, NEW size \in Nat, c <= here, Spans(data, here, size, v, b, e)
      PROVE  Spans(other, here + move, size, v, b, e + move)
  <2>1. v = 0 /\ b = SubSeq(data, here, here + size - 1) /\ e = here + size /\ here + size - 1 <= Len(data)
    BY <1>8 DEF Spans
  <2>2. e + move = (here + move) + size /\ (here + move) + size - 1 <= Len(other)
    BY <1>5, <1>6, <2>1
  <2>3. b = SubSeq(other, here + move, (here + move) + size - 1)
    <3> DEFINE b2 == SubSeq(other, here + move, (here + move) + size - 1)
    <3>1. here + move \in Nat \ {0}
      BY <1>8
    <3>2. b \in Seq(Byte) /\ Len(b) = size /\ b2 \in Seq(Byte) /\ Len(b2) = size
      BY <2>1, <2>2, <3>1, Slices
    <3>3. ASSUME NEW i \in 1 .. size PROVE b[i] = b2[i]
      <4>1. b[i] = data[here + i - 1]
        BY <2>1, <3>3
      <4>2. b2[i] = other[(here + move) + i - 1]
        BY <2>2, <3>1, <3>3
      <4>3. here + i - 1 \in c .. f.end - 1 /\ (here + i - 1) + move = (here + move) + i - 1
        BY <1>5, <1>8, <2>1, <3>3
      <4>4. other[(here + i - 1) + move] = data[here + i - 1]
        BY <4>3 DEF Same
      <4> QED BY <4>1, <4>2, <4>3, <4>4
    <3> HIDE DEF b2
    <3>4. b = b2
      BY <3>2, <3>3
    <3> QED BY <3>4 DEF b2
  <2> QED BY <2>1, <2>2, <2>3 DEF Spans
<1>9. e \in Nat /\ k.next <= e
  <2>1. e \in Nat
    BY <1>5, FieldType
  <2>2. CASE k.value % 8 = 0
    <3>1. PICK w \in decode_varint(data, k.next) : e = w.next
      BY <1>3, <2>2 DEF Body
    <3>2. w.next \in Nat /\ k.next < w.next
      BY <1>4, DecodeType
    <3> QED BY <1>4, <3>1, <3>2
  <2>3. CASE k.value % 8 = 1
    <3>1. Spans(data, k.next, Fixed64, v, b, e) /\ Fixed64 \in Nat
      BY <1>3, <2>3, WireAssumption DEF Body
    <3> QED BY <1>4, <3>1 DEF Spans
  <2>4. CASE k.value % 8 = 5
    <3>1. Spans(data, k.next, Fixed32, v, b, e) /\ Fixed32 \in Nat
      BY <1>3, <2>4, WireAssumption DEF Body
    <3> QED BY <1>4, <3>1 DEF Spans
  <2>5. CASE k.value % 8 = 2
    <3>1. PICK w \in decode_varint(data, k.next) : e = w.next + w.value
      BY <1>3, <2>5 DEF Body, Spans
    <3>2. w.next \in Nat /\ k.next < w.next /\ w.value \in Nat
      BY <1>4, DecodeType
    <3> QED BY <1>4, <3>1, <3>2
  <2> QED BY <1>3, <2>1, <2>2, <2>3, <2>4, <2>5 DEF Body
<1>10. key \in decode_varint(other, c + move)
  BY <1>4, <1>7, <1>9
<1>11. Body(other, key, v, b, e + move)
  <2>1. key.value = k.value /\ key.next = k.next + move
    OBVIOUS
  <2>2. CASE k.value % 8 = 0
    <3>1. PICK w \in decode_varint(data, k.next) : v = w.value /\ e = w.next
      BY <1>3, <2>2 DEF Body
    <3> DEFINE x == [value |-> w.value, next |-> w.next + move]
    <3>2. x \in decode_varint(other, k.next + move)
      BY <1>4, <1>7, <1>9, <3>1
    <3>3. x.value = v /\ x.next = e + move
      BY <3>1
    <3>4. b = <<>>
      BY <1>3, <2>2 DEF Body
    <3> HIDE DEF x, key
    <3> QED BY <2>1, <2>2, <3>2, <3>3, <3>4 DEF Body
  <2>3. CASE k.value % 8 = 1
    <3>1. Spans(data, k.next, Fixed64, v, b, e) /\ Fixed64 \in Nat
      BY <1>3, <2>3, WireAssumption DEF Body
    <3>2. Spans(other, k.next + move, Fixed64, v, b, e + move)
      BY <1>4, <1>8, <3>1
    <3> HIDE DEF key
    <3> QED BY <2>1, <2>3, <3>2 DEF Body
  <2>4. CASE k.value % 8 = 5
    <3>1. Spans(data, k.next, Fixed32, v, b, e) /\ Fixed32 \in Nat
      BY <1>3, <2>4, WireAssumption DEF Body
    <3>2. Spans(other, k.next + move, Fixed32, v, b, e + move)
      BY <1>4, <1>8, <3>1
    <3> HIDE DEF key
    <3> QED BY <2>1, <2>4, <3>2 DEF Body
  <2>5. CASE k.value % 8 = 2
    <3>1. PICK w \in decode_varint(data, k.next) : Spans(data, w.next, w.value, v, b, e)
      BY <1>3, <2>5 DEF Body
    <3>2. w.next \in Nat \ {0} /\ c <= w.next /\ w.value \in Nat
      BY <1>4, DecodeType
    <3>3. w.next <= e
      BY <3>1, <3>2 DEF Spans
    <3> DEFINE x == [value |-> w.value, next |-> w.next + move]
    <3>4. x \in decode_varint(other, k.next + move)
      BY <1>4, <1>7, <1>9, <3>3
    <3>5. Spans(other, w.next + move, w.value, v, b, e + move)
      BY <1>8, <3>1, <3>2
    <3>6. x.value = w.value /\ x.next = w.next + move
      OBVIOUS
    <3> HIDE DEF x, key
    <3> QED BY <2>1, <2>5, <3>4, <3>5, <3>6 DEF Body
  <2> QED BY <1>3, <2>2, <2>3, <2>4, <2>5 DEF Body
<1>12. At(Says(f), c + move, f.end + move) = Made(key, v, b, c + move, e + move)
  BY <1>3, <1>5 DEF At, Says, Made
<1>13. \A x \in decode_varint(other, c + move) : x.value \in Nat
  BY <1>6, DecodeType
<1>14. key.value >= 8
  BY <1>2
<1> HIDE DEF key
<1> QED BY <1>10, <1>11, <1>12, <1>13, <1>14, FieldIs

\* One piece of data lies inside another.
Holds(data, piece, move) ==
  /\ move \in Nat /\ move + Len(piece) <= Len(data)
  /\ \A x \in 1 .. Len(piece) : data[x + move] = piece[x]

\* Both pieces lie inside what they are joined to.
LEMMA Pieces ==
  ASSUME NEW a \in Seq(Byte), NEW b \in Seq(Byte)
  PROVE  /\ a \o b \in Seq(Byte) /\ Len(a \o b) = Len(a) + Len(b)
         /\ Holds(a \o b, a, 0) /\ Holds(a \o b, b, Len(a))
<1>1. a \o b \in Seq(Byte) /\ Len(a \o b) = Len(a) + Len(b)
  OBVIOUS
<1>2. \A x \in 1 .. Len(a) : (a \o b)[x + 0] = a[x]
  OBVIOUS
<1>3. \A x \in 1 .. Len(b) : (a \o b)[x + Len(a)] = b[x]
  OBVIOUS
<1> QED BY <1>1, <1>2, <1>3 DEF Holds

\* A varint is read inside a longer piece of data as it is alone.
LEMMA DecodeHeld ==
  ASSUME NEW data \in Seq(Byte), NEW piece \in Seq(Byte), NEW move, Holds(data, piece, move),
         NEW v \in decode_varint(piece, 1)
  PROVE  [value |-> v.value, next |-> v.next + move] \in decode_varint(data, 1 + move)
<1>1. move \in Nat /\ move + Len(piece) <= Len(data)
  BY DEF Holds
<1>2. v.next \in Nat /\ 1 < v.next /\ v.next <= Len(piece) + 1
  BY DecodeType
<1>3. Same(piece, data, 1, v.next - 1, move)
  <2> SUFFICES ASSUME NEW x \in 1 .. v.next - 1 PROVE data[x + move] = piece[x]
    BY DEF Same
  <2>1. x \in 1 .. Len(piece)
    BY <1>2
  <2> QED BY <2>1 DEF Holds
<1>4. v.next - 1 + move <= Len(data)
  BY <1>1, <1>2
<1>5. Len(data) \in Nat /\ Len(piece) \in Nat /\ move \in Int /\ 1 \in Int
  BY <1>1
<1> QED BY <1>3, <1>4, <1>5, DecodeMoves

\* What is written of a field is read back.
LEMMA FieldWritten ==
  ASSUME NEW item, Writable(item)
  PROVE  /\ encode(item) \in Seq(Byte)
         /\ At(item, 1, Len(encode(item)) + 1) \in Field(encode(item), 1)
<1> DEFINE number == item.number
           type == item.type
           value == item.value
           bytes == item.bytes
           n == number * 8 + type
           K == encode_varint(n)
           data == encode(item)
           key == [value |-> n, next |-> Len(K) + 1]
<1>1. /\ number \in Nat \ {0} /\ type \in {0, 1, 2, 5} /\ value \in Nat /\ bytes \in Seq(Byte)
      /\ n < Place[MaxBytes]
  BY DEF Writable, Item
<1> HIDE DEF number, type, value, bytes
<1>2. n \in Nat /\ n >= 8 /\ n \div 8 = number /\ n % 8 = type
  BY <1>1
<1> HIDE DEF n
<1>3. K \in Seq(Byte) /\ Len(K) \in Nat /\ key \in decode_varint(K, 1)
  BY <1>1, <1>2, Encodes
<1> HIDE DEF K
<1> DEFINE Done(d) == /\ d \in Seq(Byte)
                      /\ key \in decode_varint(d, 1)
                      /\ Body(d, key, value, bytes, Len(d) + 1)
<1>4. ASSUME NEW rest \in Seq(Byte)
      PROVE  /\ K \o rest \in Seq(Byte) /\ Len(K \o rest) = Len(K) + Len(rest)
             /\ key \in decode_varint(K \o rest, 1) /\ Holds(K \o rest, rest, Len(K))
  <2> DEFINE d == K \o rest
  <2>1. /\ d \in Seq(Byte) /\ Len(d) = Len(K) + Len(rest)
        /\ Holds(d, K, 0) /\ Holds(d, rest, Len(K))
    BY <1>3, Pieces
  <2> HIDE DEF d, key
  <2>2. [value |-> key.value, next |-> key.next + 0] \in decode_varint(d, 1 + 0)
    BY <1>3, <2>1, DecodeHeld
  <2>3. [value |-> key.value, next |-> key.next + 0] = key /\ 1 + 0 = 1
    BY <1>3 DEF key
  <2>4. key \in decode_varint(d, 1)
    BY <2>2, <2>3
  <2> QED BY <2>1, <2>4 DEF d
<1>5. ASSUME type = 0 PROVE Done(data)
  <2> DEFINE V == encode_varint(value)
             v == [value |-> value, next |-> Len(V) + 1]
  <2>1. value < Place[MaxBytes] /\ bytes = <<>>
    BY <1>5 DEF Writable, type, value, bytes
  <2>2. V \in Seq(Byte) /\ Len(V) \in Nat /\ v \in decode_varint(V, 1)
    BY <1>1, <2>1, Encodes
  <2>3. data = K \o V
    <3>1. data = encode_varint_field(item.number, item.value)
      BY <1>5, Zenon DEF encode, type
    <3> QED BY <1>5, <3>1, Zenon DEF encode_varint_field, encode_key, K, n, number, type, value
  <2> HIDE DEF V, data
  <2>4. /\ data \in Seq(Byte) /\ Len(data) = Len(K) + Len(V)
        /\ key \in decode_varint(data, 1) /\ Holds(data, V, Len(K))
    BY <1>4, <2>2, <2>3
  <2> DEFINE w == [value |-> v.value, next |-> v.next + Len(K)]
  <2>5. w \in decode_varint(data, 1 + Len(K))
    BY <2>2, <2>4, DecodeHeld
  <2>6. w.value = value /\ w.next = Len(data) + 1 /\ key.next = 1 + Len(K) /\ key.value % 8 = 0
    BY <1>2, <1>3, <1>5, <2>2, <2>4
  <2> HIDE DEF w, key
  <2>7. Body(data, key, value, bytes, Len(data) + 1)
    BY <2>1, <2>5, <2>6 DEF Body
  <2>8. Done(data)
    BY <2>4, <2>7
  <2> QED BY <2>8
<1>6. ASSUME NEW d \in Seq(Byte), NEW move \in Nat, Holds(d, bytes, move), Len(d) = move + Len(bytes),
             value = 0
      PROVE  Spans(d, move + 1, Len(bytes), value, bytes, Len(d) + 1)
  <2> DEFINE b == SubSeq(d, move + 1, (move + 1) + Len(bytes) - 1)
  <2>1. Len(bytes) \in Nat /\ (move + 1) + Len(bytes) - 1 <= Len(d)
    BY <1>1, <1>6
  <2>2. b \in Seq(Byte) /\ Len(b) = Len(bytes)
    BY <2>1, Slices
  <2>3. ASSUME NEW i \in 1 .. Len(bytes) PROVE b[i] = bytes[i]
    <3>1. b[i] = d[(move + 1) + i - 1] /\ (move + 1) + i - 1 = i + move
      BY <2>1, <2>3
    <3>2. d[i + move] = bytes[i]
      BY <1>6 DEF Holds
    <3> QED BY <3>1, <3>2
  <2> HIDE DEF b
  <2>4. b = bytes
    BY <1>1, <2>2, <2>3
  <2>5. Len(d) + 1 = (move + 1) + Len(bytes)
    BY <1>6, <2>1
  <2> QED BY <1>6, <2>1, <2>4, <2>5 DEF Spans, b
<1>7. ASSUME type \in {1, 5} PROVE Done(data)
  <2>1. value = 0 /\ (type = 1 => Len(bytes) = Fixed64) /\ (type = 5 => Len(bytes) = Fixed32)
    BY <1>7 DEF Writable, type, value, bytes
  <2>2. data = K \o bytes
    <3>1. ~(item.type = 0) /\ ~(item.type = 2)
      BY <1>7 DEF type
    <3>2. data = encode_key(item.number, item.type) \o item.bytes
      BY <3>1, Zenon DEF encode
    <3> QED BY <3>2, Zenon DEF encode_key, K, n, number, type, bytes
  <2> HIDE DEF data
  <2>3. /\ data \in Seq(Byte) /\ Len(data) = Len(K) + Len(bytes)
        /\ key \in decode_varint(data, 1) /\ Holds(data, bytes, Len(K))
    BY <1>1, <1>4, <2>2
  <2>4. Spans(data, Len(K) + 1, Len(bytes), value, bytes, Len(data) + 1)
    BY <1>3, <1>6, <2>1, <2>3
  <2>5. key.next = Len(K) + 1 /\ key.value % 8 = type
    BY <1>2
  <2> HIDE DEF key
  <2>6. Body(data, key, value, bytes, Len(data) + 1)
    BY <1>7, <2>1, <2>4, <2>5 DEF Body
  <2>7. Done(data)
    BY <2>3, <2>6
  <2> QED BY <2>7
<1>8. ASSUME type = 2 PROVE Done(data)
  <2> DEFINE L == encode_varint(Len(bytes))
             v == [value |-> Len(bytes), next |-> Len(L) + 1]
  <2>1. value = 0 /\ Len(bytes) \in Nat /\ Len(bytes) < Place[MaxBytes]
    BY <1>1, <1>8 DEF Writable, type, value, bytes
  <2>2. L \in Seq(Byte) /\ Len(L) \in Nat /\ v \in decode_varint(L, 1)
    BY <2>1, Encodes
  <2>3. data = K \o L \o bytes
    <3>1. ~(item.type = 0) /\ item.type = 2
      BY <1>8 DEF type
    <3>2. data = encode_bytes_field(item.number, item.bytes)
      BY <3>1, Zenon DEF encode
    <3> QED BY <3>1, <3>2, Zenon DEF encode_bytes_field, encode_key, K, n, number, type, bytes
  <2> HIDE DEF L, data
  <2> DEFINE rest == L \o bytes
  <2>4. /\ rest \in Seq(Byte) /\ Len(rest) = Len(L) + Len(bytes)
        /\ Holds(rest, L, 0) /\ Holds(rest, bytes, Len(L))
    BY <1>1, <2>2, Pieces
  <2>5. data = K \o rest
    BY <1>1, <1>3, <2>2, <2>3
  <2> HIDE DEF rest
  <2>6. /\ data \in Seq(Byte) /\ Len(data) = Len(K) + Len(rest)
        /\ key \in decode_varint(data, 1) /\ Holds(data, rest, Len(K))
    BY <1>4, <2>4, <2>5
  <2>7. ASSUME NEW piece \in Seq(Byte), NEW move, Holds(rest, piece, move)
        PROVE  Holds(data, piece, move + Len(K))
    <3>1. /\ move \in Nat /\ move + Len(piece) <= Len(rest)
          /\ \A x \in 1 .. Len(piece) : rest[x + move] = piece[x]
      BY <2>7 DEF Holds
    <3>2. \A x \in 1 .. Len(rest) : data[x + Len(K)] = rest[x]
      BY <2>6 DEF Holds
    <3>3. ASSUME NEW x \in 1 .. Len(piece) PROVE data[x + (move + Len(K))] = piece[x]
      <4>1. x + move \in 1 .. Len(rest) /\ (x + move) + Len(K) = x + (move + Len(K))
        BY <1>3, <2>4, <3>1
      <4> QED BY <3>1, <3>2, <4>1
    <3>4. move + Len(K) \in Nat /\ (move + Len(K)) + Len(piece) <= Len(data)
      BY <1>3, <2>4, <2>6, <3>1
    <3> QED BY <3>3, <3>4 DEF Holds
  <2>8. Holds(data, L, 0 + Len(K)) /\ Holds(data, bytes, Len(L) + Len(K))
    BY <1>1, <2>2, <2>4, <2>7
  <2> DEFINE w == [value |-> v.value, next |-> v.next + (0 + Len(K))]
  <2>9. w \in decode_varint(data, 1 + (0 + Len(K)))
    BY <2>2, <2>6, <2>8, DecodeHeld
  <2>10. /\ w.value = Len(bytes) /\ w.next = (Len(L) + Len(K)) + 1
         /\ key.next = 1 + (0 + Len(K)) /\ key.value % 8 = 2
    BY <1>2, <1>3, <1>8, <2>2
  <2>11. Spans(data, (Len(L) + Len(K)) + 1, Len(bytes), value, bytes, Len(data) + 1)
    <3>1. Len(L) + Len(K) \in Nat /\ Len(data) = (Len(L) + Len(K)) + Len(bytes)
      BY <1>3, <2>1, <2>2, <2>4, <2>6
    <3> QED BY <1>6, <2>1, <2>6, <2>8, <3>1
  <2> HIDE DEF w, key
  <2>12. Body(data, key, value, bytes, Len(data) + 1)
    BY <2>9, <2>10, <2>11 DEF Body
  <2>13. Done(data)
    BY <2>6, <2>12
  <2> QED BY <2>13
<1>9. Done(data)
  BY <1>1, <1>5, <1>7, <1>8
<1>10. At(item, 1, Len(data) + 1) = Made(key, value, bytes, 1, Len(data) + 1)
  <2> DEFINE e == Len(data) + 1
  <2> HIDE DEF e
  <2>1. At(item, 1, e) = [number |-> number, type |-> type, value |-> value, bytes |-> bytes,
                          start |-> 1, end |-> e]
    BY DEF At, number, type, value, bytes
  <2>2. key.value = n
    OBVIOUS
  <2> HIDE DEF key
  <2>3. Made(key, value, bytes, 1, e) = [number |-> number, type |-> type, value |-> value,
                                         bytes |-> bytes, start |-> 1, end |-> e]
    BY <1>2, <2>2 DEF Made
  <2> QED BY <2>1, <2>3 DEF e
<1>11. key.value = n
  OBVIOUS
<1> HIDE DEF data, key
<1>12. \A x \in decode_varint(data, 1) : x.value \in Nat
  <2>1. 1 \in Nat \ {0}
    OBVIOUS
  <2> QED BY <1>9, <2>1, DecodeType
<1>13. At(item, 1, Len(data) + 1) \in Field(data, 1)
  BY <1>2, <1>9, <1>10, <1>11, <1>12, FieldIs
<1> QED BY <1>9, <1>13 DEF data

-----------------------------------------------------------------------------
(* Messages. *)

\* A row of the table that parse_fields makes.
FieldRow == [number : Nat \ {0}, type : {0, 1, 2, 5}, value : Nat, bytes : Seq(Byte),
             start : Nat \ {0}, end : Nat \ {0}]

\* A field is a row of the table that parse_fields makes.
LEMMA FieldRows ==
  ASSUME NEW data \in Seq(Byte), NEW c \in Nat \ {0}, NEW f \in Field(data, c)
  PROVE  f \in FieldRow /\ f.start = c
<1>1. Writable(Says(f)) /\ f = At(Says(f), c, f.end) /\ f.end \in Nat /\ c < f.end
  BY FieldType
<1> DEFINE item == Says(f)
<1>2. item \in Item
  BY <1>1 DEF Writable
<1> HIDE DEF item
<1>3. /\ item.number \in Nat \ {0} /\ item.type \in {0, 1, 2, 5}
      /\ item.value \in Nat /\ item.bytes \in Seq(Byte)
  BY <1>2 DEF Item
<1>4. f.end \in Nat \ {0}
  BY <1>1
<1>5. At(item, c, f.end) \in FieldRow /\ At(item, c, f.end).start = c
  BY <1>3, <1>4 DEF At, FieldRow
<1>6. f = At(item, c, f.end)
  BY <1>1 DEF item
<1> QED BY <1>5, <1>6

\* Where the i-th field of a message starts; fields that lie end to end.
Starts(fields, i) == IF i = 1 THEN 1 ELSE fields[i - 1].end
Chain(data, fields) ==
  fields \in Seq(FieldRow) /\ \A i \in 1 .. Len(fields) : fields[i] \in Field(data, Starts(fields, i))

\* Fields that lie end to end move on through the data.
LEMMA ChainRows ==
  ASSUME NEW data \in Seq(Byte), NEW fields, Chain(data, fields)
  PROVE  /\ Len(fields) \in Nat /\ Cursor(fields) \in Nat \ {0}
         /\ Cursor(fields) = Starts(fields, Len(fields) + 1)
         /\ Cursor(fields) <= Len(data) + 1
         /\ \A i \in 1 .. Len(fields) :
              /\ Starts(fields, i) \in Nat \ {0} /\ fields[i].start = Starts(fields, i)
              /\ fields[i] \in FieldRow /\ fields[i] = At(Says(fields[i]), Starts(fields, i), fields[i].end)
              /\ Starts(fields, i) < fields[i].end /\ fields[i].end <= Len(data) + 1
              /\ Writable(Says(fields[i]))
<1> DEFINE n == Len(fields)
<1>1. n \in Nat /\ fields \in Seq(FieldRow) /\ \A i \in 1 .. n : fields[i] \in Field(data, Starts(fields, i))
  BY DEF Chain
<1>2. \A i \in 1 .. n : fields[i] \in FieldRow
  BY <1>1
<1> HIDE DEF n
<1>3. ASSUME NEW i \in 1 .. n + 1 PROVE Starts(fields, i) \in Nat \ {0}
  <2>1. CASE i = 1
    BY <2>1 DEF Starts
  <2>2. CASE i # 1
    <3>1. i - 1 \in 1 .. n
      BY <1>1, <2>2
    <3>2. fields[i - 1].end \in Nat \ {0}
      BY <1>2, <3>1 DEF FieldRow
    <3> QED BY <2>2, <3>2 DEF Starts
  <2> QED BY <2>1, <2>2
<1>4. ASSUME NEW i \in 1 .. n
      PROVE  /\ Starts(fields, i) \in Nat \ {0} /\ fields[i].start = Starts(fields, i)
             /\ fields[i] \in FieldRow /\ fields[i] = At(Says(fields[i]), Starts(fields, i), fields[i].end)
             /\ Starts(fields, i) < fields[i].end /\ fields[i].end <= Len(data) + 1
             /\ Writable(Says(fields[i]))
  <2> DEFINE c == Starts(fields, i)
             f == fields[i]
  <2>1. c \in Nat \ {0} /\ f \in Field(data, c)
    <3>1. i \in 1 .. n + 1
      BY <1>1
    <3> QED BY <1>1, <1>3, <3>1
  <2> HIDE DEF c, f
  <2>2. f \in FieldRow /\ f.start = c
    BY <2>1, FieldRows
  <2>3. Writable(Says(f)) /\ f = At(Says(f), c, f.end) /\ c < f.end /\ f.end <= Len(data) + 1
    BY <2>1, FieldType
  <2> QED BY <2>1, <2>2, <2>3 DEF c, f
<1>5. Cursor(fields) = Starts(fields, n + 1)
  <2>1. CASE n = 0
    <3>1. fields = <<>>
      BY <1>1, <2>1 DEF n
    <3> QED BY <2>1, <3>1 DEF Cursor, Starts
  <2>2. CASE n # 0
    <3>1. fields # <<>> /\ n + 1 # 1 /\ (n + 1) - 1 = n
      BY <1>1, <2>2 DEF n
    <3> QED BY <3>1 DEF Cursor, Starts, n
  <2> QED BY <2>1, <2>2
<1>6. n + 1 \in 1 .. n + 1
  BY <1>1
<1>7. Cursor(fields) \in Nat \ {0}
  BY <1>3, <1>5, <1>6
<1>8. Cursor(fields) <= Len(data) + 1
  <2>1. CASE n = 0
    BY <1>5, <2>1 DEF Starts
  <2>2. CASE n # 0
    <3>1. n \in 1 .. n /\ n + 1 # 1 /\ (n + 1) - 1 = n
      BY <1>1, <2>2
    <3>2. Cursor(fields) = fields[n].end
      BY <1>5, <3>1 DEF Starts
    <3> QED BY <1>4, <3>1, <3>2
  <2> QED BY <2>1, <2>2
<1> QED BY <1>1, <1>4, <1>5, <1>7, <1>8 DEF n

\* Two readings of the same data agree as far as they go.
LEMMA ChainUnique ==
  ASSUME NEW data \in Seq(Byte), NEW fs, Chain(data, fs), NEW gs, Chain(data, gs), Len(fs) <= Len(gs)
  PROVE  \A i \in 1 .. Len(fs) : fs[i] = gs[i]
<1> DEFINE n == Len(fs)
           P == {k \in Nat : k \in 1 .. n => fs[k] = gs[k]}
<1>1. n \in Nat /\ Len(gs) \in Nat
  BY ChainRows
<1>2. 0 \in P
  OBVIOUS
<1>3. ASSUME NEW k \in Nat, k \in P PROVE k + 1 \in P
  <2> SUFFICES ASSUME k + 1 \in 1 .. n PROVE fs[k + 1] = gs[k + 1]
    OBVIOUS
  <2>1. k + 1 \in 1 .. Len(gs)
    BY <1>1
  <2>2. Starts(fs, k + 1) = Starts(gs, k + 1)
    <3>1. CASE k = 0
      BY <3>1 DEF Starts
    <3>2. CASE k # 0
      <4>1. k \in 1 .. n /\ k + 1 # 1 /\ (k + 1) - 1 = k
        BY <1>1, <3>2
      <4> QED BY <1>3, <4>1 DEF Starts
    <3> QED BY <3>1, <3>2
  <2> DEFINE c == Starts(fs, k + 1)
             f == fs[k + 1]
             g == gs[k + 1]
  <2>3. c \in Nat \ {0}
    BY ChainRows
  <2>4. f \in Field(data, c) /\ g \in Field(data, c)
    BY <2>1, <2>2 DEF Chain
  <2> HIDE DEF c, f, g
  <2>5. f = g
    BY <2>3, <2>4, FieldUnique
  <2> QED BY <2>5 DEF f, g
<1> HIDE DEF P
<1>4. \A k \in Nat : k \in P
  BY <1>2, <1>3, NatSetInduction
<1> QED BY <1>1, <1>4 DEF P

\* A later field ends later.
LEMMA ChainGrows ==
  ASSUME NEW data \in Seq(Byte), NEW fields, Chain(data, fields),
         NEW i \in 1 .. Len(fields), NEW j \in 1 .. Len(fields) + 1, i < j
  PROVE  fields[i].end <= Starts(fields, j)
<1> DEFINE n == Len(fields)
           P == {k \in Nat : (i + 1) + k \in 1 .. n + 1 => fields[i].end <= Starts(fields, (i + 1) + k)}
<1>1. n \in Nat /\ i \in Nat /\ i >= 1 /\ j \in Nat /\ i <= n
  BY ChainRows
<1>2. \A k \in 1 .. n : /\ Starts(fields, k) \in Nat \ {0} /\ fields[k].end \in Nat
                        /\ Starts(fields, k) < fields[k].end
  <2> SUFFICES ASSUME NEW k \in 1 .. n
               PROVE  /\ Starts(fields, k) \in Nat \ {0} /\ fields[k].end \in Nat
                      /\ Starts(fields, k) < fields[k].end
    OBVIOUS
  <2>1. fields[k] \in FieldRow /\ Starts(fields, k) \in Nat \ {0} /\ Starts(fields, k) < fields[k].end
    BY ChainRows
  <2>2. fields[k].end \in Nat
    BY <2>1 DEF FieldRow
  <2> QED BY <2>1, <2>2
<1> HIDE DEF n
<1>3. \A k \in 1 .. n : Starts(fields, k + 1) = fields[k].end
  BY <1>1 DEF Starts
<1>4. 0 \in P
  <2>1. (i + 1) + 0 = i + 1 /\ i \in 1 .. n
    BY <1>1
  <2> QED BY <1>2, <1>3, <2>1
<1>5. ASSUME NEW k \in Nat, k \in P PROVE k + 1 \in P
  <2> SUFFICES ASSUME (i + 1) + (k + 1) \in 1 .. n + 1
               PROVE  fields[i].end <= Starts(fields, (i + 1) + (k + 1))
    OBVIOUS
  <2> DEFINE m == (i + 1) + k
  <2>1. m \in 1 .. n /\ m \in 1 .. n + 1 /\ (i + 1) + (k + 1) = m + 1 /\ i \in 1 .. n
    BY <1>1
  <2>2. fields[i].end <= Starts(fields, m)
    BY <1>5, <2>1
  <2> HIDE DEF m
  <2>3. Starts(fields, m) < fields[m].end /\ Starts(fields, m + 1) = fields[m].end
    BY <1>2, <1>3, <2>1
  <2>4. fields[i].end \in Nat /\ Starts(fields, m) \in Nat /\ fields[m].end \in Nat
    BY <1>2, <2>1
  <2> QED BY <2>1, <2>2, <2>3, <2>4
<1> HIDE DEF P
<1>6. \A k \in Nat : k \in P
  BY <1>4, <1>5, NatSetInduction
<1>7. j - (i + 1) \in Nat /\ (i + 1) + (j - (i + 1)) = j /\ j \in 1 .. n + 1
  BY <1>1 DEF n
<1>8. j - (i + 1) \in P
  BY <1>6, <1>7
<1> QED BY <1>7, <1>8 DEF P

\* What parse_fields returns.
LEMMA ParseIs ==
  ASSUME NEW data \in Seq(Byte), NEW fields
  PROVE  fields \in parse_fields(data)
           <=> Chain(data, fields) /\ Len(fields) <= MaxFields /\ Cursor(fields) = Len(data) + 1
<1> DEFINE More(F) == UNION {{Append(fs, f) : f \in Field(data, Cursor(fs))} : fs \in F}
           Parsing(a) == a = [k \in 0 .. MaxFields |-> IF k = 0 THEN {<<>>}
                              ELSE UNION {{Append(fs, f) : f \in Field(data, Cursor(fs))} : fs \in a[k - 1]}]
           Chains(k) == {fs \in Seq(FieldRow) : Len(fs) = k /\ Chain(data, fs)}
           g == [k \in 0 .. MaxFields |-> Chains(k)]
<1>0. MaxFields \in Nat
  BY WireAssumption
<1>1. Chains(0) = {<<>>}
  <2>1. \A fs : fs \in Chains(0) => fs = <<>>
    OBVIOUS
  <2>2. <<>> \in Seq(FieldRow) /\ Len(<<>>) = 0 /\ Chain(data, <<>>)
    BY DEF Chain
  <2> QED BY <2>1, <2>2
<1>2. ASSUME NEW k \in Nat PROVE Chains(k + 1) = More(Chains(k))
  <2>1. ASSUME NEW fs \in Chains(k), NEW f \in Field(data, Cursor(fs)) PROVE Append(fs, f) \in Chains(k + 1)
    <3> DEFINE hs == Append(fs, f)
    <3>1. fs \in Seq(FieldRow) /\ Len(fs) = k /\ Chain(data, fs)
      BY <2>1
    <3>2. Cursor(fs) \in Nat \ {0} /\ Cursor(fs) = Starts(fs, k + 1)
      BY <3>1, ChainRows
    <3>3. f \in FieldRow
      BY <3>2, FieldRows
    <3>4. /\ hs \in Seq(FieldRow) /\ Len(hs) = k + 1 /\ hs[k + 1] = f
          /\ \A i \in 1 .. k : hs[i] = fs[i]
      BY <3>1, <3>3
    <3> HIDE DEF hs
    <3>5. ASSUME NEW i \in 1 .. k + 1 PROVE Starts(hs, i) = Starts(fs, i)
      <4>1. i # 1 => i - 1 \in 1 .. k
        OBVIOUS
      <4> QED BY <3>4, <4>1 DEF Starts
    <3>6. ASSUME NEW i \in 1 .. k + 1 PROVE hs[i] \in Field(data, Starts(hs, i))
      <4>1. CASE i = k + 1
        BY <3>2, <3>4, <3>5, <4>1
      <4>2. CASE i # k + 1
        <5>1. i \in 1 .. k
          BY <4>2
        <5>2. fs[i] \in Field(data, Starts(fs, i))
          BY <3>1, <5>1 DEF Chain
        <5> QED BY <3>4, <3>5, <5>1, <5>2
      <4> QED BY <4>1, <4>2
    <3>7. Chain(data, hs)
      BY <3>4, <3>6 DEF Chain
    <3> QED BY <3>4, <3>7 DEF hs
  <2>2. ASSUME NEW hs \in Chains(k + 1)
        PROVE  \E fs \in Chains(k) : \E f \in Field(data, Cursor(fs)) : hs = Append(fs, f)
    <3>1. hs \in Seq(FieldRow) /\ Len(hs) = k + 1 /\ Chain(data, hs)
      BY <2>2
    <3> DEFINE fs == SubSeq(hs, 1, k)
               f == hs[k + 1]
    <3>2. /\ fs \in Seq(FieldRow) /\ Len(fs) = k /\ hs = Append(fs, f)
          /\ \A i \in 1 .. k : fs[i] = hs[i]
      BY <3>1
    <3> HIDE DEF fs
    <3>3. ASSUME NEW i \in 1 .. k + 1 PROVE Starts(fs, i) = Starts(hs, i)
      <4>1. i # 1 => i - 1 \in 1 .. k
        OBVIOUS
      <4> QED BY <3>2, <4>1 DEF Starts
    <3>4. \A i \in 1 .. k + 1 : hs[i] \in Field(data, Starts(hs, i))
      BY <3>1 DEF Chain
    <3>5. ASSUME NEW i \in 1 .. k PROVE fs[i] \in Field(data, Starts(fs, i))
      <4>1. i \in 1 .. k + 1
        OBVIOUS
      <4> QED BY <3>2, <3>3, <3>4, <4>1
    <3>6. Chain(data, fs)
      BY <3>2, <3>5 DEF Chain
    <3>7. k + 1 \in 1 .. k + 1
      OBVIOUS
    <3>8. Cursor(fs) = Starts(fs, k + 1)
      BY <3>2, <3>6, ChainRows
    <3>9. f \in Field(data, Cursor(fs))
      BY <3>3, <3>4, <3>7, <3>8
    <3>10. fs \in Chains(k)
      BY <3>2, <3>6
    <3> QED BY <3>2, <3>9, <3>10
  <2> HIDE DEF Chains
  <2>3. \A hs \in Chains(k + 1) : hs \in More(Chains(k))
    BY <2>2
  <2>4. ASSUME NEW hs \in More(Chains(k)) PROVE hs \in Chains(k + 1)
    <3>1. PICK fs \in Chains(k) : hs \in {Append(fs, f) : f \in Field(data, Cursor(fs))}
      OBVIOUS
    <3>2. PICK f \in Field(data, Cursor(fs)) : hs = Append(fs, f)
      BY <3>1
    <3> QED BY <2>1, <3>2
  <2> HIDE DEF More
  <2> QED BY <2>3, <2>4
<1> HIDE DEF Chains
<1>3. Parsing(g)
  <2>1. ASSUME NEW k \in 0 .. MaxFields PROVE g[k] = IF k = 0 THEN {<<>>} ELSE More(g[k - 1])
    <3>1. CASE k = 0
      BY <1>1, <3>1
    <3>2. CASE k # 0
      <4>1. k - 1 \in Nat /\ (k - 1) + 1 = k /\ k - 1 \in 0 .. MaxFields
        BY <1>0, <3>2
      <4>2. Chains(k) = More(Chains(k - 1))
        BY <1>2, <4>1
      <4>3. g[k] = Chains(k) /\ g[k - 1] = Chains(k - 1)
        BY <4>1
      <4> QED BY <3>2, <4>2, <4>3
    <3> QED BY <3>1, <3>2
  <2>2. g = [k \in 0 .. MaxFields |-> g[k]]
    OBVIOUS
  <2> HIDE DEF g
  <2> QED BY <2>1, <2>2
<1> DEFINE a == CHOOSE b : Parsing(b)
<1>4. Parsing(a)
  <2> HIDE DEF Parsing, g
  <2> QED BY <1>3
<1>5. parse_fields(data) = {fs \in UNION {a[k] : k \in 0 .. MaxFields} : Cursor(fs) = Len(data) + 1}
  BY DEF parse_fields
<1> HIDE DEF a
<1> DEFINE P == {k \in Nat : k \in 0 .. MaxFields => a[k] = Chains(k)}
<1>6. \A k \in 0 .. MaxFields : a[k] = IF k = 0 THEN {<<>>} ELSE More(a[k - 1])
  BY <1>4
<1> HIDE DEF More, Parsing
<1>7. 0 \in P
  BY <1>0, <1>1, <1>6
<1>8. ASSUME NEW k \in Nat, k \in P PROVE k + 1 \in P
  <2> SUFFICES ASSUME k + 1 \in 0 .. MaxFields PROVE a[k + 1] = Chains(k + 1)
    OBVIOUS
  <2>1. k \in 0 .. MaxFields /\ k + 1 # 0 /\ (k + 1) - 1 = k
    BY <1>0
  <2>2. a[k] = Chains(k)
    BY <1>8, <2>1
  <2> QED BY <1>2, <1>6, <2>1, <2>2
<1> HIDE DEF P
<1>9. \A k \in Nat : k \in P
  BY <1>7, <1>8, NatSetInduction
<1>10. \A k \in 0 .. MaxFields : a[k] = Chains(k)
  BY <1>0, <1>9 DEF P
<1>11. fields \in UNION {a[k] : k \in 0 .. MaxFields} <=> Chain(data, fields) /\ Len(fields) <= MaxFields
  <2>1. fields \in UNION {a[k] : k \in 0 .. MaxFields} <=> \E k \in 0 .. MaxFields : fields \in Chains(k)
    BY <1>10
  <2>2. ASSUME NEW k \in 0 .. MaxFields, fields \in Chains(k)
        PROVE  Chain(data, fields) /\ Len(fields) <= MaxFields
    BY <1>0, <2>2 DEF Chains
  <2>3. ASSUME Chain(data, fields), Len(fields) <= MaxFields
        PROVE  \E k \in 0 .. MaxFields : fields \in Chains(k)
    <3>1. fields \in Seq(FieldRow) /\ Len(fields) \in Nat
      BY <2>3 DEF Chain
    <3> DEFINE k == Len(fields)
    <3>2. k \in 0 .. MaxFields
      BY <1>0, <2>3, <3>1
    <3>3. fields \in Chains(k)
      BY <2>3, <3>1 DEF Chains
    <3> HIDE DEF k
    <3> QED BY <3>2, <3>3
  <2> QED BY <2>1, <2>2, <2>3
<1> QED BY <1>5, <1>11

\* There is at most one.
LEMMA ParseUnique ==
  ASSUME NEW data \in Seq(Byte), NEW fs \in parse_fields(data)
  PROVE  parse_fields(data) = {fs}
<1>1. ASSUME NEW g \in parse_fields(data), NEW h \in parse_fields(data), Len(g) <= Len(h) PROVE g = h
  <2>1. /\ Chain(data, g) /\ Cursor(g) = Len(data) + 1
        /\ Chain(data, h) /\ Cursor(h) = Len(data) + 1
    BY ParseIs
  <2>2. \A i \in 1 .. Len(g) : g[i] = h[i]
    BY <1>1, <2>1, ChainUnique
  <2>3. Len(g) \in Nat /\ Len(h) \in Nat /\ g \in Seq(FieldRow) /\ h \in Seq(FieldRow)
    BY <2>1, ChainRows DEF Chain
  <2>4. Len(g) = Len(h)
    <3> SUFFICES ASSUME Len(g) < Len(h) PROVE FALSE
      BY <1>1, <2>3
    <3> DEFINE i == Len(g) + 1
    <3>1. i \in 1 .. Len(h) /\ i \in Nat
      BY <2>3
    <3>2. Starts(g, i) = Len(data) + 1
      BY <2>1, ChainRows
    <3>3. Starts(h, i) = Starts(g, i)
      <4>1. i # 1 => i - 1 \in 1 .. Len(g)
        BY <2>3
      <4> QED BY <2>2, <4>1 DEF Starts
    <3> HIDE DEF i
    <3>4. Starts(h, i) < h[i].end /\ h[i].end <= Len(data) + 1 /\ h[i] \in FieldRow
      BY <2>1, <3>1, ChainRows
    <3>5. h[i].end \in Nat /\ Len(data) \in Nat
      BY <3>4 DEF FieldRow
    <3> QED BY <3>2, <3>3, <3>4, <3>5
  <2> QED BY <2>2, <2>3, <2>4
<1>2. ASSUME NEW g \in parse_fields(data) PROVE g = fs
  <2>1. Len(g) \in Nat /\ Len(fs) \in Nat
    BY ParseIs, ChainRows
  <2>2. CASE Len(g) <= Len(fs)
    BY <1>1, <2>2
  <2>3. CASE Len(fs) <= Len(g)
    <3>1. fs = g
      BY <1>1, <2>3
    <3> QED BY <3>1
  <2> QED BY <2>1, <2>2, <2>3
<1> QED BY <1>2

\* A message that begins as another has the fields of it that it holds whole.
LEMMA ChainWithin ==
  ASSUME NEW data \in Seq(Byte), NEW other \in Seq(Byte), NEW fields, Chain(data, fields),
         NEW n \in Nat, n <= Len(data), n <= Len(other), \A x \in 1 .. n : other[x] = data[x],
         \A i \in 1 .. Len(fields) : fields[i].end <= n + 1
  PROVE  Chain(other, fields)
<1> SUFFICES ASSUME NEW i \in 1 .. Len(fields) PROVE fields[i] \in Field(other, Starts(fields, i))
  BY DEF Chain
<1> DEFINE c == Starts(fields, i)
           f == fields[i]
           zero == 0
<1>1. /\ c \in Nat \ {0} /\ f = At(Says(f), c, f.end) /\ f \in FieldRow
      /\ c < f.end /\ f.end <= n + 1 /\ f \in Field(data, c)
  BY ChainRows DEF Chain
<1>2. f.end \in Nat
  BY <1>1 DEF FieldRow
<1> HIDE DEF c, f
<1>3. Same(data, other, c, f.end - 1, zero)
  <2> SUFFICES ASSUME NEW x \in c .. f.end - 1 PROVE other[x + 0] = data[x]
    BY DEF Same
  <2>1. x \in 1 .. n /\ x + 0 = x
    BY <1>1, <1>2
  <2> QED BY <2>1
<1>4. zero \in Int /\ c + zero > 0 /\ f.end - 1 + zero <= Len(other) /\ c + zero = c /\ f.end + zero = f.end
  BY <1>1, <1>2
<1> HIDE DEF zero
<1>5. At(Says(f), c + zero, f.end + zero) \in Field(other, c + zero)
  BY <1>1, <1>3, <1>4, FieldMoves
<1>6. f \in Field(other, c)
  BY <1>1, <1>4, <1>5
<1> QED BY <1>6 DEF c, f

\* The bytes of a message cut short.
LEMMA Cut ==
  ASSUME NEW data \in Seq(Byte), NEW n \in Nat, n <= Len(data)
  PROVE  /\ SubSeq(data, 1, n) \in Seq(Byte) /\ Len(SubSeq(data, 1, n)) = n
         /\ \A x \in 1 .. n : SubSeq(data, 1, n)[x] = data[x]
OBVIOUS

\* The fields before one.
LEMMA ChainFront ==
  ASSUME NEW data \in Seq(Byte), NEW fields, Chain(data, fields), NEW j \in 1 .. Len(fields)
  PROVE  LET front == SubSeq(fields, 1, j - 1)
         IN  /\ Chain(data, front) /\ Len(front) = j - 1 /\ Cursor(front) = fields[j].start
             /\ \A i \in 1 .. Len(front) : front[i] = fields[i] /\ front[i].end <= fields[j].start
<1> DEFINE front == SubSeq(fields, 1, j - 1)
<1>1. fields \in Seq(FieldRow) /\ Len(fields) \in Nat
  BY ChainRows DEF Chain
<1>2. front \in Seq(FieldRow) /\ Len(front) = j - 1 /\ \A i \in 1 .. j - 1 : front[i] = fields[i]
  BY <1>1
<1> HIDE DEF front
<1>3. ASSUME NEW i \in 1 .. j PROVE Starts(front, i) = Starts(fields, i)
  <2>1. i # 1 => i - 1 \in 1 .. j - 1
    OBVIOUS
  <2> QED BY <1>2, <2>1 DEF Starts
<1>4. ASSUME NEW i \in 1 .. j - 1 PROVE front[i] \in Field(data, Starts(front, i))
  <2>1. i \in 1 .. j /\ i \in 1 .. Len(fields)
    BY <1>1
  <2>2. fields[i] \in Field(data, Starts(fields, i))
    BY <2>1 DEF Chain
  <2> QED BY <1>2, <1>3, <2>1, <2>2
<1>5. Chain(data, front)
  BY <1>2, <1>4 DEF Chain
<1>6. fields[j].start = Starts(fields, j)
  BY ChainRows
<1>7. Cursor(front) = fields[j].start
  <2>1. Cursor(front) = Starts(front, Len(front) + 1)
    BY <1>5, ChainRows
  <2>2. Len(front) + 1 = j /\ j \in 1 .. j
    BY <1>1, <1>2
  <2> QED BY <1>3, <1>6, <2>1, <2>2
<1>8. ASSUME NEW i \in 1 .. j - 1 PROVE front[i].end <= fields[j].start
  <2>1. i \in 1 .. Len(fields) /\ j \in 1 .. Len(fields) + 1 /\ i < j
    BY <1>1
  <2>2. fields[i].end <= Starts(fields, j)
    BY <2>1, ChainGrows
  <2> QED BY <1>2, <1>6, <2>2
<1> QED BY <1>2, <1>5, <1>7, <1>8 DEF front

\* A message cut short parses if it was cut between two fields.
LEMMA CutParses ==
  ASSUME NEW data \in Seq(Byte), NEW fields \in parse_fields(data), NEW n \in Nat, n < Len(data)
  PROVE  parse_fields(SubSeq(data, 1, n)) =
           {SubSeq(fields, 1, j - 1) : j \in {k \in DOMAIN fields : fields[k].start = n + 1}}
<1> DEFINE cut == SubSeq(data, 1, n)
           front(j) == SubSeq(fields, 1, j - 1)
<1>1. /\ Chain(data, fields) /\ Len(fields) <= MaxFields /\ Cursor(fields) = Len(data) + 1
      /\ Len(fields) \in Nat /\ fields \in Seq(FieldRow)
  BY ParseIs, ChainRows DEF Chain
<1>2. DOMAIN fields = 1 .. Len(fields) /\ MaxFields \in Nat
  BY <1>1, WireAssumption
<1>3. cut \in Seq(Byte) /\ Len(cut) = n /\ \A x \in 1 .. n : cut[x] = data[x]
  BY Cut
<1> HIDE DEF cut
<1>4. ASSUME NEW j \in 1 .. Len(fields), fields[j].start = n + 1 PROVE front(j) \in parse_fields(cut)
  <2>1. /\ Chain(data, front(j)) /\ Len(front(j)) = j - 1 /\ Cursor(front(j)) = n + 1
        /\ \A i \in 1 .. Len(front(j)) : front(j)[i].end <= n + 1
    BY <1>1, <1>4, ChainFront
  <2> DEFINE fs == front(j)
  <2> HIDE DEF fs
  <2>2. Chain(cut, fs)
    <3>1. n <= Len(data) /\ n <= Len(cut)
      BY <1>3
    <3>2. \A i \in 1 .. Len(fs) : fs[i].end <= n + 1
      BY <2>1 DEF fs
    <3>3. Chain(data, fs)
      BY <2>1 DEF fs
    <3> QED BY <1>3, <3>1, <3>2, <3>3, ChainWithin
  <2>3. Len(fs) <= MaxFields /\ Cursor(fs) = Len(cut) + 1
    BY <1>1, <1>2, <1>3, <2>1 DEF fs
  <2>4. fs \in parse_fields(cut)
    BY <1>3, <2>2, <2>3, ParseIs
  <2> QED BY <2>4 DEF fs
<1>5. ASSUME NEW fs \in parse_fields(cut)
      PROVE  \E j \in 1 .. Len(fields) : fields[j].start = n + 1 /\ fs = front(j)
  <2>1. Chain(cut, fs) /\ Len(fs) <= MaxFields /\ Cursor(fs) = n + 1 /\ Len(fs) \in Nat
        /\ fs \in Seq(FieldRow)
    BY <1>3, ParseIs, ChainRows DEF Chain
  <2>2. Chain(data, fs)
    <3>1. \A i \in 1 .. Len(fs) : fs[i].end <= n + 1
      BY <1>3, <2>1, ChainRows
    <3>2. n <= Len(data) /\ n <= Len(cut) /\ \A x \in 1 .. n : data[x] = cut[x]
      BY <1>3
    <3> QED BY <1>3, <2>1, <3>1, <3>2, ChainWithin
  <2>3. Cursor(fs) = Starts(fs, Len(fs) + 1)
    BY <2>2, ChainRows
  <2>4. Len(fs) < Len(fields)
    <3> SUFFICES ASSUME Len(fields) <= Len(fs) PROVE FALSE
      BY <1>1, <2>1
    <3>1. \A i \in 1 .. Len(fields) : fields[i] = fs[i]
      BY <1>1, <2>2, ChainUnique
    <3> DEFINE m == Len(fields)
    <3>2. Cursor(fields) = Starts(fields, m + 1)
      BY <1>1, ChainRows
    <3>3. Starts(fields, m + 1) = Starts(fs, m + 1)
      <4>1. m + 1 # 1 => (m + 1) - 1 \in 1 .. m
        BY <1>1
      <4> QED BY <3>1, <4>1 DEF Starts
    <3> DEFINE s == Starts(fs, m + 1)
    <3>4. s = Len(data) + 1
      BY <1>1, <3>2, <3>3
    <3> HIDE DEF s
    <3>5. CASE m = Len(fs)
      <4>1. s = n + 1
        BY <2>1, <2>3, <3>5 DEF s
      <4> QED BY <3>4, <4>1
    <3>6. CASE m < Len(fs)
      <4>1. m + 1 \in 1 .. Len(fs)
        BY <1>1, <2>1, <3>6
      <4>2. s < fs[m + 1].end /\ fs[m + 1].end <= n + 1 /\ fs[m + 1] \in FieldRow
        BY <1>3, <2>1, <4>1, ChainRows DEF s
      <4>3. fs[m + 1].end \in Nat /\ Len(data) \in Nat
        BY <4>2 DEF FieldRow
      <4> QED BY <3>4, <4>2, <4>3
    <3> QED BY <1>1, <2>1, <3>5, <3>6
  <2>5. \A i \in 1 .. Len(fs) : fs[i] = fields[i]
    BY <1>1, <2>1, <2>2, <2>4, ChainUnique
  <2> DEFINE j == Len(fs) + 1
  <2>6. j \in 1 .. Len(fields) /\ j - 1 = Len(fs)
    BY <1>1, <2>1, <2>4
  <2>7. fs = SubSeq(fields, 1, Len(fs))
    BY <1>1, <2>1, <2>4, <2>5
  <2>8. Starts(fields, j) = Starts(fs, j)
    <3>1. j # 1 => j - 1 \in 1 .. Len(fs)
      BY <2>1
    <3> QED BY <2>5, <3>1 DEF Starts
  <2>9. fields[j].start = Starts(fields, j)
    BY <1>1, <2>6, ChainRows
  <2>10. fields[j].start = n + 1
    BY <2>1, <2>3, <2>8, <2>9
  <2> QED BY <2>6, <2>7, <2>10
<1> HIDE DEF front
<1>6. parse_fields(cut) = {front(j) : j \in {k \in DOMAIN fields : fields[k].start = n + 1}}
  BY <1>2, <1>4, <1>5
<1> QED BY <1>6 DEF cut, front

\* What a message says, one item for each field.
Reads(data, items) ==
  /\ data \in Seq(Byte) /\ Len(items) \in Nat
  /\ \E fields : /\ Chain(data, fields) /\ Cursor(fields) = Len(data) + 1
                 /\ Len(fields) = Len(items)
                 /\ \A i \in 1 .. Len(items) : Says(fields[i]) = items[i]

\* No data says nothing.
LEMMA ReadsNothing == Reads(<<>>, <<>>)
<1>1. Chain(<<>>, <<>>) /\ Cursor(<<>>) = Len(<<>>) + 1
  BY DEF Chain, Cursor
<1> QED BY <1>1 DEF Reads

\* A field that was written is read.
LEMMA ReadsOne ==
  ASSUME NEW item, Writable(item)
  PROVE  Reads(encode(item), <<item>>)
<1> DEFINE data == encode(item)
           f == At(item, 1, Len(data) + 1)
           fields == <<f>>
<1>1. data \in Seq(Byte) /\ f \in Field(data, 1)
  BY FieldWritten
<1>2. Says(f) = item
  <2>1. item \in Item
    BY DEF Writable
  <2> QED BY <2>1 DEF Says, At, Item
<1>3. f.end = Len(data) + 1
  BY DEF At
<1> HIDE DEF data, f
<1>4. f \in FieldRow
  <2>1. 1 \in Nat \ {0}
    OBVIOUS
  <2> QED BY <1>1, <2>1, FieldRows
<1>5. fields \in Seq(FieldRow) /\ Len(fields) = 1 /\ fields[1] = f /\ fields # <<>>
  BY <1>4
<1> HIDE DEF fields
<1>6. Chain(data, fields) /\ Cursor(fields) = Len(data) + 1
  BY <1>1, <1>3, <1>5 DEF Chain, Starts, Cursor
<1>7. Len(<<item>>) = 1 /\ <<item>>[1] = item
  OBVIOUS
<1>8. \A i \in 1 .. 1 : Says(fields[i]) = <<item>>[i]
  BY <1>2, <1>5, <1>7
<1> QED BY <1>1, <1>5, <1>6, <1>7, <1>8 DEF Reads, data

\* Two messages one after the other say what they say.
LEMMA ReadsBoth ==
  ASSUME NEW a, NEW aitems \in Seq(Item), Reads(a, aitems), NEW b, NEW bitems \in Seq(Item), Reads(b, bitems)
  PROVE  Reads(a \o b, aitems \o bitems)
<1> DEFINE data == a \o b
           items == aitems \o bitems
           move == Len(a)
           n == Len(aitems)
           m == Len(bitems)
<1>1. a \in Seq(Byte) /\ b \in Seq(Byte) /\ n \in Nat /\ m \in Nat /\ move \in Nat
  BY DEF Reads
<1>2. PICK fs : /\ Chain(a, fs) /\ Cursor(fs) = move + 1 /\ Len(fs) = n
                /\ \A i \in 1 .. n : Says(fs[i]) = aitems[i]
  BY DEF Reads
<1>3. PICK gs : /\ Chain(b, gs) /\ Cursor(gs) = Len(b) + 1 /\ Len(gs) = m
                /\ \A i \in 1 .. m : Says(gs[i]) = bitems[i]
  BY DEF Reads
<1>4. /\ data \in Seq(Byte) /\ Len(data) = move + Len(b) /\ Len(b) \in Nat
      /\ \A x \in 1 .. move : data[x] = a[x]
      /\ \A x \in 1 .. Len(b) : data[x + move] = b[x]
  BY <1>1
<1>5. /\ items \in Seq(Item) /\ Len(items) = n + m
      /\ \A i \in 1 .. n : items[i] = aitems[i]
      /\ \A i \in 1 .. m : items[i + n] = bitems[i]
  BY <1>1
<1> HIDE DEF data, items, move, n, m
<1> DEFINE moved(g) == At(Says(g), g.start + move, g.end + move)
           hs == [i \in 1 .. n + m |-> IF i <= n THEN fs[i] ELSE moved(gs[i - n])]
<1>6. /\ DOMAIN hs = 1 .. n + m
      /\ \A i \in 1 .. n : hs[i] = fs[i]
      /\ \A i \in 1 .. m : hs[i + n] = moved(gs[i])
  <2>1. \A i \in 1 .. n : i \in 1 .. n + m /\ i <= n
    BY <1>1
  <2>2. \A i \in 1 .. m : i + n \in 1 .. n + m /\ ~(i + n <= n) /\ (i + n) - n = i
    BY <1>1
  <2> QED BY <2>1, <2>2
<1>61. hs = [i \in 1 .. n + m |-> hs[i]]
  OBVIOUS
<1> HIDE DEF hs
<1>7. ASSUME NEW i \in 1 .. m
      PROVE  /\ gs[i] \in FieldRow /\ Starts(gs, i) \in Nat \ {0} /\ gs[i].start = Starts(gs, i)
             /\ gs[i] \in Field(b, Starts(gs, i)) /\ gs[i].end \in Nat /\ gs[i].end <= Len(b) + 1
             /\ Starts(gs, i) < gs[i].end
             /\ moved(gs[i]).end = gs[i].end + move /\ Says(moved(gs[i])) = Says(gs[i])
  <2>1. /\ gs[i] \in FieldRow /\ Starts(gs, i) \in Nat \ {0} /\ gs[i].start = Starts(gs, i)
        /\ gs[i].end <= Len(b) + 1 /\ Starts(gs, i) < gs[i].end
    BY <1>1, <1>3, ChainRows
  <2>2. gs[i] \in Field(b, Starts(gs, i))
    BY <1>3 DEF Chain
  <2>3. gs[i].end \in Nat
    BY <2>1 DEF FieldRow
  <2>4. moved(gs[i]).end = gs[i].end + move /\ Says(moved(gs[i])) = Says(gs[i])
    BY DEF At, Says
  <2> QED BY <2>1, <2>2, <2>3, <2>4
<1>8. ASSUME NEW i \in 1 .. n
      PROVE  hs[i] \in Field(data, Starts(hs, i)) /\ Says(hs[i]) = items[i]
  <2>1. Chain(data, fs)
    <3>1. \A k \in 1 .. Len(fs) : fs[k].end <= move + 1
      BY <1>1, <1>2, ChainRows DEF move
    <3>2. move <= Len(a) /\ move <= Len(data) /\ move \in Nat
      BY <1>1, <1>4 DEF move
    <3> QED BY <1>1, <1>2, <1>4, <3>1, <3>2, ChainWithin
  <2>2. fs[i] \in Field(data, Starts(fs, i))
    BY <1>2, <2>1 DEF Chain
  <2>3. Starts(hs, i) = Starts(fs, i)
    <3>1. i # 1 => i - 1 \in 1 .. n
      BY <1>1
    <3> QED BY <1>6, <3>1 DEF Starts
  <2> QED BY <1>2, <1>5, <1>6, <2>2, <2>3
<1>9. ASSUME NEW i \in 1 .. m PROVE Starts(hs, i + n) = Starts(gs, i) + move
  <2>1. CASE i = 1
    <3>1. Starts(gs, i) = 1
      BY <2>1 DEF Starts
    <3>2. CASE n = 0
      <4>1. Cursor(fs) = 1
        <5>1. Cursor(fs) = Starts(fs, n + 1)
          BY <1>1, <1>2, ChainRows
        <5> QED BY <3>2, <5>1 DEF Starts
      <4>2. move = 0 /\ i + n = 1
        BY <1>1, <1>2, <2>1, <3>2, <4>1
      <4> QED BY <3>1, <4>2 DEF Starts
    <3>3. CASE n # 0
      <4>1. i + n # 1 /\ (i + n) - 1 = n /\ n \in 1 .. n /\ n + 1 # 1 /\ (n + 1) - 1 = n
        BY <1>1, <2>1, <3>3
      <4>2. Cursor(fs) = Starts(fs, n + 1)
        BY <1>1, <1>2, ChainRows
      <4>3. Cursor(fs) = fs[n].end
        BY <4>1, <4>2 DEF Starts
      <4>4. Starts(hs, i + n) = fs[n].end
        BY <1>6, <4>1 DEF Starts
      <4> QED BY <1>1, <1>2, <3>1, <4>3, <4>4
    <3> QED BY <3>2, <3>3
  <2>2. CASE i # 1
    <3>1. i - 1 \in 1 .. m /\ (i + n) - 1 = (i - 1) + n /\ i + n # 1
      BY <1>1, <2>2
    <3>2. Starts(hs, i + n) = hs[(i - 1) + n].end
      BY <3>1 DEF Starts
    <3>3. hs[(i - 1) + n].end = gs[i - 1].end + move
      BY <1>6, <1>7, <3>1
    <3>4. Starts(gs, i) = gs[i - 1].end
      BY <2>2 DEF Starts
    <3> QED BY <3>2, <3>3, <3>4
  <2> QED BY <2>1, <2>2
<1>10. ASSUME NEW i \in 1 .. m
       PROVE  hs[i + n] \in Field(data, Starts(hs, i + n)) /\ Says(hs[i + n]) = items[i + n]
  <2> DEFINE c == Starts(gs, i)
             g == gs[i]
  <2>1. /\ c \in Nat \ {0} /\ g.start = c /\ g \in Field(b, c) /\ g.end \in Nat
        /\ g.end <= Len(b) + 1 /\ c < g.end
    BY <1>7
  <2> HIDE DEF c, g
  <2>2. Same(b, data, c, g.end - 1, move)
    <3> SUFFICES ASSUME NEW x \in c .. g.end - 1 PROVE data[x + move] = b[x]
      BY DEF Same
    <3>1. x \in 1 .. Len(b)
      BY <1>4, <2>1
    <3> QED BY <1>4, <3>1
  <2>3. move \in Int /\ c + move > 0 /\ g.end - 1 + move <= Len(data)
    BY <1>1, <1>4, <2>1
  <2>4. At(Says(g), c + move, g.end + move) \in Field(data, c + move)
    BY <1>1, <1>4, <2>1, <2>2, <2>3, FieldMoves
  <2>5. hs[i + n] = At(Says(g), c + move, g.end + move)
    BY <1>6, <2>1 DEF g
  <2>6. Starts(hs, i + n) = c + move
    BY <1>9 DEF c
  <2>7. Says(hs[i + n]) = items[i + n]
    <3>1. hs[i + n] = moved(gs[i])
      BY <1>6
    <3>2. Says(moved(gs[i])) = Says(gs[i])
      BY <1>7
    <3>3. Says(gs[i]) = bitems[i] /\ items[i + n] = bitems[i]
      BY <1>3, <1>5
    <3> HIDE DEF moved
    <3> QED BY <3>1, <3>2, <3>3
  <2> QED BY <2>4, <2>5, <2>6, <2>7
<1>11. ASSUME NEW i \in 1 .. n + m
       PROVE  hs[i] \in Field(data, Starts(hs, i)) /\ Says(hs[i]) = items[i]
  <2>1. CASE i <= n
    BY <1>8, <2>1
  <2>2. CASE i > n
    <3>1. i - n \in 1 .. m /\ (i - n) + n = i
      BY <1>1, <2>2
    <3> QED BY <1>10, <3>1
  <2> QED BY <1>1, <2>1, <2>2
<1>12. hs \in Seq(FieldRow) /\ Len(hs) = n + m
  <2>1. ASSUME NEW i \in 1 .. n + m PROVE hs[i] \in FieldRow
    <3>1. CASE i <= n
      <4>1. i \in 1 .. Len(fs)
        BY <1>1, <1>2, <3>1
      <4>2. fs[i] \in FieldRow
        BY <1>1, <1>2, <4>1, ChainRows
      <4> QED BY <1>2, <1>6, <4>1, <4>2
    <3>2. CASE i > n
      <4> DEFINE k == i - n
                 c == Starts(gs, k) + move
      <4>1. k \in 1 .. m /\ k + n = i
        BY <1>1, <3>2
      <4>2. Starts(hs, i) = c
        BY <1>9, <4>1
      <4>3. c \in Nat \ {0}
        BY <1>1, <1>7, <4>1
      <4> HIDE DEF c
      <4>4. hs[i] \in Field(data, c)
        BY <1>11, <4>2
      <4> QED BY <1>4, <4>3, <4>4, FieldRows
    <3> QED BY <1>1, <3>1, <3>2
  <2>2. n + m \in Nat /\ hs \in [1 .. n + m -> FieldRow]
    BY <1>1, <1>61, <2>1
  <2> QED BY <2>2
<1>13. Chain(data, hs)
  BY <1>11, <1>12 DEF Chain
<1>14. Cursor(hs) = Len(data) + 1
  <2>1. Cursor(hs) = Starts(hs, (n + m) + 1)
    BY <1>4, <1>12, <1>13, ChainRows
  <2>2. CASE m = 0
    <3>1. Cursor(gs) = 1
      <4>1. Cursor(gs) = Starts(gs, m + 1)
        BY <1>1, <1>3, ChainRows
      <4> QED BY <2>2, <4>1 DEF Starts
    <3>2. Len(data) = move
      BY <1>1, <1>3, <1>4, <3>1
    <3>3. Cursor(fs) = Starts(fs, n + 1)
      BY <1>1, <1>2, ChainRows
    <3>4. Starts(hs, n + 1) = Starts(fs, n + 1)
      <4>1. n + 1 # 1 => (n + 1) - 1 \in 1 .. n
        BY <1>1
      <4> QED BY <1>6, <4>1 DEF Starts
    <3> QED BY <1>1, <1>2, <2>1, <2>2, <3>2, <3>3, <3>4
  <2>3. CASE m # 0
    <3>1. (n + m) + 1 # 1 /\ ((n + m) + 1) - 1 = m + n /\ m \in 1 .. m /\ m + 1 # 1 /\ (m + 1) - 1 = m
      BY <1>1, <2>3
    <3>2. Cursor(hs) = hs[m + n].end
      BY <2>1, <3>1 DEF Starts
    <3>3. hs[m + n].end = gs[m].end + move
      BY <1>6, <1>7, <3>1
    <3>4. Cursor(gs) = Starts(gs, m + 1)
      BY <1>1, <1>3, ChainRows
    <3>5. Cursor(gs) = gs[m].end
      BY <3>1, <3>4 DEF Starts
    <3> QED BY <1>1, <1>3, <1>4, <3>2, <3>3, <3>5
  <2> QED BY <2>2, <2>3
<1>15. \A i \in 1 .. Len(items) : Says(hs[i]) = items[i]
  BY <1>5, <1>11
<1>16. n + m \in Nat
  BY <1>1
<1> QED BY <1>4, <1>5, <1>12, <1>13, <1>14, <1>15, <1>16 DEF Reads, data, items

-----------------------------------------------------------------------------
(* Written and read. *)

\* The function that FlattenSeq applies to the number of sequences.
Joining(f, seqs) == f = [i \in 1 .. Len(seqs) |-> IF i = 1 THEN seqs[i] ELSE f[i - 1] \o seqs[i]]
\* The fields of a message, written one after the other.
Written(items) == [i \in 1 .. Len(items) |-> encode(items[i])]
\* Data that begins with the key of a field.
Begins(data, item) == data # <<>> /\ data[1] = encode_key(item.number, item.type)[1]

\* Each written field begins with its key.
LEMMA WrittenBegins ==
  ASSUME NEW item, Writable(item)
  PROVE  Begins(encode(item), item)
<1> DEFINE number == item.number
           type == item.type
           n == number * 8 + type
           K == encode_varint(n)
<1>1. /\ number \in Nat \ {0} /\ type \in {0, 1, 2, 5} /\ item.value \in Nat
      /\ item.bytes \in Seq(Byte) /\ n < Place[MaxBytes]
  BY DEF Writable, Item
<1>2. n \in Nat
  BY <1>1
<1>3. encode_key(number, type) = K
  BY Zenon DEF encode_key
<1> HIDE DEF n, number, type
<1>4. K \in Seq(Byte) /\ Len(K) \in Nat \ {0}
  BY <1>1, <1>2, Encodes
<1> HIDE DEF K
<1>5. ASSUME NEW rest \in Seq(Byte) PROVE K \o rest # <<>> /\ (K \o rest)[1] = K[1]
  BY <1>4
<1>6. \E rest \in Seq(Byte) : encode(item) = K \o rest
  <2>1. ASSUME type = 0 PROVE \E rest \in Seq(Byte) : encode(item) = K \o rest
    <3> DEFINE V == encode_varint(item.value)
    <3>1. item.value < Place[MaxBytes]
      BY <2>1 DEF Writable, type
    <3>2. V \in Seq(Byte)
      BY <1>1, <3>1, Encodes
    <3>3. encode(item) = encode_varint_field(item.number, item.value)
      BY <2>1, Zenon DEF encode, type
    <3>4. encode(item) = K \o V
      BY <2>1, <3>3, <1>3, Zenon DEF encode_varint_field, number, type
    <3> HIDE DEF V
    <3> QED BY <3>2, <3>4
  <2>2. ASSUME type = 2 PROVE \E rest \in Seq(Byte) : encode(item) = K \o rest
    <3> DEFINE size == Len(item.bytes)
               V == encode_varint(size)
    <3>1. size \in Nat /\ size < Place[MaxBytes]
      BY <1>1, <2>2 DEF Writable, type
    <3> HIDE DEF size
    <3>2. V \in Seq(Byte)
      BY <3>1, Encodes
    <3>3. ~(item.type = 0) /\ item.type = 2
      BY <2>2 DEF type
    <3>4. encode(item) = encode_bytes_field(item.number, item.bytes)
      BY <3>3, Zenon DEF encode
    <3>5. encode(item) = K \o V \o item.bytes
      BY <2>2, <3>4, <1>3, Zenon DEF encode_bytes_field, number, type, size
    <3> HIDE DEF V
    <3>6. V \o item.bytes \in Seq(Byte)
      BY <1>1, <3>2
    <3>7. K \o V \o item.bytes = K \o (V \o item.bytes)
      <4> DEFINE B == item.bytes
      <4>1. K \in Seq(Byte) /\ V \in Seq(Byte) /\ B \in Seq(Byte)
        BY <1>1, <1>4, <3>2
      <4> HIDE DEF B
      <4>2. (K \o V) \o B = K \o (V \o B)
        BY <4>1, ConcatAssociative
      <4> QED BY <4>2 DEF B
    <3> QED BY <3>5, <3>6, <3>7
  <2>3. ASSUME type # 0, type # 2 PROVE \E rest \in Seq(Byte) : encode(item) = K \o rest
    <3>1. item.type # 0 /\ item.type # 2
      BY <2>3 DEF type
    <3>2. encode(item) = encode_key(item.number, item.type) \o item.bytes
      BY <3>1, Zenon DEF encode
    <3> QED BY <1>1, <1>3, <3>2 DEF number, type
  <2> QED BY <2>1, <2>2, <2>3
<1>7. PICK rest \in Seq(Byte) : encode(item) = K \o rest
  BY <1>6
<1>8. encode(item) # <<>> /\ encode(item)[1] = K[1]
  BY <1>5, <1>7
<1> QED BY <1>3, <1>8 DEF Begins, number, type

\* Fields written one after the other are read one after the other, and the
\* data begins with the key of the first.
LEMMA ReadsAll ==
  ASSUME NEW items \in Seq(Item), \A i \in 1 .. Len(items) : Writable(items[i])
  PROVE  /\ Reads(FlattenSeq(Written(items)), items)
         /\ items # <<>> => Begins(FlattenSeq(Written(items)), items[1])
<1> DEFINE seqs == Written(items)
           n == Len(items)
           front(k) == SubSeq(items, 1, k)
           g(k) == FlattenSeq(SubSeq(seqs, 1, k))
           Good(k, h) == h = [i \in 1 .. k |-> IF i = 1 THEN seqs[i] ELSE h[i - 1] \o seqs[i]]
           Ok(k) == \E h : Good(k, h) /\ Reads(h[k], front(k)) /\ Begins(h[k], items[1])
           P == {k \in Nat : k + 1 \in 1 .. n => Ok(k + 1)}
<1>1. n \in Nat /\ Len(seqs) = n /\ \A i \in 1 .. n : seqs[i] = encode(items[i])
  BY DEF Written
<1> HIDE DEF seqs
<1>2. ASSUME NEW i \in 1 .. n
      PROVE  Reads(seqs[i], <<items[i]>>) /\ items[i] \in Item /\ Begins(seqs[i], items[i])
  BY <1>1, ReadsOne, WrittenBegins DEF Writable
<1>3. 0 \in P
  <2> SUFFICES ASSUME 0 + 1 \in 1 .. n PROVE Ok(0 + 1)
    OBVIOUS
  <2> DEFINE h == [i \in 1 .. 1 |-> seqs[i]]
  <2>1. h = [i \in 1 .. 0 + 1 |-> IF i = 1 THEN seqs[i] ELSE h[i - 1] \o seqs[i]]
    OBVIOUS
  <2>2. h[0 + 1] = seqs[1] /\ 1 \in 1 .. n /\ 0 + 1 = 1
    OBVIOUS
  <2>3. front(1) = <<items[1]>>
    <3>1. 1 \in Nat /\ 1 <= Len(items)
      BY <1>1, <2>2
    <3> DEFINE x == front(1)
    <3>2. x \in Seq(Item) /\ Len(x) = 1 /\ x[1] = items[1]
      BY <3>1
    <3> HIDE DEF x
    <3>3. x = <<items[1]>>
      BY <3>2
    <3> QED BY <3>3 DEF x
  <2> HIDE DEF h, front
  <2>4. Reads(h[0 + 1], front(0 + 1)) /\ Begins(h[0 + 1], items[1])
    BY <1>2, <2>2, <2>3
  <2> QED BY <2>1, <2>4
<1>4. ASSUME NEW k \in Nat, k \in P PROVE k + 1 \in P
  <2> SUFFICES ASSUME (k + 1) + 1 \in 1 .. n
               PROVE  Ok((k + 1) + 1)
    <3> HIDE DEF Ok
    <3> QED OBVIOUS
  <2> DEFINE m == (k + 1) + 1
  <2>0. m \in 1 .. n /\ k + 1 \in 1 .. n /\ m - 1 = k + 1 /\ m # 1 /\ m \in Nat /\ k + 1 # m
    BY <1>1
  <2>1. PICK h : Good(k + 1, h) /\ Reads(h[k + 1], front(k + 1)) /\ Begins(h[k + 1], items[1])
    BY <1>4, <2>0
  <2> DEFINE last == h[k + 1] \o seqs[m]
             j == [i \in 1 .. m |-> IF i = m THEN last ELSE h[i]]
  <2>2. Reads(last, front(k + 1) \o <<items[m]>>)
    <3>1. Reads(seqs[m], <<items[m]>>) /\ <<items[m]>> \in Seq(Item)
      BY <1>2, <2>0
    <3>2. front(k + 1) \in Seq(Item)
      BY <1>1, <2>0
    <3> HIDE DEF front
    <3> QED BY <2>1, <3>1, <3>2, ReadsBoth
  <2>7. Begins(last, items[1])
    <3> DEFINE a == h[k + 1]
               b == seqs[m]
    <3>1. a \in Seq(Byte) /\ b \in Seq(Byte)
      BY <1>2, <2>0, <2>1 DEF Reads
    <3>2. a # <<>> /\ a[1] = encode_key(items[1].number, items[1].type)[1]
      BY <2>1 DEF Begins
    <3> HIDE DEF a, b
    <3>3. a \o b # <<>> /\ (a \o b)[1] = a[1]
      BY <3>1, <3>2
    <3>4. last = a \o b
      BY DEF a, b
    <3> HIDE DEF last
    <3> QED BY <3>2, <3>3, <3>4 DEF Begins
  <2>3. front(k + 1) \o <<items[m]>> = front(m)
    <3> DEFINE p == k + 1
    <3>1. p \in Nat /\ m = p + 1 /\ m <= n
      BY <2>0
    <3> HIDE DEF p, m
    <3>2. SubSeq(items, 1, p) \o <<items[m]>> = SubSeq(items, 1, m)
      BY <1>1, <3>1
    <3> QED BY <3>2 DEF p
  <2>4. Good(m, j)
    <3>1. \A i \in 1 .. k + 1 : h[i] = IF i = 1 THEN seqs[i] ELSE h[i - 1] \o seqs[i]
      BY <2>1
    <3>2. j[m] = last /\ \A i \in 1 .. k + 1 : j[i] = h[i]
      <4>1. m \in 1 .. m /\ \A i \in 1 .. k + 1 : i \in 1 .. m /\ i # m
        BY <2>0
      <4> HIDE DEF m, last
      <4> QED BY <4>1
    <3>3. j = [i \in 1 .. m |-> j[i]]
      OBVIOUS
    <3> HIDE DEF j
    <3>4. ASSUME NEW i \in 1 .. m PROVE j[i] = IF i = 1 THEN seqs[i] ELSE j[i - 1] \o seqs[i]
      <4>1. CASE i = m
        <5>1. k + 1 \in 1 .. k + 1
          OBVIOUS
        <5> QED BY <2>0, <3>2, <4>1, <5>1
      <4>2. CASE i # m
        <5>1. i \in 1 .. k + 1 /\ (i # 1 => i - 1 \in 1 .. k + 1)
          BY <4>2
        <5> QED BY <3>1, <3>2, <5>1
      <4> QED BY <4>1, <4>2
    <3> QED BY <3>3, <3>4
  <2>5. j[m] = last
    <3>1. m \in 1 .. m
      BY <2>0
    <3> HIDE DEF m, last
    <3> QED BY <3>1
  <2> HIDE DEF j, last, Good, front, m
  <2>6. Good(m, j) /\ Reads(j[m], front(m)) /\ Begins(j[m], items[1])
    BY <2>2, <2>3, <2>4, <2>5, <2>7
  <2> QED BY <2>6 DEF m
<1> HIDE DEF P
<1>5. \A k \in Nat : k \in P
  BY <1>3, <1>4, NatSetInduction
<1>6. CASE n = 0
  <2>1. items = <<>>
    BY <1>6
  <2>2. seqs = <<>>
    BY <2>1 DEF seqs, Written
  <2>3. FlattenSeq(seqs) = seqs
    BY <1>1, <1>6, Zenon DEF FlattenSeq
  <2> QED BY <2>1, <2>2, <2>3, ReadsNothing DEF seqs
<1>7. CASE n # 0
  <2>1. n - 1 \in Nat /\ (n - 1) + 1 = n /\ n \in 1 .. n
    BY <1>1, <1>7
  <2>2. PICK h : Good(n, h) /\ Reads(h[n], front(n)) /\ Begins(h[n], items[1])
    <3>1. n - 1 \in P
      BY <1>5, <2>1
    <3> QED BY <2>1, <3>1 DEF P
  <2>3. front(n) = items
    BY <1>1
  <2>4. Joining(h, seqs)
    BY <1>1, <2>2 DEF Joining
  <2> DEFINE f == CHOOSE e : Joining(e, seqs)
  <2>5. Joining(f, seqs)
    BY <2>4
  <2>6. FlattenSeq(seqs) = f[n]
    <3>1. Len(seqs) # 0 /\ Len(seqs) = n
      BY <1>1, <1>7
    <3> QED BY <3>1 DEF FlattenSeq, Joining
  <2> HIDE DEF f
  <2>7. /\ \A i \in 1 .. n : f[i] = IF i = 1 THEN seqs[i] ELSE f[i - 1] \o seqs[i]
        /\ \A i \in 1 .. n : h[i] = IF i = 1 THEN seqs[i] ELSE h[i - 1] \o seqs[i]
    BY <1>1, <2>4, <2>5 DEF Joining
  <2> DEFINE Q == {k \in Nat : k \in 1 .. n => f[k] = h[k]}
  <2>8. 0 \in Q
    OBVIOUS
  <2>9. ASSUME NEW k \in Nat, k \in Q PROVE k + 1 \in Q
    <3> SUFFICES ASSUME k + 1 \in 1 .. n PROVE f[k + 1] = h[k + 1]
      OBVIOUS
    <3>1. CASE k = 0
      <4>1. k + 1 = 1 /\ 1 \in 1 .. n
        BY <3>1
      <4> QED BY <2>7, <4>1
    <3>2. CASE k # 0
      <4>1. k \in 1 .. n /\ k + 1 # 1 /\ (k + 1) - 1 = k
        BY <1>1, <3>2
      <4>2. f[k] = h[k]
        BY <2>9, <4>1
      <4> QED BY <2>7, <4>1, <4>2
    <3> QED BY <3>1, <3>2
  <2> HIDE DEF Q
  <2>10. \A k \in Nat : k \in Q
    BY <2>8, <2>9, NatSetInduction
  <2>11. f[n] = h[n]
    BY <1>1, <2>1, <2>10 DEF Q
  <2> QED BY <2>2, <2>3, <2>6, <2>11 DEF seqs
<1> QED BY <1>6, <1>7

\* What is read of a message is the items that were written.
LEMMA Parsed ==
  ASSUME NEW data, NEW items, Reads(data, items), Len(items) <= MaxFields
  PROVE  \E fields : /\ parse_fields(data) = {fields}
                     /\ Chain(data, fields) /\ Len(fields) = Len(items) /\ Len(fields) \in Nat
                     /\ fields \in Seq(FieldRow) /\ DOMAIN fields = 1 .. Len(items)
                     /\ \A i \in 1 .. Len(items) : Says(fields[i]) = items[i]
<1>1. data \in Seq(Byte) /\ Len(items) \in Nat
  BY DEF Reads
<1>2. PICK fields : /\ Chain(data, fields) /\ Cursor(fields) = Len(data) + 1
                    /\ Len(fields) = Len(items)
                    /\ \A i \in 1 .. Len(items) : Says(fields[i]) = items[i]
  BY DEF Reads
<1>3. fields \in parse_fields(data)
  BY <1>1, <1>2, ParseIs
<1>4. parse_fields(data) = {fields}
  BY <1>1, <1>3, ParseUnique
<1>5. fields \in Seq(FieldRow) /\ DOMAIN fields = 1 .. Len(items)
  BY <1>2 DEF Chain
<1> QED BY <1>1, <1>2, <1>4, <1>5

\* Fields lie end to end, a message that is cut short is refused unless it was
\* cut between two fields, and what is written again says the same, for every
\* message (parse_fields, decode_varint and the encode_ functions).
THEOREM MessagesTile ==
  ASSUME NEW data \in Seq(Byte)
  PROVE  FieldsTile(data)
<1> SUFFICES ASSUME NEW fields \in parse_fields(data)
             PROVE
        /\ \A i \in DOMAIN fields : fields[i].start = IF i = 1 THEN 1 ELSE fields[i - 1].end
        /\ data # <<>> => fields # <<>> /\ fields[Len(fields)].end = Len(data) + 1
        /\ \A n \in 0 .. Len(data) - 1 :
              parse_fields(SubSeq(data, 1, n)) =
                 {SubSeq(fields, 1, j - 1) : j \in {k \in DOMAIN fields : fields[k].start = n + 1}}
        /\ \E again \in parse_fields(FlattenSeq([i \in DOMAIN fields |-> encode(fields[i])])) :
              Content(again) = Content(fields)
  BY DEF FieldsTile
<1>1. /\ Chain(data, fields) /\ Len(fields) <= MaxFields /\ Cursor(fields) = Len(data) + 1
      /\ Len(fields) \in Nat /\ fields \in Seq(FieldRow) /\ DOMAIN fields = 1 .. Len(fields)
  BY ParseIs, ChainRows DEF Chain
<1>2. \A i \in DOMAIN fields : fields[i].start = IF i = 1 THEN 1 ELSE fields[i - 1].end
  <2>1. \A i \in DOMAIN fields : fields[i].start = Starts(fields, i)
    BY <1>1, ChainRows
  <2> QED BY <2>1 DEF Starts
<1>3. data # <<>> => fields # <<>> /\ fields[Len(fields)].end = Len(data) + 1
  <2>1. Len(data) \in Nat /\ (data # <<>> => Len(data) # 0)
    OBVIOUS
  <2> QED BY <1>1, <2>1 DEF Cursor
<1>4. ASSUME NEW n \in 0 .. Len(data) - 1
      PROVE  parse_fields(SubSeq(data, 1, n)) =
               {SubSeq(fields, 1, j - 1) : j \in {k \in DOMAIN fields : fields[k].start = n + 1}}
  <2>1. n \in Nat /\ n < Len(data)
    OBVIOUS
  <2> QED BY <2>1, CutParses
<1>5. \E again \in parse_fields(FlattenSeq([i \in DOMAIN fields |-> encode(fields[i])])) :
        Content(again) = Content(fields)
  <2> DEFINE n == Len(fields)
             items == [i \in 1 .. n |-> Says(fields[i])]
             bytes == FlattenSeq([i \in DOMAIN fields |-> encode(fields[i])])
  <2>1. \A i \in 1 .. n : Writable(items[i])
    BY <1>1, ChainRows
  <2>2. items \in Seq(Item) /\ Len(items) = n
    <3>1. \A i \in 1 .. n : items[i] \in Item
      BY <2>1 DEF Writable
    <3> QED BY <1>1, <3>1
  <2>3. \A i \in 1 .. n : encode(fields[i]) = encode(items[i])
    <3> SUFFICES ASSUME NEW i \in 1 .. n PROVE encode(fields[i]) = encode(Says(fields[i]))
      OBVIOUS
    <3> DEFINE f == fields[i]
               s == Says(f)
    <3>1. s.number = f.number /\ s.type = f.type /\ s.value = f.value /\ s.bytes = f.bytes
      BY DEF Says
    <3> HIDE DEF f, s
    <3>2. encode(f) = encode(s)
      BY <3>1, Zenon DEF encode
    <3> QED BY <3>2 DEF f, s
  <2>4. [i \in DOMAIN fields |-> encode(fields[i])] = Written(items)
    BY <1>1, <2>2, <2>3 DEF Written
  <2>5. bytes = FlattenSeq(Written(items))
    BY <2>4
  <2> HIDE DEF bytes
  <2>6. Reads(bytes, items)
    <3>1. \A i \in 1 .. Len(items) : Writable(items[i])
      BY <2>1, <2>2
    <3> HIDE DEF items
    <3> QED BY <2>2, <2>5, <3>1, ReadsAll
  <2>7. PICK again : /\ parse_fields(bytes) = {again} /\ DOMAIN again = 1 .. n
                     /\ \A i \in 1 .. n : Says(again[i]) = items[i]
    <3> HIDE DEF items
    <3> QED BY <1>1, <2>2, <2>6, Parsed
  <2>8. Content(again) = Content(fields)
    <3>1. \A i \in 1 .. n : Says(again[i]) = Says(fields[i])
      BY <2>7
    <3>2. Content(again) = [i \in 1 .. n |-> Says(again[i])]
      BY <2>7 DEF Content, Says
    <3>3. Content(fields) = [i \in 1 .. n |-> Says(fields[i])]
      BY <1>1 DEF Content, Says
    <3> QED BY <3>1, <3>2, <3>3
  <2> QED BY <2>7, <2>8 DEF bytes
<1> QED BY <1>2, <1>3, <1>4, <1>5

-----------------------------------------------------------------------------
(* Frames. *)

\* A field of bytes, and one that is a number.
BytesItem(number, bytes) == [number |-> number, type |-> 2, value |-> 0, bytes |-> bytes]
VarintItem(number, value) == [number |-> number, type |-> 0, value |-> value, bytes |-> <<>>]

\* A field of bytes is written and read.
LEMMA ReadsBytes ==
  ASSUME NEW number \in 1 .. 9, NEW bytes, Encodable(bytes)
  PROVE  /\ Writable(BytesItem(number, bytes)) /\ BytesItem(number, bytes) \in Item
         /\ encode(BytesItem(number, bytes)) = encode_bytes_field(number, bytes)
         /\ Reads(encode_bytes_field(number, bytes), <<BytesItem(number, bytes)>>)
<1> DEFINE item == BytesItem(number, bytes)
<1>1. item.number = number /\ item.type = 2 /\ item.value = 0 /\ item.bytes = bytes
  BY DEF BytesItem
<1>2. item \in Item
  BY DEF BytesItem, Item, Encodable
<1>3. number * 8 + 2 < Place[MaxBytes]
  <2>1. Place[MaxBytes] > 80 /\ MaxBytes \in Nat
    BY WireAssumption, FrameAssumption
  <2>2. Place[MaxBytes] \in Nat
    BY <2>1, Places
  <2> QED BY <2>1, <2>2
<1> HIDE DEF item
<1>4. Writable(item)
  BY <1>1, <1>2, <1>3 DEF Writable, Encodable
<1>5. encode(item) = encode_bytes_field(number, bytes)
  <2>1. ~(item.type = 0) /\ item.type = 2
    BY <1>1
  <2> QED BY <1>1, <2>1, Zenon DEF encode
<1>6. Reads(encode(item), <<item>>)
  BY <1>4, ReadsOne
<1> QED BY <1>2, <1>4, <1>5, <1>6 DEF item

\* A field that is a number is written and read.
LEMMA ReadsVarint ==
  ASSUME NEW number \in 1 .. 9, NEW value \in Nat, value < Place[MaxBytes]
  PROVE  /\ Writable(VarintItem(number, value)) /\ VarintItem(number, value) \in Item
         /\ Reads(encode_varint_field(number, value), <<VarintItem(number, value)>>)
<1> DEFINE item == VarintItem(number, value)
<1>1. item.number = number /\ item.type = 0 /\ item.value = value /\ item.bytes = <<>>
  BY DEF VarintItem
<1>2. item \in Item
  BY DEF VarintItem, Item
<1>3. number * 8 + 0 < Place[MaxBytes]
  <2>1. Place[MaxBytes] > 80 /\ MaxBytes \in Nat
    BY WireAssumption, FrameAssumption
  <2>2. Place[MaxBytes] \in Nat
    BY <2>1, Places
  <2> QED BY <2>1, <2>2
<1> HIDE DEF item
<1>4. Writable(item)
  BY <1>1, <1>2, <1>3 DEF Writable
<1>5. encode(item) = encode_varint_field(number, value)
  BY <1>1, Zenon DEF encode
<1>6. Reads(encode(item), <<item>>)
  BY <1>4, ReadsOne
<1> QED BY <1>2, <1>4, <1>5, <1>6 DEF item

\* Fields that say what the items say.
Say(fields, items) ==
  /\ Len(fields) = Len(items) /\ Len(items) \in Nat /\ DOMAIN fields = 1 .. Len(items)
  /\ fields \in Seq(FieldRow)
  /\ \A i \in 1 .. Len(items) : Says(fields[i]) = items[i]
\* The first field of a number says what the item does; there is none.
FirstSays(fields, number, item) ==
  \A default : /\ first(fields, number, default).type = item.type
               /\ first(fields, number, default).value = item.value
               /\ first(fields, number, default).bytes = item.bytes
NoFirst(fields, number) == \A default : first(fields, number, default) = default

\* The first field of a number says what the first item of that number does.
LEMMA FirstIs ==
  ASSUME NEW fields, NEW items, Say(fields, items), NEW number,
         NEW p \in 1 .. Len(items), items[p].number = number,
         \A i \in 1 .. Len(items) : items[i].number = number => p <= i
  PROVE  FirstSays(fields, number, items[p])
<1> DEFINE spots == {i \in DOMAIN fields : fields[i].number = number}
           m == Min(spots)
<1>1. Len(items) \in Nat /\ DOMAIN fields = 1 .. Len(items)
  BY DEF Say
<1>2. ASSUME NEW i \in 1 .. Len(items)
      PROVE  /\ fields[i].number = items[i].number /\ fields[i].type = items[i].type
             /\ fields[i].value = items[i].value /\ fields[i].bytes = items[i].bytes
  <2> DEFINE f == fields[i]
             item == items[i]
  <2>1. Says(f) = item
    BY DEF Say
  <2> HIDE DEF f, item
  <2>2. f.number = item.number /\ f.type = item.type /\ f.value = item.value /\ f.bytes = item.bytes
    BY <2>1 DEF Says
  <2> QED BY <2>2 DEF f, item
<1>3. spots \in SUBSET Nat /\ p \in spots /\ \A i \in spots : p <= i
  BY <1>1, <1>2
<1>4. m \in spots /\ m <= p /\ spots # {}
  <2> HIDE DEF spots
  <2> QED BY <1>3, LeastOf
<1>5. m = p
  <2>1. m \in Nat /\ p \in Nat /\ p <= m /\ m <= p
    BY <1>3, <1>4
  <2> HIDE DEF m
  <2> QED BY <2>1
<1>6. ASSUME NEW default PROVE first(fields, number, default) = fields[p]
  <2>1. first(fields, number, default) = fields[m]
    BY <1>4, Zenon DEF first
  <2> QED BY <1>5, <2>1
<1> QED BY <1>2, <1>6 DEF FirstSays

\* There is no first field of a number no item has.
LEMMA FirstNone ==
  ASSUME NEW fields, NEW items, Say(fields, items), NEW number,
         \A i \in 1 .. Len(items) : items[i].number # number
  PROVE  NoFirst(fields, number)
<1> DEFINE spots == {i \in DOMAIN fields : fields[i].number = number}
<1>1. DOMAIN fields = 1 .. Len(items)
  BY DEF Say
<1>2. ASSUME NEW i \in 1 .. Len(items) PROVE fields[i].number = items[i].number
  <2> DEFINE f == fields[i]
             item == items[i]
  <2>1. Says(f) = item
    BY DEF Say
  <2> HIDE DEF f, item
  <2>2. f.number = item.number
    BY <2>1 DEF Says
  <2> QED BY <2>2 DEF f, item
<1>3. spots = {}
  BY <1>1, <1>2
<1>4. ASSUME NEW default PROVE first(fields, number, default) = default
  BY <1>3, Zenon DEF first
<1> QED BY <1>4 DEF NoFirst

\* What a message says.
MessageItems(m) ==
  <<BytesItem(1, m.method)>> \o <<BytesItem(2, m.payload)>>
    \o (IF m.msg_id = -1 THEN <<>> ELSE <<VarintItem(3, m.msg_id)>>)

\* A message that was built says its items.
LEMMA MessageReads ==
  ASSUME NEW m, m \in WireMessage, m.msg_id < Place[MaxBytes], Encodable(m.method), Encodable(m.payload)
  PROVE  Reads(build_message(m), MessageItems(m))
<1> DEFINE a == encode_bytes_field(1, m.method)
           b == encode_bytes_field(2, m.payload)
           c == IF m.msg_id = -1 THEN <<>> ELSE encode_varint_field(3, m.msg_id)
           x == BytesItem(1, m.method)
           y == BytesItem(2, m.payload)
           z == IF m.msg_id = -1 THEN <<>> ELSE <<VarintItem(3, m.msg_id)>>
<1>1. Reads(a, <<x>>) /\ x \in Item /\ Reads(b, <<y>>) /\ y \in Item
  <2>1. 1 \in 1 .. 9 /\ 2 \in 1 .. 9
    OBVIOUS
  <2> QED BY <2>1, ReadsBytes
<1>2. Reads(c, z) /\ z \in Seq(Item)
  <2>1. CASE m.msg_id = -1
    <3>1. c = <<>> /\ z = <<>>
      BY <2>1
    <3> QED BY <3>1, ReadsNothing
  <2>2. CASE m.msg_id # -1
    <3>1. m.msg_id \in Nat /\ 3 \in 1 .. 9
      BY <2>2 DEF WireMessage
    <3>2. c = encode_varint_field(3, m.msg_id) /\ z = <<VarintItem(3, m.msg_id)>>
      BY <2>2
    <3>3. Reads(encode_varint_field(3, m.msg_id), <<VarintItem(3, m.msg_id)>>)
          /\ VarintItem(3, m.msg_id) \in Item
      BY <3>1, ReadsVarint
    <3> QED BY <3>2, <3>3
  <2> QED BY <2>1, <2>2
<1>3. build_message(m) = a \o b \o c /\ MessageItems(m) = <<x>> \o <<y>> \o z
  BY DEF build_message, MessageItems
<1> HIDE DEF a, b, c, x, y, z
<1>4. <<x>> \in Seq(Item) /\ <<y>> \in Seq(Item) /\ <<x>> \o <<y>> \in Seq(Item)
  BY <1>1
<1>5. Reads(a \o b, <<x>> \o <<y>>)
  BY <1>1, <1>4, ReadsBoth
<1>6. Reads((a \o b) \o c, (<<x>> \o <<y>>) \o z)
  BY <1>2, <1>4, <1>5, ReadsBoth
<1> QED BY <1>3, <1>6

\* A message comes back.
LEMMA MessageSurvives ==
  ASSUME NEW m, MessageFits(m)
  PROVE  parse_message(build_message(m)) = {m}
<1> DEFINE items == MessageItems(m)
           data == build_message(m)
<1>1. /\ m \in WireMessage /\ m.msg_id < Place[MaxBytes] /\ Encodable(m.method) /\ Encodable(m.payload)
      /\ m.method \in Texts /\ m.payload \in Seq(Byte)
  BY DEF MessageFits, WireMessage
<1>2. Reads(data, items)
  BY <1>1, MessageReads
<1>3. /\ Len(items) = IF m.msg_id = -1 THEN 2 ELSE 3
      /\ items[1] = BytesItem(1, m.method) /\ items[2] = BytesItem(2, m.payload)
      /\ m.msg_id # -1 => items[3] = VarintItem(3, m.msg_id)
  <2>1. CASE m.msg_id = -1
    <3>1. items = <<BytesItem(1, m.method)>> \o <<BytesItem(2, m.payload)>> \o <<>>
      BY <2>1 DEF MessageItems
    <3> HIDE DEF items
    <3> QED BY <2>1, <3>1
  <2>2. CASE m.msg_id # -1
    <3>1. items = <<BytesItem(1, m.method)>> \o <<BytesItem(2, m.payload)>> \o <<VarintItem(3, m.msg_id)>>
      BY <2>2 DEF MessageItems
    <3> HIDE DEF items
    <3> QED BY <2>2, <3>1
  <2> QED BY <2>1, <2>2
<1> HIDE DEF items, data
<1>4. Len(items) <= MaxFields
  BY <1>3, WireAssumption, FrameAssumption
<1>5. PICK fs : parse_fields(data) = {fs} /\ Say(fs, items)
  BY <1>2, <1>4, Parsed DEF Say
<1> DEFINE one == 1
           two == 2
           three == 3
<1>6. FirstSays(fs, one, BytesItem(1, m.method))
  <2>1. one \in 1 .. Len(items) /\ items[one] = BytesItem(1, m.method) /\ items[one].number = one
    BY <1>3 DEF BytesItem
  <2>2. \A i \in 1 .. Len(items) : items[i].number = one => one <= i
    OBVIOUS
  <2> HIDE DEF one
  <2>3. FirstSays(fs, one, items[one])
    BY <1>5, <2>1, <2>2, FirstIs
  <2> QED BY <2>1, <2>3
<1>7. FirstSays(fs, two, BytesItem(2, m.payload))
  <2>1. two \in 1 .. Len(items) /\ items[two] = BytesItem(2, m.payload) /\ items[two].number = two
    BY <1>3 DEF BytesItem
  <2>2. \A i \in 1 .. Len(items) : items[i].number = two => two <= i
    <3>1. items[1].number = 1
      BY <1>3 DEF BytesItem
    <3> QED BY <3>1
  <2> HIDE DEF two
  <2>3. FirstSays(fs, two, items[two])
    BY <1>5, <2>1, <2>2, FirstIs
  <2> QED BY <2>1, <2>3
<1>8. CASE m.msg_id = -1
  <2>1. NoFirst(fs, three)
    <3>1. \A i \in 1 .. Len(items) : items[i].number # three
      <4>1. items[1].number = 1 /\ items[2].number = 2 /\ Len(items) = 2
        BY <1>3, <1>8 DEF BytesItem
      <4> QED BY <4>1
    <3> HIDE DEF three
    <3> QED BY <1>5, <3>1, FirstNone
  <2>2. Well(fs, {3}, {2}, {1})
    BY <1>1, <1>6, <1>7, <2>1 DEF Well, first_bytes, FirstSays, NoFirst, BytesItem
  <2>3. /\ first_bytes(fs, 1) = m.method /\ first_bytes(fs, 2) = m.payload
        /\ first_varint(fs, 3, -1) = m.msg_id
    BY <1>6, <1>7, <1>8, <2>1 DEF first_bytes, first_varint, FirstSays, NoFirst, BytesItem
  <2>4. parse_message(data) = {[method |-> m.method, payload |-> m.payload, msg_id |-> m.msg_id]}
    BY <1>5, <2>2, <2>3 DEF parse_message
  <2> QED BY <1>1, <2>4 DEF WireMessage, data
<1>9. CASE m.msg_id # -1
  <2>1. FirstSays(fs, three, VarintItem(3, m.msg_id))
    <3>1. /\ three \in 1 .. Len(items) /\ items[three] = VarintItem(3, m.msg_id)
          /\ items[three].number = three
      BY <1>3, <1>9 DEF VarintItem
    <3>2. \A i \in 1 .. Len(items) : items[i].number = three => three <= i
      <4>1. items[1].number = 1 /\ items[2].number = 2
        BY <1>3 DEF BytesItem
      <4> QED BY <4>1
    <3> HIDE DEF three
    <3>3. FirstSays(fs, three, items[three])
      BY <1>5, <3>1, <3>2, FirstIs
    <3> QED BY <3>1, <3>3
  <2>2. Well(fs, {3}, {2}, {1})
    BY <1>1, <1>6, <1>7, <2>1 DEF Well, first_bytes, FirstSays, BytesItem, VarintItem
  <2>3. /\ first_bytes(fs, 1) = m.method /\ first_bytes(fs, 2) = m.payload
        /\ first_varint(fs, 3, -1) = m.msg_id
    BY <1>6, <1>7, <2>1 DEF first_bytes, first_varint, FirstSays, BytesItem, VarintItem
  <2>4. parse_message(data) = {[method |-> m.method, payload |-> m.payload, msg_id |-> m.msg_id]}
    BY <1>5, <2>2, <2>3 DEF parse_message
  <2> QED BY <1>1, <2>4 DEF WireMessage, data
<1> QED BY <1>8, <1>9

\* The function that `repeated' applies to the number of fields.
Choosing(u, fields, number) ==
  u = [k \in 0 .. Len(fields) |->
         IF k = 0 THEN <<>>
         ELSE IF fields[k].number = number THEN Append(u[k - 1], fields[k]) ELSE u[k - 1]]

\* When the fields of a number come first, they are the fields of that number.
LEMMA RepeatedFront ==
  ASSUME NEW fields \in Seq(FieldRow), NEW number, NEW n \in 0 .. Len(fields),
         \A i \in 1 .. Len(fields) : fields[i].number = number <=> i <= n
  PROVE  repeated(fields, number) = SubSeq(fields, 1, n)
<1> DEFINE L == Len(fields)
           front(k) == SubSeq(fields, 1, IF k <= n THEN k ELSE n)
           g == [k \in 0 .. L |-> front(k)]
           f == CHOOSE u : Choosing(u, fields, number)
           Step(u, k) == IF fields[k].number = number THEN Append(u[k - 1], fields[k]) ELSE u[k - 1]
<1>1. L \in Nat /\ n \in Nat /\ n <= L
  OBVIOUS
<1>2. \A k \in 0 .. L : g[k] = front(k)
  OBVIOUS
<1>3. front(0) = <<>> /\ front(L) = SubSeq(fields, 1, n)
  <2>1. (IF 0 <= n THEN 0 ELSE n) = 0 /\ (IF L <= n THEN L ELSE n) = n
    BY <1>1
  <2>2. SubSeq(fields, 1, 0) = <<>>
    OBVIOUS
  <2> QED BY <2>1, <2>2
<1>4. ASSUME NEW k \in 1 .. L
      PROVE  front(k) = IF fields[k].number = number THEN Append(front(k - 1), fields[k]) ELSE front(k - 1)
  <2>1. CASE k <= n
    <3> DEFINE p == k - 1
    <3>1. p \in Nat /\ k = p + 1 /\ p <= n /\ k \in Nat
      BY <1>1, <2>1
    <3>2. front(k) = SubSeq(fields, 1, k) /\ front(p) = SubSeq(fields, 1, p)
      BY <2>1, <3>1
    <3> HIDE DEF p, front
    <3>3. SubSeq(fields, 1, k) = Append(SubSeq(fields, 1, p), fields[k])
      BY <3>1
    <3>4. fields[k].number = number
      BY <2>1
    <3>5. front(k) = Append(front(p), fields[k])
      BY <3>2, <3>3
    <3> QED BY <3>4, <3>5 DEF p
  <2>2. CASE ~(k <= n)
    <3> DEFINE p == k - 1
    <3>1. p \in Nat /\ (IF p <= n THEN p ELSE n) = n /\ (IF k <= n THEN k ELSE n) = n
      BY <1>1, <2>2
    <3>2. front(k) = front(p)
      BY <3>1
    <3>3. ~(fields[k].number = number)
      BY <2>2
    <3> HIDE DEF front
    <3> QED BY <3>2, <3>3
  <2> QED BY <2>1, <2>2
<1> HIDE DEF front
<1>5. \A k \in 1 .. L : g[k] = Step(g, k)
  <2> SUFFICES ASSUME NEW k \in 1 .. L PROVE g[k] = Step(g, k)
    OBVIOUS
  <2>1. k \in 0 .. L /\ k - 1 \in 0 .. L
    OBVIOUS
  <2>2. g[k] = front(k) /\ g[k - 1] = front(k - 1)
    BY <1>2, <2>1
  <2> HIDE DEF g
  <2> QED BY <1>4, <2>2
<1>6. g[0] = <<>> /\ g = [k \in 0 .. L |-> g[k]]
  BY <1>1, <1>2, <1>3
<1> HIDE DEF g
<1>7. Choosing(g, fields, number)
  <2>1. ASSUME NEW k \in 0 .. L
        PROVE  g[k] = IF k = 0 THEN <<>> ELSE Step(g, k)
    <3>1. CASE k = 0
      BY <1>6, <3>1
    <3>2. CASE k # 0
      <4>1. k \in 1 .. L
        BY <3>2
      <4>2. g[k] = Step(g, k)
        BY <1>5, <4>1
      <4> HIDE DEF Step
      <4> QED BY <3>2, <4>2
    <3> QED BY <3>1, <3>2
  <2> QED BY <1>6, <2>1 DEF Choosing
<1>8. Choosing(f, fields, number)
  BY <1>7
<1>9. repeated(fields, number) = f[L]
  BY DEF repeated, Choosing
<1> HIDE DEF f
<1>10. f[0] = <<>> /\ \A k \in 1 .. L : f[k] = Step(f, k)
  <2>1. 0 \in 0 .. L /\ \A k \in 1 .. L : k \in 0 .. L /\ k # 0
    BY <1>1
  <2> QED BY <1>8, <2>1 DEF Choosing
<1> DEFINE Q == {k \in Nat : k \in 0 .. L => f[k] = g[k]}
<1>11. 0 \in Q
  BY <1>6, <1>10
<1>12. ASSUME NEW k \in Nat, k \in Q PROVE k + 1 \in Q
  <2> SUFFICES ASSUME k + 1 \in 0 .. L PROVE f[k + 1] = g[k + 1]
    OBVIOUS
  <2>1. k + 1 \in 1 .. L /\ k \in 0 .. L /\ (k + 1) - 1 = k
    BY <1>1
  <2>2. f[k] = g[k]
    BY <1>12, <2>1
  <2>3. f[k + 1] = Step(f, k + 1) /\ g[k + 1] = Step(g, k + 1)
    BY <1>5, <1>10, <2>1
  <2> QED BY <2>1, <2>2, <2>3
<1> HIDE DEF Q
<1>13. \A k \in Nat : k \in Q
  BY <1>11, <1>12, NatSetInduction
<1>14. f[L] = g[L] /\ g[L] = SubSeq(fields, 1, n)
  BY <1>1, <1>2, <1>3, <1>13 DEF Q
<1> QED BY <1>9, <1>14

\* The items of a response, and the bytes of its parts.
Sent(r) == [i \in 1 .. Len(r.messages) |-> BytesItem(1, build_message(r.messages[i]))]
ExtItems(r) == IF r.internal_ext = <<>> THEN <<>> ELSE <<BytesItem(5, r.internal_ext)>>
AckItems(r) == IF r.need_ack THEN <<VarintItem(9, 1)>> ELSE <<>>
SentBytes(r) ==
  FlattenSeq([i \in DOMAIN r.messages |-> encode_bytes_field(1, build_message(r.messages[i]))])
ExtBytes(r) == IF r.internal_ext = <<>> THEN <<>> ELSE encode_bytes_field(5, r.internal_ext)
AckBytes(r) == IF r.need_ack THEN encode_varint_field(9, 1) ELSE <<>>
ResponseItems(r) == Sent(r) \o ExtItems(r) \o <<VarintItem(8, 1)>> \o AckItems(r)

\* Data that does not begin as gzip data does.
Plain(data) == data \in Seq(Byte) /\ data # <<>> /\ data[1] # GzipMagic[1]

\* What follows such data does not matter.
LEMMA PlainFront ==
  ASSUME NEW a \in Seq(Byte), NEW b \in Seq(Byte)
  PROVE  Plain(a) \/ (a = <<>> /\ Plain(b)) => Plain(a \o b)
<1>1. CASE Plain(a)
  <2>1. a \o b # <<>> /\ (a \o b)[1] = a[1] /\ a \o b \in Seq(Byte)
    BY <1>1 DEF Plain
  <2> QED BY <1>1, <2>1 DEF Plain
<1>2. CASE a = <<>> /\ Plain(b)
  <2>1. a \o b = b
    BY <1>2
  <2> QED BY <1>2, <2>1
<1> QED BY <1>1, <1>2

\* The fields of a response do not begin so.
LEMMA BeginsPlain ==
  ASSUME NEW data \in Seq(Byte), NEW item, Begins(data, item),
         \/ item.number = 1 /\ item.type = 2
         \/ item.number = 5 /\ item.type = 2
         \/ item.number = 8 /\ item.type = 0
  PROVE  Plain(data)
<1>1. encode_key(item.number, item.type)[1] # GzipMagic[1]
  <2>1. /\ encode_key(1, 2)[1] # GzipMagic[1] /\ encode_key(5, 2)[1] # GzipMagic[1]
        /\ encode_key(8, 0)[1] # GzipMagic[1]
    BY FrameAssumption, Zenon
  <2>2. CASE item.number = 1 /\ item.type = 2
    BY <2>1, <2>2
  <2>3. CASE item.number = 5 /\ item.type = 2
    BY <2>1, <2>3
  <2>4. CASE item.number = 8 /\ item.type = 0
    BY <2>1, <2>4
  <2> QED BY <2>2, <2>3, <2>4
<1> QED BY <1>1 DEF Begins, Plain

\* Each part of a response says its items and does not begin as gzip data does.
LEMMA ResponseParts ==
  ASSUME NEW r, Sendable(r)
  PROVE  /\ Reads(SentBytes(r), Sent(r)) /\ Sent(r) \in Seq(Item)
         /\ Reads(ExtBytes(r), ExtItems(r)) /\ ExtItems(r) \in Seq(Item)
         /\ Reads(encode_varint_field(8, 1), <<VarintItem(8, 1)>>) /\ VarintItem(8, 1) \in Item
         /\ Reads(AckBytes(r), AckItems(r)) /\ AckItems(r) \in Seq(Item)
         /\ SentBytes(r) = <<>> \/ Plain(SentBytes(r))
         /\ ExtBytes(r) = <<>> \/ Plain(ExtBytes(r))
         /\ Plain(encode_varint_field(8, 1))
<1> DEFINE ms == r.messages
           ext == r.internal_ext
           n == Len(ms)
           items == Sent(r)
           A == [i \in DOMAIN ms |-> encode_bytes_field(1, build_message(ms[i]))]
           one == 1
           five == 5
           eight == 8
           nine == 9
<1>1. /\ ms \in Seq(WireMessage) /\ n \in Nat /\ DOMAIN ms = 1 .. n /\ Encodable(ext)
      /\ \A i \in 1 .. n : MessageFits(ms[i])
  BY DEF Sendable
<1>2. one \in 1 .. 9 /\ five \in 1 .. 9 /\ eight \in 1 .. 9 /\ nine \in 1 .. 9
  OBVIOUS
<1>3. one \in Nat /\ one < Place[MaxBytes]
  <2>1. Place[MaxBytes] > 80 /\ MaxBytes \in Nat
    BY WireAssumption, FrameAssumption
  <2>2. Place[MaxBytes] \in Nat
    BY <2>1, Places
  <2> QED BY <2>1, <2>2
<1>4. ASSUME NEW i \in 1 .. n
      PROVE  /\ items[i] = BytesItem(one, build_message(ms[i]))
             /\ items[i] \in Item /\ Writable(items[i])
             /\ encode(items[i]) = encode_bytes_field(one, build_message(ms[i]))
  <2> DEFINE bytes == build_message(ms[i])
  <2>1. Encodable(bytes)
    BY <1>1 DEF MessageFits
  <2>2. items[i] = BytesItem(one, bytes)
    BY DEF Sent
  <2> HIDE DEF bytes, one, items
  <2> QED BY <1>2, <2>1, <2>2, ReadsBytes DEF bytes
<1>5. items \in Seq(Item) /\ Len(items) = n
  <2>1. items = [i \in 1 .. n |-> items[i]]
    BY DEF Sent
  <2>2. n \in Nat /\ \A i \in 1 .. n : items[i] \in Item
    BY <1>1, <1>4
  <2> HIDE DEF items, n, ms
  <2> QED BY <2>1, <2>2
<1>6. A = Written(items)
  <2>1. Written(items) = [i \in 1 .. n |-> encode(items[i])]
    BY <1>5 DEF Written
  <2>2. A = [i \in 1 .. n |-> encode_bytes_field(one, build_message(ms[i]))]
    BY <1>1
  <2> HIDE DEF A, items, one
  <2> QED BY <1>4, <2>1, <2>2
<1> DEFINE a == FlattenSeq(A)
<1>7. Reads(a, items) /\ (items # <<>> => Begins(a, items[1]))
  <2> HIDE DEF items, A
  <2>1. \A i \in 1 .. Len(items) : Writable(items[i])
    BY <1>4, <1>5
  <2> QED BY <1>5, <1>6, <2>1, ReadsAll
<1>8. a = <<>> \/ Plain(a)
  <2>1. a \in Seq(Byte)
    BY <1>7 DEF Reads
  <2>2. CASE n = 0
    <3>1. A = <<>>
      BY <1>1, <2>2
    <3>2. FlattenSeq(<<>>) = <<>>
      BY Zenon DEF FlattenSeq
    <3> QED BY <3>1, <3>2
  <2>3. CASE n # 0
    <3>1. 1 \in 1 .. n /\ items # <<>>
      BY <1>1, <1>5, <2>3
    <3> DEFINE item == items[1]
               bytes == build_message(ms[1])
    <3>2. item = BytesItem(one, bytes)
      BY <1>4, <3>1
    <3> HIDE DEF a, items, item, bytes
    <3>3. item.number = 1 /\ item.type = 2
      BY <3>2 DEF BytesItem
    <3>4. Begins(a, item)
      BY <1>7, <3>1 DEF item
    <3> QED BY <2>1, <3>3, <3>4, BeginsPlain
  <2> QED BY <2>2, <2>3
<1> HIDE DEF A, a, items
<1> DEFINE b == IF ext = <<>> THEN <<>> ELSE encode_bytes_field(5, ext)
<1>9. Reads(b, ExtItems(r)) /\ ExtItems(r) \in Seq(Item) /\ (b = <<>> \/ Plain(b))
  <2>1. CASE ext = <<>>
    <3>1. b = <<>> /\ ExtItems(r) = <<>>
      BY <2>1 DEF ExtItems
    <3> QED BY <3>1, ReadsNothing
  <2>2. CASE ext # <<>>
    <3> DEFINE item == BytesItem(five, ext)
    <3>1. b = encode_bytes_field(five, ext) /\ ExtItems(r) = <<item>>
      BY <2>2 DEF ExtItems
    <3>2. item.number = 5 /\ item.type = 2
      BY DEF BytesItem
    <3> HIDE DEF five, b, ext
    <3>3. /\ Reads(b, <<item>>) /\ item \in Item /\ Writable(item)
          /\ encode(item) = b
      BY <1>1, <1>2, <3>1, ReadsBytes
    <3> HIDE DEF item
    <3>4. Begins(b, item) /\ b \in Seq(Byte)
      BY <3>3, WrittenBegins DEF Reads
    <3>5. Plain(b)
      BY <3>2, <3>4, BeginsPlain
    <3>6. <<item>> \in Seq(Item)
      BY <3>3
    <3> QED BY <3>1, <3>3, <3>5, <3>6
  <2> QED BY <2>1, <2>2
<1> HIDE DEF b
<1> DEFINE c == encode_varint_field(8, 1)
<1>10. Reads(c, <<VarintItem(8, 1)>>) /\ VarintItem(8, 1) \in Item /\ Plain(c)
  <2> DEFINE item == VarintItem(8, 1)
  <2>1. item.number = 8 /\ item.type = 0 /\ item.value = 1
    BY DEF VarintItem
  <2>2. Reads(c, <<item>>) /\ item \in Item /\ Writable(item)
    <3> DEFINE it == VarintItem(eight, one)
               by == encode_varint_field(eight, one)
    <3> HIDE DEF eight, one
    <3>1. Reads(by, <<it>>) /\ it \in Item /\ Writable(it)
      BY <1>2, <1>3, ReadsVarint
    <3> QED BY <3>1 DEF eight, one
  <2>3. encode(item) = c
    BY <2>1, Zenon DEF encode
  <2> HIDE DEF item, c
  <2>4. Begins(c, item) /\ c \in Seq(Byte)
    BY <2>2, <2>3, WrittenBegins DEF Reads
  <2>5. Plain(c)
    BY <2>1, <2>4, BeginsPlain
  <2> QED BY <2>2, <2>5 DEF item
<1> HIDE DEF c
<1> DEFINE d == IF r.need_ack THEN encode_varint_field(9, 1) ELSE <<>>
<1>11. Reads(d, AckItems(r)) /\ AckItems(r) \in Seq(Item)
  <2>1. CASE ~r.need_ack
    <3>1. d = <<>> /\ AckItems(r) = <<>>
      BY <2>1 DEF AckItems
    <3> QED BY <3>1, ReadsNothing
  <2>2. CASE r.need_ack
    <3> DEFINE it == VarintItem(nine, one)
               by == encode_varint_field(nine, one)
    <3>1. d = by /\ AckItems(r) = <<it>>
      BY <2>2 DEF AckItems
    <3> HIDE DEF nine, one, d
    <3>2. Reads(by, <<it>>) /\ it \in Item
      BY <1>2, <1>3, ReadsVarint
    <3> QED BY <3>1, <3>2
  <2> QED BY <2>1, <2>2
<1> HIDE DEF d
<1>12. SentBytes(r) = a /\ ExtBytes(r) = b /\ AckBytes(r) = d
  BY DEF SentBytes, ExtBytes, AckBytes, a, A, b, d
<1> QED BY <1>5, <1>7, <1>8, <1>9, <1>10, <1>11, <1>12 DEF c, items

\* A response says its items, and does not begin as gzip data does.
LEMMA ResponseReads ==
  ASSUME NEW r, Sendable(r)
  PROVE  /\ Reads(build_response(r), ResponseItems(r)) /\ Plain(build_response(r))
<1> DEFINE a == SentBytes(r)
           b == ExtBytes(r)
           c == encode_varint_field(8, 1)
           d == AckBytes(r)
           w == Sent(r)
           x == ExtItems(r)
           y == <<VarintItem(8, 1)>>
           z == AckItems(r)
<1>1. /\ Reads(a, w) /\ w \in Seq(Item) /\ (a = <<>> \/ Plain(a))
      /\ Reads(b, x) /\ x \in Seq(Item) /\ (b = <<>> \/ Plain(b))
      /\ Reads(c, y) /\ y \in Seq(Item) /\ Plain(c)
      /\ Reads(d, z) /\ z \in Seq(Item)
  BY ResponseParts
<1>2. build_response(r) = ((a \o b) \o c) \o d /\ ResponseItems(r) = ((w \o x) \o y) \o z
  BY DEF build_response, ResponseItems, SentBytes, ExtBytes, AckBytes
<1> HIDE DEF a, b, c, d, w, x, y, z
<1>3. a \in Seq(Byte) /\ b \in Seq(Byte) /\ c \in Seq(Byte) /\ d \in Seq(Byte)
  BY <1>1 DEF Reads
<1>4. Reads(a \o b, w \o x) /\ w \o x \in Seq(Item) /\ a \o b \in Seq(Byte)
  BY <1>1, <1>3, ReadsBoth
<1> DEFINE ab == a \o b
           wx == w \o x
<1>5. ab = <<>> \/ Plain(ab)
  <2>1. CASE Plain(a) \/ (a = <<>> /\ Plain(b))
    BY <1>3, <2>1, PlainFront
  <2>2. CASE a = <<>> /\ b = <<>>
    BY <2>2
  <2> QED BY <1>1, <2>1, <2>2
<1> HIDE DEF ab, wx
<1>6. ab \in Seq(Byte) /\ wx \in Seq(Item) /\ Reads(ab, wx)
  BY <1>4 DEF ab, wx
<1> DEFINE abc == ab \o c
           wxy == wx \o y
<1>7. Reads(abc, wxy) /\ wxy \in Seq(Item) /\ abc \in Seq(Byte)
  BY <1>1, <1>3, <1>6, ReadsBoth
<1>8. Plain(abc)
  BY <1>1, <1>3, <1>5, <1>6, PlainFront
<1> HIDE DEF abc, wxy
<1>9. Reads(abc \o d, wxy \o z)
  BY <1>1, <1>7, ReadsBoth
<1>10. Plain(abc \o d)
  BY <1>3, <1>7, <1>8, PlainFront, Zenon
<1> QED BY <1>2, <1>9, <1>10 DEF abc, wxy, ab, wx

\* Where the items of a response stand.
Standing(items, n, e, a, r) ==
  /\ n = Len(r.messages) /\ n \in Nat /\ e \in {0, 1} /\ a \in {0, 1} /\ Len(items) = n + e + 1 + a
  /\ e = 0 <=> r.internal_ext = <<>>
  /\ a = 1 <=> r.need_ack
  /\ \A i \in 1 .. n : items[i] = BytesItem(1, build_message(r.messages[i]))
  /\ e = 1 => items[n + 1] = BytesItem(5, r.internal_ext)
  /\ items[n + e + 1] = VarintItem(8, 1)
  /\ a = 1 => items[n + e + 2] = VarintItem(9, 1)

\* The messages first, then the extension, field 8 and the acknowledgement.
LEMMA ResponseStands ==
  ASSUME NEW r, Sendable(r)
  PROVE  \E n, e, a : Standing(ResponseItems(r), n, e, a, r)
<1> DEFINE n == Len(r.messages)
           e == IF r.internal_ext = <<>> THEN 0 ELSE 1
           a == IF r.need_ack THEN 1 ELSE 0
           w == Sent(r)
           x == ExtItems(r)
           it == VarintItem(8, 1)
           z == AckItems(r)
           b == BytesItem(5, r.internal_ext)
           v == VarintItem(9, 1)
           items == ResponseItems(r)
<1>1. n \in Nat
  BY DEF Sendable
<1>2. w \in Seq(Item) /\ x \in Seq(Item) /\ <<it>> \in Seq(Item) /\ z \in Seq(Item)
  BY ResponseParts
<1>3. Len(w) = n /\ \A i \in 1 .. n : w[i] = BytesItem(1, build_message(r.messages[i]))
  BY <1>1 DEF Sent
<1>4. Len(x) = e /\ (e = 1 => x[1] = b) /\ e \in {0, 1} /\ (e = 0 <=> r.internal_ext = <<>>)
  <2> HIDE DEF b
  <2> QED BY DEF ExtItems, b
<1>5. Len(z) = a /\ (a = 1 => z[1] = v) /\ a \in {0, 1} /\ (a = 1 <=> r.need_ack)
  <2> HIDE DEF v
  <2> QED BY DEF AckItems, v
<1>6. items = ((w \o x) \o <<it>>) \o z
  BY DEF ResponseItems
<1> HIDE DEF w, x, it, z, n, e, a, b, v, items
<1> DEFINE wx == w \o x
<1>7. /\ wx \in Seq(Item) /\ Len(wx) = n + e /\ (e = 1 => wx[n + 1] = b)
      /\ \A i \in 1 .. n : wx[i] = w[i]
  BY <1>1, <1>2, <1>3, <1>4
<1> HIDE DEF wx
<1> DEFINE wxy == wx \o <<it>>
<1>8. /\ wxy \in Seq(Item) /\ Len(wxy) = n + e + 1 /\ wxy[n + e + 1] = it
      /\ \A i \in 1 .. n + e : wxy[i] = wx[i]
  BY <1>1, <1>2, <1>4, <1>7
<1> HIDE DEF wxy
<1>9. /\ Len(wxy \o z) = n + e + 1 + a /\ (a = 1 => (wxy \o z)[n + e + 2] = v)
      /\ \A i \in 1 .. n + e + 1 : (wxy \o z)[i] = wxy[i]
  BY <1>1, <1>2, <1>4, <1>5, <1>8
<1>10. items = wxy \o z
  BY <1>6 DEF wxy, wx
<1>11. items[n + e + 1] = it /\ (e = 1 => items[n + 1] = b) /\ \A i \in 1 .. n : items[i] = w[i]
  <2>1. /\ n + e + 1 \in 1 .. n + e + 1 /\ (e = 1 => n + 1 \in 1 .. n + e)
        /\ \A i \in 1 .. n + e : i \in 1 .. n + e + 1
        /\ \A i \in 1 .. n : i \in 1 .. n + e
    BY <1>1, <1>4
  <2> QED BY <1>7, <1>8, <1>9, <1>10, <2>1
<1>12. Standing(items, n, e, a, r)
  BY <1>1, <1>3, <1>4, <1>5, <1>9, <1>10, <1>11 DEF Standing, n, it, b, v
<1> QED BY <1>12 DEF items

\* The messages of a response are parsed one by one.
LEMMA MessagesParse ==
  ASSUME NEW messages \in Seq(WireMessage), \A i \in 1 .. Len(messages) : MessageFits(messages[i]),
         NEW parts, DOMAIN parts = 1 .. Len(messages),
         \A i \in 1 .. Len(messages) : parts[i].bytes = build_message(messages[i])
  PROVE  parse_messages(parts) = {messages}
<1> DEFINE n == Len(messages)
           All == UNION {parse_message(part.bytes) : part \in ToSet(parts)}
<1>1. n \in Nat /\ messages = [i \in 1 .. n |-> messages[i]]
  OBVIOUS
<1>2. ASSUME NEW i \in 1 .. n PROVE parse_message(parts[i].bytes) = {messages[i]}
  BY MessageSurvives
<1>3. ASSUME NEW i \in 1 .. n PROVE messages[i] \in All
  <2>1. parts[i] \in ToSet(parts)
    BY DEF ToSet
  <2> QED BY <1>2, <2>1
<1> HIDE DEF All
<1>4. messages \in [DOMAIN parts -> All]
  BY <1>1, <1>3
<1>5. parse_messages(parts) = {f \in [DOMAIN parts -> All] : \A i \in DOMAIN parts : f[i] \in parse_message(parts[i].bytes)}
  BY DEF parse_messages, All
<1>6. messages \in parse_messages(parts)
  BY <1>2, <1>4, <1>5
<1>7. ASSUME NEW f \in parse_messages(parts) PROVE f = messages
  <2>1. f \in [1 .. n -> All] /\ \A i \in 1 .. n : f[i] = messages[i]
    BY <1>2, <1>5
  <2> QED BY <1>1, <2>1
<1> QED BY <1>6, <1>7

\* A response comes back.
LEMMA ResponseSurvives ==
  ASSUME NEW r, Sendable(r)
  PROVE  parse_response(build_response(r)) = {r}
<1> DEFINE items == ResponseItems(r)
           data == build_response(r)
           ms == r.messages
           ext == r.internal_ext
<1>1. /\ r \in [messages : Seq(WireMessage), internal_ext : Texts, need_ack : BOOLEAN]
      /\ ms \in Seq(WireMessage) /\ \A i \in 1 .. Len(ms) : MessageFits(ms[i])
      /\ ext \in Texts /\ Len(ms) + 3 <= MaxFields
  BY DEF Sendable
<1>2. Reads(data, items)
  BY ResponseReads
<1>3. PICK n, e, a : Standing(items, n, e, a, r)
  BY ResponseStands
<1> HIDE DEF items, data
<1>4. /\ n = Len(ms) /\ n \in Nat /\ e \in {0, 1} /\ a \in {0, 1} /\ Len(items) = n + e + 1 + a
      /\ e = 0 <=> ext = <<>>
      /\ a = 1 <=> r.need_ack
      /\ \A i \in 1 .. n : items[i] = BytesItem(1, build_message(ms[i]))
      /\ e = 1 => items[n + 1] = BytesItem(5, ext)
      /\ items[n + e + 1] = VarintItem(8, 1)
      /\ a = 1 => items[n + e + 2] = VarintItem(9, 1)
  BY <1>3 DEF Standing
<1> HIDE DEF ms, ext
<1>5. Len(items) <= MaxFields
  BY <1>1, <1>4, WireAssumption
<1>6. PICK fs : parse_fields(data) = {fs} /\ Say(fs, items)
  BY <1>2, <1>5, Parsed DEF Say
<1>7. ASSUME NEW i \in 1 .. Len(items)
      PROVE  i \in 1 .. n \/ (e = 1 /\ i = n + 1) \/ i = n + e + 1 \/ (a = 1 /\ i = n + e + 2)
  BY <1>4
<1>8. /\ \A i \in 1 .. n : items[i].number = 1 /\ items[i].type = 2 /\ items[i].bytes = build_message(ms[i])
      /\ e = 1 => items[n + 1].number = 5
      /\ items[n + e + 1].number = 8
      /\ a = 1 => items[n + e + 2].number = 9
  <2>1. \A x, y : BytesItem(x, y).number = x /\ BytesItem(x, y).type = 2 /\ BytesItem(x, y).bytes = y
    BY DEF BytesItem
  <2>2. \A x, y : VarintItem(x, y).number = x
    BY DEF VarintItem
  <2>3. ASSUME NEW i \in 1 .. n
        PROVE  items[i].number = 1 /\ items[i].type = 2 /\ items[i].bytes = build_message(ms[i])
    <3> DEFINE item == items[i]
               bytes == build_message(ms[i])
    <3>1. item = BytesItem(1, bytes)
      BY <1>4
    <3> HIDE DEF item, bytes
    <3>2. item.number = 1 /\ item.type = 2 /\ item.bytes = bytes
      BY <2>1, <3>1
    <3> QED BY <3>2 DEF item, bytes
  <2>4. ASSUME e = 1 PROVE items[n + 1].number = 5
    <3> DEFINE item == items[n + 1]
    <3>1. item = BytesItem(5, ext)
      BY <1>4, <2>4
    <3> HIDE DEF item
    <3>2. item.number = 5
      BY <2>1, <3>1
    <3> QED BY <3>2 DEF item
  <2>5. items[n + e + 1].number = 8
    <3> DEFINE item == items[n + e + 1]
    <3>1. item = VarintItem(8, 1)
      BY <1>4
    <3> HIDE DEF item
    <3>2. item.number = 8
      BY <2>2, <3>1
    <3> QED BY <3>2 DEF item
  <2>6. ASSUME a = 1 PROVE items[n + e + 2].number = 9
    <3> DEFINE item == items[n + e + 2]
    <3>1. item = VarintItem(9, 1)
      BY <1>4, <2>6
    <3> HIDE DEF item
    <3>2. item.number = 9
      BY <2>2, <3>1
    <3> QED BY <3>2 DEF item
  <2> QED BY <2>3, <2>4, <2>5, <2>6
<1> DEFINE one == 1
           five == 5
           eight == 8
           nine == 9
\* No other field has the number of a message, an extension or an acknowledgement.
<1>9. /\ \A i \in 1 .. Len(items) : items[i].number = one <=> i <= n
      /\ \A i \in 1 .. Len(items) : items[i].number = five => e = 1 /\ i = n + 1
      /\ \A i \in 1 .. Len(items) : items[i].number = eight => i = n + e + 1
      /\ \A i \in 1 .. Len(items) : items[i].number = nine => a = 1 /\ i = n + e + 2
  <2> SUFFICES ASSUME NEW i \in 1 .. Len(items)
               PROVE  /\ items[i].number = one <=> i <= n
                      /\ items[i].number = five => e = 1 /\ i = n + 1
                      /\ items[i].number = eight => i = n + e + 1
                      /\ items[i].number = nine => a = 1 /\ i = n + e + 2
    OBVIOUS
  <2>1. CASE i \in 1 .. n
    BY <1>8, <2>1
  <2>2. CASE e = 1 /\ i = n + 1
    BY <1>4, <1>8, <2>2
  <2>3. CASE i = n + e + 1
    BY <1>4, <1>8, <2>3
  <2>4. CASE a = 1 /\ i = n + e + 2
    BY <1>4, <1>8, <2>4
  <2> QED BY <1>7, <2>1, <2>2, <2>3, <2>4
<1>10. IF e = 1 THEN FirstSays(fs, five, BytesItem(5, ext)) ELSE NoFirst(fs, five)
  <2>1. CASE e = 1
    <3> DEFINE p == n + 1
    <3>1. /\ p \in 1 .. Len(items) /\ items[p].number = five
          /\ \A i \in 1 .. Len(items) : items[i].number = five => p <= i
      BY <1>4, <1>8, <1>9, <2>1
    <3> HIDE DEF p, five
    <3>2. FirstSays(fs, five, items[p])
      BY <1>6, <3>1, FirstIs
    <3> QED BY <1>4, <2>1, <3>2 DEF p
  <2>2. CASE e # 1
    <3>1. \A i \in 1 .. Len(items) : items[i].number # five
      BY <1>9, <2>2
    <3> HIDE DEF five
    <3>2. NoFirst(fs, five)
      BY <1>6, <3>1, FirstNone
    <3> QED BY <2>2, <3>2
  <2> QED BY <2>1, <2>2
<1>11. FirstSays(fs, eight, VarintItem(8, 1))
  <2> DEFINE p == n + e + 1
  <2>1. /\ p \in 1 .. Len(items) /\ items[p].number = eight
        /\ \A i \in 1 .. Len(items) : items[i].number = eight => p <= i
    BY <1>4, <1>8, <1>9
  <2> HIDE DEF p, eight
  <2>2. FirstSays(fs, eight, items[p])
    BY <1>6, <2>1, FirstIs
  <2> QED BY <1>4, <2>2 DEF p
<1>12. IF a = 1 THEN FirstSays(fs, nine, VarintItem(9, 1)) ELSE NoFirst(fs, nine)
  <2>1. CASE a = 1
    <3> DEFINE p == n + e + 2
    <3>1. /\ p \in 1 .. Len(items) /\ items[p].number = nine
          /\ \A i \in 1 .. Len(items) : items[i].number = nine => p <= i
      BY <1>4, <1>8, <1>9, <2>1
    <3> HIDE DEF p, nine
    <3>2. FirstSays(fs, nine, items[p])
      BY <1>6, <3>1, FirstIs
    <3> QED BY <1>4, <2>1, <3>2 DEF p
  <2>2. CASE a # 1
    <3>1. \A i \in 1 .. Len(items) : items[i].number # nine
      BY <1>9, <2>2
    <3> HIDE DEF nine
    <3>2. NoFirst(fs, nine)
      BY <1>6, <3>1, FirstNone
    <3> QED BY <2>2, <3>2
  <2> QED BY <2>1, <2>2
<1> DEFINE parts == repeated(fs, one)
<1>13. /\ DOMAIN parts = 1 .. n
       /\ \A i \in 1 .. n : parts[i].type = 2 /\ parts[i].bytes = build_message(ms[i])
  <2>1. fs \in Seq(FieldRow) /\ Len(fs) = Len(items) /\ n \in 0 .. Len(fs)
    BY <1>4, <1>6 DEF Say
  <2>2. ASSUME NEW i \in 1 .. Len(items)
        PROVE  fs[i].number = items[i].number /\ fs[i].type = items[i].type /\ fs[i].bytes = items[i].bytes
    <3> DEFINE f == fs[i]
               item == items[i]
    <3>1. Says(f) = item
      BY <1>6 DEF Say
    <3> HIDE DEF f, item
    <3>2. f.number = item.number /\ f.type = item.type /\ f.bytes = item.bytes
      BY <3>1 DEF Says
    <3> QED BY <3>2 DEF f, item
  <2>3. \A i \in 1 .. Len(fs) : fs[i].number = one <=> i <= n
    BY <1>9, <2>1, <2>2
  <2> HIDE DEF one
  <2>4. parts = SubSeq(fs, 1, n)
    BY <2>1, <2>3, RepeatedFront
  <2>5. DOMAIN parts = 1 .. n /\ \A i \in 1 .. n : parts[i] = fs[i]
    BY <1>4, <2>1, <2>4
  <2>6. \A i \in 1 .. n : i \in 1 .. Len(items)
    BY <1>4
  <2> HIDE DEF parts
  <2> QED BY <1>8, <2>2, <2>5, <2>6
<1>14. parse_messages(parts) = {ms}
  <2> HIDE DEF parts
  <2> QED BY <1>1, <1>4, <1>13, MessagesParse
<1>15. \A p \in ToSet(parts) : p.type # 0
  <2> HIDE DEF parts
  <2> QED BY <1>13 DEF ToSet
<1>16. first_bytes(fs, 5) = ext
  <2>1. CASE e = 1
    BY <1>10, <2>1 DEF first_bytes, FirstSays, BytesItem
  <2>2. CASE e = 0
    BY <1>4, <1>10, <2>2 DEF first_bytes, NoFirst
  <2> QED BY <1>4, <2>1, <2>2
<1>17. Well(fs, {8, 9}, {}, {5})
  <2>1. first(fs, 8, [type |-> 0]).type = 0
    BY <1>11 DEF FirstSays, VarintItem
  <2>2. first(fs, 9, [type |-> 0]).type = 0
    BY <1>12 DEF FirstSays, NoFirst, VarintItem
  <2>3. first(fs, 5, [type |-> 2]).type = 2
    BY <1>10 DEF FirstSays, NoFirst, BytesItem
  <2> QED BY <1>1, <1>16, <2>1, <2>2, <2>3 DEF Well
<1>18. (first_varint(fs, 9, 0) # 0) = r.need_ack
  <2>1. r.need_ack \in BOOLEAN
    BY <1>1
  <2>2. CASE a = 1
    <3>1. first_varint(fs, 9, 0) = 1
      BY <1>12, <2>2 DEF first_varint, FirstSays, VarintItem
    <3> QED BY <1>4, <2>1, <2>2, <3>1
  <2>3. CASE a # 1
    <3>1. first_varint(fs, 9, 0) = 0
      BY <1>12, <2>3 DEF first_varint, NoFirst
    <3> QED BY <1>4, <2>1, <2>3, <3>1
  <2> QED BY <2>2, <2>3
<1> DEFINE Good(f) == Well(f, {8, 9}, {}, {5}) /\ \A p \in ToSet(repeated(f, 1)) : p.type # 0
           reply == first_varint(fs, 9, 0) # 0
           back(f) == {[messages |-> m, internal_ext |-> first_bytes(f, 5),
                        need_ack |-> first_varint(f, 9, 0) # 0] : m \in parse_messages(repeated(f, 1))}
<1>19. Good(fs) /\ parse_messages(repeated(fs, 1)) = {ms}
  BY <1>14, <1>15, <1>17
<1>20. back(fs) = {r}
  <2> DEFINE b == first_varint(fs, 9, 0) # 0
             need == r.need_ack
  <2>1. b = need /\ r = [messages |-> ms, internal_ext |-> ext, need_ack |-> need]
    BY <1>1, <1>18 DEF ms, ext
  <2>2. back(fs) = {[messages |-> m, internal_ext |-> first_bytes(fs, 5), need_ack |-> b] : m \in {ms}}
    BY <1>19
  <2> HIDE DEF b, need, back
  <2> QED BY <1>16, <2>1, <2>2
<1>21. parse_response(data) = UNION {back(f) : f \in {g \in parse_fields(data) : Good(g)}}
  BY DEF parse_response
<1> HIDE DEF Good, back
<1>22. parse_response(data) = {r}
  BY <1>6, <1>19, <1>20, <1>21
<1> QED BY <1>22 DEF data

\* The four fields of a frame and what they say.
PushItems(id, encoding, payload) ==
  <<VarintItem(2, id), BytesItem(6, encoding), BytesItem(7, <<>>), BytesItem(8, payload)>>
PushBytes(id, encoding, payload) ==
  encode_varint_field(2, id) \o encode_bytes_field(6, encoding)
    \o encode_bytes_field(7, <<>>) \o encode_bytes_field(8, payload)

\* A frame that was built says its four items.
LEMMA PushReads ==
  ASSUME NEW id \in Nat, id < Place[MaxBytes], NEW encoding, Encodable(encoding), NEW payload, Encodable(payload)
  PROVE  Reads(PushBytes(id, encoding, payload), PushItems(id, encoding, payload))
<1> DEFINE two == 2
           six == 6
           seven == 7
           eight == 8
           empty == <<>>
           w == VarintItem(two, id)
           x == BytesItem(six, encoding)
           y == BytesItem(seven, empty)
           z == BytesItem(eight, payload)
           a == encode_varint_field(two, id)
           b == encode_bytes_field(six, encoding)
           c == encode_bytes_field(seven, empty)
           d == encode_bytes_field(eight, payload)
<1>1. two \in 1 .. 9 /\ six \in 1 .. 9 /\ seven \in 1 .. 9 /\ eight \in 1 .. 9
  OBVIOUS
<1>2. Encodable(empty)
  <2>1. Place[MaxBytes] > 80 /\ MaxBytes \in Nat
    BY WireAssumption, FrameAssumption
  <2>2. Place[MaxBytes] \in Nat
    BY <2>1, Places
  <2> QED BY <2>1, <2>2 DEF Encodable
<1>3. PushBytes(id, encoding, payload) = ((a \o b) \o c) \o d
  BY DEF PushBytes
<1>4. PushItems(id, encoding, payload) = <<w, x, y, z>>
  BY DEF PushItems
<1> HIDE DEF two, six, seven, eight, empty
<1>5. /\ Reads(a, <<w>>) /\ w \in Item /\ Reads(b, <<x>>) /\ x \in Item
      /\ Reads(c, <<y>>) /\ y \in Item /\ Reads(d, <<z>>) /\ z \in Item
  BY <1>1, <1>2, ReadsBytes, ReadsVarint
<1> HIDE DEF w, x, y, z, a, b, c, d
<1>6. /\ <<w>> \in Seq(Item) /\ <<x>> \in Seq(Item) /\ <<y>> \in Seq(Item) /\ <<z>> \in Seq(Item)
      /\ <<w>> \o <<x>> = <<w, x>> /\ <<w, x>> \in Seq(Item)
      /\ <<w, x>> \o <<y>> = <<w, x, y>> /\ <<w, x, y>> \in Seq(Item)
      /\ <<w, x, y>> \o <<z>> = <<w, x, y, z>>
  <2>1. <<w>> \in Seq(Item) /\ <<x>> \in Seq(Item) /\ <<y>> \in Seq(Item) /\ <<z>> \in Seq(Item)
    BY <1>5
  <2>2. <<w, x>> \in Seq(Item)
    BY <1>5
  <2>3. <<w, x, y>> \in Seq(Item)
    BY <1>5
  <2>4. <<w>> \o <<x>> = <<w, x>>
    <3> DEFINE t == <<w>> \o <<x>>
    <3>1. t \in Seq(Item) /\ Len(t) = 2 /\ t[1] = w /\ t[2] = x
      BY <2>1, <2>2, <2>3
    <3> HIDE DEF t
    <3>2. t = <<w, x>>
      BY <3>1
    <3> QED BY <3>2 DEF t
  <2>5. <<w, x>> \o <<y>> = <<w, x, y>>
    <3> DEFINE t == <<w, x>> \o <<y>>
    <3>1. t \in Seq(Item) /\ Len(t) = 3 /\ t[1] = w /\ t[2] = x /\ t[3] = y
      BY <2>1, <2>2, <2>3
    <3> HIDE DEF t
    <3>2. t = <<w, x, y>>
      BY <3>1
    <3> QED BY <3>2 DEF t
  <2>6. <<w, x, y>> \o <<z>> = <<w, x, y, z>>
    <3> DEFINE t == <<w, x, y>> \o <<z>>
    <3>1. t \in Seq(Item) /\ Len(t) = 4 /\ t[1] = w /\ t[2] = x /\ t[3] = y /\ t[4] = z
      BY <2>1, <2>2, <2>3
    <3> HIDE DEF t
    <3>2. t = <<w, x, y, z>>
      BY <3>1
    <3> QED BY <3>2 DEF t
  <2> QED BY <2>1, <2>2, <2>3, <2>4, <2>5, <2>6
<1>7. Reads(a \o b, <<w, x>>)
  <2>1. Reads(a \o b, <<w>> \o <<x>>)
    BY <1>5, <1>6, ReadsBoth
  <2> QED BY <1>6, <2>1
<1>8. Reads((a \o b) \o c, <<w, x, y>>)
  <2>1. Reads((a \o b) \o c, <<w, x>> \o <<y>>)
    BY <1>5, <1>6, <1>7, ReadsBoth
  <2> QED BY <1>6, <2>1
<1>9. Reads(((a \o b) \o c) \o d, <<w, x, y, z>>)
  <2>1. Reads(((a \o b) \o c) \o d, <<w, x, y>> \o <<z>>)
    BY <1>5, <1>6, <1>8, ReadsBoth
  <2> QED BY <1>6, <2>1
<1> QED BY <1>3, <1>4, <1>9

\* A frame comes back: the log id, the name of the encoding and the payload.
LEMMA PushSurvives ==
  ASSUME NEW id \in Nat, id < Place[MaxBytes], NEW encoding \in Texts, Encodable(encoding),
         NEW payload, Encodable(payload)
  PROVE  parse_push_frame(PushBytes(id, encoding, payload))
           = {[log_id |-> id, encoding |-> encoding, payload |-> payload]}
<1> DEFINE data == PushBytes(id, encoding, payload)
           items == PushItems(id, encoding, payload)
           two == 2
           six == 6
           seven == 7
           eight == 8
           p1 == 1
           p2 == 2
           p3 == 3
           p4 == 4
<1>1. Reads(data, items)
  BY PushReads
<1>2. /\ Len(items) = 4 /\ items[1] = VarintItem(2, id) /\ items[2] = BytesItem(6, encoding)
      /\ items[3] = BytesItem(7, <<>>) /\ items[4] = BytesItem(8, payload)
  BY DEF PushItems
<1> HIDE DEF data, items
<1>3. items[1].number = 2 /\ items[2].number = 6 /\ items[3].number = 7 /\ items[4].number = 8
  BY <1>2 DEF VarintItem, BytesItem
<1>4. Len(items) <= MaxFields
  BY <1>2, WireAssumption, FrameAssumption
<1>5. PICK fs : parse_fields(data) = {fs} /\ Say(fs, items)
  BY <1>1, <1>4, Parsed DEF Say
<1>6. \A i \in 1 .. Len(items) : i \in {1, 2, 3, 4}
  BY <1>2
<1>7. FirstSays(fs, two, VarintItem(2, id))
  <2>1. /\ p1 \in 1 .. Len(items) /\ items[p1].number = two /\ items[p1] = VarintItem(2, id)
        /\ \A i \in 1 .. Len(items) : items[i].number = two => p1 <= i
    BY <1>2, <1>3
  <2> HIDE DEF two, p1
  <2>2. FirstSays(fs, two, items[p1])
    BY <1>5, <2>1, FirstIs
  <2> QED BY <2>1, <2>2
<1>8. FirstSays(fs, six, BytesItem(6, encoding))
  <2>1. /\ p2 \in 1 .. Len(items) /\ items[p2].number = six /\ items[p2] = BytesItem(6, encoding)
        /\ \A i \in 1 .. Len(items) : items[i].number = six => p2 <= i
    BY <1>2, <1>3, <1>6
  <2> HIDE DEF six, p2
  <2>2. FirstSays(fs, six, items[p2])
    BY <1>5, <2>1, FirstIs
  <2> QED BY <2>1, <2>2
<1>9. FirstSays(fs, seven, BytesItem(7, <<>>))
  <2>1. /\ p3 \in 1 .. Len(items) /\ items[p3].number = seven /\ items[p3] = BytesItem(7, <<>>)
        /\ \A i \in 1 .. Len(items) : items[i].number = seven => p3 <= i
    BY <1>2, <1>3, <1>6
  <2> HIDE DEF seven, p3
  <2>2. FirstSays(fs, seven, items[p3])
    BY <1>5, <2>1, FirstIs
  <2> QED BY <2>1, <2>2
<1>10. FirstSays(fs, eight, BytesItem(8, payload))
  <2>1. /\ p4 \in 1 .. Len(items) /\ items[p4].number = eight /\ items[p4] = BytesItem(8, payload)
        /\ \A i \in 1 .. Len(items) : items[i].number = eight => p4 <= i
    BY <1>2, <1>3, <1>6
  <2> HIDE DEF eight, p4
  <2>2. FirstSays(fs, eight, items[p4])
    BY <1>5, <2>1, FirstIs
  <2> QED BY <2>1, <2>2
<1>11. /\ first_varint(fs, 2, -1) = id /\ first_bytes(fs, 6) = encoding
       /\ first_bytes(fs, 7) = <<>> /\ first_bytes(fs, 8) = payload
  BY <1>7, <1>8, <1>9, <1>10 DEF first_varint, first_bytes, FirstSays, VarintItem, BytesItem
<1>12. Well(fs, {2}, {8}, {6, 7})
  <2>1. /\ first(fs, 2, [type |-> 0]).type = 0 /\ first(fs, 8, [type |-> 2]).type = 2
        /\ first(fs, 6, [type |-> 2]).type = 2 /\ first(fs, 7, [type |-> 2]).type = 2
    BY <1>7, <1>8, <1>9, <1>10 DEF FirstSays, VarintItem, BytesItem
  <2>2. <<>> \in Texts
    BY FrameAssumption
  <2> QED BY <1>11, <2>1, <2>2 DEF Well
<1>13. parse_push_frame(data) = {[log_id |-> id, encoding |-> encoding, payload |-> payload]}
  BY <1>5, <1>11, <1>12 DEF parse_push_frame
<1> QED BY <1>13 DEF data

\* Plain data is not gzipped, and gzipped data can be told and unpacked.
LEMMA GzipTold ==
  ASSUME NEW data \in Seq(Byte)
  PROVE  /\ Plain(data) => ~IsGzip(data)
         /\ IsGzip(gzip(data))
         /\ SubSeq(gzip(data), Len(GzipMagic) + 1, Len(gzip(data))) = data
<1>1. GzipMagic \in Seq(Byte) /\ GzipMagic # <<>>
  BY FrameAssumption
<1>2. ASSUME Plain(data), IsGzip(data) PROVE FALSE
  <2> DEFINE n == Len(GzipMagic)
             a == SubSeq(GzipMagic, 1, n)
             b == SubSeq(data, 1, n)
  <2>1. n \in Nat /\ n >= 1 /\ n <= Len(data) /\ a = b
    BY <1>1, <1>2 DEF IsGzip, IsPrefix
  <2>2. a[1] = GzipMagic[1] /\ b[1] = data[1]
    BY <1>1, <2>1
  <2> QED BY <1>2, <2>1, <2>2 DEF Plain
<1> DEFINE n == Len(GzipMagic)
           z == GzipMagic \o data
<1>3. n \in Nat /\ z \in Seq(Byte) /\ Len(z) = n + Len(data)
  BY <1>1
<1>4. SubSeq(GzipMagic, 1, n) = SubSeq(z, 1, n)
  <2>1. SubSeq(z, 1, n) \in Seq(Byte) /\ Len(SubSeq(z, 1, n)) = n
    BY <1>3
  <2>2. SubSeq(GzipMagic, 1, n) \in Seq(Byte) /\ Len(SubSeq(GzipMagic, 1, n)) = n
    BY <1>1, <1>3
  <2>3. \A i \in 1 .. n : SubSeq(GzipMagic, 1, n)[i] = SubSeq(z, 1, n)[i]
    BY <1>1, <1>3
  <2> QED BY <2>1, <2>2, <2>3
<1>5. IsGzip(gzip(data))
  BY <1>3, <1>4 DEF IsGzip, IsPrefix, gzip
<1>6. SubSeq(z, n + 1, Len(z)) = data
  <2> DEFINE t == SubSeq(z, n + 1, Len(z))
  <2>1. t \in Seq(Byte) /\ Len(t) = Len(data) /\ \A i \in 1 .. Len(data) : t[i] = z[n + i]
    BY <1>3
  <2>2. \A i \in 1 .. Len(data) : z[n + i] = data[i]
    BY <1>1
  <2> HIDE DEF t, z
  <2>3. t = data
    BY <2>1, <2>2
  <2> QED BY <2>3 DEF t
<1> QED BY <1>2, <1>5, <1>6 DEF gzip

\* What was gzipped or sent plain is unpacked to what was sent.
LEMMA PayloadSurvives ==
  ASSUME NEW bytes \in Seq(Byte), Plain(bytes), NEW id, NEW zip \in BOOLEAN
  PROVE  decode_push_payload([log_id |-> id, encoding |-> IF zip THEN GZIP ELSE NONE,
                              payload |-> IF zip THEN gzip(bytes) ELSE bytes]) = {bytes}
<1> DEFINE encoding == IF zip THEN GZIP ELSE NONE
           payload == IF zip THEN gzip(bytes) ELSE bytes
           wire == [log_id |-> id, encoding |-> encoding, payload |-> payload]
<1>1. wire.encoding = encoding /\ wire.payload = payload
  OBVIOUS
<1>2. /\ ~IsGzip(bytes) /\ IsGzip(gzip(bytes))
      /\ SubSeq(gzip(bytes), Len(GzipMagic) + 1, Len(gzip(bytes))) = bytes
  BY GzipTold
<1>3. CASE zip
  <2>1. encoding = GZIP /\ payload = gzip(bytes)
    BY <1>3
  <2> HIDE DEF wire, encoding, payload
  <2>2. decode_push_payload(wire)
          = {SubSeq(p, Len(GzipMagic) + 1, Len(p)) : p \in {q \in {wire.payload} : IsGzip(q)}}
    <3>1. /\ wire.encoding \in {GZIP, XGZIP} \/ IsGzip(wire.payload)
          /\ ~(wire.encoding \in {<<>>, NONE, IDENTITY} /\ ~IsGzip(wire.payload))
      BY <1>1, <1>2, <2>1
    <3>2. wire.payload # <<>>
      <4>1. GzipMagic \in Seq(Byte) /\ Len(GzipMagic) >= 1
        BY FrameAssumption
      <4>2. Len(gzip(bytes)) = Len(GzipMagic) + Len(bytes)
        BY <4>1 DEF gzip
      <4> QED BY <1>1, <2>1, <4>1, <4>2
    <3> QED BY <3>1, <3>2 DEF decode_push_payload, gunzip
  <2>3. {q \in {wire.payload} : IsGzip(q)} = {gzip(bytes)}
    BY <1>1, <1>2, <2>1
  <2>4. decode_push_payload(wire) = {bytes}
    BY <1>2, <2>2, <2>3
  <2> QED BY <2>4 DEF wire, encoding, payload
<1>4. CASE ~zip
  <2>1. encoding = NONE /\ payload = bytes /\ NONE \notin {GZIP, XGZIP}
    BY <1>4, FrameAssumption
  <2> HIDE DEF wire, encoding, payload
  <2>2. ~(wire.encoding \in {GZIP, XGZIP} \/ IsGzip(wire.payload))
        /\ wire.encoding \in {<<>>, NONE, IDENTITY} /\ ~IsGzip(wire.payload)
    BY <1>1, <1>2, <2>1
  <2>3. decode_push_payload(wire) = {bytes}
    BY <1>1, <2>1, <2>2 DEF decode_push_payload
  <2> QED BY <2>3 DEF wire, encoding, payload
<1> QED BY <1>3, <1>4

\* An acknowledgement parses to the log id and the token it was given; there is
\* one if there is a token.
LEMMA AckSurvives ==
  ASSUME NEW id \in Nat, id < Place[MaxBytes], NEW ext, Encodable(ext)
  PROVE  /\ build_ack(id, ext) = {} <=> ext = <<>>
         /\ \A built \in build_ack(id, ext) :
               \E fields \in parse_fields(built) :
                  first_varint(fields, 2, -1) = id /\ first_bytes(fields, 7) = ext
<1> DEFINE two == 2
           seven == 7
           p1 == 1
           p2 == 2
           a == encode_varint_field(two, id)
           b == encode_bytes_field(seven, ext)
           x == VarintItem(two, id)
           y == BytesItem(seven, ext)
           items == <<x>> \o <<y>>
           data == a \o b
<1>1. build_ack(id, ext) = {} <=> ext = <<>>
  <2> DEFINE tokens == {ext} \ {<<>>}
             Ack(e) == (IF id = -1 THEN <<>> ELSE encode_varint_field(2, id)) \o encode_bytes_field(7, e)
  <2>1. build_ack(id, ext) = {Ack(e) : e \in tokens}
    BY DEF build_ack
  <2>2. tokens = {} <=> ext = <<>>
    OBVIOUS
  <2> HIDE DEF tokens, Ack
  <2>3. {Ack(e) : e \in tokens} = {} <=> tokens = {}
    BY Zenon
  <2> QED BY <2>1, <2>2, <2>3
<1>13. \A built \in build_ack(id, ext) : built = data
  <2>1. id # -1
    OBVIOUS
  <2>2. build_ack(id, ext)
          = {encode_varint_field(2, id) \o encode_bytes_field(7, e) : e \in {ext} \ {<<>>}}
    BY <2>1, Zenon DEF build_ack
  <2>3. ASSUME NEW built \in build_ack(id, ext) PROVE built = data
    <3> HIDE DEF two, seven
    <3>1. two = 2 /\ seven = 7
      BY DEF two, seven
    <3>2. PICK e \in {ext} \ {<<>>} : built = encode_varint_field(2, id) \o encode_bytes_field(7, e)
      BY <2>2
    <3>3. e = ext
      BY <3>2
    <3> QED BY <3>1, <3>2, <3>3
  <2> QED BY <2>3, Zenon
<1>2. x = VarintItem(2, id) /\ y = BytesItem(7, ext)
  OBVIOUS
<1>3. two \in 1 .. 9 /\ seven \in 1 .. 9
  OBVIOUS
<1>4. /\ Reads(a, <<x>>) /\ x \in Item /\ Reads(b, <<y>>) /\ y \in Item
  <2> HIDE DEF two, seven
  <2> QED BY <1>3, ReadsBytes, ReadsVarint
<1> HIDE DEF a, b, x, y
<1>5. Reads(data, items)
  <2>1. <<x>> \in Seq(Item) /\ <<y>> \in Seq(Item)
    BY <1>4
  <2> QED BY <1>4, <2>1, ReadsBoth
<1>6. Len(items) = 2 /\ items[1] = x /\ items[2] = y
  OBVIOUS
<1> HIDE DEF items, data
<1>7. items[1].number = 2 /\ items[2].number = 7
  BY <1>2, <1>6 DEF VarintItem, BytesItem
<1>8. Len(items) <= MaxFields
  BY <1>6, WireAssumption, FrameAssumption
<1>9. PICK fs : parse_fields(data) = {fs} /\ Say(fs, items)
  BY <1>5, <1>8, Parsed DEF Say
<1>10. FirstSays(fs, two, x)
  <2>1. /\ p1 \in 1 .. Len(items) /\ items[p1].number = two /\ items[p1] = x
        /\ \A i \in 1 .. Len(items) : items[i].number = two => p1 <= i
    BY <1>6, <1>7
  <2> HIDE DEF two, p1
  <2>2. FirstSays(fs, two, items[p1])
    BY <1>9, <2>1, FirstIs
  <2> QED BY <2>1, <2>2
<1>11. FirstSays(fs, seven, y)
  <2>1. /\ p2 \in 1 .. Len(items) /\ items[p2].number = seven /\ items[p2] = y
        /\ \A i \in 1 .. Len(items) : items[i].number = seven => p2 <= i
    BY <1>6, <1>7
  <2> HIDE DEF seven, p2
  <2>2. FirstSays(fs, seven, items[p2])
    BY <1>9, <2>1, FirstIs
  <2> QED BY <2>1, <2>2
<1>12. first_varint(fs, 2, -1) = id /\ first_bytes(fs, 7) = ext
  BY <1>2, <1>10, <1>11 DEF first_varint, first_bytes, FirstSays, VarintItem, BytesItem
<1> QED BY <1>1, <1>9, <1>12, <1>13

\* Whatever is sent in a frame, gzipped or not, inspect_frame reads it back; a
\* response with a token, and no other, can be acknowledged, and the
\* acknowledgement carries its log id and that token.
THEOREM FramesSurvive ==
  ASSUME NEW r, Sendable(r), NEW id \in Nat, id < Place[MaxBytes], NEW zip \in BOOLEAN
  PROVE  FrameSurvives(r, id, zip)
<1> DEFINE bytes == build_response(r)
           encoding == IF zip THEN GZIP ELSE NONE
           payload == IF zip THEN gzip(bytes) ELSE bytes
           push == [log_id |-> id, encoding |-> encoding, payload |-> payload]
           wire == build_push_frame(bytes, id, zip)
<1>1. Encodable(bytes) /\ Encodable(gzip(bytes)) /\ Encodable(r.internal_ext)
  BY DEF Sendable
<1>2. bytes \in Seq(Byte) /\ Plain(bytes) /\ parse_response(bytes) = {r}
  BY <1>1, ResponseReads, ResponseSurvives DEF Encodable
<1>3. wire = PushBytes(id, encoding, payload)
  BY DEF build_push_frame, PushBytes
<1> HIDE DEF bytes
<1>4. encoding \in Texts /\ Encodable(encoding) /\ Encodable(payload)
  <2>1. GZIP \in Texts /\ NONE \in Texts /\ Texts \subseteq Seq(Byte)
    BY FrameAssumption
  <2>2. Encodable(GZIP) /\ Encodable(NONE)
    BY <2>1, FrameAssumption DEF Encodable
  <2> QED BY <1>1, <2>1, <2>2
<1>5. decode_push_payload(push) = {bytes}
  BY <1>2, PayloadSurvives
<1>6. push.log_id = id
  OBVIOUS
<1> HIDE DEF encoding, payload, wire
<1>7. parse_push_frame(wire) = {push}
  BY <1>3, <1>4, PushSurvives
<1> HIDE DEF push
<1>8. inspect_frame(wire) = {[log_id |-> id, response |-> r]}
  BY <1>2, <1>5, <1>6, <1>7 DEF inspect_frame
<1>9. /\ build_ack(id, r.internal_ext) = {} <=> r.internal_ext = <<>>
      /\ \A built \in build_ack(id, r.internal_ext) :
            \E fields \in parse_fields(built) :
               first_varint(fields, 2, -1) = id /\ first_bytes(fields, 7) = r.internal_ext
  BY <1>1, AckSurvives
<1> QED BY <1>8, <1>9 DEF FrameSurvives, wire, bytes

-----------------------------------------------------------------------------
(* What the run decodes. *)

\* What a run decodes is one of these, and stays what it is.
Decodes ==
  /\ input[1] = "fields" => input[2] \in Seq(Byte)
  /\ input[1] = "varint" => input[2] \in -Modulus .. Place[MaxBytes] - 1
  /\ input[1] = "frame" => Sendable(input[2]) /\ input[3] \in 0 .. Place[MaxBytes] - 1 /\ input[4] \in BOOLEAN
\* The inputs of the run are bytes, numbers and frames that can be sent.
LEMMA DecodesStarts == MCInit => Decodes
<1> SUFFICES ASSUME MCInit PROVE Decodes
  OBVIOUS
<1>1. CASE input \in {<<"capture">>, <<"probe">>}
  <2>1. input[1] \in {"capture", "probe"}
    BY <1>1
  <2> QED BY <2>1 DEF Decodes
<1>2. ASSUME NEW data \in SeqOf(Alphabet, 4), input = <<"fields", data>> PROVE Decodes
  <2>1. PICK m \in 0 .. 4 : data \in [1 .. m -> Alphabet]
    BY <1>2 DEF SeqOf
  <2>2. data \in [1 .. m -> Byte] /\ m \in Nat
    <3>1. Alphabet \subseteq Byte
      BY InputAssumption
    <3> HIDE DEF Alphabet, Byte
    <3> QED BY <2>1, <3>1
  <2>3. data \in Seq(Byte)
    BY <2>2
  <2> HIDE DEF Byte
  <2> QED BY <1>2, <2>3 DEF Decodes
<1>3. ASSUME NEW n \in -Modulus .. Place[MaxBytes] - 1, input = <<"varint", n>> PROVE Decodes
  BY <1>3 DEF Decodes
<1>4. ASSUME NEW r \in Responses, NEW id \in LogIds, NEW zip \in BOOLEAN, input = <<"frame", r, id, zip>>
      PROVE  Decodes
  <2>1. Sendable(r) /\ id \in 0 .. Place[MaxBytes] - 1
    BY InputAssumption
  <2>2. input[1] = "frame" /\ input[2] = r /\ input[3] = id /\ input[4] = zip
    BY <1>4
  <2> QED BY <2>1, <2>2 DEF Decodes
<1> QED BY <1>1, <1>2, <1>3, <1>4 DEF MCInit

\* Numbers, messages and frames come back from the wire as they were written and
\* messages cut short are refused: VarintsSurvive, MessagesTile and
\* FramesSurvive for what the run decodes (parse_fields, encode_varint,
\* inspect_frame and the build_ functions).
THEOREM WireFormatIsExact == MCSpec => []WireIsExact
<1>1. Decodes /\ [MCNext]_<<vars, pvars, input>> => Decodes'
  <2> SUFFICES ASSUME [MCNext]_<<vars, pvars, input>> PROVE input' = input
    BY DEF Decodes
  <2> QED BY DEF MCNext
<1>2. Decodes => WireIsExact
  <2> SUFFICES ASSUME Decodes PROVE WireIsExact
    OBVIOUS
  <2>1. ASSUME input[1] = "fields" PROVE FieldsTile(input[2])
    BY <2>1, MessagesTile DEF Decodes
  <2>2. ASSUME input[1] = "varint" PROVE VarintSurvives(input[2])
    BY <2>2, VarintsSurvive DEF Decodes
  <2>3. ASSUME input[1] = "frame" PROVE FrameSurvives(input[2], input[3], input[4])
    <3> DEFINE r == input[2]
               id == input[3]
               zip == input[4]
    <3>1. Sendable(r) /\ id \in 0 .. Place[MaxBytes] - 1 /\ zip \in BOOLEAN
      BY <2>3 DEF Decodes
    <3> HIDE DEF r, id, zip
    <3>2. id \in Nat /\ id < Place[MaxBytes]
      <4>1. Place[MaxBytes] \in Nat
        BY WireAssumption, Places
      <4> QED BY <3>1, <4>1
    <3>3. FrameSurvives(r, id, zip)
      BY <3>1, <3>2, FramesSurvive
    <3> QED BY <3>3 DEF r, id, zip
  <2> QED BY <2>1, <2>2, <2>3 DEF WireIsExact
<1> QED BY DecodesStarts, <1>1, <1>2, PTL DEF MCSpec
===============================================================================
