----------------------------- MODULE UploadProofs -----------------------------
(***************************************************************************)
(* What holds of ChunkStore, and of the client of Uploader together with   *)
(* it, for every set of uploads, devices, bodies and clips and for every   *)
(* value of the limits.                                                    *)
(***************************************************************************)
EXTENDS Uploader, FiniteSetTheorems, WellFoundedInduction, TLAPS

\* The limits are naturals and the markers for a missing key are no values.
USE SizeAssumption, LimitAssumption, AbsentAssumption, NoSessionAssumption
    DEF SizeAssumption, LimitAssumption, AbsentAssumption, NoSessionAssumption

-----------------------------------------------------------------------------
(* Sums over finite sets.  MapThenSumSet takes the elements one by one; the *)
(* lemmas say that it may take them in any order.  They are proved by       *)
(* induction: in the form of a statement about a set instead of a predicate, *)
(* it follows from the library's fact that < is well-founded on Nat.        *)

\* A set of numbers with 0 in it, and with n + 1 whenever n is, holds them all.
LEMMA SetInduction ==
    ASSUME NEW S, 0 \in S, \A n \in Nat : n \in S => n + 1 \in S
    PROVE  Nat \subseteq S
<1> DEFINE T == Nat \ S
           R == OpToRel(<, Nat)
<1> SUFFICES ASSUME T # {} PROVE FALSE
  OBVIOUS
<1>1. IsWellFoundedOn(R, Nat)
  BY NatLessThanWellFounded
<1>2. T \subseteq Nat  OBVIOUS
<1>0. \A m, n \in Nat : m < n => <<m, n>> \in R
  BY DEF OpToRel
<1> HIDE DEF R
<1>3. PICK x \in T : \A y \in T : ~ (<<y, x>> \in R)
  <2> HIDE DEF T
  <2>1. QED BY <1>1, <1>2, WFMin
<1>4. x # 0 /\ x \in Nat
  OBVIOUS
<1>8. x - 1 \in Nat /\ x - 1 < x
  BY <1>4
<1>5. x - 1 \notin T
  BY <1>3, <1>0, <1>4, <1>8
<1>6. x \in S
  BY <1>5, <1>8, <1>4
<1>7. QED  BY <1>6

\* A set of subsets of a finite set is all of them, when each belongs to it as
\* soon as the subsets with one element less do.
LEMMA SubsetInduction ==
  ASSUME NEW S, IsFiniteSet(S), NEW C,
         \A T \in SUBSET S : (\A x \in T : T \ {x} \in C) => T \in C
  PROVE  SUBSET S \subseteq C
<1> DEFINE N == {n \in Nat : \A T \in SUBSET S : Cardinality(T) = n => T \in C}
<1>0. ASSUME NEW T \in SUBSET S
      PROVE  /\ IsFiniteSet(T) /\ Cardinality(T) \in Nat
             /\ \A x \in T : T \ {x} \in SUBSET S /\ Cardinality(T \ {x}) = Cardinality(T) - 1
             /\ Cardinality(T) = 0 => T = {}
  <2>1. IsFiniteSet(T)
    BY FS_Subset
  <2>2. QED
    BY <2>1, FS_CardinalityType, FS_RemoveElement, FS_EmptySet
<1>1. 0 \in N
  BY <1>0
<1>2. ASSUME NEW n \in Nat, n \in N PROVE n + 1 \in N
  <2> SUFFICES ASSUME NEW T \in SUBSET S, Cardinality(T) = n + 1 PROVE T \in C
    OBVIOUS
  <2>1. ASSUME NEW x \in T PROVE T \ {x} \in C
    BY <1>0, <1>2
  <2>2. QED  BY <2>1
<1>3. Nat \subseteq N
  <2> HIDE DEF N
  <2>1. QED BY <1>1, <1>2, SetInduction
<1>4. QED  BY <1>0, <1>3

\* The element taken first, the recursion the sum goes through for every subset
\* in D, and the function it defines on the subsets of S.
Pick(s) == CHOOSE x \in s : TRUE
Summed(f, g, D) ==
    f = [s \in D |-> IF s = {} THEN 0 ELSE g[Pick(s)] + f[s \ {Pick(s)}]]
SumFcn(g, S) == CHOOSE f : Summed(f, g, SUBSET S)

\* There is such a function: if there is one for the subsets of up to n elements,
\* then there is one for those of up to n + 1.
LEMMA SumExists ==
  ASSUME NEW S, IsFiniteSet(S), NEW g
  PROVE  Summed(SumFcn(g, S), g, SUBSET S)
<1> DEFINE D(n) == {T \in SUBSET S : Cardinality(T) <= n}
           N == {n \in Nat : \E f : Summed(f, g, D(n))}
           Unfold(f, T) == IF T = {} THEN 0 ELSE g[Pick(T)] + f[T \ {Pick(T)}]
<1>0. ASSUME NEW T \in SUBSET S
      PROVE  /\ IsFiniteSet(T) /\ Cardinality(T) \in Nat /\ Cardinality(T) <= Cardinality(S)
             /\ T # {} => /\ T \ {Pick(T)} \in SUBSET S
                          /\ Cardinality(T \ {Pick(T)}) = Cardinality(T) - 1
             /\ Cardinality(T) = 0 => T = {}
  <2>1. IsFiniteSet(T) /\ Cardinality(T) <= Cardinality(S)
    BY FS_Subset
  <2>2. T # {} => Pick(T) \in T
    BY DEF Pick
  <2>3. QED
    BY <2>1, <2>2, FS_CardinalityType, FS_RemoveElement, FS_EmptySet
<1>1. 0 \in N
  <2>1. D(0) \subseteq {{}}
    <3>1. ASSUME NEW T \in D(0) PROVE T = {}
      <4>1. T \in SUBSET S /\ Cardinality(T) <= 0
        OBVIOUS
      <4> HIDE DEF D, N
      <4>4. Cardinality(T) \in Nat
        BY <1>0, <4>1
      <4>2. Cardinality(T) = 0
        BY <4>4, <4>1
      <4>3. QED  BY <1>0, <4>1, <4>2
    <3>2. QED  BY <3>1
  <2>2. Summed([T \in D(0) |-> 0], g, D(0))
    BY <2>1 DEF Summed
  <2>3. QED  BY <2>2
<1>2. ASSUME NEW n \in Nat, n \in N PROVE n + 1 \in N
  <2>1. PICK f : Summed(f, g, D(n))
    BY <1>2
  <2> DEFINE h == [T \in D(n + 1) |-> Unfold(f, T)]
  <2>2. ASSUME NEW T \in D(n + 1)
        PROVE  h[T] = Unfold(h, T)
    <3>1. CASE T = {}
      BY <3>1
    <3>2. CASE T # {}
      <4>1. T \ {Pick(T)} \in D(n) /\ T \ {Pick(T)} \in D(n + 1)
        BY <3>2, <1>0
      <4>2. f[T \ {Pick(T)}] = Unfold(f, T \ {Pick(T)})
        BY <4>1, <2>1 DEF Summed
      <4>3. h[T \ {Pick(T)}] = f[T \ {Pick(T)}]
        BY <4>1, <4>2
      <4>4. h[T] = g[Pick(T)] + f[T \ {Pick(T)}]
        BY <3>2
      <4> HIDE DEF h
      <4>5. QED  BY <3>2, <4>3, <4>4
    <3>3. QED  BY <3>1, <3>2
  <2>3. h = [T \in D(n + 1) |-> h[T]]
    OBVIOUS
  <2>4. Summed(h, g, D(n + 1))
    <3>1. [T \in D(n + 1) |-> h[T]] = [T \in D(n + 1) |-> Unfold(h, T)]
      <4> HIDE DEF h, D, Unfold
      <4>1. QED  BY <2>2
    <3>2. QED  BY <2>3, <3>1 DEF Summed
  <2> HIDE DEF D, h
  <2>5. QED  BY <2>4
<1>3. Cardinality(S) \in N
  <2>1. Nat \subseteq N
    <3> HIDE DEF N
    <3>1. QED BY <1>1, <1>2, SetInduction
  <2>2. Cardinality(S) \in Nat
    BY FS_CardinalityType
  <2>3. QED  BY <2>1, <2>2
<1>4. D(Cardinality(S)) = SUBSET S
  BY <1>0
<1>5. \E f : Summed(f, g, SUBSET S)
  BY <1>3, <1>4
<1>6. QED
  BY <1>5 DEF SumFcn

\* The recursion, unfolded once.
LEMMA SumRec ==
  ASSUME NEW S, IsFiniteSet(S), NEW g
  PROVE  /\ SumFcn(g, S)[{}] = 0
         /\ \A T \in SUBSET S : T # {} =>
                /\ Pick(T) \in T
                /\ SumFcn(g, S)[T] = g[Pick(T)] + SumFcn(g, S)[T \ {Pick(T)}]
<1>1. Summed(SumFcn(g, S), g, SUBSET S)
  BY SumExists
<1>2. QED  BY <1>1 DEF Summed, Pick

\* A sum of integers is one.
LEMMA SumType ==
  ASSUME NEW S, IsFiniteSet(S), NEW g \in [S -> Int]
  PROVE  \A T \in SUBSET S : SumFcn(g, S)[T] \in Int
<1> DEFINE f == SumFcn(g, S)
           C == {T \in SUBSET S : f[T] \in Int}
<1>1. ASSUME NEW T \in SUBSET S, \A x \in T : T \ {x} \in C PROVE T \in C
  <2> HIDE DEF f
  <2>1. f[{}] = 0 /\ (T # {} => Pick(T) \in T /\ f[T] = g[Pick(T)] + f[T \ {Pick(T)}])
    BY SumRec DEF f
  <2>2. CASE T = {}  BY <2>1, <2>2
  <2>3. CASE T # {}
    <3>1. f[T \ {Pick(T)}] \in Int /\ g[Pick(T)] \in Int
      BY <2>1, <2>3, <1>1
    <3>2. QED  BY <2>1, <2>3, <3>1
  <2>4. QED  BY <2>2, <2>3
<1>2. SUBSET S \subseteq C
  <2> HIDE DEF C
  <2>1. QED  BY <1>1, SubsetInduction
<1>3. QED  BY <1>2

\* Any element may be taken first.
LEMMA SumRemove ==
  ASSUME NEW S, IsFiniteSet(S), NEW g \in [S -> Int]
  PROVE  \A T \in SUBSET S : \A x \in T :
            SumFcn(g, S)[T] = g[x] + SumFcn(g, S)[T \ {x}]
<1> DEFINE f == SumFcn(g, S)
           C == {T \in SUBSET S : \A x \in T : f[T] = g[x] + f[T \ {x}]}
<1>0. \A T \in SUBSET S : f[T] \in Int
  BY SumType
<1>1. ASSUME NEW T \in SUBSET S, \A x \in T : T \ {x} \in C PROVE T \in C
  <2> HIDE DEF f
  <2> SUFFICES ASSUME NEW x \in T PROVE f[T] = g[x] + f[T \ {x}]
    OBVIOUS
  <2>1. PICK y \in T : f[T] = g[y] + f[T \ {y}]
    <3>1. \A U \in SUBSET S : U # {} => Pick(U) \in U /\ f[U] = g[Pick(U)] + f[U \ {Pick(U)}]
      BY SumRec DEF f
    <3>2. QED  BY <3>1
  <2>2. CASE x = y  BY <2>1, <2>2
  <2>3. CASE x # y
    <3>1. f[T \ {y}] = g[x] + f[(T \ {y}) \ {x}]
      BY <2>1, <2>3, <1>1
    <3>2. f[T \ {x}] = g[y] + f[(T \ {x}) \ {y}]
      BY <2>1, <2>3, <1>1
    <3>3. (T \ {y}) \ {x} = (T \ {x}) \ {y}
      OBVIOUS
    <3>4. g[x] \in Int /\ g[y] \in Int /\ f[(T \ {x}) \ {y}] \in Int
      BY <2>1, <1>0
    <3>5. f[T] = g[y] + (g[x] + f[(T \ {x}) \ {y}])
      BY <2>1, <3>1, <3>3, Zenon
    <3>6. QED  BY <3>2, <3>4, <3>5
  <2>4. QED  BY <2>2, <2>3
<1>2. SUBSET S \subseteq C
  <2> HIDE DEF C
  <2>1. QED  BY <1>1, SubsetInduction
<1>3. QED  BY <1>2

\* A sum is at most one whose terms are at least as great.
LEMMA SumAtMost ==
  ASSUME NEW S, IsFiniteSet(S), NEW g \in [S -> Int], NEW h \in [S -> Int]
  PROVE  \A T \in SUBSET S :
            (\A x \in T : g[x] <= h[x]) => SumFcn(g, S)[T] <= SumFcn(h, S)[T]
<1> DEFINE F == SumFcn(g, S)
           G == SumFcn(h, S)
           C == {T \in SUBSET S : (\A x \in T : g[x] <= h[x]) => F[T] <= G[T]}
<1>0. \A T \in SUBSET S : F[T] \in Int /\ G[T] \in Int
  BY SumType
<1>1. ASSUME NEW T \in SUBSET S, \A x \in T : T \ {x} \in C PROVE T \in C
  <2> HIDE DEF F, G
  <2> SUFFICES ASSUME \A x \in T : g[x] <= h[x] PROVE F[T] <= G[T]
    OBVIOUS
  <2>1. CASE T = {}
    <3>1. F[{}] = 0 /\ G[{}] = 0
      BY SumRec DEF F, G
    <3>2. QED  BY <2>1, <3>1
  <2>2. CASE T # {}
    <3>1. PICK x \in T : TRUE
      BY <2>2
    <3>2. F[T] = g[x] + F[T \ {x}] /\ G[T] = h[x] + G[T \ {x}]
      BY SumRemove DEF F, G
    <3>3. F[T \ {x}] <= G[T \ {x}]
      BY <1>1
    <3>4. F[T \ {x}] \in Int /\ G[T \ {x}] \in Int /\ g[x] \in Int /\ h[x] \in Int
      BY <1>0
    <3>5. QED  BY <3>2, <3>3, <3>4
  <2>3. QED  BY <2>1, <2>2
<1>2. SUBSET S \subseteq C
  <2> HIDE DEF C
  <2>1. QED  BY <1>1, SubsetInduction
<1>3. QED  BY <1>2

\* A term that is replaced changes the sum by the difference.
LEMMA SumReplace ==
  ASSUME NEW S, IsFiniteSet(S), NEW g \in [S -> Int], NEW h \in [S -> Int], NEW q \in S,
         \A x \in S \ {q} : h[x] = g[x]
  PROVE  SumFcn(h, S)[S] = SumFcn(g, S)[S] + h[q] - g[q]
<1> DEFINE F == SumFcn(g, S)
           G == SumFcn(h, S)
<1>2. F[S] = g[q] + F[S \ {q}] /\ G[S] = h[q] + G[S \ {q}]
  <2>1. \A T \in SUBSET S : \A x \in T : F[T] = g[x] + F[T \ {x}]
    BY SumRemove
  <2>2. \A T \in SUBSET S : \A x \in T : G[T] = h[x] + G[T \ {x}]
    BY SumRemove
  <2> HIDE DEF F, G
  <2>3. S \in SUBSET S
    OBVIOUS
  <2>4. QED  BY <2>1, <2>2, <2>3
<1>3. F[S \ {q}] \in Int /\ G[S \ {q}] \in Int /\ g[q] \in Int /\ h[q] \in Int
  BY SumType
<1>4. /\ \A x \in S \ {q} : g[x] <= h[x] /\ h[x] <= g[x]
      /\ S \ {q} \in SUBSET S
  OBVIOUS
<1>5. F[S \ {q}] <= G[S \ {q}] /\ G[S \ {q}] <= F[S \ {q}]
  BY <1>4, SumAtMost
<1> HIDE DEF F, G
<1>6. G[S] = F[S] + h[q] - g[q]
  BY <1>2, <1>3, <1>5
<1>7. QED  BY <1>6 DEF F, G

\* The lengths of the chunks, and the sum of them that TotalIsSum states.
Lengths(chunks) == [q \in Seqs |-> Len0(chunks[q])]

\* The sum of lengths as ChunkStore writes it, and as a function over subsets.
LEMMA SumOfLengths ==
  ASSUME NEW chunks
  PROVE  MapThenSumSet(LAMBDA q : Len0(chunks[q]), Seqs) = SumFcn(Lengths(chunks), Seqs)[Seqs]
<1> DEFINE g == Lengths(chunks)
           Rec(f, s) == IF s = {} THEN 0 ELSE Len0(chunks[Pick(s)]) + f[s \ {Pick(s)}]
<1>1. ASSUME NEW f
      PROVE  Summed(f, g, SUBSET Seqs) <=> f = [s \in SUBSET Seqs |-> Rec(f, s)]
  <2>1. \A s \in SUBSET Seqs : s # {} => g[Pick(s)] = Len0(chunks[Pick(s)])
    <3>1. \A s \in SUBSET Seqs : s # {} => Pick(s) \in Seqs
      BY DEF Pick
    <3>2. QED  BY <3>1 DEF Lengths
  <2> HIDE DEF g
  <2>2. [s \in SUBSET Seqs |-> IF s = {} THEN 0 ELSE g[Pick(s)] + f[s \ {Pick(s)}]]
            = [s \in SUBSET Seqs |-> Rec(f, s)]
    BY <2>1
  <2>3. QED  BY <2>2, Zenon DEF Summed
<1> HIDE DEF g
<1>2. (CHOOSE f : Summed(f, g, SUBSET Seqs))
            = (CHOOSE f : f = [s \in SUBSET Seqs |-> Rec(f, s)])
  BY <1>1, Zenon
<1>3. QED  BY <1>2, Zenon DEF MapThenSumSet, MapThenFoldSet, SumFcn, Pick, g

-----------------------------------------------------------------------------
\* The PCM of a complete chunk map is a sequence of bodies.
LEMMA CompletePCM ==
    ASSUME NEW chunks \in ChunkMap, NEW top \in Seqs, Held(chunks) = 0 .. top
    PROVE  PCM(chunks, top) \in Seq(Blobs)
<1>1. ASSUME NEW i \in 1 .. top + 1
      PROVE  chunks[i - 1] \in Blobs
  <2>1. i - 1 \in Held(chunks)  BY DEF Seqs
  <2>2. QED  BY <2>1 DEF Held, ChunkMap
<1>2. top + 1 \in Nat  BY DEF Seqs
<1>3. PCM(chunks, top) \in [1 .. top + 1 -> Blobs]  BY <1>1 DEF PCM
<1>4. QED  BY <1>2, <1>3

\* Storing an accepted body keeps the session well formed.
LEMMA StoredSession ==
    ASSUME NEW s \in Session, NEW q \in Seqs, NEW b \in Blobs
    PROVE  /\ Stored(s, q, b) \in Session
           /\ Stored(s, q, b).total = NewTotal(s, q, b)
           /\ Stored(s, q, b).chunks = [s.chunks EXCEPT ![q] = b]
<1>1. s.total \in Int /\ s.chunks \in ChunkMap /\ s.deviceID \in Devices
  BY DEF Session
<1>2. Len0(s.chunks[q]) \in Int  BY <1>1 DEF Len0, ChunkMap
<1>3. NewTotal(s, q, b) \in Int  BY <1>1, <1>2 DEF NewTotal
<1>4. [s.chunks EXCEPT ![q] = b] \in ChunkMap  BY <1>1 DEF ChunkMap
<1>5. QED  BY <1>1, <1>3, <1>4 DEF Stored, Session

-----------------------------------------------------------------------------
\* A live session was issued, holds what was acknowledged, and has handed
\* nothing over; an id not issued has no history.
LiveIsFresh ==
    \A u \in Uploads :
        /\ Live(u) => u \in issued /\ handed[u] = <<>> /\ sessions[u].chunks = acked[u]
        /\ u \notin issued => acked[u] = NoChunks /\ handed[u] = <<>>

\* The inductive invariant.
IInv == TypeOK /\ LiveIsFresh /\ HandedAtMostOnce /\ HandedIsAcked

LEMMA InitIInv == Init => IInv
BY DEF Init, IInv, TypeOK, LiveIsFresh, HandedAtMostOnce, HandedIsAcked, Live,
       ChunkMap, NoChunks

LEMMA NextIInv == IInv /\ [Next]_vars => IInv'
<1> SUFFICES ASSUME IInv, [Next]_vars PROVE IInv'
  OBVIOUS
<1> USE DEF IInv
<1>1. ASSUME NEW d \in Devices, Start(d) PROVE IInv'
  <2>1. PICK u \in Uploads \ issued :
            /\ issued' = issued \cup {u}
            /\ sessions' = [sessions EXCEPT ![u] = Opened(d)]
            /\ UNCHANGED <<acked, handed>>
    BY <1>1 DEF Start
  <2>2. Opened(d) \in Session /\ Opened(d).chunks = NoChunks /\ Opened(d).total = 0
    BY DEF Opened, Session, ChunkMap, NoChunks
  <2>3. TypeOK'  BY <2>1, <2>2 DEF TypeOK, Live
  <2>4. LiveIsFresh'  BY <2>1, <2>2 DEF LiveIsFresh, TypeOK, Live
  <2>5. HandedAtMostOnce' /\ HandedIsAcked'
    BY <2>1 DEF HandedAtMostOnce, HandedIsAcked
  <2>6. QED  BY <2>3, <2>4, <2>5
<1>2. ASSUME NEW d \in Devices, NEW u \in issued, NEW q \in Posted, NEW b \in Blobs,
             AppendOK(d, u, q, b)
      PROVE  IInv'
  <2>1. /\ u \in Uploads /\ q \in Seqs /\ Live(u)
        /\ NewTotal(sessions[u], q, b) <= MaxBytes
        /\ sessions' = [sessions EXCEPT ![u] = Stored(sessions[u], q, b)]
        /\ acked' = [acked EXCEPT ![u][q] = b]
        /\ UNCHANGED <<issued, handed>>
    BY <1>2 DEF AppendOK, Accepts, Owned, TypeOK
  <2>2. sessions[u] \in Session  BY <2>1 DEF TypeOK, Live
  <2>3. /\ Stored(sessions[u], q, b) \in Session
        /\ Stored(sessions[u], q, b).total = NewTotal(sessions[u], q, b)
        /\ Stored(sessions[u], q, b).chunks = [sessions[u].chunks EXCEPT ![q] = b]
    BY <2>1, <2>2, StoredSession
  <2>4. acked'[u] = [acked[u] EXCEPT ![q] = b] /\ acked'[u] \in ChunkMap
    BY <2>1 DEF TypeOK, ChunkMap
  <2>5. TypeOK'  BY <2>1, <2>3, <2>4 DEF TypeOK, Live
  <2>6. LiveIsFresh'  BY <2>1, <2>3, <2>4 DEF LiveIsFresh, TypeOK, Live
  <2>7. HandedAtMostOnce'  BY <2>1 DEF HandedAtMostOnce
  <2>8. HandedIsAcked'
    <3>1. handed[u] = <<>>  BY <2>1 DEF LiveIsFresh
    <3>2. \A w \in Uploads : w # u => acked'[w] = acked[w]  BY <2>1 DEF TypeOK
    <3>3. QED  BY <2>1, <3>1, <3>2 DEF HandedIsAcked
  <2>9. QED  BY <2>5, <2>6, <2>7, <2>8
<1>3. ASSUME NEW d \in Devices, NEW u \in issued, FinishOK(d, u) PROVE IInv'
  <2>1. PICK top \in Seqs :
            /\ Held(sessions[u].chunks) = 0 .. top
            /\ handed' = [handed EXCEPT ![u] = Append(@, PCM(sessions[u].chunks, top))]
    BY <1>3 DEF FinishOK, Complete
  <2>2. /\ u \in Uploads /\ Live(u)
        /\ sessions' = [sessions EXCEPT ![u] = NoSession]
        /\ UNCHANGED <<issued, acked>>
    BY <1>3 DEF FinishOK, Owned, TypeOK
  <2>3. handed[u] = <<>> /\ sessions[u].chunks = acked[u] /\ acked[u] \in ChunkMap
    BY <2>2 DEF LiveIsFresh, TypeOK
  <2>4. PCM(acked[u], top) \in Seq(Blobs)  BY <2>1, <2>3, CompletePCM
  <2>5. handed'[u] = <<PCM(acked[u], top)>>
    BY <2>1, <2>2, <2>3, <2>4 DEF TypeOK
  <2>6. \A w \in Uploads : w # u => handed'[w] = handed[w]
    BY <2>1 DEF TypeOK
  <2>7. handed'[u] \in Seq(Seq(Blobs)) /\ Len(handed'[u]) <= 1 /\ DOMAIN handed'[u] = {1}
    BY <2>4, <2>5
  <2>8. TypeOK'
    <3>1. handed' \in [Uploads -> Seq(Seq(Blobs))]
      BY <2>1, <2>6, <2>7 DEF TypeOK
    <3>2. QED  BY <2>2, <3>1 DEF TypeOK, Live
  <2>9. LiveIsFresh'  BY <2>2, <2>6 DEF LiveIsFresh, TypeOK, Live
  <2>10. HandedAtMostOnce'
    <3>1. SUFFICES ASSUME NEW w \in Uploads PROVE Len(handed'[w]) <= 1
      BY DEF HandedAtMostOnce
    <3>2. CASE w = u  BY <2>7, <3>2, Zenon
    <3>3. CASE w # u  BY <2>6, <3>3 DEF HandedAtMostOnce
    <3>4. QED  BY <3>2, <3>3
  <2>11. HandedIsAcked'
    BY <2>1, <2>2, <2>3, <2>5, <2>6, <2>7 DEF HandedIsAcked
  <2>12. QED  BY <2>8, <2>9, <2>10, <2>11
<1>4. ASSUME UNCHANGED <<issued, acked, handed>>,
             sessions' \in [Uploads -> Session \cup {NoSession}],
             \A u \in Uploads : Live(u)' =>
                /\ Live(u)
                /\ sessions'[u].chunks = sessions[u].chunks
                /\ sessions'[u].total = sessions[u].total
      PROVE  IInv'
  <2>1. TypeOK'  BY <1>4 DEF TypeOK, Live
  <2>2. LiveIsFresh'  BY <1>4 DEF LiveIsFresh, Live
  <2>3. HandedAtMostOnce' /\ HandedIsAcked'
    BY <1>4 DEF HandedAtMostOnce, HandedIsAcked
  <2>4. QED  BY <2>1, <2>2, <2>3
<1>5. ASSUME NEW d \in Devices, DropDevice(d) PROVE IInv'
  BY <1>4, <1>5 DEF DropDevice, TypeOK, Live
<1>6. ASSUME Sweep PROVE IInv'
  BY <1>4, <1>6 DEF Sweep, TypeOK, Live
<1>7. ASSUME Tick PROVE IInv'
  <2>1. ASSUME NEW s \in Session
        PROVE  Aged(s) \in Session /\ Aged(s).chunks = s.chunks /\ Aged(s).total = s.total
    BY DEF Aged, Session
  <2>2. QED  BY <1>4, <1>7, <2>1 DEF Tick, TypeOK, Live
<1>8. CASE UNCHANGED vars
  BY <1>8 DEF vars, TypeOK, LiveIsFresh, HandedAtMostOnce, HandedIsAcked, Live
<1>9. QED
  BY <1>1, <1>2, <1>3, <1>5, <1>6, <1>7, <1>8
     DEF Next, DeviceStep, AppendRefused, FinishRefused

\* The state keeps its type and no upload ever holds more than the cap counts.
THEOREM TypeCorrect == Spec => []TypeOK
<1>1. IInv => TypeOK  BY DEF IInv
<1>2. QED  BY InitIInv, NextIInv, <1>1, PTL DEF Spec

\* One upload becomes at most one turn, however many finishes are sent.
THEOREM OneTurnPerUpload == Spec => []HandedAtMostOnce
<1>1. IInv => HandedAtMostOnce  BY DEF IInv
<1>2. QED  BY InitIInv, NextIInv, <1>1, PTL DEF Spec

\* What is transcribed is exactly what was acknowledged, in order.
THEOREM TranscribedIsAcked == Spec => []HandedIsAcked
<1>1. IInv => HandedIsAcked  BY DEF IInv
<1>2. QED  BY InitIInv, NextIInv, <1>1, PTL DEF Spec

\* A session that is gone stays gone.
LEMMA StepNoResurrection ==
    TypeOK /\ [Next]_vars => [\A u \in issued : ~Live(u) => ~Live(u)']_vars
<1> SUFFICES ASSUME TypeOK, Next, NEW u \in issued, ~Live(u) PROVE ~Live(u)'
  OBVIOUS
<1>0. u \in Uploads /\ sessions[u] = NoSession  BY DEF TypeOK, Live
<1>1. ASSUME NEW d \in Devices, Start(d) PROVE ~Live(u)'
  BY <1>0, <1>1 DEF Start, TypeOK, Live
<1>2. ASSUME NEW d \in Devices, NEW w \in issued, NEW q \in Posted, NEW b \in Blobs,
             AppendOK(d, w, q, b)
      PROVE  ~Live(u)'
  BY <1>0, <1>2 DEF AppendOK, Accepts, Owned, TypeOK, Live
<1>3. ASSUME NEW d \in Devices, NEW w \in issued, FinishOK(d, w) PROVE ~Live(u)'
  BY <1>0, <1>3 DEF FinishOK, TypeOK, Live
<1>4. ASSUME NEW d \in Devices, DropDevice(d) PROVE ~Live(u)'
  BY <1>0, <1>4 DEF DropDevice, TypeOK, Live
<1>5. ASSUME Sweep PROVE ~Live(u)'  BY <1>0, <1>5 DEF Sweep, TypeOK, Live
<1>6. ASSUME Tick PROVE ~Live(u)'  BY <1>0, <1>6 DEF Tick, TypeOK, Live
<1>7. CASE UNCHANGED vars  BY <1>0, <1>7 DEF vars, Live
<1>8. QED
  BY <1>1, <1>2, <1>3, <1>4, <1>5, <1>6, <1>7
     DEF Next, DeviceStep, AppendRefused, FinishRefused

\* A chunk or a finish that arrives after the finish, the cancel or the sweep
\* of its upload revives nothing.
THEOREM GoneStaysGone == Spec => NoResurrection
BY TypeCorrect, StepNoResurrection, PTL DEF Spec, NoResurrection

\* What a request changes belongs to the device that made it: the other
\* sessions are not owned by it, and a new id is none that was in use.
LEMMA StepIsolation ==
  ASSUME TypeOK, NEW d \in Devices, DeviceStep(d),
         NEW u \in issued, Live(u), sessions[u].deviceID # d
  PROVE  sessions'[u] = sessions[u]
<1>0. u \in Uploads /\ sessions \in [Uploads -> Session \cup {NoSession}]
  BY DEF TypeOK
<1>1. CASE Start(d)  BY <1>0, <1>1 DEF Start
<1>2. ASSUME NEW w \in issued, NEW q \in Posted, NEW b \in Blobs,
             AppendOK(d, w, q, b)
      PROVE  sessions'[u] = sessions[u]
  BY <1>0, <1>2 DEF AppendOK, Accepts, Owned
<1>3. ASSUME NEW w \in issued, FinishOK(d, w) PROVE sessions'[u] = sessions[u]
  BY <1>0, <1>3 DEF FinishOK, Owned
<1>4. CASE DropDevice(d)  BY <1>0, <1>4 DEF DropDevice, Owned
<1>5. CASE UNCHANGED vars  BY <1>5 DEF vars
<1>6. QED
  BY <1>1, <1>2, <1>3, <1>4, <1>5 DEF DeviceStep, AppendRefused, FinishRefused

\* Whatever a device asks for, the uploads of the others stay as they are.
THEOREM OthersUntouched == Spec => Isolation
<1>1. TypeOK /\ [Next]_vars =>
        [\A d \in Devices : DeviceStep(d) =>
            \A u \in issued : Live(u) /\ sessions[u].deviceID # d
                => sessions'[u] = sessions[u]]_vars
  BY StepIsolation
<1>2. QED  BY <1>1, TypeCorrect, PTL DEF Spec, Isolation

-----------------------------------------------------------------------------
(* The running total.                                                      *)

\* The numbers a chunk may have are finitely many, so chunks can be summed.
LEMMA SeqsFinite == IsFiniteSet(Seqs)
BY FS_Interval DEF Seqs

LEMMA LengthsType ==
  ASSUME NEW chunks \in ChunkMap
  PROVE  Lengths(chunks) \in [Seqs -> Int] /\ Len0(Absent) = 0
         /\ \A q \in Seqs : Len0(chunks[q]) \in Nat
BY DEF Lengths, ChunkMap, Len0

\* What a session with these chunks should count.
Bytes(chunks) == SumFcn(Lengths(chunks), Seqs)[Seqs]

\* An empty session holds no bytes,
LEMMA BytesOfNone == Bytes(NoChunks) = 0
<1> DEFINE zero == [q \in Seqs |-> 0]
           C == {T \in SUBSET Seqs : SumFcn(zero, Seqs)[T] = 0}
<1>1. Lengths(NoChunks) = zero
  BY DEF Lengths, NoChunks, Len0
<1>2. ASSUME NEW T \in SUBSET Seqs, \A x \in T : T \ {x} \in C PROVE T \in C
  <2> HIDE DEF zero
  <2>1. /\ SumFcn(zero, Seqs)[{}] = 0
        /\ T # {} => Pick(T) \in T
                     /\ SumFcn(zero, Seqs)[T]
                            = zero[Pick(T)] + SumFcn(zero, Seqs)[T \ {Pick(T)}]
    BY SumRec, SeqsFinite
  <2>2. T # {} => zero[Pick(T)] = 0 /\ SumFcn(zero, Seqs)[T \ {Pick(T)}] = 0
    BY <2>1, <1>2 DEF zero
  <2>3. SumFcn(zero, Seqs)[T] = 0
    <3>1. CASE T = {}  BY <2>1, <3>1
    <3>2. CASE T # {}  BY <2>1, <2>2, <3>2
    <3>3. QED  BY <3>1, <3>2
  <2>4. QED  BY <2>3
<1>3. SUBSET Seqs \subseteq C
  <2> HIDE DEF C
  <2>1. QED  BY <1>2, SeqsFinite, SubsetInduction, Zenon
<1>4. QED  BY <1>1, <1>3 DEF Bytes

\* and a stored chunk adds its length, less that of the chunk it replaces.
LEMMA BytesOfStored ==
  ASSUME NEW chunks \in ChunkMap, NEW q \in Seqs, NEW b \in Blobs
  PROVE  Bytes([chunks EXCEPT ![q] = b]) = Bytes(chunks) + SizeOf[b] - Len0(chunks[q])
<1> DEFINE stored == [chunks EXCEPT ![q] = b]
           g == Lengths(chunks)
           h == Lengths(stored)
<1>1. stored \in ChunkMap
  BY DEF ChunkMap
<1>2. g \in [Seqs -> Int] /\ h \in [Seqs -> Int]
  <2> HIDE DEF stored
  <2>1. QED  BY <1>1, LengthsType
<1>3. g[q] = Len0(chunks[q]) /\ h[q] = SizeOf[b] /\ \A p \in Seqs \ {q} : h[p] = g[p]
  <2>1. b # Absent /\ stored[q] = b /\ \A p \in Seqs \ {q} : stored[p] = chunks[p]
    BY DEF ChunkMap
  <2> HIDE DEF stored
  <2>2. QED  BY <2>1 DEF Lengths, Len0
<1>4. SumFcn(h, Seqs)[Seqs] = SumFcn(g, Seqs)[Seqs] + h[q] - g[q]
  <2> HIDE DEF g, h
  <2>1. QED  BY <1>2, <1>3, SeqsFinite, SumReplace
<1>5. QED  BY <1>3, <1>4, Zenon DEF Bytes

TotalIsBytes == \A u \in Uploads : Live(u) => sessions[u].total = Bytes(sessions[u].chunks)

LEMMA TotalIsBytesIsSum == TotalIsBytes <=> TotalIsSum
BY SumOfLengths, Zenon DEF TotalIsBytes, TotalIsSum, Bytes

LEMMA NextTotal == TypeOK /\ TotalIsBytes /\ [Next]_vars => TotalIsBytes'
<1> SUFFICES ASSUME TypeOK, TotalIsBytes, [Next]_vars,
                    NEW u \in Uploads, Live(u)'
             PROVE  sessions'[u].total = Bytes(sessions'[u].chunks)
  BY DEF TotalIsBytes
<1>0. CASE Live(u) /\ sessions'[u].total = sessions[u].total
                   /\ sessions'[u].chunks = sessions[u].chunks
  BY <1>0 DEF TotalIsBytes
<1>1. ASSUME NEW d \in Devices, Start(d) PROVE sessions'[u].total = Bytes(sessions'[u].chunks)
  <2>1. PICK w \in Uploads \ issued : sessions' = [sessions EXCEPT ![w] = Opened(d)]
    BY <1>1 DEF Start
  <2>2. CASE u = w
    <3>1. sessions'[u].total = 0 /\ sessions'[u].chunks = NoChunks
      BY <2>1, <2>2 DEF TypeOK, Opened
    <3>2. QED  BY <3>1, BytesOfNone
  <2>3. CASE u # w  BY <1>0, <2>1, <2>3 DEF TypeOK, Live
  <2>4. QED  BY <2>2, <2>3
<1>2. ASSUME NEW d \in Devices, NEW w \in issued, NEW q \in Posted, NEW b \in Blobs,
             AppendOK(d, w, q, b)
      PROVE  sessions'[u].total = Bytes(sessions'[u].chunks)
  <2>1. /\ w \in Uploads /\ q \in Seqs /\ Live(w)
        /\ sessions' = [sessions EXCEPT ![w] = Stored(sessions[w], q, b)]
    BY <1>2 DEF AppendOK, Accepts, Owned, TypeOK
  <2>2. CASE u = w
    <3>1. sessions[u] \in Session
      BY <2>1, <2>2 DEF TypeOK, Live
    <3>2. sessions[u].chunks \in ChunkMap /\ sessions[u].total \in Int
      BY <3>1 DEF Session
    <3>3. /\ sessions'[u].total = sessions[u].total + SizeOf[b] - Len0(sessions[u].chunks[q])
          /\ sessions'[u].chunks = [sessions[u].chunks EXCEPT ![q] = b]
      BY <2>1, <2>2, <3>1, StoredSession DEF TypeOK, NewTotal
    <3>4. Bytes(sessions'[u].chunks)
            = Bytes(sessions[u].chunks) + SizeOf[b] - Len0(sessions[u].chunks[q])
      BY <2>1, <3>2, <3>3, BytesOfStored
    <3>5. sessions[u].total = Bytes(sessions[u].chunks)
      BY <2>1, <2>2 DEF TotalIsBytes
    <3>6. QED  BY <3>3, <3>4, <3>5
  <2>3. CASE u # w  BY <1>0, <2>1, <2>3 DEF TypeOK, Live
  <2>4. QED  BY <2>2, <2>3
<1>3. ASSUME NEW d \in Devices, NEW w \in issued, FinishOK(d, w)
      PROVE  sessions'[u].total = Bytes(sessions'[u].chunks)
  BY <1>0, <1>3 DEF FinishOK, TypeOK, Live
<1>4. ASSUME NEW d \in Devices, DropDevice(d)
      PROVE  sessions'[u].total = Bytes(sessions'[u].chunks)
  BY <1>0, <1>4 DEF DropDevice, TypeOK, Live
<1>5. CASE Sweep  BY <1>0, <1>5 DEF Sweep, TypeOK, Live
<1>6. CASE Tick
  <2>1. Live(u) /\ sessions'[u] = Aged(sessions[u]) /\ sessions[u] \in Session
    BY <1>6 DEF Tick, TypeOK, Live
  <2>2. Aged(sessions[u]).chunks = sessions[u].chunks /\ Aged(sessions[u]).total = sessions[u].total
    BY <2>1 DEF Aged, Session
  <2>3. QED  BY <1>0, <2>1, <2>2
<1>7. CASE UNCHANGED vars  BY <1>0, <1>7 DEF vars, Live
<1>8. QED
  BY <1>1, <1>2, <1>3, <1>4, <1>5, <1>6, <1>7
     DEF Next, DeviceStep, AppendRefused, FinishRefused

\* The total that the cap is compared with is the number of bytes the session
\* holds, whatever was overwritten or refused before.
THEOREM TotalIsHeld == Spec => []TotalIsSum
<1>1. Init => TotalIsBytes
  BY DEF Init, TotalIsBytes, Live
<1>2. TotalIsBytes => TotalIsSum
  BY TotalIsBytesIsSum
<1>3. QED  BY <1>1, <1>2, NextTotal, TypeCorrect, PTL DEF Spec

-----------------------------------------------------------------------------
(* The client of Uploader.                                                 *)

USE ClientAssumption DEF ClientAssumption

\* The client's variables, and the upload it holds: one, or none yet.
ClientType ==
    /\ me \in {"start", "post", "finish", "done"}
    /\ job \in Jobs
    /\ seq \in Nat /\ seq <= Len(job.clip) /\ tries \in {0, 1}
    /\ upl \subseteq issued /\ \A u, w \in upl : u = w
    /\ late \subseteq 0 .. Len(job.clip) - 1 /\ job.drop \notin late
    /\ faults \in Nat /\ swept \in BOOLEAN
    /\ me = "start" => upl = {} /\ seq = 0
    /\ me = "post" => seq < Len(job.clip)
    /\ upl = {} => late = {} /\ me \in {"start", "done"}

\* The upload belongs to the client and holds nothing but chunks of its clip;
\* every chunk before the current one, but the one left out, is in it.
UplIsClip ==
    \A u \in upl :
        /\ Live(u) => sessions[u].deviceID = Me
        /\ \A q \in Held(acked[u]) :
                q < Len(job.clip) /\ q # job.drop /\ acked[u][q] = job.clip[q + 1]
        /\ \A q \in 0 .. seq - 1 : q # job.drop => q \in Held(acked[u])

\* Where the client is in its clip, and that nothing is handed over before its
\* finish.  A client that cancels gets to chunk 1, and to the finish only with
\* the cancel carried out or lost.
Progress ==
    /\ me = "post" /\ CancelComes => seq <= 1
    /\ me = "finish" => seq = IF CancelComes THEN 1 ELSE Len(job.clip)
    /\ me = "finish" /\ CancelComes => faults > 0 \/ \A u \in upl : ~Live(u)
    /\ me # "done" => \A u \in upl : handed[u] = <<>>

\* The inductive invariant of a client and the store.
ClientInv == ClientType /\ UplIsClip /\ Progress /\ TurnIsRecording

\* What the definition of Jobs says of a job.
LEMMA JobFacts ==
  ASSUME NEW j \in Jobs
  PROVE  /\ j.clip \in Seq(Blobs) /\ Len(j.clip) \in Nat /\ Len(j.clip) > 0
         /\ j.drop \in Int /\ j.drop >= -1 /\ j.cancel \in BOOLEAN
         /\ j.who \in {"device", "bench"}
         /\ j.who = "device" => j.drop = -1 /\ j.cancel = FALSE
         /\ \A q \in 0 .. Len(j.clip) - 1 : j.clip[q + 1] \in Blobs
<1>1. j.clip \in Clips /\ j.drop \in -1 .. MaxCount - 1 /\ j.cancel \in BOOLEAN
      /\ j.who \in {"device", "bench"}
      /\ (j.who = "device" => j.drop = -1 /\ j.cancel = FALSE)
  <2>1. CASE j \in [who : {"device"}, clip : Clips, drop : {-1}, cancel : {FALSE}]
    <3>1. j.clip \in Clips /\ j.drop = -1 /\ j.cancel = FALSE /\ j.who = "device"
      BY <2>1
    <3>2. -1 \in -1 .. MaxCount - 1
      OBVIOUS
    <3>3. QED  BY <3>1, <3>2
  <2>2. CASE j \in [who : {"bench"}, clip : Clips, drop : -1 .. MaxCount - 1, cancel : BOOLEAN]
    BY <2>2
  <2>3. QED  BY <2>1, <2>2 DEF Jobs
<1>2. j.clip \in Seq(Blobs) /\ j.clip # <<>>
  BY <1>1
<1>3. Len(j.clip) \in Nat /\ Len(j.clip) > 0
  BY <1>2
<1>4. ASSUME NEW q \in 0 .. Len(j.clip) - 1 PROVE j.clip[q + 1] \in Blobs
  <2>1. q + 1 \in 1 .. Len(j.clip)  BY <1>3
  <2>2. QED  BY <1>2, <2>1
<1>5. QED  BY <1>1, <1>2, <1>3, <1>4

-----------------------------------------------------------------------------
(* What the store's operations do to the client's upload.                  *)

\* What an accepted post changes in the client's upload...
LEMMA AppendEffect ==
  ASSUME IInv, NEW u \in issued, NEW q, NEW b \in Blobs, AppendOK(Me, u, q, b)
  PROVE  /\ q \in Seqs /\ Live(u) /\ Live(u)' /\ sessions'[u].deviceID = Me
         /\ acked'[u] = [acked[u] EXCEPT ![q] = b]
         /\ Held(acked'[u]) = Held(acked[u]) \cup {q}
         /\ issued' = issued /\ handed' = handed
<1>1. /\ u \in Uploads /\ q \in Seqs /\ Live(u) /\ sessions[u].deviceID = Me
      /\ sessions' = [sessions EXCEPT ![u] = Stored(sessions[u], q, b)]
      /\ acked' = [acked EXCEPT ![u][q] = b]
      /\ issued' = issued /\ handed' = handed
  BY DEF AppendOK, Accepts, Owned, IInv, TypeOK
<1>2. sessions[u] \in Session /\ acked[u] \in ChunkMap
  BY <1>1 DEF IInv, TypeOK, Live
<1>3. Stored(sessions[u], q, b) \in Session /\ Stored(sessions[u], q, b).deviceID = Me
  BY <1>1, <1>2, StoredSession DEF Stored
<1>4. Live(u)' /\ sessions'[u].deviceID = Me
  BY <1>1, <1>3 DEF Live, IInv, TypeOK
<1>5. acked'[u] = [acked[u] EXCEPT ![q] = b]
  BY <1>1 DEF IInv, TypeOK
<1>6. Held(acked'[u]) = Held(acked[u]) \cup {q}
  BY <1>1, <1>2, <1>5 DEF Held, ChunkMap
<1>7. QED  BY <1>1, <1>4, <1>5, <1>6

\* ...and what the other devices, the janitor and time can change in it.
LEMMA OthersEffect ==
  ASSUME IInv, NEW u \in issued, Live(u) => sessions[u].deviceID = Me,
         \/ \E d \in Devices \ {Me} : DeviceStep(d)
         \/ Sweep
         \/ Tick
  PROVE  /\ acked'[u] = acked[u] /\ handed'[u] = handed[u] /\ issued \subseteq issued'
         /\ Live(u)' => Live(u) /\ sessions'[u].deviceID = Me
         /\ Live(u) /\ ~Expired(u) => Live(u)'
<1> DEFINE Kept1 == /\ acked'[u] = acked[u] /\ handed'[u] = handed[u] /\ issued \subseteq issued'
                    /\ Live(u)' => Live(u) /\ sessions'[u].deviceID = Me
                    /\ Live(u) /\ ~Expired(u) => Live(u)'
<1>0. u \in Uploads /\ TypeOK
  BY DEF IInv, TypeOK
<1>1. ASSUME NEW d \in Devices \ {Me}, DeviceStep(d) PROVE Kept1
  <2>1. CASE Start(d)
    BY <1>0, <2>1 DEF Start, TypeOK, Live
  <2>2. ASSUME NEW w \in issued, NEW q \in Posted, NEW b \in Blobs, AppendOK(d, w, q, b)
        PROVE  Kept1
    <3>1. /\ w # u /\ w \in Uploads /\ q \in Seqs
          /\ sessions' = [sessions EXCEPT ![w] = Stored(sessions[w], q, b)]
          /\ acked' = [acked EXCEPT ![w][q] = b]
          /\ UNCHANGED <<issued, handed>>
      BY <1>0, <2>2 DEF AppendOK, Accepts, Owned, TypeOK
    <3>2. QED  BY <1>0, <3>1 DEF TypeOK, Live
  <2>3. ASSUME NEW w \in issued, FinishOK(d, w) PROVE Kept1
    <3>1. PICK pcm :
              /\ w # u /\ w \in Uploads
              /\ handed' = [handed EXCEPT ![w] = pcm]
              /\ sessions' = [sessions EXCEPT ![w] = NoSession]
              /\ UNCHANGED <<issued, acked>>
      BY <1>0, <2>3 DEF FinishOK, Owned, TypeOK
    <3>2. QED  BY <1>0, <3>1 DEF TypeOK, Live
  <2>4. CASE DropDevice(d)
    BY <1>0, <2>4 DEF DropDevice, Owned, TypeOK, Live
  <2>5. CASE UNCHANGED vars
    BY <2>5 DEF vars, Live
  <2>6. QED
    BY <1>1, <2>1, <2>2, <2>3, <2>4, <2>5 DEF DeviceStep, AppendRefused, FinishRefused
<1>2. CASE Sweep
  BY <1>0, <1>2 DEF Sweep, TypeOK, Live, Expired
<1>3. CASE Tick
  <2>1. ASSUME Live(u)
        PROVE  sessions'[u] = Aged(sessions[u]) /\ Aged(sessions[u]) \in Session
               /\ Aged(sessions[u]).deviceID = sessions[u].deviceID
    <3>1. sessions[u] \in Session
      BY <1>0, <2>1 DEF TypeOK, Live
    <3>2. Aged(sessions[u]) \in Session /\ Aged(sessions[u]).deviceID = sessions[u].deviceID
      BY <3>1 DEF Aged, Session
    <3>3. QED  BY <1>0, <1>3, <2>1, <3>2 DEF Tick
  <2>2. ~Live(u) => ~Live(u)'
    BY <1>0, <1>3 DEF Tick, Live
  <2>3. UNCHANGED <<issued, acked, handed>>
    BY <1>3 DEF Tick
  <2>4. Live(u) => Live(u)' /\ sessions'[u].deviceID = Me
    BY <2>1 DEF Live
  <2>5. QED  BY <2>2, <2>3, <2>4
<1>4. QED  BY <1>1, <1>2, <1>3

-----------------------------------------------------------------------------
(* The client does nothing to the store that ChunkStore does not allow.    *)

\* Every step of the client is one of the store, or touches nothing of it.
LEMMA ClientStepIsStoreStep ==
  ASSUME ClientType, TypeOK, [UploadNext]_<<vars, clientVars>>
  PROVE  [Next]_vars
<1>0. Me \in Devices /\ upl \subseteq issued
  BY DEF ClientType
<1>1. ASSUME NEW u \in upl, NEW q \in 0 .. Len(job.clip) - 1,
             AppendOK(Me, u, q, job.clip[q + 1]) \/ AppendRefused(Me, u, q, job.clip[q + 1])
      PROVE  [Next]_vars
  <2>1. CASE AppendOK(Me, u, q, job.clip[q + 1])
    <3>1. q \in Posted /\ u \in issued /\ job.clip[q + 1] \in Blobs
      <4>1. job.clip[q + 1] \in Blobs
        BY JobFacts DEF ClientType
      <4>2. q \in Posted
        BY <2>1 DEF AppendOK, Accepts, Seqs, Posted
      <4>3. QED  BY <1>0, <4>1, <4>2
    <3>2. DeviceStep(Me)
      BY <2>1, <3>1 DEF DeviceStep
    <3>3. QED  BY <1>0, <3>2 DEF Next
  <2>2. CASE AppendRefused(Me, u, q, job.clip[q + 1])
    BY <2>2 DEF AppendRefused
  <2>3. QED  BY <1>1, <2>1, <2>2
<1>2. CASE StartPosted
  <2>1. Start(Me)
    BY <1>2 DEF StartPosted, Start
  <2>2. QED  BY <1>0, <2>1 DEF Next, DeviceStep
<1>3. CASE StartLost \/ Skip \/ ChunkLost \/ FinishLost \/ UNCHANGED <<vars, clientVars>>
  <2>1. UNCHANGED vars
    BY <1>3 DEF StartLost, Skip, ChunkLost, FinishLost
  <2>2. QED  BY <2>1
<1>4. CASE CancelMid
  BY <1>0, <1>4 DEF CancelMid, Next, DeviceStep
<1>5. CASE ChunkPosted
  <2>1. seq \in 0 .. Len(job.clip) - 1
    BY <1>5, JobFacts DEF ChunkPosted, Posting, ClientType
  <2>2. QED  BY <1>1, <1>5, <2>1 DEF ChunkPosted
<1>6. CASE FinishPosted
  <2>1. PICK u \in upl : FinishOK(Me, u) \/ FinishRefused(Me, u)
    BY <1>6 DEF FinishPosted
  <2>2. DeviceStep(Me)
    BY <1>0, <2>1 DEF DeviceStep
  <2>3. QED  BY <1>0, <2>2 DEF Next
<1>7. CASE Others
  BY <1>7 DEF Others, Next
<1>8. ASSUME NEW q \in late, LateArrives(q) PROVE [Next]_vars
  <2>1. q \in 0 .. Len(job.clip) - 1
    BY DEF ClientType
  <2>2. QED  BY <1>1, <1>8, <2>1 DEF LateArrives, LateBody
<1>9. QED  BY <1>2, <1>3, <1>4, <1>5, <1>6, <1>7, <1>8 DEF UploadNext, Mine

-----------------------------------------------------------------------------
(* The parts of the client's invariant, action by action.                  *)

\* Each step of the client, a late post and the other devices keep the client's
\* invariant.
LEMMA InitClientInv == Init /\ InitClient => ClientInv
<1> SUFFICES ASSUME Init, InitClient PROVE ClientInv
  OBVIOUS
<1>1. /\ job \in Jobs /\ me = "start" /\ seq = 0 /\ tries = 0 /\ upl = {}
      /\ late = {} /\ faults = 0 /\ swept = FALSE
  BY DEF InitClient, NoUpload
<1>2. Len(job.clip) \in Nat /\ Len(job.clip) > 0
  BY <1>1, JobFacts
<1>3. ClientType
  <2>1. swept \in BOOLEAN
    BY <1>1, Zenon
  <2>2. QED  BY <1>1, <1>2, <2>1 DEF ClientType
<1>4. UplIsClip /\ Progress /\ TurnIsRecording
  BY <1>1 DEF UplIsClip, Progress, TurnIsRecording
<1>5. QED  BY <1>3, <1>4 DEF ClientInv

\* The number moves on: to the next chunk, or to the finish after the last.
LEMMA NextSeqFacts ==
  ASSUME ClientType, seq < Len(job.clip), job' = job, NextSeq
  PROVE  /\ seq' = seq + 1 /\ tries' = 0 /\ seq' <= Len(job'.clip)
         /\ \/ me' = "post" /\ seq' < Len(job.clip) /\ said' = said
            \/ me' = "finish" /\ seq' = Len(job.clip) /\ said' = said
            \/ /\ me' = "done" /\ said' = "too_long"
               /\ job.who = "device" /\ seq + 1 > DeviceMax
<1>1. Len(job.clip) \in Nat /\ seq \in Nat
  BY JobFacts DEF ClientType
<1>2. CASE job.who = "device" /\ seq + 1 < Len(job.clip) /\ seq + 1 > DeviceMax
  BY <1>1, <1>2 DEF NextSeq, Ends
<1>3. CASE ~(job.who = "device" /\ seq + 1 < Len(job.clip) /\ seq + 1 > DeviceMax)
  <2>1. seq' = seq + 1 /\ tries' = 0 /\ said' = said
        /\ me' = IF seq + 1 < Len(job.clip) THEN "post" ELSE "finish"
    BY <1>3 DEF NextSeq
  <2>2. QED  BY <1>1, <2>1
<1>4. QED  BY <1>2, <1>3

\* After a failed post the client tries again once, or gives up.
LEMMA PostFailedFacts ==
  ASSUME NEW verdict, PostFailed(verdict)
  PROVE  /\ seq' = seq
         /\ \/ job.who = "device" /\ tries = 0 /\ tries' = 1 /\ me' = me /\ said' = said
            \/ job.who = "device" /\ tries # 0 /\ tries' = tries /\ me' = "done"
                /\ said' = "upload_gap"
            \/ job.who # "device" /\ tries' = tries /\ me' = "done" /\ said' = verdict
BY DEF PostFailed, Ends

\* A step that stores nothing under the upload leaves its part as it is, also
\* when the client goes past the chunk it leaves out.
LEMMA NothingStored ==
  ASSUME ClientInv, job' = job, upl' = upl,
         seq' = seq \/ (seq' = seq + 1 /\ seq = job.drop),
         \A u \in upl : /\ acked'[u] = acked[u]
                        /\ Live(u)' => Live(u) /\ sessions'[u].deviceID = Me
  PROVE  UplIsClip'
<1> SUFFICES ASSUME NEW u \in upl
             PROVE  /\ Live(u)' => sessions'[u].deviceID = Me
                    /\ \A q \in Held(acked'[u]) :
                          q < Len(job.clip) /\ q # job.drop /\ acked'[u][q] = job.clip[q + 1]
                    /\ \A q \in 0 .. seq' - 1 : q # job.drop => q \in Held(acked'[u])
  BY DEF UplIsClip, Held
<1>1. seq \in Nat
  BY DEF ClientInv, ClientType
<1>2. \A q \in 0 .. seq' - 1 : q # job.drop => q \in 0 .. seq - 1
  BY <1>1
<1>3. QED  BY <1>2 DEF ClientInv, UplIsClip

\* So does storing a chunk of the clip, be it the current one or a late one.
LEMMA ChunkStored ==
  ASSUME ClientInv, IInv, job' = job, upl' = upl,
         NEW q \in 0 .. Len(job.clip) - 1, q # job.drop,
         seq' = seq \/ (seq' = seq + 1 /\ seq = q),
         NEW u \in upl, AppendOK(Me, u, q, job.clip[q + 1])
  PROVE  UplIsClip' /\ issued' = issued /\ handed' = handed
<1>1. u \in issued /\ seq \in Nat /\ job \in Jobs /\ \A w \in upl : w = u
  BY DEF ClientInv, ClientType
<1>2. job.clip[q + 1] \in Blobs /\ Len(job.clip) \in Nat
  BY <1>1, JobFacts
<1>3. /\ q \in Seqs /\ sessions'[u].deviceID = Me
      /\ acked'[u] = [acked[u] EXCEPT ![q] = job.clip[q + 1]]
      /\ Held(acked'[u]) = Held(acked[u]) \cup {q}
      /\ issued' = issued /\ handed' = handed
  <2>1. PICK b \in Blobs : b = job.clip[q + 1]
    BY <1>2
  <2>2. AppendOK(Me, u, q, b)
    BY <2>1 DEF AppendOK, Accepts, Stored, NewTotal
  <2>3. /\ q \in Seqs /\ sessions'[u].deviceID = Me
        /\ acked'[u] = [acked[u] EXCEPT ![q] = b]
        /\ Held(acked'[u]) = Held(acked[u]) \cup {q}
        /\ issued' = issued /\ handed' = handed
    BY <1>1, <2>2, AppendEffect
  <2>4. QED  BY <2>1, <2>3
<1>4. acked[u] \in ChunkMap
  BY <1>1 DEF IInv, TypeOK
<1>5. ASSUME NEW r \in Held(acked[u]) \cup {q}
      PROVE  r < Len(job.clip) /\ r # job.drop /\ acked'[u][r] = job.clip[r + 1]
  <2>1. CASE r = q
    BY <1>2, <1>3, <1>4, <2>1 DEF ChunkMap
  <2>2. CASE r # q
    <3>1. r \in Held(acked[u]) /\ r \in Seqs
      BY <2>2 DEF Held
    <3>2. acked'[u][r] = acked[u][r]
      BY <1>3, <1>4, <2>2, <3>1 DEF ChunkMap
    <3>3. QED  BY <3>1, <3>2 DEF ClientInv, UplIsClip
  <2>3. QED  BY <2>1, <2>2
<1>6. ASSUME NEW r \in 0 .. seq' - 1, r # job.drop
      PROVE  r \in Held(acked[u]) \cup {q}
  BY <1>1, <1>6 DEF ClientInv, UplIsClip
<1>7. UplIsClip'
  <2> SUFFICES /\ sessions'[u].deviceID = Me
               /\ \A r \in Held(acked'[u]) :
                     r < Len(job.clip) /\ r # job.drop /\ acked'[u][r] = job.clip[r + 1]
               /\ \A r \in 0 .. seq' - 1 : r # job.drop => r \in Held(acked'[u])
    BY <1>1 DEF UplIsClip
  <2>1. QED  BY <1>3, <1>5, <1>6
<1>8. QED  BY <1>3, <1>7

\* A step that hands nothing over.
LEMMA NothingHanded ==
  ASSUME ClientInv, job' = job, upl' = upl, faults' = faults \/ faults' = faults + 1,
         \A u \in upl : handed'[u] = handed[u]
  PROVE  TurnIsRecording' /\ (CancelComes' <=> CancelComes)
<1>1. faults \in Nat
  BY DEF ClientInv, ClientType
<1>2. Sent' = Sent /\ (CancelComes' <=> CancelComes)
  BY DEF Sent, CancelComes
<1>3. QED  BY <1>1, <1>2 DEF ClientInv, TurnIsRecording

LEMMA StartInv ==
  ASSUME ClientInv, IInv, StartPosted \/ StartLost
  PROVE  ClientInv'
<1>1. upl = {} /\ seq = 0 /\ late = {} /\ job \in Jobs /\ faults \in Nat /\ swept \in BOOLEAN
      /\ tries \in {0, 1}
  BY DEF ClientInv, ClientType, StartPosted, StartLost
<1>2. Len(job.clip) \in Nat /\ Len(job.clip) > 0
  BY <1>1, JobFacts
<1>3. CASE upl' = {} /\ me' = "done" /\ (faults' = faults + 1)
  <2>1. UNCHANGED <<job, seq, tries, late, swept>>
    BY DEF StartPosted, StartLost
  <2>2. ClientType'
    BY <1>1, <1>2, <1>3, <2>1 DEF ClientType
  <2>3. UplIsClip' /\ Progress' /\ TurnIsRecording'
    BY <1>3 DEF UplIsClip, Progress, TurnIsRecording
  <2>4. QED  BY <2>2, <2>3 DEF ClientInv
<1>4. ASSUME NEW u \in Uploads \ issued,
             issued' = issued \cup {u}, sessions' = [sessions EXCEPT ![u] = Opened(Me)],
             upl' = {u}, me' = "post", faults' = faults,
             UNCHANGED <<acked, handed, job, seq, tries, late, swept>>
      PROVE  ClientInv'
  <2>1. acked[u] = NoChunks /\ handed[u] = <<>>
    BY DEF IInv, LiveIsFresh
  <2>2. Held(acked'[u]) = {} /\ sessions'[u].deviceID = Me
    BY <1>4, <2>1 DEF Held, NoChunks, Opened, IInv, TypeOK
  <2>3. ClientType'
    BY <1>1, <1>2, <1>4 DEF ClientType
  <2>4. UplIsClip'
    BY <1>1, <1>4, <2>2 DEF UplIsClip, Held
  <2>5. Progress' /\ TurnIsRecording'
    BY <1>1, <1>4, <2>1 DEF Progress, TurnIsRecording
  <2>6. QED  BY <2>3, <2>4, <2>5 DEF ClientInv
<1>5. CASE StartPosted
  <2>1. PICK u \in Uploads \ issued :
            /\ issued' = issued \cup {u}
            /\ sessions' = [sessions EXCEPT ![u] = Opened(Me)]
            /\ \/ me' = "post" /\ upl' = {u} /\ faults' = faults
               \/ me' = "done" /\ upl' = upl /\ faults' = faults + 1
            /\ UNCHANGED <<acked, handed, job, seq, tries, late, swept>>
    BY <1>5 DEF StartPosted, Ends, Lost, Kept
  <2>2. QED  BY <1>1, <1>3, <1>4, <2>1
<1>6. CASE StartLost
  BY <1>1, <1>3, <1>6 DEF StartLost, Ends, Lost
<1>7. QED  BY <1>5, <1>6

\* What the invariant says while the client is at work on its upload.
LEMMA AtWork ==
  ASSUME ClientInv
  PROVE  /\ seq \in Nat /\ Len(job.clip) \in Nat /\ Len(job.clip) > 0 /\ job \in Jobs
         /\ faults \in Nat /\ upl \subseteq issued /\ tries \in {0, 1}
         /\ job.drop \in Int /\ job.drop >= -1
         /\ me = "post" => seq < Len(job.clip)
         /\ job.who = "device" => ~CancelComes /\ ~job.cancel /\ job.drop = -1
         /\ CancelComes <=> job.cancel /\ Len(job.clip) > 1 /\ job.drop # 1
BY JobFacts DEF ClientInv, ClientType, CancelComes

LEMMA SkipInv == ASSUME ClientInv, Skip PROVE ClientInv'
<1>1. /\ me = "post" /\ job.drop = seq /\ NextSeq
      /\ UNCHANGED <<vars, job, upl, late, faults, swept>>
  BY DEF Skip, Dropped
<1>2. UNCHANGED <<sessions, acked, handed, issued>>
  BY <1>1 DEF vars
<1>3. /\ seq' = seq + 1 /\ tries' = 0 /\ seq' <= Len(job.clip)
      /\ \/ me' = "post" /\ seq' < Len(job.clip)
         \/ me' = "finish" /\ seq' = Len(job.clip)
         \/ me' = "done"
  BY <1>1, AtWork, NextSeqFacts DEF ClientInv
<1>4. ClientType'
  BY <1>1, <1>2, <1>3, AtWork DEF ClientInv, ClientType
<1>5. UplIsClip'
  <2>1. \A u \in upl : /\ acked'[u] = acked[u]
                       /\ Live(u)' => Live(u) /\ sessions'[u].deviceID = Me
    BY <1>2 DEF Live, ClientInv, UplIsClip
  <2>2. QED  BY <1>1, <1>3, <2>1, NothingStored
<1>6. TurnIsRecording' /\ (CancelComes' <=> CancelComes)
  BY <1>1, <1>2, NothingHanded
<1>7. Progress'
  <2>1. ASSUME CancelComes PROVE seq = 0 /\ me' # "finish"
    BY <1>1, <1>3, <2>1, AtWork DEF ClientInv, Progress
  <2>2. QED  BY <1>1, <1>2, <1>3, <1>6, <2>1 DEF ClientInv, Progress
<1>8. QED  BY <1>4, <1>5, <1>6, <1>7 DEF ClientInv

LEMMA CancelMidInv == ASSUME ClientInv, IInv, CancelMid PROVE ClientInv'
<1>1. /\ me = "post" /\ job.drop # seq /\ job.cancel /\ seq = 1 /\ me' = "finish"
      /\ UNCHANGED <<job, seq, tries, upl, said, late, swept>>
  BY DEF CancelMid, Dropped
<1>2. CancelComes
  BY <1>1, AtWork
<1>3. /\ UNCHANGED <<acked, handed, issued>>
      /\ \A u \in upl : Live(u)' => Live(u) /\ sessions'[u] = sessions[u]
      /\ \/ faults' = faults /\ \A u \in upl : ~Live(u)'
         \/ faults' = faults + 1
  <2>1. CASE DropDevice(Me) /\ faults' = faults
    BY <2>1, AtWork DEF DropDevice, Owned, Live, ClientInv, UplIsClip, IInv, TypeOK
  <2>2. CASE UNCHANGED vars /\ faults' = faults + 1
    BY <2>2 DEF vars, Live
  <2>3. QED  BY <2>1, <2>2 DEF CancelMid, Kept, Lost
<1>4. ClientType'
  BY <1>1, <1>3, AtWork DEF ClientInv, ClientType
<1>5. UplIsClip'
  <2>1. \A u \in upl : /\ acked'[u] = acked[u]
                       /\ Live(u)' => Live(u) /\ sessions'[u].deviceID = Me
    BY <1>3 DEF ClientInv, UplIsClip
  <2>2. QED  BY <1>1, <2>1, NothingStored
<1>6. TurnIsRecording' /\ (CancelComes' <=> CancelComes)
  BY <1>1, <1>3, NothingHanded
<1>7. Progress'
  BY <1>1, <1>2, <1>3, <1>6, AtWork DEF ClientInv, Progress
<1>8. QED  BY <1>4, <1>5, <1>6, <1>7 DEF ClientInv

\* A post that stored its chunk, or was refused, with the answer back or lost.
LEMMA ChunkPostedInv == ASSUME ClientInv, IInv, ChunkPosted PROVE ClientInv'
<1>1. /\ me = "post" /\ seq # job.drop /\ ~(job.cancel /\ seq = 1)
      /\ UNCHANGED <<job, upl, late, swept>>
  BY DEF ChunkPosted, Posting, Dropped
<1> DEFINE Failed == \E verdict : PostFailed(verdict)
<1>2. PICK u \in upl :
        \/ AppendOK(Me, u, seq, job.clip[seq + 1]) /\ (NextSeq \/ Failed) /\ (Kept \/ Lost)
        \/ AppendRefused(Me, u, seq, job.clip[seq + 1]) /\ Failed /\ (Kept \/ Lost)
  BY DEF ChunkPosted
<1>3. faults' = faults \/ faults' = faults + 1
  BY <1>2 DEF Kept, Lost
<1>4. /\ seq' = seq \/ seq' = seq + 1
      /\ seq' <= Len(job.clip) /\ tries' \in {0, 1}
      /\ \/ me' = "post" /\ seq' < Len(job.clip)
         \/ me' = "finish" /\ seq' = Len(job.clip)
         \/ me' = "done"
  <2>1. CASE NextSeq
    BY <1>1, <2>1, AtWork, NextSeqFacts DEF ClientInv
  <2>2. CASE Failed
    BY <1>1, <2>2, AtWork, PostFailedFacts
  <2>3. QED  BY <1>2, <2>1, <2>2
<1>5. UplIsClip' /\ issued' = issued /\ handed' = handed
  <2>1. CASE AppendOK(Me, u, seq, job.clip[seq + 1])
    <3>1. seq \in 0 .. Len(job.clip) - 1
      BY <1>1, AtWork
    <3>2. QED  BY <1>1, <1>4, <2>1, <3>1, ChunkStored
  <2>2. CASE AppendRefused(Me, u, seq, job.clip[seq + 1]) /\ Failed
    <3>1. UNCHANGED <<sessions, acked, handed, issued>>
      BY <2>2 DEF AppendRefused, vars
    <3>2. seq' = seq
      BY <2>2, PostFailedFacts
    <3>3. \A w \in upl : /\ acked'[w] = acked[w]
                         /\ Live(w)' => Live(w) /\ sessions'[w].deviceID = Me
      BY <3>1 DEF Live, ClientInv, UplIsClip
    <3>4. QED  BY <1>1, <3>1, <3>2, <3>3, NothingStored
  <2>3. QED  BY <1>2, <2>1, <2>2
<1>6. ClientType'
  BY <1>1, <1>3, <1>4, <1>5, AtWork DEF ClientInv, ClientType
<1>7. TurnIsRecording' /\ (CancelComes' <=> CancelComes)
  BY <1>1, <1>3, <1>5, NothingHanded
<1>8. Progress'
  <2>1. ASSUME CancelComes PROVE seq = 0 /\ me' # "finish"
    BY <1>1, <1>4, <2>1, AtWork DEF ClientInv, Progress
  <2>2. QED  BY <1>1, <1>4, <1>5, <1>7, <2>1 DEF ClientInv, Progress
<1>9. QED  BY <1>5, <1>6, <1>7, <1>8 DEF ClientInv

LEMMA ChunkLostInv == ASSUME ClientInv, ChunkLost PROVE ClientInv'
<1>1. /\ me = "post" /\ seq # job.drop
      /\ PostFailed("lost") /\ faults' = faults + 1
      /\ late' \in {late, late \cup {seq}}
      /\ UNCHANGED <<vars, job, upl, swept>>
  BY DEF ChunkLost, Posting, Dropped, Lost
<1>2. UNCHANGED <<sessions, acked, handed, issued>>
  BY <1>1 DEF vars
<1>3. seq' = seq /\ tries' \in {0, 1} /\ me' \in {me, "done"}
  BY <1>1, AtWork, PostFailedFacts
<1>4. ClientType'
  BY <1>1, <1>2, <1>3, AtWork DEF ClientInv, ClientType
<1>5. UplIsClip'
  <2>1. \A u \in upl : /\ acked'[u] = acked[u]
                       /\ Live(u)' => Live(u) /\ sessions'[u].deviceID = Me
    BY <1>2 DEF Live, ClientInv, UplIsClip
  <2>2. QED  BY <1>1, <1>3, <2>1, NothingStored
<1>6. TurnIsRecording' /\ (CancelComes' <=> CancelComes)
  BY <1>1, <1>2, NothingHanded
<1>7. Progress'
  BY <1>1, <1>2, <1>3, <1>6 DEF ClientInv, Progress
<1>8. QED  BY <1>4, <1>5, <1>6, <1>7 DEF ClientInv

LEMMA LateInv == ASSUME ClientInv, IInv, NEW q \in late, LateArrives(q) PROVE ClientInv'
<1>1. /\ UNCHANGED <<me, job, seq, tries, upl, said, faults, swept>>
      /\ late' = late \ {q}
  BY DEF LateArrives
<1>2. q \in 0 .. Len(job.clip) - 1 /\ q # job.drop
  BY DEF ClientInv, ClientType
<1>3. PICK u \in upl : AppendOK(Me, u, q, job.clip[q + 1]) \/ AppendRefused(Me, u, q, job.clip[q + 1])
  BY DEF LateArrives, LateBody
<1>4. /\ UplIsClip' /\ issued' = issued /\ handed' = handed
      /\ AppendRefused(Me, u, q, job.clip[q + 1]) \/ \A w \in upl : w = u /\ Live(w)
  <2>1. CASE AppendOK(Me, u, q, job.clip[q + 1])
    <3>1. Live(u) /\ \A w \in upl : w = u
      BY <2>1 DEF AppendOK, Accepts, Owned, ClientInv, ClientType
    <3>2. QED  BY <1>1, <1>2, <2>1, <3>1, ChunkStored
  <2>2. CASE AppendRefused(Me, u, q, job.clip[q + 1])
    <3>1. UNCHANGED <<sessions, acked, handed, issued>>
      BY <2>2 DEF AppendRefused, vars
    <3>2. \A w \in upl : /\ acked'[w] = acked[w]
                         /\ Live(w)' => Live(w) /\ sessions'[w].deviceID = Me
      BY <3>1 DEF Live, ClientInv, UplIsClip
    <3>3. QED  BY <1>1, <2>2, <3>1, <3>2, NothingStored
  <2>3. QED  BY <1>3, <2>1, <2>2
<1>5. ClientType'
  BY <1>1, <1>4 DEF ClientInv, ClientType
<1>6. TurnIsRecording' /\ (CancelComes' <=> CancelComes)
  BY <1>1, <1>4, NothingHanded
<1>7. Progress'
  <2>1. \A w \in upl : Live(w)' => Live(w)
    BY <1>4 DEF AppendRefused, vars, Live
  <2>2. QED  BY <1>1, <1>4, <1>6, <2>1 DEF ClientInv, Progress
<1>8. QED  BY <1>4, <1>5, <1>6, <1>7 DEF ClientInv

\* What a finish hands over is the clip: its chunks are there up to the end,
\* and one left out is not seen only when it is the last.
LEMMA CompleteIsSent ==
  ASSUME ClientInv, IInv, me = "finish", ~CancelComes, NEW u \in upl,
         NEW top \in Seqs, Held(acked[u]) = 0 .. top
  PROVE  PCM(acked[u], top) = Sent
<1>1. /\ seq = Len(job.clip) /\ Len(job.clip) \in Nat /\ Len(job.clip) > 0
      /\ job.clip \in Seq(Blobs) /\ job.drop \in Int /\ job.drop >= -1
  BY AtWork, JobFacts DEF ClientInv, Progress
<1>2. /\ \A q \in 0 .. top : q < Len(job.clip) /\ q # job.drop /\ acked[u][q] = job.clip[q + 1]
      /\ \A q \in 0 .. Len(job.clip) - 1 : q # job.drop => q \in 0 .. top
  BY <1>1 DEF ClientInv, UplIsClip
<1>3. top \in Nat /\ top < Len(job.clip)
  BY <1>2 DEF Seqs
<1>4. PCM(acked[u], top) = [i \in 1 .. top + 1 |-> job.clip[i]]
  <2>1. \A i \in 1 .. top + 1 : acked[u][i - 1] = job.clip[i]
    <3>1. \A i \in 1 .. top + 1 : i - 1 \in 0 .. top /\ (i - 1) + 1 = i
      BY <1>3
    <3>2. QED  BY <1>2, <3>1
  <2>2. QED  BY <2>1 DEF PCM
<1>5. CASE job.drop = Len(job.clip) - 1
  <2>1. top = Len(job.clip) - 2
    <3>1. top # Len(job.clip) - 1
      BY <1>2, <1>3, <1>5
    <3>2. top >= Len(job.clip) - 2
      <4>1. CASE Len(job.clip) > 1
        <5>1. Len(job.clip) - 2 \in 0 .. Len(job.clip) - 1 /\ Len(job.clip) - 2 # job.drop
          BY <1>1, <1>5, <4>1
        <5>2. Len(job.clip) - 2 \in 0 .. top
          BY <1>2, <5>1
        <5>3. QED  BY <1>3, <5>2
      <4>2. QED  BY <1>1, <1>3, <4>1
    <3>3. QED  BY <1>1, <1>3, <3>1, <3>2
  <2>2. Sent = SubSeq(job.clip, 1, top + 1)
    BY <1>1, <1>5, <2>1 DEF Sent
  <2>3. SubSeq(job.clip, 1, top + 1) = [i \in 1 .. top + 1 |-> job.clip[i]]
    BY <1>1, <1>3
  <2>4. QED  BY <1>4, <2>2, <2>3
<1>6. CASE job.drop # Len(job.clip) - 1
  <2>1. top = Len(job.clip) - 1
    <3>1. Len(job.clip) - 1 \in 0 .. Len(job.clip) - 1
      BY <1>1
    <3>2. Len(job.clip) - 1 \in 0 .. top
      BY <1>2, <1>6, <3>1
    <3>3. QED  BY <1>1, <1>3, <3>2
  <2>2. job.clip = [i \in 1 .. Len(job.clip) |-> job.clip[i]]
    BY <1>1
  <2>3. QED  BY <1>4, <1>6, <2>1, <2>2 DEF Sent
<1>7. QED  BY <1>5, <1>6

LEMMA FinishInv == ASSUME ClientInv, IInv, FinishPosted \/ FinishLost PROVE ClientInv'
<1>1. /\ me = "finish" /\ me' = "done"
      /\ UNCHANGED <<job, seq, tries, upl, late, swept>>
      /\ faults' = faults \/ faults' = faults + 1
  BY DEF FinishPosted, FinishLost, Ends, Kept, Lost
<1>2. CASE \E u \in upl : FinishOK(Me, u)
  <2>1. PICK u \in upl : FinishOK(Me, u)
    BY <1>2
  <2>2. u \in issued /\ u \in Uploads /\ \A w \in upl : w = u
    BY AtWork DEF ClientInv, ClientType, IInv, TypeOK
  <2>3. PICK top \in Seqs :
            /\ Held(sessions[u].chunks) = 0 .. top
            /\ handed' = [handed EXCEPT ![u] = Append(@, PCM(sessions[u].chunks, top))]
    BY <2>1 DEF FinishOK, Complete
  <2>4. /\ Live(u) /\ sessions' = [sessions EXCEPT ![u] = NoSession]
        /\ UNCHANGED <<issued, acked>>
    BY <2>1 DEF FinishOK, Owned
  <2>5. handed[u] = <<>> /\ sessions[u].chunks = acked[u]
    BY <2>2, <2>4 DEF IInv, LiveIsFresh
  <2>6. handed'[u] = <<PCM(acked[u], top)>>
    BY <2>2, <2>3, <2>5 DEF IInv, TypeOK
  <2>7. ~Live(u)'
    BY <2>2, <2>4 DEF Live, IInv, TypeOK
  <2>8. ClientType'
    BY <1>1, <2>4, AtWork DEF ClientInv, ClientType
  <2>9. UplIsClip'
    BY <1>1, <2>2, <2>4, <2>7, NothingStored
  <2>10. Progress'
    BY <1>1 DEF Progress
  <2>11. TurnIsRecording'
    <3>1. CASE CancelComes
      <4>1. faults > 0
        BY <1>1, <2>4, <3>1 DEF ClientInv, Progress
      <4>2. CancelComes' /\ faults' > 0
        BY <1>1, <3>1, <4>1, AtWork DEF CancelComes
      <4>3. QED  BY <4>2 DEF TurnIsRecording
    <3>2. CASE ~CancelComes
      <4>1. PCM(acked[u], top) = Sent
        BY <1>1, <2>3, <2>5, <3>2, CompleteIsSent
      <4>2. Sent' = Sent /\ ~CancelComes'
        BY <1>1, <3>2 DEF CancelComes, Sent
      <4>3. \A i \in DOMAIN handed'[u] : handed'[u][i] = Sent
        BY <2>6, <4>1
      <4>4. QED  BY <1>1, <2>2, <4>2, <4>3 DEF TurnIsRecording
    <3>3. QED  BY <3>1, <3>2
  <2>12. QED  BY <2>8, <2>9, <2>10, <2>11 DEF ClientInv
<1>3. CASE UNCHANGED vars
  <2>1. UNCHANGED <<sessions, acked, handed, issued>>
    BY <1>3 DEF vars
  <2>2. \A u \in upl : /\ acked'[u] = acked[u]
                       /\ Live(u)' => Live(u) /\ sessions'[u].deviceID = Me
    BY <2>1 DEF Live, ClientInv, UplIsClip
  <2>3. UplIsClip'
    BY <1>1, <2>2, NothingStored
  <2>4. ClientType'
    BY <1>1, <2>1, AtWork DEF ClientInv, ClientType
  <2>5. TurnIsRecording' /\ Progress'
    BY <1>1, <2>1, NothingHanded DEF Progress
  <2>6. QED  BY <2>3, <2>4, <2>5 DEF ClientInv
<1>4. QED
  BY <1>2, <1>3 DEF FinishPosted, FinishLost, FinishRefused

LEMMA OthersInv == ASSUME ClientInv, IInv, Others PROVE ClientInv'
<1>1. /\ UNCHANGED <<me, job, seq, tries, upl, said, late, faults>>
      /\ swept' = (swept \/ \E u \in upl : Expired(u))
  BY DEF Others
<1>2. ASSUME NEW u \in upl
      PROVE  /\ acked'[u] = acked[u] /\ handed'[u] = handed[u] /\ issued \subseteq issued'
             /\ Live(u)' => Live(u) /\ sessions'[u].deviceID = Me
  BY OthersEffect DEF Others, ClientInv, ClientType, UplIsClip
<1>3. upl \subseteq issued'
  BY <1>2, AtWork
<1>4. swept' \in BOOLEAN
  BY <1>1, Zenon
<1>5. ClientType'
  BY <1>1, <1>3, <1>4 DEF ClientInv, ClientType
<1>6. UplIsClip'
  BY <1>1, <1>2, NothingStored
<1>7. TurnIsRecording' /\ (CancelComes' <=> CancelComes)
  BY <1>1, <1>2, NothingHanded
<1>8. Progress'
  BY <1>1, <1>2, <1>7 DEF ClientInv, Progress
<1>9. QED  BY <1>5, <1>6, <1>7, <1>8 DEF ClientInv

LEMMA NextClientInv ==
  ClientInv /\ IInv /\ [UploadNext]_<<vars, clientVars>> => ClientInv' /\ IInv'
<1> SUFFICES ASSUME ClientInv, IInv, [UploadNext]_<<vars, clientVars>>
             PROVE  ClientInv' /\ IInv'
  OBVIOUS
<1>1. IInv'
  BY ClientStepIsStoreStep, NextIInv DEF ClientInv, IInv
<1>2. ClientInv'
  <2>1. CASE Mine
    BY <2>1, StartInv, SkipInv, CancelMidInv, ChunkPostedInv, ChunkLostInv, FinishInv DEF Mine
  <2>2. CASE Others
    BY <2>2, OthersInv
  <2>3. ASSUME NEW q \in late, LateArrives(q) PROVE ClientInv'
    BY <2>3, LateInv
  <2>4. CASE UNCHANGED <<vars, clientVars>>
    BY <2>4 DEF vars, clientVars, ClientInv, ClientType, UplIsClip, Progress, TurnIsRecording,
                Live, Held, CancelComes, Sent
  <2>5. QED  BY <2>1, <2>2, <2>3, <2>4 DEF UploadNext
<1>3. QED  BY <1>1, <1>2

LEMMA UploadInvariant == UploadSpec => [](ClientInv /\ IInv)
BY InitIInv, InitClientInv, NextClientInv, PTL DEF UploadSpec

\* Whatever is lost, retried or late, a client and the others together take the
\* store only through steps of ChunkStore: what is proved of its steps holds
\* with a client, too.
THEOREM ClientUsesStore == UploadSpec => Init /\ [][Next]_vars
<1>1. ClientInv /\ IInv /\ [UploadNext]_<<vars, clientVars>> => [Next]_vars
  BY ClientStepIsStoreStep DEF ClientInv, IInv
<1>2. QED  BY <1>1, UploadInvariant, PTL DEF UploadSpec

\* What becomes a turn is the recording, for every clip, whatever requests and
\* answers are lost, carried out twice or late, and whatever others do.
THEOREM TurnIsTheRecording == UploadSpec => []TurnIsRecording
<1>1. ClientInv => TurnIsRecording
  BY DEF ClientInv
<1>2. QED  BY <1>1, UploadInvariant, PTL

-----------------------------------------------------------------------------
(* A recording within the limits fits, chunk by chunk.                     *)

\* The bytes of a clip, as Small counts them.
Sizes(clip) == [i \in 1 .. Len(clip) |-> SizeOf[clip[i]]]
ClipBytes(clip) == SumFcn(Sizes(clip), 1 .. Len(clip))[1 .. Len(clip)]

\* A clip is small exactly if its chunks and its bytes are within the limits.
LEMMA SmallIsBytes ==
  Small <=> Len(job.clip) <= MaxCount /\ ClipBytes(job.clip) <= MaxBytes
<1> DEFINE I == 1 .. Len(job.clip)
           g == Sizes(job.clip)
           Rec(f, s) == IF s = {} THEN 0 ELSE SizeOf[job.clip[Pick(s)]] + f[s \ {Pick(s)}]
<1>1. ASSUME NEW f
      PROVE  Summed(f, g, SUBSET I) <=> f = [s \in SUBSET I |-> Rec(f, s)]
  <2>1. \A s \in SUBSET I : s # {} => g[Pick(s)] = SizeOf[job.clip[Pick(s)]]
    <3>1. \A s \in SUBSET I : s # {} => Pick(s) \in I
      BY DEF Pick
    <3>2. QED  BY <3>1 DEF Sizes
  <2> HIDE DEF g, I
  <2>2. [s \in SUBSET I |-> IF s = {} THEN 0 ELSE g[Pick(s)] + f[s \ {Pick(s)}]]
            = [s \in SUBSET I |-> Rec(f, s)]
    BY <2>1
  <2>3. QED  BY <2>2, Zenon DEF Summed
<1> HIDE DEF g
<1>2. (CHOOSE f : Summed(f, g, SUBSET I)) = (CHOOSE f : f = [s \in SUBSET I |-> Rec(f, s)])
  BY <1>1, Zenon
<1>3. MapThenSumSet(LAMBDA i : SizeOf[job.clip[i]], I) = ClipBytes(job.clip)
  BY <1>2, Zenon DEF MapThenSumSet, MapThenFoldSet, SumFcn, Pick, g, ClipBytes
<1>4. QED  BY <1>3, Zenon DEF Small

\* A chunk map with nothing in it but chunks of the clip holds no more bytes
\* than the clip has: number by number, as far as the clip goes.
LEMMA PartIsNoMore ==
  ASSUME NEW clip \in Seq(Blobs), Len(clip) <= MaxCount, NEW chunks \in ChunkMap,
         \A q \in Held(chunks) : q < Len(clip) /\ chunks[q] = clip[q + 1]
  PROVE  Bytes(chunks) <= ClipBytes(clip)
<1> DEFINE L == Len(clip)
           g == Lengths(chunks)
           h == Sizes(clip)
           F == SumFcn(g, Seqs)
           G == SumFcn(h, 1 .. L)
           Upto(n) == IF n <= L THEN 1 .. n ELSE 1 .. L
           N == {n \in Nat : n <= MaxCount => F[0 .. n - 1] <= G[Upto(n)]}
<1>0. L \in Nat /\ IsFiniteSet(1 .. L) /\ IsFiniteSet(Seqs)
  BY FS_Interval, SeqsFinite
<1>1. g \in [Seqs -> Int] /\ h \in [1 .. L -> Int]
  BY LengthsType DEF Sizes
<1>2. /\ \A T \in SUBSET Seqs : F[T] \in Int
      /\ \A T \in SUBSET (1 .. L) : G[T] \in Int
  BY <1>0, <1>1, SumType
<1>3. \A T \in SUBSET Seqs : \A x \in T : F[T] = g[x] + F[T \ {x}]
  BY <1>0, <1>1, SumRemove
<1>4. \A T \in SUBSET (1 .. L) : \A x \in T : G[T] = h[x] + G[T \ {x}]
  BY <1>0, <1>1, SumRemove
<1>5. F[{}] = 0 /\ G[{}] = 0
  BY <1>0, SumRec
<1>6. ASSUME NEW q \in Seqs PROVE g[q] = 0 \/ (q < L /\ g[q] = h[q + 1])
  <2>1. CASE chunks[q] = Absent
    BY <2>1 DEF Lengths, Len0
  <2>2. CASE chunks[q] # Absent
    <3>1. q \in Held(chunks)
      BY <2>2 DEF Held
    <3>2. q < L /\ chunks[q] = clip[q + 1] /\ q + 1 \in 1 .. L
      BY <1>0, <3>1 DEF Seqs
    <3>3. QED  BY <2>2, <3>2 DEF Lengths, Len0, Sizes
  <2>3. QED  BY <2>1, <2>2
<1>7. \A i \in 1 .. L : h[i] \in Nat
  <2>1. \A i \in 1 .. L : clip[i] \in Blobs
    OBVIOUS
  <2>2. QED  BY <2>1 DEF Sizes
<1> HIDE DEF g, h, F, G
<1>8. 0 \in N
  <2>1. 0 .. 0 - 1 = {} /\ Upto(0) = {}
    BY <1>0
  <2> HIDE DEF Upto
  <2>2. F[0 .. 0 - 1] = 0 /\ G[Upto(0)] = 0
    BY <1>5, <2>1, Zenon
  <2>3. QED  BY <2>2
<1>9. ASSUME NEW n \in Nat, n \in N PROVE n + 1 \in N
  <2> SUFFICES ASSUME n + 1 <= MaxCount PROVE F[0 .. (n + 1) - 1] <= G[Upto(n + 1)]
    OBVIOUS
  <2>1. /\ n \in Seqs /\ 0 .. (n + 1) - 1 \in SUBSET Seqs /\ n \in 0 .. (n + 1) - 1
        /\ (0 .. (n + 1) - 1) \ {n} = 0 .. n - 1 /\ 0 .. n - 1 \in SUBSET Seqs
    BY DEF Seqs
  <2>2. F[0 .. (n + 1) - 1] = g[n] + F[0 .. n - 1] /\ F[0 .. n - 1] \in Int /\ g[n] \in Int
    <3>1. \A T, U \in SUBSET Seqs : n \in T /\ T \ {n} = U => F[T] = g[n] + F[U] /\ F[U] \in Int
      BY <1>2, <1>3
    <3>2. F[0 .. (n + 1) - 1] = g[n] + F[0 .. n - 1] /\ F[0 .. n - 1] \in Int
      BY <2>1, <3>1, Zenon
    <3>3. QED  BY <1>1, <2>1, <3>2
  <2>3. F[0 .. n - 1] <= G[Upto(n)]
    BY <1>9
  <2>4. CASE n < L
    <3>1. /\ Upto(n) = 1 .. n /\ Upto(n + 1) = 1 .. n + 1
          /\ n + 1 \in 1 .. n + 1 /\ n + 1 \in 1 .. L
          /\ 1 .. n \in SUBSET (1 .. L) /\ 1 .. n + 1 \in SUBSET (1 .. L)
          /\ (1 .. n + 1) \ {n + 1} = 1 .. n
      BY <1>0, <2>4
    <3>2. G[1 .. n + 1] = h[n + 1] + G[1 .. n] /\ G[1 .. n] \in Int
      <4>1. \A x \in 1 .. L : \A T, U \in SUBSET (1 .. L) :
                x \in T /\ T \ {x} = U => G[T] = h[x] + G[U] /\ G[U] \in Int
        BY <1>2, <1>4
      <4>2. \A T, U \in SUBSET (1 .. L) :
                n + 1 \in T /\ T \ {n + 1} = U => G[T] = h[n + 1] + G[U] /\ G[U] \in Int
        BY <3>1, <4>1
      <4>3. QED  BY <3>1, <4>2, Zenon
    <3>3. h[n + 1] \in Nat /\ g[n] <= h[n + 1]
      <4>1. h[n + 1] \in Nat
        BY <1>7, <3>1
      <4>2. g[n] = 0 \/ g[n] = h[n + 1]
        BY <1>6, <2>1
      <4>3. QED  BY <4>1, <4>2
    <3> HIDE DEF Upto, N
    <3>4. QED  BY <2>2, <2>3, <3>1, <3>2, <3>3
  <2>5. CASE ~(n < L)
    <3>1. Upto(n) = 1 .. L /\ Upto(n + 1) = 1 .. L
      BY <1>0, <2>5
    <3>2. g[n] = 0 /\ G[1 .. L] \in Int
      BY <1>2, <1>6, <2>1, <2>5
    <3> HIDE DEF Upto, N
    <3>3. QED  BY <2>2, <2>3, <3>1, <3>2
  <2>6. QED  BY <2>4, <2>5
<1>10. MaxCount \in N
  <2>1. Nat \subseteq N
    <3> HIDE DEF N
    <3>1. QED  BY <1>8, <1>9, SetInduction
  <2>2. QED  BY <2>1
<1>11. F[Seqs] <= G[Upto(MaxCount)]
  BY <1>10 DEF Seqs
<1>12. Upto(MaxCount) = 1 .. L
  BY <1>0
<1> HIDE DEF Upto, N
<1>13. F[Seqs] <= G[1 .. L]
  BY <1>11, <1>12
<1>14. QED  BY <1>13 DEF F, G, g, h, Bytes, ClipBytes

\* Within the limits the store accepts every chunk of the clip for a live
\* upload, also one it holds already.
LEMMA Fitting ==
  ASSUME ClientInv, IInv, TotalIsBytes, Small, NEW u \in upl, Live(u),
         NEW q \in 0 .. Len(job.clip) - 1
  PROVE  Accepts(Me, u, q, job.clip[q + 1])
<1> DEFINE Part(chunks, clip) ==
               \A r \in Held(chunks) : r < Len(clip) /\ chunks[r] = clip[r + 1]
<1>1. /\ u \in Uploads /\ sessions[u] \in Session /\ sessions[u].deviceID = Me
      /\ sessions[u].chunks = acked[u] /\ sessions[u].total = Bytes(sessions[u].chunks)
      /\ sessions[u].chunks \in ChunkMap
  <2>1. u \in Uploads
    BY AtWork DEF IInv, TypeOK
  <2>2. sessions[u] \in Session
    BY <2>1 DEF IInv, TypeOK, Live
  <2>3. sessions[u].chunks \in ChunkMap
    BY <2>2 DEF Session
  <2>4. QED
    BY <2>1, <2>2, <2>3 DEF IInv, LiveIsFresh, TotalIsBytes, ClientInv, UplIsClip
<1>2. Part(sessions[u].chunks, job.clip)
  BY <1>1 DEF ClientInv, UplIsClip
<1>3. PICK clip \in Seq(Blobs) : clip = job.clip
  BY AtWork, JobFacts
<1>4. PICK chunks \in ChunkMap : chunks = sessions[u].chunks
  BY <1>1
<1>5. PICK p \in 0 .. Len(clip) - 1 : p = q
  BY <1>3
<1>6. Len(clip) \in Nat /\ Len(clip) <= MaxCount /\ ClipBytes(clip) <= MaxBytes
  BY <1>3, SmallIsBytes
<1>7. p \in Seqs /\ clip[p + 1] \in Blobs
  <2>1. p + 1 \in 1 .. Len(clip)
    BY <1>6
  <2>2. QED  BY <1>6, <2>1 DEF Seqs
<1> DEFINE stored == [chunks EXCEPT ![p] = clip[p + 1]]
<1>8. stored \in ChunkMap
  BY <1>7 DEF ChunkMap
<1>9. Part(stored, clip)
  <2>1. Part(chunks, clip)
    BY <1>2, <1>3, <1>4
  <2> SUFFICES ASSUME NEW r \in Held(stored)
               PROVE  r < Len(clip) /\ stored[r] = clip[r + 1]
    OBVIOUS
  <2>2. r \in Seqs /\ stored[r] # Absent
    BY DEF Held
  <2>3. CASE r = p
    BY <1>6, <1>7, <2>3 DEF ChunkMap
  <2>4. CASE r # p
    <3>1. stored[r] = chunks[r] /\ r \in Held(chunks)
      BY <1>7, <2>2, <2>4 DEF ChunkMap, Held
    <3>2. QED  BY <2>1, <3>1
  <2>5. QED  BY <2>3, <2>4
<1>10. Bytes(stored) <= MaxBytes
  <2>1. Bytes(stored) <= ClipBytes(clip)
    <3> HIDE DEF stored
    <3>1. QED  BY <1>6, <1>8, <1>9, PartIsNoMore
  <2>2. Bytes(stored) \in Int
    <3> HIDE DEF stored
    <3>1. Lengths(stored) \in [Seqs -> Int]
      BY <1>8, LengthsType
    <3>2. \A T \in SUBSET Seqs : SumFcn(Lengths(stored), Seqs)[T] \in Int
      BY <3>1, SeqsFinite, SumType
    <3>3. QED  BY <3>2 DEF Bytes
  <2>3. ClipBytes(clip) \in Int
    <3>1. \A i \in 1 .. Len(clip) : clip[i] \in Blobs
      OBVIOUS
    <3>2. Sizes(clip) \in [1 .. Len(clip) -> Int]
      BY <3>1 DEF Sizes
    <3>3. IsFiniteSet(1 .. Len(clip))
      BY <1>6, FS_Interval
    <3>4. \A T \in SUBSET (1 .. Len(clip)) : SumFcn(Sizes(clip), 1 .. Len(clip))[T] \in Int
      BY <3>2, <3>3, SumType
    <3>5. QED  BY <3>4 DEF ClipBytes
  <2>4. QED  BY <1>6, <2>1, <2>2, <2>3
<1>11. NewTotal(sessions[u], q, job.clip[q + 1]) = Bytes(stored)
  <2>1. Bytes(stored) = Bytes(chunks) + SizeOf[clip[p + 1]] - Len0(chunks[p])
    BY <1>7, BytesOfStored
  <2>2. NewTotal(sessions[u], q, job.clip[q + 1])
            = Bytes(chunks) + SizeOf[clip[p + 1]] - Len0(chunks[p])
    BY <1>1, <1>3, <1>4, <1>5, Zenon DEF NewTotal
  <2>3. QED  BY <2>1, <2>2
<1>12. QED
  BY <1>1, <1>5, <1>7, <1>10, <1>11 DEF Accepts, Owned

-----------------------------------------------------------------------------
(* What the client is told.                                                *)

Undisturbed == Small /\ ~swept

\* What VerdictDeserved says of a client that has ended.
Told ==
    me = "done" /\ Undisturbed =>
        \/ said = Deserved
        \/ faults > 0 /\ said \in {"failed", "lost"}
        \/ faults > 1 /\ said = "upload_gap"
        \/ faults > 0 /\ CancelComes /\ said \in {"turn", "silence"}

\* A client that is not disturbed keeps its upload until it finishes or cancels
\* it, and posts a chunk again only after something was lost.  The bench program
\* has no post under way while it goes on, so the store holds nothing beyond
\* the chunk it is at.
VerdictInv ==
    /\ said # "too_long"
    /\ tries = 1 => job.who = "device" /\ (Undisturbed => faults > 0)
    /\ Undisturbed /\ me = "post" => \A u \in upl : Live(u)
    /\ Undisturbed /\ me = "finish" => CancelComes \/ \A u \in upl : Live(u)
    /\ me # "done" /\ job.who = "bench" =>
        late = {} /\ \A u \in upl : Held(acked[u]) \subseteq 0 .. seq - 1
    /\ Told

\* What depends on the job alone.
LEMMA JobKept ==
  ASSUME job' = job
  PROVE  (Small' <=> Small) /\ (CancelComes' <=> CancelComes) /\ Deserved' = Deserved
<1>1. CancelComes' <=> CancelComes
  BY DEF CancelComes
<1>2. Small' <=> Small
  <2>1. Small' <=> (Len(job.clip) <= MaxCount /\ ClipBytes(job.clip) <= MaxBytes)'
    BY SmallIsBytes, PTL
  <2>2. QED  BY <2>1, SmallIsBytes
<1>3. QED  BY <1>1, <1>2 DEF Deserved

\* A client that goes on with the upload it has, without an end.
LEMMA GoesOn ==
  ASSUME ClientInv, VerdictInv, UNCHANGED <<job, upl, late, said>>, me' # "done",
         swept = swept',
         tries' = 1 => job.who = "device" /\ (Undisturbed => faults' > 0),
         Undisturbed => \A u \in upl : Live(u)' \/ (me' = "finish" /\ CancelComes),
         job.who = "bench" =>
            late' = {} /\ \A u \in upl : Held(acked'[u]) \subseteq 0 .. seq' - 1
  PROVE  VerdictInv'
<1>1. (Undisturbed' <=> Undisturbed) /\ (CancelComes' <=> CancelComes)
  BY JobKept DEF Undisturbed
<1>2. Told'
  BY DEF Told
<1>3. said' # "too_long"
  BY DEF VerdictInv
<1>4. QED  BY <1>1, <1>2, <1>3 DEF VerdictInv, Held

\* A client that ends, with a verdict that the loss explains.
LEMMA EndsWithLoss ==
  ASSUME ClientInv, VerdictInv, UNCHANGED <<job, swept>>, me' = "done",
         tries' = 1 => job.who = "device" /\ (Undisturbed => faults' > 0),
         \/ said' \in {"failed", "lost"} /\ faults' > 0
         \/ said' = "upload_gap" /\ (Undisturbed => faults' > 1)
  PROVE  VerdictInv'
<1>1. Undisturbed' <=> Undisturbed
  BY JobKept DEF Undisturbed
<1>2. Told'
  BY <1>1 DEF Told
<1>3. QED  BY <1>1, <1>2 DEF VerdictInv

\* The same steps, for the verdict the client will give.
LEMMA InitVerdict == Init /\ InitClient => VerdictInv
BY DEF Init, InitClient, NoUpload, VerdictInv, Told

LEMMA StartVerdict ==
  ASSUME ClientInv, IInv, VerdictInv, StartPosted \/ StartLost
  PROVE  VerdictInv'
<1>1. /\ me = "start" /\ upl = {} /\ seq = 0
      /\ UNCHANGED <<job, seq, tries, late, swept>> /\ faults \in Nat
  BY DEF StartPosted, StartLost, ClientInv, ClientType
<1>2. CASE me' = "done" /\ said' = "failed" /\ faults' = faults + 1
  <2>1. faults' > 0 /\ (tries' = 1 => job.who = "device")
    BY <1>1, <1>2 DEF VerdictInv
  <2>2. QED  BY <1>1, <1>2, <2>1, EndsWithLoss
<1>3. ASSUME NEW u \in Uploads \ issued,
             sessions' = [sessions EXCEPT ![u] = Opened(Me)],
             upl' = {u}, me' = "post", UNCHANGED <<acked, said, faults>>
      PROVE  VerdictInv'
  <2>1. acked[u] = NoChunks
    BY DEF IInv, LiveIsFresh
  <2>2. Held(acked'[u]) = {}
    BY <1>3, <2>1 DEF Held, NoChunks
  <2>3. Live(u)'
    <3>1. Opened(Me) \in Session
      <4>1. NoChunks \in ChunkMap /\ 0 \in 0 .. TTL + 1
        BY DEF NoChunks, ChunkMap
      <4>2. QED  BY <4>1 DEF Opened, Session
    <3>2. QED  BY <1>3, <3>1 DEF Live, IInv, TypeOK
  <2>4. (Undisturbed' <=> Undisturbed) /\ Told' /\ said' # "too_long"
    BY <1>1, <1>3, JobKept DEF Undisturbed, Told, VerdictInv
  <2>5. QED  BY <1>1, <1>3, <2>2, <2>3, <2>4 DEF VerdictInv, Held
<1>4. CASE StartPosted
  <2>1. PICK u \in Uploads \ issued :
            /\ sessions' = [sessions EXCEPT ![u] = Opened(Me)]
            /\ \/ me' = "post" /\ upl' = {u} /\ UNCHANGED <<said, faults>>
               \/ me' = "done" /\ said' = "failed" /\ faults' = faults + 1
            /\ UNCHANGED acked
    BY <1>4 DEF StartPosted, Ends, Lost, Kept
  <2>2. QED  BY <1>2, <1>3, <2>1
<1>5. CASE StartLost
  BY <1>2, <1>5 DEF StartLost, Ends, Lost
<1>6. QED  BY <1>4, <1>5

\* The device does not come to its own limit: the relay refuses before.
LEMMA NotTooLong ==
  ASSUME DeviceMax >= MaxCount, ClientInv, me = "post", job' = job, NextSeq,
         job.who = "device" => seq \in Seqs
  PROVE  /\ seq' = seq + 1 /\ tries' = 0 /\ said' = said
         /\ me' \in {"post", "finish"} /\ me' # "done"
BY NextSeqFacts, AtWork DEF Seqs, ClientInv

LEMMA SkipVerdict ==
  ASSUME DeviceMax >= MaxCount, ClientInv, VerdictInv, Skip
  PROVE  VerdictInv'
<1>1. /\ me = "post" /\ job.drop = seq /\ NextSeq
      /\ UNCHANGED <<vars, job, upl, late, faults, swept>>
  BY DEF Skip, Dropped
<1>2. job.who # "device" /\ seq \in Nat
  BY <1>1, AtWork
<1>3. seq' = seq + 1 /\ tries' = 0 /\ said' = said /\ me' # "done"
  BY <1>1, <1>2, NotTooLong
<1>4. \A u \in upl : (Live(u)' <=> Live(u)) /\ acked'[u] = acked[u]
  BY <1>1 DEF vars, Live
<1>5. job.who = "bench" =>
          late' = {} /\ \A u \in upl : Held(acked'[u]) \subseteq 0 .. seq' - 1
  BY <1>1, <1>2, <1>3, <1>4 DEF VerdictInv, Held
<1>6. QED  BY <1>1, <1>3, <1>4, <1>5, GoesOn DEF VerdictInv

LEMMA CancelMidVerdict ==
  ASSUME ClientInv, VerdictInv, CancelMid
  PROVE  VerdictInv'
<1>1. /\ me = "post" /\ job.drop # seq /\ job.cancel /\ seq = 1 /\ me' = "finish"
      /\ UNCHANGED <<job, seq, tries, upl, said, late, swept>>
      /\ acked' = acked /\ (faults' = faults \/ faults' = faults + 1)
  BY DEF CancelMid, Dropped, DropDevice, vars, Lost, Kept
<1>2. CancelComes /\ job.who # "device" /\ faults \in Nat
  BY <1>1, AtWork
<1>3. tries' # 1
  BY <1>1, <1>2 DEF VerdictInv
<1>4. job.who = "bench" =>
          late' = {} /\ \A u \in upl : Held(acked'[u]) \subseteq 0 .. seq' - 1
  BY <1>1 DEF VerdictInv, Held
<1>5. QED  BY <1>1, <1>2, <1>3, <1>4, GoesOn

\* The retry of the device, or the end of a client, after a request was lost.
LEMMA LostVerdict ==
  ASSUME ClientInv, VerdictInv, me = "post", PostFailed("lost"), faults' = faults + 1,
         UNCHANGED <<job, upl, swept>>,
         job.who = "device" => \A u \in upl : Live(u) => Live(u)'
  PROVE  VerdictInv'
<1>1. faults \in Nat /\ tries \in {0, 1} /\ job.who \in {"device", "bench"}
  BY AtWork, JobFacts
<1>2. CASE job.who = "device" /\ tries = 0
  <2>1. tries' = 1 /\ me' = "post" /\ said' = said
    BY <1>2, PostFailedFacts
  <2>2. (Undisturbed' <=> Undisturbed) /\ (CancelComes' <=> CancelComes)
    BY JobKept DEF Undisturbed
  <2>3. Undisturbed => \A u \in upl : Live(u)'
    BY <1>2 DEF VerdictInv
  <2>4. QED  BY <1>1, <1>2, <2>1, <2>2, <2>3 DEF VerdictInv, Told
<1>3. CASE ~(job.who = "device" /\ tries = 0)
  <2>1. /\ me' = "done" /\ tries' = tries
        /\ said' = IF job.who = "device" THEN "upload_gap" ELSE "lost"
    BY <1>1, <1>3, PostFailedFacts
  <2>2. Undisturbed /\ job.who = "device" => faults' > 1
    BY <1>1, <1>3 DEF VerdictInv
  <2>3. tries' = 1 => job.who = "device" /\ (Undisturbed => faults' > 0)
    BY <1>1, <2>1 DEF VerdictInv
  <2>4. \/ said' \in {"failed", "lost"} /\ faults' > 0
        \/ said' = "upload_gap" /\ (Undisturbed => faults' > 1)
    BY <1>1, <2>1, <2>2
  <2>5. QED  BY <2>1, <2>3, <2>4, EndsWithLoss
<1>4. QED  BY <1>2, <1>3

LEMMA ChunkLostVerdict == ASSUME ClientInv, VerdictInv, ChunkLost PROVE VerdictInv'
BY LostVerdict DEF ChunkLost, Posting, Lost, vars, Live

LEMMA ChunkPostedVerdict ==
  ASSUME DeviceMax >= MaxCount, ClientInv, IInv, TotalIsBytes, VerdictInv, ChunkPosted
  PROVE  VerdictInv'
<1>1. /\ me = "post" /\ UNCHANGED <<job, upl, late, swept>>
      /\ job \in Jobs /\ seq \in 0 .. Len(job.clip) - 1
  BY AtWork DEF ChunkPosted, Posting
<1>2. PICK u \in upl :
        \/ /\ AppendOK(Me, u, seq, job.clip[seq + 1])
           /\ (NextSeq /\ faults' = faults) \/ (PostFailed("lost") /\ Lost)
        \/ /\ AppendRefused(Me, u, seq, job.clip[seq + 1])
           /\ \/ /\ PostFailed(IF Owned(u, Me) THEN "refused" ELSE "unknown_upload")
                 /\ faults' = faults
              \/ PostFailed("lost") /\ Lost
  BY DEF ChunkPosted, Kept
<1>3. u \in issued /\ \A w \in upl : w = u
  BY AtWork DEF ClientInv, ClientType
<1>4. CASE AppendOK(Me, u, seq, job.clip[seq + 1])
  <2>1. PICK b \in Blobs : b = job.clip[seq + 1]
    BY <1>1, JobFacts
  <2>2. AppendOK(Me, u, seq, b)
    BY <1>4, <2>1 DEF AppendOK, Accepts, Stored, NewTotal
  <2>3. seq \in Seqs /\ Live(u)' /\ Held(acked'[u]) = Held(acked[u]) \cup {seq}
    BY <1>3, <2>2, AppendEffect
  <2>4. CASE NextSeq /\ faults' = faults
    <3>1. seq' = seq + 1 /\ tries' = 0 /\ said' = said /\ me' # "done"
      BY <1>1, <2>3, <2>4, NotTooLong
    <3>2. job.who = "bench" =>
              late' = {} /\ \A w \in upl : Held(acked'[w]) \subseteq 0 .. seq' - 1
      <4>1. ASSUME job.who = "bench" PROVE late' = {} /\ Held(acked'[u]) \subseteq 0 .. seq' - 1
        <5>1. late = {} /\ Held(acked[u]) \subseteq 0 .. seq - 1
          BY <1>1, <4>1 DEF VerdictInv
        <5>2. QED  BY <1>1, <2>3, <3>1, <5>1
      <4>2. QED  BY <1>3, <4>1
    <3>3. QED  BY <1>1, <1>3, <2>3, <3>1, <3>2, GoesOn
  <2>5. CASE PostFailed("lost") /\ Lost
    BY <1>1, <1>3, <2>3, <2>5, LostVerdict DEF Lost
  <2>6. QED
    <3>1. ~AppendRefused(Me, u, seq, job.clip[seq + 1])
      BY <1>4 DEF AppendOK, AppendRefused
    <3>2. QED  BY <1>2, <2>4, <2>5, <3>1
<1>5. CASE AppendRefused(Me, u, seq, job.clip[seq + 1])
  <2>1. \A w \in upl : Live(w)' <=> Live(w)
    BY <1>5 DEF AppendRefused, vars, Live
  <2>2. ~Undisturbed
    <3>1. ASSUME Undisturbed PROVE Accepts(Me, u, seq, job.clip[seq + 1])
      <4>1. Live(u) /\ Small
        BY <1>1, <3>1 DEF VerdictInv, Undisturbed
      <4>2. QED  BY <1>1, <4>1, Fitting
    <3>2. QED  BY <1>5, <3>1 DEF AppendRefused
  <2>3. CASE PostFailed("lost") /\ Lost
    BY <1>1, <2>1, <2>3, LostVerdict DEF Lost
  <2>4. ASSUME NEW verdict \in {"refused", "unknown_upload"}, PostFailed(verdict)
        PROVE  VerdictInv'
    <3>1. ~Undisturbed'
      BY <1>1, <2>2, JobKept DEF Undisturbed
    <3>2. /\ tries' = 1 => job.who = "device"
          /\ said' # "too_long"
          /\ me' # "done" => job.who = "device"
      BY <2>4, PostFailedFacts DEF VerdictInv
    <3>3. QED  BY <1>1, <3>1, <3>2 DEF VerdictInv, Told
  <2>5. QED
    <3>1. ~AppendOK(Me, u, seq, job.clip[seq + 1])
      BY <1>5 DEF AppendOK, AppendRefused
    <3>2. QED  BY <1>2, <2>3, <2>4, <3>1
<1>6. QED  BY <1>2, <1>4, <1>5

LEMMA LateVerdict ==
  ASSUME ClientInv, IInv, VerdictInv, NEW q \in late, LateArrives(q)
  PROVE  VerdictInv'
<1>1. /\ UNCHANGED <<me, job, seq, tries, upl, said, faults, swept>>
  BY DEF LateArrives
<1>2. me = "done" \/ job.who # "bench"
  BY DEF VerdictInv
<1>3. ASSUME NEW w \in upl, Live(w) PROVE Live(w)'
  <2>1. PICK u \in upl : AppendOK(Me, u, q, job.clip[q + 1]) \/ AppendRefused(Me, u, q, job.clip[q + 1])
    BY DEF LateArrives, LateBody
  <2>2. u = w /\ u \in issued /\ q \in 0 .. Len(job.clip) - 1 /\ job \in Jobs
    BY DEF ClientInv, ClientType
  <2>3. CASE AppendOK(Me, u, q, job.clip[q + 1])
    <3>1. PICK b \in Blobs : b = job.clip[q + 1]
      BY <2>2, JobFacts
    <3>2. AppendOK(Me, u, q, b)
      BY <2>3, <3>1 DEF AppendOK, Accepts, Stored, NewTotal
    <3>3. QED  BY <2>2, <3>2, AppendEffect
  <2>4. CASE AppendRefused(Me, u, q, job.clip[q + 1])
    BY <1>3, <2>4 DEF AppendRefused, vars, Live
  <2>5. QED  BY <2>1, <2>3, <2>4
<1>4. /\ (Undisturbed' <=> Undisturbed) /\ (CancelComes' <=> CancelComes)
      /\ Deserved' = Deserved
  BY <1>1, JobKept DEF Undisturbed
<1>5. Told'
  BY <1>1, <1>4 DEF Told, VerdictInv
<1>6. QED  BY <1>1, <1>2, <1>3, <1>4, <1>5 DEF VerdictInv

LEMMA OthersVerdict ==
  ASSUME ClientInv, IInv, VerdictInv, Others
  PROVE  VerdictInv'
<1>1. /\ UNCHANGED <<me, job, seq, tries, upl, said, late, faults>>
      /\ swept' = (swept \/ \E u \in upl : Expired(u))
  BY DEF Others
<1>2. ASSUME NEW u \in upl
      PROVE  acked'[u] = acked[u] /\ (Live(u) /\ ~Expired(u) => Live(u)')
  BY OthersEffect DEF Others, ClientInv, ClientType, UplIsClip
<1>3. /\ Undisturbed' => Undisturbed /\ \A u \in upl : ~Expired(u)
      /\ (CancelComes' <=> CancelComes)
      /\ Deserved' = Deserved
  BY <1>1, JobKept DEF Undisturbed
<1>4. Told'
  BY <1>1, <1>3 DEF Told, VerdictInv
<1>5. me' # "done" /\ job'.who = "bench" =>
          late' = {} /\ \A u \in upl' : Held(acked'[u]) \subseteq 0 .. seq' - 1
  BY <1>1, <1>2 DEF VerdictInv, Held
<1>6. QED  BY <1>1, <1>2, <1>3, <1>4, <1>5 DEF VerdictInv

\* What a client deserves that does not cancel, by what the store holds when it
\* comes to its finish.
LEMMA DeservedAtFinish ==
  ASSUME ClientInv, IInv, me = "finish", ~CancelComes, NEW u \in upl
  PROVE  /\ Held(acked[u]) = {} => Deserved = "silence"
         /\ Held(acked[u]) # {} /\ (\A top \in Seqs : Held(acked[u]) # 0 .. top)
                => Deserved = "upload_gap"
         /\ \A top \in Seqs : Held(acked[u]) = 0 .. top => Deserved = "turn"
<1>1. /\ seq = Len(job.clip) /\ Len(job.clip) \in Nat /\ Len(job.clip) > 0
      /\ job.drop \in Int /\ job.drop >= -1
  BY AtWork DEF ClientInv, Progress
<1>2. /\ \A q \in Held(acked[u]) : q < Len(job.clip) /\ q # job.drop
      /\ \A q \in 0 .. Len(job.clip) - 1 : q # job.drop => q \in Held(acked[u])
      /\ Held(acked[u]) \subseteq Seqs
  BY <1>1 DEF ClientInv, UplIsClip, Held
<1>3. CASE job.drop = 0 /\ Len(job.clip) = 1
  <2>1. Deserved = "silence"
    BY <1>3 DEF Deserved
  <2>2. Held(acked[u]) = {}
    BY <1>2, <1>3 DEF Seqs
  <2>3. \A top \in Seqs : 0 \in 0 .. top
    BY DEF Seqs
  <2>4. QED  BY <2>1, <2>2, <2>3
<1>4. CASE job.drop \in 0 .. Len(job.clip) - 2
  <2>1. Deserved = "upload_gap"
    <3>1. ~(job.drop = 0 /\ Len(job.clip) = 1)
      <4>1. \A d, n \in Int : d \in 0 .. n - 2 => ~(d = 0 /\ n = 1)
        OBVIOUS
      <4>2. job.drop \in Int /\ Len(job.clip) \in Int
        BY <1>1
      <4>3. QED  BY <1>4, <4>1, <4>2, Zenon
    <3>2. QED  BY <1>4, <3>1, Zenon DEF Deserved
  <2>2. Len(job.clip) - 1 \in Held(acked[u]) /\ job.drop \notin Held(acked[u])
    BY <1>1, <1>2, <1>4
  <2>3. ASSUME NEW top \in Seqs, Held(acked[u]) = 0 .. top PROVE FALSE
    <3>1. Len(job.clip) - 1 <= top
      BY <1>1, <2>2, <2>3 DEF Seqs
    <3>2. job.drop \in 0 .. top
      BY <1>1, <1>4, <3>1 DEF Seqs
    <3>3. QED  BY <2>2, <2>3, <3>2
  <2>4. QED  BY <2>1, <2>2, <2>3
<1>5. CASE ~(job.drop = 0 /\ Len(job.clip) = 1) /\ job.drop \notin 0 .. Len(job.clip) - 2
  <2>1. Deserved = "turn"
    BY <1>5 DEF Deserved
  <2>2. \E last \in Seqs : Held(acked[u]) = 0 .. last
    <3>1. CASE job.drop = Len(job.clip) - 1
      <4>1. Len(job.clip) - 2 \in 0 .. Len(job.clip) - 1 /\ Len(job.clip) - 2 # job.drop
        <5>1. \A d, n \in Int : n > 0 /\ ~(d = 0 /\ n = 1) /\ d = n - 1
                                    => n - 2 \in 0 .. n - 1 /\ n - 2 # d
          OBVIOUS
        <5>2. job.drop \in Int /\ Len(job.clip) \in Int /\ Len(job.clip) > 0
          BY <1>1
        <5>3. QED  BY <1>5, <3>1, <5>1, <5>2, Zenon
      <4>2. Len(job.clip) - 2 \in Seqs
        BY <1>2, <4>1
      <4>3. Held(acked[u]) = 0 .. Len(job.clip) - 2
        <5>1. ASSUME NEW q \in Held(acked[u]) PROVE q \in 0 .. Len(job.clip) - 2
          BY <1>1, <1>2, <3>1 DEF Seqs
        <5>2. ASSUME NEW q \in 0 .. Len(job.clip) - 2 PROVE q \in Held(acked[u])
          BY <1>1, <1>2, <3>1
        <5>3. QED  BY <5>1, <5>2
      <4>4. QED  BY <4>2, <4>3
    <3>2. CASE job.drop # Len(job.clip) - 1
      <4>1. \A q \in 0 .. Len(job.clip) - 1 : q # job.drop
        BY <1>1, <1>5, <3>2
      <4>2. Len(job.clip) - 1 \in Seqs
        <5>1. Len(job.clip) - 1 \in 0 .. Len(job.clip) - 1
          BY <1>1
        <5>2. QED  BY <1>2, <4>1, <5>1
      <4>3. Held(acked[u]) = 0 .. Len(job.clip) - 1
        <5>1. ASSUME NEW q \in Held(acked[u]) PROVE q \in 0 .. Len(job.clip) - 1
          BY <1>1, <1>2 DEF Seqs
        <5>2. QED  BY <1>2, <4>1, <5>1
      <4>4. QED  BY <4>2, <4>3
    <3>3. QED  BY <3>1, <3>2
  <2>3. Held(acked[u]) # {}
    BY <2>2 DEF Seqs
  <2>4. QED  BY <2>1, <2>2, <2>3
<1>6. QED  BY <1>3, <1>4, <1>5

\* A finish whose answer gets back is answered as deserved; a client whose
\* cancel was lost can only be told what becomes of the chunk it had posted.
LEMMA FinishVerdict ==
  ASSUME ClientInv, IInv, VerdictInv, FinishPosted \/ FinishLost
  PROVE  VerdictInv'
<1>1. /\ me = "finish" /\ me' = "done" /\ faults \in Nat
      /\ UNCHANGED <<job, seq, tries, upl, late, swept>>
      /\ faults' = faults \/ faults' = faults + 1
  BY AtWork DEF FinishPosted, FinishLost, Ends, Kept, Lost
<1>2. tries' = 1 => job.who = "device" /\ (Undisturbed => faults' > 0)
  BY <1>1 DEF VerdictInv
<1>3. CASE said' = "lost" /\ faults' = faults + 1
  BY <1>1, <1>2, <1>3, EndsWithLoss
<1>4. ASSUME NEW u \in upl, faults' = faults,
             \/ FinishOK(Me, u) /\ said' = "turn"
             \/ FinishRefused(Me, u) /\ said' = Refusal(u)
      PROVE  VerdictInv'
  <2>1. u \in Uploads /\ (Live(u) => Owned(u, Me) /\ sessions[u].chunks = acked[u])
    <3>1. u \in Uploads
      BY AtWork DEF IInv, TypeOK
    <3>2. QED  BY <3>1 DEF Owned, ClientInv, UplIsClip, IInv, LiveIsFresh
  <2> DEFINE Whole == \E top \in Seqs : Held(acked[u]) = 0 .. top
  <2>2. \/ Live(u) /\ Whole /\ said' = "turn"
        \/ Live(u) /\ ~Whole /\ Held(acked[u]) = {} /\ said' = "silence"
        \/ Live(u) /\ ~Whole /\ Held(acked[u]) # {} /\ said' = "upload_gap"
        \/ ~Live(u) /\ said' = "unknown_upload"
    BY <1>4, <2>1 DEF FinishOK, FinishRefused, Complete, Refusal, Owned
  <2>3. (Undisturbed' <=> Undisturbed) /\ (CancelComes' <=> CancelComes) /\ Deserved' = Deserved
    BY <1>1, JobKept DEF Undisturbed
  <2>4. said' # "too_long"
    BY <2>2
  <2>5. ASSUME Undisturbed, ~CancelComes PROVE said' = Deserved
    <3>1. Live(u)
      BY <1>1, <2>5 DEF VerdictInv
    <3>2. /\ ~Whole /\ Held(acked[u]) = {} => Deserved = "silence"
          /\ ~Whole /\ Held(acked[u]) # {} => Deserved = "upload_gap"
          /\ Whole => Deserved = "turn"
      BY <1>1, <2>5, DeservedAtFinish
    <3>3. QED  BY <2>2, <3>1, <3>2
  <2>6. ASSUME CancelComes PROVE said' = Deserved \/ (faults' > 0 /\ said' \in {"turn", "silence"})
    <3>1. CASE ~Live(u)
      BY <2>2, <2>6, <3>1 DEF Deserved
    <3>2. CASE Live(u)
      <4>1. faults' > 0
        BY <1>1, <1>4, <2>6, <3>2 DEF ClientInv, Progress
      <4>2. seq = 1 /\ job.who = "bench"
        BY <1>1, <2>6, AtWork, JobFacts DEF ClientInv, Progress
      <4>3. Held(acked[u]) \subseteq {0}
        <5>1. Held(acked[u]) \subseteq 0 .. seq - 1
          BY <1>1, <4>2 DEF VerdictInv
        <5>2. QED  BY <4>2, <5>1
      <4>4. Held(acked[u]) # {} => Whole
        <5>1. 0 \in Seqs /\ 0 .. 0 = {0}
          BY DEF Seqs
        <5>2. QED  BY <4>3, <5>1
      <4>5. QED  BY <2>2, <3>2, <4>1, <4>4
    <3>3. QED  BY <3>1, <3>2
  <2>7. Told'
    BY <2>3, <2>5, <2>6 DEF Told
  <2>8. QED  BY <1>1, <1>2, <2>3, <2>4, <2>7 DEF VerdictInv
<1>5. QED
  BY <1>3, <1>4 DEF FinishPosted, FinishLost, Ends, Lost, Kept

LEMMA NextVerdict ==
  ASSUME DeviceMax >= MaxCount
  PROVE  ClientInv /\ IInv /\ TotalIsBytes /\ VerdictInv /\ [UploadNext]_<<vars, clientVars>>
            => VerdictInv'
<1> SUFFICES ASSUME ClientInv, IInv, TotalIsBytes, VerdictInv,
                    [UploadNext]_<<vars, clientVars>>
             PROVE  VerdictInv'
  OBVIOUS
<1>1. CASE Mine
  BY <1>1, StartVerdict, SkipVerdict, CancelMidVerdict, ChunkPostedVerdict, ChunkLostVerdict,
     FinishVerdict DEF Mine
<1>2. CASE Others
  BY <1>2, OthersVerdict
<1>3. ASSUME NEW q \in late, LateArrives(q) PROVE VerdictInv'
  BY <1>3, LateVerdict
<1>4. CASE UNCHANGED <<vars, clientVars>>
  <2>1. (Undisturbed' <=> Undisturbed) /\ (CancelComes' <=> CancelComes) /\ Deserved' = Deserved
    BY <1>4, JobKept DEF Undisturbed, clientVars
  <2>2. QED  BY <1>4, <2>1 DEF vars, clientVars, VerdictInv, Told, Live, Held
<1>5. QED  BY <1>1, <1>2, <1>3, <1>4 DEF UploadNext

\* Within the relay's limits, and with the janitor out of its way, a client is
\* told what its requests deserve, or that a request was lost.  The device's own
\* limit must not be below the relay's: both are 120 as shipped, and the relay's
\* can be configured.
THEOREM VerdictIsDeserved ==
  ASSUME DeviceMax >= MaxCount
  PROVE  UploadSpec => []VerdictDeserved
<1>1. Init => TotalIsBytes
  BY DEF Init, TotalIsBytes, Live
<1>2. ClientInv /\ IInv /\ TotalIsBytes /\ [UploadNext]_<<vars, clientVars>> => TotalIsBytes'
  BY ClientStepIsStoreStep, NextTotal DEF ClientInv, IInv
<1>3. VerdictInv => VerdictDeserved
  BY DEF VerdictInv, Told, Undisturbed, VerdictDeserved
<1>4. QED
  BY <1>1, <1>2, <1>3, InitVerdict, NextVerdict, UploadInvariant, PTL DEF UploadSpec
=============================================================================
