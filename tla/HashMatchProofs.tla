--------------------------- MODULE HashMatchProofs ---------------------------
(***************************************************************************)
(* The pairs a hash join returns, for inputs and chunks of any size: each  *)
(* matching pair, no other if the key columns are in the same order on     *)
(* both sides, and each once per column of the build side.                 *)
(***************************************************************************)
EXTENDS HashMatch, DataInduction

Pairs == Int \X Int

TypeInv ==
    /\ plan \in Plans
    /\ pc \in {"build", "probe", "done", "panicked"}
    /\ build \in Seq(Rows(plan.buildWidth))
    /\ probe \in Seq(Rows(plan.probeWidth))
    /\ hash_map \in [{Hash} -> Seq(Int)]
    /\ out \in Seq(Pairs)

\* Every row of the build arrays is filed once for each of its columns.
Filed ==
    \A b \in Int :
        Times(hash_map[Hash], b) = IF b \in 1 .. Len(build) THEN plan.buildWidth ELSE 0

\* Two rows that the comparison of keys lets through.
Let(i, b) == i \in 1 .. Len(probe) /\ b \in 1 .. Len(build) /\ SameKeys(probe[i], build[b])

\* Every pair of places is there as often as its build row is filed, or not at all.
Emitted == \A i, b \in Int : Times(out, <<i, b>>) = IF Let(i, b) THEN plan.buildWidth ELSE 0

\* The build side is complete before the first row is probed.
BuildFirst == pc = "build" => probe = << >> /\ out = << >>

HashMatchInv == TypeInv /\ Filed /\ Emitted /\ BuildFirst

-----------------------------------------------------------------------------
(* What the operators count. *)

LEMMA PlanFacts ==
    ASSUME TypeInv
    PROVE  /\ plan.probeWidth \in Nat \ {0} /\ plan.buildWidth \in Nat \ {0}
           /\ plan.probeKey \in Seq(1 .. plan.probeWidth)
           /\ plan.buildKey \in Seq(1 .. plan.buildWidth)
           /\ Len(plan.probeKey) = Len(plan.buildKey)
<1>1. IsPlan(plan)
    BY PlansAssumption DEF TypeInv
<1> QED
    BY <1>1 DEF IsPlan

LEMMA ChunkType == ASSUME NEW w, NEW c \in Chunks(w) PROVE c \in Seq(Rows(w)) /\ Len(c) \in Nat
<1>1. c \in Seq(Rows(w))
    <2>1. PICK R : R = Rows(w)
        OBVIOUS
    <2>2. c \in {<< >>} \/ c \in {<<r>> : r \in R} \/ c \in {<<r, s>> : r, s \in R}
        BY <2>1 DEF Chunks
    <2>3. CASE c \in {<< >>}
        BY <2>3
    <2>4. CASE c \in {<<r>> : r \in R}
        <3>1. PICK r \in R : c = <<r>>
            BY <2>4
        <3> QED
            BY <2>1, <3>1
    <2>5. CASE c \in {<<r, s>> : r, s \in R}
        <3>1. PICK r \in R, s \in R : c = <<r, s>>
            BY <2>5
        <3> QED
            BY <2>1, <3>1
    <2> QED
        BY <2>2, <2>3, <2>4, <2>5
<1> QED
    BY <1>1, LenProperties

\* The places of a chunk are the next ones of the build array, each once.
LEMMA RidsOnce ==
    ASSUME TypeInv, NEW w, NEW c \in Seq(Rows(w)), NEW b \in Int
    PROVE  /\ RidsOf(c) \in Seq(Int)
           /\ Times(RidsOf(c), b) = IF b \in Len(build) + 1 .. Len(build) + Len(c) THEN 1 ELSE 0
<1>1. Len(build) \in Nat /\ Len(c) \in Nat
    BY LenProperties DEF TypeInv
<1>2. PICK l \in Nat, n \in Nat : l = Len(build) /\ n = Len(c)
    BY <1>1
<1>3. PICK r : r = RidsOf(c)
    OBVIOUS
<1>4. r = [i \in 1 .. n |-> l + i]
    BY <1>2, <1>3 DEF RidsOf
<1>5. r \in Seq(Int)
    BY <1>4
<1>6. CASE b \in l + 1 .. l + n
    <2>1. {j \in DOMAIN r : r[j] = b} = {b - l}
        BY <1>4, <1>6
    <2> QED
        BY <1>2, <1>3, <1>5, <1>6, <2>1, FS_Singleton DEF Times
<1>7. CASE b \notin l + 1 .. l + n
    <2>1. {j \in DOMAIN r : r[j] = b} = {}
        BY <1>4, <1>7
    <2> QED
        BY <1>2, <1>3, <1>5, <1>7, <2>1, FS_EmptySet DEF Times
<1> QED
    BY <1>6, <1>7

\* Copying column by column files each place once per column.
LEMMA FiledPerColumn ==
    ASSUME NEW r \in Seq(Int), NEW n \in Nat, NEW b, NEW k \in {0, 1}, Times(r, b) = k,
           NEW parts, parts = [col \in 1 .. n |-> r]
    PROVE  /\ FlattenSeq(parts) \in Seq(Int)
           /\ Times(FlattenSeq(parts), b) = IF k = 1 THEN n ELSE 0
<1>1. parts \in Seq(Seq(Int)) /\ Len(parts) = n /\ \A j \in DOMAIN parts : Times(parts[j], b) = k
    OBVIOUS
<1>2. FlattenSeq(parts) \in Seq(Int)
    BY <1>1, FlattenType
<1>3. CASE k = 1
    BY <1>1, <1>2, <1>3, TimesInEveryPart
<1>4. CASE k = 0
    <2>1. \A j \in DOMAIN parts : j # 0 => Times(parts[j], b) = 0
        BY <1>1, <1>4
    <2>2. 0 \notin DOMAIN parts
        BY <1>1
    <2>3. Times(FlattenSeq(parts), b) = 0
        BY <1>1, <2>1, <2>2, TimesInOnePart
    <2> QED
        BY <1>2, <1>4, <2>3
<1> QED
    BY <1>3, <1>4

\* find_matches pairs a row of the chunk with a row of the build side as often as
\* that one is filed.
LEMMA FoundAsFiled ==
    ASSUME TypeInv, NEW w, NEW c \in Seq(Rows(w)), NEW i \in Int, NEW b \in Int
    PROVE  /\ FindMatches(c) \in Seq(Pairs)
           /\ Times(FindMatches(c), <<i, b>>)
                = IF i \in 1 .. Len(c) THEN Times(hash_map[Hash], b) ELSE 0
<1>1. PICK m, n : m = hash_map[Hash] /\ n = Len(c)
    OBVIOUS
<1>2. m \in Seq(Int) /\ DOMAIN m = 1 .. Len(m) /\ Len(m) \in Nat /\ n \in Nat /\ Times(m, b) \in Nat
    <2>1. m \in Seq(Int)
        BY <1>1 DEF TypeInv
    <2> QED
        BY <1>1, <2>1, LenProperties, TimesType
<1>3. PICK parts : parts = [k \in 1 .. n |-> [j \in DOMAIN m |-> <<k, m[j]>>]]
    OBVIOUS
<1>4. FindMatches(c) = FlattenSeq(parts)
    BY <1>1, <1>3 DEF FindMatches
<1>5. parts \in Seq(Seq(Pairs)) /\ DOMAIN parts = 1 .. n
    <2>1. \A j \in 1 .. Len(m) : m[j] \in Int
        BY <1>2, ElementOfSeq
    <2>2. ASSUME NEW k \in 1 .. n PROVE [j \in DOMAIN m |-> <<k, m[j]>>] \in Seq(Pairs)
        BY <1>2, <2>1 DEF Pairs
    <2>3. \A k \in 1 .. n : parts[k] \in Seq(Pairs)
        BY <1>3, <2>2
    <2> QED
        BY <1>2, <1>3, <2>3
<1>6. ASSUME NEW k \in DOMAIN parts
      PROVE  Times(parts[k], <<i, b>>) = IF k = i THEN Times(m, b) ELSE 0
    <2>1. PICK f : f = parts[k] /\ f = [j \in DOMAIN m |-> <<k, m[j]>>]
        BY <1>3, <1>5
    <2>2. CASE k = i
        <3>1. {j \in DOMAIN f : f[j] = <<i, b>>} = {j \in DOMAIN m : m[j] = b}
            BY <2>1, <2>2
        <3> QED
            BY <2>1, <2>2, <3>1 DEF Times
    <2>3. CASE k # i
        <3>1. {j \in DOMAIN f : f[j] = <<i, b>>} = {}
            BY <2>1, <2>3
        <3> QED
            BY <2>1, <2>3, <3>1, FS_EmptySet DEF Times
    <2> QED
        BY <2>2, <2>3
<1>7. Times(FlattenSeq(parts), <<i, b>>) = IF i \in DOMAIN parts THEN Times(parts[i], <<i, b>>) ELSE 0
    BY <1>5, <1>6, TimesInOnePart
<1>8. FlattenSeq(parts) \in Seq(Pairs)
    BY <1>5, FlattenType
<1> QED
    BY <1>1, <1>4, <1>5, <1>6, <1>7, <1>8

\* contruct_joined_chunk keeps a pair with all its repetitions or drops it.
LEMMA JoinedAsFound ==
    ASSUME TypeInv, NEW c, NEW f \in Seq(Pairs), NEW i \in Int, NEW b \in Int
    PROVE  /\ Joined(c, f) \in Seq(Pairs)
           /\ Times(Joined(c, f), <<i, b>>)
                = IF SameKeys(c[i - Len(probe)], build[b]) THEN Times(f, <<i - Len(probe), b>>) ELSE 0
<1>1. Len(probe) \in Nat
    BY LenProperties DEF TypeInv
<1>2. PICK l \in Nat : l = Len(probe)
    BY <1>1
<1> DEFINE same == [q \in Pairs |-> SameKeys(c[q[1]], build[q[2]])]
           g == [q \in Pairs |-> IF same[q] THEN << <<l + q[1], q[2]>> >> ELSE << >>]
<1>3. g \in Replacements(Pairs, Pairs)
    <2>1. \A q \in Pairs : <<l + q[1], q[2]>> \in Pairs
        BY DEF Pairs
    <2> HIDE DEF same
    <2>2. ASSUME NEW q \in Pairs PROVE (IF same[q] THEN << <<l + q[1], q[2]>> >> ELSE << >>) \in Seq(Pairs)
        BY <2>1
    <2> QED
        BY <2>2 DEF Replacements
<1>4. DOMAIN f = 1 .. Len(f) /\ \A j \in 1 .. Len(f) : f[j] \in Pairs
    BY LenProperties, ElementOfSeq
<1>5. Joined(c, f) = FlattenSeq(Images(g, f))
    <2>1. [k \in DOMAIN f |->
              IF SameKeys(c[f[k][1]], build[f[k][2]])
              THEN << <<Len(probe) + f[k][1], f[k][2]>> >>
              ELSE << >>] = Images(g, f)
        BY <1>2, <1>4 DEF Images
    <2> QED
        BY <2>1 DEF Joined
<1>6. PICK q, k : q = <<i - l, b>> /\ k = IF same[q] THEN 1 ELSE 0
    OBVIOUS
<1>7. q \in Pairs /\ k \in {0, 1} /\ q[1] = i - l /\ q[2] = b
    BY <1>6 DEF Pairs
<1>8. same[q] <=> SameKeys(c[i - l], build[b])
    BY <1>7
<1> HIDE DEF same
<1>9. ASSUME NEW z \in Pairs PROVE Times(g[z], <<i, b>>) = IF z = q THEN k ELSE 0
    <2>1. <<l + z[1], z[2]>> = <<i, b>> <=> z = q
        BY <1>6 DEF Pairs
    <2>2. CASE same[z]
        <3>1. g[z] = << <<l + z[1], z[2]>> >>
            BY <2>2
        <3>2. Times(g[z], <<i, b>>) = IF <<l + z[1], z[2]>> = <<i, b>> THEN 1 ELSE 0
            BY <3>1, TimesSingle
        <3> QED
            BY <1>6, <2>1, <2>2, <3>2
    <2>3. CASE ~same[z]
        <3>1. g[z] = << >>
            BY <2>3
        <3>2. Times(g[z], <<i, b>>) = 0
            BY <3>1, TimesEmpty
        <3> QED
            BY <1>6, <2>3, <3>2
    <2> QED
        BY <2>2, <2>3
<1> HIDE DEF g
<1>10. Times(FlattenSeq(Images(g, f)), <<i, b>>) = IF k = 1 THEN Times(f, q) ELSE 0
    BY <1>3, <1>7, <1>9, TimesReplaced
<1>11. FlattenSeq(Images(g, f)) \in Seq(Pairs)
    BY <1>3, ReplacedType, FlattenType
<1> QED
    BY <1>2, <1>5, <1>6, <1>8, <1>10, <1>11

-----------------------------------------------------------------------------
(* The invariant. *)

LEMMA InitInv == Init => HashMatchInv
<1> SUFFICES ASSUME Init PROVE HashMatchInv
    OBVIOUS
<1>1. build = << >> /\ probe = << >> /\ out = << >> /\ hash_map[Hash] = << >>
    BY DEF Init
<1>2. TypeInv
    <2>1. << >> \in Seq(Int) /\ << >> \in Seq(Pairs)
        BY EmptySeq
    <2>2. << >> \in Seq(Rows(plan.buildWidth)) /\ << >> \in Seq(Rows(plan.probeWidth))
        BY EmptySeq
    <2>3. hash_map \in [{Hash} -> Seq(Int)]
        BY <2>1 DEF Init
    <2> QED
        BY <1>1, <2>1, <2>2, <2>3 DEF Init, TypeInv
<1>3. 1 .. Len(<< >>) = {}
    OBVIOUS
<1>4. Filed
    BY <1>1, <1>3, TimesEmpty DEF Filed
<1>5. Emitted
    BY <1>1, <1>3, TimesEmpty DEF Emitted, Let
<1> QED
    BY <1>1, <1>2, <1>4, <1>5 DEF HashMatchInv, BuildFirst

LEMMA BuildChunkInv == ASSUME HashMatchInv, BuildChunk PROVE HashMatchInv'
<1>0. /\ TypeInv /\ Filed /\ Emitted /\ BuildFirst
      /\ pc = "build" /\ probe = << >> /\ out = << >>
      /\ UNCHANGED <<plan, pc, probe, out>>
    BY DEF HashMatchInv, BuildFirst, BuildChunk
<1>1. PICK c \in Chunks(plan.buildWidth) :
          /\ build' = build \o c
          /\ hash_map' = [hash_map EXCEPT ![Hash] =
                              @ \o FlattenSeq([col \in 1 .. plan.buildWidth |-> RidsOf(c)])]
    BY DEF BuildChunk
<1>2. PICK n, r, l, m, w :
          /\ n = Len(c) /\ r = RidsOf(c) /\ l = Len(build) /\ m = hash_map[Hash]
          /\ w = plan.buildWidth
    OBVIOUS
<1>3. PICK parts : parts = [col \in 1 .. w |-> r]
    OBVIOUS
<1>4. /\ c \in Seq(Rows(w)) /\ n \in Nat /\ w \in Nat /\ l \in Nat
      /\ m \in Seq(Int) /\ build \in Seq(Rows(w))
    <2>1. c \in Seq(Rows(w)) /\ n \in Nat
        BY <1>1, <1>2, ChunkType
    <2>2. w \in Nat /\ m \in Seq(Int) /\ build \in Seq(Rows(w))
        BY <1>0, <1>2, PlanFacts DEF TypeInv
    <2>3. l \in Nat
        BY <1>2, <2>2, LenProperties
    <2> QED
        BY <2>1, <2>2, <2>3
<1>5. /\ r \in Seq(Int)
      /\ \A b \in Int : Times(r, b) = IF b \in l + 1 .. l + n THEN 1 ELSE 0
    BY <1>0, <1>2, <1>4, RidsOnce
<1>6. PICK f : f = FlattenSeq(parts)
    OBVIOUS
<1>7. ASSUME NEW b \in Int
      PROVE  f \in Seq(Int) /\ Times(f, b) = IF b \in l + 1 .. l + n THEN w ELSE 0
    <2>1. PICK k \in {0, 1} : Times(r, b) = k /\ (k = 1 <=> b \in l + 1 .. l + n)
        BY <1>5
    <2>2. f \in Seq(Int) /\ Times(f, b) = IF k = 1 THEN w ELSE 0
        BY <1>3, <1>4, <1>5, <1>6, <2>1, FiledPerColumn
    <2> QED
        BY <2>1, <2>2
<1>8. f \in Seq(Int)
    BY <1>7
<1>9. hash_map'[Hash] = m \o f /\ hash_map' \in [{Hash} -> Seq(Int)]
    <2>1. m \o f \in Seq(Int)
        BY <1>4, <1>8, ConcatProperties
    <2>2. hash_map' = [hash_map EXCEPT ![Hash] = m \o f]
        BY <1>1, <1>2, <1>3, <1>6
    <2> QED
        BY <1>0, <2>1, <2>2 DEF TypeInv
<1>10. build' \in Seq(Rows(w)) /\ Len(build') = l + n
    <2>1. build \o c \in Seq(Rows(w)) /\ Len(build \o c) = l + n
        BY <1>2, <1>4, ConcatProperties
    <2> QED
        BY <1>1, <2>1
<1>11. TypeInv'
    BY <1>0, <1>2, <1>9, <1>10 DEF TypeInv
<1>12. Filed'
    <2> SUFFICES ASSUME NEW b \in Int
                 PROVE  Times(hash_map'[Hash], b) = IF b \in 1 .. Len(build') THEN w ELSE 0
        BY <1>0, <1>2 DEF Filed
    <2>1. Times(m \o f, b) = Times(m, b) + Times(f, b)
        BY <1>4, <1>8, TimesConcat
    <2>2. Times(m, b) = IF b \in 1 .. l THEN w ELSE 0
        BY <1>0, <1>2 DEF Filed
    <2>3. Times(f, b) = IF b \in l + 1 .. l + n THEN w ELSE 0
        BY <1>7
    <2>4. Times(m \o f, b) = IF b \in 1 .. l + n THEN w ELSE 0
        BY <1>4, <2>1, <2>2, <2>3
    <2> QED
        BY <1>9, <1>10, <2>4
<1>13. Emitted'
    <2> SUFFICES ASSUME NEW i \in Int, NEW b \in Int
                 PROVE  Times(out', <<i, b>>) = IF Let(i, b)' THEN plan'.buildWidth ELSE 0
        BY DEF Emitted
    <2>1. i \notin 1 .. Len(probe')
        BY <1>0
    <2> QED
        BY <1>0, <2>1, TimesEmpty DEF Let
<1> QED
    BY <1>0, <1>11, <1>12, <1>13 DEF HashMatchInv, BuildFirst

LEMMA ProbeChunkInv == ASSUME HashMatchInv, ProbeChunk PROVE HashMatchInv'
<1>0. /\ TypeInv /\ Filed /\ Emitted /\ pc = "probe"
      /\ UNCHANGED <<plan, pc, build, hash_map>>
    BY DEF HashMatchInv, ProbeChunk
<1>1. PICK c \in Chunks(plan.probeWidth) :
          /\ probe' = probe \o c
          /\ out' = out \o Joined(c, FindMatches(c))
    BY DEF ProbeChunk
<1>2. PICK n, l, w : n = Len(c) /\ l = Len(probe) /\ w = plan.buildWidth
    OBVIOUS
<1>3. /\ c \in Seq(Rows(plan.probeWidth)) /\ n \in Nat /\ l \in Nat /\ w \in Nat
      /\ probe \in Seq(Rows(plan.probeWidth)) /\ out \in Seq(Pairs)
    <2>1. c \in Seq(Rows(plan.probeWidth)) /\ n \in Nat
        BY <1>2, ChunkType
    <2>2. probe \in Seq(Rows(plan.probeWidth)) /\ out \in Seq(Pairs)
        BY <1>0 DEF TypeInv
    <2>3. l \in Nat
        BY <1>2, <2>2, LenProperties
    <2>4. w \in Nat
        BY <1>0, <1>2, PlanFacts
    <2> QED
        BY <2>1, <2>2, <2>3, <2>4
<1>4. PICK f, j : f = FindMatches(c) /\ j = Joined(c, f)
    OBVIOUS
<1>5. f \in Seq(Pairs)
    <2>1. 0 \in Int
        OBVIOUS
    <2> QED
        BY <1>0, <1>3, <1>4, <2>1, FoundAsFiled
<1>6. j \in Seq(Pairs)
    <2>1. 0 \in Int
        OBVIOUS
    <2> QED
        BY <1>0, <1>4, <1>5, <2>1, JoinedAsFound
<1>7. out' = out \o j /\ out' \in Seq(Pairs)
    <2>1. out \o j \in Seq(Pairs)
        BY <1>3, <1>6, ConcatProperties
    <2> QED
        BY <1>1, <1>4, <2>1
<1>8. /\ probe' \in Seq(Rows(plan.probeWidth)) /\ Len(probe') = l + n
      /\ \A i \in 1 .. l + n : probe'[i] = IF i <= l THEN probe[i] ELSE c[i - l]
    <2>1. /\ probe \o c \in Seq(Rows(plan.probeWidth)) /\ Len(probe \o c) = l + n
          /\ \A i \in 1 .. l + n : (probe \o c)[i] = IF i <= l THEN probe[i] ELSE c[i - l]
        BY <1>2, <1>3, ConcatProperties
    <2> QED
        BY <1>1, <2>1
<1>9. TypeInv'
    BY <1>0, <1>7, <1>8 DEF TypeInv
<1>10. Filed'
    BY <1>0 DEF Filed
<1>11. Emitted'
    <2> SUFFICES ASSUME NEW i \in Int, NEW b \in Int
                 PROVE  Times(out', <<i, b>>) = IF Let(i, b)' THEN w ELSE 0
        BY <1>0, <1>2 DEF Emitted
    <2>1. Times(out', <<i, b>>) = Times(out, <<i, b>>) + Times(j, <<i, b>>)
        BY <1>3, <1>6, <1>7, TimesConcat
    <2>2. Times(out, <<i, b>>) = IF Let(i, b) THEN w ELSE 0
        BY <1>0, <1>2 DEF Emitted
    <2>3. i - l \in Int
        BY <1>3
    <2>4. Times(j, <<i, b>>) = IF SameKeys(c[i - l], build[b]) THEN Times(f, <<i - l, b>>) ELSE 0
        BY <1>0, <1>2, <1>4, <1>5, JoinedAsFound
    <2>5. Times(f, <<i - l, b>>) = IF i - l \in 1 .. n THEN Times(hash_map[Hash], b) ELSE 0
        BY <1>0, <1>2, <1>3, <1>4, <2>3, FoundAsFiled
    <2>6. Times(hash_map[Hash], b) = IF b \in 1 .. Len(build) THEN w ELSE 0
        BY <1>0, <1>2 DEF Filed
    <2>7. \A p : SameKeys(p, build[b])' <=> SameKeys(p, build[b])
        BY <1>0 DEF SameKeys
    <2>8. Let(i, b)' <=> i \in 1 .. l + n /\ b \in 1 .. Len(build) /\ SameKeys(probe'[i], build[b])
        BY <1>0, <1>8 DEF Let, SameKeys
    <2>9. CASE i \in 1 .. l
        <3>1. i \in 1 .. l + n /\ i - l \notin 1 .. n /\ probe'[i] = probe[i]
            BY <1>3, <1>8, <2>9
        <3>2. Let(i, b)' <=> Let(i, b)
            BY <1>2, <2>8, <2>9, <3>1 DEF Let
        <3>3. Times(j, <<i, b>>) = 0
            BY <2>4, <2>5, <3>1
        <3> QED
            BY <1>3, <2>1, <2>2, <3>2, <3>3
    <2>10. CASE i \in l + 1 .. l + n
        <3>1. i \in 1 .. l + n /\ i - l \in 1 .. n /\ probe'[i] = c[i - l] /\ i \notin 1 .. l
            BY <1>3, <1>8, <2>10
        <3>2. ~Let(i, b)
            BY <1>2, <3>1 DEF Let
        <3>3. Times(j, <<i, b>>) = IF Let(i, b)' THEN w ELSE 0
            BY <2>4, <2>5, <2>6, <2>8, <3>1
        <3> QED
            BY <1>3, <2>1, <2>2, <3>2, <3>3
    <2>11. CASE i \notin 1 .. l + n
        <3>1. i - l \notin 1 .. n /\ i \notin 1 .. l
            BY <1>3, <2>11
        <3>2. ~Let(i, b) /\ ~Let(i, b)'
            BY <1>2, <2>8, <2>11, <3>1 DEF Let
        <3>3. Times(j, <<i, b>>) = 0
            BY <2>4, <2>5, <3>1
        <3> QED
            BY <2>1, <2>2, <3>2, <3>3
    <2>12. i \in 1 .. l \/ i \in l + 1 .. l + n \/ i \notin 1 .. l + n
        BY <1>3
    <2> QED
        BY <2>9, <2>10, <2>11, <2>12
<1> QED
    BY <1>0, <1>9, <1>10, <1>11 DEF HashMatchInv, BuildFirst

LEMMA NextInv == HashMatchInv /\ [Next]_vars => HashMatchInv'
<1> SUFFICES ASSUME HashMatchInv, [Next]_vars PROVE HashMatchInv'
    OBVIOUS
<1>1. CASE BuildVoidChunk \/ BuildDone \/ ProbeDone \/ Terminated \/ UNCHANGED vars
    <2>1. /\ UNCHANGED <<plan, build, hash_map, probe, out>>
          /\ pc' \in {"build", "probe", "done", "panicked"}
          /\ pc' = "build" => pc = "build"
        BY <1>1 DEF HashMatchInv, TypeInv, BuildVoidChunk, BuildDone, ProbeDone, Terminated, vars
    <2>2. TypeInv'
        BY <2>1 DEF HashMatchInv, TypeInv
    <2>3. Filed'
        BY <2>1 DEF HashMatchInv, Filed
    <2>4. \A i, b : Let(i, b)' <=> Let(i, b)
        BY <2>1 DEF Let, SameKeys
    <2>5. Emitted'
        BY <2>1, <2>4 DEF HashMatchInv, Emitted
    <2>6. BuildFirst'
        BY <2>1 DEF HashMatchInv, BuildFirst
    <2> QED
        BY <2>2, <2>3, <2>5, <2>6 DEF HashMatchInv
<1> QED
    BY <1>1, BuildChunkInv, ProbeChunkInv DEF Next

\* A pair of rows that have the same keys, as the code compares them, is returned once
\* for each column of the build side, and no other pair is, however the inputs are cut
\* into chunks (HashMatchContext::insert, find_matches, contruct_joined_chunk).
THEOREM PairsCounted == Spec => []HashMatchInv
<1>1. Init => HashMatchInv
    BY InitInv
<1>2. HashMatchInv /\ [Next]_vars => HashMatchInv'
    BY NextInv
<1> QED
    BY <1>1, <1>2, PTL DEF Spec

-----------------------------------------------------------------------------
(* The pairs. *)

\* Who is returned has been counted.
LEMMA Returned ==
    ASSUME HashMatchInv, NEW k \in DOMAIN out
    PROVE  /\ out[k][1] \in Int /\ out[k][2] \in Int
           /\ Let(out[k][1], out[k][2])
           /\ Times(out, out[k]) = plan.buildWidth
<1>1. out \in Seq(Pairs)
    BY DEF HashMatchInv, TypeInv
<1>2. out[k] \in Pairs
    BY <1>1, LenProperties, ElementOfSeq
<1>3. PICK i \in Int, b \in Int : out[k] = <<i, b>>
    BY <1>2 DEF Pairs
<1>4. Times(out, <<i, b>>) # 0
    BY <1>1, <1>3, TimesType
<1>5. Times(out, <<i, b>>) = IF Let(i, b) THEN plan.buildWidth ELSE 0
    BY DEF HashMatchInv, Emitted
<1> QED
    BY <1>3, <1>4, <1>5

\* A row of the build side of n columns is joined n times
\* (copy_to_build_array files it with each column).
THEOREM JoinedOncePerColumn == Spec => []EmittedPerColumn
<1>1. HashMatchInv => EmittedPerColumn
    <2> SUFFICES ASSUME HashMatchInv, NEW k \in DOMAIN out
                 PROVE  Cardinality({j \in DOMAIN out : out[j] = out[k]}) = plan.buildWidth
        BY DEF EmittedPerColumn
    <2> QED
        BY Returned DEF Times
<1> QED
    BY <1>1, PairsCounted, PTL

\* The join predicates name the columns of both sides in the same order.
KeysInOrder(p) ==
    \A i, j \in DOMAIN p.probeKey : p.probeKey[i] < p.probeKey[j] <=> p.buildKey[i] < p.buildKey[j]

\* Then the columns, taken in their own order, are compared as the predicates say.
LEMMA ComparedAsAsked ==
    ASSUME TypeInv, KeysInOrder(plan), NEW p, NEW b
    PROVE  SameKeys(p, b) <=> Matches(p, b)
<1>1. PICK pk, bk, pw, bw :
          /\ pk = plan.probeKey /\ bk = plan.buildKey
          /\ pw = plan.probeWidth /\ bw = plan.buildWidth
    OBVIOUS
<1>2. PICK n : n = Len(pk)
    OBVIOUS
<1>3. /\ pk \in Seq(1 .. pw) /\ bk \in Seq(1 .. bw) /\ pw \in Nat /\ bw \in Nat
      /\ n \in Nat /\ DOMAIN pk = 1 .. n /\ DOMAIN bk = 1 .. n
      /\ \A i \in 1 .. n : pk[i] \in 1 .. pw /\ bk[i] \in 1 .. bw
    <2>1. pk \in Seq(1 .. pw) /\ bk \in Seq(1 .. bw) /\ Len(bk) = n /\ pw \in Nat /\ bw \in Nat
        BY <1>1, <1>2, PlanFacts
    <2> QED
        BY <1>2, <2>1, LenProperties, ElementOfSeq
<1>4. \A i, j \in 1 .. n : pk[i] < pk[j] <=> bk[i] < bk[j]
    BY <1>1, <1>3 DEF KeysInOrder
<1>5. \A i, j \in 1 .. n : pk[i] = pk[j] <=> bk[i] = bk[j]
    <2> SUFFICES ASSUME NEW i \in 1 .. n, NEW j \in 1 .. n PROVE pk[i] = pk[j] <=> bk[i] = bk[j]
        OBVIOUS
    <2>1. pk[i] \in Int /\ pk[j] \in Int /\ bk[i] \in Int /\ bk[j] \in Int
        BY <1>3
    <2>2. (pk[i] < pk[j] <=> bk[i] < bk[j]) /\ (pk[j] < pk[i] <=> bk[j] < bk[i])
        BY <1>4
    <2> QED
        BY <2>1, <2>2
<1>6. PICK P, B : P = Columns(pk, pw) /\ B = Columns(bk, bw)
    OBVIOUS
<1>7. ToSet(pk) = {pk[i] : i \in 1 .. n} /\ ToSet(bk) = {bk[i] : i \in 1 .. n}
    BY <1>3 DEF ToSet
<1>8. P = UpTo(ToSet(pk), pw) /\ B = UpTo(ToSet(bk), bw)
    BY <1>6 DEF Columns, UpTo
<1>9. /\ P \in Seq(1 .. pw) /\ Growing(P) /\ {P[k] : k \in DOMAIN P} = ToSet(pk)
      /\ B \in Seq(1 .. bw) /\ Growing(B) /\ {B[k] : k \in DOMAIN B} = ToSet(bk)
    <2>1. ToSet(pk) \intersect 1 .. pw = ToSet(pk) /\ ToSet(bk) \intersect 1 .. bw = ToSet(bk)
        BY <1>3, <1>7
    <2> QED
        BY <1>3, <1>8, <2>1, UpToFacts
<1>10. /\ DOMAIN P = 1 .. Len(P) /\ Len(P) \in Nat
       /\ \A k \in 1 .. Len(P) : \E i \in 1 .. n : P[k] = pk[i]
       /\ \A i \in 1 .. n : \E k \in 1 .. Len(P) : P[k] = pk[i]
    <2>1. DOMAIN P = 1 .. Len(P) /\ Len(P) \in Nat
        BY <1>9, LenProperties
    <2>2. \A k \in DOMAIN P : P[k] \in ToSet(pk)
        BY <1>9
    <2>3. \A i \in 1 .. n : pk[i] \in {P[k] : k \in DOMAIN P}
        BY <1>7, <1>9
    <2> QED
        BY <1>7, <2>1, <2>2, <2>3
<1> DEFINE at(k) == CHOOSE i \in 1 .. n : P[k] = pk[i]
           F == [k \in 1 .. Len(P) |-> bk[at(k)]]
<1>11. \A k \in 1 .. Len(P) : at(k) \in 1 .. n /\ P[k] = pk[at(k)]
    BY <1>10
<1> HIDE DEF at
<1>12. F \in Seq(Int) /\ DOMAIN F = 1 .. Len(P) /\ \A k \in 1 .. Len(P) : F[k] = bk[at(k)]
    <2>1. \A k \in 1 .. Len(P) : bk[at(k)] \in Int
        BY <1>3, <1>11
    <2> QED
        BY <1>10, <2>1
<1> HIDE DEF F
<1>13. Growing(F)
    <2> SUFFICES ASSUME NEW j \in 1 .. Len(P), NEW k \in 1 .. Len(P), j < k PROVE F[j] < F[k]
        BY <1>12 DEF Growing
    <2>1. P[j] < P[k]
        BY <1>9, <1>10 DEF Growing
    <2>2. pk[at(j)] < pk[at(k)] /\ at(j) \in 1 .. n /\ at(k) \in 1 .. n
        BY <1>11, <2>1
    <2>3. bk[at(j)] < bk[at(k)]
        BY <1>4, <2>2
    <2> QED
        BY <1>12, <2>3
<1>14. {F[k] : k \in DOMAIN F} = {B[k] : k \in DOMAIN B}
    <2>1. ASSUME NEW k \in 1 .. Len(P) PROVE F[k] \in {bk[i] : i \in 1 .. n}
        BY <1>11, <1>12
    <2>2. ASSUME NEW i \in 1 .. n PROVE \E k \in 1 .. Len(P) : bk[i] = F[k]
        <3>1. PICK k \in 1 .. Len(P) : P[k] = pk[i]
            BY <1>10
        <3>2. pk[at(k)] = pk[i] /\ at(k) \in 1 .. n
            BY <1>11, <3>1
        <3>3. bk[at(k)] = bk[i]
            BY <1>5, <3>2
        <3> QED
            BY <1>12, <3>3
    <2>3. {F[k] : k \in 1 .. Len(P)} = {bk[i] : i \in 1 .. n}
        BY <2>1, <2>2
    <2> QED
        BY <1>7, <1>9, <1>12, <2>3
<1>15. F = B
    <2>1. B \in Seq(Int)
        <3>1. DOMAIN B = 1 .. Len(B) /\ \A k \in 1 .. Len(B) : B[k] \in 1 .. bw
            BY <1>9, LenProperties, ElementOfSeq
        <3> QED
            BY <1>9, <3>1
    <2> QED
        BY <1>9, <1>12, <1>13, <1>14, <2>1, GrowingUnique
<1>16. SameKeys(p, b) <=> \A k \in 1 .. Len(P) : p[P[k]] = b[B[k]]
    <2>1. SameKeys(p, b) <=> \A k \in DOMAIN P \intersect DOMAIN B : p[P[k]] = b[B[k]]
        BY <1>1, <1>6 DEF SameKeys
    <2>2. DOMAIN P \intersect DOMAIN B = 1 .. Len(P)
        BY <1>10, <1>12, <1>15
    <2> QED
        BY <2>1, <2>2
<1>17. Matches(p, b) <=> \A i \in 1 .. n : p[pk[i]] = b[bk[i]]
    BY <1>1, <1>3 DEF Matches
<1>18. ASSUME \A k \in 1 .. Len(P) : p[P[k]] = b[B[k]], NEW i \in 1 .. n PROVE p[pk[i]] = b[bk[i]]
    <2>1. PICK k \in 1 .. Len(P) : P[k] = pk[i]
        BY <1>10
    <2>2. pk[at(k)] = pk[i] /\ at(k) \in 1 .. n
        BY <1>11, <2>1
    <2>3. B[k] = bk[i]
        BY <1>5, <1>12, <1>15, <2>2
    <2> QED
        BY <1>18, <2>1, <2>3
<1>19. ASSUME \A i \in 1 .. n : p[pk[i]] = b[bk[i]], NEW k \in 1 .. Len(P) PROVE p[P[k]] = b[B[k]]
    <2>1. at(k) \in 1 .. n /\ P[k] = pk[at(k)] /\ B[k] = bk[at(k)]
        BY <1>11, <1>12, <1>15
    <2> QED
        BY <1>19, <2>1
<1> QED
    BY <1>16, <1>17, <1>18, <1>19

\* If the keys are in order, nothing is returned that does not match
\* (contruct_joined_chunk); hash_match_OnlyMatchesEmitted shows what happens otherwise.
THEOREM OnlyMatches ==
    ASSUME \A p \in Plans : KeysInOrder(p)
    PROVE  Spec => []OnlyMatchesEmitted
<1>1. HashMatchInv => OnlyMatchesEmitted
    <2> SUFFICES ASSUME HashMatchInv, NEW k \in DOMAIN out
                 PROVE  Matches(probe[out[k][1]], build[out[k][2]])
        BY DEF OnlyMatchesEmitted
    <2>1. SameKeys(probe[out[k][1]], build[out[k][2]])
        BY Returned DEF Let
    <2>2. TypeInv /\ KeysInOrder(plan)
        BY DEF HashMatchInv, TypeInv
    <2> QED
        BY <2>1, <2>2, ComparedAsAsked
<1> QED
    BY <1>1, PairsCounted, PTL

\* And nothing that matches is left out.
THEOREM AllMatches ==
    ASSUME \A p \in Plans : KeysInOrder(p)
    PROVE  Spec => []EveryMatchEmitted
<1>1. HashMatchInv => EveryMatchEmitted
    <2> SUFFICES ASSUME HashMatchInv, NEW i \in 1 .. Len(probe), NEW j \in 1 .. Len(build),
                        Matches(probe[i], build[j])
                 PROVE  <<i, j>> \in ToSet(out)
        BY DEF EveryMatchEmitted
    <2>1. TypeInv /\ KeysInOrder(plan) /\ Emitted
        BY DEF HashMatchInv, TypeInv
    <2>2. SameKeys(probe[i], build[j])
        BY <2>1, ComparedAsAsked
    <2>3. i \in Int /\ j \in Int /\ Let(i, j)
        BY <2>2 DEF Let
    <2>4. Times(out, <<i, j>>) = plan.buildWidth
        BY <2>1, <2>3 DEF Emitted
    <2>5. Times(out, <<i, j>>) # 0 /\ out \in Seq(Pairs)
        BY <2>1, <2>4, PlanFacts DEF TypeInv
    <2>6. \E k \in DOMAIN out : out[k] = <<i, j>>
        BY <2>5, TimesType
    <2> QED
        BY <2>6 DEF ToSet
<1> QED
    BY <1>1, PairsCounted, PTL
=============================================================================
