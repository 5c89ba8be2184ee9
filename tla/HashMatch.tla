----------------------------- MODULE HashMatch -----------------------------
(***************************************************************************)
(* One task of a hash join (pop_hashmatch.rs, pop_hash.rs): HashMatchContext *)
(* copies the chunks of its second child into build arrays, files their    *)
(* rows under the hash of the key, and then joins each chunk of its first  *)
(* child with the rows of the same hash.  NSPLITS is 1.                    *)
(*                                                                         *)
(* A row is a tuple of values.  Keys are without NULL.                     *)
(***************************************************************************)
EXTENDS Integers, Sequences, FiniteSets, SequencesExt

CONSTANTS
    Plans,      \* the joins: widths of the inputs and key columns of both
    Values,     \* the values of a column
    MaxRows     \* bound on the rows of an input

\* keycols of both children, in the order of the join predicates.
IsPlan(plan) ==
    /\ plan.probeWidth \in Nat \ {0} /\ plan.buildWidth \in Nat \ {0}
    /\ plan.probeKey \in Seq(1 .. plan.probeWidth)
    /\ plan.buildKey \in Seq(1 .. plan.buildWidth)
    /\ Len(plan.probeKey) = Len(plan.buildKey)
    /\ plan.probeKey # << >>

ASSUME PlansAssumption == \A plan \in Plans : IsPlan(plan)

VARIABLES
    plan,       \* the join of this task
    pc,         \* "build", "probe", "done" or "panicked"
    build,      \* the rows of the build arrays
    hash_map,   \* hash -> rows of the build arrays
    probe,      \* the rows of the probe chunks so far
    out         \* the joined rows, as pairs of places in probe and build

vars == <<plan, pc, build, hash_map, probe, out>>

Rows(width) == [1 .. width -> Values]

\* hash_chunk: every key column overwrites what was there by the same number.
Hash == 999

Init ==
    /\ plan \in Plans
    /\ pc = "build"
    /\ build = << >>
    /\ hash_map = [h \in {Hash} |-> << >>]
    /\ probe = << >>
    /\ out = << >>

-----------------------------------------------------------------------------
(* Build. *)

Chunks(width) == {<< >>} \union {<<r>> : r \in Rows(width)} \union {<<r, s>> : r, s \in Rows(width)}

\* Variant: the places are counted in the chunk, not in the build array.
RidsInChunk(c) == [i \in 1 .. Len(c) |-> i]

\* Where copy_to_build_array puts the rows of a chunk.
RidsOf(c) == [i \in 1 .. Len(c) |-> Len(build) + i]

\* insert copies column by column, and files the rows with each column.
BuildChunk ==
    /\ pc = "build"
    /\ \E c \in Chunks(plan.buildWidth) :
          /\ Len(build) + Len(c) <= MaxRows
          /\ build' = build \o c
          /\ hash_map' = [hash_map EXCEPT ![Hash] =
                              @ \o FlattenSeq([col \in 1 .. plan.buildWidth |-> RidsOf(c)])]
    /\ UNCHANGED <<plan, pc, probe, out>>

\* A chunk without columns is what a join below returns when nothing matches: the
\* first key column of it does not exist.
BuildVoidChunk ==
    /\ pc = "build"
    /\ pc' = "panicked"
    /\ UNCHANGED <<plan, build, hash_map, probe, out>>

BuildDone ==
    /\ pc = "build"
    /\ pc' = "probe"
    /\ UNCHANGED <<plan, build, hash_map, probe, out>>

-----------------------------------------------------------------------------
(* Probe. *)

\* The key columns in the order of the columns, each once.
Columns(key, width) == FlattenSeq([ix \in 1 .. width |-> IF ix \in ToSet(key) THEN <<ix>> ELSE << >>])

\* Variant: the rows that have the hash are not looked at again.
SameKeysUnchecked(p, b) == TRUE

\* contruct_joined_chunk compares the key columns of both sides pair by pair.
SameKeys(p, b) ==
    LET pcols == Columns(plan.probeKey, plan.probeWidth)
        bcols == Columns(plan.buildKey, plan.buildWidth)
    IN \A i \in DOMAIN pcols \intersect DOMAIN bcols : p[pcols[i]] = b[bcols[i]]

\* Variant: a probe row is joined with the first row of its hash.
FindFirstMatch(c) ==
    FlattenSeq([i \in 1 .. Len(c) |->
        LET matches == hash_map[Hash] IN
        [j \in DOMAIN matches \intersect {1} |-> <<i, matches[j]>>]])

\* find_matches: every row of a chunk with every row filed under its hash.
FindMatches(c) ==
    FlattenSeq([i \in 1 .. Len(c) |->
        LET matches == hash_map[Hash] IN
        [j \in DOMAIN matches |-> <<i, matches[j]>>]])

\* The places of the pairs of places in a chunk and in build whose rows match.
Joined(c, pairs) ==
    FlattenSeq([k \in DOMAIN pairs |->
        IF SameKeys(c[pairs[k][1]], build[pairs[k][2]])
        THEN << <<Len(probe) + pairs[k][1], pairs[k][2]>> >>
        ELSE << >>])

\* next_join passes over chunks that are empty.
ProbeChunk ==
    /\ pc = "probe"
    /\ \E c \in Chunks(plan.probeWidth) \ {<< >>} :
          /\ Len(probe) + Len(c) <= MaxRows
          /\ probe' = probe \o c
          /\ out' = out \o Joined(c, FindMatches(c))
    /\ UNCHANGED <<plan, pc, build, hash_map>>

ProbeDone ==
    /\ pc = "probe"
    /\ pc' = "done"
    /\ UNCHANGED <<plan, build, hash_map, probe, out>>

Terminated == pc \in {"done", "panicked"} /\ UNCHANGED vars

Next == BuildChunk \/ BuildVoidChunk \/ BuildDone \/ ProbeChunk \/ ProbeDone \/ Terminated

Spec == Init /\ [][Next]_vars

-----------------------------------------------------------------------------
(* Properties. *)

\* The join predicate.
Matches(p, b) == \A i \in DOMAIN plan.probeKey : p[plan.probeKey[i]] = b[plan.buildKey[i]]

\* No pair is left out, whichever chunks its rows came in.
EveryMatchEmitted ==
    pc # "panicked" =>
        \A i \in 1 .. Len(probe), j \in 1 .. Len(build) :
            Matches(probe[i], build[j]) => <<i, j>> \in ToSet(out)

\* "So far, we've only matched build/probe based on hash-values. Make sure the actual
\* keys match." (contruct_joined_chunk): what is returned fulfils the join predicate.
OnlyMatchesEmitted == \A k \in DOMAIN out : Matches(probe[out[k][1]], build[out[k][2]])

\* insert files a row once for each column of the build side, and nothing else makes a pair
\* twice: it is joined as many times, once only if the build side has one column.
EmittedPerColumn ==
    \A k \in DOMAIN out : Cardinality({j \in DOMAIN out : out[j] = out[k]}) = plan.buildWidth
=============================================================================
