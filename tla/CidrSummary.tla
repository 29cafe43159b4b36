----------------------------- MODULE CidrSummary -----------------------------
(***************************************************************************)
(* SummarizeCIDRs of internal/route/manager.go on IPv4: repeated passes    *)
(* over the sorted blocks merge two halves of a block into it.  Addresses  *)
(* have W bits, 32 in the code; start and size are unsigned words of that  *)
(* width and wrap around.  Every list of routes goes through it before it  *)
(* reaches the system's table.                                             *)
(***************************************************************************)
EXTENDS Naturals, Sequences, FiniteSets, Functions

CONSTANTS
  W,      \* bits of an address: 32 in the code
  Inputs  \* the sets of blocks to summarize

Wrap == 2 ^ W
Addresses == 0 .. Wrap - 1
Lengths == 0 .. W
Size(prefix) == IF prefix = W THEN 1 ELSE 2 ^ (W - prefix) % Wrap

\* cidrToBlock masks the address: a block begins at a multiple of its length.
Blocks == {b \in [start : Addresses, prefix : Lengths] :
             b.start % 2 ^ (W - b.prefix) = 0}

ASSUME SummaryAssumption == W \in Nat \ {0} /\ Inputs \subseteq SUBSET Blocks

VARIABLES
  input,   \* the distinct valid blocks of the argument
  blocks,  \* the list the current pass reads
  merged,  \* the list it writes
  i,       \* its index
  changed,
  pc

vars == <<input, blocks, merged, i, changed, pc>>

-----------------------------------------------------------------------------
Before(a, b) == a.start < b.start \/ (a.start = b.start /\ a.prefix < b.prefix)

\* sort.Slice: the element of rank n has n - 1 before it; equal ones stay apart.
Sorted(s) ==
  [n \in DOMAIN s |->
    s[CHOOSE j \in DOMAIN s :
        n - 1 = Cardinality({k \in DOMAIN s :
                  Before(s[k], s[j]) \/ (s[k] = s[j] /\ k < j)})]]

-----------------------------------------------------------------------------
(* Faulty variants of definitions below, with the mistake their names say:  *)
(* the properties are tested by putting one in the place of its original.  *)

Adjacent_AnyLength(b, other) ==
  b.prefix # 0 /\ (b.start + Size(b.prefix)) % Wrap = other.start

EndPass_Once ==
  /\ pc = "scan" /\ i > Len(blocks)
  /\ blocks' = merged
  /\ pc' = "done"
  /\ UNCHANGED <<input, merged, i, changed>>

-----------------------------------------------------------------------------
(* The passes. *)

\* canMerge up to its remainder: b is followed by other, of the same length.
Adjacent(b, other) ==
  /\ b.prefix = other.prefix /\ b.prefix # 0
  /\ (b.start + Size(b.prefix)) % Wrap = other.start

ParentSize(b) == Size(b.prefix) * 2 % Wrap

Sort ==
  /\ pc = "sort"
  /\ blocks' = Sorted(blocks)
  /\ merged' = <<>> /\ i' = 1 /\ changed' = FALSE
  /\ pc' = "scan"
  /\ UNCHANGED input

HasPair == i < Len(blocks) /\ Adjacent(blocks[i], blocks[i + 1])

\* The remainder by a parent size that has wrapped to zero stops the program.
DivideByZero ==
  /\ pc = "scan" /\ HasPair
  /\ ParentSize(blocks[i]) = 0
  /\ pc' = "panic"
  /\ UNCHANGED <<input, blocks, merged, i, changed>>

CanMerge ==
  HasPair /\ ParentSize(blocks[i]) # 0 /\ blocks[i].start % ParentSize(blocks[i]) = 0

\* Faulty: the second half is read once more.
Merge_NoSkip ==
  /\ pc = "scan" /\ CanMerge
  /\ merged' = Append(merged, [blocks[i] EXCEPT !.prefix = @ - 1])
  /\ i' = i + 1 /\ changed' = TRUE
  /\ UNCHANGED <<input, blocks, pc>>

Merge ==
  /\ pc = "scan" /\ CanMerge
  /\ merged' = Append(merged, [blocks[i] EXCEPT !.prefix = @ - 1])
  /\ i' = i + 2 /\ changed' = TRUE
  /\ UNCHANGED <<input, blocks, pc>>

Keep ==
  /\ pc = "scan" /\ i <= Len(blocks)
  /\ HasPair => ParentSize(blocks[i]) # 0
  /\ ~CanMerge
  /\ merged' = Append(merged, blocks[i])
  /\ i' = i + 1
  /\ UNCHANGED <<input, blocks, changed, pc>>

EndPass ==
  /\ pc = "scan" /\ i > Len(blocks)
  /\ blocks' = merged
  /\ pc' = IF changed THEN "sort" ELSE "done"
  /\ UNCHANGED <<input, merged, i, changed>>

\* The first step sorts, so the order of the argument does not matter.
InOrder(S) ==
  [n \in 1..Cardinality(S) |->
    CHOOSE b \in S : n - 1 = Cardinality({a \in S : Before(a, b)})]

Init ==
  /\ input \in Inputs
  /\ blocks = InOrder(input)
  /\ merged = <<>> /\ i = 1 /\ changed = FALSE
  /\ pc = IF input = {} THEN "done" ELSE "sort"

Next == Sort \/ DivideByZero \/ Merge \/ Keep \/ EndPass
Spec == Init /\ [][Next]_vars

-----------------------------------------------------------------------------
(* Properties. *)

Covers(b) == {a \in Addresses : b.start <= a /\ a < b.start + 2 ^ (W - b.prefix)}
Covered(S) == UNION {Covers(b) : b \in S}
Disjoint(S) == \A a, b \in S : a # b => Covers(a) \cap Covers(b) = {}

\* What the pass has written and what it has still to read.
Current == IF pc \in {"scan", "panic"}
           THEN Range(merged) \cup Range(SubSeq(blocks, i, Len(blocks)))
           ELSE Range(blocks)

\* A merge neither sends an address past the VPN that the rules keep in it, nor
\* the other way round, at any point of any pass.
CoverageKept == Covered(Current) = Covered(input)

\* canMerge looks only at neighbours of the sorted list.  For disjoint routes
\* that is enough: no route is repeated and no two halves of a block are left.
Minimal ==
  pc = "done" /\ Disjoint(input) =>
    \A m, n \in DOMAIN blocks :
      m # n /\ blocks[m].prefix = blocks[n].prefix
        => LET parent == 2 ^ (W - blocks[m].prefix + 1)
           IN  blocks[m].start \div parent # blocks[n].start \div parent

\* A pass that changes something leaves fewer blocks, so the passes end.
PassesShrink == [][pc' = "sort" => Len(blocks') < Len(blocks)]_vars

\* Routes that leave out a single address never stop the program: canMerge divides
\* by zero only when the argument, whatever its blocks, covers the whole space.
PanicNeedsWhole == pc = "panic" => Covered(input) = Addresses

\* docs/manual-verification-checklist.md:56: the two halves of the address
\* space, 0.0.0.0/1 and 128.0.0.0/1, are routes that reach the table.
HalvesReachTable ==
  (pc \in {"done", "panic"} /\ input = {b \in Blocks : b.prefix = 1})
    => pc = "done" /\ Range(blocks) = input
=============================================================================
