-------------------------------- MODULE Cksum --------------------------------
(***************************************************************************)
(* fletcher_cksum() and is_cksum_valid() (src/include/drat/func/cksum.c:   *)
(* 26-97), by which drat tells a block that was written whole from one     *)
(* that was not.  Words have 2^32 values in the code and Width here; sums  *)
(* are kept in twice as many bits.                                         *)
(***************************************************************************)
EXTENDS Integers

CONSTANTS
  Width,       \* the number of values of a word
  num_words,   \* globals.block_size / 4
  Words        \* those that blocks are made of

ASSUME WordsAssumption ==
  /\ Width \in Nat /\ Width >= 2
  /\ num_words \in Nat /\ num_words >= 2
  /\ Words \subseteq 0 .. Width - 1

modulus == Width - 1      \* ~0, all ones
Block == [0 .. num_words - 1 -> Words]

VARIABLES
  block,        \* the block
  compute,      \* the argument compute
  i,            \* the next word
  simple_sum, second_sum,
  result        \* the value returned, or -1

cksum_vars == <<block, compute, i, simple_sum, second_sum, result>>

CksumInit ==
  /\ block \in Block
  /\ compute \in BOOLEAN
  /\ i = IF compute THEN 2 ELSE 0
  /\ simple_sum = 0
  /\ second_sum = 0
  /\ result = -1

(* Mutant: the modulus is not taken.                                       *)
AddUnreduced(sum, x) == sum + x

(* Mutant: = for +=.                                                       *)
Assign(sum, x) == x % modulus

(* What either sum becomes when x is added to it.                          *)
Add(sum, x) == (sum + x) % modulus

AddWord ==
  /\ result = -1
  /\ i < num_words
  /\ simple_sum' = Add(simple_sum, block[i])
  /\ second_sum' = Add(second_sum, simple_sum')
  /\ i' = i + 1
  /\ UNCHANGED <<block, compute, result>>

(* Mutant: the second sum is left out.                                     *)
LowWordOfSimple(s, t) == modulus - (s % modulus)

(* c1, into which simple_sum is turned whatever `compute' is.              *)
LowWord(s, t) == modulus - ((s + t) % modulus)

ReturnCksum ==
  /\ result = -1
  /\ i = num_words
  /\ result' = second_sum * Width + LowWord(simple_sum, second_sum)
  /\ UNCHANGED <<block, compute, i, simple_sum, second_sum>>

CksumNext == AddWord \/ ReturnCksum

CksumSpec == CksumInit /\ [][CksumNext]_cksum_vars

-----------------------------------------------------------------------------
(* Properties.                                                             *)

(* The sums fit in their words, and before they are reduced in twice that. *)
CksumTypeOK ==
  /\ block \in Block
  /\ compute \in BOOLEAN
  /\ i \in 0 .. num_words
  /\ simple_sum \in 0 .. modulus - 1
  /\ second_sum \in 0 .. modulus - 1
  /\ result \in -1 .. Width * Width - 1

(* Reference: the words behind the checksum, plainly and by their distance *)
(* from the end, and APFS's variant of the checksum as the comment at      *)
(* cksum.c:45-57 has it, with the modulus for a c1 of 0.                   *)
SumTo(f) ==
  LET sum[n \in 2 .. num_words] == IF n = 2 THEN 0 ELSE sum[n - 1] + f[n - 1]
  IN sum

Weighted(b) == [j \in 2 .. num_words - 1 |-> (num_words - j) * b[j]]

Sum(b) == SumTo(b)[num_words]
WeightedSum(b) == SumTo(Weighted(b))[num_words]

c1(b) == modulus - ((Sum(b) + WeightedSum(b)) % modulus)
c2(b) == (modulus - ((Sum(b) + c1(b)) % modulus)) % modulus

(* The computed value is the checksum the comment describes, although its  *)
(* second half is never computed as described: it "always just equals      *)
(* `second_sum` itself" (cksum.c:53-57).                                   *)
ComputesCksum ==
  compute /\ result # -1 => result = c2(block) * Width + c1(block)

(* What the loop makes of block b from word number 2 on.                   *)
Loop(b) ==
  LET sums[n \in 2 .. num_words] ==
        IF n = 2 THEN [simple |-> 0, second |-> 0]
        ELSE [simple |-> Add(sums[n - 1].simple, b[n - 1]),
              second |-> Add(sums[n - 1].second, Add(sums[n - 1].simple, b[n - 1]))]
  IN sums

ChecksumOf(b) ==
  LET last == Loop(b)[num_words]
  IN last.second * Width + LowWord(last.simple, last.second)

(* What damage is noticed: a word changed anywhere behind the checksum,    *)
(* except where 0 and all ones, the modulus, stand for each other; and an  *)
(* exchange of two words, unless their difference times their distance is  *)
(* a multiple of the modulus.  Neighbours that differ are told apart; but  *)
(* 2^32 - 1 is a multiple of 3, and words three apart may differ by a      *)
(* third of it.  A block of zeros, such as one never written, is not       *)
(* valid: there is no block whose checksum is 0.                           *)
Congruent(u, v) == u % modulus = v % modulus

DetectsDamage ==
  /\ result # 0
  /\ compute /\ result # -1 =>
       \A k \in 2 .. num_words - 1 :
         /\ \A w \in 0 .. modulus :
              ChecksumOf([block EXCEPT ![k] = w]) = result <=> Congruent(w, block[k])
         /\ \A l \in 2 .. k - 1 :
              ChecksumOf([block EXCEPT ![k] = block[l], ![l] = block[k]]) = result
                <=> Congruent((k - l) * block[k], (k - l) * block[l])

=============================================================================
