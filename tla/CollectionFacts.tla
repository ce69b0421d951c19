-------------------------- MODULE CollectionFacts --------------------------
(***************************************************************************)
(* Facts about sequences and numbers that the proofs about collections     *)
(* rest on: what a write to one document and an insert do to a collection, *)
(* and that a set of _ids has a first one.                                 *)
(***************************************************************************)
EXTENDS Integers, Sequences, FiniteSets, TLAPS, SequenceTheorems, FiniteSetTheorems

(* A function on 1..n is a sequence. *)
LEMMA FunctionIsSeq ==
    ASSUME NEW S, NEW n \in Nat, NEW f \in [1..n -> S]
    PROVE  f \in Seq(S) /\ Len(f) = n
BY SMT

(* updateOne: a write to one document, which does nothing if there is none. *)
LEMMA SeqExcept ==
    ASSUME NEW S, NEW seq \in Seq(S), NEW i, NEW e, i \in DOMAIN seq => e \in S
    PROVE  /\ [seq EXCEPT ![i] = e] \in Seq(S)
           /\ Len([seq EXCEPT ![i] = e]) = Len(seq)
           /\ DOMAIN [seq EXCEPT ![i] = e] = DOMAIN seq
           /\ \A j \in DOMAIN seq :
                [seq EXCEPT ![i] = e][j] = IF j = i THEN e ELSE seq[j]
<1>1. CASE i \in 1..Len(seq)
  BY <1>1, ExceptSeq
<1>2. CASE i \notin 1..Len(seq)
  <2>1. [seq EXCEPT ![i] = e] = seq
    BY <1>2, LenProperties
  <2> QED
    BY <2>1
<1> QED
  BY <1>1, <1>2

(* insertOne: the documents that were there keep their _ids. *)
LEMMA SeqAppend ==
    ASSUME NEW S, NEW seq \in Seq(S), NEW e \in S
    PROVE  /\ Append(seq, e) \in Seq(S)
           /\ Len(Append(seq, e)) = Len(seq) + 1
           /\ DOMAIN Append(seq, e) = DOMAIN seq \cup {Len(seq) + 1}
           /\ \A i \in DOMAIN seq : Append(seq, e)[i] = seq[i]
           /\ Append(seq, e)[Len(seq) + 1] = e
BY SMT

(* A nonempty set of numbers has a least one. *)
LEMMA MinExists ==
    ASSUME NEW S \in SUBSET Nat, S # {}
    PROVE  \E i \in S : \A j \in S : i <= j
<1>1. PICK n \in S : TRUE
  OBVIOUS
<1> DEFINE Below == {0..i : i \in {j \in S : j <= n}}
<1>2. Below \subseteq FiniteSubsetsOf(0..n)
  <2>1. ASSUME NEW i \in S, i <= n
        PROVE  0..i \subseteq 0..n /\ IsFiniteSet(0..i)
    <3>1. 0..i \subseteq 0..n
      BY <2>1
    <3>2. IsFiniteSet(0..i)
      BY FS_Interval
    <3> QED
      BY <3>1, <3>2
  <2> QED
    BY <2>1 DEF FiniteSubsetsOf
<1>3. Below # {}
  OBVIOUS
<1>4. PICK T \in Below : \A U \in Below : <<U, T>> \notin StrictSubsetOrdering(0..n)
  <2> HIDE DEF Below
  <2> QED
    BY <1>2, <1>3, FS_StrictSubsetOrderingWellFounded, WFMin
<1>5. PICK i \in S : i <= n /\ T = 0..i
  OBVIOUS
<1>6. ASSUME NEW j \in S, j < i
      PROVE  FALSE
  <2>1. 0..j \in Below
    BY <1>5, <1>6
  <2>2. 0..j \subseteq 0..i /\ 0..i \subseteq 0..n /\ 0..j # 0..i
    <3>1. 0..j \subseteq 0..i /\ 0..i \subseteq 0..n
      BY <1>5, <1>6
    <3>2. i \in 0..i /\ i \notin 0..j
      BY <1>6
    <3> QED
      BY <3>1, <3>2
  <2>3. <<0..j, 0..i>> \in StrictSubsetOrdering(0..n)
    BY <2>2 DEF StrictSubsetOrdering
  <2> QED
    BY <1>4, <1>5, <2>1, <2>3
<1> QED
  BY <1>6

=============================================================================
