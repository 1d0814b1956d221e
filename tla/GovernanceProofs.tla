-------------------------- MODULE GovernanceProofs --------------------------
(***************************************************************************)
(* Proofs about Governance for any number of deciders, bundles and fields: *)
(* whether or not decisions overlap, the register only ever holds values   *)
(* that successful decisions were given; a decision made alone changes     *)
(* what it was given and nothing else; and while decisions are made one at *)
(* a time, the audit trail links up and replays to the register (TrailInv).*)
(***************************************************************************)
EXTENDS Governance, Foundations, TLAPS

\* A value of field f of bundle b that a successful decision was given.
Decided(b, f, value) ==
    \E d \in Deciders : pc[d] = "done" /\ request[d].bundle = b /\ request[d].new[f] = value

\* What a decision has read was decided too: a decision that is done stays done.
ReadsDecided ==
    \A d \in Deciders, f \in Fields :
        pc[d] \in {"read_seq", "write", "commit"} /\ old[d][f] # Null =>
            Decided(request[d].bundle, f, old[d][f])

Shapes ==
    /\ pc \in [Deciders -> {"ready", "read_seq", "write", "commit"} \cup Ended]
    /\ request \in [Deciders -> Requests]
    /\ old \in [Deciders -> Rows]
    /\ register \in [Bundles -> Rows]

DecidedInv ==
    /\ Shapes
    /\ ReadsDecided
    /\ \A b \in Bundles, f \in Fields :
          register[b][f] # Null => Decided(b, f, register[b][f])

LEMMA InitDecided == Init => DecidedInv
BY DEF Init, DecidedInv, Shapes, ReadsDecided, NoRow, Rows

LEMMA MergedType ==
    ASSUME Shapes, NEW d \in Deciders
    PROVE  Merged(d) \in Rows
BY DEF Shapes, Merged, Rows, Requests

LEMMA NextDecided == DecidedInv /\ [Next]_vars => DecidedInv'
<1> SUFFICES ASSUME DecidedInv, [Next]_vars PROVE DecidedInv'
  OBVIOUS
<1>0. Shapes
  BY DEF DecidedInv
<1>1. ASSUME NEW d \in Deciders, ReadRow(d) PROVE DecidedInv'
  <2>1. /\ pc[d] = "ready" /\ pc' = [pc EXCEPT ![d] = "read_seq"]
        /\ old' = [old EXCEPT ![d] = register[request[d].bundle]]
        /\ UNCHANGED <<request, register>>
    BY <1>1 DEF ReadRow, Goto
  <2>2. request[d].bundle \in Bundles /\ register[request[d].bundle] \in Rows
    BY <1>0 DEF Shapes, Requests
  <2>3. Shapes'
    BY <1>0, <2>1, <2>2 DEF Shapes
  <2> DEFINE StillDecided(b, f, value) ==
          \E e \in Deciders :
              pc'[e] = "done" /\ request[e].bundle = b /\ request[e].new[f] = value
  <2>4. \A b, f, value : Decided(b, f, value) => StillDecided(b, f, value)
    BY <1>0, <2>1 DEF Shapes, Decided
  <2>5. ASSUME NEW e \in Deciders, NEW f \in Fields,
               pc'[e] \in {"read_seq", "write", "commit"}, old'[e][f] # Null
        PROVE  StillDecided(request[e].bundle, f, old'[e][f])
    <3>1. CASE e = d
      <4>1. old'[e][f] = register[request[e].bundle][f]
        BY <1>0, <2>1, <3>1 DEF Shapes
      <4>2. Decided(request[e].bundle, f, register[request[e].bundle][f])
        BY <2>2, <2>5, <3>1, <4>1 DEF DecidedInv
      <4> QED
        BY <2>4, <4>1, <4>2
    <3>2. CASE e # d
      <4>1. pc[e] = pc'[e] /\ old'[e] = old[e]
        BY <1>0, <2>1, <3>2 DEF Shapes
      <4>2. Decided(request[e].bundle, f, old[e][f])
        BY <2>5, <4>1 DEF DecidedInv, ReadsDecided
      <4> QED
        BY <2>4, <4>1, <4>2
    <3> QED
      BY <3>1, <3>2
  <2>6. ASSUME NEW b \in Bundles, NEW f \in Fields, register[b][f] # Null
        PROVE  StillDecided(b, f, register[b][f])
    BY <2>4, <2>6 DEF DecidedInv
  <2> QED
    BY <2>1, <2>3, <2>5, <2>6 DEF DecidedInv, ReadsDecided, Decided
<1>2. ASSUME NEW d \in Deciders, ReadSeq(d) \/ Write(d) \/ WriteFails(d) \/ Crash(d)
      PROVE  DecidedInv'
  <2>1. PICK to \in {"write", "commit", "failed", "crashed"} :
            /\ pc' = [pc EXCEPT ![d] = to]
            /\ pc[d] # "done"
            /\ to \in {"write", "commit"} => pc[d] \in {"read_seq", "write"}
    BY <1>2 DEF ReadSeq, Write, WriteFails, Crash, Goto, Ended
  <2>2. UNCHANGED <<request, old, register>>
    BY <1>2 DEF ReadSeq, Write, WriteFails, Crash
  <2>3. Shapes'
    BY <1>0, <2>1, <2>2 DEF Shapes, Ended
  <2>4. \A e \in Deciders : pc[e] = "done" => pc'[e] = "done"
    BY <1>0, <2>1 DEF Shapes
  <2>5. \A e \in Deciders : pc'[e] \in {"read_seq", "write", "commit"} =>
            pc[e] \in {"read_seq", "write", "commit"}
    BY <1>0, <2>1 DEF Shapes
  <2> QED
    BY <2>2, <2>3, <2>4, <2>5 DEF DecidedInv, ReadsDecided, Decided
<1>3. ASSUME NEW d \in Deciders, CommitDecision(d) PROVE DecidedInv'
  <2> DEFINE b0 == request[d].bundle
  <2>1. /\ pc[d] = "commit" /\ pc' = [pc EXCEPT ![d] = "done"]
        /\ register' = [register EXCEPT ![b0] = Merged(d)]
        /\ UNCHANGED <<request, old>>
    BY <1>3 DEF CommitDecision, Goto
  <2>2. b0 \in Bundles /\ Merged(d) \in Rows
    BY <1>0, MergedType DEF Shapes, Requests
  <2>3. Shapes'
    BY <1>0, <2>1, <2>2 DEF Shapes, Ended
  <2>4. /\ \A e \in Deciders : pc[e] = "done" => pc'[e] = "done"
        /\ pc'[d] = "done"
        /\ \A e \in Deciders : pc'[e] \in {"read_seq", "write", "commit"} => pc[e] = pc'[e]
    BY <1>0, <2>1 DEF Shapes
  <2>5. ReadsDecided'
    BY <2>1, <2>4 DEF DecidedInv, ReadsDecided, Decided
  <2>6. ASSUME NEW b \in Bundles, NEW f \in Fields, register'[b][f] # Null
        PROVE  \E e \in Deciders : /\ pc'[e] = "done" /\ request[e].bundle = b
                                   /\ request[e].new[f] = register'[b][f]
    <3>1. CASE b # b0
      <4>1. register'[b] = register[b]
        BY <1>0, <2>1, <3>1 DEF Shapes
      <4> QED
        BY <2>4, <2>6, <4>1 DEF DecidedInv, Decided
    <3>2. CASE b = b0 /\ request[d].new[f] # Null
      <4>1. register'[b][f] = request[d].new[f]
        BY <1>0, <2>1, <2>2, <3>2 DEF Shapes, Merged
      <4> QED
        BY <2>4, <3>2, <4>1
    <3>3. CASE b = b0 /\ request[d].new[f] = Null
      <4>1. register'[b][f] = old[d][f]
        BY <1>0, <2>1, <2>2, <3>3 DEF Shapes, Merged
      <4>2. Decided(b, f, old[d][f])
        BY <2>1, <2>6, <3>3, <4>1 DEF DecidedInv, ReadsDecided
      <4> QED
        BY <2>4, <4>1, <4>2 DEF Decided
    <3> QED
      BY <3>1, <3>2, <3>3
  <2> QED
    BY <2>1, <2>3, <2>5, <2>6 DEF DecidedInv, Decided
<1>4. CASE UNCHANGED vars
  BY <1>4 DEF vars, DecidedInv, Shapes, ReadsDecided, Decided
<1> QED
  BY <1>1, <1>2, <1>3, <1>4 DEF Next

\* Whatever decisions race, fail and die, the register never holds a value that no
\* successful decision was given for that field.
THEOREM RegisterAlwaysDecided == Spec => []RegisterHoldsDecisions
<1>1. DecidedInv => RegisterHoldsDecisions
  BY DEF DecidedInv, Decided, RegisterHoldsDecisions
<1> QED
  BY <1>1, InitDecided, NextDecided, PTL DEF Spec

-----------------------------------------------------------------------------
UnderWay == {"read_seq", "write", "commit"}

\* While no two decisions have overlapped, at most one is under way, and the row
\* it has read is still the one in the register.
Alone ==
    ~overlapped =>
        /\ \A d, e \in Deciders : pc[d] \in UnderWay /\ pc[e] \in UnderWay => d = e
        /\ \A d \in Deciders : pc[d] \in UnderWay => old[d] = register[request[d].bundle]

SerialInv == Shapes /\ Alone

LEMMA InitSerial == Init => SerialInv
BY DEF Init, SerialInv, Shapes, Alone, UnderWay, NoRow, Rows

LEMMA NextSerial == SerialInv /\ [Next]_vars => SerialInv'
<1> SUFFICES ASSUME SerialInv, [Next]_vars PROVE SerialInv'
  OBVIOUS
<1>0. Shapes
  BY DEF SerialInv
<1>1. ASSUME NEW d \in Deciders, ReadRow(d) PROVE SerialInv'
  <2>1. /\ pc[d] = "ready" /\ pc' = [pc EXCEPT ![d] = "read_seq"]
        /\ old' = [old EXCEPT ![d] = register[request[d].bundle]]
        /\ UNCHANGED <<request, register>>
        /\ overlapped' = (overlapped \/ \E e \in Deciders : pc[e] \notin Ended \cup {"ready"})
    BY <1>1 DEF ReadRow, Goto
  <2>2. Shapes'
    BY <1>0, <2>1 DEF Shapes, Requests
  <2>3. ASSUME ~overlapped'
        PROVE  \A e \in Deciders : pc'[e] \in UnderWay => e = d
    BY <1>0, <2>1, <2>3 DEF Shapes, UnderWay, Ended
  <2>4. old'[d] = register[request[d].bundle]
    BY <1>0, <2>1 DEF Shapes
  <2> QED
    BY <2>1, <2>2, <2>3, <2>4 DEF SerialInv, Alone
<1>2. ASSUME NEW d \in Deciders, ReadSeq(d) \/ Write(d) \/ WriteFails(d) \/ Crash(d)
      PROVE  SerialInv'
  <2>1. PICK to \in {"write", "commit", "failed", "crashed"} :
            /\ pc' = [pc EXCEPT ![d] = to]
            /\ to \in {"write", "commit"} => pc[d] \in {"read_seq", "write"}
    BY <1>2 DEF ReadSeq, Write, WriteFails, Crash, Goto
  <2>2. UNCHANGED <<request, old, register, overlapped>>
    BY <1>2 DEF ReadSeq, Write, WriteFails, Crash
  <2>3. Shapes'
    BY <1>0, <2>1, <2>2 DEF Shapes, Ended
  <2>4. \A e \in Deciders : pc'[e] \in UnderWay => pc[e] \in UnderWay
    BY <1>0, <2>1 DEF Shapes, UnderWay
  <2> QED
    BY <2>2, <2>3, <2>4 DEF SerialInv, Alone
<1>3. ASSUME NEW d \in Deciders, CommitDecision(d) PROVE SerialInv'
  <2>1. /\ pc[d] = "commit" /\ pc' = [pc EXCEPT ![d] = "done"]
        /\ register' = [register EXCEPT ![request[d].bundle] = Merged(d)]
        /\ UNCHANGED <<request, old, overlapped>>
    BY <1>3 DEF CommitDecision, Goto
  <2>2. Shapes'
    BY <1>0, <2>1, MergedType DEF Shapes, Requests, Ended
  <2>3. ~overlapped' => \A e \in Deciders : pc'[e] \notin UnderWay
    BY <1>0, <2>1 DEF SerialInv, Alone, Shapes, UnderWay
  <2> QED
    BY <2>2, <2>3 DEF SerialInv, Alone
<1>4. CASE UNCHANGED vars
  BY <1>4 DEF vars, SerialInv, Shapes, Alone
<1> QED
  BY <1>1, <1>2, <1>3, <1>4 DEF Next

LEMMA SerialStep ==
    ASSUME SerialInv, Next, NEW b \in Bundles, NEW f \in Fields,
           ~overlapped, register'[b][f] # register[b][f]
    PROVE  \E d \in Deciders : Passes(d, b, f)
<1>1. PICK d \in Deciders : CommitDecision(d)
  BY DEF Next, ReadRow, ReadSeq, Write, WriteFails, Crash
<1>2. /\ pc[d] = "commit"
      /\ register' = [register EXCEPT ![request[d].bundle] = Merged(d)]
  BY <1>1 DEF CommitDecision
<1>3. b = request[d].bundle /\ register'[b] = Merged(d)
  BY <1>2 DEF SerialInv, Shapes, Requests
<1>4. old[d] = register[b]
  BY <1>2, <1>3 DEF SerialInv, Alone, UnderWay
<1>5. request[d].new[f] # Null /\ register'[b][f] = request[d].new[f]
  BY <1>3, <1>4 DEF Merged
<1> QED
  BY <1>2, <1>3, <1>5 DEF Passes

\* As long as decisions are made one at a time, a commit changes only the fields
\* that its decision was given, and to the values it was given.
THEOREM SerialDecisionsTouchOnlyTheirs == Spec => SerialDecisionsChangeWhatTheyPass
<1>1. SerialInv /\ [Next]_vars =>
        [\A b \in Bundles, f \in Fields :
            ~overlapped /\ register'[b][f] # register[b][f] =>
                \E d \in Deciders : Passes(d, b, f)]_vars
  BY SerialStep
<1> QED
  BY <1>1, InitSerial, NextSerial, PTL DEF Spec, SerialDecisionsChangeWhatTheyPass

-----------------------------------------------------------------------------
(* The fields a decision changes, in order *)

\* What an appended member adds to a sequence.
IsAppended(T, s, last, r) ==
    /\ r \in Seq(T) /\ Len(s) \in Nat /\ Len(r) = Len(s) + 1
    /\ r[Len(s) + 1] = last
    /\ \A k \in 1..Len(s) : r[k] = s[k]

LEMMA Appended ==
    ASSUME NEW T, NEW s \in Seq(T), NEW last \in T
    PROVE  IsAppended(T, s, last, Append(s, last))
BY DEF IsAppended

LEMMA SelectedFacts ==
    ASSUME NEW T, NEW seq \in Seq(T), NEW set,
           \A i, j \in 1..Len(seq) : seq[i] = seq[j] => i = j
    PROVE  /\ Selected(seq, set) \in Seq(T)
           /\ \A x : (\E k \in 1..Len(Selected(seq, set)) : Selected(seq, set)[k] = x) <=>
                        x \in set /\ \E i \in 1..Len(seq) : seq[i] = x
           /\ \A k, l \in 1..Len(Selected(seq, set)) :
                 Selected(seq, set)[k] = Selected(seq, set)[l] => k = l
<1> DEFINE n == Len(seq)
           Follows == [p \in Nat \X Seq(T) |->
                          IF p[1] \in 1..n /\ seq[p[1]] \in set THEN Append(p[2], seq[p[1]]) ELSE p[2]]
<1>1. n \in Nat /\ \A i \in 1..n : seq[i] \in T
  OBVIOUS
<1>2. Follows \in [Nat \X Seq(T) -> Seq(T)] /\ <<>> \in Seq(T)
  BY <1>1
<1>3. \A p \in Nat \X Seq(T) :
         Follows[p] = IF p[1] \in 1..n /\ seq[p[1]] \in set THEN Append(p[2], seq[p[1]]) ELSE p[2]
  OBVIOUS
<1> HIDE DEF Follows, n
<1>4. PICK f \in [Nat -> Seq(T)] :
         f[0] = <<>> /\ \A i \in Nat \ {0} : f[i] = Follows[<<i, f[i - 1]>>]
  <2>1. Follows \in Steps(Seq(T)) /\ <<>> \in Seq(T)
    BY <1>2 DEF Steps
  <2>2. \E f : f \in Unrolled(Seq(T), <<>>, Follows)
    BY <2>1, RecursiveFunction
  <2> QED
    BY <2>2 DEF Unrolled
<1> DEFINE g == [i \in 0..n |-> f[i]]
<1>5. g = [i \in 0..n |-> IF i = 0 THEN <<>>
                          ELSE IF seq[i] \in set THEN Append(g[i - 1], seq[i]) ELSE g[i - 1]]
  <2>1. ASSUME NEW i \in 0..n
        PROVE  f[i] = IF i = 0 THEN <<>>
                      ELSE IF seq[i] \in set THEN Append(g[i - 1], seq[i]) ELSE g[i - 1]
    <3>1. CASE i = 0
      BY <1>4, <3>1
    <3>2. CASE i # 0
      <4>1. i \in 1..n /\ i \in Nat /\ i - 1 \in 0..n /\ i - 1 \in Nat
        BY <1>1, <3>2
      <4>2. f[i] = Follows[<<i, f[i - 1]>>] /\ <<i, f[i - 1]>> \in Nat \X Seq(T)
        BY <1>4, <3>2, <4>1
      <4>3. g[i - 1] = f[i - 1]
        BY <4>1
      <4> HIDE DEF g
      <4> QED
        BY <1>3, <3>2, <4>1, <4>2, <4>3
    <3> QED
      BY <3>1, <3>2
  <2>2. \A i \in 0..n : g[i] = f[i]
    OBVIOUS
  <2> HIDE DEF g
  <2> QED
    BY <2>1, <2>2 DEF g
<1> HIDE DEF g
<1> DEFINE Upto == CHOOSE h :
        h = [i \in 0..n |-> IF i = 0 THEN <<>>
                            ELSE IF seq[i] \in set THEN Append(h[i - 1], seq[i]) ELSE h[i - 1]]
<1>6. Upto = [i \in 0..n |-> IF i = 0 THEN <<>>
                             ELSE IF seq[i] \in set THEN Append(Upto[i - 1], seq[i]) ELSE Upto[i - 1]]
  BY <1>5, Zenon
<1>7. Selected(seq, set) = Upto[n]
  BY Zenon DEF Selected, n
<1> HIDE DEF Upto
<1> DEFINE Holds(i) ==
      /\ Upto[i] \in Seq(T)
      /\ \A x : (\E k \in 1..Len(Upto[i]) : Upto[i][k] = x) <=>
                    x \in set /\ \E j \in 1..i : seq[j] = x
      /\ \A k, l \in 1..Len(Upto[i]) : Upto[i][k] = Upto[i][l] => k = l
<1> DEFINE Good == {i \in Nat : i <= n => Holds(i)}
<1>8. 0 \in Good
  <2>1. Upto[0] = <<>>
    BY <1>1, <1>6
  <2>2. Upto[0] \in Seq(T) /\ Len(Upto[0]) = 0
    BY <2>1
  <2>3. \A k \in 1..Len(Upto[0]) : FALSE
    BY <2>2
  <2>4. \A j \in 1..0 : FALSE
    OBVIOUS
  <2>5. Holds(0)
    BY <2>2, <2>3, <2>4
  <2> HIDE DEF Holds
  <2> QED
    BY <2>5
<1>9. ASSUME NEW i \in Nat, i \in Good PROVE i + 1 \in Good
  <2> SUFFICES ASSUME i + 1 <= n PROVE Holds(i + 1)
    OBVIOUS
  <2>1. Holds(i)
    BY <1>1, <1>9
  <2>2. i + 1 \in 1..n /\ i + 1 \in 0..n /\ (i + 1) - 1 = i /\ i + 1 # 0
    BY <1>1
  <2>3. Upto[i + 1] = IF seq[i + 1] \in set THEN Append(Upto[i], seq[i + 1]) ELSE Upto[i]
    BY <1>6, <2>2
  <2>4. \A j \in 1..(i + 1) : j \in 1..i \/ j = i + 1
    OBVIOUS
  <2>5. CASE seq[i + 1] \notin set
    <3>1. Upto[i + 1] = Upto[i]
      BY <2>3, <2>5
    <3>2. \A x : x \in set => ((\E j \in 1..(i + 1) : seq[j] = x) <=> \E j \in 1..i : seq[j] = x)
      <4>1. \A j \in 1..i : j \in 1..(i + 1)
        OBVIOUS
      <4> QED
        BY <2>4, <2>5, <4>1
    <3> QED
      BY <2>1, <3>1, <3>2
  <2>6. CASE seq[i + 1] \in set
    <3> DEFINE m == Len(Upto[i])
    <3>1. /\ Upto[i + 1] \in Seq(T) /\ m \in Nat /\ Len(Upto[i + 1]) = m + 1
          /\ Upto[i + 1][m + 1] = seq[i + 1]
          /\ \A k \in 1..m : Upto[i + 1][k] = Upto[i][k]
      <4>1. Upto[i] \in Seq(T) /\ seq[i + 1] \in T /\ Upto[i + 1] = Append(Upto[i], seq[i + 1])
        BY <1>1, <2>1, <2>2, <2>3, <2>6
      <4>2. IsAppended(T, Upto[i], seq[i + 1], Upto[i + 1])
        BY <4>1, Appended, SMTT(40)
      <4> QED
        BY <4>2 DEF IsAppended
    <3>4. \A x : (\E k \in 1..m : Upto[i][k] = x) <=> x \in set /\ \E j \in 1..i : seq[j] = x
      BY <2>1
    <3>5. \A k, l \in 1..m : Upto[i][k] = Upto[i][l] => k = l
      BY <2>1
    <3> HIDE DEF m
    <3>2. \A k \in 1..(m + 1) : k \in 1..m \/ k = m + 1
      BY <3>1
    <3>3. ASSUME NEW k \in 1..m PROVE Upto[i][k] # seq[i + 1]
      <4>1. PICK j \in 1..i : seq[j] = Upto[i][k]
        BY <3>4
      <4>2. j \in 1..n /\ j # i + 1
        BY <1>1, <2>2
      <4> QED
        BY <2>2, <4>1, <4>2 DEF n
    <3>6. ASSUME NEW x
          PROVE  (\E k \in 1..(m + 1) : Upto[i + 1][k] = x) <=>
                     x \in set /\ \E j \in 1..(i + 1) : seq[j] = x
      <4>1. (\E k \in 1..(m + 1) : Upto[i + 1][k] = x) <=>
               (\E k \in 1..m : Upto[i][k] = x) \/ seq[i + 1] = x
        <5>1. m + 1 \in 1..(m + 1) /\ \A k \in 1..m : k \in 1..(m + 1)
          BY <3>1
        <5> QED
          BY <3>1, <3>2, <5>1
      <4>2. (\E j \in 1..(i + 1) : seq[j] = x) <=> (\E j \in 1..i : seq[j] = x) \/ seq[i + 1] = x
        <5>1. i + 1 \in 1..(i + 1) /\ \A j \in 1..i : j \in 1..(i + 1)
          OBVIOUS
        <5> QED
          BY <2>4, <5>1
      <4> QED
        BY <2>6, <3>4, <4>1, <4>2
    <3>7. ASSUME NEW k \in 1..(m + 1), NEW l \in 1..(m + 1), Upto[i + 1][k] = Upto[i + 1][l]
          PROVE  k = l
      BY <3>1, <3>2, <3>3, <3>5, <3>7
    <3> QED
      BY <3>1, <3>6, <3>7
  <2> QED
    BY <2>5, <2>6
<1> HIDE DEF Holds
<1>10. n \in Good
  <2> HIDE DEF Good
  <2> QED
    BY <1>1, <1>8, <1>9, SetInduction
<1>11. Holds(n)
  BY <1>1, <1>10
<1> QED
  BY <1>7, <1>11 DEF Holds, n

LEMMA ChangesFacts ==
    ASSUME NEW d \in Deciders
    PROVE  /\ Changes(d) \in Seq(Fields)
           /\ \A f : (\E k \in 1..Len(Changes(d)) : Changes(d)[k] = f) <=> f \in Changed(d)
           /\ \A k, l \in 1..Len(Changes(d)) : Changes(d)[k] = Changes(d)[l] => k = l
<1>1. \A i, j \in 1..Len(FieldOrder) : FieldOrder[i] = FieldOrder[j] => i = j
  BY FieldsAssumption
<1>2. \A f \in Changed(d) : \E i \in 1..Len(FieldOrder) : FieldOrder[i] = f
  BY FieldsAssumption DEF Changed, Fields
<1> QED
  BY <1>1, <1>2, FieldsAssumption, SelectedFacts DEF Changes

-----------------------------------------------------------------------------
(* Type correctness *)

AuditEntries == [bundle : Bundles, field : Fields, old : Values \cup {Null}, new : Values]

LEMMA EntriesType ==
    ASSUME TypeOK, NEW d \in Deciders
    PROVE  /\ Entries(d) \in Seq(AuditEntries)
           /\ Len(Entries(d)) = Len(Changes(d))
           /\ \A i \in 1..Len(Changes(d)) :
                 Entries(d)[i] = [bundle |-> request[d].bundle, field |-> Changes(d)[i],
                                  old |-> old[d][Changes(d)[i]],
                                  new |-> request[d].new[Changes(d)[i]]]
<1> DEFINE n == Len(Changes(d))
           entry(i) == [bundle |-> request[d].bundle, field |-> Changes(d)[i],
                        old |-> old[d][Changes(d)[i]], new |-> request[d].new[Changes(d)[i]]]
<1>1. /\ n \in Nat /\ DOMAIN Changes(d) = 1..n
      /\ \A i \in 1..n : Changes(d)[i] \in Changed(d)
  BY ChangesFacts
<1>2. Entries(d) = [i \in 1..n |-> entry(i)]
  BY <1>1 DEF Entries
<1>3. \A i \in 1..n : entry(i) \in AuditEntries
  BY <1>1 DEF TypeOK, Requests, Rows, Changed, AuditEntries
<1> HIDE DEF n, entry
<1>4. Entries(d) \in Seq(AuditEntries) /\ Len(Entries(d)) = n
  BY <1>1, <1>2, <1>3
<1>5. \A i \in 1..n : Entries(d)[i] = entry(i)
  BY <1>2
<1> QED
  BY <1>4, <1>5 DEF n, entry

LEMMA InitGovernanceType == Init => TypeOK
<1> SUFFICES ASSUME Init PROVE TypeOK
  OBVIOUS
<1>1. audit \in Seq(AuditEntries)
  BY DEF Init
<1>2. \A d \in Deciders : pc[d] = "ready" /\ writer # d
  BY GovernanceAssumption DEF Init
<1> QED
  BY <1>1, <1>2 DEF Init, TypeOK, NoRow, Rows, AuditEntries

LEMMA NextGovernanceType == TypeOK /\ [Next]_vars => TypeOK'
<1> SUFFICES ASSUME TypeOK, [Next]_vars PROVE TypeOK'
  OBVIOUS
<1>1. ASSUME NEW d \in Deciders, ReadRow(d) PROVE TypeOK'
  BY <1>1 DEF ReadRow, Goto, TypeOK, Requests, Ended
<1>2. ASSUME NEW d \in Deciders, ReadSeq(d) PROVE TypeOK'
  <2>1. Len(audit) \in Nat
    BY DEF TypeOK
  <2> QED
    BY <1>2, <2>1 DEF ReadSeq, Goto, TypeOK, Ended
<1>3. ASSUME NEW d \in Deciders, Write(d) \/ WriteFails(d) \/ Crash(d) PROVE TypeOK'
  <2>1. UNCHANGED <<request, old, gseq, register, audit, overlapped>>
    BY <1>3 DEF Write, WriteFails, Crash
  <2>2. /\ pc' \in [Deciders -> {"ready", "read_seq", "write", "commit"} \cup Ended]
        /\ writer' \in Deciders \cup {NoDecider}
    BY <1>3 DEF Write, WriteFails, Crash, Goto, TypeOK, Ended
  <2>3. \A e \in Deciders : pc'[e] = "commit" <=> writer' = e
    BY <1>3, GovernanceAssumption DEF Write, WriteFails, Crash, Goto, TypeOK, Ended
  <2> QED
    BY <2>1, <2>2, <2>3 DEF TypeOK
<1>4. ASSUME NEW d \in Deciders, CommitDecision(d) PROVE TypeOK'
  <2>1. Merged(d) \in Rows
    BY DEF Merged, TypeOK, Rows, Requests
  <2>2. audit' \in Seq(AuditEntries)
    <3>1. audit \in Seq(AuditEntries) /\ Entries(d) \in Seq(AuditEntries)
      BY EntriesType DEF TypeOK, AuditEntries
    <3> QED
      BY <1>4, <3>1 DEF CommitDecision
  <2>3. \A e \in Deciders : pc'[e] = "commit" <=> writer' = e
    BY <1>4, GovernanceAssumption DEF CommitDecision, Goto, TypeOK
  <2> QED
    BY <1>4, <2>1, <2>2, <2>3 DEF CommitDecision, Goto, TypeOK, Ended, Requests, AuditEntries
<1>5. CASE UNCHANGED vars
  BY <1>5 DEF vars, TypeOK
<1> QED
  BY <1>1, <1>2, <1>3, <1>4, <1>5 DEF Next

\* The register and its trail are well typed, and the write lock is with the one
\* decision that is about to commit (set_governance, BEGIN to COMMIT).
THEOREM GovernanceTypeCorrect == Spec => []TypeOK
BY InitGovernanceType, NextGovernanceType, PTL DEF Spec

-----------------------------------------------------------------------------
(* The trail *)

Earlier(s, b, f) == {t \in EntriesOf(b, f) : t < s}

\* What a row had before an entry is decided by the entries before it.
LEMMA BeforeOfLast ==
    ASSUME NEW s, NEW b, NEW f, NEW last \in Earlier(s, b, f),
           TypeOK, \A t \in Earlier(s, b, f) : t <= last
    PROVE  Before(s, b, f) = audit[last].new
<1>1. Earlier(s, b, f) \subseteq Nat
  BY DEF Earlier, EntriesOf, TypeOK
<1>2. Max(Earlier(s, b, f)) = last
  BY <1>1 DEF Max
<1> QED
  BY <1>2 DEF Before, Earlier

LEMMA BeforeOfNone ==
    ASSUME NEW s, NEW b, NEW f, Earlier(s, b, f) = {}
    PROVE  Before(s, b, f) = Null
BY DEF Before, Earlier

LEMMA EarlierHasLast ==
    ASSUME NEW s, NEW b, NEW f, TypeOK, Earlier(s, b, f) # {}
    PROVE  \E last \in Earlier(s, b, f) : \A t \in Earlier(s, b, f) : t <= last
<1>1. Len(audit) \in Nat /\ Earlier(s, b, f) \subseteq 1..Len(audit)
  BY DEF Earlier, EntriesOf, TypeOK
<1> QED
  BY <1>1, GreatestElement

\* Appending entries does not touch what is before.
LEMMA AppendKeepsBefore ==
    ASSUME TypeOK, TypeOK', NEW n \in Nat, NEW s \in 1..(Len(audit) + 1), NEW b, NEW f,
           Len(audit') = Len(audit) + n, \A t \in 1..Len(audit) : audit'[t] = audit[t]
    PROVE  Before(s, b, f)' = Before(s, b, f)
<1>1. /\ Len(audit) \in Nat /\ DOMAIN audit = 1..Len(audit)
      /\ DOMAIN audit' = 1..(Len(audit) + n)
  BY DEF TypeOK
<1>2. Earlier(s, b, f)' = Earlier(s, b, f)
  <2>1. ASSUME NEW t \in Nat, t < s, t # 0 PROVE t \in EntriesOf(b, f)' <=> t \in EntriesOf(b, f)
    BY <1>1, <2>1 DEF EntriesOf
  <2>2. EntriesOf(b, f) \subseteq Nat \ {0} /\ EntriesOf(b, f)' \subseteq Nat \ {0}
    BY <1>1 DEF EntriesOf
  <2> QED
    BY <2>1, <2>2 DEF Earlier
<1>3. CASE Earlier(s, b, f) = {}
  BY <1>2, <1>3 DEF Before, Earlier
<1>4. CASE Earlier(s, b, f) # {}
  <2>1. PICK last \in Earlier(s, b, f) : \A t \in Earlier(s, b, f) : t <= last
    BY <1>4, EarlierHasLast
  <2>2. last \in 1..Len(audit)
    BY <1>1 DEF Earlier, EntriesOf
  <2>3. Before(s, b, f) = audit[last].new
    BY <2>1, BeforeOfLast
  <2>4. Max(Earlier(s, b, f)) = last
    BY <1>1, <2>1 DEF Max, Earlier, EntriesOf
  <2>5. Before(s, b, f)' = audit'[last].new
    BY <1>2, <1>4, <2>4 DEF Before, Earlier
  <2> QED
    BY <2>2, <2>3, <2>5
<1> QED
  BY <1>3, <1>4

\* The invariant: types, at most one decision at a time, and an exact trail.
TrailInv == TypeOK /\ Alone /\ RegisterIsReplay /\ AuditTrailLinks

LEMMA InitTrail == Init => TrailInv
<1> SUFFICES ASSUME Init PROVE TrailInv
  OBVIOUS
<1>1. TypeOK /\ Alone
  BY InitGovernanceType, InitSerial DEF SerialInv
<1>2. audit = <<>> /\ DOMAIN audit = {}
  BY DEF Init
<1>3. \A s, b, f : Earlier(s, b, f) = {}
  BY <1>2 DEF Earlier, EntriesOf
<1>4. AuditTrailLinks
  BY <1>2 DEF AuditTrailLinks
<1>5. RegisterIsReplay
  BY <1>3, BeforeOfNone DEF RegisterIsReplay, Init, NoRow
<1> QED
  BY <1>1, <1>4, <1>5 DEF TrailInv

\* What joining two sequences gives.
IsJoined(T, s, t, r) ==
    /\ r \in Seq(T) /\ Len(s) \in Nat /\ Len(t) \in Nat /\ Len(r) = Len(s) + Len(t)
    /\ \A i \in 1..Len(s) : r[i] = s[i]
    /\ \A i \in 1..Len(t) : r[Len(s) + i] = t[i]

LEMMA Joined ==
    ASSUME NEW T, NEW s \in Seq(T), NEW t \in Seq(T)
    PROVE  IsJoined(T, s, t, s \o t)
BY DEF IsJoined

\* A commit that nobody overlaps: what it adds to the trail follows what was there,
\* and the trail ends with what it writes into the register.
LEMMA CommitTrail ==
    ASSUME TrailInv, TypeOK', NEW d \in Deciders, CommitDecision(d), ~overlapped
    PROVE  RegisterIsReplay' /\ AuditTrailLinks'
<1>0. TypeOK /\ Alone /\ RegisterIsReplay /\ AuditTrailLinks
  BY DEF TrailInv
<1>b. PICK b0 \in Bundles : b0 = request[d].bundle
  BY <1>0 DEF TypeOK, Requests
<1>l. PICK L \in Nat : L = Len(audit)
  BY <1>0 DEF TypeOK
<1>n. PICK n \in Nat : n = Len(Changes(d))
  BY ChangesFacts
<1>1. DOMAIN audit = 1..L
  BY <1>0, <1>l DEF TypeOK
<1>2. /\ Len(audit') = L + n /\ DOMAIN audit' = 1..(L + n)
      /\ \A t \in 1..L : audit'[t] = audit[t]
      /\ \A i \in 1..n : audit'[L + i] = Entries(d)[i]
  <2>1. audit \in Seq(AuditEntries) /\ Entries(d) \in Seq(AuditEntries) /\ Len(Entries(d)) = n
    BY <1>0, <1>n, EntriesType DEF TypeOK, AuditEntries
  <2>2. IsJoined(AuditEntries, audit, Entries(d), audit')
    BY <2>1, Joined DEF CommitDecision
  <2> QED
    BY <2>1, <2>2, <1>l DEF IsJoined
<1>3. ASSUME NEW i \in 1..n
      PROVE  /\ L + i \in 1..(L + n) /\ Changes(d)[i] \in Changed(d)
             /\ audit'[L + i].bundle = b0 /\ audit'[L + i].field = Changes(d)[i]
             /\ audit'[L + i].old = old[d][Changes(d)[i]]
             /\ audit'[L + i].new = request[d].new[Changes(d)[i]]
  <2>1. Entries(d)[i] = [bundle |-> b0, field |-> Changes(d)[i],
                         old |-> old[d][Changes(d)[i]],
                         new |-> request[d].new[Changes(d)[i]]]
    BY <1>0, <1>b, <1>n, EntriesType
  <2>2. Changes(d)[i] \in Changed(d)
    BY <1>n, ChangesFacts
  <2> QED
    BY <1>1, <1>2, <2>1, <2>2
<1>4. ASSUME NEW t \in 1..(L + n), t > L PROVE t - L \in 1..n /\ L + (t - L) = t
  BY <1>4
<1>5. old[d] = register[b0] /\ register' = [register EXCEPT ![b0] = Merged(d)]
  BY <1>0, <1>b DEF CommitDecision, Alone, UnderWay
<1>6. ASSUME NEW s \in 1..(L + 1), NEW b, NEW f PROVE Before(s, b, f)' = Before(s, b, f)
  <2>1. s \in 1..(Len(audit) + 1) /\ Len(audit') = Len(audit) + n
        /\ \A t \in 1..Len(audit) : audit'[t] = audit[t]
    BY <1>l, <1>2
  <2> QED
    BY <1>0, <2>1, AppendKeepsBefore
<1>7. \A b \in Bundles, f \in Fields : register[b][f] = Before(L + 1, b, f)
  BY <1>0, <1>l DEF RegisterIsReplay
\* A field that no new entry before s names has the value it had.
<1>8. ASSUME NEW s \in 1..(L + n + 1), s > L, NEW b, NEW f,
             \A t \in 1..(L + n) : t > L /\ t < s => ~(audit'[t].bundle = b /\ audit'[t].field = f)
      PROVE  Before(s, b, f)' = Before(L + 1, b, f)
  <2>1. Earlier(s, b, f)' = Earlier(L + 1, b, f)'
    <3>1. EntriesOf(b, f)' \subseteq 1..(L + n)
      BY <1>2 DEF EntriesOf
    <3>2. \A t \in EntriesOf(b, f)' : t < s <=> t < L + 1
      BY <1>1, <1>8, <3>1 DEF EntriesOf
    <3> QED
      BY <3>2 DEF Earlier
  <2>2. Before(s, b, f)' = Before(L + 1, b, f)'
    BY <2>1 DEF Before, Earlier
  <2> QED
    BY <1>1, <1>6, <2>2
<1>9. AuditTrailLinks'
  <2> SUFFICES ASSUME NEW s \in 1..(L + n)
               PROVE  (audit[s].old = Before(s, audit[s].bundle, audit[s].field))'
    BY <1>2 DEF AuditTrailLinks
  <2>1. CASE s \in 1..L
    <3>1. audit'[s] = audit[s] /\ audit[s].old = Before(s, audit[s].bundle, audit[s].field)
      BY <1>0, <1>1, <1>2, <2>1 DEF AuditTrailLinks
    <3>2. s \in 1..(L + 1)
      BY <1>1, <2>1
    <3> QED
      BY <1>6, <3>1, <3>2
  <2>2. CASE s > L
    <3>1. PICK i \in 1..n : L + i = s
      BY <1>4, <2>2
    <3>2. PICK f \in Fields :
             /\ audit'[s].bundle = b0 /\ audit'[s].field = f /\ Changes(d)[i] = f
             /\ audit'[s].old = old[d][f]
      BY <1>3, <3>1 DEF Changed
    <3>3. ASSUME NEW t \in 1..(L + n), t > L, t < s PROVE audit'[t].field # f
      <4>1. PICK k \in 1..n : L + k = t
        BY <1>4, <3>3
      <4>2. audit'[t].field = Changes(d)[k] /\ k # i
        BY <1>1, <1>3, <3>1, <3>3, <4>1
      <4> QED
        BY <3>2, <4>2, <1>n, ChangesFacts
    <3>4. s \in 1..(L + n + 1)
      BY <1>1
    <3>5. Before(s, b0, f)' = Before(L + 1, b0, f)
      BY <1>8, <2>2, <3>3, <3>4
    <3>6. Before(L + 1, b0, f) = old[d][f]
      BY <1>1, <1>5, <1>7, <3>2
    <3> QED
      BY <3>2, <3>5, <3>6
  <2> QED
    BY <1>1, <2>1, <2>2
<1>10. RegisterIsReplay'
  <2> SUFFICES ASSUME NEW b \in Bundles, NEW f \in Fields
               PROVE  register'[b][f] = Before(L + n + 1, b, f)'
    BY <1>2 DEF RegisterIsReplay
  <2>0. L + n + 1 \in 1..(L + n + 1) /\ L + n + 1 > L
    BY <1>1
  <2>1. CASE b # b0
    <3>1. register'[b] = register[b]
      BY <1>0, <1>5, <2>1 DEF TypeOK
    <3>2. \A t \in 1..(L + n) : t > L => audit'[t].bundle # b
      BY <1>3, <1>4, <2>1
    <3> QED
      BY <1>7, <1>8, <2>0, <3>1, <3>2
  <2>2. CASE b = b0 /\ f \notin Changed(d)
    <3>1. register'[b][f] = register[b][f]
      <4>1. register'[b] = Merged(d)
        BY <1>0, <1>1, <1>5, <2>2 DEF TypeOK
      <4>2. Merged(d)[f] = old[d][f]
        BY <2>2 DEF Merged, Changed
      <4> QED
        BY <1>5, <2>2, <4>1, <4>2
    <3>2. \A t \in 1..(L + n) : t > L => audit'[t].field # f
      BY <1>3, <1>4, <2>2
    <3> QED
      BY <1>7, <1>8, <2>0, <3>1, <3>2
  <2>3. CASE b = b0 /\ f \in Changed(d)
    <3>1. register'[b][f] = request[d].new[f]
      <4>1. register'[b] = Merged(d)
        BY <1>0, <1>1, <1>5, <2>3 DEF TypeOK
      <4>2. Merged(d)[f] = request[d].new[f]
        BY <2>3 DEF Merged, Changed
      <4> QED
        BY <4>1, <4>2
    <3>2. PICK i \in 1..n : Changes(d)[i] = f
      BY <2>3, <1>n, ChangesFacts
    <3>3. /\ L + i \in 1..(L + n) /\ audit'[L + i].bundle = b /\ audit'[L + i].field = f
          /\ audit'[L + i].new = request[d].new[f]
      BY <1>3, <2>3, <3>2
    <3>4. L + i \in Earlier(L + n + 1, b, f)'
      BY <1>1, <1>2, <3>3 DEF Earlier, EntriesOf
    <3>5. ASSUME NEW t \in Earlier(L + n + 1, b, f)' PROVE t <= L + i
      <4>1. t \in 1..(L + n) /\ audit'[t].field = f
        BY <1>2, <3>5 DEF Earlier, EntriesOf
      <4>2. CASE t > L
        <5>1. PICK k \in 1..n : L + k = t
          BY <1>4, <4>1, <4>2
        <5>2. Changes(d)[k] = f
          BY <1>3, <4>1, <5>1
        <5>3. k = i
          BY <3>2, <5>2, <1>n, ChangesFacts
        <5> QED
          BY <1>1, <5>1, <5>3
      <4>3. CASE ~(t > L)
        BY <1>1, <4>1, <4>3
      <4> QED
        BY <4>2, <4>3
    <3>6. Max(Earlier(L + n + 1, b, f)') = L + i
      <4>1. Earlier(L + n + 1, b, f)' \subseteq Nat
        BY <1>2 DEF Earlier, EntriesOf
      <4> QED
        BY <3>4, <3>5, <4>1 DEF Max
    <3>7. Before(L + n + 1, b, f)' = audit'[L + i].new
      BY <3>4, <3>6 DEF Before, Earlier
    <3> QED
      BY <3>1, <3>3, <3>7
  <2> QED
    BY <2>1, <2>2, <2>3
<1> QED
  BY <1>9, <1>10

LEMMA NextTrail == TrailInv /\ [Next]_vars => TrailInv'
<1> SUFFICES ASSUME TrailInv, [Next]_vars PROVE TrailInv'
  OBVIOUS
<1>1. TypeOK' /\ Alone'
  <2>1. SerialInv
    BY DEF TrailInv, SerialInv, TypeOK, Shapes
  <2> QED
    BY <2>1, NextGovernanceType, NextSerial DEF TrailInv, SerialInv
<1>2. CASE UNCHANGED <<register, audit>> /\ (~overlapped' => ~overlapped)
  <2>1. \A s, b, f : Before(s, b, f)' = Before(s, b, f)
    BY <1>2 DEF Before, EntriesOf
  <2> QED
    BY <1>1, <1>2, <2>1 DEF TrailInv, RegisterIsReplay, AuditTrailLinks
<1>3. ASSUME NEW d \in Deciders, CommitDecision(d) PROVE TrailInv'
  <2>1. overlapped' = overlapped
    BY <1>3 DEF CommitDecision
  <2>2. CASE overlapped
    BY <1>1, <2>1, <2>2 DEF TrailInv, RegisterIsReplay, AuditTrailLinks
  <2>3. CASE ~overlapped
    BY <1>1, <1>3, <2>3, CommitTrail DEF TrailInv
  <2> QED
    BY <2>2, <2>3
<1>4. CASE UNCHANGED vars
  BY <1>2, <1>4 DEF vars
<1>5. ASSUME NEW d \in Deciders,
             ReadRow(d) \/ ReadSeq(d) \/ Write(d) \/ WriteFails(d) \/ Crash(d)
      PROVE  TrailInv'
  BY <1>2, <1>5 DEF ReadRow, ReadSeq, Write, WriteFails, Crash
<1> QED
  BY <1>3, <1>4, <1>5 DEF Next

\* As long as decisions are made one at a time, replaying the audit trail gives the
\* register: every changed field of every decision is in it, in order.
THEOREM TrailReplays == Spec => []RegisterIsReplay
BY InitTrail, NextTrail, PTL DEF Spec, TrailInv

\* As long as decisions are made one at a time, each entry of the trail replaces the
\* value that the entry before it left.
THEOREM TrailIsLinked == Spec => []AuditTrailLinks
BY InitTrail, NextTrail, PTL DEF Spec, TrailInv
=============================================================================
