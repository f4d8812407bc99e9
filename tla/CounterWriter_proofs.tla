------------------------- MODULE CounterWriter_proofs -------------------------
(***************************************************************************)
(* What holds of the writer actor and its batched counters for any number  *)
(* of calls, users and posts and any batch size: state typing, that        *)
(* flush_now covers what was sent before it, that a counter differs from   *)
(* its rows by exactly what is on its way or lost, that clamping at zero   *)
(* changes a counter only after a removal overtook an insertion, and that  *)
(* counters written behind implement the abstract Ledger.                  *)
(***************************************************************************)
EXTENDS CounterWriter, FiniteSetTheorems, TLAPS

-----------------------------------------------------------------------------
(* Sums of deltas. The net effect on column k of the calls in A, when o    *)
(* gives what each of them asked for, is a difference of cardinalities.    *)

KeyOf(r) == <<r.post, IF r.kind \in {"like", "unlike"}
                      THEN "like_count" ELSE "comment_count">>
SignOf(r) == IF r.kind \in {"like", "comment_create"} THEN 1 ELSE -1
Ins(k, A, o) == {c \in A : KeyOf(o[c]) = k /\ SignOf(o[c]) = 1}
Rem(k, A, o) == {c \in A : KeyOf(o[c]) = k /\ SignOf(o[c]) = -1}
Net(k, A, o) == Cardinality(Ins(k, A, o)) - Cardinality(Rem(k, A, o))

(* The calls that are in one of the stages S when s gives their stages.    *)
At(S, s) == {c \in Calls : s[c] \in S}

LEMMA CallsFinite ==
  ASSUME NEW A \in SUBSET Calls
  PROVE  IsFiniteSet(A) /\ Cardinality(A) \in Nat
<1>1. IsFiniteSet(Calls)
  BY CounterAssumption, FS_Interval DEF Calls
<1>2. IsFiniteSet(A)
  BY <1>1, FS_Subset
<1>. QED  BY <1>2, FS_CardinalityType

LEMMA DisjointCount ==
  ASSUME NEW A \in SUBSET Calls, NEW B \in SUBSET Calls, A \cap B = {}
  PROVE  Cardinality(A \cup B) = Cardinality(A) + Cardinality(B)
<1>1. IsFiniteSet(A) /\ IsFiniteSet(B) /\ Cardinality(A) \in Nat /\ Cardinality(B) \in Nat
  BY CallsFinite
<1>2. Cardinality(A \cap B) = 0
  BY FS_EmptySet
<1>3. Cardinality(A \cup B) = Cardinality(A) + Cardinality(B) - Cardinality(A \cap B)
  BY <1>1, FS_Union
<1>. QED  BY <1>1, <1>2, <1>3

LEMMA NetIsInt ==
  ASSUME NEW k, NEW o, NEW A \in SUBSET Calls
  PROVE  Net(k, A, o) \in Int
<1>1. Ins(k, A, o) \in SUBSET Calls /\ Rem(k, A, o) \in SUBSET Calls
  BY DEF Ins, Rem
<1>2. Cardinality(Ins(k, A, o)) \in Nat /\ Cardinality(Rem(k, A, o)) \in Nat
  BY <1>1, CallsFinite
<1>. QED  BY <1>2 DEF Net

LEMMA NetOfUnion ==
  ASSUME NEW k, NEW o, NEW A \in SUBSET Calls, NEW B \in SUBSET Calls, A \cap B = {}
  PROVE  Net(k, A \cup B, o) = Net(k, A, o) + Net(k, B, o)
<1>1. /\ Ins(k, A, o) \in SUBSET Calls /\ Rem(k, A, o) \in SUBSET Calls
      /\ Ins(k, B, o) \in SUBSET Calls /\ Rem(k, B, o) \in SUBSET Calls
      /\ Ins(k, A, o) \cap Ins(k, B, o) = {} /\ Rem(k, A, o) \cap Rem(k, B, o) = {}
      /\ Ins(k, A \cup B, o) = Ins(k, A, o) \cup Ins(k, B, o)
      /\ Rem(k, A \cup B, o) = Rem(k, A, o) \cup Rem(k, B, o)
  BY DEF Ins, Rem
<1>2. /\ Cardinality(Ins(k, A, o)) \in Nat /\ Cardinality(Rem(k, A, o)) \in Nat
      /\ Cardinality(Ins(k, B, o)) \in Nat /\ Cardinality(Rem(k, B, o)) \in Nat
  BY <1>1, CallsFinite
<1>3. /\ Cardinality(Ins(k, A \cup B, o)) =
           Cardinality(Ins(k, A, o)) + Cardinality(Ins(k, B, o))
      /\ Cardinality(Rem(k, A \cup B, o)) =
           Cardinality(Rem(k, A, o)) + Cardinality(Rem(k, B, o))
  BY <1>1, DisjointCount
<1>. QED  BY <1>2, <1>3 DEF Net

LEMMA NetOfNone ==
  ASSUME NEW k, NEW o
  PROVE  Net(k, {}, o) = 0
<1>1. Ins(k, {}, o) = {} /\ Rem(k, {}, o) = {}
  BY DEF Ins, Rem
<1>. QED  BY <1>1, FS_EmptySet DEF Net

LEMMA NetOfOne ==
  ASSUME NEW k, NEW o, NEW c
  PROVE  Net(k, {c}, o) = IF KeyOf(o[c]) = k THEN SignOf(o[c]) ELSE 0
<1>1. SignOf(o[c]) = 1 \/ SignOf(o[c]) = -1
  BY DEF SignOf
<1>2. Cardinality({c}) = 1 /\ Cardinality({}) = 0
  BY FS_Singleton, FS_EmptySet
<1>3. CASE KeyOf(o[c]) # k
  <2>1. Ins(k, {c}, o) = {} /\ Rem(k, {c}, o) = {}
    BY <1>3 DEF Ins, Rem
  <2>. QED  BY <1>2, <1>3, <2>1 DEF Net
<1>4. CASE KeyOf(o[c]) = k /\ SignOf(o[c]) = 1
  <2>1. Ins(k, {c}, o) = {c} /\ Rem(k, {c}, o) = {}
    BY <1>4 DEF Ins, Rem
  <2>. QED  BY <1>2, <1>4, <2>1 DEF Net
<1>5. CASE KeyOf(o[c]) = k /\ SignOf(o[c]) = -1
  <2>1. Ins(k, {c}, o) = {} /\ Rem(k, {c}, o) = {c}
    BY <1>5 DEF Ins, Rem
  <2>. QED  BY <1>2, <1>5, <2>1 DEF Net
<1>. QED  BY <1>1, <1>3, <1>4, <1>5

(* One call more, one call less.                                           *)
LEMMA NetWithOneMore ==
  ASSUME NEW k, NEW o, NEW A \in SUBSET Calls, NEW c \in Calls \ A
  PROVE  Net(k, A \cup {c}, o) =
           Net(k, A, o) + (IF KeyOf(o[c]) = k THEN SignOf(o[c]) ELSE 0)
<1>1. {c} \in SUBSET Calls /\ A \cap {c} = {}
  OBVIOUS
<1>2. Net(k, A \cup {c}, o) = Net(k, A, o) + Net(k, {c}, o)
  BY <1>1, NetOfUnion
<1>. QED  BY <1>2, NetOfOne

(* Only what the calls of A asked for matters.                             *)
LEMMA NetAgrees ==
  ASSUME NEW k, NEW o, NEW q, NEW A, \A c \in A : o[c] = q[c]
  PROVE  Net(k, A, o) = Net(k, A, q)
<1>1. Ins(k, A, o) = Ins(k, A, q) /\ Rem(k, A, o) = Rem(k, A, q)
  BY DEF Ins, Rem
<1>. QED  BY <1>1 DEF Net

LEMMA NetWithoutInsertions ==
  ASSUME NEW k, NEW o, NEW A \in SUBSET Calls,
         \A c \in A : ~(KeyOf(o[c]) = k /\ SignOf(o[c]) = 1)
  PROVE  Net(k, A, o) <= 0
<1>1. Ins(k, A, o) = {} /\ Rem(k, A, o) \in SUBSET Calls
  BY DEF Ins, Rem
<1>2. Cardinality(Ins(k, A, o)) = 0 /\ Cardinality(Rem(k, A, o)) \in Nat
  BY <1>1, FS_EmptySet, CallsFinite
<1>. QED  BY <1>2 DEF Net

(* The module's Total is such a sum.                                       *)
LEMMA TotalIsNet ==
  ASSUME NEW k, NEW S
  PROVE  Total(k, S) = Net(k, At(S, stage), op)
<1>1. Insertions(k, S) = Ins(k, At(S, stage), op)
  BY DEF Insertions, Ins, In, At, Key, Amount, KeyOf, SignOf
<1>2. Removals(k, S) = Rem(k, At(S, stage), op)
  BY DEF Removals, Rem, In, At, Key, Amount, KeyOf, SignOf
<1>. QED  BY <1>1, <1>2 DEF Total, Net

LEMMA TotalIsNetNext ==
  ASSUME NEW k, NEW S
  PROVE  Total(k, S)' = Net(k, At(S, stage'), op')
<1>1. Insertions(k, S)' = Ins(k, At(S, stage'), op')
  BY DEF Insertions, Ins, In, At, Key, Amount, KeyOf, SignOf
<1>2. Removals(k, S)' = Rem(k, At(S, stage'), op')
  BY DEF Removals, Rem, In, At, Key, Amount, KeyOf, SignOf
<1>. QED  BY <1>1, <1>2 DEF Total, Net

-----------------------------------------------------------------------------
(* The mailbox mb and the stages s of the calls.                           *)

Waiting == {"queued", "orphaned"}
Ran == {"owed", "posted", "buffered", "settled", "lost"}
Msgs == [type : {"Job", "Delta"}, call : Calls] \cup {Flush}

(* No message is in the mailbox twice; a job's call waits for it to run,   *)
(* and a call is "posted" just while its delta is in the mailbox.          *)
Fits(mb, s) ==
  /\ \A i, j \in DOMAIN mb : mb[i] = mb[j] => i = j
  /\ \A i \in DOMAIN mb, c \in Calls :
       /\ mb[i] = Job(c) => s[c] \in Waiting
       /\ mb[i] = Delta(c) => s[c] = "posted"
  /\ \A c \in Calls : s[c] = "posted" => \E i \in DOMAIN mb : mb[i] = Delta(c)

(* The deltas that flush_now must cover are ahead of its message while it  *)
(* is in the mailbox, and have left the actor once it has been answered.   *)
Covers(mb, s, ph, cov) ==
  /\ \A i \in DOMAIN mb : mb[i] = Flush =>
       /\ ph = "flushing"
       /\ \A c \in cov : s[c] = "posted" => \E j \in 1..(i - 1) : mb[j] = Delta(c)
  /\ \A c \in cov : s[c] \in {"posted", "buffered", "settled", "lost"}
  /\ ph = "draining" => \A c \in cov : s[c] \in {"settled", "lost"}

(* The calls whose deltas are among the first n messages.                  *)
Ahead(mb, n) == {c \in Calls : \E j \in 1..n : mb[j] = Delta(c)}

LEMMA Messages ==
  /\ \A c \in Calls : Job(c) \in Msgs /\ Delta(c) \in Msgs
  /\ Flush \in Msgs
  /\ \A c, d \in Calls : /\ Job(c) = Job(d) => c = d
                         /\ Delta(c) = Delta(d) => c = d
                         /\ Job(c) # Delta(d)
                         /\ Job(c) # Flush /\ Delta(c) # Flush
  BY DEF Msgs, Job, Delta, Flush

LEMMA Popped ==
  ASSUME NEW E, NEW s \in Seq(E), s # << >>
  PROVE  /\ Len(s) \in Nat \ {0} /\ DOMAIN s = 1..Len(s)
         /\ Head(s) = s[1] /\ s[1] \in E
         /\ Tail(s) \in Seq(E)
         /\ Len(Tail(s)) = Len(s) - 1 /\ DOMAIN Tail(s) = 1..(Len(s) - 1)
         /\ \A i \in 1..(Len(s) - 1) : Tail(s)[i] = s[i + 1]
<1>1. Len(s) \in Nat \ {0} /\ DOMAIN s = 1..Len(s) /\ Head(s) = s[1] /\ s[1] \in E
  OBVIOUS
<1>2. Tail(s) \in Seq(E) /\ Len(Tail(s)) = Len(s) - 1
  BY <1>1
<1>3. \A i \in 1..(Len(s) - 1) : Tail(s)[i] = s[i + 1]
  BY <1>1
<1>. QED  BY <1>1, <1>2, <1>3

LEMMA Appended ==
  ASSUME NEW E, NEW s \in Seq(E), NEW e \in E
  PROVE  /\ Append(s, e) \in Seq(E)
         /\ Len(s) \in Nat /\ DOMAIN s = 1..Len(s)
         /\ Len(Append(s, e)) = Len(s) + 1 /\ DOMAIN Append(s, e) = 1..(Len(s) + 1)
         /\ \A i \in 1..Len(s) : Append(s, e)[i] = s[i]
         /\ Append(s, e)[Len(s) + 1] = e
  OBVIOUS

(* The actor takes the first message: stages change for its call only, as  *)
(* far as what is waiting or posted goes.                                  *)
PopsTo(mb, s, t) ==
  \A c \in Calls :
    /\ Head(mb) \in {Job(c), Delta(c)} => t[c] # "posted"
    /\ Head(mb) \notin {Job(c), Delta(c)} =>
         /\ s[c] \in Waiting <=> t[c] \in Waiting
         /\ s[c] = "posted" <=> t[c] = "posted"

LEMMA PopFits ==
  ASSUME NEW mb \in Seq(Msgs), mb # << >>, NEW s, NEW t, Fits(mb, s), PopsTo(mb, s, t)
  PROVE  Fits(Tail(mb), t)
<1>. DEFINE m == Tail(mb)
<1>1. /\ Len(mb) \in Nat \ {0} /\ DOMAIN mb = 1..Len(mb) /\ Head(mb) = mb[1]
      /\ DOMAIN m = 1..(Len(mb) - 1)
      /\ \A i \in 1..(Len(mb) - 1) : m[i] = mb[i + 1]
  BY Popped
<1>. HIDE DEF m
<1>2. \A i \in DOMAIN m : i + 1 \in DOMAIN mb /\ m[i] = mb[i + 1] /\ m[i] # mb[1]
  BY <1>1 DEF Fits
<1>3. \A i, j \in DOMAIN m : m[i] = m[j] => i = j
  BY <1>1, <1>2 DEF Fits
<1>4. ASSUME NEW i \in DOMAIN m, NEW c \in Calls
      PROVE  /\ m[i] = Job(c) => t[c] \in Waiting
             /\ m[i] = Delta(c) => t[c] = "posted"
  <2>1. m[i] = Job(c) => s[c] \in Waiting
    BY <1>2 DEF Fits
  <2>2. m[i] = Delta(c) => s[c] = "posted"
    BY <1>2 DEF Fits
  <2>3. mb[1] = Job(c) => s[c] \in Waiting
    BY <1>1 DEF Fits
  <2>4. mb[1] = Delta(c) => s[c] = "posted"
    BY <1>1 DEF Fits
  <2>. QED  BY <1>1, <1>2, <2>1, <2>2, <2>3, <2>4 DEF PopsTo, Waiting
<1>5. ASSUME NEW c \in Calls, t[c] = "posted"
      PROVE  \E i \in DOMAIN m : m[i] = Delta(c)
  <2>1. mb[1] # Delta(c) /\ s[c] = "posted"
    BY <1>1, <1>5 DEF PopsTo
  <2>2. PICK i \in DOMAIN mb : mb[i] = Delta(c)
    BY <2>1 DEF Fits
  <2>3. i - 1 \in DOMAIN m /\ m[i - 1] = mb[i]
    <3>1. i \in 2..Len(mb)
      BY <1>1, <2>1, <2>2
    <3>2. i - 1 \in 1..(Len(mb) - 1) /\ (i - 1) + 1 = i
      BY <1>1, <3>1
    <3>. QED  BY <1>1, <3>2
  <2>. QED  BY <2>2, <2>3
<1>. QED  BY <1>3, <1>4, <1>5 DEF Fits, m

(* A new message m joins the end, and stages t say so.                     *)
AppendsTo(mb, s, t, m) ==
  /\ \A i \in DOMAIN mb : mb[i] # m
  /\ \A c \in Calls :
       /\ m = Job(c) => t[c] \in Waiting
       /\ m = Delta(c) => t[c] = "posted"
       /\ s[c] \in Waiting => t[c] \in Waiting
       /\ s[c] = "posted" => t[c] = "posted"
       /\ t[c] = "posted" => s[c] = "posted" \/ m = Delta(c)

LEMMA AppendFits ==
  ASSUME NEW mb \in Seq(Msgs), NEW m \in Msgs, NEW s, NEW t,
         Fits(mb, s), AppendsTo(mb, s, t, m)
  PROVE  Fits(Append(mb, m), t)
<1>. DEFINE b == Append(mb, m)
<1>1. /\ Len(mb) \in Nat /\ DOMAIN mb = 1..Len(mb) /\ DOMAIN b = 1..(Len(mb) + 1)
      /\ \A i \in 1..Len(mb) : b[i] = mb[i]
      /\ b[Len(mb) + 1] = m
  BY Appended
<1>. HIDE DEF b
<1>2. \A i \in DOMAIN b : (i \in DOMAIN mb /\ b[i] = mb[i]) \/ (i = Len(mb) + 1 /\ b[i] = m)
  BY <1>1
<1>3. \A i, j \in DOMAIN b : b[i] = b[j] => i = j
  BY <1>2 DEF Fits, AppendsTo
<1>4. ASSUME NEW i \in DOMAIN b, NEW c \in Calls
      PROVE  /\ b[i] = Job(c) => t[c] \in Waiting
             /\ b[i] = Delta(c) => t[c] = "posted"
  BY <1>2 DEF Fits, AppendsTo
<1>5. ASSUME NEW c \in Calls, t[c] = "posted"
      PROVE  \E i \in DOMAIN b : b[i] = Delta(c)
  <2>1. CASE m = Delta(c)
    BY <1>1, <2>1
  <2>2. CASE s[c] = "posted"
    <3>1. PICK i \in DOMAIN mb : mb[i] = Delta(c)
      BY <2>2 DEF Fits
    <3>2. i \in DOMAIN b /\ b[i] = mb[i]
      BY <1>1
    <3>. QED  BY <3>1, <3>2
  <2>. QED  BY <1>5, <2>1, <2>2 DEF AppendsTo
<1>. QED  BY <1>3, <1>4, <1>5 DEF Fits, b

LEMMA StayFits ==
  ASSUME NEW mb, NEW s, NEW t, Fits(mb, s),
         \A c \in Calls : /\ s[c] \in Waiting <=> t[c] \in Waiting
                          /\ s[c] = "posted" <=> t[c] = "posted"
  PROVE  Fits(mb, t)
  BY DEF Fits

(* What has been sent stays sent, or settles.                              *)
LEMMA PopCovers ==
  ASSUME NEW mb \in Seq(Msgs), mb # << >>, NEW s, NEW t, NEW ph, NEW cov \in SUBSET Calls,
         Fits(mb, s), PopsTo(mb, s, t), Covers(mb, s, ph, cov), Head(mb) # Flush,
         \A c \in cov : \/ t[c] \in {"settled", "lost"}
                        \/ t[c] \in {"posted", "buffered"} /\ s[c] \in {"posted", "buffered"}
  PROVE  Covers(Tail(mb), t, ph, cov)
<1>. DEFINE m == Tail(mb)
<1>1. /\ Len(mb) \in Nat \ {0} /\ DOMAIN mb = 1..Len(mb) /\ Head(mb) = mb[1]
      /\ DOMAIN m = 1..(Len(mb) - 1)
      /\ \A i \in 1..(Len(mb) - 1) : m[i] = mb[i + 1]
  BY Popped
<1>. HIDE DEF m
<1>2. ASSUME NEW i \in DOMAIN m, m[i] = Flush, NEW c \in cov, t[c] = "posted"
      PROVE  \E j \in 1..(i - 1) : m[j] = Delta(c)
  <2>1. i + 1 \in DOMAIN mb /\ mb[i + 1] = Flush /\ (i + 1) - 1 = i /\ i \in Nat
    BY <1>1, <1>2
  <2>2. mb[1] # Delta(c) /\ s[c] = "posted"
    BY <1>1, <1>2 DEF PopsTo, Waiting
  <2>3. \E j \in 1..((i + 1) - 1) : mb[j] = Delta(c)
    BY <2>1, <2>2 DEF Covers
  <2>4. PICK j \in 1..i : mb[j] = Delta(c)
    BY <2>1, <2>3
  <2>5. j - 1 \in 1..(i - 1) /\ j - 1 \in 1..(Len(mb) - 1) /\ (j - 1) + 1 = j
    <3>1. j # 1
      BY <2>2, <2>4
    <3>. QED  BY <1>1, <2>1, <3>1
  <2>. QED  BY <1>1, <2>4, <2>5
<1>3. \A i \in DOMAIN m : m[i] = Flush => ph = "flushing"
  <2>1. \A i \in DOMAIN m : i + 1 \in DOMAIN mb /\ m[i] = mb[i + 1]
    BY <1>1
  <2>. QED  BY <2>1 DEF Covers
<1>4. /\ \A c \in cov : t[c] \in {"posted", "buffered", "settled", "lost"}
      /\ ph = "draining" => \A c \in cov : t[c] \in {"settled", "lost"}
  BY DEF Covers
<1>. QED  BY <1>2, <1>3, <1>4 DEF Covers, m

LEMMA AppendCovers ==
  ASSUME NEW mb \in Seq(Msgs), NEW m \in Msgs, NEW s, NEW t, NEW ph,
         NEW cov \in SUBSET Calls,
         AppendsTo(mb, s, t, m), Covers(mb, s, ph, cov), m # Flush,
         \A c \in cov : t[c] = s[c]
  PROVE  Covers(Append(mb, m), t, ph, cov)
<1>. DEFINE b == Append(mb, m)
<1>1. /\ Len(mb) \in Nat /\ DOMAIN mb = 1..Len(mb) /\ DOMAIN b = 1..(Len(mb) + 1)
      /\ \A i \in 1..Len(mb) : b[i] = mb[i]
      /\ b[Len(mb) + 1] = m
  BY Appended
<1>. HIDE DEF b
<1>2. \A i \in DOMAIN b : b[i] = Flush => i \in DOMAIN mb /\ mb[i] = Flush
  BY <1>1
<1>3. ASSUME NEW i \in DOMAIN b, b[i] = Flush, NEW c \in cov, t[c] = "posted"
      PROVE  \E j \in 1..(i - 1) : b[j] = Delta(c)
  <2>1. i \in DOMAIN mb /\ mb[i] = Flush /\ s[c] = "posted"
    BY <1>2, <1>3
  <2>2. PICK j \in 1..(i - 1) : mb[j] = Delta(c)
    BY <2>1 DEF Covers
  <2>3. j \in 1..Len(mb)
    BY <1>1, <2>1
  <2>. QED  BY <1>1, <2>2, <2>3
<1>. QED  BY <1>2, <1>3 DEF Covers, b

LEMMA StayCovers ==
  ASSUME NEW mb, NEW s, NEW t, NEW ph, NEW cov \in SUBSET Calls, Covers(mb, s, ph, cov),
         \A c \in cov : \/ t[c] = s[c]
                        \/ t[c] \in {"settled", "lost"}
  PROVE  Covers(mb, t, ph, cov)
  BY DEF Covers

-----------------------------------------------------------------------------
(* The deltas at the front of the mailbox.                                 *)

LEMMA AheadIsCalls ==
  ASSUME NEW mb, NEW n
  PROVE  Ahead(mb, n) \in SUBSET Calls
  BY DEF Ahead

LEMMA AheadOfNone ==
  ASSUME NEW mb
  PROVE  Ahead(mb, 0) = {}
  BY DEF Ahead

LEMMA AheadOfAll ==
  ASSUME NEW mb \in Seq(Msgs), NEW s, Fits(mb, s)
  PROVE  Ahead(mb, Len(mb)) = At({"posted"}, s)
<1>1. DOMAIN mb = 1..Len(mb)
  OBVIOUS
<1>. QED  BY <1>1 DEF Ahead, Fits, At

LEMMA AheadArePosted ==
  ASSUME NEW mb \in Seq(Msgs), NEW s, Fits(mb, s), NEW n \in 0..Len(mb)
  PROVE  Ahead(mb, n) \subseteq At({"posted"}, s)
<1>1. DOMAIN mb = 1..Len(mb) /\ Len(mb) \in Nat
  OBVIOUS
<1>2. \A j \in 1..n : j \in DOMAIN mb
  BY <1>1
<1>. QED  BY <1>2 DEF Ahead, Fits, At

(* When a delta is taken, the first n of the rest are the first n + 1 but  *)
(* for it; when another message is, they are the same.                     *)
LEMMA AheadPops ==
  ASSUME NEW mb \in Seq(Msgs), mb # << >>, NEW s, Fits(mb, s),
         NEW n \in 0..Len(Tail(mb))
  PROVE  /\ n + 1 \in 0..Len(mb)
         /\ \A c \in Calls : Head(mb) = Delta(c) =>
              Ahead(mb, n + 1) = Ahead(Tail(mb), n) \cup {c} /\ c \notin Ahead(Tail(mb), n)
         /\ (\A c \in Calls : Head(mb) # Delta(c)) => Ahead(mb, n + 1) = Ahead(Tail(mb), n)
<1>. DEFINE m == Tail(mb)
<1>1. /\ Len(mb) \in Nat \ {0} /\ DOMAIN mb = 1..Len(mb) /\ Head(mb) = mb[1]
      /\ Len(m) = Len(mb) - 1 /\ DOMAIN m = 1..(Len(mb) - 1)
      /\ \A i \in 1..(Len(mb) - 1) : m[i] = mb[i + 1]
  BY Popped
<1>2. n \in 0..Len(m)
  OBVIOUS
<1>. HIDE DEF m
<1>3. n \in Nat /\ n + 1 \in 0..Len(mb) /\ \A j \in 1..n : j \in 1..(Len(mb) - 1)
  BY <1>1, <1>2
<1>4. \A c \in Calls : c \in Ahead(mb, n + 1) <=> mb[1] = Delta(c) \/ c \in Ahead(m, n)
  <2>. SUFFICES ASSUME NEW c \in Calls
                PROVE  c \in Ahead(mb, n + 1) <=> mb[1] = Delta(c) \/ c \in Ahead(m, n)
    OBVIOUS
  <2>1. ASSUME c \in Ahead(m, n)
        PROVE  c \in Ahead(mb, n + 1)
    <3>1. PICK j \in 1..n : m[j] = Delta(c)
      BY <2>1 DEF Ahead
    <3>2. j + 1 \in 1..(n + 1) /\ m[j] = mb[j + 1]
      BY <1>1, <1>3
    <3>. QED  BY <3>1, <3>2 DEF Ahead
  <2>2. mb[1] = Delta(c) => c \in Ahead(mb, n + 1)
    BY <1>3 DEF Ahead
  <2>3. ASSUME c \in Ahead(mb, n + 1), mb[1] # Delta(c)
        PROVE  c \in Ahead(m, n)
    <3>1. PICK j \in 1..(n + 1) : mb[j] = Delta(c)
      BY <2>3 DEF Ahead
    <3>2. j - 1 \in 1..n /\ (j - 1) + 1 = j
      <4>1. j # 1
        BY <2>3, <3>1
      <4>. QED  BY <1>3, <4>1
    <3>3. m[j - 1] = mb[j]
      BY <1>1, <1>3, <3>2
    <3>. QED  BY <3>1, <3>2, <3>3 DEF Ahead
  <2>. QED  BY <2>1, <2>2, <2>3
<1>5. ASSUME NEW c \in Calls, mb[1] = Delta(c)
      PROVE  c \notin Ahead(m, n)
  <2>1. \A j \in 1..n : m[j] # Delta(c)
    <3>. SUFFICES ASSUME NEW j \in 1..n, m[j] = Delta(c) PROVE FALSE
      OBVIOUS
    <3>1. mb[j + 1] = mb[1] /\ j + 1 \in DOMAIN mb /\ 1 \in DOMAIN mb /\ j + 1 # 1
      BY <1>1, <1>3, <1>5
    <3>. QED  BY <3>1 DEF Fits
  <2>. QED  BY <2>1 DEF Ahead
<1>6. ASSUME NEW c \in Calls, NEW d \in Calls, mb[1] = Delta(c), mb[1] = Delta(d)
      PROVE  c = d
  <2>1. Delta(c) = Delta(d)
    BY <1>6
  <2>. QED  BY <2>1, Messages
<1>7. /\ \A c \in Calls : mb[1] = Delta(c) => Ahead(mb, n + 1) = Ahead(m, n) \cup {c}
      /\ (\A c \in Calls : mb[1] # Delta(c)) => Ahead(mb, n + 1) = Ahead(m, n)
  <2>1. Ahead(mb, n + 1) \in SUBSET Calls /\ Ahead(m, n) \in SUBSET Calls
    BY AheadIsCalls
  <2>2. ASSUME NEW c \in Calls, mb[1] = Delta(c)
        PROVE  Ahead(mb, n + 1) = Ahead(m, n) \cup {c}
    <3>1. \A d \in Calls : d \in Ahead(mb, n + 1) <=> d = c \/ d \in Ahead(m, n)
      BY <1>4, <1>6, <2>2
    <3>. QED  BY <2>1, <3>1
  <2>3. ASSUME \A c \in Calls : mb[1] # Delta(c)
        PROVE  Ahead(mb, n + 1) = Ahead(m, n)
    BY <1>4, <2>1, <2>3
  <2>. QED  BY <2>2, <2>3
<1>. QED  BY <1>1, <1>3, <1>5, <1>7 DEF m

(* A message at the end changes the whole mailbox only.                    *)
LEMMA AheadAppends ==
  ASSUME NEW mb \in Seq(Msgs), NEW m \in Msgs, NEW n \in 0..Len(Append(mb, m))
  PROVE  /\ n <= Len(mb) => Ahead(Append(mb, m), n) = Ahead(mb, n)
         /\ n <= Len(mb) \/ n = Len(Append(mb, m))
<1>. DEFINE b == Append(mb, m)
<1>1. /\ Len(mb) \in Nat /\ Len(b) = Len(mb) + 1
      /\ \A i \in 1..Len(mb) : b[i] = mb[i]
  BY Appended
<1>2. n \in 0..Len(b)
  OBVIOUS
<1>. HIDE DEF b
<1>3. n <= Len(mb) => \A j \in 1..n : b[j] = mb[j]
  BY <1>1, <1>2
<1>. QED  BY <1>1, <1>2, <1>3 DEF Ahead, b

-----------------------------------------------------------------------------
(* The base: types, the mailbox, and what flush_now covers.                *)

(* What a call in flight asks for; a comment to be deleted is there.       *)
CallsTyped ==
  \A c \in Calls : stage[c] # "idle" =>
    /\ op[c] \in Ops
    /\ op[c].kind = "delete_comment" => op[c].target \in comments[op[c].post]

BaseIInv ==
  /\ TypeOK /\ CallsTyped
  /\ Fits(mailbox, stage) /\ Covers(mailbox, stage, phase, covered)

LEMMA Mailbox ==
  ASSUME TypeOK
  PROVE  mailbox \in Seq(Msgs)
  BY DEF TypeOK, Msgs

LEMMA Received ==
  ASSUME BaseIInv, NEW m \in Msgs, Receive(m)
  PROVE  /\ mailbox \in Seq(Msgs) /\ mailbox # << >> /\ Head(mailbox) = m
         /\ mailbox' = Tail(mailbox) /\ mailbox' \in Seq(Msgs) /\ phase # "down"
         /\ 1 \in DOMAIN mailbox /\ mailbox[1] = m
<1>1. mailbox \in Seq(Msgs)
  BY Mailbox DEF BaseIInv
<1>2. mailbox # << >> /\ Head(mailbox) = m /\ mailbox' = Tail(mailbox) /\ phase # "down"
  BY DEF Receive
<1>. QED  BY <1>1, <1>2, Popped

(* The column and the sign of a delta that a call owes.                    *)
LEMMA KeysOfCalls ==
  ASSUME BaseIInv, NEW c \in Calls, stage[c] # "idle"
  PROVE  /\ Key(c) \in Keys /\ Key(c) = KeyOf(op[c])
         /\ Amount(c) \in {1, -1} /\ Amount(c) = SignOf(op[c])
<1>1. op[c] \in Ops
  BY DEF BaseIInv, CallsTyped
<1>2. op[c].post \in Posts
  BY <1>1 DEF Ops
<1>. QED  BY <1>2 DEF Key, KeyOf, Amount, SignOf, Keys

(* A job runs, whichever of the five it is: the call is answered, owes a   *)
(* delta, or has lost the one that nobody will send.                       *)
JobRuns(c, b) ==
  /\ Receive(Job(c))
  /\ b \in {"done", "owed", "lost"}
  /\ stage' = [stage EXCEPT ![c] = b]
  /\ UNCHANGED <<op, actor, process, overtaken>>

LEMMA JobsRun ==
  ASSUME NEW c \in Calls, WriterJob(c)
  PROVE  \E b : JobRuns(c, b)
<1>. DEFINE owe == IF stage[c] = "orphaned" THEN "lost" ELSE "owed"
<1>1. ASSUME NEW changed, Reply(c, changed)
      PROVE  \E b \in {"done", "owed", "lost"} : stage' = [stage EXCEPT ![c] = b]
  BY <1>1 DEF Reply
<1>2. CASE LikeJob(c)
  BY <1>1, <1>2 DEF LikeJob, JobRuns
<1>3. CASE UnlikeJob(c)
  BY <1>1, <1>3 DEF UnlikeJob, JobRuns
<1>4. CASE CommentJob(c)
  BY <1>1, <1>4 DEF CommentJob, JobRuns
<1>5. CASE DeleteCommentJob(c)
  BY <1>1, <1>5 DEF DeleteCommentJob, JobRuns
<1>6. CASE DeletePostJob(c)
  BY <1>1, <1>6 DEF DeletePostJob, JobRuns
<1>. QED  BY <1>2, <1>3, <1>4, <1>5, <1>6 DEF WriterJob

(* Maps of sums.                                                           *)
Sums(d) == DOMAIN d \subseteq Keys /\ \A k \in DOMAIN d : d[k] \in Int

LEMMA AccumulateSums ==
  ASSUME BaseIInv, NEW c \in Calls, stage[c] # "idle"
  PROVE  Sums(Accumulate(c))
<1>1. Key(c) \in Keys /\ Amount(c) \in Int
  BY KeysOfCalls
<1>2. Sums(deltas)
  BY DEF BaseIInv, TypeOK, Sums
<1>. HIDE DEF Sums
<1>3. DOMAIN Accumulate(c) = DOMAIN deltas \cup {Key(c)}
  BY DEF Accumulate
<1>4. \A k \in DOMAIN Accumulate(c) : Accumulate(c)[k] =
        (IF k \in DOMAIN deltas THEN deltas[k] ELSE 0) + (IF k = Key(c) THEN Amount(c) ELSE 0)
  BY DEF Accumulate
<1>5. ASSUME NEW k \in DOMAIN Accumulate(c)
      PROVE  Accumulate(c)[k] \in Int
  <2>1. (IF k \in DOMAIN deltas THEN deltas[k] ELSE 0) \in Int
    BY <1>2 DEF Sums
  <2>2. (IF k = Key(c) THEN Amount(c) ELSE 0) \in Int
    BY <1>1
  <2>. QED  BY <1>4, <2>1, <2>2
<1>. QED  BY <1>1, <1>2, <1>3, <1>5 DEF Sums

LEMMA EmptySums ==
  Sums(Empty)
  BY DEF Sums, Empty

(* A flush of d with the calls at s: buffered deltas settle or are lost.   *)
LEMMA Flushes ==
  ASSUME BaseIInv, NEW d, Sums(d), NEW s \in [Calls -> Stages], DoFlush(d, s)
  PROVE  /\ deltas' = Empty
         /\ \E to \in {"settled", "lost"} : stage' = Drain(s, to)
         /\ stage' \in [Calls -> Stages]
         /\ \A c \in Calls : \/ stage'[c] = s[c] /\ s[c] # "buffered"
                             \/ stage'[c] \in {"settled", "lost"} /\ s[c] = "buffered"
         /\ count' \in [Keys -> Nat] /\ clamped' \in [Keys -> Nat]
         /\ flushErrors' \in 0..MaxFlushErrors
<1>1. deltas' = Empty
  BY DEF DoFlush
<1>2. PICK to \in {"settled", "lost"} : stage' = Drain(s, to)
  BY DEF DoFlush, FlushCommits, FlushFails
<1>3. /\ stage' \in [Calls -> Stages]
      /\ \A c \in Calls : \/ stage'[c] = s[c] /\ s[c] # "buffered"
                          \/ stage'[c] \in {"settled", "lost"} /\ s[c] = "buffered"
  BY <1>2 DEF Drain, Stages
<1>4. /\ count \in [Keys -> Nat] /\ clamped \in [Keys -> Nat]
      /\ flushErrors \in 0..MaxFlushErrors /\ MaxFlushErrors \in Nat
  BY CounterAssumption DEF BaseIInv, TypeOK
<1>5. CASE FlushCommits(d, s)
  <2>1. \A k \in Flushed(d) : Target(d, k) \in Int
    <3>1. \A k \in Flushed(d) : k \in Keys /\ d[k] \in Int
      BY DEF Sums, Flushed
    <3>. QED  BY <1>4, <3>1 DEF Target
  <2>2. \A n \in Int : Max0(n) \in Nat /\ Max0(-n) \in Nat
    BY DEF Max0
  <2>3. \A k \in Flushed(d) : Max0(Target(d, k)) \in Nat /\ Max0(-Target(d, k)) \in Nat
    BY <2>1, <2>2
  <2>4. count' \in [Keys -> Nat]
    BY <1>4, <1>5, <2>3 DEF FlushCommits
  <2>5. clamped' \in [Keys -> Nat]
    BY <1>4, <1>5, <2>3 DEF FlushCommits
  <2>6. flushErrors' = flushErrors
    BY <1>5 DEF FlushCommits
  <2>. QED  BY <1>1, <1>2, <1>3, <1>4, <2>4, <2>5, <2>6
<1>6. CASE FlushFails(d, s)
  <2>1. /\ flushErrors' = flushErrors + 1 /\ flushErrors < MaxFlushErrors
        /\ UNCHANGED <<count, clamped>>
    BY <1>6 DEF FlushFails
  <2>2. flushErrors' \in 0..MaxFlushErrors
    BY <1>4, <2>1
  <2>. QED  BY <1>1, <1>2, <1>3, <1>4, <2>1, <2>2
<1>. QED  BY <1>5, <1>6 DEF DoFlush

-----------------------------------------------------------------------------
(* The base is kept.                                                       *)

(* The rows stay rows, whatever a job does to them.                        *)
RowsTyped ==
  /\ likes \in [Posts -> SUBSET Users] /\ comments \in [Posts -> SUBSET Calls]
  /\ hidden \subseteq Calls /\ posts \in [Posts -> {"live", "deleted", "gone"}]

LEMMA JobRowsTyped ==
  ASSUME BaseIInv, NEW c \in Calls, stage[c] # "idle", WriterJob(c)
  PROVE  RowsTyped' /\ \A q \in Posts : comments[q] \subseteq comments'[q]
<1>. DEFINE p == op[c].post
            u == op[c].user
            t == op[c].target
<1>1. p \in Posts /\ u \in Users /\ t \in 0..NCalls /\ op[c] \in Ops
  BY DEF BaseIInv, CallsTyped, Ops
<1>2. RowsTyped
  BY DEF BaseIInv, TypeOK, RowsTyped
<1>3. CASE LikeJob(c)
  <2>1. likes' = [likes EXCEPT ![p] = @ \cup {u}] \/ likes' = [likes EXCEPT ![p] = @]
    BY <1>3 DEF LikeJob
  <2>2. UNCHANGED <<comments, hidden, posts>>
    BY <1>3 DEF LikeJob
  <2>. QED  BY <1>1, <1>2, <2>1, <2>2 DEF RowsTyped
<1>4. CASE UnlikeJob(c)
  <2>1. likes' = [likes EXCEPT ![p] = @ \ {u}]
    BY <1>4 DEF UnlikeJob
  <2>2. UNCHANGED <<comments, hidden, posts>>
    BY <1>4 DEF UnlikeJob
  <2>. QED  BY <1>1, <1>2, <2>1, <2>2 DEF RowsTyped
<1>5. CASE CommentJob(c)
  <2>1. comments' = [comments EXCEPT ![p] = @ \cup {c}] \/ comments' = [comments EXCEPT ![p] = @]
    BY <1>5 DEF CommentJob
  <2>2. UNCHANGED <<likes, hidden, posts>>
    BY <1>5 DEF CommentJob
  <2>. QED  BY <1>1, <1>2, <2>1, <2>2 DEF RowsTyped
<1>6. CASE DeletePostJob(c)
  <2>1. \/ posts' = [posts EXCEPT ![p] = "deleted"]
        \/ posts' = [posts EXCEPT ![p] = "gone"]
        \/ posts' = posts
    BY <1>6 DEF DeletePostJob
  <2>2. UNCHANGED <<likes, comments, hidden>>
    BY <1>6 DEF DeletePostJob
  <2>. QED  BY <1>1, <1>2, <2>1, <2>2 DEF RowsTyped
<1>7. CASE DeleteCommentJob(c)
  <2>1. hidden' = hidden \/ (hidden' = hidden \cup {t})
    BY <1>7 DEF DeleteCommentJob
  <2>2. UNCHANGED <<likes, comments, posts>>
    BY <1>7 DEF DeleteCommentJob
  <2>3. t \in Calls
    <3>1. t \in comments[p]
      BY <1>7 DEF DeleteCommentJob, BaseIInv, CallsTyped
    <3>. QED  BY <1>1, <1>2, <3>1 DEF RowsTyped
  <2>. QED  BY <1>1, <1>2, <2>1, <2>2, <2>3 DEF RowsTyped
<1>. QED  BY <1>3, <1>4, <1>5, <1>6, <1>7 DEF WriterJob

(* What stays of the base when the stages, and what was asked, change.     *)
LEMMA BeginKeepsBase ==
  ASSUME BaseIInv, NEW c \in Calls, Begin(c)
  PROVE  BaseIInv'
<1>1. /\ phase \in {"up", "flushing"} /\ stage[c] = "idle"
      /\ stage' = [stage EXCEPT ![c] = "queued"]
      /\ mailbox' = Append(mailbox, Job(c))
      /\ UNCHANGED <<rows, actor, process, overtaken>>
  BY DEF Begin
<1>2. PICK r \in Requests : \E t \in IF r.kind = "delete_comment" THEN comments[r.post] ELSE {NoCall} :
         op' = [op EXCEPT ![c] =
                  [kind |-> r.kind, user |-> r.user, post |-> r.post, target |-> t]]
  BY DEF Begin
<1>3. PICK t \in IF r.kind = "delete_comment" THEN comments[r.post] ELSE {NoCall} :
         op' = [op EXCEPT ![c] =
                  [kind |-> r.kind, user |-> r.user, post |-> r.post, target |-> t]]
  BY <1>2
<1>4. r.kind \in Kinds /\ r.user \in Users /\ r.post \in Posts
  BY CounterAssumption
<1>5. t \in 0..NCalls
  <2>1. comments[r.post] \subseteq Calls
    BY <1>4 DEF BaseIInv, TypeOK
  <2>. QED  BY <2>1, CounterAssumption DEF Calls, NoCall
<1>6. PICK q : q = [kind |-> r.kind, user |-> r.user, post |-> r.post, target |-> t]
  OBVIOUS
<1>7. /\ q \in Ops /\ op' = [op EXCEPT ![c] = q]
      /\ q.kind = "delete_comment" => q.target \in comments[q.post]
  BY <1>3, <1>4, <1>5, <1>6 DEF Ops
<1>8. /\ op \in [Calls -> Ops \cup {NoOp}] /\ stage \in [Calls -> Stages]
  BY DEF BaseIInv, TypeOK
<1>9. /\ op' \in [Calls -> Ops \cup {NoOp}] /\ stage' \in [Calls -> Stages]
      /\ stage'[c] = "queued" /\ op'[c] = q
      /\ \A b \in Calls : b # c => stage'[b] = stage[b] /\ op'[b] = op[b]
  BY <1>1, <1>7, <1>8 DEF Stages
<1>10. mailbox \in Seq(Msgs) /\ Job(c) \in Msgs /\ mailbox' \in Seq(Msgs)
  BY <1>1, Mailbox, Messages, Appended DEF BaseIInv
<1>11. TypeOK'
  BY <1>1, <1>9, <1>10 DEF BaseIInv, TypeOK, Msgs, rows, actor, process
<1>12. CallsTyped'
  BY <1>1, <1>7, <1>9 DEF BaseIInv, CallsTyped, rows
<1>13. AppendsTo(mailbox, stage, stage', Job(c))
  <2>1. \A i \in DOMAIN mailbox : mailbox[i] # Job(c)
    BY <1>1 DEF BaseIInv, Fits, Waiting
  <2>2. \A b \in Calls : Job(c) # Delta(b) /\ (Job(c) = Job(b) => b = c)
    BY Messages
  <2>. QED  BY <1>1, <1>9, <2>1, <2>2 DEF AppendsTo, Waiting
<1>14. Fits(mailbox', stage')
  BY <1>1, <1>10, <1>13, AppendFits DEF BaseIInv
<1>15. Covers(mailbox', stage', phase', covered')
  <2>1. covered \in SUBSET Calls /\ \A b \in covered : stage'[b] = stage[b]
    BY <1>1, <1>9 DEF BaseIInv, TypeOK, Covers
  <2>2. Job(c) # Flush
    BY Messages
  <2>3. phase' = phase /\ covered' = covered
    BY <1>1 DEF process
  <2>. QED  BY <1>1, <1>10, <1>13, <2>1, <2>2, <2>3, AppendCovers DEF BaseIInv
<1>. QED  BY <1>11, <1>12, <1>14, <1>15 DEF BaseIInv

LEMMA PostDeltaKeepsBase ==
  ASSUME BaseIInv, NEW c \in Calls, PostDelta(c)
  PROVE  BaseIInv'
<1>1. /\ stage[c] = "owed" /\ stage' = [stage EXCEPT ![c] = "posted"]
      /\ mailbox' = Append(mailbox, Delta(c))
      /\ overtaken' \subseteq overtaken \cup {Key(c)}
      /\ UNCHANGED <<op, rows, actor, process>>
  BY DEF PostDelta
<1>2. Key(c) \in Keys
  BY <1>1, KeysOfCalls
<1>3. /\ stage' \in [Calls -> Stages] /\ stage'[c] = "posted"
      /\ \A b \in Calls : b # c => stage'[b] = stage[b]
  BY <1>1 DEF BaseIInv, TypeOK, Stages
<1>4. mailbox \in Seq(Msgs) /\ Delta(c) \in Msgs /\ mailbox' \in Seq(Msgs)
  BY <1>1, Mailbox, Messages, Appended DEF BaseIInv
<1>5. TypeOK'
  BY <1>1, <1>2, <1>3, <1>4 DEF BaseIInv, TypeOK, Msgs, rows, actor, process
<1>6. CallsTyped'
  BY <1>1, <1>3 DEF BaseIInv, CallsTyped, rows
<1>7. AppendsTo(mailbox, stage, stage', Delta(c))
  <2>1. \A i \in DOMAIN mailbox : mailbox[i] # Delta(c)
    BY <1>1 DEF BaseIInv, Fits
  <2>2. \A b \in Calls : Delta(c) # Job(b) /\ (Delta(c) = Delta(b) => b = c)
    BY Messages
  <2>. QED  BY <1>1, <1>3, <2>1, <2>2 DEF AppendsTo, Waiting
<1>8. Fits(mailbox', stage')
  BY <1>1, <1>4, <1>7, AppendFits DEF BaseIInv
<1>9. Covers(mailbox', stage', phase', covered')
  <2>1. covered \in SUBSET Calls /\ \A b \in covered : stage'[b] = stage[b]
    BY <1>1, <1>3 DEF BaseIInv, TypeOK, Covers
  <2>2. Delta(c) # Flush
    BY Messages
  <2>3. phase' = phase /\ covered' = covered
    BY <1>1 DEF process
  <2>. QED  BY <1>1, <1>4, <1>7, <2>1, <2>2, <2>3, AppendCovers DEF BaseIInv
<1>. QED  BY <1>5, <1>6, <1>8, <1>9 DEF BaseIInv

LEMMA HangUpKeepsBase ==
  ASSUME BaseIInv, NEW c \in Calls, HangUp(c)
  PROVE  BaseIInv'
<1>1. UNCHANGED <<op, mailbox, rows, actor, process, overtaken>>
  BY DEF HangUp
<1>2. /\ stage' \in [Calls -> Stages]
      /\ \/ stage[c] = "queued" /\ stage'[c] = "orphaned"
         \/ stage[c] = "owed" /\ stage'[c] = "lost"
      /\ \A b \in Calls : b # c => stage'[b] = stage[b]
  BY DEF HangUp, BaseIInv, TypeOK, Stages
<1>3. TypeOK'
  BY <1>1, <1>2 DEF BaseIInv, TypeOK, rows, actor, process
<1>4. CallsTyped'
  BY <1>1, <1>2 DEF BaseIInv, CallsTyped, rows
<1>5. Fits(mailbox', stage')
  BY <1>1, <1>2, StayFits DEF BaseIInv, Waiting
<1>6. Covers(mailbox', stage', phase', covered')
  <2>1. covered \in SUBSET Calls /\ \A b \in covered : stage'[b] = stage[b]
    BY <1>2 DEF BaseIInv, TypeOK, Covers
  <2>2. UNCHANGED <<phase, covered, mailbox>>
    BY <1>1 DEF process
  <2>. QED  BY <2>1, <2>2, StayCovers DEF BaseIInv
<1>. QED  BY <1>3, <1>4, <1>5, <1>6 DEF BaseIInv

(* The call whose job or delta comes first.                                *)
LEMMA JobFirst ==
  ASSUME BaseIInv, NEW c \in Calls, Receive(Job(c))
  PROVE  stage[c] \in Waiting /\ mailbox[1] = Job(c) /\ 1 \in DOMAIN mailbox
<1>1. Job(c) \in Msgs
  BY Messages
<1>. QED  BY <1>1, Received DEF BaseIInv, Fits

LEMMA DeltaFirst ==
  ASSUME BaseIInv, NEW c \in Calls, Receive(Delta(c))
  PROVE  stage[c] = "posted" /\ mailbox[1] = Delta(c) /\ 1 \in DOMAIN mailbox
<1>1. Delta(c) \in Msgs
  BY Messages
<1>. QED  BY <1>1, Received DEF BaseIInv, Fits

LEMMA JobKeepsBase ==
  ASSUME BaseIInv, NEW c \in Calls, WriterJob(c)
  PROVE  BaseIInv'
<1>1. PICK b : JobRuns(c, b)
  BY JobsRun
<1>2. /\ Receive(Job(c)) /\ b \in {"done", "owed", "lost"}
      /\ stage' = [stage EXCEPT ![c] = b]
      /\ UNCHANGED <<op, actor, process, overtaken>>
  BY <1>1 DEF JobRuns
<1>3. stage[c] \in Waiting /\ stage[c] # "idle"
  BY <1>2, JobFirst DEF Waiting
<1>4. RowsTyped' /\ \A q \in Posts : comments[q] \subseteq comments'[q]
  BY <1>3, JobRowsTyped
<1>5. Job(c) \in Msgs
  BY Messages
<1>6. /\ mailbox \in Seq(Msgs) /\ mailbox # << >> /\ Head(mailbox) = Job(c)
      /\ mailbox' = Tail(mailbox) /\ mailbox' \in Seq(Msgs)
  BY <1>2, <1>5, Received
<1>7. /\ stage' \in [Calls -> Stages] /\ stage'[c] = b
      /\ \A d \in Calls : d # c => stage'[d] = stage[d]
  BY <1>2 DEF BaseIInv, TypeOK, Stages
<1>8. TypeOK'
  BY <1>2, <1>4, <1>6, <1>7 DEF BaseIInv, TypeOK, RowsTyped, Msgs, actor, process
<1>9. CallsTyped'
  <2>. SUFFICES ASSUME NEW d \in Calls, stage'[d] # "idle"
                PROVE  /\ op'[d] \in Ops
                       /\ op'[d].kind = "delete_comment"
                            => op'[d].target \in comments'[op'[d].post]
    BY DEF CallsTyped
  <2>1. stage[d] # "idle" /\ op'[d] = op[d]
    BY <1>2, <1>3, <1>7
  <2>2. op[d] \in Ops /\ (op[d].kind = "delete_comment" => op[d].target \in comments[op[d].post])
    BY <2>1 DEF BaseIInv, CallsTyped
  <2>3. op[d].post \in Posts
    BY <2>2 DEF Ops
  <2>. QED  BY <1>4, <2>1, <2>2, <2>3
<1>10. PopsTo(mailbox, stage, stage')
  <2>1. \A d \in Calls : Job(c) \in {Job(d), Delta(d)} => d = c
    BY Messages
  <2>. QED  BY <1>2, <1>6, <1>7, <2>1 DEF PopsTo
<1>11. Fits(mailbox', stage')
  BY <1>6, <1>10, PopFits DEF BaseIInv
<1>12. Covers(mailbox', stage', phase', covered')
  <2>1. covered \in SUBSET Calls /\ phase' = phase /\ covered' = covered
    BY <1>2 DEF BaseIInv, TypeOK, process
  <2>2. \A d \in covered : stage'[d] = stage[d] /\ stage[d] \in {"posted", "buffered", "settled", "lost"}
    BY <1>3, <1>7, <2>1 DEF BaseIInv, Covers, Waiting
  <2>3. Head(mailbox) # Flush
    BY <1>6, Messages
  <2>. QED  BY <1>6, <1>10, <2>1, <2>2, <2>3, PopCovers DEF BaseIInv
<1>. QED  BY <1>8, <1>9, <1>11, <1>12 DEF BaseIInv

(* What AddDelta does to the stages, flush or not.                         *)
LEMMA AddDeltaStages ==
  ASSUME BaseIInv, NEW c \in Calls, AddDelta(c)
  PROVE  /\ stage[c] = "posted" /\ Receive(Delta(c))
         /\ stage' \in [Calls -> Stages]
         /\ \A b \in Calls : b # c =>
              \/ stage'[b] = stage[b]
              \/ stage[b] = "buffered" /\ stage'[b] \in {"settled", "lost"}
         /\ stage'[c] \in {"buffered", "settled", "lost"}
         /\ Sums(deltas') /\ count' \in [Keys -> Nat] /\ clamped' \in [Keys -> Nat]
         /\ flushErrors' \in 0..MaxFlushErrors
<1>. DEFINE s == [stage EXCEPT ![c] = "buffered"]
<1>1. Receive(Delta(c)) /\ stage[c] = "posted"
  BY DeltaFirst DEF AddDelta
<1>2. /\ s \in [Calls -> Stages] /\ s[c] = "buffered"
      /\ \A b \in Calls : b # c => s[b] = stage[b]
  BY DEF BaseIInv, TypeOK, Stages
<1>3. Sums(Accumulate(c))
  BY <1>1, AccumulateSums
<1>4. CASE DoFlush(Accumulate(c), s)
  <2>. HIDE DEF s
  <2>1. /\ deltas' = Empty /\ stage' \in [Calls -> Stages]
        /\ \A b \in Calls : \/ stage'[b] = s[b] /\ s[b] # "buffered"
                            \/ stage'[b] \in {"settled", "lost"} /\ s[b] = "buffered"
        /\ count' \in [Keys -> Nat] /\ clamped' \in [Keys -> Nat]
        /\ flushErrors' \in 0..MaxFlushErrors
    BY <1>2, <1>3, <1>4, Flushes
  <2>2. Sums(deltas')
    BY <2>1, EmptySums
  <2>. QED  BY <1>1, <1>2, <2>1, <2>2
<1>5. CASE deltas' = Accumulate(c) /\ stage' = s /\ UNCHANGED <<count, clamped, flushErrors>>
  BY <1>1, <1>2, <1>3, <1>5 DEF BaseIInv, TypeOK
<1>. QED  BY <1>4, <1>5 DEF AddDelta

LEMMA AddDeltaKeepsBase ==
  ASSUME BaseIInv, NEW c \in Calls, AddDelta(c)
  PROVE  BaseIInv'
<1>1. UNCHANGED <<op, rows, process, overtaken>>
  BY DEF AddDelta
<1>2. Delta(c) \in Msgs
  BY Messages
<1>3. /\ mailbox \in Seq(Msgs) /\ mailbox # << >> /\ Head(mailbox) = Delta(c)
      /\ mailbox' = Tail(mailbox) /\ mailbox' \in Seq(Msgs)
  BY <1>2, AddDeltaStages, Received
<1>4. /\ stage[c] = "posted"
      /\ stage' \in [Calls -> Stages]
      /\ \A b \in Calls : b # c =>
           \/ stage'[b] = stage[b]
           \/ stage[b] = "buffered" /\ stage'[b] \in {"settled", "lost"}
      /\ stage'[c] \in {"buffered", "settled", "lost"}
  BY AddDeltaStages
<1>5. /\ Sums(deltas') /\ count' \in [Keys -> Nat] /\ clamped' \in [Keys -> Nat]
      /\ flushErrors' \in 0..MaxFlushErrors
  BY AddDeltaStages
<1>6. TypeOK'
  BY <1>1, <1>3, <1>4, <1>5 DEF BaseIInv, TypeOK, Msgs, Sums, rows, process
<1>7. CallsTyped'
  <2>1. \A b \in Calls : stage'[b] # "idle" => stage[b] # "idle"
    BY <1>4
  <2>. QED  BY <1>1, <2>1 DEF BaseIInv, CallsTyped, rows
<1>8. PopsTo(mailbox, stage, stage')
  <2>1. \A d \in Calls : Delta(c) \in {Job(d), Delta(d)} => d = c
    BY Messages
  <2>. QED  BY <1>3, <1>4, <2>1 DEF PopsTo, Waiting
<1>9. Fits(mailbox', stage')
  BY <1>3, <1>8, PopFits DEF BaseIInv
<1>10. Covers(mailbox', stage', phase', covered')
  <2>1. covered \in SUBSET Calls /\ phase' = phase /\ covered' = covered
    BY <1>1 DEF BaseIInv, TypeOK, process
  <2>2. \A d \in covered : stage[d] \in {"posted", "buffered", "settled", "lost"}
    BY DEF BaseIInv, Covers
  <2>3. \A d \in covered : \/ stage'[d] \in {"settled", "lost"}
                           \/ /\ stage'[d] \in {"posted", "buffered"}
                              /\ stage[d] \in {"posted", "buffered"}
    BY <1>4, <2>1, <2>2
  <2>4. Head(mailbox) # Flush
    BY <1>3, Messages
  <2>. QED  BY <1>3, <1>8, <2>1, <2>3, <2>4, PopCovers DEF BaseIInv
<1>. QED  BY <1>6, <1>7, <1>9, <1>10 DEF BaseIInv

(* The stages after a flush of what is held, as Tick and FlushRequest do.  *)
LEMMA FlushAllStages ==
  ASSUME BaseIInv, DoFlush(deltas, stage)
  PROVE  /\ stage' \in [Calls -> Stages]
         /\ \A c \in Calls : \/ stage'[c] = stage[c] /\ stage[c] # "buffered"
                             \/ stage'[c] \in {"settled", "lost"} /\ stage[c] = "buffered"
         /\ Sums(deltas') /\ count' \in [Keys -> Nat] /\ clamped' \in [Keys -> Nat]
         /\ flushErrors' \in 0..MaxFlushErrors
<1>1. stage \in [Calls -> Stages] /\ Sums(deltas)
  BY DEF BaseIInv, TypeOK, Sums
<1>. QED  BY <1>1, Flushes, EmptySums

LEMMA FlushRequestKeepsBase ==
  ASSUME BaseIInv, FlushRequest
  PROVE  BaseIInv'
<1>1. /\ Receive(Flush) /\ DoFlush(deltas, stage) /\ phase' = "draining"
      /\ UNCHANGED <<op, rows, restarts, covered, overtaken>>
  BY DEF FlushRequest
<1>2. /\ mailbox \in Seq(Msgs) /\ mailbox # << >> /\ Head(mailbox) = Flush
      /\ mailbox' = Tail(mailbox) /\ mailbox' \in Seq(Msgs)
      /\ 1 \in DOMAIN mailbox /\ mailbox[1] = Flush
  BY <1>1, Messages, Received
<1>3. /\ stage' \in [Calls -> Stages]
      /\ \A c \in Calls : \/ stage'[c] = stage[c] /\ stage[c] # "buffered"
                          \/ stage'[c] \in {"settled", "lost"} /\ stage[c] = "buffered"
      /\ Sums(deltas') /\ count' \in [Keys -> Nat] /\ clamped' \in [Keys -> Nat]
      /\ flushErrors' \in 0..MaxFlushErrors
  BY <1>1, FlushAllStages
<1>4. TypeOK'
  BY <1>1, <1>2, <1>3 DEF BaseIInv, TypeOK, Msgs, Sums, rows
<1>5. CallsTyped'
  <2>1. \A b \in Calls : stage'[b] # "idle" => stage[b] # "idle"
    BY <1>3
  <2>. QED  BY <1>1, <2>1 DEF BaseIInv, CallsTyped, rows
<1>6. PopsTo(mailbox, stage, stage')
  <2>1. \A d \in Calls : Flush \notin {Job(d), Delta(d)}
    BY Messages
  <2>. QED  BY <1>2, <1>3, <2>1 DEF PopsTo, Waiting
<1>7. Fits(mailbox', stage')
  BY <1>2, <1>6, PopFits DEF BaseIInv
<1>8. Covers(mailbox', stage', phase', covered')
  <2>1. \A i \in DOMAIN mailbox' : mailbox'[i] # Flush
    <3>1. \A i \in DOMAIN Tail(mailbox) : i + 1 \in DOMAIN mailbox /\ i + 1 # 1
                                          /\ Tail(mailbox)[i] = mailbox[i + 1]
      BY <1>2, Popped
    <3>. QED  BY <1>2, <3>1 DEF BaseIInv, Fits
  <2>2. \A c \in covered : c \in Calls /\ stage[c] # "posted"
    <3>1. \A j \in 1..(1 - 1) : FALSE
      OBVIOUS
    <3>. QED  BY <1>2, <3>1 DEF BaseIInv, TypeOK, Covers
  <2>3. \A c \in covered : stage'[c] \in {"settled", "lost"}
    BY <1>3, <2>2 DEF BaseIInv, Covers
  <2>. QED  BY <1>1, <2>1, <2>3 DEF Covers
<1>. QED  BY <1>4, <1>5, <1>7, <1>8 DEF BaseIInv

LEMMA TickKeepsBase ==
  ASSUME BaseIInv, Tick
  PROVE  BaseIInv'
<1>1. DoFlush(deltas, stage) /\ UNCHANGED <<op, mailbox, rows, process, overtaken>>
  BY DEF Tick
<1>2. /\ stage' \in [Calls -> Stages]
      /\ \A c \in Calls : \/ stage'[c] = stage[c] /\ stage[c] # "buffered"
                          \/ stage'[c] \in {"settled", "lost"} /\ stage[c] = "buffered"
      /\ Sums(deltas') /\ count' \in [Keys -> Nat] /\ clamped' \in [Keys -> Nat]
      /\ flushErrors' \in 0..MaxFlushErrors
  BY <1>1, FlushAllStages
<1>3. TypeOK'
  BY <1>1, <1>2 DEF BaseIInv, TypeOK, Sums, rows, process
<1>4. CallsTyped'
  <2>1. \A b \in Calls : stage'[b] # "idle" => stage[b] # "idle"
    BY <1>2
  <2>. QED  BY <1>1, <2>1 DEF BaseIInv, CallsTyped, rows
<1>5. Fits(mailbox', stage')
  BY <1>1, <1>2, StayFits DEF BaseIInv, Waiting
<1>6. Covers(mailbox', stage', phase', covered')
  <2>1. covered \in SUBSET Calls /\ UNCHANGED <<phase, covered>>
    BY <1>1 DEF BaseIInv, TypeOK, process
  <2>. QED  BY <1>1, <1>2, <2>1, StayCovers DEF BaseIInv
<1>. QED  BY <1>3, <1>4, <1>5, <1>6 DEF BaseIInv

LEMMA InterruptKeepsBase ==
  ASSUME BaseIInv, Interrupt
  PROVE  BaseIInv'
<1>1. /\ phase = "up" /\ phase' = "flushing" /\ mailbox' = Append(mailbox, Flush)
      /\ covered' = In({"posted", "buffered"})
      /\ UNCHANGED <<op, stage, rows, actor, restarts, overtaken>>
  BY DEF Interrupt
<1>2. mailbox \in Seq(Msgs) /\ Flush \in Msgs /\ mailbox' \in Seq(Msgs)
  BY <1>1, Mailbox, Messages, Appended DEF BaseIInv
<1>3. covered' \subseteq Calls /\ \A c \in covered' : stage[c] \in {"posted", "buffered"}
  BY <1>1 DEF In
<1>4. TypeOK'
  BY <1>1, <1>2, <1>3 DEF BaseIInv, TypeOK, Msgs, rows, actor
<1>5. CallsTyped'
  BY <1>1 DEF BaseIInv, CallsTyped, rows
<1>6. \A i \in DOMAIN mailbox : mailbox[i] # Flush
  BY <1>1 DEF BaseIInv, Covers
<1>7. AppendsTo(mailbox, stage, stage', Flush)
  <2>1. \A d \in Calls : Flush # Job(d) /\ Flush # Delta(d)
    BY Messages
  <2>. QED  BY <1>1, <1>6, <2>1 DEF AppendsTo
<1>8. Fits(mailbox', stage')
  BY <1>1, <1>2, <1>7, AppendFits DEF BaseIInv
<1>9. Covers(mailbox', stage', phase', covered')
  <2>1. /\ Len(mailbox) \in Nat /\ DOMAIN mailbox = 1..Len(mailbox)
        /\ DOMAIN mailbox' = 1..(Len(mailbox) + 1)
        /\ \A i \in 1..Len(mailbox) : mailbox'[i] = mailbox[i]
    BY <1>1, <1>2, Appended
  <2>2. ASSUME NEW i \in DOMAIN mailbox', mailbox'[i] = Flush,
               NEW c \in covered', stage[c] = "posted"
        PROVE  \E j \in 1..(i - 1) : mailbox'[j] = Delta(c)
    <3>1. i = Len(mailbox) + 1
      BY <1>6, <2>1, <2>2
    <3>2. PICK j \in DOMAIN mailbox : mailbox[j] = Delta(c)
      BY <1>3, <2>2 DEF BaseIInv, Fits
    <3>3. j \in 1..(i - 1)
      BY <2>1, <3>1
    <3>. QED  BY <2>1, <3>2, <3>3
  <2>. QED  BY <1>1, <1>3, <2>2 DEF Covers
<1>. QED  BY <1>4, <1>5, <1>8, <1>9 DEF BaseIInv

(* A process that ends, drained or not.                                    *)
LEMMA StopStages ==
  ASSUME BaseIInv, Stop
  PROVE  /\ phase' = "down" /\ mailbox' = << >> /\ deltas' = Empty
         /\ UNCHANGED <<op, rows, count, clamped, flushErrors, restarts, overtaken, covered>>
         /\ stage' \in [Calls -> Stages]
         /\ \A c \in Calls :
              \/ stage[c] \in Waiting /\ stage'[c] = "done"
              \/ stage[c] \in {"owed", "posted", "buffered"} /\ stage'[c] = "lost"
              \/ stage[c] \in {"idle", "settled", "lost", "done"} /\ stage'[c] = stage[c]
<1>1. stage \in [Calls -> Stages]
  BY DEF BaseIInv, TypeOK
<1>2. stage' = [c \in Calls |->
       IF stage[c] \in {"queued", "orphaned"} THEN "done"
       ELSE IF stage[c] \in {"owed", "posted", "buffered"} THEN "lost"
       ELSE stage[c]]
  BY DEF Stop
<1>3. stage' \in [Calls -> Stages]
  BY <1>1, <1>2 DEF Stages
<1>4. ASSUME NEW c \in Calls
      PROVE  \/ stage[c] \in Waiting /\ stage'[c] = "done"
             \/ stage[c] \in {"owed", "posted", "buffered"} /\ stage'[c] = "lost"
             \/ stage[c] \in {"idle", "settled", "lost", "done"} /\ stage'[c] = stage[c]
  <2>1. stage[c] \in Stages
    BY <1>1
  <2>. QED  BY <1>2, <2>1 DEF Stages, Waiting
<1>. QED  BY <1>3, <1>4 DEF Stop

LEMMA StopKeepsBase ==
  ASSUME BaseIInv, Stop
  PROVE  BaseIInv'
<1>1. /\ phase' = "down" /\ mailbox' = << >> /\ deltas' = Empty
      /\ UNCHANGED <<op, rows, count, clamped, flushErrors, restarts, overtaken, covered>>
      /\ stage' \in [Calls -> Stages]
      /\ \A c \in Calls :
           \/ stage[c] \in Waiting /\ stage'[c] = "done"
           \/ stage[c] \in {"owed", "posted", "buffered"} /\ stage'[c] = "lost"
           \/ stage[c] \in {"idle", "settled", "lost", "done"} /\ stage'[c] = stage[c]
  BY StopStages
<1>2. TypeOK'
  <2>1. mailbox' \in Seq(Msgs) /\ Sums(deltas')
    BY <1>1, EmptySums
  <2>. QED  BY <1>1, <2>1 DEF BaseIInv, TypeOK, Msgs, Sums, rows
<1>3. CallsTyped'
  <2>1. \A b \in Calls : stage'[b] # "idle" => stage[b] # "idle"
    BY <1>1 DEF Waiting
  <2>. QED  BY <1>1, <2>1 DEF BaseIInv, CallsTyped, rows
<1>4. DOMAIN mailbox' = {}
  BY <1>1
<1>5. Fits(mailbox', stage')
  <2>1. \A c \in Calls : stage'[c] # "posted"
    BY <1>1
  <2>. QED  BY <1>4, <2>1 DEF Fits
<1>6. Covers(mailbox', stage', phase', covered')
  <2>1. \A c \in covered : c \in Calls /\ stage[c] \in {"posted", "buffered", "settled", "lost"}
    BY DEF BaseIInv, TypeOK, Covers
  <2>2. \A c \in covered : stage'[c] \in {"settled", "lost"}
    BY <1>1, <2>1 DEF Waiting
  <2>. QED  BY <1>1, <1>4, <2>2 DEF Covers
<1>. QED  BY <1>2, <1>3, <1>5, <1>6 DEF BaseIInv

LEMMA RestartKeepsBase ==
  ASSUME BaseIInv, Restart
  PROVE  BaseIInv'
<1>1. /\ phase = "down" /\ phase' = "up" /\ covered' = {}
      /\ restarts' = restarts + 1 /\ restarts < MaxRestarts
      /\ UNCHANGED <<op, stage, mailbox, rows, actor, overtaken>>
  BY DEF Restart
<1>2. restarts' \in 0..MaxRestarts
  <2>1. restarts \in 0..MaxRestarts
    BY DEF BaseIInv, TypeOK
  <2>. QED  BY <1>1, <2>1, CounterAssumption
<1>3. TypeOK'
  BY <1>1, <1>2 DEF BaseIInv, TypeOK, rows, actor
<1>4. CallsTyped' /\ Fits(mailbox', stage')
  BY <1>1 DEF BaseIInv, CallsTyped, rows
<1>5. Covers(mailbox', stage', phase', covered')
  BY <1>1 DEF BaseIInv, Covers
<1>. QED  BY <1>3, <1>4, <1>5 DEF BaseIInv

LEMMA InitBase ==
  ASSUME Init
  PROVE  BaseIInv
<1>. USE DEF Init
<1>1. TypeOK
  <2>1. 0 \in Nat /\ 0 \in 0..MaxRestarts /\ 0 \in 0..MaxFlushErrors
    BY CounterAssumption
  <2>2. Sums(deltas) /\ mailbox \in Seq(Msgs)
    BY EmptySums
  <2>3. /\ op \in [Calls -> Ops \cup {NoOp}] /\ stage \in [Calls -> Stages]
        /\ likes \in [Posts -> SUBSET Users] /\ comments \in [Posts -> SUBSET Calls]
        /\ posts \in [Posts -> {"live", "deleted", "gone"}]
    BY DEF Stages
  <2>. QED  BY <2>1, <2>2, <2>3 DEF TypeOK, Sums, Msgs
<1>2. CallsTyped
  BY DEF CallsTyped
<1>3. DOMAIN mailbox = {}
  OBVIOUS
<1>4. Fits(mailbox, stage) /\ Covers(mailbox, stage, phase, covered)
  BY <1>3 DEF Fits, Covers
<1>. QED  BY <1>1, <1>2, <1>4 DEF BaseIInv

LEMMA BaseStep ==
  ASSUME BaseIInv, [Next]_vars
  PROVE  BaseIInv'
<1>1. CASE \E c \in Calls : Begin(c) \/ PostDelta(c) \/ HangUp(c)
  BY <1>1, BeginKeepsBase, PostDeltaKeepsBase, HangUpKeepsBase
<1>2. CASE Writer
  BY <1>2, FlushRequestKeepsBase, JobKeepsBase, AddDeltaKeepsBase DEF Writer
<1>3. CASE Tick
  BY <1>3, TickKeepsBase
<1>4. CASE Interrupt
  BY <1>4, InterruptKeepsBase
<1>5. CASE Exit \/ Crash
  BY <1>5, StopKeepsBase DEF Exit, Crash
<1>6. CASE Restart
  BY <1>6, RestartKeepsBase
<1>7. CASE UNCHANGED vars
  BY <1>7 DEF BaseIInv, TypeOK, CallsTyped, vars, rows, actor, process
<1>. QED  BY <1>1, <1>2, <1>3, <1>4, <1>5, <1>6, <1>7 DEF Next

(* Shapes, and what each stage of a call says of the actor (BaseIInv), hold *)
(* in every behaviour: the ground on which the other theorems stand.       *)
THEOREM BaseInvariance == Spec => []BaseIInv
<1>. QED  BY InitBase, BaseStep, PTL DEF Spec

(* The mailbox, the sums, the rows and the persisted counters, never       *)
(* negative, are of their types in every behaviour.                        *)
THEOREM TypeCorrect == Spec => []TypeOK
<1>1. BaseIInv => TypeOK
  BY DEF BaseIInv
<1>. QED  BY <1>1, BaseInvariance, PTL

(* When flush_now returns, every delta sent before it was called has left  *)
(* the actor (Writer::flush_now, main's shutdown future).                  *)
THEOREM ShutdownFlushCovers == Spec => []FlushNowCovers
<1>1. BaseIInv => FlushNowCovers
  BY DEF BaseIInv, Covers, FlushNowCovers, In
<1>. QED  BY <1>1, BaseInvariance, PTL

-----------------------------------------------------------------------------
(* Counters and rows.                                                      *)

Open == {"owed", "posted", "buffered", "lost"}
Held(d, k) == IF k \in DOMAIN d THEN d[k] ELSE 0

(* Rows come from calls whose jobs have run; a post's likes are finite.    *)
RowsOK ==
  /\ \A p \in Posts : IsFiniteSet(likes[p])
  /\ \A p \in Posts : \A c \in comments[p] :
       stage[c] \in Ran /\ op[c].kind = "comment_create" /\ op[c].post = p
  /\ \A c \in hidden : stage[c] \in Ran

(* The actor's map holds the sums of the deltas that it has buffered.      *)
SumsOK == \A k \in Keys : Held(deltas, k) = Net(k, At({"buffered"}, stage), op)

(* CountExplained, with the sum spelt out.                                 *)
Explained ==
  \A k \in Keys : posts[k[1]] # "gone" =>
    count[k] = Cardinality(Rows(k)) + clamped[k] - Net(k, At(Open, stage), op)

CountIInv == RowsOK /\ SumsOK /\ Explained

LEMMA AtIsCalls ==
  ASSUME NEW S, NEW s
  PROVE  At(S, s) \in SUBSET Calls
  BY DEF At

LEMMA RowsFinite ==
  ASSUME BaseIInv, RowsOK, NEW k \in Keys
  PROVE  IsFiniteSet(Rows(k)) /\ Cardinality(Rows(k)) \in Nat
<1>1. k[1] \in Posts
  BY DEF Keys
<1>2. comments[k[1]] \ hidden \in SUBSET Calls
  BY <1>1 DEF BaseIInv, TypeOK
<1>3. IsFiniteSet(Rows(k))
  BY <1>1, <1>2, CallsFinite DEF Rows, RowsOK
<1>. QED  BY <1>3, FS_CardinalityType

(* Steps that change no row, sum or counter and no delta's whereabouts, as *)
(* far as the sums tell them apart.                                        *)
LEMMA QuietKeepsCount ==
  ASSUME BaseIInv, CountIInv, UNCHANGED <<rows, deltas, count, clamped>>,
         \A c \in Calls : /\ stage[c] \in Ran => stage'[c] \in Ran /\ op'[c] = op[c]
                          /\ stage[c] \in Open <=> stage'[c] \in Open
                          /\ stage[c] = "buffered" <=> stage'[c] = "buffered"
  PROVE  CountIInv'
<1>1. UNCHANGED <<likes, comments, hidden, posts, deltas, count, clamped>>
  BY DEF rows
<1>2. RowsOK'
  <2>1. \A p \in Posts : comments[p] \subseteq Calls
    BY DEF BaseIInv, TypeOK
  <2>2. hidden \subseteq Calls
    BY DEF BaseIInv, TypeOK
  <2>. QED  BY <1>1, <2>1, <2>2 DEF CountIInv, RowsOK
<1>3. At(Open, stage') = At(Open, stage) /\ At({"buffered"}, stage') = At({"buffered"}, stage)
  BY DEF At
<1>4. \A c \in Calls : stage[c] \in Open \cup {"buffered"} => op'[c] = op[c]
  BY DEF Ran, Open
<1>5. \A k \in Keys : /\ Net(k, At(Open, stage), op') = Net(k, At(Open, stage), op)
                      /\ Net(k, At({"buffered"}, stage), op') = Net(k, At({"buffered"}, stage), op)
  <2>1. /\ \A c \in At(Open, stage) : op'[c] = op[c]
        /\ \A c \in At({"buffered"}, stage) : op'[c] = op[c]
    BY <1>4 DEF At
  <2>. QED  BY <2>1, NetAgrees
<1>6. SumsOK'
  BY <1>1, <1>3, <1>5 DEF CountIInv, SumsOK
<1>7. Explained'
  <2>1. \A k \in Keys : Rows(k)' = Rows(k)
    BY <1>1 DEF Rows
  <2>. QED  BY <1>1, <1>3, <1>5, <2>1 DEF CountIInv, Explained
<1>. QED  BY <1>2, <1>6, <1>7 DEF CountIInv

(* Buffered deltas settle or are lost together.                            *)
LEMMA FlushKeepsCount ==
  ASSUME BaseIInv, CountIInv, NEW d, Sums(d), NEW s \in [Calls -> Stages],
         \A k \in Keys : Held(d, k) = Net(k, At({"buffered"}, s), op),
         At(Open, s) = At(Open, stage), \A c \in Calls : stage[c] \in Ran => s[c] \in Ran,
         DoFlush(d, s), UNCHANGED <<op, rows>>
  PROVE  CountIInv'
<1>. DEFINE Bs == At({"buffered"}, s)
            Os == At(Open, s)
            Rest == At(Open, stage')
<1>1. PICK to \in {"settled", "lost"} : stage' = Drain(s, to)
  BY Flushes
<1>2. \A c \in Calls : stage'[c] = IF s[c] = "buffered" THEN to ELSE s[c]
  BY <1>1 DEF Drain
<1>3. deltas' = Empty /\ UNCHANGED <<op, likes, comments, hidden, posts>>
  BY DEF DoFlush, rows
<1>4. RowsOK'
  <2>1. \A p \in Posts : comments[p] \subseteq Calls
    BY DEF BaseIInv, TypeOK
  <2>2. hidden \subseteq Calls
    BY DEF BaseIInv, TypeOK
  <2>3. \A c \in Calls : stage[c] \in Ran => stage'[c] \in Ran
    BY <1>2 DEF Ran
  <2>. QED  BY <1>3, <2>1, <2>2, <2>3 DEF CountIInv, RowsOK
<1>5. SumsOK'
  <2>1. At({"buffered"}, stage') = {}
    BY <1>2 DEF At
  <2>2. \A k \in Keys : Held(deltas', k) = 0
    BY <1>3 DEF Held, Empty
  <2>. QED  BY <1>3, <2>1, <2>2, NetOfNone DEF SumsOK
<1>6. \A k \in Keys : Rows(k)' = Rows(k)
  BY <1>3 DEF Rows
<1>7. Os \in SUBSET Calls /\ Bs \in SUBSET Calls /\ Rest \in SUBSET Calls
  BY AtIsCalls
<1>8. CASE FlushFails(d, s)
  <2>1. stage' = Drain(s, "lost") /\ UNCHANGED <<count, clamped>>
    BY <1>8 DEF FlushFails
  <2>2. Rest = Os
    BY <2>1 DEF At, Drain, Open
  <2>3. Explained'
    BY <1>3, <1>6, <2>1, <2>2 DEF CountIInv, Explained
  <2>. QED  BY <1>4, <1>5, <2>3 DEF CountIInv
<1>9. CASE FlushCommits(d, s)
  <2>1. /\ stage' = Drain(s, "settled")
        /\ count' = [k \in Keys |-> IF k \in Flushed(d) THEN Max0(Target(d, k)) ELSE count[k]]
        /\ clamped' = [k \in Keys |-> IF k \in Flushed(d)
                                      THEN clamped[k] + Max0(-Target(d, k)) ELSE clamped[k]]
    BY <1>9 DEF FlushCommits
  <2>2. Os = Rest \cup Bs /\ Rest \cap Bs = {}
    BY <2>1 DEF At, Drain, Open
  <2>3. ASSUME NEW k \in Keys, posts[k[1]] # "gone"
        PROVE  count'[k] = Cardinality(Rows(k)) + clamped'[k] - Net(k, Rest, op)
    <3>1. Net(k, Os, op) = Net(k, Rest, op) + Net(k, Bs, op)
      BY <1>7, <2>2, NetOfUnion
    <3>2. Net(k, Rest, op) \in Int /\ Net(k, Bs, op) \in Int /\ Cardinality(Rows(k)) \in Nat
      BY <1>7, NetIsInt, RowsFinite DEF CountIInv
    <3>3. count[k] = Cardinality(Rows(k)) + clamped[k] - Net(k, Os, op)
      BY <2>3 DEF CountIInv, Explained
    <3>4. count[k] \in Nat /\ clamped[k] \in Nat
      BY DEF BaseIInv, TypeOK
    <3>5. CASE k \in DOMAIN d
      <4>1. k \in Flushed(d) /\ Net(k, Bs, op) = d[k]
        BY <2>3, <3>5 DEF Flushed, Held
      <4>2. PICK n : n = Target(d, k)
        OBVIOUS
      <4>3. n \in Int /\ n = count[k] + Net(k, Bs, op)
        BY <3>2, <3>4, <4>1, <4>2 DEF Target
      <4>4. count'[k] = Max0(n) /\ clamped'[k] = clamped[k] + Max0(-n)
        BY <2>1, <4>1, <4>2
      <4>5. Max0(n) - Max0(-n) = n /\ Max0(n) \in Nat /\ Max0(-n) \in Nat
        BY <4>3 DEF Max0
      <4>. QED  BY <3>1, <3>2, <3>3, <3>4, <4>3, <4>4, <4>5
    <3>6. CASE k \notin DOMAIN d
      <4>1. k \notin Flushed(d) /\ Net(k, Bs, op) = 0
        BY <3>6 DEF Flushed, Held
      <4>2. count'[k] = count[k] /\ clamped'[k] = clamped[k]
        BY <2>1, <4>1
      <4>. QED  BY <3>1, <3>2, <3>3, <3>4, <4>1, <4>2
    <3>. QED  BY <3>5, <3>6
  <2>4. Explained'
    BY <1>3, <1>6, <2>3 DEF Explained
  <2>. QED  BY <1>4, <1>5, <2>4 DEF CountIInv
<1>. QED  BY <1>8, <1>9 DEF DoFlush

LEMMA QuietStepsKeepCount ==
  ASSUME BaseIInv, CountIInv, NEW c \in Calls,
         Begin(c) \/ PostDelta(c) \/ HangUp(c)
  PROVE  CountIInv'
<1>1. UNCHANGED <<rows, deltas, count, clamped>>
  BY DEF Begin, PostDelta, HangUp, actor
<1>2. stage \in [Calls -> Stages] /\ op \in [Calls -> Ops \cup {NoOp}]
  BY DEF BaseIInv, TypeOK
<1>3. \A b \in Calls : /\ stage[b] \in Ran => stage'[b] \in Ran /\ op'[b] = op[b]
                       /\ stage[b] \in Open <=> stage'[b] \in Open
                       /\ stage[b] = "buffered" <=> stage'[b] = "buffered"
  <2>1. CASE Begin(c)
    <3>1. stage[c] = "idle" /\ stage' = [stage EXCEPT ![c] = "queued"]
      BY <2>1 DEF Begin
    <3>2. \A b \in Calls : b # c => op'[b] = op[b]
      BY <1>2, <2>1 DEF Begin
    <3>. QED  BY <1>2, <3>1, <3>2 DEF Ran, Open
  <2>2. CASE PostDelta(c) \/ HangUp(c)
    <3>1. \/ stage[c] = "owed" /\ stage' = [stage EXCEPT ![c] = "posted"]
          \/ stage[c] = "queued" /\ stage' = [stage EXCEPT ![c] = "orphaned"]
          \/ stage[c] = "owed" /\ stage' = [stage EXCEPT ![c] = "lost"]
      BY <2>2 DEF PostDelta, HangUp
    <3>2. op' = op
      BY <2>2 DEF PostDelta, HangUp
    <3>. QED  BY <1>2, <3>1, <3>2 DEF Ran, Open
  <2>. QED  BY <2>1, <2>2
<1>. QED  BY <1>1, <1>3, QuietKeepsCount

LEMMA StopKeepsCount ==
  ASSUME BaseIInv, CountIInv, Stop
  PROVE  CountIInv'
<1>1. /\ deltas' = Empty /\ UNCHANGED <<op, likes, comments, hidden, posts, count, clamped>>
      /\ \A c \in Calls :
           \/ stage[c] \in Waiting /\ stage'[c] = "done"
           \/ stage[c] \in {"owed", "posted", "buffered"} /\ stage'[c] = "lost"
           \/ stage[c] \in {"idle", "settled", "lost", "done"} /\ stage'[c] = stage[c]
  BY StopStages DEF rows
<1>2. At(Open, stage') = At(Open, stage) /\ At({"buffered"}, stage') = {}
  BY <1>1 DEF At, Open, Waiting
<1>3. RowsOK'
  <2>1. \A p \in Posts : comments[p] \subseteq Calls
    BY DEF BaseIInv, TypeOK
  <2>2. hidden \subseteq Calls
    BY DEF BaseIInv, TypeOK
  <2>3. \A c \in Calls : stage[c] \in Ran => stage'[c] \in Ran
    BY <1>1 DEF Ran, Waiting
  <2>. QED  BY <1>1, <2>1, <2>2, <2>3 DEF CountIInv, RowsOK
<1>4. SumsOK'
  <2>1. \A k \in Keys : Held(deltas', k) = 0
    BY <1>1 DEF Held, Empty
  <2>. QED  BY <1>1, <1>2, <2>1, NetOfNone DEF SumsOK
<1>5. Explained'
  <2>1. \A k \in Keys : Rows(k)' = Rows(k)
    BY <1>1 DEF Rows
  <2>. QED  BY <1>1, <1>2, <2>1 DEF CountIInv, Explained
<1>. QED  BY <1>3, <1>4, <1>5 DEF CountIInv

LEMMA FlushAllKeepsCount ==
  ASSUME BaseIInv, CountIInv, FlushRequest \/ Tick
  PROVE  CountIInv'
<1>1. DoFlush(deltas, stage) /\ UNCHANGED <<op, rows>>
  BY DEF FlushRequest, Tick
<1>2. Sums(deltas) /\ stage \in [Calls -> Stages]
  BY DEF BaseIInv, TypeOK, Sums
<1>3. \A k \in Keys : Held(deltas, k) = Net(k, At({"buffered"}, stage), op)
  BY DEF CountIInv, SumsOK
<1>. QED  BY <1>1, <1>2, <1>3, FlushKeepsCount

(* Adding a delta to the map adds its call to the buffered ones.           *)
LEMMA AccumulateHolds ==
  ASSUME BaseIInv, SumsOK, NEW c \in Calls, stage[c] = "posted",
         NEW s, s = [stage EXCEPT ![c] = "buffered"], NEW k \in Keys
  PROVE  Held(Accumulate(c), k) = Net(k, At({"buffered"}, s), op)
<1>. DEFINE B == At({"buffered"}, stage)
<1>1. stage \in [Calls -> Stages]
  BY DEF BaseIInv, TypeOK
<1>2. B \in SUBSET Calls /\ c \in Calls \ B /\ At({"buffered"}, s) = B \cup {c}
  BY <1>1 DEF At
<1>3. Net(k, B \cup {c}, op) = Net(k, B, op) + (IF KeyOf(op[c]) = k THEN SignOf(op[c]) ELSE 0)
  BY <1>2, NetWithOneMore
<1>4. Key(c) = KeyOf(op[c]) /\ Amount(c) = SignOf(op[c]) /\ Amount(c) \in Int
  BY KeysOfCalls
<1>5. Held(deltas, k) = Net(k, B, op) /\ Net(k, B, op) \in Int
  BY <1>2, NetIsInt DEF SumsOK
<1>6. Held(Accumulate(c), k) = Held(deltas, k) + (IF k = Key(c) THEN Amount(c) ELSE 0)
  <2>1. CASE k \in DOMAIN deltas \cup {Key(c)}
    BY <2>1 DEF Accumulate, Held
  <2>2. CASE k \notin DOMAIN deltas \cup {Key(c)}
    BY <2>2 DEF Accumulate, Held
  <2>. QED  BY <2>1, <2>2
<1>. QED  BY <1>2, <1>3, <1>4, <1>5, <1>6

LEMMA AddDeltaKeepsCount ==
  ASSUME BaseIInv, CountIInv, NEW c \in Calls, AddDelta(c)
  PROVE  CountIInv'
<1>1. PICK s : s = [stage EXCEPT ![c] = "buffered"]
  OBVIOUS
<1>2. stage[c] = "posted" /\ stage \in [Calls -> Stages]
  BY AddDeltaStages DEF BaseIInv, TypeOK
<1>3. /\ s \in [Calls -> Stages] /\ s[c] = "buffered"
      /\ \A b \in Calls : b # c => s[b] = stage[b]
  BY <1>1, <1>2 DEF Stages
<1>4. \A k \in Keys : Held(Accumulate(c), k) = Net(k, At({"buffered"}, s), op)
  BY <1>1, <1>2, AccumulateHolds DEF CountIInv
<1>5. At(Open, s) = At(Open, stage) /\ \A b \in Calls : stage[b] \in Ran <=> s[b] \in Ran
  BY <1>2, <1>3 DEF At, Open, Ran
<1>6. UNCHANGED <<op, rows>>
  BY DEF AddDelta
<1>7. CASE DoFlush(Accumulate(c), s)
  <2>1. Sums(Accumulate(c))
    BY <1>2, AccumulateSums
  <2>. QED  BY <1>3, <1>4, <1>5, <1>6, <1>7, <2>1, FlushKeepsCount
<1>8. CASE deltas' = Accumulate(c) /\ stage' = s /\ UNCHANGED <<count, clamped>>
  <2>1. UNCHANGED <<op, likes, comments, hidden, posts, count, clamped>>
    BY <1>6, <1>8 DEF rows
  <2>2. RowsOK'
    <3>1. \A p \in Posts : comments[p] \subseteq Calls
      BY DEF BaseIInv, TypeOK
    <3>2. hidden \subseteq Calls
      BY DEF BaseIInv, TypeOK
    <3>. QED  BY <1>5, <1>8, <2>1, <3>1, <3>2 DEF CountIInv, RowsOK
  <2>3. SumsOK'
    BY <1>4, <1>8, <2>1 DEF SumsOK
  <2>4. Explained'
    <3>1. \A k \in Keys : Rows(k)' = Rows(k)
      BY <2>1 DEF Rows
    <3>. QED  BY <1>5, <1>8, <2>1, <3>1 DEF CountIInv, Explained
  <2>. QED  BY <2>2, <2>3, <2>4 DEF CountIInv
<1>. QED  BY <1>1, <1>7, <1>8 DEF AddDelta

(* A job counts: the rows of column k change by what its call will owe.    *)
Counts(c, b) ==
  \A k \in Keys : posts'[k[1]] # "gone" =>
    /\ posts[k[1]] # "gone"
    /\ Cardinality(Rows(k)') =
         Cardinality(Rows(k)) + (IF b # "done" /\ Key(c) = k THEN Amount(c) ELSE 0)

(* Rows stay rows of calls whose jobs have run.                            *)
RowsKept(c, b) ==
  /\ \A p \in Posts : IsFiniteSet(likes'[p])
  /\ \A p \in Posts : \A d \in comments'[p] :
       d \in comments[p] \/ (d = c /\ b # "done" /\ op[c].kind = "comment_create" /\ op[c].post = p)
  /\ \A d \in hidden' : d \in hidden \/ \E p \in Posts : d \in comments[p]

LEMMA KeyParts ==
  ASSUME NEW k \in Keys
  PROVE  /\ k[1] \in Posts /\ k[2] \in {"like_count", "comment_count"}
         /\ k = <<k[1], k[2]>>
  BY DEF Keys

(* A call owes a delta exactly when a row changed.                         *)
LEMMA Answered ==
  ASSUME NEW c, NEW changed \in BOOLEAN, Receive(Job(c)), Reply(c, changed),
         UNCHANGED <<op, actor, process, overtaken>>
  PROVE  \E b : JobRuns(c, b) /\ (b = "done" <=> ~changed)
<1>1. CASE ~changed
  <2>1. stage' = [stage EXCEPT ![c] = "done"]
    BY <1>1 DEF Reply
  <2>. QED  BY <1>1, <2>1 DEF JobRuns
<1>2. CASE changed
  <2>1. \/ stage' = [stage EXCEPT ![c] = "lost"]
        \/ stage' = [stage EXCEPT ![c] = "owed"]
    BY <1>2 DEF Reply
  <2>. QED  BY <1>2, <2>1 DEF JobRuns
<1>. QED  BY <1>1, <1>2

(* One row more, one row less.                                             *)
LEMMA RowAdded ==
  ASSUME NEW S, IsFiniteSet(S), NEW x, x \notin S
  PROVE  IsFiniteSet(S \cup {x}) /\ Cardinality(S \cup {x}) = Cardinality(S) + 1
  BY FS_AddElement

LEMMA RowRemoved ==
  ASSUME NEW S, IsFiniteSet(S), NEW x
  PROVE  /\ IsFiniteSet(S \ {x})
         /\ Cardinality(S \ {x}) = IF x \in S THEN Cardinality(S) - 1 ELSE Cardinality(S)
  BY FS_RemoveElement

LEMMA LikeCounts ==
  ASSUME BaseIInv, RowsOK, NEW c \in Calls, LikeJob(c)
  PROVE  \E b : JobRuns(c, b) /\ Counts(c, b) /\ RowsKept(c, b)
<1>. DEFINE p == op[c].post
            u == op[c].user
<1>1. stage[c] \in Waiting
  BY JobFirst DEF LikeJob
<1>2. op[c] \in Ops /\ p \in Posts
  BY <1>1 DEF BaseIInv, CallsTyped, Waiting, Ops
<1>3. PICK new \in BOOLEAN :
                 /\ new = (posts[p] = "live" /\ u \notin likes[p])
                 /\ likes' = [likes EXCEPT ![p] = IF new THEN @ \cup {u} ELSE @]
                 /\ Reply(c, new)
  BY DEF LikeJob
<1>4. /\ Receive(Job(c)) /\ op[c].kind = "like"
      /\ UNCHANGED <<op, comments, hidden, posts, actor, process, overtaken>>
  BY DEF LikeJob
<1>5. PICK b : JobRuns(c, b) /\ (b = "done" <=> ~new)
  BY <1>3, <1>4, Answered
<1>6. Key(c) = <<p, "like_count">> /\ Amount(c) = 1
  BY <1>4 DEF Key, Amount
<1>7. likes \in [Posts -> SUBSET Users] /\ IsFiniteSet(likes[p])
  BY <1>2 DEF BaseIInv, TypeOK, RowsOK
<1>8. /\ likes'[p] = IF new THEN likes[p] \cup {u} ELSE likes[p]
      /\ \A q \in Posts : q # p => likes'[q] = likes[q]
  BY <1>2, <1>3, <1>7
<1>9. IsFiniteSet(likes'[p]) /\ Cardinality(likes'[p]) = Cardinality(likes[p]) + (IF new THEN 1 ELSE 0)
  <2>1. Cardinality(likes[p]) \in Nat
    BY <1>7, FS_CardinalityType
  <2>2. CASE new
    <3>1. u \notin likes[p] /\ likes'[p] = likes[p] \cup {u}
      BY <1>3, <1>8, <2>2
    <3>2. /\ IsFiniteSet(likes[p] \cup {u})
          /\ Cardinality(likes[p] \cup {u}) = Cardinality(likes[p]) + 1
      <4>1. PICK L : L = likes[p]
        OBVIOUS
      <4>2. IsFiniteSet(L) /\ u \notin L
        BY <1>7, <3>1, <4>1
      <4>3. IsFiniteSet(L \cup {u}) /\ Cardinality(L \cup {u}) = Cardinality(L) + 1
        BY <4>2, RowAdded
      <4>. QED  BY <4>1, <4>3
    <3>. QED  BY <2>2, <3>1, <3>2
  <2>3. CASE ~new
    BY <1>7, <1>8, <2>1, <2>3
  <2>. QED  BY <2>2, <2>3
<1>10. RowsKept(c, b)
  BY <1>4, <1>8, <1>9 DEF RowsKept, RowsOK
<1>11. Counts(c, b)
  <2>. SUFFICES ASSUME NEW k \in Keys
                PROVE  Cardinality(Rows(k)') =
                  Cardinality(Rows(k)) + (IF b # "done" /\ Key(c) = k THEN Amount(c) ELSE 0)
    BY <1>4 DEF Counts
  <2>1. k[1] \in Posts /\ k = <<k[1], k[2]>> /\ k[2] \in {"like_count", "comment_count"}
    BY KeyParts
  <2>2. Cardinality(Rows(k)) \in Nat
    BY RowsFinite
  <2>3. CASE k = Key(c)
    <3>1. Rows(k) = likes[p] /\ Rows(k)' = likes'[p]
      BY <1>6, <2>3 DEF Rows
    <3>. QED  BY <1>5, <1>6, <1>9, <2>2, <2>3, <3>1
  <2>4. CASE k # Key(c)
    <3>1. Rows(k)' = Rows(k)
      <4>1. k[2] = "like_count" => k[1] # p
        BY <1>6, <2>1, <2>4
      <4>. QED  BY <1>4, <1>8, <2>1, <4>1 DEF Rows
    <3>. QED  BY <2>2, <2>4, <3>1
  <2>. QED  BY <2>3, <2>4
<1>. QED  BY <1>5, <1>10, <1>11

LEMMA UnlikeCounts ==
  ASSUME BaseIInv, RowsOK, NEW c \in Calls, UnlikeJob(c)
  PROVE  \E b : JobRuns(c, b) /\ Counts(c, b) /\ RowsKept(c, b)
<1>. DEFINE p == op[c].post
            u == op[c].user
<1>1. stage[c] \in Waiting
  BY JobFirst DEF UnlikeJob
<1>2. op[c] \in Ops /\ p \in Posts
  BY <1>1 DEF BaseIInv, CallsTyped, Waiting, Ops
<1>3. PICK gone \in BOOLEAN : (gone <=> u \in likes[p]) /\ Reply(c, gone)
  <2>1. Reply(c, u \in likes[p])
    BY DEF UnlikeJob
  <2>2. CASE u \in likes[p]
    <3>1. Reply(c, TRUE)
      BY <2>1, <2>2 DEF Reply
    <3>. QED  BY <2>2, <3>1
  <2>3. CASE u \notin likes[p]
    <3>1. Reply(c, FALSE)
      BY <2>1, <2>3 DEF Reply
    <3>. QED  BY <2>3, <3>1
  <2>. QED  BY <2>2, <2>3
<1>4. /\ Receive(Job(c)) /\ op[c].kind = "unlike"
      /\ likes' = [likes EXCEPT ![p] = @ \ {u}]
      /\ UNCHANGED <<op, comments, hidden, posts, actor, process, overtaken>>
  BY DEF UnlikeJob
<1>5. PICK b : JobRuns(c, b) /\ (b = "done" <=> ~gone)
  BY <1>3, <1>4, Answered
<1>6. Key(c) = <<p, "like_count">> /\ Amount(c) = -1
  BY <1>4 DEF Key, Amount
<1>7. likes \in [Posts -> SUBSET Users] /\ IsFiniteSet(likes[p])
  BY <1>2 DEF BaseIInv, TypeOK, RowsOK
<1>8. /\ likes'[p] = likes[p] \ {u}
      /\ \A q \in Posts : q # p => likes'[q] = likes[q]
  BY <1>2, <1>4, <1>7
<1>9. IsFiniteSet(likes'[p]) /\ Cardinality(likes'[p]) = Cardinality(likes[p]) + (IF gone THEN -1 ELSE 0)
  <2>1. Cardinality(likes[p]) \in Nat
    BY <1>7, FS_CardinalityType
  <2>2. /\ IsFiniteSet(likes[p] \ {u})
        /\ Cardinality(likes[p] \ {u}) =
             IF u \in likes[p] THEN Cardinality(likes[p]) - 1 ELSE Cardinality(likes[p])
    <3>1. PICK L : L = likes[p]
      OBVIOUS
    <3>2. IsFiniteSet(L)
      BY <1>7, <3>1
    <3>3. /\ IsFiniteSet(L \ {u})
          /\ Cardinality(L \ {u}) = IF u \in L THEN Cardinality(L) - 1 ELSE Cardinality(L)
      BY <3>2, RowRemoved
    <3>. QED  BY <3>1, <3>3
  <2>. QED  BY <1>3, <1>8, <2>1, <2>2
<1>10. RowsKept(c, b)
  BY <1>4, <1>8, <1>9 DEF RowsKept, RowsOK
<1>11. Counts(c, b)
  <2>. SUFFICES ASSUME NEW k \in Keys
                PROVE  Cardinality(Rows(k)') =
                  Cardinality(Rows(k)) + (IF b # "done" /\ Key(c) = k THEN Amount(c) ELSE 0)
    BY <1>4 DEF Counts
  <2>1. k[1] \in Posts /\ k = <<k[1], k[2]>> /\ k[2] \in {"like_count", "comment_count"}
    BY KeyParts
  <2>2. Cardinality(Rows(k)) \in Nat
    BY RowsFinite
  <2>3. CASE k = Key(c)
    <3>1. Rows(k) = likes[p] /\ Rows(k)' = likes'[p]
      BY <1>6, <2>3 DEF Rows
    <3>. QED  BY <1>5, <1>6, <1>9, <2>2, <2>3, <3>1
  <2>4. CASE k # Key(c)
    <3>1. Rows(k)' = Rows(k)
      <4>1. k[2] = "like_count" => k[1] # p
        BY <1>6, <2>1, <2>4
      <4>. QED  BY <1>4, <1>8, <2>1, <4>1 DEF Rows
    <3>. QED  BY <2>2, <2>4, <3>1
  <2>. QED  BY <2>3, <2>4
<1>. QED  BY <1>5, <1>10, <1>11

LEMMA CommentCounts ==
  ASSUME BaseIInv, RowsOK, NEW c \in Calls, CommentJob(c)
  PROVE  \E b : JobRuns(c, b) /\ Counts(c, b) /\ RowsKept(c, b)
<1>. DEFINE p == op[c].post
<1>1. stage[c] \in Waiting
  BY JobFirst DEF CommentJob
<1>2. op[c] \in Ops /\ p \in Posts
  BY <1>1 DEF BaseIInv, CallsTyped, Waiting, Ops
<1>3. PICK new \in BOOLEAN :
        /\ new = (posts[p] = "live")
        /\ comments' = [comments EXCEPT ![p] = IF new THEN @ \cup {c} ELSE @]
        /\ Reply(c, new)
  BY DEF CommentJob
<1>4. /\ Receive(Job(c)) /\ op[c].kind = "comment_create"
      /\ UNCHANGED <<op, likes, hidden, posts, actor, process, overtaken>>
  BY DEF CommentJob
<1>5. PICK b : JobRuns(c, b) /\ (b = "done" <=> ~new)
  BY <1>3, <1>4, Answered
<1>6. Key(c) = <<p, "comment_count">> /\ Amount(c) = 1
  BY <1>4 DEF Key, Amount
<1>7. comments \in [Posts -> SUBSET Calls] /\ comments[p] \in SUBSET Calls
  BY <1>2 DEF BaseIInv, TypeOK
<1>8. /\ comments'[p] = IF new THEN comments[p] \cup {c} ELSE comments[p]
      /\ \A q \in Posts : q # p => comments'[q] = comments[q]
  BY <1>2, <1>3, <1>7
<1>9. c \notin comments[p] /\ c \notin hidden
  BY <1>1, <1>2 DEF RowsOK, Waiting, Ran
<1>10. Cardinality(comments'[p] \ hidden) =
         Cardinality(comments[p] \ hidden) + (IF new THEN 1 ELSE 0)
  <2>1. comments[p] \ hidden \in SUBSET Calls
    BY <1>7
  <2>2. IsFiniteSet(comments[p] \ hidden) /\ Cardinality(comments[p] \ hidden) \in Nat
    BY <2>1, CallsFinite
  <2>3. CASE new
    <3>1. /\ comments'[p] \ hidden = (comments[p] \ hidden) \cup {c}
          /\ c \notin comments[p] \ hidden
      BY <1>8, <1>9, <2>3
    <3>2. Cardinality((comments[p] \ hidden) \cup {c}) = Cardinality(comments[p] \ hidden) + 1
      BY <2>2, <3>1, FS_AddElement
    <3>. QED  BY <2>3, <3>1, <3>2
  <2>4. CASE ~new
    BY <1>8, <2>2, <2>4
  <2>. QED  BY <2>3, <2>4
<1>11. RowsKept(c, b)
  BY <1>4, <1>5, <1>8 DEF RowsKept, RowsOK
<1>12. Counts(c, b)
  <2>. SUFFICES ASSUME NEW k \in Keys
                PROVE  Cardinality(Rows(k)') =
                  Cardinality(Rows(k)) + (IF b # "done" /\ Key(c) = k THEN Amount(c) ELSE 0)
    BY <1>4 DEF Counts
  <2>1. k[1] \in Posts /\ k = <<k[1], k[2]>> /\ k[2] \in {"like_count", "comment_count"}
    BY KeyParts
  <2>2. Cardinality(Rows(k)) \in Nat
    BY RowsFinite
  <2>3. CASE k = Key(c)
    <3>1. Rows(k) = comments[p] \ hidden /\ Rows(k)' = comments'[p] \ hidden
      BY <1>4, <1>6, <2>3 DEF Rows
    <3>. QED  BY <1>5, <1>6, <1>10, <2>2, <2>3, <3>1
  <2>4. CASE k # Key(c)
    <3>1. Rows(k)' = Rows(k)
      <4>1. k[2] = "comment_count" => k[1] # p
        BY <1>6, <2>1, <2>4
      <4>. QED  BY <1>4, <1>8, <2>1, <4>1 DEF Rows
    <3>. QED  BY <2>2, <2>4, <3>1
  <2>. QED  BY <2>3, <2>4
<1>. QED  BY <1>5, <1>11, <1>12

LEMMA DeleteCommentCounts ==
  ASSUME BaseIInv, RowsOK, NEW c \in Calls, DeleteCommentJob(c)
  PROVE  \E b : JobRuns(c, b) /\ Counts(c, b) /\ RowsKept(c, b)
<1>. DEFINE p == op[c].post
            t == op[c].target
<1>1. stage[c] \in Waiting
  BY JobFirst DEF DeleteCommentJob
<1>2. PICK ok \in BOOLEAN :
        /\ ok = (t \notin hidden /\ op[c].user \in {op[t].user, Author[p]})
        /\ hidden' = IF ok THEN hidden \cup {t} ELSE hidden
        /\ Reply(c, ok)
  BY DEF DeleteCommentJob
<1>3. /\ Receive(Job(c)) /\ op[c].kind = "delete_comment"
      /\ UNCHANGED <<op, likes, comments, posts, actor, process, overtaken>>
  BY DEF DeleteCommentJob
<1>4. op[c] \in Ops /\ p \in Posts /\ t \in comments[p]
  BY <1>1, <1>3 DEF BaseIInv, CallsTyped, Waiting, Ops
<1>5. PICK b : JobRuns(c, b) /\ (b = "done" <=> ~ok)
  BY <1>2, <1>3, Answered
<1>6. Key(c) = <<p, "comment_count">> /\ Amount(c) = -1
  BY <1>3 DEF Key, Amount
<1>7. comments[p] \in SUBSET Calls
  BY <1>4 DEF BaseIInv, TypeOK
<1>8. \A q \in Posts : q # p => t \notin comments[q]
  BY <1>4 DEF RowsOK
<1>9. Cardinality(comments[p] \ hidden') =
        Cardinality(comments[p] \ hidden) + (IF ok THEN -1 ELSE 0)
  <2>1. comments[p] \ hidden \in SUBSET Calls
    BY <1>7
  <2>2. IsFiniteSet(comments[p] \ hidden) /\ Cardinality(comments[p] \ hidden) \in Nat
    BY <2>1, CallsFinite
  <2>3. CASE ok
    <3>1. /\ comments[p] \ hidden' = (comments[p] \ hidden) \ {t}
          /\ t \in comments[p] \ hidden
      BY <1>2, <1>4, <2>3
    <3>2. Cardinality((comments[p] \ hidden) \ {t}) = Cardinality(comments[p] \ hidden) - 1
      BY <2>2, <3>1, FS_RemoveElement
    <3>. QED  BY <2>2, <2>3, <3>1, <3>2
  <2>4. CASE ~ok
    BY <1>2, <2>2, <2>4
  <2>. QED  BY <2>3, <2>4
<1>10. RowsKept(c, b)
  BY <1>2, <1>3, <1>4 DEF RowsKept, RowsOK
<1>11. Counts(c, b)
  <2>. SUFFICES ASSUME NEW k \in Keys
                PROVE  Cardinality(Rows(k)') =
                  Cardinality(Rows(k)) + (IF b # "done" /\ Key(c) = k THEN Amount(c) ELSE 0)
    BY <1>3 DEF Counts
  <2>1. k[1] \in Posts /\ k = <<k[1], k[2]>> /\ k[2] \in {"like_count", "comment_count"}
    BY KeyParts
  <2>2. Cardinality(Rows(k)) \in Nat
    BY RowsFinite
  <2>3. CASE k = Key(c)
    <3>1. Rows(k) = comments[p] \ hidden /\ Rows(k)' = comments[p] \ hidden'
      BY <1>3, <1>6, <2>3 DEF Rows
    <3>. QED  BY <1>5, <1>6, <1>9, <2>2, <2>3, <3>1
  <2>4. CASE k # Key(c)
    <3>1. Rows(k)' = Rows(k)
      <4>1. k[2] = "comment_count" => k[1] # p
        BY <1>6, <2>1, <2>4
      <4>2. k[1] # p => comments[k[1]] \ hidden' = comments[k[1]] \ hidden
        BY <1>2, <1>8, <2>1
      <4>. QED  BY <1>3, <2>1, <4>1, <4>2 DEF Rows
    <3>. QED  BY <2>2, <2>4, <3>1
  <2>. QED  BY <2>3, <2>4
<1>. QED  BY <1>5, <1>10, <1>11

(* A post that is gone does not come back.                                 *)
LEMMA DeletePostCounts ==
  ASSUME BaseIInv, RowsOK, NEW c \in Calls, DeletePostJob(c)
  PROVE  \E b : JobRuns(c, b) /\ Counts(c, b) /\ RowsKept(c, b)
<1>1. /\ Receive(Job(c)) /\ Reply(c, FALSE)
      /\ UNCHANGED <<op, likes, comments, hidden, actor, process, overtaken>>
  BY DEF DeletePostJob
<1>2. PICK b : JobRuns(c, b) /\ b = "done"
  BY <1>1, Answered
<1>3. \A q \in Posts : posts[q] = "gone" => posts'[q] = "gone"
  <2>. DEFINE p == op[c].post
  <2>1. \/ posts[p] = "live" /\ posts' = [posts EXCEPT ![p] = "deleted"]
        \/ posts' = [posts EXCEPT ![p] = "gone"]
        \/ posts' = posts
    BY DEF DeletePostJob
  <2>2. posts \in [Posts -> {"live", "deleted", "gone"}]
    BY DEF BaseIInv, TypeOK
  <2>. QED  BY <2>1, <2>2
<1>4. RowsKept(c, b)
  BY <1>1 DEF RowsKept, RowsOK
<1>5. Counts(c, b)
  <2>. SUFFICES ASSUME NEW k \in Keys, posts'[k[1]] # "gone"
                PROVE  posts[k[1]] # "gone" /\ Cardinality(Rows(k)') = Cardinality(Rows(k)) + 0
    BY <1>2 DEF Counts
  <2>1. k[1] \in Posts /\ Cardinality(Rows(k)) \in Nat
    BY KeyParts, RowsFinite
  <2>2. Rows(k)' = Rows(k)
    BY <1>1 DEF Rows
  <2>. QED  BY <1>3, <2>1, <2>2
<1>. QED  BY <1>2, <1>4, <1>5

LEMMA JobKeepsCount ==
  ASSUME BaseIInv, CountIInv, NEW c \in Calls, WriterJob(c)
  PROVE  CountIInv'
<1>1. PICK b : JobRuns(c, b) /\ Counts(c, b) /\ RowsKept(c, b)
  <2>1. \E b : JobRuns(c, b) /\ Counts(c, b) /\ RowsKept(c, b)
    BY LikeCounts, UnlikeCounts, CommentCounts, DeleteCommentCounts, DeletePostCounts
       DEF WriterJob, CountIInv
  <2>. QED  BY <2>1
<1>2. /\ Receive(Job(c)) /\ b \in {"done", "owed", "lost"}
      /\ stage' = [stage EXCEPT ![c] = b]
      /\ UNCHANGED <<op, deltas, count, clamped>>
  BY <1>1 DEF JobRuns, actor
<1>3. stage[c] \in Waiting
  BY <1>2, JobFirst
<1>4. stage'[c] = b /\ \A d \in Calls : d # c => stage'[d] = stage[d]
  BY <1>2 DEF BaseIInv, TypeOK
<1>5. \A d \in Calls : stage[d] \in Ran => stage'[d] \in Ran
  BY <1>3, <1>4 DEF Waiting, Ran
<1>6. b # "done" => stage'[c] \in Ran
  BY <1>2, <1>4 DEF Ran
<1>7. comments \in [Posts -> SUBSET Calls]
  BY DEF BaseIInv, TypeOK
<1>8. RowsOK'
  <2>1. \A p \in Posts : IsFiniteSet(likes'[p])
    BY <1>1 DEF RowsKept
  <2>2. ASSUME NEW p \in Posts, NEW d \in comments'[p]
        PROVE  stage'[d] \in Ran /\ op'[d].kind = "comment_create" /\ op'[d].post = p
    <3>1. CASE d \in comments[p]
      BY <1>2, <1>5, <1>7, <3>1 DEF CountIInv, RowsOK
    <3>2. CASE d = c /\ b # "done" /\ op[c].kind = "comment_create" /\ op[c].post = p
      BY <1>2, <1>6, <3>2
    <3>. QED  BY <1>1, <2>2, <3>1, <3>2 DEF RowsKept
  <2>3. ASSUME NEW d \in hidden'
        PROVE  stage'[d] \in Ran
    <3>1. CASE d \in hidden
      <4>1. d \in Calls
        BY <3>1 DEF BaseIInv, TypeOK
      <4>. QED  BY <1>5, <3>1, <4>1 DEF CountIInv, RowsOK
    <3>2. CASE \E p \in Posts : d \in comments[p]
      BY <1>5, <1>7, <3>2 DEF CountIInv, RowsOK
    <3>. QED  BY <1>1, <2>3, <3>1, <3>2 DEF RowsKept
  <2>. QED  BY <2>1, <2>2, <2>3 DEF RowsOK
<1>9. SumsOK'
  <2>1. At({"buffered"}, stage') = At({"buffered"}, stage)
    BY <1>2, <1>3, <1>4 DEF At, Waiting
  <2>. QED  BY <1>2, <2>1 DEF CountIInv, SumsOK
<1>. DEFINE Os == At(Open, stage)
<1>10. Os \in SUBSET Calls /\ c \in Calls \ Os
  BY <1>3 DEF At, Open, Waiting
<1>11. At(Open, stage') = IF b = "done" THEN Os ELSE Os \cup {c}
  BY <1>2, <1>3, <1>4 DEF At, Open, Waiting
<1>12. Explained'
  <2>. SUFFICES ASSUME NEW k \in Keys, posts'[k[1]] # "gone"
                PROVE  count'[k] = Cardinality(Rows(k)') + clamped'[k]
                                   - Net(k, At(Open, stage'), op')
    BY DEF Explained
  <2>1. /\ posts[k[1]] # "gone"
        /\ Cardinality(Rows(k)') =
             Cardinality(Rows(k)) + (IF b # "done" /\ Key(c) = k THEN Amount(c) ELSE 0)
    BY <1>1 DEF Counts
  <2>2. count[k] = Cardinality(Rows(k)) + clamped[k] - Net(k, Os, op)
    BY <2>1 DEF CountIInv, Explained
  <2>3. Key(c) = KeyOf(op[c]) /\ Amount(c) = SignOf(op[c]) /\ Amount(c) \in {1, -1}
    BY <1>3, KeysOfCalls DEF Waiting
  <2>4. Cardinality(Rows(k)) \in Nat /\ count[k] \in Nat /\ clamped[k] \in Nat
    BY RowsFinite DEF CountIInv, BaseIInv, TypeOK
  <2>5. /\ Net(k, Os, op) \in Int
        /\ Net(k, Os \cup {c}, op) = Net(k, Os, op) + (IF KeyOf(op[c]) = k THEN SignOf(op[c]) ELSE 0)
    BY <1>10, NetIsInt, NetWithOneMore
  <2>6. Net(k, At(Open, stage'), op') =
          Net(k, Os, op) + (IF b # "done" /\ Key(c) = k THEN Amount(c) ELSE 0)
    <3>1. CASE b = "done"
      BY <1>2, <1>11, <2>5, <3>1
    <3>2. CASE b # "done"
      BY <1>2, <1>11, <2>3, <2>5, <3>2
    <3>. QED  BY <3>1, <3>2
  <2>. QED  BY <1>2, <2>1, <2>2, <2>3, <2>4, <2>5, <2>6
<1>. QED  BY <1>8, <1>9, <1>12 DEF CountIInv

LEMMA InitCount ==
  ASSUME Init
  PROVE  CountIInv
<1>1. /\ likes = [p \in Posts |-> {}] /\ comments = [p \in Posts |-> {}] /\ hidden = {}
      /\ deltas = Empty /\ stage = [c \in Calls |-> "idle"]
      /\ count = [k \in Keys |-> 0] /\ clamped = [k \in Keys |-> 0]
  BY DEF Init
<1>2. At({"buffered"}, stage) = {} /\ At(Open, stage) = {}
  BY <1>1 DEF At, Open
<1>3. RowsOK
  BY <1>1, FS_EmptySet DEF RowsOK
<1>4. SumsOK
  <2>1. \A k \in Keys : Held(deltas, k) = 0
    BY <1>1 DEF Held, Empty
  <2>. QED  BY <1>2, <2>1, NetOfNone DEF SumsOK
<1>5. Explained
  <2>1. \A k \in Keys : Rows(k) = {}
    BY <1>1, KeyParts DEF Rows
  <2>. QED  BY <1>1, <1>2, <2>1, NetOfNone, FS_EmptySet DEF Explained
<1>. QED  BY <1>3, <1>4, <1>5 DEF CountIInv

LEMMA CountStep ==
  ASSUME BaseIInv, CountIInv, [Next]_vars
  PROVE  CountIInv'
<1>1. CASE \E c \in Calls : Begin(c) \/ PostDelta(c) \/ HangUp(c)
  BY <1>1, QuietStepsKeepCount
<1>2. CASE Writer
  BY <1>2, FlushAllKeepsCount, JobKeepsCount, AddDeltaKeepsCount DEF Writer
<1>3. CASE Tick
  BY <1>3, FlushAllKeepsCount
<1>4. CASE Interrupt \/ Restart \/ UNCHANGED vars
  <2>1. UNCHANGED <<op, stage, rows, deltas, count, clamped>>
    BY <1>4 DEF Interrupt, Restart, vars, actor
  <2>. QED  BY <2>1, QuietKeepsCount
<1>5. CASE Exit \/ Crash
  BY <1>5, StopKeepsCount DEF Exit, Crash
<1>. QED  BY <1>1, <1>2, <1>3, <1>4, <1>5 DEF Next

(* The actor's sums are the deltas of the calls it holds, and the counters *)
(* follow (CountIInv), through every job, flush, hang-up and restart.      *)
THEOREM CountInvariance == Spec => [](BaseIInv /\ CountIInv)
<1>1. Init => BaseIInv /\ CountIInv
  BY InitBase, InitCount
<1>2. BaseIInv /\ CountIInv /\ [Next]_vars => (BaseIInv /\ CountIInv)'
  BY BaseStep, CountStep
<1>. QED  BY <1>1, <1>2, PTL DEF Spec

(* Every counter of a post that exists is its rows, corrected by what is   *)
(* on its way, what was lost and what clamping added: no order of jobs,    *)
(* deltas, flushes, hang-ups and restarts counts a row twice or drops one  *)
(* silently.                                                               *)
THEOREM CountersExplained == Spec => []CountExplained
<1>1. BaseIInv /\ CountIInv => CountExplained
  <2>1. \A k \in Keys : Total(k, Open) = Net(k, At(Open, stage), op)
    BY TotalIsNet
  <2>. QED  BY <2>1 DEF CountIInv, Explained, CountExplained, Open
<1>. QED  BY <1>1, CountInvariance, PTL

-----------------------------------------------------------------------------
(* Clamping. A column's value never falls below zero on its way: neither   *)
(* what is buffered nor any front of the mailbox, added to it, does so,    *)
(* unless a removal overtook an insertion or an insertion's delta is lost. *)

LostInsertion(k, s, o) ==
  \E c \in Calls : s[c] = "lost" /\ KeyOf(o[c]) = k /\ SignOf(o[c]) = 1
Excused(k, ot, s, o) == k \in ot \/ LostInsertion(k, s, o)

(* The calls whose deltas are buffered or among the first n messages.      *)
Coming(mb, n, s) == At({"buffered"}, s) \cup Ahead(mb, n)
Above(k, value, mb, s, o) ==
  \A n \in 0..Len(mb) : value + Net(k, Coming(mb, n, s), o) >= 0

ClampNeeds == \A k \in Keys : clamped[k] > 0 => Excused(k, overtaken, stage, op)

NeverBelow ==
  \A k \in Keys : \/ posts[k[1]] = "gone"
                  \/ Excused(k, overtaken, stage, op)
                  \/ Above(k, count[k], mailbox, stage, op)

ClampIInv == ClampNeeds /\ NeverBelow

LEMMA ComingIsCalls ==
  ASSUME NEW mb, NEW n, NEW s
  PROVE  Coming(mb, n, s) \in SUBSET Calls
  BY AtIsCalls, AheadIsCalls DEF Coming

(* Lost deltas stay lost, overtakings stay noted, posts that are gone stay *)
(* gone.                                                                   *)
LEMMA Monotone ==
  ASSUME BaseIInv, [Next]_vars
  PROVE  /\ \A c \in Calls : stage[c] = "lost" => stage'[c] = "lost" /\ op'[c] = op[c]
         /\ overtaken \subseteq overtaken'
         /\ \A p \in Posts : posts[p] = "gone" => posts'[p] = "gone"
<1>1. /\ stage \in [Calls -> Stages] /\ op \in [Calls -> Ops \cup {NoOp}]
      /\ posts \in [Posts -> {"live", "deleted", "gone"}]
  BY DEF BaseIInv, TypeOK
<1>2. ASSUME NEW c \in Calls, Begin(c)
      PROVE  /\ \A b \in Calls : stage[b] = "lost" => stage'[b] = "lost" /\ op'[b] = op[b]
             /\ UNCHANGED <<overtaken, posts>>
  <2>1. stage[c] = "idle" /\ stage' = [stage EXCEPT ![c] = "queued"]
    BY <1>2 DEF Begin
  <2>2. \A b \in Calls : b # c => op'[b] = op[b]
    BY <1>1, <1>2 DEF Begin
  <2>. QED  BY <1>1, <1>2, <2>1, <2>2 DEF Begin, rows
<1>3. ASSUME NEW c \in Calls, PostDelta(c) \/ HangUp(c)
      PROVE  /\ \A b \in Calls : stage[b] = "lost" => stage'[b] = "lost"
             /\ overtaken \subseteq overtaken' /\ UNCHANGED <<op, posts>>
  <2>1. \/ stage[c] = "owed" /\ stage' = [stage EXCEPT ![c] = "posted"]
        \/ stage[c] = "queued" /\ stage' = [stage EXCEPT ![c] = "orphaned"]
        \/ stage[c] = "owed" /\ stage' = [stage EXCEPT ![c] = "lost"]
    BY <1>3 DEF PostDelta, HangUp
  <2>2. overtaken \subseteq overtaken' /\ UNCHANGED <<op, posts>>
    BY <1>3 DEF PostDelta, HangUp, rows
  <2>. QED  BY <1>1, <2>1, <2>2
<1>4. ASSUME NEW c \in Calls, WriterJob(c)
      PROVE  /\ \A b \in Calls : stage[b] = "lost" => stage'[b] = "lost"
             /\ UNCHANGED <<op, overtaken>>
             /\ \A p \in Posts : posts[p] = "gone" => posts'[p] = "gone"
  <2>1. PICK b : JobRuns(c, b)
    BY <1>4, JobsRun
  <2>2. stage[c] \in Waiting
    BY <2>1, JobFirst DEF JobRuns
  <2>3. \A d \in Calls : stage[d] = "lost" => stage'[d] = "lost"
    BY <1>1, <2>1, <2>2 DEF JobRuns, Waiting
  <2>4. \/ posts' = posts
        \/ posts[op[c].post] = "live" /\ posts' = [posts EXCEPT ![op[c].post] = "deleted"]
        \/ posts' = [posts EXCEPT ![op[c].post] = "gone"]
    BY <1>4 DEF WriterJob, LikeJob, UnlikeJob, CommentJob, DeleteCommentJob, DeletePostJob
  <2>. QED  BY <1>1, <2>1, <2>3, <2>4 DEF JobRuns
<1>5. ASSUME NEW c \in Calls, AddDelta(c)
      PROVE  /\ \A b \in Calls : stage[b] = "lost" => stage'[b] = "lost"
             /\ UNCHANGED <<op, overtaken, posts>>
  <2>1. UNCHANGED <<op, overtaken, posts>>
    BY <1>5 DEF AddDelta, rows
  <2>. QED  BY <1>5, <2>1, AddDeltaStages
<1>6. ASSUME FlushRequest \/ Tick
      PROVE  /\ \A b \in Calls : stage[b] = "lost" => stage'[b] = "lost"
             /\ UNCHANGED <<op, overtaken, posts>>
  <2>1. DoFlush(deltas, stage) /\ UNCHANGED <<op, overtaken, posts>>
    BY <1>6 DEF FlushRequest, Tick, rows
  <2>. QED  BY <2>1, FlushAllStages
<1>7. ASSUME Exit \/ Crash
      PROVE  /\ \A b \in Calls : stage[b] = "lost" => stage'[b] = "lost"
             /\ UNCHANGED <<op, overtaken, posts>>
  <2>1. Stop
    BY <1>7 DEF Exit, Crash
  <2>. QED  BY <2>1, StopStages DEF Waiting, rows
<1>8. ASSUME Interrupt \/ Restart \/ UNCHANGED vars
      PROVE  UNCHANGED <<op, stage, overtaken, posts>>
  BY <1>8 DEF Interrupt, Restart, vars, rows
<1>. QED  BY <1>2, <1>3, <1>4, <1>5, <1>6, <1>7, <1>8 DEF Next, Writer

LEMMA ExcusedStays ==
  ASSUME BaseIInv, [Next]_vars, NEW k, Excused(k, overtaken, stage, op)
  PROVE  Excused(k, overtaken', stage', op')
  BY Monotone DEF Excused, LostInsertion

(* Steps that write no counter clamp nothing.                              *)
LEMMA UnwrittenKeepsClamp ==
  ASSUME BaseIInv, ClampNeeds, [Next]_vars, UNCHANGED clamped
  PROVE  ClampNeeds'
  BY ExcusedStays DEF ClampNeeds

(* A value that may be added to what came before may be added to what does *)
(* now, if that is the same.                                               *)
LEMMA AboveCarried ==
  ASSUME BaseIInv, NEW k \in Keys, Above(k, count[k], mailbox, stage, op),
         count'[k] = count[k],
         \A c \in Calls : stage[c] # "idle" => op'[c] = op[c],
         \A n \in 0..Len(mailbox') : \E m \in 0..Len(mailbox) :
           Coming(mailbox', n, stage') = Coming(mailbox, m, stage)
  PROVE  Above(k, count'[k], mailbox', stage', op')
<1>. SUFFICES ASSUME NEW n \in 0..Len(mailbox')
              PROVE  count'[k] + Net(k, Coming(mailbox', n, stage'), op') >= 0
  BY DEF Above
<1>1. PICK m \in 0..Len(mailbox) : Coming(mailbox', n, stage') = Coming(mailbox, m, stage)
  OBVIOUS
<1>2. count[k] + Net(k, Coming(mailbox, m, stage), op) >= 0
  BY DEF Above
<1>3. Ahead(mailbox, m) \subseteq At({"posted"}, stage)
  BY AheadArePosted, Mailbox DEF BaseIInv
<1>4. \A c \in Coming(mailbox, m, stage) : op'[c] = op[c]
  BY <1>3 DEF Coming, At
<1>5. Net(k, Coming(mailbox, m, stage), op') = Net(k, Coming(mailbox, m, stage), op)
  BY <1>4, NetAgrees
<1>. QED  BY <1>1, <1>2, <1>5

LEMMA CarriedKeepsClamp ==
  ASSUME BaseIInv, ClampIInv, [Next]_vars, UNCHANGED <<count, clamped>>,
         \A c \in Calls : stage[c] # "idle" => op'[c] = op[c],
         \A n \in 0..Len(mailbox') : \E m \in 0..Len(mailbox) :
           Coming(mailbox', n, stage') = Coming(mailbox, m, stage)
  PROVE  ClampIInv'
<1>1. ClampNeeds'
  BY UnwrittenKeepsClamp DEF ClampIInv
<1>2. ASSUME NEW k \in Keys
      PROVE  \/ posts'[k[1]] = "gone"
             \/ Excused(k, overtaken', stage', op')
             \/ Above(k, count'[k], mailbox', stage', op')
  <2>1. CASE posts[k[1]] = "gone"
    BY <2>1, KeyParts, Monotone
  <2>2. CASE Excused(k, overtaken, stage, op)
    BY <2>2, ExcusedStays
  <2>3. CASE Above(k, count[k], mailbox, stage, op)
    BY <2>3, AboveCarried
  <2>. QED  BY <2>1, <2>2, <2>3 DEF ClampIInv, NeverBelow
<1>. QED  BY <1>1, <1>2 DEF ClampIInv, NeverBelow

(* A message other than a delta joins the end.                             *)
LEMMA ComingAppends ==
  ASSUME NEW mb \in Seq(Msgs), NEW m \in Msgs, \A c \in Calls : m # Delta(c),
         NEW s, NEW t, At({"buffered"}, t) = At({"buffered"}, s),
         NEW n \in 0..Len(Append(mb, m))
  PROVE  \E i \in 0..Len(mb) : Coming(Append(mb, m), n, t) = Coming(mb, i, s)
<1>. DEFINE b == Append(mb, m)
<1>1. /\ Len(mb) \in Nat /\ Len(b) = Len(mb) + 1
      /\ \A i \in 1..Len(mb) : b[i] = mb[i]
      /\ b[Len(mb) + 1] = m
  BY Appended
<1>2. n \in 0..Len(b)
  OBVIOUS
<1>. HIDE DEF b
<1>3. CASE n <= Len(mb)
  <2>1. n \in 0..Len(mb) /\ Ahead(b, n) = Ahead(mb, n)
    BY <1>1, <1>2, <1>3 DEF Ahead
  <2>. QED  BY <2>1 DEF Coming, b
<1>4. CASE n = Len(mb) + 1
  <2>1. \A j \in 1..n : j \in 1..Len(mb) \/ b[j] = m
    BY <1>1, <1>4
  <2>2. \A j \in 1..Len(mb) : j \in 1..n
    BY <1>1, <1>4
  <2>3. Ahead(b, n) = Ahead(mb, Len(mb))
    BY <1>1, <2>1, <2>2 DEF Ahead
  <2>4. Len(mb) \in 0..Len(mb)
    BY <1>1
  <2>. QED  BY <2>3, <2>4 DEF Coming, b
<1>. QED  BY <1>1, <1>2, <1>3, <1>4

LEMMA BeginKeepsClamp ==
  ASSUME BaseIInv, ClampIInv, NEW c \in Calls, Begin(c)
  PROVE  ClampIInv'
<1>1. /\ stage[c] = "idle" /\ stage' = [stage EXCEPT ![c] = "queued"]
      /\ mailbox' = Append(mailbox, Job(c)) /\ UNCHANGED <<count, clamped>>
      /\ \A b \in Calls : b # c => op'[b] = op[b]
  BY DEF Begin, actor, BaseIInv, TypeOK
<1>2. At({"buffered"}, stage') = At({"buffered"}, stage)
  BY <1>1 DEF At, BaseIInv, TypeOK
<1>3. mailbox \in Seq(Msgs) /\ Job(c) \in Msgs /\ \A b \in Calls : Job(c) # Delta(b)
  BY Mailbox, Messages DEF BaseIInv
<1>4. \A n \in 0..Len(mailbox') : \E m \in 0..Len(mailbox) :
        Coming(mailbox', n, stage') = Coming(mailbox, m, stage)
  BY <1>1, <1>2, <1>3, ComingAppends
<1>5. \A b \in Calls : stage[b] # "idle" => op'[b] = op[b]
  BY <1>1
<1>6. Next
  BY DEF Next
<1>. QED  BY <1>1, <1>4, <1>5, <1>6, CarriedKeepsClamp

LEMMA InterruptKeepsClamp ==
  ASSUME BaseIInv, ClampIInv, Interrupt
  PROVE  ClampIInv'
<1>1. mailbox' = Append(mailbox, Flush) /\ UNCHANGED <<op, stage, count, clamped>>
  BY DEF Interrupt, actor
<1>2. mailbox \in Seq(Msgs) /\ Flush \in Msgs /\ \A b \in Calls : Flush # Delta(b)
  BY Mailbox, Messages DEF BaseIInv
<1>3. \A n \in 0..Len(mailbox') : \E m \in 0..Len(mailbox) :
        Coming(mailbox', n, stage') = Coming(mailbox, m, stage)
  <2>1. At({"buffered"}, stage') = At({"buffered"}, stage)
    BY <1>1
  <2>2. ASSUME NEW n \in 0..Len(Append(mailbox, Flush))
        PROVE  \E m \in 0..Len(mailbox) :
                 Coming(Append(mailbox, Flush), n, stage') = Coming(mailbox, m, stage)
    BY <1>2, <2>1, ComingAppends
  <2>. QED  BY <1>1, <2>2
<1>4. Next
  BY DEF Next
<1>. QED  BY <1>1, <1>3, <1>4, CarriedKeepsClamp

(* The mailbox, what is buffered and the counters stay as they are.        *)
LEMMA RestKeepsClamp ==
  ASSUME BaseIInv, ClampIInv, [Next]_vars, UNCHANGED <<op, mailbox, count, clamped>>,
         \A c \in Calls : stage[c] = "buffered" <=> stage'[c] = "buffered"
  PROVE  ClampIInv'
<1>1. \A n : Coming(mailbox', n, stage') = Coming(mailbox, n, stage)
  BY DEF Coming, At
<1>. QED  BY <1>1, CarriedKeepsClamp

LEMMA HangUpKeepsClamp ==
  ASSUME BaseIInv, ClampIInv, NEW c \in Calls, HangUp(c)
  PROVE  ClampIInv'
<1>1. UNCHANGED <<op, mailbox, count, clamped>>
  BY DEF HangUp, actor
<1>2. \A b \in Calls : stage[b] = "buffered" <=> stage'[b] = "buffered"
  BY DEF HangUp, BaseIInv, TypeOK
<1>3. Next
  BY DEF Next
<1>. QED  BY <1>1, <1>2, <1>3, RestKeepsClamp

(* The actor takes a message that is no delta.                             *)
LEMMA ComingPops ==
  ASSUME NEW mb \in Seq(Msgs), mb # << >>, NEW s, Fits(mb, s), NEW t,
         At({"buffered"}, t) = At({"buffered"}, s), \A c \in Calls : Head(mb) # Delta(c),
         NEW n \in 0..Len(Tail(mb))
  PROVE  \E i \in 0..Len(mb) : Coming(Tail(mb), n, t) = Coming(mb, i, s)
<1>1. n + 1 \in 0..Len(mb) /\ Ahead(mb, n + 1) = Ahead(Tail(mb), n)
  BY AheadPops
<1>. QED  BY <1>1 DEF Coming

LEMMA JobKeepsClamp ==
  ASSUME BaseIInv, ClampIInv, NEW c \in Calls, WriterJob(c)
  PROVE  ClampIInv'
<1>1. PICK b : JobRuns(c, b)
  BY JobsRun
<1>2. /\ Receive(Job(c)) /\ b \in {"done", "owed", "lost"}
      /\ stage' = [stage EXCEPT ![c] = b] /\ UNCHANGED <<op, count, clamped>>
  BY <1>1 DEF JobRuns, actor
<1>3. Job(c) \in Msgs /\ \A d \in Calls : Job(c) # Delta(d)
  BY Messages
<1>4. /\ mailbox \in Seq(Msgs) /\ mailbox # << >> /\ Head(mailbox) = Job(c)
      /\ mailbox' = Tail(mailbox)
  BY <1>2, <1>3, Received
<1>5. At({"buffered"}, stage') = At({"buffered"}, stage)
  <2>1. stage[c] \in Waiting
    BY <1>2, JobFirst
  <2>. QED  BY <1>2, <2>1 DEF At, Waiting, BaseIInv, TypeOK
<1>6. \A n \in 0..Len(mailbox') : \E m \in 0..Len(mailbox) :
        Coming(mailbox', n, stage') = Coming(mailbox, m, stage)
  BY <1>3, <1>4, <1>5, ComingPops DEF BaseIInv
<1>7. Next
  BY DEF Next, Writer
<1>. QED  BY <1>2, <1>6, <1>7, CarriedKeepsClamp

(* A process that ends leaves the counters, none of them below zero.       *)
LEMMA StopKeepsClamp ==
  ASSUME BaseIInv, ClampIInv, [Next]_vars, Stop
  PROVE  ClampIInv'
<1>1. /\ mailbox' = << >> /\ UNCHANGED <<op, count, clamped>>
      /\ \A c \in Calls : stage'[c] # "buffered"
  BY StopStages DEF Waiting
<1>2. ClampNeeds'
  BY <1>1, UnwrittenKeepsClamp DEF ClampIInv
<1>3. ASSUME NEW k \in Keys
      PROVE  Above(k, count'[k], mailbox', stage', op')
  <2>1. \A n \in 0..Len(mailbox') : n = 0
    BY <1>1
  <2>2. Coming(mailbox', 0, stage') = {}
    BY <1>1, AheadOfNone DEF Coming, At
  <2>3. count'[k] \in Nat
    BY <1>1 DEF BaseIInv, TypeOK
  <2>4. Net(k, Coming(mailbox', 0, stage'), op') = 0
    BY <2>2, NetOfNone
  <2>5. ASSUME NEW n \in 0..Len(mailbox')
        PROVE  count'[k] + Net(k, Coming(mailbox', n, stage'), op') >= 0
    <3>1. n = 0
      BY <2>1
    <3>. QED  BY <2>3, <2>4, <3>1
  <2>. QED  BY <2>5 DEF Above
<1>. QED  BY <1>2, <1>3 DEF ClampIInv, NeverBelow

(* A delta joins the end: everything sent so far then comes to the rows    *)
(* less what is owed or lost, which without an insertion is nothing more.  *)
LEMMA AllComing ==
  ASSUME BaseIInv, CountIInv, ClampIInv, NEW c \in Calls, stage[c] = "owed",
         NEW k \in Keys, posts[k[1]] # "gone", ~Excused(k, overtaken, stage, op),
         \A d \in Calls : ~(stage[d] = "owed" /\ d # c /\ KeyOf(op[d]) = k /\ SignOf(op[d]) = 1)
  PROVE  count[k] + Net(k, Coming(mailbox, Len(mailbox), stage) \cup {c}, op) >= 0
<1>. DEFINE A == Coming(mailbox, Len(mailbox), stage) \cup {c}
            R == {d \in Calls : stage[d] \in {"owed", "lost"} /\ d # c}
<1>1. Ahead(mailbox, Len(mailbox)) = At({"posted"}, stage)
  BY AheadOfAll, Mailbox DEF BaseIInv
<1>2. A \in SUBSET Calls /\ R \in SUBSET Calls /\ A \cap R = {} /\ A \cup R = At(Open, stage)
  BY <1>1 DEF Coming, At, Open
<1>3. Net(k, R, op) <= 0
  <2>1. \A d \in R : ~(KeyOf(op[d]) = k /\ SignOf(op[d]) = 1)
    BY DEF Excused, LostInsertion
  <2>. QED  BY <1>2, <2>1, NetWithoutInsertions
<1>4. count[k] = Cardinality(Rows(k)) + clamped[k] - Net(k, At(Open, stage), op)
  BY DEF CountIInv, Explained
<1>5. Net(k, A \cup R, op) = Net(k, A, op) + Net(k, R, op)
  BY <1>2, NetOfUnion
<1>6. Net(k, At(Open, stage), op) = Net(k, A, op) + Net(k, R, op)
  BY <1>2, <1>5
<1>7. Net(k, A, op) \in Int /\ Net(k, R, op) \in Int
  BY <1>2, NetIsInt
<1>8. Cardinality(Rows(k)) \in Nat /\ count[k] \in Nat /\ clamped[k] \in Nat
  BY RowsFinite DEF CountIInv, BaseIInv, TypeOK
<1>. HIDE DEF A, R
<1>9. count[k] + Net(k, A, op) >= 0
  BY <1>3, <1>4, <1>6, <1>7, <1>8
<1>. QED  BY <1>9 DEF A

LEMMA PostDeltaKeepsClamp ==
  ASSUME BaseIInv, CountIInv, ClampIInv, NEW c \in Calls, PostDelta(c)
  PROVE  ClampIInv'
<1>1. /\ stage[c] = "owed" /\ stage' = [stage EXCEPT ![c] = "posted"]
      /\ mailbox' = Append(mailbox, Delta(c)) /\ UNCHANGED <<op, posts, count, clamped>>
  BY DEF PostDelta, rows, actor
<1>2. Next
  BY DEF Next
<1>3. ClampNeeds'
  BY <1>1, <1>2, UnwrittenKeepsClamp DEF ClampIInv
<1>4. At({"buffered"}, stage') = At({"buffered"}, stage)
  BY <1>1 DEF At, BaseIInv, TypeOK
<1>5. mailbox \in Seq(Msgs) /\ Delta(c) \in Msgs
  BY Mailbox, Messages DEF BaseIInv
<1>6. /\ Len(mailbox) \in Nat /\ Len(mailbox') = Len(mailbox) + 1
      /\ \A i \in 1..Len(mailbox) : mailbox'[i] = mailbox[i]
      /\ mailbox'[Len(mailbox) + 1] = Delta(c)
  BY <1>1, <1>5, Appended
<1>7. /\ Key(c) = KeyOf(op[c]) /\ Amount(c) = SignOf(op[c]) /\ SignOf(op[c]) \in {1, -1}
  BY <1>1, KeysOfCalls
<1>8. c \notin Coming(mailbox, Len(mailbox), stage)
  <2>1. Ahead(mailbox, Len(mailbox)) = At({"posted"}, stage)
    BY <1>5, AheadOfAll DEF BaseIInv
  <2>. QED  BY <1>1, <2>1 DEF Coming, At
<1>9. ASSUME NEW k \in Keys, posts[k[1]] # "gone", ~Excused(k, overtaken', stage', op')
      PROVE  Above(k, count'[k], mailbox', stage', op')
  <2>1. ~Excused(k, overtaken, stage, op)
    BY <1>2, <1>9, ExcusedStays
  <2>2. Above(k, count[k], mailbox, stage, op)
    BY <1>9, <2>1 DEF ClampIInv, NeverBelow
  <2>. SUFFICES ASSUME NEW n \in 0..Len(mailbox')
                PROVE  count[k] + Net(k, Coming(mailbox', n, stage'), op) >= 0
    BY <1>1 DEF Above
  <2>3. CASE n <= Len(mailbox)
    <3>1. n \in 0..Len(mailbox) /\ Ahead(mailbox', n) = Ahead(mailbox, n)
      BY <1>6, <2>3 DEF Ahead
    <3>2. Coming(mailbox', n, stage') = Coming(mailbox, n, stage)
      BY <1>4, <3>1 DEF Coming
    <3>. QED  BY <2>2, <3>1, <3>2 DEF Above
  <2>4. CASE n = Len(mailbox) + 1
    <3>. DEFINE A == Coming(mailbox, Len(mailbox), stage)
    <3>1. A \in SUBSET Calls /\ Net(k, A, op) \in Int
      BY ComingIsCalls, NetIsInt
    <3>2. Ahead(mailbox', n) = Ahead(mailbox, Len(mailbox)) \cup {c}
      <4>1. \A j : j \in 1..n <=> j \in 1..Len(mailbox) \/ j = Len(mailbox) + 1
        BY <1>6, <2>4
      <4>2. \A d \in Calls : Delta(c) = Delta(d) <=> d = c
        BY Messages
      <4>. QED  BY <1>6, <4>1, <4>2 DEF Ahead
    <3>3. Coming(mailbox', n, stage') = A \cup {c}
      BY <1>4, <3>2 DEF Coming
    <3>4. Net(k, A \cup {c}, op) = Net(k, A, op) + (IF KeyOf(op[c]) = k THEN SignOf(op[c]) ELSE 0)
      BY <1>8, <3>1, NetWithOneMore
    <3>5. Len(mailbox) \in 0..Len(mailbox)
      BY <1>6
    <3>6. count[k] + Net(k, A, op) >= 0
      BY <2>2, <3>5 DEF Above
    <3>7. count[k] \in Nat
      BY DEF BaseIInv, TypeOK
    <3>8. CASE KeyOf(op[c]) # k \/ SignOf(op[c]) = 1
      <4>. HIDE DEF A
      <4>. QED  BY <3>1, <3>3, <3>4, <3>6, <3>7, <3>8
    <3>9. CASE KeyOf(op[c]) = k /\ SignOf(op[c]) = -1
      <4>1. \A d \in Calls : ~(stage[d] = "owed" /\ KeyOf(op[d]) = k /\ SignOf(op[d]) = 1)
        <5>. SUFFICES ASSUME NEW d \in Calls, stage[d] = "owed", KeyOf(op[d]) = k, SignOf(op[d]) = 1
                      PROVE  FALSE
          OBVIOUS
        <5>1. d \in In({"owed"}) /\ Key(d) = Key(c) /\ Amount(d) = 1 /\ Amount(c) = -1 /\ Key(c) = k
          BY <1>7, <3>9, KeysOfCalls DEF In
        <5>2. k \in overtaken'
          BY <5>1 DEF PostDelta
        <5>. QED  BY <1>9, <5>2 DEF Excused
      <4>2. count[k] + Net(k, A \cup {c}, op) >= 0
        BY <1>1, <1>9, <2>1, <4>1, AllComing
      <4>. QED  BY <3>3, <4>2
    <3>. QED  BY <1>7, <3>8, <3>9
  <2>. QED  BY <1>6, <2>3, <2>4
<1>. QED  BY <1>1, <1>3, <1>9 DEF ClampIInv, NeverBelow

(* A flush of d, with the calls at s and the mailbox as it is left, when   *)
(* no front of what is coming takes an unexcused column below zero.        *)
LEMMA FlushKeepsClamp ==
  ASSUME BaseIInv, BaseIInv', ClampIInv, [Next]_vars, NEW d, Sums(d),
         NEW s \in [Calls -> Stages],
         \A k \in Keys : Held(d, k) = Net(k, At({"buffered"}, s), op),
         \A k \in Keys : \/ posts[k[1]] = "gone"
                         \/ Excused(k, overtaken, stage, op)
                         \/ Above(k, count[k], mailbox', s, op),
         DoFlush(d, s), UNCHANGED <<op, posts, overtaken>>
  PROVE  ClampIInv'
<1>. DEFINE Bs == At({"buffered"}, s)
<1>1. PICK to \in {"settled", "lost"} : stage' = Drain(s, to)
  BY Flushes
<1>2. \A c \in Calls : stage'[c] = IF s[c] = "buffered" THEN to ELSE s[c]
  BY <1>1 DEF Drain
<1>3. mailbox' \in Seq(Msgs) /\ Fits(mailbox', stage')
  BY DEF BaseIInv, TypeOK, Msgs
<1>4. Len(mailbox') \in Nat /\ 0 \in 0..Len(mailbox')
  BY <1>3
<1>5. Bs \in SUBSET Calls
  BY AtIsCalls
<1>6. ASSUME NEW n \in 0..Len(mailbox'), NEW k
      PROVE  /\ Coming(mailbox', n, stage') = Ahead(mailbox', n)
             /\ Net(k, Coming(mailbox', n, s), op) = Net(k, Bs, op) + Net(k, Ahead(mailbox', n), op)
             /\ Net(k, Bs, op) \in Int /\ Net(k, Ahead(mailbox', n), op) \in Int
  <2>1. Ahead(mailbox', n) \subseteq At({"posted"}, stage')
    BY <1>3, AheadArePosted
  <2>2. Bs \cap Ahead(mailbox', n) = {}
    BY <1>2, <2>1 DEF At
  <2>3. At({"buffered"}, stage') = {}
    BY <1>2 DEF At
  <2>4. Ahead(mailbox', n) \in SUBSET Calls
    BY AheadIsCalls
  <2>5. Net(k, Bs \cup Ahead(mailbox', n), op) = Net(k, Bs, op) + Net(k, Ahead(mailbox', n), op)
    BY <1>5, <2>2, <2>4, NetOfUnion
  <2>6. Net(k, Bs, op) \in Int /\ Net(k, Ahead(mailbox', n), op) \in Int
    BY <1>5, <2>4, NetIsInt
  <2>. QED  BY <2>3, <2>5, <2>6 DEF Coming
<1>. HIDE DEF Bs
<1>7. ASSUME NEW k \in Keys, posts[k[1]] # "gone", ~Excused(k, overtaken', stage', op')
      PROVE  clamped'[k] = clamped[k] /\ Above(k, count'[k], mailbox', stage', op')
  <2>1. ~Excused(k, overtaken, stage, op)
    BY <1>7, ExcusedStays
  <2>2. Above(k, count[k], mailbox', s, op)
    BY <1>7, <2>1
  <2>3. count[k] \in Nat /\ clamped[k] \in Nat
    BY DEF BaseIInv, TypeOK
  <2>4. \A n \in 0..Len(mailbox') :
          count[k] + (Net(k, Bs, op) + Net(k, Ahead(mailbox', n), op)) >= 0
    BY <1>6, <2>2 DEF Above
  <2>5. count[k] + Net(k, Bs, op) >= 0 /\ Net(k, Bs, op) \in Int
    <3>1. Net(k, Ahead(mailbox', 0), op) = 0
      BY AheadOfNone, NetOfNone
    <3>. QED  BY <1>4, <1>6, <2>3, <2>4, <3>1
  <2>6. CASE FlushCommits(d, s)
    <3>1. /\ count' = [j \in Keys |-> IF j \in Flushed(d) THEN Max0(Target(d, j)) ELSE count[j]]
          /\ clamped' = [j \in Keys |-> IF j \in Flushed(d)
                                        THEN clamped[j] + Max0(-Target(d, j)) ELSE clamped[j]]
      BY <2>6 DEF FlushCommits
    <3>2. count'[k] = count[k] + Net(k, Bs, op) /\ clamped'[k] = clamped[k]
      <4>1. CASE k \in DOMAIN d
        <5>1. k \in Flushed(d) /\ Net(k, Bs, op) = d[k]
          BY <1>7, <4>1 DEF Flushed, Held, Bs
        <5>2. PICK t : t = Target(d, k)
          OBVIOUS
        <5>3. t = count[k] + Net(k, Bs, op) /\ t \in Nat
          BY <2>3, <2>5, <5>1, <5>2 DEF Target
        <5>4. Max0(t) = t /\ Max0(-t) = 0
          BY <5>3 DEF Max0
        <5>5. count'[k] = Max0(t) /\ clamped'[k] = clamped[k] + Max0(-t)
          BY <3>1, <5>1, <5>2
        <5>. QED  BY <2>3, <5>3, <5>4, <5>5
      <4>2. CASE k \notin DOMAIN d
        <5>1. k \notin Flushed(d) /\ Net(k, Bs, op) = 0
          BY <4>2 DEF Flushed, Held, Bs
        <5>. QED  BY <2>3, <3>1, <5>1
      <4>. QED  BY <4>1, <4>2
    <3>3. ASSUME NEW n \in 0..Len(mailbox')
          PROVE  count'[k] + Net(k, Coming(mailbox', n, stage'), op') >= 0
      <4>1. count[k] + (Net(k, Bs, op) + Net(k, Ahead(mailbox', n), op)) >= 0
        BY <2>4
      <4>2. /\ Coming(mailbox', n, stage') = Ahead(mailbox', n) /\ op' = op
            /\ Net(k, Ahead(mailbox', n), op) \in Int
        BY <1>6
      <4>. QED  BY <2>3, <2>5, <3>2, <4>1, <4>2
    <3>. QED  BY <3>2, <3>3 DEF Above
  <2>7. CASE FlushFails(d, s)
    <3>1. stage' = Drain(s, "lost") /\ UNCHANGED <<count, clamped>>
      BY <2>7 DEF FlushFails
    <3>2. \A c \in Bs : stage'[c] = "lost" /\ c \in Calls
      BY <3>1 DEF At, Drain, Bs
    <3>3. \A c \in Bs : ~(KeyOf(op[c]) = k /\ SignOf(op[c]) = 1)
      BY <1>7, <3>2 DEF Excused, LostInsertion
    <3>4. Net(k, Bs, op) <= 0
      BY <1>5, <3>3, NetWithoutInsertions
    <3>5. ASSUME NEW n \in 0..Len(mailbox')
          PROVE  count'[k] + Net(k, Coming(mailbox', n, stage'), op') >= 0
      <4>1. count[k] + (Net(k, Bs, op) + Net(k, Ahead(mailbox', n), op)) >= 0
        BY <2>4
      <4>2. /\ Coming(mailbox', n, stage') = Ahead(mailbox', n) /\ op' = op
            /\ Net(k, Ahead(mailbox', n), op) \in Int
        BY <1>6
      <4>. QED  BY <2>3, <2>5, <3>1, <3>4, <4>1, <4>2
    <3>. QED  BY <3>1, <3>5 DEF Above
  <2>. QED  BY <2>6, <2>7 DEF DoFlush
<1>8. ASSUME NEW k \in Keys, posts[k[1]] = "gone"
      PROVE  clamped'[k] = clamped[k]
  <2>1. k \notin Flushed(d)
    BY <1>8 DEF Flushed
  <2>. QED  BY <2>1 DEF DoFlush, FlushCommits, FlushFails, BaseIInv, TypeOK
<1>9. ClampNeeds'
  <2>. SUFFICES ASSUME NEW k \in Keys, clamped'[k] > 0, ~Excused(k, overtaken', stage', op')
                PROVE  FALSE
    BY DEF ClampNeeds
  <2>1. clamped'[k] = clamped[k]
    BY <1>7, <1>8
  <2>2. Excused(k, overtaken, stage, op)
    BY <2>1 DEF ClampIInv, ClampNeeds
  <2>. QED  BY <2>2, ExcusedStays
<1>10. NeverBelow'
  BY <1>7 DEF NeverBelow
<1>. QED  BY <1>9, <1>10 DEF ClampIInv

LEMMA TickKeepsClamp ==
  ASSUME BaseIInv, BaseIInv', CountIInv, ClampIInv, Tick
  PROVE  ClampIInv'
<1>1. DoFlush(deltas, stage) /\ UNCHANGED <<op, posts, overtaken, mailbox>>
  BY DEF Tick, rows
<1>2. Sums(deltas) /\ stage \in [Calls -> Stages]
  BY DEF BaseIInv, TypeOK, Sums
<1>3. \A k \in Keys : Held(deltas, k) = Net(k, At({"buffered"}, stage), op)
  BY DEF CountIInv, SumsOK
<1>4. Next
  BY DEF Next
<1>5. \A k \in Keys : \/ posts[k[1]] = "gone"
                      \/ Excused(k, overtaken, stage, op)
                      \/ Above(k, count[k], mailbox', stage, op)
  BY <1>1 DEF ClampIInv, NeverBelow
<1>. QED  BY <1>1, <1>2, <1>3, <1>4, <1>5, FlushKeepsClamp

LEMMA FlushRequestKeepsClamp ==
  ASSUME BaseIInv, BaseIInv', CountIInv, ClampIInv, FlushRequest
  PROVE  ClampIInv'
<1>1. /\ Receive(Flush) /\ DoFlush(deltas, stage)
      /\ UNCHANGED <<op, posts, overtaken>>
  BY DEF FlushRequest, rows
<1>2. Sums(deltas) /\ stage \in [Calls -> Stages]
  BY DEF BaseIInv, TypeOK, Sums
<1>3. \A k \in Keys : Held(deltas, k) = Net(k, At({"buffered"}, stage), op)
  BY DEF CountIInv, SumsOK
<1>4. Next
  BY DEF Next, Writer
<1>5. /\ mailbox \in Seq(Msgs) /\ mailbox # << >> /\ mailbox' = Tail(mailbox)
      /\ \A c \in Calls : Head(mailbox) # Delta(c)
  BY <1>1, Messages, Received
<1>6. ASSUME NEW k \in Keys, Above(k, count[k], mailbox, stage, op)
      PROVE  Above(k, count[k], mailbox', stage, op)
  <2>. SUFFICES ASSUME NEW n \in 0..Len(mailbox')
                PROVE  count[k] + Net(k, Coming(mailbox', n, stage), op) >= 0
    BY DEF Above
  <2>1. n \in 0..Len(Tail(mailbox))
    BY <1>5
  <2>2. PICK i \in 0..Len(mailbox) : Coming(Tail(mailbox), n, stage) = Coming(mailbox, i, stage)
    BY <1>5, <2>1, ComingPops DEF BaseIInv
  <2>. QED  BY <1>5, <1>6, <2>2 DEF Above
<1>7. \A k \in Keys : \/ posts[k[1]] = "gone"
                      \/ Excused(k, overtaken, stage, op)
                      \/ Above(k, count[k], mailbox', stage, op)
  BY <1>6 DEF ClampIInv, NeverBelow
<1>. QED  BY <1>1, <1>2, <1>3, <1>4, <1>7, FlushKeepsClamp

LEMMA AddDeltaKeepsClamp ==
  ASSUME BaseIInv, BaseIInv', CountIInv, ClampIInv, NEW c \in Calls, AddDelta(c)
  PROVE  ClampIInv'
<1>1. PICK s : s = [stage EXCEPT ![c] = "buffered"]
  OBVIOUS
<1>2. Receive(Delta(c)) /\ stage[c] = "posted" /\ stage \in [Calls -> Stages]
  BY AddDeltaStages DEF BaseIInv, TypeOK
<1>3. /\ s \in [Calls -> Stages] /\ At({"buffered"}, s) = At({"buffered"}, stage) \cup {c}
  BY <1>1, <1>2 DEF Stages, At
<1>4. Delta(c) \in Msgs
  BY Messages
<1>5. /\ mailbox \in Seq(Msgs) /\ mailbox # << >> /\ Head(mailbox) = Delta(c)
      /\ mailbox' = Tail(mailbox)
  BY <1>2, <1>4, Received
<1>6. UNCHANGED <<op, posts, overtaken>>
  BY DEF AddDelta, rows
<1>7. Next
  BY DEF Next, Writer
<1>8. ASSUME NEW n \in 0..Len(mailbox')
      PROVE  n + 1 \in 0..Len(mailbox) /\ Coming(mailbox', n, s) = Coming(mailbox, n + 1, stage)
  <2>1. n \in 0..Len(Tail(mailbox))
    BY <1>5
  <2>2. n + 1 \in 0..Len(mailbox) /\ Ahead(mailbox, n + 1) = Ahead(Tail(mailbox), n) \cup {c}
    BY <1>5, <2>1, AheadPops DEF BaseIInv
  <2>. QED  BY <1>3, <1>5, <2>2 DEF Coming
<1>9. CASE DoFlush(Accumulate(c), s)
  <2>1. Sums(Accumulate(c))
    BY <1>2, AccumulateSums
  <2>2. \A k \in Keys : Held(Accumulate(c), k) = Net(k, At({"buffered"}, s), op)
    BY <1>1, <1>2, AccumulateHolds DEF CountIInv
  <2>3. ASSUME NEW k \in Keys, Above(k, count[k], mailbox, stage, op)
        PROVE  Above(k, count[k], mailbox', s, op)
    BY <1>8, <2>3 DEF Above
  <2>4. \A k \in Keys : \/ posts[k[1]] = "gone"
                        \/ Excused(k, overtaken, stage, op)
                        \/ Above(k, count[k], mailbox', s, op)
    BY <2>3 DEF ClampIInv, NeverBelow
  <2>. QED  BY <1>3, <1>6, <1>7, <1>9, <2>1, <2>2, <2>4, FlushKeepsClamp
<1>10. CASE stage' = s /\ UNCHANGED <<count, clamped>>
  BY <1>6, <1>7, <1>8, <1>10, CarriedKeepsClamp
<1>. QED  BY <1>1, <1>9, <1>10 DEF AddDelta

LEMMA InitClamp ==
  ASSUME Init
  PROVE  ClampIInv
<1>1. /\ clamped = [k \in Keys |-> 0] /\ count = [k \in Keys |-> 0]
      /\ mailbox = << >> /\ stage = [c \in Calls |-> "idle"]
  BY DEF Init
<1>2. ClampNeeds
  BY <1>1 DEF ClampNeeds
<1>3. ASSUME NEW k \in Keys, NEW n \in 0..Len(mailbox)
      PROVE  count[k] + Net(k, Coming(mailbox, n, stage), op) >= 0
  <2>1. n = 0
    BY <1>1
  <2>2. Coming(mailbox, n, stage) = {}
    BY <1>1, <2>1, AheadOfNone DEF Coming, At
  <2>3. Net(k, Coming(mailbox, n, stage), op) = 0
    BY <2>2, NetOfNone
  <2>. QED  BY <1>1, <2>3
<1>. QED  BY <1>2, <1>3 DEF ClampIInv, NeverBelow, Above

LEMMA ClampStep ==
  ASSUME BaseIInv, CountIInv, ClampIInv, [Next]_vars
  PROVE  ClampIInv'
<1>1. BaseIInv'
  BY BaseStep
<1>2. CASE \E c \in Calls : Begin(c) \/ PostDelta(c) \/ HangUp(c)
  BY <1>2, BeginKeepsClamp, PostDeltaKeepsClamp, HangUpKeepsClamp
<1>3. CASE Writer
  BY <1>1, <1>3, FlushRequestKeepsClamp, JobKeepsClamp, AddDeltaKeepsClamp DEF Writer
<1>4. CASE Tick
  BY <1>1, <1>4, TickKeepsClamp
<1>5. CASE Interrupt
  BY <1>5, InterruptKeepsClamp
<1>6. CASE Exit \/ Crash
  BY <1>6, StopKeepsClamp DEF Exit, Crash
<1>7. CASE Restart \/ UNCHANGED vars
  <2>1. UNCHANGED <<op, stage, mailbox, count, clamped>>
    BY <1>7 DEF Restart, vars, actor
  <2>. QED  BY <2>1, RestKeepsClamp
<1>. QED  BY <1>2, <1>3, <1>4, <1>5, <1>6, <1>7 DEF Next

(* MAX(0, ..) changes a counter only when a removal's -1 was sent ahead of *)
(* an insertion's +1 still owed, or when an insertion's +1 was lost.       *)
THEOREM ClampsNeedOvertaking == Spec => []ClampNeedsOvertaking
<1>1. Init => BaseIInv /\ CountIInv /\ ClampIInv
  BY InitBase, InitCount, InitClamp
<1>2. BaseIInv /\ CountIInv /\ ClampIInv /\ [Next]_vars => (BaseIInv /\ CountIInv /\ ClampIInv)'
  BY BaseStep, CountStep, ClampStep
<1>3. BaseIInv /\ CountIInv /\ ClampIInv => ClampNeedsOvertaking
  <2>. SUFFICES ASSUME BaseIInv, ClampIInv, NEW k \in Keys, clamped[k] > 0, k \notin overtaken
                PROVE  \E c \in In({"lost"}) : Key(c) = k /\ Amount(c) = 1
    BY DEF ClampNeedsOvertaking
  <2>1. PICK c \in Calls : stage[c] = "lost" /\ KeyOf(op[c]) = k /\ SignOf(op[c]) = 1
    BY DEF ClampIInv, ClampNeeds, Excused, LostInsertion
  <2>2. c \in In({"lost"}) /\ Key(c) = k /\ Amount(c) = 1
    BY <2>1, KeysOfCalls DEF In
  <2>. QED  BY <2>2
<1>. QED  BY <1>1, <1>2, <1>3, PTL DEF Spec

-----------------------------------------------------------------------------
(* The ledger: every step is one of Ledger's steps, or changes nothing     *)
(* that it sees.                                                           *)

Owes == {"owed", "posted", "buffered"}
Shut == {"settled", "lost"}

(* Nothing refers to a post that is gone: its deletion was refused else.   *)
GoneEmpty ==
  \A p \in Posts : posts[p] = "gone" => likes[p] = {} /\ comments[p] = {}

LEMMA GoneSizes ==
  ASSUME GoneEmpty
  PROVE  \A k \in Keys : posts[k[1]] = "gone" => Cardinality(Rows(k)) = 0
<1>1. ASSUME NEW k \in Keys, posts[k[1]] = "gone"
      PROVE  Rows(k) = {}
  BY <1>1, KeyParts DEF GoneEmpty, Rows
<1>. QED  BY <1>1, FS_EmptySet

LEMMA GoneSizesNext ==
  ASSUME GoneEmpty'
  PROVE  \A k \in Keys : posts'[k[1]] = "gone" => Cardinality(Rows(k)') = 0
<1>1. ASSUME NEW k \in Keys, posts'[k[1]] = "gone"
      PROVE  Rows(k)' = {}
  BY <1>1, KeyParts DEF GoneEmpty, Rows
<1>. QED  BY <1>1, FS_EmptySet

(* A call on a post that is gone changes no row and owes nothing.          *)
LEMMA NothingOnGone ==
  ASSUME BaseIInv, GoneEmpty, NEW c \in Calls, WriterJob(c), posts[op[c].post] = "gone"
  PROVE  stage'[c] = "done"
<1>1. stage[c] \in Waiting
  <2>1. Receive(Job(c))
    BY DEF WriterJob, LikeJob, UnlikeJob, CommentJob, DeleteCommentJob, DeletePostJob
  <2>. QED  BY <2>1, JobFirst
<1>2. op[c].post \in Posts /\ stage \in [Calls -> Stages]
  BY <1>1 DEF BaseIInv, TypeOK, CallsTyped, Waiting, Ops
<1>3. likes[op[c].post] = {} /\ comments[op[c].post] = {}
  BY <1>2 DEF GoneEmpty
<1>4. Reply(c, FALSE) => stage'[c] = "done"
  BY <1>2 DEF Reply
<1>5. CASE LikeJob(c) \/ CommentJob(c)
  BY <1>4, <1>5 DEF LikeJob, CommentJob
<1>6. CASE UnlikeJob(c)
  <2>1. op[c].user \notin likes[op[c].post]
    BY <1>3
  <2>2. stage' = [stage EXCEPT ![c] = "done"]
    BY <1>6, <2>1 DEF UnlikeJob, Reply
  <2>. QED  BY <1>2, <2>2
<1>7. CASE DeleteCommentJob(c)
  <2>1. op[c].target \in comments[op[c].post]
    BY <1>1, <1>7 DEF DeleteCommentJob, BaseIInv, CallsTyped, Waiting
  <2>. QED  BY <1>3, <2>1
<1>8. CASE DeletePostJob(c)
  BY <1>4, <1>8 DEF DeletePostJob
<1>. QED  BY <1>5, <1>6, <1>7, <1>8 DEF WriterJob

LEMMA GoneStaysEmpty ==
  ASSUME BaseIInv, GoneEmpty, [Next]_vars
  PROVE  GoneEmpty'
<1>1. ASSUME UNCHANGED <<likes, comments, posts>>
      PROVE  GoneEmpty'
  BY <1>1 DEF GoneEmpty
<1>2. ASSUME NEW c \in Calls, WriterJob(c)
      PROVE  GoneEmpty'
  <2>. DEFINE p == op[c].post
  <2>1. /\ likes \in [Posts -> SUBSET Users] /\ comments \in [Posts -> SUBSET Calls]
        /\ posts \in [Posts -> {"live", "deleted", "gone"}]
    BY DEF BaseIInv, TypeOK
  <2>2. CASE LikeJob(c)
    <3>1. UNCHANGED <<comments, posts>> /\ \E S : likes' = [likes EXCEPT ![p] = S]
      BY <2>2 DEF LikeJob
    <3>2. posts[p] # "live" => likes' = [likes EXCEPT ![p] = likes[p]]
      BY <2>2 DEF LikeJob
    <3>. QED  BY <2>1, <3>1, <3>2 DEF GoneEmpty
  <2>3. CASE UnlikeJob(c)
    BY <2>1, <2>3 DEF UnlikeJob, GoneEmpty
  <2>4. CASE CommentJob(c)
    <3>1. UNCHANGED <<likes, posts>> /\ \E S : comments' = [comments EXCEPT ![p] = S]
      BY <2>4 DEF CommentJob
    <3>2. posts[p] # "live" => comments' = [comments EXCEPT ![p] = comments[p]]
      BY <2>4 DEF CommentJob
    <3>. QED  BY <2>1, <3>1, <3>2 DEF GoneEmpty
  <2>5. CASE DeleteCommentJob(c)
    BY <1>1, <2>5 DEF DeleteCommentJob
  <2>6. CASE DeletePostJob(c)
    <3>1. /\ UNCHANGED <<likes, comments>>
          /\ \/ UNCHANGED posts
             \/ posts' = [posts EXCEPT ![p] = "deleted"]
             \/ posts' = [posts EXCEPT ![p] = "gone"] /\ likes[p] = {} /\ comments[p] = {}
      BY <2>6 DEF DeletePostJob
    <3>. QED  BY <2>1, <3>1 DEF GoneEmpty
  <2>. QED  BY <1>2, <2>2, <2>3, <2>4, <2>5, <2>6 DEF WriterJob
<1>3. ASSUME ~\E c \in Calls : WriterJob(c)
      PROVE  UNCHANGED <<likes, comments, posts>>
  BY <1>3 DEF Next, Begin, PostDelta, HangUp, Writer, FlushRequest, AddDelta, Tick, Interrupt,
              Exit, Crash, Stop, Restart, vars, rows
<1>. QED  BY <1>1, <1>2, <1>3

(* The debts, and what they come to.                                       *)
LEMMA SameCardinality ==
  ASSUME NEW S
  PROVE  Abstract!Cardinality(S) = Cardinality(S)
  BY DEF Abstract!Cardinality, Cardinality

LEMMA NetIsDue ==
  ASSUME BaseIInv, NEW k, NEW S \in SUBSET At(Owes, stage)
  PROVE  Abstract!Due(k, S) = Net(k, S, op)
<1>1. \A c \in S : Owed[c] = <<KeyOf(op[c]), SignOf(op[c])>>
  <2>. SUFFICES ASSUME NEW c \in S
                PROVE  Owed[c] = <<KeyOf(op[c]), SignOf(op[c])>>
    OBVIOUS
  <2>1. c \in Calls /\ c \in Owing /\ stage[c] # "idle"
    BY DEF At, Owes, Owing, In
  <2>. QED  BY <2>1, KeysOfCalls DEF Owed
<1>2. {c \in S : Owed[c] = <<k, 1>>} = Ins(k, S, op)
  BY <1>1 DEF Ins
<1>3. {c \in S : Owed[c] = <<k, -1>>} = Rem(k, S, op)
  BY <1>1 DEF Rem
<1>. QED  BY <1>2, <1>3, SameCardinality DEF Abstract!Due, Net

LEMMA DebtsAreCalls ==
  DOMAIN Owed = At(Owes, stage) /\ Closed = At(Shut, stage)
  BY DEF Owed, Owing, Closed, In, At, Owes, Shut

(* Steps that leave debts, rows and columns alone.                         *)
LEMMA DebtsStand ==
  ASSUME UNCHANGED <<Sizes, count, Gone>>,
         \A c \in Calls : /\ stage[c] \in Owes <=> stage'[c] \in Owes
                          /\ stage[c] \in Shut <=> stage'[c] \in Shut
                          /\ stage[c] \in Owes => op'[c] = op[c]
  PROVE  UNCHANGED <<Sizes, count, Owed, Closed, Gone>>
<1>1. Closed' = Closed /\ Owing' = Owing
  BY DEF Closed, Owing, In, Owes, Shut
<1>2. \A c \in Owing : Key(c)' = Key(c) /\ Amount(c)' = Amount(c)
  BY DEF Owing, In, Owes, Key, Amount
<1>3. Owed' = Owed
  BY <1>1, <1>2 DEF Owed
<1>. QED  BY <1>1, <1>3

LEMMA RowsStand ==
  ASSUME UNCHANGED <<likes, comments, hidden, posts>>
  PROVE  UNCHANGED <<Sizes, Gone>>
<1>1. \A k : Rows(k)' = Rows(k)
  BY DEF Rows
<1>. QED  BY <1>1 DEF Sizes, Gone

(* Steps that close the debts of S.                                        *)
LEMMA DebtsClose ==
  ASSUME NEW S \in SUBSET At(Owes, stage), UNCHANGED <<op, likes, comments, hidden, posts>>,
         \A c \in Calls : /\ stage'[c] \in Owes <=> stage[c] \in Owes /\ c \notin S
                          /\ stage'[c] \in Shut <=> stage[c] \in Shut \/ c \in S
  PROVE  Abstract!Close(S) /\ S \in SUBSET DOMAIN Owed
<1>1. /\ Closed' = Closed \cup S /\ Owing' = Owing \ S
      /\ DOMAIN Owed = Owing /\ S \in SUBSET Owing
  BY DEF Closed, Owing, In, At, Owes, Shut, Owed
<1>2. \A c : Key(c)' = Key(c) /\ Amount(c)' = Amount(c)
  BY DEF Key, Amount
<1>3. Owed' = [c \in DOMAIN Owed \ S |-> Owed[c]]
  BY <1>1, <1>2 DEF Owed
<1>4. UNCHANGED <<Sizes, Gone>>
  BY RowsStand
<1>. QED  BY <1>1, <1>3, <1>4 DEF Abstract!Close

LEMMA WrittenOff ==
  ASSUME NEW S \in SUBSET At(Owes, stage), UNCHANGED <<op, likes, comments, hidden, posts, count>>,
         \A c \in Calls : /\ stage'[c] \in Owes <=> stage[c] \in Owes /\ c \notin S
                          /\ stage'[c] \in Shut <=> stage[c] \in Shut \/ c \in S
  PROVE  Abstract!LedgerNext
<1>1. S \in SUBSET DOMAIN Owed /\ Abstract!WriteOff(S)
  BY DebtsClose DEF Abstract!WriteOff
<1>. QED  BY <1>1 DEF Abstract!LedgerNext

(* A flush of d pays the calls that are buffered at s, or writes them off. *)
LEMMA FlushPays ==
  ASSUME BaseIInv, NEW d, Sums(d), NEW s \in [Calls -> Stages],
         \A k \in Keys : Held(d, k) = Net(k, At({"buffered"}, s), op),
         \A c \in Calls : /\ s[c] \in Owes <=> stage[c] \in Owes
                          /\ s[c] \in Shut <=> stage[c] \in Shut,
         DoFlush(d, s), UNCHANGED <<op, likes, comments, hidden, posts>>
  PROVE  Abstract!LedgerNext
<1>. DEFINE S == At({"buffered"}, s)
<1>1. S \in SUBSET At(Owes, stage)
  BY DEF At, Owes
<1>2. \A c \in Calls : /\ stage'[c] \in Owes <=> stage[c] \in Owes /\ c \notin S
                       /\ stage'[c] \in Shut <=> stage[c] \in Shut \/ c \in S
  <2>1. \A c \in Calls : \/ stage'[c] = s[c] /\ s[c] # "buffered"
                         \/ stage'[c] \in {"settled", "lost"} /\ s[c] = "buffered"
    BY Flushes
  <2>. QED  BY <2>1 DEF At, Owes, Shut
<1>3. S \in SUBSET DOMAIN Owed /\ Abstract!Close(S)
  BY <1>1, <1>2, DebtsClose
<1>4. CASE FlushFails(d, s)
  <2>1. count' = count
    BY <1>4 DEF FlushFails
  <2>. QED  BY <1>1, <1>2, <2>1, WrittenOff
<1>5. CASE FlushCommits(d, s)
  <2>1. count' = [k \in Keys |-> IF k \in Flushed(d) THEN Max0(Target(d, k)) ELSE count[k]]
    BY <1>5 DEF FlushCommits
  <2>2. ASSUME NEW k \in Keys
        PROVE  count'[k] = IF k \in Gone THEN count[k]
                           ELSE Abstract!Floor(count[k] + Abstract!Due(k, S))
    <3>1. Abstract!Due(k, S) = Held(d, k) /\ count[k] \in Nat
      BY <1>1, NetIsDue DEF BaseIInv, TypeOK
    <3>2. k \in Gone <=> posts[k[1]] = "gone"
      BY DEF Gone
    <3>3. CASE k \in DOMAIN d
      BY <2>1, <3>1, <3>2, <3>3 DEF Flushed, Held, Target, Max0, Abstract!Floor
    <3>4. CASE k \notin DOMAIN d
      BY <2>1, <3>1, <3>2, <3>4 DEF Flushed, Held, Abstract!Floor
    <3>. QED  BY <3>3, <3>4
  <2>3. count' = [k \in Keys |-> IF k \in Gone THEN count[k]
                                 ELSE Abstract!Floor(count[k] + Abstract!Due(k, S))]
    <3>. HIDE DEF S
    <3>. QED  BY <2>1, <2>2
  <2>4. Abstract!Pay(S)
    BY <1>3, <2>3 DEF Abstract!Pay
  <2>. QED  BY <1>3, <2>4 DEF Abstract!LedgerNext
<1>. QED  BY <1>4, <1>5 DEF DoFlush

(* A job: a row comes or goes with the debt it leaves, or a post goes.     *)
LEMMA JobIncurs ==
  ASSUME BaseIInv, CountIInv, GoneEmpty, GoneEmpty', NEW c \in Calls, WriterJob(c)
  PROVE  [Abstract!LedgerNext]_<<Sizes, count, Owed, Closed, Gone>>
<1>1. PICK b : JobRuns(c, b) /\ Counts(c, b)
  <2>1. \E b : JobRuns(c, b) /\ Counts(c, b)
    BY LikeCounts, UnlikeCounts, CommentCounts, DeleteCommentCounts, DeletePostCounts
       DEF WriterJob, CountIInv
  <2>. QED  BY <2>1
<1>2. /\ Receive(Job(c)) /\ b \in {"done", "owed", "lost"}
      /\ stage' = [stage EXCEPT ![c] = b] /\ UNCHANGED <<op, count>>
  BY <1>1 DEF JobRuns, actor
<1>3. stage[c] \in Waiting
  BY <1>2, JobFirst
<1>4. stage'[c] = b /\ \A d \in Calls : d # c => stage'[d] = stage[d]
  BY <1>2 DEF BaseIInv, TypeOK
<1>5. /\ op[c].post \in Posts
      /\ Key(c) \in Keys /\ Key(c)[1] = op[c].post /\ Amount(c) \in {1, -1}
  <2>1. op[c] \in Ops
    BY <1>3 DEF BaseIInv, CallsTyped, Waiting
  <2>. QED  BY <1>3, <2>1, KeysOfCalls DEF Waiting, Ops, Key
<1>6. posts \in [Posts -> {"live", "deleted", "gone"}]
  BY DEF BaseIInv, TypeOK
<1>7. \A k \in Keys : k[1] \in Posts /\ Cardinality(Rows(k)) \in Nat
  BY KeyParts, RowsFinite DEF CountIInv
<1>8. CASE DeletePostJob(c)
  <2>1. b = "done" /\ UNCHANGED <<likes, comments, hidden>>
    BY <1>2, <1>4, <1>8 DEF DeletePostJob, Reply, BaseIInv, TypeOK
  <2>2. \A k \in Keys : Rows(k)' = Rows(k)
    BY <2>1 DEF Rows
  <2>3. Sizes' = Sizes
    BY <2>2 DEF Sizes
  <2>4. UNCHANGED <<Owed, Closed>>
    <3>1. \A d \in Calls : /\ stage[d] \in Owes <=> stage'[d] \in Owes
                           /\ stage[d] \in Shut <=> stage'[d] \in Shut
      BY <1>3, <1>4, <2>1 DEF Owes, Shut, Waiting
    <3>2. Closed' = Closed /\ Owing' = Owing
      BY <3>1 DEF Closed, Owing, In, Owes, Shut
    <3>3. \A d : Key(d)' = Key(d) /\ Amount(d)' = Amount(d)
      BY <1>2 DEF Key, Amount
    <3>. QED  BY <3>2, <3>3 DEF Owed
  <2>5. \A p \in Posts : posts[p] = "gone" => posts'[p] = "gone"
    <3>1. \/ UNCHANGED posts
          \/ posts[op[c].post] = "live" /\ posts' = [posts EXCEPT ![op[c].post] = "deleted"]
          \/ posts' = [posts EXCEPT ![op[c].post] = "gone"]
      BY <1>8 DEF DeletePostJob
    <3>. QED  BY <1>6, <3>1
  <2>6. Gone' \in SUBSET Keys /\ Gone' = Gone \cup Gone'
    BY <1>7, <2>5 DEF Gone
  <2>7. \A k \in Gone' : Sizes[k] = 0
    BY <2>2, GoneSizesNext DEF Gone, Sizes
  <2>8. PICK K \in SUBSET Keys : K = Gone'
    BY <2>6
  <2>9. Abstract!Drop(K)
    BY <1>2, <2>3, <2>4, <2>6, <2>7, <2>8 DEF Abstract!Drop
  <2>. QED  BY <2>9 DEF Abstract!LedgerNext
<1>9. CASE ~DeletePostJob(c)
  <2>1. posts' = posts
    BY <1>9 DEF WriterJob, LikeJob, UnlikeJob, CommentJob, DeleteCommentJob
  <2>2. Gone' = Gone
    BY <2>1 DEF Gone
  <2>3. b # "done" => Key(c) \notin Gone
    BY <1>4, <1>5, NothingOnGone DEF Gone
  <2>4. ASSUME NEW k \in Keys
        PROVE  Cardinality(Rows(k)') =
                 Cardinality(Rows(k)) + (IF b # "done" /\ Key(c) = k THEN Amount(c) ELSE 0)
    <3>1. CASE posts[k[1]] = "gone"
      BY <1>5, <2>1, <2>3, <3>1, GoneSizes, GoneSizesNext DEF Gone
    <3>2. CASE posts[k[1]] # "gone"
      BY <1>1, <2>1, <3>2 DEF Counts
    <3>. QED  BY <3>1, <3>2
  <2>5. CASE b = "done"
    <3>1. Sizes' = Sizes
      BY <1>7, <2>4, <2>5 DEF Sizes
    <3>2. \A d \in Calls : /\ stage[d] \in Owes <=> stage'[d] \in Owes
                           /\ stage[d] \in Shut <=> stage'[d] \in Shut
      BY <1>3, <1>4, <2>5 DEF Owes, Shut, Waiting
    <3>. QED  BY <1>2, <2>2, <3>1, <3>2, DebtsStand
  <2>6. CASE b # "done"
    <3>1. Sizes' = [Sizes EXCEPT ![Key(c)] = @ + Amount(c)]
      <4>1. \A k \in Keys : Cardinality(Rows(k)') =
              IF k = Key(c) THEN Cardinality(Rows(k)) + Amount(c) ELSE Cardinality(Rows(k))
        BY <1>7, <2>4, <2>6
      <4>. QED  BY <4>1 DEF Sizes
    <3>2. c \notin DOMAIN Owed \cup Closed
      BY <1>3, DebtsAreCalls DEF At, Owes, Shut, Waiting
    <3>3. \A d : Key(d)' = Key(d) /\ Amount(d)' = Amount(d)
      BY <1>2 DEF Key, Amount
    <3>4. \/ /\ Owed' = [e \in DOMAIN Owed \cup {c} |-> IF e = c THEN <<Key(c), Amount(c)>> ELSE Owed[e]]
             /\ UNCHANGED Closed
          \/ Closed' = Closed \cup {c} /\ UNCHANGED Owed
      <4>1. CASE b = "owed"
        <5>1. Closed' = Closed /\ Owing' = Owing \cup {c} /\ c \notin Owing
          BY <1>3, <1>4, <4>1 DEF Closed, Owing, In, Waiting
        <5>. QED  BY <3>3, <5>1 DEF Owed
      <4>2. CASE b = "lost"
        <5>1. Closed' = Closed \cup {c} /\ Owing' = Owing
          BY <1>3, <1>4, <4>2 DEF Closed, Owing, In, Waiting
        <5>. QED  BY <3>3, <5>1 DEF Owed
      <4>. QED  BY <1>2, <2>6, <4>1, <4>2
    <3>5. Abstract!Incur(c, Key(c), Amount(c))
      BY <1>2, <2>2, <2>3, <2>6, <3>1, <3>2, <3>4 DEF Abstract!Incur
    <3>. QED  BY <1>5, <3>5 DEF Abstract!LedgerNext
  <2>. QED  BY <2>5, <2>6
<1>. QED  BY <1>8, <1>9

(* Every step of CounterWriter is a step of Ledger or a stutter.           *)
LEMMA LedgerStep ==
  ASSUME BaseIInv, CountIInv, GoneEmpty, [Next]_vars
  PROVE  [Abstract!LedgerNext]_<<Sizes, count, Owed, Closed, Gone>>
<1>1. stage \in [Calls -> Stages] /\ Sums(deltas)
  BY DEF BaseIInv, TypeOK, Sums
<1>2. ASSUME NEW c \in Calls, Begin(c) \/ PostDelta(c)
      PROVE  UNCHANGED <<Sizes, count, Owed, Closed, Gone>>
  <2>1. /\ UNCHANGED <<likes, comments, hidden, posts, count>>
        /\ \A d \in Calls : d # c => stage'[d] = stage[d] /\ op'[d] = op[d]
        /\ \/ stage[c] = "idle" /\ stage'[c] = "queued"
           \/ stage[c] = "owed" /\ stage'[c] = "posted" /\ op' = op
    BY <1>1, <1>2 DEF Begin, PostDelta, rows, actor, BaseIInv, TypeOK
  <2>2. \A d \in Calls : /\ stage[d] \in Owes <=> stage'[d] \in Owes
                         /\ stage[d] \in Shut <=> stage'[d] \in Shut
                         /\ stage[d] \in Owes => op'[d] = op[d]
    BY <2>1 DEF Owes, Shut
  <2>. QED  BY <2>1, <2>2, RowsStand, DebtsStand
<1>3. ASSUME NEW c \in Calls, HangUp(c)
      PROVE  [Abstract!LedgerNext]_<<Sizes, count, Owed, Closed, Gone>>
  <2>1. UNCHANGED <<op, likes, comments, hidden, posts, count>>
    BY <1>3 DEF HangUp, rows, actor
  <2>2. CASE stage[c] = "queued" /\ stage' = [stage EXCEPT ![c] = "orphaned"]
    <3>1. \A d \in Calls : /\ stage[d] \in Owes <=> stage'[d] \in Owes
                           /\ stage[d] \in Shut <=> stage'[d] \in Shut
      BY <1>1, <2>2 DEF Owes, Shut
    <3>. QED  BY <2>1, <3>1, RowsStand, DebtsStand
  <2>3. CASE stage[c] = "owed" /\ stage' = [stage EXCEPT ![c] = "lost"]
    <3>1. {c} \in SUBSET At(Owes, stage)
      BY <2>3 DEF At, Owes
    <3>2. \A d \in Calls : /\ stage'[d] \in Owes <=> stage[d] \in Owes /\ d \notin {c}
                           /\ stage'[d] \in Shut <=> stage[d] \in Shut \/ d \in {c}
      BY <1>1, <2>3 DEF Owes, Shut
    <3>. QED  BY <2>1, <3>1, <3>2, WrittenOff
  <2>. QED  BY <1>3, <2>2, <2>3 DEF HangUp
<1>4. ASSUME NEW c \in Calls, AddDelta(c)
      PROVE  [Abstract!LedgerNext]_<<Sizes, count, Owed, Closed, Gone>>
  <2>1. PICK s : s = [stage EXCEPT ![c] = "buffered"]
    OBVIOUS
  <2>2. stage[c] = "posted"
    BY <1>4, AddDeltaStages
  <2>3. UNCHANGED <<op, likes, comments, hidden, posts>>
    BY <1>4 DEF AddDelta, rows
  <2>4. /\ s \in [Calls -> Stages]
        /\ \A d \in Calls : /\ s[d] \in Owes <=> stage[d] \in Owes
                            /\ s[d] \in Shut <=> stage[d] \in Shut
    BY <1>1, <2>1, <2>2 DEF Stages, Owes, Shut
  <2>5. CASE DoFlush(Accumulate(c), s)
    <3>1. Sums(Accumulate(c))
      BY <2>2, AccumulateSums
    <3>2. \A k \in Keys : Held(Accumulate(c), k) = Net(k, At({"buffered"}, s), op)
      BY <2>1, <2>2, AccumulateHolds DEF CountIInv
    <3>. QED  BY <2>3, <2>4, <2>5, <3>1, <3>2, FlushPays
  <2>6. CASE stage' = s /\ UNCHANGED count
    BY <2>3, <2>4, <2>6, RowsStand, DebtsStand
  <2>. QED  BY <1>4, <2>1, <2>5, <2>6 DEF AddDelta
<1>5. CASE FlushRequest \/ Tick
  <2>1. DoFlush(deltas, stage) /\ UNCHANGED <<op, likes, comments, hidden, posts>>
    BY <1>5 DEF FlushRequest, Tick, rows
  <2>2. \A k \in Keys : Held(deltas, k) = Net(k, At({"buffered"}, stage), op)
    BY DEF CountIInv, SumsOK
  <2>. QED  BY <1>1, <2>1, <2>2, FlushPays
<1>6. CASE Interrupt \/ Restart \/ UNCHANGED vars
  <2>1. UNCHANGED <<op, stage, likes, comments, hidden, posts, count>>
    BY <1>6 DEF Interrupt, Restart, vars, rows, actor
  <2>. QED  BY <2>1, RowsStand, DebtsStand
<1>7. CASE Exit \/ Crash
  <2>. DEFINE S == At(Owes, stage)
  <2>1. /\ UNCHANGED <<op, likes, comments, hidden, posts, count>>
        /\ \A c \in Calls :
             \/ stage[c] \in Waiting /\ stage'[c] = "done"
             \/ stage[c] \in {"owed", "posted", "buffered"} /\ stage'[c] = "lost"
             \/ stage[c] \in {"idle", "settled", "lost", "done"} /\ stage'[c] = stage[c]
    BY <1>7, StopStages DEF Exit, Crash, rows
  <2>2. \A c \in Calls : /\ stage'[c] \in Owes <=> stage[c] \in Owes /\ c \notin S
                         /\ stage'[c] \in Shut <=> stage[c] \in Shut \/ c \in S
    BY <2>1 DEF At, Owes, Shut, Waiting
  <2>3. S \in SUBSET At(Owes, stage)
    OBVIOUS
  <2>. QED  BY <2>1, <2>2, <2>3, WrittenOff
<1>8. GoneEmpty'
  BY GoneStaysEmpty
<1>9. ASSUME NEW c \in Calls, WriterJob(c)
      PROVE  [Abstract!LedgerNext]_<<Sizes, count, Owed, Closed, Gone>>
  BY <1>8, <1>9, JobIncurs
<1>. QED  BY <1>2, <1>3, <1>4, <1>5, <1>6, <1>7, <1>9 DEF Next, Writer

LEMMA LedgerStart ==
  ASSUME Init
  PROVE  Abstract!LedgerInit
<1>1. /\ likes = [p \in Posts |-> {}] /\ comments = [p \in Posts |-> {}] /\ hidden = {}
      /\ stage = [c \in Calls |-> "idle"] /\ count = [k \in Keys |-> 0]
      /\ posts = [p \in Posts |-> "live"]
  BY DEF Init
<1>2. \A k \in Keys : Rows(k) = {} /\ posts[k[1]] # "gone"
  BY <1>1, KeyParts DEF Rows
<1>3. Sizes = [k \in Keys |-> 0] /\ Gone = {}
  BY <1>2, FS_EmptySet DEF Sizes, Gone
<1>4. Owing = {} /\ Closed = {}
  BY <1>1 DEF Owing, Closed, In
<1>5. Owed = [c \in {} |-> 0]
  BY <1>4 DEF Owed
<1>. QED  BY <1>1, <1>3, <1>4, <1>5 DEF Abstract!LedgerInit

(* For any number of calls, users and posts and any batch size, counters   *)
(* written behind are a ledger: no delta is added twice, none appears      *)
(* without a row, and what is not added was lost by a hang-up, a failed    *)
(* flush or a stop.                                                        *)
THEOREM CountersImplementLedger == Spec => ImplementsLedger
<1>1. Init => Abstract!LedgerInit /\ GoneEmpty
  <2>1. Init => GoneEmpty
    BY DEF Init, GoneEmpty
  <2>. QED  BY <2>1, LedgerStart
<1>2. BaseIInv /\ CountIInv /\ GoneEmpty /\ [Next]_vars =>
        GoneEmpty' /\ [Abstract!LedgerNext]_<<Sizes, count, Owed, Closed, Gone>>
  BY GoneStaysEmpty, LedgerStep
<1>3. [Abstract!LedgerNext]_<<Sizes, count, Owed, Closed, Gone>> =>
        [Abstract!LedgerNext]_Abstract!ledger
  BY DEF Abstract!ledger
<1>. QED  BY <1>1, <1>2, <1>3, CountInvariance, PTL DEF Spec, ImplementsLedger, Abstract!LedgerSpec
===============================================================================
