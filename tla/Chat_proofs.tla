----------------------------- MODULE Chat_proofs -----------------------------
(***************************************************************************)
(* The chat, for any questions and any limits: theorems about the           *)
(* conversations that questions share (Conversations) and about the         *)
(* question that one of them is dealing with (AgentTurn).                   *)
(***************************************************************************)
EXTENDS Conversations, AgentTurn, TLAPS, FiniteSetTheorems, SequenceTheorems

-----------------------------------------------------------------------------
(* Sequences.                                                               *)

\* In a finite set of numbers every place up to its size is somebody's.
LEMMA SomebodysPlace ==
  ASSUME NEW K \in SUBSET Nat, IsFiniteSet(K), NEW n \in 1..Cardinality(K)
  PROVE  \E i \in K : Cardinality({j \in K : j <= i}) = n
<1> DEFINE UpTo(i) == {j \in K : j <= i}
           place == [i \in K |-> Cardinality(UpTo(i))]
           Size == Cardinality(K)
<1>1. Size \in Nat
  BY FS_CardinalityType
<1>2. ASSUME NEW i \in K
      PROVE  /\ UpTo(i) \in SUBSET K /\ i \in UpTo(i)
             /\ IsFiniteSet(UpTo(i)) /\ place[i] \in 1..Size
  <2>1. UpTo(i) \in SUBSET K /\ i \in UpTo(i)
    OBVIOUS
  <2>2. IsFiniteSet(UpTo(i)) /\ Cardinality(UpTo(i)) <= Size
    BY <2>1, FS_Subset
  <2>3. Cardinality(UpTo(i)) \in Nat /\ Cardinality(UpTo(i)) # 0
    BY <2>1, <2>2, FS_CardinalityType, FS_EmptySet
  <2> QED BY <1>1, <2>1, <2>2, <2>3
<1>3. ASSUME NEW i \in K, NEW k \in K, i < k PROVE place[i] # place[k]
  <2>1. UpTo(i) \in SUBSET UpTo(k) /\ k \notin UpTo(i) /\ k \in UpTo(k)
    <3>1. i \in Nat /\ k \in Nat /\ ~(k <= i) /\ k <= k
      BY <1>3
    <3>2. \A j \in K : j <= i => j <= k
      BY <1>3
    <3> QED BY <3>1, <3>2
  <2>2. Cardinality(UpTo(k)) # Cardinality(UpTo(i))
    BY <1>2, <2>1, FS_Subset
  <2> QED BY <2>2
<1>4. place \in Injection(K, 1..Size)
  <2>1. place \in [K -> 1..Size]
    BY <1>2
  <2>2. ASSUME NEW i \in K, NEW k \in K, place[i] = place[k] PROVE i = k
    <3>1. i < k \/ k < i \/ i = k
      OBVIOUS
    <3> QED BY <1>3, <2>2, <3>1
  <2> QED BY <2>1, <2>2 DEF Injection, IsInjective
<1>5. IsFiniteSet(1..Size) /\ Cardinality(1..Size) = Size
  <2>1. 1 \in Int /\ Size \in Int
    BY <1>1
  <2>2. IsFiniteSet(1..Size) /\ Cardinality(1..Size) = IF 1 > Size THEN 0 ELSE Size - 1 + 1
    BY <2>1, FS_Interval
  <2> QED BY <1>1, <2>2
<1>6. place \in Surjection(K, 1..Size)
  BY <1>4, <1>5, FS_Injection
<1>7. \E i \in K : place[i] = n
  BY <1>6 DEF Surjection
<1> QED BY <1>7

\* What Without leaves is there in the order of the sequence, and nothing is
\* gone that was not named.
LEMMA WithoutFacts ==
  ASSUME NEW S, NEW r \in Seq(S), NEW gone
  PROVE  LET w == Without(r, gone)
         IN  /\ w \in Seq(S)
             /\ ToSet(w) = ToSet(r) \ gone
             /\ \E at \in [DOMAIN w -> DOMAIN r] :
                  /\ \A i \in DOMAIN w : w[i] = r[at[i]]
                  /\ \A i, j \in DOMAIN w : i < j => at[i] < at[j]
<1> DEFINE K == {i \in DOMAIN r : r[i] \notin gone}
           Rank(i) == Cardinality({j \in K : j <= i})
           Size == Cardinality(K)
           at == [n \in 1..Size |-> CHOOSE i \in K : Rank(i) = n]
           w == Without(r, gone)
<1>1. DOMAIN r = 1..Len(r) /\ Len(r) \in Nat
  OBVIOUS
<1>2. K \in SUBSET Nat /\ IsFiniteSet(K) /\ Size \in Nat
  <2>1. IsFiniteSet(1..Len(r))
    BY <1>1, FS_Interval
  <2>2. K \in SUBSET (1..Len(r))
    BY <1>1
  <2>3. IsFiniteSet(K)
    BY <2>1, <2>2, FS_Subset
  <2> QED BY <1>1, <2>2, <2>3, FS_CardinalityType
<1>3. \A i \in K : Rank(i) \in 1..Size
  <2> SUFFICES ASSUME NEW i \in K PROVE Rank(i) \in 1..Size
    OBVIOUS
  <2> DEFINE U == {j \in K : j <= i}
  <2>1. U \in SUBSET K /\ i \in U
    BY <1>2
  <2>2. IsFiniteSet(U) /\ Cardinality(U) <= Size
    BY <1>2, <2>1, FS_Subset
  <2>3. Cardinality(U) \in Nat /\ Cardinality(U) # 0
    BY <2>1, <2>2, FS_CardinalityType, FS_EmptySet
  <2> QED BY <1>2, <2>2, <2>3
<1>4. \A n \in 1..Size : at[n] \in K /\ Rank(at[n]) = n
  BY <1>2, SomebodysPlace
<1>5. w = [n \in 1..Size |-> r[at[n]]]
  BY DEF Without
<1>6. w \in Seq(S) /\ DOMAIN w = 1..Size
  <2>1. \A n \in 1..Size : r[at[n]] \in S
    <3>1. \A i \in K : r[i] \in S
      BY <1>1
    <3> HIDE DEF at, K
    <3> QED BY <1>4, <3>1
  <2> HIDE DEF at, K, w
  <2> QED BY <1>2, <1>5, <2>1
<1>7. \A i, j \in 1..Size : i < j => at[i] < at[j]
  <2> SUFFICES ASSUME NEW i \in 1..Size, NEW j \in 1..Size, i < j,
                      ~(at[i] < at[j])
               PROVE  FALSE
    OBVIOUS
  <2> DEFINE Ui == {k \in K : k <= at[i]}
             Uj == {k \in K : k <= at[j]}
  <2>1. at[i] \in K /\ at[j] \in K /\ Cardinality(Ui) = i /\ Cardinality(Uj) = j
    BY <1>4
  <2>2. Uj \in SUBSET Ui /\ Ui \in SUBSET K
    <3>1. at[j] <= at[i] /\ at[i] \in Nat /\ at[j] \in Nat
      BY <1>2, <2>1
    <3> HIDE DEF at
    <3> QED BY <1>2, <3>1
  <2>3. IsFiniteSet(Ui)
    BY <1>2, <2>2, FS_Subset
  <2>4. Cardinality(Uj) <= Cardinality(Ui)
    BY <2>2, <2>3, FS_Subset
  <2> QED BY <1>2, <2>1, <2>4
<1>8. ToSet(w) = ToSet(r) \ gone
  <2>1. ASSUME NEW x \in ToSet(w) PROVE x \in ToSet(r) \ gone
    <3> HIDE DEF at, w
    <3>1. PICK n \in 1..Size : x = r[at[n]]
      BY <1>5, <1>6, <2>1 DEF ToSet
    <3> QED BY <1>4, <3>1 DEF ToSet
  <2>2. ASSUME NEW x \in ToSet(r) \ gone PROVE x \in ToSet(w)
    <3>1. PICK i \in K : r[i] = x
      BY <2>2 DEF ToSet
    <3>2. Rank(i) \in 1..Size
      BY <1>3
    <3>3. at[Rank(i)] \in K /\ Rank(at[Rank(i)]) = Rank(i)
      BY <1>4, <3>2
    <3>4. at[Rank(i)] = i
      <4> DEFINE k == at[Rank(i)]
                 U(m) == {j \in K : j <= m}
      <4>1. i \in Nat /\ k \in Nat /\ k \in K
        BY <1>2, <3>3
      <4>2. IsFiniteSet(U(i)) /\ IsFiniteSet(U(k))
        BY <1>2, FS_Subset
      <4>3. Cardinality(U(k)) = Cardinality(U(i))
        BY <3>3
      <4> HIDE DEF k
      <4>4. U(i) \in SUBSET U(k) \/ U(k) \in SUBSET U(i)
        BY <1>2, <4>1
      <4>5. U(i) = U(k)
        BY <4>2, <4>3, <4>4, FS_Subset
      <4>6. i \in U(k) /\ k \in U(i)
        BY <4>1, <4>5
      <4>7. k = i
        BY <4>1, <4>6
      <4> QED BY <4>7 DEF k
    <3> QED BY <1>5, <1>6, <3>1, <3>2, <3>4 DEF ToSet
  <2> QED BY <2>1, <2>2
<1>9. at \in [DOMAIN w -> DOMAIN r]
  BY <1>4, <1>6
<1> QED BY <1>5, <1>6, <1>7, <1>8, <1>9

\* The order of a conversation's queue: no question stands behind a Clear, and
\* none stands in it twice.
Orderly(q) ==
  \A i, j \in DOMAIN q :
    /\ i < j /\ q[i] \in Clears => q[j] \notin Turns
    /\ q[i] \in Turns /\ q[i] = q[j] => i = j

Waiters == Turns \cup Clears

\* Who joins a queue is its last member.
LEMMA AppendToQueue ==
  ASSUME NEW q \in Seq(Waiters), Orderly(q), NEW x \in Waiters,
         x \in Turns => x \notin ToSet(q) /\ ToSet(q) \cap Clears = {}
  PROVE  /\ Append(q, x) \in Seq(Waiters) /\ Orderly(Append(q, x))
         /\ ToSet(Append(q, x)) = ToSet(q) \cup {x}
<1> DEFINE a == Append(q, x)
<1>1. /\ a \in Seq(Waiters) /\ DOMAIN a = 1..(Len(q) + 1) /\ Len(q) \in Nat
      /\ DOMAIN q = 1..Len(q)
      /\ \A i \in 1..Len(q) : a[i] = q[i]
      /\ a[Len(q) + 1] = x
  OBVIOUS
<1> HIDE DEF a
<1>2. ToSet(a) = ToSet(q) \cup {x}
  <2>1. \A i \in 1..(Len(q) + 1) : i \in 1..Len(q) \/ i = Len(q) + 1
    BY <1>1
  <2> QED BY <1>1, <2>1 DEF ToSet
<1>3. Orderly(a)
  <2> SUFFICES ASSUME NEW i \in DOMAIN a, NEW j \in DOMAIN a
               PROVE  /\ i < j /\ a[i] \in Clears => a[j] \notin Turns
                      /\ a[i] \in Turns /\ a[i] = a[j] => i = j
    BY DEF Orderly
  <2>1. CASE i \in 1..Len(q) /\ j \in 1..Len(q)
    BY <1>1, <2>1 DEF Orderly
  <2>2. CASE i \in 1..Len(q) /\ j = Len(q) + 1
    <3>1. a[i] \in ToSet(q) /\ a[j] = x
      BY <1>1, <2>2 DEF ToSet
    <3> QED BY <3>1
  <2>3. CASE i = Len(q) + 1 /\ j \in 1..Len(q)
    <3>1. a[j] \in ToSet(q) /\ a[i] = x /\ ~(i < j)
      BY <1>1, <2>3 DEF ToSet
    <3> QED BY <3>1
  <2>4. CASE i = Len(q) + 1 /\ j = Len(q) + 1
    BY <1>1, <2>4
  <2> QED BY <1>1, <2>1, <2>2, <2>3, <2>4
<1> QED BY <1>1, <1>2, <1>3 DEF a

\* The first of a queue leaves it; behind a Clear no question is left.
LEMMA TailOfQueue ==
  ASSUME NEW q \in Seq(Waiters), Orderly(q), q # <<>>, Turns \cap Clears = {}
  PROVE  /\ Tail(q) \in Seq(Waiters) /\ Orderly(Tail(q))
         /\ Head(q) \in ToSet(q) /\ ToSet(q) = ToSet(Tail(q)) \cup {Head(q)}
         /\ Head(q) \in Turns => Head(q) \notin ToSet(Tail(q))
         /\ Head(q) \in Clears => ToSet(Tail(q)) \cap Turns = {}
<1> DEFINE b == Tail(q)
<1>1. /\ b \in Seq(Waiters) /\ Len(q) \in Nat \ {0} /\ DOMAIN q = 1..Len(q)
      /\ DOMAIN b = 1..(Len(q) - 1) /\ Head(q) = q[1]
      /\ \A i \in 1..(Len(q) - 1) : b[i] = q[i + 1]
  OBVIOUS
<1> HIDE DEF b
<1>2. ToSet(q) = ToSet(b) \cup {q[1]} /\ q[1] \in ToSet(q)
  <2>1. \A i \in 1..Len(q) : i = 1 \/ (i - 1 \in 1..(Len(q) - 1) /\ q[i] = b[i - 1])
    BY <1>1
  <2>2. \A i \in 1..(Len(q) - 1) : i + 1 \in 1..Len(q)
    BY <1>1
  <2>3. 1 \in 1..Len(q)
    BY <1>1
  <2>4. ASSUME NEW x \in ToSet(q) PROVE x \in ToSet(b) \cup {q[1]}
    <3>1. PICK i \in 1..Len(q) : x = q[i]
      BY <1>1, <2>4 DEF ToSet
    <3> QED BY <1>1, <2>1, <3>1 DEF ToSet
  <2>5. ASSUME NEW x \in ToSet(b) PROVE x \in ToSet(q)
    <3>1. PICK i \in 1..(Len(q) - 1) : x = q[i + 1]
      BY <1>1, <2>5 DEF ToSet
    <3> QED BY <1>1, <2>2, <3>1 DEF ToSet
  <2>6. q[1] \in ToSet(q)
    BY <1>1, <2>3 DEF ToSet
  <2> QED BY <2>4, <2>5, <2>6
<1>3. Orderly(b)
  <2> SUFFICES ASSUME NEW i \in DOMAIN b, NEW j \in DOMAIN b
               PROVE  /\ i < j /\ b[i] \in Clears => b[j] \notin Turns
                      /\ b[i] \in Turns /\ b[i] = b[j] => i = j
    BY DEF Orderly
  <2> DEFINE m == i + 1
             n == j + 1
  <2>1. /\ m \in DOMAIN q /\ n \in DOMAIN q /\ b[i] = q[m] /\ b[j] = q[n]
        /\ i < j => m < n
        /\ m = n => i = j
    BY <1>1
  <2> HIDE DEF m, n
  <2> QED BY <2>1 DEF Orderly
<1>4. ASSUME NEW x \in ToSet(b)
      PROVE  (q[1] \in Turns => x # q[1]) /\ (q[1] \in Clears => x \notin Turns)
  <2>1. PICK i \in 1..(Len(q) - 1) : x = q[i + 1]
    BY <1>1 DEF ToSet
  <2>2. 1 < i + 1 /\ i + 1 \in DOMAIN q /\ 1 \in DOMAIN q
    BY <1>1
  <2> QED BY <2>1, <2>2 DEF Orderly
<1> QED BY <1>1, <1>2, <1>3, <1>4 DEF b

\* Who gives up leaves the others as they stand.
LEMMA LeaveQueue ==
  ASSUME NEW q \in Seq(Waiters), Orderly(q), NEW x
  PROVE  /\ Without(q, {x}) \in Seq(Waiters) /\ Orderly(Without(q, {x}))
         /\ ToSet(Without(q, {x})) = ToSet(q) \ {x}
<1> DEFINE w == Without(q, {x})
<1>1. w \in Seq(Waiters) /\ ToSet(w) = ToSet(q) \ {x}
  BY WithoutFacts
<1>2. PICK at \in [DOMAIN w -> DOMAIN q] :
        /\ \A i \in DOMAIN w : w[i] = q[at[i]]
        /\ \A i, j \in DOMAIN w : i < j => at[i] < at[j]
  BY WithoutFacts
<1>3. DOMAIN w \in SUBSET Nat
  BY <1>1
<1> HIDE DEF w
<1>4. \A i, j \in DOMAIN w : at[i] = at[j] => i = j
  <2>1. DOMAIN q \in SUBSET Nat
    OBVIOUS
  <2> SUFFICES ASSUME NEW i \in DOMAIN w, NEW j \in DOMAIN w, at[i] = at[j], i # j
               PROVE  FALSE
    OBVIOUS
  <2>2. (i < j \/ j < i) /\ at[i] \in Nat
    BY <1>3, <2>1
  <2>3. at[i] < at[j] \/ at[j] < at[i]
    BY <1>2, <2>2
  <2> QED BY <2>2, <2>3
<1>5. Orderly(w)
  BY <1>2, <1>4 DEF Orderly
<1> QED BY <1>1, <1>5 DEF w

-----------------------------------------------------------------------------
(* The inductive invariant.                                                 *)

\* What a question has goes with where it is.
Places ==
  \A t \in Turns :
    /\ pc[t] \in {"new", "asked"} => conv[t] = None /\ forgotten[t] = {}
    /\ pc[t] \in {"waiting", "running"} => conv[t] # None
    /\ pc[t] # "running" => prior[t] = {}
    /\ pc[t] \in {"asked", "waiting", "running"} => t \in active

\* Nothing is known of a conversation that nobody has made.
Made ==
  \A e \in Turns : conv[e] # e =>
    /\ queue[e] = <<>> /\ holder[e] = None /\ e \notin resetting
    /\ \A x \in ToSet(registry) : x.conv # e
    /\ \A t \in Turns : conv[t] # e

\* A conversation is its maker's: whoever uses it has the maker's key.
Owned ==
  /\ \A t \in Turns : conv[t] # None => Key(t) = Key(conv[t])
  /\ \A x \in ToSet(registry) : x.key = Key(x.conv)
  /\ \A e \in Turns : \A u \in payloads[e] : conv[u] = e
  /\ \A t \in Turns : \A u \in prior[t] : conv[u] = conv[t]

\* The questions that wait are those in the queue of their conversation.
Waits ==
  \A t \in Turns, e \in Turns :
    t \in ToSet(queue[e]) <=> pc[t] = "waiting" /\ conv[t] = e

Queues == \A e \in Turns : Orderly(queue[e])

\* A conversation that a Clear waits for, or resets, is found in the registry
\* no more, and one that is being reset has no question in its queue.
Detachment ==
  \A e \in Turns :
    /\ e \in resetting => ToSet(queue[e]) \cap Turns = {}
    /\ e \in resetting \/ ToSet(queue[e]) \cap Clears # {} =>
         \A x \in ToSet(registry) : x.conv # e

\* A conversation that is found, or that a question got after a Clear, has no
\* question from before it.
Cleared ==
  /\ \A u \in past : conv[u] # None
  /\ \A t \in Turns : forgotten[t] \subseteq past
  /\ \A t \in Turns : \A u \in forgotten[t] : conv[u] # conv[t]
  /\ \A x \in ToSet(registry) : \A u \in past : conv[u] # x.conv

IInv ==
  /\ TypeOK /\ Places /\ Made /\ Owned /\ Waits /\ Queues /\ Detachment
  /\ Cleared /\ OneAtATime

\* The initial states satisfy the inductive invariant.
LEMMA InitIInv == Init => IInv
<1> SUFFICES ASSUME Init PROVE IInv
    OBVIOUS
<1>1. TypeOK
  BY DEF Init, TypeOK, NoOne, Entries
<1>2. ToSet(<<>>) = {} /\ Orderly(<<>>)
  BY DEF ToSet, Orderly
<1>3. Places /\ Made /\ OneAtATime
  BY <1>2, ConversationConstants DEF Init, Places, Made, OneAtATime
<1>4. Owned /\ Cleared
  BY <1>2 DEF Init, Owned, Cleared
<1>5. Waits /\ Queues /\ Detachment
  BY <1>2 DEF Init, Waits, Queues, Detachment
<1> QED BY <1>1, <1>3, <1>4, <1>5 DEF IInv

\* A question's key is its request.
LEMMA KeyFacts ==
  ASSUME TypeOK, NEW t \in Turns
  PROVE  /\ Key(t) \in Seq(Names) /\ Session(t) \in Sessions
         /\ Key(t)[1] = Session(t)
         /\ \A u \in Turns : Key(u) = Key(t) => req[u] = req[t]
<1>1. \A u \in Turns : req[u] \in Requests
  BY DEF TypeOK
<1>2. /\ req[t].session \in Names /\ req[t].scope \in Names /\ req[t].user \in Names
      /\ req[t].session \in Sessions
  BY <1>1 DEF Names, Sessions
<1>3. Key(t) \in Seq(Names) /\ Key(t)[1] = Session(t) /\ Session(t) \in Sessions
  BY <1>2 DEF Key, Session
<1>4. ASSUME NEW u \in Turns, Key(u) = Key(t) PROVE req[u] = req[t]
  <2>1. /\ req[u].session = req[t].session /\ req[u].scope = req[t].scope
        /\ req[u].user = req[t].user
    BY <1>4 DEF Key
  <2>2. /\ req[u] \in [session : Names, scope : Names, user : Names]
        /\ req[t] \in [session : Names, scope : Names, user : Names]
    BY <1>1, ConversationConstants
  <2> QED BY <2>1, <2>2
<1> QED BY <1>3, <1>4

-----------------------------------------------------------------------------
(* The activity slots.                                                      *)

\* A slot that ends is its question's.
LEMMA SlotEnds ==
  ASSUME TypeOK, NEW t \in Turns, active' = active \/ active' = active \ {t}
  PROVE  active' \subseteq Turns /\ active' \ {t} = active \ {t}
BY DEF TypeOK

\* A question that leaves gives back what it displaced, if anything.
LEMMA LeaveFacts ==
  ASSUME IInv, NEW t \in Turns, NEW from, Leave(t, from)
  PROVE  /\ pc[t] = from /\ pc' = [pc EXCEPT ![t] = "refused"]
         /\ display' \in [Sessions -> NoOne] /\ displaced' \in [Turns -> NoOne]
         /\ active' \subseteq Turns
         /\ active' \ {t} = active \ {t}
<1>1. \/ active' = active
      \/ active' = active \ {t}
  BY DEF Leave, Ended
<1>2. display' \in [Sessions -> NoOne] /\ displaced' \in [Turns -> NoOne]
  BY KeyFacts DEF Leave, Restored, IInv, TypeOK, NoOne
<1> QED BY <1>1, <1>2, SlotEnds DEF IInv, Leave, Moves

-----------------------------------------------------------------------------
(* The steps.                                                               *)

\* Where a question neither waits nor runs, before and after the step, and the
\* registry gains nothing, the conversations stay as they were.
LEMMA QuietKeeps ==
  ASSUME IInv, NEW t \in Turns, NEW to,
         pc[t] \notin {"waiting", "running"}, to \notin {"waiting", "running"},
         pc' = [pc EXCEPT ![t] = to], ToSet(registry') \subseteq ToSet(registry),
         UNCHANGED <<req, conv, locks, history, resetting, ghosts>>
  PROVE  /\ Made' /\ Owned' /\ Waits' /\ Queues' /\ Detachment' /\ Cleared'
         /\ OneAtATime'
<1> USE DEF locks, history, ghosts
<1>1. \A u \in Turns : /\ pc'[u] = "waiting" <=> pc[u] = "waiting"
                       /\ pc'[u] = "running" <=> pc[u] = "running"
  BY DEF IInv, TypeOK
<1>2. Made' /\ Queues' /\ Detachment' /\ Cleared'
  BY DEF IInv, Made, Queues, Detachment, Cleared
<1>3. Owned'
  BY DEF IInv, Owned, Key
<1>4. Waits'
  BY <1>1 DEF IInv, Waits
<1>5. OneAtATime'
  BY <1>1 DEF IInv, OneAtATime
<1> QED BY <1>2, <1>3, <1>4, <1>5

LEMMA AskKeeps ==
  ASSUME IInv, NEW t \in Turns, Ask(t)
  PROVE  IInv'
<1>1. /\ pc[t] = "new" /\ pc' = [pc EXCEPT ![t] = "asked"]
      /\ active' = active \cup {t}
      /\ displaced' = [displaced EXCEPT ![t] = display[Session(t)]]
      /\ UNCHANGED <<req, registry, conv, locks, history, clearing, followups, ghosts>>
  BY DEF Ask, Moves, Claim
<1>2. Session(t) \in Sessions
  BY KeyFacts DEF IInv
<1>3. display' \in [Sessions -> NoOne] /\ displaced' \in [Turns -> NoOne]
  <2> DEFINE shown == [display EXCEPT ![Session(t)] = t]
  <2>1. PICK E \in Forget(shown, Session(t)) :
          display' = [s \in Sessions |-> IF s \in E THEN None ELSE shown[s]]
    BY DEF Ask, Claim
  <2>2. shown \in [Sessions -> NoOne]
    BY <1>2 DEF IInv, TypeOK, NoOne
  <2> HIDE DEF shown
  <2> QED BY <1>1, <1>2, <2>1, <2>2 DEF IInv, TypeOK, NoOne
<1>4. active' \subseteq Turns /\ t \in active' /\ active' \ {t} = active \ {t}
  BY <1>1 DEF IInv, TypeOK
<1>5. TypeOK'
  BY <1>1, <1>3, <1>4 DEF IInv, TypeOK, locks, history, clearing, ghosts
<1>6. Places'
  BY <1>1, <1>4 DEF IInv, TypeOK, Places, history, ghosts
<1>7. /\ Made' /\ Owned' /\ Waits' /\ Queues' /\ Detachment' /\ Cleared'
      /\ OneAtATime'
  BY <1>1, QuietKeeps DEF clearing
<1> QED BY <1>4, <1>5, <1>6, <1>7 DEF IInv

\* A question ends without a turn; its slot ends with it.
LEMMA ReturnFacts ==
  ASSUME IInv, NEW t \in Turns, Returns(t)
  PROVE  /\ active' \subseteq Turns
         /\ displaced' \in [Turns -> NoOne]
         /\ active' \ {t} = active \ {t}
<1>1. \/ active' = active
      \/ active' = active \ {t}
  BY DEF Returns, Ended
<1>2. displaced' \in [Turns -> NoOne]
  BY DEF Returns, IInv, TypeOK, NoOne
<1> QED BY <1>1, <1>2, SlotEnds DEF IInv

LEMMA AnswerEarlyKeeps ==
  ASSUME IInv, NEW t \in Turns, AnswerEarly(t)
  PROVE  IInv'
<1>1. /\ pc[t] = "asked" /\ pc' = [pc EXCEPT ![t] = "done"] /\ Returns(t)
      /\ UNCHANGED <<req, display, registry, conv, locks, history, clearing,
                     followups, ghosts>>
  BY DEF AnswerEarly, Moves
<1>2. TypeOK'
  BY <1>1, ReturnFacts DEF IInv, TypeOK, locks, history, clearing, ghosts
<1>3. Places'
  BY <1>1, ReturnFacts DEF IInv, TypeOK, Places, history, ghosts
<1>4. /\ Made' /\ Owned' /\ Waits' /\ Queues' /\ Detachment' /\ Cleared'
      /\ OneAtATime'
  BY <1>1, QuietKeeps DEF clearing
<1> QED BY <1>1, <1>2, <1>3, <1>4, ReturnFacts DEF IInv

\* Popping entries, expired or evicted, only takes away.
LEMMA PopFacts ==
  ASSUME NEW r \in Seq(Entries), NEW gone
  PROVE  Without(r, gone) \in Seq(Entries) /\ ToSet(Without(r, gone)) \subseteq ToSet(r)
BY WithoutFacts

LEMMA RegistryShrinks ==
  ASSUME IInv, NEW n \in Expired
  PROVE  /\ Purged(n) \in Seq(Entries) /\ ToSet(Purged(n)) \subseteq ToSet(registry)
         /\ Evicted(Purged(n)) \in Seq(Entries)
         /\ ToSet(Evicted(Purged(n))) \subseteq ToSet(registry)
<1>1. registry \in Seq(Entries)
  BY DEF IInv, TypeOK
<1>2. Purged(n) \in Seq(Entries) /\ ToSet(Purged(n)) \subseteq ToSet(registry)
  BY <1>1, PopFacts DEF Purged
<1>3. /\ Evicted(Purged(n)) \in Seq(Entries)
      /\ ToSet(Evicted(Purged(n))) \subseteq ToSet(Purged(n))
  <2> DEFINE p == Purged(n)
  <2>1. p \in Seq(Entries)
    BY <1>2
  <2> HIDE DEF p
  <2>2. Evicted(p) \in Seq(Entries) /\ ToSet(Evicted(p)) \subseteq ToSet(p)
    BY <2>1, PopFacts DEF Evicted
  <2> QED BY <2>2 DEF p
<1> QED BY <1>2, <1>3

LEMMA ProviderFailsKeeps ==
  ASSUME IInv, NEW t \in Turns, ProviderFails(t)
  PROVE  IInv'
<1>1. /\ pc[t] = "asked" /\ pc' = [pc EXCEPT ![t] = "done"] /\ Returns(t)
      /\ UNCHANGED <<req, display, conv, locks, history, clearing, followups, ghosts>>
  BY DEF ProviderFails, Moves
<1>2. registry' \in Seq(Entries) /\ ToSet(registry') \subseteq ToSet(registry)
  BY RegistryShrinks DEF ProviderFails
<1>3. TypeOK'
  BY <1>1, <1>2, ReturnFacts DEF IInv, TypeOK, locks, history, clearing, ghosts
<1>4. Places'
  BY <1>1, ReturnFacts DEF IInv, TypeOK, Places, history, ghosts
<1>5. /\ Made' /\ Owned' /\ Waits' /\ Queues' /\ Detachment' /\ Cleared'
      /\ OneAtATime'
  BY <1>1, <1>2, QuietKeeps DEF clearing
<1> QED BY <1>1, <1>3, <1>4, <1>5, ReturnFacts DEF IInv

LEMMA AnswerKeeps ==
  ASSUME IInv, NEW t \in Turns, Answer(t)
  PROVE  IInv'
<1>1. /\ pc[t] = "closing" /\ pc' = [pc EXCEPT ![t] = "done"]
      /\ UNCHANGED <<req, slots, registry, conv, locks, history, clearing, ghosts>>
  BY DEF Answer, Moves
<1>2. TypeOK'
  BY <1>1, KeyFacts DEF Answer, IInv, TypeOK, NoOne, slots, locks, history, clearing,
                        ghosts
<1>3. Places'
  BY <1>1 DEF IInv, TypeOK, Places, slots, history, ghosts
<1>4. /\ Made' /\ Owned' /\ Waits' /\ Queues' /\ Detachment' /\ Cleared'
      /\ OneAtATime'
  BY <1>1, QuietKeeps DEF clearing
<1> QED BY <1>2, <1>3, <1>4 DEF IInv

\* What goes on in a question's turn, or behind the answer to a Clear.
LEMMA ToolKeeps ==
  ASSUME IInv, NEW t \in Turns, ToolEnds(t)
  PROVE  IInv'
<1>1. /\ pc[t] = "running"
      /\ UNCHANGED <<pc, req, slots, registry, conv, locks, prior, clearing,
                     followups, ghosts>>
  BY DEF ToolEnds
<1>3. conv[t] \in Turns
  BY <1>1 DEF IInv, TypeOK, Places, NoOne
<1>4. payloads' = [payloads EXCEPT ![conv[t]] = @ \cup {t}]
  BY DEF ToolEnds
<1>5. TypeOK'
  <2>1. payloads' \in [Turns -> SUBSET Turns]
    <3>1. payloads \in [Turns -> SUBSET Turns]
      BY DEF IInv, TypeOK
    <3> QED BY <1>3, <1>4, <3>1
  <2> QED BY <1>1, <2>1 DEF IInv, TypeOK, slots, locks, clearing, ghosts
<1>6. Places'
  BY <1>1 DEF IInv, Places, slots, ghosts
<1>7. Made' /\ Waits' /\ Queues' /\ Detachment' /\ Cleared' /\ OneAtATime'
  BY <1>1 DEF IInv, Made, Waits, Queues, Detachment, Cleared, OneAtATime, locks,
              clearing, ghosts
<1>8. Owned'
  <2>1. \A e \in Turns : \A u \in payloads'[e] : conv[u] = e
    <3>1. payloads \in [Turns -> SUBSET Turns]
      BY DEF IInv, TypeOK
    <3>2. \A e \in Turns :
            payloads'[e] = payloads[e] \/ (e = conv[t] /\ payloads'[e] = payloads[e] \cup {t})
      BY <1>3, <1>4, <3>1
    <3> QED BY <3>2 DEF IInv, Owned
  <2> QED BY <1>1, <2>1 DEF IInv, Owned, Key
<1> QED BY <1>5, <1>6, <1>7, <1>8 DEF IInv

LEMMA ClearAnswersKeeps ==
  ASSUME IInv, NEW c \in Clears, ClearAnswers(c)
  PROVE  IInv'
<1>1. UNCHANGED <<pc, req, slots, registry, conv, locks, history, resetting, ghosts>>
  BY DEF ClearAnswers
<1>2. TypeOK'
  BY DEF ClearAnswers, IInv, TypeOK, NoOne, slots, locks, history, ghosts
<1>3. Owned'
  BY <1>1 DEF IInv, Owned, Key, history
<1>4. /\ Places' /\ Made' /\ Waits' /\ Queues' /\ Detachment' /\ Cleared'
      /\ OneAtATime'
  BY <1>1 DEF IInv, Places, Made, Waits, Queues, Detachment, Cleared, OneAtATime,
              slots, locks, history, ghosts
<1> QED BY <1>2, <1>3, <1>4 DEF IInv

\* Joining: the conversation is the one of the question's key in the registry,
\* which no Clear has detached, or the question's own, of which nothing is known.
LEMMA JoinFacts ==
  ASSUME IInv, NEW t \in Turns, Join(t)
  PROVE  \E e \in Turns :
           /\ JoinConversation(t, e)
           /\ registry' \in Seq(Entries)
           /\ \A x \in ToSet(registry') :
                x \in ToSet(registry) \/ (x.key = Key(t) /\ x.conv = e)
           /\ \/ e = t
              \/ \E x \in ToSet(registry) : x.key = Key(t) /\ x.conv = e
<1>1. PICK n \in Expired :
        LET r == Purged(n)
            mine == Entry(r, Key(t))
            entry == IF mine = {} THEN [key |-> Key(t), conv |-> t]
                     ELSE CHOOSE x \in mine : TRUE
        IN  /\ registry' = Append(IF mine = {} THEN Evicted(r) ELSE Without(r, mine),
                                  entry)
            /\ JoinConversation(t, entry.conv)
  BY DEF Join
<1> DEFINE r == Purged(n)
           mine == Entry(r, Key(t))
           entry == IF mine = {} THEN [key |-> Key(t), conv |-> t]
                    ELSE CHOOSE x \in mine : TRUE
           rest == IF mine = {} THEN Evicted(r) ELSE Without(r, mine)
<1>2. /\ r \in Seq(Entries) /\ ToSet(r) \subseteq ToSet(registry)
      /\ rest \in Seq(Entries) /\ ToSet(rest) \subseteq ToSet(registry)
  <2>1. /\ r \in Seq(Entries) /\ ToSet(r) \subseteq ToSet(registry)
        /\ Evicted(r) \in Seq(Entries) /\ ToSet(Evicted(r)) \subseteq ToSet(registry)
    BY RegistryShrinks
  <2> HIDE DEF r
  <2>2. Without(r, mine) \in Seq(Entries) /\ ToSet(Without(r, mine)) \subseteq ToSet(r)
    BY <2>1, PopFacts
  <2> QED BY <2>1, <2>2
<1>3. /\ entry \in Entries /\ entry.key = Key(t)
      /\ entry.conv = t \/ entry \in ToSet(registry)
  <2>1. CASE mine = {}
    <3>1. entry = [key |-> Key(t), conv |-> t]
      BY <2>1
    <3> QED BY <3>1, KeyFacts DEF IInv, Entries
  <2>2. CASE mine # {}
    <3>1. entry \in mine
      BY <2>2
    <3> HIDE DEF entry, r
    <3>2. entry \in ToSet(r) /\ entry.key = Key(t)
      BY <3>1 DEF Entry
    <3>3. ToSet(r) \subseteq Entries
      BY <1>2 DEF ToSet
    <3> QED BY <1>2, <3>2, <3>3
  <2> QED BY <2>1, <2>2
<1>4. registry' = Append(rest, entry) /\ JoinConversation(t, entry.conv)
  BY <1>1
<1> HIDE DEF entry, rest
<1>5. registry' \in Seq(Entries) /\ ToSet(registry') = ToSet(rest) \cup {entry}
  <2> DEFINE a == Append(rest, entry)
  <2>1. /\ a \in Seq(Entries) /\ DOMAIN a = 1..(Len(rest) + 1) /\ Len(rest) \in Nat
        /\ DOMAIN rest = 1..Len(rest)
        /\ \A i \in 1..Len(rest) : a[i] = rest[i]
        /\ a[Len(rest) + 1] = entry
    BY <1>2, <1>3
  <2> HIDE DEF a
  <2>2. \A i \in 1..(Len(rest) + 1) : i \in 1..Len(rest) \/ i = Len(rest) + 1
    BY <2>1
  <2>3. ToSet(a) = ToSet(rest) \cup {entry}
    BY <2>1, <2>2 DEF ToSet
  <2> QED BY <1>4, <2>1, <2>3 DEF a
<1>6. entry.conv \in Turns
  BY <1>3 DEF Entries
<1> QED BY <1>2, <1>3, <1>4, <1>5, <1>6

LEMMA JoinKeeps ==
  ASSUME IInv, NEW t \in Turns, Join(t)
  PROVE  IInv'
<1>1. PICK e \in Turns :
        /\ JoinConversation(t, e)
        /\ registry' \in Seq(Entries)
        /\ \A x \in ToSet(registry') :
             x \in ToSet(registry) \/ (x.key = Key(t) /\ x.conv = e)
        /\ \/ e = t
           \/ \E x \in ToSet(registry) : x.key = Key(t) /\ x.conv = e
  BY JoinFacts
<1>2. UNCHANGED <<req, holder, history, clearing, followups, past>>
  BY DEF Join
<1>3. pc[t] = "asked" /\ conv[t] = None /\ forgotten[t] = {} /\ t \in active
  BY <1>1 DEF JoinConversation, Leave, Moves, IInv, Places
<1>4. /\ conv' = [conv EXCEPT ![t] = e] /\ conv'[t] = e
      /\ \A u \in Turns \ {t} : conv'[u] = conv[u]
  BY <1>1 DEF JoinConversation, IInv, TypeOK
\* The conversation has a maker, and no Clear waits for it.
<1>5. /\ conv'[e] = e /\ Key(t) = Key(e)
      /\ e \notin resetting /\ ToSet(queue[e]) \cap Clears = {}
      /\ \A u \in past : conv[u] # e
      /\ \A u \in past : u # t
  <2>1. t \notin past /\ t # None
    BY <1>3, ConversationConstants DEF IInv, Cleared
  <2>2. CASE e = t
    <3>1. conv[t] # t
      BY <1>3, <2>1
    <3>2. queue[t] = <<>> /\ t \notin resetting /\ \A u \in Turns : conv[u] # t
      BY <3>1 DEF IInv, Made
    <3> QED BY <1>4, <2>1, <2>2, <3>2 DEF IInv, TypeOK, ToSet
  <2>3. CASE e # t
    <3>1. PICK x \in ToSet(registry) : x.key = Key(t) /\ x.conv = e
      BY <1>1, <2>3
    <3>2. conv[e] = e
      BY <3>1 DEF IInv, Made
    <3>3. Key(t) = Key(e)
      BY <3>1 DEF IInv, Owned
    <3>4. e \notin resetting /\ ToSet(queue[e]) \cap Clears = {}
      BY <3>1 DEF IInv, Detachment
    <3> QED BY <1>4, <2>1, <2>3, <3>1, <3>2, <3>3, <3>4 DEF IInv, Cleared
  <2> QED BY <2>2, <2>3
<1>6. \/ /\ Leave(t, "asked") /\ UNCHANGED <<queue, forgotten>>
      \/ /\ pc' = [pc EXCEPT ![t] = "waiting"]
         /\ forgotten' = [forgotten EXCEPT ![t] = past]
         /\ queue' = [queue EXCEPT ![e] = Append(@, t)]
         /\ UNCHANGED slots
  BY <1>1 DEF JoinConversation, Moves
<1>7. /\ \E to \in {"refused", "waiting"} : pc' = [pc EXCEPT ![t] = to]
      /\ active' \ {t} = active \ {t}
      /\ display' \in [Sessions -> NoOne] /\ displaced' \in [Turns -> NoOne]
      /\ active' \subseteq Turns
      /\ pc'[t] = "waiting" => active' = active
  <2>1. CASE Leave(t, "asked")
    BY <2>1, LeaveFacts DEF IInv, TypeOK
  <2>2. CASE pc' = [pc EXCEPT ![t] = "waiting"] /\ UNCHANGED slots
    BY <2>2 DEF IInv, TypeOK, slots
  <2> QED BY <1>6, <2>1, <2>2
\* The queue of the conversation gains the question, or nothing.
<1>8. /\ queue' \in [Turns -> Seq(Waiters)] /\ Queues' /\ Waits'
      /\ \A d \in Turns \ {e} : queue'[d] = queue[d]
      /\ ToSet(queue'[e]) \cap Clears = {}
  <2>1. queue \in [Turns -> Seq(Waiters)] /\ Orderly(queue[e]) /\ t \in Waiters
    BY DEF IInv, TypeOK, Queues, Waiters
  <2>2. \A d \in Turns : t \notin ToSet(queue[d])
    BY <1>3 DEF IInv, Waits
  <2>3. CASE Leave(t, "asked") /\ UNCHANGED <<queue, forgotten>>
    <3>1. pc' = [pc EXCEPT ![t] = "refused"]
      BY <2>3, LeaveFacts
    <3>2. Waits'
      <4> SUFFICES ASSUME NEW u \in Turns, NEW d \in Turns
                   PROVE  (u \in ToSet(queue[d])) <=> (pc'[u] = "waiting" /\ conv'[u] = d)
        BY <2>3 DEF Waits
      <4>1. CASE u = t
        BY <2>2, <3>1, <4>1 DEF IInv, TypeOK
      <4>2. CASE u # t
        BY <1>4, <3>1, <4>2 DEF IInv, TypeOK, Waits
      <4> QED BY <4>1, <4>2
    <3> QED BY <1>5, <2>1, <2>3, <3>2 DEF IInv, Queues
  <2>4. CASE /\ pc' = [pc EXCEPT ![t] = "waiting"]
             /\ queue' = [queue EXCEPT ![e] = Append(@, t)]
    <3> DEFINE a == Append(queue[e], t)
    <3>1. a \in Seq(Waiters) /\ Orderly(a) /\ ToSet(a) = ToSet(queue[e]) \cup {t}
      BY <1>5, <2>1, <2>2, AppendToQueue
    <3>2. queue' = [queue EXCEPT ![e] = a]
      BY <2>4
    <3> HIDE DEF a
    <3>3. /\ queue' \in [Turns -> Seq(Waiters)] /\ queue'[e] = a
          /\ \A d \in Turns \ {e} : queue'[d] = queue[d]
      BY <2>1, <3>1, <3>2
    <3>4. Queues'
      BY <3>1, <3>3 DEF IInv, Queues
    <3>5. Waits'
      <4> SUFFICES ASSUME NEW u \in Turns, NEW d \in Turns
                   PROVE  (u \in ToSet(queue'[d])) <=> (pc'[u] = "waiting" /\ conv'[u] = d)
        BY DEF Waits
      <4>1. (u \in ToSet(queue'[d])) <=> (u \in ToSet(queue[d]) \/ (u = t /\ d = e))
        BY <3>1, <3>3
      <4>2. CASE u = t
        BY <1>4, <2>2, <2>4, <4>1, <4>2 DEF IInv, TypeOK
      <4>3. CASE u # t
        BY <1>4, <2>4, <4>1, <4>3 DEF IInv, TypeOK, Waits
      <4> QED BY <4>2, <4>3
    <3>6. ToSet(queue'[e]) \cap Clears = {}
      BY <1>5, <3>1, <3>3, ConversationConstants
    <3> QED BY <3>3, <3>4, <3>5, <3>6
  <2> QED BY <1>6, <2>3, <2>4
<1>9. /\ forgotten' \in [Turns -> SUBSET Turns]
      /\ \A u \in Turns \ {t} : forgotten'[u] = forgotten[u]
      /\ forgotten'[t] \subseteq past
      /\ pc'[t] = "waiting" \/ forgotten'[t] = forgotten[t]
  <2>1. /\ forgotten \in [Turns -> SUBSET Turns] /\ past \in SUBSET Turns
        /\ DOMAIN pc = Turns
    BY DEF IInv, TypeOK
  <2>2. CASE UNCHANGED forgotten
    BY <1>3, <2>1, <2>2
  <2>3. CASE /\ pc' = [pc EXCEPT ![t] = "waiting"]
             /\ forgotten' = [forgotten EXCEPT ![t] = past]
    BY <2>1, <2>3
  <2> QED BY <1>6, <2>2, <2>3
<1>10. TypeOK'
  <2>1. pc' \in [Turns -> {"new", "asked", "waiting", "running", "closing",
                           "refused", "done"}]
    BY <1>7 DEF IInv, TypeOK
  <2>2. conv' \in [Turns -> NoOne]
    BY <1>4 DEF IInv, TypeOK, NoOne
  <2>3. queue' \in [Turns -> Seq(Turns \cup Clears)]
    BY <1>8 DEF Waiters
  <2> QED BY <1>1, <1>2, <1>7, <1>9, <2>1, <2>2, <2>3
          DEF IInv, TypeOK, history, clearing
<1>11. \A u \in Turns \ {t} : pc'[u] = pc[u]
  BY <1>7 DEF IInv, TypeOK
<1>12. pc'[t] \in {"refused", "waiting"}
  BY <1>7 DEF IInv, TypeOK
<1>13. Places'
  <2> SUFFICES ASSUME NEW u \in Turns
               PROVE  /\ pc'[u] \in {"new", "asked"} => conv'[u] = None /\ forgotten'[u] = {}
                      /\ pc'[u] \in {"waiting", "running"} => conv'[u] # None
                      /\ pc'[u] # "running" => prior[u] = {}
                      /\ pc'[u] \in {"asked", "waiting", "running"} => u \in active'
    BY <1>2 DEF Places, history
  <2>1. CASE u # t
    BY <1>4, <1>7, <1>9, <1>11, <2>1 DEF IInv, Places
  <2>2. CASE u = t
    <3>1. prior[t] = {} /\ e # None
      BY <1>3, ConversationConstants DEF IInv, Places
    <3> QED BY <1>3, <1>4, <1>7, <1>12, <2>2, <3>1
  <2> QED BY <2>1, <2>2
<1>14. Made'
  <2> SUFFICES ASSUME NEW d \in Turns, conv'[d] # d
               PROVE  /\ queue'[d] = <<>> /\ holder[d] = None /\ d \notin resetting
                      /\ \A x \in ToSet(registry') : x.conv # d
                      /\ \A u \in Turns : conv'[u] # d
    BY <1>2 DEF Made, clearing
  <2>1. d # e /\ conv[d] # d
    BY <1>3, <1>4, <1>5, ConversationConstants
  <2>2. /\ queue[d] = <<>> /\ holder[d] = None /\ d \notin resetting
        /\ \A x \in ToSet(registry) : x.conv # d
        /\ \A u \in Turns : conv[u] # d
    BY <2>1 DEF IInv, Made
  <2> QED BY <1>1, <1>4, <1>8, <2>1, <2>2
<1>15. Owned'
  <2>1. \A u \in Turns : Key(u)' = Key(u)
    BY <1>2 DEF Key
  <2>2. \A u \in Turns : conv'[u] # None => Key(u) = Key(conv'[u])
    BY <1>4, <1>5 DEF IInv, Owned
  <2>3. \A x \in ToSet(registry') : x.key = Key(x.conv)
    BY <1>1, <1>5 DEF IInv, Owned
  <2>4. \A d \in Turns : \A u \in payloads[d] : conv'[u] = d
    <3>1. \A d \in Turns : \A u \in payloads[d] : u \in Turns /\ conv[u] = d /\ u # t
      BY <1>3, ConversationConstants DEF IInv, TypeOK, Owned
    <3> QED BY <1>4, <3>1
  <2>5. \A u \in Turns : \A v \in prior[u] : conv'[v] = conv'[u]
    <3> SUFFICES ASSUME NEW u \in Turns, NEW v \in prior[u] PROVE conv'[v] = conv'[u]
      OBVIOUS
    <3>1. pc[u] = "running" /\ conv[u] # None
      BY DEF IInv, Places
    <3>2. v \in Turns /\ conv[v] = conv[u]
      BY DEF IInv, TypeOK, Owned
    <3>3. u # t /\ v # t
      BY <1>3, <3>1, <3>2
    <3> QED BY <1>4, <3>2, <3>3
  <2>6. \A u \in Turns : conv'[u] # None => conv'[u] \in Turns
    BY <1>4 DEF IInv, TypeOK, NoOne
  <2>7. \A x \in ToSet(registry') : x.conv \in Turns
    <3>1. \A s \in Seq(Entries) : \A i \in DOMAIN s : s[i] \in Entries
      OBVIOUS
    <3> QED BY <1>1, <3>1 DEF Entries, ToSet
  <2> QED BY <1>2, <2>1, <2>2, <2>3, <2>4, <2>5, <2>6, <2>7 DEF Owned, history
<1>16. Detachment'
  <2> SUFFICES ASSUME NEW d \in Turns
               PROVE  /\ d \in resetting => ToSet(queue'[d]) \cap Turns = {}
                      /\ d \in resetting \/ ToSet(queue'[d]) \cap Clears # {} =>
                           \A x \in ToSet(registry') : x.conv # d
    BY <1>2 DEF Detachment, clearing
  <2>1. CASE d = e
    BY <1>5, <1>8, <2>1
  <2>2. CASE d # e
    BY <1>1, <1>8, <2>2 DEF IInv, Detachment
  <2> QED BY <2>1, <2>2
<1>17. Cleared'
  <2>1. \A u \in past : u \in Turns /\ u # t /\ conv'[u] = conv[u] /\ conv[u] # None
    BY <1>4, <1>5 DEF IInv, TypeOK, Cleared
  <2>2. \A u \in Turns : forgotten'[u] \subseteq past
    BY <1>9 DEF IInv, Cleared
  <2>3. \A u \in Turns : \A v \in forgotten'[u] : conv'[v] # conv'[u]
    <3> SUFFICES ASSUME NEW u \in Turns, NEW v \in forgotten'[u]
                 PROVE  conv'[v] # conv'[u]
      OBVIOUS
    <3>1. v \in past
      BY <2>2
    <3>2. CASE u = t
      BY <1>4, <1>5, <2>1, <3>1, <3>2
    <3>3. CASE u # t
      BY <1>4, <1>9, <2>1, <3>1, <3>3 DEF IInv, Cleared
    <3> QED BY <3>2, <3>3
  <2>4. \A x \in ToSet(registry') : \A u \in past : conv'[u] # x.conv
    BY <1>1, <1>5, <2>1 DEF IInv, Cleared
  <2> QED BY <1>2, <2>1, <2>2, <2>3, <2>4 DEF Cleared
<1>18. OneAtATime'
  <2>1. \A u \in Turns : pc'[u] = "running" => u # t /\ pc[u] = "running"
    BY <1>11, <1>12
  <2> QED BY <1>2, <1>4, <2>1 DEF IInv, OneAtATime, clearing
<1> QED BY <1>7, <1>8, <1>10, <1>13, <1>14, <1>15, <1>16, <1>17, <1>18 DEF IInv

\* Who has a conversation has one that was made.
LEMMA MadeByOne ==
  ASSUME IInv, NEW t \in Turns, conv[t] # None
  PROVE  conv[t] \in Turns /\ conv[conv[t]] = conv[t]
BY DEF IInv, TypeOK, NoOne, Made

\* A queue that only loses members keeps its order and its promises.
LEMMA QueueShrinks ==
  ASSUME IInv, NEW e \in Turns, NEW q \in Seq(Waiters), Orderly(q),
         ToSet(q) \subseteq ToSet(queue[e]), queue' = [queue EXCEPT ![e] = q],
         UNCHANGED <<registry, conv>>,
         \A d \in resetting' :
           \/ d \in resetting
           \/ d = e /\ ToSet(q) \cap Turns = {} /\ ToSet(queue[e]) \cap Clears # {}
  PROVE  /\ queue' \in [Turns -> Seq(Waiters)] /\ Queues' /\ Detachment'
         /\ queue'[e] = q /\ \A d \in Turns \ {e} : queue'[d] = queue[d]
         /\ \A d \in Turns : conv[d] # d => queue'[d] = <<>>
<1>1. queue \in [Turns -> Seq(Waiters)]
  BY DEF IInv, TypeOK, Waiters
<1>2. /\ queue' \in [Turns -> Seq(Waiters)] /\ queue'[e] = q
      /\ \A d \in Turns \ {e} : queue'[d] = queue[d]
  BY <1>1
<1>3. Queues'
  BY <1>2 DEF IInv, Queues
<1>4. Detachment'
  BY <1>2 DEF IInv, Detachment
<1>5. \A d \in Turns : conv[d] # d => queue'[d] = <<>>
  <2>1. ASSUME queue[e] = <<>>
        PROVE  q = <<>>
    <3>1. ToSet(queue[e]) = {}
      BY <2>1 DEF ToSet
    <3>2. ASSUME q # <<>>
          PROVE  q[1] \in ToSet(q)
      <4>1. Len(q) \in Nat /\ Len(q) >= 1 /\ DOMAIN q = 1..Len(q)
        BY <3>2
      <4> QED BY <4>1 DEF ToSet
    <3> QED BY <3>1, <3>2
  <2> QED BY <1>2, <2>1 DEF IInv, Made
<1> QED BY <1>2, <1>3, <1>4, <1>5

\* The head of the queue takes the free lock.  The conversation is not being
\* reset: a question would not be in its queue.
LEMMA StartKeeps ==
  ASSUME IInv, NEW t \in Turns, Start(t)
  PROVE  IInv'
<1> DEFINE e == conv[t]
           q == Tail(queue[e])
<1>1. /\ pc[t] = "waiting" /\ pc' = [pc EXCEPT ![t] = "running"]
      /\ holder[e] = None /\ Head(queue[e]) = t
      /\ holder' = [holder EXCEPT ![e] = t]
      /\ queue' = [queue EXCEPT ![e] = q]
      /\ prior' = [prior EXCEPT ![t] = payloads[e]]
      /\ UNCHANGED <<req, slots, registry, conv, payloads, clearing, followups, ghosts>>
  BY DEF Start, Moves, Locked
<1>2. e \in Turns /\ conv[e] = e /\ e # None /\ t \in ToSet(queue[e])
  BY <1>1, MadeByOne DEF IInv, Places, Waits
<1>3. /\ queue[e] \in Seq(Waiters) /\ Orderly(queue[e]) /\ queue[e] # <<>>
  BY <1>2 DEF IInv, TypeOK, Queues, Waiters, ToSet
<1>4. /\ q \in Seq(Waiters) /\ Orderly(q)
      /\ ToSet(queue[e]) = ToSet(q) \cup {t} /\ t \notin ToSet(q)
  BY <1>1, <1>3, TailOfQueue, ConversationConstants
<1> HIDE DEF e, q
<1>5. /\ queue' \in [Turns -> Seq(Waiters)] /\ Queues' /\ Detachment'
      /\ queue'[e] = q /\ \A d \in Turns \ {e} : queue'[d] = queue[d]
      /\ \A d \in Turns : conv[d] # d => queue'[d] = <<>>
  BY <1>1, <1>2, <1>3, <1>4, QueueShrinks DEF clearing
<1>6. /\ \A u \in Turns \ {t} : pc'[u] = pc[u] /\ prior'[u] = prior[u]
      /\ pc'[t] = "running" /\ prior'[t] = payloads[e]
      /\ holder'[e] = t /\ \A d \in Turns \ {e} : holder'[d] = holder[d]
      /\ conv[t] = e
  BY <1>1, <1>2 DEF IInv, TypeOK, e
<1>7. TypeOK'
  <2>1. queue' \in [Turns -> Seq(Turns \cup Clears)]
    BY <1>5 DEF Waiters
  <2>2. prior' \in [Turns -> SUBSET Turns]
    BY <1>1, <1>2 DEF IInv, TypeOK
  <2>3. holder' \in [Turns -> NoOne \cup Clears]
    BY <1>1, <1>2 DEF IInv, TypeOK, NoOne
  <2>4. pc' \in [Turns -> {"new", "asked", "waiting", "running", "closing",
                           "refused", "done"}]
    BY <1>1 DEF IInv, TypeOK
  <2> QED BY <1>1, <2>1, <2>2, <2>3, <2>4
          DEF IInv, TypeOK, slots, clearing, ghosts
<1>8. Places'
  <2>1. UNCHANGED <<conv, forgotten, active>>
    BY <1>1 DEF slots, ghosts
  <2> QED BY <1>1, <1>2, <1>6, <2>1 DEF IInv, Places
<1>9. Made'
  BY <1>1, <1>2, <1>5, <1>6 DEF IInv, Made, clearing
<1>10. Owned'
  <2>1. \A u \in Turns : \A v \in prior'[u] : conv[v] = conv[u]
    BY <1>2, <1>6 DEF IInv, Owned
  <2> QED BY <1>1, <2>1 DEF IInv, Owned, Key
<1>11. Waits'
  <2> SUFFICES ASSUME NEW u \in Turns, NEW d \in Turns
               PROVE  (u \in ToSet(queue'[d])) <=> (pc'[u] = "waiting" /\ conv[u] = d)
    BY <1>1 DEF Waits
  <2>1. (u \in ToSet(queue[d])) <=> (pc[u] = "waiting" /\ conv[u] = d)
    BY DEF IInv, Waits
  <2>2. (u \in ToSet(queue'[d])) <=> (u \in ToSet(queue[d]) /\ ~(u = t /\ d = e))
    BY <1>4, <1>5
  <2>3. CASE u = t
    BY <1>6, <2>1, <2>2, <2>3
  <2>4. CASE u # t
    BY <1>6, <2>1, <2>2, <2>4
  <2> QED BY <2>3, <2>4
<1>12. Cleared'
  BY <1>1 DEF IInv, Cleared, ghosts
<1>13. OneAtATime'
  <2>1. e \notin resetting
    BY <1>2 DEF IInv, Detachment
  <2>2. \A u \in Turns : ~(pc[u] = "running" /\ conv[u] = e)
    BY <1>1, <1>2, ConversationConstants DEF IInv, OneAtATime, e
  <2>3. UNCHANGED <<conv, resetting>>
    BY <1>1 DEF clearing
  <2>4. ASSUME NEW d \in Turns, NEW u \in Turns, pc'[u] = "running", conv[u] = d
        PROVE  holder'[d] = u
    BY <1>6, <2>2, <2>4 DEF IInv, OneAtATime
  <2>5. ASSUME NEW d \in Turns, d \in resetting PROVE holder'[d] \notin Turns
    BY <1>6, <2>1, <2>5 DEF IInv, OneAtATime
  <2> QED BY <2>3, <2>4, <2>5 DEF OneAtATime
<1> QED BY <1>5, <1>7, <1>8, <1>9, <1>10, <1>11, <1>12, <1>13 DEF IInv

\* Who gives up is in no queue any more, and the others stand as they stood.
LEMMA GiveUpKeeps ==
  ASSUME IInv, NEW t \in Turns, GiveUp(t)
  PROVE  IInv'
<1> DEFINE e == conv[t]
           q == Without(queue[e], {t})
<1>1. /\ Leave(t, "waiting") /\ queue' = [queue EXCEPT ![e] = q]
      /\ UNCHANGED <<req, registry, conv, holder, history, clearing, followups, ghosts>>
  BY DEF GiveUp
<1>2. /\ pc[t] = "waiting" /\ pc' = [pc EXCEPT ![t] = "refused"]
      /\ display' \in [Sessions -> NoOne] /\ displaced' \in [Turns -> NoOne]
      /\ active' \subseteq Turns
      /\ active' \ {t} = active \ {t}
  BY <1>1, LeaveFacts
<1>3. e \in Turns /\ conv[e] = e /\ t \in ToSet(queue[e])
  BY <1>2, MadeByOne DEF IInv, Places, Waits
<1>4. queue[e] \in Seq(Waiters) /\ Orderly(queue[e]) /\ queue[e] # <<>>
  BY <1>3 DEF IInv, TypeOK, Queues, Waiters, ToSet
<1>5. q \in Seq(Waiters) /\ Orderly(q) /\ ToSet(q) = ToSet(queue[e]) \ {t}
  BY <1>4, LeaveQueue
<1> HIDE DEF e, q
<1>6. /\ queue' \in [Turns -> Seq(Waiters)] /\ Queues' /\ Detachment'
      /\ queue'[e] = q /\ \A d \in Turns \ {e} : queue'[d] = queue[d]
      /\ \A d \in Turns : conv[d] # d => queue'[d] = <<>>
  BY <1>1, <1>3, <1>4, <1>5, QueueShrinks DEF clearing
<1>7. /\ \A u \in Turns \ {t} : pc'[u] = pc[u]
      /\ pc'[t] = "refused" /\ conv[t] = e
  BY <1>2 DEF IInv, TypeOK, e
<1>8. TypeOK'
  <2>1. queue' \in [Turns -> Seq(Turns \cup Clears)]
    BY <1>6 DEF Waiters
  <2>2. pc' \in [Turns -> {"new", "asked", "waiting", "running", "closing",
                           "refused", "done"}]
    BY <1>2 DEF IInv, TypeOK
  <2> QED BY <1>1, <1>2, <2>1, <2>2 DEF IInv, TypeOK, history, clearing, ghosts
<1>9. Places'
  <2>1. UNCHANGED <<conv, forgotten, prior>>
    BY <1>1 DEF history, ghosts
  <2> QED BY <1>2, <1>7, <2>1 DEF IInv, Places
<1>10. Made'
  BY <1>1, <1>6 DEF IInv, Made, clearing
<1>11. Owned'
  BY <1>1 DEF IInv, Owned, Key, history
<1>12. Waits'
  <2> SUFFICES ASSUME NEW u \in Turns, NEW d \in Turns
               PROVE  (u \in ToSet(queue'[d])) <=> (pc'[u] = "waiting" /\ conv[u] = d)
    BY <1>1 DEF Waits
  <2>1. (u \in ToSet(queue[d])) <=> (pc[u] = "waiting" /\ conv[u] = d)
    BY DEF IInv, Waits
  <2>2. (u \in ToSet(queue'[d])) <=> (u \in ToSet(queue[d]) /\ ~(u = t /\ d = e))
    BY <1>5, <1>6
  <2>3. CASE u = t
    BY <1>7, <2>1, <2>2, <2>3
  <2>4. CASE u # t
    BY <1>7, <2>1, <2>2, <2>4
  <2> QED BY <2>3, <2>4
<1>13. Cleared'
  BY <1>1 DEF IInv, Cleared, ghosts
<1>14. OneAtATime'
  <2>1. \A u \in Turns : pc'[u] = "running" => pc[u] = "running"
    BY <1>7
  <2> QED BY <1>1, <2>1 DEF IInv, OneAtATime, clearing
<1> QED BY <1>2, <1>6, <1>8, <1>9, <1>10, <1>11, <1>12, <1>13, <1>14 DEF IInv

\* A turn ends and lets go of the lock, which was its own.
LEMMA FinishKeeps ==
  ASSUME IInv, NEW t \in Turns, Finish(t)
  PROVE  IInv'
<1> DEFINE e == conv[t]
<1>1. PICK to \in {"closing", "done"} : pc' = [pc EXCEPT ![t] = to]
  BY DEF Finish, Moves
<1>2. /\ pc[t] = "running" /\ Returns(t)
      /\ holder' = [holder EXCEPT ![e] = None]
      /\ prior' = [prior EXCEPT ![t] = {}]
      /\ forgotten' = [forgotten EXCEPT ![t] = {}]
      /\ UNCHANGED <<req, display, registry, conv, queue, payloads, clearing, followups,
                     past>>
  BY DEF Finish, Moves
<1>3. /\ active' \subseteq Turns
      /\ displaced' \in [Turns -> NoOne]
      /\ active' \ {t} = active \ {t}
  BY <1>2, ReturnFacts
<1>4. e \in Turns /\ conv[e] = e /\ holder[e] = t
  BY <1>2, MadeByOne DEF IInv, Places, OneAtATime
<1> HIDE DEF e
<1>5. /\ \A u \in Turns \ {t} : /\ pc'[u] = pc[u] /\ prior'[u] = prior[u]
                                /\ forgotten'[u] = forgotten[u]
      /\ pc'[t] = to /\ prior'[t] = {} /\ forgotten'[t] = {}
      /\ holder'[e] = None /\ \A d \in Turns \ {e} : holder'[d] = holder[d]
      /\ conv[t] = e
  BY <1>1, <1>2, <1>4 DEF IInv, TypeOK, e
<1>6. TypeOK'
  <2>1. /\ prior' \in [Turns -> SUBSET Turns] /\ forgotten' \in [Turns -> SUBSET Turns]
        /\ holder' \in [Turns -> NoOne \cup Clears]
    BY <1>2, <1>4 DEF IInv, TypeOK, NoOne
  <2>2. pc' \in [Turns -> {"new", "asked", "waiting", "running", "closing",
                           "refused", "done"}]
    BY <1>1 DEF IInv, TypeOK
  <2> QED BY <1>2, <1>3, <2>1, <2>2 DEF IInv, TypeOK, clearing
<1>7. Places'
  <2>1. \A u \in Turns \ {t} :
          /\ pc[u] \in {"new", "asked"} => conv[u] = None /\ forgotten[u] = {}
          /\ pc[u] \in {"waiting", "running"} => conv[u] # None
          /\ pc[u] # "running" => prior[u] = {}
          /\ pc[u] \in {"asked", "waiting", "running"} => u \in active
    BY DEF IInv, Places
  <2> QED BY <1>2, <1>3, <1>5, <2>1 DEF Places
<1>8. Made'
  BY <1>2, <1>4, <1>5 DEF IInv, Made, clearing
<1>9. Owned'
  <2>1. \A u \in Turns : prior'[u] \subseteq prior[u]
    BY <1>5
  <2> QED BY <1>2, <2>1 DEF IInv, Owned, Key
<1>10. Waits'
  <2>1. \A u \in Turns : pc'[u] = "waiting" <=> pc[u] = "waiting"
    BY <1>2, <1>5
  <2> QED BY <1>2, <2>1 DEF IInv, Waits
<1>11. Queues' /\ Detachment'
  BY <1>2 DEF IInv, Queues, Detachment, clearing
<1>12. Cleared'
  <2>1. \A u \in Turns : forgotten'[u] \subseteq forgotten[u]
    BY <1>5
  <2> QED BY <1>2, <2>1 DEF IInv, Cleared
<1>13. OneAtATime'
  <2>1. ASSUME NEW u \in Turns, pc'[u] = "running"
        PROVE  u # t /\ pc[u] = "running" /\ conv[u] # e
    BY <1>4, <1>5, <2>1 DEF IInv, OneAtATime
  <2>2. None \notin Turns
    BY ConversationConstants
  <2> QED BY <1>2, <1>5, <2>1, <2>2 DEF IInv, OneAtATime, clearing
<1> QED BY <1>3, <1>6, <1>7, <1>8, <1>9, <1>10, <1>11, <1>12, <1>13 DEF IInv

\* A Clear takes every entry of its session out of the registry and stands last
\* in the queues of their conversations.
LEMMA ClearKeeps ==
  ASSUME IInv, NEW c \in Clears, Clear(c)
  PROVE  IInv'
<1> DEFINE s == csession[c]
           gone == Detached(s)
           convs == {r.conv : r \in gone}
<1>1. /\ cpc' = [cpc EXCEPT ![c] = "clearing"]
      /\ registry' = Without(registry, gone)
      /\ pending' = [pending EXCEPT ![c] = convs]
      /\ queue' = [e \in Turns |-> IF e \in convs THEN Append(queue[e], c)
                                   ELSE queue[e]]
      /\ past' = past \cup {t \in Turns : conv[t] # None /\ Session(t) = s}
      /\ UNCHANGED <<pc, req, slots, conv, holder, history, csession,
                     resetting, followups, forgotten>>
  BY DEF Clear
<1>2. registry \in Seq(Entries) /\ ToSet(registry) \subseteq Entries
  BY DEF IInv, TypeOK, ToSet
<1>3. gone = {x \in ToSet(registry) : x.key[1] = s}
  BY DEF Detached, OfSession
<1>4. convs \in SUBSET Turns
  BY <1>2, <1>3 DEF Entries
<1>5. registry' \in Seq(Entries) /\ ToSet(registry') = ToSet(registry) \ gone
  BY <1>1, <1>2, WithoutFacts
<1> HIDE DEF gone
\* What stays in the registry is of other sessions.
<1>6. \A x \in ToSet(registry') :
        /\ x \in ToSet(registry) /\ x.conv \notin convs
        /\ x.conv \in Turns /\ Session(x.conv) # s /\ x.key = Key(x.conv)
  <2> SUFFICES ASSUME NEW x \in ToSet(registry')
               PROVE  /\ x \in ToSet(registry) /\ x.conv \notin convs
                      /\ x.conv \in Turns /\ Session(x.conv) # s /\ x.key = Key(x.conv)
    OBVIOUS
  <2>1. x \in ToSet(registry) /\ x \notin gone /\ x \in Entries /\ x.conv \in Turns
    BY <1>2, <1>5 DEF Entries
  <2>2. x.key = Key(x.conv) /\ x.key[1] # s
    BY <1>3, <2>1 DEF IInv, Owned
  <2>3. Session(x.conv) # s
    BY <2>1, <2>2, KeyFacts DEF IInv
  <2>4. ASSUME NEW r \in gone PROVE r.conv # x.conv
    BY <1>3, <2>2, <2>4 DEF IInv, Owned
  <2> QED BY <2>1, <2>2, <2>3, <2>4
<1>7. \A e \in Turns :
        /\ queue'[e] \in Seq(Waiters) /\ Orderly(queue'[e])
        /\ ToSet(queue'[e]) = ToSet(queue[e]) \cup (IF e \in convs THEN {c} ELSE {})
  <2> SUFFICES ASSUME NEW e \in Turns
               PROVE  /\ queue'[e] \in Seq(Waiters) /\ Orderly(queue'[e])
                      /\ ToSet(queue'[e]) =
                           ToSet(queue[e]) \cup (IF e \in convs THEN {c} ELSE {})
    OBVIOUS
  <2> HIDE DEF convs
  <2>1. queue[e] \in Seq(Waiters) /\ Orderly(queue[e]) /\ c \in Waiters /\ c \notin Turns
    BY ConversationConstants DEF IInv, TypeOK, Queues, Waiters
  <2>2. CASE e \in convs
    <3>1. queue'[e] = Append(queue[e], c)
      BY <1>1, <2>2
    <3> QED BY <2>1, <2>2, <3>1, AppendToQueue
  <2>3. CASE e \notin convs
    BY <1>1, <2>1, <2>3
  <2> QED BY <2>2, <2>3
<1>8. \A x \in ToSet(registry) : x.conv \in convs \/ x \in ToSet(registry')
  BY <1>5
<1>9. \A e \in convs : conv[e] = e
  BY <1>3, <1>4 DEF IInv, Made
<1> HIDE DEF convs
<1>10. TypeOK'
  <2>1. queue' \in [Turns -> Seq(Turns \cup Clears)]
    BY <1>1, <1>7 DEF Waiters
  <2>2. past' \subseteq Turns
    BY <1>1 DEF IInv, TypeOK
  <2>3. pending' \in [Clears -> SUBSET Turns]
    BY <1>1, <1>4 DEF IInv, TypeOK
  <2>4. cpc' \in [Clears -> {"new", "clearing", "done"}]
    BY <1>1 DEF IInv, TypeOK
  <2> QED BY <1>1, <1>5, <2>1, <2>2, <2>3, <2>4
          DEF IInv, TypeOK, slots, history
<1>11. Places' /\ OneAtATime'
  BY <1>1 DEF IInv, Places, OneAtATime, slots, history
<1>12. Made'
  <2>1. \A e \in Turns : conv[e] # e => queue'[e] = queue[e]
    BY <1>1, <1>9
  <2> QED BY <1>1, <1>6, <2>1 DEF IInv, Made
<1>13. Owned'
  BY <1>1, <1>6 DEF IInv, Owned, Key, history
<1>14. Waits'
  <2>1. \A t, e \in Turns : t \in ToSet(queue'[e]) <=> t \in ToSet(queue[e])
    BY <1>7, ConversationConstants
  <2> QED BY <1>1, <2>1 DEF IInv, Waits
<1>15. Queues'
  BY <1>7 DEF Queues
<1>16. Detachment'
  <2> SUFFICES ASSUME NEW e \in Turns
               PROVE  /\ e \in resetting => ToSet(queue'[e]) \cap Turns = {}
                      /\ e \in resetting \/ ToSet(queue'[e]) \cap Clears # {} =>
                           \A x \in ToSet(registry') : x.conv # e
    BY <1>1 DEF Detachment
  <2>1. ToSet(queue'[e]) \cap Turns = ToSet(queue[e]) \cap Turns
    BY <1>7, ConversationConstants
  <2>2. CASE e \in convs
    BY <1>6, <2>1, <2>2 DEF IInv, Detachment
  <2>3. CASE e \notin convs
    BY <1>6, <1>7, <2>1, <2>3 DEF IInv, Detachment
  <2> QED BY <2>2, <2>3
<1>17. Cleared'
  <2>1. \A u \in past' : conv[u] # None
    BY <1>1 DEF IInv, Cleared
  <2>2. ASSUME NEW x \in ToSet(registry'), NEW u \in past'
        PROVE  conv[u] # x.conv
    <3>1. CASE u \in past
      BY <1>6, <3>1 DEF IInv, Cleared
    <3>2. CASE u \in Turns /\ conv[u] # None /\ Session(u) = s
      <4>1. Key(u) = Key(conv[u]) /\ conv[u] \in Turns
        BY <3>2, MadeByOne DEF IInv, Owned
      <4>2. Session(conv[u]) = s
        BY <3>2, <4>1, KeyFacts DEF IInv, Session
      <4> QED BY <1>6, <4>2
    <3> QED BY <1>1, <3>1, <3>2
  <2> QED BY <1>1, <2>1, <2>2 DEF IInv, Cleared
<1> QED BY <1>10, <1>11, <1>12, <1>13, <1>14, <1>15, <1>16, <1>17 DEF IInv

\* The reset begins when the Clear is at the head of the queue: no question is
\* behind it, and none can find the conversation.
LEMMA ResetKeeps ==
  ASSUME IInv, NEW c \in Clears, NEW e \in Turns, Reset(c, e)
  PROVE  IInv'
<1> DEFINE q == Tail(queue[e])
<1>1. /\ queue[e] # <<>> /\ Head(queue[e]) = c /\ holder[e] = None
      /\ holder' = [holder EXCEPT ![e] = c]
      /\ queue' = [queue EXCEPT ![e] = q]
      /\ resetting' = resetting \cup {e}
      /\ UNCHANGED <<pc, req, slots, registry, conv, history, cpc, csession,
                     pending, followups, ghosts>>
  BY DEF Reset, Locked
<1>2. queue[e] \in Seq(Waiters) /\ Orderly(queue[e])
  BY DEF IInv, TypeOK, Queues, Waiters
<1>3. /\ q \in Seq(Waiters) /\ Orderly(q) /\ ToSet(q) \cap Turns = {}
      /\ ToSet(queue[e]) = ToSet(q) \cup {c}
  BY <1>1, <1>2, TailOfQueue, ConversationConstants
<1> HIDE DEF q
<1>4. ToSet(queue[e]) \cap Turns = {}
  BY <1>3, ConversationConstants
<1>5. /\ queue' \in [Turns -> Seq(Waiters)] /\ Queues' /\ Detachment'
      /\ queue'[e] = q /\ \A d \in Turns \ {e} : queue'[d] = queue[d]
      /\ \A d \in Turns : conv[d] # d => queue'[d] = <<>>
  BY <1>1, <1>3, QueueShrinks
<1>6. /\ holder' \in [Turns -> NoOne \cup Clears]
      /\ holder'[e] = c /\ \A d \in Turns \ {e} : holder'[d] = holder[d]
  BY <1>1 DEF IInv, TypeOK
<1>7. conv[e] = e
  BY <1>1 DEF IInv, Made
<1>8. TypeOK'
  <2>1. queue' \in [Turns -> Seq(Turns \cup Clears)]
    BY <1>5 DEF Waiters
  <2>2. resetting' \subseteq Turns
    BY <1>1 DEF IInv, TypeOK
  <2> QED BY <1>1, <1>6, <2>1, <2>2 DEF IInv, TypeOK, slots, history, ghosts
<1>9. Places' /\ Cleared'
  BY <1>1 DEF IInv, Places, Cleared, slots, history, ghosts
<1>10. Made'
  BY <1>1, <1>5, <1>6, <1>7 DEF IInv, Made
<1>11. Owned'
  BY <1>1 DEF IInv, Owned, Key, history
<1>12. Waits'
  <2>1. \A t, d \in Turns : t \in ToSet(queue'[d]) <=> t \in ToSet(queue[d])
    BY <1>3, <1>4, <1>5
  <2> QED BY <1>1, <2>1 DEF IInv, Waits
<1>13. OneAtATime'
  <2>1. \A t \in Turns : ~(pc[t] = "running" /\ conv[t] = e)
    BY <1>1, ConversationConstants DEF IInv, OneAtATime
  <2>2. c \notin Turns
    BY ConversationConstants
  <2> QED BY <1>1, <1>6, <2>1, <2>2 DEF IInv, OneAtATime
<1> QED BY <1>5, <1>8, <1>9, <1>10, <1>11, <1>12, <1>13 DEF IInv

\* The thread of a reset ends; no question held the lock meanwhile.
LEMMA ResetEndsKeeps ==
  ASSUME IInv, NEW e \in Turns, ResetEnds(e)
  PROVE  IInv'
<1>1. /\ e \in resetting /\ resetting' = resetting \ {e}
      /\ holder' = [holder EXCEPT ![e] = IF holder[e] \in Clears THEN None ELSE @]
      /\ pending' = [c \in Clears |-> IF holder[e] = c THEN pending[c] \ {e}
                                      ELSE pending[c]]
      /\ UNCHANGED <<pc, req, slots, registry, conv, queue, history, cpc,
                     csession, followups, ghosts>>
  BY DEF ResetEnds
<1>2. /\ holder' \in [Turns -> NoOne \cup Clears]
      /\ \A d \in Turns : \/ holder'[d] = holder[d]
                          \/ holder[d] \in Clears /\ holder'[d] = None
  BY <1>1 DEF IInv, TypeOK, NoOne
<1>3. TypeOK'
  <2>1. pending' \in [Clears -> SUBSET Turns]
    BY <1>1 DEF IInv, TypeOK
  <2>2. resetting' \subseteq Turns
    BY <1>1 DEF IInv, TypeOK
  <2> QED BY <1>1, <1>2, <2>1, <2>2 DEF IInv, TypeOK, slots, history, ghosts
<1>4. Places' /\ Cleared' /\ Waits' /\ Queues'
  BY <1>1 DEF IInv, Places, Cleared, Waits, Queues, slots, history, ghosts
<1>5. Detachment'
  BY <1>1 DEF IInv, Detachment
<1>6. Made'
  BY <1>1, <1>2 DEF IInv, Made
<1>7. Owned'
  BY <1>1 DEF IInv, Owned, Key, history
<1>8. OneAtATime'
  BY <1>1, <1>2, ConversationConstants DEF IInv, OneAtATime
<1> QED BY <1>3, <1>4, <1>5, <1>6, <1>7, <1>8 DEF IInv

\* After five seconds the Clear is gone from the queue, or from the lock; what
\* it began goes on.
LEMMA ResetTimesOutKeeps ==
  ASSUME IInv, NEW c \in Clears, NEW e \in Turns, ResetTimesOut(c, e)
  PROVE  IInv'
<1> DEFINE q == Without(queue[e], {c})
<1>1. /\ pending' = [pending EXCEPT ![c] = @ \ {e}]
      /\ queue' = [queue EXCEPT ![e] = q]
      /\ holder' = [holder EXCEPT ![e] = IF @ = c THEN None ELSE @]
      /\ UNCHANGED <<pc, req, slots, registry, conv, history, cpc, csession,
                     resetting, followups, ghosts>>
  BY DEF ResetTimesOut
<1>2. queue[e] \in Seq(Waiters) /\ Orderly(queue[e])
  BY DEF IInv, TypeOK, Queues, Waiters
<1>3. q \in Seq(Waiters) /\ Orderly(q) /\ ToSet(q) = ToSet(queue[e]) \ {c}
  BY <1>2, LeaveQueue
<1> HIDE DEF q
<1>4. /\ queue' \in [Turns -> Seq(Waiters)] /\ Queues' /\ Detachment'
      /\ queue'[e] = q /\ \A d \in Turns \ {e} : queue'[d] = queue[d]
      /\ \A d \in Turns : conv[d] # d => queue'[d] = <<>>
  BY <1>1, <1>3, QueueShrinks
<1>5. /\ holder' \in [Turns -> NoOne \cup Clears]
      /\ \A d \in Turns : \/ holder'[d] = holder[d]
                          \/ holder[d] \in Clears /\ holder'[d] = None
  BY <1>1 DEF IInv, TypeOK, NoOne
<1>6. TypeOK'
  <2>1. queue' \in [Turns -> Seq(Turns \cup Clears)]
    BY <1>4 DEF Waiters
  <2>2. pending' \in [Clears -> SUBSET Turns]
    BY <1>1 DEF IInv, TypeOK
  <2> QED BY <1>1, <1>5, <2>1, <2>2 DEF IInv, TypeOK, slots, history, ghosts
<1>7. Places' /\ Cleared'
  BY <1>1 DEF IInv, Places, Cleared, slots, history, ghosts
<1>8. Made'
  BY <1>1, <1>4, <1>5 DEF IInv, Made
<1>9. Owned'
  BY <1>1 DEF IInv, Owned, Key, history
<1>10. Waits'
  <2>1. \A t, d \in Turns : t \in ToSet(queue'[d]) <=> t \in ToSet(queue[d])
    BY <1>3, <1>4, ConversationConstants
  <2> QED BY <1>1, <2>1 DEF IInv, Waits
<1>11. OneAtATime'
  BY <1>1, <1>5, ConversationConstants DEF IInv, OneAtATime
<1> QED BY <1>4, <1>6, <1>7, <1>8, <1>9, <1>10, <1>11 DEF IInv

\* Nothing changes.
LEMMA StutterKeeps ==
  ASSUME IInv, UNCHANGED vars
  PROVE  IInv'
<1> USE DEF vars, slots, locks, history, clearing, ghosts
<1>1. TypeOK'
  BY DEF IInv, TypeOK
<1>2. Owned'
  BY DEF IInv, Owned, Key
<1>3. /\ Places' /\ Made' /\ Waits' /\ Queues' /\ Detachment' /\ Cleared'
      /\ OneAtATime'
  BY DEF IInv, Places, Made, Waits, Queues, Detachment, Cleared, OneAtATime
<1> QED BY <1>1, <1>2, <1>3 DEF IInv

\* The invariant is inductive.
LEMMA NextKeeps == IInv /\ [Next]_vars => IInv'
<1> SUFFICES ASSUME IInv, [Next]_vars PROVE IInv'
    OBVIOUS
<1>1. ASSUME NEW t \in Turns,
             \/ Ask(t) \/ AnswerEarly(t) \/ ProviderFails(t) \/ Join(t) \/ Start(t)
             \/ GiveUp(t) \/ ToolEnds(t) \/ Finish(t)
             \/ Answer(t) \/ ResetEnds(t)
      PROVE  IInv'
  BY <1>1, AskKeeps, AnswerEarlyKeeps, ProviderFailsKeeps, JoinKeeps, StartKeeps,
     GiveUpKeeps, ToolKeeps, FinishKeeps, AnswerKeeps, ResetEndsKeeps
<1>2. ASSUME NEW c \in Clears, ClearStep(c) PROVE IInv'
  BY <1>2, ClearKeeps, ClearAnswersKeeps, ResetKeeps, ResetTimesOutKeeps DEF ClearStep
<1>3. CASE UNCHANGED vars
  BY <1>3, StutterKeeps
<1> QED BY <1>1, <1>2, <1>3 DEF Next

\* The inductive invariant holds in every reachable state.
LEMMA Inductive == Spec => []IInv
BY InitIInv, NextKeeps, PTL DEF Spec

-----------------------------------------------------------------------------
(* Theorems.                                                                *)

\* Every variable keeps its type.
THEOREM TypeCorrect == Spec => []TypeOK
<1>1. IInv => TypeOK
  BY DEF IInv
<1> QED BY <1>1, Inductive, PTL

\* A conversation has one question at a time, the holder of its lock, and none
\* while provider.reset() runs on it, even after the Clear has timed out.
THEOREM OneQuestionAtATime == Spec => []OneAtATime
<1>1. IInv => OneAtATime
  BY DEF IInv
<1> QED BY <1>1, Inductive, PTL

\* What a question finds in its conversation was fetched for the same person,
\* in the same browser session and scope (_provider_key).
THEOREM HistoryIsOfOnePerson == Spec => []HistoryOfOnePerson
<1>1. ASSUME IInv, NEW t \in Turns, NEW u \in prior[t] PROVE req[u] = req[t]
  <2>1. pc[t] = "running" /\ conv[t] # None
    BY <1>1 DEF IInv, Places
  <2>2. u \in Turns /\ conv[u] = conv[t]
    BY <1>1 DEF IInv, TypeOK, Owned
  <2>3. Key(u) = Key(t)
    BY <1>1, <2>1, <2>2 DEF IInv, Owned
  <2> QED BY <1>1, <2>2, <2>3, KeyFacts DEF IInv
<1>2. IInv => HistoryOfOnePerson
  BY <1>1 DEF HistoryOfOnePerson
<1> QED BY <1>2, Inductive, PTL

\* Who gets a conversation after a Clear sees no result from before it, not
\* even of a question that runs on (reset_session).
THEOREM ClearLeavesNothing == Spec => []FreshAfterClear
<1>1. IInv => FreshAfterClear
  BY DEF IInv, Owned, Cleared, FreshAfterClear
<1> QED BY <1>1, Inductive, PTL

-----------------------------------------------------------------------------
(* One question: sequences.                                                 *)

\* What Newest keeps stands at the end of the sequence.
LEMMA NewestFacts ==
  ASSUME NEW S, NEW s \in Seq(S), NEW few \in Nat \ {0}
  PROVE  /\ Newest(s, few) \in Seq(S) /\ Len(Newest(s, few)) <= few
         /\ \E d \in Nat :
              /\ Len(Newest(s, few)) = Len(s) - d /\ (d < Len(s) \/ s = <<>>)
              /\ \A i \in 1..Len(Newest(s, few)) : Newest(s, few)[i] = s[i + d]
<1> DEFINE d == IF Len(s) > few THEN Len(s) - few ELSE 0
           cut == SubSeq(s, d + 1, Len(s))
<1>1. Len(s) \in Nat /\ d \in Nat /\ Len(s) - d <= few /\ (d < Len(s) \/ Len(s) = 0)
      /\ d <= Len(s)
  OBVIOUS
<1>2. Newest(s, few) = cut
  BY DEF Newest
<1>3. Len(s) = 0 => s = <<>>
  OBVIOUS
<1> HIDE DEF d
<1>4. /\ cut \in Seq(S) /\ Len(cut) = IF d + 1 <= Len(s) THEN Len(s) - (d + 1) + 1 ELSE 0
      /\ \A i \in 1..(Len(s) - (d + 1) + 1) : cut[i] = s[(d + 1) + i - 1]
  <2>1. d + 1 \in Int /\ Len(s) \in Int /\ \A i \in (d + 1)..Len(s) : s[i] \in S
    BY <1>1
  <2> QED BY <2>1, SubSeqProperties
<1> HIDE DEF cut
<1>5. Len(cut) = Len(s) - d /\ \A i \in 1..Len(cut) : cut[i] = s[i + d]
  BY <1>1, <1>4
<1> QED BY <1>1, <1>2, <1>3, <1>4, <1>5

\* The places of a set stand in InOrder.
LEMMA InOrderFacts ==
  ASSUME NEW places \in SUBSET Nat, IsFiniteSet(places)
  PROVE  /\ Cardinality(places) \in Nat
         /\ DOMAIN InOrder(places) = 1..Cardinality(places)
         /\ \A n \in DOMAIN InOrder(places) : InOrder(places)[n] \in places
<1>1. Cardinality(places) \in Nat
  BY FS_CardinalityType
<1>2. DOMAIN InOrder(places) = 1..Cardinality(places)
  BY DEF InOrder
<1>3. ASSUME NEW n \in 1..Cardinality(places) PROVE InOrder(places)[n] \in places
  <2>1. \E i \in places : Cardinality({j \in places : j <= i}) = n
    BY SomebodysPlace
  <2> QED BY <2>1 DEF InOrder
<1> QED BY <1>1, <1>2, <1>3

-----------------------------------------------------------------------------
(* One question: the transcript.                                            *)

\* A message after one with calls answers just those, and only such a message
\* answers anything: Acceptable, short of who speaks last.
Answering(t) ==
  /\ \A i \in 1..(Len(t) - 1) :
       t[i].role = "assistant" => t[i + 1].results = t[i].calls
  /\ \A i \in 2..Len(t) : t[i].results # {} => t[i - 1].role = "assistant"

\* A message may follow: it answers what the last one asked, and nothing else.
Follows(t, message) ==
  IF t # <<>> /\ Last(t).role = "assistant" THEN message.results = Last(t).calls
  ELSE message.results = {}

LEMMA AppendedAnswers ==
  ASSUME NEW t \in Seq(Messages), Answering(t), NEW message \in Messages,
         Follows(t, message)
  PROVE  LET s == Append(t, message)
         IN  s \in Seq(Messages) /\ s # <<>> /\ Answering(s) /\ Last(s) = message
<1> DEFINE s == Append(t, message)
<1>1. /\ s \in Seq(Messages) /\ Len(s) = Len(t) + 1 /\ Len(t) \in Nat
      /\ s[Len(t) + 1] = message /\ \A i \in 1..Len(t) : s[i] = t[i]
  OBVIOUS
<1>2. Last(s) = message /\ s # <<>>
  BY <1>1 DEF Last
<1>3. Len(t) > 0 => t # <<>> /\ Last(t) = t[Len(t)]
  BY DEF Last
<1> HIDE DEF s
<1>4. ASSUME NEW i \in 1..(Len(s) - 1), s[i].role = "assistant"
      PROVE  s[i + 1].results = s[i].calls
  <2>1. i \in 1..Len(t) /\ s[i] = t[i] /\ (i = Len(t) \/ i \in 1..(Len(t) - 1))
    BY <1>1
  <2>2. CASE i = Len(t)
    BY <1>1, <1>3, <1>4, <2>1, <2>2 DEF Follows
  <2>3. CASE i \in 1..(Len(t) - 1)
    <3>1. i + 1 \in 1..Len(t)
      BY <1>1, <2>3
    <3>2. s[i + 1] = t[i + 1]
      BY <1>1, <3>1
    <3> QED BY <1>4, <2>1, <2>3, <3>2 DEF Answering
  <2> QED BY <2>1, <2>2, <2>3
<1>5. ASSUME NEW i \in 2..Len(s), s[i].results # {}
      PROVE  s[i - 1].role = "assistant"
  <2>1. i - 1 \in 1..Len(t) /\ s[i - 1] = t[i - 1]
        /\ (i = Len(t) + 1 \/ i \in 2..Len(t))
    BY <1>1
  <2>2. CASE i = Len(t) + 1
    BY <1>1, <1>3, <1>5, <2>1, <2>2 DEF Follows
  <2>3. CASE i \in 2..Len(t)
    <3>1. s[i] = t[i]
      BY <1>1, <2>3
    <3> QED BY <1>5, <2>1, <2>3, <3>1 DEF Answering
  <2> QED BY <2>1, <2>2, <2>3
<1>6. Answering(s)
  BY <1>4, <1>5 DEF Answering
<1> QED BY <1>1, <1>2, <1>6 DEF s

LEMMA RecentAnswers ==
  ASSUME NEW t \in Seq(Messages), Answering(t)
  PROVE  /\ Recent(t) \in Seq(Messages) /\ Len(Recent(t)) <= Window
         /\ Answering(Recent(t))
         /\ t # <<>> => Recent(t) # <<>> /\ Last(Recent(t)) = Last(t)
<1> DEFINE r == Recent(t)
<1>1. Window \in Nat \ {0} /\ r = Newest(t, Window)
  BY WindowAssumption DEF Recent
<1> HIDE DEF r
<1>2. /\ r \in Seq(Messages) /\ Len(r) <= Window
      /\ \E d \in Nat : /\ Len(r) = Len(t) - d /\ (d < Len(t) \/ t = <<>>)
                       /\ \A i \in 1..Len(r) : r[i] = t[i + d]
  <2>1. Len(Newest(t, Window)) <= Window /\ Newest(t, Window) \in Seq(Messages)
    BY <1>1, NewestFacts, Zenon
  <2>2. \E d \in Nat : /\ Len(Newest(t, Window)) = Len(t) - d
                      /\ (d < Len(t) \/ t = <<>>)
                      /\ \A i \in 1..Len(Newest(t, Window)) :
                           Newest(t, Window)[i] = t[i + d]
    BY <1>1, NewestFacts, Zenon
  <2> QED BY <1>1, <2>1, <2>2, Zenon
<1>3. PICK d \in Nat : /\ Len(r) = Len(t) - d /\ (d < Len(t) \/ t = <<>>)
                       /\ \A i \in 1..Len(r) : r[i] = t[i + d]
  BY <1>2, Zenon
<1>4. Len(t) \in Nat /\ Len(r) \in Nat /\ Len(r) = Len(t) - d
  <2>1. r \in Seq(Messages) /\ Len(r) = Len(t) - d
    BY <1>2, <1>3, Zenon
  <2> QED BY <2>1
<1>5. ASSUME NEW i \in 1..(Len(r) - 1), r[i].role = "assistant"
      PROVE  r[i + 1].results = r[i].calls
  <2>1. i \in 1..Len(r) /\ i + 1 \in 1..Len(r) /\ i + d \in 1..(Len(t) - 1)
        /\ (i + 1) + d = (i + d) + 1
    BY <1>4
  <2>2. r[i] = t[i + d] /\ r[i + 1] = t[(i + 1) + d]
    BY <1>3, <2>1
  <2> QED BY <1>5, <2>1, <2>2 DEF Answering
<1>6. ASSUME NEW i \in 2..Len(r), r[i].results # {}
      PROVE  r[i - 1].role = "assistant"
  <2>1. i \in 1..Len(r) /\ i - 1 \in 1..Len(r) /\ i + d \in 2..Len(t)
        /\ (i - 1) + d = (i + d) - 1
    BY <1>4
  <2>2. r[i] = t[i + d] /\ r[i - 1] = t[(i - 1) + d]
    BY <1>3, <2>1
  <2> QED BY <1>6, <2>1, <2>2 DEF Answering
<1>7. ASSUME t # <<>> PROVE r # <<>> /\ Last(r) = Last(t)
  <2>1. d < Len(t)
    BY <1>3, <1>7
  <2>2. Len(r) \in 1..Len(r) /\ Len(r) + d = Len(t)
    BY <1>4, <2>1
  <2>3. r[Len(r)] = t[Len(t)]
    BY <1>3, <2>2
  <2> QED BY <2>2, <2>3 DEF Last
<1>8. Answering(r)
  BY <1>5, <1>6 DEF Answering
<1> QED BY <1>2, <1>7, <1>8 DEF r

\* A new message of the user closes what was left open (send_user).
LEMMA WithUserAnswers ==
  ASSUME NEW t \in Seq(Messages), Answering(t)
  PROVE  LET u == WithUser(t)
         IN  /\ u \in Seq(Messages) /\ Len(u) <= Window /\ Answering(u)
             /\ u # <<>> /\ Last(u).role = "user"
<1> DEFINE c == Closed(t)
           said == Message("user", {}, {})
           s == Append(c, said)
<1>1. said \in Messages /\ said.role = "user" /\ said.results = {}
  BY DEF Message, Messages
<1>2. t # <<>> => Last(t) \in Messages
  BY DEF Last
<1>3. c \in Seq(Messages) /\ Answering(c) /\ Follows(c, said)
  <2>1. CASE Open(t) = {}
    BY <1>1, <2>1 DEF Closed, Follows, Open
  <2>2. CASE Open(t) # {}
    <3> DEFINE back == Message("user", {}, Open(t))
    <3>1. t # <<>> /\ Last(t).role = "assistant" /\ Open(t) = Last(t).calls
      BY <2>2 DEF Open
    <3>2. back \in Messages /\ back.role = "user" /\ back.results = Open(t)
      BY <1>2, <3>1 DEF Message, Messages
    <3>3. Follows(t, back)
      BY <3>1, <3>2 DEF Follows
    <3>4. c = Append(t, back)
      BY <2>2 DEF Closed
    <3> HIDE DEF back, c, said
    <3>5. c \in Seq(Messages) /\ c # <<>> /\ Answering(c) /\ Last(c) = back
      BY <3>2, <3>3, <3>4, AppendedAnswers
    <3> QED BY <1>1, <3>2, <3>5 DEF Follows
  <2> QED BY <2>1, <2>2
<1>4. WithUser(t) = Recent(s)
  BY DEF WithUser
<1> HIDE DEF c, said
<1>5. s \in Seq(Messages) /\ s # <<>> /\ Answering(s) /\ Last(s) = said
  BY <1>1, <1>3, AppendedAnswers
<1> HIDE DEF s
<1> QED BY <1>1, <1>4, <1>5, RecentAnswers

\* The results of a batch answer the message that asked for them.
LEMMA WithResultsAnswers ==
  ASSUME NEW t \in Seq(Messages), Answering(t),
         t # <<>>, Last(t).role = "assistant"
  PROVE  LET u == WithResults(t, Last(t).calls)
         IN  /\ u \in Seq(Messages) /\ Len(u) <= Window /\ Answering(u)
             /\ u # <<>> /\ Last(u).role = "user"
<1> DEFINE back == Message("user", {}, Last(t).calls)
           s == Append(t, back)
<1>1. Last(t) \in Messages
  BY DEF Last
<1>2. /\ back \in Messages /\ back.role = "user" /\ Follows(t, back)
  BY <1>1 DEF Message, Messages, Follows
<1>3. WithResults(t, Last(t).calls) = Recent(s)
  BY DEF WithResults
<1> HIDE DEF back
<1>4. s \in Seq(Messages) /\ s # <<>> /\ Answering(s) /\ Last(s) = back
  BY <1>2, AppendedAnswers
<1> HIDE DEF s
<1> QED BY <1>2, <1>3, <1>4, RecentAnswers

\* An answer of the model, to a request that ended with the user.
LEMMA WithReplyAnswers ==
  ASSUME NEW t \in Seq(Messages), Answering(t), Len(t) <= Window,
         t # <<>>, Last(t).role = "user",
         NEW blocks \in BOOLEAN, NEW calls \in SUBSET Nat
  PROVE  LET u == WithReply(t, blocks, calls)
         IN  /\ u \in Seq(Messages) /\ Len(u) <= Window /\ Answering(u) /\ u # <<>>
             /\ blocks => Last(u).role = "assistant" /\ Last(u).calls = calls
<1>1. CASE ~blocks
  BY <1>1 DEF WithReply
<1>2. CASE blocks
  <2> DEFINE said == Message("assistant", calls, {})
             s == Append(t, said)
  <2>1. /\ said \in Messages /\ said.role = "assistant" /\ said.calls = calls
        /\ Follows(t, said)
    BY DEF Message, Messages, Follows
  <2>2. WithReply(t, blocks, calls) = Recent(s)
    BY <1>2 DEF WithReply
  <2> HIDE DEF said
  <2>3. s \in Seq(Messages) /\ s # <<>> /\ Answering(s) /\ Last(s) = said
    BY <2>1, AppendedAnswers
  <2> HIDE DEF s
  <2> QED BY <2>1, <2>2, <2>3, RecentAnswers
<1> QED BY <1>1, <1>2

-----------------------------------------------------------------------------
(* One question: what has to hold for a turn to keep its promises.          *)

\* The transcript: every message answers the one before; a request ends with
\* the user, and a batch is what the last message asked for.
Transcript ==
  /\ Answering(log)
  /\ stage = "send" => log # <<>> /\ Last(log).role = "user"
  /\ stage \in {"loop", "wiki"} /\ resp.calls # <<>> =>
       log # <<>> /\ Last(log).role = "assistant" /\ Last(log).calls = DOMAIN resp.calls
  /\ stage = "wiki" => resp.calls # <<>> /\ rounds < MaxRounds

\* What the flags of the turn say was brought by its tools.
FlagsOf(e, some, got, needs) ==
  /\ e.policy => "wiki_lookup" \in got /\ some
  /\ e.db => got \cap Databases # {} /\ some
  /\ e.covered # {} => e.db
  /\ e.covered \cap needs \cap Strict \subseteq got

Flags == FlagsOf(evidence, turnPayloads.some, found, question.needs)

\* Whatever may ground a figure was returned by a tool.
Grounding ==
  /\ turnPayloads.figures \subseteq produced /\ priorPayloads \subseteq produced
  /\ \A i \in 1..Len(kept) : kept[i] \subseteq produced

TurnInv ==
  /\ TurnTypeOK /\ Transcript /\ Flags /\ Grounding
  /\ stage # "idle" => answer = NoAnswer
  /\ EvidenceOfThisTurn /\ OnlyToolsGround

LEMMA TurnInitInv == TurnInit => TurnInv
<1> SUFFICES ASSUME TurnInit PROVE TurnInv
  OBVIOUS
<1>1. TurnTypeOK
  <2>1. NoResponse \in Responses
    BY TurnConstants DEF NoResponse, Responses
  <2>2. log \in Seq(Messages) /\ Len(log) <= Window
    BY WindowAssumption DEF TurnInit
  <2>3. kept \in Seq(SUBSET Figures) /\ Len(kept) <= PayloadsKept
        /\ asks \in Seq([at : Nat, figures : SUBSET Figures])
    BY TurnConstants DEF TurnInit
  <2>4. /\ evidence \in [db : BOOLEAN, policy : BOOLEAN, tried : BOOLEAN,
                   unscoped : BOOLEAN, remedy : BOOLEAN,
                   covered : SUBSET (Domains \cup {"adhoc"})]
        /\ answer \in [kind : {"none", "text", "question", "withheld"},
                 figures : SUBSET Figures, options : Nat, buttons : Nat]
        /\ turnPayloads \in [some : BOOLEAN, figures : SUBSET Figures]
    BY DEF TurnInit, NoEvidence, NoAnswer
  <2> QED BY <2>1, <2>2, <2>3, <2>4, TurnConstants DEF TurnInit, TurnTypeOK
<1>2. Transcript
  BY DEF TurnInit, Transcript, Answering
<1>3. Flags
  BY DEF TurnInit, Flags, FlagsOf, NoEvidence
<1>4. Grounding
  BY DEF TurnInit, Grounding
<1>5. EvidenceOfThisTurn /\ OnlyToolsGround
  BY DEF TurnInit, EvidenceOfThisTurn, OnlyToolsGround, NoAnswer
<1> QED BY <1>1, <1>2, <1>3, <1>4, <1>5 DEF TurnInit, TurnInv

\* What a call can bring.
LEMMA OutcomeFacts ==
  ASSUME NEW at \in SUBSET DOMAIN resp.calls, NEW o \in OutcomesAt(at),
         resp \in Responses, NEW i \in at
  PROVE  /\ o[i] \in [ok : BOOLEAN, figures : SUBSET Figures,
                      domains : SUBSET Domains, columns : BOOLEAN]
         /\ ~o[i].ok => o[i].figures = {} /\ o[i].domains = {}
         /\ o[i].domains # {} => resp.calls[i] = "control"
         /\ resp.calls[i] \in Tools /\ i \in Nat
<1>1. resp.calls[i] \in Tools /\ i \in Nat
  <2>1. resp.calls \in Seq(Tools)
    BY TurnConstants DEF Responses
  <2>2. DOMAIN resp.calls = 1..Len(resp.calls) /\ Len(resp.calls) \in Nat
    BY <2>1
  <2> QED BY <2>1, <2>2
<1>2. o[i] \in Outcomes(resp.calls[i])
  BY DEF OutcomesAt, Outcomes
<1>3. \/ o[i] = Fails
      \/ o[i] = [Fails EXCEPT !.columns = TRUE]
      \/ o[i] \in Brings(IF resp.calls[i] = "control" THEN SUBSET Domains ELSE {{}})
  BY <1>2 DEF Outcomes
<1>4. CASE o[i] = Fails
  BY <1>1, <1>4 DEF Fails
<1>5. CASE o[i] = [Fails EXCEPT !.columns = TRUE]
  BY <1>1, <1>5 DEF Fails
<1>6. CASE o[i] \in Brings(IF resp.calls[i] = "control" THEN SUBSET Domains ELSE {{}})
  <2>1. /\ o[i] \in Brings(SUBSET Domains)
        /\ o[i].domains # {} => resp.calls[i] = "control"
        /\ o[i].ok
    BY <1>6 DEF Brings
  <2> QED BY <1>1, <2>1 DEF Brings
<1> QED BY <1>3, <1>4, <1>5, <1>6

\* A success covers domains of the deployment, and only a database does.
LEMMA CoversFacts ==
  ASSUME NEW tool \in Tools, NEW o, o.domains \in SUBSET Domains,
         question \in Kinds
  PROVE  /\ Covers(tool, o) \in SUBSET (Domains \cup {"adhoc"})
         /\ Covers(tool, o) # {} => tool \in Databases
         /\ Covers(tool, o) \cap question.needs \cap Strict \subseteq o.domains
<1>1. question.needs \in SUBSET Domains
  BY TurnConstants
<1>2. CASE tool = "control"
  BY <1>2 DEF Covers, Databases
<1>3. CASE tool = "run_sql"
  BY <1>1, <1>3 DEF Covers, Databases
<1>4. CASE tool \notin {"control", "run_sql"}
  BY <1>4 DEF Covers
<1> QED BY <1>2, <1>3, <1>4

\* The bookkeeping of a phase keeps the types, and what the flags say and the
\* payloads ground is of the tools that ran.
LEMMA BookkeepFacts ==
  ASSUME TurnTypeOK, Flags, Grounding,
         NEW at \in SUBSET DOMAIN resp.calls, NEW o \in OutcomesAt(at),
         Bookkeep(at, o)
  PROVE  /\ evidence' \in [db : BOOLEAN, policy : BOOLEAN, tried : BOOLEAN,
                   unscoped : BOOLEAN, remedy : BOOLEAN,
                   covered : SUBSET (Domains \cup {"adhoc"})]
         /\ turnPayloads' \in [some : BOOLEAN, figures : SUBSET Figures]
         /\ kept' \in Seq(SUBSET Figures) /\ Len(kept') <= PayloadsKept
         /\ asks' \in Seq([at : Nat, figures : SUBSET Figures])
         /\ found' \subseteq Tools \cup Domains /\ produced' \subseteq Figures
         /\ FlagsOf(evidence', turnPayloads'.some, found', question.needs)
         /\ turnPayloads'.figures \subseteq produced'
         /\ produced \subseteq produced'
         /\ \A i \in 1..Len(kept') : kept'[i] \subseteq produced'
<1> DEFINE good == {i \in at : Grounds(resp.calls[i], o[i])}
           taken == {i \in at : resp.calls[i] = "ask_user" /\ o[i].ok}
           Got(tool) == {i \in at : resp.calls[i] = tool /\ o[i].ok}
           brought == [n \in DOMAIN InOrder(good) |-> o[InOrder(good)[n]].figures]
           new == [n \in DOMAIN InOrder(taken) |->
                     [at |-> InOrder(taken)[n],
                      figures |-> o[InOrder(taken)[n]].figures]]
           covered == UNION {Covers(resp.calls[i], o[i]) : i \in {j \in at : o[j].ok}}
<1>1. /\ turnPayloads' =
           [some |-> turnPayloads.some \/ good # {},
            figures |-> turnPayloads.figures \cup UNION {o[i].figures : i \in good}]
      /\ kept' = Newest(kept \o brought, PayloadsKept)
      /\ asks' = asks \o new
      /\ found' = found \cup {resp.calls[i] : i \in {j \in at : o[j].ok}}
                        \cup UNION {o[i].domains : i \in at}
      /\ produced' = produced \cup UNION {o[i].figures : i \in
                        {j \in at : resp.calls[j] # "ask_user"}}
  BY DEF Bookkeep
<1>2. /\ evidence'.policy = (evidence.policy \/ Got("wiki_lookup") # {})
      /\ evidence'.db = (evidence.db \/ \E tool \in Databases : Got(tool) # {})
      /\ evidence'.covered = evidence.covered \cup covered
  BY DEF Bookkeep, Recorded, TurnTypeOK
<1>3. \A i \in at :
        /\ o[i] \in [ok : BOOLEAN, figures : SUBSET Figures,
                     domains : SUBSET Domains, columns : BOOLEAN]
        /\ ~o[i].ok => o[i].figures = {} /\ o[i].domains = {}
        /\ o[i].domains # {} => resp.calls[i] = "control"
        /\ resp.calls[i] \in Tools /\ i \in Nat
  BY OutcomeFacts DEF TurnTypeOK
<1>4. ASSUME NEW i \in at
      PROVE  /\ Covers(resp.calls[i], o[i]) \in SUBSET (Domains \cup {"adhoc"})
             /\ Covers(resp.calls[i], o[i]) # {} => resp.calls[i] \in Databases
             /\ Covers(resp.calls[i], o[i]) \cap question.needs \cap Strict
                  \subseteq o[i].domains
  <2>1. resp.calls[i] \in Tools /\ o[i].domains \in SUBSET Domains
    BY <1>3
  <2> QED BY <2>1, CoversFacts DEF TurnTypeOK
<1>5. covered \in SUBSET (Domains \cup {"adhoc"})
  BY <1>4
<1>6. /\ good \in SUBSET at /\ taken \in SUBSET at
      /\ at \in SUBSET Nat /\ IsFiniteSet(at)
      /\ IsFiniteSet(good) /\ IsFiniteSet(taken)
  <2>1. resp.calls \in Seq(Tools)
    BY TurnConstants DEF TurnTypeOK, Responses
  <2>2. DOMAIN resp.calls = 1..Len(resp.calls) /\ Len(resp.calls) \in Nat
    BY <2>1
  <2>3. IsFiniteSet(1..Len(resp.calls))
    BY <2>2, FS_Interval
  <2>4. IsFiniteSet(at) /\ at \in SUBSET Nat
    BY <2>2, <2>3, FS_Subset
  <2>5. good \in SUBSET at /\ taken \in SUBSET at
    OBVIOUS
  <2> HIDE DEF good, taken
  <2> QED BY <2>4, <2>5, FS_Subset
<1>7. \A i \in at : /\ i \in good <=> o[i].ok /\ resp.calls[i] # "ask_user"
                    /\ i \in good => o[i].figures \subseteq produced'
  BY <1>1 DEF Grounds
<1>8. /\ evidence' \in [db : BOOLEAN, policy : BOOLEAN, tried : BOOLEAN,
                   unscoped : BOOLEAN, remedy : BOOLEAN,
                   covered : SUBSET (Domains \cup {"adhoc"})]
  <2> HIDE DEF covered
  <2>1. evidence.covered \cup covered \in SUBSET (Domains \cup {"adhoc"})
    BY <1>5 DEF TurnTypeOK
  <2>2. evidence' = Recorded(at, o)
    BY DEF Bookkeep
  <2>3. evidence'.covered \in SUBSET (Domains \cup {"adhoc"})
    BY <1>2, <2>1
  <2>4. DOMAIN evidence' = {"db", "policy", "tried", "unscoped", "remedy", "covered"}
    BY <2>2 DEF TurnTypeOK, Recorded
  <2>5. evidence' = [f \in DOMAIN evidence' |-> evidence'[f]]
    BY <2>2 DEF Recorded
  <2>6. evidence'.tried \in BOOLEAN /\ evidence'.unscoped \in BOOLEAN
    BY <2>2 DEF TurnTypeOK, Recorded
  <2>7. evidence'.remedy \in BOOLEAN
    BY <2>2 DEF TurnTypeOK, Recorded
  <2>8. evidence'.db \in BOOLEAN /\ evidence'.policy \in BOOLEAN
    BY <1>2 DEF TurnTypeOK
  <2> QED BY <2>3, <2>4, <2>5, <2>6, <2>7, <2>8
<1>9. turnPayloads' \in [some : BOOLEAN, figures : SUBSET Figures]
  <2>1. UNION {o[i].figures : i \in good} \in SUBSET Figures
    BY <1>3
  <2> HIDE DEF good
  <2> QED BY <1>1, <2>1 DEF TurnTypeOK
<1>10. found' \subseteq Tools \cup Domains /\ produced' \subseteq Figures
  <2>1. /\ {resp.calls[i] : i \in {j \in at : o[j].ok}} \subseteq Tools
        /\ UNION {o[i].domains : i \in at} \subseteq Domains
        /\ UNION {o[i].figures : i \in {j \in at : resp.calls[j] # "ask_user"}}
             \subseteq Figures
    BY <1>3
  <2> QED BY <1>1, <2>1 DEF TurnTypeOK
<1>11. turnPayloads'.figures \subseteq produced' /\ produced \subseteq produced'
  <2>1. UNION {o[i].figures : i \in good} \subseteq produced'
    BY <1>6, <1>7
  <2> HIDE DEF good
  <2> QED BY <1>1, <2>1 DEF Grounding
<1>12. /\ brought \in Seq(SUBSET Figures)
       /\ \A n \in 1..Len(brought) : brought[n] \subseteq produced'
  <2>1. /\ Cardinality(good) \in Nat /\ DOMAIN InOrder(good) = 1..Cardinality(good)
        /\ \A n \in DOMAIN InOrder(good) : InOrder(good)[n] \in good
    BY <1>6, InOrderFacts
  <2>2. \A i \in good : o[i].figures \in SUBSET Figures /\ o[i].figures \subseteq produced'
    BY <1>3, <1>6, <1>7
  <2> HIDE DEF good
  <2>3. brought = [n \in 1..Cardinality(good) |-> o[InOrder(good)[n]].figures]
    BY <2>1
  <2>4. \A n \in 1..Cardinality(good) :
          /\ o[InOrder(good)[n]].figures \in SUBSET Figures
          /\ o[InOrder(good)[n]].figures \subseteq produced'
    BY <2>1, <2>2
  <2> HIDE DEF brought
  <2>5. brought \in [1..Cardinality(good) -> SUBSET Figures]
    BY <2>3, <2>4
  <2>6. brought \in Seq(SUBSET Figures) /\ Len(brought) = Cardinality(good)
    BY <2>1, <2>5
  <2> QED BY <2>3, <2>4, <2>6
<1>13. asks' \in Seq([at : Nat, figures : SUBSET Figures])
  <2> DEFINE Asking == [at : Nat, figures : SUBSET Figures]
  <2>1. /\ Cardinality(taken) \in Nat /\ DOMAIN InOrder(taken) = 1..Cardinality(taken)
        /\ \A n \in DOMAIN InOrder(taken) : InOrder(taken)[n] \in taken
    BY <1>6, InOrderFacts
  <2>2. \A i \in taken : o[i].figures \in SUBSET Figures /\ i \in Nat
    BY <1>3, <1>6
  <2> HIDE DEF taken
  <2>3. \A n \in DOMAIN InOrder(taken) :
          [at |-> InOrder(taken)[n], figures |-> o[InOrder(taken)[n]].figures] \in Asking
    BY <2>1, <2>2
  <2> HIDE DEF Asking
  <2>4. new \in [1..Cardinality(taken) -> Asking]
    BY <2>1, <2>3
  <2> HIDE DEF new
  <2>5. new \in Seq(Asking)
    BY <2>1, <2>4
  <2>6. asks \in Seq(Asking)
    BY DEF TurnTypeOK, Asking
  <2>7. asks' \in Seq(Asking)
    BY <1>1, <2>5, <2>6
  <2> QED BY <2>7 DEF Asking
<1> HIDE DEF brought
<1>14. /\ kept' \in Seq(SUBSET Figures) /\ Len(kept') <= PayloadsKept
       /\ \A i \in 1..Len(kept') : kept'[i] \subseteq produced'
  <2> DEFINE all == kept \o brought
             P == SUBSET Figures
  <2>1. kept \in Seq(P) /\ brought \in Seq(P) /\ PayloadsKept \in Nat \ {0}
    BY <1>12, TurnConstants DEF TurnTypeOK
  <2>2. \A i \in 1..Len(kept) : kept[i] \subseteq produced'
    BY <1>11 DEF Grounding
  <2> HIDE DEF P
  <2>3. /\ all \in Seq(P) /\ Len(all) = Len(kept) + Len(brought)
        /\ Len(kept) \in Nat /\ Len(brought) \in Nat
        /\ \A i \in 1..Len(all) : all[i] = IF i <= Len(kept) THEN kept[i]
                                           ELSE brought[i - Len(kept)]
    BY <2>1
  <2>4. \A i \in 1..Len(all) : all[i] \subseteq produced'
    <3> TAKE i \in 1..Len(all)
    <3>1. CASE i <= Len(kept)
      BY <2>2, <2>3, <3>1
    <3>2. CASE ~(i <= Len(kept))
      <4>1. i - Len(kept) \in 1..Len(brought)
        BY <2>3, <3>2
      <4> QED BY <1>12, <2>3, <3>2, <4>1
    <3> QED BY <3>1, <3>2
  <2>5. kept' = Newest(all, PayloadsKept)
    BY <1>1
  <2> HIDE DEF all
  <2>6. kept' \in Seq(P) /\ Len(kept') <= PayloadsKept
    BY <2>1, <2>3, <2>5, NewestFacts, Zenon
  <2>7. \E d \in Nat : /\ Len(kept') = Len(all) - d /\ (d < Len(all) \/ all = <<>>)
                      /\ \A i \in 1..Len(kept') : kept'[i] = all[i + d]
    <3>1. \E d \in Nat : /\ Len(Newest(all, PayloadsKept)) = Len(all) - d
                        /\ (d < Len(all) \/ all = <<>>)
                        /\ \A i \in 1..Len(Newest(all, PayloadsKept)) :
                             Newest(all, PayloadsKept)[i] = all[i + d]
      <4>1. all \in Seq(P)
        BY <2>3
      <4> QED BY <2>1, <4>1, NewestFacts, Zenon
    <3> QED BY <2>5, <3>1, Zenon
  <2>8. PICK d \in Nat : /\ Len(kept') = Len(all) - d /\ (d < Len(all) \/ all = <<>>)
                        /\ \A i \in 1..Len(kept') : kept'[i] = all[i + d]
    BY <2>7, Zenon
  <2>9. Len(kept') = Len(all) - d /\ Len(all) \in Nat
    BY <2>3, <2>8
  <2>10. ASSUME NEW i \in 1..Len(kept') PROVE kept'[i] \subseteq produced'
    <3>1. i + d \in 1..Len(all)
      BY <2>9
    <3> QED BY <2>4, <2>8, <3>1
  <2> QED BY <2>6, <2>10 DEF P
<1>15. FlagsOf(evidence', turnPayloads'.some, found', question.needs)
  <2>1. turnPayloads'.some = (turnPayloads.some \/ good # {})
    BY <1>1
  <2>2. \A tool \in Databases \cup {"wiki_lookup"} :
          Got(tool) # {} => tool \in found' /\ good # {}
    BY <1>1, <1>7 DEF Databases
  <2>3. evidence'.policy => "wiki_lookup" \in found' /\ turnPayloads'.some
    BY <1>1, <1>2, <2>1, <2>2 DEF Flags, FlagsOf
  <2>4. evidence'.db => found' \cap Databases # {} /\ turnPayloads'.some
    BY <1>1, <1>2, <2>1, <2>2 DEF Flags, FlagsOf
  <2>5. covered # {} => evidence'.db
    <3> SUFFICES ASSUME covered # {} PROVE evidence'.db
      OBVIOUS
    <3>1. PICK i \in at : o[i].ok /\ Covers(resp.calls[i], o[i]) # {}
      OBVIOUS
    <3>2. resp.calls[i] \in Databases /\ i \in Got(resp.calls[i])
      BY <1>4, <3>1
    <3> QED BY <1>2, <3>2
  <2>6. covered \cap question.needs \cap Strict \subseteq found'
    <3> SUFFICES ASSUME NEW x \in covered, x \in question.needs, x \in Strict
                 PROVE  x \in found'
      OBVIOUS
    <3>1. PICK i \in at : x \in Covers(resp.calls[i], o[i])
      OBVIOUS
    <3>2. x \in o[i].domains
      BY <1>4, <3>1
    <3> QED BY <1>1, <3>2
  <2> HIDE DEF covered, Got, good
  <2>7. found \subseteq found'
    BY <1>1
  <2>8. evidence'.covered # {} => evidence'.db
    BY <1>2, <2>5 DEF Flags, FlagsOf
  <2>9. evidence'.covered \cap question.needs \cap Strict \subseteq found'
    BY <1>2, <2>6, <2>7 DEF Flags, FlagsOf
  <2> QED BY <2>3, <2>4, <2>8, <2>9 DEF FlagsOf
<1> QED BY <1>8, <1>9, <1>10, <1>11, <1>13, <1>14, <1>15

-----------------------------------------------------------------------------
(* One question: every step keeps the invariant.                            *)

\* Nothing is shown while a question is dealt with, and nothing is promised
\* of what is not shown.
LEMMA NoAnswerShown ==
  ASSUME (answer = NoAnswer)'
  PROVE  EvidenceOfThisTurn' /\ OnlyToolsGround'
BY DEF NoAnswer, EvidenceOfThisTurn, OnlyToolsGround

LEMMA NoResponseFacts ==
  NoResponse \in Responses /\ NoResponse.calls = <<>>
BY TurnConstants DEF NoResponse, Responses

\* A step of a turn that neither shows anything nor touches what was found.
LEMMA QuietStep ==
  ASSUME TurnInv, UNCHANGED <<question, evidence, turnPayloads, asks, grounds,
                              answer, turnGhosts, asked>>,
         answer = NoAnswer,
         stage' \in {"idle", "send", "loop", "wiki", "gates"},
         log' \in Seq(Messages), Len(log') <= Window, resp' \in Responses,
         rounds' \in 0..MaxRounds, nudges' \in 0..MaxNudges, Transcript'
  PROVE  TurnInv'
<1>1. TurnTypeOK'
  BY DEF TurnInv, TurnTypeOK, grounds, turnGhosts
<1>2. Flags' /\ Grounding'
  BY DEF TurnInv, Flags, FlagsOf, Grounding, grounds, turnGhosts
<1>3. EvidenceOfThisTurn' /\ OnlyToolsGround'
  BY NoAnswerShown
<1> QED BY <1>1, <1>2, <1>3 DEF TurnInv

LEMMA BeginTurnKeeps ==
  ASSUME TurnInv, NEW q \in Kinds, BeginTurn(q)
  PROVE  TurnInv'
<1>1. /\ log' \in Seq(Messages) /\ Len(log') <= Window /\ Answering(log')
      /\ log' # <<>> /\ Last(log').role = "user"
  BY WithUserAnswers DEF TurnInv, TurnTypeOK, Transcript, BeginTurn
<1>2. priorPayloads' \subseteq Figures /\ priorPayloads' \subseteq produced
  <2>1. /\ kept \in Seq(SUBSET Figures) /\ priorPayloads' = UNION ToSet(kept)
        /\ \A i \in 1..Len(kept) : kept[i] \subseteq produced
    BY DEF TurnInv, TurnTypeOK, Grounding, BeginTurn
  <2>2. ASSUME NEW f \in priorPayloads' PROVE f \in Figures /\ f \in produced
    <3>1. PICK p \in ToSet(kept) : f \in p
      BY <2>1, <2>2
    <3>2. PICK i \in 1..Len(kept) : p = kept[i]
      BY <2>1, <3>1 DEF ToSet
    <3> QED BY <2>1, <3>1, <3>2
  <2> QED BY <2>2
<1>3. /\ stage' = "send" /\ question' = q /\ asked' \in 0..Questions
      /\ resp' = NoResponse /\ rounds' = 0 /\ nudges' = 0
      /\ evidence' = NoEvidence /\ asks' = <<>> /\ answer' = NoAnswer
      /\ turnPayloads' = [some |-> FALSE, figures |-> {}] /\ found' = {}
      /\ kept' = kept /\ produced' = produced
  BY TurnConstants DEF TurnInv, TurnTypeOK, BeginTurn
<1>4. TurnTypeOK'
  <2>1. /\ NoEvidence \in [db : BOOLEAN, policy : BOOLEAN, tried : BOOLEAN,
                   unscoped : BOOLEAN, remedy : BOOLEAN,
                   covered : SUBSET (Domains \cup {"adhoc"})]
        /\ NoAnswer \in [kind : {"none", "text", "question", "withheld"},
                 figures : SUBSET Figures, options : Nat, buttons : Nat]
        /\ [some |-> FALSE, figures |-> {}] \in [some : BOOLEAN, figures : SUBSET Figures]
        /\ <<>> \in Seq([at : Nat, figures : SUBSET Figures])
    BY DEF NoEvidence, NoAnswer
  <2>2. 0 \in 0..MaxRounds /\ 0 \in 0..MaxNudges
    BY TurnConstants
  <2>3. kept \in Seq(SUBSET Figures) /\ Len(kept) <= PayloadsKept /\ produced \subseteq Figures
    BY DEF TurnInv, TurnTypeOK
  <2> QED BY <1>1, <1>2, <1>3, <2>1, <2>2, <2>3, NoResponseFacts DEF TurnTypeOK
<1>5. Transcript'
  BY <1>1, <1>3 DEF Transcript
<1>6. Flags'
  BY <1>3 DEF Flags, FlagsOf, NoEvidence
<1>7. Grounding'
  BY <1>2, <1>3 DEF TurnInv, Grounding
<1>8. EvidenceOfThisTurn' /\ OnlyToolsGround'
  BY <1>3, NoAnswerShown
<1> QED BY <1>3, <1>4, <1>5, <1>6, <1>7, <1>8 DEF TurnInv

\* What the model sends back, text, calls, a refusal or nothing.
LEMMA ReplyKeeps ==
  ASSUME TurnInv, stage = "send", stage' = "loop",
         NEW blocks \in BOOLEAN, NEW calls \in SUBSET Nat,
         log' = WithReply(log, blocks, calls), resp' \in Responses,
         resp'.calls # <<>> => blocks /\ calls = DOMAIN resp'.calls,
         UNCHANGED <<asked, question, turn, grounds, answer, turnGhosts>>
  PROVE  TurnInv'
<1>1. /\ log' \in Seq(Messages) /\ Len(log') <= Window /\ Answering(log')
      /\ log' # <<>>
      /\ blocks => Last(log').role = "assistant" /\ Last(log').calls = calls
  BY WithReplyAnswers DEF TurnInv, TurnTypeOK, Transcript
<1>2. Transcript'
  BY <1>1 DEF Transcript
<1>3. /\ UNCHANGED <<question, evidence, turnPayloads, asks, grounds, answer,
                     turnGhosts, asked, rounds, nudges>>
      /\ answer = NoAnswer /\ rounds \in 0..MaxRounds /\ nudges \in 0..MaxNudges
  BY DEF TurnInv, TurnTypeOK, turn
<1> QED BY <1>1, <1>2, <1>3, QuietStep

LEMMA RespondKeeps ==
  ASSUME TurnInv, NEW r \in Responses, Respond(r)
  PROVE  TurnInv'
<1>1. DOMAIN r.calls \in SUBSET Nat
  <2>1. r.calls \in Seq(Tools)
    BY TurnConstants DEF Responses
  <2> QED BY <2>1
<1> QED BY <1>1, ReplyKeeps DEF Respond

LEMMA DeclineKeeps ==
  ASSUME TurnInv, NEW blocks \in BOOLEAN, NEW n \in Nat, Decline(blocks, n)
  PROVE  TurnInv'
<1>1. 1..n \in SUBSET Nat
  OBVIOUS
<1> QED BY <1>1, ReplyKeeps, NoResponseFacts DEF Decline

\* The turn goes on to another place with what it has.
LEMMA MovesOn ==
  ASSUME TurnInv, stage # "idle", stage # "wiki", stage' \in {"idle", "gates"},
         UNCHANGED <<asked, question, log, resp, turn, grounds, answer, turnGhosts>>
  PROVE  TurnInv'
<1>1. Transcript'
  BY DEF TurnInv, Transcript
<1>2. /\ UNCHANGED <<question, evidence, turnPayloads, asks, grounds, answer,
                     turnGhosts, asked, rounds, nudges>>
      /\ answer = NoAnswer /\ rounds \in 0..MaxRounds /\ nudges \in 0..MaxNudges
      /\ log \in Seq(Messages) /\ Len(log) <= Window /\ resp \in Responses
  BY DEF TurnInv, TurnTypeOK, turn
<1> QED BY <1>1, <1>2, QuietStep

LEMMA NudgeKeeps ==
  ASSUME TurnInv, Nudge
  PROVE  TurnInv'
<1>1. /\ log' \in Seq(Messages) /\ Len(log') <= Window /\ Answering(log')
      /\ log' # <<>> /\ Last(log').role = "user"
  BY WithUserAnswers DEF TurnInv, TurnTypeOK, Transcript, Nudge
<1>2. /\ stage' = "send" /\ resp' = NoResponse /\ answer = NoAnswer
      /\ evidence' = [evidence EXCEPT !.remedy = FALSE]
      /\ UNCHANGED <<asked, question, turnPayloads, asks, kept, priorPayloads,
                     answer, found, produced>>
  BY DEF TurnInv, Nudge, grounds, turnGhosts
<1>3. rounds' \in 0..MaxRounds /\ nudges' \in 0..MaxNudges
  BY TurnConstants DEF TurnInv, TurnTypeOK, Nudge, NudgeDue
<1>4. Transcript'
  BY <1>1, <1>2 DEF Transcript
<1>5. TurnTypeOK'
  BY <1>1, <1>2, <1>3, NoResponseFacts DEF TurnInv, TurnTypeOK
<1>6. Flags' /\ Grounding'
  <2>1. evidence'.policy = evidence.policy /\ evidence'.db = evidence.db
        /\ evidence'.covered = evidence.covered
    BY <1>2 DEF TurnInv, TurnTypeOK
  <2> QED BY <1>2, <2>1 DEF TurnInv, Flags, FlagsOf, Grounding
<1>7. EvidenceOfThisTurn' /\ OnlyToolsGround'
  BY <1>2, NoAnswerShown
<1> QED BY <1>2, <1>4, <1>5, <1>6, <1>7 DEF TurnInv

\* A phase of a batch, wherever the turn goes from it.
LEMMA PhaseKeeps ==
  ASSUME TurnInv, NEW at \in SUBSET DOMAIN resp.calls, NEW o \in OutcomesAt(at),
         Bookkeep(at, o), UNCHANGED <<asked, question, nudges, priorPayloads, answer>>,
         answer = NoAnswer,
         stage' \in {"idle", "send", "loop", "wiki", "gates"},
         log' \in Seq(Messages), Len(log') <= Window, resp' \in Responses,
         rounds' \in 0..MaxRounds, Transcript'
  PROVE  TurnInv'
<1>1. /\ evidence' \in [db : BOOLEAN, policy : BOOLEAN, tried : BOOLEAN,
                   unscoped : BOOLEAN, remedy : BOOLEAN,
                   covered : SUBSET (Domains \cup {"adhoc"})]
      /\ turnPayloads' \in [some : BOOLEAN, figures : SUBSET Figures]
      /\ kept' \in Seq(SUBSET Figures) /\ Len(kept') <= PayloadsKept
      /\ asks' \in Seq([at : Nat, figures : SUBSET Figures])
      /\ found' \subseteq Tools \cup Domains /\ produced' \subseteq Figures
      /\ FlagsOf(evidence', turnPayloads'.some, found', question.needs)
      /\ turnPayloads'.figures \subseteq produced'
      /\ produced \subseteq produced'
      /\ \A i \in 1..Len(kept') : kept'[i] \subseteq produced'
  BY BookkeepFacts, Zenon DEF TurnInv
<1>2. TurnTypeOK'
  BY <1>1 DEF TurnInv, TurnTypeOK
<1>3. Flags'
  BY <1>1 DEF Flags
<1>4. Grounding'
  BY <1>1 DEF TurnInv, Grounding
<1>5. EvidenceOfThisTurn' /\ OnlyToolsGround'
  BY NoAnswerShown
<1> QED BY <1>2, <1>3, <1>4, <1>5 DEF TurnInv

LEMMA RunDatabasesKeeps ==
  ASSUME TurnInv, RunDatabases
  PROVE  TurnInv'
<1>1. PICK o \in OutcomesAt(DOMAIN resp.calls \ WikiCalls) :
        Bookkeep(DOMAIN resp.calls \ WikiCalls, o)
  BY DEF RunDatabases
<1>2. Transcript'
  BY DEF TurnInv, Transcript, RunDatabases, TurnTypeOK
<1>3. /\ UNCHANGED <<asked, question, log, resp, rounds, nudges, priorPayloads, answer>>
      /\ answer = NoAnswer /\ stage' = "wiki" /\ rounds \in 0..MaxRounds
      /\ log \in Seq(Messages) /\ Len(log) <= Window /\ resp \in Responses
  BY DEF TurnInv, TurnTypeOK, RunDatabases
<1> QED BY <1>1, <1>2, <1>3, PhaseKeeps

LEMMA RunWikisKeeps ==
  ASSUME TurnInv, RunWikis
  PROVE  TurnInv'
<1>1. WikiCalls \in SUBSET DOMAIN resp.calls
  BY DEF WikiCalls
<1>2. PICK o \in OutcomesAt(WikiCalls) : Bookkeep(WikiCalls, o)
  BY DEF RunWikis
<1>3. /\ stage = "wiki" /\ UNCHANGED <<asked, question, nudges, priorPayloads, answer>>
      /\ answer = NoAnswer
  BY DEF TurnInv, RunWikis
<1>4. /\ log \in Seq(Messages) /\ Answering(log) /\ Len(log) <= Window /\ log # <<>>
      /\ Last(log).role = "assistant" /\ Last(log).calls = DOMAIN resp.calls
      /\ rounds < MaxRounds /\ rounds \in 0..MaxRounds /\ resp \in Responses
  BY <1>3 DEF TurnInv, TurnTypeOK, Transcript
<1>5. CASE asks # <<>>
  <2>1. stage' = "gates" /\ UNCHANGED <<log, resp, rounds>>
    BY <1>5 DEF RunWikis
  <2>2. Transcript'
    BY <1>4, <2>1 DEF Transcript
  <2> QED BY <1>1, <1>2, <1>3, <1>4, <2>1, <2>2, PhaseKeeps
<1>6. CASE asks = <<>>
  <2>1. /\ stage' = "send" /\ rounds' = rounds + 1 /\ resp' = NoResponse
        /\ log' = WithResults(log, Last(log).calls)
    BY <1>4, <1>6 DEF RunWikis
  <2>2. /\ log' \in Seq(Messages) /\ Len(log') <= Window /\ Answering(log')
        /\ log' # <<>> /\ Last(log').role = "user"
    BY <1>4, <2>1, WithResultsAnswers
  <2>3. Transcript'
    BY <2>1, <2>2 DEF Transcript
  <2>4. rounds' \in 0..MaxRounds
    BY <1>4, <2>1, TurnConstants
  <2> QED BY <1>1, <1>2, <1>3, <2>1, <2>2, <2>3, <2>4, PhaseKeeps, NoResponseFacts
<1> QED BY <1>5, <1>6

\* The gates: a text passes them with the evidence of this turn, and then the
\* number guard has had payloads to compare its figures with.
LEMMA GatesKeep ==
  ASSUME TurnInv, Gates
  PROVE  TurnInv'
<1>1. /\ stage' = "idle" /\ resp' = NoResponse
      /\ UNCHANGED <<asked, question, log, rounds, nudges, evidence, turnPayloads,
                     asks, kept, priorPayloads, found, produced>>
  BY DEF Gates, turn, grounds, turnGhosts
<1>2. /\ question.intent \in Intents /\ resp.figures \in SUBSET Figures
      /\ Flags /\ turnPayloads.figures \cup priorPayloads \subseteq produced
  BY TurnConstants DEF TurnInv, TurnTypeOK, Responses, Grounding
<1>3. Buttons \in Nat /\ (asks # <<>> => Head(asks) \in [at : Nat, figures : SUBSET Figures])
  <2>1. asks \in Seq([at : Nat, figures : SUBSET Figures])
    BY DEF TurnInv, TurnTypeOK
  <2> DEFINE Asking == [at : Nat, figures : SUBSET Figures]
  <2> HIDE DEF Asking
  <2>2. asks \in Seq(Asking)
    BY <2>1 DEF Asking
  <2>3. asks # <<>> => Head(asks) \in Asking /\ asks[Len(asks)] \in Asking
    BY <2>2
  <2> QED BY <2>3 DEF Buttons, Last, Asking
<1>4. \/ answer' = [NoAnswer EXCEPT !.kind = "withheld", !.buttons = Buttons]
      \/ answer' = [NoAnswer EXCEPT !.kind = "withheld"]
      \/ /\ asks # <<>> /\ ~Withheld(Head(asks))
         /\ answer' = [kind |-> "question", figures |-> Head(asks).figures,
                       options |-> Head(asks).at, buttons |-> Buttons]
      \/ /\ ~Refused /\ Invented = {}
         /\ answer' = [NoAnswer EXCEPT !.kind = "text", !.figures = resp.figures]
  BY DEF Gates
<1>5. /\ answer' \in [kind : {"none", "text", "question", "withheld"},
                      figures : SUBSET Figures, options : Nat, buttons : Nat]
      /\ EvidenceOfThisTurn' /\ OnlyToolsGround'
  <2>1. CASE \/ answer' = [NoAnswer EXCEPT !.kind = "withheld", !.buttons = Buttons]
             \/ answer' = [NoAnswer EXCEPT !.kind = "withheld"]
    <3>1. answer'.kind = "withheld" /\ answer'.figures = {}
      BY <2>1 DEF NoAnswer
    <3>2. answer' \in [kind : {"none", "text", "question", "withheld"},
                      figures : SUBSET Figures, options : Nat, buttons : Nat]
      <4>1. Buttons \in Nat
        BY <1>3
      <4>2. CASE answer' = [NoAnswer EXCEPT !.kind = "withheld", !.buttons = Buttons]
        BY <4>1, <4>2 DEF NoAnswer
      <4>3. CASE answer' = [NoAnswer EXCEPT !.kind = "withheld"]
        BY <4>3 DEF NoAnswer
      <4> QED BY <2>1, <4>2, <4>3
    <3> QED BY <3>1, <3>2 DEF EvidenceOfThisTurn, OnlyToolsGround
  <2>2. CASE /\ asks # <<>> /\ ~Withheld(Head(asks))
             /\ answer' = [kind |-> "question", figures |-> Head(asks).figures,
                           options |-> Head(asks).at, buttons |-> Buttons]
    <3>1. Head(asks).figures \subseteq produced
      BY <1>2, <2>2 DEF Withheld
    <3> QED BY <1>1, <1>3, <2>2, <3>1 DEF EvidenceOfThisTurn, OnlyToolsGround
  <2>3. CASE /\ ~Refused /\ Invented = {}
             /\ answer' = [NoAnswer EXCEPT !.kind = "text", !.figures = resp.figures]
    <3>1. /\ answer' \in [kind : {"none", "text", "question", "withheld"},
                          figures : SUBSET Figures, options : Nat, buttons : Nat]
          /\ answer'.kind = "text" /\ answer'.figures = resp.figures
      BY <1>2, <2>3 DEF NoAnswer
    <3>2. /\ IntentIn({"data", "mixed"}) => evidence.db
          /\ IntentIn({"data", "mixed"}) => question.needs \cap Strict \subseteq found
          /\ IntentIn({"policy", "mixed"}) => evidence.policy
      <4>1. Relevant => /\ question.needs \subseteq evidence.covered
                        /\ question.needs \cap Strict \subseteq found
                        /\ evidence.db
        BY <1>2 DEF Relevant, Flags, FlagsOf
      <4>2. CASE question.intent = "data"
        BY <2>3, <4>1, <4>2 DEF Refused, DataOk, IntentIn
      <4>3. CASE question.intent = "mixed"
        BY <2>3, <4>1, <4>3 DEF Refused, IntentIn
      <4>4. CASE question.intent = "policy"
        BY <2>3, <4>4 DEF Refused, IntentIn
      <4>5. CASE question.intent \in {"technical", "general"}
        BY <4>5 DEF IntentIn
      <4> QED BY <1>2, <4>2, <4>3, <4>4, <4>5 DEF Intents
    <3>3. IntentIn({"data", "policy", "mixed"}) => resp.figures \subseteq produced
      <4>1. IntentIn({"data", "policy", "mixed"}) => evidence.db \/ evidence.policy
        BY <3>2 DEF IntentIn
      <4>2. turnPayloads.some => resp.figures \subseteq produced
        BY <1>2, <2>3 DEF Invented
      <4> QED BY <1>2, <4>1, <4>2 DEF Flags, FlagsOf
    <3>4. EvidenceOfThisTurn'
      <4>1. /\ evidence.policy => "wiki_lookup" \in found
            /\ evidence.db => found \cap Databases # {}
        BY <1>2 DEF Flags, FlagsOf
      <4> QED BY <1>1, <3>2, <4>1 DEF EvidenceOfThisTurn, IntentIn
    <3>5. OnlyToolsGround'
      BY <1>1, <3>1, <3>3 DEF OnlyToolsGround, IntentIn
    <3> QED BY <3>1, <3>4, <3>5
  <2> QED BY <1>4, <2>1, <2>2, <2>3
<1>6. TurnTypeOK'
  BY <1>1, <1>5, NoResponseFacts DEF TurnInv, TurnTypeOK
<1>7. Transcript' /\ Flags' /\ Grounding'
  BY <1>1 DEF TurnInv, Transcript, Flags, FlagsOf, Grounding
<1> QED BY <1>1, <1>5, <1>6, <1>7 DEF TurnInv

LEMMA TurnStutters ==
  ASSUME TurnInv, UNCHANGED turnVars
  PROVE  TurnInv'
<1>1. UNCHANGED <<stage, asked, question, log, resp, rounds, nudges, evidence,
                  turnPayloads, asks, kept, priorPayloads, answer, found, produced>>
  BY DEF turnVars, turn, grounds, turnGhosts
<1>2. TurnTypeOK' /\ Transcript' /\ Flags' /\ Grounding'
  BY <1>1 DEF TurnInv, TurnTypeOK, Transcript, Flags, FlagsOf, Grounding
<1>3. EvidenceOfThisTurn' /\ OnlyToolsGround'
  BY <1>1 DEF TurnInv, EvidenceOfThisTurn, OnlyToolsGround, IntentIn
<1> QED BY <1>1, <1>2, <1>3 DEF TurnInv

LEMMA TurnNextKeeps == TurnInv /\ [TurnNext]_turnVars => TurnInv'
<1> SUFFICES ASSUME TurnInv, [TurnNext]_turnVars PROVE TurnInv'
  OBVIOUS
<1>1. ASSUME NEW q \in Kinds, BeginTurn(q) PROVE TurnInv'
  BY <1>1, BeginTurnKeeps
<1>2. ASSUME NEW r \in Responses, Respond(r) PROVE TurnInv'
  BY <1>2, RespondKeeps
<1>3. ASSUME NEW b \in Batches, Decline(TRUE, Len(b)) PROVE TurnInv'
  <2>1. Len(b) \in Nat
    BY TurnConstants
  <2>2. PICK n \in Nat : n = Len(b)
    BY <2>1
  <2>3. Decline(TRUE, n)
    BY <1>3, <2>2
  <2> QED BY <2>3, DeclineKeeps
<1>4. ASSUME Decline(FALSE, 0) PROVE TurnInv'
  BY <1>4, DeclineKeeps
<1>5. ASSUME RequestFails \/ RoundsUsed \/ TextStands PROVE TurnInv'
  BY <1>5, MovesOn DEF RequestFails, RoundsUsed, TextStands
<1>6. ASSUME Nudge PROVE TurnInv'
  BY <1>6, NudgeKeeps
<1>7. ASSUME RunDatabases PROVE TurnInv'
  BY <1>7, RunDatabasesKeeps
<1>8. ASSUME RunWikis PROVE TurnInv'
  BY <1>8, RunWikisKeeps
<1>9. ASSUME Gates PROVE TurnInv'
  BY <1>9, GatesKeep
<1>10. ASSUME UNCHANGED turnVars PROVE TurnInv'
  BY <1>10, TurnStutters
<1> QED BY <1>1, <1>2, <1>3, <1>4, <1>5, <1>6, <1>7, <1>8, <1>9, <1>10
        DEF TurnNext, Advance

LEMMA TurnInductive == TurnSpec => []TurnInv
BY TurnInitInv, TurnNextKeeps, PTL DEF TurnSpec

-----------------------------------------------------------------------------
(* One question: theorems.                                                  *)

\* Every variable of a turn keeps its type.
THEOREM TurnTypeCorrect == TurnSpec => []TurnTypeOK
<1>1. TurnInv => TurnTypeOK
  BY DEF TurnInv
<1> QED BY <1>1, TurnInductive, PTL

\* Every request to the model answers the calls the last one left open, for
\* batches of any length and a transcript cut anywhere (_close_open_tool_calls).
THEOREM NoCallStaysOpen == TurnSpec => []CallsAnswered
<1>1. TurnInv => CallsAnswered
  BY DEF TurnInv, Transcript, CallsAnswered, Acceptable, Answering
<1> QED BY <1>1, TurnInductive, PTL

\* A text that is shown rests on what this question's own tools brought, not
\* on what an earlier one did (the evidence gates of agent_turn).
THEOREM TextRestsOnItsTurn == TurnSpec => []EvidenceOfThisTurn
<1>1. TurnInv => EvidenceOfThisTurn
  BY DEF TurnInv
<1> QED BY <1>1, TurnInductive, PTL

\* The echo of a question never grounds a figure, in whatever turn it is
\* repeated (clarification_violation, ungrounded_figures).
THEOREM EchoesGroundNothing == TurnSpec => []OnlyToolsGround
<1>1. TurnInv => OnlyToolsGround
  BY DEF TurnInv
<1> QED BY <1>1, TurnInductive, PTL
=============================================================================
