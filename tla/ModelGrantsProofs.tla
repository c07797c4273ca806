-------------------------- MODULE ModelGrantsProofs --------------------------
(* Theorems about ModelGrants, for every number of delegators and keys,    *)
(* every budget and every overrun.                                         *)
EXTENDS ModelGrants, FiniteSetTheorems, TLAPS

Row == [state : {"none", "reserved", "settled", "cancelled"},
        started : BOOLEAN, bound : Nat, actual : [Resource -> Nat]]
Grant == [revoked : BOOLEAN, expired : BOOLEAN,
          calls : Nat, used : [Resource -> Nat], reserved : [Resource -> Nat]]
Work == [at : {"idle", "reserved", "calling", "answered", "failed", "consuming"},
         key : Key \cup {None}, price : Nat \cup {None}, usage : Nat]

\* What a delegator works on, a key it has.
Keyed == \A i \in Invoker : work[i].at # "idle" => work[i].key \in Key

-----------------------------------------------------------------------------
(* Finite sets.                                                            *)

\* Among subsets of a finite set one has no other one inside it: what an
\* induction over finite sets comes down to.
LEMMA SmallestSubset ==
  ASSUME NEW T, IsFiniteSet(T), NEW F, F \subseteq SUBSET T, F # {}
  PROVE  \E S \in F : \A R \in F : R \subseteq S => R = S
<1>1. IsWellFoundedOn(StrictSubsetOrdering(T), SUBSET T)
  BY FS_StrictSubsetOrderingWellFounded, FS_FiniteSubsetsOfFinite, Zenon
<1>2. PICK S \in F : \A R \in F : <<R, S>> \notin StrictSubsetOrdering(T)
  BY <1>1, WFMin, Zenon
<1>3. ASSUME NEW R \in F, R \subseteq S, R # S
      PROVE  FALSE
  BY <1>2, <1>3 DEF StrictSubsetOrdering
<1> QED
  BY <1>3

\* A finite set of bounds has a largest one.
LEMMA LargestBound == Max(Bound) \in Bound
<1> DEFINE Least(S) == \E m \in S : \A y \in S : m >= y
           F == {S \in SUBSET Bound : S # {} /\ ~Least(S)}
<1>1. ASSUME F # {}
      PROVE  FALSE
  <2>1. PICK S \in F : \A R \in F : R \subseteq S => R = S
    <3>1. F \subseteq SUBSET Bound /\ IsFiniteSet(Bound)
      BY GrantAssumption
    <3> HIDE DEF F
    <3> QED
      BY <1>1, <3>1, SmallestSubset
  <2>2. PICK x \in S : TRUE
    BY <2>1
  <2>3. S \ {x} \notin F /\ S \subseteq Nat
    BY <2>1, <2>2, GrantAssumption
  <2>4. CASE S = {x}
    <3>1. x \in Nat /\ Least({x})
      BY <2>2, <2>3
    <3> QED
      BY <2>1, <2>4, <3>1
  <2>5. CASE S # {x}
    <3>1. PICK m \in S \ {x} : \A y \in S \ {x} : m >= y
      BY <2>1, <2>3, <2>5
    <3>2. CASE m >= x
      BY <2>2, <2>3, <3>1, <3>2
    <3>3. CASE ~(m >= x)
      <4>1. \A y \in S : x >= y
        BY <2>2, <2>3, <3>1, <3>3
      <4> QED
        BY <2>2, <4>1
    <3> QED
      BY <2>1, <3>2, <3>3
  <2> QED
    BY <2>4, <2>5
<1>2. Least(Bound)
  BY <1>1, GrantAssumption
<1> QED
  BY <1>2 DEF Max

-----------------------------------------------------------------------------
(* Sums over finite sets.                                                  *)

\* The element that a fold takes first, the function that it computes, and the
\* sum of f over T.
Pick(s) == CHOOSE x \in s : TRUE
IsFold(g, f, T) ==
  g = [s \in SUBSET T |-> IF s = {} THEN 0 ELSE f[Pick(s)] + g[s \ {Pick(s)}]]
Total(f, T) == (CHOOSE g : IsFold(g, f, T))[T]

LEMMA PickIn == \A s : s # {} => Pick(s) \in s
BY DEF Pick

\* What a fold computes of a set depends on nothing but the set.
LEMMA FoldsAgree ==
  ASSUME NEW A, NEW B, NEW f, NEW e, NEW g, NEW h, IsFold(g, f, A), IsFold(h, e, B),
         NEW S, IsFiniteSet(S), S \subseteq A, S \subseteq B, \A x \in S : f[x] = e[x]
  PROVE  g[S] = h[S]
<1> DEFINE F == {s \in SUBSET S : g[s] # h[s]}
<1>1. ASSUME F # {}
      PROVE  FALSE
  <2>1. PICK s \in F : \A t \in F : t \subseteq s => t = s
    <3>1. F \subseteq SUBSET S
      OBVIOUS
    <3> HIDE DEF F
    <3> QED
      BY <1>1, <3>1, SmallestSubset
  <2>2. /\ g[s] = IF s = {} THEN 0 ELSE f[Pick(s)] + g[s \ {Pick(s)}]
        /\ h[s] = IF s = {} THEN 0 ELSE e[Pick(s)] + h[s \ {Pick(s)}]
    BY <2>1 DEF IsFold
  <2>3. s # {} /\ Pick(s) \in s
    BY <2>1, <2>2, PickIn
  <2>4. g[s \ {Pick(s)}] = h[s \ {Pick(s)}] /\ f[Pick(s)] = e[Pick(s)]
    BY <2>1, <2>3
  <2> QED
    BY <2>1, <2>2, <2>3, <2>4
<1> QED
  BY <1>1

\* There is a fold of every finite set.
LEMMA FoldExists ==
  ASSUME NEW T, IsFiniteSet(T), NEW f
  PROVE  \E g : IsFold(g, f, T)
<1> DEFINE F == {U \in SUBSET T : ~ \E g : IsFold(g, f, U)}
<1>1. ASSUME F # {}
      PROVE  FALSE
  <2>1. PICK U \in F : \A t \in F : t \subseteq U => t = U
    <3>1. F \subseteq SUBSET T
      OBVIOUS
    <3> HIDE DEF F
    <3> QED
      BY <1>1, <3>1, SmallestSubset
  <2>2. \A t \in SUBSET U : t # U => \E g : IsFold(g, f, t)
    BY <2>1
  <2>3. \A t \in SUBSET U : t # U => IsFold(CHOOSE g : IsFold(g, f, t), f, t)
    BY <2>2
  <2> DEFINE G == [s \in SUBSET U |-> IF s = {} THEN 0 ELSE f[Pick(s)] + Total(f, s \ {Pick(s)})]
  <2>4. ASSUME NEW t \in SUBSET U, t # U
        PROVE  G[t] = Total(f, t)
    <3> DEFINE g == CHOOSE q : IsFold(q, f, t)
    <3>1. IsFold(g, f, t)
      BY <2>3, <2>4
    <3> HIDE DEF g
    <3>2. CASE t = {}
      BY <3>1, <3>2 DEF IsFold, Total, g
    <3>3. CASE t # {}
      <4> DEFINE r == t \ {Pick(t)}
                 h == CHOOSE q : IsFold(q, f, r)
      <4>1. r \in SUBSET U /\ r # U /\ IsFiniteSet(r) /\ r \subseteq t
        BY <2>1, <3>3, PickIn, FS_Subset
      <4>2. IsFold(h, f, r)
        BY <2>3, <4>1
      <4> HIDE DEF h
      <4>3. g[r] = h[r]
        BY <3>1, <4>1, <4>2, FoldsAgree
      <4>4. g[t] = f[Pick(t)] + g[r]
        BY <3>1, <3>3 DEF IsFold
      <4>5. Total(f, t) = g[t] /\ Total(f, r) = h[r]
        BY DEF Total, g, h
      <4> QED
        BY <3>3, <4>3, <4>4, <4>5
    <3> QED
      BY <3>2, <3>3
  <2>5. IsFold(G, f, U)
    <3>1. ASSUME NEW s \in SUBSET U, s # {}
          PROVE  G[s \ {Pick(s)}] = Total(f, s \ {Pick(s)})
      BY <2>4, <3>1, PickIn
    <3> QED
      BY <3>1 DEF IsFold
  <2> QED
    BY <2>1, <2>5
<1> QED
  BY <1>1

\* The sum as a fold computes it.
LEMMA TotalIs ==
  ASSUME NEW T, IsFiniteSet(T), NEW f, NEW g, IsFold(g, f, T)
  PROVE  g[T] = Total(f, T)
<1> DEFINE h == CHOOSE q : IsFold(q, f, T)
<1>1. IsFold(h, f, T)
  OBVIOUS
<1> HIDE DEF h
<1>2. g[T] = h[T]
  BY <1>1, FoldsAgree
<1> QED
  BY <1>2 DEF h, Total

LEMMA TotalEmpty ==
  ASSUME NEW f
  PROVE  Total(f, {}) = 0
<1>1. PICK g : IsFold(g, f, {})
  BY FS_EmptySet, FoldExists
<1>2. g[{}] = 0
  BY <1>1 DEF IsFold
<1> QED
  BY <1>1, <1>2, FS_EmptySet, TotalIs

\* Functions that agree on the set have the same sum.
LEMMA TotalSame ==
  ASSUME NEW T, IsFiniteSet(T), NEW f, NEW e, \A x \in T : f[x] = e[x]
  PROVE  Total(f, T) = Total(e, T)
<1>1. PICK g : IsFold(g, f, T)
  BY FoldExists
<1>2. PICK h : IsFold(h, e, T)
  BY FoldExists
<1>3. g[T] = h[T]
  BY <1>1, <1>2, FoldsAgree
<1> QED
  BY <1>1, <1>2, <1>3, TotalIs

\* Taking away the element that the fold takes first.
LEMMA TotalPick ==
  ASSUME NEW T, IsFiniteSet(T), T # {}, NEW f
  PROVE  Total(f, T) = f[Pick(T)] + Total(f, T \ {Pick(T)})
<1> DEFINE r == T \ {Pick(T)}
<1>1. PICK g : IsFold(g, f, T)
  BY FoldExists
<1>2. PICK h : IsFold(h, f, r)
  BY FoldExists, FS_Subset
<1>3. IsFiniteSet(r) /\ r \subseteq T
  BY FS_Subset
<1>4. g[r] = h[r]
  BY <1>1, <1>2, <1>3, FoldsAgree
<1>5. g[T] = f[Pick(T)] + g[r]
  BY <1>1 DEF IsFold
<1> QED
  BY <1>1, <1>2, <1>3, <1>4, <1>5, TotalIs

LEMMA TotalNat ==
  ASSUME NEW T, IsFiniteSet(T), NEW f, \A x \in T : f[x] \in Nat
  PROVE  Total(f, T) \in Nat
<1> DEFINE F == {S \in SUBSET T : Total(f, S) \notin Nat}
<1>1. ASSUME F # {}
      PROVE  FALSE
  <2>1. PICK S \in F : \A t \in F : t \subseteq S => t = S
    <3>1. F \subseteq SUBSET T
      OBVIOUS
    <3> HIDE DEF F
    <3> QED
      BY <1>1, <3>1, SmallestSubset
  <2>2. S # {} /\ IsFiniteSet(S)
    <3>1. Total(f, {}) \in Nat
      BY TotalEmpty
    <3> QED
      BY <2>1, <3>1, FS_Subset
  <2>3. Pick(S) \in S /\ Total(f, S) = f[Pick(S)] + Total(f, S \ {Pick(S)})
    BY <2>2, PickIn, TotalPick
  <2>4. Total(f, S \ {Pick(S)}) \in Nat /\ f[Pick(S)] \in Nat
    BY <2>1, <2>3
  <2> QED
    BY <2>1, <2>3, <2>4
<1> QED
  BY <1>1

\* Any element may be taken away first.
LEMMA TotalRemove ==
  ASSUME NEW T, IsFiniteSet(T), NEW f, \A x \in T : f[x] \in Nat, NEW y \in T
  PROVE  Total(f, T) = f[y] + Total(f, T \ {y})
<1> DEFINE F == {S \in SUBSET T : \E x \in S : Total(f, S) # f[x] + Total(f, S \ {x})}
<1>1. ASSUME F # {}
      PROVE  FALSE
  <2>1. PICK S \in F : \A t \in F : t \subseteq S => t = S
    <3>1. F \subseteq SUBSET T
      OBVIOUS
    <3> HIDE DEF F
    <3> QED
      BY <1>1, <3>1, SmallestSubset
  <2>2. PICK x \in S : Total(f, S) # f[x] + Total(f, S \ {x})
    BY <2>1
  <2>3. PICK p \in S : p = Pick(S)
    BY <2>2, PickIn
  <2>4. S \subseteq T /\ IsFiniteSet(S) /\ S # {} /\ f[x] \in Nat /\ f[p] \in Nat
    BY <2>1, <2>2, FS_Subset
  <2>5. Total(f, S) = f[p] + Total(f, S \ {p})
    BY <2>3, <2>4, TotalPick
  <2>6. p # x
    BY <2>2, <2>5
  <2>7. S \ {p} \notin F /\ S \ {x} \notin F
    BY <2>1, <2>2, <2>3
  <2>8. Total(f, S \ {p}) = f[x] + Total(f, (S \ {p}) \ {x})
    BY <2>2, <2>4, <2>6, <2>7
  <2>9. Total(f, S \ {x}) = f[p] + Total(f, (S \ {x}) \ {p})
    BY <2>4, <2>6, <2>7
  <2>10. (S \ {p}) \ {x} = (S \ {x}) \ {p} /\ Total(f, (S \ {p}) \ {x}) \in Nat
    <3>1. IsFiniteSet((S \ {p}) \ {x}) /\ \A z \in (S \ {p}) \ {x} : f[z] \in Nat
      BY <2>4, FS_Subset
    <3> QED
      BY <3>1, TotalNat
  <2> QED
    BY <2>2, <2>4, <2>5, <2>8, <2>9, <2>10
<1> QED
  BY <1>1

-----------------------------------------------------------------------------
(* Types.                                                                  *)

LEMMA AmountIsNat == Amount \subseteq Nat
BY GrantAssumption, LargestBound DEF Amount

\* A settlement keeps grant and row in their domains.
LEMMA SettleTypes ==
  ASSUME GrantTypeOK, NEW k \in Key, NEW price \in Nat \cup {None}, NEW usage \in Nat,
         SettleRow(k, price, usage)
  PROVE  grant' \in Grant /\ reservation' \in [Key -> Row]
<1> DEFINE row == reservation[k]
           cost == IF price # None THEN price ELSE IF row.started THEN row.bound ELSE 0
           actual == [r \in Resource |-> IF r = "money" THEN cost ELSE usage]
           used == [r \in Resource |-> grant.used[r] + actual[r]]
           breach == \E r \in Resource : actual[r] > row.bound \/ used[r] > Budget
<1>1. row \in Row /\ grant \in Grant
  BY DEF GrantTypeOK, Row, Grant
<1>2. cost \in Nat
  BY <1>1 DEF Row
<1>3. actual \in [Resource -> Nat]
  <2> HIDE DEF cost
  <2> QED
    BY <1>2
<1>4. used \in [Resource -> Nat]
  <2> HIDE DEF actual
  <2> QED
    BY <1>1, <1>3 DEF Grant
<1>5. Unreserved(row.bound) \in [Resource -> Nat]
  BY <1>1 DEF Unreserved, Less, Row, Grant
<1>6. /\ grant' = [grant EXCEPT !.used = used, !.reserved = Unreserved(row.bound),
                                !.revoked = @ \/ breach]
      /\ reservation' = [reservation EXCEPT ![k] = [@ EXCEPT !.state = "settled", !.actual = actual]]
  BY DEF SettleRow
<1> HIDE DEF row, cost, actual, used, breach
<1>7. (grant.revoked \/ breach) \in BOOLEAN
  BY <1>1 DEF Grant
<1>8. grant' \in Grant
  BY <1>1, <1>4, <1>5, <1>6, <1>7 DEF Grant
<1>9. reservation' \in [Key -> Row]
  BY <1>3, <1>6 DEF GrantTypeOK, Row
<1> QED
  BY <1>8, <1>9

\* So does a cancellation.
LEMMA CancelTypes ==
  ASSUME GrantTypeOK, NEW k \in Key, CancelRow(k)
  PROVE  grant' \in Grant /\ reservation' \in [Key -> Row]
<1>1. Unreserved(reservation[k].bound) \in [Resource -> Nat]
  BY DEF Unreserved, Less, GrantTypeOK
<1>2. grant' \in Grant
  BY <1>1 DEF CancelRow, Grant, GrantTypeOK
<1>3. reservation' \in [Key -> Row]
  BY DEF CancelRow, Row, GrantTypeOK
<1> QED
  BY <1>2, <1>3

\* A delegator that goes on, or is done.
LEMMA BecomesTypes ==
  ASSUME GrantTypeOK, Keyed, NEW i \in Invoker,
         NEW from \in {"reserved", "calling", "answered", "failed", "consuming"},
         NEW to \in {"idle", "calling", "failed", "consuming"}, Becomes(i, from, to)
  PROVE  /\ work' \in [Invoker -> Work] /\ Keyed' /\ work[i].key \in Key /\ work[i].at = from
         /\ \A j \in Invoker \ {i} : work'[j] = work[j]
         /\ work'[i].at = to /\ (to # "idle" => work'[i] = [work[i] EXCEPT !.at = to])
<1>1. work \in [Invoker -> Work] /\ work[i].at = from /\ work[i].key \in Key
  BY DEF GrantTypeOK, Work, Becomes, Keyed
<1>2. Idle \in Work
  BY DEF Idle, Work
<1>3. CASE to = "idle"
  BY <1>1, <1>2, <1>3 DEF Becomes, Keyed, Idle
<1>4. CASE to # "idle"
  BY <1>1, <1>4 DEF Becomes, Keyed, Work
<1> QED
  BY <1>3, <1>4

LEMMA TypeStep ==
  ASSUME GrantTypeOK, Keyed, [Next]_vars
  PROVE  GrantTypeOK' /\ Keyed'
<1>0. /\ grant \in Grant /\ reservation \in [Key -> Row] /\ work \in [Invoker -> Work]
      /\ billed \in [Key -> Nat] /\ crashes \in Nat /\ reuse \in Reuse
  BY DEF GrantTypeOK, Grant, Row, Work
<1>a. ASSUME grant' \in Grant, reservation' \in [Key -> Row], work' \in [Invoker -> Work],
             billed' \in [Key -> Nat], crashes' \in Nat, reuse' \in Reuse, Keyed'
      PROVE  GrantTypeOK' /\ Keyed'
  BY <1>a DEF GrantTypeOK, Grant, Row, Work
<1>1. CASE Revoke \/ GrantExpires
  <2>1. grant' \in Grant
    BY <1>0, <1>1 DEF Revoke, GrantExpires, Grant
  <2> QED
    BY <1>0, <1>1, <1>a, <2>1 DEF Revoke, GrantExpires, around, Keyed
<1>2. ASSUME NEW i \in Invoker, NEW k \in Key, NEW b \in Bound, ReserveNew(i, k, b)
      PROVE  GrantTypeOK' /\ Keyed'
  <2>1. b \in Nat
    BY GrantAssumption
  <2>2. grant' \in Grant
    <3> DEFINE reserved == [r \in Resource |-> grant.reserved[r] + b]
    <3>1. reserved \in [Resource -> Nat] /\ grant.calls + 1 \in Nat
      BY <1>0, <2>1 DEF Grant
    <3>2. grant' = [grant EXCEPT !.calls = grant.calls + 1, !.reserved = reserved]
      BY <1>2 DEF ReserveNew
    <3> HIDE DEF reserved
    <3> QED
      BY <1>0, <3>1, <3>2 DEF Grant
  <2>3. reservation' \in [Key -> Row]
    BY <1>0, <1>2, <2>1 DEF ReserveNew, Row, Zero
  <2>4. work' \in [Invoker -> Work] /\ Keyed'
    BY <1>0, <1>2 DEF ReserveNew, Work, Idle, Keyed
  <2> QED
    BY <1>0, <1>2, <1>a, <2>2, <2>3, <2>4 DEF ReserveNew, around
<1>3. ASSUME NEW i \in Invoker, NEW k \in Key, NEW b \in Bound, ReserveAgain(i, k, b)
      PROVE  GrantTypeOK' /\ Keyed'
  <2>1. work' \in [Invoker -> Work] /\ Keyed'
    BY <1>0, <1>3 DEF ReserveAgain, Work, Idle, Keyed
  <2> QED
    BY <1>0, <1>3, <1>a, <2>1 DEF ReserveAgain, ledger, around
<1>4. ASSUME NEW i \in Invoker, MarkStarted(i)
      PROVE  GrantTypeOK' /\ Keyed'
  <2>1. work' \in [Invoker -> Work] /\ Keyed'
    BY <1>4, BecomesTypes DEF MarkStarted
  <2>2. reservation' \in [Key -> Row]
    BY <1>0, <1>4 DEF MarkStarted, Row
  <2> QED
    BY <1>0, <1>4, <1>a, <2>1, <2>2 DEF MarkStarted, around
<1>5. ASSUME NEW i \in Invoker, PreparationFails(i)
      PROVE  GrantTypeOK' /\ Keyed'
  <2>1. work' \in [Invoker -> Work] /\ Keyed'
    BY <1>5, BecomesTypes DEF PreparationFails
  <2> QED
    BY <1>0, <1>5, <1>a, <2>1 DEF PreparationFails, ledger, around
<1>6. ASSUME NEW i \in Invoker, NEW cost \in Amount, NEW usage \in Amount,
             NEW price \in Amount \cup {None}, Answers(i, cost, price, usage)
      PROVE  GrantTypeOK' /\ Keyed'
  <2>1. cost \in Nat /\ usage \in Nat /\ price \in Nat \cup {None}
    BY AmountIsNat
  <2>2. work[i].key \in Key
    BY <1>6 DEF Answers, Keyed
  <2>3. work' \in [Invoker -> Work] /\ Keyed'
    BY <1>0, <1>6, <2>1, <2>2 DEF Answers, Work, Keyed
  <2>4. billed' \in [Key -> Nat]
    BY <1>0, <1>6, <2>1, <2>2 DEF Answers
  <2> QED
    BY <1>0, <1>6, <1>a, <2>3, <2>4 DEF Answers, ledger, around
<1>7. ASSUME NEW i \in Invoker, NEW cost \in Amount, CallFails(i, cost)
      PROVE  GrantTypeOK' /\ Keyed'
  <2>1. cost \in Nat /\ work' \in [Invoker -> Work] /\ Keyed' /\ work[i].key \in Key
    BY <1>7, AmountIsNat, BecomesTypes DEF CallFails
  <2>2. billed' \in [Key -> Nat]
    BY <1>0, <1>7, <2>1 DEF CallFails
  <2> QED
    BY <1>0, <1>7, <1>a, <2>1, <2>2 DEF CallFails, ledger, around
<1>8. ASSUME NEW i \in Invoker, Settle(i)
      PROVE  GrantTypeOK' /\ Keyed'
  <2>1. work' \in [Invoker -> Work] /\ Keyed' /\ work[i].key \in Key
    BY <1>8, BecomesTypes DEF Settle
  <2>2. work[i].price \in Nat \cup {None} /\ work[i].usage \in Nat
    BY <1>0 DEF Work
  <2>3. grant' \in Grant /\ reservation' \in [Key -> Row]
    BY <1>0, <1>8, <2>1, <2>2, SettleTypes DEF Settle, ledger
  <2> QED
    BY <1>0, <1>8, <1>a, <2>1, <2>3 DEF Settle, around
<1>9. ASSUME NEW i \in Invoker, Abort(i)
      PROVE  GrantTypeOK' /\ Keyed'
  <2>1. work' \in [Invoker -> Work] /\ Keyed' /\ work[i].key \in Key
    BY <1>9, BecomesTypes DEF Abort
  <2>2. grant' \in Grant /\ reservation' \in [Key -> Row]
    BY <1>0, <1>9, <2>1, CancelTypes DEF Abort, ledger
  <2> QED
    BY <1>0, <1>9, <1>a, <2>1, <2>2 DEF Abort, around
<1>10. ASSUME NEW i \in Invoker, Consume(i)
       PROVE  GrantTypeOK' /\ Keyed'
  <2>1. work' \in [Invoker -> Work] /\ Keyed' /\ work[i].key \in Key
    BY <1>10, BecomesTypes DEF Consume
  <2>2. reservation[work[i].key].bound \in Nat
    BY <1>0, <2>1 DEF Row
  <2>3. grant' \in Grant /\ reservation' \in [Key -> Row]
    BY <1>0, <1>10, <2>1, <2>2, SettleTypes DEF Consume, ledger
  <2> QED
    BY <1>0, <1>10, <1>a, <2>1, <2>3 DEF Consume, around
<1>11. ASSUME NEW i \in Invoker, NEW cost \in Amount, Vanish(i, cost)
       PROVE  GrantTypeOK' /\ Keyed'
  <2>1. cost \in Nat /\ work[i].key \in Key
    BY <1>11, AmountIsNat DEF Vanish, Keyed
  <2>2. work' \in [Invoker -> Work] /\ Keyed'
    BY <1>0, <1>11 DEF Vanish, Work, Idle, Keyed
  <2>3. billed' \in [Key -> Nat]
    BY <1>0, <1>11, <2>1 DEF Vanish
  <2> QED
    BY <1>0, <1>11, <1>a, <2>2, <2>3 DEF Vanish, ledger
<1>12. CASE UNCHANGED vars
  BY <1>0, <1>12, <1>a DEF vars, ledger, around, Keyed
<1> QED
  BY <1>1, <1>2, <1>3, <1>4, <1>5, <1>6, <1>7, <1>8, <1>9, <1>10, <1>11, <1>12 DEF Next, Step

LEMMA TypeInit == Init => GrantTypeOK /\ Keyed
BY GrantAssumption DEF Init, GrantTypeOK, Keyed, Zero, NoRow, Idle

LEMMA TypeInvariant == Spec => [](GrantTypeOK /\ Keyed)
BY TypeInit, TypeStep, PTL DEF Spec

\* The types hold in every reachable state, whatever the numbers of
\* delegators, keys and calls.
THEOREM GrantTyping == Spec => []GrantTypeOK
BY TypeInvariant, PTL

-----------------------------------------------------------------------------
(* The budget.                                                             *)

\* What a settlement charges.
Cost(row, price) == IF price # None THEN price ELSE IF row.started THEN row.bound ELSE 0

\* What it does to the counters.
LEMMA SettleCounts ==
  ASSUME GrantTypeOK, NEW k \in Key, NEW price \in Nat \cup {None}, NEW usage \in Nat,
         SettleRow(k, price, usage), NEW cost, cost = Cost(reservation[k], price)
  PROVE  /\ cost \in Nat
         /\ grant'.used["money"] = grant.used["money"] + cost
         /\ grant'.used["tokens"] = grant.used["tokens"] + usage
         /\ grant'.reserved = Unreserved(reservation[k].bound)
         /\ reservation'[k].state = "settled" /\ reservation'[k].started = reservation[k].started
         /\ reservation'[k].bound = reservation[k].bound
         /\ reservation'[k].actual = [r \in Resource |-> IF r = "money" THEN cost ELSE usage]
         /\ \A q \in Key \ {k} : reservation'[q] = reservation[q]
         /\ ~grant'.revoked =>
              /\ ~grant.revoked /\ cost <= reservation[k].bound /\ usage <= reservation[k].bound
              /\ grant.used["money"] + cost <= Budget /\ grant.used["tokens"] + usage <= Budget
<1> DEFINE row == reservation[k]
           actual == [r \in Resource |-> IF r = "money" THEN cost ELSE usage]
           used == [r \in Resource |-> grant.used[r] + actual[r]]
           breach == \E r \in Resource : actual[r] > row.bound \/ used[r] > Budget
<1>1. row \in Row /\ grant \in Grant /\ Budget \in Nat
  BY GrantAssumption DEF GrantTypeOK, Row, Grant
<1>2. cost \in Nat
  BY <1>1 DEF Row, Cost
<1>3. /\ grant' = [grant EXCEPT !.used = used, !.reserved = Unreserved(row.bound),
                                !.revoked = @ \/ breach]
      /\ reservation' = [reservation EXCEPT ![k] = [@ EXCEPT !.state = "settled", !.actual = actual]]
  BY DEF SettleRow, Cost
<1> HIDE DEF row
<1>4. /\ actual["money"] = cost /\ actual["tokens"] = usage
      /\ used["money"] = grant.used["money"] + cost /\ used["tokens"] = grant.used["tokens"] + usage
  BY DEF Resource
<1>5. ~breach => /\ cost <= row.bound /\ usage <= row.bound
                 /\ grant.used["money"] + cost <= Budget /\ grant.used["tokens"] + usage <= Budget
  BY <1>1, <1>2, <1>4 DEF Resource, Row, Grant
<1> HIDE DEF actual, used, breach
<1>6. /\ grant'.used = used /\ grant'.reserved = Unreserved(row.bound)
      /\ grant'.revoked = (grant.revoked \/ breach)
  BY <1>1, <1>3 DEF Grant
<1>7. reservation'[k] = [row EXCEPT !.state = "settled", !.actual = actual]
  BY <1>3 DEF GrantTypeOK, row
<1>8. /\ reservation'[k].state = "settled" /\ reservation'[k].started = row.started
      /\ reservation'[k].bound = row.bound /\ reservation'[k].actual = actual
  BY <1>1, <1>7 DEF Row
<1>9. \A q \in Key \ {k} : reservation'[q] = reservation[q]
  BY <1>3 DEF GrantTypeOK
<1> QED
  BY <1>2, <1>4, <1>5, <1>6, <1>8, <1>9 DEF row, actual

\* And a cancellation.
LEMMA CancelCounts ==
  ASSUME GrantTypeOK, NEW k \in Key, CancelRow(k)
  PROVE  /\ grant'.used = grant.used /\ grant'.revoked = grant.revoked
         /\ grant'.reserved = Unreserved(reservation[k].bound)
         /\ reservation'[k] = [reservation[k] EXCEPT !.state = "cancelled"]
         /\ \A q \in Key \ {k} : reservation'[q] = reservation[q]
BY DEF CancelRow, GrantTypeOK

\* A call that used at most what it had reserved frees the rest; what is given
\* back never goes below zero.
LEMMA SettleBudget ==
  ASSUME GrantTypeOK, BudgetHolds, NEW k \in Key, NEW price \in Nat \cup {None}, NEW usage \in Nat,
         SettleRow(k, price, usage)
  PROVE  BudgetHolds'
<1>0. PICK cost : cost = Cost(reservation[k], price)
  OBVIOUS
<1> DEFINE row == reservation[k]
<1>1. /\ cost \in Nat /\ row.bound \in Nat /\ Budget \in Nat
      /\ \A r \in Resource : grant.used[r] \in Nat /\ grant.reserved[r] \in Nat
  BY <1>0, GrantAssumption DEF GrantTypeOK, Cost
<1>2. /\ grant'.used["money"] = grant.used["money"] + cost
      /\ grant'.used["tokens"] = grant.used["tokens"] + usage
      /\ grant'.reserved = Unreserved(row.bound)
      /\ ~grant'.revoked =>
           /\ ~grant.revoked /\ cost <= row.bound /\ usage <= row.bound
           /\ grant.used["money"] + cost <= Budget /\ grant.used["tokens"] + usage <= Budget
  BY <1>0, SettleCounts
<1> HIDE DEF row
<1>3. SUFFICES ASSUME ~grant'.revoked, NEW r \in Resource
               PROVE  grant'.used[r] + grant'.reserved[r] <= Budget
  BY DEF BudgetHolds
<1>4. grant'.reserved[r] = IF grant.reserved[r] > row.bound THEN grant.reserved[r] - row.bound ELSE 0
  BY <1>2 DEF Unreserved, Less
<1>5. grant.used[r] + grant.reserved[r] <= Budget
  BY <1>2, <1>3 DEF BudgetHolds
<1>6. CASE r = "money"
  BY <1>1, <1>2, <1>3, <1>4, <1>5, <1>6 DEF Resource
<1>7. CASE r = "tokens"
  BY <1>1, <1>2, <1>3, <1>4, <1>5, <1>7 DEF Resource
<1> QED
  BY <1>6, <1>7 DEF Resource

LEMMA CancelBudget ==
  ASSUME GrantTypeOK, BudgetHolds, NEW k \in Key, CancelRow(k)
  PROVE  BudgetHolds'
<1>1. /\ reservation[k].bound \in Nat /\ Budget \in Nat
      /\ \A r \in Resource : grant.used[r] \in Nat /\ grant.reserved[r] \in Nat
  BY GrantAssumption DEF GrantTypeOK
<1>2. /\ grant'.used = grant.used /\ grant'.revoked = grant.revoked
      /\ \A r \in Resource : grant'.reserved[r] = Less(grant.reserved[r], reservation[k].bound)
  BY CancelCounts DEF Unreserved
<1> QED
  BY <1>1, <1>2 DEF BudgetHolds, Less

\* Only a reservation that fits moves what is used and promised upwards.
LEMMA BudgetStep ==
  ASSUME GrantTypeOK, Keyed, BudgetHolds, [Next]_vars
  PROVE  BudgetHolds'
<1>0. /\ \A i \in Invoker : work[i].price \in Nat \cup {None} /\ work[i].usage \in Nat
      /\ \A k \in Key : reservation[k].bound \in Nat
  BY DEF GrantTypeOK
<1>1. CASE Revoke \/ GrantExpires
  BY <1>1 DEF Revoke, GrantExpires, BudgetHolds, GrantTypeOK
<1>2. ASSUME NEW i \in Invoker, NEW k \in Key, NEW b \in Bound, ReserveNew(i, k, b)
      PROVE  BudgetHolds'
  <2>1. /\ grant'.used = grant.used
        /\ \A r \in Resource : grant'.reserved[r] = grant.reserved[r] + b
    BY <1>2 DEF ReserveNew, GrantTypeOK
  <2>2. \A r \in Resource : /\ grant.used[r] \in Nat /\ grant.reserved[r] \in Nat
                            /\ grant.used[r] + grant.reserved[r] + b <= Budget
    BY <1>2 DEF ReserveNew, Authorized, GrantTypeOK
  <2>3. b \in Nat /\ Budget \in Nat
    BY GrantAssumption
  <2> QED
    BY <2>1, <2>2, <2>3 DEF BudgetHolds
<1>3. ASSUME NEW i \in Invoker, Settle(i)
      PROVE  BudgetHolds'
  BY <1>0, <1>3, BecomesTypes, SettleBudget DEF Settle, ledger, BudgetHolds
<1>4. ASSUME NEW i \in Invoker, Abort(i)
      PROVE  BudgetHolds'
  BY <1>4, BecomesTypes, CancelBudget DEF Abort, ledger, BudgetHolds
<1>5. ASSUME NEW i \in Invoker, Consume(i)
      PROVE  BudgetHolds'
  BY <1>0, <1>5, BecomesTypes, SettleBudget DEF Consume, ledger, BudgetHolds
<1>6. ASSUME UNCHANGED grant
      PROVE  BudgetHolds'
  BY <1>6 DEF BudgetHolds
<1> QED
  BY <1>1, <1>2, <1>3, <1>4, <1>5, <1>6
     DEF Next, Step, ReserveAgain, MarkStarted, PreparationFails, Answers, CallFails, Vanish, vars, ledger

\* What is used and what is promised stays within the grant, or the grant is
\* revoked: whatever delegators run side by side, fail, vanish or come back.
THEOREM WithinBudget == Spec => []BudgetHolds
<1>1. Init => BudgetHolds
  BY GrantAssumption DEF Init, BudgetHolds, Zero
<1> QED
  BY <1>1, TypeInvariant, BudgetStep, PTL DEF Spec

\* A row that was settled or cancelled stays as it is.
THEOREM DecidedOnce == Spec => SettlementIsFinal
<1> DEFINE Final == \A k \in Key : reservation[k].state \in {"settled", "cancelled"} =>
                                     reservation'[k] = reservation[k]
<1>1. ASSUME GrantTypeOK, Keyed, Next
      PROVE  Final
  <2>0. /\ \A i \in Invoker : work[i].price \in Nat \cup {None} /\ work[i].usage \in Nat
        /\ \A k \in Key : reservation[k].bound \in Nat
    BY <1>1 DEF GrantTypeOK
  <2>1. ASSUME NEW k \in Open, \A q \in Key \ {k} : reservation'[q] = reservation[q]
        PROVE  Final
    BY <2>1 DEF Open
  <2>2. ASSUME UNCHANGED reservation
        PROVE  Final
    BY <2>2
  <2>3. ASSUME NEW i \in Invoker, NEW k \in Key, NEW b \in Bound, ReserveNew(i, k, b)
        PROVE  Final
    BY <1>1, <2>3 DEF ReserveNew, GrantTypeOK
  <2>4. ASSUME NEW i \in Invoker, MarkStarted(i)
        PROVE  Final
    <3> DEFINE k == work[i].key
    <3>1. k \in Key
      BY <1>1, <2>4, BecomesTypes DEF MarkStarted
    <3>2. \A q \in Key \ {k} : reservation'[q] = reservation[q]
      BY <1>1, <2>4, <3>1 DEF MarkStarted, GrantTypeOK
    <3>3. CASE k \notin Open
      BY <1>1, <2>4, <3>1, <3>2, <3>3 DEF MarkStarted, GrantTypeOK
    <3> QED
      BY <2>1, <3>2, <3>3
  <2>5. ASSUME NEW i \in Invoker, Settle(i)
        PROVE  Final
    BY <1>1, <2>0, <2>1, <2>2, <2>5, BecomesTypes, SettleCounts DEF Settle, ledger
  <2>6. ASSUME NEW i \in Invoker, Abort(i)
        PROVE  Final
    BY <1>1, <2>1, <2>2, <2>6, BecomesTypes, CancelCounts DEF Abort, ledger
  <2>7. ASSUME NEW i \in Invoker, Consume(i)
        PROVE  Final
    BY <1>1, <2>0, <2>1, <2>2, <2>7, BecomesTypes, SettleCounts DEF Consume, ledger
  <2> QED
    BY <1>1, <2>2, <2>3, <2>4, <2>5, <2>6, <2>7
       DEF Next, Step, Revoke, GrantExpires, ReserveAgain, PreparationFails, Answers, CallFails,
           Vanish, ledger
<1>2. GrantTypeOK /\ Keyed /\ [Next]_vars => [Final]_vars
  BY <1>1
<1> QED
  BY <1>2, TypeInvariant, PTL DEF Spec, SettlementIsFinal

-----------------------------------------------------------------------------
(* The bill.                                                               *)

\* What a delegator at work knows of its row and of what was charged, if no two
\* of them meet in one key: the row is open, it is marked before the provider is
\* called, and a call that was charged more than its bound has said so.
PaidUp(w, row, bill) ==
  /\ row.state = "reserved"
  /\ w.at = "reserved" => ~row.started
  /\ w.at \in {"calling", "answered", "consuming"} => row.started
  /\ w.at = "calling" => bill = 0
  /\ w.at = "answered" => bill <= IF w.price # None THEN w.price ELSE row.bound
  /\ w.at \in {"failed", "consuming"} => bill <= row.bound

Paid(i) ==
  work[i].at # "idle" => PaidUp(work[i], reservation[work[i].key], billed[work[i].key])

\* A row that was never marked was never charged, and one that is closed covers
\* what was.
Covered(k) ==
  /\ ~reservation[k].started => billed[k] = 0
  /\ reservation[k].state = "none" => ~reservation[k].started
  /\ reservation[k].state # "reserved" => billed[k] <= reservation[k].actual["money"]

Apart == \A i, j \in Invoker :
           work[i].at # "idle" /\ work[j].at # "idle" /\ work[i].key = work[j].key => i = j

FreeInv ==
  reuse = "abandoned" => Apart /\ (\A i \in Invoker : Paid(i)) /\ (\A k \in Key : Covered(k))

\* A delegator goes on and nothing else happens to other rows and bills.
LEMMA OneGoesOn ==
  ASSUME GrantTypeOK, Keyed, Keyed', Apart, \A j \in Invoker : Paid(j), \A q \in Key : Covered(q),
         NEW i \in Invoker, NEW k \in Key, work[i].at # "idle", work[i].key = k,
         work'[i].at = "idle" \/ work'[i].key = k,
         \A j \in Invoker \ {i} : work'[j] = work[j],
         \A q \in Key \ {k} : reservation'[q] = reservation[q] /\ billed'[q] = billed[q],
         Paid(i)', Covered(k)'
  PROVE  Apart' /\ (\A j \in Invoker : Paid(j)') /\ (\A q \in Key : Covered(q)')
<1>1. Apart'
  BY DEF Apart
<1>2. ASSUME NEW j \in Invoker, j # i
      PROVE  Paid(j)'
  <2>1. CASE work[j].at = "idle"
    BY <1>2, <2>1 DEF Paid
  <2>2. CASE work[j].at # "idle"
    <3>1. work[j].key # work[i].key /\ work[j].key \in Key
      BY <1>2, <2>2 DEF Apart, Keyed
    <3>2. /\ work'[j] = work[j] /\ reservation'[work[j].key] = reservation[work[j].key]
          /\ billed'[work[j].key] = billed[work[j].key]
      BY <1>2, <3>1
    <3> QED
      BY <1>2, <3>2 DEF Paid
  <2> QED
    BY <2>1, <2>2
<1>3. ASSUME NEW q \in Key, q # k
      PROVE  Covered(q)'
  BY <1>3 DEF Covered
<1> QED
  BY <1>1, <1>2, <1>3

\* What a settlement leaves of a row: closed, at its price or its bound.
LEMMA SettledRow ==
  ASSUME GrantTypeOK, NEW k \in Key, NEW price \in Nat \cup {None}, NEW usage \in Nat,
         SettleRow(k, price, usage), reservation[k].started,
         billed[k] <= IF price # None THEN price ELSE reservation[k].bound, UNCHANGED billed
  PROVE  Covered(k)' /\ \A q \in Key \ {k} : reservation'[q] = reservation[q]
<1>1. PICK cost : cost = Cost(reservation[k], price)
  OBVIOUS
<1>2. /\ reservation'[k].state = "settled" /\ reservation'[k].started = reservation[k].started
      /\ \A q \in Key \ {k} : reservation'[q] = reservation[q]
  BY <1>1, SettleCounts
<1>3. reservation'[k].actual = [r \in Resource |-> IF r = "money" THEN cost ELSE usage]
  BY <1>1, SettleCounts
<1>4. reservation'[k].actual["money"] = cost
  BY <1>3 DEF Resource
<1>5. billed[k] <= cost
  BY <1>1 DEF Cost
<1> QED
  BY <1>2, <1>4, <1>5 DEF Covered

LEMMA FreeStep ==
  ASSUME GrantTypeOK, Keyed, Keyed', FreeInv, [Next]_vars
  PROVE  FreeInv'
<1> SUFFICES ASSUME reuse' = "abandoned"
             PROVE  Apart' /\ (\A j \in Invoker : Paid(j)') /\ (\A q \in Key : Covered(q)')
  BY DEF FreeInv
<1>0. Apart /\ (\A j \in Invoker : Paid(j)) /\ (\A q \in Key : Covered(q)) /\ reuse = "abandoned"
  BY DEF FreeInv, Next, Step, vars, around, Revoke, GrantExpires, ReserveNew, ReserveAgain, MarkStarted,
         PreparationFails, Answers, CallFails, Settle, Abort, Consume, Vanish
<1>t. /\ reservation \in [Key -> Row] /\ work \in [Invoker -> Work] /\ billed \in [Key -> Nat]
  BY DEF GrantTypeOK, Row, Work
<1>1. ASSUME UNCHANGED <<reservation, work, billed>>
      PROVE  Apart' /\ (\A j \in Invoker : Paid(j)') /\ (\A q \in Key : Covered(q)')
  BY <1>0, <1>1 DEF Apart, Paid, Covered
<1>2. ASSUME NEW i \in Invoker, NEW k \in Key, NEW b \in Bound, ReserveNew(i, k, b)
      PROVE  Apart' /\ (\A j \in Invoker : Paid(j)') /\ (\A q \in Key : Covered(q)')
  <2>1. /\ work'[i] = [Idle EXCEPT !.at = "reserved", !.key = k] /\ UNCHANGED billed
        /\ \A j \in Invoker \ {i} : work'[j] = work[j]
        /\ reservation'[k] = [state |-> "reserved", started |-> FALSE, bound |-> b, actual |-> Zero]
        /\ \A q \in Key \ {k} : reservation'[q] = reservation[q]
        /\ reservation[k].state = "none" /\ work[i].at = "idle"
    BY <1>2, <1>t DEF ReserveNew
  <2>2. \A j \in Invoker : work[j].at # "idle" => work[j].key # k /\ work[j].key \in Key
    BY <1>0, <2>1 DEF Paid, PaidUp, Keyed
  <2>3. work'[i].at = "reserved" /\ work'[i].key = k
    BY <2>1 DEF Idle
  <2>4. Apart'
    <3> SUFFICES ASSUME NEW p \in Invoker, NEW q \in Invoker, work'[p].at # "idle", work'[q].at # "idle",
                        work'[p].key = work'[q].key
                 PROVE  p = q
      BY DEF Apart
    <3>1. ASSUME NEW j \in Invoker, j # i, work'[j].at # "idle"
          PROVE  work'[j] = work[j] /\ work[j].key # k
      BY <3>1, <1>0, <2>1, <2>2, <2>3
    <3>2. CASE p # i /\ q # i
      BY <3>1, <3>2, <1>0 DEF Apart
    <3>3. CASE p = i \/ q = i
      BY <3>1, <3>3, <1>0, <2>1, <2>2, <2>3
    <3> QED
      BY <3>2, <3>3
  <2>5. Paid(i)'
    BY <2>1, <2>3 DEF Paid, PaidUp
  <2>6. ASSUME NEW j \in Invoker \ {i}
        PROVE  Paid(j)'
    BY <1>0, <2>1, <2>2 DEF Paid
  <2>7. \A q \in Key : Covered(q)'
    BY <1>0, <2>1 DEF Covered
  <2> QED
    BY <2>4, <2>5, <2>6, <2>7
<1>3. ASSUME NEW i \in Invoker, NEW k \in Key, NEW b \in Bound, ReserveAgain(i, k, b)
      PROVE  Apart' /\ (\A j \in Invoker : Paid(j)') /\ (\A q \in Key : Covered(q)')
  <2>1. /\ work'[i] = [Idle EXCEPT !.at = "reserved", !.key = k] /\ UNCHANGED <<reservation, billed>>
        /\ \A j \in Invoker \ {i} : work'[j] = work[j]
        /\ reservation[k].state = "reserved" /\ ~reservation[k].started
        /\ \A j \in Invoker : work[j].key # k
    BY <1>0, <1>3, <1>t DEF ReserveAgain, ledger
  <2>2. work'[i].at = "reserved" /\ work'[i].key = k
    BY <2>1 DEF Idle
  <2>3. Apart'
    <3> SUFFICES ASSUME NEW p \in Invoker, NEW q \in Invoker, work'[p].at # "idle", work'[q].at # "idle",
                        work'[p].key = work'[q].key
                 PROVE  p = q
      BY DEF Apart
    <3>1. ASSUME NEW j \in Invoker, j # i, work'[j].at # "idle"
          PROVE  work'[j] = work[j] /\ work[j].key # k
      BY <3>1, <1>0, <2>1, <2>2
    <3>2. CASE p # i /\ q # i
      BY <3>1, <3>2, <1>0 DEF Apart
    <3>3. CASE p = i \/ q = i
      BY <3>1, <3>3, <1>0, <2>1, <2>2
    <3> QED
      BY <3>2, <3>3
  <2>4. Paid(i)'
    BY <2>1, <2>2 DEF Paid, PaidUp
  <2>5. ASSUME NEW j \in Invoker \ {i}
        PROVE  Paid(j)'
    BY <1>0, <2>1 DEF Paid
  <2>6. \A q \in Key : Covered(q)'
    BY <1>0, <2>1 DEF Covered
  <2> QED
    BY <2>3, <2>4, <2>5, <2>6
<1>4. ASSUME NEW i \in Invoker, MarkStarted(i)
      PROVE  Apart' /\ (\A j \in Invoker : Paid(j)') /\ (\A q \in Key : Covered(q)')
  <2>1. PICK k \in Key : k = work[i].key
    BY <1>4, BecomesTypes DEF MarkStarted
  <2>2. /\ work[i].at = "reserved" /\ work'[i] = [work[i] EXCEPT !.at = "calling"]
        /\ \A j \in Invoker \ {i} : work'[j] = work[j]
    BY <1>4, BecomesTypes DEF MarkStarted
  <2>3. k \in Open /\ ~reservation[k].started /\ billed[k] = 0
    BY <1>0, <2>1, <2>2 DEF Paid, PaidUp, Covered, Open
  <2>4. /\ UNCHANGED billed /\ \A q \in Key \ {k} : reservation'[q] = reservation[q]
        /\ reservation'[k] = [reservation[k] EXCEPT !.started = TRUE]
    BY <1>4, <1>t, <2>1, <2>3 DEF MarkStarted
  <2>5. /\ work'[i].at = "calling" /\ work'[i].key = k
        /\ reservation'[k].state = "reserved" /\ reservation'[k].started
    BY <1>t, <2>1, <2>2, <2>3, <2>4 DEF Work, Row, Open
  <2>6. Paid(i)' /\ Covered(k)'
    BY <2>3, <2>4, <2>5 DEF Paid, PaidUp, Covered
  <2> QED
    BY <1>0, <2>1, <2>2, <2>4, <2>5, <2>6, OneGoesOn
<1>5. ASSUME NEW i \in Invoker, PreparationFails(i)
      PROVE  Apart' /\ (\A j \in Invoker : Paid(j)') /\ (\A q \in Key : Covered(q)')
  <2>1. PICK k \in Key : k = work[i].key
    BY <1>5, BecomesTypes DEF PreparationFails
  <2>2. /\ work[i].at = "reserved" /\ work'[i] = [work[i] EXCEPT !.at = "failed"]
        /\ \A j \in Invoker \ {i} : work'[j] = work[j]
        /\ UNCHANGED <<reservation, billed>>
    BY <1>5, BecomesTypes DEF PreparationFails, ledger
  <2>3. PaidUp(work[i], reservation[k], billed[k]) /\ billed[k] = 0 /\ reservation[k].bound \in Nat
    BY <1>0, <1>t, <2>1, <2>2 DEF Paid, PaidUp, Covered, Row
  <2>4. work'[i].at = "failed" /\ work'[i].key = k
    BY <1>t, <2>1, <2>2 DEF Work
  <2>5. Paid(i)' /\ Covered(k)'
    BY <1>0, <2>2, <2>3, <2>4 DEF Paid, PaidUp, Covered
  <2> QED
    BY <1>0, <2>1, <2>2, <2>4, <2>5, OneGoesOn
<1>6. ASSUME NEW i \in Invoker, NEW cost \in Amount, NEW usage \in Amount,
             NEW price \in Amount \cup {None}, Answers(i, cost, price, usage)
      PROVE  Apart' /\ (\A j \in Invoker : Paid(j)') /\ (\A q \in Key : Covered(q)')
  <2>1. PICK k \in Key : k = work[i].key
    BY <1>6 DEF Answers, Keyed
  <2>2. cost \in Nat /\ price \in Nat \cup {None} /\ None \notin Nat
    BY AmountIsNat, GrantAssumption
  <2>3. /\ price = cost \/ (price = None /\ cost <= reservation[k].bound)
        /\ UNCHANGED reservation /\ billed'[k] = billed[k] + cost
        /\ \A q \in Key \ {k} : billed'[q] = billed[q]
    BY <1>6, <1>t, <2>1 DEF Answers, ledger
  <2>a. work[i].at = "calling"
    BY <1>6 DEF Answers
  <2>b. /\ work'[i] = [work[i] EXCEPT !.at = "answered", !.price = price, !.usage = usage]
        /\ \A j \in Invoker \ {i} : work'[j] = work[j]
    BY <1>6, <1>t DEF Answers
  <2>4. billed[k] = 0 /\ reservation[k].started /\ reservation[k].state = "reserved"
    BY <1>0, <2>1, <2>a DEF Paid, PaidUp
  <2>5. work'[i].at = "answered" /\ work'[i].key = k /\ work'[i].price = price
    BY <1>t, <2>1, <2>b DEF Work
  <2>6. /\ reservation'[k].started /\ reservation'[k].state = "reserved"
        /\ billed'[k] <= IF price # None THEN price ELSE reservation'[k].bound
    BY <2>2, <2>3, <2>4
  <2>7. Paid(i)' /\ Covered(k)'
    BY <2>5, <2>6 DEF Paid, PaidUp, Covered
  <2> QED
    BY <1>0, <2>1, <2>3, <2>a, <2>b, <2>5, <2>7, OneGoesOn
<1>7. ASSUME NEW i \in Invoker, NEW cost \in Amount, CallFails(i, cost)
      PROVE  Apart' /\ (\A j \in Invoker : Paid(j)') /\ (\A q \in Key : Covered(q)')
  <2>1. PICK k \in Key : k = work[i].key
    BY <1>7, BecomesTypes DEF CallFails
  <2>2. cost \in Nat
    BY AmountIsNat
  <2>3. /\ work[i].at = "calling" /\ cost <= reservation[k].bound
        /\ work'[i] = [work[i] EXCEPT !.at = "failed"]
        /\ \A j \in Invoker \ {i} : work'[j] = work[j]
        /\ UNCHANGED reservation /\ billed'[k] = billed[k] + cost
        /\ \A q \in Key \ {k} : billed'[q] = billed[q]
    BY <1>7, <1>t, <2>1, BecomesTypes DEF CallFails, ledger
  <2>4. PaidUp(work[i], reservation[k], billed[k]) /\ billed[k] = 0 /\ reservation[k].started
    BY <1>0, <2>1, <2>3 DEF Paid, PaidUp
  <2>5. work'[i].at = "failed" /\ work'[i].key = k
    BY <1>t, <2>1, <2>3 DEF Work
  <2>6. Paid(i)' /\ Covered(k)'
    BY <1>0, <2>2, <2>3, <2>4, <2>5 DEF Paid, PaidUp, Covered
  <2> QED
    BY <1>0, <2>1, <2>3, <2>5, <2>6, OneGoesOn
<1>8. ASSUME NEW i \in Invoker, Settle(i)
      PROVE  Apart' /\ (\A j \in Invoker : Paid(j)') /\ (\A q \in Key : Covered(q)')
  <2>1. PICK k \in Key : k = work[i].key
    BY <1>8, BecomesTypes DEF Settle
  <2>2. /\ work[i].at = "answered" /\ work'[i].at = "idle" /\ UNCHANGED billed
        /\ \A j \in Invoker \ {i} : work'[j] = work[j]
    BY <1>8, BecomesTypes DEF Settle, Idle
  <2>3. PaidUp(work[i], reservation[k], billed[k])
    BY <1>0, <2>1, <2>2 DEF Paid
  <2>4. SettleRow(k, work[i].price, work[i].usage)
    BY <1>8, <2>1, <2>3 DEF Settle, Open, PaidUp
  <2>5. work[i].price \in Nat \cup {None} /\ work[i].usage \in Nat
    BY <1>t DEF Work
  <2>6. Covered(k)' /\ \A q \in Key \ {k} : reservation'[q] = reservation[q]
    BY <2>2, <2>3, <2>4, <2>5, SettledRow DEF PaidUp
  <2> QED
    BY <1>0, <2>1, <2>2, <2>6, OneGoesOn DEF Paid
<1>9. ASSUME NEW i \in Invoker, Abort(i)
      PROVE  Apart' /\ (\A j \in Invoker : Paid(j)') /\ (\A q \in Key : Covered(q)')
  <2>1. PICK k \in Key : k = work[i].key
    BY <1>9, BecomesTypes DEF Abort
  <2>2. /\ work[i].at = "failed" /\ UNCHANGED billed
        /\ \A j \in Invoker \ {i} : work'[j] = work[j]
    BY <1>9, BecomesTypes DEF Abort, Idle
  <2>3. PaidUp(work[i], reservation[k], billed[k])
    BY <1>0, <2>1, <2>2 DEF Paid
  <2>4. CASE reservation[k].started
    <3>1. UNCHANGED reservation /\ work'[i] = [work[i] EXCEPT !.at = "consuming"]
      BY <1>9, <2>1, <2>3, <2>4, BecomesTypes DEF Abort, ledger, Open, PaidUp
    <3>2. work'[i].at = "consuming" /\ work'[i].key = k
      BY <1>t, <2>1, <3>1 DEF Work
    <3>3. Paid(i)' /\ Covered(k)'
      BY <1>0, <2>2, <2>3, <2>4, <3>1, <3>2 DEF Paid, PaidUp, Covered
    <3> QED
      BY <1>0, <2>1, <2>2, <3>1, <3>2, <3>3, OneGoesOn
  <2>5. CASE ~reservation[k].started
    <3>1. CancelRow(k) /\ work'[i].at = "idle"
      BY <1>9, <2>1, <2>3, <2>5, BecomesTypes DEF Abort, Open, PaidUp, Idle
    <3>2. /\ reservation'[k] = [reservation[k] EXCEPT !.state = "cancelled"]
          /\ \A q \in Key \ {k} : reservation'[q] = reservation[q]
      BY <3>1, CancelCounts
    <3>3. /\ reservation'[k].state = "cancelled" /\ ~reservation'[k].started
          /\ reservation'[k].actual["money"] \in Nat
      BY <1>t, <2>5, <3>2 DEF Row, Resource
    <3>4. billed'[k] = 0
      BY <1>0, <2>2, <2>5 DEF Covered
    <3>5. Covered(k)'
      BY <3>3, <3>4 DEF Covered
    <3> QED
      BY <1>0, <2>1, <2>2, <3>1, <3>2, <3>5, OneGoesOn DEF Paid
  <2> QED
    BY <2>4, <2>5
<1>10. ASSUME NEW i \in Invoker, Consume(i)
       PROVE  Apart' /\ (\A j \in Invoker : Paid(j)') /\ (\A q \in Key : Covered(q)')
  <2>1. PICK k \in Key : k = work[i].key
    BY <1>10, BecomesTypes DEF Consume
  <2>2. /\ work[i].at = "consuming" /\ work'[i].at = "idle" /\ UNCHANGED billed
        /\ \A j \in Invoker \ {i} : work'[j] = work[j]
    BY <1>10, BecomesTypes DEF Consume, Idle
  <2>3. PaidUp(work[i], reservation[k], billed[k])
    BY <1>0, <2>1, <2>2 DEF Paid
  <2>4. SettleRow(k, None, reservation[k].bound)
    BY <1>10, <2>1, <2>3 DEF Consume, Open, PaidUp
  <2>5. reservation[k].bound \in Nat
    BY <1>t DEF Row
  <2>6. Covered(k)' /\ \A q \in Key \ {k} : reservation'[q] = reservation[q]
    BY <2>2, <2>3, <2>4, <2>5, SettledRow DEF PaidUp
  <2> QED
    BY <1>0, <2>1, <2>2, <2>6, OneGoesOn DEF Paid
<1>11. ASSUME NEW i \in Invoker, NEW cost \in Amount, Vanish(i, cost)
       PROVE  Apart' /\ (\A j \in Invoker : Paid(j)') /\ (\A q \in Key : Covered(q)')
  <2>1. PICK k \in Key : k = work[i].key
    BY <1>11 DEF Vanish, Keyed
  <2>2. /\ work[i].at # "idle" /\ work'[i].at = "idle" /\ UNCHANGED reservation
        /\ \A j \in Invoker \ {i} : work'[j] = work[j]
        /\ \A q \in Key \ {k} : billed'[q] = billed[q]
        /\ work[i].at # "calling" => UNCHANGED billed
    BY <1>11, <1>t, <2>1 DEF Vanish, ledger, Idle
  <2>3. PaidUp(work[i], reservation[k], billed[k])
    BY <1>0, <2>1, <2>2 DEF Paid
  <2>4. Covered(k)'
    BY <1>0, <2>2, <2>3 DEF Covered, PaidUp
  <2> QED
    BY <1>0, <2>1, <2>2, <2>4, OneGoesOn DEF Paid
<1>12. CASE Revoke \/ GrantExpires \/ UNCHANGED vars
  BY <1>1, <1>12 DEF Revoke, GrantExpires, vars, ledger
<1> QED
  BY <1>2, <1>3, <1>4, <1>5, <1>6, <1>7, <1>8, <1>9, <1>10, <1>11, <1>12 DEF Next, Step

\* As long as no two delegators meet in one key, every row that is closed
\* covers what the provider has charged for it, however its call ended.
THEOREM EveryCallIsPaid == Spec => []NothingIsFree
<1>1. Init => FreeInv
  BY DEF Init, FreeInv, Apart, Paid, Covered, NoRow, Idle, Zero, Resource
<1>2. FreeInv => NothingIsFree
  BY DEF FreeInv, Covered, NothingIsFree, Open
<1>3. GrantTypeOK /\ Keyed /\ Keyed' /\ FreeInv /\ [Next]_vars => FreeInv'
  BY FreeStep
<1> QED
  BY <1>1, <1>2, <1>3, TypeInvariant, PTL DEF Spec

-----------------------------------------------------------------------------
(* The ledger.                                                             *)

BoundOf == [k \in Key |-> reservation[k].bound]
ActualOf(r) == [k \in Key |-> reservation[k].actual[r]]

\* The counters as sums that the lemmas above speak of.
Sums ==
  \A r \in Resource :
    grant.reserved[r] = Total(BoundOf, Open) /\ grant.used[r] = Total(ActualOf(r), Key)

\* A row that is not settled has used nothing.
FreshRows == \A k \in Key : reservation[k].state # "settled" => reservation[k].actual = Zero

LEMMA SumsAreLedger ==
  ASSUME GrantTypeOK
  PROVE  LedgerAgrees <=> Sums
<1>0. IsFiniteSet(Key) /\ IsFiniteSet(Open) /\ Open \subseteq Key
  BY GrantAssumption, FS_Subset DEF Open
<1> DEFINE Eq1(g) == g = [s \in SUBSET Open |-> IF s = {} THEN 0 ELSE
                                reservation[CHOOSE x \in s : TRUE].bound + g[s \ {CHOOSE x \in s : TRUE}]]
           Eq2(g, r) == g = [s \in SUBSET Key |-> IF s = {} THEN 0 ELSE
                                reservation[CHOOSE x \in s : TRUE].actual[r] + g[s \ {CHOOSE x \in s : TRUE}]]
<1>1. (CHOOSE g : Eq1(g))[Open] = Total(BoundOf, Open)
  <2>1. \A s \in SUBSET Open : s # {} =>
          reservation[CHOOSE x \in s : TRUE].bound = BoundOf[Pick(s)]
    BY <1>0, PickIn DEF Pick, BoundOf
  <2>2. \A g : Eq1(g) <=> IsFold(g, BoundOf, Open)
    BY <2>1 DEF IsFold, Pick
  <2>3. \E g : Eq1(g)
    <3> HIDE DEF Eq1
    <3> QED
      BY <1>0, <2>2, FoldExists
  <2> DEFINE h == CHOOSE g : Eq1(g)
  <2>4. Eq1(h)
    BY <2>3
  <2> HIDE DEF h, Eq1
  <2>5. h[Open] = Total(BoundOf, Open)
    BY <1>0, <2>2, <2>4, TotalIs
  <2> QED
    BY <2>5 DEF h
<1>2. ASSUME NEW r \in Resource
      PROVE  (CHOOSE g : Eq2(g, r))[Key] = Total(ActualOf(r), Key)
  <2>1. \A s \in SUBSET Key : s # {} =>
          reservation[CHOOSE x \in s : TRUE].actual[r] = ActualOf(r)[Pick(s)]
    BY <1>0, PickIn DEF Pick, ActualOf
  <2>2. \A g : Eq2(g, r) <=> IsFold(g, ActualOf(r), Key)
    BY <2>1 DEF IsFold, Pick
  <2>3. \E g : Eq2(g, r)
    <3> HIDE DEF Eq2
    <3> QED
      BY <1>0, <2>2, FoldExists
  <2> DEFINE h == CHOOSE g : Eq2(g, r)
  <2>4. Eq2(h, r)
    BY <2>3
  <2> HIDE DEF h, Eq2
  <2>5. h[Key] = Total(ActualOf(r), Key)
    BY <1>0, <2>2, <2>4, TotalIs
  <2> QED
    BY <2>5 DEF h
<1>3. LedgerAgrees <=> \A r \in Resource :
                          /\ grant.reserved[r] = (CHOOSE g : Eq1(g))[Open]
                          /\ grant.used[r] = (CHOOSE g : Eq2(g, r))[Key]
  BY DEF LedgerAgrees, MapThenSumSet, MapThenFoldSet
<1> HIDE DEF Eq1, Eq2
<1> QED
  BY <1>1, <1>2, <1>3 DEF Sums

\* A closed row leaves the sum of what is promised, and joins the sum of what
\* is used.
LEMMA RowCloses ==
  ASSUME GrantTypeOK, GrantTypeOK', Sums, NEW k \in Open, k \notin Open',
         \A q \in Key \ {k} : reservation'[q] = reservation[q],
         reservation'[k].bound = reservation[k].bound
  PROVE  /\ Total(BoundOf, Open)' = Total(BoundOf, Open) - reservation[k].bound
         /\ \A r \in Resource : Unreserved(reservation[k].bound)[r] = Total(BoundOf, Open)'
         /\ \A r \in Resource : Total(ActualOf(r), Key)' =
              Total(ActualOf(r), Key) - reservation[k].actual[r] + reservation'[k].actual[r]
<1>1. /\ IsFiniteSet(Key) /\ IsFiniteSet(Open) /\ Open \subseteq Key /\ Open' = Open \ {k}
      /\ IsFiniteSet(Open \ {k}) /\ IsFiniteSet(Key \ {k}) /\ k \in Key
  BY GrantAssumption, FS_Subset DEF Open
<1>2. /\ \A q \in Key : BoundOf[q] = reservation[q].bound /\ BoundOf[q] \in Nat
      /\ BoundOf' = BoundOf
  BY <1>1 DEF BoundOf, GrantTypeOK
<1>3. /\ Total(BoundOf, Open) = reservation[k].bound + Total(BoundOf, Open \ {k})
      /\ Total(BoundOf, Open) \in Nat /\ Total(BoundOf, Open \ {k}) \in Nat
      /\ Total(BoundOf, Open \ {k}) = Total(BoundOf, Open) - reservation[k].bound
  <2>1. /\ Total(BoundOf, Open) = BoundOf[k] + Total(BoundOf, Open \ {k})
        /\ Total(BoundOf, Open) \in Nat /\ Total(BoundOf, Open \ {k}) \in Nat
    BY <1>1, <1>2, TotalRemove, TotalNat
  <2>2. BoundOf[k] = reservation[k].bound /\ BoundOf[k] \in Nat
    BY <1>1, <1>2
  <2> QED
    BY <2>1, <2>2
<1>4. Total(BoundOf, Open)' = Total(BoundOf, Open \ {k})
  BY <1>1, <1>2
<1>5. ASSUME NEW r \in Resource
      PROVE  Unreserved(reservation[k].bound)[r] = Total(BoundOf, Open \ {k})
  <2>1. grant.reserved[r] = Total(BoundOf, Open) /\ reservation[k].bound \in Nat
    BY <1>1, <1>2 DEF Sums
  <2> QED
    BY <1>3, <2>1 DEF Unreserved, Less
<1>6. ASSUME NEW r \in Resource
      PROVE  Total(ActualOf(r), Key)' =
               Total(ActualOf(r), Key) - reservation[k].actual[r] + reservation'[k].actual[r]
  <2> DEFINE f == ActualOf(r)
             e == [q \in Key |-> reservation'[q].actual[r]]
  <2>1. /\ \A q \in Key : f[q] \in Nat /\ e[q] \in Nat
        /\ \A q \in Key \ {k} : f[q] = e[q]
        /\ f[k] = reservation[k].actual[r] /\ e[k] = reservation'[k].actual[r]
    BY <1>1 DEF ActualOf, GrantTypeOK
  <2>2. Total(ActualOf(r), Key)' = Total(e, Key)
    BY DEF ActualOf
  <2> HIDE DEF f, e
  <2>3. /\ Total(f, Key) = f[k] + Total(f, Key \ {k})
        /\ Total(e, Key) = e[k] + Total(e, Key \ {k})
        /\ Total(f, Key \ {k}) = Total(e, Key \ {k}) /\ Total(f, Key \ {k}) \in Nat
    BY <1>1, <2>1, TotalRemove, TotalSame, TotalNat
  <2>4. Total(e, Key) = Total(f, Key) - f[k] + e[k]
    BY <1>1, <2>1, <2>3
  <2> QED
    BY <2>1, <2>2, <2>4 DEF f
<1> QED
  BY <1>3, <1>4, <1>5, <1>6

\* Rows that keep their bounds, their use and whether they are open.
LEMMA SumsStay ==
  ASSUME Sums, UNCHANGED Open, grant'.used = grant.used, grant'.reserved = grant.reserved,
         \A q \in Key : /\ reservation'[q].bound = reservation[q].bound
                        /\ reservation'[q].actual = reservation[q].actual
  PROVE  Sums'
BY DEF Sums, BoundOf, ActualOf

\* A settlement moves a row from one sum to the other.
LEMMA SettleSums ==
  ASSUME GrantTypeOK, GrantTypeOK', Sums, FreshRows, NEW k \in Open,
         NEW price \in Nat \cup {None}, NEW usage \in Nat, SettleRow(k, price, usage)
  PROVE  Sums' /\ FreshRows'
<1>0. k \in Key /\ reservation[k].state = "reserved"
  BY DEF Open
<1>1. PICK cost : cost = Cost(reservation[k], price)
  OBVIOUS
<1>2. /\ reservation'[k].state = "settled" /\ reservation'[k].bound = reservation[k].bound
      /\ \A q \in Key \ {k} : reservation'[q] = reservation[q]
      /\ grant'.reserved = Unreserved(reservation[k].bound)
  BY <1>0, <1>1, SettleCounts
<1>3. /\ reservation'[k].actual = [r \in Resource |-> IF r = "money" THEN cost ELSE usage]
      /\ grant'.used["money"] = grant.used["money"] + cost
      /\ grant'.used["tokens"] = grant.used["tokens"] + usage /\ cost \in Nat
  BY <1>0, <1>1, SettleCounts
<1>4. k \notin Open'
  BY <1>2 DEF Open
<1>5. ASSUME NEW r \in Resource
      PROVE  grant'.used[r] = grant.used[r] - reservation[k].actual[r] + reservation'[k].actual[r]
  <2>1. reservation[k].actual[r] = 0 /\ grant.used[r] \in Nat
    BY <1>0 DEF FreshRows, Zero, GrantTypeOK
  <2>2. reservation'[k].actual["money"] = cost /\ reservation'[k].actual["tokens"] = usage
    BY <1>3 DEF Resource
  <2> QED
    BY <1>3, <2>1, <2>2 DEF Resource
<1>6. Sums'
  BY <1>2, <1>4, <1>5, RowCloses DEF Sums
<1>7. FreshRows'
  BY <1>2 DEF FreshRows
<1> QED
  BY <1>6, <1>7

\* A cancellation takes it out of the one.
LEMMA CancelSums ==
  ASSUME GrantTypeOK, GrantTypeOK', Sums, FreshRows, NEW k \in Open, CancelRow(k)
  PROVE  Sums' /\ FreshRows'
<1>0. k \in Key /\ reservation[k].state = "reserved"
  BY DEF Open
<1>1. /\ grant'.used = grant.used /\ grant'.reserved = Unreserved(reservation[k].bound)
      /\ \A q \in Key \ {k} : reservation'[q] = reservation[q]
  BY <1>0, CancelCounts
<1>2. /\ reservation'[k].state = "cancelled" /\ reservation'[k].bound = reservation[k].bound
      /\ reservation'[k].actual = reservation[k].actual
  BY <1>0, CancelCounts DEF GrantTypeOK
<1>3. k \notin Open'
  BY <1>2 DEF Open
<1>4. ASSUME NEW r \in Resource
      PROVE  grant'.used[r] = grant.used[r] - reservation[k].actual[r] + reservation'[k].actual[r]
  BY <1>0, <1>1, <1>2 DEF GrantTypeOK
<1>5. Sums'
  <2>1. \A r \in Resource :
          /\ grant'.reserved[r] = Total(BoundOf, Open)'
          /\ Total(ActualOf(r), Key)' =
               Total(ActualOf(r), Key) - reservation[k].actual[r] + reservation'[k].actual[r]
    BY <1>1, <1>2, <1>3, RowCloses
  <2> QED
    BY <1>4, <2>1 DEF Sums
<1>6. FreshRows'
  BY <1>0, <1>1, <1>2 DEF FreshRows
<1> QED
  BY <1>5, <1>6

\* A reservation joins the sum of what is promised.
LEMMA ReserveSums ==
  ASSUME GrantTypeOK, GrantTypeOK', Sums, FreshRows,
         NEW i \in Invoker, NEW k \in Key, NEW b \in Bound, ReserveNew(i, k, b)
  PROVE  Sums' /\ FreshRows'
<1>1. /\ grant'.used = grant.used
      /\ \A r \in Resource : grant'.reserved[r] = grant.reserved[r] + b
      /\ reservation[k].state = "none" /\ b \in Nat
      /\ reservation'[k] = [state |-> "reserved", started |-> FALSE, bound |-> b, actual |-> Zero]
      /\ \A q \in Key \ {k} : reservation'[q] = reservation[q]
  BY GrantAssumption DEF ReserveNew, GrantTypeOK
<1>2. /\ IsFiniteSet(Key) /\ Open \subseteq Key /\ Open' = Open \cup {k} /\ k \notin Open
      /\ IsFiniteSet(Open') /\ Open' \ {k} = Open /\ IsFiniteSet(Open) /\ Open' \subseteq Key
  BY <1>1, GrantAssumption, FS_Subset DEF Open
<1>3. Total(BoundOf, Open)' = b + Total(BoundOf, Open)
  <2> DEFINE f == BoundOf
             e == [q \in Key |-> reservation'[q].bound]
  <2>1. /\ \A q \in Key : e[q] \in Nat
        /\ \A q \in Key \ {k} : f[q] = e[q]
        /\ e[k] = b
    BY <1>1 DEF BoundOf, GrantTypeOK
  <2>2. Total(BoundOf, Open)' = Total(e, Open')
    BY DEF BoundOf
  <2> HIDE DEF f, e
  <2>3. /\ Total(e, Open') = e[k] + Total(e, Open' \ {k})
        /\ Total(e, Open) = Total(f, Open)
    BY <1>2, <2>1, TotalRemove, TotalSame
  <2> QED
    BY <1>2, <2>1, <2>2, <2>3 DEF f
<1>4. ASSUME NEW r \in Resource
      PROVE  Total(ActualOf(r), Key)' = Total(ActualOf(r), Key)
  <2>1. \A q \in Key : reservation'[q].actual = reservation[q].actual
    BY <1>1 DEF FreshRows
  <2> QED
    BY <2>1 DEF ActualOf
<1>5. \A r \in Resource : grant.reserved[r] + b = b + grant.reserved[r]
  BY <1>1 DEF GrantTypeOK
<1>6. Sums'
  BY <1>1, <1>3, <1>4, <1>5 DEF Sums
<1>7. FreshRows'
  BY <1>1 DEF FreshRows
<1> QED
  BY <1>6, <1>7

LEMMA SumsStep ==
  ASSUME GrantTypeOK, Keyed, GrantTypeOK', Sums, FreshRows, [Next]_vars
  PROVE  Sums' /\ FreshRows'
<1>0. /\ \A i \in Invoker : work[i].price \in Nat \cup {None} /\ work[i].usage \in Nat
      /\ \A k \in Key : reservation[k].bound \in Nat
  BY DEF GrantTypeOK
<1>1. ASSUME UNCHANGED ledger
      PROVE  Sums' /\ FreshRows'
  BY <1>1, SumsStay DEF ledger, Open, FreshRows
<1>2. CASE Revoke \/ GrantExpires
  <2>1. grant'.used = grant.used /\ grant'.reserved = grant.reserved /\ UNCHANGED reservation
    BY <1>2 DEF Revoke, GrantExpires, GrantTypeOK
  <2> QED
    BY <2>1, SumsStay DEF Open, FreshRows
<1>3. ASSUME NEW i \in Invoker, NEW k \in Key, NEW b \in Bound, ReserveNew(i, k, b)
      PROVE  Sums' /\ FreshRows'
  BY <1>3, ReserveSums
<1>4. ASSUME NEW i \in Invoker, MarkStarted(i)
      PROVE  Sums' /\ FreshRows'
  <2>1. work[i].key \in Key /\ UNCHANGED grant
    BY <1>4, BecomesTypes DEF MarkStarted
  <2>2. \A q \in Key : /\ reservation'[q].bound = reservation[q].bound
                       /\ reservation'[q].actual = reservation[q].actual
                       /\ reservation'[q].state = reservation[q].state
    BY <1>4, <2>1 DEF MarkStarted, GrantTypeOK
  <2> QED
    BY <2>1, <2>2, SumsStay DEF Open, FreshRows
<1>5. ASSUME NEW i \in Invoker, Settle(i)
      PROVE  Sums' /\ FreshRows'
  BY <1>0, <1>1, <1>5, SettleSums DEF Settle
<1>6. ASSUME NEW i \in Invoker, Abort(i)
      PROVE  Sums' /\ FreshRows'
  BY <1>1, <1>6, CancelSums DEF Abort
<1>7. ASSUME NEW i \in Invoker, Consume(i)
      PROVE  Sums' /\ FreshRows'
  <2>1. work[i].key \in Key
    BY <1>7, BecomesTypes DEF Consume
  <2> QED
    BY <1>0, <1>1, <1>7, <2>1, SettleSums DEF Consume
<1> QED
  BY <1>1, <1>2, <1>3, <1>4, <1>5, <1>6, <1>7
     DEF Next, Step, ReserveAgain, PreparationFails, Answers, CallFails, Vanish, vars

\* The counters of the grant are the sums of its rows in every reachable
\* state, for every number of rows: nothing is counted or given back twice.
THEOREM CountersAreSums == Spec => []LedgerAgrees
<1>1. Init => Sums /\ FreshRows
  <2> SUFFICES ASSUME Init
               PROVE  Sums /\ FreshRows
    OBVIOUS
  <2>1. Open = {} /\ FreshRows
    BY DEF Init, Open, NoRow, FreshRows
  <2>2. Total(BoundOf, {}) = 0
    BY TotalEmpty
  <2>3. ASSUME NEW r \in Resource
        PROVE  Total(ActualOf(r), Key) = 0
    <3> DEFINE F == {S \in SUBSET Key : Total(ActualOf(r), S) # 0}
    <3>1. ASSUME F # {}
          PROVE  FALSE
      <4>1. PICK S \in F : \A t \in F : t \subseteq S => t = S
        <5>1. F \subseteq SUBSET Key /\ IsFiniteSet(Key)
          BY GrantAssumption
        <5> HIDE DEF F
        <5> QED
          BY <3>1, <5>1, SmallestSubset
      <4>2. Total(ActualOf(r), {}) = 0
        BY TotalEmpty
      <4>3. S # {} /\ IsFiniteSet(S) /\ Pick(S) \in S
        BY <4>1, <4>2, GrantAssumption, FS_Subset, PickIn
      <4>4. Total(ActualOf(r), S) = ActualOf(r)[Pick(S)] + Total(ActualOf(r), S \ {Pick(S)})
        BY <4>3, TotalPick
      <4>5. Total(ActualOf(r), S \ {Pick(S)}) = 0
        BY <4>1, <4>3
      <4>6. ActualOf(r)[Pick(S)] = 0
        BY <4>1, <4>3 DEF ActualOf, Init, NoRow, Zero
      <4> QED
        BY <4>1, <4>4, <4>5, <4>6
    <3> QED
      BY <3>1
  <2> QED
    BY <2>1, <2>2, <2>3 DEF Sums, Init, Zero
<1>2. GrantTypeOK /\ Keyed /\ GrantTypeOK' /\ Sums /\ FreshRows /\ [Next]_vars => Sums' /\ FreshRows'
  BY SumsStep
<1>3. GrantTypeOK /\ Sums => LedgerAgrees
  BY SumsAreLedger
<1> QED
  BY <1>1, <1>2, <1>3, TypeInvariant, PTL DEF Spec
=============================================================================
