----------------------------- MODULE MoneyProofs -----------------------------
(***************************************************************************)
(* Proofs that the transfers of TransferSaga neither make nor destroy      *)
(* money, for any sets of users and transfers: only the wallets there are  *)
(* at the start are finitely many, and that the rest stays so is proved.   *)
(*                                                                         *)
(* Part 1: the sum over a finite set is what one expects of a sum.         *)
(* Part 2: what each step does to the sum of all money.                    *)
(***************************************************************************)
EXTENDS TransferSagaProofs, FiniteSetTheorems

-----------------------------------------------------------------------------
(***************************************************************************)
(* Part 1.  MoneyIn folds over a set by a recursive function, of which the *)
(* provers know only that it is CHOSEN to satisfy its equation.  So the    *)
(* function is shown to exist first.  Induction over finite sets takes a   *)
(* set G of the sets that have the property, not an operator: the theorem  *)
(* behind it is that strict inclusion is well founded.                     *)
(***************************************************************************)
Pick(S) == CHOOSE x \in S : TRUE
IsSumOf(g, f, S) ==
    g = [T \in SUBSET S |-> IF T = {} THEN 0 ELSE f[Pick(T)] + g[T \ {Pick(T)}]]

SumsOf(f, S) == CHOOSE g : IsSumOf(g, f, S)

\* The fold of the library is such a list of partial sums, looked up at the whole set.
LEMMA MoneyUnfolds ==
  ASSUME NEW f, NEW S
  PROVE  MoneyIn(f, S) = SumsOf(f, S)[S]
  BY Zenon DEF SumsOf, MoneyIn, MapThenSumSet, MapThenFoldSet, IsSumOf, Pick

\* Induction over the subsets of a finite set.
LEMMA FiniteInduction ==
  ASSUME NEW S, IsFiniteSet(S), NEW G,
         \A T \in SUBSET S : (\A U \in SUBSET T : U # T => U \in G) => T \in G
  PROVE  S \in G
  <1> DEFINE Bad == {T \in SUBSET S : T \notin G}
  <1> SUFFICES ASSUME Bad # {} PROVE FALSE
    OBVIOUS
  <1>1. IsWellFoundedOn(StrictSubsetOrdering(S), FiniteSubsetsOf(S))
    BY FS_StrictSubsetOrderingWellFounded
  <1>2. Bad \subseteq FiniteSubsetsOf(S)
    BY FS_FiniteSubsetsOfFinite
  <1>3. PICK T \in Bad : \A U \in Bad : <<U, T>> \notin StrictSubsetOrdering(S)
    <2> HIDE DEF Bad
    <2> QED
      BY <1>1, <1>2, WFMin
  <1>4. \A U \in SUBSET T : U # T => U \in G
    BY <1>3 DEF StrictSubsetOrdering
  <1> QED
    BY <1>3, <1>4

\* Two lists of partial sums agree where both are defined.
LEMMA SumsAgree ==
  ASSUME NEW f, NEW S, IsFiniteSet(S), NEW U \in SUBSET S, NEW g, NEW h,
         IsSumOf(g, f, S), IsSumOf(h, f, U)
  PROVE  g[U] = h[U]
  <1> DEFINE G == {T \in SUBSET U : g[T] = h[T]}
  <1>1. ASSUME NEW T \in SUBSET U, \A V \in SUBSET T : V # T => V \in G
        PROVE  T \in G
    <2>1. CASE T = {}
      BY <2>1 DEF IsSumOf
    <2>2. CASE T # {}
      <3> DEFINE V == T \ {Pick(T)}
      <3>1. Pick(T) \in T
        BY <2>2 DEF Pick
      <3>2. g[V] = h[V]
        BY <1>1, <3>1
      <3> HIDE DEF V
      <3>3. g[T] = f[Pick(T)] + g[V] /\ h[T] = f[Pick(T)] + h[V]
        BY <2>2 DEF IsSumOf, V
      <3> QED
        BY <3>2, <3>3
    <2> QED
      BY <2>1, <2>2
  <1>2. IsFiniteSet(U)
    BY FS_Subset
  <1> HIDE DEF G
  <1>3. U \in G
    BY <1>1, <1>2, FiniteInduction
  <1> QED
    BY <1>3 DEF G

\* There are partial sums, so that the CHOOSE above names them.
LEMMA SumsExist ==
  ASSUME NEW f, NEW S, IsFiniteSet(S)
  PROVE  IsSumOf(SumsOf(f, S), f, S)
  <1> DEFINE G == {T \in SUBSET S : \E g : IsSumOf(g, f, T)}
  <1>1. ASSUME NEW T \in SUBSET S, \A U \in SUBSET T : U # T => U \in G
        PROVE  T \in G
    <2> DEFINE V(U) == SumsOf(f, U)[U]
               h == [U \in SUBSET T |-> IF U = {} THEN 0 ELSE f[Pick(U)] + V(U \ {Pick(U)})]
    <2>1. ASSUME NEW U \in SUBSET T, U # T
          PROVE  IsSumOf(SumsOf(f, U), f, U) /\ IsFiniteSet(U)
      BY <1>1, <2>1, FS_Subset DEF SumsOf
    <2>2. ASSUME NEW U \in SUBSET T, U # T
          PROVE  h[U] = V(U)
      <3>1. CASE U = {}
        BY <2>1, <2>2, <3>1 DEF IsSumOf
      <3>2. CASE U # {}
        <4> DEFINE W == U \ {Pick(U)}
        <4>1. Pick(U) \in U
          BY <3>2 DEF Pick
        <4>2. W \in SUBSET U /\ W # T
          BY <2>2, <4>1
        <4>3. SumsOf(f, U)[W] = V(W)
          <5> HIDE DEF W
          <5> QED
            BY <2>1, <2>2, <4>2, SumsAgree
        <4>4. V(U) = f[Pick(U)] + SumsOf(f, U)[W]
          <5>1. IsSumOf(SumsOf(f, U), f, U)
            BY <2>1, <2>2
          <5> QED
            BY <3>2, <5>1, Zenon DEF IsSumOf
        <4> QED
          BY <3>2, <4>3, <4>4
      <3> QED
        BY <3>1, <3>2
    <2>3. ASSUME NEW U \in SUBSET T, U # {}
          PROVE  h[U \ {Pick(U)}] = V(U \ {Pick(U)})
      <3>1. Pick(U) \in U
        BY <2>3 DEF Pick
      <3>2. U \ {Pick(U)} \in SUBSET T /\ U \ {Pick(U)} # T
        BY <3>1
      <3> HIDE DEF h, V
      <3> QED
        BY <2>2, <3>2
    <2>4. h = [U \in SUBSET T |-> IF U = {} THEN 0 ELSE f[Pick(U)] + h[U \ {Pick(U)}]]
      <3> DEFINE k == [U \in SUBSET T |-> IF U = {} THEN 0 ELSE f[Pick(U)] + h[U \ {Pick(U)}]]
      <3>1. ASSUME NEW U \in SUBSET T PROVE h[U] = k[U]
        BY <2>3, Zenon
      <3> QED
        BY <3>1, Zenon
    <2> QED
      BY <2>4, Zenon DEF IsSumOf
  <1> HIDE DEF G
  <1>2. S \in G
    BY <1>1, FiniteInduction
  <1> QED
    BY <1>2 DEF G, SumsOf

\* The sum of nothing.
LEMMA MoneyInNothing ==
  ASSUME NEW f
  PROVE  MoneyIn(f, {}) = 0
  <1>1. IsSumOf(SumsOf(f, {}), f, {})
    BY SumsExist, FS_EmptySet
  <1> QED
    BY <1>1, MoneyUnfolds DEF IsSumOf

\* The equation of the sum: one term, the CHOSEN one, and the rest.
LEMMA MoneyInPicked ==
  ASSUME NEW f, NEW S, IsFiniteSet(S), S # {}
  PROVE  MoneyIn(f, S) = f[Pick(S)] + MoneyIn(f, S \ {Pick(S)})
  <1> DEFINE W == S \ {Pick(S)}
  <1>1. IsSumOf(SumsOf(f, S), f, S)
    BY SumsExist
  <1>2. IsFiniteSet(W) /\ IsSumOf(SumsOf(f, W), f, W)
    BY SumsExist, FS_Subset
  <1>3. SumsOf(f, S)[W] = SumsOf(f, W)[W]
    BY <1>1, <1>2, SumsAgree
  <1>4. SumsOf(f, S)[S] = f[Pick(S)] + SumsOf(f, S)[W]
    BY <1>1, Zenon DEF IsSumOf
  <1> QED
    BY <1>3, <1>4, MoneyUnfolds

\* Integers add up to an integer.
LEMMA MoneyInIsInt ==
  ASSUME NEW S, IsFiniteSet(S), NEW f, \A i \in S : f[i] \in Int
  PROVE  MoneyIn(f, S) \in Int
  <1> DEFINE G == {T \in SUBSET S : MoneyIn(f, T) \in Int}
  <1>1. ASSUME NEW T \in SUBSET S, \A U \in SUBSET T : U # T => U \in G
        PROVE  T \in G
    <2>1. CASE T = {}
      BY <2>1, MoneyInNothing
    <2>2. CASE T # {}
      <3>1. Pick(T) \in T
        BY <2>2 DEF Pick
      <3>2. MoneyIn(f, T \ {Pick(T)}) \in Int
        BY <1>1, <3>1
      <3>3. MoneyIn(f, T) = f[Pick(T)] + MoneyIn(f, T \ {Pick(T)})
        BY <2>2, MoneyInPicked, FS_Subset
      <3> QED
        BY <3>1, <3>2, <3>3
    <2> QED
      BY <2>1, <2>2
  <1> HIDE DEF G
  <1>2. S \in G
    BY <1>1, FiniteInduction
  <1> QED
    BY <1>2 DEF G

\* The order of the additions does not matter: any term can be taken out.
LEMMA MoneyInWithout ==
  ASSUME NEW S, IsFiniteSet(S), NEW f, \A i \in S : f[i] \in Int, NEW x \in S
  PROVE  MoneyIn(f, S) = f[x] + MoneyIn(f, S \ {x})
  <1> DEFINE G == {T \in SUBSET S :
                    \A y \in T : MoneyIn(f, T) = f[y] + MoneyIn(f, T \ {y})}
  <1>1. ASSUME NEW T \in SUBSET S, \A U \in SUBSET T : U # T => U \in G
        PROVE  T \in G
    <2> SUFFICES ASSUME NEW y \in T
                 PROVE  MoneyIn(f, T) = f[y] + MoneyIn(f, T \ {y})
      OBVIOUS
    <2> DEFINE p == Pick(T)
    <2>1. p \in T
      BY DEF Pick
    <2>2. MoneyIn(f, T) = f[p] + MoneyIn(f, T \ {p})
      BY MoneyInPicked, FS_Subset
    <2> HIDE DEF p
    <2>3. CASE p = y
      BY <2>2, <2>3
    <2>4. CASE p # y
      <3> DEFINE V == (T \ {p}) \ {y}
      <3>1. MoneyIn(f, T \ {p}) = f[y] + MoneyIn(f, V)
        BY <1>1, <2>1, <2>4
      <3>2. MoneyIn(f, T \ {y}) = f[p] + MoneyIn(f, V)
        <4>1. V = (T \ {y}) \ {p}
          OBVIOUS
        <4> QED
          BY <1>1, <2>1, <2>4, <4>1
      <3>3. f[y] \in Int /\ f[p] \in Int /\ MoneyIn(f, V) \in Int
        <4>1. IsFiniteSet(V)
          BY FS_Subset
        <4>2. \A i \in V : f[i] \in Int
          OBVIOUS
        <4> HIDE DEF V
        <4> QED
          BY <2>1, <4>1, <4>2, MoneyInIsInt
      <3> HIDE DEF V
      <3> QED
        BY <2>2, <3>1, <3>2, <3>3
    <2> QED
      BY <2>3, <2>4
  <1> HIDE DEF G
  <1>2. S \in G
    BY <1>1, FiniteInduction
  <1> QED
    BY <1>2 DEF G

\* Only the terms in the set count.
LEMMA MoneyInSame ==
  ASSUME NEW S, IsFiniteSet(S), NEW f, NEW g, \A i \in S : f[i] = g[i]
  PROVE  MoneyIn(f, S) = MoneyIn(g, S)
  <1> DEFINE G == {T \in SUBSET S : MoneyIn(f, T) = MoneyIn(g, T)}
  <1>1. ASSUME NEW T \in SUBSET S, \A U \in SUBSET T : U # T => U \in G
        PROVE  T \in G
    <2>1. CASE T = {}
      BY <2>1, MoneyInNothing
    <2>2. CASE T # {}
      <3>1. Pick(T) \in T
        BY <2>2 DEF Pick
      <3>2. MoneyIn(f, T \ {Pick(T)}) = MoneyIn(g, T \ {Pick(T)})
        BY <1>1, <3>1
      <3>3. /\ MoneyIn(f, T) = f[Pick(T)] + MoneyIn(f, T \ {Pick(T)})
            /\ MoneyIn(g, T) = g[Pick(T)] + MoneyIn(g, T \ {Pick(T)})
        BY <2>2, MoneyInPicked, FS_Subset
      <3> QED
        BY <3>1, <3>2, <3>3
    <2> QED
      BY <2>1, <2>2
  <1> HIDE DEF G
  <1>2. S \in G
    BY <1>1, FiniteInduction
  <1> QED
    BY <1>2 DEF G

\* A new place adds its money.
LEMMA MoneyInOneMore ==
  ASSUME NEW S, IsFiniteSet(S), NEW x, x \notin S, NEW f, NEW g,
         \A i \in S : f[i] \in Int /\ g[i] = f[i], g[x] \in Int
  PROVE  MoneyIn(g, S \union {x}) = MoneyIn(f, S) + g[x]
  <1>1. IsFiniteSet(S \union {x})
    BY FS_AddElement
  <1>2. (S \union {x}) \ {x} = S
    OBVIOUS
  <1>3. MoneyIn(g, S \union {x}) = g[x] + MoneyIn(g, S)
    BY <1>1, <1>2, MoneyInWithout
  <1>4. MoneyIn(g, S) = MoneyIn(f, S) /\ MoneyIn(f, S) \in Int
    BY MoneyInSame, MoneyInIsInt
  <1> QED
    BY <1>3, <1>4

\* A place whose money changes changes the sum by as much.
LEMMA MoneyInOneChanged ==
  ASSUME NEW S, IsFiniteSet(S), NEW x \in S, NEW f, NEW g,
         \A i \in S : f[i] \in Int, g[x] \in Int, \A i \in S \ {x} : g[i] = f[i]
  PROVE  MoneyIn(g, S) = MoneyIn(f, S) + (g[x] - f[x])
  <1> DEFINE V == S \ {x}
  <1>1. IsFiniteSet(V)
    BY FS_Subset
  <1>2. MoneyIn(f, S) = f[x] + MoneyIn(f, V)
    BY MoneyInWithout
  <1>3. MoneyIn(g, S) = g[x] + MoneyIn(g, V)
    BY MoneyInWithout
  <1>4. MoneyIn(g, V) = MoneyIn(f, V) /\ MoneyIn(f, V) \in Int
    BY <1>1, MoneyInSame, MoneyInIsInt
  <1> QED
    BY <1>2, <1>3, <1>4

-----------------------------------------------------------------------------
(***************************************************************************)
(* Part 2.                                                                 *)
(***************************************************************************)
MInv == RInv /\ MoneyHasPlaces

HeldAmounts == [t \in Held |-> req[t].amount]

\* At the start nothing is held.
LEMMA InitMoney == Init => MoneyHasPlaces /\ Money = InitialMoney
  <1> SUFFICES ASSUME Init PROVE MoneyHasPlaces /\ Money = InitialMoney
    OBVIOUS
  <1>1. Held = {} /\ MoneyHasPlaces
    BY FundingAssumption, FS_EmptySet DEF Init, Held, MoneyHasPlaces
  <1>2. MoneyIn(balance, wallets) = MoneyIn(Funding, DOMAIN Funding)
    BY FundingAssumption, MoneyInSame DEF Init
  <1>3. MoneyIn(Funding, DOMAIN Funding) \in Int
    BY FundingAssumption, MoneyInIsInt
  <1>4. MoneyIn([t \in Held |-> req[t].amount], Held) = 0
    BY <1>1, MoneyInNothing
  <1> QED
    BY <1>1, <1>2, <1>3, <1>4 DEF Money, InitialMoney

\* Both parts of the sum are numbers.
LEMMA MoneyIsInt ==
  ASSUME MInv
  PROVE  /\ \A u \in wallets : balance[u] \in Int
         /\ \A t \in Held : HeldAmounts[t] \in Int
         /\ MoneyIn(balance, wallets) \in Int
         /\ MoneyIn(HeldAmounts, Held) \in Int
         /\ Money = MoneyIn(balance, wallets) + MoneyIn(HeldAmounts, Held)
         /\ Money \in Int
  <1>1. \A u \in wallets : balance[u] \in Int
    BY DEF MInv, RInv, IInv, TypeOK
  <1>2. \A t \in Held : HeldAmounts[t] \in Int
    BY AmountsAssumption DEF MInv, MoneyHasPlaces, HeldAmounts, Requests
  <1>3. MoneyIn(balance, wallets) \in Int /\ MoneyIn(HeldAmounts, Held) \in Int
    BY <1>1, <1>2, MoneyInIsInt DEF MInv, MoneyHasPlaces
  <1>4. Money = MoneyIn(balance, wallets) + MoneyIn(HeldAmounts, Held)
    BY DEF Money, HeldAmounts
  <1> QED
    BY <1>1, <1>2, <1>3, <1>4

\* A step that touches neither rows nor records leaves the sum alone.
LEMMA MoneyStutters ==
  ASSUME MInv, UNCHANGED <<wallets, balance, status>>,
         \A t \in Held : req'[t] = req[t]
  PROVE  MoneyHasPlaces' /\ Money' = Money
  <1>1. Held' = Held
    BY DEF Held
  <1>2. HeldAmounts' = HeldAmounts
    BY <1>1 DEF HeldAmounts
  <1> QED
    BY <1>1, <1>2 DEF MInv, MoneyHasPlaces, Money, HeldAmounts

\* A new wallet adds nothing.
LEMMA NewWalletIsEmpty ==
  ASSUME MInv, NEW u \in Users, CreateWallet(u)
  PROVE  MoneyHasPlaces' /\ Money' = Money
  <1>1. balance[u] = 0 /\ u \notin wallets /\ wallets' = wallets \union {u}
    BY DEF CreateWallet, MInv, MoneyHasPlaces
  <1>2. Held' = Held /\ HeldAmounts' = HeldAmounts /\ balance' = balance
    BY DEF CreateWallet, Held, HeldAmounts
  <1>3. MoneyHasPlaces'
    BY <1>1, <1>2, FS_AddElement DEF MInv, MoneyHasPlaces, CreateWallet
  <1>4. MoneyIn(balance, wallets \union {u}) = MoneyIn(balance, wallets) + 0
    <2>1. IsFiniteSet(wallets) /\ \A v \in wallets : balance[v] \in Int /\ balance[v] = balance[v]
      BY MoneyIsInt DEF MInv, MoneyHasPlaces
    <2>2. balance[u] \in Int
      BY <1>1
    <2>3. MoneyIn(balance, wallets \union {u}) = MoneyIn(balance, wallets) + balance[u]
      BY <1>1, <2>1, <2>2, MoneyInOneMore
    <2> QED
      BY <1>1, <2>3
  <1> QED
    BY <1>1, <1>2, <1>3, <1>4, MoneyIsInt DEF Money, HeldAmounts

\* COMMIT of the deduction: what leaves the sender's wallet is held.
LEMMA CommitKeepsMoney ==
  ASSUME MInv, NEW t \in Transfers, TransferCommit(t)
  PROVE  MoneyHasPlaces' /\ Money' = Money
  <1> DEFINE u == req[t].from
             a == req[t].amount
  <1>1. /\ req[t] \in Requests /\ u \in wallets /\ a \in Int
        /\ status[t] = "none" /\ seen[t] = balance[u]
    BY NumbersOfSaga
    DEF TransferCommit, MInv, RInv, IInv, SagasAreWellFormed, StatusFollowsStage,
        LockedReadIsCurrent, WalletOf, Live, Resting, Stages
  <1>2. t \notin Held /\ Held' = Held \union {t}
    BY <1>1 DEF TransferCommit, Held, MInv, RInv, IInv, TypeOK
  <1>3. UNCHANGED <<wallets, req>>
    BY DEF TransferCommit
  <1>4. /\ balance'[u] = balance[u] - a
        /\ \A v \in Users \ {u} : balance'[v] = balance[v]
    BY <1>1 DEF TransferCommit, MInv, RInv, IInv, TypeOK
  <1>5. wallets \subseteq Users
    BY DEF MInv, RInv, IInv, TypeOK
  <1>6. MoneyHasPlaces'
    BY <1>1, <1>2, <1>3, <1>4, FS_AddElement DEF MInv, MoneyHasPlaces
  <1>7. MoneyIn(balance', wallets) = MoneyIn(balance, wallets) - a
    <2>1. MoneyIn(balance', wallets) = MoneyIn(balance, wallets) + (balance'[u] - balance[u])
      BY <1>1, <1>4, <1>5, MoneyIsInt, MoneyInOneChanged DEF MInv, MoneyHasPlaces
    <2> QED
      BY <1>1, <1>4, <2>1, MoneyIsInt
  <1>8. MoneyIn(HeldAmounts', Held') = MoneyIn(HeldAmounts, Held) + a
    <2> DEFINE h == HeldAmounts'
    <2>1. h[t] = a /\ \A s \in Held : h[s] = HeldAmounts[s]
      BY <1>2, <1>3 DEF HeldAmounts
    <2>2. IsFiniteSet(Held) /\ \A s \in Held : HeldAmounts[s] \in Int
      BY MoneyIsInt DEF MInv, MoneyHasPlaces
    <2>3. MoneyIn(h, Held') = MoneyIn(h, Held \union {t})
      BY <1>2
    <2> HIDE DEF a, h
    <2>4. h[t] \in Int /\ \A s \in Held : HeldAmounts[s] \in Int /\ h[s] = HeldAmounts[s]
      BY <1>1, <2>1, <2>2
    <2>5. MoneyIn(h, Held \union {t}) = MoneyIn(HeldAmounts, Held) + h[t]
      BY <1>2, <2>2, <2>4, MoneyInOneMore
    <2>6. MoneyIn(h, Held') = MoneyIn(HeldAmounts, Held) + a
      BY <2>1, <2>3, <2>5
    <2> QED
      BY <2>6 DEF h
  <1> QED
    BY <1>1, <1>3, <1>6, <1>7, <1>8, MoneyIsInt DEF Money, HeldAmounts

\* COMMIT of the credit or of the refund: what was held arrives in a wallet.
\* Money is made if nothing was held any more.
LEMMA CommitSettles ==
  ASSUME MInv, NEW t \in Transfers, NEW u \in wallets,
         req[t] \in Requests, req[t].amount > 0,
         balance' = [balance EXCEPT ![u] = balance[u] + req[t].amount],
         NEW s \in {"SUCCESS", "FAILED"}, status' = [status EXCEPT ![t] = s],
         UNCHANGED <<wallets, req>>
  PROVE  /\ MoneyHasPlaces'
         /\ t \in Held => Money' = Money
         /\ t \notin Held => Money' = Money + req[t].amount
  <1> DEFINE a == req[t].amount
  <1>1. wallets \subseteq Users /\ a \in Int /\ balance[u] \in Int
    BY AmountsAssumption DEF MInv, RInv, IInv, TypeOK, Requests
  <1>2. Held' = Held \ {t}
    BY DEF Held, MInv, RInv, IInv, TypeOK
  <1>3. /\ balance'[u] = balance[u] + a
        /\ \A v \in Users \ {u} : balance'[v] = balance[v]
    BY <1>1 DEF MInv, RInv, IInv, TypeOK
  <1>4. MoneyHasPlaces'
    BY <1>1, <1>2, <1>3, FS_RemoveElement DEF MInv, MoneyHasPlaces
  <1>5. IsFiniteSet(Held) /\ \A x \in Held : HeldAmounts[x] \in Int
    BY MoneyIsInt DEF MInv, MoneyHasPlaces
  <1>6. MoneyIn(balance', wallets) = MoneyIn(balance, wallets) + a
    <2> DEFINE b == balance'
    <2>1. IsFiniteSet(wallets) /\ \A v \in wallets : balance[v] \in Int
      BY MoneyIsInt DEF MInv, MoneyHasPlaces
    <2>2. b[u] = balance[u] + a /\ \A v \in wallets \ {u} : b[v] = balance[v]
      BY <1>1, <1>3
    <2> HIDE DEF a, b
    <2>3. MoneyIn(b, wallets) = MoneyIn(balance, wallets) + (b[u] - balance[u])
      BY <1>1, <2>1, <2>2, MoneyInOneChanged
    <2>4. MoneyIn(b, wallets) = MoneyIn(balance, wallets) + a
      BY <1>1, <2>2, <2>3
    <2> QED
      BY <2>4 DEF b
  <1>7. MoneyIn(HeldAmounts', Held') = MoneyIn(HeldAmounts, Held')
    <2>1. \A x \in Held' : HeldAmounts'[x] = HeldAmounts[x]
      BY <1>2 DEF HeldAmounts
    <2>2. IsFiniteSet(Held')
      BY <1>2, <1>5, FS_RemoveElement
    <2> DEFINE h == HeldAmounts'
               H == Held'
    <2> HIDE DEF h, H
    <2> QED
      BY <2>1, <2>2, MoneyInSame DEF h, H
  <1>8. MoneyIn(HeldAmounts, Held') \in Int
    BY <1>2, <1>5, FS_RemoveElement, MoneyInIsInt
  <1>9. t \in Held => MoneyIn(HeldAmounts, Held) = a + MoneyIn(HeldAmounts, Held')
    BY <1>2, <1>5, MoneyInWithout DEF HeldAmounts
  <1>10. t \notin Held => Held' = Held
    BY <1>2
  <1> HIDE DEF a
  <1> QED
    BY <1>1, <1>4, <1>6, <1>7, <1>8, <1>9, <1>10, MoneyIsInt DEF Money, HeldAmounts, a

\* The credit finds the amount held.
LEMMA CreditSettles ==
  ASSUME MInv, NEW t \in Transfers, CreditCommit(t)
  PROVE  MoneyHasPlaces' /\ Money' = Money
  <1>1. /\ req[t] \in Requests /\ req[t].amount > 0 /\ req[t].to \in wallets
        /\ status[t] = "PENDING" /\ seen[t] = balance[req[t].to]
    BY NumbersOfSaga
    DEF CreditCommit, MInv, RInv, IInv, SagasAreWellFormed, StatusFollowsStage,
        LockedReadIsCurrent, WalletOf, Live, Resting, Stages
  <1>2. t \in Held
    BY <1>1 DEF Held
  <1>3. balance' = [balance EXCEPT ![req[t].to] = balance[req[t].to] + req[t].amount]
    BY <1>1 DEF CreditCommit
  <1> QED
    BY <1>1, <1>2, <1>3, CommitSettles DEF CreditCommit

\* A refund after a credit whose answer was lost pays the amount a second time.
LEMMA RefundSettles ==
  ASSUME MInv, NEW t \in Transfers, RefundCommit(t)
  PROVE  /\ MoneyHasPlaces'
         /\ \/ Money' = Money
            \/ "creditAck" \in Faults /\ \E a \in Nat : Money' = Money + a
  <1>1. /\ req[t] \in Requests /\ req[t].amount > 0 /\ req[t].from \in wallets
        /\ lock[req[t].from] = t /\ seen[t] = balance[req[t].from]
        /\ status[t] = "PENDING" \/ "creditAck" \in Faults
    BY NumbersOfSaga
    DEF RefundCommit, MInv, RInv, IInv, SagasAreWellFormed, StatusFollowsStage,
        LockedReadIsCurrent, WalletOf, Live, Resting, Stages
  <1>2. t \in Held \/ "creditAck" \in Faults
    BY <1>1 DEF Held
  <1>3. balance' = [balance EXCEPT ![req[t].from] = balance[req[t].from] + req[t].amount]
    BY <1>1 DEF RefundCommit
  <1>4. Money \in Int /\ req[t].amount \in Int
    BY <1>1, MoneyIsInt, AmountsAssumption DEF Requests
  <1>5. /\ MoneyHasPlaces'
        /\ t \in Held => Money' = Money
        /\ t \notin Held => Money' = Money + req[t].amount
    BY <1>1, <1>3, CommitSettles DEF RefundCommit
  <1> QED
    BY <1>1, <1>2, <1>4, <1>5

\* What each step does to the sum.
LEMMA MoneyStep ==
  ASSUME MInv, [Next]_vars
  PROVE  /\ MoneyHasPlaces'
         /\ \/ Money' = Money
            \/ "creditAck" \in Faults /\ \E a \in Nat : Money' = Money + a
  <1>1. CASE \E t \in Transfers : TransferCommit(t)
    BY <1>1, CommitKeepsMoney
  <1>2. CASE \E t \in Transfers : CreditCommit(t)
    BY <1>2, CreditSettles
  <1>3. CASE \E t \in Transfers : RefundCommit(t)
    BY <1>3, RefundSettles
  <1>4. CASE \E u \in Users : CreateWallet(u)
    BY <1>4, NewWalletIsEmpty
  <1>5. CASE \E t \in Transfers, r \in Requests : Request(t, r)
    BY <1>5, MoneyStutters DEF Request, Held, MInv, RInv, StatusFollowsStage, money
  <1>6. CASE UNCHANGED money /\ UNCHANGED req
    BY <1>6, MoneyStutters DEF money
  <1> QED
    BY <1>1, <1>2, <1>3, <1>4, <1>5, <1>6, MoneySteps

\* The invariant is kept.
LEMMA NextMoney ==
  ASSUME MInv, [Next]_vars
  PROVE  MInv'
  BY MoneyStep, NextRecord DEF MInv

\* Money stays in finitely many places, whose contents add up.
THEOREM MoneyInvariant == Spec => []MInv
  BY InitMoney, InitInv, InitRecord, NextMoney, PTL DEF Spec, MInv, RInv

\* No step makes or destroys money, whatever fails, if the credit's COMMIT is
\* always heard of.
THEOREM MoneyConserved ==
  ASSUME "creditAck" \notin Faults
  PROVE  Spec => []MoneyIsConserved
  <1>1. Init => MoneyIsConserved
    BY InitMoney DEF MoneyIsConserved
  <1>2. MInv /\ MoneyIsConserved /\ [Next]_vars => MoneyIsConserved'
    BY MoneyStep DEF MoneyIsConserved, InitialMoney
  <1> QED
    BY <1>1, <1>2, MoneyInvariant, PTL DEF Spec

\* Whatever fails, the users as a whole never lose a cent.
THEOREM NoMoneyDestroyed == Spec => []NoMoneyIsDestroyed
  <1>1. Init => NoMoneyIsDestroyed
    <2> SUFFICES ASSUME Init PROVE NoMoneyIsDestroyed
      OBVIOUS
    <2>1. InitialMoney \in Int
      BY FundingAssumption, MoneyInIsInt DEF InitialMoney
    <2> QED
      BY <2>1, InitMoney DEF NoMoneyIsDestroyed
  <1>2. MInv /\ NoMoneyIsDestroyed /\ [Next]_vars => NoMoneyIsDestroyed'
    <2> SUFFICES ASSUME MInv, NoMoneyIsDestroyed, [Next]_vars PROVE NoMoneyIsDestroyed'
      OBVIOUS
    <2>1. Money \in Int /\ InitialMoney \in Int
      BY MoneyIsInt, FundingAssumption, MoneyInIsInt DEF InitialMoney
    <2>2. InitialMoney' = InitialMoney
      BY DEF InitialMoney
    <2> QED
      BY <2>1, <2>2, MoneyStep DEF NoMoneyIsDestroyed
  <1> QED
    BY <1>1, <1>2, MoneyInvariant, PTL DEF Spec
=============================================================================
