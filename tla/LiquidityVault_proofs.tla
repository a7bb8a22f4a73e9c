------------------------ MODULE LiquidityVault_proofs ------------------------
(***************************************************************************)
(* Theorems about LiquidityVault for every number of depositors and        *)
(* strategies, all amounts, caps and loss limits.                          *)
(***************************************************************************)
EXTENDS LiquidityVault, AccountSums_proofs

\* The last conjunct holds because the locked shares never leave.
ShareInv ==
  /\ TypeOK
  /\ SupplyMatchesShares
  /\ ExposureBounded
  /\ totalSupply = 0 => accountedAssets = 0

LEMMA ShareInvInit == Init => ShareInv
<1> SUFFICES ASSUME Init PROVE ShareInv
  OBVIOUS
<1>0. /\ limits \in [deposit : Nat, strategy : Nat, loss : 0 .. MAX_CONFIGURED_LOSS]
      /\ limits.strategy = 0 /\ limits.deposit \in Nat
  <2>1. limits \in [deposit : DepositCaps, strategy : {0}, loss : {0}]
    BY DEF Init
  <2>2. MAX_CONFIGURED_LOSS \in Nat /\ DepositCaps \subseteq Nat
    BY LiquidityAssumption
  <2>3. 0 \in 0 .. MAX_CONFIGURED_LOSS /\ 0 \in Nat
    BY <2>2
  <2>4. QED
    BY <2>1, <2>2, <2>3
<1>1. TypeOK
  BY <1>0 DEF Init, TypeOK
<1>2. TotalOf(balanceOf) = 0
  <2>1. balanceOf \in [Accounts -> Nat] /\ \A a \in Accounts : balanceOf[a] = 0
    BY DEF Init
  <2>2. QED
    BY <2>1, LiquidityAssumption, TotalOfNothing
<1>3. SupplyMatchesShares
  BY <1>2 DEF Init, SupplyMatchesShares
<1>4. ExposureBounded
  BY <1>0 DEF Init, ExposureBounded
<1>5. QED
  BY <1>1, <1>3, <1>4 DEF ShareInv, Init

LEMMA ShareFacts ==
  ASSUME ShareInv
  PROVE  /\ IsFiniteSet(Accounts) /\ MINIMUM_SHARES \in Nat \ {0}
         /\ balanceOf \in [Accounts -> Nat]
         /\ TotalOf(balanceOf) \in Nat
         /\ totalSupply = TotalOf(balanceOf) + lockedShares
         /\ lockedShares = IF totalSupply = 0 THEN 0 ELSE MINIMUM_SHARES
         /\ \A a \in Accounts : balanceOf[a] \in Nat /\ balanceOf[a] <= TotalOf(balanceOf)
         /\ totalSupply \in Nat /\ lockedShares \in Nat /\ idle \in Nat
         /\ accountedAssets \in Nat /\ strategyDebt \in Nat /\ strategyDebt <= accountedAssets
         /\ AccountedIdle \in Nat /\ AccountedIdle = accountedAssets - strategyDebt
         /\ totalSupply = 0 => accountedAssets = 0
<1>1. IsFiniteSet(Accounts) /\ MINIMUM_SHARES \in Nat \ {0}
  BY LiquidityAssumption
<1>2. balanceOf \in [Accounts -> Nat] /\ totalSupply \in Nat /\ lockedShares \in Nat /\ idle \in Nat
      /\ accountedAssets \in Nat /\ strategyDebt \in Nat
  BY DEF ShareInv, TypeOK
<1>3. TotalOf(balanceOf) \in Nat
      /\ \A a \in Accounts : balanceOf[a] \in Nat /\ balanceOf[a] <= TotalOf(balanceOf)
  BY <1>1, <1>2, TotalIsNat, TotalAtLeastMember
<1>4. strategyDebt <= accountedAssets /\ AccountedIdle = accountedAssets - strategyDebt
  BY DEF ShareInv, ExposureBounded, AccountedIdle
<1>5. AccountedIdle \in Nat
  BY <1>2, <1>4
<1>6. QED
  BY <1>1, <1>2, <1>3, <1>4, <1>5 DEF ShareInv, SupplyMatchesShares

(* The balances after one of them becomes v.                               *)
LEMMA BalanceUpdate ==
  ASSUME ShareInv, NEW a \in Accounts, NEW v \in Nat,
         balanceOf' = [balanceOf EXCEPT ![a] = v]
  PROVE  /\ balanceOf' \in [Accounts -> Nat]
         /\ TotalOf(balanceOf') = TotalOf(balanceOf) - balanceOf[a] + v
<1>1. balanceOf \in [Accounts -> Nat] /\ IsFiniteSet(Accounts)
  BY ShareFacts
<1>2. TotalOf([balanceOf EXCEPT ![a] = v]) = TotalOf(balanceOf) - balanceOf[a] + v
  BY <1>1, TotalOfUpdate
<1>3. QED
  BY <1>1, <1>2

-----------------------------------------------------------------------------
(* Deposits and withdrawals, and the price they are made at.               *)

(* A deposit mints at least one share and no more than it pays for.        *)
LEMMA SharesForBounds ==
  ASSUME ShareInv, ~Insolvent, NEW n \in Nat \ {0}, SharesFor(n) # 0,
         totalSupply = 0 => n > MINIMUM_SHARES
  PROVE  /\ SharesFor(n) \in Nat \ {0}
         /\ accountedAssets * SharesFor(n) <= n * totalSupply \/ totalSupply = 0
<1> DEFINE A == accountedAssets
<1> DEFINE S == totalSupply
<1>1. A \in Nat /\ S \in Nat /\ MINIMUM_SHARES \in Nat \ {0}
  BY ShareFacts
<1>2. CASE S = 0
  BY <1>1, <1>2 DEF SharesFor
<1>3. CASE S # 0
  <2>1. A \in Nat \ {0}
    BY <1>1, <1>3 DEF Insolvent
  <2> DEFINE x == n * S
  <2>2. x \in Nat
    BY <1>1, MulNat
  <2>3. SharesFor(n) = x \div A
    BY <1>3 DEF SharesFor
  <2> HIDE DEF A, S, x
  <2>4. x \div A \in Nat /\ A * (x \div A) <= x
    BY <2>1, <2>2
  <2>5. QED
    BY <2>3, <2>4 DEF A, S, x
<1>4. QED
  BY <1>2, <1>3

LEMMA DepositKeeps ==
  ASSUME ShareInv, NEW a \in Accounts, NEW n \in Amounts, Deposit(a, n)
  PROVE  ShareInv' /\ accountedAssets' * totalSupply >= accountedAssets * totalSupply'
<1> DEFINE A == accountedAssets
<1> DEFINE S == totalSupply
<1> DEFINE s == SharesFor(n)
<1> DEFINE b == balanceOf[a]
<1> DEFINE T == TotalOf(balanceOf)
<1> DEFINE m == MINIMUM_SHARES
<1>1. n \in Nat \ {0}
  BY LiquidityAssumption
<1>2. s \in Nat \ {0} /\ (A * s <= n * S \/ S = 0)
  BY <1>1, SharesForBounds DEF Deposit
<1>3. /\ A \in Nat /\ S \in Nat /\ T \in Nat /\ b \in Nat /\ lockedShares \in Nat /\ m \in Nat \ {0}
      /\ S = T + lockedShares
      /\ lockedShares = IF S = 0 THEN 0 ELSE m
      /\ S = 0 => A = 0
      /\ idle \in Nat /\ strategyDebt \in Nat /\ strategyDebt <= A
  BY ShareFacts
<1>4. /\ A + n <= limits.deposit
      /\ idle' = idle + n
      /\ accountedAssets' = A + n
      /\ lockedShares' = IF S = 0 THEN lockedShares + m ELSE lockedShares
      /\ balanceOf' = [balanceOf EXCEPT ![a] = b + s]
      /\ totalSupply' = S + s + (IF S = 0 THEN m ELSE 0)
      /\ UNCHANGED <<strategyDebt, managed, strategy, limits, paused>>
  BY DEF Deposit, adminVars
<1>5. balanceOf' \in [Accounts -> Nat] /\ TotalOf(balanceOf') = T - b + (b + s)
  <2> HIDE DEF b, s
  <2>1. b + s \in Nat
    BY <1>2, <1>3
  <2>2. QED
    BY <1>4, <2>1, BalanceUpdate DEF b
<1> DEFINE T1 == TotalOf(balanceOf')
<1> HIDE DEF A, S, s, b, T, m, T1
<1>51. /\ lockedShares' = m
       /\ S = 0 => totalSupply' = S + s + m
       /\ S # 0 => totalSupply' = S + s
  <2>1. S \in Nat /\ s \in Nat /\ m \in Nat
        /\ lockedShares = IF S = 0 THEN 0 ELSE m
    BY <1>2, <1>3
  <2>2. /\ lockedShares' = IF S = 0 THEN lockedShares + m ELSE lockedShares
        /\ totalSupply' = S + s + (IF S = 0 THEN m ELSE 0)
    BY <1>4
  <2>3. QED
    BY <2>1, <2>2
<1>6. /\ totalSupply' \in Nat /\ totalSupply' > 0 /\ lockedShares' = m
      /\ totalSupply' = T1 + lockedShares'
      /\ accountedAssets' \in Nat /\ idle' \in Nat /\ strategyDebt <= accountedAssets'
  <2>1. T1 = T + s
    <3>1. T1 = T - b + (b + s)
      BY <1>5 DEF T1
    <3>2. QED
      BY <1>2, <1>3, <3>1
  <2>2. idle' = idle + n /\ accountedAssets' = A + n
    BY <1>4
  <2>3. totalSupply' = T + s + m
    BY <1>2, <1>3, <1>51
  <2>4. QED
    BY <1>1, <1>2, <1>3, <1>51, <2>1, <2>2, <2>3
<1>7. TypeOK'
  BY <1>3, <1>4, <1>5, <1>6 DEF ShareInv, TypeOK
<1>8. SupplyMatchesShares'
  BY <1>6 DEF SupplyMatchesShares, T1, m
<1>9. ExposureBounded'
  BY <1>4, <1>6 DEF ShareInv, ExposureBounded
<1>10. (A + n) * S >= A * totalSupply'
  <2>1. CASE S = 0
    <3>1. A = 0 /\ (A + n) * S = 0
      BY <1>1, <1>3, <2>1
    <3>2. 0 * totalSupply' = 0
      BY <1>6
    <3>3. QED
      BY <3>1, <3>2
  <2>2. CASE S # 0
    <3>1. totalSupply' = S + s
      BY <1>51, <2>2
    <3>2. (A + n) * S = A * S + n * S /\ A * (S + s) = A * S + A * s
      BY <1>1, <1>2, <1>3
    <3>3. A * S \in Nat /\ n * S \in Nat /\ A * s \in Nat
      BY <1>1, <1>2, <1>3, MulNat
    <3> DEFINE x == A * S
    <3> DEFINE y == n * S
    <3> DEFINE z == A * s
    <3>4. x \in Nat /\ y \in Nat /\ z \in Nat /\ z <= y
      BY <1>2, <2>2, <3>3
    <3> HIDE DEF x, y, z
    <3>5. x + y >= x + z
      BY <3>4
    <3>6. QED
      BY <3>1, <3>2, <3>5 DEF x, y, z
  <2>3. QED
    BY <2>1, <2>2
<1>11. QED
  BY <1>4, <1>6, <1>7, <1>8, <1>9, <1>10 DEF ShareInv, A, S

(* Shares are exchanged for assets, at no more than they are worth.        *)
LEMMA ExchangeKeeps ==
  ASSUME ShareInv, NEW a \in Accounts, NEW n \in Nat, NEW s \in Nat \ {0},
         Exchange(a, n, s), n * totalSupply <= accountedAssets * s
  PROVE  ShareInv' /\ accountedAssets' * totalSupply >= accountedAssets * totalSupply'
<1> DEFINE A == accountedAssets
<1> DEFINE S == totalSupply
<1> DEFINE b == balanceOf[a]
<1> DEFINE T == TotalOf(balanceOf)
<1> DEFINE m == MINIMUM_SHARES
<1>1. /\ A \in Nat /\ S \in Nat /\ T \in Nat /\ b \in Nat /\ b <= T
      /\ lockedShares \in Nat /\ m \in Nat \ {0}
      /\ S = T + lockedShares
      /\ lockedShares = IF S = 0 THEN 0 ELSE m
      /\ idle \in Nat /\ strategyDebt \in Nat /\ strategyDebt <= A
      /\ AccountedIdle = A - strategyDebt
  BY ShareFacts
<1>2. /\ n <= AccountedIdle /\ n <= idle /\ s <= b
      /\ idle' = idle - n
      /\ accountedAssets' = A - n
      /\ balanceOf' = [balanceOf EXCEPT ![a] = b - s]
      /\ totalSupply' = S - s
      /\ UNCHANGED <<lockedShares, strategyDebt, managed, strategy, limits, paused>>
  BY DEF Exchange, adminVars
<1>3. b - s \in Nat
  <2> HIDE DEF b, A, S, T, m
  <2>1. s <= b /\ b \in Nat
    BY <1>1, <1>2 DEF b
  <2>2. QED
    BY <2>1
<1>4. balanceOf' \in [Accounts -> Nat] /\ TotalOf(balanceOf') = T - b + (b - s)
  BY <1>2, <1>3, BalanceUpdate
<1> DEFINE T1 == TotalOf(balanceOf')
<1>5. n * S <= A * s
  OBVIOUS
<1> HIDE DEF A, S, b, T, m, T1
<1>6. /\ totalSupply' \in Nat /\ totalSupply' = T1 + lockedShares' /\ totalSupply' > 0
      /\ lockedShares' = m
      /\ accountedAssets' \in Nat /\ accountedAssets' <= A /\ idle' \in Nat
      /\ strategyDebt <= accountedAssets'
  <2>1. /\ n <= A - strategyDebt /\ n <= idle /\ s <= b
        /\ idle' = idle - n /\ accountedAssets' = A - n /\ totalSupply' = S - s
        /\ lockedShares' = lockedShares
    BY <1>1, <1>2 DEF b
  <2>2. T1 = T - b + (b - s)
    BY <1>4 DEF T1
  <2>3. T1 = T - s /\ S # 0
    BY <1>1, <2>1, <2>2
  <2>4. lockedShares = m
    BY <1>1, <2>3
  <2>5. QED
    BY <1>1, <2>1, <2>3, <2>4
<1>7. TypeOK'
  BY <1>1, <1>2, <1>4, <1>6 DEF ShareInv, TypeOK
<1>8. SupplyMatchesShares'
  BY <1>6 DEF SupplyMatchesShares, T1, m
<1>9. ExposureBounded'
  <2>1. A <= limits.deposit /\ limits.deposit \in Nat
    BY DEF ShareInv, TypeOK, ExposureBounded, A
  <2>2. accountedAssets' <= limits.deposit
    BY <1>1, <1>6, <2>1
  <2>3. QED
    BY <1>2, <1>6, <2>2 DEF ShareInv, ExposureBounded
<1>10. (A - n) * S >= A * (S - s)
  <2>1. (A - n) * S = A * S - n * S /\ A * (S - s) = A * S - A * s
    BY <1>1
  <2>2. A * S \in Nat /\ n * S \in Nat /\ A * s \in Nat
    BY <1>1, MulNat
  <2> DEFINE x == A * S
  <2> DEFINE y == n * S
  <2> DEFINE z == A * s
  <2>3. x \in Nat /\ y \in Nat /\ z \in Nat /\ y <= z
    BY <1>5, <2>2
  <2> HIDE DEF x, y, z
  <2>4. x - y >= x - z
    BY <2>3
  <2>5. QED
    BY <2>1, <2>4 DEF x, y, z
<1>11. QED
  BY <1>2, <1>6, <1>7, <1>8, <1>9, <1>10 DEF ShareInv, A, S

LEMMA WithdrawKeeps ==
  ASSUME ShareInv, NEW a \in Accounts, NEW n \in Amounts, Withdraw(a, n)
  PROVE  ShareInv' /\ accountedAssets' * totalSupply >= accountedAssets * totalSupply'
<1> DEFINE A == accountedAssets
<1> DEFINE x == n * totalSupply
<1>1. n \in Nat \ {0} /\ totalSupply \in Nat \ {0} /\ A \in Nat \ {0}
  BY LiquidityAssumption, ShareFacts DEF Withdraw
<1>2. x \in Nat \ {0}
  BY <1>1
<1>3. SharesUpFor(n) = (x - 1) \div A + 1
  BY DEF SharesUpFor
<1> HIDE DEF A, x
<1> DEFINE q == (x - 1) \div A
<1>4. q \in Nat /\ x - 1 < A * (q + 1)
  BY <1>1, <1>2
<1>5. A * (q + 1) \in Nat
  BY <1>1, <1>4
<1> HIDE DEF q
<1>6. q + 1 \in Nat \ {0} /\ x <= A * (q + 1)
  BY <1>2, <1>4, <1>5
<1>7. SharesUpFor(n) = q + 1
  BY <1>3 DEF q
<1>8. SharesUpFor(n) \in Nat \ {0} /\ n * totalSupply <= accountedAssets * SharesUpFor(n)
  BY <1>6, <1>7 DEF x, A
<1>9. QED
  BY <1>1, <1>8, ExchangeKeeps DEF Withdraw

LEMMA RedeemKeeps ==
  ASSUME ShareInv, NEW a \in Accounts, NEW s \in Amounts, Redeem(a, s)
  PROVE  ShareInv' /\ accountedAssets' * totalSupply >= accountedAssets * totalSupply'
<1> DEFINE S == totalSupply
<1> DEFINE x == s * accountedAssets
<1>1. s \in Nat \ {0} /\ S \in Nat /\ accountedAssets \in Nat /\ balanceOf[a] \in Nat
      /\ balanceOf[a] <= S /\ s <= balanceOf[a]
  <2>1. s \in Nat \ {0} /\ s <= balanceOf[a]
    BY LiquidityAssumption DEF Redeem, Exchange
  <2>2. S \in Nat /\ accountedAssets \in Nat /\ balanceOf[a] \in Nat /\ lockedShares \in Nat
        /\ TotalOf(balanceOf) \in Nat /\ balanceOf[a] <= TotalOf(balanceOf)
        /\ S = TotalOf(balanceOf) + lockedShares
    BY ShareFacts
  <2> DEFINE T == TotalOf(balanceOf)
  <2> HIDE DEF T, S
  <2>3. balanceOf[a] <= S
    BY <2>2 DEF T
  <2>4. QED
    BY <2>1, <2>2, <2>3
<1>2. S \in Nat \ {0}
  BY <1>1
<1>3. x \in Nat
  BY <1>1, MulNat
<1>4. AssetsFor(s) = x \div S
  BY <1>2 DEF AssetsFor
<1> HIDE DEF S, x
<1>5. x \div S \in Nat /\ (x \div S) * S <= x
  BY <1>2, <1>3
<1>6. accountedAssets * s = x
  BY <1>1 DEF x
<1>7. AssetsFor(s) \in Nat /\ AssetsFor(s) * totalSupply <= accountedAssets * s
  BY <1>4, <1>5, <1>6 DEF S
<1>8. QED
  BY <1>1, <1>7, ExchangeKeeps DEF Redeem

LEMMA TransferKeeps ==
  ASSUME ShareInv, NEW a \in Accounts, NEW c \in Accounts, NEW s \in Amounts, Transfer(a, c, s)
  PROVE  ShareInv' /\ UNCHANGED <<accountedAssets, totalSupply>>
<1> DEFINE f == [balanceOf EXCEPT ![a] = balanceOf[a] - s]
<1>1. /\ a # c /\ s <= balanceOf[a]
      /\ balanceOf' = [f EXCEPT ![c] = balanceOf[c] + s]
      /\ UNCHANGED <<lockedShares, totalSupply, accountedAssets, strategyDebt, idle, managed,
                     strategy, limits, paused>>
  BY DEF Transfer, adminVars
<1>2. /\ IsFiniteSet(Accounts) /\ balanceOf \in [Accounts -> Nat] /\ s \in Nat
      /\ TotalOf(balanceOf) \in Nat /\ balanceOf[a] \in Nat /\ balanceOf[c] \in Nat
  BY LiquidityAssumption, ShareFacts
<1>3. balanceOf[a] - s \in Nat /\ balanceOf[c] + s \in Nat
  BY <1>1, <1>2
<1>4. f \in [Accounts -> Nat] /\ f[c] = balanceOf[c]
  BY <1>1, <1>2, <1>3
<1>5. TotalOf(f) = TotalOf(balanceOf) - balanceOf[a] + (balanceOf[a] - s)
  BY ZenonT(60), <1>2, <1>3, TotalOfUpdate
<1> HIDE DEF f
<1>6. TotalOf([f EXCEPT ![c] = balanceOf[c] + s]) = TotalOf(f) - f[c] + (balanceOf[c] + s)
  BY ZenonT(60), <1>2, <1>3, <1>4, TotalOfUpdate
<1>7. TotalOf(balanceOf') = TotalOf(balanceOf)
  <2> DEFINE T == TotalOf(balanceOf)
  <2> DEFINE T1 == TotalOf(balanceOf')
  <2> DEFINE F == TotalOf(f)
  <2>1. T \in Nat /\ F = T - balanceOf[a] + (balanceOf[a] - s) /\ T1 = F - balanceOf[c] + (balanceOf[c] + s)
    BY <1>1, <1>2, <1>4, <1>5, <1>6
  <2> HIDE DEF T, T1, F
  <2>2. T1 = T
    BY <1>2, <2>1
  <2>3. QED
    BY <2>2 DEF T, T1
<1>8. balanceOf' \in [Accounts -> Nat]
  BY <1>1, <1>3, <1>4
<1>9. TypeOK' /\ ExposureBounded'
  BY <1>1, <1>8 DEF ShareInv, TypeOK, ExposureBounded
<1>10. SupplyMatchesShares'
  BY <1>1, <1>7 DEF ShareInv, SupplyMatchesShares
<1>11. QED
  BY <1>1, <1>9, <1>10 DEF ShareInv

-----------------------------------------------------------------------------
(* The strategy, governance and the outside.                               *)

(* A step that touches neither shares nor assets on the books.             *)
LEMMA BooksUntouched ==
  ASSUME ShareInv, UNCHANGED <<shareVars, accountedAssets>>, TypeOK', ExposureBounded'
  PROVE  ShareInv'
BY DEF ShareInv, SupplyMatchesShares, shareVars

LEMMA AllocateKeeps ==
  ASSUME ShareInv, NEW n \in Amounts, AllocateToStrategy(n)
  PROVE  ShareInv' /\ UNCHANGED <<shareVars, accountedAssets>>
<1>1. /\ n \in Nat /\ accountedAssets \in Nat /\ strategyDebt \in Nat /\ idle \in Nat
      /\ AccountedIdle = accountedAssets - strategyDebt
  BY LiquidityAssumption, ShareFacts
<1>2. /\ strategy # NoStrategy
      /\ strategyDebt + n <= limits.strategy /\ n <= AccountedIdle /\ n <= idle
      /\ idle' = idle - n
      /\ managed' = [managed EXCEPT ![strategy] = managed[strategy] + n]
      /\ strategyDebt' = strategyDebt + n
      /\ UNCHANGED <<shareVars, accountedAssets, strategy, limits, paused>>
  BY DEF AllocateToStrategy, adminVars
<1>3. strategy \in Strategies /\ managed \in [Strategies -> Nat] /\ managed[strategy] + n \in Nat
  BY <1>1, <1>2 DEF ShareInv, TypeOK
<1>4. managed' \in [Strategies -> Nat] /\ idle' \in Nat /\ strategyDebt' \in Nat
      /\ strategyDebt' <= accountedAssets
  BY <1>1, <1>2, <1>3
<1>5. TypeOK' /\ ExposureBounded'
  BY <1>2, <1>4 DEF ShareInv, TypeOK, ExposureBounded, shareVars
<1>6. QED
  BY <1>2, <1>5, BooksUntouched

(* A loss of at most what the strategy stops owing.                        *)
LEMMA LossKeeps ==
  ASSUME ShareInv, NEW loss \in Nat, NEW gone \in Nat, loss <= gone, gone <= strategyDebt,
         strategyDebt' = strategyDebt - gone, accountedAssets' = accountedAssets - loss,
         managed' \in [Strategies -> Nat], idle' \in Nat, UNCHANGED <<shareVars, adminVars>>
  PROVE  ShareInv'
<1>1. /\ accountedAssets \in Nat /\ strategyDebt \in Nat /\ strategyDebt <= accountedAssets
      /\ totalSupply = 0 => accountedAssets = 0
  BY ShareFacts
<1>2. /\ strategyDebt' \in Nat /\ accountedAssets' \in Nat /\ strategyDebt' <= accountedAssets'
      /\ strategyDebt' <= strategyDebt /\ accountedAssets' <= accountedAssets
  BY <1>1
<1>3. TypeOK'
  BY <1>2 DEF ShareInv, TypeOK, shareVars, adminVars
<1>4. ExposureBounded'
  <2>1. limits.strategy \in Nat /\ limits.deposit \in Nat
    BY DEF ShareInv, TypeOK
  <2>2. strategyDebt' <= limits.strategy /\ accountedAssets' <= limits.deposit
    BY <1>1, <1>2, <2>1 DEF ShareInv, ExposureBounded
  <2>3. strategyDebt' # 0 => strategy # NoStrategy
    BY <1>1, <1>2 DEF ShareInv, ExposureBounded
  <2>4. QED
    BY <1>2, <2>2, <2>3 DEF ExposureBounded, adminVars
<1>5. SupplyMatchesShares' /\ (totalSupply' = 0 => accountedAssets' = 0)
  <2>1. SupplyMatchesShares'
    BY DEF ShareInv, SupplyMatchesShares, shareVars
  <2>2. accountedAssets = 0 => accountedAssets' = 0
    BY <1>1, <1>2
  <2>3. QED
    BY <1>1, <2>1, <2>2 DEF shareVars
<1>6. QED
  BY <1>3, <1>4, <1>5 DEF ShareInv

LEMMA ReconcileKeeps ==
  ASSUME ShareInv, NEW l \in LossLimits, ReconcileStrategyLoss(l)
  PROVE  ShareInv' /\ PricedFairly
<1> DEFINE loss == strategyDebt - managed[strategy]
<1>1. /\ Shutdown /\ strategy # NoStrategy /\ managed[strategy] < strategyDebt
      /\ strategyDebt' = managed[strategy]
      /\ accountedAssets' = accountedAssets - loss
      /\ UNCHANGED <<shareVars, idle, managed, adminVars>>
  BY DEF ReconcileStrategyLoss
<1>2. strategyDebt \in Nat /\ accountedAssets \in Nat /\ strategyDebt <= accountedAssets
  BY ShareFacts
<1>3. strategy \in Strategies /\ managed \in [Strategies -> Nat] /\ idle \in Nat
      /\ managed[strategy] \in Nat
  BY <1>1 DEF ShareInv, TypeOK
<1>4. loss \in Nat /\ loss > 0 /\ loss <= strategyDebt /\ strategyDebt' = strategyDebt - loss
  BY <1>1, <1>2, <1>3
<1> HIDE DEF loss
<1>5. ShareInv'
  BY <1>1, <1>2, <1>3, <1>4, LossKeeps
<1>6. LossRecognized /\ UNCHANGED balanceOf
  BY <1>1, <1>2, <1>4 DEF LossRecognized, shareVars
<1>7. accountedAssets - accountedAssets' <= strategyDebt - strategyDebt'
  BY <1>1, <1>2, <1>4
<1>8. QED
  BY <1>1, <1>5, <1>6, <1>7 DEF PricedFairly

LEMMA RecallKeeps ==
  ASSUME ShareInv, NEW n \in Amounts, NEW loss \in 0 .. n, NEW l \in Nat, Recall(n, loss, l),
         Shutdown \/ l = limits.loss
  PROVE  ShareInv' /\ PricedFairly
<1>1. /\ strategy # NoStrategy
      /\ n <= strategyDebt /\ n <= managed[strategy]
      /\ loss <= n /\ loss * BPS <= n * l
      /\ managed' = [managed EXCEPT ![strategy] = managed[strategy] - n]
      /\ idle' = idle + (n - loss)
      /\ strategyDebt' = strategyDebt - n
      /\ accountedAssets' = accountedAssets - loss
      /\ UNCHANGED <<shareVars, adminVars>>
  BY DEF Recall, LossAllowed
<1>2. strategyDebt \in Nat /\ accountedAssets \in Nat /\ strategyDebt <= accountedAssets
      /\ idle \in Nat /\ n \in Nat /\ loss \in Nat /\ totalSupply \in Nat
  BY ShareFacts, LiquidityAssumption
<1>3. strategy \in Strategies /\ managed \in [Strategies -> Nat] /\ managed[strategy] - n \in Nat
  BY <1>1, <1>2 DEF ShareInv, TypeOK
<1>4. managed' \in [Strategies -> Nat] /\ idle' \in Nat
  BY <1>1, <1>2, <1>3
<1>5. ShareInv'
  BY <1>1, <1>2, <1>4, LossKeeps
<1>6. accountedAssets - accountedAssets' = loss /\ strategyDebt - strategyDebt' = n
  BY <1>1, <1>2
<1>7. UNCHANGED balanceOf /\ totalSupply' = totalSupply
  BY <1>1 DEF shareVars
<1>8. PricedFairly
  <2>1. CASE loss = 0
    <3>1. accountedAssets' = accountedAssets
      BY <1>1, <1>2, <2>1
    <3>2. accountedAssets * totalSupply \in Nat
      BY <1>2, MulNat
    <3>3. accountedAssets' * totalSupply >= accountedAssets * totalSupply'
      BY <1>7, <3>1, <3>2
    <3>4. QED
      BY <3>3 DEF PricedFairly
  <2>2. CASE loss # 0
    <3>1. LossRecognized
      BY <1>1, <1>2, <1>7, <2>2 DEF LossRecognized
    <3>2. Shutdown \/ loss * BPS <= n * limits.loss
      BY <1>1
    <3>3. QED
      BY <1>1, <1>6, <1>7, <3>1, <3>2 DEF PricedFairly
  <2>3. QED
    BY <2>1, <2>2
<1>9. QED
  BY <1>5, <1>8

LEMMA GovernanceKeeps ==
  ASSUME ShareInv, Governance
  PROVE  ShareInv' /\ UNCHANGED <<shareVars, accountedAssets>>
<1>1. UNCHANGED <<shareVars, accountedAssets, strategyDebt, idle, managed>>
  BY DEF Governance
<1>2. /\ limits \in [deposit : Nat, strategy : Nat, loss : 0 .. MAX_CONFIGURED_LOSS]
      /\ paused \in [deposits : BOOLEAN, allocations : BOOLEAN]
      /\ strategy \in Strategies \cup {NoStrategy}
      /\ strategyDebt <= limits.strategy /\ accountedAssets <= limits.deposit
      /\ strategyDebt # 0 => strategy # NoStrategy
  BY DEF ShareInv, TypeOK, ExposureBounded
<1>3. ASSUME limits' \in [deposit : Nat, strategy : Nat, loss : 0 .. MAX_CONFIGURED_LOSS],
             paused' \in [deposits : BOOLEAN, allocations : BOOLEAN],
             strategy' \in Strategies \cup {NoStrategy},
             strategyDebt <= limits'.strategy, accountedAssets <= limits'.deposit,
             strategyDebt # 0 => strategy' # NoStrategy
      PROVE  ShareInv'
  <2>1. TypeOK' /\ ExposureBounded'
    BY <1>1, <1>3 DEF ShareInv, TypeOK, ExposureBounded, shareVars
  <2>2. QED
    BY <1>1, <2>1, BooksUntouched
<1>4. ASSUME NEW c \in DepositCaps, SetDepositCap(c) PROVE ShareInv'
  BY <1>2, <1>3, <1>4, LiquidityAssumption, ShareFacts DEF SetDepositCap
<1>5. ASSUME NEW s \in Strategies \cup {NoStrategy}, SetStrategy(s) PROVE ShareInv'
  BY <1>2, <1>3, <1>5 DEF SetStrategy
<1>6. ASSUME NEW c \in StrategyCaps, NEW l \in LossLimits, SetStrategyLimits(c, l) PROVE ShareInv'
  <2>1. l \in 0 .. MAX_CONFIGURED_LOSS /\ c \in Nat
    BY <1>6, LiquidityAssumption DEF SetStrategyLimits
  <2>2. QED
    BY <1>2, <1>3, <1>6, <2>1, ShareFacts DEF SetStrategyLimits
<1>7. ASSUME UNCHANGED <<strategy, limits>>,
             \/ paused' = [paused EXCEPT !.deposits = TRUE]
             \/ paused' = [paused EXCEPT !.allocations = TRUE]
             \/ paused' = [paused EXCEPT !.allocations = FALSE]
             \/ paused' = [paused EXCEPT !.deposits = FALSE]
      PROVE  ShareInv'
  <2>1. paused' \in [deposits : BOOLEAN, allocations : BOOLEAN]
    BY <1>2, <1>7, Zenon
  <2>2. QED
    BY <1>2, <1>3, <1>7, <2>1
<1>8. QED
  BY <1>1, <1>4, <1>5, <1>6, <1>7
     DEF Governance, PauseDeposits, PauseAllocations, ResumeAllocations, ResumeDeposits

LEMMA OutsideKeeps ==
  ASSUME ShareInv, (\E s \in Strategies, v \in 0 .. MaxTokens : Revalue(s, v)) \/ TokenMove
  PROVE  ShareInv' /\ UNCHANGED <<shareVars, accountedAssets>>
<1>1. managed' \in [Strategies -> Nat] /\ idle' \in Nat
  BY LiquidityAssumption DEF ShareInv, TypeOK, Revalue, TokenMove
<1>2. UNCHANGED <<shareVars, accountedAssets, strategyDebt, adminVars>>
  BY DEF Revalue, TokenMove
<1>3. TypeOK' /\ ExposureBounded'
  BY <1>1, <1>2 DEF ShareInv, TypeOK, ExposureBounded, shareVars, adminVars
<1>4. QED
  BY <1>2, <1>3, BooksUntouched

-----------------------------------------------------------------------------
(* Every step.                                                             *)

LEMMA StepKeeps ==
  ASSUME ShareInv, Next
  PROVE  ShareInv' /\ PricedFairly
<1>1. ASSUME accountedAssets' * totalSupply >= accountedAssets * totalSupply' PROVE PricedFairly
  BY <1>1 DEF PricedFairly
<1>2. ASSUME UNCHANGED <<accountedAssets, totalSupply>> PROVE PricedFairly
  <2>1. accountedAssets * totalSupply \in Nat
    BY ShareFacts, MulNat
  <2>2. QED
    BY <1>1, <1>2, <2>1
<1>3. CASE DepositorStep
  BY <1>1, <1>2, <1>3, DepositKeeps, WithdrawKeeps, RedeemKeeps, TransferKeeps DEF DepositorStep
<1>4. CASE StrategyStep
  <2>1. ASSUME NEW n \in Amounts, AllocateToStrategy(n) PROVE ShareInv' /\ PricedFairly
    BY <1>2, <2>1, AllocateKeeps DEF shareVars
  <2>2. ASSUME NEW n \in Amounts, NEW loss \in 0 .. n, RecallFromStrategy(n, loss)
        PROVE  ShareInv' /\ PricedFairly
    <3>1. limits.loss \in Nat
      BY LiquidityAssumption DEF ShareInv, TypeOK
    <3>2. QED
      BY <2>2, <3>1, RecallKeeps DEF RecallFromStrategy
  <2>3. ASSUME NEW n \in Amounts, NEW l \in LossLimits, NEW loss \in 0 .. n,
               EmergencyRecallFromStrategy(n, loss, l)
        PROVE  ShareInv' /\ PricedFairly
    <3>1. l \in Nat
      BY LiquidityAssumption
    <3>2. QED
      BY <2>3, <3>1, RecallKeeps DEF EmergencyRecallFromStrategy
  <2>4. QED
    BY <1>4, <2>1, <2>2, <2>3, ReconcileKeeps DEF StrategyStep
<1>5. CASE Governance
  BY <1>2, <1>5, GovernanceKeeps DEF shareVars
<1>6. CASE (\E s \in Strategies, v \in 0 .. MaxTokens : Revalue(s, v)) \/ TokenMove
  BY <1>2, <1>6, OutsideKeeps DEF shareVars
<1>7. QED
  BY <1>3, <1>4, <1>5, <1>6 DEF Next

LEMMA ShareInvStep == ShareInv /\ [Next]_vars => ShareInv'
<1>1. ASSUME ShareInv, UNCHANGED vars PROVE ShareInv'
  BY <1>1 DEF vars, shareVars, adminVars, ShareInv, TypeOK, SupplyMatchesShares, ExposureBounded
<1>2. QED
  BY <1>1, StepKeeps

(* Types of the vault, for all parameters.                                 *)
THEOREM VaultTypes == Spec => []TypeOK
<1>1. ShareInv => TypeOK
  BY DEF ShareInv
<1>2. QED
  BY <1>1, ShareInvInit, ShareInvStep, PTL DEF Spec

(* The supply is the sum of all shares and never returns to zero.          *)
THEOREM SupplyAlwaysMatches == Spec => []SupplyMatchesShares
<1>1. ShareInv => SupplyMatchesShares
  BY DEF ShareInv
<1>2. QED
  BY <1>1, ShareInvInit, ShareInvStep, PTL DEF Spec

(* The strategy never holds more than its cap or than there is.            *)
THEOREM ExposureAlwaysBounded == Spec => []ExposureBounded
<1>1. ShareInv => ExposureBounded
  BY DEF ShareInv
<1>2. QED
  BY <1>1, ShareInvInit, ShareInvStep, PTL DEF Spec

(* Whatever is deposited, withdrawn and redeemed in whatever order, only a *)
(* recognized and bounded loss lowers the price of a share.                *)
THEOREM PriceOnlyFallsByLoss == Spec => PriceFallsByLossOnly
<1>1. ShareInv /\ [Next]_vars => [PricedFairly]_vars
  BY StepKeeps
<1>2. QED
  BY <1>1, ShareInvInit, ShareInvStep, PTL DEF Spec, PriceFallsByLossOnly

(* A trade at the accounted price has the assets behind it.                *)
LEMMA BackedTrade ==
  ASSUME ShareInv, FullyBacked
  PROVE  accountedAssets <= ActualAssets
<1>1. /\ accountedAssets \in Nat /\ strategyDebt \in Nat /\ idle \in Nat
      /\ AccountedIdle = accountedAssets - strategyDebt /\ idle >= AccountedIdle
  BY ShareFacts DEF FullyBacked
<1>2. CASE strategyDebt = 0
  BY <1>1, <1>2 DEF ActualAssets
<1>3. CASE strategyDebt # 0
  <2>1. managed[strategy] \in Nat /\ managed[strategy] >= strategyDebt
    BY <1>3 DEF FullyBacked, ShareInv, TypeOK
  <2>2. QED
    BY <1>1, <1>3, <2>1 DEF ActualAssets
<1>4. QED
  BY <1>2, <1>3

(* Nobody buys or sells a share while a reported loss is not recognized or *)
(* the token has shrunk under the vault.                                   *)
THEOREM TradesAreBacked == Spec => NoTradeUnderwater
<1>1. ASSUME ShareInv, Next PROVE NotUnderwater
  <2>1. CASE FullyBacked
    BY <1>1, <2>1, BackedTrade DEF NotUnderwater
  <2>2. CASE totalSupply' = totalSupply
    BY <2>2 DEF NotUnderwater
  <2>3. FullyBacked \/ totalSupply' = totalSupply
    BY <1>1 DEF Next, DepositorStep, StrategyStep, Governance, Deposit, Withdraw, Redeem, Exchange,
       Transfer, AllocateToStrategy, RecallFromStrategy, EmergencyRecallFromStrategy, Recall,
       ReconcileStrategyLoss, Revalue, TokenMove, shareVars
  <2>4. QED
    BY <2>1, <2>2, <2>3
<1>2. ShareInv /\ [Next]_vars => [NotUnderwater]_vars
  BY <1>1
<1>3. QED
  BY <1>2, ShareInvInit, ShareInvStep, PTL DEF Spec, NoTradeUnderwater
=============================================================================
