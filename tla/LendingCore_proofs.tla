-------------------------- MODULE LendingCore_proofs --------------------------
(***************************************************************************)
(* Theorems about LendingCore for every number of markets, accounts and    *)
(* assets, every unit of account and every configuration the contracts     *)
(* accept.                                                                 *)
(***************************************************************************)
EXTENDS LendingCore, AccountSums_proofs

-----------------------------------------------------------------------------
(* The rules of LendingRules.                                              *)

(* Shares and what they are worth are naturals. *)
LEMMA ShareRules ==
  ASSUME NEW x \in Nat, NEW ix \in Nat \ {0}
  PROVE  /\ ValueOf(x, ix) \in Nat
         /\ SharesDown(x, ix) \in Nat
         /\ SharesUp(x, ix) \in Nat
<1>1. RAY \in Nat \ {0}
  BY ScaleAssumption
<1>2. x * ix \in Nat /\ x * RAY \in Nat
  BY <1>1, MulNat
<1>3. ValueOf(x, ix) \in Nat
  BY <1>1, <1>2, DivNat DEF ValueOf
<1>4. SharesDown(x, ix) \in Nat
  BY <1>2, DivNat DEF SharesDown
<1>5. SharesUp(x, ix) \in Nat
  <2>1. CASE x * RAY = 0
    BY <2>1 DEF SharesUp, CeilDiv
  <2>2. CASE x * RAY # 0
    <3> DEFINE n == x * RAY - 1
    <3>1. n \in Nat
      BY <1>2, <2>2
    <3>2. n \div ix \in Nat
      BY <3>1, DivNat
    <3>3. QED
      BY <2>2, <3>2 DEF SharesUp, CeilDiv
  <2>3. QED
    BY <2>1, <2>2
<1>6. QED
  BY <1>3, <1>4, <1>5

(* A higher index makes the same shares worth no less. *)
LEMMA ValueMono ==
  ASSUME NEW x \in Nat, NEW i \in Nat, NEW j \in Nat, i <= j
  PROVE  ValueOf(x, i) <= ValueOf(x, j)
<1>1. RAY \in Nat \ {0}
  BY ScaleAssumption
<1>2. x * i <= x * j /\ x * i \in Nat /\ x * j \in Nat
  BY MulMono, MulNat
<1>3. QED
  BY <1>1, <1>2, DivMono DEF ValueOf

(* The fields of the accepted configurations, and that switching one on or *)
(* off keeps them.                                                         *)
LEMMA RateFields ==
  ASSUME NEW r \in RateType
  PROVE  /\ r.base \in Nat /\ r.slope1 \in Nat /\ r.slope2 \in Nat
         /\ r.optimal \in Nat /\ 5000 <= r.optimal /\ r.optimal <= 9500
         /\ r.reserveFactor \in Nat /\ r.reserveFactor <= 3000
         /\ \A on \in BOOLEAN : [r EXCEPT !.enabled = on] \in RateType
<1> DEFINE O == 5000 .. 9500
<1> DEFINE F == 0 .. 3000
<1> DEFINE T == [base : Nat, slope1 : Nat, slope2 : Nat, optimal : O,
                 reserveFactor : F, enabled : BOOLEAN]
<1>1. T = RateType
  BY DEF RateType
<1> HIDE DEF O, F, T
<1>2. r \in T
  BY <1>1
<1>3. r.base \in Nat /\ r.slope1 \in Nat /\ r.slope2 \in Nat
  BY <1>2 DEF T
<1>4. r.optimal \in O /\ r.reserveFactor \in F
  BY <1>2 DEF T
<1>5. \A on \in BOOLEAN : [r EXCEPT !.enabled = on] \in T
  BY <1>2 DEF T
<1>6. \A n \in O : n \in Nat /\ 5000 <= n /\ n <= 9500
  BY DEF O
<1>7. \A n \in F : n \in Nat /\ n <= 3000
  BY SMTT(40) DEF F
<1>8. QED
  BY SMTT(40), <1>1, <1>3, <1>4, <1>5, <1>6, <1>7

LEMMA ConfigFields ==
  ASSUME NEW c \in ConfigType
  PROVE  /\ c.bonus \in Nat /\ c.ltv \in Nat /\ c.threshold \in Nat
         /\ \A on \in BOOLEAN : [c EXCEPT !.enabled = on] \in ConfigType
<1> DEFINE L == 1 .. 5000
<1> DEFINE H == 1 .. 8500
<1> DEFINE B == 0 .. 500
<1> DEFINE P == Nat \ {0}
<1> DEFINE T == [ltv : L, threshold : H, bonus : B, supplyCap : P, borrowCap : P,
                 minBorrow : P, enabled : BOOLEAN]
<1>1. T = ConfigType
  BY DEF ConfigType
<1> HIDE DEF L, H, B, P, T
<1>2. c \in T
  BY <1>1
<1>3. c.bonus \in B /\ c.ltv \in L /\ c.threshold \in H
  BY <1>2 DEF T
<1>4. \A on \in BOOLEAN : [c EXCEPT !.enabled = on] \in T
  BY <1>2 DEF T
<1>5. B \subseteq Nat /\ L \subseteq Nat /\ H \subseteq Nat
  BY DEF B, L, H
<1>6. QED
  BY SMTT(40), <1>1, <1>3, <1>4, <1>5

(* Every accepted rate configuration yields natural rates. *)
LEMMA RatesAreNat ==
  ASSUME NEW r \in RateType, NEW d \in Nat, NEW s \in Nat
  PROVE  BorrowRate(r, d, s) \in Nat /\ SupplyRate(r, d, s) \in Nat
<1> DEFINE u == Utilization(d, s)
<1> DEFINE kink == (r.optimal * RAY) \div BPS
<1>1. RAY \in Nat \ {0} /\ RAY > 1 /\ SecondsPerYear \in Nat \ {0} /\ BPS = 10000
  BY ScaleAssumption DEF BPS
<1>2. /\ r.base \in Nat /\ r.slope1 \in Nat /\ r.slope2 \in Nat
      /\ r.optimal \in Nat /\ 5000 <= r.optimal /\ r.optimal <= 9500
      /\ r.reserveFactor \in Nat /\ r.reserveFactor <= 3000
  BY RateFields
<1>3. u \in Nat
  <2>1. CASE s = 0
    BY <2>1 DEF Utilization
  <2>2. CASE s # 0
    BY <1>1, <2>2, MulNat, DivNat DEF Utilization
  <2>3. QED
    BY <2>1, <2>2
<1>4. kink \in Nat \ {0} /\ RAY - kink \in Nat \ {0}
  <2> DEFINE o == r.optimal
  <2> DEFINE n == o * RAY
  <2>1. n \in Nat /\ n >= 10000 /\ n < 10000 * RAY
    <3>1. o \in Nat /\ 5000 <= o /\ o <= 9500
      BY <1>2
    <3> HIDE DEF o
    <3>2. RAY * 5000 <= RAY * o /\ RAY * o <= RAY * 9500
      BY <1>1, <3>1, MulMono
    <3>3. QED
      BY <1>1, <3>1, <3>2
  <2>2. n \div 10000 \in Nat /\ n \div 10000 >= 1 /\ n \div 10000 < RAY
    <3> HIDE DEF n
    <3>1. QED
      BY <1>1, <2>1
  <2>3. kink = n \div 10000
    BY <1>1
  <2> HIDE DEF n, kink
  <2>4. QED
    BY <1>1, <2>2, <2>3
<1>5. BorrowApr(r, u) \in Nat
  <2> HIDE DEF u, kink
  <2>1. CASE u <= kink
    <3>1. r.slope1 * u \in Nat
      BY <1>2, <1>3, MulNat
    <3>2. (r.slope1 * u) \div kink \in Nat
      BY <1>4, <3>1, DivNat
    <3>3. BorrowApr(r, u) = r.base + (r.slope1 * u) \div kink
      BY <2>1 DEF BorrowApr, kink
    <3>4. QED
      BY <1>2, <3>2, <3>3
  <2>2. CASE ~(u <= kink)
    <3>1. u - kink \in Nat
      BY <1>3, <1>4, <2>2
    <3>2. r.slope2 * (u - kink) \in Nat
      BY <1>2, <3>1, MulNat
    <3>3. (r.slope2 * (u - kink)) \div (RAY - kink) \in Nat
      BY <1>4, <3>2, DivNat
    <3>4. BorrowApr(r, u) = r.base + r.slope1 + (r.slope2 * (u - kink)) \div (RAY - kink)
      BY <2>2 DEF BorrowApr, kink
    <3>5. QED
      BY <1>2, <3>3, <3>4
  <2>3. QED
    BY <2>1, <2>2
<1>6. BorrowRate(r, d, s) \in Nat
  <2> DEFINE apr == BorrowApr(r, u)
  <2>1. (apr * RAY) \div BPS \in Nat
    <3> HIDE DEF apr
    <3>1. apr * RAY \in Nat
      BY <1>1, <1>5, MulNat DEF apr
    <3>2. QED
      BY <1>1, <3>1, DivNat
  <2>2. QED
    BY <1>1, <2>1, DivNat DEF BorrowRate
<1>7. SupplyRate(r, d, s) \in Nat
  <2> DEFINE b == BorrowRate(r, d, s)
  <2> DEFINE q == (b * u) \div RAY
  <2> DEFINE k == BPS - r.reserveFactor
  <2>1. b * u \in Nat
    <3> HIDE DEF u
    <3>1. QED
      BY <1>3, <1>6, MulNat
  <2>2. q \in Nat
    BY <1>1, <2>1, DivNat
  <2>3. k \in Nat
    <3> DEFINE f == r.reserveFactor
    <3>1. f \in Nat /\ f <= 3000
      BY <1>2
    <3> HIDE DEF f
    <3>2. BPS - f \in Nat
      BY <1>1, <3>1
    <3>3. QED
      BY <3>2 DEF f
  <2>4. q * k \in Nat
    <3> HIDE DEF q, k
    <3>1. QED
      BY <2>2, <2>3, MulNat
  <2>5. (q * k) \div BPS \in Nat
    BY <1>1, <2>4, DivNat
  <2>6. QED
    BY <2>5 DEF SupplyRate
<1>8. QED
  BY <1>6, <1>7
-----------------------------------------------------------------------------
(* Accrual.                                                                *)

(* No market has accrued ahead of the clock.  Elapsed times are naturals   *)
(* because of it.                                                          *)
ClockOK == \A m \in Markets : index[m].lastAccrued <= now

(* Accrual keeps the indexes typed and never lowers them. *)
LEMMA AccruedIndexType ==
  ASSUME TypeOK, ClockOK, NEW m \in Markets
  PROVE  /\ AccruedIndex(m) \in IndexType
         /\ AccruedIndex(m).lastAccrued = now
         /\ AccruedIndex(m).borrow >= index[m].borrow
         /\ AccruedIndex(m).supply >= index[m].supply
<1> DEFINE ix == index[m]
<1> DEFINE e == now - ix.lastAccrued
<1> DEFINE br == BorrowRate(rate[m], TotalDebt(m, ix), TotalSupply(m, ix))
<1> DEFINE sr == SupplyRate(rate[m], TotalDebt(m, ix), TotalSupply(m, ix))
<1> DEFINE gb == (ix.borrow * br * e) \div RAY
<1> DEFINE gs == (ix.supply * sr * e) \div RAY
<1>1. ix.borrow \in Nat \ {0} /\ ix.supply \in Nat \ {0} /\ ix.lastAccrued \in Nat
  BY DEF TypeOK, IndexType
<1>2. e \in Nat
  <2>1. ix.lastAccrued <= now /\ now \in Nat
    BY DEF ClockOK, TypeOK
  <2>2. QED
    BY <1>1, <2>1
<1>3. br \in Nat /\ sr \in Nat
  <2>1. market[m].totalDebtShares \in Nat /\ market[m].totalSupplyShares \in Nat
    BY InstanceAssumption DEF TypeOK, MarketType
  <2>2. TotalDebt(m, ix) \in Nat /\ TotalSupply(m, ix) \in Nat
    BY <1>1, <2>1, ShareRules DEF TotalDebt, TotalSupply
  <2>3. rate[m] \in RateType
    BY DEF TypeOK
  <2>4. QED
    BY <2>2, <2>3, RatesAreNat
<1>4. gb \in Nat /\ gs \in Nat
  <2>1. RAY \in Nat \ {0}
    BY ScaleAssumption
  <2> HIDE DEF br, sr, e
  <2>2. ix.borrow * br \in Nat /\ ix.supply * sr \in Nat
    BY <1>1, <1>3, MulNat
  <2>3. ix.borrow * br * e \in Nat /\ ix.supply * sr * e \in Nat
    BY <1>2, <2>2, MulNat
  <2>4. QED
    BY <2>1, <2>3, DivNat
<1>5. AccruedIndex(m) = IF e = 0 THEN ix ELSE [borrow |-> ix.borrow + gb,
                                               supply |-> ix.supply + gs,
                                               lastAccrued |-> now]
  BY DEF AccruedIndex
<1>6. now \in Nat /\ ix \in IndexType /\ e = now - ix.lastAccrued
  BY DEF TypeOK
<1> HIDE DEF gb, gs, ix, e
<1>7. ix.borrow + gb \in Nat \ {0} /\ ix.supply + gs \in Nat \ {0}
  BY <1>1, <1>4
<1>8. CASE e = 0
  <2>1. AccruedIndex(m) = ix /\ ix.lastAccrued = now
    BY <1>1, <1>5, <1>6, <1>8
  <2>2. QED
    BY <1>1, <1>6, <2>1 DEF ix
<1>9. CASE e # 0
  <2>1. AccruedIndex(m) \in IndexType /\ AccruedIndex(m).lastAccrued = now
    BY <1>5, <1>6, <1>7, <1>9 DEF IndexType
  <2>2. AccruedIndex(m).borrow >= ix.borrow /\ AccruedIndex(m).supply >= ix.supply
    BY <1>1, <1>4, <1>5, <1>9
  <2>3. QED
    BY <2>1, <2>2 DEF ix
<1>10. QED
  BY <1>8, <1>9

(* Accrual changes nothing of a market but its reserves, which it never    *)
(* lowers.                                                                 *)
LEMMA AccruedType ==
  ASSUME TypeOK, ClockOK, NEW m \in Markets
  PROVE  /\ Accrued(m) \in MarketType
         /\ Accrued(m).totalCollateral = market[m].totalCollateral
         /\ Accrued(m).totalSupplyShares = market[m].totalSupplyShares
         /\ Accrued(m).totalDebtShares = market[m].totalDebtShares
         /\ Accrued(m).totalBadDebtShares = market[m].totalBadDebtShares
         /\ Accrued(m).realizedLosses = market[m].realizedLosses
         /\ Accrued(m).accruedReserves >= market[m].accruedReserves
<1>1. market[m] \in MarketType
  BY DEF TypeOK
<1>2. market[m].totalDebtShares \in Nat /\ market[m].totalSupplyShares \in Nat
  BY <1>1, InstanceAssumption DEF MarketType
<1>3. AccruedIndex(m) \in IndexType /\ index[m] \in IndexType
  BY AccruedIndexType DEF TypeOK
<1>4. /\ TotalDebt(m, AccruedIndex(m)) \in Nat /\ TotalDebt(m, index[m]) \in Nat
      /\ TotalSupply(m, AccruedIndex(m)) \in Nat /\ TotalSupply(m, index[m]) \in Nat
  <2>1. /\ AccruedIndex(m).borrow \in Nat \ {0} /\ AccruedIndex(m).supply \in Nat \ {0}
        /\ index[m].borrow \in Nat \ {0} /\ index[m].supply \in Nat \ {0}
    BY <1>3 DEF IndexType
  <2>2. QED
    BY <1>2, <2>1, ShareRules DEF TotalDebt, TotalSupply
<1>5. ReserveInterest(m) \in Nat
  BY <1>4 DEF ReserveInterest, Greater
<1>6. QED
  BY <1>1, <1>5 DEF Accrued, MarketType

-----------------------------------------------------------------------------
(* Updates of one account.                                                 *)

(* g is f with the entry of account a of market m set to v. *)
SetsEntry(f, g, m, a, v) == g = [f EXCEPT ![m][a] = v]

\* g differs from f in the sum of market m only, which account a moves by v
\* less its entry.
MovesSum(f, g, m, a, v) ==
  /\ g \in PerAccount
  /\ TotalOf(g[m]) = TotalOf(f[m]) - f[m][a] + v
  /\ \A n \in Markets \ {m} : g[n] = f[n]

(* Setting the entry of one account of one market moves that market's sum  *)
(* by the difference and no other's.                                       *)
LEMMA AccountUpdate ==
  ASSUME NEW f \in PerAccount, NEW m \in Markets, NEW a \in Accounts, NEW v \in Nat,
         NEW g, SetsEntry(f, g, m, a, v)
  PROVE  MovesSum(f, g, m, a, v)
<1>1. f[m] \in [Accounts -> Nat]
  BY DEF PerAccount
<1>2. g = [f EXCEPT ![m] = [f[m] EXCEPT ![a] = v]]
  BY DEF SetsEntry
<1>3. g[m] = [f[m] EXCEPT ![a] = v]
  BY <1>2 DEF PerAccount
<1>4. TotalOf(g[m]) = TotalOf(f[m]) - f[m][a] + v
  BY <1>1, <1>3, TotalOfUpdate, InstanceAssumption
<1>5. QED
  BY <1>1, <1>2, <1>4 DEF PerAccount, MovesSum

(* The sums of a market are naturals, and no account exceeds its market's. *)
LEMMA AccountTotals ==
  ASSUME NEW f \in PerAccount, NEW m \in Markets, NEW a \in Accounts
  PROVE  TotalOf(f[m]) \in Nat /\ f[m][a] \in Nat /\ f[m][a] <= TotalOf(f[m])
<1>1. f[m] \in [Accounts -> Nat] /\ IsFiniteSet(Accounts)
  BY InstanceAssumption DEF PerAccount
<1>2. QED
  BY <1>1, TotalIsNat, TotalAtLeastMember
-----------------------------------------------------------------------------
(* The inductive invariant.  The sums alone are not inductive: a checked   *)
(* subtraction keeps both sides natural only if the shares burnt are, and  *)
(* that needs positive indexes and a clock that is never behind.           *)

LendingInv == TypeOK /\ ClockOK /\ TotalsMatchAccounts

(* The invariant holds initially. *)
LEMMA LendingInit == Init => LendingInv
<1> SUFFICES ASSUME Init PROVE LendingInv
  OBVIOUS
<1> USE DEF Init
<1>1. RAY \in Nat \ {0} /\ MaxUint128 \in Nat
  BY ScaleAssumption, InstanceAssumption
<1>2. NoShares \in [Accounts -> Nat] /\ TotalOf(NoShares) = 0
  BY TotalOfNothing DEF NoShares
<1>3. TypeOK
  <2>1. market \in [Markets -> MarketType] /\ index \in [Markets -> IndexType]
    BY <1>1 DEF MarketType, IndexType
  <2>2. /\ collateralOf \in PerAccount /\ liquiditySharesOf \in PerAccount
        /\ debtSharesOf \in PerAccount /\ badDebtSharesOf \in PerAccount
    BY <1>2 DEF PerAccount
  <2>3. config \in [Markets -> ConfigType] /\ rate \in [Markets -> RateType]
    <3>1. MarketConfigs \subseteq ConfigType /\ RateConfigs \subseteq RateType
      BY ConfigAssumption
    <3>2. config \in [Markets -> MarketConfigs] /\ rate \in [Markets -> RateConfigs]
      OBVIOUS
    <3>3. QED
      BY <3>1, <3>2
  <2>4. feed \in [Assets -> FeedType]
    <3>1. \A t \in Assets : feed[t] \in FeedType
      BY ConfigAssumption
    <3>2. QED
      BY <3>1
  <2>5. balance \in [Assets -> Nat] /\ now \in Nat
    OBVIOUS
  <2>6. QED
    BY <2>1, <2>2, <2>3, <2>4, <2>5 DEF TypeOK
<1>4. ClockOK
  BY DEF ClockOK
<1>5. TotalsMatchAccounts
  BY <1>2 DEF TotalsMatchAccounts
<1>6. QED
  BY <1>3, <1>4, <1>5 DEF LendingInv

\* A handler of market m: typed new values, an accrual up to now, the other
\* markets as they were and the sums of m in step with its totals.
HandlerEffect(m) ==
  /\ UNCHANGED riskVars
  /\ market' = [market EXCEPT ![m] = market'[m]]
  /\ index' = [index EXCEPT ![m] = index'[m]]
  /\ market'[m] \in MarketType
  /\ index'[m] \in IndexType
  /\ index'[m].lastAccrued = now
  /\ balance' \in [Assets -> Nat]
  /\ collateralOf' \in PerAccount /\ liquiditySharesOf' \in PerAccount
  /\ debtSharesOf' \in PerAccount /\ badDebtSharesOf' \in PerAccount
  /\ \A n \in Markets \ {m} :
       /\ collateralOf'[n] = collateralOf[n]
       /\ liquiditySharesOf'[n] = liquiditySharesOf[n]
       /\ debtSharesOf'[n] = debtSharesOf[n]
       /\ badDebtSharesOf'[n] = badDebtSharesOf[n]
  /\ market'[m].totalCollateral = TotalOf(collateralOf'[m])
  /\ market'[m].totalSupplyShares = TotalOf(liquiditySharesOf'[m])
  /\ market'[m].totalDebtShares = TotalOf(debtSharesOf'[m])
  /\ market'[m].totalBadDebtShares = TotalOf(badDebtSharesOf'[m])

(* Every such handler preserves the invariant.                             *)
LEMMA HandlerStep ==
  ASSUME LendingInv, NEW m \in Markets, HandlerEffect(m)
  PROVE  LendingInv'
<1>1. market' \in [Markets -> MarketType] /\ index' \in [Markets -> IndexType]
  BY DEF HandlerEffect, LendingInv, TypeOK
<1>2. TypeOK'
  BY <1>1 DEF HandlerEffect, LendingInv, TypeOK, riskVars
<1>3. ClockOK'
  BY DEF HandlerEffect, LendingInv, TypeOK, ClockOK, riskVars
<1>4. TotalsMatchAccounts'
  <2> SUFFICES ASSUME NEW n \in Markets
               PROVE  /\ market'[n].totalCollateral = TotalOf(collateralOf'[n])
                      /\ market'[n].totalSupplyShares = TotalOf(liquiditySharesOf'[n])
                      /\ market'[n].totalDebtShares = TotalOf(debtSharesOf'[n])
                      /\ market'[n].totalBadDebtShares = TotalOf(badDebtSharesOf'[n])
    BY DEF TotalsMatchAccounts
  <2>1. CASE n = m
    BY <2>1 DEF HandlerEffect
  <2>2. CASE n # m
    <3>1. market'[n] = market[n]
      BY <2>2 DEF HandlerEffect, LendingInv, TypeOK
    <3>2. QED
      BY <2>2, <3>1 DEF HandlerEffect, LendingInv, TotalsMatchAccounts
  <2>3. QED
    BY <2>1, <2>2
<1>5. QED
  BY <1>2, <1>3, <1>4 DEF LendingInv

(* The part all handlers share: the accrued index is installed. *)
LEMMA AccrueStep ==
  ASSUME LendingInv, NEW m \in Markets, Accrue(m)
  PROVE  /\ index' = [index EXCEPT ![m] = index'[m]]
         /\ index'[m] = AccruedIndex(m)
         /\ index'[m] \in IndexType
         /\ index'[m].lastAccrued = now
BY AccruedIndexType DEF LendingInv, TypeOK, Accrue

(* The totals of the accrued market are the sums of its accounts. *)
LEMMA AccruedTotals ==
  ASSUME LendingInv, NEW m \in Markets
  PROVE  /\ Accrued(m) \in MarketType
         /\ Accrued(m).totalCollateral = TotalOf(collateralOf[m])
         /\ Accrued(m).totalSupplyShares = TotalOf(liquiditySharesOf[m])
         /\ Accrued(m).totalDebtShares = TotalOf(debtSharesOf[m])
         /\ Accrued(m).totalBadDebtShares = TotalOf(badDebtSharesOf[m])
BY AccruedType DEF LendingInv, TotalsMatchAccounts

(* A new record for one market leaves the other markets alone. *)
LEMMA MarketUpdate ==
  ASSUME LendingInv, NEW m \in Markets, NEW M, market' = [market EXCEPT ![m] = M]
  PROVE  market'[m] = M /\ market' = [market EXCEPT ![m] = market'[m]]
BY DEF LendingInv, TypeOK

(* Depositing collateral preserves the invariant. *)
LEMMA DepositCollateralStep ==
  ASSUME LendingInv, NEW m \in Markets, NEW a \in Accounts, NEW x \in Amounts,
         DepositCollateral(m, a, x)
  PROVE  LendingInv'
<1> DEFINE A == Accrued(m)
<1> DEFINE M == [A EXCEPT !.totalCollateral = @ + x]
<1> DEFINE v == collateralOf[m][a] + x
<1>1. x \in Nat /\ MaxUint128 \in Nat
  BY InstanceAssumption
<1>2. /\ Accrue(m)
      /\ A.totalCollateral + x <= MaxUint128
      /\ market' = [market EXCEPT ![m] = M]
      /\ collateralOf' = [collateralOf EXCEPT ![m][a] = v]
      /\ balance' = [balance EXCEPT ![CollateralAsset[m]] = @ + x]
      /\ UNCHANGED <<liquiditySharesOf, debtSharesOf, badDebtSharesOf, riskVars>>
  BY AccruedType DEF DepositCollateral, LendingInv, TypeOK, PerAccount
<1>3. /\ collateralOf' \in PerAccount
      /\ TotalOf(collateralOf'[m]) = TotalOf(collateralOf[m]) + x
      /\ \A n \in Markets \ {m} : collateralOf'[n] = collateralOf[n]
  <2>1. /\ collateralOf \in PerAccount /\ collateralOf[m][a] \in Nat
        /\ TotalOf(collateralOf[m]) \in Nat
    BY AccountTotals DEF LendingInv, TypeOK
  <2>2. v \in Nat /\ SetsEntry(collateralOf, collateralOf', m, a, v)
    BY <1>1, <1>2, <2>1 DEF SetsEntry
  <2> HIDE DEF v
  <2>3. /\ TotalOf(collateralOf'[m]) = TotalOf(collateralOf[m]) - collateralOf[m][a] + v
        /\ collateralOf' \in PerAccount
        /\ \A n \in Markets \ {m} : collateralOf'[n] = collateralOf[n]
    <3>1. MovesSum(collateralOf, collateralOf', m, a, v)
      BY <2>1, <2>2, AccountUpdate
    <3>2. QED
      BY <3>1 DEF MovesSum
  <2>4. v = collateralOf[m][a] + x
    BY DEF v
  <2>5. QED
    BY <1>1, <2>1, <2>3, <2>4
<1>4. /\ M \in MarketType /\ M.totalCollateral = A.totalCollateral + x
      /\ M.totalSupplyShares = A.totalSupplyShares
      /\ M.totalDebtShares = A.totalDebtShares
      /\ M.totalBadDebtShares = A.totalBadDebtShares
  <2>1. A \in MarketType
    BY AccruedTotals
  <2> HIDE DEF A
  <2>2. QED
    BY <1>1, <1>2, <2>1 DEF MarketType
<1>5. balance' \in [Assets -> Nat]
  <2>1. CollateralAsset[m] \in Assets /\ balance \in [Assets -> Nat]
    BY InstanceAssumption DEF LendingInv, TypeOK
  <2>2. QED
    BY <1>1, <1>2, <2>1
<1>6. liquiditySharesOf' \in PerAccount /\ debtSharesOf' \in PerAccount /\ badDebtSharesOf' \in PerAccount
  BY <1>2 DEF LendingInv, TypeOK
<1>7. market'[m] = M /\ market' = [market EXCEPT ![m] = market'[m]]
  <2>1. market' = [market EXCEPT ![m] = M]
    BY <1>2
  <2> HIDE DEF M
  <2>2. QED
    BY <2>1, MarketUpdate
<1>8. /\ A.totalCollateral = TotalOf(collateralOf[m])
      /\ A.totalSupplyShares = TotalOf(liquiditySharesOf[m])
      /\ A.totalDebtShares = TotalOf(debtSharesOf[m])
      /\ A.totalBadDebtShares = TotalOf(badDebtSharesOf[m])
  BY AccruedTotals
<1> HIDE DEF M, A
<1>9. HandlerEffect(m)
  <2>1. /\ UNCHANGED riskVars /\ index' = [index EXCEPT ![m] = index'[m]]
        /\ index'[m] \in IndexType /\ index'[m].lastAccrued = now
    BY <1>2, AccrueStep
  <2>2. \A n \in Markets \ {m} :
          /\ collateralOf'[n] = collateralOf[n]
          /\ liquiditySharesOf'[n] = liquiditySharesOf[n]
          /\ debtSharesOf'[n] = debtSharesOf[n]
          /\ badDebtSharesOf'[n] = badDebtSharesOf[n]
    BY <1>2, <1>3
  <2>3. /\ market'[m] \in MarketType
        /\ market'[m].totalCollateral = TotalOf(collateralOf'[m])
        /\ market'[m].totalSupplyShares = TotalOf(liquiditySharesOf'[m])
        /\ market'[m].totalDebtShares = TotalOf(debtSharesOf'[m])
        /\ market'[m].totalBadDebtShares = TotalOf(badDebtSharesOf'[m])
    BY <1>2, <1>3, <1>4, <1>7, <1>8
  <2>4. QED
    BY <1>3, <1>5, <1>6, <1>7, <2>1, <2>2, <2>3 DEF HandlerEffect
<1>10. QED
  BY <1>9, HandlerStep

(* Withdrawing collateral preserves the invariant. *)
LEMMA WithdrawCollateralStep ==
  ASSUME LendingInv, NEW m \in Markets, NEW a \in Accounts, NEW x \in Amounts,
         WithdrawCollateral(m, a, x)
  PROVE  LendingInv'
<1> DEFINE A == Accrued(m)
<1> DEFINE M == [A EXCEPT !.totalCollateral = @ - x]
<1> DEFINE v == collateralOf[m][a] - x
<1>1. x \in Nat /\ MaxUint128 \in Nat
  BY InstanceAssumption
<1>2. /\ Accrue(m)
      /\ x <= A.totalCollateral /\ x <= collateralOf[m][a]
      /\ market' = [market EXCEPT ![m] = M]
      /\ collateralOf' = [collateralOf EXCEPT ![m][a] = v]
      /\ x <= balance[CollateralAsset[m]]
      /\ balance' = [balance EXCEPT ![CollateralAsset[m]] = @ - x]
      /\ UNCHANGED <<liquiditySharesOf, debtSharesOf, badDebtSharesOf, riskVars>>
  BY AccruedType DEF WithdrawCollateral, LendingInv, TypeOK, PerAccount
<1>3. /\ collateralOf' \in PerAccount
      /\ TotalOf(collateralOf'[m]) = TotalOf(collateralOf[m]) - x
      /\ \A n \in Markets \ {m} : collateralOf'[n] = collateralOf[n]
  <2>1. /\ collateralOf \in PerAccount /\ collateralOf[m][a] \in Nat
        /\ TotalOf(collateralOf[m]) \in Nat
    BY AccountTotals DEF LendingInv, TypeOK
  <2>2. v \in Nat /\ SetsEntry(collateralOf, collateralOf', m, a, v)
    BY <1>1, <1>2, <2>1 DEF SetsEntry
  <2> HIDE DEF v
  <2>3. /\ TotalOf(collateralOf'[m]) = TotalOf(collateralOf[m]) - collateralOf[m][a] + v
        /\ collateralOf' \in PerAccount
        /\ \A n \in Markets \ {m} : collateralOf'[n] = collateralOf[n]
    <3>1. MovesSum(collateralOf, collateralOf', m, a, v)
      BY <2>1, <2>2, AccountUpdate
    <3>2. QED
      BY <3>1 DEF MovesSum
  <2>4. v = collateralOf[m][a] - x
    BY DEF v
  <2>5. QED
    BY <1>1, <2>1, <2>3, <2>4
<1>4. /\ M \in MarketType /\ M.totalCollateral = A.totalCollateral - x
      /\ M.totalSupplyShares = A.totalSupplyShares
      /\ M.totalDebtShares = A.totalDebtShares
      /\ M.totalBadDebtShares = A.totalBadDebtShares
  <2>1. A \in MarketType
    BY AccruedTotals
  <2> HIDE DEF A
  <2>2. QED
    BY <1>1, <1>2, <2>1 DEF MarketType
<1>5. balance' \in [Assets -> Nat]
  <2>1. CollateralAsset[m] \in Assets /\ balance \in [Assets -> Nat]
    BY InstanceAssumption DEF LendingInv, TypeOK
  <2>2. QED
    BY <1>1, <1>2, <2>1
<1>6. liquiditySharesOf' \in PerAccount /\ debtSharesOf' \in PerAccount /\ badDebtSharesOf' \in PerAccount
  BY <1>2 DEF LendingInv, TypeOK
<1>7. market'[m] = M /\ market' = [market EXCEPT ![m] = market'[m]]
  <2>1. market' = [market EXCEPT ![m] = M]
    BY <1>2
  <2> HIDE DEF M
  <2>2. QED
    BY <2>1, MarketUpdate
<1>8. /\ A.totalCollateral = TotalOf(collateralOf[m])
      /\ A.totalSupplyShares = TotalOf(liquiditySharesOf[m])
      /\ A.totalDebtShares = TotalOf(debtSharesOf[m])
      /\ A.totalBadDebtShares = TotalOf(badDebtSharesOf[m])
  BY AccruedTotals
<1> HIDE DEF M, A
<1>9. HandlerEffect(m)
  <2>1. /\ UNCHANGED riskVars /\ index' = [index EXCEPT ![m] = index'[m]]
        /\ index'[m] \in IndexType /\ index'[m].lastAccrued = now
    BY <1>2, AccrueStep
  <2>2. \A n \in Markets \ {m} :
          /\ collateralOf'[n] = collateralOf[n]
          /\ liquiditySharesOf'[n] = liquiditySharesOf[n]
          /\ debtSharesOf'[n] = debtSharesOf[n]
          /\ badDebtSharesOf'[n] = badDebtSharesOf[n]
    BY <1>2, <1>3
  <2>3. /\ market'[m] \in MarketType
        /\ market'[m].totalCollateral = TotalOf(collateralOf'[m])
        /\ market'[m].totalSupplyShares = TotalOf(liquiditySharesOf'[m])
        /\ market'[m].totalDebtShares = TotalOf(debtSharesOf'[m])
        /\ market'[m].totalBadDebtShares = TotalOf(badDebtSharesOf'[m])
    BY <1>2, <1>3, <1>4, <1>7, <1>8
  <2>4. QED
    BY <1>3, <1>5, <1>6, <1>7, <2>1, <2>2, <2>3 DEF HandlerEffect
<1>10. QED
  BY <1>9, HandlerStep

(* Supplying liquidity preserves the invariant. *)
LEMMA SupplyLiquidityStep ==
  ASSUME LendingInv, NEW m \in Markets, NEW a \in Accounts, NEW x \in Amounts,
         SupplyLiquidity(m, a, x)
  PROVE  LendingInv'
<1> DEFINE A == Accrued(m)
<1> DEFINE q == SharesDown(x, AccruedIndex(m).supply)
<1> DEFINE M == [A EXCEPT !.totalSupplyShares = @ + q]
<1> DEFINE v == liquiditySharesOf[m][a] + q
<1>1. x \in Nat /\ q \in Nat /\ MaxUint128 \in Nat
  <2>1. AccruedIndex(m) \in IndexType /\ x \in Nat /\ MaxUint128 \in Nat
    BY AccruedIndexType, InstanceAssumption DEF LendingInv
  <2>2. AccruedIndex(m).supply \in Nat \ {0}
    BY <2>1 DEF IndexType
  <2>3. QED
    BY <2>1, <2>2, ShareRules
<1>2. /\ Accrue(m)
      /\ A.totalSupplyShares + q <= MaxUint128
      /\ market' = [market EXCEPT ![m] = M]
      /\ liquiditySharesOf' = [liquiditySharesOf EXCEPT ![m][a] = v]
      /\ balance' = [balance EXCEPT ![DebtAsset[m]] = @ + x]
      /\ UNCHANGED <<collateralOf, debtSharesOf, badDebtSharesOf, riskVars>>
  BY AccruedType DEF SupplyLiquidity, LendingInv, TypeOK, PerAccount
<1>3. /\ liquiditySharesOf' \in PerAccount
      /\ TotalOf(liquiditySharesOf'[m]) = TotalOf(liquiditySharesOf[m]) + q
      /\ \A n \in Markets \ {m} : liquiditySharesOf'[n] = liquiditySharesOf[n]
  <2>1. /\ liquiditySharesOf \in PerAccount /\ liquiditySharesOf[m][a] \in Nat
        /\ TotalOf(liquiditySharesOf[m]) \in Nat
    BY AccountTotals DEF LendingInv, TypeOK
  <2>2. v \in Nat /\ SetsEntry(liquiditySharesOf, liquiditySharesOf', m, a, v)
    BY <1>1, <1>2, <2>1 DEF SetsEntry
  <2> HIDE DEF v, q
  <2>3. /\ TotalOf(liquiditySharesOf'[m]) = TotalOf(liquiditySharesOf[m]) - liquiditySharesOf[m][a] + v
        /\ liquiditySharesOf' \in PerAccount
        /\ \A n \in Markets \ {m} : liquiditySharesOf'[n] = liquiditySharesOf[n]
    <3>1. MovesSum(liquiditySharesOf, liquiditySharesOf', m, a, v)
      BY <2>1, <2>2, AccountUpdate
    <3>2. QED
      BY <3>1 DEF MovesSum
  <2>4. v = liquiditySharesOf[m][a] + q
    BY DEF v
  <2>5. QED
    BY <1>1, <2>1, <2>3, <2>4
<1>4. /\ M \in MarketType /\ M.totalSupplyShares = A.totalSupplyShares + q
      /\ M.totalCollateral = A.totalCollateral
      /\ M.totalDebtShares = A.totalDebtShares
      /\ M.totalBadDebtShares = A.totalBadDebtShares
  <2>1. A \in MarketType
    BY AccruedTotals
  <2> HIDE DEF A, q
  <2>2. QED
    BY <1>1, <1>2, <2>1 DEF MarketType
<1>5. balance' \in [Assets -> Nat]
  <2>1. DebtAsset[m] \in Assets /\ balance \in [Assets -> Nat]
    BY InstanceAssumption DEF LendingInv, TypeOK
  <2>2. QED
    BY <1>1, <1>2, <2>1
<1>6. collateralOf' \in PerAccount /\ debtSharesOf' \in PerAccount /\ badDebtSharesOf' \in PerAccount
  BY <1>2 DEF LendingInv, TypeOK
<1>7. market'[m] = M /\ market' = [market EXCEPT ![m] = market'[m]]
  <2>1. market' = [market EXCEPT ![m] = M]
    BY <1>2
  <2> HIDE DEF M
  <2>2. QED
    BY <2>1, MarketUpdate
<1>8. /\ A.totalCollateral = TotalOf(collateralOf[m])
      /\ A.totalSupplyShares = TotalOf(liquiditySharesOf[m])
      /\ A.totalDebtShares = TotalOf(debtSharesOf[m])
      /\ A.totalBadDebtShares = TotalOf(badDebtSharesOf[m])
  BY AccruedTotals
<1> HIDE DEF M, A, q
<1>9. HandlerEffect(m)
  <2>1. /\ UNCHANGED riskVars /\ index' = [index EXCEPT ![m] = index'[m]]
        /\ index'[m] \in IndexType /\ index'[m].lastAccrued = now
    BY <1>2, AccrueStep
  <2>2. \A n \in Markets \ {m} :
          /\ collateralOf'[n] = collateralOf[n]
          /\ liquiditySharesOf'[n] = liquiditySharesOf[n]
          /\ debtSharesOf'[n] = debtSharesOf[n]
          /\ badDebtSharesOf'[n] = badDebtSharesOf[n]
    BY <1>2, <1>3
  <2>3. /\ market'[m] \in MarketType
        /\ market'[m].totalCollateral = TotalOf(collateralOf'[m])
        /\ market'[m].totalSupplyShares = TotalOf(liquiditySharesOf'[m])
        /\ market'[m].totalDebtShares = TotalOf(debtSharesOf'[m])
        /\ market'[m].totalBadDebtShares = TotalOf(badDebtSharesOf'[m])
    BY <1>2, <1>3, <1>4, <1>7, <1>8
  <2>4. QED
    BY <1>3, <1>5, <1>6, <1>7, <2>1, <2>2, <2>3 DEF HandlerEffect
<1>10. QED
  BY <1>9, HandlerStep

(* Withdrawing liquidity preserves the invariant. *)
LEMMA WithdrawLiquidityStep ==
  ASSUME LendingInv, NEW m \in Markets, NEW a \in Accounts, NEW x \in Amounts,
         WithdrawLiquidity(m, a, x)
  PROVE  LendingInv'
<1> DEFINE A == Accrued(m)
<1> DEFINE q == IF x = ValueOf(liquiditySharesOf[m][a], AccruedIndex(m).supply)
                  THEN liquiditySharesOf[m][a] ELSE SharesUp(x, AccruedIndex(m).supply)
<1> DEFINE M == [A EXCEPT !.totalSupplyShares = @ - q]
<1> DEFINE v == liquiditySharesOf[m][a] - q
<1>1. x \in Nat /\ q \in Nat /\ MaxUint128 \in Nat
  <2>1. AccruedIndex(m) \in IndexType /\ x \in Nat /\ MaxUint128 \in Nat
    BY AccruedIndexType, InstanceAssumption DEF LendingInv
  <2>2. AccruedIndex(m).supply \in Nat \ {0}
    BY <2>1 DEF IndexType
  <2>3. liquiditySharesOf[m][a] \in Nat
    BY AccountTotals DEF LendingInv, TypeOK
  <2>4. SharesUp(x, AccruedIndex(m).supply) \in Nat
    BY <2>1, <2>2, ShareRules
  <2>5. QED
    BY <2>1, <2>3, <2>4
<1>2. /\ Accrue(m)
      /\ q <= A.totalSupplyShares /\ q <= liquiditySharesOf[m][a]
      /\ market' = [market EXCEPT ![m] = M]
      /\ liquiditySharesOf' = [liquiditySharesOf EXCEPT ![m][a] = v]
      /\ x <= balance[DebtAsset[m]]
      /\ balance' = [balance EXCEPT ![DebtAsset[m]] = @ - x]
      /\ UNCHANGED <<collateralOf, debtSharesOf, badDebtSharesOf, riskVars>>
  BY AccruedType DEF WithdrawLiquidity, LendingInv, TypeOK, PerAccount
<1>3. /\ liquiditySharesOf' \in PerAccount
      /\ TotalOf(liquiditySharesOf'[m]) = TotalOf(liquiditySharesOf[m]) - q
      /\ \A n \in Markets \ {m} : liquiditySharesOf'[n] = liquiditySharesOf[n]
  <2>1. /\ liquiditySharesOf \in PerAccount /\ liquiditySharesOf[m][a] \in Nat
        /\ TotalOf(liquiditySharesOf[m]) \in Nat
    BY AccountTotals DEF LendingInv, TypeOK
  <2>2. v \in Nat /\ SetsEntry(liquiditySharesOf, liquiditySharesOf', m, a, v)
    BY <1>1, <1>2, <2>1 DEF SetsEntry
  <2> HIDE DEF v, q
  <2>3. /\ TotalOf(liquiditySharesOf'[m]) = TotalOf(liquiditySharesOf[m]) - liquiditySharesOf[m][a] + v
        /\ liquiditySharesOf' \in PerAccount
        /\ \A n \in Markets \ {m} : liquiditySharesOf'[n] = liquiditySharesOf[n]
    <3>1. MovesSum(liquiditySharesOf, liquiditySharesOf', m, a, v)
      BY <2>1, <2>2, AccountUpdate
    <3>2. QED
      BY <3>1 DEF MovesSum
  <2>4. v = liquiditySharesOf[m][a] - q
    BY DEF v
  <2>5. QED
    BY <1>1, <2>1, <2>3, <2>4
<1>4. /\ M \in MarketType /\ M.totalSupplyShares = A.totalSupplyShares - q
      /\ M.totalCollateral = A.totalCollateral
      /\ M.totalDebtShares = A.totalDebtShares
      /\ M.totalBadDebtShares = A.totalBadDebtShares
  <2>1. A \in MarketType
    BY AccruedTotals
  <2> HIDE DEF A, q
  <2>2. QED
    BY <1>1, <1>2, <2>1 DEF MarketType
<1>5. balance' \in [Assets -> Nat]
  <2>1. DebtAsset[m] \in Assets /\ balance \in [Assets -> Nat]
    BY InstanceAssumption DEF LendingInv, TypeOK
  <2>2. QED
    BY <1>1, <1>2, <2>1
<1>6. collateralOf' \in PerAccount /\ debtSharesOf' \in PerAccount /\ badDebtSharesOf' \in PerAccount
  BY <1>2 DEF LendingInv, TypeOK
<1>7. market'[m] = M /\ market' = [market EXCEPT ![m] = market'[m]]
  <2>1. market' = [market EXCEPT ![m] = M]
    BY <1>2
  <2> HIDE DEF M
  <2>2. QED
    BY <2>1, MarketUpdate
<1>8. /\ A.totalCollateral = TotalOf(collateralOf[m])
      /\ A.totalSupplyShares = TotalOf(liquiditySharesOf[m])
      /\ A.totalDebtShares = TotalOf(debtSharesOf[m])
      /\ A.totalBadDebtShares = TotalOf(badDebtSharesOf[m])
  BY AccruedTotals
<1> HIDE DEF M, A, q
<1>9. HandlerEffect(m)
  <2>1. /\ UNCHANGED riskVars /\ index' = [index EXCEPT ![m] = index'[m]]
        /\ index'[m] \in IndexType /\ index'[m].lastAccrued = now
    BY <1>2, AccrueStep
  <2>2. \A n \in Markets \ {m} :
          /\ collateralOf'[n] = collateralOf[n]
          /\ liquiditySharesOf'[n] = liquiditySharesOf[n]
          /\ debtSharesOf'[n] = debtSharesOf[n]
          /\ badDebtSharesOf'[n] = badDebtSharesOf[n]
    BY <1>2, <1>3
  <2>3. /\ market'[m] \in MarketType
        /\ market'[m].totalCollateral = TotalOf(collateralOf'[m])
        /\ market'[m].totalSupplyShares = TotalOf(liquiditySharesOf'[m])
        /\ market'[m].totalDebtShares = TotalOf(debtSharesOf'[m])
        /\ market'[m].totalBadDebtShares = TotalOf(badDebtSharesOf'[m])
    BY <1>2, <1>3, <1>4, <1>7, <1>8
  <2>4. QED
    BY <1>3, <1>5, <1>6, <1>7, <2>1, <2>2, <2>3 DEF HandlerEffect
<1>10. QED
  BY <1>9, HandlerStep

(* Borrowing preserves the invariant. *)
LEMMA BorrowStep ==
  ASSUME LendingInv, NEW m \in Markets, NEW a \in Accounts, NEW x \in Amounts,
         Borrow(m, a, x)
  PROVE  LendingInv'
<1> DEFINE A == Accrued(m)
<1> DEFINE q == SharesUp(x, AccruedIndex(m).borrow)
<1> DEFINE M == [A EXCEPT !.totalDebtShares = @ + q]
<1> DEFINE v == debtSharesOf[m][a] + q
<1>1. x \in Nat /\ q \in Nat /\ MaxUint128 \in Nat
  <2>1. AccruedIndex(m) \in IndexType /\ x \in Nat /\ MaxUint128 \in Nat
    BY AccruedIndexType, InstanceAssumption DEF LendingInv
  <2>2. AccruedIndex(m).borrow \in Nat \ {0}
    BY <2>1 DEF IndexType
  <2>3. QED
    BY <2>1, <2>2, ShareRules
<1>2. /\ Accrue(m)
      /\ A.totalDebtShares + q <= MaxUint128
      /\ market' = [market EXCEPT ![m] = M]
      /\ debtSharesOf' = [debtSharesOf EXCEPT ![m][a] = v]
      /\ x <= balance[DebtAsset[m]]
      /\ balance' = [balance EXCEPT ![DebtAsset[m]] = @ - x]
      /\ UNCHANGED <<collateralOf, liquiditySharesOf, badDebtSharesOf, riskVars>>
  BY AccruedType DEF Borrow, LendingInv, TypeOK, PerAccount
<1>3. /\ debtSharesOf' \in PerAccount
      /\ TotalOf(debtSharesOf'[m]) = TotalOf(debtSharesOf[m]) + q
      /\ \A n \in Markets \ {m} : debtSharesOf'[n] = debtSharesOf[n]
  <2>1. /\ debtSharesOf \in PerAccount /\ debtSharesOf[m][a] \in Nat
        /\ TotalOf(debtSharesOf[m]) \in Nat
    BY AccountTotals DEF LendingInv, TypeOK
  <2>2. v \in Nat /\ SetsEntry(debtSharesOf, debtSharesOf', m, a, v)
    BY <1>1, <1>2, <2>1 DEF SetsEntry
  <2> HIDE DEF v, q
  <2>3. /\ TotalOf(debtSharesOf'[m]) = TotalOf(debtSharesOf[m]) - debtSharesOf[m][a] + v
        /\ debtSharesOf' \in PerAccount
        /\ \A n \in Markets \ {m} : debtSharesOf'[n] = debtSharesOf[n]
    <3>1. MovesSum(debtSharesOf, debtSharesOf', m, a, v)
      BY <2>1, <2>2, AccountUpdate
    <3>2. QED
      BY <3>1 DEF MovesSum
  <2>4. v = debtSharesOf[m][a] + q
    BY DEF v
  <2>5. QED
    BY <1>1, <2>1, <2>3, <2>4
<1>4. /\ M \in MarketType /\ M.totalDebtShares = A.totalDebtShares + q
      /\ M.totalCollateral = A.totalCollateral
      /\ M.totalSupplyShares = A.totalSupplyShares
      /\ M.totalBadDebtShares = A.totalBadDebtShares
  <2>1. A \in MarketType
    BY AccruedTotals
  <2> HIDE DEF A, q
  <2>2. QED
    BY <1>1, <1>2, <2>1 DEF MarketType
<1>5. balance' \in [Assets -> Nat]
  <2>1. DebtAsset[m] \in Assets /\ balance \in [Assets -> Nat]
    BY InstanceAssumption DEF LendingInv, TypeOK
  <2>2. QED
    BY <1>1, <1>2, <2>1
<1>6. collateralOf' \in PerAccount /\ liquiditySharesOf' \in PerAccount /\ badDebtSharesOf' \in PerAccount
  BY <1>2 DEF LendingInv, TypeOK
<1>7. market'[m] = M /\ market' = [market EXCEPT ![m] = market'[m]]
  <2>1. market' = [market EXCEPT ![m] = M]
    BY <1>2
  <2> HIDE DEF M
  <2>2. QED
    BY <2>1, MarketUpdate
<1>8. /\ A.totalCollateral = TotalOf(collateralOf[m])
      /\ A.totalSupplyShares = TotalOf(liquiditySharesOf[m])
      /\ A.totalDebtShares = TotalOf(debtSharesOf[m])
      /\ A.totalBadDebtShares = TotalOf(badDebtSharesOf[m])
  BY AccruedTotals
<1> HIDE DEF M, A, q
<1>9. HandlerEffect(m)
  <2>1. /\ UNCHANGED riskVars /\ index' = [index EXCEPT ![m] = index'[m]]
        /\ index'[m] \in IndexType /\ index'[m].lastAccrued = now
    BY <1>2, AccrueStep
  <2>2. \A n \in Markets \ {m} :
          /\ collateralOf'[n] = collateralOf[n]
          /\ liquiditySharesOf'[n] = liquiditySharesOf[n]
          /\ debtSharesOf'[n] = debtSharesOf[n]
          /\ badDebtSharesOf'[n] = badDebtSharesOf[n]
    BY <1>2, <1>3
  <2>3. /\ market'[m] \in MarketType
        /\ market'[m].totalCollateral = TotalOf(collateralOf'[m])
        /\ market'[m].totalSupplyShares = TotalOf(liquiditySharesOf'[m])
        /\ market'[m].totalDebtShares = TotalOf(debtSharesOf'[m])
        /\ market'[m].totalBadDebtShares = TotalOf(badDebtSharesOf'[m])
    BY <1>2, <1>3, <1>4, <1>7, <1>8
  <2>4. QED
    BY <1>3, <1>5, <1>6, <1>7, <2>1, <2>2, <2>3 DEF HandlerEffect
<1>10. QED
  BY <1>9, HandlerStep

(* A handler that changes no account preserves the invariant if its record *)
(* of the market only differs in the reserves.                             *)
LEMMA ReservesOnlyStep ==
  ASSUME LendingInv, NEW m \in Markets, NEW r \in Nat, Accrue(m),
         market' = [market EXCEPT ![m] = [Accrued(m) EXCEPT !.accruedReserves = r]],
         balance' \in [Assets -> Nat],
         UNCHANGED <<accountVars, riskVars>>
  PROVE  LendingInv'
<1> DEFINE A == Accrued(m)
<1> DEFINE M == [A EXCEPT !.accruedReserves = r]
<1>1. market'[m] = M /\ market' = [market EXCEPT ![m] = market'[m]]
  BY MarketUpdate
<1>2. /\ A \in MarketType
      /\ A.totalCollateral = TotalOf(collateralOf[m])
      /\ A.totalSupplyShares = TotalOf(liquiditySharesOf[m])
      /\ A.totalDebtShares = TotalOf(debtSharesOf[m])
      /\ A.totalBadDebtShares = TotalOf(badDebtSharesOf[m])
  BY AccruedTotals
<1>3. /\ M \in MarketType /\ M.totalCollateral = A.totalCollateral
      /\ M.totalSupplyShares = A.totalSupplyShares
      /\ M.totalDebtShares = A.totalDebtShares
      /\ M.totalBadDebtShares = A.totalBadDebtShares
  <2> HIDE DEF A
  <2>1. QED
    BY <1>2 DEF MarketType
<1>4. /\ collateralOf' = collateralOf /\ collateralOf' \in PerAccount
      /\ liquiditySharesOf' = liquiditySharesOf /\ liquiditySharesOf' \in PerAccount
      /\ debtSharesOf' = debtSharesOf /\ debtSharesOf' \in PerAccount
      /\ badDebtSharesOf' = badDebtSharesOf /\ badDebtSharesOf' \in PerAccount
  BY DEF accountVars, LendingInv, TypeOK
<1> HIDE DEF M, A
<1>5. HandlerEffect(m)
  <2>1. /\ index' = [index EXCEPT ![m] = index'[m]]
        /\ index'[m] \in IndexType /\ index'[m].lastAccrued = now
    BY AccrueStep
  <2>2. /\ market'[m] \in MarketType
        /\ market'[m].totalCollateral = TotalOf(collateralOf'[m])
        /\ market'[m].totalSupplyShares = TotalOf(liquiditySharesOf'[m])
        /\ market'[m].totalDebtShares = TotalOf(debtSharesOf'[m])
        /\ market'[m].totalBadDebtShares = TotalOf(badDebtSharesOf'[m])
    BY <1>1, <1>2, <1>3, <1>4
  <2>3. QED
    BY <1>1, <1>4, <2>1, <2>2 DEF HandlerEffect
<1>6. QED
  BY <1>5, HandlerStep

(* Accruing interest preserves the invariant. *)
LEMMA AccrueInterestStep ==
  ASSUME LendingInv, NEW m \in Markets, AccrueInterest(m)
  PROVE  LendingInv'
<1> DEFINE A == Accrued(m)
<1>1. A \in MarketType
  BY AccruedTotals
<1>2. A.accruedReserves \in Nat /\ A = [A EXCEPT !.accruedReserves = A.accruedReserves]
  <2> HIDE DEF A
  <2>1. QED
    BY <1>1 DEF MarketType
<1>3. /\ Accrue(m) /\ market' = [market EXCEPT ![m] = A]
      /\ balance' = balance /\ UNCHANGED <<accountVars, riskVars>>
  BY DEF AccrueInterest
<1>4. balance' \in [Assets -> Nat]
  BY <1>3 DEF LendingInv, TypeOK
<1>5. market' = [market EXCEPT ![m] = [A EXCEPT !.accruedReserves = A.accruedReserves]]
  <2> HIDE DEF A
  <2>1. QED
    BY <1>2, <1>3
<1>6. QED
  BY <1>2, <1>3, <1>4, <1>5, ReservesOnlyStep

(* Withdrawing reserves preserves the invariant. *)
LEMMA WithdrawReservesStep ==
  ASSUME LendingInv, NEW m \in Markets, NEW x \in Amounts, WithdrawReserves(m, x)
  PROVE  LendingInv'
<1> DEFINE r == Accrued(m).accruedReserves - x
<1>1. x \in Nat /\ DebtAsset[m] \in Assets /\ balance \in [Assets -> Nat]
  BY InstanceAssumption DEF LendingInv, TypeOK
<1>2. /\ Accrue(m) /\ x <= Accrued(m).accruedReserves /\ x <= balance[DebtAsset[m]]
      /\ market' = [market EXCEPT ![m] = [Accrued(m) EXCEPT !.accruedReserves = r]]
      /\ balance' = [balance EXCEPT ![DebtAsset[m]] = @ - x]
      /\ UNCHANGED <<accountVars, riskVars>>
  BY DEF WithdrawReserves
<1>3. Accrued(m).accruedReserves \in Nat
  BY AccruedTotals DEF MarketType
<1>4. r \in Nat
  BY <1>1, <1>2, <1>3
<1>5. balance' \in [Assets -> Nat]
  BY <1>1, <1>2
<1> HIDE DEF r
<1>6. QED
  BY <1>2, <1>4, <1>5, ReservesOnlyStep

-----------------------------------------------------------------------------
(* Repayment and liquidation.                                              *)

(* The shares an amount pays for, out of those held. *)
LEMMA ShareChoice ==
  ASSUME NEW held \in Nat, NEW amount \in Nat, NEW ix \in Nat \ {0}
  PROVE  /\ (IF amount >= ValueOf(held, ix) THEN held ELSE SharesDown(amount, ix)) \in Nat
         /\ BurnableShares(held, amount, ix) \in Nat
<1>1. SharesDown(amount, ix) \in Nat
  BY ShareRules
<1>2. QED
  BY <1>1 DEF BurnableShares

(* A new market record whose parts are typed is typed.                     *)
LEMMA RepaidRecord ==
  ASSUME NEW A \in MarketType, NEW d \in 0 .. MaxUint128, NEW b \in Nat
  PROVE  [A EXCEPT !.totalDebtShares = d, !.totalBadDebtShares = b] \in MarketType
BY DEF MarketType

LEMMA LiquidatedRecord ==
  ASSUME NEW A \in MarketType, NEW c \in 0 .. MaxUint128, NEW d \in 0 .. MaxUint128,
         NEW b \in Nat
  PROVE  [A EXCEPT !.totalDebtShares = d, !.totalCollateral = c,
                   !.totalBadDebtShares = b] \in MarketType
BY DEF MarketType

LEMMA BurntRecord ==
  ASSUME NEW A \in MarketType, NEW d \in 0 .. MaxUint128, NEW b \in Nat,
         NEW r \in Nat, NEW l \in Nat
  PROVE  [A EXCEPT !.totalDebtShares = d, !.totalBadDebtShares = b,
                   !.accruedReserves = r, !.realizedLosses = l] \in MarketType
BY DEF MarketType

\* A handler that sets the debt, the bad debt and the collateral of account a
\* to d, b and c, and moves the totals of market m by the same differences.
DebtEffect(m, a, c, d, b) ==
  /\ UNCHANGED riskVars
  /\ liquiditySharesOf' = liquiditySharesOf
  /\ market' = [market EXCEPT ![m] = market'[m]]
  /\ index' = [index EXCEPT ![m] = index'[m]]
  /\ market'[m] \in MarketType
  /\ index'[m] \in IndexType
  /\ index'[m].lastAccrued = now
  /\ balance' \in [Assets -> Nat]
  /\ SetsEntry(collateralOf, collateralOf', m, a, c)
  /\ SetsEntry(debtSharesOf, debtSharesOf', m, a, d)
  /\ SetsEntry(badDebtSharesOf, badDebtSharesOf', m, a, b)
  /\ market'[m].totalSupplyShares = market[m].totalSupplyShares
  /\ market'[m].totalCollateral = market[m].totalCollateral - collateralOf[m][a] + c
  /\ market'[m].totalDebtShares = market[m].totalDebtShares - debtSharesOf[m][a] + d
  /\ market'[m].totalBadDebtShares
       = market[m].totalBadDebtShares - badDebtSharesOf[m][a] + b

(* Every such handler preserves the invariant.                             *)
LEMMA DebtStep ==
  ASSUME LendingInv, NEW m \in Markets, NEW a \in Accounts,
         NEW c \in Nat, NEW d \in Nat, NEW b \in Nat, DebtEffect(m, a, c, d, b)
  PROVE  LendingInv'
<1>1. /\ collateralOf \in PerAccount /\ liquiditySharesOf \in PerAccount
      /\ debtSharesOf \in PerAccount /\ badDebtSharesOf \in PerAccount
  BY DEF LendingInv, TypeOK
<1>2. /\ market[m].totalCollateral = TotalOf(collateralOf[m])
      /\ market[m].totalSupplyShares = TotalOf(liquiditySharesOf[m])
      /\ market[m].totalDebtShares = TotalOf(debtSharesOf[m])
      /\ market[m].totalBadDebtShares = TotalOf(badDebtSharesOf[m])
  BY DEF LendingInv, TotalsMatchAccounts
<1>3. /\ collateralOf' \in PerAccount
      /\ TotalOf(collateralOf'[m]) = TotalOf(collateralOf[m]) - collateralOf[m][a] + c
      /\ \A n \in Markets \ {m} : collateralOf'[n] = collateralOf[n]
  <2>1. MovesSum(collateralOf, collateralOf', m, a, c)
    BY <1>1, AccountUpdate DEF DebtEffect
  <2>2. QED
    BY <2>1 DEF MovesSum
<1>4. /\ debtSharesOf' \in PerAccount
      /\ TotalOf(debtSharesOf'[m]) = TotalOf(debtSharesOf[m]) - debtSharesOf[m][a] + d
      /\ \A n \in Markets \ {m} : debtSharesOf'[n] = debtSharesOf[n]
  <2>1. MovesSum(debtSharesOf, debtSharesOf', m, a, d)
    BY <1>1, AccountUpdate DEF DebtEffect
  <2>2. QED
    BY <2>1 DEF MovesSum
<1>5. /\ badDebtSharesOf' \in PerAccount
      /\ TotalOf(badDebtSharesOf'[m]) = TotalOf(badDebtSharesOf[m]) - badDebtSharesOf[m][a] + b
      /\ \A n \in Markets \ {m} : badDebtSharesOf'[n] = badDebtSharesOf[n]
  <2>1. MovesSum(badDebtSharesOf, badDebtSharesOf', m, a, b)
    BY <1>1, AccountUpdate DEF DebtEffect
  <2>2. QED
    BY <2>1 DEF MovesSum
<1>6. /\ market'[m].totalCollateral = TotalOf(collateralOf'[m])
      /\ market'[m].totalSupplyShares = TotalOf(liquiditySharesOf'[m])
      /\ market'[m].totalDebtShares = TotalOf(debtSharesOf'[m])
      /\ market'[m].totalBadDebtShares = TotalOf(badDebtSharesOf'[m])
  BY <1>2, <1>3, <1>4, <1>5 DEF DebtEffect
<1>7. HandlerEffect(m)
  <2>1. liquiditySharesOf' = liquiditySharesOf
    BY DEF DebtEffect
  <2>2. \A n \in Markets \ {m} :
          /\ collateralOf'[n] = collateralOf[n]
          /\ liquiditySharesOf'[n] = liquiditySharesOf[n]
          /\ debtSharesOf'[n] = debtSharesOf[n]
          /\ badDebtSharesOf'[n] = badDebtSharesOf[n]
    BY <1>3, <1>4, <1>5, <2>1
  <2>3. QED
    BY <1>1, <1>3, <1>4, <1>5, <1>6, <2>1, <2>2 DEF DebtEffect, HandlerEffect
<1>8. QED
  BY <1>7, HandlerStep

(* Leaving an entry as it is sets it to its own value. *)
LEMMA KeepsEntry ==
  ASSUME NEW f \in PerAccount, NEW m \in Markets, NEW a \in Accounts
  PROVE  SetsEntry(f, f, m, a, f[m][a])
BY DEF SetsEntry, PerAccount

(* Repaying preserves the invariant.  It takes q debt shares and at most   *)
(* as much of the record of bad debt, and is paid in the debt asset.       *)
LEMMA RepayStep ==
  ASSUME LendingInv, NEW m \in Markets, NEW a \in Accounts, NEW x \in Amounts,
         Repay(m, a, x)
  PROVE  /\ LendingInv'
         /\ \E q \in Nat, c \in Nat, paid \in Nat :
              /\ c = Lesser(q, badDebtSharesOf[m][a])
              /\ c <= q /\ q <= debtSharesOf[m][a] /\ c <= badDebtSharesOf[m][a]
              /\ SetsEntry(debtSharesOf, debtSharesOf', m, a, debtSharesOf[m][a] - q)
              /\ SetsEntry(badDebtSharesOf, badDebtSharesOf', m, a, badDebtSharesOf[m][a] - c)
              /\ market'[m].totalCollateral = market[m].totalCollateral
              /\ market' = [market EXCEPT ![m] = market'[m]]
              /\ balance' = [balance EXCEPT ![DebtAsset[m]] = @ + paid]
<1> DEFINE A == Accrued(m)
<1> DEFINE bi == AccruedIndex(m).borrow
<1> DEFINE held == debtSharesOf[m][a]
<1> DEFINE bad == badDebtSharesOf[m][a]
<1> DEFINE q == IF x >= ValueOf(held, bi) THEN held ELSE SharesDown(x, bi)
<1> DEFINE c == Lesser(q, bad)
<1> DEFINE d == A.totalDebtShares - q
<1> DEFINE b == A.totalBadDebtShares - c
<1> DEFINE M == [A EXCEPT !.totalDebtShares = d, !.totalBadDebtShares = b]
<1> DEFINE paid == ValueOf(q, bi)
<1>1. x \in Nat /\ bi \in Nat \ {0} /\ DebtAsset[m] \in Assets /\ balance \in [Assets -> Nat]
  BY InstanceAssumption, AccruedIndexType DEF LendingInv, IndexType, TypeOK
<1>2. /\ held \in Nat /\ bad \in Nat /\ collateralOf[m][a] \in Nat
      /\ collateralOf \in PerAccount
  BY AccountTotals DEF LendingInv, TypeOK
<1>3. q \in Nat
  <2> HIDE DEF held, bi
  <2>1. QED
    BY <1>1, <1>2, ShareChoice
<1>4. c \in Nat /\ c <= bad /\ c <= q /\ paid \in Nat
  <2>1. paid \in Nat
    <3> HIDE DEF q, bi
    <3>1. QED
      BY <1>1, <1>3, ShareRules
  <2>2. c \in Nat /\ c <= bad /\ c <= q
    <3> HIDE DEF q, bad
    <3>1. QED
      BY <1>2, <1>3 DEF Lesser
  <2>3. QED
    BY <2>1, <2>2
<1>5. /\ A \in MarketType /\ A.totalCollateral = market[m].totalCollateral
      /\ A.totalSupplyShares = market[m].totalSupplyShares
      /\ A.totalDebtShares = market[m].totalDebtShares
      /\ A.totalBadDebtShares = market[m].totalBadDebtShares
  BY AccruedType DEF LendingInv
<1>6. /\ Accrue(m)
      /\ q <= held /\ q <= A.totalDebtShares /\ c <= A.totalBadDebtShares
      /\ market' = [market EXCEPT ![m] = M]
      /\ SetsEntry(debtSharesOf, debtSharesOf', m, a, held - q)
      /\ SetsEntry(badDebtSharesOf, badDebtSharesOf', m, a, bad - c)
      /\ balance' = [balance EXCEPT ![DebtAsset[m]] = @ + paid]
      /\ UNCHANGED <<collateralOf, liquiditySharesOf, riskVars>>
  BY AccruedType DEF Repay, LendingInv, TypeOK, PerAccount, SetsEntry
<1>7. market'[m] = M /\ market' = [market EXCEPT ![m] = market'[m]]
  <2>1. market' = [market EXCEPT ![m] = M]
    BY <1>6
  <2> HIDE DEF M
  <2>2. QED
    BY <2>1, MarketUpdate
<1>8. SetsEntry(collateralOf, collateralOf', m, a, collateralOf[m][a])
  BY <1>2, <1>6, KeepsEntry
<1>0. c = Lesser(q, bad)
  OBVIOUS
<1> HIDE DEF A, bi, held, bad, q, c, paid
<1>9. d \in 0 .. MaxUint128 /\ b \in Nat
  BY <1>3, <1>4, <1>5, <1>6, InstanceAssumption DEF MarketType
<1>10. /\ M \in MarketType
       /\ M.totalCollateral = A.totalCollateral /\ M.totalSupplyShares = A.totalSupplyShares
       /\ M.totalDebtShares = d /\ M.totalBadDebtShares = b
  <2> HIDE DEF d, b
  <2>1. M \in MarketType
    BY <1>5, <1>9, RepaidRecord
  <2>2. QED
    BY <1>5, <2>1 DEF MarketType
<1> HIDE DEF M
<1>11. balance' \in [Assets -> Nat]
  BY <1>1, <1>4, <1>6
<1>12. held - q \in Nat /\ bad - c \in Nat
  BY <1>2, <1>3, <1>4, <1>6
<1>13. /\ market'[m].totalDebtShares = market[m].totalDebtShares - debtSharesOf[m][a] + (held - q)
       /\ market'[m].totalBadDebtShares
            = market[m].totalBadDebtShares - badDebtSharesOf[m][a] + (bad - c)
       /\ market'[m].totalCollateral
            = market[m].totalCollateral - collateralOf[m][a] + collateralOf[m][a]
       /\ market'[m].totalSupplyShares = market[m].totalSupplyShares
  BY <1>2, <1>3, <1>4, <1>5, <1>7, <1>10 DEF held, bad, d, b, MarketType
<1>14. LendingInv'
  <2>1. /\ UNCHANGED riskVars /\ index' = [index EXCEPT ![m] = index'[m]]
        /\ index'[m] \in IndexType /\ index'[m].lastAccrued = now
    BY <1>6, AccrueStep
  <2>2. DebtEffect(m, a, collateralOf[m][a], held - q, bad - c)
    BY <1>6, <1>7, <1>8, <1>10, <1>11, <1>13, <2>1 DEF DebtEffect
  <2>3. QED
    BY <1>2, <1>12, <2>2, DebtStep
<1>15. market'[m].totalCollateral = market[m].totalCollateral
  BY <1>5, <1>7, <1>10
<1>16. QED
  BY <1>0, <1>3, <1>4, <1>6, <1>7, <1>14, <1>15 DEF held, bad

(* A liquidation seizes no more than there is and repays a share of the    *)
(* debt that is owed.                                                      *)
LEMMA LiquidationAmounts ==
  ASSUME NEW held \in Nat, NEW collateral \in Nat, NEW bad \in Nat, NEW repaid \in Nat,
         NEW wanted \in Nat, NEW ix \in Nat \ {0}
  PROVE  /\ Lesser(wanted, collateral) \in Nat /\ Lesser(wanted, collateral) <= collateral
         /\ (IF repaid >= ValueOf(held, ix) THEN held ELSE SharesDown(repaid, ix)) \in Nat
BY ShareChoice DEF Lesser

(* The amounts exchanged in a liquidation are naturals. *)
LEMMA ExchangeNat ==
  ASSUME LendingInv, NEW m \in Markets, NEW x \in Nat
  PROVE  SeizedFor(m, x) \in Nat /\ RepaidFor(m, x) \in Nat
<1> DEFINE high == HighPrice(feed[DebtAsset[m]])
<1> DEFINE low == LowPrice(feed[CollateralAsset[m]])
<1> DEFINE uc == Unit[CollateralAsset[m]]
<1> DEFINE ud == Unit[DebtAsset[m]]
<1> DEFINE k == BPS + config[m].bonus
<1>1. high \in Nat \ {0} /\ low \in Nat \ {0} /\ uc \in Nat \ {0} /\ ud \in Nat \ {0}
  <2>1. CollateralAsset[m] \in Assets /\ DebtAsset[m] \in Assets
    BY InstanceAssumption
  <2>2. feed[CollateralAsset[m]] \in FeedType /\ feed[DebtAsset[m]] \in FeedType
    BY <2>1 DEF LendingInv, TypeOK
  <2>3. high \in Nat \ {0} /\ low \in Nat \ {0}
    BY <2>2 DEF FeedType, HighPrice, LowPrice, Greater, Lesser
  <2>4. QED
    BY <2>1, <2>3, InstanceAssumption
<1>2. k \in Nat \ {0}
  <2>1. config[m] \in ConfigType
    BY DEF LendingInv, TypeOK
  <2> DEFINE g == config[m].bonus
  <2>2. g \in Nat
    BY <2>1, ConfigFields
  <2> HIDE DEF g
  <2>3. BPS + g \in Nat \ {0}
    BY <2>2 DEF BPS
  <2>4. QED
    BY <2>3 DEF g, k
<1>3. BPS \in Nat \ {0}
  BY DEF BPS
<1>4. SeizedFor(m, x) = CeilDiv(((((x * high) \div ud) * k) \div BPS) * uc, low)
  BY DEF SeizedFor
<1>5. RepaidFor(m, x) = (((((x * low) \div uc) * BPS) \div k) * ud) \div high
  BY DEF RepaidFor, CollValue, CollateralValue
<1> HIDE DEF high, low, uc, ud, k
<1>6. SeizedFor(m, x) \in Nat
  <2>1. (x * high) \div ud \in Nat
    BY <1>1, MulNat, DivNat
  <2>2. (((x * high) \div ud) * k) \div BPS \in Nat
    BY <1>2, <1>3, <2>1, MulNat, DivNat
  <2> DEFINE v == ((((x * high) \div ud) * k) \div BPS) * uc
  <2>3. v \in Nat
    BY <1>1, <2>2, MulNat
  <2> HIDE DEF v
  <2>4. CeilDiv(v, low) \in Nat
    <3>1. CASE v = 0
      BY <3>1 DEF CeilDiv
    <3>2. CASE v # 0
      <4>1. v - 1 \in Nat
        BY <2>3, <3>2
      <4>2. (v - 1) \div low \in Nat
        BY <1>1, <4>1, DivNat
      <4>3. QED
        BY <3>2, <4>2 DEF CeilDiv
    <3>3. QED
      BY <3>1, <3>2
  <2>5. QED
    BY <1>4, <2>4 DEF v
<1>7. RepaidFor(m, x) \in Nat
  <2>1. (x * low) \div uc \in Nat
    BY <1>1, MulNat, DivNat
  <2>2. (((x * low) \div uc) * BPS) \div k \in Nat
    BY <1>2, <1>3, <2>1, MulNat, DivNat
  <2>3. QED
    BY <1>1, <1>5, <2>2, MulNat, DivNat
<1>8. QED
  BY <1>6, <1>7

\* A liquidation that takes q debt shares and s collateral off account a,
\* leaves it b bad debt shares, no fewer than before, and is paid in full.
Liquidates(m, a, q, s, b, paid) ==
  /\ Accrue(m)
  /\ q # 0 /\ paid = ValueOf(q, AccruedIndex(m).borrow)
  /\ q <= debtSharesOf[m][a] /\ q <= Accrued(m).totalDebtShares
  /\ s <= collateralOf[m][a]
  /\ s <= Accrued(m).totalCollateral /\ s <= balance[CollateralAsset[m]]
  /\ b >= badDebtSharesOf[m][a]
  /\ market' = [market EXCEPT ![m] =
       [Accrued(m) EXCEPT !.totalDebtShares = @ - q,
                          !.totalCollateral = @ - s,
                          !.totalBadDebtShares = @ + (b - badDebtSharesOf[m][a])]]
  /\ SetsEntry(debtSharesOf, debtSharesOf', m, a, debtSharesOf[m][a] - q)
  /\ SetsEntry(collateralOf, collateralOf', m, a, collateralOf[m][a] - s)
  /\ SetsEntry(badDebtSharesOf, badDebtSharesOf', m, a, b)
  /\ balance' = [balance EXCEPT ![DebtAsset[m]] = @ + paid,
                                ![CollateralAsset[m]] = @ - s]
  /\ UNCHANGED <<liquiditySharesOf, riskVars>>

(* Every liquidation is of this kind.                                      *)
LEMMA LiquidateEffect ==
  ASSUME LendingInv, NEW m \in Markets, NEW a \in Accounts, NEW x \in Amounts,
         Liquidate(m, a, x)
  PROVE  \E q \in Nat, s \in Nat, b \in Nat, paid \in Nat :
           /\ Liquidates(m, a, q, s, b, paid)
           /\ b = BadSharesAfter(collateralOf[m][a] - s,
                                 ValueOf(debtSharesOf[m][a] - q, AccruedIndex(m).borrow),
                                 debtSharesOf[m][a] - q, badDebtSharesOf[m][a])
<1> DEFINE A == Accrued(m)
<1> DEFINE bi == AccruedIndex(m).borrow
<1> DEFINE held == debtSharesOf[m][a]
<1> DEFINE bad == badDebtSharesOf[m][a]
<1> DEFINE coll == collateralOf[m][a]
<1> DEFINE debt == ValueOf(held, bi)
<1> DEFINE offer == Lesser(x, (debt + 1) \div 2)
<1> DEFINE wanted == SeizedFor(m, offer)
<1> DEFINE s == Lesser(wanted, coll)
<1> DEFINE repaid == IF wanted > coll THEN RepaidFor(m, coll) ELSE offer
<1> DEFINE q == IF repaid >= debt THEN held ELSE SharesDown(repaid, bi)
<1> DEFINE badAfter == BadSharesAfter(coll - s, ValueOf(held - q, bi), held - q, bad)
<1> DEFINE M == [A EXCEPT !.totalDebtShares = @ - q, !.totalCollateral = @ - s,
                          !.totalBadDebtShares = @ + (badAfter - bad)]
<1> DEFINE paid == ValueOf(q, bi)
<1>1. x \in Nat /\ bi \in Nat \ {0} /\ balance \in [Assets -> Nat]
  BY InstanceAssumption, AccruedIndexType DEF LendingInv, IndexType, TypeOK
<1>2. /\ held \in Nat /\ bad \in Nat /\ coll \in Nat
  BY AccountTotals DEF LendingInv, TypeOK
<1>3. offer \in Nat
  <2> HIDE DEF bi, held
  <2>1. debt \in Nat
    BY <1>1, <1>2, ShareRules
  <2> HIDE DEF debt
  <2>2. (debt + 1) \div 2 \in Nat
    BY <2>1
  <2>3. QED
    BY <1>1, <2>2 DEF Lesser
<1>4. s \in Nat /\ s <= coll /\ repaid \in Nat
  <2> HIDE DEF offer, coll
  <2>1. wanted \in Nat /\ RepaidFor(m, coll) \in Nat
    BY <1>2, <1>3, ExchangeNat
  <2> HIDE DEF wanted
  <2>2. QED
    BY SMTT(40), <1>2, <1>3, <2>1, LiquidationAmounts
<1>5. q \in Nat
  <2> HIDE DEF repaid, held, bi
  <2>1. QED
    BY <1>1, <1>2, <1>4, ShareChoice
<1>6. paid \in Nat
  <2> HIDE DEF q, bi
  <2>1. QED
    BY <1>1, <1>5, ShareRules
<1>7. /\ Accrue(m) /\ q # 0
      /\ q <= held /\ q <= A.totalDebtShares
      /\ badAfter >= bad
      /\ s <= A.totalCollateral /\ s <= balance[CollateralAsset[m]]
      /\ market' = [market EXCEPT ![m] = M]
      /\ SetsEntry(debtSharesOf, debtSharesOf', m, a, held - q)
      /\ SetsEntry(collateralOf, collateralOf', m, a, coll - s)
      /\ SetsEntry(badDebtSharesOf, badDebtSharesOf', m, a, badAfter)
      /\ balance' = [balance EXCEPT ![DebtAsset[m]] = @ + paid,
                                    ![CollateralAsset[m]] = @ - s]
      /\ UNCHANGED <<liquiditySharesOf, riskVars>>
  <2>1. /\ Accrue(m) /\ q # 0 /\ q <= held /\ q <= market[m].totalDebtShares /\ badAfter >= bad
        /\ s <= market[m].totalCollateral /\ s <= balance[CollateralAsset[m]]
        /\ UNCHANGED <<liquiditySharesOf, riskVars>>
    BY Zenon DEF Liquidate
  <2>2. market' = [market EXCEPT ![m] = M]
    BY Zenon DEF Liquidate
  <2>3. SetsEntry(debtSharesOf, debtSharesOf', m, a, held - q)
    BY Zenon DEF Liquidate, SetsEntry
  <2>4. SetsEntry(collateralOf, collateralOf', m, a, coll - s)
    BY Zenon DEF Liquidate, SetsEntry
  <2>5. SetsEntry(badDebtSharesOf, badDebtSharesOf', m, a, badAfter)
    BY Zenon DEF Liquidate, SetsEntry
  <2>6. balance' = [balance EXCEPT ![DebtAsset[m]] = @ + paid,
                                   ![CollateralAsset[m]] = @ - s]
    BY Zenon DEF Liquidate
  <2>7. /\ A.totalDebtShares = market[m].totalDebtShares
        /\ A.totalCollateral = market[m].totalCollateral
    BY AccruedType DEF LendingInv
  <2> HIDE DEF A, held, bad, coll, s, q, badAfter, M, paid
  <2>8. QED
    BY <2>1, <2>2, <2>3, <2>4, <2>5, <2>6, <2>7
<1>0. paid = ValueOf(q, AccruedIndex(m).borrow)
  OBVIOUS
<1> HIDE DEF bi, held, bad, coll, debt, s, repaid, q, paid
<1>8. badAfter \in Nat /\ badAfter >= bad
  BY <1>2, <1>5, <1>7 DEF BadSharesAfter
<1>9. badAfter = BadSharesAfter(collateralOf[m][a] - s,
                               ValueOf(debtSharesOf[m][a] - q, AccruedIndex(m).borrow),
                               debtSharesOf[m][a] - q, badDebtSharesOf[m][a])
  BY DEF coll, held, bi, bad
<1> HIDE DEF badAfter
<1>10. Liquidates(m, a, q, s, badAfter, paid)
  BY <1>0, <1>4, <1>7, <1>8 DEF held, bad, coll, Liquidates
<1>11. QED
  BY <1>4, <1>5, <1>6, <1>8, <1>9, <1>10

(* Liquidating preserves the invariant. *)
LEMMA LiquidateStep ==
  ASSUME LendingInv, NEW m \in Markets, NEW a \in Accounts, NEW x \in Amounts,
         Liquidate(m, a, x)
  PROVE  LendingInv'
<1> DEFINE A == Accrued(m)
<1> DEFINE held == debtSharesOf[m][a]
<1> DEFINE bad == badDebtSharesOf[m][a]
<1> DEFINE coll == collateralOf[m][a]
<1>0. PICK q \in Nat, s \in Nat, bad2 \in Nat, paid \in Nat :
        Liquidates(m, a, q, s, bad2, paid)
  BY LiquidateEffect
<1>1. /\ Accrue(m)
      /\ q <= held /\ q <= A.totalDebtShares
      /\ s <= coll /\ s <= A.totalCollateral /\ s <= balance[CollateralAsset[m]]
      /\ market' = [market EXCEPT ![m] =
           [A EXCEPT !.totalDebtShares = @ - q, !.totalCollateral = @ - s,
                     !.totalBadDebtShares = @ + (bad2 - bad)]]
      /\ SetsEntry(debtSharesOf, debtSharesOf', m, a, held - q)
      /\ SetsEntry(collateralOf, collateralOf', m, a, coll - s)
      /\ SetsEntry(badDebtSharesOf, badDebtSharesOf', m, a, bad2)
      /\ balance' = [balance EXCEPT ![DebtAsset[m]] = @ + paid,
                                    ![CollateralAsset[m]] = @ - s]
      /\ UNCHANGED <<liquiditySharesOf, riskVars>>
  BY <1>0 DEF Liquidates
<1> DEFINE d == A.totalDebtShares - q
<1> DEFINE e == A.totalCollateral - s
<1> DEFINE b == A.totalBadDebtShares + (bad2 - bad)
<1> DEFINE M == [A EXCEPT !.totalDebtShares = d, !.totalCollateral = e,
                          !.totalBadDebtShares = b]
<1>2. /\ held \in Nat /\ bad \in Nat /\ coll \in Nat
      /\ bad <= TotalOf(badDebtSharesOf[m]) /\ balance \in [Assets -> Nat]
  BY AccountTotals DEF LendingInv, TypeOK
<1>3. /\ A \in MarketType /\ A.totalCollateral = market[m].totalCollateral
      /\ A.totalSupplyShares = market[m].totalSupplyShares
      /\ A.totalDebtShares = market[m].totalDebtShares
      /\ A.totalBadDebtShares = market[m].totalBadDebtShares
      /\ A.totalBadDebtShares = TotalOf(badDebtSharesOf[m])
  BY AccruedType, AccruedTotals DEF LendingInv
<1>4. market'[m] = M /\ market' = [market EXCEPT ![m] = market'[m]]
  <2>1. market' = [market EXCEPT ![m] = M]
    BY <1>1
  <2> HIDE DEF M
  <2>2. QED
    BY <2>1, MarketUpdate
<1> HIDE DEF A, held, bad, coll
<1>5. d \in 0 .. MaxUint128 /\ e \in 0 .. MaxUint128 /\ b \in Nat
  BY <1>1, <1>2, <1>3, InstanceAssumption DEF MarketType
<1>6. /\ M \in MarketType
      /\ M.totalCollateral = e /\ M.totalSupplyShares = A.totalSupplyShares
      /\ M.totalDebtShares = d /\ M.totalBadDebtShares = b
  <2> HIDE DEF d, e, b
  <2>1. M \in MarketType
    BY <1>3, <1>5, LiquidatedRecord
  <2>2. QED
    BY <1>3, <2>1 DEF MarketType
<1> HIDE DEF M
<1>7. balance' \in [Assets -> Nat]
  <2>1. /\ DebtAsset[m] \in Assets /\ CollateralAsset[m] \in Assets
        /\ CollateralAsset[m] # DebtAsset[m]
    BY InstanceAssumption
  <2>2. QED
    BY <1>1, <1>2, <2>1
<1>8. held - q \in Nat /\ coll - s \in Nat
  BY <1>1, <1>2
<1>9. /\ market'[m].totalDebtShares = market[m].totalDebtShares - debtSharesOf[m][a] + (held - q)
      /\ market'[m].totalCollateral
           = market[m].totalCollateral - collateralOf[m][a] + (coll - s)
      /\ market'[m].totalBadDebtShares
           = market[m].totalBadDebtShares - badDebtSharesOf[m][a] + bad2
      /\ market'[m].totalSupplyShares = market[m].totalSupplyShares
  BY <1>2, <1>3, <1>4, <1>6 DEF held, bad, coll, d, e, b, MarketType
<1>10. QED
  <2>1. /\ UNCHANGED riskVars /\ index' = [index EXCEPT ![m] = index'[m]]
        /\ index'[m] \in IndexType /\ index'[m].lastAccrued = now
    BY <1>1, AccrueStep
  <2>2. DebtEffect(m, a, coll - s, held - q, bad2)
    BY <1>1, <1>4, <1>6, <1>7, <1>9, <2>1 DEF DebtEffect
  <2>3. QED
    BY <1>1, <1>8, <2>2, DebtStep

-----------------------------------------------------------------------------
(* The recovery of bad debt.                                               *)

(* Burning bad debt preserves the invariant, whatever pays for it. *)
LEMMA BurnStep ==
  ASSUME LendingInv, NEW m \in Markets, NEW a \in Accounts, NEW n \in Nat,
         NEW r \in Nat, NEW l \in Nat,
         BurnBadDebt(m, a, n, r, l),
         index' = [index EXCEPT ![m] = index'[m]],
         index'[m] \in IndexType,
         index'[m].lastAccrued = now,
         balance' \in [Assets -> Nat]
  PROVE  LendingInv'
<1> DEFINE A == market[m]
<1> DEFINE held == debtSharesOf[m][a]
<1> DEFINE bad == badDebtSharesOf[m][a]
<1> DEFINE d == A.totalDebtShares - n
<1> DEFINE b == A.totalBadDebtShares - n
<1> DEFINE M == [A EXCEPT !.totalDebtShares = d, !.totalBadDebtShares = b,
                          !.accruedReserves = r, !.realizedLosses = l]
<1>1. /\ held \in Nat /\ bad \in Nat /\ collateralOf[m][a] \in Nat
      /\ collateralOf \in PerAccount /\ A \in MarketType
  BY AccountTotals DEF LendingInv, TypeOK
<1>2. /\ n <= bad /\ n <= A.totalBadDebtShares /\ n <= held /\ n <= A.totalDebtShares
      /\ market' = [market EXCEPT ![m] = M]
      /\ SetsEntry(debtSharesOf, debtSharesOf', m, a, held - n)
      /\ SetsEntry(badDebtSharesOf, badDebtSharesOf', m, a, bad - n)
      /\ UNCHANGED <<collateralOf, liquiditySharesOf, riskVars>>
  <2>1. /\ n <= bad /\ n <= A.totalBadDebtShares /\ n <= held /\ n <= A.totalDebtShares
        /\ UNCHANGED <<collateralOf, liquiditySharesOf, riskVars>>
    BY DEF BurnBadDebt
  <2>2. market' = [market EXCEPT ![m] = M]
    BY DEF BurnBadDebt, LendingInv, TypeOK
  <2>3. SetsEntry(debtSharesOf, debtSharesOf', m, a, held - n)
    BY DEF BurnBadDebt, LendingInv, TypeOK, PerAccount, SetsEntry
  <2>4. SetsEntry(badDebtSharesOf, badDebtSharesOf', m, a, bad - n)
    BY DEF BurnBadDebt, LendingInv, TypeOK, PerAccount, SetsEntry
  <2>5. QED
    BY <2>1, <2>2, <2>3, <2>4
<1>3. market'[m] = M /\ market' = [market EXCEPT ![m] = market'[m]]
  <2>1. market' = [market EXCEPT ![m] = M]
    BY <1>2
  <2> HIDE DEF M
  <2>2. QED
    BY <2>1, MarketUpdate
<1>4. SetsEntry(collateralOf, collateralOf', m, a, collateralOf[m][a])
  BY <1>1, <1>2, KeepsEntry
<1> HIDE DEF A, held, bad
<1>5. d \in 0 .. MaxUint128 /\ b \in Nat
  BY <1>1, <1>2, InstanceAssumption DEF MarketType
<1>6. /\ M \in MarketType
      /\ M.totalCollateral = A.totalCollateral /\ M.totalSupplyShares = A.totalSupplyShares
      /\ M.totalDebtShares = d /\ M.totalBadDebtShares = b
  <2> HIDE DEF d, b
  <2>1. M \in MarketType
    BY <1>1, <1>5, BurntRecord
  <2>2. QED
    BY <1>1, <2>1 DEF MarketType
<1> HIDE DEF M
<1>7. held - n \in Nat /\ bad - n \in Nat
  BY <1>1, <1>2
<1>8. /\ market'[m].totalDebtShares = market[m].totalDebtShares - debtSharesOf[m][a] + (held - n)
      /\ market'[m].totalBadDebtShares
           = market[m].totalBadDebtShares - badDebtSharesOf[m][a] + (bad - n)
      /\ market'[m].totalCollateral
           = market[m].totalCollateral - collateralOf[m][a] + collateralOf[m][a]
      /\ market'[m].totalSupplyShares = market[m].totalSupplyShares
  BY <1>1, <1>3, <1>6 DEF A, held, bad, d, b, MarketType
<1>9. DebtEffect(m, a, collateralOf[m][a], held - n, bad - n)
  BY <1>2, <1>3, <1>4, <1>6, <1>8 DEF DebtEffect
<1>10. QED
  BY <1>1, <1>7, <1>9, DebtStep

\* Some bad debt of a is burnt, and tokens are at most paid in.
Burns(m, a) ==
  /\ \E n \in Nat, r \in Nat, l \in Nat : BurnBadDebt(m, a, n, r, l)
  /\ \E paid \in Nat : balance' = [balance EXCEPT ![DebtAsset[m]] = @ + paid]

(* Paying nothing leaves the balances alone. *)
LEMMA NothingPaid ==
  ASSUME LendingInv, NEW m \in Markets, balance' = balance
  PROVE  \E paid \in Nat : balance' = [balance EXCEPT ![DebtAsset[m]] = @ + paid]
<1>1. balance \in [Assets -> Nat] /\ DebtAsset[m] \in Assets
  BY InstanceAssumption DEF LendingInv, TypeOK
<1>2. balance = [balance EXCEPT ![DebtAsset[m]] = @ + 0]
  BY <1>1
<1>3. QED
  BY <1>2

(* Covering bad debt with reserves preserves the invariant. *)
LEMMA CoverBadDebtStep ==
  ASSUME LendingInv, NEW m \in Markets, NEW a \in Accounts, NEW x \in Amounts,
         CoverBadDebtWithReserves(m, a, x)
  PROVE  LendingInv' /\ Burns(m, a)
<1> DEFINE bi == AccruedIndex(m).borrow
<1> DEFINE bad == badDebtSharesOf[m][a]
<1> DEFINE res == Accrued(m).accruedReserves
<1> DEFINE pays == Lesser(x, res)
<1> DEFINE n == BurnableShares(bad, pays, bi)
<1> DEFINE l == market[m].realizedLosses
<1>1. /\ x \in Nat /\ bi \in Nat \ {0} /\ bad \in Nat /\ res \in Nat /\ l \in Nat
  <2>1. x \in Nat /\ bi \in Nat \ {0} /\ bad \in Nat
    BY InstanceAssumption, AccruedIndexType, AccountTotals DEF LendingInv, IndexType, TypeOK
  <2>2. Accrued(m) \in MarketType /\ market[m] \in MarketType
    BY AccruedTotals DEF LendingInv, TypeOK
  <2>3. QED
    BY <2>1, <2>2 DEF MarketType
<1>2. /\ Accrue(m) /\ ValueOf(n, bi) <= res
      /\ BurnBadDebt(m, a, n, res - ValueOf(n, bi), l)
      /\ balance' = balance
  BY DEF CoverBadDebtWithReserves
<1>3. n \in Nat /\ ValueOf(n, bi) \in Nat
  <2> HIDE DEF res, bad, bi
  <2>1. pays \in Nat
    BY <1>1 DEF Lesser
  <2> HIDE DEF pays
  <2>2. n \in Nat
    BY <1>1, <2>1, ShareChoice
  <2> HIDE DEF n
  <2>3. QED
    BY <1>1, <2>2, ShareRules
<1>4. balance' \in [Assets -> Nat]
  BY <1>2 DEF LendingInv, TypeOK
<1> DEFINE r == res - ValueOf(n, bi)
<1>5. r \in Nat /\ BurnBadDebt(m, a, n, r, l)
  <2>1. BurnBadDebt(m, a, n, r, l)
    BY <1>2
  <2> HIDE DEF n, res, bi
  <2>2. r \in Nat
    BY <1>1, <1>2, <1>3
  <2>3. QED
    BY <2>1, <2>2
<1> HIDE DEF n, r, l
<1>6. LendingInv'
  BY <1>1, <1>2, <1>3, <1>4, <1>5, AccrueStep, BurnStep
<1>7. QED
  BY <1>1, <1>2, <1>3, <1>4, <1>5, <1>6, NothingPaid DEF Burns

(* Recapitalizing bad debt preserves the invariant. *)
LEMMA RecapitalizeStep ==
  ASSUME LendingInv, NEW m \in Markets, NEW a \in Accounts, NEW x \in Amounts,
         RecapitalizeBadDebt(m, a, x)
  PROVE  LendingInv' /\ Burns(m, a)
<1> DEFINE bi == AccruedIndex(m).borrow
<1> DEFINE bad == badDebtSharesOf[m][a]
<1> DEFINE n == BurnableShares(bad, x, bi)
<1> DEFINE r == Accrued(m).accruedReserves
<1> DEFINE l == market[m].realizedLosses
<1>1. /\ x \in Nat /\ bi \in Nat \ {0} /\ bad \in Nat /\ r \in Nat /\ l \in Nat
  <2>1. x \in Nat /\ bi \in Nat \ {0} /\ bad \in Nat
    BY InstanceAssumption, AccruedIndexType, AccountTotals DEF LendingInv, IndexType, TypeOK
  <2>2. Accrued(m) \in MarketType /\ market[m] \in MarketType
    BY AccruedTotals DEF LendingInv, TypeOK
  <2>3. QED
    BY <2>1, <2>2 DEF MarketType
<1>2. /\ Accrue(m) /\ BurnBadDebt(m, a, n, r, l)
      /\ balance' = [balance EXCEPT ![DebtAsset[m]] = @ + ValueOf(n, bi)]
  BY DEF RecapitalizeBadDebt
<1>3. n \in Nat /\ ValueOf(n, bi) \in Nat
  <2> HIDE DEF bad, bi
  <2>1. n \in Nat
    BY <1>1, ShareChoice
  <2> HIDE DEF n
  <2>2. QED
    BY <1>1, <2>1, ShareRules
<1>4. balance' \in [Assets -> Nat]
  <2>1. DebtAsset[m] \in Assets /\ balance \in [Assets -> Nat]
    BY InstanceAssumption DEF LendingInv, TypeOK
  <2> HIDE DEF n, bi
  <2>2. QED
    BY <1>2, <1>3, <2>1
<1> HIDE DEF n, r, l
<1>5. LendingInv'
  BY <1>1, <1>2, <1>3, <1>4, AccrueStep, BurnStep
<1>6. QED
  BY <1>1, <1>2, <1>3, <1>4, <1>5 DEF Burns

(* Cutting the supply index by a loss smaller than the supply leaves a     *)
(* natural index, and the supply it is worth does not grow.                *)
LEMMA CutIndex ==
  ASSUME NEW shares \in Nat, NEW ix \in Nat \ {0}, NEW cut \in Nat,
         cut < ValueOf(shares, ix)
  PROVE  /\ (ix * (ValueOf(shares, ix) - cut)) \div ValueOf(shares, ix) \in Nat
         /\ ValueOf(shares, (ix * (ValueOf(shares, ix) - cut)) \div ValueOf(shares, ix)) \in Nat
         /\ ValueOf(shares, (ix * (ValueOf(shares, ix) - cut)) \div ValueOf(shares, ix))
              <= ValueOf(shares, ix)
<1> DEFINE s == ValueOf(shares, ix)
<1> DEFINE k == (ix * (s - cut)) \div s
<1>1. s \in Nat
  BY ShareRules
<1>2. s \in Nat \ {0} /\ s - cut \in Nat /\ s - cut <= s
  <2>1. cut < s
    OBVIOUS
  <2> HIDE DEF s
  <2>2. QED
    BY <1>1, <2>1
<1>3. k \in Nat /\ k <= ix
  <2> HIDE DEF s
  <2> DEFINE t == s - cut
  <2>1. t \in Nat /\ t <= s
    BY <1>2
  <2> HIDE DEF t
  <2>2. ix * t <= ix * s /\ ix * t \in Nat /\ ix * s \in Nat
    BY <1>2, <2>1, MulMono, MulNat
  <2>3. (ix * t) \div s <= (ix * s) \div s /\ (ix * t) \div s \in Nat
    BY <1>2, <2>2, DivMono, DivNat
  <2>4. (ix * s) \div s = ix
    BY <1>2, DivCancel
  <2>5. QED
    BY <2>3, <2>4 DEF t
<1>4. ValueOf(shares, k) <= s /\ ValueOf(shares, k) \in Nat
  <2> HIDE DEF k
  <2>1. ValueOf(shares, k) <= ValueOf(shares, ix)
    BY <1>3, ValueMono
  <2>2. ValueOf(shares, k) \in Nat
    <3>1. RAY \in Nat \ {0}
      BY ScaleAssumption
    <3>2. shares * k \in Nat
      BY <1>3, MulNat
    <3>3. QED
      BY <3>1, <3>2, DivNat DEF ValueOf
  <2>3. QED
    BY <2>1, <2>2
<1>5. QED
  BY <1>3, <1>4

(* Realizing a loss preserves the invariant, whether the reserves are      *)
(* enough or suppliers pay for the rest.                                   *)
LEMMA RealizeStep ==
  ASSUME LendingInv, NEW m \in Markets, NEW a \in Accounts, NEW x \in Amounts,
         RealizeBadDebtLoss(m, a, x)
  PROVE  /\ LendingInv' /\ Burns(m, a)
         /\ Accrue(m) \/ \E s \in Nat \ {0} :
              index' = [index EXCEPT ![m] = [AccruedIndex(m) EXCEPT !.supply = s]]
<1> DEFINE ix == AccruedIndex(m)
<1> DEFINE bad == badDebtSharesOf[m][a]
<1> DEFINE res == Accrued(m).accruedReserves
<1> DEFINE first == IF res = 0 THEN 0 ELSE BurnableShares(bad, res, ix.borrow)
<1> DEFINE covered == ValueOf(first, ix.borrow)
<1> DEFINE r == res - covered
<1> DEFINE shares == market[m].totalSupplyShares
<1> DEFINE supply == ValueOf(shares, ix.supply)
<1> DEFINE requested == Lesser(x, ValueOf(bad - first, ix.borrow))
<1> DEFINE newIndex == (ix.supply * (supply - requested)) \div supply
<1> DEFINE loss == supply - ValueOf(shares, newIndex)
<1> DEFINE second == BurnableShares(bad - first, loss, ix.borrow)
<1> DEFINE l == market[m].realizedLosses
<1>1. /\ CanAccrue(m) /\ covered <= res /\ balance' = balance
      /\ \/ /\ first = bad
            /\ BurnBadDebt(m, a, first, r, l)
            /\ index' = [index EXCEPT ![m] = ix]
         \/ /\ first < bad
            /\ requested < supply
            /\ newIndex # 0
            /\ BurnBadDebt(m, a, first + second, r, l + loss)
            /\ index' = [index EXCEPT ![m] = [ix EXCEPT !.supply = newIndex]]
  BY DEF RealizeBadDebtLoss, TotalSupply
<1>2. x \in Nat /\ bad \in Nat /\ res \in Nat /\ l \in Nat /\ shares \in Nat
  <2>1. x \in Nat /\ bad \in Nat
    BY InstanceAssumption, AccountTotals DEF LendingInv, TypeOK
  <2>2. Accrued(m) \in MarketType /\ market[m] \in MarketType
    BY AccruedTotals DEF LendingInv, TypeOK
  <2>3. QED
    BY <2>1, <2>2 DEF MarketType
<1>3. ix \in IndexType /\ ix.lastAccrued = now
  BY AccruedIndexType DEF LendingInv, AccruedIndex
<1>4. ix.borrow \in Nat \ {0} /\ ix.supply \in Nat \ {0}
  BY <1>3 DEF IndexType
<1>5. balance' \in [Assets -> Nat] /\ index \in [Markets -> IndexType]
  BY <1>1 DEF LendingInv, TypeOK
<1> HIDE DEF ix, bad, res, l, shares
<1>6. first \in Nat
  BY <1>2, <1>4, ShareChoice
<1> HIDE DEF first
<1>7. covered \in Nat
  BY <1>4, <1>6, ShareRules
<1>8. r \in Nat
  <2> HIDE DEF covered
  <2>1. QED
    BY <1>1, <1>2, <1>7
<1> HIDE DEF covered, r
<1>9. CASE first = bad /\ BurnBadDebt(m, a, first, r, l) /\ index' = [index EXCEPT ![m] = ix]
  <2>1. /\ index' = [index EXCEPT ![m] = index'[m]] /\ index'[m] \in IndexType
        /\ index'[m].lastAccrued = now
    BY <1>3, <1>5, <1>9
  <2>2. LendingInv'
    BY <1>2, <1>5, <1>6, <1>8, <1>9, <2>1, BurnStep
  <2>3. Accrue(m)
    BY <1>1, <1>9 DEF Accrue, ix
  <2>4. QED
    BY <1>1, <1>2, <1>6, <1>8, <1>9, <2>2, <2>3, NothingPaid DEF Burns
<1>10. CASE /\ first < bad
            /\ requested < supply
            /\ newIndex # 0
            /\ BurnBadDebt(m, a, first + second, r, l + loss)
            /\ index' = [index EXCEPT ![m] = [ix EXCEPT !.supply = newIndex]]
  <2>1. bad - first \in Nat
    BY <1>2, <1>6, <1>10
  <2> DEFINE rest == bad - first
  <2> HIDE DEF rest
  <2>2. requested \in Nat
    <3>1. ValueOf(rest, ix.borrow) \in Nat
      BY <1>4, <2>1, ShareRules DEF rest
    <3>2. QED
      BY <1>2, <3>1 DEF Lesser, rest
  <2> HIDE DEF requested
  <2>3. /\ newIndex \in Nat /\ ValueOf(shares, newIndex) \in Nat
        /\ ValueOf(shares, newIndex) <= supply
    BY <1>2, <1>4, <1>10, <2>2, CutIndex
  <2>4. supply \in Nat
    BY <1>2, <1>4, ShareRules
  <2> HIDE DEF supply, newIndex
  <2>5. loss \in Nat
    BY <2>3, <2>4
  <2> HIDE DEF loss
  <2>6. second \in Nat
    BY <1>4, <2>1, <2>5, ShareChoice
  <2> HIDE DEF second
  <2>7. first + second \in Nat /\ l + loss \in Nat
    BY <1>2, <1>6, <2>5, <2>6
  <2>8. [ix EXCEPT !.supply = newIndex] \in IndexType
    BY <1>3, <1>10, <2>3 DEF IndexType
  <2>9. [ix EXCEPT !.supply = newIndex].lastAccrued = now
    BY <1>3 DEF IndexType
  <2>10. /\ index' = [index EXCEPT ![m] = index'[m]] /\ index'[m] \in IndexType
         /\ index'[m].lastAccrued = now
    BY <1>5, <1>10, <2>8, <2>9
  <2>11. LendingInv'
    BY <1>5, <1>8, <1>10, <2>7, <2>10, BurnStep
  <2>12. newIndex \in Nat \ {0}
          /\ index' = [index EXCEPT ![m] = [AccruedIndex(m) EXCEPT !.supply = newIndex]]
    BY <1>10, <2>3 DEF ix
  <2>13. QED
    BY <1>1, <1>8, <1>10, <2>7, <2>11, <2>12, NothingPaid DEF Burns
<1>11. QED
  BY <1>1, <1>9, <1>10

-----------------------------------------------------------------------------
(* The steps that are not handlers of the core.                            *)

(* Governance, the guardian, the price feeds and the clock touch none of   *)
(* the sums.                                                               *)
LEMMA OutsideStep ==
  ASSUME LendingInv, UNCHANGED <<balance, market, index, accountVars>>,
         config' \in [Markets -> ConfigType], rate' \in [Markets -> RateType],
         feed' \in [Assets -> FeedType], now' \in Nat, now' >= now
  PROVE  LendingInv'
<1>1. /\ balance' = balance /\ market' = market /\ index' = index
      /\ collateralOf' = collateralOf /\ liquiditySharesOf' = liquiditySharesOf
      /\ debtSharesOf' = debtSharesOf /\ badDebtSharesOf' = badDebtSharesOf
  BY DEF accountVars
<1>2. TypeOK'
  BY <1>1 DEF LendingInv, TypeOK
<1>3. ClockOK'
  <2> SUFFICES ASSUME NEW m \in Markets PROVE index'[m].lastAccrued <= now'
    BY DEF ClockOK
  <2>1. index[m].lastAccrued <= now /\ index[m] \in IndexType /\ now \in Nat
    BY DEF LendingInv, ClockOK, TypeOK
  <2>2. index[m].lastAccrued \in Nat
    BY <2>1 DEF IndexType
  <2>3. QED
    BY <1>1, <2>1, <2>2
<1>4. TotalsMatchAccounts'
  BY <1>1 DEF LendingInv, TotalsMatchAccounts
<1>5. QED
  BY <1>2, <1>3, <1>4 DEF LendingInv

(* Configuring or switching a market or its rate model preserves the       *)
(* invariant.                                                              *)
LEMMA GovernanceStep ==
  ASSUME LendingInv, NEW m \in Markets,
         \/ \E c \in MarketConfigs : ConfigureMarket(m, c)
         \/ \E on \in BOOLEAN : SetMarketEnabled(m, on)
         \/ \E r \in RateConfigs : ConfigureRate(m, r)
         \/ \E on \in BOOLEAN : SetRateEnabled(m, on)
  PROVE  LendingInv'
<1>1. /\ config \in [Markets -> ConfigType] /\ rate \in [Markets -> RateType]
      /\ feed \in [Assets -> FeedType] /\ now \in Nat
  BY DEF LendingInv, TypeOK
<1>2. CASE \E c \in MarketConfigs : ConfigureMarket(m, c)
  <2>1. PICK c \in MarketConfigs : ConfigureMarket(m, c)
    BY <1>2
  <2>2. c \in ConfigType
    BY ConfigAssumption
  <2>3. config' \in [Markets -> ConfigType]
    BY <1>1, <2>1, <2>2 DEF ConfigureMarket
  <2>4. QED
    BY <1>1, <2>1, <2>3, OutsideStep DEF ConfigureMarket
<1>3. CASE \E on \in BOOLEAN : SetMarketEnabled(m, on)
  <2>1. PICK on \in BOOLEAN : SetMarketEnabled(m, on)
    BY <1>3
  <2>2. [config[m] EXCEPT !.enabled = on] \in ConfigType
    BY <1>1, ConfigFields
  <2>3. config' = [config EXCEPT ![m] = [config[m] EXCEPT !.enabled = on]]
    BY <2>1 DEF SetMarketEnabled
  <2>4. config' \in [Markets -> ConfigType]
    BY <1>1, <2>2, <2>3
  <2>5. QED
    BY <1>1, <2>1, <2>4, OutsideStep DEF SetMarketEnabled
<1>4. CASE \E r \in RateConfigs : ConfigureRate(m, r)
  <2>1. PICK r \in RateConfigs : ConfigureRate(m, r)
    BY <1>4
  <2>2. r \in RateType
    BY ConfigAssumption
  <2>3. rate' \in [Markets -> RateType]
    BY <1>1, <2>1, <2>2 DEF ConfigureRate
  <2>4. QED
    BY <1>1, <2>1, <2>3, OutsideStep DEF ConfigureRate
<1>5. CASE \E on \in BOOLEAN : SetRateEnabled(m, on)
  <2>1. PICK on \in BOOLEAN : SetRateEnabled(m, on)
    BY <1>5
  <2>2. [rate[m] EXCEPT !.enabled = on] \in RateType
    BY <1>1, RateFields
  <2>3. rate' = [rate EXCEPT ![m] = [rate[m] EXCEPT !.enabled = on]]
    BY <2>1 DEF SetRateEnabled
  <2>4. rate' \in [Markets -> RateType]
    BY <1>1, <2>2, <2>3
  <2>5. QED
    BY <1>1, <2>1, <2>4, OutsideStep DEF SetRateEnabled
<1>6. QED
  BY <1>2, <1>3, <1>4, <1>5

(* Publishing prices preserves the invariant. *)
LEMMA PublishStep ==
  ASSUME LendingInv, NEW s \in Assets, NEW f \in Feeds[s], PublishPrices(s, f)
  PROVE  LendingInv'
<1>1. f \in FeedType
  BY ConfigAssumption
<1>2. feed' \in [Assets -> FeedType]
  BY <1>1 DEF PublishPrices, LendingInv, TypeOK
<1>3. QED
  BY <1>2, OutsideStep DEF PublishPrices, LendingInv, TypeOK

(* The passing of time preserves the invariant. *)
LEMMA ClockStep ==
  ASSUME LendingInv, AdvanceTime
  PROVE  LendingInv'
<1>1. now \in Nat /\ now' = now + 1
  BY DEF AdvanceTime, LendingInv, TypeOK
<1>2. now' \in Nat /\ now' >= now
  BY <1>1
<1>3. QED
  BY <1>2, OutsideStep DEF AdvanceTime, LendingInv, TypeOK

(* A stuttering step preserves the invariant. *)
LEMMA StutterStep ==
  ASSUME LendingInv, UNCHANGED vars
  PROVE  LendingInv'
<1>1. now \in Nat
  BY DEF LendingInv, TypeOK
<1>2. /\ config' \in [Markets -> ConfigType] /\ rate' \in [Markets -> RateType]
      /\ feed' \in [Assets -> FeedType] /\ now' \in Nat /\ now' >= now
      /\ UNCHANGED <<balance, market, index, accountVars>>
  BY <1>1 DEF vars, riskVars, LendingInv, TypeOK
<1>3. QED
  BY <1>2, OutsideStep

(* Every step preserves the invariant. *)
LEMMA LendingStep == LendingInv /\ [Next]_vars => LendingInv'
<1> SUFFICES ASSUME LendingInv, [Next]_vars PROVE LendingInv'
  OBVIOUS
<1>1. ASSUME NEW m \in Markets, NEW a \in Accounts, NEW x \in Amounts,
             \/ DepositCollateral(m, a, x) \/ WithdrawCollateral(m, a, x)
             \/ SupplyLiquidity(m, a, x) \/ WithdrawLiquidity(m, a, x)
             \/ Borrow(m, a, x) \/ Repay(m, a, x) \/ Liquidate(m, a, x)
             \/ CoverBadDebtWithReserves(m, a, x) \/ RecapitalizeBadDebt(m, a, x)
             \/ RealizeBadDebtLoss(m, a, x)
      PROVE  LendingInv'
  BY <1>1, DepositCollateralStep, WithdrawCollateralStep, SupplyLiquidityStep,
     WithdrawLiquidityStep, BorrowStep, RepayStep, LiquidateStep, CoverBadDebtStep,
     RecapitalizeStep, RealizeStep
<1>2. CASE AccountStep
  BY <1>1, <1>2 DEF AccountStep
<1>3. CASE MarketStep
  <2>1. PICK m \in Markets :
          \/ AccrueInterest(m)
          \/ \E amount \in Amounts : WithdrawReserves(m, amount)
          \/ \/ \E c \in MarketConfigs : ConfigureMarket(m, c)
             \/ \E on \in BOOLEAN : SetMarketEnabled(m, on)
             \/ \E r \in RateConfigs : ConfigureRate(m, r)
             \/ \E on \in BOOLEAN : SetRateEnabled(m, on)
    BY <1>3 DEF MarketStep
  <2>2. QED
    BY <2>1, AccrueInterestStep, WithdrawReservesStep, GovernanceStep
<1>4. CASE \E s \in Assets : \E f \in Feeds[s] : PublishPrices(s, f)
  BY <1>4, PublishStep
<1>5. CASE AdvanceTime
  BY <1>5, ClockStep
<1>6. CASE UNCHANGED vars
  BY <1>6, StutterStep
<1>7. QED
  BY <1>2, <1>3, <1>4, <1>5, <1>6 DEF Next

(* In every reachable state amounts, shares and reserves are naturals, the *)
(* packed totals fit, and no index is zero, for any number of markets and  *)
(* accounts and any accepted configuration.                                *)
THEOREM TypeCorrect == Spec => []TypeOK
<1>1. LendingInv => TypeOK
  BY DEF LendingInv
<1>2. QED
  BY <1>1, LendingInit, LendingStep, PTL DEF Spec

(* In every reachable state the packed totals of a market are the sums of  *)
(* its accounts' collateral, supply shares, debt shares and bad debt.      *)
THEOREM TotalsAlwaysMatch == Spec => []TotalsMatchAccounts
<1>1. LendingInv => TotalsMatchAccounts
  BY DEF LendingInv
<1>2. QED
  BY <1>1, LendingInit, LendingStep, PTL DEF Spec

-----------------------------------------------------------------------------
(* Bad debt is only recovered.                                             *)

(* A step that writes one account's debt and bad debt only recovers bad    *)
(* debt if that account has none, or loses at least as much debt.          *)
LEMMA RecoveredBy ==
  ASSUME LendingInv, NEW m \in Markets, NEW a \in Accounts, NEW d \in Nat, NEW b \in Nat,
         SetsEntry(debtSharesOf, debtSharesOf', m, a, d),
         SetsEntry(badDebtSharesOf, badDebtSharesOf', m, a, b),
         \/ badDebtSharesOf[m][a] = 0
         \/ /\ d <= debtSharesOf[m][a]
            /\ badDebtSharesOf[m][a] - b <= debtSharesOf[m][a] - d
  PROVE  OnlyRecovered
<1>1. debtSharesOf \in PerAccount /\ badDebtSharesOf \in PerAccount
  BY DEF LendingInv, TypeOK
<1>2. ASSUME NEW n \in Markets, NEW u \in Accounts, badDebtSharesOf[n][u] # 0
      PROVE  /\ debtSharesOf'[n][u] <= debtSharesOf[n][u]
             /\ badDebtSharesOf[n][u] - badDebtSharesOf'[n][u]
                  <= debtSharesOf[n][u] - debtSharesOf'[n][u]
  <2>1. debtSharesOf[n][u] \in Nat /\ badDebtSharesOf[n][u] \in Nat
    BY <1>1 DEF PerAccount
  <2>2. CASE n = m /\ u = a
    <3>1. debtSharesOf'[m][a] = d /\ badDebtSharesOf'[m][a] = b
      BY <1>1 DEF SetsEntry, PerAccount
    <3>2. QED
      BY <1>2, <2>1, <2>2, <3>1
  <2>3. CASE n # m \/ u # a
    <3>1. debtSharesOf'[n][u] = debtSharesOf[n][u] /\ badDebtSharesOf'[n][u] = badDebtSharesOf[n][u]
      BY <1>1, <2>3 DEF SetsEntry, PerAccount
    <3>2. QED
      BY <2>1, <3>1
  <2>4. QED
    BY <2>2, <2>3
<1>3. QED
  BY <1>2 DEF OnlyRecovered

(* A step that touches no debt recovers nothing. *)
LEMMA NothingRecovered ==
  ASSUME LendingInv, UNCHANGED <<debtSharesOf, badDebtSharesOf>>
  PROVE  OnlyRecovered
<1>1. ASSUME NEW n \in Markets, NEW u \in Accounts
      PROVE  debtSharesOf[n][u] \in Nat /\ badDebtSharesOf[n][u] \in Nat
  BY DEF LendingInv, TypeOK, PerAccount
<1>2. QED
  BY <1>1 DEF OnlyRecovered

(* Borrowing is closed to bad debtors. *)
LEMMA BorrowRecovers ==
  ASSUME LendingInv, NEW m \in Markets, NEW a \in Accounts, NEW x \in Amounts,
         Borrow(m, a, x)
  PROVE  OnlyRecovered
<1> DEFINE d == debtSharesOf[m][a] + SharesUp(x, AccruedIndex(m).borrow)
<1>1. SharesUp(x, AccruedIndex(m).borrow) \in Nat
  <2>1. AccruedIndex(m).borrow \in Nat \ {0} /\ x \in Nat
    BY InstanceAssumption, AccruedIndexType DEF LendingInv, IndexType
  <2>2. QED
    BY <2>1, ShareRules
<1>2. debtSharesOf[m][a] \in Nat /\ badDebtSharesOf \in PerAccount
  BY AccountTotals DEF LendingInv, TypeOK
<1>3. d \in Nat
  BY <1>1, <1>2
<1>4. /\ badDebtSharesOf[m][a] = 0 /\ badDebtSharesOf' = badDebtSharesOf
      /\ SetsEntry(debtSharesOf, debtSharesOf', m, a, d)
  BY DEF Borrow, SetsEntry, LendingInv, TypeOK, PerAccount
<1>5. SetsEntry(badDebtSharesOf, badDebtSharesOf', m, a, 0)
  BY <1>2, <1>4, KeepsEntry
<1> HIDE DEF d
<1>6. QED
  BY <1>3, <1>4, <1>5, RecoveredBy

(* A repayment clears no more bad debt than debt. *)
LEMMA RepayRecovers ==
  ASSUME LendingInv, NEW m \in Markets, NEW a \in Accounts, NEW x \in Amounts,
         Repay(m, a, x)
  PROVE  OnlyRecovered
<1> DEFINE held == debtSharesOf[m][a]
<1> DEFINE bad == badDebtSharesOf[m][a]
<1>1. PICK q \in Nat, c \in Nat :
        /\ c <= q /\ q <= held /\ c <= bad
        /\ SetsEntry(debtSharesOf, debtSharesOf', m, a, held - q)
        /\ SetsEntry(badDebtSharesOf, badDebtSharesOf', m, a, bad - c)
  BY RepayStep
<1>2. held \in Nat /\ bad \in Nat
  BY AccountTotals DEF LendingInv, TypeOK
<1>3. /\ held - q \in Nat /\ bad - c \in Nat /\ held - q <= held
      /\ bad - (bad - c) <= held - (held - q)
  BY <1>1, <1>2
<1>4. QED
  BY <1>1, <1>3, RecoveredBy

(* A liquidation never lowers the record of bad debt. *)
LEMMA LiquidateRecovers ==
  ASSUME LendingInv, NEW m \in Markets, NEW a \in Accounts, NEW x \in Amounts,
         Liquidate(m, a, x)
  PROVE  OnlyRecovered
<1> DEFINE held == debtSharesOf[m][a]
<1> DEFINE bad == badDebtSharesOf[m][a]
<1>0. PICK q \in Nat, s \in Nat, b \in Nat, paid \in Nat : Liquidates(m, a, q, s, b, paid)
  BY LiquidateEffect
<1>1. /\ q <= held /\ b >= bad
      /\ SetsEntry(debtSharesOf, debtSharesOf', m, a, held - q)
      /\ SetsEntry(badDebtSharesOf, badDebtSharesOf', m, a, b)
  BY <1>0 DEF Liquidates
<1>2. held \in Nat /\ bad \in Nat
  BY AccountTotals DEF LendingInv, TypeOK
<1>3. held - q \in Nat /\ held - q <= held /\ bad - b <= held - (held - q)
  BY <1>1, <1>2
<1>4. QED
  BY <1>1, <1>3, RecoveredBy

(* The recovery paths cancel debt and bad debt together. *)
LEMMA BurnRecovers ==
  ASSUME LendingInv, NEW m \in Markets, NEW a \in Accounts, Burns(m, a)
  PROVE  OnlyRecovered
<1> DEFINE held == debtSharesOf[m][a]
<1> DEFINE bad == badDebtSharesOf[m][a]
<1>1. PICK n \in Nat, r \in Nat, l \in Nat : BurnBadDebt(m, a, n, r, l)
  BY DEF Burns
<1>2. /\ n <= bad /\ n <= held
      /\ SetsEntry(debtSharesOf, debtSharesOf', m, a, held - n)
      /\ SetsEntry(badDebtSharesOf, badDebtSharesOf', m, a, bad - n)
  <2>1. n <= bad /\ n <= held
    BY <1>1 DEF BurnBadDebt
  <2>2. SetsEntry(debtSharesOf, debtSharesOf', m, a, held - n)
    BY <1>1 DEF BurnBadDebt, LendingInv, TypeOK, PerAccount, SetsEntry
  <2>3. SetsEntry(badDebtSharesOf, badDebtSharesOf', m, a, bad - n)
    BY <1>1 DEF BurnBadDebt, LendingInv, TypeOK, PerAccount, SetsEntry
  <2>4. QED
    BY <2>1, <2>2, <2>3
<1>3. held \in Nat /\ bad \in Nat
  BY AccountTotals DEF LendingInv, TypeOK
<1>4. /\ held - n \in Nat /\ bad - n \in Nat /\ held - n <= held
      /\ bad - (bad - n) <= held - (held - n)
  BY <1>2, <1>3
<1>5. QED
  BY <1>2, <1>4, RecoveredBy

(* Every step that changes anything only recovers bad debt. *)
LEMMA RecoveryStep == LendingInv /\ [Next]_vars => [OnlyRecovered]_vars
<1> SUFFICES ASSUME LendingInv, Next PROVE OnlyRecovered
  OBVIOUS
<1>1. ASSUME NEW m \in Markets, NEW a \in Accounts, NEW x \in Amounts,
             \/ Borrow(m, a, x) \/ Repay(m, a, x) \/ Liquidate(m, a, x)
             \/ CoverBadDebtWithReserves(m, a, x) \/ RecapitalizeBadDebt(m, a, x)
             \/ RealizeBadDebtLoss(m, a, x)
      PROVE  OnlyRecovered
  BY <1>1, BorrowRecovers, RepayRecovers, LiquidateRecovers, CoverBadDebtStep,
     RecapitalizeStep, RealizeStep, BurnRecovers
<1>2. ASSUME NEW m \in Markets, NEW a \in Accounts, NEW x \in Amounts,
             \/ DepositCollateral(m, a, x) \/ WithdrawCollateral(m, a, x)
             \/ SupplyLiquidity(m, a, x) \/ WithdrawLiquidity(m, a, x)
      PROVE  OnlyRecovered
  BY <1>2, NothingRecovered DEF DepositCollateral, WithdrawCollateral, SupplyLiquidity,
     WithdrawLiquidity
<1>3. CASE AccountStep
  BY <1>1, <1>2, <1>3 DEF AccountStep
<1>4. CASE ~AccountStep
  <2>1. UNCHANGED accountVars
    BY <1>4 DEF Next, MarketStep, AccrueInterest, WithdrawReserves, ConfigureMarket,
       SetMarketEnabled, ConfigureRate, SetRateEnabled, PublishPrices, AdvanceTime
  <2>2. QED
    BY <2>1, NothingRecovered DEF accountVars
<1>5. QED
  BY <1>3, <1>4

(* In every behaviour, the debt of a bad debtor never grows, and the       *)
(* record of bad debt shrinks at most as much as the debt does.            *)
THEOREM BadDebtRecovery == Spec => BadDebtOnlyRecovered
BY LendingInit, LendingStep, RecoveryStep, PTL DEF Spec, BadDebtOnlyRecovered

-----------------------------------------------------------------------------
(* Custody of collateral, where no two markets share a collateral asset    *)
(* and no debt asset is collateral.                                        *)

(* A step of market m that moves its collateral total and the balance of   *)
(* its collateral asset by the same k, and only adds or removes tokens of  *)
(* its debt asset besides, keeps custody.                                  *)
LEMMA CustodyMove ==
  ASSUME IsolatedAssets, LendingInv, CollateralInCustody, NEW m \in Markets, NEW k \in Int,
         market' = [market EXCEPT ![m] = market'[m]],
         market'[m].totalCollateral = market[m].totalCollateral + k,
         balance'[CollateralAsset[m]] = balance[CollateralAsset[m]] + k,
         \A s \in Assets \ {CollateralAsset[m], DebtAsset[m]} : balance'[s] = balance[s]
  PROVE  CollateralInCustody'
<1> SUFFICES ASSUME NEW n \in Markets
             PROVE  balance'[CollateralAsset[n]] >= market'[n].totalCollateral
  BY DEF CollateralInCustody
<1>1. /\ CollateralAsset[n] \in Assets /\ CollateralAsset[m] \in Assets
      /\ balance[CollateralAsset[n]] >= market[n].totalCollateral
      /\ balance[CollateralAsset[n]] \in Nat
  BY InstanceAssumption DEF CollateralInCustody, LendingInv, TypeOK
<1>2. market[n] \in MarketType /\ market \in [Markets -> MarketType]
  BY DEF LendingInv, TypeOK
<1>3. market[n].totalCollateral \in Nat
  BY <1>2, InstanceAssumption DEF MarketType
<1>4. CASE n = m
  BY <1>1, <1>3, <1>4
<1>5. CASE n # m
  <2>1. market'[n] = market[n]
    BY <1>2, <1>5
  <2>2. CollateralAsset[n] # CollateralAsset[m] /\ CollateralAsset[n] # DebtAsset[m]
    BY <1>5 DEF IsolatedAssets
  <2>3. QED
    BY <1>1, <2>1, <2>2
<1>6. QED
  BY <1>4, <1>5

(* A step that moves no collateral and only tokens of a debt asset keeps   *)
(* custody.                                                                *)
LEMMA CustodyKept ==
  ASSUME IsolatedAssets, LendingInv, CollateralInCustody, NEW m \in Markets, NEW v,
         market' = [market EXCEPT ![m] = market'[m]],
         market'[m].totalCollateral = market[m].totalCollateral,
         balance' = [balance EXCEPT ![DebtAsset[m]] = v]
  PROVE  CollateralInCustody'
<1>1. /\ CollateralAsset[m] \in Assets /\ DebtAsset[m] \in Assets
      /\ CollateralAsset[m] # DebtAsset[m] /\ balance \in [Assets -> Nat]
  BY InstanceAssumption DEF LendingInv, TypeOK
<1>2. /\ balance'[CollateralAsset[m]] = balance[CollateralAsset[m]] + 0
      /\ \A s \in Assets \ {CollateralAsset[m], DebtAsset[m]} : balance'[s] = balance[s]
  BY <1>1
<1>3. market'[m].totalCollateral = market[m].totalCollateral + 0
  <2>1. market[m] \in MarketType
    BY DEF LendingInv, TypeOK
  <2>2. market[m].totalCollateral \in Nat
    BY <2>1, InstanceAssumption DEF MarketType
  <2>3. QED
    BY <2>2
<1>4. QED
  BY <1>2, <1>3, CustodyMove

(* Depositing and withdrawing collateral keep custody. *)
LEMMA CollateralCustody ==
  ASSUME IsolatedAssets, LendingInv, CollateralInCustody,
         NEW m \in Markets, NEW a \in Accounts, NEW x \in Amounts,
         DepositCollateral(m, a, x) \/ WithdrawCollateral(m, a, x)
  PROVE  CollateralInCustody'
<1> DEFINE A == Accrued(m)
<1>1. /\ CollateralAsset[m] \in Assets /\ balance \in [Assets -> Nat] /\ x \in Nat
      /\ market \in [Markets -> MarketType] /\ market[m] \in MarketType
  BY InstanceAssumption DEF LendingInv, TypeOK
<1>2. A \in MarketType /\ A.totalCollateral = market[m].totalCollateral
  BY AccruedType DEF LendingInv
<1>3. A.totalCollateral \in Nat /\ market[m].totalCollateral \in Nat
  BY <1>1, <1>2, InstanceAssumption DEF MarketType
<1>4. CASE DepositCollateral(m, a, x)
  <2>1. /\ market' = [market EXCEPT ![m] = [A EXCEPT !.totalCollateral = @ + x]]
        /\ balance' = [balance EXCEPT ![CollateralAsset[m]] = @ + x]
    BY <1>4 DEF DepositCollateral
  <2> HIDE DEF A
  <2>2. market'[m].totalCollateral = market[m].totalCollateral + x
    BY <1>1, <1>2, <2>1 DEF MarketType
  <2>3. market' = [market EXCEPT ![m] = market'[m]]
    BY <1>1, <2>1
  <2>4. /\ balance'[CollateralAsset[m]] = balance[CollateralAsset[m]] + x
        /\ \A s \in Assets \ {CollateralAsset[m], DebtAsset[m]} : balance'[s] = balance[s]
    BY <1>1, <2>1
  <2>5. QED
    BY <1>1, <2>2, <2>3, <2>4, CustodyMove
<1>5. CASE WithdrawCollateral(m, a, x)
  <2>1. /\ market' = [market EXCEPT ![m] = [A EXCEPT !.totalCollateral = @ - x]]
        /\ balance' = [balance EXCEPT ![CollateralAsset[m]] = @ - x]
    BY <1>5 DEF WithdrawCollateral
  <2> HIDE DEF A
  <2>2. market'[m].totalCollateral = market[m].totalCollateral + (-x)
    BY <1>1, <1>2, <1>3, <2>1 DEF MarketType
  <2>3. market' = [market EXCEPT ![m] = market'[m]]
    BY <1>1, <2>1
  <2>4. /\ balance'[CollateralAsset[m]] = balance[CollateralAsset[m]] + (-x)
        /\ \A s \in Assets \ {CollateralAsset[m], DebtAsset[m]} : balance'[s] = balance[s]
    BY <1>1, <2>1
  <2>5. QED
    BY <1>1, <2>2, <2>3, <2>4, CustodyMove
<1>6. QED
  BY <1>4, <1>5

(* Moving liquidity, borrowing and withdrawing reserves keep custody. *)
LEMMA LiquidityCustody ==
  ASSUME IsolatedAssets, LendingInv, CollateralInCustody, NEW m \in Markets, NEW x \in Amounts,
         \/ \E a \in Accounts : \/ SupplyLiquidity(m, a, x) \/ WithdrawLiquidity(m, a, x)
                                \/ Borrow(m, a, x)
         \/ WithdrawReserves(m, x)
  PROVE  CollateralInCustody'
<1> DEFINE A == Accrued(m)
<1>1. /\ DebtAsset[m] \in Assets /\ balance \in [Assets -> Nat]
      /\ market \in [Markets -> MarketType]
  BY InstanceAssumption DEF LendingInv, TypeOK
<1>2. A \in MarketType /\ A.totalCollateral = market[m].totalCollateral
  BY AccruedType DEF LendingInv
<1>3. PICK k, v :
        /\ \/ market' = [market EXCEPT ![m] = [A EXCEPT !.totalSupplyShares = k]]
           \/ market' = [market EXCEPT ![m] = [A EXCEPT !.totalDebtShares = k]]
           \/ market' = [market EXCEPT ![m] = [A EXCEPT !.accruedReserves = k]]
        /\ balance' = [balance EXCEPT ![DebtAsset[m]] = v]
  <2> HIDE DEF A
  <2>1. \A a \in Accounts :
          /\ SupplyLiquidity(m, a, x) =>
               \E k, v : /\ market' = [market EXCEPT ![m] = [A EXCEPT !.totalSupplyShares = k]]
                         /\ balance' = [balance EXCEPT ![DebtAsset[m]] = v]
          /\ WithdrawLiquidity(m, a, x) =>
               \E k, v : /\ market' = [market EXCEPT ![m] = [A EXCEPT !.totalSupplyShares = k]]
                         /\ balance' = [balance EXCEPT ![DebtAsset[m]] = v]
          /\ Borrow(m, a, x) =>
               \E k, v : /\ market' = [market EXCEPT ![m] = [A EXCEPT !.totalDebtShares = k]]
                         /\ balance' = [balance EXCEPT ![DebtAsset[m]] = v]
    BY Zenon DEF A, SupplyLiquidity, WithdrawLiquidity, Borrow
  <2>2. WithdrawReserves(m, x) =>
          \E k, v : /\ market' = [market EXCEPT ![m] = [A EXCEPT !.accruedReserves = k]]
                    /\ balance' = [balance EXCEPT ![DebtAsset[m]] = v]
    BY Zenon DEF A, WithdrawReserves
  <2>3. QED
    BY <2>1, <2>2
<1> HIDE DEF A
<1>4. market'[m].totalCollateral = A.totalCollateral
  BY <1>1, <1>2, <1>3 DEF MarketType
<1>5. market' = [market EXCEPT ![m] = market'[m]]
  BY <1>1, <1>3
<1>6. QED
  BY <1>2, <1>3, <1>4, <1>5, CustodyKept

(* Repaying keeps custody. *)
LEMMA RepayCustody ==
  ASSUME IsolatedAssets, LendingInv, CollateralInCustody,
         NEW m \in Markets, NEW a \in Accounts, NEW x \in Amounts, Repay(m, a, x)
  PROVE  CollateralInCustody'
<1>1. PICK paid \in Nat :
        /\ market'[m].totalCollateral = market[m].totalCollateral
        /\ market' = [market EXCEPT ![m] = market'[m]]
        /\ balance' = [balance EXCEPT ![DebtAsset[m]] = @ + paid]
  BY RepayStep
<1> DEFINE v == balance[DebtAsset[m]] + paid
<1>2. balance' = [balance EXCEPT ![DebtAsset[m]] = v]
  BY <1>1
<1> HIDE DEF v
<1>3. QED
  BY <1>1, <1>2, CustodyKept

(* Burning bad debt keeps custody. *)
LEMMA BurnCustody ==
  ASSUME IsolatedAssets, LendingInv, CollateralInCustody,
         NEW m \in Markets, NEW a \in Accounts, Burns(m, a)
  PROVE  CollateralInCustody'
<1>1. PICK n \in Nat, r \in Nat, l \in Nat : BurnBadDebt(m, a, n, r, l)
  BY DEF Burns
<1>2. PICK paid \in Nat : balance' = [balance EXCEPT ![DebtAsset[m]] = @ + paid]
  BY DEF Burns
<1>3. market \in [Markets -> MarketType] /\ market[m] \in MarketType
  BY DEF LendingInv, TypeOK
<1>4. /\ market' = [market EXCEPT ![m] = market'[m]]
      /\ market'[m].totalCollateral = market[m].totalCollateral
  BY <1>1, <1>3 DEF BurnBadDebt, MarketType
<1> DEFINE v == balance[DebtAsset[m]] + paid
<1>5. balance' = [balance EXCEPT ![DebtAsset[m]] = v]
  BY <1>2
<1> HIDE DEF v
<1>6. QED
  BY <1>4, <1>5, CustodyKept

(* A liquidation hands out the collateral it takes off the total. *)
LEMMA LiquidateCustody ==
  ASSUME IsolatedAssets, LendingInv, CollateralInCustody,
         NEW m \in Markets, NEW a \in Accounts, NEW x \in Amounts, Liquidate(m, a, x)
  PROVE  CollateralInCustody'
<1> DEFINE A == Accrued(m)
<1>0. PICK q \in Nat, s \in Nat, b \in Nat, paid \in Nat : Liquidates(m, a, q, s, b, paid)
  BY LiquidateEffect
<1>1. /\ s <= A.totalCollateral /\ s <= balance[CollateralAsset[m]]
      /\ market' = [market EXCEPT ![m] =
           [A EXCEPT !.totalDebtShares = @ - q, !.totalCollateral = @ - s,
                     !.totalBadDebtShares = @ + (b - badDebtSharesOf[m][a])]]
      /\ balance' = [balance EXCEPT ![DebtAsset[m]] = @ + paid,
                                    ![CollateralAsset[m]] = @ - s]
  BY <1>0 DEF Liquidates
<1>2. /\ CollateralAsset[m] \in Assets /\ DebtAsset[m] \in Assets
      /\ CollateralAsset[m] # DebtAsset[m] /\ balance \in [Assets -> Nat]
      /\ market \in [Markets -> MarketType] /\ market[m] \in MarketType
  BY InstanceAssumption DEF LendingInv, TypeOK
<1>3. A \in MarketType /\ A.totalCollateral = market[m].totalCollateral
  BY AccruedType DEF LendingInv
<1> HIDE DEF A
<1>4. A.totalCollateral \in Nat
  BY <1>3, InstanceAssumption DEF MarketType
<1>5. market'[m].totalCollateral = market[m].totalCollateral + (-s)
  BY <1>1, <1>2, <1>3, <1>4 DEF MarketType
<1>6. market' = [market EXCEPT ![m] = market'[m]]
  BY <1>1, <1>2
<1>7. /\ balance'[CollateralAsset[m]] = balance[CollateralAsset[m]] + (-s)
      /\ \A t \in Assets \ {CollateralAsset[m], DebtAsset[m]} : balance'[t] = balance[t]
  BY <1>1, <1>2
<1>8. QED
  BY <1>5, <1>6, <1>7, CustodyMove

(* Every step keeps custody. *)
LEMMA CustodyStep ==
  ASSUME IsolatedAssets
  PROVE  LendingInv /\ CollateralInCustody /\ [Next]_vars => CollateralInCustody'
<1> SUFFICES ASSUME LendingInv, CollateralInCustody, [Next]_vars PROVE CollateralInCustody'
  OBVIOUS
<1>1. ASSUME NEW m \in Markets, NEW a \in Accounts, NEW x \in Amounts,
             \/ DepositCollateral(m, a, x) \/ WithdrawCollateral(m, a, x)
             \/ SupplyLiquidity(m, a, x) \/ WithdrawLiquidity(m, a, x)
             \/ Borrow(m, a, x) \/ Repay(m, a, x) \/ Liquidate(m, a, x)
             \/ CoverBadDebtWithReserves(m, a, x) \/ RecapitalizeBadDebt(m, a, x)
             \/ RealizeBadDebtLoss(m, a, x)
      PROVE  CollateralInCustody'
  BY <1>1, CollateralCustody, LiquidityCustody, RepayCustody, LiquidateCustody,
     CoverBadDebtStep, RecapitalizeStep, RealizeStep, BurnCustody
<1>2. CASE AccountStep
  BY <1>1, <1>2 DEF AccountStep
<1>3. CASE UNCHANGED <<balance, market>>
  BY <1>3 DEF CollateralInCustody
<1>4. CASE MarketStep
  <2>1. PICK m \in Markets :
          \/ AccrueInterest(m)
          \/ \E amount \in Amounts : WithdrawReserves(m, amount)
          \/ UNCHANGED <<balance, market>>
    BY <1>4 DEF MarketStep, ConfigureMarket, SetMarketEnabled, ConfigureRate, SetRateEnabled
  <2>2. CASE AccrueInterest(m)
    <3>1. market' = [market EXCEPT ![m] = Accrued(m)] /\ balance' = balance
      BY <2>2 DEF AccrueInterest
    <3>2. /\ Accrued(m).totalCollateral = market[m].totalCollateral
          /\ market'[m] = Accrued(m) /\ market' = [market EXCEPT ![m] = market'[m]]
      BY <3>1, AccruedType, MarketUpdate DEF LendingInv
    <3>3. balance' = [balance EXCEPT ![DebtAsset[m]] = balance[DebtAsset[m]]]
      BY <3>1, InstanceAssumption DEF LendingInv, TypeOK
    <3>4. QED
      BY <3>2, <3>3, CustodyKept
  <2>3. QED
    BY <1>3, <2>1, <2>2, LiquidityCustody
<1>5. CASE (\E s \in Assets : \E f \in Feeds[s] : PublishPrices(s, f)) \/ AdvanceTime
  BY <1>3, <1>5 DEF PublishPrices, AdvanceTime
<1>6. CASE UNCHANGED vars
  BY <1>3, <1>6 DEF vars
<1>7. QED
  BY <1>2, <1>4, <1>5, <1>6 DEF Next

(* Where no two markets share a collateral asset and no debt asset is      *)
(* collateral, the core always holds at least the collateral it records.   *)
THEOREM CustodyWhenIsolated ==
  ASSUME IsolatedAssets
  PROVE  Spec => []CollateralInCustody
<1>1. Init => CollateralInCustody
  <2>1. Init => \A s \in Assets : balance[s] = 0
    BY DEF Init
  <2>2. Init => \A m \in Markets : market[m].totalCollateral = 0
    BY DEF Init
  <2>3. QED
    BY <2>1, <2>2, InstanceAssumption DEF CollateralInCustody
<1>2. QED
  BY <1>1, LendingInit, LendingStep, CustodyStep, PTL DEF Spec

-----------------------------------------------------------------------------
(* Residual debt, where every unit of debt is worth something.             *)

\* The entries of one account: owing without collateral is recorded in full.
Settled(c, d, b) == c = 0 /\ d # 0 => b = d

\* Prices come from the listed feeds, no borrow index is below its start, and
\* every account is settled.
ResidualInv ==
  /\ \A s \in Assets : feed[s] \in Feeds[s]
  /\ \A m \in Markets : index[m].borrow >= RAY
  /\ \A m \in Markets, a \in Accounts :
       Settled(collateralOf[m][a], debtSharesOf[m][a], badDebtSharesOf[m][a])

(* A quotient of a product by no more than its second factor is no less    *)
(* than the first.                                                         *)
LEMMA NoLess ==
  ASSUME NEW x \in Nat, NEW y \in Nat, NEW n \in Nat \ {0}, n <= y
  PROVE  (x * y) \div n >= x /\ (x * y) \div n \in Nat
<1>1. x * n <= x * y /\ x * n \in Nat /\ x * y \in Nat
  BY MulMono, MulNat
<1>2. (x * n) \div n = x
  BY DivCancel
<1>3. (x * n) \div n <= (x * y) \div n
  BY <1>1, DivMono
<1>4. (x * y) \div n \in Nat
  BY <1>1, DivNat
<1>5. QED
  BY <1>2, <1>3, <1>4

(* At an index that is not below its start, shares are worth something.    *)
LEMMA SharesAreWorth ==
  ASSUME NEW x \in Nat, NEW ix \in Nat \ {0}, ix >= RAY
  PROVE  x # 0 => ValueOf(x, ix) # 0
<1>1. RAY \in Nat \ {0} /\ RAY <= ix
  BY ScaleAssumption
<1>2. (x * ix) \div RAY >= x /\ (x * ix) \div RAY \in Nat
  BY <1>1, NoLess
<1>3. QED
  BY <1>2 DEF ValueOf

(* No debt is sound without collateral.                                    *)
LEMMA NothingBorrowsNothing ==
  ASSUME DebtIsPriced, LendingInv, ResidualInv, NEW m \in Markets, NEW debt \in Nat,
         MayBorrow(m, 0, debt)
  PROVE  debt = 0
<1> DEFINE d == DebtAsset[m]
<1> DEFINE c == CollateralAsset[m]
<1> DEFINE high == HighPrice(feed[d])
<1> DEFINE owed == (debt * high) \div Unit[d]
<1>1. /\ d \in Assets /\ c \in Assets /\ Unit[d] \in Nat \ {0} /\ Unit[c] \in Nat \ {0}
      /\ feed[d] \in Feeds[d] /\ feed[d] \in FeedType /\ feed[c] \in FeedType
      /\ config[m] \in ConfigType
  BY InstanceAssumption DEF ResidualInv, LendingInv, TypeOK
<1>2. high \in Nat /\ Unit[d] <= high
  BY <1>1 DEF DebtIsPriced, HighPrice, Greater, FeedType
<1>3. config[m].ltv \in Nat /\ LowPrice(feed[c]) \in Nat
  <2>1. LowPrice(feed[c]) \in Nat
    BY <1>1 DEF LowPrice, Lesser, FeedType
  <2>2. QED
    BY <1>1, <2>1, ConfigFields
<1>4. CollValue(m, 0) = 0
  <2> DEFINE low == LowPrice(feed[c])
  <2> HIDE DEF low
  <2>1. 0 * low = 0
    BY <1>3 DEF low
  <2>2. 0 \div Unit[c] = 0
    BY <1>1
  <2>3. QED
    BY <2>1, <2>2 DEF CollValue, CollateralValue, low
<1>5. owed <= (0 * config[m].ltv) \div BPS
  BY <1>4 DEF MayBorrow, BorrowAllowed, OwedValue, DebtValue
<1>6. (0 * config[m].ltv) \div BPS = 0
  <2> DEFINE l == config[m].ltv
  <2> HIDE DEF l
  <2>1. 0 * l = 0
    BY <1>3 DEF l
  <2>2. QED
    BY <2>1 DEF BPS, l
<1> HIDE DEF high
<1>7. owed >= debt /\ owed \in Nat
  BY <1>1, <1>2, NoLess
<1> HIDE DEF owed
<1>8. QED
  BY <1>5, <1>6, <1>7

(* A handler that accrues keeps the borrow indexes above their start.      *)
LEMMA ResidualIndex ==
  ASSUME LendingInv, ResidualInv, NEW m \in Markets,
         \/ Accrue(m)
         \/ \E s \in Nat \ {0} : index' = [index EXCEPT ![m] = [AccruedIndex(m) EXCEPT !.supply = s]]
  PROVE  \A n \in Markets : index'[n].borrow >= RAY
<1>1. /\ index \in [Markets -> IndexType] /\ AccruedIndex(m) \in IndexType
      /\ AccruedIndex(m).borrow >= index[m].borrow
  BY AccruedIndexType DEF LendingInv, TypeOK
<1>2. index'[m].borrow = AccruedIndex(m).borrow
  <2>1. CASE Accrue(m)
    BY <1>1, <2>1 DEF Accrue
  <2>2. CASE \E s \in Nat \ {0} :
               index' = [index EXCEPT ![m] = [AccruedIndex(m) EXCEPT !.supply = s]]
    BY <1>1, <2>2 DEF IndexType
  <2>3. QED
    BY <2>1, <2>2
<1>3. AccruedIndex(m).borrow \in Nat /\ index[m].borrow \in Nat /\ index[m].borrow >= RAY
  BY <1>1 DEF IndexType, ResidualInv
<1>4. index'[m].borrow >= RAY
  BY <1>1, <1>2, <1>3, ScaleAssumption
<1>5. \A n \in Markets \ {m} : index'[n] = index[n]
  BY <1>1 DEF Accrue
<1>6. QED
  BY <1>4, <1>5 DEF ResidualInv

(* A handler that writes one account keeps every account settled if it     *)
(* leaves that one settled.                                                *)
LEMMA ResidualWrite ==
  ASSUME LendingInv, ResidualInv, NEW m \in Markets, NEW a \in Accounts,
         NEW c \in Nat, NEW d \in Nat, NEW b \in Nat, Settled(c, d, b),
         SetsEntry(collateralOf, collateralOf', m, a, c),
         SetsEntry(debtSharesOf, debtSharesOf', m, a, d),
         SetsEntry(badDebtSharesOf, badDebtSharesOf', m, a, b),
         UNCHANGED feed, \A n \in Markets : index'[n].borrow >= RAY
  PROVE  ResidualInv'
<1>1. /\ collateralOf \in PerAccount /\ debtSharesOf \in PerAccount
      /\ badDebtSharesOf \in PerAccount
  BY DEF LendingInv, TypeOK
<1>2. ASSUME NEW n \in Markets, NEW u \in Accounts
      PROVE  Settled(collateralOf'[n][u], debtSharesOf'[n][u], badDebtSharesOf'[n][u])
  <2>1. CASE n = m /\ u = a
    <3>1. /\ collateralOf'[m][a] = c /\ debtSharesOf'[m][a] = d
          /\ badDebtSharesOf'[m][a] = b
      BY <1>1 DEF SetsEntry, PerAccount
    <3>2. QED
      BY <2>1, <3>1
  <2>2. CASE n # m \/ u # a
    <3>1. /\ collateralOf'[n][u] = collateralOf[n][u]
          /\ debtSharesOf'[n][u] = debtSharesOf[n][u]
          /\ badDebtSharesOf'[n][u] = badDebtSharesOf[n][u]
      BY <1>1, <2>2 DEF SetsEntry, PerAccount
    <3>2. QED
      BY <3>1 DEF ResidualInv
  <2>3. QED
    BY <2>1, <2>2
<1>3. QED
  BY <1>2 DEF ResidualInv

(* Collateral that is added counts, and what is taken leaves a sound debt. *)
LEMMA CollateralResidual ==
  ASSUME DebtIsPriced, LendingInv, ResidualInv,
         NEW m \in Markets, NEW a \in Accounts, NEW x \in Amounts,
         DepositCollateral(m, a, x) \/ WithdrawCollateral(m, a, x)
  PROVE  ResidualInv'
<1> DEFINE coll == collateralOf[m][a]
<1> DEFINE held == debtSharesOf[m][a]
<1> DEFINE bad == badDebtSharesOf[m][a]
<1>1. /\ x \in Nat \ {0} /\ coll \in Nat /\ held \in Nat /\ bad \in Nat
      /\ debtSharesOf \in PerAccount /\ badDebtSharesOf \in PerAccount
      /\ collateralOf \in PerAccount
  BY InstanceAssumption, AccountTotals DEF LendingInv, TypeOK
<1>2. /\ Accrue(m) /\ UNCHANGED feed
      /\ debtSharesOf' = debtSharesOf /\ badDebtSharesOf' = badDebtSharesOf
  BY DEF DepositCollateral, WithdrawCollateral, riskVars
<1>3. /\ SetsEntry(debtSharesOf, debtSharesOf', m, a, held)
      /\ SetsEntry(badDebtSharesOf, badDebtSharesOf', m, a, bad)
  BY <1>1, <1>2, KeepsEntry
<1>4. \A n \in Markets : index'[n].borrow >= RAY
  BY <1>2, ResidualIndex
<1>5. CASE DepositCollateral(m, a, x)
  <2> DEFINE c == coll + x
  <2>1. SetsEntry(collateralOf, collateralOf', m, a, c)
    BY <1>1, <1>5 DEF DepositCollateral, SetsEntry, PerAccount
  <2>2. c \in Nat /\ c # 0
    BY <1>1
  <2> HIDE DEF c, held, bad
  <2>3. Settled(c, held, bad)
    BY <2>2 DEF Settled
  <2>4. QED
    BY <1>1, <1>2, <1>3, <1>4, <2>1, <2>2, <2>3, ResidualWrite
<1>6. CASE WithdrawCollateral(m, a, x)
  <2> DEFINE c == coll - x
  <2> DEFINE bi == AccruedIndex(m).borrow
  <2>1. /\ SetsEntry(collateralOf, collateralOf', m, a, c) /\ x <= coll
        /\ ValueOf(held, bi) # 0 => MayBorrow(m, c, ValueOf(held, bi))
    BY <1>1, <1>6 DEF WithdrawCollateral, SetsEntry, PerAccount, DebtNow
  <2>2. c \in Nat
    BY <1>1, <2>1
  <2>3. bi \in Nat \ {0} /\ bi >= RAY
    <3>1. AccruedIndex(m) \in IndexType /\ AccruedIndex(m).borrow >= index[m].borrow
      BY AccruedIndexType DEF LendingInv
    <3>2. index[m].borrow >= RAY /\ index[m].borrow \in Nat
      BY DEF ResidualInv, LendingInv, TypeOK, IndexType
    <3>3. QED
      BY <3>1, <3>2, ScaleAssumption DEF IndexType
  <2> HIDE DEF bi, held, c
  <2>4. ValueOf(held, bi) \in Nat
    BY <1>1, <2>3, ShareRules
  <2>5. c = 0 => held = 0
    BY <1>1, <2>1, <2>3, <2>4, NothingBorrowsNothing, SharesAreWorth
  <2>6. Settled(c, held, bad)
    BY <2>5 DEF Settled
  <2> HIDE DEF bad
  <2>7. QED
    BY <1>1, <1>2, <1>3, <1>4, <2>1, <2>2, <2>6, ResidualWrite
<1>7. QED
  BY <1>5, <1>6

(* A loan needs collateral. *)
LEMMA BorrowResidual ==
  ASSUME DebtIsPriced, LendingInv, ResidualInv,
         NEW m \in Markets, NEW a \in Accounts, NEW x \in Amounts, Borrow(m, a, x)
  PROVE  ResidualInv'
<1> DEFINE coll == collateralOf[m][a]
<1> DEFINE bi == AccruedIndex(m).borrow
<1> DEFINE d == debtSharesOf[m][a] + SharesUp(x, bi)
<1> DEFINE bad == badDebtSharesOf[m][a]
<1>1. /\ x \in Nat \ {0} /\ coll \in Nat /\ debtSharesOf[m][a] \in Nat /\ bad \in Nat
      /\ badDebtSharesOf \in PerAccount /\ collateralOf \in PerAccount
  BY InstanceAssumption, AccountTotals DEF LendingInv, TypeOK
<1>2. bi \in Nat \ {0} /\ bi >= RAY
  <2>1. AccruedIndex(m) \in IndexType /\ AccruedIndex(m).borrow >= index[m].borrow
    BY AccruedIndexType DEF LendingInv
  <2>2. index[m].borrow >= RAY /\ index[m].borrow \in Nat
    BY DEF ResidualInv, LendingInv, TypeOK, IndexType
  <2>3. QED
    BY <2>1, <2>2, ScaleAssumption DEF IndexType
<1>3. /\ Accrue(m) /\ UNCHANGED feed /\ MayBorrow(m, coll, ValueOf(d, bi))
      /\ SetsEntry(debtSharesOf, debtSharesOf', m, a, d)
      /\ collateralOf' = collateralOf /\ badDebtSharesOf' = badDebtSharesOf
  BY DEF Borrow, SetsEntry, LendingInv, TypeOK, PerAccount, riskVars
<1>4. /\ SetsEntry(collateralOf, collateralOf', m, a, coll)
      /\ SetsEntry(badDebtSharesOf, badDebtSharesOf', m, a, bad)
  BY <1>1, <1>3, KeepsEntry
<1>5. \A n \in Markets : index'[n].borrow >= RAY
  BY <1>3, ResidualIndex
<1>6. d \in Nat
  <2> HIDE DEF bi
  <2>1. SharesUp(x, bi) \in Nat
    BY <1>1, <1>2, ShareRules
  <2>2. QED
    BY <1>1, <2>1
<1> HIDE DEF bi, d, coll
<1>7. ValueOf(d, bi) \in Nat
  BY <1>2, <1>6, ShareRules
<1>8. coll = 0 => d = 0
  BY <1>2, <1>3, <1>6, <1>7, NothingBorrowsNothing, SharesAreWorth
<1>9. Settled(coll, d, bad)
  BY <1>8 DEF Settled
<1> HIDE DEF bad
<1>10. QED
  BY <1>1, <1>3, <1>4, <1>5, <1>6, <1>9, ResidualWrite

(* A repayment takes the same of a debt and of its record. *)
LEMMA RepayResidual ==
  ASSUME LendingInv, ResidualInv, NEW m \in Markets, NEW a \in Accounts, NEW x \in Amounts,
         Repay(m, a, x)
  PROVE  ResidualInv'
<1> DEFINE coll == collateralOf[m][a]
<1> DEFINE held == debtSharesOf[m][a]
<1> DEFINE bad == badDebtSharesOf[m][a]
<1>1. /\ coll \in Nat /\ held \in Nat /\ bad \in Nat /\ collateralOf \in PerAccount
  BY AccountTotals DEF LendingInv, TypeOK
<1>2. PICK q \in Nat, c \in Nat :
        /\ c = Lesser(q, bad)
        /\ q <= held /\ c <= bad
        /\ SetsEntry(debtSharesOf, debtSharesOf', m, a, held - q)
        /\ SetsEntry(badDebtSharesOf, badDebtSharesOf', m, a, bad - c)
  BY RepayStep
<1>3. Accrue(m) /\ UNCHANGED feed /\ collateralOf' = collateralOf
  BY DEF Repay, riskVars
<1>4. SetsEntry(collateralOf, collateralOf', m, a, coll)
  BY <1>1, <1>3, KeepsEntry
<1>5. \A n \in Markets : index'[n].borrow >= RAY
  BY <1>3, ResidualIndex
<1>6. Settled(coll, held, bad)
  BY DEF ResidualInv
<1> HIDE DEF coll, held, bad
<1>7. held - q \in Nat /\ bad - c \in Nat /\ Settled(coll, held - q, bad - c)
  BY <1>1, <1>2, <1>6 DEF Settled, Lesser
<1>8. QED
  BY <1>1, <1>2, <1>3, <1>4, <1>5, <1>7, ResidualWrite DEF coll

(* A liquidation that takes the last collateral records what is left. *)
LEMMA LiquidateResidual ==
  ASSUME LendingInv, ResidualInv, NEW m \in Markets, NEW a \in Accounts, NEW x \in Amounts,
         Liquidate(m, a, x)
  PROVE  ResidualInv'
<1> DEFINE bi == AccruedIndex(m).borrow
<1>1. bi \in Nat \ {0} /\ bi >= RAY
  <2>1. AccruedIndex(m) \in IndexType /\ AccruedIndex(m).borrow >= index[m].borrow
    BY AccruedIndexType DEF LendingInv
  <2>2. index[m].borrow >= RAY /\ index[m].borrow \in Nat
    BY DEF ResidualInv, LendingInv, TypeOK, IndexType
  <2>3. QED
    BY <2>1, <2>2, ScaleAssumption DEF IndexType
<1>2. PICK q \in Nat, s \in Nat, b \in Nat, paid \in Nat :
        /\ Liquidates(m, a, q, s, b, paid)
        /\ b = BadSharesAfter(collateralOf[m][a] - s, ValueOf(debtSharesOf[m][a] - q, bi),
                              debtSharesOf[m][a] - q, badDebtSharesOf[m][a])
  BY LiquidateEffect
<1> DEFINE c == collateralOf[m][a] - s
<1> DEFINE d == debtSharesOf[m][a] - q
<1>3. /\ Accrue(m) /\ UNCHANGED feed /\ q <= debtSharesOf[m][a] /\ s <= collateralOf[m][a]
      /\ SetsEntry(debtSharesOf, debtSharesOf', m, a, d)
      /\ SetsEntry(collateralOf, collateralOf', m, a, c)
      /\ SetsEntry(badDebtSharesOf, badDebtSharesOf', m, a, b)
  BY <1>2 DEF Liquidates, riskVars
<1>4. \A n \in Markets : index'[n].borrow >= RAY
  BY <1>3, ResidualIndex
<1>5. c \in Nat /\ d \in Nat
  <2>1. collateralOf[m][a] \in Nat /\ debtSharesOf[m][a] \in Nat
    BY AccountTotals DEF LendingInv, TypeOK
  <2>2. QED
    BY <1>3, <2>1
<1>6. b = BadSharesAfter(c, ValueOf(d, bi), d, badDebtSharesOf[m][a])
  BY <1>2
<1> HIDE DEF c, d, bi
<1>7. Settled(c, d, b)
  BY <1>1, <1>5, <1>6, SharesAreWorth DEF Settled, BadSharesAfter
<1>8. QED
  BY <1>3, <1>4, <1>5, <1>7, ResidualWrite

(* Burnt bad debt is burnt from the debt as well. *)
LEMMA BurnResidual ==
  ASSUME LendingInv, ResidualInv, NEW m \in Markets, NEW a \in Accounts, Burns(m, a),
         \A n \in Markets : index'[n].borrow >= RAY
  PROVE  ResidualInv'
<1> DEFINE coll == collateralOf[m][a]
<1> DEFINE held == debtSharesOf[m][a]
<1> DEFINE bad == badDebtSharesOf[m][a]
<1>1. PICK n \in Nat, r \in Nat, l \in Nat : BurnBadDebt(m, a, n, r, l)
  BY DEF Burns
<1>2. /\ coll \in Nat /\ held \in Nat /\ bad \in Nat /\ collateralOf \in PerAccount
  BY AccountTotals DEF LendingInv, TypeOK
<1>3. /\ n <= bad /\ n <= held /\ UNCHANGED feed /\ collateralOf' = collateralOf
      /\ SetsEntry(debtSharesOf, debtSharesOf', m, a, held - n)
      /\ SetsEntry(badDebtSharesOf, badDebtSharesOf', m, a, bad - n)
  <2>1. n <= bad /\ n <= held /\ UNCHANGED feed /\ collateralOf' = collateralOf
    BY <1>1 DEF BurnBadDebt, riskVars
  <2>2. SetsEntry(debtSharesOf, debtSharesOf', m, a, held - n)
    BY <1>1 DEF BurnBadDebt, LendingInv, TypeOK, PerAccount, SetsEntry
  <2>3. SetsEntry(badDebtSharesOf, badDebtSharesOf', m, a, bad - n)
    BY <1>1 DEF BurnBadDebt, LendingInv, TypeOK, PerAccount, SetsEntry
  <2>4. QED
    BY <2>1, <2>2, <2>3
<1>4. SetsEntry(collateralOf, collateralOf', m, a, coll)
  BY <1>2, <1>3, KeepsEntry
<1>5. Settled(coll, held, bad)
  BY DEF ResidualInv
<1> HIDE DEF coll, held, bad
<1>6. held - n \in Nat /\ bad - n \in Nat /\ Settled(coll, held - n, bad - n)
  BY <1>2, <1>3, <1>5 DEF Settled
<1>7. QED
  BY <1>2, <1>3, <1>4, <1>6, ResidualWrite

(* What touches neither debts nor collateral. *)
LEMMA QuietResidual ==
  ASSUME ResidualInv, UNCHANGED <<collateralOf, debtSharesOf, badDebtSharesOf>>,
         \A s \in Assets : feed'[s] \in Feeds[s], \A n \in Markets : index'[n].borrow >= RAY
  PROVE  ResidualInv'
BY DEF ResidualInv

LEMMA ResidualStep ==
  ASSUME DebtIsPriced
  PROVE  LendingInv /\ ResidualInv /\ [Next]_vars => ResidualInv'
<1> SUFFICES ASSUME LendingInv, ResidualInv, [Next]_vars PROVE ResidualInv'
  OBVIOUS
<1>1. ASSUME NEW m \in Markets, NEW a \in Accounts, NEW x \in Amounts,
             \/ DepositCollateral(m, a, x) \/ WithdrawCollateral(m, a, x)
             \/ Borrow(m, a, x) \/ Repay(m, a, x) \/ Liquidate(m, a, x)
      PROVE  ResidualInv'
  BY <1>1, CollateralResidual, BorrowResidual, RepayResidual, LiquidateResidual
<1>2. ASSUME NEW m \in Markets, NEW a \in Accounts, NEW x \in Amounts,
             CoverBadDebtWithReserves(m, a, x) \/ RecapitalizeBadDebt(m, a, x)
      PROVE  ResidualInv'
  <2>1. Accrue(m) /\ Burns(m, a)
    BY <1>2, CoverBadDebtStep, RecapitalizeStep DEF CoverBadDebtWithReserves, RecapitalizeBadDebt
  <2>2. QED
    BY <2>1, ResidualIndex, BurnResidual
<1>3. ASSUME NEW m \in Markets, NEW a \in Accounts, NEW x \in Amounts,
             RealizeBadDebtLoss(m, a, x)
      PROVE  ResidualInv'
  <2>1. /\ Burns(m, a)
        /\ Accrue(m) \/ \E s \in Nat \ {0} :
             index' = [index EXCEPT ![m] = [AccruedIndex(m) EXCEPT !.supply = s]]
    BY <1>3, RealizeStep
  <2>2. QED
    BY <2>1, ResidualIndex, BurnResidual
<1>4. ASSUME NEW m \in Markets, NEW a \in Accounts, NEW x \in Amounts,
             SupplyLiquidity(m, a, x) \/ WithdrawLiquidity(m, a, x)
      PROVE  ResidualInv'
  <2>1. Accrue(m) /\ UNCHANGED <<collateralOf, debtSharesOf, badDebtSharesOf, feed>>
    BY <1>4 DEF SupplyLiquidity, WithdrawLiquidity, riskVars
  <2>2. QED
    BY <2>1, ResidualIndex, QuietResidual DEF ResidualInv
<1>5. CASE AccountStep
  BY <1>1, <1>2, <1>3, <1>4, <1>5 DEF AccountStep
<1>6. CASE MarketStep
  <2>1. UNCHANGED <<collateralOf, debtSharesOf, badDebtSharesOf, feed>>
    BY <1>6 DEF MarketStep, AccrueInterest, WithdrawReserves, ConfigureMarket,
       SetMarketEnabled, ConfigureRate, SetRateEnabled, accountVars, riskVars
  <2>2. UNCHANGED index \/ \E m \in Markets : Accrue(m)
    BY <1>6 DEF MarketStep, AccrueInterest, WithdrawReserves, ConfigureMarket,
       SetMarketEnabled, ConfigureRate, SetRateEnabled
  <2>3. \A n \in Markets : index'[n].borrow >= RAY
    BY <2>2, ResidualIndex DEF ResidualInv
  <2>4. QED
    BY <2>1, <2>3, QuietResidual DEF ResidualInv
<1>7. CASE \E s \in Assets : \E f \in Feeds[s] : PublishPrices(s, f)
  <2>1. PICK s \in Assets : \E f \in Feeds[s] : PublishPrices(s, f)
    BY <1>7
  <2>2. PICK f \in Feeds[s] : PublishPrices(s, f)
    BY <2>1
  <2>3. \A z \in Assets : feed'[z] \in Feeds[z]
    BY <2>2 DEF PublishPrices, LendingInv, TypeOK, ResidualInv
  <2>4. QED
    BY <2>2, <2>3, QuietResidual DEF PublishPrices, accountVars, ResidualInv
<1>8. CASE AdvanceTime \/ UNCHANGED vars
  BY <1>8, QuietResidual DEF AdvanceTime, vars, accountVars, riskVars, ResidualInv
<1>9. QED
  BY <1>5, <1>6, <1>7, <1>8 DEF Next

(* Where every unit of debt is worth something, an account without         *)
(* collateral that owes anything carries all of its debt as bad debt: no   *)
(* withdrawal, loan, repayment or liquidation leaves debt that nobody      *)
(* records.                                                                *)
THEOREM ResidualDebtIsRecorded ==
  ASSUME DebtIsPriced
  PROVE  Spec => []ResidualDebtRecorded
<1>1. Init => ResidualInv
  <2>1. Init => \A s \in Assets : feed[s] \in Feeds[s]
    BY DEF Init
  <2>2. Init => \A m \in Markets : index[m].borrow >= RAY
    BY ScaleAssumption DEF Init
  <2>3. Init => \A m \in Markets, a \in Accounts : debtSharesOf[m][a] = 0
    BY DEF Init, NoShares
  <2>4. QED
    BY <2>1, <2>2, <2>3 DEF ResidualInv, Settled
<1>2. LendingInv /\ ResidualInv => ResidualDebtRecorded
  <2> SUFFICES ASSUME LendingInv, ResidualInv, NEW m \in Markets, NEW a \in Accounts,
                      collateralOf[m][a] = 0, DebtNow(m, a) # 0
               PROVE  badDebtSharesOf[m][a] = debtSharesOf[m][a]
    BY DEF ResidualDebtRecorded
  <2>1. AccruedIndex(m).borrow \in Nat /\ RAY \in Nat \ {0}
    BY AccruedIndexType, ScaleAssumption DEF LendingInv, IndexType
  <2>2. ValueOf(0, AccruedIndex(m).borrow) = 0
    <3> DEFINE bi == AccruedIndex(m).borrow
    <3> HIDE DEF bi
    <3>1. 0 * bi = 0
      BY <2>1 DEF bi
    <3>2. QED
      BY <2>1, <3>1 DEF ValueOf, bi
  <2>3. debtSharesOf[m][a] # 0
    BY <2>2 DEF DebtNow
  <2>4. QED
    BY <2>3 DEF ResidualInv, Settled
<1>3. QED
  BY <1>1, <1>2, LendingInit, LendingStep, ResidualStep, PTL DEF Spec

-----------------------------------------------------------------------------
(* No transaction pushes a sound account over the liquidation threshold.   *)

\* Loans stop short of liquidation in every configured market.
RulesInv == \A m \in Markets : config[m].ltv < config[m].threshold

(* Rates and amounts of a market are naturals. *)
LEMMA RiskFacts ==
  ASSUME LendingInv, NEW m \in Markets
  PROVE  /\ config[m].ltv \in Nat /\ config[m].threshold \in Nat
         /\ LowPrice(feed[CollateralAsset[m]]) \in Nat
         /\ HighPrice(feed[DebtAsset[m]]) \in Nat
         /\ Unit[CollateralAsset[m]] \in Nat \ {0} /\ Unit[DebtAsset[m]] \in Nat \ {0}
<1>1. /\ DebtAsset[m] \in Assets /\ CollateralAsset[m] \in Assets
      /\ feed[DebtAsset[m]] \in FeedType /\ feed[CollateralAsset[m]] \in FeedType
      /\ config[m] \in ConfigType
  BY InstanceAssumption DEF LendingInv, TypeOK
<1>2. config[m].ltv \in Nat /\ config[m].threshold \in Nat
  BY <1>1, ConfigFields
<1>3. LowPrice(feed[CollateralAsset[m]]) \in Nat /\ HighPrice(feed[DebtAsset[m]]) \in Nat
  BY <1>1 DEF LowPrice, HighPrice, Lesser, Greater, FeedType
<1>4. QED
  BY <1>1, <1>2, <1>3, InstanceAssumption

(* More collateral is worth no less, and so is more debt. *)
LEMMA WorthMono ==
  ASSUME LendingInv, NEW m \in Markets, NEW x \in Nat, NEW y \in Nat, x <= y
  PROVE  /\ CollValue(m, x) \in Nat /\ CollValue(m, y) \in Nat
         /\ OwedValue(m, x) \in Nat /\ OwedValue(m, y) \in Nat
         /\ CollValue(m, x) <= CollValue(m, y) /\ OwedValue(m, x) <= OwedValue(m, y)
<1> DEFINE low == LowPrice(feed[CollateralAsset[m]])
<1> DEFINE high == HighPrice(feed[DebtAsset[m]])
<1> DEFINE uc == Unit[CollateralAsset[m]]
<1> DEFINE ud == Unit[DebtAsset[m]]
<1>1. low \in Nat /\ high \in Nat /\ uc \in Nat \ {0} /\ ud \in Nat \ {0}
  BY RiskFacts
<1>2. /\ CollValue(m, x) = (x * low) \div uc /\ CollValue(m, y) = (y * low) \div uc
      /\ OwedValue(m, x) = (x * high) \div ud /\ OwedValue(m, y) = (y * high) \div ud
  BY DEF CollValue, CollateralValue, OwedValue, DebtValue
<1> HIDE DEF low, high, uc, ud
<1>3. /\ low * x <= low * y /\ high * x <= high * y
      /\ x * low = low * x /\ y * low = low * y /\ x * high = high * x /\ y * high = high * y
      /\ x * low \in Nat /\ y * low \in Nat /\ x * high \in Nat /\ y * high \in Nat
  BY <1>1, MulMono, MulNat
<1>4. QED
  BY SMTT(40), <1>1, <1>2, <1>3, DivMono, DivNat

(* What may be liquidated stays so with less collateral or more debt. *)
LEMMA ExposureMono ==
  ASSUME LendingInv, NEW m \in Markets, NEW c \in Nat, NEW c2 \in Nat, NEW d \in Nat,
         NEW d2 \in Nat, c2 <= c, d <= d2, MayLiquidate(m, c, d)
  PROVE  MayLiquidate(m, c2, d2)
<1> DEFINE h == config[m].threshold
<1> DEFINE less == CollValue(m, c2)
<1> DEFINE more == CollValue(m, c)
<1>1. h \in Nat /\ less \in Nat /\ more \in Nat /\ less <= more
  BY RiskFacts, WorthMono
<1>2. /\ OwedValue(m, d) <= OwedValue(m, d2)
      /\ OwedValue(m, d) \in Nat /\ OwedValue(m, d2) \in Nat
  BY WorthMono
<1>3. CanPrice(m) /\ OwedValue(m, d) > (more * h) \div BPS
  BY DEF MayLiquidate, Liquidatable
<1>4. (less * h) \div BPS <= (more * h) \div BPS
      /\ (less * h) \div BPS \in Nat /\ (more * h) \div BPS \in Nat
  <2> HIDE DEF h, less, more
  <2>1. h * less <= h * more /\ h * less = less * h /\ h * more = more * h
        /\ less * h \in Nat /\ more * h \in Nat
    BY <1>1, MulMono, MulNat
  <2>2. BPS \in Nat \ {0}
    BY DEF BPS
  <2>3. QED
    BY <2>1, <2>2, DivMono, DivNat
<1> DEFINE a == (less * h) \div BPS
<1> DEFINE b == (more * h) \div BPS
<1>5. OwedValue(m, d2) > a
  <2> HIDE DEF a, b, h, less, more
  <2>1. a <= b /\ a \in Nat /\ b \in Nat /\ OwedValue(m, d) > b
    BY <1>3, <1>4 DEF a, b
  <2>2. QED
    BY <1>2, <2>1
<1>6. QED
  BY <1>3, <1>5 DEF MayLiquidate, Liquidatable

(* A debt that a loan allows is not for liquidation. *)
LEMMA LoanIsSafe ==
  ASSUME LendingInv, RulesInv, NEW m \in Markets, NEW c \in Nat, NEW d \in Nat,
         MayBorrow(m, c, d)
  PROVE  ~MayLiquidate(m, c, d)
<1> DEFINE h == config[m].threshold
<1> DEFINE l == config[m].ltv
<1> DEFINE v == CollValue(m, c)
<1> DEFINE o == OwedValue(m, d)
<1>1. h \in Nat /\ l \in Nat /\ l <= h /\ v \in Nat /\ o \in Nat
  <2>1. c <= c /\ d <= d
    OBVIOUS
  <2>2. v \in Nat /\ o \in Nat
    BY <2>1, WorthMono
  <2>3. h \in Nat /\ l \in Nat
    BY RiskFacts
  <2>4. QED
    BY <2>2, <2>3 DEF RulesInv
<1>2. o <= (v * l) \div BPS
  BY DEF MayBorrow, BorrowAllowed
<1>3. MayLiquidate(m, c, d) => o > (v * h) \div BPS
  BY DEF MayLiquidate, Liquidatable
<1> HIDE DEF h, l, v, o
<1>4. v * l <= v * h /\ v * l \in Nat /\ v * h \in Nat /\ BPS \in Nat \ {0}
  BY <1>1, MulMono, MulNat DEF BPS
<1> DEFINE a == (v * l) \div BPS
<1> DEFINE b == (v * h) \div BPS
<1>5. a <= b /\ a \in Nat /\ b \in Nat
  BY <1>4, DivMono, DivNat
<1>6. o <= a /\ (MayLiquidate(m, c, d) => o > b)
  BY <1>2, <1>3
<1> HIDE DEF a, b
<1>7. QED
  BY <1>1, <1>5, <1>6

(* Whoever owes nothing is not for liquidation. *)
LEMMA NothingOwedIsSafe ==
  ASSUME LendingInv, NEW m \in Markets, NEW c \in Nat
  PROVE  ~MayLiquidate(m, c, 0)
<1> DEFINE a == (CollValue(m, c) * config[m].threshold) \div BPS
<1>1. a \in Nat
  <2>1. CollValue(m, c) * config[m].threshold \in Nat
    BY SMTT(40), RiskFacts, WorthMono, MulNat
  <2>2. QED
    BY <2>1, DivNat DEF BPS
<1>2. OwedValue(m, 0) = 0
  <2>1. HighPrice(feed[DebtAsset[m]]) \in Nat /\ Unit[DebtAsset[m]] \in Nat \ {0}
    BY RiskFacts
  <2> DEFINE p == HighPrice(feed[DebtAsset[m]])
  <2> DEFINE u == Unit[DebtAsset[m]]
  <2> HIDE DEF p, u
  <2>2. (0 * p) \div u = 0
    BY <2>1 DEF p, u
  <2>3. QED
    BY <2>2 DEF OwedValue, DebtValue, p, u
<1>3. MayLiquidate(m, c, 0) => OwedValue(m, 0) > a
  BY DEF MayLiquidate, Liquidatable
<1> HIDE DEF a
<1>4. QED
  BY <1>1, <1>2, <1>3

\* A handler of market m that accrues, keeping the rules and the other markets;
\* a realized loss may lower the supply index as well.
AccruesOnly(m) ==
  /\ UNCHANGED riskVars
  /\ market' = [market EXCEPT ![m] = market'[m]]
  /\ \/ Accrue(m)
     \/ \E s \in Nat \ {0} : index' = [index EXCEPT ![m] = [AccruedIndex(m) EXCEPT !.supply = s]]

(* After such a handler a second accrual in the block charges nothing, so  *)
(* shares are worth what they were worth before.                           *)
LEMMA ChargedOnce ==
  ASSUME LendingInv, NEW m \in Markets, AccruesOnly(m), NEW n \in Markets
  PROVE  /\ AccruedIndex(n)'.borrow = AccruedIndex(n).borrow
         /\ \A u \in Accounts :
              DebtNow(n, u)' = ValueOf(debtSharesOf'[n][u], AccruedIndex(n).borrow)
<1>1. /\ index \in [Markets -> IndexType] /\ AccruedIndex(m) \in IndexType
      /\ AccruedIndex(m).lastAccrued = now /\ now \in Nat /\ market \in [Markets -> MarketType]
  BY AccruedIndexType DEF LendingInv, TypeOK
<1>2. now' = now /\ rate' = rate
  BY DEF AccruesOnly, riskVars
<1>3. AccruedIndex(n)'.borrow = AccruedIndex(n).borrow
  <2>1. CASE n = m
    <3>1. index'[m].borrow = AccruedIndex(m).borrow /\ index'[m].lastAccrued = now
      <4>1. CASE Accrue(m)
        BY <1>1, <4>1 DEF Accrue
      <4>2. CASE \E s \in Nat \ {0} :
                   index' = [index EXCEPT ![m] = [AccruedIndex(m) EXCEPT !.supply = s]]
        BY <1>1, <4>2 DEF IndexType
      <4>3. QED
        BY <4>1, <4>2 DEF AccruesOnly
    <3>2. now' - index'[m].lastAccrued = 0
      BY <1>1, <1>2, <3>1
    <3>3. AccruedIndex(m)' = index'[m]
      BY <3>2 DEF AccruedIndex
    <3>4. QED
      BY <2>1, <3>1, <3>3
  <2>2. CASE n # m
    <3>1. index'[n] = index[n]
      BY <1>1, <2>2 DEF AccruesOnly, Accrue
    <3>2. market'[n] = market[n]
      BY <1>1, <2>2 DEF AccruesOnly
    <3>3. AccruedIndex(n)' = AccruedIndex(n)
      BY <1>2, <3>1, <3>2 DEF AccruedIndex, TotalDebt, TotalSupply
    <3>4. QED
      BY <3>3
  <2>3. QED
    BY <2>1, <2>2
<1>4. QED
  BY <1>3 DEF DebtNow

NoneEndangered == \A n \in Markets, u \in Accounts : Exposed(n, u)' => Exposed(n, u)

(* A handler endangers nobody if the account it writes is no worse off,    *)
(* ends within a loan's limits or was for liquidation already.             *)
LEMMA SafeWrite ==
  ASSUME LendingInv, RulesInv, NEW m \in Markets, NEW a \in Accounts, AccruesOnly(m),
         NEW c \in Nat, NEW d \in Nat,
         SetsEntry(collateralOf, collateralOf', m, a, c),
         SetsEntry(debtSharesOf, debtSharesOf', m, a, d),
         \/ c >= collateralOf[m][a] /\ d <= debtSharesOf[m][a]
         \/ MayBorrow(m, c, ValueOf(d, AccruedIndex(m).borrow))
         \/ ValueOf(d, AccruedIndex(m).borrow) = 0
         \/ Exposed(m, a)
  PROVE  NoneEndangered
<1> SUFFICES ASSUME NEW n \in Markets, NEW u \in Accounts, Exposed(n, u)'
             PROVE  Exposed(n, u)
  BY DEF NoneEndangered
<1> DEFINE bi == AccruedIndex(n).borrow
<1>1. /\ collateralOf \in PerAccount /\ debtSharesOf \in PerAccount
      /\ collateralOf[n][u] \in Nat /\ debtSharesOf[n][u] \in Nat
  BY AccountTotals DEF LendingInv, TypeOK
<1>2. bi \in Nat \ {0}
  BY AccruedIndexType DEF LendingInv, IndexType
<1>3. DebtNow(n, u)' = ValueOf(debtSharesOf'[n][u], bi) /\ DebtNow(n, u) = ValueOf(debtSharesOf[n][u], bi)
  BY ChargedOnce DEF DebtNow
<1>4. MayLiquidate(n, collateralOf'[n][u], ValueOf(debtSharesOf'[n][u], bi))
  BY <1>3 DEF Exposed, MayLiquidate, CanPrice, CollValue, OwedValue, AccruesOnly, riskVars
<1>5. CASE n = m /\ u = a
  <2>1. collateralOf'[n][u] = c /\ debtSharesOf'[n][u] = d
    BY <1>1, <1>5 DEF SetsEntry, PerAccount
  <2> HIDE DEF bi
  <2>2. ValueOf(d, bi) \in Nat /\ ValueOf(debtSharesOf[m][a], bi) \in Nat
    BY <1>1, <1>2, <1>5, ShareRules
  <2>3. MayLiquidate(m, c, ValueOf(d, bi))
    BY <1>4, <1>5, <2>1
  <2>4. ~MayBorrow(m, c, ValueOf(d, bi)) /\ ValueOf(d, bi) # 0
    BY <2>2, <2>3, LoanIsSafe, NothingOwedIsSafe
  <2>5. CASE c >= collateralOf[m][a] /\ d <= debtSharesOf[m][a]
    <3>1. ValueOf(d, bi) <= ValueOf(debtSharesOf[m][a], bi)
      <4>1. bi * d <= bi * debtSharesOf[m][a] /\ bi * d = d * bi
            /\ bi * debtSharesOf[m][a] = debtSharesOf[m][a] * bi
            /\ d * bi \in Nat /\ debtSharesOf[m][a] * bi \in Nat
        BY <1>1, <1>2, <1>5, <2>5, MulMono, MulNat
      <4>2. RAY \in Nat \ {0}
        BY ScaleAssumption
      <4>3. QED
        BY <4>1, <4>2, DivMono DEF ValueOf
    <3>2. MayLiquidate(m, collateralOf[m][a], ValueOf(debtSharesOf[m][a], bi))
      BY <1>1, <1>5, <2>2, <2>3, <2>5, <3>1, ExposureMono
    <3>3. QED
      BY <1>3, <1>5, <3>2 DEF Exposed
  <2>6. QED
    BY <1>5, <2>4, <2>5 DEF bi
<1>6. CASE n # m \/ u # a
  <2>1. collateralOf'[n][u] = collateralOf[n][u] /\ debtSharesOf'[n][u] = debtSharesOf[n][u]
    BY <1>1, <1>6 DEF SetsEntry, PerAccount
  <2>2. QED
    BY <1>3, <1>4, <2>1 DEF Exposed
<1>7. QED
  BY <1>5, <1>6

(* A handler that writes neither a debt nor a collateral endangers nobody. *)
LEMMA QuietIsSafe ==
  ASSUME LendingInv, RulesInv, NEW m \in Markets, AccruesOnly(m),
         collateralOf' = collateralOf, debtSharesOf' = debtSharesOf
  PROVE  NoneEndangered
<1> SUFFICES ASSUME NEW n \in Markets, NEW u \in Accounts, Exposed(n, u)'
             PROVE  Exposed(n, u)
  BY DEF NoneEndangered
<1>1. /\ SetsEntry(collateralOf, collateralOf', m, u, collateralOf[m][u])
      /\ SetsEntry(debtSharesOf, debtSharesOf', m, u, debtSharesOf[m][u])
      /\ collateralOf[m][u] \in Nat /\ debtSharesOf[m][u] \in Nat
  BY KeepsEntry, AccountTotals DEF LendingInv, TypeOK
<1>2. collateralOf[m][u] >= collateralOf[m][u] /\ debtSharesOf[m][u] <= debtSharesOf[m][u]
  BY <1>1
<1>3. NoneEndangered
  BY <1>1, <1>2, SafeWrite
<1>4. QED
  BY <1>3 DEF NoneEndangered

(* A deposit only helps; a withdrawal stops at the maximum LTV. *)
LEMMA CollateralIsSafe ==
  ASSUME LendingInv, RulesInv, NEW m \in Markets, NEW a \in Accounts, NEW x \in Amounts,
         DepositCollateral(m, a, x) \/ WithdrawCollateral(m, a, x)
  PROVE  NoneEndangered
<1> DEFINE coll == collateralOf[m][a]
<1> DEFINE held == debtSharesOf[m][a]
<1>1. /\ x \in Nat \ {0} /\ coll \in Nat /\ held \in Nat
      /\ collateralOf \in PerAccount /\ debtSharesOf \in PerAccount
  BY InstanceAssumption, AccountTotals DEF LendingInv, TypeOK
<1>2. AccruesOnly(m) /\ debtSharesOf' = debtSharesOf
  BY MarketUpdate DEF DepositCollateral, WithdrawCollateral, AccruesOnly
<1>3. SetsEntry(debtSharesOf, debtSharesOf', m, a, held)
  BY <1>1, <1>2, KeepsEntry
<1>4. CASE DepositCollateral(m, a, x)
  <2> DEFINE c == coll + x
  <2>1. SetsEntry(collateralOf, collateralOf', m, a, c)
    BY <1>1, <1>4 DEF DepositCollateral, SetsEntry, PerAccount
  <2>2. c \in Nat /\ c >= coll /\ held <= held
    BY <1>1
  <2> HIDE DEF c
  <2>3. QED
    BY <1>1, <1>2, <1>3, <2>1, <2>2, SafeWrite
<1>5. CASE WithdrawCollateral(m, a, x)
  <2> DEFINE c == coll - x
  <2>1. /\ SetsEntry(collateralOf, collateralOf', m, a, c) /\ x <= coll
        /\ ValueOf(held, AccruedIndex(m).borrow) # 0
             => MayBorrow(m, c, ValueOf(held, AccruedIndex(m).borrow))
    BY <1>1, <1>5 DEF WithdrawCollateral, SetsEntry, PerAccount, DebtNow
  <2>2. c \in Nat
    BY <1>1, <2>1
  <2> HIDE DEF c
  <2>3. QED
    BY <1>1, <1>2, <1>3, <2>1, <2>2, SafeWrite
<1>6. QED
  BY <1>4, <1>5

(* A loan stops at the maximum LTV. *)
LEMMA BorrowIsSafe ==
  ASSUME LendingInv, RulesInv, NEW m \in Markets, NEW a \in Accounts, NEW x \in Amounts,
         Borrow(m, a, x)
  PROVE  NoneEndangered
<1> DEFINE coll == collateralOf[m][a]
<1> DEFINE bi == AccruedIndex(m).borrow
<1> DEFINE d == debtSharesOf[m][a] + SharesUp(x, bi)
<1>1. /\ x \in Nat \ {0} /\ coll \in Nat /\ debtSharesOf[m][a] \in Nat
      /\ collateralOf \in PerAccount
  BY InstanceAssumption, AccountTotals DEF LendingInv, TypeOK
<1>2. /\ AccruesOnly(m) /\ collateralOf' = collateralOf
  BY MarketUpdate DEF Borrow, AccruesOnly
<1>3. /\ MayBorrow(m, coll, ValueOf(d, bi))
      /\ SetsEntry(debtSharesOf, debtSharesOf', m, a, d)
  BY DEF Borrow, SetsEntry, LendingInv, TypeOK, PerAccount
<1>4. SetsEntry(collateralOf, collateralOf', m, a, coll)
  BY <1>1, <1>2, KeepsEntry
<1>5. d \in Nat
  <2>1. bi \in Nat \ {0}
    BY AccruedIndexType DEF LendingInv, IndexType
  <2> HIDE DEF bi
  <2>2. SharesUp(x, bi) \in Nat
    BY <1>1, <2>1, ShareRules
  <2>3. QED
    BY <1>1, <2>2
<1> HIDE DEF d
<1>6. QED
  BY <1>1, <1>2, <1>3, <1>4, <1>5, SafeWrite

(* Debt that is repaid, or recovered as bad debt, is debt less. *)
LEMMA DebtFalls ==
  ASSUME LendingInv, RulesInv, NEW m \in Markets, NEW a \in Accounts, AccruesOnly(m),
         collateralOf' = collateralOf, NEW q \in Nat, q <= debtSharesOf[m][a],
         SetsEntry(debtSharesOf, debtSharesOf', m, a, debtSharesOf[m][a] - q)
  PROVE  NoneEndangered
<1> DEFINE d == debtSharesOf[m][a] - q
<1>1. /\ collateralOf[m][a] \in Nat /\ debtSharesOf[m][a] \in Nat
      /\ SetsEntry(collateralOf, collateralOf', m, a, collateralOf[m][a])
  BY AccountTotals, KeepsEntry DEF LendingInv, TypeOK
<1>2. d \in Nat /\ d <= debtSharesOf[m][a] /\ collateralOf[m][a] >= collateralOf[m][a]
  BY <1>1
<1> HIDE DEF d
<1>3. SetsEntry(debtSharesOf, debtSharesOf', m, a, d)
  BY DEF d
<1>4. QED
  BY <1>1, <1>2, <1>3, SafeWrite

LEMMA RepayIsSafe ==
  ASSUME LendingInv, RulesInv, NEW m \in Markets, NEW a \in Accounts, NEW x \in Amounts,
         Repay(m, a, x)
  PROVE  NoneEndangered
<1>1. PICK q \in Nat :
        /\ q <= debtSharesOf[m][a]
        /\ SetsEntry(debtSharesOf, debtSharesOf', m, a, debtSharesOf[m][a] - q)
        /\ market' = [market EXCEPT ![m] = market'[m]]
  BY RepayStep
<1>2. AccruesOnly(m) /\ collateralOf' = collateralOf
  BY <1>1 DEF Repay, AccruesOnly
<1>3. QED
  BY <1>1, <1>2, DebtFalls

LEMMA BurnIsSafe ==
  ASSUME LendingInv, RulesInv, NEW m \in Markets, NEW a \in Accounts, Burns(m, a),
         \/ Accrue(m)
         \/ \E s \in Nat \ {0} : index' = [index EXCEPT ![m] = [AccruedIndex(m) EXCEPT !.supply = s]]
  PROVE  NoneEndangered
<1>1. PICK n \in Nat, r \in Nat, l \in Nat : BurnBadDebt(m, a, n, r, l)
  BY DEF Burns
<1>2. AccruesOnly(m) /\ collateralOf' = collateralOf
  BY <1>1, MarketUpdate DEF BurnBadDebt, AccruesOnly
<1>3. /\ n <= debtSharesOf[m][a]
      /\ SetsEntry(debtSharesOf, debtSharesOf', m, a, debtSharesOf[m][a] - n)
  BY <1>1 DEF BurnBadDebt, LendingInv, TypeOK, PerAccount, SetsEntry
<1>4. QED
  BY <1>2, <1>3, DebtFalls

(* A liquidation takes from accounts past the threshold only. *)
LEMMA LiquidateIsSafe ==
  ASSUME LendingInv, RulesInv, NEW m \in Markets, NEW a \in Accounts, NEW x \in Amounts,
         Liquidate(m, a, x)
  PROVE  NoneEndangered
<1>1. PICK q \in Nat, s \in Nat, b \in Nat, paid \in Nat : Liquidates(m, a, q, s, b, paid)
  BY LiquidateEffect
<1> DEFINE c == collateralOf[m][a] - s
<1> DEFINE d == debtSharesOf[m][a] - q
<1>2. /\ Accrue(m) /\ UNCHANGED riskVars
      /\ q <= debtSharesOf[m][a] /\ s <= collateralOf[m][a]
      /\ SetsEntry(debtSharesOf, debtSharesOf', m, a, d)
      /\ SetsEntry(collateralOf, collateralOf', m, a, c)
  BY <1>1 DEF Liquidates
<1>3. c \in Nat /\ d \in Nat
  <2>1. collateralOf[m][a] \in Nat /\ debtSharesOf[m][a] \in Nat
    BY AccountTotals DEF LendingInv, TypeOK
  <2>2. QED
    BY <1>2, <2>1
<1>4. Exposed(m, a)
  BY Zenon DEF Liquidate, Exposed, DebtNow
<1>5. AccruesOnly(m)
  <2>1. \E M : market' = [market EXCEPT ![m] = M]
    BY Zenon DEF Liquidate
  <2>2. market' = [market EXCEPT ![m] = market'[m]]
    BY <2>1, MarketUpdate
  <2>3. QED
    BY <1>2, <2>2 DEF AccruesOnly
<1> HIDE DEF c, d
<1>6. QED
  BY <1>2, <1>3, <1>4, <1>5, SafeWrite

(* Governance keeps the rules: a market is configured with room between    *)
(* the LTV of a loan and the liquidation threshold.                        *)
LEMMA RulesStep == LendingInv /\ RulesInv /\ [Next]_vars => RulesInv'
<1> SUFFICES ASSUME LendingInv, RulesInv, [Next]_vars PROVE RulesInv'
  OBVIOUS
<1>1. config \in [Markets -> ConfigType]
  BY DEF LendingInv, TypeOK
<1>2. CASE UNCHANGED config
  BY <1>2 DEF RulesInv
<1>3. ASSUME NEW m \in Markets, NEW c \in MarketConfigs, ConfigureMarket(m, c)
      PROVE  RulesInv'
  <2>1. c.ltv < c.threshold
    BY MarketLimitAssumption
  <2>2. config' = [config EXCEPT ![m] = c]
    BY <1>3 DEF ConfigureMarket
  <2>3. QED
    BY <1>1, <2>1, <2>2 DEF RulesInv
<1>4. ASSUME NEW m \in Markets, NEW on \in BOOLEAN, SetMarketEnabled(m, on)
      PROVE  RulesInv'
  <2>1. \A n \in Markets : config'[n].ltv = config[n].ltv
                           /\ config'[n].threshold = config[n].threshold
    BY SMTT(40), <1>1, <1>4 DEF SetMarketEnabled, ConfigType
  <2>2. QED
    BY SMTT(40), <2>1 DEF RulesInv
<1>5. CASE AccountStep
  <2>1. UNCHANGED config
    BY <1>5 DEF AccountStep, DepositCollateral, WithdrawCollateral, SupplyLiquidity,
       WithdrawLiquidity, Borrow, Repay, Liquidate, CoverBadDebtWithReserves,
       RecapitalizeBadDebt, RealizeBadDebtLoss, BurnBadDebt, riskVars
  <2>2. QED
    BY SMTT(40), <1>2, <2>1
<1>6. CASE MarketStep
  BY <1>2, <1>3, <1>4, <1>6 DEF MarketStep, AccrueInterest, WithdrawReserves, ConfigureRate,
     SetRateEnabled, riskVars
<1>7. CASE \E s \in Assets : \E f \in Feeds[s] : PublishPrices(s, f)
  BY <1>2, <1>7 DEF PublishPrices
<1>8. CASE AdvanceTime \/ UNCHANGED vars
  BY <1>2, <1>8 DEF AdvanceTime, vars, riskVars
<1>9. QED
  BY <1>5, <1>6, <1>7, <1>8 DEF Next

LEMMA SoundnessStep ==
  LendingInv /\ RulesInv /\ [Next]_vars => [MarketRulesFixed => NoneEndangered]_vars
<1> SUFFICES ASSUME LendingInv, RulesInv, Next, MarketRulesFixed PROVE NoneEndangered
  BY DEF MarketRulesFixed
<1>1. ASSUME NEW m \in Markets, NEW a \in Accounts, NEW x \in Amounts,
             \/ DepositCollateral(m, a, x) \/ WithdrawCollateral(m, a, x)
             \/ Borrow(m, a, x) \/ Repay(m, a, x) \/ Liquidate(m, a, x)
      PROVE  NoneEndangered
  BY <1>1, CollateralIsSafe, BorrowIsSafe, RepayIsSafe, LiquidateIsSafe
<1>2. ASSUME NEW m \in Markets, NEW a \in Accounts, NEW x \in Amounts,
             CoverBadDebtWithReserves(m, a, x) \/ RecapitalizeBadDebt(m, a, x)
      PROVE  NoneEndangered
  <2>1. Accrue(m) /\ Burns(m, a)
    BY <1>2, CoverBadDebtStep, RecapitalizeStep DEF CoverBadDebtWithReserves, RecapitalizeBadDebt
  <2>2. QED
    BY <2>1, BurnIsSafe
<1>3. ASSUME NEW m \in Markets, NEW a \in Accounts, NEW x \in Amounts,
             RealizeBadDebtLoss(m, a, x)
      PROVE  NoneEndangered
  BY <1>3, RealizeStep, BurnIsSafe
<1>4. ASSUME NEW m \in Markets, NEW a \in Accounts, NEW x \in Amounts,
             SupplyLiquidity(m, a, x) \/ WithdrawLiquidity(m, a, x)
      PROVE  NoneEndangered
  <2>1. AccruesOnly(m) /\ collateralOf' = collateralOf /\ debtSharesOf' = debtSharesOf
    BY <1>4, MarketUpdate DEF SupplyLiquidity, WithdrawLiquidity, AccruesOnly
  <2>2. QED
    BY <2>1, QuietIsSafe
<1>5. CASE AccountStep
  BY <1>1, <1>2, <1>3, <1>4, <1>5 DEF AccountStep
<1>6. ASSUME NEW m \in Markets, AccrueInterest(m) \/ \E x \in Amounts : WithdrawReserves(m, x)
      PROVE  NoneEndangered
  <2>1. AccruesOnly(m) /\ collateralOf' = collateralOf /\ debtSharesOf' = debtSharesOf
    BY <1>6, MarketUpdate DEF AccrueInterest, WithdrawReserves, AccruesOnly, accountVars
  <2>2. QED
    BY <2>1, QuietIsSafe
<1>7. CASE UNCHANGED vars
  <2>1. ASSUME NEW n \in Markets, NEW u \in Accounts
        PROVE  Exposed(n, u)' <=> Exposed(n, u)
    BY <1>7 DEF vars, accountVars, riskVars, Exposed, MayLiquidate, CanPrice, CollValue,
       OwedValue, DebtNow, AccruedIndex, TotalDebt, TotalSupply
  <2>2. QED
    BY <2>1 DEF NoneEndangered
<1>8. CASE MarketStep
  <2>1. \/ \E m \in Markets : AccrueInterest(m) \/ \E x \in Amounts : WithdrawReserves(m, x)
        \/ UNCHANGED <<balance, market, index, accountVars>>
    BY <1>8 DEF MarketStep, ConfigureMarket, SetMarketEnabled, ConfigureRate, SetRateEnabled
  <2>2. QED
    BY <1>6, <1>7, <2>1 DEF MarketRulesFixed, vars
<1>9. CASE \/ \E s \in Assets : \E f \in Feeds[s] : PublishPrices(s, f)
           \/ AdvanceTime
  <2>1. UNCHANGED <<balance, market, index, accountVars>>
    BY <1>9 DEF PublishPrices, AdvanceTime
  <2>2. QED
    BY <1>7, <2>1 DEF MarketRulesFixed, vars
<1>10. QED
  BY <1>5, <1>8, <1>9 DEF Next

(* While prices, rules and the clock stand, no transaction of anybody      *)
(* makes an account liquidatable that was not: loans and withdrawals end   *)
(* within the LTV, accrual charges a block once, and whatever else writes  *)
(* an account lowers its debt or finds it past the threshold already.      *)
THEOREM NobodyIsEndangered == Spec => NoStepEndangersAccount
<1>1. Init => RulesInv
  BY MarketLimitAssumption DEF Init, RulesInv
<1>2. [MarketRulesFixed => NoneEndangered]_vars
        => [MarketRulesFixed =>
              \A m \in Markets, a \in Accounts : Exposed(m, a)' => Exposed(m, a)]_vars
  BY DEF NoneEndangered
<1>3. QED
  BY <1>1, <1>2, LendingInit, LendingStep, RulesStep, SoundnessStep, PTL
  DEF Spec, NoStepEndangersAccount

-----------------------------------------------------------------------------
(* Suppliers lose last.                                                    *)

(* What a quotient leaves is less than the divisor. *)
LEMMA DivBounds ==
  ASSUME NEW x \in Nat, NEW n \in Nat \ {0}
  PROVE  /\ x \div n \in Nat /\ (x \div n) * n \in Nat
         /\ (x \div n) * n <= x /\ x < (x \div n) * n + n
OBVIOUS

(* A product that is less has the smaller factor. *)
LEMMA SmallerFactor ==
  ASSUME NEW x \in Nat, NEW y \in Nat, NEW n \in Nat \ {0}, x * n < y * n
  PROVE  x < y
<1> SUFFICES ASSUME y <= x PROVE FALSE
  OBVIOUS
<1>1. n * y <= n * x /\ n * y = y * n /\ n * x = x * n /\ y * n \in Nat /\ x * n \in Nat
  BY MulMono, MulNat
<1>2. QED
  BY <1>1

(* Rounding up covers the dividend. *)
LEMMA CeilCovers ==
  ASSUME NEW x \in Nat, NEW n \in Nat \ {0}
  PROVE  CeilDiv(x, n) \in Nat /\ CeilDiv(x, n) * n \in Nat /\ x <= CeilDiv(x, n) * n
<1>1. CASE x = 0
  BY <1>1 DEF CeilDiv
<1>2. CASE x # 0
  <2> DEFINE y == x - 1
  <2>1. y \in Nat /\ x = y + 1
    BY <1>2
  <2> HIDE DEF y
  <2> DEFINE q == y \div n
  <2>2. q \in Nat /\ q * n \in Nat /\ y < q * n + n
    BY <2>1, DivBounds
  <2>3. CeilDiv(x, n) = q + 1
    BY <1>2, <2>1 DEF CeilDiv, y
  <2> HIDE DEF q
  <2>4. (q + 1) * n = q * n + n
    BY <2>2
  <2>5. QED
    BY <2>1, <2>2, <2>3, <2>4
<1>3. QED
  BY <1>1, <1>2

(* Reserves that are not enough are spent down to what one share is worth, *)
(* rounded up.                                                             *)
LEMMA ReserveDust ==
  ASSUME NEW res \in Nat, NEW bi \in Nat \ {0}, ValueOf(SharesDown(res, bi), bi) <= res
  PROVE  CeilDiv(bi, RAY) >= res - ValueOf(SharesDown(res, bi), bi)
<1> DEFINE f == SharesDown(res, bi)
<1> DEFINE v == ValueOf(f, bi)
<1> DEFINE k == CeilDiv(bi, RAY)
<1> DEFINE rem == res - v
<1>1. RAY \in Nat \ {0} /\ res * RAY \in Nat
  BY ScaleAssumption, MulNat
<1>2. f \in Nat /\ v \in Nat
  BY ShareRules
<1>3. f * bi \in Nat /\ res * RAY < f * bi + bi
  BY <1>1, DivBounds DEF SharesDown
<1>4. v * RAY \in Nat /\ f * bi < v * RAY + RAY
  <2> HIDE DEF f
  <2>1. f * bi \in Nat
    BY <1>3
  <2> DEFINE y == f * bi
  <2> HIDE DEF y
  <2>2. (y \div RAY) * RAY \in Nat /\ y < (y \div RAY) * RAY + RAY
    BY <1>1, <2>1, DivBounds DEF y
  <2>3. QED
    BY <2>2 DEF ValueOf, y
<1>5. k \in Nat /\ k * RAY \in Nat /\ bi <= k * RAY
  BY <1>1, CeilCovers
<1>6. rem \in Nat
  <2>1. v <= res
    OBVIOUS
  <2> HIDE DEF v
  <2>2. QED
    BY <1>2, <2>1
<1>7. res = v + rem
  <2> HIDE DEF v
  <2>1. QED
    BY <1>2
<1> HIDE DEF f, v, k, rem
<1>8. (v + rem) * RAY = v * RAY + rem * RAY /\ rem * RAY \in Nat
  BY <1>1, <1>2, <1>6, MulNat
<1>9. (k + 1) * RAY = k * RAY + RAY
  BY <1>1, <1>5
<1>10. rem * RAY < (k + 1) * RAY
  BY <1>1, <1>3, <1>4, <1>5, <1>7, <1>8, <1>9
<1>11. rem < k + 1
  BY <1>1, <1>5, <1>6, <1>10, SmallerFactor
<1>12. k >= rem
  BY <1>5, <1>6, <1>11
<1>13. QED
  BY <1>12 DEF k, rem, v, f

(* The cut index takes no more than was asked for, and what one unit of    *)
(* the index moves.                                                        *)
LEMMA LossOverRequest ==
  ASSUME NEW S \in Nat, NEW i \in Nat \ {0}, NEW cut \in Nat, cut < ValueOf(S, i)
  PROVE  LET s == ValueOf(S, i)
             k == (i * (s - cut)) \div s
         IN  s - ValueOf(S, k) <= cut + CeilDiv(S, RAY)
<1> DEFINE s == ValueOf(S, i)
<1> DEFINE t == s - cut
<1> DEFINE k == (i * t) \div s
<1> DEFINE V == ValueOf(S, k)
<1> DEFINE c == CeilDiv(S, RAY)
<1>1. RAY \in Nat \ {0}
  BY ScaleAssumption
<1>2. s \in Nat /\ cut < s
  BY ShareRules
<1>3. s \in Nat \ {0} /\ t \in Nat /\ s = cut + t
  <2> HIDE DEF s
  <2>1. QED
    BY <1>2
<1>4. s * RAY \in Nat /\ s * RAY <= S * i /\ S * i \in Nat
  <2>1. S * i \in Nat
    BY MulNat
  <2> DEFINE y == S * i
  <2> HIDE DEF y
  <2>2. (y \div RAY) * RAY \in Nat /\ (y \div RAY) * RAY <= y
    BY <1>1, <2>1, DivBounds DEF y
  <2>3. QED
    BY <2>1, <2>2 DEF ValueOf, y
<1> HIDE DEF s, t
<1>5. k \in Nat /\ k * s \in Nat /\ i * t \in Nat /\ i * t <= k * s + s
  <2>1. i * t \in Nat
    BY <1>3, MulNat
  <2> DEFINE y == i * t
  <2> HIDE DEF y
  <2>2. y \div s \in Nat /\ (y \div s) * s \in Nat /\ y < (y \div s) * s + s
    BY <1>3, <2>1, DivBounds DEF y
  <2>3. y <= (y \div s) * s + s
    BY <1>3, <2>1, <2>2 DEF y
  <2>4. QED
    BY <2>1, <2>2, <2>3 DEF y
<1> HIDE DEF k
<1>6. V \in Nat /\ V * RAY \in Nat /\ S * k \in Nat /\ S * k < V * RAY + RAY
  <2>1. S * k \in Nat
    BY <1>5, MulNat
  <2> DEFINE y == S * k
  <2> HIDE DEF y
  <2>2. y \div RAY \in Nat /\ (y \div RAY) * RAY \in Nat /\ y < (y \div RAY) * RAY + RAY
    BY <1>1, <2>1, DivBounds DEF y
  <2>3. QED
    BY <2>1, <2>2 DEF ValueOf, y
<1>7. c \in Nat /\ c * RAY \in Nat /\ S <= c * RAY
  BY <1>1, CeilCovers
<1> HIDE DEF V, c
<1>8. SUFFICES ASSUME V + c + 1 <= t PROVE FALSE
  <2>1. V + c + 1 > t
    BY <1>8, <1>3, <1>6, <1>7
  <2>2. s - V <= cut + c
    BY <1>3, <1>6, <1>7, <2>1
  <2>3. QED
    BY <2>2 DEF s, t, k, V, c
<1> DEFINE P == S * k
<1> DEFINE Q == t * RAY
<1> DEFINE U == c * RAY
<1>9. P \in Nat /\ Q \in Nat /\ U \in Nat /\ S <= U
  BY <1>1, <1>3, <1>6, <1>7, MulNat
<1>10. P + U + 1 <= Q
  <2>1. RAY * (V + c + 1) <= RAY * t
    BY <1>1, <1>3, <1>6, <1>7, <1>8, MulMono
  <2>2. RAY * (V + c + 1) = V * RAY + c * RAY + RAY /\ RAY * t = t * RAY
    BY <1>1, <1>3, <1>6, <1>7
  <2> DEFINE w == V * RAY
  <2>3. w + U + RAY <= Q /\ P < w + RAY /\ w \in Nat
    BY <1>6, <2>1, <2>2
  <2> HIDE DEF w, P, Q, U
  <2>4. QED
    BY <1>1, <1>9, <2>3
<1> HIDE DEF P, Q, U
<1>11. P * s + U * s + s <= Q * s
  <2>1. s * (P + U + 1) <= s * Q
    BY <1>3, <1>9, <1>10, MulMono
  <2>2. s * (P + U + 1) = P * s + U * s + s /\ s * Q = Q * s
    BY <1>3, <1>9
  <2>3. QED
    BY <2>1, <2>2
<1>12. Q * s <= P * s + S * s
  <2>1. t * (s * RAY) <= t * (S * i)
    BY <1>3, <1>4, MulMono
  <2>2. t * (s * RAY) = Q * s
    BY <1>1, <1>3 DEF Q
  <2>3. t * (S * i) = S * (i * t)
    BY <1>3
  <2>4. S * (i * t) <= S * (k * s + s)
    BY <1>3, <1>5, MulMono
  <2>5. S * (k * s + s) = P * s + S * s
    BY <1>3, <1>5 DEF P
  <2>6. /\ t * (s * RAY) \in Nat /\ t * (S * i) \in Nat /\ S * (i * t) \in Nat
        /\ S * (k * s + s) \in Nat
    BY <1>3, <1>4, <1>5, MulNat
  <2> DEFINE w1 == t * (s * RAY)
  <2> DEFINE w2 == t * (S * i)
  <2> DEFINE w3 == S * (i * t)
  <2> DEFINE w4 == S * (k * s + s)
  <2>7. w1 <= w2 /\ w2 = w3 /\ w3 <= w4 /\ w1 \in Nat /\ w2 \in Nat /\ w3 \in Nat /\ w4 \in Nat
    BY <2>1, <2>3, <2>4, <2>6
  <2>8. w1 <= w4
    <3> HIDE DEF w1, w2, w3, w4
    <3>1. QED
      BY <2>7
  <2>9. QED
    BY <2>2, <2>5, <2>8
<1>13. S * s <= U * s
  <2>1. s * S <= s * U /\ s * S = S * s /\ s * U = U * s
    BY <1>3, <1>9, MulMono
  <2>2. QED
    BY <2>1
<1>14. P * s \in Nat /\ U * s \in Nat /\ Q * s \in Nat /\ S * s \in Nat
  BY <1>3, <1>9, MulNat
<1> DEFINE ps == P * s
<1> DEFINE us == U * s
<1> DEFINE qs == Q * s
<1> DEFINE ss == S * s
<1>15. /\ ps + us + s <= qs /\ qs <= ps + ss /\ ss <= us
       /\ ps \in Nat /\ us \in Nat /\ qs \in Nat /\ ss \in Nat
  BY <1>11, <1>12, <1>13, <1>14
<1> HIDE DEF ps, us, qs, ss
<1>16. QED
  BY <1>3, <1>15

(* Accrual lowers no supply index. *)
LEMMA SupplyIndexKept ==
  ASSUME LendingInv, NEW m \in Markets, Accrue(m) \/ UNCHANGED index, NEW n \in Markets
  PROVE  ~(index'[n].supply < index[n].supply)
<1>1. /\ index \in [Markets -> IndexType] /\ AccruedIndex(m) \in IndexType
      /\ AccruedIndex(m).supply >= index[m].supply
  BY AccruedIndexType DEF LendingInv, TypeOK
<1>2. index'[n] = index[n] \/ (n = m /\ index'[n] = AccruedIndex(m))
  BY <1>1 DEF Accrue
<1>3. index[n].supply \in Nat /\ AccruedIndex(m).supply \in Nat
  BY <1>1 DEF IndexType
<1>4. QED
  BY <1>1, <1>2, <1>3

(* A loss that reaches the suppliers keeps to the limits. *)
LEMMA RealizedWithinLimits ==
  ASSUME LendingInv, NEW m \in Markets, NEW a \in Accounts, NEW x \in Amounts,
         RealizeBadDebtLoss(m, a, x), NEW n \in Markets,
         index'[n].supply < index[n].supply
  PROVE  LossWithinLimits(n)
<1> DEFINE ix == AccruedIndex(m)
<1> DEFINE bad == badDebtSharesOf[m][a]
<1> DEFINE res == Accrued(m).accruedReserves
<1> DEFINE first == IF res = 0 THEN 0 ELSE BurnableShares(bad, res, ix.borrow)
<1> DEFINE covered == ValueOf(first, ix.borrow)
<1> DEFINE r == res - covered
<1> DEFINE shares == market[m].totalSupplyShares
<1> DEFINE supply == ValueOf(shares, ix.supply)
<1> DEFINE requested == Lesser(x, ValueOf(bad - first, ix.borrow))
<1> DEFINE newIndex == (ix.supply * (supply - requested)) \div supply
<1> DEFINE loss == supply - ValueOf(shares, newIndex)
<1> DEFINE second == BurnableShares(bad - first, loss, ix.borrow)
<1> DEFINE l == market[m].realizedLosses
<1>1. /\ CanAccrue(m) /\ covered <= res /\ ~config[m].enabled
      /\ \/ index' = [index EXCEPT ![m] = ix]
         \/ /\ first < bad
            /\ requested < supply
            /\ requested <= LossLimit(m, supply)
            /\ second # 0
            /\ BurnBadDebt(m, a, first + second, r, l + loss)
            /\ index' = [index EXCEPT ![m] = [ix EXCEPT !.supply = newIndex]]
  BY DEF RealizeBadDebtLoss, TotalSupply
<1>2. x \in Nat /\ bad \in Nat /\ res \in Nat /\ l \in Nat /\ shares \in Nat
  <2>1. x \in Nat /\ bad \in Nat
    BY InstanceAssumption, AccountTotals DEF LendingInv, TypeOK
  <2>2. Accrued(m) \in MarketType /\ market[m] \in MarketType
    BY AccruedTotals DEF LendingInv, TypeOK
  <2>3. QED
    BY <2>1, <2>2 DEF MarketType
<1>3. /\ ix \in IndexType /\ ix.borrow \in Nat \ {0} /\ ix.supply \in Nat \ {0}
      /\ index \in [Markets -> IndexType] /\ market \in [Markets -> MarketType]
  BY AccruedIndexType DEF LendingInv, TypeOK, IndexType
<1>4. ~(index' = [index EXCEPT ![m] = ix])
  <2>1. index' = [index EXCEPT ![m] = ix] => Accrue(m)
    BY <1>1 DEF Accrue
  <2>2. QED
    BY <2>1, SupplyIndexKept
<1>5. /\ first < bad /\ requested < supply /\ requested <= LossLimit(m, supply)
      /\ second # 0 /\ BurnBadDebt(m, a, first + second, r, l + loss)
      /\ index' = [index EXCEPT ![m] = [ix EXCEPT !.supply = newIndex]]
  BY <1>1, <1>4
<1>6. n = m /\ index'[m].borrow = ix.borrow
  <2>1. index'[m] = [ix EXCEPT !.supply = newIndex] /\ (n # m => index'[n] = index[n])
    BY <1>3, <1>5
  <2>2. index[n].supply \in Nat
    BY <1>3 DEF IndexType
  <2>3. QED
    BY SMTT(40), <1>3, <2>1, <2>2 DEF IndexType
<1>7. /\ market'[m].accruedReserves = r
      /\ market'[m].realizedLosses = l + loss
      /\ market'[m].totalBadDebtShares = market[m].totalBadDebtShares - (first + second)
      /\ first + second <= market[m].totalBadDebtShares
      /\ market[m].totalBadDebtShares \in Nat
  <2> HIDE DEF first, second, r, l, loss
  <2>1. QED
    BY <1>3, <1>5 DEF BurnBadDebt, MarketType
<1> HIDE DEF ix, bad, res, l, shares
<1>8. first \in Nat
  BY <1>2, <1>3, ShareChoice
<1>9. bad - first \in Nat
  <2> HIDE DEF first
  <2>1. QED
    BY <1>2, <1>5, <1>8
<1>10. requested \in Nat
  <2> DEFINE rest == bad - first
  <2>1. rest \in Nat
    BY <1>9
  <2> HIDE DEF rest
  <2>2. ValueOf(rest, ix.borrow) \in Nat
    BY <1>3, <2>1, ShareRules
  <2>3. QED
    BY <1>2, <2>2 DEF Lesser, rest
<1>11. CeilDiv(ix.borrow, RAY) >= r
  <2>1. CASE res = 0
    <3>1. CeilDiv(ix.borrow, RAY) \in Nat
      BY <1>3, ScaleAssumption, CeilCovers
    <3>2. first = 0
      BY <2>1
    <3>3. covered \in Nat
      BY <1>3, <1>8, ShareRules
    <3>4. r <= 0 /\ r \in Int
      <4> HIDE DEF covered
      <4>1. QED
        BY <1>2, <2>1, <3>3
    <3> HIDE DEF r
    <3>5. QED
      BY <3>1, <3>4
  <2>2. CASE res # 0
    <3>1. first = SharesDown(res, ix.borrow)
      <4>1. first # bad
        <5> HIDE DEF first
        <5>1. QED
          BY <1>2, <1>5, <1>8
      <4>2. QED
        BY <2>2, <4>1 DEF BurnableShares
    <3>2. covered = ValueOf(SharesDown(res, ix.borrow), ix.borrow)
      BY <3>1
    <3>3. QED
      BY <1>1, <1>2, <1>3, <3>2, ReserveDust
  <2>3. QED
    BY <2>1, <2>2
<1>12. loss <= requested + CeilDiv(shares, RAY)
  <2> HIDE DEF requested
  <2>1. QED
    BY <1>2, <1>3, <1>5, <1>10, LossOverRequest
<1>13. loss \in Nat /\ supply \in Nat
  <2>1. /\ ValueOf(shares, newIndex) \in Nat /\ ValueOf(shares, newIndex) <= supply
    <3> HIDE DEF requested
    <3>1. QED
      BY <1>2, <1>3, <1>5, <1>10, CutIndex
  <2>2. supply \in Nat
    BY <1>2, <1>3, ShareRules
  <2> HIDE DEF newIndex, supply
  <2>3. QED
    BY <2>1, <2>2
<1>14. second \in Nat
  <2> DEFINE rest == bad - first
  <2>1. rest \in Nat
    BY <1>9
  <2> HIDE DEF rest, loss
  <2>2. BurnableShares(rest, loss, ix.borrow) \in Nat
    BY <1>3, <1>13, <2>1, ShareChoice
  <2>3. QED
    BY <2>2 DEF rest
<1> HIDE DEF first, covered, r, requested, loss, second, supply, newIndex
<1>15. market[m].totalBadDebtShares > market'[m].totalBadDebtShares
  BY <1>5, <1>7, <1>8, <1>14
<1>16. (l + loss) * BPS <= (supply + l) * 2000 + BPS * CeilDiv(shares, RAY)
  <2>1. requested <= ((supply + l) * 2000) \div BPS - l
    BY <1>5 DEF LossLimit, l
  <2> DEFINE w == (supply + l) * 2000
  <2>2. w \in Nat /\ BPS \in Nat \ {0}
    BY <1>2, <1>13 DEF BPS
  <2>3. w \div BPS \in Nat /\ (w \div BPS) * BPS <= w
    BY <2>2, DivBounds
  <2>4. CeilDiv(shares, RAY) \in Nat
    BY <1>2, ScaleAssumption, CeilCovers
  <2> DEFINE q == w \div BPS
  <2> DEFINE c == CeilDiv(shares, RAY)
  <2>5. /\ q \in Nat /\ q * 10000 <= w /\ w \in Nat /\ requested <= q - l
        /\ loss <= requested + c /\ c \in Nat
    BY <1>12, <2>1, <2>2, <2>3, <2>4 DEF BPS
  <2> HIDE DEF q, c, w
  <2>6. (l + loss) * 10000 <= w + 10000 * c
    BY <1>2, <1>10, <1>13, <2>5
  <2>7. QED
    BY <2>6 DEF w, c, BPS
<1>17. /\ market'[m].realizedLosses = l + loss /\ TotalSupply(m, AccruedIndex(m)) = supply
       /\ market'[m].accruedReserves = r
  BY <1>7 DEF TotalSupply, supply, shares, ix
<1>18. QED
  BY <1>1, <1>6, <1>11, <1>15, <1>16, <1>17 DEF LossWithinLimits, l, shares, ix

LEMMA LossStep ==
  LendingInv /\ [Next]_vars
    => [\A m \in Markets : index'[m].supply < index[m].supply => LossWithinLimits(m)]_vars
<1> SUFFICES ASSUME LendingInv, Next, NEW n \in Markets,
                    index'[n].supply < index[n].supply
             PROVE  LossWithinLimits(n)
  OBVIOUS
<1>1. ASSUME NEW m \in Markets, Accrue(m) \/ UNCHANGED index
      PROVE  FALSE
  BY <1>1, SupplyIndexKept
<1>2. CASE AccountStep
  <2>1. PICK m \in Markets, a \in Accounts, x \in Amounts :
          \/ Accrue(m)
          \/ RealizeBadDebtLoss(m, a, x)
    BY <1>2 DEF AccountStep, DepositCollateral, WithdrawCollateral, SupplyLiquidity,
       WithdrawLiquidity, Borrow, Repay, Liquidate, CoverBadDebtWithReserves,
       RecapitalizeBadDebt
  <2>2. QED
    BY SMTT(40), <1>1, <2>1, RealizedWithinLimits
<1>3. CASE MarketStep
  <2>1. UNCHANGED index \/ \E m \in Markets : Accrue(m)
    BY <1>3 DEF MarketStep, AccrueInterest, WithdrawReserves, ConfigureMarket,
       SetMarketEnabled, ConfigureRate, SetRateEnabled
  <2>2. QED
    BY <1>1, <2>1
<1>4. CASE \/ \E s \in Assets : \E f \in Feeds[s] : PublishPrices(s, f)
           \/ AdvanceTime
  BY <1>1, <1>4 DEF PublishPrices, AdvanceTime
<1>5. QED
  BY <1>2, <1>3, <1>4 DEF Next

(* The supply index falls only where a loss of a disabled market is        *)
(* realized against recorded bad debt, after the reserves are used up to   *)
(* the worth of one share, and never by more than the cumulative limit     *)
(* allows, but for what one unit of the index moves.                       *)
THEOREM SuppliersPayLast == Spec => SuppliersLoseLast
BY LendingInit, LendingStep, LossStep, PTL DEF Spec, SuppliersLoseLast

-----------------------------------------------------------------------------
(* The pool keeps its value.                                               *)

(* What a quotient stands for, in terms of its dividend: it is the largest *)
(* natural whose product with the divisor does not exceed it.              *)
LEMMA WorthBounds ==
  ASSUME NEW x \in Nat, NEW i \in Nat
  PROVE  /\ ValueOf(x, i) \in Nat /\ ValueOf(x, i) * RAY \in Nat /\ x * i \in Nat
         /\ ValueOf(x, i) * RAY <= x * i /\ x * i < ValueOf(x, i) * RAY + RAY
<1>1. RAY \in Nat \ {0} /\ x * i \in Nat
  BY ScaleAssumption, MulNat
<1> DEFINE y == x * i
<1> HIDE DEF y
<1>2. /\ y \div RAY \in Nat /\ (y \div RAY) * RAY \in Nat
      /\ (y \div RAY) * RAY <= y /\ y < (y \div RAY) * RAY + RAY
  BY <1>1, DivBounds DEF y
<1>3. QED
  BY <1>1, <1>2 DEF ValueOf, y

(* Shares are worth together what they are worth apart, or one more.       *)
LEMMA WorthOfBoth ==
  ASSUME NEW x \in Nat, NEW y \in Nat, NEW i \in Nat
  PROVE  /\ ValueOf(x, i) + ValueOf(y, i) <= ValueOf(x + y, i)
         /\ ValueOf(x + y, i) <= ValueOf(x, i) + ValueOf(y, i) + 1
<1> DEFINE a == ValueOf(x, i)
<1> DEFINE b == ValueOf(y, i)
<1> DEFINE c == ValueOf(x + y, i)
<1> DEFINE xi == x * i
<1> DEFINE yi == y * i
<1>1. RAY \in Nat \ {0}
  BY ScaleAssumption
<1>2. a \in Nat /\ xi \in Nat /\ a * RAY \in Nat /\ a * RAY <= xi /\ xi < a * RAY + RAY
  BY WorthBounds
<1>3. b \in Nat /\ yi \in Nat /\ b * RAY \in Nat /\ b * RAY <= yi /\ yi < b * RAY + RAY
  BY WorthBounds
<1>4. /\ c \in Nat /\ c * RAY \in Nat
      /\ c * RAY <= (x + y) * i /\ (x + y) * i < c * RAY + RAY
  <2> DEFINE z == x + y
  <2>1. z \in Nat
    OBVIOUS
  <2> HIDE DEF z
  <2>2. /\ ValueOf(z, i) \in Nat /\ ValueOf(z, i) * RAY \in Nat
        /\ ValueOf(z, i) * RAY <= z * i /\ z * i < ValueOf(z, i) * RAY + RAY
    BY <2>1, WorthBounds
  <2>3. QED
    BY <2>2 DEF z
<1>5. (x + y) * i = xi + yi
  OBVIOUS
<1> HIDE DEF a, b, c, xi, yi
<1>6. /\ (c + 1) * RAY = c * RAY + RAY
      /\ (a + b) * RAY = a * RAY + b * RAY
      /\ (a + b + 2) * RAY = a * RAY + b * RAY + RAY + RAY
  <2>1. \A k, l \in Nat : (k + l) * RAY = k * RAY + l * RAY
    BY <1>1
  <2>2. 1 * RAY = RAY /\ 2 * RAY = RAY + RAY
    BY <1>1
  <2>3. a * RAY + b * RAY + 2 * RAY = a * RAY + b * RAY + RAY + RAY
    BY <1>1, <1>2, <1>3, <2>2
  <2>4. a + b \in Nat
    BY <1>2, <1>3
  <2>5. QED
    BY <1>2, <1>3, <1>4, <2>1, <2>2, <2>3, <2>4
<1>7. (a + b) * RAY < (c + 1) * RAY /\ c * RAY < (a + b + 2) * RAY
  <2> DEFINE ar == a * RAY
  <2> DEFINE br == b * RAY
  <2> DEFINE cr == c * RAY
  <2>1. /\ ar \in Nat /\ br \in Nat /\ cr \in Nat
        /\ ar <= xi /\ xi < ar + RAY /\ br <= yi /\ yi < br + RAY
        /\ cr <= xi + yi /\ xi + yi < cr + RAY
    BY <1>2, <1>3, <1>4, <1>5
  <2> HIDE DEF ar, br, cr
  <2>2. ar + br < cr + RAY /\ cr < ar + br + RAY + RAY
    BY <1>1, <1>2, <1>3, <2>1
  <2>3. QED
    BY <1>6, <2>2 DEF ar, br, cr
<1>8. a + b < c + 1 /\ c < a + b + 2
  BY <1>1, <1>2, <1>3, <1>4, <1>7, SmallerFactor
<1>9. a + b <= c /\ c <= a + b + 1
  BY <1>2, <1>3, <1>4, <1>8
<1>10. QED
  BY <1>9 DEF a, b, c

(* Shares bought for an amount are worth no more than it, and shares       *)
(* charged for an amount are worth no less.                                *)
LEMMA BoughtIsPaid ==
  ASSUME NEW x \in Nat, NEW i \in Nat \ {0}
  PROVE  ValueOf(SharesDown(x, i), i) <= x
<1> DEFINE n == SharesDown(x, i)
<1>1. RAY \in Nat \ {0} /\ x * RAY \in Nat
  BY ScaleAssumption, MulNat
<1>2. n \in Nat /\ n * i <= x * RAY
  BY <1>1, DivBounds DEF SharesDown
<1> HIDE DEF n
<1>3. n * i \in Nat
  BY <1>2, MulNat
<1>4. (n * i) \div RAY <= (x * RAY) \div RAY
  BY <1>1, <1>2, <1>3, DivMono
<1>5. QED
  BY <1>1, <1>4, DivCancel DEF ValueOf, n

LEMMA ChargedIsWorth ==
  ASSUME NEW x \in Nat, NEW i \in Nat \ {0}
  PROVE  x <= ValueOf(SharesUp(x, i), i)
<1> DEFINE n == SharesUp(x, i)
<1>1. RAY \in Nat \ {0} /\ x * RAY \in Nat
  BY ScaleAssumption, MulNat
<1>2. n \in Nat /\ n * i \in Nat /\ x * RAY <= n * i
  BY <1>1, CeilCovers DEF SharesUp
<1> HIDE DEF n
<1>3. (x * RAY) \div RAY <= (n * i) \div RAY
  BY <1>1, <1>2, DivMono
<1>4. QED
  BY <1>1, <1>3, DivCancel DEF ValueOf, n

(* The shares that are taken for an amount never exceed it in worth.       *)
LEMMA BurntIsPaid ==
  ASSUME NEW held \in Nat, NEW x \in Nat, NEW i \in Nat \ {0}
  PROVE  ValueOf(BurnableShares(held, x, i), i) <= x
<1>1. ValueOf(held, i) \in Nat
  BY ShareRules
<1>2. QED
  BY <1>1, BoughtIsPaid DEF BurnableShares

(* Debt that is burnt for its worth takes at most one unit more with it.   *)
LEMMA BurnRounds ==
  ASSUME NEW d \in Nat, NEW n \in Nat, NEW i \in Nat, n <= d
  PROVE  /\ ValueOf(d - n, i) \in Nat /\ ValueOf(d, i) \in Nat /\ ValueOf(n, i) \in Nat
         /\ ValueOf(d, i) <= ValueOf(d - n, i) + ValueOf(n, i) + 1
         /\ ValueOf(d - n, i) + ValueOf(n, i) <= ValueOf(d, i)
<1> DEFINE k == d - n
<1>1. k \in Nat /\ d = k + n
  OBVIOUS
<1> HIDE DEF k
<1>2. /\ ValueOf(k, i) + ValueOf(n, i) <= ValueOf(k + n, i)
      /\ ValueOf(k + n, i) <= ValueOf(k, i) + ValueOf(n, i) + 1
  BY <1>1, WorthOfBoth
<1>3. ValueOf(k, i) \in Nat /\ ValueOf(d, i) \in Nat /\ ValueOf(n, i) \in Nat
  BY <1>1, WorthBounds
<1>4. QED
  BY <1>1, <1>2, <1>3 DEF k

(* A common factor cancels. *)
LEMMA FactorCancels ==
  ASSUME NEW x \in Nat, NEW y \in Nat, NEW n \in Nat \ {0}, x * n <= y * n
  PROVE  x <= y
<1>1. x * n \in Nat /\ y * n \in Nat
  BY MulNat
<1>2. (x * n) \div n <= (y * n) \div n
  BY <1>1, DivMono
<1>3. QED
  BY <1>2, DivCancel

(* Suppliers earn on all of the supply no more than borrowers pay on the   *)
(* debt: the two rates are one rate, times the utilization, rounded down.  *)
LEMMA SupplierShare ==
  ASSUME NEW r \in RateType, NEW d \in Nat, NEW s \in Nat, d <= s
  PROVE  /\ SupplyRate(r, d, s) <= BorrowRate(r, d, s)
         /\ SupplyRate(r, d, s) * s <= BorrowRate(r, d, s) * d
<1> DEFINE b == BorrowRate(r, d, s)
<1> DEFINE u == Utilization(d, s)
<1> DEFINE q == (b * u) \div RAY
<1> DEFINE k == BPS - r.reserveFactor
<1> DEFINE e == (q * k) \div BPS
<1>1. RAY \in Nat \ {0} /\ BPS \in Nat \ {0}
  BY ScaleAssumption DEF BPS
<1>2. b \in Nat
  BY RatesAreNat
<1>3. u \in Nat /\ u <= RAY /\ u * s <= d * RAY
  <2>1. CASE s = 0
    <3>1. u = 0 /\ d = 0
      BY <2>1 DEF Utilization
    <3>2. QED
      BY <1>1, <2>1, <3>1
  <2>2. CASE s # 0
    <3>1. u = (d * RAY) \div s
      BY <2>2 DEF Utilization
    <3>2. d * RAY \in Nat /\ s * RAY \in Nat /\ d * RAY <= s * RAY
      <4>1. RAY * d <= RAY * s /\ RAY * d = d * RAY /\ RAY * s = s * RAY
        BY <1>1, MulMono
      <4>2. QED
        BY <1>1, <4>1, MulNat
    <3> HIDE DEF u
    <3>3. u \in Nat /\ u * s <= d * RAY
      BY <2>2, <3>1, <3>2, DivBounds
    <3>4. u <= (s * RAY) \div s
      BY <2>2, <3>1, <3>2, DivMono
    <3>5. (s * RAY) \div s = RAY
      <4>1. (RAY * s) \div s = RAY /\ RAY * s = s * RAY
        BY <1>1, <2>2, DivCancel
      <4>2. QED
        BY <4>1
    <3>6. QED
      BY <3>3, <3>4, <3>5
  <2>3. QED
    BY <2>1, <2>2
<1>4. k \in Nat /\ k <= BPS
  <2> DEFINE f == r.reserveFactor
  <2>1. f \in Nat /\ f <= 3000
    BY RateFields
  <2> HIDE DEF f
  <2>2. BPS - f \in Nat /\ BPS - f <= BPS
    BY <2>1 DEF BPS
  <2>3. QED
    BY <2>2 DEF f
<1>5. SupplyRate(r, d, s) = e
  BY DEF SupplyRate
<1> HIDE DEF b, u, k
<1>6. b * u \in Nat /\ q \in Nat /\ q * RAY <= b * u
  BY <1>1, <1>2, <1>3, MulNat, DivBounds
<1>7. q <= b
  <2>1. b * u <= b * RAY /\ b * RAY \in Nat
    BY <1>1, <1>2, <1>3, MulMono, MulNat
  <2>2. (b * u) \div RAY <= (b * RAY) \div RAY
    BY <1>1, <1>6, <2>1, DivMono
  <2>3. (b * RAY) \div RAY = b
    BY <1>1, <1>2, DivCancel
  <2>4. QED
    BY <2>2, <2>3
<1> HIDE DEF q
<1>8. e \in Nat /\ e <= q
  <2>1. q * k <= q * BPS /\ q * k \in Nat /\ q * BPS \in Nat
    BY <1>1, <1>4, <1>6, MulMono, MulNat
  <2>2. (q * k) \div BPS <= (q * BPS) \div BPS /\ (q * k) \div BPS \in Nat
    BY <1>1, <2>1, DivMono, DivNat
  <2>3. (q * BPS) \div BPS = q
    BY <1>1, <1>6, DivCancel
  <2>4. QED
    BY <2>2, <2>3
<1> HIDE DEF e
<1>9. e * s <= b * d
  <2>1. s * (e * RAY) <= s * (q * RAY)
    <3>1. RAY * e <= RAY * q /\ RAY * e = e * RAY /\ RAY * q = q * RAY
      BY <1>1, <1>6, <1>8, MulMono
    <3>2. e * RAY \in Nat /\ q * RAY \in Nat /\ e * RAY <= q * RAY
      BY <1>1, <1>6, <1>8, <3>1, MulNat
    <3>3. QED
      BY <3>2, MulMono
  <2>2. s * (q * RAY) <= s * (b * u)
    <3>1. q * RAY \in Nat
      BY <1>1, <1>6, MulNat
    <3>2. QED
      BY <1>6, <3>1, MulMono
  <2>3. s * (b * u) = b * (u * s)
    BY <1>2, <1>3
  <2>4. b * (u * s) <= b * (d * RAY)
    <3>1. u * s \in Nat /\ d * RAY \in Nat
      BY <1>1, <1>3, MulNat
    <3>2. QED
      BY <1>2, <1>3, <3>1, MulMono
  <2>5. s * (e * RAY) = (e * s) * RAY /\ b * (d * RAY) = (b * d) * RAY
    BY <1>1, <1>2, <1>8
  <2>6. /\ s * (e * RAY) \in Nat /\ s * (q * RAY) \in Nat /\ s * (b * u) \in Nat
        /\ b * (d * RAY) \in Nat
    BY <1>1, <1>2, <1>3, <1>6, <1>8, MulNat
  <2> DEFINE w1 == s * (e * RAY)
  <2> DEFINE w2 == s * (q * RAY)
  <2> DEFINE w3 == s * (b * u)
  <2> DEFINE w4 == b * (d * RAY)
  <2>7. w1 <= w2 /\ w2 <= w3 /\ w3 <= w4 /\ w1 \in Nat /\ w2 \in Nat /\ w3 \in Nat /\ w4 \in Nat
    BY <2>1, <2>2, <2>3, <2>4, <2>6
  <2>8. w1 <= w4
    <3> HIDE DEF w1, w2, w3, w4
    <3>1. QED
      BY <2>7
  <2> DEFINE x == e * s
  <2> DEFINE y == b * d
  <2>9. x * RAY <= y * RAY /\ x \in Nat /\ y \in Nat
    BY <1>2, <1>8, <2>5, <2>8, MulNat
  <2> HIDE DEF x, y
  <2>10. x <= y
    BY <1>1, <2>9, FactorCancels
  <2>11. QED
    BY <2>10 DEF x, y
<1>10. e <= b
  BY <1>2, <1>6, <1>7, <1>8
<1>11. QED
  BY <1>5, <1>9, <1>10 DEF b

(* Interest at rates that owe suppliers no more than borrowers: what the   *)
(* supply grows by is what the debt grows by, or a little more, for the    *)
(* two indexes are rounded down before they are applied to all shares.     *)
LEMMA InterestSides ==
  ASSUME NEW d \in Nat, NEW s \in Nat, NEW bi \in Nat, NEW si \in Nat,
         NEW x \in Nat, NEW y \in Nat, y <= x,
         y * ValueOf(s, si) <= x * ValueOf(d, bi)
  PROVE  /\ (bi * x) \div RAY \in Nat /\ (si * y) \div RAY \in Nat
         /\ ValueOf(s, si + (si * y) \div RAY) + ValueOf(d, bi)
              <= ValueOf(s, si) + ValueOf(d, bi + (bi * x) \div RAY)
                   + CeilDiv(x + d, RAY) + 1
<1> DEFINE D == ValueOf(d, bi)
<1> DEFINE S == ValueOf(s, si)
<1> DEFINE gb == (bi * x) \div RAY
<1> DEFINE gs == (si * y) \div RAY
<1> DEFINE bi2 == bi + gb
<1> DEFINE si2 == si + gs
<1> DEFINE D2 == ValueOf(d, bi2)
<1> DEFINE S2 == ValueOf(s, si2)
<1> DEFINE c == CeilDiv(x + d, RAY)
<1>1. RAY \in Nat \ {0} /\ bi * x \in Nat /\ si * y \in Nat
  BY ScaleAssumption, MulNat
<1>2. gb \in Nat /\ gb * RAY \in Nat /\ bi * x < gb * RAY + RAY
  <2> DEFINE w == bi * x
  <2> HIDE DEF w
  <2>1. w \div RAY \in Nat /\ (w \div RAY) * RAY \in Nat /\ w < (w \div RAY) * RAY + RAY
    BY <1>1, DivBounds DEF w
  <2>2. QED
    BY <2>1 DEF w
<1>3. gs \in Nat /\ gs * RAY \in Nat /\ gs * RAY <= si * y
  <2> DEFINE w == si * y
  <2> HIDE DEF w
  <2>1. w \div RAY \in Nat /\ (w \div RAY) * RAY \in Nat /\ (w \div RAY) * RAY <= w
    BY <1>1, DivBounds DEF w
  <2>2. QED
    BY <2>1 DEF w
<1>4. D \in Nat /\ D * RAY \in Nat /\ d * bi \in Nat /\ D * RAY <= d * bi
  BY WorthBounds
<1>5. S \in Nat /\ S * RAY \in Nat /\ s * si \in Nat /\ s * si < S * RAY + RAY
  BY WorthBounds
<1>6. y * S <= x * D
  OBVIOUS
<1> HIDE DEF D, S, gb, gs
<1>7. bi2 \in Nat /\ si2 \in Nat
  BY <1>2, <1>3
<1>8. d * bi2 = d * bi + d * gb /\ s * si2 = s * si + s * gs
  BY <1>2, <1>3
<1> HIDE DEF bi2, si2
<1>9. D2 \in Nat /\ D2 * RAY \in Nat /\ d * bi2 < D2 * RAY + RAY
  BY <1>7, WorthBounds
<1>10. S2 \in Nat /\ S2 * RAY \in Nat /\ S2 * RAY <= s * si2
  BY <1>7, WorthBounds
<1>11. c \in Nat /\ c * RAY \in Nat /\ x + d <= c * RAY
  <2> DEFINE w == x + d
  <2>1. w \in Nat
    OBVIOUS
  <2> HIDE DEF w
  <2>2. CeilDiv(w, RAY) \in Nat /\ CeilDiv(w, RAY) * RAY \in Nat /\ w <= CeilDiv(w, RAY) * RAY
    BY <1>1, <2>1, CeilCovers
  <2>3. QED
    BY <2>2 DEF w
<1> HIDE DEF D2, S2, c
<1> DEFINE dg == d * gb
<1> DEFINE sg == s * gs
<1> DEFINE xD == x * D
<1> DEFINE yS == y * S
<1>12. dg \in Nat /\ sg \in Nat /\ xD \in Nat /\ yS \in Nat
  BY <1>2, <1>3, <1>4, <1>5, MulNat
<1>13. xD <= dg + d
  <2>1. x * (D * RAY) <= x * (d * bi) /\ x * (D * RAY) \in Nat /\ x * (d * bi) \in Nat
    BY <1>4, MulMono, MulNat
  <2>2. x * (d * bi) = d * (bi * x) /\ x * (D * RAY) = xD * RAY
    BY <1>1, <1>4
  <2>3. d * (bi * x) <= d * (gb * RAY + RAY) /\ d * (gb * RAY + RAY) \in Nat
    <3>1. gb * RAY + RAY \in Nat /\ bi * x <= gb * RAY + RAY
      BY <1>1, <1>2
    <3>2. QED
      BY <1>1, <3>1, MulMono, MulNat
  <2>4. d * (gb * RAY + RAY) = (dg + d) * RAY
    BY <1>1, <1>2
  <2> DEFINE w1 == xD * RAY
  <2> DEFINE w2 == d * (bi * x)
  <2> DEFINE w3 == (dg + d) * RAY
  <2>5. w1 <= w2 /\ w2 <= w3 /\ w1 \in Nat /\ w2 \in Nat /\ w3 \in Nat
    BY <2>1, <2>2, <2>3, <2>4
  <2>6. w1 <= w3
    <3> HIDE DEF w1, w2, w3
    <3>1. QED
      BY <2>5
  <2> DEFINE z == dg + d
  <2>7. z \in Nat
    BY <1>12
  <2>8. xD * RAY <= z * RAY
    BY <2>6
  <2> HIDE DEF z, xD
  <2>9. xD <= z
    BY <1>1, <1>12, <2>7, <2>8, FactorCancels
  <2>10. QED
    BY <2>9 DEF z
<1>14. sg <= yS + y
  <2>1. s * (gs * RAY) <= s * (si * y) /\ s * (gs * RAY) \in Nat /\ s * (si * y) \in Nat
    BY <1>1, <1>3, MulMono, MulNat
  <2>2. s * (gs * RAY) = sg * RAY /\ s * (si * y) = y * (s * si)
    BY <1>1, <1>3
  <2>3. y * (s * si) <= y * (S * RAY + RAY) /\ y * (S * RAY + RAY) \in Nat
    <3>1. S * RAY + RAY \in Nat /\ s * si <= S * RAY + RAY
      BY <1>1, <1>5
    <3>2. QED
      BY <1>5, <3>1, MulMono, MulNat
  <2>4. y * (S * RAY + RAY) = (yS + y) * RAY
    BY <1>1, <1>5
  <2> DEFINE w1 == sg * RAY
  <2> DEFINE w2 == y * (s * si)
  <2> DEFINE w3 == (yS + y) * RAY
  <2>5. w1 <= w2 /\ w2 <= w3 /\ w1 \in Nat /\ w2 \in Nat /\ w3 \in Nat
    BY <2>1, <2>2, <2>3, <2>4
  <2>6. w1 <= w3
    <3> HIDE DEF w1, w2, w3
    <3>1. QED
      BY <2>5
  <2> DEFINE z == yS + y
  <2>7. z \in Nat
    BY <1>12
  <2>8. sg * RAY <= z * RAY
    BY <2>6
  <2> HIDE DEF z, sg
  <2>9. sg <= z
    BY <1>1, <1>12, <2>7, <2>8, FactorCancels
  <2>10. QED
    BY <2>9 DEF z
<1>15. yS <= xD
  BY <1>6
<1>16. (S2 + D) * RAY < (S + D2 + c + 2) * RAY
  <2> DEFINE r1 == S2 * RAY
  <2> DEFINE r2 == D * RAY
  <2> DEFINE r3 == S * RAY
  <2> DEFINE r4 == D2 * RAY
  <2> DEFINE r5 == c * RAY
  <2> DEFINE k1 == d * bi
  <2> DEFINE k2 == s * si
  <2>1. /\ r1 \in Nat /\ r2 \in Nat /\ r3 \in Nat /\ r4 \in Nat /\ r5 \in Nat
        /\ k1 \in Nat /\ k2 \in Nat
        /\ r1 <= k2 + sg /\ r2 <= k1 /\ k2 < r3 + RAY /\ k1 + dg < r4 + RAY /\ x + d <= r5
    BY <1>4, <1>5, <1>8, <1>9, <1>10, <1>11
  <2>2. /\ (S2 + D) * RAY = r1 + r2
        /\ (S + D2 + c + 2) * RAY = r3 + r4 + r5 + RAY + RAY
    <3>1. \A k, l \in Nat : (k + l) * RAY = k * RAY + l * RAY
      BY <1>1
    <3>2. 2 * RAY = RAY + RAY
      BY <1>1
    <3>3. (S2 + D) * RAY = r1 + r2
      BY <1>4, <1>10, <3>1
    <3>4. S + D2 \in Nat /\ S + D2 + c \in Nat
      BY <1>5, <1>9, <1>11
    <3>5. (S + D2) * RAY = r3 + r4
      BY <1>5, <1>9, <3>1
    <3>6. (S + D2 + c) * RAY = r3 + r4 + r5
      BY <1>11, <3>1, <3>4, <3>5
    <3>7. (S + D2 + c + 2) * RAY = r3 + r4 + r5 + 2 * RAY
      BY <3>1, <3>4, <3>6
    <3> HIDE DEF r1, r2, r3, r4, r5
    <3>8. QED
      BY <1>1, <2>1, <3>2, <3>3, <3>7
  <2> HIDE DEF r1, r2, r3, r4, r5, k1, k2, dg, sg, xD, yS
  <2>3. r1 + r2 < r3 + r4 + r5 + RAY + RAY
    BY <1>1, <1>12, <1>13, <1>14, <1>15, <2>1
  <2>4. QED
    BY <2>2, <2>3
<1>17. S2 + D \in Nat /\ S + D2 + c + 2 \in Nat
  BY <1>4, <1>5, <1>9, <1>10, <1>11
<1>18. S2 + D < S + D2 + c + 2
  BY <1>1, <1>16, <1>17, SmallerFactor
<1>19. S2 + D <= S + D2 + c + 1
  BY <1>4, <1>5, <1>9, <1>10, <1>11, <1>18
<1>20. QED
  BY <1>2, <1>3, <1>19 DEF S2, D2, S, D, c, bi2, si2, gb, gs

\* The shortfall of m once interest up to now is charged.
ChargedShortfall(m) ==
  TotalSupply(m, AccruedIndex(m)) + Accrued(m).accruedReserves
    - balance[DebtAsset[m]] - TotalDebt(m, AccruedIndex(m))

(* What a market is worth in numbers, before and after interest.           *)
LEMMA PoolNumbers ==
  ASSUME LendingInv, NEW m \in Markets
  PROVE  /\ balance[DebtAsset[m]] \in Nat
         /\ market[m].accruedReserves \in Nat /\ market[m].realizedLosses \in Nat
         /\ market[m].totalSupplyShares \in Nat /\ market[m].totalDebtShares \in Nat
         /\ index[m].borrow \in Nat \ {0} /\ index[m].supply \in Nat \ {0}
         /\ AccruedIndex(m).borrow \in Nat \ {0} /\ AccruedIndex(m).supply \in Nat \ {0}
         /\ TotalSupply(m, index[m]) \in Nat /\ TotalDebt(m, index[m]) \in Nat
         /\ TotalSupply(m, AccruedIndex(m)) \in Nat /\ TotalDebt(m, AccruedIndex(m)) \in Nat
         /\ Accrued(m).accruedReserves = market[m].accruedReserves + ReserveInterest(m)
         /\ ReserveInterest(m) \in Nat
<1>1. balance[DebtAsset[m]] \in Nat
  BY InstanceAssumption DEF LendingInv, TypeOK
<1>2. market[m] \in MarketType /\ index[m] \in IndexType /\ AccruedIndex(m) \in IndexType
  BY AccruedIndexType DEF LendingInv, TypeOK
<1>3. /\ market[m].accruedReserves \in Nat /\ market[m].realizedLosses \in Nat
      /\ market[m].totalSupplyShares \in Nat /\ market[m].totalDebtShares \in Nat
  BY <1>2, InstanceAssumption DEF MarketType
<1>4. /\ index[m].borrow \in Nat \ {0} /\ index[m].supply \in Nat \ {0}
      /\ AccruedIndex(m).borrow \in Nat \ {0} /\ AccruedIndex(m).supply \in Nat \ {0}
  BY <1>2 DEF IndexType
<1>5. /\ TotalSupply(m, index[m]) \in Nat /\ TotalDebt(m, index[m]) \in Nat
      /\ TotalSupply(m, AccruedIndex(m)) \in Nat /\ TotalDebt(m, AccruedIndex(m)) \in Nat
  BY <1>3, <1>4, ShareRules DEF TotalSupply, TotalDebt
<1>6. ReserveInterest(m) \in Nat
  BY <1>5 DEF ReserveInterest, Greater
<1>7. Accrued(m).accruedReserves = market[m].accruedReserves + ReserveInterest(m)
  <2> DEFINE k == ReserveInterest(m)
  <2> HIDE DEF k
  <2>1. [market[m] EXCEPT !.accruedReserves = @ + k].accruedReserves
          = market[m].accruedReserves + k
    BY <1>2 DEF MarketType
  <2>2. QED
    BY <2>1 DEF Accrued, k
<1>8. QED
  BY <1>1, <1>3, <1>4, <1>5, <1>6, <1>7

(* Charging interest costs the pool no more than the dust of the accrual:  *)
(* the reserves take what borrowers owe above what suppliers earn, and     *)
(* where rounding makes that negative, it is by no more than the dust.     *)
LEMMA InterestKeepsValue ==
  ASSUME LendingInv, NEW m \in Markets, CanAccrue(m), index'[m].lastAccrued = now
  PROVE  /\ Shortfall(m) \in Int /\ ChargedShortfall(m) \in Int /\ AccrualDust(m) \in Nat
         /\ ChargedShortfall(m) <= Shortfall(m) + AccrualDust(m)
<1> DEFINE S == TotalSupply(m, index[m])
<1> DEFINE D == TotalDebt(m, index[m])
<1> DEFINE S2 == TotalSupply(m, AccruedIndex(m))
<1> DEFINE D2 == TotalDebt(m, AccruedIndex(m))
<1> DEFINE bal == balance[DebtAsset[m]]
<1> DEFINE res == market[m].accruedReserves
<1> DEFINE ds == market[m].totalDebtShares
<1> DEFINE ss == market[m].totalSupplyShares
<1> DEFINE bi == index[m].borrow
<1> DEFINE si == index[m].supply
<1> DEFINE e == now - index[m].lastAccrued
<1> DEFINE br == BorrowRate(rate[m], D, S)
<1> DEFINE sr == SupplyRate(rate[m], D, S)
<1> DEFINE x == br * e
<1> DEFINE y == sr * e
<1> DEFINE dust == AccrualDust(m)
<1>1. /\ bal \in Nat /\ res \in Nat /\ ds \in Nat /\ ss \in Nat
      /\ S \in Nat /\ D \in Nat /\ S2 \in Nat /\ D2 \in Nat
      /\ bi \in Nat \ {0} /\ si \in Nat \ {0}
      /\ Accrued(m).accruedReserves = res + ReserveInterest(m)
  BY PoolNumbers
<1>2. ReserveInterest(m) = Greater((D2 - D) - (S2 - S), 0)
  BY DEF ReserveInterest
<1>3. Shortfall(m) = S + res - bal - D
  BY DEF Shortfall
<1>4. ChargedShortfall(m) = S2 + Accrued(m).accruedReserves - bal - D2
  BY DEF ChargedShortfall
<1>5. e \in Nat /\ now \in Nat /\ index[m].lastAccrued \in Nat
  <2>1. index[m].lastAccrued <= now /\ now \in Nat /\ index[m] \in IndexType
    BY DEF LendingInv, ClockOK, TypeOK
  <2>2. index[m].lastAccrued \in Nat
    BY <2>1 DEF IndexType
  <2>3. QED
    BY <2>1, <2>2
<1>6. br \in Nat /\ sr \in Nat
  BY <1>1, RatesAreNat DEF LendingInv, TypeOK
<1>7. x \in Nat /\ y \in Nat
  <2> HIDE DEF br, sr, e
  <2>1. QED
    BY <1>5, <1>6, MulNat
<1>8. dust \in Nat /\ S2 + D <= S + D2 + dust
  <2>1. CASE e = 0
    <3>1. AccruedIndex(m) = index[m] /\ index[m].lastAccrued = now
      BY <1>5, <2>1 DEF AccruedIndex
    <3>2. dust = 0
      BY <3>1 DEF AccrualDust
    <3>3. S2 = S /\ D2 = D
      BY <3>1
    <3> HIDE DEF S, D, S2, D2, dust
    <3>4. QED
      BY <1>1, <3>2, <3>3
  <2>2. CASE e # 0
    <3>1. index[m].lastAccrued # now
      BY <1>5, <2>2
    <3>2. dust = 1 + CeilDiv(x + ds, RAY)
      BY <3>1 DEF AccrualDust
    <3>3. D <= S
      BY <3>1 DEF CanAccrue, RatesDefinedAt, RatesDefined
    <3>4. sr <= br /\ sr * S <= br * D
      BY <1>1, <3>3, SupplierShare DEF LendingInv, TypeOK
    <3>5. y <= x /\ y * S <= x * D
      <4> HIDE DEF S, D, br, sr, e
      <4>1. e * sr <= e * br /\ e * sr = y /\ e * br = x
        BY <1>5, <1>6, <3>4, MulMono
      <4>2. sr * S \in Nat /\ br * D \in Nat
        BY <1>1, <1>6, MulNat
      <4>3. e * (sr * S) <= e * (br * D)
        BY <1>5, <3>4, <4>2, MulMono
      <4>4. e * (sr * S) = y * S /\ e * (br * D) = x * D
        BY <1>1, <1>5, <1>6
      <4>5. QED
        BY <4>1, <4>3, <4>4
    <3> DEFINE bi2 == bi + (bi * x) \div RAY
    <3> DEFINE si2 == si + (si * y) \div RAY
    <3>6. S2 = ValueOf(ss, si2) /\ D2 = ValueOf(ds, bi2)
      <4>1. bi * br * e = bi * x /\ si * sr * e = si * y
        <5> HIDE DEF bi, si, br, sr, e
        <5>1. QED
          BY <1>1, <1>5, <1>6
      <4>2. AccruedIndex(m).borrow = bi + (bi * br * e) \div RAY
        BY <2>2 DEF AccruedIndex
      <4>3. AccruedIndex(m).supply = si + (si * sr * e) \div RAY
        BY <2>2 DEF AccruedIndex
      <4>4. QED
        BY <4>1, <4>2, <4>3 DEF TotalSupply, TotalDebt
    <3>7. S = ValueOf(ss, si) /\ D = ValueOf(ds, bi)
      BY DEF TotalSupply, TotalDebt
    <3> HIDE DEF x, y, bi, si, ss, ds, S, D, S2, D2, dust
    <3>8. /\ ValueOf(ss, si2) + ValueOf(ds, bi)
                <= ValueOf(ss, si) + ValueOf(ds, bi2) + CeilDiv(x + ds, RAY) + 1
      BY <1>1, <1>7, <3>5, <3>7, InterestSides
    <3>9. CeilDiv(x + ds, RAY) \in Nat
      <4> DEFINE w == x + ds
      <4>1. w \in Nat /\ RAY \in Nat \ {0}
        BY <1>1, <1>7, ScaleAssumption
      <4> HIDE DEF w
      <4>2. CeilDiv(w, RAY) \in Nat
        BY <4>1, CeilCovers
      <4>3. QED
        BY <4>2 DEF w
    <3> DEFINE c == CeilDiv(x + ds, RAY)
    <3>10. S2 + D <= S + D2 + c + 1 /\ dust = 1 + c /\ c \in Nat
      BY <3>2, <3>6, <3>7, <3>8, <3>9
    <3> HIDE DEF c
    <3>11. QED
      BY <1>1, <3>10
  <2>3. QED
    BY <2>1, <2>2
<1> DEFINE ri == ReserveInterest(m)
<1>9. /\ Shortfall(m) = S + res - bal - D
      /\ ChargedShortfall(m) = S2 + (res + ri) - bal - D2
      /\ ri = IF (D2 - D) - (S2 - S) > 0 THEN (D2 - D) - (S2 - S) ELSE 0
  BY <1>1, <1>2, <1>3, <1>4 DEF Greater
<1> HIDE DEF S, D, S2, D2, bal, res, dust, ri
<1>10. ri \in Nat /\ S2 + ri - D2 <= S - D + dust
  <2>1. CASE (D2 - D) - (S2 - S) > 0
    BY <1>1, <1>8, <1>9, <2>1
  <2>2. CASE ~((D2 - D) - (S2 - S) > 0)
    BY <1>1, <1>8, <1>9, <2>2
  <2>3. QED
    BY <2>1, <2>2
<1>11. QED
  BY <1>1, <1>8, <1>9, <1>10 DEF dust

(* A market whose totals, indexes and tokens stay keeps its value.         *)
LEMMA UntouchedKeeps ==
  ASSUME LendingInv, NEW m \in Markets, market'[m] = market[m], index'[m] = index[m],
         balance'[DebtAsset[m]] = balance[DebtAsset[m]]
  PROVE  KeepsValue(m)
<1>1. Shortfall(m)' = Shortfall(m)
  BY DEF Shortfall, TotalSupply, TotalDebt
<1>2. AccrualDust(m) = 0
  BY DEF AccrualDust
<1>3. BurnDust(m) = 0
  <2>1. market[m].totalDebtShares \in Nat
    BY PoolNumbers
  <2>2. QED
    BY <2>1 DEF BurnDust
<1>4. Shortfall(m) \in Int
  <2> DEFINE S == TotalSupply(m, index[m])
  <2> DEFINE D == TotalDebt(m, index[m])
  <2>1. /\ S \in Nat /\ D \in Nat /\ market[m].accruedReserves \in Nat
        /\ balance[DebtAsset[m]] \in Nat
    BY PoolNumbers
  <2>2. Shortfall(m) = S + market[m].accruedReserves - balance[DebtAsset[m]] - D
    BY DEF Shortfall
  <2> HIDE DEF S, D
  <2>3. QED
    BY <2>1, <2>2
<1>5. QED
  BY <1>1, <1>2, <1>3, <1>4 DEF KeepsValue

\* Only market m is written, and only tokens of its two assets move.
WritesMarket(m) ==
  /\ market' = [market EXCEPT ![m] = market'[m]]
  /\ index' = [index EXCEPT ![m] = index'[m]]
  /\ \A s \in Assets \ {CollateralAsset[m], DebtAsset[m]} : balance'[s] = balance[s]

(* It takes nothing from a market with a debt asset of its own.            *)
LEMMA OthersKeepValue ==
  ASSUME LendingInv, NEW m \in Markets, WritesMarket(m), NEW n \in Markets \ {m},
         OwnDebtAsset(n)
  PROVE  KeepsValue(n)
<1>1. market'[n] = market[n] /\ index'[n] = index[n]
  BY DEF WritesMarket, LendingInv, TypeOK
<1>2. DebtAsset[n] \in Assets \ {CollateralAsset[m], DebtAsset[m]}
  BY InstanceAssumption DEF OwnDebtAsset
<1>3. balance'[DebtAsset[n]] = balance[DebtAsset[n]]
  BY <1>2 DEF WritesMarket
<1>4. QED
  BY <1>1, <1>3, UntouchedKeeps

(* A handler that leaves supply shares s, debt shares d, reserves r and b  *)
(* tokens keeps the value of its market if, at the indexes it leaves, they *)
(* owe no more than the market did once interest was charged, and the dust *)
(* of the debt it burnt.                                                   *)
LEMMA SettledKeeps ==
  ASSUME LendingInv, NEW m \in Markets, CanAccrue(m),
         NEW s \in Nat, NEW d \in Nat, NEW r \in Nat, NEW b \in Nat, NEW i \in Nat,
         market'[m].totalSupplyShares = s, market'[m].totalDebtShares = d,
         market'[m].accruedReserves = r, balance'[DebtAsset[m]] = b,
         index'[m].borrow = AccruedIndex(m).borrow, index'[m].supply = i,
         index'[m].lastAccrued = now,
         ValueOf(s, i) + r - b - ValueOf(d, AccruedIndex(m).borrow)
           <= ChargedShortfall(m) + BurnDust(m)
  PROVE  KeepsValue(m)
<1>1. Shortfall(m)' = ValueOf(s, i) + r - b - ValueOf(d, AccruedIndex(m).borrow)
  BY DEF Shortfall, TotalSupply, TotalDebt
<1>2. /\ Shortfall(m) \in Int /\ ChargedShortfall(m) \in Int /\ AccrualDust(m) \in Nat
      /\ ChargedShortfall(m) <= Shortfall(m) + AccrualDust(m)
  BY InterestKeepsValue
<1>3. BurnDust(m) \in Nat
  BY DEF BurnDust
<1>4. Shortfall(m)' \in Int
  <2> DEFINE V == ValueOf(s, i)
  <2> DEFINE W == ValueOf(d, AccruedIndex(m).borrow)
  <2>1. V \in Nat /\ W \in Nat
    BY PoolNumbers, WorthBounds
  <2>2. Shortfall(m)' = V + r - b - W
    BY <1>1
  <2> HIDE DEF V, W
  <2>3. QED
    BY <2>1, <2>2
<1>5. Shortfall(m)' <= ChargedShortfall(m) + BurnDust(m)
  BY <1>1
<1> DEFINE z == Shortfall(m)'
<1> HIDE DEF z
<1>6. z <= ChargedShortfall(m) + BurnDust(m) /\ z \in Int
  BY <1>4, <1>5 DEF z
<1>7. z <= Shortfall(m) + AccrualDust(m) + BurnDust(m)
  BY <1>2, <1>3, <1>6
<1>8. QED
  BY <1>7 DEF KeepsValue, z

(* The burnt debt shares show in the dust. *)
LEMMA DustOfBurn ==
  ASSUME LendingInv, NEW m \in Markets, NEW n \in Nat, n # 0, n <= market[m].totalDebtShares,
         market'[m].totalDebtShares = market[m].totalDebtShares - n
  PROVE  /\ BurnDust(m) \in Nat /\ BurnDust(m) >= 1
         /\ market'[m].realizedLosses # market[m].realizedLosses => BurnDust(m) = 2
<1>1. market[m].totalDebtShares \in Nat
  BY PoolNumbers
<1>2. market'[m].totalDebtShares < market[m].totalDebtShares
  BY <1>1
<1>3. QED
  BY <1>2 DEF BurnDust

(* A handler that moves neither shares nor tokens of the debt asset keeps  *)
(* the value of its market.                                                *)
LEMMA QuietKeeps ==
  ASSUME LendingInv, NEW m \in Markets, Accrue(m),
         market'[m].totalSupplyShares = market[m].totalSupplyShares,
         market'[m].totalDebtShares = market[m].totalDebtShares,
         market'[m].accruedReserves = Accrued(m).accruedReserves,
         balance'[DebtAsset[m]] = balance[DebtAsset[m]]
  PROVE  KeepsValue(m)
<1> DEFINE s == market[m].totalSupplyShares
<1> DEFINE d == market[m].totalDebtShares
<1> DEFINE r == Accrued(m).accruedReserves
<1> DEFINE b == balance[DebtAsset[m]]
<1> DEFINE i == AccruedIndex(m).supply
<1>1. CanAccrue(m) /\ index'[m] = AccruedIndex(m) /\ index'[m].lastAccrued = now
  BY AccrueStep DEF Accrue
<1>2. /\ s \in Nat /\ d \in Nat /\ r \in Nat /\ b \in Nat /\ i \in Nat
  BY PoolNumbers
<1>3. BurnDust(m) \in Nat /\ ChargedShortfall(m) \in Int
  BY <1>1, InterestKeepsValue DEF BurnDust
<1>4. ValueOf(s, i) + r - b - ValueOf(d, AccruedIndex(m).borrow) = ChargedShortfall(m)
  BY DEF ChargedShortfall, TotalSupply, TotalDebt
<1>5. ValueOf(s, i) + r - b - ValueOf(d, AccruedIndex(m).borrow)
        <= ChargedShortfall(m) + BurnDust(m)
  BY <1>3, <1>4
<1>6. /\ market'[m].totalSupplyShares = s /\ market'[m].totalDebtShares = d
      /\ market'[m].accruedReserves = r /\ balance'[DebtAsset[m]] = b
      /\ index'[m].borrow = AccruedIndex(m).borrow /\ index'[m].supply = i
  BY <1>1
<1> HIDE DEF s, d, r, b, i
<1>7. QED
  BY <1>1, <1>2, <1>5, <1>6, SettledKeeps

(* Debt that is burnt against what it is worth, in tokens or in reserves,  *)
(* costs the pool at most one unit.                                        *)
LEMMA DebtPaidKeeps ==
  ASSUME LendingInv, NEW m \in Markets, Accrue(m),
         NEW q \in Nat, q # 0, q <= market[m].totalDebtShares,
         NEW r \in Nat, NEW b \in Nat,
         market'[m].totalSupplyShares = market[m].totalSupplyShares,
         market'[m].totalDebtShares = market[m].totalDebtShares - q,
         market'[m].accruedReserves = r,
         balance'[DebtAsset[m]] = b,
         r - b <= Accrued(m).accruedReserves - balance[DebtAsset[m]]
                    - ValueOf(q, AccruedIndex(m).borrow)
  PROVE  KeepsValue(m)
<1> DEFINE s == market[m].totalSupplyShares
<1> DEFINE d == market[m].totalDebtShares
<1> DEFINE e == d - q
<1> DEFINE i == AccruedIndex(m).supply
<1> DEFINE j == AccruedIndex(m).borrow
<1> DEFINE res == Accrued(m).accruedReserves
<1> DEFINE bal == balance[DebtAsset[m]]
<1>1. CanAccrue(m) /\ index'[m] = AccruedIndex(m) /\ index'[m].lastAccrued = now
  BY AccrueStep DEF Accrue
<1>2. /\ s \in Nat /\ d \in Nat /\ i \in Nat /\ j \in Nat /\ res \in Nat /\ bal \in Nat
  BY PoolNumbers
<1>3. BurnDust(m) \in Nat /\ BurnDust(m) >= 1
  BY DustOfBurn
<1>4. ChargedShortfall(m) = ValueOf(s, i) + res - bal - ValueOf(d, j)
  BY DEF ChargedShortfall, TotalSupply, TotalDebt
<1>5. /\ market'[m].totalSupplyShares = s /\ market'[m].totalDebtShares = e
      /\ index'[m].borrow = j /\ index'[m].supply = i
      /\ r - b <= res - bal - ValueOf(q, j)
      /\ q <= d
  BY <1>1
<1> HIDE DEF s, d, i, j, res, bal
<1>6. e \in Nat
  BY <1>2, <1>5
<1>7. /\ ValueOf(e, j) \in Nat /\ ValueOf(d, j) \in Nat /\ ValueOf(q, j) \in Nat
      /\ ValueOf(d, j) <= ValueOf(e, j) + ValueOf(q, j) + 1
      /\ ValueOf(s, i) \in Nat
  BY <1>2, <1>5, BurnRounds, WorthBounds
<1> HIDE DEF e
<1> DEFINE D == ValueOf(d, j)
<1> DEFINE E == ValueOf(e, j)
<1> DEFINE Q == ValueOf(q, j)
<1> DEFINE S == ValueOf(s, i)
<1> DEFINE dust == BurnDust(m)
<1>8. S + r - b - E <= ChargedShortfall(m) + dust
  <2>1. /\ D \in Nat /\ E \in Nat /\ Q \in Nat /\ S \in Nat /\ D <= E + Q + 1
        /\ r - b <= res - bal - Q /\ ChargedShortfall(m) = S + res - bal - D
        /\ dust \in Nat /\ dust >= 1
    BY <1>3, <1>4, <1>5, <1>7
  <2> HIDE DEF D, E, Q, S, dust
  <2>2. QED
    BY <1>2, <2>1
<1>9. ValueOf(s, i) + r - b - ValueOf(e, AccruedIndex(m).borrow)
        <= ChargedShortfall(m) + BurnDust(m)
  BY <1>8 DEF j
<1>10. index'[m].borrow = AccruedIndex(m).borrow
  BY <1>5 DEF j
<1>11. QED
  BY <1>1, <1>2, <1>5, <1>6, <1>9, <1>10, SettledKeeps

(* Collateral moves none of the pool's value, nor does an accrual.         *)
LEMMA CollateralKeepsValue ==
  ASSUME LendingInv, NEW m \in Markets,
         \/ AccrueInterest(m)
         \/ \E a \in Accounts, x \in Amounts :
              DepositCollateral(m, a, x) \/ WithdrawCollateral(m, a, x)
  PROVE  WritesMarket(m) /\ KeepsValue(m)
<1> DEFINE A == Accrued(m)
<1>1. /\ CollateralAsset[m] # DebtAsset[m] /\ balance \in [Assets -> Nat]
      /\ market \in [Markets -> MarketType] /\ DebtAsset[m] \in Assets
  BY InstanceAssumption DEF LendingInv, TypeOK
<1>2. /\ A \in MarketType /\ A.totalSupplyShares = market[m].totalSupplyShares
      /\ A.totalDebtShares = market[m].totalDebtShares
  BY AccruedType DEF LendingInv
<1>3. PICK k, v :
        /\ Accrue(m)
        /\ market' = [market EXCEPT ![m] = A]
             \/ market' = [market EXCEPT ![m] = [A EXCEPT !.totalCollateral = k]]
        /\ balance' = balance \/ balance' = [balance EXCEPT ![CollateralAsset[m]] = v]
  <2> HIDE DEF A
  <2>1. AccrueInterest(m) => /\ Accrue(m) /\ market' = [market EXCEPT ![m] = A]
                             /\ balance' = balance
    BY Zenon DEF A, AccrueInterest
  <2>2. ASSUME NEW a \in Accounts, NEW x \in Amounts, DepositCollateral(m, a, x)
        PROVE  \E k, v : /\ Accrue(m)
                         /\ market' = [market EXCEPT ![m] = [A EXCEPT !.totalCollateral = k]]
                         /\ balance' = [balance EXCEPT ![CollateralAsset[m]] = v]
    BY <2>2, ZenonT(60) DEF A, DepositCollateral
  <2>3. ASSUME NEW a \in Accounts, NEW x \in Amounts, WithdrawCollateral(m, a, x)
        PROVE  \E k, v : /\ Accrue(m)
                         /\ market' = [market EXCEPT ![m] = [A EXCEPT !.totalCollateral = k]]
                         /\ balance' = [balance EXCEPT ![CollateralAsset[m]] = v]
    BY <2>3, ZenonT(60) DEF A, WithdrawCollateral
  <2>4. QED
    BY <2>1, <2>2, <2>3
<1> DEFINE r == A.accruedReserves
<1>4. r = Accrued(m).accruedReserves
  OBVIOUS
<1> HIDE DEF A, r
<1>5. /\ market'[m].totalSupplyShares = A.totalSupplyShares
      /\ market'[m].totalDebtShares = A.totalDebtShares
      /\ market'[m].accruedReserves = r
  BY <1>1, <1>2, <1>3 DEF MarketType, r
<1>6. /\ market' = [market EXCEPT ![m] = market'[m]]
      /\ balance'[DebtAsset[m]] = balance[DebtAsset[m]]
      /\ \A s \in Assets \ {CollateralAsset[m], DebtAsset[m]} : balance'[s] = balance[s]
  BY <1>1, <1>3
<1>7. WritesMarket(m)
  BY <1>3, <1>6, AccrueStep DEF WritesMarket
<1>8. QED
  BY <1>2, <1>3, <1>4, <1>5, <1>6, <1>7, QuietKeeps

\* A handler of the debt asset of m leaves its supply shares, debt shares and
\* reserves at s, d and r and its tokens at b, at the accrued indexes.
Leaves(m, s, d, r, b) ==
  /\ Accrue(m)
  /\ market' = [market EXCEPT ![m] = market'[m]]
  /\ market'[m].totalSupplyShares = s
  /\ market'[m].totalDebtShares = d
  /\ market'[m].accruedReserves = r
  /\ balance' = [balance EXCEPT ![DebtAsset[m]] = b]

(* The numbers of a market under the names the next proofs use.            *)
LEMMA LeftKeeps ==
  ASSUME LendingInv, NEW m \in Markets,
         NEW s \in Nat, NEW d \in Nat, NEW r \in Nat, NEW b \in Nat, Leaves(m, s, d, r, b),
         ValueOf(s, AccruedIndex(m).supply) + r - b - ValueOf(d, AccruedIndex(m).borrow)
           <= ChargedShortfall(m)
  PROVE  WritesMarket(m) /\ KeepsValue(m)
<1> DEFINE i == AccruedIndex(m).supply
<1> DEFINE X == ValueOf(s, i) + r - b - ValueOf(d, AccruedIndex(m).borrow)
<1>1. CanAccrue(m) /\ index'[m] = AccruedIndex(m) /\ index'[m].lastAccrued = now
  BY AccrueStep DEF Leaves, Accrue
<1>2. index' = [index EXCEPT ![m] = index'[m]]
  BY AccrueStep DEF Leaves
<1>3. DebtAsset[m] \in Assets /\ balance \in [Assets -> Nat]
  BY InstanceAssumption DEF LendingInv, TypeOK
<1>4. /\ balance'[DebtAsset[m]] = b
      /\ \A t \in Assets \ {CollateralAsset[m], DebtAsset[m]} : balance'[t] = balance[t]
  BY <1>3 DEF Leaves
<1>5. WritesMarket(m)
  BY <1>2, <1>4 DEF Leaves, WritesMarket
<1>6. BurnDust(m) \in Nat /\ ChargedShortfall(m) \in Int /\ i \in Nat
  BY <1>1, InterestKeepsValue, PoolNumbers DEF BurnDust
<1>7. X \in Int
  <2> DEFINE j == AccruedIndex(m).borrow
  <2> DEFINE V == ValueOf(s, i)
  <2> DEFINE W == ValueOf(d, j)
  <2>1. i \in Nat /\ j \in Nat
    BY PoolNumbers
  <2> HIDE DEF i, j
  <2>2. V \in Nat /\ W \in Nat
    BY <2>1, WorthBounds
  <2>3. X = V + r - b - W
    BY DEF i, j
  <2> HIDE DEF V, W, X
  <2>4. QED
    BY <2>2, <2>3
<1>8. X <= ChargedShortfall(m) + BurnDust(m)
  <2>1. X <= ChargedShortfall(m)
    OBVIOUS
  <2> HIDE DEF X
  <2>2. QED
    BY <1>6, <1>7, <2>1
<1>9. /\ market'[m].totalSupplyShares = s /\ market'[m].totalDebtShares = d
      /\ market'[m].accruedReserves = r
      /\ index'[m].borrow = AccruedIndex(m).borrow /\ index'[m].supply = i
  BY <1>1 DEF Leaves
<1>10. KeepsValue(m)
  BY <1>1, <1>4, <1>6, <1>8, <1>9, SettledKeeps
<1>11. QED
  BY <1>5, <1>10

(* Supplied tokens cover the shares they buy, added to all the others.     *)
LEMMA SupplyCovered ==
  ASSUME NEW s \in Nat, NEW x \in Nat, NEW i \in Nat \ {0}
  PROVE  ValueOf(s + SharesDown(x, i), i) <= ValueOf(s, i) + x
<1> DEFINE n == SharesDown(x, i)
<1>1. RAY \in Nat \ {0} /\ x * RAY \in Nat /\ s * i \in Nat
  BY ScaleAssumption, MulNat
<1>2. n \in Nat /\ n * i \in Nat /\ n * i <= x * RAY
  BY <1>1, DivBounds DEF SharesDown
<1> HIDE DEF n
<1>3. (s + n) * i = s * i + n * i
  BY <1>2
<1> DEFINE p == s * i
<1> DEFINE q == n * i
<1> DEFINE y == x * RAY
<1>4. p \in Nat /\ q \in Nat /\ y \in Nat /\ q <= y /\ (s + n) * i = p + q
  BY <1>1, <1>2, <1>3
<1>5. (p + y) \div RAY = (p \div RAY) + x
  <2> HIDE DEF p
  <2>1. QED
    BY <1>1, <1>4, DivShift
<1> HIDE DEF p, q, y
<1>6. (p + q) \div RAY <= (p + y) \div RAY
  BY <1>1, <1>4, DivMono
<1>7. QED
  BY <1>4, <1>5, <1>6 DEF ValueOf, p, n

(* A record of the accrued market with new shares or reserves. *)
LEMMA LeftRecord ==
  ASSUME LendingInv, NEW m \in Markets, NEW v,
         \/ market' = [market EXCEPT ![m] = [Accrued(m) EXCEPT !.totalSupplyShares = v]]
         \/ market' = [market EXCEPT ![m] = [Accrued(m) EXCEPT !.totalDebtShares = v]]
         \/ market' = [market EXCEPT ![m] = [Accrued(m) EXCEPT !.accruedReserves = v]]
  PROVE  /\ market' = [market EXCEPT ![m] = market'[m]]
         /\ market' = [market EXCEPT ![m] = [Accrued(m) EXCEPT !.totalSupplyShares = v]]
              => /\ market'[m].totalSupplyShares = v
                 /\ market'[m].totalDebtShares = market[m].totalDebtShares
                 /\ market'[m].accruedReserves = Accrued(m).accruedReserves
         /\ market' = [market EXCEPT ![m] = [Accrued(m) EXCEPT !.totalDebtShares = v]]
              => /\ market'[m].totalSupplyShares = market[m].totalSupplyShares
                 /\ market'[m].totalDebtShares = v
                 /\ market'[m].accruedReserves = Accrued(m).accruedReserves
         /\ market' = [market EXCEPT ![m] = [Accrued(m) EXCEPT !.accruedReserves = v]]
              => /\ market'[m].totalSupplyShares = market[m].totalSupplyShares
                 /\ market'[m].totalDebtShares = market[m].totalDebtShares
                 /\ market'[m].accruedReserves = v
<1> DEFINE A == Accrued(m)
<1>1. market \in [Markets -> MarketType]
  BY DEF LendingInv, TypeOK
<1>2. /\ A \in MarketType /\ A.totalSupplyShares = market[m].totalSupplyShares
      /\ A.totalDebtShares = market[m].totalDebtShares
  BY AccruedType DEF LendingInv
<1> HIDE DEF A
<1>3. market' = [market EXCEPT ![m] = market'[m]]
  BY <1>1
<1>4. market' = [market EXCEPT ![m] = [A EXCEPT !.totalSupplyShares = v]]
        => /\ market'[m].totalSupplyShares = v
           /\ market'[m].totalDebtShares = market[m].totalDebtShares
           /\ market'[m].accruedReserves = A.accruedReserves
  BY <1>1, <1>2 DEF MarketType
<1>5. market' = [market EXCEPT ![m] = [A EXCEPT !.totalDebtShares = v]]
        => /\ market'[m].totalSupplyShares = market[m].totalSupplyShares
           /\ market'[m].totalDebtShares = v
           /\ market'[m].accruedReserves = A.accruedReserves
  BY <1>1, <1>2 DEF MarketType
<1>6. market' = [market EXCEPT ![m] = [A EXCEPT !.accruedReserves = v]]
        => /\ market'[m].totalSupplyShares = market[m].totalSupplyShares
           /\ market'[m].totalDebtShares = market[m].totalDebtShares
           /\ market'[m].accruedReserves = v
  BY <1>1, <1>2 DEF MarketType
<1>7. QED
  BY <1>3, <1>4, <1>5, <1>6 DEF A

(* Supplying, withdrawing what was supplied, borrowing and taking reserves *)
(* cost the pool nothing: every rounding is against the caller.            *)
LEMMA SupplyKeepsValue ==
  ASSUME LendingInv, NEW m \in Markets, NEW a \in Accounts, NEW x \in Amounts,
         SupplyLiquidity(m, a, x)
  PROVE  WritesMarket(m) /\ KeepsValue(m)
<1> DEFINE i == AccruedIndex(m).supply
<1> DEFINE n == SharesDown(x, i)
<1> DEFINE ss == market[m].totalSupplyShares
<1> DEFINE d == market[m].totalDebtShares
<1> DEFINE r == Accrued(m).accruedReserves
<1> DEFINE bal == balance[DebtAsset[m]]
<1> DEFINE s == ss + n
<1> DEFINE b == bal + x
<1> DEFINE D == TotalDebt(m, AccruedIndex(m))
<1>1. /\ x \in Nat /\ ss \in Nat /\ d \in Nat /\ r \in Nat /\ bal \in Nat
      /\ i \in Nat \ {0} /\ D \in Nat
  BY PoolNumbers, InstanceAssumption
<1>2. /\ Accrue(m)
      /\ market' = [market EXCEPT ![m] = [Accrued(m) EXCEPT !.totalSupplyShares = s]]
      /\ balance' = [balance EXCEPT ![DebtAsset[m]] = b]
  BY AccruedType DEF SupplyLiquidity, LendingInv
<1>3. /\ ChargedShortfall(m) = ValueOf(ss, i) + r - bal - D
      /\ D = ValueOf(d, AccruedIndex(m).borrow)
  BY DEF ChargedShortfall, TotalSupply, TotalDebt
<1> HIDE DEF i, ss, d, r, bal, D
<1>4. n \in Nat /\ ValueOf(s, i) <= ValueOf(ss, i) + x
  BY <1>1, ShareRules, SupplyCovered
<1> HIDE DEF n
<1>5. s \in Nat /\ b \in Nat
  BY <1>1, <1>4
<1>6. b = bal + x
  OBVIOUS
<1> HIDE DEF s, b
<1>7. Leaves(m, s, d, r, b)
  BY <1>2, LeftRecord DEF Leaves, d, r
<1>8. ValueOf(s, i) + r - b - D <= ChargedShortfall(m)
  <2>1. ValueOf(s, i) \in Nat /\ ValueOf(ss, i) \in Nat
    BY <1>1, <1>5, WorthBounds
  <2>2. QED
    BY <1>1, <1>3, <1>4, <1>5, <1>6, <2>1
<1>9. ValueOf(s, AccruedIndex(m).supply) + r - b - ValueOf(d, AccruedIndex(m).borrow)
        <= ChargedShortfall(m)
  BY <1>3, <1>8 DEF i
<1>10. QED
  BY <1>1, <1>5, <1>7, <1>9, LeftKeeps

LEMMA WithdrawKeepsValue ==
  ASSUME LendingInv, NEW m \in Markets, NEW a \in Accounts, NEW x \in Amounts,
         WithdrawLiquidity(m, a, x)
  PROVE  WritesMarket(m) /\ KeepsValue(m)
<1> DEFINE i == AccruedIndex(m).supply
<1> DEFINE held == liquiditySharesOf[m][a]
<1> DEFINE claim == ValueOf(held, i)
<1> DEFINE n == IF x = claim THEN held ELSE SharesUp(x, i)
<1> DEFINE ss == market[m].totalSupplyShares
<1> DEFINE d == market[m].totalDebtShares
<1> DEFINE r == Accrued(m).accruedReserves
<1> DEFINE bal == balance[DebtAsset[m]]
<1> DEFINE s == ss - n
<1> DEFINE b == bal - x
<1> DEFINE D == TotalDebt(m, AccruedIndex(m))
<1>1. /\ x \in Nat /\ ss \in Nat /\ d \in Nat /\ r \in Nat /\ bal \in Nat
      /\ i \in Nat \ {0} /\ D \in Nat /\ held \in Nat
  BY PoolNumbers, InstanceAssumption, AccountTotals DEF LendingInv, TypeOK
<1>2. /\ Accrue(m) /\ n <= ss /\ x <= bal
      /\ market' = [market EXCEPT ![m] = [Accrued(m) EXCEPT !.totalSupplyShares = s]]
      /\ balance' = [balance EXCEPT ![DebtAsset[m]] = b]
  BY AccruedType DEF WithdrawLiquidity, LendingInv
<1>3. /\ ChargedShortfall(m) = ValueOf(ss, i) + r - bal - D
      /\ D = ValueOf(d, AccruedIndex(m).borrow)
  BY DEF ChargedShortfall, TotalSupply, TotalDebt
<1> HIDE DEF i, ss, d, r, bal, D, held
<1>4. n \in Nat /\ ValueOf(n, i) >= x
  <2>1. SharesUp(x, i) \in Nat /\ x <= ValueOf(SharesUp(x, i), i)
    BY <1>1, ShareRules, ChargedIsWorth
  <2>2. QED
    BY <1>1, <2>1
<1> HIDE DEF n
<1>5. s \in Nat /\ b \in Nat
  BY <1>1, <1>2, <1>4
<1>6. b = bal - x
  OBVIOUS
<1>7. ValueOf(s, i) \in Nat /\ ValueOf(ss, i) \in Nat /\ ValueOf(s, i) + x <= ValueOf(ss, i)
  <2>1. /\ ValueOf(ss - n, i) \in Nat /\ ValueOf(ss, i) \in Nat /\ ValueOf(n, i) \in Nat
        /\ ValueOf(ss - n, i) + ValueOf(n, i) <= ValueOf(ss, i)
    BY <1>1, <1>2, <1>4, BurnRounds
  <2>2. QED
    BY <1>1, <1>4, <2>1
<1> HIDE DEF s, b
<1>8. Leaves(m, s, d, r, b)
  BY <1>2, LeftRecord DEF Leaves, d, r
<1>9. ValueOf(s, i) + r - b - D <= ChargedShortfall(m)
  BY <1>1, <1>3, <1>5, <1>6, <1>7
<1>10. ValueOf(s, AccruedIndex(m).supply) + r - b - ValueOf(d, AccruedIndex(m).borrow)
         <= ChargedShortfall(m)
  BY <1>3, <1>9 DEF i
<1>11. QED
  BY <1>1, <1>5, <1>8, <1>10, LeftKeeps

LEMMA BorrowKeepsValue ==
  ASSUME LendingInv, NEW m \in Markets, NEW a \in Accounts, NEW x \in Amounts,
         Borrow(m, a, x)
  PROVE  WritesMarket(m) /\ KeepsValue(m)
<1> DEFINE j == AccruedIndex(m).borrow
<1> DEFINE n == SharesUp(x, j)
<1> DEFINE s == market[m].totalSupplyShares
<1> DEFINE ds == market[m].totalDebtShares
<1> DEFINE r == Accrued(m).accruedReserves
<1> DEFINE bal == balance[DebtAsset[m]]
<1> DEFINE d == ds + n
<1> DEFINE b == bal - x
<1> DEFINE S == TotalSupply(m, AccruedIndex(m))
<1>1. /\ x \in Nat /\ s \in Nat /\ ds \in Nat /\ r \in Nat /\ bal \in Nat
      /\ j \in Nat \ {0} /\ S \in Nat
  BY PoolNumbers, InstanceAssumption
<1>2. /\ Accrue(m) /\ x <= bal
      /\ market' = [market EXCEPT ![m] = [Accrued(m) EXCEPT !.totalDebtShares = d]]
      /\ balance' = [balance EXCEPT ![DebtAsset[m]] = b]
  BY AccruedType DEF Borrow, LendingInv
<1>3. /\ ChargedShortfall(m) = S + r - bal - ValueOf(ds, j)
      /\ S = ValueOf(s, AccruedIndex(m).supply)
  BY DEF ChargedShortfall, TotalSupply, TotalDebt
<1> HIDE DEF j, s, ds, r, bal, S
<1>4. n \in Nat /\ ValueOf(n, j) >= x
  BY <1>1, ShareRules, ChargedIsWorth
<1> HIDE DEF n
<1>5. d \in Nat /\ b \in Nat
  BY <1>1, <1>2, <1>4
<1>6. b = bal - x
  OBVIOUS
<1>7. ValueOf(d, j) \in Nat /\ ValueOf(ds, j) \in Nat /\ ValueOf(ds, j) + x <= ValueOf(d, j)
  <2>1. ValueOf(ds, j) + ValueOf(n, j) <= ValueOf(ds + n, j)
    BY <1>1, <1>4, WorthOfBoth
  <2>2. ValueOf(d, j) \in Nat /\ ValueOf(ds, j) \in Nat /\ ValueOf(n, j) \in Nat
    <3> HIDE DEF d
    <3>1. QED
      BY <1>1, <1>4, <1>5, WorthBounds
  <2>3. QED
    BY <1>1, <1>4, <2>1, <2>2
<1> HIDE DEF d, b
<1>8. Leaves(m, s, d, r, b)
  BY <1>2, LeftRecord DEF Leaves, s, r
<1>9. S + r - b - ValueOf(d, j) <= ChargedShortfall(m)
  BY <1>1, <1>3, <1>5, <1>6, <1>7
<1>10. ValueOf(s, AccruedIndex(m).supply) + r - b - ValueOf(d, AccruedIndex(m).borrow)
         <= ChargedShortfall(m)
  BY <1>3, <1>9 DEF j
<1>11. QED
  BY <1>1, <1>5, <1>8, <1>10, LeftKeeps

LEMMA ReservesKeepValue ==
  ASSUME LendingInv, NEW m \in Markets, NEW x \in Amounts, WithdrawReserves(m, x)
  PROVE  WritesMarket(m) /\ KeepsValue(m)
<1> DEFINE s == market[m].totalSupplyShares
<1> DEFINE d == market[m].totalDebtShares
<1> DEFINE res == Accrued(m).accruedReserves
<1> DEFINE bal == balance[DebtAsset[m]]
<1> DEFINE r == res - x
<1> DEFINE b == bal - x
<1> DEFINE S == TotalSupply(m, AccruedIndex(m))
<1> DEFINE D == TotalDebt(m, AccruedIndex(m))
<1>1. /\ x \in Nat /\ s \in Nat /\ d \in Nat /\ res \in Nat /\ bal \in Nat
      /\ S \in Nat /\ D \in Nat
  BY PoolNumbers, InstanceAssumption
<1>2. /\ Accrue(m) /\ x <= bal /\ x <= res
      /\ market' = [market EXCEPT ![m] = [Accrued(m) EXCEPT !.accruedReserves = r]]
      /\ balance' = [balance EXCEPT ![DebtAsset[m]] = b]
  BY DEF WithdrawReserves
<1>3. /\ ChargedShortfall(m) = S + res - bal - D
      /\ S = ValueOf(s, AccruedIndex(m).supply) /\ D = ValueOf(d, AccruedIndex(m).borrow)
  BY DEF ChargedShortfall, TotalSupply, TotalDebt
<1> HIDE DEF s, d, res, bal, S, D
<1>4. r \in Nat /\ b \in Nat /\ r - b = res - bal
  BY <1>1, <1>2
<1> HIDE DEF r, b
<1>5. Leaves(m, s, d, r, b)
  BY <1>2, LeftRecord DEF Leaves, s, d
<1>6. S + r - b - D <= ChargedShortfall(m)
  BY <1>1, <1>3, <1>4
<1>7. ValueOf(s, AccruedIndex(m).supply) + r - b - ValueOf(d, AccruedIndex(m).borrow)
        <= ChargedShortfall(m)
  BY <1>3, <1>6
<1>8. QED
  BY <1>1, <1>4, <1>5, <1>7, LeftKeeps

(* Repaying, a liquidation and each of the bad-debt paths burn debt for    *)
(* what it is worth.                                                       *)
LEMMA RepayKeepsValue ==
  ASSUME LendingInv, NEW m \in Markets, NEW a \in Accounts, NEW x \in Amounts,
         Repay(m, a, x)
  PROVE  WritesMarket(m) /\ KeepsValue(m)
<1> DEFINE A == Accrued(m)
<1> DEFINE j == AccruedIndex(m).borrow
<1> DEFINE held == debtSharesOf[m][a]
<1> DEFINE q == IF x >= ValueOf(held, j) THEN held ELSE SharesDown(x, j)
<1> DEFINE c == Lesser(q, badDebtSharesOf[m][a])
<1> DEFINE d == A.totalDebtShares - q
<1> DEFINE bd == A.totalBadDebtShares - c
<1> DEFINE r == A.accruedReserves
<1> DEFINE bal == balance[DebtAsset[m]]
<1> DEFINE b == bal + ValueOf(q, j)
<1>1. /\ x \in Nat /\ held \in Nat /\ j \in Nat \ {0} /\ r \in Nat /\ bal \in Nat
      /\ DebtAsset[m] \in Assets /\ balance \in [Assets -> Nat]
      /\ market \in [Markets -> MarketType]
  BY PoolNumbers, InstanceAssumption, AccountTotals DEF LendingInv, TypeOK
<1>2. q \in Nat
  <2> HIDE DEF held, j
  <2>1. QED
    BY <1>1, ShareChoice
<1>3. /\ A \in MarketType /\ A.totalSupplyShares = market[m].totalSupplyShares
      /\ A.totalDebtShares = market[m].totalDebtShares
  BY AccruedType DEF LendingInv
<1>4. /\ Accrue(m) /\ q # 0 /\ q <= market[m].totalDebtShares
      /\ market' = [market EXCEPT ![m] =
                      [A EXCEPT !.totalDebtShares = d, !.totalBadDebtShares = bd]]
      /\ balance' = [balance EXCEPT ![DebtAsset[m]] = b]
  BY DEF Repay
<1>5. d = market[m].totalDebtShares - q
  BY <1>3
<1>6. r = Accrued(m).accruedReserves /\ bal = balance[DebtAsset[m]]
  OBVIOUS
<1> HIDE DEF A, held, q, c, d, bd, bal
<1>7. /\ market'[m].totalSupplyShares = market[m].totalSupplyShares
      /\ market'[m].totalDebtShares = d /\ market'[m].accruedReserves = r
      /\ market' = [market EXCEPT ![m] = market'[m]]
  BY <1>1, <1>3, <1>4 DEF MarketType
<1>8. ValueOf(q, j) \in Nat
  BY <1>1, <1>2, WorthBounds
<1> HIDE DEF r, j
<1>9. b \in Nat /\ r - b <= r - bal - ValueOf(q, j)
  BY <1>1, <1>8
<1> HIDE DEF b
<1>10. /\ balance'[DebtAsset[m]] = b
       /\ \A t \in Assets \ {CollateralAsset[m], DebtAsset[m]} : balance'[t] = balance[t]
  BY <1>1, <1>4
<1>11. WritesMarket(m)
  BY <1>4, <1>7, <1>10, AccrueStep DEF WritesMarket
<1>12. r - b <= Accrued(m).accruedReserves - balance[DebtAsset[m]]
                  - ValueOf(q, AccruedIndex(m).borrow)
  BY <1>6, <1>9 DEF j
<1>13. KeepsValue(m)
  BY <1>1, <1>2, <1>4, <1>5, <1>7, <1>9, <1>10, <1>12, DebtPaidKeeps
<1>14. QED
  BY <1>11, <1>13

LEMMA LiquidateKeepsValue ==
  ASSUME LendingInv, NEW m \in Markets, NEW a \in Accounts, NEW x \in Amounts,
         Liquidate(m, a, x)
  PROVE  WritesMarket(m) /\ KeepsValue(m)
<1> DEFINE A == Accrued(m)
<1> DEFINE j == AccruedIndex(m).borrow
<1> DEFINE r == A.accruedReserves
<1> DEFINE bal == balance[DebtAsset[m]]
<1>0. PICK q \in Nat, s \in Nat, k \in Nat, paid \in Nat : Liquidates(m, a, q, s, k, paid)
  BY LiquidateEffect
<1> DEFINE d == A.totalDebtShares - q
<1> DEFINE c == A.totalCollateral - s
<1> DEFINE bd == A.totalBadDebtShares + (k - badDebtSharesOf[m][a])
<1> DEFINE b == bal + paid
<1>1. /\ j \in Nat \ {0} /\ r \in Nat /\ bal \in Nat
      /\ CollateralAsset[m] \in Assets /\ DebtAsset[m] \in Assets
      /\ CollateralAsset[m] # DebtAsset[m] /\ balance \in [Assets -> Nat]
      /\ market \in [Markets -> MarketType]
  BY PoolNumbers, InstanceAssumption DEF LendingInv, TypeOK
<1>2. /\ A \in MarketType /\ A.totalSupplyShares = market[m].totalSupplyShares
      /\ A.totalDebtShares = market[m].totalDebtShares
  BY AccruedType DEF LendingInv
<1>3. /\ Accrue(m) /\ q # 0 /\ q <= A.totalDebtShares /\ paid = ValueOf(q, j)
      /\ market' = [market EXCEPT ![m] =
                      [A EXCEPT !.totalDebtShares = d, !.totalCollateral = c,
                                !.totalBadDebtShares = bd]]
      /\ balance' = [balance EXCEPT ![DebtAsset[m]] = b,
                                    ![CollateralAsset[m]] = @ - s]
  BY <1>0 DEF Liquidates
<1>4. d = market[m].totalDebtShares - q /\ q <= market[m].totalDebtShares
  BY <1>2, <1>3
<1>5. r = Accrued(m).accruedReserves /\ bal = balance[DebtAsset[m]]
  OBVIOUS
<1> HIDE DEF A, d, c, bd, bal
<1>6. /\ market'[m].totalSupplyShares = market[m].totalSupplyShares
      /\ market'[m].totalDebtShares = d /\ market'[m].accruedReserves = r
      /\ market' = [market EXCEPT ![m] = market'[m]]
  BY <1>1, <1>2, <1>3 DEF MarketType
<1> HIDE DEF r, j
<1>7. b \in Nat /\ r - b <= r - bal - ValueOf(q, j)
  BY <1>1, <1>3
<1> HIDE DEF b
<1>8. /\ balance'[DebtAsset[m]] = b
      /\ \A t \in Assets \ {CollateralAsset[m], DebtAsset[m]} : balance'[t] = balance[t]
  BY <1>1, <1>3
<1>9. WritesMarket(m)
  BY <1>3, <1>6, <1>8, AccrueStep DEF WritesMarket
<1>10. r - b <= Accrued(m).accruedReserves - balance[DebtAsset[m]]
                  - ValueOf(q, AccruedIndex(m).borrow)
  BY <1>5, <1>7 DEF j
<1>11. KeepsValue(m)
  BY <1>1, <1>3, <1>4, <1>6, <1>7, <1>8, <1>10, DebtPaidKeeps
<1>12. QED
  BY <1>9, <1>11

\* What _burnBadDebt leaves of the record of the market.
Burnt(m, q, r, l) ==
  /\ q <= market[m].totalDebtShares
  /\ market' = [market EXCEPT ![m] = market'[m]]
  /\ market'[m].totalSupplyShares = market[m].totalSupplyShares
  /\ market'[m].totalDebtShares = market[m].totalDebtShares - q
  /\ market'[m].accruedReserves = r
  /\ market'[m].realizedLosses = l

LEMMA BurnLeaves ==
  ASSUME LendingInv, NEW m \in Markets, NEW a \in Accounts, NEW q \in Nat,
         NEW r, NEW l, BurnBadDebt(m, a, q, r, l)
  PROVE  Burnt(m, q, r, l)
<1> DEFINE d == market[m].totalDebtShares - q
<1> DEFINE bd == market[m].totalBadDebtShares - q
<1>1. market \in [Markets -> MarketType] /\ market[m] \in MarketType
  BY DEF LendingInv, TypeOK
<1>2. /\ q <= market[m].totalDebtShares
      /\ market' = [market EXCEPT ![m] =
                      [market[m] EXCEPT !.totalDebtShares = d, !.totalBadDebtShares = bd,
                                        !.accruedReserves = r, !.realizedLosses = l]]
  BY DEF BurnBadDebt
<1>3. d = market[m].totalDebtShares - q
  OBVIOUS
<1> HIDE DEF d, bd
<1>4. /\ market'[m].totalSupplyShares = market[m].totalSupplyShares
      /\ market'[m].totalDebtShares = d /\ market'[m].accruedReserves = r
      /\ market'[m].realizedLosses = l
      /\ market' = [market EXCEPT ![m] = market'[m]]
  BY <1>1, <1>2 DEF MarketType
<1>5. QED
  BY <1>2, <1>3, <1>4 DEF Burnt

LEMMA CoverKeepsValue ==
  ASSUME LendingInv, NEW m \in Markets, NEW a \in Accounts, NEW x \in Amounts,
         CoverBadDebtWithReserves(m, a, x)
  PROVE  WritesMarket(m) /\ KeepsValue(m)
<1> DEFINE j == AccruedIndex(m).borrow
<1> DEFINE bad == badDebtSharesOf[m][a]
<1> DEFINE res == Accrued(m).accruedReserves
<1> DEFINE pays == Lesser(x, res)
<1> DEFINE q == BurnableShares(bad, pays, j)
<1> DEFINE v == ValueOf(q, j)
<1> DEFINE r == res - v
<1> DEFINE bal == balance[DebtAsset[m]]
<1>1. /\ x \in Nat /\ bad \in Nat /\ res \in Nat /\ j \in Nat \ {0} /\ bal \in Nat
  BY PoolNumbers, InstanceAssumption, AccountTotals DEF LendingInv, TypeOK
<1>2. /\ Accrue(m) /\ q # 0 /\ v <= res /\ balance' = balance
      /\ BurnBadDebt(m, a, q, r, market[m].realizedLosses)
  BY DEF CoverBadDebtWithReserves
<1>3. res = Accrued(m).accruedReserves /\ bal = balance[DebtAsset[m]]
  OBVIOUS
<1> HIDE DEF bad, res, bal
<1>4. q \in Nat /\ v \in Nat
  <2> HIDE DEF j
  <2>1. pays \in Nat
    BY <1>1 DEF Lesser
  <2> HIDE DEF pays
  <2>2. q \in Nat
    BY <1>1, <2>1, ShareChoice
  <2> HIDE DEF q
  <2>3. QED
    BY <1>1, <2>2, WorthBounds
<1>5. v = ValueOf(q, AccruedIndex(m).borrow)
  OBVIOUS
<1> HIDE DEF q, v, j
<1>6. r \in Nat /\ r - bal <= res - bal - v
  BY <1>1, <1>2, <1>4
<1> HIDE DEF r
<1>7. Burnt(m, q, r, market[m].realizedLosses)
  BY <1>2, <1>4, BurnLeaves
<1>8. WritesMarket(m)
  BY <1>2, <1>7, AccrueStep DEF Burnt, WritesMarket
<1>9. r - bal <= Accrued(m).accruedReserves - balance[DebtAsset[m]]
                   - ValueOf(q, AccruedIndex(m).borrow)
  BY <1>3, <1>5, <1>6
<1>10. KeepsValue(m)
  BY <1>1, <1>2, <1>3, <1>4, <1>6, <1>7, <1>9, DebtPaidKeeps DEF Burnt
<1>11. QED
  BY <1>8, <1>10

LEMMA RecapitalizeKeepsValue ==
  ASSUME LendingInv, NEW m \in Markets, NEW a \in Accounts, NEW x \in Amounts,
         RecapitalizeBadDebt(m, a, x)
  PROVE  WritesMarket(m) /\ KeepsValue(m)
<1> DEFINE j == AccruedIndex(m).borrow
<1> DEFINE bad == badDebtSharesOf[m][a]
<1> DEFINE r == Accrued(m).accruedReserves
<1> DEFINE q == BurnableShares(bad, x, j)
<1> DEFINE v == ValueOf(q, j)
<1> DEFINE bal == balance[DebtAsset[m]]
<1> DEFINE b == bal + v
<1>1. /\ x \in Nat /\ bad \in Nat /\ r \in Nat /\ j \in Nat \ {0} /\ bal \in Nat
      /\ DebtAsset[m] \in Assets /\ balance \in [Assets -> Nat]
  BY PoolNumbers, InstanceAssumption, AccountTotals DEF LendingInv, TypeOK
<1>2. /\ Accrue(m) /\ q # 0
      /\ BurnBadDebt(m, a, q, r, market[m].realizedLosses)
      /\ balance' = [balance EXCEPT ![DebtAsset[m]] = b]
  BY DEF RecapitalizeBadDebt
<1>3. r = Accrued(m).accruedReserves /\ bal = balance[DebtAsset[m]]
  OBVIOUS
<1> HIDE DEF bad, r, bal
<1>4. q \in Nat /\ v \in Nat
  <2> HIDE DEF j
  <2>1. q \in Nat
    BY <1>1, ShareChoice
  <2> HIDE DEF q
  <2>2. QED
    BY <1>1, <2>1, WorthBounds
<1>5. v = ValueOf(q, AccruedIndex(m).borrow)
  OBVIOUS
<1> HIDE DEF q, v, j
<1>6. b \in Nat /\ r - b <= r - bal - v
  BY <1>1, <1>4
<1> HIDE DEF b
<1>7. Burnt(m, q, r, market[m].realizedLosses)
  BY <1>2, <1>4, BurnLeaves
<1>8. /\ balance'[DebtAsset[m]] = b
      /\ \A t \in Assets \ {CollateralAsset[m], DebtAsset[m]} : balance'[t] = balance[t]
  BY <1>1, <1>2
<1>9. WritesMarket(m)
  BY <1>2, <1>7, <1>8, AccrueStep DEF Burnt, WritesMarket
<1>10. r - b <= Accrued(m).accruedReserves - balance[DebtAsset[m]]
                  - ValueOf(q, AccruedIndex(m).borrow)
  BY <1>3, <1>5, <1>6
<1>11. KeepsValue(m)
  BY <1>1, <1>2, <1>4, <1>6, <1>7, <1>8, <1>10, DebtPaidKeeps DEF Burnt
<1>12. QED
  BY <1>9, <1>11

(* Realizing a loss burns debt for the reserves it takes and for what the  *)
(* suppliers lose: their loss is at least what the second burn is worth.   *)
LEMMA RealizeKeepsValue ==
  ASSUME LendingInv, NEW m \in Markets, NEW a \in Accounts, NEW x \in Amounts,
         RealizeBadDebtLoss(m, a, x)
  PROVE  WritesMarket(m) /\ KeepsValue(m)
<1> DEFINE ix == AccruedIndex(m)
<1> DEFINE j == ix.borrow
<1> DEFINE bad == badDebtSharesOf[m][a]
<1> DEFINE res == Accrued(m).accruedReserves
<1> DEFINE first == IF res = 0 THEN 0 ELSE BurnableShares(bad, res, j)
<1> DEFINE covered == ValueOf(first, j)
<1> DEFINE r == res - covered
<1> DEFINE shares == market[m].totalSupplyShares
<1> DEFINE supply == ValueOf(shares, ix.supply)
<1> DEFINE rest == bad - first
<1> DEFINE owed == ValueOf(rest, j)
<1> DEFINE requested == Lesser(x, owed)
<1> DEFINE newIndex == (ix.supply * (supply - requested)) \div supply
<1> DEFINE left == ValueOf(shares, newIndex)
<1> DEFINE loss == supply - left
<1> DEFINE second == BurnableShares(rest, loss, j)
<1> DEFINE l == market[m].realizedLosses
<1> DEFINE ds == market[m].totalDebtShares
<1> DEFINE bal == balance[DebtAsset[m]]
<1>1. /\ CanAccrue(m) /\ bad # 0 /\ covered <= res /\ balance' = balance
      /\ \/ /\ first = bad
            /\ BurnBadDebt(m, a, first, r, l)
            /\ index' = [index EXCEPT ![m] = ix]
         \/ /\ first < bad
            /\ requested # 0 /\ requested < supply
            /\ second # 0
            /\ BurnBadDebt(m, a, first + second, r, l + loss)
            /\ index' = [index EXCEPT ![m] = [ix EXCEPT !.supply = newIndex]]
  BY DEF RealizeBadDebtLoss, TotalSupply
<1>2. /\ x \in Nat /\ bad \in Nat /\ res \in Nat /\ shares \in Nat /\ l \in Nat
      /\ ds \in Nat /\ bal \in Nat /\ j \in Nat \ {0} /\ ix.supply \in Nat \ {0}
      /\ index \in [Markets -> IndexType]
  BY PoolNumbers, InstanceAssumption, AccountTotals DEF LendingInv, TypeOK
<1>3. ix \in IndexType /\ ix.lastAccrued = now
  BY AccruedIndexType DEF LendingInv
<1>4. /\ ChargedShortfall(m) = supply + res - bal - ValueOf(ds, j)
      /\ bal = balance[DebtAsset[m]] /\ ix = AccruedIndex(m) /\ j = ix.borrow
      /\ res = Accrued(m).accruedReserves
      /\ \A t \in Assets \ {CollateralAsset[m], DebtAsset[m]} : balance'[t] = balance[t]
  BY <1>1 DEF ChargedShortfall, TotalSupply, TotalDebt
<1>5. first \in Nat /\ covered \in Nat
  <2> HIDE DEF bad, res, j
  <2>1. first \in Nat
    BY <1>2, ShareChoice
  <2> HIDE DEF first
  <2>2. QED
    BY <1>2, <2>1, WorthBounds
<1>6. covered = ValueOf(first, j)
  OBVIOUS
<1> HIDE DEF ix, j, bad, res, first, shares, l, ds, bal
<1>7. r \in Nat /\ r = res - covered
  <2> HIDE DEF covered
  <2>1. QED
    BY <1>1, <1>2, <1>5
<1> HIDE DEF covered, r
<1>8. CASE /\ first = bad
           /\ BurnBadDebt(m, a, first, r, l)
           /\ index' = [index EXCEPT ![m] = ix]
  <2>1. Accrue(m)
    BY <1>1, <1>4, <1>8 DEF Accrue
  <2>2. Burnt(m, first, r, l)
    BY <1>5, <1>8, BurnLeaves
  <2>3. WritesMarket(m)
    BY <1>4, <2>1, <2>2, AccrueStep DEF Burnt, WritesMarket
  <2>4. r - bal <= res - bal - covered
    BY <1>2, <1>5, <1>7
  <2>5. r - bal <= Accrued(m).accruedReserves - balance[DebtAsset[m]]
                     - ValueOf(first, AccruedIndex(m).borrow)
    BY <1>4, <1>6, <2>4
  <2>6. balance'[DebtAsset[m]] = bal /\ first # 0
    BY <1>1, <1>4, <1>8
  <2>7. KeepsValue(m)
    BY <1>2, <1>5, <1>7, <2>1, <2>2, <2>5, <2>6, DebtPaidKeeps DEF Burnt
  <2>8. QED
    BY <2>3, <2>7
<1>9. CASE /\ first < bad
           /\ requested # 0 /\ requested < supply
           /\ second # 0
           /\ BurnBadDebt(m, a, first + second, r, l + loss)
           /\ index' = [index EXCEPT ![m] = [ix EXCEPT !.supply = newIndex]]
  <2>1. rest \in Nat
    BY <1>2, <1>5, <1>9
  <2> HIDE DEF rest
  <2>2. owed \in Nat
    BY <1>2, <2>1, WorthBounds
  <2> HIDE DEF owed
  <2>3. requested \in Nat /\ requested <= owed /\ requested # 0
    BY <1>2, <1>9, <2>2 DEF Lesser
  <2> HIDE DEF requested
  <2>4. /\ newIndex \in Nat /\ left \in Nat /\ left <= supply
    BY <1>2, <1>9, <2>3, CutIndex
  <2>5. supply \in Nat
    BY <1>2, WorthBounds
  <2>6. left = ValueOf(shares, newIndex)
    OBVIOUS
  <2> HIDE DEF supply, newIndex, left
  <2>7. loss \in Nat /\ left = supply - loss
    BY <2>4, <2>5
  <2> HIDE DEF loss
  <2>8. second \in Nat /\ ValueOf(second, j) <= loss /\ ValueOf(second, j) \in Nat
    <3>1. second \in Nat
      BY <1>2, <2>1, <2>7, ShareChoice
    <3>2. ValueOf(second, j) <= loss
      BY <1>2, <2>1, <2>7, BurntIsPaid
    <3> HIDE DEF second
    <3>3. QED
      BY <1>2, <3>1, <3>2, WorthBounds
  <2>9. loss # 0
    <3>1. SUFFICES ASSUME loss = 0 PROVE FALSE
      OBVIOUS
    <3>2. ~(0 >= owed)
      BY <2>2, <2>3
    <3>3. second = SharesDown(0, j)
      BY <3>1, <3>2 DEF BurnableShares, owed
    <3>4. SharesDown(0, j) = 0
      <4>1. RAY \in Nat
        BY ScaleAssumption
      <4>2. 0 * RAY = 0
        BY <4>1
      <4>3. 0 \div j = 0
        BY <1>2
      <4>4. QED
        BY <4>2, <4>3 DEF SharesDown
    <3>5. QED
      BY <1>9, <3>3, <3>4
  <2>10. second # 0
    BY <1>9
  <2> HIDE DEF second
  <2> DEFINE q == first + second
  <2> DEFINE d == ds - q
  <2> DEFINE ll == l + loss
  <2>11. q \in Nat /\ q # 0 /\ ll # l
    BY <1>2, <1>5, <2>7, <2>8, <2>9, <2>10
  <2>12. Burnt(m, q, r, ll)
    <3>1. BurnBadDebt(m, a, q, r, ll)
      BY <1>9
    <3> HIDE DEF q, ll
    <3>2. QED
      BY <2>11, <3>1, BurnLeaves
  <2>13. q <= ds /\ ds = market[m].totalDebtShares /\ l = market[m].realizedLosses
    BY <2>12 DEF Burnt, ds, l
  <2>14. ValueOf(q, j) <= covered + ValueOf(second, j) + 1
    BY <1>2, <1>5, <1>6, <2>8, WorthOfBoth
  <2> HIDE DEF q, ll
  <2>15. d \in Nat
    BY <1>2, <2>11, <2>13
  <2>16. /\ ValueOf(d, j) \in Nat /\ ValueOf(ds, j) \in Nat /\ ValueOf(q, j) \in Nat
         /\ ValueOf(ds, j) <= ValueOf(d, j) + ValueOf(q, j) + 1
    BY <1>2, <2>11, <2>13, BurnRounds
  <2>17. /\ market'[m].totalDebtShares = d /\ market'[m].accruedReserves = r
         /\ market'[m].totalSupplyShares = shares /\ market'[m].realizedLosses = ll
    BY <2>12, <2>13 DEF Burnt, shares
  <2>18. BurnDust(m) = 2
    BY <2>11, <2>13, <2>17 DEF BurnDust
  <2> HIDE DEF d
  <2>19. left + r - bal - ValueOf(d, j) <= ChargedShortfall(m) + BurnDust(m)
    <3> DEFINE v1 == ValueOf(d, j)
    <3> DEFINE v2 == ValueOf(ds, j)
    <3> DEFINE v3 == ValueOf(q, j)
    <3> DEFINE v4 == ValueOf(second, j)
    <3>1. /\ v1 \in Nat /\ v2 \in Nat /\ v3 \in Nat /\ v4 \in Nat
          /\ v2 <= v1 + v3 + 1 /\ v3 <= covered + v4 + 1 /\ v4 <= loss
          /\ ChargedShortfall(m) = supply + res - bal - v2
      BY <1>4, <2>8, <2>14, <2>16
    <3> HIDE DEF v1, v2, v3, v4
    <3>2. left + r - bal - v1 <= supply + res - bal - v2 + 2
      BY <1>2, <1>5, <1>7, <2>5, <2>7, <3>1
    <3>3. QED
      BY <2>18, <3>1, <3>2 DEF v1
  <2>20. /\ index' = [index EXCEPT ![m] = index'[m]]
         /\ index'[m].borrow = j /\ index'[m].supply = newIndex
         /\ index'[m].lastAccrued = now
    BY <1>2, <1>3, <1>4, <1>9 DEF IndexType
  <2>21. WritesMarket(m)
    BY <1>4, <2>12, <2>20 DEF Burnt, WritesMarket
  <2>22. balance'[DebtAsset[m]] = bal
    BY <1>1, <1>4
  <2>23. KeepsValue(m)
    <3>1. ValueOf(shares, newIndex) + r - bal - ValueOf(d, AccruedIndex(m).borrow)
            <= ChargedShortfall(m) + BurnDust(m)
      BY <1>4, <2>6, <2>19
    <3>2. index'[m].borrow = AccruedIndex(m).borrow
      BY <1>4, <2>20
    <3>3. QED
      BY <1>1, <1>2, <1>7, <2>4, <2>15, <2>17, <2>20, <2>22, <3>1, <3>2, SettledKeeps
  <2>24. QED
    BY <2>21, <2>23
<1>10. QED
  BY <1>1, <1>8, <1>9

(* Every step keeps the value of every market with its own debt asset.     *)
LEMMA PoolStep ==
  LendingInv /\ [Next]_vars => [\A m \in Markets : OwnDebtAsset(m) => KeepsValue(m)]_vars
<1> SUFFICES ASSUME LendingInv, Next, NEW n \in Markets, OwnDebtAsset(n)
             PROVE  KeepsValue(n)
  OBVIOUS
<1>1. ASSUME NEW m \in Markets, WritesMarket(m) /\ KeepsValue(m)
      PROVE  KeepsValue(n)
  <2>1. CASE n = m
    BY <1>1, <2>1
  <2>2. CASE n # m
    BY <1>1, <2>2, OthersKeepValue
  <2>3. QED
    BY <2>1, <2>2
<1>2. CASE UNCHANGED <<balance, market, index>>
  BY <1>2, UntouchedKeeps
<1>3. CASE AccountStep
  <2>1. PICK m \in Markets, a \in Accounts, x \in Amounts :
          \/ DepositCollateral(m, a, x) \/ WithdrawCollateral(m, a, x)
          \/ SupplyLiquidity(m, a, x) \/ WithdrawLiquidity(m, a, x)
          \/ Borrow(m, a, x) \/ Repay(m, a, x) \/ Liquidate(m, a, x)
          \/ CoverBadDebtWithReserves(m, a, x) \/ RecapitalizeBadDebt(m, a, x)
          \/ RealizeBadDebtLoss(m, a, x)
    BY <1>3 DEF AccountStep
  <2>2. WritesMarket(m) /\ KeepsValue(m)
    BY <2>1, CollateralKeepsValue, SupplyKeepsValue, WithdrawKeepsValue, BorrowKeepsValue,
       RepayKeepsValue, LiquidateKeepsValue, CoverKeepsValue, RecapitalizeKeepsValue,
       RealizeKeepsValue
  <2>3. QED
    BY <1>1, <2>2
<1>4. CASE MarketStep
  <2>1. PICK m \in Markets :
          \/ AccrueInterest(m)
          \/ \E amount \in Amounts : WithdrawReserves(m, amount)
          \/ UNCHANGED <<balance, market, index>>
    BY <1>4 DEF MarketStep, ConfigureMarket, SetMarketEnabled, ConfigureRate, SetRateEnabled
  <2>2. QED
    BY <1>1, <1>2, <2>1, CollateralKeepsValue, ReservesKeepValue
<1>5. CASE (\E s \in Assets : \E f \in Feeds[s] : PublishPrices(s, f)) \/ AdvanceTime
  BY <1>2, <1>5 DEF PublishPrices, AdvanceTime
<1>6. QED
  BY <1>3, <1>4, <1>5 DEF Next

(* No sequence of calls takes value out of a market with a debt asset of   *)
(* its own: what it owes less what it owns grows in no step by more than   *)
(* the roundings of that step, for every configuration, price and amount.  *)
THEOREM PoolKeepsItsValue == Spec => PoolNeverLeaks
BY LendingInit, LendingStep, PoolStep, PTL DEF Spec, PoolNeverLeaks
=============================================================================
