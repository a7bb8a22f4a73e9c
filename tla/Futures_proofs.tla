--------------------------- MODULE Futures_proofs ---------------------------
(***************************************************************************)
(* Proofs about the futures modules.  The market view: the one stream of   *)
(* the page follows the selection, for any set of markets and any number   *)
(* of selections, loads and price changes.  The contracts: the books of    *)
(* the engine and of the vault agree and every loss is explicit, for any   *)
(* accounts, markets, amounts and settings.  The trading API carries a     *)
(* request out once; a stream's gap is noticed; the insurance fund follows *)
(* the fees and the cross reserves the book, and a liquidation resolves    *)
(* the whole loss.  The demo desk holds the margin of every isolated       *)
(* position and order, and one pass of its loops evaluates all of them;    *)
(* one price source cannot move the guarded index.                         *)
(***************************************************************************)
EXTENDS MarketView, PerpEngine, TradingApi, StreamFeed, FuturesSettlement,
        DemoDesk, PriceGuard, AccountSums_proofs, SequenceTheorems, WellFoundedInduction, TLAPS

-----------------------------------------------------------------------------
(* MarketView.                                                             *)

Load == [id : Nat, market : Markets, answer : Int]

ViewTypes ==
    /\ selectionId \in Nat
    /\ selected \in Markets \cup {NoMarket} /\ socket \in Markets \cup {NoMarket}
    /\ live \in [Markets -> Nat] /\ latest \in [Markets -> Nat]
    /\ loads \subseteq Load

\* Only the newest selection has a load whose id is the session's: a load that
\* outlived its selection, or stop, is older.
NewestLoad ==
    \A l \in loads : l.id <= selectionId /\ (l.id = selectionId => l.market = selected)

\* The view follows the session as long as something is selected.
ViewFollows == selected # NoMarket => viewing = selected

\* NewestLoad is why Subscribed, after the await, names the selected market.
ViewInv == ViewTypes /\ NewestLoad /\ ViewFollows /\ StreamFollowsSelection

-----------------------------------------------------------------------------
(* Lemmas.                                                                 *)

LEMMA ViewInvInit == ViewInit => ViewInv
BY DEF ViewInit, ViewInv, ViewTypes, NewestLoad, ViewFollows, StreamFollowsSelection

\* accept stores a price of the selected market, or nothing.
LEMMA AcceptKeeps ==
  ASSUME ViewTypes, selected # NoMarket /\ source # "DEMO" => live[selected] > 0,
         NEW m \in Markets, NEW price \in Int, NEW isLive \in BOOLEAN, Accept(m, price, isLive),
         selected' = selected
  PROVE  /\ live' \in [Markets -> Nat]
         /\ selected' # NoMarket /\ source' # "DEMO" => live'[selected'] > 0
<1>1. CASE m = selected /\ price > 0
  <2>1. live' = [live EXCEPT ![m] = price] /\ price \in Nat
    BY <1>1 DEF Accept
  <2>2. live'[m] = price /\ live' \in [Markets -> Nat]
    BY <2>1 DEF ViewTypes
  <2>3. QED
    BY <1>1, <2>2
<1>2. CASE ~(m = selected /\ price > 0)
  BY <1>2 DEF Accept, ViewTypes
<1>3. QED
  BY <1>1, <1>2

\* select starts over: no stream, no price, and the one newest load.
LEMMA SelectKeeps == ASSUME ViewInv, NEW m \in Markets, Select(m) PROVE ViewInv'
<1> DEFINE l == [id |-> selectionId + 1, market |-> m, answer |-> 0]
<1>1. selectionId' = selectionId + 1 /\ selected' = m /\ viewing' = m /\ socket' = NoMarket
      /\ live' = [live EXCEPT ![m] = 0] /\ source' = "DEMO" /\ latest' = latest
  BY DEF Select
<1>2. loads' = loads \cup {l}
  BY <1>1 DEF Select, Requested
<1>3. selectionId \in Nat /\ ViewTypes /\ NewestLoad
  BY DEF ViewInv, ViewTypes
<1>4. l \in Load /\ l.id = selectionId + 1 /\ l.market = m
  BY <1>3 DEF Load
<1> HIDE DEF l
<1>5. live' \in [Markets -> Nat]
  BY <1>1, <1>3 DEF ViewTypes
<1>6. ViewTypes'
  BY <1>1, <1>2, <1>3, <1>4, <1>5 DEF ViewTypes
<1>7. NewestLoad'
  <2>1. ASSUME NEW x \in loads
        PROVE  x.id \in Nat /\ x.id <= selectionId
    BY <1>3 DEF NewestLoad, ViewTypes, Load
  <2>2. QED
    BY <1>1, <1>2, <1>3, <1>4, <2>1 DEF NewestLoad
<1>8. ViewFollows' /\ StreamFollowsSelection'
  BY <1>1 DEF ViewFollows, StreamFollowsSelection
<1>9. QED
  BY <1>6, <1>7, <1>8 DEF ViewInv

\* A load that resolves: its price is accepted, and a stream started, only for
\* the market that is selected now.
LEMMA LoadedKeeps == ASSUME ViewInv, NEW l \in loads, Loaded(l) PROVE ViewInv'
<1>1. ViewTypes /\ NewestLoad /\ ViewFollows /\ StreamFollowsSelection
  BY DEF ViewInv
<1>2. loads' = loads \ {l} /\ UNCHANGED <<latest, selectionId, selected>> /\ Published(l)
  BY DEF Loaded
<1>3. l.market \in Markets /\ l.answer \in Int
  BY <1>1 DEF ViewTypes, Load
<1>4. live' \in [Markets -> Nat]
      /\ (selected' # NoMarket /\ source' # "DEMO" => live'[selected'] > 0)
  <2>1. selected # NoMarket /\ source # "DEMO" => live[selected] > 0
    BY <1>1 DEF StreamFollowsSelection
  <2>2. CASE viewing = l.market
    <3>1. Accept(l.market, l.answer, FALSE)
      BY <1>2, <2>2 DEF Published
    <3>2. QED
      BY <1>1, <1>2, <1>3, <2>1, <3>1, AcceptKeeps
  <2>3. CASE viewing # l.market
    BY <1>1, <1>2, <2>1, <2>3 DEF Published, ViewTypes
  <2>4. QED
    BY <2>2, <2>3
<1>5. CASE l.id = selectionId
  <2>1. viewing' = selected /\ socket' = selected /\ selected \in Markets
    BY <1>1, <1>3, <1>5 DEF Loaded, Subscribed, NewestLoad
  <2>2. QED
    BY <1>1, <1>2, <1>4, <2>1
    DEF ViewInv, ViewTypes, NewestLoad, ViewFollows, StreamFollowsSelection
<1>6. CASE l.id # selectionId
  <2>1. UNCHANGED <<viewing, socket>>
    BY <1>6 DEF Loaded
  <2>2. QED
    BY <1>1, <1>2, <1>4, <2>1
    DEF ViewInv, ViewTypes, NewestLoad, ViewFollows, StreamFollowsSelection
<1>7. QED
  BY <1>5, <1>6

LEMMA LoadFailedKeeps == ASSUME ViewInv, NEW l \in loads, LoadFailed(l) PROVE ViewInv'
<1>1. ViewTypes /\ NewestLoad /\ ViewFollows /\ StreamFollowsSelection
  BY DEF ViewInv
<1>2. loads' = loads \ {l} /\ UNCHANGED <<latest, selectionId, selected, viewing, socket>>
  BY DEF LoadFailed
<1>3. live' \in [Markets -> Nat] /\ (source' = "DEMO" \/ UNCHANGED <<live, source>>)
  BY <1>1 DEF LoadFailed, ViewTypes
<1>4. QED
  BY <1>1, <1>2, <1>3
  DEF ViewInv, ViewTypes, NewestLoad, ViewFollows, StreamFollowsSelection

LEMMA StreamedKeeps == ASSUME ViewInv, NEW m \in Markets, Streamed(m) PROVE ViewInv'
<1>1. ViewTypes /\ NewestLoad /\ ViewFollows /\ StreamFollowsSelection
  BY DEF ViewInv
<1>2. Accept(m, latest[m], TRUE) /\ UNCHANGED <<latest, selectionId, selected, viewing, socket, loads>>
  BY DEF Streamed
<1>3. live' \in [Markets -> Nat]
      /\ (selected' # NoMarket /\ source' # "DEMO" => live'[selected'] > 0)
  <2>1. latest[m] \in Int /\ (selected # NoMarket /\ source # "DEMO" => live[selected] > 0)
    BY <1>1 DEF ViewTypes, StreamFollowsSelection
  <2>2. QED
    BY <1>1, <1>2, <2>1, AcceptKeeps
<1>4. QED
  BY <1>1, <1>2, <1>3
  DEF ViewInv, ViewTypes, NewestLoad, ViewFollows, StreamFollowsSelection

\* stop makes every pending load an old one.
LEMMA StopKeeps == ASSUME ViewInv, StopSession PROVE ViewInv'
<1>1. ViewTypes /\ NewestLoad
  BY DEF ViewInv
<1>2. selectionId' = selectionId + 1 /\ selected' = NoMarket /\ socket' = NoMarket
      /\ UNCHANGED <<latest, live, source, viewing, loads>>
  BY DEF StopSession
<1>3. NewestLoad'
  <2>1. ASSUME NEW x \in loads
        PROVE  x.id \in Nat /\ x.id <= selectionId /\ selectionId \in Nat
    BY <1>1 DEF NewestLoad, ViewTypes, Load
  <2>2. QED
    BY <1>2, <2>1 DEF NewestLoad
<1>4. QED
  BY <1>1, <1>2, <1>3 DEF ViewInv, ViewTypes, ViewFollows, StreamFollowsSelection

\* The server answers a load, or a price changes.
LEMMA ServerKeeps ==
  ASSUME ViewInv, (\E l \in loads : Answer(l)) \/ (\E m \in Markets : ServerTick(m))
  PROVE  ViewInv'
<1>1. ViewTypes /\ NewestLoad /\ ViewFollows /\ StreamFollowsSelection
  BY DEF ViewInv
<1>2. ASSUME NEW l \in loads, Answer(l)
      PROVE  ViewInv'
  <2>1. PICK answer \in {latest[l.market], -1} :
          loads' = (loads \ {l}) \cup {[l EXCEPT !.answer = answer]}
    BY <1>2 DEF Answer
  <2>2. l \in Load /\ answer \in Int
    BY <1>1 DEF ViewTypes, Load
  <2> DEFINE n == [l EXCEPT !.answer = answer]
  <2>3. n \in Load /\ n.id = l.id /\ n.market = l.market
    BY <2>2 DEF Load
  <2>4. loads' = (loads \ {l}) \cup {n}
    BY <2>1
  <2> HIDE DEF n
  <2>5. UNCHANGED <<latest, selectionId, selected, live, source, viewing, socket>>
    BY <1>2 DEF Answer
  <2>6. NewestLoad' /\ loads' \subseteq Load
    BY <1>1, <2>3, <2>4, <2>5 DEF NewestLoad, ViewTypes
  <2>7. QED
    BY <1>1, <2>5, <2>6 DEF ViewInv, ViewTypes, ViewFollows, StreamFollowsSelection
<1>3. ASSUME NEW m \in Markets, ServerTick(m)
      PROVE  ViewInv'
  <2>1. latest' = [latest EXCEPT ![m] = latest[m] + 1] /\ latest[m] \in Nat
        /\ UNCHANGED <<selectionId, selected, live, source, viewing, socket, loads>>
    BY <1>1, <1>3 DEF ServerTick, ViewTypes
  <2>2. latest' \in [Markets -> Nat]
    BY <1>1, <2>1 DEF ViewTypes
  <2>3. QED
    BY <1>1, <2>1, <2>2
    DEF ViewInv, ViewTypes, NewestLoad, ViewFollows, StreamFollowsSelection
<1>4. QED
  BY <1>2, <1>3

LEMMA ViewInvInductive == ViewInv /\ [ViewNext]_viewVars => ViewInv'
<1> SUFFICES ASSUME ViewInv, [ViewNext]_viewVars PROVE ViewInv'
  OBVIOUS
<1>1. ASSUME NEW m \in Markets, Select(m) \/ Streamed(m) PROVE ViewInv'
  BY <1>1, SelectKeeps, StreamedKeeps
<1>2. ASSUME NEW l \in loads, Loaded(l) \/ LoadFailed(l) PROVE ViewInv'
  BY <1>2, LoadedKeeps, LoadFailedKeeps
<1>3. CASE StopSession
  BY <1>3, StopKeeps
<1>4. CASE (\E l \in loads : Answer(l)) \/ (\E m \in Markets : ServerTick(m))
  BY <1>4, ServerKeeps
<1>5. CASE UNCHANGED viewVars
  BY <1>5
  DEF viewVars, ViewInv, ViewTypes, NewestLoad, ViewFollows, StreamFollowsSelection
<1>6. QED
  BY <1>1, <1>2, <1>3, <1>4, <1>5 DEF ViewNext

-----------------------------------------------------------------------------
(* Theorem.                                                                *)

(* However the answers of earlier selections are delayed, fail or overtake   *)
(* each other, the open stream is the selected market's, and a page that     *)
(* claims a fetched or live price has one for the market it shows.           *)
THEOREM StreamStaysOnSelection == ViewSpec => []StreamFollowsSelection
<1>1. ViewInv => StreamFollowsSelection
  BY DEF ViewInv
<1>2. QED
  BY <1>1, ViewInvInit, ViewInvInductive, PTL DEF ViewSpec

-----------------------------------------------------------------------------
(* PerpEngine: the registry.                                               *)

GatesKnown == DOMAIN gates = PerpMarkets

LEMMA GatesStep == GatesKnown /\ [PerpNext]_perpVars => GatesKnown'
<1> SUFFICES ASSUME GatesKnown, [PerpNext]_perpVars PROVE GatesKnown'
  OBVIOUS
<1>1. CASE UNCHANGED gates
  BY <1>1 DEF GatesKnown
<1>2. CASE RegistryNext
  BY <1>2 DEF RegistryNext, GuardianStep, SetEmergencyMarketMode, ApplyEmergencyTriggers,
     SetMarketMode, SetRecoveryApproved, SetMarketActive, SetGate, GatesKnown
<1>3. CASE VaultNext \/ EngineNext
  <2>1. CASE VaultNext
    BY ZenonT(60), <1>1, <2>1 DEF VaultNext, DepositCollateral, WithdrawCollateral, Endow
  <2>2. ASSUME NEW a, NEW m, NEW margin, NEW size, NEW long,
               \/ OpenPerp(a, m, margin, size, long) \/ SettlePerpFunding(a, m)
               \/ LiquidatePerp(a, m) \/ ReducePerp(a, m, size) \/ ExecuteAdl(a, m, size)
        PROVE  UNCHANGED gates
    BY <2>2 DEF OpenPerp, SettlePerpFunding, LiquidatePerp, ReducePerp, ExecuteAdl
  <2>3. ASSUME NEW m, NEW n, NEW s,
               \/ UpdateFundingIndex(m, n) \/ MoveOracle(m, n)
               \/ ConfigureMarketOpenInterestLimit(m, s) \/ ConfigureMarketNotionalLimits(m, s)
               \/ ConfigureTradingFee(m, s) \/ ConfigureAdlSafety(m, s) \/ ConfigureFunding(m, s)
               \/ ConfigurePartialLiquidation(m, s) \/ ConfigureInsuranceCoverage(m, s)
               \/ SetRiskParameters(m, s)
        PROVE  UNCHANGED gates
    BY <2>3 DEF UpdateFundingIndex, MoveOracle, ConfigureMarketOpenInterestLimit,
       ConfigureMarketNotionalLimits, ConfigureTradingFee, ConfigureAdlSafety, ConfigureFunding,
       ConfigurePartialLiquidation, ConfigureInsuranceCoverage, SetRiskParameters, Configure
  <2>4. QED
    BY SMTT(40), <1>1, <1>3, <2>1, <2>2, <2>3 DEF EngineNext
<1>4. QED
  BY <1>1, <1>2, <1>3 DEF PerpNext, perpVars

(* A guardian's step leaves the market shut for positions. *)
LEMMA GuardianShuts ==
  ASSUME GatesKnown, NEW m \in PerpMarkets, GuardianStep(m)
  PROVE  ~MayOpen(gates[m]')
<1>1. PICK mode, approved :
        /\ mode # "ACTIVE"
        /\ gates' = [gates EXCEPT ![m] = [mode |-> mode, active |-> mode # "HALTED",
                                          approved |-> approved]]
  <2>1. ASSUME NEW mode \in Gates, SetEmergencyMarketMode("guardian", m, mode)
        PROVE  mode # "ACTIVE" /\ SetGate(m, mode, gates[m].approved)
    BY <2>1 DEF SetEmergencyMarketMode, GuardianMay
  <2>2. ASSUME NEW sane, NEW allowed, NEW indebted,
               ApplyEmergencyTriggers(m, sane, allowed, indebted)
        PROVE  \E mode \in {"HALTED", "REDUCE_ONLY"} : SetGate(m, mode, gates[m].approved)
    BY <2>2 DEF ApplyEmergencyTriggers
  <2>3. QED
    BY <2>1, <2>2 DEF GuardianStep, SetGate
<1>2. gates'[m].mode = mode
  BY <1>1 DEF GatesKnown
<1>3. QED
  BY <1>1, <1>2 DEF MayOpen

(* Whatever the four functions of the registry did before, no step of the   *)
(* guardian lets a market that takes no positions take them again.          *)
THEOREM GuardianNeverReopens == PerpSpec => OnlyOwnerReopens
<1>1. PerpInit => GatesKnown
  BY DEF PerpInit, GatesKnown
<1>2. GatesKnown /\ [PerpNext]_perpVars
        => [\A m \in PerpMarkets :
              ~MayOpen(gates[m]) /\ MayOpen(gates[m]') => ~GuardianStep(m)]_perpVars
  BY GuardianShuts
<1>3. QED
  BY <1>1, <1>2, GatesStep, PTL DEF PerpSpec, OnlyOwnerReopens

-----------------------------------------------------------------------------
(* PerpEngine: the vault's books.                                          *)

BookType ==
    [ok : BOOLEAN, tokens : Int, accounted : Int, pool : Int, insurance : Int, treasury : Int,
     badDebt : Int, covered : Int, available : [Holders -> Int], locked : [Holders -> Int]]

\* Books that no call has refused: nothing is negative, the accounts' balances
\* add up, and every claim is backed.
Backed(b) ==
    /\ b \in BookType /\ b.ok
    /\ b.pool \in Nat /\ b.insurance \in Nat /\ b.treasury \in Nat /\ b.badDebt \in Nat
    /\ b.covered \in Nat
    /\ b.available \in [Holders -> Nat] /\ b.locked \in [Holders -> Nat]
    /\ b.accounted = TotalOf([a \in Holders |-> b.available[a] + b.locked[a]])
    /\ b.tokens >= Claims(b)

\* What the accounts hold beyond insured and recorded deficits.
Net(b) == b.accounted - b.badDebt - b.covered

\* A call for account a: it has lk locked afterwards, others are not touched,
\* and the accounts made net.
Effect(b, c, a, lk, net) ==
    /\ c.locked[a] = lk /\ \A h \in Holders \ {a} : c.locked[h] = b.locked[h]
    /\ Net(c) = Net(b) + net

LEMMA EffectsAdd ==
  ASSUME NEW b \in BookType, NEW c \in BookType, NEW d \in BookType, NEW a \in Holders,
         NEW k \in Int, NEW l \in Int, NEW n \in Int, NEW r \in Int,
         Effect(b, c, a, k, n), Effect(c, d, a, l, r)
  PROVE  Effect(b, d, a, l, n + r)
BY DEF Effect, Net, BookType

\* A call that moves x to a's available balance, y to what a has locked, and
\* keeps the reserves in order.
Moves(b, c, a, x, y, net) ==
    /\ c \in BookType /\ c.ok
    /\ c.available = [b.available EXCEPT ![a] = b.available[a] + x]
    /\ c.locked = [b.locked EXCEPT ![a] = b.locked[a] + y]
    /\ b.available[a] + x >= 0 /\ b.locked[a] + y >= 0 /\ c.accounted = b.accounted + x + y
    /\ c.pool \in Nat /\ c.insurance \in Nat /\ c.treasury \in Nat /\ c.badDebt \in Nat
    /\ c.covered \in Nat /\ c.tokens >= Claims(c) /\ Net(c) = Net(b) + net

LEMMA HoldersTotal ==
  ASSUME NEW f \in [Holders -> Nat], NEW a \in Holders, NEW v \in Nat
  PROVE  TotalOf([f EXCEPT ![a] = v]) = TotalOf(f) - f[a] + v /\ TotalOf(f) \in Nat
<1>1. IsFiniteSet(Holders)
  BY PerpAssumption
<1>2. QED
  BY <1>1, TotalOfUpdate, TotalIsNat

(* The total of the balances follows, and every claim is still backed. *)
LEMMA VaultCall ==
  ASSUME NEW b, Backed(b), NEW c, NEW a \in Holders,
         NEW x \in Int, NEW y \in Int, NEW net \in Int, Moves(b, c, a, x, y, net)
  PROVE  Backed(c) /\ Effect(b, c, a, b.locked[a] + y, net)
<1> DEFINE f == [h \in Holders |-> b.available[h] + b.locked[h]]
<1> DEFINE g == [h \in Holders |-> c.available[h] + c.locked[h]]
<1> DEFINE v == b.available[a] + x + b.locked[a] + y
<1>1. /\ b.available \in [Holders -> Nat] /\ b.locked \in [Holders -> Nat]
      /\ b.accounted = TotalOf(f) /\ f \in [Holders -> Nat] /\ f[a] = b.available[a] + b.locked[a]
  BY DEF Backed
<1>2. c.available \in [Holders -> Nat] /\ c.locked \in [Holders -> Nat]
  BY <1>1 DEF Moves
<1>3. v \in Nat /\ v = f[a] + x + y /\ g = [f EXCEPT ![a] = v]
  <2>1. b.available[a] \in Nat /\ b.locked[a] \in Nat
    BY <1>1
  <2>2. v \in Nat /\ v = f[a] + x + y
    BY <1>1, <2>1 DEF Moves
  <2>3. c.available[a] + c.locked[a] = v
    BY <1>1, <2>1 DEF Moves
  <2>4. \A h \in Holders \ {a} : c.available[h] = b.available[h] /\ c.locked[h] = b.locked[h]
    BY <1>1 DEF Moves
  <2> HIDE DEF v
  <2>5. g = [f EXCEPT ![a] = v]
    BY <2>3, <2>4
  <2>6. QED
    BY <2>2, <2>5
<1> HIDE DEF f, g, v
<1>4. TotalOf([f EXCEPT ![a] = v]) = TotalOf(f) - f[a] + v /\ TotalOf(f) \in Nat
  BY <1>1, <1>3, HoldersTotal
<1>5. c.accounted = TotalOf(g)
  BY <1>1, <1>3, <1>4 DEF Moves
<1>6. Backed(c)
  BY <1>2, <1>5 DEF Backed, Moves, g
<1>7. Effect(b, c, a, b.locked[a] + y, net)
  BY <1>1 DEF Effect, Moves
<1>8. QED
  BY <1>6, <1>7

(* One account's entry moves. *)
LEMMA BalanceMoves ==
  ASSUME NEW b \in BookType, NEW a \in Holders, NEW n \in Int
  PROVE  /\ [b.available EXCEPT ![a] = b.available[a] + n] \in [Holders -> Int]
         /\ [b.locked EXCEPT ![a] = b.locked[a] + n] \in [Holders -> Int]
BY DEF BookType

LEMMA LockWorks ==
  ASSUME NEW b \in BookType, NEW a \in Holders, NEW n \in Int, NEW c,
         c = LockCollateral(b, a, n)
  PROVE  /\ c \in BookType /\ (c.ok => b.ok)
         /\ Backed(b) /\ c.ok => Backed(c) /\ Effect(b, c, a, b.locked[a] + n, 0)
<1> DEFINE o == b.ok /\ n > 0 /\ b.available[a] >= n
<1> DEFINE x == -n
<1> DEFINE f == [b.available EXCEPT ![a] = b.available[a] + x]
<1> DEFINE g == [b.locked EXCEPT ![a] = b.locked[a] + n]
<1>1. o \in BOOLEAN /\ f \in [Holders -> Int] /\ g \in [Holders -> Int] /\ x \in Int
  <2>1. x \in Int
    OBVIOUS
  <2> HIDE DEF x
  <2>2. QED
    BY <2>1, BalanceMoves
<1>2. c = [b EXCEPT !.ok = o, !.available = f, !.locked = g]
  BY DEF LockCollateral, BookType
<1>3. o => b.ok /\ n > 0 /\ b.available[a] >= n
  OBVIOUS
<1> HIDE DEF o, f, g
<1>4. /\ c \in BookType /\ c.ok = o /\ c.available = f /\ c.locked = g
      /\ c.tokens = b.tokens /\ c.accounted = b.accounted /\ c.pool = b.pool
      /\ c.insurance = b.insurance /\ c.treasury = b.treasury /\ c.badDebt = b.badDebt
      /\ c.covered = b.covered
  BY <1>1, <1>2 DEF BookType
<1>5. ASSUME Backed(b), c.ok
      PROVE  Backed(c) /\ Effect(b, c, a, b.locked[a] + n, 0)
  <2>1. /\ b.available[a] \in Nat /\ b.locked[a] \in Nat /\ n > 0 /\ b.available[a] >= n
        /\ b.accounted \in Int /\ b.badDebt \in Nat /\ b.covered \in Nat
    BY <1>3, <1>4, <1>5 DEF Backed, BookType
  <2>2. /\ c.pool \in Nat /\ c.insurance \in Nat /\ c.treasury \in Nat /\ c.badDebt \in Nat
        /\ c.covered \in Nat /\ c.tokens >= Claims(c)
    BY <1>4, <1>5 DEF Backed, Claims
  <2>3. c.accounted = b.accounted + x + n /\ Net(c) = Net(b) + 0
    BY <1>4, <2>1 DEF Net
  <2>4. b.available[a] + x >= 0 /\ b.locked[a] + n >= 0
    BY <2>1
  <2> HIDE DEF x
  <2>5. Moves(b, c, a, x, n, 0)
    BY <1>1, <1>4, <1>5, <2>2, <2>3, <2>4 DEF Moves, f, g
  <2>6. QED
    BY <1>1, <1>5, <2>5, VaultCall
<1>6. QED
  BY <1>3, <1>4, <1>5

LEMMA NothingMoves ==
  ASSUME NEW b \in BookType, NEW a \in Holders
  PROVE  /\ [b.available EXCEPT ![a] = b.available[a] + 0] = b.available
         /\ [b.locked EXCEPT ![a] = b.locked[a] + 0] = b.locked
         /\ b.locked[a] + 0 = b.locked[a]
BY DEF BookType

LEMMA UnlockWorks ==
  ASSUME NEW b \in BookType, NEW a \in Holders, NEW n \in Int, NEW c,
         c = UnlockCollateral(b, a, n)
  PROVE  /\ c \in BookType /\ (c.ok => b.ok)
         /\ Backed(b) /\ c.ok => Backed(c) /\ Effect(b, c, a, b.locked[a] + (-n), 0)
<1> DEFINE o == b.ok /\ n > 0 /\ b.locked[a] >= n
<1> DEFINE x == n
<1> DEFINE y == -n
<1> DEFINE f == [b.available EXCEPT ![a] = b.available[a] + x]
<1> DEFINE g == [b.locked EXCEPT ![a] = b.locked[a] + y]
<1>1. o \in BOOLEAN /\ f \in [Holders -> Int] /\ g \in [Holders -> Int]
  <2>1. x \in Int /\ y \in Int
    OBVIOUS
  <2> HIDE DEF x, y
  <2>2. QED
    BY <2>1, BalanceMoves
<1>3. c = [b EXCEPT !.ok = o, !.available = f, !.locked = g]
  BY DEF UnlockCollateral, BookType
<1>4. o => b.ok /\ n > 0 /\ b.locked[a] >= n
  OBVIOUS
<1> HIDE DEF o, f, g
<1>5. /\ c \in BookType /\ c.ok = o /\ c.available = f /\ c.locked = g
      /\ c.tokens = b.tokens /\ c.accounted = b.accounted /\ c.pool = b.pool /\ c.insurance = b.insurance
      /\ c.treasury = b.treasury /\ c.badDebt = b.badDebt /\ c.covered = b.covered
  BY ZenonT(60), <1>1, <1>3 DEF BookType
<1>6. ASSUME Backed(b), c.ok
      PROVE  Backed(c) /\ Effect(b, c, a, b.locked[a] + (-n), 0)
  <2>1. /\ b.available[a] \in Nat /\ b.locked[a] \in Nat /\ b.pool \in Nat
        /\ b.insurance \in Nat /\ b.treasury \in Nat /\ b.badDebt \in Nat
        /\ b.covered \in Nat /\ b.accounted \in Int /\ b.tokens \in Int
        /\ b.tokens >= Claims(b)
    BY <1>6 DEF Backed, BookType
  <2>2. b.ok /\ n > 0 /\ b.locked[a] >= n
    BY <1>4, <1>5, <1>6
  <2>3. c.accounted = b.accounted + x + y /\ Net(c) = Net(b) + 0
    BY <1>5, <1>6, <2>1, <2>2 DEF Net
  <2>4. b.available[a] + x >= 0 /\ b.locked[a] + y >= 0
    BY <1>5, <1>6, <2>1, <2>2
  <2>5. /\ c.pool \in Nat /\ c.insurance \in Nat /\ c.treasury \in Nat /\ c.badDebt \in Nat
        /\ c.covered \in Nat /\ c.tokens >= Claims(c)
    BY <1>5, <1>6, <2>1, <2>2 DEF Claims
  <2>6. x \in Int /\ y \in Int /\ y = (-n) /\ 0 \in Int
    BY <2>1
  <2> HIDE DEF x, y
  <2>7. Moves(b, c, a, x, y, 0)
    BY <1>5, <1>6, <2>3, <2>4, <2>5 DEF Moves, f, g
  <2>8. QED
    BY <1>6, <2>6, <2>7, VaultCall
<1>7. QED
  BY <1>4, <1>5, <1>6

LEMMA FundingWorks ==
  ASSUME NEW b \in BookType, NEW a \in Holders, NEW n \in Int, NEW c,
         c = PayFunding(b, a, n)
  PROVE  /\ c \in BookType /\ (c.ok => b.ok)
         /\ Backed(b) /\ c.ok => Backed(c) /\ Effect(b, c, a, b.locked[a], n)
<1> DEFINE o == b.ok /\ b.pool >= n /\ b.available[a] >= -n
<1> DEFINE x == n
<1> DEFINE f == [b.available EXCEPT ![a] = b.available[a] + x]
<1> DEFINE acc == b.accounted + n
<1> DEFINE poo == b.pool - n
<1>1. o \in BOOLEAN /\ f \in [Holders -> Int]
  <2>1. x \in Int
    OBVIOUS
  <2> HIDE DEF x
  <2>2. QED
    BY <2>1, BalanceMoves
<1>2. acc \in Int /\ poo \in Int
  BY DEF BookType
<1>3. c = [b EXCEPT !.ok = o, !.available = f, !.accounted = acc, !.pool = poo]
  BY DEF PayFunding, BookType
<1>4. o => b.ok /\ b.pool >= n /\ b.available[a] >= -n
  OBVIOUS
<1> HIDE DEF o, f, acc, poo
<1>5. /\ c \in BookType /\ c.ok = o /\ c.available = f /\ c.locked = b.locked
      /\ c.accounted = acc /\ c.pool = poo /\ c.tokens = b.tokens /\ c.insurance = b.insurance
      /\ c.treasury = b.treasury /\ c.badDebt = b.badDebt /\ c.covered = b.covered
  BY ZenonT(60), <1>1, <1>2, <1>3 DEF BookType
<1>6. ASSUME Backed(b), c.ok
      PROVE  Backed(c) /\ Effect(b, c, a, b.locked[a], n)
  <2>1. /\ b.available[a] \in Nat /\ b.locked[a] \in Nat /\ b.pool \in Nat
        /\ b.insurance \in Nat /\ b.treasury \in Nat /\ b.badDebt \in Nat
        /\ b.covered \in Nat /\ b.accounted \in Int /\ b.tokens \in Int
        /\ b.tokens >= Claims(b)
    BY <1>6 DEF Backed, BookType
  <2>2. b.ok /\ b.pool >= n /\ b.available[a] >= -n
    BY <1>4, <1>5, <1>6
  <2>3. c.accounted = b.accounted + x + 0 /\ Net(c) = Net(b) + n
    BY <1>5, <1>6, <2>1, <2>2 DEF Net, acc, poo
  <2>4. b.available[a] + x >= 0 /\ b.locked[a] + 0 >= 0
    BY <1>5, <1>6, <2>1, <2>2
  <2>5. /\ c.pool \in Nat /\ c.insurance \in Nat /\ c.treasury \in Nat /\ c.badDebt \in Nat
        /\ c.covered \in Nat /\ c.tokens >= Claims(c)
    BY <1>5, <1>6, <2>1, <2>2 DEF Claims, acc, poo
  <2>6. x \in Int /\ n \in Int
    BY <2>1
  <2> HIDE DEF x
  <2>0. [b.locked EXCEPT ![a] = b.locked[a] + 0] = b.locked /\ b.locked[a] + 0 = b.locked[a]
    BY NothingMoves
  <2>7. Moves(b, c, a, x, 0, n)
    BY <1>5, <1>6, <2>3, <2>4, <2>5, <2>0 DEF Moves, f
  <2>8. QED
    BY <1>6, <2>6, <2>7, <2>0, VaultCall
<1>7. QED
  BY <1>4, <1>5, <1>6

LEMMA FeeWorks ==
  ASSUME NEW b \in BookType, NEW a \in Holders, NEW n \in Nat, NEW i \in 0 .. n, NEW c,
         c = CollectTradingFee(b, a, n, i)
  PROVE  /\ c \in BookType /\ (c.ok => b.ok)
         /\ Backed(b) /\ c.ok => Backed(c) /\ Effect(b, c, a, b.locked[a], (-n))
<1> DEFINE o == b.ok /\ b.available[a] >= n
<1> DEFINE x == -n
<1> DEFINE f == [b.available EXCEPT ![a] = b.available[a] + x]
<1> DEFINE acc == b.accounted - n
<1> DEFINE ins == b.insurance + i
<1> DEFINE tre == b.treasury + n - i
<1>1. o \in BOOLEAN /\ f \in [Holders -> Int]
  <2>1. x \in Int
    OBVIOUS
  <2> HIDE DEF x
  <2>2. QED
    BY <2>1, BalanceMoves
<1>2. acc \in Int /\ ins \in Int /\ tre \in Int
  BY DEF BookType
<1>3. c = [b EXCEPT !.ok = o, !.available = f, !.accounted = acc, !.insurance = ins, !.treasury = tre]
  BY DEF CollectTradingFee, BookType
<1>4. o => b.ok /\ b.available[a] >= n
  OBVIOUS
<1> HIDE DEF o, f, acc, ins, tre
<1>5. /\ c \in BookType /\ c.ok = o /\ c.available = f /\ c.locked = b.locked
      /\ c.accounted = acc /\ c.insurance = ins /\ c.treasury = tre /\ c.tokens = b.tokens
      /\ c.pool = b.pool /\ c.badDebt = b.badDebt /\ c.covered = b.covered
  BY ZenonT(60), <1>1, <1>2, <1>3 DEF BookType
<1>6. ASSUME Backed(b), c.ok
      PROVE  Backed(c) /\ Effect(b, c, a, b.locked[a], (-n))
  <2>1. /\ b.available[a] \in Nat /\ b.locked[a] \in Nat /\ b.pool \in Nat
        /\ b.insurance \in Nat /\ b.treasury \in Nat /\ b.badDebt \in Nat
        /\ b.covered \in Nat /\ b.accounted \in Int /\ b.tokens \in Int
        /\ b.tokens >= Claims(b)
    BY <1>6 DEF Backed, BookType
  <2>2. b.ok /\ b.available[a] >= n
    BY <1>4, <1>5, <1>6
  <2>3. c.accounted = b.accounted + x + 0 /\ Net(c) = Net(b) + (-n)
    BY <1>5, <1>6, <2>1, <2>2 DEF Net, acc, ins, tre
  <2>4. b.available[a] + x >= 0 /\ b.locked[a] + 0 >= 0
    BY <1>5, <1>6, <2>1, <2>2
  <2>5. /\ c.pool \in Nat /\ c.insurance \in Nat /\ c.treasury \in Nat /\ c.badDebt \in Nat
        /\ c.covered \in Nat /\ c.tokens >= Claims(c)
    BY <1>5, <1>6, <2>1, <2>2 DEF Claims, acc, ins, tre
  <2>6. x \in Int /\ (-n) \in Int
    BY <2>1
  <2> HIDE DEF x
  <2>0. [b.locked EXCEPT ![a] = b.locked[a] + 0] = b.locked /\ b.locked[a] + 0 = b.locked[a]
    BY NothingMoves
  <2>7. Moves(b, c, a, x, 0, (-n))
    BY <1>5, <1>6, <2>3, <2>4, <2>5, <2>0 DEF Moves, f
  <2>8. QED
    BY <1>6, <2>6, <2>7, <2>0, VaultCall
<1>7. QED
  BY <1>4, <1>5, <1>6

LEMMA AbsorbWorks ==
  ASSUME NEW b \in BookType, NEW a \in Holders, NEW n \in Int, NEW c,
         c = AbsorbAdlBadDebt(b, n)
  PROVE  /\ c \in BookType /\ (c.ok => b.ok)
         /\ Backed(b) /\ c.ok => Backed(c) /\ Effect(b, c, a, b.locked[a], n)
<1> DEFINE o == b.ok /\ n > 0 /\ n <= b.badDebt
<1> DEFINE bad == b.badDebt - n
<1>1. o \in BOOLEAN
  <2>1. TRUE
    OBVIOUS
  <2>2. QED
    BY <2>1, BalanceMoves
<1>2. bad \in Int
  BY DEF BookType
<1>3. c = [b EXCEPT !.ok = o, !.badDebt = bad]
  BY DEF AbsorbAdlBadDebt, BookType
<1>4. o => b.ok /\ n > 0 /\ n <= b.badDebt
  OBVIOUS
<1> HIDE DEF o, bad
<1>5. /\ c \in BookType /\ c.ok = o /\ c.available = b.available /\ c.locked = b.locked
      /\ c.badDebt = bad /\ c.tokens = b.tokens /\ c.accounted = b.accounted /\ c.pool = b.pool
      /\ c.insurance = b.insurance /\ c.treasury = b.treasury /\ c.covered = b.covered
  BY ZenonT(60), <1>1, <1>2, <1>3 DEF BookType
<1>6. ASSUME Backed(b), c.ok
      PROVE  Backed(c) /\ Effect(b, c, a, b.locked[a], n)
  <2>1. /\ b.available[a] \in Nat /\ b.locked[a] \in Nat /\ b.pool \in Nat
        /\ b.insurance \in Nat /\ b.treasury \in Nat /\ b.badDebt \in Nat
        /\ b.covered \in Nat /\ b.accounted \in Int /\ b.tokens \in Int
        /\ b.tokens >= Claims(b)
    BY <1>6 DEF Backed, BookType
  <2>2. b.ok /\ n > 0 /\ n <= b.badDebt
    BY <1>4, <1>5, <1>6
  <2>3. c.accounted = b.accounted + 0 + 0 /\ Net(c) = Net(b) + n
    BY <1>5, <1>6, <2>1, <2>2 DEF Net, bad
  <2>4. b.available[a] + 0 >= 0 /\ b.locked[a] + 0 >= 0
    BY <1>5, <1>6, <2>1, <2>2
  <2>5. /\ c.pool \in Nat /\ c.insurance \in Nat /\ c.treasury \in Nat /\ c.badDebt \in Nat
        /\ c.covered \in Nat /\ c.tokens >= Claims(c)
    BY <1>5, <1>6, <2>1, <2>2 DEF Claims, bad
  <2>6. n \in Int
    BY <2>1
  <2>0. [b.available EXCEPT ![a] = b.available[a] + 0] = b.available /\ [b.locked EXCEPT ![a] = b.locked[a] + 0] = b.locked /\ b.locked[a] + 0 = b.locked[a]
    BY NothingMoves
  <2>7. Moves(b, c, a, 0, 0, n)
    BY <1>5, <1>6, <2>3, <2>4, <2>5, <2>0 DEF Moves
  <2>8. QED
    BY <1>6, <2>6, <2>7, <2>0, VaultCall
<1>7. QED
  BY <1>4, <1>5, <1>6

(* The least of two or of three numbers. *)
LEMMA LeastOfTwo ==
  ASSUME NEW x \in Int, NEW y \in Int
  PROVE  /\ Min({x, y}) \in {x, y} /\ Min({x, y}) \in Int
         /\ Min({x, y}) <= x /\ Min({x, y}) <= y
<1>1. \E z \in {x, y} : \A w \in {x, y} : z <= w
  BY x <= y \/ y <= x
<1>2. Min({x, y}) \in {x, y} /\ \A w \in {x, y} : Min({x, y}) <= w
  BY <1>1 DEF Min
<1>3. QED
  BY <1>2

LEMMA LeastOfThree ==
  ASSUME NEW x \in Int, NEW y \in Int, NEW z \in Int
  PROVE  /\ Min({x, y, z}) \in {x, y, z} /\ Min({x, y, z}) \in Int
         /\ Min({x, y, z}) <= x /\ Min({x, y, z}) <= y /\ Min({x, y, z}) <= z
<1>1. \E v \in {x, y, z} : \A w \in {x, y, z} : v <= w
  <2>1. \/ x <= y /\ x <= z
        \/ y <= x /\ y <= z
        \/ z <= x /\ z <= y
    OBVIOUS
  <2>2. QED
    BY <2>1
<1>2. Min({x, y, z}) \in {x, y, z} /\ \A w \in {x, y, z} : Min({x, y, z}) <= w
  BY <1>1 DEF Min
<1>3. QED
  BY <1>2

LEMMA CoverWorks ==
  ASSUME NEW b \in BookType, NEW a \in Holders, NEW n \in Nat, NEW max \in Nat, NEW k,
         k = Min({max, n, b.insurance}), NEW c,
         c = CoverBadDebt(b, n, max)
  PROVE  /\ c \in BookType /\ (c.ok => b.ok)
         /\ Backed(b) /\ c.ok => Backed(c) /\ Effect(b, c, a, b.locked[a], (-n))
<1> DEFINE ins == b.insurance - k
<1> DEFINE cov == b.covered + k
<1> DEFINE bad == b.badDebt + n - k
<1>0. k \in Int /\ k <= n /\ k <= b.insurance /\ (b.insurance \in Nat => k \in Nat)
  <2>1. b.insurance \in Int /\ max \in Int /\ n \in Int
    BY DEF BookType
  <2>2. QED
    BY <2>1, LeastOfThree
<1>1. TRUE
  <2>1. TRUE
    BY <1>0
  <2>2. QED
    BY <2>1, BalanceMoves
<1>2. ins \in Int /\ cov \in Int /\ bad \in Int
  BY <1>0 DEF BookType
<1>3. c = [b EXCEPT !.insurance = ins, !.covered = cov, !.badDebt = bad]
  BY DEF CoverBadDebt, BookType
<1> HIDE DEF ins, cov, bad
<1>5. /\ c \in BookType /\ c.ok = b.ok /\ c.available = b.available /\ c.locked = b.locked
      /\ c.insurance = ins /\ c.covered = cov /\ c.badDebt = bad /\ c.tokens = b.tokens
      /\ c.accounted = b.accounted /\ c.pool = b.pool /\ c.treasury = b.treasury
  BY ZenonT(60), <1>1, <1>2, <1>3 DEF BookType
<1>6. ASSUME Backed(b), c.ok
      PROVE  Backed(c) /\ Effect(b, c, a, b.locked[a], (-n))
  <2>1. /\ b.available[a] \in Nat /\ b.locked[a] \in Nat /\ b.pool \in Nat
        /\ b.insurance \in Nat /\ b.treasury \in Nat /\ b.badDebt \in Nat
        /\ b.covered \in Nat /\ b.accounted \in Int /\ b.tokens \in Int
        /\ b.tokens >= Claims(b)
    BY <1>6 DEF Backed, BookType
  <2>3. c.accounted = b.accounted + 0 + 0 /\ Net(c) = Net(b) + (-n)
    BY <1>5, <1>6, <2>1, <1>0 DEF Net, ins, cov, bad
  <2>4. b.available[a] + 0 >= 0 /\ b.locked[a] + 0 >= 0
    BY <1>5, <1>6, <2>1, <1>0
  <2>5. /\ c.pool \in Nat /\ c.insurance \in Nat /\ c.treasury \in Nat /\ c.badDebt \in Nat
        /\ c.covered \in Nat /\ c.tokens >= Claims(c)
    BY <1>5, <1>6, <2>1, <1>0 DEF Claims, ins, cov, bad
  <2>6. (-n) \in Int
    BY <2>1, <1>0
  <2>0. [b.available EXCEPT ![a] = b.available[a] + 0] = b.available /\ [b.locked EXCEPT ![a] = b.locked[a] + 0] = b.locked /\ b.locked[a] + 0 = b.locked[a]
    BY NothingMoves
  <2>7. Moves(b, c, a, 0, 0, (-n))
    BY <1>5, <1>6, <2>3, <2>4, <2>5, <2>0 DEF Moves
  <2>8. QED
    BY <1>6, <2>6, <2>7, <2>0, VaultCall
<1>7. QED
  BY <1>5, <1>6

LEMMA CreditWorks ==
  ASSUME NEW b \in BookType, NEW a \in Holders, NEW n \in Int, n > 0, NEW margin, NEW max, NEW c,
         c = PayLiquidationFunding(b, a, n, margin, max)
  PROVE  /\ c \in BookType /\ (c.ok => b.ok) /\ c.locked[a] = b.locked[a] + n
         /\ Backed(b) /\ c.ok => Backed(c) /\ Effect(b, c, a, b.locked[a] + n, n)
<1> DEFINE o == b.ok /\ b.pool >= n
<1> DEFINE g == [b.locked EXCEPT ![a] = b.locked[a] + n]
<1> DEFINE acc == b.accounted + n
<1> DEFINE poo == b.pool - n
<1>1. o \in BOOLEAN /\ g \in [Holders -> Int]
  <2>1. n \in Int
    OBVIOUS
  <2>2. QED
    BY <2>1, BalanceMoves
<1>2. acc \in Int /\ poo \in Int
  BY DEF BookType
<1>3. c = [b EXCEPT !.ok = o, !.locked = g, !.accounted = acc, !.pool = poo]
  BY DEF PayLiquidationFunding, BookType
<1>4. o => b.ok /\ b.pool >= n
  OBVIOUS
<1> HIDE DEF o, g, acc, poo
<1>5. /\ c \in BookType /\ c.ok = o /\ c.available = b.available /\ c.locked = g
      /\ c.accounted = acc /\ c.pool = poo /\ c.tokens = b.tokens /\ c.insurance = b.insurance
      /\ c.treasury = b.treasury /\ c.badDebt = b.badDebt /\ c.covered = b.covered
  BY ZenonT(60), <1>1, <1>2, <1>3 DEF BookType
<1>6. ASSUME Backed(b), c.ok
      PROVE  Backed(c) /\ Effect(b, c, a, b.locked[a] + n, n)
  <2>1. /\ b.available[a] \in Nat /\ b.locked[a] \in Nat /\ b.pool \in Nat
        /\ b.insurance \in Nat /\ b.treasury \in Nat /\ b.badDebt \in Nat
        /\ b.covered \in Nat /\ b.accounted \in Int /\ b.tokens \in Int
        /\ b.tokens >= Claims(b)
    BY <1>6 DEF Backed, BookType
  <2>2. b.ok /\ b.pool >= n
    BY <1>4, <1>5, <1>6
  <2>3. c.accounted = b.accounted + 0 + n /\ Net(c) = Net(b) + n
    BY <1>5, <1>6, <2>1, <2>2 DEF Net, acc, poo
  <2>4. b.available[a] + 0 >= 0 /\ b.locked[a] + n >= 0
    BY <1>5, <1>6, <2>1, <2>2
  <2>5. /\ c.pool \in Nat /\ c.insurance \in Nat /\ c.treasury \in Nat /\ c.badDebt \in Nat
        /\ c.covered \in Nat /\ c.tokens >= Claims(c)
    BY <1>5, <1>6, <2>1, <2>2 DEF Claims, acc, poo
  <2>6. n \in Int /\ n \in Int
    BY <2>1
  <2>0. [b.available EXCEPT ![a] = b.available[a] + 0] = b.available
    BY NothingMoves
  <2>7. Moves(b, c, a, 0, n, n)
    BY <1>5, <1>6, <2>3, <2>4, <2>5, <2>0 DEF Moves, g
  <2>8. QED
    BY <1>6, <2>6, <2>7, VaultCall
<1>7. c.locked[a] = b.locked[a] + n
  BY <1>5 DEF g, BookType
<1>8. QED
  BY <1>4, <1>5, <1>6, <1>7

\* A debit of -n: p from the margin, q from the available balance, k from insurance.
Debits(b, a, n, margin, max, p, q, k, c) ==
    /\ p = Min({-n, b.locked[a], margin})
    /\ q = Min({-n - p, b.available[a]})
    /\ k = Min({max, -n - p - q, b.insurance})
    /\ c = PayLiquidationFunding(b, a, n, margin, max)

LEMMA DebitWorks ==
  ASSUME NEW b \in BookType, NEW a \in Holders, NEW n \in Int, n <= 0, NEW margin \in Nat, NEW max \in Nat,
         NEW p, NEW q, NEW k, NEW c, Debits(b, a, n, margin, max, p, q, k, c)
  PROVE  /\ c \in BookType /\ c.ok = b.ok
         /\ Backed(b) /\ c.ok => Backed(c) /\ Effect(b, c, a, b.locked[a] + (-p), n)
<1> DEFINE x == -q
<1> DEFINE y == -p
<1> DEFINE f == [b.available EXCEPT ![a] = b.available[a] + x]
<1> DEFINE g == [b.locked EXCEPT ![a] = b.locked[a] + y]
<1> DEFINE acc == b.accounted - p - q
<1> DEFINE poo == b.pool + p + q + k
<1> DEFINE ins == b.insurance - k
<1> DEFINE cov == b.covered + k
<1> DEFINE bad == b.badDebt + (-n - p - q) - k
<1>a. /\ p = Min({-n, b.locked[a], margin}) /\ q = Min({-n - p, b.available[a]})
      /\ k = Min({max, -n - p - q, b.insurance}) /\ c = PayLiquidationFunding(b, a, n, margin, max)
  BY DEF Debits
<1>0. /\ p \in Int /\ q \in Int /\ k \in Int
      /\ p <= -n /\ p <= b.locked[a] /\ p <= margin /\ q <= -n - p /\ q <= b.available[a]
      /\ k <= -n - p - q /\ k <= b.insurance
      /\ b.locked[a] \in Nat => p \in Nat
      /\ b.locked[a] \in Nat /\ b.available[a] \in Nat => q \in Nat
      /\ b.locked[a] \in Nat /\ b.available[a] \in Nat /\ b.insurance \in Nat => k \in Nat
  <2>1. b.locked[a] \in Int /\ b.available[a] \in Int /\ b.insurance \in Int /\ -n \in Int
        /\ margin \in Int /\ max \in Int
    BY DEF BookType
  <2>2. /\ p \in Int /\ p <= -n /\ p <= b.locked[a] /\ p <= margin
        /\ p \in {-n, b.locked[a], margin}
    BY <1>a, <2>1, LeastOfThree
  <2>3. /\ q \in Int /\ q <= -n - p /\ q <= b.available[a] /\ q \in {-n - p, b.available[a]}
    <3>1. -n - p \in Int
      BY <2>1, <2>2
    <3>2. QED
      BY <1>a, <2>1, <3>1, LeastOfTwo
  <2>4. /\ k \in Int /\ k <= -n - p - q /\ k <= b.insurance
        /\ k \in {max, -n - p - q, b.insurance}
    <3>1. -n - p - q \in Int
      BY <2>1, <2>2, <2>3
    <3>2. QED
      BY ZenonT(60), <1>a, <2>1, <3>1, LeastOfThree
  <2>5. QED
    BY <2>1, <2>2, <2>3, <2>4
<1>1. f \in [Holders -> Int] /\ g \in [Holders -> Int]
  <2>1. x \in Int /\ y \in Int
    BY <1>0
  <2> HIDE DEF x, y
  <2>2. QED
    BY <2>1, BalanceMoves
<1>2. acc \in Int /\ poo \in Int /\ ins \in Int /\ cov \in Int /\ bad \in Int
  BY <1>0 DEF BookType
<1>9. c = [b EXCEPT !.locked[a] = @ - p, !.available[a] = @ - q, !.accounted = @ - p - q,
                    !.pool = @ + p + q + k, !.insurance = @ - k, !.covered = @ + k,
                    !.badDebt = @ + (-n - p - q) - k]
  BY <1>a, ~(n > 0) DEF PayLiquidationFunding
<1>3. c = [b EXCEPT !.available = f, !.locked = g, !.accounted = acc, !.pool = poo, !.insurance = ins, !.covered = cov, !.badDebt = bad]
  <2>1. b.available[a] \in Int /\ b.locked[a] \in Int
    BY DEF BookType
  <2>2. [b.available EXCEPT ![a] = @ - q] = f /\ [b.locked EXCEPT ![a] = @ - p] = g
    BY <1>0, <2>1
  <2> HIDE DEF f, g
  <2>3. c = [b EXCEPT !.locked = g, !.available = f, !.accounted = acc, !.pool = poo,
                      !.insurance = ins, !.covered = cov, !.badDebt = bad]
    BY <1>9, <2>2 DEF BookType
  <2> HIDE DEF acc, poo, ins, cov, bad
  <2>4. QED
    BY <2>3 DEF BookType
<1> HIDE DEF f, g, acc, poo, ins, cov, bad
<1>5. /\ c \in BookType /\ c.ok = b.ok /\ c.available = f /\ c.locked = g
      /\ c.accounted = acc /\ c.pool = poo /\ c.insurance = ins /\ c.covered = cov
      /\ c.badDebt = bad /\ c.tokens = b.tokens /\ c.treasury = b.treasury
  BY <1>1, <1>2, <1>3 DEF BookType
<1>6. ASSUME Backed(b), c.ok
      PROVE  Backed(c) /\ Effect(b, c, a, b.locked[a] + (-p), n)
  <2>1. /\ b.available[a] \in Nat /\ b.locked[a] \in Nat /\ b.pool \in Nat
        /\ b.insurance \in Nat /\ b.treasury \in Nat /\ b.badDebt \in Nat
        /\ b.covered \in Nat /\ b.accounted \in Int /\ b.tokens \in Int
        /\ b.tokens >= Claims(b)
    BY <1>6 DEF Backed, BookType
  <2>3. c.accounted = b.accounted + x + y /\ Net(c) = Net(b) + n
    BY <1>5, <1>6, <2>1, <1>0 DEF Net, acc, poo, ins, cov, bad
  <2>4. b.available[a] + x >= 0 /\ b.locked[a] + y >= 0
    BY <1>5, <1>6, <2>1, <1>0
  <2>5. /\ c.pool \in Nat /\ c.insurance \in Nat /\ c.treasury \in Nat /\ c.badDebt \in Nat
        /\ c.covered \in Nat /\ c.tokens >= Claims(c)
    BY <1>5, <1>6, <2>1, <1>0 DEF Claims, acc, poo, ins, cov, bad
  <2>6. x \in Int /\ y \in Int /\ y = (-p) /\ n \in Int
    BY <2>1, <1>0
  <2> HIDE DEF x, y
  <2>7. Moves(b, c, a, x, y, n)
    BY <1>5, <1>6, <2>3, <2>4, <2>5 DEF Moves, f, g
  <2>8. QED
    BY <1>6, <2>6, <2>7, VaultCall
<1>7. QED
  BY <1>5, <1>6

LEMMA ProfitWorks ==
  ASSUME NEW b \in BookType, NEW a \in Holders, NEW n \in Nat, NEW c,
         c = SettlePnL(b, a, n)
  PROVE  /\ c \in BookType /\ (c.ok => b.ok)
         /\ Backed(b) /\ c.ok => Backed(c) /\ Effect(b, c, a, b.locked[a], n)
<1> DEFINE o == b.ok /\ (n > 0 => b.tokens >= Claims(b) + n)
<1> DEFINE x == n
<1> DEFINE f == [b.available EXCEPT ![a] = b.available[a] + x]
<1> DEFINE acc == b.accounted + n
<1>1. o \in BOOLEAN /\ f \in [Holders -> Int]
  <2>1. x \in Int
    OBVIOUS
  <2> HIDE DEF x
  <2>2. QED
    BY <2>1, BalanceMoves
<1>2. acc \in Int
  BY DEF BookType
<1>3. c = [b EXCEPT !.ok = o, !.available = f, !.accounted = acc]
  BY DEF SettlePnL, BookType
<1>4. o => b.ok /\ (n > 0 => b.tokens >= Claims(b) + n)
  OBVIOUS
<1> HIDE DEF o, f, acc
<1>5. /\ c \in BookType /\ c.ok = o /\ c.available = f /\ c.locked = b.locked
      /\ c.accounted = acc /\ c.tokens = b.tokens /\ c.pool = b.pool /\ c.insurance = b.insurance
      /\ c.treasury = b.treasury /\ c.badDebt = b.badDebt /\ c.covered = b.covered
  BY ZenonT(60), <1>1, <1>2, <1>3 DEF BookType
<1>6. ASSUME Backed(b), c.ok
      PROVE  Backed(c) /\ Effect(b, c, a, b.locked[a], n)
  <2>1. /\ b.available[a] \in Nat /\ b.locked[a] \in Nat /\ b.pool \in Nat
        /\ b.insurance \in Nat /\ b.treasury \in Nat /\ b.badDebt \in Nat
        /\ b.covered \in Nat /\ b.accounted \in Int /\ b.tokens \in Int
        /\ b.tokens >= Claims(b)
    BY <1>6 DEF Backed, BookType
  <2>2. b.ok /\ (n > 0 => b.tokens >= Claims(b) + n)
    BY <1>4, <1>5, <1>6
  <2>3. c.accounted = b.accounted + x + 0 /\ Net(c) = Net(b) + n
    BY <1>5, <1>6, <2>1, <2>2 DEF Net, acc
  <2>4. b.available[a] + x >= 0 /\ b.locked[a] + 0 >= 0
    BY <1>5, <1>6, <2>1, <2>2
  <2>5. /\ c.pool \in Nat /\ c.insurance \in Nat /\ c.treasury \in Nat /\ c.badDebt \in Nat
        /\ c.covered \in Nat /\ c.tokens >= Claims(c)
    BY <1>5, <1>6, <2>1, <2>2 DEF Claims, acc
  <2>6. x \in Int /\ n \in Int
    BY <2>1
  <2> HIDE DEF x
  <2>0. [b.locked EXCEPT ![a] = b.locked[a] + 0] = b.locked /\ b.locked[a] + 0 = b.locked[a]
    BY NothingMoves
  <2>7. Moves(b, c, a, x, 0, n)
    BY <1>5, <1>6, <2>3, <2>4, <2>5, <2>0 DEF Moves, f
  <2>8. QED
    BY <1>6, <2>6, <2>7, <2>0, VaultCall
<1>7. QED
  BY <1>4, <1>5, <1>6

LEMMA LossWorks ==
  ASSUME NEW b \in BookType, NEW a \in Holders, NEW n \in Int, n < 0, NEW c,
         c = SettlePnL(b, a, n)
  PROVE  /\ c \in BookType /\ (c.ok => b.ok)
         /\ Backed(b) /\ c.ok => Backed(c) /\ Effect(b, c, a, b.locked[a] + n, n)
<1> DEFINE o == b.ok /\ b.locked[a] >= -n
<1> DEFINE g == [b.locked EXCEPT ![a] = b.locked[a] + n]
<1> DEFINE acc == b.accounted + n
<1>1. o \in BOOLEAN /\ g \in [Holders -> Int]
  <2>1. n \in Int
    OBVIOUS
  <2>2. QED
    BY <2>1, BalanceMoves
<1>2. acc \in Int
  BY DEF BookType
<1>3. c = [b EXCEPT !.ok = o, !.locked = g, !.accounted = acc]
  BY DEF SettlePnL, BookType
<1>4. o => b.ok /\ b.locked[a] >= -n
  OBVIOUS
<1> HIDE DEF o, g, acc
<1>5. /\ c \in BookType /\ c.ok = o /\ c.available = b.available /\ c.locked = g
      /\ c.accounted = acc /\ c.tokens = b.tokens /\ c.pool = b.pool /\ c.insurance = b.insurance
      /\ c.treasury = b.treasury /\ c.badDebt = b.badDebt /\ c.covered = b.covered
  BY ZenonT(60), <1>1, <1>2, <1>3 DEF BookType
<1>6. ASSUME Backed(b), c.ok
      PROVE  Backed(c) /\ Effect(b, c, a, b.locked[a] + n, n)
  <2>1. /\ b.available[a] \in Nat /\ b.locked[a] \in Nat /\ b.pool \in Nat
        /\ b.insurance \in Nat /\ b.treasury \in Nat /\ b.badDebt \in Nat
        /\ b.covered \in Nat /\ b.accounted \in Int /\ b.tokens \in Int
        /\ b.tokens >= Claims(b)
    BY <1>6 DEF Backed, BookType
  <2>2. b.ok /\ b.locked[a] >= -n
    BY <1>4, <1>5, <1>6
  <2>3. c.accounted = b.accounted + 0 + n /\ Net(c) = Net(b) + n
    BY <1>5, <1>6, <2>1, <2>2 DEF Net, acc
  <2>4. b.available[a] + 0 >= 0 /\ b.locked[a] + n >= 0
    BY <1>5, <1>6, <2>1, <2>2
  <2>5. /\ c.pool \in Nat /\ c.insurance \in Nat /\ c.treasury \in Nat /\ c.badDebt \in Nat
        /\ c.covered \in Nat /\ c.tokens >= Claims(c)
    BY <1>5, <1>6, <2>1, <2>2 DEF Claims, acc
  <2>6. n \in Int /\ n \in Int
    BY <2>1
  <2>0. [b.available EXCEPT ![a] = b.available[a] + 0] = b.available
    BY NothingMoves
  <2>7. Moves(b, c, a, 0, n, n)
    BY <1>5, <1>6, <2>3, <2>4, <2>5, <2>0 DEF Moves, g
  <2>8. QED
    BY <1>6, <2>6, <2>7, VaultCall
<1>7. QED
  BY <1>4, <1>5, <1>6

-----------------------------------------------------------------------------
(* PerpEngine: fees, results and settlements.                              *)

RiskType == [fee : 0..Bps, insuranceShare : 0..Bps, coverage : 0..Bps, reduction : 0..Bps,
             minRemaining : Nat, adlCap : 0..Bps, maintenance : 0..Bps, leverage : Nat,
             fundingBound : Nat, orderLimit : Nat, positionLimit : Nat, oiLimit : Nat]
PerpType == [margin : Nat, size : Nat, entry : Nat \ {0}, long : BOOLEAN, funding : Int]

LEMMA MinusNothing == \A n \in Int : n = 0 => -n = 0
<1>1. \A n \in Int : -n = 0 - n
  OBVIOUS
<1>2. \A n \in Int : n = 0 => 0 - n = 0
  OBVIOUS
<1>3. QED
  BY <1>1, <1>2, Zenon

(* A share of n in basis points is at most n. *)
LEMMA ShareAtMost ==
  ASSUME NEW n \in Nat, NEW s \in 0 .. Bps
  PROVE  (n * s) \div Bps \in 0 .. n
<1>1. Bps \in Nat \ {0} /\ s \in Nat /\ s <= Bps
  BY PerpAssumption
<1>2. n * s \in Nat /\ n * Bps \in Nat /\ n * s <= n * Bps
  BY <1>1, MulNat, MulMono
<1> DEFINE x == n * s
<1> DEFINE y == n * Bps
<1>3. y \div Bps = n
  BY <1>1, DivCancel
<1>4. x \in Nat /\ y \in Nat /\ x <= y
  BY <1>2
<1> HIDE DEF x, y
<1>5. x \div Bps \in Nat /\ x \div Bps <= y \div Bps
  BY <1>1, <1>4, DivNat, DivMono
<1>6. QED
  BY <1>3, <1>5 DEF x

(* The part of n that a part s of a whole w takes, rounded down. *)
LEMMA PartAtMost ==
  ASSUME NEW n \in Nat, NEW w \in Nat \ {0}, NEW s \in Nat, s <= w
  PROVE  (n * s) \div w \in 0 .. n /\ (s = w => (n * s) \div w = n)
<1>1. n * s \in Nat /\ n * w \in Nat /\ n * s <= n * w
  BY MulNat, MulMono
<1> DEFINE x == n * s
<1> DEFINE y == n * w
<1>2. y \div w = n
  BY DivCancel
<1>3. x \in Nat /\ y \in Nat /\ x <= y /\ (s = w => x = y)
  BY <1>1
<1> HIDE DEF x, y
<1>4. x \div w \in Nat /\ x \div w <= y \div w
  BY <1>3, DivNat, DivMono
<1>5. QED
  BY <1>2, <1>3, <1>4 DEF x

(* _chargeTradingFee *)
LEMMA ChargeWorks ==
  ASSUME risk \in [PerpMarkets -> RiskType], NEW b \in BookType, NEW a \in Holders,
         NEW m \in PerpMarkets, NEW n \in Nat, NEW c, c = ChargeTradingFee(b, a, m, n)
  PROVE  /\ c \in BookType /\ (c.ok => b.ok) /\ TradingFee(m, n) \in Nat
         /\ Backed(b) /\ c.ok => Backed(c) /\ Effect(b, c, a, b.locked[a], -TradingFee(m, n))
<1> DEFINE fee == TradingFee(m, n)
<1> DEFINE share == (fee * risk[m].insuranceShare) \div Bps
<1>1. risk[m].fee \in 0 .. Bps /\ risk[m].insuranceShare \in 0 .. Bps
  BY DEF RiskType
<1>2. fee \in Nat
  <2>1. (n * risk[m].fee) \div Bps \in 0 .. n
    BY <1>1, ShareAtMost
  <2>2. QED
    BY <2>1 DEF TradingFee
<1> HIDE DEF fee
<1>3. share \in 0 .. fee
  BY <1>1, <1>2, ShareAtMost
<1>4. c = IF fee = 0 THEN b ELSE CollectTradingFee(b, a, fee, share)
  BY DEF ChargeTradingFee, fee
<1> HIDE DEF share
<1>5. CASE fee = 0
  <2>0. fee \in Int
    BY <1>2
  <2>1. c = b /\ -fee = 0
    BY <2>0, <1>4, <1>5, MinusNothing, Zenon
  <2>2. Backed(b) => Effect(b, b, a, b.locked[a], -fee)
    BY <2>1 DEF Effect, Net, Backed, BookType
  <2>3. QED
    BY <1>2, <2>1, <2>2 DEF fee
<1>6. CASE fee # 0
  <2>1. c = CollectTradingFee(b, a, fee, share)
    BY <1>4, <1>6
  <2>2. QED
    BY <1>2, <1>3, <2>1, FeeWorks DEF fee
<1>7. QED
  BY <1>5, <1>6

(* _settle: the margin leaves what is locked, and the account makes pnl. *)
LEMMA SettleWorks ==
  ASSUME risk \in [PerpMarkets -> RiskType], NEW b \in BookType, NEW a \in Holders,
         NEW m \in PerpMarkets, NEW margin \in Nat, NEW pnl \in Int,
         NEW c, c = SettlePosition(b, a, m, margin, pnl)
  PROVE  /\ c \in BookType /\ (c.ok => b.ok)
         /\ Backed(b) /\ c.ok => Backed(c) /\ Effect(b, c, a, b.locked[a] - margin, pnl)
<1> DEFINE deficit == -pnl - margin
<1> DEFINE loss == -margin
<1> DEFINE rest == -deficit
<1>1. deficit \in Int /\ loss \in Int /\ rest \in Int /\ rest = pnl + margin /\ b.locked[a] \in Int
  BY DEF BookType
<1>2. CASE pnl >= 0 /\ margin = 0
  <2>1. c = SettlePnL(b, a, pnl) /\ pnl \in Nat /\ b.locked[a] - margin = b.locked[a]
    BY <1>1, <1>2 DEF SettlePosition
  <2>2. QED
    BY <2>1, ProfitWorks
<1>3. CASE pnl >= 0 /\ margin # 0
  <2> DEFINE d == UnlockCollateral(b, a, margin)
  <2>1. c = SettlePnL(d, a, pnl) /\ pnl \in Nat
    BY <1>3 DEF SettlePosition
  <2>2. /\ d \in BookType /\ (d.ok => b.ok)
        /\ Backed(b) /\ d.ok => Backed(d) /\ Effect(b, d, a, b.locked[a] + (-margin), 0)
    BY UnlockWorks
  <2> HIDE DEF d
  <2>3. /\ c \in BookType /\ (c.ok => d.ok)
        /\ Backed(d) /\ c.ok => Backed(c) /\ Effect(d, c, a, d.locked[a], pnl)
    BY <2>1, <2>2, ProfitWorks
  <2>4. ASSUME Backed(b), c.ok
        PROVE  Effect(b, c, a, b.locked[a] - margin, pnl)
    <3>1. /\ Effect(b, d, a, b.locked[a] + (-margin), 0) /\ Effect(d, c, a, d.locked[a], pnl)
          /\ d.locked[a] \in Int
      BY <2>2, <2>3, <2>4 DEF BookType
    <3>2. b.locked[a] + (-margin) \in Int /\ 0 + pnl = pnl
      BY <1>1
    <3>3. Effect(b, c, a, d.locked[a], 0 + pnl)
      BY <2>2, <2>3, <3>1, <3>2, EffectsAdd
    <3>4. d.locked[a] = b.locked[a] - margin
      BY <1>1, <3>1 DEF Effect
    <3>5. QED
      BY <3>2, <3>3, <3>4
  <2>5. QED
    BY <2>2, <2>3, <2>4
<1>4. CASE pnl < 0 /\ deficit < 0
  <2> DEFINE d == SettlePnL(b, a, pnl)
  <2>1. c = UnlockCollateral(d, a, rest)
    BY <1>4 DEF SettlePosition
  <2>2. /\ d \in BookType /\ (d.ok => b.ok)
        /\ Backed(b) /\ d.ok => Backed(d) /\ Effect(b, d, a, b.locked[a] + pnl, pnl)
    BY <1>4, LossWorks
  <2> HIDE DEF d, rest
  <2>3. /\ c \in BookType /\ (c.ok => d.ok)
        /\ Backed(d) /\ c.ok => Backed(c) /\ Effect(d, c, a, d.locked[a] + (-rest), 0)
    BY <1>1, <2>1, <2>2, UnlockWorks
  <2>4. ASSUME Backed(b), c.ok
        PROVE  Effect(b, c, a, b.locked[a] - margin, pnl)
    <3>1. /\ Effect(b, d, a, b.locked[a] + pnl, pnl) /\ Effect(d, c, a, d.locked[a] + (-rest), 0)
          /\ d.locked[a] \in Int
      BY <2>2, <2>3, <2>4 DEF BookType
    <3>2. b.locked[a] + pnl \in Int /\ pnl + 0 = pnl /\ d.locked[a] + (-rest) \in Int
      BY <1>1, <3>1
    <3>3. Effect(b, c, a, d.locked[a] + (-rest), pnl + 0)
      BY <2>2, <2>3, <3>1, <3>2, EffectsAdd
    <3>4. d.locked[a] + (-rest) = b.locked[a] - margin
      BY <1>1, <3>1 DEF Effect
    <3>5. QED
      BY <3>2, <3>3, <3>4
  <2>5. QED
    BY <2>2, <2>3, <2>4
<1>5. CASE pnl < 0 /\ deficit = 0
  <2>1. c = SettlePnL(b, a, pnl) /\ b.locked[a] - margin = b.locked[a] + pnl
    BY <1>1, <1>5 DEF SettlePosition
  <2>2. QED
    BY <1>5, <2>1, LossWorks
<1>6. CASE pnl < 0 /\ deficit > 0
  <2> DEFINE d == SettlePnL(b, a, loss)
  <2> DEFINE cover == PerpCoverage(m, deficit)
  <2>1. c = CoverBadDebt(d, deficit, cover)
    BY <1>6 DEF SettlePosition
  <2>2. cover \in Nat /\ deficit \in Nat
    <3>1. deficit \in Nat /\ risk[m].coverage \in 0 .. Bps
      BY <1>1, <1>6 DEF RiskType
    <3> HIDE DEF deficit
    <3>2. (deficit * risk[m].coverage) \div Bps \in 0 .. deficit
      BY <3>1, ShareAtMost
    <3>3. QED
      BY <3>1, <3>2 DEF PerpCoverage
  <2>3. /\ d \in BookType /\ (d.ok => b.ok)
        /\ Backed(b) /\ d.ok => Backed(d) /\ Effect(b, d, a, b.locked[a] - margin, loss)
    <3>1. CASE margin = 0
      <4>0. margin \in Int
        OBVIOUS
      <4>1. loss = 0
        BY <3>1, <4>0, MinusNothing, Zenon
      <4>2. b.locked[a] - margin = b.locked[a]
        BY <1>1, <3>1
      <4> HIDE DEF loss
      <4>3. QED
        BY <4>1, <4>2, ProfitWorks
    <3>2. CASE margin # 0
      <4>1. loss < 0 /\ b.locked[a] - margin = b.locked[a] + loss
        BY <1>1, <3>2
      <4> HIDE DEF loss
      <4>2. QED
        BY <1>1, <4>1, LossWorks
    <3>3. QED
      BY <3>1, <3>2
  <2> HIDE DEF d, cover, deficit, loss
  <2>4. /\ c \in BookType /\ (c.ok => d.ok)
        /\ Backed(d) /\ c.ok => Backed(c) /\ Effect(d, c, a, d.locked[a], -deficit)
    BY <2>1, <2>2, <2>3, CoverWorks
  <2>5. ASSUME Backed(b), c.ok
        PROVE  Effect(b, c, a, b.locked[a] - margin, pnl)
    <3>1. /\ Effect(b, d, a, b.locked[a] - margin, loss) /\ Effect(d, c, a, d.locked[a], -deficit)
          /\ d.locked[a] \in Int
      BY <2>3, <2>4, <2>5 DEF BookType
    <3>2. b.locked[a] - margin \in Int /\ loss + (-deficit) = pnl /\ -deficit \in Int
      BY <1>1 DEF loss, deficit
    <3>3. Effect(b, c, a, d.locked[a], loss + (-deficit))
      BY <1>1, <2>3, <2>4, <3>1, <3>2, EffectsAdd
    <3>4. d.locked[a] = b.locked[a] - margin
      BY <3>1 DEF Effect
    <3>5. QED
      BY <3>2, <3>3, <3>4
  <2>6. QED
    BY <2>3, <2>4, <2>5
<1>7. QED
  BY <1>1, <1>2, <1>3, <1>4, <1>5, <1>6

-----------------------------------------------------------------------------
(* PerpEngine: the inductive invariant.                                    *)

EngineTypes ==
    /\ due \in Int
    /\ positions \in [Holders -> [PerpMarkets -> PerpType]]
    /\ interest \in [PerpMarkets -> Int] /\ index \in [PerpMarkets -> Int]
    /\ oracle \in [PerpMarkets -> Nat] /\ risk \in [PerpMarkets -> RiskType]

\* A closed position keeps no margin: what is opened again is all there is.
ClosedIsEmpty ==
    \A a \in Holders, m \in PerpMarkets :
        positions[a][m].size = 0 => positions[a][m].margin = 0

EngineInv ==
    /\ EngineTypes /\ ClosedIsEmpty /\ BooksFollowPositions
    /\ Backed(books) /\ Net(books) = due

LEMMA MarketsTotal ==
  ASSUME NEW f \in [PerpMarkets -> Nat], NEW m \in PerpMarkets, NEW v \in Nat
  PROVE  TotalOf([f EXCEPT ![m] = v]) = TotalOf(f) - f[m] + v /\ TotalOf(f) \in Nat
<1>1. IsFiniteSet(PerpMarkets)
  BY SMTT(40), PerpAssumption
<1>2. QED
  BY <1>1, TotalOfUpdate, TotalIsNat

\* a's position in m becomes p, and the open interest follows.
BooksBecome(a, m, p) ==
    /\ positions' = [positions EXCEPT ![a][m] = p]
    /\ interest' = [interest EXCEPT ![m] = interest[m] - positions[a][m].size + p.size]
    /\ UNCHANGED <<index, oracle, risk>>

(* The sums of the margins of an account and of the sizes in a market. *)
LEMMA SumsFollow ==
  ASSUME EngineTypes, NEW a \in Holders, NEW m \in PerpMarkets, NEW p \in PerpType, BooksBecome(a, m, p)
  PROVE  /\ positions' \in [Holders -> [PerpMarkets -> PerpType]]
         /\ positions'[a][m] = p
         /\ \A h \in Holders, k \in PerpMarkets : h # a \/ k # m => positions'[h][k] = positions[h][k]
         /\ TotalOf([k \in PerpMarkets |-> positions'[a][k].margin])
              = TotalOf([k \in PerpMarkets |-> positions[a][k].margin]) - positions[a][m].margin + p.margin
         /\ TotalOf([h \in Holders |-> positions'[h][m].size])
              = TotalOf([h \in Holders |-> positions[h][m].size]) - positions[a][m].size + p.size
         /\ TotalOf([k \in PerpMarkets |-> positions[a][k].margin]) \in Nat
         /\ TotalOf([h \in Holders |-> positions[h][m].size]) \in Nat
<1>1. /\ positions \in [Holders -> [PerpMarkets -> PerpType]]
      /\ positions' = [positions EXCEPT ![a][m] = p]
  BY DEF EngineTypes, BooksBecome
<1>2. /\ positions' \in [Holders -> [PerpMarkets -> PerpType]]
      /\ positions'[a][m] = p
      /\ \A h \in Holders, k \in PerpMarkets : h # a \/ k # m => positions'[h][k] = positions[h][k]
  BY <1>1
<1>3. \A h \in Holders, k \in PerpMarkets :
        positions[h][k].margin \in Nat /\ positions[h][k].size \in Nat
  BY <1>1 DEF PerpType
<1>4. p.margin \in Nat /\ p.size \in Nat
  BY DEF PerpType
<1> DEFINE f == [k \in PerpMarkets |-> positions[a][k].margin]
<1> DEFINE g == [h \in Holders |-> positions[h][m].size]
<1>5. f \in [PerpMarkets -> Nat] /\ g \in [Holders -> Nat]
      /\ f[m] = positions[a][m].margin /\ g[a] = positions[a][m].size
  BY <1>3
<1>6. [k \in PerpMarkets |-> positions'[a][k].margin] = [f EXCEPT ![m] = p.margin]
  BY <1>2
<1>7. [h \in Holders |-> positions'[h][m].size] = [g EXCEPT ![a] = p.size]
  BY <1>2
<1> HIDE DEF f, g
<1>8. TotalOf([f EXCEPT ![m] = p.margin]) = TotalOf(f) - f[m] + p.margin /\ TotalOf(f) \in Nat
  BY <1>4, <1>5, MarketsTotal
<1>9. TotalOf([g EXCEPT ![a] = p.size]) = TotalOf(g) - g[a] + p.size /\ TotalOf(g) \in Nat
  BY <1>4, <1>5, HoldersTotal
<1>10. QED
  BY <1>2, <1>5, <1>6, <1>7, <1>8, <1>9 DEF f, g

(* A step on one position, with the vault told of the same change. *)
LEMMA PositionMove ==
  ASSUME EngineInv, NEW a \in Holders, NEW m \in PerpMarkets, NEW p \in PerpType,
         p.size = 0 => p.margin = 0, BooksBecome(a, m, p), NEW net \in Int, due' = due + net,
         Backed(books'),
         Effect(books, books', a, books.locked[a] - positions[a][m].margin + p.margin, net)
  PROVE  EngineInv'
<1>1. EngineTypes /\ ClosedIsEmpty /\ BooksFollowPositions /\ Backed(books) /\ Net(books) = due
  BY DEF EngineInv
<1>2. /\ positions' \in [Holders -> [PerpMarkets -> PerpType]]
      /\ positions'[a][m] = p
      /\ \A h \in Holders, k \in PerpMarkets : h # a \/ k # m => positions'[h][k] = positions[h][k]
  BY ZenonT(60), <1>1, SumsFollow
<1>3. EngineTypes'
  <2>1. positions[a][m].size \in Int /\ p.size \in Int /\ interest[m] \in Int
    BY <1>1 DEF EngineTypes, PerpType
  <2>2. interest' \in [PerpMarkets -> Int] /\ UNCHANGED <<index, oracle, risk>>
    BY <1>1, <2>1 DEF EngineTypes, BooksBecome
  <2>3. due' \in Int
    BY <1>1 DEF EngineTypes
  <2>4. QED
    BY <1>1, <1>2, <2>2, <2>3 DEF EngineTypes
<1>4. ClosedIsEmpty'
  BY <1>1, <1>2 DEF ClosedIsEmpty
<1>5. ASSUME NEW h \in Holders
      PROVE  books'.locked[h] = TotalOf([k \in PerpMarkets |-> positions'[h][k].margin])
  <2>1. books.locked[h] = TotalOf([k \in PerpMarkets |-> positions[h][k].margin])
    BY <1>1 DEF BooksFollowPositions
  <2>2. CASE h = a
    <3>1. TotalOf([k \in PerpMarkets |-> positions'[a][k].margin])
            = TotalOf([k \in PerpMarkets |-> positions[a][k].margin]) - positions[a][m].margin + p.margin
      BY ZenonT(60), <1>1, SumsFollow
    <3>2. books'.locked[a] = books.locked[a] - positions[a][m].margin + p.margin
      BY DEF Effect
    <3>3. books.locked[a] = TotalOf([k \in PerpMarkets |-> positions[a][k].margin])
      BY <2>1, <2>2
    <3>4. QED
      BY <2>2, <3>1, <3>2, <3>3
  <2>3. CASE h # a
    <3>1. [k \in PerpMarkets |-> positions'[h][k].margin] = [k \in PerpMarkets |-> positions[h][k].margin]
      BY <1>2, <2>3
    <3>2. books'.locked[h] = books.locked[h]
      BY <2>3 DEF Effect
    <3>3. QED
      BY <2>1, <3>1, <3>2
  <2>4. QED
    BY <2>2, <2>3
<1>6. ASSUME NEW k \in PerpMarkets
      PROVE  interest'[k] = TotalOf([h \in Holders |-> positions'[h][k].size])
  <2>1. interest[k] = TotalOf([h \in Holders |-> positions[h][k].size])
    BY <1>1 DEF BooksFollowPositions
  <2>2. CASE k = m
    <3>1. TotalOf([h \in Holders |-> positions'[h][m].size])
            = TotalOf([h \in Holders |-> positions[h][m].size]) - positions[a][m].size + p.size
      BY <1>1, SumsFollow
    <3>2. interest'[m] = interest[m] - positions[a][m].size + p.size
      BY <1>1 DEF EngineTypes, BooksBecome
    <3>3. QED
      BY <2>1, <2>2, <3>1, <3>2
  <2>3. CASE k # m
    <3>1. [h \in Holders |-> positions'[h][k].size] = [h \in Holders |-> positions[h][k].size]
      BY <1>2, <2>3
    <3>2. interest'[k] = interest[k]
      BY <1>1, <2>3 DEF BooksBecome, EngineTypes
    <3>3. QED
      BY <2>1, <3>1, <3>2
  <2>4. QED
    BY <2>2, <2>3
<1>7. BooksFollowPositions'
  BY <1>5, <1>6 DEF BooksFollowPositions
<1>8. Net(books') = due'
  BY <1>1 DEF Effect
<1>9. QED
  BY <1>3, <1>4, <1>7, <1>8 DEF EngineInv, Backed, Net

(* The same, for a change of the open interest by n. *)
LEMMA PositionChange ==
  ASSUME EngineInv, NEW a \in Holders, NEW m \in PerpMarkets, NEW p \in PerpType,
         p.size = 0 => p.margin = 0, positions' = [positions EXCEPT ![a][m] = p],
         NEW n \in Int, interest' = [interest EXCEPT ![m] = interest[m] + n],
         p.size = positions[a][m].size + n, UNCHANGED <<index, oracle, risk>>,
         NEW net \in Int, due' = due + net, NEW lk \in Int,
         lk = books.locked[a] - positions[a][m].margin + p.margin,
         Backed(books'), Effect(books, books', a, lk, net)
  PROVE  EngineInv'
<1>1. interest[m] \in Int /\ positions[a][m].size \in Int /\ p.size \in Int
  BY DEF EngineInv, EngineTypes, PerpType
<1>2. interest[m] + n = interest[m] - positions[a][m].size + p.size
  BY <1>1
<1>3. BooksBecome(a, m, p)
  BY <1>2 DEF BooksBecome
<1>4. QED
  BY <1>3, PositionMove

(* The products and quotients of the engine are integers. *)
LEMMA PaymentIsInt ==
  ASSUME EngineTypes, NEW a \in Holders, NEW m \in PerpMarkets
  PROVE  FundingPayment(a, m) \in Int
<1> DEFINE s == positions[a][m].size
<1> DEFINE change == Magnitude(index[m] - positions[a][m].funding)
<1>1. s \in Nat /\ change \in Nat
  BY DEF EngineTypes, PerpType, Magnitude
<1> DEFINE x == s * change
<1> HIDE DEF s, change
<1>2. x \in Nat
  BY <1>1, MulNat
<1>3. FundingRay \in Nat \ {0}
  BY PerpAssumption
<1> HIDE DEF x
<1>4. x \div FundingRay \in Nat
  BY <1>2, <1>3, DivNat
<1> DEFINE y == x \div FundingRay
<1>5. FundingPayment(a, m) \in {0, y, -y}
  BY DEF FundingPayment, x, s, change
<1> HIDE DEF y
<1>6. y \in Nat
  BY <1>4 DEF y
<1>7. QED
  BY <1>5, <1>6

LEMMA PnlIsInt ==
  ASSUME NEW p \in PerpType, NEW size \in Nat, NEW price \in Nat
  PROVE  PerpPnl(p, size, price) \in Int
<1> DEFINE n == (IF p.long THEN price - p.entry ELSE p.entry - price) * size
<1>1. p.entry \in Nat \ {0} /\ p.long \in BOOLEAN
  BY DEF PerpType
<1>2. n \in Int
  <2>1. price - p.entry \in Int /\ p.entry - price \in Int
    BY <1>1
  <2>2. CASE p.long
    BY <2>1, <2>2
  <2>3. CASE ~p.long
    BY <2>1, <2>3
  <2>4. QED
    BY <1>1, <2>2, <2>3
<1>3. PerpPnl(p, size, price) = Truncated(n, p.entry)
  BY DEF PerpPnl
<1> HIDE DEF n
<1>4. CASE n < 0
  <2>1. -n \in Nat
    BY <1>2, <1>4
  <2>2. (-n) \div p.entry \in Nat
    BY <1>1, <2>1, DivNat
  <2>3. QED
    BY <1>3, <1>4, <2>2 DEF Truncated
<1>5. CASE ~(n < 0)
  <2>1. n \in Nat
    BY <1>2, <1>5
  <2>2. n \div p.entry \in Nat
    BY <1>1, <2>1, DivNat
  <2>3. QED
    BY <1>3, <1>5, <2>2 DEF Truncated
<1>6. QED
  BY <1>4, <1>5

(* A step that touches neither books nor positions. *)
LEMMA QuietKeeps ==
  ASSUME EngineInv, UNCHANGED <<books, positions, interest, due>>,
         index' \in [PerpMarkets -> Int], oracle' \in [PerpMarkets -> Nat],
         risk' \in [PerpMarkets -> RiskType]
  PROVE  EngineInv'
BY DEF EngineInv, EngineTypes, ClosedIsEmpty, BooksFollowPositions, Backed, Net, BookType, Claims

LEMMA OpenKeeps ==
  ASSUME EngineInv, NEW a \in Holders, NEW m \in PerpMarkets, NEW margin \in Margins,
         NEW size \in PerpSizes, NEW long \in BOOLEAN, OpenPerp(a, m, margin, size, long)
  PROVE  EngineInv'
<1> DEFINE b == LockCollateral(books, a, margin)
<1> DEFINE c == ChargeTradingFee(b, a, m, size)
<1> DEFINE p == [margin |-> margin, size |-> size, entry |-> oracle[m], long |-> long,
                 funding |-> index[m]]
<1> DEFINE lk == books.locked[a] + margin
<1> DEFINE fee == TradingFee(m, size)
<1>1. /\ margin \in Nat \ {0} /\ size \in Nat \ {0}
      /\ positions[a][m].size = 0 /\ oracle[m] > 0 /\ c.ok /\ books' = c
      /\ positions' = [positions EXCEPT ![a][m] = p]
      /\ interest' = [interest EXCEPT ![m] = interest[m] + size]
      /\ due' = due - fee /\ UNCHANGED <<index, risk, oracle>>
  BY PerpAssumption DEF OpenPerp
<1>2. /\ EngineTypes /\ ClosedIsEmpty /\ Backed(books) /\ books \in BookType
      /\ risk \in [PerpMarkets -> RiskType]
  BY DEF EngineInv, EngineTypes, Backed
<1>3. p \in PerpType /\ p.size = size /\ p.margin = margin
  BY <1>1, <1>2 DEF PerpType, EngineTypes
<1> HIDE DEF p, b, c, fee
<1>4. /\ b \in BookType /\ (b.ok => books.ok)
      /\ b.ok => Backed(b) /\ Effect(books, b, a, lk, 0)
  BY <1>1, <1>2, LockWorks DEF b
<1>5. /\ c \in BookType /\ (c.ok => b.ok) /\ fee \in Nat
      /\ Backed(b) /\ c.ok => Backed(c) /\ Effect(b, c, a, b.locked[a], -fee)
  BY <1>1, <1>2, <1>4, ChargeWorks DEF c, fee
<1>6. Backed(c) /\ Effect(books, b, a, lk, 0) /\ Effect(b, c, a, b.locked[a], -fee)
  BY <1>1, <1>4, <1>5
<1>7. Effect(books, c, a, lk, -fee)
  <2>1. -fee \in Int
    BY <1>5
  <2>2. QED
    BY <1>2, <1>4, <1>5, <1>6, <2>1 DEF Effect, Net, BookType
<1>8. positions[a][m].margin = 0 /\ positions[a][m].size = 0
  BY <1>1, <1>2 DEF ClosedIsEmpty
<1>9. /\ lk \in Int /\ lk = books.locked[a] - positions[a][m].margin + p.margin
      /\ p.size = positions[a][m].size + size /\ -fee \in Int /\ due' = due + (-fee)
      /\ (p.size = 0 => p.margin = 0) /\ size \in Int
  BY SMTT(40), <1>1, <1>2, <1>3, <1>5, <1>8 DEF BookType, EngineTypes
<1> HIDE DEF lk
<1>10. QED
  BY <1>1, <1>3, <1>6, <1>7, <1>9, PositionChange

LEMMA SettleKeeps ==
  ASSUME EngineInv, NEW a \in Holders, NEW m \in PerpMarkets, SettlePerpFunding(a, m)
  PROVE  EngineInv'
<1> DEFINE payment == FundingPayment(a, m)
<1> DEFINE c == PayFunding(books, a, payment)
<1> DEFINE p == [positions[a][m] EXCEPT !.funding = index[m]]
<1> DEFINE lk == books.locked[a]
<1> DEFINE none == 0
<1>1. /\ positions[a][m].size > 0 /\ c.ok /\ books' = c
      /\ positions' = [positions EXCEPT ![a][m].funding = index[m]]
      /\ due' = due + payment /\ UNCHANGED <<interest, index, risk, oracle>>
  BY DEF SettlePerpFunding
<1>2. EngineTypes /\ Backed(books) /\ books \in BookType
  BY DEF EngineInv, Backed
<1>3. positions \in [Holders -> [PerpMarkets -> PerpType]] /\ index[m] \in Int
  BY <1>2 DEF EngineTypes
<1>4. p \in PerpType /\ p.size = positions[a][m].size /\ p.margin = positions[a][m].margin
  BY SMTT(40), <1>3 DEF PerpType
<1>5. positions' = [positions EXCEPT ![a][m] = p]
  BY <1>1, <1>3
<1>6. payment \in Int
  BY <1>2, PaymentIsInt
<1> HIDE DEF p, c, payment
<1>7. Backed(c) /\ Effect(books, c, a, lk, payment)
  BY <1>1, <1>2, <1>6, FundingWorks DEF c
<1>8. positions[a][m].size \in Nat /\ positions[a][m].margin \in Nat /\ interest \in [PerpMarkets -> Int]
  BY <1>3, <1>2 DEF PerpType, EngineTypes
<1>9. interest' = [interest EXCEPT ![m] = interest[m] + none]
  <2>1. interest[m] + 0 = interest[m] /\ interest = [interest EXCEPT ![m] = interest[m]]
    BY <1>8
  <2>2. QED
    BY <1>1, <2>1
<1>10. /\ lk \in Int /\ lk = books.locked[a] - positions[a][m].margin + p.margin
       /\ p.size = positions[a][m].size + none /\ none \in Int /\ (p.size = 0 => p.margin = 0)
  BY <1>1, <1>2, <1>4, <1>8 DEF BookType
<1> HIDE DEF lk, none
<1>11. QED
  BY <1>1, <1>4, <1>5, <1>6, <1>7, <1>9, <1>10, PositionChange

(* Margin is paid in or out: x to the available balance, net to the account. *)
LEMMA VaultKeeps ==
  ASSUME EngineInv, NEW a \in Holders, NEW x \in Int, Moves(books, books', a, x, 0, x),
         due' = due + x, UNCHANGED <<positions, interest, index, risk, oracle>>
  PROVE  EngineInv'
<1>1. EngineTypes /\ ClosedIsEmpty /\ BooksFollowPositions /\ Backed(books) /\ Net(books) = due
  BY DEF EngineInv
<1>2. books.locked \in [Holders -> Int] /\ due \in Int
  BY <1>1 DEF Backed, EngineTypes
<1>3. books'.locked = books.locked
  <2>1. books.locked[a] + 0 = books.locked[a]
    BY <1>2
  <2>2. books'.locked = [books.locked EXCEPT ![a] = books.locked[a] + 0]
    BY DEF Moves
  <2>3. QED
    BY <1>2, <2>1, <2>2
<1>4. Backed(books') /\ Effect(books, books', a, books.locked[a] + 0, x)
  <2>1. 0 \in Int
    OBVIOUS
  <2>2. QED
    BY <1>1, <2>1, VaultCall
<1>5. Net(books') = due' /\ due' \in Int
  BY <1>1, <1>2, <1>4 DEF Effect
<1>6. EngineTypes' /\ ClosedIsEmpty' /\ BooksFollowPositions'
  BY <1>1, <1>3, <1>5 DEF EngineTypes, ClosedIsEmpty, BooksFollowPositions
<1>7. QED
  BY <1>4, <1>5, <1>6 DEF EngineInv, Backed, Net

LEMMA DepositKeeps ==
  ASSUME EngineInv, NEW a \in Holders, NEW n \in Amounts, DepositCollateral(a, n)
  PROVE  EngineInv'
<1> DEFINE f == [books.available EXCEPT ![a] = books.available[a] + n]
<1> DEFINE tok == books.tokens + n
<1> DEFINE acc == books.accounted + n
<1>1. n \in Nat \ {0}
  BY PerpAssumption
<1>2. Backed(books) /\ books \in BookType
  BY DEF EngineInv, Backed
<1>3. f \in [Holders -> Int]
  BY <1>1, <1>2, BalanceMoves
<1>4. /\ books' = [books EXCEPT !.tokens = tok, !.available = f,
                                !.accounted = acc]
      /\ due' = due + n /\ UNCHANGED <<positions, interest, index, risk, oracle>>
  BY DEF DepositCollateral
<1>0. tok \in Int /\ acc \in Int
  BY <1>1, <1>2 DEF BookType
<1> HIDE DEF f, tok, acc
<1>5. /\ books' \in BookType /\ books'.ok = books.ok /\ books'.available = f
      /\ books'.locked = books.locked /\ books'.tokens = tok
      /\ books'.accounted = acc /\ books'.pool = books.pool
      /\ books'.insurance = books.insurance /\ books'.treasury = books.treasury
      /\ books'.badDebt = books.badDebt /\ books'.covered = books.covered
  BY <1>0, <1>2, <1>3, <1>4 DEF BookType
<1>6. books.available[a] \in Nat /\ books.locked[a] \in Nat /\ books.locked \in [Holders -> Nat]
  BY <1>2 DEF Backed
<1>7. books.locked = [books.locked EXCEPT ![a] = books.locked[a] + 0]
  BY <1>6
<1>8. books'.tokens >= Claims(books') /\ Net(books') = Net(books) + n
  BY <1>1, <1>2, <1>5 DEF Backed, Claims, Net, BookType, tok, acc
<1>9. Moves(books, books', a, n, 0, n)
  BY <1>1, <1>2, <1>5, <1>6, <1>7, <1>8 DEF Moves, Backed, BookType, f, acc
<1>10. QED
  BY <1>1, <1>4, <1>9, VaultKeeps

LEMMA WithdrawKeeps ==
  ASSUME EngineInv, NEW a \in Holders, NEW n \in Amounts, WithdrawCollateral(a, n)
  PROVE  EngineInv'
<1> DEFINE x == -n
<1> DEFINE f == [books.available EXCEPT ![a] = books.available[a] + x]
<1> DEFINE tok == books.tokens - n
<1> DEFINE acc == books.accounted - n
<1>1. n \in Nat \ {0} /\ x \in Int
  BY PerpAssumption
<1>2. Backed(books) /\ books \in BookType
  BY DEF EngineInv, Backed
<1>3. f \in [Holders -> Int] /\ f = [books.available EXCEPT ![a] = books.available[a] - n]
  <2>1. books.available[a] + x = books.available[a] - n
    BY <1>1, <1>2 DEF BookType
  <2> HIDE DEF x
  <2>2. QED
    BY <1>1, <1>2, <2>1, BalanceMoves
<1>4. /\ books' = [books EXCEPT !.tokens = tok, !.available = f,
                                !.accounted = acc]
      /\ books.available[a] >= n /\ due' = due - n
      /\ UNCHANGED <<positions, interest, index, risk, oracle>>
  BY <1>3 DEF WithdrawCollateral
<1>0. tok \in Int /\ acc \in Int
  BY <1>1, <1>2 DEF BookType
<1> HIDE DEF f, tok, acc
<1>5. /\ books' \in BookType /\ books'.ok = books.ok /\ books'.available = f
      /\ books'.locked = books.locked /\ books'.tokens = tok
      /\ books'.accounted = acc /\ books'.pool = books.pool
      /\ books'.insurance = books.insurance /\ books'.treasury = books.treasury
      /\ books'.badDebt = books.badDebt /\ books'.covered = books.covered
  BY <1>0, <1>2, <1>3, <1>4 DEF BookType
<1>6. books.available[a] \in Nat /\ books.locked[a] \in Nat /\ books.locked \in [Holders -> Nat]
  BY <1>2 DEF Backed
<1>7. books.locked = [books.locked EXCEPT ![a] = books.locked[a] + 0]
  BY <1>6
<1>8. books'.tokens >= Claims(books') /\ Net(books') = Net(books) + x
  BY <1>1, <1>2, <1>5 DEF Backed, Claims, Net, BookType, tok, acc
<1>9. Moves(books, books', a, x, 0, x)
  <2>1. /\ books.available[a] + x >= 0 /\ books.locked[a] + 0 >= 0
        /\ books'.accounted = books.accounted + x + 0
    BY <1>1, <1>2, <1>4, <1>5, <1>6 DEF BookType, acc
  <2> HIDE DEF x
  <2>2. QED
    BY <1>2, <1>5, <1>7, <1>8, <2>1 DEF Moves, Backed, f
<1>10. due' = due + x
  BY <1>1, <1>4 DEF EngineInv, EngineTypes
<1> HIDE DEF x
<1>11. QED
  BY <1>1, <1>4, <1>9, <1>10, VaultKeeps

LEMMA EndowKeeps == ASSUME EngineInv, NEW n \in Amounts, Endow(n) PROVE EngineInv'
<1>1. n \in Nat /\ books' = [books EXCEPT !.tokens = books.tokens + n]
      /\ UNCHANGED <<positions, interest, index, risk, oracle, due>>
  BY PerpAssumption DEF Endow
<1>2. EngineTypes /\ ClosedIsEmpty /\ BooksFollowPositions /\ Backed(books) /\ Net(books) = due
  BY DEF EngineInv
<1>3. books \in BookType
  BY <1>2 DEF Backed
<1>4. /\ books' \in BookType /\ books'.tokens = books.tokens + n /\ books'.ok = books.ok
      /\ books'.accounted = books.accounted /\ books'.pool = books.pool
      /\ books'.insurance = books.insurance /\ books'.treasury = books.treasury
      /\ books'.badDebt = books.badDebt /\ books'.covered = books.covered
      /\ books'.available = books.available /\ books'.locked = books.locked
  BY <1>1, <1>3 DEF BookType
<1>5. Backed(books')
  BY <1>1, <1>2, <1>3, <1>4 DEF Backed, BookType, Claims
<1>6. Net(books') = due'
  BY <1>1, <1>2, <1>4 DEF Net
<1>7. EngineTypes' /\ ClosedIsEmpty' /\ BooksFollowPositions'
  BY <1>1, <1>2, <1>4 DEF EngineTypes, ClosedIsEmpty, BooksFollowPositions
<1>8. QED
  BY <1>5, <1>6, <1>7 DEF EngineInv, Backed, Net

LEMMA RemainderIs ==
  ASSUME EngineTypes, NEW m \in PerpMarkets, NEW p \in PerpType, NEW size \in Nat, NEW margin \in Nat,
         size = 0 => margin = 0, NEW r, r = Remainder(p, size, margin, m)
  PROVE  r \in PerpType /\ r.size = size /\ r.margin = margin /\ (r.size = 0 => r.margin = 0)
<1>1. index[m] \in Int
  BY DEF EngineTypes
<1>2. CASE size = 0
  BY <1>2 DEF Remainder, NoPerp, PerpType
<1>3. CASE size # 0
  BY <1>1, <1>3 DEF Remainder, PerpType
<1>4. QED
  BY <1>2, <1>3

LEMMA ReduceKeeps ==
  ASSUME EngineInv, NEW a \in Holders, NEW m \in PerpMarkets, NEW size \in Cuts, ReducePerp(a, m, size)
  PROVE  EngineInv'
<1> DEFINE p == positions[a][m]
<1> DEFINE payment == FundingPayment(a, m)
<1> DEFINE released == (p.margin * size) \div p.size
<1> DEFINE pnl == PerpPnl(p, size, oracle[m])
<1> DEFINE fee == TradingFee(m, size)
<1> DEFINE b == PayFunding(books, a, payment)
<1> DEFINE s == SettlePosition(b, a, m, released, pnl)
<1> DEFINE c == ChargeTradingFee(s, a, m, size)
<1> DEFINE r == Remainder(p, p.size - size, p.margin - released, m)
<1> DEFINE lk == books.locked[a] - released
<1> DEFINE net == payment + pnl - fee
<1> DEFINE n == -size
<1>1. /\ p.size >= size /\ c.ok /\ books' = c
      /\ positions' = [positions EXCEPT ![a][m] = r]
      /\ interest' = [interest EXCEPT ![m] = interest[m] - size]
      /\ due' = due + payment + pnl - fee /\ UNCHANGED <<index, risk, oracle>>
  BY DEF ReducePerp
<1>2. /\ EngineTypes /\ Backed(books) /\ books \in BookType /\ p \in PerpType /\ oracle[m] \in Nat
      /\ risk \in [PerpMarkets -> RiskType] /\ interest[m] \in Int /\ due \in Int
  BY SMTT(40) DEF EngineInv, EngineTypes, Backed
<1>3. size \in Nat \ {0} /\ p.size \in Nat \ {0} /\ p.margin \in Nat
  BY <1>1, <1>2, PerpAssumption DEF PerpType
<1> HIDE DEF p
<1>4. released \in 0 .. p.margin /\ (size = p.size => released = p.margin)
  BY <1>1, <1>3, PartAtMost
<1>5. payment \in Int /\ pnl \in Int
  BY <1>2, <1>3, PaymentIsInt, PnlIsInt
<1> HIDE DEF payment, released, pnl, fee, b, s, c, r
<1>6. /\ r \in PerpType /\ r.size = p.size - size /\ r.margin = p.margin - released
      /\ (r.size = 0 => r.margin = 0)
  <2>1. p.size - size \in Nat /\ p.margin - released \in Nat
        /\ (p.size - size = 0 => p.margin - released = 0)
    BY <1>1, <1>3, <1>4
  <2>2. QED
    BY SMTT(40), <1>2, <2>1, RemainderIs DEF r
<1>7. /\ b \in BookType /\ (b.ok => books.ok)
      /\ b.ok => Backed(b) /\ Effect(books, b, a, books.locked[a], payment)
  BY <1>2, <1>5, FundingWorks DEF b
<1>8. /\ s \in BookType /\ (s.ok => b.ok)
      /\ Backed(b) /\ s.ok => Backed(s) /\ Effect(b, s, a, b.locked[a] - released, pnl)
  <2>1. released \in Nat
    BY <1>3, <1>4
  <2>2. QED
    BY <1>2, <1>5, <1>7, <2>1, SettleWorks DEF s
<1>9. /\ c \in BookType /\ (c.ok => s.ok) /\ fee \in Nat
      /\ Backed(s) /\ c.ok => Backed(c) /\ Effect(s, c, a, s.locked[a], -fee)
  BY <1>2, <1>3, <1>8, ChargeWorks DEF c, fee
<1>10. /\ Backed(c) /\ Effect(books, b, a, books.locked[a], payment)
       /\ Effect(b, s, a, b.locked[a] - released, pnl) /\ Effect(s, c, a, s.locked[a], -fee)
  BY <1>1, <1>7, <1>8, <1>9
<1>11. Effect(books, c, a, lk, net) /\ net \in Int
  BY <1>2, <1>3, <1>4, <1>5, <1>7, <1>8, <1>9, <1>10 DEF Effect, Net, BookType
<1>12. /\ n \in Int /\ interest[m] + n = interest[m] - size /\ due' = due + net
       /\ lk \in Int /\ lk = books.locked[a] - p.margin + r.margin /\ r.size = p.size + n
  BY <1>1, <1>2, <1>3, <1>4, <1>5, <1>6, <1>9 DEF BookType
<1> HIDE DEF lk, net, n
<1>13. interest' = [interest EXCEPT ![m] = interest[m] + n]
  BY <1>1, <1>12
<1>14. QED
  BY <1>1, <1>6, <1>10, <1>11, <1>12, <1>13, PositionChange DEF p

LEMMA AdlKeeps ==
  ASSUME EngineInv, NEW a \in Holders, NEW m \in PerpMarkets, NEW size \in Cuts, ExecuteAdl(a, m, size)
  PROVE  EngineInv'
<1> DEFINE p == positions[a][m]
<1> DEFINE profit == PerpPnl(p, size, oracle[m])
<1> DEFINE absorbed == Min({profit, books.badDebt})
<1> DEFINE released == (p.margin * size) \div p.size
<1> DEFINE b == UnlockCollateral(books, a, released)
<1> DEFINE c == AbsorbAdlBadDebt(b, absorbed)
<1> DEFINE rest == p.size - size
<1> DEFINE kept == p.margin - released
<1> DEFINE r == IF size = p.size THEN NoPerp ELSE [p EXCEPT !.size = rest, !.margin = kept]
<1> DEFINE lk == books.locked[a] - released
<1> DEFINE n == -size
<1>1. /\ p.size >= size /\ c.ok /\ books' = c
      /\ positions' = [positions EXCEPT ![a][m] = r]
      /\ interest' = [interest EXCEPT ![m] = interest[m] - size]
      /\ due' = due + absorbed /\ UNCHANGED <<index, risk, oracle>>
  BY DEF ExecuteAdl
<1>2. /\ EngineTypes /\ Backed(books) /\ books \in BookType /\ p \in PerpType /\ oracle[m] \in Nat
      /\ interest[m] \in Int /\ due \in Int
  BY SMTT(40) DEF EngineInv, EngineTypes, Backed
<1>3. size \in Nat \ {0} /\ p.size \in Nat \ {0} /\ p.margin \in Nat
  BY <1>1, <1>2, PerpAssumption DEF PerpType
<1> HIDE DEF p
<1>4. released \in 0 .. p.margin /\ (size = p.size => released = p.margin)
  BY <1>1, <1>3, PartAtMost
<1>5. absorbed \in Int
  <2>1. profit \in Int /\ books.badDebt \in Int
    BY <1>2, <1>3, PnlIsInt DEF BookType
  <2> HIDE DEF profit
  <2>2. QED
    BY <2>1, LeastOfTwo
<1> HIDE DEF absorbed, released, b, c
<1>6. /\ r \in PerpType /\ r.size = rest /\ r.margin = kept /\ (r.size = 0 => r.margin = 0)
  <2>1. rest \in Nat /\ kept \in Nat /\ (rest = 0 <=> size = p.size) /\ (size = p.size => kept = 0)
    BY <1>1, <1>3, <1>4
  <2> HIDE DEF rest, kept
  <2>2. CASE size = p.size
    BY <2>1, <2>2 DEF NoPerp, PerpType
  <2>3. CASE size # p.size
    BY <1>2, <2>1, <2>3 DEF PerpType
  <2>4. QED
    BY <2>2, <2>3
<1> HIDE DEF r
<1>7. /\ b \in BookType /\ (b.ok => books.ok)
      /\ b.ok => Backed(b) /\ Effect(books, b, a, books.locked[a] + (-released), 0)
  <2>1. released \in Int
    BY <1>3, <1>4
  <2>2. QED
    BY <1>2, <2>1, UnlockWorks DEF b
<1>8. /\ c \in BookType /\ (c.ok => b.ok)
      /\ Backed(b) /\ c.ok => Backed(c) /\ Effect(b, c, a, b.locked[a], absorbed)
  BY <1>5, <1>7, AbsorbWorks DEF c
<1>9. /\ Backed(c) /\ Effect(books, b, a, books.locked[a] + (-released), 0)
      /\ Effect(b, c, a, b.locked[a], absorbed)
  BY <1>1, <1>7, <1>8
<1>10. Effect(books, c, a, lk, absorbed)
  BY <1>2, <1>3, <1>4, <1>5, <1>7, <1>8, <1>9 DEF Effect, Net, BookType
<1>11. /\ n \in Int /\ interest[m] + n = interest[m] - size
       /\ lk \in Int /\ lk = books.locked[a] - p.margin + r.margin /\ r.size = p.size + n
  BY <1>1, <1>2, <1>3, <1>4, <1>5, <1>6 DEF BookType
<1> HIDE DEF lk, n
<1>12. interest' = [interest EXCEPT ![m] = interest[m] + n]
  BY <1>1, <1>11
<1>13. QED
  BY <1>1, <1>5, <1>6, <1>9, <1>10, <1>11, <1>12, PositionChange DEF p

(* _settleLiquidationFundingCheckpoint: whatever funding takes from or adds *)
(* to what is locked, the position's margin stays a margin. *)
LEMMA CheckpointWorks ==
  ASSUME NEW b, Backed(b), NEW a \in Holders, NEW n \in Int, NEW margin \in Nat, NEW max \in Nat,
         NEW c, c = PayLiquidationFunding(b, a, n, margin, max)
  PROVE  /\ c \in BookType /\ (c.ok => b.ok) /\ margin + (c.locked[a] - b.locked[a]) \in Nat
         /\ c.ok => Backed(c) /\ Effect(b, c, a, c.locked[a], n)
<1>1. b \in BookType /\ b.locked[a] \in Nat /\ b.ok /\ b.locked[a] \in Int
  BY DEF Backed, BookType
<1>2. CASE n > 0
  <2>1. /\ c \in BookType /\ (c.ok => b.ok) /\ c.locked[a] = b.locked[a] + n
        /\ c.ok => Backed(c) /\ Effect(b, c, a, b.locked[a] + n, n)
    BY <1>1, <1>2, CreditWorks
  <2>2. margin + (c.locked[a] - b.locked[a]) \in Nat
    BY <1>1, <1>2, <2>1
  <2>3. QED
    BY <2>1, <2>2
<1>3. CASE ~(n > 0)
  <2> DEFINE p == Min({-n, b.locked[a], margin})
  <2> DEFINE q == Min({-n - p, b.available[a]})
  <2> DEFINE k == Min({max, -n - p - q, b.insurance})
  <2>1. p \in Int /\ p <= margin
    <3>1. -n \in Int /\ margin \in Int
      OBVIOUS
    <3>2. QED
      BY <1>1, <3>1, LeastOfThree
  <2>2. n <= 0
    BY <1>3
  <2>3. /\ c \in BookType /\ c.ok = b.ok
        /\ Backed(b) /\ c.ok => Backed(c) /\ Effect(b, c, a, b.locked[a] + (-p), n)
    <3> DEFINE pp == p
    <3> DEFINE qq == q
    <3> DEFINE kk == k
    <3>1. Debits(b, a, n, margin, max, pp, qq, kk, c) /\ pp = p
      BY DEF Debits
    <3> HIDE DEF pp, qq, kk, p, q, k
    <3>2. /\ c \in BookType /\ c.ok = b.ok
          /\ Backed(b) /\ c.ok => Backed(c) /\ Effect(b, c, a, b.locked[a] + (-pp), n)
      BY <1>1, <2>2, <3>1, DebitWorks
    <3>3. pp = p
      BY <3>1
    <3>4. QED
      BY <3>2, <3>3
  <2> HIDE DEF p
  <2>4. Backed(c) /\ Effect(b, c, a, b.locked[a] + (-p), n)
    BY <1>1, <2>3
  <2>5. margin + (c.locked[a] - b.locked[a]) \in Nat
    BY <1>1, <2>1, <2>4 DEF Effect
  <2>6. Effect(b, c, a, c.locked[a], n)
    BY <2>4 DEF Effect
  <2>7. QED
    BY <2>3, <2>4, <2>5, <2>6
<1>4. QED
  BY <1>2, <1>3

(* _liquidationReductionSize *)
LEMMA LiquidationSizeIs ==
  ASSUME NEW m \in PerpMarkets, risk \in [PerpMarkets -> RiskType], NEW size \in Nat
  PROVE  LiquidationSize(m, size) \in 0 .. size
<1>1. (size * risk[m].reduction) \div Bps \in 0 .. size
  BY ShareAtMost DEF RiskType
<1>2. QED
  BY <1>1 DEF LiquidationSize

LEMMA LiquidateKeeps ==
  ASSUME EngineInv, NEW a \in Holders, NEW m \in PerpMarkets, LiquidatePerp(a, m)
  PROVE  EngineInv'
<1> DEFINE p == positions[a][m]
<1> DEFINE payment == FundingPayment(a, m)
<1> DEFINE gap == -payment - p.margin - books.available[a]
<1> DEFINE shortfall == Max({gap, 0})
<1> DEFINE max == PerpCoverage(m, shortfall)
<1> DEFINE funded == PayLiquidationFunding(books, a, payment, p.margin, max)
<1> DEFINE margin == p.margin + (funded.locked[a] - books.locked[a])
<1> DEFINE step == LiquidationSize(m, p.size)
<1> DEFINE part == PerpPnl(p, step, oracle[m])
<1> DEFINE whole == step = p.size \/ margin = 0 \/ -part >= margin
<1> DEFINE size == IF whole THEN p.size ELSE step
<1> DEFINE pnl == PerpPnl(p, size, oracle[m])
<1> DEFINE c == IF whole THEN SettlePosition(funded, a, m, margin, pnl) ELSE SettlePnL(funded, a, pnl)
<1> DEFINE left == p.size - size
<1> DEFINE kept == margin + Min({pnl, 0})
<1> DEFINE r == Remainder(p, left, kept, m)
<1>1. /\ p.size > 0 /\ c.ok /\ books' = c
      /\ positions' = [positions EXCEPT ![a][m] = r]
      /\ interest' = [interest EXCEPT ![m] = interest[m] - size]
      /\ due' = due + payment + pnl /\ UNCHANGED <<index, risk, oracle>>
  BY DEF LiquidatePerp, MarginAfterFunding
<1>2. /\ EngineTypes /\ Backed(books) /\ books \in BookType /\ p \in PerpType /\ oracle[m] \in Nat
      /\ risk \in [PerpMarkets -> RiskType] /\ interest[m] \in Int /\ due \in Int
      /\ books.available[a] \in Int /\ books.locked[a] \in Int
  BY DEF EngineInv, EngineTypes, Backed, BookType
<1>3. p.size \in Nat \ {0} /\ p.margin \in Nat
  <2>1. p.size \in Nat /\ p.margin \in Nat
    BY SMTT(40), <1>2 DEF PerpType
  <2>2. p.size > 0
    BY <1>1
  <2> HIDE DEF p
  <2>3. QED
    BY <2>1, <2>2
<1>4. payment \in Int
  BY <1>2, PaymentIsInt
<1> HIDE DEF p, payment
<1>5. max \in Nat
  <2>1. gap \in Int
    BY <1>2, <1>3, <1>4
  <2> HIDE DEF gap
  <2>2. shortfall \in Nat
    <3>1. \E x \in {gap, 0} : \A y \in {gap, 0} : x >= y
      BY <2>1, gap >= 0 \/ gap < 0
    <3>2. shortfall \in {gap, 0} /\ \A y \in {gap, 0} : shortfall >= y
      BY <3>1 DEF Max
    <3>3. QED
      BY <2>1, <3>2
  <2> HIDE DEF shortfall
  <2>3. (shortfall * risk[m].coverage) \div Bps \in 0 .. shortfall
    BY <1>2, <2>2, ShareAtMost DEF RiskType
  <2>4. QED
    BY <2>2, <2>3 DEF PerpCoverage
<1> HIDE DEF max
<1>6. /\ funded \in BookType /\ (funded.ok => books.ok) /\ margin \in Nat
      /\ funded.ok => Backed(funded) /\ Effect(books, funded, a, funded.locked[a], payment)
  BY <1>2, <1>3, <1>4, <1>5, CheckpointWorks
<1>7. funded.locked[a] \in Int /\ funded.locked[a] = books.locked[a] - p.margin + margin
  BY <1>2, <1>3, <1>6 DEF BookType
<1>8. step \in 0 .. p.size
  BY <1>2, <1>3, LiquidationSizeIs
<1> HIDE DEF funded, margin, step
<1>9. part \in Int
  BY <1>2, <1>3, <1>8, PnlIsInt
<1>10. size \in 0 .. p.size /\ (~whole => part = pnl) /\ (whole => size = p.size)
       /\ (~whole => size < p.size)
  BY <1>3, <1>8
<1>11. pnl \in Int
  BY <1>2, <1>10, PnlIsInt
<1>12. (~whole => margin # 0 /\ -pnl < margin) /\ whole \in BOOLEAN
  BY <1>6, <1>9, <1>10, <1>11
<1>13. c = IF whole THEN SettlePosition(funded, a, m, margin, pnl) ELSE SettlePnL(funded, a, pnl)
  OBVIOUS
<1> HIDE DEF part, whole, size, pnl, c
<1>14. Min({pnl, 0}) \in Int /\ Min({pnl, 0}) = IF pnl < 0 THEN pnl ELSE 0
  <2>1. 0 \in Int
    OBVIOUS
  <2>2. /\ Min({pnl, 0}) \in {pnl, 0} /\ Min({pnl, 0}) \in Int
        /\ Min({pnl, 0}) <= pnl /\ Min({pnl, 0}) <= 0
    BY <1>11, <2>1, LeastOfTwo
  <2>3. QED
    BY <1>11, <2>2
<1> HIDE DEF r
<1> DEFINE lk == IF whole THEN funded.locked[a] - margin ELSE funded.locked[a] + Min({pnl, 0})
<1>15. /\ c \in BookType /\ (c.ok => funded.ok)
       /\ Backed(funded) /\ c.ok => Backed(c) /\ Effect(funded, c, a, lk, pnl)
  <2>1. CASE whole
    BY SMTT(40), <1>2, <1>6, <1>11, <1>13, <2>1, SettleWorks
  <2>2. CASE ~whole /\ pnl < 0
    <3>1. lk = funded.locked[a] + pnl /\ c = SettlePnL(funded, a, pnl)
      BY <1>13, <1>14, <2>2
    <3>2. QED
      BY <1>6, <1>11, <2>2, <3>1, LossWorks
  <2>3. CASE ~whole /\ ~(pnl < 0)
    <3>1. lk = funded.locked[a] /\ c = SettlePnL(funded, a, pnl) /\ pnl \in Nat
      BY <1>7, <1>11, <1>13, <1>14, <2>3
    <3>2. QED
      BY <1>6, <2>3, <3>1, ProfitWorks
  <2>4. QED
    BY <1>12, <2>1, <2>2, <2>3
<1>16. Backed(c) /\ Effect(funded, c, a, lk, pnl) /\ Effect(books, funded, a, funded.locked[a], payment)
  BY <1>1, <1>6, <1>15
<1> DEFINE net == payment + pnl
<1> DEFINE n == -size
<1>17. net \in Int /\ lk \in Int
  BY <1>4, <1>6, <1>7, <1>11, <1>12, <1>14
<1>18. Effect(books, c, a, lk, net)
  <2> HIDE DEF lk
  <2>1. QED
    BY <1>2, <1>4, <1>6, <1>11, <1>15, <1>16 DEF Effect, Net, BookType
<1>19. left \in Nat /\ (whole <=> left = 0) /\ (~whole => kept \in Nat)
  <2>1. left \in Nat /\ (whole <=> left = 0)
    BY <1>3, <1>10, <1>12
  <2>2. ASSUME ~whole
        PROVE  kept \in Nat
    BY <1>6, <1>11, <1>12, <1>14, <2>2
  <2>3. QED
    BY <2>1, <2>2
<1> DEFINE keep == IF left = 0 THEN 0 ELSE kept
<1>20. /\ r \in PerpType /\ r.size = left /\ r.margin = keep
       /\ (r.size = 0 => r.margin = 0)
  <2>1. left \in Nat /\ keep \in Nat /\ (left = 0 => keep = 0)
    BY <1>19
  <2>2. r = Remainder(p, left, keep, m)
    BY DEF r, Remainder
  <2>3. EngineTypes /\ p \in PerpType
    BY <1>2
  <2> HIDE DEF keep, left
  <2>4. QED
    BY <2>1, <2>2, <2>3, RemainderIs
<1>21. lk = books.locked[a] - p.margin + keep
  BY <1>2, <1>3, <1>6, <1>7, <1>11, <1>12, <1>14, <1>19
<1>22. /\ n \in Int /\ interest[m] + n = interest[m] - size /\ due' = due + net
       /\ r.size = p.size + n
  BY <1>1, <1>2, <1>3, <1>4, <1>10, <1>11, <1>20
<1> HIDE DEF lk, net, n, keep
<1>23. interest' = [interest EXCEPT ![m] = interest[m] + n]
  BY <1>1, <1>22
<1>24. lk = books.locked[a] - p.margin + r.margin
  BY <1>20, <1>21
<1>25. QED
  BY <1>1, <1>16, <1>17, <1>18, <1>20, <1>22, <1>23, <1>24, PositionChange DEF p

LEMMA ConfigureKeeps ==
  ASSUME EngineInv, NEW m \in PerpMarkets, NEW s \in RiskType, Configure(m, s)
  PROVE  EngineInv'
<1>1. risk \in [PerpMarkets -> RiskType] /\ index \in [PerpMarkets -> Int]
      /\ oracle \in [PerpMarkets -> Nat]
  BY DEF EngineInv, EngineTypes
<1>2. risk' = [risk EXCEPT ![m] = s] /\ UNCHANGED <<books, positions, interest, due, index, oracle>>
  BY DEF Configure
<1>3. risk' \in [PerpMarkets -> RiskType]
  BY <1>1, <1>2
<1>4. QED
  BY <1>1, <1>2, <1>3, QuietKeeps

LEMMA GovernanceKeeps ==
  ASSUME EngineInv, NEW m \in PerpMarkets, NEW s \in RiskSettings,
         \/ ConfigureMarketOpenInterestLimit(m, s) \/ ConfigureMarketNotionalLimits(m, s)
         \/ ConfigureTradingFee(m, s) \/ ConfigureAdlSafety(m, s) \/ ConfigureFunding(m, s)
         \/ ConfigurePartialLiquidation(m, s) \/ ConfigureInsuranceCoverage(m, s)
         \/ SetRiskParameters(m, s)
  PROVE  EngineInv'
<1>1. s \in RiskType
  BY PerpAssumption DEF RiskType
<1>2. risk[m] \in RiskType
  BY DEF EngineInv, EngineTypes
<1>3. PICK t : Configure(m, t) /\ t \in
         {[risk[m] EXCEPT !.oiLimit = s.oiLimit],
          [risk[m] EXCEPT !.orderLimit = s.orderLimit, !.positionLimit = s.positionLimit],
          [risk[m] EXCEPT !.fee = s.fee, !.insuranceShare = s.insuranceShare],
          [risk[m] EXCEPT !.adlCap = s.adlCap],
          [risk[m] EXCEPT !.reduction = s.reduction, !.minRemaining = s.minRemaining],
          [risk[m] EXCEPT !.coverage = s.coverage],
          [risk[m] EXCEPT !.fundingBound = s.fundingBound],
          [risk[m] EXCEPT !.leverage = s.leverage, !.maintenance = s.maintenance]}
  BY Zenon DEF ConfigureMarketOpenInterestLimit, ConfigureMarketNotionalLimits, ConfigureTradingFee,
     ConfigureAdlSafety, ConfigureFunding, ConfigurePartialLiquidation, ConfigureInsuranceCoverage,
     SetRiskParameters
<1>4. t \in RiskType
  BY ZenonT(60), <1>1, <1>2, <1>3 DEF RiskType
<1>5. QED
  BY <1>3, <1>4, ConfigureKeeps

LEMMA IndexKeeps ==
  ASSUME EngineInv, NEW m \in PerpMarkets, NEW n \in Int, UpdateFundingIndex(m, n)
  PROVE  EngineInv'
<1>1. risk \in [PerpMarkets -> RiskType] /\ index \in [PerpMarkets -> Int]
      /\ oracle \in [PerpMarkets -> Nat]
  BY DEF EngineInv, EngineTypes
<1>2. index' = [index EXCEPT ![m] = index[m] + n] /\ UNCHANGED <<books, positions, interest, due, risk, oracle>>
  BY DEF UpdateFundingIndex
<1>3. index' \in [PerpMarkets -> Int]
  BY <1>1, <1>2
<1>4. QED
  BY <1>1, <1>2, <1>3, QuietKeeps

LEMMA OracleKeeps ==
  ASSUME EngineInv, NEW m \in PerpMarkets, NEW price \in PerpPrices, MoveOracle(m, price)
  PROVE  EngineInv'
<1>1. risk \in [PerpMarkets -> RiskType] /\ index \in [PerpMarkets -> Int]
      /\ oracle \in [PerpMarkets -> Nat] /\ price \in Nat
  BY PerpAssumption DEF EngineInv, EngineTypes
<1>2. oracle' = [oracle EXCEPT ![m] = price] /\ UNCHANGED <<books, positions, interest, due, risk, index>>
  BY DEF MoveOracle
<1>3. oracle' \in [PerpMarkets -> Nat]
  BY <1>1, <1>2
<1>4. QED
  BY <1>1, <1>2, <1>3, QuietKeeps

LEMMA RegistryKeeps ==
  ASSUME EngineInv, RegistryNext \/ UNCHANGED perpVars
  PROVE  EngineInv'
<1>1. UNCHANGED <<books, positions, interest, due, index, risk, oracle>>
  BY DEF RegistryNext, GuardianStep, SetEmergencyMarketMode, ApplyEmergencyTriggers, SetMarketMode,
     SetRecoveryApproved, SetMarketActive, SetGate, perpVars
<1>2. risk \in [PerpMarkets -> RiskType] /\ index \in [PerpMarkets -> Int]
      /\ oracle \in [PerpMarkets -> Nat]
  BY DEF EngineInv, EngineTypes
<1>3. QED
  BY <1>1, <1>2, QuietKeeps

LEMMA EngineInvStep == EngineInv /\ [PerpNext]_perpVars => EngineInv'
<1> SUFFICES ASSUME EngineInv, [PerpNext]_perpVars
             PROVE  EngineInv'
  OBVIOUS
<1>1. CASE RegistryNext \/ UNCHANGED perpVars
  BY <1>1, RegistryKeeps
<1>2. CASE VaultNext
  BY <1>2, DepositKeeps, WithdrawKeeps, EndowKeeps DEF VaultNext
<1>3. CASE EngineNext
  <2>1. PICK m \in PerpMarkets :
          \/ \E a \in Holders, margin \in Margins, size \in PerpSizes, long \in BOOLEAN :
                OpenPerp(a, m, margin, size, long)
          \/ \E a \in Holders : SettlePerpFunding(a, m) \/ LiquidatePerp(a, m)
          \/ \E a \in Holders, size \in Cuts : ReducePerp(a, m, size) \/ ExecuteAdl(a, m, size)
          \/ \E n \in FundingDeltas : UpdateFundingIndex(m, n) \/ UpdateFundingIndex(m, -n)
          \/ \E s \in RiskSettings :
                \/ ConfigureMarketOpenInterestLimit(m, s) \/ ConfigureMarketNotionalLimits(m, s)
                \/ ConfigureTradingFee(m, s) \/ ConfigureAdlSafety(m, s) \/ ConfigureFunding(m, s)
                \/ ConfigurePartialLiquidation(m, s) \/ ConfigureInsuranceCoverage(m, s)
                \/ SetRiskParameters(m, s)
          \/ \E price \in PerpPrices : MoveOracle(m, price)
    BY <1>3 DEF EngineNext
  <2>2. CASE \E a \in Holders, margin \in Margins, size \in PerpSizes, long \in BOOLEAN :
                OpenPerp(a, m, margin, size, long)
    BY <2>2, OpenKeeps
  <2>3. CASE \E a \in Holders : SettlePerpFunding(a, m) \/ LiquidatePerp(a, m)
    BY <2>3, SettleKeeps, LiquidateKeeps
  <2>4. CASE \E a \in Holders, size \in Cuts : ReducePerp(a, m, size) \/ ExecuteAdl(a, m, size)
    BY <2>4, ReduceKeeps, AdlKeeps
  <2>5. CASE \E n \in FundingDeltas : UpdateFundingIndex(m, n) \/ UpdateFundingIndex(m, -n)
    <3>1. PICK n \in FundingDeltas : UpdateFundingIndex(m, n) \/ UpdateFundingIndex(m, -n)
      BY <2>5
    <3>2. n \in Int /\ -n \in Int
      BY PerpAssumption
    <3>3. QED
      BY <3>1, <3>2, IndexKeeps
  <2>6. CASE \E s \in RiskSettings :
                \/ ConfigureMarketOpenInterestLimit(m, s) \/ ConfigureMarketNotionalLimits(m, s)
                \/ ConfigureTradingFee(m, s) \/ ConfigureAdlSafety(m, s) \/ ConfigureFunding(m, s)
                \/ ConfigurePartialLiquidation(m, s) \/ ConfigureInsuranceCoverage(m, s)
                \/ SetRiskParameters(m, s)
    BY <2>6, GovernanceKeeps
  <2>7. CASE \E price \in PerpPrices : MoveOracle(m, price)
    BY <2>7, OracleKeeps
  <2>8. QED
    BY <2>1, <2>2, <2>3, <2>4, <2>5, <2>6, <2>7
<1>4. QED
  BY <1>1, <1>2, <1>3 DEF PerpNext

LEMMA EngineInvInit == PerpInit => EngineInv
<1> SUFFICES ASSUME PerpInit PROVE EngineInv
  OBVIOUS
<1> DEFINE none == [a \in Holders |-> 0]
<1>1. /\ books = [ok |-> TRUE, tokens |-> 0, accounted |-> 0, pool |-> 0, insurance |-> 0,
                  treasury |-> 0, badDebt |-> 0, covered |-> 0, available |-> none, locked |-> none]
      /\ positions = [a \in Holders |-> [m \in PerpMarkets |-> NoPerp]]
      /\ interest = [m \in PerpMarkets |-> 0] /\ index = [m \in PerpMarkets |-> 0]
      /\ risk \in [PerpMarkets -> {Unconfigured(s) : s \in RiskSettings}]
      /\ oracle \in [PerpMarkets -> PerpPrices] /\ due = 0
  BY DEF PerpInit
<1>2. NoPerp \in PerpType /\ NoPerp.margin = 0 /\ NoPerp.size = 0
  BY DEF NoPerp, PerpType
<1>3. ASSUME NEW s \in RiskSettings
      PROVE  Unconfigured(s) \in RiskType
  <2>1. s \in RiskType /\ Bps \in Nat
    BY PerpAssumption DEF RiskType
  <2>2. QED
    BY <2>1 DEF Unconfigured, RiskType
<1>4. EngineTypes
  <2>1. risk \in [PerpMarkets -> RiskType]
    BY <1>1, <1>3
  <2>2. oracle \in [PerpMarkets -> Nat]
    BY <1>1, PerpAssumption
  <2>3. positions \in [Holders -> [PerpMarkets -> PerpType]]
    BY <1>1, <1>2
  <2>4. QED
    BY <1>1, <2>1, <2>2, <2>3 DEF EngineTypes
<1>5. ClosedIsEmpty
  BY <1>1, <1>2 DEF ClosedIsEmpty
<1>6. BooksFollowPositions
  <2>1. ASSUME NEW a \in Holders
        PROVE  books.locked[a] = TotalOf([m \in PerpMarkets |-> positions[a][m].margin])
    <3>1. [m \in PerpMarkets |-> positions[a][m].margin] \in [PerpMarkets -> Nat]
          /\ \A m \in PerpMarkets : [k \in PerpMarkets |-> positions[a][k].margin][m] = 0
      BY <1>1, <1>2
    <3>2. TotalOf([m \in PerpMarkets |-> positions[a][m].margin]) = 0
      BY <3>1, TotalOfNothing
    <3>3. QED
      BY <1>1, <3>2
  <2>2. ASSUME NEW m \in PerpMarkets
        PROVE  interest[m] = TotalOf([a \in Holders |-> positions[a][m].size])
    <3>1. [a \in Holders |-> positions[a][m].size] \in [Holders -> Nat]
          /\ \A a \in Holders : [h \in Holders |-> positions[h][m].size][a] = 0
      BY <1>1, <1>2
    <3>2. TotalOf([a \in Holders |-> positions[a][m].size]) = 0
      BY <3>1, TotalOfNothing
    <3>3. QED
      BY <1>1, <3>2
  <2>3. QED
    BY <2>1, <2>2 DEF BooksFollowPositions
<1>7. Backed(books) /\ Net(books) = due
  <2>1. none \in [Holders -> Nat] /\ none \in [Holders -> Int]
    OBVIOUS
  <2>2. TotalOf([a \in Holders |-> books.available[a] + books.locked[a]]) = 0
    <3>1. [a \in Holders |-> books.available[a] + books.locked[a]] \in [Holders -> Nat]
          /\ \A a \in Holders : [h \in Holders |-> books.available[h] + books.locked[h]][a] = 0
      BY <1>1
    <3>2. QED
      BY <3>1, TotalOfNothing
  <2> HIDE DEF none
  <2>3. books \in BookType
    BY <1>1, <2>1 DEF BookType
  <2>4. QED
    BY <1>1, <2>1, <2>2, <2>3 DEF Backed, Net, Claims
<1>8. QED
  BY <1>4, <1>5, <1>6, <1>7 DEF EngineInv

LEMMA EngineInvAlways == PerpSpec => []EngineInv
<1>1. PerpInit => EngineInv
  BY EngineInvInit
<1>2. EngineInv /\ [PerpNext]_perpVars => EngineInv'
  BY EngineInvStep
<1>3. QED
  BY <1>1, <1>2, PTL DEF PerpSpec

(* The engine and the vault keep the same books: through every opening,     *)
(* reduction, liquidation and deleveraging of LQCPerpEngine.sol, what the   *)
(* vault has locked for an account is the sum of its margins, and the open  *)
(* interest of a market is the size of its positions.                       *)
THEOREM BooksAndPositionsAgree == PerpSpec => []BooksFollowPositions
<1>1. EngineInv => BooksFollowPositions
  BY DEF EngineInv
<1>2. QED
  BY <1>1, EngineInvAlways, PTL

(* What accounts hold beyond what they paid in and made was covered by      *)
(* insurance or is recorded as bad debt, and the vault holds a token for    *)
(* every claim on it.                                                       *)
THEOREM EveryLossIsExplicit == PerpSpec => []LossesAreExplicit
<1>1. EngineInv => LossesAreExplicit
  BY DEF EngineInv, EngineTypes, Backed, BookType, Net, LossesAreExplicit
<1>2. QED
  BY <1>1, EngineInvAlways, PTL

-----------------------------------------------------------------------------
(* TradingApi: a signed request is carried out at most once.               *)

\* An entry outlives every copy of its request that can still pass the
\* timestamp check.
TtlCoversWindows == \A r \in Requests : 2 * r.window + MaxVerifying < ReplayTtl

\* The guard never has to drop an entry for want of room.
GuardHasRoom == Cardinality(seen) < MaxEntries

Remembers(r) ==
    \E e \in seen : /\ e.key = r.key /\ e.nonce = r.nonce
                    /\ e.expiresAt >= r.timestamp - r.window + ReplayTtl

\* No copy of r passes the timestamp check any more, nor is one being verified.
TooLate(r) == clock > r.timestamp + r.window + MaxVerifying

ApiTypes ==
    /\ clock \in Nat /\ callCount \in Nat /\ IsFiniteSet(seen)
    /\ \A e \in seen : e.expiresAt \in Int
    /\ calls \subseteq [id : Nat, request : Requests, serverTime : Int]
    /\ accepted \in [Requests -> Nat]

\* A call that is being verified was judged at most MaxVerifying ago.
CallsAreFresh ==
    \A c \in calls : c.serverTime # -1 =>
        /\ TimestampFits(c.request, c.serverTime)
        /\ c.serverTime <= clock /\ clock <= c.serverTime + MaxVerifying

AcceptedAreKnown ==
    \A r \in Requests : accepted[r] <= 1 /\ (accepted[r] = 1 => Remembers(r) \/ TooLate(r))

ApiInv == ApiTypes /\ CallsAreFresh /\ AcceptedAreKnown

LEMMA RequestTypes ==
  \A r \in Requests : r.timestamp \in Int /\ r.window \in Int /\ r.window > 0
BY TradingApiAssumption

(* With room, prune drops what has expired and nothing else. *)
LEMMA PrunedWithRoom ==
  ASSUME NEW S, IsFiniteSet(S), Cardinality(S) <= MaxEntries, NEW time
  PROVE  Pruned(S, time) = {e \in S : e.expiresAt > time}
<1> DEFINE kept == {e \in S : e.expiresAt > time}
<1>1. ASSUME NEW e \in kept
      PROVE  Cardinality({f \in kept : f.place >= e.place}) <= MaxEntries
  <2> DEFINE T == {f \in kept : f.place >= e.place}
  <2>1. T \subseteq S
    OBVIOUS
  <2> HIDE DEF T
  <2>2. Cardinality(T) \in Nat /\ Cardinality(T) <= Cardinality(S) /\ Cardinality(S) \in Nat
    BY <2>1, FS_Subset, FS_CardinalityType
  <2>3. MaxEntries \in Nat
    BY TradingApiAssumption
  <2>4. QED
    BY <2>2, <2>3 DEF T
<1>2. QED
  BY <1>1 DEF Pruned

(* consume, with room: the entry is there, and nothing fresh is lost. *)
LEMMA ConsumedWithRoom ==
  ASSUME ApiTypes, GuardHasRoom, NEW r \in Requests, NEW time \in Int, NEW S,
         S = Consumed(r, time)
  PROVE  /\ IsFiniteSet(S) /\ \A e \in S : e.expiresAt \in Int
         /\ \A e \in seen : e.expiresAt > time => e \in S
         /\ \E e \in S : e.key = r.key /\ e.nonce = r.nonce /\ e.expiresAt = time + ReplayTtl
<1> DEFINE kept == {e \in seen : e.expiresAt > time}
<1> DEFINE new == [key |-> r.key, nonce |-> r.nonce, expiresAt |-> time + ReplayTtl,
                   place |-> Max({e.place : e \in kept} \cup {0}) + 1]
<1> DEFINE T == kept \cup {new}
<1>1. IsFiniteSet(seen) /\ Cardinality(seen) \in Nat /\ MaxEntries \in Nat /\ ReplayTtl \in Nat \ {0}
      /\ Cardinality(seen) + 1 <= MaxEntries /\ \A e \in seen : e.expiresAt \in Int
  BY FS_CardinalityType, TradingApiAssumption DEF ApiTypes, GuardHasRoom
<1>2. Pruned(seen, time) = kept
  BY <1>1, PrunedWithRoom
<1>3. IsFiniteSet(kept) /\ Cardinality(kept) \in Nat /\ Cardinality(kept) <= Cardinality(seen)
  <2>1. kept \subseteq seen
    OBVIOUS
  <2> HIDE DEF kept
  <2>2. QED
    BY <1>1, <2>1, FS_Subset, FS_CardinalityType
<1>4. S = Pruned(T, time)
  BY <1>2 DEF Consumed, Inserted
<1>5. new.key = r.key /\ new.nonce = r.nonce /\ new.expiresAt = time + ReplayTtl
      /\ new.expiresAt > time /\ new.expiresAt \in Int
  BY <1>1
<1> HIDE DEF kept, new
<1>6. IsFiniteSet(T) /\ Cardinality(T) <= MaxEntries
  <2>1. IsFiniteSet(T) /\ Cardinality(T) \in {Cardinality(kept), Cardinality(kept) + 1}
    BY <1>3, FS_AddElement
  <2>2. QED
    BY <1>1, <1>3, <2>1
<1>7. S = {e \in T : e.expiresAt > time}
  BY <1>4, <1>6, PrunedWithRoom
<1>8. IsFiniteSet(S)
  BY <1>6, <1>7, FS_Subset
<1>9. QED
  BY <1>1, <1>5, <1>7, <1>8 DEF kept

(* Calls come and go; the guard and the counts are not touched. *)
CallsMove ==
    /\ callCount' \in Nat /\ UNCHANGED <<clock, seen, accepted>>
    /\ calls' \subseteq [id : Nat, request : Requests, serverTime : Int]
    /\ \A c \in calls' : c \in calls \/ c.serverTime = -1
                           \/ (c.serverTime = clock /\ TimestampFits(c.request, clock))

LEMMA CallsKeep == ASSUME ApiInv, CallsMove PROVE ApiInv'
<1>0. /\ callCount' \in Nat /\ UNCHANGED <<clock, seen, accepted>>
      /\ calls' \subseteq [id : Nat, request : Requests, serverTime : Int]
      /\ \A c \in calls' : c \in calls \/ c.serverTime = -1
                            \/ (c.serverTime = clock /\ TimestampFits(c.request, clock))
  BY DEF CallsMove
<1>1. ApiTypes /\ CallsAreFresh /\ AcceptedAreKnown /\ clock \in Nat /\ MaxVerifying \in Nat
  BY TradingApiAssumption DEF ApiInv, ApiTypes
<1>2. ApiTypes'
  BY <1>0, <1>1 DEF ApiTypes
<1>3. CallsAreFresh'
  BY <1>0, <1>1 DEF CallsAreFresh, TimestampFits
<1>4. AcceptedAreKnown'
  BY <1>0, <1>1 DEF AcceptedAreKnown, Remembers, TooLate
<1>5. QED
  BY <1>2, <1>3, <1>4 DEF ApiInv

LEMMA TickKeeps ==
  ASSUME ApiInv, ClockTick
  PROVE  ApiInv'
<1>1. ApiTypes /\ CallsAreFresh /\ AcceptedAreKnown /\ clock \in Nat /\ MaxVerifying \in Nat
  BY TradingApiAssumption DEF ApiInv, ApiTypes
<1>2. /\ \A c \in calls : c.serverTime # -1 => clock < c.serverTime + MaxVerifying
      /\ clock' = clock + 1 /\ UNCHANGED <<calls, callCount, seen, accepted>>
  BY DEF ClockTick
<1>3. ApiTypes'
  BY <1>1, <1>2 DEF ApiTypes
<1>4. CallsAreFresh'
  <2>1. ASSUME NEW c \in calls, c.serverTime # -1
        PROVE  /\ TimestampFits(c.request, c.serverTime)
               /\ c.serverTime <= clock' /\ clock' <= c.serverTime + MaxVerifying
    <3>1. c.serverTime \in Int /\ c.serverTime <= clock /\ TimestampFits(c.request, c.serverTime)
      BY <1>1, <2>1 DEF ApiTypes, CallsAreFresh
    <3>2. QED
      BY <1>1, <1>2, <2>1, <3>1
  <2>2. QED
    BY <1>2, <2>1 DEF CallsAreFresh, TimestampFits
<1>5. AcceptedAreKnown'
  <2>1. ASSUME NEW r \in Requests
        PROVE  TooLate(r) => TooLate(r)'
    BY <1>1, <1>2, RequestTypes DEF TooLate
  <2>2. QED
    BY <1>1, <1>2, <2>1 DEF AcceptedAreKnown, Remembers
<1>6. QED
  BY <1>3, <1>4, <1>5 DEF ApiInv

(* A copy that is still being verified finds the entry of the first one. *)
LEMMA CopyIsKnown ==
  ASSUME TtlCoversWindows, ApiInv, NEW c \in calls, c.serverTime # -1,
         accepted[c.request] = 1, IsFiniteSet(seen), GuardHasRoom
  PROVE  Known(Pruned(seen, c.serverTime), c.request)
<1> DEFINE r == c.request
<1> DEFINE t == c.serverTime
<1>1. /\ ApiTypes /\ CallsAreFresh /\ AcceptedAreKnown /\ clock \in Int /\ MaxVerifying \in Nat
      /\ r \in Requests /\ t \in Int /\ ReplayTtl \in Nat
  BY TradingApiAssumption DEF ApiInv, ApiTypes
<1>2. r.timestamp \in Int /\ r.window \in Int /\ 2 * r.window + MaxVerifying < ReplayTtl
  BY <1>1, RequestTypes DEF TtlCoversWindows
<1>3. t - r.timestamp <= r.window /\ t <= clock /\ clock <= t + MaxVerifying
  BY <1>1 DEF CallsAreFresh, TimestampFits
<1>4. Remembers(r)
  <2>1. ~TooLate(r)
    BY <1>1, <1>2, <1>3 DEF TooLate
  <2>2. QED
    BY <1>1, <2>1 DEF AcceptedAreKnown
<1>5. PICK e \in seen : /\ e.key = r.key /\ e.nonce = r.nonce
                        /\ e.expiresAt >= r.timestamp - r.window + ReplayTtl
  BY <1>4 DEF Remembers
<1>6. e.expiresAt > t
  <2>1. e.expiresAt \in Int
    BY <1>1, <1>5 DEF ApiTypes
  <2>2. QED
    BY <1>1, <1>2, <1>3, <1>5, <2>1
<1>7. Pruned(seen, t) = {d \in seen : d.expiresAt > t}
  <2>1. Cardinality(seen) <= MaxEntries
    BY FS_CardinalityType, TradingApiAssumption DEF GuardHasRoom
  <2>2. QED
    BY <2>1, PrunedWithRoom
<1>8. QED
  BY <1>5, <1>6, <1>7 DEF Known

(* What a call drops has expired for every copy that could still pass. *)
LEMMA ForgottenIsTooLate ==
  ASSUME TtlCoversWindows, ApiInv, NEW c \in calls, c.serverTime # -1, NEW r \in Requests,
         Remembers(r), NEW S, \A e \in seen : e.expiresAt > c.serverTime => e \in S
  PROVE  \/ \E e \in S : /\ e.key = r.key /\ e.nonce = r.nonce
                         /\ e.expiresAt >= r.timestamp - r.window + ReplayTtl
         \/ TooLate(r)
<1> DEFINE t == c.serverTime
<1>1. /\ ApiTypes /\ CallsAreFresh /\ clock \in Int /\ MaxVerifying \in Nat /\ t \in Int /\ ReplayTtl \in Nat
  BY TradingApiAssumption DEF ApiInv, ApiTypes
<1>2. r.timestamp \in Int /\ r.window \in Int /\ 2 * r.window + MaxVerifying < ReplayTtl
  BY <1>1, RequestTypes DEF TtlCoversWindows
<1>3. t <= clock
  BY <1>1 DEF CallsAreFresh
<1>4. PICK e \in seen : /\ e.key = r.key /\ e.nonce = r.nonce
                        /\ e.expiresAt >= r.timestamp - r.window + ReplayTtl
  BY DEF Remembers
<1>5. e.expiresAt \in Int
  BY <1>1, <1>4 DEF ApiTypes
<1>6. CASE e.expiresAt > t
  BY <1>4, <1>6
<1>7. CASE ~(e.expiresAt > t)
  BY <1>1, <1>2, <1>3, <1>4, <1>5, <1>7 DEF TooLate
<1>8. QED
  BY <1>6, <1>7

LEMMA VerifiedKeeps ==
  ASSUME TtlCoversWindows, ApiInv, GuardHasRoom, NEW c \in calls, SignatureVerified(c)
  PROVE  ApiInv'
<1> DEFINE t == c.serverTime
<1>1. /\ ApiTypes /\ CallsAreFresh /\ AcceptedAreKnown /\ c.request \in Requests /\ t \in Int
      /\ IsFiniteSet(seen) /\ clock \in Int /\ ReplayTtl \in Nat /\ accepted \in [Requests -> Nat]
  BY TradingApiAssumption DEF ApiInv, ApiTypes
<1>2. t # -1 /\ calls' = calls \ {c} /\ UNCHANGED <<clock, callCount>>
  BY DEF SignatureVerified
<1>3. CallsAreFresh'
  BY <1>1, <1>2 DEF CallsAreFresh, TimestampFits
<1>4. CASE Known(Pruned(seen, t), c.request)
  <2>1. seen' = Pruned(seen, t) /\ accepted' = accepted
    BY <1>4 DEF SignatureVerified
  <2>2. Pruned(seen, t) = {d \in seen : d.expiresAt > t}
    <3>1. Cardinality(seen) <= MaxEntries
      BY <1>1, FS_CardinalityType, TradingApiAssumption DEF GuardHasRoom
    <3>2. QED
      BY <1>1, <3>1, PrunedWithRoom
  <2>3. seen' \subseteq seen /\ \A e \in seen : e.expiresAt > t => e \in seen'
    BY <2>1, <2>2
  <2>4. IsFiniteSet(seen')
    BY <1>1, <2>3, FS_Subset
  <2>5. ApiTypes'
    BY <1>1, <1>2, <2>1, <2>3, <2>4 DEF ApiTypes
  <2>6. AcceptedAreKnown'
    <3>1. ASSUME NEW r \in Requests, Remembers(r)
          PROVE  Remembers(r)' \/ TooLate(r)
      BY <1>2, <2>3, <3>1, ForgottenIsTooLate DEF Remembers
    <3>2. QED
      BY <1>1, <1>2, <2>1, <3>1 DEF AcceptedAreKnown, TooLate
  <2>7. QED
    BY <1>3, <2>5, <2>6 DEF ApiInv
<1>5. CASE ~Known(Pruned(seen, t), c.request)
  <2>1. seen' = Consumed(c.request, t) /\ accepted' = [accepted EXCEPT ![c.request] = @ + 1]
    BY <1>5 DEF SignatureVerified
  <2>2. /\ IsFiniteSet(seen') /\ \A e \in seen' : e.expiresAt \in Int
        /\ \A e \in seen : e.expiresAt > t => e \in seen'
        /\ \E e \in seen' : e.key = c.request.key /\ e.nonce = c.request.nonce
                            /\ e.expiresAt = t + ReplayTtl
    BY <1>1, <2>1, ConsumedWithRoom
  <2>3. ApiTypes'
    BY <1>1, <1>2, <2>1, <2>2 DEF ApiTypes
  <2>4. accepted[c.request] = 0
    <3>1. accepted[c.request] # 1
      BY <1>1, <1>2, <1>5, CopyIsKnown
    <3>2. QED
      BY <1>1, <3>1 DEF AcceptedAreKnown
  <2>5. Remembers(c.request)'
    <3>1. c.request.timestamp - t <= c.request.window
      BY <1>1, <1>2 DEF CallsAreFresh, TimestampFits
    <3>2. c.request.timestamp \in Int /\ c.request.window \in Int
      BY <1>1, RequestTypes
    <3>3. t + ReplayTtl >= c.request.timestamp - c.request.window + ReplayTtl
      BY <1>1, <3>1, <3>2
    <3>4. QED
      BY <2>2, <3>3 DEF Remembers
  <2>6. AcceptedAreKnown'
    <3>1. ASSUME NEW r \in Requests, Remembers(r)
          PROVE  Remembers(r)' \/ TooLate(r)
      BY <1>2, <2>2, <3>1, ForgottenIsTooLate DEF Remembers
    <3>2. ASSUME NEW r \in Requests
          PROVE  accepted'[r] <= 1 /\ (accepted'[r] = 1 => Remembers(r)' \/ TooLate(r)')
      <4>1. CASE r = c.request
        BY <1>1, <2>1, <2>4, <2>5, <4>1
      <4>2. CASE r # c.request
        BY <1>1, <1>2, <2>1, <3>1, <4>2 DEF AcceptedAreKnown, TooLate
      <4>3. QED
        BY <4>1, <4>2
    <3>3. QED
      BY <3>2 DEF AcceptedAreKnown
  <2>7. QED
    BY <1>3, <2>3, <2>6 DEF ApiInv
<1>6. QED
  BY <1>4, <1>5

LEMMA ApiInvStep ==
  ASSUME TtlCoversWindows, ApiInv, GuardHasRoom, [ApiNext]_apiVars
  PROVE  ApiInv'
<1>1. ApiTypes /\ CallsAreFresh /\ AcceptedAreKnown /\ clock \in Nat /\ callCount \in Nat
      /\ calls \subseteq [id : Nat, request : Requests, serverTime : Int]
  BY DEF ApiInv, ApiTypes
<1>2. ASSUME NEW r \in Requests, Arrive(r)
      PROVE  ApiInv'
  <2>1. /\ callCount' = callCount + 1 /\ UNCHANGED <<clock, seen, accepted>>
        /\ calls' = calls \cup {[id |-> callCount', request |-> r, serverTime |-> -1]}
    BY <1>2 DEF Arrive
  <2>2. callCount' \in Nat
    BY <1>1, <2>1
  <2>3. CallsMove
    BY <1>1, <2>1, <2>2 DEF CallsMove
  <2>4. QED
    BY <2>3, CallsKeep
<1>3. ASSUME NEW c \in calls, KeyResolved(c)
      PROVE  ApiInv'
  <2>1. UNCHANGED <<clock, callCount, seen, accepted>>
    BY <1>3 DEF KeyResolved
  <2>2. c \in [id : Nat, request : Requests, serverTime : Int]
    BY <1>1
  <2>3. CASE calls' = calls \ {c}
    <3>1. CallsMove
      BY <1>1, <2>1, <2>3 DEF CallsMove
    <3>2. QED
      BY <3>1, CallsKeep
  <2>4. CASE /\ TimestampFits(c.request, clock)
             /\ calls' = (calls \ {c}) \cup {[c EXCEPT !.serverTime = clock]}
    <3> DEFINE d == [c EXCEPT !.serverTime = clock]
    <3>1. /\ d \in [id : Nat, request : Requests, serverTime : Int]
          /\ d.request = c.request /\ d.serverTime = clock
      BY <1>1, <2>2
    <3> HIDE DEF d
    <3>2. calls' = (calls \ {c}) \cup {d}
      BY <2>4 DEF d
    <3>3. CallsMove
      BY <1>1, <2>1, <2>4, <3>1, <3>2 DEF CallsMove
    <3>4. QED
      BY <3>3, CallsKeep
  <2>5. QED
    BY <1>3, <2>3, <2>4 DEF KeyResolved
<1>4. ASSUME NEW c \in calls, SignatureVerified(c)
      PROVE  ApiInv'
  BY <1>4, VerifiedKeeps
<1>5. ASSUME NEW c \in calls, SignatureRejected(c)
      PROVE  ApiInv'
  <2>1. CallsMove
    BY <1>1, <1>5 DEF SignatureRejected, CallsMove
  <2>2. QED
    BY <2>1, CallsKeep
<1>6. CASE ClockTick
  BY <1>6, TickKeeps
<1>7. CASE UNCHANGED apiVars
  <2>1. CallsMove
    BY <1>1, <1>7 DEF apiVars, CallsMove
  <2>2. QED
    BY <2>1, CallsKeep
<1>8. QED
  BY <1>2, <1>3, <1>4, <1>5, <1>6, <1>7 DEF ApiNext

LEMMA ApiInvInit == ApiInit => ApiInv
<1>1. IsFiniteSet({})
  BY FS_EmptySet
<1>2. QED
  BY <1>1 DEF ApiInit, ApiInv, ApiTypes, CallsAreFresh, AcceptedAreKnown

(* Where an entry of the replay guard outlives all copies of its request    *)
(* and the guard always has a free entry, a signed request is carried out   *)
(* at most once, however its copies and the awaits of                       *)
(* trading-api-service.js interleave.                                       *)
THEOREM RequestsRunOnce ==
  ASSUME TtlCoversWindows
  PROVE  ApiSpec /\ []GuardHasRoom => []CarriedOutOnce
<1>1. ApiInit => ApiInv
  BY ApiInvInit
<1>2. ApiInv /\ GuardHasRoom /\ [ApiNext]_apiVars => ApiInv'
  BY ApiInvStep
<1>3. ApiInv => CarriedOutOnce
  BY DEF ApiInv, AcceptedAreKnown, CarriedOutOnce
<1>4. QED
  BY <1>1, <1>2, <1>3, PTL DEF ApiSpec

-----------------------------------------------------------------------------
(* StreamFeed: no listener passes an event it did not get.                 *)

EnvelopeType == [sequence : Nat \ {0}, event : Nat]

\* Later events have later numbers, and none is ahead of the stream.
Rising(S) ==
    /\ S \subseteq EnvelopeType
    /\ \A x, y \in S : x.event < y.event <=> x.sequence < y.sequence
    /\ \A x \in S : x.sequence <= sequence /\ x.event <= event

\* All envelopes made for c since it subscribed are such a set S: those on the
\* way, those lost, and the last one that came.
Follows(c, S) ==
    /\ Rising(S) /\ ToSet(onTheWay[c]) \cup missing[c] \subseteq S
    /\ ToSet(onTheWay[c]) \cap missing[c] = {}
    /\ known[c].previous = 0 => missing[c] = {}
    /\ known[c].previous > 0 =>
         \E x \in S : x.sequence = known[c].previous /\ x.event <= known[c].seen
    /\ \A lost \in missing[c] : known[c].seen < lost.event

StreamTypes ==
    /\ event \in Nat /\ sequence \in Nat /\ listeners \in Seq(Subscribers)
    /\ onTheWay \in [Subscribers -> Seq(EnvelopeType)]
    /\ known \in [Subscribers -> [previous : Nat, seen : Nat]]
    /\ missing \in [Subscribers -> SUBSET EnvelopeType]

StreamInv ==
    /\ StreamTypes
    /\ \A c \in ToSet(listeners) : \E S : Follows(c, S)

LEMMA ToSetAppend ==
  ASSUME NEW T, NEW s \in Seq(T), NEW x \in T
  PROVE  Append(s, x) \in Seq(T) /\ ToSet(Append(s, x)) = ToSet(s) \cup {x}
<1> DEFINE r == Append(s, x)
<1>1. /\ Len(s) \in Nat /\ DOMAIN s = 1 .. Len(s) /\ r \in Seq(T) /\ DOMAIN r = 1 .. (Len(s) + 1)
      /\ \A i \in 1 .. Len(s) : r[i] = s[i]
      /\ r[Len(s) + 1] = x
  OBVIOUS
<1> HIDE DEF r
<1>2. 1 .. (Len(s) + 1) = (1 .. Len(s)) \cup {Len(s) + 1}
  BY <1>1
<1>3. QED
  BY <1>1, <1>2 DEF ToSet, r

LEMMA ToSetRemoveAt ==
  ASSUME NEW T, NEW s \in Seq(T), NEW i \in DOMAIN s
  PROVE  RemoveAt(s, i) \in Seq(T) /\ ToSet(RemoveAt(s, i)) \subseteq ToSet(s)
<1>1. i \in 1 .. Len(s) /\ Len(s) \in Nat
  OBVIOUS
<1> DEFINE p == SubSeq(s, 1, i - 1)
<1> DEFINE q == SubSeq(s, i + 1, Len(s))
<1>2. p \in Seq(T) /\ Len(p) = i - 1 /\ \A j \in 1 .. i - 1 : p[j] = s[j]
  BY <1>1
<1>3. q \in Seq(T) /\ Len(q) = Len(s) - i /\ \A j \in 1 .. Len(s) - i : q[j] = s[i + j]
  BY <1>1
<1> HIDE DEF p, q
<1>4. p \o q \in Seq(T) /\ \A j \in 1 .. Len(p \o q) : \E k \in 1 .. Len(s) : (p \o q)[j] = s[k]
  <2>1. p \o q \in Seq(T) /\ Len(p \o q) = Len(s) - 1
    BY <1>1, <1>2, <1>3
  <2>2. ASSUME NEW j \in 1 .. Len(s) - 1
        PROVE  \E k \in 1 .. Len(s) : (p \o q)[j] = s[k]
    <3>1. CASE j <= i - 1
      <4>1. (p \o q)[j] = p[j] /\ p[j] = s[j]
        BY <1>1, <1>2, <1>3, <3>1
      <4>2. QED
        BY <1>1, <4>1
    <3>2. CASE ~(j <= i - 1)
      <4>1. (p \o q)[j] = q[j - (i - 1)] /\ j - (i - 1) \in 1 .. Len(s) - i
        BY SMTT(40), <1>1, <1>2, <1>3, <3>2
      <4>2. (p \o q)[j] = s[i + (j - (i - 1))] /\ i + (j - (i - 1)) \in 1 .. Len(s)
        BY SMTT(40), <1>1, <1>3, <4>1
      <4>3. QED
        BY <4>2
    <3>3. QED
      BY <3>1, <3>2
  <2>3. QED
    BY <2>1, <2>2
<1>5. RemoveAt(s, i) = p \o q
  BY DEF RemoveAt, p, q
<1> DEFINE r == p \o q
<1>6. r \in Seq(T) /\ DOMAIN r = 1 .. Len(r) /\ DOMAIN s = 1 .. Len(s)
      /\ \A j \in 1 .. Len(r) : \E k \in 1 .. Len(s) : r[j] = s[k]
  BY <1>4
<1> HIDE DEF r
<1>7. ToSet(r) \subseteq ToSet(s)
  BY <1>6 DEF ToSet
<1>8. QED
  BY <1>5, <1>6, <1>7 DEF r

\* The listeners become L, to whom nothing happens, and D, who are new.
Audience(L, D) ==
    /\ listeners' \in Seq(Subscribers) /\ L \subseteq ToSet(listeners) /\ ToSet(listeners') = L \cup D
    /\ \A c \in L : onTheWay'[c] = onTheWay[c] /\ known'[c] = known[c] /\ missing'[c] = missing[c]
    /\ \A c \in D : onTheWay'[c] = <<>> /\ known'[c] = NewClient /\ missing'[c] = {}
    /\ L # {} => sequence' = sequence
    /\ event' = event /\ sequence' \in Nat
    /\ onTheWay' \in [Subscribers -> Seq(EnvelopeType)]
    /\ known' \in [Subscribers -> [previous : Nat, seen : Nat]]
    /\ missing' \in [Subscribers -> SUBSET EnvelopeType]

LEMMA AudienceKeeps ==
  ASSUME StreamInv, NEW L, NEW D, Audience(L, D)
  PROVE  StreamInv'
<1>1. StreamTypes'
  BY DEF StreamInv, StreamTypes, Audience
<1>2. ASSUME NEW c \in L
      PROVE  \E S : Follows(c, S)'
  <2>1. PICK S : Follows(c, S)
    BY DEF StreamInv, Audience
  <2>2. /\ onTheWay'[c] = onTheWay[c] /\ known'[c] = known[c] /\ missing'[c] = missing[c]
        /\ sequence' = sequence /\ event' = event
    BY DEF Audience
  <2>3. Follows(c, S)'
    BY <2>1, <2>2 DEF Follows, Rising
  <2>4. QED
    BY <2>3
<1>3. ASSUME NEW c \in D
      PROVE  \E S : Follows(c, S)'
  <2>1. onTheWay'[c] = <<>> /\ known'[c] = NewClient /\ missing'[c] = {}
    BY DEF Audience
  <2>2. Follows(c, {})'
    BY <2>1 DEF Follows, Rising, NewClient, ToSet
  <2>3. QED
    BY <2>2
<1>4. QED
  BY <1>1, <1>2, <1>3 DEF StreamInv, Audience

LEMMA SubscribeKeeps == ASSUME StreamInv, NEW c \in Subscribers, Subscribe(c) PROVE StreamInv'
<1>1. StreamTypes
  BY DEF StreamInv
<1>2. /\ c \notin ToSet(listeners) /\ listeners' = Append(listeners, c)
      /\ onTheWay' = [onTheWay EXCEPT ![c] = <<>>]
      /\ known' = [known EXCEPT ![c] = NewClient] /\ missing' = [missing EXCEPT ![c] = {}]
      /\ UNCHANGED <<event, sequence>>
  BY DEF Subscribe
<1>3. listeners' \in Seq(Subscribers) /\ ToSet(listeners') = ToSet(listeners) \cup {c}
  BY <1>1, <1>2, ToSetAppend DEF StreamTypes
<1>4. NewClient \in [previous : Nat, seen : Nat] /\ <<>> \in Seq(EnvelopeType)
  BY DEF NewClient
<1>5. ToSet(listeners) \subseteq Subscribers
  BY <1>1 DEF StreamTypes, ToSet
<1>6. /\ onTheWay' \in [Subscribers -> Seq(EnvelopeType)]
      /\ known' \in [Subscribers -> [previous : Nat, seen : Nat]]
      /\ missing' \in [Subscribers -> SUBSET EnvelopeType]
  BY <1>1, <1>2, <1>4 DEF StreamTypes
<1>7. /\ \A d \in ToSet(listeners) : onTheWay'[d] = onTheWay[d] /\ known'[d] = known[d]
                                    /\ missing'[d] = missing[d]
      /\ onTheWay'[c] = <<>> /\ known'[c] = NewClient /\ missing'[c] = {}
  BY <1>1, <1>2, <1>5 DEF StreamTypes
<1>8. Audience(ToSet(listeners), {c})
  BY <1>1, <1>2, <1>3, <1>6, <1>7 DEF Audience, StreamTypes
<1>9. QED
  BY <1>8, AudienceKeeps

LEMMA UnsubscribeKeeps == ASSUME StreamInv, NEW c \in Subscribers, Unsubscribe(c) PROVE StreamInv'
<1>1. StreamTypes
  BY DEF StreamInv
<1>2. /\ c \in ToSet(listeners) /\ listeners' = RemoveAt(listeners, PlaceOf(c))
      /\ onTheWay' = [onTheWay EXCEPT ![c] = <<>>]
      /\ UNCHANGED <<event, sequence, known, missing>>
  BY DEF Unsubscribe
<1>3. PlaceOf(c) \in DOMAIN listeners
  BY <1>2 DEF PlaceOf, ToSet
<1>4. listeners' \in Seq(Subscribers) /\ ToSet(listeners') \subseteq ToSet(listeners)
  BY <1>1, <1>2, <1>3, ToSetRemoveAt DEF StreamTypes
<1>5. ToSet(listeners) \subseteq Subscribers
  BY <1>1 DEF StreamTypes, ToSet
<1>6. onTheWay' \in [Subscribers -> Seq(EnvelopeType)] /\ onTheWay'[c] = <<>>
      /\ \A d \in Subscribers \ {c} : onTheWay'[d] = onTheWay[d]
  BY <1>1, <1>2 DEF StreamTypes
<1>7. StreamTypes'
  BY <1>1, <1>2, <1>4, <1>6 DEF StreamTypes
<1>8. ASSUME NEW d \in ToSet(listeners')
      PROVE  \E S : Follows(d, S)'
  <2>1. PICK S : Follows(d, S)
    BY <1>4 DEF StreamInv
  <2>2. ToSet(onTheWay'[d]) \subseteq ToSet(onTheWay[d])
    <3>1. CASE d = c
      BY <1>6, <3>1 DEF ToSet
    <3>2. CASE d # c
      BY <1>4, <1>5, <1>6, <3>2
    <3>3. QED
      BY <3>1, <3>2
  <2>3. Follows(d, S)'
    BY <1>2, <2>1, <2>2 DEF Follows, Rising
  <2>4. QED
    BY <2>3
<1>9. QED
  BY <1>7, <1>8 DEF StreamInv

LEMMA RestartKeeps == ASSUME StreamInv, Restart PROVE StreamInv'
<1>1. StreamTypes
  BY DEF StreamInv
<1>2. /\ sequence' = 0 /\ listeners' = <<>> /\ onTheWay' = [c \in Subscribers |-> <<>>]
      /\ UNCHANGED <<event, known, missing>>
  BY DEF Restart
<1>3. listeners' \in Seq(Subscribers) /\ ToSet(listeners') = {} /\ 0 \in Nat
      /\ onTheWay' \in [Subscribers -> Seq(EnvelopeType)]
  BY <1>2 DEF ToSet
<1>4. Audience({}, {})
  BY <1>1, <1>2, <1>3 DEF Audience, StreamTypes
<1>5. QED
  BY <1>4, AudienceKeeps

(* The new envelope has a later event and a larger number than all before. *)
LEMMA PublishKeeps == ASSUME StreamInv, Publish PROVE StreamInv'
<1>1. StreamTypes /\ event \in Nat /\ sequence \in Nat
  BY DEF StreamInv, StreamTypes
<1>2. event' = event + 1 /\ UNCHANGED <<listeners, known, missing>>
  BY DEF Publish
<1>3. ToSet(listeners) \subseteq Subscribers
  BY <1>1 DEF StreamTypes, ToSet
<1>4. CASE ~healthy
  <2>1. UNCHANGED <<sequence, onTheWay>>
    BY <1>4 DEF Publish
  <2>2. StreamTypes'
    BY <1>1, <1>2, <2>1 DEF StreamTypes
  <2>3. ASSUME NEW c \in ToSet(listeners)
        PROVE  \E S : Follows(c, S)'
    <3>1. PICK S : Follows(c, S)
      BY DEF StreamInv
    <3>2. Rising(S)'
      BY <1>1, <1>2, <2>1, <3>1 DEF Follows, Rising, EnvelopeType
    <3>3. Follows(c, S)'
      BY <1>2, <2>1, <3>1, <3>2 DEF Follows
    <3>4. QED
      BY <3>3
  <2>4. QED
    BY <1>2, <2>2, <2>3 DEF StreamInv
<1>5. CASE healthy
  <2>1. /\ sequence' = sequence + Len(listeners)
        /\ onTheWay' = [c \in Subscribers |->
                          IF c \in ToSet(listeners) THEN Append(onTheWay[c], Envelope(c, event'))
                                                    ELSE onTheWay[c]]
    BY <1>5 DEF Publish
  <2>2. Len(listeners) \in Nat /\ DOMAIN listeners = 1 .. Len(listeners)
    BY <1>1 DEF StreamTypes
  <2>3. ASSUME NEW c \in ToSet(listeners)
        PROVE  /\ Envelope(c, event') \in EnvelopeType
               /\ Envelope(c, event').event = event + 1
               /\ Envelope(c, event').sequence > sequence
               /\ Envelope(c, event').sequence <= sequence'
    <3>1. PlaceOf(c) \in 1 .. Len(listeners)
      BY <2>2 DEF PlaceOf, ToSet
    <3>2. QED
      BY <1>1, <1>2, <2>1, <2>2, <3>1 DEF Envelope, EnvelopeType
  <2>4. sequence' \in Nat /\ event' \in Nat
    BY <1>1, <1>2, <2>1, <2>2
  <2>5. onTheWay' \in [Subscribers -> Seq(EnvelopeType)]
    <3>1. ASSUME NEW c \in ToSet(listeners)
          PROVE  Append(onTheWay[c], Envelope(c, event')) \in Seq(EnvelopeType)
      BY <1>1, <1>3, <2>3, ToSetAppend DEF StreamTypes
    <3>2. QED
      BY <1>1, <2>1, <3>1 DEF StreamTypes
  <2>6. StreamTypes'
    BY <1>1, <1>2, <2>4, <2>5 DEF StreamTypes
  <2>7. ASSUME NEW c \in ToSet(listeners)
        PROVE  \E S : Follows(c, S)'
    <3>1. PICK S : Follows(c, S)
      BY DEF StreamInv
    <3>0. PICK x : x = Envelope(c, event')
      OBVIOUS
    <3>2. x \in EnvelopeType /\ x.event = event + 1 /\ x.sequence > sequence /\ x.sequence <= sequence'
      BY <2>3, <3>0
    <3>3. ToSet(onTheWay'[c]) = ToSet(onTheWay[c]) \cup {x}
      <4>1. onTheWay'[c] = Append(onTheWay[c], x) /\ onTheWay[c] \in Seq(EnvelopeType)
        BY <1>1, <1>3, <2>1, <3>0 DEF StreamTypes
      <4>2. QED
        BY <3>2, <4>1, ToSetAppend
    <3>4. \A y \in S : /\ y.sequence \in Nat /\ y.event \in Nat
                       /\ y.sequence <= sequence /\ y.event <= event
      BY <3>1 DEF Follows, Rising, EnvelopeType
    <3>5. x.sequence \in Nat /\ x.event \in Nat
      BY <3>2 DEF EnvelopeType
    <3>6. Rising(S \cup {x})'
      <4>1. \A y \in S : ~(x.event < y.event) /\ ~(x.sequence < y.sequence)
                         /\ y.event < x.event /\ y.sequence < x.sequence
        BY <1>1, <3>2, <3>4, <3>5
      <4>2. \A y, z \in S \cup {x} : y.event < z.event <=> y.sequence < z.sequence
        BY <3>1, <3>5, <4>1 DEF Follows, Rising
      <4>3. \A y \in S \cup {x} : y.sequence <= sequence' /\ y.event <= event'
        BY <1>1, <1>2, <2>1, <2>2, <3>2, <3>4, <3>5
      <4>4. QED
        BY <3>1, <3>2, <4>2, <4>3 DEF Follows, Rising
    <3>7. x \notin missing[c]
      BY <1>1, <3>1, <3>2, <3>4 DEF Follows
    <3>8. Follows(c, S \cup {x})'
      BY <1>2, <3>1, <3>3, <3>6, <3>7 DEF Follows
    <3>9. QED
      BY <3>8
  <2>8. QED
    BY <1>2, <2>6, <2>7 DEF StreamInv
<1>6. QED
  BY <1>4, <1>5

\* Only what is on the way to c, what it knows and what it misses change.
OnlyClient(c) ==
    /\ UNCHANGED <<event, sequence, listeners>>
    /\ onTheWay'[c] \in Seq(EnvelopeType) /\ onTheWay' = [onTheWay EXCEPT ![c] = onTheWay'[c]]
    /\ known'[c] \in [previous : Nat, seen : Nat] /\ known' = [known EXCEPT ![c] = known'[c]]
    /\ missing'[c] \subseteq EnvelopeType /\ missing' = [missing EXCEPT ![c] = missing'[c]]

LEMMA ClientKeeps ==
  ASSUME StreamInv, NEW c \in Subscribers, OnlyClient(c),
         c \in ToSet(listeners) => \E S : Follows(c, S)'
  PROVE  StreamInv'
<1>1. StreamTypes
  BY DEF StreamInv
<1>2. StreamTypes'
  BY <1>1 DEF StreamTypes, OnlyClient
<1>3. ToSet(listeners) \subseteq Subscribers
  BY <1>1 DEF StreamTypes, ToSet
<1>4. ASSUME NEW d \in ToSet(listeners), d # c
      PROVE  \E S : Follows(d, S)'
  <2>1. onTheWay'[d] = onTheWay[d] /\ known'[d] = known[d] /\ missing'[d] = missing[d]
    BY <1>1, <1>3, <1>4 DEF OnlyClient, StreamTypes
  <2>2. PICK S : Follows(d, S)
    BY DEF StreamInv
  <2>3. Follows(d, S)'
    BY <2>1, <2>2 DEF Follows, Rising, OnlyClient
  <2>4. QED
    BY <2>3
<1>5. QED
  BY <1>2, <1>4 DEF StreamInv, OnlyClient

\* Not to take an envelope makes it missing, when it was still to be seen.
LEMMA LeavingKeeps ==
  ASSUME StreamInv, NEW c \in Subscribers, NEW i \in DOMAIN onTheWay[c],
         onTheWay' = [onTheWay EXCEPT ![c] = RemoveAt(onTheWay[c], i)],
         missing' = [missing EXCEPT ![c] = MissingWithout(c, i)],
         UNCHANGED <<event, sequence, listeners, known>>
  PROVE  StreamInv'
<1>1. StreamTypes
  BY DEF StreamInv
<1>2. /\ onTheWay' = [onTheWay EXCEPT ![c] = RemoveAt(onTheWay[c], i)]
      /\ missing' = [missing EXCEPT ![c] =
                       IF /\ known[c].previous > 0 /\ onTheWay[c][i].event > known[c].seen
                          /\ onTheWay[c][i] \notin ToSet(RemoveAt(onTheWay[c], i))
                       THEN missing[c] \cup {onTheWay[c][i]} ELSE missing[c]]
  BY DEF MissingWithout
<1>3. UNCHANGED <<event, sequence, listeners, known>>
  OBVIOUS
<1> DEFINE x == onTheWay[c][i]
<1> DEFINE rest == RemoveAt(onTheWay[c], i)
<1>4. onTheWay[c] \in Seq(EnvelopeType) /\ known[c] \in [previous : Nat, seen : Nat]
      /\ missing[c] \subseteq EnvelopeType
  BY <1>1 DEF StreamTypes
<1>5. rest \in Seq(EnvelopeType) /\ ToSet(rest) \subseteq ToSet(onTheWay[c])
  BY <1>4, ToSetRemoveAt
<1>6. x \in ToSet(onTheWay[c]) /\ x \in EnvelopeType
  BY <1>4 DEF ToSet
<1>7. /\ onTheWay'[c] = rest
      /\ missing'[c] = IF known[c].previous > 0 /\ x.event > known[c].seen /\ x \notin ToSet(rest)
                       THEN missing[c] \cup {x} ELSE missing[c]
  BY <1>1, <1>2 DEF StreamTypes
<1> HIDE DEF x, rest
<1>8. OnlyClient(c)
  <2>1. onTheWay' = [onTheWay EXCEPT ![c] = onTheWay'[c]] /\ missing' = [missing EXCEPT ![c] = missing'[c]]
    BY <1>2, <1>7 DEF rest, x
  <2>2. known' = [known EXCEPT ![c] = known'[c]] /\ known'[c] = known[c]
    BY <1>1, <1>3 DEF StreamTypes
  <2>3. missing'[c] \subseteq EnvelopeType
    BY <1>4, <1>6, <1>7
  <2>4. QED
    BY <1>3, <1>4, <1>5, <1>7, <2>1, <2>2, <2>3 DEF OnlyClient
<1>9. ASSUME c \in ToSet(listeners)
      PROVE  \E S : Follows(c, S)'
  <2>1. PICK S : Follows(c, S)
    BY <1>9 DEF StreamInv
  <2>2. Rising(S)'
    BY <1>3, <2>1 DEF Follows, Rising
  <2>3. CASE missing'[c] = missing[c]
    BY <1>3, <1>5, <1>7, <2>1, <2>2, <2>3 DEF Follows
  <2>4. CASE known[c].previous > 0 /\ x.event > known[c].seen /\ x \notin ToSet(rest)
             /\ missing'[c] = missing[c] \cup {x}
    <3>1. known'[c] = known[c] /\ onTheWay'[c] = rest
      BY <1>3, <1>7
    <3>2. x \in S /\ x.event \in Nat /\ known[c].seen \in Nat /\ known[c].previous \in Nat
      BY <1>4, <1>6, <2>1 DEF Follows, EnvelopeType
    <3>3. known[c].seen < x.event /\ known[c].previous # 0
      BY <2>4, <3>2
    <3>4. ToSet(rest) \cup (missing[c] \cup {x}) \subseteq S
      BY <1>5, <2>1, <3>2 DEF Follows
    <3>5. ToSet(rest) \cap (missing[c] \cup {x}) = {}
      BY <1>5, <2>1, <2>4 DEF Follows
    <3>6. Follows(c, S)'
      BY <2>1, <2>2, <2>4, <3>1, <3>3, <3>4, <3>5 DEF Follows
    <3>7. QED
      BY <3>6
  <2>5. QED
    BY <1>7, <2>3, <2>4
<1>10. QED
  BY <1>8, <1>9, ClientKeeps

LEMMA LoseKeeps == ASSUME StreamInv, NEW c \in Subscribers, LoseEnvelope(c) PROVE StreamInv'
<1>1. PICK i \in DOMAIN onTheWay[c] :
        /\ onTheWay' = [onTheWay EXCEPT ![c] = RemoveAt(onTheWay[c], i)]
        /\ missing' = [missing EXCEPT ![c] = MissingWithout(c, i)]
  BY DEF LoseEnvelope
<1>2. UNCHANGED <<event, sequence, listeners, known>>
  BY DEF LoseEnvelope
<1>3. QED
  BY <1>1, <1>2, LeavingKeeps

LEMMA RepeatKeeps == ASSUME StreamInv, NEW c \in Subscribers, Repeat(c) PROVE StreamInv'
<1>1. StreamTypes
  BY DEF StreamInv
<1>2. PICK i \in DOMAIN onTheWay[c] :
        onTheWay' = [onTheWay EXCEPT ![c] = Append(onTheWay[c], onTheWay[c][i])]
  BY DEF Repeat
<1>3. UNCHANGED <<event, sequence, listeners, known, missing>>
  BY DEF Repeat
<1>4. onTheWay[c] \in Seq(EnvelopeType) /\ known[c] \in [previous : Nat, seen : Nat]
      /\ missing[c] \subseteq EnvelopeType
  BY <1>1 DEF StreamTypes
<1>5. onTheWay[c][i] \in ToSet(onTheWay[c]) /\ onTheWay[c][i] \in EnvelopeType
  BY <1>4 DEF ToSet
<1>6. /\ onTheWay'[c] = Append(onTheWay[c], onTheWay[c][i])
      /\ onTheWay'[c] \in Seq(EnvelopeType) /\ ToSet(onTheWay'[c]) = ToSet(onTheWay[c])
  <2>1. onTheWay'[c] = Append(onTheWay[c], onTheWay[c][i])
    BY <1>1, <1>2 DEF StreamTypes
  <2> DEFINE s == onTheWay[c]
  <2> DEFINE x == onTheWay[c][i]
  <2>2. s \in Seq(EnvelopeType) /\ x \in EnvelopeType /\ x \in ToSet(s) /\ onTheWay'[c] = Append(s, x)
    BY <1>4, <1>5, <2>1
  <2> HIDE DEF s, x
  <2>3. Append(s, x) \in Seq(EnvelopeType) /\ ToSet(Append(s, x)) = ToSet(s) \cup {x}
    BY <2>2, ToSetAppend
  <2>4. QED
    BY <2>1, <2>2, <2>3 DEF s, x
<1>7. OnlyClient(c)
  <2>1. onTheWay' = [onTheWay EXCEPT ![c] = onTheWay'[c]]
    BY <1>2, <1>6
  <2>2. /\ known' = [known EXCEPT ![c] = known'[c]] /\ known'[c] = known[c]
        /\ missing' = [missing EXCEPT ![c] = missing'[c]] /\ missing'[c] = missing[c]
    BY <1>1, <1>3 DEF StreamTypes
  <2>3. QED
    BY <1>3, <1>4, <1>6, <2>1, <2>2 DEF OnlyClient
<1>8. ASSUME c \in ToSet(listeners)
      PROVE  \E S : Follows(c, S)'
  <2>1. PICK S : Follows(c, S)
    BY <1>8 DEF StreamInv
  <2>2. Follows(c, S)'
    BY <1>3, <1>6, <2>1 DEF Follows, Rising
  <2>3. QED
    BY <2>2
<1>9. QED
  BY <1>7, <1>8, ClientKeeps

(* What comes without a gap is the very next envelope: whatever is missing  *)
(* comes after it.  After a gap the client has the newest state. *)
LEMMA TakingKeeps ==
  ASSUME StreamInv, NEW c \in Subscribers, NEW i \in DOMAIN onTheWay[c],
         onTheWay' = [onTheWay EXCEPT ![c] = RemoveAt(onTheWay[c], i)],
         known' = [known EXCEPT ![c] = Recovered(c, onTheWay[c][i])],
         missing' = [missing EXCEPT ![c] =
                      IF Gap(known[c].previous, onTheWay[c][i].sequence)
                      THEN {lost \in missing[c] : lost.event > event} ELSE missing[c]],
         UNCHANGED <<event, sequence, listeners>>
  PROVE  StreamInv'
<1>1. StreamTypes /\ event \in Nat
  BY DEF StreamInv, StreamTypes
<1>2. /\ onTheWay' = [onTheWay EXCEPT ![c] = RemoveAt(onTheWay[c], i)]
      /\ known' = [known EXCEPT ![c] = Recovered(c, onTheWay[c][i])]
      /\ missing' = [missing EXCEPT ![c] =
                       IF Gap(known[c].previous, onTheWay[c][i].sequence)
                       THEN {lost \in missing[c] : lost.event > event} ELSE missing[c]]
  OBVIOUS
<1>3. UNCHANGED <<event, sequence, listeners>>
  OBVIOUS
<1> DEFINE x == onTheWay[c][i]
<1> DEFINE rest == RemoveAt(onTheWay[c], i)
<1> DEFINE gap == Gap(known[c].previous, x.sequence)
<1>4. onTheWay[c] \in Seq(EnvelopeType) /\ known[c] \in [previous : Nat, seen : Nat]
      /\ missing[c] \subseteq EnvelopeType
  BY <1>1 DEF StreamTypes
<1>5. rest \in Seq(EnvelopeType) /\ ToSet(rest) \subseteq ToSet(onTheWay[c])
  BY <1>4, ToSetRemoveAt
<1>6. x \in ToSet(onTheWay[c]) /\ x \in EnvelopeType
  BY <1>4 DEF ToSet
<1>7. /\ onTheWay'[c] = rest
      /\ known'[c] = [previous |-> x.sequence, seen |-> IF gap THEN event ELSE x.event]
      /\ missing'[c] = IF gap THEN {lost \in missing[c] : lost.event > event} ELSE missing[c]
  BY <1>1, <1>2 DEF StreamTypes, Recovered, Rebuilt, Applied
<1> HIDE DEF x, rest, gap
<1>8. x.sequence \in Nat \ {0} /\ x.event \in Nat /\ known[c].previous \in Nat /\ known[c].seen \in Nat
  BY <1>4, <1>6 DEF EnvelopeType
<1>9. OnlyClient(c)
  <2>1. /\ onTheWay' = [onTheWay EXCEPT ![c] = onTheWay'[c]]
        /\ known' = [known EXCEPT ![c] = known'[c]]
        /\ missing' = [missing EXCEPT ![c] = missing'[c]]
    BY <1>1, <1>2 DEF StreamTypes
  <2>2. known'[c] \in [previous : Nat, seen : Nat] /\ missing'[c] \subseteq EnvelopeType
    BY <1>1, <1>4, <1>7, <1>8
  <2>3. QED
    BY <1>3, <1>5, <1>7, <2>1, <2>2 DEF OnlyClient
<1>10. ASSUME c \in ToSet(listeners)
       PROVE  \E S : Follows(c, S)'
  <2>1. PICK S : Follows(c, S)
    BY <1>10 DEF StreamInv
  <2>2. Rising(S)'
    BY <1>3, <2>1 DEF Follows, Rising
  <2>3. x \in S /\ x.event <= event
    BY <1>6, <2>1 DEF Follows, Rising
  <2>4. CASE gap
    <3>1. missing'[c] = {}
      <4>1. \A lost \in missing[c] : lost.event \in Nat /\ lost.event <= event
        BY <1>4, <2>1 DEF Follows, Rising, EnvelopeType
      <4>2. QED
        BY <1>1, <1>7, <2>4, <4>1
    <3>2. known'[c].previous = x.sequence /\ known'[c].seen = event
      BY SMTT(40), <1>7, <2>4
    <3>3. Follows(c, S)'
      BY <1>3, <1>5, <1>7, <1>8, <2>1, <2>2, <2>3, <3>1, <3>2 DEF Follows
    <3>4. QED
      BY <3>3
  <2>5. CASE ~gap
    <3>1. missing'[c] = missing[c] /\ known'[c].previous = x.sequence /\ known'[c].seen = x.event
      BY <1>7, <2>5
    <3>2. ASSUME NEW lost \in missing[c]
          PROVE  x.event < lost.event
      <4>1. /\ lost \in S /\ lost \in EnvelopeType /\ known[c].seen < lost.event
            /\ lost \notin ToSet(onTheWay[c]) /\ known[c].previous > 0
        BY <1>4, <1>8, <2>1 DEF Follows
      <4>2. PICK y \in S : y.sequence = known[c].previous /\ y.event <= known[c].seen
        BY <2>1, <4>1 DEF Follows
      <4>3. /\ lost.event \in Nat /\ lost.sequence \in Nat /\ y.event \in Nat /\ y.sequence \in Nat
        BY <2>1, <4>1, <4>2 DEF Follows, Rising, EnvelopeType
      <4>4. y.sequence < lost.sequence
        <5>1. y.event < lost.event
          BY <1>8, <4>1, <4>2, <4>3
        <5>2. QED
          BY <2>1, <4>1, <4>2, <5>1 DEF Follows, Rising
      <4>5. x.sequence = known[c].previous + 1
        BY <1>8, <2>5, <4>1 DEF Gap, gap
      <4>6. ~(lost.event < x.event)
        <5>1. ~(lost.sequence < x.sequence)
          BY <4>2, <4>3, <4>4, <4>5, <1>8
        <5>2. QED
          BY <2>1, <2>3, <4>1, <5>1 DEF Follows, Rising
      <4>7. lost.event # x.event
        <5>1. SUFFICES ASSUME lost.event = x.event PROVE FALSE
          OBVIOUS
        <5>2. ~(lost.event < x.event) /\ ~(x.event < lost.event)
          BY <1>8, <4>3, <5>1
        <5>3. ~(lost.sequence < x.sequence) /\ ~(x.sequence < lost.sequence)
          BY <2>1, <2>3, <4>1, <5>2 DEF Follows, Rising
        <5>4. lost.sequence = x.sequence
          BY <1>8, <4>3, <5>3
        <5>5. lost = x
          BY <1>6, <4>1, <5>1, <5>4 DEF EnvelopeType
        <5>6. QED
          BY <1>6, <4>1, <5>5
      <4>8. QED
        BY <1>8, <4>3, <4>6, <4>7
    <3>3. Follows(c, S)'
      BY <1>3, <1>5, <1>7, <1>8, <2>1, <2>2, <2>3, <3>1, <3>2 DEF Follows
    <3>4. QED
      BY <3>3
  <2>6. QED
    BY <2>4, <2>5
<1>11. QED
  BY <1>9, <1>10, ClientKeeps

LEMMA ReceiveKeeps == ASSUME StreamInv, NEW c \in Subscribers, Receive(c) PROVE StreamInv'
<1>1. PICK i \in DOMAIN onTheWay[c] :
        /\ onTheWay' = [onTheWay EXCEPT ![c] = RemoveAt(onTheWay[c], i)]
        /\ \/ /\ missing' = [missing EXCEPT ![c] = MissingWithout(c, i)]
              /\ UNCHANGED known
           \/ /\ known' = [known EXCEPT ![c] = Recovered(c, onTheWay[c][i])]
              /\ missing' = [missing EXCEPT ![c] =
                               IF Gap(known[c].previous, onTheWay[c][i].sequence)
                               THEN {lost \in missing[c] : lost.event > event} ELSE missing[c]]
  BY DEF Receive
<1>2. UNCHANGED <<event, sequence, listeners>>
  BY DEF Receive
<1>3. CASE missing' = [missing EXCEPT ![c] = MissingWithout(c, i)] /\ UNCHANGED known
  BY <1>1, <1>2, <1>3, LeavingKeeps
<1>4. CASE /\ known' = [known EXCEPT ![c] = Recovered(c, onTheWay[c][i])]
           /\ missing' = [missing EXCEPT ![c] =
                            IF Gap(known[c].previous, onTheWay[c][i].sequence)
                            THEN {lost \in missing[c] : lost.event > event} ELSE missing[c]]
  BY <1>1, <1>2, <1>4, TakingKeeps
<1>5. QED
  BY <1>1, <1>3, <1>4

LEMMA StreamInvStep == StreamInv /\ [StreamNext]_streamVars => StreamInv'
<1> SUFFICES ASSUME StreamInv, [StreamNext]_streamVars
             PROVE  StreamInv'
  OBVIOUS
<1>1. CASE OracleTurns \/ UNCHANGED streamVars
  <2>1. UNCHANGED <<event, sequence, listeners, onTheWay, known, missing>>
    BY <1>1 DEF OracleTurns, streamVars
  <2>2. QED
    BY ZenonT(60), <2>1 DEF StreamInv, StreamTypes, Follows, Rising
<1>2. QED
  BY <1>1, SubscribeKeeps, UnsubscribeKeeps, ReceiveKeeps, LoseKeeps, RepeatKeeps, PublishKeeps,
     RestartKeeps DEF StreamNext

(* A client that listens has not passed an envelope it lost: it either has  *)
(* not reached it or has rebuilt its state since (websocket-stream.js),     *)
(* whatever is lost, repeated or overtaken, for any number of listeners,    *)
(* events and faults.                                                       *)
THEOREM EveryGapIsNoticed == StreamSpec => []NoSilentGap
<1>1. StreamInit => StreamInv
  <2>1. SUFFICES ASSUME StreamInit PROVE StreamInv
    OBVIOUS
  <2>2. NewClient \in [previous : Nat, seen : Nat] /\ <<>> \in Seq(EnvelopeType)
        /\ <<>> \in Seq(Subscribers) /\ ToSet(<<>>) = {}
    BY DEF NewClient, ToSet
  <2>3. QED
    BY <2>1, <2>2 DEF StreamInit, StreamInv, StreamTypes
<1>2. StreamInv => NoSilentGap
  BY DEF StreamInv, NoSilentGap, Follows
<1>3. QED
  BY <1>1, <1>2, StreamInvStep, PTL DEF StreamSpec

-----------------------------------------------------------------------------
(* The settlement of losses: the insurance fund follows the fees and the     *)
(* cross reserves the book.                                                  *)

TraderPosition == [qty : Nat, cost : Int, collateral : Nat]
InsuranceFund == [balance : Int, covered : Int, badDebt : Int, version : Nat]

SettlementTypes ==
    /\ traderMark \in Nat
    /\ accounts \in [Traders -> Account]
    /\ \A t \in Traders : accounts[t].fees \in Nat
    /\ position \in [Traders -> [Sides -> TraderPosition]]
    /\ fund \in InsuranceFund

\* A preview whose base is still the fund's version was computed from this fund.
PreviewFits ==
    preview # NoPreview =>
        /\ preview.base \in Nat /\ preview.base <= fund.version
        /\ preview.fund \in InsuranceFund
        /\ preview.base = fund.version =>
             preview.fund.balance + preview.fund.covered = fund.balance + fund.covered

SettlementInv == SettlementTypes /\ PreviewFits /\ FundMatchesFees /\ CrossReserveMatchesBook

(* Covering a loss moves money within the fund. *)
LEMMA CoverageConserves ==
  ASSUME NEW f \in InsuranceFund, NEW loss \in Int
  PROVE  LET p == Coverage(f, loss)
         IN  /\ p.base = f.version /\ p.fund \in InsuranceFund
             /\ p.fund.version = f.version + 1
             /\ p.fund.balance + p.fund.covered = f.balance + f.covered
<1> DEFINE covered == Least(loss, Least(f.balance, CoverageCap))
<1>1. f.balance \in Int /\ f.covered \in Int /\ f.badDebt \in Int /\ f.version \in Nat
  BY DEF InsuranceFund
<1>2. covered \in Int
  BY <1>1, SettlementAssumption DEF Least
<1> DEFINE g == [f EXCEPT !.balance = @ - covered, !.covered = @ + covered,
                          !.badDebt = @ + loss - covered, !.version = @ + 1]
<1>3. Coverage(f, loss).fund = g /\ Coverage(f, loss).base = f.version
  BY DEF Coverage
<1> HIDE DEF covered
<1>4. g \in InsuranceFund /\ g.version = f.version + 1 /\ g.balance = f.balance - covered
      /\ g.covered = f.covered + covered
  <2> DEFINE b == f.balance - covered
             c == f.covered + covered
             d == f.badDebt + loss - covered
             v == f.version + 1
  <2>1. b \in Int /\ c \in Int /\ d \in Int /\ v \in Nat
    BY <1>1, <1>2
  <2>2. g = [f EXCEPT !.balance = b, !.covered = c, !.badDebt = d, !.version = v]
    OBVIOUS
  <2> HIDE DEF g, b, c, d, v
  <2>3. g \in InsuranceFund /\ g.version = v /\ g.balance = b /\ g.covered = c
    BY <2>1, <2>2 DEF InsuranceFund
  <2>4. QED
    BY <2>3 DEF b, c, v
<1> HIDE DEF g
<1>5. g.balance + g.covered = f.balance + f.covered
  BY <1>1, <1>2, <1>4
<1>6. QED
  BY <1>3, <1>4, <1>5

(* What a position and an account are worth is an integer. *)
LEMMA EquityIsInt ==
  ASSUME SettlementTypes, NEW t \in Traders
  PROVE  Equity(t) \in Int /\ BadDebt(t) \in Int
<1>1. accounts[t].cash \in Int /\ accounts[t].cross \in Int /\ traderMark \in Int
  BY DEF SettlementTypes, Account
<1>2. ASSUME NEW side \in Sides PROVE Pnl(At(t, side), traderMark) \in Int
  <2>1. position[t][side] \in TraderPosition
    BY DEF SettlementTypes
  <2>2. /\ At(t, side).side = side
        /\ At(t, side).qty = position[t][side].qty
        /\ At(t, side).cost = position[t][side].cost
    BY <2>1 DEF At, TraderPosition, Sides
  <2>3. QED
    BY <1>1, <2>1, <2>2 DEF Pnl, Direction, TraderPosition
<1>3. "LONG" \in Sides /\ "SHORT" \in Sides
  BY DEF Sides
<1>4. SumSides([side \in Sides |-> Pnl(At(t, side), traderMark)]) \in Int
  <2>1. Pnl(At(t, "LONG"), traderMark) \in Int /\ Pnl(At(t, "SHORT"), traderMark) \in Int
    BY <1>2, <1>3
  <2>2. SumSides([side \in Sides |-> Pnl(At(t, side), traderMark)])
          = Pnl(At(t, "LONG"), traderMark) + Pnl(At(t, "SHORT"), traderMark)
    BY <1>3 DEF SumSides
  <2>3. QED
    BY <2>1, <2>2
<1>5. Equity(t) \in Int
  BY <1>1, <1>4 DEF Equity, CrossWallet
<1>6. QED
  BY <1>5 DEF BadDebt

(* While nobody is charged and the fund keeps its sum, the fund follows the  *)
(* fees; a preview stays right while the version grows with every change. *)
LEMMA FeesFollow ==
  ASSUME SettlementInv, SettlementTypes', fund'.balance + fund'.covered = fund.balance + fund.covered,
         \A t \in Traders : accounts'[t].fees = accounts[t].fees
  PROVE  FundMatchesFees'
<1>1. [t \in Traders |-> accounts'[t].fees] = [t \in Traders |-> accounts[t].fees]
  OBVIOUS
<1>2. QED
  BY <1>1 DEF SettlementInv, FundMatchesFees

\* A fund that moves on makes a preview stale, never wrong.
LEMMA PreviewKept ==
  ASSUME SettlementInv, preview' = preview,
         fund' = fund \/ (fund' \in InsuranceFund /\ fund'.version = fund.version + 1)
  PROVE  PreviewFits'
<1>1. fund.version \in Nat
  BY DEF SettlementInv, SettlementTypes, InsuranceFund
<1>2. QED
  BY <1>1 DEF SettlementInv, PreviewFits

\* A step that touches neither reserves nor book keeps them equal.
LEMMA CrossKept ==
  ASSUME SettlementInv, position' = position,
         \A t \in Traders : accounts'[t].cross = accounts[t].cross
  PROVE  CrossReserveMatchesBook'
BY DEF SettlementInv, CrossReserveMatchesBook

(* Every step but settling a fee: nobody is charged. *)
ChargesNobody == \A t \in Traders : accounts'[t].fees = accounts[t].fees

\* At first no fee was charged and nothing is reserved.
LEMMA SettlementStarts == SettlementInit => SettlementInv
<1> SUFFICES ASSUME SettlementInit PROVE SettlementInv
  OBVIOUS
<1> USE DEF SettlementInit
<1>1. TraderBalance \in Nat /\ FundBalance \in Nat /\ TraderMarks \subseteq Nat
      /\ InsuranceShare \in Nat \ {0} /\ IsFiniteSet(Traders)
  BY SettlementAssumption
<1>2. accounts \in [Traders -> Account] /\ \A t \in Traders : accounts[t].fees = 0
                                        /\ accounts[t].cross = 0
  BY <1>1 DEF NewAccount, Account
<1>3. position \in [Traders -> [Sides -> TraderPosition]]
  BY DEF NoPosition, TraderPosition
<1>4. fund \in InsuranceFund /\ fund.balance = FundBalance /\ fund.covered = 0
  BY <1>1 DEF InsuranceFund
<1>5. SettlementTypes
  BY <1>1, <1>2, <1>3, <1>4 DEF SettlementTypes
<1>6. PreviewFits
  BY DEF PreviewFits
<1>7. FundMatchesFees
  <2> DEFINE f == [t \in Traders |-> accounts[t].fees]
  <2>1. f \in [Traders -> Nat] /\ \A t \in Traders : f[t] = 0
    BY <1>2
  <2> HIDE DEF f
  <2>2. TotalOf(f) = 0
    BY <1>1, <2>1, TotalOfNothing
  <2>3. 0 \div InsuranceShare = 0
    BY <1>1
  <2>4. fund.balance + fund.covered = FundBalance + TotalOf(f) \div InsuranceShare
    BY <1>1, <1>4, <2>2, <2>3
  <2>5. QED
    BY <2>4 DEF FundMatchesFees, f
<1>8. CrossReserveMatchesBook
  BY <1>2 DEF CrossReserveMatchesBook, SumSides, Sides, NoPosition
<1>9. QED
  BY <1>5, <1>6, <1>7, <1>8 DEF SettlementInv

(* A shift changes the cash and the reserve of its mode. *)
LEMMA ShiftKeeps ==
  ASSUME NEW a \in Account, NEW delta \in Int, NEW moved \in Int
  PROVE  LET s == Shift(a, "CROSS", delta, moved)
         IN  s \in Account /\ s.cross = a.cross + delta /\ s.fees = a.fees
<1> DEFINE c == a.cash + moved
           i == a.isolated
           x == a.cross + delta
<1>1. Shift(a, "CROSS", delta, moved) = [a EXCEPT !.cash = c, !.isolated = i, !.cross = x]
  BY DEF Shift
<1>2. c \in Int /\ i \in Int /\ x \in Int
  BY DEF Account
<1> HIDE DEF c, i, x
<1>3. LET s == [a EXCEPT !.cash = c, !.isolated = i, !.cross = x]
      IN  s \in Account /\ s.cross = x /\ s.fees = a.fees
  BY <1>2 DEF Account
<1>4. QED
  BY <1>1, <1>3 DEF x

(* A fill adds the same margin to the reserve and to the position. *)
LEMMA FillKeeps ==
  ASSUME SettlementInv, NEW t \in Traders, NEW side \in Sides, NEW q \in Lots, Open(t, side, q)
  PROVE  SettlementInv'
<1> USE DEF SettlementInv
<1> DEFINE p == position[t][side]
           margin == (q * traderMark) \div MaxLeverage
           a == Reserve(accounts[t], margin, "CROSS")
           r == [p EXCEPT !.qty = @ + q, !.cost = @ + q * traderMark, !.collateral = @ + margin]
<1>1. /\ accounts' = [accounts EXCEPT ![t] = a]
      /\ position' = [position EXCEPT ![t][side] = r]
      /\ UNCHANGED <<traderMark, fund, preview>>
  BY DEF Open
<1>2. q \in Nat /\ MaxLeverage \in Nat \ {0} /\ traderMark \in Nat
  BY SettlementAssumption, MarginAssumption DEF SettlementTypes
<1>3. margin \in Nat /\ q * traderMark \in Nat
  BY <1>2, MulNat, DivNat
<1>4. p \in TraderPosition /\ p.qty \in Nat /\ p.cost \in Int /\ p.collateral \in Nat
  <2>1. p \in TraderPosition
    BY DEF SettlementTypes
  <2>2. QED
    BY <2>1 DEF TraderPosition
<1> HIDE DEF margin, p
<1>5. a \in Account /\ a.cross = accounts[t].cross + margin /\ a.fees = accounts[t].fees
  <2> DEFINE minus == -margin
  <2>1. accounts[t] \in Account /\ margin \in Int /\ minus \in Int
    BY <1>3 DEF SettlementTypes
  <2>2. a = Shift(accounts[t], "CROSS", margin, minus)
    BY DEF Reserve
  <2> HIDE DEF a, minus
  <2>3. QED
    BY <2>1, <2>2, ShiftKeeps
<1>6. r \in TraderPosition /\ r.collateral = p.collateral + margin
  <2> DEFINE x == p.qty + q
             y == p.cost + q * traderMark
             z == p.collateral + margin
  <2>2. x \in Nat /\ y \in Int /\ z \in Nat
    BY <1>2, <1>3, <1>4
  <2>3. r = [p EXCEPT !.qty = x, !.cost = y, !.collateral = z]
    OBVIOUS
  <2> HIDE DEF r, x, y, z
  <2>4. r \in TraderPosition /\ r.collateral = z
    BY <1>4, <2>2, <2>3 DEF TraderPosition
  <2>5. QED
    BY <2>4 DEF z
<1> HIDE DEF a, r
<1>7. accounts' \in [Traders -> Account] /\ position' \in [Traders -> [Sides -> TraderPosition]]
  BY <1>1, <1>5, <1>6 DEF SettlementTypes
<1>8. \A u \in Traders : /\ accounts'[u].fees = accounts[u].fees
                         /\ accounts'[u].cross
                              = IF u = t THEN accounts[u].cross + margin ELSE accounts[u].cross
  BY <1>1, <1>5 DEF SettlementTypes
<1>9. \A u \in Traders, s \in Sides :
        position'[u][s] = IF u = t /\ s = side THEN r ELSE position[u][s]
  BY <1>1 DEF SettlementTypes, p
<1>10. SettlementTypes'
  BY <1>1, <1>7, <1>8 DEF SettlementTypes
<1>11. PreviewFits'
  BY <1>1, PreviewKept
<1>12. FundMatchesFees'
  BY <1>1, <1>8, <1>10, FeesFollow
<1>13. CrossReserveMatchesBook'
  <2> SUFFICES ASSUME NEW u \in Traders
               PROVE  accounts'[u].cross = SumSides([s \in Sides |-> position'[u][s].collateral])
    BY DEF CrossReserveMatchesBook
  <2>1. \A s \in Sides : position[u][s].collateral \in Nat
    <3> TAKE s \in Sides
    <3>1. position[u][s] \in TraderPosition
      BY DEF SettlementTypes
    <3>2. QED
      BY <3>1 DEF TraderPosition
  <2>2. accounts[u].cross = position[u]["LONG"].collateral + position[u]["SHORT"].collateral
    BY DEF CrossReserveMatchesBook, SumSides, Sides
  <2>3. accounts'[u].cross = position'[u]["LONG"].collateral + position'[u]["SHORT"].collateral
    <3>1. CASE u # t
      BY <1>8, <1>9, <2>2, <3>1 DEF Sides
    <3>2. CASE u = t /\ side = "LONG"
      <4>1. position'[u]["LONG"] = r /\ position'[u]["SHORT"] = position[u]["SHORT"]
        BY <1>9, <3>2 DEF Sides
      <4>2. position[u]["LONG"].collateral \in Nat /\ position[u]["SHORT"].collateral \in Nat
        BY <2>1 DEF Sides
      <4>3. QED
        BY <1>3, <1>6, <1>8, <2>2, <3>2, <4>1, <4>2 DEF p
    <3>3. CASE u = t /\ side = "SHORT"
      <4>1. position'[u]["SHORT"] = r /\ position'[u]["LONG"] = position[u]["LONG"]
        BY <1>9, <3>3 DEF Sides
      <4>2. position[u]["LONG"].collateral \in Nat /\ position[u]["SHORT"].collateral \in Nat
        BY <2>1 DEF Sides
      <4>3. QED
        BY <1>3, <1>6, <1>8, <2>2, <3>3, <4>1, <4>2 DEF p
    <3>4. QED
      BY <3>1, <3>2, <3>3 DEF Sides
  <2>4. QED
    BY <2>3 DEF SumSides, Sides
<1>14. QED
  BY <1>10, <1>11, <1>12, <1>13

(* Settling a fee: the account is charged and the fund gets its share, or    *)
(* neither. *)
LEMMA SettleTradeKeeps ==
  ASSUME SettlementInv, NEW t \in Traders, NEW fee \in Fees, NEW refused \in BOOLEAN,
         SettleTrade(t, fee, refused)
  PROVE  SettlementInv'
<1> USE DEF SettlementInv
<1>1. UNCHANGED <<traderMark, position, preview>>
  BY DEF SettleTrade
<1>2. CASE refused
  <2>1. UNCHANGED <<accounts, fund>>
    BY <1>2 DEF SettleTrade
  <2>2. SettlementTypes'
    BY <1>1, <2>1 DEF SettlementTypes
  <2>3. QED
    BY <1>1, <2>1, <2>2, FeesFollow, PreviewKept, CrossKept
<1>3. CASE ~refused
  <2> DEFINE a == SettleTradingFee(accounts[t], fee)
             share == fee \div InsuranceShare
             f == [u \in Traders |-> accounts[u].fees]
             g == [u \in Traders |-> accounts'[u].fees]
  <2>1. accounts' = [accounts EXCEPT ![t] = a] /\ fund' = Deposit(fund, share)
    BY <1>3 DEF SettleTrade
  <2>2. fee \in Nat /\ fee % InsuranceShare = 0 /\ InsuranceShare \in Nat \ {0}
        /\ IsFiniteSet(Traders) /\ FundBalance \in Nat
    BY SettlementAssumption
  <2>3. share \in Nat /\ fee = share * InsuranceShare
    BY <2>2
  <2>4. accounts[t] \in Account /\ accounts[t].fees \in Nat /\ accounts[t].cash \in Int
    BY DEF SettlementTypes, Account
  <2>5. a \in Account /\ a.fees = accounts[t].fees + fee /\ a.cross = accounts[t].cross
    <3>1. ASSUME NEW c \in Int, NEW n \in Int
          PROVE  LET b == [accounts[t] EXCEPT !.cash = c, !.fees = n]
                 IN  b \in Account /\ b.fees = n /\ b.cross = accounts[t].cross
      BY <2>4 DEF Account
    <3>2. accounts[t].cash - fee \in Int /\ accounts[t].fees + fee \in Int
      BY <2>2, <2>4
    <3>3. QED
      BY <3>1, <3>2 DEF SettleTradingFee
  <2>6. /\ fund' \in InsuranceFund /\ fund'.version = fund.version + 1
        /\ fund'.balance = fund.balance + share /\ fund'.covered = fund.covered
    <3>1. fund \in InsuranceFund /\ fund.balance + share \in Int /\ fund.version + 1 \in Nat
      BY <2>3 DEF SettlementTypes, InsuranceFund
    <3>2. ASSUME NEW b \in Int, NEW v \in Nat
          PROVE  LET h == [fund EXCEPT !.balance = b, !.version = v]
                 IN  h \in InsuranceFund /\ h.version = v /\ h.balance = b
                     /\ h.covered = fund.covered
      BY <3>1 DEF InsuranceFund
    <3>3. fund' = [fund EXCEPT !.balance = fund.balance + share, !.version = fund.version + 1]
      BY <2>1 DEF Deposit
    <3> HIDE DEF share
    <3>4. QED
      BY ZenonT(60), <3>1, <3>2, <3>3
  <2> HIDE DEF a, share
  <2>7. accounts' \in [Traders -> Account]
        /\ \A u \in Traders : accounts'[u].cross = accounts[u].cross
                              /\ accounts'[u].fees \in Nat
    BY <2>1, <2>2, <2>4, <2>5 DEF SettlementTypes
  <2>8. SettlementTypes'
    BY <1>1, <2>6, <2>7 DEF SettlementTypes
  <2> DEFINE n == f[t] + fee
  <2>9. f \in [Traders -> Nat] /\ g = [f EXCEPT ![t] = n] /\ n \in Nat
    <3>1. f \in [Traders -> Nat] /\ f[t] = accounts[t].fees
      BY DEF SettlementTypes
    <3>2. n \in Nat
      BY <2>2, <2>4, <3>1
    <3>3. g = [f EXCEPT ![t] = n]
      BY <2>1, <2>5, <3>1 DEF SettlementTypes
    <3>4. QED
      BY <3>1, <3>2, <3>3
  <2> HIDE DEF f, g
  <2>10. TotalOf(g) = TotalOf(f) + fee /\ TotalOf(f) \in Nat
    <3>1. TotalOf(f) \in Nat /\ f[t] \in Nat
      BY <2>2, <2>9, TotalIsNat
    <3> HIDE DEF n
    <3>2. TotalOf([f EXCEPT ![t] = n]) = TotalOf(f) - f[t] + n
      BY ZenonT(60), <2>2, <2>9, TotalOfUpdate
    <3>3. TotalOf(g) = TotalOf(f) - f[t] + n
      BY <2>9, <3>2
    <3>4. QED
      BY <2>2, <3>1, <3>3 DEF n
  <2>11. TotalOf(g) \div InsuranceShare = (TotalOf(f) \div InsuranceShare) + share
    <3>1. PICK sum \in Nat : sum = TotalOf(f)
      BY <2>10
    <3>2. (sum + share * InsuranceShare) \div InsuranceShare = (sum \div InsuranceShare) + share
      BY ZenonT(60), <2>2, <2>3, DivShift
    <3>3. TotalOf(g) = sum + share * InsuranceShare
      BY <2>3, <2>10, <3>1
    <3>4. QED
      BY <3>1, <3>2, <3>3
  <2>12. fund.balance + fund.covered = FundBalance + (TotalOf(f) \div InsuranceShare)
    BY DEF FundMatchesFees, f
  <2>13. fund'.balance + fund'.covered = FundBalance + (TotalOf(g) \div InsuranceShare)
    <3>1. TotalOf(f) \div InsuranceShare \in Nat
      BY <2>2, <2>10, DivNat
    <3>2. fund.balance \in Int /\ fund.covered \in Int
      BY DEF SettlementTypes, InsuranceFund
    <3>3. QED
      BY <2>2, <2>3, <2>6, <2>11, <2>12, <3>1, <3>2
  <2>14. FundMatchesFees'
    BY <2>13 DEF FundMatchesFees, g
  <2>15. PreviewFits' /\ CrossReserveMatchesBook'
    BY <1>1, <2>6, <2>7, PreviewKept, CrossKept
  <2>16. QED
    BY <2>8, <2>14, <2>15
<1>4. QED
  BY <1>2, <1>3

(* A funding payment moves cash: no reserve, no fee. *)
LEMMA FundingKeeps ==
  ASSUME SettlementInv, NEW t \in Traders, NEW side \in Sides, NEW rate \in Int,
         SettleFundingOn(t, side, rate)
  PROVE  SettlementInv'
<1> USE DEF SettlementInv
<1> DEFINE payment == Payment(position[t][side], side, rate)
           a == SettleFunding(accounts[t], payment)
<1>1. /\ UNCHANGED <<traderMark, position, fund, preview>>
      /\ accounts' = accounts \/ accounts' = [accounts EXCEPT ![t] = a]
  BY DEF SettleFundingOn
<1>2. payment \in Int
  <2>1. position[t][side] \in TraderPosition
    BY DEF SettlementTypes
  <2>2. position[t][side].qty \in Int
    BY <2>1 DEF TraderPosition
  <2>3. QED
    BY <2>2 DEF Payment, Direction
<1> HIDE DEF payment
<1>3. a \in Account /\ a.fees = accounts[t].fees /\ a.cross = accounts[t].cross
  <2>1. accounts[t] \in Account
    BY DEF SettlementTypes
  <2> DEFINE c == accounts[t].cash + payment
             n == accounts[t].funding + payment
  <2>2. c \in Int /\ n \in Int
    BY <1>2, <2>1 DEF Account
  <2>3. a = [accounts[t] EXCEPT !.cash = c, !.funding = n]
    BY DEF SettleFunding
  <2> HIDE DEF a, c, n
  <2>4. QED
    BY <2>1, <2>2, <2>3 DEF Account
<1> HIDE DEF a
<1>4. accounts' \in [Traders -> Account]
      /\ \A u \in Traders : accounts'[u].fees = accounts[u].fees
                            /\ accounts'[u].cross = accounts[u].cross
  BY <1>1, <1>3 DEF SettlementTypes
<1>5. SettlementTypes'
  BY <1>1, <1>4 DEF SettlementTypes
<1>6. QED
  BY <1>1, <1>4, <1>5, FeesFollow, PreviewKept, CrossKept

(* A liquidation empties the trader's reserve and the trader's book          *)
(* together, or changes nothing; the fund pays from itself. *)
LEMMA CrossLiquidationKeeps ==
  ASSUME SettlementInv, NEW t \in Traders, NEW refused \in BOOLEAN, Liquidate(t, refused)
  PROVE  SettlementInv'
<1> USE DEF SettlementInv
<1>1. UNCHANGED <<traderMark, preview>>
  BY DEF Liquidate
<1>2. \/ UNCHANGED <<position, accounts, fund>>
      \/ /\ CrossRemoved(t) /\ accounts' = [accounts EXCEPT ![t] = Liquidated(t)]
         /\ fund' = fund \/ fund' = Coverage(fund, BadDebt(t)).fund
  BY DEF Liquidate
<1>3. CASE UNCHANGED <<position, accounts, fund>>
  <2>1. SettlementTypes'
    BY <1>1, <1>3 DEF SettlementTypes
  <2>2. QED
    BY <1>1, <1>3, <2>1, FeesFollow, PreviewKept, CrossKept
<1>4. CASE /\ CrossRemoved(t) /\ accounts' = [accounts EXCEPT ![t] = Liquidated(t)]
           /\ fund' = fund \/ fund' = Coverage(fund, BadDebt(t)).fund
  <2>1. Equity(t) \in Int /\ BadDebt(t) \in Int
    BY EquityIsInt
  <2>2. fund \in InsuranceFund
    BY DEF SettlementTypes
  <2>3. \/ fund' = fund
        \/ /\ fund' \in InsuranceFund /\ fund'.version = fund.version + 1
           /\ fund'.balance + fund'.covered = fund.balance + fund.covered
    BY <1>4, <2>1, <2>2, CoverageConserves
  <2>4. fund' \in InsuranceFund /\ fund'.balance + fund'.covered = fund.balance + fund.covered
    BY <2>2, <2>3
  <2> DEFINE a == Liquidated(t)
             cash == Equity(t) + BadDebt(t)
  <2>5. a \in Account /\ a.fees = accounts[t].fees /\ a.cross = 0
    <3>1. accounts[t] \in Account /\ cash \in Int
      BY <2>1 DEF SettlementTypes
    <3>2. a = [accounts[t] EXCEPT !.cross = 0, !.cash = cash]
      BY DEF Liquidated
    <3> DEFINE zero == 0
    <3>3. a = [accounts[t] EXCEPT !.cross = zero, !.cash = cash] /\ zero \in Int
      BY <3>2
    <3> HIDE DEF a, cash, zero
    <3>4. a \in Account /\ a.fees = accounts[t].fees /\ a.cross = zero
      BY <3>1, <3>3 DEF Account
    <3>5. QED
      BY <3>4 DEF zero
  <2>6. accounts' = [accounts EXCEPT ![t] = a]
    BY <1>4
  <2> HIDE DEF a, cash
  <2>7. accounts' \in [Traders -> Account]
        /\ \A u \in Traders : accounts'[u].fees = accounts[u].fees
    BY <2>5, <2>6 DEF SettlementTypes
  <2> DEFINE none == [side \in Sides |-> NoPosition]
  <2>8. position' = [position EXCEPT ![t] = none] /\ none \in [Sides -> TraderPosition]
        /\ none["LONG"].collateral = 0 /\ none["SHORT"].collateral = 0
    BY <1>4 DEF CrossRemoved, NoPosition, TraderPosition, Sides
  <2> HIDE DEF none
  <2>9. position' \in [Traders -> [Sides -> TraderPosition]]
    BY <2>8 DEF SettlementTypes
  <2>10. SettlementTypes'
    BY <1>1, <2>4, <2>7, <2>9 DEF SettlementTypes
  <2>11. CrossReserveMatchesBook'
    <3> SUFFICES ASSUME NEW u \in Traders
                 PROVE  accounts'[u].cross = SumSides([s \in Sides |-> position'[u][s].collateral])
      BY DEF CrossReserveMatchesBook
    <3>1. CASE u = t
      <4>1. position'[u] = none /\ accounts'[u].cross = 0
        BY <2>5, <2>6, <2>8, <3>1 DEF SettlementTypes
      <4>2. QED
        BY <2>8, <4>1 DEF SumSides, Sides
    <3>2. CASE u # t
      <4>1. position'[u] = position[u] /\ accounts'[u] = accounts[u]
        BY <2>6, <2>8, <3>2 DEF SettlementTypes
      <4>2. QED
        BY <4>1 DEF CrossReserveMatchesBook
    <3>3. QED
      BY <3>1, <3>2
  <2>12. QED
    BY <1>1, <2>3, <2>4, <2>7, <2>10, <2>11, FeesFollow, PreviewKept
<1>5. QED
  BY <1>2, <1>3, <1>4

(* What is committed was computed from the fund as it is. *)
LEMMA CommitKeeps ==
  ASSUME SettlementInv, CommitResolution
  PROVE  SettlementInv'
<1> USE DEF SettlementInv
<1>1. /\ UNCHANGED <<traderMark, accounts, position>> /\ preview' = NoPreview
      /\ \/ fund' = fund
         \/ preview # NoPreview /\ fund.version = preview.base /\ fund' = preview.fund
  BY DEF CommitResolution, CanCommit
<1>2. fund' \in InsuranceFund /\ fund'.balance + fund'.covered = fund.balance + fund.covered
  BY <1>1 DEF PreviewFits, SettlementTypes
<1>3. SettlementTypes'
  BY <1>1, <1>2 DEF SettlementTypes
<1>4. PreviewFits'
  BY <1>1 DEF PreviewFits
<1>5. QED
  BY <1>1, <1>2, <1>3, <1>4, FeesFollow, CrossKept

\* A preview is computed from the fund and changes nothing.
LEMMA PreviewKeeps ==
  ASSUME SettlementInv, NEW loss \in Losses, PreviewResolution(loss)
  PROVE  SettlementInv'
<1> USE DEF SettlementInv
<1>1. preview' = Coverage(fund, loss) /\ UNCHANGED <<traderMark, accounts, position, fund>>
  BY DEF PreviewResolution
<1>2. loss \in Int /\ fund \in InsuranceFund /\ fund.version \in Nat
  BY SettlementAssumption DEF SettlementTypes, InsuranceFund
<1>3. /\ Coverage(fund, loss).base = fund.version /\ Coverage(fund, loss).fund \in InsuranceFund
      /\ Coverage(fund, loss).fund.balance + Coverage(fund, loss).fund.covered
           = fund.balance + fund.covered
  BY <1>2, CoverageConserves
<1>4. PreviewFits'
  BY <1>1, <1>2, <1>3 DEF PreviewFits
<1>5. SettlementTypes'
  BY <1>1 DEF SettlementTypes
<1>6. QED
  BY <1>1, <1>4, <1>5, FeesFollow, CrossKept

\* Every step keeps the settlement invariant.
LEMMA SettlementStep == SettlementInv /\ [SettlementNext]_settlementVars => SettlementInv'
<1> SUFFICES ASSUME SettlementInv, [SettlementNext]_settlementVars PROVE SettlementInv'
  OBVIOUS
<1>1. ASSUME NEW price \in TraderMarks, MoveTraderMark(price) PROVE SettlementInv'
  <2>1. traderMark' \in Nat /\ UNCHANGED <<accounts, position, fund, preview>>
    BY <1>1, SettlementAssumption DEF MoveTraderMark
  <2>2. SettlementTypes'
    BY <2>1 DEF SettlementInv, SettlementTypes
  <2>3. FundMatchesFees' /\ PreviewFits' /\ CrossReserveMatchesBook'
    BY <2>1, <2>2, FeesFollow, PreviewKept, CrossKept DEF SettlementInv
  <2>4. QED
    BY <2>2, <2>3 DEF SettlementInv
<1>2. ASSUME NEW t \in Traders, NEW side \in Sides, NEW q \in Lots, Open(t, side, q)
      PROVE  SettlementInv'
  BY <1>2, FillKeeps
<1>3. ASSUME NEW t \in Traders, NEW fee \in Fees, NEW refused \in BOOLEAN,
             SettleTrade(t, fee, refused)
      PROVE  SettlementInv'
  BY <1>3, SettleTradeKeeps
<1>4. ASSUME UNCHANGED <<traderMark, accounts, position, fund, preview>> PROVE SettlementInv'
  <2>1. SettlementTypes'
    BY <1>4 DEF SettlementInv, SettlementTypes
  <2>2. FundMatchesFees' /\ PreviewFits' /\ CrossReserveMatchesBook'
    BY <1>4, <2>1, FeesFollow, PreviewKept, CrossKept DEF SettlementInv
  <2>3. QED
    BY <2>1, <2>2 DEF SettlementInv
<1>5. ASSUME NEW t \in Traders, NEW side \in Sides, ReadPosition(t, side) PROVE SettlementInv'
  BY <1>4, <1>5 DEF ReadPosition
<1>6. ASSUME NEW t \in Traders, NEW side \in Sides, NEW rate \in FundingRates,
             SettleFundingOn(t, side, rate) \/ SettleFundingOn(t, side, -rate)
      PROVE  SettlementInv'
  <2>1. rate \in Int /\ -rate \in Int
    BY SettlementAssumption
  <2>2. QED
    BY <1>6, <2>1, FundingKeeps
<1>7. ASSUME NEW t \in Traders, NEW refused \in BOOLEAN, Liquidate(t, refused)
      PROVE  SettlementInv'
  BY <1>7, CrossLiquidationKeeps
<1>8. ASSUME NEW loss \in Losses, PreviewResolution(loss) PROVE SettlementInv'
  BY <1>8, PreviewKeeps
<1>9. CASE CommitResolution
  BY <1>9, CommitKeeps
<1>10. CASE UNCHANGED settlementVars
  BY <1>4, <1>10 DEF settlementVars
<1>11. QED
  BY <1>1, <1>2, <1>3, <1>5, <1>6, <1>7, <1>8, <1>9, <1>10 DEF SettlementNext

(* The insurance fund follows the fees charged and the cross reserves the    *)
(* collateral in the book, although no handler writes all three: for any     *)
(* traders, prices, fees, funding rates and losses, through refused          *)
(* deposits, rolled back liquidations and resolutions previewed on an older  *)
(* fund (fee-controller.js, liquidation-controller.js,                       *)
(* insurance-fund-service.js). *)
THEOREM FundAndReservesAgree == SettlementSpec => []LedgersAgree
<1>1. SettlementInv => LedgersAgree
  BY DEF SettlementInv, LedgersAgree
<1>2. QED
  BY <1>1, SettlementStarts, SettlementStep, PTL DEF SettlementSpec

-----------------------------------------------------------------------------
(* Loops.                                                                  *)

(* Every set of naturals that is not empty has a least element: a statement *)
(* about all naturals is proved by looking at the least counterexample.     *)
LEMMA LeastNatural ==
  ASSUME NEW T \in SUBSET Nat, T # {}
  PROVE  \E x \in T : \A y \in T : x <= y
<1> DEFINE R == {ss \in Nat \X Nat : ss[1] < ss[2]}
<1>1. R = OpToRel(<, Nat)
  BY DEF OpToRel
<1>2. IsWellFoundedOn(R, Nat)
  BY <1>1, NatLessThanWellFounded, Zenon
<1>3. T \subseteq Nat
  OBVIOUS
<1> HIDE DEF R
<1>4. PICK x \in T : \A y \in T : ~ (<<y, x>> \in R)
  BY <1>2, <1>3, WFMin, Zenon
<1>5. \A y \in T : ~ (y < x)
  BY <1>3, <1>4 DEF R
<1>6. \A y \in T : x <= y
  BY <1>3, <1>5
<1> QED BY <1>6

(* What holds at 0 and goes from every number to the next up to n holds up *)
(* to n: the set of the numbers at which it holds is all of 0 .. n.        *)
LEMMA UpTo ==
  ASSUME NEW n \in Nat, NEW S, 0 \in S, \A i \in 0 .. n - 1 : i \in S => i + 1 \in S
  PROVE  \A i \in 0 .. n : i \in S
<1> DEFINE T == {i \in 0 .. n : i \notin S}
<1>1. T \in SUBSET Nat
  OBVIOUS
<1> SUFFICES ASSUME T # {} PROVE FALSE
  OBVIOUS
<1> HIDE DEF T
<1>2. PICK i \in T : \A j \in T : i <= j
  BY <1>1, LeastNatural, Zenon
<1>3. i \in 0 .. n /\ i \notin S
  BY DEF T
<1>4. i - 1 \in 0 .. n - 1 /\ i - 1 \notin T
  BY <1>2, <1>3
<1>5. i - 1 \in S
  BY <1>3, <1>4 DEF T
<1> QED BY <1>3, <1>4, <1>5

(* The values of a loop from d on: the i-th pass turns value v into h[i, v]. *)
Passes(n, X, d, h) ==
  {f \in [0 .. n -> X] : f[0] = d /\ \A i \in 1 .. n : f[i] = h[<<i, f[i - 1]>>]}

(* A loop that stays within X ends.                                        *)
LEMMA StepByStep ==
  ASSUME NEW n \in Nat, NEW X, NEW d \in X, NEW h \in [(1 .. n) \X X -> X]
  PROVE  Passes(n, X, d, h) # {}
<1> DEFINE Good(k, f) == \A i \in 0 .. k : f[i] = IF i = 0 THEN d ELSE h[<<i, f[i - 1]>>]
           S == {k \in 0 .. n : \E f \in [0 .. k -> X] : Good(k, f)}
<1>1. 0 \in S
  <2>1. [i \in 0 .. 0 |-> d] \in [0 .. 0 -> X] /\ Good(0, [i \in 0 .. 0 |-> d])
    OBVIOUS
  <2>2. \E f \in [0 .. 0 -> X] : Good(0, f)
    BY <2>1
  <2> QED BY <2>2
<1>2. ASSUME NEW k \in 0 .. n - 1, k \in S PROVE k + 1 \in S
  <2>1. PICK f \in [0 .. k -> X] : Good(k, f)
    BY <1>2
  <2> DEFINE new == h[<<k + 1, f[k]>>]
             g == [i \in 0 .. k + 1 |-> IF i = k + 1 THEN new ELSE f[i]]
  <2>2. k \in Nat /\ k + 1 \in 1 .. n /\ f[k] \in X
    OBVIOUS
  <2>3. new \in X
    BY <2>2
  <2>4. g \in [0 .. k + 1 -> X]
    <3> HIDE DEF new
    <3> QED BY <2>2, <2>3
  <2>5. ASSUME NEW i \in 0 .. k + 1 PROVE g[i] = IF i = 0 THEN d ELSE h[<<i, g[i - 1]>>]
    <3>1. CASE i = k + 1
      BY SMTT(40), <2>2, <3>1
    <3>2. CASE i # k + 1
      <4>1. i \in 0 .. k /\ g[i] = f[i] /\ (i # 0 => g[i - 1] = f[i - 1])
        BY <2>2, <3>2
      <4>2. f[i] = IF i = 0 THEN d ELSE h[<<i, f[i - 1]>>]
        BY <2>1, <4>1
      <4> QED BY <4>1, <4>2
    <3> QED BY <3>1, <3>2
  <2>6. Good(k + 1, g)
    <3> HIDE DEF g
    <3> QED BY <2>5
  <2> HIDE DEF g
  <2> QED BY SMTT(40), <2>2, <2>4, <2>6
<1> HIDE DEF S
<1>3. n \in S
  BY <1>1, <1>2, UpTo
<1>4. PICK f \in [0 .. n -> X] : Good(n, f)
  BY <1>3 DEF S
<1>5. f[0] = d /\ \A i \in 1 .. n : f[i] = h[<<i, f[i - 1]>>]
  <2>1. 0 \in 0 .. n /\ \A i \in 1 .. n : i \in 0 .. n /\ i # 0
    OBVIOUS
  <2> QED BY <1>4, <2>1
<1> QED BY <1>5 DEF Passes

(* Where the elements of one list are found in another one.                *)
Places(kept, list, set) ==
  {place \in [DOMAIN kept -> DOMAIN list] :
     /\ \A j \in DOMAIN place : kept[j] = list[place[j]] /\ list[place[j]] \in set
     /\ \A j, k \in DOMAIN place : place[j] = place[k] => j = k
     /\ \A i \in DOMAIN list : list[i] \in set => \E j \in DOMAIN place : place[j] = i}

(* Within keeps the elements of the set, each once.                        *)
LEMMA WithinKeeps ==
  ASSUME NEW A, NEW list \in Seq(A), NEW set
  PROVE  /\ Within(list, set) \in Seq(A)
         /\ Places(Within(list, set), list, set) # {}
<1> DEFINE n == Len(list)
           h == [ix \in (1 .. n) \X Seq(A) |->
                   IF list[ix[1]] \in set THEN Append(ix[2], list[ix[1]]) ELSE ix[2]]
           Is(f) == f = [i \in 0 .. n |->
                           IF i = 0 THEN <<>>
                           ELSE IF list[i] \in set THEN Append(f[i - 1], list[i]) ELSE f[i - 1]]
<1>1. n \in Nat /\ DOMAIN list = 1 .. n /\ \A i \in 1 .. n : list[i] \in A
  BY LenProperties, ElementOfSeq
<1>2. h \in [(1 .. n) \X Seq(A) -> Seq(A)]
  BY <1>1, AppendProperties
<1>3. \E f \in [0 .. n -> Seq(A)] : Is(f)
  <2> SUFFICES ASSUME NEW f \in Passes(n, Seq(A), <<>>, h) PROVE Is(f) /\ f \in [0 .. n -> Seq(A)]
    <3> HIDE DEF h, n
    <3>1. <<>> \in Seq(A)
      BY EmptySeq
    <3>2. Passes(n, Seq(A), <<>>, h) # {}
      BY <1>1, <1>2, <3>1, StepByStep
    <3> QED BY <3>2
  <2>1. /\ f \in [0 .. n -> Seq(A)]
        /\ f[0] = <<>> /\ \A i \in 1 .. n : f[i] = h[<<i, f[i - 1]>>]
    BY DEF Passes
  <2>2. \A i \in 1 .. n : i - 1 \in 0 .. n /\ f[i - 1] \in Seq(A)
    <3> HIDE DEF n
    <3>1. \A i \in 1 .. n : i - 1 \in 0 .. n
      BY <1>1
    <3> QED BY <2>1, <3>1
  <2>3. \A i \in 1 .. n : h[<<i, f[i - 1]>>] =
          IF list[i] \in set THEN Append(f[i - 1], list[i]) ELSE f[i - 1]
    BY <2>2
  <2> HIDE DEF h
  <2>4. \A i \in 0 .. n : f[i] = IF i = 0 THEN <<>>
                                ELSE IF list[i] \in set THEN Append(f[i - 1], list[i]) ELSE f[i - 1]
    <3> SUFFICES ASSUME NEW i \in 0 .. n
                 PROVE  f[i] = IF i = 0 THEN <<>> ELSE IF list[i] \in set
                               THEN Append(f[i - 1], list[i]) ELSE f[i - 1]
      OBVIOUS
    <3>1. CASE i = 0
      BY <2>1, <3>1
    <3>2. CASE i # 0
      <4>1. i \in 1 .. n /\ f[i] = h[<<i, f[i - 1]>>]
        BY <1>1, <2>1, <3>2
      <4> QED BY <2>3, <3>2, <4>1
    <3> QED BY <3>1, <3>2
  <2>5. Is(f)
    BY SMTT(40), <2>1, <2>4
  <2> QED BY <2>1, <2>5
<1> DEFINE kept == CHOOSE f : Is(f)
<1>4. Is(kept)
  BY <1>3
<1>5. Within(list, set) = kept[n]
  BY DEF Within
<1> HIDE DEF kept, h
<1> DEFINE Placed(i, place) ==
             /\ place \in [DOMAIN kept[i] -> 1 .. i]
             /\ \A j \in DOMAIN place : kept[i][j] = list[place[j]] /\ list[place[j]] \in set
             /\ \A j, k \in DOMAIN place : place[j] = place[k] => j = k
             /\ \A k \in 1 .. i : list[k] \in set => \E j \in DOMAIN place : place[j] = k
           S == {i \in 0 .. n : kept[i] \in Seq(A) /\ \E place : Placed(i, place)}
<1>6. 0 \in S
  <2>1. kept[0] = <<>>
    BY <1>1, <1>4
  <2>2. DOMAIN <<>> = {} /\ 1 .. 0 = {} /\ <<>> \in Seq(A)
    BY EmptySeq
  <2>3. Placed(0, [j \in {} |-> 1])
    BY <2>1, <2>2
  <2>4. \E place : Placed(0, place)
    BY <2>3
  <2>5. 0 \in 0 .. n /\ kept[0] \in Seq(A)
    BY <1>1, <2>1, <2>2
  <2> HIDE DEF Placed
  <2> QED BY <2>4, <2>5
<1>7. ASSUME NEW i \in 0 .. n - 1, i \in S PROVE i + 1 \in S
  <2>1. PICK place : Placed(i, place)
    BY <1>7
  <2>2. kept[i] \in Seq(A) /\ i + 1 \in 1 .. n /\ i \in Nat /\ list[i + 1] \in A
    BY <1>1, <1>7
  <2>3. kept[i + 1] = IF list[i + 1] \in set THEN Append(kept[i], list[i + 1]) ELSE kept[i]
    <3>1. i + 1 \in 0 .. n /\ i + 1 # 0 /\ i + 1 - 1 = i
      BY <1>1
    <3>2. \A k \in 0 .. n : kept[k] =
            IF k = 0 THEN <<>>
            ELSE IF list[k] \in set THEN Append(kept[k - 1], list[k]) ELSE kept[k - 1]
      BY <1>4
    <3> HIDE DEF n
    <3> QED BY <3>1, <3>2
  <2>4. CASE list[i + 1] \in set
    <3> DEFINE l == Len(kept[i])
               new == [j \in 1 .. l + 1 |-> IF j = l + 1 THEN i + 1 ELSE place[j]]
    <3>1. l \in Nat /\ DOMAIN kept[i] = 1 .. l
      BY <2>2, LenProperties
    <3>2. /\ kept[i + 1] \in Seq(A) /\ DOMAIN kept[i + 1] = 1 .. l + 1
          /\ \A j \in 1 .. l : kept[i + 1][j] = kept[i][j]
          /\ kept[i + 1][l + 1] = list[i + 1]
      BY <2>2, <2>3, <2>4, AppendProperties, LenProperties
    <3>3. place \in [1 .. l -> 1 .. i] /\ DOMAIN place = 1 .. l
      BY <2>1, <3>1
    <3> HIDE DEF l
    <3>4. \A j \in 1 .. l + 1 : \/ j \in 1 .. l /\ new[j] = place[j] /\ place[j] \in 1 .. i
                                \/ j = l + 1 /\ new[j] = i + 1
      BY <3>1, <3>3
    <3>5. new[l + 1] = i + 1 /\ DOMAIN new = 1 .. l + 1
      BY <3>1
    <3> HIDE DEF new
    <3>6. new \in [DOMAIN kept[i + 1] -> 1 .. i + 1]
      BY <3>1, <3>2, <3>3, <3>4, <2>2 DEF new
    <3>7. \A j \in DOMAIN new : kept[i + 1][j] = list[new[j]] /\ list[new[j]] \in set
      BY SMTT(40), <2>1, <2>4, <3>2, <3>3, <3>4, <3>5
    <3>8. \A j, k \in DOMAIN new : new[j] = new[k] => j = k
      BY SMTT(40), <2>1, <2>2, <3>3, <3>4, <3>5
    <3>9. \A k \in 1 .. i + 1 : list[k] \in set => \E j \in DOMAIN new : new[j] = k
      <4> SUFFICES ASSUME NEW k \in 1 .. i + 1, list[k] \in set
                   PROVE  \E j \in DOMAIN new : new[j] = k
        OBVIOUS
      <4>1. CASE k = i + 1
        BY <3>1, <3>5, <4>1
      <4>2. CASE k # i + 1
        <5>1. PICK j \in DOMAIN place : place[j] = k
          BY <2>1, <2>2, <4>2
        <5>2. j \in 1 .. l + 1 /\ j # l + 1
          BY <3>1, <3>3, <5>1
        <5> QED BY <3>4, <3>5, <5>1, <5>2
      <4> QED BY <4>1, <4>2
    <3>10. \E p : Placed(i + 1, p)
      BY <3>6, <3>7, <3>8, <3>9
    <3> HIDE DEF Placed
    <3> QED BY <1>1, <2>2, <3>2, <3>10
  <2>5. CASE list[i + 1] \notin set
    <3>1. kept[i + 1] = kept[i]
      BY <2>3, <2>5
    <3>2. place \in [DOMAIN kept[i + 1] -> 1 .. i + 1]
      BY <2>1, <2>2, <3>1
    <3>3. \A k \in 1 .. i + 1 : list[k] \in set => k \in 1 .. i
      BY <2>2, <2>5
    <3>4. Placed(i + 1, place)
      BY <2>1, <3>1, <3>2, <3>3
    <3> HIDE DEF Placed
    <3> QED BY <1>1, <2>2, <3>1, <3>4
  <2> QED BY <2>4, <2>5
<1> HIDE DEF S
<1>8. n \in S
  <2> HIDE DEF n
  <2>1. n \in Nat /\ 0 \in S /\ \A i \in 0 .. n - 1 : i \in S => i + 1 \in S
    BY <1>1, <1>6, <1>7
  <2>2. n \in 0 .. n
    BY <1>1
  <2> QED BY <2>1, <2>2, UpTo
<1>9. PICK place : Placed(n, place)
  BY <1>8 DEF S
<1>10. kept[n] \in Seq(A) /\ DOMAIN place = DOMAIN kept[n]
  BY <1>8, <1>9 DEF S
<1> HIDE DEF n
<1>11. place \in Places(kept[n], list, set)
  BY <1>1, <1>9, <1>10 DEF Places
<1> QED BY <1>1, <1>5, <1>10, <1>11

-----------------------------------------------------------------------------
(* DemoDesk.                                                               *)

DeskKeys == Symbols \X Sides \X Modes

DeskPosition ==
    [symbol : Symbols, side : Sides, mode : Modes, qty : Nat \ {0}, cost : Int,
     collateral : Nat \ {0}, tp : Nat, sl : Nat]

DeskOrder ==
    [id : 1 .. MaxSubmits, symbol : Symbols, side : Sides, mode : Modes, qty : Nat \ {0},
     price : Nat \ {0}, margin : Nat \ {0}, tp : Nat, sl : Nat]

\* The book is a Map: one position per key; and an order has an id of its own.
Books == {b \in Seq(DeskPosition) : \A i, j \in DOMAIN b : KeyOf(b[i]) = KeyOf(b[j]) => i = j}
Lists == {l \in Seq(DeskOrder) : \A i, j \in DOMAIN l : l[i].id = l[j].id => i = j}

\* A position has a key of the desk.
LEMMA KeysAreKeys == \A p \in DeskPosition : KeyOf(p) \in DeskKeys /\ KeyOf(p)[3] = p.mode
BY DEF DeskPosition, DeskKeys, KeyOf

\* Looking a position's key up finds that position.
LEMMA GetFinds ==
  ASSUME NEW b \in Books, NEW i \in DOMAIN b
  PROVE  /\ Holds(b, KeyOf(b[i])) /\ Get(b, KeyOf(b[i])) = b[i]
         /\ Collateral(b, KeyOf(b[i])) = b[i].collateral
<1>1. IndexOf(b, KeyOf(b[i])) = {i}
  BY DEF Books, IndexOf
<1>2. Holds(b, KeyOf(b[i])) /\ Get(b, KeyOf(b[i])) = b[i]
  BY <1>1 DEF Holds, Get
<1> QED BY <1>2 DEF Collateral

\* A key that is held is the key of some position in the book.
LEMMA HeldIsThere ==
  ASSUME NEW b \in Books, NEW key, Holds(b, key)
  PROVE  \E i \in DOMAIN b : KeyOf(b[i]) = key /\ Get(b, key) = b[i] /\ b[i] \in DeskPosition
<1>1. PICK i \in DOMAIN b : KeyOf(b[i]) = key
  BY DEF Holds, IndexOf
<1>2. b[i] \in DeskPosition
  BY ElementOfSeq, LenProperties DEF Books
<1> QED BY <1>1, <1>2, GetFinds

\* The collateral under a key is a natural: 0 when nothing is held.
LEMMA CollateralIsNat == \A b \in Books, key \in DeskKeys : Collateral(b, key) \in Nat
BY HeldIsThere DEF Collateral, DeskPosition

\* Books with the same positions under a key have the same collateral there.
LEMMA SameCollateral ==
  ASSUME NEW b \in Books, NEW r \in Books, NEW key,
         \A i \in DOMAIN b : KeyOf(b[i]) = key => \E j \in DOMAIN r : r[j] = b[i],
         \A j \in DOMAIN r : KeyOf(r[j]) = key => \E i \in DOMAIN b : b[i] = r[j]
  PROVE  Collateral(r, key) = Collateral(b, key)
<1>1. CASE \E i \in DOMAIN b : KeyOf(b[i]) = key
  <2>1. PICK i \in DOMAIN b : KeyOf(b[i]) = key
    BY <1>1
  <2>2. PICK j \in DOMAIN r : r[j] = b[i]
    BY <2>1
  <2> QED BY <2>1, <2>2, GetFinds
<1>2. CASE ~ \E i \in DOMAIN b : KeyOf(b[i]) = key
  <2>1. ~Holds(b, key) /\ ~Holds(r, key)
    BY <1>2 DEF Holds, IndexOf
  <2> QED BY <2>1 DEF Collateral
<1> QED BY <1>1, <1>2

IsolatedKeys == Symbols \X Sides \X {"ISOLATED"}

BookTotal(b) == TotalOf([key \in IsolatedKeys |-> Collateral(b, key)])

\* There are finitely many keys to sum over.
LEMMA IsolatedKeysFinite == IsFiniteSet(IsolatedKeys) /\ IsolatedKeys \subseteq DeskKeys
<1> DEFINE S == IsolatedKeys
<1>1. IsFiniteSet(Sides) /\ IsFiniteSet({"ISOLATED"}) /\ IsFiniteSet(Symbols)
  <2>1. IsFiniteSet({"LONG"}) /\ IsFiniteSet({"SHORT"}) /\ IsFiniteSet({"ISOLATED"})
    BY FS_Singleton
  <2>2. IsFiniteSet({"LONG"} \cup {"SHORT"}) /\ {"LONG"} \cup {"SHORT"} = Sides
    BY <2>1, FS_Union DEF Sides
  <2> QED BY <2>1, <2>2, DeskAssumption
<1>2. IsFiniteSet(Symbols \X (Sides \X {"ISOLATED"}))
  BY <1>1, FS_Product
<1> DEFINE h == [x \in Symbols \X (Sides \X {"ISOLATED"}) |-> <<x[1], x[2][1], x[2][2]>>]
<1>3. h \in Surjection(Symbols \X (Sides \X {"ISOLATED"}), S)
  <2>1. h \in [Symbols \X (Sides \X {"ISOLATED"}) -> S]
    BY DEF IsolatedKeys
  <2>2. ASSUME NEW k \in S PROVE \E x \in Symbols \X (Sides \X {"ISOLATED"}) : h[x] = k
    <3>1. <<k[1], <<k[2], k[3]>>>> \in Symbols \X (Sides \X {"ISOLATED"})
      BY DEF IsolatedKeys
    <3>2. h[<<k[1], <<k[2], k[3]>>>>] = k
      BY <3>1 DEF IsolatedKeys
    <3> QED BY <3>1, <3>2
  <2> QED BY <2>1, <2>2 DEF Surjection
<1>4. IsFiniteSet(S)
  BY <1>2, <1>3, FS_Surjection
<1> QED BY <1>4 DEF DeskKeys, Modes, IsolatedKeys

\* A book that differs at one key has another total if that is isolated.
LEMMA BookMove ==
  ASSUME NEW b \in Books, NEW r \in Books, NEW key \in DeskKeys,
         \A k \in DeskKeys : k # key => Collateral(r, k) = Collateral(b, k)
  PROVE  /\ BookTotal(b) \in Nat /\ BookTotal(r) \in Nat
         /\ BookTotal(r) = IF key[3] = "ISOLATED"
                           THEN BookTotal(b) - Collateral(b, key) + Collateral(r, key)
                           ELSE BookTotal(b)
<1> DEFINE S == IsolatedKeys
           f == [k \in S |-> Collateral(b, k)]
           g == [k \in S |-> Collateral(r, k)]
<1>1. IsFiniteSet(S) /\ S \subseteq DeskKeys
  BY IsolatedKeysFinite
<1>2. f \in [S -> Nat] /\ g \in [S -> Nat]
  BY <1>1, CollateralIsNat
<1>3. TotalOf(f) \in Nat /\ TotalOf(g) \in Nat
  BY <1>1, <1>2, TotalIsNat
<1>4. CASE key[3] = "ISOLATED"
  <2>1. key \in S
    BY <1>4 DEF DeskKeys, IsolatedKeys
  <2>2. g = [f EXCEPT ![key] = Collateral(r, key)]
    BY <1>1, <2>1
  <2>3. TotalOf(g) = TotalOf(f) - f[key] + Collateral(r, key)
    <3> DEFINE v == Collateral(r, key)
    <3>1. v \in Nat
      BY CollateralIsNat
    <3> HIDE DEF f, g, S, v
    <3>2. TotalOf([f EXCEPT ![key] = v]) = TotalOf(f) - f[key] + v
      BY <1>1, <1>2, <2>1, <3>1, TotalOfUpdate
    <3> QED BY <2>2, <3>2 DEF v
  <2> QED BY <1>3, <1>4, <2>1, <2>3 DEF BookTotal
<1>5. CASE key[3] # "ISOLATED"
  <2>1. key \notin S
    BY <1>5 DEF IsolatedKeys
  <2>2. f = g
    BY <1>1, <2>1
  <2> QED BY <1>3, <1>5, <2>2 DEF BookTotal
<1> QED BY <1>4, <1>5

-----------------------------------------------------------------------------
(* What the operations on the book do to it.                               *)

\* The positions of a book that belong to a set are a book.
LEMMA SelectionIsBook ==
  ASSUME NEW b \in Books, NEW set
  PROVE  /\ Within(b, set) \in Books
         /\ \A j \in DOMAIN Within(b, set) :
               \E i \in DOMAIN b : Within(b, set)[j] = b[i] /\ b[i] \in set
         /\ \A i \in DOMAIN b : b[i] \in set => \E j \in DOMAIN Within(b, set) : Within(b, set)[j] = b[i]
<1>1. b \in Seq(DeskPosition)
  BY DEF Books
<1> DEFINE r == Within(b, set)
<1>2. r \in Seq(DeskPosition)
  BY <1>1, WithinKeeps
<1>3. PICK place \in [DOMAIN r -> DOMAIN b] :
        /\ \A j \in DOMAIN place : r[j] = b[place[j]] /\ b[place[j]] \in set
        /\ \A j, k \in DOMAIN place : place[j] = place[k] => j = k
        /\ \A i \in DOMAIN b : b[i] \in set => \E j \in DOMAIN place : place[j] = i
  <2>1. PICK place : place \in Places(r, b, set)
    BY <1>1, WithinKeeps
  <2> QED BY <2>1 DEF Places
<1> HIDE DEF r
<1>4. \A i, j \in DOMAIN r : KeyOf(r[i]) = KeyOf(r[j]) => i = j
  BY <1>3 DEF Books
<1>5. r \in Books
  BY <1>2, <1>4 DEF Books
<1>6. \A i \in DOMAIN b : b[i] \in set => \E j \in DOMAIN r : r[j] = b[i]
  BY <1>3
<1>7. \A j \in DOMAIN r : \E i \in DOMAIN b : r[j] = b[i] /\ b[i] \in set
  BY <1>3
<1> QED BY <1>5, <1>6, <1>7 DEF r

\* Deleting a key takes its position out and leaves every other one.
LEMMA WithoutWorks ==
  ASSUME NEW b \in Books, NEW key \in DeskKeys
  PROVE  /\ Without(b, key) \in Books
         /\ \A j \in DOMAIN Without(b, key) : \E i \in DOMAIN b : b[i] = Without(b, key)[j] /\ KeyOf(b[i]) # key
         /\ \A i \in DOMAIN b : KeyOf(b[i]) # key
              => \E j \in DOMAIN Without(b, key) : Without(b, key)[j] = b[i]
         /\ Collateral(Without(b, key), key) = 0
         /\ \A k \in DeskKeys : k # key => Collateral(Without(b, key), k) = Collateral(b, k)
<1> DEFINE r == Without(b, key)
<1>1. /\ r \in Books
      /\ \A j \in DOMAIN r : \E i \in DOMAIN b : b[i] = r[j] /\ KeyOf(b[i]) # key
      /\ \A i \in DOMAIN b : KeyOf(b[i]) # key => \E j \in DOMAIN r : r[j] = b[i]
  <2> DEFINE set == {p \in ToSet(b) : KeyOf(p) # key}
  <2>1. \A i \in DOMAIN b : b[i] \in set <=> KeyOf(b[i]) # key
    BY DEF ToSet
  <2>2. r = Within(b, set)
    BY DEF Without
  <2> HIDE DEF set, r
  <2>3. /\ r \in Books
        /\ \A j \in DOMAIN r : \E i \in DOMAIN b : r[j] = b[i] /\ b[i] \in set
        /\ \A i \in DOMAIN b : b[i] \in set => \E j \in DOMAIN r : r[j] = b[i]
    BY <2>2, SelectionIsBook
  <2> QED BY <2>1, <2>3
<1> HIDE DEF r
<1>2. ~Holds(r, key)
  BY <1>1 DEF Holds, IndexOf
<1>3. \A k \in DeskKeys : k # key => Collateral(r, k) = Collateral(b, k)
  <2> SUFFICES ASSUME NEW k \in DeskKeys, k # key PROVE Collateral(r, k) = Collateral(b, k)
    OBVIOUS
  <2>1. \A i \in DOMAIN b : KeyOf(b[i]) = k => \E j \in DOMAIN r : r[j] = b[i]
    BY <1>1
  <2>2. \A j \in DOMAIN r : KeyOf(r[j]) = k => \E i \in DOMAIN b : b[i] = r[j]
    BY <1>1
  <2> QED BY <1>1, <2>1, <2>2, SameCollateral
<1> QED BY <1>1, <1>2, <1>3 DEF r, Collateral

\* Replacing a position changes the collateral under its key only.
LEMMA PutWorks ==
  ASSUME NEW b \in Books, NEW p \in DeskPosition, Holds(b, KeyOf(p))
  PROVE  /\ Put(b, p) \in Books
         /\ Collateral(Put(b, p), KeyOf(p)) = p.collateral
         /\ \A k \in DeskKeys : k # KeyOf(p) => Collateral(Put(b, p), k) = Collateral(b, k)
<1> DEFINE r == Put(b, p)
<1>1. DOMAIN r = DOMAIN b /\ \A i \in DOMAIN b : /\ KeyOf(r[i]) = KeyOf(b[i])
                                                 /\ r[i] = IF KeyOf(b[i]) = KeyOf(p) THEN p ELSE b[i]
  BY DEF Put
<1>2. b \in Seq(DeskPosition) /\ DOMAIN b = 1 .. Len(b) /\ Len(b) \in Nat
      /\ \A i \in DOMAIN b : b[i] \in DeskPosition
  BY LenProperties, ElementOfSeq DEF Books
<1>3. r \in Seq(DeskPosition)
  <2>1. r \in [1 .. Len(b) -> DeskPosition]
    BY <1>2 DEF Put
  <2> QED BY <1>2, <2>1, IsASeq
<1> HIDE DEF r
<1>4. r \in Books
  BY <1>1, <1>3 DEF Books
<1>5. PICK i \in DOMAIN b : KeyOf(b[i]) = KeyOf(p)
  BY HeldIsThere
<1>6. Collateral(r, KeyOf(p)) = p.collateral
  <2>1. i \in DOMAIN r /\ r[i] = p
    BY <1>1, <1>5
  <2> QED BY <1>4, <2>1, GetFinds
<1>7. \A k \in DeskKeys : k # KeyOf(p) => Collateral(r, k) = Collateral(b, k)
  <2> SUFFICES ASSUME NEW k \in DeskKeys, k # KeyOf(p) PROVE Collateral(r, k) = Collateral(b, k)
    OBVIOUS
  <2>1. \A j \in DOMAIN b : KeyOf(b[j]) = k => j \in DOMAIN r /\ r[j] = b[j]
    BY <1>1
  <2>2. \A j \in DOMAIN r : KeyOf(r[j]) = k => j \in DOMAIN b /\ b[j] = r[j]
    BY <1>1
  <2> QED BY <1>4, <2>1, <2>2, SameCollateral
<1> QED BY <1>4, <1>6, <1>7 DEF r

\* A position under a new key adds its collateral and changes no other.
LEMMA AppendWorks ==
  ASSUME NEW b \in Books, NEW p \in DeskPosition, ~Holds(b, KeyOf(p))
  PROVE  /\ Append(b, p) \in Books
         /\ Collateral(Append(b, p), KeyOf(p)) = p.collateral
         /\ \A k \in DeskKeys : k # KeyOf(p) => Collateral(Append(b, p), k) = Collateral(b, k)
<1> DEFINE r == Append(b, p)
<1>1. b \in Seq(DeskPosition) /\ DOMAIN b = 1 .. Len(b) /\ Len(b) \in Nat
  BY LenProperties DEF Books
<1>2. /\ r \in Seq(DeskPosition) /\ DOMAIN r = 1 .. Len(b) + 1
      /\ \A i \in 1 .. Len(b) : r[i] = b[i]
      /\ r[Len(b) + 1] = p
  BY <1>1, AppendProperties, LenProperties
<1>3. \A i \in DOMAIN r : (i \in DOMAIN b /\ r[i] = b[i]) \/ i = Len(b) + 1
  BY <1>1, <1>2
<1>4. \A i \in DOMAIN b : KeyOf(b[i]) # KeyOf(p) /\ i \in DOMAIN r
  BY <1>1, <1>2 DEF Holds, IndexOf
<1> HIDE DEF r
<1>5. r \in Books
  <2> SUFFICES ASSUME NEW i \in DOMAIN r, NEW j \in DOMAIN r, KeyOf(r[i]) = KeyOf(r[j]) PROVE i = j
    BY <1>2 DEF Books
  <2> QED BY <1>2, <1>3, <1>4 DEF Books
<1>6. Collateral(r, KeyOf(p)) = p.collateral
  <2>1. Len(b) + 1 \in DOMAIN r
    BY <1>1, <1>2
  <2> QED BY <1>2, <1>5, <2>1, GetFinds
<1>7. \A k \in DeskKeys : k # KeyOf(p) => Collateral(r, k) = Collateral(b, k)
  <2> SUFFICES ASSUME NEW k \in DeskKeys, k # KeyOf(p) PROVE Collateral(r, k) = Collateral(b, k)
    OBVIOUS
  <2>1. \A j \in DOMAIN b : KeyOf(b[j]) = k => j \in DOMAIN r /\ r[j] = b[j]
    BY <1>1, <1>2, <1>4
  <2>2. \A j \in DOMAIN r : KeyOf(r[j]) = k => j \in DOMAIN b /\ b[j] = r[j]
    BY <1>2, <1>3
  <2> QED BY <1>5, <2>1, <2>2, SameCollateral
<1> QED BY <1>5, <1>6, <1>7 DEF r

-----------------------------------------------------------------------------
(* The list of resting orders.                                             *)

\* The margin of an order is found by its id.
LEMMA MarginFinds ==
  ASSUME NEW l \in Lists, NEW i \in DOMAIN l, NEW mode
  PROVE  Margin(l, mode, l[i].id) = IF l[i].mode = mode THEN l[i].margin ELSE 0
<1>1. CASE l[i].mode = mode
  <2>1. {j \in DOMAIN l : l[j].id = l[i].id /\ l[j].mode = mode} = {i}
    BY <1>1 DEF Lists
  <2> QED BY <1>1, <2>1 DEF Margin
<1>2. CASE l[i].mode # mode
  <2>1. {j \in DOMAIN l : l[j].id = l[i].id /\ l[j].mode = mode} = {}
    BY <1>2 DEF Lists
  <2> QED BY <1>2, <2>1 DEF Margin
<1> QED BY <1>1, <1>2

\* An id that no order has holds no margin.
LEMMA NoMargin ==
  ASSUME NEW l, NEW mode, NEW id, \A i \in DOMAIN l : l[i].id # id
  PROVE  Margin(l, mode, id) = 0
<1>1. {j \in DOMAIN l : l[j].id = id /\ l[j].mode = mode} = {}
  OBVIOUS
<1> QED BY <1>1 DEF Margin

\* A list of orders is a sequence of orders.
LEMMA OrdersAreOrders ==
  ASSUME NEW l \in Lists
  PROVE  /\ l \in Seq(DeskOrder) /\ DOMAIN l = 1 .. Len(l) /\ Len(l) \in Nat
         /\ \A i \in DOMAIN l : l[i] \in DeskOrder
BY LenProperties, ElementOfSeq DEF Lists

\* The margin under an id is a natural.
LEMMA MarginIsNat == \A l \in Lists, mode \in Modes, id \in 1 .. MaxSubmits : Margin(l, mode, id) \in Nat
<1> SUFFICES ASSUME NEW l \in Lists, NEW mode \in Modes, NEW id \in 1 .. MaxSubmits
             PROVE  Margin(l, mode, id) \in Nat
  OBVIOUS
<1>1. CASE \E i \in DOMAIN l : l[i].id = id
  <2>1. PICK i \in DOMAIN l : l[i].id = id
    BY <1>1
  <2>2. l[i].margin \in Nat
    BY OrdersAreOrders DEF DeskOrder
  <2> QED BY <2>1, <2>2, MarginFinds
<1>2. CASE ~ \E i \in DOMAIN l : l[i].id = id
  BY <1>2, NoMargin
<1> QED BY <1>1, <1>2

\* Lists with the same orders under an id have the same margin there.
LEMMA SameMargin ==
  ASSUME NEW l \in Lists, NEW r \in Lists, NEW mode, NEW id,
         \A i \in DOMAIN l : l[i].id = id => \E j \in DOMAIN r : r[j] = l[i],
         \A j \in DOMAIN r : r[j].id = id => \E i \in DOMAIN l : l[i] = r[j]
  PROVE  Margin(r, mode, id) = Margin(l, mode, id)
<1>1. CASE \E i \in DOMAIN l : l[i].id = id
  <2>1. PICK i \in DOMAIN l : l[i].id = id
    BY <1>1
  <2>2. PICK j \in DOMAIN r : r[j] = l[i]
    BY <2>1
  <2> QED BY <2>1, <2>2, MarginFinds
<1>2. CASE ~ \E i \in DOMAIN l : l[i].id = id
  <2>1. \A j \in DOMAIN r : r[j].id # id
    BY <1>2
  <2> QED BY <1>2, <2>1, NoMargin
<1> QED BY <1>1, <1>2

OrderTotal(l) == TotalOf([id \in 1 .. MaxSubmits |-> Margin(l, "ISOLATED", id)])

\* A change at one id moves the sum by what changed there.
LEMMA OrderMove ==
  ASSUME NEW l \in Lists, NEW r \in Lists, NEW id \in 1 .. MaxSubmits,
         \A k \in 1 .. MaxSubmits : k # id => Margin(r, "ISOLATED", k) = Margin(l, "ISOLATED", k)
  PROVE  /\ OrderTotal(l) \in Nat /\ OrderTotal(r) \in Nat
         /\ OrderTotal(r) = OrderTotal(l) - Margin(l, "ISOLATED", id) + Margin(r, "ISOLATED", id)
<1> DEFINE S == 1 .. MaxSubmits
           f == [k \in S |-> Margin(l, "ISOLATED", k)]
           g == [k \in S |-> Margin(r, "ISOLATED", k)]
           v == Margin(r, "ISOLATED", id)
<1>1. IsFiniteSet(S)
  BY FS_Interval, DeskAssumption
<1>2. f \in [S -> Nat] /\ g \in [S -> Nat] /\ v \in Nat
  BY MarginIsNat DEF Modes
<1>3. g = [f EXCEPT ![id] = v]
  OBVIOUS
<1>4. f[id] = Margin(l, "ISOLATED", id)
  OBVIOUS
<1>5. OrderTotal(l) = TotalOf(f) /\ OrderTotal(r) = TotalOf(g)
  BY DEF OrderTotal
<1>6. id \in S
  OBVIOUS
<1> HIDE DEF S, f, g, v
<1>7. TotalOf(f) \in Nat /\ TotalOf(g) \in Nat
  BY <1>1, <1>2, TotalIsNat
<1>8. TotalOf([f EXCEPT ![id] = v]) = TotalOf(f) - f[id] + v
  BY <1>1, <1>2, <1>6, TotalOfUpdate
<1> QED BY <1>3, <1>4, <1>5, <1>7, <1>8 DEF v

\* Taking one order out takes its isolated margin out of the sum.
LEMMA ButWorks ==
  ASSUME NEW l \in Lists, NEW i \in DOMAIN l
  PROVE  /\ OrdersBut(l, l[i].id) \in Lists
         /\ \A j \in DOMAIN OrdersBut(l, l[i].id) :
               \E k \in DOMAIN l : l[k] = OrdersBut(l, l[i].id)[j] /\ k # i
         /\ \A k \in DOMAIN l : k # i => \E j \in DOMAIN OrdersBut(l, l[i].id) : OrdersBut(l, l[i].id)[j] = l[k]
         /\ OrderTotal(l) \in Nat
         /\ OrderTotal(OrdersBut(l, l[i].id))
              = OrderTotal(l) - (IF l[i].mode = "ISOLATED" THEN l[i].margin ELSE 0)
<1> DEFINE id == l[i].id
           set == {o \in ToSet(l) : o.id # id}
           r == OrdersBut(l, id)
<1>1. r = Within(l, set)
  BY DEF OrdersBut
<1>2. \A k \in DOMAIN l : l[k] \in set <=> k # i
  BY DEF ToSet, Lists
<1>3. id \in 1 .. MaxSubmits
  BY OrdersAreOrders DEF DeskOrder
<1> HIDE DEF r, set
<1>4. r \in Seq(DeskOrder)
  BY <1>1, OrdersAreOrders, WithinKeeps
<1>5. PICK place : place \in Places(r, l, set)
  BY <1>1, OrdersAreOrders, WithinKeeps
<1>6. /\ place \in [DOMAIN r -> DOMAIN l]
      /\ \A j \in DOMAIN place : r[j] = l[place[j]] /\ l[place[j]] \in set
      /\ \A j, k \in DOMAIN place : place[j] = place[k] => j = k
      /\ \A k \in DOMAIN l : l[k] \in set => \E j \in DOMAIN place : place[j] = k
  BY <1>5 DEF Places
<1>7. r \in Lists
  <2>1. \A j, k \in DOMAIN r : r[j].id = r[k].id => j = k
    BY <1>6 DEF Lists
  <2> QED BY <1>4, <2>1 DEF Lists
<1>8. \A j \in DOMAIN r : \E k \in DOMAIN l : l[k] = r[j] /\ k # i
  BY <1>2, <1>6
<1>9. \A k \in DOMAIN l : k # i => \E j \in DOMAIN r : r[j] = l[k]
  BY <1>2, <1>6
<1>10. Margin(r, "ISOLATED", id) = 0
  <2>1. \A j \in DOMAIN r : r[j].id # id
    BY <1>8 DEF Lists
  <2> QED BY <2>1, NoMargin
<1>11. \A k \in 1 .. MaxSubmits : k # id => Margin(r, "ISOLATED", k) = Margin(l, "ISOLATED", k)
  <2> SUFFICES ASSUME NEW k \in 1 .. MaxSubmits, k # id
               PROVE  Margin(r, "ISOLATED", k) = Margin(l, "ISOLATED", k)
    OBVIOUS
  <2>1. \A j \in DOMAIN l : l[j].id = k => \E n \in DOMAIN r : r[n] = l[j]
    BY <1>9
  <2>2. \A j \in DOMAIN r : r[j].id = k => \E n \in DOMAIN l : l[n] = r[j]
    BY <1>8
  <2> QED BY <1>7, <2>1, <2>2, SameMargin
<1>12. Margin(l, "ISOLATED", id) = IF l[i].mode = "ISOLATED" THEN l[i].margin ELSE 0
  BY MarginFinds
<1>13. l[i].margin \in Nat
  BY OrdersAreOrders DEF DeskOrder
<1> HIDE DEF id
<1>14. OrderTotal(l) \in Nat /\ OrderTotal(r) = OrderTotal(l) - Margin(l, "ISOLATED", id) + 0
  BY <1>3, <1>7, <1>10, <1>11, OrderMove
<1> QED BY <1>7, <1>8, <1>9, <1>12, <1>13, <1>14 DEF r, id

\* A new order adds its isolated margin to the sum.
LEMMA AddWorks ==
  ASSUME NEW l \in Lists, NEW o \in DeskOrder, \A i \in DOMAIN l : l[i].id # o.id
  PROVE  /\ Append(l, o) \in Lists
         /\ OrderTotal(l) \in Nat
         /\ OrderTotal(Append(l, o)) = OrderTotal(l) + (IF o.mode = "ISOLATED" THEN o.margin ELSE 0)
<1> DEFINE r == Append(l, o)
           n == Len(l)
<1>1. l \in Seq(DeskOrder) /\ DOMAIN l = 1 .. n /\ n \in Nat
  BY OrdersAreOrders
<1>2. /\ r \in Seq(DeskOrder) /\ DOMAIN r = 1 .. n + 1
      /\ \A i \in 1 .. n : r[i] = l[i]
      /\ r[n + 1] = o
  BY <1>1, AppendProperties, LenProperties
<1> HIDE DEF r, n
<1>3. \A i \in DOMAIN r : (i \in DOMAIN l /\ r[i] = l[i]) \/ i = n + 1
  BY <1>1, <1>2
<1>4. (\A i \in DOMAIN l : i \in DOMAIN r) /\ n + 1 \in DOMAIN r
  BY <1>1, <1>2
<1>5. r \in Lists
  <2> SUFFICES ASSUME NEW i \in DOMAIN r, NEW j \in DOMAIN r, r[i].id = r[j].id PROVE i = j
    BY <1>2 DEF Lists
  <2> QED BY <1>2, <1>3 DEF Lists
<1>6. Margin(r, "ISOLATED", o.id) = IF o.mode = "ISOLATED" THEN o.margin ELSE 0
  BY <1>2, <1>4, <1>5, MarginFinds
<1>7. Margin(l, "ISOLATED", o.id) = 0
  BY NoMargin
<1>8. \A k \in 1 .. MaxSubmits : k # o.id => Margin(r, "ISOLATED", k) = Margin(l, "ISOLATED", k)
  <2> SUFFICES ASSUME NEW k \in 1 .. MaxSubmits, k # o.id
               PROVE  Margin(r, "ISOLATED", k) = Margin(l, "ISOLATED", k)
    OBVIOUS
  <2>1. \A j \in DOMAIN l : l[j].id = k => \E q \in DOMAIN r : r[q] = l[j]
    BY <1>1, <1>2, <1>4
  <2>2. \A j \in DOMAIN r : r[j].id = k => \E q \in DOMAIN l : l[q] = r[j]
    BY <1>2, <1>3
  <2> QED BY <1>5, <2>1, <2>2, SameMargin
<1>9. o.id \in 1 .. MaxSubmits /\ o.margin \in Nat
  BY DEF DeskOrder
<1>10. OrderTotal(l) \in Nat /\ OrderTotal(r) = OrderTotal(l) - 0 + Margin(r, "ISOLATED", o.id)
  BY <1>5, <1>7, <1>8, <1>9, OrderMove
<1> QED BY <1>5, <1>6, <1>9, <1>10 DEF r

-----------------------------------------------------------------------------
(* What the handlers do to a desk.                                         *)

Prices == [Symbols -> Marks]

\* What a handler can throw.
Errors ==
    {"OK", "PRICE_TICK_MISMATCH", "LEVERAGE", "NO_POSITION_TO_REDUCE",
     "REALIZED_LOSS_EXCEEDS_ACCOUNT_EQUITY", "LIQUIDATION_CONSUME_EXCEEDS_RESERVED",
     "BAD_DEBT_RESOLUTION_REQUIRED", "MARGIN_RELEASE_EXCEEDS_RESERVED"}

DeskRecord == [account : Account, book : Books, orders : Lists, error : Errors]

\* The desks a handler can meet, before its account is looked at.
Desks == {d \in DeskRecord :
            d.account.cash >= 0 /\ d.account.isolated >= 0 /\ d.account.cross >= 0}

InUse(d) == BookTotal(d.book) + OrderTotal(d.orders)

Covered(d) == d.account.isolated >= InUse(d)

\* Both sums are naturals.
LEMMA TotalsAreNat ==
  /\ \A b \in Books : BookTotal(b) \in Nat
  /\ \A l \in Lists : OrderTotal(l) \in Nat
<1>1. ASSUME NEW b \in Books PROVE BookTotal(b) \in Nat
  <2>1. [key \in IsolatedKeys |-> Collateral(b, key)] \in [IsolatedKeys -> Nat]
    BY CollateralIsNat, IsolatedKeysFinite
  <2> QED BY <2>1, IsolatedKeysFinite, TotalIsNat DEF BookTotal
<1>2. ASSUME NEW l \in Lists PROVE OrderTotal(l) \in Nat
  <2>1. 1 .. MaxSubmits \subseteq Nat /\ IsFiniteSet(1 .. MaxSubmits)
    BY FS_Interval, DeskAssumption
  <2>2. [id \in 1 .. MaxSubmits |-> Margin(l, "ISOLATED", id)] \in [1 .. MaxSubmits -> Nat]
    BY MarginIsNat DEF Modes
  <2> QED BY <2>1, <2>2, TotalIsNat DEF OrderTotal
<1> QED BY <1>1, <1>2

\* A shift moves the cash and the reserve of its mode.
LEMMA ShiftIs ==
  ASSUME NEW a \in Account, NEW mode \in Modes, NEW delta \in Int, NEW moved \in Int
  PROVE  /\ Shift(a, mode, delta, moved) \in Account
         /\ Shift(a, mode, delta, moved).cash = a.cash + moved
         /\ Shift(a, mode, delta, moved).isolated = IF mode = "ISOLATED" THEN a.isolated + delta ELSE a.isolated
         /\ Shift(a, mode, delta, moved).cross = IF mode = "ISOLATED" THEN a.cross ELSE a.cross + delta
<1>1. CASE mode = "CROSS"
  <2> DEFINE cash == a.cash + moved
             held == a.isolated
             shared == a.cross + delta
             new == [a EXCEPT !.cash = cash, !.isolated = held, !.cross = shared]
  <2>1. Shift(a, mode, delta, moved) = new
    BY <1>1 DEF Account, Shift
  <2>2. cash \in Int /\ held \in Int /\ shared \in Int
    BY DEF Account
  <2> HIDE DEF cash, held, shared
  <2>3. new \in Account /\ new.cash = cash /\ new.isolated = held /\ new.cross = shared
    BY <2>2 DEF Account
  <2> QED BY <1>1, <2>1, <2>3 DEF cash, held, shared
<1>2. CASE mode = "ISOLATED"
  <2> DEFINE cash == a.cash + moved
             held == a.isolated + delta
             shared == a.cross
             new == [a EXCEPT !.cash = cash, !.isolated = held, !.cross = shared]
  <2>1. Shift(a, mode, delta, moved) = new
    BY <1>2 DEF Account, Shift
  <2>2. cash \in Int /\ held \in Int /\ shared \in Int
    BY DEF Account
  <2> HIDE DEF cash, held, shared
  <2>3. new \in Account /\ new.cash = cash /\ new.isolated = held /\ new.cross = shared
    BY <2>2 DEF Account
  <2> QED BY <1>2, <2>1, <2>3 DEF cash, held, shared
<1> QED BY <1>1, <1>2 DEF Modes

\* An error is recorded and changes nothing else.
LEMMA FailIs ==
  ASSUME NEW d \in DeskRecord, NEW code \in Errors
  PROVE  /\ Fail(d, code) \in DeskRecord /\ Fail(d, code).error = code
         /\ Fail(d, code).account = d.account /\ Fail(d, code).book = d.book
         /\ Fail(d, code).orders = d.orders
BY DEF Fail, DeskRecord

\* The part of a position that a part of its quantity takes with it.
LEMMA PartIs ==
  ASSUME NEW c \in Nat \ {0}, NEW n \in Nat \ {0}, NEW q \in 1 .. n
  PROVE  /\ (c * q) \div n \in 0 .. c
         /\ q = n => (c * q) \div n = c
         /\ q < n => (c * q) \div n < c
<1>1. c * q \in Nat /\ c * n \in Nat /\ c * q <= c * n
  BY MulNat, MulMono
<1> DEFINE x == c * q
           y == c * n
           z == x \div n
<1>2. y \div n = c
  BY DivCancel
<1>3. x \in Nat /\ y \in Nat /\ x <= y /\ (q = n => x = y)
  BY <1>1
<1>4. z \in Nat /\ z <= y \div n
  <2> HIDE DEF x, y
  <2> QED BY <1>3, DivNat, DivMono
<1>5. q < n => z < c
  <2> SUFFICES ASSUME q < n, z >= c PROVE FALSE
    BY <1>4
  <2>1. c * (n - q) > 0 /\ c * (n - q) = y - x
    OBVIOUS
  <2>2. n * z <= x
    <3> HIDE DEF x
    <3> QED BY <1>3
  <2>3. n * c <= n * z
    <3> HIDE DEF z
    <3> QED BY <1>4, MulMono
  <2> QED BY <1>1, <1>4, <2>1, <2>2, <2>3
<1> HIDE DEF x, y, z
<1>6. z \in 0 .. c /\ (q = n => z = c)
  BY <1>2, <1>3, <1>4 DEF z
<1> QED BY <1>5, <1>6 DEF x, z

\* A reduced position keeps its key and gives up its share of collateral.
LEMMA ReducedIs ==
  ASSUME NEW p \in DeskPosition, NEW q \in 1 .. p.qty, q # p.qty
  PROVE  /\ Reduced(p, q) \in DeskPosition /\ KeyOf(Reduced(p, q)) = KeyOf(p)
         /\ Reduced(p, q).collateral = p.collateral - (p.collateral * q) \div p.qty
<1>1. /\ p.qty \in Nat \ {0} /\ p.collateral \in Nat \ {0} /\ p.cost \in Int /\ q \in Nat /\ q < p.qty
      /\ p.qty - q \in Nat \ {0}
  BY DEF DeskPosition
<1> DEFINE c == p.collateral - (p.collateral * q) \div p.qty
           k == p.cost - (p.cost * q) \div p.qty
<1>2. c \in Nat \ {0}
  BY <1>1, PartIs
<1>3. k \in Int
  <2>1. p.cost * q \in Int
    BY <1>1
  <2> DEFINE x == p.cost * q
  <2> HIDE DEF x
  <2>2. x \div p.qty \in Int
    BY <1>1, <2>1 DEF x
  <2> QED BY <1>1, <2>2 DEF x
<1>4. Reduced(p, q) = [p EXCEPT !.qty = p.qty - q, !.cost = k, !.collateral = c]
  BY DEF Reduced, DeskPosition
<1> HIDE DEF c, k
<1>5. Reduced(p, q) \in DeskPosition /\ Reduced(p, q).collateral = c
  BY <1>1, <1>2, <1>3, <1>4 DEF DeskPosition
<1>6. KeyOf(Reduced(p, q)) = KeyOf(p)
  BY <1>4 DEF KeyOf, DeskPosition
<1> QED BY <1>5, <1>6 DEF c

\* A position's profit at a mark is an integer.
LEMMA PnlIs ==
  ASSUME NEW p \in DeskPosition, NEW m \in Prices
  PROVE  m[p.symbol] \in Nat \ {0} /\ Pnl(p, m[p.symbol]) \in Int
<1>1. m[p.symbol] \in Nat \ {0} /\ p.qty \in Nat /\ p.cost \in Int
  BY DeskAssumption DEF Prices, DeskPosition
<1> DEFINE k == m[p.symbol]
<1>2. k \in Nat /\ p.qty * k \in Int
  BY <1>1
<1> HIDE DEF k
<1>3. Direction(p.side) * (p.qty * k - p.cost) \in Int
  <2> DEFINE x == p.qty * k - p.cost
  <2>1. x \in Int
    BY <1>1, <1>2
  <2> HIDE DEF x
  <2>2. Direction(p.side) \in Int
    BY DEF Direction
  <2> DEFINE y == Direction(p.side)
  <2> HIDE DEF y
  <2>3. y * x \in Int
    BY <2>1, <2>2 DEF y
  <2> QED BY <2>3 DEF x, y
<1> QED BY <1>1, <1>3 DEF Pnl, k

\* A book that changes at one key takes its collateral along.
LEMMA BookMoves ==
  ASSUME NEW d \in Desks, NEW b \in Books, NEW key \in DeskKeys, NEW a \in Account,
         \A k \in DeskKeys : k # key => Collateral(b, k) = Collateral(d.book, k),
         a.isolated = IF key[3] = "ISOLATED"
                      THEN d.account.isolated - Collateral(d.book, key) + Collateral(b, key)
                      ELSE d.account.isolated,
         Covered(d)
  PROVE  a.isolated >= BookTotal(b) + OrderTotal(d.orders)
<1>1. d.book \in Books /\ d.orders \in Lists /\ d.account \in Account
  BY DEF Desks, DeskRecord
<1>2. /\ BookTotal(d.book) \in Nat /\ BookTotal(b) \in Nat /\ OrderTotal(d.orders) \in Nat
      /\ Collateral(b, key) \in Nat /\ Collateral(d.book, key) \in Nat
      /\ d.account.isolated \in Int
  BY <1>1, TotalsAreNat, CollateralIsNat DEF Account
<1>3. BookTotal(b) = IF key[3] = "ISOLATED"
                     THEN BookTotal(d.book) - Collateral(d.book, key) + Collateral(b, key)
                     ELSE BookTotal(d.book)
  BY <1>1, BookMove
<1>4. d.account.isolated >= BookTotal(d.book) + OrderTotal(d.orders)
  BY DEF Covered, InUse
<1> QED BY <1>2, <1>3, <1>4

\* What a desk consists of.
LEMMA DeskParts ==
  ASSUME NEW d \in Desks
  PROVE  /\ d \in DeskRecord /\ d.account \in Account /\ d.book \in Books /\ d.orders \in Lists
         /\ d.account.cash \in Nat /\ d.account.isolated \in Nat /\ d.account.cross \in Nat
BY DEF Desks, DeskRecord, Account

\* A filled order is a position under the order's key with its margin.
LEMMA FillIs ==
  ASSUME NEW o \in DeskOrder, NEW price \in Nat
  PROVE  /\ PositionOf(o, price) \in DeskPosition
         /\ KeyOf(PositionOf(o, price)) = <<o.symbol, o.side, o.mode>>
         /\ PositionOf(o, price).collateral = o.margin
<1>1. o.qty \in Nat
  BY DEF DeskOrder
<1> DEFINE c == o.qty * price
<1>2. c \in Int
  BY <1>1
<1>3. PositionOf(o, price) = [symbol |-> o.symbol, side |-> o.side, mode |-> o.mode, qty |-> o.qty,
                              cost |-> c, collateral |-> o.margin, tp |-> o.tp, sl |-> o.sl]
  BY DEF PositionOf
<1> HIDE DEF c
<1> QED BY <1>2, <1>3 DEF DeskPosition, DeskOrder, KeyOf

\* A fill merged into a position adds its collateral.
LEMMA MergedIs ==
  ASSUME NEW p \in DeskPosition, NEW f \in DeskPosition
  PROVE  /\ Merged(p, f) \in DeskPosition /\ KeyOf(Merged(p, f)) = KeyOf(p)
         /\ Merged(p, f).collateral = p.collateral + f.collateral
<1> DEFINE tp == IF f.tp # 0 THEN f.tp ELSE p.tp
           sl == IF f.sl # 0 THEN f.sl ELSE p.sl
           qty == p.qty + f.qty
           cost == p.cost + f.cost
           col == p.collateral + f.collateral
<1>1. Merged(p, f) = [p EXCEPT !.qty = qty, !.cost = cost, !.collateral = col, !.tp = tp, !.sl = sl]
  BY DEF Merged, DeskPosition
<1>2. tp \in Nat /\ sl \in Nat /\ qty \in Nat \ {0} /\ cost \in Int /\ col \in Nat \ {0}
  BY DEF DeskPosition
<1> HIDE DEF tp, sl, qty, cost, col
<1>3. Merged(p, f) \in DeskPosition /\ Merged(p, f).collateral = col
  BY ZenonT(60), <1>1, <1>2 DEF DeskPosition
<1>4. KeyOf(Merged(p, f)) = KeyOf(p)
  BY <1>1 DEF KeyOf, DeskPosition
<1> QED BY <1>3, <1>4 DEF col

\* Opening adds at most the order's isolated margin to the book.
LEMMA OpenIs ==
  ASSUME NEW d \in Desks, NEW o \in DeskOrder, NEW price \in Nat
  PROVE  /\ OpenPosition(d, o, price) \in Desks
         /\ OpenPosition(d, o, price).orders = d.orders
         /\ OpenPosition(d, o, price).account = d.account
         /\ BookTotal(OpenPosition(d, o, price).book)
              <= BookTotal(d.book) + (IF o.mode = "ISOLATED" THEN o.margin ELSE 0)
<1> DEFINE fill == PositionOf(o, price)
           held == Holds(d.book, KeyOf(fill))
           next == IF held THEN Merged(Get(d.book, KeyOf(fill)), fill) ELSE fill
           r == OpenPosition(d, o, price)
           rise == IF o.mode = "ISOLATED" THEN o.margin ELSE 0
<1>1. /\ d \in DeskRecord /\ d.book \in Books /\ BookTotal(d.book) \in Nat /\ o.margin \in Nat /\ rise \in Nat
  BY DeskParts, TotalsAreNat DEF DeskOrder
<1>2. fill \in DeskPosition /\ KeyOf(fill) \in DeskKeys /\ KeyOf(fill)[3] = o.mode /\ fill.collateral = o.margin
  BY FillIs, KeysAreKeys DEF PositionOf
<1>3. r = IF ~OnTick(price) THEN Fail(d, "PRICE_TICK_MISMATCH")
          ELSE IF ~LeverageFits(next.cost, next.collateral) THEN Fail(d, "LEVERAGE")
          ELSE IF held THEN [d EXCEPT !.book = Put(d.book, next)]
          ELSE [d EXCEPT !.book = Append(d.book, next)]
  BY <1>1 DEF OpenPosition, DeskRecord
<1> DEFINE key == KeyOf(fill)
<1> HIDE DEF fill, r, rise
<1>4. CASE r \in {Fail(d, "PRICE_TICK_MISMATCH"), Fail(d, "LEVERAGE")}
  <2>1. PICK code \in Errors : r = Fail(d, code)
    <3>1. "PRICE_TICK_MISMATCH" \in Errors /\ "LEVERAGE" \in Errors
      BY DEF Errors
    <3> QED BY <1>4, <3>1
  <2>2. /\ r \in DeskRecord /\ r.account = d.account /\ r.book = d.book /\ r.orders = d.orders
    BY <1>1, <2>1, FailIs
  <2>3. r \in Desks
    BY <2>2 DEF Desks
  <2>4. BookTotal(r.book) <= BookTotal(d.book) + rise
    BY <1>1, <2>2
  <2> QED BY <2>2, <2>3, <2>4 DEF r, rise
<1>5. CASE held /\ r = [d EXCEPT !.book = Put(d.book, next)]
  <2>1. PICK i \in DOMAIN d.book : KeyOf(d.book[i]) = key /\ Get(d.book, key) = d.book[i] /\ d.book[i] \in DeskPosition
    BY <1>1, <1>5, HeldIsThere
  <2>2. /\ next \in DeskPosition /\ KeyOf(next) = key
        /\ next.collateral = d.book[i].collateral + o.margin
    BY <1>2, <1>5, <2>1, MergedIs
  <2> DEFINE b == Put(d.book, next)
  <2> HIDE DEF next
  <2>3. /\ b \in Books /\ Collateral(b, key) = next.collateral
        /\ \A k \in DeskKeys : k # key => Collateral(b, k) = Collateral(d.book, k)
    BY <1>1, <1>5, <2>2, PutWorks
  <2>4. Collateral(d.book, key) = d.book[i].collateral
    BY <1>1, <2>1, GetFinds
  <2> HIDE DEF key, b
  <2>5. /\ BookTotal(b) \in Nat
        /\ BookTotal(b) = IF key[3] = "ISOLATED"
                          THEN BookTotal(d.book) - Collateral(d.book, key) + Collateral(b, key)
                          ELSE BookTotal(d.book)
    BY <1>1, <1>2, <2>3, BookMove DEF key
  <2>6. d.book[i].collateral \in Nat
    BY <2>1 DEF DeskPosition
  <2>7. BookTotal(b) <= BookTotal(d.book) + rise
    BY <1>1, <1>2, <2>2, <2>3, <2>4, <2>5, <2>6 DEF rise, key
  <2>8. r = [d EXCEPT !.book = b]
    BY <1>5 DEF b
  <2>9. r \in Desks /\ r.orders = d.orders /\ r.account = d.account /\ r.book = b
    BY <1>1, <2>3, <2>8 DEF Desks, DeskRecord
  <2> QED BY <2>7, <2>9 DEF r, rise
<1>6. CASE ~held /\ r = [d EXCEPT !.book = Append(d.book, next)]
  <2>1. next = fill
    BY <1>6
  <2> DEFINE b == Append(d.book, fill)
  <2>3. /\ b \in Books /\ Collateral(b, key) = o.margin
        /\ \A k \in DeskKeys : k # key => Collateral(b, k) = Collateral(d.book, k)
    BY <1>1, <1>2, <1>6, AppendWorks
  <2>4. Collateral(d.book, key) = 0
    BY <1>6 DEF Collateral
  <2>8. r = [d EXCEPT !.book = b]
    BY <1>6, <2>1
  <2> HIDE DEF key, b
  <2>5. /\ BookTotal(b) \in Nat
        /\ BookTotal(b) = IF key[3] = "ISOLATED"
                          THEN BookTotal(d.book) - Collateral(d.book, key) + Collateral(b, key)
                          ELSE BookTotal(d.book)
    BY <1>1, <1>2, <2>3, BookMove DEF key
  <2>7. BookTotal(b) <= BookTotal(d.book) + rise
    BY <1>1, <1>2, <2>3, <2>4, <2>5 DEF rise, key
  <2>9. r \in Desks /\ r.orders = d.orders /\ r.account = d.account /\ r.book = b
    BY <1>1, <2>3, <2>8 DEF Desks, DeskRecord
  <2> QED BY <2>7, <2>9 DEF r, rise
<1> HIDE DEF next, key
<1> QED BY <1>3, <1>4, <1>5, <1>6 DEF key

\* A release lowers the reserve of its mode by what it gives back.
LEMMA ReleaseIs ==
  ASSUME NEW a \in Account, a.cash >= 0, a.isolated >= 0, a.cross >= 0,
         NEW mode \in Modes, NEW value \in Nat, NEW pnl \in Int, CanRelease(a, value, pnl, mode)
  PROVE  /\ Release(a, value, pnl, mode) \in Account
         /\ Release(a, value, pnl, mode).cash >= 0
         /\ Release(a, value, pnl, mode).isolated >= 0
         /\ Release(a, value, pnl, mode).cross >= 0
         /\ Release(a, value, pnl, mode).isolated
              = IF mode = "ISOLATED" THEN a.isolated - value ELSE a.isolated
<1> DEFINE delta == -value
           moved == value + pnl
           r == Shift(a, mode, delta, moved)
<1>1. a.cash \in Int /\ a.isolated \in Int /\ a.cross \in Int /\ delta \in Int /\ moved \in Int
  BY DEF Account
<1>2. Release(a, value, pnl, mode) = r
  BY DEF Release
<1> HIDE DEF r
<1>3. /\ r \in Account /\ r.cash = a.cash + moved
      /\ r.isolated = IF mode = "ISOLATED" THEN a.isolated + delta ELSE a.isolated
      /\ r.cross = IF mode = "ISOLATED" THEN a.cross ELSE a.cross + delta
  <2> HIDE DEF delta, moved
  <2> QED BY <1>1, ShiftIs DEF r
<1>4. a.cash + value + pnl >= 0 /\ value <= ReservedOf(a, mode)
  BY DEF CanRelease
<1>5. CASE mode = "ISOLATED"
  BY <1>1, <1>2, <1>3, <1>4, <1>5 DEF ReservedOf
<1>6. CASE mode = "CROSS"
  BY <1>1, <1>2, <1>3, <1>4, <1>6 DEF ReservedOf
<1> QED BY <1>5, <1>6 DEF Modes

\* A liquidation consumes the isolated reserve by the collateral lost.
LEMMA ConsumeIs ==
  ASSUME NEW a \in Account, a.cash >= 0, a.isolated >= 0, a.cross >= 0,
         NEW value \in Nat, CanConsume(a, value, "ISOLATED")
  PROVE  /\ ConsumeLiquidation(a, value, "ISOLATED") \in Account
         /\ ConsumeLiquidation(a, value, "ISOLATED").cash >= 0
         /\ ConsumeLiquidation(a, value, "ISOLATED").isolated >= 0
         /\ ConsumeLiquidation(a, value, "ISOLATED").cross >= 0
         /\ ConsumeLiquidation(a, value, "ISOLATED").isolated = a.isolated - value
<1> DEFINE delta == -value
           r == Shift(a, "ISOLATED", delta, 0)
<1>1. a.cash \in Int /\ a.isolated \in Int /\ a.cross \in Int /\ delta \in Int
  BY DEF Account
<1>2. ConsumeLiquidation(a, value, "ISOLATED") = r
  BY DEF ConsumeLiquidation
<1> HIDE DEF r
<1>3. /\ r \in Account /\ r.cash = a.cash + 0
      /\ r.isolated = a.isolated + delta /\ r.cross = a.cross
  <2> HIDE DEF delta
  <2> QED BY <1>1, ShiftIs DEF r, Modes
<1>4. value <= a.isolated
  BY DEF CanConsume, ReservedOf
<1> QED BY <1>1, <1>2, <1>3, <1>4

\* Reducing a position releases as much isolated margin as leaves the book.
LEMMA SettleIs ==
  ASSUME NEW d \in Desks, NEW p \in DeskPosition, NEW q \in 1 .. p.qty, NEW m \in Prices
  PROVE  /\ SettleReduction(d, p, q, m) \in Desks
         /\ SettleReduction(d, p, q, m).orders = d.orders
         /\ (Covered(d) /\ \E i \in DOMAIN d.book : d.book[i] = p)
              => Covered(SettleReduction(d, p, q, m))
         /\ (q = p.qty /\ Holds(d.book, KeyOf(p)))
              => SettleReduction(d, p, q, m).book = Without(d.book, KeyOf(p))
<1> DEFINE key == KeyOf(p)
           released == (p.collateral * q) \div p.qty
           pnl == (Pnl(p, m[p.symbol]) * q) \div p.qty
           b == IF q = p.qty THEN Without(d.book, key) ELSE Put(d.book, Reduced(p, q))
           reduced == [d EXCEPT !.book = b]
           a == Release(d.account, released, pnl, p.mode)
           r == SettleReduction(d, p, q, m)
<1>1. /\ d \in DeskRecord /\ d.account \in Account /\ d.book \in Books /\ d.orders \in Lists
      /\ d.account.cash \in Nat /\ d.account.isolated \in Nat /\ d.account.cross \in Nat
  BY DeskParts
<1>2. /\ p.qty \in Nat \ {0} /\ p.collateral \in Nat \ {0} /\ q \in Nat \ {0}
      /\ p.mode \in Modes /\ key \in DeskKeys /\ key[3] = p.mode
  BY KeysAreKeys DEF DeskPosition
<1>3. released \in 0 .. p.collateral /\ (q = p.qty => released = p.collateral)
  BY <1>2, PartIs
<1>4. pnl \in Int
  <2> DEFINE x == Pnl(p, m[p.symbol])
  <2>1. x \in Int
    BY PnlIs
  <2> HIDE DEF x
  <2> DEFINE y == x * q
  <2>2. y \in Int
    BY <1>2, <2>1
  <2> HIDE DEF y
  <2>3. y \div p.qty \in Int
    BY <1>2, <2>2
  <2> QED BY <2>3 DEF x, y
<1>5. r = IF ~Holds(d.book, key) THEN Fail(d, "NO_POSITION_TO_REDUCE")
          ELSE IF CanRelease(d.account, released, pnl, p.mode)
          THEN [reduced EXCEPT !.account = a]
          ELSE Fail(reduced, "REALIZED_LOSS_EXCEEDS_ACCOUNT_EQUITY")
  BY <1>1 DEF SettleReduction, DeskRecord
<1> HIDE DEF key, pnl, r
<1>6. CASE ~Holds(d.book, key)
  <2>1. r = Fail(d, "NO_POSITION_TO_REDUCE")
    BY <1>5, <1>6
  <2>2. r \in DeskRecord /\ r.account = d.account /\ r.book = d.book /\ r.orders = d.orders
    <3>1. "NO_POSITION_TO_REDUCE" \in Errors
      BY DEF Errors
    <3> QED BY <1>1, <2>1, <3>1, FailIs
  <2>3. r \in Desks /\ (Covered(d) => Covered(r))
    BY <2>2 DEF Desks, Covered, InUse
  <2> QED BY <1>6, <2>2, <2>3 DEF r, key
<1>7. CASE Holds(d.book, key)
  <2>1. /\ b \in Books
        /\ \A k \in DeskKeys : k # key => Collateral(b, k) = Collateral(d.book, k)
        /\ Collateral(b, key) = p.collateral - released
    <3>1. CASE q = p.qty
      BY <1>1, <1>2, <1>3, <3>1, WithoutWorks
    <3>2. CASE q # p.qty
      <4>1. /\ Reduced(p, q) \in DeskPosition /\ KeyOf(Reduced(p, q)) = key
            /\ Reduced(p, q).collateral = p.collateral - released
        BY <3>2, ReducedIs DEF key
      <4> QED BY <1>1, <1>7, <3>2, <4>1, PutWorks
    <3> QED BY <3>1, <3>2
  <2>2. q = p.qty => b = Without(d.book, key)
    OBVIOUS
  <2> HIDE DEF b, released
  <2>3. /\ reduced \in DeskRecord /\ reduced.account = d.account
        /\ reduced.book = b /\ reduced.orders = d.orders
    BY <1>1, <2>1 DEF DeskRecord
  <2> HIDE DEF reduced
  <2> DEFINE held == Covered(d) /\ \E i \in DOMAIN d.book : d.book[i] = p
             left == p.collateral - released
  <2>4. held => Collateral(d.book, key) = p.collateral
    BY <1>1, GetFinds DEF key
  <2>5. CASE CanRelease(d.account, released, pnl, p.mode)
    <3>1. /\ a \in Account /\ a.cash >= 0 /\ a.isolated >= 0 /\ a.cross >= 0
          /\ a.isolated = IF p.mode = "ISOLATED" THEN d.account.isolated - released ELSE d.account.isolated
      BY <1>1, <1>2, <1>3, <1>4, <2>5, ReleaseIs
    <3>2. r = [reduced EXCEPT !.account = a]
      BY <1>5, <1>7, <2>5
    <3> HIDE DEF a
    <3>3. r \in DeskRecord /\ r.account = a /\ r.book = b /\ r.orders = d.orders
      BY <2>3, <3>1, <3>2 DEF DeskRecord
    <3>4. r \in Desks
      BY <3>1, <3>3 DEF Desks
    <3>5. held => Covered(r)
      <4> SUFFICES ASSUME held PROVE Covered(r)
        OBVIOUS
      <4>1. a.isolated = IF key[3] = "ISOLATED"
                         THEN d.account.isolated - Collateral(d.book, key) + Collateral(b, key)
                         ELSE d.account.isolated
        BY <1>1, <1>2, <1>3, <2>1, <2>4, <3>1
      <4>2. a.isolated >= BookTotal(b) + OrderTotal(d.orders)
        BY <1>2, <2>1, <3>1, <4>1, BookMoves
      <4> QED BY <3>3, <4>2 DEF Covered, InUse
    <3> QED BY <2>2, <3>3, <3>4, <3>5 DEF r, key
  <2>6. CASE ~CanRelease(d.account, released, pnl, p.mode)
    <3>1. r = Fail(reduced, "REALIZED_LOSS_EXCEEDS_ACCOUNT_EQUITY")
      BY <1>5, <1>7, <2>6
    <3>2. r \in DeskRecord /\ r.account = d.account /\ r.book = b /\ r.orders = d.orders
      <4>1. "REALIZED_LOSS_EXCEEDS_ACCOUNT_EQUITY" \in Errors
        BY DEF Errors
      <4> QED BY <2>3, <3>1, <4>1, FailIs
    <3>3. r \in Desks
      BY <1>1, <3>2 DEF Desks
    <3>4. held => Covered(r)
      <4> SUFFICES ASSUME held PROVE Covered(r)
        OBVIOUS
      <4>1. /\ BookTotal(b) \in Nat /\ BookTotal(d.book) \in Nat
            /\ BookTotal(b) = IF key[3] = "ISOLATED"
                              THEN BookTotal(d.book) - Collateral(d.book, key) + Collateral(b, key)
                              ELSE BookTotal(d.book)
        BY <1>1, <1>2, <2>1, BookMove
      <4>2. BookTotal(b) <= BookTotal(d.book)
        BY <1>2, <1>3, <2>1, <2>4, <4>1
      <4>3. OrderTotal(d.orders) \in Nat
        BY <1>1, TotalsAreNat
      <4> QED BY <1>1, <3>2, <4>1, <4>2, <4>3 DEF Covered, InUse
    <3> QED BY <2>2, <3>2, <3>3, <3>4 DEF r, key
  <2> QED BY <2>5, <2>6
<1> QED BY <1>6, <1>7

\* Liquidating an isolated position consumes what leaves the book.
LEMMA LiquidateIs ==
  ASSUME NEW d \in Desks, NEW p \in DeskPosition, p.mode = "ISOLATED"
  PROVE  /\ LiquidateIsolated(d, p) \in Desks
         /\ LiquidateIsolated(d, p).orders = d.orders
         /\ LiquidateIsolated(d, p).book = Without(d.book, KeyOf(p))
         /\ (Covered(d) /\ \E i \in DOMAIN d.book : d.book[i] = p) => Covered(LiquidateIsolated(d, p))
<1> DEFINE key == KeyOf(p)
           b == Without(d.book, key)
           removed == [d EXCEPT !.book = b]
           a == ConsumeLiquidation(d.account, p.collateral, "ISOLATED")
           r == LiquidateIsolated(d, p)
           held == Covered(d) /\ \E i \in DOMAIN d.book : d.book[i] = p
<1>1. /\ d \in DeskRecord /\ d.account \in Account /\ d.book \in Books /\ d.orders \in Lists
      /\ d.account.cash \in Nat /\ d.account.isolated \in Nat /\ d.account.cross \in Nat
  BY DeskParts
<1>2. p.collateral \in Nat /\ key \in DeskKeys /\ key[3] = "ISOLATED"
  BY KeysAreKeys DEF DeskPosition
<1>3. r = IF CanConsume(d.account, p.collateral, "ISOLATED") THEN [removed EXCEPT !.account = a]
          ELSE Fail(removed, "LIQUIDATION_CONSUME_EXCEEDS_RESERVED")
  BY <1>1 DEF LiquidateIsolated, DeskRecord
<1>4. held => Collateral(d.book, key) = p.collateral
  BY <1>1, GetFinds
<1> HIDE DEF key, r
<1>5. /\ b \in Books
      /\ \A k \in DeskKeys : k # key => Collateral(b, k) = Collateral(d.book, k)
      /\ Collateral(b, key) = 0
  BY <1>1, <1>2, WithoutWorks
<1>6. Holds(d.book, key) => TRUE
  OBVIOUS
<1> HIDE DEF b
<1>7. /\ removed \in DeskRecord /\ removed.account = d.account
      /\ removed.book = b /\ removed.orders = d.orders
  BY <1>1, <1>5 DEF DeskRecord
<1> HIDE DEF removed
<1>8. CASE CanConsume(d.account, p.collateral, "ISOLATED")
  <2>1. /\ a \in Account /\ a.cash >= 0 /\ a.isolated >= 0 /\ a.cross >= 0
        /\ a.isolated = d.account.isolated - p.collateral
    BY <1>1, <1>2, <1>8, ConsumeIs
  <2>2. r = [removed EXCEPT !.account = a]
    BY <1>3, <1>8
  <2> HIDE DEF a
  <2>3. r \in DeskRecord /\ r.account = a /\ r.book = b /\ r.orders = d.orders
    BY <1>7, <2>1, <2>2 DEF DeskRecord
  <2>4. r \in Desks
    BY <2>1, <2>3 DEF Desks
  <2>5. held => Covered(r)
    <3> SUFFICES ASSUME held PROVE Covered(r)
      OBVIOUS
    <3>1. a.isolated = IF key[3] = "ISOLATED"
                       THEN d.account.isolated - Collateral(d.book, key) + Collateral(b, key)
                       ELSE d.account.isolated
      BY <1>1, <1>2, <1>4, <1>5, <2>1
    <3>2. a.isolated >= BookTotal(b) + OrderTotal(d.orders)
      BY <1>2, <1>5, <2>1, <3>1, BookMoves
    <3> QED BY <2>3, <3>2 DEF Covered, InUse
  <2> QED BY <2>3, <2>4, <2>5 DEF r, b, key
<1>9. CASE ~CanConsume(d.account, p.collateral, "ISOLATED")
  <2>1. r = Fail(removed, "LIQUIDATION_CONSUME_EXCEEDS_RESERVED")
    BY <1>3, <1>9
  <2>2. r \in DeskRecord /\ r.account = d.account /\ r.book = b /\ r.orders = d.orders
    <3>1. "LIQUIDATION_CONSUME_EXCEEDS_RESERVED" \in Errors
      BY DEF Errors
    <3> QED BY <1>7, <2>1, <3>1, FailIs
  <2>3. r \in Desks
    BY <1>1, <2>2 DEF Desks
  <2>4. held => Covered(r)
    <3> SUFFICES ASSUME held PROVE Covered(r)
      OBVIOUS
    <3>1. /\ BookTotal(b) \in Nat /\ BookTotal(d.book) \in Nat
          /\ BookTotal(b) = IF key[3] = "ISOLATED"
                            THEN BookTotal(d.book) - Collateral(d.book, key) + Collateral(b, key)
                            ELSE BookTotal(d.book)
      BY <1>1, <1>2, <1>5, BookMove
    <3>2. OrderTotal(d.orders) \in Nat
      BY <1>1, TotalsAreNat
    <3> QED BY <1>1, <1>2, <1>4, <1>5, <2>2, <3>1, <3>2 DEF Covered, InUse
  <2> QED BY <2>2, <2>3, <2>4 DEF r, b, key
<1> QED BY <1>8, <1>9

\* The partial sums of the unrealised results of a list of positions.
Sums(list, m) ==
  {f \in [0 .. Len(list) -> Int] :
     f[0] = 0 /\ \A i \in 1 .. Len(list) : f[i] = f[i - 1] + Pnl(list[i], m[list[i].symbol])}

\* The profit of a whole book is an integer.
LEMMA SumIsInt ==
  ASSUME NEW b \in Books, NEW m \in Prices
  PROVE  SumOver(b, LAMBDA p : Pnl(p, m[p.symbol])) \in Int
<1> DEFINE n == Len(b)
           h == [ix \in (1 .. n) \X Int |-> ix[2] + Pnl(b[ix[1]], m[b[ix[1]].symbol])]
           Is(f) == f = [i \in 0 .. n |->
                           IF i = 0 THEN 0 ELSE f[i - 1] + Pnl(b[i], m[b[i].symbol])]
<1>1. /\ n \in Nat /\ \A i \in 1 .. n : b[i] \in DeskPosition /\ Pnl(b[i], m[b[i].symbol]) \in Int
  <2>1. n \in Nat /\ \A i \in 1 .. n : b[i] \in DeskPosition
    BY LenProperties, ElementOfSeq DEF Books
  <2> QED BY <2>1, PnlIs
<1>2. h \in [(1 .. n) \X Int -> Int]
  BY <1>1
<1>3. ASSUME NEW f \in Passes(n, Int, 0, h) PROVE Is(f) /\ f \in [0 .. n -> Int]
  <2>1. /\ f \in [0 .. n -> Int]
        /\ f[0] = 0 /\ \A i \in 1 .. n : f[i] = h[<<i, f[i - 1]>>]
    BY DEF Passes
  <2>2. \A i \in 1 .. n : i - 1 \in 0 .. n /\ f[i - 1] \in Int
    <3> HIDE DEF n
    <3>1. \A i \in 1 .. n : i - 1 \in 0 .. n
      BY <1>1
    <3> QED BY <2>1, <3>1
  <2>3. \A i \in 1 .. n : f[i] = f[i - 1] + Pnl(b[i], m[b[i].symbol])
    BY <2>1, <2>2
  <2>4. \A i \in 0 .. n : f[i] = IF i = 0 THEN 0 ELSE f[i - 1] + Pnl(b[i], m[b[i].symbol])
    <3> HIDE DEF n, h
    <3> SUFFICES ASSUME NEW i \in 0 .. n, i # 0 PROVE i \in 1 .. n
      BY <2>1, <2>3
    <3> QED BY <1>1
  <2> QED BY <2>1, <2>4
<1> HIDE DEF n, h
<1>4. Passes(n, Int, 0, h) # {}
  <2>1. n \in Nat /\ 0 \in Int
    BY <1>1
  <2> QED BY <1>2, <2>1, StepByStep
<1> DEFINE after == CHOOSE f : Is(f)
<1>5. PICK f \in [0 .. n -> Int] : Is(f)
  BY <1>3, <1>4
<1>6. Is(after)
  BY <1>5
<1>7. SumOver(b, LAMBDA p : Pnl(p, m[p.symbol])) = after[n]
  BY DEF SumOver, ForEach, n
<1> HIDE DEF after
<1> DEFINE S == {i \in 0 .. n : after[i] \in Int}
<1>8. 0 \in S /\ \A i \in 0 .. n - 1 : i \in S => i + 1 \in S
  <2>1. \A i \in 0 .. n : after[i] = IF i = 0 THEN 0 ELSE after[i - 1] + Pnl(b[i], m[b[i].symbol])
    BY <1>6
  <2>2. ASSUME NEW i \in 0 .. n - 1, i \in S PROVE i + 1 \in S
    <3>1. i + 1 \in 1 .. n /\ i + 1 \in 0 .. n /\ i + 1 # 0 /\ i + 1 - 1 = i
      BY <1>1
    <3>2. after[i + 1] = after[i] + Pnl(b[i + 1], m[b[i + 1].symbol])
      BY <2>1, <3>1
    <3>3. Pnl(b[i + 1], m[b[i + 1].symbol]) \in Int /\ after[i] \in Int
      BY <1>1, <2>2, <3>1
    <3> QED BY <3>1, <3>2, <3>3
  <2> QED BY SMTT(40), <1>1, <2>1, <2>2
<1> HIDE DEF S
<1>9. \A i \in 0 .. n : i \in S
  <2>1. n \in Nat /\ 0 \in S /\ \A i \in 0 .. n - 1 : i \in S => i + 1 \in S
    BY <1>1, <1>8
  <2> QED BY <2>1, UpTo
<1>10. n \in S
  <2>1. n \in 0 .. n
    BY <1>1
  <2> QED BY <1>9, <2>1
<1> QED BY <1>7, <1>10 DEF S

\* The equity of the cross account is an integer.
LEMMA CrossEquityIsInt ==
  ASSUME NEW d \in Desks, NEW m \in Prices
  PROVE  CrossEquity(d, m) \in Int
<1>1. /\ d.account.cash \in Nat /\ d.account.cross \in Nat /\ d.book \in Books
  BY DeskParts
<1>2. CrossOf(d.book) \in Books
  BY <1>1, SelectionIsBook DEF CrossOf
<1>3. SumOver(CrossOf(d.book), LAMBDA p : Pnl(p, m[p.symbol])) \in Int
  BY <1>2, SumIsInt
<1> DEFINE x == SumOver(CrossOf(d.book), LAMBDA p : Pnl(p, m[p.symbol]))
<1>4. CrossEquity(d, m) = d.account.cash + d.account.cross + x
  BY DEF CrossEquity, CrossWallet
<1>5. x \in Int
  BY <1>3
<1> HIDE DEF x
<1> QED BY <1>1, <1>4, <1>5

\* The book without its cross positions holds the same isolated ones.
LEMMA SelectedPositions ==
  ASSUME NEW b \in Books
  PROVE  /\ NotCross(b) \in Books /\ CrossOf(b) \in Books
         /\ \A j \in DOMAIN NotCross(b) :
               \E i \in DOMAIN b : NotCross(b)[j] = b[i] /\ b[i].mode # "CROSS"
         /\ \A i \in DOMAIN b : b[i].mode # "CROSS" => \E j \in DOMAIN NotCross(b) : NotCross(b)[j] = b[i]
         /\ \A j \in DOMAIN CrossOf(b) :
               \E i \in DOMAIN b : CrossOf(b)[j] = b[i] /\ b[i].mode = "CROSS"
         /\ BookTotal(NotCross(b)) = BookTotal(b)
<1> DEFINE set == {p \in ToSet(b) : p.mode # "CROSS"}
           cset == {p \in ToSet(b) : p.mode = "CROSS"}
           r == NotCross(b)
           c == CrossOf(b)
<1>1. r = Within(b, set) /\ c = Within(b, cset)
  BY DEF NotCross, CrossOf
<1>2. /\ \A i \in DOMAIN b : b[i] \in set <=> b[i].mode # "CROSS"
      /\ \A i \in DOMAIN b : b[i] \in cset <=> b[i].mode = "CROSS"
  BY DEF ToSet
<1> HIDE DEF set, cset, r, c
<1>3. /\ r \in Books /\ c \in Books
      /\ \A j \in DOMAIN r : \E i \in DOMAIN b : r[j] = b[i] /\ b[i] \in set
      /\ \A i \in DOMAIN b : b[i] \in set => \E j \in DOMAIN r : r[j] = b[i]
      /\ \A j \in DOMAIN c : \E i \in DOMAIN b : c[j] = b[i] /\ b[i] \in cset
  BY <1>1, SelectionIsBook
<1>4. ASSUME NEW key \in IsolatedKeys PROVE Collateral(r, key) = Collateral(b, key)
  <2>1. key[3] = "ISOLATED"
    BY DEF IsolatedKeys
  <2>2. \A p \in DeskPosition : KeyOf(p) = key => p.mode # "CROSS"
    BY <2>1, KeysAreKeys
  <2>3. \A i \in DOMAIN b : b[i] \in DeskPosition
    BY LenProperties, ElementOfSeq DEF Books
  <2>4. \A i \in DOMAIN b : KeyOf(b[i]) = key => \E j \in DOMAIN r : r[j] = b[i]
    BY <1>2, <1>3, <2>2, <2>3
  <2>5. \A j \in DOMAIN r : KeyOf(r[j]) = key => \E i \in DOMAIN b : b[i] = r[j]
    BY <1>3
  <2> QED BY <1>3, <2>4, <2>5, SameCollateral
<1>5. BookTotal(r) = BookTotal(b)
  BY <1>4 DEF BookTotal
<1> QED BY <1>2, <1>3, <1>5 DEF r, c

\* A cross liquidation touches no isolated margin and empties the cross book.
LEMMA CrossIs ==
  ASSUME NEW d \in Desks, NEW m \in Prices
  PROVE  /\ LiquidateCross(d, m) \in Desks
         /\ LiquidateCross(d, m).orders = d.orders
         /\ Covered(d) => Covered(LiquidateCross(d, m))
         /\ d.error = "OK" => \/ LiquidateCross(d, m).error # "OK"
                             \/ LiquidateCross(d, m).book = NotCross(d.book)
<1> DEFINE r == LiquidateCross(d, m)
           equity == CrossEquity(d, m)
<1>1. /\ d \in DeskRecord /\ d.account \in Account /\ d.book \in Books /\ d.orders \in Lists
      /\ d.account.cash \in Nat /\ d.account.isolated \in Nat /\ d.account.cross \in Nat
  BY DeskParts
<1>2. equity \in Int
  BY CrossEquityIsInt
<1> HIDE DEF equity
<1>3. CASE equity < 0
  <2>1. r = Fail(d, "BAD_DEBT_RESOLUTION_REQUIRED")
    BY <1>3 DEF LiquidateCross, equity
  <2>2. "BAD_DEBT_RESOLUTION_REQUIRED" \in Errors /\ "BAD_DEBT_RESOLUTION_REQUIRED" # "OK"
    BY DEF Errors
  <2> HIDE DEF r
  <2>3. /\ r \in DeskRecord /\ r.account = d.account /\ r.book = d.book /\ r.orders = d.orders
        /\ r.error # "OK"
    BY <1>1, <2>1, <2>2, FailIs
  <2>4. r \in Desks /\ (Covered(d) => Covered(r))
    BY <2>3 DEF Desks, Covered, InUse
  <2> QED BY <2>3, <2>4 DEF r
<1>4. CASE ~(equity < 0)
  <2> DEFINE a == [d.account EXCEPT !.cash = equity, !.cross = 0]
             b == NotCross(d.book)
  <2>1. r = [d EXCEPT !.book = b, !.account = a]
    BY <1>1, <1>4 DEF LiquidateCross, DeskRecord, equity
  <2>2. b \in Books /\ BookTotal(b) = BookTotal(d.book)
    BY <1>1, SelectedPositions
  <2>3. a \in Account /\ a.cash >= 0 /\ a.isolated = d.account.isolated /\ a.cross = 0
    <3>1. equity \in Nat
      BY <1>2, <1>4
    <3> DEFINE old == d.account
    <3>2. old \in Account /\ a = [old EXCEPT !.cash = equity, !.cross = 0]
      BY <1>1
    <3> HIDE DEF old, a
    <3>3. a = [cash |-> equity, isolated |-> old.isolated, cross |-> 0,
               funding |-> old.funding, fees |-> old.fees]
      BY <3>2 DEF Account
    <3>4. a \in Account /\ a.cash = equity /\ a.isolated = old.isolated /\ a.cross = 0
      BY <3>1, <3>2, <3>3 DEF Account
    <3> QED BY <3>1, <3>4 DEF old
  <2> HIDE DEF a, b, r
  <2>4. r \in DeskRecord /\ r.account = a /\ r.book = b /\ r.orders = d.orders
    BY <1>1, <2>1, <2>2, <2>3 DEF DeskRecord
  <2>5. r \in Desks
    BY <1>1, <2>3, <2>4 DEF Desks
  <2>6. Covered(d) => Covered(r)
    BY <2>2, <2>3, <2>4 DEF Covered, InUse
  <2> QED BY <2>4, <2>5, <2>6 DEF r, b
<1> QED BY <1>3, <1>4

\* The orders of a list that belong to a set are a list.
LEMMA SelectionIsList ==
  ASSUME NEW l \in Lists, NEW set
  PROVE  Within(l, set) \in Lists
<1> DEFINE r == Within(l, set)
<1>1. l \in Seq(DeskOrder)
  BY DEF Lists
<1>2. r \in Seq(DeskOrder)
  BY <1>1, WithinKeeps
<1>3. PICK place : place \in Places(r, l, set)
  BY <1>1, WithinKeeps
<1> HIDE DEF r
<1>4. \A j, k \in DOMAIN r : r[j].id = r[k].id => j = k
  BY <1>3 DEF Places, Lists
<1> QED BY <1>2, <1>4 DEF Lists, r

\* Filling one order moves its margin into the book, or changes nothing.
LEMMA FillOrderIs ==
  ASSUME NEW d \in Desks, NEW o \in DeskOrder, NEW m \in Prices
  PROVE  /\ FillOrder(d, o, m) \in Desks
         /\ d.error # "OK" => FillOrder(d, o, m) = d
         /\ ~Hit(o, m) => FillOrder(d, o, m) = d
         /\ (d.error = "OK" /\ Hit(o, m)) => FillOrder(d, o, m).orders = OrdersBut(d.orders, o.id)
         /\ (Covered(d) /\ \E i \in DOMAIN d.orders : d.orders[i] = o) => Covered(FillOrder(d, o, m))
<1>1. /\ d \in DeskRecord /\ d.account \in Account /\ d.book \in Books /\ d.orders \in Lists
      /\ d.account.cash \in Nat /\ d.account.isolated \in Nat /\ d.account.cross \in Nat
  BY DeskParts
<1>2. CASE d.error # "OK" \/ ~Hit(o, m)
  BY <1>2 DEF FillOrder
<1>3. CASE d.error = "OK" /\ Hit(o, m)
  <2> DEFINE l == OrdersBut(d.orders, o.id)
             x == [d EXCEPT !.orders = l]
             r == OpenPosition(x, o, o.price)
             margin == IF o.mode = "ISOLATED" THEN o.margin ELSE 0
  <2>1. FillOrder(d, o, m) = r
    BY <1>1, <1>3 DEF FillOrder, DeskRecord
  <2>2. l \in Lists
    BY <1>1, SelectionIsList DEF OrdersBut
  <2>3. o.price \in Nat /\ margin \in Nat
    BY DEF DeskOrder
  <2>4. (\E i \in DOMAIN d.orders : d.orders[i] = o)
          => OrderTotal(d.orders) \in Nat /\ OrderTotal(l) = OrderTotal(d.orders) - margin
    BY <1>1, ButWorks
  <2> HIDE DEF l
  <2>5. x \in Desks /\ x.account = d.account /\ x.book = d.book /\ x.orders = l
    BY <1>1, <2>2 DEF Desks, DeskRecord
  <2> HIDE DEF x, margin
  <2>6. /\ r \in Desks /\ r.orders = l /\ r.account = d.account
        /\ BookTotal(r.book) <= BookTotal(d.book) + margin
    BY <2>3, <2>5, OpenIs DEF margin
  <2> HIDE DEF r
  <2>7. (Covered(d) /\ \E i \in DOMAIN d.orders : d.orders[i] = o) => Covered(r)
    <3> SUFFICES ASSUME Covered(d), \E i \in DOMAIN d.orders : d.orders[i] = o PROVE Covered(r)
      OBVIOUS
    <3>1. OrderTotal(d.orders) \in Nat /\ OrderTotal(l) = OrderTotal(d.orders) - margin
      BY <2>4
    <3>2. r.book \in Books
      BY <2>6, DeskParts
    <3>3. BookTotal(r.book) \in Nat /\ BookTotal(d.book) \in Nat
      BY <1>1, <3>2, TotalsAreNat
    <3>4. d.account.isolated >= BookTotal(d.book) + OrderTotal(d.orders)
      BY DEF Covered, InUse
    <3>5. d.account.isolated >= BookTotal(r.book) + OrderTotal(l)
      BY <1>1, <2>3, <2>6, <3>1, <3>3, <3>4
    <3> QED BY <2>6, <3>5 DEF Covered, InUse
  <2> QED BY <1>3, <2>1, <2>6, <2>7 DEF l
<1> QED BY <1>2, <1>3

\* The desks between the passes of the loop over the resting orders.
FillPasses(d, m) ==
  {f \in [0 .. Len(d.orders) -> Desks] :
     f[0] = d /\ \A i \in 1 .. Len(d.orders) : f[i] = FillOrder(f[i - 1], d.orders[i], m)}

\* The loop over the orders ends with the desk of its last pass.
LEMMA FillsEnd ==
  ASSUME NEW d \in Desks, NEW m \in Prices
  PROVE  \E f \in FillPasses(d, m) : FillOrders(d, m) = f[Len(d.orders)]
<1> DEFINE n == Len(d.orders)
           h == [ix \in (1 .. n) \X Desks |-> FillOrder(ix[2], d.orders[ix[1]], m)]
           Is(f) == f = [i \in 0 .. n |-> IF i = 0 THEN d ELSE FillOrder(f[i - 1], d.orders[i], m)]
<1>1. n \in Nat /\ \A i \in 1 .. n : d.orders[i] \in DeskOrder
  BY DeskParts, OrdersAreOrders
<1>2. h \in [(1 .. n) \X Desks -> Desks]
  BY <1>1, FillOrderIs
<1>3. ASSUME NEW f \in Passes(n, Desks, d, h) PROVE Is(f)
  <2>1. /\ f \in [0 .. n -> Desks]
        /\ f[0] = d /\ \A i \in 1 .. n : f[i] = h[<<i, f[i - 1]>>]
    BY DEF Passes
  <2>2. \A i \in 1 .. n : i - 1 \in 0 .. n /\ f[i - 1] \in Desks
    <3> HIDE DEF n
    <3>1. \A i \in 1 .. n : i - 1 \in 0 .. n
      BY <1>1
    <3> QED BY <2>1, <3>1
  <2>3. \A i \in 1 .. n : f[i] = FillOrder(f[i - 1], d.orders[i], m)
    BY <2>1, <2>2
  <2>4. \A i \in 0 .. n : f[i] = IF i = 0 THEN d ELSE FillOrder(f[i - 1], d.orders[i], m)
    <3> HIDE DEF n, h
    <3> SUFFICES ASSUME NEW i \in 0 .. n, i # 0 PROVE i \in 1 .. n
      BY <2>1, <2>3
    <3> QED BY <1>1
  <2> QED BY <2>1, <2>4
<1> HIDE DEF h
<1>4. Passes(n, Desks, d, h) # {}
  <2> HIDE DEF n
  <2> QED BY <1>1, <1>2, StepByStep
<1> DEFINE after == CHOOSE f : Is(f)
<1>5. Is(after)
  BY <1>3, <1>4
<1>6. FillOrders(d, m) = after[n]
  BY DEF FillOrders, ForEach
<1> HIDE DEF after
<1>7. after[0] = d /\ \A i \in 1 .. n : after[i] = FillOrder(after[i - 1], d.orders[i], m)
  <2>1. \A i \in 0 .. n : after[i] = IF i = 0 THEN d ELSE FillOrder(after[i - 1], d.orders[i], m)
    BY <1>5
  <2> HIDE DEF n
  <2>2. 0 \in 0 .. n /\ \A i \in 1 .. n : i \in 0 .. n /\ i # 0
    BY <1>1
  <2> QED BY <2>1, <2>2
<1> DEFINE S == {i \in 0 .. n : after[i] \in Desks}
<1>8. \A i \in 0 .. n : i \in S
  <2> HIDE DEF n
  <2>1. 0 \in S
    BY <1>1, <1>7
  <2>2. ASSUME NEW i \in 0 .. n - 1, i \in S PROVE i + 1 \in S
    <3>1. i + 1 \in 1 .. n /\ i + 1 \in 0 .. n /\ i + 1 - 1 = i
      BY <1>1
    <3>2. after[i + 1] = FillOrder(after[i], d.orders[i + 1], m)
      BY <1>7, <3>1
    <3> QED BY <1>1, <2>2, <3>1, <3>2, FillOrderIs
  <2> HIDE DEF S
  <2> QED BY <1>1, <2>1, <2>2, UpTo
<1>9. after \in [0 .. n -> Desks]
  BY <1>5, <1>8
<1>10. after \in FillPasses(d, m)
  BY <1>7, <1>9 DEF FillPasses
<1> QED BY <1>6, <1>10

\* What the loop over the resting orders leaves behind.
LEMMA FillOrdersIs ==
  ASSUME NEW d \in Desks, NEW m \in Prices
  PROVE  /\ FillOrders(d, m) \in Desks
         /\ Covered(d) => Covered(FillOrders(d, m))
         /\ \A k \in DOMAIN FillOrders(d, m).orders :
               \E j \in DOMAIN d.orders : d.orders[j] = FillOrders(d, m).orders[k]
         /\ FillOrders(d, m).error = "OK"
              => \A k \in DOMAIN FillOrders(d, m).orders : ~Hit(FillOrders(d, m).orders[k], m)
<1> DEFINE n == Len(d.orders)
<1>1. /\ n \in Nat /\ DOMAIN d.orders = 1 .. n /\ d.orders \in Lists
      /\ \A i \in 1 .. n : d.orders[i] \in DeskOrder
  BY DeskParts, OrdersAreOrders
<1>2. PICK f \in FillPasses(d, m) : FillOrders(d, m) = f[n]
  BY FillsEnd
<1>3. /\ f \in [0 .. n -> Desks]
      /\ f[0] = d /\ \A i \in 1 .. n : f[i] = FillOrder(f[i - 1], d.orders[i], m)
  BY DEF FillPasses
<1> HIDE DEF n
<1> DEFINE From(i) == \A k \in DOMAIN f[i].orders :
                        \E j \in 1 .. n : d.orders[j] = f[i].orders[k]
                              /\ (f[i].error = "OK" => (j > i \/ ~Hit(d.orders[j], m)))
           Rest(i) == f[i].error = "OK" =>
                        \A j \in 1 .. n : j > i => \E k \in DOMAIN f[i].orders : f[i].orders[k] = d.orders[j]
           S == {i \in 0 .. n : (Covered(d) => Covered(f[i])) /\ From(i) /\ Rest(i)}
<1>4. 0 \in S
  BY <1>1, <1>3
<1>5. ASSUME NEW i \in 0 .. n - 1, i \in S PROVE i + 1 \in S
  <2> DEFINE x == f[i]
             y == f[i + 1]
             o == d.orders[i + 1]
  <2>1. i + 1 \in 1 .. n /\ i + 1 \in 0 .. n /\ i + 1 - 1 = i /\ i \in 0 .. n
    BY <1>1
  <2>2. x \in Desks /\ y \in Desks /\ o \in DeskOrder /\ y = FillOrder(x, o, m)
    BY <1>1, <1>3, <2>1
  <2>3. x.orders \in Lists
    BY <2>2, DeskParts
  <2>4. (Covered(d) => Covered(x)) /\ From(i) /\ Rest(i)
    BY <1>5
  <2>5. CASE y = x /\ (x.error = "OK" => ~Hit(o, m))
    <3>1. From(i + 1)
      <4> SUFFICES ASSUME NEW k \in DOMAIN y.orders
                   PROVE  \E j \in 1 .. n : d.orders[j] = y.orders[k]
                              /\ (y.error = "OK" => (j > i + 1 \/ ~Hit(d.orders[j], m)))
        OBVIOUS
      <4>1. PICK j \in 1 .. n : d.orders[j] = x.orders[k]
                                  /\ (x.error = "OK" => (j > i \/ ~Hit(d.orders[j], m)))
        BY <2>4, <2>5
      <4>2. j > i => j > i + 1 \/ j = i + 1
        BY <2>1, <4>1
      <4>3. j = i + 1 => (x.error = "OK" => ~Hit(d.orders[j], m))
        BY <2>5
      <4>4. y.error = "OK" => (j > i + 1 \/ ~Hit(d.orders[j], m))
        BY <2>5, <4>1, <4>2, <4>3
      <4> QED BY <2>5, <4>1, <4>4
    <3>2. Rest(i + 1)
      <4>1. \A j \in 1 .. n : j > i + 1 => j > i
        BY <2>1
      <4> QED BY <2>4, <2>5, <4>1
    <3> QED BY <2>1, <2>4, <2>5, <3>1, <3>2
  <2>6. CASE x.error = "OK" /\ Hit(o, m)
    <3>1. PICK k0 \in DOMAIN x.orders : x.orders[k0] = o
      <4>1. i + 1 > i
        BY <2>1
      <4> QED BY <2>1, <2>4, <2>6, <4>1
    <3>2. y.orders = OrdersBut(x.orders, x.orders[k0].id)
      BY <2>2, <2>6, <3>1, FillOrderIs
    <3>3. /\ \A k \in DOMAIN y.orders : \E q \in DOMAIN x.orders : x.orders[q] = y.orders[k] /\ q # k0
          /\ \A q \in DOMAIN x.orders : q # k0 => \E k \in DOMAIN y.orders : y.orders[k] = x.orders[q]
      <4> DEFINE l == x.orders
                 r == OrdersBut(l, l[k0].id)
      <4>1. l \in Lists /\ k0 \in DOMAIN l /\ y.orders = r
        BY <2>3, <3>1, <3>2
      <4> HIDE DEF l
      <4>2. /\ \A k \in DOMAIN r : \E q \in DOMAIN l : l[q] = r[k] /\ q # k0
            /\ \A q \in DOMAIN l : q # k0 => \E k \in DOMAIN r : r[k] = l[q]
        BY <4>1, ButWorks
      <4> HIDE DEF r
      <4> QED BY <4>1, <4>2 DEF l
    <3>4. Covered(d) => Covered(y)
      BY <2>2, <2>4, <3>1, FillOrderIs
    <3>5. From(i + 1)
      <4> SUFFICES ASSUME NEW k \in DOMAIN y.orders
                   PROVE  \E j \in 1 .. n : d.orders[j] = y.orders[k]
                              /\ (y.error = "OK" => (j > i + 1 \/ ~Hit(d.orders[j], m)))
        OBVIOUS
      <4>1. PICK q \in DOMAIN x.orders : x.orders[q] = y.orders[k] /\ q # k0
        BY <3>3
      <4>2. PICK j \in 1 .. n : d.orders[j] = x.orders[q] /\ (j > i \/ ~Hit(d.orders[j], m))
        <5>1. \E j \in 1 .. n : d.orders[j] = x.orders[q] /\ (x.error = "OK" => (j > i \/ ~Hit(d.orders[j], m)))
          BY <2>4
        <5> QED BY <2>6, <5>1
      <4>3. j # i + 1
        BY <2>3, <3>1, <4>1, <4>2 DEF Lists
      <4>4. j > i => j > i + 1
        BY <2>1, <4>2, <4>3
      <4> QED BY <4>1, <4>2, <4>4
    <3>6. Rest(i + 1)
      <4> SUFFICES ASSUME NEW j \in 1 .. n, j > i + 1
                   PROVE  \E k \in DOMAIN y.orders : y.orders[k] = d.orders[j]
        OBVIOUS
      <4>1. j > i /\ j # i + 1
        BY <2>1
      <4>2. PICK q \in DOMAIN x.orders : x.orders[q] = d.orders[j]
        BY <2>4, <2>6, <4>1
      <4>3. q # k0
        BY <1>1, <2>1, <3>1, <4>1, <4>2 DEF Lists
      <4> QED BY <3>3, <4>2, <4>3
    <3> QED BY <2>1, <3>4, <3>5, <3>6
  <2>7. \/ y = x /\ (x.error = "OK" => ~Hit(o, m))
        \/ x.error = "OK" /\ Hit(o, m)
    BY <2>2, FillOrderIs
  <2> QED BY <2>5, <2>6, <2>7
<1>6. n \in S
  <2> HIDE DEF S
  <2>1. \A i \in 0 .. n : i \in S
    BY <1>1, <1>4, <1>5, UpTo
  <2>2. n \in 0 .. n
    BY <1>1
  <2> QED BY <2>1, <2>2
<1> DEFINE r == f[n]
<1>7. r \in Desks /\ (Covered(d) => Covered(r)) /\ From(n)
  BY <1>3, <1>6
<1>8. ASSUME NEW k \in DOMAIN r.orders
      PROVE  \E j \in 1 .. n : d.orders[j] = r.orders[k]
                              /\ (r.error = "OK" => (j > n \/ ~Hit(d.orders[j], m)))
  BY <1>7
<1>9. ASSUME NEW k \in DOMAIN r.orders
      PROVE  /\ \E j \in DOMAIN d.orders : d.orders[j] = r.orders[k]
             /\ r.error = "OK" => ~Hit(r.orders[k], m)
  <2>1. PICK j \in 1 .. n : d.orders[j] = r.orders[k] /\ (r.error = "OK" => (j > n \/ ~Hit(d.orders[j], m)))
    BY <1>8
  <2>2. ~(j > n)
    BY <1>1
  <2> QED BY <1>1, <2>1, <2>2
<1> QED BY <1>2, <1>7, <1>9

Calm(p, m) == ~IsolatedDue(p, m) /\ ~Triggered(p, m)

\* Evaluating one position deletes it when it is due, or changes nothing.
LEMMA EvaluateOneIs ==
  ASSUME NEW d \in Desks, NEW p \in DeskPosition, NEW m \in Prices
  PROVE  /\ EvaluatePosition(d, p, m) \in Desks
         /\ EvaluatePosition(d, p, m).orders = d.orders
         /\ d.error # "OK" => EvaluatePosition(d, p, m) = d
         /\ Calm(p, m) => EvaluatePosition(d, p, m) = d
         /\ (d.error = "OK" /\ ~Calm(p, m) /\ \E i \in DOMAIN d.book : d.book[i] = p)
              => EvaluatePosition(d, p, m).book = Without(d.book, KeyOf(p))
         /\ (Covered(d) /\ \E i \in DOMAIN d.book : d.book[i] = p) => Covered(EvaluatePosition(d, p, m))
<1>1. CASE d.error # "OK" \/ Calm(p, m)
  BY <1>1 DEF EvaluatePosition, Calm
<1>2. CASE d.error = "OK" /\ IsolatedDue(p, m)
  <2>1. EvaluatePosition(d, p, m) = LiquidateIsolated(d, p) /\ ~Calm(p, m) /\ p.mode = "ISOLATED"
    BY <1>2 DEF EvaluatePosition, Calm, IsolatedDue
  <2> QED BY <1>2, <2>1, LiquidateIs
<1>3. CASE d.error = "OK" /\ ~IsolatedDue(p, m) /\ Triggered(p, m)
  <2>1. EvaluatePosition(d, p, m) = SettleReduction(d, p, p.qty, m) /\ ~Calm(p, m)
    BY <1>3 DEF EvaluatePosition, Calm
  <2>2. p.qty \in 1 .. p.qty
    BY DEF DeskPosition
  <2>3. (\E i \in DOMAIN d.book : d.book[i] = p) => Holds(d.book, KeyOf(p))
    BY DEF Holds, IndexOf
  <2> QED BY <1>3, <2>1, <2>2, <2>3, SettleIs
<1> QED BY <1>1, <1>2, <1>3 DEF Calm

\* The desks between the passes of the loop over the positions.
PositionPasses(d, m) ==
  {f \in [0 .. Len(d.book) -> Desks] :
     f[0] = d /\ \A i \in 1 .. Len(d.book) : f[i] = EvaluatePosition(f[i - 1], d.book[i], m)}

\* A book is a sequence of positions.
LEMMA BookIsBook ==
  ASSUME NEW b \in Books
  PROVE  Len(b) \in Nat /\ DOMAIN b = 1 .. Len(b) /\ \A i \in DOMAIN b : b[i] \in DeskPosition
BY LenProperties, ElementOfSeq DEF Books

\* The loop over the positions ends with the desk of its last pass.
LEMMA EvaluatesEnd ==
  ASSUME NEW d \in Desks, NEW m \in Prices
  PROVE  \E f \in PositionPasses(d, m) : EvaluatePositions(d, m) = f[Len(d.book)]
<1> DEFINE n == Len(d.book)
           h == [ix \in (1 .. n) \X Desks |-> EvaluatePosition(ix[2], d.book[ix[1]], m)]
           Is(f) == f = [i \in 0 .. n |-> IF i = 0 THEN d ELSE EvaluatePosition(f[i - 1], d.book[i], m)]
<1>1. n \in Nat /\ \A i \in 1 .. n : d.book[i] \in DeskPosition
  BY DeskParts, BookIsBook
<1>2. h \in [(1 .. n) \X Desks -> Desks]
  BY <1>1, EvaluateOneIs
<1>3. ASSUME NEW f \in Passes(n, Desks, d, h) PROVE Is(f)
  <2>1. /\ f \in [0 .. n -> Desks]
        /\ f[0] = d /\ \A i \in 1 .. n : f[i] = h[<<i, f[i - 1]>>]
    BY DEF Passes
  <2>2. \A i \in 1 .. n : i - 1 \in 0 .. n /\ f[i - 1] \in Desks
    <3> HIDE DEF n
    <3>1. \A i \in 1 .. n : i - 1 \in 0 .. n
      BY <1>1
    <3> QED BY <2>1, <3>1
  <2>3. \A i \in 1 .. n : f[i] = EvaluatePosition(f[i - 1], d.book[i], m)
    BY <2>1, <2>2
  <2>4. \A i \in 0 .. n : f[i] = IF i = 0 THEN d ELSE EvaluatePosition(f[i - 1], d.book[i], m)
    <3> HIDE DEF n, h
    <3> SUFFICES ASSUME NEW i \in 0 .. n, i # 0 PROVE i \in 1 .. n
      BY <2>1, <2>3
    <3> QED BY <1>1
  <2> QED BY <2>1, <2>4
<1> HIDE DEF h
<1>4. Passes(n, Desks, d, h) # {}
  <2> HIDE DEF n
  <2> QED BY <1>1, <1>2, StepByStep
<1> DEFINE after == CHOOSE f : Is(f)
<1>5. Is(after)
  BY <1>3, <1>4
<1>6. EvaluatePositions(d, m) = after[n]
  BY DEF EvaluatePositions, ForEach
<1> HIDE DEF after
<1>7. after[0] = d /\ \A i \in 1 .. n : after[i] = EvaluatePosition(after[i - 1], d.book[i], m)
  <2>1. \A i \in 0 .. n : after[i] = IF i = 0 THEN d ELSE EvaluatePosition(after[i - 1], d.book[i], m)
    BY <1>5
  <2> HIDE DEF n
  <2>2. 0 \in 0 .. n /\ \A i \in 1 .. n : i \in 0 .. n /\ i # 0
    BY <1>1
  <2> QED BY <2>1, <2>2
<1> DEFINE S == {i \in 0 .. n : after[i] \in Desks}
<1>8. \A i \in 0 .. n : i \in S
  <2> HIDE DEF n
  <2>1. 0 \in S
    BY <1>1, <1>7
  <2>2. ASSUME NEW i \in 0 .. n - 1, i \in S PROVE i + 1 \in S
    <3>1. i + 1 \in 1 .. n /\ i + 1 \in 0 .. n /\ i + 1 - 1 = i
      BY <1>1
    <3>2. after[i + 1] = EvaluatePosition(after[i], d.book[i + 1], m)
      BY <1>7, <3>1
    <3> QED BY <1>1, <2>2, <3>1, <3>2, EvaluateOneIs
  <2> HIDE DEF S
  <2> QED BY <1>1, <2>1, <2>2, UpTo
<1>9. after \in [0 .. n -> Desks]
  BY <1>5, <1>8
<1>10. after \in PositionPasses(d, m)
  BY <1>7, <1>9 DEF PositionPasses
<1> QED BY <1>6, <1>10

\* What the loop over the positions leaves behind.
LEMMA EvaluatePositionsIs ==
  ASSUME NEW d \in Desks, NEW m \in Prices
  PROVE  /\ EvaluatePositions(d, m) \in Desks
         /\ EvaluatePositions(d, m).orders = d.orders
         /\ Covered(d) => Covered(EvaluatePositions(d, m))
         /\ EvaluatePositions(d, m).error = "OK" => d.error = "OK"
         /\ EvaluatePositions(d, m).error = "OK"
              => \A k \in DOMAIN EvaluatePositions(d, m).book : Calm(EvaluatePositions(d, m).book[k], m)
<1> DEFINE n == Len(d.book)
<1>1. /\ n \in Nat /\ DOMAIN d.book = 1 .. n /\ d.book \in Books
      /\ \A i \in 1 .. n : d.book[i] \in DeskPosition
  BY DeskParts, BookIsBook
<1>2. PICK f \in PositionPasses(d, m) : EvaluatePositions(d, m) = f[n]
  BY EvaluatesEnd
<1>3. /\ f \in [0 .. n -> Desks]
      /\ f[0] = d /\ \A i \in 1 .. n : f[i] = EvaluatePosition(f[i - 1], d.book[i], m)
  BY DEF PositionPasses
<1> HIDE DEF n
<1> DEFINE From(i) == f[i].error = "OK" =>
                        \A k \in DOMAIN f[i].book :
                          \E j \in 1 .. n : d.book[j] = f[i].book[k] /\ (j > i \/ Calm(d.book[j], m))
           Rest(i) == f[i].error = "OK" =>
                        \A j \in 1 .. n : j > i => \E k \in DOMAIN f[i].book : f[i].book[k] = d.book[j]
           S == {i \in 0 .. n : /\ (Covered(d) => Covered(f[i])) /\ f[i].orders = d.orders
                               /\ (f[i].error = "OK" => d.error = "OK") /\ From(i) /\ Rest(i)}
<1>4. 0 \in S
  BY <1>1, <1>3
<1>5. ASSUME NEW i \in 0 .. n - 1, i \in S PROVE i + 1 \in S
  <2> DEFINE x == f[i]
             y == f[i + 1]
             p == d.book[i + 1]
  <2>1. i + 1 \in 1 .. n /\ i + 1 \in 0 .. n /\ i + 1 - 1 = i /\ i \in 0 .. n /\ i + 1 > i
    BY <1>1
  <2>2. x \in Desks /\ y \in Desks /\ p \in DeskPosition /\ y = EvaluatePosition(x, p, m)
    BY <1>1, <1>3, <2>1
  <2>3. x.book \in Books
    BY <2>2, DeskParts
  <2>4. /\ (Covered(d) => Covered(x)) /\ x.orders = d.orders /\ (x.error = "OK" => d.error = "OK")
        /\ From(i) /\ Rest(i)
    BY <1>5
  <2>5. y.orders = d.orders
    BY <2>2, <2>4, EvaluateOneIs
  <2>6. CASE x.error # "OK"
    <3>1. y = x
      BY <2>2, <2>6, EvaluateOneIs
    <3> QED BY <2>1, <2>4, <2>6, <3>1
  <2>7. CASE x.error = "OK" /\ Calm(p, m)
    <3>1. y = x
      BY <2>2, <2>7, EvaluateOneIs
    <3>2. From(i + 1)
      <4> SUFFICES ASSUME NEW k \in DOMAIN y.book
                   PROVE  \E j \in 1 .. n : d.book[j] = y.book[k] /\ (j > i + 1 \/ Calm(d.book[j], m))
        OBVIOUS
      <4>1. PICK j \in 1 .. n : d.book[j] = x.book[k] /\ (j > i \/ Calm(d.book[j], m))
        BY <2>4, <2>7, <3>1
      <4>2. j > i => j > i + 1 \/ j = i + 1
        BY <2>1, <4>1
      <4>3. j = i + 1 => Calm(d.book[j], m)
        BY <2>7
      <4>4. j > i + 1 \/ Calm(d.book[j], m)
        BY <4>1, <4>2, <4>3
      <4> QED BY <3>1, <4>1, <4>4
    <3>3. Rest(i + 1)
      <4>1. \A j \in 1 .. n : j > i + 1 => j > i
        BY <2>1
      <4> QED BY <2>4, <3>1, <4>1
    <3> QED BY <2>1, <2>4, <2>5, <3>1, <3>2, <3>3
  <2>8. CASE x.error = "OK" /\ ~Calm(p, m)
    <3>1. PICK k0 \in DOMAIN x.book : x.book[k0] = p
      BY <2>1, <2>4, <2>8
    <3>2. y.book = Without(x.book, KeyOf(p)) /\ KeyOf(p) \in DeskKeys
      BY <2>2, <2>8, <3>1, EvaluateOneIs, KeysAreKeys
    <3>3. /\ \A k \in DOMAIN y.book : \E q \in DOMAIN x.book : x.book[q] = y.book[k] /\ q # k0
          /\ \A q \in DOMAIN x.book : q # k0 => \E k \in DOMAIN y.book : y.book[k] = x.book[q]
      <4> DEFINE b == x.book
                 key == KeyOf(p)
                 r == Without(b, key)
      <4>1. b \in Books /\ y.book = r /\ key \in DeskKeys /\ KeyOf(b[k0]) = key /\ k0 \in DOMAIN b
        BY <2>3, <3>1, <3>2
      <4>2. \A q \in DOMAIN b : KeyOf(b[q]) # key <=> q # k0
        BY <4>1 DEF Books
      <4> HIDE DEF b, key
      <4>3. /\ \A k \in DOMAIN r : \E q \in DOMAIN b : b[q] = r[k] /\ KeyOf(b[q]) # key
            /\ \A q \in DOMAIN b : KeyOf(b[q]) # key => \E k \in DOMAIN r : r[k] = b[q]
        BY <4>1, WithoutWorks
      <4> HIDE DEF r
      <4> QED BY <4>1, <4>2, <4>3 DEF b
    <3>4. Covered(d) => Covered(y)
      BY <2>2, <2>4, <3>1, EvaluateOneIs
    <3>5. From(i + 1)
      <4> SUFFICES ASSUME NEW k \in DOMAIN y.book
                   PROVE  \E j \in 1 .. n : d.book[j] = y.book[k] /\ (j > i + 1 \/ Calm(d.book[j], m))
        OBVIOUS
      <4>1. PICK q \in DOMAIN x.book : x.book[q] = y.book[k] /\ q # k0
        BY <3>3
      <4>2. PICK j \in 1 .. n : d.book[j] = x.book[q] /\ (j > i \/ Calm(d.book[j], m))
        BY <2>4, <2>8
      <4>3. j # i + 1
        BY <2>3, <3>1, <4>1, <4>2 DEF Books
      <4>4. j > i => j > i + 1
        BY <2>1, <4>2, <4>3
      <4> QED BY <4>1, <4>2, <4>4
    <3>6. Rest(i + 1)
      <4> SUFFICES ASSUME NEW j \in 1 .. n, j > i + 1
                   PROVE  \E k \in DOMAIN y.book : y.book[k] = d.book[j]
        OBVIOUS
      <4>1. j > i /\ j # i + 1
        BY <2>1
      <4>2. PICK q \in DOMAIN x.book : x.book[q] = d.book[j]
        BY <2>4, <2>8, <4>1
      <4>3. q # k0
        BY <1>1, <2>1, <3>1, <4>1, <4>2 DEF Books
      <4> QED BY <3>3, <4>2, <4>3
    <3> QED BY <2>1, <2>4, <2>5, <2>8, <3>4, <3>5, <3>6
  <2> QED BY <2>6, <2>7, <2>8
<1>6. n \in S
  <2> HIDE DEF S
  <2>1. \A i \in 0 .. n : i \in S
    BY <1>1, <1>4, <1>5, UpTo
  <2>2. n \in 0 .. n
    BY <1>1
  <2> QED BY <2>1, <2>2
<1> DEFINE r == f[n]
<1>7. /\ r \in Desks /\ (Covered(d) => Covered(r)) /\ r.orders = d.orders
      /\ (r.error = "OK" => d.error = "OK") /\ From(n)
  BY <1>3, <1>6
<1>8. ASSUME r.error = "OK", NEW k \in DOMAIN r.book PROVE Calm(r.book[k], m)
  <2>1. PICK j \in 1 .. n : d.book[j] = r.book[k] /\ (j > n \/ Calm(d.book[j], m))
    BY <1>7, <1>8
  <2>2. ~(j > n)
    BY <1>1
  <2> QED BY <2>1, <2>2
<1> QED BY <1>2, <1>7, <1>8

\* What one evaluation leaves behind.
LEMMA EvaluateIs ==
  ASSUME NEW d \in Desks, NEW m \in Prices
  PROVE  /\ Evaluate(d, m) \in Desks
         /\ Covered(d) => Covered(Evaluate(d, m))
         /\ \A k \in DOMAIN Evaluate(d, m).orders :
               \E j \in DOMAIN d.orders : d.orders[j] = Evaluate(d, m).orders[k]
         /\ Evaluate(d, m).error = "OK" =>
              /\ \A k \in DOMAIN Evaluate(d, m).orders : ~Hit(Evaluate(d, m).orders[k], m)
              /\ \A k \in DOMAIN Evaluate(d, m).book : Calm(Evaluate(d, m).book[k], m)
              /\ ~CrossLiquidatable(Evaluate(d, m), m)
<1> DEFINE x == FillOrders(d, m)
           y == EvaluatePositions(x, m)
           z == Evaluate(d, m)
<1>1. /\ x \in Desks /\ (Covered(d) => Covered(x))
      /\ \A k \in DOMAIN x.orders : \E j \in DOMAIN d.orders : d.orders[j] = x.orders[k]
      /\ x.error = "OK" => \A k \in DOMAIN x.orders : ~Hit(x.orders[k], m)
  BY FillOrdersIs
<1> HIDE DEF x
<1>2. /\ y \in Desks /\ y.orders = x.orders /\ (Covered(x) => Covered(y))
      /\ y.error = "OK" => x.error = "OK"
      /\ y.error = "OK" => \A k \in DOMAIN y.book : Calm(y.book[k], m)
  BY <1>1, EvaluatePositionsIs
<1>3. z = IF y.error = "OK" /\ CrossLiquidatable(y, m) THEN LiquidateCross(y, m) ELSE y
  BY DEF Evaluate, x
<1> HIDE DEF y, z
<1>4. CASE y.error = "OK" /\ CrossLiquidatable(y, m)
  <2>1. z = LiquidateCross(y, m)
    BY <1>3, <1>4
  <2>2. /\ z \in Desks /\ z.orders = y.orders /\ (Covered(y) => Covered(z))
        /\ z.error = "OK" => z.book = NotCross(y.book)
    BY <1>2, <1>4, <2>1, CrossIs
  <2>3. y.book \in Books
    BY <1>2, DeskParts
  <2>4. ASSUME z.error = "OK"
        PROVE  (\A k \in DOMAIN z.book : Calm(z.book[k], m)) /\ ~CrossLiquidatable(z, m)
    <3> DEFINE b == NotCross(y.book)
    <3>1. /\ b \in Books /\ CrossOf(b) \in Books
          /\ \A j \in DOMAIN b : \E i \in DOMAIN y.book : b[j] = y.book[i] /\ y.book[i].mode # "CROSS"
      BY <2>3, SelectedPositions
    <3> HIDE DEF b
    <3>2. z.book = b
      BY <2>2, <2>4 DEF b
    <3>3. \A k \in DOMAIN b : Calm(b[k], m)
      BY <1>2, <1>4, <3>1
    <3>4. \A j \in DOMAIN CrossOf(b) : \E i \in DOMAIN b : CrossOf(b)[j] = b[i] /\ b[i].mode = "CROSS"
      BY <3>1, SelectedPositions
    <3>5. DOMAIN CrossOf(b) = {}
      BY <3>1, <3>4
    <3>6. CrossOf(b) = <<>>
      <4> DEFINE c == CrossOf(b)
      <4>1. c \in Seq(DeskPosition) /\ DOMAIN c = {}
        BY <3>1, <3>5 DEF Books
      <4> HIDE DEF c
      <4>2. c = <<>>
        <5>1. Len(c) \in Nat /\ DOMAIN c = 1 .. Len(c)
          BY <4>1, LenProperties
        <5>2. Len(c) = 0
          BY <4>1, <5>1
        <5> QED BY <4>1, <5>2, EmptySeq
      <4> QED BY <4>2 DEF c
    <3> QED BY <3>2, <3>3, <3>6 DEF CrossLiquidatable
  <2> QED BY <1>1, <1>2, <1>4, <2>2, <2>4 DEF z
<1>5. CASE ~(y.error = "OK" /\ CrossLiquidatable(y, m))
  <2>1. z = y
    BY <1>3, <1>5
  <2> QED BY <1>1, <1>2, <1>5, <2>1 DEF z
<1> QED BY <1>4, <1>5

\* Order ids are the numbers of submits: a new order has a new one.
DeskInv ==
    /\ mark \in Prices
    /\ Desk \in Desks
    /\ IsolatedMarginBacked
    /\ submits \in 0 .. MaxSubmits
    /\ \A i \in DOMAIN orders : orders[i].id <= submits

\* The property is the invariant about the desk as one record.
LEMMA DeskIsBacked == IsolatedMarginBacked <=> Covered(Desk)
BY DEF IsolatedMarginBacked, MarginInUse, Covered, InUse, BookTotal, OrderTotal, IsolatedKeys, Desk

\* A handler that ends with a backed desk and no order from nowhere keeps the
\* invariant.
LEMMA DeskKept ==
  ASSUME NEW r \in Desks, Covered(r), Becomes(r),
         mark' \in Prices, submits' \in 0 .. MaxSubmits,
         \A k \in DOMAIN r.orders : r.orders[k].id <= submits'
  PROVE  DeskInv'
<1>1. /\ account' = r.account /\ book' = r.book /\ orders' = r.orders
  BY DEF Becomes
<1>2. Desk' = [account |-> r.account, book |-> r.book, orders |-> r.orders, error |-> "OK"]
  BY <1>1 DEF Desk
<1> DEFINE x == [account |-> r.account, book |-> r.book, orders |-> r.orders, error |-> "OK"]
<1>3. x \in Desks /\ Covered(x)
  <2>1. "OK" \in Errors
    BY DEF Errors
  <2> QED BY <2>1 DEF Desks, DeskRecord, Covered, InUse
<1>4. IsolatedMarginBacked' <=> Covered(x)
  <2>1. IsolatedMarginBacked' <=> account'.isolated >= BookTotal(book') + OrderTotal(orders')
    BY DEF IsolatedMarginBacked, MarginInUse, BookTotal, OrderTotal, IsolatedKeys, Desk
  <2> QED BY <1>1, <2>1 DEF Covered, InUse
<1> QED BY <1>1, <1>2, <1>3, <1>4 DEF DeskInv

\* The first desk is empty and backed.
LEMMA DeskInvInit == Init => DeskInv
<1> SUFFICES ASSUME Init PROVE DeskInv
  OBVIOUS
<1>1. /\ mark \in Prices /\ account = NewAccount(InitialBalance)
      /\ book = <<>> /\ orders = <<>> /\ submits = 0
  BY DEF Init, Prices
<1>2. /\ account \in Account /\ account.cash >= 0 /\ account.isolated = 0 /\ account.cross = 0
  BY <1>1, DeskAssumption DEF Account, NewAccount
<1>3. <<>> \in Books /\ <<>> \in Lists
  BY EmptySeq DEF Books, Lists
<1>4. Desk \in Desks
  <2>1. "OK" \in Errors
    BY DEF Errors
  <2> QED BY <1>1, <1>2, <1>3, <2>1 DEF Desks, DeskRecord, Desk
<1>5. BookTotal(<<>>) = 0
  <2> DEFINE f == [key \in IsolatedKeys |-> Collateral(<<>>, key)]
  <2>1. \A key \in IsolatedKeys : f[key] = 0
    BY DEF Collateral, Holds, IndexOf
  <2>2. f \in [IsolatedKeys -> Nat]
    BY <2>1
  <2> HIDE DEF f
  <2>3. TotalOf(f) = 0
    BY <2>1, <2>2, TotalOfNothing
  <2> QED BY <2>3 DEF f, BookTotal
<1>6. OrderTotal(<<>>) = 0
  <2> DEFINE f == [id \in 1 .. MaxSubmits |-> Margin(<<>>, "ISOLATED", id)]
             T == 1 .. MaxSubmits
  <2>1. \A id \in T : f[id] = 0
    BY NoMargin
  <2>2. f \in [T -> Nat]
    BY <2>1
  <2> HIDE DEF f, T
  <2>3. TotalOf(f) = 0
    BY <2>1, <2>2, TotalOfNothing
  <2> QED BY <2>3 DEF f, OrderTotal
<1>7. Covered(Desk)
  BY <1>1, <1>2, <1>5, <1>6 DEF Covered, InUse, Desk
<1>8. submits \in 0 .. MaxSubmits /\ \A i \in DOMAIN orders : orders[i].id <= submits
  BY <1>1, DeskAssumption
<1> QED BY <1>1, <1>4, <1>7, <1>8, DeskIsBacked DEF DeskInv

\* The parts of the invariant, as the handlers use them.
LEMMA DeskInvParts ==
  ASSUME DeskInv
  PROVE  /\ mark \in Prices /\ Desk \in Desks /\ Covered(Desk)
         /\ Desk \in DeskRecord /\ Desk.account = account /\ Desk.book = book /\ Desk.orders = orders
         /\ Desk.error = "OK"
         /\ account \in Account /\ book \in Books /\ orders \in Lists
         /\ account.cash \in Nat /\ account.isolated \in Nat /\ account.cross \in Nat
         /\ submits \in 0 .. MaxSubmits /\ \A i \in DOMAIN orders : orders[i].id <= submits
<1>1. mark \in Prices /\ Desk \in Desks /\ Covered(Desk)
      /\ submits \in 0 .. MaxSubmits /\ \A i \in DOMAIN orders : orders[i].id <= submits
  BY DeskIsBacked DEF DeskInv
<1>2. Desk.account = account /\ Desk.book = book /\ Desk.orders = orders /\ Desk.error = "OK"
  BY DEF Desk
<1> HIDE DEF Desk
<1> QED BY <1>1, <1>2, DeskParts

\* A move of the mark is followed by one evaluation of the desk.
LEMMA MoveMarkKeeps ==
  ASSUME DeskInv, NEW s \in Symbols, NEW price \in Marks, MoveMark(s, price)
  PROVE  DeskInv'
<1>1. mark \in Prices /\ Desk \in Desks /\ Covered(Desk) /\ Desk.orders = orders
      /\ submits \in 0 .. MaxSubmits /\ \A i \in DOMAIN orders : orders[i].id <= submits
  BY DeskInvParts
<1>2. mark' = [mark EXCEPT ![s] = price] /\ Becomes(Evaluate(Desk, mark')) /\ submits' = submits
  BY DEF MoveMark
<1>3. mark' \in Prices
  BY <1>1, <1>2 DEF Prices
<1> DEFINE r == Evaluate(Desk, mark')
<1>4. /\ r \in Desks /\ Covered(r)
      /\ \A k \in DOMAIN r.orders : \E j \in DOMAIN orders : orders[j] = r.orders[k]
  BY <1>1, <1>3, EvaluateIs
<1> HIDE DEF r
<1>5. \A k \in DOMAIN r.orders : r.orders[k].id <= submits'
  BY <1>1, <1>2, <1>4
<1>6. Becomes(r)
  BY <1>2 DEF r
<1> QED BY <1>1, <1>2, <1>3, <1>4, <1>5, <1>6, DeskKept

\* The orders the form builds.
LEMMA OrderIs ==
  ASSUME NEW s \in Symbols, NEW side \in Sides, NEW mode \in Modes, NEW q \in Quantities,
         NEW lev \in Leverages, NEW price \in Marks, NEW tp \in Triggers, NEW sl \in Triggers,
         submits \in 0 .. MaxSubmits, submits < MaxSubmits,
         Order(s, side, mode, q, lev, price, tp, sl).margin > 0
  PROVE  /\ Order(s, side, mode, q, lev, price, tp, sl) \in DeskOrder
         /\ Order(s, side, mode, q, lev, price, tp, sl).id = submits + 1
<1> DEFINE margin == (q * price) \div lev
           id == submits + 1
           o == Order(s, side, mode, q, lev, price, tp, sl)
<1>1. o = [id |-> id, symbol |-> s, side |-> side, mode |-> mode, qty |-> q,
           price |-> price, margin |-> margin, tp |-> tp, sl |-> sl]
  BY DEF Order
<1>2. /\ q \in Nat \ {0} /\ price \in Nat \ {0} /\ tp \in Nat /\ sl \in Nat /\ lev \in Nat \ {0}
      /\ id \in 1 .. MaxSubmits
  BY DeskAssumption, MarginAssumption
<1>3. margin \in Nat
  BY <1>2, MulNat, DivNat
<1> HIDE DEF margin, id, o
<1>4. o.margin = margin /\ o.id = id
  BY <1>1
<1>5. margin > 0
  BY <1>4 DEF o
<1>6. o \in DeskOrder
  BY <1>1, <1>2, <1>3, <1>5 DEF DeskOrder
<1> QED BY <1>4, <1>6 DEF o, id

\* Reserving raises the reserve of its mode by what it takes.
LEMMA ReserveIs ==
  ASSUME NEW a \in Account, a.cash >= 0, a.isolated >= 0, a.cross >= 0,
         NEW mode \in Modes, NEW value \in Int, CanReserve(a, value)
  PROVE  /\ Reserve(a, value, mode) \in Account
         /\ Reserve(a, value, mode).cash >= 0
         /\ Reserve(a, value, mode).isolated >= 0
         /\ Reserve(a, value, mode).cross >= 0
         /\ Reserve(a, value, mode).isolated
              = IF mode = "ISOLATED" THEN a.isolated + value ELSE a.isolated
<1> DEFINE moved == -value
           r == Shift(a, mode, value, moved)
<1>1. a.cash \in Int /\ a.isolated \in Int /\ a.cross \in Int /\ moved \in Int
  BY DEF Account
<1>2. Reserve(a, value, mode) = r
  BY DEF Reserve
<1> HIDE DEF r
<1>3. /\ r \in Account /\ r.cash = a.cash + moved
      /\ r.isolated = IF mode = "ISOLATED" THEN a.isolated + value ELSE a.isolated
      /\ r.cross = IF mode = "ISOLATED" THEN a.cross ELSE a.cross + value
  <2> HIDE DEF moved
  <2> QED BY <1>1, ShiftIs DEF r
<1>4. value > 0 /\ value <= a.cash
  BY DEF CanReserve
<1>5. CASE mode = "ISOLATED"
  BY <1>1, <1>2, <1>3, <1>4, <1>5
<1>6. CASE mode = "CROSS"
  BY <1>1, <1>2, <1>3, <1>4, <1>6
<1> QED BY <1>5, <1>6 DEF Modes

\* An accepted order is filled or put on the list with its margin reserved.
LEMMA SubmitKeeps ==
  ASSUME DeskInv, NEW o \in DeskOrder, o.id = submits + 1, NEW type, Submit(o, type)
  PROVE  DeskInv'
<1>1. /\ mark \in Prices /\ Desk \in Desks /\ Covered(Desk)
      /\ Desk \in DeskRecord /\ Desk.account = account /\ Desk.book = book /\ Desk.orders = orders
      /\ account \in Account /\ book \in Books /\ orders \in Lists
      /\ account.cash \in Nat /\ account.isolated \in Nat /\ account.cross \in Nat
      /\ submits \in 0 .. MaxSubmits /\ \A i \in DOMAIN orders : orders[i].id <= submits
  BY DeskInvParts
<1> DEFINE rise == IF o.mode = "ISOLATED" THEN o.margin ELSE 0
           a == Reserve(account, o.margin, o.mode)
           reserved == [Desk EXCEPT !.account = a]
<1>2. /\ submits' = submits + 1 /\ submits' \in 0 .. MaxSubmits /\ mark' = mark /\ mark' \in Prices
      /\ CanReserve(account, o.margin)
  BY SMTT(40), <1>1, DeskAssumption DEF Submit
<1>3. o.margin \in Nat /\ o.mode \in Modes /\ o.price \in Nat /\ rise \in Nat
  BY DEF DeskOrder
<1>4. /\ a \in Account /\ a.cash >= 0 /\ a.isolated >= 0 /\ a.cross >= 0
      /\ a.isolated = account.isolated + rise
  <2>1. o.margin \in Int /\ account.cash >= 0 /\ account.isolated >= 0 /\ account.cross >= 0
    BY <1>1, <1>3
  <2>2. /\ a \in Account /\ a.cash >= 0 /\ a.isolated >= 0 /\ a.cross >= 0
        /\ a.isolated = IF o.mode = "ISOLATED" THEN account.isolated + o.margin ELSE account.isolated
    BY <1>1, <1>2, <1>3, <2>1, ReserveIs
  <2> HIDE DEF a
  <2> QED BY <1>1, <1>3, <2>2
<1>5. \/ Len(orders) < MaxOrders /\ Becomes(Evaluate([reserved EXCEPT !.orders = Append(@, o)], mark))
      \/ Becomes(OpenPosition(reserved, o, o.price))
  BY <1>1 DEF Submit
<1> HIDE DEF a, rise
<1>6. /\ reserved \in Desks /\ reserved.account = a /\ reserved.book = book /\ reserved.orders = orders
  BY <1>1, <1>4 DEF Desks, DeskRecord
<1> HIDE DEF reserved
<1>7. account.isolated >= BookTotal(book) + OrderTotal(orders)
      /\ BookTotal(book) \in Nat /\ OrderTotal(orders) \in Nat
  BY <1>1, TotalsAreNat DEF Covered, InUse
<1>8. CASE Becomes(OpenPosition(reserved, o, o.price))
  <2> DEFINE r == OpenPosition(reserved, o, o.price)
  <2>1. /\ r \in Desks /\ r.orders = orders /\ r.account = a
        /\ BookTotal(r.book) <= BookTotal(book) + rise
    BY <1>3, <1>6, OpenIs DEF rise
  <2> HIDE DEF r
  <2>2. r.book \in Books
    BY <2>1, DeskParts
  <2>3. BookTotal(r.book) \in Nat
    BY <2>2, TotalsAreNat
  <2>4. a.isolated >= BookTotal(r.book) + OrderTotal(orders)
    BY <1>1, <1>3, <1>4, <1>7, <2>1, <2>3
  <2>5. Covered(r)
    BY <2>1, <2>4 DEF Covered, InUse
  <2>6. \A k \in DOMAIN r.orders : r.orders[k].id <= submits'
    <3>1. \A i \in DOMAIN orders : orders[i].id \in Nat
      BY SMTT(40), <1>1, OrdersAreOrders DEF DeskOrder
    <3> QED BY <1>1, <1>2, <2>1, <3>1
  <2>7. Becomes(r)
    BY <1>8 DEF r
  <2> QED BY <1>2, <2>1, <2>5, <2>6, <2>7, DeskKept
<1>9. CASE Becomes(Evaluate([reserved EXCEPT !.orders = Append(@, o)], mark))
  <2> DEFINE l == Append(orders, o)
             x == [reserved EXCEPT !.orders = l]
             r == Evaluate(x, mark)
  <2>1. \A i \in DOMAIN orders : orders[i].id # o.id /\ orders[i].id <= submits'
    <3>1. \A i \in DOMAIN orders : orders[i].id \in Nat
      BY SMTT(40), <1>1, OrdersAreOrders DEF DeskOrder
    <3> QED BY <1>1, <1>2, <3>1
  <2>2. l \in Lists /\ OrderTotal(l) = OrderTotal(orders) + rise
    BY <1>1, <2>1, AddWorks DEF rise
  <2>3. \A k \in DOMAIN l : l[k].id <= submits'
    <3>1. orders \in Seq(DeskOrder) /\ DOMAIN orders = 1 .. Len(orders) /\ Len(orders) \in Nat
      BY <1>1, OrdersAreOrders
    <3>2. /\ DOMAIN l = 1 .. Len(orders) + 1
          /\ \A i \in 1 .. Len(orders) : l[i] = orders[i]
          /\ l[Len(orders) + 1] = o
      BY <3>1, AppendProperties, LenProperties
    <3> HIDE DEF l
    <3>3. \A k \in DOMAIN l : (k \in DOMAIN orders /\ l[k] = orders[k]) \/ l[k] = o
      BY <3>1, <3>2
    <3>4. o.id <= submits'
      BY <1>1, <1>2
    <3> QED BY <2>1, <3>3, <3>4
  <2>4. [reserved EXCEPT !.orders = Append(@, o)] = x
    BY <1>6 DEF Desks, DeskRecord
  <2> HIDE DEF l
  <2>5. x \in Desks /\ x.account = a /\ x.book = book /\ x.orders = l
    BY <1>6, <2>2 DEF Desks, DeskRecord
  <2> HIDE DEF x
  <2>6. Covered(x)
    <3>1. a.isolated >= BookTotal(book) + OrderTotal(l)
      BY <1>1, <1>3, <1>4, <1>7, <2>2
    <3> QED BY <2>5, <3>1 DEF Covered, InUse
  <2>7. /\ r \in Desks /\ Covered(r)
        /\ \A k \in DOMAIN r.orders : \E j \in DOMAIN l : l[j] = r.orders[k]
    BY <1>1, <2>5, <2>6, EvaluateIs
  <2> HIDE DEF r
  <2>8. \A k \in DOMAIN r.orders : r.orders[k].id <= submits'
    BY <2>3, <2>7
  <2>9. Becomes(r)
    BY <1>9, <2>4 DEF r
  <2> QED BY <1>2, <2>7, <2>8, <2>9, DeskKept
<1> QED BY <1>5, <1>8, <1>9

\* The same for every order the form can build.
LEMMA SubmitOrderKeeps ==
  ASSUME DeskInv, SubmitOrder
  PROVE  DeskInv'
<1>1. PICK s \in Symbols, side \in Sides, mode \in Modes, q \in Quantities,
           lev \in Leverages, tp \in Triggers, sl \in Triggers, price \in Marks, type \in {"MARKET", "LIMIT"} :
             Submit(Order(s, side, mode, q, lev, price, tp, sl), type)
  <2>1. \A s \in Symbols : mark[s] \in Marks
    BY DEF DeskInv, Prices
  <2> QED BY <2>1 DEF SubmitOrder
<1> DEFINE o == Order(s, side, mode, q, lev, price, tp, sl)
<1>2. o.margin > 0 /\ submits < MaxSubmits /\ submits \in 0 .. MaxSubmits
  BY <1>1 DEF Submit, CanReserve, DeskInv
<1>3. o \in DeskOrder /\ o.id = submits + 1
  BY <1>2, OrderIs
<1> HIDE DEF o
<1>4. Submit(o, type)
  BY <1>1 DEF o
<1> QED BY <1>3, <1>4, SubmitKeeps

\* Every reduction of a held position keeps the invariant.
LEMMA ReductionKeeps ==
  ASSUME DeskInv, NEW i \in DOMAIN book, NEW q \in 1 .. book[i].qty,
         Becomes(SettleReduction(Desk, book[i], q, mark)), mark' = mark, submits' = submits
  PROVE  DeskInv'
<1>1. /\ mark \in Prices /\ Desk \in Desks /\ Covered(Desk) /\ Desk.book = book /\ Desk.orders = orders
      /\ book \in Books /\ submits \in 0 .. MaxSubmits
      /\ \A j \in DOMAIN orders : orders[j].id <= submits
  BY DeskInvParts
<1> DEFINE p == book[i]
           r == SettleReduction(Desk, p, q, mark)
<1>2. p \in DeskPosition
  BY <1>1, BookIsBook
<1>3. Becomes(r)
  OBVIOUS
<1>4. \E j \in DOMAIN Desk.book : Desk.book[j] = p
  BY <1>1
<1>5. r \in Desks /\ r.orders = orders /\ Covered(r)
  <2>1. q \in 1 .. p.qty
    OBVIOUS
  <2> HIDE DEF p
  <2> QED BY <1>1, <1>2, <1>4, <2>1, SettleIs
<1> HIDE DEF r
<1> QED BY <1>1, <1>3, <1>5, DeskKept

\* Cancelling releases the margin of the order it removes.
LEMMA CancelKeeps ==
  ASSUME DeskInv, NEW i \in DOMAIN orders, CancelOrder(orders[i])
  PROVE  DeskInv'
<1>1. /\ mark \in Prices /\ Desk \in Desks /\ Covered(Desk)
      /\ Desk \in DeskRecord /\ Desk.account = account /\ Desk.book = book /\ Desk.orders = orders
      /\ account \in Account /\ book \in Books /\ orders \in Lists
      /\ account.cash \in Nat /\ account.isolated \in Nat /\ account.cross \in Nat
      /\ submits \in 0 .. MaxSubmits /\ \A j \in DOMAIN orders : orders[j].id <= submits
  BY DeskInvParts
<1> DEFINE o == orders[i]
<1>2. o \in DeskOrder
  BY <1>1, OrdersAreOrders
<1>3. o.margin \in Nat /\ o.mode \in Modes
  BY <1>2 DEF DeskOrder
<1>4. mark' = mark /\ submits' = submits
  BY DEF CancelOrder
<1>5. CASE ~CanRelease(account, o.margin, 0, o.mode)
  <2> DEFINE r == Fail(Desk, "MARGIN_RELEASE_EXCEEDS_RESERVED")
  <2>1. Becomes(r)
    BY <1>5 DEF CancelOrder
  <2>2. "MARGIN_RELEASE_EXCEEDS_RESERVED" \in Errors
    BY DEF Errors
  <2>3. r \in DeskRecord /\ r.account = account /\ r.book = book /\ r.orders = orders
    BY <1>1, <2>2, FailIs
  <2> HIDE DEF r
  <2>4. r \in Desks /\ Covered(r)
    BY <1>1, <2>3 DEF Desks, Covered, InUse
  <2> QED BY <1>1, <1>4, <2>1, <2>3, <2>4, DeskKept
<1>6. CASE CanRelease(account, o.margin, 0, o.mode)
  <2> DEFINE l == OrdersBut(orders, o.id)
             a == Release(account, o.margin, 0, o.mode)
             r == [Desk EXCEPT !.account = a, !.orders = l]
  <2>1. Becomes(r)
    <3>1. Becomes([Desk EXCEPT !.account = Release(@, o.margin, 0, o.mode), !.orders = OrdersBut(@, o.id)])
      BY <1>6 DEF CancelOrder
    <3>2. [Desk EXCEPT !.account = Release(@, o.margin, 0, o.mode), !.orders = OrdersBut(@, o.id)] = r
      BY <1>1 DEF DeskRecord
    <3> QED BY <3>1, <3>2
  <2>2. /\ a \in Account /\ a.cash >= 0 /\ a.isolated >= 0 /\ a.cross >= 0
        /\ a.isolated = IF o.mode = "ISOLATED" THEN account.isolated - o.margin ELSE account.isolated
    <3>1. account.cash >= 0 /\ account.isolated >= 0 /\ account.cross >= 0 /\ 0 \in Int
      BY <1>1
    <3> HIDE DEF o
    <3> QED BY <1>1, <1>3, <1>6, <3>1, ReleaseIs
  <2>3. /\ l \in Lists
        /\ \A j \in DOMAIN l : \E k \in DOMAIN orders : orders[k] = l[j] /\ k # i
        /\ OrderTotal(orders) \in Nat
        /\ OrderTotal(l) = OrderTotal(orders) - (IF o.mode = "ISOLATED" THEN o.margin ELSE 0)
    BY SMTT(40), <1>1, ButWorks
  <2> HIDE DEF l, a, o
  <2>4. r \in DeskRecord /\ r.account = a /\ r.book = book /\ r.orders = l
    BY <1>1, <2>2, <2>3 DEF DeskRecord
  <2> HIDE DEF r
  <2>5. r \in Desks
    BY <2>2, <2>4 DEF Desks
  <2>6. Covered(r)
    <3>1. account.isolated >= BookTotal(book) + OrderTotal(orders) /\ BookTotal(book) \in Nat
      BY <1>1, TotalsAreNat DEF Covered, InUse
    <3>2. a.isolated >= BookTotal(book) + OrderTotal(l)
      BY <1>1, <1>3, <2>2, <2>3, <3>1
    <3> QED BY <2>4, <3>2 DEF Covered, InUse
  <2>7. \A k \in DOMAIN r.orders : r.orders[k].id <= submits'
    BY <1>1, <1>4, <2>3, <2>4
  <2> QED BY <1>1, <1>4, <2>1, <2>5, <2>6, <2>7, DeskKept
<1> QED BY <1>5, <1>6

\* Every step keeps the desk backed.
LEMMA DeskInvStep ==
  ASSUME DeskInv, [Next]_vars
  PROVE  DeskInv'
<1>1. CASE UNCHANGED vars
  BY <1>1 DEF vars, DeskInv, Desk, IsolatedMarginBacked, MarginInUse
<1>2. ASSUME NEW s \in Symbols, NEW price \in Marks, MoveMark(s, price) PROVE DeskInv'
  BY <1>2, MoveMarkKeeps
<1>3. CASE SubmitOrder
  BY <1>3, SubmitOrderKeeps
<1>4. ASSUME NEW s \in Symbols, NEW side \in Sides, NEW mode \in Modes, NEW q \in 1 .. MaxQuantity,
             ReduceOnly(s, side, mode, q)
      PROVE  DeskInv'
  <2> DEFINE key == <<s, side, mode>>
  <2>1. /\ Holds(book, key) /\ q <= Get(book, key).qty
        /\ Becomes(SettleReduction(Desk, Get(book, key), q, mark)) /\ mark' = mark /\ submits' = submits
    BY <1>4 DEF ReduceOnly
  <2> HIDE DEF key
  <2>2. book \in Books
    BY DeskInvParts
  <2>3. PICK i \in DOMAIN book : Get(book, key) = book[i] /\ book[i] \in DeskPosition
    BY <2>1, <2>2, HeldIsThere
  <2>4. q \in Int /\ 1 <= q
    OBVIOUS
  <2>5. q \in 1 .. book[i].qty
    BY <2>1, <2>3, <2>4 DEF DeskPosition
  <2> QED BY <2>1, <2>3, <2>5, ReductionKeeps
<1>5. ASSUME NEW i \in DOMAIN book, NEW percent \in {25, 50, 100}, ClosePercent(book[i], percent)
      PROVE  DeskInv'
  <2> DEFINE q == (book[i].qty * percent) \div 100
  <2>1. /\ q > 0 /\ Becomes(SettleReduction(Desk, book[i], q, mark))
        /\ mark' = mark /\ submits' = submits
    BY <1>5 DEF ClosePercent
  <2>2. book[i].qty \in Nat
    <3>1. book \in Books
      BY DeskInvParts
    <3>2. book[i] \in DeskPosition
      BY <3>1, BookIsBook
    <3> QED BY <3>2 DEF DeskPosition
  <2>3. q \in 0 .. book[i].qty
    <3> DEFINE n == book[i].qty
    <3>1. n \in Nat
      BY <2>2
    <3> HIDE DEF n
    <3>2. (n * 25) \div 100 \in 0 .. n /\ (n * 50) \div 100 \in 0 .. n /\ (n * 100) \div 100 \in 0 .. n
      BY <3>1
    <3> QED BY <3>2 DEF n
  <2> HIDE DEF q
  <2>4. q \in 1 .. book[i].qty
    BY <2>1, <2>2, <2>3
  <2> QED BY <2>1, <2>4, ReductionKeeps
<1>6. ASSUME NEW i \in DOMAIN orders, CancelOrder(orders[i]) PROVE DeskInv'
  BY <1>6, CancelKeeps
<1> QED BY <1>1, <1>2, <1>3, <1>4, <1>5, <1>6 DEF Next

(* Whatever handlers throw half way, the isolated reserve covers the        *)
(* collateral of the isolated positions and the margin of the isolated      *)
(* resting orders, for any markets, prices, sizes and leverages.            *)
THEOREM DeskMarginBacked == Spec => [](TypeOK /\ IsolatedMarginBacked)
<1>1. DeskInv => TypeOK /\ IsolatedMarginBacked
  <2> SUFFICES ASSUME DeskInv PROVE TypeOK /\ IsolatedMarginBacked
    OBVIOUS
  <2>1. /\ mark \in Prices /\ account \in Account /\ book \in Books /\ orders \in Lists
        /\ account.cash \in Nat /\ account.isolated \in Nat /\ account.cross \in Nat
    BY DeskInvParts
  <2>2. \A i \in DOMAIN book : book[i].qty > 0 /\ book[i].collateral > 0
    BY <2>1, BookIsBook DEF DeskPosition
  <2>3. \A i \in DOMAIN book : IndexOf(book, KeyOf(book[i])) = {i}
    BY <2>1 DEF IndexOf, Books
  <2>4. \A i, j \in DOMAIN orders : orders[i].id = orders[j].id => i = j
    BY <2>1 DEF Lists
  <2>5. TypeOK
    BY <2>1, <2>2, <2>3, <2>4 DEF TypeOK, Prices
  <2> QED BY <2>5 DEF DeskInv
<1> QED BY <1>1, DeskInvInit, DeskInvStep, PTL DEF Spec

(* After a price move that did not throw nothing is left for another pass: *)
(* no resting order is hit, no position is triggered or due, and the cross *)
(* account is not liquidatable, whatever the one pass did on its way.      *)
THEOREM DeskOnePassSuffices == Spec => OnePassSuffices
<1> DEFINE after == [account |-> account', book |-> book']
           shown == PositionsOf(after, mark', Symbols)
<1>1. ASSUME DeskInv, [Next]_vars, mark' # mark, outcome' = "OK"
      PROVE  /\ \A i \in DOMAIN orders' : ~Hit(orders'[i], mark')
             /\ \A i \in DOMAIN book' : ~Triggered(book'[i], mark')
             /\ \A i \in DOMAIN shown : shown[i].mode = "ISOLATED" => ~shown[i].liquidatable
             /\ ~AccountInfo(after, mark').crossLiquidatable
  <2>1. PICK s \in Symbols, price \in Marks : MoveMark(s, price)
    <3>1. ~UNCHANGED vars
      BY <1>1 DEF vars
    <3>2. ~SubmitOrder
      <4>1. \A o, type : Submit(o, type) => mark' = mark
        BY DEF Submit
      <4> QED BY <1>1, <4>1 DEF SubmitOrder
    <3> QED BY <1>1, <3>1, <3>2 DEF Next, ReduceOnly, ClosePercent, CancelOrder
  <2> DEFINE r == Evaluate(Desk, mark')
  <2>2. account' = r.account /\ book' = r.book /\ orders' = r.orders /\ r.error = "OK"
    BY <1>1, <2>1 DEF MoveMark, Becomes
  <2>3. Desk \in Desks /\ mark' \in Prices
    BY <1>1, <2>1, DeskInvParts DEF MoveMark, Prices
  <2>4. /\ r \in Desks
        /\ \A k \in DOMAIN r.orders : ~Hit(r.orders[k], mark')
        /\ \A k \in DOMAIN r.book : Calm(r.book[k], mark')
        /\ ~CrossLiquidatable(r, mark')
    BY <2>2, <2>3, EvaluateIs
  <2> HIDE DEF r
  <2>5. r.book \in Books
    BY <2>4, DeskParts
  <2>6. ~AccountInfo(after, mark').crossLiquidatable
    <3>1. CrossLiquidatable(after, mark') <=> CrossLiquidatable(r, mark')
      BY <2>2 DEF CrossLiquidatable, CrossEquity
    <3> QED BY <2>4, <3>1 DEF AccountInfo
  <2>7. \A i \in DOMAIN shown : shown[i].mode = "ISOLATED" => ~shown[i].liquidatable
    <3> DEFINE listed == {p \in ToSet(r.book) : p.symbol \in Symbols}
               asked == Within(r.book, listed)
    <3>1. shown = [i \in DOMAIN asked |-> PublicPosition(asked[i], mark')]
      BY <2>2 DEF PositionsOf
    <3>2. \A j \in DOMAIN asked : \E i \in DOMAIN r.book : asked[j] = r.book[i]
      <4> HIDE DEF listed
      <4> QED BY <2>5, SelectionIsBook
    <3> HIDE DEF asked
    <3>3. \A j \in DOMAIN asked : Calm(asked[j], mark')
      BY <2>4, <3>2
    <3> QED BY <3>1, <3>3 DEF PublicPosition, Calm, IsolatedDue
  <2> QED BY SMTT(40), <2>2, <2>4, <2>6, <2>7 DEF Calm
<1>2. DeskInv /\ [Next]_vars => [mark' # mark /\ outcome' = "OK" =>
         LET a == [account |-> account', book |-> book']
             p == PositionsOf(a, mark', Symbols)
         IN  /\ \A i \in DOMAIN orders' : ~Hit(orders'[i], mark')
             /\ \A i \in DOMAIN book' : ~Triggered(book'[i], mark')
             /\ \A i \in DOMAIN p : p[i].mode = "ISOLATED" => ~p[i].liquidatable
             /\ ~AccountInfo(a, mark').crossLiquidatable]_vars
  BY <1>1
<1> QED BY <1>2, DeskInvInit, DeskInvStep, PTL DEF Spec, OnePassSuffices

-----------------------------------------------------------------------------
(* PriceGuard.                                                             *)

FeedTyped == feed \in [Sources -> [price : SourcePrices, timestamp : Nat]] /\ now \in Nat

NotAbove(chosen, x) == {s \in chosen : feed[s].price <= x}

\* Counts of sources are naturals.
LEMMA CountIs ==
  ASSUME NEW chosen \in SUBSET Sources, NEW x
  PROVE  /\ IsFiniteSet(chosen) /\ IsFiniteSet(NotAbove(chosen, x))
         /\ Cardinality(chosen) \in Nat /\ Cardinality(NotAbove(chosen, x)) \in 0 .. Cardinality(chosen)
<1>1. IsFiniteSet(chosen) /\ NotAbove(chosen, x) \subseteq chosen
  BY FS_Subset, PriceGuardAssumption DEF NotAbove
<1>2. IsFiniteSet(NotAbove(chosen, x)) /\ Cardinality(NotAbove(chosen, x)) <= Cardinality(chosen)
  BY <1>1, FS_Subset
<1>3. Cardinality(chosen) \in Nat /\ Cardinality(NotAbove(chosen, x)) \in Nat
  BY <1>1, <1>2, FS_CardinalityType
<1> QED BY <1>1, <1>2, <1>3

\* Every source has a price.
LEMMA PriceIsNat ==
  ASSUME FeedTyped, NEW s \in Sources
  PROVE  feed[s].price \in Nat \ {0}
BY PriceGuardAssumption DEF FeedTyped

\* Some source has the highest price: the one that most others do not exceed.
LEMMA Extremes ==
  ASSUME FeedTyped, NEW chosen \in SUBSET Sources, chosen # {}
  PROVE  /\ \E s \in chosen : LowestOf(chosen) = feed[s].price
         /\ \E s \in chosen : HighestOf(chosen) = feed[s].price
         /\ \A s \in chosen : feed[s].price \in LowestOf(chosen) .. HighestOf(chosen)
<1> DEFINE n == Cardinality(chosen)
           c(s) == Cardinality(NotAbove(chosen, feed[s].price))
           P == {feed[s].price : s \in chosen}
           T == {n - c(s) : s \in chosen}
<1>1. \A s \in chosen : feed[s].price \in Nat
  BY PriceIsNat
<1>2. P \in SUBSET Nat /\ P # {}
  BY <1>1
<1>3. \E p \in P : \A y \in P : p <= y
  <2> HIDE DEF P
  <2> QED BY <1>2, LeastNatural
<1>4. n \in Nat /\ \A s \in chosen : c(s) \in 0 .. n
  BY CountIs
<1>5. T \in SUBSET Nat /\ T # {}
  BY <1>4
<1>6. PICK x \in T : \A y \in T : x <= y
  <2> HIDE DEF T
  <2> QED BY <1>5, LeastNatural
<1>7. PICK top \in chosen : \A s \in chosen : n - c(top) <= n - c(s)
  BY <1>6
<1>8. \A s \in chosen : c(s) <= c(top)
  BY <1>4, <1>7
<1>9. \A s \in chosen : feed[s].price <= feed[top].price
  <2> SUFFICES ASSUME NEW s \in chosen, feed[s].price > feed[top].price PROVE FALSE
    BY <1>1
  <2> DEFINE A == NotAbove(chosen, feed[top].price)
             B == NotAbove(chosen, feed[s].price)
  <2>1. A \subseteq B /\ s \in B /\ s \notin A
    BY <1>1 DEF NotAbove
  <2>2. IsFiniteSet(B)
    BY CountIs
  <2>3. Cardinality(A) < Cardinality(B)
    <3> HIDE DEF A, B
    <3>1. A # B
      BY <2>1
    <3>2. A \in SUBSET B
      BY <2>1
    <3>3. /\ Cardinality(A) <= Cardinality(B) /\ Cardinality(A) # Cardinality(B)
          /\ Cardinality(A) \in Nat /\ Cardinality(B) \in Nat
      BY <2>2, <3>1, <3>2, FS_Subset, FS_CardinalityType
    <3> QED BY <3>3
  <2> QED BY <1>4, <1>8, <2>3
<1>10. \E p \in P : \A y \in P : p >= y
  BY <1>1, <1>9
<1>11. LowestOf(chosen) \in P /\ \A y \in P : LowestOf(chosen) <= y
  BY <1>3 DEF LowestOf, Min
<1>12. HighestOf(chosen) \in P /\ \A y \in P : HighestOf(chosen) >= y
  BY <1>10 DEF HighestOf, Max
<1> HIDE DEF LowestOf, HighestOf
<1>13. \A s \in chosen : feed[s].price \in LowestOf(chosen) .. HighestOf(chosen)
  BY <1>1, <1>2, <1>11, <1>12
<1> QED BY <1>11, <1>12, <1>13

\* The k-th price of the sources exists.
LEMMA RankedIs ==
  ASSUME FeedTyped, NEW chosen \in SUBSET Sources, NEW k \in 1 .. Cardinality(chosen)
  PROVE  /\ \E s \in chosen : RankedPrice(chosen, k) = feed[s].price
         /\ Cardinality({s \in chosen : feed[s].price < RankedPrice(chosen, k)}) < k
         /\ Cardinality({s \in chosen : feed[s].price <= RankedPrice(chosen, k)}) >= k
<1> DEFINE P == {feed[s].price : s \in chosen}
           T == {x \in Nat : Cardinality(NotAbove(chosen, x)) >= k}
<1>1. /\ IsFiniteSet(chosen) /\ Cardinality(chosen) \in Nat
      /\ \A x : IsFiniteSet(NotAbove(chosen, x)) /\ Cardinality(NotAbove(chosen, x)) \in Nat
  BY CountIs
<1>2. \A s \in chosen : feed[s].price \in Nat \ {0}
  BY PriceIsNat
<1>3. chosen # {}
  BY <1>1, FS_EmptySet
<1>4. T # {}
  <2>1. PICK top \in chosen : \A s \in chosen : feed[s].price <= feed[top].price
    <3>1. PICK top \in chosen : HighestOf(chosen) = feed[top].price
      BY <1>3, Extremes
    <3>2. \A s \in chosen : feed[s].price \in LowestOf(chosen) .. feed[top].price
      BY <1>3, <3>1, Extremes
    <3> QED BY <1>2, <3>2
  <2>2. NotAbove(chosen, feed[top].price) = chosen
    BY <2>1 DEF NotAbove
  <2>3. feed[top].price \in T
    BY <1>1, <1>2, <2>2
  <2> QED BY <2>3
<1>5. PICK x \in T : \A y \in T : x <= y
  <2>1. T \in SUBSET Nat
    OBVIOUS
  <2> HIDE DEF T
  <2> QED BY <1>4, <2>1, LeastNatural
<1>6. x \in Nat /\ Cardinality(NotAbove(chosen, x)) >= k
  BY <1>5
<1>7. x # 0
  <2> SUFFICES ASSUME x = 0 PROVE FALSE
    OBVIOUS
  <2>1. NotAbove(chosen, 0) = {}
    BY <1>2 DEF NotAbove
  <2> QED BY <1>6, <2>1, FS_EmptySet
<1>8. Cardinality(NotAbove(chosen, x - 1)) < k
  <2>1. x - 1 \in Nat /\ ~(x <= x - 1)
    BY <1>6, <1>7
  <2>2. x - 1 \notin T
    BY <1>5, <2>1
  <2> QED BY <1>1, <2>1, <2>2
<1>9. {s \in chosen : feed[s].price < x} = NotAbove(chosen, x - 1)
  BY <1>2, <1>6 DEF NotAbove
<1>10. \E s \in chosen : feed[s].price = x
  <2> SUFFICES ASSUME \A s \in chosen : feed[s].price # x PROVE FALSE
    OBVIOUS
  <2>1. NotAbove(chosen, x) = NotAbove(chosen, x - 1)
    BY <1>2, <1>6 DEF NotAbove
  <2> QED BY <1>1, <1>6, <1>8, <2>1
<1>11. \E price \in P : /\ Cardinality({s \in chosen : feed[s].price < price}) < k
                        /\ Cardinality({s \in chosen : feed[s].price <= price}) >= k
  <2>1. x \in P
    BY <1>10
  <2> QED BY <1>6, <1>8, <1>9, <2>1 DEF NotAbove
<1> QED BY <1>11 DEF RankedPrice

\* The median of some sources lies among their prices.
LEMMA MedianAmong ==
  ASSUME FeedTyped, NEW chosen \in SUBSET Sources, chosen # {}
  PROVE  MedianOf(chosen) \in LowestOf(chosen) .. HighestOf(chosen)
<1> DEFINE n == Cardinality(chosen)
           l == LowestOf(chosen)
           h == HighestOf(chosen)
<1>1. n \in Nat /\ n # 0
  BY CountIs, FS_EmptySet
<1>2. l \in Nat /\ h \in Nat
  BY Extremes, PriceIsNat
<1>3. \A k \in 1 .. n : RankedPrice(chosen, k) \in l .. h
  BY RankedIs, Extremes
<1>4. MedianOf(chosen) = IF n % 2 = 1 THEN RankedPrice(chosen, n \div 2 + 1)
                         ELSE (RankedPrice(chosen, n \div 2) + RankedPrice(chosen, n \div 2 + 1)) \div 2
  BY DEF MedianOf
<1> HIDE DEF n, l, h
<1>5. CASE n % 2 = 1
  <2>1. n \div 2 + 1 \in 1 .. n
    BY <1>1, <1>5
  <2> QED BY <1>3, <1>4, <1>5, <2>1 DEF l, h
<1>6. CASE n % 2 # 1
  <2>1. n \div 2 + 1 \in 1 .. n /\ n \div 2 \in 1 .. n
    BY <1>1, <1>6
  <2> DEFINE a == RankedPrice(chosen, n \div 2)
             b == RankedPrice(chosen, n \div 2 + 1)
  <2>2. a \in l .. h /\ b \in l .. h
    BY <1>3, <2>1
  <2> HIDE DEF a, b
  <2>3. (a + b) \div 2 \in l .. h
    BY <1>2, <2>2
  <2> QED BY <1>4, <1>6, <2>3 DEF a, b, l, h
<1> QED BY <1>5, <1>6

\* With two others or more, one source does not move the median out of theirs.
LEMMA MedianOfOthers ==
  ASSUME FeedTyped, NEW chosen \in SUBSET Sources, NEW s \in chosen,
         Cardinality(chosen \ {s}) >= 2
  PROVE  MedianOf(chosen) \in LowestOf(chosen \ {s}) .. HighestOf(chosen \ {s})
<1> DEFINE others == chosen \ {s}
           n == Cardinality(chosen)
           l == LowestOf(others)
           h == HighestOf(others)
<1>1. IsFiniteSet(chosen) /\ IsFiniteSet(others) /\ n \in Nat /\ Cardinality(others) \in Nat
  BY CountIs
<1>2. n = Cardinality(others) + 1 /\ n >= 3
  <2>1. Cardinality(others) = n - 1
    BY <1>1, FS_RemoveElement
  <2>2. Cardinality(others) >= 2
    OBVIOUS
  <2> HIDE DEF n, others
  <2> QED BY <1>1, <2>1, <2>2
<1>3. others # {} /\ others \in SUBSET Sources
  BY <1>1, FS_EmptySet
<1>4. /\ l \in Nat /\ h \in Nat /\ \A t \in others : feed[t].price \in Nat
      /\ \A t \in others : feed[t].price \in l .. h
  BY <1>3, Extremes, PriceIsNat
<1> HIDE DEF l, h
<1>5. ASSUME NEW k \in 2 .. n - 1 PROVE RankedPrice(chosen, k) \in l .. h
  <2> DEFINE r == RankedPrice(chosen, k)
             below == {t \in chosen : feed[t].price < r}
             upto == {t \in chosen : feed[t].price <= r}
  <2>1. k \in 1 .. n /\ k \in Nat
    BY <1>1
  <2>2. /\ \E t \in chosen : r = feed[t].price
        /\ Cardinality(below) < k /\ Cardinality(upto) >= k
    BY <2>1, RankedIs
  <2>3. r \in Nat
    BY <2>2, PriceIsNat
  <2> HIDE DEF r
  <2>4. IsFiniteSet(below) /\ Cardinality(below) \in Nat
    BY <1>1, FS_Subset, FS_CardinalityType
  <2>5. r >= l
    <3> SUFFICES ASSUME r < l PROVE FALSE
      BY <1>4, <2>3
    <3>1. upto \subseteq {s}
      BY <1>4, <2>3
    <3>2. IsFiniteSet({s}) /\ Cardinality({s}) = 1
      BY FS_Singleton
    <3>3. Cardinality(upto) <= 1 /\ Cardinality(upto) \in Nat
      BY <3>1, <3>2, FS_Subset, FS_CardinalityType
    <3> QED BY <2>1, <2>2, <3>3
  <2>6. r <= h
    <3> SUFFICES ASSUME r > h PROVE FALSE
      BY <1>4, <2>3
    <3>1. others \subseteq below
      BY <1>4, <2>3
    <3>2. Cardinality(others) <= Cardinality(below)
      BY <2>4, <3>1, FS_Subset
    <3> QED BY <1>1, <1>2, <2>1, <2>2, <2>4, <3>2
  <2> QED BY <1>4, <2>3, <2>5, <2>6 DEF r
<1>6. MedianOf(chosen) = IF n % 2 = 1 THEN RankedPrice(chosen, n \div 2 + 1)
                         ELSE (RankedPrice(chosen, n \div 2) + RankedPrice(chosen, n \div 2 + 1)) \div 2
  BY DEF MedianOf
<1> HIDE DEF n
<1>7. CASE n % 2 = 1
  <2>1. n \div 2 + 1 \in 2 .. n - 1
    BY <1>1, <1>2, <1>7
  <2> QED BY <1>5, <1>6, <1>7, <2>1 DEF l, h
<1>8. CASE n % 2 # 1
  <2>1. n \div 2 + 1 \in 2 .. n - 1 /\ n \div 2 \in 2 .. n - 1
    BY <1>1, <1>2, <1>8
  <2> DEFINE a == RankedPrice(chosen, n \div 2)
             b == RankedPrice(chosen, n \div 2 + 1)
  <2>2. a \in l .. h /\ b \in l .. h
    BY <1>5, <2>1
  <2> HIDE DEF a, b
  <2>3. (a + b) \div 2 \in l .. h
    BY <1>4, <2>2
  <2> QED BY <1>6, <1>8, <2>3 DEF a, b, l, h
<1> QED BY <1>7, <1>8

\* The feed keeps its type.
LEMMA FeedTypedAlways ==
  /\ GuardInit => FeedTyped
  /\ FeedTyped /\ [GuardNext]_guardVars => FeedTyped'
<1>1. GuardInit => FeedTyped
  <2>1. Min(SourcePrices) \in SourcePrices
    <3>1. SourcePrices \in SUBSET Nat /\ SourcePrices # {}
      BY PriceGuardAssumption
    <3>2. \E x \in SourcePrices : \A y \in SourcePrices : x <= y
      BY <3>1, LeastNatural
    <3> QED BY <3>2 DEF Min
  <2> QED BY <2>1 DEF GuardInit, FeedTyped
<1>2. ASSUME FeedTyped, [GuardNext]_guardVars PROVE FeedTyped'
  <2>1. ASSUME NEW s \in Sources, NEW price \in SourcePrices, Observe(s, price) PROVE FeedTyped'
    BY <1>2, <2>1 DEF Observe, FeedTyped
  <2>2. CASE Elapse
    BY <1>2, <2>2 DEF Elapse, FeedTyped
  <2>3. CASE UNCHANGED <<now, feed>>
    BY <1>2, <2>3 DEF FeedTyped
  <2> QED BY <1>2, <2>1, <2>2, <2>3 DEF GuardNext, guardVars, Refresh, Keep, Operate, PlaceOrder
<1> QED BY <1>1, <1>2

(* One source, whatever it reports, cannot move the published index out of *)
(* the range of the others that agree, for any number of sources.          *)
THEOREM GuardHoldsIndex == GuardSpec => OneSourceCannotMoveIndex
<1> DEFINE Claim ==
      \A s \in FreshSources :
         LET others == FreshSources \ {s}
         IN  /\ quote' # quote /\ Cardinality(others) >= 2
             /\ Scale * (HighestOf(others) - LowestOf(others)) <= MaxDeviation * LowestOf(others)
             => quote'.index \in LowestOf(others)..HighestOf(others)
<1>1. ASSUME FeedTyped, [GuardNext]_guardVars,
             NEW s \in FreshSources, quote' # quote, Cardinality(FreshSources \ {s}) >= 2,
             Scale * (HighestOf(FreshSources \ {s}) - LowestOf(FreshSources \ {s}))
               <= MaxDeviation * LowestOf(FreshSources \ {s})
      PROVE  quote'.index \in LowestOf(FreshSources \ {s}) .. HighestOf(FreshSources \ {s})
  <2> DEFINE F == FreshSources
             others == F \ {s}
             taken == Accepted(F)
             l == LowestOf(others)
             h == HighestOf(others)
             m == MedianOf(F)
  <2>1. quote'.index = MedianOf(taken)
    <3>1. Refresh
      BY <1>1 DEF GuardNext, guardVars, Keep, Operate, PlaceOrder, Observe, Elapse
    <3> QED BY <1>1, <3>1 DEF Refresh
  <2>2. F \in SUBSET Sources /\ s \in F /\ others \in SUBSET Sources
    BY DEF FreshSources
  <2>3. others # {}
    BY <1>1, FS_EmptySet
  <2> HIDE DEF F
  <2>4. m \in l .. h
    BY <1>1, <2>2, MedianOfOthers DEF F
  <2>5. /\ l \in Nat \ {0} /\ h \in Nat
        /\ \A t \in others : feed[t].price \in Nat /\ feed[t].price \in l .. h
    BY <1>1, <2>2, <2>3, Extremes, PriceIsNat
  <2>6. Scale \in Nat /\ MaxDeviation \in Nat /\ Scale * (h - l) <= MaxDeviation * l
    BY <1>1, PriceGuardAssumption DEF F
  <2>7. others \subseteq taken
    <3> SUFFICES ASSUME NEW t \in others PROVE t \in taken
      OBVIOUS
    <3> DEFINE x == Distance(feed[t].price, m)
    <3>1. x \in Nat /\ x <= h - l
      BY <2>4, <2>5 DEF Distance
    <3> HIDE DEF x, l, h, m
    <3>2. Scale * x <= Scale * (h - l)
      BY <2>4, <2>5, <2>6, <3>1, MulMono
    <3>3. MaxDeviation * l <= MaxDeviation * m
      BY <2>4, <2>5, <2>6, MulMono
    <3>4. Scale * x <= MaxDeviation * m
      BY <2>4, <2>5, <2>6, <3>1, <3>2, <3>3
    <3> QED BY <2>2, <3>4 DEF Accepted, x, m
  <2>8. taken = others \/ taken = F
    BY <2>2, <2>7 DEF Accepted
  <2>9. MedianOf(taken) \in l .. h
    <3>1. MedianOf(others) \in l .. h
      BY <1>1, <2>2, <2>3, MedianAmong
    <3> QED BY <2>4, <2>8, <3>1
  <2> QED BY <2>1, <2>9 DEF F
<1>2. FeedTyped /\ [GuardNext]_guardVars => [Claim]_guardVars
  BY <1>1
<1> QED BY <1>2, FeedTypedAlways, PTL DEF GuardSpec, OneSourceCannotMoveIndex

-----------------------------------------------------------------------------
(* FuturesSettlement: what becomes of a loss.                              *)

(* A position of the book has collateral, and a place without one is worth    *)
(* nothing.                                                                   *)
BookWhole ==
    \A t \in Traders, side \in Sides :
        /\ position[t][side].qty = 0 => position[t][side].cost = 0
        /\ position[t][side].qty > 0 => position[t][side].collateral > 0

(* What a list of amounts adds up to grows by the amount appended.            *)
LEMMA TotalOfLonger ==
  ASSUME NEW n \in Nat, NEW f \in [1 .. n -> Nat], NEW g \in [1 .. n + 1 -> Nat],
         \A i \in 1 .. n : g[i] = f[i]
  PROVE  TotalOf(g) = TotalOf(f) + g[n + 1] /\ TotalOf(f) \in Nat
<1>1. IsFiniteSet(1 .. n + 1) /\ IsFiniteSet(1 .. n)
  BY FS_Interval
<1>2. n + 1 \in 1 .. n + 1 /\ (1 .. n + 1) \ {n + 1} = 1 .. n
  OBVIOUS
<1> DEFINE rest == UNION {UnitsOf(g, b) : b \in (1 .. n + 1) \ {n + 1}}
           same == UNION {UnitsOf(f, b) : b \in 1 .. n}
<1>3. TotalOf(g) = Cardinality(rest) + g[n + 1]
  BY <1>1, <1>2, TotalSplit
<1>4. rest = same
  <2>1. rest = UNION {UnitsOf(g, b) : b \in 1 .. n}
    BY <1>2
  <2>2. \A b \in 1 .. n : UnitsOf(g, b) = UnitsOf(f, b)
    BY DEF UnitsOf
  <2>3. {UnitsOf(g, b) : b \in 1 .. n} = {UnitsOf(f, b) : b \in 1 .. n}
    BY <2>2
  <2> QED BY <2>1, <2>3
<1>5. TotalOf(f) = Cardinality(same)
  <2>1. DOMAIN f = 1 .. n
    OBVIOUS
  <2> QED BY <2>1 DEF TotalOf
<1>6. TotalOf(f) \in Nat
  BY <1>1, TotalIsNat
<1> HIDE DEF rest, same
<1> QED BY <1>3, <1>4, <1>5, <1>6

(* What the model reads of a position.                                        *)
LEMMA AtIs ==
  ASSUME SettlementTypes, NEW t \in Traders, NEW side \in Sides
  PROVE  /\ At(t, side).qty = position[t][side].qty /\ At(t, side).qty \in Nat
         /\ At(t, side).collateral = position[t][side].collateral
         /\ At(t, side).collateral \in Nat
         /\ At(t, side).cost = position[t][side].cost
         /\ Pnl(At(t, side), traderMark) \in Int
         /\ Profit(At(t, side)) \in Nat
         /\ Notional(At(t, side), traderMark) \in Nat
<1>1. position[t][side] \in TraderPosition /\ traderMark \in Nat
  BY DEF SettlementTypes
<1>2. /\ At(t, side).side = side
      /\ At(t, side).qty = position[t][side].qty
      /\ At(t, side).cost = position[t][side].cost
      /\ At(t, side).collateral = position[t][side].collateral
  BY DEF At
<1>3. position[t][side].qty \in Nat /\ position[t][side].cost \in Int
      /\ position[t][side].collateral \in Nat
  BY <1>1 DEF TraderPosition
<1>4. position[t][side].qty * traderMark \in Nat
  BY <1>1, <1>3, MulNat
<1>5. Pnl(At(t, side), traderMark) \in Int
  BY <1>2, <1>3, <1>4 DEF Pnl, Direction
<1>6. Profit(At(t, side)) \in Nat
  BY <1>5 DEF Profit
<1>7. Notional(At(t, side), traderMark) \in Nat
  BY <1>2, <1>4 DEF Notional
<1> QED BY <1>2, <1>3, <1>5, <1>6, <1>7

(* Fractions compared by cross-multiplication are in order.                   *)
LEMMA FractionsOrdered ==
  ASSUME NEW a \in Nat, NEW b \in Nat, NEW c \in Nat,
         NEW x \in Nat \ {0}, NEW y \in Nat \ {0}, NEW z \in Nat \ {0},
         a * y > b * x, b * z > c * y
  PROVE  a * z > c * x
<1>1. (a * y) * z > (b * x) * z
  <2>1. a * y \in Nat /\ b * x \in Nat
    BY MulNat
  <2>2. \A p, q \in Nat : p > q => p * z > q * z
    OBVIOUS
  <2> QED BY <2>1, <2>2
<1>2. (b * z) * x > (c * y) * x
  <2>1. b * z \in Nat /\ c * y \in Nat
    BY MulNat
  <2>2. \A p, q \in Nat : p > q => p * x > q * x
    OBVIOUS
  <2> QED BY <2>1, <2>2
<1>3. (b * x) * z = (b * z) * x /\ (a * y) * z = (a * z) * y /\ (c * y) * x = (c * x) * y
  OBVIOUS
<1>4. a * z \in Nat /\ c * x \in Nat
  BY MulNat
<1>5. (a * z) * y > (c * x) * y
  <2>1. (a * z) * y \in Nat /\ (b * z) * x \in Nat /\ (c * x) * y \in Nat
    BY <1>4, MulNat
  <2> QED BY <1>1, <1>2, <1>3, <2>1
<1>6. \A p, q \in Nat : p * y > q * y => p > q
  OBVIOUS
<1> QED BY <1>4, <1>5, <1>6

(* The score orders the positions that have collateral.                       *)
LEMMA ScoresOrdered ==
  ASSUME SettlementTypes, NEW side \in Sides, NEW t \in Traders, NEW u \in Traders, NEW v \in Traders,
         position[t][side].collateral > 0, position[u][side].collateral > 0,
         position[v][side].collateral > 0
  PROVE  /\ ~ScoresHigher(At(t, side), At(t, side))
         /\ ScoresHigher(At(t, side), At(u, side)) /\ ScoresHigher(At(u, side), At(v, side))
              => ScoresHigher(At(t, side), At(v, side))
<1> DEFINE S(w) == Profit(At(w, side)) * Notional(At(w, side), traderMark)
           C(w) == At(w, side).collateral * At(w, side).collateral
<1>1. ASSUME NEW w \in {t, u, v} PROVE S(w) \in Nat /\ C(w) \in Nat \ {0}
  <2>1. At(w, side).collateral \in Nat \ {0} /\ Profit(At(w, side)) \in Nat
        /\ Notional(At(w, side), traderMark) \in Nat
    BY AtIs
  <2>2. \A p \in Nat \ {0} : p * p \in Nat \ {0}
    OBVIOUS
  <2> QED BY <2>1, <2>2, MulNat
<1>2. ASSUME NEW w \in {t, u, v}, NEW r \in {t, u, v}
      PROVE  ScoresHigher(At(w, side), At(r, side)) <=> S(w) * C(r) > S(r) * C(w)
  <2>1. \A p, q, c, d \in Nat : (p * q * c * d) = (p * q) * (c * d)
    OBVIOUS
  <2>2. /\ Profit(At(w, side)) \in Nat /\ Notional(At(w, side), traderMark) \in Nat
        /\ Profit(At(r, side)) \in Nat /\ Notional(At(r, side), traderMark) \in Nat
        /\ At(w, side).collateral \in Nat /\ At(r, side).collateral \in Nat
    BY AtIs
  <2>3. /\ Profit(At(w, side)) * Notional(At(w, side), traderMark)
             * At(r, side).collateral * At(r, side).collateral = S(w) * C(r)
        /\ Profit(At(r, side)) * Notional(At(r, side), traderMark)
             * At(w, side).collateral * At(w, side).collateral = S(r) * C(w)
    BY <2>1, <2>2
  <2> QED BY <2>3 DEF ScoresHigher
<1> HIDE DEF S, C
<1>3. ~ScoresHigher(At(t, side), At(t, side))
  <2>1. S(t) * C(t) \in Nat
    BY <1>1, MulNat
  <2> QED BY <1>2, <2>1
<1>4. ASSUME ScoresHigher(At(t, side), At(u, side)), ScoresHigher(At(u, side), At(v, side))
      PROVE  ScoresHigher(At(t, side), At(v, side))
  <2>1. S(t) * C(u) > S(u) * C(t) /\ S(u) * C(v) > S(v) * C(u)
    BY <1>2, <1>4
  <2>2. S(t) * C(v) > S(v) * C(t)
    BY <1>1, <2>1, FractionsOrdered
  <2> QED BY <1>2, <2>2
<1> QED BY <1>3, <1>4

(* Among the positions that are left one is scored by none higher: the one    *)
(* that the fewest others are scored higher than.                             *)
LEMMA RankedAmong ==
  ASSUME SettlementTypes, BookWhole, NEW side \in Sides, NEW rest \in SUBSET Traders, rest # {},
         \A t \in rest : position[t][side].qty > 0
  PROVE  Ranked(rest, side) \in rest
<1> DEFINE over(t) == {u \in rest : ScoresHigher(At(u, side), At(t, side))}
           T == {Cardinality(over(t)) : t \in rest}
<1>1. IsFiniteSet(rest)
  BY SettlementAssumption, FS_Subset
<1>2. \A t \in rest : IsFiniteSet(over(t)) /\ Cardinality(over(t)) \in Nat
  BY <1>1, FS_Subset, FS_CardinalityType
<1>3. T \in SUBSET Nat /\ T # {}
  BY <1>2
<1>4. PICK x \in T : \A y \in T : x <= y
  <2> HIDE DEF T
  <2> QED BY <1>3, LeastNatural
<1>5. PICK t \in rest : \A u \in rest : Cardinality(over(t)) <= Cardinality(over(u))
  BY <1>4
<1>6. \A u \in rest : ~ScoresHigher(At(u, side), At(t, side))
  <2> SUFFICES ASSUME NEW u \in rest, ScoresHigher(At(u, side), At(t, side)) PROVE FALSE
    OBVIOUS
  <2>1. \A w \in rest : w \in Traders /\ position[w][side].collateral > 0
    BY DEF BookWhole
  <2>2. u \in over(t) /\ u \notin over(u)
    BY <2>1, ScoresOrdered
  <2>3. over(u) \subseteq over(t)
    BY <2>1, ScoresOrdered
  <2>4. Cardinality(over(u)) < Cardinality(over(t))
    <3> DEFINE A == over(u)
               B == over(t)
    <3>1. IsFiniteSet(B) /\ A \in SUBSET B /\ A # B
      BY <1>2, <2>2, <2>3
    <3> HIDE DEF A, B
    <3>2. /\ Cardinality(A) <= Cardinality(B) /\ Cardinality(A) # Cardinality(B)
          /\ Cardinality(A) \in Nat /\ Cardinality(B) \in Nat
      BY <3>1, FS_Subset, FS_CardinalityType
    <3>3. Cardinality(A) < Cardinality(B)
      BY <3>2
    <3> QED BY <3>3 DEF A, B
  <2> HIDE DEF over
  <2> QED BY <1>2, <1>5, <2>4
<1> QED BY <1>6 DEF Ranked

(* What a plan is while it is made, and one candidate of it.                  *)
Absorption == [trader : Traders, amount : Nat]
Plans == [left : Nat, rest : SUBSET Traders, absorbed : Seq(Absorption)]

AbsorbNext(plan, side) ==
    LET t      == Ranked(plan.rest, side)
        amount == Least(plan.left, Profit(At(t, side)))
    IN  [left |-> plan.left - amount,
         rest |-> plan.rest \ {t},
         absorbed |-> IF amount = 0 THEN plan.absorbed
                      ELSE Append(plan.absorbed, [trader |-> t, amount |-> amount])]

Taken(list) == TotalOf([i \in DOMAIN list |-> list[i].amount])

(* The profit of the positions that have been asked.                          *)
Asked(set, side) == TotalOf([t \in Traders |-> IF t \in set THEN Profit(At(t, side)) ELSE 0])

(* A plan on its way: what was absorbed and what is left are the debt, and    *)
(* while something is left every position asked gave its whole profit.        *)
PlanSound(plan, all, side, debt) ==
    /\ plan \in Plans /\ plan.rest \subseteq all
    /\ Taken(plan.absorbed) + plan.left = debt
    /\ plan.left > 0 => Taken(plan.absorbed) = Asked(all \ plan.rest, side)
    /\ \A i \in DOMAIN plan.absorbed :
           plan.absorbed[i].amount <= Profit(At(plan.absorbed[i].trader, side))

(* Appending an amount adds it to what was taken.                             *)
LEMMA TakenOfAppend ==
  ASSUME NEW list \in Seq(Absorption), NEW e \in Absorption
  PROVE  /\ Taken(list) \in Nat
         /\ Append(list, e) \in Seq(Absorption)
         /\ Taken(Append(list, e)) = Taken(list) + e.amount
<1> DEFINE n == Len(list)
           longer == Append(list, e)
           f == [i \in DOMAIN list |-> list[i].amount]
           g == [i \in DOMAIN longer |-> longer[i].amount]
<1>1. n \in Nat /\ DOMAIN list = 1 .. n /\ \A i \in 1 .. n : list[i] \in Absorption
  BY LenProperties, ElementOfSeq
<1>2. /\ longer \in Seq(Absorption) /\ DOMAIN longer = 1 .. n + 1
      /\ \A i \in 1 .. n : longer[i] = list[i]
      /\ longer[n + 1] = e
  BY AppendProperties, LenProperties
<1> HIDE DEF n, longer
<1>3. f \in [1 .. n -> Nat]
  BY <1>1 DEF Absorption
<1>4. \A i \in 1 .. n + 1 : longer[i] \in Absorption
  BY <1>2, ElementOfSeq, LenProperties
<1>5. g \in [1 .. n + 1 -> Nat] /\ g[n + 1] = e.amount /\ \A i \in 1 .. n : g[i] = f[i]
  BY <1>1, <1>2, <1>4 DEF Absorption
<1>6. Taken(list) = TotalOf(f) /\ Taken(longer) = TotalOf(g)
  BY DEF Taken
<1> HIDE DEF f, g
<1>7. TotalOf(g) = TotalOf(f) + g[n + 1] /\ TotalOf(f) \in Nat
  BY <1>1, <1>3, <1>5, TotalOfLonger
<1> QED BY <1>2, <1>5, <1>6, <1>7 DEF longer

(* Asking one more position adds its profit.                                  *)
LEMMA AskedOneMore ==
  ASSUME SettlementTypes, NEW side \in Sides, NEW set \in SUBSET Traders,
         NEW t \in Traders, t \notin set
  PROVE  /\ Asked(set, side) \in Nat
         /\ Asked(set \cup {t}, side) = Asked(set, side) + Profit(At(t, side))
<1> DEFINE p(u) == Profit(At(u, side))
           f == [u \in Traders |-> IF u \in set THEN p(u) ELSE 0]
           g == [u \in Traders |-> IF u \in set \cup {t} THEN p(u) ELSE 0]
<1>1. \A u \in Traders : p(u) \in Nat
  BY AtIs
<1>2. IsFiniteSet(Traders)
  BY SettlementAssumption
<1>3. Asked(set, side) = TotalOf(f) /\ Asked(set \cup {t}, side) = TotalOf(g)
  BY DEF Asked
<1> DEFINE v == p(t)
<1>4. v \in Nat
  BY <1>1
<1> HIDE DEF p
<1>5. f \in [Traders -> Nat] /\ f[t] = 0 /\ g = [f EXCEPT ![t] = v]
  BY <1>1
<1> HIDE DEF f, g, v
<1>6. TotalOf([f EXCEPT ![t] = v]) = TotalOf(f) - f[t] + v /\ TotalOf(f) \in Nat
  BY <1>2, <1>4, <1>5, TotalOfUpdate, TotalIsNat
<1>7. TotalOf(g) = TotalOf(f) + v /\ TotalOf(f) \in Nat
  BY <1>4, <1>5, <1>6
<1> QED BY <1>3, <1>7 DEF v, p

(* A candidate that absorbs keeps the plan sound.                             *)
LEMMA AbsorbKeeps ==
  ASSUME SettlementTypes, BookWhole, NEW side \in Sides, NEW all \in SUBSET Traders,
         NEW debt \in Nat, \A t \in all : position[t][side].qty > 0,
         NEW plan, PlanSound(plan, all, side, debt), plan.rest # {}
  PROVE  /\ PlanSound(AbsorbNext(plan, side), all, side, debt)
         /\ Cardinality(AbsorbNext(plan, side).rest) = Cardinality(plan.rest) - 1
<1> DEFINE t == Ranked(plan.rest, side)
           profit == Profit(At(t, side))
           amount == Least(plan.left, profit)
           new == AbsorbNext(plan, side)
           e == [trader |-> t, amount |-> amount]
<1>1. /\ plan.left \in Nat /\ plan.rest \in SUBSET all /\ plan.absorbed \in Seq(Absorption)
      /\ plan.rest \in SUBSET Traders
  BY DEF PlanSound, Plans
<1>2. t \in plan.rest /\ t \in Traders /\ t \in all
  BY <1>1, RankedAmong
<1>3. profit \in Nat
  BY <1>2, AtIs
<1>4. /\ new.left = plan.left - amount
      /\ new.rest = plan.rest \ {t}
      /\ new.absorbed = IF amount = 0 THEN plan.absorbed ELSE Append(plan.absorbed, e)
      /\ new = [left |-> new.left, rest |-> new.rest, absorbed |-> new.absorbed]
  BY DEF AbsorbNext
<1> HIDE DEF t, profit, new
<1>5. amount \in Nat /\ amount <= plan.left /\ amount <= profit
      /\ (amount < plan.left => amount = profit)
  BY <1>1, <1>3 DEF Least
<1>6. e \in Absorption
  BY <1>2, <1>5 DEF Absorption
<1> HIDE DEF amount
<1>7. /\ Taken(plan.absorbed) \in Nat
      /\ new.absorbed \in Seq(Absorption)
      /\ Taken(new.absorbed) = Taken(plan.absorbed) + amount
  <2>1. /\ Taken(plan.absorbed) \in Nat
        /\ Append(plan.absorbed, e) \in Seq(Absorption)
        /\ Taken(Append(plan.absorbed, e)) = Taken(plan.absorbed) + e.amount
    <3> HIDE DEF e
    <3> QED BY <1>1, <1>6, TakenOfAppend
  <2>2. e.amount = amount
    OBVIOUS
  <2> HIDE DEF e
  <2> QED BY <1>1, <1>4, <1>5, <2>1, <2>2
<1>8. new \in Plans /\ new.rest \subseteq all
  <2>1. new.left \in Nat /\ new.rest \in SUBSET Traders
    BY <1>1, <1>4, <1>5
  <2> QED BY <1>1, <1>4, <1>7, <2>1 DEF Plans
<1>9. Taken(new.absorbed) + new.left = debt
  <2>1. Taken(plan.absorbed) + plan.left = debt
    BY DEF PlanSound
  <2> QED BY <1>1, <1>4, <1>5, <1>7, <2>1
<1>10. new.left > 0 => Taken(new.absorbed) = Asked(all \ new.rest, side)
  <2> SUFFICES ASSUME new.left > 0 PROVE Taken(new.absorbed) = Asked(all \ new.rest, side)
    OBVIOUS
  <2>1. amount = profit /\ plan.left > 0
    BY <1>1, <1>4, <1>5
  <2>2. Taken(plan.absorbed) = Asked(all \ plan.rest, side)
    BY <2>1 DEF PlanSound
  <2>3. all \ new.rest = (all \ plan.rest) \cup {t} /\ t \notin all \ plan.rest
        /\ all \ plan.rest \in SUBSET Traders
    BY <1>1, <1>2, <1>4
  <2>4. Asked(all \ new.rest, side) = Asked(all \ plan.rest, side) + profit
    BY <1>2, <2>3, AskedOneMore DEF profit
  <2> QED BY <1>7, <2>1, <2>2, <2>4
<1>11. \A i \in DOMAIN new.absorbed :
         new.absorbed[i].amount <= Profit(At(new.absorbed[i].trader, side))
  <2>1. \A i \in DOMAIN plan.absorbed :
          plan.absorbed[i].amount <= Profit(At(plan.absorbed[i].trader, side))
    BY DEF PlanSound
  <2>2. CASE amount = 0
    BY <1>4, <2>1, <2>2
  <2>3. CASE amount # 0
    <3>1. e.amount <= Profit(At(e.trader, side))
      BY <1>5 DEF profit
    <3> HIDE DEF e
    <3>2. new.absorbed = Append(plan.absorbed, e)
      BY <1>4, <2>3
    <3>3. \A i \in DOMAIN new.absorbed :
            (i \in DOMAIN plan.absorbed /\ new.absorbed[i] = plan.absorbed[i]) \/ new.absorbed[i] = e
      BY <1>1, <1>6, <3>2, AppendProperties, LenProperties
    <3> QED BY <2>1, <3>1, <3>3
  <2> QED BY <2>2, <2>3
<1>12. PlanSound(new, all, side, debt)
  BY <1>8, <1>9, <1>10, <1>11 DEF PlanSound
<1>13. Cardinality(new.rest) = Cardinality(plan.rest) - 1
  <2>1. IsFiniteSet(plan.rest)
    BY <1>1, SettlementAssumption, FS_Subset
  <2>2. Cardinality(plan.rest \ {t}) = Cardinality(plan.rest) - 1
    BY <1>2, <2>1, FS_RemoveElement
  <2> HIDE DEF e
  <2> QED BY <1>4, <2>2
<1> QED BY <1>12, <1>13 DEF new

(* The plan is made of as many candidates as there are and is sound: whatever *)
(* the debt, it asks no position for more than its profit and leaves over     *)
(* only what all the profit of the other side cannot absorb.                  *)
LEMMA PlanIs ==
  ASSUME SettlementTypes, BookWhole, NEW bankrupt \in Sides, NEW debt \in Nat
  PROVE  PlanExhausts(bankrupt, debt)
<1> DEFINE side == Opposite(bankrupt)
           all == Candidates(bankrupt)
           k == Cardinality(all)
           start == [left |-> debt, rest |-> all, absorbed |-> <<>>]
           h == [iv \in (1 .. k) \X Plans |->
                   IF PlanSound(iv[2], all, side, debt) /\ iv[2].rest # {}
                   THEN AbsorbNext(iv[2], side) ELSE iv[2]]
           Is(f) == f = [n \in 0 .. k |-> IF n = 0 THEN start ELSE AbsorbNext(f[n - 1], side)]
<1>1. side \in Sides /\ all \in SUBSET Traders /\ \A t \in all : position[t][side].qty > 0
  BY DEF Opposite, Sides, Candidates, Held
<1>2. IsFiniteSet(all) /\ k \in Nat
  <2>1. IsFiniteSet(all)
    BY <1>1, SettlementAssumption, FS_Subset
  <2> QED BY <2>1, FS_CardinalityType
<1>3. AdlPlan(bankrupt, debt) = (CHOOSE f : Is(f))[k]
  BY DEF AdlPlan, AbsorbNext
<1>4. PlanSound(start, all, side, debt) /\ start \in Plans /\ start.rest = all
  <2>1. start \in Plans
    BY <1>1, EmptySeq DEF Plans
  <2>2. DOMAIN <<>> = {} /\ start.absorbed = <<>> /\ start.left = debt /\ start.rest = all
    OBVIOUS
  <2>3. Taken(<<>>) = 0
    <3> DEFINE f == [i \in DOMAIN <<>> |-> <<>>[i].amount]
    <3>1. f \in [{} -> Nat] /\ \A i \in {} : f[i] = 0
      BY <2>2
    <3> HIDE DEF f
    <3>2. TotalOf(f) = 0
      BY <3>1, TotalOfNothing
    <3> QED BY <3>2 DEF Taken, f
  <2>4. Asked({}, side) = 0
    <3> DEFINE f == [t \in Traders |-> IF t \in {} THEN Profit(At(t, side)) ELSE 0]
    <3>1. f \in [Traders -> Nat] /\ \A t \in Traders : f[t] = 0
      OBVIOUS
    <3> HIDE DEF f
    <3>2. TotalOf(f) = 0
      BY <3>1, TotalOfNothing
    <3> QED BY <3>2 DEF Asked, f
  <2>5. all \ start.rest = {}
    BY <2>2
  <2>6. Taken(start.absorbed) + start.left = debt
    BY <2>2, <2>3
  <2> HIDE DEF start, all, side
  <2> QED BY <2>1, <2>2, <2>3, <2>4, <2>5, <2>6 DEF PlanSound
<1> HIDE DEF side, all, start
<1>5. ASSUME NEW plan, PlanSound(plan, all, side, debt), plan.rest # {}
      PROVE  /\ PlanSound(AbsorbNext(plan, side), all, side, debt)
             /\ AbsorbNext(plan, side) \in Plans
             /\ Cardinality(AbsorbNext(plan, side).rest) = Cardinality(plan.rest) - 1
  <2> HIDE DEF h, k
  <2>1. PlanSound(AbsorbNext(plan, side), all, side, debt)
    BY <1>1, <1>5, AbsorbKeeps
  <2>2. Cardinality(AbsorbNext(plan, side).rest) = Cardinality(plan.rest) - 1
    BY <1>1, <1>5, AbsorbKeeps
  <2> QED BY <2>1, <2>2 DEF PlanSound
<1> DEFINE Way(n, plan) == PlanSound(plan, all, side, debt) /\ Cardinality(plan.rest) = k - n
<1>6. h \in [(1 .. k) \X Plans -> Plans]
  <2>1. \A iv \in (1 .. k) \X Plans :
          (IF PlanSound(iv[2], all, side, debt) /\ iv[2].rest # {}
           THEN AbsorbNext(iv[2], side) ELSE iv[2]) \in Plans
    BY <1>5
  <2> QED BY <2>1
<1>7. PICK f \in Passes(k, Plans, start, h) : TRUE
  <2> HIDE DEF h, k
  <2> QED BY <1>2, <1>4, <1>6, StepByStep
<1>8. /\ f \in [0 .. k -> Plans] /\ f[0] = start
      /\ \A i \in 1 .. k : f[i] = h[<<i, f[i - 1]>>]
  BY <1>7 DEF Passes
<1>9. ASSUME NEW i \in 0 .. k - 1, Way(i, f[i])
      PROVE  Way(i + 1, f[i + 1]) /\ f[i + 1] = AbsorbNext(f[i], side)
  <2>1. i \in Nat /\ i + 1 \in 1 .. k /\ i + 1 - 1 = i /\ i \in 0 .. k /\ k - i > 0
    BY <1>2
  <2>2. f[i] \in Plans /\ f[i + 1] = h[<<i + 1, f[i]>>]
    <3> HIDE DEF h, k
    <3>1. f[i + 1] = h[<<i + 1, f[i + 1 - 1]>>]
      BY <1>8, <2>1
    <3> QED BY <1>8, <2>1, <3>1
  <2>3. f[i].rest # {}
    <3> HIDE DEF h, k
    <3>1. Cardinality(f[i].rest) = k - i /\ IsFiniteSet(f[i].rest)
      BY <1>2, <1>9, FS_Subset DEF PlanSound
    <3>2. Cardinality(f[i].rest) # 0
      BY <2>1, <3>1
    <3> QED BY <3>1, <3>2, FS_EmptySet
  <2>4. f[i + 1] = AbsorbNext(f[i], side)
    BY <1>9, <2>1, <2>2, <2>3
  <2>5. /\ PlanSound(f[i + 1], all, side, debt)
        /\ Cardinality(f[i + 1].rest) = Cardinality(f[i].rest) - 1
    <3> HIDE DEF h, k
    <3> QED BY <1>5, <1>9, <2>3, <2>4
  <2>6. k - (i + 1) = k - i - 1
    BY <1>2, <2>1
  <2> HIDE DEF h, k
  <2> QED BY <1>9, <2>4, <2>5, <2>6
<1> DEFINE S == {n \in 0 .. k : Way(n, f[n])}
<1>10. \A n \in 0 .. k : n \in S
  <2>1. 0 \in S
    <3>1. k - 0 = k /\ 0 \in 0 .. k
      BY <1>2
    <3> QED BY <1>4, <1>8, <3>1
  <2>2. \A i \in 0 .. k - 1 : i \in S => i + 1 \in S
    <3>1. \A i \in 0 .. k - 1 : i + 1 \in 0 .. k
      BY <1>2
    <3> HIDE DEF Way, k, h
    <3> QED BY <1>9, <3>1
  <2> HIDE DEF S, k
  <2> QED BY <1>2, <2>1, <2>2, UpTo
<1>11. Is(f)
  <2>1. \A n \in 0 .. k : f[n] = IF n = 0 THEN start ELSE AbsorbNext(f[n - 1], side)
    <3> SUFFICES ASSUME NEW n \in 0 .. k, n # 0 PROVE f[n] = AbsorbNext(f[n - 1], side)
      BY <1>8
    <3>1. n - 1 \in 0 .. k - 1 /\ n - 1 \in 0 .. k /\ (n - 1) + 1 = n
      BY <1>2
    <3>2. Way(n - 1, f[n - 1])
      BY <1>10, <3>1
    <3> HIDE DEF Way, k, h
    <3>3. f[(n - 1) + 1] = AbsorbNext(f[n - 1], side)
      BY <1>9, <3>1, <3>2
    <3> QED BY <3>1, <3>3
  <2> HIDE DEF k, h
  <2> QED BY <1>8, <2>1
<1> DEFINE made == CHOOSE g : Is(g)
<1>12. Is(made)
  BY <1>11
<1>13. \A n \in 0 .. k : made[n] = f[n]
  <2>1. /\ \A n \in 0 .. k : made[n] = IF n = 0 THEN start ELSE AbsorbNext(made[n - 1], side)
        /\ \A n \in 0 .. k : f[n] = IF n = 0 THEN start ELSE AbsorbNext(f[n - 1], side)
    <3> HIDE DEF made, k
    <3> QED BY <1>11, <1>12
  <2> DEFINE Same == {n \in 0 .. k : made[n] = f[n]}
  <2>2. 0 \in Same
    <3> HIDE DEF made, k
    <3>1. 0 \in 0 .. k
      BY <1>2
    <3> QED BY <2>1, <3>1
  <2>3. \A i \in 0 .. k - 1 : i \in Same => i + 1 \in Same
    <3> SUFFICES ASSUME NEW i \in 0 .. k - 1, made[i] = f[i] PROVE made[i + 1] = f[i + 1] /\ i + 1 \in 0 .. k
      OBVIOUS
    <3>1. i + 1 \in 0 .. k /\ i + 1 # 0 /\ (i + 1) - 1 = i
      BY <1>2
    <3> HIDE DEF made, k, h
    <3> QED BY <2>1, <3>1
  <2> HIDE DEF Same, k
  <2>4. \A n \in 0 .. k : n \in Same
    BY <1>2, <2>2, <2>3, UpTo
  <2> QED BY <2>4 DEF Same
<1> HIDE DEF made, h
<1> DEFINE plan == f[k]
<1>14. AdlPlan(bankrupt, debt) = plan
  <2>1. AdlPlan(bankrupt, debt) = made[k]
    BY <1>3 DEF made, start, all, side
  <2>2. k \in 0 .. k
    BY <1>2
  <2> HIDE DEF k
  <2> QED BY <1>13, <2>1, <2>2
<1>15. PlanSound(plan, all, side, debt) /\ plan.rest = {}
  <2>1. k \in 0 .. k /\ k - k = 0
    BY <1>2
  <2>2. Way(k, f[k])
    BY <1>10, <2>1
  <2>3. PlanSound(plan, all, side, debt) /\ Cardinality(plan.rest) = 0
    <3> HIDE DEF k
    <3> QED BY <2>1, <2>2
  <2>4. IsFiniteSet(plan.rest)
    BY <1>2, <2>3, FS_Subset DEF PlanSound
  <2> QED BY <2>3, <2>4, FS_EmptySet
<1> HIDE DEF plan, Way, S
<1>16. Asked(all, side) = TotalOf([t \in Traders |-> Profit(At(t, side))])
  <2>1. ASSUME NEW t \in Traders, t \notin all PROVE Profit(At(t, side)) = 0
    <3>1. CASE Held(t, side)
      BY <1>1, <2>1, <3>1, AtIs DEF all, Candidates, side
    <3>2. CASE ~Held(t, side)
      <4>1. position[t][side].qty = 0
        BY <1>1, <3>2, AtIs DEF Held
      <4>2. At(t, side).qty = 0 /\ At(t, side).cost = 0
        BY <1>1, <4>1, AtIs DEF BookWhole
      <4>3. At(t, side).side = side /\ traderMark \in Nat
        BY DEF At, SettlementTypes
      <4>4. Pnl(At(t, side), traderMark) = 0
        BY <4>2, <4>3 DEF Pnl, Direction
      <4> QED BY <4>4 DEF Profit
    <3> QED BY <3>1, <3>2
  <2>2. [t \in Traders |-> IF t \in all THEN Profit(At(t, side)) ELSE 0]
          = [t \in Traders |-> Profit(At(t, side))]
    BY <2>1
  <2> QED BY <2>2 DEF Asked
<1>17. all \ plan.rest = all
  BY <1>15
<1>18. plan.left > 0 => Taken(plan.absorbed) = TotalOf([t \in Traders |-> Profit(At(t, side))])
  BY <1>15, <1>16, <1>17 DEF PlanSound
<1>19. /\ Taken(plan.absorbed) + plan.left = debt
       /\ \A i \in DOMAIN plan.absorbed :
             plan.absorbed[i].amount <= Profit(At(plan.absorbed[i].trader, side))
  BY <1>15 DEF PlanSound
<1> QED BY <1>14, <1>18, <1>19 DEF PlanExhausts, Taken, side

(* A fill leaves a position with collateral; a liquidation leaves nothing.    *)
LEMMA BookWholeKeeps ==
  ASSUME SettlementInv, BookWhole, [SettlementNext]_settlementVars
  PROVE  BookWhole'
<1>1. CASE UNCHANGED position
  BY <1>1 DEF BookWhole
<1>2. ASSUME NEW t \in Traders, NEW side \in Sides, NEW q \in Lots, Open(t, side, q)
      PROVE  BookWhole'
  <2> DEFINE margin == (q * traderMark) \div MaxLeverage
             p == position[t][side]
             x == p.qty + q
             y == p.cost + q * traderMark
             z == p.collateral + margin
             r == [p EXCEPT !.qty = x, !.cost = y, !.collateral = z]
  <2>1. position' = [position EXCEPT ![t][side] = r] /\ margin > 0
    BY <1>2 DEF Open, CanReserve
  <2>2. q \in Nat \ {0} /\ traderMark \in Nat /\ MaxLeverage \in Nat \ {0}
    BY SettlementAssumption, MarginAssumption DEF SettlementInv, SettlementTypes
  <2>3. margin \in Nat
    BY <2>2, MulNat, DivNat
  <2>4. p \in TraderPosition /\ position \in [Traders -> [Sides -> TraderPosition]]
    BY DEF SettlementInv, SettlementTypes
  <2>5. x > 0 /\ z > 0
    <3>1. p.qty \in Nat /\ p.collateral \in Nat
      BY <2>4 DEF TraderPosition
    <3> HIDE DEF p, margin
    <3> QED BY <2>1, <2>2, <2>3, <3>1
  <2>6. r.qty = x /\ r.collateral = z
    BY <2>4 DEF TraderPosition
  <2> HIDE DEF r, x, z, y, p, margin
  <2>7. \A u \in Traders, s \in Sides :
          position'[u][s] = IF u = t /\ s = side THEN r ELSE position[u][s]
    BY <2>1, <2>4
  <2> QED BY <2>5, <2>6, <2>7 DEF BookWhole
<1>3. ASSUME NEW t \in Traders, CrossRemoved(t) PROVE BookWhole'
  <2>1. \A u \in Traders, s \in Sides :
          position'[u][s] = IF u = t THEN NoPosition ELSE position[u][s]
    BY <1>3 DEF CrossRemoved, SettlementInv, SettlementTypes
  <2> QED BY <2>1 DEF BookWhole, NoPosition
<1>4. ASSUME NEW t \in Traders, NEW refused \in BOOLEAN, Liquidate(t, refused) PROVE BookWhole'
  BY <1>1, <1>3, <1>4 DEF Liquidate
<1> QED BY <1>1, <1>2, <1>4
        DEF SettlementNext, settlementVars, MoveTraderMark, SettleTrade, ReadPosition,
            SettleFundingOn, PreviewResolution, CommitResolution

(* What the fund books of a loss is all of it.                                *)
LEMMA CoverageBooks ==
  ASSUME NEW f \in InsuranceFund, NEW loss \in Int
  PROVE  LET g == Coverage(f, loss).fund
         IN  g.covered + g.badDebt - f.covered - f.badDebt = loss
<1> DEFINE c == Least(loss, Least(f.balance, CoverageCap))
           g == Coverage(f, loss).fund
<1>1. f.balance \in Int /\ f.covered \in Int /\ f.badDebt \in Int
  BY DEF InsuranceFund
<1>2. c \in Int
  BY <1>1, SettlementAssumption DEF Least
<1>3. g.covered = f.covered + c /\ g.badDebt = f.badDebt + loss - c
  BY DEF Coverage, InsuranceFund
<1> HIDE DEF c, g
<1>4. g.covered + g.badDebt - f.covered - f.badDebt = loss
  BY <1>1, <1>2, <1>3
<1> QED BY <1>4 DEF g

(* A step after which a trader who held positions holds none is that          *)
(* trader's liquidation.                                                      *)
LEMMA OnlyLiquidationEmpties ==
  ASSUME SettlementInv, [SettlementNext]_settlementVars, NEW t \in Traders,
         HeldSides(t) # {}, \A side \in Sides : position'[t][side].qty = 0
  PROVE  /\ accounts' = [accounts EXCEPT ![t] = Liquidated(t)]
         /\ IF BadDebt(t) = 0 THEN fund' = fund ELSE fund' = Coverage(fund, BadDebt(t)).fund
<1>1. PICK side \in Sides : position[t][side].qty > 0
  BY DEF HeldSides, Held
<1>2. position # position'
  BY <1>1
<1>3. ASSUME NEW u \in Traders, NEW s \in Sides, NEW q \in Lots, Open(u, s, q) PROVE FALSE
  <2> DEFINE p == position[u][s]
             x == p.qty + q
             y == p.cost + q * traderMark
             z == p.collateral + (q * traderMark) \div MaxLeverage
             r == [p EXCEPT !.qty = x, !.cost = y, !.collateral = z]
  <2>1. position' = [position EXCEPT ![u][s] = r]
    BY <1>3 DEF Open
  <2>2. p \in TraderPosition /\ position \in [Traders -> [Sides -> TraderPosition]]
        /\ q \in Nat \ {0}
    BY SettlementAssumption DEF SettlementInv, SettlementTypes
  <2>3. r.qty = x /\ x > 0
    <3>1. p.qty \in Nat
      BY <2>2 DEF TraderPosition
    <3>2. x > 0
      BY <2>2, <3>1
    <3> HIDE DEF x, y, z
    <3>3. r.qty = x
      BY <2>2 DEF TraderPosition
    <3> QED BY <3>2, <3>3
  <2> HIDE DEF r, x, z, y, p
  <2>4. position'[t][side] = IF t = u /\ side = s THEN r ELSE position[t][side]
    BY <2>1, <2>2
  <2>5. position'[t][side].qty > 0
    BY <1>1, <2>3, <2>4
  <2> QED BY <2>5
<1>4. ASSUME NEW u \in Traders, NEW refused \in BOOLEAN, Liquidate(u, refused)
      PROVE  /\ accounts' = [accounts EXCEPT ![t] = Liquidated(t)]
             /\ IF BadDebt(t) = 0 THEN fund' = fund ELSE fund' = Coverage(fund, BadDebt(t)).fund
  <2>1. CrossRemoved(u)
    BY <1>2, <1>4 DEF Liquidate
  <2>2. position'[t] = IF t = u THEN [s \in Sides |-> NoPosition] ELSE position[t]
    BY <2>1 DEF CrossRemoved, SettlementInv, SettlementTypes
  <2>3. t = u
    BY <1>1, <2>2
  <2>4. \/ BadDebt(t) = 0 /\ accounts' = [accounts EXCEPT ![t] = Liquidated(t)] /\ fund' = fund
        \/ /\ BadDebt(t) > 0 /\ accounts' = [accounts EXCEPT ![t] = Liquidated(t)]
           /\ fund' = Coverage(fund, BadDebt(t)).fund
    BY <1>2, <1>4, <2>3 DEF Liquidate
  <2>5. BadDebt(t) \in Int
    BY EquityIsInt DEF SettlementInv
  <2> QED BY <2>4, <2>5
<1> QED BY <1>2, <1>3, <1>4
        DEF SettlementNext, settlementVars, MoveTraderMark, SettleTrade, ReadPosition,
            SettleFundingOn, PreviewResolution, CommitResolution

(* A trader leaves the book with what the positions were worth; the loss      *)
(* beyond it is covered by the fund or recorded as its bad debt, never both   *)
(* kept and paid; and the deleveraging plan for it takes all there is on the  *)
(* other side: for any traders, prices, fees, losses and settings             *)
(* (liquidation-controller.js, insurance-adl-controller.js, adl-engine.js).   *)
THEOREM LossesResolved == SettlementSpec => LossIsResolved
<1> DEFINE Resolved ==
      \A t \in Traders :
         HeldSides(t) # {} /\ (\A side \in Sides : position'[t][side].qty = 0) =>
            /\ CrossWallet(accounts'[t]) = Equity(t) + BadDebt(t)
            /\ fund'.covered + fund'.badDebt - fund.covered - fund.badDebt = BadDebt(t)
            /\ \A side \in HeldSides(t) : PlanExhausts(side, BadDebt(t))
<1>1. SettlementInit => BookWhole
  BY DEF SettlementInit, BookWhole, NoPosition
<1>2. SettlementInv /\ BookWhole /\ [SettlementNext]_settlementVars => [Resolved]_settlementVars
  <2> SUFFICES ASSUME SettlementInv, BookWhole, [SettlementNext]_settlementVars, NEW t \in Traders,
                      HeldSides(t) # {}, \A side \in Sides : position'[t][side].qty = 0
               PROVE  /\ CrossWallet(accounts'[t]) = Equity(t) + BadDebt(t)
                      /\ fund'.covered + fund'.badDebt - fund.covered - fund.badDebt = BadDebt(t)
                      /\ \A side \in HeldSides(t) : PlanExhausts(side, BadDebt(t))
    OBVIOUS
  <2> DEFINE owed == BadDebt(t)
             worth == Equity(t)
  <2>1. /\ accounts' = [accounts EXCEPT ![t] = Liquidated(t)]
        /\ IF owed = 0 THEN fund' = fund ELSE fund' = Coverage(fund, owed).fund
    BY OnlyLiquidationEmpties
  <2>2. worth \in Int /\ owed \in Int /\ SettlementTypes
    BY EquityIsInt DEF SettlementInv
  <2>3. owed \in Nat
    BY <2>2 DEF BadDebt
  <2>4. accounts[t] \in Account /\ accounts \in [Traders -> Account] /\ fund \in InsuranceFund
    BY <2>2 DEF SettlementTypes
  <2>5. CrossWallet(accounts'[t]) = worth + owed
    <3>1. accounts'[t] = [accounts[t] EXCEPT !.cross = 0, !.cash = worth + owed]
      BY <2>1, <2>4 DEF Liquidated
    <3> HIDE DEF worth, owed
    <3>2. accounts'[t].cross = 0 /\ accounts'[t].cash = worth + owed
      BY <2>4, <3>1 DEF Account
    <3> QED BY <2>2, <3>2 DEF CrossWallet
  <2> HIDE DEF owed, worth
  <2>6. fund'.covered + fund'.badDebt - fund.covered - fund.badDebt = owed
    <3>1. CASE owed = 0
      <4>1. fund.covered \in Int /\ fund.badDebt \in Int /\ fund' = fund
        BY <2>1, <2>4, <3>1 DEF InsuranceFund
      <4> QED BY <3>1, <4>1
    <3>2. CASE owed # 0
      BY <2>1, <2>2, <2>4, <3>2, CoverageBooks
    <3> QED BY <3>1, <3>2
  <2>7. \A side \in HeldSides(t) : PlanExhausts(side, owed)
    BY <2>2, <2>3, PlanIs DEF HeldSides
  <2> QED BY <2>5, <2>6, <2>7 DEF owed, worth
<1>3. SettlementSpec => [][Resolved]_settlementVars
  <2> HIDE DEF Resolved
  <2> QED BY <1>1, <1>2, SettlementStarts, SettlementStep, BookWholeKeeps, PTL DEF SettlementSpec
<1> QED BY <1>3 DEF LossIsResolved
=============================================================================
