------------------------- MODULE CreditWalletProofs -------------------------
(***************************************************************************)
(* Proofs about the wallet engine for every set of users, keys, references *)
(* and amounts, every hold lifetime, refund ceiling and clock bound.       *)
(***************************************************************************)
EXTENDS CreditWallet, FiniteSetTheorems, FunctionTheorems, TLAPS

-----------------------------------------------------------------------------
(* What a sum over rows is worth when the rows change *)

\* A table: finitely many rows, each worth a natural number of credits.
Table(f) == /\ IsFiniteSet(DOMAIN f)
            /\ f = [row \in DOMAIN f |-> f[row]]
            /\ \A row \in DOMAIN f : f[row] \in Nat

\* The units of a table are finitely many, so their number is a natural.
LEMMA UnitsFinite ==
  ASSUME NEW f, Table(f)
  PROVE  IsFiniteSet(Units(f)) /\ Total(f) \in Nat
<1> DEFINE D == DOMAIN f
           parts == [row \in D |-> {row} \X (1 .. f[row])]
           P == {{row} \X (1 .. f[row]) : row \in D}
<1>1. IsFiniteSet(P)
  <2>1. parts \in Surjection(D, P)
    BY DEF Surjection
  <2>2. QED
    BY <2>1, FS_Surjection DEF Table
<1>2. \A T \in P : IsFiniteSet(T)
  <2> SUFFICES ASSUME NEW row \in D
               PROVE  IsFiniteSet({row} \X (1 .. f[row]))
    OBVIOUS
  <2>1. IsFiniteSet({row})
    BY FS_Singleton
  <2>2. 1 \in Int /\ f[row] \in Int
    BY DEF Table
  <2>3. IsFiniteSet(1 .. f[row])
    BY <2>2, FS_Interval
  <2>4. QED
    BY <2>1, <2>3, FS_Product
<1>3. IsFiniteSet(Units(f))
  BY <1>1, <1>2, FS_UNION DEF Units
<1>4. QED
  BY <1>3, FS_CardinalityType DEF Total

\* A table without rows is worth nothing.
LEMMA TotalEmpty ==
  ASSUME NEW f, DOMAIN f = {}
  PROVE  Total(f) = 0
<1>1. Units(f) = {}
  BY DEF Units
<1>2. QED
  BY <1>1, FS_EmptySet DEF Total

\* A table of one row is worth that row's credits.
LEMMA TotalSingle ==
  ASSUME NEW x, NEW f, DOMAIN f = {x}, f[x] \in Nat
  PROVE  Total(f) = f[x]
<1>1. Units(f) = {x} \X (1 .. f[x])
  BY DEF Units
<1>2. IsFiniteSet({x}) /\ Cardinality({x}) = 1
  BY FS_Singleton
<1>3. IsFiniteSet(1 .. f[x]) /\ Cardinality(1 .. f[x]) = f[x]
  BY FS_Interval
<1>4. Cardinality({x} \X (1 .. f[x])) = 1 * f[x]
  <2> DEFINE S == {x}
             T == 1 .. f[x]
  <2> HIDE DEF S, T
  <2>1. IsFiniteSet(S) /\ IsFiniteSet(T)
    BY <1>2, <1>3 DEF S, T
  <2>2. Cardinality(S \X T) = Cardinality(S) * Cardinality(T)
    BY <2>1, FS_Product
  <2>3. QED
    BY <1>2, <1>3, <2>2 DEF S, T
<1>5. QED
  BY <1>1, <1>4 DEF Total

\* The sum over two disjoint parts of a table is the sum of their sums.
LEMMA TotalSplit ==
  ASSUME NEW f, Table(f), NEW g, Table(g), NEW h, Table(h),
         DOMAIN f = DOMAIN g \cup DOMAIN h,
         DOMAIN g \cap DOMAIN h = {},
         \A row \in DOMAIN g : g[row] = f[row],
         \A row \in DOMAIN h : h[row] = f[row]
  PROVE  Total(f) = Total(g) + Total(h)
<1>1. Units(f) = Units(g) \cup Units(h)
  BY DEF Units
<1>2. Units(g) \cap Units(h) = {}
  BY DEF Units
<1>3. IsFiniteSet(Units(g)) /\ IsFiniteSet(Units(h))
  BY UnitsFinite
<1>4. Cardinality(Units(g) \cap Units(h)) = 0
  BY <1>2, FS_EmptySet
<1>5. Cardinality(Units(f))
        = Cardinality(Units(g)) + Cardinality(Units(h)) - 0
  BY <1>1, <1>3, <1>4, FS_Union
<1>6. Total(g) \in Nat /\ Total(h) \in Nat
  BY UnitsFinite
<1>7. QED
  BY <1>5, <1>6 DEF Total

\* Inserting a fresh row adds that row's credits to the sum.
LEMMA TotalInsert ==
  ASSUME NEW f, Table(f), NEW g, Table(g), NEW x,
         x \notin DOMAIN g,
         DOMAIN f = DOMAIN g \cup {x},
         \A row \in DOMAIN g : g[row] = f[row]
  PROVE  Total(f) = Total(g) + f[x]
<1> DEFINE h == [row \in {x} |-> f[x]]
<1>1. f[x] \in Nat
  BY DEF Table
<1>2. Table(h)
  BY <1>1, FS_Singleton DEF Table
<1>3. Total(h) = f[x]
  BY <1>1, TotalSingle
<1>4. Total(f) = Total(g) + Total(h)
  <2>1. DOMAIN h = {x} /\ h[x] = f[x]
    OBVIOUS
  <2> HIDE DEF h
  <2>2. QED
    BY <1>2, <2>1, TotalSplit
<1>5. QED
  BY <1>3, <1>4

\* Renaming the rows of a table one to one leaves its sum alone.
LEMMA TotalRenamed ==
  ASSUME NEW f, Table(f), NEW g, Table(g),
         NEW b \in Bijection(DOMAIN f, DOMAIN g),
         \A row \in DOMAIN f : g[b[row]] = f[row]
  PROVE  Total(f) = Total(g)
<1> DEFINE w == [p \in Units(f) |-> <<b[p[1]], p[2]>>]
<1>1. /\ b \in [DOMAIN f -> DOMAIN g]
      /\ \A x, y \in DOMAIN f : b[x] = b[y] => x = y
      /\ \A z \in DOMAIN g : \E x \in DOMAIN f : b[x] = z
  BY DEF Bijection, Injection, Surjection, IsInjective
<1>2. /\ \A p \in Units(f) : /\ p = <<p[1], p[2]>>
                             /\ p[1] \in DOMAIN f
                             /\ p[2] \in 1 .. f[p[1]]
      /\ \A row \in DOMAIN f : \A n \in 1 .. f[row] : <<row, n>> \in Units(f)
  BY DEF Units
<1>3. /\ \A p \in Units(g) : /\ p = <<p[1], p[2]>>
                             /\ p[1] \in DOMAIN g
                             /\ p[2] \in 1 .. g[p[1]]
      /\ \A row \in DOMAIN g : \A n \in 1 .. g[row] : <<row, n>> \in Units(g)
  BY DEF Units
<1>4. w \in [Units(f) -> Units(g)]
  BY <1>1, <1>2, <1>3
<1>5. ASSUME NEW p \in Units(f), NEW q \in Units(f), w[p] = w[q]
      PROVE  p = q
  BY <1>1, <1>2, <1>5
<1>6. ASSUME NEW q \in Units(g)
      PROVE  \E p \in Units(f) : w[p] = q
  <2>1. PICK x \in DOMAIN f : b[x] = q[1]
    BY <1>1, <1>3
  <2>2. <<x, q[2]>> \in Units(f)
    BY <1>2, <1>3, <2>1
  <2>3. w[<<x, q[2]>>] = q
    BY <1>3, <2>1, <2>2
  <2>4. QED
    BY <2>2, <2>3
<1>7. w \in Bijection(Units(f), Units(g))
  BY <1>4, <1>5, <1>6 DEF Bijection, Injection, Surjection, IsInjective
<1>8. IsFiniteSet(Units(f))
  BY UnitsFinite
<1>9. QED
  BY <1>7, <1>8, FS_Bijection DEF Total, ExistsBijection

-----------------------------------------------------------------------------
(* Sums over sets of holds *)

LEMMA CreditsTable ==
  ASSUME NEW H, IsFiniteSet(H), \A h \in H : h.credits \in Nat
  PROVE  Table([h \in H |-> h.credits]) /\ Credits(H) \in Nat
<1> DEFINE f == [h \in H |-> h.credits]
<1>1. Table(f)
  BY DEF Table
<1>2. Total(f) \in Nat
  <2> HIDE DEF f
  <2>1. QED
    BY <1>1, UnitsFinite
<1>3. QED
  BY <1>1, <1>2 DEF Credits

LEMMA CreditsEmpty == Credits({}) = 0
BY TotalEmpty DEF Credits

LEMMA CreditsSplit ==
  ASSUME NEW H, IsFiniteSet(H), \A h \in H : h.credits \in Nat,
         NEW R \in SUBSET H
  PROVE  Credits(H) = Credits(H \ R) + Credits(R)
<1> DEFINE f == [h \in H |-> h.credits]
           g == [h \in H \ R |-> h.credits]
           r == [h \in R |-> h.credits]
<1>1. IsFiniteSet(H \ R) /\ IsFiniteSet(R)
  BY FS_Subset, FS_Difference
<1>2. Table(f) /\ Table(g) /\ Table(r)
  BY <1>1, CreditsTable
<1>3. /\ DOMAIN f = DOMAIN g \cup DOMAIN r
      /\ DOMAIN g \cap DOMAIN r = {}
      /\ \A h \in DOMAIN g : g[h] = f[h]
      /\ \A h \in DOMAIN r : r[h] = f[h]
  OBVIOUS
<1>4. Total(f) = Total(g) + Total(r)
  <2> HIDE DEF f, g, r
  <2>1. QED
    BY <1>2, <1>3, TotalSplit
<1>5. QED
  BY <1>4 DEF Credits

LEMMA CreditsSingle ==
  ASSUME NEW h, h.credits \in Nat
  PROVE  Credits({h}) = h.credits
<1> DEFINE f == [g \in {h} |-> g.credits]
<1>1. DOMAIN f = {h} /\ f[h] \in Nat /\ f[h] = h.credits
  OBVIOUS
<1>2. Total(f) = f[h]
  <2> HIDE DEF f
  <2>1. QED
    BY <1>1, TotalSingle
<1>3. QED
  BY <1>1, <1>2 DEF Credits

LEMMA CreditsInsert ==
  ASSUME NEW H, IsFiniteSet(H), \A h \in H : h.credits \in Nat,
         NEW x, x \notin H, x.credits \in Nat
  PROVE  Credits(H \cup {x}) = Credits(H) + x.credits
<1> DEFINE G == H \cup {x}
<1>1. IsFiniteSet(G) /\ \A h \in G : h.credits \in Nat
  BY FS_AddElement
<1>2. {x} \in SUBSET G /\ G \ {x} = H
  OBVIOUS
<1>3. Credits(G) = Credits(H) + Credits({x})
  <2> HIDE DEF G
  <2>1. Credits(G) = Credits(G \ {x}) + Credits({x})
    BY <1>1, <1>2, CreditsSplit
  <2>2. QED
    BY <2>1, <1>2
<1>4. QED
  BY <1>3, CreditsSingle

-----------------------------------------------------------------------------
(* Types *)

\* Tables are finite: sums over them are numbers.
FiniteTables ==
  IsFiniteSet(holds) /\ IsFiniteSet(ledger) /\ IsFiniteSet(purchases)

LEMMA TodayInRange ==
  ASSUME now \in 0 .. MaxTime
  PROVE  Today \in 0 .. MaxTime
<1> USE WalletAssumption
<1>1. now \in Nat /\ SecPerDay \in Nat /\ SecPerDay > 0
  OBVIOUS
<1>2. now \div SecPerDay \in Nat /\ now \div SecPerDay <= now
  BY <1>1, Z3
<1>3. QED
  BY <1>2 DEF Today

LEMMA DebitBounds ==
  ASSUME NEW h \in Hold, NEW c \in Amounts
  PROVE  Debit(h, c) \in Nat /\ Debit(h, c) <= h.credits
BY WalletAssumption DEF Debit, Hold

LEMMA EndedHold ==
  ASSUME NEW h \in Hold, NEW s \in {"settled", "released"}
  PROVE  /\ Ended(h, s) \in Hold
         /\ Ended(h, s).key = h.key
         /\ Ended(h, s).user = h.user
         /\ Ended(h, s).credits = h.credits
         /\ Ended(h, s).status = s
BY DEF Ended, Hold

\* The rows an operation writes are rows of the schema.
LEMMA TypeStep ==
  ASSUME WalletTypeOK, FiniteTables, [WalletNext]_walletVars
  PROVE  WalletTypeOK'
<1> USE WalletAssumption
<1>1. ASSUME NEW u \in Users, EnsureWallet(u)
      PROVE  WalletTypeOK'
  BY <1>1 DEF EnsureWallet, WalletTypeOK
<1>2. ASSUME NEW u \in Users, EraseUser(u)
      PROVE  WalletTypeOK'
  BY <1>2 DEF EraseUser, WalletTypeOK
<1>3. ASSUME NEW u \in Users, NEW d \in Deltas, NEW ref \in Refs,
             CreditBalance(u, d, ref)
      PROVE  WalletTypeOK'
  <2>1. [ref |-> ref, user |-> u, delta |-> d] \in Purchase
    BY DEF Purchase
  <2>2. balance' \in [Users -> Int] /\ purchases' \subseteq Purchase
    <3>1. CASE balance[u] + d >= held[u]
      <4>1. d \in Int /\ balance[u] \in Int
        BY DEF WalletTypeOK
      <4>2. balance' = [balance EXCEPT ![u] = @ + d]
        BY <1>3, <3>1 DEF CreditBalance
      <4>3. QED
        BY <1>3, <2>1, <3>1, <4>1, <4>2 DEF CreditBalance, WalletTypeOK
    <3>2. CASE ~(balance[u] + d >= held[u])
      BY <1>3, <3>2 DEF CreditBalance, WalletTypeOK
    <3>3. QED
      BY <3>1, <3>2
  <2>3. QED
    BY <1>3, <2>2 DEF CreditBalance, WalletTypeOK
<1>4. ASSUME NEW u \in Users, NEW k \in HoldKeys, NEW c \in Amounts,
             PlaceHold(u, k, c)
      PROVE  WalletTypeOK'
  <2>1. [key |-> k, user |-> u, credits |-> c, status |-> "active",
         expiresAt |-> now + HoldTtl] \in Hold
    BY DEF Hold, WalletTypeOK
  <2>2. QED
    BY <1>4, <2>1 DEF PlaceHold, WalletTypeOK
<1>5. ASSUME NEW u \in Users, NEW k \in HoldKeys, NEW c \in Amounts,
             NEW lk \in LedgerKeys, Refund(u, k, c, lk)
      PROVE  WalletTypeOK'
  <2>1. Today \in 0 .. MaxTime
    BY TodayInRange DEF WalletTypeOK
  <2>2. [key |-> lk, user |-> u, hold |-> k, kind |-> "refund",
         charged |-> -c, day |-> Today] \in LedgerRow
    BY <2>1 DEF LedgerRow
  <2>3. refunds' \in [Users -> [0 .. MaxTime -> [count : Nat, credits : Nat]]]
    <3> DEFINE row == [count |-> refunds[u][Today].count + 1,
                       credits |-> refunds[u][Today].credits + c]
               days == [refunds[u] EXCEPT ![Today] = row]
    <3>1. refunds[u] \in [0 .. MaxTime -> [count : Nat, credits : Nat]]
      BY DEF WalletTypeOK
    <3>2. row \in [count : Nat, credits : Nat]
      BY <2>1, <3>1
    <3>3. days \in [0 .. MaxTime -> [count : Nat, credits : Nat]]
      BY <3>1, <3>2
    <3>4. refunds' = [refunds EXCEPT ![u] = days]
      BY <1>5 DEF Refund
    <3>5. QED
      BY <3>3, <3>4 DEF WalletTypeOK
  <2>4. balance' \in [Users -> Int]
    BY <1>5 DEF Refund, WalletTypeOK
  <2>5. ledger' \subseteq LedgerRow
    BY <1>5, <2>2 DEF Refund, WalletTypeOK
  <2>6. QED
    BY <1>5, <2>3, <2>4, <2>5 DEF Refund, WalletTypeOK
<1>6. ASSUME NEW k \in HoldKeys, NEW c \in Amounts, NEW lk \in LedgerKeys,
             SettleHold(k, c, lk)
      PROVE  WalletTypeOK'
  <2> PICK h \in HoldsKeyed(k) :
        /\ h.status = "active"
        /\ h.user \in opened
        /\ balance' = [balance EXCEPT ![h.user] = @ - Debit(h, c)]
        /\ held' = [held EXCEPT ![h.user] = @ - h.credits]
        /\ holds' = (holds \ {h}) \cup {Ended(h, "settled")}
        /\ ledger' = ledger \cup
             {[key |-> lk, user |-> h.user, hold |-> k, kind |-> "chat",
               charged |-> Debit(h, c), day |-> Today]}
    BY <1>6 DEF SettleHold
  <2>1. h \in Hold
    BY DEF HoldsKeyed, WalletTypeOK
  <2>2. Debit(h, c) \in Nat
    BY <2>1, DebitBounds
  <2>3. Today \in Nat
    BY TodayInRange DEF WalletTypeOK
  <2>4. Ended(h, "settled") \in Hold
    BY <2>1, EndedHold
  <2>5. [key |-> lk, user |-> h.user, hold |-> k, kind |-> "chat",
         charged |-> Debit(h, c), day |-> Today] \in LedgerRow
    BY <2>1, <2>2, <2>3 DEF LedgerRow, Hold
  <2>6. balance' \in [Users -> Int] /\ held' \in [Users -> Int]
    BY <2>1, <2>2 DEF WalletTypeOK, Hold
  <2>7. holds' \subseteq Hold /\ ledger' \subseteq LedgerRow
    BY <2>4, <2>5 DEF WalletTypeOK
  <2>8. UNCHANGED <<accounts, opened, purchases, refunds, now>>
    BY <1>6 DEF SettleHold
  <2>9. QED
    BY <2>6, <2>7, <2>8 DEF WalletTypeOK
<1>7. ASSUME NEW H, ReleaseAll(H)
      PROVE  WalletTypeOK'
  <2> DEFINE R == {h \in H \cap holds : h.status = "active"}
  <2>1. \A u \in Users : Credits({g \in R : g.user = u}) \in Nat
    <3> SUFFICES ASSUME NEW u \in Users
                 PROVE  Credits({g \in R : g.user = u}) \in Nat
      OBVIOUS
    <3>1. {g \in R : g.user = u} \in SUBSET holds
      OBVIOUS
    <3>2. IsFiniteSet({g \in R : g.user = u})
      BY <3>1, FS_Subset DEF FiniteTables
    <3>3. \A g \in {g \in R : g.user = u} : g.credits \in Nat
      BY <3>1 DEF WalletTypeOK, Hold
    <3>4. QED
      BY <3>2, <3>3, CreditsTable
  <2>2. held' \in [Users -> Int]
    <3>1. held' = [u \in Users |-> held[u] - Credits({g \in R : g.user = u})]
      BY <1>7 DEF ReleaseAll, Credits
    <3>2. ASSUME NEW u \in Users
          PROVE  held[u] - Credits({g \in R : g.user = u}) \in Int
      <4> DEFINE c == Credits({g \in R : g.user = u})
      <4>1. c \in Nat
        BY <2>1
      <4>2. held[u] \in Int
        BY DEF WalletTypeOK
      <4> HIDE DEF c
      <4>3. held[u] - c \in Int
        BY <4>1, <4>2
      <4>4. QED
        BY <4>3 DEF c
    <3> HIDE DEF R
    <3>3. QED
      BY <3>1, <3>2
  <2>3. \A h \in R : Ended(h, "released") \in Hold
    BY EndedHold DEF WalletTypeOK
  <2>4. holds' \subseteq Hold
    BY <1>7, <2>3 DEF ReleaseAll, WalletTypeOK
  <2>5. QED
    BY <1>7, <2>2, <2>4 DEF ReleaseAll, WalletTypeOK
<1>8. ASSUME Tick PROVE WalletTypeOK'
  BY <1>8 DEF Tick, WalletTypeOK
<1>9. ASSUME UNCHANGED walletVars PROVE WalletTypeOK'
  BY <1>9 DEF walletVars, WalletTypeOK
<1>10. QED
  BY <1>1, <1>2, <1>3, <1>4, <1>5, <1>6, <1>7, <1>8, <1>9
  DEF WalletNext, UserStep, HoldStep, ReleaseHold, ReapExpiredHolds, ReapCutShort

\* No operation makes a table infinite.
LEMMA TablesStep ==
  ASSUME WalletTypeOK, FiniteTables, [WalletNext]_walletVars
  PROVE  FiniteTables'
<1> USE DEF FiniteTables
<1>1. ASSUME NEW u \in Users, NEW d \in Deltas, NEW ref \in Refs,
             CreditBalance(u, d, ref)
      PROVE  FiniteTables'
  <2>1. \/ purchases' = purchases
        \/ purchases' = purchases \cup {[ref |-> ref, user |-> u, delta |-> d]}
    BY <1>1 DEF CreditBalance
  <2>2. IsFiniteSet(purchases')
    BY <2>1, FS_AddElement
  <2>3. QED
    BY <1>1, <2>2 DEF CreditBalance
<1>2. ASSUME NEW u \in Users, NEW k \in HoldKeys, NEW c \in Amounts,
             PlaceHold(u, k, c)
      PROVE  FiniteTables'
  BY <1>2, FS_AddElement DEF PlaceHold
<1>3. ASSUME NEW u \in Users, NEW k \in HoldKeys, NEW c \in Amounts,
             NEW lk \in LedgerKeys, Refund(u, k, c, lk)
      PROVE  FiniteTables'
  BY <1>3, FS_AddElement DEF Refund
<1>4. ASSUME NEW k \in HoldKeys, NEW c \in Amounts, NEW lk \in LedgerKeys,
             SettleHold(k, c, lk)
      PROVE  FiniteTables'
  <2> PICK h, r : /\ holds' = (holds \ {h}) \cup {Ended(h, "settled")}
                  /\ ledger' = ledger \cup {r}
    BY <1>4 DEF SettleHold
  <2>1. IsFiniteSet(holds \ {h})
    BY FS_RemoveElement
  <2>2. IsFiniteSet((holds \ {h}) \cup {Ended(h, "settled")})
    BY <2>1, FS_AddElement
  <2>3. IsFiniteSet(ledger \cup {r})
    BY FS_AddElement
  <2>4. QED
    BY <1>4, <2>2, <2>3 DEF SettleHold
<1>5. ASSUME NEW H, ReleaseAll(H)
      PROVE  FiniteTables'
  <2> DEFINE R == {h \in H \cap holds : h.status = "active"}
             E == {Ended(h, "released") : h \in R}
  <2>1. R \in SUBSET holds
    OBVIOUS
  <2>2. IsFiniteSet(R) /\ IsFiniteSet(holds \ R)
    BY <2>1, FS_Subset, FS_Difference
  <2>3. [h \in R |-> Ended(h, "released")] \in Surjection(R, E)
    BY DEF Surjection
  <2>4. IsFiniteSet(E)
    BY <2>2, <2>3, FS_Surjection
  <2>5. holds' = (holds \ R) \cup E
    BY <1>5 DEF ReleaseAll
  <2>6. IsFiniteSet(holds')
    BY <2>2, <2>4, <2>5, FS_Union
  <2>7. QED
    BY <1>5, <2>6 DEF ReleaseAll
<1>6. ASSUME NEW u \in Users, EraseUser(u)
      PROVE  FiniteTables'
  <2>1. /\ holds' \in SUBSET holds
        /\ ledger' \in SUBSET ledger
        /\ purchases' \in SUBSET purchases
    BY <1>6 DEF EraseUser
  <2>2. QED
    BY <2>1, FS_Subset
<1>7. ASSUME NEW u \in Users, EnsureWallet(u) PROVE FiniteTables'
  BY <1>7 DEF EnsureWallet
<1>8. ASSUME Tick PROVE FiniteTables'
  BY <1>8 DEF Tick
<1>9. ASSUME UNCHANGED walletVars PROVE FiniteTables'
  BY <1>9 DEF walletVars
<1>10. QED
  BY <1>1, <1>2, <1>3, <1>4, <1>5, <1>6, <1>7, <1>8, <1>9
  DEF WalletNext, UserStep, HoldStep, ReleaseHold, ReapExpiredHolds, ReapCutShort

\* The rows of a wallet are rows of its schema, whatever its callers do.
THEOREM WalletTypes == WalletSpec => [](WalletTypeOK /\ FiniteTables)
<1>1. WalletInit => WalletTypeOK /\ FiniteTables
  BY FS_EmptySet, WalletAssumption DEF WalletInit, WalletTypeOK, FiniteTables
<1>2. WalletTypeOK /\ FiniteTables /\ [WalletNext]_walletVars
        => (WalletTypeOK /\ FiniteTables)'
  BY TypeStep, TablesStep
<1>3. QED
  BY <1>1, <1>2, PTL DEF WalletSpec

-----------------------------------------------------------------------------
(* Solvency *)

\* What a user has reserved is a number, and each active hold is part of it.
LEMMA ActiveCredits ==
  ASSUME WalletTypeOK, FiniteTables, NEW u \in Users
  PROVE  /\ IsFiniteSet(Active(u))
         /\ Active(u) \subseteq Hold
         /\ \A h \in Active(u) : h.credits \in Nat
         /\ Credits(Active(u)) \in Nat
         /\ \A R \in SUBSET Active(u) :
              /\ Credits(R) \in Nat
              /\ Credits(Active(u)) = Credits(Active(u) \ R) + Credits(R)
              /\ Credits(Active(u) \ R) \in Nat
<1>1. Active(u) \in SUBSET holds
  BY DEF Active
<1>2. IsFiniteSet(Active(u))
  BY <1>1, FS_Subset DEF FiniteTables
<1>3. Active(u) \subseteq Hold /\ \A h \in Active(u) : h.credits \in Nat
  BY <1>1 DEF WalletTypeOK, Hold
<1>4. ASSUME NEW R \in SUBSET Active(u)
      PROVE  IsFiniteSet(R) /\ Credits(R) \in Nat
  <2>1. IsFiniteSet(R) /\ \A h \in R : h.credits \in Nat
    BY <1>2, <1>3, FS_Subset
  <2>2. QED
    BY <2>1, CreditsTable
<1>5. ASSUME NEW R \in SUBSET Active(u)
      PROVE  /\ Credits(Active(u)) = Credits(Active(u) \ R) + Credits(R)
             /\ Credits(Active(u) \ R) \in Nat
  BY <1>2, <1>3, <1>4, CreditsSplit
<1>6. QED
  BY <1>2, <1>3, <1>4, <1>5

\* What each operation does to the set of active holds of a user v.
LEMMA ActiveAfterPlace ==
  ASSUME WalletTypeOK, NEW u \in Users, NEW k \in HoldKeys, NEW c \in Amounts,
         PlaceHold(u, k, c), NEW v \in Users
  PROVE  LET row == [key |-> k, user |-> u, credits |-> c,
                     status |-> "active", expiresAt |-> now + HoldTtl]
         IN  /\ row \notin Active(u)
             /\ Active(v)' = IF v = u THEN Active(u) \cup {row} ELSE Active(v)
BY DEF PlaceHold, HoldReused, HoldsKeyed, Active

LEMMA ActiveAfterSettle ==
  ASSUME WalletTypeOK, NEW h \in holds, h.status = "active",
         holds' = (holds \ {h}) \cup {Ended(h, "settled")},
         NEW v \in Users
  PROVE  Active(v)' = IF v = h.user THEN Active(v) \ {h} ELSE Active(v)
<1>1. h \in Hold
  BY DEF WalletTypeOK
<1>2. Ended(h, "settled").status # "active"
  BY <1>1, EndedHold
<1>3. QED
  BY <1>2 DEF Active

LEMMA ActiveAfterRelease ==
  ASSUME WalletTypeOK, NEW H, ReleaseAll(H), NEW v \in Users
  PROVE  LET R == {h \in H \cap holds : h.status = "active" /\ h.user = v}
         IN  /\ R \in SUBSET Active(v)
             /\ Active(v)' = Active(v) \ R
             /\ held'[v] = held[v] - Credits(R)
<1> DEFINE A == {h \in H \cap holds : h.status = "active"}
           R == {h \in H \cap holds : h.status = "active" /\ h.user = v}
<1>1. \A h \in A : Ended(h, "released").status # "active"
  BY EndedHold DEF WalletTypeOK
<1>2. holds' = (holds \ A) \cup {Ended(h, "released") : h \in A}
  BY DEF ReleaseAll
<1>3. Active(v)' = Active(v) \ R
  BY <1>1, <1>2 DEF Active
<1>4. R = {g \in A : g.user = v}
  OBVIOUS
<1>5. held'[v] = held[v] - Credits({g \in A : g.user = v})
  BY DEF ReleaseAll, Credits
<1>6. QED
  BY <1>3, <1>4, <1>5 DEF Active

\* An operation keeps the held column equal to the active holds, and the
\* guards keep it below the balance.
LEMMA SolvencyStep ==
  ASSUME WalletTypeOK, FiniteTables, HeldIsActiveHolds, Solvent,
         [WalletNext]_walletVars
  PROVE  HeldIsActiveHolds' /\ Solvent'
<1> USE WalletAssumption
<1> DEFINE Sound(v) == /\ held[v] = Credits(Active(v))
                       /\ balance[v] >= 0 /\ held[v] >= 0 /\ held[v] <= balance[v]
<1> SUFFICES ASSUME NEW v \in Users
             PROVE  Sound(v)'
  BY DEF HeldIsActiveHolds, Solvent
<1>0. /\ Sound(v)
      /\ balance[v] \in Int /\ held[v] \in Int
  BY DEF HeldIsActiveHolds, Solvent, WalletTypeOK
<1>1. ASSUME NEW u \in Users, EnsureWallet(u)
      PROVE  Sound(v)'
  BY <1>0, <1>1 DEF EnsureWallet, Active
<1>2. ASSUME NEW u \in Users, EraseUser(u)
      PROVE  Sound(v)'
  <2>1. CASE v = u
    <3>1. Active(v)' = {}
      BY <1>2, <2>1 DEF EraseUser, Active
    <3>2. balance'[v] = 0 /\ held'[v] = 0
      BY <1>2, <2>1 DEF EraseUser, WalletTypeOK
    <3>3. Credits(Active(v))' = 0
      BY <3>1, CreditsEmpty DEF Credits
    <3>4. QED
      BY <3>2, <3>3
  <2>2. CASE v # u
    <3>1. Active(v)' = Active(v)
      BY <1>2, <2>2 DEF EraseUser, Active
    <3>2. balance'[v] = balance[v] /\ held'[v] = held[v]
      BY <1>2, <2>2 DEF EraseUser, WalletTypeOK
    <3>3. QED
      BY <1>0, <3>1, <3>2 DEF Credits
  <2>3. QED
    BY <2>1, <2>2
<1>3. ASSUME NEW u \in Users, NEW d \in Deltas, NEW ref \in Refs,
             CreditBalance(u, d, ref)
      PROVE  Sound(v)'
  <2>1. held' = held /\ Active(v)' = Active(v)
    BY <1>3 DEF CreditBalance, Active
  <2>2. \/ balance' = balance
        \/ /\ balance[u] + d >= held[u]
           /\ balance' = [balance EXCEPT ![u] = @ + d]
    BY <1>3 DEF CreditBalance
  <2>3. \/ balance'[v] = balance[v]
        \/ v = u /\ balance'[v] = balance[v] + d /\ balance[v] + d >= held[v]
    BY <2>2 DEF WalletTypeOK
  <2>4. d \in Int
    OBVIOUS
  <2>5. QED
    BY <1>0, <2>1, <2>3, <2>4 DEF Credits
<1>4. ASSUME NEW u \in Users, NEW k \in HoldKeys, NEW c \in Amounts,
             PlaceHold(u, k, c)
      PROVE  Sound(v)'
  <2> DEFINE row == [key |-> k, user |-> u, credits |-> c,
                     status |-> "active", expiresAt |-> now + HoldTtl]
  <2>1. /\ row \notin Active(u)
        /\ Active(v)' = IF v = u THEN Active(u) \cup {row} ELSE Active(v)
    BY <1>4, ActiveAfterPlace
  <2>2. c \in Nat /\ row.credits = c
    OBVIOUS
  <2>3. balance' = balance
    BY <1>4 DEF PlaceHold
  <2>4. CASE v = u
    <3>1. held'[v] = held[v] + c /\ balance[v] - held[v] >= c
      BY <1>4, <2>4 DEF PlaceHold, Available, WalletTypeOK
    <3>2. IsFiniteSet(Active(v)) /\ \A h \in Active(v) : h.credits \in Nat
      BY ActiveCredits
    <3> HIDE DEF row
    <3>3. Credits(Active(v) \cup {row}) = Credits(Active(v)) + row.credits
      BY <2>1, <2>2, <2>4, <3>2, CreditsInsert
    <3>4. Credits(Active(v))' = Credits(Active(v)) + c
      BY <2>1, <2>2, <2>4, <3>3 DEF Credits
    <3>5. QED
      BY <1>0, <2>2, <2>3, <3>1, <3>4
  <2>5. CASE v # u
    <3>1. held'[v] = held[v]
      BY <1>4, <2>5 DEF PlaceHold, WalletTypeOK
    <3>2. QED
      BY <1>0, <2>1, <2>3, <2>5, <3>1 DEF Credits
  <2>6. QED
    BY <2>4, <2>5
<1>5. ASSUME NEW u \in Users, NEW k \in HoldKeys, NEW c \in Amounts,
             NEW lk \in LedgerKeys, Refund(u, k, c, lk)
      PROVE  Sound(v)'
  <2>1. held' = held /\ Active(v)' = Active(v)
    BY <1>5 DEF Refund, Active
  <2>2. c \in Nat
    OBVIOUS
  <2>3. balance'[v] = balance[v] \/ balance'[v] = balance[v] + c
    BY <1>5 DEF Refund, WalletTypeOK
  <2>4. QED
    BY <1>0, <2>1, <2>2, <2>3 DEF Credits
<1>6. ASSUME NEW k \in HoldKeys, NEW c \in Amounts, NEW lk \in LedgerKeys,
             SettleHold(k, c, lk)
      PROVE  Sound(v)'
  <2> PICK h \in HoldsKeyed(k) :
        /\ h.status = "active"
        /\ balance' = [balance EXCEPT ![h.user] = @ - Debit(h, c)]
        /\ held' = [held EXCEPT ![h.user] = @ - h.credits]
        /\ holds' = (holds \ {h}) \cup {Ended(h, "settled")}
    BY <1>6 DEF SettleHold
  <2>1. h \in holds /\ h \in Hold /\ h.user \in Users /\ h.credits \in Nat
    BY DEF HoldsKeyed, WalletTypeOK, Hold
  <2>2. Debit(h, c) \in Nat /\ Debit(h, c) <= h.credits
    BY <2>1, DebitBounds
  <2>3. Active(v)' = IF v = h.user THEN Active(v) \ {h} ELSE Active(v)
    BY <2>1, ActiveAfterSettle
  <2>4. CASE v = h.user
    <3>1. balance'[v] = balance[v] - Debit(h, c) /\ held'[v] = held[v] - h.credits
      BY <2>4 DEF WalletTypeOK
    <3>2. {h} \in SUBSET Active(v)
      BY <2>1, <2>4 DEF Active
    <3>3. /\ Credits(Active(v)) = Credits(Active(v) \ {h}) + Credits({h})
          /\ Credits(Active(v) \ {h}) \in Nat
      BY <3>2, ActiveCredits
    <3>4. Credits({h}) = h.credits
      BY <2>1, CreditsSingle
    <3>5. Credits(Active(v))' = Credits(Active(v) \ {h})
      BY <2>3, <2>4 DEF Credits
    <3>6. QED
      BY <1>0, <2>1, <2>2, <3>1, <3>3, <3>4, <3>5
  <2>5. CASE v # h.user
    <3>1. balance'[v] = balance[v] /\ held'[v] = held[v]
      BY <2>5 DEF WalletTypeOK
    <3>2. QED
      BY <1>0, <2>3, <2>5, <3>1 DEF Credits
  <2>6. QED
    BY <2>4, <2>5
<1>7. ASSUME NEW H, ReleaseAll(H)
      PROVE  Sound(v)'
  <2> DEFINE R == {h \in H \cap holds : h.status = "active" /\ h.user = v}
  <2>1. /\ R \in SUBSET Active(v)
        /\ Active(v)' = Active(v) \ R
        /\ held'[v] = held[v] - Credits(R)
    BY <1>7, ActiveAfterRelease
  <2>2. balance' = balance
    BY <1>7 DEF ReleaseAll
  <2> HIDE DEF R
  <2>3. /\ Credits(R) \in Nat
        /\ Credits(Active(v)) = Credits(Active(v) \ R) + Credits(R)
        /\ Credits(Active(v) \ R) \in Nat
    BY <2>1, ActiveCredits
  <2>4. Credits(Active(v))' = Credits(Active(v) \ R)
    BY <2>1 DEF Credits
  <2>5. QED
    BY <1>0, <2>1, <2>2, <2>3, <2>4
<1>8. ASSUME Tick PROVE Sound(v)'
  BY <1>0, <1>8 DEF Tick, Active
<1>9. ASSUME UNCHANGED walletVars PROVE Sound(v)'
  BY <1>0, <1>9 DEF walletVars, Active
<1> HIDE DEF Sound
<1>10. QED
  BY <1>1, <1>2, <1>3, <1>4, <1>5, <1>6, <1>7, <1>8, <1>9
  DEF WalletNext, UserStep, HoldStep, ReleaseHold, ReapExpiredHolds, ReapCutShort

LEMMA SolvencyInit ==
  ASSUME WalletInit
  PROVE  HeldIsActiveHolds /\ Solvent
<1>1. ASSUME NEW u \in Users
      PROVE  held[u] = Credits(Active(u)) /\ balance[u] = 0 /\ held[u] = 0
  <2>1. Active(u) = {}
    BY DEF WalletInit, Active
  <2>2. Credits(Active(u)) = 0
    BY <2>1, CreditsEmpty
  <2>3. QED
    BY <2>2 DEF WalletInit
<1>2. QED
  BY <1>1 DEF HeldIsActiveHolds, Solvent

\* The inductive invariant.  Solvent alone is not inductive: settling or
\* releasing a hold takes its credits out of held, and held stays above zero
\* only because it is the sum of the active holds.
WalletInv == WalletTypeOK /\ FiniteTables /\ HeldIsActiveHolds /\ Solvent

THEOREM WalletInvariant == WalletSpec => []WalletInv
<1>1. WalletInit => HeldIsActiveHolds /\ Solvent
  BY SolvencyInit
<1>2. WalletTypeOK /\ FiniteTables /\ HeldIsActiveHolds /\ Solvent
        /\ [WalletNext]_walletVars => (HeldIsActiveHolds /\ Solvent)'
  BY SolvencyStep
<1>3. QED
  BY <1>1, <1>2, WalletTypes, PTL DEF WalletSpec, WalletInv

\* held is the sum of the active holds: no interleaving of calls loses a
\* reservation or gives one back twice.
COROLLARY WalletHeld == WalletSpec => []HeldIsActiveHolds
BY WalletInvariant, PTL DEF WalletInv

\* The CHECK constraint credit_wallets_solvent never fires.
COROLLARY WalletSolvent == WalletSpec => []Solvent
BY WalletInvariant, PTL DEF WalletInv

-----------------------------------------------------------------------------
(* How holds end *)

\* What a step of the wallet does to the rows of credit_holds.
LEMMA HoldRows ==
  ASSUME WalletTypeOK, [WalletNext]_walletVars
  PROVE  \/ UNCHANGED <<holds, accounts>>
         \/ \E u \in Users, k \in HoldKeys, c \in Amounts : PlaceHold(u, k, c)
         \/ \E h \in holds :
              /\ h.status = "active"
              /\ holds' = (holds \ {h}) \cup {Ended(h, "settled")}
              /\ UNCHANGED accounts
         \/ \E H : ReleaseAll(H)
         \/ \E u \in Users : EraseUser(u)
<1>1. ASSUME NEW u \in Users, UserStep(u)
      PROVE  \/ UNCHANGED <<holds, accounts>>
             \/ \E k \in HoldKeys, c \in Amounts : PlaceHold(u, k, c)
             \/ EraseUser(u)
  BY <1>1 DEF UserStep, EnsureWallet, CreditBalance, Refund
<1>2. ASSUME NEW k \in HoldKeys, HoldStep(k)
      PROVE  \/ \E h \in holds :
                  /\ h.status = "active"
                  /\ holds' = (holds \ {h}) \cup {Ended(h, "settled")}
                  /\ UNCHANGED accounts
             \/ \E H : ReleaseAll(H)
  BY <1>2 DEF HoldStep, SettleHold, ReleaseHold, HoldsKeyed
<1>3. ReapExpiredHolds \/ ReapCutShort => \E H : ReleaseAll(H)
  BY DEF ReapExpiredHolds, ReapCutShort
<1>4. Tick \/ UNCHANGED walletVars => UNCHANGED <<holds, accounts>>
  BY DEF Tick, walletVars
<1>5. QED
  BY <1>1, <1>2, <1>3, <1>4 DEF WalletNext

\* credit_holds.idempotency_key is UNIQUE: no step would break the index.
HoldKeysUnique == \A g, h \in holds : g.key = h.key => g = h

LEMMA HoldKeysStep ==
  ASSUME WalletTypeOK, HoldKeysUnique, [WalletNext]_walletVars
  PROVE  HoldKeysUnique'
<1> USE DEF HoldKeysUnique
<1>1. ASSUME NEW u \in Users, NEW k \in HoldKeys, NEW c \in Amounts, PlaceHold(u, k, c)
      PROVE  HoldKeysUnique'
  BY <1>1 DEF PlaceHold, HoldReused, HoldsKeyed
<1>2. ASSUME NEW h \in holds, holds' = (holds \ {h}) \cup {Ended(h, "settled")}
      PROVE  HoldKeysUnique'
  BY <1>2, EndedHold DEF WalletTypeOK
<1>3. ASSUME NEW H, ReleaseAll(H)
      PROVE  HoldKeysUnique'
  <2> DEFINE R == {h \in H \cap holds : h.status = "active"}
  <2>1. holds' = (holds \ R) \cup {Ended(h, "released") : h \in R}
    BY <1>3 DEF ReleaseAll
  <2>2. \A h \in R : Ended(h, "released").key = h.key
    BY EndedHold DEF WalletTypeOK
  <2>3. QED
    BY <2>1, <2>2
<1>4. ASSUME NEW u \in Users, EraseUser(u)
      PROVE  HoldKeysUnique'
  BY <1>4 DEF EraseUser
<1>5. UNCHANGED <<holds, accounts>> => HoldKeysUnique'
  OBVIOUS
<1>6. QED
  BY <1>1, <1>2, <1>3, <1>4, <1>5, HoldRows

\* A late settle, release or reap never changes how a hold ended.
THEOREM WalletHoldsEndOnce == WalletSpec => HoldsEndOnce
<1>1. ASSUME WalletTypeOK, [WalletNext]_walletVars, NEW h \in holds, h.status # "active"
      PROVE  h \in holds' \/ h.user \notin accounts'
  <2>1. ASSUME NEW u \in Users, NEW k \in HoldKeys, NEW c \in Amounts, PlaceHold(u, k, c)
        PROVE  h \in holds'
    BY <2>1 DEF PlaceHold
  <2>2. ASSUME NEW g \in holds, g.status = "active",
               holds' = (holds \ {g}) \cup {Ended(g, "settled")}
        PROVE  h \in holds'
    BY <1>1, <2>2
  <2>3. ASSUME NEW H, ReleaseAll(H)
        PROVE  h \in holds'
    BY <1>1, <2>3 DEF ReleaseAll
  <2>4. ASSUME NEW u \in Users, EraseUser(u)
        PROVE  h \in holds' \/ h.user \notin accounts'
    BY <1>1, <2>4 DEF EraseUser
  <2>5. QED
    BY <1>1, <2>1, <2>2, <2>3, <2>4, HoldRows
<1>2. WalletTypeOK /\ [WalletNext]_walletVars =>
        [\A h \in holds :
           h.status # "active" => h \in holds' \/ h.user \notin accounts']_walletVars
  BY <1>1
<1>3. QED
  BY <1>2, WalletTypes, PTL DEF WalletSpec, HoldsEndOnce

-----------------------------------------------------------------------------
(* The two append-only ledgers: what a hold is charged, what a user gets back *)
(* on a day, and that the balance is what the ledgers say it is               *)

\* The steps that write to a ledger, the balance or the refund counters.
LEMMA LedgerSteps ==
  ASSUME [WalletNext]_walletVars
  PROVE  \/ UNCHANGED <<balance, ledger, purchases, refunds>>
         \/ \E u \in Users, d \in Deltas, ref \in Refs : CreditBalance(u, d, ref)
         \/ \E u \in Users, k \in HoldKeys, c \in Amounts, lk \in LedgerKeys :
              Refund(u, k, c, lk)
         \/ \E k \in HoldKeys, c \in Amounts, lk \in LedgerKeys : SettleHold(k, c, lk)
         \/ \E u \in Users : EraseUser(u)
<1>1. ASSUME NEW u \in Users, UserStep(u)
      PROVE  \/ UNCHANGED <<balance, ledger, purchases, refunds>>
             \/ \E d \in Deltas, ref \in Refs : CreditBalance(u, d, ref)
             \/ \E k \in HoldKeys, c \in Amounts, lk \in LedgerKeys : Refund(u, k, c, lk)
             \/ EraseUser(u)
  BY <1>1 DEF UserStep, EnsureWallet, PlaceHold
<1>2. ASSUME NEW k \in HoldKeys, HoldStep(k)
      PROVE  \/ UNCHANGED <<balance, ledger, purchases, refunds>>
             \/ \E c \in Amounts, lk \in LedgerKeys : SettleHold(k, c, lk)
  BY <1>2 DEF HoldStep, ReleaseHold, ReleaseAll
<1>3. ReapExpiredHolds \/ ReapCutShort \/ Tick \/ UNCHANGED walletVars
        => UNCHANGED <<balance, ledger, purchases, refunds>>
  BY DEF ReapExpiredHolds, ReapCutShort, ReleaseAll, Tick, walletVars
<1>4. QED
  BY <1>1, <1>2, <1>3 DEF WalletNext

\* What SettleHold writes, with the row it settles named.
LEMMA SettleWrites ==
  ASSUME WalletTypeOK, NEW k \in HoldKeys, NEW c \in Amounts, NEW lk \in LedgerKeys,
         SettleHold(k, c, lk)
  PROVE  \E h \in holds, n \in Nat :
           LET row == [key |-> lk, user |-> h.user, hold |-> k, kind |-> "chat",
                       charged |-> n, day |-> Today]
           IN  /\ h \in Hold /\ h.key = k /\ h.status = "active" /\ n <= h.credits
               /\ balance' = [balance EXCEPT ![h.user] = @ - n]
               /\ holds' = (holds \ {h}) \cup {Ended(h, "settled")}
               /\ row \notin ledger
               /\ ledger' = ledger \cup {row}
               /\ UNCHANGED <<accounts, purchases, refunds>>
<1> PICK h \in HoldsKeyed(k) :
      /\ h.status = "active"
      /\ balance' = [balance EXCEPT ![h.user] = @ - Debit(h, c)]
      /\ holds' = (holds \ {h}) \cup {Ended(h, "settled")}
      /\ ledger' = ledger \cup
           {[key |-> lk, user |-> h.user, hold |-> k, kind |-> "chat",
             charged |-> Debit(h, c), day |-> Today]}
  BY DEF SettleHold
<1>1. h \in holds /\ h.key = k /\ h \in Hold
  BY DEF HoldsKeyed, WalletTypeOK
<1>2. Debit(h, c) \in Nat /\ Debit(h, c) <= h.credits
  BY <1>1, DebitBounds
<1>3. [key |-> lk, user |-> h.user, hold |-> k, kind |-> "chat",
       charged |-> Debit(h, c), day |-> Today] \notin ledger
  BY DEF SettleHold, RowsKeyed
<1>4. UNCHANGED <<accounts, purchases, refunds>>
  BY DEF SettleHold
<1>5. QED
  BY <1>1, <1>2, <1>3, <1>4

-----------------------------------------------------------------------------
(* What a hold is charged *)

\* Every charge names a hold of the user it charges.  Without it a hold
\* placed under a key that a charge already names would be born charged.
ChargesHaveHolds ==
  \A r \in ledger :
    r.kind = "chat" => \E h \in holds : h.key = r.hold /\ h.user = r.user

ChargeInv == HoldKeysUnique /\ ChargesHaveHolds /\ ChargedOncePerHold

LEMMA ChargeSettle ==
  ASSUME WalletTypeOK, ChargeInv, NEW k \in HoldKeys, NEW c \in Amounts,
         NEW lk \in LedgerKeys, SettleHold(k, c, lk)
  PROVE  ChargesHaveHolds' /\ ChargedOncePerHold'
<1> USE DEF ChargeInv
<1> PICK h \in holds, n \in Nat :
      LET row == [key |-> lk, user |-> h.user, hold |-> k, kind |-> "chat",
                  charged |-> n, day |-> Today]
      IN  /\ h \in Hold /\ h.key = k /\ h.status = "active" /\ n <= h.credits
          /\ balance' = [balance EXCEPT ![h.user] = @ - n]
          /\ holds' = (holds \ {h}) \cup {Ended(h, "settled")}
          /\ row \notin ledger
          /\ ledger' = ledger \cup {row}
          /\ UNCHANGED <<accounts, purchases, refunds>>
  BY SettleWrites
<1> DEFINE row == [key |-> lk, user |-> h.user, hold |-> k, kind |-> "chat",
                   charged |-> n, day |-> Today]
           e == Ended(h, "settled")
<1>1. e.key = h.key /\ e.user = h.user /\ e.credits = h.credits /\ e.status = "settled"
  BY EndedHold
<1>2. row.kind = "chat" /\ row.hold = h.key /\ row.user = h.user /\ row.charged = n
  OBVIOUS
<1>3. holds' = (holds \ {h}) \cup {e} /\ ledger' = ledger \cup {row}
  OBVIOUS
<1> HIDE DEF row, e
<1>4. ChargesHaveHolds'
  <2> SUFFICES ASSUME NEW r \in ledger', r.kind = "chat"
               PROVE  \E g \in holds' : g.key = r.hold /\ g.user = r.user
    BY DEF ChargesHaveHolds
  <2>1. PICK g \in holds : g.key = r.hold /\ g.user = r.user
    BY <1>2, <1>3 DEF ChargesHaveHolds
  <2>2. QED
    BY <2>1, <1>1, <1>3
<1>5. ChargeRows(h) = {}
  BY DEF ChargedOncePerHold
<1>6. ASSUME NEW g \in holds'
      PROVE  /\ g.status = "settled" <=> ChargeRows(g)' # {}
             /\ \A r, s \in ChargeRows(g)' : r = s
             /\ \A r \in ChargeRows(g)' : r.charged <= g.credits /\ r.user = g.user
  <2>1. CASE g = e
    <3>1. ChargeRows(g)' = {row}
      BY <1>1, <1>2, <1>3, <1>5, <2>1 DEF ChargeRows
    <3>2. QED
      BY <1>1, <1>2, <2>1, <3>1
  <2>2. CASE g \in holds \ {h}
    <3>1. g.key # h.key
      BY <2>2 DEF HoldKeysUnique
    <3>2. ChargeRows(g)' = ChargeRows(g)
      BY <1>2, <1>3, <3>1 DEF ChargeRows
    <3>3. QED
      BY <2>2, <3>2 DEF ChargedOncePerHold
  <2>3. QED
    BY <1>3, <2>1, <2>2
<1>7. QED
  BY <1>4, <1>6 DEF ChargedOncePerHold, ChargeRows

LEMMA ChargeStep ==
  ASSUME WalletTypeOK, ChargeInv, [WalletNext]_walletVars
  PROVE  ChargeInv'
<1>0. HoldKeysUnique' /\ HoldKeysUnique /\ ChargesHaveHolds /\ ChargedOncePerHold
  BY HoldKeysStep DEF ChargeInv
<1>1. ASSUME NEW u \in Users, NEW k \in HoldKeys, NEW c \in Amounts, PlaceHold(u, k, c)
      PROVE  ChargesHaveHolds' /\ ChargedOncePerHold'
  <2> DEFINE row == [key |-> k, user |-> u, credits |-> c, status |-> "active",
                     expiresAt |-> now + HoldTtl]
  <2>1. holds' = holds \cup {row} /\ ledger' = ledger /\ HoldsKeyed(k) = {}
    BY <1>1 DEF PlaceHold, HoldReused
  <2>2. row.key = k /\ row.status = "active"
    OBVIOUS
  <2> HIDE DEF row
  <2>3. ChargeRows(row) = {}
    BY <1>0, <2>1, <2>2 DEF ChargeRows, ChargesHaveHolds, HoldsKeyed
  <2>4. \A g \in holds' : ChargeRows(g)' = ChargeRows(g)
    BY <2>1 DEF ChargeRows
  <2>5. QED
    BY <1>0, <2>1, <2>2, <2>3, <2>4 DEF ChargesHaveHolds, ChargedOncePerHold
<1>2. ASSUME NEW k \in HoldKeys, NEW c \in Amounts, NEW lk \in LedgerKeys,
             SettleHold(k, c, lk)
      PROVE  ChargesHaveHolds' /\ ChargedOncePerHold'
  BY <1>2, ChargeSettle
<1>3. ASSUME NEW H, ReleaseAll(H)
      PROVE  ChargesHaveHolds' /\ ChargedOncePerHold'
  <2> DEFINE R == {h \in H \cap holds : h.status = "active"}
  <2>1. holds' = (holds \ R) \cup {Ended(h, "released") : h \in R} /\ ledger' = ledger
    BY <1>3 DEF ReleaseAll
  <2>2. \A h \in R : /\ h \in holds /\ h.status = "active"
                     /\ Ended(h, "released").key = h.key
                     /\ Ended(h, "released").user = h.user
                     /\ Ended(h, "released").credits = h.credits
                     /\ Ended(h, "released").status = "released"
    BY EndedHold DEF WalletTypeOK
  <2> HIDE DEF R
  <2>3. ChargesHaveHolds'
    <3> SUFFICES ASSUME NEW r \in ledger, r.kind = "chat"
                 PROVE  \E g \in holds' : g.key = r.hold /\ g.user = r.user
      BY <2>1 DEF ChargesHaveHolds
    <3>1. PICK g \in holds : g.key = r.hold /\ g.user = r.user
      BY <1>0 DEF ChargesHaveHolds
    <3>2. CASE g \in R
      BY <2>1, <2>2, <3>1, <3>2
    <3>3. CASE g \notin R
      BY <2>1, <3>1, <3>3
    <3>4. QED
      BY <3>2, <3>3
  <2>4. \A h \in R : ChargeRows(Ended(h, "released"))' = {}
    BY <1>0, <2>1, <2>2 DEF ChargedOncePerHold, ChargeRows
  <2>5. \A h \in holds : ChargeRows(h)' = ChargeRows(h)
    BY <2>1 DEF ChargeRows
  <2>6. ASSUME NEW g \in holds'
        PROVE  /\ g.status = "settled" <=> ChargeRows(g)' # {}
               /\ \A r, s \in ChargeRows(g)' : r = s
               /\ \A r \in ChargeRows(g)' : r.charged <= g.credits /\ r.user = g.user
    <3>1. CASE g \in holds \ R
      BY <1>0, <2>5, <3>1 DEF ChargedOncePerHold
    <3>2. CASE g \in {Ended(h, "released") : h \in R}
      BY <2>2, <2>4, <3>2
    <3>3. QED
      BY <2>1, <3>1, <3>2
  <2>7. QED
    BY <2>3, <2>6 DEF ChargedOncePerHold, ChargeRows
<1>4. ASSUME NEW u \in Users, EraseUser(u)
      PROVE  ChargesHaveHolds' /\ ChargedOncePerHold'
  <2>1. /\ holds' = {h \in holds : h.user # u}
        /\ ledger' = {r \in ledger : r.user # u}
    BY <1>4 DEF EraseUser
  <2>2. ASSUME NEW h \in holds, h.user # u
        PROVE  ChargeRows(h)' = ChargeRows(h)
    BY <1>0, <2>1, <2>2 DEF ChargedOncePerHold, ChargeRows
  <2>3. QED
    BY <1>0, <2>1, <2>2 DEF ChargesHaveHolds, ChargedOncePerHold
<1>5. ASSUME UNCHANGED holds, ledger \subseteq ledger',
             \A r \in ledger' : r.kind = "chat" => r \in ledger
      PROVE  ChargesHaveHolds' /\ ChargedOncePerHold'
  <2>1. \A h \in holds : ChargeRows(h)' = ChargeRows(h)
    BY <1>5 DEF ChargeRows
  <2>2. QED
    BY <1>0, <1>5, <2>1 DEF ChargesHaveHolds, ChargedOncePerHold
<1>6. ASSUME NEW u \in Users, NEW k \in HoldKeys, NEW c \in Amounts,
             NEW lk \in LedgerKeys, Refund(u, k, c, lk)
      PROVE  ChargesHaveHolds' /\ ChargedOncePerHold'
  <2> DEFINE row == [key |-> lk, user |-> u, hold |-> k, kind |-> "refund",
                     charged |-> -c, day |-> Today]
  <2>1. UNCHANGED holds /\ ledger' = ledger \cup {row}
    BY <1>6 DEF Refund
  <2>2. row.kind # "chat"
    OBVIOUS
  <2> HIDE DEF row
  <2>3. QED
    BY <1>5, <2>1, <2>2
<1>7. ASSUME UNCHANGED <<holds, ledger>>
      PROVE  ChargesHaveHolds' /\ ChargedOncePerHold'
  BY <1>5, <1>7
<1>8. ASSUME NEW u \in Users, UserStep(u)
      PROVE  ChargesHaveHolds' /\ ChargedOncePerHold'
  BY <1>1, <1>4, <1>6, <1>7, <1>8 DEF UserStep, EnsureWallet, CreditBalance
<1>9. QED
  BY <1>0, <1>2, <1>3, <1>7, <1>8
  DEF ChargeInv, WalletNext, HoldStep, ReleaseHold, ReapExpiredHolds, ReapCutShort,
      Tick, walletVars

\* A hold is charged once, under whatever keys its settlement is retried,
\* for no more than it reserved, and only when it is settled.
THEOREM WalletCharges == WalletSpec => []ChargeInv
<1>1. WalletInit => ChargeInv
  BY DEF WalletInit, ChargeInv, HoldKeysUnique, ChargesHaveHolds, ChargedOncePerHold
<1>2. WalletTypeOK /\ ChargeInv /\ [WalletNext]_walletVars => ChargeInv'
  BY ChargeStep
<1>3. QED
  BY <1>1, <1>2, WalletTypes, PTL DEF WalletSpec

COROLLARY WalletChargesOnce == WalletSpec => []ChargedOncePerHold
BY WalletCharges, PTL DEF ChargeInv

-----------------------------------------------------------------------------
(* The balance and the two ledgers *)

\* What a set of rows brought into a wallet and what it took out of it.
GrantSum(S) == Total([p \in S |-> p.delta])
ReversalSum(S) == Total([p \in S |-> -p.delta])
ChargeSum(S) == Total([r \in S |-> r.charged])
ReturnSum(S) == Total([r \in S |-> -r.charged])

LEMMA LedgerSumsEmpty ==
  GrantSum({}) = 0 /\ ReversalSum({}) = 0 /\ ChargeSum({}) = 0 /\ ReturnSum({}) = 0
BY TotalEmpty DEF GrantSum, ReversalSum, ChargeSum, ReturnSum

\* A sum over a table of rows grows by a fresh row's share.
LEMMA WeightInsert ==
  ASSUME NEW f, NEW S, NEW x, IsFiniteSet(S), x \notin S,
         f = [r \in S \cup {x} |-> f[r]],
         \A r \in S \cup {x} : f[r] \in Nat
  PROVE  /\ Total([r \in S |-> f[r]]) \in Nat
         /\ Total(f) = Total([r \in S |-> f[r]]) + f[x]
<1> DEFINE g == [r \in S |-> f[r]]
<1>1. DOMAIN f = S \cup {x} /\ DOMAIN g = S /\ \A r \in S : g[r] = f[r]
  OBVIOUS
<1>2. Table(f)
  BY <1>1, FS_AddElement DEF Table
<1>3. Table(g)
  BY <1>1 DEF Table
<1> HIDE DEF g
<1>4. Total(g) \in Nat
  BY <1>3, UnitsFinite
<1>5. Total(f) = Total(g) + f[x]
  BY <1>1, <1>2, <1>3, TotalInsert
<1>6. QED
  BY <1>4, <1>5 DEF g

LEMMA GrantInsert ==
  ASSUME NEW S, IsFiniteSet(S), NEW x, x \notin S,
         \A p \in S \cup {x} : p.delta \in Nat
  PROVE  GrantSum(S) \in Nat /\ GrantSum(S \cup {x}) = GrantSum(S) + x.delta
<1> DEFINE f == [p \in S \cup {x} |-> p.delta]
<1>1. f = [p \in S \cup {x} |-> f[p]] /\ \A p \in S \cup {x} : f[p] \in Nat
  OBVIOUS
<1>2. [p \in S |-> f[p]] = [p \in S |-> p.delta] /\ f[x] = x.delta
  OBVIOUS
<1> HIDE DEF f
<1>3. Total([p \in S |-> f[p]]) \in Nat /\ Total(f) = Total([p \in S |-> f[p]]) + f[x]
  BY <1>1, WeightInsert
<1>4. QED
  BY <1>2, <1>3 DEF f, GrantSum

LEMMA ReversalInsert ==
  ASSUME NEW S, IsFiniteSet(S), NEW x, x \notin S,
         \A p \in S \cup {x} : -p.delta \in Nat
  PROVE  ReversalSum(S) \in Nat /\ ReversalSum(S \cup {x}) = ReversalSum(S) + (-x.delta)
<1> DEFINE f == [p \in S \cup {x} |-> -p.delta]
<1>1. f = [p \in S \cup {x} |-> f[p]] /\ \A p \in S \cup {x} : f[p] \in Nat
  OBVIOUS
<1>2. [p \in S |-> f[p]] = [p \in S |-> -p.delta] /\ f[x] = -x.delta
  OBVIOUS
<1> HIDE DEF f
<1>3. Total([p \in S |-> f[p]]) \in Nat /\ Total(f) = Total([p \in S |-> f[p]]) + f[x]
  BY <1>1, WeightInsert
<1>4. QED
  BY <1>2, <1>3 DEF f, ReversalSum

LEMMA ChargeInsert ==
  ASSUME NEW S, IsFiniteSet(S), NEW x, x \notin S,
         \A r \in S \cup {x} : r.charged \in Nat
  PROVE  ChargeSum(S) \in Nat /\ ChargeSum(S \cup {x}) = ChargeSum(S) + x.charged
<1> DEFINE f == [r \in S \cup {x} |-> r.charged]
<1>1. f = [r \in S \cup {x} |-> f[r]] /\ \A r \in S \cup {x} : f[r] \in Nat
  OBVIOUS
<1>2. [r \in S |-> f[r]] = [r \in S |-> r.charged] /\ f[x] = x.charged
  OBVIOUS
<1> HIDE DEF f
<1>3. Total([r \in S |-> f[r]]) \in Nat /\ Total(f) = Total([r \in S |-> f[r]]) + f[x]
  BY <1>1, WeightInsert
<1>4. QED
  BY <1>2, <1>3 DEF f, ChargeSum

LEMMA ReturnInsert ==
  ASSUME NEW S, IsFiniteSet(S), NEW x, x \notin S,
         \A r \in S \cup {x} : -r.charged \in Nat
  PROVE  ReturnSum(S) \in Nat /\ ReturnSum(S \cup {x}) = ReturnSum(S) + (-x.charged)
<1> DEFINE f == [r \in S \cup {x} |-> -r.charged]
<1>1. f = [r \in S \cup {x} |-> f[r]] /\ \A r \in S \cup {x} : f[r] \in Nat
  OBVIOUS
<1>2. [r \in S |-> f[r]] = [r \in S |-> -r.charged] /\ f[x] = -x.charged
  OBVIOUS
<1> HIDE DEF f
<1>3. Total([r \in S |-> f[r]]) \in Nat /\ Total(f) = Total([r \in S |-> f[r]]) + f[x]
  BY <1>1, WeightInsert
<1>4. QED
  BY <1>2, <1>3 DEF f, ReturnSum

\* The rows a wallet's sums range over are finitely many rows of one sign.
LEMMA LedgerSums ==
  ASSUME WalletTypeOK, FiniteTables, NEW u \in Users
  PROVE  /\ IsFiniteSet(Grants(u)) /\ \A p \in Grants(u) : p.delta \in Nat
         /\ IsFiniteSet(Reversals(u)) /\ \A p \in Reversals(u) : -p.delta \in Nat
         /\ IsFiniteSet(Charges(u)) /\ \A r \in Charges(u) : r.charged \in Nat
         /\ IsFiniteSet(Returns(u)) /\ \A r \in Returns(u) : -r.charged \in Nat
         /\ GrantSum(Grants(u)) \in Nat /\ ReversalSum(Reversals(u)) \in Nat
         /\ ChargeSum(Charges(u)) \in Nat /\ ReturnSum(Returns(u)) \in Nat
<1>1. /\ Grants(u) \in SUBSET purchases /\ Reversals(u) \in SUBSET purchases
      /\ Charges(u) \in SUBSET ledger /\ Returns(u) \in SUBSET ledger
  BY DEF Grants, Reversals, Charges, Returns
<1>2. /\ IsFiniteSet(Grants(u)) /\ IsFiniteSet(Reversals(u))
      /\ IsFiniteSet(Charges(u)) /\ IsFiniteSet(Returns(u))
  BY <1>1, FS_Subset DEF FiniteTables
<1>3. /\ \A p \in purchases : p.delta \in Int
      /\ \A r \in ledger : r.charged \in Int
  BY DEF WalletTypeOK, Purchase, LedgerRow
<1>4. /\ \A p \in Grants(u) : p.delta \in Nat
      /\ \A p \in Reversals(u) : -p.delta \in Nat
      /\ \A r \in Charges(u) : r.charged \in Nat
      /\ \A r \in Returns(u) : -r.charged \in Nat
  BY <1>3 DEF Grants, Reversals, Charges, Returns
<1>5. /\ Table([p \in Grants(u) |-> p.delta])
      /\ Table([p \in Reversals(u) |-> -p.delta])
      /\ Table([r \in Charges(u) |-> r.charged])
      /\ Table([r \in Returns(u) |-> -r.charged])
  BY <1>2, <1>4 DEF Table
<1>6. /\ GrantSum(Grants(u)) \in Nat /\ ReversalSum(Reversals(u)) \in Nat
      /\ ChargeSum(Charges(u)) \in Nat /\ ReturnSum(Returns(u)) \in Nat
  BY <1>5, UnitsFinite DEF GrantSum, ReversalSum, ChargeSum, ReturnSum
<1>7. QED
  BY <1>2, <1>4, <1>6

\* What the balance of user v is reconciled with.
Reconciled(v) ==
  GrantSum(Grants(v)) - ReversalSum(Reversals(v)) - ChargeSum(Charges(v)) + ReturnSum(Returns(v))

\* Rows of one table, with the other unchanged, move the balance by their worth.
LEMMA ReconcileGrant ==
  ASSUME WalletTypeOK, FiniteTables, NEW v \in Users, NEW p \in Purchase,
         p \notin purchases, purchases' = purchases \cup {p}, UNCHANGED ledger
  PROVE  Reconciled(v)' = Reconciled(v) + (IF p.user = v THEN p.delta ELSE 0)
<1>1. p.delta \in Int /\ Charges(v)' = Charges(v) /\ Returns(v)' = Returns(v)
  BY DEF Purchase, Charges, Returns
<1>2. CASE p.user = v /\ p.delta > 0
  <2>1. /\ Grants(v)' = Grants(v) \cup {p} /\ p \notin Grants(v)
        /\ Reversals(v)' = Reversals(v)
    BY <1>1, <1>2 DEF Grants, Reversals
  <2>2. GrantSum(Grants(v) \cup {p}) = GrantSum(Grants(v)) + p.delta
    BY <1>1, <1>2, <2>1, LedgerSums, GrantInsert
  <2>3. QED
    BY <1>1, <1>2, <2>1, <2>2, LedgerSums
    DEF Reconciled, GrantSum, ReversalSum, ChargeSum, ReturnSum
<1>3. CASE p.user = v /\ p.delta < 0
  <2>1. /\ Reversals(v)' = Reversals(v) \cup {p} /\ p \notin Reversals(v)
        /\ Grants(v)' = Grants(v)
    BY <1>1, <1>3 DEF Grants, Reversals
  <2>2. ReversalSum(Reversals(v) \cup {p}) = ReversalSum(Reversals(v)) + (-p.delta)
    BY <1>1, <1>3, <2>1, LedgerSums, ReversalInsert
  <2>3. QED
    BY <1>1, <1>3, <2>1, <2>2, LedgerSums
    DEF Reconciled, GrantSum, ReversalSum, ChargeSum, ReturnSum
<1>4. CASE p.user # v \/ p.delta = 0
  <2>1. Grants(v)' = Grants(v) /\ Reversals(v)' = Reversals(v)
    BY <1>1, <1>4 DEF Grants, Reversals
  <2>2. QED
    BY <1>1, <1>4, <2>1, LedgerSums
    DEF Reconciled, GrantSum, ReversalSum, ChargeSum, ReturnSum
<1>5. QED
  BY <1>1, <1>2, <1>3, <1>4

LEMMA ReconcileCharge ==
  ASSUME WalletTypeOK, FiniteTables, NEW v \in Users, NEW r \in LedgerRow,
         r \notin ledger, ledger' = ledger \cup {r}, UNCHANGED purchases
  PROVE  Reconciled(v)' = Reconciled(v) - (IF r.user = v THEN r.charged ELSE 0)
<1>1. r.charged \in Int /\ Grants(v)' = Grants(v) /\ Reversals(v)' = Reversals(v)
  BY DEF LedgerRow, Grants, Reversals
<1>2. CASE r.user = v /\ r.charged > 0
  <2>1. /\ Charges(v)' = Charges(v) \cup {r} /\ r \notin Charges(v)
        /\ Returns(v)' = Returns(v)
    BY <1>1, <1>2 DEF Charges, Returns
  <2>2. ChargeSum(Charges(v) \cup {r}) = ChargeSum(Charges(v)) + r.charged
    BY <1>1, <1>2, <2>1, LedgerSums, ChargeInsert
  <2>3. QED
    BY <1>1, <1>2, <2>1, <2>2, LedgerSums
    DEF Reconciled, GrantSum, ReversalSum, ChargeSum, ReturnSum
<1>3. CASE r.user = v /\ r.charged < 0
  <2>1. /\ Returns(v)' = Returns(v) \cup {r} /\ r \notin Returns(v)
        /\ Charges(v)' = Charges(v)
    BY <1>1, <1>3 DEF Charges, Returns
  <2>2. ReturnSum(Returns(v) \cup {r}) = ReturnSum(Returns(v)) + (-r.charged)
    BY <1>1, <1>3, <2>1, LedgerSums, ReturnInsert
  <2>3. QED
    BY <1>1, <1>3, <2>1, <2>2, LedgerSums
    DEF Reconciled, GrantSum, ReversalSum, ChargeSum, ReturnSum
<1>4. CASE r.user # v \/ r.charged = 0
  <2>1. Charges(v)' = Charges(v) /\ Returns(v)' = Returns(v)
    BY <1>1, <1>4 DEF Charges, Returns
  <2>2. QED
    BY <1>1, <1>4, <2>1, LedgerSums
    DEF Reconciled, GrantSum, ReversalSum, ChargeSum, ReturnSum
<1>5. QED
  BY <1>1, <1>2, <1>3, <1>4

LEMMA ReconcilesStep ==
  ASSUME WalletTypeOK, FiniteTables, Reconciles, [WalletNext]_walletVars
  PROVE  Reconciles'
<1> USE WalletAssumption
<1> SUFFICES ASSUME NEW v \in Users
             PROVE  balance'[v] = Reconciled(v)'
  BY DEF Reconciles, Reconciled, GrantSum, ReversalSum, ChargeSum, ReturnSum
<1>0. balance[v] = Reconciled(v) /\ balance[v] \in Int
  BY DEF Reconciles, Reconciled, GrantSum, ReversalSum, ChargeSum, ReturnSum, WalletTypeOK
<1>1. ASSUME UNCHANGED <<balance, ledger, purchases>>
      PROVE  balance'[v] = Reconciled(v)'
  BY <1>0, <1>1 DEF Reconciled, Grants, Reversals, Charges, Returns,
                    GrantSum, ReversalSum, ChargeSum, ReturnSum
<1>2. ASSUME NEW u \in Users, NEW d \in Deltas, NEW ref \in Refs,
             CreditBalance(u, d, ref)
      PROVE  balance'[v] = Reconciled(v)'
  <2> DEFINE p == [ref |-> ref, user |-> u, delta |-> d]
  <2>1. CASE balance[u] + d >= held[u]
    <3>1. /\ balance' = [balance EXCEPT ![u] = @ + d]
          /\ purchases' = purchases \cup {p}
          /\ ledger' = ledger
      BY <1>2, <2>1 DEF CreditBalance
    <3>2. p \in Purchase /\ p.user = u /\ p.delta = d /\ d \in Int
      BY DEF Purchase
    <3>3. p \notin purchases
      BY <1>2 DEF CreditBalance, GrantsKeyed
    <3> HIDE DEF p
    <3>4. Reconciled(v)' = Reconciled(v) + (IF p.user = v THEN p.delta ELSE 0)
      BY <3>1, <3>2, <3>3, ReconcileGrant
    <3>5. balance'[v] = balance[v] + (IF u = v THEN d ELSE 0)
      BY <1>0, <3>1, <3>2 DEF WalletTypeOK
    <3>6. QED
      BY <1>0, <3>2, <3>4, <3>5
  <2>2. CASE ~(balance[u] + d >= held[u])
    BY <1>1, <1>2, <2>2 DEF CreditBalance
  <2>3. QED
    BY <2>1, <2>2
<1>3. ASSUME NEW u \in Users, NEW k \in HoldKeys, NEW c \in Amounts,
             NEW lk \in LedgerKeys, Refund(u, k, c, lk)
      PROVE  balance'[v] = Reconciled(v)'
  <2> DEFINE row == [key |-> lk, user |-> u, hold |-> k, kind |-> "refund",
                     charged |-> -c, day |-> Today]
  <2>1. /\ balance' = [balance EXCEPT ![u] = @ + c]
        /\ ledger' = ledger \cup {row}
        /\ purchases' = purchases
    BY <1>3 DEF Refund
  <2>2. row \in LedgerRow /\ row.user = u /\ row.charged = -c /\ c \in Nat
    BY TodayInRange DEF LedgerRow, WalletTypeOK
  <2>3. row \notin ledger
    BY <1>3 DEF Refund, RowsKeyed
  <2> HIDE DEF row
  <2>4. Reconciled(v)' = Reconciled(v) - (IF row.user = v THEN row.charged ELSE 0)
    BY <2>1, <2>2, <2>3, ReconcileCharge
  <2>5. balance'[v] = balance[v] + (IF u = v THEN c ELSE 0)
    BY <1>0, <2>1, <2>2 DEF WalletTypeOK
  <2>6. QED
    BY <1>0, <2>2, <2>4, <2>5
<1>4. ASSUME NEW k \in HoldKeys, NEW c \in Amounts, NEW lk \in LedgerKeys,
             SettleHold(k, c, lk)
      PROVE  balance'[v] = Reconciled(v)'
  <2> PICK h \in holds, n \in Nat :
        LET row == [key |-> lk, user |-> h.user, hold |-> k, kind |-> "chat",
                    charged |-> n, day |-> Today]
        IN  /\ h \in Hold /\ h.key = k /\ h.status = "active" /\ n <= h.credits
            /\ balance' = [balance EXCEPT ![h.user] = @ - n]
            /\ holds' = (holds \ {h}) \cup {Ended(h, "settled")}
            /\ row \notin ledger
            /\ ledger' = ledger \cup {row}
            /\ UNCHANGED <<accounts, purchases, refunds>>
    BY <1>4, SettleWrites
  <2> DEFINE row == [key |-> lk, user |-> h.user, hold |-> k, kind |-> "chat",
                     charged |-> n, day |-> Today]
  <2>1. row \notin ledger /\ ledger' = ledger \cup {row} /\ purchases' = purchases
    OBVIOUS
  <2>2. row \in LedgerRow /\ row.user = h.user /\ row.charged = n
    BY TodayInRange DEF LedgerRow, WalletTypeOK, Hold
  <2>3. balance'[v] = balance[v] - (IF h.user = v THEN n ELSE 0)
    BY <1>0 DEF WalletTypeOK
  <2> HIDE DEF row
  <2>4. Reconciled(v)' = Reconciled(v) - (IF row.user = v THEN row.charged ELSE 0)
    BY <2>1, <2>2, ReconcileCharge
  <2>5. QED
    BY <1>0, <2>2, <2>3, <2>4
<1>5. ASSUME NEW u \in Users, EraseUser(u)
      PROVE  balance'[v] = Reconciled(v)'
  <2>1. CASE v = u
    <3>1. /\ Grants(v)' = {} /\ Reversals(v)' = {}
          /\ Charges(v)' = {} /\ Returns(v)' = {}
      BY <1>5, <2>1 DEF EraseUser, Grants, Reversals, Charges, Returns
    <3>2. Reconciled(v)' = 0
      BY <3>1, LedgerSumsEmpty DEF Reconciled, GrantSum, ReversalSum, ChargeSum, ReturnSum
    <3>3. QED
      BY <1>5, <2>1, <3>2 DEF EraseUser, WalletTypeOK
  <2>2. CASE v # u
    <3>1. /\ Grants(v)' = Grants(v) /\ Reversals(v)' = Reversals(v)
          /\ Charges(v)' = Charges(v) /\ Returns(v)' = Returns(v)
      BY <1>5, <2>2 DEF EraseUser, Grants, Reversals, Charges, Returns
    <3>2. balance'[v] = balance[v]
      BY <1>5, <2>2 DEF EraseUser, WalletTypeOK
    <3>3. QED
      BY <1>0, <3>1, <3>2 DEF Reconciled, GrantSum, ReversalSum, ChargeSum, ReturnSum
  <2>3. QED
    BY <2>1, <2>2
<1>6. QED
  BY <1>1, <1>2, <1>3, <1>4, <1>5, LedgerSteps

\* The balance never drifts from the two append-only ledgers: no call that
\* writes to one of them leaves the wallet row as it was, nor the reverse.
THEOREM WalletReconciles == WalletSpec => []Reconciles
<1>1. WalletInit => Reconciles
  <2> SUFFICES ASSUME WalletInit, NEW v \in Users
               PROVE  balance[v] = Reconciled(v)
    BY DEF Reconciles, Reconciled, GrantSum, ReversalSum, ChargeSum, ReturnSum
  <2>1. Grants(v) = {} /\ Reversals(v) = {} /\ Charges(v) = {} /\ Returns(v) = {}
    BY DEF WalletInit, Grants, Reversals, Charges, Returns
  <2>2. Reconciled(v) = 0
    BY <2>1, LedgerSumsEmpty DEF Reconciled
  <2>3. QED
    BY <2>2 DEF WalletInit
<1>2. WalletTypeOK /\ FiniteTables /\ Reconciles /\ [WalletNext]_walletVars
        => Reconciles'
  BY ReconcilesStep
<1>3. QED
  BY <1>1, <1>2, WalletTypes, PTL DEF WalletSpec

-----------------------------------------------------------------------------
(* What a user gets back on a day *)

\* A refund row returns credits.
RefundsReturn == \A r \in ledger : r.kind = "refund" => -r.charged \in Nat

\* The counter the code consults says what the ledger says.  The ceiling is
\* not inductive without it: the guard reads the counter and not the rows.
RefundsCounted ==
  \A u \in Users, d \in 0 .. MaxTime :
    /\ refunds[u][d].count = Cardinality(RefundRows(u, d))
    /\ refunds[u][d].credits = ReturnSum(RefundRows(u, d))

RefundInv == RefundsReturn /\ RefundsCounted /\ RefundCeiling

\* A day without a refund returned nothing.
LEMMA RefundSums ==
  ASSUME WalletTypeOK, FiniteTables, RefundsReturn, NEW u \in Users, NEW d
  PROVE  /\ IsFiniteSet(RefundRows(u, d))
         /\ \A r \in RefundRows(u, d) : -r.charged \in Nat
         /\ Cardinality(RefundRows(u, d)) \in Nat
         /\ Cardinality(RefundRows(u, d)) = 0 => ReturnSum(RefundRows(u, d)) = 0
<1>1. RefundRows(u, d) \in SUBSET ledger
  BY DEF RefundRows
<1>2. IsFiniteSet(RefundRows(u, d))
  BY <1>1, FS_Subset DEF FiniteTables
<1>3. \A r \in RefundRows(u, d) : -r.charged \in Nat
  BY DEF RefundRows, RefundsReturn
<1>4. Cardinality(RefundRows(u, d)) \in Nat
  BY <1>2, FS_CardinalityType
<1>5. ASSUME Cardinality(RefundRows(u, d)) = 0
      PROVE  ReturnSum(RefundRows(u, d)) = 0
  <2>1. RefundRows(u, d) = {}
    BY <1>2, <1>5, FS_EmptySet
  <2>2. QED
    BY <2>1, LedgerSumsEmpty
<1>6. QED
  BY <1>2, <1>3, <1>4, <1>5

\* A refund is counted on its day, and the guard keeps that day's ceiling.
LEMMA RefundCounts ==
  ASSUME WalletTypeOK, FiniteTables, RefundInv,
         NEW u \in Users, NEW k \in HoldKeys, NEW c \in Amounts,
         NEW lk \in LedgerKeys, Refund(u, k, c, lk)
  PROVE  RefundInv'
<1> USE WalletAssumption
<1> DEFINE row == [key |-> lk, user |-> u, hold |-> k, kind |-> "refund",
                   charged |-> -c, day |-> Today]
<1>1. /\ ledger' = ledger \cup {row}
      /\ row \notin ledger
      /\ refunds' = [refunds EXCEPT ![u][Today] =
                       [count |-> @.count + 1, credits |-> @.credits + c]]
      /\ WithinCeiling(u, c)
  BY DEF Refund, RowsKeyed
<1>2. /\ row.user = u /\ row.kind = "refund" /\ row.day = Today
      /\ row.charged = -c /\ c \in Nat /\ -row.charged = c
  OBVIOUS
<1>3. Today \in 0 .. MaxTime
  BY TodayInRange DEF WalletTypeOK
<1> HIDE DEF row
<1>4. RefundsReturn'
  BY <1>1, <1>2 DEF RefundInv, RefundsReturn
<1>5. ASSUME NEW v \in Users, NEW d \in 0 .. MaxTime
      PROVE  /\ refunds'[v][d].count = Cardinality(RefundRows(v, d)')
             /\ refunds'[v][d].credits = ReturnSum(RefundRows(v, d)')
             /\ Cardinality(RefundRows(v, d)') <= MaxRefundCount
             /\ ReturnSum(RefundRows(v, d)') <= MaxRefundCredits
  <2>0. /\ refunds[v][d].count = Cardinality(RefundRows(v, d))
        /\ refunds[v][d].credits = ReturnSum(RefundRows(v, d))
        /\ Cardinality(RefundRows(v, d)) <= MaxRefundCount
        /\ ReturnSum(RefundRows(v, d)) <= MaxRefundCredits
    BY DEF RefundInv, RefundsCounted, RefundCeiling, ReturnSum
  <2>1. CASE v = u /\ d = Today
    <3>1. RefundRows(v, d)' = RefundRows(v, d) \cup {row} /\ row \notin RefundRows(v, d)
      BY <1>1, <1>2, <2>1 DEF RefundRows
    <3>2. /\ IsFiniteSet(RefundRows(v, d))
          /\ \A r \in RefundRows(v, d) \cup {row} : -r.charged \in Nat
          /\ Cardinality(RefundRows(v, d)) \in Nat
          /\ Cardinality(RefundRows(v, d)) = 0 => ReturnSum(RefundRows(v, d)) = 0
      BY <1>2, RefundSums DEF RefundInv
    <3>3. /\ ReturnSum(RefundRows(v, d)) \in Nat
          /\ ReturnSum(RefundRows(v, d) \cup {row}) = ReturnSum(RefundRows(v, d)) + c
      BY <1>2, <3>1, <3>2, ReturnInsert
    <3>4. Cardinality(RefundRows(v, d) \cup {row}) = Cardinality(RefundRows(v, d)) + 1
      BY <3>1, <3>2, FS_AddElement
    <3>5. /\ refunds'[v][d].count = refunds[v][d].count + 1
          /\ refunds'[v][d].credits = refunds[v][d].credits + c
      BY <1>1, <1>3, <2>1 DEF WalletTypeOK
    <3>6. /\ c <= MaxRefundCredits
          /\ \/ refunds[v][d].count = 0
             \/ /\ refunds[v][d].count + 1 <= MaxRefundCount
                /\ refunds[v][d].credits + c <= MaxRefundCredits
      BY <1>1, <2>1 DEF WithinCeiling
    <3>7. QED
      BY <1>2, <2>0, <3>1, <3>2, <3>3, <3>4, <3>5, <3>6
  <2>2. CASE ~(v = u /\ d = Today)
    <3>1. RefundRows(v, d)' = RefundRows(v, d)
      BY <1>1, <1>2, <2>2 DEF RefundRows
    <3>2. refunds'[v][d] = refunds[v][d]
      BY <1>1, <1>3, <2>2 DEF WalletTypeOK
    <3>3. QED
      BY <2>0, <3>1, <3>2
  <2>3. QED
    BY <2>1, <2>2
<1>6. QED
  BY <1>4, <1>5 DEF RefundInv, RefundsCounted, RefundCeiling, ReturnSum, RefundRows

LEMMA RefundStep ==
  ASSUME WalletTypeOK, FiniteTables, RefundInv, [WalletNext]_walletVars
  PROVE  RefundInv'
<1>1. ASSUME UNCHANGED <<ledger, refunds>>
      PROVE  RefundInv'
  BY <1>1 DEF RefundInv, RefundsReturn, RefundsCounted, RefundCeiling, RefundRows, ReturnSum
<1>2. ASSUME NEW u \in Users, NEW k \in HoldKeys, NEW c \in Amounts,
             NEW lk \in LedgerKeys, Refund(u, k, c, lk)
      PROVE  RefundInv'
  BY <1>2, RefundCounts
<1>3. ASSUME NEW k \in HoldKeys, NEW c \in Amounts, NEW lk \in LedgerKeys,
             SettleHold(k, c, lk)
      PROVE  RefundInv'
  <2>1. PICK row : /\ row.kind = "chat"
                   /\ ledger' = ledger \cup {row}
                   /\ refunds' = refunds
    BY <1>3 DEF SettleHold
  <2>2. \A v, d : RefundRows(v, d)' = RefundRows(v, d)
    BY <2>1 DEF RefundRows
  <2>3. QED
    BY <2>1, <2>2 DEF RefundInv, RefundsReturn, RefundsCounted, RefundCeiling, ReturnSum
<1>4. ASSUME NEW u \in Users, EraseUser(u)
      PROVE  RefundInv'
  <2>1. /\ ledger' = {r \in ledger : r.user # u}
        /\ refunds' = [refunds EXCEPT ![u] =
                         [d \in 0 .. MaxTime |-> [count |-> 0, credits |-> 0]]]
    BY <1>4 DEF EraseUser
  <2>2. RefundsReturn'
    BY <2>1 DEF RefundInv, RefundsReturn
  <2>3. ASSUME NEW v \in Users, NEW d \in 0 .. MaxTime
        PROVE  /\ refunds'[v][d].count = Cardinality(RefundRows(v, d)')
               /\ refunds'[v][d].credits = ReturnSum(RefundRows(v, d)')
               /\ Cardinality(RefundRows(v, d)') <= MaxRefundCount
               /\ ReturnSum(RefundRows(v, d)') <= MaxRefundCredits
    <3>1. CASE v = u
      <4>1. RefundRows(v, d)' = {}
        BY <2>1, <3>1 DEF RefundRows
      <4>2. Cardinality({}) = 0 /\ ReturnSum({}) = 0
        BY FS_EmptySet, LedgerSumsEmpty
      <4>3. refunds'[v][d] = [count |-> 0, credits |-> 0]
        BY <2>1, <3>1 DEF WalletTypeOK
      <4>4. QED
        BY <4>1, <4>2, <4>3, WalletAssumption
    <3>2. CASE v # u
      <4>1. RefundRows(v, d)' = RefundRows(v, d)
        BY <2>1, <3>2 DEF RefundRows
      <4>2. refunds'[v][d] = refunds[v][d]
        BY <2>1, <3>2 DEF WalletTypeOK
      <4>3. QED
        BY <4>1, <4>2 DEF RefundInv, RefundsCounted, RefundCeiling, ReturnSum
    <3>3. QED
      BY <3>1, <3>2
  <2>4. QED
    BY <2>2, <2>3 DEF RefundInv, RefundsCounted, RefundCeiling, ReturnSum, RefundRows
<1>5. ASSUME NEW u \in Users, NEW d \in Deltas, NEW ref \in Refs,
             CreditBalance(u, d, ref)
      PROVE  RefundInv'
  BY <1>1, <1>5 DEF CreditBalance
<1>6. QED
  BY <1>1, <1>2, <1>3, <1>4, <1>5, LedgerSteps

\* On any one day a user gets back no more, and no more often, than the
\* daily ceiling allows, counted in the ledger.
THEOREM WalletRefunds == WalletSpec => []RefundInv
<1>1. WalletInit => RefundInv
  <2> SUFFICES ASSUME WalletInit
               PROVE  RefundInv
    OBVIOUS
  <2>1. \A u \in Users, d \in 0 .. MaxTime : RefundRows(u, d) = {}
    BY DEF WalletInit, RefundRows
  <2>2. Cardinality({}) = 0 /\ ReturnSum({}) = 0
    BY FS_EmptySet, LedgerSumsEmpty
  <2>3. \A u \in Users, d \in 0 .. MaxTime : refunds[u][d] = [count |-> 0, credits |-> 0]
    BY DEF WalletInit
  <2>4. ASSUME NEW u \in Users, NEW d \in 0 .. MaxTime
        PROVE  /\ refunds[u][d].count = Cardinality(RefundRows(u, d))
               /\ refunds[u][d].credits = ReturnSum(RefundRows(u, d))
               /\ Cardinality(RefundRows(u, d)) <= MaxRefundCount
               /\ ReturnSum(RefundRows(u, d)) <= MaxRefundCredits
    BY <2>1, <2>2, <2>3, WalletAssumption
  <2>5. RefundsReturn
    BY DEF WalletInit, RefundsReturn
  <2>6. QED
    BY <2>4, <2>5 DEF RefundInv, RefundsCounted, RefundCeiling, ReturnSum
<1>2. WalletTypeOK /\ FiniteTables /\ RefundInv /\ [WalletNext]_walletVars => RefundInv'
  BY RefundStep
<1>3. QED
  BY <1>1, <1>2, WalletTypes, PTL DEF WalletSpec

COROLLARY WalletRefundCeiling == WalletSpec => []RefundCeiling
BY WalletRefunds, PTL DEF RefundInv

-----------------------------------------------------------------------------
(* The wallet implements the escrow account *)

\* The refinement mapping of Account: what a user can spend, and the escrow
\* an active hold stands for.
Spendable == [u \in Users |-> Available(u)]
EscrowOf(h) == [key |-> h.key, user |-> h.user, credits |-> h.credits]
ActiveHolds == {g \in holds : g.status = "active"}
Escrow == {EscrowOf(h) : h \in ActiveHolds}

RefinementInv == WalletInv /\ HoldKeysUnique

\* Two active holds never stand for the same escrow: a key names one hold.
LEMMA EscrowOfHold ==
  ASSUME RefinementInv
  PROVE  /\ ActiveHolds \subseteq Hold
         /\ \A h \in ActiveHolds : /\ EscrowOf(h).key = h.key
                                   /\ EscrowOf(h).user = h.user
                                   /\ EscrowOf(h).credits = h.credits
         /\ \A g, h \in ActiveHolds : EscrowOf(g) = EscrowOf(h) => g = h
<1>1. ActiveHolds \subseteq Hold /\ ActiveHolds \subseteq holds
  BY DEF ActiveHolds, RefinementInv, WalletInv, WalletTypeOK
<1>2. \A h \in ActiveHolds : /\ EscrowOf(h).key = h.key
                             /\ EscrowOf(h).user = h.user
                             /\ EscrowOf(h).credits = h.credits
  BY DEF EscrowOf
<1>3. ASSUME NEW g \in ActiveHolds, NEW h \in ActiveHolds, EscrowOf(g) = EscrowOf(h)
      PROVE  g = h
  BY <1>1, <1>2, <1>3 DEF RefinementInv, HoldKeysUnique
<1>4. QED
  BY <1>1, <1>2, <1>3

\* Removing holds from the active ones removes just their escrows.
LEMMA EscrowWithout ==
  ASSUME RefinementInv, NEW R \in SUBSET ActiveHolds
  PROVE  {EscrowOf(h) : h \in ActiveHolds \ R} = Escrow \ {EscrowOf(h) : h \in R}
BY EscrowOfHold DEF Escrow

\* What a set of holds reserves is what their escrows hold.
LEMMA EscrowCredits ==
  ASSUME RefinementInv, NEW R \in SUBSET ActiveHolds
  PROVE  Total([e \in {EscrowOf(h) : h \in R} |-> e.credits]) = Credits(R)
<1> DEFINE E == {EscrowOf(h) : h \in R}
           f == [h \in R |-> h.credits]
           g == [e \in E |-> e.credits]
           b == [h \in R |-> EscrowOf(h)]
<1>1. IsFiniteSet(R) /\ \A h \in R : h.credits \in Nat /\ EscrowOf(h).credits = h.credits
  <2>1. R \in SUBSET holds
    BY DEF ActiveHolds
  <2>2. IsFiniteSet(R)
    BY <2>1, FS_Subset DEF RefinementInv, WalletInv, FiniteTables
  <2>3. QED
    BY <2>2, EscrowOfHold DEF Hold
<1>2. Table(f)
  BY <1>1, CreditsTable
<1>3. b \in Bijection(R, E)
  <2>1. b \in [R -> E] /\ \A e \in E : \E h \in R : b[h] = e
    OBVIOUS
  <2>2. \A g1, h1 \in R : b[g1] = b[h1] => g1 = h1
    BY EscrowOfHold
  <2> HIDE DEF b, E
  <2>3. QED
    BY <2>1, <2>2, Fun_IsBij
<1>4. IsFiniteSet(E)
  <2> HIDE DEF b, E
  <2>1. QED
    BY <1>1, <1>3, FS_Bijection DEF ExistsBijection
<1>5. Table(g)
  BY <1>1, <1>4 DEF Table
<1>6. /\ DOMAIN f = R /\ DOMAIN g = E
      /\ \A h \in R : g[b[h]] = f[h]
  BY <1>1
<1> HIDE DEF f, g, b, E
<1>7. Total(f) = Total(g)
  BY <1>2, <1>3, <1>5, <1>6, TotalRenamed
<1>8. QED
  BY <1>7 DEF f, g, E, Credits

\* The sums of the abstract account are the sums of the wallet.
LEMMA AccountTotal == ASSUME NEW f PROVE Account!Total(f) = Total(f)
BY DEF Account!Total, Account!Units, Account!Cardinality, Total, Units, Cardinality

LEMMA SpendableTypes ==
  ASSUME RefinementInv
  PROVE  /\ Spendable \in [Users -> Nat]
         /\ \A u \in Users : /\ Spendable[u] = balance[u] - held[u]
                             /\ balance[u] \in Int /\ held[u] \in Int
BY DEF RefinementInv, WalletInv, Solvent, WalletTypeOK, Spendable, Available

\* One user's columns change: one account changes.
LEMMA SpendableMove ==
  ASSUME RefinementInv, NEW u \in Users, NEW x,
         balance'[u] - held'[u] = x,
         \A v \in Users \ {u} : balance'[v] = balance[v] /\ held'[v] = held[v]
  PROVE  Spendable' = [Spendable EXCEPT ![u] = x]
<1>1. Spendable' = [v \in Users |-> balance'[v] - held'[v]]
  BY DEF Spendable, Available
<1>2. Spendable = [v \in Users |-> balance[v] - held[v]]
  BY DEF Spendable, Available
<1>3. QED
  BY <1>1, <1>2

\* The columns after an update of one user's row.
LEMMA ColumnMove ==
  ASSUME RefinementInv, NEW u \in Users, NEW b, NEW h
  PROVE  /\ balance' = [balance EXCEPT ![u] = b] =>
              balance'[u] = b /\ \A v \in Users \ {u} : balance'[v] = balance[v]
         /\ held' = [held EXCEPT ![u] = h] =>
              held'[u] = h /\ \A v \in Users \ {u} : held'[v] = held[v]
BY DEF RefinementInv, WalletInv, WalletTypeOK

\* The operations of the account, in terms of the mapping.
LEMMA AccountDeposit ==
  ASSUME NEW u \in Users, NEW n, Spendable[u] \in Nat, n \in Nat,
         Spendable' = [Spendable EXCEPT ![u] = @ + n], Escrow' = Escrow
  PROVE  Account!Deposit(u)
<1>1. Spendable'[u] = Spendable[u] + n
  BY DEF Spendable
<1>2. Spendable'[u] \in Nat /\ Spendable'[u] >= Spendable[u]
  BY <1>1
<1>3. Spendable' = [Spendable EXCEPT ![u] = Spendable'[u]]
  BY <1>1
<1>4. QED
  BY <1>2, <1>3 DEF Account!Deposit, Spendable, Escrow, ActiveHolds, EscrowOf

LEMMA AccountMoves ==
  ASSUME NEW u \in Users, NEW n
  PROVE  /\ /\ Spendable' = [Spendable EXCEPT ![u] = @ - n]
            /\ Escrow' = Escrow
            => Account!Withdraw(u, n)
         /\ \A k : /\ \A e \in Escrow : e.key # k
                   /\ Spendable' = [Spendable EXCEPT ![u] = @ - n]
                   /\ Escrow' = Escrow \cup {[key |-> k, user |-> u, credits |-> n]}
                   => Account!Reserve(k, u, n)
         /\ \A e : /\ Spendable' = [Spendable EXCEPT ![e.user] = @ + (e.credits - n)]
                   /\ Escrow' = Escrow \ {e}
                   => Account!Capture(e, n)
         /\ /\ Spendable' = [Spendable EXCEPT ![u] = 0]
            /\ Escrow' = {e \in Escrow : e.user # u}
            => Account!Close(u)
BY DEF Account!Withdraw, Account!Reserve, Account!Capture, Account!Close,
       Spendable, Escrow, ActiveHolds, EscrowOf

LEMMA AccountCancel ==
  ASSUME NEW E,
         Spendable' = [u \in Users |-> Spendable[u]
                         + Total([e \in {g \in E : g.user = u} |-> e.credits])],
         Escrow' = Escrow \ E
  PROVE  Account!Cancel(E)
<1>1. Spendable' = [u \in Users |-> Spendable[u]
                      + Account!Total([e \in {g \in E : g.user = u} |-> e.credits])]
  BY AccountTotal
<1>2. QED
  BY <1>1 DEF Account!Cancel, Spendable, Escrow, ActiveHolds, EscrowOf

\* An operation of the wallet and the operation of the account it implements.
LEMMA RefineCredit ==
  ASSUME RefinementInv, RefinementInv', NEW u \in Users, NEW d \in Deltas,
         NEW ref \in Refs, CreditBalance(u, d, ref)
  PROVE  \/ UNCHANGED <<Spendable, Escrow>>
         \/ Account!Deposit(u)
         \/ \E n \in 0 .. Spendable[u] : Account!Withdraw(u, n)
<1>0. Escrow' = Escrow /\ held' = held
  BY DEF CreditBalance, Escrow, ActiveHolds
<1>1. CASE balance' = balance
  BY <1>0, <1>1 DEF Spendable, Available
<1>2. CASE balance' # balance
  <2>1. balance[u] + d >= held[u] /\ balance' = [balance EXCEPT ![u] = @ + d]
    BY <1>2 DEF CreditBalance
  <2>2. d \in Int
    BY WalletAssumption
  <2>3. Spendable' = [Spendable EXCEPT ![u] = Spendable[u] + d]
    <3>1. /\ balance'[u] = balance[u] + d
          /\ \A v \in Users \ {u} : balance'[v] = balance[v]
      BY <2>1, ColumnMove
    <3>2. balance'[u] - held'[u] = Spendable[u] + d
      BY <1>0, <2>2, <3>1, SpendableTypes
    <3>3. QED
      BY <1>0, <3>1, <3>2, SpendableMove
  <2>4. CASE d >= 0
    <3>1. d \in Nat /\ Spendable[u] \in Nat
      BY <2>2, <2>4, SpendableTypes
    <3>2. QED
      BY <1>0, <2>3, <3>1, AccountDeposit
  <2>5. CASE d < 0
    <3>1. -d \in 0 .. Spendable[u]
      BY <2>1, <2>2, <2>5, SpendableTypes
    <3>2. Spendable' = [Spendable EXCEPT ![u] = @ - (-d)]
      <4>1. Spendable[u] + d = Spendable[u] - (-d)
        BY <2>2, SpendableTypes
      <4>2. QED
        BY <2>3, <4>1
    <3>3. Account!Withdraw(u, -d)
      BY <1>0, <3>2, AccountMoves
    <3>4. QED
      BY <3>1, <3>3
  <2>6. QED
    BY <2>2, <2>4, <2>5
<1>3. QED
  BY <1>1, <1>2

LEMMA RefinePlace ==
  ASSUME RefinementInv, NEW u \in Users, NEW k \in HoldKeys, NEW c \in Amounts,
         PlaceHold(u, k, c)
  PROVE  \E n \in 0 .. Spendable[u] : Account!Reserve(k, u, n)
<1> DEFINE row == [key |-> k, user |-> u, credits |-> c, status |-> "active",
                   expiresAt |-> now + HoldTtl]
<1>1. /\ HoldsKeyed(k) = {}
      /\ Available(u) >= c
      /\ held' = [held EXCEPT ![u] = @ + c]
      /\ balance' = balance
      /\ holds' = holds \cup {row}
  BY DEF PlaceHold, HoldReused
<1>2. c \in Nat
  BY WalletAssumption
<1>3. /\ row.status = "active"
      /\ EscrowOf(row) = [key |-> k, user |-> u, credits |-> c]
  BY DEF EscrowOf
<1> HIDE DEF row
<1>4. ActiveHolds' = ActiveHolds \cup {row}
  BY <1>1, <1>3 DEF ActiveHolds
<1>5. Escrow' = Escrow \cup {[key |-> k, user |-> u, credits |-> c]}
  BY <1>3, <1>4 DEF Escrow
<1>6. \A e \in Escrow : e.key # k
  BY <1>1, EscrowOfHold DEF Escrow, ActiveHolds, HoldsKeyed
<1>7. Spendable' = [Spendable EXCEPT ![u] = Spendable[u] - c]
  <2>1. held'[u] = held[u] + c /\ \A v \in Users \ {u} : held'[v] = held[v]
    BY <1>1, ColumnMove
  <2>2. balance'[u] - held'[u] = Spendable[u] - c
    BY <1>1, <1>2, <2>1, SpendableTypes
  <2>3. QED
    BY <1>1, <2>1, <2>2, SpendableMove
<1>8. c \in 0 .. Spendable[u]
  BY <1>1, <1>2, SpendableTypes DEF Spendable
<1>9. Account!Reserve(k, u, c)
  BY <1>5, <1>6, <1>7, AccountMoves
<1>10. QED
  BY <1>8, <1>9

LEMMA RefineSettle ==
  ASSUME RefinementInv, NEW k \in HoldKeys, NEW c \in Amounts, NEW lk \in LedgerKeys,
         SettleHold(k, c, lk)
  PROVE  \E e \in Escrow : \E n \in 0 .. e.credits : Account!Capture(e, n)
<1> PICK h \in HoldsKeyed(k) :
      /\ h.status = "active"
      /\ balance' = [balance EXCEPT ![h.user] = @ - Debit(h, c)]
      /\ held' = [held EXCEPT ![h.user] = @ - h.credits]
      /\ holds' = (holds \ {h}) \cup {Ended(h, "settled")}
  BY DEF SettleHold
<1> DEFINE n == Debit(h, c)
           e == EscrowOf(h)
<1>1. h \in holds /\ h \in ActiveHolds /\ h \in Hold
  BY EscrowOfHold DEF HoldsKeyed, ActiveHolds
<1>2. n \in Nat /\ n <= h.credits /\ h.credits \in Nat /\ h.user \in Users
  BY <1>1, DebitBounds DEF Hold
<1>3. e.user = h.user /\ e.credits = h.credits /\ e \in Escrow
  BY <1>1, EscrowOfHold DEF Escrow
<1>4. balance' = [balance EXCEPT ![h.user] = @ - n]
  OBVIOUS
<1> HIDE DEF n
<1>5. ActiveHolds' = ActiveHolds \ {h}
  <2>1. Ended(h, "settled").status # "active"
    BY <1>1, EndedHold
  <2>2. QED
    BY <2>1 DEF ActiveHolds
<1>6. Escrow' = Escrow \ {e}
  <2>1. {h} \in SUBSET ActiveHolds
    BY <1>1
  <2>2. {EscrowOf(g) : g \in ActiveHolds \ {h}} = Escrow \ {EscrowOf(g) : g \in {h}}
    BY <2>1, EscrowWithout
  <2>3. QED
    BY <1>5, <2>2 DEF Escrow
<1> HIDE DEF e
<1>7. Spendable' = [Spendable EXCEPT ![e.user] = Spendable[e.user] + (e.credits - n)]
  <2>1. /\ balance'[h.user] = balance[h.user] - n
        /\ held'[h.user] = held[h.user] - h.credits
        /\ \A v \in Users \ {h.user} : balance'[v] = balance[v] /\ held'[v] = held[v]
    <3>1. /\ balance'[h.user] = balance[h.user] - n
          /\ \A v \in Users \ {h.user} : balance'[v] = balance[v]
      BY <1>2, <1>4, ColumnMove
    <3>2. /\ held'[h.user] = held[h.user] - h.credits
          /\ \A v \in Users \ {h.user} : held'[v] = held[v]
      BY <1>2, ColumnMove
    <3>3. QED
      BY <3>1, <3>2
  <2>2. balance'[h.user] - held'[h.user] = Spendable[h.user] + (h.credits - n)
    BY <1>2, <2>1, SpendableTypes
  <2>3. QED
    BY <1>2, <1>3, <2>1, <2>2, SpendableMove
<1>8. Account!Capture(e, n)
  BY <1>2, <1>6, <1>7, AccountMoves
<1>9. QED
  BY <1>2, <1>3, <1>8

LEMMA RefineRelease ==
  ASSUME RefinementInv, NEW H, ReleaseAll(H)
  PROVE  \E E \in SUBSET Escrow : Account!Cancel(E)
<1> DEFINE R == {h \in H \cap holds : h.status = "active"}
           E == {EscrowOf(h) : h \in R}
           Of(u) == {g \in R : g.user = u}
<1>1. R \in SUBSET ActiveHolds
  BY DEF ActiveHolds
<1>2. E \in SUBSET Escrow
  BY <1>1 DEF Escrow
<1>3. /\ held' = [u \in Users |-> held[u] - Credits(Of(u))]
      /\ holds' = (holds \ R) \cup {Ended(h, "released") : h \in R}
      /\ balance' = balance
  BY DEF ReleaseAll, Credits
<1>4. ActiveHolds' = ActiveHolds \ R
  <2>1. \A h \in R : Ended(h, "released").status # "active"
    BY <1>1, EscrowOfHold, EndedHold
  <2>2. QED
    BY <1>3, <2>1 DEF ActiveHolds
<1>5. Escrow' = Escrow \ E
  <2>1. {EscrowOf(g) : g \in ActiveHolds \ R} = Escrow \ {EscrowOf(g) : g \in R}
    BY <1>1, EscrowWithout
  <2>2. QED
    BY <1>4, <2>1 DEF Escrow
<1>6. ASSUME NEW u \in Users
      PROVE  /\ Total([e \in {g \in E : g.user = u} |-> e.credits]) = Credits(Of(u))
             /\ Credits(Of(u)) \in Nat
  <2>1. Of(u) \in SUBSET ActiveHolds
    BY <1>1
  <2>2. {g \in E : g.user = u} = {EscrowOf(h) : h \in Of(u)}
    BY <1>1, EscrowOfHold
  <2>3. Of(u) \in SUBSET holds /\ \A h \in Of(u) : h.credits \in Nat
    BY <2>1, EscrowOfHold DEF ActiveHolds, Hold
  <2>4. IsFiniteSet(Of(u))
    BY <2>3, FS_Subset DEF RefinementInv, WalletInv, FiniteTables
  <2> HIDE DEF Of, E
  <2>5. QED
    BY <2>1, <2>2, <2>3, <2>4, EscrowCredits, CreditsTable
<1> HIDE DEF R, E, Of
<1>7. \A u \in Users : Spendable'[u] = Spendable[u] + Credits(Of(u))
  <2> SUFFICES ASSUME NEW u \in Users
               PROVE  Spendable'[u] = Spendable[u] + Credits(Of(u))
    OBVIOUS
  <2>1. Spendable'[u] = balance'[u] - held'[u]
    BY DEF Spendable, Available
  <2>2. balance'[u] = balance[u] /\ held'[u] = held[u] - Credits(Of(u))
    BY <1>3
  <2>3. Credits(Of(u)) \in Nat
    BY <1>6
  <2>4. QED
    BY <2>1, <2>2, <2>3, SpendableTypes
<1>8. Spendable' = [u \in Users |-> Spendable[u]
                      + Total([e \in {g \in E : g.user = u} |-> e.credits])]
  <2>1. Spendable' = [u \in Users |-> Spendable'[u]]
    BY DEF Spendable
  <2>2. \A u \in Users : Spendable'[u] = Spendable[u]
                      + Total([e \in {g \in E : g.user = u} |-> e.credits])
    BY <1>6, <1>7
  <2>3. QED
    BY <2>1, <2>2
<1>9. QED
  BY <1>2, <1>5, <1>8, AccountCancel

LEMMA RefineErase ==
  ASSUME RefinementInv, NEW u \in Users, EraseUser(u)
  PROVE  Account!Close(u)
<1>1. /\ balance' = [balance EXCEPT ![u] = 0]
      /\ held' = [held EXCEPT ![u] = 0]
      /\ holds' = {h \in holds : h.user # u}
  BY DEF EraseUser
<1>2. Spendable' = [Spendable EXCEPT ![u] = 0]
  <2>1. /\ balance'[u] = 0 /\ held'[u] = 0
        /\ \A v \in Users \ {u} : balance'[v] = balance[v] /\ held'[v] = held[v]
    BY <1>1, ColumnMove
  <2>2. balance'[u] - held'[u] = 0
    BY <2>1
  <2>3. QED
    BY <2>1, <2>2, SpendableMove
<1>3. ActiveHolds' = {h \in ActiveHolds : h.user # u}
  BY <1>1 DEF ActiveHolds
<1>4. Escrow' = {e \in Escrow : e.user # u}
  BY <1>3, EscrowOfHold DEF Escrow
<1>5. QED
  BY <1>2, <1>4, AccountMoves

LEMMA RefineRefund ==
  ASSUME RefinementInv, NEW u \in Users, NEW k \in HoldKeys, NEW c \in Amounts,
         NEW lk \in LedgerKeys, Refund(u, k, c, lk)
  PROVE  Account!Deposit(u)
<1>1. /\ balance' = [balance EXCEPT ![u] = @ + c]
      /\ held' = held /\ holds' = holds
  BY DEF Refund
<1>2. c \in Nat /\ Spendable[u] \in Nat
  BY SpendableTypes, WalletAssumption
<1>3. Spendable' = [Spendable EXCEPT ![u] = Spendable[u] + c]
  <2>1. balance'[u] = balance[u] + c /\ \A v \in Users \ {u} : balance'[v] = balance[v]
    BY <1>1, ColumnMove
  <2>2. balance'[u] - held'[u] = Spendable[u] + c
    BY <1>1, <1>2, <2>1, SpendableTypes
  <2>3. QED
    BY <1>1, <2>1, <2>2, SpendableMove
<1>4. Escrow' = Escrow
  BY <1>1 DEF Escrow, ActiveHolds
<1>5. QED
  BY <1>2, <1>3, <1>4, AccountDeposit

\* Every step of the wallet is a step of the account or none.
LEMMA RefinementStep ==
  ASSUME RefinementInv, RefinementInv', [WalletNext]_walletVars
  PROVE  [Account!EscrowNext]_(Account!escrowVars)
<1> DEFINE Moves == \/ UNCHANGED <<Spendable, Escrow>>
                    \/ Account!EscrowNext
<1>1. ASSUME NEW u \in Users, UserStep(u)
      PROVE  Moves
  <2>1. ASSUME NEW d \in Deltas, NEW ref \in Refs, CreditBalance(u, d, ref)
        PROVE  Moves
    <3>1. CASE \E n \in 0 .. Spendable[u] : Account!Withdraw(u, n)
      BY <3>1 DEF Account!EscrowNext, Spendable
    <3>2. CASE UNCHANGED <<Spendable, Escrow>> \/ Account!Deposit(u)
      BY <3>2 DEF Account!EscrowNext
    <3>3. QED
      BY <2>1, <3>1, <3>2, RefineCredit
  <2>2. ASSUME NEW k \in HoldKeys, NEW c \in Amounts, PlaceHold(u, k, c)
        PROVE  Moves
    <3>1. PICK n \in 0 .. Spendable[u] : Account!Reserve(k, u, n)
      BY <2>2, RefinePlace
    <3>2. QED
      BY <3>1 DEF Account!EscrowNext, Spendable
  <2>3. ASSUME NEW k \in HoldKeys, NEW c \in Amounts, NEW lk \in LedgerKeys,
               Refund(u, k, c, lk)
        PROVE  Moves
    BY <2>3, RefineRefund DEF Account!EscrowNext
  <2>4. ASSUME EraseUser(u)
        PROVE  Moves
    BY <2>4, RefineErase DEF Account!EscrowNext
  <2>5. ASSUME EnsureWallet(u)
        PROVE  Moves
    BY <2>5 DEF EnsureWallet, Spendable, Available, Escrow, ActiveHolds
  <2> HIDE DEF Moves
  <2>6. QED
    BY <1>1, <2>1, <2>2, <2>3, <2>4, <2>5 DEF UserStep
<1>2. ASSUME NEW H, ReleaseAll(H)
      PROVE  Moves
  <2>1. PICK E \in SUBSET Escrow : Account!Cancel(E)
    BY <1>2, RefineRelease
  <2>2. QED
    BY <2>1 DEF Account!EscrowNext, Escrow, ActiveHolds, EscrowOf
<1>3. ASSUME NEW k \in HoldKeys, NEW c \in Amounts, NEW lk \in LedgerKeys,
             SettleHold(k, c, lk)
      PROVE  Moves
  <2>1. PICK e \in Escrow : \E n \in 0 .. e.credits : Account!Capture(e, n)
    BY <1>3, RefineSettle
  <2>2. QED
    BY <2>1 DEF Account!EscrowNext, Escrow, ActiveHolds, EscrowOf
<1>4. Tick \/ UNCHANGED walletVars => Moves
  BY DEF Tick, walletVars, Spendable, Available, Escrow, ActiveHolds
<1>5. Moves
  <2> HIDE DEF Moves
  <2>1. QED
    BY <1>1, <1>2, <1>3, <1>4
    DEF WalletNext, HoldStep, ReleaseHold, ReapExpiredHolds, ReapCutShort
<1>6. QED
  BY <1>5 DEF Account!escrowVars, Spendable, Escrow, ActiveHolds, EscrowOf

\* The wallet implements the escrow account: forgetting rows, keys, clocks
\* and counters, its every behaviour is one of an account that pays out what
\* came in, from what is spendable or from an escrow that exists, once.
THEOREM WalletImplementsEscrow == WalletSpec => ImplementsEscrow
<1>1. WalletInit => Account!EscrowInit
  <2> SUFFICES ASSUME WalletInit
               PROVE  Account!EscrowInit
    OBVIOUS
  <2>1. [u \in Users |-> Available(u)] = [u \in Users |-> 0]
    BY DEF WalletInit, Available
  <2>2. QED
    BY <2>1 DEF WalletInit, Account!EscrowInit
<1>2. WalletInit => HoldKeysUnique
  BY DEF WalletInit, HoldKeysUnique
<1>3. WalletInv /\ HoldKeysUnique /\ [WalletNext]_walletVars => HoldKeysUnique'
  BY HoldKeysStep DEF WalletInv
<1>4. WalletInv /\ HoldKeysUnique <=> RefinementInv
  BY DEF RefinementInv
<1>5. RefinementInv /\ RefinementInv' /\ [WalletNext]_walletVars
        => [Account!EscrowNext]_(Account!escrowVars)
  BY RefinementStep
<1>6. QED
  BY <1>1, <1>2, <1>3, <1>4, <1>5, WalletInvariant, PTL
  DEF WalletSpec, ImplementsEscrow, Account!EscrowSpec

=============================================================================
